-------------------------- MODULE ChatSessionProofs --------------------------
(***************************************************************************)
(* The chat session, for any number of users, requests, transfers and      *)
(* faults: type correctness, branches of the conversation, the host after  *)
(* concurrent transfers and the end of a freeze.                           *)
(***************************************************************************)
EXTENDS ChatSession, TLAPS

-----------------------------------------------------------------------------
(* The inductive invariant, in parts                                       *)

CallRecord == [op : Op \cup {"none"}, at : Nat, target : Nat, user : User,
               host : User, meta : SUBSET Flag]

\* A request is served by a handler of its own, at one of its store calls,
\* with a turn or a transfer that exists.
CallFits(r) ==
    call[r] # Idle =>
        /\ call[r].op \in Op
        /\ call[r].at \in 1 .. Len(Program[call[r].op])
        /\ call[r].op \in TreeOp => call[r].target \in Turn
        /\ call[r].op \in TransferOp =>
               call[r].target \in Transfer /\ status[call[r].target] # "none"

TypeInv ==
    /\ parent \in Seq(Nat)
    /\ TypeOK
    /\ call \in [Request -> CallRecord]
    /\ \A r \in Request : CallFits(r)

\* Nobody has answered the active leaf, unless a user went back to it.
LeafIsNew == \A k \in Turn : parent[k] = leaf => leaf \in asked

TreeInv == LeafIsNew /\ BranchesAreAsked

\* A handler that has finished its transfer and will seat the nominee.
SeatDue(r) ==
    \/ call[r].op = "import" /\ call[r].at \in {2, 3}
    \/ call[r].op = "complete" /\ call[r].at = 3

SeatInv ==
    /\ \A t \in finished : status[t] # "none"
    /\ \A r \in Request : call[r].op \in {"import", "complete"} /\ call[r].at = 3
           => call[r].target \in finished
    /\ faults = 0 => host \in Rightful \/ \E r \in Request : SeatDue(r)

\* A handler that will take the freeze flag away.
ThawDue(r) ==
    \/ call[r].op = "import" /\ call[r].at \in 2 .. 5
    \/ call[r].op = "complete" /\ call[r].at \in 3 .. 5

FreezeInv ==
    faults = 0 /\ ~lost /\ "transfer_frozen" \in meta =>
        With("frozen") # {} \/ \E r \in Request : ThawDue(r)

-----------------------------------------------------------------------------
(* The table of handlers                                                   *)

\* Which handler is at which of its calls when it makes a store call.
LEMMA ProgramTable ==
  ASSUME NEW op \in Op, NEW i \in 1 .. Len(Program[op])
  PROVE  /\ Program[op][i] \in {"fork", "look", "select"} => op \in TreeOp
         /\ Program[op][i] \in {"freeze", "snapshot"} => op = "accept"
         /\ Program[op][i] = "export" => op = "export"
         /\ Program[op][i] = "create" => op = "request"
         /\ Program[op][i] = "restore" => op = "import" /\ i = 1
         /\ Program[op][i] = "check" => op \in {"complete", "decline"} /\ i = 1
         /\ Program[op][i] = "finish" => op \in {"import", "complete"} /\ i = 2
         /\ Program[op][i] = "seat" => op \in {"import", "complete"} /\ i = 3
         /\ Program[op][i] = "decline" => op = "decline"
         /\ Program[op][i] = "read" =>
                \/ op \in {"import", "complete"} /\ i = 4
                \/ op \in {"accept", "publish", "approve"}
         /\ Program[op][i] = "write" =>
                \/ op \in {"import", "complete"} /\ i = 5
                \/ op \in {"accept", "publish", "approve"}
         /\ Program[op][i] = "append" =>
                op \notin {"complete"} /\ (op = "import" => i = 6)
         /\ op = "import" => (i = 1 <=> Program[op][i] = "restore")
         /\ Len(Program["import"]) = 6 /\ Len(Program["complete"]) = 5
<1> op \in {"message", "fork", "select", "switch", "request", "accept", "export",
            "import", "complete", "decline", "publish", "approve"}
  BY DEF Op, Program
<1>13. Len(Program["import"]) = 6 /\ Len(Program["complete"]) = 5
  BY DEF Program
<1>1. CASE op = "message"
  <2>1. Program[op] = <<"append", "append">>
    BY <1>1 DEF Program
  <2> QED
    BY <1>1, <1>13, <2>1 DEF TreeOp
<1>2. CASE op = "fork"
  <2>1. Program[op] = <<"fork">>
    BY <1>2 DEF Program
  <2> QED
    BY <1>2, <1>13, <2>1 DEF TreeOp
<1>3. CASE op = "select"
  <2>1. Program[op] = <<"look", "select">>
    BY <1>3 DEF Program
  <2> QED
    BY <1>3, <1>13, <2>1 DEF TreeOp
<1>4. CASE op = "switch"
  <2>1. Program[op] = <<"fork", "append">>
    BY <1>4 DEF Program
  <2> QED
    BY <1>4, <1>13, <2>1 DEF TreeOp
<1>5. CASE op = "request"
  <2>1. Program[op] = <<"create", "append">>
    BY <1>5 DEF Program
  <2> QED
    BY <1>5, <1>13, <2>1 DEF TreeOp
<1>6. CASE op = "accept"
  <2>1. Program[op] = <<"snapshot", "freeze", "read", "write", "append">>
    BY <1>6 DEF Program
  <2> QED
    BY <1>6, <1>13, <2>1 DEF TreeOp
<1>7. CASE op = "export"
  <2>1. Program[op] = <<"export">>
    BY <1>7 DEF Program
  <2> QED
    BY <1>7, <1>13, <2>1 DEF TreeOp
<1>8. CASE op = "import"
  <2>1. Program[op] = <<"restore", "finish", "seat", "read", "write", "append">>
    BY <1>8 DEF Program
  <2> QED
    BY <1>8, <1>13, <2>1 DEF TreeOp
<1>9. CASE op = "complete"
  <2>1. Program[op] = <<"check", "finish", "seat", "read", "write">>
    BY <1>9 DEF Program
  <2> QED
    BY <1>9, <1>13, <2>1 DEF TreeOp
<1>10. CASE op = "decline"
  <2>1. Program[op] = <<"check", "decline", "append">>
    BY <1>10 DEF Program
  <2> QED
    BY <1>10, <1>13, <2>1 DEF TreeOp
<1>11. CASE op = "publish"
  <2>1. Program[op] = <<"read", "write">>
    BY <1>11 DEF Program
  <2> QED
    BY <1>11, <1>13, <2>1 DEF TreeOp
<1>12. CASE op = "approve"
  <2>1. Program[op] = <<"read", "write">>
    BY <1>12 DEF Program
  <2> QED
    BY <1>12, <1>13, <2>1 DEF TreeOp
<1> QED
  BY <1>1, <1>2, <1>3, <1>4, <1>5, <1>6, <1>7, <1>8, <1>9, <1>10, <1>11, <1>12

\* What a store call makes of the handler that makes it.
LEMMA ProceedFits ==
  ASSUME TypeInv, NEW r \in Request, NEW c \in CallRecord,
         c.op \in Op, c.at \in 1 .. Len(Program[c.op]), Proceed(r, c)
  PROVE  /\ call' \in [Request -> CallRecord]
         /\ \A q \in Request \ {r} : call'[q] = call[q]
         /\ \/ call'[r] = Idle
            \/ call'[r] = [c EXCEPT !.at = c.at + 1] /\ c.at + 1 \in 1 .. Len(Program[c.op])
<1>1. Len(Program[c.op]) \in Nat
  BY DEF Op, Program
<1>2. Idle \in CallRecord
  BY SessionAssumption DEF Idle, CallRecord
<1>3. [c EXCEPT !.at = c.at + 1] \in CallRecord
  BY DEF CallRecord
<1>4. CASE c.at = Len(Program[c.op])
  BY <1>2, <1>4 DEF Proceed, End, TypeInv
<1>5. CASE c.at # Len(Program[c.op])
  <2>1. c.at + 1 \in 1 .. Len(Program[c.op])
    BY <1>1, <1>5
  <2>2. call' = [call EXCEPT ![r] = [c EXCEPT !.at = c.at + 1]]
    BY <1>5 DEF Proceed
  <2> QED
    BY <1>3, <2>1, <2>2 DEF TypeInv
<1> QED
  BY <1>4, <1>5

\* A request that makes a store call is served by a handler that has it.
LEMMA Serving ==
  ASSUME TypeInv, NEW r \in Request, NEW step, At(r, step)
  PROVE  /\ call[r] \in CallRecord /\ call[r] # Idle
         /\ call[r].op \in Op
         /\ call[r].at \in 1 .. Len(Program[call[r].op])
         /\ Program[call[r].op][call[r].at] = step
         /\ call[r].op \in TreeOp => call[r].target \in Turn
         /\ call[r].op \in TransferOp =>
                call[r].target \in Transfer /\ status[call[r].target] # "none"
<1>1. "none" \notin Op
  BY DEF Op, Program
<1>2. call[r] # Idle
  BY <1>1 DEF At, Idle
<1> QED
  BY <1>2 DEF At, TypeInv, CallFits

\* What Step() does to the calls.
Advances(r) ==
    /\ call' \in [Request -> CallRecord]
    /\ \A q \in Request \ {r} : call'[q] = call[q]
    /\ \/ call'[r] = Idle
       \/ /\ call'[r] \in CallRecord
          /\ call'[r].op = call[r].op
          /\ call'[r].at = call[r].at + 1
          /\ call'[r].at \in 1 .. Len(Program[call[r].op])
          /\ call'[r].target = call[r].target

\* A store call that hands h and m on, and the handler goes on or answers.
LEMMA ProceedAdvances ==
  ASSUME TypeInv, NEW r \in Request, NEW step, At(r, step),
         NEW h \in User, NEW m \in SUBSET Flag,
         Proceed(r, [call[r] EXCEPT !.host = h, !.meta = m])
  PROVE  Advances(r)
<1> DEFINE c == [call[r] EXCEPT !.host = h, !.meta = m]
<1>1. call[r] \in CallRecord /\ call[r].op \in Op
      /\ call[r].at \in 1 .. Len(Program[call[r].op])
  BY Serving
<1>2. c \in CallRecord /\ c.op = call[r].op /\ c.at = call[r].at
      /\ c.target = call[r].target
  BY <1>1 DEF CallRecord
<1>3. Proceed(r, c)
  OBVIOUS
<1> HIDE DEF c
<1>4. /\ call' \in [Request -> CallRecord]
      /\ \A q \in Request \ {r} : call'[q] = call[q]
      /\ \/ call'[r] = Idle
         \/ call'[r] = [c EXCEPT !.at = c.at + 1] /\ c.at + 1 \in 1 .. Len(Program[c.op])
  BY <1>1, <1>2, <1>3, ProceedFits
<1>5. LET d == [c EXCEPT !.at = c.at + 1]
      IN  d.op = c.op /\ d.at = c.at + 1 /\ d.target = c.target
  BY <1>2 DEF CallRecord
<1> QED
  BY <1>2, <1>4, <1>5 DEF Advances

\* A store call that hands on what the handler has.
LEMMA StepAdvances ==
  ASSUME TypeInv, NEW r \in Request, NEW step, At(r, step), Step(r)
  PROVE  Advances(r) /\ UNCHANGED <<calls, faults>>
<1>1. call[r] \in CallRecord
  BY Serving
<1>2. call[r].host \in User /\ call[r].meta \in SUBSET Flag
      /\ [call[r] EXCEPT !.host = call[r].host, !.meta = call[r].meta] = call[r]
  BY <1>1 DEF CallRecord
<1>3. PICK h \in User, m \in SUBSET Flag : h = call[r].host /\ m = call[r].meta
  BY <1>2
<1>4. Proceed(r, [call[r] EXCEPT !.host = h, !.meta = m]) /\ UNCHANGED <<calls, faults>>
  BY <1>2, <1>3 DEF Step
<1> QED
  BY <1>4, ProceedAdvances

\* A handler that answers early.
LEMMA EndAdvances ==
  ASSUME TypeInv, NEW r \in Request, End(r)
  PROVE  Advances(r) /\ call'[r] = Idle
<1>1. Idle \in CallRecord
  BY SessionAssumption DEF Idle, CallRecord
<1> QED
  BY <1>1 DEF End, TypeInv, Advances

-----------------------------------------------------------------------------
(* Types                                                                   *)

\* Turns and transfers only come to exist, so that every call still fits.
LEMMA CallsFit ==
  ASSUME TypeInv, NEW r \in Request, Advances(r), call[r].op \in Op, CallFits(r),
         Turn \subseteq Turn',
         \A t \in Transfer : status[t] # "none" => status'[t] # "none"
  PROVE  /\ call' \in [Request -> CallRecord]
         /\ \A q \in Request : CallFits(q)'
         /\ \A q \in Request : call'[q] = Idle \/ call'[q].op \in Op
<1>1. \A q \in Request \ {r} : CallFits(q)'
  BY DEF Advances, TypeInv, CallFits
<1>2. CallFits(r)'
  <2>1. "none" \notin Op
    BY DEF Op, Program
  <2>2. call[r] # Idle
    BY <2>1 DEF Idle
  <2> QED
    BY <2>2 DEF Advances, CallFits
<1> QED
  BY <1>1, <1>2 DEF Advances, CallFits

\* What the steps that touch neither turns nor transfers keep.
LEMMA TypeKept ==
  ASSUME TypeInv, NEW r \in Request, Advances(r), call[r].op \in Op, CallFits(r),
         UNCHANGED <<treeVars, hostVars, calls>>,
         meta' \in SUBSET Flag, lost' \in BOOLEAN, faults' \in 0 .. MaxFaults
  PROVE  TypeInv'
<1>1. UNCHANGED <<parent, leaf, asked, host, status, to, bundle, finished, calls>>
  BY DEF treeVars, hostVars
<1>2. Turn' = Turn
  BY <1>1 DEF Turn
<1>3. /\ call' \in [Request -> CallRecord]
      /\ \A q \in Request : CallFits(q)'
      /\ \A q \in Request : call'[q] = Idle \/ call'[q].op \in Op
  BY <1>1, <1>2, CallsFit
<1>4. TypeOK'
  BY <1>1, <1>2, <1>3 DEF TypeInv, TypeOK
<1> QED
  BY <1>1, <1>3, <1>4 DEF TypeInv

\* A request whose handler fits keeps the types.
LEMMA ArriveType ==
  ASSUME TypeInv, NEW r \in Request, NEW c \in CallRecord, Arrive(r, c),
         c.op \in Op, c.at = 1,
         c.op \in TreeOp => c.target \in Turn,
         c.op \in TransferOp => c.target \in Transfer /\ status[c.target] # "none"
  PROVE  TypeInv'
<1>1. UNCHANGED <<parent, leaf, asked, host, status, to, bundle, finished, meta, lost, faults>>
  BY DEF Arrive, treeVars, hostVars, metaVars
<1>2. Turn' = Turn
  BY <1>1 DEF Turn
<1>3. /\ call' \in [Request -> CallRecord]
      /\ \A q \in Request \ {r} : call'[q] = call[q]
      /\ call'[r] = c
  BY DEF Arrive, TypeInv
<1>4. c.at \in 1 .. Len(Program[c.op])
  BY DEF Op, Program
<1>5. \A q \in Request : CallFits(q)'
  BY <1>1, <1>2, <1>3, <1>4 DEF TypeInv, CallFits
<1>6. calls' \in 0 .. MaxCalls
  BY SessionAssumption DEF Arrive, TypeInv, TypeOK
<1>7. TypeOK'
  BY <1>1, <1>2, <1>3, <1>6 DEF TypeInv, TypeOK
<1> QED
  BY <1>1, <1>3, <1>5, <1>7 DEF TypeInv

\* The record of a new request.
LEMMA CallType ==
  ASSUME NEW op \in Op, NEW k \in Nat
  PROVE  /\ Call(op, k) \in CallRecord /\ Call(op, k).op = op
         /\ Call(op, k).at = 1 /\ Call(op, k).target = k
  BY SessionAssumption DEF Call, Idle, CallRecord

\* Every request that arrives has a handler that fits: its turn or transfer
\* exists.
LEMMA ArrivalsType ==
  ASSUME TypeInv, NEW r \in Request,
         ArrivePlain(r) \/ ArriveTree(r) \/ ArriveNomination(r) \/ ArriveTransfer(r)
  PROVE  \E c \in CallRecord :
             /\ Arrive(r, c) /\ c.op \in Op /\ c.at = 1
             /\ c.op \in TreeOp => c.target \in Turn
             /\ c.op \in TransferOp => c.target \in Transfer /\ status[c.target] # "none"
<1> Transfer \subseteq Nat /\ Turn \subseteq Nat
  BY SessionAssumption DEF Transfer, Turn, TypeInv
<1>1. CASE ArrivePlain(r)
  <2> PICK op \in {"message", "publish", "approve"} : Arrive(r, Call(op, 0))
    BY <1>1 DEF ArrivePlain
  <2> op \in Op
    BY DEF Op, Program
  <2> QED
    BY CallType DEF TreeOp, TransferOp
<1>2. CASE ArriveTree(r)
  <2> PICK op \in TreeOp, k \in Turn : Arrive(r, Call(op, k))
    BY <1>2 DEF ArriveTree
  <2> op \in Op
    BY DEF Op, Program, TreeOp
  <2> QED
    BY CallType DEF TreeOp, TransferOp
<1>3. CASE ArriveNomination(r)
  <2> PICK u \in User : Arrive(r, [Call("request", 0) EXCEPT !.user = u])
    BY <1>3 DEF ArriveNomination
  <2> DEFINE c == [Call("request", 0) EXCEPT !.user = u]
  <2> "request" \in Op
    BY DEF Op, Program
  <2>1. c \in CallRecord /\ c.op = "request" /\ c.at = 1
    BY CallType DEF CallRecord
  <2> QED
    BY <2>1 DEF TreeOp, TransferOp
<1>4. CASE ArriveTransfer(r)
  <2> PICK t \in Transfer :
          /\ status[t] # "none"
          /\ \/ \E op \in TransferOp \ {"import"} : Arrive(r, Call(op, t))
             \/ \E b \in bundle \cup Manifest :
                    Arrive(r, [Call("import", t) EXCEPT !.host = b.host, !.meta = b.meta])
    BY <1>4 DEF ArriveTransfer
  <2>1. CASE \E op \in TransferOp \ {"import"} : Arrive(r, Call(op, t))
    <3> PICK op \in TransferOp \ {"import"} : Arrive(r, Call(op, t))
      BY <2>1
    <3>1. op \in Op /\ op \notin TreeOp
      BY DEF Op, Program, TreeOp, TransferOp
    <3>2. Call(op, t) \in CallRecord /\ Call(op, t).op = op /\ Call(op, t).at = 1
          /\ Call(op, t).target = t
      BY <3>1, CallType
    <3> QED
      BY <3>1, <3>2
  <2>2. CASE \E b \in bundle \cup Manifest :
                 Arrive(r, [Call("import", t) EXCEPT !.host = b.host, !.meta = b.meta])
    <3> PICK b \in bundle \cup Manifest :
                 Arrive(r, [Call("import", t) EXCEPT !.host = b.host, !.meta = b.meta])
      BY <2>2
    <3> DEFINE c == [Call("import", t) EXCEPT !.host = b.host, !.meta = b.meta]
    <3> "import" \in Op
      BY DEF Op, Program
    <3>1. b.host \in User /\ b.meta \in SUBSET Flag
      BY SessionAssumption DEF TypeInv, TypeOK, Bundle
    <3>2. Call("import", t) \in CallRecord /\ Call("import", t).op = "import"
          /\ Call("import", t).at = 1 /\ Call("import", t).target = t
      BY CallType
    <3>3. c \in CallRecord /\ c.op = "import" /\ c.at = 1 /\ c.target = t
      BY <3>1, <3>2 DEF CallRecord
    <3> QED
      BY <3>3 DEF TreeOp, TransferOp
  <2> QED
    BY <2>1, <2>2
<1> QED
  BY <1>1, <1>2, <1>3, <1>4

\* A step that touches turns, or transfers, and goes on.
LEMMA TypeOfStep ==
  ASSUME TypeInv, NEW r \in Request, NEW step, At(r, step), Advances(r),
         Turn \subseteq Turn',
         \A t \in Transfer : status[t] # "none" => status'[t] # "none",
         parent' \in Seq(Nat), \A k \in Turn' : parent'[k] \in 0 .. (k - 1),
         leaf' \in 0 .. Len(parent'), asked' \subseteq Turn',
         host' \in User, finished' \subseteq Transfer, meta' \subseteq Flag, lost' \in BOOLEAN,
         status' \in [Transfer -> Status], to' \in [Transfer -> User],
         bundle' \subseteq Bundle,
         UNCHANGED calls, faults' \in 0 .. MaxFaults
  PROVE  TypeInv'
<1>1. CallFits(r) /\ call[r].op \in Op
  BY Serving DEF TypeInv
<1>2. /\ call' \in [Request -> CallRecord]
      /\ \A q \in Request : CallFits(q)'
      /\ \A q \in Request : call'[q] = Idle \/ call'[q].op \in Op
  BY <1>1, CallsFit
<1>3. TypeOK'
  BY <1>2 DEF TypeInv, TypeOK
<1> QED
  BY <1>2, <1>3 DEF TypeInv

\* An append makes the turn after the last one, and it answers the leaf.
LEMMA Appended ==
  ASSUME TypeInv, NEW r \in Request, AppendTurn(r)
  PROVE  /\ Turn' = Turn \cup {Len(parent) + 1} /\ Turn = 1 .. Len(parent)
         /\ Len(parent) \in Nat /\ leaf \in Nat /\ leaf <= Len(parent)
         /\ Len(parent') = Len(parent) + 1 /\ parent' \in Seq(Nat)
         /\ \A k \in Turn : parent'[k] = parent[k]
         /\ parent'[Len(parent) + 1] = leaf /\ leaf' = Len(parent) + 1
  BY DEF TypeInv, TypeOK, AppendTurn, Turn

\* The store calls on the turns and the active leaf.
LEMMA TreeType ==
  ASSUME TypeInv, NEW r \in Request,
         AppendTurn(r) \/ ForkAtTurn(r) \/ SetActiveLeaf(r)
  PROVE  TypeInv'
<1>1. CASE AppendTurn(r)
  <2>1. At(r, "append") /\ Advances(r) /\ UNCHANGED <<calls, faults>>
    BY <1>1, StepAdvances DEF AppendTurn
  <2>2. UNCHANGED <<asked, host, status, to, bundle, finished, meta, lost>>
    BY <1>1 DEF AppendTurn, hostVars, metaVars
  <2> DEFINE n == Len(parent) + 1
  <2>a. /\ Turn' = Turn \cup {n} /\ Turn = 1 .. Len(parent)
        /\ Len(parent) \in Nat /\ leaf \in Nat /\ leaf <= Len(parent)
        /\ Len(parent') = n /\ parent' \in Seq(Nat)
        /\ \A k \in Turn : parent'[k] = parent[k]
        /\ parent'[n] = leaf /\ leaf' = n
    BY <1>1, Appended
  <2>3. \A k \in Turn' : parent'[k] \in 0 .. (k - 1)
    <3> TAKE k \in Turn'
    <3>1. CASE k \in Turn
      <4>1. parent'[k] = parent[k] /\ parent[k] \in 0 .. (k - 1)
        BY <2>a, <3>1 DEF TypeInv, TypeOK
      <4> QED
        BY <4>1
    <3>2. CASE k = n
      BY <2>a, <3>2
    <3> QED
      BY <2>a, <3>1, <3>2
  <2>4. asked' \subseteq Turn' /\ leaf' \in 0 .. Len(parent')
    BY <2>2, <2>a DEF TypeInv, TypeOK
  <2> QED
    BY <1>1, <2>1, <2>2, <2>3, <2>4, Appended, TypeOfStep DEF TypeInv, TypeOK
<1>2. CASE ForkAtTurn(r) \/ SetActiveLeaf(r)
  <2>1. PICK step \in {"fork", "select"} : At(r, step) /\ Step(r)
    BY <1>2 DEF ForkAtTurn, SetActiveLeaf
  <2>2. Advances(r) /\ UNCHANGED <<calls, faults>>
    BY <2>1, StepAdvances
  <2>3. /\ UNCHANGED <<parent, host, status, to, bundle, finished, meta, lost>>
        /\ leaf' = call[r].target /\ asked' = asked \cup {call[r].target}
    BY <1>2 DEF ForkAtTurn, SetActiveLeaf, hostVars, metaVars
  <2>4. call[r].target \in Turn
    BY <2>1, Serving, ProgramTable
  <2>5. Turn' = Turn /\ Turn = 1 .. Len(parent) /\ Len(parent) \in Nat
    BY <2>3 DEF Turn, TypeInv
  <2>6. leaf' \in 0 .. Len(parent') /\ asked' \subseteq Turn'
    <3>1. leaf' \in 1 .. Len(parent) /\ parent' = parent
      BY <2>3, <2>4, <2>5
    <3>2. asked' \subseteq Turn'
      BY <2>3, <2>4, <2>5 DEF TypeInv, TypeOK
    <3> QED
      BY <2>5, <3>1, <3>2
  <2> QED
    BY <2>1, <2>2, <2>3, <2>5, <2>6, TypeOfStep DEF TypeInv, TypeOK
<1> QED
  BY <1>1, <1>2

\* The store calls on the transfer and on the session's host.
LEMMA HostType ==
  ASSUME TypeInv, NEW r \in Request,
         \/ CreateTransfer(r) \/ Freeze(r) \/ Export(r) \/ Restore(r)
         \/ Finish(r) \/ Seat(r)
  PROVE  TypeInv' /\ Advances(r) /\ UNCHANGED <<calls, faults, treeVars>>
<1>1. PICK step \in {"create", "freeze", "export", "restore", "finish", "seat"} :
          At(r, step) /\ Step(r)
  BY DEF CreateTransfer, Freeze, Export, Restore, Finish, Seat
<1>2. Advances(r) /\ UNCHANGED <<calls, faults>>
  BY <1>1, StepAdvances
<1>3. UNCHANGED <<treeVars, parent, leaf, asked, lost>>
  BY DEF CreateTransfer, Freeze, Export, Restore, Finish, Seat, treeVars, metaVars
<1>4. Turn' = Turn
  BY <1>3 DEF Turn
<1>5. /\ call[r] \in CallRecord /\ call[r].op \in Op
      /\ call[r].op \in TransferOp => call[r].target \in Transfer /\ status[call[r].target] # "none"
  BY <1>1, Serving
<1>6. At(r, "create") \/ At(r, "restore") \/ call[r].op \in TransferOp
  BY <1>1, Serving, ProgramTable DEF TransferOp
<1>7. call[r].host \in User /\ call[r].meta \in SUBSET Flag /\ call[r].user \in User
  BY <1>5 DEF CallRecord
<1>8. /\ host' \in User /\ finished' \subseteq Transfer /\ meta' \subseteq Flag
      /\ status' \in [Transfer -> Status] /\ to' \in [Transfer -> User]
      /\ bundle' \subseteq Bundle
      /\ \A t \in Transfer : status[t] # "none" => status'[t] # "none"
  <2>1. CASE CreateTransfer(r)
    BY <1>7, <2>1 DEF CreateTransfer, TypeInv, TypeOK, Status, Bundle, metaVars
  <2>2. CASE Freeze(r)
    <3>1. call[r].target \in Transfer
      BY <1>5, <2>2, Serving, ProgramTable DEF Freeze, TransferOp
    <3> QED
      BY <1>7, <2>2, <3>1 DEF Freeze, TypeInv, TypeOK, Status, Bundle, metaVars
  <2>3. CASE Export(r)
    <3>1. call[r].target \in Transfer /\ status[call[r].target] # "none"
      BY <1>5, <2>3, Serving, ProgramTable DEF Export, TransferOp
    <3> QED
      BY <1>7, <2>3, <3>1 DEF Export, TypeInv, TypeOK, Status, Bundle, metaVars
  <2>4. CASE Restore(r)
    BY <1>7, <2>4 DEF Restore, TypeInv, TypeOK, Status, Bundle
  <2>5. CASE Finish(r)
    <3>1. call[r].target \in Transfer
      BY <1>5, <2>5, Serving, ProgramTable DEF Finish, TransferOp
    <3> QED
      BY <1>7, <2>5, <3>1 DEF Finish, TypeInv, TypeOK, Status, Bundle, metaVars
  <2>6. CASE Seat(r)
    <3>1. call[r].target \in Transfer
      BY <1>5, <2>6, Serving, ProgramTable DEF Seat, TransferOp
    <3> QED
      BY <1>7, <2>6, <3>1 DEF Seat, TypeInv, TypeOK, Status, Bundle, metaVars
  <2> QED
    BY <2>1, <2>2, <2>3, <2>4, <2>5, <2>6
<1>9. TypeInv'
  BY <1>1, <1>2, <1>3, <1>4, <1>8, TypeOfStep DEF TypeInv, TypeOK
<1> QED
  BY <1>2, <1>3, <1>9

\* The store calls that read, and the two that write what was read before.
LEMMA ReadType ==
  ASSUME TypeInv, NEW r \in Request,
         \/ LookAtLeaf(r) \/ CheckStatus(r) \/ Snapshot(r) \/ ReadMeta(r)
         \/ WriteMeta(r) \/ Decline(r)
  PROVE  TypeInv' /\ Advances(r) /\ UNCHANGED <<calls, faults, treeVars>>
<1>1. PICK step \in {"look", "check", "snapshot", "read", "write", "decline"} : At(r, step)
  BY DEF LookAtLeaf, CheckStatus, Snapshot, ReadMeta, WriteMeta, Decline
<1>2. /\ call[r] \in CallRecord /\ call[r].op \in Op /\ CallFits(r)
      /\ call[r].at \in 1 .. Len(Program[call[r].op])
      /\ Program[call[r].op][call[r].at] = step
      /\ call[r].op \in TransferOp => call[r].target \in Transfer /\ status[call[r].target] # "none"
  BY <1>1, Serving DEF TypeInv
<1>3. /\ call[r].host \in User /\ call[r].meta \in SUBSET Flag
      /\ host \in User /\ meta \in SUBSET Flag
  BY <1>2 DEF CallRecord, TypeInv, TypeOK
<1>4. UNCHANGED <<calls, faults, treeVars>>
  BY DEF LookAtLeaf, CheckStatus, Snapshot, ReadMeta, WriteMeta, Decline, Step
<1>5. Advances(r)
  <2>1. CASE Step(r)
    BY <1>1, <2>1, StepAdvances
  <2>2. CASE End(r)
    BY <2>2, EndAdvances
  <2>3. CASE \E h \in User, m \in SUBSET Flag :
                 Proceed(r, [call[r] EXCEPT !.host = h, !.meta = m])
    <3> PICK h \in User, m \in SUBSET Flag :
                 Proceed(r, [call[r] EXCEPT !.host = h, !.meta = m])
      BY <2>3
    <3> QED
      BY <1>1, ProceedAdvances
  <2>4. CASE Snapshot(r)
    BY <1>3, <2>3, <2>4 DEF Snapshot
  <2>5. CASE ReadMeta(r)
    <3>1. [call[r] EXCEPT !.meta = meta] = [call[r] EXCEPT !.host = call[r].host, !.meta = meta]
      BY <1>2 DEF CallRecord
    <3>2. End(r) \/ Proceed(r, [call[r] EXCEPT !.meta = meta])
      BY <2>5 DEF ReadMeta
    <3> QED
      BY <1>3, <2>2, <2>3, <3>1, <3>2
  <2> QED
    BY <2>1, <2>2, <2>4, <2>5 DEF LookAtLeaf, CheckStatus, WriteMeta, Decline
<1>6. faults' \in 0 .. MaxFaults
  BY <1>4 DEF TypeInv, TypeOK
<1>7. ASSUME Decline(r) PROVE TypeInv'
  <2>1. call[r].target \in Transfer
    BY <1>1, <1>2, <1>7, Serving, ProgramTable DEF Decline, TransferOp
  <2>2. /\ UNCHANGED <<parent, leaf, asked, host, to, bundle, finished, meta, lost>>
        /\ \/ status' = [status EXCEPT ![call[r].target] = "declined"]
           \/ status' = status
    BY <1>7 DEF Decline, treeVars, metaVars
  <2>3. /\ status' \in [Transfer -> Status]
        /\ \A t \in Transfer : status[t] # "none" => status'[t] # "none"
    BY <2>1, <2>2 DEF TypeInv, TypeOK, Status
  <2>4. Turn' = Turn
    BY <2>2 DEF Turn
  <2>6. /\ \A k \in Turn' : parent'[k] \in 0 .. (k - 1)
        /\ parent' \in Seq(Nat) /\ leaf' \in 0 .. Len(parent') /\ asked' \subseteq Turn'
        /\ host' \in User /\ finished' \subseteq Transfer /\ meta' \subseteq Flag
        /\ lost' \in BOOLEAN /\ to' \in [Transfer -> User] /\ bundle' \subseteq Bundle
    BY <2>2, <2>4 DEF TypeInv, TypeOK
  <2>7. Turn \subseteq Turn' /\ UNCHANGED calls
    BY <1>4, <2>4
  <2> QED
    BY <1>1, <1>5, <1>6, <2>3, <2>6, <2>7, TypeOfStep
<1>8. ASSUME WriteMeta(r) PROVE TypeInv'
  <2>1. Program[call[r].op][call[r].at] = "write"
    BY <1>8, Serving DEF WriteMeta
  <2>2. call[r].op \in {"accept", "import", "complete", "publish", "approve"}
    BY <1>2, <2>1, ProgramTable
  <2>3. meta' \in SUBSET Flag
    BY <1>3, <1>8, <2>2 DEF WriteMeta, Changed, Flag
  <2>4. lost' \in BOOLEAN
    BY <1>8 DEF WriteMeta, TypeInv, TypeOK
  <2>5. UNCHANGED <<treeVars, hostVars, calls>>
    BY <1>4, <1>8 DEF WriteMeta
  <2> QED
    BY <1>2, <1>5, <1>6, <2>3, <2>4, <2>5, TypeKept
<1>9. ASSUME UNCHANGED <<hostVars, metaVars>> PROVE TypeInv'
  <2>1. meta' \in SUBSET Flag /\ lost' \in BOOLEAN
    BY <1>9 DEF metaVars, TypeInv, TypeOK
  <2>2. UNCHANGED <<treeVars, hostVars, calls>>
    BY <1>4, <1>9
  <2> QED
    BY <1>2, <1>5, <1>6, <2>1, <2>2, TypeKept
<1>10. TypeInv'
  BY <1>7, <1>8, <1>9 DEF LookAtLeaf, CheckStatus, Snapshot, ReadMeta
<1> QED
  BY <1>4, <1>5, <1>10

\* A handler that fails leaves everything but itself.
LEMMA FailType ==
  ASSUME TypeInv, NEW r \in Request, HandlerFails(r)
  PROVE  TypeInv' /\ Advances(r) /\ call'[r] = Idle /\ faults' # 0
<1>1. Advances(r) /\ call'[r] = Idle
  BY EndAdvances DEF HandlerFails
<1>2. CallFits(r) /\ call[r].op \in Op
  BY DEF HandlerFails, TypeInv, CallFits
<1>3. /\ UNCHANGED <<treeVars, hostVars, calls>>
      /\ meta' \in SUBSET Flag /\ lost' \in BOOLEAN
      /\ faults' \in 0 .. MaxFaults /\ faults' # 0
  BY SessionAssumption DEF HandlerFails, TypeInv, TypeOK, metaVars
<1> QED
  BY <1>1, <1>2, <1>3, TypeKept

Arrival(r) == ArrivePlain(r) \/ ArriveTree(r) \/ ArriveNomination(r) \/ ArriveTransfer(r)
TreeCall(r) == AppendTurn(r) \/ ForkAtTurn(r) \/ SetActiveLeaf(r)
HostCall(r) == \/ CreateTransfer(r) \/ Freeze(r) \/ Export(r) \/ Restore(r)
               \/ Finish(r) \/ Seat(r)
ReadCall(r) == \/ LookAtLeaf(r) \/ CheckStatus(r) \/ Snapshot(r) \/ ReadMeta(r)
               \/ WriteMeta(r) \/ Decline(r)

\* The next-state relation, sorted.
LEMMA NextCases ==
  ASSUME Next
  PROVE  \E r \in Request : \/ Arrival(r) \/ TreeCall(r) \/ HostCall(r)
                            \/ ReadCall(r) \/ HandlerFails(r)
<1> PICK r \in Request :
      \/ ArrivePlain(r) \/ ArriveTree(r) \/ ArriveNomination(r) \/ ArriveTransfer(r)
      \/ AppendTurn(r) \/ ForkAtTurn(r) \/ LookAtLeaf(r) \/ SetActiveLeaf(r)
      \/ CreateTransfer(r) \/ Snapshot(r) \/ Freeze(r) \/ Export(r) \/ Restore(r)
      \/ CheckStatus(r) \/ Finish(r) \/ Seat(r) \/ Decline(r)
      \/ ReadMeta(r) \/ WriteMeta(r)
      \/ HandlerFails(r)
  BY DEF Next
<1> QED
  BY DEF Arrival, TreeCall, HostCall, ReadCall

\* A step that changes nothing.
LEMMA StutterType ==
  ASSUME TypeInv, UNCHANGED vars
  PROVE  TypeInv'
<1>1. UNCHANGED <<parent, leaf, asked, host, status, to, bundle, finished, meta, lost,
                  call, calls, faults>>
  BY DEF vars, treeVars, hostVars, metaVars
<1>2. Turn' = Turn
  BY <1>1 DEF Turn
<1> QED
  BY <1>1, <1>2 DEF TypeInv, TypeOK, CallFits

\* The session as it is created.
LEMMA InitType ==
  ASSUME Init
  PROVE  TypeInv
<1>1. Idle \in CallRecord
  BY SessionAssumption DEF Idle, CallRecord
<1>2. parent \in Seq(Nat) /\ Turn = {} /\ Len(parent) = 0
  BY DEF Init, Turn
<1>3. meta \subseteq Flag
  BY DEF Init, Flag
<1>4. call \in [Request -> CallRecord] /\ \A r \in Request : call[r] = Idle
  BY <1>1 DEF Init
<1>5. host \in User /\ finished \subseteq Transfer /\ lost \in BOOLEAN
      /\ status \in [Transfer -> Status] /\ to \in [Transfer -> User]
      /\ bundle \subseteq Bundle
  BY SessionAssumption DEF Init, Status
<1>6. leaf \in 0 .. Len(parent) /\ asked \subseteq Turn
      /\ calls \in 0 .. MaxCalls /\ faults \in 0 .. MaxFaults
  BY <1>2, SessionAssumption DEF Init
<1>7. TypeOK
  BY <1>2, <1>3, <1>4, <1>5, <1>6 DEF TypeOK
<1> QED
  BY <1>2, <1>4, <1>7 DEF Init, TypeInv, CallFits

\* TypeInv is inductive.
LEMMA NextType ==
  ASSUME TypeInv, [Next]_vars
  PROVE  TypeInv'
<1>1. CASE UNCHANGED vars
  BY <1>1, StutterType
<1>2. CASE Next
  <2> PICK r \in Request : \/ Arrival(r) \/ TreeCall(r) \/ HostCall(r)
                           \/ ReadCall(r) \/ HandlerFails(r)
    BY <1>2, NextCases
  <2>1. CASE Arrival(r)
    BY <2>1, ArrivalsType, ArriveType DEF Arrival
  <2>2. CASE TreeCall(r)
    BY <2>2, TreeType DEF TreeCall
  <2>3. CASE HostCall(r)
    BY <2>3, HostType DEF HostCall
  <2>4. CASE ReadCall(r)
    BY <2>4, ReadType DEF ReadCall
  <2>5. CASE HandlerFails(r)
    BY <2>5, FailType
  <2> QED
    BY <2>1, <2>2, <2>3, <2>4, <2>5
<1> QED
  BY <1>1, <1>2

\* The type invariant holds for every number of users, requests and transfers.
THEOREM ChatTypeCorrect == Spec => []TypeOK
<1>1. Init => TypeInv
  BY InitType
<1>2. TypeInv /\ [Next]_vars => TypeInv'
  BY NextType
<1>3. TypeInv => TypeOK
  BY DEF TypeInv
<1> QED
  BY <1>1, <1>2, <1>3, PTL DEF Spec

-----------------------------------------------------------------------------
(* Branches                                                                *)

\* TreeInv is inductive: under the row lock a new turn answers the leaf, which
\* nobody has answered, and becomes the leaf; only a request that goes back
\* makes an answered turn the leaf, and says so in asked.
LEMMA TreeInvStep ==
  ASSUME TypeInv, TreeInv, [Next]_vars
  PROVE  TreeInv'
<1>1. CASE UNCHANGED treeVars
  BY <1>1 DEF treeVars, TreeInv, LeafIsNew, BranchesAreAsked, Turn
<1>2. ASSUME NEW r \in Request, AppendTurn(r) PROVE TreeInv'
  <2> DEFINE n == Len(parent) + 1
  <2>1. /\ Turn' = Turn \cup {n} /\ Turn = 1 .. Len(parent) /\ n \notin Turn
        /\ leaf' = n /\ parent'[n] = leaf /\ leaf # n
        /\ \A k \in Turn : parent'[k] = parent[k]
    BY <1>2, Appended
  <2>2. asked' = asked
    BY <1>2 DEF AppendTurn
  <2>3. \A k \in Turn : parent[k] # n
    BY <2>1, Appended, <1>2 DEF TypeInv, TypeOK
  <2>4. LeafIsNew'
    BY <2>1, <2>3 DEF LeafIsNew
  <2>5. BranchesAreAsked'
    <3> SUFFICES ASSUME NEW j \in Turn', NEW k \in Turn', j # k, parent'[j] = parent'[k]
                 PROVE  parent'[j] \in asked'
      BY DEF BranchesAreAsked
    <3>1. CASE j \in Turn /\ k \in Turn
      BY <2>1, <2>2, <3>1 DEF TreeInv, BranchesAreAsked
    <3>2. CASE j = n
      <4>1. k \in Turn /\ parent[k] = leaf
        BY <2>1, <3>2
      <4> QED
        BY <2>1, <2>2, <3>2, <4>1 DEF TreeInv, LeafIsNew
    <3>3. CASE k = n
      <4>1. j \in Turn /\ parent[j] = leaf
        BY <2>1, <3>3
      <4> QED
        BY <2>1, <2>2, <4>1 DEF TreeInv, LeafIsNew
    <3> QED
      BY <2>1, <3>1, <3>2, <3>3
  <2> QED
    BY <2>4, <2>5 DEF TreeInv
<1>3. ASSUME NEW r \in Request, ForkAtTurn(r) \/ SetActiveLeaf(r) PROVE TreeInv'
  BY <1>3 DEF ForkAtTurn, SetActiveLeaf, TreeInv, LeafIsNew, BranchesAreAsked, Turn
<1>4. CASE Next
  <2> PICK r \in Request : \/ Arrival(r) \/ TreeCall(r) \/ HostCall(r)
                           \/ ReadCall(r) \/ HandlerFails(r)
    BY <1>4, NextCases
  <2>1. CASE Arrival(r)
    <3>1. \E c \in CallRecord : Arrive(r, c)
      BY <2>1, ArrivalsType DEF Arrival
    <3> QED
      BY <1>1, <3>1 DEF Arrive
  <2>2. CASE TreeCall(r)
    BY <1>2, <1>3, <2>2 DEF TreeCall
  <2>3. CASE HostCall(r)
    BY <1>1, <2>3, HostType DEF HostCall
  <2>4. CASE ReadCall(r)
    BY <1>1, <2>4, ReadType DEF ReadCall
  <2>5. CASE HandlerFails(r)
    BY <1>1, <2>5 DEF HandlerFails
  <2> QED
    BY <2>1, <2>2, <2>3, <2>4, <2>5
<1> QED
  BY <1>1, <1>4 DEF vars

\* Requests that run at once never branch the conversation, however many.
THEOREM BranchesAsked == Spec => []BranchesAreAsked
<1>1. Init => TypeInv /\ TreeInv
  <2>1. Init => Turn = {}
    BY DEF Init, Turn
  <2>2. Turn = {} => TreeInv
    BY DEF TreeInv, LeafIsNew, BranchesAreAsked
  <2> QED
    BY <2>1, <2>2, InitType
<1>2. TypeInv /\ TreeInv /\ [Next]_vars => TypeInv' /\ TreeInv'
  BY NextType, TreeInvStep
<1>3. TreeInv => BranchesAreAsked
  BY DEF TreeInv
<1> QED
  BY <1>1, <1>2, <1>3, PTL DEF Spec

-----------------------------------------------------------------------------
(* The host when everything has come to its end                            *)

\* Nobody else is nominated for a transfer, only Finish() completes one or ends
\* its freeze, and only Restore() and Seat() write the host.
LEMMA StatusSteps ==
  ASSUME TypeInv, NEW r \in Request,
         \/ Arrival(r) \/ TreeCall(r) \/ HostCall(r) \/ ReadCall(r) \/ HandlerFails(r)
  PROVE  /\ \A t \in Transfer : status[t] # "none" => to'[t] = to[t]
         /\ \A t \in Transfer : status[t] # "none" => status'[t] # "none"
         /\ Finish(r) \/ With("frozen") \subseteq With("frozen")'
         /\ Finish(r) \/ finished' = finished
         /\ Restore(r) \/ Seat(r) \/ host' = host
<1>1. CASE CreateTransfer(r)
  <2>1. PICK t \in Transfer :
            /\ status[t] = "none"
            /\ status' = [status EXCEPT ![t] = "pending"]
            /\ to' = [to EXCEPT ![t] = call[r].user]
    BY <1>1 DEF CreateTransfer
  <2>2. UNCHANGED <<host, finished>>
    BY <1>1 DEF CreateTransfer
  <2> QED
    BY <2>1, <2>2 DEF TypeInv, TypeOK, With
<1>2. CASE Freeze(r)
  BY <1>2 DEF Freeze, TypeInv, TypeOK, With
<1>3. CASE Finish(r)
  BY <1>3 DEF Finish, TypeInv, TypeOK, With
<1>4. CASE Decline(r)
  <2>1. UNCHANGED <<host, to, finished>>
    BY <1>4 DEF Decline
  <2> QED
    BY <1>4, <2>1 DEF Decline, TypeInv, TypeOK, With
<1>5. CASE UNCHANGED <<status, to, finished>> /\ (Restore(r) \/ Seat(r) \/ host' = host)
  BY <1>5 DEF With
<1>6. CASE Arrival(r)
  <2>1. \E c \in CallRecord : Arrive(r, c)
    BY <1>6, ArrivalsType DEF Arrival
  <2> QED
    BY <1>5, <2>1 DEF Arrive, hostVars
<1>7. CASE TreeCall(r) \/ HandlerFails(r)
  BY <1>5, <1>7 DEF TreeCall, AppendTurn, ForkAtTurn, SetActiveLeaf, HandlerFails, hostVars
<1>8. CASE Export(r) \/ Restore(r) \/ Seat(r)
  BY <1>5, <1>8 DEF Export, Restore, Seat
<1>9. CASE LookAtLeaf(r) \/ CheckStatus(r) \/ Snapshot(r) \/ ReadMeta(r) \/ WriteMeta(r)
  BY <1>5, <1>9 DEF LookAtLeaf, CheckStatus, Snapshot, ReadMeta, WriteMeta, hostVars
<1> QED
  BY <1>1, <1>2, <1>3, <1>4, <1>6, <1>7, <1>8, <1>9 DEF HostCall, ReadCall

\* The handlers of the others go on as they were; the one of r either ends, or
\* has just arrived, or has made the store call it was at.
LEMMA CallSteps ==
  ASSUME TypeInv, NEW r \in Request,
         \/ Arrival(r) \/ TreeCall(r) \/ HostCall(r) \/ ReadCall(r) \/ HandlerFails(r)
  PROVE  /\ \A q \in Request \ {r} : call'[q] = call[q]
         /\ \/ Arrival(r) /\ call[r] = Idle /\ call'[r].at = 1 /\ faults' = faults
            \/ HandlerFails(r) /\ faults' # 0
            \/ /\ TreeCall(r) \/ HostCall(r) \/ ReadCall(r)
               /\ Advances(r) /\ faults' = faults
               /\ call[r].op \in Op /\ call[r].at \in 1 .. Len(Program[call[r].op])
<1>1. CASE Arrival(r)
  <2>1. PICK c \in CallRecord : Arrive(r, c) /\ c.at = 1
    BY <1>1, ArrivalsType DEF Arrival
  <2> QED
    BY <1>1, <2>1 DEF Arrive, TypeInv
<1>2. CASE HandlerFails(r)
  BY <1>2, FailType DEF Advances
<1>3. CASE TreeCall(r) \/ HostCall(r) \/ ReadCall(r)
  <2>1. Advances(r) /\ faults' = faults
    <3>1. CASE TreeCall(r)
      BY <3>1, StepAdvances DEF TreeCall, AppendTurn, ForkAtTurn, SetActiveLeaf
    <3> QED
      BY <1>3, <3>1, HostType, ReadType DEF HostCall, ReadCall
  <2>2. \E step : At(r, step)
    BY <1>3 DEF TreeCall, AppendTurn, ForkAtTurn, SetActiveLeaf, HostCall, CreateTransfer,
       Freeze, Export, Restore, Finish, Seat, ReadCall, LookAtLeaf, CheckStatus, Snapshot,
       ReadMeta, WriteMeta, Decline
  <2>3. call[r].op \in Op /\ call[r].at \in 1 .. Len(Program[call[r].op])
    BY <2>2, Serving
  <2> QED
    BY <1>3, <2>1, <2>3 DEF Advances
<1> QED
  BY <1>1, <1>2, <1>3

\* The end of a transfer, call by call: a handler of it is at the call that its
\* position says, and has its next position when it is not the last.
LEMMA EndOfTransfer ==
  ASSUME TypeInv, NEW r \in Request, TreeCall(r) \/ HostCall(r) \/ ReadCall(r),
         call[r].op \in {"import", "complete"}, call[r].at \in 1 .. 5,
         call[r].at = 1 => call[r].op = "import"
  PROVE  /\ call[r].at = 1 => Restore(r)
         /\ call[r].at = 2 => Finish(r)
         /\ call[r].at = 3 => Seat(r)
         /\ call[r].at = 5 => WriteMeta(r)
         /\ call[r].at < 5 => /\ call'[r].op = call[r].op
                              /\ call'[r].at = call[r].at + 1
                              /\ call'[r].target = call[r].target
<1> DEFINE step == Program[call[r].op][call[r].at]
<1>1. /\ call[r].at = 1 => step = "restore"
      /\ call[r].at = 2 => step = "finish"
      /\ call[r].at = 3 => step = "seat"
      /\ call[r].at = 4 => step = "read"
      /\ call[r].at = 5 => step = "write"
  BY DEF Program
<1>2. call[r] \in CallRecord /\ Len(Program[call[r].op]) \in {5, 6}
  BY DEF Program, TypeInv
<1>3. \A other : At(r, other) => other = step
  BY DEF At
<1> HIDE DEF step
<1>4. \/ step = "restore" /\ Restore(r)
      \/ step = "finish" /\ Finish(r)
      \/ step = "seat" /\ Seat(r)
      \/ step = "read" /\ ReadMeta(r)
      \/ step = "write" /\ WriteMeta(r)
  <2>1. step \in {"restore", "finish", "seat", "read", "write"}
    BY <1>1
  <2>2. CASE TreeCall(r)
    BY <1>3, <2>1, <2>2 DEF TreeCall, AppendTurn, ForkAtTurn, SetActiveLeaf
  <2>3. CASE HostCall(r)
    <3>1. CASE CreateTransfer(r) \/ Freeze(r) \/ Export(r)
      BY <1>3, <2>1, <3>1 DEF CreateTransfer, Freeze, Export
    <3>2. CASE Restore(r) \/ Finish(r) \/ Seat(r)
      BY <1>3, <3>2 DEF Restore, Finish, Seat
    <3> QED
      BY <2>3, <3>1, <3>2 DEF HostCall
  <2>4. CASE ReadCall(r)
    <3>1. CASE LookAtLeaf(r) \/ CheckStatus(r) \/ Snapshot(r) \/ Decline(r)
      BY <1>3, <2>1, <3>1 DEF LookAtLeaf, CheckStatus, Snapshot, Decline
    <3>2. CASE ReadMeta(r) \/ WriteMeta(r)
      BY <1>3, <3>2 DEF ReadMeta, WriteMeta
    <3> QED
      BY <2>4, <3>1, <3>2 DEF ReadCall
  <2> QED
    BY <2>2, <2>3, <2>4
<1>5. ASSUME call[r].at < 5
      PROVE  /\ call'[r].op = call[r].op
             /\ call'[r].at = call[r].at + 1
             /\ call'[r].target = call[r].target
  <2>1. PICK m \in SUBSET Flag : Proceed(r, [call[r] EXCEPT !.meta = m])
    <3>1. call[r].meta \in SUBSET Flag /\ [call[r] EXCEPT !.meta = call[r].meta] = call[r]
      BY <1>2 DEF CallRecord
    <3>2. meta \in SUBSET Flag
      BY DEF TypeInv, TypeOK
    <3>3. CASE Step(r)
      <4>1. Proceed(r, [call[r] EXCEPT !.meta = call[r].meta])
        BY <3>1, <3>3 DEF Step
      <4> QED
        BY <3>1, <4>1
    <3>4. CASE ReadMeta(r)
      <4>1. Proceed(r, [call[r] EXCEPT !.meta = meta])
        BY <3>4 DEF ReadMeta
      <4> QED
        BY <3>2, <4>1
    <3>5. Step(r) \/ ReadMeta(r)
      BY <1>1, <1>4, <1>5 DEF Restore, Finish, Seat, WriteMeta
    <3> QED
      BY <3>3, <3>4, <3>5
  <2> DEFINE c == [call[r] EXCEPT !.meta = m]
  <2>2. c \in CallRecord /\ c.op = call[r].op /\ c.at = call[r].at /\ c.target = call[r].target
    BY <1>2 DEF CallRecord
  <2>3. Proceed(r, c)
    BY <2>1
  <2> HIDE DEF c
  <2>a. c.at # Len(Program[c.op])
    <3>1. call[r].at \in 1 .. 4
      BY <1>5
    <3>2. Len(Program[call[r].op]) \notin 1 .. 4
      BY <1>2
    <3> QED
      BY <2>2, <3>1, <3>2
  <2>4. call' = [call EXCEPT ![r] = [c EXCEPT !.at = c.at + 1]]
    BY <2>3, <2>a DEF Proceed
  <2>5. call'[r] = [c EXCEPT !.at = c.at + 1]
    BY <2>4 DEF TypeInv
  <2> QED
    BY <2>2, <2>5 DEF CallRecord
<1> QED
  BY <1>1, <1>4, <1>5

\* SeatInv is inductive: between the completion of a transfer, or the restore
\* of a manifest, and the nominee's seat stands a handler that will seat him.
LEMMA SeatStep ==
  ASSUME TypeInv, TypeInv', SeatInv, [Next]_vars
  PROVE  SeatInv'
<1>1. CASE UNCHANGED vars
  BY <1>1 DEF vars, hostVars, SeatInv, SeatDue, Rightful
<1>2. CASE Next
  <2> PICK r \in Request : \/ Arrival(r) \/ TreeCall(r) \/ HostCall(r)
                           \/ ReadCall(r) \/ HandlerFails(r)
    BY <1>2, NextCases
  <2> DEFINE StoreCall == TreeCall(r) \/ HostCall(r) \/ ReadCall(r)
  <2>1. /\ \A t \in Transfer : status[t] # "none" => to'[t] = to[t]
        /\ \A t \in Transfer : status[t] # "none" => status'[t] # "none"
        /\ Finish(r) \/ finished' = finished
        /\ Restore(r) \/ Seat(r) \/ host' = host
    BY StatusSteps
  <2>2. /\ \A q \in Request \ {r} : call'[q] = call[q]
        /\ \/ Arrival(r) /\ call[r] = Idle /\ call'[r].at = 1 /\ faults' = faults
           \/ HandlerFails(r) /\ call'[r] = Idle /\ faults' # 0
           \/ /\ StoreCall /\ Advances(r) /\ faults' = faults
              /\ call[r].op \in Op /\ call[r].at \in 1 .. Len(Program[call[r].op])
    BY CallSteps, FailType
  <2>3. "none" \notin {"import", "complete"} /\ Idle.op = "none" /\ Idle.at = 1
    BY DEF Idle
  <2>4. finished \subseteq Transfer /\ \A t \in finished : status[t] # "none" /\ to'[t] = to[t]
    BY <2>1 DEF SeatInv, TypeInv, TypeOK
  <2>a. /\ finished \subseteq finished'
        /\ Finish(r) => call[r].target \in Transfer /\ finished' = finished \cup {call[r].target}
    <3>1. ASSUME Finish(r)
          PROVE  call[r].target \in Transfer /\ finished' = finished \cup {call[r].target}
      BY <3>1, Serving, ProgramTable DEF Finish, TransferOp
    <3> QED
      BY <2>1, <3>1
  <2>b. \A t \in finished' : status'[t] # "none"
    <3>1. CASE Finish(r)
      BY <2>1, <2>4, <2>a, <3>1 DEF Finish, TypeInv, TypeOK
    <3> QED
      BY <2>1, <2>4, <3>1
  <2>5. \A q \in Request : call'[q].op \in {"import", "complete"} /\ call'[q].at = 3
            => call'[q].target \in finished'
    <3> SUFFICES ASSUME NEW q \in Request, call'[q].op \in {"import", "complete"},
                        call'[q].at = 3
                 PROVE  call'[q].target \in finished'
      OBVIOUS
    <3>1. CASE q # r
      <4>1. call'[q] = call[q]
        BY <2>2, <3>1
      <4> QED
        BY <2>a, <4>1 DEF SeatInv
    <3>2. CASE q = r
      <4>1. /\ StoreCall /\ call[r].at \in Nat
            /\ call'[r].op = call[r].op /\ call'[r].at = call[r].at + 1
            /\ call'[r].target = call[r].target
        <5>1. call'[r] # Idle
          BY <2>3, <3>2
        <5>2. ~Arrival(r) \/ call'[r].at # 1
          BY <3>2
        <5> QED
          BY <2>2, <3>2, <5>1, <5>2 DEF Advances, TypeInv, CallRecord
      <4>2. call[r].at = 2 /\ call[r].op \in {"import", "complete"}
        BY <3>2, <4>1
      <4>3. Finish(r)
        BY <4>1, <4>2, EndOfTransfer
      <4> QED
        BY <2>a, <3>2, <4>1, <4>3
    <3> QED
      BY <3>1, <3>2
  <2>6. ASSUME faults' = 0
        PROVE  host' \in Rightful' \/ \E q \in Request : SeatDue(q)'
    <3>1. faults = 0 /\ ~HandlerFails(r)
      BY <2>2, <2>6, FailType
    <3>2. CASE Finish(r)
      <4>1. call[r].op \in {"import", "complete"} /\ call[r].at = 2 /\ StoreCall
        BY <3>2, Serving, ProgramTable DEF Finish, HostCall
      <4>2. SeatDue(r)'
        BY <4>1, EndOfTransfer DEF SeatDue
      <4> QED
        BY <4>2
    <3>3. CASE Seat(r)
      <4>1. call[r].op \in {"import", "complete"} /\ call[r].at = 3
        BY <3>3, Serving, ProgramTable DEF Seat
      <4>2. call[r].target \in finished /\ host' = to[call[r].target]
        BY <3>3, <4>1 DEF SeatInv, Seat
      <4>3. to'[call[r].target] = to[call[r].target] /\ call[r].target \in finished'
        BY <2>4, <2>a, <4>2
      <4> QED
        BY <4>2, <4>3 DEF Rightful
    <3>4. CASE Restore(r)
      <4>1. call[r].op = "import" /\ call[r].at = 1 /\ StoreCall
        BY <3>4, Serving, ProgramTable DEF Restore, HostCall
      <4>2. SeatDue(r)'
        BY <4>1, EndOfTransfer DEF SeatDue
      <4> QED
        BY <4>2
    <3>5. CASE ~Finish(r) /\ ~Seat(r) /\ ~Restore(r)
      <4>1. finished' = finished /\ host' = host
        BY <2>1, <3>5
      <4>2. CASE host \in Rightful
        BY <2>4, <4>1, <4>2 DEF Rightful
      <4>3. CASE \E q \in Request : SeatDue(q)
        <5>1. PICK q \in Request : SeatDue(q)
          BY <4>3
        <5>2. q # r
          <6>1. ASSUME q = r PROVE FALSE
            <7>1. call[r].op \in {"import", "complete"} /\ call[r].at \in {2, 3}
              BY <5>1, <6>1 DEF SeatDue
            <7>2. StoreCall
              BY <2>2, <2>3, <3>1, <7>1
            <7> QED
              BY <3>5, <7>1, <7>2, EndOfTransfer
          <6> QED
            BY <6>1
        <5>3. SeatDue(q)'
          BY <2>2, <5>1, <5>2 DEF SeatDue
        <5> QED
          BY <5>3
      <4> QED
        BY <3>1, <4>2, <4>3 DEF SeatInv
    <3> QED
      BY <3>2, <3>3, <3>4, <3>5
  <2> QED
    BY <2>b, <2>5, <2>6 DEF SeatInv
<1> QED
  BY <1>1, <1>2

-----------------------------------------------------------------------------
(* The freeze flag                                                         *)

\* Who writes the metadata.
LEMMA MetaSteps ==
  ASSUME TypeInv, NEW r \in Request,
         \/ Arrival(r) \/ TreeCall(r) \/ HostCall(r) \/ ReadCall(r) \/ HandlerFails(r)
  PROVE  Restore(r) \/ WriteMeta(r) \/ UNCHANGED <<meta, lost>>
<1>1. CASE Arrival(r)
  <2>1. \E c \in CallRecord : Arrive(r, c)
    BY <1>1, ArrivalsType DEF Arrival
  <2> QED
    BY <2>1 DEF Arrive, metaVars
<1>2. CASE TreeCall(r) \/ HandlerFails(r)
  BY <1>2 DEF TreeCall, AppendTurn, ForkAtTurn, SetActiveLeaf, HandlerFails, metaVars
<1>3. CASE HostCall(r)
  BY <1>3 DEF HostCall, CreateTransfer, Freeze, Export, Finish, Seat, metaVars
<1>4. CASE ReadCall(r)
  BY <1>4 DEF ReadCall, LookAtLeaf, CheckStatus, Snapshot, ReadMeta, Decline, metaVars
<1> QED
  BY <1>1, <1>2, <1>3, <1>4

\* FreezeInv is inductive: the flag is written by an accept whose transfer is
\* still frozen or restored by an import, and between the end of the transfer
\* and the end of the flag stands a handler that will take it away.
LEMMA FreezeStep ==
  ASSUME TypeInv, TypeInv', FreezeInv, [Next]_vars
  PROVE  FreezeInv'
<1>1. CASE UNCHANGED vars
  BY <1>1 DEF vars, hostVars, metaVars, FreezeInv, ThawDue, With
<1>2. CASE Next
  <2> PICK r \in Request : \/ Arrival(r) \/ TreeCall(r) \/ HostCall(r)
                           \/ ReadCall(r) \/ HandlerFails(r)
    BY <1>2, NextCases
  <2> DEFINE StoreCall == TreeCall(r) \/ HostCall(r) \/ ReadCall(r)
  <2> SUFFICES ASSUME faults' = 0, ~lost', "transfer_frozen" \in meta'
               PROVE  With("frozen")' # {} \/ \E q \in Request : ThawDue(q)'
    BY DEF FreezeInv
  <2>1. Finish(r) \/ With("frozen") \subseteq With("frozen")'
    BY StatusSteps
  <2>2. /\ faults = 0
        /\ \A q \in Request \ {r} : call'[q] = call[q]
        /\ call[r] = Idle \/ StoreCall
    BY CallSteps
  <2>3. CASE Finish(r)
    <3>1. call[r].op \in {"import", "complete"} /\ call[r].at = 2 /\ StoreCall
      BY <2>3, Serving, ProgramTable DEF Finish, HostCall
    <3>2. ThawDue(r)'
      BY <3>1, EndOfTransfer DEF ThawDue
    <3> QED
      BY <3>2
  <2>4. CASE Restore(r)
    <3>1. call[r].op = "import" /\ call[r].at = 1 /\ StoreCall
      BY <2>4, Serving, ProgramTable DEF Restore, HostCall
    <3>2. ThawDue(r)'
      BY <3>1, EndOfTransfer DEF ThawDue
    <3> QED
      BY <3>2
  <2>5. ASSUME ~lost, "transfer_frozen" \in meta, ~Finish(r), ~(WriteMeta(r) /\ ThawDue(r))
        PROVE  With("frozen")' # {} \/ \E q \in Request : ThawDue(q)'
    <3>1. CASE With("frozen") # {}
      BY <2>1, <2>5, <3>1
    <3>2. CASE \E q \in Request : ThawDue(q)
      <4>1. PICK q \in Request : ThawDue(q)
        BY <3>2
      <4>2. CASE q # r
        <5>1. ThawDue(q)'
          BY <2>2, <4>1, <4>2 DEF ThawDue
        <5> QED
          BY <5>1
      <4>3. CASE q = r
        <5>1. call[r].op \in {"import", "complete"} /\ call[r].at \in 2 .. 5 /\ StoreCall
          BY <2>2, <4>1, <4>3 DEF ThawDue, Idle
        <5>2. call[r].at \in {3, 4}
          BY <2>5, <4>1, <4>3, <5>1, EndOfTransfer
        <5>3. ThawDue(r)'
          BY <5>1, <5>2, EndOfTransfer DEF ThawDue
        <5> QED
          BY <5>3
      <4> QED
        BY <4>2, <4>3
    <3> QED
      BY <2>2, <2>5, <3>1, <3>2 DEF FreezeInv
  <2>6. CASE WriteMeta(r)
    <3>1. /\ meta' = Changed(call[r].op, meta) /\ ~lost /\ UNCHANGED status
          /\ call[r].op = "accept" => status[call[r].target] = "frozen"
      BY <2>6 DEF WriteMeta, hostVars
    <3>2. /\ call[r].op \in {"import", "complete", "accept", "publish", "approve"}
          /\ call[r].op \in TransferOp => call[r].target \in Transfer
      BY <2>6, Serving, ProgramTable DEF WriteMeta
    <3>3. CASE call[r].op \in {"import", "complete"}
      BY <3>1, <3>3 DEF Changed
    <3>4. CASE call[r].op = "accept"
      <4>1. call[r].target \in With("frozen")'
        BY <3>1, <3>2, <3>4 DEF With, TransferOp
      <4> QED
        BY <4>1
    <3>5. CASE call[r].op \in {"publish", "approve"}
      <4>1. "transfer_frozen" \in meta /\ ~ThawDue(r)
        BY <3>1, <3>5 DEF Changed, ThawDue
      <4>2. ~Finish(r)
        BY <3>5, Serving, ProgramTable DEF Finish
      <4> QED
        BY <2>5, <3>1, <4>1, <4>2
    <3> QED
      BY <3>2, <3>3, <3>4, <3>5
  <2> QED
    BY <2>3, <2>4, <2>5, <2>6, MetaSteps
<1> QED
  BY <1>1, <1>2

-----------------------------------------------------------------------------
(* The theorems about the host                                             *)

\* A new session has neither transfers nor requests.
LEMMA InitInv ==
  ASSUME Init
  PROVE  TypeInv /\ SeatInv /\ FreezeInv
<1>1. TypeInv
  BY InitType
<1>2. /\ \A r \in Request : call[r] = Idle
      /\ \A t \in Transfer : status[t] = "none"
      /\ host = Creator /\ finished = {} /\ "transfer_frozen" \notin meta
  BY DEF Init
<1>3. SeatInv
  BY <1>2 DEF SeatInv, Rightful, Idle
<1>4. FreezeInv
  BY <1>2 DEF FreezeInv
<1> QED
  BY <1>1, <1>3, <1>4

\* However many completions and imports run at once, of whichever transfers and
\* with whatever manifests, once all have ended without a failure the host is the
\* nominee of a transfer that was completed, or the creator if none was.
THEOREM RightfulHost == Spec => []HostIsRightful
<1> DEFINE HInv == TypeInv /\ SeatInv
<1>1. Init => HInv
  BY InitInv
<1>2. HInv /\ [Next]_vars => HInv'
  BY NextType, SeatStep
<1>3. HInv => HostIsRightful
  <2>1. Quiet => \A r \in Request : ~SeatDue(r)
    BY DEF Quiet, SeatDue, Idle
  <2> QED
    BY <2>1 DEF SeatInv, HostIsRightful
<1> HIDE DEF HInv
<1> QED
  BY <1>1, <1>2, <1>3, PTL DEF Spec

\* The freeze flag outlives no accepted transfer, but for an update that was
\* lost or a handler that failed half way.
THEOREM FreezesEnd == Spec => []FreezeEnds
<1> DEFINE FInv == TypeInv /\ FreezeInv
<1>1. Init => FInv
  BY InitInv
<1>2. FInv /\ [Next]_vars => FInv'
  BY NextType, FreezeStep
<1>3. FInv => FreezeEnds
  <2>1. Quiet => \A r \in Request : ~ThawDue(r)
    BY DEF Quiet, ThawDue, Idle
  <2> QED
    BY <2>1 DEF FreezeInv, FreezeEnds
<1> HIDE DEF FInv
<1> QED
  BY <1>1, <1>2, <1>3, PTL DEF Spec
=============================================================================

----------------------- MODULE CampaignBacklogProofs -----------------------
(***************************************************************************)
(* The backlog of the campaign driver, for every backlog, policy and       *)
(* number of requests and faults: type correctness, that no slice is run   *)
(* before what it depends on has passed, that a revision of the backlog    *)
(* helps unless a slice was skipped, and that a stop has a reason.         *)
(***************************************************************************)
EXTENDS CampaignDriver, FiniteSetTheorems, TLAPS

-----------------------------------------------------------------------------
(* The order of the backlog                                                *)

\* Slice d comes before slice t: replans first, the latest of them foremost.
Before(d, t) == IF t > Planned THEN d > t ELSE d > Planned \/ d < t

\* A nonempty set of numbers has a least one.
LEMMA LeastExists ==
  ASSUME NEW T, T \subseteq Nat, T # {}
  PROVE  \E k \in T : \A j \in T : k <= j
<1> DEFINE R == OpToRel(<, Nat)
<1>1. IsWellFoundedOn(R, Nat)
  BY NatLessThanWellFounded
<1>2. \A i, j \in Nat : i < j => <<i, j>> \in R
  BY DEF OpToRel
<1> HIDE DEF R
<1>3. PICK k \in T : \A j \in T : ~(<<j, k>> \in R)
  BY <1>1, WFMin
<1>4. \A j \in T : k <= j
  <2> SUFFICES ASSUME NEW j \in T, ~(k <= j) PROVE FALSE
    OBVIOUS
  <2>1. j \in Nat /\ k \in Nat /\ j < k
    OBVIOUS
  <2> QED BY <1>2, <1>3, <2>1
<1> QED
  BY <1>4

\* First finds the slice of a set that comes first in the backlog.
LEMMA FirstIsFirst ==
  ASSUME NEW S, S \subseteq Slice, S # {}
  PROVE  First(S) \in S /\ \A d \in S : ~Before(d, First(S))
<1>0. MaxSlices \in Nat /\ Planned \in Nat /\ \A s \in S : s \in Nat /\ s <= MaxSlices
  BY SizeAssumption DEF Slice
<1> DEFINE replans == {s \in S : s > Planned}
<1>1. CASE replans # {}
  <2> DEFINE T == {k \in Nat : \E x \in replans : k = MaxSlices - x}
  <2>1. T \subseteq Nat /\ T # {} /\ \A x \in replans : MaxSlices - x \in T
    BY <1>0, <1>1
  <2>2. PICK k \in T : \A j \in T : k <= j
    <3> HIDE DEF T
    <3> QED BY <2>1, LeastExists
  <2>3. PICK x \in replans : k = MaxSlices - x
    BY <2>2
  <2>4. \A y \in replans : y <= x
    <3> SUFFICES ASSUME NEW y \in replans PROVE y <= x
      OBVIOUS
    <3>1. k <= MaxSlices - y
      BY <2>1, <2>2
    <3> QED BY <1>0, <2>3, <3>1
  <2>5. First(S) \in replans /\ \A y \in replans : y <= First(S)
    BY <1>1, <2>4 DEF First
  <2> QED
    BY <1>0, <2>5 DEF Before
<1>2. CASE replans = {}
  <2>1. PICK x \in S : \A y \in S : x <= y
    BY <1>0, LeastExists
  <2>2. First(S) \in S /\ \A y \in S : First(S) <= y
    BY <1>2, <2>1 DEF First
  <2> QED
    BY <1>0, <1>2, <2>2 DEF Before
<1> QED
  BY <1>1, <1>2

-----------------------------------------------------------------------------
(* Escalation along first dependencies                                     *)

\* One step of walk_dependency_back.
Back(t) == IF first[t] = 0 THEN t ELSE first[t]

\* f is a walk of n steps from s.
IsWalk(f, s, n) == f = [i \in 0 .. n |-> IF i = 0 THEN s ELSE Back(f[i - 1])]

\* A walk leaves no set that is closed under first dependencies.
LEMMA WalkExists ==
  ASSUME NEW K, NEW s \in K, \A t \in K : Back(t) \in K, NEW n \in Nat
  PROVE  \E f \in [0 .. n -> K] : IsWalk(f, s, n)
<1> DEFINE Bad == {m \in Nat : ~ \E f \in [0 .. m -> K] : IsWalk(f, s, m)}
<1> SUFFICES ASSUME Bad # {} PROVE FALSE
  OBVIOUS
<1>1. PICK m \in Bad : \A j \in Bad : m <= j
  <2>1. Bad \subseteq Nat
    OBVIOUS
  <2> HIDE DEF Bad
  <2> QED BY <2>1, LeastExists
<1>2. CASE m = 0
  <2> DEFINE f == [i \in 0 .. 0 |-> s]
  <2>1. f \in [0 .. 0 -> K] /\ IsWalk(f, s, 0)
    BY DEF IsWalk
  <2> QED BY <1>1, <1>2, <2>1
<1>3. CASE m # 0
  <2>1. m - 1 \in Nat /\ m - 1 \notin Bad
    BY <1>1, <1>3
  <2>2. PICK g \in [0 .. m - 1 -> K] : IsWalk(g, s, m - 1)
    BY <2>1
  <2> DEFINE f == [i \in 0 .. m |-> IF i = m THEN Back(g[m - 1]) ELSE g[i]]
  <2>3. f \in [0 .. m -> K]
    BY <1>1, <1>3, <2>2
  <2>4. \A i \in 0 .. m - 1 : g[i] = IF i = 0 THEN s ELSE Back(g[i - 1])
    BY <2>2 DEF IsWalk
  <2>5. ASSUME NEW i \in 0 .. m
        PROVE  f[i] = IF i = 0 THEN s ELSE Back(f[i - 1])
    <3>1. CASE i = m
      BY <1>3, <3>1
    <3>2. CASE i # m /\ i # 0
      <4>1. i \in 0 .. m - 1 /\ i - 1 \in 0 .. m /\ i - 1 # m /\ i \in 0 .. m
        BY <3>2, <1>1
      <4>2. f[i] = g[i] /\ f[i - 1] = g[i - 1]
        BY <4>1, <3>2
      <4> QED BY <4>1, <4>2, <2>4, <3>2
    <3>3. CASE i # m /\ i = 0
      BY <3>3, <2>4, <1>1
    <3> QED BY <3>1, <3>2, <3>3
  <2>6. IsWalk(f, s, m)
    BY <2>5 DEF IsWalk
  <2> QED
    BY <1>1, <2>3, <2>6
<1> QED
  BY <1>2, <1>3

\* WalkBack(s, n) is where the walk ends.
LEMMA WalkBackIsWalk ==
  ASSUME NEW K, NEW s \in K, \A t \in K : Back(t) \in K, NEW n \in Nat
  PROVE  \E f : IsWalk(f, s, n) /\ WalkBack(s, n) = f[n]
<1> DEFINE back == CHOOSE f : f = [i \in 0 .. n |-> IF i = 0 THEN s ELSE Back(f[i - 1])]
<1>1. \E f : f = [i \in 0 .. n |-> IF i = 0 THEN s ELSE Back(f[i - 1])]
  <2>1. \E f \in [0 .. n -> K] : IsWalk(f, s, n)
    BY WalkExists
  <2> QED BY <2>1, Zenon DEF IsWalk
<1>2. back = [i \in 0 .. n |-> IF i = 0 THEN s ELSE Back(back[i - 1])]
  BY <1>1
<1>3. WalkBack(s, n) = back[n]
  BY DEF WalkBack, Back
<1> QED
  BY <1>2, <1>3 DEF IsWalk

\* Walking back stays in a set that is closed under first dependencies.
LEMMA WalkBackStays ==
  ASSUME NEW K, NEW s \in K, \A t \in K : Back(t) \in K, NEW n \in Nat
  PROVE  WalkBack(s, n) \in K
<1>1. PICK f : IsWalk(f, s, n) /\ WalkBack(s, n) = f[n]
  BY WalkBackIsWalk
<1>2. \A i \in 0 .. n : f[i] = IF i = 0 THEN s ELSE Back(f[i - 1])
  BY <1>1 DEF IsWalk
<1> DEFINE Bad == {i \in 0 .. n : f[i] \notin K}
<1>3. Bad = {}
  <2> SUFFICES ASSUME Bad # {} PROVE FALSE
    OBVIOUS
  <2>1. PICK i \in Bad : \A j \in Bad : i <= j
    <3>1. Bad \subseteq Nat
      OBVIOUS
    <3> HIDE DEF Bad
    <3> QED BY <3>1, LeastExists
  <2>2. i # 0
    BY <1>2, <2>1
  <2>3. i - 1 \in 0 .. n /\ i - 1 \notin Bad
    BY <2>1, <2>2
  <2>4. f[i - 1] \in K
    BY <2>3
  <2> QED
    BY <1>2, <2>1, <2>2, <2>4
<1> QED
  BY <1>1, <1>3

\* The first two slices of a walk.
LEMMA WalkBackStart ==
  ASSUME NEW K, NEW s \in K, \A t \in K : Back(t) \in K
  PROVE  WalkBack(s, 0) = s /\ WalkBack(s, 1) = Back(s)
<1>1. PICK f : IsWalk(f, s, 0) /\ WalkBack(s, 0) = f[0]
  BY WalkBackIsWalk
<1>2. f[0] = s
  BY <1>1 DEF IsWalk
<1>3. PICK g : IsWalk(g, s, 1) /\ WalkBack(s, 1) = g[1]
  BY WalkBackIsWalk
<1>4. g[0] = s /\ g[1] = Back(g[0])
  BY <1>3 DEF IsWalk
<1> QED
  BY <1>1, <1>2, <1>3, <1>4

-----------------------------------------------------------------------------
(* Type correctness                                                        *)

\* What a sequence over S holds.
LEMMA SeqHolds ==
  ASSUME NEW S, NEW q \in Seq(S)
  PROVE  /\ \A i \in DOMAIN q : q[i] \in S
         /\ q # <<>> => Head(q) \in {q[i] : i \in DOMAIN q} /\ {q[i] : i \in DOMAIN q} # {}
         /\ q = <<>> => {q[i] : i \in DOMAIN q} = {}
<1>1. Len(q) \in Nat /\ DOMAIN q = 1 .. Len(q) /\ q \in [1 .. Len(q) -> S]
  OBVIOUS
<1>2. q # <<>> => Len(q) > 0 /\ Head(q) = q[1]
  OBVIOUS
<1>3. q = <<>> => Len(q) = 0
  OBVIOUS
<1>4. q # <<>> => 1 \in DOMAIN q
  BY <1>1, <1>2
<1> QED
  BY <1>1, <1>2, <1>3, <1>4

\* An escalation retries a slice.
LEMMA TargetTyped ==
  ASSUME TypeOK, NEW s \in Slice
  PROVE  RetryTarget(s) \in Slice /\ Depth(s) \in Nat
<1>1. Depth(s) \in Nat
  BY DEF Depth, TypeOK, FailsPerLevel
<1>2. \A t \in Slice : Back(t) \in Slice
  BY DEF TypeOK, Back, Slice
<1>3. WalkBack(s, Depth(s)) \in Slice
  BY <1>1, <1>2, WalkBackStays
<1>4. OpenReplan(s) \subseteq Slice
  BY DEF OpenReplan, With, InBacklog
<1>5. OpenReplan(s) # {} => First(OpenReplan(s)) \in Slice
  BY <1>4, FirstIsFirst
<1> QED
  BY <1>1, <1>3, <1>5 DEF RetryTarget

\* Every step keeps the types.
LEMMA TypeStep == TypeOK /\ [Next]_vars => TypeOK'
<1> SUFFICES ASSUME TypeOK, [Next]_vars PROVE TypeOK'
  OBVIOUS
<1> USE DEF Goto, WorkerStep
<1>1. CASE TickStop \/ TickStart
  BY <1>1 DEF TypeOK, TickStop, TickStart, backlog, gates, worker, requests
<1>2. CASE GenerateBacklog
  <2>1. stored' \in [Slice -> SliceStatus]
    BY <1>2 DEF GenerateBacklog, SliceStatus
  <2>2. \A s \in Slice : s <= Planned =>
            /\ DependsOn[s] \in Seq(1 .. Planned)
            /\ {DependsOn[s][i] : i \in DOMAIN DependsOn[s]} \subseteq Slice
            /\ DependsOn[s] # <<>> => Head(DependsOn[s]) \in 0 .. MaxSlices
    <3> SUFFICES ASSUME NEW s \in Slice, s <= Planned
                 PROVE  /\ DependsOn[s] \in Seq(1 .. Planned)
                        /\ {DependsOn[s][i] : i \in DOMAIN DependsOn[s]} \subseteq Slice
                        /\ DependsOn[s] # <<>> => Head(DependsOn[s]) \in 0 .. MaxSlices
      OBVIOUS
    <3>1. s \in 1 .. Planned /\ 1 .. Planned \subseteq Slice /\ 1 .. Planned \subseteq 0 .. MaxSlices
      BY SizeAssumption DEF Slice
    <3>2. DependsOn[s] \in Seq(1 .. Planned)
      BY <3>1, DagAssumption
    <3>3. \A i \in DOMAIN DependsOn[s] : DependsOn[s][i] \in 1 .. Planned
      BY <3>2, SeqHolds
    <3>4. DependsOn[s] # <<>> => Head(DependsOn[s]) \in 1 .. Planned
      BY <3>2, <3>3, SeqHolds
    <3> QED BY <3>1, <3>2, <3>3, <3>4
  <2>3. deps' \in [Slice -> SUBSET Slice] /\ first' \in [Slice -> 0 .. MaxSlices]
    BY <1>2, <2>2, SizeAssumption DEF GenerateBacklog
  <2> QED
    BY <1>2, <2>1, <2>3 DEF TypeOK, GenerateBacklog, gates, worker, requests
<1>3. CASE PlanEvaluate \/ NothingEligible \/ GiveUp \/ Continue \/ AssessEvaluate \/ EvaluateCached
  BY <1>3 DEF TypeOK, PlanEvaluate, NothingEligible, GiveUp, Continue, AssessEvaluate, EvaluateCached,
              backlog, gates, requests
<1>4. CASE SelectReady
  <2>1. Ready \subseteq Slice
    BY DEF Ready, With, InBacklog
  <2>2. current' \in Slice
    BY <1>4, <2>1, FirstIsFirst DEF SelectReady
  <2> QED
    BY <1>4, <2>2 DEF TypeOK, SelectReady, backlog, gates, requests, Slice
<1>5. CASE Replan
  <2>1. PICK s \in Worst : \E r \in ReplanId(s) :
            /\ stored' = [t \in Slice |-> IF t \in {s, r} THEN "pending" ELSE Status(t)]
            /\ deps' = [deps EXCEPT ![s] = @ \cup {r}]
            /\ first' = [first EXCEPT ![s] = r]
            /\ replanOf' = [replanOf EXCEPT ![r] = s]
            /\ replanAt' = [replanAt EXCEPT ![r] = streak[s]]
    BY <1>5 DEF Replan
  <2>2. PICK r \in ReplanId(s) :
            /\ stored' = [t \in Slice |-> IF t \in {s, r} THEN "pending" ELSE Status(t)]
            /\ deps' = [deps EXCEPT ![s] = @ \cup {r}]
            /\ first' = [first EXCEPT ![s] = r]
            /\ replanOf' = [replanOf EXCEPT ![r] = s]
            /\ replanAt' = [replanAt EXCEPT ![r] = streak[s]]
    BY <2>1
  <2>3. s \in Slice /\ r \in Slice
    BY <2>1, <2>2 DEF Worst, Candidates, With, InBacklog, ReplanId
  <2>4. stored' \in [Slice -> SliceStatus]
    BY <2>2 DEF TypeOK, Status, SliceStatus
  <2>5. /\ deps' \in [Slice -> SUBSET Slice]
        /\ first' \in [Slice -> 0 .. MaxSlices]
        /\ replanOf' \in [Slice -> 0 .. MaxSlices]
        /\ replanAt' \in [Slice -> Nat]
    <3>1. s \in 0 .. MaxSlices /\ r \in 0 .. MaxSlices /\ streak[s] \in Nat
      BY <2>3 DEF TypeOK, Slice
    <3>2. deps' \in [Slice -> SUBSET Slice]
      BY <2>2, <2>3 DEF TypeOK
    <3> QED BY <2>2, <2>3, <3>1, <3>2 DEF TypeOK
  <2> QED
    BY <1>5, <2>4, <2>5 DEF TypeOK, Replan, gates, requests
<1>6. CASE SelectEscalated
  <2>1. PICK s \in Worst : current' = RetryTarget(s)
    BY <1>6 DEF SelectEscalated
  <2>2. s \in Slice
    BY <2>1 DEF Worst, Candidates, With, InBacklog
  <2>3. current' \in Slice
    BY <2>1, <2>2, TargetTyped
  <2> QED
    BY <1>6, <2>3 DEF TypeOK, SelectEscalated, backlog, gates, requests, Slice
<1>7. CASE RunSlice
  <2>1. PICK ok \in BOOLEAN :
            /\ gate' = [gate EXCEPT ![current] = IF ok THEN "passed" ELSE "failed"]
            /\ streak' = [streak EXCEPT ![current] = IF ok THEN 0 ELSE @ + 1]
            /\ failures' = IF ok THEN 0 ELSE failures + 1
            /\ passed' = ok
    BY <1>7 DEF RunSlice
  <2>2. gate' \in [Slice -> {"none", "passed", "failed"}] /\ streak' \in [Slice -> Nat]
    <3>1. CASE ok
      BY <2>1, <3>1 DEF TypeOK
    <3>2. CASE ~ok
      <4>1. /\ gate' = [gate EXCEPT ![current] = "failed"]
            /\ streak' = [streak EXCEPT ![current] = @ + 1]
        BY <2>1, <3>2, Zenon
      <4>2. \A s \in Slice : streak[s] + 1 \in Nat
        BY DEF TypeOK
      <4> QED BY <4>1, <4>2 DEF TypeOK
    <3> QED BY <3>1, <3>2
  <2>3. failures' \in Nat /\ passed' \in BOOLEAN /\ late' \in Nat
    BY <1>7, <2>1 DEF TypeOK, RunSlice
  <2> QED
    BY <1>7, <2>2, <2>3 DEF TypeOK, RunSlice, backlog, requests
<1>16. CASE RunSubdivided
  <2>1. PICK ok \in BOOLEAN :
            /\ failures' = IF ok THEN 0 ELSE failures + 1
            /\ passed' = ok
    BY <1>16 DEF RunSubdivided
  <2>2. failures' \in Nat /\ passed' \in BOOLEAN /\ late' \in Nat
    BY <1>16, <2>1 DEF TypeOK, RunSubdivided
  <2>3. lastGate' \in 0 .. MaxSlices
    BY <1>16, SizeAssumption DEF RunSubdivided
  <2> QED
    BY <1>16, <2>2, <2>3 DEF TypeOK, RunSubdivided, backlog, requests
<1>8. CASE BreakSlice
  <2>1. ops' \in 0 .. MaxOps
    BY <1>8, SizeAssumption DEF TypeOK, BreakSlice
  <2>2. passed' \in BOOLEAN
    BY <1>8, Zenon DEF BreakSlice
  <2> QED
    BY <1>8, <2>1, <2>2 DEF TypeOK, BreakSlice, backlog, gates
<1>9. CASE SkipSlice
  <2>1. stored' \in [Slice -> SliceStatus]
    BY <1>9 DEF TypeOK, SkipSlice, SliceStatus
  <2>2. skipped' \in BOOLEAN /\ ops' \in 0 .. MaxOps
    BY <1>9, SizeAssumption DEF TypeOK, SkipSlice
  <2> QED
    BY <1>9, <2>1, <2>2 DEF TypeOK, SkipSlice, gates
<1>10. CASE Evaluate
  <2>1. verdict' \in {"PASS", "FAIL", "INCOMPLETE"}
    BY <1>10 DEF Evaluate, Verdicts
  <2>2. pc' \in WorkerStep
    BY <1>10 DEF Evaluate
  <2>3. UNCHANGED <<backlog, gates, ends, ticks, current, passed, requests, faults, skipped>>
    BY <1>10 DEF Evaluate
  <2> HIDE DEF WorkerStep
  <2> QED
    BY <2>1, <2>2, <2>3 DEF TypeOK, backlog, gates, requests
<1>11. CASE Announce \/ AnnounceRun
  <2>1. ends' \subseteq CampaignEnd \cup RunEnd
    BY <1>11 DEF TypeOK, Announce, AnnounceRun, CampaignEnd, RunEnd
  <2>2. pc' \in WorkerStep
    BY <1>11 DEF Announce, AnnounceRun
  <2>3. UNCHANGED <<backlog, gates, verdict, ticks, current, passed, requests, faults, skipped>>
    BY <1>11 DEF Announce, AnnounceRun
  <2> HIDE DEF WorkerStep
  <2> QED
    BY <2>1, <2>2, <2>3 DEF TypeOK, backlog, gates, requests
<1>12. CASE WorkerFault
  BY <1>12, SizeAssumption DEF TypeOK, WorkerFault, backlog, gates, requests
<1>13. CASE Pause \/ Resume \/ Cancel
  <2>1. ops' \in 0 .. MaxOps
    BY <1>13, SizeAssumption DEF TypeOK, Pause, Resume, Cancel, Request
  <2>2. resumed' \in BOOLEAN
    BY <1>13, Zenon DEF Pause, Resume, Cancel
  <2>3. ends' \subseteq CampaignEnd \cup RunEnd
    BY <1>13 DEF TypeOK, Pause, Resume, Cancel, CampaignEnd
  <2>4. ticks' \in Nat
    BY <1>13 DEF TypeOK, Pause, Resume, Cancel
  <2> QED
    BY <1>13, <2>1, <2>2, <2>3, <2>4 DEF TypeOK, Pause, Resume, Cancel, backlog, gates, worker
<1>14. CASE CancelCampaign \/ CancelRun \/ Expire
  <2>1. ends' \subseteq CampaignEnd \cup RunEnd
    BY <1>14 DEF TypeOK, CancelCampaign, CancelRun, Expire, CampaignEnd, RunEnd
  <2>2. expired' \in BOOLEAN
    BY <1>14, Zenon DEF TypeOK, CancelCampaign, CancelRun, Expire
  <2> QED
    BY <1>14, <2>1, <2>2 DEF TypeOK, CancelCampaign, CancelRun, Expire, backlog, gates, worker
<1>15. CASE UNCHANGED vars
  BY <1>15 DEF TypeOK, vars, backlog, gates, worker, requests
<1> QED
  BY <1>1, <1>2, <1>3, <1>4, <1>5, <1>6, <1>7, <1>8, <1>9, <1>10, <1>11, <1>12, <1>13, <1>14, <1>15,
     <1>16 DEF Next, Tick

\* The first state is well typed.
LEMMA TypeInit == Init => TypeOK
<1> SUFFICES ASSUME Init PROVE TypeOK
  OBVIOUS
<1>1. passed \in BOOLEAN /\ expired \in BOOLEAN /\ resumed \in BOOLEAN /\ skipped \in BOOLEAN
  BY Zenon DEF Init
<1> QED
  BY <1>1, SizeAssumption DEF Init, TypeOK, SliceStatus, WorkerStep

\* Every variable of the driver keeps its type, the slice an escalation walks
\* back to included.
THEOREM TypeCorrect == Spec => []TypeOK
  BY TypeInit, TypeStep, PTL DEF Spec

-----------------------------------------------------------------------------
(* The inductive invariant                                                 *)

\* The backlog is numbered without gaps, its dependencies are in it and come
\* earlier, and a replan is a dependency of the slice it was inserted for.
BacklogShape ==
    /\ InBacklog # {} => Planned \in InBacklog
    /\ \A t \in InBacklog, u \in Slice : u < t => u \in InBacklog
    /\ \A s \in Slice : \A d \in deps[s] : s \in InBacklog /\ d \in InBacklog /\ Before(d, s)
    /\ \A s \in Slice : IF deps[s] = {} THEN first[s] = 0 ELSE first[s] \in deps[s]
    /\ \A r \in Slice : replanOf[r] # 0 => r > Planned /\ r \in deps[replanOf[r]]

\* A slice that was run is in the backlog, after all its planned dependencies;
\* statuses of slices that were run come from gates; a replan that was not run
\* depends on nothing.
GatesInOrder ==
    /\ \A s \in Slice : gate[s] # "none" => s \in InBacklog
    /\ \A s \in Slice : stored[s] \in {"passed", "failed"} => gate[s] # "none"
    /\ \A s \in Slice : gate[s] # "none" => \A d \in deps[s] : gate[d] # "none" \/ d > Planned
    /\ \A s \in Slice : s > Planned /\ gate[s] = "none" => deps[s] = {}

\* The slice of the tick may be run for the first time.
CurrentHasDeps ==
    pc = "execute" => /\ current \in InBacklog
                      /\ gate[current] = "none" => deps[current] \subseteq With("passed")

\* Exactly the failed slices have a streak.
StreaksAreFails == \A s \in Slice : IF gate[s] = "failed" THEN streak[s] > 0 ELSE streak[s] = 0

\* Without a skip no slice fails often enough to be replanned again: at
\* FailsPerLevel its first dependency is run in its place, or a first replan is
\* inserted and becomes that dependency.
FewFails ==
    ~skipped =>
        /\ \A s \in Slice : stored[s] # "deferred"
        /\ \A s \in Slice : streak[s] <= FailsPerLevel
        /\ pc = "execute" => streak[current] < FailsPerLevel
        /\ pc = "select" => ReplanInserted
        /\ \A r, t \in Slice : replanOf[r] # 0 /\ replanOf[r] = replanOf[t] => r = t

OrderInv == BacklogShape /\ GatesInOrder /\ CurrentHasDeps /\ StreaksAreFails /\ FewFails

IInv == TypeOK /\ OrderInv

-----------------------------------------------------------------------------
(* What the invariant says of statuses                                     *)

\* A pending slice has no gate, a passed one a clean streak and a failed one not.
LEMMA StatusFacts ==
  ASSUME IInv, NEW s \in Slice
  PROVE  /\ s \in With("pending") => gate[s] = "none" /\ stored[s] = "pending" /\ streak[s] = 0
         /\ s \in With("passed") => gate[s] = "passed" /\ streak[s] = 0
         /\ s \in With("failed") => gate[s] = "failed" /\ streak[s] > 0
  BY DEF IInv, OrderInv, TypeOK, GatesInOrder, StreaksAreFails, With, Status, SliceStatus

\* Without a skip, when nothing is ready the first failed slice of the backlog
\* waits for nothing.
LEMMA HeadsExist ==
  ASSUME IInv, ~skipped, Ready = {}, With("failed") # {}
  PROVE  \E h \in With("failed") : deps[h] \subseteq With("passed")
<1> USE DEF IInv, OrderInv
<1> DEFINE h == First(With("failed"))
<1>1. With("failed") \subseteq Slice
  BY DEF With, InBacklog
<1>2. h \in With("failed") /\ \A d \in With("failed") : ~Before(d, h)
  BY <1>1, FirstIsFirst
<1> HIDE DEF h
<1>3. h \in Slice /\ gate[h] = "failed"
  BY <1>1, <1>2, StatusFacts
<1>4. ASSUME NEW d \in deps[h] PROVE d \in With("passed")
  <2>1. d \in Slice /\ d \in InBacklog /\ Before(d, h)
    BY <1>3 DEF BacklogShape, InBacklog
  <2>2. d \notin With("failed")
    BY <1>2, <2>1
  <2>3. CASE gate[d] # "none"
    <3>1. Status(d) = gate[d] /\ gate[d] \in {"passed", "failed"}
      BY <2>1, <2>3 DEF Status, TypeOK
    <3> QED BY <2>1, <2>2, <3>1 DEF With
  <2>4. CASE gate[d] = "none"
    <3>1. d > Planned /\ deps[d] = {}
      BY <1>3, <2>1, <2>4 DEF GatesInOrder
    <3>2. stored[d] \notin {"absent", "deferred", "passed", "failed"}
      BY <2>1, <2>4 DEF GatesInOrder, FewFails, InBacklog
    <3>3. Status(d) = "pending"
      BY <2>1, <2>4, <3>2 DEF Status, TypeOK, SliceStatus
    <3>4. d \in Ready
      BY <2>1, <3>1, <3>3 DEF Ready, With
    <3> QED BY <3>4
  <2> QED BY <2>3, <2>4
<1> QED
  BY <1>2, <1>4

\* How deep an escalation goes while streaks are short.
LEMMA ShortStreak ==
  ASSUME TypeOK, NEW s \in Slice, streak[s] <= FailsPerLevel
  PROVE  /\ streak[s] < FailsPerLevel => Depth(s) = 0
         /\ streak[s] = FailsPerLevel => Depth(s) = 1
<1>1. streak[s] \in Nat
  BY DEF TypeOK
<1> QED
  BY <1>1 DEF Depth, FailsPerLevel

\* Walks of no and of one step.
LEMMA ShortWalk ==
  ASSUME TypeOK, NEW s \in Slice
  PROVE  WalkBack(s, 0) = s /\ WalkBack(s, 1) = Back(s)
<1>1. \A t \in Slice : Back(t) \in Slice
  BY DEF TypeOK, Back, Slice
<1> QED
  BY <1>1, WalkBackStart

\* Without a skip, only a slice without dependencies is replanned.
LEMMA RootsAreReplanned ==
  ASSUME IInv, ~skipped, NEW s \in Slice, PastRoot(s)
  PROVE  deps[s] = {} /\ OpenReplan(s) = {} /\ streak[s] = FailsPerLevel
<1> USE DEF IInv, OrderInv
<1>1. streak[s] <= FailsPerLevel /\ streak[s] \in Nat
  BY DEF FewFails, TypeOK
<1>2. streak[s] = FailsPerLevel /\ Depth(s) = 1
  BY <1>1, ShortStreak DEF PastRoot, FailsPerLevel
<1>3. first[s] = 0
  BY <1>2, ShortWalk DEF PastRoot
<1>4. deps[s] = {}
  <2>1. deps[s] \subseteq Slice /\ 0 \notin Slice
    BY DEF TypeOK, Slice
  <2> QED BY <1>3, <2>1 DEF BacklogShape
<1>5. \A r \in Slice : replanOf[r] # s
  BY <1>4 DEF BacklogShape, Slice
<1> QED
  BY <1>2, <1>4, <1>5 DEF OpenReplan, With, InBacklog

-----------------------------------------------------------------------------
(* Steps that leave backlog and gates alone                                *)

\* Such a step keeps the invariant unless it comes to run or to select.
LEMMA FrameStep ==
  ASSUME IInv, TypeOK', UNCHANGED <<stored, deps, first, replanOf, gate, streak, skipped>>,
         pc' = "execute" => pc = "execute" /\ current' = current,
         pc' = "select" => pc = "select"
  PROVE  OrderInv'
<1> USE DEF IInv, OrderInv
<1>1. InBacklog' = InBacklog /\ \A st : With(st)' = With(st)
  BY DEF InBacklog, With, Status
<1>2. ReplanInserted' = ReplanInserted
  BY <1>1 DEF ReplanInserted, OpenReplan
<1>3. BacklogShape' /\ GatesInOrder' /\ StreaksAreFails'
  BY <1>1 DEF BacklogShape, GatesInOrder, StreaksAreFails
<1>4. CurrentHasDeps'
  BY <1>1 DEF CurrentHasDeps
<1>5. FewFails'
  BY <1>2 DEF FewFails
<1> QED
  BY <1>3, <1>4, <1>5

\* A step that selects a slice keeps it if the slice may be run.
LEMMA SelectStep ==
  ASSUME IInv, TypeOK', UNCHANGED <<stored, deps, first, replanOf, gate, streak, skipped>>,
         pc' = "execute", current' \in InBacklog,
         gate[current'] = "none" => deps[current'] \subseteq With("passed"),
         ~skipped => streak[current'] < FailsPerLevel
  PROVE  OrderInv'
<1> USE DEF IInv, OrderInv
<1>1. InBacklog' = InBacklog /\ \A st : With(st)' = With(st)
  BY DEF InBacklog, With, Status
<1>3. BacklogShape' /\ GatesInOrder' /\ StreaksAreFails'
  BY <1>1 DEF BacklogShape, GatesInOrder, StreaksAreFails
<1>4. CurrentHasDeps'
  BY <1>1 DEF CurrentHasDeps
<1>5. FewFails'
  BY DEF FewFails
<1> QED
  BY <1>3, <1>4, <1>5

-----------------------------------------------------------------------------
(* The steps of a tick that matter                                         *)

\* The generated backlog lists dependencies first.
LEMMA GenerateBacklogStep ==
  ASSUME IInv, TypeOK', GenerateBacklog
  PROVE  OrderInv'
<1> USE DEF IInv, OrderInv
<1>1. UNCHANGED <<replanOf, gate, streak, skipped, pc, current>> /\ pc = "plan"
  BY DEF GenerateBacklog, gates, worker
<1>2. InBacklog = {}
  BY DEF GenerateBacklog, Generated, InBacklog
<1>3. \A s \in Slice : gate[s] = "none" /\ deps[s] = {} /\ replanOf[s] = 0
  <2> SUFFICES ASSUME NEW s \in Slice PROVE gate[s] = "none" /\ deps[s] = {} /\ replanOf[s] = 0
    OBVIOUS
  <2>1. gate[s] = "none" /\ \A t \in Slice : deps[t] = {}
    BY <1>2 DEF GatesInOrder, BacklogShape
  <2>2. replanOf[s] = 0
    <3>1. replanOf[s] # 0 => replanOf[s] \in Slice
      <4>1. replanOf[s] \in 0 .. MaxSlices
        BY DEF TypeOK
      <4> QED BY <4>1, SizeAssumption DEF Slice
    <3> QED BY <2>1, <3>1 DEF BacklogShape
  <2> QED BY <2>1, <2>2
<1>4. \A s \in Slice : /\ stored'[s] = IF s <= Planned THEN "pending" ELSE "absent"
                       /\ s > Planned => deps'[s] = {} /\ first'[s] = 0
  BY SizeAssumption DEF GenerateBacklog, Slice
<1>5. InBacklog' = {s \in Slice : s <= Planned}
  BY <1>4 DEF InBacklog
<1>6. ASSUME NEW s \in Slice, s <= Planned
      PROVE  /\ \A d \in deps'[s] : d \in Slice /\ d <= Planned /\ d < s
             /\ IF deps'[s] = {} THEN first'[s] = 0 ELSE first'[s] \in deps'[s]
  <2>1. s \in 1 .. Planned /\ 1 .. Planned \subseteq Slice /\ 1 .. Planned \subseteq Nat
    BY <1>6, SizeAssumption DEF Slice
  <2>2. PICK q \in Seq(1 .. Planned) : q = DependsOn[s] /\ \A i \in DOMAIN q : q[i] < s
    BY <2>1, DagAssumption
  <2>3. deps'[s] = {q[i] : i \in DOMAIN q} /\ first'[s] = IF q # <<>> THEN Head(q) ELSE 0
    BY <1>6, <2>2 DEF GenerateBacklog
  <2>4. \A i \in DOMAIN q : q[i] \in Slice /\ q[i] <= Planned
    <3>1. \A i \in DOMAIN q : q[i] \in 1 .. Planned
      BY <2>2, SeqHolds
    <3> QED BY <2>1, <3>1, SizeAssumption
  <2>5. \A d \in deps'[s] : d \in Slice /\ d <= Planned /\ d < s
    BY <2>2, <2>3, <2>4
  <2>6. IF deps'[s] = {} THEN first'[s] = 0 ELSE first'[s] \in deps'[s]
    BY <2>3, SeqHolds
  <2> QED BY <2>5, <2>6
<1>7. BacklogShape'
  <2>1. Planned \in InBacklog' /\ \A t \in InBacklog', u \in Slice : u < t => u \in InBacklog'
    BY <1>5, SizeAssumption DEF Slice
  <2>2. ASSUME NEW s \in Slice, NEW d \in deps'[s]
        PROVE  s \in InBacklog' /\ d \in InBacklog' /\ Before(d, s)
    <3>1. s <= Planned
      BY <1>4, <2>2, SizeAssumption DEF Slice
    <3> QED BY <1>5, <1>6, <2>2, <3>1, SizeAssumption DEF Before, Slice
  <2>3. \A s \in Slice : IF deps'[s] = {} THEN first'[s] = 0 ELSE first'[s] \in deps'[s]
    BY <1>4, <1>6, SizeAssumption DEF Slice
  <2>4. \A r \in Slice : replanOf'[r] = 0
    BY <1>1, <1>3
  <2> QED BY <2>1, <2>2, <2>3, <2>4 DEF BacklogShape
<1>8. GatesInOrder'
  BY <1>1, <1>3, <1>4 DEF GatesInOrder
<1>9. CurrentHasDeps' /\ StreaksAreFails'
  BY <1>1 DEF CurrentHasDeps, StreaksAreFails
<1>10. FewFails'
  BY <1>1, <1>3, <1>4 DEF FewFails
<1> QED
  BY <1>7, <1>8, <1>9, <1>10

\* A ready slice depends on passed ones only.
LEMMA SelectReadyStep ==
  ASSUME IInv, TypeOK', SelectReady
  PROVE  OrderInv'
<1>1. Ready \subseteq Slice
  BY DEF Ready, With, InBacklog
<1>2. current' \in Ready
  BY <1>1, FirstIsFirst DEF SelectReady
<1>3. current' \in Slice /\ current' \in With("pending") /\ deps[current'] \subseteq With("passed")
  BY <1>1, <1>2 DEF Ready
<1>4. gate[current'] = "none" /\ streak[current'] = 0 /\ current' \in InBacklog
  BY <1>3, StatusFacts DEF With
<1>5. UNCHANGED <<stored, deps, first, replanOf, gate, streak, skipped>> /\ pc' = "execute"
  BY DEF SelectReady, backlog, gates, Goto
<1> QED
  BY <1>3, <1>4, <1>5, SelectStep DEF FailsPerLevel

\* What an escalation runs is in the backlog, and was run before or depends on
\* nothing.
LEMMA TargetInOrder ==
  ASSUME IInv, NEW s \in InBacklog, gate[s] # "none"
  PROVE  /\ RetryTarget(s) \in InBacklog
         /\ gate[RetryTarget(s)] # "none" \/ deps[RetryTarget(s)] = {}
<1> USE DEF IInv, OrderInv
<1> DEFINE K == {t \in InBacklog : gate[t] # "none" \/ deps[t] = {}}
<1>1. \A t \in K : Back(t) \in K
  <2> SUFFICES ASSUME NEW t \in K, first[t] # 0 PROVE first[t] \in K
    BY DEF Back
  <2>1. t \in Slice /\ first[t] \in deps[t] /\ deps[t] # {}
    BY DEF BacklogShape, InBacklog
  <2>2. gate[t] # "none" /\ first[t] \in InBacklog /\ first[t] \in Slice
    BY <2>1 DEF BacklogShape, InBacklog
  <2>3. gate[first[t]] # "none" \/ first[t] > Planned
    BY <2>1, <2>2 DEF GatesInOrder
  <2>4. gate[first[t]] # "none" \/ deps[first[t]] = {}
    BY <2>2, <2>3 DEF GatesInOrder
  <2> QED BY <2>2, <2>4
<1>2. s \in Slice /\ s \in K
  BY DEF InBacklog
<1>3. WalkBack(s, Depth(s)) \in K
  <2>1. Depth(s) \in Nat
    BY <1>2, TargetTyped
  <2> HIDE DEF K
  <2> QED BY <1>1, <1>2, <2>1, WalkBackStays
<1>4. CASE PastRoot(s) /\ OpenReplan(s) # {}
  <2>1. OpenReplan(s) \subseteq Slice
    BY DEF OpenReplan, With, InBacklog
  <2>2. RetryTarget(s) \in OpenReplan(s)
    BY <1>4, <2>1, FirstIsFirst DEF RetryTarget
  <2> DEFINE t == RetryTarget(s)
  <2>3. t \in Slice /\ t \in With("pending") /\ t \in InBacklog /\ replanOf[t] = s /\ s # 0
    BY <1>2, <2>1, <2>2 DEF OpenReplan, With, Slice
  <2> HIDE DEF t
  <2>4. gate[t] = "none" /\ t > Planned
    BY <2>3, StatusFacts DEF BacklogShape
  <2>5. deps[t] = {}
    BY <2>3, <2>4 DEF GatesInOrder
  <2> QED BY <2>3, <2>5 DEF t
<1>5. CASE ~(PastRoot(s) /\ OpenReplan(s) # {})
  <2>1. RetryTarget(s) = WalkBack(s, Depth(s))
    BY <1>5 DEF RetryTarget
  <2> QED BY <1>3, <2>1
<1> QED
  BY <1>4, <1>5

\* Without a skip, what an escalation runs has failed less than FailsPerLevel
\* times since it passed.
LEMMA TargetIsFresh ==
  ASSUME IInv, ~skipped, Ready = {}, NEW s \in Worst,
         pc = "plan" => ~NeedsReplan(s), pc \in {"plan", "select"}
  PROVE  streak[RetryTarget(s)] < FailsPerLevel
<1> USE DEF IInv, OrderInv
<1>1. s \in With("failed") /\ s \in Slice /\ deps[s] \subseteq With("passed")
  <2>1. s \in Candidates
    BY DEF Worst
  <2>2. With("failed") # {}
    BY <2>1 DEF Candidates
  <2>3. \E h \in With("failed") : deps[h] \subseteq With("passed")
    BY <2>2, HeadsExist
  <2> QED BY <2>1, <2>3 DEF Candidates, With, InBacklog
<1>2. streak[s] \in Nat /\ streak[s] <= FailsPerLevel
  BY <1>1 DEF FewFails, TypeOK
<1>3. CASE streak[s] < FailsPerLevel
  <2>1. Depth(s) = 0 /\ ~PastRoot(s)
    BY <1>1, <1>2, <1>3, ShortStreak DEF PastRoot
  <2>2. RetryTarget(s) = s
    BY <1>1, <2>1, ShortWalk DEF RetryTarget
  <2> QED BY <1>3, <2>2
<1>4. CASE streak[s] = FailsPerLevel
  <2>1. Depth(s) = 1
    BY <1>1, <1>2, <1>4, ShortStreak
  <2>2. PastRoot(s) <=> first[s] = 0
    BY <1>1, <2>1, ShortWalk DEF PastRoot
  <2>3. first[s] # 0
    <3> SUFFICES ASSUME first[s] = 0 PROVE FALSE
      OBVIOUS
    <3>1. NeedsReplan(s)
      BY <1>1, <2>2, RootsAreReplanned DEF NeedsReplan
    <3>2. ReplanInserted
      BY <3>1 DEF FewFails
    <3>3. PICK t \in Slice : first[t] \in With("pending") /\ replanOf[first[t]] = t
      BY <3>2 DEF ReplanInserted, OpenReplan
    <3>4. first[t] \in Slice /\ first[t] > Planned /\ gate[first[t]] = "none"
      BY <3>3, StatusFacts DEF BacklogShape, With, InBacklog, Slice
    <3>5. deps[first[t]] = {}
      BY <3>4 DEF GatesInOrder
    <3> QED BY <3>3, <3>5 DEF Ready
  <2>4. RetryTarget(s) = first[s]
    BY <1>1, <2>1, <2>2, <2>3, ShortWalk DEF RetryTarget, Back
  <2>5. first[s] \in Slice /\ first[s] \in With("passed")
    BY <1>1, <2>3 DEF BacklogShape, With, InBacklog
  <2> QED BY <2>4, <2>5, StatusFacts DEF FailsPerLevel
<1> QED
  BY <1>2, <1>3, <1>4 DEF FailsPerLevel

\* An escalation selects a slice that may be run.
LEMMA SelectEscalatedStep ==
  ASSUME IInv, TypeOK', SelectEscalated
  PROVE  OrderInv'
<1>1. PICK s \in Worst : (pc = "plan" => ~NeedsReplan(s)) /\ current' = RetryTarget(s)
  BY DEF SelectEscalated
<1>2. s \in With("failed") /\ s \in Slice /\ s \in InBacklog
  BY <1>1 DEF Worst, Candidates, With, InBacklog
<1>3. gate[s] # "none"
  BY <1>2, StatusFacts
<1>4. current' \in InBacklog /\ (gate[current'] = "none" => deps[current'] \subseteq With("passed"))
  BY <1>1, <1>2, <1>3, TargetInOrder
<1>5. ~skipped => streak[current'] < FailsPerLevel
  BY <1>1, TargetIsFresh DEF SelectEscalated
<1>6. UNCHANGED <<stored, deps, first, replanOf, gate, streak, skipped>> /\ pc' = "execute"
  BY DEF SelectEscalated, backlog, gates, Goto
<1> QED
  BY <1>4, <1>5, <1>6, SelectStep

\* A replan slice is first in the backlog and the failed slice waits for it.
LEMMA ReplanStep ==
  ASSUME IInv, TypeOK', Replan
  PROVE  OrderInv'
<1> USE DEF IInv, OrderInv
<1>0. PICK s \in Worst : \E r \in ReplanId(s) :
          /\ NeedsReplan(s)
          /\ stored' = [t \in Slice |-> IF t \in {s, r} THEN "pending" ELSE Status(t)]
          /\ deps' = [deps EXCEPT ![s] = @ \cup {r}]
          /\ first' = [first EXCEPT ![s] = r]
          /\ replanOf' = [replanOf EXCEPT ![r] = s]
  BY DEF Replan
<1>1. PICK r \in ReplanId(s) :
          /\ NeedsReplan(s)
          /\ stored' = [t \in Slice |-> IF t \in {s, r} THEN "pending" ELSE Status(t)]
          /\ deps' = [deps EXCEPT ![s] = @ \cup {r}]
          /\ first' = [first EXCEPT ![s] = r]
          /\ replanOf' = [replanOf EXCEPT ![r] = s]
  BY <1>0
<1>2. UNCHANGED <<gate, streak, current, skipped>> /\ pc' = "select" /\ pc = "plan" /\ Ready = {}
  BY DEF Replan, gates, Goto
<1>3. s \in With("failed") /\ s \in Slice /\ s \in InBacklog /\ r \in Slice
  BY <1>1 DEF Worst, Candidates, With, InBacklog, ReplanId
<1>4. gate[s] = "failed" /\ s # 0
  BY <1>3, StatusFacts DEF Slice
\* The id is new, or was given to a replan of this slice before.
<1>5. \/ r \in InBacklog /\ replanOf[r] = s
      \/ /\ r \notin InBacklog /\ gate[r] = "none" /\ deps[r] = {} /\ replanOf[r] = 0 /\ s < r
         /\ \A u \in Slice : u < r => u \in InBacklog
  <2>1. CASE r \in InBacklog
    BY <1>1, <2>1 DEF ReplanId
  <2>2. CASE r \notin InBacklog
    <3>1. \A t \in Slice \ InBacklog : r <= t
      BY <1>1, <2>2 DEF ReplanId
    <3>2. \A u \in Slice : u < r => u \in InBacklog
      BY <1>3, <3>1 DEF Slice
    <3>3. gate[r] = "none" /\ deps[r] = {}
      BY <1>3, <2>2 DEF GatesInOrder, BacklogShape
    <3>4. replanOf[r] = 0
      <4>1. replanOf[r] # 0 => replanOf[r] \in Slice
        <5>1. replanOf[r] \in 0 .. MaxSlices
          BY <1>3 DEF TypeOK
        <5> QED BY <5>1, SizeAssumption DEF Slice
      <4> QED BY <1>3, <2>2, <4>1 DEF BacklogShape
    <3>5. s < r
      <4>1. ~(r < s) /\ r # s
        BY <1>3, <2>2 DEF BacklogShape
      <4> QED BY <1>3, <4>1 DEF Slice
    <3> QED BY <2>2, <3>2, <3>3, <3>4, <3>5
  <2> QED BY <2>1, <2>2
<1>6. r > Planned /\ Before(r, s)
  <2>1. CASE r \in InBacklog /\ replanOf[r] = s
    <3>1. r \in deps[s] /\ r > Planned
      BY <1>3, <1>4, <2>1 DEF BacklogShape
    <3> QED BY <1>3, <3>1 DEF BacklogShape
  <2>2. CASE r \notin InBacklog /\ s < r
    <3>1. Planned \in InBacklog /\ Planned \in Slice
      BY <1>3, SizeAssumption DEF BacklogShape, Slice
    <3>2. ~(r < Planned) /\ r # Planned
      BY <1>3, <2>2, <3>1 DEF BacklogShape
    <3>3. r > Planned
      BY <1>3, <3>1, <3>2 DEF Slice
    <3> QED BY <1>3, <2>2, <3>3 DEF Before
  <2> QED BY <1>5, <2>1, <2>2
<1>7. /\ \A t \in Slice : deps'[t] = IF t = s THEN deps[s] \cup {r} ELSE deps[t]
      /\ \A t \in Slice : first'[t] = IF t = s THEN r ELSE first[t]
      /\ \A t \in Slice : replanOf'[t] = IF t = r THEN s ELSE replanOf[t]
      /\ \A t \in Slice : stored'[t] = IF t \in {s, r} THEN "pending" ELSE Status(t)
  BY <1>1, <1>3 DEF TypeOK
<1>8. InBacklog' = InBacklog \cup {r}
  <2>1. \A t \in Slice : t \in InBacklog => Status(t) # "absent"
    BY DEF Status, InBacklog, TypeOK
  <2>2. \A t \in Slice : t \notin InBacklog => Status(t) = "absent"
    BY DEF Status, InBacklog, GatesInOrder
  <2> QED BY <1>3, <1>7, <2>1, <2>2 DEF InBacklog
<1>9. BacklogShape'
  <2>1. Planned \in InBacklog'
    BY <1>3, <1>8 DEF BacklogShape
  <2>2. \A t \in InBacklog', u \in Slice : u < t => u \in InBacklog'
    BY <1>5, <1>8 DEF BacklogShape
  <2>3. \A t \in Slice : \A d \in deps'[t] : t \in InBacklog' /\ d \in InBacklog' /\ Before(d, t)
    BY <1>3, <1>6, <1>7, <1>8 DEF BacklogShape
  <2>4. \A t \in Slice : IF deps'[t] = {} THEN first'[t] = 0 ELSE first'[t] \in deps'[t]
    BY <1>7 DEF BacklogShape
  <2>5. \A t \in Slice : replanOf'[t] # 0 => t > Planned /\ t \in deps'[replanOf'[t]]
    <3> SUFFICES ASSUME NEW t \in Slice, replanOf'[t] # 0
                 PROVE  t > Planned /\ t \in deps'[replanOf'[t]]
      OBVIOUS
    <3>1. CASE t = r
      BY <1>3, <1>6, <1>7, <3>1
    <3>2. CASE t # r
      <4>1. replanOf'[t] = replanOf[t] /\ replanOf[t] \in Slice
        <5>1. replanOf'[t] = replanOf[t] /\ replanOf[t] \in 0 .. MaxSlices
          BY <1>7, <3>2 DEF TypeOK
        <5> QED BY <5>1, SizeAssumption DEF Slice
      <4>2. t > Planned /\ t \in deps[replanOf[t]]
        BY <4>1 DEF BacklogShape
      <4> QED BY <1>7, <4>1, <4>2
    <3> QED BY <3>1, <3>2
  <2> QED BY <2>1, <2>2, <2>3, <2>4, <2>5 DEF BacklogShape
<1>10. GatesInOrder'
  <2>1. \A t \in Slice : gate'[t] # "none" => t \in InBacklog'
    BY <1>2, <1>8 DEF GatesInOrder
  <2>2. \A t \in Slice : stored'[t] \in {"passed", "failed"} => gate'[t] # "none"
    BY <1>2, <1>7 DEF GatesInOrder, Status
  <2>3. \A t \in Slice : gate'[t] # "none" => \A d \in deps'[t] : gate'[d] # "none" \/ d > Planned
    BY <1>2, <1>6, <1>7 DEF GatesInOrder
  <2>4. \A t \in Slice : t > Planned /\ gate'[t] = "none" => deps'[t] = {}
    BY <1>2, <1>4, <1>7 DEF GatesInOrder
  <2> QED BY <2>1, <2>2, <2>3, <2>4 DEF GatesInOrder
<1>11. CurrentHasDeps' /\ StreaksAreFails'
  BY <1>2 DEF CurrentHasDeps, StreaksAreFails
<1>12. FewFails'
  <2> SUFFICES ASSUME ~skipped PROVE FewFails'
    BY <1>2 DEF FewFails
  <2>1. deps[s] = {}
    BY <1>1, <1>3, RootsAreReplanned DEF NeedsReplan
  <2>2. \A t \in Slice : replanOf[t] # s
    BY <1>3, <1>4, <2>1 DEF BacklogShape
  <2>3. r \notin InBacklog /\ gate[r] = "none" /\ replanOf[r] = 0
    BY <1>3, <1>5, <2>2
  <2>4. \A t \in Slice : stored'[t] # "deferred"
    BY <1>7 DEF FewFails, Status, TypeOK
  <2>5. ReplanInserted'
    <3>1. Status(r)' = "pending" /\ r \in InBacklog'
      BY <1>2, <1>3, <1>7, <1>8, <2>3 DEF Status
    <3>2. first'[s] = r /\ replanOf'[r] = s
      BY <1>3, <1>7
    <3> QED BY <1>3, <3>1, <3>2 DEF ReplanInserted, OpenReplan, With
  <2>6. \A x, y \in Slice : replanOf'[x] # 0 /\ replanOf'[x] = replanOf'[y] => x = y
    BY <1>7, <2>2 DEF FewFails
  <2> QED
    BY <1>2, <2>4, <2>5, <2>6 DEF FewFails
<1> QED
  BY <1>9, <1>10, <1>11, <1>12

\* A gate is that of the selected slice, whose dependencies have passed theirs.
LEMMA RunSliceStep ==
  ASSUME IInv, TypeOK', RunSlice
  PROVE  OrderInv'
<1> USE DEF IInv, OrderInv
<1>1. PICK v \in {"passed", "failed"} :
          /\ gate' = [gate EXCEPT ![current] = v]
          /\ streak' = [streak EXCEPT ![current] = IF v = "passed" THEN 0 ELSE @ + 1]
  <2>1. PICK ok \in BOOLEAN :
            /\ gate' = [gate EXCEPT ![current] = IF ok THEN "passed" ELSE "failed"]
            /\ streak' = [streak EXCEPT ![current] = IF ok THEN 0 ELSE @ + 1]
    BY DEF RunSlice
  <2>2. CASE ok
    <3>1. gate' = [gate EXCEPT ![current] = "passed"] /\ streak' = [streak EXCEPT ![current] = 0]
      BY <2>1, <2>2, Zenon
    <3> QED BY <3>1
  <2>3. CASE ~ok
    <3>1. gate' = [gate EXCEPT ![current] = "failed"] /\ streak' = [streak EXCEPT ![current] = @ + 1]
      BY <2>1, <2>3, Zenon
    <3> QED BY <3>1
  <2> QED BY <2>2, <2>3
<1>2. UNCHANGED <<stored, deps, first, replanOf, skipped>> /\ pc = "execute" /\ pc' = "assess"
  BY DEF RunSlice, backlog, Goto
<1>3. current \in InBacklog /\ current \in Slice
  BY <1>2 DEF CurrentHasDeps, InBacklog
<1>4. \A s \in Slice : gate'[s] = IF s = current THEN v ELSE gate[s]
  BY <1>1, <1>3 DEF TypeOK
<1>5. \A s \in Slice : streak'[s] = IF s = current THEN IF v = "passed" THEN 0 ELSE streak[s] + 1
                                    ELSE streak[s]
  BY <1>1, <1>3 DEF TypeOK
<1>6. InBacklog' = InBacklog
  BY <1>2 DEF InBacklog
<1>7. BacklogShape'
  BY <1>2, <1>6 DEF BacklogShape
<1>8. \A d \in deps[current] : d \in Slice /\ (gate[d] # "none" \/ d > Planned)
  <2> SUFFICES ASSUME NEW d \in deps[current] PROVE d \in Slice /\ (gate[d] # "none" \/ d > Planned)
    OBVIOUS
  <2>1. d \in Slice
    BY <1>3 DEF TypeOK
  <2>2. d \in With("passed") => gate[d] # "none"
    BY <2>1, StatusFacts
  <2> QED BY <1>2, <1>3, <2>1, <2>2 DEF CurrentHasDeps, GatesInOrder
<1>9. GatesInOrder'
  <2>1. \A s \in Slice : gate'[s] # "none" => s \in InBacklog'
    BY <1>3, <1>4, <1>6 DEF GatesInOrder
  <2>2. \A s \in Slice : stored'[s] \in {"passed", "failed"} => gate'[s] # "none"
    BY <1>2, <1>4 DEF GatesInOrder
  <2>3. ASSUME NEW s \in Slice, gate'[s] # "none", NEW d \in deps'[s]
        PROVE  gate'[d] # "none" \/ d > Planned
    <3>1. d \in deps[s] /\ d \in Slice
      BY <1>2, <2>3 DEF TypeOK
    <3>2. gate[d] # "none" \/ d > Planned
      BY <1>4, <1>8, <2>3, <3>1 DEF GatesInOrder
    <3> QED BY <1>4, <3>1, <3>2
  <2>4. \A s \in Slice : s > Planned /\ gate'[s] = "none" => deps'[s] = {}
    BY <1>2, <1>4 DEF GatesInOrder
  <2> QED BY <2>1, <2>2, <2>3, <2>4 DEF GatesInOrder
<1>10. StreaksAreFails'
  <2>1. \A s \in Slice : streak[s] \in Nat
    BY DEF TypeOK
  <2> QED BY <1>4, <1>5, <2>1 DEF StreaksAreFails
<1>11. CurrentHasDeps'
  BY <1>2 DEF CurrentHasDeps
<1>12. FewFails'
  <2>1. \A s \in Slice : streak[s] \in Nat
    BY DEF TypeOK
  <2> QED BY <1>2, <1>3, <1>5, <2>1 DEF FewFails, FailsPerLevel
<1> QED
  BY <1>7, <1>9, <1>10, <1>11, <1>12

\* A skip defers a slice that was not run; no gate changes.
LEMMA SkipSliceStep ==
  ASSUME IInv, TypeOK', SkipSlice
  PROVE  OrderInv'
<1> USE DEF IInv, OrderInv
<1>1. UNCHANGED <<deps, first, replanOf, gate, streak, current>> /\ pc' = "assess"
  BY DEF SkipSlice, gates, Goto
<1>2. StoredReady \subseteq Slice /\ \A s \in StoredReady : stored[s] = "pending"
  BY DEF StoredReady
<1>3. \A s \in Slice : stored'[s] = stored[s] \/ (stored[s] = "pending" /\ stored'[s] = "deferred")
  <2>1. CASE StoredReady = {}
    BY <2>1 DEF SkipSlice
  <2>2. CASE StoredReady # {}
    <3>1. First(StoredReady) \in StoredReady
      BY <1>2, <2>2, FirstIsFirst
    <3>2. stored' = [stored EXCEPT ![First(StoredReady)] = "deferred"]
      BY <2>2 DEF SkipSlice
    <3> QED BY <1>2, <3>1, <3>2 DEF TypeOK
  <2> QED BY <2>1, <2>2
<1>4. InBacklog' = InBacklog
  BY <1>3 DEF InBacklog
<1>5. BacklogShape'
  BY <1>1, <1>4 DEF BacklogShape
<1>6. GatesInOrder'
  BY <1>1, <1>3, <1>4 DEF GatesInOrder
<1>7. CurrentHasDeps' /\ StreaksAreFails'
  BY <1>1 DEF CurrentHasDeps, StreaksAreFails
<1>8. FewFails'
  <2> SUFFICES ASSUME ~skipped' PROVE FewFails'
    BY DEF FewFails
  <2>1. ~skipped /\ StoredReady = {}
    BY DEF SkipSlice
  <2>2. stored' = stored
    BY <2>1 DEF SkipSlice
  <2> QED BY <1>1, <2>1, <2>2 DEF FewFails
<1> QED
  BY <1>5, <1>6, <1>7, <1>8

\* Every step of the driver, an operator or the clock keeps the invariant.
LEMMA InvStep == IInv /\ [Next]_vars => IInv'
<1> SUFFICES ASSUME IInv, [Next]_vars PROVE IInv'
  OBVIOUS
<1>1. TypeOK'
  BY TypeStep DEF IInv
<1> DEFINE Frame == /\ UNCHANGED <<stored, deps, first, replanOf, gate, streak, skipped>>
                    /\ pc' = "execute" => pc = "execute" /\ current' = current
                    /\ pc' = "select" => pc = "select"
<1>2. CASE Frame
  BY <1>1, <1>2, FrameStep DEF IInv
<1>3. CASE TickStop \/ TickStart
  BY <1>3, <1>2 DEF TickStop, TickStart, Goto, backlog, gates, worker
<1>4. CASE GenerateBacklog
  BY <1>1, <1>4, GenerateBacklogStep DEF IInv
<1>5. CASE SelectReady
  BY <1>1, <1>5, SelectReadyStep DEF IInv
<1>6. CASE Replan
  BY <1>1, <1>6, ReplanStep DEF IInv
<1>7. CASE SelectEscalated
  BY <1>1, <1>7, SelectEscalatedStep DEF IInv
<1>8. CASE RunSlice
  BY <1>1, <1>8, RunSliceStep DEF IInv
<1>9. CASE SkipSlice
  BY <1>1, <1>9, SkipSliceStep DEF IInv
<1>10. CASE PlanEvaluate \/ NothingEligible \/ BreakSlice
  BY <1>10, <1>2 DEF PlanEvaluate, NothingEligible, BreakSlice, Goto, backlog, gates
<1>16. CASE RunSubdivided
  BY <1>16, <1>2 DEF RunSubdivided, Goto, backlog
<1>11. CASE GiveUp \/ Continue \/ AssessEvaluate \/ EvaluateCached
  BY <1>11, <1>2 DEF GiveUp, Continue, AssessEvaluate, EvaluateCached, Goto, backlog, gates
<1>12. CASE Evaluate
  <2>1. pc' \in {"idle", "announce"}
    BY <1>12 DEF Evaluate, Goto
  <2>2. UNCHANGED <<stored, deps, first, replanOf, gate, streak, skipped>>
    BY <1>12 DEF Evaluate, backlog, gates
  <2> QED BY <2>1, <2>2, <1>2
<1>13. CASE Announce \/ AnnounceRun \/ WorkerFault
  BY <1>13, <1>2 DEF Announce, AnnounceRun, WorkerFault, Goto, backlog, gates
<1>14. CASE Pause \/ Resume \/ Cancel \/ CancelCampaign \/ CancelRun \/ Expire
  BY <1>14, <1>2 DEF Pause, Resume, Cancel, CancelCampaign, CancelRun, Expire, backlog, gates, worker
<1>15. CASE UNCHANGED vars
  BY <1>15, <1>2 DEF vars, backlog, gates, worker
<1> QED
  BY <1>3, <1>4, <1>5, <1>6, <1>7, <1>8, <1>9, <1>10, <1>11, <1>12, <1>13, <1>14, <1>15,
     <1>16 DEF Next, Tick

\* Nothing is in the backlog and nothing was run.
LEMMA InvInit == Init => IInv
<1> SUFFICES ASSUME Init PROVE IInv
  OBVIOUS
<1>1. TypeOK
  BY TypeInit
<1>2. InBacklog = {} /\ pc = "idle"
  BY DEF Init, InBacklog
<1>3. \A s \in Slice : /\ stored[s] = "absent" /\ deps[s] = {} /\ first[s] = 0 /\ replanOf[s] = 0
                       /\ gate[s] = "none" /\ streak[s] = 0
  BY DEF Init
<1> QED
  BY <1>1, <1>2, <1>3 DEF IInv, OrderInv, BacklogShape, GatesInOrder, CurrentHasDeps, StreaksAreFails,
                          FewFails, FailsPerLevel

\* The invariant holds in every reachable state.
THEOREM Invariance == Spec => []IInv
  BY InvInit, InvStep, PTL DEF Spec

-----------------------------------------------------------------------------
(* What follows                                                            *)

\* No slice is run for the first time before everything it depends on has
\* passed its gate, whatever was replanned, retried, skipped or lost before.
THEOREM RunsAfterDependencies == Spec => DependenciesFirst
<1>1. ASSUME IInv, [Next]_vars
      PROVE  [\A s \in Slice : gate[s] = "none" /\ gate'[s] # "none"
                  => deps[s] \subseteq With("passed")]_vars
  <2>1. CASE RunSlice
    <3> SUFFICES ASSUME NEW s \in Slice, gate[s] = "none", gate'[s] # "none"
                 PROVE  deps[s] \subseteq With("passed")
      OBVIOUS
    <3>1. s = current
      <4>1. PICK v : gate' = [gate EXCEPT ![current] = v]
        BY <2>1 DEF RunSlice
      <4> QED BY <1>1, <4>1 DEF IInv, TypeOK
    <3>2. pc = "execute"
      BY <2>1 DEF RunSlice
    <3> QED BY <1>1, <3>1, <3>2 DEF IInv, OrderInv, CurrentHasDeps
  <2>2. CASE UNCHANGED gate
    BY <2>2
  <2>3. CASE Next /\ ~RunSlice
    BY <2>3, <2>2 DEF Next, Tick, TickStop, TickStart, GenerateBacklog, PlanEvaluate, SelectReady, Replan,
       SelectEscalated, NothingEligible, RunSubdivided, BreakSlice, SkipSlice, GiveUp, Continue, AssessEvaluate,
       EvaluateCached, Evaluate, Announce, AnnounceRun, WorkerFault, Pause, Resume, Cancel, CancelCampaign,
       CancelRun, Expire, gates
  <2> QED BY <1>1, <2>1, <2>2, <2>3 DEF vars, gates
<1> QED
  BY <1>1, Invariance, PTL DEF Spec, DependenciesFirst

\* Unless a slice was skipped, each revision of the backlog brings a slice that
\* is yet to be run.
THEOREM RevisionsAreNew == Spec => []RevisionsHelp
<1>1. IInv => RevisionsHelp
  BY DEF IInv, OrderInv, FewFails, RevisionsHelp
<1> QED
  BY <1>1, Invariance, PTL

\* Unless a slice was skipped, no slice is replanned twice, so that no two
\* replans have one id.
THEOREM ReplannedOnce ==
  Spec => [](~skipped => \A r, t \in Slice : replanOf[r] # 0 /\ replanOf[r] = replanOf[t] => r = t)
<1>1. IInv => (~skipped => \A r, t \in Slice : replanOf[r] # 0 /\ replanOf[r] = replanOf[t] => r = t)
  BY DEF IInv, OrderInv, FewFails
<1> QED
  BY <1>1, Invariance, PTL

-----------------------------------------------------------------------------
(* A stop has a reason                                                     *)

\* Why a campaign without ticks may rest.
Reason ==
    \/ Ended
    \/ verdict = "INCOMPLETE"
    \/ failures >= MaxFail
    \/ expired
    \/ \E s \in With("pending") : deps[s] \cap With("deferred") # {}

\* Without an accident a verdict is followed by its announcement, and the last
\* tick leaves a reason.
StopInv ==
    faults = 0 =>
        /\ verdict \in {"PASS", "FAIL"} => pc = "announce" \/ Ended
        /\ pc = "announce_run" => Ended
        /\ Quiet => Reason

\* When slices are pending but none is ready or failed, the first pending one
\* waits for a deferred slice: what it depends on comes before it.
LEMMA DeferralBlocks ==
  ASSUME IInv, With("pending") # {}, Ready = {}, With("failed") = {}
  PROVE  \E s \in With("pending") : deps[s] \cap With("deferred") # {}
<1> USE DEF IInv, OrderInv
<1> DEFINE s == First(With("pending"))
<1>1. With("pending") \subseteq Slice
  BY DEF With, InBacklog
<1>2. s \in With("pending") /\ \A d \in With("pending") : ~Before(d, s)
  BY <1>1, FirstIsFirst
<1> HIDE DEF s
<1>3. PICK d \in deps[s] : d \notin With("passed")
  BY <1>2 DEF Ready
<1>4. d \in InBacklog /\ d \in Slice /\ Before(d, s)
  BY <1>1, <1>2, <1>3 DEF BacklogShape, InBacklog
<1>5. d \notin With("pending")
  BY <1>2, <1>4
<1>6. Status(d) \in {"pending", "passed", "failed", "deferred"}
  BY <1>4 DEF Status, TypeOK, SliceStatus, InBacklog
<1>7. d \in With("deferred")
  BY <1>3, <1>4, <1>5, <1>6 DEF With
<1> QED
  BY <1>2, <1>3, <1>7

\* A reason lasts while backlog, gates and verdict stand.
LEMMA ReasonLasts ==
  ASSUME Reason, UNCHANGED <<stored, deps, gate, failures, verdict>>, ends \subseteq ends', expired => expired'
  PROVE  Reason'
<1>1. \A st : With(st)' = With(st)
  BY DEF With, InBacklog, Status
<1>2. Ended => Ended'
  BY DEF Ended
<1> QED
  BY <1>1, <1>2 DEF Reason

\* An accident is never forgotten: only a lost tick changes the count, and it
\* adds one.
LEMMA FaultsStay == TypeOK /\ [Next]_vars /\ faults' = 0 => faults = 0
<1> SUFFICES ASSUME TypeOK, [Next]_vars, faults' = 0 PROVE faults = 0
  OBVIOUS
<1>1. CASE WorkerFault
  <2>1. faults \in 0 .. MaxFaults /\ faults' = faults + 1
    BY <1>1 DEF WorkerFault, TypeOK
  <2> QED BY <2>1, SizeAssumption
<1>2. CASE TickStop \/ TickStart \/ GenerateBacklog \/ PlanEvaluate \/ SelectReady \/ NothingEligible
  BY <1>2 DEF TickStop, TickStart, GenerateBacklog, PlanEvaluate, SelectReady, NothingEligible
<1>3. CASE Replan
  BY <1>3 DEF Replan
<1>4. CASE SelectEscalated
  BY <1>4 DEF SelectEscalated
<1>5. CASE RunSlice \/ RunSubdivided
  BY <1>5 DEF RunSlice, RunSubdivided
<1>6. CASE BreakSlice \/ SkipSlice \/ GiveUp \/ Continue \/ AssessEvaluate
  BY <1>6 DEF BreakSlice, SkipSlice, GiveUp, Continue, AssessEvaluate
<1>7. CASE EvaluateCached \/ Evaluate \/ Announce \/ AnnounceRun
  BY <1>7 DEF EvaluateCached, Evaluate, Announce, AnnounceRun
<1>8. CASE Pause \/ Resume \/ Cancel \/ CancelCampaign \/ CancelRun \/ Expire
  BY <1>8 DEF Pause, Resume, Cancel, CancelCampaign, CancelRun, Expire
<1>9. CASE UNCHANGED vars
  BY <1>9 DEF vars
<1> QED BY <1>1, <1>2, <1>3, <1>4, <1>5, <1>6, <1>7, <1>8, <1>9 DEF Next, Tick

\* Every step keeps the stop explained: only a step to rest with an empty queue
\* matters, and each of them finds a reason.
LEMMA StopStep == IInv /\ StopInv /\ [Next]_vars => StopInv'
<1> SUFFICES ASSUME IInv, StopInv, [Next]_vars, faults = 0, faults' = 0 PROVE StopInv'
  BY FaultsStay DEF IInv, StopInv
<1> USE DEF Goto
<1>1. ticks \in Nat /\ verdict \in {"none", "PASS", "FAIL", "INCOMPLETE"}
  BY DEF IInv, TypeOK
\* A step that does not bring the campaign to rest.
<1>2. CASE /\ UNCHANGED verdict /\ ends \subseteq ends'
           /\ pc # "announce" \/ pc' = "announce"
           /\ pc' # "announce_run" \/ pc = "announce_run"
           /\ pc' # "idle" \/ ticks' # 0
  BY <1>2 DEF StopInv, Quiet, Ended
\* A step that brings it to rest, or finds it there.
<1>3. CASE UNCHANGED verdict /\ ends \subseteq ends' /\ pc # "announce" /\ pc' = "idle" /\ Reason'
  BY <1>3 DEF StopInv, Ended
<1>4. CASE TickStop
  <2>1. Reason /\ UNCHANGED <<stored, deps, gate, failures, verdict, ends, expired, pc>> /\ pc = "idle"
    BY <1>4 DEF TickStop, Reason, backlog, gates, worker, requests
  <2> QED BY <2>1, <1>3, ReasonLasts
<1>5. CASE TickStart \/ PlanEvaluate \/ SelectReady \/ Replan \/ SelectEscalated
  BY <1>5, <1>2 DEF TickStart, PlanEvaluate, SelectReady, Replan, SelectEscalated
<1>6. CASE GenerateBacklog \/ RunSlice \/ RunSubdivided \/ BreakSlice \/ SkipSlice \/ AssessEvaluate
  BY <1>6, <1>2 DEF GenerateBacklog, RunSlice, RunSubdivided, BreakSlice, SkipSlice, AssessEvaluate, worker
<1>7. CASE NothingEligible
  <2>1. Reason
    BY <1>7, DeferralBlocks DEF NothingEligible, AllTerminal, Reason
  <2>2. UNCHANGED <<stored, deps, gate, failures, verdict, ends, expired>> /\ pc = "plan" /\ pc' = "idle"
    BY <1>7 DEF NothingEligible, backlog, gates, requests
  <2> QED BY <2>1, <2>2, <1>3, ReasonLasts
<1>8. CASE GiveUp
  <2>1. Reason
    BY <1>8 DEF GiveUp, Reason
  <2>2. UNCHANGED <<stored, deps, gate, failures, verdict, ends, expired>> /\ pc = "assess" /\ pc' = "idle"
    BY <1>8 DEF GiveUp, backlog, gates, requests
  <2> QED BY <2>1, <2>2, <1>3, ReasonLasts
<1>9. CASE Continue
  <2>1. ticks' = ticks + 1
    BY <1>9 DEF Continue
  <2>2. ticks' # 0
    BY <1>1, <2>1
  <2> QED BY <1>9, <2>2, <1>2 DEF Continue
<1>10. CASE EvaluateCached
  <2>1. pc = "evaluate" /\ verdict \in {"PASS", "FAIL", "INCOMPLETE"}
    BY <1>1, <1>10 DEF EvaluateCached
  <2>2. Reason
    BY <2>1 DEF StopInv, Reason
  <2>3. UNCHANGED <<stored, deps, gate, failures, verdict, ends, expired>> /\ pc' = "idle"
    BY <1>10 DEF EvaluateCached, backlog, gates, requests
  <2> QED BY <2>1, <2>2, <2>3, <1>3, ReasonLasts
<1>11. CASE Evaluate
  <2>1. PICK v \in Verdicts : verdict' = v /\ pc' = IF v = "INCOMPLETE" THEN "idle" ELSE "announce"
    BY <1>11 DEF Evaluate
  <2>2. v \in {"PASS", "FAIL", "INCOMPLETE"}
    BY <2>1 DEF Verdicts
  <2>3. pc' = "idle" => verdict' = "INCOMPLETE"
    BY <2>1
  <2>4. verdict' \in {"PASS", "FAIL"} => pc' = "announce"
    BY <2>1, <2>2
  <2>5. pc' # "announce_run"
    BY <2>1
  <2> QED BY <2>3, <2>4, <2>5 DEF StopInv, Quiet, Reason
<1>12. CASE Announce
  <2>1. Ended'
    BY <1>12 DEF Announce, Ended, CampaignEnd
  <2>2. pc' = "announce_run"
    BY <1>12 DEF Announce
  <2> QED BY <2>1, <2>2 DEF StopInv, Quiet
<1>13. CASE AnnounceRun
  <2>1. Ended /\ ends \subseteq ends' /\ UNCHANGED verdict /\ pc = "announce_run" /\ pc' = "idle"
    BY <1>13 DEF AnnounceRun, StopInv
  <2>2. Ended'
    BY <2>1 DEF Ended
  <2> QED BY <2>1, <2>2, <1>3 DEF Reason
<1>14. CASE WorkerFault
  BY <1>14, SizeAssumption DEF WorkerFault
<1>15. CASE UNCHANGED <<stored, deps, gate, failures, verdict, pc>> /\ ends \subseteq ends'
              /\ (expired => expired') /\ (ticks' = ticks \/ ticks' # 0)
  <2>1. CASE pc' = "idle" /\ ticks' = 0
    <3>1. Reason
      BY <1>15, <2>1 DEF StopInv, Quiet
    <3>2. Reason'
      BY <1>15, <3>1, ReasonLasts
    <3> QED BY <1>15, <2>1, <3>2, <1>3
  <2>2. CASE ~(pc' = "idle" /\ ticks' = 0)
    BY <1>15, <2>2, <1>2
  <2> QED BY <2>1, <2>2
<1>16. CASE Resume
  <2>1. ticks' # 0
    BY <1>1, <1>16 DEF Resume
  <2> QED BY <1>16, <2>1, <1>15 DEF Resume, backlog, gates, worker
<1>17. CASE Pause \/ Cancel \/ CancelCampaign \/ CancelRun
  BY <1>17, <1>15 DEF Pause, Cancel, CancelCampaign, CancelRun, backlog, gates, worker
<1>18. CASE Expire
  <2>1. expired'
    BY <1>18 DEF Expire
  <2> QED BY <1>18, <2>1, <1>15 DEF Expire, backlog, gates, worker
<1>19. CASE UNCHANGED vars
  BY <1>19, <1>15 DEF vars, backlog, gates, worker, requests
<1> QED
  BY <1>4, <1>5, <1>6, <1>7, <1>8, <1>9, <1>10, <1>11, <1>12, <1>13, <1>14, <1>16, <1>17, <1>18, <1>19
     DEF Next, Tick

\* A campaign whose queue has run dry without a lost tick has ended, was judged
\* incomplete, failed too often, ran out of time or waits for a deferred slice.
THEOREM StopsHaveReasons == Spec => []StoppedIsExplained
<1>1. Init => StopInv
  BY DEF Init, StopInv, Quiet
<1>2. StopInv => StoppedIsExplained
  BY DEF StopInv, StoppedIsExplained, Reason
<1> QED
  BY <1>1, <1>2, StopStep, Invariance, PTL DEF Spec

=============================================================================

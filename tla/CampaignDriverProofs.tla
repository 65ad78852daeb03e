------------------------ MODULE CampaignDriverProofs ------------------------
(***************************************************************************)
(* Proofs about the campaign driver for every backlog, policy and number   *)
(* of operator requests and faults: a pause, a cancel or an end lets at    *)
(* most the slice in flight be run, and completion is only announced over  *)
(* a delivered backlog.                                                    *)
(***************************************************************************)
EXTENDS CampaignDriver, TLAPS

-----------------------------------------------------------------------------
(* A pause is heeded                                                       *)

\* Between the check of TickStart and the gate, no gate event has followed an
\* end; afterwards at most one has.
HeededInv ==
    /\ late \in {0, 1}
    /\ late = 1 => Ended /\ pc \notin {"plan", "select", "execute"}

\* Each step of the driver, an operator or the clock keeps HeededInv: only
\* a slice that is run counts, and TickStart reaches it only without an end.
LEMMA HeededStep == HeededInv /\ [Next]_vars => HeededInv'
<1> SUFFICES ASSUME HeededInv, [Next]_vars PROVE HeededInv'
  OBVIOUS
<1> USE DEF HeededInv, Goto
<1>1. CASE TickStart
  BY <1>1 DEF TickStart, Ended, gates
<1>2. CASE RunSlice
  BY <1>2 DEF RunSlice, Ended
<1>15. CASE RunSubdivided
  BY <1>15 DEF RunSubdivided, Ended
<1>3. CASE UNCHANGED gates /\ ends \subseteq ends' /\ pc' \notin {"plan", "select", "execute"}
  BY <1>3 DEF gates, Ended
<1>4. CASE UNCHANGED gates /\ ends \subseteq ends' /\ pc \in {"plan", "select", "execute"}
  BY <1>4 DEF gates, Ended
<1>5. CASE UNCHANGED gates /\ ends \subseteq ends' /\ UNCHANGED pc
  BY <1>5 DEF gates, Ended
<1>6. CASE TickStop
  BY <1>6, <1>5 DEF TickStop, worker
<1>7. CASE GenerateBacklog
  BY <1>7, <1>5 DEF GenerateBacklog, worker
<1>8. CASE PlanEvaluate \/ SelectReady \/ Replan \/ SelectEscalated \/ NothingEligible
  BY <1>8, <1>4 DEF PlanEvaluate, SelectReady, Replan, SelectEscalated, NothingEligible
<1>9. CASE BreakSlice \/ SkipSlice
  BY <1>9, <1>4 DEF BreakSlice, SkipSlice
<1>10. CASE GiveUp \/ Continue \/ AssessEvaluate
  BY <1>10, <1>3 DEF GiveUp, Continue, AssessEvaluate
<1>11. CASE EvaluateCached \/ Announce \/ AnnounceRun \/ WorkerFault
  BY <1>11, <1>3 DEF EvaluateCached, Announce, AnnounceRun, WorkerFault
<1>12. CASE Evaluate
  <2>1. UNCHANGED gates /\ ends \subseteq ends' /\ pc' \in {"idle", "announce"}
    BY <1>12 DEF Evaluate
  <2> QED BY <2>1, <1>3
<1>13. CASE Pause \/ Resume \/ Cancel \/ CancelCampaign \/ CancelRun \/ Expire
  BY <1>13, <1>5 DEF Pause, Resume, Cancel, CancelCampaign, CancelRun, Expire, worker
<1>14. CASE UNCHANGED vars
  BY <1>14, <1>5 DEF vars, worker
<1> QED
  BY <1>1, <1>2, <1>6, <1>7, <1>8, <1>9, <1>10, <1>11, <1>12, <1>13, <1>14,
     <1>15 DEF Next, Tick

\* However many ticks operators enqueue, at most the slice in flight is run
\* once campaign.paused, campaign.failed or campaign.completed is appended.
THEOREM PauseHeeded == Spec => []PauseIsHeeded
<1>1. Init => HeededInv
  BY DEF Init, HeededInv
<1>2. HeededInv => PauseIsHeeded
  BY DEF HeededInv, PauseIsHeeded
<1> QED
  BY <1>1, <1>2, HeededStep, PTL DEF Spec

-----------------------------------------------------------------------------
(* Completion is only announced over a delivered backlog                   *)

\* The types the argument needs.
StatusType ==
    /\ stored \in [Slice -> SliceStatus]
    /\ gate \in [Slice -> {"none", "passed", "failed"}]
    /\ verdict \in {"none", "PASS", "FAIL", "INCOMPLETE"}

\* Nothing is pending or failed.
Settled == With("pending") = {} /\ With("failed") = {}

\* A PASS verdict settles the backlog for good: a tick that is still taken
\* (after a crash before the announcement) finds nothing to run.
DeliveredInv ==
    /\ StatusType
    /\ pc \in {"execute", "assess", "evaluate", "announce", "announce_run"} => Generated
    /\ pc \in {"announce", "announce_run"} => verdict \in {"PASS", "FAIL"}
    /\ verdict = "PASS" => Generated /\ Settled /\ pc \notin {"execute", "assess"}
    /\ ends \cap {"campaign.completed", "run.completed"} # {} => verdict = "PASS"

\* The conjuncts that do not depend on the program counter carry over a step
\* that leaves backlog, gates and verdict alone.
LEMMA BacklogUnchanged ==
    ASSUME UNCHANGED <<stored, gate>>
    PROVE  /\ (Generated <=> Generated')
           /\ (Settled <=> Settled')
           /\ (AllTerminal <=> AllTerminal')
  BY DEF Generated, Settled, AllTerminal, With, InBacklog, Status

LEMMA DeliveredStep == DeliveredInv /\ [Next]_vars => DeliveredInv'
<1> SUFFICES ASSUME DeliveredInv, [Next]_vars PROVE DeliveredInv'
  OBVIOUS
<1> USE DEF DeliveredInv, StatusType, Goto
<1>1. CASE UNCHANGED <<backlog, gates, verdict, pc>> /\ UNCHANGED (ends \cap {"campaign.completed", "run.completed"})
  BY <1>1, BacklogUnchanged DEF backlog, gates
<1>2. CASE TickStop
  BY <1>2, <1>1 DEF TickStop, worker
<1>3. CASE TickStart
  BY <1>3, BacklogUnchanged DEF TickStart, backlog, gates
<1>4. CASE GenerateBacklog
  <2>1. stored' \in [Slice -> SliceStatus]
    BY <1>4 DEF GenerateBacklog, SliceStatus
  <2>2. verdict # "PASS"
    BY <1>4 DEF GenerateBacklog
  <2> QED
    BY <1>4, <2>1, <2>2 DEF GenerateBacklog, gates, worker
<1>5. CASE PlanEvaluate
  BY <1>5, BacklogUnchanged DEF PlanEvaluate, backlog, gates
<1>6. CASE SelectReady
  <2>1. With("pending") # {}
    BY <1>6 DEF SelectReady, Ready
  <2> QED
    BY <1>6, <2>1, BacklogUnchanged DEF SelectReady, backlog, gates, Settled
<1>7. CASE Replan
  <2>1. verdict # "PASS"
    BY <1>7 DEF Replan, AllTerminal, Settled
  <2>2. \A t \in Slice : Status(t) \in SliceStatus
    BY DEF Status, SliceStatus
  <2>3. stored' \in [Slice -> SliceStatus]
    BY <1>7, <2>2 DEF Replan, SliceStatus
  <2> QED
    BY <1>7, <2>1, <2>3 DEF Replan, gates, worker
<1>8. CASE SelectEscalated
  <2>1. With("failed") # {}
    BY <1>8 DEF SelectEscalated, Worst, Candidates
  <2>2. Generated
    BY <2>1 DEF With, InBacklog, Generated
  <2> QED
    BY <1>8, <2>1, <2>2, BacklogUnchanged DEF SelectEscalated, backlog, gates, Settled
<1>9. CASE NothingEligible
  BY <1>9, BacklogUnchanged DEF NothingEligible, backlog, gates
<1>10. CASE RunSlice
  <2>1. gate' \in [Slice -> {"none", "passed", "failed"}]
    BY <1>10 DEF RunSlice
  <2> QED
    BY <1>10, <2>1 DEF RunSlice, backlog, Generated
<1>20. CASE RunSubdivided
  BY <1>20, BacklogUnchanged DEF RunSubdivided, backlog
<1>11. CASE BreakSlice
  BY <1>11, BacklogUnchanged DEF BreakSlice, backlog, gates
<1>12. CASE SkipSlice
  <2>1. stored' \in [Slice -> SliceStatus]
    BY <1>12 DEF SkipSlice, SliceStatus
  <2>2. Generated'
    BY <1>12 DEF SkipSlice, Generated
  <2> QED
    BY <1>12, <2>1, <2>2 DEF SkipSlice, gates
<1>13. CASE GiveUp \/ Continue \/ AssessEvaluate
  BY <1>13, BacklogUnchanged DEF GiveUp, Continue, AssessEvaluate, backlog, gates
<1>14. CASE EvaluateCached
  BY <1>14, BacklogUnchanged DEF EvaluateCached, backlog, gates
<1>15. CASE Evaluate
  <2>1. PICK v \in Verdicts : verdict' = v /\ pc' = IF v = "INCOMPLETE" THEN "idle" ELSE "announce"
    BY <1>15 DEF Evaluate
  <2>2. v \in {"PASS", "FAIL", "INCOMPLETE"} /\ (v = "PASS" => Settled)
    BY <2>1 DEF Verdicts, AllTerminal, Settled
  <2> QED
    BY <1>15, <2>1, <2>2, BacklogUnchanged DEF Evaluate, backlog, gates
<1>16. CASE Announce \/ AnnounceRun
  BY <1>16, BacklogUnchanged DEF Announce, AnnounceRun, backlog, gates
<1>17. CASE WorkerFault
  BY <1>17, BacklogUnchanged DEF WorkerFault, backlog, gates
<1>18. CASE Pause \/ Resume \/ Cancel \/ CancelCampaign \/ CancelRun \/ Expire
  <2>1. UNCHANGED (ends \cap {"campaign.completed", "run.completed"})
    BY <1>18 DEF Pause, Resume, Cancel, CancelCampaign, CancelRun, Expire
  <2> QED
    BY <1>18, <2>1, <1>1 DEF Pause, Resume, Cancel, CancelCampaign, CancelRun, Expire, worker
<1>19. CASE UNCHANGED vars
  BY <1>19, <1>1 DEF vars, worker
<1> QED
  BY <1>2, <1>3, <1>4, <1>5, <1>6, <1>7, <1>8, <1>9, <1>10, <1>11, <1>12, <1>13, <1>14, <1>15,
     <1>16, <1>17, <1>18, <1>19, <1>20 DEF Next, Tick

\* A backlog without pending or failed slices is one of passed and deferred.
LEMMA SettledIsDelivered ==
    ASSUME StatusType, Settled
    PROVE  InBacklog = With("passed") \cup With("deferred")
  BY DEF StatusType, Settled, With, InBacklog, Status, SliceStatus

\* campaign.completed and run.completed are only announced, and only stand,
\* over a backlog whose slices all passed or were deferred, whatever crashes,
\* resumes and interjections happen between the verdict and the announcement.
THEOREM CompletionDelivered == Spec => []CompletedIsDelivered
<1>1. Init => DeliveredInv
  BY DEF Init, DeliveredInv, StatusType, SliceStatus
<1>2. DeliveredInv => CompletedIsDelivered
  BY SettledIsDelivered DEF DeliveredInv, CompletedIsDelivered
<1> QED
  BY <1>1, <1>2, DeliveredStep, PTL DEF Spec

=============================================================================

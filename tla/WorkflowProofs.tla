---------------------------- MODULE WorkflowProofs ----------------------------
(***************************************************************************)
(* Proofs about workflows: the end of a run, the containment of a workflow  *)
(* that a member wrote, the slots of nested collections, and the tokens and  *)
(* permits of the calls of a script.                                        *)
(***************************************************************************)
EXTENDS RunLifecycle, AuthoredWorkflows, WorkflowCollections, WorkflowCalls, SumProofs

-----------------------------------------------------------------------------
(* The owner of a run                                                       *)

(* A run starts with nothing to clean up.                                   *)
LEMMA LifecycleStarts == LifecycleInit => LifecycleInv
<1> SUFFICES ASSUME LifecycleInit PROVE LifecycleInv
  OBVIOUS
<1>1. LifecycleTypes
  BY DEF LifecycleInit, LifecycleTypes
<1>2. WorkflowGetsQuiet /\ AgentGetsQuiet /\ GivenAtEnd
  BY DEF LifecycleInit, WorkflowGetsQuiet, AgentGetsQuiet, GivenAtEnd
<1> QED
  BY <1>1, <1>2 DEF LifecycleInv

(* An owner that ends without a fault has had a quiet end.                  *)
LEMMA VerdictIsGood ==
    ASSUME good \in BOOLEAN, Verdict \in {"value", "failed", "cancelled"}
    PROVE  good
BY DEF Verdict

(* Every step keeps the types.                                              *)
LEMMA LifecycleTypesKept ==
    ASSUME LifecycleTypes, [LifecycleNext]_lifeVars
    PROVE  LifecycleTypes'
<1> USE LifecycleAssumption DEF LifecycleTypes
<1>1. ASSUME NEW j \in Job \cup {Save}, Ends(j) PROVE LifecycleTypes'
  BY <1>1 DEF Ends
<1>2. ASSUME NEW j \in Job, Spawn(j) PROVE LifecycleTypes'
  BY <1>2 DEF Spawn
<1>3. CASE SaveFails
  BY <1>3 DEF SaveFails
<1>4. CASE RunEnds
  BY <1>4 DEF RunEnds
<1>5. CASE Quiesce
  BY <1>5 DEF Quiesce
<1>6. CASE mode = "workflow" /\ Requiesce
  BY <1>6 DEF Requiesce
<1>7. CASE Enqueue
  BY <1>7 DEF Enqueue
<1>8. CASE CloseAndRelease
  BY <1>8 DEF CloseAndRelease
<1>9. CASE Report
  BY <1>9 DEF Report
<1>10. CASE Finalize
  BY <1>10 DEF Finalize
<1>11. CASE FinalizeEnds
  BY <1>11 DEF FinalizeEnds
<1>12. CASE FinalizeAgain
  BY <1>12 DEF FinalizeAgain
<1>13. CASE AgentReturns
  BY <1>13 DEF AgentReturns
<1>14. CASE StoppedWorkflow
  BY <1>14 DEF StoppedWorkflow
<1>15. CASE WorkflowReturns
  BY <1>15 DEF WorkflowReturns
<1>16. CASE AgentResists
  BY <1>16 DEF AgentResists
<1>17. CASE StopWorkflow
  BY <1>17 DEF StopWorkflow
<1>18. CASE StopAgent
  BY <1>18 DEF StopAgent
<1>19. CASE UNCHANGED lifeVars
  BY <1>19 DEF lifeVars
<1> QED
  BY <1>1, <1>2, <1>3, <1>4, <1>5, <1>6, <1>7, <1>8, <1>9, <1>10, <1>11, <1>12, <1>13, <1>14,
     <1>15, <1>16, <1>17, <1>18, <1>19
     DEF LifecycleNext, OwnerStep, CallerStep

(* A workflow is not woken up again by its own cleanup.                     *)
LEMMA WorkflowStaysQuiet ==
    ASSUME LifecycleTypes, WorkflowGetsQuiet, AgentGetsQuiet, GivenAtEnd, [LifecycleNext]_lifeVars
    PROVE  WorkflowGetsQuiet'
<1> USE LifecycleAssumption DEF LifecycleTypes, WorkflowGetsQuiet, AgentGetsQuiet
<1>1. ASSUME NEW j \in Job \cup {Save}, Ends(j) PROVE WorkflowGetsQuiet'
  BY <1>1 DEF Ends
<1>2. ASSUME NEW j \in Job, Spawn(j) PROVE WorkflowGetsQuiet'
  BY <1>2 DEF Spawn
<1>3. CASE SaveFails
  BY <1>3 DEF SaveFails
<1>4. CASE RunEnds
  BY <1>4 DEF RunEnds
<1>5. CASE Quiesce
  BY <1>5 DEF Quiesce
<1>6. CASE mode = "workflow" /\ Requiesce
  BY <1>6 DEF Requiesce
<1>7. CASE Enqueue
  BY <1>7 DEF Enqueue
<1>8. CASE CloseAndRelease
  BY <1>8 DEF CloseAndRelease
<1>9. CASE Report
  BY <1>9 DEF Report
<1>10. CASE Finalize
  BY <1>10 DEF Finalize
<1>11. CASE FinalizeEnds
  BY <1>11 DEF FinalizeEnds
<1>12. CASE FinalizeAgain
  BY <1>12 DEF FinalizeAgain
<1>13. CASE AgentReturns
  BY <1>13 DEF AgentReturns
<1>14. CASE StoppedWorkflow
  BY <1>14 DEF StoppedWorkflow
<1>15. CASE WorkflowReturns
  BY <1>15 DEF WorkflowReturns
<1>16. CASE AgentResists
  BY <1>16 DEF AgentResists
<1>17. CASE StopWorkflow
  BY <1>17 DEF StopWorkflow
<1>18. CASE StopAgent
  BY <1>18 DEF StopAgent
<1>19. CASE UNCHANGED lifeVars
  BY <1>19 DEF lifeVars
<1> QED
  BY <1>1, <1>2, <1>3, <1>4, <1>5, <1>6, <1>7, <1>8, <1>9, <1>10, <1>11, <1>12, <1>13, <1>14,
     <1>15, <1>16, <1>17, <1>18, <1>19
     DEF LifecycleNext, OwnerStep, CallerStep

(* Nor is a single agent.                                                   *)
LEMMA AgentStaysQuiet ==
    ASSUME LifecycleTypes, AgentGetsQuiet, [LifecycleNext]_lifeVars
    PROVE  AgentGetsQuiet'
<1> USE LifecycleAssumption DEF LifecycleTypes, AgentGetsQuiet
<1>1. ASSUME NEW j \in Job \cup {Save}, Ends(j) PROVE AgentGetsQuiet'
  BY <1>1 DEF Ends
<1>2. ASSUME NEW j \in Job, Spawn(j) PROVE AgentGetsQuiet'
  BY <1>2 DEF Spawn
<1>3. CASE SaveFails
  BY <1>3 DEF SaveFails
<1>4. CASE RunEnds
  BY <1>4 DEF RunEnds
<1>5. CASE Quiesce
  BY <1>5 DEF Quiesce
<1>6. CASE mode = "workflow" /\ Requiesce
  BY <1>6 DEF Requiesce
<1>7. CASE Enqueue
  BY <1>7 DEF Enqueue
<1>8. CASE CloseAndRelease
  BY <1>8 DEF CloseAndRelease
<1>9. CASE Report
  BY <1>9 DEF Report
<1>10. CASE Finalize
  BY <1>10 DEF Finalize
<1>11. CASE FinalizeEnds
  BY <1>11 DEF FinalizeEnds
<1>12. CASE FinalizeAgain
  BY <1>12 DEF FinalizeAgain
<1>13. CASE AgentReturns
  BY <1>13 DEF AgentReturns
<1>14. CASE StoppedWorkflow
  BY <1>14 DEF StoppedWorkflow
<1>15. CASE WorkflowReturns
  BY <1>15 DEF WorkflowReturns
<1>16. CASE AgentResists
  BY <1>16 DEF AgentResists
<1>17. CASE StopWorkflow
  BY <1>17 DEF StopWorkflow
<1>18. CASE StopAgent
  BY <1>18 DEF StopAgent
<1>19. CASE UNCHANGED lifeVars
  BY <1>19 DEF lifeVars
<1> QED
  BY <1>1, <1>2, <1>3, <1>4, <1>5, <1>6, <1>7, <1>8, <1>9, <1>10, <1>11, <1>12, <1>13, <1>14,
     <1>15, <1>16, <1>17, <1>18, <1>19
     DEF LifecycleNext, OwnerStep, CallerStep

(* Worktrees, evidence and answers come after the end.                      *)
LEMMA EndStaysEnd ==
    ASSUME LifecycleTypes, WorkflowGetsQuiet, AgentGetsQuiet, GivenAtEnd, [LifecycleNext]_lifeVars
    PROVE  GivenAtEnd'
<1> USE LifecycleAssumption DEF LifecycleTypes, WorkflowGetsQuiet, AgentGetsQuiet, GivenAtEnd
<1>1. ASSUME NEW j \in Job \cup {Save}, Ends(j) PROVE GivenAtEnd'
  BY <1>1 DEF Ends
<1>2. ASSUME NEW j \in Job, Spawn(j) PROVE GivenAtEnd'
  BY <1>2 DEF Spawn
<1>3. CASE SaveFails
  BY <1>3 DEF SaveFails
<1>4. CASE RunEnds
  BY <1>4 DEF RunEnds
<1>5. CASE Quiesce
  BY <1>5 DEF Quiesce
<1>6. CASE mode = "workflow" /\ Requiesce
  BY <1>6 DEF Requiesce
<1>7. CASE Enqueue
  BY <1>7 DEF Enqueue
<1>8. CASE CloseAndRelease
  BY <1>8 DEF CloseAndRelease
<1>9. CASE Report
  <2>1. evidence' => good
    BY <1>9 DEF Report
  <2> QED
    BY <1>9, <2>1 DEF Report
<1>10. CASE Finalize
  BY <1>10 DEF Finalize
<1>11. CASE FinalizeEnds
  BY <1>11 DEF FinalizeEnds
<1>12. CASE FinalizeAgain
  BY <1>12 DEF FinalizeAgain
<1>13. CASE AgentReturns
  BY <1>13 DEF AgentReturns
<1>14. CASE StoppedWorkflow
  <2>1. Verdict \in {"value", "failed", "cancelled"} => good
    BY VerdictIsGood
  <2> QED
    BY <1>14, <2>1 DEF StoppedWorkflow
<1>15. CASE WorkflowReturns
  <2>1. Verdict \in {"value", "failed", "cancelled"} => good
    BY VerdictIsGood
  <2> QED
    BY <1>15, <2>1 DEF WorkflowReturns
<1>16. CASE AgentResists
  BY <1>16 DEF AgentResists
<1>17. CASE StopWorkflow
  BY <1>17 DEF StopWorkflow
<1>18. CASE StopAgent
  BY <1>18 DEF StopAgent
<1>19. CASE UNCHANGED lifeVars
  BY <1>19 DEF lifeVars
<1> QED
  BY <1>1, <1>2, <1>3, <1>4, <1>5, <1>6, <1>7, <1>8, <1>9, <1>10, <1>11, <1>12, <1>13, <1>14,
     <1>15, <1>16, <1>17, <1>18, <1>19
     DEF LifecycleNext, OwnerStep, CallerStep

(* Whatever tasks a run owns, which of them end late or never, wherever it  *)
(* is stopped: an answer that is neither the lifecycle error nor the        *)
(* cancellation of a workflow, worktrees given back and complete evidence   *)
(* all presuppose that nobody works any more.                               *)
THEOREM RunsEndClean == LifecycleSpec => []RunEndsClean
<1>1. LifecycleInv /\ [LifecycleNext]_lifeVars => LifecycleInv'
  BY LifecycleTypesKept, WorkflowStaysQuiet, AgentStaysQuiet, EndStaysEnd DEF LifecycleInv
<1>2. LifecycleInv => RunEndsClean
  <2> SUFFICES ASSUME LifecycleInv PROVE RunEndsClean
    OBVIOUS
  <2> USE LifecycleAssumption DEF LifecycleInv, LifecycleTypes, WorkflowGetsQuiet, AgentGetsQuiet, GivenAtEnd
  <2>1. AnswerMeansQuiet
    BY DEF AnswerMeansQuiet
  <2>2. TreesOutliveJobs
    BY DEF TreesOutliveJobs
  <2>3. EvidenceIsFinal
    BY DEF EvidenceIsFinal
  <2> QED
    BY <2>1, <2>2, <2>3 DEF RunEndsClean
<1> QED
  BY <1>1, <1>2, LifecycleStarts, PTL DEF LifecycleSpec

-----------------------------------------------------------------------------
(* The workflow of a member: whatever its child asks for, cancels or leaves *)
(* behind, the host gives it back                                           *)

(* The errands and the lease are finitely many.                             *)
LEMMA CallersAreFinite == IsFiniteSet(Caller)
BY AuthoredAssumption, FS_Singleton, FS_Union DEF Caller

(* a poll that begins to give the environment back *)
Sweeps == errand[Lease] = "release" /\ served[Lease] = "none" /\ served'[Lease] = "run"

(* What a poll does to a request: one that is new is refused or begun, and  *)
(* nothing else is touched.                                                 *)
LEMMA PollServes ==
    ASSUME AuthoredTypes, CallsAgree, Poll, NEW c \in Caller
    PROVE  /\ errand[c] \in Step => served'[c] # "none"
           /\ served'[c] # served[c] =>
                /\ served[c] = "none" /\ errand[c] \in Step
                /\ served'[c] = "run" => c \notin dropped /\ (errand[c] = "acquire" \/ lease = "live")
                /\ served'[c] = "done" => c \in dropped \/ lease # "live"
           /\ answered'[c] # answered[c] =>
                served[c] = "none" /\ served'[c] = "done" /\ answered'[c] = "error"
<1> DEFINE latest  == {d \in pending : served[d] = "none"}
           refused == {d \in latest : d \in dropped \/ (errand[d] # "acquire" /\ lease # "live")}
           begun   == latest \ refused
<1>1. served'[c] = IF c \in refused THEN "done" ELSE IF c \in begun THEN "run" ELSE served[c]
  BY DEF Poll
<1>2. answered'[c] = IF c \in refused THEN "error" ELSE answered[c]
  BY DEF Poll
<1>3. c \in latest <=> errand[c] \in Step /\ served[c] = "none"
  BY DEF pending
<1>4. served[c] \in {"none", "run", "done"}
  BY DEF AuthoredTypes
<1> QED BY <1>1, <1>2, <1>3, <1>4

(* ... who is revoked: what is marked, and all that a release must wait for *)
LEMMA PollRevokes ==
    ASSUME AuthoredTypes, CallsAgree, Poll
    PROVE  /\ revoked \subseteq revoked'
           /\ \A c \in revoked' \ revoked : served'[c] = "run" /\ (c \in dropped \/ Sweeps)
           /\ ~Sweeps => waitFor' = waitFor
           /\ Sweeps => waitFor' \subseteq revoked' /\ waitFor' = {c \in Errand : served'[c] = "run"}
<1> DEFINE latest  == {d \in pending : served[d] = "none"}
           refused == {d \in latest : d \in dropped \/ (errand[d] # "acquire" /\ lease # "live")}
           begun   == latest \ refused
           active  == (Unfinished \cup begun) \ {Lease}
           sweeps  == Lease \in begun /\ errand[Lease] = "release"
<1>1. \A c \in Caller : served'[c] = IF c \in refused THEN "done"
                                    ELSE IF c \in begun THEN "run" ELSE served[c]
  BY DEF Poll
<1>2. /\ revoked' = revoked \cup (dropped \cap Unfinished) \cup (IF sweeps THEN active ELSE {})
      /\ waitFor' = IF sweeps THEN active ELSE waitFor
  BY DEF Poll
<1>3. \A c \in Caller : c \in Unfinished \cup begun <=> served'[c] = "run"
  BY <1>1 DEF Unfinished, pending
<1>4. sweeps <=> Sweeps
  BY <1>1 DEF Sweeps, Caller, pending, Step
<1>5. Unfinished \cup begun \subseteq Caller /\ Errand = Caller \ {Lease}
  BY AuthoredAssumption DEF Unfinished, pending, Caller
<1>6. active = {c \in Errand : served'[c] = "run"}
  BY <1>3, <1>5
<1>7. dropped \cap Unfinished \subseteq {c \in Caller : served'[c] = "run"}
  BY <1>3, <1>5
<1> HIDE DEF sweeps, active
<1> QED BY <1>2, <1>4, <1>5, <1>6, <1>7

(* ... and what happens to an edit.                                         *)
LEMMA PollEdits ==
    ASSUME AuthoredTypes, CallsAgree, Poll, NEW c \in Errand
    PROVE  \/ edit'[c] = edit[c] /\ ~(Sweeps /\ edit[c] \in {"waiting", "held"})
           \/ edit'[c] = "cancelled" /\ edit[c] \in {"waiting", "held"}
           \/ edit'[c] = "waiting" /\ served[c] = "none" /\ Runs(c, "lock")'
<1> DEFINE latest  == {d \in pending : served[d] = "none"}
           refused == {d \in latest : d \in dropped \/ (errand[d] # "acquire" /\ lease # "live")}
           begun   == latest \ refused
           sweeps  == Lease \in begun /\ errand[Lease] = "release"
<1>1. edit'[c] = IF edit[c] \in {"waiting", "held"} /\ (sweeps \/ (c \in dropped /\ errand[c] = "lock"))
                 THEN "cancelled"
                 ELSE IF c \in begun /\ errand[c] = "lock" THEN "waiting" ELSE edit[c]
  BY DEF Poll
<1>2. \A d \in Caller : served'[d] = IF d \in refused THEN "done"
                                    ELSE IF d \in begun THEN "run" ELSE served[d]
  BY DEF Poll
<1>3. sweeps <=> Sweeps
  BY <1>2 DEF Sweeps, Caller, pending, Step
<1>4. c \in begun => served[c] = "none" /\ served'[c] = "run"
  BY <1>2 DEF Caller
<1>5. errand' = errand
  BY DEF Poll, childVars
<1> HIDE DEF sweeps, begun
<1> QED BY <1>1, <1>3, <1>4, <1>5 DEF Runs

(* Every step keeps the types.                                              *)
LEMMA AuthoredTypesKept ==
    ASSUME AuthoredTypes, [AuthoredNext]_authoredVars
    PROVE  AuthoredTypes'
<1> USE AuthoredAssumption DEF AuthoredTypes, Caller, Step, childVars, hostVars, ownVars, BridgeFault
<1>1. ASSUME NEW c \in Errand, Completed(c) PROVE AuthoredTypes'
  BY <1>1 DEF Completed, Respond
<1>2. ASSUME NEW c \in Errand, Used(c) PROVE AuthoredTypes'
  BY <1>2 DEF Used, Respond
<1>3. ASSUME NEW c \in Errand, Locked(c) PROVE AuthoredTypes'
  BY <1>3 DEF Locked, Respond
<1>4. ASSUME NEW c \in Errand, Unlocked(c) PROVE AuthoredTypes'
  BY <1>4 DEF Unlocked, Respond
<1>5. ASSUME NEW c \in Errand, WriteStarts(c) PROVE AuthoredTypes'
  BY <1>5 DEF WriteStarts
<1>6. ASSUME NEW c \in Errand, WriteEnds(c) PROVE AuthoredTypes'
  BY <1>6 DEF WriteEnds, Respond
<1>7. ASSUME NEW c \in Errand, WriteDropped(c) PROVE AuthoredTypes'
  BY <1>7 DEF WriteDropped, Respond
<1>8. ASSUME NEW c \in Errand, EditOpens(c) PROVE AuthoredTypes'
  BY <1>8 DEF EditOpens
<1>9. ASSUME NEW c \in Errand, EditCloses(c) PROVE AuthoredTypes'
  BY <1>9 DEF EditCloses
<1>10. ASSUME NEW c \in Caller, Ask(c) PROVE AuthoredTypes'
  BY <1>10 DEF Ask, First
<1>11. ASSUME NEW c \in Caller, ReadReply(c) PROVE AuthoredTypes'
  BY <1>11 DEF ReadReply, Follow
<1>12. ASSUME NEW c \in Caller, Cancel(c) PROVE AuthoredTypes'
  BY <1>12 DEF Cancel
<1>13. ASSUME Acquired(Lease) PROVE AuthoredTypes'
  BY <1>13 DEF Acquired, Respond
<1>14. ASSUME GivenBack(Lease) PROVE AuthoredTypes'
  BY <1>14 DEF GivenBack, Respond
<1>15. CASE Poll
  <2>1. served' \in [Caller -> {"none", "run", "done"}]
    BY <1>15 DEF Poll
  <2>2. answered' \in [Caller -> {"none", "value", "error", "usage", "lost"}]
    BY <1>15 DEF Poll
  <2>3. edit' \in [Errand -> {"none", "waiting", "held", "cancelled", "closed"}]
    BY <1>15 DEF Poll
  <2>4. revoked' \subseteq Caller
    BY <1>15 DEF Poll, Unfinished, pending
  <2>5. waitFor' \subseteq Errand
    BY <1>15 DEF Poll, Unfinished, pending
  <2> QED BY <1>15, <2>1, <2>2, <2>3, <2>4, <2>5 DEF Poll
<1>16. CASE HandBack
  BY <1>16 DEF HandBack
<1>17. CASE SeesStop
  BY <1>17 DEF SeesStop
<1>18. CASE ChildExits
  BY <1>18 DEF ChildExits
<1>19. CASE Start
  BY <1>19 DEF Start
<1>20. CASE Killed
  BY <1>20 DEF Killed
<1>21. CASE LoopEnds
  BY <1>21 DEF LoopEnds, Revoke
<1>22. CASE Closed
  BY <1>22 DEF Closed
<1>23. CASE Stop
  BY <1>23 DEF Stop, ForceStop
<1>24. CASE GraceEnds
  BY <1>24 DEF GraceEnds, ForceStop
<1>25. CASE StopReturns
  BY <1>25 DEF StopReturns
<1>26. CASE PollFails
  BY <1>26 DEF PollFails
<1>27. CASE UNCHANGED authoredVars
  BY <1>27 DEF authoredVars
<1> QED
    BY <1>1, <1>2, <1>3, <1>4, <1>5, <1>6, <1>7, <1>8, <1>9, <1>10, <1>11,
     <1>12, <1>13, <1>14, <1>15, <1>16, <1>17, <1>18, <1>19, <1>20, <1>21,
     <1>22, <1>23, <1>24, <1>25, <1>26, <1>27
     DEF AuthoredNext, AuthoredStep, Serve

(* A request is answered after it was taken up, and followed after that.    *)
LEMMA CallsStayAgreed ==
    ASSUME AuthoredTypes, CallsAgree, [AuthoredNext]_authoredVars
    PROVE  CallsAgree'
<1> USE AuthoredAssumption DEF AuthoredTypes, CallsAgree, Caller, Step, Runs, Unfinished,
   pending, childVars, hostVars, ownVars
<1>1. ASSUME NEW c \in Errand, Completed(c) PROVE CallsAgree'
  BY <1>1 DEF Completed, Respond
<1>2. ASSUME NEW c \in Errand, Used(c) PROVE CallsAgree'
  BY <1>2 DEF Used, Respond
<1>3. ASSUME NEW c \in Errand, Locked(c) PROVE CallsAgree'
  BY <1>3 DEF Locked, Respond
<1>4. ASSUME NEW c \in Errand, Unlocked(c) PROVE CallsAgree'
  BY <1>4 DEF Unlocked, Respond
<1>5. ASSUME NEW c \in Errand, WriteStarts(c) PROVE CallsAgree'
  BY <1>5 DEF WriteStarts
<1>6. ASSUME NEW c \in Errand, WriteEnds(c) PROVE CallsAgree'
  BY <1>6 DEF WriteEnds, Respond
<1>7. ASSUME NEW c \in Errand, WriteDropped(c) PROVE CallsAgree'
  BY <1>7 DEF WriteDropped, Respond
<1>8. ASSUME NEW c \in Errand, EditOpens(c) PROVE CallsAgree'
  BY <1>8 DEF EditOpens
<1>9. ASSUME NEW c \in Errand, EditCloses(c) PROVE CallsAgree'
  BY <1>9 DEF EditCloses
<1>10. ASSUME NEW c \in Caller, Ask(c) PROVE CallsAgree'
  BY <1>10 DEF Ask, First
<1>11. ASSUME NEW c \in Caller, ReadReply(c) PROVE CallsAgree'
  BY <1>11 DEF ReadReply, Follow
<1>12. ASSUME NEW c \in Caller, Cancel(c) PROVE CallsAgree'
  BY <1>12 DEF Cancel
<1>13. ASSUME Acquired(Lease) PROVE CallsAgree'
  BY <1>13 DEF Acquired, Respond
<1>14. ASSUME GivenBack(Lease) PROVE CallsAgree'
  BY <1>14 DEF GivenBack, Respond
<1>15. CASE Poll
  BY <1>15 DEF Poll
<1>16. CASE HandBack
  BY <1>16 DEF HandBack
<1>17. CASE SeesStop
  BY <1>17 DEF SeesStop
<1>18. CASE ChildExits
  BY <1>18 DEF ChildExits
<1>19. CASE Start
  BY <1>19 DEF Start
<1>20. CASE Killed
  BY <1>20 DEF Killed
<1>21. CASE LoopEnds
  BY <1>21 DEF LoopEnds, Revoke
<1>22. CASE Closed
  BY <1>22 DEF Closed
<1>23. CASE Stop
  BY <1>23 DEF Stop, ForceStop
<1>24. CASE GraceEnds
  BY <1>24 DEF GraceEnds, ForceStop
<1>25. CASE StopReturns
  BY <1>25 DEF StopReturns
<1>26. CASE PollFails
  BY <1>26 DEF PollFails
<1>27. CASE UNCHANGED authoredVars
  BY <1>27 DEF authoredVars
<1> QED
    BY <1>1, <1>2, <1>3, <1>4, <1>5, <1>6, <1>7, <1>8, <1>9, <1>10, <1>11,
     <1>12, <1>13, <1>14, <1>15, <1>16, <1>17, <1>18, <1>19, <1>20, <1>21,
     <1>22, <1>23, <1>24, <1>25, <1>26, <1>27
     DEF AuthoredNext, AuthoredStep, Serve

(* An edit that is refused to the child has let go of the lock before.      *)
LEMMA EditsStayAgreed ==
    ASSUME AuthoredTypes, CallsAgree, EditsAgree, LeaseGoesLast, [AuthoredNext]_authoredVars
    PROVE  EditsAgree'
<1> USE AuthoredAssumption DEF AuthoredTypes, CallsAgree, EditsAgree, EditAgrees, Caller, Step,
   Runs, childVars, hostVars, ownVars
<1>1. ASSUME NEW c \in Errand, Completed(c) PROVE EditsAgree'
  BY <1>1 DEF Completed, Respond
<1>2. ASSUME NEW c \in Errand, Used(c) PROVE EditsAgree'
  BY <1>2 DEF Used, Respond
<1>3. ASSUME NEW c \in Errand, Locked(c) PROVE EditsAgree'
  BY <1>3 DEF Locked, Respond
<1>4. ASSUME NEW c \in Errand, Unlocked(c) PROVE EditsAgree'
  BY <1>4 DEF Unlocked, Respond
<1>5. ASSUME NEW c \in Errand, WriteStarts(c) PROVE EditsAgree'
  BY <1>5 DEF WriteStarts
<1>6. ASSUME NEW c \in Errand, WriteEnds(c) PROVE EditsAgree'
  BY <1>6 DEF WriteEnds, Respond
<1>7. ASSUME NEW c \in Errand, WriteDropped(c) PROVE EditsAgree'
  BY <1>7 DEF WriteDropped, Respond
<1>8. ASSUME NEW c \in Errand, EditOpens(c) PROVE EditsAgree'
  BY <1>8 DEF EditOpens
<1>9. ASSUME NEW c \in Errand, EditCloses(c) PROVE EditsAgree'
  BY <1>9 DEF EditCloses
<1>10. ASSUME NEW c \in Caller, Ask(c) PROVE EditsAgree'
  BY <1>10 DEF Ask, First
<1>11. ASSUME NEW c \in Caller, ReadReply(c) PROVE EditsAgree'
  BY <1>11 DEF ReadReply, Follow
<1>12. ASSUME NEW c \in Caller, Cancel(c) PROVE EditsAgree'
  BY <1>12 DEF Cancel
<1>13. ASSUME Acquired(Lease) PROVE EditsAgree'
  BY <1>13 DEF Acquired, Respond
<1>14. ASSUME GivenBack(Lease) PROVE EditsAgree'
  BY <1>14 DEF GivenBack, Respond
<1>15. CASE Poll
  <2>1. UNCHANGED <<errand, holder, writing, lease>>
    BY <1>15 DEF Poll
  <2>2. ASSUME NEW c \in Errand
        PROVE  EditAgrees(c)'
    <3>1. c \in Caller /\ "lock" \in Step /\ errand[c] # "acquire"
      OBVIOUS
    <3>2. /\ errand[c] \in Step => served'[c] # "none"
          /\ served'[c] # served[c] =>
               /\ served[c] = "none" /\ errand[c] \in Step
               /\ served'[c] = "run" => lease = "live"
               /\ served'[c] = "done" => c \in dropped \/ lease # "live"
          /\ answered'[c] # answered[c] =>
               served[c] = "none" /\ served'[c] = "done" /\ answered'[c] = "error"
      BY <1>15, <3>1, PollServes
    <3>3. c \in revoked' => c \in revoked \/ c \in dropped \/ Sweeps
      BY <1>15, PollRevokes
    <3>4. \/ edit'[c] = edit[c] /\ ~(Sweeps /\ edit[c] \in {"waiting", "held"})
          \/ edit'[c] = "cancelled" /\ edit[c] \in {"waiting", "held"}
          \/ edit'[c] = "waiting" /\ served[c] = "none" /\ Runs(c, "lock")'
      BY <1>15, PollEdits
    <3>5. lease # "live" => edit[c] \in {"none", "closed"}
      BY DEF LeaseGoesLast
    <3>6. EditAgrees(c)
      OBVIOUS
    <3>7. /\ answered[c] # "none" => served[c] = "done"
          /\ c \in revoked => served[c] # "none"
          /\ c \in dropped => errand[c] \in Step \ {"unlock", "release"}
      BY <3>1
    <3> QED BY <2>1, <3>1, <3>2, <3>3, <3>4, <3>5, <3>6, <3>7
  <2> QED BY <2>2
<1>16. CASE HandBack
  BY <1>16 DEF HandBack
<1>17. CASE SeesStop
  BY <1>17 DEF SeesStop
<1>18. CASE ChildExits
  BY <1>18 DEF ChildExits
<1>19. CASE Start
  BY <1>19 DEF Start
<1>20. CASE Killed
  BY <1>20 DEF Killed
<1>21. CASE LoopEnds
  BY <1>21 DEF LoopEnds, Revoke
<1>22. CASE Closed
  BY <1>22 DEF Closed
<1>23. CASE Stop
  BY <1>23 DEF Stop, ForceStop
<1>24. CASE GraceEnds
  BY <1>24 DEF GraceEnds, ForceStop
<1>25. CASE StopReturns
  BY <1>25 DEF StopReturns
<1>26. CASE PollFails
  BY <1>26 DEF PollFails
<1>27. CASE UNCHANGED authoredVars
  BY <1>27 DEF authoredVars
<1> QED
    BY <1>1, <1>2, <1>3, <1>4, <1>5, <1>6, <1>7, <1>8, <1>9, <1>10, <1>11,
     <1>12, <1>13, <1>14, <1>15, <1>16, <1>17, <1>18, <1>19, <1>20, <1>21,
     <1>22, <1>23, <1>24, <1>25, <1>26, <1>27
     DEF AuthoredNext, AuthoredStep, Serve

(* The environment goes when nobody works in it.                            *)
LEMMA LeaseStaysLast ==
    ASSUME AuthoredTypes, CallsAgree, EditsAgree, LeaseGoesLast, ChildIsOver, [AuthoredNext]_authoredVars
    PROVE  LeaseGoesLast'
<1> USE AuthoredAssumption DEF AuthoredTypes, CallsAgree, EditsAgree, EditAgrees,
   LeaseGoesLast, Caller, Step, Runs, Unfinished, childVars, hostVars, ownVars
<1>1. ASSUME NEW c \in Errand, Completed(c) PROVE LeaseGoesLast'
  BY <1>1 DEF Completed, Respond
<1>2. ASSUME NEW c \in Errand, Used(c) PROVE LeaseGoesLast'
  BY <1>2 DEF Used, Respond
<1>3. ASSUME NEW c \in Errand, Locked(c) PROVE LeaseGoesLast'
  BY <1>3 DEF Locked, Respond
<1>4. ASSUME NEW c \in Errand, Unlocked(c) PROVE LeaseGoesLast'
  BY <1>4 DEF Unlocked, Respond
<1>5. ASSUME NEW c \in Errand, WriteStarts(c) PROVE LeaseGoesLast'
  BY <1>5 DEF WriteStarts
<1>6. ASSUME NEW c \in Errand, WriteEnds(c) PROVE LeaseGoesLast'
  BY <1>6 DEF WriteEnds, Respond
<1>7. ASSUME NEW c \in Errand, WriteDropped(c) PROVE LeaseGoesLast'
  BY <1>7 DEF WriteDropped, Respond
<1>8. ASSUME NEW c \in Errand, EditOpens(c) PROVE LeaseGoesLast'
  BY <1>8 DEF EditOpens
<1>9. ASSUME NEW c \in Errand, EditCloses(c) PROVE LeaseGoesLast'
  BY <1>9 DEF EditCloses
<1>10. ASSUME NEW c \in Caller, Ask(c) PROVE LeaseGoesLast'
  BY <1>10 DEF Ask, First
<1>11. ASSUME NEW c \in Caller, ReadReply(c) PROVE LeaseGoesLast'
  BY <1>11 DEF ReadReply, Follow
<1>12. ASSUME NEW c \in Caller, Cancel(c) PROVE LeaseGoesLast'
  BY <1>12 DEF Cancel
<1>13. ASSUME Acquired(Lease) PROVE LeaseGoesLast'
  BY <1>13 DEF Acquired, Respond
<1>14. ASSUME GivenBack(Lease) PROVE LeaseGoesLast'
  BY <1>14 DEF GivenBack, Respond
<1>15. CASE Poll
  <2>1. UNCHANGED <<errand, lease, driver>>
    BY <1>15 DEF Poll, childVars
  <2>2. Lease \in Caller /\ "release" \in Step /\ "use" \in Step /\ "lock" \in Step
    OBVIOUS
  <2>3. waitFor' \subseteq revoked' \cap Unfinished'
    <3>1. CASE Sweeps
      BY <1>15, <3>1, PollRevokes
    <3>2. CASE ~Sweeps
      <4>1. ASSUME NEW c \in Errand, served[c] = "run" PROVE served'[c] = "run"
        BY <1>15, <4>1, PollServes
      <4> QED BY <1>15, <3>2, <4>1, PollRevokes
    <3> QED BY <3>1, <3>2
  <2>4. ASSUME Runs(Lease, "release")', NEW c \in Errand
        PROVE  /\ errand[c] \in {"use", "lock"} => served'[c] # "none"
               /\ edit'[c] \in {"waiting", "held"} => Runs(c, "lock")' /\ c \in waitFor'
               /\ Runs(c, "use")' => c \in waitFor'
    <3>1. /\ errand[c] \in Step => served'[c] # "none"
          /\ served'[c] # served[c] => served[c] = "none"
      BY <1>15, PollServes
    <3>2. \/ edit'[c] = edit[c] /\ ~(Sweeps /\ edit[c] \in {"waiting", "held"})
          \/ edit'[c] = "cancelled"
          \/ edit'[c] = "waiting" /\ served[c] = "none" /\ Runs(c, "lock")'
      BY <1>15, PollEdits
    <3>3. CASE Sweeps
      <4>1. waitFor' = {d \in Errand : served'[d] = "run"}
        BY <1>15, <3>3, PollRevokes
      <4> QED BY <2>1, <2>2, <3>1, <3>2, <3>3, <4>1
    <3>4. CASE ~Sweeps
      <4>1. waitFor' = waitFor
        BY <1>15, <3>4, PollRevokes
      <4>2. Runs(Lease, "release")
        <5>1. served'[Lease] # served[Lease] => served[Lease] = "none"
          BY <1>15, <2>2, PollServes
        <5> QED BY <2>1, <2>4, <3>4, <5>1 DEF Sweeps
      <4> QED BY <2>1, <2>2, <3>1, <3>2, <4>1, <4>2
    <3> QED BY <3>3, <3>4
  <2>5. ASSUME lease # "live", NEW c \in Errand
        PROVE  edit'[c] \in {"none", "closed"} /\ ~Runs(c, "use")'
    <3>1. served'[c] = "run" => served[c] = "run"
      BY <1>15, <2>5, PollServes
    <3>2. \/ edit'[c] = edit[c]
          \/ edit[c] \in {"waiting", "held"}
          \/ served[c] = "none" /\ Runs(c, "lock")'
      BY <1>15, PollEdits
    <3> QED BY <2>1, <2>5, <3>1, <3>2
  <2> QED BY <2>1, <2>3, <2>4, <2>5
<1>16. CASE HandBack
  BY <1>16 DEF HandBack
<1>17. CASE SeesStop
  BY <1>17 DEF SeesStop
<1>18. CASE ChildExits
  BY <1>18 DEF ChildExits
<1>19. CASE Start
  BY <1>19 DEF Start
<1>20. CASE Killed
  BY <1>20 DEF Killed
<1>21. CASE LoopEnds
  BY <1>21 DEF LoopEnds, Revoke
<1>22. CASE Closed
  BY <1>22 DEF Closed
<1>23. CASE Stop
  BY <1>23 DEF Stop, ForceStop
<1>24. CASE GraceEnds
  BY <1>24 DEF GraceEnds, ForceStop
<1>25. CASE StopReturns
  BY <1>25 DEF StopReturns
<1>26. CASE PollFails
  BY <1>26 DEF PollFails
<1>27. CASE UNCHANGED authoredVars
  BY <1>27 DEF authoredVars
<1> QED
    BY <1>1, <1>2, <1>3, <1>4, <1>5, <1>6, <1>7, <1>8, <1>9, <1>10, <1>11,
     <1>12, <1>13, <1>14, <1>15, <1>16, <1>17, <1>18, <1>19, <1>20, <1>21,
     <1>22, <1>23, <1>24, <1>25, <1>26, <1>27
     DEF AuthoredNext, AuthoredStep, Serve

(* The end is quiet and accounted for.                                      *)
LEMMA ChildStaysOver ==
    ASSUME AuthoredTypes, CallsAgree, EditsAgree, PaymentsAddUp, ChildIsOver, [AuthoredNext]_authoredVars
    PROVE  ChildIsOver'
<1> USE AuthoredAssumption DEF AuthoredTypes, CallsAgree, EditsAgree, EditAgrees, ChildIsOver,
   Caller, Runs, Unfinished, childVars, hostVars, ownVars
<1>1. ASSUME NEW c \in Errand, Completed(c) PROVE ChildIsOver'
  BY <1>1 DEF Completed, Respond
<1>2. ASSUME NEW c \in Errand, Used(c) PROVE ChildIsOver'
  BY <1>2 DEF Used, Respond
<1>3. ASSUME NEW c \in Errand, Locked(c) PROVE ChildIsOver'
  BY <1>3 DEF Locked, Respond
<1>4. ASSUME NEW c \in Errand, Unlocked(c) PROVE ChildIsOver'
  BY <1>4 DEF Unlocked, Respond
<1>5. ASSUME NEW c \in Errand, WriteStarts(c) PROVE ChildIsOver'
  BY <1>5 DEF WriteStarts
<1>6. ASSUME NEW c \in Errand, WriteEnds(c) PROVE ChildIsOver'
  BY <1>6 DEF WriteEnds, Respond
<1>7. ASSUME NEW c \in Errand, WriteDropped(c) PROVE ChildIsOver'
  BY <1>7 DEF WriteDropped, Respond
<1>8. ASSUME NEW c \in Errand, EditOpens(c) PROVE ChildIsOver'
  BY <1>8 DEF EditOpens
<1>9. ASSUME NEW c \in Errand, EditCloses(c) PROVE ChildIsOver'
  BY <1>9 DEF EditCloses
<1>10. ASSUME NEW c \in Caller, Ask(c) PROVE ChildIsOver'
  BY <1>10 DEF Ask, First
<1>11. ASSUME NEW c \in Caller, ReadReply(c) PROVE ChildIsOver'
  BY <1>11 DEF ReadReply, Follow
<1>12. ASSUME NEW c \in Caller, Cancel(c) PROVE ChildIsOver'
  BY <1>12 DEF Cancel
<1>13. ASSUME Acquired(Lease) PROVE ChildIsOver'
  BY <1>13 DEF Acquired, Respond
<1>14. ASSUME GivenBack(Lease) PROVE ChildIsOver'
  BY <1>14 DEF GivenBack, Respond
<1>15. CASE Poll
  BY <1>15 DEF Poll
<1>16. CASE HandBack
  BY <1>16 DEF HandBack
<1>17. CASE SeesStop
  BY <1>17 DEF SeesStop
<1>18. CASE ChildExits
  BY <1>18 DEF ChildExits
<1>19. CASE Start
  BY <1>19 DEF Start
<1>20. CASE Killed
  BY <1>20 DEF Killed
<1>21. CASE LoopEnds
  BY <1>21 DEF LoopEnds, Revoke
<1>22. CASE Closed
  <2>1. reported <= paid
    BY CallersAreFinite, FS_Subset, FS_CardinalityType DEF PaymentsAddUp
  <2> QED BY <1>22, <2>1 DEF Closed
<1>23. CASE Stop
  BY <1>23 DEF Stop, ForceStop
<1>24. CASE GraceEnds
  BY <1>24 DEF GraceEnds, ForceStop
<1>25. CASE StopReturns
  BY <1>25 DEF StopReturns
<1>26. CASE PollFails
  BY <1>26 DEF PollFails
<1>27. CASE UNCHANGED authoredVars
  BY <1>27 DEF authoredVars
<1> QED
    BY <1>1, <1>2, <1>3, <1>4, <1>5, <1>6, <1>7, <1>8, <1>9, <1>10, <1>11,
     <1>12, <1>13, <1>14, <1>15, <1>16, <1>17, <1>18, <1>19, <1>20, <1>21,
     <1>22, <1>23, <1>24, <1>25, <1>26, <1>27
     DEF AuthoredNext, AuthoredStep, Serve

(* the replies that report usage and were not read yet *)
Told == {c \in Caller : answered[c] = "usage"}

(* So are the replies.                                                      *)
LEMMA ToldIsFinite ==
    IsFiniteSet(Told) /\ Cardinality(Told) \in Nat /\ Told \subseteq Caller
BY CallersAreFinite, FS_Subset, FS_CardinalityType DEF Told

(* A step that tells no more and charges no less keeps the sum.             *)
LEMMA LessIsTold ==
    ASSUME AuthoredTypes, PaymentsAddUp, Told' \subseteq Told, reported' = reported,
           paid' \in Nat, paid <= paid'
    PROVE  PaymentsAddUp'
<1>1. IsFiniteSet(Told) /\ Cardinality(Told) \in Nat
  BY ToldIsFinite
<1>2. Cardinality(Told') \in Nat /\ Cardinality(Told') <= Cardinality(Told)
  BY <1>1, FS_Subset, FS_CardinalityType
<1>3. reported + Cardinality(Told) <= paid
  BY DEF PaymentsAddUp, Told
<1>4. reported' + Cardinality(Told') <= paid'
  BY <1>1, <1>2, <1>3 DEF AuthoredTypes
<1> QED BY <1>4 DEF PaymentsAddUp, Told

(* Usage is paid for before it is told, and read once.                      *)
LEMMA PaymentsStayAdded ==
    ASSUME AuthoredTypes, CallsAgree, PaymentsAddUp, [AuthoredNext]_authoredVars
    PROVE  PaymentsAddUp'
<1>0. /\ IsFiniteSet(Told) /\ Cardinality(Told) \in Nat
      /\ reported + Cardinality(Told) <= paid /\ reported \in Nat /\ paid \in Nat
  BY ToldIsFinite DEF PaymentsAddUp, Told, AuthoredTypes
<1>1. ASSUME NEW c \in Errand, Completed(c) PROVE PaymentsAddUp'
  <2>1. PICK usage \in {0, 1} :
            /\ paid' = paid + usage
            /\ \/ usage = 1 /\ Respond(c, "usage")
               \/ Respond(c, "error")
    BY <1>1 DEF Completed
  <2>2. reported' = reported /\ c \in Caller
    BY <1>1 DEF Completed, childVars, Caller
  <2>3. CASE Told' \subseteq Told
    BY <1>0, <2>1, <2>2, <2>3, LessIsTold
  <2>4. CASE ~(Told' \subseteq Told)
    <3>1. usage = 1 /\ c \notin Told /\ Told' \subseteq Told \cup {c}
      BY <2>1, <2>2, <2>4 DEF Respond, Told, AuthoredTypes
    <3>2. IsFiniteSet(Told \cup {c}) /\ Cardinality(Told \cup {c}) = Cardinality(Told) + 1
      BY <1>0, <3>1, FS_AddElement
    <3>3. Cardinality(Told') \in Nat /\ Cardinality(Told') <= Cardinality(Told \cup {c})
      BY <3>1, <3>2, FS_Subset, FS_CardinalityType
    <3>4. reported' + Cardinality(Told') <= paid'
      BY <1>0, <2>1, <2>2, <3>1, <3>2, <3>3
    <3> QED BY <3>4 DEF PaymentsAddUp, Told
  <2> QED BY <2>3, <2>4
<1>2. ASSUME NEW c \in Caller, ReadReply(c) PROVE PaymentsAddUp'
  <2>1. Told' = Told \ {c} /\ paid' = paid
    BY <1>2 DEF ReadReply, Told, AuthoredTypes
  <2>2. CASE answered[c] = "usage"
    <3>1. reported' = reported + 1 /\ c \in Told
      BY <1>2, <2>2 DEF ReadReply, Told
    <3>2. Cardinality(Told') = Cardinality(Told) - 1
      BY <1>0, <2>1, <3>1, FS_RemoveElement
    <3>3. reported' + Cardinality(Told') <= paid'
      BY <1>0, <2>1, <3>1, <3>2
    <3> QED BY <3>3 DEF PaymentsAddUp, Told
  <2>3. CASE answered[c] # "usage"
    <3>1. reported' = reported
      BY <1>2, <2>3 DEF ReadReply
    <3> QED BY <1>0, <2>1, <3>1, LessIsTold
  <2> QED BY <2>2, <2>3
<1>3. ASSUME NEW c \in Errand, \/ Used(c) \/ Locked(c) \/ Unlocked(c) \/ WriteStarts(c)
                               \/ WriteEnds(c) \/ WriteDropped(c) \/ EditOpens(c) \/ EditCloses(c)
      PROVE  PaymentsAddUp'
  <2>1. c \in Caller
    BY DEF Caller
  <2>2. UNCHANGED <<reported, paid>>
    BY <1>3 DEF Used, Locked, Unlocked, WriteStarts, WriteEnds, WriteDropped, EditOpens,
                EditCloses, childVars
  <2>3. Told' \subseteq Told
    BY <1>3, <2>1 DEF Used, Locked, Unlocked, WriteStarts, WriteEnds, WriteDropped, EditOpens,
                EditCloses, Respond, Told, AuthoredTypes
  <2> QED BY <1>0, <2>2, <2>3, LessIsTold
<1>4. CASE Acquired(Lease) \/ GivenBack(Lease)
  <2>1. Lease \in Caller
    BY DEF Caller
  <2>2. UNCHANGED <<reported, paid>>
    BY <1>4 DEF Acquired, GivenBack, childVars
  <2>3. Told' \subseteq Told
    BY <1>4, <2>1 DEF Acquired, GivenBack, Respond, Told, AuthoredTypes
  <2> QED BY <1>0, <2>2, <2>3, LessIsTold
<1>5. CASE Poll
  <2>1. UNCHANGED <<reported, paid>>
    BY <1>5 DEF Poll, childVars
  <2>2. Told' \subseteq Told
    BY <1>5, PollServes DEF Told
  <2> QED BY <1>0, <2>1, <2>2, LessIsTold
<1>6. ASSUME UNCHANGED <<answered, reported, paid>> PROVE PaymentsAddUp'
  <2>1. Told' \subseteq Told
    BY <1>6 DEF Told
  <2> QED BY <1>0, <1>6, <2>1, LessIsTold
<1>7. ASSUME NEW c \in Caller, Ask(c) \/ Cancel(c) PROVE PaymentsAddUp'
  BY <1>6, <1>7 DEF Ask, Cancel, hostVars
<1>8. CASE HandBack \/ SeesStop \/ ChildExits \/ Start \/ Killed \/ PollFails \/ UNCHANGED authoredVars
  BY <1>6, <1>8 DEF HandBack, SeesStop, ChildExits, Start, Killed, PollFails, authoredVars,
                    childVars, hostVars
<1>9. CASE LoopEnds \/ Closed \/ Stop \/ GraceEnds \/ StopReturns
  BY <1>6, <1>9 DEF LoopEnds, Closed, Stop, GraceEnds, StopReturns, childVars, hostVars
<1> QED
  BY <1>1, <1>2, <1>3, <1>4, <1>5, <1>7, <1>8, <1>9 DEF AuthoredNext, AuthoredStep, Serve

(* A member's workflow starts with nothing asked and nothing lent.          *)
LEMMA AuthoredStarts == AuthoredInit => AuthoredInv
<1> SUFFICES ASSUME AuthoredInit PROVE AuthoredInv
  OBVIOUS
<1>1. AuthoredTypes
  BY AuthoredAssumption DEF AuthoredInit, AuthoredTypes, Step
<1>2. CallsAgree
  BY AuthoredAssumption DEF AuthoredInit, CallsAgree, Caller, Step
<1>3. EditsAgree /\ LeaseGoesLast
  BY AuthoredAssumption DEF AuthoredInit, EditsAgree, EditAgrees, LeaseGoesLast, Caller, Runs
<1>4. PaymentsAddUp
  <2>1. {c \in Caller : answered[c] = "usage"} = {}
    BY DEF AuthoredInit
  <2> QED BY <2>1, FS_EmptySet DEF PaymentsAddUp, AuthoredInit
<1>5. ChildIsOver
  BY DEF AuthoredInit, ChildIsOver
<1> QED BY <1>1, <1>2, <1>3, <1>4, <1>5 DEF AuthoredInv

(* Every step keeps the invariant.                                          *)
LEMMA AuthoredKept == AuthoredInv /\ [AuthoredNext]_authoredVars => AuthoredInv'
BY AuthoredTypesKept, CallsStayAgreed, EditsStayAgreed, LeaseStaysLast, PaymentsStayAdded,
   ChildStaysOver DEF AuthoredInv

(* The file locks of a member's workflow come back while it runs.  Nothing  *)
(* is done in an environment that was given back; when the run is over and  *)
(* no cleanup failed, process, locks and environments are gone and every    *)
(* completion was charged (_execute, aclose of the bridge, _FileEdit).      *)
THEOREM ChildrenAreContained == AuthoredSpec => []AuthoredIsContained
<1>1. AuthoredInv => AuthoredIsContained
  <2> SUFFICES ASSUME AuthoredInv PROVE AuthoredIsContained
    OBVIOUS
  <2>1. EditLocksComeBack
    BY DEF AuthoredInv, EditsAgree, EditAgrees, EditLocksComeBack
  <2>2. lease = "released" => writing = {} /\ \A c \in Errand : ~Runs(c, "use")
    BY DEF AuthoredInv, AuthoredTypes, EditsAgree, EditAgrees, LeaseGoesLast
  <2>3. driver = "end" /\ ~broken => holder = {} /\ lease # "live" /\ accounted = paid
    BY DEF AuthoredInv, AuthoredTypes, EditsAgree, EditAgrees, ChildIsOver
  <2>4. driver = "end" /\ ~broken => process \in {"exited", "crashed", "killed"}
    BY DEF AuthoredInv, AuthoredTypes, ChildIsOver
  <2>5. removed => process \notin {"running", "stray"}
    BY DEF AuthoredInv, AuthoredTypes, ChildIsOver
  <2> QED BY <2>1, <2>2, <2>3, <2>4, <2>5 DEF AuthoredIsContained, ChildLeavesNothing
<1> QED BY AuthoredStarts, AuthoredKept, <1>1, PTL DEF AuthoredSpec

-----------------------------------------------------------------------------
(* The collections of a script: what a unit works on, and the sum of the    *)
(* slots                                                                    *)

(* What the tree of units and the names of the slots are.                   *)
LEMMA CollFacts ==
    /\ Unit \subseteq Node /\ Top \in Node /\ Top \notin Unit /\ TaskSlots \in Nat \ {0}
    /\ \A u \in Unit : ParentUnit[u] \in Node /\ ParentUnit[u] # u
    /\ NoSeat \in Seat
    /\ \A n \in Node : Own(n) \in Seat /\ Workers(n) \subseteq Seat
    /\ \A u \in Unit : Own(u) # NoSeat
    /\ \A n, m \in Node : Own(n) = Own(m) => n = m
    /\ \A n, m \in Node : Own(n) \notin Workers(m)
    /\ \A n, m \in Node : \A s : s \in Workers(n) /\ s \in Workers(m) => n = m
BY CollectionsAssumption DEF Node, NoSeat, Own, Workers, Seat

(* The sets of units and slots are finite.                                  *)
LEMMA CollSetsAreFinite ==
    /\ IsFiniteSet(Seat)
    /\ \A n \in Node : IsFiniteSet(Freed(n)) /\ Cardinality(Freed(n)) \in Nat
    /\ \A n \in Node : Kids(n) # {} => ExtraCount(n) \in 0..(TaskSlots - 1)
<1>1. IsFiniteSet(Node)
  <2>1. IsFiniteSet(Unit) /\ IsFiniteSet({Top})
    BY CollectionsAssumption, FS_Singleton
  <2> QED BY <2>1, FS_Union DEF Node
<1>2. IsFiniteSet(0..(TaskSlots - 1))
  <2>1. TaskSlots - 1 \in Int /\ 0 \in Int
    BY CollFacts
  <2> QED BY <2>1, FS_Interval
<1>3. IsFiniteSet(Seat)
  BY <1>1, <1>2, FS_Product DEF Seat
<1>4. ASSUME NEW n \in Node PROVE IsFiniteSet(Freed(n)) /\ Cardinality(Freed(n)) \in Nat
  <2>1. Freed(n) \subseteq Seat
    BY CollFacts DEF Freed, Resting
  <2> QED BY <2>1, <1>3, FS_Subset, FS_CardinalityType
<1>5. ASSUME NEW n \in Node, Kids(n) # {} PROVE ExtraCount(n) \in 0..(TaskSlots - 1)
  <2>1. IsFiniteSet(Kids(n))
    BY CollectionsAssumption, FS_Subset DEF Kids
  <2>2. Cardinality(Kids(n)) \in Nat /\ Cardinality(Kids(n)) # 0
    BY <2>1, <1>5, FS_CardinalityType, FS_EmptySet
  <2> QED BY <2>2, CollFacts DEF ExtraCount, Smaller
<1> QED BY <1>3, <1>4, <1>5

(* A unit that starts has a permit and a slot.                              *)
LEMMA StartKeepsTypes ==
    ASSUME CollTypes, NEW u \in Unit, NEW way \in {"own", "extra", "borrowed", "entered"},
           NEW v \in Seat, NEW s \in Seat, Starts(u, way, v, s)
    PROVE  /\ unit' \in [Unit -> {"new", "wait", "run", "done", "cancelled"}]
           /\ slotOf' \in [Unit -> {"none", "own", "extra", "borrowed", "entered"}]
           /\ view' \in [Unit -> Seat] /\ seat' \in [Unit -> Seat]
<1>1. unit' \in [Unit -> {"new", "wait", "run", "done", "cancelled"}]
  BY DEF CollTypes, Starts
<1>2. slotOf' \in [Unit -> {"none", "own", "extra", "borrowed", "entered"}]
  BY DEF CollTypes, Starts
<1>3. view' \in [Unit -> Seat] /\ seat' \in [Unit -> Seat]
  BY DEF CollTypes, Starts
<1> QED BY <1>1, <1>2, <1>3

(* Every step keeps the types.                                              *)
LEMMA CollTypesKept ==
    ASSUME CollTypes, UnitsHold, [CollectionsNext]_collVars
    PROVE  CollTypes'
<1> USE CollFacts
<1>0. ASSUME NEW s \in Seat, Vacate(s)
      PROVE  use' \in [Seat -> {"free", "fresh", "held", "draining"}] /\ slots' \in Nat
  BY <1>0 DEF Vacate, CollTypes
<1>1. ASSUME NEW u \in Unit, PlainClaim(u) PROVE CollTypes'
  BY <1>1 DEF PlainClaim, CollTypes
<1>2. ASSUME NEW u \in Unit, InlineClaim(u) PROVE CollTypes'
  <2> DEFINE n == ParentUnit[u]
  <2>1. n \in Unit /\ n \in Node
    BY <1>2 DEF Node, InlineClaim, UnitsHold
  <2>2. inline' \in [Node -> {"off", "idle", "busy", "ended"}] /\ UNCHANGED <<use, coll, toAlloc, slots>>
    BY <1>2, <2>1 DEF InlineClaim, CollTypes
  <2>3. CASE UNCHANGED <<slotOf, view, seat>> /\ unit' = [unit EXCEPT ![u] = "wait"]
    BY <2>2, <2>3 DEF CollTypes
  <2>4. view[n] \in Seat /\ seat[n] \in Seat
    BY <2>1 DEF CollTypes
  <2>5. CASE Starts(u, "entered", view[n], seat[n])
    BY <2>2, <2>4, <2>5, StartKeepsTypes DEF CollTypes
  <2>6. CASE Starts(u, "borrowed", Own(u), seat[n])
    BY <2>2, <2>4, <2>6, StartKeepsTypes DEF CollTypes
  <2> QED
    BY <1>2, <2>3, <2>5, <2>6 DEF InlineClaim
<1>3. ASSUME NEW u \in Unit, ExtraClaim(u) PROVE CollTypes'
  <2>1. PICK s \in Workers(ParentUnit[u]) : Starts(u, "extra", s, s)
    BY <1>3 DEF ExtraClaim
  <2> QED BY <1>3, <2>1, StartKeepsTypes DEF ExtraClaim, CollTypes
<1>4. ASSUME NEW u \in Unit, BorrowSlot(u) PROVE CollTypes'
  <2>1. ParentUnit[u] \in Unit
    BY <1>4 DEF Node, BorrowSlot, HasPermit
  <2>2. seat[ParentUnit[u]] \in Seat /\ Own(u) \in Seat
    BY <2>1 DEF CollTypes
  <2> QED BY <1>4, <2>2, StartKeepsTypes DEF BorrowSlot, CollTypes
<1>5. ASSUME NEW u \in Unit, TakeSlot(u) PROVE CollTypes'
  <2>1. Own(u) \in Seat
    OBVIOUS
  <2>2. use' \in [Seat -> {"free", "fresh", "held", "draining"}] /\ slots' \in Nat
    BY <1>5 DEF TakeSlot, CollTypes
  <2> QED BY <1>5, <2>1, <2>2, StartKeepsTypes DEF TakeSlot, CollTypes
<1>6. ASSUME NEW u \in Unit, UnitReturns(u) \/ UnitLeaves(u) \/ CancelUnit(u) PROVE CollTypes'
  <2>1. unit' \in [Unit -> {"new", "wait", "run", "done", "cancelled"}] /\ UNCHANGED <<coll, toAlloc>>
    BY <1>6 DEF UnitReturns, UnitLeaves, CancelUnit, Settles, CollTypes
  <2>2. Forgets(u) /\ (InlineIs(u, "idle") \/ InlineIs(u, "ended"))
        /\ (Vacate(Own(u)) \/ Vacate(seat[u]) \/ UNCHANGED <<use, slots>>)
    BY <1>6 DEF UnitReturns, UnitLeaves, CancelUnit, GiveBack, Abandon
  <2>3. inline' \in [Node -> {"off", "idle", "busy", "ended"}]
    BY <2>2 DEF InlineIs, CollTypes
  <2>4. slotOf' \in [Unit -> {"none", "own", "extra", "borrowed", "entered"}]
    BY <2>2 DEF Forgets, CollTypes
  <2>5. view' \in [Unit -> Seat] /\ seat' \in [Unit -> Seat]
    <3>1. NoSeat \in Seat /\ view \in [Unit -> Seat] /\ seat \in [Unit -> Seat]
      BY DEF CollTypes
    <3>2. \/ UNCHANGED <<view, seat>>
          \/ view' = [view EXCEPT ![u] = NoSeat] /\ seat' = [seat EXCEPT ![u] = NoSeat]
      BY <2>2 DEF Forgets
    <3> QED BY <3>1, <3>2
  <2>6. use' \in [Seat -> {"free", "fresh", "held", "draining"}] /\ slots' \in Nat
    BY <1>0, <2>2 DEF CollTypes
  <2> QED BY <2>1, <2>3, <2>4, <2>5, <2>6 DEF CollTypes
<1>7. ASSUME NEW n \in Node, OpenCollection(n) PROVE CollTypes'
  BY <1>7, CollSetsAreFinite DEF OpenCollection, CollTypes
<1>8. ASSUME NEW n \in Node, InlineEnds(n) \/ CloseCollection(n) PROVE CollTypes'
  BY <1>8 DEF InlineEnds, CloseCollection, CollTypes
<1>9. ASSUME NEW n \in Node, AllocateWorker(n) PROVE CollTypes'
  <2>1. use' \in [Seat -> {"free", "fresh", "held", "draining"}]
    BY <1>9 DEF AllocateWorker, CollTypes
  <2>3. slots' \in Nat
    BY <1>9 DEF AllocateWorker, CollTypes
  <2>2. toAlloc' \in [Node -> 0..(TaskSlots - 1)]
    BY <1>9 DEF AllocateWorker, CollTypes
  <2> QED BY <1>9, <2>1, <2>2, <2>3 DEF AllocateWorker, CollTypes
<1>10. ASSUME NEW n \in Node, Unwind(n) PROVE CollTypes'
  <2>1. use' \in [Seat -> {"free", "fresh", "held", "draining"}]
    BY <1>10 DEF Unwind, StopWorkers, CollTypes
  <2>2. slots' \in Nat
    BY <1>10, CollSetsAreFinite DEF Unwind, StopWorkers, CollTypes
  <2>3. /\ coll' \in [Node -> {"none", "open", "closing", "closed"}]
        /\ inline' \in [Node -> {"off", "idle", "busy", "ended"}]
        /\ toAlloc' \in [Node -> 0..(TaskSlots - 1)]
    BY <1>10 DEF Unwind, StopWorkers, CollTypes
  <2>4. unit' \in [Unit -> {"new", "wait", "run", "done", "cancelled"}]
    BY <1>10 DEF Unwind, CollTypes
  <2> QED BY <1>10, <2>1, <2>2, <2>3, <2>4 DEF Unwind, CollTypes
<1>11. ASSUME NEW s \in Seat, StartWorker(s) \/ ReleaseAfterBorrowers(s) PROVE CollTypes'
  BY <1>11 DEF StartWorker, ReleaseAfterBorrowers, CollTypes
<1>12. ASSUME NEW s \in Seat, ExtraEnds(s) PROVE CollTypes'
  BY <1>0, <1>12 DEF ExtraEnds, CollTypes
<1>13. CASE UNCHANGED collVars
  BY <1>13 DEF collVars, CollTypes
<1> QED
  BY <1>1, <1>2, <1>3, <1>4, <1>5, <1>6, <1>7, <1>8, <1>9, <1>10, <1>11, <1>12, <1>13
     DEF CollectionsNext, CollectionsStep, UnitStep, CollStep, SlotStep, CancelCollection, CancelByScript

(* A unit keeps to what UnitsHold says of it.                               *)
LEMMA UnitsStayHeld ==
    ASSUME CollTypes, UnitsHold, [CollectionsNext]_collVars
    PROVE  UnitsHold'
<1> USE CollFacts
<1>1. ASSUME NEW u \in Unit, PlainClaim(u) PROVE UnitsHold'
  BY <1>1 DEF CollTypes, UnitsHold, Inlined, PlainClaim, MayClaim, Waiting, Kids
<1>2. ASSUME NEW u \in Unit, InlineClaim(u) PROVE UnitsHold'
  <2> DEFINE n == ParentUnit[u]
  <2>1. /\ n \in Node /\ coll[n] = "open" /\ unit[u] = "new" /\ inline[n] = "idle"
        /\ inline' = [inline EXCEPT ![n] = "busy"] /\ UNCHANGED coll
    BY <1>2 DEF InlineClaim, MayClaim, Waiting, Kids
  <2>2. \A v \in Unit : ParentUnit[v] = n => ~Inlined(v)
    BY <2>1 DEF UnitsHold
  <2>3. /\ unit' \in {[unit EXCEPT ![u] = "run"], [unit EXCEPT ![u] = "wait"]}
        /\ unit'[u] = "run" => slotOf' \in {[slotOf EXCEPT ![u] = "entered"], [slotOf EXCEPT ![u] = "borrowed"]}
        /\ unit'[u] = "wait" => slotOf' = slotOf
        /\ unit'[u] = "run" => slotOf'[u] = "borrowed" \/ n \notin Background
    BY <1>2 DEF InlineClaim, Starts, CollTypes
  <2>4. n \in Unit
    BY <2>1 DEF UnitsHold, Node
  <2> HIDE DEF n
  <2>5. CASE unit' = [unit EXCEPT ![u] = "run"]
    <3>1. slotOf' \in {[slotOf EXCEPT ![u] = "entered"], [slotOf EXCEPT ![u] = "borrowed"]}
      BY <2>3, <2>5 DEF CollTypes
    <3>2. slotOf'[u] = "borrowed" \/ n \notin Background
      BY <2>3, <2>5 DEF CollTypes
    <3> QED BY <2>1, <2>2, <2>4, <2>5, <3>1, <3>2 DEF CollTypes, UnitsHold, Inlined, n
  <2>6. CASE unit' = [unit EXCEPT ![u] = "wait"]
    <3>1. slotOf' = slotOf
      BY <2>3, <2>6 DEF CollTypes
    <3> QED BY <2>1, <2>2, <2>4, <2>6, <3>1 DEF CollTypes, UnitsHold, Inlined, n
  <2> QED BY <2>3, <2>5, <2>6
<1>3. ASSUME NEW u \in Unit, ExtraClaim(u) PROVE UnitsHold'
  BY <1>3 DEF CollTypes, UnitsHold, Inlined, ExtraClaim, MayClaim, Waiting, Kids, Starts
<1>4. ASSUME NEW u \in Unit, BorrowSlot(u) PROVE UnitsHold'
  BY <1>4 DEF CollTypes, UnitsHold, Inlined, BorrowSlot, Starts
<1>5. ASSUME NEW u \in Unit, TakeSlot(u) PROVE UnitsHold'
  BY <1>5 DEF CollTypes, UnitsHold, Inlined, TakeSlot, Starts
<1>6. ASSUME NEW u \in Unit, UnitReturns(u) \/ UnitLeaves(u) \/ CancelUnit(u) PROVE UnitsHold'
  <2> DEFINE n == ParentUnit[u]
  <2>1. /\ unit[u] = "run" /\ (u \in Background \/ coll[u] \in {"none", "closed"})
        /\ unit' \in {[unit EXCEPT ![u] = "done"], [unit EXCEPT ![u] = "cancelled"]}
        /\ UNCHANGED coll
    BY <1>6 DEF UnitReturns, UnitLeaves, CancelUnit, Settles
  <2>2. Forgets(u) /\ (InlineIs(u, "idle") \/ InlineIs(u, "ended"))
    BY <1>6 DEF UnitReturns, UnitLeaves, CancelUnit, GiveBack, Abandon
  <2>3. slotOf' \in {slotOf, [slotOf EXCEPT ![u] = "none"]}
    BY <2>2 DEF Forgets
  <2>4. \A m \in Node : m # n \/ slotOf[u] = "extra" \/ inline[n] # "busy" => inline'[m] = inline[m]
    BY <2>2 DEF InlineIs, CollTypes
  <2>5. (inline'[n] = "off") <=> (inline[n] = "off")
    BY <2>2 DEF InlineIs, CollTypes
  <2>6. \A v \in Unit : Inlined(v)' => v # u /\ Inlined(v)
    BY <2>1, <2>3, <2>4, <2>5 DEF Inlined, CollTypes
  <2>7. ASSUME NEW v \in Unit, Inlined(v)' PROVE inline'[ParentUnit[v]] = "busy"
    <3>1. v # u /\ Inlined(v) /\ inline[ParentUnit[v]] = "busy"
      BY <2>6, <2>7 DEF UnitsHold
    <3>2. CASE Inlined(u)
      BY <2>4, <3>1, <3>2 DEF UnitsHold
    <3>3. CASE ~Inlined(u)
      <4>1. slotOf[u] = "extra" \/ inline[n] # "busy"
        BY <2>1, <3>3 DEF Inlined
      <4> QED BY <2>4, <3>1, <4>1
    <3> QED BY <3>2, <3>3
  <2>8. inline'[Top] = "off"
    <3>1. CASE n = Top
      BY <2>5, <3>1 DEF UnitsHold
    <3>2. CASE n # Top
      BY <2>4, <3>2 DEF UnitsHold
    <3> QED BY <3>1, <3>2
  <2>9. \A m \in Node : inline[m] # "off" => inline'[m] # "off"
    BY <2>4, <2>5
  <2> HIDE DEF n
  <2> QED BY <2>1, <2>3, <2>6, <2>7, <2>8, <2>9 DEF UnitsHold, CollTypes
<1>7. ASSUME NEW n \in Node, OpenCollection(n) PROVE UnitsHold'
  <2>1. /\ coll[n] = "none" /\ UNCHANGED <<unit, slotOf>>
        /\ \A m \in Node : m # n => coll'[m] = coll[m] /\ inline'[m] = inline[m]
        /\ coll'[n] = "open" /\ (n = Top => inline'[n] = "off")
        /\ n # Top => unit[n] = "run" \/ n \in Background
    BY <1>7 DEF OpenCollection, HasPermit, CollTypes
  <2>2. \A u \in Unit : unit[u] \in {"wait", "run"} => ParentUnit[u] # n
    BY <2>1 DEF UnitsHold
  <2>3. \A u \in Unit : Inlined(u)' <=> Inlined(u)
    BY <2>1, <2>2 DEF Inlined
  <2>4. inline'[Top] = "off" /\ UNCHANGED <<unit, slotOf>>
    BY <2>1 DEF UnitsHold
  <2>5. \A u \in Unit : unit[u] \in {"wait", "run"} =>
           coll'[ParentUnit[u]] = coll[ParentUnit[u]] /\ inline'[ParentUnit[u]] = inline[ParentUnit[u]]
    BY <2>1, <2>2
  <2>6. ASSUME NEW u \in Unit
        PROVE  /\ unit[u] \in {"wait", "run"} => coll'[ParentUnit[u]] \in {"open", "closing"}
               /\ unit[u] = "run" /\ slotOf[u] \in {"borrowed", "entered"} => inline'[ParentUnit[u]] # "off"
               /\ Inlined(u)' => inline'[ParentUnit[u]] = "busy"
    BY <2>3, <2>5 DEF UnitsHold, Inlined
  <2>7. ASSUME NEW u \in Unit, coll'[u] \in {"open", "closing"} PROVE u \in Background \/ unit[u] = "run"
    BY <2>1, <2>7 DEF UnitsHold
  <2> QED BY <2>3, <2>4, <2>6, <2>7 DEF UnitsHold
<1>8. ASSUME NEW n \in Node, InlineEnds(n) \/ CloseCollection(n) PROVE UnitsHold'
  <2>1. /\ UNCHANGED <<unit, slotOf>> /\ coll[n] \in {"open", "closing"}
        /\ \A m \in Node : m # n => coll'[m] = coll[m] /\ inline'[m] = inline[m]
        /\ \/ coll' = coll /\ inline[n] = "idle" /\ inline'[n] = "ended"
           \/ inline' = inline /\ Live(n) = {} /\ coll'[n] = "closed"
    BY <1>8 DEF InlineEnds, CloseCollection, CollTypes
  <2>2. CASE coll' = coll /\ inline[n] = "idle" /\ inline'[n] = "ended"
    <3>1. \A u \in Unit : Inlined(u) => ParentUnit[u] # n
      BY <2>2 DEF UnitsHold
    <3>2. \A u \in Unit : Inlined(u)' <=> Inlined(u)
      BY <2>1, <2>2 DEF Inlined
    <3> QED BY <2>1, <2>2, <3>1, <3>2 DEF UnitsHold
  <2>3. CASE inline' = inline /\ Live(n) = {} /\ coll'[n] = "closed"
    <3>1. \A u \in Unit : unit[u] \in {"wait", "run"} => ParentUnit[u] # n
      BY <2>3 DEF Live, Kids
    <3>2. \A u \in Unit : Inlined(u)' <=> Inlined(u)
      BY <2>1, <2>3 DEF Inlined
    <3> QED BY <2>1, <2>3, <3>1, <3>2 DEF UnitsHold
  <2> QED BY <2>1, <2>2, <2>3
<1>9. ASSUME NEW n \in Node, AllocateWorker(n) PROVE UnitsHold'
  BY <1>9 DEF AllocateWorker, UnitsHold, Inlined
<1>10. ASSUME NEW n \in Node, Unwind(n) PROVE UnitsHold'
  BY <1>10 DEF CollTypes, UnitsHold, Inlined, Unwind, StopWorkers, Kids
<1>11. ASSUME NEW s \in Seat, SlotStep(s) PROVE UnitsHold'
  BY <1>11 DEF SlotStep, StartWorker, ReleaseAfterBorrowers, ExtraEnds, UnitsHold, Inlined
<1>12. CASE UNCHANGED collVars
  BY <1>12 DEF collVars, UnitsHold, Inlined
<1> QED
  BY <1>1, <1>2, <1>3, <1>4, <1>5, <1>6, <1>7, <1>8, <1>9, <1>10, <1>11, <1>12
     DEF CollectionsNext, CollectionsStep, UnitStep, CollStep, CancelCollection, CancelByScript

(* A unit with a permit works on a slot that is taken.                      *)
LEMMA PermitIsTaken ==
    ASSUME CollTypes, SeatsHold, ViewsAgree, NEW n \in Unit, HasPermit(n)
    PROVE  use[seat[n]] \in {"held", "draining"}
<1>1. CASE view[n][2] = 0
  <2>1. view[n][1] \in Unit /\ unit[view[n][1]] = "run" /\ view[n] # NoSeat
    BY <1>1 DEF HasPermit, ViewsAgree
  <2>2. slotOf[view[n][1]] \in {"own", "borrowed"} /\ seat[view[n][1]] = seat[n]
    BY <1>1, <2>1 DEF ViewsAgree
  <2> QED BY <2>1, <2>2 DEF SeatsHold, Borrows
<1>2. CASE view[n][2] # 0
  BY <1>2 DEF HasPermit, ViewsAgree
<1> QED BY <1>1, <1>2

(* How a slot is left.                                                      *)
LEMMA VacatedSlot ==
    ASSUME CollTypes, NEW s \in Seat, Vacate(s)
    PROVE  /\ \A t \in Seat : t # s => use'[t] = use[t]
           /\ use'[s] \in {"free", "draining"}
           /\ \A u \in Unit : Borrows(u) /\ seat[u] = s => use'[s] = "draining"
BY DEF Vacate, CollTypes, Borrowers

(* Every step leaves a unit at work the slot it works on.                   *)
LEMMA SeatsStayHeld ==
    ASSUME CollTypes, UnitsHold, SeatsHold, ViewsAgree, SlotsAddUp, [CollectionsNext]_collVars
    PROVE  SeatsHold'
<1> USE CollFacts
<1>1. ASSUME NEW u \in Unit, NEW way \in {"own", "extra", "borrowed", "entered"}, NEW v, NEW s \in Seat,
             unit[u] \in {"new", "wait"}, Starts(u, way, v, s),
             use' = use \/ (way = "own" /\ use' = [use EXCEPT ![s] = "held"]),
             way = "own" => s = Own(u) /\ use'[s] = "held",
             way = "extra" => s \in Workers(ParentUnit[u]) /\ Idle(s),
             way = "borrowed" => use[s] \in {"held", "draining"}
      PROVE  SeatsHold'
  <2>1. \A w \in Unit \ {u} : unit'[w] = unit[w] /\ slotOf'[w] = slotOf[w] /\ seat'[w] = seat[w]
    BY <1>1 DEF Starts, CollTypes
  <2>2. unit'[u] = "run" /\ slotOf'[u] = way /\ seat'[u] = s
    BY <1>1 DEF Starts, CollTypes
  <2>3. \A t \in Seat : use'[t] = use[t] \/ use'[t] = "held"
    BY <1>1 DEF CollTypes
  <2>4. \A w \in Unit : w # u => (Extra(w)' <=> Extra(w)) /\ (Borrows(w)' <=> Borrows(w))
    BY <2>1 DEF Extra, Borrows
  <2>5. Extra(u)' <=> way = "extra"
    BY <2>2 DEF Extra
  <2>6. Borrows(u)' <=> way = "borrowed"
    BY <2>2 DEF Borrows
  <2>7. \A w \in Unit : seat[w] \in Seat
    BY DEF CollTypes
  <2>8. ASSUME NEW w \in Unit \ {u}
        PROVE  /\ unit'[w] = "run" /\ slotOf'[w] = "own" => seat'[w] = Own(w) /\ use'[seat'[w]] = "held"
               /\ Extra(w)' => seat'[w] \in Workers(ParentUnit[w]) /\ use'[seat'[w]] = "held"
               /\ Borrows(w)' => use'[seat'[w]] \in {"held", "draining"}
    BY <2>1, <2>3, <2>4, <2>7 DEF SeatsHold
  <2>9. way = "extra" => use'[s] = "held" /\ \A w \in Unit : Extra(w) => seat[w] # s
    BY <1>1, <2>3 DEF Idle
  <2>10. way = "borrowed" => use'[s] \in {"held", "draining"}
    BY <1>1, <2>3
  <2>11. \A w, x \in Unit : Extra(w)' /\ Extra(x)' /\ seat'[w] = seat'[x] => w = x
    BY <2>1, <2>2, <2>4, <2>5, <2>9 DEF SeatsHold
  <2> QED BY <1>1, <2>2, <2>5, <2>6, <2>8, <2>9, <2>10, <2>11 DEF SeatsHold
<1>2. ASSUME NEW u \in Unit, PlainClaim(u) PROVE SeatsHold'
  BY <1>2 DEF PlainClaim, MayClaim, Waiting, Kids, SeatsHold, Extra, Borrows, CollTypes
<1>3. ASSUME NEW u \in Unit, InlineClaim(u) PROVE SeatsHold'
  <2>1. ParentUnit[u] \in Unit /\ unit[u] = "new" /\ UNCHANGED use /\ seat[ParentUnit[u]] \in Seat
    BY <1>3 DEF InlineClaim, MayClaim, Waiting, Kids, UnitsHold, Node, CollTypes
  <2>2. CASE UNCHANGED <<slotOf, view, seat>> /\ unit' = [unit EXCEPT ![u] = "wait"]
    BY <2>1, <2>2 DEF SeatsHold, Extra, Borrows, CollTypes
  <2>3. CASE Starts(u, "entered", view[ParentUnit[u]], seat[ParentUnit[u]])
    BY <1>1, <2>1, <2>3
  <2>4. CASE HasPermit(ParentUnit[u]) /\ Starts(u, "borrowed", Own(u), seat[ParentUnit[u]])
    <3>1. use[seat[ParentUnit[u]]] \in {"held", "draining"}
      BY <2>1, <2>4, PermitIsTaken
    <3> QED BY <1>1, <2>1, <2>4, <3>1
  <2> QED BY <1>3, <2>2, <2>3, <2>4 DEF InlineClaim
<1>4. ASSUME NEW u \in Unit, ExtraClaim(u) PROVE SeatsHold'
  <2>1. PICK s \in Workers(ParentUnit[u]) : Idle(s) /\ Starts(u, "extra", s, s)
    BY <1>4 DEF ExtraClaim
  <2>2. s \in Seat /\ unit[u] = "new" /\ UNCHANGED use
    BY <1>4, <2>1 DEF ExtraClaim, MayClaim, Waiting, Kids
  <2> QED BY <1>1, <2>1, <2>2
<1>5. ASSUME NEW u \in Unit, BorrowSlot(u) PROVE SeatsHold'
  <2>1. /\ ParentUnit[u] \in Unit /\ unit[u] = "wait" /\ UNCHANGED use
        /\ HasPermit(ParentUnit[u]) /\ Starts(u, "borrowed", Own(u), seat[ParentUnit[u]])
    BY <1>5 DEF BorrowSlot, HasPermit, Node
  <2>2. seat[ParentUnit[u]] \in Seat /\ use[seat[ParentUnit[u]]] \in {"held", "draining"}
    BY <2>1, PermitIsTaken DEF CollTypes
  <2> QED BY <1>1, <2>1, <2>2
<1>6. ASSUME NEW u \in Unit, TakeSlot(u) PROVE SeatsHold'
  <2>1. /\ Own(u) \in Seat /\ unit[u] = "wait" /\ Starts(u, "own", Own(u), Own(u))
        /\ use' = [use EXCEPT ![Own(u)] = "held"]
    BY <1>6 DEF TakeSlot
  <2>2. use'[Own(u)] = "held"
    BY <2>1 DEF CollTypes
  <2> QED BY <1>1, <2>1, <2>2
<1>7. ASSUME NEW u \in Unit, UnitReturns(u) \/ UnitLeaves(u) \/ CancelUnit(u) PROVE SeatsHold'
  <2>1. unit[u] = "run" /\ unit' \in {[unit EXCEPT ![u] = "done"], [unit EXCEPT ![u] = "cancelled"]}
    BY <1>7 DEF UnitReturns, UnitLeaves, CancelUnit, Settles
  <2>2. Forgets(u)
    BY <1>7 DEF UnitReturns, UnitLeaves, CancelUnit, GiveBack, Abandon
  <2>3. \A w \in Unit \ {u} : unit'[w] = unit[w] /\ slotOf'[w] = slotOf[w] /\ seat'[w] = seat[w]
    BY <2>1, <2>2 DEF Forgets, CollTypes
  <2>4. unit'[u] # "run"
    BY <2>1 DEF CollTypes
  <2>5. slotOf[u] = "own" => seat[u] = Own(u)
    BY <2>1 DEF SeatsHold
  <2>6. UNCHANGED use \/ (slotOf[u] \in {"own", "extra"} /\ Vacate(seat[u]))
    BY <1>7, <2>5 DEF UnitReturns, UnitLeaves, CancelUnit, GiveBack, Abandon
  <2>7. seat[u] \in Seat /\ \A w \in Unit : seat[w] \in Seat
    BY DEF CollTypes
  <2>8. ASSUME NEW w \in Unit \ {u}, unit[w] = "run", slotOf[w] \in {"own", "extra"}
        PROVE  use'[seat[w]] = use[seat[w]]
    <3>1. CASE UNCHANGED use
      BY <3>1
    <3>2. CASE slotOf[u] \in {"own", "extra"} /\ Vacate(seat[u])
      <4>1. seat[w] # seat[u]
        BY <2>1, <2>8, <3>2 DEF SeatsHold, Extra
      <4> QED BY <2>7, <3>2, <4>1, VacatedSlot
    <3> QED BY <2>6, <3>1, <3>2
  <2>9. ASSUME NEW w \in Unit, Borrows(w) PROVE use'[seat[w]] \in {"held", "draining"}
    <3>1. use[seat[w]] \in {"held", "draining"}
      BY <2>9 DEF SeatsHold
    <3>2. CASE Vacate(seat[u])
      BY <2>7, <2>9, <3>1, <3>2, VacatedSlot
    <3> QED BY <2>6, <3>1, <3>2
  <2> QED BY <2>3, <2>4, <2>8, <2>9 DEF SeatsHold, Extra, Borrows
<1>8. ASSUME NEW n \in Node, OpenCollection(n) \/ InlineEnds(n) \/ CloseCollection(n) PROVE SeatsHold'
  BY <1>8 DEF OpenCollection, InlineEnds, CloseCollection, SeatsHold, Extra, Borrows
<1>9. ASSUME NEW s \in Seat, use[s] \in {"free", "fresh"}, \E x : use' = [use EXCEPT ![s] = x],
             UNCHANGED <<unit, slotOf, seat>>
      PROVE  SeatsHold'
  <2>1. \A t \in Seat : t # s => use'[t] = use[t]
    BY <1>9 DEF CollTypes
  <2>2. \A u \in Unit : seat[u] \in Seat
    BY DEF CollTypes
  <2> QED BY <1>9, <2>1, <2>2 DEF SeatsHold, Extra, Borrows
<1>10. ASSUME NEW n \in Node, AllocateWorker(n) PROVE SeatsHold'
  <2>1. toAlloc[n] \in 1..(TaskSlots - 1) /\ <<n, toAlloc[n]>> \in Seat
    BY <1>10 DEF AllocateWorker, CollTypes, Seat
  <2>2. use[<<n, toAlloc[n]>>] = "free"
    BY <2>1 DEF SlotsAddUp
  <2> QED BY <1>9, <1>10, <2>1, <2>2 DEF AllocateWorker
<1>11. ASSUME NEW s \in Seat, StartWorker(s) PROVE SeatsHold'
  BY <1>9, <1>11 DEF StartWorker
<1>12. ASSUME NEW s \in Seat, ExtraEnds(s) PROVE SeatsHold'
  <2>1. /\ s \in Workers(s[1]) /\ Idle(s) /\ Vacate(s) /\ UNCHANGED <<unit, slotOf, seat>>
    BY <1>12 DEF ExtraEnds
  <2>2. s[1] \in Node
    BY DEF Seat
  <2>3. \A u \in Unit : seat[u] \in Seat /\ Own(u) # s
    BY <2>1, <2>2 DEF CollTypes
  <2>4. \A u \in Unit : Extra(u) => seat[u] # s
    BY <2>1 DEF Idle
  <2> QED BY <2>1, <2>3, <2>4, VacatedSlot DEF SeatsHold, Extra, Borrows
<1>13. ASSUME NEW s \in Seat, ReleaseAfterBorrowers(s) PROVE SeatsHold'
  <2>1. \A t \in Seat : t # s => use'[t] = use[t]
    BY <1>13 DEF ReleaseAfterBorrowers, CollTypes
  <2>2. \A u \in Unit : seat[u] \in Seat
    BY DEF CollTypes
  <2> QED BY <1>13, <2>1, <2>2 DEF ReleaseAfterBorrowers, Borrowers, SeatsHold, Extra, Borrows
<1>14. ASSUME NEW n \in Node, Unwind(n) PROVE SeatsHold'
  <2>1. /\ UNCHANGED <<slotOf, seat>> /\ \A u \in Unit : unit'[u] = "run" <=> unit[u] = "run"
        /\ use' = [s \in Seat |-> IF s \in Freed(n) THEN "free"
                                  ELSE IF s \in Resting(n) THEN "draining" ELSE use[s]]
    BY <1>14 DEF Unwind, StopWorkers, CollTypes
  <2>2. \A u \in Unit : seat[u] \in Seat
    BY DEF CollTypes
  <2>3. ASSUME NEW u \in Unit, unit[u] = "run" /\ slotOf[u] \in {"own", "extra"}
        PROVE  use'[seat[u]] = use[seat[u]]
    <3>1. seat[u] \notin Resting(n) /\ seat[u] \notin {s \in Workers(n) : use[s] = "fresh"}
      BY <2>3 DEF Resting, Idle, Extra, SeatsHold
    <3> QED BY <2>1, <2>2, <3>1 DEF Freed
  <2>4. ASSUME NEW u \in Unit, Borrows(u)
        PROVE  use'[seat[u]] \in {"held", "draining"}
    <3>1. use[seat[u]] \in {"held", "draining"} /\ u \in Borrowers(seat[u])
      BY <2>4 DEF SeatsHold, Borrowers
    <3>2. seat[u] \notin Freed(n)
      BY <3>1 DEF Freed
    <3> QED BY <2>1, <2>2, <3>1, <3>2
  <2> QED BY <2>1, <2>3, <2>4 DEF SeatsHold, Extra, Borrows
<1>15. CASE UNCHANGED collVars
  BY <1>15 DEF collVars, SeatsHold, Extra, Borrows
<1> QED
  BY <1>2, <1>3, <1>4, <1>5, <1>6, <1>7, <1>8, <1>10, <1>11, <1>12, <1>13, <1>14, <1>15
     DEF CollectionsNext, CollectionsStep, UnitStep, CollStep, SlotStep, CancelCollection, CancelByScript

(* Every step keeps what a permit says of a slot.                           *)
LEMMA ViewsStayAgreed ==
    ASSUME CollTypes, UnitsHold, SeatsHold, ViewsAgree, [CollectionsNext]_collVars
    PROVE  ViewsAgree'
<1> USE CollFacts
<1> DEFINE Right(u) == view[u] # NoSeat =>
                          IF view[u][2] = 0
                          THEN /\ view[u][1] \in Unit /\ unit[view[u][1]] \notin {"new", "wait"}
                               /\ unit[view[u][1]] = "run" =>
                                     slotOf[view[u][1]] \in {"own", "borrowed"} /\ seat[view[u][1]] = seat[u]
                          ELSE seat[u] = view[u]
<1>0. ViewsAgree <=> \A u \in Unit : Right(u)
  BY DEF ViewsAgree
<1>0a. ViewsAgree' <=> \A u \in Unit : Right(u)'
  BY DEF ViewsAgree
<1>1. ASSUME UNCHANGED <<slotOf, view, seat>>,
             \A w \in Unit : unit[w] \notin {"new", "wait"} => unit'[w] = unit[w]
      PROVE  ViewsAgree'
  BY <1>0, <1>0a, <1>1
<1>2. ASSUME NEW u \in Unit, NEW way, NEW v \in Seat, NEW s \in Seat,
             unit[u] \in {"new", "wait"}, Starts(u, way, v, s),
             \/ v = Own(u) /\ way \in {"own", "borrowed"}
             \/ v = s /\ v[2] # 0
             \/ \E n \in Unit : v = view[n] /\ s = seat[n]
      PROVE  ViewsAgree'
  <2>1. \A w \in Unit \ {u} : /\ unit'[w] = unit[w] /\ slotOf'[w] = slotOf[w]
                              /\ seat'[w] = seat[w] /\ view'[w] = view[w]
    BY <1>2 DEF Starts, CollTypes
  <2>2. unit'[u] = "run" /\ slotOf'[u] = way /\ seat'[u] = s /\ view'[u] = v
    BY <1>2 DEF Starts, CollTypes
  <2>3. ASSUME NEW w \in Unit \ {u} PROVE Right(w)'
    <3>1. Right(w)
      BY <1>0
    <3>2. view[w] # NoSeat /\ view[w][2] = 0 => view[w][1] # u
      BY <1>2, <3>1
    <3> QED BY <2>1, <3>1, <3>2
  <2>4. Right(u)'
    <3>1. CASE v = Own(u) /\ way \in {"own", "borrowed"}
      BY <2>2, <3>1 DEF Own
    <3>2. CASE v = s /\ v[2] # 0
      BY <2>2, <3>2
    <3>3. ASSUME NEW n \in Unit, v = view[n], s = seat[n] PROVE Right(u)'
      <4>1. Right(n)
        BY <1>0
      <4>2. view[n] # NoSeat /\ view[n][2] = 0 => view[n][1] # u
        BY <1>2, <4>1
      <4> QED BY <2>1, <2>2, <3>3, <4>1, <4>2
    <3> QED BY <1>2, <3>1, <3>2, <3>3
  <2> QED BY <1>0a, <2>3, <2>4
<1>3. ASSUME NEW u \in Unit, PlainClaim(u) PROVE ViewsAgree'
  BY <1>1, <1>3 DEF PlainClaim, MayClaim, Waiting, Kids, CollTypes
<1>4. ASSUME NEW u \in Unit, InlineClaim(u) PROVE ViewsAgree'
  <2>1. ParentUnit[u] \in Unit /\ unit[u] = "new"
    BY <1>4 DEF InlineClaim, MayClaim, Waiting, Kids, UnitsHold, Node
  <2>2. view[ParentUnit[u]] \in Seat /\ seat[ParentUnit[u]] \in Seat
    BY <2>1 DEF CollTypes
  <2>3. CASE UNCHANGED <<slotOf, view, seat>> /\ unit' = [unit EXCEPT ![u] = "wait"]
    BY <1>1, <2>1, <2>3 DEF CollTypes
  <2>4. CASE Starts(u, "entered", view[ParentUnit[u]], seat[ParentUnit[u]])
    BY <1>2, <2>1, <2>2, <2>4
  <2>5. CASE Starts(u, "borrowed", Own(u), seat[ParentUnit[u]])
    BY <1>2, <2>1, <2>2, <2>5
  <2> QED BY <1>4, <2>3, <2>4, <2>5 DEF InlineClaim
<1>5. ASSUME NEW u \in Unit, ExtraClaim(u) PROVE ViewsAgree'
  <2>1. PICK s \in Workers(ParentUnit[u]) : Starts(u, "extra", s, s)
    BY <1>5 DEF ExtraClaim
  <2>2. s \in Seat /\ unit[u] = "new" /\ s[2] # 0
    BY <1>5, <2>1 DEF ExtraClaim, MayClaim, Waiting, Kids, Workers
  <2> QED BY <1>2, <2>1, <2>2
<1>6. ASSUME NEW u \in Unit, BorrowSlot(u) PROVE ViewsAgree'
  <2>1. /\ ParentUnit[u] \in Unit /\ unit[u] = "wait"
        /\ Starts(u, "borrowed", Own(u), seat[ParentUnit[u]])
    BY <1>6 DEF BorrowSlot, HasPermit, Node
  <2>2. seat[ParentUnit[u]] \in Seat /\ Own(u) \in Seat
    BY <2>1 DEF CollTypes
  <2> QED BY <1>2, <2>1, <2>2
<1>7. ASSUME NEW u \in Unit, TakeSlot(u) PROVE ViewsAgree'
  BY <1>2, <1>7 DEF TakeSlot
<1>8. ASSUME NEW u \in Unit, UnitReturns(u) \/ UnitLeaves(u) \/ CancelUnit(u) PROVE ViewsAgree'
  <2>1. unit[u] = "run" /\ unit' \in {[unit EXCEPT ![u] = "done"], [unit EXCEPT ![u] = "cancelled"]}
    BY <1>8 DEF UnitReturns, UnitLeaves, CancelUnit, Settles
  <2>2. Forgets(u)
    BY <1>8 DEF UnitReturns, UnitLeaves, CancelUnit, GiveBack, Abandon
  <2>3. \A w \in Unit \ {u} : /\ unit'[w] = unit[w] /\ slotOf'[w] = slotOf[w]
                              /\ seat'[w] = seat[w] /\ view'[w] = view[w]
    BY <2>1, <2>2 DEF Forgets, CollTypes
  <2>4. unit'[u] \in {"done", "cancelled"}
    BY <2>1 DEF CollTypes
  <2>5. view'[u] = NoSeat \/ (view'[u] = view[u] /\ seat'[u] = seat[u])
    BY <2>2 DEF Forgets, CollTypes
  <2>6. ASSUME NEW w \in Unit PROVE Right(w)'
    <3>1. Right(w)
      BY <1>0
    <3>2. view'[w] = NoSeat \/ (view'[w] = view[w] /\ seat'[w] = seat[w])
      BY <2>3, <2>5
    <3>3. CASE view[w] # NoSeat /\ view[w][2] = 0 /\ view[w][1] # u
      BY <2>3, <3>1, <3>2, <3>3
    <3>4. CASE view[w] # NoSeat /\ view[w][2] = 0 /\ view[w][1] = u
      BY <2>4, <3>2, <3>4
    <3>5. CASE view[w] = NoSeat \/ view[w][2] # 0
      BY <3>1, <3>2, <3>5
    <3> QED BY <3>3, <3>4, <3>5
  <2> QED BY <1>0a, <2>6
<1>9. ASSUME NEW n \in Node, CollStep(n) \/ Unwind(n) PROVE ViewsAgree'
  BY <1>1, <1>9
     DEF CollStep, OpenCollection, InlineEnds, AllocateWorker, CancelCollection, CloseCollection, Unwind,
         CollTypes
<1>10. ASSUME NEW s \in Seat, SlotStep(s) PROVE ViewsAgree'
  BY <1>1, <1>10 DEF SlotStep, StartWorker, ExtraEnds, ReleaseAfterBorrowers
<1>11. CASE UNCHANGED collVars
  BY <1>1, <1>11 DEF collVars
<1> QED
  BY <1>3, <1>4, <1>5, <1>6, <1>7, <1>8, <1>9, <1>10, <1>11
     DEF CollectionsNext, CollectionsStep, UnitStep, CancelByScript

(* How the slots that are taken count when one changes.                     *)
LEMMA OneSlotChanges ==
    ASSUME CollTypes, slots + Cardinality(Taken) = TaskSlots, NEW s \in Seat,
           NEW x, use' = [use EXCEPT ![s] = x],
           \/ use[s] = "free" /\ x # "free" /\ slots' = slots - 1
           \/ use[s] # "free" /\ x = "free" /\ slots' = slots + 1
           \/ use[s] # "free" /\ x # "free" /\ slots' = slots
    PROVE  (slots + Cardinality(Taken) = TaskSlots)'
<1>1. IsFiniteSet(Taken) /\ Cardinality(Taken) \in Nat
  BY CollSetsAreFinite, FS_Subset, FS_CardinalityType DEF Taken
<1>2. /\ use[s] = "free" /\ x # "free" => s \notin Taken /\ Taken' = Taken \cup {s}
      /\ use[s] # "free" /\ x = "free" => s \in Taken /\ Taken' = Taken \ {s}
      /\ use[s] # "free" /\ x # "free" => Taken' = Taken
  BY DEF Taken, CollTypes
<1>3. s \notin Taken => Cardinality(Taken \cup {s}) = Cardinality(Taken) + 1
  BY <1>1, FS_AddElement
<1>4. s \in Taken => Cardinality(Taken \ {s}) = Cardinality(Taken) - 1
  BY <1>1, FS_RemoveElement
<1>5. slots \in Nat
  BY DEF CollTypes
<1>6. CASE use[s] = "free" /\ x # "free" /\ slots' = slots - 1
  <2>1. Cardinality(Taken') = Cardinality(Taken) + 1
    BY <1>2, <1>3, <1>6
  <2> QED BY <1>1, <1>5, <1>6, <2>1, CollFacts
<1>7. CASE use[s] # "free" /\ x = "free" /\ slots' = slots + 1
  <2>1. Cardinality(Taken') = Cardinality(Taken) - 1
    BY <1>2, <1>4, <1>7
  <2> QED BY <1>1, <1>5, <1>7, <2>1, CollFacts
<1>8. CASE use[s] # "free" /\ x # "free" /\ slots' = slots
  BY <1>2, <1>8
<1> QED BY <1>6, <1>7, <1>8

(* Every step keeps the slots that were not made yet free, and the sum.     *)
LEMMA SlotsStayAdded ==
    ASSUME CollTypes, UnitsHold, SeatsHold, SlotsAddUp, [CollectionsNext]_collVars
    PROVE  SlotsAddUp'
<1> USE CollFacts
<1> DEFINE Early == /\ \A u \in Unit : unit[u] \in {"new", "wait"} => use[Own(u)] = "free"
                    /\ \A n \in Node : \A i \in 1..(TaskSlots - 1) :
                          coll[n] = "none" \/ i <= toAlloc[n] => use[<<n, i>>] = "free"
<1>0. /\ Early /\ slots + Cardinality(Taken) = TaskSlots
      /\ Early' /\ (slots + Cardinality(Taken) = TaskSlots)' => SlotsAddUp'
      /\ \A n \in Node : \A i \in 1..(TaskSlots - 1) : <<n, i>> \in Workers(n) /\ <<n, i>> \in Seat
  BY DEF SlotsAddUp, Workers, Seat
<1>1. ASSUME UNCHANGED use, \A u \in Unit : unit'[u] \in {"new", "wait"} => unit[u] \in {"new", "wait"},
             UNCHANGED <<coll, toAlloc, slots>>
      PROVE  SlotsAddUp'
  BY <1>0, <1>1 DEF Taken
<1>2. ASSUME NEW s \in Seat, NEW x, use' = [use EXCEPT ![s] = x],
             \/ use[s] # "free" /\ x = "free" /\ slots' = slots + 1
             \/ use[s] # "free" /\ x # "free" /\ slots' = slots,
             \A u \in Unit : unit'[u] \in {"new", "wait"} => unit[u] \in {"new", "wait"},
             UNCHANGED <<coll, toAlloc>>
      PROVE  SlotsAddUp'
  <2>1. (slots + Cardinality(Taken) = TaskSlots)'
    BY <1>0, <1>2, OneSlotChanges
  <2>2. \A t \in Seat : use[t] = "free" => use'[t] = "free"
    BY <1>2 DEF CollTypes
  <2>3. Early'
    BY <1>0, <1>2, <2>2
  <2> QED BY <1>0, <2>1, <2>3
<1>3. ASSUME NEW s \in Seat, use[s] # "free", Vacate(s),
             \A u \in Unit : unit'[u] \in {"new", "wait"} => unit[u] \in {"new", "wait"},
             UNCHANGED <<coll, toAlloc>>
      PROVE  SlotsAddUp'
  <2>1. CASE use' = [use EXCEPT ![s] = "draining"] /\ UNCHANGED slots
    BY <1>2, <1>3, <2>1
  <2>2. CASE use' = [use EXCEPT ![s] = "free"] /\ slots' = slots + 1
    BY <1>2, <1>3, <2>2
  <2> QED BY <1>3, <2>1, <2>2 DEF Vacate
<1>4. ASSUME NEW u \in Unit, PlainClaim(u) \/ InlineClaim(u) \/ ExtraClaim(u) \/ BorrowSlot(u)
      PROVE  SlotsAddUp'
  <2>1. unit[u] \in {"new", "wait"} /\ UNCHANGED <<use, coll, toAlloc, slots>>
    BY <1>4 DEF PlainClaim, InlineClaim, ExtraClaim, BorrowSlot, MayClaim, Waiting, Kids
  <2>2. unit' \in {[unit EXCEPT ![u] = "run"], [unit EXCEPT ![u] = "wait"]}
    BY <1>4 DEF PlainClaim, InlineClaim, ExtraClaim, BorrowSlot, Starts
  <2>3. \A w \in Unit : unit'[w] \in {"new", "wait"} => unit[w] \in {"new", "wait"}
    BY <2>1, <2>2 DEF CollTypes
  <2> QED BY <1>1, <2>1, <2>3
<1>5. ASSUME NEW u \in Unit, TakeSlot(u) PROVE SlotsAddUp'
  <2>1. /\ unit[u] = "wait" /\ unit' = [unit EXCEPT ![u] = "run"] /\ UNCHANGED <<coll, toAlloc>>
        /\ use' = [use EXCEPT ![Own(u)] = "held"] /\ slots' = slots - 1 /\ Own(u) \in Seat
    BY <1>5 DEF TakeSlot, Starts
  <2>2. use[Own(u)] = "free"
    BY <1>0, <2>1
  <2>3. (slots + Cardinality(Taken) = TaskSlots)'
    BY <1>0, <2>1, <2>2, OneSlotChanges
  <2>4. \A t \in Seat : t # Own(u) => use'[t] = use[t]
    BY <2>1 DEF CollTypes
  <2>5. \A w \in Unit : unit'[w] \in {"new", "wait"} => w # u /\ unit[w] \in {"new", "wait"}
    BY <2>1 DEF CollTypes
  <2>6. \A w \in Unit : unit'[w] \in {"new", "wait"} => use'[Own(w)] = "free"
    BY <1>0, <2>4, <2>5
  <2>7. \A n \in Node : \A i \in 1..(TaskSlots - 1) : use'[<<n, i>>] = use[<<n, i>>]
    <3>1. ASSUME NEW n \in Node, NEW i \in 1..(TaskSlots - 1) PROVE <<n, i>> # Own(u) /\ <<n, i>> \in Seat
      BY DEF Own, Seat
    <3> QED BY <2>4, <3>1
  <2> HIDE DEF Early
  <2>8. Early'
    BY <1>0, <2>1, <2>6, <2>7 DEF Early
  <2> QED BY <1>0, <2>3, <2>8
<1>6. ASSUME NEW u \in Unit, UnitReturns(u) \/ UnitLeaves(u) \/ CancelUnit(u) PROVE SlotsAddUp'
  <2>1. /\ unit[u] = "run" /\ unit' \in {[unit EXCEPT ![u] = "done"], [unit EXCEPT ![u] = "cancelled"]}
        /\ UNCHANGED <<coll, toAlloc>>
    BY <1>6 DEF UnitReturns, UnitLeaves, CancelUnit, Settles
  <2>2. \A w \in Unit : unit'[w] \in {"new", "wait"} => unit[w] \in {"new", "wait"}
    BY <2>1 DEF CollTypes
  <2>3. slotOf[u] = "own" => seat[u] = Own(u)
    BY <2>1 DEF SeatsHold
  <2>4. UNCHANGED <<use, slots>> \/ (slotOf[u] \in {"own", "extra"} /\ Vacate(seat[u]))
    BY <1>6, <2>3 DEF UnitReturns, UnitLeaves, CancelUnit, GiveBack, Abandon
  <2>5. seat[u] \in Seat /\ (slotOf[u] \in {"own", "extra"} => use[seat[u]] # "free")
    BY <2>1 DEF SeatsHold, Extra, CollTypes
  <2>6. CASE UNCHANGED <<use, slots>>
    BY <1>1, <2>1, <2>2, <2>6
  <2>7. CASE slotOf[u] \in {"own", "extra"} /\ Vacate(seat[u])
    BY <1>3, <2>1, <2>2, <2>5, <2>7
  <2> QED BY <2>4, <2>6, <2>7
<1>7. ASSUME NEW n \in Node, OpenCollection(n) PROVE SlotsAddUp'
  <2>1. /\ coll[n] = "none" /\ UNCHANGED <<unit, use, slots>>
        /\ \A m \in Node : m # n => coll'[m] = coll[m] /\ toAlloc'[m] = toAlloc[m]
    BY <1>7 DEF OpenCollection, CollTypes
  <2>2. Taken' = Taken
    BY <2>1 DEF Taken
  <2>3. Early'
    BY <1>0, <2>1
  <2> QED BY <1>0, <2>1, <2>2, <2>3
<1>8. ASSUME NEW n \in Node, InlineEnds(n) \/ CloseCollection(n) PROVE SlotsAddUp'
  <2>1. /\ coll[n] # "none" /\ UNCHANGED <<unit, use, slots>>
        /\ \A m \in Node : m # n => coll'[m] = coll[m] /\ toAlloc'[m] = toAlloc[m]
        /\ coll'[n] # "none" /\ toAlloc'[n] \in {0, toAlloc[n]}
    BY <1>8 DEF InlineEnds, CloseCollection, CollTypes
  <2>2. Taken' = Taken
    BY <2>1 DEF Taken
  <2>3. \A m \in Node : \A i \in 1..(TaskSlots - 1) :
           coll'[m] = "none" \/ i <= toAlloc'[m] => coll[m] = "none" \/ i <= toAlloc[m]
    BY <2>1
  <2>4. Early'
    BY <1>0, <2>1, <2>3
  <2> QED BY <1>0, <2>1, <2>2, <2>4
<1>9. ASSUME NEW n \in Node, AllocateWorker(n) PROVE SlotsAddUp'
  <2> DEFINE s == <<n, toAlloc[n]>>
  <2>1. /\ toAlloc[n] \in 1..(TaskSlots - 1) /\ s \in Seat /\ s \in Workers(n) /\ coll[n] = "open"
    BY <1>0, <1>9 DEF AllocateWorker, CollTypes
  <2>2. use[s] = "free"
    BY <1>0, <2>1
  <2>3. /\ use' = [use EXCEPT ![s] = "fresh"] /\ slots' = slots - 1 /\ UNCHANGED <<unit, coll>>
        /\ toAlloc' = [toAlloc EXCEPT ![n] = @ - 1]
    BY <1>9 DEF AllocateWorker
  <2>4. (slots + Cardinality(Taken) = TaskSlots)'
    BY <1>0, <2>1, <2>2, <2>3, OneSlotChanges
  <2>5. \A t \in Seat : t # s => use'[t] = use[t]
    BY <2>3 DEF CollTypes
  <2>6. \A u \in Unit : unit'[u] \in {"new", "wait"} => use'[Own(u)] = "free"
    BY <1>0, <2>1, <2>3, <2>5
  <2>7. ASSUME NEW m \in Node, NEW i \in 1..(TaskSlots - 1), coll'[m] = "none" \/ i <= toAlloc'[m]
        PROVE  use'[<<m, i>>] = "free"
    <3>1. toAlloc'[m] = (IF m = n THEN toAlloc[n] - 1 ELSE toAlloc[m]) /\ toAlloc[m] \in Nat
      BY <2>3 DEF CollTypes
    <3>2. (coll[m] = "none" \/ i <= toAlloc[m]) /\ (m # n \/ i # toAlloc[n])
      BY <2>1, <2>3, <2>7, <3>1
    <3>3. <<m, i>> # s
      BY <3>2
    <3> QED BY <1>0, <2>5, <3>2, <3>3
  <2> QED BY <1>0, <2>4, <2>6, <2>7
<1>10. ASSUME NEW n \in Node, Unwind(n) PROVE SlotsAddUp'
  <2>1. /\ coll[n] = "open" /\ coll' = [coll EXCEPT ![n] = "closing"] /\ toAlloc' = [toAlloc EXCEPT ![n] = 0]
        /\ use' = [s \in Seat |-> IF s \in Freed(n) THEN "free"
                                  ELSE IF s \in Resting(n) THEN "draining" ELSE use[s]]
        /\ slots' = slots + Cardinality(Freed(n))
        /\ \A u \in Unit : unit'[u] \in {"new", "wait"} => unit[u] \in {"new", "wait"}
    BY <1>10 DEF Unwind, StopWorkers, CollTypes
  <2>2. /\ Freed(n) \subseteq Taken /\ Resting(n) \subseteq Taken
    BY DEF Freed, Resting, Idle, Taken
  <2>3. Taken' = Taken \ Freed(n)
    BY <2>1, <2>2 DEF Taken
  <2>4. IsFiniteSet(Taken) /\ Cardinality(Taken) \in Nat /\ slots \in Nat
    BY CollSetsAreFinite, FS_Subset, FS_CardinalityType DEF Taken, CollTypes
  <2>5. Cardinality(Taken \ Freed(n)) = Cardinality(Taken) - Cardinality(Freed(n))
    <3>1. Taken \cap Freed(n) = Freed(n)
      BY <2>2
    <3>2. Cardinality(Taken \ Freed(n)) = Cardinality(Taken) - Cardinality(Taken \cap Freed(n))
      BY <2>4, FS_Difference
    <3> QED BY <3>1, <3>2
  <2>6. (slots + Cardinality(Taken) = TaskSlots)'
    <3>1. Cardinality(Taken') = Cardinality(Taken) - Cardinality(Freed(n)) /\ Cardinality(Freed(n)) \in Nat
      BY <2>3, <2>5, CollSetsAreFinite
    <3> QED BY <1>0, <2>1, <2>4, <3>1
  <2>7. \A t \in Seat : use[t] = "free" => use'[t] = "free"
    BY <2>1, <2>2 DEF Taken
  <2>8. \A m \in Node : \A i \in 1..(TaskSlots - 1) :
           coll'[m] = "none" \/ i <= toAlloc'[m] => coll[m] = "none" \/ i <= toAlloc[m]
    BY <2>1 DEF CollTypes
  <2>9. \A u \in Unit : unit'[u] \in {"new", "wait"} => use'[Own(u)] = "free"
    BY <1>0, <2>1, <2>7
  <2>10. \A m \in Node : \A i \in 1..(TaskSlots - 1) :
            coll'[m] = "none" \/ i <= toAlloc'[m] => use'[<<m, i>>] = "free"
    BY <1>0, <2>7, <2>8
  <2> QED BY <1>0, <2>6, <2>9, <2>10
<1>11. ASSUME NEW s \in Seat, StartWorker(s) \/ ReleaseAfterBorrowers(s) PROVE SlotsAddUp'
  BY <1>2, <1>11 DEF StartWorker, ReleaseAfterBorrowers
<1>12. ASSUME NEW s \in Seat, ExtraEnds(s) PROVE SlotsAddUp'
  BY <1>3, <1>12 DEF ExtraEnds, Idle
<1>13. CASE UNCHANGED collVars
  BY <1>1, <1>13 DEF collVars
<1> QED
  BY <1>4, <1>5, <1>6, <1>7, <1>8, <1>9, <1>10, <1>11, <1>12, <1>13
     DEF CollectionsNext, CollectionsStep, UnitStep, CollStep, SlotStep, CancelCollection, CancelByScript

(* A run of the collections starts with every slot free.                    *)
LEMMA CollectionsStart == CollectionsInit => CollectionsInv
<1> SUFFICES ASSUME CollectionsInit PROVE CollectionsInv
  OBVIOUS
<1>1. CollTypes
  BY CollFacts DEF CollectionsInit, CollTypes
<1>2. UnitsHold /\ SeatsHold /\ ViewsAgree
  BY CollFacts DEF CollectionsInit, UnitsHold, Inlined, SeatsHold, Extra, Borrows, ViewsAgree
<1>3. SlotsAddUp
  <2>1. Taken = {}
    BY DEF CollectionsInit, Taken
  <2>2. \A n \in Node : \A i \in 1..(TaskSlots - 1) : use[<<n, i>>] = "free"
    BY CollFacts DEF CollectionsInit, Seat
  <2>3. \A u \in Unit : use[Own(u)] = "free"
    BY CollFacts DEF CollectionsInit
  <2> QED BY <2>1, <2>2, <2>3, FS_EmptySet, CollFacts DEF CollectionsInit, SlotsAddUp
<1> QED BY <1>1, <1>2, <1>3 DEF CollectionsInv

(* Every step keeps the invariant.                                          *)
LEMMA CollectionsKept == CollectionsInv /\ [CollectionsNext]_collVars => CollectionsInv'
BY CollTypesKept, UnitsStayHeld, SeatsStayHeld, ViewsStayAgreed, SlotsStayAdded DEF CollectionsInv

(* The units that took a slot of their own, and have it.                    *)
Roots == {u \in Unit : unit[u] = "run" /\ slotOf[u] \in {"own", "extra"}}
Held  == {s \in Seat : use[s] = "held"}

LEMMA RootsHaveSlots ==
    ASSUME CollTypes, SeatsHold
    PROVE  /\ IsFiniteSet(Roots) /\ Cardinality(Roots) \in Nat
           /\ IsFiniteSet(Taken) /\ Cardinality(Taken) \in Nat
           /\ Cardinality(Draining) \in Nat
           /\ Cardinality(Roots) + Cardinality(Draining) <= Cardinality(Taken)
<1> DEFINE place == [u \in Roots |-> seat[u]]
<1>1. /\ IsFiniteSet(Roots) /\ Cardinality(Roots) \in Nat
      /\ IsFiniteSet(Held) /\ Cardinality(Held) \in Nat
      /\ IsFiniteSet(Draining) /\ Cardinality(Draining) \in Nat
      /\ IsFiniteSet(Taken) /\ Cardinality(Taken) \in Nat
  <2>1. Roots \subseteq Unit /\ Held \subseteq Seat /\ Draining \subseteq Seat /\ Taken \subseteq Seat
    BY DEF Roots, Held, Draining, Taken
  <2> QED BY <2>1, CollectionsAssumption, CollSetsAreFinite, FS_Subset, FS_CardinalityType
<1>2. Cardinality(Roots) <= Cardinality(Held)
  <2>1. ASSUME NEW u \in Roots PROVE seat[u] \in Held
    BY DEF Roots, Held, SeatsHold, Extra, CollTypes
  <2>2. ASSUME NEW u \in Roots, NEW v \in Roots, seat[u] = seat[v] PROVE u = v
    <3>1. slotOf[u] = slotOf[v]
      BY <2>2, CollFacts DEF Roots, SeatsHold, Extra
    <3> QED BY <2>2, <3>1, CollFacts DEF Roots, SeatsHold, Extra
  <2>3. place \in [Roots -> Held] /\ \A u, v \in Roots : place[u] = place[v] => u = v
    BY <2>1, <2>2
  <2>4. place \in Injection(Roots, Held)
    BY <2>3 DEF Injection, IsInjective
  <2> HIDE DEF place
  <2> QED BY <1>1, <2>4, FS_Injection
<1>3. Cardinality(Held) + Cardinality(Draining) <= Cardinality(Taken)
  <2>1. Held \cap Draining = {} /\ Held \cup Draining \subseteq Taken
    BY DEF Held, Draining, Taken
  <2>2. Cardinality(Held \cup Draining) = Cardinality(Held) + Cardinality(Draining)
    <3>1. Cardinality(Held \cup Draining)
             = Cardinality(Held) + Cardinality(Draining) - Cardinality(Held \cap Draining)
      BY <1>1, FS_Union
    <3>2. Cardinality(Held \cap Draining) = 0
      BY <2>1, FS_EmptySet
    <3> QED BY <1>1, <3>1, <3>2
  <2>3. Cardinality(Held \cup Draining) <= Cardinality(Taken)
    BY <1>1, <2>1, FS_Subset
  <2> QED BY <2>2, <2>3
<1> QED BY <1>1, <1>2, <1>3

(* The size of two sets together.                                           *)
LEMMA TwoSets ==
    ASSUME NEW S, NEW T, IsFiniteSet(S), IsFiniteSet(T)
    PROVE  /\ IsFiniteSet(S \cup T) /\ Cardinality(S \cup T) \in Nat
           /\ Cardinality(S) \in Nat /\ Cardinality(T) \in Nat
           /\ Cardinality(S \cup T) <= Cardinality(S) + Cardinality(T)
<1>1. /\ IsFiniteSet(S \cup T)
      /\ Cardinality(S \cup T) = Cardinality(S) + Cardinality(T) - Cardinality(S \cap T)
  BY FS_Union
<1>2. /\ Cardinality(S) \in Nat /\ Cardinality(T) \in Nat /\ Cardinality(S \cap T) \in Nat
      /\ Cardinality(S \cup T) \in Nat
  BY <1>1, FS_Intersection, FS_CardinalityType
<1> QED BY <1>1, <1>2

(* Who borrows a slot works in place of the unit that waits for it, unless  *)
(* it is loose.                                                             *)
LEMMA WorkersHaveSlots ==
    ASSUME CollTypes, UnitsHold, SeatsHold
    PROVE  /\ Cardinality({u \in Unit : Working(u)}) \in Nat
           /\ Cardinality(Loose) \in Nat
           /\ Cardinality({u \in Unit : Working(u)}) <= Cardinality(Roots) + Cardinality(Loose)
<1> DEFINE W == {u \in Unit : Working(u)}
           Tied == {u \in Unit : /\ unit[u] = "run" /\ slotOf[u] \in {"borrowed", "entered"}
                                 /\ ParentUnit[u] \notin Background}
           P == {ParentUnit[u] : u \in Tied}
           lender == [u \in Tied |-> ParentUnit[u]]
           All == (Roots \cup Loose) \cup Tied
<1>1. ASSUME NEW u \in Tied
      PROVE  /\ ParentUnit[u] \in Unit /\ unit[ParentUnit[u]] = "run" /\ Inlined(u)
             /\ ~Working(ParentUnit[u])
  <2>1. ParentUnit[u] \in Unit
    BY CollFacts DEF UnitsHold, Node
  <2>2. coll[ParentUnit[u]] \in {"open", "closing"}
    BY DEF UnitsHold
  <2>3. unit[ParentUnit[u]] = "run"
    BY <2>1, <2>2 DEF UnitsHold
  <2>4. Inlined(u)
    BY DEF Inlined, UnitsHold
  <2> QED BY <2>1, <2>2, <2>3, <2>4 DEF Working
<1>2. ASSUME NEW u \in Unit, unit[u] = "run" PROVE u \in All
  <2>1. slotOf[u] \in {"own", "extra", "borrowed", "entered"}
    BY <1>2 DEF UnitsHold, CollTypes
  <2>2. CASE slotOf[u] \in {"own", "extra"}
    BY <1>2, <2>2 DEF Roots
  <2>3. CASE slotOf[u] \in {"borrowed", "entered"}
    BY <1>2, <2>3 DEF Loose, Borrows, UnitsHold
  <2> QED BY <2>1, <2>2, <2>3
<1>3. W \subseteq All \ P /\ P \subseteq All /\ P \subseteq Unit
  <2>1. W \subseteq All
    BY <1>2 DEF Working
  <2> QED BY <1>1, <1>2, <2>1
<1>4. /\ IsFiniteSet(Tied) /\ Cardinality(Tied) \in Nat /\ IsFiniteSet(W) /\ Cardinality(W) \in Nat
      /\ IsFiniteSet(P) /\ Cardinality(P) \in Nat /\ IsFiniteSet(Loose) /\ Cardinality(Loose) \in Nat
      /\ IsFiniteSet(Roots) /\ Cardinality(Roots) \in Nat
  <2>1. Tied \subseteq Unit /\ W \subseteq Unit /\ P \subseteq Unit /\ Loose \subseteq Unit /\ Roots \subseteq Unit
    BY <1>3 DEF Loose, Roots
  <2> QED BY <2>1, CollectionsAssumption, FS_Subset, FS_CardinalityType
<1>5. Cardinality(Tied) <= Cardinality(P)
  <2>1. lender \in [Tied -> P] /\ \A u, v \in Tied : lender[u] = lender[v] => u = v
    BY <1>1 DEF UnitsHold
  <2>2. lender \in Injection(Tied, P)
    BY <2>1 DEF Injection, IsInjective
  <2> HIDE DEF Tied, P, lender
  <2> QED BY <1>4, <2>2, FS_Injection
<1> HIDE DEF W, Tied, P, lender
<1>6. IsFiniteSet(Roots \cup Loose) /\ Cardinality(Roots \cup Loose) <= Cardinality(Roots) + Cardinality(Loose)
      /\ Cardinality(Roots \cup Loose) \in Nat
  BY <1>4, TwoSets
<1>7. IsFiniteSet(All) /\ Cardinality(All) <= Cardinality(Roots \cup Loose) + Cardinality(Tied)
      /\ Cardinality(All) \in Nat
  BY <1>4, <1>6, TwoSets
<1> HIDE DEF All
<1>8. Cardinality(All \ P) = Cardinality(All) - Cardinality(P) /\ IsFiniteSet(All \ P)
  <2>1. All \cap P = P
    BY <1>3
  <2>2. Cardinality(All \ P) = Cardinality(All) - Cardinality(All \cap P) /\ IsFiniteSet(All \ P)
    BY <1>7, FS_Difference
  <2> QED BY <2>1, <2>2
<1>9. Cardinality(W) <= Cardinality(All \ P)
  BY <1>3, <1>8, FS_Subset
<1>10. Cardinality(W) <= Cardinality(Roots) + Cardinality(Loose)
  BY <1>4, <1>5, <1>6, <1>7, <1>8, <1>9
<1> QED BY <1>4, <1>10 DEF W

(* However collections nest, borrow and outlive their unit, the units at    *)
(* work outnumber task_concurrency only by the loose ones, every slot of    *)
(* the task semaphore is accounted for, none is given back while a unit     *)
(* works on it, and a collection that has returned or raised leaves no unit *)
(* of its own running (_bounded_collection, _run_with_task_concurrency_     *)
(* permit, release_unstarted).                                              *)
THEOREM CollectionsStaySound == CollectionsSpec => []CollectionsAreSound
<1>1. CollectionsInv => CollectionsAreSound
  <2> SUFFICES ASSUME CollectionsInv PROVE CollectionsAreSound
    OBVIOUS
  <2>0. CollTypes /\ UnitsHold /\ SeatsHold /\ SlotsAddUp
    BY DEF CollectionsInv
  <2>1. NoUnitOutlivesCollection
    <3>1. ASSUME NEW n \in Node, coll[n] = "closed", NEW u \in Live(n) PROVE FALSE
      BY <2>0, <3>1 DEF Live, Kids, UnitsHold
    <3>2. \A u \in Unit \ Background : coll[u] \in {"open", "closing"} => unit[u] = "run"
      BY <2>0 DEF UnitsHold
    <3> QED BY <3>1, <3>2 DEF NoUnitOutlivesCollection
  <2>2. SlotsAreKept
    <3>1. /\ Cardinality({u \in Unit : Working(u)}) <= Cardinality(Roots) + Cardinality(Loose)
          /\ Cardinality({u \in Unit : Working(u)}) \in Nat /\ Cardinality(Loose) \in Nat
      BY <2>0, WorkersHaveSlots
    <3>2. slots + Cardinality(Taken) = TaskSlots /\ slots \in Nat
      BY <2>0 DEF SlotsAddUp, CollTypes
    <3>3. /\ Cardinality(Roots) \in Nat /\ Cardinality(Draining) \in Nat /\ Cardinality(Taken) \in Nat
          /\ Cardinality(Roots) + Cardinality(Draining) <= Cardinality(Taken)
      BY <2>0, RootsHaveSlots
    <3>4. Cardinality({u \in Unit : Working(u)}) + Cardinality(Draining) <= TaskSlots + Cardinality(Loose)
      BY <3>1, <3>2, <3>3, CollFacts
    <3>5. ASSUME NEW u \in Unit, unit[u] = "run", slotOf[u] # "entered" PROVE use[seat[u]] # "free"
      <4>1. slotOf[u] \in {"own", "extra", "borrowed"}
        BY <2>0, <3>5 DEF CollTypes, UnitsHold
      <4> QED BY <2>0, <3>5, <4>1 DEF SeatsHold, Extra, Borrows
    <3> QED BY <3>2, <3>4, <3>5 DEF SlotsAreKept
  <2> QED BY <2>1, <2>2 DEF CollectionsAreSound
<1> QED BY CollectionsStart, CollectionsKept, <1>1, PTL DEF CollectionsSpec
-----------------------------------------------------------------------------
(* The calls of a script                                                    *)

(* What a script is.                                                        *)
LEMMA ScriptFacts ==
    ASSUME WorkflowTypeOK
    PROVE  /\ IsFiniteSet(Call) /\ Root \notin Call /\ Over \subseteq Call
           /\ kind \in [Call -> CallKind] /\ Owner \in [Call -> Call \cup {Root}]
           /\ \A c \in Call :
                /\ Owner[c] # Root => Owner[c] \in Call /\ Owner[Owner[c]] = Root /\ kind[c] # "flow"
                /\ Owner[c] # Root /\ kind[c] # "unused" => kind[Owner[c]] = "flow"
                /\ c \in Over => kind[c] \in {"agent", "structured", "enforced", "unused"}
           /\ Cap \in [Call -> Nat] /\ PoolTotal \in Nat /\ Permits \in Nat \ {0}
           /\ MaxCost \in Nat \ {0} /\ Escape \in Nat
<1>1. /\ kind \in Script /\ Script \subseteq [Call -> CallKind]
      /\ \A c \in Call : 
           /\ Owner[c] # Root => Owner[Owner[c]] = Root /\ kind[c] # "flow"
           /\ Owner[c] # Root /\ kind[c] # "unused" => kind[Owner[c]] = "flow"
           /\ c \in Over => kind[c] \in {"agent", "structured", "enforced", "unused"}
  BY WorkflowAssumption DEF WorkflowTypeOK
<1>2. \A c \in Call : Owner[c] \in Call \cup {Root}
  BY WorkflowAssumption
<1> QED BY <1>1, <1>2, WorkflowAssumption

(* Sums over calls are natural numbers.                                     *)
CallNumbers ==
    /\ \A b \in Call \cup {Root} : /\ Spent(b) \in Nat /\ Reserved(b) \in Nat
                                   /\ PoolRemaining(b) \in Int
                                   /\ FlowBooks(b) \in Nat /\ IsFiniteSet(Children(b))
                                   /\ Children(b) \subseteq Call
    /\ \A c \in Call : /\ LeaseLeft(c) \in Nat /\ Reserve(c) \in Nat /\ Available(c) \in Nat
                       /\ Booked(c) \in Nat /\ Claim(c) \in Nat /\ Overrun(c) \in Nat

LEMMA NumbersOfCalls == WorkflowTypeOK => CallNumbers
<1> SUFFICES ASSUME WorkflowTypeOK PROVE CallNumbers
  OBVIOUS
<1>0. /\ IsFiniteSet(Call) /\ Root \notin Call /\ Owner \in [Call -> Call \cup {Root}]
      /\ PoolTotal \in Nat
  BY ScriptFacts
<1>1. /\ used \in [Call -> Nat] /\ grant \in [Call -> Nat] /\ held \in [Call -> BOOLEAN]
  BY DEF WorkflowTypeOK
<1>2. \A b \in Call \cup {Root} : Children(b) \subseteq Call /\ IsFiniteSet(Children(b))
  BY <1>0, FS_Subset DEF Children
<1>3. ASSUME NEW b \in Call \cup {Root} PROVE Spent(b) \in Nat
  <2>1. \A x \in Call : used[x] \in Nat
    BY <1>1
  <2>2. \A x \in Children(b) : used[x] \in Nat
    BY <1>2, <2>1
  <2>3. SumFunctionOnSet(used, Call) \in Nat /\ SumFunctionOnSet(used, Children(b)) \in Nat
    BY <1>0, <1>2, <2>1, <2>2, SumIsNat
  <2> QED BY <2>3 DEF Spent
<1>4. \A c \in Call : LeaseLeft(c) \in Nat /\ Reserve(c) \in Nat
  BY <1>1, <1>3 DEF LeaseLeft, Reserve, High
<1>5. ASSUME NEW b \in Call \cup {Root} PROVE Reserved(b) \in Nat
  <2> DEFINE w == [c \in Call |-> Reserve(c)]
  <2>1. \A x \in Children(b) : w[x] \in Nat
    BY <1>2, <1>4
  <2> HIDE DEF w
  <2>2. SumFunctionOnSet(w, Children(b)) \in Nat
    BY <1>2, <2>1, SumIsNat
  <2> QED BY <2>2 DEF w, Reserved
<1>6. \A b \in Call \cup {Root} : PoolRemaining(b) \in Int
  BY <1>0, <1>1, <1>3, <1>4, <1>5 DEF PoolRemaining, RootRemaining, Low
<1>7. \A c \in Call : Available(c) \in Nat
  BY <1>0, <1>6 DEF Available, High
<1>8. \A c \in Call : Booked(c) \in Nat /\ Overrun(c) \in Nat
  BY <1>1 DEF Booked, Overrun, Low, High
<1>9. ASSUME NEW b \in Call \cup {Root} PROVE FlowBooks(b) \in Nat
  <2> DEFINE w == [c \in Call |-> Booked(c)]
  <2>1. \A x \in Children(b) : w[x] \in Nat
    BY <1>2, <1>8
  <2> HIDE DEF w
  <2>2. SumFunctionOnSet(w, Children(b)) \in Nat
    BY <1>2, <2>1, SumIsNat
  <2> QED BY <2>2 DEF w, FlowBooks
<1>10. \A c \in Call : Claim(c) \in Nat
  BY <1>8, <1>9 DEF Claim
<1> QED BY <1>2, <1>3, <1>4, <1>5, <1>6, <1>7, <1>8, <1>9, <1>10 DEF CallNumbers

LEMMA NumbersAfter == WorkflowTypeOK' => CallNumbers'
BY NumbersOfCalls, PTL

(* A share is within what is available.                                     *)
LEMMA SharesFit ==
    ASSUME WorkflowTypeOK, NEW c \in Call, Available(c) > 0, NEW share \in Shares(c)
    PROVE  share \in Nat /\ share <= Available(c)
<1>1. Available(c) \in Nat /\ Cap[c] \in Nat
  BY NumbersOfCalls, ScriptFacts DEF CallNumbers
<1>2. Waiters(Owner[c]) \in Nat
  <2>1. IsFiniteSet({d \in Children(Owner[c]) : stage[d] = "ask"})
    BY ScriptFacts, FS_Subset DEF Children
  <2> QED BY <2>1, FS_CardinalityType DEF Waiters
<1>3. \A m, n \in Nat : n > 0 => m \div n \in Nat /\ m \div n <= m
  <2> SUFFICES ASSUME NEW m \in Nat, NEW n \in Nat, n > 0 PROVE m \div n \in Nat /\ m \div n <= m
    OBVIOUS
  <2>1. m \div n \in Int /\ n * (m \div n) <= m /\ m \div n >= 0
    OBVIOUS
  <2> DEFINE q == m \div n
  <2>2. q \in Nat /\ n * q <= m
    BY <2>1
  <2> HIDE DEF q
  <2>3. q <= n * q
    BY <2>2
  <2> QED BY <2>2, <2>3 DEF q
<1>4. High(1, Waiters(Owner[c])) \in Nat /\ High(1, Waiters(Owner[c])) > 0
  BY <1>2 DEF High
<1>5. \A p \in 0 .. PoolTotal : Low(p, Available(c)) \in Nat /\ Low(p, Available(c)) <= Available(c)
  BY <1>1, ScriptFacts DEF Low
<1>6. LET q == Available(c) \div High(1, Waiters(Owner[c]))
      IN  High(1, q) \in Nat /\ High(1, q) <= Available(c)
  BY <1>1, <1>3, <1>4 DEF High
<1>7. Low(Cap[c], Available(c)) \in Nat /\ Low(Cap[c], Available(c)) <= Available(c)
  BY <1>1 DEF Low
<1> QED BY <1>5, <1>6, <1>7 DEF Shares
(* What a call leaves behind.                                               *)
LEMMA LeaveKeepsTypes ==
    ASSUME WorkflowTypeOK, NEW c \in Call, NEW why \in Outcome, Leave(c, why)
    PROVE  /\ stage' \in [Call -> Stage] /\ outcome' \in [Call -> Outcome]
           /\ held' \in [Call -> BOOLEAN] /\ permit' \in [Call -> BOOLEAN]
BY DEF WorkflowTypeOK, Leave, Stage

(* ... and how.                                                             *)
LEMMA LeaveFacts ==
    ASSUME WorkflowTypeOK, NEW c \in Call, NEW why, Leave(c, why)
    PROVE  /\ stage'[c] = "done"
           /\ held'[c] = (held[c] /\ task'[c] \in {"draining", "late"})
           /\ permit'[c] = (permit[c] /\ task'[c] \in {"draining", "late"})
           /\ \A x \in Call \ {c} : /\ stage'[x] = stage[x] /\ held'[x] = held[x]
                                    /\ permit'[x] = permit[x]
BY DEF WorkflowTypeOK, Leave

(* The steps of a script, one call at a time.                               *)
CallStep(c) ==
    \/ Begin(c) \/ BeginDraft(c) \/ Acquire(c) \/ Session(c) \/ CancelCall(c)
    \/ ReleaseAfterTasks(c) \/ FlowEnds(c) \/ FlowCancelled(c)

(* A call keeps the types.                                                   *)
LEMMA CallTypesKept ==
    ASSUME WorkflowTypeOK, SessionsHold, NEW c \in Call, CallStep(c)
    PROVE  WorkflowTypeOK'
<1>10. ASSUME Begin(c) PROVE WorkflowTypeOK'
  BY <1>10, ScriptFacts DEF Begin, Callable, WorkflowTypeOK, Stage, Task, Outcome
<1>11. ASSUME BeginDraft(c) PROVE WorkflowTypeOK'
  BY <1>11, ScriptFacts DEF BeginDraft, Callable, WorkflowTypeOK, Stage, Task, Outcome
<1>12. ASSUME AcquireEscape(c) PROVE WorkflowTypeOK'
  BY <1>12, ScriptFacts DEF AcquireEscape, AfterLease, WorkflowTypeOK, Stage, Task, Outcome
<1>13. ASSUME AcquireLease(c) PROVE WorkflowTypeOK'
  BY <1>13, ScriptFacts, SharesFit DEF AcquireLease, AfterLease, WorkflowTypeOK, Stage, Task, Outcome
<1>14. ASSUME RefuseLease(c) PROVE WorkflowTypeOK'
  BY <1>14, ScriptFacts DEF RefuseLease, Leave, WorkflowTypeOK, Stage, Task, Outcome
<1>15. ASSUME TakePermit(c) PROVE WorkflowTypeOK'
  BY <1>15, ScriptFacts DEF TakePermit, WorkflowTypeOK, Stage, Task, Outcome
<1>16. ASSUME EnterRevoked(c) PROVE WorkflowTypeOK'
  BY <1>16, ScriptFacts DEF EnterRevoked, Leave, WorkflowTypeOK, Stage, Task, Outcome
<1>17. ASSUME Enter(c) PROVE WorkflowTypeOK'
  <2> DEFINE left == High(0, PoolRemaining(Owner[c]) + LeaseLeft(c))
  <2>1. left \in Nat
    BY ScriptFacts, NumbersOfCalls DEF CallNumbers, High
  <2>2. /\ stage' \in [Call -> Stage] /\ held' \in [Call -> BOOLEAN]
        /\ \/ grant' = grant
           \/ grant' = [grant EXCEPT ![c] = Low(@, left)]
    BY <1>17 DEF Enter, WorkflowTypeOK, Stage
  <2> HIDE DEF left
  <2>3. grant' \in [Call -> Nat]
    BY <2>1, <2>2 DEF WorkflowTypeOK, Low
  <2> QED BY <1>17, <2>2, <2>3 DEF Enter, WorkflowTypeOK
<1>18. ASSUME Build(c) PROVE WorkflowTypeOK'
  BY <1>18, ScriptFacts DEF Build, WorkflowTypeOK, Stage, Task, Outcome, SessionsHold, SessionHolds
<1>19. ASSUME BuildFails(c) PROVE WorkflowTypeOK'
  BY <1>19, ScriptFacts DEF BuildFails, Leave, WorkflowTypeOK, Stage, Task, Outcome
<1>20. ASSUME ModelCall(c) PROVE WorkflowTypeOK'
  BY <1>20, ScriptFacts DEF ModelCall, WorkflowTypeOK, Stage, Task, Outcome
<1>21. ASSUME Capture(c) PROVE WorkflowTypeOK'
  BY <1>21, ScriptFacts DEF Capture, WorkflowTypeOK, Stage, Task, Outcome
<1>22. ASSUME TurnEnds(c) PROVE WorkflowTypeOK'
  <2>1. task' \in [Call -> Task]
    BY <1>22 DEF TurnEnds, WorkflowTypeOK, Task
  <2>2. CASE \E why \in Outcome : Leave(c, why)
    BY <1>22, <2>1, <2>2, LeaveKeepsTypes DEF TurnEnds, WorkflowTypeOK
  <2>3. CASE /\ stage' = [stage EXCEPT ![c] = IF kind[c] = "run" THEN "settle" ELSE "after"]
             /\ UNCHANGED <<held, permit, outcome>>
    BY <1>22, <2>1, <2>3 DEF TurnEnds, WorkflowTypeOK, Stage
  <2> QED BY <1>22, <2>2, <2>3 DEF TurnEnds, Answers, Outcome
<1>23. ASSUME TurnTimesOut(c) PROVE WorkflowTypeOK'
  <2>1. task' \in [Call -> Task]
    BY <1>23 DEF TurnTimesOut, Interrupted, WorkflowTypeOK, Task
  <2>2. CASE Leave(c, "null")
    BY <1>23, <2>1, <2>2, LeaveKeepsTypes DEF TurnTimesOut, WorkflowTypeOK, Outcome
  <2>3. CASE /\ stage' = [stage EXCEPT ![c] = IF kind[c] = "run" THEN "settle" ELSE "after"]
             /\ UNCHANGED <<held, permit, outcome>>
    BY <1>23, <2>1, <2>3 DEF TurnTimesOut, WorkflowTypeOK, Stage
  <2> QED BY <1>23, <2>2, <2>3 DEF TurnTimesOut
<1>24. ASSUME Conclude(c) PROVE WorkflowTypeOK'
  BY <1>24, ScriptFacts DEF Conclude, Leave, WorkflowTypeOK, Stage, Task, Outcome, Answers
<1>25. ASSUME Correct(c) PROVE WorkflowTypeOK'
  BY <1>25, ScriptFacts DEF Correct, MayCorrect, WorkflowTypeOK, Stage, Task, Outcome, SessionsHold, SessionHolds
<1>26. ASSUME Settle(c) PROVE WorkflowTypeOK'
  <2>1. unsafe' \subseteq Call \cup {Root}
    BY <1>26, ScriptFacts DEF Settle, WorkflowTypeOK
  <2>2. \E why \in Outcome : Leave(c, why)
    BY <1>26 DEF Settle, Outcome
  <2> QED BY <1>26, <2>1, <2>2, LeaveKeepsTypes DEF Settle, WorkflowTypeOK
<1>27. ASSUME CancelCall(c) PROVE WorkflowTypeOK'
  BY <1>27, ScriptFacts DEF CancelCall, Leave, Interrupted, WorkflowTypeOK, Stage, Task, Outcome
<1>28. ASSUME ReleaseAfterTasks(c) PROVE WorkflowTypeOK'
  BY <1>28, ScriptFacts DEF ReleaseAfterTasks, WorkflowTypeOK, Stage, Task, Outcome
<1>29. ASSUME DrainEnds(c) PROVE WorkflowTypeOK'
  BY <1>29, ScriptFacts DEF DrainEnds, WorkflowTypeOK, Stage, Task, Outcome
<1>30. ASSUME LateUsage(c) PROVE WorkflowTypeOK'
  BY <1>30, ScriptFacts DEF LateUsage, WorkflowTypeOK, Stage, Task, Outcome
<1>31. ASSUME FlowEnds(c) PROVE WorkflowTypeOK'
  BY <1>31, ScriptFacts DEF FlowEnds, Leave, WorkflowTypeOK, Stage, Task, Outcome
<1>32. ASSUME FlowCancelled(c) PROVE WorkflowTypeOK'
  BY <1>32, ScriptFacts DEF FlowCancelled, WorkflowTypeOK, Stage, Task, Outcome
<1> QED
  BY <1>10, <1>11, <1>12, <1>13, <1>14, <1>15, <1>16, <1>17, <1>18, <1>19, <1>20, <1>21, <1>22, <1>23, <1>24, <1>25, <1>26, <1>27, <1>28, <1>29, <1>30, <1>31, <1>32
     DEF CallStep, Acquire, Session

(* Sessions keep their permits and leases.                                   *)
LEMMA SessionsStayHeld ==
    ASSUME WorkflowTypeOK, SessionsHold, FlowsHold, NEW c \in Call, CallStep(c)
    PROVE  SessionsHold'
<1>10. ASSUME Begin(c) PROVE SessionsHold'
  BY <1>10, ScriptFacts DEF Begin, Callable, WorkflowTypeOK, SessionsHold, SessionHolds, FlowsHold, FlowHolds, CallIsOver
<1>11. ASSUME BeginDraft(c) PROVE SessionsHold'
  BY <1>11, ScriptFacts DEF BeginDraft, Callable, WorkflowTypeOK, SessionsHold, SessionHolds, FlowsHold, FlowHolds, CallIsOver
<1>12. ASSUME AcquireEscape(c) PROVE SessionsHold'
  BY <1>12, ScriptFacts DEF AcquireEscape, AfterLease, WorkflowTypeOK, SessionsHold, SessionHolds, FlowsHold, FlowHolds, CallIsOver
<1>13. ASSUME AcquireLease(c) PROVE SessionsHold'
  BY <1>13, ScriptFacts DEF AcquireLease, AfterLease, WorkflowTypeOK, SessionsHold, SessionHolds, FlowsHold, FlowHolds, CallIsOver
<1>14. ASSUME RefuseLease(c) PROVE SessionsHold'
  BY <1>14, ScriptFacts DEF RefuseLease, Leave, WorkflowTypeOK, SessionsHold, SessionHolds, FlowsHold, FlowHolds, CallIsOver
<1>15. ASSUME TakePermit(c) PROVE SessionsHold'
  BY <1>15, ScriptFacts DEF TakePermit, WorkflowTypeOK, SessionsHold, SessionHolds, FlowsHold, FlowHolds, CallIsOver
<1>16. ASSUME EnterRevoked(c) PROVE SessionsHold'
  BY <1>16, ScriptFacts DEF EnterRevoked, Leave, WorkflowTypeOK, SessionsHold, SessionHolds, FlowsHold, FlowHolds, CallIsOver
<1>17. ASSUME Enter(c) PROVE SessionsHold'
  BY <1>17, ScriptFacts DEF Enter, WorkflowTypeOK, SessionsHold, SessionHolds, FlowsHold, FlowHolds, CallIsOver
<1>18. ASSUME Build(c) PROVE SessionsHold'
  BY <1>18, ScriptFacts DEF Build, WorkflowTypeOK, SessionsHold, SessionHolds, FlowsHold, FlowHolds, CallIsOver
<1>19. ASSUME BuildFails(c) PROVE SessionsHold'
  BY <1>19, ScriptFacts DEF BuildFails, Leave, WorkflowTypeOK, SessionsHold, SessionHolds, FlowsHold, FlowHolds, CallIsOver
<1>20. ASSUME ModelCall(c) PROVE SessionsHold'
  BY <1>20, ScriptFacts DEF ModelCall, WorkflowTypeOK, SessionsHold, SessionHolds, FlowsHold, FlowHolds, CallIsOver
<1>21. ASSUME Capture(c) PROVE SessionsHold'
  BY <1>21, ScriptFacts DEF Capture, WorkflowTypeOK, SessionsHold, SessionHolds, FlowsHold, FlowHolds, CallIsOver
<1>22. ASSUME TurnEnds(c) PROVE SessionsHold'
  BY <1>22, ScriptFacts DEF TurnEnds, Leave, WorkflowTypeOK, SessionsHold, SessionHolds, FlowsHold, FlowHolds, CallIsOver
<1>23. ASSUME TurnTimesOut(c) PROVE SessionsHold'
  BY <1>23, ScriptFacts DEF TurnTimesOut, Leave, Interrupted, WorkflowTypeOK, SessionsHold, SessionHolds, FlowsHold, FlowHolds, CallIsOver
<1>24. ASSUME Conclude(c) PROVE SessionsHold'
  <2>1. PICK why : Leave(c, why)
    BY <1>24 DEF Conclude
  <2>2. ASSUME NEW d \in Call, d # c PROVE SessionHolds(d)'
    <3>1. /\ stage'[d] = stage[d] /\ held'[d] = held[d] /\ permit'[d] = permit[d]
          /\ task' = task /\ used' = used /\ tries' = tries /\ kind' = kind /\ escapes' = escapes
      BY <1>24, <2>1, <2>2, LeaveFacts DEF Conclude
    <3>2. SessionHolds(d)
      BY DEF SessionsHold
    <3> QED BY <3>1, <3>2 DEF SessionHolds, CallIsOver
  <2>3. SessionHolds(c)'
    <3>1. /\ stage'[c] = "done" /\ task' = task /\ used' = used /\ tries' = tries
          /\ kind' = kind /\ escapes' = escapes
          /\ held'[c] = (held[c] /\ task[c] \in {"draining", "late"})
          /\ permit'[c] = (permit[c] /\ task[c] \in {"draining", "late"})
          /\ task[c] \in Task
      BY <1>24, <2>1, LeaveFacts DEF Conclude, WorkflowTypeOK
    <3>2. SessionHolds(c) /\ stage[c] \in {"after", "settle"}
      BY <1>24 DEF SessionsHold, Conclude
    <3> QED BY <3>1, <3>2 DEF SessionHolds, CallIsOver, Task
  <2> QED BY <2>2, <2>3 DEF SessionsHold
<1>25. ASSUME Correct(c) PROVE SessionsHold'
  BY <1>25, ScriptFacts DEF Correct, MayCorrect, WorkflowTypeOK, SessionsHold, SessionHolds, FlowsHold, FlowHolds, CallIsOver
<1>26. ASSUME Settle(c) PROVE SessionsHold'
  <2>1. PICK why : Leave(c, why)
    BY <1>26 DEF Settle
  <2>2. ASSUME NEW d \in Call, d # c PROVE SessionHolds(d)'
    <3>1. /\ stage'[d] = stage[d] /\ held'[d] = held[d] /\ permit'[d] = permit[d]
          /\ task' = task /\ used' = used /\ tries' = tries /\ kind' = kind /\ escapes' = escapes
      BY <1>26, <2>1, <2>2, LeaveFacts DEF Settle
    <3>2. SessionHolds(d)
      BY DEF SessionsHold
    <3> QED BY <3>1, <3>2 DEF SessionHolds, CallIsOver
  <2>3. SessionHolds(c)'
    <3>1. /\ stage'[c] = "done" /\ task' = task /\ used' = used /\ tries' = tries
          /\ kind' = kind /\ escapes' = escapes
          /\ held'[c] = (held[c] /\ task[c] \in {"draining", "late"})
          /\ permit'[c] = (permit[c] /\ task[c] \in {"draining", "late"})
          /\ task[c] \in Task
      BY <1>26, <2>1, LeaveFacts DEF Settle, WorkflowTypeOK
    <3>2. SessionHolds(c) /\ stage[c] \in {"after", "settle"}
      BY <1>26 DEF SessionsHold, Settle
    <3> QED BY <3>1, <3>2 DEF SessionHolds, CallIsOver, Task
  <2> QED BY <2>2, <2>3 DEF SessionsHold
<1>27. ASSUME CancelCall(c) PROVE SessionsHold'
  BY <1>27, ScriptFacts DEF CancelCall, Leave, Interrupted, WorkflowTypeOK, SessionsHold, SessionHolds, FlowsHold, FlowHolds, CallIsOver
<1>28. ASSUME ReleaseAfterTasks(c) PROVE SessionsHold'
  BY <1>28, ScriptFacts DEF ReleaseAfterTasks, WorkflowTypeOK, SessionsHold, SessionHolds, FlowsHold, FlowHolds, CallIsOver
<1>29. ASSUME DrainEnds(c) PROVE SessionsHold'
  BY <1>29, ScriptFacts DEF DrainEnds, WorkflowTypeOK, SessionsHold, SessionHolds, FlowsHold, FlowHolds, CallIsOver
<1>30. ASSUME LateUsage(c) PROVE SessionsHold'
  BY <1>30, ScriptFacts DEF LateUsage, WorkflowTypeOK, SessionsHold, SessionHolds, FlowsHold, FlowHolds, CallIsOver
<1>31. ASSUME FlowEnds(c) PROVE SessionsHold'
  BY <1>31, ScriptFacts DEF FlowEnds, Leave, WorkflowTypeOK, SessionsHold, SessionHolds, FlowsHold, FlowHolds, CallIsOver
<1>32. ASSUME FlowCancelled(c) PROVE SessionsHold'
  BY <1>32, ScriptFacts DEF FlowCancelled, WorkflowTypeOK, SessionsHold, SessionHolds, FlowsHold, FlowHolds, CallIsOver
<1> QED
  BY <1>10, <1>11, <1>12, <1>13, <1>14, <1>15, <1>16, <1>17, <1>18, <1>19, <1>20, <1>21, <1>22, <1>23, <1>24, <1>25, <1>26, <1>27, <1>28, <1>29, <1>30, <1>31, <1>32
     DEF CallStep, Acquire, Session

(* Candidate workflows keep their lease, and end after their calls.          *)
LEMMA FlowsStayHeld ==
    ASSUME WorkflowTypeOK, SessionsHold, FlowsHold, NEW c \in Call, CallStep(c)
    PROVE  FlowsHold'
<1>10. ASSUME Begin(c) PROVE FlowsHold'
  BY <1>10, ScriptFacts DEF Begin, Callable, WorkflowTypeOK, SessionsHold, SessionHolds, FlowsHold, FlowHolds, CallIsOver
<1>11. ASSUME BeginDraft(c) PROVE FlowsHold'
  BY <1>11, ScriptFacts DEF BeginDraft, Callable, WorkflowTypeOK, SessionsHold, SessionHolds, FlowsHold, FlowHolds, CallIsOver
<1>12. ASSUME AcquireEscape(c) PROVE FlowsHold'
  BY <1>12, ScriptFacts DEF AcquireEscape, AfterLease, WorkflowTypeOK, SessionsHold, SessionHolds, FlowsHold, FlowHolds, CallIsOver
<1>13. ASSUME AcquireLease(c) PROVE FlowsHold'
  BY <1>13, ScriptFacts DEF AcquireLease, AfterLease, WorkflowTypeOK, SessionsHold, SessionHolds, FlowsHold, FlowHolds, CallIsOver
<1>14. ASSUME RefuseLease(c) PROVE FlowsHold'
  BY <1>14, ScriptFacts DEF RefuseLease, Leave, WorkflowTypeOK, SessionsHold, SessionHolds, FlowsHold, FlowHolds, CallIsOver
<1>15. ASSUME TakePermit(c) PROVE FlowsHold'
  BY <1>15, ScriptFacts DEF TakePermit, WorkflowTypeOK, SessionsHold, SessionHolds, FlowsHold, FlowHolds, CallIsOver
<1>16. ASSUME EnterRevoked(c) PROVE FlowsHold'
  BY <1>16, ScriptFacts DEF EnterRevoked, Leave, WorkflowTypeOK, SessionsHold, SessionHolds, FlowsHold, FlowHolds, CallIsOver
<1>17. ASSUME Enter(c) PROVE FlowsHold'
  BY <1>17, ScriptFacts DEF Enter, WorkflowTypeOK, SessionsHold, SessionHolds, FlowsHold, FlowHolds, CallIsOver
<1>18. ASSUME Build(c) PROVE FlowsHold'
  BY <1>18, ScriptFacts DEF Build, WorkflowTypeOK, SessionsHold, SessionHolds, FlowsHold, FlowHolds, CallIsOver
<1>19. ASSUME BuildFails(c) PROVE FlowsHold'
  BY <1>19, ScriptFacts DEF BuildFails, Leave, WorkflowTypeOK, SessionsHold, SessionHolds, FlowsHold, FlowHolds, CallIsOver
<1>20. ASSUME ModelCall(c) PROVE FlowsHold'
  BY <1>20, ScriptFacts DEF ModelCall, WorkflowTypeOK, SessionsHold, SessionHolds, FlowsHold, FlowHolds, CallIsOver
<1>21. ASSUME Capture(c) PROVE FlowsHold'
  BY <1>21, ScriptFacts DEF Capture, WorkflowTypeOK, SessionsHold, SessionHolds, FlowsHold, FlowHolds, CallIsOver
<1>22. ASSUME TurnEnds(c) PROVE FlowsHold'
  BY <1>22, ScriptFacts DEF TurnEnds, Leave, WorkflowTypeOK, SessionsHold, SessionHolds, FlowsHold, FlowHolds, CallIsOver
<1>23. ASSUME TurnTimesOut(c) PROVE FlowsHold'
  BY <1>23, ScriptFacts DEF TurnTimesOut, Leave, Interrupted, WorkflowTypeOK, SessionsHold, SessionHolds, FlowsHold, FlowHolds, CallIsOver
<1>24. ASSUME Conclude(c) PROVE FlowsHold'
  BY <1>24, ScriptFacts DEF Conclude, Leave, WorkflowTypeOK, SessionsHold, SessionHolds, FlowsHold, FlowHolds, CallIsOver
<1>25. ASSUME Correct(c) PROVE FlowsHold'
  BY <1>25, ScriptFacts DEF Correct, MayCorrect, WorkflowTypeOK, SessionsHold, SessionHolds, FlowsHold, FlowHolds, CallIsOver
<1>26. ASSUME Settle(c) PROVE FlowsHold'
  BY <1>26, ScriptFacts DEF Settle, Leave, WorkflowTypeOK, SessionsHold, SessionHolds, FlowsHold, FlowHolds, CallIsOver
<1>27. ASSUME CancelCall(c) PROVE FlowsHold'
  BY <1>27, ScriptFacts DEF CancelCall, Leave, Interrupted, WorkflowTypeOK, SessionsHold, SessionHolds, FlowsHold, FlowHolds, CallIsOver
<1>28. ASSUME ReleaseAfterTasks(c) PROVE FlowsHold'
  BY <1>28, ScriptFacts DEF ReleaseAfterTasks, WorkflowTypeOK, SessionsHold, SessionHolds, FlowsHold, FlowHolds, CallIsOver
<1>29. ASSUME DrainEnds(c) PROVE FlowsHold'
  BY <1>29, ScriptFacts DEF DrainEnds, WorkflowTypeOK, SessionsHold, SessionHolds, FlowsHold, FlowHolds, CallIsOver
<1>30. ASSUME LateUsage(c) PROVE FlowsHold'
  BY <1>30, ScriptFacts DEF LateUsage, WorkflowTypeOK, SessionsHold, SessionHolds, FlowsHold, FlowHolds, CallIsOver
<1>31. ASSUME FlowEnds(c) PROVE FlowsHold'
  BY <1>31, ScriptFacts DEF FlowEnds, Leave, WorkflowTypeOK, SessionsHold, SessionHolds, FlowsHold, FlowHolds, CallIsOver, Pending, Children
<1>32. ASSUME FlowCancelled(c) PROVE FlowsHold'
  BY <1>32, ScriptFacts DEF FlowCancelled, WorkflowTypeOK, SessionsHold, SessionHolds, FlowsHold, FlowHolds, CallIsOver
<1> QED
  BY <1>10, <1>11, <1>12, <1>13, <1>14, <1>15, <1>16, <1>17, <1>18, <1>19, <1>20, <1>21, <1>22, <1>23, <1>24, <1>25, <1>26, <1>27, <1>28, <1>29, <1>30, <1>31, <1>32
     DEF CallStep, Acquire, Session
(* No step but a new lease books more, and a candidate workflow's lease     *)
(* stays as it is until it is given back.                                   *)
BookingsFall ==
    \A x \in Call : /\ Booked(x)' <= Booked(x)
                    /\ kind[x] = "flow" => grant'[x] = grant[x] /\ (held'[x] => held[x])

(* Only a new lease adds to the bookings.                                   *)
LEMMA BookingsOnlyFall ==
    ASSUME WorkflowTypeOK, WorkflowTypeOK', SessionsHold, FlowsHold,
           NEW c \in Call, CallStep(c), ~ AcquireLease(c)
    PROVE  BookingsFall
<1>1. ASSUME Begin(c) PROVE BookingsFall
  BY <1>1, ScriptFacts DEF Begin, Callable, BookingsFall, Booked, Low, WorkflowTypeOK, SessionsHold, SessionHolds, FlowsHold, FlowHolds
<1>2. ASSUME BeginDraft(c) PROVE BookingsFall
  BY <1>2, ScriptFacts DEF BeginDraft, Callable, BookingsFall, Booked, Low, WorkflowTypeOK, SessionsHold, SessionHolds, FlowsHold, FlowHolds
<1>3. ASSUME AcquireEscape(c) PROVE BookingsFall
  BY <1>3, ScriptFacts DEF AcquireEscape, AfterLease, BookingsFall, Booked, Low, WorkflowTypeOK, SessionsHold, SessionHolds, FlowsHold, FlowHolds
<1>4. ASSUME RefuseLease(c) PROVE BookingsFall
  BY <1>4, ScriptFacts DEF RefuseLease, Leave, BookingsFall, Booked, Low, WorkflowTypeOK, SessionsHold, SessionHolds, FlowsHold, FlowHolds
<1>5. ASSUME TakePermit(c) PROVE BookingsFall
  BY <1>5, ScriptFacts DEF TakePermit, BookingsFall, Booked, Low, WorkflowTypeOK, SessionsHold, SessionHolds, FlowsHold, FlowHolds
<1>6. ASSUME EnterRevoked(c) PROVE BookingsFall
  BY <1>6, ScriptFacts DEF EnterRevoked, Leave, BookingsFall, Booked, Low, WorkflowTypeOK, SessionsHold, SessionHolds, FlowsHold, FlowHolds
<1>7. ASSUME Enter(c) PROVE BookingsFall
  BY <1>7, ScriptFacts DEF Enter, High, BookingsFall, Booked, Low, WorkflowTypeOK, SessionsHold, SessionHolds, FlowsHold, FlowHolds
<1>8. ASSUME Build(c) PROVE BookingsFall
  BY <1>8, ScriptFacts DEF Build, BookingsFall, Booked, Low, WorkflowTypeOK, SessionsHold, SessionHolds, FlowsHold, FlowHolds
<1>9. ASSUME BuildFails(c) PROVE BookingsFall
  BY <1>9, ScriptFacts DEF BuildFails, Leave, BookingsFall, Booked, Low, WorkflowTypeOK, SessionsHold, SessionHolds, FlowsHold, FlowHolds
<1>10. ASSUME ModelCall(c) PROVE BookingsFall
  BY <1>10, ScriptFacts DEF ModelCall, BookingsFall, Booked, Low, WorkflowTypeOK, SessionsHold, SessionHolds, FlowsHold, FlowHolds
<1>11. ASSUME Capture(c) PROVE BookingsFall
  BY <1>11, ScriptFacts DEF Capture, BookingsFall, Booked, Low, WorkflowTypeOK, SessionsHold, SessionHolds, FlowsHold, FlowHolds
<1>12. ASSUME TurnEnds(c) PROVE BookingsFall
  BY <1>12, ScriptFacts DEF TurnEnds, Leave, BookingsFall, Booked, Low, WorkflowTypeOK, SessionsHold, SessionHolds, FlowsHold, FlowHolds
<1>13. ASSUME TurnTimesOut(c) PROVE BookingsFall
  BY <1>13, ScriptFacts DEF TurnTimesOut, Leave, Interrupted, BookingsFall, Booked, Low, WorkflowTypeOK, SessionsHold, SessionHolds, FlowsHold, FlowHolds
<1>14. ASSUME Conclude(c) PROVE BookingsFall
  BY <1>14, ScriptFacts DEF Conclude, Leave, BookingsFall, Booked, Low, WorkflowTypeOK, SessionsHold, SessionHolds, FlowsHold, FlowHolds
<1>15. ASSUME Correct(c) PROVE BookingsFall
  BY <1>15, ScriptFacts DEF Correct, MayCorrect, BookingsFall, Booked, Low, WorkflowTypeOK, SessionsHold, SessionHolds, FlowsHold, FlowHolds
<1>16. ASSUME Settle(c) PROVE BookingsFall
  BY <1>16, ScriptFacts DEF Settle, Leave, BookingsFall, Booked, Low, WorkflowTypeOK, SessionsHold, SessionHolds, FlowsHold, FlowHolds
<1>17. ASSUME CancelCall(c) PROVE BookingsFall
  BY <1>17, ScriptFacts DEF CancelCall, Leave, Interrupted, BookingsFall, Booked, Low, WorkflowTypeOK, SessionsHold, SessionHolds, FlowsHold, FlowHolds
<1>18. ASSUME ReleaseAfterTasks(c) PROVE BookingsFall
  BY <1>18, ScriptFacts DEF ReleaseAfterTasks, BookingsFall, Booked, Low, WorkflowTypeOK, SessionsHold, SessionHolds, FlowsHold, FlowHolds
<1>19. ASSUME DrainEnds(c) PROVE BookingsFall
  BY <1>19, ScriptFacts DEF DrainEnds, BookingsFall, Booked, Low, WorkflowTypeOK, SessionsHold, SessionHolds, FlowsHold, FlowHolds
<1>20. ASSUME LateUsage(c) PROVE BookingsFall
  BY <1>20, ScriptFacts DEF LateUsage, BookingsFall, Booked, Low, WorkflowTypeOK, SessionsHold, SessionHolds, FlowsHold, FlowHolds
<1>21. ASSUME FlowEnds(c) PROVE BookingsFall
  BY <1>21, ScriptFacts DEF FlowEnds, Leave, BookingsFall, Booked, Low, WorkflowTypeOK, SessionsHold, SessionHolds, FlowsHold, FlowHolds
<1>22. ASSUME FlowCancelled(c) PROVE BookingsFall
  BY <1>22, ScriptFacts DEF FlowCancelled, BookingsFall, Booked, Low, WorkflowTypeOK, SessionsHold, SessionHolds, FlowsHold, FlowHolds
<1> QED
  BY <1>1, <1>2, <1>3, <1>4, <1>5, <1>6, <1>7, <1>8, <1>9, <1>10, <1>11, <1>12, <1>13, <1>14, <1>15, <1>16, <1>17, <1>18, <1>19, <1>20, <1>21, <1>22
     DEF CallStep, Acquire, Session

(* Only _semaphore.acquire takes a permit, and it takes one.                *)
LEMMA PermitsStay ==
    ASSUME WorkflowTypeOK, PermitsSuffice, NEW c \in Call, CallStep(c)
    PROVE  PermitsSuffice'
<1> DEFINE P == {x \in Call : permit[x]}
           Q == {x \in Call : permit'[x]}
<1>1. IsFiniteSet(P) /\ IsFiniteSet(Q) /\ Cardinality(P) \in Nat /\ Cardinality(Q) \in Nat
  BY ScriptFacts, FS_Subset, FS_CardinalityType
<1>2. Permits \in Nat /\ Cardinality(P) <= Permits
  BY ScriptFacts DEF PermitsSuffice
<1>3. Q \subseteq P => PermitsSuffice'
  BY <1>1, <1>2, FS_Subset DEF PermitsSuffice
<1>4. ASSUME TakePermit(c) PROVE PermitsSuffice'
  <2>0. Q \subseteq P \cup {c} /\ FreePermits > 0
    BY <1>4 DEF TakePermit, WorkflowTypeOK
  <2>1. Cardinality(P) < Permits
    <3>1. FreePermits = Permits - Cardinality(P)
      BY DEF FreePermits
    <3> HIDE DEF P
    <3> QED BY <1>1, <1>2, <2>0, <3>1
  <2>2. IsFiniteSet(P \cup {c}) /\ Cardinality(P \cup {c}) <= Cardinality(P) + 1
    <3> HIDE DEF P
    <3>1. /\ IsFiniteSet(P \cup {c})
          /\ Cardinality(P \cup {c}) = IF c \in P THEN Cardinality(P) ELSE Cardinality(P) + 1
      BY <1>1, FS_AddElement
    <3> QED BY <1>1, <3>1
  <2>3. Cardinality(Q) <= Cardinality(P \cup {c}) /\ Cardinality(P \cup {c}) \in Nat
    BY <2>0, <2>2, FS_Subset, FS_CardinalityType
  <2> QED BY <1>1, <1>2, <2>1, <2>2, <2>3 DEF PermitsSuffice
<1>5. ASSUME Begin(c) PROVE Q \subseteq P
  BY <1>5 DEF Begin, Callable, WorkflowTypeOK
<1>6. ASSUME BeginDraft(c) PROVE Q \subseteq P
  BY <1>6 DEF BeginDraft, Callable, WorkflowTypeOK
<1>7. ASSUME AcquireEscape(c) PROVE Q \subseteq P
  BY <1>7 DEF AcquireEscape, AfterLease, WorkflowTypeOK
<1>8. ASSUME AcquireLease(c) PROVE Q \subseteq P
  BY <1>8 DEF AcquireLease, AfterLease, WorkflowTypeOK
<1>9. ASSUME RefuseLease(c) PROVE Q \subseteq P
  BY <1>9 DEF RefuseLease, Leave, WorkflowTypeOK
<1>10. ASSUME EnterRevoked(c) PROVE Q \subseteq P
  BY <1>10 DEF EnterRevoked, Leave, WorkflowTypeOK
<1>11. ASSUME Enter(c) PROVE Q \subseteq P
  BY <1>11 DEF Enter, WorkflowTypeOK
<1>12. ASSUME Build(c) PROVE Q \subseteq P
  BY <1>12 DEF Build, WorkflowTypeOK
<1>13. ASSUME BuildFails(c) PROVE Q \subseteq P
  BY <1>13 DEF BuildFails, Leave, WorkflowTypeOK
<1>14. ASSUME ModelCall(c) PROVE Q \subseteq P
  BY <1>14 DEF ModelCall, WorkflowTypeOK
<1>15. ASSUME Capture(c) PROVE Q \subseteq P
  BY <1>15 DEF Capture, WorkflowTypeOK
<1>16. ASSUME TurnEnds(c) PROVE Q \subseteq P
  BY <1>16 DEF TurnEnds, Leave, WorkflowTypeOK
<1>17. ASSUME TurnTimesOut(c) PROVE Q \subseteq P
  BY <1>17 DEF TurnTimesOut, Leave, Interrupted, WorkflowTypeOK
<1>18. ASSUME Conclude(c) PROVE Q \subseteq P
  BY <1>18 DEF Conclude, Leave, WorkflowTypeOK
<1>19. ASSUME Correct(c) PROVE Q \subseteq P
  BY <1>19 DEF Correct, MayCorrect, WorkflowTypeOK
<1>20. ASSUME Settle(c) PROVE Q \subseteq P
  BY <1>20 DEF Settle, Leave, WorkflowTypeOK
<1>21. ASSUME CancelCall(c) PROVE Q \subseteq P
  BY <1>21 DEF CancelCall, Leave, Interrupted, WorkflowTypeOK
<1>22. ASSUME ReleaseAfterTasks(c) PROVE Q \subseteq P
  BY <1>22 DEF ReleaseAfterTasks, WorkflowTypeOK
<1>23. ASSUME DrainEnds(c) PROVE Q \subseteq P
  BY <1>23 DEF DrainEnds, WorkflowTypeOK
<1>24. ASSUME LateUsage(c) PROVE Q \subseteq P
  BY <1>24 DEF LateUsage, WorkflowTypeOK
<1>25. ASSUME FlowEnds(c) PROVE Q \subseteq P
  BY <1>25 DEF FlowEnds, Leave, WorkflowTypeOK
<1>26. ASSUME FlowCancelled(c) PROVE Q \subseteq P
  BY <1>26 DEF FlowCancelled, WorkflowTypeOK
<1> QED
  BY <1>3, <1>4, <1>5, <1>6, <1>7, <1>8, <1>9, <1>10, <1>11, <1>12, <1>13, <1>14, <1>15, <1>16, <1>17, <1>18, <1>19, <1>20, <1>21, <1>22, <1>23, <1>24, <1>25, <1>26
     DEF CallStep, Acquire, Session

(* A closed run stays as it is: nothing of its calls can move.              *)
LEMMA ClosedIsStill ==
    ASSUME WorkflowTypeOK, boundary = "closed", ClosedIsOver, NEW c \in Call, CallStep(c)
    PROVE  FALSE
<1>1. CallIsOver(c)
  BY DEF ClosedIsOver
<1>2. ~ Begin(c)
  BY <1>1 DEF Begin, Callable, CallIsOver
<1>3. ~ BeginDraft(c)
  BY <1>1 DEF BeginDraft, Callable, CallIsOver
<1>4. ~ AcquireEscape(c)
  BY <1>1 DEF AcquireEscape, CallIsOver
<1>5. ~ AcquireLease(c)
  BY <1>1 DEF AcquireLease, CallIsOver
<1>6. ~ RefuseLease(c)
  BY <1>1 DEF RefuseLease, CallIsOver
<1>7. ~ TakePermit(c)
  BY <1>1 DEF TakePermit, CallIsOver
<1>8. ~ EnterRevoked(c)
  BY <1>1 DEF EnterRevoked, CallIsOver
<1>9. ~ Enter(c)
  BY <1>1 DEF Enter, CallIsOver
<1>10. ~ Build(c)
  BY <1>1 DEF Build, CallIsOver
<1>11. ~ BuildFails(c)
  BY <1>1 DEF BuildFails, CallIsOver
<1>12. ~ ModelCall(c)
  BY <1>1 DEF ModelCall, CallIsOver
<1>13. ~ Capture(c)
  BY <1>1 DEF Capture, CallIsOver
<1>14. ~ TurnEnds(c)
  BY <1>1 DEF TurnEnds, CallIsOver
<1>15. ~ TurnTimesOut(c)
  BY <1>1 DEF TurnTimesOut, CallIsOver
<1>16. ~ Conclude(c)
  BY <1>1 DEF Conclude, CallIsOver
<1>17. ~ Correct(c)
  BY <1>1 DEF Correct, MayCorrect, CallIsOver
<1>18. ~ Settle(c)
  BY <1>1 DEF Settle, CallIsOver
<1>19. ~ CancelCall(c)
  BY <1>1 DEF CancelCall, CallIsOver
<1>20. ~ ReleaseAfterTasks(c)
  BY <1>1 DEF ReleaseAfterTasks, CallIsOver
<1>21. ~ DrainEnds(c)
  BY <1>1 DEF DrainEnds, CallIsOver
<1>22. ~ LateUsage(c)
  BY <1>1 DEF LateUsage, CallIsOver
<1>23. ~ FlowEnds(c)
  BY <1>1 DEF FlowEnds, CallIsOver
<1>24. ~ FlowCancelled(c)
  BY <1>1 DEF FlowCancelled, CallIsOver
<1> QED
  BY <1>2, <1>3, <1>4, <1>5, <1>6, <1>7, <1>8, <1>9, <1>10, <1>11, <1>12, <1>13, <1>14, <1>15, <1>16, <1>17, <1>18, <1>19, <1>20, <1>21, <1>22, <1>23, <1>24
     DEF CallStep, Acquire, Session
(* A sum over some calls of what is no more for any of them.                *)
LEMMA CallSumsGrow ==
    ASSUME WorkflowTypeOK, NEW S, S \subseteq Call, NEW w, NEW v,
           \A x \in S : w[x] \in Int /\ v[x] \in Int /\ w[x] <= v[x]
    PROVE  SumFunctionOnSet(w, S) <= SumFunctionOnSet(v, S)
<1>1. IsFiniteSet(S)
  BY ScriptFacts, FS_Subset
<1> QED BY <1>1, SumGrows

(* Without a new lease no claim grows.                                      *)
LEMMA ClaimsFall ==
    ASSUME WorkflowTypeOK, WorkflowTypeOK', SessionsHold, ClaimsFit, kind' = kind, BookingsFall
    PROVE  ClaimsFit'
<1>0. CallNumbers /\ CallNumbers'
  BY NumbersOfCalls, NumbersAfter
<1>1. ASSUME NEW f \in Call \cup {Root} PROVE FlowBooks(f)' <= FlowBooks(f)
  <2> DEFINE w == [x \in Call |-> Booked(x)']
             v == [x \in Call |-> Booked(x)]
  <2>1. Children(f)' = Children(f) /\ Children(f) \subseteq Call
    BY DEF Children
  <2>2. \A x \in Children(f) : w[x] \in Int /\ v[x] \in Int /\ w[x] <= v[x]
    BY <1>0, <2>1 DEF CallNumbers, BookingsFall
  <2>3. FlowBooks(f) = SumFunctionOnSet(v, Children(f))
    BY DEF FlowBooks
  <2>4. FlowBooks(f)' = SumFunctionOnSet(w, Children(f))
    BY <2>1 DEF FlowBooks
  <2> HIDE DEF w, v
  <2> QED BY <2>1, <2>2, <2>3, <2>4, CallSumsGrow
<1>2. ASSUME NEW f \in Call, kind[f] = "flow" PROVE FlowBooks(f)' <= grant'[f]
  <2>1. FlowBooks(f) <= grant[f] /\ grant'[f] = grant[f] /\ grant[f] \in Nat
    BY <1>2 DEF ClaimsFit, BookingsFall, WorkflowTypeOK
  <2> QED BY <1>0, <1>1, <2>1 DEF CallNumbers
<1>3. ASSUME NEW c \in Call PROVE Claim(c)' <= Claim(c)
  <2>1. CASE kind[c] # "flow"
    BY <2>1 DEF Claim, BookingsFall
  <2>2. CASE kind[c] = "flow" /\ held'[c]
    BY <2>2 DEF Claim, BookingsFall
  <2>3. CASE kind[c] = "flow" /\ ~held'[c] /\ ~held[c]
    BY <1>1, <2>3 DEF Claim
  <2>4. CASE kind[c] = "flow" /\ ~held'[c] /\ held[c]
    <3>1. Claim(c)' <= grant'[c] /\ grant'[c] = grant[c]
      BY <1>2, <2>4 DEF Claim, BookingsFall
    <3>2. c \notin escapes => Claim(c) = grant[c]
      BY <2>4 DEF Claim, Booked
    <3>3. c \notin escapes
      BY <2>4 DEF SessionsHold, SessionHolds
    <3> QED BY <3>1, <3>2, <3>3
  <2> QED BY <2>1, <2>2, <2>3, <2>4
<1>4. SumFunctionOnSet([c \in Call |-> Claim(c)'], Children(Root))
        <= SumFunctionOnSet([c \in Call |-> Claim(c)], Children(Root))
  <2> DEFINE w == [x \in Call |-> Claim(x)']
             v == [x \in Call |-> Claim(x)]
  <2>1. Children(Root) \subseteq Call
    BY DEF Children
  <2>2. \A x \in Children(Root) : w[x] \in Int /\ v[x] \in Int /\ w[x] <= v[x]
    BY <1>0, <1>3, <2>1 DEF CallNumbers
  <2> HIDE DEF w, v
  <2>3. SumFunctionOnSet(w, Children(Root)) <= SumFunctionOnSet(v, Children(Root))
    BY <2>1, <2>2, CallSumsGrow
  <2> QED BY <2>3 DEF w, v
<1>5. ASSUME NEW w, \A x \in Call : w[x] \in Int
      PROVE  SumFunctionOnSet(w, Children(Root)) \in Int
  <2>1. IsFiniteSet(Children(Root)) /\ \A x \in Children(Root) : w[x] \in Int
    BY <1>0, <1>5 DEF CallNumbers, Children
  <2> QED BY <2>1, SumSplits
<1>6. SumFunctionOnSet([c \in Call |-> Claim(c)'], Children(Root)) <= PoolTotal
  <2> DEFINE w == [x \in Call |-> Claim(x)']
             v == [x \in Call |-> Claim(x)]
  <2>1. \A x \in Call : w[x] \in Int /\ v[x] \in Int
    BY <1>0 DEF CallNumbers
  <2>2. SumFunctionOnSet(v, Children(Root)) <= PoolTotal
    BY DEF ClaimsFit
  <2>3. SumFunctionOnSet(w, Children(Root)) <= SumFunctionOnSet(v, Children(Root))
    BY <1>4
  <2> HIDE DEF w, v
  <2>4. SumFunctionOnSet(w, Children(Root)) \in Int /\ SumFunctionOnSet(v, Children(Root)) \in Int
    BY <1>5, <2>1
  <2>5. SumFunctionOnSet(w, Children(Root)) <= PoolTotal
    BY <2>2, <2>3, <2>4, ScriptFacts
  <2> QED BY <2>5 DEF w
<1>7. Children(Root)' = Children(Root)
  BY DEF Children
<1> QED BY <1>2, <1>6, <1>7 DEF ClaimsFit
(* What a context has booked is no more than what it has spent and reserved.*)
LEMMA BookedIsPaid ==
    ASSUME WorkflowTypeOK, SessionsHold, FlowsHold
    PROVE  \A b \in Call : FlowBooks(b) <= Spent(b) + Reserved(b)
<1> SUFFICES ASSUME NEW b \in Call PROVE FlowBooks(b) <= Spent(b) + Reserved(b)
  OBVIOUS
<1> DEFINE B == Children(b)
           k == [x \in Call |-> Booked(x)]
           r == [x \in Call |-> Reserve(x)]
           s == [x \in Call |-> used[x] + Reserve(x)]
<1>0. CallNumbers /\ b # Root /\ B \subseteq Call /\ IsFiniteSet(B)
  BY NumbersOfCalls, ScriptFacts DEF CallNumbers
<1>1. ASSUME NEW x \in B
      PROVE  /\ used[x] \in Int /\ r[x] \in Int /\ k[x] \in Int /\ s[x] \in Int
             /\ s[x] = used[x] + r[x] /\ k[x] <= s[x]
  <2>1. x \in Call /\ used[x] \in Nat /\ grant[x] \in Nat /\ Reserve(x) \in Nat /\ Booked(x) \in Nat
    BY <1>0, <1>1 DEF CallNumbers, WorkflowTypeOK
  <2>2. kind[x] # "flow"
    BY <2>1, <1>0, ScriptFacts DEF Children
  <2>3. Booked(x) <= used[x] + Reserve(x)
    BY <2>1, <2>2 DEF Booked, Reserve, LeaseLeft, Low, High
  <2> QED BY <2>1, <2>3
<1>2. FlowBooks(b) = SumFunctionOnSet(k, B) /\ Reserved(b) = SumFunctionOnSet(r, B)
  BY DEF FlowBooks, Reserved
<1>3. Spent(b) = SumFunctionOnSet(used, B)
  BY <1>0 DEF Spent
<1> HIDE DEF B, k, r, s
<1>4. SumFunctionOnSet(s, B) = SumFunctionOnSet(used, B) + SumFunctionOnSet(r, B)
  BY <1>0, <1>1, SumAdds
<1>5. SumFunctionOnSet(k, B) <= SumFunctionOnSet(s, B)
  BY <1>0, <1>1, CallSumsGrow
<1> QED BY <1>2, <1>3, <1>4, <1>5

(* ... and what it has spent no more than what it has booked, but for the   *)
(* overruns.                                                                *)
Overruns(b) == SumFunctionOnSet([x \in Call |-> Overrun(x)], Children(b))

LEMMA SpentIsBooked ==
    ASSUME WorkflowTypeOK, SessionsHold, FlowsHold
    PROVE  \A b \in Call : Overruns(b) \in Nat /\ Spent(b) <= FlowBooks(b) + Overruns(b)
<1> SUFFICES ASSUME NEW b \in Call
             PROVE  Overruns(b) \in Nat /\ Spent(b) <= FlowBooks(b) + Overruns(b)
  OBVIOUS
<1> DEFINE B == Children(b)
           k == [x \in Call |-> Booked(x)]
           o == [x \in Call |-> Overrun(x)]
           s == [x \in Call |-> Booked(x) + Overrun(x)]
<1>0. CallNumbers /\ b # Root /\ B \subseteq Call /\ IsFiniteSet(B)
  BY NumbersOfCalls, ScriptFacts DEF CallNumbers
<1>1. ASSUME NEW x \in B
      PROVE  /\ used[x] \in Int /\ o[x] \in Nat /\ k[x] \in Int /\ s[x] \in Int
             /\ s[x] = k[x] + o[x] /\ used[x] <= s[x]
  <2>1. x \in Call /\ used[x] \in Nat /\ grant[x] \in Nat /\ Overrun(x) \in Nat /\ Booked(x) \in Nat
    BY <1>0, <1>1 DEF CallNumbers, WorkflowTypeOK
  <2>2. used[x] <= Booked(x) + Overrun(x)
    BY <2>1 DEF Booked, Overrun, Low, High
  <2> QED BY <2>1, <2>2
<1>2. FlowBooks(b) = SumFunctionOnSet(k, B) /\ Overruns(b) = SumFunctionOnSet(o, B)
  BY DEF FlowBooks, Overruns
<1>3. Spent(b) = SumFunctionOnSet(used, B)
  BY <1>0 DEF Spent
<1> HIDE DEF B, k, o, s
<1>4. SumFunctionOnSet(s, B) = SumFunctionOnSet(k, B) + SumFunctionOnSet(o, B)
  BY <1>0, <1>1, SumAdds
<1>5. SumFunctionOnSet(used, B) <= SumFunctionOnSet(s, B)
  BY <1>0, <1>1, CallSumsGrow
<1>6. SumFunctionOnSet(o, B) \in Nat
  BY <1>0, <1>1, SumIsNat
<1> QED BY <1>2, <1>3, <1>4, <1>5, <1>6

(* A sum over all calls is one over the calls of the root context, each     *)
(* with its own calls.                                                      *)
LEMMA SumByFamily ==
    ASSUME WorkflowTypeOK, NEW w, \A x \in Call : w[x] \in Int
    PROVE  SumFunctionOnSet(w, Call)
             = SumFunctionOnSet([i \in Call |-> w[i] + SumFunctionOnSet(w, Children(i))],
                                Children(Root))
<1> DEFINE I   == Children(Root)
           own == [x \in Call |-> IF Owner[x] = Root THEN x ELSE Owner[x]]
           t   == [i \in I |-> SumFunctionOnSet(w, {x \in Call : own[x] = i})]
           u   == [i \in Call |-> w[i] + SumFunctionOnSet(w, Children(i))]
<1>0. IsFiniteSet(Call) /\ Root \notin Call /\ I \subseteq Call /\ IsFiniteSet(I)
  BY ScriptFacts, FS_Subset DEF Children
<1>1. \A x \in Call : own[x] \in I
  BY ScriptFacts DEF Children
<1>2. SumFunctionOnSet(w, Call) = SumFunctionOnSet(t, I)
  <2> HIDE DEF own, I
  <2> QED BY <1>0, <1>1, SumByGroup
<1>3. ASSUME NEW i \in I PROVE t[i] = u[i]
  <2> DEFINE F == {x \in Call : own[x] = i}
  <2>1. i \in Call /\ Owner[i] = Root
    BY <1>3 DEF Children
  <2>2. i \in F /\ F \ {i} = Children(i)
    BY <1>0, <2>1 DEF Children
  <2>3. IsFiniteSet(F) /\ \A x \in F : w[x] \in Int
    BY <1>0, FS_Subset
  <2>4. t[i] = SumFunctionOnSet(w, F) /\ u[i] = w[i] + SumFunctionOnSet(w, Children(i))
    BY <2>1
  <2> HIDE DEF F, t, u, own
  <2> QED BY <2>2, <2>3, <2>4, SumSplits
<1> HIDE DEF own, t, u
<1>4. SumFunctionOnSet(t, I) = SumFunctionOnSet(u, I)
  BY <1>0, <1>3, SumAgrees
<1> QED BY <1>2, <1>4 DEF u
(* What a call of the root context has spent with its own calls, and still  *)
(* reserves, covers its claim, and is within it but for the overruns.       *)
LEMMA FamilyClaims ==
    ASSUME WorkflowTypeOK, SessionsHold, FlowsHold, ClaimsFit, NEW i \in Children(Root)
    PROVE  /\ Claim(i) <= used[i] + Spent(i) + Reserve(i)
           /\ used[i] + Spent(i) + Reserve(i) <= Claim(i) + Overrun(i) + Overruns(i)
<1>0. /\ i \in Call /\ Owner[i] = Root /\ i # Root /\ CallNumbers
      /\ Children(i) \subseteq Call /\ IsFiniteSet(Children(i))
  <2>1. i \in Call /\ Owner[i] = Root
    BY DEF Children
  <2> QED BY <2>1, NumbersOfCalls, ScriptFacts DEF CallNumbers
<1>1. /\ used[i] \in Nat /\ grant[i] \in Nat /\ held[i] \in BOOLEAN
      /\ Spent(i) \in Nat /\ Reserve(i) \in Nat /\ Reserved(i) \in Nat /\ Claim(i) \in Nat
      /\ Overrun(i) \in Nat /\ FlowBooks(i) \in Nat
  BY <1>0 DEF CallNumbers, WorkflowTypeOK
<1>2. /\ Overruns(i) \in Nat /\ Spent(i) <= FlowBooks(i) + Overruns(i)
      /\ FlowBooks(i) <= Spent(i) + Reserved(i)
  BY <1>0, BookedIsPaid, SpentIsBooked
<1>3. i \in escapes => ~held[i]
  BY <1>0 DEF SessionsHold, SessionHolds
<1>4. CASE kind[i] # "flow"
  <2>1. \A x \in Children(i) : used[x] = 0
    <3> SUFFICES ASSUME NEW x \in Children(i) PROVE used[x] = 0
      OBVIOUS
    <3>1. x \in Call /\ Owner[x] = i /\ Owner[x] # Root
      BY <1>0 DEF Children
    <3>2. kind[x] = "unused"
      BY <1>4, <3>1, ScriptFacts
    <3> QED BY <3>1, <3>2 DEF SessionsHold, SessionHolds
  <2>2. SumFunctionOnSet(used, Children(i)) = 0
    BY <1>0, <2>1, SumOfZeros
  <2>3. Spent(i) = 0
    BY <1>0, <2>2 DEF Spent
  <2>4. Claim(i) = Booked(i)
    BY <1>4 DEF Claim
  <2>5. LeaseLeft(i) = High(0, grant[i] - used[i])
    BY <1>4 DEF LeaseLeft
  <2> QED BY <1>1, <1>2, <1>3, <2>3, <2>4, <2>5 DEF Booked, Reserve, Overrun, Low, High
<1>5. CASE kind[i] = "flow" /\ held[i]
  <2>1. used[i] = 0 /\ FlowBooks(i) <= grant[i]
    BY <1>0, <1>5 DEF FlowsHold, FlowHolds, ClaimsFit
  <2>2. Claim(i) = grant[i]
    BY <1>3, <1>5 DEF Claim, Booked
  <2>3. Reserve(i) = High(0, grant[i] - Spent(i))
    BY <1>5 DEF Reserve, LeaseLeft
  <2> QED BY <1>1, <1>2, <2>1, <2>2, <2>3 DEF High
<1>6. CASE kind[i] = "flow" /\ ~held[i]
  <2>1. used[i] = 0 /\ stage[i] \in {"idle", "ask", "done"}
    BY <1>0, <1>6 DEF FlowsHold, FlowHolds
  <2>2. Claim(i) = FlowBooks(i) /\ Reserve(i) = 0
    BY <1>6 DEF Claim, Reserve
  <2> DEFINE r == [x \in Call |-> Reserve(x)]
  <2>3. \A x \in Children(i) : r[x] = 0
    <3> SUFFICES ASSUME NEW x \in Children(i) PROVE r[x] = 0
      OBVIOUS
    <3>1. x \in Call /\ Owner[x] = i /\ Owner[x] # Root
      BY <1>0 DEF Children
    <3>2. CallIsOver(x)
      BY <2>1, <3>1 DEF SessionsHold, SessionHolds, FlowsHold, FlowHolds
    <3> QED BY <3>1, <3>2 DEF CallIsOver, Reserve
  <2>4. Reserved(i) = SumFunctionOnSet(r, Children(i))
    BY DEF Reserved
  <2> HIDE DEF r
  <2>5. Reserved(i) = 0
    BY <1>0, <2>3, <2>4, SumOfZeros
  <2> QED BY <1>1, <1>2, <2>1, <2>2, <2>5
<1> QED BY <1>4, <1>5, <1>6

(* The claims on the pool against its spending and its reservations.        *)
Claims == SumFunctionOnSet([c \in Call |-> Claim(c)], Children(Root))

LEMMA PoolClaims ==
    ASSUME WorkflowTypeOK, SessionsHold, FlowsHold, ClaimsFit
    PROVE  /\ Claims \in Nat
           /\ Claims <= Spent(Root) + Reserved(Root)
           /\ Spent(Root) + Reserved(Root)
                <= Claims + SumFunctionOnSet([c \in Call |-> Overrun(c)], Call)
<1> DEFINE I == Children(Root)
           m == [i \in Call |-> Claim(i)]
           p == [i \in Call |-> used[i] + SumFunctionOnSet(used, Children(i))]
           r == [i \in Call |-> Reserve(i)]
           pr == [i \in Call |-> p[i] + r[i]]
           o == [i \in Call |-> Overrun(i)]
           q == [i \in Call |-> o[i] + SumFunctionOnSet(o, Children(i))]
           mq == [i \in Call |-> m[i] + q[i]]
<1>0. I \subseteq Call /\ IsFiniteSet(I) /\ IsFiniteSet(Call) /\ Root \notin Call /\ CallNumbers
  BY NumbersOfCalls, ScriptFacts, FS_Subset DEF Children
<1>1. /\ \A x \in Call : used[x] \in Int /\ o[x] \in Int
      /\ \A x \in I : used[x] \in Nat /\ o[x] \in Nat /\ r[x] \in Nat /\ m[x] \in Nat
  BY <1>0 DEF CallNumbers, WorkflowTypeOK
<1>2. ASSUME NEW i \in I
      PROVE  /\ p[i] \in Nat /\ p[i] = used[i] + Spent(i)
             /\ q[i] \in Nat /\ q[i] = Overrun(i) + Overruns(i)
             /\ pr[i] = p[i] + r[i] /\ mq[i] = m[i] + q[i]
             /\ m[i] = Claim(i) /\ r[i] = Reserve(i)
             /\ Spent(i) \in Nat /\ Overrun(i) \in Nat /\ Overruns(i) \in Nat
  <2>1. i \in Call /\ i # Root /\ Spent(i) \in Nat /\ Overruns(i) \in Nat
    BY <1>0, SpentIsBooked DEF CallNumbers
  <2>2. Spent(i) = SumFunctionOnSet(used, Children(i))
    BY <2>1 DEF Spent
  <2>3. Overruns(i) = SumFunctionOnSet(o, Children(i))
    BY DEF Overruns
  <2>4. o[i] = Overrun(i) /\ o[i] \in Nat /\ used[i] \in Nat
    BY <1>1, <2>1
  <2> QED BY <2>1, <2>2, <2>3, <2>4
<1>3. /\ Claims = SumFunctionOnSet(m, I) /\ Reserved(Root) = SumFunctionOnSet(r, I)
      /\ Spent(Root) = SumFunctionOnSet(used, Call)
  BY DEF Claims, Reserved, Spent
<1>4. SumFunctionOnSet(used, Call) = SumFunctionOnSet(p, I)
  BY <1>1, SumByFamily
<1>5. SumFunctionOnSet(o, Call) = SumFunctionOnSet(q, I)
  <2>1. \A x \in Call : o[x] \in Int
    BY <1>1
  <2>2. q = [i \in Call |-> o[i] + SumFunctionOnSet(o, Children(i))]
    OBVIOUS
  <2> HIDE DEF o, q
  <2>3. SumFunctionOnSet(o, Call)
          = SumFunctionOnSet([i \in Call |-> o[i] + SumFunctionOnSet(o, Children(i))],
                             Children(Root))
    BY <2>1, SumByFamily
  <2> QED BY <2>2, <2>3
<1>6. ASSUME NEW i \in I PROVE m[i] <= pr[i] /\ pr[i] <= mq[i]
  <2>1. /\ Claim(i) <= used[i] + Spent(i) + Reserve(i)
        /\ used[i] + Spent(i) + Reserve(i) <= Claim(i) + Overrun(i) + Overruns(i)
    BY FamilyClaims
  <2> HIDE DEF I, m, p, r, pr, o, q, mq
  <2> QED BY <1>1, <1>2, <2>1
<1> HIDE DEF I, m, p, r, pr, o, q, mq
<1>7. SumFunctionOnSet(pr, I) = SumFunctionOnSet(p, I) + SumFunctionOnSet(r, I)
  <2>1. \A x \in I : p[x] \in Int /\ r[x] \in Int /\ pr[x] = p[x] + r[x]
    BY <1>1, <1>2
  <2> QED BY <1>0, <2>1, SumAdds
<1>8. SumFunctionOnSet(mq, I) = SumFunctionOnSet(m, I) + SumFunctionOnSet(q, I)
  <2>1. \A x \in I : m[x] \in Int /\ q[x] \in Int /\ mq[x] = m[x] + q[x]
    BY <1>1, <1>2
  <2> QED BY <1>0, <2>1, SumAdds
<1>9. \A x \in I : m[x] \in Int /\ pr[x] \in Int /\ mq[x] \in Int
  BY <1>1, <1>2
<1>10. SumFunctionOnSet(m, I) <= SumFunctionOnSet(pr, I)
  BY <1>0, <1>6, <1>9, SumGrows
<1>11. SumFunctionOnSet(pr, I) <= SumFunctionOnSet(mq, I)
  BY <1>0, <1>6, <1>9, SumGrows
<1>12. SumFunctionOnSet(m, I) \in Nat
  BY <1>0, <1>1, SumIsNat
<1>13. SumFunctionOnSet(o, Call) = SumFunctionOnSet([c \in Call |-> Overrun(c)], Call)
  BY DEF o
<1> QED BY <1>3, <1>4, <1>5, <1>7, <1>8, <1>10, <1>11, <1>12, <1>13
(* A new lease fits what its context has left.                              *)
LEMMA NewLeaseFits ==
    ASSUME WorkflowTypeOK, WorkflowTypeOK', SessionsHold, FlowsHold, ClaimsFit,
           NEW c \in Call, AcquireLease(c)
    PROVE  ClaimsFit'
<1>0. CallNumbers /\ CallNumbers'
  BY NumbersOfCalls, NumbersAfter
<1>1. /\ stage[c] = "ask" /\ Available(c) > 0 /\ kind' = kind /\ used' = used
      /\ escapes' = escapes /\ held' = [held EXCEPT ![c] = TRUE]
      /\ \E share \in Shares(c) : grant' = [grant EXCEPT ![c] = share]
  BY DEF AcquireLease
<1>2. PICK share \in Shares(c) : grant' = [grant EXCEPT ![c] = share]
  BY <1>1
<1>3. share \in Nat /\ share <= PoolRemaining(Owner[c]) /\ PoolRemaining(Owner[c]) \in Int
  <2>1. share \in Nat /\ share <= Available(c)
    BY <1>1, SharesFit
  <2>2. PoolRemaining(Owner[c]) \in Int
    BY <1>0, ScriptFacts DEF CallNumbers
  <2> QED BY <1>1, <2>1, <2>2 DEF Available, High
<1>4. c \notin escapes /\ ~held[c]
  BY <1>1 DEF SessionsHold, SessionHolds
<1>5. /\ \A x \in Call : Booked(x) \in Nat /\ Claim(x) \in Nat /\ Booked(x)' \in Nat /\ Claim(x)' \in Nat
      /\ \A x \in Call \ {c} : Booked(x)' = Booked(x) /\ grant'[x] = grant[x] /\ held'[x] = held[x]
      /\ Booked(c)' = share /\ held'[c]
  BY <1>0, <1>1, <1>2, <1>4 DEF CallNumbers, Booked, WorkflowTypeOK
<1>6. \A b : Children(b)' = Children(b) /\ Children(b) \subseteq Call /\ IsFiniteSet(Children(b))
  BY ScriptFacts, FS_Subset DEF Children
<1>7. ASSUME NEW b \in Call
      PROVE  /\ c \notin Children(b) => FlowBooks(b)' = FlowBooks(b)
             /\ c \in Children(b) => FlowBooks(b)' = FlowBooks(b) - Booked(c) + share
             /\ FlowBooks(b) \in Nat
  <2> DEFINE w == [x \in Call |-> Booked(x)]
             v == [x \in Call |-> Booked(x)']
  <2>1. FlowBooks(b) = SumFunctionOnSet(w, Children(b)) /\ FlowBooks(b)' = SumFunctionOnSet(v, Children(b))
    BY <1>6 DEF FlowBooks
  <2>2. /\ \A x \in Children(b) : w[x] \in Int /\ v[x] \in Int /\ (x # c => w[x] = v[x])
        /\ w[c] = Booked(c) /\ v[c] = share
    BY <1>5, <1>6
  <2>3. FlowBooks(b) \in Nat
    BY <1>0 DEF CallNumbers
  <2> HIDE DEF w, v
  <2>4. c \notin Children(b) => SumFunctionOnSet(v, Children(b)) = SumFunctionOnSet(w, Children(b))
    BY <1>6, <2>2, SumAgrees
  <2>5. c \in Children(b) => SumFunctionOnSet(v, Children(b))
                               = SumFunctionOnSet(w, Children(b)) - w[c] + v[c]
    <3> SUFFICES ASSUME c \in Children(b)
                 PROVE  SumFunctionOnSet(v, Children(b))
                          = SumFunctionOnSet(w, Children(b)) - w[c] + v[c]
      OBVIOUS
    <3>1. \A x \in Children(b) \ {c} : w[x] = v[x]
      BY <2>2
    <3>2. \A x \in Children(b) : w[x] \in Int /\ v[x] \in Int
      BY <2>2
    <3> QED BY <1>6, <3>1, <3>2, SumChanges
  <2> QED BY <2>1, <2>2, <2>3, <2>4, <2>5
<1> DEFINE I == Children(Root)
           w == [x \in Call |-> Claim(x)]
           v == [x \in Call |-> Claim(x)']
<1>8. /\ Claims = SumFunctionOnSet(w, I) /\ Claims \in Nat /\ Claims <= Spent(Root) + Reserved(Root)
      /\ Claims <= PoolTotal /\ PoolTotal \in Nat
  BY PoolClaims, ScriptFacts DEF Claims, ClaimsFit
<1>9. /\ \A x \in I : w[x] \in Int /\ v[x] \in Int /\ w[x] = Claim(x) /\ v[x] = Claim(x)'
      /\ IsFiniteSet(I)
  BY <1>5, <1>6
<1>10. SumFunctionOnSet(v, I) <= PoolTotal
         /\ (\A f \in Call : kind[f] = "flow" => FlowBooks(f)' <= grant'[f])
       => ClaimsFit'
  BY <1>1, <1>6 DEF ClaimsFit
<1> HIDE DEF I, w, v
<1>11. CASE Owner[c] = Root
  <2>1. /\ c \in I /\ \A f \in Call : c \notin Children(f)
        /\ PoolRemaining(Root) = PoolTotal - Spent(Root) - Reserved(Root)
        /\ Spent(Root) \in Nat /\ Reserved(Root) \in Nat
    BY <1>0, <1>11, ScriptFacts DEF I, Children, PoolRemaining, RootRemaining, CallNumbers
  <2>2. Claim(c)' = share
    BY <1>5 DEF Claim
  <2>3. \A x \in I \ {c} : w[x] = v[x]
    BY <1>1, <1>5, <1>6, <1>7, <1>9, <2>1 DEF Claim, I
  <2>4. SumFunctionOnSet(v, I) = SumFunctionOnSet(w, I) - w[c] + v[c]
    BY <1>9, <2>1, <2>3, SumChanges
  <2>5. w[c] \in Nat /\ v[c] = share
    BY <1>5, <1>9, <2>1, <2>2
  <2>6. SumFunctionOnSet(v, I) <= PoolTotal
    <3>1. share <= PoolTotal - Spent(Root) - Reserved(Root)
      BY <1>3, <1>11, <2>1
    <3> QED BY <1>3, <1>8, <2>1, <2>4, <2>5, <3>1
  <2>7. ASSUME NEW f \in Call, kind[f] = "flow" PROVE FlowBooks(f)' <= grant'[f]
    <3>1. FlowBooks(f)' = FlowBooks(f)
      BY <1>7, <2>1
    <3>2. CASE f # c
      BY <1>5, <2>7, <3>1, <3>2 DEF ClaimsFit
    <3>3. CASE f = c
      <4> DEFINE k == [x \in Call |-> Booked(x)]
      <4>1. \A x \in Children(c) : k[x] = 0
        <5> SUFFICES ASSUME NEW x \in Children(c) PROVE k[x] = 0
          OBVIOUS
        <5>1. x \in Call /\ Owner[x] = c /\ Owner[x] # Root
          BY <1>6, ScriptFacts DEF Children
        <5>2. stage[x] = "idle"
          BY <1>1, <5>1 DEF FlowsHold, FlowHolds
        <5>3. used[x] = 0 /\ ~held[x] /\ x \notin escapes /\ grant[x] \in Nat
          BY <5>1, <5>2 DEF SessionsHold, SessionHolds, CallIsOver, WorkflowTypeOK
        <5> QED BY <5>1, <5>3 DEF Booked, Low
      <4>2. FlowBooks(c) = SumFunctionOnSet(k, Children(c))
        BY DEF FlowBooks
      <4> HIDE DEF k
      <4>3. FlowBooks(c) = 0
        BY <1>6, <4>1, <4>2, SumOfZeros
      <4>4. grant'[c] = share
        BY <1>2 DEF WorkflowTypeOK
      <4> QED BY <1>3, <3>1, <3>3, <4>3, <4>4
    <3> QED BY <3>2, <3>3
  <2> QED BY <1>10, <2>6, <2>7
<1>12. CASE Owner[c] # Root
  <2> DEFINE f == Owner[c]
  <2>1. f \in Call /\ Owner[f] = Root /\ kind[f] = "flow" /\ f # c /\ c \in Children(f)
    <3>1. kind[c] # "unused"
      BY <1>1 DEF SessionsHold, SessionHolds
    <3> QED BY <1>12, <3>1, ScriptFacts DEF Children
  <2>2. held[f]
    BY <1>1, <1>12, <2>1 DEF FlowsHold, FlowHolds, CallIsOver
  <2>3. \A x \in Call : c \in Children(x) <=> x = f
    BY DEF Children
  <2>4. /\ PoolRemaining(f) <= grant[f] - Spent(f) - Reserved(f)
        /\ FlowBooks(f) <= Spent(f) + Reserved(f)
        /\ Spent(f) \in Nat /\ Reserved(f) \in Nat /\ grant[f] \in Nat /\ Booked(c) \in Nat
    <3>1. /\ Spent(f) \in Nat /\ Reserved(f) \in Nat /\ grant[f] \in Nat /\ Booked(c) \in Nat
          /\ Spent(Root) \in Nat /\ Reserved(Root) \in Nat /\ LeaseLeft(f) \in Nat
          /\ PoolTotal \in Nat /\ f # Root
      BY <1>0, <2>1, ScriptFacts DEF CallNumbers, WorkflowTypeOK
    <3>2. FlowBooks(f) <= Spent(f) + Reserved(f)
      BY <2>1, BookedIsPaid
    <3> HIDE DEF f
    <3> QED BY <3>1, <3>2 DEF PoolRemaining, RootRemaining, Low
  <2>5. c \notin I
    BY <1>12 DEF I, Children
  <2>6. \A x \in I : v[x] = w[x]
    <3> SUFFICES ASSUME NEW x \in I PROVE Claim(x)' = Claim(x)
      BY <1>9
    <3>1. x \in Call /\ x # c
      BY <1>6, <2>5 DEF I
    <3>2. CASE x = f
      BY <1>1, <1>5, <2>2, <3>1, <3>2 DEF Claim
    <3>3. CASE x # f
      BY <1>1, <1>5, <1>7, <2>3, <3>1, <3>3 DEF Claim
    <3> QED BY <3>2, <3>3
  <2>7. SumFunctionOnSet(v, I) = SumFunctionOnSet(w, I)
    BY <1>9, <2>6, SumAgrees
  <2>8. ASSUME NEW g \in Call, kind[g] = "flow" PROVE FlowBooks(g)' <= grant'[g]
    <3>1. g # c
      BY <1>12, <2>8, ScriptFacts
    <3>2. grant'[g] = grant[g]
      BY <1>5, <3>1
    <3>3. CASE g # f
      BY <1>7, <2>3, <2>8, <3>2, <3>3 DEF ClaimsFit
    <3>4. CASE g = f
      <4>1. FlowBooks(f)' = FlowBooks(f) - Booked(c) + share /\ FlowBooks(f) \in Nat
        BY <1>7, <2>1
      <4>2. share <= grant[f] - Spent(f) - Reserved(f)
        BY <1>3, <2>4
      <4> HIDE DEF f
      <4> QED BY <1>3, <2>4, <3>2, <3>4, <4>1, <4>2
    <3> QED BY <3>3, <3>4
  <2> QED BY <1>8, <1>10, <2>7, <2>8
<1> QED BY <1>11, <1>12
(* The invariant holds at the start of a run.                               *)
LEMMA CallsStart == WorkflowInit => CallsInv
<1> SUFFICES ASSUME WorkflowInit PROVE CallsInv
  OBVIOUS
<1>1. WorkflowTypeOK
  BY DEF WorkflowInit, WorkflowTypeOK, Stage, Task, Outcome
<1>2. \A c \in Call : /\ stage[c] = "idle" /\ grant[c] = 0 /\ ~held[c] /\ used[c] = 0
                      /\ task[c] = "none" /\ ~permit[c] /\ tries[c] = 0
  BY DEF WorkflowInit
<1>3. SessionsHold /\ FlowsHold
  <2>1. \A c \in Call : CallIsOver(c) /\ c \notin escapes
    BY <1>2 DEF CallIsOver, WorkflowInit
  <2>2. SessionsHold
    BY <1>2, <2>1 DEF SessionsHold, SessionHolds
  <2>3. FlowsHold
    BY <1>1, <1>2, <2>1, ScriptFacts DEF FlowsHold, FlowHolds
  <2> QED BY <2>2, <2>3
<1>4. PermitsSuffice
  <2>1. {c \in Call : permit[c]} = {}
    BY <1>2
  <2> QED BY <1>1, <2>1, ScriptFacts, FS_EmptySet DEF PermitsSuffice
<1>5. \A c \in Call : Booked(c) = 0
  BY <1>2 DEF Booked, Low
<1>6. \A b : IsFiniteSet(Children(b)) /\ Children(b) \subseteq Call
  BY <1>1, ScriptFacts, FS_Subset DEF Children
<1>7. \A b : FlowBooks(b) = 0
  <2> TAKE b
  <2> DEFINE w == [x \in Call |-> Booked(x)]
  <2>1. \A x \in Children(b) : w[x] = 0
    BY <1>5, <1>6
  <2>2. FlowBooks(b) = SumFunctionOnSet(w, Children(b))
    BY DEF FlowBooks
  <2> HIDE DEF w
  <2> QED BY <1>6, <2>1, <2>2, SumOfZeros
<1>8. ClaimsFit
  <2> DEFINE w == [x \in Call |-> Claim(x)]
  <2>1. \A x \in Children(Root) : w[x] = 0
    BY <1>5, <1>6, <1>7 DEF Claim
  <2>2. SumFunctionOnSet(w, Children(Root)) <= PoolTotal
         /\ (\A f \in Call : kind[f] = "flow" => FlowBooks(f) <= grant[f])
        => ClaimsFit
    BY DEF ClaimsFit
  <2> HIDE DEF w
  <2>3. SumFunctionOnSet(w, Children(Root)) = 0
    BY <1>6, <2>1, SumOfZeros
  <2> QED BY <1>1, <1>2, <1>7, <2>2, <2>3, ScriptFacts
<1>9. OneEscape /\ ClosedIsOver
  BY DEF WorkflowInit, OneEscape, ClosedIsOver
<1> QED BY <1>1, <1>3, <1>4, <1>8, <1>9 DEF CallsInv

(* Only _acquire_budget_lease claims the escape, and only an unclaimed one. *)
LEMMA EscapeStaysOne ==
    ASSUME OneEscape, NEW c \in Call, CallStep(c)
    PROVE  OneEscape'
<1>1. CASE AcquireEscape(c)
  BY <1>1 DEF AcquireEscape, OneEscape
<1>2. ASSUME ~ AcquireEscape(c) PROVE escapes' = escapes
  BY <1>2
     DEF CallStep, Begin, BeginDraft, Acquire, AcquireLease, RefuseLease, TakePermit, EnterRevoked,
         Enter, Session, Build, BuildFails, ModelCall, Capture, TurnEnds, TurnTimesOut, Conclude,
         Correct, Settle, DrainEnds, LateUsage, CancelCall, ReleaseAfterTasks, FlowEnds,
         FlowCancelled
<1> QED BY <1>1, <1>2 DEF OneEscape

(* The steps of a call leave the script and the owner of the run alone.     *)
LEMMA CallsLeaveTheOwner ==
    ASSUME NEW c \in Call, CallStep(c)
    PROVE  kind' = kind /\ boundary' = boundary
BY DEF CallStep, Begin, BeginDraft, Acquire, AcquireEscape, AcquireLease, RefuseLease, TakePermit,
       EnterRevoked, Enter, Session, Build, BuildFails, ModelCall, Capture, TurnEnds, TurnTimesOut,
       Conclude, Correct, Settle, DrainEnds, LateUsage, CancelCall, ReleaseAfterTasks, FlowEnds,
       FlowCancelled

(* A step of a call keeps the invariant.                                    *)
LEMMA CallKeeps ==
    ASSUME CallsInv, NEW c \in Call, CallStep(c)
    PROVE  CallsInv'
<1> USE DEF CallsInv
<1>1. WorkflowTypeOK'
  BY CallTypesKept
<1>2. SessionsHold' /\ FlowsHold' /\ PermitsSuffice'
  BY SessionsStayHeld, FlowsStayHeld, PermitsStay
<1>3. ClaimsFit'
  <2>1. CASE AcquireLease(c)
    BY <1>1, <2>1, NewLeaseFits
  <2>2. CASE ~ AcquireLease(c)
    <3>1. BookingsFall
      BY <1>1, <2>2, BookingsOnlyFall
    <3> QED BY <1>1, <3>1, ClaimsFall, CallsLeaveTheOwner
  <2> QED BY <2>1, <2>2
<1>4. OneEscape'
  BY EscapeStaysOne
<1>5. ClosedIsOver'
  <2>1. boundary # "closed"
    BY ClosedIsStill
  <2> QED BY <2>1, CallsLeaveTheOwner DEF ClosedIsOver
<1> QED BY <1>1, <1>2, <1>3, <1>4, <1>5

(* The variables the claims are about.                                      *)
callVars == <<kind, stage, grant, held, used, task, permit, tries, captured, outcome, unsafe,
              escapes>>

(* What is said of the calls stays true while none of them moves.           *)
LEMMA CallsStayPut ==
    ASSUME CallsInv, UNCHANGED callVars, boundary' \in {"running", "wait", "seen", "closed"}
    PROVE  /\ WorkflowTypeOK' /\ SessionsHold' /\ FlowsHold' /\ PermitsSuffice' /\ ClaimsFit'
           /\ OneEscape'
           /\ \A c \in Call : CallIsOver(c)' <=> CallIsOver(c)
<1> USE DEF CallsInv, callVars
<1>1. \A c \in Call : CallIsOver(c)' <=> CallIsOver(c)
  BY DEF CallIsOver
<1>2. SessionsHold'
  BY DEF SessionsHold, SessionHolds, CallIsOver
<1>3. FlowsHold'
  BY DEF FlowsHold, FlowHolds, CallIsOver
<1>4. PermitsSuffice' /\ OneEscape'
  BY DEF PermitsSuffice, OneEscape
<1>5. ClaimsFit'
  BY DEF ClaimsFit, Claim, FlowBooks, Booked
<1>6. WorkflowTypeOK'
  BY DEF WorkflowTypeOK
<1> QED BY <1>1, <1>2, <1>3, <1>4, <1>5, <1>6

(* The boundary closes when every call is over.                             *)
LEMMA ClosesWhenOver ==
    ASSUME WorkflowTypeOK, SessionsHold, Pending(Root) = {}, \A c \in Call : task[c] # "late"
    PROVE  \A c \in Call : CallIsOver(c)
<1> SUFFICES ASSUME NEW c \in Call PROVE CallIsOver(c)
  OBVIOUS
<1>1. c \notin Pending(Root) /\ task[c] \in Task
  BY DEF WorkflowTypeOK
<1> QED BY <1>1 DEF Pending, CallIsOver, SessionsHold, SessionHolds, Task

(* Every step keeps the invariant.                                          *)
LEMMA CallsKept == CallsInv /\ [WorkflowNext]_wfVars => CallsInv'
<1> SUFFICES ASSUME CallsInv, [WorkflowNext]_wfVars PROVE CallsInv'
  OBVIOUS
<1>1. ASSUME NEW c \in Call, CallStep(c) PROVE CallsInv'
  BY <1>1, CallKeeps
<1>2. CASE ScriptReturns
  BY <1>2, CallsStayPut DEF ScriptReturns, callVars, CallsInv, ClosedIsOver
<1>3. CASE WaitForPendingCleanup
  <2>1. UNCHANGED callVars /\ boundary' \in {"wait", "seen", "closed"}
    BY <1>3 DEF WaitForPendingCleanup, callVars
  <2>2. boundary' = "closed" => \A c \in Call : CallIsOver(c)
    BY <1>3, ClosesWhenOver DEF WaitForPendingCleanup, CallsInv
  <2> QED BY <2>1, <2>2, CallsStayPut DEF CallsInv, ClosedIsOver
<1>4. CASE UNCHANGED wfVars
  <2>1. UNCHANGED callVars /\ boundary' = boundary
    BY <1>4 DEF wfVars, callVars
  <2>2. boundary \in {"running", "wait", "seen", "closed"}
    BY DEF CallsInv, WorkflowTypeOK
  <2> QED BY <2>1, <2>2, CallsStayPut DEF CallsInv, ClosedIsOver
<1>5. ASSUME \E c \in Call : Begin(c) \/ BeginDraft(c) \/ Acquire(c) \/ Session(c) \/ CancelCall(c)
                             \/ ReleaseAfterTasks(c) \/ FlowEnds(c) \/ FlowCancelled(c)
      PROVE  CallsInv'
  BY <1>1, <1>5 DEF CallStep
<1> QED BY <1>2, <1>3, <1>4, <1>5 DEF WorkflowNext

(* Whatever calls a script makes and of whatever kind, however they race    *)
(* for leases, permits and the escape, and whichever of them time out, are  *)
(* cancelled or resist: sessions that execute never outnumber               *)
(* max_concurrency (a permit stays with the cleanup of its call), what was  *)
(* spent and what is reserved exceed the pool by no more than the sessions' *)
(* own overruns and one escape (_acquire_budget_lease and                   *)
(* _refresh_budget_lease promise no token twice), and a closed run is quiet *)
(* (wait_for_pending_cleanup).                                              *)
THEOREM CallsKeepTheirLimits == WorkflowSpec => []CallsAreSound
<1>1. CallsInv => CallsAreSound
  <2> SUFFICES ASSUME CallsInv PROVE CallsAreSound
    OBVIOUS
  <2> USE DEF CallsInv
  <2>1. ExecutingWithinLimit
    <3> DEFINE E == {c \in Call : task[c] # "none"}
               P == {c \in Call : permit[c]}
    <3>1. E \subseteq P /\ IsFiniteSet(P)
      BY ScriptFacts, FS_Subset DEF SessionsHold, SessionHolds
    <3>2. /\ Cardinality(E) <= Cardinality(P)
          /\ Cardinality(E) \in Nat /\ Cardinality(P) \in Nat
      BY <3>1, FS_Subset, FS_CardinalityType
    <3>3. Cardinality(P) <= Permits /\ Permits \in Nat
      BY ScriptFacts DEF PermitsSuffice
    <3>4. Cardinality(E) <= Permits
      BY <3>2, <3>3
    <3> QED BY <3>4 DEF ExecutingWithinLimit
  <2>2. Cardinality(escapes) <= 1
    <3>1. CASE escapes = {}
      BY <3>1, FS_EmptySet
    <3>2. CASE escapes # {}
      <4>1. PICK e \in escapes : escapes = {e}
        BY <3>2 DEF OneEscape
      <4>2. Cardinality({e}) = 1
        BY FS_Singleton
      <4> QED BY <4>1, <4>2
    <3> QED BY <3>1, <3>2
  <2>3. Spent(Root) + Reserved(Root)
          <= PoolTotal + SumFunctionOnSet([c \in Call |-> Overrun(c)], Call)
    <3> DEFINE o == SumFunctionOnSet([c \in Call |-> Overrun(c)], Call)
    <3>1. CallNumbers
      BY NumbersOfCalls
    <3>2. Spent(Root) \in Nat /\ Reserved(Root) \in Nat /\ PoolTotal \in Nat
      BY <3>1, ScriptFacts DEF CallNumbers
    <3>3. o \in Int
      <4> DEFINE w == [c \in Call |-> Overrun(c)]
      <4>1. \A x \in Call : w[x] \in Int
        BY <3>1 DEF CallNumbers
      <4> HIDE DEF w
      <4>2. SumFunctionOnSet(w, Call) \in Int
        BY <4>1, ScriptFacts, SumSplits
      <4> QED BY <4>2 DEF w
    <3>4. Claims \in Nat /\ Spent(Root) + Reserved(Root) <= Claims + o /\ Claims <= PoolTotal
      BY PoolClaims DEF ClaimsFit, Claims
    <3> HIDE DEF o
    <3>5. Spent(Root) + Reserved(Root) <= PoolTotal + o
      BY <3>2, <3>3, <3>4
    <3> QED BY <3>5 DEF o
  <2>4. BoundaryIsQuiet
    BY DEF BoundaryIsQuiet, ClosedIsOver, CallIsOver
  <2> QED BY <2>1, <2>2, <2>3, <2>4 DEF CallsAreSound, PoolNotPromisedTwice
<1> QED BY <1>1, CallsStart, CallsKept, PTL DEF WorkflowSpec
=============================================================================

----------------------------- MODULE TeamProofs -----------------------------
(***************************************************************************)
(* Proofs about the team: its token budget, the roster of a declared team,  *)
(* its serialized turns with the review loop, and the adoption of what its  *)
(* coders completed; and about three workflows that come with the system,   *)
(* duo, weave and reconstruct.                                              *)
(***************************************************************************)
EXTENDS TeamBudget, DeclaredTeam, ReviewTurns, TeamAdoption, WeaveRuns, DuoRuns,
        Reconstruction, SequenceTheorems, SumProofs, TLAPS

-----------------------------------------------------------------------------
(* Turns and the review loop                                                *)

(* Nobody is called Free, and the lead is no child.                         *)
LEMMA MembersAreKnown ==
    /\ Free \notin Member /\ Lead \in Member /\ Lead \notin Child
    /\ Child \subseteq Member /\ \A a \in Member : a # Lead => a \in Child
BY ReviewAssumption DEF Free, Member, Lead, Child

(* The lead's turn starts with nobody at work and no review.                *)
LEMMA ReviewStarts == ReviewInit => ReviewInv
<1> SUFFICES ASSUME ReviewInit PROVE ReviewInv
  OBVIOUS
<1>1. ReviewTypes
  <2>1. iteration \in 0..MaxIterations /\ spawned \in 0..MaxChildren
    BY ReviewAssumption DEF ReviewInit
  <2>2. coder \in Member /\ reviewer \in Member
    BY MembersAreKnown DEF ReviewInit, Lead
  <2> QED
    BY <2>1, <2>2 DEF ReviewInit, ReviewTypes, Nothing
<1>2. TurnsAgree
  BY MembersAreKnown DEF ReviewInit, TurnsAgree, At, Reviewing
<1>3. ArtifactIsWhole /\ PassIsEarned
  BY MembersAreKnown DEF ReviewInit, ArtifactIsWhole, PassIsEarned, Reviewing
<1>4. UnspawnedAreNew
  BY MembersAreKnown DEF ReviewInit, UnspawnedAreNew
<1> QED
  BY <1>1, <1>2, <1>3, <1>4 DEF ReviewInv

(* The types of the turns and of the loop are kept by every step.           *)
LEMMA ReviewTypesKept ==
    ASSUME ReviewTypes, [ReviewNext]_reviewVars
    PROVE  ReviewTypes'
<1> USE DEF ReviewTypes
<1>1. ASSUME NEW a \in Member, Enter(a) \/ Rejoin(a) \/ MessageWakes(a)
      PROVE ReviewTypes'
  <2>1. gate' \in Member \cup {Free} /\ turnHeld' \in BOOLEAN
    BY <1>1 DEF Enter, Rejoin, MessageWakes
  <2> QED
    BY <1>1, <2>1 DEF Enter, Rejoin, MessageWakes, kin
<1>2. ASSUME NEW a \in Member, Finish(a) \/ CancelDriver(a)
      PROVE ReviewTypes'
  <2>1. CASE Finish(a)
    BY <2>1 DEF Finish, Reviewing, kin
  <2>2. CASE CancelDriver(a)
    BY <2>2 DEF CancelDriver, Reviewing, kin
  <2> QED
    BY <1>2, <2>1, <2>2
<1>3. ASSUME NEW a \in Member, NEW p \in {"done", "failed", "waiting"}, Leave(a, p)
      PROVE ReviewTypes'
  BY <1>3 DEF Leave, kin, reviewBounds
<1>4. ASSUME StartReview \/ ChildRefused \/ Regain \/ ShutDown PROVE ReviewTypes'
  <2>1. gate' \in Member \cup {Free} /\ turnHeld' \in BOOLEAN
    BY <1>4, MembersAreKnown DEF StartReview, ChildRefused, Regain, ShutDown
  <2>2. iteration' \in 0..MaxIterations
    BY <1>4, ReviewAssumption DEF StartReview, ChildRefused, Regain, ShutDown
  <2>3. CASE StartReview
    BY <2>1, <2>2, <2>3 DEF StartReview, Nothing, kin
  <2>4. CASE ChildRefused
    BY <2>1, <2>2, <2>4 DEF ChildRefused, Answers, kin
  <2>5. CASE Regain
    BY <2>1, <2>2, <2>5 DEF Regain, kin
  <2>6. CASE ShutDown
    BY <2>1, <2>2, <2>6 DEF ShutDown, kin
  <2> QED
    BY <1>4, <2>3, <2>4, <2>5, <2>6
<1>5. ASSUME SpawnChild PROVE ReviewTypes'
  <2>1. spawned' \in 0..MaxChildren /\ spawned' \in Member
    BY <1>5, ReviewAssumption DEF SpawnChild, Child, Member
  <2> QED
    BY <1>5, <2>1 DEF SpawnChild
<1>6. ASSUME CoderSettles \/ ReviewerSettles PROVE ReviewTypes'
  <2>1. iteration' \in 0..MaxIterations
    BY <1>6, ReviewAssumption DEF CoderSettles, ReviewerSettles
  <2>2. result[coder] \in {"none", "raw", "whole"} /\ verdict[reviewer] \in {"none", "pass", "fail"}
    OBVIOUS
  <2>3. CASE CoderSettles
    BY <2>1, <2>2, <2>3 DEF CoderSettles, Settled, Ended, Answers, Nothing, kin
  <2>4. CASE ReviewerSettles
    BY <2>1, <2>2, <2>4 DEF ReviewerSettles, Settled, Ended, Answers, kin
  <2> QED
    BY <1>6, <2>3, <2>4
<1>7. ASSUME UNCHANGED reviewVars PROVE ReviewTypes'
  BY <1>7 DEF reviewVars
<1> QED
  BY <1>1, <1>2, <1>3, <1>4, <1>5, <1>6, <1>7 DEF ReviewNext

(* The next child to be spawned is fresh.                                   *)
LEMMA UnspawnedStayNew ==
    ASSUME ReviewTypes, UnspawnedAreNew, [ReviewNext]_reviewVars
    PROVE  UnspawnedAreNew'
<1> USE MembersAreKnown DEF ReviewTypes, UnspawnedAreNew
<1>1. ASSUME NEW a \in Member, Enter(a) \/ Rejoin(a) \/ MessageWakes(a) PROVE UnspawnedAreNew'
  BY <1>1 DEF Enter, Rejoin, MessageWakes, Ended, kin
<1>2. ASSUME NEW a \in Member, Finish(a) \/ CancelDriver(a) PROVE UnspawnedAreNew'
  BY <1>2 DEF Finish, CancelDriver, kin
<1>3. ASSUME NEW a \in Member, NEW p \in {"done", "failed", "waiting"}, Leave(a, p)
      PROVE UnspawnedAreNew'
  BY <1>3 DEF Leave, At, kin
<1>4. ASSUME StartReview \/ ChildRefused \/ Regain \/ ShutDown PROVE UnspawnedAreNew'
  BY <1>4 DEF StartReview, ChildRefused, Regain, ShutDown, kin
<1>5. ASSUME SpawnChild PROVE UnspawnedAreNew'
  BY <1>5, ReviewAssumption DEF SpawnChild, Child
<1>6. ASSUME CoderSettles \/ ReviewerSettles PROVE UnspawnedAreNew'
  BY <1>6 DEF CoderSettles, ReviewerSettles, kin
<1>7. ASSUME UNCHANGED reviewVars PROVE UnspawnedAreNew'
  BY <1>7 DEF reviewVars
<1> QED
  BY <1>1, <1>2, <1>3, <1>4, <1>5, <1>6, <1>7 DEF ReviewNext

(* Only the holder of the lock works, whatever interrupts a turn.           *)
LEMMA TurnsStayAgreed ==
    ASSUME ReviewTypes, UnspawnedAreNew, TurnsAgree, [ReviewNext]_reviewVars
    PROVE  TurnsAgree'
<1> USE MembersAreKnown DEF ReviewTypes, TurnsAgree, At, Reviewing
<1>1. ASSUME NEW a \in Member, Enter(a) PROVE TurnsAgree'
  <2>1. \A b \in Child : driver[b] # "working"
    BY <1>1 DEF Enter
  <2>2. ~turnHeld /\ (At(Lead) => shutting)
    BY <1>1 DEF Enter
  <2>3. driver'[a] = "working" /\ \A b \in Member \ {a} : driver'[b] = driver[b]
    BY <1>1 DEF Enter
  <2>4. UNCHANGED <<phase, review, shutting>> /\ gate' = a /\ turnHeld' = (turnHeld \/ a = Lead)
    BY <1>1 DEF Enter
  <2>5. turnHeld' <=> gate' = Lead
    BY <2>2, <2>4
  <2>6. \A b \in Child : driver'[b] = "working" => gate' = b
    BY <2>1, <2>3, <2>4
  <2>6a. (At(Lead) => gate = Lead \/ shutting)'
    BY <2>2, <2>3, <2>4
  <2>6b. a = Lead => ~Reviewing
    BY <1>1 DEF Enter
  <2>6c. (gate # Free => At(gate))'
    BY <2>3, <2>4, <2>6b
  <2>7. (Reviewing => driver[Lead] = "working")'
    BY <2>3, <2>4
  <2> QED
    BY <2>5, <2>6, <2>6a, <2>6c, <2>7
<1>2. ASSUME NEW a \in Member, Rejoin(a) PROVE TurnsAgree'
  BY <1>2 DEF Rejoin
<1>3. ASSUME NEW a \in Member, MessageWakes(a) PROVE TurnsAgree'
  BY <1>3 DEF MessageWakes
<1>4. ASSUME NEW a \in Member, Finish(a) PROVE TurnsAgree'
  BY <1>4 DEF Finish
<1>5. ASSUME NEW a \in Member, CancelDriver(a) PROVE TurnsAgree'
  <2>1. driver'[a] = "none" /\ \A b \in Member \ {a} : driver'[b] = driver[b]
    BY <1>5 DEF CancelDriver
  <2>2. CASE a = Lead
    <3>1. gate' # Lead /\ ~turnHeld' /\ ~(Reviewing)'
      BY <1>5, <2>2 DEF CancelDriver, Free
    <3>2. gate' = (IF gate = Lead THEN Free ELSE gate)
      BY <1>5, <2>2 DEF CancelDriver
    <3>3. \A b \in Child : driver'[b] = "working" => gate' = b
      BY <2>1, <2>2, <3>2
    <3>4. (gate # Free => At(gate))'
      BY <2>1, <2>2, <3>2
    <3> QED
      BY <2>1, <2>2, <3>1, <3>3, <3>4
  <2>3. CASE a # Lead
    BY <1>5, <2>1, <2>3 DEF CancelDriver
  <2> QED
    BY <2>2, <2>3
<1>6. ASSUME NEW a \in Member, NEW p \in {"done", "failed", "waiting"}, Leave(a, p)
      PROVE TurnsAgree'
  <2>1. CASE a = Lead
    <3>1. ~turnHeld' /\ driver'[Lead] # "working"
      BY <1>6, <2>1 DEF Leave
    <3>2. gate' # Lead
      BY <1>6, <2>1 DEF Leave
    <3> QED
      BY <1>6, <2>1, <3>1, <3>2 DEF Leave
  <2>2. CASE a # Lead
    BY <1>6, <2>2 DEF Leave
  <2> QED
    BY <2>1, <2>2
<1>7. ASSUME StartReview PROVE TurnsAgree'
  BY <1>7 DEF StartReview
<1>8. ASSUME ChildRefused \/ Regain \/ ShutDown PROVE TurnsAgree'
  BY <1>8 DEF ChildRefused, Regain, ShutDown, Answers
<1>9. ASSUME SpawnChild PROVE TurnsAgree'
  <2>1. spawned' \in Member /\ spawned' # Lead /\ driver[spawned'] = "none"
    BY <1>9, ReviewAssumption DEF SpawnChild, UnspawnedAreNew
  <2> QED
    BY <1>9, <2>1 DEF SpawnChild
<1>10. ASSUME CoderSettles \/ ReviewerSettles PROVE TurnsAgree'
  BY <1>10 DEF CoderSettles, ReviewerSettles, Answers
<1>11. ASSUME UNCHANGED reviewVars PROVE TurnsAgree'
  BY <1>11 DEF reviewVars
<1> QED
  BY <1>1, <1>2, <1>3, <1>4, <1>5, <1>6, <1>7, <1>8, <1>9, <1>10, <1>11 DEF ReviewNext

(* What the loop reads of a coder is whole, and a pass is about it.         *)
LEMMA ArtifactStaysWhole ==
    ASSUME ReviewTypes, TurnsAgree, ArtifactIsWhole, PassIsEarned, [ReviewNext]_reviewVars
    PROVE  ArtifactIsWhole' /\ PassIsEarned'
<1> USE MembersAreKnown DEF ReviewTypes, ArtifactIsWhole, PassIsEarned, Reviewing
<1>1. ASSUME NEW a \in Member, Enter(a) \/ Rejoin(a) \/ MessageWakes(a)
      PROVE ArtifactIsWhole' /\ PassIsEarned'
  BY <1>1 DEF Enter, Rejoin, MessageWakes, Ended, kin, reviewBounds
<1>2. ASSUME NEW a \in Member, Finish(a) \/ CancelDriver(a)
      PROVE ArtifactIsWhole' /\ PassIsEarned'
  BY <1>2 DEF Finish, CancelDriver, kin, reviewBounds
<1>3. ASSUME NEW a \in Member, NEW p \in {"done", "failed", "waiting"}, Leave(a, p)
      PROVE ArtifactIsWhole' /\ PassIsEarned'
  BY <1>3 DEF Leave, kin, reviewBounds
<1>4. ASSUME StartReview \/ ChildRefused \/ Regain \/ ShutDown
      PROVE ArtifactIsWhole' /\ PassIsEarned'
  BY <1>4 DEF StartReview, ChildRefused, Regain, ShutDown, Answers, Nothing, kin, reviewBounds
<1>5. ASSUME SpawnChild PROVE ArtifactIsWhole' /\ PassIsEarned'
  BY <1>5 DEF SpawnChild, reviewBounds
<1>6. ASSUME CoderSettles PROVE ArtifactIsWhole' /\ PassIsEarned'
  BY <1>6 DEF CoderSettles, Settled, Ended, Answers, Nothing, kin, reviewBounds
<1>7. ASSUME ReviewerSettles PROVE ArtifactIsWhole' /\ PassIsEarned'
  BY <1>7 DEF ReviewerSettles, Passed, Settled, Ended, Answers, kin, reviewBounds
<1>8. ASSUME UNCHANGED reviewVars PROVE ArtifactIsWhole' /\ PassIsEarned'
  BY <1>8 DEF reviewVars
<1> QED
  BY <1>1, <1>2, <1>3, <1>4, <1>5, <1>6, <1>7, <1>8 DEF ReviewNext

(* For any number of children, iterations and wakes: a turn that yields the *)
(* team's lock for spawn_with_review works again only under it, the lock is *)
(* never left with somebody who waits, and a review passes only what a      *)
(* finished reviewer said of the whole result of a finished coder.          *)
THEOREM ReviewsAreSerial == ReviewSpec => []ReviewIsSerial
<1>1. ReviewInv /\ [ReviewNext]_reviewVars => ReviewInv'
  BY ReviewTypesKept, UnspawnedStayNew, TurnsStayAgreed, ArtifactStaysWhole DEF ReviewInv
<1>2. ReviewInv => ReviewIsSerial
  BY MembersAreKnown DEF ReviewInv, TurnsAgree, ReviewIsSerial, OneWorks, GateIsUsed, At
<1> QED
  BY <1>1, <1>2, ReviewStarts, PTL DEF ReviewSpec
-----------------------------------------------------------------------------
(* Adoption                                                                 *)

(* Nothing is completed, adopted or delivered when the team starts.         *)
LEMMA AdoptionStarts == AdoptionInit => AdoptionInv
<1> SUFFICES ASSUME AdoptionInit PROVE AdoptionInv
  OBVIOUS
<1> USE DEF AdoptionInit, Never, Completion
<1>1. AdoptionTypes
  BY DEF AdoptionTypes
<1>2. CompletionsGrow /\ CallIsBetween /\ DeliveryIsRecorded /\ FailureIsOld /\ ToldIsDone
  BY DEF CompletionsGrow, CallIsBetween, DeliveryIsRecorded, FailureIsOld, ToldIsDone
<1> QED
  BY <1>1, <1>2 DEF AdoptionInv

(* A coder that finishes has a later run than its last completion.          *)
LEMMA FinishKeepsAdoption ==
    ASSUME AdoptionInv, NEW c \in Coder, CoderFinishes(c) \/ CoderResumes(c)
    PROVE  AdoptionInv'
<1> USE DEF AdoptionInv, callVars, keepVars, leadVars
<1>1. /\ tree' \in [Coder -> Nat] /\ runs' \in [Coder -> Nat]
      /\ captures' \in [Coder -> BOOLEAN] /\ coding' \in [Coder -> {"active", "done", "failed"}]
  <2>1. CASE CoderFinishes(c)
    <3>1. tree' \in [Coder -> Nat]
      BY <2>1 DEF CoderFinishes, AdoptionTypes
    <3>2. runs' \in [Coder -> Nat]
      BY <2>1 DEF CoderFinishes, AdoptionTypes
    <3>3. captures' \in [Coder -> BOOLEAN] /\ coding' \in [Coder -> {"active", "done", "failed"}]
      BY <2>1 DEF CoderFinishes, AdoptionTypes
    <3> QED
      BY <3>1, <3>2, <3>3
  <2>2. CASE CoderResumes(c)
    BY <2>2 DEF CoderResumes, AdoptionTypes
  <2> QED
    BY <2>1, <2>2
<1>2. AdoptionTypes'
  BY <1>1 DEF CoderFinishes, CoderResumes, AdoptionTypes
<1>3. \A d \in Coder : tree'[d] >= tree[d] /\ runs'[d] >= runs[d] /\ (captures'[d] => captures[d] \/ runs'[d] > runs[d])
  BY DEF CoderFinishes, CoderResumes, AdoptionTypes
<1>4. \A d \in Coder : /\ completed[d].version \in Nat /\ completed[d].run \in Nat
                       /\ tree[d] \in Nat /\ runs[d] \in Nat /\ tree'[d] \in Nat /\ runs'[d] \in Nat
  BY <1>1 DEF AdoptionTypes, Completion
<1>5. UNCHANGED <<completed, adopted, delivery, callVars, keepVars>>
  BY DEF CoderFinishes, CoderResumes
<1>6. CompletionsGrow'
  BY <1>3, <1>4, <1>5 DEF CompletionsGrow
<1>7. CallIsBetween' /\ DeliveryIsRecorded' /\ FailureIsOld' /\ ToldIsDone'
  BY <1>5 DEF CallIsBetween, DeliveryIsRecorded, FailureIsOld, ToldIsDone
<1> QED
  BY <1>2, <1>6, <1>7

(* A capture takes the worktree as it is, under a run no call has seen.     *)
LEMMA CaptureKeepsAdoption ==
    ASSUME AdoptionInv, NEW c \in Coder, Capture(c)
    PROVE  AdoptionInv'
<1> USE DEF AdoptionInv, callVars, leadVars
<1> DEFINE new == [version |-> tree[c], turn |-> IF entered THEN entryTurn ELSE 0, run |-> runs[c]]
<1>1. new \in Completion /\ new.version = tree[c] /\ new.run = runs[c]
  BY DEF AdoptionTypes, Completion
<1>2. \A d \in Coder : /\ completed[d].version \in Nat /\ completed[d].run \in Nat
                       /\ adopted[d].version \in Nat /\ tree[d] \in Nat /\ runs[d] \in Nat
  BY DEF AdoptionTypes, Completion
<1>3. wanted.version \in Nat /\ wanted.run \in Nat /\ told.what.version \in Nat /\ told.what.run \in Nat
  BY DEF AdoptionTypes, Completion
<1>4. UNCHANGED <<tree, runs, adopted, delivery, entryTurn, adopting, stage, wanted, cancelled, told, written>>
  BY DEF Capture
<1>5. completed[c].version <= tree[c] /\ completed[c].run < runs[c]
  BY DEF Capture, CompletionsGrow
<1>6. captures' = [captures EXCEPT ![c] = FALSE]
  BY DEF Capture
<1>7. CASE /\ completed' = [completed EXCEPT ![c] = new]
           /\ retained' = [retained EXCEPT ![c] = FALSE] /\ UNCHANGED coding
  <2> HIDE DEF new
  <2>1. \A d \in Coder : completed'[d] = IF d = c THEN new ELSE completed[d]
    BY <1>7 DEF AdoptionTypes
  <2>2. AdoptionTypes'
    BY <1>1, <1>4, <1>6, <1>7 DEF AdoptionTypes
  <2>3. CompletionsGrow'
    BY <1>1, <1>2, <1>4, <1>5, <1>6, <2>1 DEF CompletionsGrow, AdoptionTypes
  <2>4. CallIsBetween'
    <3>1. CASE stage = "idle"
      BY <1>4, <3>1 DEF CallIsBetween
    <3>2. CASE stage # "idle"
      <4>1. adopting \in Coder
        BY <3>2 DEF AdoptionTypes
      <4> QED
        BY <1>1, <1>2, <1>3, <1>4, <1>5, <2>1, <3>2, <4>1 DEF CallIsBetween
    <3> QED
      BY <3>1, <3>2
  <2>5. DeliveryIsRecorded'
    BY <1>4 DEF DeliveryIsRecorded
  <2>6. told.how = "failed" => told.of \in Coder
    BY DEF AdoptionTypes
  <2>7. FailureIsOld'
    BY <1>1, <1>2, <1>3, <1>4, <1>5, <2>1, <2>6 DEF FailureIsOld
  <2>8. ASSUME told.how = "failed", completed'[told.of] = told.what
        PROVE  told.what.version \in written[told.of] \/ retained'[told.of]
    <3>1. told.of # c
      BY <1>1, <1>2, <1>3, <1>5, <2>1, <2>6, <2>8 DEF FailureIsOld
    <3> QED
      BY <1>7, <2>1, <2>6, <2>8, <3>1 DEF ToldIsDone, AdoptionTypes
  <2>9. ToldIsDone'
    BY <1>4, <2>8 DEF ToldIsDone
  <2> QED
    BY <2>2, <2>3, <2>4, <2>5, <2>7, <2>9
<1>8. CASE /\ coding' = [coding EXCEPT ![c] = "failed"]
           /\ retained' = [retained EXCEPT ![c] = TRUE] /\ UNCHANGED completed
  <2>1. AdoptionTypes'
    BY <1>4, <1>6, <1>8 DEF AdoptionTypes
  <2>2. CompletionsGrow'
    BY <1>4, <1>6, <1>8 DEF CompletionsGrow, AdoptionTypes
  <2>3. CallIsBetween' /\ DeliveryIsRecorded' /\ FailureIsOld'
    BY <1>4, <1>8 DEF CallIsBetween, DeliveryIsRecorded, FailureIsOld
  <2>4. \A d \in Coder : retained[d] => retained'[d]
    BY <1>8 DEF AdoptionTypes
  <2>5. ToldIsDone'
    BY <1>4, <1>8, <2>4 DEF ToldIsDone, AdoptionTypes
  <2> QED
    BY <2>1, <2>2, <2>3, <2>5
<1> QED
  BY <1>7, <1>8 DEF Capture

(* A call starts from the last completion, or answers without an effect.    *)
LEMMA AdoptKeepsAdoption ==
    ASSUME AdoptionInv, NEW c \in Coder, AdoptAgent(c)
    PROVE  AdoptionInv'
<1> USE DEF AdoptionInv, coderVars, leadVars
<1>1. \A d \in Coder : /\ completed[d] \in Completion
                       /\ completed[d].version \in Nat /\ completed[d].run \in Nat
                       /\ adopted[d].version \in Nat /\ delivery[d] \in Nat
  BY DEF AdoptionTypes, Completion
<1>2. /\ stage = "idle" /\ adopting' = c /\ wanted' = completed[c] /\ stage' \in {"diff", "return"}
      /\ UNCHANGED <<coderVars, adopted, delivery, entryTurn, written>>
  BY DEF AdoptAgent
<1>3. CompletionsGrow' /\ CallIsBetween' /\ DeliveryIsRecorded'
  BY <1>1, <1>2 DEF CompletionsGrow, CallIsBetween, DeliveryIsRecorded
<1>4. CASE UNCHANGED <<told, retained>>
  <2>1. AdoptionTypes'
    BY <1>1, <1>2, <1>4 DEF AdoptionTypes
  <2>2. FailureIsOld' /\ ToldIsDone'
    BY <1>2, <1>4 DEF FailureIsOld, ToldIsDone
  <2> QED
    BY <1>3, <2>1, <2>2
<1>5. CASE /\ told' = [how |-> "refused", what |-> completed[c], of |-> c]
           /\ UNCHANGED retained
  <2>1. AdoptionTypes'
    BY <1>1, <1>2, <1>5 DEF AdoptionTypes
  <2>2. FailureIsOld' /\ ToldIsDone'
    BY <1>5 DEF FailureIsOld, ToldIsDone
  <2> QED
    BY <1>3, <2>1, <2>2
<1>6. CASE /\ adopted[c] = completed[c]
           /\ told' = [how |-> "already", what |-> completed[c], of |-> c]
           /\ retained' = Released(c, completed[c].version)
  <2>1. retained' \in [Coder -> BOOLEAN]
    BY <1>6 DEF Released, AdoptionTypes
  <2>2. AdoptionTypes'
    BY <1>1, <1>2, <1>6, <2>1 DEF AdoptionTypes
  <2>3. delivery[c] = completed[c].version
    BY <1>2, <1>6 DEF DeliveryIsRecorded
  <2>4. FailureIsOld' /\ ToldIsDone'
    BY <1>1, <1>2, <1>6, <2>3 DEF FailureIsOld, ToldIsDone
  <2> QED
    BY <1>3, <2>2, <2>4
<1> QED
  BY <1>4, <1>5, <1>6 DEF AdoptAgent

(* The increment brings the delivery to the version the call captured.      *)
LEMMA ApplyKeepsAdoption ==
    ASSUME AdoptionInv, Increment \/ ApplyIncrement
    PROVE  AdoptionInv'
<1> USE DEF AdoptionInv, coderVars, leadVars, keepVars
<1>1. adopting \in Coder /\ stage \in {"diff", "apply"} /\ stage' \in {"apply", "record", "keep"}
  BY DEF Increment, ApplyIncrement, AdoptionTypes
<1>2. UNCHANGED <<coderVars, adopted, leadVars, adopting, wanted, cancelled, keepVars, told>>
  BY DEF Increment, ApplyIncrement
<1>3. /\ wanted.version \in Nat /\ adopted[adopting].version \in Nat /\ delivery[adopting] \in Nat
      /\ told.what.version \in Nat /\ \A d \in Coder : delivery[d] \in Nat
  BY <1>1 DEF AdoptionTypes, Completion
<1>4. delivery[adopting] = adopted[adopting].version /\ adopted[adopting].version <= wanted.version
  BY <1>1 DEF DeliveryIsRecorded, CallIsBetween
<1>5. \/ stage' = "record" /\ delivery' = [delivery EXCEPT ![adopting] = wanted.version]
      \/ stage' # "record" /\ delivery' = delivery
  <2>1. CASE Increment
    BY <1>1, <1>4, <2>1 DEF Increment, AdoptionTypes
  <2>2. CASE ApplyIncrement
    <3>1. delivery[adopting] + (wanted.version - adopted[adopting].version) = wanted.version
      BY <1>3, <1>4
    <3> QED
      BY <2>2, <3>1 DEF ApplyIncrement
  <2> QED
    BY <2>1, <2>2
<1>6. delivery' \in [Coder -> Nat] /\ \A d \in Coder : delivery'[d] >= delivery[d]
  BY <1>1, <1>3, <1>4, <1>5 DEF AdoptionTypes
<1>7. AdoptionTypes'
  BY <1>1, <1>2, <1>6 DEF AdoptionTypes
<1>8. CompletionsGrow' /\ CallIsBetween' /\ FailureIsOld'
  BY <1>1, <1>2, <1>4 DEF CompletionsGrow, CallIsBetween, FailureIsOld
<1>9. DeliveryIsRecorded'
  BY <1>1, <1>2, <1>5 DEF DeliveryIsRecorded, AdoptionTypes
<1>10. ToldIsDone'
  <2>1. told.how # "nothing" => told.of \in Coder /\ delivery[told.of] \in Nat /\ delivery'[told.of] \in Nat
    BY <1>3, <1>6 DEF AdoptionTypes
  <2> QED
    BY <1>2, <1>3, <1>6, <2>1 DEF ToldIsDone
<1> QED
  BY <1>7, <1>8, <1>9, <1>10

(* The answer of a call is about the version it captured.                   *)
LEMMA AnswerKeepsAdoption ==
    ASSUME AdoptionInv, Keep \/ Record
    PROVE  AdoptionInv'
<1> USE DEF AdoptionInv, coderVars, leadVars
<1>1. /\ adopting \in Coder /\ stage \in {"keep", "record"} /\ stage' = "return"
      /\ UNCHANGED <<coderVars, delivery, leadVars, adopting, wanted, cancelled>>
  BY DEF Keep, Record, AdoptionTypes
<1>2. /\ wanted \in Completion /\ wanted.version \in Nat /\ wanted.run \in Nat
      /\ completed[adopting].version \in Nat /\ delivery[adopting] \in Nat
  BY <1>1 DEF AdoptionTypes, Completion
<1>3. wanted.version <= completed[adopting].version /\ wanted.run <= completed[adopting].run
  BY <1>1 DEF CallIsBetween
<1>4. CallIsBetween'
  BY <1>1, <1>3 DEF CallIsBetween
<1>5. CASE Keep
  <2>1. /\ stage = "keep" /\ UNCHANGED adopted
        /\ told' = [how |-> "failed", what |-> wanted, of |-> adopting]
    BY <1>5 DEF Keep
  <2>2. written' \in [Coder -> SUBSET Nat] /\ retained' \in [Coder -> BOOLEAN]
    <3>1. written[adopting] \cup {wanted.version} \in SUBSET Nat
      BY <1>1, <1>2 DEF AdoptionTypes
    <3>2. written' \in [Coder -> SUBSET Nat]
      <4> DEFINE w == written[adopting] \cup {wanted.version}
      <4>1. written' = written \/ written' = [written EXCEPT ![adopting] = w]
        BY <1>5 DEF Keep
      <4> HIDE DEF w
      <4>2. w \in SUBSET Nat /\ written \in [Coder -> SUBSET Nat]
        BY <3>1 DEF w, AdoptionTypes
      <4> QED
        BY <4>1, <4>2
    <3>3. retained' \in [Coder -> BOOLEAN]
      BY <1>5 DEF Keep, AdoptionTypes
    <3> QED
      BY <3>2, <3>3
  <2>3. wanted.version \in written'[adopting] \/ retained'[adopting]
    BY <1>1, <1>5 DEF Keep, AdoptionTypes
  <2>4. AdoptionTypes'
    BY <1>1, <1>2, <2>1, <2>2 DEF AdoptionTypes
  <2>5. CompletionsGrow' /\ DeliveryIsRecorded'
    BY <1>1, <2>1 DEF CompletionsGrow, DeliveryIsRecorded
  <2>6. FailureIsOld' /\ ToldIsDone'
    BY <1>1, <1>3, <2>1, <2>3 DEF FailureIsOld, ToldIsDone
  <2> QED
    BY <1>4, <2>4, <2>5, <2>6
<1>6. CASE Record
  <2>1. /\ stage = "record" /\ UNCHANGED written
        /\ adopted' = [adopted EXCEPT ![adopting] = wanted]
        /\ told' = [how |-> "adopted", what |-> wanted, of |-> adopting]
    BY <1>6 DEF Record
  <2>2. retained' \in [Coder -> BOOLEAN]
    BY <1>6 DEF Record, Released, AdoptionTypes
  <2>3. AdoptionTypes'
    BY <1>1, <1>2, <2>1, <2>2 DEF AdoptionTypes
  <2>4. delivery[adopting] = wanted.version
    BY <1>1, <2>1 DEF DeliveryIsRecorded
  <2>5. CompletionsGrow'
    BY <1>1, <1>3, <2>1 DEF CompletionsGrow, AdoptionTypes
  <2>6. DeliveryIsRecorded'
    BY <1>1, <2>1, <2>4 DEF DeliveryIsRecorded, AdoptionTypes
  <2>7. FailureIsOld' /\ ToldIsDone'
    BY <1>1, <1>2, <2>1, <2>4 DEF FailureIsOld, ToldIsDone
  <2> QED
    BY <1>4, <2>3, <2>5, <2>6, <2>7
<1> QED
  BY <1>5, <1>6

(* What does not touch completions or the delivery keeps the invariant.     *)
LEMMA TurnKeepsAdoption ==
    ASSUME AdoptionInv, CancelAdoption \/ Return \/ LeadEnds \/ LeadEnters \/ UNCHANGED adoptionVars
    PROVE  AdoptionInv'
<1> USE DEF AdoptionInv, coderVars, leadVars, keepVars, callVars, adoptionVars
<1>1. /\ UNCHANGED <<coderVars, adopted, delivery, keepVars, told>>
      /\ \/ UNCHANGED <<adopting, stage, wanted>>
         \/ stage = "return" /\ stage' = "idle" /\ wanted' = Never
  BY DEF CancelAdoption, Return, LeadEnds, LeadEnters
<1>2. entryTurn' \in Nat
  BY DEF CancelAdoption, Return, LeadEnds, LeadEnters, AdoptionTypes
<1>3. AdoptionTypes'
  BY <1>1, <1>2 DEF AdoptionTypes, Never, Completion
<1>4. CompletionsGrow' /\ FailureIsOld' /\ ToldIsDone'
  BY <1>1 DEF CompletionsGrow, FailureIsOld, ToldIsDone
<1>5. CallIsBetween' /\ DeliveryIsRecorded'
  BY <1>1 DEF CallIsBetween, DeliveryIsRecorded
<1> QED
  BY <1>3, <1>4, <1>5

(* For any number of coders, completions, turns and mishaps: between two    *)
(* calls of adopt_agent the delivery holds of every coder exactly what is   *)
(* recorded as adopted, a call that said "adopted" delivered what it had    *)
(* captured, and a candidate it could not apply is kept.                    *)
THEOREM AdoptionsAreExact == AdoptionSpec => []AdoptionIsExact
<1>1. AdoptionInv /\ [AdoptionNext]_adoptionVars => AdoptionInv'
  BY FinishKeepsAdoption, CaptureKeepsAdoption, AdoptKeepsAdoption, ApplyKeepsAdoption,
     AnswerKeepsAdoption, TurnKeepsAdoption DEF AdoptionNext
<1>2. AdoptionInv => AdoptionIsExact
  BY DEF AdoptionInv, AdoptionIsExact, DeliveryIsAdopted, DeliveryIsRecorded
<1> QED
  BY <1>1, <1>2, AdoptionStarts, PTL DEF AdoptionSpec
-----------------------------------------------------------------------------
(* The roster                                                               *)

(* Nobody is seated before the first turn.                                  *)
LEMMA RosterStarts == RosterInit => RosterInv
<1> SUFFICES ASSUME RosterInit PROVE RosterInv
  OBVIOUS
<1>1. RosterTypes
  <2>1. <<>> \in Seq(Nat) /\ Len(<<>>) <= Len(Roles)
    BY EmptySeq, RosterAssumption
  <2> QED
    BY <2>1 DEF RosterInit, RosterTypes
<1>2. ~Locked
  BY DEF RosterInit, Locked
<1>3. OneSeats /\ AidsAreFresh /\ SeatsAreBuilt /\ TeamOrNobody
  BY <1>2 DEF RosterInit, OneSeats, Holds, AidsAreFresh, SeatsAreBuilt, TeamOrNobody
<1> QED
  BY <1>1, <1>3 DEF RosterInv

(* The first n members of a sequence.                                       *)
LEMMA PrefixOfPeers ==
    ASSUME NEW S, NEW b \in Seq(S), NEW n \in Nat, n <= Len(b)
    PROVE  /\ SubSeq(b, 1, n) \in Seq(S) /\ Len(SubSeq(b, 1, n)) = n
           /\ \A i \in 1..n : SubSeq(b, 1, n)[i] = b[i]
<1>1. \A i \in 1..n : b[i] \in S
  OBVIOUS
<1>2. Len(SubSeq(b, 1, n)) = IF 1 <= n THEN n - 1 + 1 ELSE 0
  BY <1>1, SubSeqProperties
<1>3. SubSeq(b, 1, n) \in Seq(S) /\ \A i \in 1..n : SubSeq(b, 1, n)[i] = b[i]
  OBVIOUS
<1> QED
  BY <1>2, <1>3

(* What a move of one turn does to the lock.                                *)
LEMMA LockMoves ==
    ASSUME RosterTypes, OneSeats, NEW t \in FirstTurn,
           NEW w \in {"waiting", "seating", "rolling", "runs", "raised"}, Move(t, w)
    PROVE  /\ w \in {"seating", "rolling"} => Locked'
           /\ w \notin {"seating", "rolling"} /\ Holds(t) => ~Locked'
           /\ w \notin {"seating", "rolling"} /\ ~Holds(t) => (Locked' <=> Locked)
           /\ turn' \in [FirstTurn -> {"new", "waiting", "seating", "rolling", "runs", "raised"}]
           /\ \A u \in FirstTurn : turn'[u] = IF u = t THEN w ELSE turn[u]
BY DEF RosterTypes, OneSeats, Move, Locked, Holds

(* A turn that asks for the team, or gets the lock.                         *)
LEMMA AskKeepsRoster ==
    ASSUME RosterInv, NEW t \in FirstTurn, AskTeam(t) \/ HoldLock(t)
    PROVE  RosterInv'
<1> USE DEF RosterInv
<1>1. PICK w \in {"waiting", "seating", "runs", "raised"} :
         /\ Move(t, w) /\ ~Holds(t)
         /\ w = "seating" => ~Locked /\ ~closing /\ ~prebuilt /\ built' = <<>>
         /\ w = "runs" => prebuilt
  BY DEF AskTeam, HoldLock, Holds
<1>2. UNCHANGED <<seat, lent, pending, aids, prebuilt, closing>>
  BY DEF AskTeam, HoldLock
<1>3. \/ built' = built
      \/ ~Locked /\ built' = <<>>
  BY DEF AskTeam, HoldLock
<1>4. /\ w = "seating" => Locked'
      /\ w # "seating" => (Locked' <=> Locked)
      /\ turn' \in [FirstTurn -> {"new", "waiting", "seating", "rolling", "runs", "raised"}]
      /\ \A u \in FirstTurn : turn'[u] = IF u = t THEN w ELSE turn[u]
  BY <1>1, LockMoves
<1>5. RosterTypes'
  <2>1. <<>> \in Seq(Nat) /\ Len(<<>>) <= Len(Roles)
    BY EmptySeq, RosterAssumption
  <2> QED
    BY <1>2, <1>3, <1>4, <2>1 DEF RosterTypes
<1>6. ~Locked => pending = "none"
  BY DEF OneSeats, Locked, RosterTypes
<1>7. OneSeats'
  <2>1. \A u, v \in FirstTurn : Holds(u)' /\ Holds(v)' => u = v
    BY <1>1, <1>4 DEF OneSeats, Holds, Locked
  <2>2. Locked' => ~prebuilt'
    BY <1>1, <1>2, <1>4 DEF OneSeats
  <2>3. pending' # "none" => \E u \in FirstTurn : turn'[u] = "seating" /\ Len(built') < Len(Roles)
    BY <1>1, <1>2, <1>3, <1>4, <1>6 DEF OneSeats, Holds
  <2>4. (\E u \in FirstTurn : turn'[u] = "runs") => prebuilt'
    BY <1>1, <1>2, <1>4 DEF OneSeats
  <2> QED
    BY <2>1, <2>2, <2>3, <2>4 DEF OneSeats
<1>8. AidsAreFresh'
  BY <1>2, <1>3 DEF AidsAreFresh
<1>9. SeatsAreBuilt'
  <2>1. CASE w = "seating"
    BY <1>1, <1>2, <1>6, <2>1 DEF SeatsAreBuilt, TeamOrNobody, Peer
  <2>2. CASE w # "seating"
    BY <1>2, <1>3, <1>4, <2>2 DEF SeatsAreBuilt, Peer
  <2> QED
    BY <2>1, <2>2
<1>10. TeamOrNobody'
  BY <1>1, <1>2, <1>4 DEF TeamOrNobody, WholeTeam, SeatsOf
<1> QED
  BY <1>5, <1>7, <1>8, <1>9, <1>10

(* A fault while a peer is seated starts the rollback of those before it.   *)
LEMMA FaultKeepsRoster ==
    ASSUME RosterInv, NEW t \in FirstTurn, turn[t] = "seating", Move(t, "rolling"),
           pending' = "none", aids' \in {aids, aids + 1},
           UNCHANGED <<built, prebuilt, closing>>,
           \/ pending # "announce" /\ UNCHANGED <<seat, lent>>
           \/ pending = "announce" /\ seat' = Without(aids) /\ lent' = lent \ {aids}
    PROVE  RosterInv'
<1> USE DEF RosterInv
<1>1. /\ Locked /\ Locked'
      /\ turn' \in [FirstTurn -> {"new", "waiting", "seating", "rolling", "runs", "raised"}]
      /\ \A u \in FirstTurn : turn'[u] = IF u = t THEN "rolling" ELSE turn[u]
  BY LockMoves DEF Locked
<1>2. RosterTypes'
  BY <1>1 DEF RosterTypes
<1>3. OneSeats'
  BY <1>1 DEF OneSeats, Holds
<1>4. aids \in Nat /\ \A i \in 1..Len(built) : built[i] \in Nat
  BY DEF RosterTypes
<1>5. AidsAreFresh'
  BY <1>4 DEF AidsAreFresh
<1>6. SeatsAreBuilt'
  <2>1. CASE pending # "announce" /\ UNCHANGED <<seat, lent>>
    BY <1>1, <2>1 DEF SeatsAreBuilt, Peer
  <2>2. CASE pending = "announce" /\ seat' = Without(aids) /\ lent' = lent \ {aids}
    <3>1. \A i \in 1..Len(built) : built[i] # aids
      BY <1>4, <2>2 DEF AidsAreFresh
    <3>2. \A s \in seat' : s \in seat /\ s[1] # aids
      BY <2>2 DEF Without
    <3>3. \A s \in seat' : \E i \in 1..Len(built) : s = <<built[i], Roles[i]>>
      BY <1>1, <3>2 DEF SeatsAreBuilt, Peer
    <3>4. \A i \in 1..Len(built) : <<built[i], Roles[i]>> \in seat'
      BY <1>1, <2>2, <3>1 DEF SeatsAreBuilt, Without
    <3>5. lent' = {s[1] : s \in seat'}
      BY <1>1, <2>2 DEF SeatsAreBuilt, Without
    <3> QED
      BY <3>3, <3>4, <3>5 DEF SeatsAreBuilt, Peer
  <2> QED
    BY <2>1, <2>2
<1>7. TeamOrNobody'
  BY <1>1 DEF TeamOrNobody, OneSeats
<1> QED
  BY <1>2, <1>3, <1>5, <1>6, <1>7

(* A peer is seated: it gets an aid, an environment, and is announced.      *)
LEMMA SeatKeepsRoster ==
    ASSUME RosterInv, NEW t \in FirstTurn, SeatPeer(t) \/ Acquired(t) \/ Announced(t)
    PROVE  RosterInv'
<1> USE DEF RosterInv
<1>1. turn[t] = "seating" /\ Locked /\ aids \in Nat /\ \A i \in 1..Len(built) : built[i] \in Nat
  BY DEF SeatPeer, Acquired, Announced, Locked, RosterTypes
<1>2. CASE Move(t, "rolling")
  <2>1. turn' # turn
    BY <1>1, <1>2 DEF Move, RosterTypes
  <2> QED
    BY <1>1, <1>2, <2>1, FaultKeepsRoster DEF SeatPeer, Acquired, Announced
<1>3. CASE UNCHANGED turn
  <2>1. UNCHANGED <<prebuilt, closing>> /\ (Locked' <=> Locked) /\ ~prebuilt
    BY <1>1, <1>3 DEF SeatPeer, Acquired, Announced, Locked, OneSeats
  <2>2. turn' # [turn EXCEPT ![t] = "rolling"]
    BY <1>1, <1>3 DEF RosterTypes
  <2>3. TeamOrNobody'
    BY <1>1, <2>1 DEF TeamOrNobody
  <2>4. CASE SeatPeer(t)
    <3>1. /\ aids' = aids + 1 /\ pending = "none" /\ pending' = "acquire"
          /\ Len(built) < Len(Roles) /\ UNCHANGED <<seat, lent, built>>
      BY <2>2, <2>4 DEF SeatPeer, Move
    <3>2. RosterTypes'
      BY <1>1, <1>3, <2>1, <3>1 DEF RosterTypes
    <3>3. OneSeats'
      BY <1>1, <1>3, <2>1, <3>1 DEF OneSeats, Holds
    <3>4. AidsAreFresh'
      BY <1>1, <3>1 DEF AidsAreFresh
    <3>5. SeatsAreBuilt'
      BY <1>1, <2>1, <3>1 DEF SeatsAreBuilt, Peer
    <3> QED
      BY <2>3, <3>2, <3>3, <3>4, <3>5
  <2>5. CASE Acquired(t)
    <3>1. /\ pending = "acquire" /\ pending' = "announce"
          /\ lent' = lent \cup {aids} /\ seat' = seat \cup {<<aids, Roles[Len(built) + 1]>>}
          /\ UNCHANGED <<built, aids>>
      BY <2>2, <2>5 DEF Acquired, Move
    <3>2. RosterTypes' /\ AidsAreFresh'
      BY <1>1, <1>3, <2>1, <3>1 DEF RosterTypes, AidsAreFresh
    <3>3. OneSeats'
      BY <1>1, <1>3, <2>1, <3>1 DEF OneSeats, Holds
    <3>4. lent' = {s[1] : s \in seat'}
      <4> DEFINE new == <<aids, Roles[Len(built) + 1]>>
      <4>1. new[1] = aids /\ seat' = seat \cup {new}
        BY <3>1
      <4>2. lent = {s[1] : s \in seat}
        BY <1>1 DEF SeatsAreBuilt
      <4> HIDE DEF new
      <4> QED
        BY <3>1, <4>1, <4>2
    <3>5. SeatsAreBuilt'
      BY <1>1, <2>1, <3>1, <3>4 DEF SeatsAreBuilt, Peer
    <3> QED
      BY <2>3, <3>2, <3>3, <3>5
  <2>6. CASE Announced(t)
    <3>1. /\ pending = "announce" /\ pending' = "none" /\ built' = Append(built, aids)
          /\ UNCHANGED <<seat, lent, aids>>
      BY <2>2, <2>6 DEF Announced, Move
    <3>2. /\ Len(built) < Len(Roles) /\ Len(built) \in Nat /\ built \in Seq(Nat)
          /\ built' \in Seq(Nat) /\ Len(built') = Len(built) + 1
          /\ built'[Len(built) + 1] = aids
          /\ \A i \in 1..Len(built) : built'[i] = built[i]
      BY <1>1, <3>1 DEF OneSeats, RosterTypes
    <3>3. RosterTypes'
      BY <1>1, <1>3, <2>1, <3>1, <3>2, RosterAssumption DEF RosterTypes
    <3>4. OneSeats'
      BY <1>3, <2>1, <3>1 DEF OneSeats, Holds
    <3>5. \A i \in 1..Len(built') : i \in 1..Len(built) \/ i = Len(built) + 1
      BY <3>2
    <3>6. AidsAreFresh'
      BY <1>1, <3>1, <3>2, <3>5 DEF AidsAreFresh
    <3>7. \A i \in 1..Len(built) : i \in 1..Len(built')
      BY <3>2
    <3>8. Len(built) + 1 \in 1..Len(built')
      BY <3>2
    <3>9. SeatsAreBuilt'
      BY <1>1, <3>1, <3>2, <3>5, <3>7, <3>8 DEF SeatsAreBuilt, Peer
    <3> QED
      BY <2>3, <3>3, <3>4, <3>6, <3>9
  <2> QED
    BY <2>4, <2>5, <2>6
<1> QED
  BY <1>2, <1>3 DEF SeatPeer, Acquired, Announced

(* With as many peers as roles, every role has exactly one.                 *)
LEMMA ReadyKeepsRoster ==
    ASSUME RosterInv, NEW t \in FirstTurn, TeamIsReady(t)
    PROVE  RosterInv'
<1> USE DEF RosterInv
<1>1. /\ turn[t] = "seating" /\ Holds(t) /\ Locked /\ pending = "none" /\ Len(built) = Len(Roles)
      /\ prebuilt' = TRUE /\ Move(t, "runs")
      /\ UNCHANGED <<seat, lent, built, pending, aids, closing>>
  BY DEF TeamIsReady, Holds, Locked
<1>2. /\ ~Locked'
      /\ turn' \in [FirstTurn -> {"new", "waiting", "seating", "rolling", "runs", "raised"}]
      /\ \A u \in FirstTurn : turn'[u] = IF u = t THEN "runs" ELSE turn[u]
  BY <1>1, LockMoves
<1>3. RosterTypes' /\ AidsAreFresh' /\ SeatsAreBuilt'
  BY <1>1, <1>2 DEF RosterTypes, AidsAreFresh, SeatsAreBuilt
<1>4. OneSeats'
  BY <1>1, <1>2 DEF OneSeats, Holds, Locked
<1>5. ASSUME NEW i \in 1..Len(Roles)
      PROVE  \E s \in seat : SeatsOf(Roles[i]) = {s}
  <2>1. <<built[i], Roles[i]>> \in seat
    BY <1>1, <1>5 DEF SeatsAreBuilt
  <2>2. ASSUME NEW s \in seat, s[2] = Roles[i] PROVE s = <<built[i], Roles[i]>>
    <3>1. PICK j \in 1..Len(built) : s = <<built[j], Roles[j]>>
      BY <1>1, <2>2 DEF SeatsAreBuilt, Peer
    <3>2. j = i
      BY <1>1, <2>2, <3>1, RosterAssumption
    <3> QED
      BY <3>1, <3>2
  <2>3. SeatsOf(Roles[i]) = {<<built[i], Roles[i]>>}
    BY <2>1, <2>2 DEF SeatsOf
  <2> QED
    BY <2>1, <2>3
<1>6. TeamOrNobody'
  BY <1>1, <1>5 DEF TeamOrNobody, WholeTeam, SeatsOf, SeatsAreBuilt
<1> QED
  BY <1>3, <1>4, <1>6

(* The rollback takes the last peer, and only that one, out of the table.   *)
LEMMA RollBackKeepsRoster ==
    ASSUME RosterInv, NEW t \in FirstTurn, RollBack(t)
    PROVE  RosterInv'
<1> USE DEF RosterInv
<1> DEFINE last == built[Len(built)]
<1>1. /\ turn[t] = "rolling" /\ Holds(t) /\ Locked /\ ~prebuilt /\ built # <<>>
      /\ seat' = Without(last) /\ lent' = lent \ {last}
      /\ built' = SubSeq(built, 1, Len(built) - 1)
      /\ UNCHANGED <<pending, aids, prebuilt>>
  BY DEF RollBack, Holds, Locked, OneSeats
<1>2. pending = "none"
  BY <1>1 DEF OneSeats, Holds
<1>3. /\ built \in Seq(Nat) /\ Len(built) \in Nat /\ Len(built) > 0
      /\ built' \in Seq(Nat) /\ Len(built') = Len(built) - 1
      /\ \A i \in 1..Len(built') : built'[i] = built[i] /\ i \in 1..Len(built) /\ i # Len(built)
      /\ \A i \in 1..Len(built) : i \in 1..Len(built') \/ i = Len(built)
  <2>1. built \in Seq(Nat) /\ Len(built) \in Nat /\ Len(built) > 0
    BY <1>1, EmptySeq DEF RosterTypes
  <2>2. \A i \in 1..(Len(built) - 1) : built[i] \in Nat
    BY <2>1
  <2>3. /\ built' \in Seq(Nat) /\ Len(built') = Len(built) - 1
        /\ \A i \in 1..(Len(built) - 1) : built'[i] = built[i]
    <3>1. Len(built) - 1 \in Nat /\ Len(built) - 1 <= Len(built)
      BY <2>1
    <3> QED
      BY <1>1, <2>1, <3>1, PrefixOfPeers
  <2>4. \A i \in 1..Len(built') : built'[i] = built[i] /\ i \in 1..Len(built) /\ i # Len(built)
    BY <2>1, <2>3
  <2>5. \A i \in 1..Len(built) : i \in 1..Len(built') \/ i = Len(built)
    BY <2>1, <2>3
  <2> QED
    BY <2>1, <2>3, <2>4, <2>5
<1>4. /\ \A i \in 1..Len(built) : built[i] <= aids
      /\ \A i, j \in 1..Len(built) : built[i] = built[j] => i = j
  BY DEF AidsAreFresh
<1> HIDE DEF RosterInv
<1>5. \A i \in 1..Len(built') : built[i] # last
  <2>1. Len(built) \in 1..Len(built)
    BY <1>3
  <2> QED
    BY <1>3, <1>4, <2>1
<1>5a. AidsAreFresh'
  <2>1. \A i \in 1..Len(built') : built'[i] <= aids
    BY <1>3, <1>4
  <2>2. \A i, j \in 1..Len(built') : built'[i] = built'[j] => i = j
    BY <1>3, <1>4
  <2> QED
    BY <1>1, <1>2, <2>1, <2>2 DEF AidsAreFresh
<1> USE DEF RosterInv
<1>6. /\ \A s \in seat' : \E i \in 1..Len(built') : s = <<built'[i], Roles[i]>>
      /\ \A i \in 1..Len(built') : <<built'[i], Roles[i]>> \in seat'
      /\ lent' = {s[1] : s \in seat'}
  <2>1. \A s \in seat' : \E i \in 1..Len(built') : s = <<built'[i], Roles[i]>>
    <3> SUFFICES ASSUME NEW s \in seat' PROVE \E i \in 1..Len(built') : s = <<built'[i], Roles[i]>>
      OBVIOUS
    <3>1. s \in seat /\ s[1] # last
      BY <1>1 DEF Without
    <3>2. PICK i \in 1..Len(built) : s = <<built[i], Roles[i]>>
      BY <1>1, <1>2, <3>1 DEF SeatsAreBuilt, Peer
    <3>3. i # Len(built)
      BY <3>1, <3>2
    <3> QED
      BY <1>3, <3>2, <3>3
  <2>2. \A i \in 1..Len(built') : <<built'[i], Roles[i]>> \in seat'
    BY <1>1, <1>3, <1>5 DEF SeatsAreBuilt, Without
  <2>3. lent' = {s[1] : s \in seat'}
    BY <1>1 DEF SeatsAreBuilt, Without
  <2> QED
    BY <2>1, <2>2, <2>3
<1>7. SeatsAreBuilt'
  BY <1>1, <1>2, <1>6 DEF SeatsAreBuilt, Peer
<1>8. CASE UNCHANGED <<turn, closing>>
  <2>0. Len(built') <= Len(Roles)
    BY <1>3, RosterAssumption DEF RosterTypes
  <2>1. Locked' /\ RosterTypes'
    BY <1>1, <1>3, <1>8, <2>0 DEF RosterTypes, Locked
  <2>2. OneSeats' /\ TeamOrNobody'
    BY <1>1, <1>2, <1>8, <2>1 DEF OneSeats, Holds, TeamOrNobody
  <2> QED
    BY <1>5a, <1>7, <2>1, <2>2
<1>9. CASE closing' = TRUE /\ Move(t, "raised")
  <2>1. /\ ~Locked'
        /\ turn' \in [FirstTurn -> {"new", "waiting", "seating", "rolling", "runs", "raised"}]
        /\ \A u \in FirstTurn : turn'[u] = IF u = t THEN "raised" ELSE turn[u]
    BY <1>1, <1>9, LockMoves
  <2>2. RosterTypes'
    <3>1. Len(built') <= Len(Roles)
      BY <1>3, RosterAssumption DEF RosterTypes
    <3> QED
      BY <1>1, <1>3, <1>9, <2>1, <3>1 DEF RosterTypes
  <2>3. OneSeats' /\ TeamOrNobody'
    BY <1>1, <1>2, <1>9, <2>1 DEF OneSeats, Holds, TeamOrNobody
  <2> QED
    BY <1>5a, <1>7, <2>2, <2>3
<1> QED
  BY <1>8, <1>9 DEF RollBack

(* After the rollback nobody is seated; a shutdown changes no seat.         *)
LEMMA EndKeepsRoster ==
    ASSUME RosterInv,
           \/ \E t \in FirstTurn : RolledBack(t)
           \/ CloseTeam \/ UNCHANGED rosterVars
    PROVE  RosterInv'
<1> USE DEF RosterInv
<1>1. ASSUME NEW t \in FirstTurn, RolledBack(t) PROVE RosterInv'
  <2>1. /\ turn[t] = "rolling" /\ Holds(t) /\ Locked /\ ~prebuilt /\ built = <<>> /\ Move(t, "raised")
        /\ UNCHANGED <<seat, lent, built, pending, aids, prebuilt>>
    BY <1>1 DEF RolledBack, Holds, Locked, OneSeats
  <2>2. pending = "none"
    BY <2>1 DEF OneSeats, Holds
  <2>3. /\ ~Locked'
        /\ turn' \in [FirstTurn -> {"new", "waiting", "seating", "rolling", "runs", "raised"}]
        /\ \A u \in FirstTurn : turn'[u] = IF u = t THEN "raised" ELSE turn[u]
    BY <2>1, LockMoves
  <2>4. closing' \in BOOLEAN
    BY <1>1 DEF RolledBack
  <2>5. RosterTypes' /\ AidsAreFresh' /\ SeatsAreBuilt'
    BY <2>1, <2>3, <2>4 DEF RosterTypes, AidsAreFresh, SeatsAreBuilt
  <2>6. OneSeats'
    BY <2>1, <2>2, <2>3 DEF OneSeats, Holds
  <2>7. seat = {} /\ lent = {}
    BY <2>1, <2>2 DEF SeatsAreBuilt, Peer
  <2>8. TeamOrNobody'
    BY <2>1, <2>7 DEF TeamOrNobody
  <2> QED
    BY <2>5, <2>6, <2>8
<1>2. ASSUME CloseTeam \/ UNCHANGED rosterVars PROVE RosterInv'
  <2>1. /\ UNCHANGED <<turn, seat, lent, built, pending, aids, prebuilt>> /\ closing' \in BOOLEAN
        /\ ~closing' => ~closing
    BY <1>2 DEF CloseTeam, rosterVars, RosterTypes
  <2>2. RosterTypes' /\ OneSeats' /\ AidsAreFresh' /\ SeatsAreBuilt'
    BY <2>1 DEF RosterTypes, OneSeats, Holds, Locked, AidsAreFresh, SeatsAreBuilt, Peer
  <2>3. TeamOrNobody'
    BY <2>1 DEF TeamOrNobody, WholeTeam, SeatsOf, Locked
  <2> QED
    BY <2>2, <2>3
<1> QED
  BY <1>1, <1>2

(* For any roster, any number of first turns and of faults: a turn runs     *)
(* only with one seated agent for every declared role, each with its own    *)
(* environment, and outside the lock the roster is whole or empty.          *)
THEOREM RostersAreWhole == RosterSpec => []RosterIsWhole
<1>1. RosterInv /\ [RosterNext]_rosterVars => RosterInv'
  BY AskKeepsRoster, SeatKeepsRoster, ReadyKeepsRoster, RollBackKeepsRoster, EndKeepsRoster
     DEF RosterNext
<1>2. RosterInv => RosterIsWhole
  BY DEF RosterInv, OneSeats, TeamOrNobody, WholeTeam, RosterIsWhole
<1> QED
  BY <1>1, <1>2, RosterStarts, PTL DEF RosterSpec

-----------------------------------------------------------------------------
(* The cap of a declared seat                                               *)

(* The part of the type invariant the seat cap rests on. *)
SeatTypes ==
    /\ act \in [Aid -> Activity]
    /\ used \in [Aid -> Nat] /\ spent \in Nat /\ limit \in [Aid -> Nat]
    /\ lease \in [Aid -> Leases]
    /\ drain \in [Aid -> BOOLEAN] /\ boot \in [Aid -> Aid \cup {NoAid}]

(* A cap is a natural number on a declared roster. *)
LEMMA CapIsNat ==
    ASSUME Declared, NEW a \in Aid
    PROVE  Cap(a) \in Nat
<1>1. CASE Allowances # <<>>
  BY <1>1, AllowancesAssumption DEF Cap, Aid
<1>2. CASE Allowances = <<>>
  BY <1>2, SizesAssumption DEF Cap
<1> QED BY <1>1, <1>2

(* What a declared seat is granted for a turn never lifts it above its cap. *)
LEMMA GrantBelowCap ==
    ASSUME Declared, SeatTypes, NEW a \in Aid
    PROVE  /\ GrantUnderCap(a) \in Nat
           /\ used[a] + GrantUnderCap(a) <= Greatest(Cap(a), used[a])
<1>1. Cap(a) \in Nat
  BY CapIsNat
<1>2. Total \in Nat /\ spent \in Nat /\ used[a] \in Nat
  BY SizesAssumption DEF SeatTypes
<1> QED
  BY <1>1, <1>2 DEF GrantUnderCap, Greatest, Least

(* A lease restored after a failed append reaches no further than before.   *)
LEMMA RestoredBelowCap ==
    ASSUME Declared, SeatTypes, SeatInv, NEW a \in Aid, lease[a].live
    PROVE  LET g == RestoredGrant(a, lease[a], Total - CommittedWithout(a))
           IN  g \in Nat /\ used[a] + g <= Greatest(Cap(a), used[a])
<1>1. Cap(a) \in Nat
  BY CapIsNat
<1>2. /\ Total \in Nat /\ spent \in Nat /\ used[a] \in Nat
      /\ lease[a].grant \in Nat /\ lease[a].baseline \in Nat
  BY SizesAssumption DEF SeatTypes, Leases
<1>3. CommittedWithout(a) = spent
  BY DEF CommittedWithout
<1>4. /\ lease[a].baseline <= used[a]
      /\ lease[a].baseline + lease[a].grant <= Greatest(Cap(a), lease[a].baseline)
  BY DEF SeatInv
<1> QED
  BY <1>1, <1>2, <1>3, <1>4 DEF RestoredGrant, Remaining, Greatest, Least

(* The initial state is within the caps. *)
LEMMA SeatInit ==
    ASSUME Declared, Init
    PROVE  SeatTypes /\ SeatInv
<1>1. \A a \in Aid : Cap(a) \in Nat
  BY CapIsNat
<1>2. SeatTypes
  BY <1>1 DEF Init, SeatTypes, NoLease, Leases, Activity
<1>3. SeatInv
  BY <1>1, SizesAssumption DEF Init, SeatInv, NoLease, Greatest, InFlight
<1> QED BY <1>2, <1>3

(* Starting a turn, or failing to, keeps a seat within its cap. *)
LEMMA TurnsKeepCap ==
    ASSUME Declared, SeatTypes, SeatInv, NEW a \in Aid,
           PublicTurn \/ MessageTurn(a) \/ AppendFails(a)
    PROVE  SeatTypes' /\ SeatInv'
<1> DEFINE Within(b, l) == l \in Nat /\ l <= Greatest(Cap(b), used[b])
           Fits(b, le) == /\ le \in Leases
                          /\ le.live => /\ le.baseline <= used[b]
                                        /\ le.baseline + le.grant
                                             <= Greatest(Cap(b), le.baseline)
<1>0. 0 \in Aid
  BY SizesAssumption DEF Aid
<1>1. \A b \in Aid : GrantUnderCap(b) \in Nat /\ Within(b, used[b] + GrantUnderCap(b))
  BY GrantBelowCap DEF SeatTypes
<1>2. \A b \in Aid : Fits(b, LeaseOf(b, GrantUnderCap(b)))
  <2> SUFFICES ASSUME NEW b \in Aid PROVE Fits(b, LeaseOf(b, GrantUnderCap(b)))
    OBVIOUS
  <2>1. used[b] \in Nat /\ GrantUnderCap(b) \in Nat /\ Cap(b) \in Nat
    BY <1>1, CapIsNat DEF SeatTypes
  <2> QED BY <1>1, <2>1 DEF LeaseOf, Lease, NoLease, Leases, Greatest
<1>3. \A b \in Aid : TurnGrant(b) = GrantUnderCap(b) /\ MessageGrant(b) = GrantUnderCap(b)
  BY DEF TurnGrant, MessageGrant, TakesPool
<1>4. ASSUME NEW b \in Aid, NEW le, NEW l, NEW x \in Activity,
             act[b] = "idle", x \in {"idle", "ready"},
             lease' = [lease EXCEPT ![b] = le], limit' = [limit EXCEPT ![b] = l],
             act' = [act EXCEPT ![b] = x],
             Within(b, l), Fits(b, le),
             UNCHANGED <<used, spent, drain, boot>>
      PROVE  SeatTypes' /\ SeatInv'
  <2>1. SeatTypes'
    BY <1>4 DEF SeatTypes
  <2>2. \A c \in Aid : Within(c, limit'[c]) /\ Fits(c, lease'[c])
    BY <1>4 DEF SeatTypes, SeatInv
  <2>3. \A c \in Aid : c \in InFlight' => c \in InFlight
    BY <1>4 DEF InFlight, SeatTypes
  <2>4. \A c \in Aid : act'[c] = "gen" => act[c] = "gen"
    BY <1>4 DEF SeatTypes
  <2>5. SeatInv'
    BY <1>4, <2>2, <2>3, <2>4 DEF SeatInv, Cap
  <2> QED BY <2>1, <2>5
<1>5. CASE PublicTurn
  BY <1>5, <1>0, <1>1, <1>2, <1>3, <1>4 DEF PublicTurn, ReserveTurnLease, Activity
<1>6. CASE MessageTurn(a)
  BY <1>6, <1>1, <1>2, <1>3, <1>4
     DEF MessageTurn, TakesMessage, ReserveMessageBudget, TakesPool, Activity
<1>7. CASE AppendFails(a)
  <2> DEFINE g == RestoredGrant(a, lease[a], Total - CommittedWithout(a))
  <2>0. act[a] = "idle"
    BY <1>7 DEF AppendFails, TakesMessage
  <2>1. lease[a].live => g \in Nat /\ Within(a, used[a] + g)
    BY RestoredBelowCap DEF SeatTypes
  <2>2. lease[a].live => Fits(a, LeaseOf(a, g))
    <3>1. used[a] \in Nat /\ Cap(a) \in Nat
      BY CapIsNat DEF SeatTypes
    <3> QED BY <2>1, <3>1 DEF LeaseOf, Lease, NoLease, Leases, Greatest
  <2>3. Fits(a, NoLease)
    BY DEF NoLease, Leases
  <2>4. act' = [act EXCEPT ![a] = "idle"]
    BY <1>7, <2>0 DEF AppendFails, SeatTypes
  <2>5. CASE lease[a].live
    <3>1. /\ lease' = [lease EXCEPT ![a] = LeaseOf(a, g)]
          /\ limit' = [limit EXCEPT ![a] = used[a] + g]
      BY <1>7, <2>5 DEF AppendFails
    <3>2. /\ Within(a, used[a] + g) /\ Fits(a, LeaseOf(a, g))
          /\ UNCHANGED <<used, spent, drain, boot>>
      BY <1>7, <2>1, <2>2, <2>5 DEF AppendFails
    <3>3. "idle" \in Activity
      BY DEF Activity
    <3> HIDE DEF g, Within, Fits
    <3> QED BY <1>4, <2>0, <2>4, <3>1, <3>2, <3>3
  <2>6. CASE ~lease[a].live
    <3>1. /\ lease' = [lease EXCEPT ![a] = NoLease]
          /\ limit' = [limit EXCEPT ![a] = used[a] + GrantUnderCap(a)]
      BY <1>7, <2>6, <1>3 DEF AppendFails
    <3> QED BY <1>1, <1>4, <1>7, <2>0, <2>3, <2>4, <3>1 DEF AppendFails, Activity
  <2> QED BY <2>5, <2>6
<1> QED BY <1>5, <1>6, <1>7

(* A generation starts below the cap and lands less than its cost beyond.   *)
LEMMA GenerationsKeepCap ==
    ASSUME Declared, SeatTypes, SeatInv, NEW a \in Aid,
           \/ StartGeneration(a) \/ EndGeneration(a) \/ AbandonGeneration(a)
           \/ LateUsage(a) \/ StopTurn(a)
    PROVE  SeatTypes' /\ SeatInv'
<1>1. \A b \in Aid : Cap(b) \in Nat
  BY CapIsNat
<1>2. MaxCost \in Nat
  BY SizesAssumption
<1>3. CASE StartGeneration(a)
  <2>1. SeatTypes'
    BY <1>3 DEF StartGeneration, SeatTypes, Activity
  <2>2. \A b \in Aid : b \in InFlight' => b \in InFlight \/ b = a
    BY <1>3 DEF StartGeneration, InFlight, SeatTypes
  <2>3. used[a] < limit[a] /\ ~drain[a]
    BY <1>3 DEF StartGeneration, MayGenerate
  <2>4. used[a] < Cap(a)
    BY <2>3, <1>1 DEF SeatInv, SeatTypes, Greatest
  <2>5. SeatInv'
    BY <1>3, <2>2, <2>3, <2>4 DEF StartGeneration, SeatInv, SeatTypes, Cap
  <2> QED BY <2>1, <2>5
<1>4. ASSUME NEW cost \in 0 .. MaxCost, a \in InFlight, Charge(a, cost),
             lease' \in {lease, [lease EXCEPT ![a] = NoLease]},
             NEW x \in {"ended", "ready", "tools", act[a]}, x # "gen",
             act' = [act EXCEPT ![a] = x],
             drain' \in {drain, [drain EXCEPT ![a] = FALSE]},
             act[a] = "gen" \/ drain'[a] = FALSE,
             UNCHANGED <<limit, boot>>
      PROVE  SeatTypes' /\ SeatInv'
  <2>1. SeatTypes'
    <3>1. cost \in Nat /\ used[a] \in Nat /\ x \in Activity /\ NoLease \in Leases
      BY <1>2, <1>4 DEF SeatTypes, Activity, NoLease, Leases
    <3>2. used' \in [Aid -> Nat] /\ spent' \in Nat
      BY <1>4, <3>1 DEF SeatTypes, Charge
    <3>3. act' \in [Aid -> Activity]
      BY <1>4, <3>1 DEF SeatTypes
    <3>4. lease' \in [Aid -> Leases]
      BY <1>4, <3>1 DEF SeatTypes
    <3>5. drain' \in [Aid -> BOOLEAN]
      BY <1>4 DEF SeatTypes
    <3> QED BY <1>4, <3>2, <3>3, <3>4, <3>5 DEF SeatTypes
  <2>2. used'[a] = used[a] + cost /\ \A b \in Aid \ {a} : used'[b] = used[b]
    BY <1>4 DEF Charge, SeatTypes
  <2>3. a \notin InFlight'
    BY <1>4 DEF InFlight, SeatTypes, SeatInv
  <2>4. \A b \in Aid \ {a} : (b \in InFlight' => b \in InFlight) /\ act'[b] = act[b]
                               /\ drain'[b] = drain[b] /\ lease'[b] = lease[b]
    BY <1>4 DEF InFlight, SeatTypes
  <2>5. used[a] < Cap(a) /\ used[a] \in Nat /\ limit[a] \in Nat
    BY <1>4 DEF SeatInv, SeatTypes
  <2>6. lease'[a] \in {lease[a], NoLease}
    BY <1>4 DEF SeatTypes
  <2>7. \A b \in Aid \ {a} :
          /\ boot'[b] = NoAid
          /\ limit'[b] <= Greatest(Cap(b), used'[b])
          /\ lease'[b].live =>
                /\ lease'[b].baseline <= used'[b]
                /\ lease'[b].baseline + lease'[b].grant <= Greatest(Cap(b), lease'[b].baseline)
          /\ act'[b] = "gen" => ~drain'[b]
          /\ b \in InFlight' => used'[b] < Cap(b)
          /\ used'[b] <= Greatest(Cap(b) - 1, 0) + MaxCost
    BY <1>4, <2>2, <2>4 DEF SeatInv
  <2>8. /\ boot'[a] = NoAid
        /\ limit'[a] <= Greatest(Cap(a), used'[a])
        /\ used'[a] <= Greatest(Cap(a) - 1, 0) + MaxCost
    BY <1>1, <1>2, <1>4, <2>2, <2>5 DEF SeatInv, Greatest
  <2>9. lease'[a].live =>
                /\ lease'[a].baseline <= used'[a]
                /\ lease'[a].baseline + lease'[a].grant <= Greatest(Cap(a), lease'[a].baseline)
    <3>1. CASE lease'[a] = NoLease
      BY <3>1 DEF NoLease
    <3>2. CASE lease'[a] = lease[a]
      <4>1. lease[a].baseline \in Nat
        BY DEF SeatTypes, Leases
      <4> QED BY <1>2, <3>2, <2>2, <2>5, <4>1 DEF SeatInv
    <3> QED BY <2>6, <3>1, <3>2
  <2>10. act'[a] # "gen"
    BY <1>4 DEF SeatTypes
  <2>11. SeatInv'
    BY <2>3, <2>7, <2>8, <2>9, <2>10 DEF SeatInv, Cap
  <2> QED BY <2>1, <2>11
<1>5. CASE EndGeneration(a)
  <2>1. a \in InFlight
    BY <1>5 DEF EndGeneration, InFlight
  <2>2. PICK cost \in 0 .. MaxCost :
          /\ Charge(a, cost)
          /\ \/ /\ act' = [act EXCEPT ![a] = "ended"]
                /\ ReleaseLeases(a)
             \/ /\ \E next \in {"ready", "tools"} : act' = [act EXCEPT ![a] = next]
                /\ UNCHANGED <<held, lease>>
    BY <1>5 DEF EndGeneration
  <2>3. act[a] = "gen" /\ UNCHANGED <<limit, boot, drain>>
    BY <1>5 DEF EndGeneration
  <2> QED BY <1>4, <2>1, <2>2, <2>3 DEF ReleaseLeases
<1>6. CASE LateUsage(a)
  <2>1. a \in InFlight /\ act[a] # "gen"
    BY <1>6 DEF LateUsage, InFlight, SeatInv
  <2>2. PICK cost \in 0 .. MaxCost : Charge(a, cost)
    BY <1>6 DEF LateUsage
  <2>3. /\ act' = [act EXCEPT ![a] = act[a]] /\ lease' = lease
        /\ drain' = [drain EXCEPT ![a] = FALSE] /\ drain'[a] = FALSE
        /\ UNCHANGED <<limit, boot>>
    BY <1>6 DEF LateUsage, SeatTypes
  <2> QED BY <1>4, <2>1, <2>2, <2>3
<1>7. CASE AbandonGeneration(a)
  <2>1. SeatTypes'
    BY <1>7 DEF AbandonGeneration, SeatTypes, Activity, NoLease, Leases
  <2>2. \A b \in Aid : b \in InFlight' => b \in InFlight
    BY <1>7 DEF AbandonGeneration, InFlight, SeatTypes
  <2>3. SeatInv'
    BY <1>7, <2>2 DEF AbandonGeneration, SeatInv, SeatTypes, Cap, NoLease
  <2> QED BY <2>1, <2>3
<1>8. CASE StopTurn(a)
  <2>1. SeatTypes'
    BY <1>8 DEF StopTurn, ReleaseLeases, SeatTypes, Activity, NoLease, Leases
  <2>2. \A b \in Aid : b \in InFlight' => b \in InFlight
    BY <1>8 DEF StopTurn, InFlight, SeatTypes
  <2>3. SeatInv'
    BY <1>8, <2>2 DEF StopTurn, ReleaseLeases, SeatInv, SeatTypes, Cap, NoLease
  <2> QED BY <2>1, <2>3
<1> QED BY <1>3, <1>5, <1>6, <1>7, <1>8

(* Spawning is off on a declared roster; ending a batch and delivering an   *)
(* outcome lease nothing beyond the cap.                                    *)
LEMMA JoinsKeepCap ==
    ASSUME Declared, SeatTypes, SeatInv, NEW a \in Aid,
           \/ \E c \in Aid : Spawn(a, c)
           \/ SpawnStarts(a) \/ SpawnFails(a) \/ FinishBatch(a) \/ Deliver(a)
    PROVE  SeatTypes' /\ SeatInv'
<1>1. boot[a] = NoAid
  BY DEF SeatInv
<1>2. CASE FinishBatch(a)
  <2>1. SeatTypes'
    BY <1>2 DEF FinishBatch, SeatTypes, Activity
  <2>2. \A b \in Aid : (b \in InFlight' => b \in InFlight) /\ (act'[b] = "gen" => act[b] = "gen")
    BY <1>2 DEF FinishBatch, InFlight, SeatTypes
  <2>3. SeatInv'
    BY <1>2, <2>2 DEF FinishBatch, SeatInv, Cap
  <2> QED BY <2>1, <2>3
<1>3. CASE Deliver(a)
  <2>1. \A b \in Aid : act'[b] \in Activity /\ (act'[b] = "gen" => act[b] = "gen")
    BY <1>3 DEF Deliver, SeatTypes, Activity
  <2>2. \A b \in Aid : b \in InFlight' => b \in InFlight
    BY <1>3, <2>1 DEF Deliver, InFlight
  <2>3. act' \in [Aid -> Activity]
    BY <1>3, <2>1 DEF Deliver
  <2>4. UNCHANGED <<used, spent, drain, boot>>
    BY <1>3 DEF Deliver
  <2>5. CASE UNCHANGED <<lease, limit>>
    <3>1. SeatTypes'
      BY <2>3, <2>4, <2>5 DEF SeatTypes
    <3>2. SeatInv'
      BY <2>1, <2>2, <2>4, <2>5 DEF SeatInv, Cap
    <3> QED BY <3>1, <3>2
  <2>6. CASE \E p \in Aid : ReserveTurnLease(p)
    <3>1. PICK p \in Aid : ReserveTurnLease(p)
      BY <2>6
    <3>2. TurnGrant(p) = GrantUnderCap(p)
      BY DEF TurnGrant
    <3>3. /\ TurnGrant(p) \in Nat /\ used[p] \in Nat /\ Cap(p) \in Nat
          /\ used[p] + TurnGrant(p) <= Greatest(Cap(p), used[p])
      BY <3>2, GrantBelowCap, CapIsNat DEF SeatTypes
    <3>4. /\ LeaseOf(p, TurnGrant(p)) \in Leases
          /\ LeaseOf(p, TurnGrant(p)).live =>
                /\ LeaseOf(p, TurnGrant(p)).baseline = used[p]
                /\ LeaseOf(p, TurnGrant(p)).grant = TurnGrant(p)
      BY <3>3 DEF LeaseOf, Lease, NoLease, Leases
    <3>5. /\ lease' = [lease EXCEPT ![p] = LeaseOf(p, TurnGrant(p))]
          /\ limit' = [limit EXCEPT ![p] = used[p] + TurnGrant(p)]
      BY <3>1 DEF ReserveTurnLease
    <3>6. SeatTypes'
      BY <2>3, <2>4, <3>3, <3>4, <3>5 DEF SeatTypes
    <3>7. \A b \in Aid :
            /\ limit'[b] <= Greatest(Cap(b), used[b])
            /\ lease'[b].live =>
                  /\ lease'[b].baseline <= used[b]
                  /\ lease'[b].baseline + lease'[b].grant <= Greatest(Cap(b), lease'[b].baseline)
      BY <3>3, <3>4, <3>5 DEF SeatTypes, SeatInv
    <3>8. SeatInv'
      BY <2>1, <2>2, <2>4, <3>7 DEF SeatInv, Cap
    <3> QED BY <3>6, <3>8
  <2> QED BY <1>3, <2>5, <2>6 DEF Deliver
<1> QED
  BY <1>1, <1>2, <1>3 DEF Spawn, SpawnStarts, SpawnFails

(* Every step of a declared roster keeps every seat within its cap. *)
LEMMA SeatStep ==
    ASSUME Declared, SeatTypes, SeatInv, [Next]_vars
    PROVE  SeatTypes' /\ SeatInv'
<1>1. CASE UNCHANGED vars
  BY <1>1 DEF vars, SeatTypes, SeatInv, InFlight, Cap
<1>2. CASE Next
  <2>0. 0 \in Aid
    BY SizesAssumption DEF Aid
  <2>1. CASE PublicTurn
    BY <2>0, <2>1, TurnsKeepCap
  <2>2. ASSUME NEW a \in Aid, AgentStep(a) PROVE SeatTypes' /\ SeatInv'
    <3>1. CASE MessageTurn(a) \/ AppendFails(a)
      BY <3>1, TurnsKeepCap
    <3>2. CASE \/ StartGeneration(a) \/ EndGeneration(a) \/ AbandonGeneration(a)
               \/ LateUsage(a) \/ StopTurn(a)
      BY <3>2, GenerationsKeepCap
    <3>3. CASE \/ \E c \in Aid : Spawn(a, c)
               \/ SpawnStarts(a) \/ SpawnFails(a) \/ FinishBatch(a) \/ Deliver(a)
      BY <3>3, JoinsKeepCap
    <3> QED BY <2>2, <3>1, <3>2, <3>3 DEF AgentStep
  <2> QED BY <1>2, <2>1, <2>2 DEF Next
<1> QED BY <1>1, <1>2

(* A seat of a declared roster overspends its cap by less than one          *)
(* generation, for every team size, total, allowance and cost: the grant of *)
(* every turn (_grant_under_cap), the restored lease of a failed append and *)
(* the late usage of an abandoned call stay inside it.                      *)
THEOREM DeclaredSeatCap == Spec => []SeatCapHolds
<1> DEFINE IInv == Declared => SeatTypes /\ SeatInv
<1>1. Init => IInv
  BY SeatInit
<1>2. IInv /\ [Next]_vars => IInv'
  BY SeatStep
<1>3. IInv => SeatCapHolds
  <2> SUFFICES ASSUME Declared, SeatTypes, SeatInv, NEW a \in Aid
               PROVE  used[a] + (IF a \in InFlight THEN MaxCost ELSE 0)
                        <= Greatest(Cap(a) - 1, 0) + MaxCost
    BY DEF SeatCapHolds
  <2>1. Cap(a) \in Nat /\ used[a] \in Nat /\ MaxCost \in Nat
    BY CapIsNat, SizesAssumption DEF SeatTypes
  <2>2. used[a] <= Greatest(Cap(a) - 1, 0) + MaxCost
    BY DEF SeatInv
  <2>3. a \in InFlight => used[a] < Cap(a)
    BY DEF SeatInv
  <2> QED BY <2>1, <2>2, <2>3 DEF Greatest
<1> QED
  BY <1>1, <1>2, <1>3, PTL DEF Spec

-----------------------------------------------------------------------------
(* What is booked                                                           *)

(* What is booked is counted in natural numbers, and what the others hold   *)
(* is what all hold without the agent's own lease.                          *)
BooksAddUp ==
    ~Declared =>
        /\ \A a \in Aid : LiveLease(a) \in Nat /\ HeldLeases(a) \in Nat
        /\ Committed \in Nat
        /\ \A a \in Aid : /\ CommittedWithout(a) \in Nat
                          /\ CommittedWithout(a) = Committed - LiveLease(a)

LEMMA Books == TypeOK => BooksAddUp
<1> SUFFICES ASSUME TypeOK, ~Declared
             PROVE  /\ \A a \in Aid : LiveLease(a) \in Nat /\ HeldLeases(a) \in Nat
                    /\ Committed \in Nat
                    /\ \A a \in Aid : /\ CommittedWithout(a) \in Nat
                                      /\ CommittedWithout(a) = Committed - LiveLease(a)
  BY DEF BooksAddUp
<1> DEFINE live == [b \in Aid |-> LiveLease(b)]
           kept == [b \in Aid |-> HeldLeases(b)]
<1>0. IsFiniteSet(Aid) /\ Aid \ {NoAid} = Aid
  BY FS_Interval, SizesAssumption DEF Aid, NoAid
<1>1. \A a \in Aid : LiveLease(a) \in Nat
  BY DEF TypeOK, LiveLease, Remaining, Leases, Greatest
<1>2. ASSUME NEW a \in Aid PROVE HeldLeases(a) \in Nat
  <2> DEFINE left == [i \in DOMAIN held[a] |-> Remaining(a, held[a][i])]
  <2>1. held[a] \in Seq(Leases) /\ used[a] \in Nat
    BY DEF TypeOK
  <2>2. IsFiniteSet(DOMAIN left)
    <3>1. DOMAIN held[a] = 1..Len(held[a]) /\ Len(held[a]) \in Nat
      BY <2>1
    <3>2. DOMAIN left = DOMAIN held[a]
      OBVIOUS
    <3> HIDE DEF left
    <3>3. IsFiniteSet(1..Len(held[a]))
      <4>1. 1 \in Int /\ Len(held[a]) \in Int
        BY <3>1
      <4> QED BY <4>1, FS_Interval
    <3> QED BY <3>1, <3>2, <3>3
  <2>3. ASSUME NEW i \in DOMAIN left PROVE left[i] \in Nat
    <3>1. i \in DOMAIN held[a] /\ left[i] = Remaining(a, held[a][i])
      OBVIOUS
    <3>2. held[a][i] \in Leases
      BY <2>1, <3>1
    <3> HIDE DEF left
    <3> QED BY <2>1, <3>1, <3>2 DEF Remaining, Leases, Greatest
  <2> HIDE DEF left
  <2>5. SumFunction(left) \in Nat
    BY <2>2, <2>3, SumIsNat DEF SumFunction
  <2> QED BY <2>5 DEF HeldLeases, left
<1>3. spent \in Nat
  BY DEF TypeOK
<1>4. /\ \A x \in Aid : live[x] \in Nat /\ live[x] = LiveLease(x) /\ kept[x] \in Nat
      /\ DOMAIN live = Aid /\ DOMAIN kept = Aid
  BY <1>1, <1>2
<1>5. \A a : CommittedWithout(a) = spent + SumFunctionOnSet(live, Aid \ {a}) + SumFunction(kept)
  BY DEF CommittedWithout
<1> HIDE DEF live, kept
<1>6. SumFunction(kept) \in Nat
  BY <1>0, <1>4, SumIsNat DEF SumFunction
<1>7. Committed = spent + SumFunctionOnSet(live, Aid) + SumFunction(kept)
  BY <1>0, <1>5 DEF Committed
<1>8. SumFunctionOnSet(live, Aid) \in Nat
  BY <1>0, <1>4, SumIsNat
<1>9. ASSUME NEW a \in Aid
      PROVE  /\ CommittedWithout(a) \in Nat
             /\ CommittedWithout(a) = Committed - LiveLease(a)
  <2>1. SumFunctionOnSet(live, Aid \ {a}) \in Nat
    <3>1. IsFiniteSet(Aid \ {a})
      BY <1>0, FS_RemoveElement
    <3> QED BY <1>4, <3>1, SumIsNat
  <2>2. SumFunctionOnSet(live, Aid) = LiveLease(a) + SumFunctionOnSet(live, Aid \ {a})
    BY <1>0, <1>4, SumSplits
  <2> QED BY <1>1, <1>3, <1>5, <1>6, <1>7, <2>1, <2>2
<1> QED BY <1>1, <1>2, <1>3, <1>6, <1>7, <1>8, <1>9

LEMMA BooksAfter == TypeOK' => BooksAddUp'
BY Books, PTL

(* One agent's bookings change.                                             *)
LEMMA OneBooks ==
    ASSUME ~Declared, TypeOK, TypeOK', NEW a \in Aid,
           \A b \in Aid \ {a} : LiveLease(b)' = LiveLease(b) /\ HeldLeases(b)' = HeldLeases(b)
    PROVE  Committed' = Committed + (spent' - spent) + (LiveLease(a)' - LiveLease(a))
                          + (HeldLeases(a)' - HeldLeases(a))
<1> DEFINE live == [b \in Aid |-> LiveLease(b)]
           kept == [b \in Aid |-> HeldLeases(b)]
           liven == [b \in Aid |-> LiveLease(b)']
           keptn == [b \in Aid |-> HeldLeases(b)']
<1>0. IsFiniteSet(Aid) /\ Aid \ {NoAid} = Aid
  BY FS_Interval, SizesAssumption DEF Aid, NoAid
<1>1. /\ \A x \in Aid : LiveLease(x) \in Nat /\ HeldLeases(x) \in Nat
      /\ \A x \in Aid : LiveLease(x)' \in Nat /\ HeldLeases(x)' \in Nat
  BY Books, BooksAfter DEF BooksAddUp
<1>2. /\ \A x \in Aid : live[x] = LiveLease(x) /\ kept[x] = HeldLeases(x)
      /\ \A x \in Aid : liven[x] = LiveLease(x)' /\ keptn[x] = HeldLeases(x)'
      /\ DOMAIN kept = Aid /\ DOMAIN keptn = Aid
  OBVIOUS
<1>3. /\ Committed = spent + SumFunctionOnSet(live, Aid) + SumFunction(kept)
      /\ Committed' = spent' + SumFunctionOnSet(liven, Aid) + SumFunction(keptn)
  BY <1>0 DEF Committed, CommittedWithout
<1> HIDE DEF live, kept, liven, keptn
<1>4. SumFunctionOnSet(liven, Aid) = SumFunctionOnSet(live, Aid) - LiveLease(a) + LiveLease(a)'
  BY <1>0, <1>1, <1>2, SumChanges
<1>5. SumFunctionOnSet(keptn, Aid) = SumFunctionOnSet(kept, Aid) - HeldLeases(a) + HeldLeases(a)'
  BY <1>0, <1>1, <1>2, SumChanges
<1>6. SumFunctionOnSet(kept, Aid) \in Int /\ SumFunctionOnSet(live, Aid) \in Int
  BY <1>0, <1>1, <1>2, SumSplits
<1>7. spent \in Nat /\ spent' \in Nat
  BY DEF TypeOK
<1> QED BY <1>1, <1>2, <1>3, <1>4, <1>5, <1>6, <1>7 DEF SumFunction

(* Bookings that shrink                                                     *)
LEMMA RemainingShrinks ==
    ASSUME NEW x \in Nat, NEW y \in Nat, x <= y, NEW l \in Leases
    PROVE  Greatest(0, l.grant - Greatest(0, y - l.baseline))
             <= Greatest(0, l.grant - Greatest(0, x - l.baseline))
BY DEF Leases, Greatest

(* What an agent's provider call keeps booked is no more than before when   *)
(* the agent has spent more and the call keeps the same leases.             *)
LEMMA HeldShrinks ==
    ASSUME TypeOK, TypeOK', NEW a \in Aid, used[a] <= used'[a], held'[a] = held[a]
    PROVE  HeldLeases(a)' <= HeldLeases(a)
<1> DEFINE left == [i \in DOMAIN held[a] |-> Remaining(a, held[a][i])]
           leftn == [i \in DOMAIN held[a] |-> Remaining(a, held[a][i])']
<1>1. held[a] \in Seq(Leases) /\ used[a] \in Nat /\ used'[a] \in Nat
  BY DEF TypeOK
<1>2. IsFiniteSet(DOMAIN held[a])
  <2>1. DOMAIN held[a] = 1..Len(held[a]) /\ Len(held[a]) \in Nat
    BY <1>1
  <2>2. IsFiniteSet(1..Len(held[a]))
    BY <2>1, FS_Interval
  <2> QED BY <2>1, <2>2
<1>3. ASSUME NEW i \in DOMAIN held[a]
      PROVE  left[i] \in Int /\ leftn[i] \in Int /\ leftn[i] <= left[i]
  <2>1. held[a][i] \in Leases
    BY <1>1
  <2>2. left[i] = Remaining(a, held[a][i]) /\ leftn[i] = Remaining(a, held[a][i])'
    OBVIOUS
  <2> HIDE DEF left, leftn
  <2>3. Remaining(a, held[a][i])' = Greatest(0, held[a][i].grant - Greatest(0, used'[a] - held[a][i].baseline))
    BY <2>1 DEF Remaining
  <2>4. leftn[i] <= left[i]
    BY <1>1, <2>1, <2>2, <2>3, RemainingShrinks DEF Remaining
  <2>5. \A x \in Nat : Greatest(0, held[a][i].grant - Greatest(0, x - held[a][i].baseline)) \in Int
    BY <2>1 DEF Leases, Greatest
  <2> QED BY <1>1, <2>2, <2>3, <2>4, <2>5 DEF Remaining
<1>4. DOMAIN left = DOMAIN held[a] /\ DOMAIN leftn = DOMAIN held[a]
  OBVIOUS
<1>5. HeldLeases(a) = SumFunction(left) /\ HeldLeases(a)' = SumFunction(leftn)
  BY DEF HeldLeases
<1> HIDE DEF left, leftn
<1> QED BY <1>2, <1>3, <1>4, <1>5, SumGrows DEF SumFunction

(* One lease more is kept.                                                  *)
LEMMA HeldAppends ==
    ASSUME TypeOK, NEW a \in Aid, NEW l \in Leases, used' = used,
           held'[a] = Append(held[a], l)
    PROVE  HeldLeases(a)' = HeldLeases(a) + Remaining(a, l)
<1> DEFINE left == [i \in DOMAIN held[a] |-> Remaining(a, held[a][i])]
           leftn == [i \in DOMAIN held'[a] |-> Remaining(a, held'[a][i])]
           n == Len(held[a])
<1>1. held[a] \in Seq(Leases) /\ used[a] \in Nat
  BY DEF TypeOK
<1>2. \A m \in Leases : Remaining(a, m) \in Int
  BY <1>1 DEF Remaining, Leases, Greatest
<1>3. /\ n \in Nat /\ DOMAIN held[a] = 1..n /\ DOMAIN held'[a] = 1..(n + 1)
      /\ \A i \in 1..n : held'[a][i] = held[a][i] /\ held[a][i] \in Leases
      /\ held'[a][n + 1] = l
  BY <1>1
<1>4. /\ DOMAIN left = 1..n /\ DOMAIN leftn = 1..(n + 1)
      /\ \A i \in 1..n : left[i] = Remaining(a, held[a][i])
      /\ \A i \in 1..(n + 1) : leftn[i] = Remaining(a, held'[a][i])
  BY <1>3
<1>5. HeldLeases(a) = SumFunction(left) /\ HeldLeases(a)' = SumFunction(leftn)
  BY DEF HeldLeases, Remaining
<1> HIDE DEF left, leftn, n
<1>6. \A i \in 1..(n + 1) : held'[a][i] \in Leases
  BY <1>3
<1>7. (\A i \in 1..(n + 1) : leftn[i] \in Int) /\ \A i \in 1..n : leftn[i] = left[i]
  <2>1. \A i \in 1..(n + 1) : leftn[i] \in Int
    BY <1>2, <1>4, <1>6
  <2>2. \A i \in 1..n : i \in 1..(n + 1)
    BY <1>3
  <2>3. \A i \in 1..n : leftn[i] = left[i]
    BY <1>3, <1>4, <2>2
  <2> QED BY <2>1, <2>3
<1>8. SumFunction(leftn) = SumFunction(left) + leftn[n + 1]
  BY <1>3, <1>4, <1>7, SumAppends
<1>9. leftn[n + 1] = Remaining(a, l)
  BY <1>3, <1>4
<1> QED BY <1>5, <1>8, <1>9

(* The oldest lease that is kept is a part of what is kept.                 *)
LEMMA HeldCovers ==
    ASSUME TypeOK, NEW a \in Aid, held[a] # <<>>
    PROVE  Remaining(a, held[a][1]) \in Nat /\ Remaining(a, held[a][1]) <= HeldLeases(a)
<1> DEFINE left == [i \in DOMAIN held[a] |-> Remaining(a, held[a][i])]
           D == DOMAIN held[a]
<1>1. held[a] \in Seq(Leases) /\ used[a] \in Nat
  BY DEF TypeOK
<1>2. D = 1..Len(held[a]) /\ Len(held[a]) \in Nat /\ 1 \in D
  BY <1>1
<1>3. IsFiniteSet(D)
  <2> DEFINE n == Len(held[a])
  <2>1. n \in Int
    BY <1>2
  <2> HIDE DEF n, D
  <2>2. IsFiniteSet(1..n)
    BY <2>1, FS_Interval
  <2> USE DEF n
  <2> QED BY <1>2, <2>2
<1>4. \A i \in D : left[i] = Remaining(a, held[a][i]) /\ held[a][i] \in Leases
  BY <1>1
<1>5. \A m \in Leases : Remaining(a, m) \in Nat
  BY <1>1 DEF Remaining, Leases, Greatest
<1>6. DOMAIN left = D /\ HeldLeases(a) = SumFunction(left)
  BY DEF HeldLeases
<1> HIDE DEF left, D
<1>7. \A i \in D : left[i] \in Nat /\ left[i] \in Int
  BY <1>4, <1>5
<1>8. IsFiniteSet(D \ {1})
  BY <1>3, FS_RemoveElement
<1>9. SumFunctionOnSet(left, D \ {1}) \in Nat
  BY <1>7, <1>8, SumIsNat
<1>10. SumFunctionOnSet(left, D) = left[1] + SumFunctionOnSet(left, D \ {1})
  BY <1>2, <1>3, <1>7, SumSplits
<1>11. left[1] = Remaining(a, held[a][1]) /\ left[1] \in Nat
  BY <1>2, <1>4, <1>7
<1> QED BY <1>6, <1>9, <1>10, <1>11 DEF SumFunction

(* An agent whose spending and kept leases stay the same keeps the same.    *)
LEMMA HeldStays ==
    ASSUME NEW b \in Aid, used'[b] = used[b], held'[b] = held[b]
    PROVE  HeldLeases(b)' = HeldLeases(b)
<1> DEFINE left == [i \in DOMAIN held[b] |-> Remaining(b, held[b][i])]
           leftn == [i \in DOMAIN held'[b] |-> Remaining(b, held[b][i])']
<1>1. \A i \in DOMAIN held[b] : left[i] = leftn[i]
  BY DEF Remaining
<1>2. left = leftn
  BY <1>1
<1> QED BY <1>2 DEF HeldLeases

(* The leases of two agents change.                                         *)
LEMMA TwoBook ==
    ASSUME ~Declared, TypeOK, TypeOK', NEW p \in Aid, NEW c \in Aid, p # c,
           \A b \in Aid \ {p, c} : LiveLease(b)' = LiveLease(b),
           \A b \in Aid : HeldLeases(b)' = HeldLeases(b)
    PROVE  Committed' = Committed + (spent' - spent) + (LiveLease(p)' - LiveLease(p))
                          + (LiveLease(c)' - LiveLease(c))
<1> DEFINE live == [b \in Aid |-> LiveLease(b)]
           kept == [b \in Aid |-> HeldLeases(b)]
           liven == [b \in Aid |-> LiveLease(b)']
           keptn == [b \in Aid |-> HeldLeases(b)']
           mid == [b \in Aid |-> IF b = p THEN LiveLease(b)' ELSE LiveLease(b)]
<1>0. IsFiniteSet(Aid) /\ Aid \ {NoAid} = Aid
  BY FS_Interval, SizesAssumption DEF Aid, NoAid
<1>1. /\ \A x \in Aid : LiveLease(x) \in Nat /\ HeldLeases(x) \in Nat
      /\ \A x \in Aid : LiveLease(x)' \in Nat /\ HeldLeases(x)' \in Nat
  BY Books, BooksAfter DEF BooksAddUp
<1>2. /\ \A x \in Aid : live[x] = LiveLease(x) /\ kept[x] = HeldLeases(x)
      /\ \A x \in Aid : liven[x] = LiveLease(x)' /\ keptn[x] = HeldLeases(x)'
      /\ \A x \in Aid : mid[x] = IF x = p THEN LiveLease(x)' ELSE LiveLease(x)
      /\ DOMAIN kept = Aid /\ DOMAIN keptn = Aid
  OBVIOUS
<1>3. /\ Committed = spent + SumFunctionOnSet(live, Aid) + SumFunction(kept)
      /\ Committed' = spent' + SumFunctionOnSet(liven, Aid) + SumFunction(keptn)
  BY <1>0 DEF Committed, CommittedWithout
<1> HIDE DEF live, kept, liven, keptn, mid
<1>4. SumFunctionOnSet(mid, Aid) = SumFunctionOnSet(live, Aid) - LiveLease(p) + LiveLease(p)'
  <2>1. \A x \in Aid \ {p} : live[x] = mid[x]
    BY <1>2
  <2>2. \A x \in Aid : mid[x] \in Int /\ live[x] \in Int
    BY <1>1, <1>2
  <2>3. live[p] = LiveLease(p) /\ mid[p] = LiveLease(p)'
    BY <1>2
  <2> QED BY <1>0, <2>1, <2>2, <2>3, SumChanges
<1>5. SumFunctionOnSet(liven, Aid) = SumFunctionOnSet(mid, Aid) - LiveLease(c) + LiveLease(c)'
  <2>1. \A x \in Aid \ {c} : mid[x] = liven[x]
    BY <1>2
  <2>2. \A x \in Aid : mid[x] \in Int /\ liven[x] \in Int
    BY <1>1, <1>2
  <2>3. mid[c] = LiveLease(c) /\ liven[c] = LiveLease(c)'
    BY <1>2
  <2> QED BY <1>0, <2>1, <2>2, <2>3, SumChanges
<1>6. SumFunctionOnSet(keptn, Aid) = SumFunctionOnSet(kept, Aid)
  BY <1>0, <1>2, SumAgrees
<1>7. SumFunctionOnSet(kept, Aid) \in Int /\ SumFunctionOnSet(live, Aid) \in Int
  BY <1>0, <1>1, <1>2, SumSplits
<1>8. spent \in Nat /\ spent' \in Nat
  BY DEF TypeOK
<1> QED BY <1>1, <1>2, <1>3, <1>4, <1>5, <1>6, <1>7, <1>8 DEF SumFunction

-----------------------------------------------------------------------------
(* Types *)

(* Every grant is a natural number, and what comes of it is a lease.        *)
LEMMA Grants ==
    ASSUME TypeOK, NEW a \in Aid
    PROVE  /\ CommittedWithout(a) \in Nat /\ Committed \in Nat
           /\ TurnGrant(a) \in Nat /\ MessageGrant(a) \in Nat
           /\ \A x \in Nat : SplitBudget(x) \in Nat
           /\ \A l \in Leases : Remaining(a, l) \in Nat
           /\ \A l \in Leases, f \in Int : RestoredGrant(a, l, f) \in Nat
           /\ \A g \in Nat : LeaseOf(a, g) \in Leases /\ used[a] + g \in Nat
           /\ NoLease \in Leases
<1>1. used[a] \in Nat /\ spent \in Nat /\ Total \in Nat /\ ShareFloor \in Nat
  BY SizesAssumption DEF TypeOK
<1>2. CommittedWithout(a) \in Nat /\ Committed \in Nat
  <2>1. CASE Declared
    BY <1>1, <2>1 DEF CommittedWithout, Committed
  <2>2. CASE ~Declared
    BY <2>2, Books DEF BooksAddUp
  <2> QED BY <2>1, <2>2
<1>3. TurnGrant(a) \in Nat
  <2>1. CASE Declared
    <3>1. Cap(a) \in Nat
      BY <2>1, CapIsNat
    <3> QED BY <1>1, <2>1, <3>1 DEF TurnGrant, GrantUnderCap, Greatest, Least
  <2>2. CASE ~Declared
    BY <1>1, <1>2, <2>2 DEF TurnGrant, Greatest
  <2> QED BY <2>1, <2>2
<1>4. \A x \in Nat : SplitBudget(x) \in Nat
  <2>1. Total \div 4 \in Nat
    BY <1>1
  <2> QED BY <1>1, <2>1 DEF SplitBudget, DynamicShare, Least, Greatest
<1>5. MessageGrant(a) \in Nat
  BY <1>2, <1>3, <1>4 DEF MessageGrant
<1>6. \A l \in Leases : Remaining(a, l) \in Nat
  BY <1>1 DEF Remaining, Leases, Greatest
<1>7. \A l \in Leases, f \in Int : RestoredGrant(a, l, f) \in Nat
  BY <1>6 DEF RestoredGrant, Least, Greatest
<1>8. \A g \in Nat : LeaseOf(a, g) \in Leases /\ used[a] + g \in Nat
  BY <1>1 DEF LeaseOf, Lease, NoLease, Leases
<1>9. NoLease \in Leases
  BY DEF NoLease, Leases
<1> QED BY <1>2, <1>3, <1>4, <1>5, <1>6, <1>7, <1>8, <1>9

(* Nobody boots itself, and nobody generates while an earlier call drains.  *)
PoolShape ==
    /\ TypeOK
    /\ \A a \in Aid : boot[a] # a
    /\ \A a \in Aid : act[a] = "gen" => ~drain[a]

LEMMA ShapeInit == Init => PoolShape
<1> SUFFICES ASSUME Init PROVE PoolShape
  OBVIOUS
<1>1. Total \in Nat /\ ShareFloor \in Nat /\ Total \div 4 \in Nat
  BY SizesAssumption
<1>2. DynamicShare \in Nat
  BY <1>1 DEF DynamicShare, Least, Greatest
<1>3. limit \in [Aid -> Nat]
  BY <1>1, CapIsNat DEF Init
<1>4. lease \in [Aid -> Leases]
  BY <1>2 DEF Init, Lease, NoLease, Leases
<1>5. act \in [Aid -> Activity]
  BY DEF Init, Activity
<1>6. NoAid \notin Aid
  BY SizesAssumption DEF NoAid, Aid
<1> QED BY <1>3, <1>4, <1>5, <1>6 DEF Init, PoolShape, TypeOK, NoLease, Leases

(* A new lease and limit of one agent keep their types.                     *)
LEMMA LeaseTypes ==
    ASSUME TypeOK, NEW a \in Aid, NEW l \in Leases, NEW n \in Nat,
           lease' = [lease EXCEPT ![a] = l],
           limit' = [limit EXCEPT ![a] = n] \/ limit' = limit
    PROVE  lease' \in [Aid -> Leases] /\ limit' \in [Aid -> Nat]
BY DEF TypeOK

(* The leases of an agent are released.                                     *)
LEMMA ReleaseTypes ==
    ASSUME TypeOK, NEW a \in Aid,
           \/ ReleaseLeases(a)
           \/ /\ held' = IF lease[a].live /\ ~Declared
                         THEN [held EXCEPT ![a] = Append(@, lease[a])] ELSE held
              /\ lease' = [lease EXCEPT ![a] = NoLease]
    PROVE  lease' \in [Aid -> Leases] /\ held' \in [Aid -> Seq(Leases)]
<1>1. NoLease \in Leases
  BY DEF NoLease, Leases
<1>2. lease' = [lease EXCEPT ![a] = NoLease] /\ lease \in [Aid -> Leases]
  BY DEF ReleaseLeases, TypeOK
<1>3. held' = held \/ held' = [held EXCEPT ![a] = Append(held[a], lease[a])]
  BY DEF ReleaseLeases
<1>4. held \in [Aid -> Seq(Leases)] /\ Append(held[a], lease[a]) \in Seq(Leases)
  BY DEF TypeOK
<1> QED BY <1>1, <1>2, <1>3, <1>4

(* A charge                                                                 *)
LEMMA ChargeTypes ==
    ASSUME TypeOK, NEW a \in Aid, NEW cost \in 0 .. MaxCost, Charge(a, cost)
    PROVE  /\ cost \in Nat /\ cost <= MaxCost
           /\ used' \in [Aid -> Nat] /\ spent' \in Nat
           /\ used'[a] = used[a] + cost /\ \A b \in Aid \ {a} : used'[b] = used[b]
           /\ Excess(a, cost) \in Nat
<1>1. cost \in Nat /\ cost <= MaxCost /\ used \in [Aid -> Nat] /\ spent \in Nat
  BY SizesAssumption DEF TypeOK
<1>2. used' \in [Aid -> Nat] /\ spent' \in Nat
  BY <1>1 DEF Charge
<1>3. used'[a] = used[a] + cost /\ \A b \in Aid \ {a} : used'[b] = used[b]
  BY <1>1 DEF Charge
<1>4. Excess(a, cost) \in Nat
  <2>1. lease[a] \in Leases
    BY DEF TypeOK
  <2>2. Remaining(a, lease[a]) \in Nat
    BY <2>1, Grants
  <2> QED BY <1>1, <2>2 DEF Excess, Greatest
<1> QED BY <1>1, <1>2, <1>3, <1>4

LEMMA ShapeStep ==
    ASSUME PoolShape, Next
    PROVE  PoolShape'
<1>0. 0 \in Aid /\ NoAid \notin Aid
  BY SizesAssumption DEF Aid, NoAid
<1>1. TypeOK /\ \A a \in Aid : boot[a] # a /\ (act[a] = "gen" => ~drain[a])
  BY DEF PoolShape
<1>2. ASSUME TypeOK', NEW a \in Aid, boot' = boot \/ boot'[a] # a,
             \A b \in Aid \ {a} : boot'[b] = boot[b],
             \A b \in Aid : act'[b] = "gen" => act[b] = "gen" \/ ~drain[b],
             \A b \in Aid : act'[b] = "gen" /\ drain'[b] => drain[b]
      PROVE  PoolShape'
  BY <1>1, <1>2 DEF PoolShape
<1>3. CASE PublicTurn
  <2>1. /\ lease' = [lease EXCEPT ![0] = LeaseOf(0, TurnGrant(0))]
        /\ limit' = [limit EXCEPT ![0] = used[0] + TurnGrant(0)]
        /\ act' = [act EXCEPT ![0] = "ready"] /\ turns' = [turns EXCEPT ![0] = @ + 1]
        /\ UNCHANGED <<used, spent, held, drain, open, boot, saved, over>>
    BY <1>3 DEF PublicTurn, ReserveTurnLease
  <2>2. LeaseOf(0, TurnGrant(0)) \in Leases /\ used[0] + TurnGrant(0) \in Nat
    BY <1>0, <1>1, Grants
  <2>3. lease' \in [Aid -> Leases] /\ limit' \in [Aid -> Nat]
    BY <1>0, <1>1, <2>1, <2>2, LeaseTypes
  <2>4. TypeOK'
    <3>1. act' \in [Aid -> Activity] /\ turns' \in [Aid -> Nat]
      BY <1>0, <1>1, <2>1 DEF TypeOK, Activity
    <3> QED BY <1>1, <2>1, <2>3, <3>1 DEF TypeOK
  <2> QED BY <1>0, <1>1, <1>2, <2>1, <2>4 DEF TypeOK
<1>4. ASSUME NEW a \in Aid, MessageTurn(a) PROVE PoolShape'
  <2>1. /\ act' = [act EXCEPT ![a] = "ready"] /\ turns' = [turns EXCEPT ![a] = @ + 1]
        /\ UNCHANGED <<used, spent, held, drain, open, boot, saved, over>>
    BY <1>4 DEF MessageTurn
  <2>2. LeaseOf(a, MessageGrant(a)) \in Leases /\ used[a] + MessageGrant(a) \in Nat
    BY <1>1, Grants
  <2>3. lease' \in [Aid -> Leases] /\ limit' \in [Aid -> Nat]
    <3>1. CASE UNCHANGED <<lease, limit>>
      BY <1>1, <3>1 DEF TypeOK
    <3>2. CASE ~ UNCHANGED <<lease, limit>>
      <4>1. /\ lease' = [lease EXCEPT ![a] = LeaseOf(a, MessageGrant(a))]
            /\ limit' = [limit EXCEPT ![a] = used[a] + MessageGrant(a)]
        BY <1>4, <3>2 DEF MessageTurn, ReserveMessageBudget
      <4> QED BY <1>1, <2>2, <4>1, LeaseTypes
    <3> QED BY <3>1, <3>2
  <2>4. TypeOK'
    <3>1. act' \in [Aid -> Activity] /\ turns' \in [Aid -> Nat]
      BY <1>1, <2>1 DEF TypeOK, Activity
    <3> QED BY <1>1, <2>1, <2>3, <3>1 DEF TypeOK
  <2> QED BY <1>1, <1>2, <2>1, <2>4 DEF TypeOK
<1>5. ASSUME NEW a \in Aid, AppendFails(a) PROVE PoolShape'
  <2> DEFINE g == RestoredGrant(a, lease[a], Total - CommittedWithout(a))
             l == IF lease[a].live THEN LeaseOf(a, g) ELSE NoLease
             n == used[a] + (IF lease[a].live THEN g ELSE MessageGrant(a))
  <2>1. /\ lease' = [lease EXCEPT ![a] = l] /\ limit' = [limit EXCEPT ![a] = n]
        /\ UNCHANGED <<act, turns, used, spent, held, drain, open, boot, saved, over>>
    BY <1>5 DEF AppendFails
  <2>2. l \in Leases /\ n \in Nat
    <3>1. Total - CommittedWithout(a) \in Int /\ lease[a] \in Leases
      BY <1>1, Grants, SizesAssumption DEF TypeOK
    <3>2. g \in Nat
      BY <1>1, <3>1, Grants
    <3> HIDE DEF g
    <3> QED BY <1>1, <3>2, Grants
  <2> HIDE DEF l, n
  <2>3. lease' \in [Aid -> Leases] /\ limit' \in [Aid -> Nat]
    BY <1>1, <2>1, <2>2, LeaseTypes
  <2>4. TypeOK'
    BY <1>1, <2>1, <2>3 DEF TypeOK
  <2> QED BY <1>1, <1>2, <2>1, <2>4
<1>6. ASSUME NEW a \in Aid, StartGeneration(a) PROVE PoolShape'
  <2>1. TypeOK'
    BY <1>1, <1>6 DEF StartGeneration, TypeOK, Activity
  <2> QED BY <1>1, <1>2, <1>6, <2>1 DEF StartGeneration, MayGenerate, TypeOK
<1>7. ASSUME NEW a \in Aid, EndGeneration(a) PROVE PoolShape'
  <2>1. PICK cost \in 0 .. MaxCost :
          /\ Charge(a, cost)
          /\ over' = over + Excess(a, cost)
          /\ \/ /\ act' = [act EXCEPT ![a] = "ended"]
                /\ ReleaseLeases(a)
             \/ /\ used'[a] <= limit[a]
                /\ \E next \in {"ready", "tools"} : act' = [act EXCEPT ![a] = next]
                /\ UNCHANGED <<held, lease>>
    BY <1>7 DEF EndGeneration
  <2>2. used' \in [Aid -> Nat] /\ spent' \in Nat /\ Excess(a, cost) \in Nat
    BY <1>1, <2>1, ChargeTypes
  <2>3. act' \in [Aid -> Activity] /\ act'[a] # "gen" /\ \A b \in Aid \ {a} : act'[b] = act[b]
    <3>1. \E next \in {"ended", "ready", "tools"} : act' = [act EXCEPT ![a] = next]
      BY <2>1
    <3>2. PICK next \in {"ended", "ready", "tools"} : act' = [act EXCEPT ![a] = next]
      BY <3>1
    <3> QED BY <1>1, <3>2 DEF TypeOK, Activity
  <2>4. lease' \in [Aid -> Leases] /\ held' \in [Aid -> Seq(Leases)]
    <3>1. CASE ReleaseLeases(a)
      BY <1>1, <3>1, ReleaseTypes
    <3>2. CASE UNCHANGED <<held, lease>>
      BY <1>1, <3>2 DEF TypeOK
    <3> QED BY <2>1, <3>1, <3>2
  <2>5. UNCHANGED <<turns, limit, drain, open, boot, saved>> /\ over' \in Nat
    BY <1>1, <1>7, <2>1, <2>2 DEF EndGeneration, TypeOK
  <2>6. TypeOK'
    BY <1>1, <2>2, <2>3, <2>4, <2>5 DEF TypeOK
  <2> QED BY <1>1, <1>2, <2>3, <2>5, <2>6
<1>8. ASSUME NEW a \in Aid, AbandonGeneration(a) PROVE PoolShape'
  <2>1. lease' \in [Aid -> Leases] /\ held' \in [Aid -> Seq(Leases)]
    BY <1>1, <1>8, ReleaseTypes DEF AbandonGeneration
  <2>2. TypeOK'
    BY <1>1, <1>8, <2>1 DEF AbandonGeneration, TypeOK, Activity
  <2> QED BY <1>1, <1>2, <1>8, <2>2 DEF AbandonGeneration, TypeOK
<1>9. ASSUME NEW a \in Aid, LateUsage(a) PROVE PoolShape'
  <2>1. PICK cost \in 0 .. MaxCost :
          /\ Charge(a, cost)
          /\ over' = over + Greatest(0, cost - (IF held[a] # <<>>
                                                 THEN Remaining(a, held[a][1]) ELSE 0))
    BY <1>9 DEF LateUsage
  <2>2. used' \in [Aid -> Nat] /\ spent' \in Nat /\ cost \in Nat
    BY <1>1, <2>1, ChargeTypes
  <2>3. held[a] # <<>> => Remaining(a, held[a][1]) \in Nat
    BY <1>1, HeldCovers
  <2>4. over' \in Nat
    <3>1. over \in Nat
      BY <1>1 DEF TypeOK
    <3> QED BY <2>1, <2>2, <2>3, <3>1 DEF Greatest
  <2>5. /\ drain' = [drain EXCEPT ![a] = FALSE] /\ held' = [held EXCEPT ![a] = <<>>]
        /\ UNCHANGED <<act, turns, limit, lease, open, boot, saved>>
    BY <1>9 DEF LateUsage
  <2>6. held' \in [Aid -> Seq(Leases)] /\ drain' \in [Aid -> BOOLEAN]
    BY <1>1, <2>5 DEF TypeOK
  <2>7. TypeOK'
    BY <1>1, <2>2, <2>4, <2>5, <2>6 DEF TypeOK
  <2> QED BY <1>1, <1>2, <2>5, <2>7 DEF TypeOK
<1>10. ASSUME NEW a \in Aid, StopTurn(a) PROVE PoolShape'
  <2>1. lease' \in [Aid -> Leases] /\ held' \in [Aid -> Seq(Leases)]
    BY <1>1, <1>10, ReleaseTypes DEF StopTurn
  <2>2. TypeOK'
    BY <1>1, <1>10, <2>1 DEF StopTurn, TypeOK, Activity
  <2> QED BY <1>1, <1>2, <1>10, <2>2 DEF StopTurn, TypeOK
<1>11. ASSUME NEW a \in Aid, NEW c \in Aid, Spawn(a, c) PROVE PoolShape'
  <2> DEFINE g == SplitBudget(CommittedWithout(a))
  <2>1. g \in Nat
    BY <1>1, Grants
  <2>2. /\ lease' = [lease EXCEPT ![a] = NoLease, ![c] = Lease(g, used[c])]
        /\ limit' = [limit EXCEPT ![c] = g]
        /\ saved' = [saved EXCEPT ![a] = lease[a]] /\ boot' = [boot EXCEPT ![a] = c]
        /\ a # c
        /\ UNCHANGED <<act, turns, used, spent, held, drain, open, over>>
    BY <1>11 DEF Spawn
  <2> HIDE DEF g
  <2>3. Lease(g, used[c]) \in Leases /\ NoLease \in Leases
    BY <1>1, <2>1 DEF Lease, NoLease, Leases, TypeOK
  <2>4. lease' \in [Aid -> Leases] /\ limit' \in [Aid -> Nat]
    BY <1>1, <2>1, <2>2, <2>3 DEF TypeOK
  <2>5. TypeOK'
    BY <1>1, <2>2, <2>4 DEF TypeOK
  <2>6. boot \in [Aid -> Aid \cup {NoAid}]
    BY <1>1 DEF TypeOK
  <2>7. \A x \in Aid : boot'[x] # x
    BY <1>1, <2>2, <2>6
  <2>8. \A x \in Aid : act'[x] = "gen" => ~drain'[x]
    BY <1>1, <2>2
  <2> QED BY <2>5, <2>7, <2>8 DEF PoolShape
<1>12. ASSUME NEW a \in Aid, SpawnStarts(a) PROVE PoolShape'
  <2> DEFINE c == boot[a]
  <2>1. /\ c \in Aid
        /\ act' = [act EXCEPT ![c] = "ready"] /\ turns' = [turns EXCEPT ![c] = 1]
        /\ open' = [open EXCEPT ![a] = @ \cup {c}]
        /\ boot' = [boot EXCEPT ![a] = NoAid] /\ saved' = [saved EXCEPT ![a] = NoLease]
        /\ UNCHANGED <<used, spent, limit, lease, held, drain, over>>
    BY <1>1, <1>12 DEF SpawnStarts, TypeOK
  <2> HIDE DEF c
  <2>2. NoLease \in Leases
    BY DEF NoLease, Leases
  <2>3. act' \in [Aid -> Activity] /\ turns' \in [Aid -> Nat] /\ open' \in [Aid -> SUBSET Aid]
    BY <1>1, <2>1 DEF TypeOK, Activity
  <2>4. boot' \in [Aid -> Aid \cup {NoAid}] /\ saved' \in [Aid -> Leases]
    BY <1>1, <2>1, <2>2 DEF TypeOK
  <2>5. TypeOK'
    BY <1>1, <2>1, <2>3, <2>4 DEF TypeOK
  <2>6. act \in [Aid -> Activity] /\ boot \in [Aid -> Aid \cup {NoAid}]
    BY <1>1 DEF TypeOK
  <2>7. \A x \in Aid : boot'[x] # x
    BY <1>0, <1>1, <2>1, <2>6
  <2>8. \A x \in Aid : act'[x] = "gen" => ~drain'[x]
    BY <1>1, <2>1, <2>6
  <2> QED BY <2>5, <2>7, <2>8 DEF PoolShape
<1>13. ASSUME NEW a \in Aid, SpawnFails(a) PROVE PoolShape'
  <2> DEFINE c == boot[a]
             free == Total - (CommittedWithout(c) - (IF lease[a].live THEN Remaining(a, lease[a]) ELSE 0))
             g == RestoredGrant(a, saved[a], free)
  <2>0. c \in Aid
    BY <1>1, <1>13 DEF SpawnFails, TypeOK
  <2>1. g \in Nat /\ LeaseOf(a, g) \in Leases /\ NoLease \in Leases /\ used[a] + g \in Nat
    <3>1. CommittedWithout(c) \in Nat /\ Total \in Nat
      BY <1>1, <2>0, Grants, SizesAssumption
    <3>2. lease[a] \in Leases /\ saved[a] \in Leases
      BY <1>1 DEF TypeOK
    <3>3. Remaining(a, lease[a]) \in Nat
      BY <1>1, <3>2, Grants
    <3>4. free \in Int
      BY <3>1, <3>3
    <3> HIDE DEF free
    <3>5. g \in Nat
      BY <1>1, <3>2, <3>4, Grants
    <3> HIDE DEF g
    <3> QED BY <1>1, <3>5, Grants
  <2>2. /\ lease' = [lease EXCEPT ![c] = NoLease,
                              ![a] = IF saved[a].live THEN LeaseOf(a, g) ELSE @]
        /\ limit' = IF saved[a].live THEN [limit EXCEPT ![a] = used[a] + g] ELSE limit
        /\ boot' = [boot EXCEPT ![a] = NoAid]
        /\ saved' = [saved EXCEPT ![a] = NoLease]
        /\ UNCHANGED <<act, turns, used, spent, held, drain, open, over>>
    BY <1>13 DEF SpawnFails
  <2> HIDE DEF g, c
  <2>3. lease' \in [Aid -> Leases] /\ limit' \in [Aid -> Nat]
    BY <1>1, <2>0, <2>1, <2>2 DEF TypeOK
  <2>4. TypeOK'
    BY <1>1, <2>1, <2>2, <2>3 DEF TypeOK
  <2> QED BY <1>0, <1>1, <1>2, <2>2, <2>4 DEF TypeOK
<1>14. ASSUME NEW a \in Aid, FinishBatch(a) PROVE PoolShape'
  <2>1. TypeOK'
    BY <1>1, <1>14 DEF FinishBatch, TypeOK, Activity
  <2> QED BY <1>1, <1>2, <1>14, <2>1 DEF FinishBatch, TypeOK
<1>15. ASSUME NEW a \in Aid, Deliver(a) PROVE PoolShape'
  <2>1. act' \in [Aid -> Activity] /\ \A b \in Aid : act'[b] = "gen" => act[b] = "gen"
    BY <1>1, <1>15 DEF Deliver, TypeOK, Activity
  <2>2. open' \in [Aid -> SUBSET Aid]
    BY <1>1, <1>15 DEF Deliver, TypeOK
  <2>3. lease' \in [Aid -> Leases] /\ limit' \in [Aid -> Nat]
    <3>1. CASE UNCHANGED <<lease, limit>>
      BY <1>1, <3>1 DEF TypeOK
    <3>2. CASE ~ UNCHANGED <<lease, limit>>
      <4>1. PICK p \in Aid : ReserveTurnLease(p)
        BY <1>15, <3>2 DEF Deliver
      <4>2. LeaseOf(p, TurnGrant(p)) \in Leases /\ used[p] + TurnGrant(p) \in Nat
        BY <1>1, Grants
      <4> QED BY <1>1, <4>1, <4>2, LeaseTypes DEF ReserveTurnLease
    <3> QED BY <3>1, <3>2
  <2>4. UNCHANGED <<turns, used, spent, held, drain, boot, saved, over>>
    BY <1>15 DEF Deliver
  <2>5. TypeOK'
    BY <1>1, <2>1, <2>2, <2>3, <2>4 DEF TypeOK
  <2> QED BY <1>1, <1>2, <2>1, <2>4, <2>5
<1> QED BY <1>3, <1>4, <1>5, <1>6, <1>7, <1>8, <1>9, <1>10, <1>11, <1>12, <1>13,
            <1>14, <1>15 DEF Next, AgentStep

-----------------------------------------------------------------------------
(* The pool *)

(* A lease that counts starts at or below what its owner has spent: with a  *)
(* baseline above it, spending would not be taken off the lease.            *)
PoolBooks ==
    ~Declared =>
        /\ \A a \in Aid : lease[a].live => lease[a].baseline <= used[a]
        /\ Committed <= Total + over

(* A lease is replaced by one that takes no more than the old one or than   *)
(* what nobody else holds.                                                  *)
LEMMA Rebooked ==
    ASSUME ~Declared, PoolShape, PoolBooks, TypeOK', NEW a \in Aid, NEW l \in Leases,
           lease' = [lease EXCEPT ![a] = l], UNCHANGED <<used, spent, held, over>>,
           l.live => /\ l.baseline <= used[a]
                     /\ \/ Remaining(a, l) <= LiveLease(a)
                        \/ Remaining(a, l) <= Greatest(0, Total - CommittedWithout(a))
    PROVE  PoolBooks'
<1>1. TypeOK
  BY DEF PoolShape
<1>2. \A b \in Aid : HeldLeases(b)' = HeldLeases(b)
  BY HeldStays
<1>3. lease'[a] = l /\ \A b \in Aid \ {a} : lease'[b] = lease[b]
  BY <1>1 DEF TypeOK
<1>4. \A b \in Aid \ {a} : LiveLease(b)' = LiveLease(b)
  BY <1>3 DEF LiveLease, Remaining
<1>5. LiveLease(a)' = IF l.live THEN Remaining(a, l) ELSE 0
  BY <1>3 DEF LiveLease, Remaining
<1>6. Committed' = Committed + (spent' - spent) + (LiveLease(a)' - LiveLease(a))
                    + (HeldLeases(a)' - HeldLeases(a))
  BY <1>1, <1>2, <1>4, OneBooks
<1>7. /\ LiveLease(a) \in Nat /\ HeldLeases(a) \in Nat /\ LiveLease(a)' \in Nat
      /\ Committed \in Nat /\ CommittedWithout(a) \in Nat
      /\ CommittedWithout(a) = Committed - LiveLease(a)
  BY <1>1, Books, BooksAfter DEF BooksAddUp
<1>8. spent \in Nat /\ over \in Nat /\ Total \in Nat
  BY <1>1, SizesAssumption DEF TypeOK
<1>9. Committed' = CommittedWithout(a) + LiveLease(a)'
  BY <1>2, <1>6, <1>7, <1>8
<1>10. Remaining(a, l) \in Nat
  BY <1>1, Grants
<1>11. Committed' <= Total + over'
  BY <1>5, <1>7, <1>8, <1>9, <1>10 DEF PoolBooks, Greatest
<1>12. \A b \in Aid : lease'[b].live => lease'[b].baseline <= used'[b]
  BY <1>3 DEF PoolBooks
<1> QED BY <1>11, <1>12 DEF PoolBooks

(* Nothing changes that is counted.                                         *)
LEMMA BooksStay ==
    ASSUME PoolShape, PoolBooks, TypeOK', UNCHANGED <<used, spent, held, over, lease>>
    PROVE  PoolBooks'
BY DEF PoolBooks, Committed, CommittedWithout, LiveLease, HeldLeases, Remaining

(* A new lease takes what it grants.                                        *)
LEMMA NewLease ==
    ASSUME TypeOK, NEW a \in Aid, NEW g \in Nat
    PROVE  /\ LeaseOf(a, g) \in Leases
           /\ LeaseOf(a, g).live => /\ LeaseOf(a, g).baseline <= used[a]
                                    /\ Remaining(a, LeaseOf(a, g)) = g
           /\ Lease(g, used[a]) \in Leases /\ Remaining(a, Lease(g, used[a])) = g
<1>1. used[a] \in Nat
  BY DEF TypeOK
<1>2. LeaseOf(a, g) \in {Lease(g, used[a]), NoLease}
  BY DEF LeaseOf
<1>3. /\ Lease(g, used[a]) \in Leases /\ Lease(g, used[a]).baseline = used[a]
      /\ Lease(g, used[a]).grant = g
  BY <1>1 DEF Lease, Leases
<1>4. NoLease \in Leases /\ ~NoLease.live
  BY DEF NoLease, Leases
<1>5. Remaining(a, Lease(g, used[a])) = g
  BY <1>1, <1>3 DEF Remaining, Greatest
<1> QED BY <1>1, <1>2, <1>3, <1>4, <1>5

LEMMA TurnBooks ==
    ASSUME ~Declared, PoolShape, PoolBooks, TypeOK', NEW a \in Aid, ReserveTurnLease(a),
           UNCHANGED <<used, spent, held, over>>
    PROVE  PoolBooks'
<1>1. TypeOK
  BY DEF PoolShape
<1>2. TurnGrant(a) = Greatest(0, Total - CommittedWithout(a)) /\ TurnGrant(a) \in Nat
  BY <1>1, Grants DEF TurnGrant
<1>3. lease' = [lease EXCEPT ![a] = LeaseOf(a, TurnGrant(a))]
  BY DEF ReserveTurnLease
<1>4. /\ LeaseOf(a, TurnGrant(a)) \in Leases
      /\ LeaseOf(a, TurnGrant(a)).live =>
            /\ LeaseOf(a, TurnGrant(a)).baseline <= used[a]
            /\ Remaining(a, LeaseOf(a, TurnGrant(a))) = TurnGrant(a)
  BY <1>1, <1>2, NewLease
<1>5. TurnGrant(a) <= Greatest(0, Total - CommittedWithout(a))
  BY <1>2
<1> QED BY <1>3, <1>4, <1>5, Rebooked

LEMMA PoolInit == Init => PoolBooks
<1> SUFFICES ASSUME Init, ~Declared PROVE PoolBooks
  BY DEF PoolBooks
<1>1. TypeOK
  BY ShapeInit DEF PoolShape
<1>2. 0 \in Aid /\ Total \in Nat /\ ShareFloor \in Nat /\ Total \div 4 \in Nat
  BY SizesAssumption DEF Aid
<1>3. DynamicShare \in Nat /\ DynamicShare <= Total
  BY <1>2 DEF DynamicShare, Least, Greatest
<1>4. LiveLease(0) = DynamicShare
  BY <1>2, <1>3 DEF Init, LiveLease, Remaining, Lease, Greatest
<1>5. \A b \in Aid : HeldLeases(b) = 0
  <2> SUFFICES ASSUME NEW b \in Aid PROVE HeldLeases(b) = 0
    OBVIOUS
  <2> DEFINE left == [i \in DOMAIN held[b] |-> Remaining(b, held[b][i])]
  <2>1. DOMAIN left = {}
    BY DEF Init
  <2>2. HeldLeases(b) = SumFunction(left)
    BY DEF HeldLeases
  <2> HIDE DEF left
  <2>3. IsFiniteSet({})
    BY FS_EmptySet
  <2>4. SumFunctionOnSet(left, {}) = 0
    BY <2>3, SumSplits
  <2> QED BY <2>1, <2>2, <2>4 DEF SumFunction
<1>6. \A b \in Aid \ {0} : LiveLease(b) = 0
  BY DEF Init, LiveLease, NoLease
<1> DEFINE live == [b \in Aid |-> LiveLease(b)]
           kept == [b \in Aid |-> HeldLeases(b)]
           zero == [b \in Aid |-> 0]
<1>7. IsFiniteSet(Aid) /\ Aid \ {NoAid} = Aid
  BY FS_Interval, SizesAssumption DEF Aid, NoAid
<1>8. Committed = spent + SumFunctionOnSet(live, Aid) + SumFunction(kept)
  BY <1>7 DEF Committed, CommittedWithout
<1>9. /\ \A b \in Aid : live[b] = LiveLease(b) /\ kept[b] = 0 /\ zero[b] = 0
      /\ DOMAIN kept = Aid
  BY <1>5
<1> HIDE DEF live, kept, zero
<1>10. SumFunctionOnSet(zero, Aid) = 0
  BY <1>7, <1>9, SumOfZeros
<1>11. SumFunctionOnSet(kept, Aid) = 0
  BY <1>7, <1>9, SumOfZeros
<1>12. SumFunctionOnSet(live, Aid) = SumFunctionOnSet(zero, Aid) - zero[0] + live[0]
  <2>1. \A b \in Aid \ {0} : zero[b] = live[b]
    BY <1>6, <1>9
  <2>2. \A b \in Aid : zero[b] \in Int /\ live[b] \in Int
    BY <1>3, <1>4, <1>6, <1>9
  <2> QED BY <1>2, <1>7, <2>1, <2>2, SumChanges
<1>13. Committed = DynamicShare
  <2>1. spent = 0 /\ live[0] = DynamicShare /\ zero[0] = 0
    BY <1>2, <1>4, <1>9 DEF Init
  <2> QED BY <1>3, <1>8, <1>9, <1>10, <1>11, <1>12, <2>1 DEF SumFunction
<1>14. over = 0 /\ \A a \in Aid : lease[a].live => lease[a].baseline <= used[a]
  BY DEF Init, Lease, NoLease
<1> QED BY <1>2, <1>3, <1>13, <1>14 DEF PoolBooks

(* An agent gives its lease up; the call that drains may keep it.           *)
LEMMA ReleaseBooks ==
    ASSUME ~Declared, PoolShape, PoolBooks, TypeOK', NEW a \in Aid,
           lease' = [lease EXCEPT ![a] = NoLease],
           held' = held \/ (lease[a].live /\ held' = [held EXCEPT ![a] = Append(@, lease[a])]),
           UNCHANGED <<used, spent, over>>
    PROVE  PoolBooks'
<1>1. TypeOK
  BY DEF PoolShape
<1>2. CASE held' = held
  <2>1. NoLease \in Leases /\ ~NoLease.live
    BY DEF NoLease, Leases
  <2> QED BY <1>2, <2>1, Rebooked
<1>3. CASE lease[a].live /\ held' = [held EXCEPT ![a] = Append(@, lease[a])]
  <2>1. /\ lease'[a] = NoLease /\ \A b \in Aid \ {a} : lease'[b] = lease[b]
        /\ held'[a] = Append(held[a], lease[a]) /\ \A b \in Aid \ {a} : held'[b] = held[b]
        /\ lease[a] \in Leases
    BY <1>1, <1>3 DEF TypeOK
  <2>2. ASSUME NEW b \in Aid \ {a}
        PROVE  LiveLease(b)' = LiveLease(b) /\ HeldLeases(b)' = HeldLeases(b)
    <3>1. LiveLease(b)' = LiveLease(b)
      BY <2>1 DEF LiveLease, Remaining
    <3>2. HeldLeases(b)' = HeldLeases(b)
      BY <2>1, HeldStays
    <3> QED BY <3>1, <3>2
  <2>3. HeldLeases(a)' = HeldLeases(a) + Remaining(a, lease[a])
    BY <1>1, <2>1, HeldAppends
  <2>4. LiveLease(a) = Remaining(a, lease[a]) /\ LiveLease(a)' = 0
    BY <1>3, <2>1 DEF LiveLease, NoLease
  <2>5. Committed' = Committed + (spent' - spent) + (LiveLease(a)' - LiveLease(a))
                      + (HeldLeases(a)' - HeldLeases(a))
    BY <1>1, <2>2, OneBooks
  <2>6. /\ LiveLease(a) \in Nat /\ HeldLeases(a) \in Nat /\ Committed \in Nat
        /\ spent \in Nat
    BY <1>1, Books DEF BooksAddUp, TypeOK
  <2>7. Committed' = Committed
    BY <2>3, <2>4, <2>5, <2>6
  <2>8. \A b \in Aid : lease'[b].live => lease'[b].baseline <= used'[b]
    BY <2>1 DEF PoolBooks, NoLease
  <2> QED BY <2>7, <2>8 DEF PoolBooks
<1> QED BY <1>2, <1>3

(* Spending is taken off the lease before it counts as overspent.           *)
LEMMA SpendBooks ==
    ASSUME ~Declared, PoolShape, PoolBooks, TypeOK', NEW a \in Aid, EndGeneration(a)
    PROVE  PoolBooks'
<1>1. TypeOK /\ ~drain[a]
  BY DEF PoolShape, EndGeneration
<1>2. PICK cost \in 0 .. MaxCost :
        /\ Charge(a, cost)
        /\ over' = over + Excess(a, cost)
        /\ ReleaseLeases(a) \/ UNCHANGED <<held, lease>>
  BY DEF EndGeneration
<1>3. /\ cost \in Nat /\ used'[a] = used[a] + cost
      /\ \A b \in Aid \ {a} : used'[b] = used[b]
  BY <1>1, <1>2, ChargeTypes
<1>4. held' = held /\ (lease' = lease \/ lease' = [lease EXCEPT ![a] = NoLease])
  BY <1>1, <1>2 DEF ReleaseLeases
<1>5. /\ lease'[a] \in {lease[a], NoLease} /\ \A b \in Aid \ {a} : lease'[b] = lease[b]
      /\ lease[a] \in Leases /\ used[a] \in Nat
  BY <1>1, <1>4 DEF TypeOK
<1>6. ASSUME NEW b \in Aid \ {a}
      PROVE  LiveLease(b)' = LiveLease(b) /\ HeldLeases(b)' = HeldLeases(b)
  <2>1. LiveLease(b)' = LiveLease(b)
    BY <1>3, <1>5 DEF LiveLease, Remaining
  <2>2. HeldLeases(b)' = HeldLeases(b)
    BY <1>3, <1>4, HeldStays
  <2> QED BY <2>1, <2>2
<1>7. HeldLeases(a)' <= HeldLeases(a)
  <2>1. used[a] <= used'[a] /\ held'[a] = held[a]
    BY <1>3, <1>4, <1>5
  <2> QED BY <1>1, <2>1, HeldShrinks
<1>8. LiveLease(a)' <= Greatest(0, LiveLease(a) - cost)
  <2>1. CASE ~lease'[a].live
    <3>1. LiveLease(a)' = 0
      BY <2>1 DEF LiveLease
    <3> QED BY <3>1, <1>1, <1>3, Books DEF BooksAddUp, Greatest
  <2>2. CASE lease'[a].live
    <3>1. lease'[a] = lease[a] /\ lease[a].live /\ lease[a].baseline <= used[a]
      BY <1>5, <2>2 DEF NoLease, PoolBooks
    <3>0. LiveLease(a)' = Greatest(0, lease'[a].grant - Greatest(0, used'[a] - lease'[a].baseline))
      BY <2>2 DEF LiveLease, Remaining
    <3>2. LiveLease(a)' = Greatest(0, lease[a].grant - Greatest(0, used'[a] - lease[a].baseline))
      BY <3>0, <3>1
    <3>3. LiveLease(a) = Greatest(0, lease[a].grant - Greatest(0, used[a] - lease[a].baseline))
      BY <3>1 DEF LiveLease, Remaining
    <3>4. lease[a].grant \in Nat /\ lease[a].baseline \in Nat
      BY <1>5 DEF Leases
    <3> QED BY <1>3, <1>5, <3>1, <3>2, <3>3, <3>4 DEF Greatest
  <2> QED BY <2>1, <2>2
<1>9. Committed' = Committed + (spent' - spent) + (LiveLease(a)' - LiveLease(a))
                    + (HeldLeases(a)' - HeldLeases(a))
  BY <1>1, <1>6, OneBooks
<1>10. /\ LiveLease(a) \in Nat /\ HeldLeases(a) \in Nat /\ Committed \in Nat
       /\ LiveLease(a)' \in Nat /\ HeldLeases(a)' \in Nat
       /\ spent \in Nat /\ over \in Nat /\ Total \in Nat
  BY <1>1, Books, BooksAfter, SizesAssumption DEF BooksAddUp, TypeOK
<1>11. spent' = spent + cost /\ Excess(a, cost) = Greatest(0, cost - LiveLease(a))
  BY <1>2 DEF Charge, Excess, LiveLease
<1>12. Committed' <= Total + over'
  <2>1. Committed <= Total + over
    BY DEF PoolBooks
  <2> QED BY <1>2, <1>3, <1>7, <1>8, <1>9, <1>10, <1>11, <2>1 DEF Greatest
<1>13. \A b \in Aid : lease'[b].live => lease'[b].baseline <= used'[b]
  <2>1. lease'[a].live => lease'[a].baseline <= used'[a]
    <3>1. lease[a].baseline \in Nat
      BY <1>5 DEF Leases
    <3> QED BY <1>3, <1>5, <3>1 DEF PoolBooks, NoLease
  <2>2. \A b \in Aid \ {a} : lease'[b].live => lease'[b].baseline <= used'[b]
    BY <1>3, <1>5 DEF PoolBooks
  <2> QED BY <2>1, <2>2
<1> QED BY <1>12, <1>13 DEF PoolBooks

(* Late usage is taken off what the call kept, and the rest of that goes.   *)
LEMMA LateBooks ==
    ASSUME ~Declared, PoolShape, PoolBooks, TypeOK', NEW a \in Aid, LateUsage(a)
    PROVE  PoolBooks'
<1>1. TypeOK
  BY DEF PoolShape
<1>2. PICK cost \in 0 .. MaxCost :
        /\ Charge(a, cost)
        /\ over' = over + Greatest(0, cost - (IF held[a] # <<>>
                                               THEN Remaining(a, held[a][1]) ELSE 0))
  BY DEF LateUsage
<1>3. /\ cost \in Nat /\ used'[a] = used[a] + cost
      /\ \A b \in Aid \ {a} : used'[b] = used[b]
  BY <1>1, <1>2, ChargeTypes
<1>4. held' = [held EXCEPT ![a] = <<>>] /\ lease' = lease
  BY DEF LateUsage
<1>5. /\ held'[a] = <<>> /\ \A b \in Aid \ {a} : held'[b] = held[b]
      /\ lease[a] \in Leases /\ used[a] \in Nat
  BY <1>1, <1>4 DEF TypeOK
<1>6. ASSUME NEW b \in Aid \ {a}
      PROVE  LiveLease(b)' = LiveLease(b) /\ HeldLeases(b)' = HeldLeases(b)
  <2>1. LiveLease(b)' = LiveLease(b)
    BY <1>3, <1>4 DEF LiveLease, Remaining
  <2>2. HeldLeases(b)' = HeldLeases(b)
    BY <1>3, <1>5, HeldStays
  <2> QED BY <2>1, <2>2
<1>7. HeldLeases(a)' = 0
  <2> DEFINE left == [i \in DOMAIN held'[a] |-> Remaining(a, held[a][i])']
  <2>1. DOMAIN left = {}
    BY <1>5
  <2>2. HeldLeases(a)' = SumFunction(left)
    BY DEF HeldLeases
  <2> HIDE DEF left
  <2>3. SumFunctionOnSet(left, {}) = 0
    BY FS_EmptySet, SumSplits
  <2> QED BY <2>1, <2>2, <2>3 DEF SumFunction
<1>8. LiveLease(a)' <= LiveLease(a)
  <2>1. CASE ~lease[a].live
    BY <1>4, <2>1 DEF LiveLease
  <2>2. CASE lease[a].live
    <3>0. LiveLease(a)' = Greatest(0, lease'[a].grant - Greatest(0, used'[a] - lease'[a].baseline))
      BY <1>4, <2>2 DEF LiveLease, Remaining
    <3>1. LiveLease(a)' = Greatest(0, lease[a].grant - Greatest(0, used'[a] - lease[a].baseline))
      BY <1>4, <3>0
    <3>2. LiveLease(a) = Greatest(0, lease[a].grant - Greatest(0, used[a] - lease[a].baseline))
      BY <2>2 DEF LiveLease, Remaining
    <3>3. used'[a] \in Nat /\ used[a] <= used'[a]
      BY <1>3, <1>5
    <3>4. Greatest(0, lease[a].grant - Greatest(0, used'[a] - lease[a].baseline))
            <= Greatest(0, lease[a].grant - Greatest(0, used[a] - lease[a].baseline))
      BY <1>5, <3>3, RemainingShrinks
    <3> QED BY <3>1, <3>2, <3>4
  <2> QED BY <2>1, <2>2
<1>9. Committed' = Committed + (spent' - spent) + (LiveLease(a)' - LiveLease(a))
                    + (HeldLeases(a)' - HeldLeases(a))
  BY <1>1, <1>6, OneBooks
<1>10. /\ LiveLease(a) \in Nat /\ HeldLeases(a) \in Nat /\ Committed \in Nat
       /\ LiveLease(a)' \in Nat
       /\ spent \in Nat /\ over \in Nat /\ Total \in Nat
  BY <1>1, Books, BooksAfter, SizesAssumption DEF BooksAddUp, TypeOK
<1>11. spent' = spent + cost
  BY <1>2 DEF Charge
<1>12. held[a] # <<>> =>
         Remaining(a, held[a][1]) \in Nat /\ Remaining(a, held[a][1]) <= HeldLeases(a)
  BY <1>1, HeldCovers
<1>13. over' >= over + (cost - HeldLeases(a)) /\ over' >= over
  BY <1>2, <1>3, <1>10, <1>12 DEF Greatest
<1>14. over' \in Nat
  BY DEF TypeOK
<1>15. Committed' <= Total + over'
  <2>1. Committed <= Total + over
    BY DEF PoolBooks
  <2> QED BY <1>3, <1>7, <1>8, <1>9, <1>10, <1>11, <1>13, <1>14, <2>1
<1>16. \A b \in Aid : lease'[b].live => lease'[b].baseline <= used'[b]
  <2>1. lease'[a].live => lease'[a].baseline <= used'[a]
    <3>1. lease[a].baseline \in Nat
      BY <1>5 DEF Leases
    <3> QED BY <1>3, <1>4, <1>5, <3>1 DEF PoolBooks
  <2>2. \A b \in Aid \ {a} : lease'[b].live => lease'[b].baseline <= used'[b]
    BY <1>3, <1>4 DEF PoolBooks
  <2> QED BY <2>1, <2>2
<1> QED BY <1>15, <1>16 DEF PoolBooks

(* The parent's lease goes back before the child books its share.           *)
LEMMA SpawnBooks ==
    ASSUME ~Declared, PoolShape, PoolBooks, TypeOK', NEW p \in Aid, NEW c \in Aid, Spawn(p, c)
    PROVE  PoolBooks'
<1>1. TypeOK
  BY DEF PoolShape
<1> DEFINE g == SplitBudget(CommittedWithout(p))
<1>2. /\ lease' = [lease EXCEPT ![p] = NoLease, ![c] = Lease(g, used[c])] /\ p # c
      /\ UNCHANGED <<used, spent, held, over>>
  BY DEF Spawn
<1>3. /\ LiveLease(p) \in Nat /\ LiveLease(c) \in Nat /\ Committed \in Nat
      /\ CommittedWithout(p) \in Nat /\ CommittedWithout(p) = Committed - LiveLease(p)
      /\ spent \in Nat /\ over \in Nat /\ Total \in Nat
  BY <1>1, Books, SizesAssumption DEF BooksAddUp, TypeOK
<1>4. g \in Nat /\ g <= Greatest(0, Total - CommittedWithout(p))
  <2>1. g \in Nat
    BY <1>1, Grants
  <2>2. Total \div 4 \in Nat /\ ShareFloor \in Nat
    BY <1>3, SizesAssumption
  <2>3. DynamicShare \in Nat
    BY <1>3, <2>2 DEF DynamicShare, Least, Greatest
  <2> QED BY <1>3, <2>1, <2>3 DEF SplitBudget, Least, Greatest
<1> HIDE DEF g
<1>5. Lease(g, used[c]) \in Leases /\ Remaining(c, Lease(g, used[c])) = g
  BY <1>1, <1>4, NewLease
<1>6. /\ lease'[p] = NoLease /\ lease'[c] = Lease(g, used[c])
      /\ \A b \in Aid \ {p, c} : lease'[b] = lease[b]
  BY <1>1, <1>2 DEF TypeOK
<1>7. \A b \in Aid : HeldLeases(b)' = HeldLeases(b)
  BY <1>2, HeldStays
<1>8. ASSUME NEW b \in Aid \ {p, c} PROVE LiveLease(b)' = LiveLease(b)
  <2>1. lease'[b] = lease[b] /\ used'[b] = used[b]
    BY <1>2, <1>6
  <2> QED BY <2>1 DEF LiveLease, Remaining
<1>9. LiveLease(p)' = 0 /\ LiveLease(c)' = g
  <2>1. LiveLease(p)' = 0
    BY <1>6 DEF LiveLease, NoLease
  <2>2. Lease(g, used[c]).live
    BY DEF Lease
  <2>3. LiveLease(c)' = Remaining(c, Lease(g, used[c]))
    BY <1>2, <1>6, <2>2 DEF LiveLease, Remaining
  <2> QED BY <1>5, <2>1, <2>3
<1>10. Committed' = Committed + (spent' - spent) + (LiveLease(p)' - LiveLease(p))
                     + (LiveLease(c)' - LiveLease(c))
  BY <1>1, <1>2, <1>7, <1>8, TwoBook
<1>11. Committed' <= Total + over'
  <2>1. Committed <= Total + over
    BY DEF PoolBooks
  <2> QED BY <1>2, <1>3, <1>4, <1>9, <1>10, <2>1 DEF Greatest
<1>12. \A b \in Aid : lease'[b].live => lease'[b].baseline <= used'[b]
  <2>1. ~NoLease.live /\ Lease(g, used[c]).baseline = used[c] /\ used[c] \in Nat
    BY <1>1 DEF NoLease, Lease, TypeOK
  <2>2. SUFFICES ASSUME NEW b \in Aid, lease'[b].live PROVE lease'[b].baseline <= used[b]
    BY <1>2
  <2>3. CASE b = p
    BY <1>6, <2>1, <2>2, <2>3
  <2>4. CASE b = c
    BY <1>6, <2>1, <2>2, <2>4
  <2>5. CASE b \in Aid \ {p, c}
    BY <1>6, <2>2, <2>5 DEF PoolBooks
  <2> QED BY <2>3, <2>4, <2>5
<1> QED BY <1>11, <1>12 DEF PoolBooks

(* The child's share goes back before the parent's lease is restored.       *)
LEMMA RollbackBooks ==
    ASSUME ~Declared, PoolShape, PoolBooks, TypeOK', NEW p \in Aid, SpawnFails(p)
    PROVE  PoolBooks'
<1>0. PICK c \in Aid : c = boot[p] /\ c # p
  BY DEF PoolShape, SpawnFails, TypeOK
<1> DEFINE free == Total - (CommittedWithout(c) - (IF lease[p].live THEN Remaining(p, lease[p]) ELSE 0))
           g == RestoredGrant(p, saved[p], free)
           l == IF saved[p].live THEN LeaseOf(p, g) ELSE lease[p]
<1>1. TypeOK /\ c \in Aid /\ c # p
  BY <1>0 DEF PoolShape
<1>2. /\ lease' = [lease EXCEPT ![c] = NoLease, ![p] = IF saved[p].live THEN LeaseOf(p, g) ELSE @]
      /\ UNCHANGED <<used, spent, held, over>>
  BY <1>0 DEF SpawnFails
<1>3. free = Total - (CommittedWithout(c) - LiveLease(p))
  BY DEF LiveLease
<1> HIDE DEF free
<1>4. /\ LiveLease(p) \in Nat /\ LiveLease(c) \in Nat /\ Committed \in Nat
      /\ CommittedWithout(c) \in Nat /\ CommittedWithout(c) = Committed - LiveLease(c)
      /\ spent \in Nat /\ over \in Nat /\ Total \in Nat
  BY <1>1, Books, SizesAssumption DEF BooksAddUp, TypeOK
<1>5. g \in Nat /\ g <= Greatest(0, free)
  <2>1. saved[p] \in Leases /\ free \in Int
    BY <1>1, <1>3, <1>4 DEF TypeOK
  <2>2. Remaining(p, saved[p]) \in Nat
    BY <1>1, <2>1, Grants
  <2> QED BY <2>1, <2>2 DEF RestoredGrant, Least, Greatest
<1> HIDE DEF g
<1>6. /\ LeaseOf(p, g) \in Leases
      /\ LeaseOf(p, g).live => /\ LeaseOf(p, g).baseline <= used[p]
                               /\ Remaining(p, LeaseOf(p, g)) = g
  BY <1>1, <1>5, NewLease
<1>7. /\ lease'[c] = NoLease /\ lease'[p] = l
      /\ \A b \in Aid \ {p, c} : lease'[b] = lease[b]
  BY <1>1, <1>2 DEF TypeOK
<1>8. \A b \in Aid : HeldLeases(b)' = HeldLeases(b)
  BY <1>2, HeldStays
<1>9. ASSUME NEW b \in Aid \ {p, c} PROVE LiveLease(b)' = LiveLease(b)
  <2>1. lease'[b] = lease[b] /\ used'[b] = used[b]
    BY <1>2, <1>7
  <2> QED BY <2>1 DEF LiveLease, Remaining
<1>10. LiveLease(c)' = 0 /\ LiveLease(p)' \in Nat
       /\ (LiveLease(p)' <= g \/ LiveLease(p)' = LiveLease(p))
  <2>1. LiveLease(c)' = 0
    BY <1>1, <1>7 DEF LiveLease, NoLease
  <2>2. CASE saved[p].live
    <3>1. LiveLease(p)' = IF LeaseOf(p, g).live THEN Remaining(p, LeaseOf(p, g)) ELSE 0
      BY <1>2, <1>7, <2>2 DEF LiveLease, Remaining
    <3> QED BY <1>5, <1>6, <2>1, <3>1
  <2>3. CASE ~saved[p].live
    <3>1. LiveLease(p)' = LiveLease(p)
      BY <1>2, <1>7, <2>3 DEF LiveLease, Remaining
    <3> QED BY <1>4, <2>1, <3>1
  <2> QED BY <2>2, <2>3
<1>11. Committed' = Committed + (spent' - spent) + (LiveLease(p)' - LiveLease(p))
                     + (LiveLease(c)' - LiveLease(c))
  BY <1>1, <1>2, <1>8, <1>9, TwoBook
<1>12. Committed' <= Total + over'
  <2>1. Committed <= Total + over
    BY DEF PoolBooks
  <2> QED BY <1>2, <1>3, <1>4, <1>5, <1>10, <1>11, <2>1 DEF Greatest
<1>13. \A b \in Aid : lease'[b].live => lease'[b].baseline <= used'[b]
  <2>1. ~NoLease.live
    BY DEF NoLease
  <2> QED BY <1>2, <1>6, <1>7, <2>1 DEF PoolBooks
<1> QED BY <1>12, <1>13 DEF PoolBooks

LEMMA PoolStep ==
    ASSUME PoolShape, PoolBooks, Next, PoolShape'
    PROVE  PoolBooks'
<1> SUFFICES ASSUME ~Declared PROVE PoolBooks'
  BY DEF PoolBooks
<1>1. TypeOK /\ TypeOK'
  BY DEF PoolShape
<1>2. CASE PublicTurn
  <2>1. 0 \in Aid
    BY SizesAssumption DEF Aid
  <2> QED BY <1>1, <1>2, <2>1, TurnBooks DEF PublicTurn
<1>3. ASSUME NEW a \in Aid, MessageTurn(a) PROVE PoolBooks'
  <2>1. UNCHANGED <<used, spent, held, over>>
    BY <1>3 DEF MessageTurn
  <2>2. CASE UNCHANGED <<lease, limit>>
    BY <1>1, <2>1, <2>2, BooksStay
  <2>3. CASE TakesPool(a) /\ ~UNCHANGED <<lease, limit>>
    <3>1. ReserveTurnLease(a)
      BY <1>3, <2>3 DEF MessageTurn, ReserveMessageBudget, ReserveTurnLease, MessageGrant
    <3> QED BY <1>1, <2>1, <3>1, TurnBooks
  <2>4. CASE ~TakesPool(a) /\ ~UNCHANGED <<lease, limit>>
    <3> DEFINE g == SplitBudget(Committed)
    <3>1. ~lease[a].live /\ lease' = [lease EXCEPT ![a] = LeaseOf(a, g)]
      BY <1>3, <2>4 DEF MessageTurn, ReserveMessageBudget, MessageGrant
    <3>2. LiveLease(a) = 0
      BY <3>1 DEF LiveLease
    <3>3. CommittedWithout(a) = Committed /\ Committed \in Nat /\ Total \in Nat
      BY <1>1, <3>2, Books, SizesAssumption DEF BooksAddUp
    <3>4. g \in Nat /\ g <= Greatest(0, Total - CommittedWithout(a))
      <4>1. g \in Nat
        BY <1>1, <3>3, Grants
      <4>2. Total \div 4 \in Nat /\ ShareFloor \in Nat
        BY <3>3, SizesAssumption
      <4>3. DynamicShare \in Nat
        BY <3>3, <4>2 DEF DynamicShare, Least, Greatest
      <4> QED BY <3>3, <4>1, <4>3 DEF SplitBudget, Least, Greatest
    <3> HIDE DEF g
    <3>5. /\ LeaseOf(a, g) \in Leases
          /\ LeaseOf(a, g).live => /\ LeaseOf(a, g).baseline <= used[a]
                                   /\ Remaining(a, LeaseOf(a, g)) = g
      BY <1>1, <3>4, NewLease
    <3> QED BY <1>1, <2>1, <3>1, <3>4, <3>5, Rebooked
  <2> QED BY <2>2, <2>3, <2>4
<1>4. ASSUME NEW a \in Aid, AppendFails(a) PROVE PoolBooks'
  <2> DEFINE g == RestoredGrant(a, lease[a], Total - CommittedWithout(a))
             l == IF lease[a].live THEN LeaseOf(a, g) ELSE NoLease
  <2>1. lease' = [lease EXCEPT ![a] = l] /\ UNCHANGED <<used, spent, held, over>>
    BY <1>4 DEF AppendFails
  <2>2. g \in Nat /\ g <= Greatest(0, Total - CommittedWithout(a))
    <3>1. CommittedWithout(a) \in Nat /\ Total \in Nat /\ lease[a] \in Leases
      BY <1>1, Grants, SizesAssumption DEF TypeOK
    <3>2. Remaining(a, lease[a]) \in Nat
      BY <1>1, <3>1, Grants
    <3> QED BY <3>1, <3>2 DEF RestoredGrant, Least, Greatest
  <2> HIDE DEF g
  <2>3. /\ LeaseOf(a, g) \in Leases
        /\ LeaseOf(a, g).live => /\ LeaseOf(a, g).baseline <= used[a]
                                 /\ Remaining(a, LeaseOf(a, g)) = g
    BY <1>1, <2>2, NewLease
  <2>4. NoLease \in Leases /\ ~NoLease.live
    BY DEF NoLease, Leases
  <2>5. /\ l \in Leases
        /\ l.live => /\ l.baseline <= used[a]
                     /\ Remaining(a, l) <= Greatest(0, Total - CommittedWithout(a))
    BY <2>2, <2>3, <2>4
  <2> HIDE DEF l
  <2> QED BY <1>1, <2>1, <2>5, Rebooked
<1>5. ASSUME NEW a \in Aid, StartGeneration(a) \/ FinishBatch(a) \/ SpawnStarts(a) PROVE PoolBooks'
  BY <1>1, <1>5, BooksStay DEF StartGeneration, FinishBatch, SpawnStarts
<1>6. ASSUME NEW a \in Aid, EndGeneration(a) PROVE PoolBooks'
  BY <1>1, <1>6, SpendBooks
<1>7. ASSUME NEW a \in Aid, AbandonGeneration(a) PROVE PoolBooks'
  BY <1>1, <1>7, ReleaseBooks DEF AbandonGeneration
<1>8. ASSUME NEW a \in Aid, LateUsage(a) PROVE PoolBooks'
  BY <1>1, <1>8, LateBooks
<1>9. ASSUME NEW a \in Aid, StopTurn(a) PROVE PoolBooks'
  BY <1>1, <1>9, ReleaseBooks DEF StopTurn, ReleaseLeases
<1>10. ASSUME NEW a \in Aid, NEW c \in Aid, Spawn(a, c) PROVE PoolBooks'
  BY <1>1, <1>10, SpawnBooks
<1>11. ASSUME NEW a \in Aid, SpawnFails(a) PROVE PoolBooks'
  BY <1>1, <1>11, RollbackBooks
<1>12. ASSUME NEW a \in Aid, Deliver(a) PROVE PoolBooks'
  <2>1. UNCHANGED <<used, spent, held, over>>
    BY <1>12 DEF Deliver
  <2>2. CASE UNCHANGED <<lease, limit>>
    BY <1>1, <2>1, <2>2, BooksStay
  <2>3. CASE ~UNCHANGED <<lease, limit>>
    <3>1. PICK p \in Aid : ReserveTurnLease(p)
      BY <1>12, <2>3 DEF Deliver
    <3> QED BY <1>1, <2>1, <3>1, TurnBooks
  <2> QED BY <2>2, <2>3
<1> QED BY <1>2, <1>3, <1>4, <1>5, <1>6, <1>7, <1>8, <1>9, <1>10, <1>11, <1>12
     DEF Next, AgentStep

-----------------------------------------------------------------------------
(* The overshoot *)

LEMMA ProductIsNat == \A m, n \in Nat : m * n \in Nat
OBVIOUS

LEMMA TimesGrows ==
    ASSUME NEW k \in Nat, NEW m \in Nat, NEW n \in Nat, m <= n
    PROVE  m * k <= n * k
OBVIOUS

LEMMA ProductGrows ==
    ASSUME NEW k \in Nat, NEW m \in Nat
    PROVE  (m + 1) * k = m * k + k
OBVIOUS

(* The aggregate spend, with one more generation for everybody in flight,   *)
(* stays within one generation per agent of the total.                      *)
LEMMA OvershootStep ==
    ASSUME PoolShape, TeamOvershootBounded, Next, PoolShape'
    PROVE  TeamOvershootBounded'
<1> SUFFICES ASSUME Allowances = <<>>
             PROVE  spent' + Cardinality(InFlight') * MaxCost
                      <= Greatest(Total - 1, 0) + (MaxAid + 1) * MaxCost
  BY DEF TeamOvershootBounded
<1> DEFINE bound == Greatest(Total - 1, 0) + (MaxAid + 1) * MaxCost
<1>0. IsFiniteSet(Aid) /\ Cardinality(Aid) = MaxAid + 1
  BY FS_Interval, SizesAssumption DEF Aid
<1>1. /\ MaxCost \in Nat /\ Total \in Nat /\ MaxAid \in Nat
      /\ TypeOK /\ TypeOK' /\ spent \in Nat /\ spent' \in Nat
  BY SizesAssumption DEF PoolShape, TypeOK
<1>2. /\ InFlight \subseteq Aid /\ IsFiniteSet(InFlight) /\ Cardinality(InFlight) \in Nat
      /\ InFlight' \subseteq Aid /\ IsFiniteSet(InFlight') /\ Cardinality(InFlight') \in Nat
      /\ Cardinality(InFlight') <= MaxAid + 1
  <2>1. InFlight \subseteq Aid /\ InFlight' \subseteq Aid
    BY DEF InFlight
  <2> QED BY <1>0, <2>1, FS_Subset, FS_CardinalityType
<1>3. spent + Cardinality(InFlight) * MaxCost <= bound
  BY DEF TeamOvershootBounded
<1>4. CASE spent' = spent /\ InFlight' \subseteq InFlight
  <2>1. Cardinality(InFlight') <= Cardinality(InFlight)
    BY <1>2, <1>4, FS_Subset
  <2>2. Cardinality(InFlight') * MaxCost <= Cardinality(InFlight) * MaxCost
    BY <1>1, <1>2, <2>1, TimesGrows
  <2> QED BY <1>1, <1>2, <1>3, <1>4, <2>2, ProductIsNat DEF Greatest
<1>5. ASSUME NEW a \in Aid, StartGeneration(a)
      PROVE  spent' + Cardinality(InFlight') * MaxCost <= bound
  <2>1. spent < Total /\ spent' = spent
    BY <1>1, <1>5 DEF StartGeneration, MayGenerate, TeamExhausted
  <2>2. Cardinality(InFlight') * MaxCost <= (MaxAid + 1) * MaxCost
    BY <1>1, <1>2, TimesGrows
  <2>3. Cardinality(InFlight') * MaxCost \in Nat /\ (MaxAid + 1) * MaxCost \in Nat
    BY <1>1, <1>2, ProductIsNat
  <2> HIDE DEF bound
  <2> QED BY <1>1, <2>1, <2>2, <2>3 DEF Greatest, bound
<1>6. ASSUME NEW a \in Aid, NEW cost \in 0 .. MaxCost, Charge(a, cost),
             a \in InFlight, InFlight' \subseteq InFlight \ {a}
      PROVE  spent' + Cardinality(InFlight') * MaxCost <= bound
  <2>1. spent' = spent + cost /\ cost \in Nat /\ cost <= MaxCost
    BY <1>1, <1>6 DEF Charge
  <2>2. /\ IsFiniteSet(InFlight \ {a})
        /\ Cardinality(InFlight \ {a}) = Cardinality(InFlight) - 1
    BY <1>2, <1>6, FS_RemoveElement
  <2>3. Cardinality(InFlight') <= Cardinality(InFlight) - 1
    BY <1>6, <2>2, FS_Subset
  <2>4. Cardinality(InFlight') + 1 <= Cardinality(InFlight)
    BY <1>2, <2>3
  <2>5. (Cardinality(InFlight') + 1) * MaxCost <= Cardinality(InFlight) * MaxCost
    BY <1>1, <1>2, <2>4, TimesGrows
  <2>6. (Cardinality(InFlight') + 1) * MaxCost = Cardinality(InFlight') * MaxCost + MaxCost
    BY <1>1, <1>2, ProductGrows
  <2>7. /\ Cardinality(InFlight') * MaxCost \in Nat /\ Cardinality(InFlight) * MaxCost \in Nat
        /\ (MaxAid + 1) * MaxCost \in Nat
    BY <1>1, <1>2, ProductIsNat
  <2> HIDE DEF bound
  <2>8. bound \in Nat
    BY <1>1, <2>7 DEF bound, Greatest
  <2> QED BY <1>1, <1>3, <2>1, <2>5, <2>6, <2>7, <2>8
<1>7. ASSUME NEW a \in Aid, EndGeneration(a)
      PROVE  spent' + Cardinality(InFlight') * MaxCost <= bound
  <2>1. act[a] = "gen" /\ ~drain[a] /\ drain' = drain
    BY <1>7 DEF EndGeneration, PoolShape
  <2>2. PICK cost \in 0 .. MaxCost :
          /\ Charge(a, cost)
          /\ \E next \in {"ended", "ready", "tools"} : act' = [act EXCEPT ![a] = next]
    BY <1>7 DEF EndGeneration
  <2>3. PICK next \in {"ended", "ready", "tools"} : act' = [act EXCEPT ![a] = next]
    BY <2>2
  <2>4. a \in InFlight /\ InFlight' \subseteq InFlight \ {a}
    BY <1>1, <2>1, <2>3 DEF InFlight, TypeOK
  <2> QED BY <1>6, <2>2, <2>4
<1>8. ASSUME NEW a \in Aid, LateUsage(a)
      PROVE  spent' + Cardinality(InFlight') * MaxCost <= bound
  <2>1. drain[a] /\ act[a] # "gen" /\ act' = act /\ drain' = [drain EXCEPT ![a] = FALSE]
    BY <1>8 DEF LateUsage, PoolShape
  <2>2. PICK cost \in 0 .. MaxCost : Charge(a, cost)
    BY <1>8 DEF LateUsage
  <2>3. a \in InFlight /\ InFlight' \subseteq InFlight \ {a}
    BY <1>1, <2>1 DEF InFlight, TypeOK
  <2> QED BY <1>6, <2>2, <2>3
<1>9. ASSUME NEW a \in Aid, AbandonGeneration(a)
      PROVE  spent' = spent /\ InFlight' \subseteq InFlight
  BY <1>1, <1>9 DEF AbandonGeneration, InFlight, TypeOK
<1>10. ASSUME NEW a \in Aid,
              \/ PublicTurn \/ MessageTurn(a) \/ AppendFails(a) \/ StopTurn(a)
              \/ SpawnStarts(a) \/ SpawnFails(a) \/ FinishBatch(a) \/ Deliver(a)
              \/ \E c \in Aid : Spawn(a, c)
       PROVE  spent' = spent /\ InFlight' \subseteq InFlight
  <2>1. spent' = spent /\ drain' = drain
    BY <1>10 DEF PublicTurn, MessageTurn, AppendFails, StopTurn, SpawnStarts, SpawnFails,
                 FinishBatch, Deliver, Spawn
  <2>2. \A b \in Aid : act'[b] = "gen" => act[b] = "gen"
    BY <1>1, <1>10 DEF PublicTurn, MessageTurn, AppendFails, StopTurn, SpawnStarts, SpawnFails,
                 FinishBatch, Deliver, Spawn, TypeOK
  <2> QED BY <2>1, <2>2 DEF InFlight
<1>11. \E a \in Aid : AgentStep(a) \/ PublicTurn
  <2>1. 0 \in Aid
    BY SizesAssumption DEF Aid
  <2> QED BY <2>1 DEF Next
<1>12. PICK a \in Aid : AgentStep(a) \/ PublicTurn
  BY <1>11
<1> QED BY <1>4, <1>5, <1>7, <1>8, <1>9, <1>10, <1>12 DEF AgentStep

(* What is spent and booked never exceeds the total but for what generations *)
(* spent beyond their own lease, for every team, total and cost: the release *)
(* of a parent's lease before its child books, the lease a draining call     *)
(* keeps, and a lease restored after a failed append or spawn are never      *)
(* counted twice (_budget_committed, split_budget, _restore_turn_lease).     *)
THEOREM PoolIsNeverOversubscribed == Spec => []PoolNotOversubscribed
<1>1. Init => PoolShape /\ PoolBooks
  BY ShapeInit, PoolInit
<1>2. PoolShape /\ PoolBooks /\ [Next]_vars => PoolShape' /\ PoolBooks'
  <2>1. CASE UNCHANGED vars
    <3> SUFFICES ASSUME PoolShape, PoolBooks, UNCHANGED vars PROVE PoolShape' /\ PoolBooks'
      BY <2>1
    <3>1. PoolShape'
      BY DEF vars, PoolShape, TypeOK
    <3>2. TypeOK'
      BY <3>1 DEF PoolShape
    <3> QED BY <3>1, <3>2, BooksStay DEF vars
  <2>2. CASE Next
    BY <2>2, ShapeStep, PoolStep
  <2> QED BY <2>1, <2>2
<1>3. PoolBooks => PoolNotOversubscribed
  BY DEF PoolBooks, PoolNotOversubscribed
<1> QED BY <1>1, <1>2, <1>3, PTL DEF Spec

(* The team's total is overshot by at most one generation per agent, late    *)
(* provider responses included, for every team, total and cost: the total    *)
(* is read before each generation, and nobody generates while an earlier     *)
(* call of its own may still be charged (budget_exhausted, precheck).        *)
THEOREM OvershootStaysBounded == Spec => []TeamOvershootBounded
<1>1. Init => PoolShape /\ TeamOvershootBounded
  <2> SUFFICES ASSUME Init PROVE TeamOvershootBounded
    BY ShapeInit
  <2>1. InFlight = {} /\ spent = 0
    BY DEF Init, InFlight
  <2>2. Cardinality(InFlight) = 0
    BY <2>1, FS_EmptySet
  <2>3. MaxCost \in Nat /\ Total \in Nat /\ MaxAid \in Nat /\ (MaxAid + 1) * MaxCost \in Nat
    BY SizesAssumption, ProductIsNat
  <2> QED BY <2>1, <2>2, <2>3 DEF TeamOvershootBounded, Greatest
<1>2. PoolShape /\ TeamOvershootBounded /\ [Next]_vars => PoolShape' /\ TeamOvershootBounded'
  <2>1. CASE UNCHANGED vars
    BY <2>1 DEF vars, PoolShape, TypeOK, TeamOvershootBounded, InFlight
  <2>2. CASE Next
    BY <2>2, ShapeStep, OvershootStep
  <2> QED BY <2>1, <2>2
<1> QED BY <1>1, <1>2, PTL DEF Spec

-----------------------------------------------------------------------------
(* The selection of duo                                                     *)

(* A decision that can be used names a candidate and shows its advantage.    *)
LEMMA UsableRuling ==
    ASSUME NEW r \in Rulings, r.issue = "none"
    PROVE  r.winner \in Label /\ r.shown
<1>1. r # Malformed
  <2>1. Malformed.issue = "issue"
    BY DEF Malformed
  <2> QED BY <2>1
<1>2. PICK l \in Label, complete \in BOOLEAN, es \in EntrySets : r = Ruling(l, complete, es)
  BY <1>1 DEF Rulings
<1>3. r.winner = l /\ r.issue = JudgeIssue(l, complete, es)
      /\ r.shown = (\E e \in es : Advantage(e, l) /\ Supported(e, l))
  BY <1>2 DEF Ruling
<1>4. JudgeIssue(l, complete, es) = "none" => \E e \in es : Advantage(e, l) /\ Supported(e, l)
  BY DEF JudgeIssue
<1> QED BY <1>3, <1>4

(* There are two candidates, each the other of the other.                    *)
LEMMA OthersAre == Other("A") = "B" /\ Other("B") = "A" /\ \A l \in Label : Other(l) \in Label
BY DEF Other, Label

(* A candidate that beats the other on a test refutes it.                    *)
LEMMA WinnersRefute == \A l \in Label : l \in PublicWinners <=> Refutes(Other(l))
BY OthersAre DEF PublicWinners, Refutes, Label

(* What an appended sequence holds, and what it ends with.                   *)
LEMMA AppendsOne ==
    ASSUME NEW S, NEW s \in Seq(S), NEW e \in S
    PROVE  /\ Append(s, e) \in Seq(S) /\ Last(Append(s, e)) = e
           /\ ToSet(Append(s, e)) = ToSet(s) \cup {e}
<1>1. /\ Append(s, e) \in Seq(S) /\ Len(Append(s, e)) = Len(s) + 1 /\ Append(s, e)[Len(s) + 1] = e
      /\ \A i \in 1..Len(s) : Append(s, e)[i] = s[i] /\ i \in 1..Len(Append(s, e))
  OBVIOUS
<1>2. Last(Append(s, e)) = e
  BY <1>1 DEF Last
<1>3. ToSet(Append(s, e)) \subseteq ToSet(s) \cup {e}
  BY <1>1 DEF ToSet
<1>4. ToSet(s) \cup {e} \subseteq ToSet(Append(s, e))
  BY <1>1 DEF ToSet
<1> QED BY <1>1, <1>2, <1>3, <1>4

(* The types of a duo run are kept by every step.                            *)
LEMMA DuoTypesKept == DuoTypes /\ [DuoNext]_duoVars => DuoTypes'
<1> SUFFICES ASSUME DuoTypes, [DuoNext]_duoVars PROVE DuoTypes'
  OBVIOUS
<1> USE DEF DuoTypes, DuoPlaces
<1>1. CASE DuoStarts
  BY <1>1 DEF DuoStarts, ReadSource
<1>2. ASSUME NEW l \in Label, NEW d \in Diffs \cup {""}, NEW r \in RecordLists, CoderEnds(l, d, r)
      PROVE  DuoTypes'
  BY <1>2 DEF CoderEnds, Label
<1>3. CASE MechanicalChoice
  <2>1. choice' \in Label \cup {""} /\ duo' \in DuoPlaces
    BY <1>3 DEF MechanicalChoice, Label
  <2> QED BY <1>3, <2>1 DEF MechanicalChoice
<1>4. CASE WriteEvidence
  BY <1>4 DEF WriteEvidence
<1>5. ASSUME NEW r \in Rulings, JudgeRules(r) PROVE DuoTypes'
  <2>1. rulings' \in Seq(Rulings)
    BY <1>5, AppendsOne DEF JudgeRules
  <2>2. choice' \in Label \cup {""} /\ duo' \in DuoPlaces
    BY <1>5, UsableRuling DEF JudgeRules, FallbackWinner, Label
  <2> QED BY <1>5, <2>1, <2>2 DEF JudgeRules
<1>6. CASE JudgeFails
  BY <1>6 DEF JudgeFails, FallbackWinner, Label
<1>7. CASE CompareSource
  BY <1>7 DEF CompareSource
<1>8. ASSUME NEW works \in BOOLEAN, TryAdopt(works) PROVE DuoTypes'
  <2>1. NextTry \in Label
    BY <1>8, OthersAre DEF TryAdopt, NextTry, Untried
  <2>2. attempts' \in Seq(Label)
    BY <1>8, <2>1, AppendsOne DEF TryAdopt
  <2> QED BY <1>8, <2>1, <2>2 DEF TryAdopt
<1>9. CASE NothingToAdopt
  BY <1>9 DEF NothingToAdopt
<1>10. CASE SomeoneEdits
  <2>1. source.edits + 1 \in Nat /\ source' = [source EXCEPT !.edits = source.edits + 1]
    <3>1. source.edits \in Nat
      OBVIOUS
    <3>2. source' = [source EXCEPT !.edits = source.edits + 1]
      BY <1>10 DEF SomeoneEdits
    <3> HIDE DEF DuoTypes
    <3>3. source.edits + 1 \in Nat
      <4> DEFINE n == source.edits
      <4>1. n \in Nat
        BY <3>1
      <4> HIDE DEF n
      <4>2. n + 1 \in Nat
        BY <4>1
      <4> QED BY <4>2 DEF n
    <3> QED BY <3>2, <3>3, Zenon
  <2>2. source' = [edits |-> source.edits + 1, evidence |-> source.evidence]
    BY <2>1, Zenon
  <2>3. source.evidence \in BOOLEAN
    BY Zenon
  <2>4. source' \in [edits : Nat, evidence : BOOLEAN]
    BY <2>1, <2>2, <2>3, Zenon
  <2> QED BY <1>10, <2>4 DEF SomeoneEdits
<1>11. CASE UNCHANGED duoVars
  BY <1>11 DEF duoVars
<1> QED
  BY <1>1, <1>2, <1>3, <1>4, <1>5, <1>6, <1>7, <1>8, <1>9, <1>10, <1>11 DEF DuoNext, DuoStep

(* Once both coders have ended, what they left stays.                        *)
LEMMA CandidatesStay ==
    ASSUME cand' = cand
    PROVE  \A l \in Label : (Nonempty(l)' <=> Nonempty(l)) /\ (Refutes(l)' <=> Refutes(l))
BY DEF Nonempty, Refutes, Commands, StateOf

(* A selection is made with its reason, by the tests or by the judge, and    *)
(* stays what it was when the source is read and written.                    *)
LEMMA SelectionKept ==
    ASSUME DuoTypes, JudgedAreTied, ChoiceIsEarned, [DuoNext]_duoVars
    PROVE  JudgedAreTied' /\ ChoiceIsEarned'
<1> USE DEF Label
<1> DEFINE Selected == {"source", "adopt", "raised", "returned"}
(* what was selected stays selected *)
<1>1. ASSUME UNCHANGED <<cand, choice, reason, rulings>>,
             duo \in Selected, duo' \in Selected
      PROVE  JudgedAreTied' /\ ChoiceIsEarned'
  <2>1. JudgedAreTied'
    BY <1>1 DEF JudgedAreTied
  <2>2. ASSUME NEW l \in Label, Earned(l) PROVE Earned(l)'
    BY <1>1, <2>2, CandidatesStay, OthersAre DEF Earned
  <2>3. ChoiceIsEarned'
    BY <1>1, <2>2, CandidatesStay DEF ChoiceIsEarned
  <2> QED BY <2>1, <2>3
<1>2. CASE DuoStarts
  BY <1>2 DEF DuoStarts, JudgedAreTied, ChoiceIsEarned
<1>3. ASSUME NEW l \in Label, NEW d \in Diffs \cup {""}, NEW r \in RecordLists, CoderEnds(l, d, r)
      PROVE  JudgedAreTied' /\ ChoiceIsEarned'
  BY <1>3 DEF CoderEnds, JudgedAreTied, ChoiceIsEarned
<1>4. CASE MechanicalChoice
  <2>1. cand' = cand /\ duo = "select" /\ rulings' = rulings /\ rulings = <<>>
    BY <1>4 DEF MechanicalChoice, JudgedAreTied
  <2>2. ASSUME NEW l \in Label, Nonempty(l), ~Nonempty(Other(l)), choice' = l, duo' = "source"
        PROVE  JudgedAreTied' /\ ChoiceIsEarned'
    BY <2>1, <2>2, CandidatesStay, OthersAre DEF JudgedAreTied, ChoiceIsEarned
  <2>3. CASE (~\E l \in Label : Nonempty(l)) /\ choice' = "" /\ duo' = "source"
    BY <2>1, <2>3, CandidatesStay DEF JudgedAreTied, ChoiceIsEarned
  <2>4. ASSUME NEW l \in Label, PublicWinners = {l}, choice' = l, reason' = "tests", duo' = "source"
        PROVE  JudgedAreTied' /\ ChoiceIsEarned'
    <3>1. Refutes(Other(l))
      BY <2>4, WinnersRefute
    <3>2. Earned(l)'
      BY <2>1, <2>4, <3>1, CandidatesStay, OthersAre DEF Earned
    <3> QED BY <2>1, <2>4, <3>2 DEF JudgedAreTied, ChoiceIsEarned
  <2>5. CASE /\ \A l \in Label : Nonempty(l)
             /\ Cardinality(PublicWinners) # 1
             /\ IF cand["A"].diff = cand["B"].diff
                THEN choice' = "B" /\ reason' = "same" /\ duo' = "source"
                ELSE choice' = "" /\ reason' = "judge" /\ duo' = "evidence"
    <3>1. PublicWinners # {"A"} /\ PublicWinners # {"B"} /\ PublicWinners \subseteq Label
      BY <2>5, FS_Singleton DEF PublicWinners
    <3>2. Refutes("A") <=> Refutes("B")
      BY <3>1, WinnersRefute, OthersAre
    <3>3. CASE choice' = "B" /\ reason' = "same" /\ duo' = "source"
      <4>1. Earned("B")'
        BY <2>1, <3>2, <3>3, CandidatesStay, OthersAre DEF Earned
      <4> QED BY <2>1, <3>3, <4>1 DEF JudgedAreTied, ChoiceIsEarned
    <3>4. CASE choice' = "" /\ duo' = "evidence"
      BY <2>1, <2>5, <3>2, <3>4, CandidatesStay DEF JudgedAreTied, ChoiceIsEarned
    <3> QED BY <2>5, <3>3, <3>4
  <2> QED BY <1>4, <2>2, <2>3, <2>4, <2>5 DEF MechanicalChoice
<1>5. CASE WriteEvidence
  BY <1>5, CandidatesStay DEF WriteEvidence, JudgedAreTied, ChoiceIsEarned
<1>6. ASSUME duo = "judge", cand' = cand,
             choice' = FallbackWinner(rulings'), reason' = "fallback", duo' = "source"
      PROVE  JudgedAreTied' /\ ChoiceIsEarned'
  <2>1. ASSUME NEW l \in Label, choice' = l PROVE Earned(l)'
    <3>1. Refutes(l)' => Refutes(Other(l))'
      BY <1>6, CandidatesStay, OthersAre DEF JudgedAreTied
    <3> QED BY <1>6, <2>1, <3>1 DEF Earned, FallbackWinner
  <2>2. choice' # ""
    BY <1>6 DEF FallbackWinner
  <2> QED BY <1>6, <2>1, <2>2 DEF JudgedAreTied, ChoiceIsEarned
<1>7. ASSUME NEW r \in Rulings, JudgeRules(r) PROVE JudgedAreTied' /\ ChoiceIsEarned'
  <2>1. duo = "judge" /\ cand' = cand /\ rulings' = Append(rulings, r)
    BY <1>7 DEF JudgeRules
  <2>2. CASE r.issue = "none" /\ choice' = r.winner /\ reason' = "judged" /\ duo' = "source"
    <3>1. r.winner \in Label /\ r.shown /\ Last(rulings') = r
      <4>1. rulings \in Seq(Rulings)
        BY DEF DuoTypes
      <4>2. Last(rulings') = r
        BY <2>1, <4>1, AppendsOne
      <4>3. r.winner \in Label /\ r.shown
        BY <2>2, UsableRuling
      <4> QED BY <4>2, <4>3
    <3>2. ASSUME NEW l \in Label, choice' = l PROVE Earned(l)'
      <4>1. Refutes(l)' => Refutes(Other(l))'
        BY <2>1, CandidatesStay, OthersAre DEF JudgedAreTied
      <4> QED BY <2>2, <3>1, <4>1 DEF Earned
    <3>3. choice' # ""
      BY <2>2, <3>1
    <3> QED BY <2>2, <3>2, <3>3 DEF JudgedAreTied, ChoiceIsEarned
  <2>3. CASE choice' = FallbackWinner(rulings') /\ reason' = "fallback" /\ duo' = "source"
    BY <1>6, <2>1, <2>3
  <2>4. CASE UNCHANGED <<choice, reason, duo>>
    BY <2>1, <2>4, CandidatesStay DEF JudgedAreTied, ChoiceIsEarned
  <2> QED BY <1>7, <2>2, <2>3, <2>4 DEF JudgeRules
<1>8. CASE JudgeFails
  <2>1. FallbackWinner(rulings) = FallbackWinner(rulings')
    BY <1>8 DEF JudgeFails
  <2> QED BY <1>6, <1>8, <2>1 DEF JudgeFails
<1>9. CASE CompareSource
  BY <1>1, <1>9 DEF CompareSource
<1>10. ASSUME NEW works \in BOOLEAN, TryAdopt(works) PROVE JudgedAreTied' /\ ChoiceIsEarned'
  BY <1>1, <1>10 DEF TryAdopt
<1>11. CASE NothingToAdopt \/ SomeoneEdits
  BY <1>1, <1>11 DEF NothingToAdopt, SomeoneEdits
<1>12. CASE UNCHANGED duoVars
  <2>1. ASSUME NEW l \in Label, Earned(l) PROVE Earned(l)'
    BY <1>12, <2>1, CandidatesStay, OthersAre DEF Earned, duoVars
  <2> QED BY <1>12, <2>1, CandidatesStay DEF duoVars, JudgedAreTied, ChoiceIsEarned
<1> QED
  BY <1>2, <1>3, <1>4, <1>5, <1>7, <1>8, <1>9, <1>10, <1>11, <1>12 DEF DuoNext, DuoStep

(* Adoption is begun in an unchanged source and follows the selection.       *)
LEMMA AdoptionKept ==
    ASSUME DuoTypes, ChoiceIsEarned, AdoptionInOrder, [DuoNext]_duoVars
    PROVE  AdoptionInOrder'
<1> USE DEF Label
(* nothing is adopted before the source has been compared *)
<1>1. ASSUME duo \notin {"adopt", "returned"}, duo' \notin {"adopt", "returned", "raised"},
             UNCHANGED <<taken, attempts>>
      PROVE  AdoptionInOrder'
  BY <1>1 DEF AdoptionInOrder
<1>2. CASE \/ DuoStarts \/ MechanicalChoice \/ WriteEvidence \/ JudgeFails \/ SomeoneEdits
           \/ \E l \in Label, d \in Diffs \cup {""}, r \in RecordLists : CoderEnds(l, d, r)
           \/ \E r \in Rulings : JudgeRules(r)
  <2>1. duo \notin {"adopt", "returned", "raised"} /\ UNCHANGED <<taken, attempts>>
    BY <1>2 DEF DuoStarts, MechanicalChoice, WriteEvidence, JudgeFails, SomeoneEdits, CoderEnds, JudgeRules
  <2>2. duo' \notin {"adopt", "returned", "raised"}
    BY <1>2, <2>1 DEF DuoStarts, MechanicalChoice, WriteEvidence, JudgeFails, SomeoneEdits, CoderEnds, JudgeRules
  <2> QED BY <1>1, <2>1, <2>2
<1>3. CASE CompareSource
  BY <1>3 DEF CompareSource, ReadSource, AdoptionInOrder
<1>4. ASSUME NEW works \in BOOLEAN, TryAdopt(works) PROVE AdoptionInOrder'
  <2>1. /\ duo = "adopt" /\ Untried # {} /\ attempts' = Append(attempts, NextTry)
        /\ UNCHANGED <<cand, choice, source, before>> /\ taken = "" /\ source.edits = before
    BY <1>4 DEF TryAdopt, AdoptionInOrder
  <2>2. /\ choice \in Label /\ NextTry \in Untried /\ NextTry \in Label /\ Nonempty(NextTry)
        /\ NextTry = choice \/ choice \in ToSet(attempts) \/ ~Nonempty(choice)
    <3>1. choice \in Label /\ Untried \subseteq Label
          /\ \A l \in Label : l \in Untried <=> Nonempty(l) /\ l \notin ToSet(attempts)
      BY <2>1 DEF DuoTypes, Untried
    <3>2. CASE choice \in Untried
      BY <3>1, <3>2 DEF NextTry
    <3>3. CASE choice \notin Untried
      <4>1. NextTry = Other(choice) /\ Other(choice) \in Untried
        BY <2>1, <3>1, <3>3, OthersAre DEF NextTry
      <4> QED BY <3>1, <3>3, <4>1
    <3> QED BY <3>2, <3>3
  <2>3. ToSet(attempts) \subseteq ToSet(attempts')
    <3>1. attempts \in Seq(Label)
      BY DEF DuoTypes
    <3>2. NextTry \in Label
      BY <2>2
    <3> HIDE DEF Label
    <3>3. ToSet(Append(attempts, NextTry)) = ToSet(attempts) \cup {NextTry}
      BY <3>1, <3>2, AppendsOne
    <3> QED BY <2>1, <3>3
  <2>4. CASE taken' = NextTry /\ duo' = "returned"
    <3>1. \A l, c \in Label : taken' = l /\ choice' = c =>
             Nonempty(l)' /\ (l = c \/ c \in ToSet(attempts') \/ ~Nonempty(c)')
      BY <2>1, <2>2, <2>3, <2>4, CandidatesStay
    <3> QED BY <2>1, <2>2, <2>4, <3>1 DEF AdoptionInOrder
  <2>5. CASE UNCHANGED <<taken, duo>>
    BY <2>1, <2>5 DEF AdoptionInOrder
  <2> QED BY <1>4, <2>4, <2>5 DEF TryAdopt
<1>5. CASE NothingToAdopt
  <2>1. /\ duo = "adopt" /\ Untried = {} /\ duo' = "returned"
        /\ UNCHANGED <<cand, choice, attempts, taken, source, before>>
        /\ taken = "" /\ source.edits = before
    BY <1>5 DEF NothingToAdopt, AdoptionInOrder
  <2>2. \A l \in Label : Nonempty(l) => l \in ToSet(attempts)
    BY <2>1 DEF Untried, ChoiceIsEarned
  <2> QED BY <2>1, <2>2, CandidatesStay DEF AdoptionInOrder
<1>6. CASE UNCHANGED duoVars
  BY <1>6, CandidatesStay DEF duoVars, AdoptionInOrder
<1> QED
  BY <1>2, <1>3, <1>4, <1>5, <1>6 DEF DuoNext, DuoStep

(* A duo run starts with no candidate, no ruling and no choice.              *)
LEMMA DuoStartsSound == DuoInit => DuoInv
<1> SUFFICES ASSUME DuoInit PROVE DuoInv
  OBVIOUS
<1>1. DuoTypes
  <2>1. <<>> \in Seq(Rulings) /\ <<>> \in Seq(Label)
    OBVIOUS
  <2> QED BY <2>1 DEF DuoInit, DuoTypes, DuoPlaces, NoCand
<1> QED BY <1>1 DEF DuoInit, DuoInv, JudgedAreTied, ChoiceIsEarned, AdoptionInOrder, Label

(* Every step of duo keeps its invariant.                                    *)
LEMMA DuoKept == DuoInv /\ [DuoNext]_duoVars => DuoInv'
BY DuoTypesKept, SelectionKept, AdoptionKept DEF DuoInv

(* What duo promises follows from its invariant.                             *)
LEMMA DuoInvIsEnough == DuoInv => DuoIsSound
<1> SUFFICES ASSUME DuoInv PROVE DuoIsSound
  OBVIOUS
<1> USE DEF DuoInv, DuoTypes, Label
<1>1. SelectionFollowsEvidence
  BY DEF SelectionFollowsEvidence, ChoiceIsEarned, Earned
<1>2. AdoptionFollowsSelection
  BY DEF AdoptionFollowsSelection, AdoptionInOrder, DuoPlaces
<1> QED BY <1>1, <1>2 DEF DuoIsSound

(* Whatever the coders leave, the tests show, the judge answers or fails to *)
(* answer and others do to the source: a duo run prefers a candidate only   *)
(* with a reason, and adopts by that preference into a source that is what  *)
(* it was at the start (run_dual_coder, _review_and_select, _adopt).        *)
THEOREM SelectionsAreEarned == DuoSpec => []DuoIsSound
<1>1. DuoSpec => []DuoInv
  BY DuoStartsSound, DuoKept, PTL DEF DuoSpec
<1>2. QED
  BY <1>1, DuoInvIsEnough, PTL

-----------------------------------------------------------------------------
(* Deliveries of weave                                                      *)

(* The smaller and the larger of two numbers.                                *)
LEMMA MinMaxIs ==
    ASSUME NEW a \in Int, NEW b \in Int
    PROVE  /\ Min({a, b}) = IF a <= b THEN a ELSE b
           /\ Max({a, b}) = IF a >= b THEN a ELSE b
BY DEF Min, Max

(* A difference that is cut off at nothing.                                  *)
LEMMA AtLeastIs ==
    ASSUME NEW n \in Int
    PROVE  AtLeast0(n) = IF n >= 0 THEN n ELSE 0
BY MinMaxIs DEF AtLeast0

(* The numbers a weave run is configured with.                               *)
LEMMA WeaveConstants ==
    /\ WeaveTotal \in Nat \ {0} /\ LeastTokens \in Nat \ {0} /\ WeaveCost \in Nat \ {0}
    /\ Extension \in Nat \ {0} /\ RepairReserve \in Nat /\ MainSoft \in Nat
    /\ MaxRounds \in Nat /\ Len(Weights) \in Nat \ {0} /\ Members = 1..Len(Weights)
<1>1. Len(Weights) \in Nat \ {0}
  BY WeaveAssumption, EmptySeq
<1> QED BY <1>1, WeaveAssumption DEF Members

(* The repair reserve is taken out of the total.                             *)
LEMMA MainHardFits == MainHard \in Nat /\ MainHard <= WeaveTotal
<1>1. WeaveTotal \div 4 \in Nat /\ WeaveTotal \div 4 <= WeaveTotal
  BY WeaveConstants
<1> QED BY <1>1, MinMaxIs, WeaveConstants DEF MainHard

(* A share leaves the others their minimum, where there is that much.        *)
LEMMA DivisionFits ==
    ASSUME NEW left \in Nat, NEW k \in Nat \ {0}, NEW m \in Nat
    PROVE  /\ left \div k \in Nat /\ (left \div k) * k <= left
           /\ left >= m * k => left \div k >= m
<1>1. left \div k \in Nat /\ (left \div k) * k <= left /\ left < (left \div k) * k + k
  OBVIOUS
<1>2. ASSUME left >= m * k, left \div k < m PROVE FALSE
  <2> DEFINE q == left \div k
  <2>1. q \in Nat /\ q + 1 <= m /\ left < q * k + k
    BY <1>1, <1>2
  <2> HIDE DEF q
  <2>2. PICK d \in Nat : m = q + 1 + d
    <3>1. m - (q + 1) \in Nat /\ m = q + 1 + (m - (q + 1))
      BY <2>1
    <3> QED BY <3>1
  <2>3. m * k = q * k + k + d * k /\ d * k \in Nat /\ q * k \in Nat
    BY <2>1, <2>2
  <2> QED BY <1>2, <2>1, <2>3
<1> QED BY <1>1, <1>2

(* A share fits what is left, and where there is a minimum for each of the   *)
(* remaining groups it is at least one and leaves the others theirs.         *)
LEMMA AllocationFits ==
    ASSUME NEW left \in Nat, NEW n \in Members
    PROVE  LET a == Allocation(left, SubSeq(Weights, n, Len(Weights)))
               k == Len(Weights) - (n - 1)
           IN  /\ a \in Nat /\ a <= left
               /\ left >= LeastTokens * k =>
                     a >= LeastTokens /\ a <= left - LeastTokens * (k - 1)
<1> DEFINE w == SubSeq(Weights, n, Len(Weights))
           k == Len(Weights) - (n - 1)
           a == Allocation(left, w)
           floor == Min({LeastTokens, left \div Len(w)})
           total == SumFunctionOnSet(w, DOMAIN w)
           share == (left * w[1]) \div total
           most == left - floor * (Len(w) - 1)
<1>1. Weights \in Seq(Nat \ {0}) /\ n \in 1..Len(Weights) /\ Len(Weights) \in Nat \ {0}
      /\ LeastTokens \in Nat \ {0}
  BY WeaveAssumption, WeaveConstants
<1>2. w \in Seq(Nat \ {0}) /\ Len(w) = k /\ k \in Nat \ {0} /\ w[1] \in Nat \ {0}
      /\ DOMAIN w = 1..k /\ 1 \in DOMAIN w
  BY <1>1
<1> HIDE DEF w, k
<1>3. \A i \in DOMAIN w : w[i] \in Nat \ {0}
  BY <1>2, ElementOfSeq
<1>4. IsFiniteSet(DOMAIN w)
  BY <1>2, FS_Interval
<1>5. total \in Nat \ {0}
  <2> DEFINE rest == SumFunctionOnSet(w, DOMAIN w \ {1})
  <2>1. rest \in Nat
    BY <1>3, <1>4, FS_Subset, SumIsNat
  <2>2. total = w[1] + rest
    BY <1>2, <1>3, <1>4, SumSplits
  <2> HIDE DEF total, rest
  <2> QED BY <1>2, <2>1, <2>2
<1> HIDE DEF total
<1>6. share \in Nat
  <2> DEFINE y == left * w[1]
  <2>1. y \in Nat
    BY <1>2
  <2> HIDE DEF y
  <2>2. y \div total \in Nat
    BY <1>5, <2>1
  <2> QED BY <2>2 DEF y
<1> HIDE DEF share
<1>7. /\ floor \in Nat /\ floor <= LeastTokens /\ floor <= left \div k
      /\ left >= LeastTokens * k => floor = LeastTokens
  <2> DEFINE q == left \div Len(w)
  <2>1. q \in Nat /\ q = left \div k /\ (left >= LeastTokens * k => q >= LeastTokens)
    BY <1>1, <1>2, DivisionFits
  <2> HIDE DEF q
  <2>2. Min({LeastTokens, q}) = IF LeastTokens <= q THEN LeastTokens ELSE q
    BY <1>1, <2>1, MinMaxIs
  <2> QED BY <1>1, <2>1, <2>2 DEF q
<1> HIDE DEF floor
<1>8. most \in Nat /\ most <= left
  <2>1. left \div k \in Nat /\ (left \div k) * k <= left
    BY <1>2, DivisionFits
  <2>2. floor * (k - 1) \in Nat /\ floor * (k - 1) <= left
    <3> DEFINE q == left \div k
    <3>1. q \in Nat /\ q * k <= left /\ floor <= q
      BY <1>7, <2>1
    <3> HIDE DEF q
    <3>2. PICK d \in Nat : q = floor + d
      <4>1. q - floor \in Nat /\ q = floor + (q - floor)
        BY <1>7, <3>1
      <4> QED BY <4>1
    <3>3. q * k = floor * (k - 1) + floor + d * k /\ d * k \in Nat /\ floor * (k - 1) \in Nat
      BY <1>2, <1>7, <3>2
    <3> QED BY <1>7, <3>1, <3>3
  <2> QED BY <1>2, <2>2
<1>9. left >= LeastTokens * k => most = left - LeastTokens * (k - 1) /\ most >= LeastTokens
  BY <1>1, <1>2, <1>7
<1> HIDE DEF most
<1>10. a = IF left < LeastTokens THEN 0 ELSE Min({most, Max({LeastTokens, share})})
  BY DEF Allocation, most, floor, share, total
<1> HIDE DEF a
<1> DEFINE more == Max({LeastTokens, share})
<1>11. more \in Nat /\ more >= LeastTokens
  <2>1. LeastTokens \in Int /\ share \in Int
    BY <1>1, <1>6
  <2>2. Max({LeastTokens, share}) = IF LeastTokens >= share THEN LeastTokens ELSE share
    BY <2>1, MinMaxIs
  <2> QED BY <1>1, <1>6, <2>2
<1> HIDE DEF more
<1>12. Min({most, more}) = IF most <= more THEN most ELSE more
  BY <1>8, <1>11, MinMaxIs
<1>13. a = IF left < LeastTokens THEN 0 ELSE IF most <= more THEN most ELSE more
  BY <1>10, <1>12 DEF more
<1>14. a \in Nat /\ a <= left
  BY <1>1, <1>8, <1>11, <1>13
<1>15. ASSUME left >= LeastTokens * k PROVE a >= LeastTokens /\ a <= left - LeastTokens * (k - 1)
  <2>1. LeastTokens * k >= LeastTokens
    BY <1>1, <1>2
  <2>2. LeastTokens * (k - 1) \in Nat
    BY <1>1, <1>2
  <2> QED BY <1>1, <1>8, <1>9, <1>15, <1>11, <1>13, <2>1, <2>2
<1> QED BY <1>14, <1>15 DEF a, k, w

(* The shares of a group, in a state that may have been restored.            *)
LEMMA GroupSharesFit ==
    ASSUME WeaveTypes, NEW n \in Members
    PROVE  /\ HardShare(n) \in Nat /\ SoftShare(n) \in Nat /\ SoftShare(n) <= HardShare(n)
           /\ TokensLeft \in Nat /\ HardShare(n) <= TokensLeft
           /\ SeenIn(mem) \in Nat
           /\ TokensLeft > 0 => TokensLeft = WeaveTotal - SeenIn(mem)
           /\ LET k == Len(Weights) - (n - 1)
              IN  mem.fixing = 0 /\ mem.spent + LeastTokens * k <= MainHard =>
                     /\ HardShare(n) >= LeastTokens
                     /\ mem.spent + HardShare(n) + LeastTokens * (k - 1) <= MainHard
<1> DEFINE w == SubSeq(Weights, n, Len(Weights))
           k == Len(Weights) - (n - 1)
           left == Min({TokensLeft, AtLeast0(MainHard - mem.spent)})
           soft == Min({TokensLeft, AtLeast0(Min({MainSoft, MainHard}) - mem.spent)})
<1>1. mem.spent \in Nat /\ mem.fixing \in Nat
  BY DEF WeaveTypes, Saved
<1>2. /\ TokensLeft \in Nat /\ SeenIn(mem) = mem.spent + mem.fixing
      /\ TokensLeft = IF WeaveTotal - mem.spent - mem.fixing >= 0
                      THEN WeaveTotal - mem.spent - mem.fixing ELSE 0
  BY <1>1, AtLeastIs, WeaveConstants DEF TokensLeft, SeenIn
<1> HIDE DEF TokensLeft
<1>3. /\ left \in Nat /\ left <= TokensLeft
      /\ mem.fixing = 0 /\ mem.spent <= MainHard => left = MainHard - mem.spent
  <2>1. AtLeast0(MainHard - mem.spent) = IF MainHard - mem.spent >= 0 THEN MainHard - mem.spent ELSE 0
    <3>1. MainHard - mem.spent \in Int
      BY <1>1, MainHardFits
    <3> QED BY <3>1, AtLeastIs
  <2> DEFINE free == AtLeast0(MainHard - mem.spent)
  <2>2. free \in Nat
    BY <1>1, <2>1, MainHardFits
  <2> HIDE DEF free
  <2>3. Min({TokensLeft, free}) = IF TokensLeft <= free THEN TokensLeft ELSE free
    BY <1>2, <2>2, MinMaxIs
  <2>4. left = IF TokensLeft <= free THEN TokensLeft ELSE free
    BY <2>3 DEF free
  <2>5. free = IF MainHard - mem.spent >= 0 THEN MainHard - mem.spent ELSE 0
    BY <2>1 DEF free
  <2> HIDE DEF left
  <2> QED BY <1>1, <1>2, <2>2, <2>4, <2>5, MainHardFits, WeaveConstants
<1>4. soft \in Nat
  <2>1. Min({MainSoft, MainHard}) \in Nat
    BY MinMaxIs, MainHardFits, WeaveConstants
  <2> DEFINE free == AtLeast0(Min({MainSoft, MainHard}) - mem.spent)
  <2>2. free \in Nat
    <3>1. Min({MainSoft, MainHard}) - mem.spent \in Int
      BY <1>1, <2>1
    <3> QED BY <3>1, AtLeastIs
  <2> HIDE DEF free
  <2>3. Min({TokensLeft, free}) \in Nat
    BY <1>2, <2>2, MinMaxIs
  <2> QED BY <2>3 DEF free
<1> HIDE DEF left, soft
<1>5. HardShare(n) = Allocation(left, w)
  BY DEF HardShare, left
<1>6. SoftShare(n) = Min({HardShare(n), Max({LeastTokens, Allocation(soft, w)})})
  BY DEF SoftShare, soft
<1>7. /\ HardShare(n) \in Nat /\ HardShare(n) <= left
      /\ left >= LeastTokens * k =>
            HardShare(n) >= LeastTokens /\ HardShare(n) <= left - LeastTokens * (k - 1)
  BY <1>3, <1>5, AllocationFits
<1>8. Allocation(soft, w) \in Nat
  BY <1>4, AllocationFits
<1> HIDE DEF HardShare, SoftShare
<1>9. SoftShare(n) \in Nat /\ SoftShare(n) <= HardShare(n)
  <2> DEFINE x == Allocation(soft, w)
             y == Max({LeastTokens, x})
             h == HardShare(n)
  <2>1. x \in Nat /\ h \in Nat
    BY <1>7, <1>8
  <2> HIDE DEF x, h
  <2>2. y \in Nat
    <3>1. LeastTokens \in Nat
      BY WeaveConstants
    <3>2. Max({LeastTokens, x}) = IF LeastTokens >= x THEN LeastTokens ELSE x
      BY <2>1, <3>1, MinMaxIs
    <3> QED BY <2>1, <3>1, <3>2
  <2> HIDE DEF y
  <2>3. Min({h, y}) \in Nat /\ Min({h, y}) <= h
    BY <2>1, <2>2, MinMaxIs
  <2> QED BY <1>6, <2>3 DEF x, y, h
<1>10. ASSUME mem.fixing = 0, mem.spent + LeastTokens * k <= MainHard
       PROVE  /\ HardShare(n) >= LeastTokens
              /\ mem.spent + HardShare(n) + LeastTokens * (k - 1) <= MainHard
  <2>1. LeastTokens * k \in Nat /\ LeastTokens * (k - 1) \in Nat /\ k \in Nat \ {0}
    BY WeaveConstants
  <2> HIDE DEF k
  <2>2. left = MainHard - mem.spent /\ left >= LeastTokens * k
    BY <1>1, <1>3, <1>10, <2>1, MainHardFits
  <2> QED BY <1>1, <1>7, <2>1, <2>2, MainHardFits
<1>11. SeenIn(mem) \in Nat /\ (TokensLeft > 0 => TokensLeft = WeaveTotal - SeenIn(mem))
  BY <1>1, <1>2, WeaveConstants
<1>12. HardShare(n) <= TokensLeft
  BY <1>2, <1>3, <1>7
<1> QED BY <1>2, <1>7, <1>9, <1>10, <1>11, <1>12

(* The parts of what is saved, one changed at a time.                        *)
LEMMA SavedParts ==
    ASSUME NEW m \in Saved
    PROVE  /\ m.groups \in [Members -> {"none", "generated", "checked"}] /\ m.rounds \in Seq(Nat)
           /\ m.spent \in Nat /\ m.fixing \in Nat /\ SeenIn(m) = m.spent + m.fixing
           /\ SeenIn(m) \in Nat
BY DEF Saved, SeenIn

(* Observed tokens leave the groups and the rounds alone.                    *)
LEMMA SpentChanges ==
    ASSUME NEW m \in Saved, NEW x \in Nat
    PROVE  LET s == [m EXCEPT !.spent = x]
               f == [m EXCEPT !.fixing = x]
           IN  /\ s \in Saved /\ f \in Saved /\ s.spent = x /\ f.fixing = x
               /\ s.fixing = m.fixing /\ f.spent = m.spent
               /\ s.groups = m.groups /\ f.groups = m.groups
               /\ s.rounds = m.rounds /\ f.rounds = m.rounds
BY DEF Saved

(* Progress of a group leaves tokens and rounds alone.                       *)
LEMMA GroupChanges ==
    ASSUME NEW m \in Saved, NEW n \in Members, NEW t \in {"generated", "checked"}
    PROVE  LET s == [m EXCEPT !.groups[n] = t]
           IN  /\ s \in Saved /\ s.spent = m.spent /\ s.fixing = m.fixing /\ s.rounds = m.rounds
               /\ s.groups = [m.groups EXCEPT ![n] = t]
BY DEF Saved

(* A round that is begun or judged leaves tokens and groups alone.           *)
LEMMA RoundsChange ==
    ASSUME NEW m \in Saved, NEW x \in Nat
    PROVE  LET s == [m EXCEPT !.rounds = Append(@, x)]
               f == [m EXCEPT !.rounds[Len(m.rounds)] = x]
           IN  /\ s \in Saved /\ s.spent = m.spent /\ s.fixing = m.fixing /\ s.groups = m.groups
               /\ Len(s.rounds) = Len(m.rounds) + 1
               /\ f \in Saved /\ f.spent = m.spent /\ f.fixing = m.fixing /\ f.groups = m.groups
               /\ Len(f.rounds) = Len(m.rounds)
<1>1. m.rounds \in Seq(Nat)
  BY DEF Saved
<1>2. Append(m.rounds, x) \in Seq(Nat) /\ Len(Append(m.rounds, x)) = Len(m.rounds) + 1
  BY <1>1
<1>3. /\ [m.rounds EXCEPT ![Len(m.rounds)] = x] \in Seq(Nat)
      /\ Len([m.rounds EXCEPT ![Len(m.rounds)] = x]) = Len(m.rounds)
  <2> DEFINE r == m.rounds
             f == [r EXCEPT ![Len(r)] = x]
  <2>1. r \in Seq(Nat) /\ Len(r) \in Nat /\ DOMAIN r = 1..Len(r) /\ \A i \in 1..Len(r) : r[i] \in Nat
    BY <1>1, ElementOfSeq
  <2> HIDE DEF r
  <2>2. f \in [1..Len(r) -> Nat]
    BY <2>1
  <2>3. f \in Seq(Nat) /\ Len(f) = Len(r)
    <3>1. f \in Seq(Nat)
      BY <2>1, <2>2, SeqDef
    <3>2. DOMAIN f = 1..Len(f) /\ DOMAIN f = 1..Len(r) /\ Len(f) \in Nat
      BY <2>2, <3>1
    <3> QED BY <2>1, <3>1, <3>2
  <2> QED BY <2>3 DEF r
<1> QED BY <1>1, <1>2, <1>3 DEF Saved

(* What is observed of a session is what it paid since.                      *)
LEMMA ObservedIs ==
    ASSUME WeaveTypes, SessionFits
    PROVE  /\ Observed \in Saved
           /\ Observed.groups = mem.groups /\ Observed.rounds = mem.rounds
           /\ SeenIn(Observed) = SeenIn(mem) + (session.used - session.seen)
           /\ place = "group" => /\ Observed.fixing = mem.fixing
                                 /\ Observed.spent = mem.spent + (session.used - session.seen)
<1> DEFINE d == session.used - session.seen
<1>1. d \in Nat /\ session.used \in Nat /\ session.seen \in Nat
  BY DEF WeaveTypes, SessionFits, Sessions
<1>2. mem \in Saved /\ mem.spent \in Nat /\ mem.fixing \in Nat
  BY SavedParts DEF WeaveTypes
<1>3. mem.spent + session.used - session.seen = mem.spent + d /\ mem.spent + d \in Nat
      /\ mem.fixing + session.used - session.seen = mem.fixing + d /\ mem.fixing + d \in Nat
  BY <1>1, <1>2
<1> HIDE DEF d
<1>4. Observed = IF place = "group" THEN [mem EXCEPT !.spent = mem.spent + d]
                 ELSE [mem EXCEPT !.fixing = mem.fixing + d]
  BY <1>3 DEF Observed
<1>5. Observed \in Saved /\ Observed.groups = mem.groups /\ Observed.rounds = mem.rounds
      /\ IF place = "group" THEN Observed.spent = mem.spent + d /\ Observed.fixing = mem.fixing
         ELSE Observed.fixing = mem.fixing + d /\ Observed.spent = mem.spent
  BY <1>2, <1>3, <1>4, SpentChanges
<1> QED BY <1>1, <1>2, <1>5, SavedParts DEF d

(* A session that opens, and one that pays, observes or is extended.        *)
LEMMA BlankIs == Blank \in Sessions /\ Blank.soft = 0 /\ Blank.hard = 0 /\ Blank.used = 0 /\ Blank.seen = 0
BY DEF Blank, Sessions

(* A session opens with nothing used.                                        *)
LEMMA OpenIs ==
    ASSUME WeaveTypes, NEW soft \in Nat, NEW hard \in Nat, Open(soft, hard)
    PROVE  /\ session' \in Sessions /\ session'.soft = soft /\ session'.hard = hard
           /\ session'.used = 0 /\ session'.seen = 0
BY DEF Open, WeaveTypes, Sessions

(* A request is paid below the soft budget; what it passes the hard budget   *)
(* by is overrun.                                                            *)
LEMMA RequestIs ==
    ASSUME WeaveTypes, SessionFits, NEW cost \in 1..WeaveCost, WeaveRequest(cost)
    PROVE  /\ session' \in Sessions /\ session'.used = session.used + cost
           /\ session'.soft = session.soft /\ session'.hard = session.hard
           /\ session'.seen = session.seen
           /\ overrun' \in Nat
           /\ \E extra \in Nat : /\ overrun' = overrun + extra
                                 /\ session.used + cost <= session.hard + extra
           /\ session.used < session.hard /\ session.used = session.seen
<1>1. /\ session \in Sessions /\ session.used \in Nat /\ session.hard \in Nat /\ session.soft \in Nat
      /\ overrun \in Nat /\ cost \in Nat /\ cost >= 1
      /\ session.used < session.soft /\ session.soft <= session.hard /\ session.used = session.seen
  BY WeaveConstants DEF WeaveTypes, SessionFits, Sessions, WeaveRequest
<1>2. session.used + cost \in Nat
  BY <1>1
<1>3. session' = [session EXCEPT !.used = session.used + cost]
  BY DEF WeaveRequest
<1>4. /\ session' \in Sessions /\ session'.used = session.used + cost
      /\ session'.soft = session.soft /\ session'.hard = session.hard /\ session'.seen = session.seen
  BY <1>1, <1>2, <1>3 DEF Sessions
<1>5. \E extra \in Nat : overrun' = overrun + extra /\ session.used + cost <= session.hard + extra
  <2> DEFINE above == session.used + cost - session.hard
             paid == Min({cost, above})
             extra == AtLeast0(paid)
  <2>1. above \in Int /\ above <= cost /\ session.used + cost = session.hard + above
    BY <1>1
  <2>2. overrun' = overrun + extra
    BY DEF WeaveRequest
  <2> HIDE DEF above
  <2>3. paid = above
    BY <1>1, <2>1, MinMaxIs
  <2>4. extra = IF above >= 0 THEN above ELSE 0
    BY <2>1, <2>3, AtLeastIs
  <2> HIDE DEF extra, paid
  <2>5. extra \in Nat /\ above <= extra
    BY <2>1, <2>4
  <2>6. session.used + cost <= session.hard + extra
    BY <1>1, <2>1, <2>5
  <2> QED BY <2>2, <2>5, <2>6
<1>6. overrun' \in Nat
  BY <1>1, <1>5
<1> QED BY <1>1, <1>4, <1>5, <1>6

(* An extension stays within the hard budget.                                *)
LEMMA ExtendIs ==
    ASSUME WeaveTypes, SessionFits, ExtendBudget
    PROVE  /\ session' \in Sessions /\ session'.soft <= session'.hard
           /\ session'.hard = session.hard /\ session'.used = session.used
           /\ session'.seen = session.seen
<1> DEFINE more == Max({session.soft + Extension, session.used + 1})
           soft == Min({session.hard, more})
<1>1. session \in Sessions /\ session.hard \in Nat /\ session.soft \in Nat /\ session.used \in Nat
  BY DEF WeaveTypes, Sessions
<1>2. more \in Nat
  <2>1. session.soft + Extension \in Nat /\ session.used + 1 \in Nat
    BY <1>1, WeaveConstants
  <2> DEFINE a == session.soft + Extension
             b == session.used + 1
  <2> HIDE DEF a, b
  <2>2. a \in Nat /\ b \in Nat
    BY <2>1 DEF a, b
  <2>3. Max({a, b}) = IF a >= b THEN a ELSE b
    BY <2>2, MinMaxIs
  <2>4. Max({a, b}) \in Nat
    BY <2>2, <2>3
  <2> QED BY <2>4 DEF a, b
<1>3. session' = [session EXCEPT !.fresh = FALSE, !.soft = soft]
  BY DEF ExtendBudget
<1> HIDE DEF more
<1>4. soft \in Nat /\ soft <= session.hard
  BY <1>1, <1>2, MinMaxIs
<1> HIDE DEF soft
<1> QED BY <1>1, <1>3, <1>4 DEF Sessions

(* A tool that writes leaves the budget of its session alone.                *)
LEMMA WritesIs ==
    ASSUME WeaveTypes, ToolWrites
    PROVE  /\ session' \in Sessions /\ session'.soft = session.soft /\ session'.hard = session.hard
           /\ session'.used = session.used /\ session'.seen = session.seen
BY DEF WeaveTypes, Sessions, ToolWrites, MakesProgress

(* An event of usage closes what was open.                                   *)
LEMMA ObserveIs ==
    ASSUME WeaveTypes, ObserveUsage
    PROVE  /\ session' \in Sessions /\ session'.soft = session.soft /\ session'.hard = session.hard
           /\ session'.used = session.used /\ session'.seen = session.used
BY DEF WeaveTypes, Sessions, ObserveUsage

(* The next group is opened with its shares, or no session is.              *)
LEMMA NextGroupIs ==
    ASSUME WeaveTypes, NextGroup
    PROVE  /\ place = "main" /\ number \in Nat \ {0}
           /\ \/ /\ session' = session /\ disk' = disk /\ redone' = redone
                 /\ \/ number' = number + 1 /\ place' = "main" /\ number \in Members
                       /\ mainStop' = mainStop
                    \/ number' = number /\ place' = "check" /\ number \in Members
                       /\ mainStop' = mainStop
                    \/ number' = number /\ place' = "full"
                       /\ (mainStop' = "tokens" =>
                             \/ mainStop = "tokens"
                             \/ number \in Members /\ HardShare(number) < LeastTokens)
              \/ /\ number \in Members /\ HardShare(number) >= LeastTokens
                 /\ Open(SoftShare(number), HardShare(number))
                 /\ redone' = (redone \/ disk.groups[number] # "none")
                 /\ mem.groups[number] = "none" /\ mainStop' = mainStop
                 /\ disk' = mem /\ place' = "group" /\ number' = number
<1>1. number \in Nat \ {0} /\ (number <= Len(Weights) => number \in Members)
  BY WeaveConstants DEF WeaveTypes
<1> QED BY <1>1 DEF NextGroup

(* A repair round is opened within what the run has left.                    *)
LEMMA RepairStartsIs ==
    ASSUME WeaveTypes, RepairStarts
    PROVE  /\ place = "judge" /\ place' = "repair" /\ Len(mem.rounds) < MaxRounds
           /\ mem' = [mem EXCEPT !.rounds = Append(@, Running)] /\ disk' = mem'
           /\ \E budget \in Nat : /\ budget <= WeaveTotal - SeenIn(mem)
                                  /\ Open(budget, budget)
<1>1. Len(mem.rounds) \in Nat
  BY SavedParts DEF WeaveTypes
<1>2. ~RepairEnds /\ ~(Len(mem.rounds) >= MaxRounds) /\ ~(TokensLeft < LeastTokens)
  BY DEF RepairStarts, RepairEnds
<1>3. 1 \in Members /\ LeastTokens \in Nat \ {0}
  BY WeaveConstants
<1>4. TokensLeft \in Nat /\ TokensLeft = WeaveTotal - SeenIn(mem) /\ LeastTokens <= TokensLeft
  BY <1>2, <1>3, GroupSharesFit
<1> DEFINE part == (TokensLeft * 65) \div 100
           most == Max({LeastTokens, part})
           budget == IF Len(mem.rounds) + 1 = MaxRounds THEN TokensLeft ELSE most
<1>5. part \in Nat /\ part <= TokensLeft
  BY <1>4
<1> HIDE DEF part
<1>6. most = IF LeastTokens >= part THEN LeastTokens ELSE part
  BY <1>3, <1>5, MinMaxIs
<1> HIDE DEF most
<1>7. budget \in Nat /\ budget <= WeaveTotal - SeenIn(mem)
  BY <1>3, <1>4, <1>5, <1>6
<1>8. Open(budget, budget)
  BY DEF RepairStarts, most, part
<1> HIDE DEF budget
<1>9. Len(mem.rounds) < MaxRounds
  BY <1>1, <1>2, WeaveConstants
<1> QED BY <1>7, <1>8, <1>9 DEF RepairStarts

(* A check leaves a report on the tree as it is.                            *)
LEMMA VerifyIs ==
    ASSUME WeaveTypes, NEW rows, Verify(rows)
    PROVE  /\ report' \in [rows : [Cmd -> Outcomes \cup {Unrun}], version : Nat]
           /\ report'.version = workTree
<1>1. rows \in [Cmd -> Outcomes \cup {Unrun}] /\ workTree \in Nat
      /\ report' = [rows |-> rows, version |-> workTree]
  BY DEF Verify, WeaveTypes
<1> QED BY <1>1

(* A repair round is judged on the tree as it is.                            *)
LEMMA RecheckIs ==
    ASSUME WeaveTypes, Recheck
    PROVE  /\ mem' \in Saved /\ mem'.spent = mem.spent /\ mem'.fixing = mem.fixing
           /\ mem'.groups = mem.groups /\ Len(mem'.rounds) = Len(mem.rounds)
           /\ report' \in [rows : [Cmd -> Outcomes \cup {Unrun}], version : Nat]
           /\ report'.version = workTree
<1> DEFINE earlier == IF Len(mem.rounds) > 1 /\ mem.rounds[Len(mem.rounds) - 1] # Running
                     THEN mem.rounds[Len(mem.rounds) - 1] ELSE 0
           advanced == AllPassed(report') \/ Markers(report') \ Markers(report) # {}
           x == IF advanced THEN 0 ELSE earlier + 1
<1>1. mem \in Saved /\ mem.rounds \in Seq(Nat)
  BY SavedParts DEF WeaveTypes
<1>2. earlier \in Nat
  <2> DEFINE r == mem.rounds
  <2>1. r \in Seq(Nat) /\ Len(r) \in Nat
    BY <1>1
  <2> HIDE DEF r
  <2>2. Len(r) > 1 => r[Len(r) - 1] \in Nat
    BY <2>1, ElementOfSeq
  <2> QED BY <2>2 DEF r
<1>3. x \in Nat
  BY <1>2
<1>4. mem' = [mem EXCEPT !.rounds[Len(mem.rounds)] = x]
  BY DEF Recheck
<1>5. PICK rows \in [Cmd -> Outcomes] : Verify(rows)
  BY DEF Recheck
<1> HIDE DEF x
<1> QED BY <1>1, <1>3, <1>4, <1>5, RoundsChange, VerifyIs

(* The types of a weave run are kept by every step.                          *)
LEMMA WeaveTypesKept ==
    ASSUME WeaveTypes, SessionFits, [WeaveNext]_weaveVars
    PROVE  WeaveTypes'
<1>1. /\ mem \in Saved /\ disk \in Saved /\ number \in Nat \ {0} /\ session \in Sessions
      /\ progressed \in BOOLEAN /\ straggler \in BOOLEAN /\ redone \in BOOLEAN
      /\ report \in [rows : [Cmd -> Outcomes \cup {Unrun}], version : Nat]
      /\ workTree \in Nat /\ bill \in Nat /\ overrun \in Nat /\ restarts \in Nat
      /\ place \in {"main", "group", "check", "full", "judge", "repair", "recheck", "ended", "down"}
  BY DEF WeaveTypes
<1>2. Blank \in Sessions
  BY BlankIs
<1>3. CASE NextGroup
  <2>1. place' \in {"main", "check", "full", "group"} /\ disk' \in Saved
    BY <1>1, <1>3, NextGroupIs
  <2>3. number' \in Nat \ {0}
    BY <1>1, <1>3, NextGroupIs
  <2>4. redone' \in BOOLEAN
    <3>1. redone' = redone \/ redone' = (redone \/ disk.groups[number] # "none")
      BY <1>3 DEF NextGroup
    <3> QED BY <1>1, <3>1
  <2>2. session' \in Sessions
    BY <1>1, <1>3, NextGroupIs, OpenIs, GroupSharesFit
  <2> QED BY <1>1, <1>3, <2>1, <2>2, <2>3, <2>4 DEF NextGroup, WeaveTypes
<1>4. ASSUME NEW cost \in 1..WeaveCost, WeaveRequest(cost) PROVE WeaveTypes'
  <2>1. session' \in Sessions /\ overrun' \in Nat
    BY <1>4, RequestIs
  <2>2. bill' \in Nat
    <3>1. cost \in Nat /\ bill' = bill + cost
      BY <1>4, WeaveConstants DEF WeaveRequest
    <3> QED BY <1>1, <3>1
  <2> QED BY <1>1, <1>4, <2>1, <2>2 DEF WeaveRequest, WeaveTypes
<1>5. CASE ObserveUsage
  BY <1>1, <1>5, ObserveIs, ObservedIs DEF ObserveUsage, WeaveTypes
<1>6. CASE ExtendBudget
  BY <1>1, <1>6, ExtendIs DEF ExtendBudget, WeaveTypes
<1>7. CASE ToolWrites
  BY <1>1, <1>7, WritesIs DEF ToolWrites, MakesProgress, WeaveTypes
<1>8. CASE GroupSolved
  <2>1. mem' \in Saved
    BY <1>8, ObservedIs, GroupChanges DEF GroupSolved, SessionFits
  <2> QED BY <1>1, <1>2, <1>8, <2>1 DEF GroupSolved, WeaveTypes
<1>9. CASE GroupChecked
  <2>1. mem' \in Saved
    BY <1>1, <1>9, GroupChanges DEF GroupChecked, SessionFits
  <2> QED BY <1>1, <1>9, <2>1 DEF GroupChecked, WeaveTypes
<1>10. CASE FullCheck
  BY <1>1, <1>10, VerifyIs DEF FullCheck, WeaveTypes
<1>11. CASE RepairStarts
  <2>1. mem' \in Saved
    <3>1. Running \in Nat
      BY DEF Running
    <3>2. mem' = [mem EXCEPT !.rounds = Append(@, Running)]
      BY <1>11 DEF RepairStarts
    <3> QED BY <1>1, <3>1, <3>2, RoundsChange
  <2>2. session' \in Sessions
    <3>1. PICK budget \in Nat : Open(budget, budget)
      BY <1>11, RepairStartsIs
    <3> QED BY <3>1, OpenIs
  <2> QED BY <1>1, <1>11, <2>1, <2>2 DEF RepairStarts, WeaveTypes
<1>12. CASE RepairSolved
  BY <1>1, <1>2, <1>12, ObservedIs DEF RepairSolved, WeaveTypes
<1>13. CASE Recheck
  BY <1>1, <1>13, RecheckIs DEF Recheck, WeaveTypes
<1>14. CASE FinishWeave
  BY <1>1, <1>14 DEF FinishWeave, WeaveTypes
<1>15. ASSUME NEW left \in BOOLEAN, EndInError(left) PROVE WeaveTypes'
  BY <1>1, <1>2, <1>15 DEF EndInError, WeaveTypes
<1>16. CASE StragglerWrites
  BY <1>1, <1>16 DEF StragglerWrites, WeaveTypes
<1>17. CASE WeaveDies
  BY <1>1, <1>2, <1>17 DEF WeaveDies, WeaveTypes
<1>18. CASE Continue
  <2>1. report' \in [rows : [Cmd -> Outcomes \cup {Unrun}], version : Nat]
    <3> DEFINE none == [c \in Cmd |-> Unrun]
    <3>1. none \in [Cmd -> Outcomes \cup {Unrun}]
      OBVIOUS
    <3>2. report' = [rows |-> none, version |-> 0]
      BY <1>18 DEF Continue, NoReport
    <3> HIDE DEF none
    <3> QED BY <3>1, <3>2
  <2>2. mem' = disk /\ disk' = disk /\ number' = 1 /\ session' = Blank /\ place' = "main"
    BY <1>18 DEF Continue
  <2>3. /\ progressed' = FALSE /\ straggler' = FALSE /\ redone' = redone
        /\ workTree' = workTree /\ bill' = bill /\ overrun' = overrun
        /\ restarts' = restarts + 1
    BY <1>18 DEF Continue
  <2>4. mem' \in Saved /\ disk' \in Saved /\ session' \in Sessions
    BY <1>1, <1>2, <2>2
  <2>5. number' \in Nat \ {0} /\ workTree' \in Nat /\ bill' \in Nat /\ overrun' \in Nat /\ restarts' \in Nat
    BY <1>1, <2>2, <2>3
  <2>6. progressed' \in BOOLEAN /\ straggler' \in BOOLEAN /\ redone' \in BOOLEAN
    BY <1>1, <2>3
  <2> QED BY <2>1, <2>2, <2>4, <2>5, <2>6 DEF WeaveTypes
<1>19. CASE WeaveLate
  BY <1>1, <1>19 DEF WeaveLate, WeaveTypes
<1>20. CASE UNCHANGED weaveVars
  BY <1>1, <1>20 DEF weaveVars, WeaveTypes
<1> QED
  BY <1>3, <1>4, <1>5, <1>6, <1>7, <1>8, <1>9, <1>10, <1>11, <1>12, <1>13, <1>14, <1>15,
     <1>16, <1>17, <1>18, <1>19, <1>20 DEF WeaveNext, WeaveStep, AgentLeft, WeaveFails

(* A session stays within its soft budget but for one request.               *)
LEMMA SessionKept ==
    ASSUME WeaveTypes, SessionFits, [WeaveNext]_weaveVars
    PROVE  SessionFits'
<1>1. /\ session.seen <= session.used /\ session.used <= session.seen + WeaveCost
      /\ session.soft <= session.hard
      /\ session.soft \in Nat /\ session.hard \in Nat /\ session.used \in Nat /\ session.seen \in Nat
      /\ WeaveCost \in Nat
  BY WeaveConstants DEF WeaveTypes, Sessions, SessionFits
<1>2. ASSUME session' = Blank, place' \notin {"group", "repair"},
             place' = "check" => number' \in Members
      PROVE  SessionFits'
  BY <1>1, <1>2, BlankIs DEF SessionFits, InSession
<1>3. ASSUME InSession, place' = place, number' = number,
             session'.seen \in Nat, session'.seen <= session'.used,
             session'.used <= session'.seen + WeaveCost, session'.soft <= session'.hard
      PROVE  SessionFits'
  BY <1>3 DEF SessionFits, InSession
<1>4. ~InSession => session = Blank
  BY DEF SessionFits
<1>5. CASE NextGroup
  <2>1. ~InSession
    BY <1>5, NextGroupIs DEF InSession
  <2>2. CASE session' = session /\ place' \in {"main", "check", "full"} /\ (place' = "check" => number' \in Members)
    BY <1>2, <1>4, <2>1, <2>2
  <2>3. CASE /\ number \in Members /\ Open(SoftShare(number), HardShare(number))
             /\ place' = "group" /\ number' = number
    <3>1. /\ SoftShare(number) \in Nat /\ HardShare(number) \in Nat
          /\ SoftShare(number) <= HardShare(number)
      BY <2>3, GroupSharesFit
    <3>2. /\ session'.soft <= session'.hard /\ session'.used = 0 /\ session'.seen = 0
      BY <2>3, <3>1, OpenIs
    <3> QED BY <1>1, <2>3, <3>2 DEF SessionFits, InSession
  <2> QED BY <1>5, <2>2, <2>3, NextGroupIs
<1>6. ASSUME NEW cost \in 1..WeaveCost, WeaveRequest(cost) PROVE SessionFits'
  <2>1. session'.used <= session'.seen + WeaveCost /\ session'.seen <= session'.used
    BY <1>1, <1>6, RequestIs
  <2> QED BY <1>1, <1>3, <1>6, <2>1, RequestIs DEF WeaveRequest
<1>7. CASE ObserveUsage
  BY <1>1, <1>3, <1>7, ObserveIs DEF ObserveUsage
<1>8. CASE ExtendBudget
  BY <1>1, <1>3, <1>8, ExtendIs DEF ExtendBudget
<1>9. CASE ToolWrites
  BY <1>1, <1>3, <1>9, WritesIs DEF ToolWrites
<1>10. CASE GroupSolved
  BY <1>2, <1>10 DEF GroupSolved, SessionFits
<1>11. CASE GroupChecked
  BY <1>2, <1>4, <1>11 DEF GroupChecked, InSession
<1>12. CASE FullCheck
  BY <1>2, <1>4, <1>12 DEF FullCheck, InSession
<1>13. CASE RepairStarts
  <2>1. PICK budget \in Nat : Open(budget, budget)
    BY <1>13, RepairStartsIs
  <2>2. session'.soft <= session'.hard /\ session'.used = 0 /\ session'.seen = 0
    BY <2>1, OpenIs
  <2> QED BY <1>1, <1>13, <2>2, RepairStartsIs DEF SessionFits, InSession
<1>14. CASE RepairSolved
  BY <1>2, <1>14 DEF RepairSolved
<1>15. CASE Recheck
  BY <1>2, <1>4, <1>15 DEF Recheck, InSession
<1>16. CASE FinishWeave
  BY <1>2, <1>4, <1>16 DEF FinishWeave, InSession
<1>17. ASSUME NEW left \in BOOLEAN, EndInError(left) PROVE SessionFits'
  BY <1>2, <1>17 DEF EndInError
<1>18. CASE WeaveDies
  BY <1>2, <1>18 DEF WeaveDies
<1>19. CASE Continue
  BY <1>2, <1>19 DEF Continue
<1>20. CASE StragglerWrites \/ WeaveLate \/ UNCHANGED weaveVars
  BY <1>20 DEF StragglerWrites, WeaveLate, weaveVars, SessionFits, InSession
<1> QED
  BY <1>5, <1>6, <1>7, <1>8, <1>9, <1>10, <1>11, <1>12, <1>13, <1>14, <1>15,
     <1>16, <1>17, <1>18, <1>19, <1>20 DEF WeaveNext, WeaveStep, AgentLeft, WeaveFails

(* All that is paid is observed but for one request of each process.         *)
LEMMA PaidSeenKept ==
    ASSUME WeaveTypes, SessionFits, PaidIsSeen, [WeaveNext]_weaveVars
    PROVE  PaidIsSeen'
<1> DEFINE paid == restarts * WeaveCost
           unseen == session.used - session.seen
<1>1. /\ WeaveCost \in Nat \ {0} /\ restarts \in Nat /\ bill \in Nat
      /\ SeenIn(mem) \in Nat /\ SeenIn(disk) \in Nat
      /\ session.used \in Nat /\ session.seen \in Nat
      /\ unseen \in Nat /\ unseen <= WeaveCost
  BY WeaveConstants, SavedParts DEF WeaveTypes, Sessions, SessionFits
<1>2. paid \in Nat /\ (restarts + 1) * WeaveCost = paid + WeaveCost
      /\ ((restarts + 1) + 1) * WeaveCost = paid + WeaveCost + WeaveCost
  BY <1>1
<1> HIDE DEF paid, unseen
<1>3. /\ place \notin {"ended", "down"} => bill <= SeenIn(mem) + unseen + paid
      /\ bill <= SeenIn(disk) + paid + WeaveCost
      /\ InSession => SeenIn(disk) = SeenIn(mem)
  BY <1>1, <1>2 DEF PaidIsSeen, paid, unseen
<1>4. ~InSession => session = Blank /\ unseen = 0
  BY BlankIs DEF SessionFits, unseen
(* the steps of a process that save nothing, and those that save            *)
<1>5. ASSUME bill' = bill, restarts' = restarts, disk' = disk,
             SeenIn(mem') + (session'.used - session'.seen) = SeenIn(mem) + unseen,
             place' \notin {"ended", "down"} => place \notin {"ended", "down"},
             InSession' => InSession /\ mem' = mem
      PROVE  PaidIsSeen'
  BY <1>1, <1>2, <1>3, <1>5 DEF PaidIsSeen, paid
<1>6. ASSUME bill' = bill, restarts' = restarts, disk' = mem', place \notin {"ended", "down"},
             place' # "ended" => SeenIn(mem') + (session'.used - session'.seen) = SeenIn(mem) + unseen,
             SeenIn(mem') >= SeenIn(mem), SeenIn(mem') \in Nat,
             session'.used - session'.seen \in Nat
      PROVE  PaidIsSeen'
  <2>1. bill <= SeenIn(mem) + unseen + paid
    BY <1>3, <1>6
  <2>2. bill' <= SeenIn(disk') + paid + WeaveCost
    BY <1>1, <1>2, <1>6, <2>1
  <2>3. place' # "ended" => bill' <= SeenIn(mem') + (session'.used - session'.seen) + paid
    BY <1>1, <1>2, <1>6, <2>1
  <2>4. restarts' * WeaveCost = paid /\ (restarts' + 1) * WeaveCost = paid + WeaveCost
    BY <1>2, <1>6 DEF paid
  <2>5. bill' <= SeenIn(disk') + (restarts' + 1) * WeaveCost
    BY <1>1, <1>2, <1>6, <2>2, <2>4
  <2>6. place' # "ended" => bill' <= SeenIn(mem') + (session'.used - session'.seen) + restarts' * WeaveCost
    BY <2>3, <2>4
  <2> QED BY <1>6, <2>5, <2>6 DEF PaidIsSeen
<1>7. CASE NextGroup
  <2>1. ~InSession /\ session = Blank /\ unseen = 0 /\ mem' = mem /\ bill' = bill
        /\ restarts' = restarts /\ place = "main"
    BY <1>4, <1>7 DEF NextGroup, InSession
  <2>2. CASE session' = session /\ disk' = disk /\ place' \in {"main", "check", "full"}
    <3>1. session'.used - session'.seen = unseen
      BY <2>2 DEF unseen
    <3> QED BY <1>5, <2>1, <2>2, <3>1 DEF InSession
  <2>3. CASE /\ number \in Members /\ Open(SoftShare(number), HardShare(number))
             /\ disk' = mem
    <3>1. session'.used = 0 /\ session'.seen = 0
      BY <2>3, GroupSharesFit, OpenIs
    <3> QED BY <1>1, <1>6, <2>1, <2>3, <3>1
  <2> QED BY <1>7, <2>2, <2>3, NextGroupIs
<1>8. ASSUME NEW cost \in 1..WeaveCost, WeaveRequest(cost) PROVE PaidIsSeen'
  <2>1. /\ InSession /\ InSession' /\ mem' = mem /\ disk' = disk /\ restarts' = restarts
        /\ place' = place /\ bill' = bill + cost
    BY <1>8 DEF WeaveRequest, InSession
  <2>2. session'.used - session'.seen = unseen + cost /\ unseen = 0 /\ cost \in Nat /\ cost <= WeaveCost
    BY <1>1, <1>8, RequestIs DEF unseen
  <2>3. bill <= SeenIn(mem) + paid /\ SeenIn(disk) = SeenIn(mem)
    BY <1>1, <1>2, <1>3, <2>1, <2>2 DEF InSession
  <2> QED BY <1>1, <1>2, <2>1, <2>2, <2>3 DEF PaidIsSeen, paid
<1>9. CASE ObserveUsage
  <2>1. SeenIn(mem') = SeenIn(mem) + unseen
    BY <1>9, ObservedIs DEF ObserveUsage, unseen
  <2>2. session'.used - session'.seen = 0
    BY <1>1, <1>9, ObserveIs
  <2> QED BY <1>1, <1>6, <1>9, <2>1, <2>2 DEF ObserveUsage, InSession
<1>10. CASE ExtendBudget
  <2>1. session'.used - session'.seen = unseen
    BY <1>10, ExtendIs DEF unseen
  <2> QED BY <1>1, <1>6, <1>10, <2>1 DEF ExtendBudget, InSession
<1>11. CASE ToolWrites
  <2>1. session'.used - session'.seen = unseen
    BY <1>11, WritesIs DEF unseen
  <2> QED BY <1>5, <1>11, <2>1 DEF ToolWrites, InSession
<1>12. session' = Blank => session'.used - session'.seen = 0
  BY BlankIs
<1>13. CASE GroupSolved
  <2>1. SeenIn(mem') = SeenIn(mem) + unseen
    <3>1. number \in Members /\ Observed \in Saved /\ SeenIn(Observed) = SeenIn(mem) + unseen
      BY <1>13, ObservedIs DEF GroupSolved, SessionFits, unseen
    <3>2. mem' = [Observed EXCEPT !.groups[number] = "generated"]
      BY <1>13 DEF GroupSolved
    <3> QED BY <3>1, <3>2, GroupChanges DEF SeenIn
  <2> QED BY <1>1, <1>6, <1>12, <1>13, <2>1 DEF GroupSolved
<1>14. CASE GroupChecked
  <2>1. SeenIn(mem') = SeenIn(mem)
    BY <1>14, GroupChanges DEF GroupChecked, SessionFits, SeenIn, WeaveTypes
  <2>2. session'.used - session'.seen = unseen /\ unseen = 0
    BY <1>4, <1>14 DEF GroupChecked, InSession, unseen
  <2> QED BY <1>1, <1>6, <1>14, <2>1, <2>2 DEF GroupChecked
<1>15. CASE FullCheck \/ FinishWeave
  <2>1. session'.used - session'.seen = unseen /\ unseen = 0
    BY <1>4, <1>15 DEF FullCheck, FinishWeave, InSession, unseen
  <2> QED BY <1>1, <1>6, <1>15, <2>1 DEF FullCheck, FinishWeave
<1>16. CASE RepairStarts
  <2>1. SeenIn(mem') = SeenIn(mem)
    <3>1. mem \in Saved /\ Running \in Nat
      BY DEF WeaveTypes, Running
    <3> QED BY <1>16, <3>1, RepairStartsIs, RoundsChange DEF SeenIn
  <2>2. session'.used = 0 /\ session'.seen = 0 /\ unseen = 0
    <3>1. PICK budget \in Nat : Open(budget, budget)
      BY <1>16, RepairStartsIs
    <3> QED BY <1>4, <1>16, <3>1, OpenIs DEF RepairStarts, InSession
  <2> QED BY <1>1, <1>6, <1>16, <2>1, <2>2 DEF RepairStarts
<1>17. CASE RepairSolved
  <2>1. SeenIn(mem') = SeenIn(mem) + unseen
    BY <1>17, ObservedIs DEF RepairSolved, unseen
  <2>2. session'.used - session'.seen = 0
    BY <1>12, <1>17 DEF RepairSolved
  <2> QED BY <1>1, <1>5, <1>17, <2>1, <2>2 DEF RepairSolved, InSession
<1>18. CASE Recheck
  <2>1. SeenIn(mem') = SeenIn(mem)
    BY <1>18, RecheckIs DEF SeenIn
  <2>2. session'.used - session'.seen = unseen /\ unseen = 0
    BY <1>4, <1>18 DEF Recheck, InSession, unseen
  <2> QED BY <1>1, <1>6, <1>18, <2>1, <2>2 DEF Recheck
<1>19. ASSUME NEW left \in BOOLEAN, EndInError(left) PROVE PaidIsSeen'
  BY <1>1, <1>6, <1>12, <1>19 DEF EndInError
<1>20. CASE WeaveDies
  BY <1>1, <1>2, <1>3, <1>20 DEF WeaveDies, PaidIsSeen, InSession, paid
<1>21. CASE Continue
  <2>1. /\ bill' = bill /\ restarts' = restarts + 1 /\ mem' = disk /\ disk' = disk
        /\ session'.used - session'.seen = 0
    BY <1>12, <1>21 DEF Continue
  <2>2. ~InSession'
    BY <1>21 DEF Continue, InSession
  <2>3. bill' <= SeenIn(mem') + (session'.used - session'.seen) + (paid + WeaveCost)
    BY <1>1, <1>2, <1>3, <2>1
  <2>4. bill' <= SeenIn(disk') + (paid + WeaveCost + WeaveCost)
    BY <1>1, <1>2, <1>3, <2>1
  <2> QED BY <1>2, <2>1, <2>2, <2>3, <2>4 DEF PaidIsSeen
<1>22. CASE StragglerWrites \/ WeaveLate \/ UNCHANGED weaveVars
  BY <1>22 DEF StragglerWrites, WeaveLate, weaveVars, PaidIsSeen, InSession
<1> QED
  BY <1>7, <1>8, <1>9, <1>10, <1>11, <1>13, <1>14, <1>15, <1>16, <1>17, <1>18, <1>19,
     <1>20, <1>21, <1>22 DEF WeaveNext, WeaveStep, AgentLeft, WeaveFails

(* What is paid, with what the open session may still pay, stays within the  *)
(* budget: a session is opened with no more than what is left.               *)
LEMMA PaidFitsKept ==
    ASSUME WeaveTypes, SessionFits, PaidIsSeen, PaidFits, [WeaveNext]_weaveVars
    PROVE  PaidFits'
<1> DEFINE paid == restarts * WeaveCost
           rest == session.hard - session.used
<1>1. /\ WeaveCost \in Nat \ {0} /\ restarts \in Nat /\ bill \in Nat /\ overrun \in Nat
      /\ WeaveTotal \in Nat /\ SeenIn(mem) \in Nat
      /\ session.used \in Nat /\ session.hard \in Nat /\ rest \in Int
      /\ Len(mem.rounds) \in Nat /\ Len(disk.rounds) \in Nat /\ MaxRounds \in Nat
  BY WeaveConstants, SavedParts DEF WeaveTypes, Sessions
<1>2. paid \in Nat /\ (restarts + 1) * WeaveCost = paid + WeaveCost
  BY <1>1
<1> HIDE DEF paid
<1>3. /\ bill <= WeaveTotal + overrun + paid
      /\ bill + rest <= WeaveTotal + overrun + paid
      /\ Len(mem.rounds) <= MaxRounds /\ Len(disk.rounds) <= MaxRounds
  <2>1. AtLeast0(rest) = IF rest >= 0 THEN rest ELSE 0
    BY <1>1, AtLeastIs
  <2> QED BY <1>1, <1>2, <2>1 DEF PaidFits, paid, rest
<1> HIDE DEF rest
<1>4. ~InSession => session = Blank
  BY DEF SessionFits
<1>5. ~InSession /\ place \notin {"ended", "down"} => bill <= SeenIn(mem) + paid
  <2>1. Blank.used - Blank.seen = 0
    BY BlankIs
  <2> QED BY <1>1, <1>2, <1>4, <2>1 DEF PaidIsSeen, paid
(* the two ways in which the sum is kept                                    *)
<1>6. ASSUME session'.hard \in Nat, session'.used \in Nat, bill' \in Nat, overrun' \in Nat,
             restarts' = restarts,
             bill' <= WeaveTotal + overrun' + paid,
             bill' + (session'.hard - session'.used) <= WeaveTotal + overrun' + paid,
             Len(mem'.rounds) <= MaxRounds, Len(disk'.rounds) <= MaxRounds
      PROVE  PaidFits'
  <2> DEFINE more == session'.hard - session'.used
  <2>1. more \in Int
    BY <1>6
  <2>2. bill' + more <= WeaveTotal + overrun' + paid
    BY <1>6
  <2> HIDE DEF more
  <2>3. AtLeast0(more) = IF more >= 0 THEN more ELSE 0
    BY <2>1, AtLeastIs
  <2>4. bill' + AtLeast0(more) <= WeaveTotal + overrun' + paid
    <3>1. CASE more >= 0
      BY <2>2, <2>3, <3>1
    <3>2. CASE ~(more >= 0)
      BY <1>6, <2>3, <3>2
    <3> QED BY <3>1, <3>2
  <2>5. AtLeast0(more) = AtLeast0(session.hard - session.used)'
    BY DEF more, AtLeast0
  <2> QED BY <1>6, <2>4, <2>5 DEF PaidFits, paid
<1>7. ASSUME session'.hard = session.hard, session'.used = session.used, bill' = bill,
             overrun' = overrun, restarts' = restarts,
             Len(mem'.rounds) <= MaxRounds, Len(disk'.rounds) <= MaxRounds
      PROVE  PaidFits'
  BY <1>1, <1>3, <1>6, <1>7 DEF rest
<1>8. ASSUME session' = Blank, bill' = bill, overrun' = overrun, restarts' = restarts,
             Len(mem'.rounds) <= MaxRounds, Len(disk'.rounds) <= MaxRounds
      PROVE  PaidFits'
  BY <1>1, <1>3, <1>6, <1>8, BlankIs
<1>9. ASSUME NEW soft \in Nat, NEW hard \in Nat, Open(soft, hard),
             hard <= WeaveTotal - SeenIn(mem), place \in {"main", "judge"},
             bill' = bill, overrun' = overrun, restarts' = restarts,
             Len(mem'.rounds) <= MaxRounds, Len(disk'.rounds) <= MaxRounds
      PROVE  PaidFits'
  <2>1. session'.hard = hard /\ session'.used = 0
    BY <1>9, OpenIs
  <2>2. bill <= SeenIn(mem) + paid
    BY <1>5, <1>9 DEF InSession
  <2>3. bill' + (session'.hard - session'.used) <= WeaveTotal + overrun' + paid
    BY <1>1, <1>2, <1>9, <2>1, <2>2
  <2> QED BY <1>1, <1>3, <1>6, <1>9, <2>1, <2>3
<1>10. CASE NextGroup
  <2>1. mem' = mem /\ bill' = bill /\ overrun' = overrun /\ restarts' = restarts /\ place = "main"
    BY <1>10 DEF NextGroup
  <2>2. CASE session' = session /\ disk' = disk
    BY <1>3, <1>7, <2>1, <2>2
  <2>3. CASE /\ number \in Members /\ HardShare(number) >= LeastTokens
             /\ Open(SoftShare(number), HardShare(number)) /\ disk' = mem
    <3>1. /\ HardShare(number) \in Nat /\ SoftShare(number) \in Nat
          /\ HardShare(number) <= WeaveTotal - SeenIn(mem)
      BY <2>3, GroupSharesFit, WeaveConstants
    <3> QED BY <1>3, <1>9, <2>1, <2>3, <3>1
  <2> QED BY <1>10, <2>2, <2>3, NextGroupIs
<1>11. ASSUME NEW cost \in Nat, cost \in 1..WeaveCost, WeaveRequest(cost) PROVE PaidFits'
  <2>1. mem' = mem /\ disk' = disk /\ restarts' = restarts /\ bill' = bill + cost
    BY <1>11 DEF WeaveRequest
  <2>2. /\ session'.used = session.used + cost /\ session'.hard = session.hard
        /\ overrun' \in Nat
    BY <1>11, RequestIs
  <2>3. PICK extra \in Nat : overrun' = overrun + extra /\ cost <= rest + extra
    <3>1. PICK extra \in Nat : /\ overrun' = overrun + extra
                               /\ session.used + cost <= session.hard + extra
      BY <1>11, RequestIs
    <3>2. cost <= rest + extra
      BY <1>1, <3>1 DEF rest
    <3> QED BY <3>1, <3>2
  <2>4. session'.hard - session'.used = rest - cost /\ bill' + (rest - cost) = bill + rest
    BY <1>1, <2>1, <2>2 DEF rest
  <2>5. bill' + (session'.hard - session'.used) <= WeaveTotal + overrun' + paid
    BY <1>1, <1>2, <1>3, <2>3, <2>4
  <2>6. session'.hard \in Nat /\ session'.used \in Nat /\ bill' \in Nat
    BY <1>1, <2>1, <2>2
  <2>7. bill' <= WeaveTotal + overrun' + paid
    BY <1>1, <1>2, <1>3, <2>1, <2>3
  <2> QED BY <1>3, <1>6, <2>1, <2>2, <2>5, <2>6, <2>7
<1>12. CASE ObserveUsage
  BY <1>3, <1>7, <1>12, ObserveIs, ObservedIs DEF ObserveUsage
<1>13. CASE ExtendBudget
  BY <1>3, <1>7, <1>13, ExtendIs DEF ExtendBudget
<1>14. CASE ToolWrites
  BY <1>3, <1>7, <1>14, WritesIs DEF ToolWrites
<1>15. CASE GroupSolved
  <2>1. mem'.rounds = mem.rounds
    BY <1>15, ObservedIs, GroupChanges DEF GroupSolved, SessionFits
  <2> QED BY <1>3, <1>8, <1>15, <2>1 DEF GroupSolved
<1>16. CASE GroupChecked
  <2>1. mem'.rounds = mem.rounds
    BY <1>16, GroupChanges DEF GroupChecked, SessionFits, WeaveTypes
  <2> QED BY <1>3, <1>7, <1>16, <2>1 DEF GroupChecked
<1>17. CASE FullCheck \/ FinishWeave
  BY <1>3, <1>7, <1>17 DEF FullCheck, FinishWeave
<1>18. CASE RepairStarts
  <2>1. PICK budget \in Nat : budget <= WeaveTotal - SeenIn(mem) /\ Open(budget, budget)
    BY <1>18, RepairStartsIs
  <2>2. Len(mem'.rounds) = Len(mem.rounds) + 1
    <3>1. mem \in Saved /\ Running \in Nat
      BY DEF WeaveTypes, Running
    <3>2. mem' = [mem EXCEPT !.rounds = Append(@, Running)]
      BY <1>18 DEF RepairStarts
    <3> QED BY <3>1, <3>2, RoundsChange
  <2>3. Len(mem'.rounds) <= MaxRounds /\ disk' = mem'
    BY <1>1, <1>18, <2>2, RepairStartsIs
  <2> QED BY <1>9, <1>18, <2>1, <2>3 DEF RepairStarts
<1>19. CASE RepairSolved
  BY <1>3, <1>8, <1>19, ObservedIs DEF RepairSolved
<1>20. CASE Recheck
  BY <1>3, <1>7, <1>20, RecheckIs DEF Recheck
<1>21. ASSUME NEW left \in BOOLEAN, EndInError(left) PROVE PaidFits'
  BY <1>3, <1>8, <1>21 DEF EndInError
<1>22. CASE WeaveDies
  BY <1>3, <1>8, <1>22 DEF WeaveDies
<1>23. CASE Continue
  <2>1. /\ bill' = bill /\ overrun' = overrun /\ restarts' = restarts + 1 /\ session' = Blank
        /\ mem' = disk /\ disk' = disk
    BY <1>23 DEF Continue
  <2>2. AtLeast0(session.hard - session.used)' = 0
    <3>1. Blank.hard - Blank.used = 0
      BY BlankIs
    <3>2. AtLeast0(0) = 0
      BY AtLeastIs
    <3> QED BY <2>1, <3>1, <3>2 DEF AtLeast0
  <2>3. bill' + 0 <= WeaveTotal + overrun' + (paid + WeaveCost)
    BY <1>1, <1>2, <1>3, <2>1
  <2> QED BY <1>2, <1>3, <2>1, <2>2, <2>3 DEF PaidFits
<1>24. CASE StragglerWrites \/ WeaveLate \/ UNCHANGED weaveVars
  BY <1>3, <1>7, <1>24 DEF StragglerWrites, WeaveLate, weaveVars
<1>25. 1..WeaveCost \subseteq Nat
  BY <1>1
<1> QED
  BY <1>25, <1>10, <1>11, <1>12, <1>13, <1>14, <1>15, <1>16, <1>17, <1>18, <1>19,
     <1>20, <1>21, <1>22, <1>23, <1>24 DEF WeaveNext, WeaveStep, AgentLeft, WeaveFails

(* What was saved of a group is never forgotten, nor solved again.           *)
LEMMA SavedKept ==
    ASSUME WeaveTypes, SessionFits, SavedStaysSaved, [WeaveNext]_weaveVars
    PROVE  SavedStaysSaved'
<1>1. ~redone /\ \A g \in Members : disk.groups[g] # "none" => mem.groups[g] # "none"
  BY DEF SavedStaysSaved
<1>2. mem \in Saved /\ mem.groups \in [Members -> {"none", "generated", "checked"}]
  BY SavedParts DEF WeaveTypes
(* a state that is saved as it is, and one that gains                       *)
<1>3. ASSUME redone' = redone, disk' = mem'
      PROVE  SavedStaysSaved'
  BY <1>1, <1>3 DEF SavedStaysSaved
<1>4. ASSUME redone' = redone, disk' = disk, mem'.groups = mem.groups
      PROVE  SavedStaysSaved'
  BY <1>1, <1>4 DEF SavedStaysSaved
<1>5. CASE NextGroup
  <2>1. mem' = mem
    BY <1>5 DEF NextGroup
  <2>2. CASE disk' = disk /\ redone' = redone
    BY <1>4, <2>1, <2>2
  <2>3. CASE /\ number \in Members /\ disk' = mem /\ mem.groups[number] = "none"
             /\ redone' = (redone \/ disk.groups[number] # "none")
    <3>1. disk.groups[number] = "none"
      BY <1>1, <2>3
    <3>2. ~redone'
      BY <1>1, <2>3, <3>1
    <3> QED BY <2>1, <2>3, <3>2 DEF SavedStaysSaved
  <2> QED BY <1>5, <2>2, <2>3, NextGroupIs
<1>6. CASE ObserveUsage \/ GroupSolved \/ GroupChecked \/ RepairStarts \/ Recheck
  BY <1>3, <1>6 DEF ObserveUsage, GroupSolved, GroupChecked, RepairStarts, Recheck
<1>7. CASE ExtendBudget \/ FullCheck \/ FinishWeave
  BY <1>3, <1>7 DEF ExtendBudget, FullCheck, FinishWeave
<1>8. ASSUME NEW left \in BOOLEAN, EndInError(left) PROVE SavedStaysSaved'
  BY <1>3, <1>8 DEF EndInError
<1>9. CASE RepairSolved
  BY <1>4, <1>9, ObservedIs DEF RepairSolved
<1>10. ASSUME NEW cost \in 1..WeaveCost, WeaveRequest(cost) PROVE SavedStaysSaved'
  BY <1>4, <1>10 DEF WeaveRequest
<1>11. CASE ToolWrites \/ StragglerWrites \/ WeaveDies \/ WeaveLate \/ UNCHANGED weaveVars
  BY <1>4, <1>11 DEF ToolWrites, StragglerWrites, WeaveDies, WeaveLate, weaveVars
<1>12. CASE Continue
  BY <1>3, <1>12 DEF Continue
<1> QED
  BY <1>5, <1>6, <1>7, <1>8, <1>9, <1>10, <1>11, <1>12
  DEF WeaveNext, WeaveStep, AgentLeft, WeaveFails

(* The report that is judged is one on the tree as it is.                    *)
LEMMA CheckKept ==
    ASSUME WeaveTypes, CheckIsCurrent, [WeaveNext]_weaveVars
    PROVE  CheckIsCurrent'
<1>1. /\ outcome # "none" => place = "ended"
      /\ straggler => outcome = "error"
      /\ place = "judge" => report.version = workTree
      /\ outcome = "completed" => report.version = workTree /\ AllPassed(report)
  BY DEF CheckIsCurrent
(* while a process works it has returned nothing, and no agent is left       *)
<1>2. ASSUME place # "ended", outcome' = outcome, straggler' => straggler,
             place' = "judge" => report'.version = workTree'
      PROVE  CheckIsCurrent'
  <2>1. outcome = "none" /\ ~straggler
    BY <1>1, <1>2
  <2>2. outcome' = "none" /\ ~straggler'
    BY <1>2, <2>1
  <2> QED BY <1>2, <2>2 DEF CheckIsCurrent
<1>3. CASE NextGroup
  BY <1>2, <1>3, NextGroupIs DEF NextGroup
<1>4. CASE ObserveUsage \/ ExtendBudget \/ ToolWrites
  BY <1>2, <1>4 DEF ObserveUsage, ExtendBudget, ToolWrites, InSession
<1>5. CASE GroupSolved \/ GroupChecked \/ RepairStarts \/ RepairSolved
  BY <1>2, <1>5 DEF GroupSolved, GroupChecked, RepairStarts, RepairSolved
<1>6. ASSUME NEW cost \in 1..WeaveCost, WeaveRequest(cost) PROVE CheckIsCurrent'
  BY <1>2, <1>6 DEF WeaveRequest, InSession
<1>7. CASE FullCheck
  <2>1. report'.version = workTree'
    BY <1>7, VerifyIs DEF FullCheck
  <2> QED BY <1>2, <1>7, <2>1 DEF FullCheck
<1>8. CASE Recheck
  <2>1. report'.version = workTree'
    BY <1>8, RecheckIs DEF Recheck
  <2> QED BY <1>2, <1>8, <2>1 DEF Recheck
<1>9. CASE FinishWeave
  <2>1. /\ place = "judge" /\ place' = "ended" /\ straggler' = straggler
        /\ report' = report /\ workTree' = workTree
        /\ outcome' = "completed" => AllPassed(report)
    BY <1>9 DEF FinishWeave
  <2>2. ~straggler
    BY <1>1, <2>1
  <2>3. AllPassed(report) => AllPassed(report')
    BY <2>1
  <2> QED BY <1>1, <2>1, <2>2, <2>3 DEF CheckIsCurrent
<1>10. ASSUME NEW left \in BOOLEAN, EndInError(left) PROVE CheckIsCurrent'
  BY <1>10 DEF EndInError, CheckIsCurrent
<1>11. CASE StragglerWrites
  BY <1>1, <1>11 DEF StragglerWrites, CheckIsCurrent
<1>12. CASE WeaveDies
  BY <1>2, <1>12 DEF WeaveDies
<1>13. CASE Continue
  BY <1>13 DEF Continue, CheckIsCurrent
<1>14. CASE WeaveLate
  BY <1>1, <1>2, <1>14 DEF WeaveLate
<1>15. CASE UNCHANGED weaveVars
  BY <1>1, <1>15 DEF weaveVars, CheckIsCurrent
<1> QED
  BY <1>3, <1>4, <1>5, <1>6, <1>7, <1>8, <1>9, <1>10, <1>11, <1>12, <1>13, <1>14, <1>15
  DEF WeaveNext, WeaveStep, AgentLeft, WeaveFails

(* Each group leaves the ones after it their minimum.                        *)
LEMMA RestKept ==
    ASSUME WeaveTypes, SessionFits, RestIsLeft, [WeaveNext]_weaveVars
    PROVE  RestIsLeft'
<1> DEFINE count == Len(Weights)
           Full(n) == LeastTokens * (count - n)
<1>1. /\ count \in Nat \ {0} /\ LeastTokens \in Nat \ {0} /\ MainHard \in Nat
      /\ restarts \in Nat /\ overrun \in Nat /\ number \in Nat \ {0}
      /\ mem \in Saved /\ mem.spent \in Nat /\ mem.fixing \in Nat
      /\ session.used \in Nat /\ session.seen \in Nat /\ session.hard \in Nat
      /\ session.seen <= session.used
  BY WeaveConstants, MainHardFits, SavedParts DEF WeaveTypes, Sessions, SessionFits
<1>2. Full(number) \in Int /\ LeastTokens * (count - (number - 1)) = Full(number) + LeastTokens
      /\ LeastTokens * (count - ((number + 1) - 1)) = Full(number)
  BY <1>1
<1> HIDE DEF Full, count
(* the steps that pay for nothing                                           *)
<1>3. ASSUME restarts' = restarts, overrun' = overrun, mainStop' = mainStop,
             place' \notin {"main", "group", "check"}
      PROVE  RestIsLeft'
  BY <1>3 DEF RestIsLeft
<1>4. ASSUME restarts' = restarts, overrun' = overrun, mainStop' = mainStop, place' = place,
             number' = number, mem'.spent = mem.spent, mem'.fixing = mem.fixing,
             session'.used = session.used, session'.hard = session.hard,
             session'.seen = session.seen
      PROVE  RestIsLeft'
  BY <1>4 DEF RestIsLeft
<1>5. SUFFICES ASSUME restarts' = 0, overrun' = 0, MainHard >= LeastTokens * count,
                      restarts = 0, overrun = 0
               PROVE  RestIsLeft'
  <2>1. ASSUME NEW cost \in 1..WeaveCost, WeaveRequest(cost) PROVE overrun' >= overrun /\ restarts' = restarts
    <3>1. PICK extra \in Nat : overrun' = overrun + extra
      BY <2>1, RequestIs
    <3> QED BY <1>1, <2>1, <3>1 DEF WeaveRequest
  <2>2. overrun' >= overrun /\ restarts' >= restarts
    BY <1>1, <2>1
    DEF WeaveNext, WeaveStep, NextGroup, ObserveUsage, ExtendBudget, GroupSolved, GroupChecked,
        FullCheck, RepairStarts, RepairSolved, Recheck, FinishWeave, ToolWrites, AgentLeft,
        WeaveFails, EndInError, StragglerWrites, WeaveDies, Continue, WeaveLate, weaveVars
  <2>3. restarts' = 0 /\ overrun' = 0 => restarts = 0 /\ overrun = 0
    BY <1>1, <2>2
  <2> QED BY <2>3 DEF RestIsLeft, count
<1>6. /\ mainStop # "tokens"
      /\ place \in {"main", "group", "check"} => mem.fixing = 0
      /\ place = "main" => mem.spent + (Full(number) + LeastTokens) <= MainHard
      /\ place = "group" => /\ session.used <= session.hard
                            /\ mem.spent + (session.hard - session.seen) + Full(number) <= MainHard
      /\ place = "check" => mem.spent + Full(number) <= MainHard
  BY <1>2, <1>5 DEF RestIsLeft, count, Full
<1>7. ASSUME mainStop' # "tokens", mem'.fixing = 0, place' = "main",
             number' = number + 1, mem'.spent + Full(number) <= MainHard
      PROVE  RestIsLeft'
  BY <1>2, <1>7 DEF RestIsLeft, count
<1>8. ASSUME mainStop' # "tokens", mem'.fixing = 0, place' = "check",
             number' = number, mem'.spent + Full(number) <= MainHard
      PROVE  RestIsLeft'
  BY <1>8 DEF RestIsLeft, count, Full
<1>9. ASSUME mainStop' # "tokens", mem'.fixing = 0, place' = "group", number' = number,
             session'.used <= session'.hard,
             mem'.spent + (session'.hard - session'.seen) + Full(number) <= MainHard
      PROVE  RestIsLeft'
  BY <1>9 DEF RestIsLeft, count, Full
<1>10. CASE NextGroup
  <2>1. mem' = mem /\ place = "main" /\ mem.fixing = 0
        /\ mem.spent + (Full(number) + LeastTokens) <= MainHard
        /\ mem.spent + Full(number) <= MainHard
    BY <1>1, <1>2, <1>6, <1>10 DEF NextGroup
  <2>2. number \in Members =>
           /\ HardShare(number) \in Nat /\ SoftShare(number) \in Nat
           /\ HardShare(number) >= LeastTokens
           /\ mem.spent + HardShare(number) + Full(number) <= MainHard
    <3>1. ASSUME number \in Members
          PROVE  /\ HardShare(number) \in Nat /\ SoftShare(number) \in Nat
                 /\ HardShare(number) >= LeastTokens
                 /\ mem.spent + HardShare(number) + LeastTokens * (count - (number - 1) - 1) <= MainHard
      BY <1>2, <2>1, <3>1, GroupSharesFit DEF count
    <3>2. count - (number - 1) - 1 = count - number
      BY <1>1
    <3> QED BY <3>1, <3>2 DEF Full
  <2>3. CASE number' = number + 1 /\ place' = "main" /\ mainStop' = mainStop
    BY <1>6, <1>7, <2>1, <2>3
  <2>4. CASE number' = number /\ place' = "check" /\ mainStop' = mainStop
    BY <1>6, <1>8, <2>1, <2>4
  <2>5. CASE /\ place' = "full"
             /\ (mainStop' = "tokens" =>
                   \/ mainStop = "tokens"
                   \/ number \in Members /\ HardShare(number) < LeastTokens)
    <3>1. mainStop' # "tokens"
      BY <1>1, <1>6, <2>2, <2>5
    <3> QED BY <2>5, <3>1 DEF RestIsLeft
  <2>6. CASE /\ number \in Members /\ Open(SoftShare(number), HardShare(number))
             /\ place' = "group" /\ number' = number /\ mainStop' = mainStop
    <3>1. session'.hard = HardShare(number) /\ session'.used = 0 /\ session'.seen = 0
      BY <2>2, <2>6, OpenIs
    <3>2. session'.used <= session'.hard /\ session'.hard - session'.seen = HardShare(number)
      BY <2>2, <2>6, <3>1
    <3> QED BY <1>6, <1>9, <2>1, <2>2, <2>6, <3>2
  <2> QED BY <1>10, <2>3, <2>4, <2>5, <2>6, NextGroupIs
<1>11. ASSUME NEW cost \in 1..WeaveCost, WeaveRequest(cost) PROVE RestIsLeft'
  <2>1. /\ mem' = mem /\ place' = place /\ number' = number /\ mainStop' = mainStop
        /\ place \in {"group", "repair"}
    BY <1>11 DEF WeaveRequest, InSession
  <2>2. /\ session'.used = session.used + cost /\ session'.hard = session.hard
        /\ session'.seen = session.seen
    BY <1>11, RequestIs
  <2>3. session'.used <= session'.hard
    <3>1. PICK extra \in Nat : /\ overrun' = overrun + extra
                               /\ session.used + cost <= session.hard + extra
      BY <1>11, RequestIs
    <3>2. extra = 0
      BY <1>1, <1>5, <3>1
    <3> QED BY <1>1, <2>2, <3>1, <3>2
  <2>4. CASE place = "group"
    BY <1>6, <1>9, <2>1, <2>2, <2>3, <2>4
  <2>5. CASE place = "repair"
    BY <1>6, <2>1, <2>5 DEF RestIsLeft
  <2> QED BY <2>1, <2>4, <2>5
<1>12. CASE ObserveUsage
  <2>1. place' = place /\ number' = number /\ mainStop' = mainStop /\ place \in {"group", "repair"}
        /\ session'.hard = session.hard /\ session'.used = session.used
        /\ session'.seen = session.used /\ mem' = Observed
    BY <1>12, ObserveIs DEF ObserveUsage, InSession
  <2>2. CASE place = "group"
    <3>1. mem'.fixing = 0 /\ mem'.spent = mem.spent + (session.used - session.seen)
      BY <1>6, <2>1, <2>2, ObservedIs
    <3>2. mem'.spent + (session'.hard - session'.seen) = mem.spent + (session.hard - session.seen)
      BY <1>1, <2>1, <3>1
    <3> QED BY <1>6, <1>9, <2>1, <2>2, <3>1, <3>2
  <2>3. CASE place = "repair"
    BY <1>6, <2>1, <2>3 DEF RestIsLeft
  <2> QED BY <2>1, <2>2, <2>3
<1>13. CASE ExtendBudget
  BY <1>4, <1>13, ExtendIs DEF ExtendBudget
<1>14. CASE ToolWrites
  BY <1>4, <1>14, WritesIs DEF ToolWrites
<1>15. CASE GroupSolved
  <2>1. place = "group" /\ place' = "check" /\ number' = number /\ mainStop' = mainStop
    BY <1>15 DEF GroupSolved
  <2>2. mem'.fixing = 0 /\ mem'.spent = mem.spent + (session.used - session.seen)
    <3>1. number \in Members /\ Observed \in Saved /\ Observed.fixing = mem.fixing
          /\ Observed.spent = mem.spent + (session.used - session.seen)
      BY <2>1, ObservedIs DEF SessionFits
    <3>2. mem' = [Observed EXCEPT !.groups[number] = "generated"]
      BY <1>15 DEF GroupSolved
    <3> QED BY <1>6, <2>1, <3>1, <3>2, GroupChanges
  <2>3. mem'.spent <= mem.spent + (session.hard - session.seen)
    BY <1>1, <1>6, <2>1, <2>2
  <2>4. mem'.spent + Full(number) <= MainHard
    BY <1>1, <1>2, <1>6, <2>1, <2>2, <2>3
  <2> QED BY <1>6, <1>8, <2>1, <2>2, <2>4
<1>16. CASE GroupChecked
  <2>1. mem'.fixing = mem.fixing /\ mem'.spent = mem.spent
    BY <1>1, <1>16, GroupChanges DEF GroupChecked, SessionFits
  <2> QED BY <1>6, <1>7, <1>16, <2>1 DEF GroupChecked
<1>17. CASE FullCheck \/ RepairStarts \/ RepairSolved \/ Recheck \/ FinishWeave
  BY <1>3, <1>17 DEF FullCheck, RepairStarts, RepairSolved, Recheck, FinishWeave
<1>18. ASSUME NEW left \in BOOLEAN, EndInError(left) PROVE RestIsLeft'
  BY <1>3, <1>18 DEF EndInError
<1>19. CASE WeaveDies
  BY <1>3, <1>19 DEF WeaveDies
<1>20. CASE Continue
  BY <1>1, <1>5, <1>20 DEF Continue
<1>21. CASE StragglerWrites \/ WeaveLate \/ UNCHANGED weaveVars
  BY <1>4, <1>21 DEF StragglerWrites, WeaveLate, weaveVars
<1> QED
  BY <1>10, <1>11, <1>12, <1>13, <1>14, <1>15, <1>16, <1>17, <1>18, <1>19, <1>20, <1>21
  DEF WeaveNext, WeaveStep, AgentLeft, WeaveFails

(* A first process starts with nothing paid, saved or reported.              *)
LEMMA WeaveStartsSound == WeaveInit => WeaveInv
<1> SUFFICES ASSUME WeaveInit PROVE WeaveInv
  OBVIOUS
<1>1. /\ mem = [groups |-> [g \in Members |-> "none"], rounds |-> <<>>, spent |-> 0, fixing |-> 0]
      /\ disk = mem /\ place = "main" /\ number = 1 /\ session = Blank
      /\ progressed = FALSE /\ workTree = 1 /\ report = NoReport
      /\ outcome = "none" /\ straggler = FALSE /\ bill = 0 /\ overrun = 0
      /\ redone = FALSE /\ mainStop = "none" /\ restarts = 0
  BY DEF WeaveInit
<1>2. mem \in Saved /\ mem.spent = 0 /\ mem.fixing = 0 /\ mem.rounds = <<>> /\ SeenIn(mem) = 0
  <2> DEFINE none == [g \in Members |-> "none"]
  <2>1. none \in [Members -> {"none", "generated", "checked"}] /\ <<>> \in Seq(Nat)
    OBVIOUS
  <2>2. mem = [groups |-> none, rounds |-> <<>>, spent |-> 0, fixing |-> 0]
    BY <1>1
  <2> HIDE DEF none
  <2> QED BY <2>1, <2>2 DEF Saved, SeenIn
<1>3. report \in [rows : [Cmd -> Outcomes \cup {Unrun}], version : Nat]
  <2> DEFINE none == [c \in Cmd |-> Unrun]
  <2>1. none \in [Cmd -> Outcomes \cup {Unrun}]
    OBVIOUS
  <2>2. report = [rows |-> none, version |-> 0]
    BY <1>1 DEF NoReport
  <2> HIDE DEF none
  <2> QED BY <2>1, <2>2
<1>4. WeaveTypes
  <2>1. number \in Nat \ {0} /\ workTree \in Nat /\ bill \in Nat /\ overrun \in Nat /\ restarts \in Nat
    BY <1>1
  <2>2. progressed \in BOOLEAN /\ straggler \in BOOLEAN /\ redone \in BOOLEAN
    BY <1>1
  <2> QED BY <1>1, <1>2, <1>3, <2>1, <2>2, BlankIs DEF WeaveTypes
<1>5. SessionFits
  BY <1>1, BlankIs, WeaveConstants DEF SessionFits, InSession
<1>6. PaidIsSeen
  <2>1. SeenIn(disk) = 0 /\ session.used - session.seen = 0 /\ ~InSession
    BY <1>1, <1>2, BlankIs DEF InSession
  <2> QED BY <1>1, <1>2, <2>1, WeaveConstants DEF PaidIsSeen
<1>7. PaidFits
  <2>1. session.hard - session.used = 0
    BY <1>1, BlankIs
  <2>2. AtLeast0(session.hard - session.used) = 0
    BY <2>1, AtLeastIs
  <2>3. Len(mem.rounds) = 0 /\ Len(disk.rounds) = 0
    BY <1>1, <1>2
  <2> QED BY <1>1, <2>2, <2>3, WeaveConstants DEF PaidFits
<1>8. SavedStaysSaved
  BY <1>1 DEF SavedStaysSaved
<1>9. CheckIsCurrent
  BY <1>1 DEF CheckIsCurrent
<1>10. RestIsLeft
  <2>1. Len(Weights) - (number - 1) = Len(Weights)
    BY <1>1, WeaveConstants
  <2>2. LeastTokens * Len(Weights) \in Nat
    BY WeaveConstants
  <2> QED BY <1>1, <1>2, <2>1, <2>2, MainHardFits DEF RestIsLeft
<1> QED BY <1>4, <1>5, <1>6, <1>7, <1>8, <1>9, <1>10 DEF WeaveInv

(* What weave promises follows from its invariant.                           *)
LEMMA WeaveInvIsEnough == WeaveInv => WeaveIsSound
<1> SUFFICES ASSUME WeaveInv PROVE WeaveIsSound
  OBVIOUS
<1>1. WeaveTypes /\ SessionFits /\ PaidFits /\ SavedStaysSaved /\ CheckIsCurrent /\ RestIsLeft
  BY DEF WeaveInv
<1>2. DeliveryIsChecked
  <2> SUFFICES ASSUME outcome = "completed" PROVE DeliveryIsChecked
    BY DEF DeliveryIsChecked
  <2>1. report.version = workTree /\ ~straggler /\ AllPassed(report)
    BY <1>1 DEF CheckIsCurrent
  <2>2. ASSUME NEW c \in Cmd PROVE report.rows[c].ok /\ report.rows[c].clean
    <3>1. report.rows[c].ok /\ report.rows[c] \in Outcomes \cup {Unrun}
      BY <1>1, <2>1 DEF AllPassed, WeaveTypes
    <3>2. report.rows[c] # Unrun
      BY <3>1 DEF Unrun
    <3>3. PICK r \in Row : report.rows[c] =
             [ok |-> RowOk(r), ran |-> r.ran, target |-> RepairTarget(r),
              clean |-> r.ran /\ r.code = "zero" /\ r.whole]
      BY <3>1, <3>2 DEF Outcomes
    <3>4. RowOk(r)
      BY <3>1, <3>3
    <3>5. r.ran /\ r.code = "zero" /\ r.whole
      BY <3>4 DEF RowOk
    <3>6. report.rows[c].clean = (r.ran /\ r.code = "zero" /\ r.whole)
      BY <3>3
    <3> QED BY <3>1, <3>5, <3>6
  <2> QED BY <2>1, <2>2 DEF DeliveryIsChecked
<1>3. WeaveStaysInBudget
  <2> DEFINE paid == restarts * WeaveCost
             rest == AtLeast0(session.hard - session.used)
  <2>1. /\ WeaveCost \in Nat /\ restarts \in Nat /\ bill \in Nat /\ overrun \in Nat
        /\ WeaveTotal \in Nat /\ session.hard \in Nat /\ session.used \in Nat
    BY <1>1, WeaveConstants DEF WeaveTypes, Sessions
  <2>2. paid \in Nat /\ (restarts + 1) * WeaveCost = paid + WeaveCost
        /\ (restarts + 0) * WeaveCost = paid
    BY <2>1
  <2>3. rest \in Nat
    <3>1. session.hard - session.used \in Int
      BY <2>1
    <3> QED BY <3>1, AtLeastIs
  <2> HIDE DEF paid, rest
  <2>4. bill + rest <= WeaveTotal + overrun + paid
    BY <1>1 DEF PaidFits, paid, rest
  <2>5. bill <= WeaveTotal + overrun + (restarts + 0) * WeaveCost
        /\ bill <= WeaveTotal + overrun + (restarts + 1) * WeaveCost
    BY <2>1, <2>2, <2>3, <2>4
  <2>6. session.soft <= session.hard /\ Len(mem.rounds) <= MaxRounds
    BY <1>1 DEF SessionFits, PaidFits
  <2> QED BY <2>5, <2>6 DEF WeaveStaysInBudget
<1>4. NoGroupStarves
  <2>1. LeastTokens * Len(Weights) \in Nat /\ MainHard \in Nat /\ overrun \in Nat /\ restarts \in Nat
    BY <1>1, WeaveConstants, MainHardFits DEF WeaveTypes
  <2> QED BY <1>1, <2>1 DEF RestIsLeft, NoGroupStarves
<1> QED BY <1>1, <1>2, <1>3, <1>4 DEF WeaveIsSound, SavedStaysSaved

(* Every step of weave keeps its invariant.                                  *)
LEMMA WeaveInvKept == WeaveInv /\ [WeaveNext]_weaveVars => WeaveInv'
<1> SUFFICES ASSUME WeaveInv, [WeaveNext]_weaveVars PROVE WeaveInv'
  OBVIOUS
<1>1. /\ WeaveTypes /\ SessionFits /\ PaidIsSeen /\ PaidFits /\ SavedStaysSaved
      /\ CheckIsCurrent /\ RestIsLeft
  BY DEF WeaveInv
<1> QED
  BY <1>1, WeaveTypesKept, SessionKept, PaidSeenKept, PaidFitsKept, SavedKept, CheckKept,
     RestKept
  DEF WeaveInv

(* For every weighting, budget and number of commands, whatever agents,      *)
(* tools, stragglers, deaths and continuations do: a run that reports        *)
(* success has had every command run to a clean end on the tree as it is,    *)
(* all its processes together stay within the budget but for one request of  *)
(* a session and one of each process that died, no saved group is solved     *)
(* again, and none is starved by the ones before it (execute_groups,         *)
(* _verify_and_repair, _allocation).                                         *)
THEOREM DeliveriesAreEarned == WeaveSpec => []WeaveIsSound
BY WeaveStartsSound, WeaveInvKept, WeaveInvIsEnough, PTL DEF WeaveSpec

-----------------------------------------------------------------------------
(* Reconstruct: early stops and the final program *)

(* The score of a program is a natural number that the number of examples   *)
(* bounds.                                                                  *)
LEMMA ScoresAreBounded ==
    ASSUME known \subseteq In
    PROVE  \E top \in Nat : \A p \in Program : ScoreOf(p) \in Nat /\ ScoreOf(p) <= top
<1> DEFINE n == Cardinality(known)
<1>1. IsFiniteSet(known) /\ n \in Nat
  BY ReconstructionAssumption, FS_Subset, FS_CardinalityType
<1>2. ASSUME NEW p \in Program PROVE ScoreOf(p) \in Nat /\ ScoreOf(p) <= 10 * n
  <2> DEFINE right == {i \in known : Matches(p, i)}
             r == Cardinality(right)
             loss == n * Penalty[p]
  <2>1. r \in Nat /\ r <= n
    <3>1. right \in SUBSET known
      OBVIOUS
    <3> HIDE DEF right
    <3> QED BY <1>1, <3>1, FS_Subset, FS_CardinalityType
  <2>2. loss \in Nat
    <3>1. Penalty[p] \in Nat
      BY ReconstructionAssumption
    <3> QED BY <1>1, <3>1, ProductIsNat
  <2>3. ScoreOf(p) = IF 10 * r - loss < 0 THEN 0 ELSE 10 * r - loss
    BY DEF ScoreOf
  <2> HIDE DEF r, loss
  <2> QED BY <1>1, <2>1, <2>2, <2>3
<1> HIDE DEF n
<1>3. 10 * n \in Nat
  BY <1>1
<1> QED BY <1>2, <1>3

(* What Max picks from some positions of a sequence is one of them.         *)
LEMMA MaxIsOneOf ==
    ASSUME NEW k \in Nat, NEW S, S \subseteq 1..k, S # {}
    PROVE  Max(S) \in S
<1> DEFINE T == {k - i : i \in S}
<1>1. T \subseteq Nat /\ T # {}
  <2>1. \A i \in S : k - i \in Nat
    OBVIOUS
  <2> QED BY <2>1
<1> HIDE DEF T
<1>2. PICK t \in T : \A m \in T : t <= m
  BY <1>1, LeastNumber
<1>3. PICK i \in S : t = k - i
  BY DEF T
<1>4. ASSUME NEW j \in S PROVE i >= j
  <2>1. k - j \in T
    BY DEF T
  <2> QED BY <1>2, <1>3, <2>1
<1> QED BY <1>4 DEF Max

(* The program selected is one of those archived, and none of them scores   *)
(* better.                                                                  *)
LEMMA BestIsBest ==
    ASSUME known \subseteq In, NEW all \in Seq(Program), all # <<>>
    PROVE  /\ Best(all) \in ToSet(all) /\ Best(all) \in Program
           /\ \A p \in ToSet(all) : ScoreOf(p) <= ScoreOf(Best(all))
<1>1. PICK top \in Nat : \A p \in Program : ScoreOf(p) \in Nat /\ ScoreOf(p) <= top
  BY ScoresAreBounded
<1>2. /\ Len(all) \in Nat /\ Len(all) > 0 /\ DOMAIN all = 1..Len(all)
      /\ \A i \in DOMAIN all : all[i] \in Program
  OBVIOUS
<1> DEFINE T == {top - ScoreOf(all[i]) : i \in DOMAIN all}
           S == {i \in DOMAIN all :
                   \A j \in DOMAIN all : ScoreOf(all[i]) >= ScoreOf(all[j])}
<1>3. T \subseteq Nat /\ T # {}
  <2>1. \A i \in DOMAIN all : ScoreOf(all[i]) \in Nat /\ ScoreOf(all[i]) <= top
    BY <1>1, <1>2
  <2>2. \A i \in DOMAIN all : top - ScoreOf(all[i]) \in Nat
    BY <2>1
  <2>3. 1 \in DOMAIN all
    BY <1>2
  <2> QED BY <2>2, <2>3
<1>4. S # {}
  <2>1. PICK t \in T : \A m \in T : t <= m
    <3> HIDE DEF T
    <3> QED BY <1>3, LeastNumber
  <2>2. PICK i \in DOMAIN all : t = top - ScoreOf(all[i])
    OBVIOUS
  <2>3. ASSUME NEW j \in DOMAIN all PROVE ScoreOf(all[i]) >= ScoreOf(all[j])
    <3>1. top - ScoreOf(all[i]) <= top - ScoreOf(all[j])
      BY <2>1, <2>2
    <3>2. ScoreOf(all[i]) \in Nat /\ ScoreOf(all[j]) \in Nat
      BY <1>1, <1>2
    <3> QED BY <3>1, <3>2
  <2> QED BY <2>3
<1>5. S \subseteq 1..Len(all)
  BY <1>2
<1> DEFINE b == Max(S)
<1>6. b \in S
  <2> HIDE DEF S
  <2> QED BY <1>2, <1>4, <1>5, MaxIsOneOf
<1>7. Best(all) = all[b]
  BY DEF Best
<1> HIDE DEF b
<1>8. ToSet(all) = {all[i] : i \in DOMAIN all}
  BY DEF ToSet
<1>9. ASSUME NEW p \in ToSet(all) PROVE ScoreOf(p) <= ScoreOf(Best(all))
  <2>1. PICK j \in DOMAIN all : p = all[j]
    BY <1>8
  <2>2. ScoreOf(all[b]) >= ScoreOf(all[j])
    BY <1>6
  <2>3. ScoreOf(all[b]) \in Nat /\ ScoreOf(all[j]) \in Nat
    BY <1>1, <1>2, <1>6
  <2> QED BY <1>7, <2>1, <2>2, <2>3
<1> QED BY <1>2, <1>6, <1>7, <1>8, <1>9

(* Nothing is archived and nothing is counted at first.                     *)
LEMMA RecStarts == RecInit => RecInv
<1> SUFFICES ASSUME RecInit PROVE RecInv
  OBVIOUS
<1>1. InitialBatch \in Nat \ {0} /\ BatchStep \in Nat \ {0} /\ EarlyStop \in Nat \ {0}
  BY ReconstructionAssumption
<1>2. RecTypes
  <2>1. asking \in Asked /\ nextBatch \in Nat \ {0}
    BY <1>1 DEF RecInit, Asked
  <2>2. passes \in Seq(PassedRound) /\ archived \in Seq(Program)
    BY DEF RecInit
  <2> QED BY <1>1, <2>1, <2>2 DEF RecInit, RecTypes, Valid
<1>3. CountedUpTo(Len(passes))
  <2>1. Cardinality({}) = consecutive
    BY FS_EmptySet DEF RecInit
  <2> QED BY <2>1 DEF CountedUpTo, Growing
<1>4. PassesCount /\ EarlyStopIsEarned /\ FinalIsBest
  BY <1>1, <1>3 DEF RecInit, PassesCount, EarlyStopIsEarned, FinalIsBest
<1> QED BY <1>2, <1>4 DEF RecInv

(* A batch grows by at least one input.                                     *)
LEMMA BatchIsOneMore ==
    ASSUME RecInv, NEW batch \in SUBSET In, Proposed(batch)
    PROVE  known' \subseteq Valid /\ known \subseteq known' /\ known' # known
<1>1. batch # {}
  BY FS_EmptySet DEF Proposed, AskMore, AcceptProposal
<1>2. batch \cap known = {} /\ batch \subseteq Valid /\ known' = known \cup batch
  BY DEF Proposed, AcceptProposal
<1> QED BY <1>1, <1>2 DEF RecInv, RecTypes

(* The types are kept.                                                      *)
LEMMA RecTypesKept == RecInv /\ RecStep => RecTypes'
<1> SUFFICES ASSUME RecInv, RecStep PROVE RecTypes'
  OBVIOUS
<1> USE DEF RecTypes
<1>1. RecTypes
  BY DEF RecInv
<1>2. BatchStep \in Nat \ {0} /\ EarlyStop \in Nat \ {0} /\ IsFiniteSet(In)
  BY ReconstructionAssumption
<1>3. ASSUME NEW drawn \in SUBSET In, DrawRandom(drawn) PROVE RecTypes'
  <2>1. Cardinality(drawn) \in Nat
    BY <1>2, FS_Subset, FS_CardinalityType
  <2>2. asking' \in Asked
    <3>1. asking \in Asked /\ asking.n - Cardinality(drawn) \in Int
      BY <1>1, <2>1 DEF Asked
    <3>2. asking' = [asking EXCEPT !.n = @ - Cardinality(drawn), !.drawn = TRUE]
      BY <1>3 DEF DrawRandom
    <3> QED BY ONLY <3>1, <3>2 DEF Asked
  <2> QED BY <1>1, <1>3, <2>2 DEF DrawRandom
<1>12. NoBatchAsked \in Asked
  BY DEF NoBatchAsked, Asked
<1>4. ASSUME NEW batch \in SUBSET In, Proposed(batch) PROVE RecTypes'
  <2>1. known' \subseteq Valid
    BY <1>4, BatchIsOneMore
  <2>2. nextBatch' \in Nat \ {0}
    BY <1>1, <1>2, <1>4 DEF Proposed, Grow
  <2> QED BY <1>1, <1>4, <1>12, <2>1, <2>2 DEF Proposed, BatchFilled
<1>5. CASE NothingLeftToAsk
  <2>1. nextBatch' \in Nat \ {0}
    BY <1>1, <1>2, <1>5 DEF NothingLeftToAsk, Grow
  <2> QED BY <1>1, <1>5, <1>12, <2>1 DEF NothingLeftToAsk, BatchFilled
<1>6. CASE Rejected
  <2>1. asking' \in Asked
    BY <1>1, <1>6, <1>12 DEF Rejected, Asked
  <2>2. step' \in {"ask", "select"}
    BY <1>1, <1>6 DEF Rejected, AskMore
  <2> QED BY <1>1, <1>6, <2>1, <2>2 DEF Rejected
<1>7. CASE OutOfBudget
  BY <1>1, <1>7, <1>12 DEF OutOfBudget
<1>8. CASE LastRound \/ TooFewTokens
  BY <1>1, <1>8 DEF LastRound, TooFewTokens
<1>9. ASSUME NEW p \in Program \cup {NoProgram}, CoderWrites(p) PROVE RecTypes'
  <2>1. archived' \in Seq(Program) /\ file' \in Program \cup {NoProgram}
    BY <1>1, <1>9 DEF CoderWrites
  <2>2. passes' \in Seq(PassedRound)
    <3>1. CASE PassesAll(p)
      <4>1. [known |-> known, kind |-> Kind[p]] \in PassedRound
        BY <1>1, <3>1 DEF PassesAll, Valid, PassedRound
      <4> QED BY <1>1, <1>9, <3>1, <4>1 DEF CoderWrites
    <3>2. CASE ~PassesAll(p)
      BY <1>9, <3>2 DEF CoderWrites
    <3> QED BY <3>1, <3>2
  <2> QED BY <1>1, <1>9, <2>1, <2>2 DEF CoderWrites
<1>10. CASE JudgeRound
  <2>1. UNCHANGED <<known, nextBatch, file, archived, passes>>
    BY <1>10 DEF JudgeRound
  <2>2. step = "judge" /\ consecutive < EarlyStop
    BY <1>10 DEF RecInv, PassesCount, JudgeRound
  <2>3. /\ step' \in {"ask", "code", "select"} /\ asking' \in Asked
        /\ consecutive' \in 0..EarlyStop
    <3>1. /\ consecutive \in Nat /\ asking \in Asked
          /\ \A back \in {"counted", "granted"} :
                [n |-> nextBatch, tries |-> 0, drawn |-> FALSE, back |-> back] \in Asked
      BY <1>1 DEF Asked
    <3>2. ASSUME NEW from \in Nat, from < EarlyStop, CountPass(from)
          PROVE  /\ step' \in {"ask", "select"} /\ asking' \in Asked
                 /\ consecutive' \in 0..EarlyStop
      <4>1. consecutive' = 0 \/ consecutive' = from + 1
        BY <3>2 DEF CountPass
      <4>2. consecutive' \in 0..EarlyStop
        BY ONLY <1>2, <3>2, <4>1, from \in Nat
      <4>3. (step' = "select" /\ UNCHANGED asking) \/ AskBatch("counted")
        BY <3>2 DEF CountPass
      <4>4. AskBatch("counted") => step' = "ask" /\ asking' \in Asked
        BY <3>1 DEF AskBatch
      <4> QED BY <3>1, <4>2, <4>3, <4>4
    <3>3. CASE SendBack
      BY <1>2, <3>1, <3>3 DEF SendBack
    <3>4. CASE JudgePass
      <4>1. \/ consecutive' = 0 /\ step' = "code" /\ UNCHANGED asking
            \/ consecutive' = 0 /\ AskBatch("granted")
            \/ \E from \in {0, consecutive} : CountPass(from)
        BY <3>4 DEF JudgePass
      <4>2. ASSUME AskBatch("granted"), consecutive' = 0
            PROVE  step' = "ask" /\ asking' \in Asked /\ consecutive' \in 0..EarlyStop
        BY <1>2, <3>1, <4>2 DEF AskBatch
      <4>3. 0 \in Nat /\ 0 < EarlyStop /\ 0 \in 0..EarlyStop
        BY <1>2
      <4> QED BY <2>2, <3>1, <3>2, <4>1, <4>2, <4>3
    <3> QED BY <1>10, <3>3, <3>4 DEF JudgeRound
  <2> QED BY <1>1, <2>1, <2>3
<1>11. CASE Select
  <2>1. archived # <<>> => Best(archived) \in Program
    BY <1>1, BestIsBest DEF Valid
  <2> QED BY <1>1, <1>11, <2>1 DEF Select
<1> QED BY <1>3, <1>4, <1>5, <1>6, <1>7, <1>8, <1>9, <1>10, <1>11 DEF RecStep, RecNext

(* Passes stay counted as long as what is known only grows, and has grown   *)
(* when nothing is owed any more.                                           *)
LEMMA CountsCarryOver ==
    ASSUME NEW last \in Nat, CountedUpTo(last), known \subseteq known',
           consecutive' = consecutive, \A i \in 1..last : passes'[i] = passes[i],
           Owed /\ ~Owed' => known' # known
    PROVE  CountedUpTo(last)'
<1>1. PICK rounds \in SUBSET (1..last) :
         Cardinality(rounds) = consecutive /\ Growing(rounds) /\ \A i \in rounds : Behind(i)
  BY DEF CountedUpTo
<1>2. Growing(rounds)'
  BY <1>1 DEF Growing
<1>3. \A i \in rounds : Behind(i)'
  BY <1>1 DEF Behind
<1> QED BY <1>1, <1>2, <1>3 DEF CountedUpTo

(* With nothing counted there is nothing to account for.                    *)
LEMMA NothingCounted ==
    ASSUME consecutive' = 0, NEW last \in Nat
    PROVE  CountedUpTo(last)'
<1>1. Cardinality({}) = 0
  BY FS_EmptySet
<1> QED BY <1>1 DEF CountedUpTo, Growing

(* One more pass is counted: the one under judgement comes after all those  *)
(* counted so far.                                                          *)
LEMMA OneMoreCounted ==
    ASSUME RecTypes, passes # <<>>, passes[Len(passes)].known = known, step # "ask",
           CountedUpTo(Len(passes) - 1)
    PROVE  \E rounds \in SUBSET (1..Len(passes)) :
              /\ Cardinality(rounds) = consecutive + 1 /\ Len(passes) \in rounds
              /\ Growing(rounds) /\ \A i \in rounds : passes[i].known \subseteq known
<1> DEFINE n == Len(passes)
<1>1. n \in Nat /\ n > 0
  BY DEF RecTypes
<1> HIDE DEF n
<1>2. PICK rounds \in SUBSET (1..n - 1) :
         Cardinality(rounds) = consecutive /\ Growing(rounds) /\ \A i \in rounds : Behind(i)
  BY DEF CountedUpTo, n
<1> DEFINE more == rounds \cup {n}
<1>3. n \notin rounds /\ more \in SUBSET (1..n) /\ \A i \in rounds : i < n /\ i \in Nat
  BY <1>1, <1>2
<1>4. Cardinality(more) = consecutive + 1
  <2>1. IsFiniteSet(1..n - 1)
    BY <1>1, FS_Interval
  <2>2. IsFiniteSet(rounds)
    BY <2>1, FS_Subset
  <2> QED BY <1>2, <1>3, <2>2, FS_AddElement
<1>5. \A i \in rounds : passes[i].known \subseteq known /\ passes[i].known # known
  BY <1>2 DEF Behind, Owed
<1>6. passes[n].known = known
  BY DEF n
<1>7. Growing(more)
  <2> SUFFICES ASSUME NEW i \in more, NEW j \in more, i < j
               PROVE  passes[i].known \subseteq passes[j].known
                      /\ passes[i].known # passes[j].known
    BY DEF Growing
  <2>1. i \in rounds
    BY <1>1, <1>3
  <2>2. CASE j \in rounds
    BY <1>2, <2>1, <2>2 DEF Growing
  <2>3. CASE j = n
    BY <1>5, <1>6, <2>1, <2>3
  <2> QED BY <2>2, <2>3
<1>8. \A i \in more : passes[i].known \subseteq known
  BY <1>5, <1>6
<1>9. n \in more
  OBVIOUS
<1> HIDE DEF more
<1> QED BY <1>3, <1>4, <1>7, <1>8, <1>9 DEF n

(* Filling a batch keeps what was counted, and once it is filled more is    *)
(* known than at any pass counted.                                          *)
LEMMA AskingKeepsCounts ==
    ASSUME RecInv, NEW drawn \in SUBSET In, NEW batch \in SUBSET In,
           \/ DrawRandom(drawn) \/ Proposed(batch) \/ NothingLeftToAsk
           \/ Rejected \/ OutOfBudget \/ LastRound \/ TooFewTokens
    PROVE  PassesCount' /\ EarlyStopIsEarned'
<1>1. RecTypes /\ PassesCount
  BY DEF RecInv
<1>2. passes' = passes /\ file' = file
  BY DEF DrawRandom, Proposed, NothingLeftToAsk, Rejected, OutOfBudget, LastRound, TooFewTokens
<1>3. \/ stop' = stop /\ stop = "running"
      \/ step' = "select" /\ stop' \in {"proposer_failed", "budget_exhausted", "max_iterations"}
  BY <1>1
     DEF DrawRandom, Proposed, NothingLeftToAsk, Rejected, OutOfBudget, LastRound,
         TooFewTokens, AskMore, PassesCount
<1>4. EarlyStopIsEarned'
  BY <1>3 DEF EarlyStopIsEarned
<1>5. CASE step' = "select"
  BY <1>4, <1>5 DEF PassesCount
<1>6. CASE step' # "select"
  <2>1. step = "ask" /\ step' \in {"ask", "code"} /\ consecutive' = consecutive
        /\ stop' = "running"
    BY <1>3, <1>6
       DEF DrawRandom, Proposed, NothingLeftToAsk, Rejected, OutOfBudget, LastRound,
           TooFewTokens, AskMore, BatchFilled
  <2>2. known \subseteq known' /\ (Owed /\ ~Owed' => known' # known)
    <3>1. CASE DrawRandom(drawn)
      <4>1. known' = known \cup drawn /\ drawn \subseteq Valid \ known
        BY <3>1 DEF DrawRandom
      <4>2. CASE drawn = {}
        <5>1. Cardinality(drawn) = 0
          BY <4>2, FS_EmptySet
        <5>2. asking'.n = asking.n /\ step' = step
          BY <1>1, <3>1, <5>1 DEF DrawRandom, RecTypes, Asked
        <5> QED BY <4>1, <5>2 DEF Owed
      <4>3. CASE drawn # {}
        BY <4>1, <4>3
      <4> QED BY <4>2, <4>3
    <3>2. CASE Proposed(batch)
      BY <3>2, BatchIsOneMore
    <3>3. CASE NothingLeftToAsk
      BY <1>1, <3>3 DEF NothingLeftToAsk, Owed, RecTypes, Asked
    <3>4. CASE Rejected
      BY <1>1, <1>6, <3>4 DEF Rejected, AskMore, Owed, RecTypes, Asked
    <3> QED BY <1>6, <2>1, <3>1, <3>2, <3>3, <3>4 DEF OutOfBudget, LastRound, TooFewTokens
  <2>3. CountedUpTo(Len(passes)) /\ Len(passes) \in Nat /\ consecutive < EarlyStop
    BY <1>1, <2>1 DEF PassesCount, RecTypes
  <2>4. CountedUpTo(Len(passes))'
    <3> DEFINE n == Len(passes)
    <3>1. n' = n
      BY <1>2
    <3>2. CountedUpTo(n) /\ n \in Nat
      BY <2>3
    <3> HIDE DEF n
    <3>3. ASSUME NEW last \in Nat, CountedUpTo(last) PROVE CountedUpTo(last)'
      BY <1>2, <2>1, <2>2, <3>3, CountsCarryOver
    <3>4. \A last \in Nat : CountedUpTo(last) => CountedUpTo(last)'
      BY <3>3
    <3> QED BY <3>1, <3>2, <3>4 DEF n, CountedUpTo
  <2> QED BY <1>4, <2>1, <2>3, <2>4 DEF PassesCount
<1> QED BY <1>5, <1>6

(* A candidate that passes comes after the passes counted.                  *)
LEMMA CoderKeepsCounts ==
    ASSUME RecInv, NEW p \in Program \cup {NoProgram}, CoderWrites(p)
    PROVE  PassesCount' /\ EarlyStopIsEarned'
<1>1. RecTypes /\ PassesCount
  BY DEF RecInv
<1>2. /\ step = "code" /\ step' = "judge" /\ stop = "running" /\ stop' = stop
      /\ UNCHANGED <<known, consecutive>> /\ consecutive < EarlyStop
      /\ file' = p /\ CountedUpTo(Len(passes))
  BY <1>1 DEF CoderWrites, PassesCount
<1>3. EarlyStopIsEarned'
  BY <1>2 DEF EarlyStopIsEarned
<1>4. ASSUME PassesAll(file)' PROVE UnderJudgement' /\ CountedUpTo(Len(passes) - 1)'
  <2> DEFINE new == [known |-> known, kind |-> Kind[p]]
             n == Len(passes)
  <2>1. PassesAll(p)
    BY <1>2, <1>4 DEF PassesAll
  <2>2. passes' = Append(passes, new)
    BY <2>1 DEF CoderWrites
  <2>3. passes \in Seq(PassedRound) /\ n \in Nat
    BY <1>1 DEF RecTypes
  <2>4. new.known = known /\ new.kind = Kind[p]
    OBVIOUS
  <2> HIDE DEF new
  <2>5. /\ passes' # <<>> /\ Len(passes') = n + 1 /\ passes'[n + 1] = new
        /\ \A i \in 1..n : passes'[i] = passes[i]
    BY <2>2, <2>3
  <2>6. UnderJudgement'
    BY <1>2, <2>4, <2>5 DEF UnderJudgement
  <2>7. (Len(passes) - 1)' = n
    BY <2>3, <2>5
  <2>8. CountedUpTo(n)
    BY <1>2
  <2> HIDE DEF n
  <2>9. ~Owed
    BY <1>2 DEF Owed
  <2>10. ASSUME NEW last \in Nat, CountedUpTo(last), last = n PROVE CountedUpTo(last)'
    BY <1>2, <2>5, <2>9, <2>10, CountsCarryOver
  <2>11. \A last \in Nat : CountedUpTo(last) /\ last = n => CountedUpTo(last)'
    BY <2>10
  <2> QED BY <2>3, <2>6, <2>7, <2>8, <2>11 DEF CountedUpTo
<1> QED BY <1>2, <1>3, <1>4 DEF PassesCount

(* A pass that is counted ends the run as the last of enough, or is one     *)
(* more of those counted, with a batch owed.                                *)
LEMMA PassCountKeepsCounts ==
    ASSUME RecInv, step = "judge", PassesAll(file), NEW from \in {0, consecutive},
           CountPass(from), "memo" \in Kind[file] => from = 0,
           UNCHANGED <<known, nextBatch, file, passes>>
    PROVE  PassesCount' /\ EarlyStopIsEarned'
<1>1. RecTypes /\ UnderJudgement /\ CountedUpTo(Len(passes) - 1) /\ stop = "running"
      /\ consecutive < EarlyStop
  BY DEF RecInv, PassesCount
<1>2. /\ EarlyStop \in Nat \ {0} /\ consecutive \in Nat /\ nextBatch \in Nat \ {0}
      /\ passes \in Seq(PassedRound) /\ Len(passes) \in Nat /\ from \in Nat /\ from < EarlyStop
  BY <1>1, ReconstructionAssumption DEF RecTypes
<1>3. PICK all \in SUBSET (1..Len(passes)) :
         /\ Cardinality(all) = consecutive + 1 /\ Len(passes) \in all
         /\ Growing(all) /\ \A i \in all : passes[i].known \subseteq known
  BY <1>1, OneMoreCounted DEF UnderJudgement
<1>4. \E rounds \in SUBSET (1..Len(passes)) :
         /\ Cardinality(rounds) = from + 1 /\ Len(passes) \in rounds
         /\ Growing(rounds) /\ \A i \in rounds : passes[i].known \subseteq known
  <2>1. CASE from = consecutive
    BY <1>3, <2>1
  <2>2. CASE from = 0
    <3> DEFINE one == {Len(passes)}
    <3>1. Cardinality(one) = 1
      BY FS_Singleton
    <3>2. one \in SUBSET (1..Len(passes))
      BY <1>3
    <3>3. Growing(one)
      BY <1>2 DEF Growing
    <3>4. \A i \in one : passes[i].known \subseteq known
      BY <1>3
    <3> QED BY <2>2, <3>1, <3>2, <3>3, <3>4
  <2> QED BY <2>1, <2>2
<1>5. PICK rounds \in SUBSET (1..Len(passes)) :
         /\ Cardinality(rounds) = from + 1 /\ Len(passes) \in rounds
         /\ Growing(rounds) /\ \A i \in rounds : passes[i].known \subseteq known
  BY <1>4
<1>6. consecutive' = 0 \/ consecutive' = from + 1
  BY DEF CountPass
<1>7. CASE consecutive' >= EarlyStop
  <2>1. stop' = "early_stop" /\ step' = "select"
    BY <1>7 DEF CountPass
  <2>2. from + 1 = EarlyStop
    BY <1>2, <1>6, <1>7
  <2>3. EarlyStop > 1 => "memo" \notin Kind[file]
    BY <1>2, <2>2
  <2>4. Last(passes).kind = Kind[file]
    BY <1>1 DEF UnderJudgement, Last
  <2>5. \E some \in SUBSET DOMAIN passes :
          /\ Cardinality(some) = EarlyStop /\ Len(passes) \in some
          /\ \A i, j \in some : i < j => passes[i].known \subseteq passes[j].known
                                         /\ passes[i].known # passes[j].known
    <3>1. DOMAIN passes = 1..Len(passes)
      BY <1>2
    <3> QED BY <1>5, <2>2, <3>1 DEF Growing
  <2>6. EarlyStopIsEarned'
    BY <2>3, <2>4, <2>5 DEF EarlyStopIsEarned
  <2> QED BY <2>1, <2>6 DEF PassesCount
<1>8. CASE ~(consecutive' >= EarlyStop)
  <2>1. AskBatch("counted")
    BY <1>8 DEF CountPass
  <2>2. /\ step' = "ask" /\ stop' = "running" /\ Owed' /\ consecutive' < EarlyStop
    BY <1>1, <1>2, <1>6, <1>8, <2>1 DEF AskBatch, Owed
  <2>3. CountedUpTo(Len(passes))'
    <3>1. CASE consecutive' = 0
      <4>1. Cardinality({}) = 0
        BY FS_EmptySet
      <4> QED BY <3>1, <4>1 DEF CountedUpTo, Growing
    <3>2. CASE consecutive' = from + 1
      <4>1. Growing(rounds)' /\ \A i \in rounds : Behind(i)'
        BY <1>5, <2>2 DEF Growing, Behind
      <4> QED BY <1>5, <3>2, <4>1 DEF CountedUpTo
    <3> QED BY <1>6, <3>1, <3>2
  <2> QED BY <2>2, <2>3 DEF PassesCount, EarlyStopIsEarned
<1> QED BY <1>7, <1>8

(* The judgement of a candidate keeps what was counted, or drops it all.    *)
LEMMA JudgeKeepsCounts ==
    ASSUME RecInv, JudgeRound
    PROVE  PassesCount' /\ EarlyStopIsEarned'
<1>1. RecTypes /\ PassesCount
  BY DEF RecInv
<1>2. /\ step = "judge" /\ stop = "running" /\ UNCHANGED <<known, nextBatch, file, passes>>
      /\ EarlyStop \in Nat \ {0}
  BY <1>1, ReconstructionAssumption DEF JudgeRound, PassesCount
<1>3. ASSUME consecutive' = 0, stop' = stop, step' \in {"code", "ask"}
      PROVE  PassesCount' /\ EarlyStopIsEarned'
  <2>1. Cardinality({}) = 0
    BY FS_EmptySet
  <2>2. CountedUpTo(Len(passes))'
    BY <1>3, <2>1 DEF CountedUpTo, Growing
  <2> QED BY <1>2, <1>3, <2>2 DEF PassesCount, EarlyStopIsEarned
<1>4. CASE PassesAll(file)
  <2>1. JudgePass
    BY <1>4 DEF JudgeRound
  <2>2. \/ consecutive' = 0 /\ step' = "code" /\ UNCHANGED stop
        \/ consecutive' = 0 /\ AskBatch("granted")
        \/ \E from \in {0, consecutive} :
              CountPass(from) /\ ("memo" \in Kind[file] => from = 0)
    BY <2>1 DEF JudgePass, Memorises
  <2>3. AskBatch("granted") => step' = "ask" /\ UNCHANGED stop
    BY DEF AskBatch
  <2> QED BY <1>2, <1>3, <1>4, <2>2, <2>3, PassCountKeepsCounts
<1>5. CASE ~PassesAll(file)
  BY <1>3, <1>5 DEF JudgeRound, SendBack
<1> QED BY <1>4, <1>5

(* The final program is picked from those archived.                         *)
LEMMA SelectIsBest == RecInv /\ RecStep => FinalIsBest'
<1> SUFFICES ASSUME RecInv, RecStep, step' = "done", archived' # <<>> PROVE FinalIsBest'
  BY DEF FinalIsBest
<1>1. RecTypes
  BY DEF RecInv
<1>2. CASE Select
  <2>1. /\ archived' = archived /\ known' = known /\ file' = Best(archived)
        /\ archived \in Seq(Program) /\ known \subseteq In
    BY <1>1, <1>2 DEF Select, RecTypes, Valid
  <2>2. /\ Best(archived) \in ToSet(archived)
        /\ \A p \in ToSet(archived) : ScoreOf(p) <= ScoreOf(Best(archived))
    BY <2>1, BestIsBest
  <2> QED BY <2>1, <2>2 DEF FinalIsBest, ScoreOf, Matches, ToSet
<1>3. CASE JudgeRound
  <2>1. SendBack \/ step' = "code" \/ AskBatch("granted")
        \/ \E from \in {0, consecutive} : CountPass(from)
    BY <1>3 DEF JudgeRound, JudgePass
  <2>2. \A from : CountPass(from) => step' = "select" \/ AskBatch("counted")
    BY DEF CountPass
  <2> QED BY <2>1, <2>2 DEF SendBack, AskBatch
<1>4. CASE ~Select /\ ~JudgeRound
  <2>1. step' # "done"
    <3>1. ASSUME NEW drawn \in SUBSET In, DrawRandom(drawn) PROVE step' # "done"
      BY <3>1 DEF DrawRandom
    <3>2. ASSUME NEW batch \in SUBSET In, Proposed(batch) PROVE step' # "done"
      BY <3>2 DEF Proposed, BatchFilled
    <3>3. ASSUME NEW p \in Program \cup {NoProgram}, CoderWrites(p) PROVE step' # "done"
      BY <3>3 DEF CoderWrites
    <3>4. NothingLeftToAsk \/ Rejected \/ OutOfBudget \/ LastRound \/ TooFewTokens
          => step' # "done"
      BY DEF NothingLeftToAsk, Rejected, OutOfBudget, LastRound, TooFewTokens, AskMore,
             BatchFilled
    <3> QED BY <1>4, <3>1, <3>2, <3>3, <3>4 DEF RecStep
  <2> QED BY <2>1
<1> QED BY <1>2, <1>3, <1>4

(* Every step keeps the invariant.                                          *)
LEMMA RecInvKept == RecInv /\ [RecNext]_recVars => RecInv'
<1> SUFFICES ASSUME RecInv, [RecNext]_recVars PROVE RecInv'
  OBVIOUS
<1>1. CASE RecStep
  <2>1. PassesCount' /\ EarlyStopIsEarned'
    <3>1. CASE Select
      BY <3>1 DEF Select, RecInv, PassesCount, EarlyStopIsEarned
    <3>2. {} \in SUBSET In
      OBVIOUS
    <3> QED BY <1>1, <3>1, <3>2, AskingKeepsCounts, CoderKeepsCounts, JudgeKeepsCounts
         DEF RecStep
  <2> QED BY <1>1, <2>1, RecTypesKept, SelectIsBest DEF RecInv
<1>2. CASE UNCHANGED recVars
  BY <1>2 DEF recVars, RecInv, RecTypes, PassesCount, CountedUpTo, Growing, Behind, Owed,
              UnderJudgement, PassesAll, Matches, EarlyStopIsEarned, FinalIsBest, ScoreOf
<1> QED BY <1>1, <1>2 DEF RecNext

(* Reconstruct stops early only on passes over growing evidence, leaves the *)
(* best program of the run in place, and observes no rejected input.        *)
THEOREM ReconstructionsAreEarned == RecSpec => []ReconstructionIsSound
<1>1. RecInv => ReconstructionIsSound
  BY DEF RecInv, RecTypes, ReconstructionIsSound, Valid
<1> QED BY <1>1, RecStarts, RecInvKept, PTL DEF RecSpec
=============================================================================

---------------------------- MODULE ReviewTurns ----------------------------
(***************************************************************************)
(* A team that works one turn at a time, and the review loop inside a turn. *)
(* Every driver runs its session inside one lock (_turn_gate).  The tool    *)
(* spawn_with_review blocks the lead's own turn while a coder and then a    *)
(* reviewer run, so it gives the lock away and takes it again before the    *)
(* lead goes on.  A driver still captures the changes of its worktree after *)
(* it left the gate, and a message may start an agent again at any time.    *)
(***************************************************************************)
EXTENDS Naturals, FiniteSets

CONSTANTS
    MaxChildren,     \* bound: agents the reviews may spawn
    MaxIterations,   \* max_iterations of the review
    MaxWakes,        \* bound: messages that start an ended agent again
    MaxLeadTurns     \* bound: turns of the lead

ASSUME ReviewAssumption ==
    MaxChildren \in Nat /\ MaxIterations \in Nat \ {0} /\ MaxWakes \in Nat /\ MaxLeadTurns \in Nat

Lead   == 0
Child  == 1..MaxChildren
Member == {Lead} \cup Child
Free   == MaxChildren + 1   \* nobody holds the lock

VARIABLES
    driver,     \* driver task: "none", "queued" at the gate, "working", "finishing"
    phase,      \* "new", "active", "waiting" on its own children, "done", "failed"
    result,     \* scb.result: "none", "raw" answer, "whole" with its changes
    gate,       \* member holding the lock, or Free
    turnHeld,   \* _SerializedTurn.held of the lead's turn
    review,     \* stage of spawn_with_review
    iteration,  \* iteration of the review loop
    spawned,    \* children allocated so far
    coder,      \* coder of this iteration
    reviewer,   \* reviewer of this iteration
    verdict,    \* what each child's answer says as a review
    artifact,   \* what the loop read from the coder and its reviewer
    answer,     \* what the review answered: "none", "passed", "failed"
    shutting,   \* _shutting_down
    wakes, leadTurns

reviewVars == <<driver, phase, result, gate, turnHeld, review, iteration, spawned, coder, reviewer,
                verdict, artifact, answer, shutting, wakes, leadTurns>>

kin          == <<spawned, coder, reviewer>>
reviewBounds == <<wakes, leadTurns>>

Nothing == [text |-> "none", coder |-> "new", judge |-> "new", says |-> "none"]

ReviewInit ==
    /\ driver = [a \in Member |-> IF a = Lead THEN "queued" ELSE "none"]
    /\ phase = [a \in Member |-> IF a = Lead THEN "active" ELSE "new"]
    /\ result = [a \in Member |-> "none"]
    /\ gate = Free /\ turnHeld = FALSE
    /\ review = "off" /\ iteration = 0 /\ spawned = 0 /\ coder = 0 /\ reviewer = 0
    /\ verdict = [a \in Member |-> "none"] /\ artifact = Nothing /\ answer = "none"
    /\ shutting = FALSE /\ wakes = 0 /\ leadTurns = 1

Reviewing == review \in {"coder_spawn", "coder_wait", "reviewer_spawn", "reviewer_wait", "regain"}
At(a)     == driver[a] = "working" /\ (a = Lead => ~Reviewing)
Ended(a)  == phase[a] \in {"done", "failed"}

---------------------------------------------------------------------------
(* Turns *)

Enter(a) ==
    /\ driver[a] = "queued" /\ gate = Free
    /\ gate' = a
    /\ turnHeld' = (turnHeld \/ a = Lead)
    /\ driver' = [driver EXCEPT ![a] = "working"]
    /\ UNCHANGED <<phase, result, review, iteration, verdict, artifact, answer, shutting, kin, reviewBounds>>

(* run_loop returned: terminal, or suspended on the session's own children *)
Leave(a, p) ==
    /\ At(a) /\ p \in {"done", "failed", "waiting"}
    /\ phase' = [phase EXCEPT ![a] = p]
    /\ gate' = IF a = Lead /\ ~turnHeld THEN gate ELSE Free
    /\ turnHeld' = (turnHeld /\ a # Lead)
    /\ result' = [result EXCEPT ![a] = "raw"]
    /\ driver' = [driver EXCEPT ![a] = IF p = "waiting" THEN "none" ELSE "finishing"]
    /\ \E v \in IF a = reviewer /\ p = "done" THEN {"pass", "fail"} ELSE {verdict[a]} :
          verdict' = [verdict EXCEPT ![a] = v]
    /\ UNCHANGED <<review, iteration, artifact, answer, shutting, kin, reviewBounds>>

(* the changes of the worktree are added to the result; when they cannot be *)
(* read a done agent has failed                                             *)
Finish(a) ==
    /\ driver[a] = "finishing"
    /\ driver' = [driver EXCEPT ![a] = "none"]
    /\ \/ /\ result' = [result EXCEPT ![a] = "whole"]
          /\ phase' = IF shutting THEN [phase EXCEPT ![a] = "failed"] ELSE phase
       \/ /\ phase[a] = "done"
          /\ phase' = [phase EXCEPT ![a] = "failed"]
          /\ UNCHANGED result
    /\ UNCHANGED <<gate, turnHeld, review, iteration, verdict, artifact, answer, shutting, kin, reviewBounds>>

(* the last pending row of a suspended agent is filled *)
Rejoin(a) ==
    /\ phase[a] = "waiting" /\ driver[a] = "none" /\ ~shutting
    /\ phase' = [phase EXCEPT ![a] = "active"]
    /\ driver' = [driver EXCEPT ![a] = "queued"]
    /\ UNCHANGED <<result, gate, turnHeld, review, iteration, verdict, artifact, answer, shutting, kin, reviewBounds>>

(* a message starts an agent that had ended; the lead gets a new turn *)
MessageWakes(a) ==
    /\ Ended(a) /\ driver[a] = "none" /\ ~shutting
    /\ IF a = Lead
       THEN leadTurns < MaxLeadTurns /\ leadTurns' = leadTurns + 1 /\ wakes' = wakes
       ELSE wakes < MaxWakes /\ wakes' = wakes + 1 /\ leadTurns' = leadTurns
    /\ phase' = [phase EXCEPT ![a] = "active"]
    /\ driver' = [driver EXCEPT ![a] = "queued"]
    /\ UNCHANGED <<result, gate, turnHeld, review, iteration, verdict, artifact, answer, shutting, kin>>

---------------------------------------------------------------------------
(* The review loop, in the tool task of the lead *)

(* the turn of the still tracked driver is yielded if it is held *)
StartReview ==
    /\ At(Lead) /\ ~shutting
    /\ review' = "coder_spawn" /\ iteration' = 1 /\ answer' = "none" /\ artifact' = Nothing
    /\ gate' = IF turnHeld THEN Free ELSE gate
    /\ turnHeld' = FALSE
    /\ UNCHANGED <<driver, phase, result, verdict, shutting, kin, reviewBounds>>

(* what a finished tool does with the turn it gave away *)
Answers(a) ==
    /\ answer' = a
    /\ review' = IF shutting THEN "over" ELSE "regain"

(* a child cannot be spawned: no budget, no environment, a shutdown *)
ChildRefused ==
    /\ review \in {"coder_spawn", "reviewer_spawn"}
    /\ Answers("failed")
    /\ UNCHANGED <<driver, phase, result, gate, turnHeld, iteration, verdict, artifact, shutting, kin, reviewBounds>>

(* a fresh child of the review starts *)
SpawnChild ==
    /\ review \in {"coder_spawn", "reviewer_spawn"} /\ ~shutting
    /\ spawned + 1 \in Child /\ spawned' = spawned + 1
    /\ driver' = [driver EXCEPT ![spawned'] = "queued"]
    /\ phase' = [phase EXCEPT ![spawned'] = "active"]
    /\ \/ review = "coder_spawn" /\ review' = "coder_wait" /\ coder' = spawned' /\ UNCHANGED reviewer
       \/ review = "reviewer_spawn" /\ review' = "reviewer_wait" /\ reviewer' = spawned' /\ UNCHANGED coder
    /\ UNCHANGED <<result, gate, turnHeld, iteration, verdict, artifact, answer, shutting, reviewBounds>>

(* mutant: a terminal phase is believed while its driver still finishes *)
SettledByPhase(a) == Ended(a)

(* wait_until_terminal: the phase is terminal and no task drives the agent *)
Settled(a) == Ended(a) /\ driver[a] = "none"

(* the coder's result is read, and a reviewer is asked for in the same step: *)
(* it is built on the workspace of a coder that is done                      *)
CoderSettles ==
    /\ review = "coder_wait" /\ Settled(coder)
    /\ artifact' = [Nothing EXCEPT !.text = result[coder], !.coder = phase[coder]]
    /\ IF phase[coder] = "done"
       THEN review' = "reviewer_spawn" /\ answer' = answer
       ELSE Answers("failed")
    /\ UNCHANGED <<driver, phase, result, gate, turnHeld, iteration, verdict, shutting, kin, reviewBounds>>

(* the verdict counts when the reviewer completed *)
Passed == phase[reviewer] = "done" /\ verdict[reviewer] = "pass"

ReviewerSettles ==
    /\ review = "reviewer_wait" /\ Settled(reviewer)
    /\ \/ Passed /\ Answers("passed") /\ UNCHANGED iteration
       \/ /\ ~Passed /\ iteration < MaxIterations
          /\ iteration' = iteration + 1
          /\ review' = "coder_spawn" /\ UNCHANGED answer
       \/ ~Passed /\ iteration = MaxIterations /\ Answers("failed") /\ UNCHANGED iteration
    /\ artifact' = [artifact EXCEPT !.judge = phase[reviewer], !.says = verdict[reviewer]]
    /\ UNCHANGED <<driver, phase, result, gate, turnHeld, verdict, shutting, kin, reviewBounds>>

(* the lead takes the gate again before it goes on *)
Regain ==
    /\ review = "regain"
    /\ \/ gate = Free /\ gate' = Lead /\ turnHeld' = TRUE
       \/ shutting /\ UNCHANGED <<gate, turnHeld>>
    /\ review' = "over"
    /\ UNCHANGED <<driver, phase, result, iteration, verdict, artifact, answer, shutting, kin, reviewBounds>>

---------------------------------------------------------------------------
(* Cancellation and shutdown *)

(* a cancelled driver leaves the gate if it holds it; the review of a        *)
(* cancelled lead does not wait for it                                       *)
CancelDriver(a) ==
    /\ driver[a] \in {"queued", "working"}
    /\ \/ shutting
       \/ a = Lead /\ Reviewing
    /\ driver' = [driver EXCEPT ![a] = "none"]
    /\ phase' = [phase EXCEPT ![a] = "failed"]
    /\ result' = [result EXCEPT ![a] = "raw"]
    /\ gate' = IF gate = a THEN Free ELSE gate
    /\ turnHeld' = (turnHeld /\ a # Lead)
    /\ review' = IF a = Lead /\ Reviewing THEN "over" ELSE review
    /\ UNCHANGED <<iteration, verdict, artifact, answer, shutting, kin, reviewBounds>>

ShutDown ==
    /\ ~shutting /\ shutting' = TRUE
    /\ UNCHANGED <<driver, phase, result, gate, turnHeld, review, iteration, verdict, artifact, answer, kin, reviewBounds>>

ReviewNext ==
    \/ \E a \in Member : Enter(a) \/ Finish(a) \/ Rejoin(a) \/ MessageWakes(a) \/ CancelDriver(a)
    \/ \E a \in Member, p \in {"done", "failed", "waiting"} : Leave(a, p)
    \/ StartReview \/ ChildRefused \/ SpawnChild \/ CoderSettles \/ ReviewerSettles \/ Regain
    \/ ShutDown

ReviewSpec == ReviewInit /\ [][ReviewNext]_reviewVars

---------------------------------------------------------------------------
(* The driver and the result of a member, the stage of the review.           *)
ReviewTypes ==
    /\ driver \in [Member -> {"none", "queued", "working", "finishing"}]
    /\ phase \in [Member -> {"new", "active", "waiting", "done", "failed"}]
    /\ result \in [Member -> {"none", "raw", "whole"}]
    /\ gate \in Member \cup {Free} /\ turnHeld \in BOOLEAN /\ shutting \in BOOLEAN
    /\ review \in {"off", "coder_spawn", "coder_wait", "reviewer_spawn", "reviewer_wait",
                   "regain", "over"}
    /\ iteration \in 0..MaxIterations /\ spawned \in 0..MaxChildren
    /\ coder \in Member /\ reviewer \in Member
    /\ verdict \in [Member -> {"none", "pass", "fail"}]
    /\ artifact \in [text : {"none", "raw", "whole"}, coder : {"new", "done", "failed"},
                     judge : {"new", "done", "failed"}, says : {"none", "pass", "fail"}]

(* One member works at a time, and it is the one the lock belongs to: the    *)
(* lead that went through a review works again only under the lock.          *)
OneWorks == ~shutting => \A a \in Member : At(a) => gate = a

(* The lock is never held by a member that waits for another one, and it     *)
(* comes back from every turn: a lead in a review leaves it to its coder.    *)
GateIsUsed == gate # Free => At(gate)

(* A child that was not spawned yet has no task and never ran.               *)
UnspawnedAreNew ==
    \A a \in Child : a > spawned => driver[a] = "none" /\ phase[a] = "new"

(* The lead's turn and the lock agree, a child works only under the lock,    *)
(* and a review runs only in a turn of the lead.                             *)
TurnsAgree ==
    /\ turnHeld <=> gate = Lead
    /\ \A a \in Child : driver[a] = "working" => gate = a
    /\ At(Lead) => gate = Lead \/ shutting
    /\ gate # Free => At(gate)
    /\ Reviewing => driver[Lead] = "working"

(* A member that completed and is driven by nobody has its whole result;     *)
(* the loop asks for a reviewer only with such a result of its coder.        *)
ArtifactIsWhole ==
    /\ \A a \in Member : phase[a] = "done" /\ driver[a] = "none" => result[a] = "whole"
    /\ review \in {"reviewer_spawn", "reviewer_wait"} =>
          artifact.text = "whole" /\ artifact.coder = "done"
    /\ Reviewing /\ review # "regain" => answer # "passed"

(* A review that passed was passed by a reviewer that finished, for the      *)
(* complete artifact of a coder that finished.                               *)
PassIsEarned ==
    answer = "passed" =>
        artifact = [text |-> "whole", coder |-> "done", judge |-> "done", says |-> "pass"]

ReviewInv == ReviewTypes /\ UnspawnedAreNew /\ TurnsAgree /\ ArtifactIsWhole /\ PassIsEarned

(* A turn gives the team's lock away for a review and takes it again:        *)
(* nobody works beside it, nobody waits behind a waiting lead, and what the  *)
(* review passed is what was reviewed.                                       *)
ReviewIsSerial == OneWorks /\ GateIsUsed /\ PassIsEarned
=============================================================================

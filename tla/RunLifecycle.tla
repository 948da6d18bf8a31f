---------------------------- MODULE RunLifecycle ----------------------------
(***************************************************************************)
(* The owner of a run: run_workflow and run_agent.                          *)
(*                                                                          *)
(* A run is one owner task.  When it ends, is cancelled or meets its        *)
(* deadline, the work it left behind is waited for, then cancelled and its  *)
(* environment aborted, then waited for once more; every wait is bounded.   *)
(* Final snapshots are saved, sessions closed and isolated worktrees given  *)
(* back, and only a run whose cleanup succeeded writes complete evidence.   *)
(*                                                                          *)
(* Source: bootstrap/workflow_runtime.py, _workflow_runtime_execution.py,   *)
(* _workflow_runtime_cleanup.py, agent_runtime.py and                       *)
(* application/session_lifecycle.py.                                        *)
(***************************************************************************)
EXTENDS Naturals, FiniteSets

CONSTANTS
    Job,        \* tasks of sessions and calls the run may own
    Deaf,       \* jobs that end only when the environment is aborted
    Stuck,      \* jobs that never end
    Save        \* the task of the final snapshots

ASSUME LifecycleAssumption == Deaf \subseteq Job /\ Stuck \subseteq Job /\ Save \notin Job

VARIABLES
    mode,       \* "workflow" or "agent"
    ownsEnv,    \* cleanup_environment
    owner,      \* the owner task: its phase
    how,        \* how the script or session run ended
    asked,      \* a cancellation has reached the owner
    live,       \* tasks of the run not yet ended
    told,       \* tasks that were cancelled
    aborted,    \* the environment has been revoked and aborted
    round,      \* quiesce round of a workflow, finalization attempt of an agent
    good,       \* everything the cleanup tried so far succeeded
    dirty,      \* a session changed after its last snapshot
    trees,      \* isolated worktrees: "held" or "released"
    evidence,   \* evidence_complete of the result
    caller,     \* the caller's task: "waiting", "stopping", "ended"
    answer      \* what the caller gets

lifeVars == <<mode, ownsEnv, owner, how, asked, live, told, aborted, round, good,
              dirty, trees, evidence, caller, answer>>

LifecycleInit ==
    /\ mode \in {"workflow", "agent"} /\ ownsEnv \in BOOLEAN
    /\ owner = "run" /\ how = "none" /\ asked = FALSE
    /\ live = {} /\ told = {} /\ aborted = FALSE /\ round = 1 /\ good = TRUE
    /\ dirty = FALSE /\ trees = "held" /\ evidence = FALSE
    /\ caller = "waiting" /\ answer = "none"

-----------------------------------------------------------------------------
(* The work of the run *)

(* a task starts another one; the script starts the first *)
Spawn(j) ==
    /\ j \notin live \cup told /\ trees = "held"
    /\ owner = "run" \/ live \cap Job # {}
    /\ live' = live \cup {j}
    /\ dirty' = TRUE
    /\ UNCHANGED <<mode, ownsEnv, owner, how, asked, told, aborted, round, good, trees, evidence, caller, answer>>

(* a task ends: of itself, when it is cancelled, or with its environment *)
Ends(j) ==
    /\ j \in live \ Stuck
    /\ j \in Deaf => aborted
    /\ live' = live \ {j}
    /\ dirty' = IF j = Save THEN live \cap Job # {} ELSE TRUE
    /\ UNCHANGED <<mode, ownsEnv, owner, how, asked, told, aborted, round, good, trees, evidence, caller, answer>>

(* the write of a snapshot fails: the session keeps a persistence error *)
SaveFails ==
    /\ Save \in live
    /\ live' = live \ {Save}
    /\ good' = FALSE
    /\ UNCHANGED <<mode, ownsEnv, owner, how, asked, told, aborted, round, dirty, trees, evidence, caller, answer>>

(* the script returns, raises, exceeds the budget or is cancelled *)
RunEnds ==
    /\ owner = "run"
    /\ how' \in IF asked THEN {"cancelled", "value", "failed"} ELSE {"value", "budget", "failed"}
    /\ owner' = "quiesce"
    /\ UNCHANGED <<mode, ownsEnv, asked, live, told, aborted, round, good, dirty, trees, evidence, caller, answer>>

-----------------------------------------------------------------------------
(* Cleanup, shielded from cancellation of its owner *)

(* _wait_for_context_cleanup: quiet within the timeout, or cancel what is   *)
(* left and abort the environments (_abort_session_environments)            *)
Quiesce ==
    /\ owner = "quiesce" /\ mode = "workflow"
    /\ \/ /\ live = {}
          /\ owner' = IF round = 1 THEN "enqueue" ELSE "close"
          /\ UNCHANGED <<told, aborted, good>>
       \/ /\ live # {}
          /\ owner' = "requiesce"
          /\ told' = told \cup live
          /\ \/ /\ aborted' = (aborted \/ ownsEnv)
                /\ UNCHANGED good
             \/ /\ ownsEnv /\ good' = FALSE
                /\ UNCHANGED aborted
    /\ UNCHANGED <<mode, ownsEnv, how, asked, live, round, dirty, trees, evidence, caller, answer>>

(* the second bounded wait of _quiesce_workflow_context.  A first round     *)
(* that stays busy skips the finalization: nothing is closed or given back  *)
Requiesce ==
    /\ owner = "requiesce"
    /\ IF live = {}
       THEN /\ owner' = IF round = 1 THEN "enqueue" ELSE "close"
            /\ UNCHANGED good
       ELSE /\ owner' = IF round = 1 THEN "report" ELSE "close"
            /\ good' = FALSE
    /\ UNCHANGED <<mode, ownsEnv, how, asked, live, told, aborted, round, dirty, trees, evidence, caller, answer>>

(* enqueue_auto_save of every session, then the second quiesce round *)
Enqueue ==
    /\ owner = "enqueue"
    /\ owner' = "quiesce" /\ round' = 2
    /\ \/ /\ live' = live \cup {Save}
          /\ UNCHANGED good
       \/ /\ good' = FALSE
          /\ UNCHANGED live
    /\ UNCHANGED <<mode, ownsEnv, how, asked, told, aborted, dirty, trees, evidence, caller, answer>>

(* close_session_resources, then _release_isolated_workspaces: both bounded *)
CloseAndRelease ==
    /\ owner = "close" /\ mode = "workflow"
    /\ owner' = "report"
    /\ \/ trees' = "released" /\ UNCHANGED good
       \/ trees' = "released" /\ good' = FALSE
       \/ good' = FALSE /\ UNCHANGED trees
    /\ UNCHANGED <<mode, ownsEnv, how, asked, live, told, aborted, round, dirty, evidence, caller, answer>>

(* the tracer is closed and, when the cleanup succeeded, the manifest is    *)
(* written; either can fail                                                 *)
Report ==
    /\ owner = "report" /\ mode = "workflow"
    /\ owner' = "ended"
    /\ evidence' \in {FALSE, good}
    /\ UNCHANGED <<mode, ownsEnv, how, asked, live, told, aborted, round, good, dirty, trees, caller, answer>>

(* what the owner raises or returns *)
Verdict ==
    IF asked \/ how = "cancelled" THEN IF good THEN "cancelled" ELSE "noted"
    ELSE IF ~good THEN "technical"
    ELSE IF how = "failed" THEN "failed"
    ELSE IF evidence THEN "value" ELSE "technical"

-----------------------------------------------------------------------------
(* The caller of run_workflow *)

(* a cancellation reaches the caller, or the deadline passes: stop_owned    *)
StopWorkflow ==
    /\ mode = "workflow" /\ caller = "waiting" /\ owner # "ended"
    /\ caller' = "stopping"
    /\ asked' = (owner # "report")
    /\ UNCHANGED <<mode, ownsEnv, owner, how, live, told, aborted, round, good, dirty, trees, evidence, answer>>

(* mutant: the deadline answers without waiting for the owner *)
StoppedAtOnce ==
    /\ mode = "workflow" /\ caller = "stopping"
    /\ caller' = "ended"
    /\ \E a \in {"cancelled", "deadline"} : answer' = a
    /\ UNCHANGED <<mode, ownsEnv, owner, how, asked, live, told, aborted, round, good, dirty, trees, evidence>>

(* the owner ended in its grace time, or did not; either way an environment *)
(* the run owns is aborted                                                  *)
StoppedWorkflow ==
    /\ mode = "workflow" /\ caller = "stopping"
    /\ caller' = "ended"
    /\ aborted' = (aborted \/ ownsEnv)
    /\ IF owner = "ended"
       THEN \/ answer' = "cancelled"
            \/ answer' = IF Verdict \in {"cancelled", "value"} THEN "deadline" ELSE "lifecycle"
       ELSE answer' = "lifecycle"
    /\ UNCHANGED <<mode, ownsEnv, owner, how, asked, live, told, round, good, dirty, trees, evidence>>

WorkflowReturns ==
    /\ mode = "workflow" /\ caller = "waiting" /\ owner = "ended"
    /\ caller' = "ended"
    /\ answer' = IF Verdict \in {"value", "failed"} THEN Verdict ELSE "lifecycle"
    /\ UNCHANGED <<mode, ownsEnv, owner, how, asked, live, told, aborted, round, good, dirty, trees, evidence>>

-----------------------------------------------------------------------------
(* run_agent: two attempts to finalize one session *)

(* timeout or cancellation: the environment is aborted, then the owner is   *)
(* cancelled (stop_owned); a finalization that already runs goes on         *)
StopAgent ==
    /\ mode = "agent" /\ caller = "waiting" /\ owner # "ended"
    /\ caller' = "stopping"
    /\ asked' = TRUE
    /\ \/ aborted' = (aborted \/ ownsEnv) /\ UNCHANGED good
       \/ ownsEnv /\ good' = FALSE /\ UNCHANGED aborted
    /\ UNCHANGED <<mode, ownsEnv, owner, how, live, told, round, dirty, trees, evidence, answer>>

(* force_task_terminal gives up on an owner that does not end *)
AgentResists ==
    /\ mode = "agent" /\ caller = "stopping" /\ owner = "run"
    /\ owner' = "quiesce" /\ how' = "stuck" /\ good' = FALSE
    /\ UNCHANGED <<mode, ownsEnv, asked, live, told, aborted, round, dirty, trees, evidence, caller, answer>>

(* _finalize_session: wait, save, wait, clean the environment, close        *)
Finalize ==
    /\ mode = "agent" /\ owner = "quiesce"
    /\ \E saved \in BOOLEAN :
          /\ live' = IF saved THEN live \cup {Save} ELSE live
          /\ owner' = IF saved /\ live = {} THEN "close" ELSE "requiesce"
    /\ UNCHANGED <<mode, ownsEnv, how, asked, told, aborted, round, good, dirty, trees, evidence, caller, answer>>

(* the attempt succeeds when its second wait, its hook and its close do *)
FinalizeEnds ==
    /\ mode = "agent" /\ owner = "close"
    /\ \/ live = {} /\ owner' = "report"
       \/ owner' = "requiesce"
    /\ UNCHANGED <<mode, ownsEnv, how, asked, live, told, aborted, round, good, dirty, trees, evidence, caller, answer>>

(* finalize_with_retry: cancel what is left, and try once more *)
FinalizeAgain ==
    /\ mode = "agent" /\ owner = "requiesce"
    /\ told' = told \cup live
    /\ IF round = 1
       THEN /\ owner' = "quiesce" /\ round' = 2
            /\ UNCHANGED good
       ELSE /\ owner' = "report"
            /\ good' = FALSE
            /\ UNCHANGED round
    /\ UNCHANGED <<mode, ownsEnv, how, asked, live, aborted, dirty, trees, evidence, caller, answer>>

AgentReturns ==
    /\ mode = "agent" /\ owner = "report" /\ caller # "ended"
    /\ owner' = "ended" /\ caller' = "ended"
    /\ answer' \in CASE ~good -> {"lifecycle"}
                     [] good /\ caller = "stopping" -> {"deadline", "cancelled"}
                     [] OTHER -> {IF how = "failed" THEN "failed" ELSE "value"}
    /\ UNCHANGED <<mode, ownsEnv, how, asked, live, told, aborted, round, good, dirty, trees, evidence>>

-----------------------------------------------------------------------------
OwnerStep ==
    \/ RunEnds \/ Quiesce \/ (mode = "workflow" /\ Requiesce) \/ Enqueue \/ CloseAndRelease
    \/ Report \/ Finalize \/ FinalizeEnds \/ FinalizeAgain \/ AgentReturns

CallerStep == StoppedWorkflow \/ WorkflowReturns \/ AgentResists

LifecycleNext ==
    \/ \E j \in Job \cup {Save} : Ends(j)
    \/ \E j \in Job : Spawn(j)
    \/ SaveFails \/ OwnerStep \/ CallerStep \/ StopWorkflow \/ StopAgent

(* the owner's waits are bounded and the event loop runs every ready task;  *)
(* no job has to end                                                        *)
LifecycleFairness == WF_lifeVars(OwnerStep \/ CallerStep)

LifecycleSpec == LifecycleInit /\ [][LifecycleNext]_lifeVars /\ LifecycleFairness

-----------------------------------------------------------------------------
(* Properties *)

(* A run that answers normally has left nothing running: only the lifecycle *)
(* error, and the cancellation of a workflow, may be raised over work that  *)
(* did not end.                                                             *)
AnswerMeansQuiet ==
    \/ answer \in {"none", "lifecycle"}
    \/ mode = "workflow" /\ answer = "cancelled"
    \/ live = {}

(* An isolated worktree is never given back while a session or call of the  *)
(* run still works, also when the second round does not get quiet.          *)
TreesOutliveJobs == trees = "released" => live \cap Job = {}

(* Evidence is complete only when the final snapshots were taken after the  *)
(* last task of the run had ended.                                          *)
EvidenceIsFinal == evidence => live = {} /\ ~dirty

(* The end of a run: the answer, the worktrees given back and the evidence   *)
(* called final all presuppose that nobody works any more (run_workflow,     *)
(* stop_workflow, the cleanup of the context).                               *)
RunEndsClean == AnswerMeansQuiet /\ TreesOutliveJobs /\ EvidenceIsFinal

-----------------------------------------------------------------------------
(* The inductive invariant *)

LifecycleTypes ==
    /\ mode \in {"workflow", "agent"}
    /\ owner \in {"run", "quiesce", "requiesce", "enqueue", "close", "report", "ended"}
    /\ live \subseteq Job \cup {Save}
    /\ round \in {1, 2} /\ (owner = "run" => round = 1)
    /\ good \in BOOLEAN /\ dirty \in BOOLEAN /\ evidence \in BOOLEAN
    /\ trees \in {"held", "released"}

(* In the second round of a workflow only the final save is at work, and    *)
(* without it, or a failure, the snapshots are up to date.  Every phase     *)
(* that presupposes quiet is entered from it.                               *)
WorkflowGetsQuiet ==
    mode = "workflow" =>
       /\ owner = "enqueue" => live = {} /\ round = 1
       /\ owner = "close" => round = 2
       /\ round = 2 => live \subseteq {Save} /\ (good => Save \in live \/ ~dirty)
       /\ owner = "close" /\ good => live = {}
       /\ owner \in {"report", "ended"} /\ good => live = {} /\ round = 2

AgentGetsQuiet ==
    mode = "agent" =>
       /\ owner # "enqueue" /\ trees = "held" /\ ~evidence
       /\ owner \in {"report", "ended"} /\ good => live = {}

(* What was given away was given away after the end. *)
GivenAtEnd ==
    /\ trees = "released" => round = 2
    /\ evidence => owner = "ended" /\ good
    /\ \/ answer \in {"none", "lifecycle"}
       \/ mode = "workflow" /\ answer = "cancelled"
       \/ owner = "ended" /\ live = {}

LifecycleInv == LifecycleTypes /\ WorkflowGetsQuiet /\ AgentGetsQuiet /\ GivenAtEnd
=============================================================================

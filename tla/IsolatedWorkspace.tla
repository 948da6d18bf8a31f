-------------------------- MODULE IsolatedWorkspace --------------------------
(***************************************************************************)
(* The workspace one agent works in: a Git worktree on the host or in the   *)
(* task's container, a copy of a plain directory, or a team's candidate     *)
(* checkout.                                                                *)
(*                                                                          *)
(* Setting one up claims a branch as a lease, makes a directory, registers  *)
(* it with Git and fills it; each step is a command that may fail, or time  *)
(* out after it took effect, or part of it.  A capture reads the agent's    *)
(* changes; a cleanup refuses while a capture is owed, and otherwise removes *)
(* what was made, changes nobody asked for included, and keeps what it could *)
(* not remove for a retry.  Other programs use the same repository.         *)
(*                                                                          *)
(* Source: adapters/_env_worktree.py, _env_container_worktree.py,           *)
(* candidate_workspace.py, _team_candidate_environment.py.                  *)
(***************************************************************************)
EXTENDS Naturals

CONSTANTS
    MaxEdits,       \* bound: changes the agent makes
    MaxFaults       \* bound: commands that fail or time out

VARIABLES
    place,      \* "git", "copy", "container" or "candidate"
    op,         \* "new", "claim", "dir", "add", "fill": the next setup step;
                \*   "ready", "capture", "guard", "tree", "files", "lease", "idle", "clean"
    agent,      \* "absent", "working", "quiet"
    branch,     \* refs/heads/<branch>: "absent", "ours" or "foreign"
    claim,      \* "none", "pending" (_pending_branch_claim) or "owned"
    dir,        \* the directory: "none", "whole", or "torn" by a removal that failed
    named,      \* there are files to remove: _worktree_dir, _worktree_files_pending,
                \*   not cleaned
    reg,        \* Git has the worktree in its registry
    knows,      \* _worktree_registered (a candidate asks Git each time)
    files,      \* the agent's changes, by number
    saved,      \* those in the last capture that was delivered
    owed,       \* _git_diff_delivery_pending, _delivery_pending
    failing,    \* this cleanup has recorded a failure
    faults      \* commands that failed so far

wsVars == <<place, op, agent, branch, claim, dir, named, reg, knows, files, saved,
            owed, failing, faults>>

Place == {"git", "copy", "container", "candidate"}

WorkspaceInit ==
    /\ place \in Place /\ op = "new" /\ agent = "absent"
    /\ branch \in {"absent", "foreign"} /\ claim = "none"
    /\ dir = "none" /\ named = FALSE /\ reg = FALSE /\ knows = FALSE
    /\ files = 0 /\ saved = 0 /\ owed = FALSE /\ failing = FALSE /\ faults = 0

(* a command: it succeeds with its effect, or fails with or without it *)
Fault == faults < MaxFaults /\ faults' = faults + 1
Fine  == UNCHANGED faults

HasBranch == place \in {"git", "container"}
HasGit    == place # "copy"

(* what a removal that fails may leave of a directory *)
Degraded(d) == IF d = "none" THEN {"none"} ELSE {d, "torn", "none"}

-----------------------------------------------------------------------------
(* Setup *)

(* source clean, branch name free, base commit readable; the candidate's    *)
(* source patch is captured; a failure leaves nothing                       *)
Probe ==
    /\ op = "new"
    /\ \/ /\ Fine /\ (HasBranch => branch = "absent")
          /\ op' = IF HasBranch THEN "claim" ELSE "dir"
       \/ /\ Fault \/ (Fine /\ HasBranch /\ branch = "foreign")
          /\ op' = "tree"
    /\ UNCHANGED <<place, agent, branch, claim, dir, named, reg, knows, files, saved, owed, failing>>

(* update-ref from an absent value.  On the host the claim carries a marker *)
(* in its reflog, by which an interrupted one is recognised                 *)
Claim ==
    /\ op = "claim"
    /\ \/ /\ Fine /\ branch = "absent"
          /\ branch' = "ours" /\ claim' = "owned" /\ op' = "dir"
       \/ /\ Fine /\ branch = "foreign"
          /\ claim' = IF place = "git" THEN "pending" ELSE "none"
          /\ op' = "tree" /\ UNCHANGED branch
       \/ /\ Fault
          /\ \/ branch = "absent" /\ branch' = "ours"
             \/ UNCHANGED branch
          /\ claim' = IF place = "git" THEN "pending" ELSE "none"
          /\ op' = "tree"
    /\ UNCHANGED <<place, agent, dir, named, reg, knows, files, saved, owed, failing>>

(* mkdtemp, copytree of the baseline; Git makes the others itself *)
MakeDirectory ==
    /\ op = "dir"
    /\ dir' = IF place \in {"git", "copy"} THEN "whole" ELSE "none"
    /\ named' = (place # "container")
    /\ \/ Fine /\ op' = IF place = "copy" THEN "fill" ELSE "add"
       \/ Fault /\ op' = "tree"
    /\ UNCHANGED <<place, agent, branch, claim, reg, knows, files, saved, owed, failing>>

(* git worktree add --detach *)
AddWorktree ==
    /\ op = "add"
    /\ \/ /\ Fine /\ reg' = TRUE /\ dir' = "whole" /\ named' = TRUE
          /\ knows' = HasBranch /\ op' = "fill"
       \/ /\ Fault /\ op' = "tree"
          /\ reg' \in BOOLEAN /\ dir' \in {dir, "torn", "whole"}
          /\ UNCHANGED <<knows, named>>
    /\ UNCHANGED <<place, agent, branch, claim, files, saved, owed, failing>>

(* submodules, physical contents, the source patch and its recovery ref *)
Fill ==
    /\ op = "fill"
    /\ \/ Fine /\ op' = "ready" /\ agent' = "working"
       \/ Fault /\ op' = "tree" /\ UNCHANGED agent
    /\ UNCHANGED <<place, branch, claim, dir, named, reg, knows, files, saved, owed, failing>>

-----------------------------------------------------------------------------
(* The agent, and other programs *)

Edit ==
    /\ agent = "working" /\ op = "ready" /\ dir = "whole" /\ files < MaxEdits
    /\ files' = files + 1
    /\ UNCHANGED <<place, op, agent, branch, claim, dir, named, reg, knows, saved, owed, failing, faults>>

(* the agent's turn ends, or it is woken for another one; its scheduler     *)
(* captures only in between.  Past the guard the environment is revoked.    *)
WorkspaceTurn ==
    /\ op = "ready" /\ agent # "absent" /\ dir = "whole"
    /\ agent' = IF agent = "working" THEN "quiet" ELSE "working"
    /\ UNCHANGED <<place, op, branch, claim, dir, named, reg, knows, files, saved, owed, failing, faults>>

(* somebody takes the branch name, or moves the branch *)
OtherMoves ==
    /\ HasBranch /\ branch # "foreign"
    /\ branch' = "foreign"
    /\ UNCHANGED <<place, op, agent, claim, dir, named, reg, knows, files, saved, owed, failing, faults>>

-----------------------------------------------------------------------------
(* Delivery *)

(* get_diff, capture_changes: the delivery is owed until the patch is       *)
(* complete; a copy remembers what it exported instead.  A revoked          *)
(* container or candidate refuses, unless a candidate's delivery is owed.   *)
CaptureStarts ==
    /\ op = "ready" \/ (op = "idle" /\ (place \in {"git", "copy"} \/ (place = "candidate" /\ owed)))
    /\ named /\ agent = "quiet"
    /\ op' = "capture"
    /\ owed' = (HasGit \/ owed)
    /\ UNCHANGED <<place, agent, branch, claim, dir, named, reg, knows, files, saved, failing, faults>>

(* what is left of a torn directory may still make a patch *)
CaptureEnds ==
    /\ op = "capture"
    /\ op' = "ready"
    /\ \/ Fine /\ dir # "none" /\ owed' = FALSE /\ saved' = (IF dir = "whole" THEN files ELSE saved)
       \/ (Fault \/ (Fine /\ dir # "whole")) /\ UNCHANGED <<owed, saved>>
    /\ UNCHANGED <<place, agent, branch, claim, dir, named, reg, knows, files, failing>>

(* retain_changes: only an excerpt of the patch was delivered, or a notice  *)
(* could not carry it.  A container and a candidate do not look whether the *)
(* workspace is still there                                                 *)
Retain ==
    /\ op \in {"ready", "idle", "clean"} /\ agent = "quiet"
    /\ place \in {"git", "copy"} => named
    /\ owed' = TRUE
    /\ saved' = IF place = "copy" THEN 0 ELSE saved
    /\ UNCHANGED <<place, op, agent, branch, claim, dir, named, reg, knows, files, failing, faults>>

-----------------------------------------------------------------------------
(* Cleanup: may be tried again until it succeeds *)

(* the agent is stopped first (abort), or its turn is over; a pool cleans   *)
(* once more what an abort cleaned                                          *)
CleanupStarts ==
    /\ op \in {"ready", "idle", "clean"}
    /\ agent' = IF agent = "absent" THEN "absent" ELSE "quiet"
    /\ op' = "guard" /\ failing' = FALSE
    /\ UNCHANGED <<place, branch, claim, dir, named, reg, knows, files, saved, owed, faults>>

(* mutant: a capture that failed does not hold the worktree *)
GuardNothing ==
    /\ op = "guard" /\ op' = "tree"
    /\ UNCHANGED <<place, agent, branch, claim, dir, named, reg, knows, files, saved, owed, failing, faults>>

(* a copy is compared with its last export *)
Undelivered == owed \/ (place = "copy" /\ named /\ files # saved)

(* undelivered changes are refused (a torn copy differs from its export);   *)
(* then the environment is revoked and closed, which may fail               *)
Guard ==
    /\ op = "guard"
    /\ \/ Fine /\ op' = IF Undelivered THEN "ready" ELSE "tree"
       \/ Fine /\ place = "copy" /\ dir = "torn" /\ op' = "ready"
       \/ Fault /\ op' = "idle"
    /\ UNCHANGED <<place, agent, branch, claim, dir, named, reg, knows, files, saved, owed, failing>>

(* what the cleanup takes the registry to say; a host worktree that did not *)
(* get registered and a candidate are looked up                             *)
Looked == IF (place = "git" /\ named /\ ~knows) \/ place = "candidate" THEN reg ELSE knows

(* git worktree remove, which may fail after all or part of it, or find     *)
(* nothing registered.  A candidate's cleanup ends there; the others look   *)
(* again, if they can, and go on to the files and the lease                 *)
Unregister ==
    /\ op = "tree"
    /\ \/ /\ ~Looked /\ Fine
          /\ op' = "files" /\ UNCHANGED <<dir, named, reg, knows, failing>>
       \/ /\ Looked /\ reg /\ Fine
          /\ reg' = FALSE /\ dir' = "none" /\ named' = FALSE /\ knows' = FALSE
          /\ op' = "files" /\ UNCHANGED failing
       \/ /\ Looked /\ (Fault \/ (Fine /\ ~reg))
          /\ reg' \in {reg, FALSE} /\ dir' \in Degraded(dir)
          /\ IF place = "candidate"
             THEN op' = "idle" /\ UNCHANGED <<knows, failing>>
             ELSE op' = "files" /\ failing' = TRUE /\ knows' \in {reg', TRUE}
          /\ UNCHANGED named
       \/ Fault /\ op' = "idle" /\ UNCHANGED <<dir, named, reg, knows, failing>>
    /\ UNCHANGED <<place, agent, branch, claim, files, saved, owed>>

(* rmtree or rm -rf of what is not registered (any more); files that stay   *)
(* are tried again                                                          *)
RemoveFiles ==
    /\ op = "files"
    /\ \/ /\ ~named \/ knows
          /\ Fine /\ op' = "lease" /\ UNCHANGED <<dir, named, failing>>
       \/ /\ named /\ ~knows /\ Fine
          /\ dir' = "none" /\ named' = FALSE /\ op' = "lease" /\ UNCHANGED failing
       \/ /\ named /\ ~knows /\ Fault
          /\ dir' \in Degraded(dir) /\ failing' = TRUE
          /\ op' = (IF place = "candidate" THEN "idle" ELSE "lease") /\ UNCHANGED named
    /\ UNCHANGED <<place, agent, branch, claim, reg, knows, files, saved, owed>>

(* an interrupted claim is ours when the reflog shows its marker *)
Mine == claim = "owned" \/ (claim = "pending" /\ branch = "ours")

(* a lease is deleted only where it still stands, and left when somebody    *)
(* moved it.  A container keeps a lease that was moved, and its cleanup     *)
(* keeps failing                                                            *)
ReleaseLease ==
    /\ op = "lease"
    /\ \/ /\ ~Mine \/ knows
          /\ claim' = IF Mine THEN "owned" ELSE "none"
          /\ op' = IF failing THEN "idle" ELSE "clean"
          /\ Fine /\ UNCHANGED <<branch, failing>>
       \/ /\ Mine /\ ~knows /\ branch = "ours"
          /\ branch' = "absent" /\ claim' = "none"
          /\ op' = IF failing THEN "idle" ELSE "clean"
          /\ Fine /\ UNCHANGED failing
       \/ /\ Mine /\ ~knows /\ branch = "foreign"
          /\ claim' = IF place = "container" THEN "owned" ELSE "none"
          /\ op' = IF place = "container" \/ failing THEN "idle" ELSE "clean"
          /\ Fine /\ UNCHANGED <<branch, failing>>
       \/ /\ Fault /\ op' = "idle"
          /\ UNCHANGED <<branch, claim, failing>>
    /\ UNCHANGED <<place, agent, dir, named, reg, knows, files, saved, owed>>

WorkspaceStep ==
    \/ Probe \/ Claim \/ MakeDirectory \/ AddWorktree \/ Fill \/ Guard
    \/ Unregister \/ RemoveFiles \/ ReleaseLease \/ CaptureEnds

WorkspaceNext ==
    \/ WorkspaceStep \/ Edit \/ WorkspaceTurn \/ OtherMoves \/ CaptureStarts \/ Retain \/ CleanupStarts

(* every command ends, by itself or by its timeout *)
WorkspaceFairness == WF_wsVars(WorkspaceStep)

WorkspaceSpec == WorkspaceInit /\ [][WorkspaceNext]_wsVars /\ WorkspaceFairness

-----------------------------------------------------------------------------
(* Properties *)

(* What a cleanup, or a retry of one, may take from an agent.  Once a        *)
(* capture was asked for, no step touches the workspace until a capture has *)
(* delivered every change: through failed captures, retained excerpts,      *)
(* aborts and cleanups that stopped half-way.  A plain copy is touched only *)
(* when its last export holds every change, asked for or not; elsewhere     *)
(* changes nobody asked for go with the workspace.                          *)
TakesOnlyDelivered ==
    /\ agent # "absent" /\ dir' # dir =>
          /\ ~owed
          /\ place = "copy" /\ dir = "whole" => saved = files
    /\ owed /\ ~owed' /\ dir = "whole" => dir' = "whole" /\ saved' = files'

(* A cleanup that reports success on the host has left no directory, no     *)
(* registration and no branch of ours, wherever the setup or an earlier     *)
(* cleanup was interrupted.                                                 *)
CleanLeavesNothing ==
    op = "clean" /\ place # "container" => dir = "none" /\ ~reg /\ branch # "ours"

(* The life of a workspace as a whole: nothing an agent was asked for is    *)
(* taken before it was delivered (_git_diff_delivery_pending,               *)
(* _ensure_directory_copy_changes_exported), and a cleanup that succeeds    *)
(* leaves nothing of ours behind.                                           *)
WorkspaceIsKept == [][TakesOnlyDelivered]_wsVars /\ []CleanLeavesNothing

-----------------------------------------------------------------------------
(* The inductive invariant *)

WorkspaceTypes ==
    /\ place \in Place
    /\ op \in {"new", "claim", "dir", "add", "fill", "ready", "capture", "guard", "tree",
               "files", "lease", "idle", "clean"}
    /\ agent \in {"absent", "working", "quiet"}
    /\ branch \in {"absent", "ours", "foreign"} /\ claim \in {"none", "pending", "owned"}
    /\ dir \in {"none", "whole", "torn"}
    /\ named \in BOOLEAN /\ reg \in BOOLEAN /\ knows \in BOOLEAN
    /\ owed \in BOOLEAN /\ failing \in BOOLEAN
    /\ files \in Nat /\ saved \in Nat

(* Before the agent works there is nothing to deliver, and its changes are  *)
(* read only between its turns.                                             *)
SetupInOrder ==
    /\ op \in {"new", "claim", "dir", "add", "fill"} => agent = "absent"
    /\ op \in {"new", "claim", "dir"} => dir = "none" /\ ~named /\ ~reg /\ ~knows
    /\ op = "claim" => HasBranch
    /\ op = "add" => HasGit /\ ~reg /\ ~knows /\ (place # "container" => named)
    /\ op = "fill" => named
    /\ op = "capture" => agent = "quiet"
    /\ agent = "absent" => files = 0 /\ saved = 0 /\ ~owed

(* No cleanup gets past the guard with something to deliver.                *)
OwedIsGuarded ==
    op \in {"tree", "files"} => ~owed /\ (place = "copy" /\ dir = "whole" => saved = files)

(* The environment knows what it has to remove.                             *)
NothingForgotten ==
    /\ place # "container" => (reg => named) /\ (dir # "none" => named)
    /\ place \in {"copy", "candidate"} => ~knows
    /\ place = "copy" => ~reg
    /\ op = "files" /\ ~knows /\ place # "container" => ~reg
    /\ op \in {"files", "lease"} /\ knows => failing
    /\ op = "lease" /\ ~failing /\ place # "container" => dir = "none" /\ ~reg
    /\ branch = "ours" => HasBranch
    /\ branch = "ours" /\ place = "git" => claim # "none"
    /\ op = "clean" /\ place # "container" => dir = "none" /\ ~reg /\ branch # "ours"

WorkspaceInv == WorkspaceTypes /\ SetupInOrder /\ OwedIsGuarded /\ NothingForgotten
=============================================================================

---------------------------- MODULE AdapterProofs ----------------------------
(***************************************************************************)
(* Proofs about what the engine runs on: workspaces, candidates, tools,     *)
(* requests to a provider, remote machines, containers and the pool of      *)
(* environments.                                                            *)
(*                                                                          *)
(* Each section proves the inductive invariant its module states at its end *)
(* (WorkspaceInv, CandidateInv, ToolsInv, RequestsInv, RemoteInv,           *)
(* ContainerInv, PoolInv): the initial states, then one lemma per action or *)
(* part.                                                                    *)
(***************************************************************************)
EXTENDS IsolatedWorkspace, CandidateRuns, ToolRuns, ProviderRequests, RemoteOperations,
        ContainerCommands, EnvironmentPool, SumProofs, SequenceTheorems

-----------------------------------------------------------------------------
(* Workspaces                                                               *)

(* Nothing is made yet, and the branch may be somebody else's.              *)
LEMMA WorkspaceStarts == WorkspaceInit => WorkspaceInv
<1> SUFFICES ASSUME WorkspaceInit PROVE WorkspaceInv
  OBVIOUS
<1>1. WorkspaceTypes
  BY DEF WorkspaceInit, WorkspaceTypes
<1>2. SetupInOrder /\ OwedIsGuarded /\ NothingForgotten
  BY DEF WorkspaceInit, SetupInOrder, OwedIsGuarded, NothingForgotten
<1> QED
  BY <1>1, <1>2 DEF WorkspaceInv

(* Every step keeps the types.                                              *)
LEMMA WorkspaceTypesKept ==
    ASSUME WorkspaceTypes, [WorkspaceNext]_wsVars
    PROVE  WorkspaceTypes'
<1> USE DEF WorkspaceTypes, Place
<1>1. CASE Probe
  BY <1>1 DEF Probe, Fault, Fine, HasBranch, HasGit
<1>2. CASE Claim
  BY <1>2 DEF Claim, Fault, Fine, HasBranch, HasGit
<1>3. CASE MakeDirectory
  BY <1>3 DEF MakeDirectory, Fault, Fine, HasBranch, HasGit
<1>4. CASE AddWorktree
  <2>1. dir' \in {"none", "whole", "torn"} /\ named' \in BOOLEAN
    BY <1>4 DEF AddWorktree
  <2>2. reg' \in BOOLEAN
    BY <1>4 DEF AddWorktree
  <2>3. knows' \in BOOLEAN
    <3>1. CASE knows' = HasBranch
      <4>1. HasBranch \in BOOLEAN
        BY DEF HasBranch
      <4> QED
        BY <3>1, <4>1
    <3>2. CASE UNCHANGED knows
      BY <3>2
    <3> QED
      BY <1>4, <3>1, <3>2 DEF AddWorktree
  <2> QED
    BY <1>4, <2>1, <2>2, <2>3 DEF AddWorktree
<1>5. CASE Fill
  BY <1>5 DEF Fill, Fault, Fine, HasBranch, HasGit
<1>6. CASE Edit
  BY <1>6 DEF Edit, Fault, Fine, HasBranch, HasGit
<1>7. CASE WorkspaceTurn
  BY <1>7 DEF WorkspaceTurn, Fault, Fine, HasBranch, HasGit
<1>8. CASE OtherMoves
  BY <1>8 DEF OtherMoves, Fault, Fine, HasBranch, HasGit
<1>9. CASE CaptureStarts
  BY <1>9 DEF CaptureStarts, Fault, Fine, HasBranch, HasGit
<1>10. CASE CaptureEnds
  <2>1. owed' \in BOOLEAN
    BY <1>10 DEF CaptureEnds
  <2>2. saved' \in Nat
    BY <1>10 DEF CaptureEnds
  <2> QED
    BY <1>10, <2>1, <2>2 DEF CaptureEnds
<1>11. CASE Retain
  BY <1>11 DEF Retain, Fault, Fine, HasBranch, HasGit
<1>12. CASE CleanupStarts
  <2>1. agent' \in {"absent", "quiet"} /\ op' = "guard"
    BY <1>12 DEF CleanupStarts
  <2>3. failing' \in BOOLEAN
    BY <1>12 DEF CleanupStarts
  <2>2. UNCHANGED <<place, branch, claim, dir, named, reg, knows, files, saved, owed>>
    BY <1>12 DEF CleanupStarts
  <2> QED
    BY <2>1, <2>2, <2>3
<1>13. CASE Guard
  BY <1>13 DEF Guard, Fault, Fine, Undelivered, HasBranch, HasGit
<1>14. CASE Unregister
  <2>1. dir' \in {"none", "whole", "torn"} /\ named' \in BOOLEAN
    BY <1>14 DEF Unregister, Degraded
  <2>2. reg' \in BOOLEAN /\ failing' \in BOOLEAN
    BY <1>14 DEF Unregister
  <2>3. knows' \in BOOLEAN
    BY <1>14 DEF Unregister, Looked
  <2>4. op' \in {"files", "idle"}
    BY <1>14 DEF Unregister
  <2> QED
    BY <1>14, <2>1, <2>2, <2>3, <2>4 DEF Unregister
<1>15. CASE RemoveFiles
  <2>1. dir' \in {"none", "whole", "torn"} /\ named' \in BOOLEAN /\ failing' \in BOOLEAN
    BY <1>15 DEF RemoveFiles, Degraded
  <2>2. op' \in {"lease", "idle"}
    BY <1>15 DEF RemoveFiles
  <2> QED
    BY <1>15, <2>1, <2>2 DEF RemoveFiles
<1>16. CASE ReleaseLease
  BY <1>16 DEF ReleaseLease, Fault, Fine, Mine, HasBranch, HasGit
<1>17. CASE UNCHANGED wsVars
  BY <1>17 DEF wsVars, HasBranch, HasGit
<1> QED
  BY <1>1, <1>2, <1>3, <1>4, <1>5, <1>6, <1>7, <1>8, <1>9, <1>10, <1>11, <1>12, <1>13, <1>14,
     <1>15, <1>16, <1>17
     DEF WorkspaceNext, WorkspaceStep

(* The agent works only in a workspace that was filled.                     *)
LEMMA SetupStaysInOrder ==
    ASSUME WorkspaceTypes, SetupInOrder, OwedIsGuarded, [WorkspaceNext]_wsVars
    PROVE  SetupInOrder'
<1> USE DEF WorkspaceTypes, SetupInOrder, OwedIsGuarded, Place
<1>1. CASE Probe
  BY <1>1 DEF Probe, Fault, Fine, HasBranch, HasGit
<1>2. CASE Claim
  BY <1>2 DEF Claim, Fault, Fine, HasBranch, HasGit
<1>3. CASE MakeDirectory
  BY <1>3 DEF MakeDirectory, Fault, Fine, HasBranch, HasGit
<1>4. CASE AddWorktree
  BY <1>4 DEF AddWorktree, Fault, Fine, HasBranch, HasGit
<1>5. CASE Fill
  BY <1>5 DEF Fill, Fault, Fine, HasBranch, HasGit
<1>6. CASE Edit
  BY <1>6 DEF Edit, Fault, Fine, HasBranch, HasGit
<1>7. CASE WorkspaceTurn
  BY <1>7 DEF WorkspaceTurn, Fault, Fine, HasBranch, HasGit
<1>8. CASE OtherMoves
  BY <1>8 DEF OtherMoves, Fault, Fine, HasBranch, HasGit
<1>9. CASE CaptureStarts
  BY <1>9 DEF CaptureStarts, Fault, Fine, HasBranch, HasGit
<1>10. CASE CaptureEnds
  BY <1>10 DEF CaptureEnds, Fault, Fine, HasBranch, HasGit
<1>11. CASE Retain
  BY <1>11 DEF Retain, Fault, Fine, HasBranch, HasGit
<1>12. CASE CleanupStarts
  BY <1>12 DEF CleanupStarts, Fault, Fine, HasBranch, HasGit
<1>13. CASE Guard
  BY <1>13 DEF Guard, Fault, Fine, Undelivered, HasBranch, HasGit
<1>14. CASE Unregister
  BY <1>14 DEF Unregister, Fault, Fine, Looked, Degraded, HasBranch, HasGit
<1>15. CASE RemoveFiles
  BY <1>15 DEF RemoveFiles, Fault, Fine, Degraded, HasBranch, HasGit
<1>16. CASE ReleaseLease
  BY <1>16 DEF ReleaseLease, Fault, Fine, Mine, HasBranch, HasGit
<1>17. CASE UNCHANGED wsVars
  BY <1>17 DEF wsVars, HasBranch, HasGit
<1> QED
  BY <1>1, <1>2, <1>3, <1>4, <1>5, <1>6, <1>7, <1>8, <1>9, <1>10, <1>11, <1>12, <1>13, <1>14,
     <1>15, <1>16, <1>17
     DEF WorkspaceNext, WorkspaceStep

(* Nothing that is owed gets past the guard.                                *)
LEMMA OwedStaysGuarded ==
    ASSUME WorkspaceTypes, SetupInOrder, OwedIsGuarded, NothingForgotten, [WorkspaceNext]_wsVars
    PROVE  OwedIsGuarded'
<1> USE DEF WorkspaceTypes, SetupInOrder, OwedIsGuarded, NothingForgotten, Place
<1>1. CASE Probe
  BY <1>1 DEF Probe, Fault, Fine, HasBranch, HasGit
<1>2. CASE Claim
  BY <1>2 DEF Claim, Fault, Fine, HasBranch, HasGit
<1>3. CASE MakeDirectory
  BY <1>3 DEF MakeDirectory, Fault, Fine, HasBranch, HasGit
<1>4. CASE AddWorktree
  BY <1>4 DEF AddWorktree, Fault, Fine, HasBranch, HasGit
<1>5. CASE Fill
  BY <1>5 DEF Fill, Fault, Fine, HasBranch, HasGit
<1>6. CASE Edit
  BY <1>6 DEF Edit, Fault, Fine, HasBranch, HasGit
<1>7. CASE WorkspaceTurn
  BY <1>7 DEF WorkspaceTurn, Fault, Fine, HasBranch, HasGit
<1>8. CASE OtherMoves
  BY <1>8 DEF OtherMoves, Fault, Fine, HasBranch, HasGit
<1>9. CASE CaptureStarts
  BY <1>9 DEF CaptureStarts, Fault, Fine, HasBranch, HasGit
<1>10. CASE CaptureEnds
  BY <1>10 DEF CaptureEnds, Fault, Fine, HasBranch, HasGit
<1>11. CASE Retain
  BY <1>11 DEF Retain, Fault, Fine, HasBranch, HasGit
<1>12. CASE CleanupStarts
  BY <1>12 DEF CleanupStarts, Fault, Fine, HasBranch, HasGit
<1>13. CASE Guard
  BY <1>13 DEF Guard, Fault, Fine, Undelivered, HasBranch, HasGit
<1>14. CASE Unregister
  BY <1>14 DEF Unregister, Fault, Fine, Looked, Degraded, HasBranch, HasGit
<1>15. CASE RemoveFiles
  BY <1>15 DEF RemoveFiles, Fault, Fine, Degraded, HasBranch, HasGit
<1>16. CASE ReleaseLease
  BY <1>16 DEF ReleaseLease, Fault, Fine, Mine, HasBranch, HasGit
<1>17. CASE UNCHANGED wsVars
  BY <1>17 DEF wsVars, HasBranch, HasGit
<1> QED
  BY <1>1, <1>2, <1>3, <1>4, <1>5, <1>6, <1>7, <1>8, <1>9, <1>10, <1>11, <1>12, <1>13, <1>14,
     <1>15, <1>16, <1>17
     DEF WorkspaceNext, WorkspaceStep

(* What is made can be found again by the cleanup.                          *)
LEMMA NothingIsForgotten ==
    ASSUME WorkspaceTypes, SetupInOrder, OwedIsGuarded, NothingForgotten, [WorkspaceNext]_wsVars
    PROVE  NothingForgotten'
<1> USE DEF WorkspaceTypes, SetupInOrder, OwedIsGuarded, NothingForgotten, Place
<1>1. CASE Probe
  BY <1>1 DEF Probe, Fault, Fine, HasBranch, HasGit
<1>2. CASE Claim
  BY <1>2 DEF Claim, Fault, Fine, HasBranch, HasGit
<1>3. CASE MakeDirectory
  BY <1>3 DEF MakeDirectory, Fault, Fine, HasBranch, HasGit
<1>4. CASE AddWorktree
  BY <1>4 DEF AddWorktree, Fault, Fine, HasBranch, HasGit
<1>5. CASE Fill
  BY <1>5 DEF Fill, Fault, Fine, HasBranch, HasGit
<1>6. CASE Edit
  BY <1>6 DEF Edit, Fault, Fine, HasBranch, HasGit
<1>7. CASE WorkspaceTurn
  BY <1>7 DEF WorkspaceTurn, Fault, Fine, HasBranch, HasGit
<1>8. CASE OtherMoves
  BY <1>8 DEF OtherMoves, Fault, Fine, HasBranch, HasGit
<1>9. CASE CaptureStarts
  BY <1>9 DEF CaptureStarts, Fault, Fine, HasBranch, HasGit
<1>10. CASE CaptureEnds
  BY <1>10 DEF CaptureEnds, Fault, Fine, HasBranch, HasGit
<1>11. CASE Retain
  BY <1>11 DEF Retain, Fault, Fine, HasBranch, HasGit
<1>12. CASE CleanupStarts
  BY <1>12 DEF CleanupStarts, Fault, Fine, HasBranch, HasGit
<1>13. CASE Guard
  BY <1>13 DEF Guard, Fault, Fine, Undelivered, HasBranch, HasGit
<1>14. CASE Unregister
  <2>1. UNCHANGED <<place, branch, claim>> /\ op = "tree" /\ op' \in {"files", "idle"}
    BY <1>14 DEF Unregister
  <2>2. CASE ~Looked /\ UNCHANGED <<dir, named, reg, knows>>
    BY <2>1, <2>2 DEF Looked, HasBranch
  <2>3. CASE reg' = FALSE /\ dir' = "none" /\ named' = FALSE /\ knows' = FALSE
    BY <2>1, <2>3 DEF HasBranch
  <2>4. CASE Looked /\ reg' \in {reg, FALSE} /\ dir' \in Degraded(dir) /\ UNCHANGED named
             /\ IF place = "candidate"
                THEN op' = "idle" /\ UNCHANGED knows
                ELSE op' = "files" /\ failing' = TRUE /\ knows' \in {reg', TRUE}
    <3>1. dir' # "none" => dir # "none"
      BY <2>4 DEF Degraded
    <3>2. reg' => reg
      BY <2>4
    <3>3. CASE place = "candidate"
      BY <2>1, <2>4, <3>1, <3>2, <3>3 DEF HasBranch
    <3>4. CASE place # "candidate"
      BY <2>1, <2>4, <3>1, <3>2, <3>4 DEF HasBranch, Looked
    <3> QED
      BY <3>3, <3>4
  <2>5. CASE op' = "idle" /\ UNCHANGED <<dir, named, reg, knows>>
    BY <2>1, <2>5 DEF HasBranch
  <2> QED
    BY <1>14, <2>1, <2>2, <2>3, <2>4, <2>5 DEF Unregister
<1>15. CASE RemoveFiles
  BY <1>15 DEF RemoveFiles, Fault, Fine, Degraded, HasBranch, HasGit
<1>16. CASE ReleaseLease
  BY <1>16 DEF ReleaseLease, Fault, Fine, Mine, HasBranch, HasGit
<1>17. CASE UNCHANGED wsVars
  BY <1>17 DEF wsVars, HasBranch, HasGit
<1> QED
  BY <1>1, <1>2, <1>3, <1>4, <1>5, <1>6, <1>7, <1>8, <1>9, <1>10, <1>11, <1>12, <1>13, <1>14,
     <1>15, <1>16, <1>17
     DEF WorkspaceNext, WorkspaceStep

(* Only the two removals touch the directory of an agent that has worked,   *)
(* and only a capture settles what is owed.                                 *)
LEMMA TakesDelivered ==
    ASSUME WorkspaceInv, [WorkspaceNext]_wsVars
    PROVE  TakesOnlyDelivered
<1> USE DEF WorkspaceInv, WorkspaceTypes, SetupInOrder, OwedIsGuarded
<1>1. CASE Unregister \/ RemoveFiles
  <2>1. UNCHANGED owed /\ op \in {"tree", "files"}
    BY <1>1 DEF Unregister, RemoveFiles
  <2> QED
    BY <2>1 DEF TakesOnlyDelivered
<1>2. CASE MakeDirectory \/ AddWorktree
  <2>1. UNCHANGED owed /\ op \in {"dir", "add"}
    BY <1>2 DEF MakeDirectory, AddWorktree
  <2> QED
    BY <2>1 DEF TakesOnlyDelivered
<1>3. CASE CaptureEnds
  <2>1. UNCHANGED <<dir, files>>
    BY <1>3 DEF CaptureEnds
  <2>2. owed /\ ~owed' /\ dir = "whole" => saved' = files
    BY <1>3 DEF CaptureEnds, Fine, Fault
  <2> QED
    BY <2>1, <2>2 DEF TakesOnlyDelivered
<1>4. ASSUME Probe \/ Claim \/ Fill \/ Guard \/ ReleaseLease \/ Edit \/ WorkspaceTurn \/ OtherMoves
                \/ CleanupStarts \/ UNCHANGED wsVars
      PROVE  TakesOnlyDelivered
  <2>1. UNCHANGED <<dir, owed>>
    BY <1>4 DEF Probe, Claim, Fill, Guard, ReleaseLease, Edit, WorkspaceTurn, OtherMoves,
                CleanupStarts, wsVars
  <2> QED
    BY <2>1 DEF TakesOnlyDelivered
<1>5. CASE CaptureStarts \/ Retain
  <2>1. UNCHANGED dir /\ (owed => owed')
    BY <1>5 DEF CaptureStarts, Retain
  <2> QED
    BY <2>1 DEF TakesOnlyDelivered
<1> QED
  BY <1>1, <1>2, <1>3, <1>4, <1>5 DEF WorkspaceNext, WorkspaceStep

(* For any number of edits and of commands that fail: nothing an agent was  *)
(* asked for is taken before it was delivered (changes nobody asked for go  *)
(* with the workspace), and a cleanup that succeeds leaves nothing of ours  *)
(* behind.                                                                  *)
THEOREM WorkspacesAreKept == WorkspaceSpec => WorkspaceIsKept
<1>1. WorkspaceInv /\ [WorkspaceNext]_wsVars => WorkspaceInv'
  BY WorkspaceTypesKept, SetupStaysInOrder, OwedStaysGuarded, NothingIsForgotten DEF WorkspaceInv
<1>2. WorkspaceInv => CleanLeavesNothing
  BY DEF WorkspaceInv, NothingForgotten, CleanLeavesNothing
<1>3. WorkspaceInv /\ [WorkspaceNext]_wsVars => [TakesOnlyDelivered]_wsVars
  BY TakesDelivered
<1> QED
  BY <1>1, <1>2, <1>3, WorkspaceStarts, PTL DEF WorkspaceSpec, WorkspaceIsKept
-----------------------------------------------------------------------------
(* Candidates                                                               *)

(* No attempt has read the source yet.                                      *)
LEMMA CandidatesStart == CandidatesInit => CandidateInv
<1> SUFFICES ASSUME CandidatesInit PROVE CandidateInv
  OBVIOUS
<1>1. CandidateTypes
  BY DEF CandidatesInit, CandidateTypes, Source
<1>2. SourceMovesOn /\ ReadIsPast /\ AttemptIsQuiet
  BY DEF CandidatesInit, SourceMovesOn, ReadIsPast, AttemptIsQuiet, Early
<1>3. CaptureIsWhole /\ ResultIsWhole /\ WorkIsKept
  BY DEF CandidatesInit, CaptureIsWhole, ResultIsWhole, WorkIsKept
<1> QED
  BY <1>1, <1>2, <1>3 DEF CandidateInv

(* Every step keeps the types.                                              *)
LEMMA CandidateTypesKept ==
    ASSUME CandidateTypes, [CandidatesNext]_candVars
    PROVE  CandidateTypes'
<1> USE DEF CandidateTypes
<1>1. ASSUME NEW c \in Attempt, ReadSource(c) PROVE CandidateTypes'
  BY <1>1 DEF ReadSource, Source, Goto
<1>2. ASSUME NEW c \in Attempt, Acquire(c) PROVE CandidateTypes'
  <2>1. base' \in [Attempt -> [head : Nat, body : Nat]]
    BY <1>2 DEF Acquire, Source
  <2>2. checkout' \in [Attempt -> {"none", "live", "torn"}]
    BY <1>2 DEF Acquire
  <2>3. /\ at' = [at EXCEPT ![c] = "lease"] \/ at' = [at EXCEPT ![c] = "failed"]
        /\ failure' = failure \/ failure' = [failure EXCEPT ![c] = "other"]
    BY <1>2 DEF Acquire, Goto, FailsWith
  <2>4. UNCHANGED <<head, body, seen, busy, inner, work, patch, keep>>
    BY <1>2 DEF Acquire
  <2> QED
    BY <2>1, <2>2, <2>3, <2>4
<1>3. ASSUME NEW c \in Attempt, Start(c) PROVE CandidateTypes'
  BY <1>3 DEF Start, Goto, TurnIs, FailsWith
<1>4. ASSUME NEW c \in Attempt, TurnEnds(c) PROVE CandidateTypes'
  BY <1>4 DEF TurnEnds, Goto, TurnIs
<1>5. ASSUME NEW c \in Attempt, AgentStops(c) PROVE CandidateTypes'
  BY <1>5 DEF AgentStops, TurnIs
<1>6. ASSUME NEW c \in Attempt, Settle(c) PROVE CandidateTypes'
  BY <1>6 DEF Settle, Goto
<1>7. ASSUME NEW c \in Attempt, Capture(c) PROVE CandidateTypes'
  <2>1. /\ at' = [at EXCEPT ![c] = "check"] \/ at' = [at EXCEPT ![c] = "quiet"]
        /\ failure' = failure \/ failure' = [failure EXCEPT ![c] = "capture"]
        /\ keep' = keep \/ keep' = [keep EXCEPT ![c] = TRUE]
    BY <1>7 DEF Capture, Goto, FailsWith
  <2>2. patch' \in [Attempt -> Nat]
    BY <1>7 DEF Capture
  <2>3. UNCHANGED <<head, body, seen, base, busy, inner, work, checkout>>
    BY <1>7 DEF Capture
  <2> QED
    BY <2>1, <2>2, <2>3
<1>8. ASSUME NEW c \in Attempt, Check(c) PROVE CandidateTypes'
  BY <1>8 DEF Check, Goto, FailsWith
<1>9. ASSUME NEW c \in Attempt, Quiet(c) PROVE CandidateTypes'
  BY <1>9 DEF Quiet, Goto, FailsWith
<1>10. ASSUME NEW c \in Attempt, Inner(c) PROVE CandidateTypes'
  BY <1>10 DEF Inner, Goto
<1>11. ASSUME NEW c \in Attempt, Finish(c) PROVE CandidateTypes'
  BY <1>11 DEF Finish, Goto
<1>12. ASSUME NEW c \in Attempt, AgentEdits(c) PROVE CandidateTypes'
  BY <1>12 DEF AgentEdits
<1>13. ASSUME NEW c \in Attempt, Isolate(c) PROVE CandidateTypes'
  BY <1>13 DEF Isolate
<1>14. ASSUME NEW c \in Attempt, CancelAttempt(c) PROVE CandidateTypes'
  BY <1>14 DEF CancelAttempt, Goto, FailsWith
<1>15. ASSUME NEW c \in Attempt, AdoptStarts(c) PROVE CandidateTypes'
  BY <1>15 DEF AdoptStarts
<1>16. CASE AdoptEnds
  BY <1>16 DEF AdoptEnds
<1>17. CASE Others
  BY <1>17 DEF Others
<1>18. CASE UNCHANGED candVars
  BY <1>18 DEF candVars
<1> QED
  BY <1>1, <1>2, <1>3, <1>4, <1>5, <1>6, <1>7, <1>8, <1>9, <1>10, <1>11, <1>12, <1>13, <1>14,
     <1>15, <1>16, <1>17, <1>18
     DEF CandidatesNext, CandidatesStep

(* Nobody takes the source back behind a checkout.                          *)
LEMMA SourceStaysAhead ==
    ASSUME CandidateTypes, SourceMovesOn, ReadIsPast, [CandidatesNext]_candVars
    PROVE  SourceMovesOn' /\ ReadIsPast'
<1> USE DEF CandidateTypes, SourceMovesOn, ReadIsPast
<1>1. ASSUME NEW c \in Attempt, ReadSource(c) PROVE SourceMovesOn' /\ ReadIsPast'
  BY <1>1 DEF ReadSource, Source, Goto
<1>2. ASSUME NEW c \in Attempt, Acquire(c) PROVE SourceMovesOn' /\ ReadIsPast'
  BY <1>2 DEF Acquire, Source, Goto, FailsWith
<1>3. ASSUME NEW c \in Attempt, Start(c) PROVE SourceMovesOn' /\ ReadIsPast'
  BY <1>3 DEF Start, Goto, TurnIs, FailsWith
<1>4. ASSUME NEW c \in Attempt, TurnEnds(c) PROVE SourceMovesOn' /\ ReadIsPast'
  BY <1>4 DEF TurnEnds, Goto, TurnIs
<1>5. ASSUME NEW c \in Attempt, AgentStops(c) PROVE SourceMovesOn' /\ ReadIsPast'
  BY <1>5 DEF AgentStops, TurnIs
<1>6. ASSUME NEW c \in Attempt, Settle(c) PROVE SourceMovesOn' /\ ReadIsPast'
  BY <1>6 DEF Settle, Goto
<1>7. ASSUME NEW c \in Attempt, Capture(c) PROVE SourceMovesOn' /\ ReadIsPast'
  BY <1>7 DEF Capture, Goto, FailsWith
<1>8. ASSUME NEW c \in Attempt, Check(c) PROVE SourceMovesOn' /\ ReadIsPast'
  BY <1>8 DEF Check, Goto, FailsWith
<1>9. ASSUME NEW c \in Attempt, Quiet(c) PROVE SourceMovesOn' /\ ReadIsPast'
  BY <1>9 DEF Quiet, Goto, FailsWith
<1>10. ASSUME NEW c \in Attempt, Inner(c) PROVE SourceMovesOn' /\ ReadIsPast'
  BY <1>10 DEF Inner, Goto
<1>11. ASSUME NEW c \in Attempt, Finish(c) PROVE SourceMovesOn' /\ ReadIsPast'
  BY <1>11 DEF Finish, Goto
<1>12. ASSUME NEW c \in Attempt, AgentEdits(c) PROVE SourceMovesOn' /\ ReadIsPast'
  BY <1>12 DEF AgentEdits
<1>13. ASSUME NEW c \in Attempt, Isolate(c) PROVE SourceMovesOn' /\ ReadIsPast'
  BY <1>13 DEF Isolate
<1>14. ASSUME NEW c \in Attempt, CancelAttempt(c) PROVE SourceMovesOn' /\ ReadIsPast'
  BY <1>14 DEF CancelAttempt, Goto, FailsWith
<1>15. ASSUME NEW c \in Attempt, AdoptStarts(c) PROVE SourceMovesOn' /\ ReadIsPast'
  BY <1>15 DEF AdoptStarts
<1>16. CASE AdoptEnds
  BY <1>16 DEF AdoptEnds
<1>17. CASE Others
  BY <1>17 DEF Others
<1>18. CASE UNCHANGED candVars
  BY <1>18 DEF candVars
<1> QED
  BY <1>1, <1>2, <1>3, <1>4, <1>5, <1>6, <1>7, <1>8, <1>9, <1>10, <1>11, <1>12, <1>13, <1>14,
     <1>15, <1>16, <1>17, <1>18
     DEF CandidatesNext, CandidatesStep

(* Only a started attempt has an agent, and it settles before its capture.  *)
LEMMA AttemptStaysQuiet ==
    ASSUME CandidateTypes, AttemptIsQuiet, CaptureIsWhole, [CandidatesNext]_candVars
    PROVE  AttemptIsQuiet'
<1> USE DEF CandidateTypes, AttemptIsQuiet, CaptureIsWhole, Early
<1>1. ASSUME NEW c \in Attempt, ReadSource(c) PROVE AttemptIsQuiet'
  BY <1>1 DEF ReadSource, Source, Goto
<1>2. ASSUME NEW c \in Attempt, Acquire(c) PROVE AttemptIsQuiet'
  BY <1>2 DEF Acquire, Source, Goto, FailsWith
<1>3. ASSUME NEW c \in Attempt, Start(c) PROVE AttemptIsQuiet'
  BY <1>3 DEF Start, Goto, TurnIs, FailsWith
<1>4. ASSUME NEW c \in Attempt, TurnEnds(c) PROVE AttemptIsQuiet'
  BY <1>4 DEF TurnEnds, Goto, TurnIs
<1>5. ASSUME NEW c \in Attempt, AgentStops(c) PROVE AttemptIsQuiet'
  BY <1>5 DEF AgentStops, TurnIs
<1>6. ASSUME NEW c \in Attempt, Settle(c) PROVE AttemptIsQuiet'
  BY <1>6 DEF Settle, Goto
<1>7. ASSUME NEW c \in Attempt, Capture(c) PROVE AttemptIsQuiet'
  BY <1>7 DEF Capture, Goto, FailsWith
<1>8. ASSUME NEW c \in Attempt, Check(c) PROVE AttemptIsQuiet'
  BY <1>8 DEF Check, Goto, FailsWith
<1>9. ASSUME NEW c \in Attempt, Quiet(c) PROVE AttemptIsQuiet'
  BY <1>9 DEF Quiet, Goto, FailsWith
<1>10. ASSUME NEW c \in Attempt, Inner(c) PROVE AttemptIsQuiet'
  BY <1>10 DEF Inner, Goto
<1>11. ASSUME NEW c \in Attempt, Finish(c) PROVE AttemptIsQuiet'
  BY <1>11 DEF Finish, Goto
<1>12. ASSUME NEW c \in Attempt, AgentEdits(c) PROVE AttemptIsQuiet'
  BY <1>12 DEF AgentEdits
<1>13. ASSUME NEW c \in Attempt, Isolate(c) PROVE AttemptIsQuiet'
  BY <1>13 DEF Isolate
<1>14. ASSUME NEW c \in Attempt, CancelAttempt(c) PROVE AttemptIsQuiet'
  BY <1>14 DEF CancelAttempt, Goto, FailsWith
<1>15. ASSUME NEW c \in Attempt, AdoptStarts(c) PROVE AttemptIsQuiet'
  BY <1>15 DEF AdoptStarts
<1>16. CASE AdoptEnds
  BY <1>16 DEF AdoptEnds
<1>17. CASE Others
  BY <1>17 DEF Others
<1>18. CASE UNCHANGED candVars
  BY <1>18 DEF candVars
<1> QED
  BY <1>1, <1>2, <1>3, <1>4, <1>5, <1>6, <1>7, <1>8, <1>9, <1>10, <1>11, <1>12, <1>13, <1>14,
     <1>15, <1>16, <1>17, <1>18
     DEF CandidatesNext, CandidatesStep

(* The capture is of a quiet checkout made from the reported source.        *)
LEMMA CaptureStaysWhole ==
    ASSUME CandidateTypes, SourceMovesOn, AttemptIsQuiet, CaptureIsWhole, ResultIsWhole, [CandidatesNext]_candVars
    PROVE  CaptureIsWhole' /\ ResultIsWhole'
<1> USE DEF CandidateTypes, SourceMovesOn, AttemptIsQuiet, CaptureIsWhole, ResultIsWhole, Early
<1>1. ASSUME NEW c \in Attempt, ReadSource(c) PROVE CaptureIsWhole' /\ ResultIsWhole'
  BY <1>1 DEF ReadSource, Source, Goto
<1>2. ASSUME NEW c \in Attempt, Acquire(c) PROVE CaptureIsWhole' /\ ResultIsWhole'
  BY <1>2 DEF Acquire, Source, Goto, FailsWith
<1>3. ASSUME NEW c \in Attempt, Start(c) PROVE CaptureIsWhole' /\ ResultIsWhole'
  BY <1>3 DEF Start, Goto, TurnIs, FailsWith
<1>4. ASSUME NEW c \in Attempt, TurnEnds(c) PROVE CaptureIsWhole' /\ ResultIsWhole'
  BY <1>4 DEF TurnEnds, Goto, TurnIs
<1>5. ASSUME NEW c \in Attempt, AgentStops(c) PROVE CaptureIsWhole' /\ ResultIsWhole'
  BY <1>5 DEF AgentStops, TurnIs
<1>6. ASSUME NEW c \in Attempt, Settle(c) PROVE CaptureIsWhole' /\ ResultIsWhole'
  BY <1>6 DEF Settle, Goto
<1>7. ASSUME NEW c \in Attempt, Capture(c) PROVE CaptureIsWhole' /\ ResultIsWhole'
  BY <1>7 DEF Capture, Goto, FailsWith
<1>8. ASSUME NEW c \in Attempt, Check(c) PROVE CaptureIsWhole' /\ ResultIsWhole'
  <2>1. Source = seen[c] => base[c] = seen[c]
    <3>1. /\ seen[c].head \in Nat /\ seen[c].body \in Nat /\ base[c].head \in Nat /\ base[c].body \in Nat
          /\ seen[c] = [head |-> seen[c].head, body |-> seen[c].body]
          /\ base[c] = [head |-> base[c].head, body |-> base[c].body]
      BY <1>8
    <3>2. ASSUME Source = seen[c] PROVE seen[c].head = head /\ seen[c].body = body
      BY <3>2 DEF Source
    <3>3. /\ seen[c].head <= base[c].head /\ base[c].head <= head
          /\ seen[c].body <= base[c].body /\ base[c].body <= body
      BY <1>8 DEF Check
    <3> HIDE DEF CandidateTypes, SourceMovesOn, AttemptIsQuiet, CaptureIsWhole, ResultIsWhole
    <3>4. ASSUME seen[c].head = head, seen[c].body = body
          PROVE  base[c].head = seen[c].head /\ base[c].body = seen[c].body
      BY <3>1, <3>3, <3>4
    <3> QED
      BY <3>1, <3>2, <3>4
  <2> QED
    BY <1>8, <2>1 DEF Check, Goto, FailsWith
<1>9. ASSUME NEW c \in Attempt, Quiet(c) PROVE CaptureIsWhole' /\ ResultIsWhole'
  BY <1>9 DEF Quiet, Goto, FailsWith
<1>10. ASSUME NEW c \in Attempt, Inner(c) PROVE CaptureIsWhole' /\ ResultIsWhole'
  BY <1>10 DEF Inner, Goto
<1>11. ASSUME NEW c \in Attempt, Finish(c) PROVE CaptureIsWhole' /\ ResultIsWhole'
  BY <1>11 DEF Finish, Goto
<1>12. ASSUME NEW c \in Attempt, AgentEdits(c) PROVE CaptureIsWhole' /\ ResultIsWhole'
  BY <1>12 DEF AgentEdits
<1>13. ASSUME NEW c \in Attempt, Isolate(c) PROVE CaptureIsWhole' /\ ResultIsWhole'
  BY <1>13 DEF Isolate
<1>14. ASSUME NEW c \in Attempt, CancelAttempt(c) PROVE CaptureIsWhole' /\ ResultIsWhole'
  BY <1>14 DEF CancelAttempt, Goto, FailsWith
<1>15. ASSUME NEW c \in Attempt, AdoptStarts(c) PROVE CaptureIsWhole' /\ ResultIsWhole'
  BY <1>15 DEF AdoptStarts
<1>16. CASE AdoptEnds
  BY <1>16 DEF AdoptEnds
<1>17. CASE Others
  BY <1>17 DEF Others
<1>18. CASE UNCHANGED candVars
  BY <1>18 DEF candVars
<1> QED
  BY <1>1, <1>2, <1>3, <1>4, <1>5, <1>6, <1>7, <1>8, <1>9, <1>10, <1>11, <1>12, <1>13, <1>14,
     <1>15, <1>16, <1>17, <1>18
     DEF CandidatesNext, CandidatesStep

(* A checkout goes only with nothing in it that is not returned.            *)
LEMMA WorkStaysKept ==
    ASSUME CandidateTypes, AttemptIsQuiet, CaptureIsWhole, WorkIsKept, [CandidatesNext]_candVars
    PROVE  WorkIsKept'
<1> USE DEF CandidateTypes, AttemptIsQuiet, CaptureIsWhole, WorkIsKept, Early
<1>1. ASSUME NEW c \in Attempt, ReadSource(c) PROVE WorkIsKept'
  BY <1>1 DEF ReadSource, Source, Goto
<1>2. ASSUME NEW c \in Attempt, Acquire(c) PROVE WorkIsKept'
  BY <1>2 DEF Acquire, Source, Goto, FailsWith
<1>3. ASSUME NEW c \in Attempt, Start(c) PROVE WorkIsKept'
  BY <1>3 DEF Start, Goto, TurnIs, FailsWith
<1>4. ASSUME NEW c \in Attempt, TurnEnds(c) PROVE WorkIsKept'
  BY <1>4 DEF TurnEnds, Goto, TurnIs
<1>5. ASSUME NEW c \in Attempt, AgentStops(c) PROVE WorkIsKept'
  BY <1>5 DEF AgentStops, TurnIs
<1>6. ASSUME NEW c \in Attempt, Settle(c) PROVE WorkIsKept'
  BY <1>6 DEF Settle, Goto
<1>7. ASSUME NEW c \in Attempt, Capture(c) PROVE WorkIsKept'
  BY <1>7 DEF Capture, Goto, FailsWith
<1>8. ASSUME NEW c \in Attempt, Check(c) PROVE WorkIsKept'
  BY <1>8 DEF Check, Goto, FailsWith
<1>9. ASSUME NEW c \in Attempt, Quiet(c) PROVE WorkIsKept'
  BY <1>9 DEF Quiet, Goto, FailsWith
<1>10. ASSUME NEW c \in Attempt, Inner(c) PROVE WorkIsKept'
  BY <1>10 DEF Inner, Goto
<1>11. ASSUME NEW c \in Attempt, Finish(c) PROVE WorkIsKept'
  BY <1>11 DEF Finish, Goto
<1>12. ASSUME NEW c \in Attempt, AgentEdits(c) PROVE WorkIsKept'
  BY <1>12 DEF AgentEdits
<1>13. ASSUME NEW c \in Attempt, Isolate(c) PROVE WorkIsKept'
  BY <1>13 DEF Isolate
<1>14. ASSUME NEW c \in Attempt, CancelAttempt(c) PROVE WorkIsKept'
  BY <1>14 DEF CancelAttempt, Goto, FailsWith
<1>15. ASSUME NEW c \in Attempt, AdoptStarts(c) PROVE WorkIsKept'
  BY <1>15 DEF AdoptStarts
<1>16. CASE AdoptEnds
  BY <1>16 DEF AdoptEnds
<1>17. CASE Others
  BY <1>17 DEF Others
<1>18. CASE UNCHANGED candVars
  BY <1>18 DEF candVars
<1> QED
  BY <1>1, <1>2, <1>3, <1>4, <1>5, <1>6, <1>7, <1>8, <1>9, <1>10, <1>11, <1>12, <1>13, <1>14,
     <1>15, <1>16, <1>17, <1>18
     DEF CandidatesNext, CandidatesStep

(* For any number of attempts, of changes and of movements of the source: a *)
(* result is the whole patch of a quiet checkout against the source it      *)
(* started from, and only the work of a cancelled attempt goes with a       *)
(* checkout that was not captured.                                          *)
THEOREM CandidatesAreWhole == CandidatesSpec => []CandidateIsWhole
<1>1. CandidateInv /\ [CandidatesNext]_candVars => CandidateInv'
  BY CandidateTypesKept, SourceStaysAhead, AttemptStaysQuiet, CaptureStaysWhole, WorkStaysKept
     DEF CandidateInv
<1>2. CandidateInv => CandidateIsWhole
  BY DEF CandidateInv, CandidateIsWhole
<1> QED
  BY <1>1, <1>2, CandidatesStart, PTL DEF CandidatesSpec

-----------------------------------------------------------------------------
(* Tool calls                                                               *)

(* No call has begun and no sweep.                                          *)
LEMMA ToolsStart == ToolsInit => ToolsInv
BY DEF ToolsInit, ToolsInv, ToolTypes, UnstartedIsBare, ProcessIsHeld, AnswerIsSafe, SweepHolds,
       Over

(* Every step of a call or of a sweep keeps the types.                      *)
LEMMA ToolTypesKept ==
    ASSUME ToolsInv, [ToolsNext]_toolVars
    PROVE  ToolTypes'
<1> USE DEF ToolsInv, ToolTypes,
        Sweeper, Wait, Task, Killed, sweepVars, processVars
<1>1. ASSUME NEW c \in ToolCall, ProcessAppears(c) PROVE ToolTypes'
  BY <1>1 DEF ProcessAppears
<1>2. ASSUME NEW c \in ToolCall, SpawnSettles(c) PROVE ToolTypes'
  <2>1. revoked' \in BOOLEAN
    BY <1>2 DEF SpawnSettles
  <2>2. /\ task' \in [ToolCall -> {"none", "spawn", "run", "kill", "queued", "writing", "done",
                             "failed"}]
        /\ proc' \in [ToolCall -> {"none", "alive", "dead"}]
    BY <1>2 DEF SpawnSettles
  <2>3. /\ spawn' = [spawn EXCEPT ![c] = "over"] /\ handoffs' \subseteq ToolCall
        /\ registered' \subseteq ToolCall /\ waiter' = waiter /\ sweep' = sweep
    BY <1>2 DEF SpawnSettles
  <2> QED
    BY <2>1, <2>2, <2>3
<1>3. ASSUME NEW c \in ToolCall, Runs(c) PROVE ToolTypes'
  BY <1>3 DEF Runs
<1>4. ASSUME NEW c \in ToolCall, Reap(c) PROVE ToolTypes'
  BY <1>4 DEF Reap
<1>5. ASSUME NEW c \in ToolCall, Kill(c) PROVE ToolTypes'
  BY <1>5 DEF Kill
<1>6. ASSUME NEW c \in ToolCall, FileStarts(c) PROVE ToolTypes'
  BY <1>6 DEF FileStarts
<1>7. ASSUME NEW c \in ToolCall, FileEnds(c) PROVE ToolTypes'
  BY <1>7 DEF FileEnds
<1>8. ASSUME NEW c \in ToolCall, Answer(c) PROVE ToolTypes'
  BY <1>8 DEF Answer
<1>9. ASSUME NEW c \in ToolCall, Grace(c) PROVE ToolTypes'
  BY <1>9 DEF Grace
<1>10. ASSUME NEW c \in ToolCall, AbortWaited(c) PROVE ToolTypes'
  BY <1>10 DEF AbortWaited
<1>11. ASSUME NEW s \in Sweeper, CloseRegistry(s) PROVE ToolTypes'
  BY <1>11 DEF CloseRegistry, Sweeps
<1>12. ASSUME NEW s \in Sweeper, HandoffsEnd(s) PROVE ToolTypes'
  BY <1>12 DEF HandoffsEnd, Sweeps
<1>13. ASSUME NEW s \in Sweeper, KillAll(s) PROVE ToolTypes'
  BY <1>13 DEF KillAll, Sweeps
<1>14. ASSUME NEW s \in Sweeper, SweepEnds(s) PROVE ToolTypes'
  BY <1>14 DEF SweepEnds, Sweeps
<1>15. CASE CleanupByOwner
  BY <1>15 DEF CleanupByOwner
<1>16. ASSUME NEW c \in ToolCall, StartTool(c) PROVE ToolTypes'
  BY <1>16 DEF StartTool
<1>17. ASSUME NEW c \in ToolCall, SpawnAbandoned(c) PROVE ToolTypes'
  BY <1>17 DEF SpawnAbandoned
<1>18. ASSUME NEW c \in ToolCall, CommandEnds(c) PROVE ToolTypes'
  BY <1>18 DEF CommandEnds
<1>19. ASSUME NEW c \in ToolCall, GiveUp(c) PROVE ToolTypes'
  BY <1>19 DEF GiveUp
<1>20. CASE UNCHANGED toolVars
  BY <1>20 DEF toolVars
<1> QED
  BY <1>1, <1>2, <1>3, <1>4, <1>5, <1>6, <1>7, <1>8, <1>9, <1>10, <1>11, <1>12,
     <1>13, <1>14, <1>15, <1>16, <1>17, <1>18, <1>19, <1>20
     DEF ToolsNext, ToolsStep

(* A task gets a spawn only where it starts, or is past it.                 *)
LEMMA BareKept ==
    ASSUME ToolsInv, [ToolsNext]_toolVars
    PROVE  UnstartedIsBare'
<1> USE DEF ToolsInv, ToolTypes, UnstartedIsBare, ProcessIsHeld,
        Sweeper, Wait, Task, Killed, sweepVars, processVars, Over
<1>1. ASSUME NEW c \in ToolCall, ProcessAppears(c) PROVE UnstartedIsBare'
  BY <1>1 DEF ProcessAppears
<1>2. ASSUME NEW c \in ToolCall, SpawnSettles(c) PROVE UnstartedIsBare'
  BY <1>2 DEF SpawnSettles
<1>3. ASSUME NEW c \in ToolCall, Runs(c) PROVE UnstartedIsBare'
  BY <1>3 DEF Runs
<1>4. ASSUME NEW c \in ToolCall, Reap(c) PROVE UnstartedIsBare'
  BY <1>4 DEF Reap
<1>5. ASSUME NEW c \in ToolCall, Kill(c) PROVE UnstartedIsBare'
  BY <1>5 DEF Kill
<1>6. ASSUME NEW c \in ToolCall, FileStarts(c) PROVE UnstartedIsBare'
  BY <1>6 DEF FileStarts
<1>7. ASSUME NEW c \in ToolCall, FileEnds(c) PROVE UnstartedIsBare'
  BY <1>7 DEF FileEnds
<1>8. ASSUME NEW c \in ToolCall, Answer(c) PROVE UnstartedIsBare'
  BY <1>8 DEF Answer
<1>9. ASSUME NEW c \in ToolCall, Grace(c) PROVE UnstartedIsBare'
  BY <1>9 DEF Grace
<1>10. ASSUME NEW c \in ToolCall, AbortWaited(c) PROVE UnstartedIsBare'
  BY <1>10 DEF AbortWaited
<1>11. ASSUME NEW s \in Sweeper, CloseRegistry(s) PROVE UnstartedIsBare'
  BY <1>11 DEF CloseRegistry, Sweeps
<1>12. ASSUME NEW s \in Sweeper, HandoffsEnd(s) PROVE UnstartedIsBare'
  BY <1>12 DEF HandoffsEnd, Sweeps
<1>13. ASSUME NEW s \in Sweeper, KillAll(s) PROVE UnstartedIsBare'
  BY <1>13 DEF KillAll, Sweeps
<1>14. ASSUME NEW s \in Sweeper, SweepEnds(s) PROVE UnstartedIsBare'
  BY <1>14 DEF SweepEnds, Sweeps
<1>15. CASE CleanupByOwner
  BY <1>15 DEF CleanupByOwner
<1>16. ASSUME NEW c \in ToolCall, StartTool(c) PROVE UnstartedIsBare'
  BY <1>16 DEF StartTool
<1>17. ASSUME NEW c \in ToolCall, SpawnAbandoned(c) PROVE UnstartedIsBare'
  BY <1>17 DEF SpawnAbandoned
<1>18. ASSUME NEW c \in ToolCall, CommandEnds(c) PROVE UnstartedIsBare'
  BY <1>18 DEF CommandEnds
<1>19. ASSUME NEW c \in ToolCall, GiveUp(c) PROVE UnstartedIsBare'
  BY <1>19 DEF GiveUp
<1>20. CASE UNCHANGED toolVars
  BY <1>20 DEF toolVars
<1> QED
  BY <1>1, <1>2, <1>3, <1>4, <1>5, <1>6, <1>7, <1>8, <1>9, <1>10, <1>11, <1>12,
     <1>13, <1>14, <1>15, <1>16, <1>17, <1>18, <1>19, <1>20
     DEF ToolsNext, ToolsStep

(* A process passes from its spawn to the registry and leaves it dead.      *)
LEMMA HeldKept ==
    ASSUME ToolsInv, [ToolsNext]_toolVars
    PROVE  ProcessIsHeld'
<1> USE DEF ToolsInv, ToolTypes, UnstartedIsBare, ProcessIsHeld,
        Sweeper, Wait, Task, Killed, sweepVars, processVars, Over, Unkillable, Writes
<1>1. ASSUME NEW c \in ToolCall, ProcessAppears(c) PROVE ProcessIsHeld'
  BY <1>1 DEF ProcessAppears
<1>2. ASSUME NEW c \in ToolCall, SpawnSettles(c) PROVE ProcessIsHeld'
  <2>1. CASE c \in late
    BY <1>2, <2>1 DEF SpawnSettles
  <2>2. CASE c \notin late /\ shut
    <3>1. c \in Unkillable => revoked'
      BY <1>2, <2>2 DEF SpawnSettles
    <3>2. revoked => revoked'
      BY <1>2, <2>2 DEF SpawnSettles
    <3>3. /\ spawn' = [spawn EXCEPT ![c] = "over"] /\ handoffs' = handoffs \ {c}
          /\ task' = [task EXCEPT ![c] = "failed"] /\ UNCHANGED <<registered, late, kind>>
          /\ \A d \in ToolCall : proc'[d] = IF d = c /\ c \notin Unkillable THEN "dead" ELSE proc[d]
      BY <1>2, <2>2 DEF SpawnSettles
    <3>4. spawn[c] = "made"
      BY <1>2 DEF SpawnSettles
    <3> QED
      BY <3>1, <3>2, <3>3, <3>4
  <2>3. CASE c \notin late /\ ~shut
    BY <1>2, <2>3 DEF SpawnSettles
  <2> QED
    BY <2>1, <2>2, <2>3
<1>3. ASSUME NEW c \in ToolCall, Runs(c) PROVE ProcessIsHeld'
  BY <1>3 DEF Runs
<1>4. ASSUME NEW c \in ToolCall, Reap(c) PROVE ProcessIsHeld'
  BY <1>4 DEF Reap
<1>5. ASSUME NEW c \in ToolCall, Kill(c) PROVE ProcessIsHeld'
  BY <1>5 DEF Kill
<1>6. ASSUME NEW c \in ToolCall, FileStarts(c) PROVE ProcessIsHeld'
  BY <1>6 DEF FileStarts
<1>7. ASSUME NEW c \in ToolCall, FileEnds(c) PROVE ProcessIsHeld'
  BY <1>7 DEF FileEnds
<1>8. ASSUME NEW c \in ToolCall, Answer(c) PROVE ProcessIsHeld'
  BY <1>8 DEF Answer
<1>9. ASSUME NEW c \in ToolCall, Grace(c) PROVE ProcessIsHeld'
  BY <1>9 DEF Grace
<1>10. ASSUME NEW c \in ToolCall, AbortWaited(c) PROVE ProcessIsHeld'
  BY <1>10 DEF AbortWaited
<1>11. ASSUME NEW s \in Sweeper, CloseRegistry(s) PROVE ProcessIsHeld'
  BY <1>11 DEF CloseRegistry, Sweeps
<1>12. ASSUME NEW s \in Sweeper, HandoffsEnd(s) PROVE ProcessIsHeld'
  BY <1>12 DEF HandoffsEnd, Sweeps
<1>13. ASSUME NEW s \in Sweeper, KillAll(s) PROVE ProcessIsHeld'
  BY <1>13 DEF KillAll, Sweeps
<1>14. ASSUME NEW s \in Sweeper, SweepEnds(s) PROVE ProcessIsHeld'
  BY <1>14 DEF SweepEnds, Sweeps
<1>15. CASE CleanupByOwner
  BY <1>15 DEF CleanupByOwner
<1>16. ASSUME NEW c \in ToolCall, StartTool(c) PROVE ProcessIsHeld'
  BY <1>16 DEF StartTool
<1>17. ASSUME NEW c \in ToolCall, SpawnAbandoned(c) PROVE ProcessIsHeld'
  BY <1>17 DEF SpawnAbandoned
<1>18. ASSUME NEW c \in ToolCall, CommandEnds(c) PROVE ProcessIsHeld'
  BY <1>18 DEF CommandEnds
<1>19. ASSUME NEW c \in ToolCall, GiveUp(c) PROVE ProcessIsHeld'
  BY <1>19 DEF GiveUp
<1>20. CASE UNCHANGED toolVars
  BY <1>20 DEF toolVars
<1> QED
  BY <1>1, <1>2, <1>3, <1>4, <1>5, <1>6, <1>7, <1>8, <1>9, <1>10, <1>11, <1>12,
     <1>13, <1>14, <1>15, <1>16, <1>17, <1>18, <1>19, <1>20
     DEF ToolsNext, ToolsStep

(* Answers wait for the task or for the revocation, which is final.         *)
LEMMA SafeKept ==
    ASSUME ToolsInv, [ToolsNext]_toolVars
    PROVE  AnswerIsSafe'
<1> USE DEF ToolsInv, ToolTypes, UnstartedIsBare, ProcessIsHeld, AnswerIsSafe,
        Sweeper, Wait, Task, Killed, sweepVars, processVars, Over
<1>1. ASSUME NEW c \in ToolCall, ProcessAppears(c) PROVE AnswerIsSafe'
  BY <1>1 DEF ProcessAppears
<1>2. ASSUME NEW c \in ToolCall, SpawnSettles(c) PROVE AnswerIsSafe'
  BY <1>2 DEF SpawnSettles
<1>3. ASSUME NEW c \in ToolCall, Runs(c) PROVE AnswerIsSafe'
  BY <1>3 DEF Runs
<1>4. ASSUME NEW c \in ToolCall, Reap(c) PROVE AnswerIsSafe'
  BY <1>4 DEF Reap
<1>5. ASSUME NEW c \in ToolCall, Kill(c) PROVE AnswerIsSafe'
  BY <1>5 DEF Kill
<1>6. ASSUME NEW c \in ToolCall, FileStarts(c) PROVE AnswerIsSafe'
  BY <1>6 DEF FileStarts
<1>7. ASSUME NEW c \in ToolCall, FileEnds(c) PROVE AnswerIsSafe'
  BY <1>7 DEF FileEnds
<1>8. ASSUME NEW c \in ToolCall, Answer(c) PROVE AnswerIsSafe'
  BY <1>8 DEF Answer
<1>9. ASSUME NEW c \in ToolCall, Grace(c) PROVE AnswerIsSafe'
  BY <1>9 DEF Grace
<1>10. ASSUME NEW c \in ToolCall, AbortWaited(c) PROVE AnswerIsSafe'
  BY <1>10 DEF AbortWaited
<1>11. ASSUME NEW s \in Sweeper, CloseRegistry(s) PROVE AnswerIsSafe'
  BY <1>11 DEF CloseRegistry, Sweeps
<1>12. ASSUME NEW s \in Sweeper, HandoffsEnd(s) PROVE AnswerIsSafe'
  BY <1>12 DEF HandoffsEnd, Sweeps
<1>13. ASSUME NEW s \in Sweeper, KillAll(s) PROVE AnswerIsSafe'
  BY <1>13 DEF KillAll, Sweeps
<1>14. ASSUME NEW s \in Sweeper, SweepEnds(s) PROVE AnswerIsSafe'
  BY <1>14 DEF SweepEnds, Sweeps
<1>15. CASE CleanupByOwner
  BY <1>15 DEF CleanupByOwner
<1>16. ASSUME NEW c \in ToolCall, StartTool(c) PROVE AnswerIsSafe'
  BY <1>16 DEF StartTool
<1>17. ASSUME NEW c \in ToolCall, SpawnAbandoned(c) PROVE AnswerIsSafe'
  BY <1>17 DEF SpawnAbandoned
<1>18. ASSUME NEW c \in ToolCall, CommandEnds(c) PROVE AnswerIsSafe'
  BY <1>18 DEF CommandEnds
<1>19. ASSUME NEW c \in ToolCall, GiveUp(c) PROVE AnswerIsSafe'
  BY <1>19 DEF GiveUp
<1>20. CASE UNCHANGED toolVars
  BY <1>20 DEF toolVars
<1> QED
  BY <1>1, <1>2, <1>3, <1>4, <1>5, <1>6, <1>7, <1>8, <1>9, <1>10, <1>11, <1>12,
     <1>13, <1>14, <1>15, <1>16, <1>17, <1>18, <1>19, <1>20
     DEF ToolsNext, ToolsStep

(* Nothing starts once the environment is revoked, so a sweep stays done.   *)
LEMMA SweepsKept ==
    ASSUME ToolsInv, [ToolsNext]_toolVars
    PROVE  SweepHolds'
<1> USE DEF ToolsInv, ToolTypes, UnstartedIsBare, ProcessIsHeld, SweepHolds,
        Sweeper, Wait, Task, Killed, sweepVars, processVars, Filing, Unkillable, Writes
<1>1. ASSUME NEW c \in ToolCall, ProcessAppears(c) PROVE SweepHolds'
  BY <1>1 DEF ProcessAppears
<1>2. ASSUME NEW c \in ToolCall, SpawnSettles(c) PROVE SweepHolds'
  BY <1>2 DEF SpawnSettles
<1>3. ASSUME NEW c \in ToolCall, Runs(c) PROVE SweepHolds'
  BY <1>3 DEF Runs
<1>4. ASSUME NEW c \in ToolCall, Reap(c) PROVE SweepHolds'
  BY <1>4 DEF Reap
<1>5. ASSUME NEW c \in ToolCall, Kill(c) PROVE SweepHolds'
  BY <1>5 DEF Kill
<1>6. ASSUME NEW c \in ToolCall, FileStarts(c) PROVE SweepHolds'
  BY <1>6 DEF FileStarts
<1>7. ASSUME NEW c \in ToolCall, FileEnds(c) PROVE SweepHolds'
  BY <1>7 DEF FileEnds
<1>8. ASSUME NEW c \in ToolCall, Answer(c) PROVE SweepHolds'
  BY <1>8 DEF Answer
<1>9. ASSUME NEW c \in ToolCall, Grace(c) PROVE SweepHolds'
  BY <1>9 DEF Grace
<1>10. ASSUME NEW c \in ToolCall, AbortWaited(c) PROVE SweepHolds'
  BY <1>10 DEF AbortWaited
<1>11. ASSUME NEW s \in Sweeper, CloseRegistry(s) PROVE SweepHolds'
  BY <1>11 DEF CloseRegistry, Sweeps
<1>12. ASSUME NEW s \in Sweeper, HandoffsEnd(s) PROVE SweepHolds'
  BY <1>12 DEF HandoffsEnd, Sweeps
<1>13. ASSUME NEW s \in Sweeper, KillAll(s) PROVE SweepHolds'
  BY <1>13 DEF KillAll, Sweeps
<1>14. ASSUME NEW s \in Sweeper, SweepEnds(s) PROVE SweepHolds'
  BY <1>14 DEF SweepEnds, Sweeps
<1>15. CASE CleanupByOwner
  BY <1>15 DEF CleanupByOwner
<1>16. ASSUME NEW c \in ToolCall, StartTool(c) PROVE SweepHolds'
  BY <1>16 DEF StartTool
<1>17. ASSUME NEW c \in ToolCall, SpawnAbandoned(c) PROVE SweepHolds'
  BY <1>17 DEF SpawnAbandoned
<1>18. ASSUME NEW c \in ToolCall, CommandEnds(c) PROVE SweepHolds'
  BY <1>18 DEF CommandEnds
<1>19. ASSUME NEW c \in ToolCall, GiveUp(c) PROVE SweepHolds'
  BY <1>19 DEF GiveUp
<1>20. CASE UNCHANGED toolVars
  BY <1>20 DEF toolVars
<1> QED
  BY <1>1, <1>2, <1>3, <1>4, <1>5, <1>6, <1>7, <1>8, <1>9, <1>10, <1>11, <1>12,
     <1>13, <1>14, <1>15, <1>16, <1>17, <1>18, <1>19, <1>20
     DEF ToolsNext, ToolsStep

(* Nothing runs on behind an answered call or a swept environment, for any  *)
(* number of calls that share it, any limit on file operations and any      *)
(* number of cleanups (execute_tool, ProcessRegistry, LocalEnvironment).    *)
THEOREM ToolsLeaveNothing == ToolsSpec => []NothingRunsOn
<1>1. ToolsInv /\ [ToolsNext]_toolVars => ToolsInv'
  BY ToolTypesKept, BareKept, HeldKept, SafeKept, SweepsKept DEF ToolsInv
<1>2. ToolsInv => NothingRunsOn
  <2> SUFFICES ASSUME ToolsInv PROVE NothingRunsOn
    OBVIOUS
  <2>1. AnsweredIsQuiet
    BY DEF ToolsInv, AnswerIsSafe, ProcessIsHeld, AnsweredIsQuiet
  <2>2. SweptIsStill
    BY DEF ToolsInv, SweepHolds, SweptIsStill
  <2> QED
    BY <2>1, <2>2 DEF NothingRunsOn
<1> QED
  BY ToolsStart, <1>1, <1>2, PTL DEF ToolsSpec

-----------------------------------------------------------------------------
(* Requests to a provider                                                   *)

(* No call has been made.                                                   *)
LEMMA RequestsStart == RequestsInit => RequestsInv
BY DEF RequestsInit, RequestsInv, RequestTypes, LedgerAddsUp, WholeIsComplete, CollectedApart

(* Every step of a call keeps the types.                                    *)
LEMMA RequestTypesKept ==
    ASSUME RequestsInv, [RequestsNext]_llmVars
    PROVE  RequestTypes'
<1> USE DEF RequestsInv, RequestTypes, To
<1>1. ASSUME NEW r \in Request, Call(r) PROVE RequestTypes'
  BY <1>1 DEF Call
<1>2. ASSUME NEW r \in Request, Admit(r) PROVE RequestTypes'
  BY <1>2 DEF Admit
<1>3. ASSUME NEW r \in Request, Open(r) PROVE RequestTypes'
  BY <1>3 DEF Open
<1>4. ASSUME NEW r \in Request, Event(r) PROVE RequestTypes'
  <2>1. CASE WholeAnswer(r)
    BY <1>4, <2>1 DEF Event, WholeAnswer, ReportsUsage
  <2>2. CASE Protocol[r] # "whole" /\ Collects(r)
    BY <1>4, <2>2 DEF Event, Collects
  <2>3. CASE /\ ended[r] = "no" /\ Collected(r) /\ Protocol[r] # "whole"
            /\ ended' = [ended EXCEPT ![r] = "finish"] /\ UNCHANGED <<phase, got, counted, billed>>
    BY <1>4, <2>3 DEF Event
  <2>4. CASE /\ ended[r] = "finish" /\ ~counted[r] /\ Protocol[r] # "whole"
            /\ ReportsUsage(r) /\ UNCHANGED <<phase, got, ended>>
    BY <1>4, <2>4 DEF Event, ReportsUsage
  <2>5. CASE ChatEnds(r)
    BY <1>4, <2>5 DEF Event, ChatEnds
  <2>6. CASE /\ ended[r] = "no" /\ Collected(r) /\ ended' = [ended EXCEPT ![r] = "finish"] 
            /\ Protocol[r] # "whole" /\ ReportsUsage(r) /\ To(r, "close") /\ UNCHANGED got
    BY <1>4, <2>6 DEF Event, ReportsUsage
  <2>7. CASE /\ ended[r] = "no" /\ ended' = [ended EXCEPT ![r] = "failed"] 
            /\ Protocol[r] # "whole" /\ ReportsUsage(r) /\ To(r, "close") /\ UNCHANGED got
    BY <1>4, <2>7 DEF Event, ReportsUsage
  <2> QED
    BY <1>4, <2>1, <2>2, <2>3, <2>4, <2>5, <2>6, <2>7
       DEF Event, ChatChunk, ResponseEvent, ChatEnds,
                Collects
<1>5. ASSUME NEW r \in Request, Close(r) PROVE RequestTypes'
  BY <1>5 DEF Close
<1>6. ASSUME NEW r \in Request, Accept(r) PROVE RequestTypes'
  BY <1>6 DEF Accept, Ends
<1>7. ASSUME NEW r \in Request, Reject(r) PROVE RequestTypes'
  BY <1>7 DEF Reject, Adds, Ends
<1>8. ASSUME NEW r \in Request, Retry(r) PROVE RequestTypes'
  BY <1>8 DEF Retry, Adds, Ends, Interrupted
<1>9. ASSUME NEW r \in Request, Backoff(r) PROVE RequestTypes'
  BY <1>9 DEF Backoff
<1>10. ASSUME NEW r \in Request, RecordUsage(r) PROVE RequestTypes'
  BY <1>10 DEF RecordUsage
<1>11. ASSUME NEW r \in Request, CancelRequest(r) PROVE RequestTypes'
  BY <1>11 DEF CancelRequest, Adds, Ends
<1>12. ASSUME NEW r \in Request, Die(r) PROVE RequestTypes'
  BY <1>12 DEF Die
<1>13. CASE UNCHANGED llmVars
  BY <1>13 DEF llmVars
<1> QED
  BY <1>1, <1>2, <1>3, <1>4, <1>5, <1>6, <1>7, <1>8, <1>9, <1>10, <1>11, <1>12, <1>13
     DEF RequestsNext, RequestsStep

(* What an attempt reported is added once, when the attempt is over.        *)
LEMMA LedgerKept ==
    ASSUME RequestsInv, [RequestsNext]_llmVars
    PROVE  LedgerAddsUp'
<1> USE DEF RequestsInv, RequestTypes, LedgerAddsUp, WholeIsComplete, To, Complete
<1>1. ASSUME NEW r \in Request, Call(r) PROVE LedgerAddsUp'
  BY <1>1 DEF Call
<1>2. ASSUME NEW r \in Request, Admit(r) PROVE LedgerAddsUp'
  BY <1>2 DEF Admit
<1>3. ASSUME NEW r \in Request, Open(r) PROVE LedgerAddsUp'
  BY <1>3 DEF Open
<1>4. ASSUME NEW r \in Request, Event(r) PROVE LedgerAddsUp'
  <2>1. CASE WholeAnswer(r)
    BY <1>4, <2>1 DEF Event, WholeAnswer, ReportsUsage
  <2>2. CASE Protocol[r] # "whole" /\ Collects(r)
    BY <1>4, <2>2 DEF Event, Collects
  <2>3. CASE /\ ended[r] = "no" /\ Collected(r) /\ Protocol[r] # "whole"
            /\ ended' = [ended EXCEPT ![r] = "finish"] /\ UNCHANGED <<phase, got, counted, billed>>
    BY <1>4, <2>3 DEF Event
  <2>4. CASE /\ ended[r] = "finish" /\ ~counted[r] /\ Protocol[r] # "whole"
            /\ ReportsUsage(r) /\ UNCHANGED <<phase, got, ended>>
    BY <1>4, <2>4 DEF Event, ReportsUsage
  <2>5. CASE ChatEnds(r)
    BY <1>4, <2>5 DEF Event, ChatEnds
  <2>6. CASE /\ ended[r] = "no" /\ Collected(r) /\ ended' = [ended EXCEPT ![r] = "finish"] 
            /\ Protocol[r] # "whole" /\ ReportsUsage(r) /\ To(r, "close") /\ UNCHANGED got
    BY <1>4, <2>6 DEF Event, ReportsUsage
  <2>7. CASE /\ ended[r] = "no" /\ ended' = [ended EXCEPT ![r] = "failed"] 
            /\ Protocol[r] # "whole" /\ ReportsUsage(r) /\ To(r, "close") /\ UNCHANGED got
    BY <1>4, <2>7 DEF Event, ReportsUsage
  <2> QED
    BY <1>4, <2>1, <2>2, <2>3, <2>4, <2>5, <2>6, <2>7
       DEF Event, ChatChunk, ResponseEvent, ChatEnds,
                Collects
<1>5. ASSUME NEW r \in Request, Close(r) PROVE LedgerAddsUp'
  BY <1>5 DEF Close
<1>6. ASSUME NEW r \in Request, Accept(r) PROVE LedgerAddsUp'
  BY <1>6 DEF Accept, Ends
<1>7. ASSUME NEW r \in Request, Reject(r) PROVE LedgerAddsUp'
  BY <1>7 DEF Reject, Adds, Ends
<1>8. ASSUME NEW r \in Request, Retry(r) PROVE LedgerAddsUp'
  BY <1>8 DEF Retry, Adds, Ends, Interrupted
<1>9. ASSUME NEW r \in Request, Backoff(r) PROVE LedgerAddsUp'
  BY <1>9 DEF Backoff
<1>10. ASSUME NEW r \in Request, RecordUsage(r) PROVE LedgerAddsUp'
  BY <1>10 DEF RecordUsage
<1>11. ASSUME NEW r \in Request, CancelRequest(r) PROVE LedgerAddsUp'
  BY <1>11 DEF CancelRequest, Adds, Ends
<1>12. ASSUME NEW r \in Request, Die(r) PROVE LedgerAddsUp'
  BY <1>12 DEF Die
<1>13. CASE UNCHANGED llmVars
  BY <1>13 DEF llmVars
<1> QED
  BY <1>1, <1>2, <1>3, <1>4, <1>5, <1>6, <1>7, <1>8, <1>9, <1>10, <1>11, <1>12, <1>13
     DEF RequestsNext, RequestsStep

(* Only the arrival of a whole answer ends its stream and its usage.        *)
LEMMA WholeKept ==
    ASSUME RequestsInv, [RequestsNext]_llmVars
    PROVE  WholeIsComplete'
<1> USE DEF RequestsInv, RequestTypes, WholeIsComplete, To, Complete
<1>1. ASSUME NEW r \in Request, Call(r) PROVE WholeIsComplete'
  BY <1>1 DEF Call
<1>2. ASSUME NEW r \in Request, Admit(r) PROVE WholeIsComplete'
  BY <1>2 DEF Admit
<1>3. ASSUME NEW r \in Request, Open(r) PROVE WholeIsComplete'
  BY <1>3 DEF Open
<1>4. ASSUME NEW r \in Request, Event(r) PROVE WholeIsComplete'
  BY <1>4 DEF Event, WholeAnswer, ChatChunk, ChatEnds, ResponseEvent, Collects, ReportsUsage
<1>5. ASSUME NEW r \in Request, Close(r) PROVE WholeIsComplete'
  BY <1>5 DEF Close
<1>6. ASSUME NEW r \in Request, Accept(r) PROVE WholeIsComplete'
  BY <1>6 DEF Accept, Ends
<1>7. ASSUME NEW r \in Request, Reject(r) PROVE WholeIsComplete'
  BY <1>7 DEF Reject, Adds, Ends
<1>8. ASSUME NEW r \in Request, Retry(r) PROVE WholeIsComplete'
  BY <1>8 DEF Retry, Adds, Ends, Interrupted
<1>9. ASSUME NEW r \in Request, Backoff(r) PROVE WholeIsComplete'
  BY <1>9 DEF Backoff
<1>10. ASSUME NEW r \in Request, RecordUsage(r) PROVE WholeIsComplete'
  BY <1>10 DEF RecordUsage
<1>11. ASSUME NEW r \in Request, CancelRequest(r) PROVE WholeIsComplete'
  BY <1>11 DEF CancelRequest, Adds, Ends
<1>12. ASSUME NEW r \in Request, Die(r) PROVE WholeIsComplete'
  BY <1>12 DEF Die
<1>13. CASE UNCHANGED llmVars
  BY <1>13 DEF llmVars
<1> QED
  BY <1>1, <1>2, <1>3, <1>4, <1>5, <1>6, <1>7, <1>8, <1>9, <1>10, <1>11, <1>12, <1>13
     DEF RequestsNext, RequestsStep

(* A new attempt starts with nothing, and ends with all of its own.         *)
LEMMA CollectedKept ==
    ASSUME RequestsInv, [RequestsNext]_llmVars
    PROVE  CollectedApart'
<1> USE DEF RequestsInv, RequestTypes, CollectedApart, To, Complete, Collected
<1>1. ASSUME NEW r \in Request, Call(r) PROVE CollectedApart'
  BY <1>1 DEF Call
<1>2. ASSUME NEW r \in Request, Admit(r) PROVE CollectedApart'
  BY <1>2 DEF Admit
<1>3. ASSUME NEW r \in Request, Open(r) PROVE CollectedApart'
  BY <1>3 DEF Open
<1>4. ASSUME NEW r \in Request, Event(r) PROVE CollectedApart'
  <2>1. CASE WholeAnswer(r)
    BY <1>4, <2>1 DEF Event, WholeAnswer, ReportsUsage
  <2>2. CASE Protocol[r] # "whole" /\ Collects(r)
    BY <1>4, <2>2 DEF Event, Collects
  <2>3. CASE /\ ended[r] = "no" /\ Collected(r) /\ Protocol[r] # "whole"
            /\ ended' = [ended EXCEPT ![r] = "finish"] /\ UNCHANGED <<phase, got, counted, billed>>
    BY <1>4, <2>3 DEF Event
  <2>4. CASE /\ ended[r] = "finish" /\ ~counted[r] /\ Protocol[r] # "whole"
            /\ ReportsUsage(r) /\ UNCHANGED <<phase, got, ended>>
    BY <1>4, <2>4 DEF Event, ReportsUsage
  <2>5. CASE ChatEnds(r)
    BY <1>4, <2>5 DEF Event, ChatEnds
  <2>6. CASE /\ ended[r] = "no" /\ Collected(r) /\ ended' = [ended EXCEPT ![r] = "finish"] 
            /\ Protocol[r] # "whole" /\ ReportsUsage(r) /\ To(r, "close") /\ UNCHANGED got
    BY <1>4, <2>6 DEF Event, ReportsUsage
  <2>7. CASE /\ ended[r] = "no" /\ ended' = [ended EXCEPT ![r] = "failed"] 
            /\ Protocol[r] # "whole" /\ ReportsUsage(r) /\ To(r, "close") /\ UNCHANGED got
    BY <1>4, <2>7 DEF Event, ReportsUsage
  <2> QED
    BY <1>4, <2>1, <2>2, <2>3, <2>4, <2>5, <2>6, <2>7
       DEF Event, ChatChunk, ResponseEvent, ChatEnds,
                Collects
<1>5. ASSUME NEW r \in Request, Close(r) PROVE CollectedApart'
  BY <1>5 DEF Close
<1>6. ASSUME NEW r \in Request, Accept(r) PROVE CollectedApart'
  BY <1>6 DEF Accept, Ends
<1>7. ASSUME NEW r \in Request, Reject(r) PROVE CollectedApart'
  BY <1>7 DEF Reject, Adds, Ends
<1>8. ASSUME NEW r \in Request, Retry(r) PROVE CollectedApart'
  BY <1>8 DEF Retry, Adds, Ends, Interrupted
<1>9. ASSUME NEW r \in Request, Backoff(r) PROVE CollectedApart'
  BY <1>9 DEF Backoff
<1>10. ASSUME NEW r \in Request, RecordUsage(r) PROVE CollectedApart'
  BY <1>10 DEF RecordUsage
<1>11. ASSUME NEW r \in Request, CancelRequest(r) PROVE CollectedApart'
  BY <1>11 DEF CancelRequest, Adds, Ends
<1>12. ASSUME NEW r \in Request, Die(r) PROVE CollectedApart'
  BY <1>12 DEF Die
<1>13. CASE UNCHANGED llmVars
  BY <1>13 DEF llmVars
<1> QED
  BY <1>1, <1>2, <1>3, <1>4, <1>5, <1>6, <1>7, <1>8, <1>9, <1>10, <1>11, <1>12, <1>13
     DEF RequestsNext, RequestsStep

(* A call accounts for what its attempts reported, once each, and answers   *)
(* with what one attempt sent and all of it, for any number of calls,       *)
(* retries and items (with_retry, _consume_stream, record_api_usage).       *)
THEOREM AttemptsStayApart == RequestsSpec => []AttemptsAreApart
<1>1. RequestsInv /\ [RequestsNext]_llmVars => RequestsInv'
  BY RequestTypesKept, LedgerKept, WholeKept, CollectedKept DEF RequestsInv
<1>2. RequestsInv => AttemptsAreApart
  BY DEF RequestsInv, LedgerAddsUp, CollectedApart, AttemptsAreApart, UsageIsCounted,
         AnswerIsOneAttempt
<1> QED
  BY RequestsStart, <1>1, <1>2, PTL DEF RequestsSpec

-----------------------------------------------------------------------------
(* Operations in a remote machine                                           *)

(* Nothing has been submitted.                                              *)
LEMMA RemoteStarts == RemoteInit => RemoteInv
BY DEF RemoteInit, RemoteInv, RemoteTypes, WorkerIsFirst, FinalIsLast, UnsentIsUnknown,
       ForgottenIsFinal, CleanMissesNothing, Holding, RemoteOp

(* Every step of the controller and of the guest keeps the types.           *)
LEMMA RemoteTypesKept ==
    ASSUME RemoteInv, [RemoteNext]_remoteVars
    PROVE  RemoteTypes'
<1> USE RemoteAssumption DEF RemoteInv, RemoteTypes, WorkerIsFirst,
        RemoteOp, Final, Holding, CallerIs, WorkerIs, Drop, Crisis,
        callVars, guestVars, ownerVars
<1>1. ASSUME NEW o \in RemoteOp, Arrives(o) PROVE RemoteTypes'
  BY <1>1 DEF Arrives
<1>2. ASSUME NEW o \in RemoteOp, Begins(o) PROVE RemoteTypes'
  BY <1>2 DEF Begins
<1>3. ASSUME NEW o \in RemoteOp, Performed(o) PROVE RemoteTypes'
  BY <1>3 DEF Performed
<1>4. ASSUME NEW o \in RemoteOp, StopsDescendants(o) PROVE RemoteTypes'
  BY <1>4 DEF StopsDescendants
<1>5. ASSUME NEW o \in RemoteOp, WorkerDies(o) PROVE RemoteTypes'
  BY <1>5 DEF WorkerDies
<1>6. ASSUME NEW o \in RemoteOp, Submit(o) PROVE RemoteTypes'
  BY <1>6 DEF Submit
<1>7. ASSUME NEW o \in RemoteOp, SendStart(o) PROVE RemoteTypes'
  BY <1>7 DEF SendStart, SendFails, SubmitAgain, GuestStart, LeaveUncertain, Status
<1>8. ASSUME NEW o \in RemoteOp, Query(o) PROVE RemoteTypes'
  BY <1>8 DEF Query, SubmitAgain, LeaveUncertain, SettleOp, Status
<1>9. ASSUME NEW o \in RemoteOp, CallCancelled(o) PROVE RemoteTypes'
  BY <1>9 DEF CallCancelled
<1>10. ASSUME NEW o \in RemoteOp, SendCancel(o) PROVE RemoteTypes'
  BY <1>10 DEF SendCancel, SendFails, GuestCancel, LeaveUncertain
<1>11. ASSUME NEW o \in RemoteOp, Poll(o) PROVE RemoteTypes'
  BY <1>11 DEF Poll, LeaveUncertain, SettleOp, Status
<1>12. ASSUME NEW o \in RemoteOp, Recovered(o) PROVE RemoteTypes'
  BY <1>12 DEF Recovered, SettleOp, Status
<1>13. ASSUME NEW o \in RemoteOp, CleanCancel(o) PROVE RemoteTypes'
  BY <1>13 DEF CleanCancel, SendFails, GuestCancel, CleanRaises
<1>14. ASSUME NEW o \in RemoteOp, CleanPoll(o) PROVE RemoteTypes'
  BY <1>14 DEF CleanPoll, CleanRaises, Status
<1>15. ASSUME NEW m \in wire, ArrivesLate(m) PROVE RemoteTypes'
  BY <1>15 DEF ArrivesLate, GuestStart, GuestCancel, Status
<1>16. CASE Reboot
  BY <1>16 DEF Reboot
<1>17. CASE CleanBegins
  BY <1>17 DEF CleanBegins
<1>18. CASE Cleaned
  BY <1>18 DEF Cleaned
<1>19. CASE ResetAgain
  BY <1>19 DEF ResetAgain
<1>20. CASE FreeMachine
  BY <1>20 DEF FreeMachine
<1>21. CASE UNCHANGED remoteVars
  BY <1>21 DEF remoteVars
<1> QED
  BY <1>1, <1>2, <1>3, <1>4, <1>5, <1>6, <1>7, <1>8, <1>9, <1>10, <1>11, <1>12,
     <1>13, <1>14, <1>15, <1>16, <1>17, <1>18, <1>19, <1>20, <1>21
     DEF RemoteNext

(* A worker takes the lock only if none had started before.                 *)
LEMMA FirstKept ==
    ASSUME RemoteInv, [RemoteNext]_remoteVars
    PROVE  WorkerIsFirst'
<1> USE RemoteAssumption DEF RemoteInv, RemoteTypes, WorkerIsFirst,
        RemoteOp, Final, Holding, CallerIs, WorkerIs, Drop, Crisis,
        callVars, guestVars, ownerVars
<1>1. ASSUME NEW o \in RemoteOp, Arrives(o) PROVE WorkerIsFirst'
  BY <1>1 DEF Arrives
<1>2. ASSUME NEW o \in RemoteOp, Begins(o) PROVE WorkerIsFirst'
  BY <1>2 DEF Begins
<1>3. ASSUME NEW o \in RemoteOp, Performed(o) PROVE WorkerIsFirst'
  BY <1>3 DEF Performed
<1>4. ASSUME NEW o \in RemoteOp, StopsDescendants(o) PROVE WorkerIsFirst'
  BY <1>4 DEF StopsDescendants
<1>5. ASSUME NEW o \in RemoteOp, WorkerDies(o) PROVE WorkerIsFirst'
  BY <1>5 DEF WorkerDies
<1>6. ASSUME NEW o \in RemoteOp, Submit(o) PROVE WorkerIsFirst'
  BY <1>6 DEF Submit
<1>7. ASSUME NEW o \in RemoteOp, SendStart(o) PROVE WorkerIsFirst'
  BY <1>7 DEF SendStart, SendFails, SubmitAgain, GuestStart, LeaveUncertain, Status
<1>8. ASSUME NEW o \in RemoteOp, Query(o) PROVE WorkerIsFirst'
  BY <1>8 DEF Query, SubmitAgain, LeaveUncertain, SettleOp, Status
<1>9. ASSUME NEW o \in RemoteOp, CallCancelled(o) PROVE WorkerIsFirst'
  BY <1>9 DEF CallCancelled
<1>10. ASSUME NEW o \in RemoteOp, SendCancel(o) PROVE WorkerIsFirst'
  BY <1>10 DEF SendCancel, SendFails, GuestCancel, LeaveUncertain
<1>11. ASSUME NEW o \in RemoteOp, Poll(o) PROVE WorkerIsFirst'
  BY <1>11 DEF Poll, LeaveUncertain, SettleOp, Status
<1>12. ASSUME NEW o \in RemoteOp, Recovered(o) PROVE WorkerIsFirst'
  BY <1>12 DEF Recovered, SettleOp, Status
<1>13. ASSUME NEW o \in RemoteOp, CleanCancel(o) PROVE WorkerIsFirst'
  BY <1>13 DEF CleanCancel, SendFails, GuestCancel, CleanRaises
<1>14. ASSUME NEW o \in RemoteOp, CleanPoll(o) PROVE WorkerIsFirst'
  BY <1>14 DEF CleanPoll, CleanRaises, Status
<1>15. ASSUME NEW m \in wire, ArrivesLate(m) PROVE WorkerIsFirst'
  BY <1>15 DEF ArrivesLate, GuestStart, GuestCancel, Status
<1>16. CASE Reboot
  BY <1>16 DEF Reboot
<1>17. CASE CleanBegins
  BY <1>17 DEF CleanBegins
<1>18. CASE Cleaned
  BY <1>18 DEF Cleaned
<1>19. CASE ResetAgain
  BY <1>19 DEF ResetAgain
<1>20. CASE FreeMachine
  BY <1>20 DEF FreeMachine
<1>21. CASE UNCHANGED remoteVars
  BY <1>21 DEF remoteVars
<1> QED
  BY <1>1, <1>2, <1>3, <1>4, <1>5, <1>6, <1>7, <1>8, <1>9, <1>10, <1>11, <1>12,
     <1>13, <1>14, <1>15, <1>16, <1>17, <1>18, <1>19, <1>20, <1>21
     DEF RemoteNext

(* A result is final when the descendants are gone, or nothing began.       *)
LEMMA LastKept ==
    ASSUME RemoteInv, [RemoteNext]_remoteVars
    PROVE  FinalIsLast'
<1> USE RemoteAssumption DEF RemoteInv, RemoteTypes, WorkerIsFirst, FinalIsLast,
        RemoteOp, Final, Holding, CallerIs, WorkerIs, Drop, Crisis,
        callVars, guestVars, ownerVars
<1>1. ASSUME NEW o \in RemoteOp, Arrives(o) PROVE FinalIsLast'
  BY <1>1 DEF Arrives
<1>2. ASSUME NEW o \in RemoteOp, Begins(o) PROVE FinalIsLast'
  BY <1>2 DEF Begins
<1>3. ASSUME NEW o \in RemoteOp, Performed(o) PROVE FinalIsLast'
  BY <1>3 DEF Performed
<1>4. ASSUME NEW o \in RemoteOp, StopsDescendants(o) PROVE FinalIsLast'
  BY <1>4 DEF StopsDescendants
<1>5. ASSUME NEW o \in RemoteOp, WorkerDies(o) PROVE FinalIsLast'
  BY <1>5 DEF WorkerDies
<1>6. ASSUME NEW o \in RemoteOp, Submit(o) PROVE FinalIsLast'
  BY <1>6 DEF Submit
<1>7. ASSUME NEW o \in RemoteOp, SendStart(o) PROVE FinalIsLast'
  BY <1>7 DEF SendStart, SendFails, SubmitAgain, GuestStart, LeaveUncertain, Status
<1>8. ASSUME NEW o \in RemoteOp, Query(o) PROVE FinalIsLast'
  BY <1>8 DEF Query, SubmitAgain, LeaveUncertain, SettleOp, Status
<1>9. ASSUME NEW o \in RemoteOp, CallCancelled(o) PROVE FinalIsLast'
  BY <1>9 DEF CallCancelled
<1>10. ASSUME NEW o \in RemoteOp, SendCancel(o) PROVE FinalIsLast'
  BY <1>10 DEF SendCancel, SendFails, GuestCancel, LeaveUncertain
<1>11. ASSUME NEW o \in RemoteOp, Poll(o) PROVE FinalIsLast'
  BY <1>11 DEF Poll, LeaveUncertain, SettleOp, Status
<1>12. ASSUME NEW o \in RemoteOp, Recovered(o) PROVE FinalIsLast'
  BY <1>12 DEF Recovered, SettleOp, Status
<1>13. ASSUME NEW o \in RemoteOp, CleanCancel(o) PROVE FinalIsLast'
  BY <1>13 DEF CleanCancel, SendFails, GuestCancel, CleanRaises
<1>14. ASSUME NEW o \in RemoteOp, CleanPoll(o) PROVE FinalIsLast'
  BY <1>14 DEF CleanPoll, CleanRaises, Status
<1>15. ASSUME NEW m \in wire, ArrivesLate(m) PROVE FinalIsLast'
  BY <1>15 DEF ArrivesLate, GuestStart, GuestCancel, Status
<1>16. CASE Reboot
  BY <1>16 DEF Reboot
<1>17. CASE CleanBegins
  BY <1>17 DEF CleanBegins
<1>18. CASE Cleaned
  BY <1>18 DEF Cleaned
<1>19. CASE ResetAgain
  BY <1>19 DEF ResetAgain
<1>20. CASE FreeMachine
  BY <1>20 DEF FreeMachine
<1>21. CASE UNCHANGED remoteVars
  BY <1>21 DEF remoteVars
<1> QED
  BY <1>1, <1>2, <1>3, <1>4, <1>5, <1>6, <1>7, <1>8, <1>9, <1>10, <1>11, <1>12,
     <1>13, <1>14, <1>15, <1>16, <1>17, <1>18, <1>19, <1>20, <1>21
     DEF RemoteNext

(* Only a call of the controller sends a start.                             *)
LEMMA UnsentKept ==
    ASSUME RemoteInv, [RemoteNext]_remoteVars
    PROVE  UnsentIsUnknown'
<1> USE RemoteAssumption DEF RemoteInv, RemoteTypes, UnsentIsUnknown,
        RemoteOp, Final, Holding, CallerIs, WorkerIs, Drop, Crisis,
        callVars, guestVars, ownerVars
<1>1. ASSUME NEW o \in RemoteOp, Arrives(o) PROVE UnsentIsUnknown'
  BY <1>1 DEF Arrives
<1>2. ASSUME NEW o \in RemoteOp, Begins(o) PROVE UnsentIsUnknown'
  BY <1>2 DEF Begins
<1>3. ASSUME NEW o \in RemoteOp, Performed(o) PROVE UnsentIsUnknown'
  BY <1>3 DEF Performed
<1>4. ASSUME NEW o \in RemoteOp, StopsDescendants(o) PROVE UnsentIsUnknown'
  BY <1>4 DEF StopsDescendants
<1>5. ASSUME NEW o \in RemoteOp, WorkerDies(o) PROVE UnsentIsUnknown'
  BY <1>5 DEF WorkerDies
<1>6. ASSUME NEW o \in RemoteOp, Submit(o) PROVE UnsentIsUnknown'
  BY <1>6 DEF Submit
<1>7. ASSUME NEW o \in RemoteOp, SendStart(o) PROVE UnsentIsUnknown'
  BY <1>7 DEF SendStart, SendFails, SubmitAgain, GuestStart, LeaveUncertain, Status
<1>8. ASSUME NEW o \in RemoteOp, Query(o) PROVE UnsentIsUnknown'
  BY <1>8 DEF Query, SubmitAgain, LeaveUncertain, SettleOp, Status
<1>9. ASSUME NEW o \in RemoteOp, CallCancelled(o) PROVE UnsentIsUnknown'
  BY <1>9 DEF CallCancelled
<1>10. ASSUME NEW o \in RemoteOp, SendCancel(o) PROVE UnsentIsUnknown'
  BY <1>10 DEF SendCancel, SendFails, GuestCancel, LeaveUncertain
<1>11. ASSUME NEW o \in RemoteOp, Poll(o) PROVE UnsentIsUnknown'
  BY <1>11 DEF Poll, LeaveUncertain, SettleOp, Status
<1>12. ASSUME NEW o \in RemoteOp, Recovered(o) PROVE UnsentIsUnknown'
  BY <1>12 DEF Recovered, SettleOp, Status
<1>13. ASSUME NEW o \in RemoteOp, CleanCancel(o) PROVE UnsentIsUnknown'
  BY <1>13 DEF CleanCancel, SendFails, GuestCancel, CleanRaises
<1>14. ASSUME NEW o \in RemoteOp, CleanPoll(o) PROVE UnsentIsUnknown'
  BY <1>14 DEF CleanPoll, CleanRaises, Status
<1>15. ASSUME NEW m \in wire, ArrivesLate(m) PROVE UnsentIsUnknown'
  BY <1>15 DEF ArrivesLate, GuestStart, GuestCancel, Status
<1>16. CASE Reboot
  BY <1>16 DEF Reboot
<1>17. CASE CleanBegins
  BY <1>17 DEF CleanBegins
<1>18. CASE Cleaned
  BY <1>18 DEF Cleaned
<1>19. CASE ResetAgain
  BY <1>19 DEF ResetAgain
<1>20. CASE FreeMachine
  BY <1>20 DEF FreeMachine
<1>21. CASE UNCHANGED remoteVars
  BY <1>21 DEF remoteVars
<1> QED
  BY <1>1, <1>2, <1>3, <1>4, <1>5, <1>6, <1>7, <1>8, <1>9, <1>10, <1>11, <1>12,
     <1>13, <1>14, <1>15, <1>16, <1>17, <1>18, <1>19, <1>20, <1>21
     DEF RemoteNext

(* The controller settles on a final result only, and that stays.           *)
LEMMA ForgottenKept ==
    ASSUME RemoteInv, [RemoteNext]_remoteVars
    PROVE  ForgottenIsFinal'
<1> USE RemoteAssumption DEF RemoteInv, RemoteTypes, FinalIsLast, UnsentIsUnknown, ForgottenIsFinal,
        RemoteOp, Final, Holding, CallerIs, WorkerIs, Drop, Crisis,
        callVars, guestVars, ownerVars
<1>1. ASSUME NEW o \in RemoteOp, Arrives(o) PROVE ForgottenIsFinal'
  BY <1>1 DEF Arrives
<1>2. ASSUME NEW o \in RemoteOp, Begins(o) PROVE ForgottenIsFinal'
  BY <1>2 DEF Begins
<1>3. ASSUME NEW o \in RemoteOp, Performed(o) PROVE ForgottenIsFinal'
  BY <1>3 DEF Performed
<1>4. ASSUME NEW o \in RemoteOp, StopsDescendants(o) PROVE ForgottenIsFinal'
  BY <1>4 DEF StopsDescendants
<1>5. ASSUME NEW o \in RemoteOp, WorkerDies(o) PROVE ForgottenIsFinal'
  BY <1>5 DEF WorkerDies
<1>6. ASSUME NEW o \in RemoteOp, Submit(o) PROVE ForgottenIsFinal'
  BY <1>6 DEF Submit
<1>7. ASSUME NEW o \in RemoteOp, SendStart(o) PROVE ForgottenIsFinal'
  BY <1>7 DEF SendStart, SendFails, SubmitAgain, GuestStart, LeaveUncertain, Status
<1>8. ASSUME NEW o \in RemoteOp, Query(o) PROVE ForgottenIsFinal'
  BY <1>8 DEF Query, SubmitAgain, LeaveUncertain, SettleOp, Status
<1>9. ASSUME NEW o \in RemoteOp, CallCancelled(o) PROVE ForgottenIsFinal'
  BY <1>9 DEF CallCancelled
<1>10. ASSUME NEW o \in RemoteOp, SendCancel(o) PROVE ForgottenIsFinal'
  BY <1>10 DEF SendCancel, SendFails, GuestCancel, LeaveUncertain
<1>11. ASSUME NEW o \in RemoteOp, Poll(o) PROVE ForgottenIsFinal'
  BY <1>11 DEF Poll, LeaveUncertain, SettleOp, Status
<1>12. ASSUME NEW o \in RemoteOp, Recovered(o) PROVE ForgottenIsFinal'
  BY <1>12 DEF Recovered, SettleOp, Status
<1>13. ASSUME NEW o \in RemoteOp, CleanCancel(o) PROVE ForgottenIsFinal'
  BY <1>13 DEF CleanCancel, SendFails, GuestCancel, CleanRaises
<1>14. ASSUME NEW o \in RemoteOp, CleanPoll(o) PROVE ForgottenIsFinal'
  BY <1>14 DEF CleanPoll, CleanRaises, Status
<1>15. ASSUME NEW m \in wire, ArrivesLate(m) PROVE ForgottenIsFinal'
  BY <1>15 DEF ArrivesLate, GuestStart, GuestCancel, Status
<1>16. CASE Reboot
  BY <1>16 DEF Reboot
<1>17. CASE CleanBegins
  BY <1>17 DEF CleanBegins
<1>18. CASE Cleaned
  BY <1>18 DEF Cleaned
<1>19. CASE ResetAgain
  BY <1>19 DEF ResetAgain
<1>20. CASE FreeMachine
  BY <1>20 DEF FreeMachine
<1>21. CASE UNCHANGED remoteVars
  BY <1>21 DEF remoteVars
<1> QED
  BY <1>1, <1>2, <1>3, <1>4, <1>5, <1>6, <1>7, <1>8, <1>9, <1>10, <1>11, <1>12,
     <1>13, <1>14, <1>15, <1>16, <1>17, <1>18, <1>19, <1>20, <1>21
     DEF RemoteNext

(* A cleanup covers all operations, and none is added meanwhile.            *)
LEMMA CleanKept ==
    ASSUME RemoteInv, [RemoteNext]_remoteVars
    PROVE  CleanMissesNothing'
<1> USE RemoteAssumption DEF RemoteInv, RemoteTypes, UnsentIsUnknown, ForgottenIsFinal, CleanMissesNothing,
        RemoteOp, Final, Holding, CallerIs, WorkerIs, Drop, Crisis,
        callVars, guestVars, ownerVars
<1>1. ASSUME NEW o \in RemoteOp, Arrives(o) PROVE CleanMissesNothing'
  BY <1>1 DEF Arrives
<1>2. ASSUME NEW o \in RemoteOp, Begins(o) PROVE CleanMissesNothing'
  BY <1>2 DEF Begins
<1>3. ASSUME NEW o \in RemoteOp, Performed(o) PROVE CleanMissesNothing'
  BY <1>3 DEF Performed
<1>4. ASSUME NEW o \in RemoteOp, StopsDescendants(o) PROVE CleanMissesNothing'
  BY <1>4 DEF StopsDescendants
<1>5. ASSUME NEW o \in RemoteOp, WorkerDies(o) PROVE CleanMissesNothing'
  BY <1>5 DEF WorkerDies
<1>6. ASSUME NEW o \in RemoteOp, Submit(o) PROVE CleanMissesNothing'
  BY <1>6 DEF Submit
<1>7. ASSUME NEW o \in RemoteOp, SendStart(o) PROVE CleanMissesNothing'
  BY <1>7 DEF SendStart, SendFails, SubmitAgain, GuestStart, LeaveUncertain, Status
<1>8. ASSUME NEW o \in RemoteOp, Query(o) PROVE CleanMissesNothing'
  BY <1>8 DEF Query, SubmitAgain, LeaveUncertain, SettleOp, Status
<1>9. ASSUME NEW o \in RemoteOp, CallCancelled(o) PROVE CleanMissesNothing'
  BY <1>9 DEF CallCancelled
<1>10. ASSUME NEW o \in RemoteOp, SendCancel(o) PROVE CleanMissesNothing'
  BY <1>10 DEF SendCancel, SendFails, GuestCancel, LeaveUncertain
<1>11. ASSUME NEW o \in RemoteOp, Poll(o) PROVE CleanMissesNothing'
  BY <1>11 DEF Poll, LeaveUncertain, SettleOp, Status
<1>12. ASSUME NEW o \in RemoteOp, Recovered(o) PROVE CleanMissesNothing'
  BY <1>12 DEF Recovered, SettleOp, Status
<1>13. ASSUME NEW o \in RemoteOp, CleanCancel(o) PROVE CleanMissesNothing'
  BY <1>13 DEF CleanCancel, SendFails, GuestCancel, CleanRaises
<1>14. ASSUME NEW o \in RemoteOp, CleanPoll(o) PROVE CleanMissesNothing'
  BY <1>14 DEF CleanPoll, CleanRaises, Status
<1>15. ASSUME NEW m \in wire, ArrivesLate(m) PROVE CleanMissesNothing'
  BY <1>15 DEF ArrivesLate, GuestStart, GuestCancel, Status
<1>16. CASE Reboot
  BY <1>16 DEF Reboot
<1>17. CASE CleanBegins
  BY <1>17 DEF CleanBegins
<1>18. CASE Cleaned
  BY <1>18 DEF Cleaned
<1>19. CASE ResetAgain
  BY <1>19 DEF ResetAgain
<1>20. CASE FreeMachine
  BY <1>20 DEF FreeMachine
<1>21. CASE UNCHANGED remoteVars
  BY <1>21 DEF remoteVars
<1> QED
  BY <1>1, <1>2, <1>3, <1>4, <1>5, <1>6, <1>7, <1>8, <1>9, <1>10, <1>11, <1>12,
     <1>13, <1>14, <1>15, <1>16, <1>17, <1>18, <1>19, <1>20, <1>21
     DEF RemoteNext

(* Nothing is performed twice and nothing runs on in a machine that was     *)
(* given back, for any number of operations, lost or late requests, killed  *)
(* workers, resisting descendants and a reboot (_operate, _rpc, _worker,    *)
(* _cleanup_owner).                                                         *)
THEOREM MachinesAreSound == RemoteSpec => []RemoteIsSound
<1>1. RemoteInv /\ [RemoteNext]_remoteVars => RemoteInv'
  BY RemoteTypesKept, FirstKept, LastKept, UnsentKept, ForgottenKept, CleanKept DEF RemoteInv
<1>2. RemoteInv => RemoteIsSound
  <2> SUFFICES ASSUME RemoteInv PROVE RemoteIsSound
    OBVIOUS
  <2>1. RunsOnce
    BY DEF RemoteInv, RemoteTypes, WorkerIsFirst, RunsOnce
  <2>2. \A o \in RemoteOp : result[o] \in Final => Silent(o)
    BY DEF RemoteInv, FinalIsLast, Silent
  <2>3. \A o \in RemoteOp : caller[o] = "idle" => Silent(o)
    BY DEF RemoteInv, WorkerIsFirst, UnsentIsUnknown, Silent
  <2>4. FreedIsQuiet
    BY <2>2, <2>3 DEF RemoteInv, ForgottenIsFinal, CleanMissesNothing, FreedIsQuiet, RemoteOp
  <2> QED
    BY <2>1, <2>4 DEF RemoteIsSound
<1> QED
  BY RemoteStarts, <1>1, <1>2, PTL DEF RemoteSpec

-----------------------------------------------------------------------------
(* Commands in a container                                                  *)

(* No command has been run.                                                 *)
LEMMA ContainerStarts == ContainerInit => ContainerInv
BY FS_EmptySet DEF ContainerInit, ContainerInv, ContainerTypes, GroupsAreTold, LockIsHeld,
       EditsAreKept, ContainerIsKept, Owned

(* A release stops commands that are registered, and revokes their views.   *)
LEMMA AbortViewsHits ==
    ASSUME ContainerTypes, ReleasePool \/ \E v \in View : ReleaseView(v)
    PROVE  /\ group' \in [Command -> {"none", "starting", "alive", "dead"}]
           /\ \A c \in Command : \/ group'[c] = group[c]
                                 \/ group'[c] = "dead" /\ group[c] = "alive"
                                    /\ execAt[c] \in {"client", "recover", "stop"}
           /\ gone \subseteq gone'
           /\ UNCHANGED <<scope, box, known, lent, execAt, said, lockedBy, version, readAt, written, left>>
<1>1. PICK vs, all : AbortViews(vs, all)
  BY DEF ReleasePool, ReleaseView
<1>2. PICK hit \in SUBSET {c \in Command : /\ c \in Registered(ViewOf[c]) /\ ViewOf[c] \in vs
                                          /\ group[c] = "alive" /\ box = "running"} :
          Groups(hit)
  BY <1>1 DEF AbortViews
<1>3. \A c \in hit : group[c] = "alive" /\ execAt[c] \in {"client", "recover", "stop"}
  BY <1>2 DEF Registered
<1>4. group' = [c \in Command |-> IF c \in hit /\ group[c] # "none" THEN "dead" ELSE group[c]]
  BY <1>2 DEF Groups
<1>5. gone' = gone \cup vs
      /\ UNCHANGED <<scope, box, known, lent, execAt, said, lockedBy, version, readAt, written, left>>
  BY <1>1 DEF AbortViews, fileVars
<1> QED
  BY <1>3, <1>4, <1>5 DEF ContainerTypes

(* Every step of the pool and of a command keeps the types.                 *)
LEMMA ContainerTypesKept ==
    ASSUME ContainerInv, [ContainerNext]_boxVars
    PROVE  ContainerTypes'
<1> USE DEF ContainerInv, ContainerTypes, StageIs, lendVars, fileVars, commandVars, BoxFault, AtWork
<1>1. ASSUME NEW v \in View, SetupContainer(v) PROVE ContainerTypes'
  BY <1>1 DEF SetupContainer
<1>2. ASSUME NEW v \in View, Rejoin(v) PROVE ContainerTypes'
  BY <1>2 DEF Rejoin
<1>3. ASSUME NEW v \in View, ReleaseView(v) PROVE ContainerTypes'
  BY <1>3, AbortViewsHits
<1>4. CASE ReleasePool
  BY <1>4, AbortViewsHits
<1>5. CASE ContainerAppears
  BY <1>5 DEF ContainerAppears
<1>6. CASE Lend
  BY <1>6 DEF Lend
<1>7. CASE RemoveContainer
  BY <1>7 DEF RemoveContainer, Groups
<1>8. CASE AbortEnds
  BY <1>8 DEF AbortEnds
<1>9. CASE AbortFails
  BY <1>9 DEF AbortFails, StopOwned, Groups
<1>10. ASSUME NEW c \in Command, UseView(c) PROVE ContainerTypes'
  BY <1>10 DEF UseView
<1>11. ASSUME NEW c \in Command, LockFile(c) PROVE ContainerTypes'
  BY <1>11 DEF LockFile
<1>12. ASSUME NEW c \in Command, Exec(c) PROVE ContainerTypes'
  BY <1>12 DEF Exec, Tell
<1>13. ASSUME NEW c \in Command, GroupMoves(c) PROVE ContainerTypes'
  BY <1>13 DEF GroupMoves
<1>14. ASSUME NEW c \in Command, WriteLands(c) PROVE ContainerTypes'
  <2>1. IsFiniteSet(written \cup {c})
    BY FS_AddElement
  <2> QED
    BY <1>14, <2>1 DEF WriteLands
<1>15. ASSUME NEW c \in Command, CommandReturns(c) PROVE ContainerTypes'
  BY <1>15 DEF CommandReturns, Tell, Groups
<1>16. ASSUME NEW c \in Command, ClientLeaves(c) PROVE ContainerTypes'
  BY <1>16 DEF ClientLeaves
<1>17. ASSUME NEW c \in Command, Recover(c) PROVE ContainerTypes'
  BY <1>17 DEF Recover, Tell, Groups
<1>18. ASSUME NEW c \in Command, StopAfter(c) PROVE ContainerTypes'
  BY <1>18 DEF StopAfter, StopOwned, Groups, Tell
<1>19. CASE UNCHANGED boxVars
  BY <1>19 DEF boxVars
<1>20. ASSUME NEW c \in Command, ClientFails(c) PROVE ContainerTypes'
  BY <1>20 DEF ClientFails, Tell
<1> QED
  BY <1>1, <1>2, <1>3, <1>4, <1>5, <1>6, <1>7, <1>8, <1>9, <1>10, <1>11, <1>12,
     <1>13, <1>14, <1>15, <1>16, <1>17, <1>18, <1>19, <1>20
     DEF ContainerNext

(* A group outlives its command only if the caller is told so.              *)
LEMMA GroupsToldKept ==
    ASSUME ContainerInv, [ContainerNext]_boxVars
    PROVE  GroupsAreTold'
<1> USE DEF ContainerInv, ContainerTypes, GroupsAreTold, StageIs, lendVars, fileVars, commandVars, BoxFault, AtWork, Owned
<1>1. ASSUME NEW v \in View, SetupContainer(v) PROVE GroupsAreTold'
  BY <1>1 DEF SetupContainer
<1>2. ASSUME NEW v \in View, Rejoin(v) PROVE GroupsAreTold'
  BY <1>2 DEF Rejoin
<1>3. ASSUME NEW v \in View, ReleaseView(v) PROVE GroupsAreTold'
  BY <1>3, AbortViewsHits
<1>4. CASE ReleasePool
  BY <1>4, AbortViewsHits
<1>5. CASE ContainerAppears
  BY <1>5 DEF ContainerAppears
<1>6. CASE Lend
  BY <1>6 DEF Lend
<1>7. CASE RemoveContainer
  BY <1>7 DEF RemoveContainer, Groups
<1>8. CASE AbortEnds
  BY <1>8 DEF AbortEnds
<1>9. CASE AbortFails
  BY <1>9 DEF AbortFails, StopOwned, Groups
<1>10. ASSUME NEW c \in Command, UseView(c) PROVE GroupsAreTold'
  BY <1>10 DEF UseView
<1>11. ASSUME NEW c \in Command, LockFile(c) PROVE GroupsAreTold'
  BY <1>11 DEF LockFile
<1>12. ASSUME NEW c \in Command, Exec(c) PROVE GroupsAreTold'
  BY <1>12 DEF Exec, Tell
<1>13. ASSUME NEW c \in Command, GroupMoves(c) PROVE GroupsAreTold'
  BY <1>13 DEF GroupMoves
<1>14. ASSUME NEW c \in Command, WriteLands(c) PROVE GroupsAreTold'
  BY <1>14 DEF WriteLands
<1>15. ASSUME NEW c \in Command, CommandReturns(c) PROVE GroupsAreTold'
  BY <1>15 DEF CommandReturns, Tell, Groups
<1>16. ASSUME NEW c \in Command, ClientLeaves(c) PROVE GroupsAreTold'
  BY <1>16 DEF ClientLeaves
<1>17. ASSUME NEW c \in Command, Recover(c) PROVE GroupsAreTold'
  BY <1>17 DEF Recover, Tell, Groups
<1>18. ASSUME NEW c \in Command, StopAfter(c) PROVE GroupsAreTold'
  BY <1>18 DEF StopAfter, StopOwned, Groups, Tell
<1>19. CASE UNCHANGED boxVars
  BY <1>19 DEF boxVars
<1>20. ASSUME NEW c \in Command, ClientFails(c) PROVE GroupsAreTold'
  BY <1>20 DEF ClientFails, Tell
<1> QED
  BY <1>1, <1>2, <1>3, <1>4, <1>5, <1>6, <1>7, <1>8, <1>9, <1>10, <1>11, <1>12,
     <1>13, <1>14, <1>15, <1>16, <1>17, <1>18, <1>19, <1>20
     DEF ContainerNext

(* An editor keeps the lock from its read to its answer.                    *)
LEMMA LockKept ==
    ASSUME ContainerInv, [ContainerNext]_boxVars
    PROVE  LockIsHeld'
<1> USE DEF ContainerInv, ContainerTypes, LockIsHeld, StageIs, lendVars, fileVars, commandVars, BoxFault, AtWork
<1>1. ASSUME NEW v \in View, SetupContainer(v) PROVE LockIsHeld'
  BY <1>1 DEF SetupContainer
<1>2. ASSUME NEW v \in View, Rejoin(v) PROVE LockIsHeld'
  BY <1>2 DEF Rejoin
<1>3. ASSUME NEW v \in View, ReleaseView(v) PROVE LockIsHeld'
  BY <1>3, AbortViewsHits
<1>4. CASE ReleasePool
  BY <1>4, AbortViewsHits
<1>5. CASE ContainerAppears
  BY <1>5 DEF ContainerAppears
<1>6. CASE Lend
  BY <1>6 DEF Lend
<1>7. CASE RemoveContainer
  BY <1>7 DEF RemoveContainer, Groups
<1>8. CASE AbortEnds
  BY <1>8 DEF AbortEnds
<1>9. CASE AbortFails
  BY <1>9 DEF AbortFails, StopOwned, Groups
<1>10. ASSUME NEW c \in Command, UseView(c) PROVE LockIsHeld'
  BY <1>10 DEF UseView
<1>11. ASSUME NEW c \in Command, LockFile(c) PROVE LockIsHeld'
  BY <1>11 DEF LockFile
<1>12. ASSUME NEW c \in Command, Exec(c) PROVE LockIsHeld'
  BY <1>12 DEF Exec, Tell
<1>13. ASSUME NEW c \in Command, GroupMoves(c) PROVE LockIsHeld'
  BY <1>13 DEF GroupMoves
<1>14. ASSUME NEW c \in Command, WriteLands(c) PROVE LockIsHeld'
  BY <1>14 DEF WriteLands
<1>15. ASSUME NEW c \in Command, CommandReturns(c) PROVE LockIsHeld'
  BY <1>15 DEF CommandReturns, Tell, Groups
<1>16. ASSUME NEW c \in Command, ClientLeaves(c) PROVE LockIsHeld'
  BY <1>16 DEF ClientLeaves
<1>17. ASSUME NEW c \in Command, Recover(c) PROVE LockIsHeld'
  BY <1>17 DEF Recover, Tell, Groups
<1>18. ASSUME NEW c \in Command, StopAfter(c) PROVE LockIsHeld'
  BY <1>18 DEF StopAfter, StopOwned, Groups, Tell
<1>19. CASE UNCHANGED boxVars
  BY <1>19 DEF boxVars
<1>20. ASSUME NEW c \in Command, ClientFails(c) PROVE LockIsHeld'
  BY <1>20 DEF ClientFails, Tell
<1> QED
  BY <1>1, <1>2, <1>3, <1>4, <1>5, <1>6, <1>7, <1>8, <1>9, <1>10, <1>11, <1>12,
     <1>13, <1>14, <1>15, <1>16, <1>17, <1>18, <1>19, <1>20
     DEF ContainerNext

(* A container loses its name only when docker has removed it.              *)
LEMMA KnownKept ==
    ASSUME ContainerInv, [ContainerNext]_boxVars
    PROVE  ContainerIsKept'
<1> USE DEF ContainerInv, ContainerTypes, ContainerIsKept, StageIs, lendVars, fileVars, commandVars, BoxFault, AtWork, Owned
<1>1. ASSUME NEW v \in View, SetupContainer(v) PROVE ContainerIsKept'
  BY <1>1 DEF SetupContainer
<1>2. ASSUME NEW v \in View, Rejoin(v) PROVE ContainerIsKept'
  BY <1>2 DEF Rejoin
<1>3. ASSUME NEW v \in View, ReleaseView(v) PROVE ContainerIsKept'
  BY <1>3, AbortViewsHits
<1>4. CASE ReleasePool
  BY <1>4, AbortViewsHits
<1>5. CASE ContainerAppears
  BY <1>5 DEF ContainerAppears
<1>6. CASE Lend
  BY <1>6 DEF Lend
<1>7. CASE RemoveContainer
  BY <1>7 DEF RemoveContainer, Groups
<1>8. CASE AbortEnds
  BY <1>8 DEF AbortEnds
<1>9. CASE AbortFails
  BY <1>9 DEF AbortFails, StopOwned, Groups
<1>10. ASSUME NEW c \in Command, UseView(c) PROVE ContainerIsKept'
  BY <1>10 DEF UseView
<1>11. ASSUME NEW c \in Command, LockFile(c) PROVE ContainerIsKept'
  BY <1>11 DEF LockFile
<1>12. ASSUME NEW c \in Command, Exec(c) PROVE ContainerIsKept'
  BY <1>12 DEF Exec, Tell
<1>13. ASSUME NEW c \in Command, GroupMoves(c) PROVE ContainerIsKept'
  BY <1>13 DEF GroupMoves
<1>14. ASSUME NEW c \in Command, WriteLands(c) PROVE ContainerIsKept'
  BY <1>14 DEF WriteLands
<1>15. ASSUME NEW c \in Command, CommandReturns(c) PROVE ContainerIsKept'
  BY <1>15 DEF CommandReturns, Tell, Groups
<1>16. ASSUME NEW c \in Command, ClientLeaves(c) PROVE ContainerIsKept'
  BY <1>16 DEF ClientLeaves
<1>17. ASSUME NEW c \in Command, Recover(c) PROVE ContainerIsKept'
  BY <1>17 DEF Recover, Tell, Groups
<1>18. ASSUME NEW c \in Command, StopAfter(c) PROVE ContainerIsKept'
  BY <1>18 DEF StopAfter, StopOwned, Groups, Tell
<1>19. CASE UNCHANGED boxVars
  BY <1>19 DEF boxVars
<1>20. ASSUME NEW c \in Command, ClientFails(c) PROVE ContainerIsKept'
  BY <1>20 DEF ClientFails, Tell
<1> QED
  BY <1>1, <1>2, <1>3, <1>4, <1>5, <1>6, <1>7, <1>8, <1>9, <1>10, <1>11, <1>12,
     <1>13, <1>14, <1>15, <1>16, <1>17, <1>18, <1>19, <1>20
     DEF ContainerNext

(* Nobody takes back what was told while a group was at work.               *)
LEMMA LeftStays == ASSUME [ContainerNext]_boxVars PROVE left \subseteq left'
<1> USE DEF StageIs, lendVars, fileVars, commandVars, Tell
<1>1. ASSUME NEW v \in View
      PROVE  SetupContainer(v) \/ Rejoin(v) \/ ReleaseView(v) => UNCHANGED left
  BY DEF SetupContainer, Rejoin, ReleaseView, AbortViews
<1>2. \/ ReleasePool \/ ContainerAppears \/ Lend \/ RemoveContainer \/ AbortEnds \/ AbortFails
      \/ UNCHANGED boxVars
      => UNCHANGED left
  BY DEF ReleasePool, ContainerAppears, Lend, RemoveContainer, AbortEnds, AbortFails, AbortViews,
         boxVars
<1>3. ASSUME NEW c \in Command
      PROVE  UseView(c) \/ LockFile(c) \/ GroupMoves(c) \/ WriteLands(c) \/ ClientLeaves(c)
             => UNCHANGED left
  BY DEF UseView, LockFile, GroupMoves, WriteLands, ClientLeaves
<1>4. ASSUME NEW c \in Command
      PROVE  Exec(c) \/ CommandReturns(c) \/ ClientFails(c) \/ Recover(c) \/ StopAfter(c)
             => left \subseteq left'
  BY DEF Exec, CommandReturns, ClientFails, Recover, StopAfter
<1> QED
  BY <1>1, <1>2, <1>3, <1>4 DEF ContainerNext

(* Only the editor that holds the lock writes, and what it has read is      *)
(* still there, unless a group that was left behind writes too.             *)
LEMMA EditsKept ==
    ASSUME ContainerInv, [ContainerNext]_boxVars
    PROVE  EditsAreKept'
<1> SUFFICES ASSUME left' = {}
             PROVE  /\ version' = Cardinality(written')
                    /\ \A c \in Editors : lockedBy' = {c} /\ c \notin written' => readAt'[c] = version'
  BY DEF EditsAreKept
<1>1. /\ left = {}
      /\ version = Cardinality(written)
      /\ \A c \in Editors : lockedBy = {c} /\ c \notin written => readAt[c] = version
  BY LeftStays DEF ContainerInv, EditsAreKept
<1>2. ASSUME NEW c \in Command, LockFile(c)
      PROVE  /\ version' = Cardinality(written')
             /\ \A d \in Editors : lockedBy' = {d} /\ d \notin written' => readAt'[d] = version'
  BY <1>1, <1>2 DEF LockFile, ContainerInv, ContainerTypes
<1>3. ASSUME NEW c \in Command, WriteLands(c)
      PROVE  /\ version' = Cardinality(written')
             /\ \A d \in Editors : lockedBy' = {d} /\ d \notin written' => readAt'[d] = version'
  <2>2. execAt[c] \notin {"ended", "idle", "lock", "ready"}
    BY <1>1, <1>3 DEF WriteLands, ContainerInv, GroupsAreTold, AtWork
  <2>3. lockedBy = {c} /\ lockedBy' = {c}
    BY <1>3, <2>2 DEF WriteLands, ContainerInv, ContainerTypes, LockIsHeld
  <2>4. version' = version + 1 /\ written' = written \cup {c} /\ c \notin written
    BY <1>1, <1>3, <2>3 DEF WriteLands
  <2>5. Cardinality(written') = Cardinality(written) + 1
    BY <2>4, FS_AddElement DEF ContainerInv, ContainerTypes
  <2> QED
    BY <1>1, <2>3, <2>4, <2>5
<1>4. ASSUME UNCHANGED <<version, readAt, written>>, lockedBy' \in {lockedBy, {}}
      PROVE  /\ version' = Cardinality(written')
             /\ \A d \in Editors : lockedBy' = {d} /\ d \notin written' => readAt'[d] = version'
  BY <1>1, <1>4
<1>5. ASSUME NEW c \in Command
      PROVE  \/ UseView(c) \/ Exec(c) \/ GroupMoves(c) \/ CommandReturns(c) \/ ClientFails(c)
             \/ ClientLeaves(c) \/ Recover(c) \/ StopAfter(c)
             => UNCHANGED <<version, readAt, written>> /\ lockedBy' \in {lockedBy, {}}
  <2>1. lockedBy \ {c} \in {lockedBy, {}}
    BY DEF ContainerInv, ContainerTypes
  <2> QED
    BY <2>1
       DEF UseView, Exec, GroupMoves, CommandReturns, ClientFails, ClientLeaves,
           Recover, StopAfter, Tell, fileVars
<1>6. ASSUME NEW v \in View
      PROVE  SetupContainer(v) \/ Rejoin(v) \/ ReleaseView(v)
             => UNCHANGED <<version, readAt, written>> /\ lockedBy' \in {lockedBy, {}}
  BY DEF SetupContainer, Rejoin, ReleaseView, AbortViews, commandVars, fileVars
<1>7. \/ ReleasePool \/ ContainerAppears \/ Lend \/ RemoveContainer \/ AbortEnds \/ AbortFails
      \/ UNCHANGED boxVars
      => UNCHANGED <<version, readAt, written>> /\ lockedBy' \in {lockedBy, {}}
  BY DEF ReleasePool, ContainerAppears, Lend, RemoveContainer, AbortEnds, AbortFails, AbortViews,
         commandVars, fileVars, boxVars
<1> QED
  BY <1>2, <1>3, <1>4, <1>5, <1>6, <1>7 DEF ContainerNext

(* What is said of a command is true of its group, except that a failure    *)
(* says nothing of it; unless a caller was told while its group was at work *)
(* no edit through a view is lost; and a container of the pool stays known; *)
(* for any number of views, commands and docker failures (_recover_inner,   *)
(* file_write_lock, DockerIsolationPool).                                   *)
THEOREM ContainersAreSound == ContainerSpec => []ContainerIsSound
<1>1. ContainerInv /\ [ContainerNext]_boxVars => ContainerInv'
  BY ContainerTypesKept, GroupsToldKept, LockKept, KnownKept, EditsKept
     DEF ContainerInv
<1>2. ContainerInv => ContainerIsSound
  BY DEF ContainerInv, GroupsAreTold, EditsAreKept, ContainerIsSound, ToldIsQuiet
<1> QED
  BY ContainerStarts, <1>1, <1>2, PTL DEF ContainerSpec

-----------------------------------------------------------------------------
(* The pool of environments                                                 *)

(* list.remove: everything but one element stays.                            *)
LEMMA RemoveFirstKeeps ==
    ASSUME NEW S, NEW s \in Seq(S), NEW e
    PROVE  /\ RemoveFirst(s, e) \in Seq(S)
           /\ \A x \in Range(s) : x # e => x \in Range(RemoveFirst(s, e))
<1> DEFINE I == {i \in 1..Len(s) : s[i] = e}
           k == Min(I)
           r == SubSeq(s, 1, k - 1) \o SubSeq(s, k + 1, Len(s))
<1>1. CASE I = {}
  <2>1. RemoveFirst(s, e) = s
    BY <1>1 DEF RemoveFirst
  <2> QED BY <2>1
<1>2. CASE I # {}
  <2>1. RemoveFirst(s, e) = r
    BY <1>2 DEF RemoveFirst, RemoveAt, SelectInSeq
  <2>2. k \in 1..Len(s) /\ s[k] = e
    <3>1. I \subseteq Nat
      OBVIOUS
    <3>2. \E x \in I : \A y \in I : x <= y
      BY <1>2, <3>1, LeastNumber
    <3>3. k \in I
      BY <3>2 DEF Min
    <3> QED BY <3>3
  <2> HIDE DEF I, k
  <2> DEFINE p == SubSeq(s, 1, k - 1)
             q == SubSeq(s, k + 1, Len(s))
  <2>3. /\ p \in Seq(S) /\ q \in Seq(S) /\ Len(p) = k - 1 /\ Len(q) = Len(s) - k
        /\ \A i \in 1..(k - 1) : p[i] = s[i]
        /\ \A i \in 1..(Len(s) - k) : q[i] = s[k + i]
    BY <2>2
  <2>4. /\ r \in Seq(S) /\ Len(r) = Len(s) - 1
        /\ \A i \in 1..Len(p) : r[i] = p[i]
        /\ \A i \in 1..Len(q) : r[Len(p) + i] = q[i]
    <3>1. r = p \o q
      OBVIOUS
    <3> HIDE DEF p, q, r
    <3>2. r \in Seq(S) /\ Len(r) = Len(p) + Len(q)
      BY <2>3, <3>1, ConcatProperties
    <3>3. Len(r) = Len(s) - 1
      BY <2>2, <2>3, <3>2
    <3>4. \A i \in 1..Len(p) : r[i] = p[i]
      BY <2>3, <3>1
    <3>5. ASSUME NEW i \in 1..Len(q) PROVE r[Len(p) + i] = q[i]
      <4>1. /\ Len(p) \in Nat /\ Len(q) \in Nat /\ Len(p) + i \in 1..(Len(p) + Len(q))
            /\ ~ (Len(p) + i <= Len(p)) /\ (Len(p) + i) - Len(p) = i
        BY <2>3
      <4> QED BY <2>3, <3>1, <4>1
    <3> QED BY <3>2, <3>3, <3>4, <3>5
  <2> HIDE DEF p, q, r
  <2>5. ASSUME NEW i \in 1..Len(s), i # k
        PROVE  \E j \in 1..Len(r) : r[j] = s[i]
    <3>1. CASE i < k
      <4>1. i \in 1..Len(r) /\ i \in 1..Len(p) /\ i \in 1..(k - 1)
        BY <2>2, <2>3, <2>4, <3>1
      <4> QED BY <2>3, <2>4, <4>1
    <3>2. CASE i > k
      <4>1. /\ i - k \in 1..(Len(s) - k) /\ i - k \in 1..Len(q)
            /\ Len(p) + (i - k) = i - 1 /\ i - 1 \in 1..Len(r) /\ k + (i - k) = i
        BY <2>2, <2>3, <2>4, <3>2
      <4>2. r[i - 1] = s[i]
        BY <2>3, <2>4, <4>1
      <4> QED BY <4>1, <4>2
    <3> QED BY <2>2, <2>5, <3>1, <3>2
  <2>6. ASSUME NEW x \in Range(s), x # e PROVE x \in Range(r)
    <3>1. PICK i \in 1..Len(s) : s[i] = x
      BY DEF Range
    <3>2. i # k
      BY <2>2, <2>6, <3>1
    <3> QED BY <2>4, <2>5, <3>1, <3>2 DEF Range
  <2> QED BY <2>1, <2>4, <2>6 DEF r, p, q
<1> QED BY <1>1, <1>2

LEMMA ReverseKeeps ==
    ASSUME NEW S, NEW s \in Seq(S)
    PROVE  Reverse(s) \in Seq(S) /\ \A x \in Range(s) : x \in Range(Reverse(s))
<1>1. Reverse(s) \in Seq(S) /\ Len(Reverse(s)) = Len(s)
  BY DEF Reverse
<1>2. ASSUME NEW x \in Range(s) PROVE x \in Range(Reverse(s))
  <2>1. PICK i \in 1..Len(s) : s[i] = x
    BY DEF Range
  <2>2. Len(s) - i + 1 \in 1..Len(s) /\ Reverse(s)[Len(s) - i + 1] = x
    BY <2>1 DEF Reverse
  <2> QED BY <1>1, <2>2 DEF Range
<1> QED BY <1>1, <1>2

LEMMA AppendKeeps ==
    ASSUME NEW S, NEW s \in Seq(S), NEW e \in S
    PROVE  /\ Append(s, e) \in Seq(S) /\ e \in Range(Append(s, e))
           /\ \A x \in Range(s) : x \in Range(Append(s, e))
<1>1. Append(s, e) \in Seq(S) /\ Len(Append(s, e)) = Len(s) + 1 /\ Append(s, e)[Len(s) + 1] = e
  OBVIOUS
<1>2. \A i \in 1..Len(s) : Append(s, e)[i] = s[i]
  OBVIOUS
<1> QED BY <1>1, <1>2 DEF Range

LEMMA TailKeeps ==
    ASSUME NEW S, NEW s \in Seq(S), s # <<>>
    PROVE  /\ Head(s) \in S /\ Tail(s) \in Seq(S) /\ Last(s) \in S
           /\ \A x \in Range(s) : x # Head(s) => x \in Range(Tail(s))
<1>1. /\ Head(s) \in S /\ Tail(s) \in Seq(S) /\ Len(Tail(s)) = Len(s) - 1 /\ Len(s) \in Nat \ {0}
      /\ Head(s) = s[1] /\ \A i \in 1..Len(Tail(s)) : Tail(s)[i] = s[i + 1]
  BY HeadTailProperties
<1>2. Last(s) \in S
  BY DEF Last
<1>3. ASSUME NEW x \in Range(s), x # Head(s) PROVE x \in Range(Tail(s))
  <2>1. PICK i \in 1..Len(s) : s[i] = x
    BY DEF Range
  <2>2. i # 1
    BY <1>1, <1>3, <2>1
  <2>3. i - 1 \in 1..Len(Tail(s)) /\ (i - 1) + 1 = i
    BY <1>1, <2>1, <2>2
  <2>4. Tail(s)[i - 1] = x
    <3>1. Tail(s)[i - 1] = s[(i - 1) + 1]
      BY <1>1, <2>3
    <3>2. s[(i - 1) + 1] = s[i]
      BY <2>3, Zenon
    <3> QED BY <2>1, <3>1, <3>2, Zenon
  <2>5. DOMAIN Tail(s) = 1..Len(Tail(s))
    BY <1>1
  <2> QED BY <2>3, <2>4, <2>5, Zenon DEF Range
<1> QED BY <1>1, <1>2, <1>3

(* What Clean does to the list of the pool.                                  *)
LEMMA CleanFacts ==
    ASSUME PoolTypes, NEW e \in Acquirer, Clean(e)
    PROVE  /\ tracked' \in Seq(Acquirer) /\ broken' \in Nat /\ dep' \subseteq dep
           /\ tree' = tree \/ tree' = [tree EXCEPT ![e] = "torn"]
           /\ \A x \in Acquirer : x # e /\ x \in Range(tracked) => x \in Range(tracked')
           /\ tree'[e] # "torn" => tree' = tree /\ tracked' = tracked
<1>1. CASE /\ Becomes(e, "torn")
           /\ tracked' = RemoveFirst(tracked, e) /\ dep' = dep \ {e}
           /\ UNCHANGED broken
  BY <1>1, RemoveFirstKeeps DEF PoolTypes, Becomes
<1>2. CASE CleanupBreaks /\ UNCHANGED <<tree, tracked, dep>>
  BY <1>2 DEF CleanupBreaks, PoolTypes
<1> QED BY <1>1, <1>2 DEF Clean

LEMMA RegisterFacts ==
    ASSUME PoolTypes, NEW a \in Acquirer, Register(a)
    PROVE  refs' \in [Acquirer -> Nat] /\ owners' \in Seq(Acquirer)
<1> USE PoolAssumption DEF PoolTypes, EnvOf
<1>1. CASE session /\ (a \notin Shares \/ (EnvOf(a) # Base /\ refs[EnvOf(a)] > 0))
  <2>1. EnvOf(a) \in Acquirer
    BY <1>1
  <2>2. refs' = [refs EXCEPT ![EnvOf(a)] = @ + 1]
        /\ owners' = IF refs[EnvOf(a)] = 0 THEN Append(owners, EnvOf(a)) ELSE owners
    BY <1>1 DEF Register
  <2> HIDE DEF EnvOf
  <2>3. refs' \in [Acquirer -> Nat]
    BY <2>1, <2>2
  <2>4. owners' \in Seq(Acquirer)
    BY <2>1, <2>2
  <2> QED BY <2>3, <2>4
<1>2. CASE ~ (session /\ (a \notin Shares \/ (EnvOf(a) # Base /\ refs[EnvOf(a)] > 0)))
  BY <1>2 DEF Register
<1> QED BY <1>1, <1>2

LEMMA FreeFacts ==
    ASSUME PoolTypes, NEW e \in Acquirer, Free(e)
    PROVE  refs' \in [Acquirer -> Nat] /\ owners' \in Seq(Acquirer)
BY RemoveFirstKeeps DEF Free, PoolTypes

(* The ways an environment is released: somebody else still uses it, it has *)
(* dependents, it is cleaned up, or its cleanup fails.                      *)
ReleaseRest ==
    UNCHANGED <<session, generation, genOf, rel, todo, dirty, released, closed, rounds>>

LeavesUsers(a) ==
    /\ IF EnvOf(a) = Base THEN refs' = refs
       ELSE session /\ refs[EnvOf(a)] > 1 /\ refs' = [refs EXCEPT ![EnvOf(a)] = @ - 1]
    /\ Move(a, "ended") /\ UNCHANGED <<tree, tracked, dep, owners, broken>>

StaysForOthers(a) ==
    /\ EnvOf(a) # Base /\ Move(a, IF stage[a] = "closing" THEN "ended" ELSE "left")
    /\ UNCHANGED <<tree, tracked, dep, refs, owners, broken>>

IsCleaned(a) ==
    /\ EnvOf(a) # Base /\ refs[EnvOf(a)] <= 1 /\ ~Depends(EnvOf(a))
    /\ Clean(EnvOf(a)) /\ Free(EnvOf(a)) /\ Move(a, "ended")

StaysUnclean(a) ==
    /\ EnvOf(a) # Base /\ ~Depends(EnvOf(a)) /\ Clean(EnvOf(a)) /\ tree'[EnvOf(a)] # "torn"
    /\ Move(a, IF stage[a] = "closing" THEN "ended" ELSE "left") /\ UNCHANGED <<refs, owners>>

LEMMA ReleaseEnvIs ==
    ASSUME NEW a \in Acquirer, ReleaseEnv(a)
    PROVE  /\ stage[a] \in {"held", "left", "closing"} /\ (stage[a] # "closing" => rel = "none")
           /\ stage[a] = "closing" => rel = "shut"
           /\ LeavesUsers(a) \/ StaysForOthers(a) \/ IsCleaned(a) \/ StaysUnclean(a)
           /\ ReleaseRest
<1> DEFINE e == EnvOf(a)
<1>1. /\ stage[a] \in {"held", "left", "closing"} /\ (stage[a] # "closing" => rel = "none")
      /\ stage[a] = "closing" => rel = "shut"
      /\ ReleaseRest
  BY DEF ReleaseEnv, ReleaseRest
<1>2. \/ /\ e = Base \/ (e # Base /\ session /\ refs[e] > 1)
         /\ IF e = Base THEN UNCHANGED refs ELSE refs' = [refs EXCEPT ![e] = @ - 1]
         /\ Move(a, "ended")
         /\ UNCHANGED <<tree, tracked, dep, owners, broken>>
      \/ /\ e # Base /\ refs[e] <= 1 /\ Depends(e)
         /\ Move(a, IF stage[a] = "closing" THEN "ended" ELSE "left")
         /\ UNCHANGED <<tree, tracked, dep, refs, owners, broken>>
      \/ /\ e # Base /\ refs[e] <= 1 /\ ~Depends(e)
         /\ Clean(e)
         /\ IF tree'[e] = "torn"
            THEN Free(e) /\ Move(a, "ended")
            ELSE UNCHANGED <<refs, owners>> /\ Move(a, IF stage[a] = "closing" THEN "ended" ELSE "left")
  BY DEF ReleaseEnv
<1>3. LeavesUsers(a) \/ StaysForOthers(a) \/ IsCleaned(a) \/ StaysUnclean(a)
  BY <1>2, Zenon DEF LeavesUsers, StaysForOthers, IsCleaned, StaysUnclean
<1> QED BY <1>1, <1>3

(* The ways the release of an owner goes.                                    *)
OwnerStays ==
    /\ rel' = "none" /\ generation' = generation
    /\ owners # <<>> /\ refs' = [refs EXCEPT ![Last(owners)] = 1] /\ UNCHANGED owners
    /\ \/ UNCHANGED <<tree, tracked, dep, broken>>
       \/ ~Depends(Last(owners)) /\ Clean(Last(owners)) /\ tree'[Last(owners)] # "torn"

OwnerGoes ==
    /\ owners # <<>> /\ ~Depends(Last(owners)) /\ Clean(Last(owners)) /\ Free(Last(owners))
    /\ rel' = rel /\ generation' = generation

OwnersAreGone ==
    /\ rel' = "drain" /\ generation' = generation + 1
    /\ UNCHANGED <<tree, tracked, dep, refs, owners, broken>>

LEMMA ReleaseOwnersIs ==
    ASSUME ReleaseOwners
    PROVE  /\ rel = "owners" /\ (OwnerStays \/ OwnerGoes \/ OwnersAreGone)
           /\ UNCHANGED <<session, stage, genOf, todo, dirty, released, closed, rounds>>
BY Zenon DEF ReleaseOwners, OwnerStays, OwnerGoes, OwnersAreGone

(* The ways a sweep goes on.                                                 *)
SweepIsOver ==
    /\ todo = <<>> /\ rel' = "none" /\ released' = ~dirty
    /\ UNCHANGED <<tree, tracked, dep, todo, dirty, broken>>

SweepsOne ==
    /\ todo # <<>> /\ todo' = Tail(todo) /\ UNCHANGED <<rel, released>>
    /\ \/ dirty' = TRUE /\ UNCHANGED <<tree, tracked, dep, broken>>
       \/ /\ ~Depends(Head(todo)) /\ Clean(Head(todo))
          /\ dirty' = (dirty \/ tree'[Head(todo)] # "torn")

LEMMA SweepIs ==
    ASSUME Sweep
    PROVE  /\ rel = "sweep" /\ (SweepIsOver \/ SweepsOne)
           /\ UNCHANGED <<session, stage, generation, genOf, refs, owners, closed, rounds>>
BY Zenon DEF Sweep, SweepIsOver, SweepsOne

(* The ways a setup ends.                                                    *)
SetupFails(a) == Move(a, "undo") /\ UNCHANGED <<tree, tracked, refs, owners>>

SetupDone(a) ==
    /\ SourceOf[a] # Base => tree[SourceOf[a]] = "live"
    /\ Becomes(a, "live")
    /\ \/ genOf[a] # generation /\ Move(a, "void") /\ UNCHANGED <<tracked, refs, owners>>
       \/ /\ tracked' = Append(tracked, a) /\ Register(a)
          /\ Move(a, IF session /\ closed THEN "closing" ELSE "held")

LEMMA BuildIs ==
    ASSUME NEW a \in Acquirer, Build(a)
    PROVE  /\ stage[a] = "build" /\ (SetupFails(a) \/ SetupDone(a))
           /\ UNCHANGED <<session, dep, generation, genOf, rel, todo, dirty, released, closed,
                          rounds, broken>>
BY Zenon DEF Build, SetupFails, SetupDone

LEMMA PoolTypesKept ==
    ASSUME PoolTypes, [PoolNext]_poolVars
    PROVE  PoolTypes'
<1> USE PoolAssumption DEF PoolTypes
<1>1. ASSUME NEW a \in Acquirer, AcquireEnv(a) PROVE PoolTypes'
  BY <1>1, RegisterFacts DEF AcquireEnv, Move
<1>2. ASSUME NEW a \in Acquirer, Begin(a) PROVE PoolTypes'
  BY <1>2 DEF Begin, Move
<1>3. ASSUME NEW a \in Acquirer, Lease(a) PROVE PoolTypes'
  <2>1. /\ stage' \in [Acquirer -> {"new", "waiting", "probe", "build", "undo", "void", "closing",
                                    "held", "left", "ended"}]
        /\ tree' \in [Acquirer -> {"none", "half", "live", "torn"}] /\ dep' \subseteq Acquirer
    BY <1>3 DEF Lease, Move, Becomes
  <2> QED BY <1>3, <2>1 DEF Lease
<1>4. ASSUME NEW a \in Acquirer, Build(a) PROVE PoolTypes'
  <2>1. CASE SetupFails(a)
    BY <1>4, <2>1, BuildIs DEF SetupFails, Move
  <2>2. CASE SetupDone(a)
    <3>1. tree' \in [Acquirer -> {"none", "half", "live", "torn"}]
      BY <2>2 DEF SetupDone, Becomes
    <3>2. CASE genOf[a] # generation /\ Move(a, "void") /\ UNCHANGED <<tracked, refs, owners>>
      BY <1>4, <3>1, <3>2, BuildIs DEF Move
    <3>3. CASE /\ tracked' = Append(tracked, a) /\ Register(a)
               /\ Move(a, IF session /\ closed THEN "closing" ELSE "held")
      <4>1. stage' \in [Acquirer -> {"new", "waiting", "probe", "build", "undo", "void", "closing",
                                     "held", "left", "ended"}]
        BY <3>3 DEF Move
      <4>2. tracked' \in Seq(Acquirer)
        BY <3>3
      <4>3. refs' \in [Acquirer -> Nat] /\ owners' \in Seq(Acquirer)
        BY <3>3, RegisterFacts
      <4> QED BY <1>4, <3>1, <4>1, <4>2, <4>3, BuildIs
    <3> QED BY <2>2, <3>2, <3>3 DEF SetupDone
  <2> QED BY <1>4, <2>1, <2>2, BuildIs
<1>5. ASSUME NEW a \in Acquirer, Undo(a) PROVE PoolTypes'
  <2>1. stage' \in [Acquirer -> {"new", "waiting", "probe", "build", "undo", "void", "closing",
                                 "held", "left", "ended"}]
    BY <1>5 DEF Undo, Move
  <2>2. /\ tree' \in [Acquirer -> {"none", "half", "live", "torn"}] /\ dep' \subseteq Acquirer
        /\ tracked' \in Seq(Acquirer) /\ broken' \in Nat
    <3>1. CASE /\ Becomes(a, IF tree[a] = "none" THEN "none" ELSE "torn")
               /\ dep' = dep \ {a} /\ UNCHANGED <<tracked, broken>>
      BY <3>1 DEF Becomes
    <3>2. CASE CleanupBreaks /\ tracked' = Append(tracked, a) /\ UNCHANGED <<tree, dep>>
      BY <3>2 DEF CleanupBreaks
    <3> QED BY <1>5, <3>1, <3>2 DEF Undo
  <2> QED BY <1>5, <2>1, <2>2 DEF Undo
<1>6. ASSUME NEW a \in Acquirer, ReleaseEnv(a) PROVE PoolTypes'
  <2>1. EnvOf(a) # Base => EnvOf(a) \in Acquirer
    BY DEF EnvOf
  <2>2. /\ Move(a, "ended") \/ Move(a, IF stage[a] = "closing" THEN "ended" ELSE "left")
        /\ ReleaseRest
    BY <1>6, ReleaseEnvIs DEF LeavesUsers, StaysForOthers, IsCleaned, StaysUnclean
  <2>3. stage' \in [Acquirer -> {"new", "waiting", "probe", "build", "undo", "void", "closing",
                                 "held", "left", "ended"}]
    BY <2>2 DEF Move
  <2>4. refs' \in [Acquirer -> Nat] /\ owners' \in Seq(Acquirer)
    <3>1. CASE LeavesUsers(a)
      <4>1. CASE EnvOf(a) = Base
        BY <3>1, <4>1 DEF LeavesUsers
      <4>2. CASE EnvOf(a) # Base
        <5>1. PICK e \in Acquirer : refs[e] > 1 /\ refs' = [refs EXCEPT ![e] = @ - 1]
          BY <2>1, <3>1, <4>2 DEF LeavesUsers
        <5>2. refs[e] - 1 \in Nat
          BY <5>1
        <5>3. refs' \in [Acquirer -> Nat]
          BY <5>1, <5>2
        <5> QED BY <3>1, <5>3 DEF LeavesUsers
      <4> QED BY <4>1, <4>2
    <3>2. CASE IsCleaned(a)
      BY <2>1, <3>2, FreeFacts DEF IsCleaned
    <3>3. CASE StaysForOthers(a) \/ StaysUnclean(a)
      BY <3>3 DEF StaysForOthers, StaysUnclean
    <3> QED BY <1>6, <3>1, <3>2, <3>3, ReleaseEnvIs
  <2>5. /\ tree' \in [Acquirer -> {"none", "half", "live", "torn"}] /\ dep' \subseteq Acquirer
        /\ tracked' \in Seq(Acquirer) /\ broken' \in Nat
    <3>1. CASE Clean(EnvOf(a)) /\ EnvOf(a) # Base
      BY <2>1, <3>1, CleanFacts
    <3>2. CASE UNCHANGED <<tree, tracked, dep, broken>>
      BY <3>2
    <3> QED
      BY <1>6, <3>1, <3>2, ReleaseEnvIs DEF LeavesUsers, StaysForOthers, IsCleaned, StaysUnclean
  <2>6. UNCHANGED <<session, generation, genOf, rel, todo, dirty, released, closed, rounds>>
    BY <2>2 DEF ReleaseRest
  <2> QED BY <2>3, <2>4, <2>5, <2>6
<1>7. CASE Release
  <2>1. rounds + 1 \in Nat /\ generation + 1 \in Nat
    OBVIOUS
  <2>2. /\ closed' \in BOOLEAN /\ rel' \in {"none", "shut", "owners", "drain", "sweep"}
        /\ generation' \in Nat
    <3>1. CASE session
      BY <1>7, <3>1 DEF Release
    <3>2. CASE ~session
      BY <1>7, <3>2 DEF Release
    <3> QED BY <3>1, <3>2
  <2> QED BY <1>7, <2>1, <2>2 DEF Release
<1>8. CASE Shut
  BY <1>8 DEF Shut
<1>9. CASE ReleaseOwners
  <2>1. owners # <<>> => Last(owners) \in Acquirer
    BY TailKeeps
  <2>2. rel' \in {"none", "shut", "owners", "drain", "sweep"} /\ generation' \in Nat
    BY <1>9, ReleaseOwnersIs DEF OwnerStays, OwnerGoes, OwnersAreGone
  <2>3. refs' \in [Acquirer -> Nat] /\ owners' \in Seq(Acquirer)
    <3>1. CASE OwnerGoes
      BY <2>1, <3>1, FreeFacts DEF OwnerGoes
    <3>2. CASE OwnerStays \/ OwnersAreGone
      <4>1. CASE OwnersAreGone
        BY <4>1 DEF OwnersAreGone
      <4>2. CASE OwnerStays
        <5>1. PICK e \in Acquirer : refs' = [refs EXCEPT ![e] = 1] /\ owners' = owners
          BY <2>1, <4>2 DEF OwnerStays
        <5> QED BY <5>1
      <4> QED BY <3>2, <4>1, <4>2
    <3> QED BY <1>9, <3>1, <3>2, ReleaseOwnersIs
  <2>4. /\ tree' \in [Acquirer -> {"none", "half", "live", "torn"}] /\ dep' \subseteq Acquirer
        /\ tracked' \in Seq(Acquirer) /\ broken' \in Nat
    <3>1. CASE owners # <<>> /\ Clean(Last(owners))
      BY <2>1, <3>1, CleanFacts
    <3>2. CASE UNCHANGED <<tree, tracked, dep, broken>>
      BY <3>2
    <3> QED BY <1>9, <3>1, <3>2, ReleaseOwnersIs DEF OwnerStays, OwnerGoes, OwnersAreGone
  <2> QED BY <1>9, <2>2, <2>3, <2>4, ReleaseOwnersIs
<1>10. CASE Drain
  BY <1>10, ReverseKeeps DEF Drain
<1>11. CASE Sweep
  <2>1. todo # <<>> => Head(todo) \in Acquirer /\ Tail(todo) \in Seq(Acquirer)
    BY TailKeeps
  <2>2. /\ rel' \in {"none", "shut", "owners", "drain", "sweep"} /\ todo' \in Seq(Acquirer)
        /\ dirty' \in BOOLEAN /\ released' \in BOOLEAN
    BY <1>11, <2>1, SweepIs, Zenon DEF SweepIsOver, SweepsOne
  <2>3. /\ tree' \in [Acquirer -> {"none", "half", "live", "torn"}] /\ dep' \subseteq Acquirer
        /\ tracked' \in Seq(Acquirer) /\ broken' \in Nat
    <3>1. CASE todo # <<>> /\ Clean(Head(todo))
      BY <2>1, <3>1, CleanFacts
    <3>2. CASE UNCHANGED <<tree, tracked, dep, broken>>
      BY <3>2
    <3> QED BY <1>11, <3>1, <3>2, SweepIs DEF SweepIsOver, SweepsOne
  <2> QED BY <1>11, <2>2, <2>3, SweepIs
<1>12. CASE UNCHANGED poolVars
  BY <1>12 DEF poolVars
<1> QED
  BY <1>1, <1>2, <1>3, <1>4, <1>5, <1>6, <1>7, <1>8, <1>9, <1>10, <1>11, <1>12
     DEF PoolNext, PoolStep

(* Acquisitions stay what they are: only one that was never held moves       *)
(* without being given up.                                                   *)
LEMMA AcquisitionsStayFit ==
    ASSUME PoolTypes, AcquisitionsFit, [PoolNext]_poolVars
    PROVE  AcquisitionsFit'
<1> USE PoolAssumption DEF PoolTypes
<1>1. ASSUME NEW a \in Acquirer, NEW t, stage' = [stage EXCEPT ![a] = t],
             stage[a] \in {"held", "left"} \/ (a \notin Shares /\ stage[a] # "new"),
             stage[a] \in {"held", "left", "ended"} => t \in {"left", "ended"},
             t # "new", session' = session,
             \A x \in dep' : x \in dep \/ (x = a /\ SourceOf[a] # Base)
      PROVE  AcquisitionsFit'
  <2> SUFFICES ASSUME NEW x \in Acquirer PROVE AcquisitionFits(x)'
    BY DEF AcquisitionsFit
  <2>1. AcquisitionFits(x) /\ AcquisitionFits(a) /\ stage'[a] = t
        /\ \A y \in Acquirer : y # a => stage'[y] = stage[y]
    BY <1>1 DEF AcquisitionsFit
  <2>2. SourceOf[x] # Base => SourceOf[x] \in Acquirer
    OBVIOUS
  <2>3. ASSUME stage'[x] # "new", SourceOf[x] # Base
        PROVE  stage'[SourceOf[x]] \in {"held", "left", "ended"}
    <3>1. stage[x] # "new"
      BY <1>1, <2>1, <2>3 DEF AcquisitionFits
    <3>2. stage[SourceOf[x]] \in {"held", "left", "ended"}
      BY <2>1, <2>3, <3>1 DEF AcquisitionFits
    <3>3. SourceOf[x] \notin Shares
      BY <2>3
    <3>4. CASE SourceOf[x] = a
      BY <1>1, <2>1, <3>2, <3>3, <3>4
    <3>5. CASE SourceOf[x] # a
      BY <2>1, <2>2, <2>3, <3>2, <3>5
    <3> QED BY <3>4, <3>5
  <2>4. x \in Shares => stage'[x] \in {"new", "held", "left", "ended"} /\ (~session => stage'[x] = "new")
    BY <1>1, <2>1 DEF AcquisitionFits
  <2>5. x \in dep' => SourceOf[x] # Base /\ stage'[x] # "new"
    BY <1>1, <2>1 DEF AcquisitionFits
  <2> QED BY <1>1, <2>3, <2>4, <2>5 DEF AcquisitionFits
<1>2. ASSUME UNCHANGED <<stage, session>>, dep' \subseteq dep PROVE AcquisitionsFit'
  BY <1>2 DEF AcquisitionsFit, AcquisitionFits
<1>3. ASSUME NEW a \in Acquirer, AcquireEnv(a) PROVE AcquisitionsFit'
  <2> SUFFICES ASSUME NEW x \in Acquirer PROVE AcquisitionFits(x)'
    BY DEF AcquisitionsFit
  <2>1. /\ stage[a] = "new" /\ (SourceOf[a] # Base => stage[SourceOf[a]] = "held")
        /\ UNCHANGED <<session, dep>> /\ (a \in Shares => session)
        /\ stage' = [stage EXCEPT ![a] = IF a \in Shares THEN "held" ELSE "waiting"]
    BY <1>3 DEF AcquireEnv, Move
  <2>2. AcquisitionFits(x) /\ AcquisitionFits(a)
    BY DEF AcquisitionsFit
  <2>3. SourceOf[x] # Base => SourceOf[x] \in Acquirer
    OBVIOUS
  <2>4. CASE x = a
    BY <2>1, <2>2, <2>3, <2>4 DEF AcquisitionFits
  <2>5. CASE x # a
    BY <2>1, <2>2, <2>3, <2>5 DEF AcquisitionFits
  <2> QED BY <2>4, <2>5
<1>4. ASSUME NEW a \in Acquirer, Begin(a) \/ Lease(a) \/ Build(a) \/ Undo(a)
      PROVE  AcquisitionsFit'
  <2>1. stage[a] \in {"waiting", "probe", "build", "undo", "void"} /\ session' = session
    BY <1>4 DEF Begin, Lease, Build, Undo
  <2>2. a \notin Shares
    BY <2>1 DEF AcquisitionsFit, AcquisitionFits
  <2>3. PICK t : stage' = [stage EXCEPT ![a] = t] /\ t # "new"
    <3>1. Begin(a) => Move(a, "probe")
      BY DEF Begin
    <3>2. Lease(a) => Move(a, "build") \/ Move(a, "undo")
      BY DEF Lease
    <3>3. Undo(a) => Move(a, "ended")
      BY DEF Undo
    <3>4. Build(a) => Move(a, "undo") \/ Move(a, "void") \/ Move(a, "closing") \/ Move(a, "held")
      BY BuildIs, Zenon DEF SetupFails, SetupDone
    <3>5. \/ Move(a, "probe") \/ Move(a, "build") \/ Move(a, "undo") \/ Move(a, "ended")
          \/ Move(a, "void") \/ Move(a, "closing") \/ Move(a, "held")
      BY <1>4, <3>1, <3>2, <3>3, <3>4
    <3> QED BY <3>5 DEF Move
  <2>4. \A x \in dep' : x \in dep \/ (x = a /\ SourceOf[a] # Base)
    BY <1>4 DEF Begin, Lease, Build, Undo
  <2> QED BY <1>1, <2>1, <2>2, <2>3, <2>4
<1>5. ASSUME NEW a \in Acquirer, ReleaseEnv(a) PROVE AcquisitionsFit'
  <2>1. stage[a] \in {"held", "left", "closing"} /\ session' = session
    BY <1>5, ReleaseEnvIs DEF ReleaseRest
  <2>2. stage[a] = "closing" => a \notin Shares
    BY DEF AcquisitionsFit, AcquisitionFits
  <2>3. PICK t \in {"left", "ended"} : stage' = [stage EXCEPT ![a] = t]
    <3>1. Move(a, "ended") \/ Move(a, IF stage[a] = "closing" THEN "ended" ELSE "left")
      BY <1>5, ReleaseEnvIs DEF LeavesUsers, StaysForOthers, IsCleaned, StaysUnclean
    <3> QED BY <3>1 DEF Move
  <2>4. dep' \subseteq dep
    <3>1. EnvOf(a) # Base => EnvOf(a) \in Acquirer
      BY DEF EnvOf
    <3> QED
      BY <1>5, <3>1, ReleaseEnvIs, CleanFacts
         DEF LeavesUsers, StaysForOthers, IsCleaned, StaysUnclean
  <2> QED BY <1>1, <2>1, <2>2, <2>3, <2>4
<1>6. CASE ReleaseOwners
  <2>1. owners # <<>> => Last(owners) \in Acquirer
    BY TailKeeps
  <2>2. dep' \subseteq dep
    BY <1>6, <2>1, ReleaseOwnersIs, CleanFacts DEF OwnerStays, OwnerGoes, OwnersAreGone
  <2> QED BY <1>2, <1>6, <2>2, ReleaseOwnersIs
<1>7. CASE Sweep
  <2>1. todo # <<>> => Head(todo) \in Acquirer
    BY TailKeeps
  <2>2. dep' \subseteq dep
    BY <1>7, <2>1, SweepIs, CleanFacts DEF SweepIsOver, SweepsOne
  <2> QED BY <1>2, <1>7, <2>2, SweepIs
<1>8. CASE Release \/ Shut \/ Drain \/ UNCHANGED poolVars
  BY <1>2, <1>8 DEF Release, Shut, Drain, poolVars
<1> QED BY <1>3, <1>4, <1>5, <1>6, <1>7, <1>8 DEF PoolNext, PoolStep

(* What a cleanup leaves behind.                                             *)
LEMMA CleanedIsKnown ==
    ASSUME PoolTypes, NEW e \in Acquirer, Clean(e)
    PROVE  \A x \in Acquirer : Made(x)' =>
              Made(x) /\ (x \in Range(tracked) => x \in Range(tracked')) /\ (tree'[e] = "torn" => x # e)
<1>1. /\ tree' = tree \/ tree' = [tree EXCEPT ![e] = "torn"]
      /\ \A x \in Acquirer : x # e /\ x \in Range(tracked) => x \in Range(tracked')
      /\ tree'[e] # "torn" => tree' = tree /\ tracked' = tracked
  BY CleanFacts
<1> QED BY <1>1 DEF Made, PoolTypes

LEMMA MadeStaysKnown ==
    ASSUME PoolTypes, AcquisitionsFit, MadeIsKnown, [PoolNext]_poolVars
    PROVE  MadeIsKnown'
<1> USE PoolAssumption DEF PoolTypes
<1> DEFINE Working == {"build", "undo", "void"}
           Entered == {"probe", "build", "undo", "void"}
<1>1. ASSUME \A x \in Acquirer : Made(x)' => Made(x)
                                             /\ (x \in Range(tracked) => x \in Range(tracked')),
             \A x \in Acquirer : (stage[x] \in Working => stage'[x] \in Working)
                                 /\ (stage'[x] \in Entered => stage[x] \in Entered),
             rel' # "sweep", released' => released
      PROVE  MadeIsKnown'
  BY <1>1 DEF MadeIsKnown, Inflight
<1>2. ASSUME NEW a \in Acquirer, AcquireEnv(a) PROVE MadeIsKnown'
  <2>1. /\ stage[a] = "new"
        /\ stage' = [stage EXCEPT ![a] = IF a \in Shares THEN "held" ELSE "waiting"]
        /\ UNCHANGED <<tree, tracked, rel, todo, dirty, released>>
    BY <1>2 DEF AcquireEnv, Move
  <2>2. \A x \in Acquirer : /\ Made(x)' <=> Made(x)
                            /\ stage[x] \in Working => stage'[x] \in Working
                            /\ stage'[x] \in Entered => stage[x] \in Entered
    BY <1>2, <2>1 DEF Made, AcquireEnv
  <2> QED BY <2>1, <2>2 DEF MadeIsKnown, Inflight
<1>3. ASSUME NEW a \in Acquirer, Begin(a) PROVE MadeIsKnown'
  <2>1. /\ stage[a] = "waiting" /\ stage' = [stage EXCEPT ![a] = "probe"] /\ rel # "sweep"
        /\ UNCHANGED <<tree, tracked, rel>> /\ ~released'
    BY <1>3 DEF Begin, Move
  <2>2. \A x \in Acquirer : /\ Made(x)' <=> Made(x)
                            /\ stage[x] \in Working => stage'[x] \in Working
    BY <2>1 DEF Made
  <2> QED BY <2>1, <2>2 DEF MadeIsKnown
<1>4. ASSUME NEW a \in Acquirer, Lease(a) \/ Build(a) \/ Undo(a) PROVE MadeIsKnown'
  <2>1. stage[a] \in Entered /\ UNCHANGED <<rel, released>>
    BY <1>4 DEF Lease, Build, Undo
  <2>2. rel # "sweep" /\ ~released
    BY <2>1 DEF MadeIsKnown, Inflight
  <2>3. ASSUME NEW x \in Acquirer, Made(x)'
        PROVE  x \in Range(tracked') \/ stage'[x] \in Working
    <3>1. CASE Lease(a)
      BY <2>3, <3>1 DEF Lease, Move, Becomes, Made, MadeIsKnown
    <3>2. CASE Undo(a)
      <4>1. CASE /\ Becomes(a, IF tree[a] = "none" THEN "none" ELSE "torn")
                 /\ dep' = dep \ {a} /\ UNCHANGED <<tracked, broken>>
        BY <2>3, <3>2, <4>1 DEF Undo, Move, Becomes, Made, MadeIsKnown
      <4>2. CASE CleanupBreaks /\ tracked' = Append(tracked, a) /\ UNCHANGED <<tree, dep>>
        BY <2>3, <3>2, <4>2, AppendKeeps DEF Undo, Move, Made, MadeIsKnown
      <4> QED BY <3>2, <4>1, <4>2 DEF Undo
    <3>3. CASE Build(a)
      <4>1. CASE SetupFails(a)
        BY <2>3, <4>1 DEF SetupFails, Move, Made, MadeIsKnown
      <4>2. CASE SetupDone(a)
        <5>1. x # a => Made(x)
          BY <2>3, <4>2 DEF SetupDone, Becomes, Made
        <5>2. CASE Move(a, "void") /\ UNCHANGED <<tracked, refs, owners>>
          BY <5>1, <5>2 DEF Move, MadeIsKnown
        <5>3. CASE /\ tracked' = Append(tracked, a)
                   /\ Move(a, IF session /\ closed THEN "closing" ELSE "held")
          BY <5>1, <5>3, AppendKeeps DEF Move, MadeIsKnown
        <5> QED BY <4>2, <5>2, <5>3 DEF SetupDone
      <4> QED BY <3>3, <4>1, <4>2, BuildIs
    <3> QED BY <1>4, <3>1, <3>2, <3>3
  <2> QED BY <2>1, <2>2, <2>3 DEF MadeIsKnown
<1>5. ASSUME NEW a \in Acquirer, ReleaseEnv(a) PROVE MadeIsKnown'
  <2>1. /\ stage[a] \in {"held", "left", "closing"} /\ rel # "sweep"
        /\ UNCHANGED <<rel, released>>
    BY <1>5, ReleaseEnvIs DEF ReleaseRest
  <2>2. EnvOf(a) # Base => EnvOf(a) \in Acquirer
    BY DEF EnvOf
  <2>3. \A x \in Acquirer : Made(x)' => Made(x) /\ (x \in Range(tracked) => x \in Range(tracked'))
    <3>1. CASE EnvOf(a) # Base /\ Clean(EnvOf(a))
      BY <2>2, <3>1, CleanedIsKnown
    <3>2. CASE UNCHANGED <<tree, tracked>>
      BY <3>2 DEF Made
    <3> QED
      BY <1>5, <3>1, <3>2, ReleaseEnvIs DEF LeavesUsers, StaysForOthers, IsCleaned, StaysUnclean
  <2>4. Move(a, "ended") \/ Move(a, IF stage[a] = "closing" THEN "ended" ELSE "left")
    BY <1>5, ReleaseEnvIs DEF LeavesUsers, StaysForOthers, IsCleaned, StaysUnclean
  <2>5. \A x \in Acquirer : (stage[x] \in Working => stage'[x] \in Working)
                            /\ (stage'[x] \in Entered => stage[x] \in Entered)
    BY <2>1, <2>4 DEF Move
  <2> QED BY <1>1, <2>1, <2>3, <2>5
<1>6. CASE ReleaseOwners
  <2>1. owners # <<>> => Last(owners) \in Acquirer
    BY TailKeeps
  <2>2. \A x \in Acquirer : Made(x)' => Made(x) /\ (x \in Range(tracked) => x \in Range(tracked'))
    <3>1. CASE owners # <<>> /\ Clean(Last(owners))
      BY <2>1, <3>1, CleanedIsKnown
    <3>2. CASE UNCHANGED <<tree, tracked>>
      BY <3>2 DEF Made
    <3> QED BY <1>6, <3>1, <3>2, ReleaseOwnersIs DEF OwnerStays, OwnerGoes, OwnersAreGone
  <2>3. rel' # "sweep" /\ stage' = stage /\ released' = released
    BY <1>6, ReleaseOwnersIs DEF OwnerStays, OwnerGoes, OwnersAreGone
  <2> QED BY <1>1, <2>2, <2>3
<1>7. CASE Drain
  <2>1. /\ Inflight = {} /\ todo' = Reverse(tracked)
        /\ UNCHANGED <<stage, tree, tracked, released>>
    BY <1>7 DEF Drain
  <2>2. \A x \in Acquirer : Made(x)' <=> Made(x)
    BY <2>1 DEF Made
  <2>3. \A x \in Acquirer : Made(x) => x \in Range(tracked)
    BY <2>1 DEF MadeIsKnown, Inflight
  <2>4. \A x \in Acquirer : Made(x)' => x \in Range(todo')
    BY <2>1, <2>2, <2>3, ReverseKeeps
  <2> QED BY <2>1, <2>2, <2>3, <2>4 DEF MadeIsKnown, Inflight
<1>8. CASE Sweep
  <2>1. todo # <<>> => Head(todo) \in Acquirer
    BY TailKeeps
  <2>2. /\ rel = "sweep" /\ Inflight = {} /\ stage' = stage /\ Inflight' = {}
    BY <1>8, SweepIs DEF MadeIsKnown, Inflight
  <2>3. \A x \in Acquirer : Made(x)' => Made(x) /\ (x \in Range(tracked) => x \in Range(tracked'))
    <3>1. CASE todo # <<>> /\ Clean(Head(todo))
      BY <2>1, <3>1, CleanedIsKnown
    <3>2. CASE UNCHANGED <<tree, tracked>>
      BY <3>2 DEF Made
    <3> QED BY <1>8, <3>1, <3>2, SweepIs DEF SweepIsOver, SweepsOne
  <2>4. CASE SweepIsOver
    <3>1. \A x \in Acquirer : ~dirty => ~Made(x)
      BY <2>2, <2>4 DEF SweepIsOver, MadeIsKnown, Range
    <3> QED BY <2>2, <2>3, <2>4, <3>1 DEF SweepIsOver, MadeIsKnown
  <2>5. CASE SweepsOne
    <3>1. ASSUME ~dirty', NEW x \in Acquirer, Made(x)' PROVE x \in Range(todo')
      <4>1. /\ ~dirty /\ Clean(Head(todo)) /\ tree'[Head(todo)] = "torn" /\ todo # <<>>
            /\ todo' = Tail(todo)
        BY <2>5, <3>1 DEF SweepsOne
      <4>2. Made(x) /\ x # Head(todo)
        BY <2>1, <3>1, <4>1, CleanedIsKnown
      <4>3. x \in Range(todo)
        BY <2>2, <4>1, <4>2 DEF MadeIsKnown
      <4> QED BY <4>1, <4>2, <4>3, TailKeeps
    <3>2. released' = released
      BY <2>5 DEF SweepsOne
    <3> QED BY <2>2, <2>3, <3>1, <3>2 DEF MadeIsKnown
  <2> QED BY <1>8, <2>4, <2>5, SweepIs
<1>9. CASE Release \/ Shut
  <2>1. UNCHANGED <<stage, tree, tracked, released>> /\ rel' # "sweep"
    BY <1>9 DEF Release, Shut
  <2>2. \A x \in Acquirer : Made(x)' <=> Made(x)
    BY <2>1 DEF Made
  <2> QED BY <1>1, <2>1, <2>2
<1>10. CASE UNCHANGED poolVars
  BY <1>10 DEF poolVars, MadeIsKnown, Made, Inflight
<1> QED
  BY <1>2, <1>3, <1>4, <1>5, <1>6, <1>7, <1>8, <1>9, <1>10 DEF PoolNext, PoolStep

(* No environment goes before those that are made from it.                   *)
LEMMA SourcesStayLive ==
    ASSUME PoolTypes, AcquisitionsFit, SourcesLive, [PoolNext]_poolVars
    PROVE  SourcesLive'
<1> USE PoolAssumption DEF PoolTypes
<1>1. ASSUME tree' = tree, dep' \subseteq dep PROVE SourcesLive'
  BY <1>1 DEF SourcesLive
<1>2. ASSUME NEW e \in Acquirer, Clean(e), ~Depends(e) PROVE SourcesLive'
  <2>1. dep' \subseteq dep /\ (tree' = tree \/ tree' = [tree EXCEPT ![e] = "torn"])
    BY <1>2, CleanFacts
  <2>2. \A x \in dep : SourceOf[x] # e
    BY <1>2 DEF Depends
  <2>3. \A x \in dep : SourceOf[x] \in Acquirer
    BY DEF AcquisitionsFit, AcquisitionFits
  <2> QED BY <2>1, <2>2, <2>3 DEF SourcesLive
<1>3. ASSUME NEW a \in Acquirer, stage[a] \in {"probe", "build", "undo", "void"}
      PROVE  \A x \in Acquirer : stage[x] # "new" => SourceOf[x] # a
  BY <1>3 DEF AcquisitionsFit, AcquisitionFits
<1>4. \A x \in dep : x \in Acquirer /\ SourceOf[x] \in Acquirer /\ stage[x] # "new"
  BY DEF AcquisitionsFit, AcquisitionFits
<1>5. ASSUME NEW a \in Acquirer, Lease(a) PROVE SourcesLive'
  <2>1. stage[a] = "probe"
    BY <1>5 DEF Lease
  <2>2. \/ Becomes(a, "half") /\ dep' \subseteq dep \cup {a}
        \/ UNCHANGED <<tree, dep>>
    BY <1>5 DEF Lease
  <2>3. CASE Becomes(a, "half") /\ dep' \subseteq dep \cup {a}
    <3>1. ASSUME NEW x \in dep', tree'[x] = "live" PROVE tree'[SourceOf[x]] = "live"
      <4>1. x # a /\ x \in dep /\ tree[x] = "live"
        BY <2>3, <3>1, <1>4 DEF Becomes
      <4>2. SourceOf[x] # a /\ SourceOf[x] \in Acquirer /\ tree[SourceOf[x]] = "live"
        BY <1>3, <1>4, <2>1, <4>1 DEF SourcesLive
      <4> QED BY <2>3, <4>2 DEF Becomes
    <3> QED BY <3>1 DEF SourcesLive
  <2>4. CASE UNCHANGED <<tree, dep>>
    BY <1>1, <2>4
  <2> QED BY <2>2, <2>3, <2>4
<1>6. ASSUME NEW a \in Acquirer, Build(a) PROVE SourcesLive'
  <2>1. stage[a] = "build" /\ dep' = dep
    BY <1>6, BuildIs
  <2>2. CASE SetupFails(a)
    BY <1>1, <2>1, <2>2 DEF SetupFails
  <2>3. CASE SetupDone(a)
    <3>1. tree' = [tree EXCEPT ![a] = "live"] /\ (SourceOf[a] # Base => tree[SourceOf[a]] = "live")
      BY <2>3 DEF SetupDone, Becomes
    <3>2. ASSUME NEW x \in dep, tree'[x] = "live" PROVE tree'[SourceOf[x]] = "live"
      <4>1. SourceOf[x] # a /\ SourceOf[x] \in Acquirer
        BY <1>3, <1>4, <2>1
      <4>2. tree[SourceOf[x]] = "live"
        <5>1. CASE x = a
          BY <3>1, <4>1, <5>1
        <5>2. CASE x # a
          BY <1>4, <3>1, <3>2, <5>2 DEF SourcesLive
        <5> QED BY <5>1, <5>2
      <4> QED BY <3>1, <4>1, <4>2
    <3> QED BY <2>1, <3>2 DEF SourcesLive
  <2> QED BY <1>6, <2>2, <2>3, BuildIs
<1>7. ASSUME NEW a \in Acquirer, Undo(a) PROVE SourcesLive'
  <2>1. stage[a] \in {"undo", "void"}
    BY <1>7 DEF Undo
  <2>2. \/ /\ tree' = [tree EXCEPT ![a] = IF tree[a] = "none" THEN "none" ELSE "torn"]
           /\ dep' \subseteq dep
        \/ UNCHANGED <<tree, dep>>
    BY <1>7 DEF Undo, Becomes
  <2>3. ASSUME NEW x \in dep', tree'[x] = "live" PROVE tree'[SourceOf[x]] = "live"
    <3>1. x \in dep /\ tree[x] = "live"
      BY <1>4, <2>2, <2>3
    <3>2. SourceOf[x] # a /\ SourceOf[x] \in Acquirer /\ tree[SourceOf[x]] = "live"
      BY <1>3, <1>4, <2>1, <3>1 DEF SourcesLive
    <3> QED BY <2>2, <3>2
  <2> QED BY <2>3 DEF SourcesLive
<1>8. ASSUME NEW a \in Acquirer, ReleaseEnv(a) PROVE SourcesLive'
  <2>1. EnvOf(a) # Base => EnvOf(a) \in Acquirer
    BY DEF EnvOf
  <2>2. CASE EnvOf(a) # Base /\ Clean(EnvOf(a)) /\ ~Depends(EnvOf(a))
    BY <1>2, <2>1, <2>2
  <2>3. CASE UNCHANGED <<tree, dep>>
    BY <1>1, <2>3
  <2> QED
    BY <1>8, <2>2, <2>3, ReleaseEnvIs DEF LeavesUsers, StaysForOthers, IsCleaned, StaysUnclean
<1>9. CASE ReleaseOwners
  <2>1. owners # <<>> => Last(owners) \in Acquirer
    BY TailKeeps
  <2>2. CASE owners # <<>> /\ Clean(Last(owners)) /\ ~Depends(Last(owners))
    BY <1>2, <2>1, <2>2
  <2>3. CASE UNCHANGED <<tree, dep>>
    BY <1>1, <2>3
  <2> QED BY <1>9, <2>2, <2>3, ReleaseOwnersIs DEF OwnerStays, OwnerGoes, OwnersAreGone
<1>10. CASE Sweep
  <2>1. todo # <<>> => Head(todo) \in Acquirer
    BY TailKeeps
  <2>2. CASE todo # <<>> /\ Clean(Head(todo)) /\ ~Depends(Head(todo))
    BY <1>2, <2>1, <2>2
  <2>3. CASE UNCHANGED <<tree, dep>>
    BY <1>1, <2>3
  <2> QED BY <1>10, <2>2, <2>3, SweepIs DEF SweepIsOver, SweepsOne
<1>11. ASSUME NEW a \in Acquirer, AcquireEnv(a) \/ Begin(a) PROVE SourcesLive'
  BY <1>1, <1>11 DEF AcquireEnv, Begin
<1>12. CASE Release \/ Shut \/ Drain \/ UNCHANGED poolVars
  BY <1>1, <1>12 DEF Release, Shut, Drain, poolVars
<1> QED
  BY <1>5, <1>6, <1>7, <1>8, <1>9, <1>10, <1>11, <1>12 DEF PoolNext, PoolStep

(* How the users of an environment come and go.                              *)
LEMMA UsersAreCounted ==
    ASSUME PoolTypes, NEW e \in Acquirer
    PROVE  /\ IsFiniteSet(Users(e)) /\ Cardinality(Users(e)) \in Nat
           /\ \A a \in Users(e) : Cardinality(Users(e)) >= 1
           /\ \A a \in Users(e) : Cardinality(Users(e)) <= 1 => Users(e) = {a}
<1>1. Users(e) \subseteq Acquirer
  BY DEF Users
<1>2. IsFiniteSet(Users(e)) /\ Cardinality(Users(e)) \in Nat
  BY <1>1, PoolAssumption, FS_Subset, FS_CardinalityType
<1>3. ASSUME NEW a \in Users(e)
      PROVE  Cardinality(Users(e)) >= 1 /\ (Cardinality(Users(e)) <= 1 => Users(e) = {a})
  <2> DEFINE r == Users(e) \ {a}
  <2>1. IsFiniteSet(r) /\ Cardinality(r) = Cardinality(Users(e)) - 1 /\ Cardinality(r) \in Nat
    BY <1>2, <1>3, FS_RemoveElement, FS_CardinalityType
  <2>2. Cardinality(Users(e)) <= 1 => r = {}
    BY <1>2, <2>1, FS_EmptySet
  <2> QED BY <1>2, <2>1, <2>2
<1> QED BY <1>2, <1>3

LEMMA UsersChange ==
    ASSUME PoolTypes, NEW e \in Acquirer, NEW a \in Acquirer,
           \A x \in Acquirer : x # a => stage'[x] = stage[x]
    PROVE  /\ EnvOf(a) # e \/ (stage[a] \in {"held", "left"} <=> stage'[a] \in {"held", "left"})
                 => Users(e)' = Users(e)
           /\ EnvOf(a) = e /\ stage[a] \notin {"held", "left"} /\ stage'[a] \in {"held", "left"}
                 => Cardinality(Users(e))' = Cardinality(Users(e)) + 1
           /\ EnvOf(a) = e /\ stage[a] \in {"held", "left"} /\ stage'[a] \notin {"held", "left"}
                 => /\ Users(e)' = Users(e) \ {a} /\ a \in Users(e)
                    /\ Cardinality(Users(e))' = Cardinality(Users(e)) - 1
<1> USE DEF PoolTypes
<1>1. EnvOf(a) # e \/ (stage[a] \in {"held", "left"} <=> stage'[a] \in {"held", "left"})
         => Users(e)' = Users(e)
  BY DEF Users
<1>2. ASSUME EnvOf(a) = e, stage[a] \notin {"held", "left"}, stage'[a] \in {"held", "left"}
      PROVE  Cardinality(Users(e))' = Cardinality(Users(e)) + 1
  <2>1. Users(e)' = Users(e) \cup {a} /\ a \notin Users(e)
    BY <1>2 DEF Users
  <2> QED BY <2>1, UsersAreCounted, FS_AddElement
<1>3. ASSUME EnvOf(a) = e, stage[a] \in {"held", "left"}, stage'[a] \notin {"held", "left"}
      PROVE  /\ Users(e)' = Users(e) \ {a} /\ a \in Users(e)
             /\ Cardinality(Users(e))' = Cardinality(Users(e)) - 1
  <2>1. Users(e)' = Users(e) \ {a} /\ a \in Users(e)
    BY <1>3 DEF Users
  <2> QED BY <2>1, UsersAreCounted, FS_RemoveElement
<1> QED BY <1>1, <1>2, <1>3

(* An environment still being made, or being given up, has no users.         *)
LEMMA UnfinishedIsUnused ==
    ASSUME PoolTypes, AcquisitionsFit, NEW a \in Acquirer,
           stage[a] \in {"probe", "build", "undo", "void"}
    PROVE  a \notin Shares /\ EnvOf(a) = a /\ Users(a) = {}
<1>1. a \notin Shares
  BY DEF AcquisitionsFit, AcquisitionFits
<1>2. ASSUME NEW x \in Acquirer, stage[x] \in {"held", "left"}, EnvOf(x) = a PROVE FALSE
  BY <1>2, PoolAssumption DEF EnvOf, AcquisitionsFit, AcquisitionFits
<1> QED BY <1>1, <1>2 DEF EnvOf, Users

(* Before the first release every user of an environment is counted, and    *)
(* what is counted is not taken away.                                        *)
LEMMA BeforeReleaseKept ==
    ASSUME PoolTypes, AcquisitionsFit, BeforeRelease, [PoolNext]_poolVars
    PROVE  BeforeRelease'
<1> USE PoolAssumption DEF PoolTypes
<1> SUFFICES ASSUME rounds' = 0 PROVE (Unreleased /\ RefsCountUsers /\ HeldWorks)'
  BY DEF BeforeRelease
<1>1. rounds = 0 /\ ~Release
  BY DEF PoolNext, PoolStep, AcquireEnv, Begin, Lease, Build, Undo, ReleaseEnv, Shut, ReleaseOwners,
         Drain, Sweep, Release, poolVars
<1>2. Unreleased /\ RefsCountUsers /\ HeldWorks
  BY <1>1 DEF BeforeRelease
<1>3. ~Shut /\ ~ReleaseOwners /\ ~Drain /\ ~Sweep
  BY <1>2 DEF Unreleased, Shut, ReleaseOwners, Drain, Sweep
<1>4. CASE UNCHANGED poolVars
  BY <1>2, <1>4 DEF poolVars, Unreleased, RefsCountUsers, HeldWorks, Users
<1>5. ASSUME NEW a \in Acquirer, \A x \in Acquirer : x # a => stage'[x] = stage[x],
             stage'[a] \notin {"closing", "void"}, UNCHANGED <<rel, closed, generation>>,
             \A x \in Acquirer : genOf'[x] = genOf[x] \/ genOf'[x] = generation
      PROVE  Unreleased'
  BY <1>2, <1>5 DEF Unreleased
(* nothing is counted and nothing can be held while it is being made *)
<1>6. ASSUME NEW a \in Acquirer, \A x \in Acquirer : x # a => stage'[x] = stage[x],
             stage[a] \in {"waiting", "probe", "build", "undo"},
             stage'[a] \in {"probe", "build", "undo", "ended"}, UNCHANGED <<session, refs>>,
             \A x \in Acquirer : tree'[x] = tree[x] \/ (x = a /\ stage[a] # "waiting")
      PROVE  (RefsCountUsers /\ HeldWorks)'
  <2>1. \A e \in Acquirer : Users(e)' = Users(e)
    BY <1>6, UsersChange
  <2>2. ASSUME NEW x \in Acquirer, stage'[x] = "held", EnvOf(x) # Base
        PROVE  tree'[EnvOf(x)] = "live"
    <3>1. x # a /\ stage[x] = "held" /\ EnvOf(x) \in Acquirer /\ tree[EnvOf(x)] = "live"
      BY <1>2, <1>6, <2>2 DEF HeldWorks, EnvOf
    <3>2. stage[a] \in {"probe", "build", "undo"} => EnvOf(x) # a
      BY <3>1, UnfinishedIsUnused DEF Users
    <3> QED BY <1>6, <3>1, <3>2
  <2> QED BY <1>2, <1>6, <2>1, <2>2 DEF RefsCountUsers, HeldWorks
<1>7. ASSUME NEW a \in Acquirer, AcquireEnv(a)
      PROVE  (Unreleased /\ RefsCountUsers /\ HeldWorks)'
  <2>1. /\ stage[a] = "new" /\ UNCHANGED <<session, tree, genOf, rel, closed, generation>>
        /\ a \in Shares => session
        /\ SourceOf[a] # Base => stage[SourceOf[a]] = "held"
    BY <1>7 DEF AcquireEnv
  <2>2. CASE a \notin Shares
    <3>1. stage' = [stage EXCEPT ![a] = "waiting"] /\ UNCHANGED refs
      BY <1>7, <2>2 DEF AcquireEnv, Move
    <3>2. \A e \in Acquirer : Users(e)' = Users(e)
      BY <2>1, <3>1, UsersChange
    <3>3. HeldWorks'
      BY <1>2, <2>1, <3>1 DEF HeldWorks
    <3>4. Unreleased'
      BY <1>2, <2>1, <3>1 DEF Unreleased
    <3> QED BY <1>2, <2>1, <3>1, <3>2, <3>3, <3>4 DEF RefsCountUsers
  <2>3. CASE a \in Shares
    <3>1. stage' = [stage EXCEPT ![a] = "held"] /\ Register(a) /\ EnvOf(a) = SourceOf[a] /\ session
      BY <1>7, <2>1, <2>3 DEF AcquireEnv, Move, EnvOf
    <3>2. EnvOf(a) # Base => /\ EnvOf(a) \in Acquirer /\ EnvOf(a) # a /\ stage[EnvOf(a)] = "held"
                             /\ EnvOf(EnvOf(a)) = EnvOf(a)
      BY <2>1, <2>3, <3>1 DEF EnvOf
    <3>3. EnvOf(a) # Base => tree[EnvOf(a)] = "live" /\ EnvOf(a) \in Users(EnvOf(a))
      BY <1>2, <3>2 DEF HeldWorks, Users
    <3>4. refs' = [e \in Acquirer |-> IF EnvOf(a) = e THEN refs[e] + 1 ELSE refs[e]]
      <4>1. CASE EnvOf(a) = Base
        BY <2>3, <3>1, <4>1 DEF Register
      <4>2. CASE EnvOf(a) # Base
        <5>1. refs[EnvOf(a)] = Cardinality(Users(EnvOf(a)))
          BY <1>2, <3>1, <3>2, <4>2 DEF RefsCountUsers
        <5>2. refs[EnvOf(a)] > 0
          BY <3>2, <3>3, <4>2, <5>1, UsersAreCounted
        <5>3. refs' = [refs EXCEPT ![EnvOf(a)] = @ + 1]
          BY <3>1, <4>2, <5>2 DEF Register
        <5> QED BY <3>2, <4>2, <5>3
      <4> QED BY <4>1, <4>2
    <3>5. ASSUME NEW e \in Acquirer PROVE refs'[e] = Cardinality(Users(e))'
      <4>1. CASE EnvOf(a) = e
        <5>1. Cardinality(Users(e))' = Cardinality(Users(e)) + 1
          BY <2>1, <3>1, <4>1, UsersChange
        <5> QED BY <1>2, <3>1, <3>4, <4>1, <5>1 DEF RefsCountUsers
      <4>2. CASE EnvOf(a) # e
        <5>1. Users(e)' = Users(e)
          BY <3>1, <4>2, UsersChange
        <5> QED BY <1>2, <3>1, <3>4, <4>2, <5>1 DEF RefsCountUsers
      <4> QED BY <4>1, <4>2
    <3>6. HeldWorks'
      BY <1>2, <2>1, <3>1, <3>3 DEF HeldWorks
    <3>7. RefsCountUsers'
      BY <3>5 DEF RefsCountUsers
    <3>8. Unreleased'
      BY <1>2, <2>1, <3>1 DEF Unreleased
    <3> QED BY <3>6, <3>7, <3>8
  <2> QED BY <2>2, <2>3
<1>8. ASSUME NEW a \in Acquirer, Begin(a)
      PROVE  (Unreleased /\ RefsCountUsers /\ HeldWorks)'
  <2>1. /\ stage[a] = "waiting" /\ stage' = [stage EXCEPT ![a] = "probe"]
        /\ UNCHANGED <<session, tree, refs, rel, closed, generation>>
        /\ genOf' = [genOf EXCEPT ![a] = generation]
    BY <1>8 DEF Begin, Move
  <2>2. /\ stage'[a] = "probe" /\ \A x \in Acquirer : x # a => stage'[x] = stage[x]
        /\ \A x \in Acquirer : genOf'[x] = genOf[x] \/ genOf'[x] = generation
        /\ \A x \in Acquirer : tree'[x] = tree[x]
    BY <2>1
  <2>3. Unreleased'
    BY <1>5, <2>1, <2>2
  <2>4. (RefsCountUsers /\ HeldWorks)'
    BY <1>6, <2>1, <2>2
  <2> QED BY <2>3, <2>4
<1>9. ASSUME NEW a \in Acquirer, Lease(a)
      PROVE  (Unreleased /\ RefsCountUsers /\ HeldWorks)'
  <2>1. /\ stage[a] = "probe" /\ UNCHANGED <<session, refs, genOf, rel, closed, generation>>
        /\ \A x \in Acquirer : x # a => tree'[x] = tree[x]
    BY <1>9 DEF Lease, Becomes
  <2>2. stage'[a] \in {"build", "undo"} /\ \A x \in Acquirer : x # a => stage'[x] = stage[x]
    BY <1>9 DEF Lease, Move
  <2>3. Unreleased'
    BY <1>5, <2>1, <2>2
  <2>4. (RefsCountUsers /\ HeldWorks)'
    BY <1>6, <2>1, <2>2
  <2> QED BY <2>3, <2>4
<1>10. ASSUME NEW a \in Acquirer, Undo(a)
       PROVE  (Unreleased /\ RefsCountUsers /\ HeldWorks)'
  <2>1. /\ stage[a] \in {"undo", "void"} /\ stage' = [stage EXCEPT ![a] = "ended"]
        /\ UNCHANGED <<session, refs, genOf, rel, closed, generation>>
        /\ \A x \in Acquirer : x # a => tree'[x] = tree[x]
    BY <1>10 DEF Undo, Becomes, Move
  <2>2. /\ stage[a] = "undo" /\ stage'[a] = "ended"
        /\ \A x \in Acquirer : x # a => stage'[x] = stage[x]
    BY <1>2, <2>1 DEF Unreleased
  <2>3. Unreleased'
    BY <1>5, <2>1, <2>2
  <2>4. (RefsCountUsers /\ HeldWorks)'
    BY <1>6, <2>1, <2>2
  <2> QED BY <2>3, <2>4
<1>11. ASSUME NEW a \in Acquirer, Build(a)
       PROVE  (Unreleased /\ RefsCountUsers /\ HeldWorks)'
  <2>1. stage[a] = "build" /\ UNCHANGED <<session, genOf, rel, closed, generation>>
    BY <1>11, BuildIs
  <2>2. CASE SetupFails(a)
    <3>1. /\ stage'[a] = "undo" /\ \A x \in Acquirer : x # a => stage'[x] = stage[x]
          /\ UNCHANGED <<tree, refs>>
      BY <2>2 DEF SetupFails, Move
    <3>2. Unreleased'
      BY <1>5, <2>1, <3>1
    <3>3. (RefsCountUsers /\ HeldWorks)'
      BY <1>6, <2>1, <3>1
    <3> QED BY <3>2, <3>3
  <2>3. CASE SetupDone(a)
    <3>1. /\ stage' = [stage EXCEPT ![a] = "held"] /\ Register(a)
          /\ tree' = [tree EXCEPT ![a] = "live"]
      BY <1>2, <2>3 DEF SetupDone, Move, Becomes, Unreleased
    <3>2. a \notin Shares /\ EnvOf(a) = a
      BY <2>1, UnfinishedIsUnused
    <3>3. session => refs' = [refs EXCEPT ![a] = @ + 1]
      BY <3>1, <3>2 DEF Register
    <3>4. ASSUME session, NEW e \in Acquirer PROVE refs'[e] = Cardinality(Users(e))'
      <4>1. CASE a = e
        <5>1. Cardinality(Users(e))' = Cardinality(Users(e)) + 1
          BY <2>1, <3>1, <3>2, <4>1, UsersChange
        <5> QED BY <1>2, <3>3, <3>4, <4>1, <5>1 DEF RefsCountUsers
      <4>2. CASE a # e
        <5>1. Users(e)' = Users(e)
          BY <3>1, <3>2, <4>2, UsersChange
        <5> QED BY <1>2, <3>3, <3>4, <4>2, <5>1 DEF RefsCountUsers
      <4> QED BY <4>1, <4>2
    <3>5. ASSUME NEW x \in Acquirer, stage'[x] = "held", EnvOf(x) # Base
          PROVE  tree'[EnvOf(x)] = "live"
      <4>1. EnvOf(x) \in Acquirer
        BY <3>5 DEF EnvOf
      <4>2. EnvOf(x) # a => x # a
        BY <3>2
      <4> QED BY <1>2, <3>1, <3>5, <4>1, <4>2 DEF HeldWorks
    <3>6. Unreleased'
      BY <1>2, <2>1, <3>1 DEF Unreleased
    <3>7. RefsCountUsers'
      BY <2>1, <3>4 DEF RefsCountUsers
    <3> QED BY <3>5, <3>6, <3>7 DEF HeldWorks
  <2> QED BY <1>11, <2>2, <2>3, BuildIs
<1>12. ASSUME NEW a \in Acquirer, ReleaseEnv(a)
       PROVE  (Unreleased /\ RefsCountUsers /\ HeldWorks)'
  <2>1. stage[a] \in {"held", "left"} /\ UNCHANGED <<session, genOf, rel, closed, generation>>
    BY <1>2, <1>12, ReleaseEnvIs DEF ReleaseRest, Unreleased
  <2>2. EnvOf(a) # Base => EnvOf(a) \in Acquirer
    BY DEF EnvOf
  (* it stays counted, by one that gave it up *)
  <2>3. ASSUME Move(a, "left"), UNCHANGED <<tree, refs>>
        PROVE  (Unreleased /\ RefsCountUsers /\ HeldWorks)'
    <3>1. stage' = [stage EXCEPT ![a] = "left"]
      BY <2>3 DEF Move
    <3>2. \A e \in Acquirer : Users(e)' = Users(e)
      BY <2>1, <3>1, UsersChange
    <3>3. HeldWorks'
      BY <1>2, <2>3, <3>1 DEF HeldWorks
    <3>4. Unreleased'
      BY <1>2, <2>1, <3>1 DEF Unreleased
    <3> QED BY <1>2, <2>1, <2>3, <3>2, <3>3, <3>4 DEF RefsCountUsers
  <2>4. CASE LeavesUsers(a)
    <3>1. /\ stage' = [stage EXCEPT ![a] = "ended"] /\ tree' = tree
          /\ IF EnvOf(a) = Base THEN refs' = refs ELSE refs' = [refs EXCEPT ![EnvOf(a)] = @ - 1]
      BY <2>4 DEF LeavesUsers, Move
    <3>2. ASSUME session, NEW e \in Acquirer PROVE refs'[e] = Cardinality(Users(e))'
      <4>1. CASE EnvOf(a) = e
        <5>1. Cardinality(Users(e))' = Cardinality(Users(e)) - 1
          BY <2>1, <3>1, <4>1, UsersChange
        <5> QED BY <1>2, <3>1, <3>2, <4>1, <5>1 DEF RefsCountUsers
      <4>2. CASE EnvOf(a) # e
        <5>1. Users(e)' = Users(e)
          BY <3>1, <4>2, UsersChange
        <5>2. refs'[e] = refs[e]
          BY <2>2, <3>1, <4>2
        <5> QED BY <1>2, <3>2, <5>1, <5>2 DEF RefsCountUsers
      <4> QED BY <4>1, <4>2
    <3>3. HeldWorks'
      BY <1>2, <3>1 DEF HeldWorks
    <3>4. RefsCountUsers'
      BY <2>1, <3>2 DEF RefsCountUsers
    <3>5. Unreleased'
      BY <1>2, <2>1, <3>1 DEF Unreleased
    <3> QED BY <3>3, <3>4, <3>5
  <2>5. CASE StaysForOthers(a)
    BY <2>1, <2>3, <2>5 DEF StaysForOthers
  <2>6. CASE StaysUnclean(a)
    <3>1. UNCHANGED <<tree, refs>>
      BY <2>2, <2>6, CleanFacts DEF StaysUnclean
    <3> QED BY <2>1, <2>3, <2>6, <3>1 DEF StaysUnclean
  (* the last user goes, and the environment with it *)
  <2>7. CASE IsCleaned(a)
    <3> DEFINE e == EnvOf(a)
    <3>1. /\ e \in Acquirer /\ refs[e] <= 1 /\ stage' = [stage EXCEPT ![a] = "ended"]
          /\ refs' = [refs EXCEPT ![e] = 0]
          /\ \A x \in Acquirer : x # e => tree'[x] = tree[x]
      BY <2>2, <2>7, CleanFacts DEF IsCleaned, Move, Free
    <3> HIDE DEF e
    <3>2. a \in Users(e) /\ Users(e)' = Users(e) \ {a}
      BY <2>1, <3>1, UsersChange DEF e
    <3>3. Users(e) = {a}
      <4>1. CASE session
        <5>1. Cardinality(Users(e)) <= 1
          BY <1>2, <3>1, <4>1 DEF RefsCountUsers
        <5> QED BY <3>1, <3>2, <5>1, UsersAreCounted
      <4>2. CASE ~session
        <5>1. \A x \in Acquirer : stage[x] # "new" => x \notin Shares
          BY <4>2 DEF AcquisitionsFit, AcquisitionFits
        <5>2. \A x \in Users(e) : x = e
          BY <5>1 DEF Users, EnvOf
        <5> QED BY <3>2, <5>2
      <4> QED BY <4>1, <4>2
    <3>4. Users(e)' = {}
      BY <3>2, <3>3
    <3>5. ASSUME session, NEW d \in Acquirer PROVE refs'[d] = Cardinality(Users(d))'
      <4>1. CASE d = e
        BY <3>1, <3>4, <4>1, FS_EmptySet
      <4>2. CASE d # e
        <5>1. Users(d)' = Users(d)
          BY <3>1, <4>2, UsersChange DEF e
        <5> QED BY <1>2, <3>1, <3>5, <4>2, <5>1 DEF RefsCountUsers
      <4> QED BY <4>1, <4>2
    <3>6. ASSUME NEW x \in Acquirer, stage'[x] = "held", EnvOf(x) # Base
          PROVE  tree'[EnvOf(x)] = "live"
      <4>1. x # a /\ stage[x] = "held" /\ EnvOf(x) \in Acquirer /\ tree[EnvOf(x)] = "live"
        BY <1>2, <3>1, <3>6 DEF HeldWorks, EnvOf
      <4>2. EnvOf(x) # e
        BY <3>3, <4>1 DEF Users
      <4> QED BY <3>1, <4>1, <4>2
    <3>7. Unreleased'
      BY <1>2, <2>1, <3>1 DEF Unreleased
    <3>8. RefsCountUsers'
      BY <2>1, <3>5 DEF RefsCountUsers
    <3> QED BY <3>6, <3>7, <3>8 DEF HeldWorks
  <2> QED BY <1>12, <2>4, <2>5, <2>6, <2>7, ReleaseEnvIs
<1> QED
  BY <1>1, <1>3, <1>4, <1>7, <1>8, <1>9, <1>10, <1>11, <1>12 DEF PoolNext, PoolStep

LEMMA PoolStarts == PoolInit => PoolInv
<1> SUFFICES ASSUME PoolInit PROVE PoolInv
  OBVIOUS
<1> USE PoolAssumption
<1>1. PoolTypes
  <2>1. <<>> \in Seq(Acquirer)
    OBVIOUS
  <2>2. /\ stage \in [Acquirer -> {"new", "waiting", "probe", "build", "undo", "void", "closing",
                                   "held", "left", "ended"}]
        /\ tree \in [Acquirer -> {"none", "half", "live", "torn"}]
        /\ genOf \in [Acquirer -> Nat] /\ refs \in [Acquirer -> Nat]
    BY DEF PoolInit
  <2> QED BY <2>1, <2>2, Zenon DEF PoolInit, PoolTypes
<1>2. AcquisitionsFit /\ SourcesLive
  BY DEF PoolInit, AcquisitionsFit, AcquisitionFits, SourcesLive
<1>3. MadeIsKnown
  BY DEF PoolInit, MadeIsKnown, Made, Inflight
<1>4. \A e \in Acquirer : Users(e) = {}
  BY DEF PoolInit, Users
<1>5. RefsCountUsers
  BY <1>4, FS_EmptySet DEF PoolInit, RefsCountUsers
<1>6. Unreleased /\ HeldWorks
  BY DEF PoolInit, Unreleased, HeldWorks
<1> QED BY <1>1, <1>2, <1>3, <1>5, <1>6 DEF PoolInv, BeforeRelease

LEMMA PoolKept == PoolInv /\ [PoolNext]_poolVars => PoolInv'
BY PoolTypesKept, AcquisitionsStayFit, MadeStaysKnown, SourcesStayLive, BeforeReleaseKept DEF PoolInv

LEMMA PoolInvIsEnough == PoolInv => PoolIsSound
<1> SUFFICES ASSUME PoolInv PROVE PoolIsSound
  OBVIOUS
<1>1. NothingEscapes
  BY DEF PoolInv, MadeIsKnown, Made, NothingEscapes
<1>2. LentIsUsable
  BY DEF PoolInv, BeforeRelease, HeldWorks, SourcesLive, LentIsUsable
<1> QED BY <1>1, <1>2 DEF PoolIsSound

(* Whatever acquisitions, single releases and releases of everything        *)
(* overlap, and whatever is cancelled or fails, an environment in use works *)
(* until the whole pool is released, with all it is made from, and none     *)
(* that was made escapes the pool (acquire, release_env and release of      *)
(* worktree_pool.py and session_environments.py).                           *)
THEOREM EnvironmentsAreKept == PoolSpec => []PoolIsSound
<1>1. PoolSpec => []PoolInv
  BY PoolStarts, PoolKept, PTL DEF PoolSpec
<1>2. QED
  BY <1>1, PoolInvIsEnough, PTL
====

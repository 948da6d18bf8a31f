----------------------------- MODULE MCAdapters -----------------------------
(***************************************************************************)
(* What the engine runs on, for TLC: workspaces, the pool of environments,  *)
(* the candidates of a workflow, requests to a provider, the files of a     *)
(* snapshot, running tools, the guard against repeated calls, commands in a *)
(* container and in a remote machine.  They are checked side by side:       *)
(* `part` says which one a behaviour is about; the state of the others      *)
(* stays at one initial value.                                              *)
(***************************************************************************)
EXTENDS IsolatedWorkspace, EnvironmentPool, CandidateRuns, ProviderRequests,
        SnapshotJournal, ToolRuns, RepeatedCalls,
        ContainerCommands, RemoteOperations, TLC

VARIABLE part

(* a fork of the lead's environment with a guest in it, and a peer *)
Sources == "lead" :> Base @@ "fork" :> "lead" @@ "peer" :> Base @@ "guest" :> "fork"

Protocols == "c" :> "chat" @@ "r" :> "responses" @@ "w" :> "whole"

ToolKinds == { "a" :> "command" @@ "b" :> k : k \in {"write", "command", "wild"} }

Owners == "x" :> "a" @@ "y" :> "b"

WorkspaceRest == place = "git" /\ branch = "absent"
PoolRest      == ~session
ToolsRest     == kind = [c \in ToolCall |-> "command"]
ContainerRest == scope = "user"

MCInit ==
    /\ part \in {"workspace", "pool", "candidates", "requests", "journal", "tools", "loops",
                 "containers", "remote"}
    /\ WorkspaceInit /\ PoolInit /\ CandidatesInit /\ RequestsInit
    /\ JournalInit /\ ToolsInit /\ LoopsInit /\ ContainerInit /\ RemoteInit
    /\ part # "workspace" => WorkspaceRest
    /\ part # "pool" => PoolRest
    /\ part # "tools" => ToolsRest
    /\ part # "containers" => ContainerRest

WorkspacePart ==
    part = "workspace" /\ WorkspaceNext
    /\ UNCHANGED <<part, poolVars, candVars, llmVars, journalVars, toolVars,
                   loopVars, boxVars, remoteVars>>
PoolPart ==
    part = "pool" /\ PoolNext
    /\ UNCHANGED <<part, wsVars, candVars, llmVars, journalVars, toolVars,
                   loopVars, boxVars, remoteVars>>
CandidatesPart ==
    part = "candidates" /\ CandidatesNext
    /\ UNCHANGED <<part, wsVars, poolVars, llmVars, journalVars, toolVars,
                   loopVars, boxVars, remoteVars>>
RequestsPart ==
    part = "requests" /\ RequestsNext
    /\ UNCHANGED <<part, wsVars, poolVars, candVars, journalVars, toolVars,
                   loopVars, boxVars, remoteVars>>
JournalPart ==
    part = "journal" /\ JournalNext
    /\ UNCHANGED <<part, wsVars, poolVars, candVars, llmVars, toolVars,
                   loopVars, boxVars, remoteVars>>
ToolsPart ==
    part = "tools" /\ ToolsNext
    /\ UNCHANGED <<part, wsVars, poolVars, candVars, llmVars, journalVars,
                   loopVars, boxVars, remoteVars>>
LoopsPart ==
    part = "loops" /\ LoopsNext
    /\ UNCHANGED <<part, wsVars, poolVars, candVars, llmVars, journalVars,
                   toolVars, boxVars, remoteVars>>
ContainerPart ==
    part = "containers" /\ ContainerNext
    /\ UNCHANGED <<part, wsVars, poolVars, candVars, llmVars, journalVars,
                   toolVars, loopVars, remoteVars>>
RemotePart ==
    part = "remote" /\ RemoteNext
    /\ UNCHANGED <<part, wsVars, poolVars, candVars, llmVars, journalVars,
                   toolVars, loopVars, boxVars>>

mcVars == <<part, wsVars, poolVars, candVars, llmVars, journalVars, toolVars, loopVars,
            boxVars, remoteVars>>

MCSpec ==
    MCInit /\ [][\/ WorkspacePart \/ PoolPart \/ CandidatesPart \/ RequestsPart
                 \/ JournalPart \/ ToolsPart \/ LoopsPart \/ ContainerPart \/ RemotePart]_mcVars
=============================================================================

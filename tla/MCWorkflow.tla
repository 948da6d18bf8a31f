----------------------------- MODULE MCWorkflow -----------------------------
(***************************************************************************)
(* The workflow engine for TLC: its calls, its collections, the owner of a  *)
(* run, and a workflow that a member wrote.  `part` says which of them a    *)
(* behaviour is about; the state of the others stays at its initial value.  *)
(***************************************************************************)
EXTENDS WorkflowCalls, WorkflowCollections, RunLifecycle, AuthoredWorkflows, TLC

VARIABLE part

Unused == [c \in Call |-> "unused"]

Scripts ==
    { "a" :> "structured" @@ "b" :> "run" @@ Unused,
      "a" :> "enforced" @@ "b" :> "draft" @@ Unused,
      "a" :> "agent" @@ "b" :> "run" @@ Unused,
      "a" :> "agent" @@ "f" :> "flow" @@ "k" :> "agent" @@ Unused }

CallOwners == [c \in Call |-> IF c = "k" THEN "f" ELSE "root"]
CallCaps   == [c \in Call |-> CASE c = "f" -> 2 [] c = "b" -> 1 [] OTHER -> 0]

(* a unit with two units: one leaves its collection, and a unit that goes on *)
(* under the slot it borrows, to a background task; the other one has two    *)
(* units, and queues for the slot the first one has left on                  *)
Tree == (1 :> 0 @@ 2 :> 1 @@ 3 :> 1 @@ 4 :> 2 @@ 5 :> 3 @@ 6 :> 3 @@ 7 :> 4)

Chores == {[c \in Errand |-> d] : d \in {"edit", "use", "complete"}}

CallsRest == WorkflowInit /\ kind["f"] = "flow"
LifeRest  == LifecycleInit /\ mode = "agent" /\ ownsEnv = FALSE
ChildRest == AuthoredInit /\ \A c \in Errand : deed[c] = "use"

MCInit ==
    /\ part \in {"calls", "collections", "life", "authored"}
    /\ IF part = "calls" THEN WorkflowInit ELSE CallsRest
    /\ IF part = "life" THEN LifecycleInit ELSE LifeRest
    /\ IF part = "authored" THEN AuthoredInit ELSE ChildRest
    /\ CollectionsInit

mcVars == <<part, wfVars, collVars, lifeVars, authoredVars>>

CallsIdle       == UNCHANGED <<part, collVars, lifeVars, authoredVars>>
CollectionsIdle == UNCHANGED <<part, wfVars, lifeVars, authoredVars>>
LifeIdle        == UNCHANGED <<part, wfVars, collVars, authoredVars>>
AuthoredIdle    == UNCHANGED <<part, wfVars, collVars, lifeVars>>

MCNext ==
    \/ part = "calls" /\ WorkflowNext /\ CallsIdle
    \/ part = "collections" /\ CollectionsNext /\ CollectionsIdle
    \/ part = "life" /\ LifecycleNext /\ LifeIdle
    \/ part = "authored" /\ AuthoredNext /\ AuthoredIdle

MCStep ==
    \/ part = "calls" /\ WorkflowStep /\ CallsIdle
    \/ part = "collections" /\ CollectionsStep /\ CollectionsIdle
    \/ part = "life" /\ (OwnerStep \/ CallerStep) /\ LifeIdle
    \/ part = "authored" /\ AuthoredStep /\ AuthoredIdle

MCSpec == MCInit /\ [][MCNext]_mcVars /\ WF_mcVars(MCStep)

(* Every part of the engine ends, in every interleaving of leases, permits, *)
(* timeouts and cancellations: a run reaches its boundary once every call   *)
(* has returned, the outermost collection closes though its units borrow    *)
(* slots of one another, and the caller of a run gets its answer though     *)
(* some task of the run never ends; the stop of an authored workflow returns *)
(* whatever its process does.                                               *)
EveryPartEnds ==
    <>(CASE part = "calls"       -> boundary = "closed"
         [] part = "collections" -> coll[Top] = "closed"
         [] part = "life"        -> caller = "ended"
         [] OTHER                -> stopper = "returned")
=============================================================================

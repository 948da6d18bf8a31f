---------------------------- MODULE WorkflowCalls ----------------------------
(***************************************************************************)
(* The calls a workflow script makes: agent, structured and enforced agents,*)
(* draft_findings, agent_run and candidate_workflow.                        *)
(*                                                                          *)
(* A call reserves a lease of the shared token pool, then takes one permit  *)
(* of the agent semaphore, looks again at the pool, builds a session and    *)
(* runs one turn of it.  A turn that times out or is cancelled may resist:  *)
(* the call returns and its lease and permit stay with a cleanup task until *)
(* the session is quiet.  A candidate workflow is a call whose lease is the *)
(* pool of a child context with calls of its own.  The boundary of the run  *)
(* waits until nothing the context owns is left.                            *)
(*                                                                          *)
(* Source: application/workflow.py, workflow_budget.py, workflow_runtime.py,*)
(* workflow_agents.py, workflow_agent_run.py, workflow_structured.py and    *)
(* candidate_workflow of workflow_candidates.py.                            *)
(***************************************************************************)
EXTENDS Integers, FiniteSets, Functions

CONSTANTS
    Call,           \* the calls of the script
    Script,         \* the scripts: which calls are made, and of which kind
    Owner,          \* the context of a call: Root or a "flow" call
    Root,           \* the context of the run
    Over,           \* calls made with over_budget_ok
    Cap,            \* budget= of a call, 0 for None
    Sticky,         \* calls whose session may resist cancellation
    PoolTotal,      \* budget_total of the run
    Permits,        \* max_concurrency
    MaxCost,        \* bound: tokens one model call can cost
    Escape          \* the allowance of an over-budget call without a cap

CallKind == {"agent", "structured", "enforced", "draft", "run", "flow", "unused"}

ASSUME WorkflowAssumption ==
    /\ IsFiniteSet(Call) /\ Root \notin Call
    /\ Script \subseteq [Call -> CallKind]
    /\ Owner \in [Call -> Call \cup {Root}] /\ Over \subseteq Call
    /\ \A s \in Script, c \in Call :
          /\ Owner[c] # Root => Owner[Owner[c]] = Root /\ s[c] # "flow"
          /\ Owner[c] # Root /\ s[c] # "unused" => s[Owner[c]] = "flow"
          /\ c \in Over => s[c] \in {"agent", "structured", "enforced", "unused"}
    /\ Cap \in [Call -> Nat] /\ Sticky \subseteq Call
    /\ PoolTotal \in Nat /\ Permits \in Nat \ {0}
    /\ MaxCost \in Nat \ {0} /\ Escape \in Nat

VARIABLES
    kind,       \* the script of the run
    stage,      \* where a call stands
    grant,      \* total of its lease
    held,       \* its lease is in _leases of its context's budget
    used,       \* used_tokens of the sessions tracked under its lease
    task,       \* its session: absent, running, resisting cancellation, or
                \*   ended with a completion callback still to run
    permit,     \* it, or its cleanup task, holds a permit of _semaphore
    tries,      \* sessions it built
    captured,   \* its capture tool holds a valid submission
    outcome,    \* what it returned or raised
    unsafe,     \* contexts with _agent_run_environment_unsafe
    escapes,    \* calls that claimed _budget_escape_state
    boundary    \* the owner of the run: "running", "wait", "seen", "closed"

wfVars == <<kind, stage, grant, held, used, task, permit, tries, captured, outcome,
            unsafe, escapes, boundary>>

Stage   == {"idle", "ask", "slot", "enter", "build", "turn", "after", "settle",
            "child", "unwind", "done"}
Task    == {"none", "running", "draining", "late"}
Outcome == {"none", "value", "null", "refused", "revoked", "failed", "cancelled"}

Low(x, y)  == IF x <= y THEN x ELSE y
High(x, y) == IF x <= y THEN y ELSE x

-----------------------------------------------------------------------------
(* The pool *)

Children(b) == {c \in Call : Owner[c] = b}

(* spent: the sessions of a child context are tracked by its parent too *)
Spent(b) == SumFunctionOnSet(used, IF b = Root THEN Call ELSE Children(b))

(* _BudgetLease.remaining *)
LeaseLeft(c) == High(0, grant[c] - (IF kind[c] = "flow" THEN Spent(c) ELSE used[c]))

Reserve(c)  == IF held[c] THEN LeaseLeft(c) ELSE 0
Reserved(b) == SumFunctionOnSet([c \in Call |-> Reserve(c)], Children(b))

RootRemaining == PoolTotal - Spent(Root) - Reserved(Root)

(* remaining: a child context also sees what its siblings left of the pool *)
PoolRemaining(b) ==
    IF b = Root THEN RootRemaining
    ELSE Low(grant[b], Spent(b) + RootRemaining + LeaseLeft(b)) - Spent(b) - Reserved(b)

Available(c) == High(0, PoolRemaining(Owner[c]))

Waiters(b) == Cardinality({c \in Children(b) : stage[c] = "ask"})

(* the grants a call may get while something is available: its cap, an even  *)
(* share among the waiters, or the share its collection planned when it     *)
(* started, all within what is left                                         *)
Shares(c) ==
    IF Cap[c] # 0 THEN {Low(Cap[c], Available(c))}
    ELSE {High(1, Available(c) \div High(1, Waiters(Owner[c])))}
         \cup {Low(planned, Available(c)) : planned \in 0 .. PoolTotal}

Revoked(c) == Owner[c] \in unsafe

FreePermits == Permits - Cardinality({c \in Call : permit[c]})

(* tasks the context of `b` owns: calls, sessions and cleanup *)
Pending(b) ==
    {c \in Call : /\ b = Root \/ Owner[c] = b
                  /\ \/ stage[c] \notin {"idle", "done"}
                     \/ task[c] \in {"running", "draining"}
                     \/ stage[c] = "done" /\ (held[c] \/ permit[c])}

-----------------------------------------------------------------------------
(* Leaving a call *)

(* mutant: a call that returns gives back its permit with the session still *)
(* running                                                                  *)
LeaveEagerly(c, why) ==
    /\ stage' = [stage EXCEPT ![c] = "done"]
    /\ outcome' = [outcome EXCEPT ![c] = why]
    /\ permit' = [permit EXCEPT ![c] = FALSE]
    /\ held' = [held EXCEPT ![c] = @ /\ task'[c] \in {"draining", "late"}]

(* the finally of a call: release now, or hand lease and permit to cleanup  *)
Leave(c, why) ==
    /\ stage' = [stage EXCEPT ![c] = "done"]
    /\ outcome' = [outcome EXCEPT ![c] = why]
    /\ permit' = [permit EXCEPT ![c] = @ /\ task'[c] \in {"draining", "late"}]
    /\ held' = [held EXCEPT ![c] = @ /\ task'[c] \in {"draining", "late"}]

(* _release_call_after_tasks, _release_slot_after_tasks *)
ReleaseAfterTasks(c) ==
    /\ stage[c] = "done" /\ task[c] = "none" /\ (held[c] \/ permit[c])
    /\ held' = [held EXCEPT ![c] = FALSE]
    /\ permit' = [permit EXCEPT ![c] = FALSE]
    /\ UNCHANGED <<kind, stage, grant, used, task, tries, captured, outcome, unsafe, escapes, boundary>>

-----------------------------------------------------------------------------
(* Entering a call *)

(* the context of the call is still there *)
Callable(c) ==
    /\ stage[c] = "idle" /\ boundary # "closed"
    /\ Owner[c] # Root => stage[Owner[c]] = "child"

(* agent, agent_run, candidate_workflow *)
Begin(c) ==
    /\ Callable(c) /\ kind[c] \notin {"draft", "unused"}
    /\ IF Revoked(c)
       THEN /\ stage' = [stage EXCEPT ![c] = "done"]
            /\ outcome' = [outcome EXCEPT ![c] = "revoked"]
       ELSE /\ stage' = [stage EXCEPT ![c] = "ask"]
            /\ UNCHANGED outcome
    /\ UNCHANGED <<kind, grant, held, used, task, permit, tries, captured, unsafe, escapes, boundary>>

(* draft_findings takes its permit first, and does not ask for a revocation *)
BeginDraft(c) ==
    /\ Callable(c) /\ kind[c] = "draft"
    /\ stage' = [stage EXCEPT ![c] = "slot"]
    /\ UNCHANGED <<kind, grant, held, used, task, permit, tries, captured, outcome, unsafe, escapes, boundary>>

(* where a granted lease leads: a call that already has a permit builds *)
AfterLease(c) ==
    IF kind[c] = "flow" THEN "child" ELSE IF permit[c] THEN "build" ELSE "slot"

(* _acquire_budget_lease on an exhausted pool: the one escape of the run *)
AcquireEscape(c) ==
    /\ stage[c] = "ask" /\ Available(c) = 0 /\ c \in Over
    /\ escapes = {}
    /\ grant' = [grant EXCEPT ![c] = IF Cap[c] = 0 THEN Escape ELSE Cap[c]]
    /\ escapes' = escapes \cup {c}
    /\ stage' = [stage EXCEPT ![c] = AfterLease(c)]
    /\ UNCHANGED <<kind, held, used, task, permit, tries, captured, outcome, unsafe, boundary>>

(* _acquire_budget_lease: the waiters counted before the lock share alike *)
AcquireLease(c) ==
    /\ stage[c] = "ask" /\ Available(c) > 0
    /\ \E share \in Shares(c) : grant' = [grant EXCEPT ![c] = share]
    /\ held' = [held EXCEPT ![c] = TRUE]
    /\ stage' = [stage EXCEPT ![c] = AfterLease(c)]
    /\ UNCHANGED <<kind, used, task, permit, tries, captured, outcome, unsafe, escapes, boundary>>

(* WorkflowBudgetExceeded; draft_findings answers None instead *)
RefuseLease(c) ==
    /\ stage[c] = "ask" /\ Available(c) = 0
    /\ c \in Over => escapes # {}
    /\ UNCHANGED task
    /\ Leave(c, IF kind[c] = "draft" THEN "null" ELSE "refused")
    /\ UNCHANGED <<kind, grant, used, tries, captured, unsafe, escapes, boundary>>

(* _semaphore.acquire *)
TakePermit(c) ==
    /\ stage[c] = "slot" /\ FreePermits > 0
    /\ permit' = [permit EXCEPT ![c] = TRUE]
    /\ stage' = [stage EXCEPT ![c] = IF kind[c] = "draft" THEN "ask" ELSE "enter"]
    /\ UNCHANGED <<kind, grant, held, used, task, tries, captured, outcome, unsafe, escapes, boundary>>

(* behind the semaphore: look for a revocation again *)
EnterRevoked(c) ==
    /\ stage[c] = "enter" /\ Revoked(c)
    /\ UNCHANGED task
    /\ Leave(c, "revoked")
    /\ UNCHANGED <<kind, grant, used, tries, captured, unsafe, escapes, boundary>>

(* _refresh_budget_lease: keep, shrink, or give back a lease and ask again  *)
Enter(c) ==
    /\ stage[c] = "enter" /\ ~Revoked(c)
    /\ LET left    == High(0, PoolRemaining(Owner[c]) + LeaseLeft(c))
           booked  == held[c] /\ grant[c] > 0
       IN  \/ /\ ~booked
              /\ stage' = [stage EXCEPT ![c] = "build"]
              /\ UNCHANGED <<grant, held>>
           \/ /\ booked /\ left = 0
              /\ stage' = [stage EXCEPT ![c] = "ask"]
              /\ held' = [held EXCEPT ![c] = FALSE]
              /\ UNCHANGED grant
           \/ /\ booked /\ left > 0
              /\ stage' = [stage EXCEPT ![c] = "build"]
              /\ grant' = [grant EXCEPT ![c] = Low(@, left)]
              /\ UNCHANGED held
    /\ UNCHANGED <<kind, used, task, permit, tries, captured, outcome, unsafe, escapes, boundary>>

-----------------------------------------------------------------------------
(* Running a session *)

(* _build_workflow_session and _track_session; the environment is acquired  *)
(* and the session built without another look at the revocation             *)
Build(c) ==
    /\ stage[c] = "build"
    /\ task' = [task EXCEPT ![c] = "running"]
    /\ tries' = [tries EXCEPT ![c] = @ + 1]
    /\ stage' = [stage EXCEPT ![c] = "turn"]
    /\ UNCHANGED <<kind, grant, held, used, permit, captured, outcome, unsafe, escapes, boundary>>

(* the factory raises: the failure is recorded, an enforced call may answer *)
(* with its draft                                                           *)
BuildFails(c) ==
    /\ stage[c] = "build"
    /\ UNCHANGED task
    /\ \E why \in CASE kind[c] = "run" -> {"failed"}
                    [] kind[c] = "enforced" -> {"null", "value"}
                    [] OTHER -> {"null"} :
          Leave(c, why)
    /\ UNCHANGED <<kind, grant, used, tries, captured, unsafe, escapes, boundary>>

(* a model call of the session: started while the allowance lasts, also by  *)
(* a session that resists its cancellation                                  *)
ModelCall(c) ==
    /\ task[c] \in {"running", "draining"} /\ used[c] < grant[c]
    /\ \E cost \in 1 .. MaxCost : used' = [used EXCEPT ![c] = @ + cost]
    /\ UNCHANGED <<kind, stage, grant, held, task, permit, tries, captured, outcome, unsafe, escapes, boundary>>

(* a capture tool accepts a submission; it sets the cancel event *)
Capture(c) ==
    /\ stage[c] = "turn" /\ kind[c] \in {"structured", "enforced", "draft"} /\ ~captured[c]
    /\ captured' = [captured EXCEPT ![c] = TRUE]
    /\ UNCHANGED <<kind, stage, grant, held, used, task, permit, tries, outcome, unsafe, escapes, boundary>>

(* an enforced call can harvest text or evidence without a capture *)
Answers(c) ==
    IF captured[c] THEN {"value"}
    ELSE IF kind[c] \in {"structured", "draft"} THEN {"null"} ELSE {"value", "null"}

(* _run_session_turn returns, or raises an error the call swallows *)
TurnEnds(c) ==
    /\ stage[c] = "turn"
    /\ task' = [task EXCEPT ![c] = "none"]
    /\ \/ /\ kind[c] \in {"agent", "draft"}
          /\ \E why \in Answers(c) \cup {"null"} : Leave(c, why)
       \/ /\ kind[c] \in {"structured", "enforced", "run"}
          /\ stage' = [stage EXCEPT ![c] = IF kind[c] = "run" THEN "settle" ELSE "after"]
          /\ UNCHANGED <<held, permit, outcome>>
    /\ UNCHANGED <<kind, grant, used, tries, captured, unsafe, escapes, boundary>>

Interrupted(c) ==
    \/ task' = [task EXCEPT ![c] = "none"]
    \/ c \in Sticky /\ task' = [task EXCEPT ![c] = "draining"]

(* _run_with_timeout: the task is cancelled and left to the lease *)
TurnTimesOut(c) ==
    /\ stage[c] = "turn"
    /\ Interrupted(c)
    /\ \/ /\ kind[c] \in {"agent", "structured", "draft"}
          /\ Leave(c, "null")
       \/ /\ kind[c] \in {"enforced", "run"}
          /\ stage' = [stage EXCEPT ![c] = IF kind[c] = "run" THEN "settle" ELSE "after"]
          /\ UNCHANGED <<held, permit, outcome>>
    /\ UNCHANGED <<kind, grant, used, tries, captured, unsafe, escapes, boundary>>

(* an enforced call harvests its report; a structured one returns its capture*)
Conclude(c) ==
    /\ stage[c] = "after"
    /\ UNCHANGED task
    /\ \E why \in Answers(c) : Leave(c, why)
    /\ UNCHANGED <<kind, grant, used, tries, captured, unsafe, escapes, boundary>>

(* nothing was captured, and nothing of the first session still runs *)
MayCorrect(c) == stage[c] = "after" /\ ~captured[c] /\ tries[c] < 2 /\ task[c] = "none"

(* one corrective session with the capture tool alone, on what the lease    *)
(* has left (_forced_structured_commit, _synthesize_dead_scout)             *)
Correct(c) ==
    /\ MayCorrect(c)
    /\ stage' = [stage EXCEPT ![c] = "turn"]
    /\ tries' = [tries EXCEPT ![c] = @ + 1]
    /\ task' = [task EXCEPT ![c] = "running"]
    /\ UNCHANGED <<kind, grant, held, used, permit, captured, outcome, unsafe, escapes, boundary>>

(* _settle_agent_run: bounded; a session that is not quiet makes the        *)
(* environment of its context unsafe                                        *)
Settle(c) ==
    /\ stage[c] = "settle" /\ task[c] # "late"
    /\ UNCHANGED task
    /\ IF task[c] = "none"
       THEN /\ \E why \in {"value", "failed"} : Leave(c, why)
            /\ UNCHANGED unsafe
       ELSE /\ Leave(c, "failed")
            /\ unsafe' = unsafe \cup {Owner[c]}
    /\ UNCHANGED <<kind, grant, used, tries, captured, escapes, boundary>>

(* the caller's task is cancelled while the call waits or runs *)
CancelCall(c) ==
    /\ stage[c] \in {"ask", "slot", "enter", "build", "turn"}
    /\ kind[c] = "flow" => stage[c] = "ask"
    /\ IF stage[c] = "turn" THEN Interrupted(c) ELSE UNCHANGED task
    /\ Leave(c, "cancelled")
    /\ unsafe' = IF kind[c] = "run" /\ task'[c] = "draining"
                 THEN unsafe \cup {Owner[c]} ELSE unsafe
    /\ UNCHANGED <<kind, grant, used, tries, captured, escapes, boundary>>

(* a resisting session ends; its callback may still record late usage *)
DrainEnds(c) ==
    /\ task[c] = "draining"
    /\ \E t \in {"none", "late"} : task' = [task EXCEPT ![c] = t]
    /\ UNCHANGED <<kind, stage, grant, held, used, permit, tries, captured, outcome, unsafe, escapes, boundary>>

(* the late-usage checkpoint of a completion callback *)
LateUsage(c) ==
    /\ task[c] = "late"
    /\ task' = [task EXCEPT ![c] = "none"]
    /\ \E cost \in 0 .. MaxCost :
          used' = [used EXCEPT ![c] = IF @ < grant[c] THEN @ + cost ELSE @]
    /\ UNCHANGED <<kind, stage, grant, held, permit, tries, captured, outcome, unsafe, escapes, boundary>>

-----------------------------------------------------------------------------
(* Candidate workflows and the boundary of the run *)

(* candidate_workflow: the script of the child context has returned or      *)
(* raised, and every call and session it owns is quiet                      *)
FlowEnds(c) ==
    /\ stage[c] \in {"child", "unwind"} /\ Pending(c) = {}
    /\ \A k \in Children(c) : task[k] = "none"
    /\ UNCHANGED task
    /\ \E why \in IF stage[c] = "unwind" THEN {"cancelled"} ELSE {"value", "failed"} : Leave(c, why)
    /\ UNCHANGED <<kind, grant, used, tries, captured, unsafe, escapes, boundary>>

(* cancelled: the child context is marked unsafe, its calls are cancelled   *)
(* (CancelCall) and waited for                                              *)
FlowCancelled(c) ==
    /\ stage[c] = "child"
    /\ stage' = [stage EXCEPT ![c] = "unwind"]
    /\ unsafe' = unsafe \cup {c}
    /\ UNCHANGED <<kind, grant, held, used, task, permit, tries, captured, outcome, escapes, boundary>>

(* the script returns with calls of background tasks still running *)
ScriptReturns ==
    /\ boundary = "running"
    /\ boundary' = "wait"
    /\ UNCHANGED <<kind, stage, grant, held, used, task, permit, tries, captured, outcome, unsafe, escapes>>

(* wait_for_pending_cleanup: two empty looks with a turn of the event loop  *)
(* between them, in which the callbacks of ended tasks run                  *)
WaitForPendingCleanup ==
    /\ \/ /\ boundary = "wait" /\ Pending(Root) = {}
          /\ boundary' = "seen"
       \/ /\ boundary = "seen" /\ Pending(Root) # {}
          /\ boundary' = "wait"
       \/ /\ boundary = "seen" /\ Pending(Root) = {}
          /\ \A c \in Call : task[c] # "late"
          /\ boundary' = "closed"
    /\ UNCHANGED <<kind, stage, grant, held, used, task, permit, tries, captured, outcome, unsafe, escapes>>

WorkflowInit ==
    /\ kind \in Script
    /\ stage = [c \in Call |-> "idle"] /\ grant = [c \in Call |-> 0]
    /\ held = [c \in Call |-> FALSE] /\ used = [c \in Call |-> 0]
    /\ task = [c \in Call |-> "none"] /\ permit = [c \in Call |-> FALSE]
    /\ tries = [c \in Call |-> 0] /\ captured = [c \in Call |-> FALSE]
    /\ outcome = [c \in Call |-> "none"]
    /\ unsafe = {} /\ escapes = {} /\ boundary = "running"

(* a cancelled candidate workflow has cancelled every call it has running *)
Cancelling(c) == Owner[c] # Root /\ stage[Owner[c]] = "unwind"

Session(c) ==
    \/ Build(c) \/ BuildFails(c) \/ ModelCall(c) \/ Capture(c) \/ TurnEnds(c)
    \/ TurnTimesOut(c) \/ Conclude(c) \/ Correct(c) \/ Settle(c) \/ DrainEnds(c) \/ LateUsage(c)

Acquire(c) ==
    /\ ~Cancelling(c)
    /\ \/ AcquireLease(c) \/ AcquireEscape(c) \/ RefuseLease(c)
       \/ TakePermit(c) \/ EnterRevoked(c) \/ Enter(c)

WorkflowNext ==
    \/ \E c \in Call : Begin(c) \/ BeginDraft(c) \/ Acquire(c) \/ Session(c) \/ CancelCall(c)
                       \/ ReleaseAfterTasks(c) \/ FlowEnds(c) \/ FlowCancelled(c)
    \/ ScriptReturns \/ WaitForPendingCleanup

(* the next step of the task of a call, and of the cleanup it left behind *)
Progress(c) ==
    \/ Acquire(c) \/ Build(c) \/ BuildFails(c) \/ TurnEnds(c) \/ TurnTimesOut(c)
    \/ Conclude(c) \/ Correct(c) \/ Settle(c) \/ FlowEnds(c)
    \/ Cancelling(c) /\ CancelCall(c)

Cleanup(c) == DrainEnds(c) \/ LateUsage(c) \/ ReleaseAfterTasks(c)

WorkflowStep ==
    \/ \E c \in Call : Progress(c) \/ Cleanup(c)
    \/ ScriptReturns \/ WaitForPendingCleanup

(* asyncio runs every ready task, and a session that resists its            *)
(* cancellation ends some time, as the model service answers or its         *)
(* transport closes; nobody has to call the model, capture or cancel        *)
WorkflowFairness == WF_wfVars(WorkflowStep)

WorkflowSpec == WorkflowInit /\ [][WorkflowNext]_wfVars /\ WorkflowFairness

-----------------------------------------------------------------------------
(* Properties *)

WorkflowTypeOK ==
    /\ kind \in Script
    /\ stage \in [Call -> Stage] /\ grant \in [Call -> Nat]
    /\ held \in [Call -> BOOLEAN] /\ used \in [Call -> Nat]
    /\ task \in [Call -> Task] /\ permit \in [Call -> BOOLEAN]
    /\ tries \in [Call -> 0 .. 2] /\ captured \in [Call -> BOOLEAN]
    /\ outcome \in [Call -> Outcome]
    /\ unsafe \subseteq Call \cup {Root} /\ escapes \subseteq Call
    /\ boundary \in {"running", "wait", "seen", "closed"}

(* Sessions that execute, those that resist their cancellation included,    *)
(* never outnumber max_concurrency: a call that timed out or was cancelled  *)
(* keeps its permit until its session is quiet.                             *)
ExecutingWithinLimit == Cardinality({c \in Call : task[c] # "none"}) <= Permits

(* what a call spent beyond its lease; a candidate workflow spends nothing   *)
(* but through its calls                                                    *)
Overrun(c) == IF c \in escapes THEN used[c] ELSE High(0, used[c] - grant[c])

(* What was spent and what is still reserved never exceed the pool by more  *)
(* than the last model call of each session and the one escape: no token is *)
(* promised twice, also when a resisting session spends after its call has  *)
(* returned; and the run, its candidate workflows included, goes over its   *)
(* budget on purpose at most once, whichever calls race for the escape.     *)
PoolNotPromisedTwice ==
    /\ Cardinality(escapes) <= 1
    /\ Spent(Root) + Reserved(Root)
        <= PoolTotal + SumFunctionOnSet([c \in Call |-> Overrun(c)], Call)

(* When the boundary lets the owner of the run read artifacts and release   *)
(* the environment, no session of the context executes, no usage is still   *)
(* to be recorded, and every lease and permit has come back.                *)
BoundaryIsQuiet ==
    boundary = "closed" =>
        \A c \in Call : task[c] = "none" /\ ~held[c] /\ ~permit[c]

(* Concurrency and tokens stay within their limits while calls time out,    *)
(* are cancelled and retried, and a closed run is quiet.                    *)
CallsAreSound == ExecutingWithinLimit /\ PoolNotPromisedTwice /\ BoundaryIsQuiet

-----------------------------------------------------------------------------
(* The inductive invariant *)

CallIsOver(c) ==
    stage[c] \in {"idle", "done"} /\ task[c] = "none" /\ ~held[c] /\ ~permit[c]

(* A session needs a permit and a lease, its own or the escape, and keeps   *)
(* both while it resists.                                                   *)
SessionHolds(c) ==
    /\ stage[c] = "idle" => CallIsOver(c) /\ used[c] = 0
    /\ stage[c] \notin {"turn", "after", "settle", "done"} => task[c] = "none"
    /\ task[c] = "running" => stage[c] = "turn"
    /\ stage[c] \in {"enter", "build", "turn", "after", "settle"} \/ task[c] # "none"
          => permit[c]
    /\ stage[c] \in {"build", "turn", "after", "settle"} \/ task[c] # "none"
          => held[c] \/ c \in escapes
    /\ stage[c] \in {"slot", "enter"} /\ kind[c] # "draft" => held[c] \/ c \in escapes
    /\ stage[c] = "ask" => ~held[c] /\ c \notin escapes
    /\ kind[c] = "draft" => stage[c] # "enter" /\ (stage[c] = "ask" => permit[c])
    /\ kind[c] = "draft" /\ stage[c] = "slot" => ~permit[c] /\ ~held[c]
    /\ c \in escapes => c \in Over /\ ~held[c] /\ stage[c] # "idle"
    /\ stage[c] \in {"idle", "ask", "slot", "enter", "build"} => tries[c] = 0
    /\ kind[c] = "unused" => stage[c] = "idle"

SessionsHold == \A c \in Call : SessionHolds(c)

(* A candidate workflow has its lease as long as it has calls, and ends     *)
(* after the last of them.                                                  *)
FlowHolds(c) ==
    /\ kind[c] = "flow" => /\ stage[c] \in {"idle", "ask", "child", "unwind", "done"}
                           /\ used[c] = 0 /\ task[c] = "none" /\ ~permit[c]
                           /\ held[c] <=> stage[c] \in {"child", "unwind"}
    /\ stage[c] \in {"child", "unwind"} => kind[c] = "flow"
    /\ Owner[c] # Root =>
          /\ stage[c] # "idle" => stage[Owner[c]] \in {"child", "unwind", "done"}
          /\ stage[Owner[c]] = "done" => CallIsOver(c)

FlowsHold == \A c \in Call : FlowHolds(c)

PermitsSuffice == Cardinality({c \in Call : permit[c]}) <= Permits

(* What a call can still bring on the pool, its overrun apart: its whole    *)
(* lease while it has it, afterwards what it spent of it.                   *)
Booked(c) == IF c \in escapes THEN 0 ELSE IF held[c] THEN grant[c] ELSE Low(used[c], grant[c])

FlowBooks(b) == SumFunctionOnSet([c \in Call |-> Booked(c)], Children(b))

(* A candidate workflow that has given its lease back stands for its calls. *)
Claim(c) == IF kind[c] = "flow" /\ ~held[c] THEN FlowBooks(c) ELSE Booked(c)

(* The claims on the pool fit the pool, and those on the lease of a         *)
(* candidate workflow fit the lease.                                        *)
ClaimsFit ==
    /\ SumFunctionOnSet([c \in Call |-> Claim(c)], Children(Root)) <= PoolTotal
    /\ \A f \in Call : kind[f] = "flow" => FlowBooks(f) <= grant[f]

ClosedIsOver == boundary = "closed" => \A c \in Call : CallIsOver(c)

OneEscape == \A c, d \in escapes : c = d

CallsInv ==
    /\ WorkflowTypeOK /\ SessionsHold /\ FlowsHold /\ PermitsSuffice
    /\ ClaimsFit /\ OneEscape /\ ClosedIsOver
=============================================================================

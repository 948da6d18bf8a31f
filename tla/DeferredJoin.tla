---------------------------- MODULE DeferredJoin ----------------------------
(***************************************************************************)
(* The deferred fork/join of the team scheduler.                            *)
(*                                                                          *)
(* A session whose model issues `spawn_agent` calls adds one pending row    *)
(* per call, starts a child per accepted call and suspends on               *)
(* AWAITING_EVENTS; its driver task then ends.  A child's driver fills the  *)
(* row that waits for it, and the last fill re-activates the parent with a  *)
(* fresh driver.  Three other actors interleave with the drivers: the       *)
(* public run_turn loop (quiescence, stall and user cancellation), the      *)
(* settlement of a cancelled suspended turn, and the bounded cleanup.       *)
(*                                                                          *)
(* Every asyncio task runs without interruption between two awaits, so one  *)
(* action is the code between two awaits of one task.  The per-parent lock  *)
(* of _wake guards a block with no await in it: the block is one step.      *)
(*                                                                          *)
(* Source: application/scheduler_lifecycle.py, _scheduler_run.py,           *)
(* _scheduler_cleanup.py, scheduler_dedup.py, session.py, session_run.py,   *)
(* _session_run_completion.py, domain/pending.py, domain/session.py.        *)
(***************************************************************************)
EXTENDS Naturals, FiniteSets

CONSTANTS
    MaxAid,     \* bound: agents are 0 .. MaxAid, 0 is the lead
    MaxCalls,   \* bound: deferred calls in one tool batch
    MaxSteps,   \* max_steps of every session (lifetime generations)
    MaxTurns,   \* bound: turns (user or teammate) accepted by one session
    Keys,       \* delegated-work identities a model can ask for
    NoKey,      \* no identity
    Resistant,  \* sessions whose model call or event sink may swallow a cancellation
    Events      \* bound: which events from outside happen in an instance

ASSUME BoundsAssumption ==
    /\ MaxAid \in Nat /\ MaxCalls \in Nat \ {0}
    /\ MaxSteps \in Nat \ {0} /\ MaxTurns \in Nat \ {0}
ASSUME KeysAssumption == NoKey \notin Keys
ASSUME ResistantAssumption == Resistant \subseteq 0 .. MaxAid
ASSUME EventsAssumption == Events \subseteq {"restore", "cancel", "cleanup", "failure"}

Aid   == 0 .. MaxAid
Call  == 1 .. MaxCalls
NoAid == MaxAid + 1

(* "running" stands for PRECHECK, CALLING_LLM, HANDLING_RESPONSE and        *)
(* AUTOSAVING: the phases between two tool batches.                         *)
Terminal == {"done", "stopped", "error"}
Phase    == {"absent", "idle", "running", "tools", "awaiting"} \cup Terminal

(* Where the driver task of an agent stands:                                *)
(*   created    task scheduled, coroutine not entered                       *)
(*   gate       inside the try, waiting for the turn gate or an event       *)
(*   loop       inside session.run_loop                                     *)
(*   ret        the loop is over, its closing checkpoint is being awaited   *)
(*   ended      past the try: diff, trace and event before the delivery     *)
(*   cancelling in the CancelledError handler, before its delivery          *)
(*   drain      delivered, draining inboxes                                 *)
Pc == {"none", "created", "gate", "loop", "ret", "ended", "cancelling", "drain"}

(* Progress of a tool batch: no batch, no call in hand, row added and tool  *)
(* started, awaiting the environment, awaiting agent_spawned, child         *)
(* started, spawn rolled back.                                              *)
Stage  == {"model", "next", "issued", "env", "emit", "ref", "rolledback"}
Status == {"empty", "pending", "done", "failed"}

VARIABLES
    phase, steps, turns,            \* SessionState.phase, step_count, turns taken
    pc, drivers, creq, resumeCb,    \* driver tasks: position, live count, cancel(), done callback
    rows, ref, cur, stage, kid,     \* pending_events of each session and its running batch
    par, origin, key,               \* per child: parent, the call it answers (0: none), inflight key
    nextAid,                        \* SchedulerTable.next aid
    committed,                      \* _delivery_committed
    shutting, clean, owned,         \* _shutting_down, cleanup stage, its running_execution
    turn, cancelEv, settling, subtree, held   \* run_turn(0), its cancel event, settlement

sessionVars == <<phase, steps, turns>>
driverVars  == <<pc, drivers, creq, resumeCb>>
tableVars   == <<rows, ref>>
batchVars   == <<cur, stage, kid>>
routeVars   == <<par, origin, key, nextAid>>
cleanVars   == <<shutting, clean, owned>>
turnVars    == <<turn, cancelEv, settling, subtree, held>>
vars == <<sessionVars, driverVars, tableVars, batchVars, routeVars, committed,
          cleanVars, turnVars>>

-----------------------------------------------------------------------------
(* PendingEventTable *)

NoRows == [k \in Call |-> "empty"]
NoRefs == [k \in Call |-> NoAid]

IsEmpty(r)    == \A k \in Call : r[k] = "empty"
IsComplete(r) == ~IsEmpty(r) /\ \A k \in Call : r[k] # "pending"

(* fill every open row: used when no row can be singled out any more *)
FailOpen(r) == [k \in Call |-> IF r[k] = "pending" THEN "failed" ELSE r[k]]

-----------------------------------------------------------------------------
(* Driver tasks *)

Live(a)     == pc[a] # "none"
Starting(a) == stage[a] \in {"env", "emit"}     \* kid[a] is in _startup_tasks

Startups == {kid[x] : x \in {y \in Aid : Starting(y)}}

(* _active_scheduler_tasks: live drivers and startups *)
NoTasks == \A a \in Aid : ~Live(a) /\ ~Starting(a)

(* _quiescent *)
Quiescent ==
    /\ NoTasks
    /\ \A a \in Aid : phase[a] # "absent" =>
          IsEmpty(rows[a]) /\ phase[a] \in Terminal \cup {"idle"}

(* A resume is due: _resume_completed_parent_locked's and                   *)
(* _resume_after_parent_task's common condition, on given tables.           *)
ResumeDue(a, rw) ==
    ~shutting /\ phase[a] = "awaiting" /\ IsComplete(rw[a])

(* mutant: the done callback of the suspending driver is never registered   *)
EndDriverNoCallback(a) ==
    /\ pc' = [pc EXCEPT ![a] = "none"]
    /\ drivers' = [drivers EXCEPT ![a] = @ - 1]
    /\ resumeCb' = [resumeCb EXCEPT ![a] = FALSE]
    /\ creq' = [creq EXCEPT ![a] = FALSE]
    /\ committed' = IF shutting THEN committed ELSE committed \ {a}

(* mutant: the done callback stays registered *)
EndDriverStaleCallback(a) ==
    /\ pc' = [pc EXCEPT ![a] = IF resumeCb[a] THEN "created" ELSE "none"]
    /\ drivers' = IF resumeCb[a] THEN drivers ELSE [drivers EXCEPT ![a] = @ - 1]
    /\ creq' = [creq EXCEPT ![a] = FALSE]
    /\ committed' = IF shutting THEN committed ELSE committed \ {a}
    /\ UNCHANGED resumeCb

(* The driver of `a` is over: _agent_task_done, then the resume callback.   *)
EndDriver(a) ==
    LET again == resumeCb[a] /\ ResumeDue(a, rows) IN
    /\ pc' = [pc EXCEPT ![a] = IF again THEN "created" ELSE "none"]
    /\ drivers' = IF again THEN drivers ELSE [drivers EXCEPT ![a] = @ - 1]
    /\ resumeCb' = [resumeCb EXCEPT ![a] = FALSE]
    /\ creq' = [creq EXCEPT ![a] = FALSE]
    /\ committed' = IF shutting THEN committed ELSE committed \ {a}

(* A driver that ends without a CancelledError is not failed by cleanup.    *)
EndNormally(a) == EndDriver(a) /\ owned' = owned \ {a}

(* mutant: the last completion does not ask whether the parent's driver is  *)
(* still alive                                                              *)
ResumeAlways(c, next, p, rw) ==
    LET start == ResumeDue(p, rw)
        moved == [pc EXCEPT ![c] = next]
    IN  /\ pc' = IF start THEN [moved EXCEPT ![p] = "created"] ELSE moved
        /\ drivers' = IF start THEN [drivers EXCEPT ![p] = @ + 1] ELSE drivers
        /\ UNCHANGED <<resumeCb, creq>>

(* Tasks after child `c` moved to `next` and its parent `p`'s table became  *)
(* `rw`: a suspended parent with a complete table gets a fresh driver, or,  *)
(* while its suspending driver is still alive, a done callback.             *)
Resume(c, next, p, rw) ==
    LET start == ResumeDue(p, rw) /\ ~Live(p)
        defer == ResumeDue(p, rw) /\ Live(p)
        moved == [pc EXCEPT ![c] = next]
    IN  /\ pc' = IF start THEN [moved EXCEPT ![p] = "created"] ELSE moved
        /\ drivers' = IF start THEN [drivers EXCEPT ![p] = @ + 1] ELSE drivers
        /\ resumeCb' = IF defer THEN [resumeCb EXCEPT ![p] = TRUE] ELSE resumeCb
        /\ creq' = creq

-----------------------------------------------------------------------------
(* Initial states: a fresh lead, or a lead restored from a snapshot taken   *)
(* while it was suspended: restore fails the rows of children that did not  *)
(* survive the process.                                                     *)
Init ==
    /\ \E restored \in {FALSE} \cup {e = "restore" : e \in Events} :
          /\ phase = [a \in Aid |-> IF a # 0 THEN "absent"
                                    ELSE IF restored THEN "awaiting" ELSE "idle"]
          /\ rows = [a \in Aid |-> IF a = 0 /\ restored
                                   THEN [NoRows EXCEPT ![1] = "failed"] ELSE NoRows]
    /\ steps = [a \in Aid |-> 0]
    /\ turns = [a \in Aid |-> 0]
    /\ pc = [a \in Aid |-> "none"]
    /\ drivers = [a \in Aid |-> 0]
    /\ creq = [a \in Aid |-> FALSE]
    /\ resumeCb = [a \in Aid |-> FALSE]
    /\ ref = [a \in Aid |-> NoRefs]
    /\ cur = [a \in Aid |-> 0]
    /\ stage = [a \in Aid |-> "model"]
    /\ kid = [a \in Aid |-> NoAid]
    /\ par = [a \in Aid |-> 0]
    /\ origin = [a \in Aid |-> 0]
    /\ key = [a \in Aid |-> NoKey]
    /\ nextAid = 1
    /\ committed = {}
    /\ shutting = FALSE /\ clean = "no" /\ owned = {}
    /\ turn = "idle" /\ cancelEv = FALSE
    /\ settling = FALSE /\ subtree = {} /\ held = {}

-----------------------------------------------------------------------------
(* run_turn(0): the public turn *)

(* A restored suspended lead is driven to a terminal phase first.           *)
RestoreTurn ==
    /\ turn = "idle" /\ ~shutting /\ ~Live(0) /\ phase[0] = "awaiting"
    /\ turn' = "restored"
    /\ pc' = [pc EXCEPT ![0] = "created"]
    /\ drivers' = [drivers EXCEPT ![0] = @ + 1]
    /\ UNCHANGED <<sessionVars, creq, resumeCb, tableVars, batchVars, routeVars,
                   committed, cleanVars, cancelEv, settling, subtree, held>>

(* _wait_for_restored_turn is over with the cancel event set: the recovered *)
(* turn is reported as cancelled, no new turn is accepted.                  *)
RestoredCancelled ==
    /\ turn = "restored" /\ ~shutting /\ ~settling /\ cancelEv
    /\ phase[0] \in Terminal /\ ~Live(0)
    /\ phase' = IF phase[0] = "done" THEN [phase EXCEPT ![0] = "stopped"] ELSE phase
    /\ turn' = "idle" /\ cancelEv' = FALSE
    /\ UNCHANGED <<steps, turns, driverVars, tableVars, batchVars, routeVars, committed,
                   cleanVars, settling, subtree, held>>

(* Accept the user message and start the lead's driver. *)
StartTurn ==
    /\ \/ turn = "idle" /\ phase[0] # "awaiting"
       \/ turn = "restored" /\ ~cancelEv /\ phase[0] \in Terminal
    /\ ~shutting /\ ~Live(0) /\ turns[0] < MaxTurns
    /\ turn' = "active"
    /\ held' = held \ {0}
    /\ phase' = [phase EXCEPT ![0] = "idle"]
    /\ turns' = [turns EXCEPT ![0] = @ + 1]
    /\ pc' = [pc EXCEPT ![0] = "created"]
    /\ drivers' = [drivers EXCEPT ![0] = @ + 1]
    /\ UNCHANGED <<steps, creq, resumeCb, tableVars, batchVars, routeVars, committed,
                   cleanVars, cancelEv, settling, subtree>>

(* The user sets the turn's cancel event. *)
RequestCancel ==
    /\ "cancel" \in Events
    /\ turn # "idle" /\ ~shutting /\ ~cancelEv
    /\ cancelEv' = TRUE
    /\ UNCHANGED <<sessionVars, driverVars, tableVars, batchVars, routeVars, committed,
                   cleanVars, turn, settling, subtree, held>>

(* A cancelled turn whose target is suspended is settled before anything    *)
(* else is asked.                                                           *)
SettleDue == cancelEv /\ phase[0] = "awaiting"

EndTurn ==
    /\ turn = "active" /\ ~shutting /\ ~settling /\ ~SettleDue /\ Quiescent
    /\ turn' = "idle" /\ cancelEv' = FALSE
    /\ UNCHANGED <<sessionVars, driverVars, tableVars, batchVars, routeVars, committed,
                   cleanVars, settling, subtree, held>>

(* No producer is left and the team is not quiescent. *)
Stalled ==
    /\ turn # "idle" /\ ~shutting /\ ~settling /\ ~SettleDue /\ NoTasks /\ ~Quiescent
    /\ turn = "restored" => phase[0] \notin Terminal

(* SchedulerStalledError *)
StallTurn ==
    /\ Stalled
    /\ turn' = "idle" /\ cancelEv' = FALSE
    /\ UNCHANGED <<sessionVars, driverVars, tableVars, batchVars, routeVars, committed,
                   cleanVars, settling, subtree, held>>

(* A queued teammate message starts a turn on an agent that can take one.   *)
(* A driver that is draining starts its own agent's next turn itself; what  *)
(* is left of the old task touches no state of this module.                 *)
MessageTurn(a) ==
    /\ turn # "idle" /\ ~shutting /\ a \notin held
    /\ pc[a] \in {"none", "drain"} /\ ~creq[a]
    /\ phase[a] \in Terminal \cup {"idle"} /\ turns[a] < MaxTurns
    /\ turns[a] > 0 /\ IsEmpty(rows[a])
    /\ ~(a = 0 /\ cancelEv)
    /\ phase' = [phase EXCEPT ![a] = "idle"]
    /\ turns' = [turns EXCEPT ![a] = @ + 1]
    /\ pc' = [pc EXCEPT ![a] = "created"]
    /\ drivers' = IF pc[a] = "none" THEN [drivers EXCEPT ![a] = @ + 1] ELSE drivers
    /\ committed' = committed \ {a}
    /\ UNCHANGED <<steps, creq, resumeCb, tableVars, batchVars, routeVars,
                   cleanVars, turnVars>>

-----------------------------------------------------------------------------
(* _drive_agent: entering and running the session *)

(* A step of the driver of `a` that is not the delivery of a cancellation:  *)
(* asyncio throws a requested cancellation at the task's next step.         *)
At(a, p) == pc[a] = p /\ ~creq[a]

EnterGate(a) ==
    /\ At(a, "created")
    /\ pc' = [pc EXCEPT ![a] = "gate"]
    /\ UNCHANGED <<sessionVars, drivers, creq, resumeCb, tableVars, batchVars, routeVars,
                   committed, cleanVars, turnVars>>

(* mutant: a session woken with an incomplete batch drains it *)
EnterLoopEager(a) ==
    LET suspended == phase[a] = "awaiting" \/ ~IsEmpty(rows[a])
        drain == suspended
        run == drain \/ (~suspended /\ phase[a] # "done")
    IN
    /\ At(a, "gate")
    /\ rows' = IF drain THEN [rows EXCEPT ![a] = NoRows] ELSE rows
    /\ ref' = IF drain THEN [ref EXCEPT ![a] = NoRefs] ELSE ref
    /\ phase' = [phase EXCEPT ![a] = IF run THEN "running"
                                     ELSE IF suspended THEN "awaiting" ELSE @]
    /\ pc' = [pc EXCEPT ![a] = IF run THEN "loop" ELSE "ret"]
    /\ UNCHANGED <<steps, turns, drivers, creq, resumeCb, batchVars, routeVars, committed,
                   cleanVars, turnVars>>

(* _prepare_turn and _resume_from_awaiting.  A terminal or idle session     *)
(* with rows left goes back to AWAITING_EVENTS; a complete table is drained *)
(* into the history; an incomplete one ends the loop at once; a DONE        *)
(* session is only queried.                                                 *)
EnterLoop(a) ==
    LET suspended == phase[a] = "awaiting" \/ ~IsEmpty(rows[a])
        drain == suspended /\ IsComplete(rows[a])
        run == drain \/ (~suspended /\ phase[a] # "done")
    IN
    /\ At(a, "gate")
    /\ rows' = IF drain THEN [rows EXCEPT ![a] = NoRows] ELSE rows
    /\ ref' = IF drain THEN [ref EXCEPT ![a] = NoRefs] ELSE ref
    /\ phase' = [phase EXCEPT ![a] = IF run THEN "running"
                                     ELSE IF suspended THEN "awaiting" ELSE @]
    /\ pc' = [pc EXCEPT ![a] = IF run THEN "loop" ELSE "ret"]
    /\ UNCHANGED <<steps, turns, drivers, creq, resumeCb, batchVars, routeVars, committed,
                   cleanVars, turnVars>>

(* One generation: precheck, model call, response.  It ends the turn with   *)
(* an answer, stops it (limit, budget, truncation, cancellation), raises,   *)
(* or opens a batch with deferred calls.                                    *)
Generate(a) ==
    /\ At(a, "loop") /\ phase[a] = "running"
    /\ \/ /\ steps[a] < MaxSteps /\ ~(cancelEv /\ a = 0)
          /\ phase' = [phase EXCEPT ![a] = "tools"]
          /\ steps' = [steps EXCEPT ![a] = @ + 1]
          /\ stage' = [stage EXCEPT ![a] = "next"]
          /\ pc' = pc
       \/ /\ steps[a] < MaxSteps
          /\ phase' = [phase EXCEPT ![a] = "done"]
          /\ steps' = [steps EXCEPT ![a] = @ + 1]
          /\ pc' = [pc EXCEPT ![a] = "ret"]
          /\ stage' = stage
       \/ /\ phase' \in {[phase EXCEPT ![a] = end] :
                          end \in {"stopped"} \cup {x \in {"error"} : "failure" \in Events}}
          /\ pc' = [pc EXCEPT ![a] = "ret"]
          /\ UNCHANGED <<steps, stage>>
    /\ UNCHANGED <<turns, drivers, creq, resumeCb, tableVars, cur, kid, routeVars,
                   committed, cleanVars, turnVars>>

(* The phase was made terminal behind the running loop (settlement or       *)
(* cleanup): the next transition_to raises InvalidPhaseTransition.          *)
IllegalTransition(a) ==
    /\ At(a, "loop") /\ phase[a] \in Terminal /\ stage[a] = "model"
    /\ phase' = [phase EXCEPT ![a] = "error"]
    /\ pc' = [pc EXCEPT ![a] = "ret"]
    /\ UNCHANGED <<steps, turns, drivers, creq, resumeCb, tableVars, batchVars, routeVars,
                   committed, cleanVars, turnVars>>

-----------------------------------------------------------------------------
(* execute_pending_tools and Scheduler.spawn.  The batch does not look at   *)
(* the phase until it is over.                                              *)

InBatch(a, st) == At(a, "loop") /\ stage[a] = st

(* _execute_deferred_tools adds the row before the tool runs. *)
IssueCall(a) ==
    /\ InBatch(a, "next") /\ cur[a] < MaxCalls
    /\ cur' = [cur EXCEPT ![a] = @ + 1]
    /\ rows' = [rows EXCEPT ![a][cur[a] + 1] = "pending"]
    /\ stage' = [stage EXCEPT ![a] = "issued"]
    /\ UNCHANGED <<sessionVars, driverVars, ref, kid, routeVars, committed, cleanVars, turnVars>>

(* The spawn is refused before it owns anything: shutting down, topology,   *)
(* prebuilt team, no budget, bad arguments, or the same work in flight.     *)
InFlight(p, k) == \E c \in Aid : par[c] = p /\ key[c] = k

RefuseSpawn(a) ==
    /\ InBatch(a, "issued")
    /\ stage' = [stage EXCEPT ![a] = "rolledback"]
    /\ UNCHANGED <<sessionVars, driverVars, tableVars, cur, kid, routeVars, committed,
                   cleanVars, turnVars>>

(* mutant: the identity is not looked up before it is reserved *)
ReserveSpawnBlind(a, k) ==
    /\ InBatch(a, "issued") /\ ~shutting
    /\ nextAid <= MaxAid
    /\ nextAid' = nextAid + 1
    /\ par' = [par EXCEPT ![nextAid] = a]
    /\ origin' = [origin EXCEPT ![nextAid] = cur[a]]
    /\ key' = [key EXCEPT ![nextAid] = k]
    /\ kid' = [kid EXCEPT ![a] = nextAid]
    /\ stage' = [stage EXCEPT ![a] = "env"]
    /\ UNCHANGED <<sessionVars, driverVars, tableVars, cur, committed, cleanVars, turnVars>>

(* spawn up to its first await: allocate the aid, record the startup route, *)
(* reserve the delegated-work identity.                                     *)
ReserveSpawn(a, k) ==
    /\ InBatch(a, "issued") /\ ~shutting
    /\ nextAid <= MaxAid
    /\ ~InFlight(a, k)
    /\ nextAid' = nextAid + 1
    /\ par' = [par EXCEPT ![nextAid] = a]
    /\ origin' = [origin EXCEPT ![nextAid] = cur[a]]
    /\ key' = [key EXCEPT ![nextAid] = k]
    /\ kid' = [kid EXCEPT ![a] = nextAid]
    /\ stage' = [stage EXCEPT ![a] = "env"]
    /\ UNCHANGED <<sessionVars, driverVars, tableVars, cur, committed, cleanVars, turnVars>>

(* The environment is there: build the session, enter the child in the      *)
(* table, move its route from _startup_origin to _spawn_origin (one         *)
(* variable here), emit agent_spawned.                                      *)
RegisterChild(a) ==
    /\ InBatch(a, "env") /\ ~shutting
    /\ phase' = [phase EXCEPT ![kid[a]] = "idle"]
    /\ stage' = [stage EXCEPT ![a] = "emit"]
    /\ UNCHANGED <<steps, turns, driverVars, tableVars, cur, kid, routeVars,
                   committed, cleanVars, turnVars>>

(* The last statement that can fail hands the child to its driver. *)
StartChild(a) ==
    /\ InBatch(a, "emit") /\ ~shutting
    /\ pc' = [pc EXCEPT ![kid[a]] = "created"]
    /\ drivers' = [drivers EXCEPT ![kid[a]] = @ + 1]
    /\ turns' = [turns EXCEPT ![kid[a]] = 1]
    /\ stage' = [stage EXCEPT ![a] = "ref"]
    /\ UNCHANGED <<phase, steps, creq, resumeCb, tableVars, cur, kid, routeVars, committed,
                   cleanVars, turnVars>>

(* _rollback_failed_spawn, on an exception or on the shutting-down checks   *)
(* after the two awaits of spawn.                                           *)
RollbackSpawn(a) ==
    /\ At(a, "loop") /\ Starting(a)
    /\ phase' = [phase EXCEPT ![kid[a]] = "absent"]
    /\ origin' = [origin EXCEPT ![kid[a]] = 0]
    /\ key' = [key EXCEPT ![kid[a]] = NoKey]
    /\ kid' = [kid EXCEPT ![a] = NoAid]
    /\ stage' = [stage EXCEPT ![a] = "rolledback"]
    /\ UNCHANGED <<steps, turns, driverVars, tableVars, cur, par, nextAid, committed,
                   cleanVars, turnVars>>

(* mutant: a spawn without a child leaves its row open *)
RecordResultDropsError(a) ==
    /\ At(a, "loop") /\ stage[a] \in {"ref", "rolledback"}
    /\ ref' = IF stage[a] = "ref" THEN [ref EXCEPT ![a][cur[a]] = kid[a]] ELSE ref
    /\ stage' = [stage EXCEPT ![a] = "next"]
    /\ kid' = [kid EXCEPT ![a] = NoAid]
    /\ UNCHANGED <<sessionVars, driverVars, rows, cur, routeVars, committed, cleanVars,
                   turnVars>>

(* _record_deferred_result: remember the child, or fail a row that has      *)
(* none and is still open.                                                  *)
RecordResult(a) ==
    /\ At(a, "loop") /\ stage[a] \in {"ref", "rolledback"}
    /\ \/ /\ stage[a] = "ref"
          /\ ref' = [ref EXCEPT ![a][cur[a]] = kid[a]]
          /\ rows' = rows
       \/ /\ stage[a] = "rolledback"
          /\ rows' = IF rows[a][cur[a]] = "pending"
                     THEN [rows EXCEPT ![a][cur[a]] = "failed"] ELSE rows
          /\ ref' = ref
    /\ stage' = [stage EXCEPT ![a] = "next"]
    /\ kid' = [kid EXCEPT ![a] = NoAid]
    /\ UNCHANGED <<sessionVars, driverVars, cur, routeVars, committed, cleanVars, turnVars>>

(* The batch is issued.  Results that are all there are drained at once;    *)
(* otherwise the session suspends and its loop returns.  Either way the     *)
(* transition raises if the phase was made terminal meanwhile.              *)
FinishBatch(a) ==
    LET complete == IsComplete(rows[a])
        legal == phase[a] = "tools"
    IN
    /\ InBatch(a, "next") /\ cur[a] > 0
    /\ rows' = IF complete THEN [rows EXCEPT ![a] = NoRows] ELSE rows
    /\ ref' = IF complete THEN [ref EXCEPT ![a] = NoRefs] ELSE ref
    /\ phase' = [phase EXCEPT ![a] = IF ~legal THEN "error"
                                     ELSE IF complete THEN "running" ELSE "awaiting"]
    /\ pc' = IF legal /\ complete THEN pc ELSE [pc EXCEPT ![a] = "ret"]
    /\ stage' = [stage EXCEPT ![a] = "model"]
    /\ cur' = [cur EXCEPT ![a] = 0]
    /\ UNCHANGED <<steps, turns, drivers, creq, resumeCb, kid, routeVars, committed,
                   cleanVars, turnVars>>

(* A step of the batch raises (an immediate tool whose reservation cannot   *)
(* be saved, a duplicate row): the session fails with its rows in place.    *)
BatchFails(a) ==
    /\ "failure" \in Events /\ InBatch(a, "next")
    /\ phase' = [phase EXCEPT ![a] = "error"]
    /\ pc' = [pc EXCEPT ![a] = "ret"]
    /\ stage' = [stage EXCEPT ![a] = "model"]
    /\ cur' = [cur EXCEPT ![a] = 0]
    /\ UNCHANGED <<steps, turns, drivers, creq, resumeCb, tableVars, kid, routeVars,
                   committed, cleanVars, turnVars>>

-----------------------------------------------------------------------------
(* _drive_agent: finalizing *)

(* mutant: cleanup fails a child whose success was already delivered *)
FinalizeIgnoresDelivery(F, inTable) ==
    /\ key' = [a \in Aid |-> IF a \in F THEN NoKey ELSE key[a]]
    /\ origin' = [a \in Aid |-> IF a \in F THEN 0 ELSE origin[a]]
    /\ rows' = [p \in Aid |-> [k \in Call |->
                  IF /\ rows[p][k] = "pending"
                     /\ \E c \in F : par[c] = p /\ origin[c] = k
                  THEN "failed" ELSE rows[p][k]]]
    /\ phase' = [a \in Aid |-> IF a \notin inTable THEN "absent"
                               ELSE IF a \in F THEN "stopped" ELSE phase[a]]

(* _finalize_cleanup_failure for the agents of F *)
FinalizeAll(F, inTable) ==
    LET G == F \ committed IN
    /\ key' = [a \in Aid |-> IF a \in F THEN NoKey ELSE key[a]]
    /\ origin' = [a \in Aid |-> IF a \in G THEN 0 ELSE origin[a]]
    /\ rows' = [p \in Aid |-> [k \in Call |->
                  IF /\ rows[p][k] = "pending"
                     /\ \E c \in G : par[c] = p /\ origin[c] = k
                  THEN "failed" ELSE rows[p][k]]]
    /\ phase' = [a \in Aid |-> IF a \notin inTable THEN "absent"
                               ELSE IF a \in G THEN "stopped" ELSE phase[a]]

InTable == {a \in Aid : phase[a] # "absent"}

(* The run loop returned or raised, and its closing checkpoint is written.  *)
(* A late return under shutdown is discarded; a suspended session leaves    *)
(* its reservations held; a finished one releases its delegated-work key.   *)
Return(a) ==
    /\ At(a, "ret")
    /\ \/ /\ shutting /\ phase[a] # "error"
          /\ FinalizeAll({a}, InTable)
          /\ EndNormally(a)
       \/ /\ ~shutting /\ phase[a] = "awaiting"
          /\ EndNormally(a)
          /\ UNCHANGED <<phase, rows, origin, key>>
       \/ /\ shutting => phase[a] = "error"
          /\ phase[a] # "awaiting"
          /\ key' = [key EXCEPT ![a] = NoKey]
          /\ pc' = [pc EXCEPT ![a] = "ended"]
          /\ UNCHANGED <<phase, rows, origin, drivers, creq, resumeCb, committed, owned>>
    /\ UNCHANGED <<steps, turns, ref, batchVars, par, nextAid, shutting, clean,
                   turnVars>>

(* The closing checkpoint cannot be written: the driver takes its exception *)
(* handler, which fails the session whatever its phase was.                 *)
CheckpointFails(a) ==
    /\ "failure" \in Events
    /\ At(a, "ret") /\ phase[a] # "error"
    /\ phase' = [phase EXCEPT ![a] = "error"]
    /\ UNCHANGED <<steps, turns, driverVars, tableVars, batchVars, routeVars, committed,
                   cleanVars, turnVars>>

(* A DONE child without its diff is a technical failure. *)
DiffFails(a) ==
    /\ "failure" \in Events
    /\ At(a, "ended") /\ phase[a] = "done"
    /\ phase' = [phase EXCEPT ![a] = "error"]
    /\ UNCHANGED <<steps, turns, driverVars, tableVars, batchVars, routeVars, committed,
                   cleanVars, turnVars>>

(* A DONE result that meets the shutting-down check is discarded. *)
DiscardLate(a) ==
    /\ At(a, "ended") /\ phase[a] = "done" /\ shutting
    /\ FinalizeAll({a}, InTable)
    /\ EndNormally(a)
    /\ UNCHANGED <<steps, turns, ref, batchVars, par, nextAid, shutting, clean,
                   turnVars>>

(* Row statuses and rows after child `c`'s outcome reached parent `p`: the  *)
(* row of its call; failing that, the one open row that names the child;    *)
(* failing that, every open row is failed.                                  *)
OutcomeOf(c) == IF phase[c] = "done" /\ ~shutting THEN "done" ELSE "failed"

RowsNaming(p, c) == {k \in Call : rows[p][k] = "pending" /\ ref[p][k] = c}

RowsAfter(c) ==
    LET p == par[c]
        k == origin[c]
    IN  IF rows[p][k] = "pending" THEN [rows EXCEPT ![p][k] = OutcomeOf(c)]
        ELSE IF Cardinality(RowsNaming(p, c)) = 1
        THEN [rows EXCEPT ![p] = [j \in Call |-> IF j \in RowsNaming(p, c)
                                                 THEN OutcomeOf(c) ELSE rows[p][j]]]
        ELSE [rows EXCEPT ![p] = FailOpen(rows[p])]

Delivered(c) ==
    \/ rows[par[c]][origin[c]] = "pending"
    \/ Cardinality(RowsNaming(par[c], c)) = 1

(* _deliver_to_parent, _wake and _recover_delivery_route.                   *)
Deliver(c) ==
    /\ At(c, "ended") \/ At(c, "cancelling")
    /\ phase[c] = "done" => ~shutting
    /\ \/ /\ origin[c] = 0
          /\ pc' = [pc EXCEPT ![c] = "drain"]
          /\ UNCHANGED <<rows, origin, committed, drivers, resumeCb, creq, phase>>
       \/ /\ origin[c] # 0
          /\ rows' = RowsAfter(c)
          /\ origin' = [origin EXCEPT ![c] = 0]
          /\ committed' = IF Delivered(c) /\ ~shutting
                          THEN committed \cup {c} ELSE committed
          /\ phase' = IF shutting THEN [phase EXCEPT ![c] = "stopped"] ELSE phase
          /\ Resume(c, "drain", par[c], rows')
    /\ UNCHANGED <<steps, turns, ref, batchVars, par, key, nextAid, cleanVars, turnVars>>

(* The inbox drains after the delivery are over. *)
EndDrain(a) ==
    /\ At(a, "drain")
    /\ EndNormally(a)
    /\ UNCHANGED <<sessionVars, tableVars, batchVars, routeVars, shutting, clean, turnVars>>

-----------------------------------------------------------------------------
(* Cancellation of driver tasks *)

(* task.cancel() on a task that never ran: its coroutine is not entered.    *)
(* Past the try, or in a handler, a cancellation ends the task at once.     *)
Killed(a) ==
    /\ creq[a] /\ pc[a] \in {"created", "ended", "cancelling", "drain"}
    /\ EndDriver(a)
    /\ UNCHANGED <<sessionVars, tableVars, batchVars, routeVars, cleanVars, turnVars>>

(* CancelledError inside the try.  A call in hand is settled on the way     *)
(* out: a startup is rolled back and its row failed, a produced child is    *)
(* kept in its row.  Then the handler releases the key and stops the        *)
(* session.                                                                 *)
Cancelled(a) ==
    LET c == kid[a]
        k == cur[a]
        lost == stage[a] \in {"issued", "env", "emit", "rolledback"}
    IN
    /\ creq[a] /\ pc[a] \in {"gate", "loop", "ret"}
    /\ creq' = [creq EXCEPT ![a] = FALSE]
    /\ pc' = [pc EXCEPT ![a] = "cancelling"]
    /\ phase' = [x \in Aid |-> IF x = a THEN "stopped"
                               ELSE IF Starting(a) /\ x = c THEN "absent" ELSE phase[x]]
    /\ key' = [x \in Aid |-> IF x = a \/ (Starting(a) /\ x = c) THEN NoKey ELSE key[x]]
    /\ origin' = [x \in Aid |-> IF Starting(a) /\ x = c THEN 0 ELSE origin[x]]
    /\ rows' = IF lost /\ rows[a][k] = "pending"
               THEN [rows EXCEPT ![a][k] = "failed"] ELSE rows
    /\ ref' = IF stage[a] = "ref" THEN [ref EXCEPT ![a][k] = c] ELSE ref
    /\ stage' = [stage EXCEPT ![a] = "model"]
    /\ kid' = [kid EXCEPT ![a] = NoAid]
    /\ cur' = [cur EXCEPT ![a] = 0]
    /\ UNCHANGED <<steps, turns, drivers, resumeCb, par, nextAid, committed,
                   cleanVars, turnVars>>

(* A model call, or the event sink of a completed agent, that swallows the  *)
(* cancellation goes on.                                                    *)
Swallow(a) ==
    /\ a \in Resistant /\ creq[a]
    /\ (pc[a] = "loop" /\ stage[a] = "model") \/ pc[a] = "ended"
    /\ creq' = [creq EXCEPT ![a] = FALSE]
    /\ UNCHANGED <<sessionVars, pc, drivers, resumeCb, tableVars, batchVars, routeVars,
                   committed, cleanVars, turnVars>>

-----------------------------------------------------------------------------
(* _settle_cancelled_suspended_turn(0) *)

(* _turn_descendant_aids: the closure of {0} under open rows' refs and      *)
(* delivery routes, the least set closed under ChildrenOf.                  *)
ChildrenOf(D) ==
    {c \in Aid \ {0} : \E p \in D :
        \/ origin[c] # 0 /\ par[c] = p
        \/ \E k \in Call : rows[p][k] = "pending" /\ ref[p][k] = c}

Descendants ==
    {c \in Aid \ {0} : \A D \in SUBSET (Aid \ {0}) :
        ChildrenOf(D \cup {0}) \subseteq D => c \in D}

(* Every wake gate of the subtree is closed before a producer is cancelled. *)
SettleBegin ==
    /\ turn # "idle" /\ ~settling /\ ~shutting /\ SettleDue
    /\ settling' = TRUE
    /\ subtree' = Descendants
    /\ held' = held \cup Descendants \cup {0}
    /\ phase' = [a \in Aid |->
          IF a = 0 \/ (a \in Descendants /\ phase[a] \notin Terminal \cup {"absent"})
          THEN "stopped" ELSE phase[a]]
    /\ creq' = [a \in Aid |-> creq[a] \/ (a \in Descendants /\ Live(a))]
    /\ UNCHANGED <<steps, turns, pc, drivers, resumeCb, tableVars, batchVars, routeVars,
                   committed, cleanVars, turn, cancelEv>>

(* The subtree's tasks are gone: close its tables and drop its routes.      *)
SettleEnd ==
    LET S == {a \in subtree \cup {0} : phase[a] # "absent"} IN
    /\ settling /\ ~shutting
    /\ \A a \in subtree : ~Live(a) /\ \A p \in Aid : ~(Starting(p) /\ kid[p] = a)
    /\ rows' = [a \in Aid |-> IF a \in S THEN NoRows ELSE rows[a]]
    /\ ref' = [a \in Aid |-> IF a \in S THEN NoRefs ELSE ref[a]]
    /\ phase' = [a \in Aid |-> IF a \in S /\ phase[a] \notin Terminal
                               THEN "stopped" ELSE phase[a]]
    /\ origin' = [a \in Aid |-> IF a \in S THEN 0 ELSE origin[a]]
    /\ key' = [a \in Aid |-> IF a \in S THEN NoKey ELSE key[a]]
    /\ committed' = committed \ S
    /\ settling' = FALSE /\ subtree' = {}
    /\ UNCHANGED <<steps, turns, driverVars, batchVars, par, nextAid, cleanVars,
                   turn, cancelEv, held>>

-----------------------------------------------------------------------------
(* cleanup *)

(* The public turn's task is cancelled with the drivers.  Its target is     *)
(* failed too, except when run_turn's own cancellation called cleanup after *)
(* withdrawing its entry of _active_run_tasks.                              *)
CleanupBegin ==
    /\ "cleanup" \in Events /\ clean = "no"
    /\ shutting' = TRUE /\ clean' = "waiting"
    /\ owned' = {a \in Aid : Live(a)} \cup Startups
    /\ creq' = [a \in Aid |-> Live(a)]
    /\ \/ turn # "idle" /\ turn' = "cleaning"
       \/ turn' = "idle"
    /\ settling' = FALSE /\ subtree' = {}
    /\ UNCHANGED <<sessionVars, pc, drivers, resumeCb, tableVars, batchVars, routeVars,
                   committed, cancelEv, held>>

(* The wait is over, by completion or by its timeout: fail what was         *)
(* interrupted, drop the startups, clear the registries.                    *)
CleanupEnd ==
    /\ clean = "waiting"
    /\ FinalizeAll(owned \cup (IF turn = "cleaning" THEN {0} ELSE {}), InTable \ Startups)
    /\ committed' = {}
    /\ clean' = "done" /\ owned' = {} /\ turn' = "idle"
    /\ UNCHANGED <<steps, turns, driverVars, ref, batchVars, par, nextAid, shutting,
                   cancelEv, settling, subtree, held>>

-----------------------------------------------------------------------------

DriverStep(a) ==
    \/ EnterGate(a) \/ EnterLoop(a) \/ Generate(a) \/ IllegalTransition(a)
    \/ IssueCall(a) \/ RefuseSpawn(a) \/ (\E k \in Keys : ReserveSpawn(a, k))
    \/ RegisterChild(a) \/ StartChild(a) \/ RollbackSpawn(a) \/ RecordResult(a)
    \/ FinishBatch(a) \/ BatchFails(a)
    \/ Return(a) \/ CheckpointFails(a) \/ DiffFails(a) \/ DiscardLate(a)
    \/ Deliver(a) \/ EndDrain(a) \/ Killed(a) \/ Cancelled(a) \/ Swallow(a)

(* The run_turn task *)
TurnStep ==
    \/ RestoredCancelled \/ EndTurn \/ StallTurn \/ SettleBegin \/ SettleEnd
    \/ (turn = "restored" /\ StartTurn)

(* Nothing is owed: no public turn is open, no cleanup is running and every *)
(* task is gone.                                                            *)
Finished == turn = "idle" /\ clean # "waiting" /\ NoTasks /\ UNCHANGED vars

Next ==
    \/ RestoreTurn \/ StartTurn \/ RequestCancel \/ TurnStep
    \/ \E a \in Aid : MessageTurn(a) \/ DriverStep(a)
    \/ CleanupBegin \/ CleanupEnd
    \/ Finished

(* Every task the event loop owns runs again once it is ready; a model or   *)
(* tool call is bounded by its timeout.  Nobody owes a user turn, a         *)
(* cancellation, a teammate message or a cleanup.                           *)
Fairness ==
    /\ \A a \in Aid : WF_vars(DriverStep(a))
    /\ WF_vars(TurnStep)
    /\ WF_vars(CleanupEnd)

Spec == Init /\ [][Next]_vars /\ Fairness

-----------------------------------------------------------------------------
(* Properties *)

TypeOK ==
    /\ phase \in [Aid -> Phase]
    /\ steps \in [Aid -> 0 .. MaxSteps]
    /\ turns \in [Aid -> 0 .. MaxTurns]
    /\ pc \in [Aid -> Pc]
    /\ drivers \in [Aid -> Nat]
    /\ creq \in [Aid -> BOOLEAN] /\ resumeCb \in [Aid -> BOOLEAN]
    /\ rows \in [Aid -> [Call -> Status]]
    /\ ref \in [Aid -> [Call -> Aid \cup {NoAid}]]
    /\ cur \in [Aid -> 0 .. MaxCalls]
    /\ stage \in [Aid -> Stage]
    /\ kid \in [Aid -> Aid \cup {NoAid}]
    /\ par \in [Aid -> Aid] /\ origin \in [Aid -> 0 .. MaxCalls]
    /\ key \in [Aid -> Keys \cup {NoKey}]
    /\ nextAid \in 1 .. MaxAid + 1
    /\ committed \subseteq Aid
    /\ shutting \in BOOLEAN /\ clean \in {"no", "waiting", "done"} /\ owned \subseteq Aid
    /\ turn \in {"idle", "restored", "active", "cleaning"}
    /\ cancelEv \in BOOLEAN /\ settling \in BOOLEAN
    /\ subtree \subseteq Aid /\ held \subseteq Aid

(* At most one driver task of an agent is alive: concurrent child           *)
(* completions never double-wake a parent (_wake, _resume_after_parent_task).*)
OneDriver == \A a \in Aid : drivers[a] <= 1

(* Inductive strengthening of OneDriver and SingleFlight: the count follows *)
(* the driver's position; a child that is starting up has no driver yet and *)
(* belongs to one spawn; an aid that is not allocated owns nothing.         *)
DriverCount == \A a \in Aid : drivers[a] = IF Live(a) THEN 1 ELSE 0

StartupIsFresh ==
    \A p \in Aid : Starting(p) =>
        /\ kid[p] \in Aid \ {0} /\ kid[p] < nextAid
        /\ pc[kid[p]] = "none" /\ turns[kid[p]] = 0 /\ phase[kid[p]] # "awaiting"
        /\ \A q \in Aid : Starting(q) /\ kid[q] = kid[p] => q = p

UnallocatedIsFree ==
    \A a \in Aid : a >= nextAid =>
        pc[a] = "none" /\ turns[a] = 0 /\ phase[a] = "absent" /\ key[a] = NoKey

JoinInv == DriverCount /\ StartupIsFresh /\ UnallocatedIsFree

(* Inductive strengthening of BatchDrainsWhole: a batch is open only inside *)
(* a run loop that is not generating, the calls after the one in hand have  *)
(* no row yet, and a loop that is about to generate has drained its table.  *)
BatchIsFresh ==
    \A a \in Aid :
        /\ pc[a] = "loop" /\ stage[a] = "model" /\ phase[a] = "running" => IsEmpty(rows[a])
        /\ stage[a] # "model" =>
              /\ pc[a] = "loop" /\ phase[a] # "running"
              /\ \A k \in Call : k > cur[a] => rows[a][k] = "empty"
        /\ stage[a] = "model" => cur[a] = 0

(* A child that will still report: it is starting up, its driver is alive   *)
(* before its delivery, or it is itself suspended.                          *)
Producing(c) ==
    \/ c \in Startups
    \/ pc[c] \in {"created", "gate", "loop", "ret", "ended", "cancelling"}
    \/ phase[c] = "awaiting"

(* Until the scheduler shuts down, every open row has a producer: the spawn *)
(* call that is still in hand, a child that will still report, or the       *)
(* settlement that is about to close the row.                               *)
OpenRowHasProducer ==
    ~shutting => \A p \in Aid, k \in Call : rows[p][k] = "pending" =>
        \/ stage[p] \notin {"model", "next"} /\ cur[p] = k
        \/ \E c \in Aid : /\ par[c] = p /\ origin[c] = k
                           /\ Producing(c)
        \/ settling /\ p \in subtree \cup {0}

(* A suspended session whose batch is complete is about to be resumed: the  *)
(* last fill is never lost between the suspension and the end of the        *)
(* suspending driver.                                                       *)
CompleteBatchResumes ==
    ~shutting => \A a \in Aid :
        phase[a] = "awaiting" /\ IsComplete(rows[a]) =>
            \/ pc[a] \in {"created", "gate"}
            \/ pc[a] = "ret" /\ resumeCb[a]
            \/ a = 0 /\ turn = "idle"

(* The terminal pair of a child and of the row that names it agree, through *)
(* every race of a delivery with cleanup: a child that ended STOPPED or     *)
(* ERROR is reported as failed, and a delivered success is never rewritten  *)
(* on one side only (_delivery_committed).                                  *)
RowAgreesWithChild ==
    \A p \in Aid, k \in Call :
        LET c == ref[p][k] IN
        c # NoAid /\ turns[c] = 1 =>
            /\ rows[p][k] = "done" => phase[c] = "done"
            /\ rows[p][k] = "failed" /\ ~Live(c) => phase[c] \in {"stopped", "error"}

(* One parent's delegated work is in flight at most once. *)
SingleFlight ==
    \A b, c \in Aid : b # c /\ par[b] = par[c] /\ key[b] # NoKey => key[b] # key[c]

(* A delegated-work identity is held only by work that is still in flight:  *)
(* a leaked one would refuse the same task for the rest of the run.         *)
NoLeakedKey ==
    ~shutting => \A a \in Aid : key[a] # NoKey =>
        Producing(a) \/ (settling /\ a \in subtree)

(* A route to a parent's row is either unused or leads to an open row of    *)
(* the parent that is not another child's: no completion is misrouted, even *)
(* when a provider reuses tool-call ids.                                    *)
RoutesAreOpen ==
    \A c \in Aid : origin[c] # 0 /\ ~shutting =>
        /\ rows[par[c]][origin[c]] = "pending"
        /\ ref[par[c]][origin[c]] \in {c, NoAid}

(* run_turn reports a stall only when a session failed with its batch open: *)
(* no interleaving of suspensions and completions loses the team.           *)
StallMeansBrokenBatch ==
    Stalled => \E a \in Aid : phase[a] \in {"stopped", "error"} /\ ~IsEmpty(rows[a])

(* Inductive strengthening of NothingDangles and NoLostWake, for as long as *)
(* the scheduler is not shut down.                                          *)

(* A cancellation belongs to a settlement.  While one is under way its turn *)
(* is open and cancelled, its wake gates are closed, and its members start  *)
(* nothing: their phase is final, and what could go on is cancelled.        *)
SettlementIsClosed ==
    /\ clean # "waiting"
    /\ \A a \in Aid : creq[a] => Live(a) /\ settling /\ a \in subtree
    /\ settling =>
          /\ turn # "idle" /\ cancelEv /\ subtree \cup {0} \subseteq held
          /\ stage[0] = "model" /\ 0 \notin subtree
          /\ \A x \in subtree :
                /\ x < nextAid /\ phase[x] \in Terminal \cup {"absent"}
                /\ pc[x] \in {"created", "gate"} \/ stage[x] # "model" => creq[x]
          /\ \A c \in Aid : origin[c] # 0 => (c \in subtree <=> par[c] \in subtree \cup {0})

(* Where the driver of a session stands, by its phase.                      *)
PhaseFits(a) ==
    /\ stage[a] # "model" => phase[a] \in {"tools", "stopped"}
    /\ phase[a] \in {"running", "tools"} => pc[a] = "loop"
    /\ phase[a] = "awaiting" =>
          pc[a] \in {"none", "created", "gate", "ret"} /\ ~IsEmpty(rows[a])
    /\ phase[a] = "idle" => IsEmpty(rows[a]) \/ pc[a] \in {"created", "gate"}
    /\ phase[a] \in {"absent", "done"} => IsEmpty(rows[a])
    /\ a # 0 /\ turns[a] = 0 =>
          pc[a] = "none" /\ phase[a] \in {"absent", "idle", "stopped"} /\ IsEmpty(rows[a])

(* A reference names a child of the session whose row it is in.             *)
RefsNameChildren ==
    \A p \in Aid, k \in Call :
        /\ rows[p][k] = "empty" => ref[p][k] = NoAid
        /\ ref[p][k] # NoAid => ref[p][k] # 0 /\ ref[p][k] < nextAid /\ par[ref[p][k]] = p

Route(p, k, c) == par[c] = p /\ origin[c] = k

(* The call in hand has a row that nobody else answers: none but its spawn  *)
(* until it has a route, none but the child after.                          *)
HandFits(a) ==
    /\ cur[a] # 0 => rows[a][cur[a]] # "empty"
    /\ stage[a] \notin {"model", "next"} => cur[a] # 0 /\ ref[a][cur[a]] = NoAid
    /\ stage[a] \in {"issued", "rolledback"} =>
          rows[a][cur[a]] = "pending" /\ \A c \in Aid : ~Route(a, cur[a], c)
    /\ Starting(a) => Route(a, cur[a], kid[a])
    /\ stage[a] = "emit" => phase[kid[a]] # "absent"
    /\ stage[a] = "ref" =>
          /\ kid[a] \in Aid \ {0} /\ kid[a] < nextAid /\ par[kid[a]] = a
          /\ \A c \in Aid : Route(a, cur[a], c) => c = kid[a]

(* A route and an identity belong to a child that will still report.        *)
WorkFits(c) ==
    /\ c = 0 \/ c >= nextAid => origin[c] = 0 /\ key[c] = NoKey
    /\ origin[c] # 0 => par[c] < c
    /\ origin[c] # 0 \/ key[c] # NoKey => Producing(c) \/ (settling /\ c \in subtree)
    /\ pc[c] \in {"ended", "cancelling", "drain"} => key[c] = NoKey
    /\ phase[c] = "absent" /\ c \notin Startups => origin[c] = 0 /\ key[c] = NoKey

OneRoute ==
    \A c, d \in Aid : origin[c] # 0 /\ Route(par[c], origin[c], d) => c = d

OpenRowIsRouted ==
    \A p \in Aid, k \in Call : rows[p][k] = "pending" =>
        \/ \E c \in Aid : Route(p, k, c)
        \/ stage[p] \in {"issued", "rolledback"} /\ cur[p] = k
        \/ settling /\ p \in subtree \cup {0}

WorkInv ==
    ~shutting =>
        /\ SettlementIsClosed /\ RefsNameChildren /\ RoutesAreOpen
        /\ OneRoute /\ OpenRowIsRouted /\ CompleteBatchResumes
        /\ \A a \in Aid : PhaseFits(a) /\ HandFits(a) /\ WorkFits(a)

(* Inductive strengthening of RowAgreesWithChild, also while the scheduler  *)
(* is shut down.                                                            *)

(* The row names the child, or the call in hand is about to enter it.       *)
Names(p, k, c) == ref[p][k] = c \/ (stage[p] = "ref" /\ cur[p] = k /\ kid[p] = c)

(* A driver past its run loop has a final phase, and one that has not       *)
(* entered it when the scheduler shuts down never will.                     *)
EndFits(a) ==
    /\ Live(a) \/ turns[a] > 0 => phase[a] # "absent"
    /\ pc[a] = "ret" => phase[a] \in Terminal \cup {"awaiting"}
    /\ pc[a] \in {"ended", "cancelling", "drain"} => phase[a] \in Terminal
    /\ shutting /\ pc[a] \in {"created", "gate"} => creq[a]

(* A row names a child of its session that was started.  The row of the     *)
(* call in hand names nobody before its child is started, and nobody but    *)
(* the child can answer it.                                                 *)
TableFits(a) ==
    /\ \A k \in Call : rows[a][k] = "empty" => ref[a][k] = NoAid
    /\ \A k \in Call, c \in Aid : Names(a, k, c) => c # 0 /\ par[c] = a /\ turns[c] > 0
    /\ stage[a] \notin {"model", "next"} =>
          /\ cur[a] # 0 /\ ref[a][cur[a]] = NoAid /\ rows[a][cur[a]] # "empty"
          /\ \A c \in Aid : Route(a, cur[a], c) =>
                c = kid[a] /\ stage[a] \in {"env", "emit", "ref"}

RoutesStayOpen ==
    \A c \in Aid : origin[c] # 0 =>
        /\ c # 0 /\ par[c] # c
        /\ rows[par[c]][origin[c]] = "pending"
        /\ ref[par[c]][origin[c]] \in {c, NoAid}

(* What the row of a child that had one turn says of it stays true: cleanup *)
(* spares a success that it finds committed.                                *)
OutcomeIsFinal(c) ==
    \A p \in Aid, k \in Call : Names(p, k, c) /\ turns[c] = 1 =>
        /\ rows[p][k] = "done" =>
              /\ phase[c] = "done" /\ pc[c] \in {"drain", "none"}
              /\ c \in owned \/ (Live(c) /\ ~shutting) => c \in committed
        /\ rows[p][k] = "failed" =>
              /\ phase[c] \in {"stopped", "error"}
              /\ pc[c] \in {"created", "gate"} => creq[c]

AgreeInv ==
    /\ ~shutting => owned = {}
    /\ shutting <=> clean # "no"
    /\ RoutesStayOpen /\ OneRoute
    /\ \A a \in Aid : EndFits(a) /\ TableFits(a) /\ OutcomeIsFinal(a)

(* Nothing that a spawn adds dangles, whether it succeeds, fails, is        *)
(* cancelled or settled: its row, its identity and its route belong to work *)
(* in flight.                                                               *)
NothingDangles == OpenRowHasProducer /\ NoLeakedKey /\ RoutesAreOpen

(* No wake is lost: a complete batch resumes, and a turn that gives the     *)
(* team up found a session that failed with its batch open.                 *)
NoLostWake == CompleteBatchResumes /\ StallMeansBrokenBatch

(* A turn that is cancelled, cleaned up or restored settles its team whole: *)
(* child and row agree on the outcome, and nothing dangles.                 *)
SettlesWhole == RowAgreesWithChild /\ NothingDangles

(* A batch reaches the model whole: a recorded result is never rewritten,   *)
(* and rows leave the table only together, when every call is answered or   *)
(* when the settlement of a cancelled turn closes the table                 *)
(* (PendingEventTable.fill, _resume_from_awaiting, execute_pending_tools).  *)
DrainsWhole ==
    \A p \in Aid, k \in Call : rows[p][k] # "empty" =>
        /\ rows[p][k] \in {"done", "failed"} => rows'[p][k] \in {rows[p][k], "empty"}
        /\ rows'[p][k] = "empty" =>
              rows'[p] = NoRows /\ (IsComplete(rows[p]) \/ settling)

BatchDrainsWhole == [][DrainsWhole]_vars

(* A public turn ends: it is answered, fails, or reports a stall. *)
TurnEnds == turn \in {"active", "restored"} ~> turn = "idle"
=============================================================================

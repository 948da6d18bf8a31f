------------------------------ MODULE SessionRun ------------------------------
(***************************************************************************)
(* The run loop of one session: what lets it ask the model once more, what  *)
(* a reply does, and what a stop leaves behind.                             *)
(*                                                                          *)
(* Every round is gated by a precheck (cancellation, loop block, token      *)
(* budget, team ceiling, enforcement, step limit).  Enforcement allows a    *)
(* turn that has spent its exploration budget, or makes no progress, one    *)
(* protected call to submit and one retry.  The host may raise the soft     *)
(* budget up to the hard one, cancel the turn, kill its task or revoke its  *)
(* environment.  A call that outlives its caller is charged when it ends.   *)
(* Saves are written in the background; the process may crash and the       *)
(* session be restored from its last snapshot.                              *)
(*                                                                          *)
(* One action is the code between two awaits that can be told apart.        *)
(* Tokens are counted in units; a request reserves one unit of input and    *)
(* one of output.                                                           *)
(*                                                                          *)
(* Source: application/session_run.py, _session_run_completion.py,          *)
(* run_control.py, async_timeout.py, session.py, autosave.py,               *)
(* domain/session.py, domain/tools.py.                                      *)
(***************************************************************************)
EXTENDS Integers, Sequences

CONSTANTS
    Soft,       \* initial_soft_budget_tokens
    Hard,       \* hard_budget_tokens
    Reserve,    \* commit_reserve, carved from the budget
    MaxSteps,   \* max_steps
    WatchdogK,  \* watchdog_k: batches without progress
    LowYieldM,  \* low_yield_m: results without information
    BlockLimit, \* DEFAULT_LOOP_BLOCKED_LIMIT
    Costs,      \* bound: what one provider call may cost
    MaxTurns,   \* bound: user turns
    MaxRestarts,\* bound: crashes of the process
    Events      \* bound: which events from outside happen in an instance

ASSUME BudgetAssumption ==
    /\ Soft \in Nat \ {0} /\ Hard \in Nat /\ Soft <= Hard
    /\ Reserve \in Nat \ {0} /\ Costs \subseteq Nat /\ Costs # {}
ASSUME LimitAssumption ==
    /\ MaxSteps \in Nat /\ WatchdogK \in Nat \ {0} /\ LowYieldM \in Nat \ {0}
    /\ BlockLimit \in Nat \ {0} /\ MaxTurns \in Nat /\ MaxRestarts \in Nat
ASSUME EventsAssumption ==
    Events \subseteq {"control", "enforce", "steer", "team", "reject", "overflow",
                      "error", "timeout", "cancel", "kill", "revoke", "defer"}

Terminal == {"done", "stopped", "error"}
Phase    == Terminal \cup {"idle", "precheck", "calling", "handling",
                           "executing", "awaiting", "autosaving"}

(* What the model answered: text, tool calls, nothing, a reply cut by the   *)
(* provider's limit, nothing with another finish reason.                    *)
Reply == {"text", "tools", "empty", "cut", "odd"}

(* The attempts of one call: with the forced tool choice and, when that is  *)
(* rejected, with "auto"; both again on the compacted history.              *)
Try == {"choice", "auto", "choice2", "auto2"}

VARIABLES
    phase,
    run,        \* the driver: none, loop, call, tool, final, flush
    used, steps, soft,
    wd, att, resv,          \* wind_down_done, _attempts, budget_reserve_consumed
    stall, low, unk, blk,   \* turn: steps_since_progress, low_yield_since_progress,
                            \*   last_progress_unknown, loop_state.blocked_rounds
    talk, sys,  \* the last message that is not a system message; one follows it
    retried, corrected, allow,  \* _empty_stop_retried, _required_tool_retried,
                                \*   _pending_tool_allowlist
    resp,       \* _pending
    table, sub, ext,        \* pending_events, submitted_summary, pending_external_user_turn
    prov, prot, try,        \* the provider call, protected_call, its attempt
    cancelEv, revoked,
    frozen, due, disk,      \* the save being written, one is queued, the snapshot
    epoch, turns,
    spare       \* history: requests paid from the reserve, as the snapshot knows it

acctVars == <<used, steps, soft>>
windVars == <<wd, att, resv>>
turnVars == <<stall, low, unk, blk>>
histVars == <<talk, sys>>
onceVars == <<retried, corrected>>
rowVars  == <<table, sub, ext>>
provVars == <<prov, prot, try>>
envVars  == <<cancelEv, revoked>>
saveVars == <<frozen, due, disk>>
pastVars == <<epoch, turns, spare>>
vars == <<phase, run, acctVars, windVars, turnVars, histVars, onceVars, allow,
          resp, rowVars, provVars, envVars, saveVars, pastVars>>

-----------------------------------------------------------------------------
(* Saves *)

Snapshot ==
    [phase |-> phase, used |-> used, steps |-> steps, wd |-> wd, att |-> att,
     resv |-> resv, stall |-> stall, low |-> low, unk |-> unk, blk |-> blk,
     talk |-> talk, sys |-> sys, table |-> table, sub |-> sub, ext |-> ext,
     spare |-> spare]

(* AutoSaveSubscriber._enqueue: freeze now, or behind the write in progress.*)
(* A snapshot that no restart of the instance can read is not written.      *)
Save(snapshot) ==
    /\ IF epoch < MaxRestarts /\ frozen = <<>>
       THEN frozen' = <<snapshot>> ELSE UNCHANGED frozen
    /\ due' = (due \/ (epoch < MaxRestarts /\ frozen # <<>>))
    /\ UNCHANGED disk

(* _drain_latest: the write ends, the queued generation is frozen *)
WriteDone ==
    /\ frozen # <<>>
    /\ disk' = frozen[1]
    /\ frozen' = IF due THEN <<Snapshot>> ELSE <<>>
    /\ due' = FALSE
    /\ UNCHANGED <<phase, run, acctVars, windVars, turnVars, histVars, onceVars,
                   allow, resp, rowVars, provVars, envVars, pastVars>>

Init ==
    /\ phase = "idle" /\ run = "none"
    /\ used = 0 /\ steps = 0 /\ soft = Soft
    /\ wd = FALSE /\ att = 0 /\ resv = FALSE
    /\ stall = 0 /\ low = 0 /\ unk = FALSE /\ blk = 0
    /\ talk = "none" /\ sys = TRUE
    /\ retried = FALSE /\ corrected = FALSE /\ allow = FALSE /\ resp = "none"
    /\ table = "empty" /\ sub = FALSE /\ ext = "none"
    /\ prov = "none" /\ prot = FALSE /\ try = "choice"
    /\ cancelEv = FALSE /\ revoked = FALSE
    /\ frozen = <<>> /\ due = FALSE
    /\ epoch = 0 /\ turns = 0 /\ spare = 0
    /\ disk = Snapshot

-----------------------------------------------------------------------------
(* The host: a user turn, and the ways to run the session *)

(* Session.add_user_message, reset_for_user_turn, reset_runtime_for_user_turn *)
AddUserMessage ==
    /\ turns < MaxTurns
    /\ run = "none" /\ prov = "none" /\ ext = "none"
    /\ phase \in Terminal \cup {"idle"}
    /\ phase' = "idle"
    /\ IF table = "empty"
       THEN ext' = "appended" /\ talk' = "user" /\ sys' = FALSE
       ELSE ext' = "deferred" /\ UNCHANGED histVars
    /\ stall' = 0 /\ low' = 0 /\ unk' = FALSE /\ blk' = 0
    /\ wd' = FALSE /\ att' = 0 /\ sub' = FALSE
    /\ allow' = FALSE /\ corrected' = FALSE
    /\ turns' = turns + 1
    /\ UNCHANGED <<run, acctVars, resv, retried, resp, table, provVars, envVars,
                   epoch, spare>>
    /\ Save(Snapshot')

(* run_loop may start: the turn lock is free, no provider call is draining *)
MayRun == run = "none" /\ prov = "none"

(* _prepare_turn of a session that waits for nothing, and IDLE -> PRECHECK.  *)
(* A finished session is only asked for its answer.                         *)
StartTurn ==
    /\ MayRun
    /\ table = "empty"
    /\ phase \in Terminal \cup {"idle"}
    /\ phase = "done" => ext # "none"
    /\ phase' = "precheck" /\ run' = "loop"
    /\ IF ext = "deferred" THEN talk' = "user" /\ sys' = FALSE ELSE UNCHANGED histVars
    /\ ext' = "none" /\ sub' = FALSE /\ retried' = FALSE
    /\ UNCHANGED <<acctVars, windVars, turnVars, corrected, allow, resp, table,
                   provVars, envVars, saveVars, pastVars>>

(* _prepare_turn and _resume_from_awaiting: the whole batch of results, then *)
(* the turn that was queued behind it                                       *)
ResumeTurn ==
    /\ MayRun
    /\ table = "full"
    /\ phase \in Terminal \cup {"idle", "awaiting"}
    /\ phase' = "autosaving" /\ run' = "loop"
    /\ table' = "empty"
    /\ talk' = (IF ext = "deferred" THEN "user" ELSE "tool") /\ sys' = FALSE
    /\ IF ext # "none" THEN sub' = FALSE /\ retried' = FALSE ELSE UNCHANGED <<sub, retried>>
    /\ ext' = "none"
    /\ UNCHANGED <<acctVars, windVars, turnVars, corrected, allow, resp,
                   provVars, envVars, saveVars, pastVars>>

(* _prepare_turn while rows of the last turn are open: wait for them *)
WaitForRows ==
    /\ MayRun
    /\ table = "open"
    /\ phase \in Terminal \cup {"idle"}
    /\ phase' = "awaiting" /\ run' = "final"
    /\ UNCHANGED <<acctVars, windVars, turnVars, histVars, onceVars, allow, resp,
                   rowVars, provVars, envVars, saveVars, pastVars>>

(* the delegated work of every open row ends *)
RowsFilled ==
    /\ table = "open" /\ run \notin {"tool"}
    /\ table' = "full"
    /\ UNCHANGED <<phase, run, acctVars, windVars, turnVars, histVars, onceVars,
                   allow, resp, sub, ext, provVars, envVars, saveVars, pastVars>>

(* the cancel event of the turn *)
CancelEvent ==
    /\ "cancel" \in Events /\ run \in {"loop", "call", "tool"} /\ ~cancelEv
    /\ cancelEv' = TRUE
    /\ UNCHANGED <<phase, run, acctVars, windVars, turnVars, histVars, onceVars,
                   allow, resp, rowVars, provVars, revoked, saveVars, pastVars>>

(* the execution environment is revoked *)
Revoke ==
    /\ "revoke" \in Events /\ ~revoked
    /\ revoked' = TRUE
    /\ UNCHANGED <<phase, run, acctVars, windVars, turnVars, histVars, onceVars,
                   allow, resp, rowVars, provVars, cancelEv, saveVars, pastVars>>

-----------------------------------------------------------------------------
(* The ends of a run *)

(* _stop_precheck: a visible system message, STOPPED; run_loop then clears   *)
(* the active turn                                                          *)
Stop == phase' = "stopped" /\ run' = "final" /\ sub' = FALSE /\ sys' = TRUE

(* run_loop: an exception marks the session failed and is raised *)
Fail == phase' = "error" /\ run' = "final" /\ UNCHANGED <<sub, sys>>

(* Session.run_loop: the terminal snapshot is queued ... *)
Finish ==
    /\ run = "final"
    /\ run' = "flush" /\ cancelEv' = FALSE
    /\ Save(Snapshot)
    /\ UNCHANGED <<phase, acctVars, windVars, turnVars, histVars, onceVars, allow,
                   resp, rowVars, provVars, revoked, pastVars>>

(* ... and awaited before the run returns *)
Return ==
    /\ run = "flush" /\ frozen = <<>>
    /\ run' = "none"
    /\ UNCHANGED <<phase, acctVars, windVars, turnVars, histVars, onceVars, allow,
                   resp, rowVars, provVars, envVars, saveVars, pastVars>>

(* the provider call is over *)
NoCall == prov' = "none" /\ prot' = FALSE /\ try' = "choice"

(* The driver's task is cancelled.  A provider call under a timeout is left  *)
(* to drain, another ends with its caller; open tool calls are answered,    *)
(* unless delegated rows still have a producer.                             *)
Kill ==
    /\ "kill" \in Events /\ run \in {"loop", "call", "tool"}
    /\ phase' = "stopped" /\ run' = "final"
    /\ IF run = "call" /\ "timeout" \in Events
       THEN prov' = "draining" /\ UNCHANGED <<prot, try>> ELSE NoCall
    /\ \E left \in {"empty", "open"} :
          /\ left = "open" => "defer" \in Events /\ run = "tool"
          /\ table' = left
          /\ IF left = "empty" /\ talk = "calls"
             THEN talk' = "tool" /\ sys' = FALSE ELSE UNCHANGED histVars
    /\ UNCHANGED <<acctVars, windVars, turnVars, onceVars, allow, resp, sub, ext,
                   envVars, saveVars, pastVars>>

-----------------------------------------------------------------------------
(* precheck *)

(* _decide_run_budget: the host keeps or raises the soft budget, up to the   *)
(* hard one and not below what is spent.                                     *)
Decided(s, u) ==
    IF "control" \notin Events \/ u >= Hard THEN {s}
    ELSE {s} \cup {t \in s .. Hard : t >= u}

(* team_budget_exhausted, as the scheduler answers it *)
TeamSpent == IF "team" \in Events THEN BOOLEAN ELSE {FALSE}

Spent(s)  == used >= s - Reserve
Braked    == ~unk /\ (stall >= WatchdogK \/ low >= LowYieldM)

InPrecheck == run = "loop" /\ phase = "precheck"

(* The checks before the enforcement gate, in the code's order; the budget   *)
(* is asked about only once the first ones pass.                            *)
Refused(s, team) ==
    \/ (cancelEv \/ blk >= BlockLimit) /\ s = soft
    \/ ~cancelEv /\ blk < BlockLimit /\ (used >= s \/ team)
Passed(s, team) == ~cancelEv /\ blk < BlockLimit /\ used < s /\ ~team

(* _apply_enforcement_gate: none, retry, wind, stop *)
Gate(s) ==
    IF "enforce" \notin Events THEN "none"
    ELSE IF wd THEN IF att < 2 THEN "retry" ELSE "stop"
    ELSE IF ~(Spent(s) \/ Braked) \/ table # "empty" THEN "none"
    ELSE IF Spent(s) /\ resv THEN "stop" ELSE "wind"

(* the gate asks about the budget once more before it winds the turn down   *)
Asked(s) ==
    IF "enforce" \in Events /\ ~wd /\ Spent(s) /\ ~Braked THEN Decided(s, used) ELSE {s}

PrecheckStop ==
    /\ InPrecheck /\ ~revoked
    /\ \E s \in Decided(soft, used), team \in TeamSpent :
          \/ Refused(s, team) /\ soft' = s
          \/ \E t \in Asked(s) :
                /\ Passed(s, team)
                /\ Gate(t) = "stop" \/ (Gate(t) = "none" /\ steps >= MaxSteps)
                /\ soft' = t
    /\ Stop
    /\ UNCHANGED <<used, steps, windVars, turnVars, talk, onceVars, allow, resp,
                   table, ext, provVars, envVars, saveVars, pastVars>>

(* no environment, or a budget policy that answers nonsense *)
PrecheckFail ==
    /\ InPrecheck
    /\ revoked \/ ("control" \in Events /\ "error" \in Events /\ used < Hard)
    /\ Fail
    /\ UNCHANGED <<acctVars, windVars, turnVars, talk, onceVars, allow, resp,
                   table, ext, provVars, envVars, saveVars, pastVars>>

PrecheckPass ==
    /\ InPrecheck /\ ~revoked
    /\ \E s \in Decided(soft, used) : \E t \in Asked(s) :
          /\ Passed(s, FALSE)
          /\ Gate(t) = "none" /\ steps < MaxSteps
          /\ soft' = t
    /\ phase' = "calling"
    /\ UNCHANGED <<run, used, steps, windVars, turnVars, histVars, onceVars, allow,
                   resp, rowVars, provVars, envVars, saveVars, pastVars>>

(* the compatibility retry of a protected call; nothing is saved here *)
PrecheckRetry ==
    /\ InPrecheck /\ ~revoked
    /\ \E s \in Decided(soft, used) : Passed(s, FALSE) /\ Gate(s) = "retry" /\ soft' = s
    /\ att' = att + 1 /\ sys' = TRUE
    /\ phase' = "calling"
    /\ UNCHANGED <<run, used, steps, wd, resv, turnVars, talk, onceVars, allow,
                   resp, rowVars, provVars, envVars, saveVars, pastVars>>

(* _enter_wind_down.  A reserve taken from the budget is announced, and so   *)
(* saved, before the latches of the turn are set.                           *)
PrecheckWindDown ==
    /\ InPrecheck /\ ~revoked
    /\ \E s \in Decided(soft, used) : \E t \in Asked(s) :
          /\ Passed(s, FALSE) /\ Gate(t) = "wind"
          /\ soft' = t
          /\ resv' = (resv \/ Spent(t))
          /\ IF Spent(t) THEN Save([Snapshot EXCEPT !.resv = TRUE])
                         ELSE UNCHANGED saveVars
    /\ wd' = TRUE /\ att' = att + 1 /\ sys' = TRUE
    /\ phase' = "calling"
    /\ UNCHANGED <<run, used, steps, turnVars, talk, onceVars, allow, resp, rowVars,
                   provVars, envVars, pastVars>>

-----------------------------------------------------------------------------
(* run_llm_call *)

(* _request_output_limit: input and output still fit *)
Fits(s, u) == s - u >= 2

(* _raise_if_run_cancelled, checked only for a controlled run *)
SeesCancel == cancelEv /\ "control" \in Events

(* _prepare_request_budget, _request_output_limit: a request, or its retry,  *)
(* is cancelled or finds no room                                            *)
Barred(u) ==
    \/ SeesCancel /\ UNCHANGED soft
    \/ ~SeesCancel /\ \E s \in Decided(soft, u), team \in TeamSpent :
          (team \/ ~Fits(s, u)) /\ soft' = s

(* Mutant: the step of a request is not counted *)
RequestUncounted ==
    /\ run = "loop" /\ phase = "calling" /\ ~revoked /\ ~SeesCancel
    /\ \E s \in Decided(soft, used) : Fits(s, used) /\ soft' = s
    /\ allow' \in (IF "steer" \in Events THEN BOOLEAN ELSE {FALSE})
    /\ run' = "call" /\ prov' = "live" /\ prot' = wd /\ try' = "choice"
    /\ spare' = IF "enforce" \in Events /\ Spent(soft') THEN spare + 1 ELSE spare
    /\ UNCHANGED <<phase, used, steps, windVars, turnVars, histVars, onceVars, resp,
                   rowVars, envVars, saveVars, epoch, turns>>

(* the first request of a call: one step, whatever is retried *)
Request ==
    /\ run = "loop" /\ phase = "calling" /\ ~revoked /\ ~SeesCancel
    /\ \E s \in Decided(soft, used) : Fits(s, used) /\ soft' = s
    /\ allow' \in (IF "steer" \in Events THEN BOOLEAN ELSE {FALSE})
    /\ steps' = steps + 1
    /\ run' = "call" /\ prov' = "live" /\ prot' = wd /\ try' = "choice"
    /\ spare' = IF "enforce" \in Events /\ Spent(soft') THEN spare + 1 ELSE spare
    /\ UNCHANGED <<phase, used, windVars, turnVars, histVars, onceVars, resp,
                   rowVars, envVars, saveVars, epoch, turns>>

(* _RunCancelled, _TokenBudgetStop, _TeamBudgetStop before the request *)
RequestStop ==
    /\ run = "loop" /\ phase = "calling" /\ ~revoked
    /\ Barred(used)
    /\ Stop
    /\ UNCHANGED <<used, steps, windVars, turnVars, talk, onceVars, allow, resp,
                   table, ext, provVars, envVars, saveVars, pastVars>>

RequestFail ==
    /\ run = "loop" /\ phase = "calling"
    /\ revoked \/ ("control" \in Events /\ "error" \in Events /\ used < Hard)
    /\ Fail
    /\ UNCHANGED <<acctVars, windVars, turnVars, talk, onceVars, allow, resp,
                   table, ext, provVars, envVars, saveVars, pastVars>>

(* Mutant: a protected call that runs into the reserve does not consume it *)
ChargeOnly(c) ==
    /\ used' = used + c
    /\ UNCHANGED resv

(* add_used_tokens and _mark_budget_reserve_consumed *)
Charge(c) ==
    /\ used' = used + c
    /\ resv' = (resv \/ (prot /\ used + c >= soft - Reserve))

InCall == run = "call" /\ prov = "live"

(* A reply within the budget becomes the pending response.  The host may    *)
(* raise a budget that the reply has exceeded.                              *)
ReplyAccepted ==
    /\ InCall
    /\ \E c \in Costs, r \in Reply :
          /\ Charge(c)
          /\ \/ used + c <= soft /\ UNCHANGED soft
             \/ used + c > soft /\ ~cancelEv /\ \E s \in Decided(soft, used + c) :
                   used + c <= s /\ soft' = s
          /\ ~(r = "tools" /\ cancelEv)
          /\ resp' = r
          /\ CASE r = "text" -> talk' = "assistant" /\ sys' = FALSE
               [] r = "cut" -> \/ talk' = "assistant" /\ sys' = FALSE
                               \/ UNCHANGED histVars
               [] r = "tools" -> talk' = "calls" /\ sys' = FALSE
               [] OTHER -> UNCHANGED histVars
    /\ phase' = "handling" /\ run' = "loop" /\ NoCall
    /\ UNCHANGED <<steps, wd, att, turnVars, onceVars, allow, rowVars, envVars,
                   saveVars, pastVars>>

(* the host is asked about a budget the cancelled turn has exceeded *)
Dropped(u) == u > soft /\ SeesCancel

(* A reply that exceeds the budget, or tool calls of a cancelled turn: the   *)
(* usable text is kept and the step finished.  When the host is asked about  *)
(* the budget of a cancelled turn the reply is dropped.                     *)
ReplyRefused ==
    /\ InCall
    /\ \E c \in Costs, text \in BOOLEAN :
          /\ Charge(c)
          /\ IF used + c > soft
             THEN \E s \in Decided(soft, used + c) :
                     (used + c > s \/ SeesCancel) /\ soft' = (IF SeesCancel THEN soft ELSE s)
             ELSE cancelEv /\ UNCHANGED soft
          /\ talk' = IF text /\ ~Dropped(used + c) THEN "assistant" ELSE talk
    /\ Stop /\ NoCall
    /\ UNCHANGED <<steps, wd, att, turnVars, onceVars, allow, resp, table, ext,
                   envVars, pastVars>>
    /\ IF Dropped(used') THEN UNCHANGED saveVars
       ELSE Save([Snapshot' EXCEPT !.phase = "calling", !.sub = sub])

(* Mutant: a retry is not checked against the budget *)
AgainAnyway(u) == ~SeesCancel /\ UNCHANGED soft

(* The request may be sent once more after an error *)
Again(u) == ~SeesCancel /\ \E s \in Decided(soft, u) : Fits(s, u) /\ soft' = s

(* _complete: a rejected tool choice is retried with "auto"; call_llm: an    *)
(* overflow is compacted and retried.  Either may carry usage.              *)
CallRetried ==
    /\ InCall
    /\ \E c \in {0} \cup Costs :
          /\ Charge(c)
          /\ Again(used + c)
          /\ \/ "reject" \in Events /\ try = "choice"  /\ try' = "auto"
             \/ "reject" \in Events /\ try = "choice2" /\ try' = "auto2"
             \/ "overflow" \in Events /\ try = "choice" /\ try' = "choice2"
    /\ UNCHANGED <<phase, run, steps, wd, att, turnVars, histVars, onceVars, allow,
                   resp, rowVars, prov, prot, envVars, saveVars, pastVars>>

(* the compacted history overflows too, or its request no longer fits *)
CallStopped ==
    /\ InCall /\ "overflow" \in Events
    /\ \E c \in {0} \cup Costs :
          /\ Charge(c)
          /\ \/ try = "choice2" /\ UNCHANGED soft
             \/ try = "choice" /\ Barred(used + c)
    /\ Stop /\ NoCall
    /\ UNCHANGED <<steps, wd, att, turnVars, talk, onceVars, allow, resp,
                   table, ext, envVars, saveVars, pastVars>>

(* Any other error; and a rejected choice whose fallback fails in whatever   *)
(* way, its own stop signals included.                                      *)
CallFailed ==
    /\ InCall
    /\ \E c \in {0} \cup Costs :
          /\ Charge(c)
          /\ \/ "error" \in Events /\ UNCHANGED soft
             \/ "reject" \in Events /\ try \in {"auto", "auto2"} /\ UNCHANGED soft
             \/ "reject" \in Events /\ try \in {"choice", "choice2"} /\ Barred(used + c)
    /\ Fail /\ NoCall
    /\ UNCHANGED <<steps, wd, att, turnVars, talk, onceVars, allow, resp,
                   table, ext, envVars, saveVars, pastVars>>

(* abandon_on_timeout: the caller leaves, the call drains *)
CallTimeout ==
    /\ InCall /\ "timeout" \in Events
    /\ prov' = "draining" /\ UNCHANGED <<prot, try>>
    /\ Fail
    /\ UNCHANGED <<acctVars, windVars, turnVars, talk, onceVars, allow, resp,
                   table, ext, envVars, saveVars, pastVars>>

(* Mutant: late usage is charged in memory only *)
LateResultUnsaved ==
    /\ prov = "draining"
    /\ NoCall
    /\ UNCHANGED <<phase, run, steps, soft, wd, att, turnVars, histVars, onceVars,
                   allow, resp, rowVars, envVars, pastVars>>
    /\ \E c \in {0} \cup Costs : Charge(c)
    /\ UNCHANGED saveVars

(* An abandoned call ends: a result, or an error that reports usage, is      *)
(* charged and saved (_record_late_provider_result,                         *)
(* _complete_with_error_usage)                                              *)
LateResult ==
    /\ prov = "draining"
    /\ NoCall
    /\ UNCHANGED <<phase, run, steps, soft, wd, att, turnVars, histVars, onceVars,
                   allow, resp, rowVars, envVars, pastVars>>
    /\ \/ (\E c \in Costs : Charge(c)) /\ Save(Snapshot')
       \/ UNCHANGED <<used, resv, saveVars>>

-----------------------------------------------------------------------------
(* handle_pending_response *)

InHandling == run = "loop" /\ phase = "handling"

HandleTools ==
    /\ InHandling /\ resp = "tools"
    /\ phase' = "executing" /\ run' = "tool"
    /\ UNCHANGED <<acctVars, windVars, turnVars, histVars, onceVars, allow, resp,
                   rowVars, provVars, envVars, saveVars, pastVars>>

MustUseTool == allow /\ resp \in {"text", "empty"}

(* a required tool was not called: one correction *)
HandleCorrect ==
    /\ InHandling /\ MustUseTool /\ ~corrected
    /\ corrected' = TRUE
    /\ talk' = "user" /\ sys' = FALSE
    /\ phase' = "autosaving"
    /\ UNCHANGED <<run, acctVars, windVars, turnVars, retried, allow, resp, rowVars,
                   provVars, envVars, saveVars, pastVars>>

(* an empty reply: one nudge per turn *)
HandleEmpty ==
    /\ InHandling /\ resp = "empty" /\ ~MustUseTool /\ ~retried
    /\ retried' = TRUE
    /\ talk' = "user" /\ sys' = FALSE
    /\ phase' = "autosaving"
    /\ UNCHANGED <<run, acctVars, windVars, turnVars, corrected, allow, resp, rowVars,
                   provVars, envVars, saveVars, pastVars>>

(* the turn ends: answered, or stopped by a cut reply or a missing tool      *)
HandleEnd ==
    /\ InHandling /\ resp # "tools"
    /\ MustUseTool => corrected
    /\ (resp = "empty" /\ ~MustUseTool) => retried
    /\ phase' = IF resp = "cut" \/ MustUseTool THEN "stopped" ELSE "done"
    /\ sys' = (sys \/ resp = "cut")
    /\ resp' = "none" /\ sub' = FALSE /\ run' = "final"
    /\ Save([Snapshot EXCEPT !.sys = sys'])
    /\ UNCHANGED <<acctVars, windVars, turnVars, talk, onceVars, allow, table, ext,
                   provVars, envVars, pastVars>>

-----------------------------------------------------------------------------
(* execute_pending_tools *)

Cap(n, m) == IF n < m THEN n ELSE m

(* record_evidence_signal: news ends the streak of results of low yield, a   *)
(* repetition or an empty result extends it; "none": nothing ran that counts *)
LowYieldAfter(o) ==
    CASE o = "progress" -> 0 .. LowYieldM
      [] o = "none"     -> {low}
      [] OTHER          -> low .. LowYieldM

(* apply_evidence_counter_to, by what the batch showed.  The counters stop   *)
(* at the limits they are compared with.                                    *)
Progress(o) ==
    /\ stall' = CASE o = "progress" -> 0
                  [] o \in {"nothing", "blocked"} -> Cap(stall + 1, WatchdogK)
                  [] OTHER -> stall
    /\ low' \in LowYieldAfter(o)
    /\ unk' = (o = "unknown")
    /\ blk' = CASE o = "progress" -> 0
                [] o = "blocked" -> Cap(blk + 1, BlockLimit)
                [] OTHER -> blk

(* Every call of the batch has a result, or waits in a row.  A batch may be  *)
(* rejected as a whole, by the preflight or by the tool gate.  A submission  *)
(* ends the turn once the step is saved.                                    *)
ToolsDone ==
    /\ run = "tool"
    /\ \E o \in {"progress", "nothing", "unknown", "blocked", "none"},
          kept \in BOOLEAN, defers \in BOOLEAN :
          /\ o = "none" => (defers \/ (allow /\ ~kept))
          /\ ~kept => ~defers /\ o \in {"nothing", "none"}
          /\ defers => "defer" \in Events
          /\ Progress(o)
          /\ corrected' = (corrected /\ ~kept)
          /\ \E submits \in BOOLEAN : (submits => kept) /\ sub' = (sub \/ submits)
          /\ IF defers
             THEN /\ table' = "open" /\ resp' = "none"
                  /\ phase' = "awaiting" /\ run' = "final"
                  /\ UNCHANGED histVars
             ELSE /\ talk' = "tool" /\ sys' = FALSE
                  /\ phase' = "autosaving" /\ run' = "loop"
                  /\ UNCHANGED <<table, resp>>
    /\ allow' = FALSE
    /\ UNCHANGED <<acctVars, windVars, retried, ext, provVars, envVars, saveVars,
                   pastVars>>

(* Mutant: a failed batch is left unanswered *)
ToolsFailOpen ==
    /\ run = "tool" /\ "error" \in Events
    /\ phase' = "error" /\ run' = "final"
    /\ \/ UNCHANGED <<histVars, table>>
       \/ "defer" \in Events /\ table' = "open" /\ UNCHANGED histVars
    /\ UNCHANGED <<acctVars, windVars, turnVars, onceVars, allow, resp, sub, ext,
                   provVars, envVars, saveVars, pastVars>>

(* The executor raises; _close_failed_tool_exchange answers what has no row *)
ToolsFail ==
    /\ run = "tool" /\ "error" \in Events
    /\ phase' = "error" /\ run' = "final"
    /\ \/ talk' = "tool" /\ sys' = FALSE /\ UNCHANGED table
       \/ "defer" \in Events /\ table' = "open" /\ UNCHANGED histVars
    /\ UNCHANGED <<acctVars, windVars, turnVars, onceVars, allow, resp, sub, ext,
                   provVars, envVars, saveVars, pastVars>>

(* autosave_pending_step: the step is saved, then the turn goes on or ends   *)
Autosave ==
    /\ run = "loop" /\ phase = "autosaving"
    /\ IF sub THEN talk' = "assistant" /\ sys' = FALSE ELSE UNCHANGED histVars
    /\ Save([Snapshot EXCEPT !.talk = talk', !.sys = sys'])
    /\ resp' = "none"
    /\ IF revoked THEN phase' = "error" /\ run' = "final" /\ UNCHANGED sub
       ELSE IF sub THEN phase' = "done" /\ run' = "final" /\ sub' = FALSE
       ELSE phase' = "precheck" /\ UNCHANGED <<run, sub>>
    /\ UNCHANGED <<acctVars, windVars, turnVars, onceVars, allow, table, ext,
                   provVars, envVars, pastVars>>

-----------------------------------------------------------------------------
(* Session.restore after a crash: what was in flight is closed.  A waiting   *)
(* session keeps its batch, its open rows failed; an accepted submission    *)
(* ends its turn.                                                           *)
Crash ==
    /\ epoch < MaxRestarts
    /\ LET d == disk
           waits == d.phase = "awaiting" /\ d.table # "empty"
           submitted == d.phase \in {"executing", "autosaving"} /\ d.sub
       IN /\ used' = d.used /\ steps' = d.steps
          /\ wd' = d.wd /\ att' = d.att /\ resv' = d.resv
          /\ stall' = d.stall /\ low' = d.low /\ unk' = d.unk /\ blk' = d.blk
          /\ ext' = d.ext /\ spare' = d.spare
          /\ table' = IF waits THEN "full" ELSE "empty"
          /\ sub' = (waits /\ d.sub)
          /\ phase' = CASE submitted -> "done"
                        [] ~submitted /\ (waits \/ d.phase \in Terminal) -> d.phase
                        [] OTHER -> "idle"
          /\ CASE submitted -> talk' = "assistant" /\ sys' = FALSE
               [] ~submitted /\ ~waits /\ d.talk = "calls" -> talk' = "tool" /\ sys' = FALSE
               [] OTHER -> talk' = d.talk /\ sys' = d.sys
          /\ disk' = d
    /\ run' = "none" /\ soft' = Soft
    /\ retried' = FALSE /\ corrected' = FALSE /\ allow' = FALSE /\ resp' = "none"
    /\ prov' = "none" /\ prot' = FALSE /\ try' = "choice"
    /\ cancelEv' = FALSE /\ revoked' = FALSE
    /\ frozen' = <<>> /\ due' = FALSE
    /\ epoch' = epoch + 1
    /\ UNCHANGED turns

-----------------------------------------------------------------------------

Driver ==
    \/ PrecheckStop \/ PrecheckFail \/ PrecheckPass \/ PrecheckRetry \/ PrecheckWindDown
    \/ Request \/ RequestStop \/ RequestFail
    \/ HandleTools \/ HandleCorrect \/ HandleEmpty \/ HandleEnd
    \/ Autosave \/ Finish \/ Return
Provider ==
    \/ ReplyAccepted \/ ReplyRefused \/ CallRetried \/ CallStopped \/ CallFailed
    \/ CallTimeout
Tools == ToolsDone \/ ToolsFail
Host ==
    \/ AddUserMessage \/ StartTurn \/ ResumeTurn \/ WaitForRows \/ RowsFilled
    \/ CancelEvent \/ Revoke \/ Kill \/ Crash

Next == Driver \/ Provider \/ Tools \/ Host \/ LateResult \/ WriteDone

(* The driver's task is scheduled whenever it can run; the provider answers  *)
(* or times out, tools end, and the persistence thread finishes its write.  *)
(* Nothing is assumed of the host.                                          *)
Fairness ==
    /\ WF_vars(Driver) /\ WF_vars(Provider) /\ WF_vars(Tools) /\ WF_vars(WriteDone)

Spec == Init /\ [][Next]_vars /\ Fairness

-----------------------------------------------------------------------------
(* Properties *)

(* Every variable holds a value the code can give it; no counter of the turn *)
(* passes the limit it is compared with, and no turn has a third protected   *)
(* attempt (wind_down_attempts).                                            *)
TypeOK ==
    /\ phase \in Phase
    /\ run \in {"none", "loop", "call", "tool", "final", "flush"}
    /\ used \in Nat /\ steps \in Nat /\ soft \in Soft .. Hard
    /\ wd \in BOOLEAN /\ att \in 0 .. 2 /\ resv \in BOOLEAN
    /\ stall \in 0 .. WatchdogK /\ low \in 0 .. LowYieldM
    /\ unk \in BOOLEAN /\ blk \in 0 .. BlockLimit
    /\ talk \in {"none", "user", "assistant", "calls", "tool"} /\ sys \in BOOLEAN
    /\ retried \in BOOLEAN /\ corrected \in BOOLEAN /\ allow \in BOOLEAN
    /\ resp \in Reply \cup {"none"}
    /\ table \in {"empty", "open", "full"} /\ sub \in BOOLEAN
    /\ ext \in {"none", "appended", "deferred"}
    /\ prov \in {"none", "live", "draining"} /\ prot \in BOOLEAN /\ try \in Try
    /\ cancelEv \in BOOLEAN /\ revoked \in BOOLEAN /\ due \in BOOLEAN
    /\ epoch \in 0 .. MaxRestarts /\ turns \in 0 .. MaxTurns
    /\ spare \in Nat

(* spent within the hard budget and one call on top of a request that fitted *)
Covered(u) == u = 0 \/ \E c \in Costs : u <= Hard + c - 2

(* One call is the most a session spends beyond its hard budget: a request   *)
(* is sent only while its input and output still fit (_request_output_limit),*)
(* every retry is checked again with the usage of the failed attempt, and no *)
(* run starts while an abandoned call may still be charged.                 *)
OverspendIsOneCall == Covered(used)

(* Wind-down is gated before the step limit and may pass it, by its two      *)
(* protected calls and no more, in the life of a session whose host leaves  *)
(* the soft budget alone.                                                   *)
StepLimitHolds == steps <= MaxSteps + 2

(* The reserve pays for at most two requests in the life of such a session,  *)
(* however many turns wind down and for whatever reason: a protected call    *)
(* that runs into the reserve consumes it (_mark_budget_reserve_consumed).  *)
ReservePaysTwice == spare <= 2

(* No request is sent with a tool call of the history unanswered, after a    *)
(* failed, cancelled, suspended or restored batch.                          *)
ProtocolClosed == run = "call" => talk # "calls"

(* A turn that has submitted asks the model nothing more, when its batch was *)
(* suspended, cancelled or restored in between.                             *)
NoRequestAfterSubmit == run = "call" => ~sub

(* A request is sent only in a state the provider and the turn accept: with *)
(* every tool call answered, and with nothing submitted.                    *)
RequestsAreLegal == ProtocolClosed /\ NoRequestAfterSubmit

(* The allowances of a session hold over its turns and restarts: the steps, *)
(* and the reserve of its protected calls.                                  *)
LimitsHold == StepLimitHolds /\ ReservePaysTwice

(* Between runs, with no write in progress, the snapshot knows everything    *)
(* the session has spent, the usage of calls that ended after their run too. *)
RestIsDurable ==
    (run = "none" /\ frozen = <<>> /\ epoch < MaxRestarts) =>
        /\ disk.used = used /\ disk.steps = steps /\ disk.resv = resv
        /\ disk.wd = wd /\ disk.att = att /\ disk.spare = spare

(* A run ends, whatever the model answers, fails or leaves open: every loop  *)
(* of the phases spends an allowance that nothing renews within the run.    *)
RunEnds == (run # "none") ~> (run = "none")

(* The retry of a protected call is allocated durably before the call:       *)
(* wind_down_attempts "is durable so a restore cannot re-grant the one       *)
(* compatibility retry".                                                    *)
RetryIsDurable ==
    (run = "call" /\ att = 2 /\ frozen = <<>> /\ epoch < MaxRestarts) => disk.att = 2

-----------------------------------------------------------------------------
(* What the proofs need to know besides *)

(* A call is out only while its driver waits for it or has left it to drain, *)
(* it knows whether it is protected, and no driver works on an open batch.   *)
DriverInv ==
    /\ run = "call" => prov = "live"
    /\ run \in {"loop", "tool"} => prov = "none"
    /\ prov # "none" => prot = wd
    /\ table # "empty" => run \in {"none", "final", "flush"}

Resting == run \in {"none", "final", "flush"}

(* Calls are unanswered, and a submission stands, only where no request can  *)
(* follow before they are closed.                                           *)
LegalInv ==
    /\ talk = "calls" => \/ run = "tool"
                         \/ run = "loop" /\ phase = "handling" /\ resp = "tools"
                         \/ Resting /\ table # "empty"
    /\ sub => Resting \/ (run = "loop" /\ phase = "autosaving")

(* a snapshot that knows all the session has spent *)
Knows(x) ==
    /\ x.used = used /\ x.steps = steps /\ x.resv = resv
    /\ x.wd = wd /\ x.att = att /\ x.spare = spare

(* From the end of a run to the next, the last write queued knows it. *)
RestInv ==
    (run \in {"none", "flush"} /\ epoch < MaxRestarts) =>
        IF frozen = <<>> THEN Knows(disk) ELSE due \/ Knows(frozen[1])

(* the host does not move the budget *)
FixedBudget == "control" \notin Events \/ Soft = Hard

(* The spend has reached the reserve of a budget nobody moves. *)
Near(u) == u >= Soft - Reserve

(* What every copy of the session keeps to: a turn within its limit, or one  *)
(* wound down, or a new one for which nothing is left to ask for.            *)
Within(x) ==
    /\ x.used \in Nat /\ x.steps \in Nat /\ x.stall \in Nat /\ x.low \in Nat
    /\ x.wd \in BOOLEAN /\ x.att \in 0 .. 2 /\ x.resv \in BOOLEAN
    /\ x.spare \in 0 .. 2
    /\ x.wd => "enforce" \in Events
    /\ ~x.wd => x.att = 0
    /\ x.wd /\ Near(x.used) => x.resv
    /\ x.wd => x.steps <= MaxSteps + x.att /\ x.spare <= x.att
    /\ ~x.wd /\ x.steps > MaxSteps =>
          /\ x.steps <= MaxSteps + 2 /\ x.stall = 0 /\ x.low = 0
          /\ Near(x.used) => x.resv
    /\ x.resv => Near(x.used)
    /\ ~x.resv => x.spare = 0

CopiesWithin == Within(disk) /\ (frozen # <<>> => Within(frozen[1]))

(* A request that is about to be sent has its step and, in the reserve, its  *)
(* share left; a turn that starts beyond the limit asks for nothing.         *)
LimitInv ==
    /\ soft = Soft /\ Within(Snapshot) /\ CopiesWithin
    /\ run = "loop" /\ phase = "calling" =>
          /\ steps < MaxSteps + (IF wd THEN att ELSE 0)
          /\ wd => spare < att
          /\ ~wd /\ "enforce" \in Events => ~Near(used)
    /\ ~wd /\ steps > MaxSteps =>
          /\ prov = "none" /\ run \notin {"call", "tool"}
          /\ run = "loop" => phase \in {"precheck", "autosaving"}

=============================================================================

# Formal model of OpenCollab

This directory holds TLA+ modules that model the core of OpenCollab
(`src/opencollab`), the TLC configurations that check them on small instances,
and theorems that the TLAPS proof system checks for every value of the
constants. `PROJECT.json` ties every definition to the lines it models, every
run to its properties, every property to a mutant of the model that violates it,
and every hazard of the code to the properties that would catch it.

## 1. Inventory of the system

OpenCollab runs teams of language-model agents in one asyncio event loop. An
agent is a *session*: a conversation, a phase machine and a run loop that
alternates model calls and tool batches. A *scheduler* owns the sessions of a
team: it spawns children, joins their results, passes messages, shares one token
budget, and ends, cancels or cleans up a turn.

| # | Component | State | Operations | What is hard |
|---|-----------|-------|------------|--------------|
| 1 | Session run loop (`application/session_run.py`, `_session_run_completion.py`, `session.py`, `domain/session.py`) | phase, step count, messages, pending rows, in-flight provider call | precheck, model call, tool batch, suspend, resume, autosave, stop, fail | a provider call that outlives its caller; limits, cancellation and the wind-down between any two awaits |
| 2 | Deferred fork/join (`scheduler_lifecycle.py`, `_scheduler_run.py`, `_scheduler_cleanup.py`, `scheduler_dedup.py`, `domain/pending.py`) | driver tasks, spawn routes, in-flight identities, committed deliveries, pending rows | spawn, rollback, drive, deliver, wake, run_turn, settle, cleanup | completions racing suspension, cancellation, shutdown and restart |
| 3 | Team budget (`_scheduler_persistence.py`, `domain/scheduler.py`) | leases, baselines, reservations of draining calls, session limits | reserve, release, restore, split, cap | concurrent spenders, late usage, failed turn starts |
| 4 | Teammate messaging (`scheduler_messaging.py`, `_scheduler_stop_notice.py`) | per-agent inbox, seen ids, holds, unanswered senders | send, drain, hold, restore, stop notice | at-least-once restore, batches cut by size, delivery racing a turn |
| 5 | Declared team (`_scheduler_team.py`) | seats, captured and adopted changes | prebuild, roll back, capture, adopt, restore | failure half way through the roster; a coder that works on after it finished |
| 6 | Review loop (`self_collaboration.py`, `_scheduler_review.py`, the turn gate) | review rounds, serialized turns | spawn_with_review, suspend, resume | a gate held across a join |
| 7 | Tool execution (`tool_execution.py`, `tool_execution_runtime.py`, `domain/tool_loops.py`, `adapters/tools`) | call hashes, loop state, owned cleanup tasks, revoked environments, files and their locks | execute, time out, deduplicate, defer, edit | a timed-out tool that still runs; a cancelled edit that still lands |
| 8 | Workflow engine (`workflow*.py`, `bootstrap/authored_workflow*.py`) | budget, concurrency permits, task slots, candidates, child processes | agent, parallel, pipeline, candidates, authored workflows | parallel branches sharing a budget; partial failure |
| 9 | Run control and persistence (`run_control.py`, `async_timeout.py`, `autosave.py`, `bootstrap/*workflow_runtime*.py`, `adapters/storage.py`) | autosave queue, journal, snapshots, the owner of a run | save, append, replay, restore, shut down | crash between journal and snapshot; work that outlives its run |
| 10 | Context shaping and steering (`application/shaping`) | message history, steering state | compact, truncate, nudge | pairing of calls and results |
| 11 | Environments (`adapters/_env_*.py`, `worktree_pool.py`, `candidate_workspace.py`, `docker_isolation.py`, `vm_isolation.py`) | worktrees, containers, processes, leases of machines | acquire, release, apply, abort, reset | cancellation during acquisition; commands that take effect after they failed |
| 12 | LLM providers (`adapters/llm`) | slots, streams, retries, usage | admit, complete, stream, account | streams that break half way; retries |
| 13 | Front ends and wiring (`adapters/cli`, `adapters/tui`, `bootstrap`, `sdk`) | configuration | build, render | mostly data and I/O |
| 14 | Built-in workflows (`builtin_workflows`: duo, reconstruct, weave) | rounds, artifacts | scripted agent calls | fan-out with partial failure |

Components talk by direct calls inside one event loop. The interleaving is that
of tasks at their awaits: the driver task of every agent, the task of the public
turn, provider tasks that outlive their caller, and the cleanup.

What makes each component correct, and which hazards threaten it, is listed in
`PROJECT.json` under `hazards`.

## 2. Modules

| Module | Models | Used by |
|--------|--------|---------|
| `DeferredJoin` | component 2 and the part of component 1 it needs | `MCDeferredJoin`, `DeferredJoinProofs` |
| `SessionRun` | component 1, with the run control and the autosave of component 9 | `MCSessionRun`, `SessionRunProofs` |
| `ToolExchange` | the calls, rows and results in the history of component 1, with restore | `MCTeam` |
| `ContextShaping` | component 10: the shaped view of a history | `MCTeam` |
| `TeamBudget` | component 3 | `MCTeamBudget`, `MCTeam`, `TeamProofs` |
| `Messaging` | component 4, with the autosave and restart of component 9 | `MCMessaging`, `MessagingProofs` |
| `DeclaredTeam`, `TeamAdoption` | component 5: seating the roster, adopting a coder's work | `MCTeam`, `TeamProofs` |
| `ReviewTurns` | component 6: the turn gate and the review loop | `MCTeam`, `TeamProofs` |
| `ToolRuns`, `RepeatedCalls`, `FileEdits` | component 7: running and stopping tools, the guard against repetition, the file tools | `MCAdapters`, `MCTeam`, `AdapterProofs` (`ToolRuns`), `RepeatedCallsProofs` |
| `WorkflowCalls`, `WorkflowCollections`, `CandidateRuns` | component 8: calls, `parallel` and `pipeline`, candidates | `MCWorkflow`, `MCAdapters`, `WorkflowProofs` (`WorkflowCalls`, `WorkflowCollections`), `AdapterProofs` (`CandidateRuns`) |
| `AuthoredWorkflows` | component 8: a workflow that a member wrote, in its own process | `MCWorkflow`, `WorkflowProofs` |
| `RunLifecycle` | component 9: the owner of a run and its bounded shutdown | `MCWorkflow`, `WorkflowProofs` |
| `SnapshotJournal`, `DurableSnapshot` | component 9: base snapshot and journal, and the abstract store they implement | `MCAdapters` |
| `IsolatedWorkspace`, `EnvironmentPool`, `ContainerCommands`, `RemoteOperations` | component 11: worktrees, the pool, Docker, virtual machines | `MCAdapters`, `AdapterProofs` |
| `ProviderRequests` | component 12: admission, attempts, streams, usage | `MCAdapters`, `AdapterProofs` |
| `WeavePlan`, `WeaveRuns`, `DuoRuns`, `Reconstruction` | component 14 | `MCTeam`, `TeamProofs` |

A definition that models a plausible bug (a dropped guard, a missing reset) is
preceded by a comment that starts with *mutant*; no action uses it. It replaces
the definition `PROJECT.json` names when a property is tested for its bite.

The conjuncts that only a proof needs are defined at the end of the module they
are about, in a section of their own, so that TLC can check them; the proofs are
in the eight `*Proofs` modules, of which `SumProofs` has the facts about sums over
finite sets that `TeamProofs` and `WorkflowProofs` cite.

`MCTeam`, `MCWorkflow` and `MCAdapters` each hold several modules that share no
state. A variable `part`, chosen in the initial state, says which of them a
behaviour is about; the actions of the others are off and their variables stay as
they started. Such a run is the disjoint union of the state graphs of its parts,
and each of its properties is about one or two of them.

### DeferredJoin

One action is the code between two awaits of one task.

* `phase`, `steps`, `turns` are `SessionState.phase`, `step_count` and the turns
  a session accepted. The four phases between two tool batches are one value,
  `running`.
* `pc`, `drivers`, `creq`, `resumeCb` are the driver task of an agent
  (`_tasks`): where `_drive_agent` stands, how many such tasks are alive, whether
  `task.cancel()` was called, and whether `_resume_after_parent_task` is
  registered as its done callback. `drivers` is counted rather than derived, so
  that a second task would be seen.
* `rows`, `ref`, `cur`, `stage`, `kid` are `pending_events` of a session and the
  progress of its batch through `_execute_deferred_tools` and `spawn`.
* `par`, `origin`, `key`, `nextAid` are `parent_aid`, the union of
  `_startup_origin` and `_spawn_origin`, the in-flight identity and the next aid.
* `committed`, `shutting`, `clean`, `owned` belong to cleanup
  (`_delivery_committed`, `_shutting_down`), `turn`, `cancelEv`, `settling`,
  `subtree`, `held` to the public turn of agent 0 and to
  `_settle_cancelled_suspended_turn`.

| Action | Code |
|--------|------|
| `StartTurn`, `RestoreTurn`, `RestoredCancelled`, `EndTurn`, `StallTurn` | `run_turn`, `_run_turn_exclusive`, `_wait_for_restored_turn` |
| `EnterGate`, `EnterLoop`, `Generate`, `IllegalTransition` | `_drive_agent` up to the run loop, `run_loop`, `_prepare_turn`, `precheck` and `run_llm_call` |
| `IssueCall`, `RefuseSpawn`, `ReserveSpawn`, `RegisterChild`, `StartChild`, `RollbackSpawn`, `RecordResult`, `FinishBatch`, `BatchFails` | `execute_pending_tools` and `spawn`, split at the two awaits of `spawn` |
| `Return`, `CheckpointFails`, `DiffFails`, `DiscardLate`, `Deliver`, `EndDrain` | the closing checkpoint, the end of `_drive_agent`, `_deliver_to_parent`, `_wake`, `_recover_delivery_route` |
| `Killed`, `Cancelled`, `Swallow` | a cancelled task: never entered, past the handlers, inside the `try`, or swallowed by a model call or an event sink |
| `SettleBegin`, `SettleEnd` | `_settle_cancelled_suspended_turn` |
| `CleanupBegin`, `CleanupEnd` | `cleanup`, `_cleanup_impl`, `_finalize_cleanup_failure` |
| `MessageTurn` | the turn a queued teammate message starts |

The lock that `_wake` takes per parent guards a block without an await, and the
lock is never contended while the row it fills is pending; the block is one
step. Immediate tools are not told apart: their rows are filled when the batch
ends. Public turns run on agent 0. A driver that drains its own inbox and starts
its next turn hands its place to the new task; what is left of the old one
touches no state of the model.

### TeamBudget

Tokens are natural numbers, the cost of a generation is any number up to
`MaxCost` (the estimate of a request may undercount, so the limit is not a bound
on the response). `lease`, `held`, `limit` are `_turn_lease` with its baseline,
`_pending_provider_budget_leases` and `max_budget_tokens` of a session; `over` is
a history variable, the tokens spent beyond the spender's own lease, which the
pool property needs to say what bookings are *not* responsible for. `boot` and
`saved` are a spawn between its reservation and its start or rollback. The floor
of a dynamic share (10 000 tokens in the code) is the constant `ShareFloor`.

### Messaging

The team is declared and complete, messages are numbered in the order they were
accepted, and a notice is a message with `about` set to the exchange it closes.

* `inbox`, `side`, `hist`, `ext` are `_message_inbox`, the `delivery_status` of
  `pending_user_messages`, the ids in the message history and
  `pending_external_user_turn`. Message text, roles, byte sizes and the topology
  are left out; an inbox and a delivery have a maximal length.
* `job`, `todo`, `wait` are the driver of an agent and the rest of its loops over
  inboxes and exchanges. `tails` are drivers that delivered a message to their
  own session: `_start_agent_task` replaced them in `_tasks`, and they go on to
  sweep. Such a tail may drain any inbox and settle any exchange, in any order
  and number, which includes what the code does.
* `app`, `by`, `batch`, `saved` are the append in progress
  (`_message_delivery_tasks` and the local variables of `_append_user_turn_txn`):
  its kind, its task, the length of its prefix and the phase of its checkpoint.
  An append of a message also stands for the lock of the recipient.
* `unans`, `hold`, `owner`, `seats`, `funded` are `_unanswered`,
  `_cancelled_turn_inbox_holds`, the sessions with a provider call that outlives
  its driver, the roster, and whether `_reserve_message_budget` succeeds.
* `disk`, `dirty`, `epoch` are agent 0's snapshot, the pending generation of its
  autosave and the restarts so far. `answered` is a history variable.

| Action | Code |
|--------|------|
| `Send`, `NotifyNext`, `TailNotify`, `TurnNotify` | `send_message`, `notify_unanswered_senders`, each with the delivery it attempts under the recipient's lock |
| `FinishDelivery`, `AppendFails`, `FinishUser` | the end of an append, or its rollback |
| `EnterLoop`, `EndRun`, `Finalize`, `NotifyDone`, `OwnDrain`, `Sweep`, `SweepDone` | `_drive_agent` and `_drain_ready_message_inboxes` |
| `TailSweep`, `TailDone` | the rest of a replaced driver |
| `StartTurn`, `TurnDrain`, `AcceptTurn`, `WaitDone`, `EndTurn`, `TurnSweep`, `StallTurn` | `_run_turn_exclusive`, `_wait_for_restored_turn`, `_wait_for_scheduler_progress` |
| `Save`, `Shutdown`, `Kill`, `KillTurn`, `Crash` | the autosave worker, `_cleanup_impl`, and `restore` with `_restore_message_inbox` |

`RequestCancel`, `OwnerSettles` and `SpendAll` are the user, the provider and the
spending of the rest of the team.

### SessionRun

One session with its host, its provider and its autosave. Tokens are counted in
units; a request reserves one unit of input and one of output, and a call costs
any member of `Costs`, more than its reservation if it likes.

* `phase`, `run` are `SessionState.phase` and where the task of `run_loop` stands:
  between steps, in a provider call, in a tool batch, before or in its closing
  checkpoint.
* `used`, `steps`, `soft` are `used_tokens`, `step_count` and `max_budget_tokens`.
* `wd`, `att`, `resv` are `wind_down_done`, `wind_down_attempts` and
  `budget_reserve_consumed`; `stall`, `low`, `unk`, `blk` the progress counters of
  the turn, cut at the limits they are compared with.
* `talk`, `sys` abstract the message history to the kind of its last message that
  is not a system message, and whether a system message follows it. `calls` is an
  assistant message whose tool calls have no results.
* `resp`, `allow`, `retried`, `corrected` are the pending response, the tool
  allowlist of steering and the two retries that are granted once.
* `table`, `sub`, `ext` are the pending rows, `submitted_summary` and
  `pending_external_user_turn`.
* `prov`, `prot`, `try` are the provider task (live, or draining after its caller
  left), its `protected_call` and which attempt of the call it is.
* `frozen`, `due`, `disk` are the snapshot being written, the queued generation
  and the file. `spare` is a history variable: the requests that were paid from
  the reserve. It is part of the snapshot, so that it counts what the restored
  session can know of.

| Action | Code |
|--------|------|
| `AddUserMessage`, `StartTurn`, `ResumeTurn`, `WaitForRows` | `add_user_message`, `run_loop`, `_prepare_turn`, `_resume_from_awaiting` |
| `PrecheckStop`, `PrecheckFail`, `PrecheckPass`, `PrecheckRetry`, `PrecheckWindDown` | the outcomes of `precheck` and `_apply_enforcement_gate` |
| `Request`, `RequestStop`, `RequestFail` | `run_llm_call` up to the provider: `_prepare_request_budget`, `_request_output_limit`, `_start_llm_step` |
| `ReplyAccepted`, `ReplyRefused`, `CallRetried`, `CallStopped`, `CallFailed`, `CallTimeout`, `LateResult` | the end of a provider call, its fallbacks in `_complete` and `call_llm`, and a call its caller has left |
| `HandleTools`, `HandleCorrect`, `HandleEmpty`, `HandleEnd` | `handle_pending_response` |
| `ToolsDone`, `ToolsFail`, `Autosave` | `execute_pending_tools`, `_close_failed_tool_exchange`, `autosave_pending_step` |
| `Kill`, `Finish`, `Return`, `WriteDone`, `Crash` | `Session.run_loop`, `_checkpoint_terminal_snapshot`, the autosave worker, `restore` |
| `CancelEvent`, `Revoke`, `RowsFilled` | the host, the environment, the delegated work |

`RowsFilled` is what `DeferredJoin` models in full. Event sinks are taken to
return at once: no other task runs between the lines of a handler except at the
model call, the tool batch and the closing checkpoint.

### ToolExchange

The history of one session as a provider sees it. `talk` is `state.messages` with
the calls and results that matter, `table` the pending rows, `receipts` the
results of the running batch (`_loop_checkpoint_results`, with the step they
belong to), `stored` the last snapshot. A call has an id, which a provider may use
again in a later batch, and a number that nobody but the model knows: the result
of call *n* is *n*, so that a wrong answer is visible. A batch may be rejected as a
whole, hold calls that the gate of the step blocks, deferred calls, and a
submission that skips what follows; it may be stopped at any point (`StopBatch`,
`_close_failed_tool_exchange`) and a snapshot from any moment may be restored
(`Restored` is `_normalize_interrupted_snapshot_state`). A restored row whose child
died stays in its loop owner's `inflight` state until the next user turn; the loop
state is the matter of `RepeatedCalls`.

### ContextShaping

`log` is the transcript, which no layer may change, `view` the copy that the
layers rewrite one after the other: results capped, old output cleared, old
exchanges cut, the rest summarized (`_ReactiveShaper`, the pipeline and its
layers). `NothingVanishes` says that a message is shown, shown shortened, or part
of a summary. The eager layer is not in the default pipeline and is left out, as
are steering and the thinking prefix. The cache of summaries is keyed by the
messages themselves where the code hashes their contents.

### DeclaredTeam, ReviewTurns, TeamAdoption

`DeclaredTeam`: concurrent first turns, one of which seats the roster under
`_prebuild_lock` and rolls a partial roster back. `ReviewTurns`: the drivers of a
team in which one turn works at a time; `gate` is the lock, `turnHeld` what
`_SerializedTurn` believes of it, `review` the stage of `spawn_with_review`, which
gives the lock away while a coder and a reviewer run. `TeamAdoption`: a coder's
completions are versions, each contains the ones before it; the lead adopts one,
later the increment, while the coder may be woken, the delivery files change and
the caller is cancelled.

### WorkflowCalls, WorkflowCollections, RunLifecycle, CandidateRuns

`WorkflowCalls` has one record per call of a script: lease, permit, session,
outcome, and a cleanup task that keeps lease and permit when a session resists.
`WorkflowCollections` is `parallel` and `pipeline`, nested to any depth. `view` is the
permit a unit works under (the context variable, which its background tasks keep),
`seat` the slot of that permit, `use` the state of a slot, and `slotOf` says how a unit
came to it: a slot of its own, that of an extra worker, one it borrowed, or the permit
its own task entered again. Any unit may start its collection in a background task and
go on beside it or return, also on a borrowed slot; its permit is then closed while its
collection works on, and later units wait for the semaphore. A unit has one collection,
a cancelled unit does not swallow its cancellation, and a unit that finds the permit
closed takes a slot without queueing for `child_lock` first. `RunLifecycle`
is the owner of a run: what it waits for, cancels, aborts, saves and gives back,
and what the caller is told. `CandidateRuns` are attempts side by side, each in a
checkout of its own, with a source that others change; the contents of a source
never return to an earlier state (a bound of the model).

### AuthoredWorkflows

The child process and the host share a directory. `errand`, `dropped`, `answered`,
`served` are a request, its cancel mark, its reply file and the host's task for it;
`edit`, `holder`, `lease` are what the host lends; `driver` and `stopper` are
`_execute` and `_stop`.

### IsolatedWorkspace, EnvironmentPool, ContainerCommands, RemoteOperations

`IsolatedWorkspace` is one workspace from its setup to its cleanup, every step a
command that may fail, or fail after it took effect or part of it (a directory is then
`torn`). It says that what a capture was asked for is not taken before it is delivered;
edits nobody captured go with the workspace, in the code and in the module. `EnvironmentPool` lends such
workspaces to acquisitions that overlap with releases; `ReleaseEnv` is one step where the
code holds `_release_lock` and awaits the cleanup between its checks and the removal
(worktree_pool.py:344-363), so a review that depends on the workspace and is acquired in
that gap is not in the model. `ContainerCommands` tells the
docker client apart from the process group it started, and `RemoteOperations` the
controller apart from the guest it reaches by an unreliable wire.

### ToolRuns, RepeatedCalls, FileEdits

`ToolRuns` has, per call, the waiter, the tool's own task, the spawn on its way
from the operating system to the registry, and the process. `RepeatedCalls` has the
loop state of a turn, the batch's copy of it and the copy on disk. `FileEdits`
translates the engine of `apply_patch` and the file tools as operators on a text (a
sequence of lines, whether the last is terminated, the style of its breaks) and
checks them against definitions of their own: what an edit did is compared with
what the caller named, not with the engine's search.

### ProviderRequests, SnapshotJournal, DurableSnapshot

`ProviderRequests` tags every streamed item with the attempt it came from.
`SnapshotJournal` has the two files, the cursor of the session and the savers;
`JournalIsOneSnapshot` is `DurableSnapshot!SnapshotSpec` under the mapping
`durable <- Loaded`, `saving <- Frozen`, `promised <- success`: every step of the
detailed model leaves what a load would return alone or replaces it by a whole
state that some save froze and that is newer, never older than a reported one.

### WeavePlan, WeaveRuns, DuoRuns, Reconstruction

`WeavePlan` is the component search and the ordering of `plan_weave_groups`, frame
by frame, against reachability. `WeaveRuns` extends it with a run: sessions with
shares of the budget, checks, repair rounds, and a process that dies between two
saves. `DuoRuns` selects between two candidates by test records or a judge and
adopts one. `Reconstruction` is the loop of proposing, observing, coding, scoring
and promoting, with its patience counters.

## 3. Runs

| Run | Instance | Shows |
|-----|----------|-------|
| `join` | 3 agents, 2 calls per batch, 2 generations, 1 turn, 2 identities, exceptions | one driver per agent, single flight of an identity, no orphaned row or route, no lost wake; it stops only where a turn ends (deadlock is checked) |
| `join_turns` | 2 agents, 1 call, 2 turns, restore, cancellation, cleanup and exceptions together, agent 1 may swallow its cancellation | the join survives what an earlier turn left behind: a settlement closes the whole subtree, a batch drains whole, every public turn ends |
| `session_save` | budget of 4 units with 2 in reserve, calls of 1, 1 step, 2 user turns, 1 crash; enforcement, timeouts, kills, suspension | steps, attempts and reserve hold through late results, kills and restores; a session at rest is on disk |
| `session_calls` | soft budget 2, hard budget 5, calls of 0 or 3, 1 step, 2 user turns; run control and every failure of a call | one call at most on top of the hard budget; no request with open calls; every run ends |
| `session_retry` | as `session_save` with 3 steps and 1 turn, without timeouts and kills | a violation, see the findings |
| `budget_dynamic` | 3 agents, 6 tokens, shares of at least 2, calls of at most 2, 2 turns each | bookings never oversubscribe the pool; the overshoot is bounded |
| `budget_lease` | 3 agents, 8 tokens, calls of at most 3, 1 turn each | a violation, see the findings |
| `msg_team` | 2 agents, 4 messages, inboxes and batches of one, 1 turn; cancellation, timeouts, late provider calls, an empty budget | a sender is told once, whoever notices first; nobody is left waiting (deadlock is checked: a stall means no tokens) |
| `msg_crash` | 2 agents, 2 messages in one batch, 2 turns; cancellation, timeouts, cleanup, a failing capture, one crash | inbox, sidecar and history agree; nothing durable is lost or read twice |
| `team` | the eleven parts of `MCTeam` | caps of seats; whole rosters; serialized turns and reviews; exact adoption; whole and faithful transcripts; sound searches (duo, reconstruct); sound plans and runs of weave; sound edits of files |
| `workflow` | the four parts of `MCWorkflow` | calls, collections, the end of a run, authored workflows; every part ends |
| `adapters` | the nine parts of `MCAdapters` | workspaces, pool, candidates, requests, tools, repeated calls, containers, machines; the journal implements one durable snapshot |

### Bounds

*Join.* Two children of one parent are needed for concurrent completions, three
agents for a chain (lead, child, grandchild) that a settlement has to close; two
generations for a batch and the answer after it; two turns for what a turn leaves
behind. `Events` chooses which outside events an instance has, so that each run
asks its question at a size TLC finishes. `Keys` are symmetric in the run without
temporal properties.

*Session.* A budget that leaves room for one ordinary call before the reserve and
two in it, calls that cost nothing (they alone do not bound the loop) and calls
that cost more than they reserved, two turns because a turn resets the wind-down
but not the accounting, one step before the wind-down adds its two, and one crash.
Progress limits are one: what matters is which counter has reached its limit.

*Budget.* Shares, caps and the last tokens of a lease are all smaller and larger
than one generation. `MaxTeamTurns` bounds the turns of all agents together.

*Messages.* Four ids for the races around a full inbox (two messages and the
notices they cause), two messages for the order of a batch, two turns for what a
cancelled turn holds back, and one crash: a restart reads only the snapshot, so a
second one meets nothing the first did not.

*Suites.* `team`, `workflow` and `adapters` are disjoint unions (see `part`). Each
part is bounded so that its own hazard happens: three first turns that race to seat two
roles, with three faults; three children, two iterations and a wake of a review; two
versions and three runs of a coder; a transcript of four exchanges that outgrows the
limit; three groups of weave with a restart; two editors of one file with a command in
between; workflows of two and three calls that share one permit and a pool of two,
with a nested flow in one script; a tree of seven units over two task slots with one
background collection on a borrowed slot and one queue for a slot, and one error or
cancellation; two
candidates, one of which runs a flow of its own; a command beside a tool of every
kind; two views of one container; an operation and a reset of one machine with lost
and repeated commands. Larger instances of the same parts were
checked by hand: `ReviewTurns` with two turns of the lead (591 000 states),
`TeamAdoption` with two coders (1.5 million), `ContextShaping` with five groups
(90 000), `WeaveRuns` with two commands (605 000), `WeavePlan` with four groups
(60 000), `FileEdits` with two edits for the second editor (231 000),
`RemoteOperations` with two resets (510 000) and with two operations (5.7 million).

### Fairness

`DriverStep(a)`, `TurnStep`, `CleanupEnd`, the end of an append and the return of
a provider call are weakly fair, in `SessionRun` the driver, the provider, the
tools and the write of a snapshot, in `MCWorkflow` the engine's own steps
(`MCStep`): asyncio runs every ready task, model and tool calls are bounded by
timeouts, and the cleanup by its own. Nobody owes a user turn, a cancellation, a
teammate message, a host's decision or a cleanup, so these have none, and a task
that resists its cancellation is never made to end. The built-in workflows,
`Messaging` and the adapters state no liveness.

### Findings

`budget_lease`: `spawn` gives the parent's lease back and its comment says the
parent gets a fresh one when its complete batch wakes it. When every child answers
before the parent reaches the end of its batch the parent is never suspended and
never woken: it goes on without a lease. The spend itself stays bounded by the
session limit and by the precheck of the aggregate (`TeamOvershootBounded` holds
on the same model).

`session_retry`: the counter that bounds the protected calls of a turn is
described as durable, so that a restore cannot grant the retry again. A reserve
that the first protected call takes is saved beforehand; the retry is allocated
in memory only and nothing is saved before the call returns. A crash during the
call restores the session with one attempt.

### Observations

Behaviours met while modelling that no text of the repository rules out:

* *Session.* A restore puts the soft budget back to its initial value. When a host
  had raised it, the restored session finds its reserve spent anew and winds down a
  second time: with `"control"` in `Events` and one restart TLC reaches more steps
  than `StepLimitHolds` grants, and with `"control"` alone each raised budget's
  reserve can be used by its own protected calls. `LimitsHold` is therefore stated,
  checked and proved for a session whose host leaves the budget alone.
* *Saves.* An autosave that fails is only logged and counted, and not tried again before
  the next event (autosave.py:108-122); the checkpoint at the end of a turn raises
  (session.py:450-455). `SessionRun` and `Messaging` have disks that work: `WriteDone`
  and the saves always succeed, so what they show of a session at rest holds of writes
  that do.
* *Messages.* A message that waits for a cancelled session is held for the next
  public turn. A sweep that ran before the hold was set has skipped the notice for
  its sender, and no later sweep is due in that turn: the sender hears nothing until
  then. Held messages are left out of `NobodyIsStranded`.
* *Team.* A reviewer's workspace is built after the check that its coder is done, so
  a woken coder may change the tree under review. A cancelled rollback leaves half a
  roster, but the cancelled turn shuts the scheduler down. A retained adoption
  candidate loses its retention when its coder completes again.
* *Weave.* A crash during a repair round leaves a row without `stagnant_rounds`, so
  the counter restarts at 0 (rounds stay bounded); the extension of a deadline is
  counted per solve, so a new session may get one for progress of an earlier one;
  changes of a crashed session are attributed to no group, and only the full check at
  the end covers them.
* *Reconstruct.* With `early_stop = 1` a memorizing pass whose patience is used up
  ends the run; a leftover candidate file is archived when the coder writes nothing;
  a simple program with a mistake may beat a right one by its penalties.
* *Shaping.* The fallback excerpt of `ReadTimeSummarizer` is discarded by
  `_cache_summary`.
* *Files.* A directory that fails to sync after the rename makes the tool report an
  error although the text is published; `str_replace` on a missing file raises.
* *Tools.* An abandoned process that cannot be killed is known to nobody; a queued
  write still lands after a revocation (the sweep waits for it); a command may start
  briefly after its call was answered "timed out".
* *Providers.* A whole response that cannot be parsed loses its usage.
* *Environments.* Only what was asked for is kept: `cleanup` refuses while a capture is
  owed (a plain copy, while its last export lacks a change), and otherwise removes a
  worktree with every edit nobody has captured. `abort` does the same, also when a turn
  whose tools did not come to rest is given up (tool_execution_runtime.py:377-405).
  `retain_changes` of a candidate or a container gives a location without asking
  whether anything is there, also after the workspace is gone, and later cleanups then
  refuse for ever. A capture after a removal that failed half-way reads the remains and
  settles the debt; a plain copy torn that way differs from its export, so its cleanup
  keeps refusing.
  A worktree whose claim or add was interrupted is left behind, and a
  container lease that somebody else moved makes cleanup fail every time. A `docker
  run` that never made a container leaves cleanup failing for ever; a wrapper's exit
  125 is given as the command's own; the end of the docker client is taken for the
  end of the command. A worker killed before `started.json` leaves its operation
  "preparing" until the caller cancels.
* *Collections.* More units than `task_concurrency` may be at work, although
  workflow.py:143-146, sdk/client.py:433-434 and opencollab/README.md:140 call it a limit
  on active units: a unit that starts its collection in a background task works on beside
  the unit that borrows its slot (workflow_collections.py:60-63), and when it returns on
  a slot it has borrowed itself, the lock is free and its siblings borrow that slot too.
  TLC finds three units at work on two slots on a tree of five. `SlotsAreKept` states
  what the code does keep: the excess is at most the number of units on a slot borrowed
  under a background task (`Loose`); without one the limit holds.
* *Authored workflows.* An unwritable reply file leaves the child waiting until it is
  stopped; an environment that arrives for a cancelled acquire stays until the run's
  end.

## 4. Proofs

The theorems hold for every value of the constants that meets the named
assumptions. Each rests on an inductive invariant of named conjuncts: the initial
states satisfy it, every action keeps it, it implies the property. The invariants
of this section are in the modules they are about, except `SpendInv`
(`SessionRunProofs`) and `PoolShape`, `PoolBooks` (`TeamProofs`); TLC checked each of them on the instances of the runs, and
some on larger ones, before it was proved.

| Theorem | Inductive invariant and argument |
|---------|----------------------------------|
| `TypeCorrect`, `OneDriverAtATime`, `DedupSingleFlight` (`DeferredJoin`) | `TypeOK`, `JoinInv`, `SingleFlight`. `OneDriver` says nothing about *why* a second driver cannot start: `DriverCount` ties the count to the position of the driver, `StartupIsFresh` keeps every other starter (wake, message turn, public turn) away from a child whose spawn is in progress, `UnallocatedIsFree` makes the next aid a fresh one. |
| `BatchesDrainWhole` (`DeferredJoin`) | an action property: `BatchIsFresh` says that a batch in progress has recorded nothing for the calls it has not issued, so rows leave the table only together, after each has its result |
| `NothingIsLeftDangling`, `NoWakeIsLost` (`DeferredJoin`) | `WorkInv`, until the scheduler shuts down. `HandFits`, `RefsNameChildren` and `PhaseFits` say what the call in hand, the table and the phase of a session owe its position; `OneRoute`, `RoutesAreOpen` and `OpenRowIsRouted` match open rows and routes one to one; `WorkFits` says that a route and an identity belong to a child that will still report; `SettlementIsClosed` that a settlement takes along everybody below, so nobody outside waits for one it closes. No wake is lost because a route leads from a session to a younger one: the youngest suspended session with an open row would wait for a child that is not suspended, and that child has a task. |
| `SettlementsAreWhole` (`DeferredJoin`) | `AgreeInv`, also while the scheduler is shut down. `RoutesStayOpen`, `OneRoute` and `TableFits` let a completion answer no row but the one that names its child; `EndFits` says that a driver that has not entered its loop when cleanup begins never will, so a phase it was given stays; `OutcomeIsFinal` that a success told to a row is `committed` when cleanup looks for what it owns. Until cleanup begins the parts about tables follow from `WorkInv`. |
| `DeclaredSeatCap` (`TeamBudget`) | `SeatInv`: no limit and no lease reaches beyond the cap of its seat, and whatever is in flight was started below it, so one generation is all that can come on top |
| `PoolIsNeverOversubscribed` (`TeamBudget`) | `PoolShape`, `PoolBooks`. `Committed` is what was spent, what live leases still promise and what leases handed over with a draining call promise; every step that books takes no more than is free without the booking agent, or than it had. `PoolBooks` keeps the baseline of a live lease at or below what its owner has used: with a baseline above it, spending would not be taken off the lease, and the same token would be promised twice. |
| `OvershootStaysBounded` (`TeamBudget`) | the property with `PoolShape` is inductive: a generation starts only below the total and by an agent that is not in flight (`PoolShape`: who generates has no draining call), and is paid once, live or late, so what was spent and what is in flight stay within one generation per agent |
| `SpendIsCovered` (`SessionRun`) | `SpendInv`: as long as a provider call is out, live or abandoned, its request still fits the hard budget, because nothing else is charged meanwhile and no run starts; the copies on disk and on their way to it are covered, which a restore needs |
| `RequestsStayLegal` (`SessionRun`) | `DriverInv`, `LegalInv`: calls are unanswered, or a submission stands, only at places of the loop from which no request follows before they are closed. It is the late result of an abandoned call, and a restore of any snapshot, that make this more than a look at the loop. |
| `RestsAreDurable` (`SessionRun`) | `RestInv`: from the end of a run to the next, the *last* write queued knows all that was spent. A write already on its way may be older; then another is due. |
| `AllowancesHold` (`SessionRun`) | `LimitInv`, under `FixedBudget` (the host does not move the soft budget, or there is no room above it). Every copy of the session, in memory, on its way to disk and on disk, is `Within` its turn's limit, or wound down with its attempts counted, or new with nothing left to ask for; a request about to be sent has its step and its share of the reserve left. Without the hypothesis the property is false, see the observations above. |
| `ReviewsAreSerial` (`ReviewTurns`) | `ReviewInv`. `TurnsAgree`: what the lead's turn believes of the gate (`_SerializedTurn`) is what the gate holds, also while a review has lent it, and a child works only under the gate; `ArtifactIsWhole` and `PassIsEarned` carry the coder's complete result to the reviewer and its verdict to the answer |
| `AdoptionsAreExact` (`TeamAdoption`) | `AdoptionInv`. A coder's completions grow (`CompletionsGrow`), a call works between the version adopted and the last completed one (`CallIsBetween`), and only between applying and recording is the delivery ahead of the record (`DeliveryIsRecorded`) |
| `RostersAreWhole` (`DeclaredTeam`) | `RosterInv`. `TeamOrNobody`: outside the lock the roster is empty or complete; under it `SeatsAreBuilt` says that the table holds the peers built so far and the one being announced. It assumes distinct roles, which the scheduler enforces. |
| `RunsEndClean` (`RunLifecycle`) | `LifecycleInv`. Whatever a caller is told, and whenever the environment is given back, the jobs that could still touch it are over or known; the two modes (workflow, agent) reach that by different orders, hence two conjuncts |
| `ChildrenAreContained` (`AuthoredWorkflows`) | `AuthoredInv`. `EditsAgree`: a file lock granted to a request that the child no longer waits for has been taken back before the request is answered; `LeaseGoesLast`: an environment is released only after every errand that could touch it is over; `PaymentsAddUp`: usage is paid before it is told, and read once, so what was read and what is still to be read never exceed what was paid. It assumes that the errands are finitely many and the lease is none of them. |
| `CollectionsStaySound` (`WorkflowCollections`) | `CollectionsInv`. `SlotsAddUp`: what is not taken adds up with the semaphore. `SeatsHold`: a unit with a slot of its own, or an extra worker's, has it alone, and a borrower's slot is not given back, because an owner that ends leaves it draining. `ViewsAgree`: the permit a unit sees, at any depth and after its owner is gone, names the slot it works on; a borrow through it therefore finds the slot taken (`PermitIsTaken`). The bound on units at work is a count of sets: units that took a slot inject into the slots held; of the others, one whose parent waits for its collection stands for that parent (`UnitsHold`), which has one such unit (`Inlined`); the rest are loose, their parent having left them to a background task. |
| `CallsKeepTheirLimits` (`WorkflowCalls`) | `CallsInv`. `SessionsHold` and `FlowsHold`: whatever executes or resists has a permit and a lease (its own or the escape), and a candidate workflow has its lease until its last call is over. The pool cannot be bounded by what is spent and reserved, since a session may spend beyond its lease; `ClaimsFit` counts for each call what it is entitled to (`Booked`: the lease while it is held, then what was spent of it), and for a candidate workflow its lease, or after it the bookings of its calls (`Claim`). Claims only fall, except by a new lease, which fits what is left (`NewLeaseFits`); spending and reservations exceed the claims by the overruns alone (`PoolClaims`). |
| `WorkspacesAreKept` (`IsolatedWorkspace`) | `WorkspaceInv`. `OwedIsGuarded`: no cleanup has got past its guard with something to deliver, so the two removals, which alone touch the directory of an agent that has worked, take only what was delivered (`TakesDelivered`), or what nobody asked for; `NothingForgotten`: the environment knows what it has to remove, through commands that take effect after they failed |
| `CandidatesAreWhole` (`CandidateRuns`) | `CandidateInv`. An attempt that has settled has no agent any more (`AttemptIsQuiet`), so what is captured is all its work (`CaptureIsWhole`); a checkout lies between what was read before it and what is there now (`SourceMovesOn`), so equal ends mean that nothing moved in between |
| `ToolsLeaveNothing` (`ToolRuns`) | `ToolsInv`. `ProcessIsHeld`: a live process is in the registry or known to the handoffs of its spawn, unless it cannot be killed; `SweepHolds`: what a sweep has emptied stays empty, since nothing starts in a revoked environment |
| `AttemptsStayApart` (`ProviderRequests`) | `RequestsInv`. Streamed items carry the attempt they came from; `CollectedApart`: what is collected is of the attempt in progress, and all of it once its end has come; `LedgerAddsUp`: the usage recorded is that of all attempts, the failed ones included |
| `MachinesAreSound` (`RemoteOperations`) | `RemoteInv`. A lost answer does not tell whether a command took effect: `UnsentIsUnknown`, `WorkerIsFirst` and `FinalIsLast` order what the guest can have done; `ForgottenIsFinal` and `CleanMissesNothing` say that whatever the controller stops tracking is over. It needs operations and resets to have different names. |
| `EnvironmentsAreKept` (`EnvironmentPool`) | `PoolInv`. `MadeIsKnown`: what was made is on the pool's list or in the hands of its acquisition, nothing is made during a sweep, and what a sweep without a failure has left is still on its way; `AcquisitionsFit`, `SourcesLive`: nothing starts from an environment that is still being made, and none is torn down while another depends on it; `BeforeRelease`: until the first release the references of an environment are exactly its users, so the one that tears it down is the last. It assumes that an acquisition starts from an environment its pool built or from the base, not from a share of one. |
| `ContainersAreSound` (`ContainerCommands`) | `ContainerInv`. `GroupsAreTold`: a group outlives its command only when the caller was told of a failure, or that it is not quiet, and then in a revoked view; such a command is in `left`; `LockIsHeld`, `EditsAreKept`: an editor holds the lock from its read on, so while `left` is empty no update is lost; `ContainerIsKept`: a container that runs has a name the owner knows |
| `ExtraRunsStayPaid` (`RepeatedCalls`) | `LoopsInv`. The loop state exists up to three times, in the session, in the batch and on disk, and a crash or a failed save puts one in the place of another. Each copy `Knows` of every extra run enough that it cannot grant it again: its row shows the edit it was paid with, or the row is gone and so is every trace of the operation in the window. It assumes a limit above 1 and a window that is not empty; the code has 3 and 200. |
| `ExchangesSettleOnce` (`Messaging`) | `SettleInv`. `ExchangesAreOpen`: an open exchange is a message already sent that no reply has answered and no notice is about, and it is open for one pair of agents only; so a notice, which closes it under the recipient's lock, is the first and the last word on it. A drain, a restart and a lost race only drop exchanges (`OnlyDrops`). |
| `AppendsAreExclusive` (`Messaging`) | `AppendsAreAlone` with `SettleInv`: beside an open append no driver of the session is alive but the one that drains its own inbox |
| `DeliveriesAreEarned` (`WeaveRuns`) | `WeaveInv`. Spending is known three times: what was paid, what the process has observed and what was saved. `PaidIsSeen` says that they differ by one request of each process at most, so a session that is opened with what is left by the saved count (`PaidFits`) cannot exceed the budget by more, over any number of continuations. `RestIsLeft`: the share of a group leaves the ones after it their minimum, as long as none passed its own; `CheckIsCurrent`: nobody writes between the last check and the report on it, since an agent that is left behind ends the run as an error. |
| `SelectionsAreEarned` (`DuoRuns`) | `DuoInv`. `JudgedAreTied`: the judge is asked only where the tests refute neither candidate or both; `ChoiceIsEarned`: a choice keeps its reason after it was made; `AdoptionInOrder`: what was tried and what was taken follow the choice, in a source nobody has edited |
| `ReconstructionsAreEarned` (`Reconstruction`) | `RecInv`. A counter of passes says nothing about which passes it counts: `CountedUpTo` names the rounds behind it, each with less known than the next, and all with less than is known now, or than will be known once the batch that is owed is filled; a batch cannot be filled without growing what is known, since the random share and the proposal are taken off the same number. `UnderJudgement` ties the last pass to the program judged, so the count reaches `early_stop` with a memorizing program only if one pass is enough. |

Sums over agents and calls are folds (`SumFunctionOnSet`), and the library's
induction theorems take an operator as a parameter. `SumProofs` goes round them: the
table a fold is computed from exists for every finite set and is unique, by a
counterexample on a smallest set (`LeastNumber`, `SmallestSet`, from the library's
`WFMin`), which needs no operator; from the table follow how a sum changes with one
summand (`SumChanges`), grows (`SumGrows`), adds up (`SumAdds`) and is grouped
(`SumByGroup`).

The proofs brought corrections of the model. In `Messaging` the public turn decided
to accept the user's message where it drained the inbox; the code decides after the
drain has published its events, when another task may have started a driver, and
the proof of `AppendsAreExclusive` could not get past that step (`AcceptTurn` looks
again now). The decision of what a finished run
reports (`Verdict` in `RunLifecycle`) was a `CASE` whose guards overlapped, which
TLC resolves by order and TLA+ does not; it and four other definitions of that form
are conditionals now, as the `if`/`elif` chains they translate. `RemoteOperations`
got the assumption it had used silently, and the hypothesis of `AllowancesHold` was
found the same way. In `EnvironmentPool` a guest of the run's own environment had no
place in the reference counts, and an owner whose release failed kept its count, which
the code sets to one before it tries; neither was visible on the instance of the run.
`WorkflowCalls` states its sums with `SumFunctionOnSet` now, over
sets of calls that are assumed finite.

Only model-checked:

* liveness (`TurnEnds`, `RunEnds`, `EveryPartEnds`) and everything with `ENABLED`:
  out of the prover's reach;
* the refinement `JournalIsOneSnapshot`: what a load returns is the replay of the
  journal, a recursion over its lines; likewise the transcript properties of `ToolExchange` and
  `ContextShaping`, the search of `WeavePlan`, and the file
  engine, which are recursion over data;
* the order of the inboxes (`DeliveredInOrder`, `SidecarMirrorsInbox`, `NothingLost`):
  `SelectSeq` is a recursion over data; `NobodyIsStranded` is about what a last sweep finds in all inboxes at once, and
  rests on the former.

## 5. What is not modelled, and the plan

Not modelled at all: the front ends and their configuration (rendering, flags, wire
formats), the ports and trace events (declarations and wording), the ARC-Bench
example.

Left out of components that are modelled:

* *Session, history, shaping.* Summary calls and the recovery of a thinking prefix,
  the eager layer, steering prompts. Cached summaries are keyed by the messages
  themselves. A restored row whose child died stays `inflight` until the next user
  turn.
* *Team.* The leases of a review; adoption across a shared workspace and physical
  patches. A declared team is complete in `Messaging`. `OneWorks` of `ReviewTurns`
  leaves shutdown out.
* *Storage.* The hashes of results already seen; one session per path.
* *Workflows.* Launch permission, budget checks and artifacts of authored workflows;
  an `aclose` that raises there skips the accounting of bridge tokens. A source's
  contents never return to an earlier state in `CandidateRuns`. `_affected`,
  heartbeats and seconds of weave. A change of the source between the comparison and
  the adoption of duo is the matter of `CandidateRuns`.
* *Environments.* Uploads, exports and edit locks of a virtual machine; a lease that
  stays retained after its reboot. The property of draft findings does not look at a
  revoked environment, and a session built after its call entered checks no
  revocation. `CleanLeavesNothing` excludes containers.
* *Files.* Byte order marks; blocks are whole lines; a break in a file of mixed breaks
  counts as one character; `new_start` of a hunk header.

The plan, most important first:

1. `ForkJoin`, an abstract join (a parent sees each child's result once and goes on
   when all are in), refined by `DeferredJoin`.
2. The leases of a review in `TeamBudget`; summary calls in `SessionRun`.

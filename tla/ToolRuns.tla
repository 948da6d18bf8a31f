------------------------------ MODULE ToolRuns ------------------------------
(***************************************************************************)
(* Tool calls running in one host workspace: tool_execution_runtime.py over *)
(* _env_local.py and _env_process.py.  A call runs a command or writes a    *)
(* file.  The one who waits for it may time out or be cancelled; it then    *)
(* cancels the tool, gives it a grace, and if the tool is still there it    *)
(* revokes the environment and aborts it.  A command has a deadline of its  *)
(* own, and a process may appear after its caller has gone.  An abort stops *)
(* every process of the environment, the ones being spawned by other calls  *)
(* included, and waits for the files being written.                         *)
(***************************************************************************)
EXTENDS Naturals, FiniteSets

CONSTANTS
    ToolCall,      (* the calls: several sessions may share the workspace *)
    Kinds,         (* what the calls may be, see kind *)
    FileSlots,     (* _FILE_IO_CONCURRENCY *)
    MaxCleanups    (* bound: cleanups of the environment by its owner *)

VARIABLES
    kind,        (* write: a file; command; wild: a command whose process group
                    outlives the grace after SIGKILL *)
    waiter,      (* execute_tool: idle, wait, grace, abort, answered *)
    task,        (* the tool's own task *)
    told,        (* calls whose task has been cancelled *)
    spawn,       (* ProcessRegistry.spawn of the call: none, factory, made, over *)
    late,        (* spawns whose caller has gone *)
    proc,        (* the command's process group: none, alive, dead *)
    registered,  (* ProcessRegistry._processes *)
    handoffs,    (* ProcessRegistry._handoffs, by call *)
    revoked,     (* the environment; the registry is revoked by an abort *)
    shut,        (* ProcessRegistry._revoked *)
    sweep,       (* each abort or cleanup: none, handoffs, kill, files, ok, failed *)
    bad,         (* sweeps that could not prove the processes gone *)
    cleanups

toolVars == <<kind, waiter, task, told, spawn, late, proc, registered, handoffs, revoked,
              shut, sweep, bad, cleanups>>

Sweeper == ToolCall \cup {"owner"}

Writes     == {c \in ToolCall : kind[c] = "write"}
Unkillable == {c \in ToolCall : kind[c] = "wild"}

ToolsInit ==
    /\ kind \in Kinds
    /\ waiter = [c \in ToolCall |-> "idle"]
    /\ task = [c \in ToolCall |-> "none"]
    /\ told = {} /\ late = {}
    /\ spawn = [c \in ToolCall |-> "none"]
    /\ proc = [c \in ToolCall |-> "none"]
    /\ registered = {} /\ handoffs = {}
    /\ revoked = FALSE /\ shut = FALSE
    /\ sweep = [s \in Sweeper |-> "none"] /\ bad = {}
    /\ cleanups = 0

Over(c)        == task[c] \in {"done", "failed"}
Wait(c, w)     == waiter' = [waiter EXCEPT ![c] = w]
Task(c, t)     == task' = [task EXCEPT ![c] = t]
sweepVars      == <<kind, shut, sweep, bad, cleanups>>
processVars    == <<spawn, late, proc, registered, handoffs>>

(* execute_tool: nothing starts in a revoked environment *)
StartTool(c) ==
    /\ waiter[c] = "idle"
    /\ IF revoked THEN Wait(c, "answered") /\ UNCHANGED <<task, spawn, handoffs>>
       ELSE /\ Wait(c, "wait")
            /\ IF c \in Writes THEN Task(c, "queued") /\ UNCHANGED <<spawn, handoffs>>
               ELSE /\ Task(c, "spawn")
                    /\ spawn' = [spawn EXCEPT ![c] = "factory"]
                    /\ handoffs' = handoffs \cup {c}
    /\ UNCHANGED <<told, late, proc, registered, revoked, sweepVars>>

(* the operating system has started the command *)
ProcessAppears(c) ==
    /\ spawn[c] = "factory"
    /\ spawn' = [spawn EXCEPT ![c] = "made"]
    /\ proc' = [proc EXCEPT ![c] = "alive"]
    /\ UNCHANGED <<waiter, task, told, late, registered, handoffs, revoked, sweepVars>>

(* terminate_process: TERM, KILL and a wait; its answer is whether all ended *)
Killed(cs) == proc' = [c \in ToolCall |-> IF c \in cs \ Unkillable THEN "dead" ELSE proc[c]]

(* ProcessRegistry.spawn hands the process over, or stops it: its caller is *)
(* gone, or the registry was revoked meanwhile                              *)
SpawnSettles(c) ==
    /\ spawn[c] = "made"
    /\ spawn' = [spawn EXCEPT ![c] = "over"]
    /\ handoffs' = handoffs \ {c}
    /\ IF c \in late \/ shut
       THEN /\ Killed({c}) /\ UNCHANGED registered
            /\ IF c \in late THEN UNCHANGED <<task, revoked>>
               ELSE Task(c, "failed") /\ revoked' = (revoked \/ c \in Unkillable)
       ELSE registered' = registered \cup {c} /\ UNCHANGED <<proc, task, revoked>>
    /\ UNCHANGED <<waiter, told, late, sweepVars>>

(* run_process goes on with the process, which it now owns *)
Runs(c) ==
    /\ task[c] = "spawn" /\ spawn[c] = "over"
    /\ Task(c, "run")
    /\ UNCHANGED <<waiter, told, revoked, processVars, sweepVars>>

(* _spawn_before_deadline: the command's deadline, or its cancellation,     *)
(* arrives while the process is on its way                                  *)
SpawnAbandoned(c) ==
    /\ task[c] = "spawn"
    /\ \/ c \in told
       \/ spawn[c] # "over"
    /\ late' = late \cup {c}
    /\ Task(c, "done")
    /\ UNCHANGED <<waiter, told, revoked, spawn, proc, registered, handoffs, sweepVars>>

(* _reap_late_spawn: the spawn had succeeded when its caller left *)
Reap(c) ==
    /\ c \in late /\ c \in registered /\ proc[c] = "alive" /\ c \notin Unkillable
    /\ Killed({c})
    /\ registered' = registered \ {c}
    /\ UNCHANGED <<waiter, task, told, spawn, late, handoffs, revoked, sweepVars>>

(* the command ends, runs out of time or is cancelled: its group is stopped *)
CommandEnds(c) ==
    /\ task[c] = "run"
    /\ Task(c, "kill")
    /\ UNCHANGED <<waiter, told, revoked, processVars, sweepVars>>

(* _require_process_exit, and exec_cmd, which revokes when it fails *)
Kill(c) ==
    /\ task[c] = "kill"
    /\ Killed({c})
    /\ IF c \in Unkillable
       THEN Task(c, "failed") /\ revoked' = TRUE /\ UNCHANGED registered
       ELSE Task(c, "done") /\ registered' = registered \ {c} /\ UNCHANGED revoked
    /\ UNCHANGED <<waiter, told, spawn, late, handoffs, sweepVars>>

(* _execute_file_operation: a cancelled write still runs to its end *)
FileStarts(c) ==
    /\ task[c] = "queued"
    /\ Cardinality({d \in ToolCall : task[d] = "writing"}) < FileSlots
    /\ Task(c, "writing")
    /\ UNCHANGED <<waiter, told, revoked, processVars, sweepVars>>

FileEnds(c) ==
    /\ task[c] = "writing"
    /\ Task(c, "done")
    /\ UNCHANGED <<waiter, told, revoked, processVars, sweepVars>>

(* the tool has ended in time *)
Answer(c) ==
    /\ waiter[c] = "wait" /\ Over(c)
    /\ Wait(c, "answered")
    /\ UNCHANGED <<task, told, revoked, processVars, sweepVars>>

(* the per-tool deadline, or the cancellation of the turn, which waits for  *)
(* the same cleanup, through further cancellations, before it goes on       *)
GiveUp(c) ==
    /\ waiter[c] = "wait" /\ ~Over(c)
    /\ told' = told \cup {c}
    /\ Wait(c, "grace")
    /\ UNCHANGED <<task, revoked, processVars, sweepVars>>

(* _cleanup_timed_out_execution: quiet within the grace, else the           *)
(* environment is revoked and aborted                                       *)
Grace(c) ==
    /\ waiter[c] = "grace"
    /\ IF task[c] = "done" THEN Wait(c, "answered") /\ UNCHANGED <<revoked, sweep>>
       ELSE /\ revoked' = TRUE
            /\ Wait(c, "abort")
            /\ sweep' = [sweep EXCEPT ![c] = "start"]
    /\ UNCHANGED <<task, told, processVars, kind, shut, bad, cleanups>>

(* _abort_environment_bounded: done, or left to finish behind its timeout *)
AbortWaited(c) ==
    /\ waiter[c] = "abort"
    /\ Wait(c, "answered")
    /\ UNCHANGED <<task, told, revoked, processVars, sweepVars>>

(* the owner of the environment cleans it up, again if it failed *)
CleanupByOwner ==
    /\ cleanups < MaxCleanups /\ cleanups' = cleanups + 1
    /\ sweep["owner"] \in {"none", "failed"}
    /\ sweep' = [sweep EXCEPT !["owner"] = "start"]
    /\ bad' = bad \ {"owner"}
    /\ revoked' = TRUE
    /\ UNCHANGED <<waiter, task, told, processVars, kind, shut>>

Sweeps(s, from, to) == sweep[s] = from /\ sweep' = [sweep EXCEPT ![s] = to]

(* ProcessRegistry._abort_owned: no new spawn, and the ones under way first *)
CloseRegistry(s) ==
    /\ Sweeps(s, "start", "handoffs")
    /\ shut' = TRUE
    /\ UNCHANGED <<waiter, task, told, processVars, kind, revoked, bad, cleanups>>

(* mutant: an abort does not wait for the spawns under way *)
NoHandoffs(s) ==
    /\ Sweeps(s, "handoffs", "kill")
    /\ UNCHANGED <<waiter, task, told, processVars, kind, revoked, shut, bad, cleanups>>

HandoffsEnd(s) ==
    /\ \/ handoffs = {} /\ Sweeps(s, "handoffs", "kill") /\ UNCHANGED bad
       \/ handoffs # {} /\ Sweeps(s, "handoffs", "files") /\ bad' = bad \cup {s}
    /\ UNCHANGED <<waiter, task, told, processVars, kind, revoked, shut, cleanups>>

KillAll(s) ==
    /\ Sweeps(s, "kill", "files")
    /\ Killed(registered)
    /\ registered' = registered \cap Unkillable
    /\ bad' = IF registered' = {} THEN bad ELSE bad \cup {s}
    /\ UNCHANGED <<waiter, task, told, spawn, late, handoffs, kind, revoked, shut, cleanups>>

Filing == {c \in ToolCall : task[c] \in {"queued", "writing"}}

(* _cleanup_files, which waits for every file operation *)
SweepEnds(s) ==
    /\ Filing = {}
    /\ Sweeps(s, "files", IF s \in bad THEN "failed" ELSE "ok")
    /\ UNCHANGED <<waiter, task, told, processVars, kind, revoked, shut, bad, cleanups>>

ToolsStep ==
    \/ \E c \in ToolCall : \/ ProcessAppears(c) \/ SpawnSettles(c) \/ Runs(c) \/ Reap(c) \/ Kill(c)
                           \/ FileStarts(c) \/ FileEnds(c) \/ Answer(c) \/ Grace(c) \/ AbortWaited(c)
    \/ \E s \in Sweeper : CloseRegistry(s) \/ HandoffsEnd(s) \/ KillAll(s) \/ SweepEnds(s)

ToolsNext ==
    \/ ToolsStep \/ CleanupByOwner
    \/ \E c \in ToolCall : StartTool(c) \/ SpawnAbandoned(c) \/ CommandEnds(c) \/ GiveUp(c)

ToolsSpec == ToolsInit /\ [][ToolsNext]_toolVars /\ WF_toolVars(ToolsStep)

(***************************************************************************)
(* A call that has been answered, or left by a cancelled turn, no longer    *)
(* acts: its task has ended or nothing new can start in the environment,    *)
(* and a process of it still alive is either on its way to being stopped    *)
(* (its spawn outlived it) or in an environment that is revoked.            *)
(***************************************************************************)
AnsweredIsQuiet ==
    \A c \in ToolCall : waiter[c] = "answered" =>
        /\ Over(c) \/ task[c] = "none" \/ revoked
        /\ proc[c] = "alive" => c \in late \/ revoked

(* An environment cleaned up without an error is still, whoever else was    *)
(* using it: no process of any call is alive or can appear, and no file is  *)
(* being written.  A process that even SIGKILL does not end while its spawn *)
(* is being abandoned is known to nobody.                                   *)
SweptIsStill ==
    \A s \in Sweeper : sweep[s] = "ok" =>
        /\ handoffs = {} /\ Filing = {}
        /\ \A c \in ToolCall : proc[c] = "alive" => c \in Unkillable
        /\ registered = {}

(* Nothing runs on behind an answered call or a swept environment            *)
(* (execute_tool, ProcessRegistry.abort, LocalEnvironment.cleanup).          *)
NothingRunsOn == AnsweredIsQuiet /\ SweptIsStill

-----------------------------------------------------------------------------
(* Inductive strengthening of NothingRunsOn *)

ToolTypes ==
    /\ waiter \in [ToolCall -> {"idle", "wait", "grace", "abort", "answered"}]
    /\ task \in [ToolCall -> {"none", "spawn", "run", "kill", "queued", "writing", "done", "failed"}]
    /\ spawn \in [ToolCall -> {"none", "factory", "made", "over"}]
    /\ proc \in [ToolCall -> {"none", "alive", "dead"}]
    /\ sweep \in [Sweeper -> {"none", "start", "handoffs", "kill", "files", "ok", "failed"}]
    /\ registered \subseteq ToolCall /\ handoffs \subseteq ToolCall
    /\ revoked \in BOOLEAN

(* a call that nobody has started has nothing, and one that writes a file   *)
(* has no process                                                           *)
UnstartedIsBare ==
    \A c \in ToolCall :
        /\ waiter[c] = "idle" => task[c] = "none"
        /\ task[c] \in {"none", "queued", "writing"} => spawn[c] = "none" /\ proc[c] = "none"

(* every process is in somebody's hands: of its spawn, which is also known  *)
(* to the handoffs, or of the registry, unless it cannot be stopped         *)
ProcessIsHeld ==
    \A c \in ToolCall :
        /\ c \in handoffs <=> spawn[c] \in {"factory", "made"}
        /\ c \in handoffs => task[c] = "spawn" \/ c \in late
        /\ c \in registered => spawn[c] = "over"
        /\ proc[c] = "alive" => c \in handoffs \cup registered \cup Unkillable
        /\ proc[c] = "alive" /\ Over(c) => c \in late \/ revoked

(* an answer is given for a task that has ended or in a revoked environment *)
AnswerIsSafe ==
    \A c \in ToolCall :
        /\ waiter[c] = "abort" => revoked
        /\ waiter[c] = "answered" => Over(c) \/ revoked

(* what a sweep has reached stays reached, since nothing starts any more *)
SweepHolds ==
    \A s \in Sweeper :
        /\ sweep[s] # "none" => revoked
        /\ sweep[s] = "kill" => handoffs = {}
        /\ sweep[s] = "ok" => Filing = {}
        /\ sweep[s] = "ok" \/ (sweep[s] = "files" /\ s \notin bad) =>
              /\ handoffs = {} /\ registered = {}
              /\ \A c \in ToolCall : proc[c] = "alive" => c \in Unkillable

ToolsInv ==
    ToolTypes /\ UnstartedIsBare /\ ProcessIsHeld /\ AnswerIsSafe /\ SweepHolds
=============================================================================

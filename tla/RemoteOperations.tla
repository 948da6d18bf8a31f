-------------------------- MODULE RemoteOperations --------------------------
(***************************************************************************)
(* Operations in a virtual machine that is reached by ssh: _env_vm.py on    *)
(* the controller, _vm_remote.py in the guest, vm_isolation.py, which       *)
(* leases the machine and may hand it on only when it is quiet and reset.   *)
(* A request may be lost, arrive after its sender gave up, or be answered   *)
(* to nobody.  The guest keeps one directory per operation: request.json,   *)
(* started.json, cancel.json and result.json.  What an operation does, file *)
(* transfers, the export of results and the edit lock are left out.         *)
(***************************************************************************)
EXTENDS Naturals, FiniteSets

CONSTANTS
    Work,        (* operations of the agent that leases the machine *)
    Reset,       (* the operations that may be needed to reset it *)
    MaxDrops,    (* bound: requests or answers that do not arrive in time *)
    MaxCrises    (* bound: workers killed, descendants that resist, reboots *)

(* an operation has an id of its own *)
ASSUME RemoteAssumption == Work \cap Reset = {}

VARIABLES
    caller,      (* _operate: idle, submit, wait, cancel, poll, left, over *)
    tries,       (* its failed attempts *)
    operations,  (* VMEnvironment._operations, of the agent's and the reset's *)
    uncertain,   (* _uncertain *)
    wire,        (* <<method, operation>> that will still arrive *)
    requested, started, cancels,   (* files of the guest *)
    result,      (* result.json: none, completed, failed, cancelled, cleanup_failed *)
    spawned,     (* worker processes that have not tried the lock yet *)
    worker,      (* the one that holds worker.lock: none, locked, running, stopping,
                    stuck, dead *)
    outcome,     (* what it will report *)
    living,      (* operations with processes in the guest *)
    runs,        (* how often the operation was performed *)
    boot,        (* boot_id *)
    identity,    (* boot_id the reset's environment has seen; the agent's is 0 *)
    owner,       (* _cleanup_owner: leased, clean, retained, cleaned, freed *)
    sweeping,       (* its cleanup of the agent's operations: none, cancel, poll *)
    reset,       (* reset_operation, {} or one *)
    drops, crises

RemoteOp == Work \cup Reset

callVars   == <<caller, tries, operations, uncertain>>
guestVars  == <<requested, started, cancels, result, spawned, worker, outcome, living, runs>>
ownerVars  == <<owner, sweeping, reset, identity>>
remoteVars == <<callVars, guestVars, ownerVars, wire, boot, drops, crises>>

RemoteInit ==
    /\ caller = [o \in RemoteOp |-> "idle"]
    /\ tries = [o \in RemoteOp |-> 0]
    /\ operations = {} /\ uncertain = {} /\ wire = {}
    /\ requested = {} /\ started = {} /\ cancels = {}
    /\ result = [o \in RemoteOp |-> "none"]
    /\ spawned = [o \in RemoteOp |-> 0]
    /\ worker = [o \in RemoteOp |-> "none"]
    /\ outcome = [o \in RemoteOp |-> "none"]
    /\ living = {} /\ runs = [o \in RemoteOp |-> 0]
    /\ boot = 0 /\ identity = 0
    /\ owner = "leased" /\ sweeping = [o \in RemoteOp |-> "none"] /\ reset = {}
    /\ drops = 0 /\ crises = 0

Family(o)    == IF o \in Work THEN Work ELSE Reset
Final        == {"completed", "failed", "cancelled"}
Holding(o)   == worker[o] \in {"locked", "running", "stopping", "stuck"}
Drop         == drops < MaxDrops /\ drops' = drops + 1
Crisis       == crises < MaxCrises /\ crises' = crises + 1
CallerIs(o, c) == caller' = [caller EXCEPT ![o] = c]
WorkerIs(o, w) == worker' = [worker EXCEPT ![o] = w]

(* _status: the terminal result, else whether the worker that started is    *)
(* still the same process of the same boot                                  *)
Status(o) ==
    CASE result[o] # "none" -> result[o]
      [] result[o] = "none" /\ o \in started -> IF Holding(o) THEN "running" ELSE "unknown"
      [] OTHER -> "preparing"

-----------------------------------------------------------------------------
(* _rpc "start" and _prepare: bind the request, and spawn a worker unless   *)
(* one has started or a result is there                                     *)
GuestStart(o) ==
    /\ requested' = requested \cup {o}
    /\ spawned' = IF Status(o) = "preparing" /\ spawned[o] < 2
                  THEN [spawned EXCEPT ![o] = @ + 1] ELSE spawned
    /\ UNCHANGED <<started, cancels, result, worker, outcome, living, runs>>

(* _rpc "cancel": cancel.json, and the result as well if nobody holds the   *)
(* worker's lock and nothing has started                                    *)
GuestCancel(o) ==
    IF o \notin requested THEN UNCHANGED guestVars
    ELSE /\ cancels' = cancels \cup {o}
         /\ result' = IF ~Holding(o) /\ o \notin started /\ result[o] = "none"
                      THEN [result EXCEPT ![o] = "cancelled"] ELSE result
         /\ outcome' = IF worker[o] = "stuck" THEN [outcome EXCEPT ![o] = "again"] ELSE outcome
         /\ UNCHANGED <<requested, started, spawned, worker, living, runs>>

(* _worker: one at a time, and never after another that had started *)
Arrives(o) ==
    /\ spawned[o] > 0
    /\ spawned' = [spawned EXCEPT ![o] = @ - 1]
    /\ IF Holding(o) \/ o \in started \/ result[o] # "none"
       THEN UNCHANGED worker ELSE WorkerIs(o, "locked")
    /\ UNCHANGED <<callVars, ownerVars, requested, started, cancels, result, outcome, living, runs,
                   wire, boot, drops, crises>>

(* _work: started.json, then cancel.json is looked at before the operation  *)
(* begins, which refuses a machine that was rebooted                        *)
Begins(o) ==
    /\ worker[o] = "locked"
    /\ started' = started \cup {o}
    /\ IF o \in cancels \/ boot # (IF o \in Work THEN 0 ELSE identity)
       THEN /\ WorkerIs(o, "stopping")
            /\ outcome' = [outcome EXCEPT ![o] = IF o \in cancels THEN "cancelled" ELSE "failed"]
            /\ UNCHANGED <<living, runs>>
       ELSE /\ WorkerIs(o, "running")
            /\ runs' = [runs EXCEPT ![o] = @ + 1]
            /\ living' = living \cup {o}
            /\ UNCHANGED outcome
    /\ UNCHANGED <<callVars, ownerVars, requested, cancels, result, spawned, wire, boot, drops, crises>>

(* the operation ends, or the worker finds cancel.json *)
Performed(o) ==
    /\ worker[o] = "running"
    /\ WorkerIs(o, "stopping")
    /\ \/ \E r \in {"completed", "failed"} : outcome' = [outcome EXCEPT ![o] = r]
       \/ o \in cancels /\ outcome' = [outcome EXCEPT ![o] = "cancelled"]
    /\ UNCHANGED <<callVars, ownerVars, requested, started, cancels, result, spawned, living, runs,
                   wire, boot, drops, crises>>

(* _stop_descendants, then the result; descendants that resist are reported *)
(* and tried again after every further cancel                               *)
StopsDescendants(o) ==
    /\ \/ worker[o] = "stopping"
       \/ worker[o] = "stuck" /\ outcome[o] = "again"
    /\ \/ /\ living' = living \ {o}
          /\ result' = [result EXCEPT ![o] = IF worker[o] = "stuck" THEN "cancelled" ELSE outcome[o]]
          /\ WorkerIs(o, "none")
          /\ UNCHANGED <<outcome, crises>>
       \/ /\ o \in living /\ Crisis
          /\ result' = [result EXCEPT ![o] = "cleanup_failed"]
          /\ WorkerIs(o, "stuck")
          /\ outcome' = [outcome EXCEPT ![o] = "none"]
          /\ UNCHANGED living
    /\ UNCHANGED <<callVars, ownerVars, requested, started, cancels, spawned, runs, wire, boot, drops>>

(* a worker is killed, and what it started lives on *)
WorkerDies(o) ==
    /\ Holding(o) /\ Crisis
    /\ WorkerIs(o, "dead")
    /\ UNCHANGED <<callVars, ownerVars, requested, started, cancels, result, spawned, outcome,
                   living, runs, wire, boot, drops>>

Reboot ==
    /\ boot = 0 /\ Crisis /\ boot' = 1
    /\ living' = {}
    /\ worker' = [o \in RemoteOp |-> IF Holding(o) THEN "dead" ELSE worker[o]]
    /\ spawned' = [o \in RemoteOp |-> 0]
    /\ UNCHANGED <<callVars, ownerVars, requested, started, cancels, result, outcome, runs, wire, drops>>

(* a request reaches the guest whose sender has gone *)
ArrivesLate(m) ==
    /\ m \in wire
    /\ wire' = wire \ {m}
    /\ IF m[1] = "start" THEN GuestStart(m[2]) ELSE GuestCancel(m[2])
    /\ UNCHANGED <<callVars, ownerVars, boot, drops, crises>>

-----------------------------------------------------------------------------
(* what becomes of a request over ssh: it works; its answer is lost; it is  *)
(* late; it is lost                                                         *)
SendFails(o, method, effect) ==
    /\ Drop
    /\ \/ effect /\ UNCHANGED wire
       \/ wire' = wire \cup {<<method, o>>} /\ UNCHANGED guestVars
       \/ UNCHANGED <<wire, guestVars>>

(* _operate: known before it is sent *)
Submit(o) ==
    /\ caller[o] = "idle"
    /\ IF o \in Work THEN owner = "leased" ELSE owner = "cleaned" /\ reset = {}
    /\ uncertain \cap Family(o) = {}
    /\ CallerIs(o, "submit")
    /\ operations' = operations \cup {o}
    /\ reset' = IF o \in Reset THEN {o} ELSE reset
    /\ identity' = IF o \in Reset /\ \A r \in Reset : caller[r] = "idle" THEN boot ELSE identity
    /\ UNCHANGED <<tries, uncertain, guestVars, owner, sweeping, wire, boot, drops, crises>>

LeaveUncertain(o) == CallerIs(o, "left") /\ uncertain' = uncertain \cup {o} /\ UNCHANGED operations
SettleOp(o) ==
    /\ CallerIs(o, "over")
    /\ operations' = operations \ {o} /\ uncertain' = uncertain \ {o}

(* the request is sent again, under the same id, three times in all *)
SubmitAgain(o) ==
    IF tries[o] = 2 THEN LeaveUncertain(o) /\ UNCHANGED tries
    ELSE CallerIs(o, "submit") /\ tries' = [tries EXCEPT ![o] = @ + 1] /\ UNCHANGED <<operations, uncertain>>

SendStart(o) ==
    /\ caller[o] = "submit"
    /\ \/ GuestStart(o) /\ CallerIs(o, "wait") /\ UNCHANGED <<wire, drops, tries, operations, uncertain>>
       \/ SendFails(o, "start", GuestStart(o)) /\ SubmitAgain(o)
    /\ UNCHANGED <<ownerVars, boot, crises>>

(* _wait polls; a state that needs recovery keeps the operation *)
Query(o) ==
    /\ caller[o] = "wait"
    /\ \/ Status(o) \in Final /\ SettleOp(o) /\ UNCHANGED <<tries, drops>>
       \/ Status(o) \in {"unknown", "cleanup_failed"} /\ LeaveUncertain(o) /\ UNCHANGED <<tries, drops>>
       \/ Drop /\ SubmitAgain(o)
    /\ UNCHANGED <<guestVars, ownerVars, wire, boot, crises>>

(* the call is cancelled, perhaps with its request on the way *)
CallCancelled(o) ==
    /\ caller[o] \in {"submit", "wait"} /\ o \in Work
    /\ CallerIs(o, "cancel")
    /\ \/ UNCHANGED <<wire, drops>>
       \/ caller[o] = "submit" /\ Drop /\ wire' = wire \cup {<<"start", o>>}
    /\ UNCHANGED <<tries, operations, uncertain, guestVars, ownerVars, boot, crises>>

(* mutant: an operation the guest does not know needs no cancelling *)
SendCancelTrusting(o) ==
    /\ caller[o] = "cancel"
    /\ \/ /\ GuestCancel(o) /\ UNCHANGED <<wire, drops>>
          /\ IF o \in requested THEN CallerIs(o, "poll") /\ UNCHANGED <<operations, uncertain>> ELSE SettleOp(o)
       \/ SendFails(o, "cancel", GuestCancel(o)) /\ LeaveUncertain(o)
    /\ UNCHANGED <<tries, ownerVars, boot, crises>>

(* _cancel_operation; the guest may not know the operation *)
SendCancel(o) ==
    /\ caller[o] = "cancel"
    /\ \/ /\ GuestCancel(o) /\ UNCHANGED <<wire, drops>>
          /\ IF o \in requested THEN CallerIs(o, "poll") /\ UNCHANGED <<operations, uncertain>> ELSE LeaveUncertain(o)
       \/ SendFails(o, "cancel", GuestCancel(o)) /\ LeaveUncertain(o)
    /\ UNCHANGED <<tries, ownerVars, boot, crises>>

(* until the guest reports an end, 12 seconds at most *)
Poll(o) ==
    /\ caller[o] = "poll"
    /\ IF Status(o) \in Final THEN SettleOp(o) ELSE LeaveUncertain(o)
    /\ UNCHANGED <<tries, guestVars, ownerVars, wire, boot, drops, crises>>

(* recover_operation *)
Recovered(o) ==
    /\ caller[o] = "left" /\ o \in requested /\ Status(o) \in Final
    /\ owner \in {"leased", "retained"} \/ o \in reset
    /\ SettleOp(o)
    /\ UNCHANGED <<tries, guestVars, ownerVars, wire, boot, drops, crises>>

-----------------------------------------------------------------------------
(* release: the environment is revoked and everything it started cancelled, *)
(* beside the calls that may still wait                                     *)
CleanBegins ==
    /\ owner \in {"leased", "retained"}
    /\ owner' = "clean"
    /\ sweeping' = [o \in RemoteOp |-> IF o \in operations THEN "cancel" ELSE "none"]
    /\ UNCHANGED <<callVars, guestVars, reset, identity, wire, boot, drops, crises>>

CleanRaises ==
    /\ owner' = "retained" /\ sweeping' = [o \in RemoteOp |-> "none"]
    /\ UNCHANGED <<callVars, reset, identity>>

(* one of its operations cannot be settled: the lease is kept for a retry; *)
(* what the guest reports of it is left uncertain (as are all its calls)    *)
CleanCancel(o) ==
    /\ owner = "clean" /\ sweeping[o] = "cancel"
    /\ \/ /\ o \in requested /\ GuestCancel(o) /\ UNCHANGED <<wire, drops>>
          /\ sweeping' = [sweeping EXCEPT ![o] = "poll"]
          /\ UNCHANGED <<callVars, owner, reset, identity>>
       \/ o \notin requested /\ UNCHANGED <<guestVars, wire, drops>> /\ CleanRaises
       \/ SendFails(o, "cancel", GuestCancel(o)) /\ CleanRaises
    /\ UNCHANGED <<boot, crises>>

CleanPoll(o) ==
    /\ owner = "clean" /\ sweeping[o] = "poll"
    /\ IF Status(o) \in Final
       THEN /\ sweeping' = [sweeping EXCEPT ![o] = "none"]
            /\ operations' = operations \ {o} /\ uncertain' = uncertain \ {o}
            /\ UNCHANGED <<caller, tries, owner, reset, identity>>
       ELSE CleanRaises
    /\ UNCHANGED <<guestVars, wire, boot, drops, crises>>

Cleaned ==
    /\ owner = "clean" /\ \A o \in RemoteOp : sweeping[o] = "none"
    /\ owner' = "cleaned"
    /\ UNCHANGED <<callVars, guestVars, sweeping, reset, identity, wire, boot, drops, crises>>

(* a reset that failed is done again under a new id; one that is uncertain  *)
(* keeps its id and is recovered                                            *)
ResetAgain ==
    /\ \E r \in reset : caller[r] = "over" /\ result[r] # "completed"
    /\ reset' = {}
    /\ UNCHANGED <<callVars, guestVars, owner, sweeping, identity, wire, boot, drops, crises>>

(* the lease goes back to the registry *)
FreeMachine ==
    /\ owner = "cleaned"
    /\ \E r \in reset : caller[r] = "over" /\ result[r] = "completed"
    /\ owner' = "freed"
    /\ UNCHANGED <<callVars, guestVars, sweeping, reset, identity, wire, boot, drops, crises>>

RemoteNext ==
    \/ \E o \in RemoteOp :
         \/ Arrives(o) \/ Begins(o) \/ Performed(o) \/ StopsDescendants(o) \/ WorkerDies(o)
         \/ Submit(o) \/ SendStart(o) \/ Query(o) \/ CallCancelled(o) \/ SendCancel(o) \/ Poll(o)
         \/ Recovered(o) \/ CleanCancel(o) \/ CleanPoll(o)
    \/ \E m \in wire : ArrivesLate(m)
    \/ Reboot \/ CleanBegins \/ Cleaned \/ ResetAgain \/ FreeMachine

RemoteSpec == RemoteInit /\ [][RemoteNext]_remoteVars

(* nothing of the operation runs in the guest, or ever will, however late a *)
(* request or a worker arrives                                              *)
Silent(o) ==
    /\ o \notin living /\ ~Holding(o)
    /\ \/ result[o] \in Final
       \/ o \in started
       \/ spawned[o] = 0 /\ <<"start", o>> \notin wire

(***************************************************************************)
(* An operation is performed at most once, although it is submitted up to   *)
(* three times, by requests that may be late, and started by workers that   *)
(* may die (_worker, _operate).                                             *)
(***************************************************************************)
RunsOnce == \A o \in RemoteOp : runs[o] <= 1

(* What the controller has settled is over in the guest; and the machine    *)
(* goes back to the pool only when nothing of the agent's is left in it and *)
(* a reset was completed after the last of it (_cleanup_owner).             *)
FreedIsQuiet ==
    /\ \A o \in RemoteOp : caller[o] = "over" => Silent(o)
    /\ owner \in {"cleaned", "freed"} => \A o \in Work : Silent(o)
    /\ owner = "freed" => \A o \in RemoteOp : caller[o] # "idle" => Silent(o)

(* Nothing runs twice, and nothing runs on in a machine that was given back. *)
RemoteIsSound == RunsOnce /\ FreedIsQuiet

-----------------------------------------------------------------------------
(* Inductive strengthening of RemoteIsSound *)

RemoteTypes ==
    /\ caller \in [RemoteOp -> {"idle", "submit", "wait", "cancel", "poll", "left", "over"}]
    /\ operations \subseteq RemoteOp /\ wire \subseteq {"start", "cancel"} \X RemoteOp
    /\ result \in [RemoteOp -> Final \cup {"none", "cleanup_failed"}]
    /\ spawned \in [RemoteOp -> Nat]
    /\ worker \in [RemoteOp -> {"none", "locked", "running", "stopping", "stuck", "dead"}]
    /\ outcome \in [RemoteOp -> Final \cup {"none", "again"}]
    /\ runs \in [RemoteOp -> Nat]
    /\ sweeping \in [RemoteOp -> {"none", "cancel", "poll"}]
    /\ reset \subseteq Reset

(* an operation runs only under the worker that started it *)
WorkerIsFirst ==
    \A o \in RemoteOp :
        /\ runs[o] <= IF o \in started THEN 1 ELSE 0
        /\ worker[o] = "locked" => o \notin started
        /\ worker[o] \in {"running", "stopping", "stuck"} => o \in started
        /\ worker[o] = "stopping" => outcome[o] \in Final
        /\ o \in living => o \in started

(* a final result is the last thing that happens to an operation *)
FinalIsLast ==
    \A o \in RemoteOp : result[o] \in Final => o \notin living /\ ~Holding(o)

(* an operation that was never submitted is unknown to everybody *)
UnsentIsUnknown ==
    \A o \in RemoteOp : caller[o] = "idle" =>
        /\ o \notin operations /\ <<"start", o>> \notin wire
        /\ o \notin started /\ spawned[o] = 0 /\ ~Holding(o)

(* what the controller has forgotten is over *)
ForgottenIsFinal ==
    \A o \in RemoteOp :
        /\ caller[o] = "over" => result[o] \in Final
        /\ caller[o] # "idle" => o \in operations \/ result[o] \in Final

(* the owner's cleanup misses no operation, and resets are done one by one *)
CleanMissesNothing ==
    /\ owner \in {"leased", "clean", "retained"} => \A o \in Reset : caller[o] = "idle"
    /\ owner = "clean" => \A o \in operations : sweeping[o] # "none"
    /\ owner \in {"cleaned", "freed"} => \A o \in Work : o \notin operations
    /\ \A q, r \in reset : q = r
    /\ \A o \in Reset \ reset : caller[o] \in {"idle", "over"}
    /\ owner = "freed" => \A o \in reset : caller[o] = "over"

RemoteInv ==
    /\ RemoteTypes /\ WorkerIsFirst /\ FinalIsLast /\ UnsentIsUnknown /\ ForgottenIsFinal
    /\ CleanMissesNothing
=============================================================================

------------------------- MODULE AuthoredWorkflows -------------------------
(***************************************************************************)
(* A workflow that a team member wrote, run in a process of its own in the  *)
(* member's environment: authored_workflow.py owns it, the bridge of        *)
(* authored_workflow_bridge.py serves its requests for model calls, files   *)
(* and environments.  The two sides share a directory: the child publishes  *)
(* the set of its pending requests, the host polls it and writes one reply  *)
(* file per request; cancellation is a mark on a request that has to be     *)
(* acknowledged by its reply.  The child runs one session in an environment *)
(* it acquired.  Contents, safety checks and the saving of artifacts are    *)
(* left out.                                                                *)
(***************************************************************************)
EXTENDS Naturals, FiniteSets

CONSTANTS
    Errand,           (* calls of the child's session that may overlap *)
    Deeds,            (* set of [Errand -> {"complete", "use", "edit"}] *)
    Lease,            (* the acquisition and release of its environment *)
    MaxBridgeFaults   (* bound: writes, kills, polls and releases that fail *)

ASSUME AuthoredAssumption ==
    /\ IsFiniteSet(Errand) /\ Lease \notin Errand
    /\ Deeds \subseteq [Errand -> {"complete", "use", "edit"}]

VARIABLES
    deed, errand,     (* what a call is for, and the request it waits for *)
    dropped,          (* the calls whose request is marked cancel *)
    answered,         (* its reply file: none, value, error, usage; or lost *)
    served,           (* _respond for it: none, run, done *)
    revoked,          (* calls whose task was cancelled, _cancelled_tasks *)
    waitFor,          (* what a release waits for *)
    edit,             (* _FileEdit: none, waiting, held, cancelled, closed *)
    holder, writing,  (* who holds the lock of the file, who writes it *)
    lease,            (* the environment of the session: none, live, released *)
    paid,             (* AuthoredWorkflowBridge.tokens *)
    reported,         (* usage.json *)
    accounted,        (* _Child.tokens, charged to the member *)
    process,          (* none, running, exited, crashed, killed, stray *)
    halted,           (* its workflow was cancelled *)
    driver,           (* _execute: start, loop, settle, close, end *)
    killing,          (* its execution was cancelled *)
    stopFile, stopper,(* _stop: none, waiting, forced, returned *)
    broken,           (* cleanup_error *)
    removed,          (* artifacts_removed *)
    bridgeFaults

childVars == <<deed, errand, dropped, reported, process, halted>>
hostVars  == <<answered, served, revoked, waitFor, edit, holder, writing, lease, paid>>
ownVars   == <<accounted, driver, killing, stopFile, stopper, broken, removed>>
authoredVars == <<childVars, hostVars, ownVars, bridgeFaults>>

Caller == Errand \cup {Lease}
Step   == {"complete", "use", "lock", "write", "unlock", "acquire", "release"}

AuthoredInit ==
    /\ deed \in Deeds
    /\ errand = [c \in Caller |-> "idle"]
    /\ dropped = {} /\ revoked = {} /\ waitFor = {}
    /\ answered = [c \in Caller |-> "none"] /\ served = [c \in Caller |-> "none"]
    /\ edit = [c \in Errand |-> "none"] /\ holder = {} /\ writing = {}
    /\ lease = "none" /\ paid = 0 /\ reported = 0 /\ accounted = 0
    /\ process = "none" /\ halted = FALSE /\ driver = "start" /\ killing = FALSE
    /\ stopFile = FALSE /\ stopper = "none" /\ broken = FALSE /\ removed = FALSE
    /\ bridgeFaults = 0

pending     == {c \in Caller : errand[c] \in Step}
Unsaid      == {c \in Caller : answered[c] = "lost"}
Troubles    == bridgeFaults + Cardinality(Unsaid)
BridgeFault == Troubles < MaxBridgeFaults /\ bridgeFaults' = bridgeFaults + 1
Unfinished  == {c \in Caller : served[c] = "run"}
Runs(c, s)  == served[c] = "run" /\ errand[c] = s

(* the reply file, whose writing no cancellation interrupts; it may fail *)
Respond(c, a) ==
    /\ served' = [served EXCEPT ![c] = "done"]
    /\ waitFor' = waitFor \ {c}
    /\ \/ answered' = [answered EXCEPT ![c] = a]
       \/ Troubles < MaxBridgeFaults /\ answered' = [answered EXCEPT ![c] = "lost"]
Revoke(cs) ==
    /\ revoked' = revoked \cup (cs \cap Unfinished)
    /\ edit' = [c \in Errand |-> IF edit[c] \in {"waiting", "held"} THEN "cancelled" ELSE edit[c]]

-----------------------------------------------------------------------------
(* BridgeClient, in the child *)
First(c) ==
    CASE c = Lease -> "acquire"
      [] c # Lease /\ deed[c] = "edit" -> "lock"
      [] OTHER -> deed[c]

(* _begin: the request is published with all others that are pending *)
Ask(c) ==
    /\ process = "running" /\ ~halted /\ errand[c] = "idle"
    /\ c # Lease => errand[Lease] = "ready"
    /\ errand' = [errand EXCEPT ![c] = First(c)]
    /\ UNCHANGED <<deed, dropped, reported, process, halted, hostVars, ownVars, bridgeFaults>>

(* mutant: a lock that was granted to a cancelled call is forgotten *)
FollowForgets(c, s, a) ==
    CASE s = "lock" /\ a = "value" /\ c \notin dropped -> "write"
      [] s = "write" -> "unlock"
      [] s = "acquire" /\ a = "value" /\ c \notin dropped -> "ready"
      [] OTHER -> "end"

(* what the caller of a request does after it: a lock is always given back; *)
(* an environment that came for a cancelled call is left to the host        *)
Follow(c, s, a) ==
    CASE s = "lock" /\ a = "value" -> IF c \in dropped THEN "unlock" ELSE "write"
      [] s = "write" -> "unlock"
      [] s = "acquire" /\ a = "value" /\ c \notin dropped -> "ready"
      [] OTHER -> "end"

(* _result, also of a cancelled call: usage is never left behind.  The next *)
(* request of the call is a new one.                                        *)
ReadReply(c) ==
    /\ process = "running" /\ c \in pending /\ answered[c] \notin {"none", "lost"}
    /\ errand' = [errand EXCEPT ![c] = Follow(c, @, answered[c])]
    /\ reported' = IF answered[c] = "usage" THEN reported + 1 ELSE reported
    /\ dropped' = dropped \ {c} /\ revoked' = revoked \ {c}
    /\ served' = [served EXCEPT ![c] = "none"] /\ answered' = [answered EXCEPT ![c] = "none"]
    /\ UNCHANGED <<deed, process, halted, waitFor, edit, holder, writing, lease, paid, ownVars, bridgeFaults>>

(* the call is cancelled: it is marked, and its reply still waited for *)
Cancel(c) ==
    /\ process = "running" /\ c \in pending \ dropped
    /\ errand[c] \notin {"unlock", "release"}
    /\ dropped' = dropped \cup {c}
    /\ UNCHANGED <<deed, errand, reported, process, halted, hostVars, ownVars, bridgeFaults>>

(* BridgeEnvironment.cleanup, at the end of the session or from the abort   *)
(* of a tool that timed out, while its cancelled calls have no answer yet   *)
HandBack ==
    /\ process = "running" /\ errand[Lease] = "ready"
    /\ \A c \in Errand : errand[c] \in {"idle", "unlock", "end"} \/ c \in dropped
    /\ errand' = [errand EXCEPT ![Lease] = "release"]
    /\ UNCHANGED <<deed, dropped, reported, process, halted, hostVars, ownVars, bridgeFaults>>

(* watch_stop *)
SeesStop ==
    /\ process = "running" /\ stopFile /\ ~halted
    /\ halted' = TRUE
    /\ UNCHANGED <<deed, errand, dropped, reported, process, hostVars, ownVars, bridgeFaults>>

(* the runner ends with nothing pending, or it breaks down *)
ChildExits ==
    /\ process = "running"
    /\ \/ /\ pending = {}
          /\ errand[Lease] = "end" \/ (halted /\ errand[Lease] = "idle")
          /\ process' = "exited" /\ UNCHANGED bridgeFaults
       \/ BridgeFault /\ process' = "crashed"
    /\ UNCHANGED <<deed, errand, dropped, reported, halted, hostVars, ownVars>>

-----------------------------------------------------------------------------
(* poll and _dispatch: a task for every new request, unless it is marked or *)
(* its environment is not one of this run's; a cancel for every marked one   *)
(* and for the edit it opened; a release cancels everything else that is     *)
(* pending in its environment.  Then usage.json.                             *)
Poll ==
    LET latest   == {c \in pending : served[c] = "none"}
        refused == {c \in latest : c \in dropped \/ (errand[c] # "acquire" /\ lease # "live")}
        begun   == latest \ refused
        active  == (Unfinished \cup begun) \ {Lease}
        sweeps  == Lease \in begun /\ errand[Lease] = "release"
    IN  /\ driver = "loop"
        /\ served' = [c \in Caller |-> IF c \in refused THEN "done" ELSE IF c \in begun THEN "run" ELSE served[c]]
        /\ answered' = [c \in Caller |-> IF c \in refused THEN "error" ELSE answered[c]]
        /\ revoked' = revoked \cup (dropped \cap Unfinished) \cup (IF sweeps THEN active ELSE {})
        /\ waitFor' = IF sweeps THEN active ELSE waitFor
        /\ edit' = [c \in Errand |->
               IF edit[c] \in {"waiting", "held"} /\ (sweeps \/ (c \in dropped /\ errand[c] = "lock"))
               THEN "cancelled"
               ELSE IF c \in begun /\ errand[c] = "lock" THEN "waiting" ELSE edit[c]]
        /\ accounted' = reported
        /\ UNCHANGED <<childVars, holder, writing, lease, paid, driver, killing, stopFile, stopper,
                       broken, removed, bridgeFaults>>

(* a completion is paid for whether or not its reply says so *)
Completed(c) ==
    /\ Runs(c, "complete")
    /\ \E usage \in {0, 1} :
         /\ paid' = paid + usage
         /\ \/ usage = 1 /\ Respond(c, "usage")
            \/ Respond(c, "error")
    /\ UNCHANGED <<childVars, ownVars, revoked, edit, holder, writing, lease, bridgeFaults>>

Acquired(c) ==
    /\ Runs(c, "acquire")
    /\ \/ lease' = "live" /\ Respond(c, "value") /\ UNCHANGED bridgeFaults
       \/ /\ IF c \in revoked THEN UNCHANGED bridgeFaults ELSE BridgeFault
          /\ Respond(c, "error") /\ UNCHANGED lease
    /\ UNCHANGED <<childVars, ownVars, revoked, edit, holder, writing, paid>>

Used(c) ==
    /\ Runs(c, "use")
    /\ \/ Respond(c, "value")
       \/ c \in revoked /\ Respond(c, "error")
    /\ UNCHANGED <<childVars, ownVars, revoked, edit, holder, writing, lease, paid, bridgeFaults>>

(* _FileEdit: it gets the lock, or no lock in time *)
EditOpens(c) ==
    /\ edit[c] = "waiting"
    /\ \/ /\ holder = {} /\ holder' = {c}
          /\ edit' = [edit EXCEPT ![c] = "held"] /\ UNCHANGED bridgeFaults
       \/ BridgeFault /\ edit' = [edit EXCEPT ![c] = "closed"] /\ UNCHANGED holder
    /\ UNCHANGED <<childVars, ownVars, answered, served, revoked, waitFor, writing, lease, paid>>

(* cancelled, it ends what it was doing and lets go of the lock *)
EditCloses(c) ==
    /\ edit[c] = "cancelled"
    /\ edit' = [edit EXCEPT ![c] = "closed"]
    /\ holder' = holder \ {c} /\ writing' = writing \ {c}
    /\ UNCHANGED <<childVars, ownVars, answered, served, revoked, waitFor, lease, paid, bridgeFaults>>

(* the request for a lock waits for it; cancelled, it sees its edit closed *)
Locked(c) ==
    /\ Runs(c, "lock")
    /\ \/ edit[c] = "held" /\ c \notin revoked /\ Respond(c, "value") /\ UNCHANGED edit
       \/ edit[c] = "closed" /\ Respond(c, "error") /\ UNCHANGED edit
       \/ /\ c \in revoked /\ edit[c] \in {"waiting", "held"}
          /\ edit' = [edit EXCEPT ![c] = "cancelled"]
          /\ UNCHANGED <<served, answered, waitFor>>
    /\ UNCHANGED <<childVars, ownVars, revoked, holder, writing, lease, paid, bridgeFaults>>

(* _FileEdit.call: the write is done by the task that holds the lock, and   *)
(* goes on when the request for it is cancelled                             *)
WriteStarts(c) ==
    /\ Runs(c, "write") /\ c \notin revoked
    /\ edit[c] = "held" /\ c \notin writing
    /\ writing' = writing \cup {c}
    /\ UNCHANGED <<childVars, ownVars, answered, served, revoked, waitFor, edit, holder, lease, paid, bridgeFaults>>

WriteEnds(c) ==
    /\ c \in writing
    /\ writing' = writing \ {c}
    /\ IF Runs(c, "write") THEN Respond(c, "value") ELSE UNCHANGED <<served, answered, waitFor>>
    /\ UNCHANGED <<childVars, ownVars, revoked, edit, holder, lease, paid, bridgeFaults>>

WriteDropped(c) ==
    /\ Runs(c, "write")
    /\ c \in revoked \/ edit[c] = "closed"
    /\ Respond(c, "error")
    /\ UNCHANGED <<childVars, ownVars, revoked, edit, holder, writing, lease, paid, bridgeFaults>>

(* _FileEdit.release waits for the end of its task *)
Unlocked(c) ==
    /\ Runs(c, "unlock")
    /\ \/ /\ edit[c] = "held" /\ c \notin writing
          /\ edit' = [edit EXCEPT ![c] = "closed"] /\ holder' = holder \ {c}
          /\ Respond(c, "value")
       \/ /\ edit[c] = "closed" \/ c \in revoked
          /\ Respond(c, "error") /\ UNCHANGED <<edit, holder>>
    /\ UNCHANGED <<childVars, ownVars, revoked, writing, lease, paid, bridgeFaults>>

(* the environment goes back when all that is over *)
GivenBack(c) ==
    /\ Runs(c, "release")
    /\ \/ /\ waitFor = {}
          /\ \A d \in Errand : edit[d] # "cancelled"
          /\ \/ lease' = "released" /\ Respond(c, "value") /\ UNCHANGED bridgeFaults
             \/ BridgeFault /\ Respond(c, "error") /\ UNCHANGED lease
       \/ c \in revoked /\ Respond(c, "error") /\ UNCHANGED <<lease, bridgeFaults>>
    /\ UNCHANGED <<childVars, ownVars, revoked, edit, holder, writing, paid>>

-----------------------------------------------------------------------------
(* _execute: a stop that came before the process did is remembered *)
Start ==
    /\ driver = "start"
    /\ driver' = "loop" /\ process' = "running"
    /\ killing' = (stopper # "none")
    /\ UNCHANGED <<deed, errand, dropped, reported, halted, hostVars, accounted, stopFile,
                   stopper, broken, removed, bridgeFaults>>

(* the environment kills the process; one that survives is reported *)
Killed ==
    /\ killing /\ process = "running"
    /\ \/ process' = "killed" /\ UNCHANGED <<broken, bridgeFaults>>
       \/ BridgeFault /\ process' = "stray" /\ broken' = TRUE
    /\ UNCHANGED <<deed, errand, dropped, reported, halted, hostVars, accounted, driver,
                   killing, stopFile, stopper, removed>>

(* a poll that raises ends the loop before the process *)
PollFails ==
    /\ driver = "loop" /\ process = "running" /\ BridgeFault
    /\ driver' = "settle" /\ killing' = TRUE
    /\ UNCHANGED <<childVars, hostVars, accounted, stopFile, stopper, broken, removed>>

(* result.json is read, then aclose cancels every task and edit *)
LoopEnds ==
    /\ driver \in {"loop", "settle"} /\ process # "running"
    /\ driver' = "close"
    /\ accounted' = IF process = "exited" THEN reported ELSE accounted
    /\ Revoke(Caller)
    /\ UNCHANGED <<childVars, answered, served, waitFor, holder, writing, lease, paid,
                   killing, stopFile, stopper, broken, removed, bridgeFaults>>

(* they have all ended: the environments go, and what the bridge paid for   *)
(* is charged even if the child never heard of it                           *)
Closed ==
    /\ driver = "close" /\ Unfinished = {}
    /\ \A c \in Errand : edit[c] \in {"none", "closed"}
    /\ driver' = "end"
    /\ \/ /\ lease' = IF lease = "live" THEN "released" ELSE lease
          /\ IF Unsaid # {} THEN broken' = TRUE /\ UNCHANGED accounted
             ELSE accounted' = (IF paid > reported THEN paid ELSE reported) /\ UNCHANGED broken
          /\ UNCHANGED bridgeFaults
       \/ lease = "live" /\ BridgeFault /\ broken' = TRUE /\ UNCHANGED <<lease, accounted>>
    /\ UNCHANGED <<childVars, answered, served, revoked, waitFor, edit, holder, writing, paid,
                   killing, stopFile, stopper, removed>>

(* _stop asks the child by a file, and has it killed if that cannot be      *)
(* written or the grace is over                                             *)
ForceStop ==
    /\ stopper' = "forced"
    /\ killing' = (killing \/ driver \in {"loop", "settle"})

Stop ==
    /\ stopper = "none"
    /\ \/ stopper' = "waiting" /\ stopFile' = TRUE /\ UNCHANGED <<killing, bridgeFaults>>
       \/ BridgeFault /\ ForceStop /\ UNCHANGED stopFile
    /\ UNCHANGED <<childVars, hostVars, accounted, driver, broken, removed>>

GraceEnds ==
    /\ stopper = "waiting" /\ driver # "end"
    /\ ForceStop
    /\ UNCHANGED <<childVars, hostVars, accounted, driver, stopFile, broken, removed, bridgeFaults>>

(* the tool's aclose: what the child left is removed unless it may be in use *)
StopReturns ==
    /\ stopper \in {"waiting", "forced"} /\ driver = "end"
    /\ stopper' = "returned"
    /\ removed' = ~broken
    /\ UNCHANGED <<childVars, hostVars, accounted, driver, killing, stopFile, broken, bridgeFaults>>

Serve(c) ==
    \/ Completed(c) \/ Used(c) \/ Locked(c) \/ Unlocked(c)
    \/ WriteStarts(c) \/ WriteEnds(c) \/ WriteDropped(c)
    \/ EditOpens(c) \/ EditCloses(c)

AuthoredStep ==
    \/ \E c \in Errand : Serve(c)
    \/ \E c \in Caller : Ask(c) \/ ReadReply(c) \/ (halted /\ Cancel(c))
    \/ Acquired(Lease) \/ GivenBack(Lease)
    \/ Poll \/ HandBack \/ SeesStop \/ ChildExits \/ Start \/ Killed \/ LoopEnds \/ Closed
    \/ Stop \/ GraceEnds \/ StopReturns

AuthoredNext == AuthoredStep \/ PollFails \/ \E c \in Caller : Cancel(c)

AuthoredSpec == AuthoredInit /\ [][AuthoredNext]_authoredVars /\ WF_authoredVars(AuthoredStep)

(***************************************************************************)
(* The lock of a file is held for the child only as long as one of its      *)
(* calls is busy with it, whichever of grant, cancellation, acknowledgment  *)
(* and unlocking comes first (BridgeClient.call, poll, _FileEdit).          *)
(***************************************************************************)
EditLocksComeBack ==
    driver = "loop" /\ process = "running" =>
        \A c \in Errand : edit[c] = "held" => errand[c] \in {"lock", "write", "unlock"}

(***************************************************************************)
(* Nothing is done in an environment that was given back.  When the run of  *)
(* the child is over and no cleanup failed, its process, its locks and its  *)
(* environments are gone, and the member was charged for every completion   *)
(* the bridge paid for, also those whose reply nobody read (_execute,       *)
(* aclose).  Files are removed only from under a dead process.              *)
(***************************************************************************)
ChildLeavesNothing ==
    /\ lease = "released" =>
         writing = {} /\ \A c \in Errand : ~Runs(c, "use")
    /\ driver = "end" /\ ~broken =>
         /\ process \in {"exited", "crashed", "killed"}
         /\ holder = {} /\ lease # "live" /\ accounted = paid
    /\ removed => process \notin {"running", "stray"}

-----------------------------------------------------------------------------
(* What the proofs need to know besides                                     *)
AuthoredTypes ==
    /\ deed \in [Errand -> {"complete", "use", "edit"}]
    /\ errand \in [Caller -> Step \cup {"idle", "ready", "end"}]
    /\ answered \in [Caller -> {"none", "value", "error", "usage", "lost"}]
    /\ served \in [Caller -> {"none", "run", "done"}]
    /\ edit \in [Errand -> {"none", "waiting", "held", "cancelled", "closed"}]
    /\ dropped \subseteq Caller /\ revoked \subseteq Caller /\ waitFor \subseteq Errand
    /\ holder \subseteq Errand /\ writing \subseteq Errand
    /\ lease \in {"none", "live", "released"}
    /\ paid \in Nat /\ reported \in Nat /\ accounted \in Nat
    /\ process \in {"none", "running", "exited", "crashed", "killed", "stray"}
    /\ driver \in {"start", "loop", "settle", "close", "end"}
    /\ broken \in BOOLEAN /\ removed \in BOOLEAN

(* The two sides agree on what a call is at.                                *)
CallsAgree ==
    /\ errand[Lease] \in {"idle", "acquire", "ready", "release", "end"}
    /\ \A c \in Errand : errand[c] \notin {"acquire", "ready", "release"}
    /\ \A c \in Caller :
          /\ answered[c] # "none" => served[c] = "done"
          /\ served[c] # "none" => errand[c] \in Step
          /\ c \in revoked => served[c] # "none"
          /\ c \in dropped => errand[c] \in Step \ {"unlock", "release"}
          /\ answered[c] = "usage" => errand[c] = "complete"

(* Who has the lock of the file is on its way to give it back: a grant that *)
(* is refused to the child has been taken back before.                      *)
EditAgrees(c) ==
    /\ errand[c] = "idle" \/ (errand[c] = "lock" /\ served[c] = "none") => edit[c] = "none"
    /\ edit[c] = "waiting" => Runs(c, "lock")
    /\ edit[c] = "held" => errand[c] \in {"lock", "write", "unlock"} /\ c \in holder
    /\ errand[c] \in {"write", "unlock"} \/ (errand[c] = "lock" /\ answered[c] = "value")
          => edit[c] \in {"held", "cancelled", "closed"}
    /\ errand[c] = "lock" /\ answered[c] = "error" => edit[c] \in {"none", "closed"}
    /\ errand[c] = "unlock" /\ (served[c] = "done" \/ c \in revoked) => edit[c] # "held"
    /\ c \in holder => edit[c] \in {"held", "cancelled"}
    /\ c \in writing => c \in holder

EditsAgree == \A c \in Errand : EditAgrees(c)

(* A release waits for all that could still touch the environment, and      *)
(* nothing new begins in one that is being given back.                      *)
LeaseGoesLast ==
    /\ waitFor \subseteq revoked \cap Unfinished
    /\ Runs(Lease, "release") =>
          \A c \in Errand :
              /\ errand[c] \in {"use", "lock"} => served[c] # "none"
              /\ edit[c] \in {"waiting", "held"} => Runs(c, "lock") /\ c \in waitFor
              /\ Runs(c, "use") => c \in waitFor
    /\ lease # "live" =>
          \A c \in Errand : edit[c] \in {"none", "closed"} /\ ~Runs(c, "use")
    /\ lease = "released" => driver = "end" \/ errand[Lease] \in {"release", "end"}

(* What an answer says was used, or was read of one, has been paid for.     *)
PaymentsAddUp ==
    reported + Cardinality({c \in Caller : answered[c] = "usage"}) <= paid

(* The end is reached by a dead process, with nobody at work, and accounted *)
(* for.                                                                     *)
ChildIsOver ==
    /\ driver = "start" <=> process = "none"
    /\ driver \in {"close", "end"} => process # "running"
    /\ process = "stray" => broken
    /\ driver = "end" =>
          /\ Unfinished = {} /\ \A c \in Errand : edit[c] \in {"none", "closed"}
          /\ ~broken => lease # "live" /\ accounted = paid
    /\ removed => driver = "end" /\ ~broken

AuthoredInv ==
    /\ AuthoredTypes /\ CallsAgree /\ EditsAgree /\ LeaseGoesLast
    /\ PaymentsAddUp /\ ChildIsOver

(* Locks come back while the child runs, and all the rest when it has ended. *)
AuthoredIsContained == EditLocksComeBack /\ ChildLeavesNothing
=============================================================================

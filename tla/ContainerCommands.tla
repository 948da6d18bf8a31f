-------------------------- MODULE ContainerCommands --------------------------
(***************************************************************************)
(* One Docker container and the commands that run in it: _env_docker.py and *)
(* docker_isolation.py.  The container is made and owned by an isolation    *)
(* pool, which lends views of it to agents, or it is the user's own and the *)
(* views are attached to it.  A command is two things: the docker client    *)
(* the caller waits for, and a process group inside the container that the  *)
(* client's end does not stop: the client may also fail by itself, and then *)
(* the caller gets its non-zero code while the group works on.  The text of *)
(* commands, mounts and paths, the temporary file a write goes through and  *)
(* the worktrees of the views (see IsolatedWorkspace) are left out.         *)
(***************************************************************************)
EXTENDS Naturals, FiniteSets

CONSTANTS
    View,          (* DockerWorkspaceEnvironments of one container *)
    Command,       (* what agents do in them *)
    ViewOf,        (* [Command -> View] *)
    Editors,       (* commands that edit one and the same file *)
    MaxBoxFaults   (* bound: docker commands that fail or do not take effect *)

VARIABLES
    scope,      (* group, session: made by a pool, for many views or one;
                   user: the container is the user's, views are attached *)
    box,        (* the container: none, late, running, stopped, removed *)
    known,      (* _container_name, _container_id of its owner: none, name, id *)
    poolAt,     (* DockerIsolationPool: idle, import, discard, abort, remove *)
    subject,    (* the views the pool is lending or aborting *)
    grouped,    (* _group is this container *)
    closing,    (* the pool is being released, not one view *)
    lent,       (* _leases *)
    gone,       (* revoked views; "owner" stands for the owned container *)
    execAt,      (* _exec of a command: idle, lock, client, recover, stop, ended *)
    said,       (* what its caller was told *)
    group,      (* its process group: none, starting, alive, dead *)
    lockedBy,   (* the write lock of the file, {} or one command *)
    version, readAt, (* versions of the file: now, and as an editor read it *)
    written,     (* edits that reached the file *)
    left,        (* commands whose caller was told while the group was at work *)
    boxFaults

boxVars == <<scope, box, known, poolAt, subject, grouped, closing, lent, gone, execAt, said,
             group, lockedBy, version, readAt, written, left, boxFaults>>

Owned == scope # "user"

ContainerInit ==
    /\ scope \in {"group", "session", "user"}
    /\ grouped = FALSE /\ closing = FALSE
    /\ box = IF Owned THEN "none" ELSE "running"
    /\ known = "none" /\ poolAt = "idle" /\ subject = {}
    /\ lent = IF Owned THEN {} ELSE View
    /\ gone = {}
    /\ execAt = [c \in Command |-> "idle"]
    /\ said = [c \in Command |-> "nothing"]
    /\ group = [c \in Command |-> "none"]
    /\ lockedBy = {} /\ version = 0 /\ written = {}
    /\ readAt = [c \in Command |-> 0] /\ left = {}
    /\ boxFaults = 0

Revoked(v)    == v \in gone \/ "owner" \in gone
Registered(v) == {c \in Command : ViewOf[c] = v /\ execAt[c] \in {"client", "recover", "stop"}}
StageIs(c, s) == execAt' = [execAt EXCEPT ![c] = s]
AtWork(c)     == group[c] \in {"starting", "alive"}
BoxFault      == boxFaults < MaxBoxFaults /\ boxFaults' = boxFaults + 1
Groups(end)   == group' = [c \in Command |-> IF c \in end /\ group[c] # "none" THEN "dead" ELSE group[c]]
lendVars      == <<poolAt, subject, grouped, closing, lent>>
fileVars      == <<version, readAt, written>>
commandVars   == <<execAt, said, group, lockedBy, fileVars, left>>

-----------------------------------------------------------------------------
(* acquire with no container yet: _setup_locked up to the docker command,   *)
(* whose effect and whose report are two things; the container may also     *)
(* appear after the client was given up on                                  *)
SetupContainer(v) ==
    /\ Owned /\ poolAt = "idle" /\ v \notin lent /\ known = "none" /\ box = "none"
    /\ "owner" \notin gone
    /\ subject' = {v}
    /\ \/ box' = "running" /\ known' = "id" /\ poolAt' = "import" /\ UNCHANGED boxFaults
       \/ BoxFault /\ box' \in {"none", "late", "running"} /\ known' = "name" /\ poolAt' = "discard"
    /\ UNCHANGED <<scope, grouped, closing, lent, gone, commandVars>>

(* the daemon finishes what its client no longer waits for *)
ContainerAppears ==
    /\ box = "late"
    /\ box' = "running"
    /\ UNCHANGED <<scope, known, lendVars, gone, commandVars, boxFaults>>

(* the container of the group is there for a further view *)
Rejoin(v) ==
    /\ grouped /\ poolAt = "idle" /\ v \notin lent
    /\ poolAt' = "import" /\ subject' = {v}
    /\ UNCHANGED <<scope, box, known, grouped, closing, lent, gone, commandVars, boxFaults>>

(* the snapshot is copied in and the view's worktree is made; when that     *)
(* fails for the view the container was made for, it is removed             *)
Lend ==
    /\ poolAt = "import"
    /\ subject' = {}
    /\ \/ /\ box = "running" /\ "owner" \notin gone
          /\ poolAt' = "idle" /\ lent' = lent \cup subject
          /\ grouped' = (scope = "group")
          /\ UNCHANGED <<gone, boxFaults>>
       \/ /\ IF box = "running" /\ "owner" \notin gone THEN BoxFault ELSE UNCHANGED boxFaults
          /\ IF grouped THEN poolAt' = "idle" /\ UNCHANGED gone
             ELSE poolAt' = "remove" /\ gone' = gone \cup {"owner"}
          /\ UNCHANGED <<lent, grouped>>
    /\ UNCHANGED <<scope, box, known, closing, commandVars>>

(* _remove_container_if_owned: by its id, or by its name if docker finds it *)
(* and it carries our label; a container that is not found by its name is   *)
(* not proven gone, and a removal may fail after its effect.  It ends a     *)
(* failed setup (where the cleanup of the owner follows), the release of a  *)
(* session's view and the release of the pool.                              *)
RemoveContainer ==
    /\ poolAt \in {"discard", "remove"}
    /\ \/ known = "none" /\ UNCHANGED <<box, known, group, boxFaults>>
       \/ /\ known # "none" /\ box \in {"running", "stopped"}
          /\ box' = "removed" /\ Groups(Command)
          /\ \/ known' = "none" /\ UNCHANGED boxFaults
             \/ BoxFault /\ UNCHANGED known
       \/ known = "id" /\ box = "removed" /\ known' = "none" /\ UNCHANGED <<box, group, boxFaults>>
       \/ known # "none" /\ box \in {"none", "late", "removed"}
          /\ UNCHANGED <<box, known, group, boxFaults>>
       \/ known # "none" /\ BoxFault /\ UNCHANGED <<box, known, group>>
    /\ poolAt' = IF poolAt = "discard" THEN "remove" ELSE "idle"
    /\ gone' = gone \cup {"owner"}
    /\ lent' = IF known' = "none" THEN {} ELSE lent
    /\ grouped' = (grouped /\ known' # "none")
    /\ subject' = {} /\ closing' = FALSE
    /\ UNCHANGED <<scope, execAt, said, lockedBy, fileVars, left>>

-----------------------------------------------------------------------------
(* file_write_lock, keyed by the container: every view of it meets here.    *)
(* The editor reads the file once it holds the lock.                        *)
LockFile(c) ==
    /\ execAt[c] = "lock" /\ lockedBy = {}
    /\ IF Revoked(ViewOf[c])
       THEN StageIs(c, "ended") /\ said' = [said EXCEPT ![c] = "refused"]
            /\ UNCHANGED <<lockedBy, readAt>>
       ELSE StageIs(c, "ready") /\ lockedBy' = {c} /\ readAt' = [readAt EXCEPT ![c] = version]
            /\ UNCHANGED said
    /\ UNCHANGED <<scope, box, known, lendVars, gone, group, version, written, left, boxFaults>>

(* an agent calls a tool on a view it was lent *)
UseView(c) ==
    /\ execAt[c] = "idle" /\ ViewOf[c] \in lent
    /\ StageIs(c, IF c \in Editors THEN "lock" ELSE "ready")
    /\ UNCHANGED <<scope, box, known, lendVars, gone, said, group, lockedBy, fileVars, left, boxFaults>>

(* the caller is told, and an editor lets go of the lock, whether or not    *)
(* the group is over by then                                                *)
Tell(c, what) ==
    /\ StageIs(c, "ended")
    /\ left' = IF AtWork(c)' THEN left \cup {c} ELSE left
    /\ said' = [said EXCEPT ![c] = what]
    /\ lockedBy' = lockedBy \ {c}

(* _exec: registered among _active_execs, then docker exec; a container     *)
(* that is stopped or removed refuses it                                    *)
Exec(c) ==
    /\ execAt[c] = "ready"
    /\ IF Revoked(ViewOf[c]) \/ box # "running"
       THEN UNCHANGED group /\ Tell(c, "refused")
       ELSE /\ StageIs(c, "client")
            /\ group' = [group EXCEPT ![c] = "starting"]
            /\ UNCHANGED <<said, lockedBy, left>>
    /\ UNCHANGED <<scope, box, known, lendVars, gone, fileVars, boxFaults>>

(* _EXEC_WRAPPER: the group is started, and then its pid is on file; it ends *)
(* whether or not anybody still waits for it                                *)
GroupMoves(c) ==
    /\ box = "running"
    /\ \/ group[c] = "starting" /\ group' = [group EXCEPT ![c] = "alive"]
       \/ group[c] = "alive" /\ group' = [group EXCEPT ![c] = "dead"]
    /\ UNCHANGED <<scope, box, known, lendVars, gone, execAt, said, lockedBy, fileVars, left, boxFaults>>

(* the mv of an atomic write *)
WriteLands(c) ==
    /\ c \in Editors \ written /\ group[c] = "alive" /\ box = "running"
    /\ version' = readAt[c] + 1
    /\ written' = written \cup {c}
    /\ UNCHANGED <<scope, box, known, lendVars, gone, execAt, said, group, lockedBy, readAt, left, boxFaults>>

(* the wrapper saw the group end, or ended what the command left of it, and *)
(* the client reports the code; or the container went away under them       *)
CommandReturns(c) ==
    /\ execAt[c] = "client" /\ group[c] \in {"alive", "dead"}
    /\ Groups({c})
    /\ \E what \in {"success", "failure"} : (what = "success" => box = "running") /\ Tell(c, what)
    /\ UNCHANGED <<scope, box, known, lendVars, gone, fileVars, boxFaults>>

(* the wrapper gives up on a group it cannot end (125) or is killed itself, *)
(* or docker's client ends by itself or its streams break: a code or an     *)
(* error that is neither a timeout nor a cancellation, so nothing recovers  *)
(* and no view is revoked                                                   *)
ClientFails(c) ==
    /\ execAt[c] = "client" /\ AtWork(c) /\ BoxFault
    /\ UNCHANGED group
    /\ Tell(c, "failure")
    /\ UNCHANGED <<scope, box, known, lendVars, gone, fileVars>>

(* the deadline passes or the caller is cancelled: the client is killed, the *)
(* group is not                                                             *)
ClientLeaves(c) ==
    /\ execAt[c] = "client"
    /\ StageIs(c, "recover")
    /\ UNCHANGED <<scope, box, known, lendVars, gone, said, group, lockedBy, fileVars, left, boxFaults>>

(* mutant: a group without a pid on file has ended *)
RecoverTrusting(c) ==
    /\ execAt[c] = "recover"
    /\ \/ Groups({c} \cap {d \in Command : group[d] = "alive"}) /\ Tell(c, "timeout")
          /\ UNCHANGED <<gone, boxFaults>>
       \/ /\ group[c] = "alive" /\ BoxFault
          /\ StageIs(c, "stop")
          /\ gone' = gone \cup {ViewOf[c]} \cup (IF Owned THEN {"owner"} ELSE {})
          /\ UNCHANGED <<said, group, lockedBy, left>>
    /\ UNCHANGED <<scope, box, known, lendVars, fileVars>>

(* _recover_inner: _EXEC_CANCEL stops the group whose pid is on file, also   *)
(* when it just ended.  It fails when there is no pid (yet, or no longer),  *)
(* when the container does not run, or when docker does; then the view and  *)
(* the owner of the container are revoked.                                  *)
Recover(c) ==
    /\ execAt[c] = "recover"
    /\ \/ /\ group[c] \in {"alive", "dead"} /\ box = "running"
          /\ Groups({c}) /\ Tell(c, "timeout")
          /\ UNCHANGED <<gone, boxFaults>>
       \/ /\ IF group[c] = "alive" /\ box = "running" THEN BoxFault ELSE UNCHANGED boxFaults
          /\ StageIs(c, "stop")
          /\ gone' = gone \cup {ViewOf[c]} \cup (IF Owned THEN {"owner"} ELSE {})
          /\ UNCHANGED <<said, group, lockedBy, left>>
    /\ UNCHANGED <<scope, box, known, lendVars, fileVars>>

(* _stop_owned_container takes every group in it along, also when docker    *)
(* fails after that; a view of the user's container stops nothing.  The     *)
(* caller gets a ProcessCleanupError.                                       *)
StopOwned ==
    \/ ~Owned /\ UNCHANGED <<box, group, boxFaults>>
    \/ /\ Owned /\ box' = (IF box = "running" THEN "stopped" ELSE box)
       /\ Groups(Command) /\ UNCHANGED boxFaults
    \/ Owned /\ BoxFault /\ UNCHANGED <<box, group>>

StopAfter(c) ==
    /\ execAt[c] = "stop"
    /\ StopOwned
    /\ Tell(c, "unquiet")
    /\ UNCHANGED <<scope, known, lendVars, gone, fileVars>>

-----------------------------------------------------------------------------
(* release_env, release (which also comes back for what a failed cleanup    *)
(* left): _abort_resources_locked revokes the views, so that no further     *)
(* command registers, and cancels the ones that did                         *)
AbortViews(vs, all) ==
    /\ poolAt = "idle"
    /\ poolAt' = "abort" /\ subject' = vs /\ closing' = all
    /\ gone' = gone \cup vs
    /\ \E hit \in SUBSET {c \in Command : /\ c \in Registered(ViewOf[c]) /\ ViewOf[c] \in vs
                                          /\ group[c] = "alive" /\ box = "running"} : Groups(hit)
    /\ UNCHANGED <<scope, box, known, grouped, lent, execAt, said, lockedBy, fileVars, left, boxFaults>>

ReleaseView(v) == v \in lent /\ AbortViews({v}, FALSE)
ReleasePool   == Owned /\ known # "none" /\ AbortViews(lent, TRUE)

(* every command of theirs has returned *)
AbortEnds ==
    /\ poolAt = "abort"
    /\ \A v \in subject : Registered(v) = {}
    /\ IF closing \/ scope = "session"
       THEN poolAt' = "remove" /\ gone' = gone \cup {"owner"} /\ UNCHANGED <<lent, closing>>
       ELSE poolAt' = "idle" /\ lent' = lent \ subject /\ closing' = FALSE /\ UNCHANGED gone
    /\ subject' = {}
    /\ UNCHANGED <<scope, box, known, grouped, commandVars, boxFaults>>

(* some have not within the timeout: the container is stopped, an error is  *)
(* raised, and the views stay lent to be released again                     *)
AbortFails ==
    /\ poolAt = "abort"
    /\ \E v \in subject : Registered(v) # {}
    /\ StopOwned
    /\ gone' = IF Owned THEN gone \cup {"owner"} ELSE gone
    /\ poolAt' = "idle" /\ subject' = {} /\ closing' = FALSE
    /\ UNCHANGED <<scope, known, grouped, lent, execAt, said, lockedBy, fileVars, left>>

ContainerNext ==
    \/ \E v \in View : SetupContainer(v) \/ Rejoin(v) \/ ReleaseView(v)
    \/ ReleasePool
    \/ ContainerAppears \/ Lend \/ RemoveContainer \/ AbortEnds \/ AbortFails
    \/ \E c \in Command : \/ UseView(c) \/ LockFile(c) \/ Exec(c) \/ GroupMoves(c) \/ WriteLands(c)
                          \/ CommandReturns(c) \/ ClientFails(c) \/ ClientLeaves(c)
                          \/ Recover(c) \/ StopAfter(c)

ContainerSpec == ContainerInit /\ [][ContainerNext]_boxVars

(***************************************************************************)
(* A caller told of success, of a timeout or of a refusal has no group left *)
(* in the container, not even one about to start, although the client and   *)
(* the group end separately; one told that its command is not quiet may     *)
(* have one, in a revoked view (_recover_inner); a failure says nothing of  *)
(* the group.  As long as no caller was told while its group was at work,   *)
(* views of one container do not lose each other's edits of a file          *)
(* (file_write_lock).                                                       *)
(***************************************************************************)
ToldIsQuiet ==
    /\ \A c \in Command : execAt[c] = "ended" /\ AtWork(c) =>
            said[c] = "failure" \/ (said[c] = "unquiet" /\ ViewOf[c] \in gone)
    /\ left = {} => version = Cardinality(written)

(* A container the pool made is known to it, by name or id, until docker    *)
(* confirmed its removal, also when it appears only after a failed setup or *)
(* the removal is retried.                                                  *)
ContainerIsKept ==
    Owned /\ box \in {"late", "running", "stopped"} => known # "none"

(* Answers about commands are true of the container, and it is never lost.  *)
ContainerIsSound == ToldIsQuiet /\ ContainerIsKept

-----------------------------------------------------------------------------
(* Inductive strengthening of ContainerIsSound *)

ContainerTypes ==
    /\ box \in {"none", "late", "running", "stopped", "removed"}
    /\ execAt \in [Command -> {"idle", "lock", "ready", "client", "recover", "stop", "ended"}]
    /\ said \in [Command -> {"nothing", "refused", "success", "failure", "timeout", "unquiet"}]
    /\ group \in [Command -> {"none", "starting", "alive", "dead"}]
    /\ lockedBy = {} \/ \E c \in Command : lockedBy = {c}
    /\ version \in Nat /\ readAt \in [Command -> Nat]
    /\ IsFiniteSet(written)

(* a group exists from the exec on; one that outlives its command is in     *)
(* `left', and its caller was told of a failure or that it is not quiet     *)
GroupsAreTold ==
    \A c \in Command :
        /\ execAt[c] \in {"idle", "lock", "ready"} => group[c] = "none"
        /\ execAt[c] # "ended" => said[c] = "nothing"
        /\ execAt[c] = "stop" => ViewOf[c] \in gone
        /\ execAt[c] = "ended" /\ AtWork(c) =>
              /\ c \in left
              /\ said[c] = "failure" \/ (said[c] = "unquiet" /\ ViewOf[c] \in gone)

(* an editor past its read holds the lock until it is told *)
LockIsHeld ==
    \A c \in Editors \cap Command :
        execAt[c] \in {"ready", "client", "recover", "stop"} => lockedBy = {c}

(* unless a group was left behind the editor in turn has read the newest    *)
(* version                                                                  *)
EditsAreKept ==
    left = {} =>
        /\ version = Cardinality(written)
        /\ \A c \in Editors : lockedBy = {c} /\ c \notin written => readAt[c] = version

ContainerInv ==
    /\ ContainerTypes /\ GroupsAreTold /\ LockIsHeld /\ EditsAreKept /\ ContainerIsKept
=============================================================================

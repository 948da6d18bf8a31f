--------------------------- MODULE EnvironmentPool ---------------------------
(***************************************************************************)
(* The pools that lend environments to the agents of a run.                 *)
(*                                                                          *)
(* A worktree pool builds one environment for each acquisition, possibly    *)
(* from the files of an environment it lent before, and keeps what it lent  *)
(* until a release has cleaned it up.  A session pool in front of it counts *)
(* who shares an environment, and closes for good when it is released.      *)
(* Acquisitions, single releases and the release of everything overlap, any *)
(* acquisition may be cancelled and any cleanup may fail.                   *)
(*                                                                          *)
(* Source: adapters/worktree_pool.py, session_environments.py,              *)
(* application/scheduler_lifecycle.py, _scheduler_cleanup.py.               *)
(***************************************************************************)
EXTENDS Naturals, Sequences, FiniteSets, SequencesExt

CONSTANTS
    Acquirer,       \* the acquisitions of a run
    SourceOf,       \* whose environment each one starts from, or Base
    Shares,         \* acquisitions with shared isolation
    Base,           \* the run's own environment
    MaxReleases,    \* bound: how often everything is released
    MaxBrokenCleanups     \* bound: cleanups that fail

(* an environment is named by the acquisition that built it *)
ASSUME PoolAssumption ==
    /\ IsFiniteSet(Acquirer) /\ Base \notin Acquirer /\ Shares \subseteq Acquirer
    /\ SourceOf \in [Acquirer -> (Acquirer \ Shares) \cup {Base}]
    /\ MaxReleases \in Nat /\ MaxBrokenCleanups \in Nat

VARIABLES
    session,    \* a SessionEnvironmentPool stands in front of the pool
    stage,      \* of an acquisition: "new", "waiting", "probe", "build", "undo", "void",
                \*   "closing", "held", "left" (its user gave it up, cleanup failed), "ended"
    tree,       \* its environment: "none", "half", "live", "torn"
    tracked,    \* _envs, by acquisition
    dep,        \* acquisitions whose environment is in _source_dependencies
    generation, genOf,
    refs,       \* _references, 0 without an owner entry
    owners,     \* _owners, in order
    rel,        \* release: "none", "shut", "owners", "drain", "sweep"
    todo,       \* environments the sweep has not come to
    dirty,      \* the sweep has met a failure
    released,   \* a release succeeded, and nothing was acquired since
    closed,     \* the session pool is closed
    rounds, broken

poolVars == <<session, stage, tree, tracked, dep, generation, genOf, refs, owners,
              rel, todo, dirty, released, closed, rounds, broken>>

PoolInit ==
    /\ session \in BOOLEAN
    /\ stage = [a \in Acquirer |-> "new"] /\ tree = [a \in Acquirer |-> "none"]
    /\ tracked = <<>> /\ dep = {} /\ generation = 0 /\ genOf = [a \in Acquirer |-> 0]
    /\ refs = [a \in Acquirer |-> 0] /\ owners = <<>> /\ rel = "none" /\ todo = <<>>
    /\ dirty = FALSE /\ released = FALSE /\ closed = FALSE /\ rounds = 0 /\ broken = 0

(* a shared acquisition works in the environment it starts from *)
EnvOf(a) == IF a \in Shares THEN SourceOf[a] ELSE a

Move(a, s)    == stage' = [stage EXCEPT ![a] = s]
Becomes(a, t) == tree' = [tree EXCEPT ![a] = t]
CleanupBreaks        == broken < MaxBrokenCleanups /\ broken' = broken + 1

Inflight == {a \in Acquirer : stage[a] \in {"probe", "build", "undo", "void"}}

(* calls of the session pool that have not returned *)
SessionInflight == Inflight \cup {a \in Acquirer : stage[a] \in {"waiting", "closing"}}

Depends(e) == \E a \in dep : SourceOf[a] = e

(* _owners and _references: one entry per environment *)
Register(a) ==
    IF session /\ (a \notin Shares \/ (EnvOf(a) # Base /\ refs[EnvOf(a)] > 0))
    THEN /\ refs' = [refs EXCEPT ![EnvOf(a)] = @ + 1]
         /\ owners' = IF refs[EnvOf(a)] = 0 THEN Append(owners, EnvOf(a)) ELSE owners
    ELSE UNCHANGED <<refs, owners>>

-----------------------------------------------------------------------------
(* acquire *)

(* the source is an environment its caller holds *)
AcquireEnv(a) ==
    /\ stage[a] = "new" /\ ~closed
    /\ SourceOf[a] # Base => stage[SourceOf[a]] = "held"
    /\ a \in Shares => session
    /\ IF a \in Shares
       THEN Move(a, "held") /\ Register(a)
       ELSE Move(a, "waiting") /\ UNCHANGED <<refs, owners>>
    /\ UNCHANGED <<session, tree, tracked, dep, generation, genOf, rel, todo, dirty,
                   released, closed, rounds, broken>>

(* _begin_acquire *)
Begin(a) ==
    /\ stage[a] = "waiting"
    /\ rel \notin {"drain", "sweep"}
    /\ Move(a, "probe")
    /\ genOf' = [genOf EXCEPT ![a] = generation]
    /\ released' = FALSE
    /\ UNCHANGED <<session, tree, tracked, dep, generation, refs, owners, rel, todo,
                   dirty, closed, rounds, broken>>

(* the source is looked at; with its lease the environment exists and       *)
(* depends on its source                                                    *)
Lease(a) ==
    /\ stage[a] = "probe"
    /\ \/ /\ Move(a, "build") /\ Becomes(a, "half")
          /\ dep' = IF SourceOf[a] = Base THEN dep ELSE dep \cup {a}
       \/ Move(a, "undo") /\ UNCHANGED <<tree, dep>>
    /\ UNCHANGED <<session, tracked, generation, genOf, refs, owners, rel, todo, dirty,
                   released, closed, rounds, broken>>

(* setup: it fails, is cancelled, or completes; what completes after a      *)
(* release began is cleaned up by its own acquisition, and what completes   *)
(* after the session pool closed is released again                          *)
Build(a) ==
    /\ stage[a] = "build"
    /\ \/ Move(a, "undo") /\ UNCHANGED <<tree, tracked, refs, owners>>
       \/ /\ SourceOf[a] # Base => tree[SourceOf[a]] = "live"
          /\ Becomes(a, "live")
          /\ IF genOf[a] # generation
             THEN Move(a, "void") /\ UNCHANGED <<tracked, refs, owners>>
             ELSE /\ tracked' = Append(tracked, a) /\ Register(a)
                  /\ Move(a, IF session /\ closed THEN "closing" ELSE "held")
    /\ UNCHANGED <<session, dep, generation, genOf, rel, todo, dirty, released, closed, rounds, broken>>

(* mutant: what a failed acquisition could not clean up is dropped *)
UndoForgets(a) ==
    /\ stage[a] \in {"undo", "void"}
    /\ \/ Becomes(a, IF tree[a] = "none" THEN "none" ELSE "torn") /\ UNCHANGED broken
       \/ tree[a] # "none" /\ CleanupBreaks /\ UNCHANGED tree
    /\ dep' = dep \ {a} /\ Move(a, "ended")
    /\ UNCHANGED <<session, tracked, generation, genOf, refs, owners, rel, todo, dirty, released, closed, rounds>>

(* the environment of a failed or outlived acquisition: cleaned up, whatever *)
(* cancels the caller meanwhile, or tracked for a retry                      *)
Undo(a) ==
    /\ stage[a] \in {"undo", "void"}
    /\ \/ /\ Becomes(a, IF tree[a] = "none" THEN "none" ELSE "torn")
          /\ dep' = dep \ {a}
          /\ UNCHANGED <<tracked, broken>>
       \/ /\ tree[a] # "none" /\ CleanupBreaks
          /\ tracked' = Append(tracked, a)
          /\ UNCHANGED <<tree, dep>>
    /\ Move(a, "ended")
    /\ UNCHANGED <<session, generation, genOf, refs, owners, rel, todo, dirty, released, closed, rounds>>

-----------------------------------------------------------------------------
(* release_env *)

(* the strategy pool cleans one environment up; it stays tracked when that  *)
(* fails                                                                    *)
Clean(e) ==
    \/ /\ Becomes(e, "torn")
       /\ tracked' = RemoveFirst(tracked, e) /\ dep' = dep \ {e}
       /\ UNCHANGED broken
    \/ /\ CleanupBreaks
       /\ UNCHANGED <<tree, tracked, dep>>

Free(e) ==
    /\ refs' = [refs EXCEPT ![e] = 0]
    /\ owners' = RemoveFirst(owners, e)

(* by a failed spawn, by a run that ends, or by an acquisition that finds   *)
(* the session pool closed; the release lock keeps it out of a release      *)
ReleaseEnv(a) ==
    /\ stage[a] \in {"held", "left"} \/ (stage[a] = "closing" /\ rel = "shut")
    /\ stage[a] = "closing" \/ rel = "none"
    /\ LET e == EnvOf(a)
       IN  \/ /\ e = Base \/ (e # Base /\ session /\ refs[e] > 1)
              /\ IF e = Base THEN UNCHANGED refs ELSE refs' = [refs EXCEPT ![e] = @ - 1]
              /\ Move(a, "ended")
              /\ UNCHANGED <<tree, tracked, dep, owners, broken>>
           \/ /\ e # Base /\ refs[e] <= 1 /\ Depends(e)
              /\ Move(a, IF stage[a] = "closing" THEN "ended" ELSE "left")
              /\ UNCHANGED <<tree, tracked, dep, refs, owners, broken>>
           \/ /\ e # Base /\ refs[e] <= 1 /\ ~Depends(e)
              /\ Clean(e)
              /\ IF tree'[e] = "torn"
                 THEN Free(e) /\ Move(a, "ended")
                 ELSE UNCHANGED <<refs, owners>> /\ Move(a, IF stage[a] = "closing" THEN "ended" ELSE "left")
    /\ UNCHANGED <<session, generation, genOf, rel, todo, dirty, released, closed, rounds>>

-----------------------------------------------------------------------------
(* release *)

Release ==
    /\ rel = "none" /\ rounds < MaxReleases
    /\ rounds' = rounds + 1 /\ dirty' = FALSE
    /\ IF session
       THEN closed' = TRUE /\ rel' = "shut" /\ UNCHANGED generation
       ELSE rel' = "drain" /\ generation' = generation + 1 /\ UNCHANGED closed
    /\ UNCHANGED <<session, stage, tree, tracked, dep, genOf, refs, owners, todo, released, broken>>

(* the session pool waits for its acquisitions, then releases every owner,  *)
(* the last one first; the first that fails ends the release                *)
Shut ==
    /\ rel = "shut" /\ SessionInflight = {}
    /\ rel' = "owners"
    /\ UNCHANGED <<session, stage, tree, tracked, dep, generation, genOf, refs, owners,
                   todo, dirty, released, closed, rounds, broken>>

ReleaseOwners ==
    /\ rel = "owners"
    /\ IF owners = <<>>
       THEN /\ rel' = "drain" /\ generation' = generation + 1
            /\ UNCHANGED <<tree, tracked, dep, refs, owners, broken>>
       ELSE /\ UNCHANGED generation
            /\ LET e == Last(owners)
               IN  \/ /\ ~Depends(e) /\ Clean(e) /\ tree'[e] = "torn"
                      /\ Free(e) /\ UNCHANGED rel
                   \/ /\ \/ Depends(e) /\ UNCHANGED <<tree, tracked, dep, broken>>
                         \/ ~Depends(e) /\ Clean(e) /\ tree'[e] # "torn"
                      /\ refs' = [refs EXCEPT ![e] = 1]
                      /\ rel' = "none" /\ UNCHANGED owners
    /\ UNCHANGED <<session, stage, genOf, todo, dirty, released, closed, rounds>>

Drain ==
    /\ rel = "drain" /\ Inflight = {}
    /\ rel' = "sweep" /\ todo' = Reverse(tracked)
    /\ UNCHANGED <<session, stage, tree, tracked, dep, generation, genOf, refs, owners,
                   dirty, released, closed, rounds, broken>>

(* _cleanup_owned, the last environment first: a failure leaves it for the  *)
(* next release and goes on                                                 *)
Sweep ==
    /\ rel = "sweep"
    /\ IF todo = <<>>
       THEN /\ rel' = "none" /\ released' = ~dirty
            /\ UNCHANGED <<tree, tracked, dep, todo, dirty, broken>>
       ELSE /\ todo' = Tail(todo)
            /\ IF Depends(Head(todo))
               THEN dirty' = TRUE /\ UNCHANGED <<tree, tracked, dep, broken>>
               ELSE Clean(Head(todo)) /\ dirty' = (dirty \/ tree'[Head(todo)] # "torn")
            /\ UNCHANGED <<rel, released>>
    /\ UNCHANGED <<session, stage, generation, genOf, refs, owners, closed, rounds>>

PoolStep ==
    \/ \E a \in Acquirer : Begin(a) \/ Lease(a) \/ Build(a) \/ Undo(a)
    \/ \E a \in Acquirer : stage[a] = "closing" /\ ReleaseEnv(a)
    \/ Shut \/ ReleaseOwners \/ Drain \/ Sweep

PoolNext ==
    \/ PoolStep \/ Release
    \/ \E a \in Acquirer : AcquireEnv(a) \/ ReleaseEnv(a)

(* the commands of a setup and of a cleanup end, by their timeouts if need be *)
PoolSpec == PoolInit /\ [][PoolNext]_poolVars /\ WF_poolVars(PoolStep)

-----------------------------------------------------------------------------
(* Properties *)

(* An environment that an agent holds is usable, and so is the one its      *)
(* files came from: no release of a sibling, of another user of the same    *)
(* environment or of an outlived acquisition takes it away.  Only the       *)
(* release of the whole pool does.                                          *)
LentIsUsable ==
    \A a \in Acquirer :
        /\ stage[a] = "held" /\ EnvOf(a) # Base /\ rounds = 0 => tree[EnvOf(a)] = "live"
        /\ a \in dep /\ tree[a] = "live" => tree[SourceOf[a]] = "live"

(* Every environment that was made and not torn down is in somebody's       *)
(* hands: an acquisition that is still at work on it, or the pool's list,   *)
(* whatever failed or was cancelled; so a release that succeeds leaves      *)
(* none behind, an acquisition it overtook included.                        *)
NothingEscapes ==
    \A a \in Acquirer :
        tree[a] \in {"half", "live"} =>
            /\ a \in Range(tracked) \/ stage[a] \in {"build", "undo", "void"}
            /\ ~released

(* What the pool has lent works, with everything it is made from, and what   *)
(* it has made is either lent or will still be cleaned up (acquire,          *)
(* release_env, release).                                                    *)
PoolIsSound == LentIsUsable /\ NothingEscapes

-----------------------------------------------------------------------------
(* The inductive invariant *)

PoolTypes ==
    /\ session \in BOOLEAN
    /\ stage \in [Acquirer -> {"new", "waiting", "probe", "build", "undo", "void", "closing",
                               "held", "left", "ended"}]
    /\ tree \in [Acquirer -> {"none", "half", "live", "torn"}]
    /\ tracked \in Seq(Acquirer) /\ dep \subseteq Acquirer
    /\ generation \in Nat /\ genOf \in [Acquirer -> Nat]
    /\ refs \in [Acquirer -> Nat] /\ owners \in Seq(Acquirer)
    /\ rel \in {"none", "shut", "owners", "drain", "sweep"} /\ todo \in Seq(Acquirer)
    /\ dirty \in BOOLEAN /\ released \in BOOLEAN /\ closed \in BOOLEAN
    /\ rounds \in Nat /\ broken \in Nat

Made(a) == tree[a] \in {"half", "live"}

(* An acquisition starts from an environment that somebody holds or held,   *)
(* and makes one of its own unless it shares.                               *)
AcquisitionFits(a) ==
    /\ stage[a] # "new" /\ SourceOf[a] # Base
          => stage[SourceOf[a]] \in {"held", "left", "ended"}
    /\ a \in Shares => stage[a] \in {"new", "held", "left", "ended"}
    /\ a \in Shares /\ ~session => stage[a] = "new"
    /\ a \in dep => SourceOf[a] # Base /\ stage[a] # "new"

AcquisitionsFit == \A a \in Acquirer : AcquisitionFits(a)

(* What is made is in somebody's hands; a sweep has on its list what is     *)
(* left of it, and nothing is made meanwhile nor after it succeeded.        *)
MadeIsKnown ==
    /\ \A a \in Acquirer : Made(a) => a \in Range(tracked) \/ stage[a] \in {"build", "undo", "void"}
    /\ rel = "sweep" \/ released => Inflight = {}
    /\ rel = "sweep" /\ ~dirty => \A a \in Acquirer : Made(a) => a \in Range(todo)
    /\ released => \A a \in Acquirer : ~Made(a)

(* An environment outlives those that are made from it.                     *)
SourcesLive == \A a \in dep : tree[a] = "live" => tree[SourceOf[a]] = "live"

Users(e) == {a \in Acquirer : EnvOf(a) = e /\ stage[a] \in {"held", "left"}}

Unreleased ==
    /\ rel = "none" /\ ~closed /\ generation = 0
    /\ \A a \in Acquirer : genOf[a] = 0 /\ stage[a] \notin {"closing", "void"}

RefsCountUsers == session => \A e \in Acquirer : refs[e] = Cardinality(Users(e))

HeldWorks == \A a \in Acquirer : stage[a] = "held" /\ EnvOf(a) # Base => tree[EnvOf(a)] = "live"

(* Until the pool is released for the first time, every environment in use  *)
(* is counted with all its users and works.                                 *)
BeforeRelease == rounds = 0 => Unreleased /\ RefsCountUsers /\ HeldWorks

PoolInv == PoolTypes /\ AcquisitionsFit /\ MadeIsKnown /\ SourcesLive /\ BeforeRelease
=============================================================================

----------------------------- MODULE TeamBudget -----------------------------
(***************************************************************************)
(* Token leases of the team scheduler.                                      *)
(*                                                                          *)
(* A dynamic roster books leases out of one pool: a turn leases what nobody *)
(* else holds, a spawned child leases at most one share, and a lease is     *)
(* given back when its owner's driver ends.  A declared roster books        *)
(* nothing: every seat has a cumulative cap.  Either way the lease becomes  *)
(* the session's limit, which is read before each generation, together with *)
(* the aggregate spend; a generation in flight is never interrupted by the  *)
(* budget, so its cost may overshoot both.                                  *)
(*                                                                          *)
(* Source: application/_scheduler_persistence.py, domain/scheduler.py, and  *)
(* the callers in scheduler_lifecycle.py, _scheduler_run.py,                *)
(* scheduler_messaging.py, session_run.py.                                  *)
(***************************************************************************)
EXTENDS Integers, Sequences, FiniteSetsExt

CONSTANTS
    MaxAid,     \* bound: agents are 0 .. MaxAid
    Total,      \* max_budget_tokens of the team
    ShareFloor, \* the floor of dynamic_roster_share (10_000 in the code)
    Declared,   \* prebuild_team: a declared roster of MaxAid + 1 seats
    Allowances, \* role_budgets: a cap of its own for every seat, or <<>>
    MaxCost,    \* bound: tokens one generation can cost
    MaxTurns,   \* bound: turns one session accepts
    MaxTeamTurns \* bound: turns of the team

ASSUME SizesAssumption ==
    /\ MaxAid \in Nat /\ Total \in Nat /\ ShareFloor \in Nat
    /\ MaxCost \in Nat /\ MaxTurns \in Nat /\ MaxTeamTurns \in Nat
ASSUME DeclaredAssumption == Declared \in BOOLEAN
ASSUME AllowancesAssumption ==
    Allowances # <<>> => Declared /\ Allowances \in [0 .. MaxAid -> Nat]

Aid   == 0 .. MaxAid
NoAid == MaxAid + 1

Least(x, y)    == IF x <= y THEN x ELSE y
Greatest(x, y) == IF x <= y THEN y ELSE x

(* absent; no driver; driver between generations; generation in flight;     *)
(* tool batch running; suspended on its children; driver past the release   *)
(* of its lease and before the delivery to its parent                       *)
Activity == {"absent", "idle", "ready", "gen", "tools", "awaiting", "ended"}

NoLease == [grant |-> 0, baseline |-> 0, live |-> FALSE]
Leases  == [grant : Nat, baseline : Nat, live : BOOLEAN]
Lease(g, b) == [grant |-> g, baseline |-> b, live |-> TRUE]

VARIABLES
    act, turns,     \* where the driver of an agent stands; turns it accepted
    used, spent,    \* used_tokens of a session and of the team
    limit,          \* max_budget_tokens of a session
    lease,          \* _turn_lease and _lease_baseline
    held,           \* _pending_provider_budget_leases, in order of booking
    drain,          \* a provider call that outlived its driver
    open,           \* children whose row is pending, per parent
    boot, saved,    \* spawn in progress: the child, the parent lease it released
    over            \* history: tokens spent beyond the spender's lease

vars == <<act, turns, used, spent, limit, lease, held, drain, open, boot, saved, over>>

-----------------------------------------------------------------------------
(* Shares and caps *)

DynamicShare == Least(Total, Greatest(ShareFloor, Total \div 4))

(* _agent_cap on a declared roster *)
Cap(a) == IF Allowances # <<>> THEN Allowances[a] ELSE Total \div (MaxAid + 1)

(* mutant: only an exhausted pool refuses a share *)
SplitBudgetWhole(committed) == IF committed >= Total THEN 0 ELSE DynamicShare

SplitBudget(committed) == Least(DynamicShare, Greatest(0, Total - committed))

Remaining(a, l) == Greatest(0, l.grant - Greatest(0, used[a] - l.baseline))

(* what is booked for an agent: its lease, and those its provider call keeps *)
LiveLease(b)  == IF lease[b].live THEN Remaining(b, lease[b]) ELSE 0
HeldLeases(b) == SumFunction([i \in DOMAIN held[b] |-> Remaining(b, held[b][i])])

(* _budget_committed without the lease of `a` when `a` is an agent *)
CommittedWithout(a) ==
    IF Declared THEN spent
    ELSE spent + SumFunctionOnSet([b \in Aid |-> LiveLease(b)], Aid \ {a})
               + SumFunction([b \in Aid |-> HeldLeases(b)])

Committed == CommittedWithout(NoAid)

(* budget_exhausted *)
TeamExhausted ==
    IF Allowances # <<>>
    THEN \A a \in Aid : act[a] # "absent" => used[a] >= Cap(a)
    ELSE spent >= Total

(* _grant_under_cap *)
GrantUnderCap(a) ==
    IF Allowances # <<>> THEN Greatest(0, Cap(a) - used[a])
    ELSE Greatest(0, Least(Cap(a) - used[a], Total - spent))

-----------------------------------------------------------------------------
(* Leases.  Each operator gives the new lease of `a`; its limit follows.    *)

(* _reserve_turn_lease releases the old lease first *)
TurnGrant(a) ==
    IF Declared THEN GrantUnderCap(a) ELSE Greatest(0, Total - CommittedWithout(a))

LeaseOf(a, grant) == IF grant > 0 THEN Lease(grant, used[a]) ELSE NoLease

ReserveTurnLease(a) ==
    /\ lease' = [lease EXCEPT ![a] = LeaseOf(a, TurnGrant(a))]
    /\ limit' = [limit EXCEPT ![a] = used[a] + TurnGrant(a)]

(* _reserve_message_budget: may the turn start?                             *)
TakesPool(a) == Declared \/ a = 0

MessageGrant(a) == IF TakesPool(a) THEN TurnGrant(a) ELSE SplitBudget(Committed)

MessageBudgetOk(a) == Declared \/ MessageGrant(a) > 0 \/ TeamExhausted

ReserveMessageBudget(a) ==
    IF ~TakesPool(a) /\ lease[a].live THEN UNCHANGED <<lease, limit>>
    ELSE /\ MessageBudgetOk(a)
         /\ lease' = [lease EXCEPT ![a] = LeaseOf(a, MessageGrant(a))]
         /\ limit' = [limit EXCEPT ![a] = used[a] + MessageGrant(a)]

(* _restore_turn_lease of `l`, when `a` holds nothing and `free` tokens are *)
(* not committed                                                            *)
RestoredGrant(a, l, free) == Least(Remaining(a, l), Greatest(0, free))

(* _release_leases: a dynamic lease stays booked while a provider call that *)
(* may still report usage is draining                                       *)
ReleaseLeases(a) ==
    /\ held' = IF drain[a] /\ lease[a].live /\ ~Declared
               THEN [held EXCEPT ![a] = Append(@, lease[a])] ELSE held
    /\ lease' = [lease EXCEPT ![a] = NoLease]

-----------------------------------------------------------------------------
(* register_lead books agent 0's share; a declared roster is seated by      *)
(* prebuild_team and books nothing.                                         *)
Init ==
    /\ act = [a \in Aid |-> IF a = 0 \/ Declared THEN "idle" ELSE "absent"]
    /\ turns = [a \in Aid |-> 0]
    /\ used = [a \in Aid |-> 0]
    /\ spent = 0
    /\ limit = [a \in Aid |-> IF Declared THEN Cap(a) ELSE IF a = 0 THEN Total ELSE 0]
    /\ lease = [a \in Aid |-> IF a = 0 /\ ~Declared THEN Lease(DynamicShare, 0) ELSE NoLease]
    /\ held = [a \in Aid |-> <<>>]
    /\ drain = [a \in Aid |-> FALSE]
    /\ open = [a \in Aid |-> {}]
    /\ boot = [a \in Aid |-> NoAid]
    /\ saved = [a \in Aid |-> NoLease]
    /\ over = 0

-----------------------------------------------------------------------------
(* Turns *)

(* the bounds on turns *)
TurnLeft(a) ==
    turns[a] < MaxTurns /\ SumFunction(turns) < MaxTeamTurns

(* A public turn: _run_turn_exclusive reserves, appends the message, starts *)
(* the driver.                                                              *)
PublicTurn ==
    /\ act[0] = "idle" /\ TurnLeft(0)
    /\ turns' = [turns EXCEPT ![0] = @ + 1]
    /\ ReserveTurnLease(0)
    /\ act' = [act EXCEPT ![0] = "ready"]
    /\ UNCHANGED <<used, spent, held, drain, open, boot, saved, over>>

(* An agent that ran, or a seat, may take a teammate's message.             *)
TakesMessage(a) ==
    act[a] = "idle" /\ ~drain[a] /\ TurnLeft(a) /\ (Declared \/ turns[a] > 0)

(* A teammate message starts a turn: _drain_message_inbox_locked.           *)
MessageTurn(a) ==
    /\ TakesMessage(a)
    /\ turns' = [turns EXCEPT ![a] = @ + 1]
    /\ ReserveMessageBudget(a)
    /\ act' = [act EXCEPT ![a] = "ready"]
    /\ UNCHANGED <<used, spent, held, drain, open, boot, saved, over>>

(* _append_user_turn_txn: the message cannot be appended.  The turn's       *)
(* reservation is released and the lease held before it, if any, restored.  *)
AppendFails(a) ==
    LET prior == lease[a]
        grant == RestoredGrant(a, prior, Total - CommittedWithout(a))
    IN
    /\ (a = 0 /\ act[0] = "idle" /\ TurnLeft(0)) \/ TakesMessage(a)
    /\ MessageBudgetOk(a)
    /\ lease' = [lease EXCEPT ![a] = IF prior.live THEN LeaseOf(a, grant) ELSE NoLease]
    /\ limit' = [limit EXCEPT ![a] = used[a] + (IF prior.live THEN grant ELSE MessageGrant(a))]
    /\ UNCHANGED <<act, turns, used, spent, held, drain, open, boot, saved, over>>

-----------------------------------------------------------------------------
(* Generations *)

(* mutant: neither the session limit nor the team total is prechecked *)
MayAlwaysGenerate(a) == ~drain[a]

(* precheck and _request_output_limit: the session's own limit, then the    *)
(* team's.  A session whose earlier provider call drains cannot run.        *)
MayGenerate(a) == used[a] < limit[a] /\ ~TeamExhausted /\ ~drain[a]

StartGeneration(a) ==
    /\ act[a] = "ready" /\ MayGenerate(a)
    /\ act' = [act EXCEPT ![a] = "gen"]
    /\ UNCHANGED <<turns, used, spent, limit, lease, held, drain, open, boot, saved, over>>

(* What `cost` more tokens of `a` exceed its lease by. *)
Excess(a, cost) ==
    Greatest(0, cost - (IF lease[a].live THEN Remaining(a, lease[a]) ELSE 0))

Charge(a, cost) ==
    /\ used' = [used EXCEPT ![a] = @ + cost]
    /\ spent' = spent + cost

(* run_llm_call: the response is charged; beyond the limit the session      *)
(* stops, otherwise it answers, continues, or runs a tool batch.            *)
EndGeneration(a) ==
    /\ act[a] = "gen"
    /\ \E cost \in 0 .. MaxCost :
          /\ Charge(a, cost)
          /\ over' = over + Excess(a, cost)
          /\ \/ /\ act' = [act EXCEPT ![a] = "ended"]
                /\ ReleaseLeases(a)
             \/ /\ used'[a] <= limit[a]
                /\ \E next \in {"ready", "tools"} : act' = [act EXCEPT ![a] = next]
                /\ UNCHANGED <<held, lease>>
    /\ UNCHANGED <<turns, limit, drain, open, boot, saved>>

(* The driver is cancelled, or the generation times out, and the provider   *)
(* call survives it.                                                        *)
AbandonGeneration(a) ==
    /\ act[a] = "gen"
    /\ drain' = [drain EXCEPT ![a] = TRUE]
    /\ held' = IF lease[a].live /\ ~Declared
               THEN [held EXCEPT ![a] = Append(@, lease[a])] ELSE held
    /\ lease' = [lease EXCEPT ![a] = NoLease]
    /\ act' = [act EXCEPT ![a] = "ended"]
    /\ UNCHANGED <<turns, used, spent, limit, open, boot, saved, over>>

(* _record_late_provider_result, then _finish_provider_budget_lease of every *)
(* reservation that waits for this call                                      *)
LateUsage(a) ==
    /\ drain[a]
    /\ \E cost \in 0 .. MaxCost :
          /\ Charge(a, cost)
          /\ over' = over + Greatest(0, cost - (IF held[a] # <<>>
                                                 THEN Remaining(a, held[a][1]) ELSE 0))
    /\ drain' = [drain EXCEPT ![a] = FALSE]
    /\ held' = [held EXCEPT ![a] = <<>>]
    /\ UNCHANGED <<act, turns, limit, lease, open, boot, saved>>

(* The turn is over for another reason: a precheck stop, an error. *)
StopTurn(a) ==
    /\ act[a] = "ready"
    /\ ReleaseLeases(a)
    /\ act' = [act EXCEPT ![a] = "ended"]
    /\ UNCHANGED <<turns, used, spent, limit, drain, open, boot, saved, over>>

-----------------------------------------------------------------------------
(* Spawning and joining (dynamic roster only) *)

(* spawn up to its first await: the parent's unused lease goes back to the  *)
(* pool and the child books its share.                                      *)
Spawn(p, c) ==
    LET grant == SplitBudget(CommittedWithout(p)) IN
    /\ ~Declared /\ act[p] = "tools" /\ boot[p] = NoAid
    /\ act[c] = "absent" /\ c # 0 /\ \A q \in Aid : boot[q] # c
    /\ saved' = [saved EXCEPT ![p] = lease[p]]
    /\ lease' = [lease EXCEPT ![p] = NoLease, ![c] = Lease(grant, used[c])]
    /\ limit' = [limit EXCEPT ![c] = grant]
    /\ boot' = [boot EXCEPT ![p] = c]
    /\ UNCHANGED <<act, turns, used, spent, held, drain, open, over>>

(* The child got a budget and an environment: its driver starts. *)
SpawnStarts(p) ==
    /\ boot[p] # NoAid /\ lease[boot[p]].grant > 0
    /\ act' = [act EXCEPT ![boot[p]] = "ready"]
    /\ turns' = [turns EXCEPT ![boot[p]] = 1]
    /\ open' = [open EXCEPT ![p] = @ \cup {boot[p]}]
    /\ boot' = [boot EXCEPT ![p] = NoAid]
    /\ saved' = [saved EXCEPT ![p] = NoLease]
    /\ UNCHANGED <<used, spent, limit, lease, held, drain, over>>

(* _rollback_failed_spawn, then _restore_turn_lease of the parent           *)
SpawnFails(p) ==
    LET c == boot[p]
        free == Total - (CommittedWithout(c) - (IF lease[p].live THEN Remaining(p, lease[p]) ELSE 0))
        grant == RestoredGrant(p, saved[p], free)
    IN
    /\ c # NoAid
    /\ lease' = [lease EXCEPT ![c] = NoLease,
                              ![p] = IF saved[p].live THEN LeaseOf(p, grant) ELSE @]
    /\ limit' = IF saved[p].live THEN [limit EXCEPT ![p] = used[p] + grant] ELSE limit
    /\ boot' = [boot EXCEPT ![p] = NoAid]
    /\ saved' = [saved EXCEPT ![p] = NoLease]
    /\ UNCHANGED <<act, turns, used, spent, held, drain, open, over>>

(* The batch is issued: the parent suspends on its open rows, or, when they *)
(* are all filled, goes on to its next generation.                          *)
FinishBatch(p) ==
    /\ act[p] = "tools" /\ boot[p] = NoAid
    /\ act' = [act EXCEPT ![p] = IF open[p] = {} THEN "ready" ELSE "awaiting"]
    /\ UNCHANGED <<turns, used, spent, limit, lease, held, drain, open, boot, saved, over>>

(* _deliver_to_parent and _wake: the child's row is filled; the last fill   *)
(* of a suspended parent leases it a fresh turn.                            *)
Deliver(c) ==
    LET parents == {p \in Aid : c \in open[p]}
        woken == {p \in parents : act[p] = "awaiting" /\ open[p] = {c}}
    IN
    /\ act[c] = "ended"
    /\ open' = [p \in Aid |-> open[p] \ {c}]
    /\ act' = [a \in Aid |-> IF a = c THEN "idle" ELSE IF a \in woken THEN "ready" ELSE act[a]]
    /\ \/ woken = {} /\ UNCHANGED <<lease, limit>>
       \/ \E p \in woken : ReserveTurnLease(p)
    /\ UNCHANGED <<turns, used, spent, held, drain, boot, saved, over>>

-----------------------------------------------------------------------------

AgentStep(a) ==
    \/ MessageTurn(a) \/ AppendFails(a) \/ StartGeneration(a) \/ EndGeneration(a)
    \/ AbandonGeneration(a) \/ LateUsage(a) \/ StopTurn(a)
    \/ (\E c \in Aid : Spawn(a, c)) \/ SpawnStarts(a) \/ SpawnFails(a)
    \/ FinishBatch(a) \/ Deliver(a)

Next == PublicTurn \/ \E a \in Aid : AgentStep(a)

Spec == Init /\ [][Next]_vars

-----------------------------------------------------------------------------
(* Properties *)

TypeOK ==
    /\ act \in [Aid -> Activity] /\ turns \in [Aid -> Nat]
    /\ used \in [Aid -> Nat] /\ spent \in Nat /\ limit \in [Aid -> Nat]
    /\ lease \in [Aid -> Leases] /\ held \in [Aid -> Seq(Leases)]
    /\ drain \in [Aid -> BOOLEAN] /\ open \in [Aid -> SUBSET Aid]
    /\ boot \in [Aid -> Aid \cup {NoAid}] /\ saved \in [Aid -> Leases]
    /\ over \in Nat

(* A dynamic pool is never oversubscribed by booking: what is spent and     *)
(* what is booked exceed the total only by what generations in flight spent *)
(* beyond their own lease (_budget_committed, split_budget).                *)
PoolNotOversubscribed == ~Declared => Committed <= Total + over

(* The precheck of the aggregate spend bounds the overshoot: at most one    *)
(* generation per agent, late provider responses included, lands beyond the *)
(* team's total (budget_exhausted).                                         *)
InFlight == {a \in Aid : act[a] = "gen" \/ drain[a]}

TeamOvershootBounded ==
    Allowances = <<>> =>
        spent + Cardinality(InFlight) * MaxCost <= Greatest(Total - 1, 0) + (MaxAid + 1) * MaxCost

(* A declared seat exceeds its own cap by less than one generation, however *)
(* its turns, failed appends and late responses interleave                  *)
(* (_grant_under_cap, "the agent cap applies to cumulative spend").         *)
SeatCapHolds ==
    Declared => \A a \in Aid : used[a] + (IF a \in InFlight THEN MaxCost ELSE 0)
                                 <= Greatest(Cap(a) - 1, 0) + MaxCost

(* The inductive form: a lease and the limit it sets never reach beyond the *)
(* cap, and what is in flight was started below it.                         *)
SeatInv ==
    Declared => \A a \in Aid :
        /\ boot[a] = NoAid
        /\ limit[a] <= Greatest(Cap(a), used[a])
        /\ lease[a].live =>
              /\ lease[a].baseline <= used[a]
              /\ lease[a].baseline + lease[a].grant <= Greatest(Cap(a), lease[a].baseline)
        /\ act[a] = "gen" => ~drain[a]
        /\ a \in InFlight => used[a] < Cap(a)
        /\ used[a] <= Greatest(Cap(a) - 1, 0) + MaxCost

(* A suspended parent holds no lease: its unspent grant is back in the pool *)
(* while its children work (spawn).                                         *)
SuspendedHoldsNothing == \A a \in Aid : act[a] = "awaiting" => ~lease[a].live

(* "the parent will acquire a fresh lease when the complete pending batch   *)
(* wakes it for its next generation": an agent of a dynamic roster          *)
(* generates under a lease of its own.                                      *)
GeneratesUnderLease == ~Declared => \A a \in Aid : act[a] = "gen" => lease[a].live
=============================================================================

------------------------------ MODULE Messaging ------------------------------
(***************************************************************************)
(* Teammate messages of a declared team.                                    *)
(*                                                                          *)
(* An accepted message lives in two places until it is delivered: the       *)
(* scheduler's inbox and the recipient's durable sidecar.  A delivery       *)
(* appends a bounded FIFO prefix of the inbox to the recipient's history,   *)
(* awaits the event subscribers, dequeues the prefix from both places and   *)
(* starts the recipient's driver.  Many tasks attempt it: the sender, the   *)
(* recipient's ending driver, the sweep of any ending driver, and the       *)
(* public turn.  A session that stops owes a notice to every teammate whose *)
(* message it leaves unanswered.  The process may crash at any moment; only *)
(* agent 0 is restored, from its last snapshot.                             *)
(*                                                                          *)
(* One action is the code between two awaits of one task.  The team         *)
(* delegates nothing (DeferredJoin models suspension), so a session is idle,*)
(* running or terminal.                                                     *)
(*                                                                          *)
(* Source: application/scheduler_messaging.py, _scheduler_stop_notice.py,   *)
(* _scheduler_run.py, scheduler_lifecycle.py, session.py, autosave.py.      *)
(***************************************************************************)
EXTENDS Naturals, Sequences, FiniteSets

CONSTANTS
    MaxAid,     \* agents are 0 .. MaxAid, 0 is the lead
    MaxMsg,     \* bound: messages and notices of a run
    MaxTurns,   \* bound: public turns
    MaxInbox,   \* MAX_TEAMMATE_INBOX_MESSAGES (and _BYTES)
    MaxBatch,   \* messages that fit MAX_TEAMMATE_DELIVERY_BYTES
    MaxRestarts,\* bound: crashes of the process
    Events      \* bound: which events from outside happen in an instance

ASSUME BoundsAssumption ==
    /\ MaxAid \in Nat \ {0} /\ MaxMsg \in Nat \ {0} /\ MaxTurns \in Nat \ {0}
    /\ MaxInbox \in Nat \ {0} /\ MaxBatch \in Nat \ {0}
    /\ MaxRestarts \in Nat
ASSUME EventsAssumption ==
    Events \subseteq {"cancel", "timeout", "owner", "broke", "diff", "shutdown"}

Aid  == 0 .. MaxAid
Id   == 1 .. MaxMsg
NoId == 0
Turn == MaxAid + 1      \* the public turn's task, as the task that appends
None == MaxAid + 2      \* nobody appends
Old  == MaxAid + 3      \* a driver that was replaced while it drained

(* STOPPED by the user is told apart: it holds the inbox after a restore.   *)
Failed   == {"failed", "interrupted"}
Terminal == Failed \cup {"done"}
Phase    == Terminal \cup {"idle", "running"}

(* Where the driver task of an agent stands:                                *)
(*   new     started, its run loop has not claimed the queued user turn     *)
(*   run     inside session.run_loop                                        *)
(*   ended   terminal: diff, trace and events                               *)
(*   notify  a failed session's own notices                                 *)
(*   own     draining its own inbox                                         *)
(*   sweep   draining every other inbox that was not empty                  *)
(*   owed    the notices of every failed session                            *)
(*   late    draining its own inbox once more                               *)
Job == {"none", "new", "run", "ended", "notify", "own", "sweep", "owed", "late"}

VARIABLES
    inbox,      \* _message_inbox, ids in order
    side,       \* pending_user_messages: delivery_status of every id
    hist,       \* ids in the message history
    ext,        \* pending_external_user_turn is set
    phase, job,
    tails,      \* agents with a replaced driver that is still sweeping
    todo,       \* the inboxes a sweeping driver has still to drain
    wait,       \* the exchanges <<stopped, sender, id>> a driver has still to settle
    app, by, batch, saved,  \* the append in progress: kind, task, prefix, checkpoint
    hold,       \* _cancelled_turn_inbox_holds
    unans,      \* _unanswered[a][b]: b's message that a has not answered
    from, about,\* sender of an id; the exchange a notice closes (NoId: teammate message)
    answered,   \* history: exchanges closed by a reply
    nextId,
    seats,      \* agents of the present roster
    owner,      \* sessions whose provider call outlives their driver
    funded,     \* _reserve_message_budget succeeds
    turn, turns, cancelEv,  \* run_turn(0), accepted turns, its cancel event
    shutting,
    disk, dirty, epoch      \* agent 0's snapshot, a save is due, restarts

boxVars  == <<inbox, side, hist, ext>>
appVars  == <<app, by, batch, saved>>
noteVars == <<unans, from, about, answered, nextId>>
jobVars  == <<job, tails, todo, wait>>
teamVars == <<seats, owner, funded, shutting>>
turnVars == <<turn, turns, cancelEv>>
diskVars == <<disk, epoch>>
vars == <<boxVars, phase, jobVars, appVars, hold, noteVars, teamVars, turnVars,
          diskVars, dirty>>

-----------------------------------------------------------------------------

Ids(s) == {s[i] : i \in DOMAIN s}

IsNotice(m) == about[m] # NoId

(* what agent 0's snapshot holds *)
Snapshot == [side |-> side[0], hist |-> hist[0], ext |-> ext[0], phase |-> phase[0]]

(* _autosave_session, and the subscriber of user_message_appended and       *)
(* step_end.  A snapshot that no restart of the instance can read is not    *)
(* asked for.                                                               *)
AskSave(c) == dirty \/ (c /\ epoch < MaxRestarts)

Init ==
    /\ inbox = [a \in Aid |-> <<>>]
    /\ side = [a \in Aid |-> [m \in Id |-> "none"]]
    /\ hist = [a \in Aid |-> <<>>]
    /\ ext = [a \in Aid |-> FALSE]
    /\ phase = [a \in Aid |-> "idle"]
    /\ job = [a \in Aid |-> "none"] /\ tails = {}
    /\ todo = [a \in Aid |-> {}] /\ wait = [a \in Aid |-> {}]
    /\ app = [a \in Aid |-> "free"] /\ by = [a \in Aid |-> None]
    /\ batch = [a \in Aid |-> 0] /\ saved = [a \in Aid |-> "idle"]
    /\ hold = {}
    /\ unans = [a \in Aid |-> [b \in Aid |-> NoId]]
    /\ from = [m \in Id |-> 0] /\ about = [m \in Id |-> NoId]
    /\ answered = {} /\ nextId = 1
    /\ seats = Aid /\ owner = {} /\ funded = TRUE
    /\ turn = "idle" /\ turns = 0 /\ cancelEv = FALSE
    /\ shutting = FALSE
    /\ disk = Snapshot /\ dirty = FALSE /\ epoch = 0

-----------------------------------------------------------------------------
(* _drain_message_inbox_locked *)

(* _message_route_error: the sender still exists, and the subject of a      *)
(* notice is still stopped.                                                 *)
RouteOk(m) ==
    /\ from[m] \in seats
    /\ IsNotice(m) => phase[from[m]] \in Failed

(* the session can accept a user turn: no append, driver, queued turn or    *)
(* provider call of its own                                                 *)
Accepts(a) ==
    /\ app[a] = "free" /\ ~ext[a] /\ a \notin owner
    /\ phase[a] \in Terminal \cup {"idle"}

(* no driver of `a` is alive, except the one that drains its own inbox *)
Free(a, who) == job[a] = "none" \/ (who = a /\ job[a] \in {"own", "late"})

(* a deliverable message would start a turn of `a` now *)
CanStart(a, who) ==
    ~shutting /\ funded /\ Accepts(a) /\ Free(a, who)

(* The hold of a cancelled turn: kept from an earlier delivery, or due now. *)
Holds(a) == a \in hold \/ (a = 0 /\ cancelEv /\ phase[0] \in Terminal)

Shorter(n, m) == IF n < m THEN n ELSE m

(* The attempt of task `who` to deliver to `a`, after `new` (nothing, or    *)
(* the message just accepted) joined the inbox and the outstanding          *)
(* exchanges became `un`: undeliverable messages are rejected, a cancelled  *)
(* turn keeps the rest, and a prefix of it is appended when the session can *)
(* take a turn.  The append stays open until its subscribers have run.      *)
Drain(a, who, new, un) ==
    LET kept == SelectSeq(inbox[a], RouteOk) \o new
        lost == Ids(inbox[a]) \ Ids(kept)
        go   == kept # <<>> /\ ~Holds(a) /\ CanStart(a, who)
        n    == Shorter(MaxBatch, Len(kept))
    IN
    /\ inbox' = [inbox EXCEPT ![a] = kept]
    /\ side' = [side EXCEPT ![a] =
          [m \in Id |-> IF m \in lost THEN "rejected"
                        ELSE IF m \notin Ids(kept) THEN side[a][m]
                        ELSE IF Holds(a) THEN "held"
                        ELSE IF m \in Ids(new) THEN "pending" ELSE side[a][m]]]
    /\ unans' = [un EXCEPT ![a] =
          [b \in Aid |-> IF un[a][b] \in lost THEN NoId ELSE un[a][b]]]
    /\ hold' = IF kept # <<>> /\ Holds(a) THEN hold \cup {a} ELSE hold
    /\ IF go
       THEN /\ hist' = [hist EXCEPT ![a] = @ \o SubSeq(kept, 1, n)]
            /\ ext' = [ext EXCEPT ![a] = TRUE]
            /\ phase' = [phase EXCEPT ![a] = "idle"]
            /\ app' = [app EXCEPT ![a] = "msg"]
            /\ by' = [by EXCEPT ![a] = who]
            /\ batch' = [batch EXCEPT ![a] = n]
            /\ saved' = [saved EXCEPT ![a] = phase[a]]
       ELSE UNCHANGED <<hist, ext, phase, appVars>>
    /\ dirty' = AskSave(a = 0 /\ (go \/ side'[0] # side[0]))

(* the attempt on what is queued already *)
Redrain(a, who) ==
    /\ Drain(a, who, <<>>, unans)
    /\ UNCHANGED <<from, about, answered, nextId>>

(* The lock of `a` is free: a message append holds it, a user append does   *)
(* not.                                                                     *)
Unlocked(a) == app[a] # "msg"

Blocked(who) == \E b \in Aid : by[b] = who

(* Past the append: the prefix leaves the inbox and the sidecar, and the    *)
(* driver starts.  A driver that delivered to its own session is replaced   *)
(* in _tasks and goes on to its sweep.                                      *)
FinishDelivery(a) ==
    LET done == Ids(SubSeq(inbox[a], 1, batch[a])) IN
    /\ app[a] = "msg"
    /\ inbox' = [inbox EXCEPT ![a] = SubSeq(@, batch[a] + 1, Len(@))]
    /\ side' = [side EXCEPT ![a] = [m \in Id |-> IF m \in done THEN "none" ELSE @[m]]]
    /\ app' = [app EXCEPT ![a] = "free"] /\ by' = [by EXCEPT ![a] = None]
    /\ batch' = [batch EXCEPT ![a] = 0] /\ saved' = [saved EXCEPT ![a] = "idle"]
    /\ job' = IF shutting THEN job ELSE [job EXCEPT ![a] = "new"]
    /\ tails' = IF by[a] = a /\ job[a] = "own" /\ ~shutting THEN tails \cup {a} ELSE tails
    /\ dirty' = AskSave(a = 0)
    /\ UNCHANGED <<hist, ext, phase, todo, wait, hold, noteVars, teamVars, turnVars, diskVars>>

(* The appending task is cancelled: a tool call by its timeout, any task by *)
(* the shutdown.                                                            *)
AppendCancelled(a) ==
    /\ app[a] # "free"
    /\ \/ shutting
       \/ "timeout" \in Events /\ by[a] \in Aid /\ job[by[a]] = "run"

(* mutant: the dequeue runs for a failed append too *)
AppendFailsDequeues(a) ==
    /\ AppendCancelled(a)
    /\ hist' = [hist EXCEPT ![a] = SubSeq(@, 1, Len(@) - batch[a])]
    /\ inbox' = [inbox EXCEPT ![a] = SubSeq(@, batch[a] + 1, Len(@))]
    /\ side' = [side EXCEPT ![a] = [m \in Id |->
          IF m \in Ids(SubSeq(inbox[a], 1, batch[a])) THEN "none" ELSE @[m]]]
    /\ ext' = [ext EXCEPT ![a] = FALSE]
    /\ phase' = [phase EXCEPT ![a] = saved[a]]
    /\ app' = [app EXCEPT ![a] = "free"] /\ by' = [by EXCEPT ![a] = None]
    /\ batch' = [batch EXCEPT ![a] = 0] /\ saved' = [saved EXCEPT ![a] = "idle"]
    /\ dirty' = AskSave(a = 0)
    /\ UNCHANGED <<jobVars, hold, noteVars, teamVars, turnVars, diskVars>>

(* A failed append is rolled back to its checkpoint. *)
AppendFails(a) ==
    /\ AppendCancelled(a)
    /\ hist' = [hist EXCEPT ![a] = SubSeq(@, 1, Len(@) - batch[a])]
    /\ ext' = [ext EXCEPT ![a] = FALSE]
    /\ phase' = [phase EXCEPT ![a] = saved[a]]
    /\ app' = [app EXCEPT ![a] = "free"] /\ by' = [by EXCEPT ![a] = None]
    /\ batch' = [batch EXCEPT ![a] = 0] /\ saved' = [saved EXCEPT ![a] = "idle"]
    /\ dirty' = AskSave(a = 0)
    /\ UNCHANGED <<inbox, side, jobVars, hold, noteVars, teamVars, turnVars, diskVars>>

-----------------------------------------------------------------------------
(* send_message and notify_unanswered_senders *)

(* Message `nextId` from `a`; `x` is the exchange it closes as a notice.    *)
Enqueue(a, x) ==
    /\ nextId \in Id /\ nextId' = nextId + 1
    /\ from' = [from EXCEPT ![nextId] = a]
    /\ about' = [about EXCEPT ![nextId] = x]

(* _record_teammate_exchange: a reverse message answers the outstanding     *)
(* one, any other opens an exchange.                                        *)
Exchange(a, b, m) ==
    IF unans[a][b] # NoId THEN [unans EXCEPT ![a][b] = NoId]
                          ELSE [unans EXCEPT ![b][a] = m]

(* The model of `a` sends a message to `b`. *)
Send(a, b) ==
    /\ a # b /\ b \in seats /\ ~shutting
    /\ job[a] = "run" /\ ~Blocked(a) /\ Unlocked(b)
    /\ Len(inbox[b]) < MaxInbox
    /\ Enqueue(a, NoId)
    /\ answered' = answered \cup ({unans[a][b]} \ {NoId})
    /\ Drain(b, a, <<nextId>>, Exchange(a, b, nextId))
    /\ UNCHANGED <<jobVars, teamVars, turnVars, diskVars>>

(* The exchanges of the sessions in S that a notifier sees outstanding.     *)
Outstanding(S) == {<<a, b, unans[a][b]>> : a \in S, b \in Aid} \ (Aid \X Aid \X {NoId})

(* mutant: the exchange is not looked up again under the recipient's lock *)
NotifyStale(a, b, x, who) ==
    IF phase[b] \in Failed \/ Len(inbox[b]) >= MaxInbox \/ nextId \notin Id
    THEN UNCHANGED <<boxVars, phase, appVars, hold, noteVars, dirty>>
    ELSE /\ Enqueue(a, x)
         /\ Drain(b, who, <<nextId>>, [unans EXCEPT ![a][b] = NoId])
         /\ UNCHANGED answered

(* Task `who` settles exchange `x` that stopped session `a` owes to `b`,    *)
(* under `b`'s lock: it may have been answered or noticed meanwhile, it may *)
(* still reach a later turn of `a`, `b` may be gone, or its inbox full.     *)
Notify(a, b, x, who) ==
    LET valid == /\ unans[a][b] = x /\ phase[a] \in Failed
                 /\ ~(a \notin hold /\ x \in Ids(inbox[a])) /\ ~shutting
        moot  == b \notin seats \/ phase[b] \in Failed
        room  == Len(inbox[b]) < MaxInbox /\ nextId \in Id
    IN  CASE valid /\ moot ->
               /\ unans' = [unans EXCEPT ![a][b] = NoId]
               /\ UNCHANGED <<boxVars, phase, appVars, hold, from, about, answered,
                              nextId, dirty>>
          [] valid /\ ~moot /\ room ->
               /\ Enqueue(a, x)
               /\ Drain(b, who, <<nextId>>, [unans EXCEPT ![a][b] = NoId])
               /\ UNCHANGED answered
          [] OTHER -> UNCHANGED <<boxVars, phase, appVars, hold, noteVars, dirty>>

-----------------------------------------------------------------------------
(* The driver of an agent *)

(* The run loop claims the queued user turn. *)
EnterLoop(a) ==
    /\ job[a] = "new" /\ ~shutting
    /\ job' = [job EXCEPT ![a] = "run"]
    /\ ext' = [ext EXCEPT ![a] = FALSE]
    /\ phase' = [phase EXCEPT ![a] = "running"]
    /\ UNCHANGED <<inbox, side, hist, tails, todo, wait, appVars, hold, noteVars, teamVars,
                   turnVars, diskVars, dirty>>

(* The run loop ends; its closing checkpoint asks for a save.  A provider   *)
(* call that was given up may still run.                                    *)
EndRun(a, p) ==
    /\ job[a] = "run" /\ ~Blocked(a) /\ ~shutting
    /\ p = "interrupted" => a = 0 /\ cancelEv
    /\ job' = [job EXCEPT ![a] = "ended"]
    /\ phase' = [phase EXCEPT ![a] = p]
    /\ \/ owner' = owner
       \/ "owner" \in Events /\ p \in Failed /\ owner' = owner \cup {a}
    /\ dirty' = AskSave(a = 0)
    /\ UNCHANGED <<boxVars, tails, todo, wait, appVars, hold, noteVars, seats, funded,
                   shutting, turnVars, diskVars>>

(* Past the diff and the events; a diff that cannot be taken fails the      *)
(* session.  A failed session settles its exchanges.                        *)
Finalize(a) ==
    /\ job[a] = "ended" /\ ~shutting
    /\ \/ phase' = phase
       \/ "diff" \in Events /\ phase[a] = "done" /\ phase' = [phase EXCEPT ![a] = "failed"]
    /\ wait' = [wait EXCEPT ![a] = IF phase'[a] \in Failed THEN Outstanding({a}) ELSE {}]
    /\ job' = [job EXCEPT ![a] = IF wait'[a] # {} THEN "notify" ELSE "own"]
    /\ UNCHANGED <<boxVars, tails, todo, appVars, hold, noteVars, teamVars, turnVars,
                   diskVars, dirty>>

(* One exchange of a driver's notices. *)
NotifyNext(a) ==
    /\ job[a] \in {"notify", "owed"} /\ ~Blocked(a) /\ ~shutting
    /\ \E t \in wait[a] :
          /\ Unlocked(t[2])
          /\ Notify(t[1], t[2], t[3], a)
          /\ wait' = [wait EXCEPT ![a] = @ \ {t}]
    /\ UNCHANGED <<job, tails, todo, teamVars, turnVars, diskVars>>

(* _drain_own_inbox_late looks only at an inbox that is not empty. *)
Last(a) == IF inbox[a] = <<>> THEN "none" ELSE "late"

NotifyDone(a) ==
    /\ job[a] \in {"notify", "owed"} /\ ~Blocked(a) /\ ~shutting /\ wait[a] = {}
    /\ job' = [job EXCEPT ![a] = IF @ = "notify" THEN "own" ELSE Last(a)]
    /\ UNCHANGED <<boxVars, phase, tails, todo, wait, appVars, hold, noteVars, teamVars,
                   turnVars, diskVars, dirty>>

(* The driver drains its own inbox, first and last.  When it appends, a new *)
(* driver takes its place.                                                  *)
OwnDrain(a) ==
    /\ job[a] \in {"own", "late"} /\ ~Blocked(a) /\ Unlocked(a) /\ ~shutting
    /\ Redrain(a, a)
    /\ IF app'[a] = "msg" THEN UNCHANGED <<job, todo>>
       ELSE IF job[a] = "late"
       THEN job' = [job EXCEPT ![a] = "none"] /\ UNCHANGED todo
       ELSE /\ job' = [job EXCEPT ![a] = "sweep"]
            /\ todo' = [todo EXCEPT ![a] = {b \in Aid : inbox'[b] # <<>>}]
    /\ UNCHANGED <<tails, wait, teamVars, turnVars, diskVars>>

(* _drain_ready_message_inboxes: every inbox, then every failed session's   *)
(* exchanges.                                                               *)
Sweep(a) ==
    /\ job[a] = "sweep" /\ ~shutting
    /\ \E b \in todo[a] :
          /\ Unlocked(b)
          /\ Redrain(b, a)
          /\ todo' = [todo EXCEPT ![a] = @ \ {b}]
    /\ UNCHANGED <<job, tails, wait, teamVars, turnVars, diskVars>>

(* mutant: a driver settles only the exchanges of its own session *)
SweepDoneOwn(a) ==
    /\ job[a] = "sweep" /\ ~Blocked(a) /\ ~shutting /\ todo[a] = {}
    /\ job' = [job EXCEPT ![a] = Last(a)]
    /\ UNCHANGED <<boxVars, phase, tails, todo, wait, appVars, hold, noteVars, teamVars,
                   turnVars, diskVars, dirty>>

SweepDone(a) ==
    /\ job[a] = "sweep" /\ ~Blocked(a) /\ ~shutting /\ todo[a] = {}
    /\ wait' = [wait EXCEPT ![a] = Outstanding({x \in seats : phase[x] \in Failed})]
    /\ job' = [job EXCEPT ![a] = IF wait'[a] # {} THEN "owed" ELSE Last(a)]
    /\ UNCHANGED <<boxVars, phase, tails, todo, appVars, hold, noteVars, teamVars,
                   turnVars, diskVars, dirty>>

(* The sweep of a replaced driver, which no table names any more: it may    *)
(* still drain any inbox and settle any exchange.                           *)
TailSweep(a) ==
    /\ a \in tails /\ ~shutting
    /\ \E b \in Aid : inbox[b] # <<>> /\ Unlocked(b) /\ Redrain(b, Old)
    /\ UNCHANGED <<jobVars, teamVars, turnVars, diskVars>>

TailNotify(a) ==
    /\ a \in tails /\ ~shutting
    /\ \E t \in Outstanding({x \in seats : phase[x] \in Failed}) :
          Unlocked(t[2]) /\ Notify(t[1], t[2], t[3], Old)
    /\ UNCHANGED <<jobVars, teamVars, turnVars, diskVars>>

TailDone(a) ==
    /\ a \in tails
    /\ tails' = tails \ {a}
    /\ UNCHANGED <<boxVars, phase, job, todo, wait, appVars, hold, noteVars, teamVars,
                   turnVars, diskVars, dirty>>

(* The provider call that outlived its driver returns. *)
OwnerSettles(a) ==
    /\ a \in owner
    /\ owner' = owner \ {a}
    /\ UNCHANGED <<boxVars, phase, jobVars, appVars, hold, noteVars, seats, funded,
                   shutting, turnVars, diskVars, dirty>>

(* The team's tokens are spent. *)
SpendAll ==
    /\ "broke" \in Events /\ funded
    /\ funded' = FALSE
    /\ UNCHANGED <<boxVars, phase, jobVars, appVars, hold, noteVars, seats, owner,
                   shutting, turnVars, diskVars, dirty>>

-----------------------------------------------------------------------------
(* run_turn(0) *)

EndedTurn == turn' = "idle" /\ cancelEv' = FALSE

(* Append the user's message; a session that cannot take it, or a team      *)
(* without tokens, makes the turn raise.                                    *)
AcceptUser ==
    IF Accepts(0) /\ funded
    THEN /\ turn' = "append"
         /\ ext' = [ext EXCEPT ![0] = TRUE]
         /\ phase' = [phase EXCEPT ![0] = "idle"]
         /\ app' = [app EXCEPT ![0] = "user"]
         /\ by' = [by EXCEPT ![0] = Turn]
         /\ saved' = [saved EXCEPT ![0] = phase[0]]
         /\ dirty' = AskSave(TRUE)
         /\ UNCHANGED <<batch, cancelEv>>
    ELSE EndedTurn /\ UNCHANGED <<ext, phase, appVars, dirty>>

(* Release the hold of the last cancelled turn, then finish what is queued  *)
(* before the user's message is accepted.                                   *)
Proceed ==
    IF 0 \in hold /\ cancelEv
    THEN turn' = "wait" /\ UNCHANGED <<side, ext, phase, appVars, hold, cancelEv, dirty>>
    ELSE /\ hold' = hold \ {0}
         /\ side' = [side EXCEPT ![0] =
                [m \in Id |-> IF @[m] = "held" THEN "pending" ELSE @[m]]]
         /\ IF inbox[0] = <<>> THEN AcceptUser
            ELSE /\ turn' = "drain"
                 /\ dirty' = AskSave(side' # side)
                 /\ UNCHANGED <<ext, phase, appVars, cancelEv>>

(* A user message.  A queued turn that a snapshot preserved is driven first.*)
StartTurn ==
    /\ turn = "idle" /\ ~shutting /\ turns < MaxTurns
    /\ job[0] = "none" /\ app[0] = "free"
    /\ turns' = turns + 1
    /\ IF ext[0]
       THEN /\ turn' = "restored"
            /\ job' = [job EXCEPT ![0] = "new"]
            /\ UNCHANGED <<side, ext, phase, appVars, hold, cancelEv, dirty>>
       ELSE Proceed /\ UNCHANGED job
    /\ UNCHANGED <<inbox, hist, tails, todo, wait, noteVars, teamVars, diskVars>>

RequestCancel ==
    /\ "cancel" \in Events /\ turn # "idle" /\ ~cancelEv
    /\ cancelEv' = TRUE
    /\ UNCHANGED <<boxVars, phase, jobVars, appVars, hold, noteVars, teamVars, turn,
                   turns, diskVars, dirty>>

(* Deliver the queued messages before the user's. *)
TurnDrain ==
    /\ turn = "drain" /\ Unlocked(0) /\ ~shutting
    /\ Redrain(0, Turn)
    /\ turn' = "accept"
    /\ UNCHANGED <<jobVars, teamVars, turns, cancelEv, diskVars>>

(* The drain's own events have run meanwhile: a message that waits, or that *)
(* started a driver, is finished first.                                     *)
AcceptTurn ==
    /\ turn = "accept" /\ ~shutting /\ ~Blocked(Turn)
    /\ IF inbox[0] # <<>> \/ job[0] # "none"
       THEN turn' = "wait" /\ UNCHANGED <<ext, phase, appVars, cancelEv, dirty>>
       ELSE AcceptUser
    /\ UNCHANGED <<inbox, side, hist, jobVars, hold, noteVars, teamVars, turns, diskVars>>

(* _wait_for_restored_turn is over. *)
Recovered ==
    /\ turn \in {"restored", "wait"} /\ ~shutting /\ ~Blocked(Turn)
    /\ phase[0] \in Terminal /\ job[0] = "none"

WaitDone ==
    /\ Recovered
    /\ \/ /\ cancelEv
          /\ phase' = [phase EXCEPT ![0] = IF @ = "done" THEN "interrupted" ELSE @]
          /\ dirty' = AskSave(TRUE)
          /\ EndedTurn
          /\ UNCHANGED <<side, ext, appVars, hold>>
       \/ /\ ~cancelEv /\ turn = "restored"
          /\ Proceed
       \/ /\ ~cancelEv /\ turn = "wait"
          /\ AcceptUser
          /\ UNCHANGED <<side, hold>>
    /\ UNCHANGED <<inbox, hist, jobVars, noteVars, teamVars, turns, diskVars>>

(* The user's message is appended: its driver starts. *)
FinishUser ==
    /\ app[0] = "user"
    /\ app' = [app EXCEPT ![0] = "free"] /\ by' = [by EXCEPT ![0] = None]
    /\ saved' = [saved EXCEPT ![0] = "idle"]
    /\ IF shutting THEN EndedTurn /\ UNCHANGED job
       ELSE /\ turn' = "active" /\ UNCHANGED cancelEv
            /\ job' = [job EXCEPT ![0] = "new"]
    /\ UNCHANGED <<boxVars, phase, tails, todo, wait, batch, hold, noteVars, teamVars, turns,
                   diskVars, dirty>>

NoTasks == \A a \in Aid : job[a] = "none" /\ app[a] = "free"

(* _active_scheduler_tasks *)
NoProducers ==
    NoTasks /\ \A a \in owner : inbox[a] = <<>> \/ a \in hold

(* _quiescent *)
Quiescent ==
    /\ NoTasks
    /\ \A a \in seats : /\ inbox[a] = <<>> \/ a \in hold
                        /\ phase[a] \in Terminal \cup {"idle"}

EndTurn ==
    /\ turn = "active" /\ ~shutting /\ NoProducers /\ Quiescent
    /\ EndedTurn
    /\ UNCHANGED <<boxVars, phase, jobVars, appVars, hold, noteVars, teamVars, turns,
                   diskVars, dirty>>

(* The turn waits and nothing it could wait for exists. *)
ProgressDue ==
    /\ ~shutting /\ NoProducers
    /\ \/ turn = "active" /\ ~Quiescent
       \/ turn \in {"restored", "wait"} /\ ~Recovered

(* the agents whose inbox an attempt would change *)
Movable ==
    {b \in seats : inbox[b] # <<>> /\
        \/ \E m \in Ids(inbox[b]) : ~RouteOk(m)
        \/ Holds(b) /\ (b \notin hold \/ \E m \in Ids(inbox[b]) : side[b][m] # "held")
        \/ ~Holds(b) /\ CanStart(b, Turn)}

(* _wait_for_scheduler_progress: one more sweep *)
TurnSweep ==
    /\ ProgressDue
    /\ \E b \in Movable : Redrain(b, Turn)
    /\ UNCHANGED <<jobVars, teamVars, turnVars, diskVars>>

(* the exchanges that sweep would settle *)
Payable ==
    {t \in Outstanding({x \in seats : phase[x] \in Failed}) :
        /\ t[1] \in hold \/ t[3] \notin Ids(inbox[t[1]])
        /\ \/ t[2] \notin seats \/ phase[t[2]] \in Failed
           \/ Len(inbox[t[2]]) < MaxInbox /\ nextId \in Id}

TurnNotify ==
    /\ ProgressDue /\ Movable = {}
    /\ \E t \in Payable : Notify(t[1], t[2], t[3], Turn)
    /\ UNCHANGED <<jobVars, teamVars, turnVars, diskVars>>

(* SchedulerStalledError *)
Stalled == ProgressDue /\ Movable = {} /\ Payable = {}

StallTurn ==
    /\ Stalled
    /\ EndedTurn
    /\ UNCHANGED <<boxVars, phase, jobVars, appVars, hold, noteVars, teamVars, turns,
                   diskVars, dirty>>

-----------------------------------------------------------------------------
(* Persistence, shutdown and restart *)

(* The autosave worker freezes and writes the latest generation, or fails.  *)
Save ==
    /\ dirty /\ dirty' = FALSE
    /\ disk' \in {Snapshot, disk}
    /\ UNCHANGED <<boxVars, phase, jobVars, appVars, hold, noteVars, teamVars, turnVars,
                   epoch>>

(* cleanup cancels every task. *)
Shutdown ==
    /\ "shutdown" \in Events /\ ~shutting
    /\ shutting' = TRUE
    /\ UNCHANGED <<boxVars, phase, jobVars, appVars, hold, noteVars, seats, owner, funded,
                   turnVars, diskVars, dirty>>

(* cleanup fails the session of a cancelled driver or public turn once the  *)
(* appends have ended, and saves every session.                             *)
Kill(a) ==
    /\ shutting /\ job[a] # "none" /\ \A b \in Aid : app[b] = "free"
    /\ job' = [job EXCEPT ![a] = "none"]
    /\ todo' = [todo EXCEPT ![a] = {}] /\ wait' = [wait EXCEPT ![a] = {}]
    /\ phase' = [phase EXCEPT ![a] = "failed"]
    /\ dirty' = AskSave(TRUE)
    /\ UNCHANGED <<boxVars, tails, appVars, hold, noteVars, teamVars, turnVars, diskVars>>

KillTurn ==
    /\ shutting /\ turn # "idle" /\ \A b \in Aid : app[b] = "free"
    /\ EndedTurn
    /\ phase' = [phase EXCEPT ![0] = "failed"]
    /\ dirty' = AskSave(TRUE)
    /\ UNCHANGED <<boxVars, jobVars, appVars, hold, noteVars, teamVars, turns, diskVars>>

(* mutant: restore trusts the sidecar and does not look into the history *)
RestoredSideBlind(d) == d.side

(* _restore_message_inbox: what the history holds already was delivered.    *)
RestoredSide(d) ==
    [m \in Id |-> IF d.side[m] \in {"pending", "held"} /\ m \in Ids(d.hist)
                  THEN "none" ELSE d.side[m]]

(* The process dies and comes back with some of its roster.  Agent 0 is     *)
(* restored from its snapshot, the others start afresh.                     *)
Crash ==
    LET d   == disk
        sd  == RestoredSide(d)
        box == SelectSeq([i \in Id |-> i], LAMBDA m : sd[m] \in {"pending", "held"})
    IN
    /\ epoch < MaxRestarts /\ epoch' = epoch + 1
    /\ seats' \in {S \in SUBSET Aid : 0 \in S}
    /\ inbox' = [a \in Aid |-> IF a = 0 THEN box ELSE <<>>]
    /\ side' = [a \in Aid |-> IF a = 0 THEN sd ELSE [m \in Id |-> "none"]]
    /\ hist' = [a \in Aid |-> IF a = 0 THEN d.hist ELSE <<>>]
    /\ ext' = [a \in Aid |-> a = 0 /\ d.ext]
    /\ phase' = [a \in Aid |-> IF a = 0 /\ d.phase \in Terminal THEN d.phase ELSE "idle"]
    /\ hold' = IF d.phase = "interrupted" \/ \E m \in Id : sd[m] = "held" THEN {0} ELSE {}
    /\ job' = [a \in Aid |-> "none"] /\ tails' = {}
    /\ todo' = [a \in Aid |-> {}] /\ wait' = [a \in Aid |-> {}]
    /\ app' = [a \in Aid |-> "free"] /\ by' = [a \in Aid |-> None]
    /\ batch' = [a \in Aid |-> 0] /\ saved' = [a \in Aid |-> "idle"]
    /\ unans' = [a \in Aid |-> [b \in Aid |-> NoId]]
    /\ owner' = {} /\ shutting' = FALSE
    /\ turn' = "idle" /\ cancelEv' = FALSE /\ dirty' = FALSE
    /\ UNCHANGED <<from, about, answered, nextId, funded, turns, disk>>

-----------------------------------------------------------------------------

DriverStep(a) ==
    \/ EnterLoop(a) \/ (\E p \in Terminal : EndRun(a, p)) \/ Finalize(a)
    \/ NotifyNext(a) \/ NotifyDone(a) \/ OwnDrain(a) \/ Sweep(a) \/ SweepDone(a)

(* The task that appends to `a`, past its subscribers *)
AppendStep(a) == FinishDelivery(a) \/ (a = 0 /\ FinishUser)

TurnStep ==
    \/ TurnDrain \/ AcceptTurn \/ WaitDone \/ EndTurn \/ TurnSweep \/ TurnNotify \/ StallTurn

(* No turn is open and every task is gone. *)
Finished == turn = "idle" /\ NoTasks /\ UNCHANGED vars

Next ==
    \/ \E a \in Aid : TailSweep(a) \/ TailNotify(a) \/ TailDone(a)
    \/ \E a \in Aid : DriverStep(a) \/ AppendStep(a) \/ AppendFails(a) \/ OwnerSettles(a)
                      \/ Kill(a)
    \/ \E a, b \in Aid : Send(a, b)
    \/ StartTurn \/ RequestCancel \/ TurnStep
    \/ SpendAll \/ Save \/ Shutdown \/ KillTurn \/ Crash
    \/ Finished

(* Every ready task runs; model, tool and subscriber calls are bounded by   *)
(* their timeouts.  Nobody owes a message, a user turn or a failure.        *)
Fairness ==
    /\ \A a \in Aid : WF_vars(DriverStep(a)) /\ WF_vars(AppendStep(a))
                      /\ WF_vars(OwnerSettles(a)) /\ WF_vars(TailDone(a)) /\ WF_vars(Kill(a))
    /\ WF_vars(TurnStep) /\ WF_vars(KillTurn)

Spec == Init /\ [][Next]_vars /\ Fairness

-----------------------------------------------------------------------------
(* Properties *)

Increasing(s) == \A i, j \in DOMAIN s : i < j => s[i] < s[j]

TypeOK ==
    /\ \A a \in Aid : Ids(inbox[a]) \subseteq Id /\ Ids(hist[a]) \subseteq Id
    /\ \A a \in Aid : Len(inbox[a]) <= MaxInbox
    /\ side \in [Aid -> [Id -> {"none", "pending", "held", "rejected"}]]
    /\ ext \in [Aid -> BOOLEAN] /\ phase \in [Aid -> Phase] /\ job \in [Aid -> Job]
    /\ tails \subseteq Aid /\ todo \in [Aid -> SUBSET Aid] /\ wait \in [Aid -> SUBSET (Aid \X Aid \X Id)]
    /\ app \in [Aid -> {"free", "msg", "user"}]
    /\ by \in [Aid -> Aid \cup {Turn, None, Old}]
    /\ batch \in [Aid -> 0 .. MaxBatch] /\ saved \in [Aid -> Phase]
    /\ hold \subseteq Aid /\ unans \in [Aid -> [Aid -> Id \cup {NoId}]]
    /\ from \in [Id -> Aid] /\ about \in [Id -> Id \cup {NoId}]
    /\ answered \subseteq Id /\ nextId \in 1 .. MaxMsg + 1
    /\ seats \subseteq Aid /\ owner \subseteq Aid /\ funded \in BOOLEAN
    /\ turn \in {"idle", "restored", "drain", "wait", "accept", "append", "active"}
    /\ turns \in 0 .. MaxTurns /\ cancelEv \in BOOLEAN /\ shutting \in BOOLEAN
    /\ dirty \in BOOLEAN /\ epoch \in 0 .. MaxRestarts

(* Every history reads its messages once and in the order they were         *)
(* accepted, through rolled-back appends, competing deliveries and restarts *)
(* from a snapshot taken in the middle of a delivery.                       *)
DeliveredInOrder == \A a \in Aid : Increasing(hist[a])

(* The scheduler's inbox and the durable sidecar name the same messages, in *)
(* order; outside an append none of them is in the history.                 *)
SidecarMirrorsInbox ==
    \A a \in Aid :
        /\ Ids(inbox[a]) = {m \in Id : side[a][m] \in {"pending", "held"}}
        /\ Increasing(inbox[a])
        /\ app[a] # "msg" => Ids(inbox[a]) \cap Ids(hist[a]) = {}

(* Messages agent 0 was given, read or refused, in memory and on disk *)
Known   == Ids(hist[0]) \cup {m \in Id : side[0][m] # "none"}
Durable == Ids(disk.hist) \cup {m \in Id : disk.side[m] # "none"}

(* An accepted message of agent 0 stays known until a crash, and what a     *)
(* snapshot holds is never lost: neither by a later snapshot nor by a       *)
(* restart.                                                                 *)
NothingLost ==
    [][/\ Durable \subseteq Durable'
       /\ epoch' = epoch => Known \subseteq Known'
       /\ epoch' # epoch => Durable \subseteq Known']_vars

(* An exchange is settled once: a sender is told at most once that nobody   *)
(* will answer, and never after an answer (notify_unanswered_senders).      *)
SettledOnce ==
    \A m \in Id : IsNotice(m) =>
        /\ about[m] \notin answered
        /\ \A n \in Id : about[n] = about[m] => n = m

(* run_turn gives up only when the team has no tokens left for a message    *)
(* that waits.                                                              *)
StallMeansBroke == Stalled => ~funded

(* A session takes a turn only when no provider call of an earlier turn is  *)
(* still running, and its append never meets a living run of its own.       *)
AppendIsExclusive ==
    \A a \in Aid : app[a] # "free" =>
        /\ job[a] \in {"none", "own", "late"} /\ phase[a] = "idle" /\ ext[a]
        /\ a \notin owner

(* When a turn is about to end, no stopped session still owes a notice that *)
(* could be given: nobody keeps waiting for an answer that will not come.   *)
(* A message that a cancelled turn keeps is for the next public turn.       *)
NobodyWaitsInVain ==
    turn = "active" /\ Quiescent /\ ~shutting =>
        \A t \in Payable : \/ t[2] \notin seats \/ phase[t[2]] \in Failed
                           \/ t[3] \in Ids(inbox[t[1]])

(* What the proofs need to know besides.  An exchange that is still open is *)
(* a message already sent that no reply has answered and no notice is       *)
(* about, and it is open for one pair of agents only.                       *)
ExchangesAreOpen ==
    /\ nextId \in Nat \ {0} /\ answered \subseteq Nat
    /\ unans \in [Aid -> [Aid -> Nat]] /\ about \in [Id -> Nat]
    /\ \A x \in answered : x < nextId
    /\ \A m \in Id : IsNotice(m) => m < nextId /\ about[m] < nextId
    /\ \A a, b \in Aid : unans[a][b] # NoId =>
          /\ unans[a][b] < nextId /\ unans[a][b] \notin answered
          /\ \A n \in Id : about[n] # unans[a][b]
          /\ \A c, d \in Aid : unans[c][d] = unans[a][b] => c = a /\ d = b

(* Only a driver that drains its own inbox is alive beside an append.       *)
AppendsAreAlone ==
    /\ app \in [Aid -> {"free", "msg", "user"}]
    /\ phase \in [Aid -> Phase] /\ saved \in [Aid -> Phase] /\ job \in [Aid -> Job]
    /\ by \in [Aid -> Nat] /\ ext \in [Aid -> BOOLEAN]
    /\ \A a \in Aid : app[a] # "free" =>
          /\ phase[a] = "idle" /\ ext[a] /\ a \notin owner
          /\ job[a] = "none" \/ (app[a] = "msg" /\ by[a] = a /\ job[a] \in {"own", "late"})

(* A message is delivered once and in order: by one append at a time, and   *)
(* inbox and sidecar agree through rollbacks, holds and restarts.           *)
InboxIsSound == DeliveredInOrder /\ SidecarMirrorsInbox /\ AppendIsExclusive

(* Nobody is stranded: a waiting sender is told before the turn ends, and a *)
(* turn gives up its messages only for want of tokens.                      *)
NobodyIsStranded == NobodyWaitsInVain /\ StallMeansBroke

(* The user's turn ends: answered, raised or stalled. *)
TurnEnds == turn # "idle" ~> turn = "idle"
=============================================================================

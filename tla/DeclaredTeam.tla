---------------------------- MODULE DeclaredTeam ----------------------------
(***************************************************************************)
(* A team whose roster its configuration declares: the first turn seats one *)
(* peer for every declared role before any model runs (ensure_team_prebuilt *)
(* and _prebuild_peer), and spawn refuses to add another agent.  Seating a  *)
(* peer takes an environment from the pool and announces the peer, both of  *)
(* which may fail, be cancelled, or meet a shutdown; a partial roster is    *)
(* rolled back, the last peer first.                                        *)
(***************************************************************************)
EXTENDS Naturals, Sequences

CONSTANTS
    Roles,         \* declared roles other than the lead's, in order: a sequence
    FirstTurn,     \* public turns that may come first
    MaxSeatFaults  \* bound: failures and cancellations while seating

(* a scheduler refuses roles that collide *)
ASSUME RosterAssumption ==
    /\ Len(Roles) \in Nat
    /\ \A i, j \in 1..Len(Roles) : Roles[i] = Roles[j] => i = j

VARIABLES
    turn,       \* each turn: "new", "waiting" for _prebuild_lock, "seating", "rolling", "runs", "raised"
    seat,       \* agents in the table, as <<aid, role>>
    lent,       \* aids whose environment is lent by the pool
    built,      \* aids seated by the call that holds the lock
    pending,    \* aid being seated, and how far: "none", "acquire", "announce"
    aids,       \* aids allocated so far
    prebuilt,   \* _team_prebuilt
    closing,    \* _shutting_down
    stopped,    \* the turn that holds the lock was cancelled
    seatFaults

rosterVars == <<turn, seat, lent, built, pending, aids, prebuilt, closing, stopped, seatFaults>>

RosterInit ==
    /\ turn = [t \in FirstTurn |-> "new"]
    /\ seat = {} /\ lent = {} /\ built = <<>> /\ pending = "none" /\ aids = 0
    /\ prebuilt = FALSE /\ closing = FALSE /\ stopped = FALSE /\ seatFaults = 0

(* something fails, or the turn is cancelled *)
SeatFault == seatFaults < MaxSeatFaults /\ seatFaults' = seatFaults + 1 /\ stopped' \in {stopped, TRUE}
Locked    == \E t \in FirstTurn : turn[t] \in {"seating", "rolling"}
Move(t, where) == turn' = [turn EXCEPT ![t] = where]

(* a turn asks for the team; it is whole already, or the lock is awaited *)
AskTeam(t) ==
    /\ turn[t] = "new"
    /\ Move(t, IF prebuilt THEN "runs" ELSE IF closing THEN "raised" ELSE "waiting")
    /\ UNCHANGED <<seat, lent, built, pending, aids, prebuilt, closing, stopped, seatFaults>>

(* mutant: a turn that waited for the lock seats the team it finds seated *)
HoldLockBlind(t) ==
    /\ turn[t] = "waiting" /\ ~Locked
    /\ Move(t, IF closing THEN "raised" ELSE "seating")
    /\ built' = <<>>
    /\ UNCHANGED <<seat, lent, pending, aids, prebuilt, closing, stopped, seatFaults>>

(* under the lock the team is looked for again *)
HoldLock(t) ==
    /\ turn[t] = "waiting" /\ ~Locked
    /\ Move(t, IF closing THEN "raised" ELSE IF prebuilt THEN "runs" ELSE "seating")
    /\ built' = <<>>
    /\ UNCHANGED <<seat, lent, pending, aids, prebuilt, closing, stopped, seatFaults>>

(* the next declared role gets an aid and a budget, and the pool is asked *)
SeatPeer(t) ==
    /\ turn[t] = "seating" /\ pending = "none" /\ Len(built) < Len(Roles)
    /\ aids' = aids + 1
    /\ \/ pending' = "acquire" /\ UNCHANGED <<turn, stopped, seatFaults>>
       \/ SeatFault /\ pending' = "none" /\ Move(t, "rolling")
    /\ UNCHANGED <<seat, lent, built, prebuilt, closing>>

(* the environment arrives, and the peer is put into the table at once *)
Acquired(t) ==
    /\ turn[t] = "seating" /\ pending = "acquire"
    /\ \/ /\ ~closing
          /\ lent' = lent \cup {aids} /\ seat' = seat \cup {<<aids, Roles[Len(built) + 1]>>}
          /\ pending' = "announce" /\ UNCHANGED <<turn, stopped, seatFaults>>
       \/ /\ \/ closing /\ UNCHANGED <<stopped, seatFaults>>
             \/ SeatFault
          /\ pending' = "none" /\ Move(t, "rolling")
          /\ UNCHANGED <<seat, lent>>
    /\ UNCHANGED <<built, aids, prebuilt, closing>>

Without(a) == {s \in seat : s[1] # a}

(* agent_spawned is published; a failure or a shutdown takes the peer back *)
Announced(t) ==
    /\ turn[t] = "seating" /\ pending = "announce" /\ pending' = "none"
    /\ \/ /\ ~closing /\ built' = Append(built, aids)
          /\ UNCHANGED <<turn, seat, lent, stopped, seatFaults>>
       \/ /\ \/ closing /\ UNCHANGED <<stopped, seatFaults>>
             \/ SeatFault
          /\ seat' = Without(aids) /\ lent' = lent \ {aids}
          /\ Move(t, "rolling") /\ UNCHANGED built
    /\ UNCHANGED <<aids, prebuilt, closing>>

(* every role has its peer *)
TeamIsReady(t) ==
    /\ turn[t] = "seating" /\ pending = "none" /\ Len(built) = Len(Roles)
    /\ prebuilt' = TRUE /\ Move(t, "runs")
    /\ UNCHANGED <<seat, lent, built, pending, aids, closing, stopped, seatFaults>>

(* the last peer leaves the table and gives its environment back; a         *)
(* cancellation at that moment ends the rollback half way.  A cancelled     *)
(* turn shuts the scheduler down                                            *)
RollBack(t) ==
    /\ turn[t] = "rolling" /\ built # <<>>
    /\ LET last == built[Len(built)]
       IN  /\ seat' = Without(last)
           /\ lent' = lent \ {last}
    /\ built' = SubSeq(built, 1, Len(built) - 1)
    /\ \/ UNCHANGED <<turn, closing, stopped, seatFaults>>
       \/ SeatFault /\ stopped' = TRUE /\ closing' = TRUE /\ Move(t, "raised")
    /\ UNCHANGED <<pending, aids, prebuilt>>

RolledBack(t) ==
    /\ turn[t] = "rolling" /\ built = <<>>
    /\ Move(t, "raised")
    /\ closing' = (closing \/ stopped)
    /\ UNCHANGED <<seat, lent, built, pending, aids, prebuilt, stopped, seatFaults>>

CloseTeam ==
    /\ ~closing /\ closing' = TRUE
    /\ UNCHANGED <<turn, seat, lent, built, pending, aids, prebuilt, stopped, seatFaults>>

RosterNext ==
    \/ \E t \in FirstTurn :
          \/ AskTeam(t) \/ HoldLock(t) \/ SeatPeer(t) \/ Acquired(t) \/ Announced(t)
          \/ TeamIsReady(t) \/ RollBack(t) \/ RolledBack(t)
    \/ CloseTeam

RosterSpec == RosterInit /\ [][RosterNext]_rosterVars

---------------------------------------------------------------------------
SeatsOf(r) == {s \in seat : s[2] = r}

(* A turn runs only with the declared team: one agent for every role, each   *)
(* with an environment of its own.  While the team is in use the roster      *)
(* outside the lock is whole or empty, and no environment is lent to nobody, *)
(* at whichever peer seating failed or was cancelled.                        *)
RosterIsWhole ==
    /\ (\E t \in FirstTurn : turn[t] = "runs") =>
           /\ \A i \in 1..Len(Roles) : \E s \in seat : SeatsOf(Roles[i]) = {s}
           /\ lent = {s[1] : s \in seat}
    /\ ~Locked /\ ~prebuilt /\ ~closing => seat = {} /\ lent = {}

---------------------------------------------------------------------------
(* The inductive invariant *)

Holds(t) == turn[t] \in {"seating", "rolling"}

RosterTypes ==
    /\ turn \in [FirstTurn -> {"new", "waiting", "seating", "rolling", "runs", "raised"}]
    /\ built \in Seq(Nat) /\ Len(built) <= Len(Roles)
    /\ aids \in Nat
    /\ pending \in {"none", "acquire", "announce"}
    /\ prebuilt \in BOOLEAN /\ closing \in BOOLEAN

(* One turn at a time seats or rolls back, only before the team is there;   *)
(* only a seating turn has a peer half seated; only with the team one runs. *)
OneSeats ==
    /\ \A t, u \in FirstTurn : Holds(t) /\ Holds(u) => t = u
    /\ Locked => ~prebuilt
    /\ pending # "none" => \E t \in FirstTurn : turn[t] = "seating" /\ Len(built) < Len(Roles)
    /\ (\E t \in FirstTurn : turn[t] = "runs") => prebuilt

(* An aid is given once. *)
AidsAreFresh ==
    /\ \A i \in 1..Len(built) : built[i] <= aids /\ (pending # "none" => built[i] < aids)
    /\ \A i, j \in 1..Len(built) : built[i] = built[j] => i = j

(* Under the lock the table holds the peers built so far, and the one that  *)
(* is being announced.                                                      *)
Peer(s) ==
    \/ \E i \in 1..Len(built) : s = <<built[i], Roles[i]>>
    \/ pending = "announce" /\ s = <<aids, Roles[Len(built) + 1]>>

SeatsAreBuilt ==
    Locked => /\ \A s \in seat : Peer(s)
              /\ \A i \in 1..Len(built) : <<built[i], Roles[i]>> \in seat
              /\ pending = "announce" => <<aids, Roles[Len(built) + 1]>> \in seat
              /\ lent = {s[1] : s \in seat}

WholeTeam ==
    /\ \A i \in 1..Len(Roles) : \E s \in seat : SeatsOf(Roles[i]) = {s}
    /\ lent = {s[1] : s \in seat}

TeamOrNobody ==
    /\ prebuilt => WholeTeam
    /\ ~Locked /\ ~prebuilt /\ ~closing => seat = {} /\ lent = {}

RosterInv == RosterTypes /\ OneSeats /\ AidsAreFresh /\ SeatsAreBuilt /\ TeamOrNobody
=============================================================================

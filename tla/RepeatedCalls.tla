---------------------------- MODULE RepeatedCalls ----------------------------
(***************************************************************************)
(* Loop protection of tool calls within one turn: tool_execution.process,   *)
(* _tool_loop_execution.py and domain/tool_loops.py.  An operation repeated *)
(* too often in the window of recent calls is refused, unless an edit has   *)
(* landed since it last ran (one more run, to validate it) or it timed out  *)
(* and now asks for more time (one recovery).  Such an extra run is         *)
(* reserved and saved before it is dispatched, so that a crash cannot grant *)
(* it twice.  A batch works on a copy of the loop state; the session gets   *)
(* the copy when the batch ends, or at a reservation.                       *)
(***************************************************************************)
EXTENDS Naturals, FiniteSets, SequencesExt, FiniteSetsExt

CONSTANTS
    Operation,    (* the operation keys: a tool with its arguments *)
    Edits,        (* those of file_write and apply_patch *)
    Observers,    (* those whose result depends on the workspace *)
    Timed,        (* those whose timeout is a control *)
    Limit,        (* MAX_SIMILAR_CALLS *)
    HashWindow,   (* MAX_CALL_HASH_WINDOW *)
    MaxCalls,     (* bound: calls of the turn *)
    MaxCrashes    (* bound: crashes, failed saves *)

ASSUME LoopsAssumption ==
    /\ Edits \subseteq Operation /\ Observers \subseteq Operation /\ Timed \subseteq Operation
    /\ Limit \in Nat \ {0, 1} /\ HashWindow \in Nat \ {0}

VARIABLES
    turn,      (* state.turn: recent_call_hashes, edit_seq, operations *)
    copy,      (* the batch's _LoopBatch, with the call it is at *)
    disk,      (* the turn in the last snapshot *)
    landed,    (* edits that have really changed the workspace *)
    extra,     (* extra runs dispatched for each operation, by their reason *)
    dropped,   (* times an operation was forgotten with the window *)
    unseen,    (* operations with an extra run whose outcome was never seen *)
    again,     (* an operation in unseen was dispatched again *)
    made, upsets

loopVars == <<turn, copy, disk, landed, extra, dropped, unseen, again, made, upsets>>

NoRow == [ran |-> 0, resv |-> 0, exit |-> "unknown", longest |-> 0, recovered |-> FALSE,
          inflight |-> FALSE]
NoTurn == [recent |-> << >>, edits |-> 0, rows |-> [k \in {} |-> NoRow]]
NoBatch == [at |-> "none", key |-> "none", turn |-> NoTurn, saved |-> FALSE, why |-> "none"]

LoopsInit ==
    /\ turn = NoTurn /\ disk = NoTurn
    /\ copy = NoBatch
    /\ landed = 0
    /\ extra = [k \in Operation |-> [validation |-> 0, recovery |-> 0]]
    /\ dropped = [k \in Operation |-> 0]
    /\ unseen = {} /\ again = FALSE
    /\ made = 0 /\ upsets = 0

BatchStarts ==
    /\ copy.at = "none"
    /\ copy' = [at |-> "next", key |-> "none", turn |-> turn, saved |-> FALSE, why |-> "none"]
    /\ UNCHANGED <<turn, disk, landed, extra, dropped, unseen, again, made, upsets>>

(* _LoopBatch.append: the call enters the window; an operation that leaves  *)
(* it is forgotten, unless its outcome is still open                        *)
Leaving(t, k) ==
    {d \in DOMAIN t.rows : /\ Len(t.recent) = HashWindow /\ d = Head(t.recent)
                           /\ d \notin ToSet(Tail(t.recent) \o <<k>>)
                           /\ ~t.rows[d].inflight}

Entered(t, k) ==
    [t EXCEPT !.recent = IF Len(@) = HashWindow THEN Tail(@) \o <<k>> ELSE @ \o <<k>>,
              !.rows = [d \in DOMAIN @ \ Leaving(t, k) |-> @[d]]]

Repeats(t, k) == Cardinality({i \in DOMAIN t.recent : t.recent[i] = k})

(* _LoopBatch.reserve: whether the loop state has a say at all *)
Tracked(t, k) ==
    \/ k \in DOMAIN t.rows \/ k \in Edits \/ k \in Timed
    \/ t.edits > 0 /\ k \in Observers

Row(t, k) ==
    IF k \in DOMAIN t.rows THEN t.rows[k]
    ELSE LET e == IF Repeats(t, k) <= 1 THEN t.edits ELSE 0 IN [NoRow EXCEPT !.ran = e, !.resv = e]

Validates(t, k) == k \in Observers /\ t.edits > Max({Row(t, k).ran, Row(t, k).resv})

Recovers(t, k, time) ==
    /\ k \in Timed /\ Row(t, k).exit = "timeout"
    /\ time > Row(t, k).longest /\ ~Row(t, k).recovered

Extra(t, k) == Repeats(t, k) >= Limit

(* LoopState.reserve: the row, with the permission it takes marked as spent *)
Reserved(t, k, time) ==
    LET row == Row(t, k) IN
    [t EXCEPT !.rows = [d \in DOMAIN t.rows \cup {k} |->
        IF d # k THEN t.rows[d]
        ELSE [row EXCEPT !.inflight = TRUE, !.resv = t.edits,
                         !.longest = IF k \in Timed THEN Max({@, time}) ELSE @,
                         !.recovered = @ \/ (Extra(t, k) /\ Recovers(t, k, time))]]]

Refuses(t, k, time) ==
    IF Tracked(t, k)
    THEN \/ k \in DOMAIN t.rows /\ t.rows[k].inflight
         \/ Extra(t, k) /\ ~Validates(t, k) /\ ~Recovers(t, k, time)
    ELSE Extra(t, k)

Dispatched(k) == again' = (again \/ k \in unseen)

(* process, one call: refused with an answer, dispatched, or reserved first *)
CallTool(k, time) ==
    /\ copy.at = "next" /\ made < MaxCalls
    /\ made' = made + 1
    /\ LET t == Entered(copy.turn, k) IN
       /\ dropped' = [d \in Operation |-> IF d \in Leaving(copy.turn, k) THEN dropped[d] + 1 ELSE dropped[d]]
       /\ \/ /\ Refuses(t, k, time)
             /\ copy' = [copy EXCEPT !.turn = t]
             /\ UNCHANGED again
          \/ /\ ~Refuses(t, k, time) /\ ~Extra(t, k)
             /\ copy' = [copy EXCEPT !.turn = IF Tracked(t, k) THEN Reserved(t, k, time) ELSE t,
                                     !.at = "run", !.key = k]
             /\ Dispatched(k)
          \/ /\ ~Refuses(t, k, time) /\ Extra(t, k)
             /\ copy' = [copy EXCEPT !.turn = Reserved(t, k, time), !.at = "save", !.key = k,
                                     !.why = IF Validates(t, k) THEN "validation" ELSE "recovery"]
             /\ UNCHANGED again
    /\ UNCHANGED <<turn, disk, landed, extra, unseen, upsets>>

(* mutant: the tool runs without its reservation on disk *)
SaveReservationLater ==
    /\ copy.at = "save"
    /\ turn' = copy.turn /\ UNCHANGED disk
    /\ copy' = [copy EXCEPT !.at = "run", !.saved = TRUE]
    /\ unseen' = unseen \cup {copy.key}
    /\ extra' = [extra EXCEPT ![copy.key][copy.why] = @ + 1]
    /\ Dispatched(copy.key)
    /\ UNCHANGED <<landed, dropped, made, upsets>>

(* _LoopBatch.checkpoint and Session._checkpoint_loop_reservation: the      *)
(* reservation is saved, then the tool runs                                 *)
SaveReservation ==
    /\ copy.at = "save"
    /\ turn' = copy.turn /\ disk' = copy.turn
    /\ copy' = [copy EXCEPT !.at = "run", !.saved = TRUE]
    /\ unseen' = unseen \cup {copy.key}
    /\ extra' = [extra EXCEPT ![copy.key][copy.why] = @ + 1]
    /\ Dispatched(copy.key)
    /\ UNCHANGED <<landed, dropped, made, upsets>>

(* _release_interrupted_loop_owners *)
Released(t, k) ==
    LET row == [t.rows[k] EXCEPT !.inflight = FALSE] IN [t EXCEPT !.rows[k] = row]

(* the save fails: the tool is not run, the turn fails and lets go of it.   *)
(* No extra run was dispatched                                              *)
SaveFails ==
    /\ copy.at = "save" /\ upsets < MaxCrashes /\ upsets' = upsets + 1
    /\ turn' = Released(copy.turn, copy.key)
    /\ copy' = NoBatch
    /\ UNCHANGED <<disk, landed, extra, dropped, unseen, again, made>>

(* LoopState.finish *)
Finished(t, k, exit, changed) ==
    LET e == t.edits + (IF changed THEN 1 ELSE 0) IN
    IF k \notin DOMAIN t.rows
    THEN [t EXCEPT !.edits = e]
    ELSE LET row == [t.rows[k] EXCEPT !.ran = e, !.resv = Max({@, e}), !.exit = exit,
                                      !.inflight = FALSE]
         IN  [t EXCEPT !.edits = e, !.rows[k] = row]

(* the tool answers *)
ToolEnds(exit, changed) ==
    /\ copy.at = "run"
    /\ changed => copy.key \in Edits
    /\ landed' = landed + (IF changed THEN 1 ELSE 0)
    /\ copy' = [copy EXCEPT !.at = "next", !.key = "none", !.why = "none",
                            !.turn = Finished(@, copy.key, exit, changed)]
    /\ turn' = IF copy.saved THEN copy'.turn ELSE turn
    /\ unseen' = unseen \ {copy.key}
    /\ UNCHANGED <<disk, extra, dropped, again, made, upsets>>

BatchEnds ==
    /\ copy.at = "next"
    /\ turn' = copy.turn
    /\ copy' = NoBatch
    /\ UNCHANGED <<disk, landed, extra, dropped, unseen, again, made, upsets>>

(* the autosave, at any time and of whatever the session has *)
Autosave ==
    /\ disk # turn
    /\ disk' = turn
    /\ UNCHANGED <<turn, copy, landed, extra, dropped, unseen, again, made, upsets>>

(* the process dies, in the middle of a run that may have had its effect *)
ProcessDies ==
    /\ upsets < MaxCrashes /\ upsets' = upsets + 1
    /\ turn' = disk
    /\ copy' = NoBatch
    /\ landed' \in {landed, landed + (IF copy.at = "run" /\ copy.key \in Edits THEN 1 ELSE 0)}
    /\ UNCHANGED <<disk, extra, dropped, unseen, again, made>>

LoopsNext ==
    \/ BatchStarts \/ SaveReservation \/ SaveFails \/ BatchEnds \/ Autosave \/ ProcessDies
    \/ \E k \in Operation, time \in {1, 2} : CallTool(k, time)
    \/ \E exit \in {"completed", "timeout"}, changed \in BOOLEAN : ToolEnds(exit, changed)

LoopsSpec == LoopsInit /\ [][LoopsNext]_loopVars

(***************************************************************************)
(* Extra runs are paid for, through crashes and lost saves: an operation    *)
(* gets no more validating runs than edits have landed, and one recovery    *)
(* for each time it entered the window; and an extra run whose outcome was  *)
(* lost is not run again.                                                   *)
(***************************************************************************)
ExtraRunsArePaid ==
    /\ \A k \in Operation : /\ extra[k].validation <= landed
                            /\ extra[k].recovery <= 1 + dropped[k]
    /\ ~again

-----------------------------------------------------------------------------
(* What the proofs need to know besides                                     *)
OperationRow == [ran : Nat, resv : Nat, exit : {"unknown", "completed", "timeout"},
                 longest : Nat, recovered : BOOLEAN, inflight : BOOLEAN]

IsTurn(t) ==
    /\ t = [recent |-> t.recent, edits |-> t.edits, rows |-> t.rows]
    /\ t.recent \in Seq(Operation) /\ t.edits \in Nat
    /\ \E D \in SUBSET Operation : t.rows \in [D -> OperationRow]

LoopTypes ==
    /\ IsTurn(turn) /\ IsTurn(disk) /\ IsTurn(copy.turn)
    /\ copy = [at |-> copy.at, key |-> copy.key, turn |-> copy.turn, saved |-> copy.saved,
               why |-> copy.why]
    /\ copy.at \in {"run", "save"} => copy.key \in Operation
    /\ landed \in Nat
    /\ extra \in [Operation -> [validation : Nat, recovery : Nat]]
    /\ dropped \in [Operation -> Nat] /\ unseen \subseteq Operation

(* What each copy of the loop state knows, in memory, in a batch, on disk:  *)
(* no extra run is forgotten as long as it could be granted again.          *)
Knows(t, k) ==
    /\ extra[k].validation <= t.edits
    /\ extra[k].validation > 0 =>
          /\ k \in Observers
          /\ k \in DOMAIN t.rows =>
                extra[k].validation <= t.rows[k].ran \/ extra[k].validation <= t.rows[k].resv
          /\ k \notin DOMAIN t.rows => k \notin ToSet(t.recent)
    /\ extra[k].recovery <= 1 + dropped[k]
    /\ extra[k].recovery > dropped[k] => k \in DOMAIN t.rows /\ t.rows[k].recovered
    /\ k \in unseen => k \in DOMAIN t.rows /\ t.rows[k].inflight

Remembers(t) == t.edits <= landed /\ \A k \in Operation : Knows(t, k)

(* The permission for the extra run about to be saved is spent in the copy. *)
PermitIsSpent ==
    copy.at = "save" =>
        LET k == copy.key
            row == copy.turn.rows[k]
        IN  /\ k \in DOMAIN copy.turn.rows /\ row.inflight /\ k \notin unseen
            /\ copy.why \in {"validation", "recovery"}
            /\ copy.why = "validation" => /\ k \in Observers
                                          /\ extra[k].validation < copy.turn.edits
                                          /\ extra[k].validation < row.resv
            /\ copy.why = "recovery" => row.recovered /\ extra[k].recovery <= dropped[k]

LoopsInv ==
    /\ LoopTypes
    /\ Remembers(turn) /\ Remembers(disk) /\ (copy.at # "none" => Remembers(copy.turn))
    /\ PermitIsSpent /\ ~again
=============================================================================

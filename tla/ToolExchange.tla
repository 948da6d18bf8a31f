----------------------------- MODULE ToolExchange -----------------------------
(***************************************************************************)
(* The exchange of tool calls and results in the history of a session       *)
(* (application/session.py, _session_run_completion.py, domain/pending.py): *)
(* a batch of calls runs one after the other, its results reach the history *)
(* together; a batch with a deferred call keeps them in the table of        *)
(* pending rows until the last child has answered.  The batch may be        *)
(* stopped at any point, and the process may die and restore any snapshot   *)
(* that was saved on the way: then what is missing is answered for it.      *)
(*                                                                          *)
(* Providers use an id again in a later batch, so a call also has a number  *)
(* of its own.  The result of call n is n, 0 is the text that says its      *)
(* outcome is not known.                                                    *)
(***************************************************************************)
EXTENDS Naturals, Sequences, FiniteSets, FiniteSetsExt, SequencesExt, TLC

CONSTANTS
    Batches,        \* the batches a model may answer with: sequences of calls
    MaxBatches,     \* bound: batches
    MaxAsks,        \* bound: user turns in the history
    MaxStops        \* bound: stopped turns and crashes

ASSUME ExchangeAssumption ==
    /\ MaxBatches \in Nat /\ MaxAsks \in Nat /\ MaxStops \in Nat
    /\ \A b \in Batches : IsInjective([i \in DOMAIN b |-> b[i].id])

VARIABLES
    talk,       \* state.messages
    table,      \* state.pending_events: id -> row
    receipts,   \* the results of the running batch, with the step they are of
    steps,      \* state.step_count
    mode,       \* state.phase
    asked,      \* state.pending_external_user_turn
    handed,     \* state.submitted_summary: a submission was accepted
    todo,       \* the batch that the driver is at
    kids,       \* the calls whose child agent lives
    stored,     \* the last snapshot
    heard,      \* the calls whose result the session has seen
    batches, stops

exchangeVars == <<talk, table, receipts, steps, mode, asked, handed, todo, kids, stored, heard,
                  batches, stops>>
stateVars == <<talk, table, mode, asked, handed>>

User         == [role |-> "user", calls |-> <<>>, id |-> "", val |-> 0]
FinalAnswer  == [role |-> "answer", calls |-> <<>>, id |-> "", val |-> 0]
CallsOf(cs)  == [role |-> "calls", calls |-> cs, id |-> "", val |-> 0]
ResultOf(id, val) == [role |-> "result", calls |-> <<>>, id |-> id, val |-> val]

None == [x \in {} |-> 0]
Over == {"done", "cancelled", "error"}
NoReceipts == [step |-> 0, before |-> None, now |-> None]
NoTodo == [calls |-> <<>>, kept |-> <<>>, at |-> 1, does |-> "none"]

RowOf(order, status, val, no) == [order |-> order, status |-> status, val |-> val, no |-> no]

----------------------------------------------------------------------------
(* The table of pending rows                                                *)

IsComplete(t) == DOMAIN t # {} /\ \A id \in DOMAIN t : t[id].status # "pending"

OrderedResults(t) ==
    LET ids == SetToSortSeq(DOMAIN t, LAMBDA a, b : t[a].order < t[b].order)
    IN  [i \in DOMAIN ids |-> ResultOf(ids[i], t[ids[i]].val)]

Deferring(b) == \E i \in DOMAIN b : b[i].kind = "deferred"

(* _apply_pending_tool_allowlist: the calls that the step's gate lets pass  *)
Kept(b) == SelectSeq(b, LAMBDA c : c.kind # "blocked")
Blocked(b) == {i \in DOMAIN b : b[i].kind = "blocked"}

(* _track_tool_results: what the rows hold when a call starts               *)
Filled(t) == [id \in {x \in DOMAIN t : t[x].status # "pending"} |-> t[id].val]

AnyReceipts(st, md) == receipts.now @@ receipts.before

(* the receipts count for the step they were made in, until its results are *)
(* in the history or in the rows                                            *)
CurrentReceipts(st, md) ==
    IF receipts.step = st /\ md \notin {"autosaving", "awaiting", "done"}
    THEN receipts.now @@ receipts.before ELSE None

----------------------------------------------------------------------------
(* Closing an exchange                                                      *)

(* _open_tool_call_ids: calls and results paired in the order of the        *)
(* history, as an old result must not answer a new call with its id         *)
OpenCalls(ms) ==
    LET before(pend, msg) == {i \in DOMAIN pend : pend[i].id = msg.id}
        after(pend, msg) ==
            CASE msg.role = "calls" -> pend \o msg.calls
              [] msg.role = "result" /\ before(pend, msg) # {} -> RemoveAt(pend, Min(before(pend, msg)))
              [] OTHER -> pend
        open[k \in 0..Len(ms)] == IF k = 0 THEN <<>> ELSE after(open[k - 1], ms[k])
    IN  open[Len(ms)]

(* the rows of the calls cs, one per place, by their ids                    *)
RowsOf(cs, rows) ==
    [id \in {cs[i].id : i \in DOMAIN cs} |-> rows[CHOOSE i \in DOMAIN cs : cs[i].id = id]]

ValueOf(got, id) == IF id \in DOMAIN got THEN got[id] ELSE 0

(* _append_restore_results_for_open_tool_calls: without rows the missing    *)
(* results go to the history; rows keep the batch together                  *)
Close(ms, pend, t, keep, got) ==
    LET rows == [i \in DOMAIN pend |->
                    RowOf(i, IF pend[i].id \in DOMAIN got THEN "done" ELSE "failed",
                          ValueOf(got, pend[i].id), pend[i].no)]
        rest == SelectSeq(pend, LAMBDA c : c.id \notin keep)
    IN  IF keep # {} /\ DOMAIN t # {}
        THEN [talk |-> ms, rows |-> t @@ RowsOf(pend, rows)]
        ELSE [talk |-> ms \o [i \in DOMAIN rest |-> ResultOf(rest[i].id, ValueOf(got, rest[i].id))],
              rows |-> t]

CloseOpen(ms, t, keep, got) == Close(ms, OpenCalls(ms), t, keep, got)

WithAnswer(ms) == IF Last(ms) = FinalAnswer THEN ms ELSE Append(ms, FinalAnswer)

(* _restore_pending_row: nobody will fill a row that was pending            *)
RowsRead(t) ==
    [id \in DOMAIN t |-> IF t[id].status = "pending"
                         THEN [t[id] EXCEPT !.status = "failed", !.val = 0] ELSE t[id]]

(* _normalize_interrupted_snapshot_state, with the rows t and the open      *)
(* calls pend of the snapshot d                                             *)
Normalized(d, t, pend) ==
    LET missing == [i \in DOMAIN pend |-> RowOf(i, "failed", 0, pend[i].no)]
        waiting == t @@ RowsOf(pend, missing)
        whole == IF DOMAIN t = {} THEN t
                 ELSE CloseOpen(d.talk, t, DOMAIN t, d.receipts).rows
        drained == d.talk \o SelectSeq(OrderedResults(whole),
                                       LAMBDA r : \E i \in DOMAIN pend : pend[i].id = r.id)
        closed == CloseOpen(drained, None, {}, d.receipts).talk
        submitted == d.stage \in {"executing", "autosaving"} /\ d.handed
    IN  IF d.stage = "awaiting" /\ DOMAIN waiting # {}
        THEN [talk |-> d.talk, rows |-> waiting, stage |-> "awaiting", handed |-> d.handed]
        ELSE [talk |-> IF submitted THEN WithAnswer(closed) ELSE closed,
              rows |-> None, handed |-> FALSE,
              stage |-> IF submitted THEN "done" ELSE IF d.stage \in Over THEN d.stage ELSE "idle"]

Restored(d) == Normalized(d, RowsRead(d.rows), OpenCalls(d.talk))

----------------------------------------------------------------------------
(* A turn                                                                   *)

Snap == [talk |-> talk, rows |-> table, stage |-> mode, asked |-> asked, handed |-> handed,
         steps |-> steps, receipts |-> CurrentReceipts(steps, mode), known |-> heard]

ExchangeInit ==
    /\ talk = <<>> /\ table = None /\ receipts = NoReceipts /\ steps = 0 /\ mode = "idle"
    /\ asked = "no" /\ handed = FALSE /\ todo = NoTodo /\ kids = {} /\ heard = {}
    /\ stored = Snap /\ batches = 0 /\ stops = 0

(* add_user_message: after the rows of a stopped turn, if there are any     *)
AskTurn ==
    /\ mode \in Over \cup {"idle"} /\ asked = "no"
    /\ Len(SelectSeq(talk, LAMBDA x : x = User)) < MaxAsks
    /\ IF DOMAIN table = {} THEN talk' = Append(talk, User) /\ asked' = "put"
       ELSE asked' = "waits" /\ UNCHANGED talk
    /\ UNCHANGED <<table, receipts, steps, mode, handed, todo, kids, stored, heard, batches, stops>>

(* _prepare_turn without rows                                               *)
StartTurnOf ==
    /\ mode \in Over \cup {"idle"} /\ asked # "no" /\ DOMAIN table = {}
    /\ talk' = IF asked = "waits" THEN Append(talk, User) ELSE talk
    /\ asked' = "no" /\ mode' = "precheck" /\ handed' = FALSE
    /\ UNCHANGED <<table, receipts, steps, todo, kids, stored, heard, batches, stops>>

(* _resume_from_awaiting, also of a stopped turn whose rows are filled      *)
ResumeRows ==
    /\ mode \in Over \cup {"awaiting"} /\ IsComplete(table)
    /\ talk' = talk \o OrderedResults(table) \o (IF asked = "waits" THEN <<User>> ELSE <<>>)
    /\ handed' = (handed /\ asked # "waits")
    /\ table' = None /\ asked' = "no" /\ mode' = "autosaving"
    /\ UNCHANGED <<receipts, steps, todo, kids, stored, heard, batches, stops>>

(* the model answers with a batch, or with a text that ends the turn        *)
ModelCalls(b) ==
    /\ mode = "precheck" /\ batches < MaxBatches /\ batches' = batches + 1
    /\ LET calls == [i \in DOMAIN b |-> b[i] @@ ("no" :> 10 * batches + i)]
       IN  /\ talk' = Append(talk, CallsOf(calls))
           /\ todo' = [calls |-> calls, kept |-> Kept(calls), at |-> 1, does |-> "prepare"]
    /\ steps' = steps + 1 /\ mode' = "executing"
    /\ UNCHANGED <<table, receipts, asked, handed, kids, stored, heard, stops>>

ModelConcludes ==
    /\ mode = "precheck" /\ talk' = Append(talk, FinalAnswer) /\ mode' = "done"
    /\ UNCHANGED <<table, receipts, steps, asked, handed, todo, kids, stored, heard, batches, stops>>

(* a batch with one faulty call is answered as a whole, and nothing runs    *)
RejectBatch ==
    /\ todo.does = "prepare"
    /\ talk' = talk \o [i \in DOMAIN todo.calls |-> ResultOf(todo.calls[i].id, todo.calls[i].no)]
    /\ heard' = heard \cup {todo.calls[i].no : i \in DOMAIN todo.calls}
    /\ mode' = "autosaving" /\ todo' = NoTodo
    /\ UNCHANGED <<table, receipts, steps, asked, handed, kids, stored, batches, stops>>

(* _buffer_completed_rows                                                   *)
RowsFor(cs) ==
    [id \in {c.id : c \in cs} |-> LET c == CHOOSE x \in cs : x.id = id
                                  IN  RowOf(c.no % 10, "done", c.no, c.no)]

(* else its blocked calls get their rows first, if it will wait for rows    *)
PrepareBatch ==
    LET blocked == {todo.calls[i] : i \in Blocked(todo.calls)}
    IN  /\ todo.does = "prepare" /\ todo' = [todo EXCEPT !.does = "begin"]
        /\ IF Deferring(todo.kept)
           THEN table' = RowsFor(blocked) @@ table /\ heard' = heard \cup {c.no : c \in blocked}
           ELSE UNCHANGED <<table, heard>>
        /\ UNCHANGED <<talk, receipts, steps, mode, asked, handed, kids, stored, batches, stops>>

Call == todo.kept[todo.at]
AtCall(does) == todo.does = does /\ todo.at <= Len(todo.kept)

(* process: it starts with an empty list of results, once for a batch of    *)
(* immediate calls and for each call of one with deferred calls             *)
BeginCall ==
    /\ AtCall("begin") /\ Call.kind # "deferred"
    /\ todo' = [todo EXCEPT !.does = "run"]
    /\ receipts' = IF Deferring(todo.kept) \/ todo.at = 1
                   THEN [step |-> steps, before |-> Filled(table), now |-> None] ELSE receipts
    /\ UNCHANGED <<stateVars, steps, kids, stored, heard, batches, stops>>

EndCall ==
    /\ AtCall("run")
    /\ receipts' = [receipts EXCEPT !.now = (Call.id :> Call.no) @@ @]
    /\ heard' = heard \cup {Call.no} /\ handed' = (handed \/ Call.kind = "submit")
    /\ todo' = [todo EXCEPT !.does = "ran"]
    /\ UNCHANGED <<talk, table, steps, mode, asked, kids, stored, batches, stops>>

(* the result is kept in its row; a submission skips the calls after it     *)
NextCall ==
    LET n == Len(todo.kept)
        skipped == IF Call.kind = "submit" THEN {todo.kept[i] : i \in (todo.at + 1)..n} ELSE {}
    IN  /\ AtCall("ran")
        /\ todo' = [todo EXCEPT !.does = "begin", !.at = IF skipped = {} THEN @ + 1 ELSE n + 1]
        /\ IF Deferring(todo.kept)
           THEN table' = RowsFor({Call} \cup skipped) @@ table /\ UNCHANGED receipts
           ELSE /\ receipts' = [receipts EXCEPT !.now = @ @@ Filled(RowsFor(skipped))]
                /\ UNCHANGED table
        /\ heard' = heard \cup {c.no : c \in skipped}
        /\ UNCHANGED <<talk, steps, mode, asked, handed, kids, stored, batches, stops>>

(* _execute_deferred_tools: the row is there before the child starts        *)
BeginDeferred ==
    /\ AtCall("begin") /\ Call.kind = "deferred"
    /\ table' = (Call.id :> RowOf(Call.no % 10, "pending", 0, Call.no)) @@ table
    /\ todo' = [todo EXCEPT !.does = "spawn"]
    /\ UNCHANGED <<talk, receipts, steps, mode, asked, handed, kids, stored, heard, batches, stops>>

FillRow(id, status) ==
    /\ table' = [table EXCEPT ![id].status = status, ![id].val = table[id].no]
    /\ heard' = heard \cup {table[id].no}

EndDeferred(born) ==
    /\ AtCall("spawn") /\ todo' = [todo EXCEPT !.does = "begin", !.at = @ + 1]
    /\ IF born THEN kids' = kids \cup {Call.no} /\ UNCHANGED <<table, heard>>
       ELSE FillRow(Call.id, "failed") /\ UNCHANGED kids
    /\ UNCHANGED <<talk, receipts, steps, mode, asked, handed, stored, batches, stops>>

ChildEnds(id) ==
    /\ id \in DOMAIN table /\ table[id].status = "pending" /\ table[id].no \in kids
    /\ FillRow(id, "done") /\ kids' = kids \ {table[id].no}
    /\ UNCHANGED <<talk, receipts, steps, mode, asked, handed, todo, stored, batches, stops>>

(* execute_pending_tools, after the last call                               *)
FinishCalls ==
    /\ todo.does = "begin" /\ todo.at > Len(todo.kept) /\ todo' = NoTodo
    /\ LET got == CurrentReceipts(steps, mode)
           valueOf(c) == IF c.kind = "blocked" THEN c.no ELSE got[c.id]
           results == [i \in DOMAIN todo.calls |-> ResultOf(todo.calls[i].id, valueOf(todo.calls[i]))]
       IN  IF ~Deferring(todo.kept)
           THEN /\ talk' = talk \o results /\ mode' = "autosaving" /\ UNCHANGED table
                /\ heard' = heard \cup {todo.calls[i].no : i \in Blocked(todo.calls)}
           ELSE /\ UNCHANGED heard
                /\ IF IsComplete(table)
                   THEN talk' = talk \o OrderedResults(table) /\ table' = None /\ mode' = "autosaving"
                   ELSE mode' = "awaiting" /\ UNCHANGED <<talk, table>>
    /\ UNCHANGED <<receipts, steps, asked, handed, kids, stored, batches, stops>>

(* autosave_pending_step: the summary of a submission becomes the answer,   *)
(* the step is saved, and then the turn goes on or is over                  *)
PutAnswer ==
    /\ mode = "autosaving" /\ handed /\ todo = NoTodo
    /\ talk' = Append(talk, FinalAnswer) /\ todo' = [NoTodo EXCEPT !.does = "answered"]
    /\ UNCHANGED <<table, receipts, steps, mode, asked, handed, kids, stored, heard, batches, stops>>

EndStep ==
    /\ mode = "autosaving" /\ (handed <=> todo.does = "answered") /\ todo' = NoTodo
    /\ mode' = IF handed THEN "done" ELSE "precheck"
    /\ handed' = FALSE
    /\ UNCHANGED <<talk, table, receipts, steps, asked, kids, stored, heard, batches, stops>>

(* an event of the session asks for a save                                  *)
SaveState ==
    /\ stored # Snap /\ stored' = Snap
    /\ UNCHANGED <<stateVars, receipts, steps, todo, kids, heard, batches, stops>>

(* _settle_cancelled_deferred_row: a child that was produced keeps its row  *)
SettleSpawn(born) ==
    IF AtCall("spawn") /\ ~born THEN [table EXCEPT ![Call.id].status = "failed"] ELSE table

Settle(closed) == talk' = closed.talk /\ table' = closed.rows

(* the turn is cancelled or fails: the calls without a row are answered     *)
StopBatch(how, born) ==
    /\ mode \in {"executing", "autosaving"} /\ stops < MaxStops /\ stops' = stops + 1
    /\ LET t == SettleSpawn(born)
       IN  Settle(CloseOpen(talk, t, DOMAIN t, CurrentReceipts(steps, how)))
    /\ kids' = IF AtCall("spawn") /\ born THEN kids \cup {Call.no} ELSE kids
    /\ mode' = how /\ todo' = NoTodo
    /\ UNCHANGED <<receipts, steps, asked, handed, stored, heard, batches>>

(* the process dies; restore reads the last snapshot                        *)
Adopt(r) ==
    talk' = r.talk /\ table' = r.rows /\ mode' = r.stage /\ handed' = r.handed

Restart ==
    /\ stops < MaxStops /\ stops' = stops + 1 /\ Adopt(Restored(stored))
    /\ steps' = stored.steps /\ asked' = stored.asked /\ heard' = stored.known
    /\ receipts' = NoReceipts /\ todo' = NoTodo /\ kids' = {}
    /\ UNCHANGED <<stored, batches>>

ExchangeNext ==
    \/ AskTurn \/ StartTurnOf \/ ResumeRows \/ ModelConcludes
    \/ \E b \in Batches : ModelCalls(b)
    \/ RejectBatch \/ PrepareBatch \/ BeginCall \/ EndCall \/ NextCall \/ BeginDeferred \/ FinishCalls
    \/ \E born \in BOOLEAN : EndDeferred(born)
    \/ \E id \in DOMAIN table : ChildEnds(id)
    \/ PutAnswer \/ EndStep \/ SaveState \/ Restart
    \/ \E how \in {"cancelled", "error"}, born \in BOOLEAN : StopBatch(how, born)

ExchangeSpec == ExchangeInit /\ [][ExchangeNext]_exchangeVars

----------------------------------------------------------------------------

(* the calls of message k stand before exactly their results, in order,     *)
(* each the call's own or the text that its outcome is not known            *)
Answered(k) ==
    LET cs == talk[k].calls
    IN  /\ Len(talk) >= k + Len(cs)
        /\ \A i \in DOMAIN cs : LET r == talk[k + i]
                                IN  r.role = "result" /\ r.id = cs[i].id /\ r.val \in {0, cs[i].no}

(* The history is one that a provider accepts whenever a request may be     *)
(* made: every call has its own result, right behind it and in order, after *)
(* any stop and any restart, though ids are used again; the last batch may  *)
(* be open only while it runs or its rows are kept.  A turn that is done    *)
(* has its answer, once.                                                    *)
HistoryIsLegal ==
    /\ \A k \in DOMAIN talk : talk[k].role = "calls" =>
          \/ Answered(k)
          \/ k = Len(talk) /\ (mode = "executing" \/ DOMAIN table # {})
    /\ \A k \in DOMAIN talk : talk[k].role = "result" =>
          \E j \in 1..(k - 1) : talk[j].role = "calls" /\ k - j \in DOMAIN talk[j].calls
    /\ mode = "done" /\ asked = "no" => Last(talk) = FinalAnswer
    /\ \A k \in DOMAIN talk \ {1} : talk[k] = FinalAnswer => talk[k - 1] # FinalAnswer

(* A result the session has seen, and for a restored session one it had     *)
(* seen when it was saved, is in its history, its rows or the receipts of   *)
(* the batch that runs; it is never answered as unknown.                    *)
ResultsAreKept ==
    LET vals == {talk[k].val : k \in DOMAIN talk} \cup {table[id].val : id \in DOMAIN table}
        running == IF mode = "executing" THEN Range(CurrentReceipts(steps, mode)) ELSE {}
    IN  heard \subseteq vals \cup running

(* A session that waits has a row for each call of its last batch, and a    *)
(* row that is not filled has a child that will fill it.  A batch never     *)
(* finds a row of an earlier one, which would be refused as a duplicate.    *)
WaitingHasRows ==
    /\ todo.does = "prepare" => DOMAIN table = {}
    /\ mode = "awaiting" => DOMAIN table = {c.id : c \in ToSet(Last(talk).calls)}
    /\ mode # "executing" => \A id \in DOMAIN table : table[id].status = "pending" => table[id].no \in kids

(* Calls and results stay paired, and no result is lost.                    *)
ExchangeIsWhole == HistoryIsLegal /\ ResultsAreKept /\ WaitingHasRows
=============================================================================

--------------------------- MODULE SnapshotJournal ---------------------------
(***************************************************************************)
(* The autosave file of one session: adapters/storage.py with the cursor    *)
(* session.py keeps over it.  The file is a base snapshot and, beside it, a *)
(* journal of deltas.  An autosave appends the messages that changed and,   *)
(* at every power of two, compacts: it replaces the base and then empties   *)
(* the journal.  A save by hand freezes the session under a sequence of its *)
(* own and compacts too, while the worker of the autosave may be anywhere.  *)
(* Appends and compactions take a file lock; compactions of this process    *)
(* also take the checkpoint lock.  Any write may fail, fail after the bytes *)
(* have arrived, or be cut by a crash, after which the session is restored  *)
(* from what the two files hold.                                            *)
(*                                                                          *)
(* A message is the number of the edit that last wrote it.  The seen-result *)
(* hashes are a delta of the same kind and are left out.                    *)
(***************************************************************************)
EXTENDS Naturals, FiniteSets, SequencesExt, FiniteSetsExt

CONSTANTS
    ManualSaves,     (* the saves by hand, beside the worker of the autosave *)
    MaxChanges,        (* bound: changes of the transcript *)
    MaxAutosaves,    (* bound: autosaves *)
    MaxDisruptions        (* bound: failed writes and crashes *)

VARIABLES
    mem,        (* state.messages *)
    cursor,     (* _auto_save_sequence, _auto_save_message_count, whether
                   _auto_save_rewrite_from is set, _auto_save_rewrite_revision *)
    reserved,   (* _auto_save_reserved_sequence *)
    due,        (* _next_auto_save_checkpoint *)
    save,       (* each save: where it is, and what it froze *)
    holder,     (* who has _auto_save_checkpoint_lock *)
    file,       (* the base file *)
    journal,    (* the complete records of the journal *)
    torn,       (* the journal ends in part of a record *)
    success,    (* the highest sequence a save has reported as saved *)
    edits, autosaves, disruptions

journalVars == <<mem, cursor, reserved, due, save, holder, file, journal, torn, success,
                 edits, autosaves, disruptions>>

Saver  == ManualSaves \cup {"auto"}
NoSave == [pc |-> "none", seq |-> 0, whole |-> << >>, from |-> 0, rev |-> 0, compacts |-> FALSE]
NoFile == [seq |-> 0, msgs |-> << >>]

JournalInit ==
    /\ mem = <<0>>
    /\ cursor = [seq |-> 0, count |-> 0, rewrite |-> TRUE, rev |-> 0]
    /\ reserved = 0 /\ due = 1
    /\ save = [s \in Saver |-> NoSave]
    /\ holder = "none"
    /\ file = NoFile /\ journal = << >> /\ torn = FALSE
    /\ success = 0
    /\ edits = 0 /\ autosaves = 0 /\ disruptions = 0

(* load_snapshot: the records after the base, each cut in where it says *)
Replay(old, records) ==
    FoldLeft(LAMBDA state, r :
               IF r.seq <= state.seq THEN state
               ELSE [seq |-> r.seq, msgs |-> SubSeq(state.msgs, 1, r.from) \o r.msgs],
             old, records)

Loaded == Replay(file, journal)

Newest == Max({file.seq} \cup {journal[i].seq : i \in DOMAIN journal})

(* the session gains a message, folds a steer into its last one, or has its *)
(* transcript replaced                                                      *)
Change ==
    /\ edits < MaxChanges /\ edits' = edits + 1
    /\ \/ mem' = Append(mem, edits') /\ UNCHANGED cursor
       \/ mem' = [mem EXCEPT ![Len(mem)] = edits'] /\ UNCHANGED cursor
       \/ mem' = <<edits'>> /\ cursor' = [cursor EXCEPT !.rewrite = TRUE, !.rev = @ + 1]
    /\ UNCHANGED <<reserved, due, save, holder, file, journal, torn, success, autosaves, disruptions>>

Reserve == reserved' = Max({reserved, cursor.seq}) + 1

(* the first message of the delta; the one before it is kept as an overlap *)
DeltaStart ==
    LET kept == IF reserved > cursor.seq THEN 0 ELSE Min({cursor.count, Len(mem)}) IN
    IF cursor.rewrite \/ kept = 0 THEN 0 ELSE kept - 1

Freeze(s, pc) ==
    /\ save[s].pc = "none"
    /\ Reserve
    /\ save' = [save EXCEPT ![s] = [pc |-> pc, seq |-> reserved', whole |-> mem,
                                    from |-> DeltaStart, rev |-> cursor.rev,
                                    compacts |-> reserved' >= due]]

(* _prepare_journal_auto_save *)
PrepareAuto ==
    /\ autosaves < MaxAutosaves /\ autosaves' = autosaves + 1
    /\ Freeze("auto", "start")
    /\ UNCHANGED <<mem, cursor, due, holder, file, journal, torn, success, edits, disruptions>>

(* Session.save on the autosave path *)
SaveByHand(s) ==
    /\ Freeze(s, "lock")
    /\ UNCHANGED <<mem, cursor, due, holder, file, journal, torn, success, edits, autosaves, disruptions>>

At(s, pc) == save' = [save EXCEPT ![s].pc = pc]

(* what a finished save leaves: its lock and its place among the pending *)
Leave(s, pc) ==
    /\ save' = [save EXCEPT ![s] = [NoSave EXCEPT !.pc = pc]]
    /\ holder' = IF holder = s THEN "none" ELSE holder

(* persist_incrementally: behind an older checkpoint, else at once *)
PersistStarts ==
    /\ save["auto"].pc = "start"
    /\ IF \E s \in ManualSaves : /\ save[s].pc \notin {"none", "done"}
                                 /\ save[s].seq < save["auto"].seq
       THEN holder = "none" /\ holder' = "auto"
       ELSE UNCHANGED holder
    /\ At("auto", "append")
    /\ UNCHANGED <<mem, cursor, reserved, due, file, journal, torn, success, edits, autosaves, disruptions>>

(* nobody is between replacing the base and emptying the journal *)
FileFree == \A s \in Saver : save[s].pc # "compact"

Record(s) == [seq |-> save[s].seq, from |-> save[s].from,
              msgs |-> SubSeq(save[s].whole, save[s].from + 1, Len(save[s].whole))]

Fails == disruptions < MaxDisruptions /\ disruptions' = disruptions + 1

(* _append_journal_record: cut a torn tail, write, sync.  A failed write is *)
(* taken back; if that fails too, some or all of the record stays.          *)
AppendRecord ==
    /\ save["auto"].pc = "append" /\ FileFree
    /\ \/ /\ journal' = Append(journal, Record("auto")) /\ torn' = FALSE
          /\ At("auto", "advance")
          /\ UNCHANGED <<holder, disruptions>>
       \/ /\ Fails /\ Leave("auto", "none")
          /\ \/ UNCHANGED journal /\ torn' \in {FALSE, TRUE}
             \/ journal' = Append(journal, Record("auto")) /\ torn' = FALSE
    /\ UNCHANGED <<mem, cursor, reserved, due, file, success, edits, autosaves>>

Reached(s) == [cursor EXCEPT !.seq = save[s].seq, !.count = Len(save[s].whole),
                             !.rewrite = @ /\ cursor.rev # save[s].rev]

Reports(s) == success' = Max({success, save[s].seq})

(* the record is on disk: the cursor moves, unless a later save has moved it *)
Advance ==
    /\ save["auto"].pc = "advance"
    /\ IF save["auto"].seq > cursor.seq
       THEN cursor' = Reached("auto") ELSE UNCHANGED cursor
    /\ IF save["auto"].seq > cursor.seq /\ save["auto"].compacts
       THEN At("auto", "lock") /\ UNCHANGED <<holder, success>>
       ELSE Leave("auto", "none") /\ Reports("auto")
    /\ UNCHANGED <<mem, reserved, due, file, journal, torn, edits, autosaves, disruptions>>

(* the checkpoint lock; a save that was overtaken meanwhile has nothing to do *)
TakeLock(s) ==
    /\ save[s].pc = "lock" /\ holder \in {"none", s}
    /\ IF save[s].seq < cursor.seq
       THEN Leave(s, IF s = "auto" THEN "none" ELSE "done") /\ Reports(s)
       ELSE At(s, "check") /\ holder' = s /\ UNCHANGED success
    /\ UNCHANGED <<mem, cursor, reserved, due, file, journal, torn, edits, autosaves, disruptions>>

SameSequence(s) == {i \in DOMAIN journal : journal[i].seq = save[s].seq}

(* checkpoint_snapshot refuses to replace what it does not cover *)
Covers(s) ==
    /\ Newest <= save[s].seq
    /\ Cardinality(SameSequence(s)) <= 1
    /\ SameSequence(s) # {} => Loaded.msgs = save[s].whole

Ended(s) == IF s = "auto" THEN "none" ELSE "done"

(* mutant: the journal is emptied before the base is replaced *)
ReplaceBaseLast(s) ==
    /\ save[s].pc = "check" /\ FileFree /\ Covers(s)
    /\ journal' = << >> /\ torn' = FALSE
    /\ At(s, "compact") /\ UNCHANGED <<holder, disruptions, file>>
    /\ UNCHANGED <<mem, cursor, reserved, due, success, edits, autosaves>>

(* the base is replaced in one rename; refused or failed, it stays *)
ReplaceBase(s) ==
    /\ save[s].pc = "check" /\ FileFree
    /\ \/ /\ Covers(s)
          /\ file' = [seq |-> save[s].seq, msgs |-> save[s].whole]
          /\ At(s, "compact") /\ UNCHANGED <<holder, disruptions>>
       \/ /\ ~Covers(s) /\ Leave(s, Ended(s)) /\ UNCHANGED <<file, disruptions>>
       \/ Fails /\ Leave(s, Ended(s)) /\ UNCHANGED file
    /\ UNCHANGED <<mem, cursor, reserved, due, journal, torn, success, edits, autosaves>>

(* the journal is emptied, and the session's cursor follows *)
Compact(s) ==
    /\ save[s].pc = "compact"
    /\ \/ /\ journal' = << >> /\ torn' = FALSE
          /\ Leave(s, Ended(s)) /\ Reports(s)
          /\ cursor' = IF s = "auto" THEN cursor ELSE Reached(s)
          /\ due' = CHOOSE d \in {2, 4, 8, 16} : d > save[s].seq /\ d <= 2 * save[s].seq
          /\ UNCHANGED disruptions
       \/ /\ Fails /\ Leave(s, Ended(s))
          /\ UNCHANGED <<journal, torn, cursor, due, success>>
    /\ UNCHANGED <<mem, reserved, file, edits, autosaves>>

(* a crash, and a session restored from the files: restore and              *)
(* _restore_auto_save_tracking                                              *)
Crash ==
    /\ Fails
    /\ mem' = IF Loaded = NoFile THEN <<0>> ELSE Loaded.msgs
    /\ cursor' = [seq |-> Loaded.seq, count |-> Len(Loaded.msgs),
                  rewrite |-> Loaded = NoFile, rev |-> 0]
    /\ reserved' = Loaded.seq
    /\ due' = IF Loaded.seq = 0 THEN 1
              ELSE CHOOSE d \in {2, 4, 8, 16} : d > Loaded.seq /\ d <= 2 * Loaded.seq
    /\ save' = [s \in Saver |-> NoSave]
    /\ holder' = "none"
    /\ torn' \in {torn, torn \/ save["auto"].pc = "append"}
    /\ UNCHANGED <<file, journal, success, edits, autosaves>>

JournalStep ==
    \/ PersistStarts \/ AppendRecord \/ Advance
    \/ \E s \in Saver : TakeLock(s) \/ ReplaceBase(s) \/ Compact(s)

JournalNext == JournalStep \/ Change \/ PrepareAuto \/ Crash \/ \E s \in ManualSaves : SaveByHand(s)

JournalSpec == JournalInit /\ [][JournalNext]_journalVars /\ WF_journalVars(JournalStep)

(***************************************************************************)
(* The base, the journal and the cursor together are one durable snapshot:  *)
(* whatever the order of an append, a compaction and a save by hand, and    *)
(* wherever a write fails or the process dies, the two files replay to a    *)
(* whole state some save froze, never to an older one than before, and      *)
(* never to one older than a save that reported success.                    *)
(***************************************************************************)
Frozen == {[seq |-> save[s].seq, msgs |-> save[s].whole] :
             s \in {t \in Saver : save[t].pc \notin {"none", "done"}}}

Snapshot == INSTANCE DurableSnapshot WITH
    durable <- Loaded, saving <- Frozen, promised <- success

JournalIsOneSnapshot == Snapshot!SnapshotSpec
=============================================================================

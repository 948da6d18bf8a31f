--------------------------- MODULE DurableSnapshot ---------------------------
(***************************************************************************)
(* What the snapshot files of a session promise whoever loads them, with no *)
(* word of how they are kept: there is one saved state at a time, it is one *)
(* of the states some save froze, it is only ever replaced by a later one,  *)
(* and a save that reports success leaves a state at least as late as its   *)
(* own.  SnapshotJournal implements it with a base file and a journal.      *)
(***************************************************************************)
EXTENDS Naturals

VARIABLES
    durable,     (* the state a reader would load: its sequence and messages *)
    saving,      (* the states frozen by the saves in progress *)
    promised     (* the highest sequence a save has reported as saved *)

snapshotVars == <<durable, saving, promised>>

SnapshotInit ==
    /\ durable = [seq |-> 0, msgs |-> << >>]
    /\ saving = {}
    /\ promised = 0

(* a save freezes a state, under a sequence above every other *)
Freezes ==
    /\ \E s \in saving' :
         /\ saving' = saving \cup {s}
         /\ s.seq > durable.seq
         /\ \A other \in saving : s.seq > other.seq
    /\ UNCHANGED <<durable, promised>>

Lands ==
    /\ durable' \in saving
    /\ durable'.seq > durable.seq
    /\ UNCHANGED <<saving, promised>>

(* a save ends: with success once its state or a later one is there, or     *)
(* with failure, and then its state may be there or not                      *)
Ends ==
    \E s \in saving :
      /\ saving' = saving \ {s}
      /\ \/ promised' = promised /\ UNCHANGED durable
         \/ promised' = promised /\ s.seq > durable.seq /\ durable' = s
         \/ promised' = s.seq /\ promised < s.seq /\ s.seq <= durable.seq /\ UNCHANGED durable

Restarts == saving' = {} /\ UNCHANGED <<durable, promised>>

SnapshotNext == Freezes \/ Lands \/ Ends \/ Restarts

SnapshotSpec == SnapshotInit /\ [][SnapshotNext]_snapshotVars
=============================================================================

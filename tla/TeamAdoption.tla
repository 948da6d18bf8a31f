---------------------------- MODULE TeamAdoption ----------------------------
(***************************************************************************)
(* adopt_agent: the lead applies the changes of a coder that finished to    *)
(* the workspace the team delivers.  A coder works on after it finished (a  *)
(* message wakes it), so changes arrive in versions: each completion        *)
(* captures the whole patch since the coder's base, and adopting a second   *)
(* version applies only what was added to the first.  Someone else may      *)
(* change the delivery files, so that a patch no longer applies; the call   *)
(* may be cancelled while git is at work, which only then stops it.         *)
(*                                                                         *)
(* A patch is a version: version v holds the versions before it.            *)
(***************************************************************************)
EXTENDS Naturals

CONSTANTS
    Coder,          \* direct children of the lead with the role coder
    MaxVersion,     \* bound: completions with changes of each coder
    MaxRuns,        \* bound: completions of each coder
    MaxEntryTurns,  \* bound: turns of the lead
    MaxMishaps      \* bound: failing captures, diffs, patches and candidate files

VARIABLES
    coding,     \* phase of each coder: "active", "done", "failed"
    captures,   \* its driver still captures changes after phase DONE
    tree,       \* version of each coder's worktree
    runs,       \* completions of each coder, its step_count
    completed,  \* _completed_coder_diffs: changes, turn of the lead, step_count
    adopted,    \* _adopted_coders: the same, of the last adoption
    delivery,   \* version of each coder's changes in the delivery workspace
    entryTurn,  \* _turn_started_at of the lead
    entered,    \* the lead has a turn
    adopting,   \* coder whose adoption holds _adoption_lock, or NoCoder
    stage,      \* "idle", "diff", "apply", "record", "keep", "return"
    wanted,     \* what the call captured at its start
    cancelled,  \* the caller was cancelled; the owned operation goes on
    written,    \* versions of each coder written as candidate patches
    retained,   \* the cleanup of the coder's worktree waits for its changes
    told,       \* what the last call answered, and about what
    mishaps

adoptionVars == <<coding, captures, tree, runs, completed, adopted, delivery, entryTurn, entered,
                  adopting, stage, wanted, cancelled, written, retained, told, mishaps>>

NoCoder == "nobody"
Never   == [version |-> 0, turn |-> 0, run |-> 0]

ASSUME AdoptionAssumption == NoCoder \notin Coder

AdoptionInit ==
    /\ coding = [c \in Coder |-> "active"]
    /\ captures = [c \in Coder |-> FALSE]
    /\ tree = [c \in Coder |-> 0] /\ runs = [c \in Coder |-> 0]
    /\ completed = [c \in Coder |-> Never] /\ adopted = [c \in Coder |-> Never]
    /\ delivery = [c \in Coder |-> 0]
    /\ entryTurn = 1 /\ entered = TRUE
    /\ adopting = NoCoder /\ stage = "idle" /\ wanted = Never /\ cancelled = FALSE
    /\ written = [c \in Coder |-> {}] /\ retained = [c \in Coder |-> FALSE]
    /\ told = [how |-> "nothing", what |-> Never, of |-> NoCoder]
    /\ mishaps = 0

Mishap == mishaps < MaxMishaps /\ mishaps' = mishaps + 1

callVars  == <<adopting, stage, wanted, cancelled, told>>
coderVars == <<coding, captures, tree, runs, completed>>
keepVars  == <<written, retained>>
leadVars  == <<entryTurn, entered>>

---------------------------------------------------------------------------
(* Coders *)

(* the session of a coder ends, with or without more changes *)
CoderFinishes(c) ==
    /\ coding[c] = "active"
    /\ \/ tree' = [tree EXCEPT ![c] = @ + 1] /\ tree[c] < MaxVersion
       \/ UNCHANGED tree
    /\ coding' = [coding EXCEPT ![c] = "done"]
    /\ captures' = [captures EXCEPT ![c] = TRUE]
    /\ runs' = [runs EXCEPT ![c] = @ + 1] /\ runs[c] < MaxRuns
    /\ UNCHANGED <<completed, adopted, delivery, leadVars, callVars, keepVars, mishaps>>

(* the driver captures the complete changes, which are then owed no more;   *)
(* without them the coder failed and its worktree is retained               *)
Capture(c) ==
    /\ captures[c] /\ captures' = [captures EXCEPT ![c] = FALSE]
    /\ \/ /\ completed' = [completed EXCEPT ![c] =
                           [version |-> tree[c], turn |-> IF entered THEN entryTurn ELSE 0, run |-> runs[c]]]
          /\ retained' = [retained EXCEPT ![c] = FALSE]
          /\ UNCHANGED <<coding, mishaps>>
       \/ /\ Mishap /\ coding' = [coding EXCEPT ![c] = "failed"]
          /\ retained' = [retained EXCEPT ![c] = TRUE]
          /\ UNCHANGED completed
    /\ UNCHANGED <<tree, runs, adopted, delivery, leadVars, callVars, written>>

(* a message starts the coder again *)
CoderResumes(c) ==
    /\ coding[c] # "active" /\ ~captures[c]
    /\ coding' = [coding EXCEPT ![c] = "active"]
    /\ UNCHANGED <<captures, tree, runs, completed, adopted, delivery, leadVars, callVars, keepVars, mishaps>>

---------------------------------------------------------------------------
(* The call *)

(* the coder completed in this turn of the lead *)
Adoptable(c) ==
    /\ coding[c] = "done"
    /\ completed[c] # Never /\ completed[c].turn = entryTurn

(* a retained worktree whose changes are all adopted may go *)
Released(c, version) == [retained EXCEPT ![c] = @ /\ tree[c] # version]

(* under the adoption lock: refused, done before, or an operation that owns *)
(* the changes as they were captured                                        *)
AdoptAgent(c) ==
    /\ entered /\ stage = "idle"
    /\ adopting' = c /\ wanted' = completed[c] /\ cancelled' = FALSE
    /\ \/ /\ ~Adoptable(c) /\ stage' = "return"
          /\ told' = [how |-> "refused", what |-> completed[c], of |-> c]
          /\ UNCHANGED retained
       \/ /\ Adoptable(c) /\ adopted[c] = completed[c] /\ stage' = "return"
          /\ told' = [how |-> "already", what |-> completed[c], of |-> c]
          /\ retained' = Released(c, completed[c].version)
       \/ /\ Adoptable(c) /\ adopted[c] # completed[c] /\ stage' = "diff"
          /\ UNCHANGED <<told, retained>>
    /\ UNCHANGED <<coderVars, adopted, delivery, leadVars, written, mishaps>>

(* what was added since the adopted version; git may fail to tell *)
Increment ==
    /\ stage = "diff"
    /\ \/ stage' = (IF adopted[adopting].version = wanted.version THEN "record" ELSE "apply")
          /\ UNCHANGED mishaps
       \/ adopted[adopting].version > 0 /\ Mishap /\ stage' = "keep"
    /\ UNCHANGED <<coderVars, adopted, delivery, leadVars, adopting, wanted, cancelled, keepVars, told>>

(* git applies the increment as a whole or not at all *)
ApplyIncrement ==
    /\ stage = "apply"
    /\ \/ stage' = "record" /\ UNCHANGED mishaps
          /\ delivery' = [delivery EXCEPT ![adopting] = @ + (wanted.version - adopted[adopting].version)]
       \/ Mishap /\ stage' = "keep" /\ UNCHANGED delivery
    /\ UNCHANGED <<coderVars, adopted, leadVars, adopting, wanted, cancelled, keepVars, told>>

(* a candidate that could not be applied is written, or its worktree retained *)
Keep ==
    /\ stage = "keep" /\ stage' = "return"
    /\ \/ /\ written' = [written EXCEPT ![adopting] = @ \cup {wanted.version}]
          /\ UNCHANGED <<retained, mishaps>>
       \/ Mishap /\ retained' = [retained EXCEPT ![adopting] = TRUE] /\ UNCHANGED written
    /\ told' = [how |-> "failed", what |-> wanted, of |-> adopting]
    /\ UNCHANGED <<coderVars, adopted, delivery, leadVars, adopting, wanted, cancelled>>

Record ==
    /\ stage = "record" /\ stage' = "return"
    /\ adopted' = [adopted EXCEPT ![adopting] = wanted]
    /\ retained' = Released(adopting, wanted.version)
    /\ told' = [how |-> "adopted", what |-> wanted, of |-> adopting]
    /\ UNCHANGED <<coderVars, delivery, leadVars, adopting, wanted, cancelled, written, mishaps>>

(* mutant: a cancelled call drops the operation it started *)
CancelDrops ==
    /\ stage \in {"diff", "apply", "record", "keep"} /\ ~cancelled
    /\ cancelled' = TRUE /\ stage' = "return"
    /\ UNCHANGED <<coderVars, adopted, delivery, leadVars, adopting, wanted, keepVars, told, mishaps>>

(* await_owned_operation: the caller waits for what it started all the same *)
CancelAdoption ==
    /\ stage \in {"diff", "apply", "record", "keep"} /\ ~cancelled
    /\ cancelled' = TRUE
    /\ UNCHANGED <<coderVars, adopted, delivery, leadVars, adopting, stage, wanted, keepVars, told, mishaps>>

Return ==
    /\ stage = "return" /\ stage' = "idle"
    /\ adopting' = NoCoder /\ wanted' = Never /\ cancelled' = FALSE
    /\ entered' = (entered /\ ~cancelled)
    /\ UNCHANGED <<coderVars, adopted, delivery, entryTurn, keepVars, told, mishaps>>

---------------------------------------------------------------------------
(* The lead's turns *)

LeadEnds ==
    /\ entered /\ stage = "idle" /\ entered' = FALSE
    /\ UNCHANGED <<coderVars, adopted, delivery, entryTurn, callVars, keepVars, mishaps>>

LeadEnters ==
    /\ ~entered /\ entryTurn < MaxEntryTurns
    /\ entered' = TRUE /\ entryTurn' = entryTurn + 1
    /\ UNCHANGED <<coderVars, adopted, delivery, callVars, keepVars, mishaps>>

AdoptionNext ==
    \/ \E c \in Coder : CoderFinishes(c) \/ Capture(c) \/ CoderResumes(c) \/ AdoptAgent(c)
    \/ Increment \/ ApplyIncrement \/ Keep \/ Record \/ CancelAdoption \/ Return
    \/ LeadEnds \/ LeadEnters

AdoptionSpec == AdoptionInit /\ [][AdoptionNext]_adoptionVars

---------------------------------------------------------------------------
(* Between two calls the delivery workspace holds of every coder exactly the *)
(* version recorded as adopted, whatever the coder did meanwhile and          *)
(* wherever a call was cancelled: no change is applied twice or forgotten.    *)
DeliveryIsAdopted ==
    stage \in {"idle", "diff"} => \A c \in Coder : delivery[c] = adopted[c].version

(* A call that said "adopted" delivered a version its coder had completed;   *)
(* the candidate of one that failed can be found until its coder completes   *)
(* again or it is adopted after all.                                         *)
ToldIsDone ==
    /\ told.how \in {"adopted", "already"} => delivery[told.of] >= told.what.version
    /\ told.how = "failed" /\ completed[told.of] = told.what =>
           told.what.version \in written[told.of] \/ retained[told.of]

(* The lead's delivery is what its calls said it is. *)
AdoptionIsExact == DeliveryIsAdopted /\ ToldIsDone

---------------------------------------------------------------------------
(* The inductive invariant *)

Completion == [version : Nat, turn : Nat, run : Nat]

(* Each variable has its type, and a call that is under way has a coder. *)
AdoptionTypes ==
    /\ tree \in [Coder -> Nat] /\ runs \in [Coder -> Nat] /\ delivery \in [Coder -> Nat]
    /\ coding \in [Coder -> {"active", "done", "failed"}]
    /\ completed \in [Coder -> Completion] /\ adopted \in [Coder -> Completion]
    /\ wanted \in Completion
    /\ captures \in [Coder -> BOOLEAN] /\ retained \in [Coder -> BOOLEAN]
    /\ written \in [Coder -> SUBSET Nat]
    /\ entryTurn \in Nat
    /\ stage \in {"idle", "diff", "apply", "record", "keep", "return"}
    /\ told \in [how : {"nothing", "refused", "already", "failed", "adopted"},
                 what : Completion, of : Coder \cup {NoCoder}]
    /\ stage # "idle" => adopting \in Coder
    /\ told.how # "nothing" => told.of \in Coder

(* A completion holds what its worktree held, of an earlier run while another  *)
(* capture is due; nothing is adopted that was not completed.                  *)
CompletionsGrow ==
    \A c \in Coder :
       /\ adopted[c].version <= completed[c].version
       /\ completed[c].version <= tree[c]
       /\ completed[c].run <= runs[c]
       /\ captures[c] => completed[c].run < runs[c]

(* What a call captured lies between the adopted version and the last one.     *)
CallIsBetween ==
    stage # "idle" =>
       /\ stage \in {"diff", "apply", "record", "keep"} => adopted[adopting].version <= wanted.version
       /\ wanted.version <= completed[adopting].version
       /\ wanted.run <= completed[adopting].run

(* Between applying and recording alone the delivery is ahead of the record.   *)
DeliveryIsRecorded ==
    \A c \in Coder :
       delivery[c] = IF stage = "record" /\ c = adopting THEN wanted.version
                     ELSE adopted[c].version

(* A failed call was about a completion that is the coder's last or older.     *)
FailureIsOld == told.how = "failed" => told.what.run <= completed[told.of].run

AdoptionInv ==
    AdoptionTypes /\ CompletionsGrow /\ CallIsBetween /\ DeliveryIsRecorded
    /\ FailureIsOld /\ ToldIsDone
=============================================================================

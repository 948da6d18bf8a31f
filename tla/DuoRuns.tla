------------------------------- MODULE DuoRuns -------------------------------
(***************************************************************************)
(* The duo workflow (builtin_workflows/duo): two coders solve the task one  *)
(* after the other in candidate workspaces of their own, one solution is    *)
(* selected, by their public test records where those decide and by a judge *)
(* otherwise, and the selected one is adopted into the source, the other    *)
(* where that fails.                                                        *)
(*                                                                          *)
(* A diff is a name, "" the empty one.  A test record names its command     *)
(* (target, runner and text together) and what it shows: green, red, or     *)
(* stale, which stands for every record that cannot be compared (edited     *)
(* after the test, no exit code, exit code and verdict that disagree).  A   *)
(* decision of the judge is a set of requirement entries; an entry says     *)
(* what each candidate covers and whether its evidence names a path that    *)
(* the candidate changed.                                                   *)
(***************************************************************************)
EXTENDS Integers, Sequences, FiniteSets, SequencesExt

CONSTANTS
    Diffs,         \* the non-empty diffs
    RecordLists,   \* the lists of test records a coder may leave
    MaxEdits       \* bound: changes of the source by others

VARIABLES
    duo,        \* where the run is
    cand,       \* label -> candidate, once its coder has ended
    choice,     \* the selected label, "" = none
    reason,     \* how it was selected
    rulings,    \* the decisions the judge returned, oldest first
    attempts,   \* the labels whose adoption was tried, in order
    taken,      \* the adopted label, "" = none
    source,     \* the source: how often others changed it, and the
                \* evidence files of this run inside it
    before      \* what the run read of the source at its start

duoVars == <<duo, cand, choice, reason, rulings, attempts, taken, source, before>>

Label      == {"A", "B"}
Other(l)   == IF l = "A" THEN "B" ELSE "A"
NoCand     == [diff |-> "", records |-> <<>>]
Nonempty(l) == cand[l].diff # ""

Coverage == {"covered", "not_covered", "unclear"}
Entry    == [A : Coverage, B : Coverage, pathA : BOOLEAN, pathB : BOOLEAN]

(* the source as the run compares it: its own evidence directory is left    *)
(* out of the diff                                                          *)
ReadSource(s) == s.edits

DuoInit ==
    /\ duo = "start" /\ cand = [l \in Label |-> NoCand] /\ choice = "" /\ reason = ""
    /\ rulings = <<>> /\ attempts = <<>> /\ taken = ""
    /\ source = [edits |-> 0, evidence |-> FALSE] /\ before = 0

DuoStarts ==
    /\ duo = "start" /\ duo' = "A" /\ before' = ReadSource(source)
    /\ UNCHANGED <<cand, choice, reason, rulings, attempts, taken, source>>

(* the coder of a label ends with a candidate                               *)
CoderEnds(l, diff, records) ==
    /\ duo = l
    /\ cand' = [cand EXCEPT ![l] = [diff |-> diff, records |-> records]]
    /\ duo' = IF l = "A" THEN "B" ELSE "select"
    /\ UNCHANGED <<choice, reason, rulings, attempts, taken, source, before>>

----------------------------------------------------------------------------
(* Selection                                                                *)

(* the last comparable record of a command is its state                     *)
StateOf(l, command) ==
    LET records == cand[l].records
        mine == {i \in DOMAIN records : records[i].command = command /\ records[i].shows # "stale"}
    IN  IF mine = {} THEN "none" ELSE records[Max(mine)].shows

Commands == UNION {{r.command : r \in ToSet(cand[l].records)} : l \in Label}

(* the candidates that some command passes where it fails the other         *)
PublicWinners ==
    {l \in Label : \E c \in Commands :
        StateOf(l, c) = "green" /\ StateOf(Other(l), c) = "red"}

MechanicalChoice ==
    /\ duo = "select"
    /\ \/ \E l \in Label : /\ Nonempty(l) /\ ~Nonempty(Other(l))
                           /\ choice' = l /\ reason' = "only" /\ duo' = "source"
       \/ /\ ~\E l \in Label : Nonempty(l)
          /\ choice' = "" /\ reason' = "empty" /\ duo' = "source"
       \/ /\ \A l \in Label : Nonempty(l)
          /\ \/ \E l \in Label : /\ PublicWinners = {l}
                                 /\ choice' = l /\ reason' = "tests" /\ duo' = "source"
             \/ /\ Cardinality(PublicWinners) # 1
                /\ IF cand["A"].diff = cand["B"].diff
                   THEN choice' = "B" /\ reason' = "same" /\ duo' = "source"
                   ELSE choice' = "" /\ reason' = "judge" /\ duo' = "evidence"
    /\ UNCHANGED <<cand, rulings, attempts, taken, source, before>>

(* the complete evidence is written, at its worst below the source          *)
WriteEvidence ==
    /\ duo = "evidence" /\ duo' = "judge"
    /\ source' = [source EXCEPT !.evidence = TRUE]
    /\ UNCHANGED <<cand, choice, reason, rulings, attempts, taken, before>>

Supported(e, l)   == IF l = "A" THEN e.pathA ELSE e.pathB
Advantage(e, l)   == e[l] = "covered" /\ e[Other(l)] \in {"not_covered", "unclear"}

(* why a recommendation of l cannot be used, "none" when it can: it misses  *)
(* what the other covers, it claims a decisive advantage that no changed    *)
(* path supports, the candidates are tied, or no advantage is supported     *)
JudgeIssue(l, complete, entries) ==
    IF ~complete THEN "issue"
    ELSE IF \E e \in entries :
               \/ e[Other(l)] = "covered" /\ e[l] = "not_covered"
               \/ Advantage(e, l) /\ e[Other(l)] = "not_covered" /\ ~Supported(e, l)
    THEN "issue"
    ELSE IF \E e \in entries : Advantage(e, l) /\ Supported(e, l) THEN "none"
    ELSE IF \A e \in entries : e["A"] = e["B"] THEN "tie" ELSE "issue"

(* what the run keeps of a decision                                         *)
Ruling(l, complete, entries) ==
    [winner |-> l, issue |-> JudgeIssue(l, complete, entries),
     bMisses |-> \E e \in entries : e["A"] = "covered" /\ e["B"] = "not_covered",
     shown |-> \E e \in entries : Advantage(e, l) /\ Supported(e, l)]

(* a decision of the wrong shape                                            *)
Malformed == [winner |-> "", issue |-> "issue", bMisses |-> FALSE, shown |-> FALSE]

EntrySets == {{e, f} : e \in Entry, f \in Entry}
Rulings   == {Malformed} \cup {Ruling(l, complete, es) :
                                 l \in Label, complete \in BOOLEAN, es \in EntrySets}

FallbackLast(all) ==
    IF all # <<>> /\ Last(all).bMisses THEN "A" ELSE "B"

(* without a usable decision B is taken, unless some decision said that B   *)
(* misses what A covers                                                     *)
FallbackWinner(all) == IF \E i \in DOMAIN all : all[i].bMisses THEN "A" ELSE "B"

(* the judge answers, at most twice: a usable decision selects, a tie ends  *)
(* the review, and any other issue is put to it once more                   *)
JudgeRules(r) ==
    /\ duo = "judge"
    /\ rulings' = Append(rulings, r)
    /\ \/ r.issue = "none" /\ choice' = r.winner /\ reason' = "judged" /\ duo' = "source"
       \/ /\ r.issue = "tie" \/ (r.issue = "issue" /\ Len(rulings) = 1)
          /\ choice' = FallbackWinner(rulings') /\ reason' = "fallback" /\ duo' = "source"
       \/ /\ r.issue = "issue" /\ rulings = <<>>
          /\ UNCHANGED <<choice, reason, duo>>
    /\ UNCHANGED <<cand, attempts, taken, source, before>>

(* the judge's session fails                                                *)
JudgeFails ==
    /\ duo = "judge"
    /\ choice' = FallbackWinner(rulings) /\ reason' = "fallback" /\ duo' = "source"
    /\ UNCHANGED <<cand, rulings, attempts, taken, source, before>>

----------------------------------------------------------------------------
(* Adoption                                                                 *)

(* a source that changed since the start ends the run with an error         *)
CompareSource ==
    /\ duo = "source"
    /\ duo' = IF ReadSource(source) = before THEN "adopt" ELSE "raised"
    /\ UNCHANGED <<cand, choice, reason, rulings, attempts, taken, source, before>>

(* the selected candidate goes first; an empty one is passed over           *)
Untried == IF choice = "" THEN {} ELSE {l \in Label : Nonempty(l) /\ l \notin ToSet(attempts)}
NextTry == IF choice \in Untried THEN choice ELSE Other(choice)

TryAdopt(works) ==
    /\ duo = "adopt" /\ Untried # {}
    /\ attempts' = Append(attempts, NextTry)
    /\ IF works THEN taken' = NextTry /\ duo' = "returned"
       ELSE UNCHANGED <<taken, duo>>
    /\ UNCHANGED <<cand, choice, reason, rulings, source, before>>

NothingToAdopt ==
    /\ duo = "adopt" /\ Untried = {} /\ duo' = "returned"
    /\ UNCHANGED <<cand, choice, reason, rulings, attempts, taken, source, before>>

(* others change the source; it is read at the start and once more here, so *)
(* that a change at any time between the two is a change now                *)
SomeoneEdits ==
    /\ duo = "source" /\ source.edits < MaxEdits
    /\ source' = [source EXCEPT !.edits = @ + 1]
    /\ UNCHANGED <<duo, cand, choice, reason, rulings, attempts, taken, before>>

DuoStep ==
    \/ DuoStarts
    \/ \E l \in Label, d \in Diffs \cup {""}, r \in RecordLists : CoderEnds(l, d, r)
    \/ MechanicalChoice \/ WriteEvidence
    \/ \E r \in Rulings : JudgeRules(r)
    \/ JudgeFails \/ CompareSource
    \/ \E works \in BOOLEAN : TryAdopt(works)
    \/ NothingToAdopt

DuoNext == DuoStep \/ SomeoneEdits
DuoSpec == DuoInit /\ [][DuoNext]_duoVars

----------------------------------------------------------------------------

(* what the last comparable runs of one command show                        *)
Refutes(l) == \E c \in Commands : StateOf(Other(l), c) = "green" /\ StateOf(l, c) = "red"

(* The selection follows the evidence: a candidate that a public test alone *)
(* refutes is never preferred; A is only preferred on tests, on a supported *)
(* advantage, or because some decision says that B misses what A covers; B  *)
(* is never taken by default once a decision has said so, whatever a later  *)
(* answer or failure of the judge was.                                      *)
SelectionFollowsEvidence ==
    choice # "" /\ Nonempty("A") /\ Nonempty("B") =>
        /\ Refutes(choice) => Refutes(Other(choice))
        /\ choice = "A" => \/ reason = "tests"
                           \/ reason = "judged" /\ Last(rulings).shown
                           \/ \E i \in DOMAIN rulings : rulings[i].bMisses
        /\ reason = "fallback" /\ choice = "B" =>
              \A i \in DOMAIN rulings : ~rulings[i].bMisses

(* What is adopted is not empty, is the selected candidate unless that one  *)
(* could not be adopted, and never lands on a source that others changed    *)
(* since the start; the evidence the run itself writes is no such change;   *)
(* and a run comes back with nothing only if nothing could be adopted.      *)
AdoptionFollowsSelection ==
    /\ taken # "" => /\ Nonempty(taken) /\ source.edits = before
                     /\ taken = choice \/ choice \in ToSet(attempts) \/ ~Nonempty(choice)
    /\ duo = "raised" => source.edits # before
    /\ duo = "returned" /\ taken = "" =>
          \A l \in Label : Nonempty(l) => l \in ToSet(attempts)

DuoIsSound == SelectionFollowsEvidence /\ AdoptionFollowsSelection

----------------------------------------------------------------------------
(* The inductive invariant                                                  *)

DuoPlaces == {"start", "A", "B", "select", "evidence", "judge", "source", "adopt", "raised",
              "returned"}

DuoTypes ==
    /\ duo \in DuoPlaces /\ choice \in Label \cup {""} /\ taken \in Label \cup {""}
    /\ cand \in [Label -> [diff : Diffs \cup {""}, records : RecordLists \cup {<<>>}]]
    /\ rulings \in Seq(Rulings) /\ attempts \in Seq(Label)
    /\ source \in [edits : Nat, evidence : BOOLEAN] /\ before \in Nat

(* The judge is asked only about two candidates of which neither or both    *)
(* are refuted by a public test.                                            *)
JudgedAreTied ==
    /\ duo \in {"start", "A", "B", "select", "evidence"} => rulings = <<>>
    /\ duo \in {"evidence", "judge"} =>
          Nonempty("A") /\ Nonempty("B") /\ (Refutes("A") <=> Refutes("B"))

(* A selection has its reason, and stays what it was.                       *)
Earned(l) ==
    /\ Refutes(l) => Refutes(Other(l))
    /\ l = "A" => \/ reason = "tests"
                  \/ reason = "judged" /\ Last(rulings).shown
                  \/ \E i \in DOMAIN rulings : rulings[i].bMisses
    /\ reason = "fallback" /\ l = "B" => \A i \in DOMAIN rulings : ~rulings[i].bMisses

ChoiceIsEarned ==
    IF duo \in {"source", "adopt", "raised", "returned"}
    THEN /\ choice = "" => ~Nonempty("A") /\ ~Nonempty("B")
         /\ \A l \in Label : choice = l /\ Nonempty("A") /\ Nonempty("B") => Earned(l)
    ELSE choice = ""

(* Adoption goes by the selection, in a source that is what it was.         *)
AdoptionInOrder ==
    /\ duo \notin {"adopt", "returned"} => taken = "" /\ attempts = <<>>
    /\ duo = "adopt" => taken = ""
    /\ duo \in {"adopt", "returned"} => source.edits = before
    /\ duo = "raised" => source.edits # before
    /\ \A l, c \in Label : taken = l /\ choice = c =>
          Nonempty(l) /\ (l = c \/ c \in ToSet(attempts) \/ ~Nonempty(c))
    /\ taken # "" => choice # ""
    /\ duo = "returned" /\ taken = "" => \A l \in Label : Nonempty(l) => l \in ToSet(attempts)

DuoInv == DuoTypes /\ JudgedAreTied /\ ChoiceIsEarned /\ AdoptionInOrder
=============================================================================

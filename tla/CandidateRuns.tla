---------------------------- MODULE CandidateRuns ----------------------------
(***************************************************************************)
(* Attempts of a workflow, each in its own checkout of the source: an agent *)
(* or a whole child workflow works there, its changes are captured, and     *)
(* they are returned only if the source is still what the attempt started   *)
(* from.  Attempts run side by side, one may be adopted into the source     *)
(* while another is at work, others change the source, an agent may go on   *)
(* after its timeout, and an attempt may be cancelled anywhere.             *)
(*                                                                          *)
(* Source: application/workflow_candidates.py, adapters/                    *)
(* candidate_workspace.py, _candidate_source.py, _candidate_increment.py.   *)
(***************************************************************************)
EXTENDS Naturals

CONSTANTS
    Attempt,        \* the attempts of a workflow
    Flow,           \* those that run a child workflow
    MaxWork,        \* bound: changes an attempt makes
    MaxMoves        \* bound: changes of the source by others

VARIABLES
    at,         \* "new", "acquire", "lease", "work", "settle", "capture", "check", "quiet",
                \*   "inner", "finish", "returned", "failed", "abandoned"
    head, body, \* the source: its revision, and its contents
    seen,       \* source_before: what an attempt read before its checkout was made
    base,       \* what its checkout was made from
    busy,       \* an agent of the attempt is running or being stopped
    inner,      \* environments its child workflow took from the checkout
    work,       \* changes made in the checkout
    patch,      \* changes captured
    checkout,   \* the checkout: "none", "live", "torn"
    keep,       \* preserve_lease
    failure,    \* "none", "cancelled", "capture", "tracking", "other"
    error,      \* lifecycle_errors
    adopter,    \* attempt whose patch is being applied, or "nobody"
    moves

candVars == <<at, head, body, seen, base, busy, inner, work, patch, checkout, keep,
              failure, error, adopter, moves>>

Source == [head |-> head, body |-> body]

CandidatesInit ==
    /\ at = [c \in Attempt |-> "new"] /\ head = 0 /\ body = 0
    /\ seen = [c \in Attempt |-> Source] /\ base = seen
    /\ busy = [c \in Attempt |-> FALSE] /\ inner = [c \in Attempt |-> FALSE]
    /\ work = [c \in Attempt |-> 0] /\ patch = [c \in Attempt |-> 0]
    /\ checkout = [c \in Attempt |-> "none"] /\ keep = [c \in Attempt |-> FALSE]
    /\ failure = [c \in Attempt |-> "none"] /\ error = [c \in Attempt |-> FALSE]
    /\ adopter = "nobody" /\ moves = 0

Goto(c, s)  == at' = [at EXCEPT ![c] = s]
FailsWith(c, f) == failure' = [failure EXCEPT ![c] = f]
TurnIs(c, b)  == busy' = [busy EXCEPT ![c] = b]

-----------------------------------------------------------------------------
(* Start *)

ReadSource(c) ==
    /\ at[c] = "new"
    /\ seen' = [seen EXCEPT ![c] = Source]
    /\ Goto(c, "acquire")
    /\ UNCHANGED <<head, body, base, busy, inner, work, patch, checkout, keep, failure, error, adopter, moves>>

(* mutant: the source is read once its checkout exists *)
AcquireReads(c) ==
    /\ at[c] = "acquire"
    /\ base' = [base EXCEPT ![c] = seen[c]] /\ seen' = [seen EXCEPT ![c] = Source]
    /\ checkout' = [checkout EXCEPT ![c] = "live"] /\ Goto(c, "lease")
    /\ UNCHANGED <<head, body, busy, inner, work, patch, keep, failure, error, adopter, moves>>

(* the checkout is made from the source as it is now; a failed setup is     *)
(* undone, except while its command may still be running                    *)
Acquire(c) ==
    /\ at[c] = "acquire"
    /\ base' = [base EXCEPT ![c] = Source]
    /\ \/ Goto(c, "lease") /\ checkout' = [checkout EXCEPT ![c] = "live"] /\ UNCHANGED failure
       \/ /\ Goto(c, "failed") /\ FailsWith(c, "other")
          /\ \E t \in {"live", "torn"} : checkout' = [checkout EXCEPT ![c] = t]
    /\ UNCHANGED <<head, body, seen, busy, inner, work, patch, keep, error, adopter, moves>>

(* the environment is still usable and the budget suffices *)
Start(c) ==
    /\ at[c] = "lease"
    /\ \/ Goto(c, "work") /\ TurnIs(c, TRUE) /\ UNCHANGED failure
       \/ Goto(c, "quiet") /\ FailsWith(c, "other") /\ UNCHANGED busy
    /\ UNCHANGED <<head, body, seen, base, inner, work, patch, checkout, keep, error, adopter, moves>>

-----------------------------------------------------------------------------
(* Work *)

AgentEdits(c) ==
    /\ busy[c] /\ work[c] < MaxWork
    /\ work' = [work EXCEPT ![c] = @ + 1]
    /\ UNCHANGED <<at, head, body, seen, base, busy, inner, patch, checkout, keep, failure, error, adopter, moves>>

(* a child workflow gives one of its agents an environment made from the    *)
(* checkout                                                                 *)
Isolate(c) ==
    /\ c \in Flow /\ at[c] = "work" /\ ~inner[c]
    /\ inner' = [inner EXCEPT ![c] = TRUE]
    /\ UNCHANGED <<at, head, body, seen, base, busy, work, patch, checkout, keep, failure, error, adopter, moves>>

(* the turn or the child workflow returns, fails or times out: its edits    *)
(* count all the same; an agent that timed out may still be stopping        *)
TurnEnds(c) ==
    /\ at[c] = "work"
    /\ Goto(c, "settle")
    /\ \/ UNCHANGED busy
       \/ TurnIs(c, FALSE)
    /\ UNCHANGED <<head, body, seen, base, inner, work, patch, checkout, keep, failure, error, adopter, moves>>

AgentStops(c) ==
    /\ busy[c] /\ at[c] \notin {"work"}
    /\ TurnIs(c, FALSE)
    /\ UNCHANGED <<at, head, body, seen, base, inner, work, patch, checkout, keep, failure, error, adopter, moves>>

(* _wait_for_candidate_cleanup *)
Settle(c) ==
    /\ at[c] = "settle" /\ ~busy[c]
    /\ Goto(c, "capture")
    /\ UNCHANGED <<head, body, seen, base, busy, inner, work, patch, checkout, keep, failure, error, adopter, moves>>

(* capture_changes: what cannot be captured stays in the checkout *)
Capture(c) ==
    /\ at[c] = "capture"
    /\ \/ /\ patch' = [patch EXCEPT ![c] = work[c]]
          /\ Goto(c, "check") /\ UNCHANGED <<failure, keep>>
       \/ /\ FailsWith(c, "capture") /\ keep' = [keep EXCEPT ![c] = TRUE]
          /\ Goto(c, "quiet") /\ UNCHANGED patch
    /\ UNCHANGED <<head, body, seen, base, busy, inner, work, checkout, error, adopter, moves>>

(* _candidate_source_changed: revision, contents and index; a source that   *)
(* changed or cannot be read keeps the checkout                             *)
Check(c) ==
    /\ at[c] = "check"
    /\ \/ Source = seen[c] /\ UNCHANGED <<failure, keep>>
       \/ FailsWith(c, "tracking") /\ keep' = [keep EXCEPT ![c] = TRUE]
    /\ Goto(c, "quiet")
    /\ UNCHANGED <<head, body, seen, base, busy, inner, work, patch, checkout, error, adopter, moves>>

(* a caller's timeout or a stop.  It interrupts the awaits between the      *)
(* lease and the check; while the source is checked the checkout is kept    *)
CancelAttempt(c) ==
    /\ at[c] \in {"lease", "work", "settle", "capture", "check"}
    /\ FailsWith(c, "cancelled") /\ Goto(c, "quiet")
    /\ keep' = [keep EXCEPT ![c] = at[c] = "check"]
    /\ UNCHANGED <<head, body, seen, base, busy, inner, work, patch, checkout, error, adopter, moves>>

-----------------------------------------------------------------------------
(* End *)

(* the attempt's agents have stopped, whatever cancels the attempt now; a   *)
(* child workflow stops its own and is left behind when cancelled again     *)
Quiet(c) ==
    /\ at[c] = "quiet"
    /\ \/ /\ ~busy[c]
          /\ Goto(c, IF inner[c] THEN "inner" ELSE "finish") /\ UNCHANGED failure
       \/ /\ c \notin Flow /\ ~busy[c] /\ failure[c] = "none"
          /\ FailsWith(c, "cancelled") /\ Goto(c, "finish")
       \/ /\ c \in Flow
          /\ FailsWith(c, "cancelled") /\ Goto(c, "abandoned")
    /\ UNCHANGED <<head, body, seen, base, busy, inner, work, patch, checkout, keep, error, adopter, moves>>

(* release_isolated_workspaces: what is left keeps the checkout it is made  *)
(* from                                                                     *)
Inner(c) ==
    /\ at[c] = "inner" /\ Goto(c, "finish")
    /\ \/ inner' = [inner EXCEPT ![c] = FALSE] /\ UNCHANGED <<keep, error>>
       \/ /\ keep' = [keep EXCEPT ![c] = TRUE] /\ error' = [error EXCEPT ![c] = TRUE]
          /\ UNCHANGED inner
    /\ UNCHANGED <<head, body, seen, base, busy, work, patch, checkout, failure, adopter, moves>>

(* _finish_candidate_run: a cleanup that fails is reported, and the         *)
(* result is returned all the same                                          *)
Finish(c) ==
    /\ at[c] = "finish"
    /\ Goto(c, IF failure[c] = "none" THEN "returned" ELSE "failed")
    /\ IF keep[c] \/ failure[c] \in {"capture", "tracking"}
       THEN UNCHANGED <<checkout, error>>
       ELSE \/ checkout' = [checkout EXCEPT ![c] = "torn"] /\ UNCHANGED error
            \/ error' = [error EXCEPT ![c] = failure[c] = "none"] /\ UNCHANGED checkout
    /\ UNCHANGED <<head, body, seen, base, busy, inner, work, patch, keep, failure, adopter, moves>>

-----------------------------------------------------------------------------
(* Adoption, and others who change the source *)

AdoptStarts(c) ==
    /\ at[c] = "returned" /\ adopter = "nobody" /\ patch[c] > 0
    /\ head = seen[c].head
    /\ adopter' = c
    /\ UNCHANGED <<at, head, body, seen, base, busy, inner, work, patch, checkout, keep, failure, error, moves>>

(* _apply_increment: the whole patch or nothing *)
AdoptEnds ==
    /\ adopter # "nobody" /\ adopter' = "nobody"
    /\ \/ body < MaxMoves + 2 /\ body' = body + 1
       \/ UNCHANGED body
    /\ UNCHANGED <<at, head, seen, base, busy, inner, work, patch, checkout, keep, failure, error, moves>>

(* contents never return to an earlier state (bound) *)
Others ==
    /\ moves < MaxMoves /\ moves' = moves + 1
    /\ \/ head' = head + 1 /\ UNCHANGED body
       \/ body' = body + 1 /\ UNCHANGED head
    /\ UNCHANGED <<at, seen, base, busy, inner, work, patch, checkout, keep, failure, error, adopter>>

CandidatesStep ==
    \/ \E c \in Attempt :
        \/ ReadSource(c) \/ Acquire(c) \/ Start(c) \/ TurnEnds(c) \/ AgentStops(c)
        \/ Settle(c) \/ Capture(c) \/ Check(c) \/ Quiet(c) \/ Inner(c) \/ Finish(c)
    \/ AdoptEnds

CandidatesNext ==
    \/ CandidatesStep \/ Others
    \/ \E c \in Attempt : AgentEdits(c) \/ Isolate(c) \/ CancelAttempt(c) \/ AdoptStarts(c)

(* turns end by their timeouts, commands by theirs *)
CandidatesSpec == CandidatesInit /\ [][CandidatesNext]_candVars /\ WF_candVars(CandidatesStep)

-----------------------------------------------------------------------------
(* Properties *)

(* A result says what happened: its patch holds everything its agents did,  *)
(* none of whom goes on, and its checkout was made from the very source it  *)
(* is reported against, though the source is read before the checkout is    *)
(* made and again after the capture, and others move it in between.         *)
ResultIsWhole ==
    \A c \in Attempt :
        at[c] = "returned" => patch[c] = work[c] /\ ~busy[c] /\ base[c] = seen[c]

(* Work is not thrown away: the checkout of an attempt that was not         *)
(* cancelled goes only when its changes were captured and returned, never   *)
(* under a running agent, and never while environments that the child       *)
(* workflow made from it remain.                                            *)
WorkIsKept ==
    \A c \in Attempt :
        checkout[c] = "torn" =>
            /\ ~busy[c] /\ ~inner[c]
            /\ failure[c] # "cancelled" => work[c] = 0 \/ at[c] = "returned"

(* A candidate is reported whole, kept, or was cancelled: its result is the  *)
(* patch of a quiet checkout against the source it started from, and only    *)
(* the work of a cancelled attempt goes with a checkout that was not         *)
(* captured (candidate_agent).                                               *)
CandidateIsWhole == ResultIsWhole /\ WorkIsKept

-----------------------------------------------------------------------------
(* The inductive invariant *)

Early == {"new", "acquire", "lease"}

CandidateTypes ==
    /\ at \in [Attempt -> {"new", "acquire", "lease", "work", "settle", "capture", "check",
                           "quiet", "inner", "finish", "returned", "failed", "abandoned"}]
    /\ head \in Nat /\ body \in Nat
    /\ seen \in [Attempt -> [head : Nat, body : Nat]] /\ base \in [Attempt -> [head : Nat, body : Nat]]
    /\ busy \in [Attempt -> BOOLEAN] /\ inner \in [Attempt -> BOOLEAN]
    /\ keep \in [Attempt -> BOOLEAN]
    /\ work \in [Attempt -> Nat] /\ patch \in [Attempt -> Nat]
    /\ checkout \in [Attempt -> {"none", "live", "torn"}]
    /\ failure \in [Attempt -> {"none", "cancelled", "capture", "tracking", "other"}]

(* The source moves on only: a checkout lies between what was read before   *)
(* it and what is there now.                                                *)
SourceMovesOn ==
    \A c \in Attempt : at[c] \notin {"new", "acquire"} =>
        /\ seen[c].head <= base[c].head /\ base[c].head <= head
        /\ seen[c].body <= base[c].body /\ base[c].body <= body

ReadIsPast ==
    \A c \in Attempt : at[c] = "acquire" => seen[c].head <= head /\ seen[c].body <= body

(* Before its start, and once it has settled, an attempt has no agent.      *)
AttemptIsQuiet ==
    \A c \in Attempt :
        /\ at[c] \in Early \cup {"capture", "check", "inner", "finish", "returned", "failed"} => ~busy[c]
        /\ failure[c] = "other" => ~busy[c] /\ work[c] = 0
        /\ at[c] \in Early => ~inner[c] /\ work[c] = 0 /\ failure[c] = "none"
        /\ inner[c] => c \in Flow
        /\ at[c] = "finish" => ~inner[c] \/ keep[c]

(* An attempt without a failure is captured whole, against its source.      *)
CaptureIsWhole ==
    \A c \in Attempt :
        /\ at[c] = "check" => patch[c] = work[c]
        /\ failure[c] = "none" /\ at[c] \in {"quiet", "inner", "finish"} =>
               patch[c] = work[c] /\ base[c] = seen[c] /\ ~busy[c]
        /\ checkout[c] = "torn" => at[c] \in {"returned", "failed"}

CandidateInv ==
    CandidateTypes /\ SourceMovesOn /\ ReadIsPast /\ AttemptIsQuiet /\ CaptureIsWhole
    /\ ResultIsWhole /\ WorkIsKept
=============================================================================

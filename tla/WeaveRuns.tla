------------------------------ MODULE WeaveRuns ------------------------------
(***************************************************************************)
(* A run of the weave workflow (builtin_workflows/weave): the groups of the *)
(* plan one after the other, each in a fresh session with a share of what   *)
(* is left, a check after each, then the full check and a bounded number of *)
(* repair rounds.  Progress is saved at every step; a run that ended early  *)
(* or whose process died is continued from what was saved.                  *)
(*                                                                          *)
(* `mem` is the WeaveState of the process, `disk` the copy its adapter      *)
(* saved last.  Seconds are abstract: `late` says that the reserves of time *)
(* are used up.  A session pays 1..WeaveCost tokens for a request and asks  *)
(* for one only below its allowance, so that it may pass its hard budget by *)
(* the rest of one request (see SessionRun).  What the working tree holds   *)
(* is a version number.  A continuation is a new process: what an earlier   *)
(* one left running has ended with it.                                      *)
(***************************************************************************)
EXTENDS WeavePlan

CONSTANTS
    Weights,         \* the weights of the planned groups, in order
    WeaveTotal,           \* budget_total
    RepairReserve,   \* repair_reserve
    MainSoft,        \* main_budget
    LeastTokens,     \* minimum_group_tokens
    WeaveCost,       \* most tokens of one request
    Extension,       \* extension_tokens
    MaxRounds,       \* max_repair_rounds
    StagnantLimit,   \* stagnant_round_limit
    Cmd,             \* check_commands
    MaxVersions,     \* bound: versions of the workTree
    MaxRestarts      \* bound: continuations

ASSUME WeaveAssumption ==
    /\ Weights \in Seq(Nat \ {0}) /\ Weights # <<>>
    /\ {WeaveTotal, LeastTokens, WeaveCost, Extension, StagnantLimit} \subseteq Nat \ {0}
    /\ {RepairReserve, MainSoft, MaxRounds, MaxVersions, MaxRestarts} \subseteq Nat

VARIABLES
    mem,        \* the state in memory: groups, repair rounds, and the tokens
                \* observed of group sessions and of repair sessions
    disk,       \* the state as saved last
    place,      \* where the run is
    number,     \* the group or the repair round it is at
    session,    \* the session under way: soft and hard budget, used, observed
    progressed, \* some tool of this process has changed a file or passed a test
    workTree,   \* the version of the working tree
    report,     \* the last full check: command -> outcome, and the version it saw
    late,       \* the time of the run is used up
    outcome,    \* what the run returned
    straggler,  \* an agent was left behind that may still write
    bill,       \* tokens the sessions really cost
    overrun,    \* tokens sessions cost beyond their hard budgets
    redone,     \* a group was solved again though its result had been saved
    mainStop,   \* why the groups stopped: all attempted, tokens, time
    restarts    \* continuations so far

weaveVars == <<mem, disk, place, number, session, progressed, workTree, report, late,
               outcome, straggler, bill, overrun, redone, mainStop, restarts>>

Members == 1..Len(Weights)
Blank   == [soft |-> 0, hard |-> 0, used |-> 0, seen |-> 0, fresh |-> FALSE]
Running == 100      \* a repair row whose round never finished

(* one check command: whether and how it ran, its exit code, whether its    *)
(* output is whole, its parsed test records, its expected output, whether   *)
(* it is a test command, whether a printer supplies the expected output     *)
Row == [ran : BOOLEAN, code : {"zero", "five", "other"}, whole : BOOLEAN,
        tests : {"none", "passed", "mixed"}, probe : {"none", "matched", "missed"},
        pytest : BOOLEAN, printer : BOOLEAN]

(* the verdict on a command: test records that all verify, or, for a        *)
(* command that is no test, expected output that nothing else supplied      *)
RowOk(r) ==
    LET finished == r.code = "zero" /\ r.whole
        tested == r.tests = "passed" /\ finished
    IN  /\ r.ran
        /\ \/ r.probe = "none" /\ tested
           \/ /\ r.probe = "matched" /\ finished
              /\ IF r.tests # "none" THEN tested ELSE ~r.pytest /\ ~r.printer

(* a failure that a repair session can be asked to work on                  *)
RepairTarget(r) ==
    /\ r.ran /\ ~RowOk(r)
    /\ \/ r.code = "other"
       \/ r.probe = "missed" /\ (r.code # "five" \/ r.tests = "none")

Outcomes == {[ok |-> RowOk(r), ran |-> r.ran, target |-> RepairTarget(r),
              clean |-> r.ran /\ r.code = "zero" /\ r.whole] : r \in Row}
Unrun    == [ok |-> FALSE, ran |-> FALSE, target |-> FALSE, clean |-> FALSE]
NoReport == [rows |-> [c \in Cmd |-> Unrun], version |-> 0]

AllPassed(p)   == \A c \in Cmd : p.rows[c].ok /\ p.rows[c].ran
Executed(p) == \A c \in Cmd : p.rows[c].ran
Targets(p)  == {c \in Cmd : p.rows[c].target}
Markers(p)  == {c \in Cmd : p.rows[c].ok}

WeaveInit ==
    /\ mem = [groups |-> [g \in Members |-> "none"], rounds |-> <<>>,
              spent |-> 0, fixing |-> 0]
    /\ disk = mem /\ place = "main" /\ number = 1 /\ session = Blank
    /\ progressed = FALSE /\ workTree = 1 /\ report = NoReport /\ late = FALSE
    /\ outcome = "none" /\ straggler = FALSE /\ bill = 0 /\ overrun = 0
    /\ redone = FALSE /\ mainStop = "none" /\ restarts = 0

----------------------------------------------------------------------------
(* Shares of the budget                                                     *)

(* the share of the first of the remaining groups: by its weight, at least  *)
(* the minimum, and leaving the others theirs where there is that much      *)
Allocation(left, weights) ==
    IF left < LeastTokens THEN 0
    ELSE LET floor == Min({LeastTokens, left \div Len(weights)})
             share == (left * weights[1]) \div SumFunctionOnSet(weights, DOMAIN weights)
         IN  Min({left - floor * (Len(weights) - 1), Max({LeastTokens, share})})

AtLeast0(n) == Max({0, n})
TokensLeft  == AtLeast0(WeaveTotal - mem.spent - mem.fixing)

(* the groups together may use what the repair reserve leaves               *)
MainHard == WeaveTotal - Min({RepairReserve, WeaveTotal \div 4})

(* the groups are measured against it by what their own sessions used       *)
HardShare(n) ==
    Allocation(Min({TokensLeft, AtLeast0(MainHard - mem.spent)}),
               SubSeq(Weights, n, Len(Weights)))
SoftShare(n) ==
    LET left == Min({TokensLeft, AtLeast0(Min({MainSoft, MainHard}) - mem.spent)})
    IN  Min({HardShare(n), Max({LeastTokens, Allocation(left, SubSeq(Weights, n, Len(Weights)))})})

Open(soft, hard) ==
    session' = [soft |-> soft, hard |-> hard, used |-> 0, seen |-> 0, fresh |-> progressed]

----------------------------------------------------------------------------
(* The groups                                                               *)

(* the next group: one that is checked is passed over, one whose result was *)
(* saved is only checked, and for any other a session is opened, unless the *)
(* tokens or the time of the groups are used up                             *)
NextGroup ==
    /\ place = "main"
    /\ \/ /\ number > Len(Weights)
          /\ place' = "full" /\ mainStop' = IF mainStop = "none" THEN "all" ELSE mainStop
          /\ UNCHANGED <<number, session, disk, redone>>
       \/ /\ number <= Len(Weights) /\ mem.groups[number] = "checked"
          /\ number' = number + 1 /\ UNCHANGED <<place, session, disk, redone, mainStop>>
       \/ /\ number <= Len(Weights) /\ mem.groups[number] = "generated"
          /\ place' = "check" /\ UNCHANGED <<number, session, disk, redone, mainStop>>
       \/ /\ number <= Len(Weights) /\ mem.groups[number] = "none"
          /\ \/ /\ HardShare(number) < LeastTokens \/ late
                /\ mainStop' = IF late THEN "time" ELSE "tokens"
                /\ place' = "full" /\ UNCHANGED <<number, session, disk, redone>>
             \/ /\ HardShare(number) >= LeastTokens /\ ~late
                /\ Open(SoftShare(number), HardShare(number))
                /\ redone' = (redone \/ disk.groups[number] # "none")
                /\ disk' = mem /\ place' = "group"
                /\ UNCHANGED <<number, mainStop>>
    /\ UNCHANGED <<mem, progressed, workTree, report, late, outcome, straggler, bill,
                   overrun, restarts>>

InSession == place \in {"group", "repair"}

(* a request is paid; its event comes with the next step                    *)
WeaveRequest(cost) ==
    /\ InSession /\ session.used = session.seen /\ session.used < session.soft
    /\ session' = [session EXCEPT !.used = @ + cost]
    /\ bill' = bill + cost
    /\ overrun' = overrun + AtLeast0(Min({cost, session.used + cost - session.hard}))
    /\ UNCHANGED <<mem, disk, place, number, progressed, workTree, report, late, outcome,
                   straggler, redone, mainStop, restarts>>

(* what the session used so far, counted for its phase                      *)
Observed ==
    IF place = "group" THEN [mem EXCEPT !.spent = @ + session.used - session.seen]
    ELSE [mem EXCEPT !.fixing = @ + session.used - session.seen]

(* its event: the tokens of the session are observed and the state is saved *)
ObserveUsage ==
    /\ InSession /\ session.seen < session.used
    /\ mem' = Observed /\ disk' = mem'
    /\ session' = [session EXCEPT !.seen = session.used]
    /\ UNCHANGED <<place, number, progressed, workTree, report, late, outcome, straggler,
                   bill, overrun, redone, mainStop, restarts>>

(* progress of a tool is seen by the session that may be rewarded for it    *)
MakesProgress == progressed' = TRUE /\ session' = [session EXCEPT !.fresh = TRUE]

(* a tool of the session changes a file, which counts as progress           *)
ToolWrites ==
    /\ InSession /\ workTree < MaxVersions
    /\ workTree' = workTree + 1 /\ MakesProgress
    /\ UNCHANGED <<mem, disk, place, number, report, late, outcome, straggler, bill,
                   overrun, redone, mainStop, restarts>>

(* the soft budget is reached: recent progress that has not been rewarded   *)
(* yet moves it, never beyond the hard one                                  *)
ExtendBudget ==
    /\ InSession /\ session.used = session.seen /\ session.used >= session.soft
    /\ session.fresh /\ session.soft < session.hard
    /\ session' = [session EXCEPT !.fresh = FALSE,
                     !.soft = Min({session.hard, Max({@ + Extension, session.used + 1})})]
    /\ disk' = mem
    /\ UNCHANGED <<mem, place, number, progressed, workTree, report, late, outcome,
                   straggler, bill, overrun, redone, mainStop, restarts>>

(* the session of a group is over: its tokens are observed, and its result  *)
(* is saved before anything is checked                                      *)
GroupSolved ==
    /\ place = "group"
    /\ mem' = [Observed EXCEPT !.groups[number] = "generated"]
    /\ disk' = mem' /\ session' = Blank /\ place' = "check"
    /\ UNCHANGED <<number, progressed, workTree, report, late, outcome, straggler, bill,
                   overrun, redone, mainStop, restarts>>

GroupChecked ==
    /\ place = "check"
    /\ mem' = [mem EXCEPT !.groups[number] = "checked"]
    /\ disk' = mem' /\ number' = number + 1 /\ place' = "main"
    /\ UNCHANGED <<session, progressed, workTree, report, late, outcome, straggler, bill,
                   overrun, redone, mainStop, restarts>>

----------------------------------------------------------------------------
(* The full check and the repair rounds                                     *)

Stagnant == IF mem.rounds # <<>> /\ Last(mem.rounds) # Running
            THEN Last(mem.rounds) ELSE 0

(* the commands are run; without time left none of them is                  *)
Verify(rows) ==
    /\ rows \in [Cmd -> Outcomes]
    /\ late => \A c \in Cmd : ~rows[c].ran
    /\ report' = [rows |-> rows, version |-> workTree]

FullCheck ==
    /\ place = "full"
    /\ \E rows \in [Cmd -> Outcomes] : Verify(rows)
    /\ disk' = mem /\ place' = "judge"
    /\ UNCHANGED <<mem, number, session, progressed, workTree, late, outcome, straggler,
                   bill, overrun, redone, mainStop, restarts>>

RepairEnds ==
    \/ AllPassed(report)
    \/ Stagnant >= StagnantLimit
    \/ Len(mem.rounds) >= MaxRounds
    \/ TokensLeft < LeastTokens \/ late
    \/ Targets(report) = {}

(* a round begins: it is counted and saved before its session opens         *)
RepairStarts ==
    /\ place = "judge" /\ ~RepairEnds
    /\ mem' = [mem EXCEPT !.rounds = Append(@, Running)]
    /\ disk' = mem' /\ place' = "repair"
    /\ LET last == Len(mem.rounds) + 1 = MaxRounds
           budget == IF last THEN TokensLeft
                     ELSE Max({LeastTokens, (TokensLeft * 65) \div 100})
       IN  Open(budget, budget)
    /\ UNCHANGED <<number, progressed, workTree, report, late, outcome, straggler, bill,
                   overrun, redone, mainStop, restarts>>

RepairSolved ==
    /\ place = "repair"
    /\ mem' = Observed /\ session' = Blank /\ place' = "recheck"
    /\ UNCHANGED <<disk, number, progressed, workTree, report, late, outcome, straggler,
                   bill, overrun, redone, mainStop, restarts>>

(* the round is judged by the full check: new passing commands are progress *)
Recheck ==
    /\ place = "recheck"
    /\ \E rows \in [Cmd -> Outcomes] : Verify(rows)
    /\ LET advanced == AllPassed(report') \/ Markers(report') \ Markers(report) # {}
           before == IF Len(mem.rounds) > 1 /\ mem.rounds[Len(mem.rounds) - 1] # Running
                     THEN mem.rounds[Len(mem.rounds) - 1] ELSE 0
       IN  mem' = [mem EXCEPT !.rounds[Len(mem.rounds)] =
                      IF advanced THEN 0 ELSE before + 1]
    /\ disk' = mem' /\ place' = "judge"
    /\ UNCHANGED <<number, session, progressed, workTree, late, outcome, straggler, bill,
                   overrun, redone, mainStop, restarts>>

FinishWeave ==
    /\ place = "judge" /\ RepairEnds
    /\ outcome' = IF AllPassed(report) THEN "completed"
                  ELSE IF Executed(report) THEN "failed" ELSE "unverified"
    /\ disk' = mem /\ place' = "ended"
    /\ UNCHANGED <<mem, number, session, progressed, workTree, report, late, straggler,
                   bill, overrun, redone, mainStop, restarts>>

----------------------------------------------------------------------------
(* What goes wrong                                                          *)

(* an exception or a cancellation ends the run as failed, and the state is  *)
(* saved; a session whose agent could not be cleaned up is such an error,   *)
(* and the agent may go on writing                                          *)
EndInError(left) ==
    /\ place \notin {"ended", "down"}
    /\ outcome' = "error" /\ disk' = mem /\ place' = "ended" /\ session' = Blank
    /\ straggler' = left
    /\ UNCHANGED <<mem, number, progressed, workTree, report, late, bill, overrun, redone,
                   mainStop, restarts>>

TrustCleanup ==
    /\ place = "repair"
    /\ mem' = Observed /\ session' = Blank /\ place' = "recheck" /\ straggler' = TRUE
    /\ UNCHANGED <<disk, number, progressed, workTree, report, late, outcome, bill,
                   overrun, redone, mainStop, restarts>>

AgentLeft == InSession /\ EndInError(TRUE)
WeaveFails == EndInError(FALSE)

StragglerWrites ==
    /\ straggler /\ workTree < MaxVersions /\ workTree' = workTree + 1
    /\ UNCHANGED <<mem, disk, place, number, session, progressed, report, late, outcome,
                   straggler, bill, overrun, redone, mainStop, restarts>>

WeaveDies ==
    /\ place \notin {"ended", "down"} /\ restarts < MaxRestarts
    /\ place' = "down" /\ session' = Blank /\ straggler' = FALSE
    /\ UNCHANGED <<mem, disk, number, progressed, workTree, report, late, outcome, bill,
                   overrun, redone, mainStop, restarts>>

(* the caller runs the same groups again with the saved state               *)
Continue ==
    /\ place \in {"ended", "down"} /\ restarts < MaxRestarts
    /\ restarts' = restarts + 1
    /\ mem' = disk /\ place' = "main" /\ number' = 1 /\ session' = Blank
    /\ progressed' = FALSE /\ outcome' = "none" /\ straggler' = FALSE
    /\ report' = NoReport /\ mainStop' = "none"
    /\ UNCHANGED <<disk, workTree, late, bill, overrun, redone>>

WeaveLate ==
    /\ place \in {"main", "full", "recheck", "judge"} /\ ~late /\ late' = TRUE
    /\ UNCHANGED <<mem, disk, place, number, session, progressed, workTree, report, outcome,
                   straggler, bill, overrun, redone, mainStop, restarts>>

WeaveStep ==
    \/ NextGroup \/ ObserveUsage \/ ExtendBudget \/ GroupSolved \/ GroupChecked
    \/ \E cost \in 1..WeaveCost : WeaveRequest(cost)
    \/ FullCheck \/ RepairStarts \/ RepairSolved \/ Recheck \/ FinishWeave

WeaveNext ==
    WeaveStep \/ ToolWrites \/ AgentLeft \/ WeaveFails \/ StragglerWrites \/ WeaveDies
        \/ Continue \/ WeaveLate

WeaveSpec == WeaveInit /\ [][WeaveNext]_weaveVars

----------------------------------------------------------------------------

(* A run that reports a verified delivery has had every command run to a    *)
(* clean end on the tree as it is now: nothing wrote after that check.      *)
DeliveryIsChecked ==
    outcome = "completed" =>
        /\ report.version = workTree /\ ~straggler
        /\ \A c \in Cmd : report.rows[c].ok /\ report.rows[c].clean

(* What all processes of a run pay stays within its budget but for the rest *)
(* of one request of a session and one unobserved request of a dead process;*)
(* no session is ever allowed more than its hard budget; rounds are bounded *)
(* over all continuations.                                                  *)
WeaveStaysInBudget ==
    /\ LET deaths == restarts + (IF place = "down" THEN 1 ELSE 0)
       IN  bill <= WeaveTotal + overrun + deaths * WeaveCost
    /\ session.soft <= session.hard
    /\ Len(mem.rounds) <= MaxRounds

(* The groups stop for want of tokens only when some session passed its     *)
(* hard budget or an earlier process paid for work that was lost: the       *)
(* shares leave every later group its minimum.                              *)
NoGroupStarves ==
    mainStop = "tokens" => overrun > 0 \/ restarts > 0 \/ MainHard < LeastTokens * Len(Weights)

(* A delivery is reported on a check of the final tree, within the budget,  *)
(* whatever dies and is continued in between; no group is solved again once *)
(* its result was saved, and none is starved by the ones before it.         *)
WeaveIsSound ==
    /\ DeliveryIsChecked
    /\ WeaveStaysInBudget
    /\ ~redone
    /\ NoGroupStarves

----------------------------------------------------------------------------
(* The inductive invariant                                                  *)

Saved == [groups : [Members -> {"none", "generated", "checked"}], rounds : Seq(Nat),
          spent : Nat, fixing : Nat]

Sessions == [soft : Nat, hard : Nat, used : Nat, seen : Nat, fresh : BOOLEAN]

WeaveTypes ==
    /\ mem \in Saved /\ disk \in Saved /\ number \in Nat \ {0}
    /\ place \in {"main", "group", "check", "full", "judge", "repair", "recheck", "ended", "down"}
    /\ session \in Sessions
    /\ progressed \in BOOLEAN /\ straggler \in BOOLEAN /\ redone \in BOOLEAN
    /\ report \in [rows : [Cmd -> Outcomes \cup {Unrun}], version : Nat]
    /\ workTree \in Nat /\ bill \in Nat /\ overrun \in Nat /\ restarts \in Nat

(* What a session has paid is observed but for one request.                 *)
SessionFits ==
    /\ session.seen <= session.used /\ session.used <= session.seen + WeaveCost
    /\ session.soft <= session.hard
    /\ ~InSession => session = Blank
    /\ place \in {"group", "check"} => number \in Members

SeenIn(m) == m.spent + m.fixing

(* A process that ends loses the sight of one request at most.              *)
PaidIsSeen ==
    /\ place \notin {"ended", "down"} =>
          bill <= SeenIn(mem) + (session.used - session.seen) + restarts * WeaveCost
    /\ bill <= SeenIn(disk) + (restarts + 1) * WeaveCost
    /\ InSession => SeenIn(disk) = SeenIn(mem)

(* What is paid, with all a session may still pay, fits the budget.         *)
PaidFits ==
    /\ bill + AtLeast0(session.hard - session.used)
          <= WeaveTotal + overrun + restarts * WeaveCost
    /\ Len(mem.rounds) <= MaxRounds /\ Len(disk.rounds) <= MaxRounds

SavedStaysSaved ==
    ~redone /\ \A g \in Members : disk.groups[g] # "none" => mem.groups[g] # "none"

(* From its check on, nobody writes to the tree that is reported on.        *)
CheckIsCurrent ==
    /\ outcome # "none" => place = "ended"
    /\ straggler => outcome = "error"
    /\ place = "judge" => report.version = workTree
    /\ outcome = "completed" => report.version = workTree /\ AllPassed(report)

(* While no session has passed its budget and nothing was lost, every group *)
(* still to come has its minimum left.                                      *)
RestIsLeft ==
    restarts = 0 /\ overrun = 0 /\ MainHard >= LeastTokens * Len(Weights) =>
        /\ mainStop # "tokens"
        /\ place \in {"main", "group", "check"} => mem.fixing = 0
        /\ place = "main" => mem.spent + LeastTokens * (Len(Weights) - (number - 1)) <= MainHard
        /\ place = "group" =>
              /\ session.used <= session.hard
              /\ mem.spent + (session.hard - session.seen)
                    + LeastTokens * (Len(Weights) - number) <= MainHard
        /\ place = "check" => mem.spent + LeastTokens * (Len(Weights) - number) <= MainHard

WeaveInv ==
    WeaveTypes /\ SessionFits /\ PaidIsSeen /\ PaidFits /\ SavedStaysSaved /\ CheckIsCurrent
        /\ RestIsLeft
=============================================================================

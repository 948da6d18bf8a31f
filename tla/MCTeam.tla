------------------------------- MODULE MCTeam -------------------------------
(***************************************************************************)
(* A declared team, what its members see and edit, and the workflows that   *)
(* come with the system, for TLC: the token budget of the team, its roster, *)
(* its serialized turns with the review loop, the adoption of a coder's     *)
(* changes, the exchange of tool calls and the shaping of a long            *)
(* transcript, the file tools, and weave (its plan and its runs), duo and   *)
(* reconstruct.  `part` says which of them a behaviour is about; the state  *)
(* of the others stays as it started.                                       *)
(***************************************************************************)
EXTENDS TeamBudget, DeclaredTeam, ReviewTurns, TeamAdoption, ContextShaping, WeaveRuns,
        DuoRuns, Reconstruction, FileEdits, ToolExchange

VARIABLE part

NoAllowances == <<>>
TwoRoles     == <<"coder", "tester">>

(* the shaped transcript: a prompt and a pinned task, then user turns, tool *)
(* exchanges with one or two calls, one that comes with words, one with a   *)
(* reasoning, and a call that was never answered                            *)
Message(role, ids, size, with) ==
    [uid |-> 0, role |-> role, ids |-> ids, size |-> size, form |-> "whole",
     pin |-> FALSE, again |-> role = "tool", with |-> with, of |-> {}]
Plain(role, size)     == Message(role, {}, size, "nothing")
Result(id, size)      == Message("tool", {id}, size, "nothing")

Opening ==
    << [Plain("system", 1) EXCEPT !.uid = 1, !.of = {1}],
       [Plain("user", 1) EXCEPT !.uid = 2, !.of = {2}, !.pin = TRUE] >>
Exchanges ==
    { <<Plain("user", 2)>>,
      <<Message("call", {1}, 1, "nothing"), Result(1, 4)>>,
      <<Message("call", {1, 2}, 2, "words"), Result(1, 2), Result(2, 2)>>,
      <<Message("call", {1}, 1, "reasoning"), Result(1, 2)>>,
      <<Message("call", {1}, 1, "nothing")>> }

GroupWeights == <<3, 1>>

TestRun(c, s) == [command |-> c, shows |-> s]
TestLists ==
    { <<>>, <<TestRun("t", "red"), TestRun("t", "green")>>,
      <<TestRun("t", "red"), TestRun("u", "green")>>,
      <<TestRun("t", "red"), TestRun("t", "stale")>> }

(* a poor program, one that embeds its examples, a complex one that is      *)
(* right everywhere, and a plain one                                        *)
Agrees == "p" :> {1} @@ "m" :> {2, 3, 4} @@ "c" :> 1..4 @@ "q" :> 1..4
Sorts  == "p" :> {} @@ "m" :> {"memo", "complex"} @@ "c" :> {"complex"} @@ "q" :> {}
Losses == "p" :> 0 @@ "m" :> 2 @@ "c" :> 1 @@ "q" :> 0
Edges  == "edge" :> {4}

(* a text: absent, empty, without its last break, with repeated lines, with *)
(* blank lines and other breaks, with breaks of two kinds                   *)
Text(ls, ended) == TextOf(ls, ended, "lf")
Sizes == "" :> 0 @@ "a" :> 1 @@ "b" :> 3
FileStarts ==
    { NoFile, Text(<<>>, FALSE), Text(<<"a">>, FALSE), Text(<<"a", "b", "a">>, TRUE),
      TextOf(<<"b", "a", "", "a">>, FALSE, "crlf"),
      [Text(<<"a", "b", "">>, TRUE) EXCEPT !.style = "mixed"] }
FileCommands == {Text(<<"b", "a">>, TRUE)}

Create(ls, overwrite) ==
    [kind |-> "create", to |-> Text(ls, TRUE), overwrite |-> overwrite]
Replace(old, new) == [kind |-> "replace", old |-> old, new |-> new]
Lines(first, end, new, quoted, relocate) ==
    [kind |-> "lines", first |-> first, end |-> end, new |-> new, quoted |-> quoted,
     relocate |-> relocate]
Hunk(at, old, new) ==
    [at |-> at, old |-> old, new |-> new, counted |-> TRUE, remarks |-> {}]
Diff(hunks, normalize) == [kind |-> "diff", hunks |-> hunks, normalize |-> normalize]
Edits ==
    { Create(<<"a">>, FALSE), Create(<<"b">>, TRUE),
      Replace(<<"b", "a">>, <<"">>), Replace(<<"a">>, <<"b", "b">>),
      Lines(2, 3, <<>>, NoFile, FALSE),
      Lines(1, 1, <<"b">>, Text(<<"b">>, TRUE), TRUE),
      Lines(2, 3, <<"b">>, Text(<<"a">>, TRUE), TRUE),
      Lines(1, 1, <<"b">>, Text(<<"b">>, FALSE), FALSE),
      Diff(<<Hunk(3, <<"a">>, <<"b">>)>>, FALSE),
      Diff(<<Hunk(2, <<"a">>, <<>>), Hunk(3, <<"a">>, <<"b", "a">>)>>, FALSE),
      Diff(<<Hunk(1, <<"a">>, <<"a", "a">>), Hunk(2, <<>>, <<"b">>)>>, FALSE),
      Diff(<<Hunk(-1, <<"b", "a">>, <<"a", "a">>)>>, TRUE),
      Diff(<<Hunk(0, <<>>, <<"b">>)>>, FALSE),
      Diff(<<[Hunk(4, <<"a">>, <<"b">>) EXCEPT !.remarks = {"old"}]>>, FALSE),
      Diff(<<[Hunk(3, <<"a">>, <<"a", "b">>) EXCEPT !.remarks = {"new"},
                                                    !.counted = FALSE]>>, TRUE) }
TwoMenus == "e" :> Edits @@ "f" :> {Replace(<<"b">>, <<"b", "">>)}

(* batches of calls: plain ones, a child before and after another call, a   *)
(* submission that skips the rest, blocked calls; ids are used again        *)
ToolCall(id, kind) == [id |-> id, kind |-> kind]
CallBatches ==
    { <<ToolCall("x", "plain"), ToolCall("z", "blocked"), ToolCall("y", "plain")>>,
      <<ToolCall("y", "deferred"), ToolCall("x", "plain")>>,
      <<ToolCall("x", "submit"), ToolCall("y", "deferred")>>,
      <<ToolCall("x", "blocked"), ToolCall("y", "deferred")>> }

FileRest == FilesInit /\ text = NoFile
PlanRest == PlanInit /\ \A g \in Groups : edges[g] = {}
RecRest  == RecInit /\ file = NoProgram

MCInit ==
    /\ part \in {"budget", "roster", "review", "adoption", "shaping", "plan", "weave",
                 "duo", "reconstruct", "files", "exchange"}
    /\ Init /\ RosterInit /\ ReviewInit /\ AdoptionInit /\ ShapeInit /\ WeaveInit /\ DuoInit
    /\ ExchangeInit
    /\ IF part = "plan" THEN PlanInit ELSE PlanRest
    /\ IF part = "reconstruct" THEN RecInit ELSE RecRest
    /\ IF part = "files" THEN FilesInit ELSE FileRest

teamVars     == <<vars, rosterVars, reviewVars, adoptionVars, shapeVars, exchangeVars>>
workflowVars == <<planVars, weaveVars, duoVars, recVars, fileVars>>
mcVars       == <<part, teamVars, workflowVars>>

BudgetPart ==
    /\ part = "budget" /\ Next
    /\ UNCHANGED <<part, rosterVars, reviewVars, adoptionVars, shapeVars, exchangeVars,
                   workflowVars>>
RosterPart ==
    /\ part = "roster" /\ RosterNext
    /\ UNCHANGED <<part, vars, reviewVars, adoptionVars, shapeVars, exchangeVars,
                   workflowVars>>
ReviewPart ==
    /\ part = "review" /\ ReviewNext
    /\ UNCHANGED <<part, vars, rosterVars, adoptionVars, shapeVars, exchangeVars,
                   workflowVars>>
AdoptionPart ==
    /\ part = "adoption" /\ AdoptionNext
    /\ UNCHANGED <<part, vars, rosterVars, reviewVars, shapeVars, exchangeVars,
                   workflowVars>>
ShapingPart ==
    /\ part = "shaping" /\ ShapeNext
    /\ UNCHANGED <<part, vars, rosterVars, reviewVars, adoptionVars, exchangeVars,
                   workflowVars>>
ExchangePart ==
    /\ part = "exchange" /\ ExchangeNext
    /\ UNCHANGED <<part, vars, rosterVars, reviewVars, adoptionVars, shapeVars, workflowVars>>
PlanPart ==
    /\ part = "plan" /\ PlanNext
    /\ UNCHANGED <<part, teamVars, weaveVars, duoVars, recVars, fileVars>>
WeavePart ==
    /\ part = "weave" /\ WeaveNext
    /\ UNCHANGED <<part, teamVars, planVars, duoVars, recVars, fileVars>>
DuoPart ==
    /\ part = "duo" /\ DuoNext
    /\ UNCHANGED <<part, teamVars, planVars, weaveVars, recVars, fileVars>>
ReconstructPart ==
    /\ part = "reconstruct" /\ RecNext
    /\ UNCHANGED <<part, teamVars, planVars, weaveVars, duoVars, fileVars>>
FilesPart ==
    /\ part = "files" /\ FilesNext
    /\ UNCHANGED <<part, teamVars, planVars, weaveVars, duoVars, recVars>>

MCNext ==
    \/ BudgetPart \/ RosterPart \/ ReviewPart \/ AdoptionPart \/ ShapingPart
    \/ PlanPart \/ WeavePart \/ DuoPart \/ ReconstructPart \/ FilesPart \/ ExchangePart

MCSpec == MCInit /\ [][MCNext]_mcVars

(* The history of a session and what a model is shown of it keep calls and  *)
(* results together and lose nothing: see ExchangeIsWhole and               *)
(* ViewIsFaithful.                                                          *)
TranscriptIsSound == ExchangeIsWhole /\ ViewIsFaithful

(* The groups weave works by are the components of the plan, and the result *)
(* of duo and of reconstruct is the one their records justify: see          *)
(* PlanIsSound, DuoIsSound and ReconstructionIsSound.                       *)
SearchesAreSound == PlanIsSound /\ DuoIsSound /\ ReconstructionIsSound
=============================================================================

---------------------------- MODULE Reconstruction ----------------------------
(***************************************************************************)
(* The reconstruct workflow (builtin_workflows/reconstruct): a hidden       *)
(* program is asked for its output on batches of inputs that an agent       *)
(* proposes, a coder writes a candidate for all examples known, a candidate *)
(* that passes them earns the next, larger batch, and the best candidate of *)
(* the run on all examples is put in place at the end.                      *)
(*                                                                          *)
(* A program is a name; Right says on which inputs it agrees with the       *)
(* hidden one, Kind whether its source embeds the known inputs or is far    *)
(* too complex, Penalty the tenths its score loses for that.  A category of *)
(* inputs stands for the structural coverage that the gate asks for.        *)
(* Prompts and feedback texts are left out.                                 *)
(***************************************************************************)
EXTENDS Integers, Sequences, FiniteSets, FiniteSetsExt, SequencesExt

CONSTANTS
    In,                 \* inputs
    Invalid,            \* inputs that the hidden program rejects
    Program,            \* programs the coder may write
    Right, Kind, Penalty,
    Category,           \* category -> its inputs
    InitialBatch, BatchStep, MaxCodings, EarlyStop, ProposeAttempts,
    RandomPercent,      \* random_share in percent
    CoveragePatience, MemoPatience, ComplexPatience

NoProgram == "no program"

ASSUME ReconstructionAssumption ==
    /\ {InitialBatch, BatchStep, MaxCodings, EarlyStop, ProposeAttempts} \subseteq Nat \ {0}
    /\ RandomPercent \in 0..100
    /\ {CoveragePatience, MemoPatience, ComplexPatience} \subseteq Nat
    /\ IsFiniteSet(In) /\ NoProgram \notin Program /\ Penalty \in [Program -> Nat]

VARIABLES
    step,         \* where the run is
    known,        \* the inputs of the examples observed
    asking,       \* the batch being filled: size, attempts made, where it returns
    nextBatch,    \* next_batch
    consecutive,  \* promotions in a row
    codings,
    file,         \* the program in the candidate file, or NoProgram
    archived,     \* the candidates of this run, oldest first
    memoRounds, complexRounds,
    misses,       \* missing categories -> batches they have held up
    stop,         \* stop_reason
    passes        \* the passing rounds since the last failing one, oldest
                  \* first: what was known then, and the kind of the candidate

recVars == <<step, known, asking, nextBatch, consecutive, codings, file, archived,
             memoRounds, complexRounds, misses, stop, passes>>

NoBatchAsked == [n |-> 0, tries |-> 0, drawn |-> TRUE, back |-> "nowhere"]
Valid        == In \ Invalid
Missing      == {c \in DOMAIN Category : Category[c] \cap known = {}}

(* the program's output on input i is the hidden program's                  *)
Matches(p, i) == i \in Right[p]
PassesAll(p) == p # NoProgram /\ \A i \in known : Matches(p, i)

Memorises(p)  == "memo" \in Kind[p]
TooComplex(p) == "complex" \in Kind[p]

(* a run may start in a workspace where an earlier one left its program     *)
RecInit ==
    /\ step = "ask" /\ known = {} /\ nextBatch = InitialBatch + BatchStep
    /\ asking = [n |-> InitialBatch, tries |-> 0, drawn |-> FALSE, back |-> "probe"]
    /\ consecutive = 0 /\ codings = 0 /\ file \in {NoProgram} \cup Program /\ archived = <<>>
    /\ memoRounds = 0 /\ complexRounds = 0 /\ stop = "running" /\ passes = <<>>
    /\ misses = [m \in SUBSET DOMAIN Category |-> 0]

----------------------------------------------------------------------------
(* Filling a batch                                                          *)

(* Python rounds a half to the even neighbour                               *)
RandomOf(n) ==
    LET whole == (n * RandomPercent) \div 100
        rest  == (n * RandomPercent) % 100
    IN  IF rest > 50 \/ (rest = 50 /\ whole % 2 = 1) THEN whole + 1 ELSE whole

(* the random share comes first; the generator repeats nothing known, and   *)
(* an input that the hidden program rejects is skipped, so that fewer may   *)
(* come than were asked for                                                 *)
DrawRandom(drawn) ==
    /\ step = "ask" /\ ~asking.drawn
    /\ Cardinality(drawn) <= RandomOf(asking.n) /\ drawn \subseteq Valid \ known
    /\ known' = known \cup drawn
    /\ asking' = [asking EXCEPT !.n = @ - Cardinality(drawn), !.drawn = TRUE]
    /\ UNCHANGED <<step, nextBatch, consecutive, codings, file, archived, memoRounds,
                   complexRounds, misses, stop, passes>>

(* a proposal is accepted whole: exactly as many inputs as the batch asks   *)
(* for, none of them known, and none that the hidden program rejects        *)
AcceptProposal(batch) ==
    Cardinality(batch) = asking.n /\ batch \cap known = {} /\ batch \subseteq Valid

AskMore == step = "ask" /\ asking.drawn /\ asking.n > 0

BatchFilled == asking' = NoBatchAsked /\ step' = "code"

(* after a batch that was granted for a pass the next one is larger         *)
Grow == nextBatch' = IF asking.back = "probe" THEN nextBatch ELSE nextBatch + BatchStep

Proposed(batch) ==
    /\ AskMore /\ AcceptProposal(batch)
    /\ known' = known \cup batch /\ BatchFilled /\ Grow
    /\ UNCHANGED <<consecutive, codings, file, archived, memoRounds, complexRounds,
                   misses, stop, passes>>

NothingLeftToAsk ==
    /\ step = "ask" /\ asking.drawn /\ asking.n <= 0
    /\ BatchFilled /\ Grow
    /\ UNCHANGED <<known, consecutive, codings, file, archived, memoRounds,
                   complexRounds, misses, stop, passes>>

(* a proposal is rejected, and no further one is asked for after the last   *)
Rejected ==
    /\ AskMore
    /\ IF asking.tries + 1 < ProposeAttempts
       THEN asking' = [asking EXCEPT !.tries = @ + 1] /\ UNCHANGED <<step, stop>>
       ELSE asking' = NoBatchAsked /\ stop' = "proposer_failed" /\ step' = "select"
    /\ UNCHANGED <<known, nextBatch, consecutive, codings, file, archived, memoRounds,
                   complexRounds, misses, passes>>

(* the budget is found exhausted before a call: the run goes to selection   *)
OutOfBudget ==
    /\ AskMore \/ (step = "code" /\ codings < MaxCodings)
    /\ stop' = "budget_exhausted" /\ step' = "select" /\ asking' = NoBatchAsked
    /\ codings' = IF step = "code" THEN codings + 1 ELSE codings
    /\ UNCHANGED <<known, nextBatch, consecutive, file, archived, memoRounds, complexRounds,
                   misses, passes>>

----------------------------------------------------------------------------
(* A coding round                                                           *)

LastRound ==
    /\ step = "code" /\ codings = MaxCodings
    /\ stop' = "max_iterations" /\ step' = "select"
    /\ UNCHANGED <<known, asking, nextBatch, consecutive, codings, file, archived,
                   memoRounds, complexRounds, misses, passes>>

(* the coder leaves a program, the one that was there, or none; what is     *)
(* there is archived                                                        *)
CoderWrites(p) ==
    /\ step = "code" /\ codings < MaxCodings
    /\ codings' = codings + 1 /\ file' = p
    /\ archived' = IF p = NoProgram THEN archived ELSE Append(archived, p)
    /\ passes' = IF PassesAll(p) THEN Append(passes, [known |-> known, kind |-> Kind[p]])
                 ELSE <<>>
    /\ step' = "judge"
    /\ UNCHANGED <<known, asking, nextBatch, consecutive, memoRounds, complexRounds, misses, stop>>

AskBatch(back) ==
    /\ asking' = [n |-> nextBatch, tries |-> 0, drawn |-> FALSE, back |-> back]
    /\ step' = "ask" /\ UNCHANGED stop

(* a failing candidate is sent back                                         *)
SendBack ==
    /\ consecutive' = 0 /\ step' = "code"
    /\ UNCHANGED <<asking, memoRounds, complexRounds, misses, stop>>

(* a pass is counted, unless a required category is missing and has not     *)
(* held up too many batches yet; enough passes in a row end the run, any    *)
(* other one earns a batch                                                  *)
CountPass(from) ==
    /\ IF Missing = {} THEN consecutive' = from + 1 /\ UNCHANGED misses
       ELSE /\ misses' = [misses EXCEPT ![Missing] = @ + 1]
            /\ consecutive' = IF misses'[Missing] <= CoveragePatience THEN 0 ELSE from + 1
    /\ IF consecutive' >= EarlyStop
       THEN stop' = "early_stop" /\ step' = "select" /\ UNCHANGED asking
       ELSE AskBatch("counted")

JudgePassBlind == CountPass(consecutive) /\ UNCHANGED <<memoRounds, complexRounds>>

(* a pass by embedding the known inputs has its rounds of rewriting, then a *)
(* batch is granted anyway; a far too complex pass is granted its batch but *)
(* not counted, so many times                                               *)
JudgePass ==
    LET memo == Memorises(file)
        base == IF memo THEN 0 ELSE consecutive
    IN  \/ /\ memo /\ memoRounds < MemoPatience
           /\ memoRounds' = memoRounds + 1 /\ consecutive' = 0 /\ step' = "code"
           /\ UNCHANGED <<asking, complexRounds, misses, stop>>
        \/ /\ ~(memo /\ memoRounds < MemoPatience)
           /\ memoRounds' = IF memo THEN 0 ELSE memoRounds
           /\ \/ /\ TooComplex(file) /\ complexRounds < ComplexPatience
                 /\ complexRounds' = complexRounds + 1 /\ consecutive' = 0
                 /\ AskBatch("granted") /\ UNCHANGED misses
              \/ /\ ~(TooComplex(file) /\ complexRounds < ComplexPatience)
                 /\ complexRounds' = IF TooComplex(file) THEN complexRounds + 1
                                     ELSE complexRounds
                 /\ CountPass(base)

JudgeRound ==
    /\ step = "judge"
    /\ IF PassesAll(file) THEN JudgePass ELSE SendBack
    /\ UNCHANGED <<known, nextBatch, codings, file, archived, passes>>

(* too few tokens for another round: seen only after the candidate was      *)
(* archived                                                                 *)
TooFewTokens ==
    /\ step = "judge" /\ stop' = "budget_exhausted" /\ step' = "select"
    /\ UNCHANGED <<known, asking, nextBatch, consecutive, codings, file, archived,
                   memoRounds, complexRounds, misses, passes>>

----------------------------------------------------------------------------
(* Selection                                                                *)

(* ten times the score, times the number of examples                        *)
ScoreOf(p) ==
    LET n == Cardinality(known)
        score == 10 * Cardinality({i \in known : Matches(p, i)}) - n * Penalty[p]
    IN  IF score < 0 THEN 0 ELSE score

(* the best score on all examples; a later candidate wins a tie             *)
Best(all) ==
    all[Max({i \in DOMAIN all :
               \A j \in DOMAIN all : ScoreOf(all[i]) >= ScoreOf(all[j])})]

Select ==
    /\ step = "select"
    /\ file' = IF archived = <<>> THEN file ELSE Best(archived)
    /\ step' = "done"
    /\ UNCHANGED <<known, asking, nextBatch, consecutive, codings, archived, memoRounds,
                   complexRounds, misses, stop, passes>>

RecStep ==
    \/ \E drawn \in SUBSET In : DrawRandom(drawn)
    \/ \E batch \in SUBSET In : Proposed(batch)
    \/ NothingLeftToAsk \/ Rejected \/ OutOfBudget \/ LastRound
    \/ \E p \in Program \cup {NoProgram} : CoderWrites(p)
    \/ JudgeRound \/ TooFewTokens \/ Select

RecNext == RecStep
RecSpec == RecInit /\ [][RecNext]_recVars

----------------------------------------------------------------------------

(* When the run stops early, as many rounds in a row as it asks for passed  *)
(* everything known at their time, each of them with more known than the    *)
(* one before, and the candidate it stopped on does not embed its examples. *)
EarlyStopIsEarned ==
    stop = "early_stop" =>
        /\ EarlyStop > 1 => "memo" \notin Last(passes).kind
        /\ \E rounds \in SUBSET DOMAIN passes :
              /\ Cardinality(rounds) = EarlyStop /\ Len(passes) \in rounds
              /\ \A i, j \in rounds : i < j => passes[i].known \subseteq passes[j].known
                                               /\ passes[i].known # passes[j].known

(* The program left in place is one that this run archived, as long as it   *)
(* archived any, and none of the others scores better on all examples: a    *)
(* candidate that was best on few examples does not stay.                   *)
FinalIsBest ==
    step = "done" /\ archived # <<>> =>
        /\ file \in ToSet(archived)
        /\ \A p \in ToSet(archived) : ScoreOf(p) <= ScoreOf(file)

(* Early stops are earned by passes on growing evidence, and the final      *)
(* program is the best of this run on everything observed; what was         *)
(* observed is never an input that the hidden program rejects.              *)
ReconstructionIsSound ==
    EarlyStopIsEarned /\ FinalIsBest /\ known \cap Invalid = {}
----------------------------------------------------------------------------
(* Why it is sound                                                          *)

Asked       == [n : Int, tries : Nat, drawn : BOOLEAN, back : {"nowhere", "probe", "counted", "granted"}]
PassedRound == [known : SUBSET In, kind : {Kind[p] : p \in Program}]

RecTypes ==
    /\ step \in {"ask", "code", "judge", "select", "done"}
    /\ known \subseteq Valid /\ asking \in Asked /\ nextBatch \in Nat \ {0}
    /\ consecutive \in 0..EarlyStop
    /\ file \in Program \cup {NoProgram} /\ archived \in Seq(Program)
    /\ passes \in Seq(PassedRound)

Growing(rounds) ==
    \A i, j \in rounds : i < j => passes[i].known \subseteq passes[j].known
                                  /\ passes[i].known # passes[j].known

(* The passes counted are those of as many rounds up to `last`, and more    *)
(* has become known since, or will before the batch asked for is filled.    *)
Owed == step = "ask" /\ asking.n > 0
Behind(i) == passes[i].known \subseteq known /\ (passes[i].known # known \/ Owed)
CountedUpTo(last) ==
    \E rounds \in SUBSET (1..last) :
        Cardinality(rounds) = consecutive /\ Growing(rounds)
        /\ \A i \in rounds : Behind(i)

(* The last pass is the one under judgement.                                *)
UnderJudgement ==
    /\ passes # <<>> /\ passes[Len(passes)].known = known
    /\ passes[Len(passes)].kind = Kind[file]

PassesCount ==
    /\ step \in {"ask", "code", "judge"} => consecutive < EarlyStop /\ stop = "running"
    /\ step \in {"ask", "code"} => CountedUpTo(Len(passes))
    /\ step = "judge" /\ PassesAll(file) => UnderJudgement /\ CountedUpTo(Len(passes) - 1)

RecInv == RecTypes /\ PassesCount /\ EarlyStopIsEarned /\ FinalIsBest
=============================================================================

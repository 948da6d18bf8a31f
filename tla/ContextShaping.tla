---------------------------- MODULE ContextShaping ----------------------------
(***************************************************************************)
(* What a model is shown of a long session (application/shaping): a copy of *)
(* the transcript on which each tool result is capped, and, under pressure, *)
(* old tool output is cleared, old tool exchanges are cut, and what is left *)
(* of the old history is replaced by a summary that the model itself wrote. *)
(* A request that the provider still rejects as too long is shaped once     *)
(* more without regard to the estimates.                                    *)
(*                                                                          *)
(* A message has a number, a role (system, user, text, call, tool), the ids *)
(* of the calls it makes or answers, and a size in the units of the         *)
(* estimate.  `form` says what the view shows of it: all of it, its capped  *)
(* or cleared content, the words of a call without the call, or a summary   *)
(* of the messages in `of`.  A call may come with words, with a reasoning   *)
(* that cannot be split from it, or with neither.                           *)
(***************************************************************************)
EXTENDS Integers, Sequences, FiniteSets, FiniteSetsExt, SequencesExt

CONSTANTS
    Seed,           \* the messages every transcript starts with
    Menu,           \* the groups of messages a step may add
    MaxGroups,      \* bound: groups added
    ResultCap,      \* max_chars of a tool result
    ClearedSize,    \* size of the text that stands for a cleared result
    SummarySize,
    Trigger, Target,
    KeepGroups,     \* keep_recent_groups
    KeepResults,    \* keep_recent of the clearing layer
    CacheSize       \* summary_cache_size

ASSUME ShapingAssumption ==
    /\ {ResultCap, ClearedSize, SummarySize, Trigger, Target, KeepResults} \subseteq Nat \ {0}
    /\ Target < Trigger /\ KeepGroups \in Nat /\ CacheSize \in Nat

VARIABLES
    log,       \* the transcript, which no layer changes
    grown,     \* groups added to it
    view,      \* what is shown, or is being shaped to be
    shaping,   \* idle, summing (the summary is awaited), sent, stopped
    forced,    \* the pass after an overflow
    region,    \* first and last place of `view` that the summary is to replace
    cache      \* the summarized segments, least recently used first

shapeVars == <<log, grown, view, shaping, forced, region, cache>>

Estimate(ms) == FoldSeq(LAMBDA m, acc : m.size + acc, 0, ms)
NoRegion     == <<0, -1>>
Places(S, n) == SelectSeq([i \in 1..n |-> i], LAMBDA i : i \in S)

----------------------------------------------------------------------------
(* Groups: a call together with the results that follow it                  *)

Follows(ms, i) ==
    /\ ms[i].role = "tool"
    /\ \E j \in 1..(i - 1) :
          ms[j].role = "call" /\ \A k \in (j + 1)..i : ms[k].role = "tool"
Leaders(ms) == Places({i \in DOMAIN ms : ~Follows(ms, i)}, Len(ms))
GroupCountOf(ms) == Len(Leaders(ms))
First(ms, g) == Leaders(ms)[g]
Final(ms, g) == IF g = GroupCountOf(ms) THEN Len(ms) ELSE Leaders(ms)[g + 1] - 1
Span(ms, g)  == First(ms, g)..Final(ms, g)

(* every call of the leader has exactly one result                          *)
Complete(ms, g) ==
    LET lead == ms[First(ms, g)]
        results == (First(ms, g) + 1)..Final(ms, g)
    IN  /\ lead.role = "call"
        /\ UNION {ms[i].ids : i \in results} = lead.ids
        /\ Cardinality(results) = Cardinality(lead.ids)

SafeToCompact(ms, g) ==
    /\ ms[First(ms, g)].role # "tool"
    /\ ms[First(ms, g)].role = "call" => Complete(ms, g)

Pinned(ms, g) == \E i \in Span(ms, g) : ms[i].pin

(* the leading group and the recent ones are out of reach                   *)
Droppable(ms) == 2..(GroupCountOf(ms) - KeepGroups)

----------------------------------------------------------------------------
(* The layers                                                               *)

CapResults(ms) ==
    [i \in DOMAIN ms |->
        IF ms[i].role = "tool" /\ ms[i].size > ResultCap
        THEN [ms[i] EXCEPT !.size = ResultCap, !.form = "cut"] ELSE ms[i]]

OverTrigger(ms) == ms # <<>> /\ (forced \/ Estimate(ms) > Trigger)

(* the result answers a call of a complete exchange                         *)
Matched(ms, i) == \E g \in 1..GroupCountOf(ms) : i \in Span(ms, g) /\ Complete(ms, g)

(* results of tools whose output can be had again, of complete exchanges,   *)
(* but for the most recent ones and those that are shorter than the text    *)
(* that would replace them                                                  *)
ClearOutput(ms) ==
    LET compactable == {i \in DOMAIN ms :
            ms[i].role = "tool" /\ ms[i].again /\ Matched(ms, i)}
        old == {i \in compactable :
            Cardinality({j \in compactable : j > i}) >= KeepResults
            /\ ms[i].size > ClearedSize}
    IN  IF ~OverTrigger(ms) THEN ms
        ELSE [i \in DOMAIN ms |->
                IF i \in old THEN [ms[i] EXCEPT !.size = ClearedSize, !.form = "cleared"]
                ELSE ms[i]]

(* what remains of an exchange that is cut: its words, if it has any        *)
Words(m) == [m EXCEPT !.role = "text", !.ids = {}, !.form = "words", !.size = 1]

SnipAnything(ms, g) == ms[First(ms, g)].role = "call"

MaySnip(ms, g) == Complete(ms, g) /\ ms[First(ms, g)].with # "reasoning"

(* the exchanges in `cut` go, but for the words of their leaders            *)
WithoutGroups(ms, cut) ==
    LET leads == {First(ms, g) : g \in cut}
        gone == UNION {Span(ms, g) : g \in cut}
                  \ {i \in leads : ms[i].with = "words"}
        left == [i \in DOMAIN ms |-> IF i \in leads THEN Words(ms[i]) ELSE ms[i]]
        stays == Places(DOMAIN ms \ gone, Len(ms))
    IN  [n \in DOMAIN stays |-> left[stays[n]]]

(* old exchanges go, the oldest first, until the estimate is at the target  *)
OldestToCut(ms, able) ==
    LET kept(g) == IF ms[First(ms, g)].with = "words" THEN 1 ELSE 0
        gain(g) == Max({0, Estimate(SubSeq(ms, First(ms, g), Final(ms, g))) - kept(g)})
        left(k) == Estimate(ms) - MapThenSumSet(gain, ToSet(SubSeq(able, 1, k)))
        count == Min({k \in 1..Len(able) : left(k) <= Target} \cup {Len(able)})
    IN  ToSet(SubSeq(able, 1, count))

SnipHistory(ms) ==
    LET able == Places({g \in Droppable(ms) : MaySnip(ms, g)}, Len(ms))
    IN  IF ~OverTrigger(ms) \/ able = <<>> THEN ms
        ELSE WithoutGroups(ms, OldestToCut(ms, able))

(* the groups the summary replaces: the first run of groups without a       *)
(* pinned message, and in it the first run of well-formed ones              *)
RunFrom(from, within) ==
    LET f == Min(from \cap within)
    IN  IF from \cap within = {} THEN {}
        ELSE {g \in within : g >= f /\ f..g \subseteq from}

CompactRegion(ms) ==
    LET free == RunFrom({g \in Droppable(ms) : ~Pinned(ms, g)}, Droppable(ms))
        safe == RunFrom({g \in free : SafeToCompact(ms, g)}, free)
    IN  IF ~OverTrigger(ms) \/ safe = {} THEN NoRegion
        ELSE <<First(ms, Min(safe)), Final(ms, Max(safe))>>

(* the summary of a segment takes its place, if that makes the view shorter *)
Marker(seg) ==
    [uid |-> seg[1].uid, role |-> "system", ids |-> {}, size |-> SummarySize,
     form |-> "summary", pin |-> FALSE, again |-> FALSE, with |-> "nothing",
     of |-> UNION {seg[i].of : i \in DOMAIN seg}]

ReplaceRegion(ms, from, to, seg) ==
    LET shorter == SubSeq(ms, 1, from - 1) \o <<Marker(seg)>> \o SubSeq(ms, to + 1, Len(ms))
    IN  IF Estimate(shorter) < Estimate(ms) THEN shorter ELSE ms

(* the cached segments that open the region, on a group boundary: a cached  *)
(* summary stands for exactly the messages it was made from                 *)
CachedPrefixes(ms, r) ==
    {c \in ToSet(cache) :
        /\ r[1] + Len(c) - 1 <= r[2]
        /\ r[1] + Len(c) - 1 \in {Final(ms, g) : g \in 1..GroupCountOf(ms)}
        /\ c = SubSeq(ms, r[1], r[1] + Len(c) - 1)}

Use(c)  == Append(SelectSeq(cache, LAMBDA x : x # c), c)
KeepSummary(c) ==
    LET all == Use(c)
    IN  SubSeq(all, Max({1, Len(all) - CacheSize + 1}), Len(all))

Sent(v) == view' = v /\ shaping' = "sent" /\ region' = NoRegion

(* the last layer: a cached summary of the longest prefix is used if it     *)
(* relieves the pressure, a cached one of the whole region in any case, and *)
(* otherwise the model is asked                                             *)
CompactFrom(ms, r, hits) ==
    LET seg == SubSeq(ms, r[1], r[2])
        best == CHOOSE c \in hits : \A d \in hits : Len(d) <= Len(c)
        short == ReplaceRegion(ms, r[1], r[1] + Len(best) - 1, best)
        relieved == hits # {} /\ short # ms /\ ~OverTrigger(short)
    IN  IF r = NoRegion THEN Sent(ms) /\ UNCHANGED cache
        ELSE IF relieved THEN Sent(short) /\ cache' = Use(best)
        ELSE IF seg \in ToSet(cache)
             THEN Sent(ReplaceRegion(ms, r[1], r[2], seg)) /\ cache' = Use(seg)
             ELSE view' = ms /\ region' = r /\ shaping' = "summing" /\ UNCHANGED cache

AutoCompact(ms) ==
    LET r == CompactRegion(ms)
    IN  CompactFrom(ms, r, CachedPrefixes(ms, r))

Shape == AutoCompact(SnipHistory(ClearOutput(CapResults(log))))

----------------------------------------------------------------------------

ShapeInit ==
    /\ log = Seed /\ grown = 0 /\ view = <<>> /\ shaping = "idle" /\ forced = FALSE
    /\ region = NoRegion /\ cache = <<>>

(* a step of the session adds a group: a turn, an answer, a tool exchange,  *)
(* or an exchange that a stop left without a result                         *)
AddGroup(group) ==
    /\ shaping = "idle" /\ grown < MaxGroups
    /\ log' = log \o [i \in DOMAIN group |->
                        [group[i] EXCEPT !.uid = Len(log) + i, !.of = {Len(log) + i}]]
    /\ grown' = grown + 1
    /\ UNCHANGED <<view, shaping, forced, region, cache>>

CallModel ==
    /\ shaping = "idle" /\ Shape /\ UNCHANGED <<log, grown, forced>>

(* the model's summary is cached and takes the region's place               *)
SummaryComes ==
    /\ shaping = "summing"
    /\ LET seg == SubSeq(view, region[1], region[2])
       IN  /\ Sent(ReplaceRegion(view, region[1], region[2], seg))
           /\ cache' = IF CacheSize = 0 THEN cache ELSE KeepSummary(seg)
    /\ UNCHANGED <<log, grown, forced>>

(* a summary that failed is neither used nor cached                         *)
SummaryFails ==
    /\ shaping = "summing" /\ Sent(view)
    /\ UNCHANGED <<log, grown, forced, cache>>

(* a stop of the budget, a timeout, or a chunk that is too long ends the call *)
SummaryStops ==
    /\ shaping = "summing" /\ shaping' = "stopped"
    /\ UNCHANGED <<log, grown, view, forced, region, cache>>

ModelAnswers ==
    /\ shaping = "sent" /\ shaping' = "idle" /\ forced' = FALSE /\ view' = <<>>
    /\ UNCHANGED <<log, grown, region, cache>>

(* the first rejection as too long forces a pass                            *)
Overflow ==
    /\ shaping = "sent" /\ ~forced
    /\ shaping' = "forcing" /\ forced' = TRUE /\ view' = <<>>
    /\ UNCHANGED <<log, grown, region, cache>>

ForcedPass ==
    /\ shaping = "forcing" /\ Shape /\ UNCHANGED <<log, grown, forced>>

(* the second one stops the session                                         *)
OverflowAgain ==
    /\ shaping = "sent" /\ forced /\ shaping' = "stopped"
    /\ UNCHANGED <<log, grown, view, forced, region, cache>>

ShapeNext ==
    \/ \E group \in Menu : AddGroup(group)
    \/ CallModel \/ SummaryComes \/ SummaryFails \/ SummaryStops \/ ModelAnswers
    \/ Overflow \/ ForcedPass \/ OverflowAgain

ShapeSpec == ShapeInit /\ [][ShapeNext]_shapeVars

----------------------------------------------------------------------------

Shown == {view[i].uid : i \in {j \in DOMAIN view : view[j].form # "summary"}}
Summed == UNION {view[i].of : i \in {j \in DOMAIN view : view[j].form = "summary"}}
Asks(i) == view[i].role = "call"

(* No request has a result without its call right before it or a call       *)
(* without its results, other than where the transcript itself has one.     *)
ExchangesAreWhole ==
    \A g \in 1..GroupCountOf(log) :
        LET parts == {log[i].uid : i \in Span(log, g)}
        IN  Complete(log, g) =>
              \/ parts \cap Shown = parts /\ \A i \in DOMAIN view :
                    view[i].uid = log[First(log, g)].uid /\ view[i].form # "summary" => Asks(i)
              \/ \A i \in DOMAIN view : view[i].uid \in parts /\ view[i].form # "summary" =>
                                           view[i].form = "words"

(* Every message is shown, in order and once, or covered by the summary, or *)
(* part of an old, complete exchange; the leading group, pinned messages    *)
(* and the recent groups are shown; a summary covers no shown message and   *)
(* stands for a run of messages of the transcript.                          *)
NothingVanishes ==
    /\ \A i, j \in DOMAIN view : i < j => view[i].uid < view[j].uid
    /\ Shown \cap Summed = {}
    /\ \A g \in 1..GroupCountOf(log) :
          LET parts == {log[i].uid : i \in Span(log, g)}
          IN  /\ g \notin Droppable(log) \/ Pinned(log, g) => parts \subseteq Shown
              /\ ~Complete(log, g) => parts \subseteq Shown \cup Summed
    /\ \A u \in Summed : ~log[u].pin

(* What is sent is legal for the provider, shows or accounts for every      *)
(* message that may not be dropped, and is never longer than the transcript.*)
ViewIsFaithful ==
    shaping = "sent" =>
        ExchangesAreWhole /\ NothingVanishes /\ Estimate(view) <= Estimate(log)
=============================================================================

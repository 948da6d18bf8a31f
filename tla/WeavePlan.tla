------------------------------ MODULE WeavePlan ------------------------------
(***************************************************************************)
(* How the weave workflow orders its task groups (builtin_workflows/weave,  *)
(* plan_weave_groups): a depth-first search finds the groups that depend on *)
(* one another, each such set becomes one session, and the sessions are     *)
(* lined up so that each follows the ones it depends on, the order of the   *)
(* input deciding between those that are ready.                             *)
(*                                                                          *)
(* Groups are the numbers of their places in the input.  The frames of the  *)
(* recursive visit are the sequence `frames`: a node and the dependencies   *)
(* it has still to look at, in ascending order.  A dependency names a group *)
(* or one of its targets; both resolve to the group that owns the name, and *)
(* a name of the group itself is no dependency.                             *)
(***************************************************************************)
EXTENDS Integers, Sequences, FiniteSets, FiniteSetsExt, SequencesExt

CONSTANT GroupCount     \* groups of the plan, numbered in input order

ASSUME GroupCountAssumption == GroupCount \in Nat \ {0}

VARIABLES
    edges,        \* group -> the groups it depends on
    indices,      \* group -> the order in which it was first visited, 0 = not yet
    lows,         \* group -> the lowest index its search has met
    path,         \* `stack`: the visited groups that belong to no component yet
    frames,       \* the visits under way, outermost first
    components,   \* the components in the order they were closed
    ordered       \* the numbers of the components in the order of the plan

planVars == <<edges, indices, lows, path, frames, components, ordered>>

Groups  == 1..GroupCount
Visited == {g \in Groups : indices[g] # 0}

PlanInit ==
    /\ edges \in [Groups -> SUBSET Groups] /\ \A g \in Groups : g \notin edges[g]
    /\ indices = [g \in Groups |-> 0] /\ lows = [g \in Groups |-> 0]
    /\ path = <<>> /\ frames = <<>> /\ components = <<>> /\ ordered = <<>>

----------------------------------------------------------------------------

(* visit(node): the node gets the next index and goes onto the stack        *)
Visit(g, rest) ==
    /\ indices' = [indices EXCEPT ![g] = Cardinality(Visited) + 1]
    /\ lows' = [lows EXCEPT ![g] = Cardinality(Visited) + 1]
    /\ path' = Append(path, g)
    /\ frames' = Append(rest, [node |-> g, todo |-> SetToSortSeq(edges[g], <)])
    /\ UNCHANGED <<edges, components, ordered>>

(* the outer loop starts a visit at the first group not visited yet         *)
StartVisit ==
    /\ frames = <<>> /\ Visited # Groups
    /\ Visit(Min(Groups \ Visited), <<>>)

Deepest == Last(frames)

(* a dependency that is not visited yet is visited first; the caller keeps  *)
(* it in its list until the visit is over, when it takes its low            *)
Descend ==
    /\ frames # <<>> /\ Deepest.todo # <<>> /\ indices[Head(Deepest.todo)] = 0
    /\ Visit(Head(Deepest.todo), frames)

(* what a finished look at dependency d of g does to the low of g: a visit  *)
(* that has just returned gives its low, a group still on the stack gives   *)
(* its index, and a group of a closed component gives nothing               *)
LowAfter(g, d) ==
    IF d \in ToSet(path) THEN Min({lows[g], indices[d]}) ELSE lows[g]

Look ==
    /\ frames # <<>> /\ Deepest.todo # <<>> /\ indices[Head(Deepest.todo)] # 0
    /\ lows' = [lows EXCEPT ![Deepest.node] = LowAfter(Deepest.node, Head(Deepest.todo))]
    /\ frames' = [frames EXCEPT ![Len(frames)].todo = Tail(@)]
    /\ UNCHANGED <<edges, indices, path, components, ordered>>

(* the end of a visit: a node whose low is its own index closes the         *)
(* component of everything above it on the stack; the caller takes the low  *)
EndVisit ==
    /\ frames # <<>> /\ Deepest.todo = <<>>
    /\ LET g == Deepest.node
           closes == lows[g] = indices[g]
           from == CHOOSE i \in 1..Len(path) : path[i] = g
       IN  /\ IF closes
              THEN /\ components' = Append(components,
                                           {path[i] : i \in from..Len(path)})
                   /\ path' = SubSeq(path, 1, from - 1)
              ELSE UNCHANGED <<components, path>>
           /\ IF Len(frames) = 1
              THEN lows' = lows /\ frames' = <<>>
              ELSE LET up == frames[Len(frames) - 1].node
                   IN  /\ lows' = [lows EXCEPT ![up] = Min({@, lows[g]})]
                       /\ frames' = [Front(frames) EXCEPT ![Len(frames) - 1].todo = Tail(@)]
    /\ UNCHANGED <<edges, indices, ordered>>

(* the components a component depends on                                    *)
ComponentOf(g) == CHOOSE n \in 1..Len(components) : g \in components[n]
Needs(n) == {ComponentOf(d) : d \in UNION {edges[g] : g \in components[n]}} \ {n}

(* the ready component that holds the earliest group comes next             *)
Arrange ==
    /\ frames = <<>> /\ Visited = Groups /\ Len(ordered) < Len(components)
    /\ LET unplaced == (1..Len(components)) \ ToSet(ordered)
           ready == {n \in unplaced : Needs(n) \subseteq ToSet(ordered)}
       IN  \E n \in ready :
              /\ \A o \in ready : Min(components[n]) <= Min(components[o])
              /\ ordered' = Append(ordered, n)
    /\ UNCHANGED <<edges, indices, lows, path, frames, components>>

PlanNext == StartVisit \/ Descend \/ Look \/ EndVisit \/ Arrange
PlanSpec == PlanInit /\ [][PlanNext]_planVars

----------------------------------------------------------------------------

Planned == frames = <<>> /\ Visited = Groups /\ Len(ordered) = Len(components)

(* what g reaches over dependencies, g itself included                      *)
Reaches(g) ==
    LET hop[n \in 0..GroupCount] ==
            IF n = 0 THEN {g} ELSE hop[n - 1] \cup UNION {edges[x] : x \in hop[n - 1]}
    IN  hop[GroupCount]

(* The plan runs every group in exactly one session; two groups share one   *)
(* exactly when each depends on the other, however far apart; no session    *)
(* starts before one it depends on; and a group that depends on nothing     *)
(* that comes after it in the input keeps its place before the later ones,  *)
(* so that planning a plan again changes nothing.                           *)
PlanIsSound ==
    Planned =>
        /\ \A g \in Groups : Cardinality({n \in 1..Len(components) : g \in components[n]}) = 1
        /\ \A g, h \in Groups :
              ComponentOf(g) = ComponentOf(h) <=> g \in Reaches(h) /\ h \in Reaches(g)
        /\ \A i, j \in 1..Len(ordered) :
              (\E g \in components[ordered[i]], h \in components[ordered[j]] : h \in edges[g])
                 => j <= i
        /\ \A i, j \in 1..Len(ordered) :
              LET first == Min(components[ordered[i]])
                  later == Min(components[ordered[j]])
              IN  j < i /\ first < later =>
                     \E g \in UNION {Reaches(x) : x \in components[ordered[i]]} :
                        Min(components[ComponentOf(g)]) > later \/ ComponentOf(g) = ordered[j]
=============================================================================

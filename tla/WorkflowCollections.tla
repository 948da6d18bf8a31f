------------------------- MODULE WorkflowCollections -------------------------
(***************************************************************************)
(* parallel and pipeline of a workflow script, nested in one another.       *)
(*                                                                          *)
(* A unit of a collection works under a permit for a slot of the task       *)
(* semaphore.  Without a live permit around it, a collection has a number   *)
(* of workers that take a slot for each unit.  Under one, it keeps one      *)
(* worker on the slot of that permit, which its unit borrows, and an        *)
(* allocator adds workers for the slots that happen to be free.  The first  *)
(* error stops the workers, a cancelled worker cancels the collection, and  *)
(* a cancelled collection waits for all it started.  A unit may start its   *)
(* collection in a task of its own and go on beside it, or return.          *)
(*                                                                          *)
(* Source: application/workflow_collections.py.                             *)
(***************************************************************************)
EXTENDS Integers, FiniteSets

CONSTANTS
    Unit,           \* the units of all collections, a set of numbers
    Top,            \* the script: owner of the outermost collection
    ParentUnit,     \* the unit, or Top, whose collection a unit belongs to
    Background,     \* units that do not wait for their collection
    TaskSlots,      \* task_concurrency
    MaxUpsets       \* bound: errors, and cancellations from outside

ASSUME CollectionsAssumption ==
    /\ Unit \subseteq Nat /\ IsFiniteSet(Unit) /\ Top \notin Unit /\ TaskSlots \in Nat \ {0}
    /\ ParentUnit \in [Unit -> Unit \cup {Top}]
    /\ \A u \in Unit : ParentUnit[u] # u
    /\ Background \subseteq Unit

VARIABLES
    unit,       \* state of a unit
    slotOf,     \* how it came to its slot: "own", of an "extra" worker, "borrowed",
                \*   "entered" by the task that has it, or "none"
    view,       \* the permit it works under, _active_task_concurrency_permit, which
                \*   its background tasks keep
    seat,       \* the slot of that permit, a _TaskPermitState
    use,        \* a slot: "free", "fresh" (its worker has not started), "held", or
                \*   "draining" for those who borrow it
    coll,       \* state of the collection of a unit, or of Top
    inline,     \* its worker on the slot it was started under
    toAlloc,    \* extra workers its allocator may still add
    failed,     \* collections with a recorded error
    slots,      \* value of _task_semaphore
    upsets      \* errors recorded, and cancellations from outside

collVars == <<unit, slotOf, view, seat, use, coll, inline, toAlloc, failed, slots,
              upsets>>

Node == Unit \cup {Top}
Kids(n) == {u \in Unit : ParentUnit[u] = n}
Waiting(n) == {u \in Kids(n) : unit[u] = "new"}
Live(n) == {u \in Kids(n) : unit[u] \in {"wait", "run"}}
Smaller(x, y) == IF x <= y THEN x ELSE y

(* slots and permits by the unit, or the extra worker, they are made for *)
Seat == Node \X (0..(TaskSlots - 1))
Own(u) == <<u, 0>>
Workers(n) == {n} \X (1..(TaskSlots - 1))
NoSeat == Own(Top)

(* what next_index hands out, unless an error was recorded *)
MayClaim(n, u) ==
    /\ coll[n] = "open" /\ n \notin failed
    /\ u \in Waiting(n) /\ \A v \in Waiting(n) : u <= v

Exhausted(n) == n \in failed \/ Waiting(n) = {}

(* a permit is open while the unit, or the worker, it was made for is at work *)
HasPermit(n) ==
    /\ n # Top /\ view[n] # NoSeat
    /\ IF view[n][2] = 0 THEN unit[view[n][1]] = "run" ELSE use[view[n]] = "held"

Borrows(u) == unit[u] = "run" /\ slotOf[u] = "borrowed"
Extra(u)   == unit[u] = "run" /\ slotOf[u] = "extra"

(* child_lock *)
Lent(v) == \E u \in Unit : Borrows(u) /\ view[ParentUnit[u]] = v

(* borrowers of a _TaskPermitState, at any depth *)
Borrowers(s) == {u \in Unit : Borrows(u) /\ seat[u] = s}

(* an extra worker between two units *)
Idle(s) == use[s] = "held" /\ \A u \in Unit : Extra(u) => seat[u] # s

Upset == upsets < MaxUpsets /\ upsets' = upsets + 1

ExtraCount(n) == Smaller(Cardinality(Kids(n)), TaskSlots) - 1

-----------------------------------------------------------------------------
(* mutant: a nested collection has no worker on its parent's slot *)
OpenCollectionOutside(n) ==
    /\ coll[n] = "none" /\ Kids(n) # {}
    /\ n # Top => view[n] # NoSeat /\ (unit[n] = "run" \/ n \in Background)
    /\ coll' = [coll EXCEPT ![n] = "open"]
    /\ inline' = [inline EXCEPT ![n] = IF HasPermit(n) THEN "ended" ELSE "off"]
    /\ toAlloc' = [toAlloc EXCEPT ![n] = IF HasPermit(n) THEN TaskSlots - 1 ELSE 0]
    /\ UNCHANGED <<unit, slotOf, view, seat, use, failed, slots, upsets>>

(* _bounded_collection starts: in a unit, or in a task that it left behind *)
OpenCollection(n) ==
    /\ coll[n] = "none" /\ Kids(n) # {}
    /\ n # Top => view[n] # NoSeat /\ (unit[n] = "run" \/ n \in Background)
    /\ coll' = [coll EXCEPT ![n] = "open"]
    /\ inline' = [inline EXCEPT ![n] = IF HasPermit(n) THEN "idle" ELSE "off"]
    /\ toAlloc' = [toAlloc EXCEPT ![n] = IF HasPermit(n) THEN ExtraCount(n) ELSE 0]
    /\ UNCHANGED <<unit, slotOf, view, seat, use, failed, slots, upsets>>

(* the unit starts to work *)
Starts(u, how, v, s) ==
    /\ unit' = [unit EXCEPT ![u] = "run"]
    /\ slotOf' = [slotOf EXCEPT ![u] = how]
    /\ view' = [view EXCEPT ![u] = v]
    /\ seat' = [seat EXCEPT ![u] = s]

(* a worker of a collection without a permit takes a unit, and waits *)
PlainClaim(u) ==
    LET n == ParentUnit[u]
    IN  /\ MayClaim(n, u) /\ inline[n] = "off"
        /\ Cardinality(Live(n)) < Smaller(Cardinality(Kids(n)), TaskSlots)
        /\ unit' = [unit EXCEPT ![u] = "wait"]
        /\ UNCHANGED <<slotOf, view, seat, use, coll, inline, toAlloc, failed, slots, upsets>>

(* the inline worker takes one, and borrows the slot for it, one unit at a  *)
(* time under a permit.  Alone in a collection that its unit waits for, it  *)
(* is the task that has the permit, and goes on under it                    *)
InlineClaim(u) ==
    LET n == ParentUnit[u]
        reenters == ExtraCount(n) = 0 /\ n \notin Background
    IN  /\ MayClaim(n, u) /\ inline[n] = "idle"
        /\ inline' = [inline EXCEPT ![n] = "busy"]
        /\ IF reenters THEN Starts(u, "entered", view[n], seat[n])
           ELSE IF HasPermit(n) /\ ~Lent(view[n]) THEN Starts(u, "borrowed", Own(u), seat[n])
           ELSE unit' = [unit EXCEPT ![u] = "wait"] /\ UNCHANGED <<slotOf, view, seat>>
        /\ UNCHANGED <<use, coll, toAlloc, failed, slots, upsets>>

(* it has waited for child_lock *)
BorrowSlot(u) ==
    LET n == ParentUnit[u]
    IN  /\ unit[u] = "wait" /\ inline[n] = "busy" /\ HasPermit(n) /\ ~Lent(view[n])
        /\ Starts(u, "borrowed", Own(u), seat[n])
        /\ UNCHANGED <<use, coll, inline, toAlloc, failed, slots, upsets>>

(* _task_semaphore.acquire, _run_with_acquired_task_slot: without a permit, *)
(* or when it was closed in the meantime                                    *)
TakeSlot(u) ==
    /\ unit[u] = "wait" /\ ~HasPermit(ParentUnit[u]) /\ slots > 0
    /\ Starts(u, "own", Own(u), Own(u))
    /\ use' = [use EXCEPT ![Own(u)] = "held"]
    /\ slots' = slots - 1
    /\ UNCHANGED <<coll, inline, toAlloc, failed, upsets>>

(* the inline worker returns; the allocator is cancelled *)
InlineEnds(n) ==
    /\ coll[n] = "open" /\ inline[n] = "idle" /\ Exhausted(n)
    /\ inline' = [inline EXCEPT ![n] = "ended"]
    /\ toAlloc' = [toAlloc EXCEPT ![n] = 0]
    /\ UNCHANGED <<unit, slotOf, view, seat, use, coll, failed, slots, upsets>>

(* allocate_workers: a slot is reserved for a worker that has not started *)
AllocateWorker(n) ==
    /\ coll[n] = "open" /\ toAlloc[n] > 0 /\ slots > 0
    /\ use' = [use EXCEPT ![<<n, toAlloc[n]>>] = "fresh"]
    /\ toAlloc' = [toAlloc EXCEPT ![n] = @ - 1]
    /\ slots' = slots - 1
    /\ UNCHANGED <<unit, slotOf, view, seat, coll, inline, failed, upsets>>

StartWorker(s) ==
    /\ use[s] = "fresh"
    /\ use' = [use EXCEPT ![s] = "held"]
    /\ UNCHANGED <<unit, slotOf, view, seat, coll, inline, toAlloc, failed, slots, upsets>>

(* an extra worker re-enters its own permit for every unit it takes *)
ExtraClaim(u) ==
    LET n == ParentUnit[u]
    IN  /\ MayClaim(n, u)
        /\ \E s \in Workers(n) : Idle(s) /\ Starts(u, "extra", s, s)
        /\ UNCHANGED <<use, coll, inline, toAlloc, failed, slots, upsets>>

(* mutant: a slot is released while a borrower still works on it *)
VacateAtOnce(s) == use' = [use EXCEPT ![s] = "free"] /\ slots' = slots + 1

(* the end of a permit made by _run_with_acquired_task_slot: the slot stays *)
(* with those who borrow it                                                 *)
Vacate(s) ==
    IF Borrowers(s) # {}
    THEN use' = [use EXCEPT ![s] = "draining"] /\ UNCHANGED slots
    ELSE use' = [use EXCEPT ![s] = "free"] /\ slots' = slots + 1

ExtraEnds(s) ==
    /\ s \in Workers(s[1]) /\ Idle(s) /\ Exhausted(s[1])
    /\ Vacate(s)
    /\ UNCHANGED <<unit, slotOf, view, seat, coll, inline, toAlloc, failed, upsets>>

(* _release_task_slot_after_borrowers *)
ReleaseAfterBorrowers(s) ==
    /\ use[s] = "draining" /\ Borrowers(s) = {}
    /\ use' = [use EXCEPT ![s] = "free"]
    /\ slots' = slots + 1
    /\ UNCHANGED <<unit, slotOf, view, seat, coll, inline, toAlloc, failed, upsets>>

-----------------------------------------------------------------------------
(* The end of a unit *)

(* what becomes of the inline worker when it ends its unit *)
InlineIs(u, state) ==
    inline' = [inline EXCEPT ![ParentUnit[u]] =
                  IF @ = "busy" /\ slotOf[u] # "extra" THEN state ELSE @]

(* what a unit worked under is of interest to its background tasks only *)
Forgets(u) ==
    IF u \in Background
    THEN UNCHANGED <<slotOf, view, seat>>
    ELSE /\ slotOf' = [slotOf EXCEPT ![u] = "none"]
         /\ view' = [view EXCEPT ![u] = NoSeat] /\ seat' = [seat EXCEPT ![u] = NoSeat]

(* its worker goes on; an extra worker keeps its slot *)
GiveBack(u) ==
    /\ Forgets(u) /\ InlineIs(u, "idle")
    /\ IF slotOf[u] = "own" THEN Vacate(Own(u)) ELSE UNCHANGED <<use, slots>>

(* its worker is cancelled with it *)
Abandon(u) ==
    /\ Forgets(u) /\ InlineIs(u, "ended")
    /\ IF slotOf[u] \in {"own", "extra"} THEN Vacate(seat[u]) ELSE UNCHANGED <<use, slots>>

(* the value of a unit, None for an exception, or a recorded error *)
Settles(u) ==
    /\ coll[ParentUnit[u]] = "open"
    /\ unit' = [unit EXCEPT ![u] = "done"]
    /\ \/ UNCHANGED <<failed, upsets>>
       \/ failed' = failed \cup {ParentUnit[u]} /\ Upset
    /\ UNCHANGED <<coll, toAlloc>>

(* run_unit returns *)
UnitReturns(u) ==
    /\ unit[u] = "run"
    /\ coll[u] = "closed" \/ (coll[u] = "none" /\ Kids(u) = {})
    /\ Settles(u) /\ GiveBack(u)

(* run_unit returns while a background task has its collection *)
UnitLeaves(u) ==
    /\ unit[u] = "run" /\ u \in Background
    /\ Settles(u) /\ GiveBack(u)

(* a unit's task is cancelled: on its own, or with its collection *)
CancelUnit(u) ==
    /\ unit[u] = "run"
    /\ \/ u \in Background \/ coll[u] = "closed"
       \/ coll[u] = "none" /\ (Kids(u) = {} \/ coll[ParentUnit[u]] = "closing")
    /\ unit' = [unit EXCEPT ![u] = "cancelled"]
    /\ IF coll[ParentUnit[u]] = "closing" THEN UNCHANGED upsets ELSE Upset
    /\ Abandon(u)
    /\ UNCHANGED <<coll, toAlloc, failed>>

-----------------------------------------------------------------------------
(* The end of a collection *)

(* workers cancelled outside a unit; release_unstarted gives back the slot  *)
(* of one that never ran                                                    *)
Resting(n) == {s \in Workers(n) : Idle(s)}
Freed(n)   == {s \in Workers(n) : use[s] = "fresh"} \cup {s \in Resting(n) : Borrowers(s) = {}}

(* every worker is cancelled *)
StopWorkers(n) ==
    /\ coll' = [coll EXCEPT ![n] = "closing"]
    /\ toAlloc' = [toAlloc EXCEPT ![n] = 0]
    /\ inline' = [inline EXCEPT ![n] = IF @ = "idle" THEN "ended" ELSE @]
    /\ use' = [s \in Seat |-> IF s \in Freed(n) THEN "free"
                              ELSE IF s \in Resting(n) THEN "draining" ELSE use[s]]
    /\ slots' = slots + Cardinality(Freed(n))

Unwind(n) ==
    /\ coll[n] = "open" /\ StopWorkers(n)
    /\ unit' = [u \in Unit |-> IF u \in Kids(n) /\ unit[u] = "wait" THEN "cancelled" ELSE unit[u]]
    /\ UNCHANGED <<slotOf, view, seat, failed>>

(* with one of its units, or with the unit that waits for it *)
CancelCollection(n) ==
    /\ \/ \E u \in Kids(n) : unit[u] = "cancelled"
       \/ n \in Unit \ Background /\ coll[ParentUnit[n]] = "closing"
    /\ Unwind(n) /\ UNCHANGED upsets

(* the script gives it up, or the script itself or a background task of it  *)
(* is cancelled                                                             *)
CancelByScript(n) == Unwind(n) /\ Upset

(* the collection returns or raises after the last of its workers *)
CloseCollection(n) ==
    /\ coll[n] \in {"open", "closing"} /\ Live(n) = {}
    /\ coll[n] = "open" =>
          /\ Exhausted(n) /\ inline[n] \in {"off", "ended"}
          /\ \A s \in Workers(n) : use[s] \notin {"fresh", "held"}
          /\ \A u \in Kids(n) : unit[u] # "cancelled"
    /\ coll' = [coll EXCEPT ![n] = "closed"]
    /\ UNCHANGED <<unit, slotOf, view, seat, use, inline, toAlloc, failed, slots, upsets>>

CollectionsInit ==
    /\ unit = [u \in Unit |-> "new"] /\ slotOf = [u \in Unit |-> "none"]
    /\ view = [u \in Unit |-> NoSeat] /\ seat = [u \in Unit |-> NoSeat]
    /\ use = [s \in Seat |-> "free"]
    /\ coll = [n \in Node |-> "none"] /\ inline = [n \in Node |-> "off"]
    /\ toAlloc = [n \in Node |-> 0] /\ failed = {} /\ slots = TaskSlots
    /\ upsets = 0

UnitStep(u) ==
    \/ PlainClaim(u) \/ InlineClaim(u) \/ ExtraClaim(u) \/ BorrowSlot(u) \/ TakeSlot(u)
    \/ UnitReturns(u) \/ UnitLeaves(u) \/ CancelUnit(u)

CollStep(n) ==
    \/ OpenCollection(n) \/ InlineEnds(n) \/ AllocateWorker(n) \/ CancelCollection(n)
    \/ CloseCollection(n)

SlotStep(s) == StartWorker(s) \/ ExtraEnds(s) \/ ReleaseAfterBorrowers(s)

CollectionsStep ==
    \/ \E u \in Unit : UnitStep(u)
    \/ \E n \in Node : CollStep(n)
    \/ \E s \in Seat : SlotStep(s)

CollectionsNext == CollectionsStep \/ \E n \in Node : CancelByScript(n)

(* asyncio runs every ready task; nobody has to cancel a collection *)
CollectionsFairness == WF_collVars(CollectionsStep)

CollectionsSpec == CollectionsInit /\ [][CollectionsNext]_collVars /\ CollectionsFairness

-----------------------------------------------------------------------------
(* Properties *)

(* A unit that does work of its own, not waiting for its collection.        *)
Working(u) == unit[u] = "run" /\ (u \in Background \/ coll[u] \notin {"open", "closing"})

(* Units on a slot they borrowed in the collection of a background task:    *)
(* nobody waits for them.                                                   *)
Loose == {u \in Unit : Borrows(u) /\ ParentUnit[u] \in Background}

Taken    == {s \in Seat : use[s] # "free"}
Draining == {s \in Seat : use[s] = "draining"}

(* However collections nest, borrow slots, outlive their unit or are        *)
(* cancelled, units at work outnumber task_concurrency only by the loose    *)
(* ones, and a slot kept for borrowers after its owner has ended counts as  *)
(* one of them; every slot is free or taken, also when a worker is          *)
(* cancelled before it starts; and none is given back while a unit that     *)
(* took or borrowed it still works.                                         *)
SlotsAreKept ==
    /\ Cardinality({u \in Unit : Working(u)}) + Cardinality(Draining)
          <= TaskSlots + Cardinality(Loose)
    /\ slots + Cardinality(Taken) = TaskSlots
    /\ \A u \in Unit : unit[u] = "run" /\ slotOf[u] # "entered" => use[seat[u]] # "free"

(* A collection that has returned or raised leaves no unit of its own       *)
(* running behind its caller, and a unit that waits for its collection is   *)
(* not outlived by it.                                                      *)
NoUnitOutlivesCollection ==
    /\ \A n \in Node : coll[n] = "closed" => Live(n) = {}
    /\ \A u \in Unit \ Background : coll[u] \in {"open", "closing"} => unit[u] = "run"

(* No slot is lost or used twice, and no unit outlives its collection.      *)
CollectionsAreSound == SlotsAreKept /\ NoUnitOutlivesCollection

-----------------------------------------------------------------------------
(* What the proofs need to know besides                                     *)
CollTypes ==
    /\ unit \in [Unit -> {"new", "wait", "run", "done", "cancelled"}]
    /\ slotOf \in [Unit -> {"none", "own", "extra", "borrowed", "entered"}]
    /\ view \in [Unit -> Seat] /\ seat \in [Unit -> Seat]
    /\ use \in [Seat -> {"free", "fresh", "held", "draining"}]
    /\ coll \in [Node -> {"none", "open", "closing", "closed"}]
    /\ inline \in [Node -> {"off", "idle", "busy", "ended"}]
    /\ toAlloc \in [Node -> 0..(TaskSlots - 1)] /\ slots \in Nat

(* a unit that the inline worker of its collection is at *)
Inlined(u) ==
    unit[u] \in {"wait", "run"} /\ slotOf[u] # "extra" /\ inline[ParentUnit[u]] # "off"

(* The collection of a unit at work is not over, and its parent waits for   *)
(* it or has left it to a background task; a collection has one unit at a   *)
(* time on the slot it was started under.                                   *)
UnitsHold ==
    /\ inline[Top] = "off"
    /\ \A u \in Unit :
          /\ unit[u] \in {"wait", "run"} => coll[ParentUnit[u]] \in {"open", "closing"}
          /\ unit[u] \in {"new", "wait"} => slotOf[u] = "none"
          /\ unit[u] = "run" => slotOf[u] # "none"
          /\ unit[u] = "run" /\ slotOf[u] \in {"borrowed", "entered"} => inline[ParentUnit[u]] # "off"
          /\ unit[u] = "run" /\ slotOf[u] = "entered" => ParentUnit[u] \notin Background
          /\ Inlined(u) => inline[ParentUnit[u]] = "busy"
          /\ coll[u] \in {"open", "closing"} => u \in Background \/ unit[u] = "run"
    /\ \A u, v \in Unit : Inlined(u) /\ Inlined(v) /\ ParentUnit[u] = ParentUnit[v] => u = v

(* A unit at work has the slot it took, or one that is not given back while *)
(* it borrows it, and an extra worker has one unit.                         *)
SeatsHold ==
    /\ \A u \in Unit :
          /\ unit[u] = "run" /\ slotOf[u] = "own" => seat[u] = Own(u) /\ use[seat[u]] = "held"
          /\ Extra(u) => seat[u] \in Workers(ParentUnit[u]) /\ use[seat[u]] = "held"
          /\ Borrows(u) => use[seat[u]] \in {"held", "draining"}
    /\ \A u, v \in Unit : Extra(u) /\ Extra(v) /\ seat[u] = seat[v] => u = v

(* The permit a unit works under is that of a unit that took or borrowed a  *)
(* slot, or of an extra worker, and it has that slot.                       *)
ViewsAgree ==
    \A u \in Unit : view[u] # NoSeat =>
        IF view[u][2] = 0
        THEN /\ view[u][1] \in Unit /\ unit[view[u][1]] \notin {"new", "wait"}
             /\ unit[view[u][1]] = "run" =>
                   slotOf[view[u][1]] \in {"own", "borrowed"} /\ seat[view[u][1]] = seat[u]
        ELSE seat[u] = view[u]

(* The slots that were not made yet are free, and all add up.               *)
SlotsAddUp ==
    /\ \A u \in Unit : unit[u] \in {"new", "wait"} => use[Own(u)] = "free"
    /\ \A n \in Node : \A i \in 1..(TaskSlots - 1) :
          coll[n] = "none" \/ i <= toAlloc[n] => use[<<n, i>>] = "free"
    /\ slots + Cardinality(Taken) = TaskSlots

CollectionsInv == CollTypes /\ UnitsHold /\ SeatsHold /\ ViewsAgree /\ SlotsAddUp
=============================================================================

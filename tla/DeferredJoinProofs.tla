------------------------- MODULE DeferredJoinProofs -------------------------
(***************************************************************************)
(* Theorems about DeferredJoin, for every value of its constants.           *)
(*                                                                          *)
(* The inductive invariant is TypeOK /\ JoinInv /\ SingleFlight: the driver *)
(* count of an agent follows its position (DriverCount), a child that is    *)
(* starting up has no driver and belongs to one spawn (StartupIsFresh), and *)
(* an aid that was not allocated owns nothing (UnallocatedIsFree).          *)
(*                                                                          *)
(* That a batch drains whole needs BatchIsFresh besides: a batch starts     *)
(* over an empty table and fills it from the first call to the last.        *)
(*                                                                          *)
(* That nothing dangles and no wake is lost needs WorkInv: until cleanup    *)
(* begins, position, call in hand, rows and routes of every agent agree;    *)
(* an open row of a waiting agent has exactly one route; a child at work    *)
(* has one or is on its way to it; a settlement takes along everybody       *)
(* below.  A route leads from an agent to a younger one, so the youngest    *)
(* suspended agent waits for a child that is not suspended.                 *)
(*                                                                          *)
(* That child and row agree needs AgreeInv, which WorkInv gives until       *)
(* cleanup begins and which holds through cleanup: routes still lead to     *)
(* open rows, a row names only the child on its route, and what a row says  *)
(* of a child of one turn is final (OutcomeIsFinal).                        *)
(***************************************************************************)
EXTENDS DeferredJoin, TLAPS, WellFoundedInduction

(* What EndDriver, FinalizeAll, Resume and RowsAfter assign has its type.   *)
LEMMA EndDriverTypes ==
    ASSUME TypeOK, DriverCount, NEW a \in Aid, Live(a), EndDriver(a)
    PROVE  /\ pc' \in [Aid -> Pc] /\ drivers' \in [Aid -> Nat]
           /\ creq' \in [Aid -> BOOLEAN] /\ resumeCb' \in [Aid -> BOOLEAN]
           /\ committed' \subseteq Aid
<1>1. drivers[a] = 1
  BY DEF DriverCount
<1>2. drivers' \in [Aid -> Nat]
  BY <1>1 DEF TypeOK, EndDriver
<1>3. pc' \in [Aid -> Pc]
  BY DEF TypeOK, EndDriver, Pc
<1> QED
  BY <1>2, <1>3 DEF TypeOK, EndDriver

LEMMA FinalizeTypes ==
    ASSUME TypeOK, NEW F, NEW T, FinalizeAll(F, T)
    PROVE  /\ key' \in [Aid -> Keys \cup {NoKey}]
           /\ origin' \in [Aid -> 0 .. MaxCalls]
           /\ rows' \in [Aid -> [Call -> Status]]
           /\ phase' \in [Aid -> Phase]
<1>1. origin' \in [Aid -> 0 .. MaxCalls]
  BY BoundsAssumption DEF TypeOK, FinalizeAll
<1>2. rows' \in [Aid -> [Call -> Status]]
  BY DEF TypeOK, FinalizeAll, Status
<1>3. phase' \in [Aid -> Phase]
  BY DEF TypeOK, FinalizeAll, Phase, Terminal
<1> QED
  BY <1>1, <1>2, <1>3 DEF TypeOK, FinalizeAll

LEMMA ResumeTypes ==
    ASSUME TypeOK, NEW c \in Aid, NEW p \in Aid, NEW rw, Resume(c, "drain", p, rw)
    PROVE  /\ pc' \in [Aid -> Pc] /\ drivers' \in [Aid -> Nat]
           /\ creq' \in [Aid -> BOOLEAN] /\ resumeCb' \in [Aid -> BOOLEAN]
<1>1. drivers' \in [Aid -> Nat]
  BY DEF TypeOK, Resume
<1>2. pc' \in [Aid -> Pc]
  BY DEF TypeOK, Resume, Pc
<1> QED
  BY <1>1, <1>2 DEF TypeOK, Resume

LEMMA RowsAfterTypes ==
    ASSUME TypeOK, NEW c \in Aid
    PROVE  RowsAfter(c) \in [Aid -> [Call -> Status]]
<1>1. OutcomeOf(c) \in Status
  BY DEF OutcomeOf, Status
<1>2. par[c] \in Aid /\ rows[par[c]] \in [Call -> Status]
  BY DEF TypeOK
<1>3. FailOpen(rows[par[c]]) \in [Call -> Status]
  BY <1>2 DEF FailOpen, Status
<1>4. [j \in Call |-> IF j \in RowsNaming(par[c], c) THEN OutcomeOf(c)
                      ELSE rows[par[c]][j]] \in [Call -> Status]
  BY <1>1, <1>2
<1>5. [rows EXCEPT ![par[c]][origin[c]] = OutcomeOf(c)] \in [Aid -> [Call -> Status]]
  BY <1>1, <1>2 DEF TypeOK
<1> QED
  BY <1>2, <1>3, <1>4, <1>5 DEF RowsAfter, TypeOK

(* Every action keeps the types.  DriverCount makes the count of an ending  *)
(* driver positive, StartupIsFresh makes the child of a startup an agent.   *)
LEMMA TypeStep ==
    ASSUME TypeOK, DriverCount, StartupIsFresh, [Next]_vars
    PROVE  TypeOK'
<1>0. 0 \in Aid
  BY BoundsAssumption DEF Aid
<1> USE <1>0, BoundsAssumption
<1> USE DEF Phase, Terminal, Pc, Stage, Status,
        sessionVars, driverVars, tableVars, batchVars, routeVars, cleanVars, turnVars
<1>1. CASE RestoreTurn
  BY <1>1 DEF TypeOK, RestoreTurn
<1>2. CASE RestoredCancelled
  BY <1>2 DEF TypeOK, RestoredCancelled
<1>3. CASE StartTurn
  BY <1>3 DEF TypeOK, StartTurn
<1>4. CASE RequestCancel
  BY <1>4 DEF TypeOK, RequestCancel
<1>5. CASE EndTurn
  BY <1>5 DEF TypeOK, EndTurn
<1>6. CASE StallTurn
  BY <1>6 DEF TypeOK, StallTurn
<1>7. CASE SettleBegin
  <2>1. Descendants \subseteq Aid
    BY DEF Descendants
  <2> QED
    BY <1>7, <2>1 DEF TypeOK, SettleBegin
<1>8. CASE SettleEnd
  <2>1. NoRows \in [Call -> Status] /\ NoRefs \in [Call -> Aid \cup {NoAid}]
    BY DEF NoRows, NoRefs
  <2>2. rows' \in [Aid -> [Call -> Status]] /\ ref' \in [Aid -> [Call -> Aid \cup {NoAid}]]
    BY <1>8, <2>1 DEF TypeOK, SettleEnd
  <2>3. phase' \in [Aid -> Phase] /\ origin' \in [Aid -> 0 .. MaxCalls]
        /\ key' \in [Aid -> Keys \cup {NoKey}] /\ committed' \subseteq Aid
    BY <1>8 DEF TypeOK, SettleEnd
  <2> QED
    BY <1>8, <2>2, <2>3 DEF TypeOK, SettleEnd
<1>9. CASE CleanupBegin
  <2>1. Startups \subseteq Aid
    BY DEF Startups, StartupIsFresh
  <2> QED
    BY <1>9, <2>1 DEF TypeOK, CleanupBegin, Live
<1>10. CASE CleanupEnd
  BY <1>10, FinalizeTypes DEF TypeOK, CleanupEnd
<1>11. ASSUME NEW a \in Aid, MessageTurn(a) PROVE TypeOK'
  BY <1>11 DEF TypeOK, MessageTurn
<1>12. ASSUME NEW a \in Aid, EnterGate(a) PROVE TypeOK'
  BY <1>12 DEF TypeOK, EnterGate
<1>13. ASSUME NEW a \in Aid, EnterLoop(a) PROVE TypeOK'
  BY <1>13 DEF TypeOK, EnterLoop, NoRows, NoRefs
<1>14. ASSUME NEW a \in Aid, Generate(a) PROVE TypeOK'
  <2>1. PICK end \in {"tools", "done", "stopped", "error"} :
            phase' = [phase EXCEPT ![a] = end]
    BY <1>14 DEF Generate
  <2>2. steps' \in [Aid -> 0 .. MaxSteps]
    BY <1>14 DEF TypeOK, Generate
  <2>3. /\ stage' = stage \/ stage' = [stage EXCEPT ![a] = "next"]
        /\ pc' = pc \/ pc' = [pc EXCEPT ![a] = "ret"]
    BY <1>14 DEF Generate
  <2>4. phase' \in [Aid -> Phase]
    BY <2>1 DEF TypeOK
  <2>5. stage' \in [Aid -> Stage]
    BY <2>3 DEF TypeOK, Stage
  <2>6. pc' \in [Aid -> Pc]
    BY <2>3 DEF TypeOK, Pc
  <2> QED
    BY <1>14, <2>2, <2>4, <2>5, <2>6 DEF TypeOK, Generate
<1>15. ASSUME NEW a \in Aid, IllegalTransition(a) PROVE TypeOK'
  BY <1>15 DEF TypeOK, IllegalTransition
<1>16. ASSUME NEW a \in Aid, IssueCall(a) PROVE TypeOK'
  <2>1. cur' \in [Aid -> 0 .. MaxCalls]
    BY <1>16 DEF TypeOK, IssueCall
  <2>2. rows' \in [Aid -> [Call -> Status]]
    BY <1>16 DEF TypeOK, IssueCall
  <2> QED
    BY <1>16, <2>1, <2>2 DEF TypeOK, IssueCall
<1>17. ASSUME NEW a \in Aid, RefuseSpawn(a) PROVE TypeOK'
  BY <1>17 DEF TypeOK, RefuseSpawn
<1>18. ASSUME NEW a \in Aid, RegisterChild(a) PROVE TypeOK'
  BY <1>18 DEF TypeOK, RegisterChild
<1>19. ASSUME NEW a \in Aid, StartChild(a) PROVE TypeOK'
  <2>0. kid[a] \in Aid
    BY <1>19 DEF StartChild, InBatch, Starting, StartupIsFresh
  <2>1. drivers' \in [Aid -> Nat]
    BY <1>19, <2>0 DEF TypeOK, StartChild
  <2>2. turns' \in [Aid -> 0 .. MaxTurns]
    BY <1>19, <2>0 DEF TypeOK, StartChild
  <2>3. pc' \in [Aid -> Pc]
    BY <1>19, <2>0 DEF TypeOK, StartChild
  <2> QED
    BY <1>19, <2>1, <2>2, <2>3 DEF TypeOK, StartChild
<1>20. ASSUME NEW a \in Aid, RollbackSpawn(a) PROVE TypeOK'
  <2>0. kid[a] \in Aid
    BY <1>20 DEF RollbackSpawn, StartupIsFresh
  <2>1. origin' \in [Aid -> 0 .. MaxCalls]
    BY <1>20, <2>0 DEF TypeOK, RollbackSpawn
  <2>2. phase' \in [Aid -> Phase] /\ key' \in [Aid -> Keys \cup {NoKey}]
    BY <1>20 DEF TypeOK, RollbackSpawn
  <2> QED
    BY <1>20, <2>1, <2>2 DEF TypeOK, RollbackSpawn
<1>21. ASSUME NEW a \in Aid, RecordResult(a) PROVE TypeOK'
  <2>1. kid[a] \in Aid \cup {NoAid}
    BY DEF TypeOK
  <2>2. [ref EXCEPT ![a][cur[a]] = kid[a]] \in [Aid -> [Call -> Aid \cup {NoAid}]]
    BY <2>1 DEF TypeOK
  <2>3. [rows EXCEPT ![a][cur[a]] = "failed"] \in [Aid -> [Call -> Status]]
    BY DEF TypeOK
  <2>4. /\ ref' = [ref EXCEPT ![a][cur[a]] = kid[a]] \/ ref' = ref
        /\ rows' = [rows EXCEPT ![a][cur[a]] = "failed"] \/ rows' = rows
    BY <1>21 DEF RecordResult
  <2>5. ref' \in [Aid -> [Call -> Aid \cup {NoAid}]] /\ rows' \in [Aid -> [Call -> Status]]
    BY <2>2, <2>3, <2>4 DEF TypeOK
  <2> QED
    BY <1>21, <2>5 DEF TypeOK, RecordResult
<1>22. ASSUME NEW a \in Aid, FinishBatch(a) PROVE TypeOK'
  BY <1>22 DEF TypeOK, FinishBatch, NoRows, NoRefs
<1>23. ASSUME NEW a \in Aid, BatchFails(a) PROVE TypeOK'
  BY <1>23 DEF TypeOK, BatchFails
<1>24. ASSUME NEW a \in Aid, Return(a) PROVE TypeOK'
  <2>1. Live(a)
    BY <1>24 DEF Return, At, Live
  <2>2. CASE FinalizeAll({a}, InTable) /\ EndNormally(a)
    BY <1>24, <2>1, <2>2, FinalizeTypes, EndDriverTypes DEF TypeOK, Return, EndNormally
  <2>3. CASE EndNormally(a) /\ UNCHANGED <<phase, rows, origin, key>>
    BY <1>24, <2>1, <2>3, EndDriverTypes DEF TypeOK, Return, EndNormally
  <2>4. CASE /\ key' = [key EXCEPT ![a] = NoKey]
             /\ pc' = [pc EXCEPT ![a] = "ended"]
             /\ UNCHANGED <<phase, rows, origin, drivers, creq, resumeCb, committed, owned>>
    BY <1>24, <2>4 DEF TypeOK, Return
  <2> QED
    BY <1>24, <2>2, <2>3, <2>4 DEF Return
<1>25. ASSUME NEW a \in Aid, CheckpointFails(a) PROVE TypeOK'
  BY <1>25 DEF TypeOK, CheckpointFails
<1>26. ASSUME NEW a \in Aid, DiffFails(a) PROVE TypeOK'
  BY <1>26 DEF TypeOK, DiffFails
<1>27. ASSUME NEW a \in Aid, DiscardLate(a) PROVE TypeOK'
  <2>1. Live(a)
    BY <1>27 DEF DiscardLate, At, Live
  <2> QED
    BY <1>27, <2>1, FinalizeTypes, EndDriverTypes DEF TypeOK, DiscardLate, EndNormally
<1>28. ASSUME NEW a \in Aid, Deliver(a) PROVE TypeOK'
  <2>1. par[a] \in Aid
    BY DEF TypeOK
  <2>2. CASE origin[a] = 0
    BY <1>28, <2>2 DEF TypeOK, Deliver
  <2>3. CASE origin[a] # 0
    <3>1. rows' \in [Aid -> [Call -> Status]]
      BY <1>28, <2>3, RowsAfterTypes DEF Deliver
    <3>2. origin' \in [Aid -> 0 .. MaxCalls]
      BY <1>28, <2>3 DEF TypeOK, Deliver
    <3>3. committed' \subseteq Aid /\ phase' \in [Aid -> Phase]
      BY <1>28, <2>3 DEF TypeOK, Deliver
    <3>4. Resume(a, "drain", par[a], rows')
      BY <1>28, <2>3 DEF Deliver
    <3>5. /\ pc' \in [Aid -> Pc] /\ drivers' \in [Aid -> Nat]
          /\ creq' \in [Aid -> BOOLEAN] /\ resumeCb' \in [Aid -> BOOLEAN]
      BY <2>1, <3>4, ResumeTypes
    <3> QED
      BY <1>28, <3>1, <3>2, <3>3, <3>5 DEF TypeOK, Deliver
  <2> QED
    BY <2>2, <2>3
<1>29. ASSUME NEW a \in Aid, EndDrain(a) PROVE TypeOK'
  <2>1. Live(a)
    BY <1>29 DEF EndDrain, At, Live
  <2> QED
    BY <1>29, <2>1, EndDriverTypes DEF TypeOK, EndDrain, EndNormally
<1>30. ASSUME NEW a \in Aid, Killed(a) PROVE TypeOK'
  <2>1. Live(a)
    BY <1>30 DEF Killed, Live
  <2> QED
    BY <1>30, <2>1, EndDriverTypes DEF TypeOK, Killed
<1>31. ASSUME NEW a \in Aid, Cancelled(a) PROVE TypeOK'
  <2>1. rows' \in [Aid -> [Call -> Status]]
    BY <1>31 DEF TypeOK, Cancelled
  <2>2. kid[a] \in Aid \cup {NoAid}
    BY DEF TypeOK
  <2>3. ref' \in [Aid -> [Call -> Aid \cup {NoAid}]]
    BY <1>31, <2>2 DEF TypeOK, Cancelled
  <2>4. phase' \in [Aid -> Phase]
    BY <1>31 DEF TypeOK, Cancelled
  <2>5. origin' \in [Aid -> 0 .. MaxCalls] /\ cur' \in [Aid -> 0 .. MaxCalls]
    BY <1>31 DEF TypeOK, Cancelled
  <2>6. key' \in [Aid -> Keys \cup {NoKey}]
    BY <1>31 DEF TypeOK, Cancelled
  <2> QED
    BY <1>31, <2>1, <2>3, <2>4, <2>5, <2>6 DEF TypeOK, Cancelled
<1>32. ASSUME NEW a \in Aid, Swallow(a) PROVE TypeOK'
  BY <1>32 DEF TypeOK, Swallow
<1>33. ASSUME NEW a \in Aid, NEW k \in Keys, ReserveSpawn(a, k) PROVE TypeOK'
  <2>1. nextAid \in Aid /\ nextAid' \in 1 .. MaxAid + 1
    BY <1>33 DEF TypeOK, ReserveSpawn, Aid
  <2>2. kid' \in [Aid -> Aid \cup {NoAid}] /\ par' \in [Aid -> Aid]
    BY <1>33, <2>1 DEF TypeOK, ReserveSpawn
  <2>3. origin' \in [Aid -> 0 .. MaxCalls] /\ key' \in [Aid -> Keys \cup {NoKey}]
    BY <1>33 DEF TypeOK, ReserveSpawn
  <2> QED
    BY <1>33, <2>1, <2>2, <2>3 DEF TypeOK, ReserveSpawn
<1>34. CASE UNCHANGED vars
  BY <1>34 DEF TypeOK, vars
<1> QED
  BY <1>1, <1>2, <1>3, <1>4, <1>5, <1>6, <1>7, <1>8, <1>9, <1>10, <1>11, <1>12, <1>13,
     <1>14, <1>15, <1>16, <1>17, <1>18, <1>19, <1>20, <1>21, <1>22, <1>23, <1>24, <1>25,
     <1>26, <1>27, <1>28, <1>29, <1>30, <1>31, <1>32, <1>33, <1>34
     DEF Next, TurnStep, DriverStep, Finished

(* A driver is started only where none is alive and ends only where one is. *)
LEMMA DriverCountStep ==
    ASSUME TypeOK, JoinInv, [Next]_vars
    PROVE  DriverCount'
<1>0. 0 \in Aid /\ nextAid >= 1 /\ Aid \subseteq Nat
  BY BoundsAssumption DEF Aid, TypeOK
<1> USE <1>0
<1> USE DEF JoinInv, DriverCount, Live,
        sessionVars, driverVars, tableVars, batchVars, routeVars, cleanVars, turnVars
<1>1. CASE RestoreTurn
  BY <1>1 DEF TypeOK, RestoreTurn
<1>2. CASE RestoredCancelled
  BY <1>2 DEF TypeOK, RestoredCancelled
<1>3. CASE StartTurn
  BY <1>3 DEF TypeOK, StartTurn
<1>4. CASE RequestCancel
  BY <1>4 DEF TypeOK, RequestCancel
<1>5. CASE EndTurn
  BY <1>5 DEF TypeOK, EndTurn
<1>6. CASE StallTurn
  BY <1>6 DEF TypeOK, StallTurn
<1>7. CASE SettleBegin
  BY <1>7 DEF TypeOK, SettleBegin
<1>8. CASE SettleEnd
  BY <1>8 DEF TypeOK, SettleEnd
<1>9. CASE CleanupBegin
  BY <1>9 DEF TypeOK, CleanupBegin
<1>10. CASE CleanupEnd
  BY <1>10 DEF TypeOK, CleanupEnd
<1>11. ASSUME NEW a \in Aid, MessageTurn(a) PROVE DriverCount'
  BY <1>11 DEF TypeOK, MessageTurn
<1>12. ASSUME NEW a \in Aid, EnterGate(a) PROVE DriverCount'
  BY <1>12 DEF TypeOK, EnterGate, At
<1>13. ASSUME NEW a \in Aid, EnterLoop(a) PROVE DriverCount'
  BY <1>13 DEF TypeOK, EnterLoop, At
<1>14. ASSUME NEW a \in Aid, Generate(a) PROVE DriverCount'
  BY <1>14 DEF TypeOK, Generate, At
<1>15. ASSUME NEW a \in Aid, IllegalTransition(a) PROVE DriverCount'
  BY <1>15 DEF TypeOK, IllegalTransition, At
<1>16. ASSUME NEW a \in Aid, IssueCall(a) PROVE DriverCount'
  BY <1>16 DEF TypeOK, IssueCall
<1>17. ASSUME NEW a \in Aid, RefuseSpawn(a) PROVE DriverCount'
  BY <1>17 DEF TypeOK, RefuseSpawn
<1>18. ASSUME NEW a \in Aid, RegisterChild(a) PROVE DriverCount'
  BY <1>18 DEF TypeOK, RegisterChild
<1>19. ASSUME NEW a \in Aid, StartChild(a) PROVE DriverCount'
  BY <1>19 DEF TypeOK, StartChild, StartupIsFresh, InBatch, Starting
<1>20. ASSUME NEW a \in Aid, RollbackSpawn(a) PROVE DriverCount'
  BY <1>20 DEF TypeOK, RollbackSpawn
<1>21. ASSUME NEW a \in Aid, RecordResult(a) PROVE DriverCount'
  BY <1>21 DEF TypeOK, RecordResult
<1>22. ASSUME NEW a \in Aid, FinishBatch(a) PROVE DriverCount'
  BY <1>22 DEF TypeOK, FinishBatch, InBatch, At
<1>23. ASSUME NEW a \in Aid, BatchFails(a) PROVE DriverCount'
  BY <1>23 DEF TypeOK, BatchFails, InBatch, At
<1>24. ASSUME NEW a \in Aid, Return(a) PROVE DriverCount'
  BY <1>24 DEF TypeOK, Return, At, EndNormally, EndDriver
<1>25. ASSUME NEW a \in Aid, CheckpointFails(a) PROVE DriverCount'
  BY <1>25 DEF TypeOK, CheckpointFails
<1>26. ASSUME NEW a \in Aid, DiffFails(a) PROVE DriverCount'
  BY <1>26 DEF TypeOK, DiffFails
<1>27. ASSUME NEW a \in Aid, DiscardLate(a) PROVE DriverCount'
  BY <1>27 DEF TypeOK, DiscardLate, At, EndNormally, EndDriver
<1>28. ASSUME NEW a \in Aid, Deliver(a) PROVE DriverCount'
  BY <1>28 DEF TypeOK, Deliver, At, Resume, ResumeDue
<1>29. ASSUME NEW a \in Aid, EndDrain(a) PROVE DriverCount'
  BY <1>29 DEF TypeOK, EndDrain, At, EndNormally, EndDriver
<1>30. ASSUME NEW a \in Aid, Killed(a) PROVE DriverCount'
  BY <1>30 DEF TypeOK, Killed, At, EndNormally, EndDriver
<1>31. ASSUME NEW a \in Aid, Cancelled(a) PROVE DriverCount'
  BY <1>31 DEF TypeOK, Cancelled
<1>32. ASSUME NEW a \in Aid, Swallow(a) PROVE DriverCount'
  BY <1>32 DEF TypeOK, Swallow
<1>33. ASSUME NEW a \in Aid, NEW k \in Keys, ReserveSpawn(a, k) PROVE DriverCount'
  BY <1>33 DEF TypeOK, ReserveSpawn
<1>34. CASE UNCHANGED vars
  BY <1>34 DEF vars
<1> QED
  BY <1>1, <1>2, <1>3, <1>4, <1>5, <1>6, <1>7, <1>8, <1>9, <1>10, <1>11, <1>12, <1>13,
     <1>14, <1>15, <1>16, <1>17, <1>18, <1>19, <1>20, <1>21, <1>22, <1>23, <1>24, <1>25,
     <1>26, <1>27, <1>28, <1>29, <1>30, <1>31, <1>32, <1>33, <1>34
     DEF Next, TurnStep, DriverStep, Finished

(* No action starts a driver or a turn on a child before its spawn does:    *)
(* _wake needs a suspended session, a message turn a turn already taken.    *)
LEMMA StartupStep ==
    ASSUME TypeOK, JoinInv, [Next]_vars
    PROVE  StartupIsFresh'
<1>0. 0 \in Aid /\ nextAid >= 1 /\ Aid \subseteq Nat
  BY BoundsAssumption DEF Aid, TypeOK
<1> USE <1>0
<1> USE DEF JoinInv, StartupIsFresh, Starting,
        sessionVars, driverVars, tableVars, batchVars, routeVars, cleanVars, turnVars
<1>1. CASE RestoreTurn
  BY <1>1 DEF TypeOK, RestoreTurn
<1>2. CASE RestoredCancelled
  BY <1>2 DEF TypeOK, RestoredCancelled
<1>3. CASE StartTurn
  BY <1>3 DEF TypeOK, StartTurn
<1>4. CASE RequestCancel
  BY <1>4 DEF TypeOK, RequestCancel
<1>5. CASE EndTurn
  BY <1>5 DEF TypeOK, EndTurn
<1>6. CASE StallTurn
  BY <1>6 DEF TypeOK, StallTurn
<1>7. CASE SettleBegin
  BY <1>7 DEF TypeOK, SettleBegin
<1>8. CASE SettleEnd
  BY <1>8 DEF TypeOK, SettleEnd
<1>9. CASE CleanupBegin
  BY <1>9 DEF TypeOK, CleanupBegin
<1>10. CASE CleanupEnd
  BY <1>10 DEF TypeOK, CleanupEnd, FinalizeAll, InTable
<1>11. ASSUME NEW a \in Aid, MessageTurn(a) PROVE StartupIsFresh'
  BY <1>11 DEF TypeOK, MessageTurn
<1>12. ASSUME NEW a \in Aid, EnterGate(a) PROVE StartupIsFresh'
  BY <1>12 DEF TypeOK, EnterGate, At
<1>13. ASSUME NEW a \in Aid, EnterLoop(a) PROVE StartupIsFresh'
  BY <1>13 DEF TypeOK, EnterLoop, At
<1>14. ASSUME NEW a \in Aid, Generate(a) PROVE StartupIsFresh'
  <2>1. /\ \A x \in Aid \ {a} : phase'[x] = phase[x] /\ pc'[x] = pc[x]
        /\ stage' = stage \/ stage' = [stage EXCEPT ![a] = "next"]
        /\ pc[a] = "loop" /\ UNCHANGED <<kid, turns, nextAid>>
    BY <1>14 DEF TypeOK, Generate, At
  <2>2. \A p \in Aid : Starting(p)' => Starting(p)
    BY <2>1 DEF TypeOK
  <2>3. \A p \in Aid : Starting(p)' => kid[p] # a
    BY <2>1, <2>2
  <2>4. ASSUME NEW p \in Aid, Starting(p)'
        PROVE  /\ kid'[p] \in Aid \ {0} /\ kid'[p] < nextAid'
               /\ pc'[kid'[p]] = "none" /\ turns'[kid'[p]] = 0 /\ phase'[kid'[p]] # "awaiting"
    BY <2>1, <2>2, <2>3, <2>4
  <2>5. ASSUME NEW p \in Aid, NEW q \in Aid, Starting(p)', Starting(q)', kid'[q] = kid'[p]
        PROVE  q = p
    BY <2>1, <2>2, <2>5
  <2> QED
    BY <2>4, <2>5
<1>15. ASSUME NEW a \in Aid, IllegalTransition(a) PROVE StartupIsFresh'
  BY <1>15 DEF TypeOK, IllegalTransition, At
<1>16. ASSUME NEW a \in Aid, IssueCall(a) PROVE StartupIsFresh'
  BY <1>16 DEF TypeOK, IssueCall, InBatch
<1>17. ASSUME NEW a \in Aid, RefuseSpawn(a) PROVE StartupIsFresh'
  BY <1>17 DEF TypeOK, RefuseSpawn, InBatch
<1>18. ASSUME NEW a \in Aid, RegisterChild(a) PROVE StartupIsFresh'
  BY <1>18 DEF TypeOK, RegisterChild, InBatch
<1>19. ASSUME NEW a \in Aid, StartChild(a) PROVE StartupIsFresh'
  BY <1>19 DEF TypeOK, StartChild, StartupIsFresh, InBatch
<1>20. ASSUME NEW a \in Aid, RollbackSpawn(a) PROVE StartupIsFresh'
  BY <1>20 DEF TypeOK, RollbackSpawn
<1>21. ASSUME NEW a \in Aid, RecordResult(a) PROVE StartupIsFresh'
  BY <1>21 DEF TypeOK, RecordResult
<1>22. ASSUME NEW a \in Aid, FinishBatch(a) PROVE StartupIsFresh'
  BY <1>22 DEF TypeOK, FinishBatch, InBatch, At
<1>23. ASSUME NEW a \in Aid, BatchFails(a) PROVE StartupIsFresh'
  BY <1>23 DEF TypeOK, BatchFails, InBatch, At
<1>24. ASSUME NEW a \in Aid, Return(a) PROVE StartupIsFresh'
  <2>1. /\ \A x \in Aid \ {a} : pc'[x] = pc[x]
        /\ \A x \in Aid : phase'[x] \in {phase[x], "stopped", "absent"}
        /\ pc[a] = "ret" /\ UNCHANGED <<kid, turns, nextAid, stage>>
    BY <1>24 DEF TypeOK, Return, At, EndNormally, EndDriver, FinalizeAll
  <2>2. \A p \in Aid : Starting(p)' => Starting(p)
    BY <2>1
  <2>3. \A p \in Aid : Starting(p)' => kid[p] # a
    BY <2>1, <2>2
  <2>4. ASSUME NEW p \in Aid, Starting(p)'
        PROVE  /\ kid'[p] \in Aid \ {0} /\ kid'[p] < nextAid'
               /\ pc'[kid'[p]] = "none" /\ turns'[kid'[p]] = 0 /\ phase'[kid'[p]] # "awaiting"
    BY <2>1, <2>2, <2>3, <2>4
  <2>5. ASSUME NEW p \in Aid, NEW q \in Aid, Starting(p)', Starting(q)', kid'[q] = kid'[p]
        PROVE  q = p
    BY <2>1, <2>2, <2>5
  <2> QED
    BY <2>4, <2>5
<1>25. ASSUME NEW a \in Aid, CheckpointFails(a) PROVE StartupIsFresh'
  BY <1>25 DEF TypeOK, CheckpointFails
<1>26. ASSUME NEW a \in Aid, DiffFails(a) PROVE StartupIsFresh'
  BY <1>26 DEF TypeOK, DiffFails
<1>27. ASSUME NEW a \in Aid, DiscardLate(a) PROVE StartupIsFresh'
  BY <1>27 DEF TypeOK, DiscardLate, At, EndNormally, EndDriver, FinalizeAll, InTable
<1>28. ASSUME NEW a \in Aid, Deliver(a) PROVE StartupIsFresh'
  <2>1. \A x \in Aid : pc[x] = "none" /\ phase[x] # "awaiting" => pc'[x] = "none"
    BY <1>28 DEF TypeOK, Deliver, At, Resume, ResumeDue
  <2>2. \A x \in Aid : phase'[x] \in {phase[x], "stopped"}
    BY <1>28 DEF TypeOK, Deliver
  <2>3. UNCHANGED <<kid, turns, nextAid, stage>>
    BY <1>28 DEF Deliver
  <2> QED
    BY <2>1, <2>2, <2>3 DEF TypeOK
<1>29. ASSUME NEW a \in Aid, EndDrain(a) PROVE StartupIsFresh'
  BY <1>29 DEF TypeOK, EndDrain, At, EndNormally, EndDriver
<1>30. ASSUME NEW a \in Aid, Killed(a) PROVE StartupIsFresh'
  BY <1>30 DEF TypeOK, Killed, At, EndNormally, EndDriver
<1>31. ASSUME NEW a \in Aid, Cancelled(a) PROVE StartupIsFresh'
  BY <1>31 DEF TypeOK, Cancelled
<1>32. ASSUME NEW a \in Aid, Swallow(a) PROVE StartupIsFresh'
  BY <1>32 DEF TypeOK, Swallow
<1>33. ASSUME NEW a \in Aid, NEW k \in Keys, ReserveSpawn(a, k) PROVE StartupIsFresh'
  <2>1. /\ nextAid \in Aid \ {0} /\ nextAid' = nextAid + 1
        /\ kid' = [kid EXCEPT ![a] = nextAid] /\ stage' = [stage EXCEPT ![a] = "env"]
        /\ UNCHANGED <<pc, turns, phase>>
    BY <1>33 DEF TypeOK, ReserveSpawn, Aid
  <2>2. pc[nextAid] = "none" /\ turns[nextAid] = 0 /\ phase[nextAid] = "absent"
    BY <2>1 DEF UnallocatedIsFree
  <2>3. kid'[a] = nextAid /\ \A p \in Aid \ {a} : kid'[p] = kid[p] /\ stage'[p] = stage[p]
    BY <2>1 DEF TypeOK
  <2>4. \A p \in Aid \ {a} : Starting(p)' => kid'[p] \in Aid \ {0} /\ kid'[p] < nextAid
    BY <2>3
  <2>5. \A p \in Aid : Starting(p)' =>
            /\ kid'[p] \in Aid \ {0} /\ kid'[p] < nextAid'
            /\ pc'[kid'[p]] = "none" /\ turns'[kid'[p]] = 0 /\ phase'[kid'[p]] # "awaiting"
    <3>1. kid'[a] < nextAid'
      BY <2>1, <2>3 DEF TypeOK
    <3>2. \A p \in Aid \ {a} : Starting(p)' => kid'[p] < nextAid'
      <4> SUFFICES ASSUME NEW p \in Aid \ {a}, Starting(p)' PROVE kid'[p] < nextAid'
        OBVIOUS
      <4>1. kid'[p] \in Nat /\ kid'[p] < nextAid
        BY <2>4
      <4>2. nextAid' = nextAid + 1 /\ nextAid \in Nat
        BY <2>1
      <4> QED
        BY <4>1, <4>2
    <3> QED
      BY <2>1, <2>2, <2>3, <2>4, <3>1, <3>2
  <2>6. \A p, q \in Aid : Starting(p)' /\ Starting(q)' /\ kid'[q] = kid'[p] => q = p
    <3>1. \A p, q \in Aid \ {a} : Starting(p)' /\ Starting(q)' /\ kid'[q] = kid'[p] => q = p
      BY <2>3
    <3>2. \A p \in Aid \ {a} : Starting(p)' => kid'[p] # kid'[a]
      BY <2>1, <2>3, <2>4 DEF TypeOK
    <3> QED
      BY <3>1, <3>2
  <2> QED
    BY <2>5, <2>6
<1>34. CASE UNCHANGED vars
  BY <1>34 DEF vars
<1> QED
  BY <1>1, <1>2, <1>3, <1>4, <1>5, <1>6, <1>7, <1>8, <1>9, <1>10, <1>11, <1>12, <1>13,
     <1>14, <1>15, <1>16, <1>17, <1>18, <1>19, <1>20, <1>21, <1>22, <1>23, <1>24, <1>25,
     <1>26, <1>27, <1>28, <1>29, <1>30, <1>31, <1>32, <1>33, <1>34
     DEF Next, TurnStep, DriverStep, Finished

(* Only ReserveSpawn touches an unallocated aid, and it allocates it.       *)
LEMMA UnallocatedStep ==
    ASSUME TypeOK, JoinInv, [Next]_vars
    PROVE  UnallocatedIsFree'
<1>0. 0 \in Aid /\ nextAid >= 1 /\ Aid \subseteq Nat
  BY BoundsAssumption DEF Aid, TypeOK
<1> USE <1>0
<1> USE DEF JoinInv, UnallocatedIsFree,
        sessionVars, driverVars, tableVars, batchVars, routeVars, cleanVars, turnVars
<1>1. CASE RestoreTurn
  BY <1>1 DEF TypeOK, RestoreTurn
<1>2. CASE RestoredCancelled
  BY <1>2 DEF TypeOK, RestoredCancelled
<1>3. CASE StartTurn
  BY <1>3 DEF TypeOK, StartTurn
<1>4. CASE RequestCancel
  BY <1>4 DEF TypeOK, RequestCancel
<1>5. CASE EndTurn
  BY <1>5 DEF TypeOK, EndTurn
<1>6. CASE StallTurn
  BY <1>6 DEF TypeOK, StallTurn
<1>7. CASE SettleBegin
  BY <1>7 DEF TypeOK, SettleBegin
<1>8. CASE SettleEnd
  BY <1>8 DEF TypeOK, SettleEnd
<1>9. CASE CleanupBegin
  BY <1>9 DEF TypeOK, CleanupBegin
<1>10. CASE CleanupEnd
  BY <1>10 DEF TypeOK, CleanupEnd, FinalizeAll, InTable
<1>11. ASSUME NEW a \in Aid, MessageTurn(a) PROVE UnallocatedIsFree'
  BY <1>11 DEF TypeOK, MessageTurn
<1>12. ASSUME NEW a \in Aid, EnterGate(a) PROVE UnallocatedIsFree'
  BY <1>12 DEF TypeOK, EnterGate, At
<1>13. ASSUME NEW a \in Aid, EnterLoop(a) PROVE UnallocatedIsFree'
  BY <1>13 DEF TypeOK, EnterLoop, At
<1>14. ASSUME NEW a \in Aid, Generate(a) PROVE UnallocatedIsFree'
  BY <1>14 DEF TypeOK, Generate, At
<1>15. ASSUME NEW a \in Aid, IllegalTransition(a) PROVE UnallocatedIsFree'
  BY <1>15 DEF TypeOK, IllegalTransition, At
<1>16. ASSUME NEW a \in Aid, IssueCall(a) PROVE UnallocatedIsFree'
  BY <1>16 DEF TypeOK, IssueCall
<1>17. ASSUME NEW a \in Aid, RefuseSpawn(a) PROVE UnallocatedIsFree'
  BY <1>17 DEF TypeOK, RefuseSpawn
<1>18. ASSUME NEW a \in Aid, RegisterChild(a) PROVE UnallocatedIsFree'
  BY <1>18 DEF TypeOK, RegisterChild, StartupIsFresh, InBatch, Starting
<1>19. ASSUME NEW a \in Aid, StartChild(a) PROVE UnallocatedIsFree'
  BY <1>19 DEF TypeOK, StartChild, StartupIsFresh, InBatch, Starting
<1>20. ASSUME NEW a \in Aid, RollbackSpawn(a) PROVE UnallocatedIsFree'
  BY <1>20 DEF TypeOK, RollbackSpawn, StartupIsFresh
<1>21. ASSUME NEW a \in Aid, RecordResult(a) PROVE UnallocatedIsFree'
  BY <1>21 DEF TypeOK, RecordResult
<1>22. ASSUME NEW a \in Aid, FinishBatch(a) PROVE UnallocatedIsFree'
  BY <1>22 DEF TypeOK, FinishBatch, InBatch, At
<1>23. ASSUME NEW a \in Aid, BatchFails(a) PROVE UnallocatedIsFree'
  BY <1>23 DEF TypeOK, BatchFails, InBatch, At
<1>24. ASSUME NEW a \in Aid, Return(a) PROVE UnallocatedIsFree'
  BY <1>24 DEF TypeOK, Return, At, EndNormally, EndDriver, FinalizeAll, InTable
<1>25. ASSUME NEW a \in Aid, CheckpointFails(a) PROVE UnallocatedIsFree'
  BY <1>25 DEF TypeOK, CheckpointFails, At
<1>26. ASSUME NEW a \in Aid, DiffFails(a) PROVE UnallocatedIsFree'
  BY <1>26 DEF TypeOK, DiffFails
<1>27. ASSUME NEW a \in Aid, DiscardLate(a) PROVE UnallocatedIsFree'
  BY <1>27 DEF TypeOK, DiscardLate, At, EndNormally, EndDriver, FinalizeAll, InTable
<1>28. ASSUME NEW a \in Aid, Deliver(a) PROVE UnallocatedIsFree'
  BY <1>28 DEF TypeOK, Deliver, At, Resume, ResumeDue
<1>29. ASSUME NEW a \in Aid, EndDrain(a) PROVE UnallocatedIsFree'
  BY <1>29 DEF TypeOK, EndDrain, At, EndNormally, EndDriver
<1>30. ASSUME NEW a \in Aid, Killed(a) PROVE UnallocatedIsFree'
  BY <1>30 DEF TypeOK, Killed, At, EndNormally, EndDriver
<1>31. ASSUME NEW a \in Aid, Cancelled(a) PROVE UnallocatedIsFree'
  BY <1>31 DEF TypeOK, Cancelled, StartupIsFresh
<1>32. ASSUME NEW a \in Aid, Swallow(a) PROVE UnallocatedIsFree'
  BY <1>32 DEF TypeOK, Swallow
<1>33. ASSUME NEW a \in Aid, NEW k \in Keys, ReserveSpawn(a, k) PROVE UnallocatedIsFree'
  BY <1>33 DEF TypeOK, ReserveSpawn
<1>34. CASE UNCHANGED vars
  BY <1>34 DEF vars
<1> QED
  BY <1>1, <1>2, <1>3, <1>4, <1>5, <1>6, <1>7, <1>8, <1>9, <1>10, <1>11, <1>12, <1>13,
     <1>14, <1>15, <1>16, <1>17, <1>18, <1>19, <1>20, <1>21, <1>22, <1>23, <1>24, <1>25,
     <1>26, <1>27, <1>28, <1>29, <1>30, <1>31, <1>32, <1>33, <1>34
     DEF Next, TurnStep, DriverStep, Finished

(* Only a spawn puts an identity in flight, and it looks for the same       *)
(* identity under the same parent first (scheduler_dedup.reserve).          *)
LEMMA SingleFlightStep ==
    ASSUME TypeOK, SingleFlight, [Next]_vars
    PROVE  SingleFlight'
<1> DEFINE Released == /\ par' = par
                       /\ \A x \in Aid : key'[x] \in {key[x], NoKey}
<1>1. CASE Released
  BY <1>1 DEF SingleFlight
<1>2. ASSUME NEW a \in Aid, NEW k \in Keys, ReserveSpawn(a, k) PROVE SingleFlight'
  <2>1. nextAid \in Aid /\ k # NoKey
    BY <1>2, KeysAssumption, BoundsAssumption DEF TypeOK, ReserveSpawn, Aid
  <2>2. /\ par' = [par EXCEPT ![nextAid] = a] /\ key' = [key EXCEPT ![nextAid] = k]
        /\ \A c \in Aid : par[c] = a => key[c] # k
    BY <1>2 DEF ReserveSpawn, InFlight
  <2> QED
    BY <2>1, <2>2 DEF TypeOK, SingleFlight
<1>3. SettleEnd => Released
  BY DEF SettleEnd, TypeOK
<1>4. CleanupEnd => Released
  BY DEF CleanupEnd, FinalizeAll, TypeOK
<1>5. ASSUME NEW a \in Aid PROVE Return(a) \/ DiscardLate(a) => Released
  BY DEF Return, DiscardLate, FinalizeAll, TypeOK
<1>6. ASSUME NEW a \in Aid PROVE RollbackSpawn(a) => Released
  BY DEF RollbackSpawn, TypeOK
<1>7. ASSUME NEW a \in Aid PROVE Cancelled(a) => Released
  BY DEF Cancelled, TypeOK
<1>8. UNCHANGED <<par, key>> => Released
  OBVIOUS
<1>9. \/ RestoreTurn \/ RestoredCancelled \/ StartTurn \/ RequestCancel \/ EndTurn
      \/ StallTurn \/ SettleBegin \/ CleanupBegin \/ UNCHANGED vars
      => UNCHANGED <<par, key>>
  BY DEF RestoreTurn, RestoredCancelled, StartTurn, RequestCancel, EndTurn, StallTurn,
         SettleBegin, CleanupBegin, routeVars, vars
<1>10. ASSUME NEW a \in Aid
       PROVE  \/ MessageTurn(a) \/ EnterGate(a) \/ EnterLoop(a) \/ Generate(a)
              \/ IllegalTransition(a) \/ IssueCall(a) \/ RefuseSpawn(a) \/ RegisterChild(a)
              \/ StartChild(a) \/ RecordResult(a) \/ FinishBatch(a) \/ BatchFails(a)
              \/ CheckpointFails(a) \/ DiffFails(a) \/ Deliver(a) \/ EndDrain(a)
              \/ Killed(a) \/ Swallow(a)
              => UNCHANGED <<par, key>>
  BY DEF MessageTurn, EnterGate, EnterLoop, Generate, IllegalTransition, IssueCall,
         RefuseSpawn, RegisterChild, StartChild, RecordResult, FinishBatch, BatchFails,
         CheckpointFails, DiffFails, Deliver, EndDrain, Killed, Swallow, routeVars
<1> QED
  BY <1>1, <1>2, <1>3, <1>4, <1>5, <1>6, <1>7, <1>8, <1>9, <1>10
     DEF Next, TurnStep, DriverStep, Finished

LEMMA InitInv == Init => TypeOK /\ JoinInv /\ SingleFlight
<1> SUFFICES ASSUME Init PROVE TypeOK /\ JoinInv /\ SingleFlight
  OBVIOUS
<1>1. 0 \in Aid /\ 0 \in 0 .. MaxCalls /\ 0 \in 0 .. MaxSteps /\ 0 \in 0 .. MaxTurns
      /\ 1 \in 1 .. MaxAid + 1
  BY BoundsAssumption DEF Aid
<1>2. NoRows \in [Call -> Status] /\ NoRefs \in [Call -> Aid \cup {NoAid}]
      /\ [NoRows EXCEPT ![1] = "failed"] \in [Call -> Status]
  BY DEF NoRows, NoRefs, Status
<1>3. phase \in [Aid -> Phase] /\ rows \in [Aid -> [Call -> Status]]
  BY <1>1, <1>2 DEF Init, Phase, Terminal
<1>4. TypeOK
  BY <1>1, <1>2, <1>3 DEF Init, TypeOK, Pc, Stage
<1>5. DriverCount /\ StartupIsFresh
  BY DEF Init, DriverCount, Live, StartupIsFresh, Starting
<1>6. UnallocatedIsFree
  <2>1. \A a \in Aid : a >= nextAid => a # 0
    BY DEF Init, Aid
  <2> QED
    BY <2>1 DEF Init, UnallocatedIsFree
<1>7. SingleFlight
  BY DEF Init, SingleFlight
<1> QED
  BY <1>4, <1>5, <1>6, <1>7 DEF JoinInv

(* The invariant the theorems below rest on.  TypeOK is not inductive by    *)
(* itself: that a driver count stays a natural number needs DriverCount,    *)
(* and that a started child is an agent needs StartupIsFresh.               *)
LEMMA Invariance == Spec => [](TypeOK /\ JoinInv /\ SingleFlight)
<1>1. TypeOK /\ JoinInv /\ SingleFlight /\ [Next]_vars
      => (TypeOK /\ JoinInv /\ SingleFlight)'
  BY TypeStep, DriverCountStep, StartupStep, UnallocatedStep, SingleFlightStep DEF JoinInv
<1> QED
  BY <1>1, InitInv, PTL DEF Spec

(* Every reachable state is well typed, for every number of agents, calls,  *)
(* steps, turns and identities: in particular no generation passes          *)
(* max_steps, no session accepts more turns than the bound and no aid       *)
(* outside the table is used by spawn.                                      *)
THEOREM TypeCorrect == Spec => []TypeOK
BY Invariance, PTL

(* _wake, _resume_after_parent_task, run_turn, the message drain and spawn  *)
(* never have two driver tasks of one agent alive at a time, whatever the   *)
(* interleaving of completions, cancellations, settlement and cleanup.      *)
THEOREM OneDriverAtATime == Spec => []OneDriver
<1>1. JoinInv => OneDriver
  BY DEF JoinInv, DriverCount, OneDriver
<1> QED
  BY <1>1, Invariance, PTL

(* scheduler_dedup admits a delegated-work identity once per parent at a    *)
(* time, through rollback, cancellation, settlement and cleanup.            *)
THEOREM DedupSingleFlight == Spec => []SingleFlight
BY Invariance, PTL

(* What a step does to the rows: it answers open calls, opens the next call *)
(* of a batch, drains a complete table, or closes a settled subtree.        *)
OnlyFills ==
    \A p \in Aid, k \in Call :
        rows'[p][k] = rows[p][k] \/ (rows[p][k] = "pending" /\ rows'[p][k] \in {"done", "failed"})

Drains(a) == IsComplete(rows[a]) /\ rows' = [rows EXCEPT ![a] = NoRows]

LEMMA FinalizeFills ==
    ASSUME TypeOK, NEW F, NEW T, FinalizeAll(F, T)
    PROVE  OnlyFills
BY DEF TypeOK, FinalizeAll, OnlyFills

LEMMA DeliverFills ==
    ASSUME TypeOK, NEW c \in Aid, Deliver(c)
    PROVE  OnlyFills
<1>1. CASE origin[c] = 0
  BY <1>1 DEF Deliver, OnlyFills
<1>2. CASE origin[c] # 0
  <2>1. rows' = RowsAfter(c) /\ par[c] \in Aid /\ origin[c] \in Call
    BY <1>2, BoundsAssumption DEF Deliver, TypeOK, Call
  <2>2. OutcomeOf(c) \in {"done", "failed"}
    BY DEF OutcomeOf
  <2>3. CASE rows[par[c]][origin[c]] = "pending"
    BY <2>1, <2>2, <2>3 DEF RowsAfter, OnlyFills, TypeOK
  <2>4. CASE rows[par[c]][origin[c]] # "pending" /\ Cardinality(RowsNaming(par[c], c)) = 1
    BY <2>1, <2>2, <2>4 DEF RowsAfter, RowsNaming, OnlyFills, TypeOK
  <2>5. CASE rows[par[c]][origin[c]] # "pending" /\ Cardinality(RowsNaming(par[c], c)) # 1
    <3>1. rows' = [rows EXCEPT ![par[c]] = FailOpen(rows[par[c]])]
      BY <2>1, <2>5 DEF RowsAfter
    <3> QED
      BY <2>1, <3>1 DEF FailOpen, OnlyFills, TypeOK
  <2> QED
    BY <2>3, <2>4, <2>5
<1> QED
  BY <1>1, <1>2

LEMMA RowsStep ==
    ASSUME TypeOK, BatchIsFresh, [Next]_vars
    PROVE  \/ OnlyFills \/ SettleEnd
           \/ \E a \in Aid : IssueCall(a) \/ Drains(a)
<1> USE DEF sessionVars, driverVars, tableVars, batchVars, routeVars, cleanVars, turnVars
<1>1. rows' = rows => OnlyFills
  BY DEF OnlyFills
<1>2. RestoreTurn \/ RestoredCancelled \/ StartTurn \/ RequestCancel
      \/ EndTurn \/ StallTurn \/ SettleBegin \/ CleanupBegin
      \/ UNCHANGED vars => rows' = rows
  BY DEF RestoreTurn, RestoredCancelled, StartTurn, RequestCancel, EndTurn, StallTurn,
         SettleBegin, CleanupBegin, vars
<1>3. ASSUME NEW a \in Aid
      PROVE MessageTurn(a) \/ EnterGate(a) \/ Generate(a) \/ IllegalTransition(a) \/
            RefuseSpawn(a) \/ RegisterChild(a) \/ StartChild(a) \/ RollbackSpawn(a) \/
            BatchFails(a) \/ CheckpointFails(a) \/ DiffFails(a) \/ EndDrain(a) \/ Killed(a)
            \/ Swallow(a)
            => rows' = rows
  BY DEF MessageTurn, EnterGate, Generate, IllegalTransition, RefuseSpawn, RegisterChild,
         StartChild, RollbackSpawn, BatchFails, CheckpointFails, DiffFails, EndDrain,
         Killed, Swallow
<1>4. CleanupEnd => OnlyFills
  BY FinalizeFills DEF CleanupEnd
<1>5. ASSUME NEW a \in Aid PROVE Return(a) \/ DiscardLate(a) => OnlyFills
  BY FinalizeFills, <1>1 DEF Return, DiscardLate
<1>6. ASSUME NEW a \in Aid PROVE Deliver(a) => OnlyFills
  BY DeliverFills
<1>7. ASSUME NEW a \in Aid PROVE EnterLoop(a) \/ FinishBatch(a) => Drains(a) \/ OnlyFills
  BY <1>1 DEF EnterLoop, FinishBatch, Drains
<1>8. ASSUME NEW a \in Aid PROVE RecordResult(a) => OnlyFills
  <2> SUFFICES ASSUME RecordResult(a) PROVE OnlyFills
    OBVIOUS
  <2>1. \/ rows' = rows
        \/ rows[a][cur[a]] = "pending" /\ rows' = [rows EXCEPT ![a][cur[a]] = "failed"]
    BY DEF RecordResult
  <2>2. rows' = [rows EXCEPT ![a][cur[a]] = "failed"] => \A p \in Aid, k \in Call :
            rows'[p][k] = IF p = a /\ k = cur[a] THEN "failed" ELSE rows[p][k]
    BY DEF TypeOK
  <2> QED
    BY <1>1, <2>1, <2>2 DEF OnlyFills
<1>9. ASSUME NEW a \in Aid PROVE Cancelled(a) => OnlyFills
  BY <1>1 DEF Cancelled, OnlyFills, TypeOK
<1>10. ASSUME NEW a \in Aid, NEW k \in Keys PROVE ReserveSpawn(a, k) => rows' = rows
  BY DEF ReserveSpawn
<1> QED
  BY <1>1, <1>2, <1>3, <1>4, <1>5, <1>6, <1>7, <1>8, <1>9, <1>10
     DEF Next, TurnStep, DriverStep, Finished

(* A batch stays fresh: only IssueCall opens a row, in the call order, and  *)
(* a loop generates again only on a drained table.                          *)
LEMMA FreshStep ==
    ASSUME TypeOK, JoinInv, BatchIsFresh, [Next]_vars
    PROVE  BatchIsFresh'
<1>0. 0 \in Aid /\ Aid \subseteq Nat /\ Call \subseteq Nat
  BY BoundsAssumption DEF Aid, Call
<1> USE <1>0
<1> USE DEF sessionVars, driverVars, tableVars, batchVars, routeVars, cleanVars, turnVars
<1> DEFINE Quiet == /\ OnlyFills /\ cur' = cur
                    /\ \A x \in Aid : /\ stage'[x] = "model" <=> stage[x] = "model"
                                      /\ stage[x] # "model" => pc'[x] = pc[x]
                                      /\ pc'[x] = "loop" => pc[x] = "loop"
                                      /\ phase'[x] = "running" => phase[x] = "running"
<1>Q. ASSUME Quiet PROVE BatchIsFresh'
  <2>1. \A x \in Aid, k \in Call : rows[x][k] = "empty" => rows'[x][k] = "empty"
    BY <1>Q DEF OnlyFills
  <2> SUFFICES ASSUME NEW x \in Aid
               PROVE  /\ pc'[x] = "loop" /\ stage'[x] = "model" /\ phase'[x] = "running"
                         => IsEmpty(rows'[x])
                      /\ stage'[x] # "model" =>
                            /\ pc'[x] = "loop" /\ phase'[x] # "running"
                            /\ \A k \in Call : k > cur'[x] => rows'[x][k] = "empty"
                      /\ stage'[x] = "model" => cur'[x] = 0
    BY DEF BatchIsFresh, IsEmpty
  <2>2. cur'[x] = cur[x] /\ (stage'[x] = "model" <=> stage[x] = "model")
    BY <1>Q
  <2>3. CASE stage[x] = "model"
    BY <1>Q, <2>1, <2>2, <2>3 DEF BatchIsFresh, IsEmpty
  <2>4. CASE stage[x] # "model"
    <3>1. pc'[x] = "loop" /\ phase'[x] # "running"
      BY <1>Q, <2>4 DEF BatchIsFresh
    <3>2. \A k \in Call : k > cur'[x] => rows'[x][k] = "empty"
      BY <2>1, <2>2, <2>4 DEF BatchIsFresh
    <3> QED
      BY <2>2, <2>4, <3>1, <3>2
  <2> QED
    BY <2>3, <2>4
<1> HIDE DEF Quiet
<1>1. CASE RestoreTurn
  <2>1. Quiet
    BY <1>1 DEF TypeOK, RestoreTurn, Live, BatchIsFresh, Quiet, OnlyFills
  <2> QED
    BY <1>Q, <2>1
<1>2. CASE RestoredCancelled
  <2>1. Quiet
    BY <1>2 DEF TypeOK, RestoredCancelled, Quiet, OnlyFills
  <2> QED
    BY <1>Q, <2>1
<1>3. CASE StartTurn
  <2>1. Quiet
    BY <1>3 DEF TypeOK, StartTurn, Live, BatchIsFresh, Quiet, OnlyFills
  <2> QED
    BY <1>Q, <2>1
<1>4. CASE RequestCancel
  <2>1. Quiet
    BY <1>4 DEF TypeOK, RequestCancel, Quiet, OnlyFills
  <2> QED
    BY <1>Q, <2>1
<1>5. CASE EndTurn
  <2>1. Quiet
    BY <1>5 DEF TypeOK, EndTurn, Quiet, OnlyFills
  <2> QED
    BY <1>Q, <2>1
<1>6. CASE StallTurn
  <2>1. Quiet
    BY <1>6 DEF TypeOK, StallTurn, Quiet, OnlyFills
  <2> QED
    BY <1>Q, <2>1
<1>7. CASE SettleBegin
  <2>1. Quiet
    BY <1>7 DEF TypeOK, SettleBegin, Quiet, OnlyFills
  <2> QED
    BY <1>Q, <2>1
<1>8. CASE SettleEnd
  BY <1>8 DEF TypeOK, SettleEnd, BatchIsFresh, IsEmpty, NoRows
<1>9. CASE CleanupBegin
  <2>1. Quiet
    BY <1>9 DEF TypeOK, CleanupBegin, Quiet, OnlyFills
  <2> QED
    BY <1>Q, <2>1
<1>10. CASE CleanupEnd
  <2>1. Quiet
    <3>1. OnlyFills
      BY <1>10, FinalizeFills DEF CleanupEnd
    <3>2. \A x \in Aid : phase'[x] = "running" => phase[x] = "running"
      BY <1>10 DEF CleanupEnd, FinalizeAll
    <3> QED
      BY <1>10, <3>1, <3>2 DEF CleanupEnd, Quiet
  <2> QED
    BY <1>Q, <2>1
<1>11. ASSUME NEW a \in Aid, MessageTurn(a) PROVE BatchIsFresh'
  <2>1. Quiet
    BY <1>11 DEF TypeOK, MessageTurn, InBatch, At, Live, BatchIsFresh, Quiet, OnlyFills
  <2> QED
    BY <1>Q, <2>1
<1>12. ASSUME NEW a \in Aid, EnterGate(a) PROVE BatchIsFresh'
  <2>1. Quiet
    BY <1>12 DEF TypeOK, EnterGate, InBatch, At, Live, BatchIsFresh, Quiet, OnlyFills
  <2> QED
    BY <1>Q, <2>1
<1>13. ASSUME NEW a \in Aid, EnterLoop(a) PROVE BatchIsFresh'
  BY <1>13 DEF TypeOK, EnterLoop, InBatch, At, BatchIsFresh, IsEmpty, NoRows
<1>14. ASSUME NEW a \in Aid, Generate(a) PROVE BatchIsFresh'
  <2>1. /\ pc[a] = "loop" /\ phase[a] = "running" /\ rows' = rows /\ cur' = cur
        /\ \A x \in Aid \ {a} : phase'[x] = phase[x] /\ pc'[x] = pc[x] /\ stage'[x] = stage[x]
    BY <1>14 DEF TypeOK, Generate, At
  <2>2. \/ stage' = stage /\ pc'[a] = "ret"
        \/ stage'[a] = "next" /\ pc' = pc /\ phase'[a] = "tools"
    BY <1>14 DEF TypeOK, Generate
  <2>3. stage[a] = "model" /\ cur[a] = 0 /\ IsEmpty(rows[a])
    BY <2>1 DEF BatchIsFresh
  <2>4. \A k \in Call : rows'[a][k] = "empty"
    BY <2>1, <2>3 DEF IsEmpty
  <2>5. /\ pc'[a] = "loop" /\ stage'[a] = "model" => phase'[a] # "running"
        /\ stage'[a] # "model" => pc'[a] = "loop" /\ phase'[a] # "running"
        /\ stage'[a] = "model" => cur'[a] = 0
    BY <2>1, <2>2, <2>3
  <2>6. ASSUME NEW x \in Aid, x # a
        PROVE  /\ pc'[x] = "loop" /\ stage'[x] = "model" /\ phase'[x] = "running"
                     => IsEmpty(rows'[x])
               /\ stage'[x] # "model" =>
                     /\ pc'[x] = "loop" /\ phase'[x] # "running"
                     /\ \A k \in Call : k > cur'[x] => rows'[x][k] = "empty"
               /\ stage'[x] = "model" => cur'[x] = 0
    <3>1. /\ phase'[x] = phase[x] /\ pc'[x] = pc[x] /\ stage'[x] = stage[x]
          /\ rows'[x] = rows[x] /\ cur'[x] = cur[x]
      BY <2>1, <2>6
    <3>2. /\ pc[x] = "loop" /\ stage[x] = "model" /\ phase[x] = "running" => IsEmpty(rows[x])
          /\ stage[x] # "model" => pc[x] = "loop" /\ phase[x] # "running"
          /\ stage[x] # "model" => \A k \in Call : k > cur[x] => rows[x][k] = "empty"
          /\ stage[x] = "model" => cur[x] = 0
      BY DEF BatchIsFresh
    <3> QED
      BY <3>1, <3>2
  <2> QED
    BY <2>4, <2>5, <2>6 DEF BatchIsFresh
<1>15. ASSUME NEW a \in Aid, IllegalTransition(a) PROVE BatchIsFresh'
  <2>1. Quiet
    BY <1>15 DEF TypeOK, IllegalTransition, InBatch, At, Live, BatchIsFresh, Quiet, OnlyFills
  <2> QED
    BY <1>Q, <2>1
<1>16. ASSUME NEW a \in Aid, IssueCall(a) PROVE BatchIsFresh'
  BY <1>16 DEF TypeOK, IssueCall, InBatch, At, BatchIsFresh, IsEmpty, NoRows
<1>17. ASSUME NEW a \in Aid, RefuseSpawn(a) PROVE BatchIsFresh'
  <2>1. Quiet
    BY <1>17 DEF TypeOK, RefuseSpawn, InBatch, At, Live, BatchIsFresh, Quiet, OnlyFills
  <2> QED
    BY <1>Q, <2>1
<1>18. ASSUME NEW a \in Aid, RegisterChild(a) PROVE BatchIsFresh'
  <2>1. Quiet
    BY <1>18 DEF TypeOK, RegisterChild, InBatch, At, Live, BatchIsFresh, Quiet, OnlyFills
  <2> QED
    BY <1>Q, <2>1
<1>19. ASSUME NEW a \in Aid, StartChild(a) PROVE BatchIsFresh'
  <2>1. Quiet
    BY <1>19 DEF TypeOK, StartChild, InBatch, At, Live, BatchIsFresh, Quiet, OnlyFills,
                 Starting, StartupIsFresh, JoinInv
  <2> QED
    BY <1>Q, <2>1
<1>20. ASSUME NEW a \in Aid, RollbackSpawn(a) PROVE BatchIsFresh'
  <2>1. Quiet
    <3>1. \A x \in Aid : phase'[x] = "running" => phase[x] = "running"
      BY <1>20 DEF TypeOK, RollbackSpawn
    <3>2. stage[a] # "model" /\ stage' = [stage EXCEPT ![a] = "rolledback"]
      BY <1>20 DEF RollbackSpawn, Starting
    <3> QED
      BY <1>20, <3>1, <3>2 DEF TypeOK, RollbackSpawn, Quiet, OnlyFills
  <2> QED
    BY <1>Q, <2>1
<1>21. ASSUME NEW a \in Aid, RecordResult(a) PROVE BatchIsFresh'
  <2>1. Quiet
    BY <1>21 DEF TypeOK, RecordResult, InBatch, At, Live, BatchIsFresh, Quiet, OnlyFills
  <2> QED
    BY <1>Q, <2>1
<1>22. ASSUME NEW a \in Aid, FinishBatch(a) PROVE BatchIsFresh'
  BY <1>22 DEF TypeOK, FinishBatch, InBatch, At, BatchIsFresh, IsEmpty, NoRows
<1>23. ASSUME NEW a \in Aid, BatchFails(a) PROVE BatchIsFresh'
  BY <1>23 DEF TypeOK, BatchFails, InBatch, At, BatchIsFresh, IsEmpty, NoRows
<1>24. ASSUME NEW a \in Aid, Return(a) PROVE BatchIsFresh'
  <2>1. Quiet
    <3>1. OnlyFills
      BY <1>24, FinalizeFills DEF Return, OnlyFills
    <3>2. \A x \in Aid : phase'[x] = "running" => phase[x] = "running"
      BY <1>24 DEF Return, FinalizeAll
    <3>3. stage[a] = "model" /\ \A x \in Aid \ {a} : pc'[x] = pc[x]
      BY <1>24 DEF TypeOK, Return, At, BatchIsFresh, EndNormally, EndDriver
    <3>4. pc'[a] # "loop"
      BY <1>24 DEF TypeOK, Return, At, EndNormally, EndDriver
    <3> QED
      BY <1>24, <3>1, <3>2, <3>3, <3>4 DEF Return, Quiet
  <2> QED
    BY <1>Q, <2>1
<1>25. ASSUME NEW a \in Aid, CheckpointFails(a) PROVE BatchIsFresh'
  <2>1. Quiet
    BY <1>25 DEF TypeOK, CheckpointFails, InBatch, At, Live, BatchIsFresh, Quiet, OnlyFills
  <2> QED
    BY <1>Q, <2>1
<1>26. ASSUME NEW a \in Aid, DiffFails(a) PROVE BatchIsFresh'
  <2>1. Quiet
    BY <1>26 DEF TypeOK, DiffFails, InBatch, At, Live, BatchIsFresh, Quiet, OnlyFills
  <2> QED
    BY <1>Q, <2>1
<1>27. ASSUME NEW a \in Aid, DiscardLate(a) PROVE BatchIsFresh'
  <2>1. Quiet
    <3>1. OnlyFills
      BY <1>27, FinalizeFills DEF DiscardLate, OnlyFills
    <3>2. \A x \in Aid : phase'[x] = "running" => phase[x] = "running"
      BY <1>27 DEF DiscardLate, FinalizeAll
    <3>3. stage[a] = "model" /\ \A x \in Aid \ {a} : pc'[x] = pc[x]
      BY <1>27 DEF TypeOK, DiscardLate, At, BatchIsFresh, EndNormally, EndDriver
    <3>4. pc'[a] # "loop"
      BY <1>27 DEF TypeOK, DiscardLate, At, EndNormally, EndDriver
    <3> QED
      BY <1>27, <3>1, <3>2, <3>3, <3>4 DEF DiscardLate, Quiet
  <2> QED
    BY <1>Q, <2>1
<1>28. ASSUME NEW a \in Aid, Deliver(a) PROVE BatchIsFresh'
  <2>1. Quiet
    <3>1. OnlyFills
      BY <1>28, DeliverFills
    <3>2. \A x \in Aid : phase'[x] = "running" => phase[x] = "running"
      BY <1>28 DEF Deliver, TypeOK
    <3>3. pc[a] \in {"ended", "cancelling"} /\ stage[a] = "model"
      BY <1>28 DEF Deliver, At, BatchIsFresh
    <3>4. \A x \in Aid : /\ Live(x) /\ x # a => pc'[x] = pc[x]
                         /\ pc'[x] = "loop" => pc[x] = "loop"
      BY <1>28 DEF Deliver, Resume, TypeOK, Live
    <3>5. \A x \in Aid : stage[x] # "model" => pc'[x] = pc[x]
      <4> SUFFICES ASSUME NEW x \in Aid, stage[x] # "model" PROVE pc'[x] = pc[x]
        OBVIOUS
      <4>1. pc[x] = "loop"
        BY DEF BatchIsFresh
      <4> QED
        BY <3>3, <3>4, <4>1 DEF Live
    <3>6. cur' = cur /\ stage' = stage
      BY <1>28 DEF Deliver
    <3> QED
      BY <3>1, <3>2, <3>4, <3>5, <3>6 DEF Quiet
  <2> QED
    BY <1>Q, <2>1
<1>29. ASSUME NEW a \in Aid, EndDrain(a) PROVE BatchIsFresh'
  <2>1. Quiet
    BY <1>29 DEF TypeOK, EndDrain, At, BatchIsFresh, Quiet, OnlyFills, EndNormally, EndDriver
  <2> QED
    BY <1>Q, <2>1
<1>30. ASSUME NEW a \in Aid, Killed(a) PROVE BatchIsFresh'
  <2>1. Quiet
    BY <1>30 DEF TypeOK, Killed, InBatch, At, Live, BatchIsFresh, Quiet, OnlyFills, EndDriver
  <2> QED
    BY <1>Q, <2>1
<1>31. ASSUME NEW a \in Aid, Cancelled(a) PROVE BatchIsFresh'
  BY <1>31 DEF TypeOK, Cancelled, InBatch, At, BatchIsFresh, IsEmpty, NoRows
<1>32. ASSUME NEW a \in Aid, Swallow(a) PROVE BatchIsFresh'
  <2>1. Quiet
    BY <1>32 DEF TypeOK, Swallow, InBatch, At, Live, BatchIsFresh, Quiet, OnlyFills
  <2> QED
    BY <1>Q, <2>1
<1>33. ASSUME NEW a \in Aid, NEW k \in Keys, ReserveSpawn(a, k) PROVE BatchIsFresh'
  <2>1. Quiet
    BY <1>33 DEF TypeOK, ReserveSpawn, InBatch, Quiet, OnlyFills
  <2> QED
    BY <1>Q, <2>1
<1>34. CASE UNCHANGED vars
  BY <1>34 DEF vars, BatchIsFresh, IsEmpty
<1> QED
  BY <1>1, <1>2, <1>3, <1>4, <1>5, <1>6, <1>7, <1>8, <1>9, <1>10, <1>11, <1>12,
     <1>13, <1>14, <1>15, <1>16, <1>17, <1>18, <1>19, <1>20, <1>21, <1>22, <1>23,
     <1>24, <1>25, <1>26, <1>27, <1>28, <1>29, <1>30, <1>31, <1>32, <1>33, <1>34
     DEF Next, TurnStep, DriverStep, Finished

(* A recorded result is never rewritten and rows leave a table only all     *)
(* together, for every number of agents and calls: children that complete,  *)
(* fail, are cancelled or swept by cleanup in any order never reach the     *)
(* parent's model as a partial batch (PendingEventTable.fill,               *)
(* _resume_from_awaiting, execute_pending_tools).                           *)
THEOREM BatchesDrainWhole == Spec => BatchDrainsWhole
<1>1. Init => BatchIsFresh
  BY DEF Init, BatchIsFresh
<1>2. TypeOK /\ JoinInv /\ BatchIsFresh /\ [Next]_vars => BatchIsFresh'
  BY FreshStep
<1>3. TypeOK /\ BatchIsFresh /\ [Next]_vars => DrainsWhole
  <2> SUFFICES ASSUME TypeOK, BatchIsFresh, [Next]_vars PROVE DrainsWhole
    OBVIOUS
  <2>1. CASE OnlyFills
    BY <2>1 DEF OnlyFills, DrainsWhole
  <2>2. CASE SettleEnd
    BY <2>2 DEF SettleEnd, DrainsWhole, TypeOK, NoRows
  <2>3. ASSUME NEW a \in Aid, Drains(a) PROVE DrainsWhole
    <3>1. \A p \in Aid : rows'[p] = IF p = a THEN NoRows ELSE rows[p]
      BY <2>3 DEF Drains, TypeOK
    <3> QED
      BY <2>3, <3>1 DEF Drains, DrainsWhole, NoRows
  <2>4. ASSUME NEW a \in Aid, IssueCall(a) PROVE DrainsWhole
    <3>1. cur[a] + 1 \in Call /\ rows[a][cur[a] + 1] = "empty"
      <4>1. cur[a] \in Nat /\ cur[a] < MaxCalls /\ stage[a] = "next"
        BY <2>4, BoundsAssumption DEF IssueCall, InBatch, TypeOK
      <4>2. cur[a] + 1 \in Call /\ cur[a] + 1 > cur[a]
        BY <4>1, BoundsAssumption DEF Call
      <4> QED
        BY <4>1, <4>2 DEF BatchIsFresh
    <3>2. \A p \in Aid, k \in Call : rows[p][k] # "empty" => rows'[p][k] = rows[p][k]
      BY <2>4, <3>1 DEF IssueCall, TypeOK
    <3> QED
      BY <3>2 DEF DrainsWhole
  <2> QED
    BY <2>1, <2>2, <2>3, <2>4, RowsStep
<1>4. Spec => [](TypeOK /\ JoinInv /\ BatchIsFresh)
  BY <1>1, <1>2, Invariance, PTL DEF Spec
<1> QED
  BY <1>3, <1>4, PTL DEF Spec, BatchDrainsWhole

WorkContext ==
    /\ TypeOK /\ JoinInv /\ BatchIsFresh
    /\ SettlementIsClosed /\ RefsNameChildren /\ RoutesAreOpen
    /\ OneRoute /\ OpenRowIsRouted /\ CompleteBatchResumes
    /\ \A a \in Aid : PhaseFits(a) /\ HandFits(a) /\ WorkFits(a)
    /\ ~shutting /\ ~shutting'

(* What can happen until cleanup begins.                                    *)
LEMMA OpenStep ==
    ASSUME WorkContext, [Next]_vars
    PROVE  \/ RestoreTurn \/ RestoredCancelled \/ StartTurn \/ RequestCancel \/ EndTurn
           \/ StallTurn \/ SettleBegin \/ SettleEnd
           \/ \E a \in Aid :
                 \/ MessageTurn(a) \/ EnterGate(a) \/ EnterLoop(a) \/ Generate(a)
                 \/ IllegalTransition(a) \/ IssueCall(a) \/ RefuseSpawn(a)
                 \/ (\E k \in Keys : ReserveSpawn(a, k))
                 \/ RegisterChild(a) \/ StartChild(a) \/ RollbackSpawn(a) \/ RecordResult(a)
                 \/ FinishBatch(a) \/ BatchFails(a) \/ Return(a) \/ CheckpointFails(a)
                 \/ DiffFails(a) \/ Deliver(a) \/ EndDrain(a) \/ Killed(a) \/ Cancelled(a)
                 \/ Swallow(a)
           \/ UNCHANGED vars
<1>1. ~CleanupBegin /\ ~CleanupEnd
  BY DEF WorkContext, SettlementIsClosed, CleanupBegin, CleanupEnd
<1>2. \A a \in Aid : ~DiscardLate(a)
  BY DEF WorkContext, DiscardLate
<1> QED
  BY <1>1, <1>2 DEF Next, TurnStep, DriverStep, Finished

(* A route leads to an open row, so a delivery answers that row and no other. *)
LEMMA OpenDelivery ==
    ASSUME WorkContext, NEW c \in Aid, Deliver(c), origin[c] # 0
    PROVE  /\ par[c] \in Aid /\ origin[c] \in Call /\ par[c] # c /\ c # 0
           /\ rows[par[c]][origin[c]] = "pending" /\ OutcomeOf(c) \in {"done", "failed"}
           /\ \A x \in Aid, k \in Call :
                 rows'[x][k] = IF x = par[c] /\ k = origin[c] THEN OutcomeOf(c) ELSE rows[x][k]
           /\ origin' = [origin EXCEPT ![c] = 0]
           /\ phase' = phase
           /\ Resume(c, "drain", par[c], rows')
<1>1. /\ par[c] \in Aid /\ origin[c] \in Call /\ par[c] < c /\ c # 0
      /\ rows[par[c]][origin[c]] = "pending"
  <2>1. par[c] \in Aid /\ origin[c] \in 0 .. MaxCalls
    BY DEF WorkContext, TypeOK
  <2>2. origin[c] \in Call
    BY <2>1, BoundsAssumption DEF Call
  <2>3. WorkFits(c) /\ rows[par[c]][origin[c]] = "pending"
    BY <2>1 DEF WorkContext, RoutesAreOpen
  <2> QED
    BY <2>1, <2>2, <2>3 DEF WorkFits
<1>2. OutcomeOf(c) \in {"done", "failed"}
  BY DEF OutcomeOf
<1>3. par[c] # c
  BY <1>1 DEF Aid
<1>4. rows' = [rows EXCEPT ![par[c]][origin[c]] = OutcomeOf(c)]
  BY <1>1 DEF Deliver, RowsAfter
<1>5. \A x \in Aid, k \in Call :
          rows'[x][k] = IF x = par[c] /\ k = origin[c] THEN OutcomeOf(c) ELSE rows[x][k]
  BY <1>1, <1>4 DEF WorkContext, TypeOK
<1> QED
  BY <1>1, <1>2, <1>3, <1>5 DEF Deliver, WorkContext

(* The call in hand is a call whose row is open.                            *)
LEMMA CallInHand ==
    ASSUME WorkContext, NEW a \in Aid, stage[a] \notin {"model", "next"}
    PROVE  cur[a] \in Call /\ rows[a][cur[a]] # "empty" /\ ref[a][cur[a]] = NoAid
<1>1. cur[a] \in 0 .. MaxCalls /\ MaxCalls \in Nat
  BY BoundsAssumption DEF WorkContext, TypeOK
<1>2. HandFits(a)
  BY DEF WorkContext
<1>3. cur[a] \in Call
  BY <1>1, <1>2 DEF HandFits, Call
<1> QED
  BY <1>2, <1>3 DEF HandFits

(* The effect of a reservation, aid by aid.                                 *)
LEMMA Spawning ==
    ASSUME WorkContext, NEW a \in Aid, NEW k \in Keys, ReserveSpawn(a, k)
    PROVE  /\ nextAid \in Aid \ {0} /\ a # nextAid /\ a < nextAid /\ nextAid' = nextAid + 1
           /\ \A x \in Aid : x < nextAid => x < nextAid'
           /\ pc[nextAid] = "none" /\ phase[nextAid] = "absent" /\ origin[nextAid] = 0
           /\ cur[a] \in Call /\ stage[a] = "issued" /\ pc[a] = "loop" /\ ~creq[a]
           /\ \A x \in Aid : /\ par'[x] = IF x = nextAid THEN a ELSE par[x]
                             /\ origin'[x] = IF x = nextAid THEN cur[a] ELSE origin[x]
                             /\ key'[x] = IF x = nextAid THEN k ELSE key[x]
                             /\ kid'[x] = IF x = a THEN nextAid ELSE kid[x]
                             /\ stage'[x] = IF x = a THEN "env" ELSE stage[x]
<1>1. nextAid \in Aid \ {0} /\ nextAid' = nextAid + 1
  BY BoundsAssumption DEF WorkContext, TypeOK, ReserveSpawn, Aid
<1>2. stage[a] = "issued" /\ pc[a] = "loop" /\ ~creq[a]
  BY DEF ReserveSpawn, InBatch, At
<1>3. pc[nextAid] = "none" /\ phase[nextAid] = "absent" /\ origin[nextAid] = 0
  BY <1>1 DEF WorkContext, JoinInv, UnallocatedIsFree, WorkFits, Aid
<1>4. a < nextAid
  BY <1>1, <1>2, BoundsAssumption DEF WorkContext, JoinInv, UnallocatedIsFree,
     Aid
<1>5. cur[a] \in Call
  BY <1>2, CallInHand
<1>6. \A x \in Aid : x < nextAid => x < nextAid'
  BY <1>1 DEF Aid
<1>7. \A x \in Aid : /\ par'[x] = IF x = nextAid THEN a ELSE par[x]
                     /\ origin'[x] = IF x = nextAid THEN cur[a] ELSE origin[x]
                     /\ key'[x] = IF x = nextAid THEN k ELSE key[x]
                     /\ kid'[x] = IF x = a THEN nextAid ELSE kid[x]
                     /\ stage'[x] = IF x = a THEN "env" ELSE stage[x]
  BY <1>1 DEF WorkContext, TypeOK, ReserveSpawn
<1> QED
  BY <1>1, <1>2, <1>3, <1>4, <1>5, <1>6, <1>7

(* A startup in hand.                                                       *)
LEMMA Startup ==
    ASSUME WorkContext, NEW a \in Aid, Starting(a)
    PROVE  /\ kid[a] \in Aid \ {0} /\ kid[a] < nextAid /\ cur[a] \in Call
           /\ pc[kid[a]] = "none" /\ turns[kid[a]] = 0 /\ kid[a] # a
           /\ Route(a, cur[a], kid[a]) /\ rows[a][cur[a]] = "pending" /\ ref[a][cur[a]] = NoAid
           /\ \A c \in Aid : Route(a, cur[a], c) => c = kid[a]
           /\ \A x \in Aid : x # a /\ Starting(x) => kid[x] # kid[a]
<1>1. /\ kid[a] \in Aid \ {0} /\ kid[a] < nextAid /\ pc[kid[a]] = "none" /\ turns[kid[a]] = 0
      /\ \A x \in Aid : x # a /\ Starting(x) => kid[x] # kid[a]
  BY DEF WorkContext, JoinInv, StartupIsFresh
<1>2. cur[a] \in Call /\ Route(a, cur[a], kid[a]) /\ ref[a][cur[a]] = NoAid
  BY CallInHand DEF WorkContext, HandFits, Starting
<1>3. cur[a] # 0
  BY <1>2 DEF Call
<1>4. rows[a][cur[a]] = "pending" /\ \A c \in Aid : Route(a, cur[a], c) => c = kid[a]
  BY <1>1, <1>2, <1>3 DEF WorkContext, RoutesAreOpen, OneRoute, Route
<1>5. pc[a] = "loop"
  BY DEF WorkContext, BatchIsFresh, Starting
<1> QED
  BY <1>1, <1>2, <1>4, <1>5

(* The call in hand of a batch under way.                                   *)
LEMMA InHand ==
    ASSUME WorkContext, NEW a \in Aid, stage[a] \notin {"model", "next"}
    PROVE  /\ cur[a] \in Call /\ rows[a][cur[a]] # "empty" /\ ref[a][cur[a]] = NoAid
           /\ \A c \in Aid : Route(a, cur[a], c) => c = kid[a]
           /\ stage[a] \in {"issued", "rolledback"} => \A c \in Aid : ~Route(a, cur[a], c)
<1>1. cur[a] \in Call /\ rows[a][cur[a]] # "empty" /\ ref[a][cur[a]] = NoAid
  BY CallInHand
<1>2. stage[a] \in {"issued", "rolledback"} => \A c \in Aid : ~Route(a, cur[a], c)
  BY DEF WorkContext, HandFits
<1>3. stage[a] \in {"issued", "rolledback", "ref"} \/ Starting(a)
  BY DEF WorkContext, TypeOK, Stage, Starting
<1>4. stage[a] = "ref" => \A c \in Aid : Route(a, cur[a], c) => c = kid[a]
  BY DEF WorkContext, HandFits
<1> QED
  BY <1>1, <1>2, <1>3, <1>4, Startup

(* The effect of a settlement's end.                                        *)
LEMMA Settling ==
    ASSUME WorkContext, SettleEnd
    PROVE  \E S \in SUBSET Aid :
              /\ \A x \in Aid : x \in S <=> x \in subtree \cup {0} /\ phase[x] # "absent"
              /\ \A x \in Aid :
                    /\ rows'[x] = IF x \in S THEN NoRows ELSE rows[x]
                    /\ ref'[x] = IF x \in S THEN NoRefs ELSE ref[x]
                    /\ origin'[x] = IF x \in S THEN 0 ELSE origin[x]
                    /\ key'[x] = IF x \in S THEN NoKey ELSE key[x]
                    /\ phase'[x] = IF x \in S /\ phase[x] \notin Terminal THEN "stopped" ELSE phase[x]
                    /\ x \in S => stage[x] = "model" /\ (x # 0 => ~Live(x)) /\ x \notin Startups
                    /\ origin[x] # 0 => (x \in S <=> par[x] \in S)
                    /\ x \in subtree \cup {0} /\ x \notin S => IsEmpty(rows[x])
<1> DEFINE S == {x \in subtree \cup {0} : phase[x] # "absent"}
<1>1. 0 \in Aid /\ S \in SUBSET Aid /\ \A x \in Aid : x \in S <=> x \in subtree \cup {0} /\ phase[x] # "absent"
  <2>1. 0 \in Aid /\ subtree \subseteq Aid
    BY BoundsAssumption DEF WorkContext, TypeOK, Aid
  <2> QED
    BY <2>1
<1>2. ASSUME NEW x \in Aid
      PROVE  /\ rows'[x] = IF x \in S THEN NoRows ELSE rows[x]
             /\ ref'[x] = IF x \in S THEN NoRefs ELSE ref[x]
             /\ origin'[x] = IF x \in S THEN 0 ELSE origin[x]
             /\ key'[x] = IF x \in S THEN NoKey ELSE key[x]
             /\ phase'[x] = IF x \in S /\ phase[x] \notin Terminal THEN "stopped" ELSE phase[x]
  BY DEF SettleEnd
<1>3. \A x \in Aid : PhaseFits(x) /\ WorkFits(x)
  BY DEF WorkContext
<1>4. /\ stage[0] = "model" /\ \A x \in subtree : x \in Aid /\ ~Live(x) /\ x \notin Startups
      /\ \A c \in Aid : origin[c] # 0 => (c \in subtree <=> par[c] \in subtree \cup {0})
  BY DEF WorkContext, TypeOK, SettlementIsClosed, SettleEnd, Startups
<1>5. \A x \in Aid : ~Live(x) => stage[x] = "model"
  BY DEF WorkContext, BatchIsFresh, Live
<1>6. 0 \notin Startups
  BY DEF WorkContext, JoinInv, StartupIsFresh, Startups
<1>7. ASSUME NEW x \in Aid, origin[x] # 0 PROVE x \in S <=> par[x] \in S
  <2>1. x # 0 /\ par[x] \in Aid
    BY <1>3, <1>7 DEF WorkFits, WorkContext, TypeOK
  <2>2. x \in S <=> x \in subtree
    BY <1>1, <1>3, <1>4, <1>7, <2>1 DEF WorkFits
  <2>3. CASE par[x] \in S
    BY <1>1, <1>4, <1>7, <2>1, <2>2, <2>3
  <2>4. CASE par[x] \notin S
    <3>1. ASSUME x \in subtree PROVE FALSE
      <4>1. par[x] \in subtree \cup {0} /\ phase[par[x]] = "absent"
        BY <1>1, <1>4, <1>7, <2>1, <2>4, <3>1
      <4>2. IsEmpty(rows[par[x]])
        BY <1>3, <2>1, <4>1 DEF PhaseFits
      <4>3. rows[par[x]][origin[x]] = "pending" /\ origin[x] \in Call
        BY <1>7, BoundsAssumption DEF WorkContext, TypeOK, RoutesAreOpen, Call
      <4> QED
        BY <4>2, <4>3 DEF IsEmpty
    <3> QED
      BY <2>2, <2>4, <3>1
  <2> QED
    BY <2>3, <2>4
<1>8. ASSUME NEW x \in Aid, x \in S
      PROVE  stage[x] = "model" /\ (x # 0 => ~Live(x)) /\ x \notin Startups
  BY <1>1, <1>4, <1>5, <1>6, <1>8
<1>9. ASSUME NEW x \in Aid, x \in subtree \cup {0}, x \notin S PROVE IsEmpty(rows[x])
  BY <1>1, <1>3, <1>9 DEF PhaseFits
<1> HIDE DEF S
<1> QED
  BY <1>1, <1>2, <1>7, <1>8, <1>9

(* A route leads from a known agent by one of its calls.                    *)
LEMMA RouteIsTyped ==
    ASSUME WorkContext
    PROVE  \A c \in Aid : origin[c] # 0 => origin[c] \in Call /\ par[c] \in Aid
<1>1. \A c \in Aid : origin[c] \in 0 .. MaxCalls /\ par[c] \in Aid
  BY DEF WorkContext, TypeOK
<1> QED
  BY <1>1, BoundsAssumption DEF Call

(* Every action keeps PhaseFits: what the position of an agent owes its     *)
(* phase.                                                                   *)
LEMMA PhaseStep ==
    ASSUME WorkContext, [Next]_vars
    PROVE  \A x \in Aid : PhaseFits(x)'
<1> USE DEF WorkContext, sessionVars, driverVars, tableVars, batchVars, routeVars, cleanVars, turnVars
<1>1. CASE RestoreTurn
  BY <1>1 DEF TypeOK, JoinInv, BatchIsFresh, PhaseFits, SettlementIsClosed,
     Live, Starting, IsEmpty, IsComplete, NoRows, Terminal, RestoreTurn
<1>2. CASE RestoredCancelled
  BY <1>2 DEF TypeOK, JoinInv, BatchIsFresh, PhaseFits, SettlementIsClosed,
     Live, Starting, IsEmpty, IsComplete, NoRows, Terminal, RestoredCancelled
<1>3. CASE StartTurn
  BY <1>3 DEF TypeOK, JoinInv, BatchIsFresh, PhaseFits, SettlementIsClosed,
     Live, Starting, IsEmpty, IsComplete, NoRows, Terminal, StartTurn
<1>4. CASE RequestCancel
  BY <1>4 DEF TypeOK, JoinInv, BatchIsFresh, PhaseFits, SettlementIsClosed,
     Live, Starting, IsEmpty, IsComplete, NoRows, Terminal, RequestCancel
<1>5. CASE EndTurn
  BY <1>5 DEF TypeOK, JoinInv, BatchIsFresh, PhaseFits, SettlementIsClosed,
     Live, Starting, IsEmpty, IsComplete, NoRows, Terminal, EndTurn
<1>6. CASE StallTurn
  BY <1>6 DEF TypeOK, JoinInv, BatchIsFresh, PhaseFits, SettlementIsClosed,
     Live, Starting, IsEmpty, IsComplete, NoRows, Terminal, StallTurn
<1>7. CASE SettleBegin
  BY <1>7 DEF TypeOK, JoinInv, BatchIsFresh, PhaseFits, SettlementIsClosed,
     Live, Starting, IsEmpty, IsComplete, NoRows, Terminal, SettleBegin
<1>8. CASE SettleEnd
  BY <1>8 DEF TypeOK, JoinInv, BatchIsFresh, PhaseFits, SettlementIsClosed,
     Live, Starting, IsEmpty, IsComplete, NoRows, Terminal, SettleEnd
<1>9. ASSUME NEW a \in Aid, MessageTurn(a) PROVE \A x \in Aid : PhaseFits(x)'
  BY <1>9 DEF TypeOK, JoinInv, BatchIsFresh, PhaseFits, SettlementIsClosed,
     Live, Starting, IsEmpty, IsComplete, NoRows, Terminal, MessageTurn
<1>10. ASSUME NEW a \in Aid, EnterGate(a) PROVE \A x \in Aid : PhaseFits(x)'
  BY <1>10 DEF TypeOK, JoinInv, BatchIsFresh, PhaseFits, SettlementIsClosed,
     Live, Starting, IsEmpty, IsComplete, NoRows, Terminal, EnterGate, At
<1>11. ASSUME NEW a \in Aid, EnterLoop(a) PROVE \A x \in Aid : PhaseFits(x)'
  BY <1>11 DEF TypeOK, JoinInv, BatchIsFresh, PhaseFits, SettlementIsClosed,
     Live, Starting, IsEmpty, IsComplete, NoRows, Terminal, EnterLoop, At
<1>12. ASSUME NEW a \in Aid, Generate(a) PROVE \A x \in Aid : PhaseFits(x)'
  BY <1>12 DEF TypeOK, JoinInv, BatchIsFresh, PhaseFits, SettlementIsClosed,
     Live, Starting, IsEmpty, IsComplete, NoRows, Terminal, Generate, At
<1>13. ASSUME NEW a \in Aid, IllegalTransition(a) PROVE \A x \in Aid : PhaseFits(x)'
  BY <1>13 DEF TypeOK, JoinInv, BatchIsFresh, PhaseFits, SettlementIsClosed,
     Live, Starting, IsEmpty, IsComplete, NoRows, Terminal, IllegalTransition,
     At
<1>14. ASSUME NEW a \in Aid, IssueCall(a) PROVE \A x \in Aid : PhaseFits(x)'
  BY <1>14 DEF TypeOK, JoinInv, BatchIsFresh, PhaseFits, SettlementIsClosed,
     Live, Starting, IsEmpty, IsComplete, NoRows, Terminal, IssueCall,
     InBatch, At
<1>15. ASSUME NEW a \in Aid, RefuseSpawn(a) PROVE \A x \in Aid : PhaseFits(x)'
  BY <1>15 DEF TypeOK, JoinInv, BatchIsFresh, PhaseFits, SettlementIsClosed,
     Live, Starting, IsEmpty, IsComplete, NoRows, Terminal, RefuseSpawn,
     InBatch, At
<1>16. ASSUME NEW a \in Aid, RegisterChild(a) PROVE \A x \in Aid : PhaseFits(x)'
  BY <1>16 DEF TypeOK, JoinInv, BatchIsFresh, PhaseFits, SettlementIsClosed,
     Live, Starting, IsEmpty, IsComplete, NoRows, Terminal, StartupIsFresh,
     HandFits, RegisterChild, InBatch, At
<1>17. ASSUME NEW a \in Aid, StartChild(a) PROVE \A x \in Aid : PhaseFits(x)'
  BY <1>17 DEF TypeOK, JoinInv, BatchIsFresh, PhaseFits, SettlementIsClosed,
     Live, Starting, IsEmpty, IsComplete, NoRows, Terminal, StartupIsFresh,
     HandFits, StartChild, InBatch, At
<1>18. ASSUME NEW a \in Aid, RollbackSpawn(a) PROVE \A x \in Aid : PhaseFits(x)'
  BY <1>18 DEF TypeOK, JoinInv, BatchIsFresh, PhaseFits, SettlementIsClosed,
     Live, Starting, IsEmpty, IsComplete, NoRows, Terminal, StartupIsFresh,
     HandFits, RollbackSpawn, At
<1>19. ASSUME NEW a \in Aid, RecordResult(a) PROVE \A x \in Aid : PhaseFits(x)'
  BY <1>19 DEF TypeOK, JoinInv, BatchIsFresh, PhaseFits, SettlementIsClosed,
     Live, Starting, IsEmpty, IsComplete, NoRows, Terminal, RecordResult, At
<1>20. ASSUME NEW a \in Aid, FinishBatch(a) PROVE \A x \in Aid : PhaseFits(x)'
  <2>1. /\ pc[a] = "loop" /\ rows[a][cur[a]] # "empty" /\ cur[a] \in Call
        /\ phase[a] \in {"tools", "stopped"}
    BY <1>20, BoundsAssumption DEF FinishBatch, InBatch, At, TypeOK,
       PhaseFits, HandFits, Call
  <2>2. \A x \in Aid \ {a} : phase'[x] = phase[x] /\ pc'[x] = pc[x] /\ rows'[x] = rows[x]
                             /\ stage'[x] = stage[x]
    BY <1>20 DEF FinishBatch, TypeOK
  <2>3. /\ phase'[a] \in {"error", "running", "awaiting"} /\ stage'[a] = "model"
        /\ phase'[a] = "running" => pc'[a] = "loop"
        /\ phase'[a] = "awaiting" => pc'[a] = "ret" /\ rows'[a] = rows[a]
        /\ turns' = turns /\ ~(a # 0 /\ turns[a] = 0)
    BY <1>20, <2>1 DEF FinishBatch, TypeOK, PhaseFits
  <2>4. PhaseFits(a)'
    BY <2>1, <2>3 DEF PhaseFits, IsEmpty, Terminal
  <2>5. ASSUME NEW x \in Aid, x # a PROVE PhaseFits(x)'
    BY <2>2, <2>3, <2>5 DEF PhaseFits, IsEmpty
  <2> QED
    BY <2>4, <2>5
<1>21. ASSUME NEW a \in Aid, BatchFails(a) PROVE \A x \in Aid : PhaseFits(x)'
  BY <1>21 DEF TypeOK, JoinInv, BatchIsFresh, PhaseFits, SettlementIsClosed,
     Live, Starting, IsEmpty, IsComplete, NoRows, Terminal, BatchFails,
     InBatch, At
<1>22. ASSUME NEW a \in Aid, Return(a) PROVE \A x \in Aid : PhaseFits(x)'
  BY <1>22 DEF TypeOK, JoinInv, BatchIsFresh, PhaseFits, SettlementIsClosed,
     Live, Starting, IsEmpty, IsComplete, NoRows, Terminal, Return, At,
     EndNormally, EndDriver, ResumeDue
<1>23. ASSUME NEW a \in Aid, CheckpointFails(a) PROVE \A x \in Aid : PhaseFits(x)'
  BY <1>23 DEF TypeOK, JoinInv, BatchIsFresh, PhaseFits, SettlementIsClosed,
     Live, Starting, IsEmpty, IsComplete, NoRows, Terminal, CheckpointFails,
     At
<1>24. ASSUME NEW a \in Aid, DiffFails(a) PROVE \A x \in Aid : PhaseFits(x)'
  BY <1>24 DEF TypeOK, JoinInv, BatchIsFresh, PhaseFits, SettlementIsClosed,
     Live, Starting, IsEmpty, IsComplete, NoRows, Terminal, DiffFails, At
<1>25. ASSUME NEW a \in Aid, Deliver(a) PROVE \A x \in Aid : PhaseFits(x)'
  <2>1. /\ pc[a] \in {"ended", "cancelling"} /\ pc'[a] = "drain" /\ phase' = phase
        /\ UNCHANGED <<stage, turns>>
    BY <1>25, OpenDelivery DEF Deliver, At, Resume, ResumeDue, TypeOK
  <2>2. \A x \in Aid : x # a => pc'[x] = pc[x] \/ (pc'[x] = "created" /\ phase[x] = "awaiting")
    BY <1>25, OpenDelivery DEF Deliver, Resume, ResumeDue, TypeOK
  <2>3. \A x \in Aid : IsEmpty(rows'[x]) <=> IsEmpty(rows[x])
    <3>1. CASE origin[a] = 0
      BY <1>25, <3>1 DEF Deliver
    <3>2. CASE origin[a] # 0
      <4>1. /\ \A x \in Aid, k \in Call : rows'[x][k] = rows[x][k] \/ (x = par[a] /\ k = origin[a])
            /\ par[a] \in Aid /\ origin[a] \in Call
            /\ rows[par[a]][origin[a]] # "empty" /\ rows'[par[a]][origin[a]] # "empty"
        BY <1>25, <3>2, OpenDelivery
      <4> QED
        BY <4>1 DEF IsEmpty
    <3> QED
      BY <3>1, <3>2
  <2>4. ASSUME NEW x \in Aid PROVE PhaseFits(x)'
    BY <2>1, <2>2, <2>3 DEF PhaseFits
  <2> QED
    BY <2>4
<1>26. ASSUME NEW a \in Aid, EndDrain(a) PROVE \A x \in Aid : PhaseFits(x)'
  BY <1>26 DEF TypeOK, JoinInv, BatchIsFresh, PhaseFits, SettlementIsClosed,
     Live, Starting, IsEmpty, IsComplete, NoRows, Terminal, EndDrain, At,
     EndNormally, EndDriver, ResumeDue
<1>27. ASSUME NEW a \in Aid, Killed(a) PROVE \A x \in Aid : PhaseFits(x)'
  BY <1>27 DEF TypeOK, JoinInv, BatchIsFresh, PhaseFits, SettlementIsClosed,
     Live, Starting, IsEmpty, IsComplete, NoRows, Terminal, Killed, EndDriver,
     ResumeDue
<1>28. ASSUME NEW a \in Aid, Cancelled(a) PROVE \A x \in Aid : PhaseFits(x)'
  BY <1>28 DEF TypeOK, JoinInv, BatchIsFresh, PhaseFits, SettlementIsClosed,
     Live, Starting, IsEmpty, IsComplete, NoRows, Terminal, StartupIsFresh,
     HandFits, Cancelled
<1>29. ASSUME NEW a \in Aid, Swallow(a) PROVE \A x \in Aid : PhaseFits(x)'
  BY <1>29 DEF TypeOK, JoinInv, BatchIsFresh, PhaseFits, SettlementIsClosed,
     Live, Starting, IsEmpty, IsComplete, NoRows, Terminal, Swallow
<1>30. ASSUME NEW a \in Aid, NEW k \in Keys, ReserveSpawn(a, k) PROVE \A x \in Aid : PhaseFits(x)'
  BY <1>30 DEF TypeOK, JoinInv, BatchIsFresh, PhaseFits, SettlementIsClosed,
     Live, Starting, IsEmpty, IsComplete, NoRows, Terminal, ReserveSpawn,
     InBatch, At
<1>31. CASE UNCHANGED vars
  BY <1>31 DEF TypeOK, JoinInv, BatchIsFresh, PhaseFits, SettlementIsClosed,
     Live, Starting, IsEmpty, IsComplete, NoRows, Terminal, vars
<1> QED
  BY <1>1, <1>2, <1>3, <1>4, <1>5, <1>6, <1>7, <1>8, <1>9, <1>10, <1>11,
     <1>12, <1>13, <1>14, <1>15, <1>16, <1>17, <1>18, <1>19, <1>20, <1>21,
     <1>22, <1>23, <1>24, <1>25, <1>26, <1>27, <1>28, <1>29, <1>30, <1>31,
     OpenStep

(* The descendants of the lead are closed under its routes, from both ends. *)
LEMMA DescendantsAreClosed ==
    ASSUME WorkContext
    PROVE  /\ Descendants \subseteq Aid \ {0}
           /\ \A c \in Descendants : c < nextAid
           /\ \A c \in Aid : origin[c] # 0 => (c \in Descendants <=> par[c] \in Descendants \cup {0})
<1> DEFINE Closed(E) == ChildrenOf(E \cup {0}) \subseteq E
           IsChild(c, p) == \/ origin[c] # 0 /\ par[c] = p
                            \/ \E k \in Call : rows[p][k] = "pending" /\ ref[p][k] = c
<1>1. /\ Descendants \subseteq Aid \ {0}
      /\ \A E \in SUBSET (Aid \ {0}) : Closed(E) => Descendants \subseteq E
      /\ \A c \in Aid \ {0} : (\A E \in SUBSET (Aid \ {0}) : Closed(E) => c \in E) => c \in Descendants
  BY DEF Descendants
<1>2. \A E : ChildrenOf(E) = {c \in Aid \ {0} : \E p \in E : IsChild(c, p)}
  BY DEF ChildrenOf
<1>3. 0 \in Aid /\ Descendants \cup {0} \subseteq Aid
  BY <1>1, BoundsAssumption DEF Aid
<1>4. \A c \in Aid, p \in Aid : IsChild(c, p) => par[c] = p /\ (c # 0 => c < nextAid)
  <2> SUFFICES ASSUME NEW c \in Aid, NEW p \in Aid, IsChild(c, p)
               PROVE  par[c] = p /\ (c # 0 => c < nextAid)
    OBVIOUS
  <2>1. CASE origin[c] # 0 /\ par[c] = p
    <3>1. ~(c >= nextAid) /\ c \in Nat /\ nextAid \in Nat
      BY <2>1 DEF WorkContext, WorkFits, TypeOK, Aid
    <3> QED
      BY <2>1, <3>1
  <2>2. ASSUME NEW k \in Call, ref[p][k] = c PROVE par[c] = p /\ (c # 0 => c < nextAid)
    <3>1. c # NoAid
      BY BoundsAssumption DEF Aid, NoAid
    <3> QED
      BY <2>2, <3>1 DEF WorkContext, RefsNameChildren
  <2> QED
    BY <2>1, <2>2
<1> HIDE DEF IsChild
<1>5. ASSUME NEW c \in Aid \ {0}, NEW p \in Descendants \cup {0}, IsChild(c, p)
      PROVE  c \in Descendants
  <2>1. ASSUME NEW E \in SUBSET (Aid \ {0}), Closed(E) PROVE c \in E
    <3>1. p \in E \cup {0}
      BY <1>1, <2>1
    <3>2. c \in ChildrenOf(E \cup {0})
      BY <1>2, <1>5, <3>1
    <3> QED
      BY <2>1, <3>2
  <2> QED
    BY <1>1, <2>1
<1>6. ASSUME NEW c \in Descendants PROVE \E p \in Descendants \cup {0} : IsChild(c, p)
  <2> SUFFICES ASSUME \A p \in Descendants \cup {0} : ~IsChild(c, p) PROVE FALSE
    OBVIOUS
  <2>1. Closed(Descendants \ {c})
    <3>1. ASSUME NEW d \in ChildrenOf((Descendants \ {c}) \cup {0}) PROVE d \in Descendants \ {c}
      <4>1. d \in Aid \ {0} /\ \E p \in Descendants \cup {0} : IsChild(d, p)
        BY <1>2, <3>1
      <4> QED
        BY <1>5, <4>1
    <3> QED
      BY <3>1
  <2>2. Descendants \ {c} \in SUBSET (Aid \ {0})
    BY <1>1
  <2> QED
    BY <1>1, <2>1, <2>2
<1>7. ASSUME NEW c \in Descendants PROVE c < nextAid /\ par[c] \in Descendants \cup {0}
  <2>1. PICK p \in Descendants \cup {0} : IsChild(c, p)
    BY <1>6
  <2>2. c \in Aid /\ c # 0 /\ p \in Aid
    BY <1>1, <1>3
  <2> QED
    BY <1>4, <2>1, <2>2
<1>8. ASSUME NEW c \in Aid, origin[c] # 0, par[c] \in Descendants \cup {0} PROVE c \in Descendants
  <2>1. c # 0
    BY <1>8 DEF WorkContext, WorkFits
  <2>2. IsChild(c, par[c])
    BY <1>8 DEF IsChild
  <2> QED
    BY <1>5, <1>8, <2>1, <2>2
<1> QED
  BY <1>1, <1>7, <1>8

(* Every action keeps SettlementIsClosed: what a settlement takes along is  *)
(* everybody below the parents it settles.                                  *)
LEMMA SettleStep ==
    ASSUME WorkContext, [Next]_vars
    PROVE  SettlementIsClosed'
<1> USE DEF WorkContext, sessionVars, driverVars, tableVars, batchVars, routeVars, cleanVars, turnVars
<1>1. CASE RestoreTurn
  BY <1>1 DEF TypeOK, JoinInv, BatchIsFresh, Live, Starting, Terminal,
     SettlementIsClosed, PhaseFits, HandFits, WorkFits, Route, RestoreTurn
<1>2. CASE RestoredCancelled
  BY <1>2 DEF TypeOK, JoinInv, BatchIsFresh, Live, Starting, Terminal,
     SettlementIsClosed, PhaseFits, HandFits, WorkFits, Route,
     RestoredCancelled
<1>3. CASE StartTurn
  BY <1>3 DEF TypeOK, JoinInv, BatchIsFresh, Live, Starting, Terminal,
     SettlementIsClosed, PhaseFits, HandFits, WorkFits, Route, StartTurn
<1>4. CASE RequestCancel
  BY <1>4 DEF TypeOK, JoinInv, BatchIsFresh, Live, Starting, Terminal,
     SettlementIsClosed, PhaseFits, HandFits, WorkFits, Route, RequestCancel
<1>5. CASE EndTurn
  BY <1>5 DEF TypeOK, JoinInv, BatchIsFresh, Live, Starting, Terminal,
     SettlementIsClosed, PhaseFits, HandFits, WorkFits, Route, EndTurn
<1>6. CASE StallTurn
  BY <1>6 DEF StallTurn, Stalled, SettlementIsClosed, Live
<1>7. CASE SettleBegin
  <2>1. /\ ~settling /\ settling' = TRUE /\ subtree' = Descendants /\ turn # "idle"
        /\ cancelEv /\ phase[0] = "awaiting" /\ held' = held \cup Descendants \cup {0}
        /\ UNCHANGED <<clean, pc, turn, cancelEv, stage, origin, par, nextAid>>
    BY <1>7 DEF SettleBegin, SettleDue
  <2>2. \A x \in Aid : /\ creq'[x] <=> creq[x] \/ (x \in Descendants /\ Live(x))
                       /\ x \in Descendants => phase'[x] \in Terminal \cup {"absent"}
    BY <1>7 DEF SettleBegin, Terminal
  <2>3. /\ \A x \in Aid : ~creq[x] /\ (stage[x] # "model" => Live(x))
        /\ clean # "waiting" /\ stage[0] = "model"
    <3>1. 0 \in Aid
      BY BoundsAssumption DEF Aid
    <3> QED
      BY <2>1, <3>1 DEF SettlementIsClosed, BatchIsFresh, PhaseFits, Live
  <2>4. /\ \A x \in Descendants : x \in Aid /\ x # 0 /\ x < nextAid
        /\ \A c \in Aid : origin[c] # 0 => (c \in Descendants <=> par[c] \in Descendants \cup {0})
    BY DescendantsAreClosed
  <2>5. \A x \in Descendants : /\ x < nextAid /\ phase'[x] \in Terminal \cup {"absent"}
                               /\ pc[x] \in {"created", "gate"} \/ stage[x] # "model" => creq'[x]
    BY <2>2, <2>3, <2>4 DEF Live
  <2>6. \A x \in Aid : creq'[x] => pc[x] # "none" /\ x \in Descendants
    BY <2>2, <2>3 DEF Live
  <2> QED
    BY <2>1, <2>3, <2>4, <2>5, <2>6 DEF SettlementIsClosed, Live
<1>8. CASE SettleEnd
  BY <1>8 DEF TypeOK, JoinInv, BatchIsFresh, Live, Starting, Terminal,
     SettlementIsClosed, PhaseFits, HandFits, WorkFits, Route, SettleEnd
<1>9. ASSUME NEW a \in Aid, MessageTurn(a) PROVE SettlementIsClosed'
  BY <1>9 DEF TypeOK, JoinInv, BatchIsFresh, Live, Starting, Terminal,
     SettlementIsClosed, PhaseFits, HandFits, WorkFits, Route, MessageTurn
<1>10. ASSUME NEW a \in Aid, EnterGate(a) PROVE SettlementIsClosed'
  BY <1>10 DEF TypeOK, JoinInv, BatchIsFresh, Live, Starting, Terminal,
     SettlementIsClosed, PhaseFits, HandFits, WorkFits, Route, EnterGate, At
<1>11. ASSUME NEW a \in Aid, EnterLoop(a) PROVE SettlementIsClosed'
  BY <1>11 DEF TypeOK, JoinInv, BatchIsFresh, Live, Starting, Terminal,
     SettlementIsClosed, PhaseFits, HandFits, WorkFits, Route, EnterLoop, At
<1>12. ASSUME NEW a \in Aid, Generate(a) PROVE SettlementIsClosed'
  <2>1. /\ phase[a] = "running" /\ pc[a] = "loop" /\ ~creq[a] /\ stage[a] = "model"
        /\ UNCHANGED <<clean, creq, settling, subtree, turn, cancelEv, held, origin, par, nextAid>>
        /\ \A x \in Aid : x # a => phase'[x] = phase[x] /\ pc'[x] = pc[x] /\ stage'[x] = stage[x]
        /\ pc'[a] \in {"loop", "ret"}
    BY <1>12 DEF Generate, At, TypeOK, BatchIsFresh
  <2>2. settling /\ a = 0 => stage'[a] = "model"
    BY <1>12, <2>1 DEF Generate, SettlementIsClosed, TypeOK
  <2>3. settling => a \notin subtree
    BY <2>1 DEF SettlementIsClosed, Terminal
  <2>4. settling => stage'[0] = "model"
    <3>1. 0 \in Aid
      BY BoundsAssumption DEF Aid
    <3> QED
      BY <2>1, <2>2, <3>1 DEF SettlementIsClosed
  <2>5. subtree \subseteq Aid
    BY DEF TypeOK
  <2> QED
    BY <2>1, <2>3, <2>4, <2>5 DEF SettlementIsClosed, Live
<1>13. ASSUME NEW a \in Aid, IllegalTransition(a) PROVE SettlementIsClosed'
  BY <1>13 DEF TypeOK, JoinInv, BatchIsFresh, Live, Starting, Terminal,
     SettlementIsClosed, PhaseFits, HandFits, WorkFits, Route,
     IllegalTransition, At
<1>14. ASSUME NEW a \in Aid, IssueCall(a) PROVE SettlementIsClosed'
  BY <1>14 DEF TypeOK, JoinInv, BatchIsFresh, Live, Starting, Terminal,
     SettlementIsClosed, PhaseFits, HandFits, WorkFits, Route, IssueCall,
     InBatch, At
<1>15. ASSUME NEW a \in Aid, RefuseSpawn(a) PROVE SettlementIsClosed'
  BY <1>15 DEF TypeOK, JoinInv, BatchIsFresh, Live, Starting, Terminal,
     SettlementIsClosed, PhaseFits, HandFits, WorkFits, Route, RefuseSpawn,
     InBatch, At
<1>16. ASSUME NEW a \in Aid, RegisterChild(a) PROVE SettlementIsClosed'
  BY <1>16 DEF TypeOK, JoinInv, BatchIsFresh, Live, Starting, Terminal,
     SettlementIsClosed, PhaseFits, HandFits, WorkFits, Route, RegisterChild,
     InBatch, At
<1>17. ASSUME NEW a \in Aid, StartChild(a) PROVE SettlementIsClosed'
  BY <1>17 DEF TypeOK, JoinInv, BatchIsFresh, Live, Starting, Terminal,
     SettlementIsClosed, PhaseFits, HandFits, WorkFits, Route, StartChild,
     InBatch, At
<1>18. ASSUME NEW a \in Aid, RollbackSpawn(a) PROVE SettlementIsClosed'
  BY <1>18 DEF TypeOK, JoinInv, BatchIsFresh, Live, Starting, Terminal,
     SettlementIsClosed, PhaseFits, HandFits, WorkFits, Route, RollbackSpawn,
     At
<1>19. ASSUME NEW a \in Aid, RecordResult(a) PROVE SettlementIsClosed'
  BY <1>19 DEF TypeOK, JoinInv, BatchIsFresh, Live, Starting, Terminal,
     SettlementIsClosed, PhaseFits, HandFits, WorkFits, Route, RecordResult,
     At
<1>20. ASSUME NEW a \in Aid, FinishBatch(a) PROVE SettlementIsClosed'
  BY <1>20 DEF TypeOK, JoinInv, BatchIsFresh, Live, Starting, Terminal,
     SettlementIsClosed, PhaseFits, HandFits, WorkFits, Route, FinishBatch,
     InBatch, At
<1>21. ASSUME NEW a \in Aid, BatchFails(a) PROVE SettlementIsClosed'
  BY <1>21 DEF TypeOK, JoinInv, BatchIsFresh, Live, Starting, Terminal,
     SettlementIsClosed, PhaseFits, HandFits, WorkFits, Route, BatchFails,
     InBatch, At
<1>22. ASSUME NEW a \in Aid, Return(a) PROVE SettlementIsClosed'
  <2>1. /\ pc[a] = "ret" /\ ~creq[a] /\ ~creq'[a]
        /\ UNCHANGED <<phase, clean, settling, subtree, turn, cancelEv, held, origin, par, nextAid, stage>>
        /\ \A x \in Aid : x # a => pc'[x] = pc[x] /\ creq'[x] = creq[x]
        /\ phase[a] # "awaiting" => pc'[a] = "ended"
    BY <1>22 DEF Return, At, EndNormally, EndDriver, TypeOK
  <2>2. settling /\ a \in subtree => pc'[a] = "ended"
    BY <2>1 DEF SettlementIsClosed, Terminal
  <2>3. subtree \subseteq Aid
    BY DEF TypeOK
  <2> QED
    BY <2>1, <2>2, <2>3 DEF SettlementIsClosed, Live
<1>23. ASSUME NEW a \in Aid, CheckpointFails(a) PROVE SettlementIsClosed'
  BY <1>23 DEF TypeOK, JoinInv, BatchIsFresh, Live, Starting, Terminal,
     SettlementIsClosed, PhaseFits, HandFits, WorkFits, Route,
     CheckpointFails, At
<1>24. ASSUME NEW a \in Aid, DiffFails(a) PROVE SettlementIsClosed'
  BY <1>24 DEF TypeOK, JoinInv, BatchIsFresh, Live, Starting, Terminal,
     SettlementIsClosed, PhaseFits, HandFits, WorkFits, Route, DiffFails, At
<1>25. ASSUME NEW a \in Aid, Deliver(a) PROVE SettlementIsClosed'
  <2>1. /\ pc[a] \in {"ended", "cancelling"} /\ pc'[a] = "drain" /\ ~creq[a]
        /\ UNCHANGED <<creq, phase, clean, settling, subtree, turn, cancelEv, held, par, nextAid, stage>>
        /\ \A x \in Aid : x # a /\ phase[x] # "awaiting" => pc'[x] = pc[x]
        /\ \A x \in Aid : x # a => pc'[x] = pc[x] \/ pc'[x] = "created"
        /\ \A x \in Aid : origin'[x] = origin[x] \/ origin'[x] = 0
    BY <1>25, OpenDelivery DEF Deliver, At, Resume, ResumeDue, TypeOK
  <2>2. settling => \A x \in subtree : x \in Aid /\ (x # a => pc'[x] = pc[x])
    BY <2>1 DEF SettlementIsClosed, Terminal, TypeOK
  <2> QED
    BY <2>1, <2>2 DEF SettlementIsClosed, Live
<1>26. ASSUME NEW a \in Aid, EndDrain(a) PROVE SettlementIsClosed'
  BY <1>26 DEF TypeOK, JoinInv, BatchIsFresh, Live, Starting, Terminal,
     SettlementIsClosed, PhaseFits, HandFits, WorkFits, Route, EndDrain, At,
     EndNormally, EndDriver, ResumeDue
<1>27. ASSUME NEW a \in Aid, Killed(a) PROVE SettlementIsClosed'
  BY <1>27 DEF TypeOK, JoinInv, BatchIsFresh, Live, Starting, Terminal,
     SettlementIsClosed, PhaseFits, HandFits, WorkFits, Route, Killed,
     EndDriver, ResumeDue
<1>28. ASSUME NEW a \in Aid, Cancelled(a) PROVE SettlementIsClosed'
  BY <1>28 DEF TypeOK, JoinInv, BatchIsFresh, Live, Starting, Terminal,
     SettlementIsClosed, PhaseFits, HandFits, WorkFits, Route, Cancelled
<1>29. ASSUME NEW a \in Aid, Swallow(a) PROVE SettlementIsClosed'
  BY <1>29 DEF TypeOK, JoinInv, BatchIsFresh, Live, Starting, Terminal,
     SettlementIsClosed, PhaseFits, HandFits, WorkFits, Route, Swallow
<1>30. ASSUME NEW a \in Aid, NEW k \in Keys, ReserveSpawn(a, k) PROVE SettlementIsClosed'
  <2>1. UNCHANGED <<phase, pc, creq, clean, settling, subtree, turn, cancelEv, held>>
    BY <1>30 DEF ReserveSpawn
  <2>2. settling => a \notin subtree \cup {0} /\ nextAid \notin subtree
    <3>1. stage[a] = "issued" /\ ~creq[a] /\ ~(nextAid < nextAid)
      BY <1>30, Spawning DEF TypeOK
    <3> QED
      BY <3>1 DEF SettlementIsClosed
  <2>3. \A x \in subtree : x \in Aid
    BY DEF TypeOK
  <2>4. settling => /\ stage'[0] = "model"
                    /\ \A x \in subtree : x < nextAid' /\ stage'[x] = stage[x]
    <3>1. 0 \in Aid
      BY BoundsAssumption DEF Aid
    <3> QED
      BY <1>30, <2>2, <2>3, <3>1, Spawning DEF SettlementIsClosed
  <2>5. settling => \A c \in Aid : origin'[c] # 0 => (c \in subtree <=> par'[c] \in subtree \cup {0})
    BY <1>30, <2>2, Spawning DEF SettlementIsClosed
  <2> QED
    BY <2>1, <2>4, <2>5 DEF SettlementIsClosed, Live
<1>31. CASE UNCHANGED vars
  BY <1>31 DEF TypeOK, JoinInv, BatchIsFresh, Live, Starting, Terminal,
     SettlementIsClosed, PhaseFits, HandFits, WorkFits, Route, vars
<1> QED
  BY <1>1, <1>2, <1>3, <1>4, <1>5, <1>6, <1>7, <1>8, <1>9, <1>10, <1>11,
     <1>12, <1>13, <1>14, <1>15, <1>16, <1>17, <1>18, <1>19, <1>20, <1>21,
     <1>22, <1>23, <1>24, <1>25, <1>26, <1>27, <1>28, <1>29, <1>30, <1>31,
     OpenStep

(* Every action keeps RefsNameChildren: an open row that names a child      *)
(* names a child of its own call.                                           *)
LEMMA RefsStep ==
    ASSUME WorkContext, [Next]_vars
    PROVE  RefsNameChildren'
<1> USE DEF WorkContext, sessionVars, driverVars, tableVars, batchVars, routeVars, cleanVars, turnVars
<1>1. CASE RestoreTurn
  BY <1>1 DEF TypeOK, JoinInv, BatchIsFresh, Live, Starting, Terminal,
     HandFits, RefsNameChildren, NoRows, NoRefs, RestoreTurn
<1>2. CASE RestoredCancelled
  BY <1>2 DEF TypeOK, JoinInv, BatchIsFresh, Live, Starting, Terminal,
     HandFits, RefsNameChildren, NoRows, NoRefs, RestoredCancelled
<1>3. CASE StartTurn
  BY <1>3 DEF TypeOK, JoinInv, BatchIsFresh, Live, Starting, Terminal,
     HandFits, RefsNameChildren, NoRows, NoRefs, StartTurn
<1>4. CASE RequestCancel
  BY <1>4 DEF TypeOK, JoinInv, BatchIsFresh, Live, Starting, Terminal,
     HandFits, RefsNameChildren, NoRows, NoRefs, RequestCancel
<1>5. CASE EndTurn
  BY <1>5 DEF TypeOK, JoinInv, BatchIsFresh, Live, Starting, Terminal,
     HandFits, RefsNameChildren, NoRows, NoRefs, EndTurn
<1>6. CASE StallTurn
  BY <1>6 DEF TypeOK, JoinInv, BatchIsFresh, Live, Starting, Terminal,
     HandFits, RefsNameChildren, NoRows, NoRefs, StallTurn
<1>7. CASE SettleBegin
  BY <1>7 DEF TypeOK, JoinInv, BatchIsFresh, Live, Starting, Terminal,
     HandFits, RefsNameChildren, NoRows, NoRefs, SettleBegin
<1>8. CASE SettleEnd
  BY <1>8 DEF TypeOK, JoinInv, BatchIsFresh, Live, Starting, Terminal,
     HandFits, RefsNameChildren, NoRows, NoRefs, SettleEnd
<1>9. ASSUME NEW a \in Aid, MessageTurn(a) PROVE RefsNameChildren'
  BY <1>9 DEF TypeOK, JoinInv, BatchIsFresh, Live, Starting, Terminal,
     HandFits, RefsNameChildren, NoRows, NoRefs, MessageTurn
<1>10. ASSUME NEW a \in Aid, EnterGate(a) PROVE RefsNameChildren'
  BY <1>10 DEF TypeOK, JoinInv, BatchIsFresh, Live, Starting, Terminal,
     HandFits, RefsNameChildren, NoRows, NoRefs, EnterGate, At
<1>11. ASSUME NEW a \in Aid, EnterLoop(a) PROVE RefsNameChildren'
  BY <1>11 DEF TypeOK, JoinInv, BatchIsFresh, Live, Starting, Terminal,
     HandFits, RefsNameChildren, NoRows, NoRefs, EnterLoop, At
<1>12. ASSUME NEW a \in Aid, Generate(a) PROVE RefsNameChildren'
  BY <1>12 DEF TypeOK, JoinInv, BatchIsFresh, Live, Starting, Terminal,
     HandFits, RefsNameChildren, NoRows, NoRefs, Generate, At
<1>13. ASSUME NEW a \in Aid, IllegalTransition(a) PROVE RefsNameChildren'
  BY <1>13 DEF TypeOK, JoinInv, BatchIsFresh, Live, Starting, Terminal,
     HandFits, RefsNameChildren, NoRows, NoRefs, IllegalTransition, At
<1>14. ASSUME NEW a \in Aid, IssueCall(a) PROVE RefsNameChildren'
  BY <1>14 DEF TypeOK, JoinInv, BatchIsFresh, Live, Starting, Terminal,
     HandFits, RefsNameChildren, NoRows, NoRefs, IssueCall, InBatch, At
<1>15. ASSUME NEW a \in Aid, RefuseSpawn(a) PROVE RefsNameChildren'
  BY <1>15 DEF TypeOK, JoinInv, BatchIsFresh, Live, Starting, Terminal,
     HandFits, RefsNameChildren, NoRows, NoRefs, RefuseSpawn, InBatch, At
<1>16. ASSUME NEW a \in Aid, RegisterChild(a) PROVE RefsNameChildren'
  BY <1>16 DEF TypeOK, JoinInv, BatchIsFresh, Live, Starting, Terminal,
     HandFits, RefsNameChildren, NoRows, NoRefs, RegisterChild, InBatch, At
<1>17. ASSUME NEW a \in Aid, StartChild(a) PROVE RefsNameChildren'
  BY <1>17 DEF TypeOK, JoinInv, BatchIsFresh, Live, Starting, Terminal,
     HandFits, RefsNameChildren, NoRows, NoRefs, StartChild, InBatch, At
<1>18. ASSUME NEW a \in Aid, RollbackSpawn(a) PROVE RefsNameChildren'
  BY <1>18 DEF TypeOK, JoinInv, BatchIsFresh, Live, Starting, Terminal,
     HandFits, RefsNameChildren, NoRows, NoRefs, RollbackSpawn, At
<1>19. ASSUME NEW a \in Aid, RecordResult(a) PROVE RefsNameChildren'
  <2>1. /\ cur[a] \in Call /\ rows[a][cur[a]] # "empty" /\ nextAid' = nextAid /\ par' = par
        /\ stage[a] = "ref" => kid[a] # 0 /\ kid[a] < nextAid /\ par[kid[a]] = a
    BY <1>19, CallInHand DEF RecordResult, HandFits
  <2>2. \A p \in Aid, k \in Call :
            /\ rows'[p][k] = "empty" <=> rows[p][k] = "empty"
            /\ ref'[p][k] = IF p = a /\ k = cur[a] /\ stage[a] = "ref" THEN kid[a] ELSE ref[p][k]
    BY <1>19, <2>1 DEF RecordResult, TypeOK
  <2> QED
    BY <2>1, <2>2 DEF RefsNameChildren
<1>20. ASSUME NEW a \in Aid, FinishBatch(a) PROVE RefsNameChildren'
  BY <1>20 DEF TypeOK, JoinInv, BatchIsFresh, Live, Starting, Terminal,
     HandFits, RefsNameChildren, NoRows, NoRefs, FinishBatch, InBatch, At
<1>21. ASSUME NEW a \in Aid, BatchFails(a) PROVE RefsNameChildren'
  BY <1>21 DEF TypeOK, JoinInv, BatchIsFresh, Live, Starting, Terminal,
     HandFits, RefsNameChildren, NoRows, NoRefs, BatchFails, InBatch, At
<1>22. ASSUME NEW a \in Aid, Return(a) PROVE RefsNameChildren'
  BY <1>22 DEF TypeOK, JoinInv, BatchIsFresh, Live, Starting, Terminal,
     HandFits, RefsNameChildren, NoRows, NoRefs, Return, At, EndNormally,
     EndDriver, ResumeDue
<1>23. ASSUME NEW a \in Aid, CheckpointFails(a) PROVE RefsNameChildren'
  BY <1>23 DEF TypeOK, JoinInv, BatchIsFresh, Live, Starting, Terminal,
     HandFits, RefsNameChildren, NoRows, NoRefs, CheckpointFails, At
<1>24. ASSUME NEW a \in Aid, DiffFails(a) PROVE RefsNameChildren'
  BY <1>24 DEF TypeOK, JoinInv, BatchIsFresh, Live, Starting, Terminal,
     HandFits, RefsNameChildren, NoRows, NoRefs, DiffFails, At
<1>25. ASSUME NEW a \in Aid, Deliver(a) PROVE RefsNameChildren'
  <2>1. \A p \in Aid, k \in Call : rows'[p][k] = "empty" <=> rows[p][k] = "empty"
    BY <1>25, OpenDelivery DEF Deliver
  <2> QED
    BY <1>25, <2>1 DEF Deliver, RefsNameChildren
<1>26. ASSUME NEW a \in Aid, EndDrain(a) PROVE RefsNameChildren'
  BY <1>26 DEF TypeOK, JoinInv, BatchIsFresh, Live, Starting, Terminal,
     HandFits, RefsNameChildren, NoRows, NoRefs, EndDrain, At, EndNormally,
     EndDriver, ResumeDue
<1>27. ASSUME NEW a \in Aid, Killed(a) PROVE RefsNameChildren'
  BY <1>27 DEF TypeOK, JoinInv, BatchIsFresh, Live, Starting, Terminal,
     HandFits, RefsNameChildren, NoRows, NoRefs, Killed, EndDriver, ResumeDue
<1>28. ASSUME NEW a \in Aid, Cancelled(a) PROVE RefsNameChildren'
  BY <1>28 DEF TypeOK, JoinInv, BatchIsFresh, Live, Starting, Terminal,
     HandFits, RefsNameChildren, NoRows, NoRefs, Cancelled
<1>29. ASSUME NEW a \in Aid, Swallow(a) PROVE RefsNameChildren'
  BY <1>29 DEF TypeOK, JoinInv, BatchIsFresh, Live, Starting, Terminal,
     HandFits, RefsNameChildren, NoRows, NoRefs, Swallow
<1>30. ASSUME NEW a \in Aid, NEW k \in Keys, ReserveSpawn(a, k) PROVE RefsNameChildren'
  <2>1. \A p \in Aid, j \in Call : ref[p][j] # NoAid => ref[p][j] \in Aid
    BY DEF TypeOK
  <2>2. rows' = rows /\ ref' = ref
    BY <1>30 DEF ReserveSpawn
  <2>3. nextAid \in Nat /\ \A x \in Aid : x < nextAid => x < nextAid' /\ par'[x] = par[x]
    BY <1>30, Spawning DEF TypeOK, Aid
  <2> QED
    BY <2>1, <2>2, <2>3 DEF RefsNameChildren
<1>31. CASE UNCHANGED vars
  BY <1>31 DEF TypeOK, JoinInv, BatchIsFresh, Live, Starting, Terminal,
     HandFits, RefsNameChildren, NoRows, NoRefs, vars
<1> QED
  BY <1>1, <1>2, <1>3, <1>4, <1>5, <1>6, <1>7, <1>8, <1>9, <1>10, <1>11,
     <1>12, <1>13, <1>14, <1>15, <1>16, <1>17, <1>18, <1>19, <1>20, <1>21,
     <1>22, <1>23, <1>24, <1>25, <1>26, <1>27, <1>28, <1>29, <1>30, <1>31,
     OpenStep

(* Every action keeps HandFits: what the call in hand and the rows of an    *)
(* agent owe its position.                                                  *)
LEMMA HandStep ==
    ASSUME WorkContext, [Next]_vars
    PROVE  \A x \in Aid : HandFits(x)'
<1> USE DEF WorkContext, sessionVars, driverVars, tableVars, batchVars, routeVars, cleanVars, turnVars
<1>1. CASE RestoreTurn
  BY <1>1 DEF TypeOK, JoinInv, BatchIsFresh, Live, Starting, Terminal,
     HandFits, Route, OneRoute, PhaseFits, SettlementIsClosed, RestoreTurn
<1>2. CASE RestoredCancelled
  BY <1>2 DEF TypeOK, JoinInv, BatchIsFresh, Live, Starting, Terminal,
     HandFits, Route, OneRoute, PhaseFits, SettlementIsClosed,
     RestoredCancelled
<1>3. CASE StartTurn
  BY <1>3 DEF TypeOK, JoinInv, BatchIsFresh, Live, Starting, Terminal,
     HandFits, Route, OneRoute, PhaseFits, SettlementIsClosed, StartTurn
<1>4. CASE RequestCancel
  BY <1>4 DEF TypeOK, JoinInv, BatchIsFresh, Live, Starting, Terminal,
     HandFits, Route, OneRoute, PhaseFits, SettlementIsClosed, RequestCancel
<1>5. CASE EndTurn
  BY <1>5 DEF TypeOK, JoinInv, BatchIsFresh, Live, Starting, Terminal,
     HandFits, Route, OneRoute, PhaseFits, SettlementIsClosed, EndTurn
<1>6. CASE StallTurn
  BY <1>6 DEF TypeOK, JoinInv, BatchIsFresh, Live, Starting, Terminal,
     HandFits, Route, OneRoute, PhaseFits, SettlementIsClosed, StallTurn
<1>7. CASE SettleBegin
  <2>1. \A x \in Aid : phase'[x] = "absent" => phase[x] = "absent"
    BY <1>7 DEF SettleBegin
  <2>2. UNCHANGED <<cur, rows, stage, kid, ref, origin, par, nextAid>>
    BY <1>7 DEF SettleBegin
  <2>3. \A x \in Aid : Starting(x) => kid[x] \in Aid
    BY Startup
  <2> QED
    BY <2>1, <2>2, <2>3 DEF HandFits, Route, Starting
<1>8. CASE SettleEnd
  <2>1. PICK S \in SUBSET Aid :
            \A x \in Aid : /\ rows'[x] = IF x \in S THEN NoRows ELSE rows[x]
                           /\ ref'[x] = IF x \in S THEN NoRefs ELSE ref[x]
                           /\ origin'[x] = IF x \in S THEN 0 ELSE origin[x]
                           /\ phase'[x] = IF x \in S /\ phase[x] \notin Terminal
                                          THEN "stopped" ELSE phase[x]
                           /\ x \in S => stage[x] = "model" /\ x \notin Startups
    BY <1>8, Settling
  <2>2. UNCHANGED <<cur, stage, kid, par, nextAid>>
    BY <1>8 DEF SettleEnd
  <2>3. \A x \in Aid : Starting(x) => kid[x] \in Aid /\ kid[x] \notin S
    BY <2>1, Startup DEF Startups
  <2>4. \A x \in Aid : x \in S => cur[x] = 0
    BY <2>1 DEF BatchIsFresh
  <2>5. ASSUME NEW x \in Aid, x \in S PROVE HandFits(x)'
    BY <2>1, <2>2, <2>4, <2>5 DEF HandFits, Starting
  <2>6. ASSUME NEW x \in Aid, x \notin S PROVE HandFits(x)'
    <3>1. rows'[x] = rows[x] /\ ref'[x] = ref[x] /\ HandFits(x)
      BY <2>1, <2>6
    <3>2. Starting(x) => origin'[kid[x]] = origin[kid[x]] /\ phase'[kid[x]] = phase[kid[x]]
      BY <2>1, <2>3
    <3>3. cur[x] # 0 => \A c \in Aid : Route(x, cur[x], c)' => Route(x, cur[x], c)
      BY <2>1, <2>2 DEF Route
    <3>4. stage[x] \in {"issued", "rolledback", "ref"} => cur[x] # 0
      BY <3>1 DEF HandFits
    <3> QED
      BY <2>2, <3>1, <3>2, <3>3, <3>4 DEF HandFits, Route, Starting
  <2> QED
    BY <2>5, <2>6
<1>9. ASSUME NEW a \in Aid, MessageTurn(a) PROVE \A x \in Aid : HandFits(x)'
  BY <1>9 DEF TypeOK, JoinInv, BatchIsFresh, Live, Starting, Terminal,
     HandFits, Route, OneRoute, PhaseFits, SettlementIsClosed, MessageTurn
<1>10. ASSUME NEW a \in Aid, EnterGate(a) PROVE \A x \in Aid : HandFits(x)'
  BY <1>10 DEF TypeOK, JoinInv, BatchIsFresh, Live, Starting, Terminal,
     HandFits, Route, OneRoute, PhaseFits, SettlementIsClosed, EnterGate, At
<1>11. ASSUME NEW a \in Aid, EnterLoop(a) PROVE \A x \in Aid : HandFits(x)'
  BY <1>11 DEF TypeOK, JoinInv, BatchIsFresh, Live, Starting, Terminal,
     HandFits, Route, OneRoute, PhaseFits, SettlementIsClosed, EnterLoop, At
<1>12. ASSUME NEW a \in Aid, Generate(a) PROVE \A x \in Aid : HandFits(x)'
  <2>1. /\ UNCHANGED <<cur, rows, kid, ref, origin, par, nextAid>>
        /\ stage[a] = "model" /\ stage'[a] \in {"model", "next"}
        /\ \A x \in Aid : x # a => stage'[x] = stage[x]
    BY <1>12 DEF Generate, At, BatchIsFresh, TypeOK
  <2>2. \A x \in Aid : phase'[x] = "absent" => phase[x] = "absent"
    BY <1>12 DEF Generate, TypeOK
  <2>3. \A x \in Aid : Starting(x) => kid[x] \in Aid
    BY Startup
  <2> QED
    BY <2>1, <2>2, <2>3 DEF HandFits, Route, Starting
<1>13. ASSUME NEW a \in Aid, IllegalTransition(a) PROVE \A x \in Aid : HandFits(x)'
  BY <1>13 DEF TypeOK, JoinInv, BatchIsFresh, Live, Starting, Terminal,
     HandFits, Route, OneRoute, PhaseFits, SettlementIsClosed,
     IllegalTransition, At
<1>14. ASSUME NEW a \in Aid, IssueCall(a) PROVE \A x \in Aid : HandFits(x)'
  <2>1. /\ stage[a] = "next" /\ cur[a] + 1 \in Call /\ cur[a] + 1 > cur[a]
        /\ UNCHANGED <<phase, kid, ref, origin, par, nextAid>>
    BY <1>14, BoundsAssumption DEF IssueCall, InBatch, TypeOK, Call
  <2>2. rows[a][cur[a] + 1] = "empty" /\ ref[a][cur[a] + 1] = NoAid
    BY <2>1 DEF BatchIsFresh, RefsNameChildren
  <2>3. \A c \in Aid : ~Route(a, cur[a] + 1, c)
    BY <2>1, <2>2 DEF RoutesAreOpen, Route, Call
  <2>4. /\ cur'[a] = cur[a] + 1 /\ stage'[a] = "issued" /\ rows'[a][cur[a] + 1] = "pending"
        /\ \A x \in Aid : x # a => cur'[x] = cur[x] /\ stage'[x] = stage[x] /\ rows'[x] = rows[x]
    BY <1>14, <2>1 DEF IssueCall, TypeOK
  <2>5. HandFits(a)'
    BY <2>1, <2>2, <2>3, <2>4 DEF HandFits, Route, Starting, Call
  <2>6. ASSUME NEW x \in Aid, x # a PROVE HandFits(x)'
    BY <2>1, <2>4, <2>6 DEF HandFits, Route, Starting
  <2> QED
    BY <2>5, <2>6
<1>15. ASSUME NEW a \in Aid, RefuseSpawn(a) PROVE \A x \in Aid : HandFits(x)'
  BY <1>15 DEF TypeOK, JoinInv, BatchIsFresh, Live, Starting, Terminal,
     HandFits, Route, OneRoute, PhaseFits, SettlementIsClosed, RefuseSpawn,
     InBatch, At
<1>16. ASSUME NEW a \in Aid, RegisterChild(a) PROVE \A x \in Aid : HandFits(x)'
  <2>1. /\ stage[a] = "env" /\ Starting(a)
        /\ UNCHANGED <<cur, rows, kid, ref, origin, par, nextAid>>
    BY <1>16 DEF RegisterChild, InBatch, Starting
  <2>2. /\ phase'[kid[a]] = "idle" /\ stage'[a] = "emit"
        /\ \A x \in Aid : /\ x # a => stage'[x] = stage[x]
                          /\ x # kid[a] => phase'[x] = phase[x]
    BY <1>16, <2>1, Startup DEF RegisterChild, TypeOK
  <2> QED
    BY <2>1, <2>2, Startup DEF HandFits, Route, Starting
<1>17. ASSUME NEW a \in Aid, StartChild(a) PROVE \A x \in Aid : HandFits(x)'
  <2>1. /\ stage[a] = "emit" /\ Starting(a)
        /\ UNCHANGED <<phase, cur, rows, kid, ref, origin, par, nextAid>>
    BY <1>17 DEF StartChild, InBatch, Starting
  <2>2. stage'[a] = "ref" /\ \A x \in Aid : x # a => stage'[x] = stage[x]
    BY <1>17 DEF StartChild, TypeOK
  <2>3. HandFits(a)'
    BY <2>1, <2>2, Startup DEF HandFits, Route, Starting, Call
  <2>4. ASSUME NEW x \in Aid, x # a PROVE HandFits(x)'
    BY <2>1, <2>2, <2>4 DEF HandFits, Route, Starting
  <2> QED
    BY <2>3, <2>4
<1>18. ASSUME NEW a \in Aid, RollbackSpawn(a) PROVE \A x \in Aid : HandFits(x)'
  <2>1. /\ Starting(a) /\ UNCHANGED <<cur, rows, ref, par, nextAid>>
    BY <1>18 DEF RollbackSpawn
  <2>2. /\ stage'[a] = "rolledback" /\ origin'[kid[a]] = 0
        /\ \A x \in Aid : /\ x # a => stage'[x] = stage[x] /\ kid'[x] = kid[x]
                          /\ x # kid[a] => origin'[x] = origin[x] /\ phase'[x] = phase[x]
    BY <1>18, <2>1, Startup DEF RollbackSpawn, TypeOK
  <2>3. HandFits(a)'
    BY <2>1, <2>2, Startup DEF HandFits, Route, Starting, Call
  <2>4. ASSUME NEW x \in Aid, x # a PROVE HandFits(x)'
    <3>1. Starting(x) => kid[x] \in Aid /\ kid[x] # kid[a]
      BY <2>1, <2>4, Startup
    <3>2. cur[x] # 0 => \A c \in Aid : Route(x, cur[x], c)' => Route(x, cur[x], c)
      BY <2>1, <2>2 DEF Route
    <3>3. HandFits(x)
      OBVIOUS
    <3> QED
      BY <2>1, <2>2, <2>4, <3>1, <3>2, <3>3 DEF HandFits, Route, Starting
  <2> QED
    BY <2>3, <2>4
<1>19. ASSUME NEW a \in Aid, RecordResult(a) PROVE \A x \in Aid : HandFits(x)'
  BY <1>19 DEF TypeOK, JoinInv, BatchIsFresh, Live, Starting, Terminal,
     HandFits, Route, OneRoute, PhaseFits, SettlementIsClosed, RecordResult,
     At
<1>20. ASSUME NEW a \in Aid, FinishBatch(a) PROVE \A x \in Aid : HandFits(x)'
  BY <1>20 DEF TypeOK, JoinInv, BatchIsFresh, Live, Starting, Terminal,
     HandFits, Route, OneRoute, PhaseFits, SettlementIsClosed, FinishBatch,
     InBatch, At
<1>21. ASSUME NEW a \in Aid, BatchFails(a) PROVE \A x \in Aid : HandFits(x)'
  BY <1>21 DEF TypeOK, JoinInv, BatchIsFresh, Live, Starting, Terminal,
     HandFits, Route, OneRoute, PhaseFits, SettlementIsClosed, BatchFails,
     InBatch, At
<1>22. ASSUME NEW a \in Aid, Return(a) PROVE \A x \in Aid : HandFits(x)'
  BY <1>22 DEF TypeOK, JoinInv, BatchIsFresh, Live, Starting, Terminal,
     HandFits, Route, OneRoute, PhaseFits, SettlementIsClosed, Return, At,
     EndNormally, EndDriver, ResumeDue
<1>23. ASSUME NEW a \in Aid, CheckpointFails(a) PROVE \A x \in Aid : HandFits(x)'
  BY <1>23 DEF TypeOK, JoinInv, BatchIsFresh, Live, Starting, Terminal,
     HandFits, Route, OneRoute, PhaseFits, SettlementIsClosed,
     CheckpointFails, At
<1>24. ASSUME NEW a \in Aid, DiffFails(a) PROVE \A x \in Aid : HandFits(x)'
  BY <1>24 DEF TypeOK, JoinInv, BatchIsFresh, Live, Starting, Terminal,
     HandFits, Route, OneRoute, PhaseFits, SettlementIsClosed, DiffFails, At
<1>25. ASSUME NEW a \in Aid, Deliver(a) PROVE \A x \in Aid : HandFits(x)'
  <2>1. UNCHANGED <<cur, stage, kid, ref, par, nextAid, phase>>
    BY <1>25, OpenDelivery DEF Deliver
  <2>2. CASE origin[a] = 0
    BY <1>25, <2>1, <2>2 DEF Deliver, HandFits, Route, Starting
  <2>3. CASE origin[a] # 0
    <3>1. \A x \in Aid : origin'[x] = IF x = a THEN 0 ELSE origin[x]
      BY <1>25, <2>3, OpenDelivery DEF TypeOK
    <3>2. pc[a] # "none"
      BY <1>25 DEF Deliver, At
    <3>3. ASSUME NEW x \in Aid PROVE HandFits(x)'
      <4>1. Starting(x) => kid[x] \in Aid /\ kid[x] # a
        BY <3>2, Startup
      <4>2. cur[x] # 0 => \A c \in Aid : Route(x, cur[x], c)' => Route(x, cur[x], c)
        BY <2>1, <3>1 DEF Route
      <4>3. cur[x] # 0 => rows'[x][cur[x]] # "empty"
        <5>1. cur[x] # 0 => cur[x] \in Call
          BY BoundsAssumption DEF TypeOK, Call
        <5> QED
          BY <1>25, <2>3, <5>1, OpenDelivery DEF HandFits
      <4>4. stage[x] \in {"issued", "rolledback"} => rows'[x][cur[x]] = rows[x][cur[x]]
        BY <1>25, <2>3, CallInHand, OpenDelivery DEF HandFits, Route
      <4>5. HandFits(x)
        OBVIOUS
      <4> QED
        BY <2>1, <3>1, <4>1, <4>2, <4>3, <4>4, <4>5 DEF HandFits, Route,
           Starting
    <3> QED
      BY <3>3
  <2> QED
    BY <2>2, <2>3
<1>26. ASSUME NEW a \in Aid, EndDrain(a) PROVE \A x \in Aid : HandFits(x)'
  BY <1>26 DEF TypeOK, JoinInv, BatchIsFresh, Live, Starting, Terminal,
     HandFits, Route, OneRoute, PhaseFits, SettlementIsClosed, EndDrain, At,
     EndNormally, EndDriver, ResumeDue
<1>27. ASSUME NEW a \in Aid, Killed(a) PROVE \A x \in Aid : HandFits(x)'
  BY <1>27 DEF TypeOK, JoinInv, BatchIsFresh, Live, Starting, Terminal,
     HandFits, Route, OneRoute, PhaseFits, SettlementIsClosed, Killed,
     EndDriver, ResumeDue
<1>28. ASSUME NEW a \in Aid, Cancelled(a) PROVE \A x \in Aid : HandFits(x)'
  <2>1. /\ UNCHANGED <<par, nextAid>> /\ stage'[a] = "model" /\ cur'[a] = 0
        /\ \A x \in Aid : x # a => /\ stage'[x] = stage[x] /\ cur'[x] = cur[x] /\ kid'[x] = kid[x]
                                   /\ rows'[x] = rows[x] /\ ref'[x] = ref[x]
    BY <1>28 DEF Cancelled, TypeOK
  <2>2. \A x \in Aid : /\ origin'[x] = IF Starting(a) /\ x = kid[a] THEN 0 ELSE origin[x]
                       /\ phase'[x] = "absent" => phase[x] = "absent" \/ (Starting(a) /\ x = kid[a])
    BY <1>28 DEF Cancelled
  <2>3. HandFits(a)'
    BY <2>1 DEF HandFits, Starting
  <2>4. ASSUME NEW x \in Aid, x # a PROVE HandFits(x)'
    <3>1. Starting(x) => kid[x] \in Aid /\ ~(Starting(a) /\ kid[x] = kid[a])
      BY <2>4, Startup
    <3>2. cur[x] # 0 => \A c \in Aid : par'[c] = x /\ origin'[c] = cur[x] => Route(x, cur[x], c)
      BY <2>1, <2>2 DEF Route
    <3>3. HandFits(x)
      OBVIOUS
    <3> QED
      BY <2>1, <2>2, <2>4, <3>1, <3>2, <3>3 DEF HandFits, Route, Starting
  <2> QED
    BY <2>3, <2>4
<1>29. ASSUME NEW a \in Aid, Swallow(a) PROVE \A x \in Aid : HandFits(x)'
  BY <1>29 DEF TypeOK, JoinInv, BatchIsFresh, Live, Starting, Terminal,
     HandFits, Route, OneRoute, PhaseFits, SettlementIsClosed, Swallow
<1>30. ASSUME NEW a \in Aid, NEW k \in Keys, ReserveSpawn(a, k) PROVE \A x \in Aid : HandFits(x)'
  <2>1. UNCHANGED <<cur, rows, ref, phase>>
    BY <1>30 DEF ReserveSpawn
  <2>2. HandFits(a)'
    BY <1>30, <2>1, Spawning, CallInHand DEF HandFits, Route, Starting, Call
  <2>3. ASSUME NEW x \in Aid, x # a PROVE HandFits(x)'
    <3>1. HandFits(x) /\ stage'[x] = stage[x] /\ kid'[x] = kid[x]
      BY <1>30, <2>3, Spawning
    <3>2. Starting(x) \/ stage[x] = "ref" =>
              kid[x] \in Aid /\ kid[x] # nextAid /\ kid[x] < nextAid'
      <4>1. Starting(x) \/ stage[x] = "ref" => kid[x] \in Aid /\ kid[x] < nextAid
        BY Startup DEF HandFits
      <4>2. nextAid \in Nat /\ ~(nextAid < nextAid) /\ \A y \in Aid : y < nextAid => y < nextAid'
        BY <1>30, Spawning DEF TypeOK
      <4> QED
        BY <4>1, <4>2
    <3>3. Starting(x) \/ stage[x] = "ref" =>
              /\ par'[kid[x]] = par[kid[x]] /\ origin'[kid[x]] = origin[kid[x]]
      BY <1>30, <3>2, Spawning
    <3>4. cur[x] # 0 => \A c \in Aid : par'[c] = x /\ origin'[c] = cur[x] => Route(x, cur[x], c)
      BY <1>30, <2>3, Spawning DEF Route
    <3> QED
      BY <2>1, <3>1, <3>2, <3>3, <3>4 DEF HandFits, Route, Starting
  <2> QED
    BY <2>2, <2>3
<1>31. CASE UNCHANGED vars
  BY <1>31 DEF TypeOK, JoinInv, BatchIsFresh, Live, Starting, Terminal,
     HandFits, Route, OneRoute, PhaseFits, SettlementIsClosed, vars
<1> QED
  BY <1>1, <1>2, <1>3, <1>4, <1>5, <1>6, <1>7, <1>8, <1>9, <1>10, <1>11,
     <1>12, <1>13, <1>14, <1>15, <1>16, <1>17, <1>18, <1>19, <1>20, <1>21,
     <1>22, <1>23, <1>24, <1>25, <1>26, <1>27, <1>28, <1>29, <1>30, <1>31,
     OpenStep

(* Every action keeps WorkFits: a child at work has a route or is on its    *)
(* way to one.                                                              *)
LEMMA WorkStep ==
    ASSUME WorkContext, [Next]_vars
    PROVE  \A x \in Aid : WorkFits(x)'
<1> USE DEF WorkContext, sessionVars, driverVars, tableVars, batchVars, routeVars, cleanVars, turnVars
<1>1. CASE RestoreTurn
  BY <1>1 DEF TypeOK, JoinInv, BatchIsFresh, Live, Starting, Terminal,
     WorkFits, Startups, Producing, PhaseFits, SettlementIsClosed, RestoreTurn
<1>2. CASE RestoredCancelled
  BY <1>2 DEF TypeOK, JoinInv, BatchIsFresh, Live, Starting, Terminal,
     WorkFits, Startups, Producing, PhaseFits, SettlementIsClosed,
     RestoredCancelled
<1>3. CASE StartTurn
  BY <1>3 DEF TypeOK, JoinInv, BatchIsFresh, Live, Starting, Terminal,
     WorkFits, Startups, Producing, PhaseFits, SettlementIsClosed, StartTurn
<1>4. CASE RequestCancel
  BY <1>4 DEF TypeOK, JoinInv, BatchIsFresh, Live, Starting, Terminal,
     WorkFits, Startups, Producing, PhaseFits, SettlementIsClosed,
     RequestCancel
<1>5. CASE EndTurn
  BY <1>5 DEF TypeOK, JoinInv, BatchIsFresh, Live, Starting, Terminal,
     WorkFits, Startups, Producing, PhaseFits, SettlementIsClosed, EndTurn
<1>6. CASE StallTurn
  BY <1>6 DEF TypeOK, JoinInv, BatchIsFresh, Live, Starting, Terminal,
     WorkFits, Startups, Producing, PhaseFits, SettlementIsClosed, StallTurn
<1>7. CASE SettleBegin
  BY <1>7 DEF TypeOK, JoinInv, BatchIsFresh, Live, Starting, Terminal,
     WorkFits, Startups, Producing, PhaseFits, SettlementIsClosed, SettleBegin
<1>8. CASE SettleEnd
  BY <1>8 DEF TypeOK, JoinInv, BatchIsFresh, Live, Starting, Terminal,
     WorkFits, Startups, Producing, PhaseFits, SettlementIsClosed, SettleEnd
<1>9. ASSUME NEW a \in Aid, MessageTurn(a) PROVE \A x \in Aid : WorkFits(x)'
  BY <1>9 DEF TypeOK, JoinInv, BatchIsFresh, Live, Starting, Terminal,
     WorkFits, Startups, Producing, PhaseFits, SettlementIsClosed, MessageTurn
<1>10. ASSUME NEW a \in Aid, EnterGate(a) PROVE \A x \in Aid : WorkFits(x)'
  BY <1>10 DEF TypeOK, JoinInv, BatchIsFresh, Live, Starting, Terminal,
     WorkFits, Startups, Producing, PhaseFits, SettlementIsClosed, EnterGate,
     At
<1>11. ASSUME NEW a \in Aid, EnterLoop(a) PROVE \A x \in Aid : WorkFits(x)'
  BY <1>11 DEF TypeOK, JoinInv, BatchIsFresh, Live, Starting, Terminal,
     WorkFits, Startups, Producing, PhaseFits, SettlementIsClosed, EnterLoop,
     At
<1>12. ASSUME NEW a \in Aid, Generate(a) PROVE \A x \in Aid : WorkFits(x)'
  <2>1. \A x \in Aid : Starting(x)' <=> Starting(x)
    BY <1>12 DEF Generate, At, Starting, TypeOK, BatchIsFresh
  <2>2. \A x \in Aid : Starting(x) => kid'[x] = kid[x]
    BY <1>12 DEF Generate, At, Starting, TypeOK, BatchIsFresh
  <2>3. Startups' = Startups
    BY <2>1, <2>2 DEF Startups
  <2> QED
    BY <1>12, <2>3 DEF WorkFits, Producing, PhaseFits, Generate, At, Starting,
       TypeOK, BatchIsFresh
<1>13. ASSUME NEW a \in Aid, IllegalTransition(a) PROVE \A x \in Aid : WorkFits(x)'
  BY <1>13 DEF TypeOK, JoinInv, BatchIsFresh, Live, Starting, Terminal,
     WorkFits, Startups, Producing, PhaseFits, SettlementIsClosed,
     IllegalTransition, At
<1>14. ASSUME NEW a \in Aid, IssueCall(a) PROVE \A x \in Aid : WorkFits(x)'
  <2>1. \A x \in Aid : Starting(x)' <=> Starting(x)
    BY <1>14 DEF IssueCall, InBatch, Starting, TypeOK, BatchIsFresh
  <2>2. \A x \in Aid : Starting(x) => kid'[x] = kid[x]
    BY <1>14 DEF IssueCall, InBatch, Starting, TypeOK, BatchIsFresh
  <2>3. Startups' = Startups
    BY <2>1, <2>2 DEF Startups
  <2> QED
    BY <1>14, <2>3 DEF WorkFits, Producing, PhaseFits, IssueCall, InBatch,
       Starting, TypeOK, BatchIsFresh
<1>15. ASSUME NEW a \in Aid, RefuseSpawn(a) PROVE \A x \in Aid : WorkFits(x)'
  <2>1. \A x \in Aid : Starting(x)' <=> Starting(x)
    BY <1>15 DEF RefuseSpawn, InBatch, Starting, TypeOK, BatchIsFresh
  <2>2. \A x \in Aid : Starting(x) => kid'[x] = kid[x]
    BY <1>15 DEF RefuseSpawn, InBatch, Starting, TypeOK, BatchIsFresh
  <2>3. Startups' = Startups
    BY <2>1, <2>2 DEF Startups
  <2> QED
    BY <1>15, <2>3 DEF WorkFits, Producing, PhaseFits, RefuseSpawn, InBatch,
       Starting, TypeOK, BatchIsFresh
<1>16. ASSUME NEW a \in Aid, RegisterChild(a) PROVE \A x \in Aid : WorkFits(x)'
  BY <1>16 DEF TypeOK, JoinInv, BatchIsFresh, Live, Starting, Terminal,
     WorkFits, Startups, Producing, PhaseFits, SettlementIsClosed,
     RegisterChild, InBatch, At
<1>17. ASSUME NEW a \in Aid, StartChild(a) PROVE \A x \in Aid : WorkFits(x)'
  <2>1. /\ Starting(a) /\ stage[a] = "emit" /\ UNCHANGED <<phase, origin, par, key, kid, nextAid, settling, subtree>>
    BY <1>17 DEF StartChild, InBatch, Starting
  <2>2. /\ stage'[a] = "ref" /\ \A x \in Aid : x # a => stage'[x] = stage[x]
        /\ pc'[kid[a]] = "created" /\ \A x \in Aid : x # kid[a] => pc'[x] = pc[x]
    BY <1>17, <2>1, Startup DEF StartChild, TypeOK
  <2>3. \A c \in Aid : c # kid[a] => (c \in Startups' <=> c \in Startups)
    BY <2>1, <2>2 DEF Startups, Starting
  <2>4. kid[a] \in Startups /\ phase[kid[a]] # "absent"
    BY <2>1 DEF Startups, HandFits
  <2>5. ASSUME NEW c \in Aid, c # kid[a] PROVE WorkFits(c)'
    BY <2>1, <2>2, <2>3, <2>5 DEF WorkFits, Producing
  <2>6. WorkFits(kid[a])'
    BY <2>1, <2>2, <2>4, Startup DEF WorkFits, Producing
  <2>7. kid'[a] = kid[a] /\ kid[a] \in Aid
    BY <2>1, Startup
  <2> QED
    BY <2>5, <2>6, <2>7
<1>18. ASSUME NEW a \in Aid, RollbackSpawn(a) PROVE \A x \in Aid : WorkFits(x)'
  BY <1>18 DEF TypeOK, JoinInv, BatchIsFresh, Live, Starting, Terminal,
     WorkFits, Startups, Producing, PhaseFits, SettlementIsClosed,
     RollbackSpawn, At
<1>19. ASSUME NEW a \in Aid, RecordResult(a) PROVE \A x \in Aid : WorkFits(x)'
  <2>1. \A x \in Aid : Starting(x)' <=> Starting(x)
    BY <1>19 DEF RecordResult, At, Starting, TypeOK, BatchIsFresh
  <2>2. \A x \in Aid : Starting(x) => kid'[x] = kid[x]
    BY <1>19 DEF RecordResult, At, Starting, TypeOK, BatchIsFresh
  <2>3. Startups' = Startups
    BY <2>1, <2>2 DEF Startups
  <2> QED
    BY <1>19, <2>3 DEF WorkFits, Producing, PhaseFits, RecordResult, At,
       Starting, TypeOK, BatchIsFresh
<1>20. ASSUME NEW a \in Aid, FinishBatch(a) PROVE \A x \in Aid : WorkFits(x)'
  <2>1. \A x \in Aid : Starting(x)' <=> Starting(x)
    BY <1>20 DEF FinishBatch, InBatch, At, Starting, TypeOK, BatchIsFresh
  <2>2. \A x \in Aid : Starting(x) => kid'[x] = kid[x]
    BY <1>20 DEF FinishBatch, InBatch, At, Starting, TypeOK, BatchIsFresh
  <2>3. Startups' = Startups
    BY <2>1, <2>2 DEF Startups
  <2> QED
    BY <1>20, <2>3 DEF WorkFits, Producing, PhaseFits, FinishBatch, InBatch,
       At, Starting, TypeOK, BatchIsFresh
<1>21. ASSUME NEW a \in Aid, BatchFails(a) PROVE \A x \in Aid : WorkFits(x)'
  <2>1. \A x \in Aid : Starting(x)' <=> Starting(x)
    BY <1>21 DEF BatchFails, InBatch, At, Starting, TypeOK, BatchIsFresh
  <2>2. \A x \in Aid : Starting(x) => kid'[x] = kid[x]
    BY <1>21 DEF BatchFails, InBatch, At, Starting, TypeOK, BatchIsFresh
  <2>3. Startups' = Startups
    BY <2>1, <2>2 DEF Startups
  <2> QED
    BY <1>21, <2>3 DEF WorkFits, Producing, PhaseFits, BatchFails, InBatch,
       At, Starting, TypeOK, BatchIsFresh
<1>22. ASSUME NEW a \in Aid, Return(a) PROVE \A x \in Aid : WorkFits(x)'
  <2>1. /\ pc[a] = "ret" /\ phase' = phase /\ \A x \in Aid : x # a => pc'[x] = pc[x]
        /\ UNCHANGED <<origin, par, nextAid, settling, subtree, stage, kid>>
        /\ \A x \in Aid : x # a => key'[x] = key[x]
        /\ \/ phase[a] = "awaiting" /\ key'[a] = key[a] /\ pc'[a] \in {"none", "created"}
           \/ key'[a] = NoKey /\ pc'[a] = "ended"
    BY <1>22 DEF Return, At, EndNormally, EndDriver, TypeOK
  <2>2. Startups' = Startups
    BY <2>1 DEF Startups, Starting
  <2> QED
    BY <2>1, <2>2 DEF WorkFits, Producing
<1>23. ASSUME NEW a \in Aid, CheckpointFails(a) PROVE \A x \in Aid : WorkFits(x)'
  BY <1>23 DEF TypeOK, JoinInv, BatchIsFresh, Live, Starting, Terminal,
     WorkFits, Startups, Producing, PhaseFits, SettlementIsClosed,
     CheckpointFails, At
<1>24. ASSUME NEW a \in Aid, DiffFails(a) PROVE \A x \in Aid : WorkFits(x)'
  BY <1>24 DEF TypeOK, JoinInv, BatchIsFresh, Live, Starting, Terminal,
     WorkFits, Startups, Producing, PhaseFits, SettlementIsClosed, DiffFails,
     At
<1>25. ASSUME NEW a \in Aid, Deliver(a) PROVE \A x \in Aid : WorkFits(x)'
  BY <1>25 DEF TypeOK, JoinInv, BatchIsFresh, Live, Starting, Terminal,
     WorkFits, Startups, Producing, PhaseFits, SettlementIsClosed, Deliver,
     At, Resume, ResumeDue
<1>26. ASSUME NEW a \in Aid, EndDrain(a) PROVE \A x \in Aid : WorkFits(x)'
  BY <1>26 DEF TypeOK, JoinInv, BatchIsFresh, Live, Starting, Terminal,
     WorkFits, Startups, Producing, PhaseFits, SettlementIsClosed, EndDrain,
     At, EndNormally, EndDriver, ResumeDue
<1>27. ASSUME NEW a \in Aid, Killed(a) PROVE \A x \in Aid : WorkFits(x)'
  BY <1>27 DEF TypeOK, JoinInv, BatchIsFresh, Live, Starting, Terminal,
     WorkFits, Startups, Producing, PhaseFits, SettlementIsClosed, Killed,
     EndDriver, ResumeDue
<1>28. ASSUME NEW a \in Aid, Cancelled(a) PROVE \A x \in Aid : WorkFits(x)'
  BY <1>28 DEF TypeOK, JoinInv, BatchIsFresh, Live, Starting, Terminal,
     WorkFits, Startups, Producing, PhaseFits, SettlementIsClosed, Cancelled
<1>29. ASSUME NEW a \in Aid, Swallow(a) PROVE \A x \in Aid : WorkFits(x)'
  BY <1>29 DEF TypeOK, JoinInv, BatchIsFresh, Live, Starting, Terminal,
     WorkFits, Startups, Producing, PhaseFits, SettlementIsClosed, Swallow
<1>30. ASSUME NEW a \in Aid, NEW k \in Keys, ReserveSpawn(a, k) PROVE \A x \in Aid : WorkFits(x)'
  <2>1. UNCHANGED <<pc, phase, settling, subtree>>
    BY <1>30 DEF ReserveSpawn
  <2>2. nextAid \in Startups'
    BY <1>30, Spawning DEF Startups, Starting
  <2>3. \A c \in Aid : c # nextAid => (c \in Startups' <=> c \in Startups)
    BY <1>30, Spawning DEF Startups, Starting
  <2>4. PICK n \in Aid : n = nextAid
    BY <1>30, Spawning
  <2>5. WorkFits(n)'
    <3>1. /\ n # 0 /\ ~(n >= nextAid') /\ par'[n] = a /\ a < n /\ pc'[n] = "none"
          /\ n \in Startups'
      BY <1>30, <2>1, <2>2, <2>4, Spawning DEF Aid
    <3> QED
      BY <3>1 DEF WorkFits, Producing
  <2>6. ASSUME NEW c \in Aid, c # n PROVE WorkFits(c)'
    <3>1. WorkFits(c) /\ origin'[c] = origin[c] /\ key'[c] = key[c] /\ par'[c] = par[c]
      BY <1>30, <2>4, <2>6, Spawning
    <3>2. c >= nextAid' => c >= nextAid
      <4>1. nextAid \in Aid /\ nextAid' = nextAid + 1
        BY <1>30, Spawning
      <4>2. c \in Nat /\ nextAid \in Nat
        BY <4>1 DEF Aid
      <4> QED
        BY <4>1, <4>2
    <3> QED
      BY <2>1, <2>3, <2>4, <2>6, <3>1, <3>2 DEF WorkFits, Producing
  <2> QED
    BY <2>5, <2>6
<1>31. CASE UNCHANGED vars
  BY <1>31 DEF TypeOK, JoinInv, BatchIsFresh, Live, Starting, Terminal,
     WorkFits, Startups, Producing, PhaseFits, SettlementIsClosed, vars
<1> QED
  BY <1>1, <1>2, <1>3, <1>4, <1>5, <1>6, <1>7, <1>8, <1>9, <1>10, <1>11,
     <1>12, <1>13, <1>14, <1>15, <1>16, <1>17, <1>18, <1>19, <1>20, <1>21,
     <1>22, <1>23, <1>24, <1>25, <1>26, <1>27, <1>28, <1>29, <1>30, <1>31,
     OpenStep

(* Every action keeps OneRoute: no call waits for two children.             *)
LEMMA OneRouteStep ==
    ASSUME WorkContext, [Next]_vars
    PROVE  OneRoute'
<1> USE DEF WorkContext, sessionVars, driverVars, tableVars, batchVars, routeVars, cleanVars, turnVars
<1>1. CASE RestoreTurn
  BY <1>1 DEF TypeOK, JoinInv, BatchIsFresh, Live, Starting, Terminal,
     HandFits, WorkFits, OneRoute, Route, RestoreTurn
<1>2. CASE RestoredCancelled
  BY <1>2 DEF TypeOK, JoinInv, BatchIsFresh, Live, Starting, Terminal,
     HandFits, WorkFits, OneRoute, Route, RestoredCancelled
<1>3. CASE StartTurn
  BY <1>3 DEF TypeOK, JoinInv, BatchIsFresh, Live, Starting, Terminal,
     HandFits, WorkFits, OneRoute, Route, StartTurn
<1>4. CASE RequestCancel
  BY <1>4 DEF TypeOK, JoinInv, BatchIsFresh, Live, Starting, Terminal,
     HandFits, WorkFits, OneRoute, Route, RequestCancel
<1>5. CASE EndTurn
  BY <1>5 DEF TypeOK, JoinInv, BatchIsFresh, Live, Starting, Terminal,
     HandFits, WorkFits, OneRoute, Route, EndTurn
<1>6. CASE StallTurn
  BY <1>6 DEF TypeOK, JoinInv, BatchIsFresh, Live, Starting, Terminal,
     HandFits, WorkFits, OneRoute, Route, StallTurn
<1>7. CASE SettleBegin
  BY <1>7 DEF TypeOK, JoinInv, BatchIsFresh, Live, Starting, Terminal,
     HandFits, WorkFits, OneRoute, Route, SettleBegin
<1>8. CASE SettleEnd
  BY <1>8 DEF TypeOK, JoinInv, BatchIsFresh, Live, Starting, Terminal,
     HandFits, WorkFits, OneRoute, Route, SettleEnd
<1>9. ASSUME NEW a \in Aid, MessageTurn(a) PROVE OneRoute'
  BY <1>9 DEF TypeOK, JoinInv, BatchIsFresh, Live, Starting, Terminal,
     HandFits, WorkFits, OneRoute, Route, MessageTurn
<1>10. ASSUME NEW a \in Aid, EnterGate(a) PROVE OneRoute'
  BY <1>10 DEF TypeOK, JoinInv, BatchIsFresh, Live, Starting, Terminal,
     HandFits, WorkFits, OneRoute, Route, EnterGate, At
<1>11. ASSUME NEW a \in Aid, EnterLoop(a) PROVE OneRoute'
  BY <1>11 DEF TypeOK, JoinInv, BatchIsFresh, Live, Starting, Terminal,
     HandFits, WorkFits, OneRoute, Route, EnterLoop, At
<1>12. ASSUME NEW a \in Aid, Generate(a) PROVE OneRoute'
  BY <1>12 DEF TypeOK, JoinInv, BatchIsFresh, Live, Starting, Terminal,
     HandFits, WorkFits, OneRoute, Route, Generate, At
<1>13. ASSUME NEW a \in Aid, IllegalTransition(a) PROVE OneRoute'
  BY <1>13 DEF TypeOK, JoinInv, BatchIsFresh, Live, Starting, Terminal,
     HandFits, WorkFits, OneRoute, Route, IllegalTransition, At
<1>14. ASSUME NEW a \in Aid, IssueCall(a) PROVE OneRoute'
  BY <1>14 DEF TypeOK, JoinInv, BatchIsFresh, Live, Starting, Terminal,
     HandFits, WorkFits, OneRoute, Route, IssueCall, InBatch, At
<1>15. ASSUME NEW a \in Aid, RefuseSpawn(a) PROVE OneRoute'
  BY <1>15 DEF TypeOK, JoinInv, BatchIsFresh, Live, Starting, Terminal,
     HandFits, WorkFits, OneRoute, Route, RefuseSpawn, InBatch, At
<1>16. ASSUME NEW a \in Aid, RegisterChild(a) PROVE OneRoute'
  BY <1>16 DEF TypeOK, JoinInv, BatchIsFresh, Live, Starting, Terminal,
     HandFits, WorkFits, OneRoute, Route, RegisterChild, InBatch, At
<1>17. ASSUME NEW a \in Aid, StartChild(a) PROVE OneRoute'
  BY <1>17 DEF TypeOK, JoinInv, BatchIsFresh, Live, Starting, Terminal,
     HandFits, WorkFits, OneRoute, Route, StartChild, InBatch, At
<1>18. ASSUME NEW a \in Aid, RollbackSpawn(a) PROVE OneRoute'
  BY <1>18 DEF TypeOK, JoinInv, BatchIsFresh, Live, Starting, Terminal,
     HandFits, WorkFits, OneRoute, Route, RollbackSpawn, At
<1>19. ASSUME NEW a \in Aid, RecordResult(a) PROVE OneRoute'
  BY <1>19 DEF TypeOK, JoinInv, BatchIsFresh, Live, Starting, Terminal,
     HandFits, WorkFits, OneRoute, Route, RecordResult, At
<1>20. ASSUME NEW a \in Aid, FinishBatch(a) PROVE OneRoute'
  BY <1>20 DEF TypeOK, JoinInv, BatchIsFresh, Live, Starting, Terminal,
     HandFits, WorkFits, OneRoute, Route, FinishBatch, InBatch, At
<1>21. ASSUME NEW a \in Aid, BatchFails(a) PROVE OneRoute'
  BY <1>21 DEF TypeOK, JoinInv, BatchIsFresh, Live, Starting, Terminal,
     HandFits, WorkFits, OneRoute, Route, BatchFails, InBatch, At
<1>22. ASSUME NEW a \in Aid, Return(a) PROVE OneRoute'
  BY <1>22 DEF TypeOK, JoinInv, BatchIsFresh, Live, Starting, Terminal,
     HandFits, WorkFits, OneRoute, Route, Return, At, EndNormally, EndDriver,
     ResumeDue
<1>23. ASSUME NEW a \in Aid, CheckpointFails(a) PROVE OneRoute'
  BY <1>23 DEF TypeOK, JoinInv, BatchIsFresh, Live, Starting, Terminal,
     HandFits, WorkFits, OneRoute, Route, CheckpointFails, At
<1>24. ASSUME NEW a \in Aid, DiffFails(a) PROVE OneRoute'
  BY <1>24 DEF TypeOK, JoinInv, BatchIsFresh, Live, Starting, Terminal,
     HandFits, WorkFits, OneRoute, Route, DiffFails, At
<1>25. ASSUME NEW a \in Aid, Deliver(a) PROVE OneRoute'
  <2>1. \A x \in Aid : origin'[x] = origin[x] \/ origin'[x] = 0
    BY <1>25, OpenDelivery DEF Deliver, TypeOK
  <2> QED
    BY <1>25, <2>1 DEF Deliver, OneRoute, Route
<1>26. ASSUME NEW a \in Aid, EndDrain(a) PROVE OneRoute'
  BY <1>26 DEF TypeOK, JoinInv, BatchIsFresh, Live, Starting, Terminal,
     HandFits, WorkFits, OneRoute, Route, EndDrain, At, EndNormally,
     EndDriver, ResumeDue
<1>27. ASSUME NEW a \in Aid, Killed(a) PROVE OneRoute'
  BY <1>27 DEF TypeOK, JoinInv, BatchIsFresh, Live, Starting, Terminal,
     HandFits, WorkFits, OneRoute, Route, Killed, EndDriver, ResumeDue
<1>28. ASSUME NEW a \in Aid, Cancelled(a) PROVE OneRoute'
  BY <1>28 DEF TypeOK, JoinInv, BatchIsFresh, Live, Starting, Terminal,
     HandFits, WorkFits, OneRoute, Route, Cancelled
<1>29. ASSUME NEW a \in Aid, Swallow(a) PROVE OneRoute'
  BY <1>29 DEF TypeOK, JoinInv, BatchIsFresh, Live, Starting, Terminal,
     HandFits, WorkFits, OneRoute, Route, Swallow
<1>30. ASSUME NEW a \in Aid, NEW k \in Keys, ReserveSpawn(a, k) PROVE OneRoute'
  BY <1>30 DEF TypeOK, JoinInv, BatchIsFresh, Live, Starting, Terminal,
     HandFits, WorkFits, OneRoute, Route, ReserveSpawn, InBatch, At
<1>31. CASE UNCHANGED vars
  BY <1>31 DEF TypeOK, JoinInv, BatchIsFresh, Live, Starting, Terminal,
     HandFits, WorkFits, OneRoute, Route, vars
<1> QED
  BY <1>1, <1>2, <1>3, <1>4, <1>5, <1>6, <1>7, <1>8, <1>9, <1>10, <1>11,
     <1>12, <1>13, <1>14, <1>15, <1>16, <1>17, <1>18, <1>19, <1>20, <1>21,
     <1>22, <1>23, <1>24, <1>25, <1>26, <1>27, <1>28, <1>29, <1>30, <1>31,
     OpenStep

(* Every action keeps RoutesAreOpen: a route leads to an open row.          *)
LEMMA RoutesStep ==
    ASSUME WorkContext, [Next]_vars
    PROVE  RoutesAreOpen'
<1> USE DEF WorkContext, sessionVars, driverVars, tableVars, batchVars, routeVars, cleanVars, turnVars
<1>1. CASE RestoreTurn
  BY <1>1 DEF TypeOK, JoinInv, BatchIsFresh, Live, Starting, Terminal,
     RoutesAreOpen, HandFits, Route, RestoreTurn
<1>2. CASE RestoredCancelled
  BY <1>2 DEF TypeOK, JoinInv, BatchIsFresh, Live, Starting, Terminal,
     RoutesAreOpen, HandFits, Route, RestoredCancelled
<1>3. CASE StartTurn
  BY <1>3 DEF TypeOK, JoinInv, BatchIsFresh, Live, Starting, Terminal,
     RoutesAreOpen, HandFits, Route, StartTurn
<1>4. CASE RequestCancel
  BY <1>4 DEF TypeOK, JoinInv, BatchIsFresh, Live, Starting, Terminal,
     RoutesAreOpen, HandFits, Route, RequestCancel
<1>5. CASE EndTurn
  BY <1>5 DEF TypeOK, JoinInv, BatchIsFresh, Live, Starting, Terminal,
     RoutesAreOpen, HandFits, Route, EndTurn
<1>6. CASE StallTurn
  BY <1>6 DEF TypeOK, JoinInv, BatchIsFresh, Live, Starting, Terminal,
     RoutesAreOpen, HandFits, Route, StallTurn
<1>7. CASE SettleBegin
  BY <1>7 DEF TypeOK, JoinInv, BatchIsFresh, Live, Starting, Terminal,
     RoutesAreOpen, HandFits, Route, SettleBegin
<1>8. CASE SettleEnd
  <2>1. \A x \in Aid : origin'[x] # 0 => origin[x] # 0 /\ origin'[x] = origin[x] /\ par[x] \in Aid
                       /\ rows'[par[x]] = rows[par[x]] /\ ref'[par[x]] = ref[par[x]]
    BY <1>8, Settling DEF TypeOK
  <2>2. par' = par
    BY <1>8 DEF SettleEnd
  <2> QED
    BY <2>1, <2>2 DEF RoutesAreOpen
<1>9. ASSUME NEW a \in Aid, MessageTurn(a) PROVE RoutesAreOpen'
  BY <1>9 DEF TypeOK, JoinInv, BatchIsFresh, Live, Starting, Terminal,
     RoutesAreOpen, HandFits, Route, MessageTurn
<1>10. ASSUME NEW a \in Aid, EnterGate(a) PROVE RoutesAreOpen'
  BY <1>10 DEF TypeOK, JoinInv, BatchIsFresh, Live, Starting, Terminal,
     RoutesAreOpen, HandFits, Route, EnterGate, At
<1>11. ASSUME NEW a \in Aid, EnterLoop(a) PROVE RoutesAreOpen'
  <2>1. \A c \in Aid : origin[c] # 0 => origin[c] \in Call /\ par[c] \in Aid
    BY RouteIsTyped
  <2>2. rows' # rows \/ ref' # ref => IsComplete(rows[a])
    BY <1>11 DEF EnterLoop
  <2>3. \A x \in Aid : x # a => rows'[x] = rows[x] /\ ref'[x] = ref[x]
    BY <1>11 DEF EnterLoop, TypeOK
  <2>4. IsComplete(rows[a]) => \A c \in Aid : origin[c] # 0 => par[c] # a
    BY <2>1 DEF RoutesAreOpen, IsComplete
  <2> QED
    BY <1>11, <2>1, <2>2, <2>3, <2>4 DEF EnterLoop, RoutesAreOpen
<1>12. ASSUME NEW a \in Aid, Generate(a) PROVE RoutesAreOpen'
  BY <1>12 DEF TypeOK, JoinInv, BatchIsFresh, Live, Starting, Terminal,
     RoutesAreOpen, HandFits, Route, Generate, At
<1>13. ASSUME NEW a \in Aid, IllegalTransition(a) PROVE RoutesAreOpen'
  BY <1>13 DEF TypeOK, JoinInv, BatchIsFresh, Live, Starting, Terminal,
     RoutesAreOpen, HandFits, Route, IllegalTransition, At
<1>14. ASSUME NEW a \in Aid, IssueCall(a) PROVE RoutesAreOpen'
  BY <1>14 DEF TypeOK, JoinInv, BatchIsFresh, Live, Starting, Terminal,
     RoutesAreOpen, HandFits, Route, IssueCall, InBatch, At
<1>15. ASSUME NEW a \in Aid, RefuseSpawn(a) PROVE RoutesAreOpen'
  BY <1>15 DEF TypeOK, JoinInv, BatchIsFresh, Live, Starting, Terminal,
     RoutesAreOpen, HandFits, Route, RefuseSpawn, InBatch, At
<1>16. ASSUME NEW a \in Aid, RegisterChild(a) PROVE RoutesAreOpen'
  BY <1>16 DEF TypeOK, JoinInv, BatchIsFresh, Live, Starting, Terminal,
     RoutesAreOpen, HandFits, Route, RegisterChild, InBatch, At
<1>17. ASSUME NEW a \in Aid, StartChild(a) PROVE RoutesAreOpen'
  BY <1>17 DEF TypeOK, JoinInv, BatchIsFresh, Live, Starting, Terminal,
     RoutesAreOpen, HandFits, Route, StartChild, InBatch, At
<1>18. ASSUME NEW a \in Aid, RollbackSpawn(a) PROVE RoutesAreOpen'
  BY <1>18 DEF TypeOK, JoinInv, BatchIsFresh, Live, Starting, Terminal,
     RoutesAreOpen, HandFits, Route, RollbackSpawn, At
<1>19. ASSUME NEW a \in Aid, RecordResult(a) PROVE RoutesAreOpen'
  <2>1. /\ stage[a] \in {"ref", "rolledback"} /\ cur[a] \in Call /\ origin' = origin /\ par' = par
        /\ \A c \in Aid : Route(a, cur[a], c) => c = kid[a] /\ stage[a] # "rolledback"
    BY <1>19, InHand DEF RecordResult
  <2>2. \A p \in Aid, k \in Call :
            /\ rows'[p][k] = rows[p][k] \/ (p = a /\ k = cur[a] /\ stage[a] = "rolledback")
            /\ ref'[p][k] = ref[p][k] \/ (p = a /\ k = cur[a] /\ ref'[p][k] = kid[a])
    BY <1>19, <2>1 DEF RecordResult, TypeOK
  <2>3. \A c \in Aid : origin[c] # 0 => origin[c] \in Call /\ par[c] \in Aid
    BY RouteIsTyped
  <2> QED
    BY <1>19, <2>1, <2>2, <2>3 DEF RoutesAreOpen, Route
<1>20. ASSUME NEW a \in Aid, FinishBatch(a) PROVE RoutesAreOpen'
  <2>1. \A c \in Aid : origin[c] # 0 => origin[c] \in Call /\ par[c] \in Aid
    BY RouteIsTyped
  <2>2. rows' # rows \/ ref' # ref => IsComplete(rows[a])
    BY <1>20 DEF FinishBatch
  <2>3. \A x \in Aid : x # a => rows'[x] = rows[x] /\ ref'[x] = ref[x]
    BY <1>20 DEF FinishBatch, TypeOK
  <2>4. IsComplete(rows[a]) => \A c \in Aid : origin[c] # 0 => par[c] # a
    BY <2>1 DEF RoutesAreOpen, IsComplete
  <2> QED
    BY <1>20, <2>1, <2>2, <2>3, <2>4 DEF FinishBatch, RoutesAreOpen
<1>21. ASSUME NEW a \in Aid, BatchFails(a) PROVE RoutesAreOpen'
  BY <1>21 DEF TypeOK, JoinInv, BatchIsFresh, Live, Starting, Terminal,
     RoutesAreOpen, HandFits, Route, BatchFails, InBatch, At
<1>22. ASSUME NEW a \in Aid, Return(a) PROVE RoutesAreOpen'
  BY <1>22 DEF TypeOK, JoinInv, BatchIsFresh, Live, Starting, Terminal,
     RoutesAreOpen, HandFits, Route, Return, At, EndNormally, EndDriver,
     ResumeDue
<1>23. ASSUME NEW a \in Aid, CheckpointFails(a) PROVE RoutesAreOpen'
  BY <1>23 DEF TypeOK, JoinInv, BatchIsFresh, Live, Starting, Terminal,
     RoutesAreOpen, HandFits, Route, CheckpointFails, At
<1>24. ASSUME NEW a \in Aid, DiffFails(a) PROVE RoutesAreOpen'
  BY <1>24 DEF TypeOK, JoinInv, BatchIsFresh, Live, Starting, Terminal,
     RoutesAreOpen, HandFits, Route, DiffFails, At
<1>25. ASSUME NEW a \in Aid, Deliver(a) PROVE RoutesAreOpen'
  <2>1. CASE origin[a] = 0
    BY <1>25, <2>1 DEF Deliver, RoutesAreOpen
  <2>2. CASE origin[a] # 0
    <3>1. \A c \in Aid : origin'[c] # 0 => c # a /\ origin'[c] = origin[c] /\ origin[c] \in Call
                                           /\ par[c] \in Aid
      BY <2>2, <1>25, OpenDelivery, RouteIsTyped DEF TypeOK
    <3>2. \A c \in Aid : origin'[c] # 0 => rows'[par[c]][origin[c]] = rows[par[c]][origin[c]]
      BY <2>2, <3>1, <1>25, OpenDelivery DEF OneRoute, Route
    <3>3. ref' = ref /\ par' = par
      BY <1>25 DEF Deliver
    <3> QED
      BY <3>1, <3>2, <3>3 DEF RoutesAreOpen
  <2> QED
    BY <2>1, <2>2
<1>26. ASSUME NEW a \in Aid, EndDrain(a) PROVE RoutesAreOpen'
  BY <1>26 DEF TypeOK, JoinInv, BatchIsFresh, Live, Starting, Terminal,
     RoutesAreOpen, HandFits, Route, EndDrain, At, EndNormally, EndDriver,
     ResumeDue
<1>27. ASSUME NEW a \in Aid, Killed(a) PROVE RoutesAreOpen'
  BY <1>27 DEF TypeOK, JoinInv, BatchIsFresh, Live, Starting, Terminal,
     RoutesAreOpen, HandFits, Route, Killed, EndDriver, ResumeDue
<1>28. ASSUME NEW a \in Aid, Cancelled(a) PROVE RoutesAreOpen'
  <2>1. \A c \in Aid : origin[c] # 0 => origin[c] \in Call /\ par[c] \in Aid
    BY RouteIsTyped
  <2>2. /\ par' = par /\ \A c \in Aid : origin'[c] = IF Starting(a) /\ c = kid[a] THEN 0 ELSE origin[c]
    BY <1>28 DEF Cancelled
  <2>3. CASE stage[a] \in {"model", "next"}
    BY <1>28, <2>2, <2>3 DEF Cancelled, Starting, RoutesAreOpen
  <2>4. CASE stage[a] \notin {"model", "next"}
    <3>1. cur[a] \in Call /\ \A c \in Aid : Route(a, cur[a], c) =>
                                 c = kid[a] /\ stage[a] \notin {"issued", "rolledback"}
      BY <2>4, InHand
    <3>2. \A p \in Aid, k \in Call :
              /\ rows'[p][k] = rows[p][k] \/ (p = a /\ k = cur[a] /\ stage[a] # "ref")
              /\ ref'[p][k] = ref[p][k] \/ (p = a /\ k = cur[a] /\ ref'[p][k] = kid[a])
      BY <1>28, <3>1 DEF Cancelled, TypeOK
    <3>3. stage[a] \in {"issued", "rolledback", "ref"} \/ Starting(a)
      BY <2>4 DEF TypeOK, Stage, Starting
    <3> QED
      BY <2>1, <2>2, <3>1, <3>2, <3>3 DEF RoutesAreOpen, Route
  <2> QED
    BY <2>3, <2>4
<1>29. ASSUME NEW a \in Aid, Swallow(a) PROVE RoutesAreOpen'
  BY <1>29 DEF TypeOK, JoinInv, BatchIsFresh, Live, Starting, Terminal,
     RoutesAreOpen, HandFits, Route, Swallow
<1>30. ASSUME NEW a \in Aid, NEW k \in Keys, ReserveSpawn(a, k) PROVE RoutesAreOpen'
  BY <1>30 DEF TypeOK, JoinInv, BatchIsFresh, Live, Starting, Terminal,
     RoutesAreOpen, HandFits, Route, ReserveSpawn, InBatch, At
<1>31. CASE UNCHANGED vars
  BY <1>31 DEF TypeOK, JoinInv, BatchIsFresh, Live, Starting, Terminal,
     RoutesAreOpen, HandFits, Route, vars
<1> QED
  BY <1>1, <1>2, <1>3, <1>4, <1>5, <1>6, <1>7, <1>8, <1>9, <1>10, <1>11,
     <1>12, <1>13, <1>14, <1>15, <1>16, <1>17, <1>18, <1>19, <1>20, <1>21,
     <1>22, <1>23, <1>24, <1>25, <1>26, <1>27, <1>28, <1>29, <1>30, <1>31,
     OpenStep

(* Every action keeps OpenRowIsRouted: an open row of a waiting agent has   *)
(* its route.                                                               *)
LEMMA RoutedStep ==
    ASSUME WorkContext, [Next]_vars
    PROVE  OpenRowIsRouted'
<1> USE DEF WorkContext, sessionVars, driverVars, tableVars, batchVars, routeVars, cleanVars, turnVars
<1>1. CASE RestoreTurn
  BY <1>1 DEF TypeOK, JoinInv, BatchIsFresh, Live, Starting, Terminal,
     OpenRowIsRouted, HandFits, Route, SettlementIsClosed, RestoreTurn
<1>2. CASE RestoredCancelled
  BY <1>2 DEF TypeOK, JoinInv, BatchIsFresh, Live, Starting, Terminal,
     OpenRowIsRouted, HandFits, Route, SettlementIsClosed, RestoredCancelled
<1>3. CASE StartTurn
  BY <1>3 DEF TypeOK, JoinInv, BatchIsFresh, Live, Starting, Terminal,
     OpenRowIsRouted, HandFits, Route, SettlementIsClosed, StartTurn
<1>4. CASE RequestCancel
  BY <1>4 DEF TypeOK, JoinInv, BatchIsFresh, Live, Starting, Terminal,
     OpenRowIsRouted, HandFits, Route, SettlementIsClosed, RequestCancel
<1>5. CASE EndTurn
  BY <1>5 DEF TypeOK, JoinInv, BatchIsFresh, Live, Starting, Terminal,
     OpenRowIsRouted, HandFits, Route, SettlementIsClosed, EndTurn
<1>6. CASE StallTurn
  BY <1>6 DEF TypeOK, JoinInv, BatchIsFresh, Live, Starting, Terminal,
     OpenRowIsRouted, HandFits, Route, SettlementIsClosed, StallTurn
<1>7. CASE SettleBegin
  BY <1>7 DEF TypeOK, JoinInv, BatchIsFresh, Live, Starting, Terminal,
     OpenRowIsRouted, HandFits, Route, SettlementIsClosed, SettleBegin
<1>8. CASE SettleEnd
  <2>1. PICK S \in SUBSET Aid :
            /\ \A x \in Aid : x \in S <=> x \in subtree \cup {0} /\ phase[x] # "absent"
            /\ \A x \in Aid : /\ rows'[x] = IF x \in S THEN NoRows ELSE rows[x]
                              /\ origin'[x] = IF x \in S THEN 0 ELSE origin[x]
                              /\ origin[x] # 0 => (x \in S <=> par[x] \in S)
                              /\ x \in subtree \cup {0} /\ x \notin S => IsEmpty(rows[x])
    BY <1>8, Settling
  <2>2. ASSUME NEW p \in Aid, NEW k \in Call, rows'[p][k] = "pending"
        PROVE  /\ rows[p][k] = "pending" /\ p \notin subtree \cup {0}
               /\ \A c \in Aid : Route(p, k, c) => origin'[c] = origin[c]
    <3>1. p \notin S /\ rows[p][k] = "pending" /\ k # 0
      <4>1. NoRows[k] = "empty" /\ k # 0
        BY DEF NoRows, Call
      <4>2. rows'[p] = IF p \in S THEN NoRows ELSE rows[p]
        BY <2>1
      <4> QED
        BY <2>2, <4>1, <4>2
    <3> QED
      BY <2>1, <3>1 DEF IsEmpty, Route
  <2> QED
    BY <1>8, <2>2 DEF SettleEnd, OpenRowIsRouted, Route
<1>9. ASSUME NEW a \in Aid, MessageTurn(a) PROVE OpenRowIsRouted'
  BY <1>9 DEF TypeOK, JoinInv, BatchIsFresh, Live, Starting, Terminal,
     OpenRowIsRouted, HandFits, Route, SettlementIsClosed, MessageTurn
<1>10. ASSUME NEW a \in Aid, EnterGate(a) PROVE OpenRowIsRouted'
  BY <1>10 DEF TypeOK, JoinInv, BatchIsFresh, Live, Starting, Terminal,
     OpenRowIsRouted, HandFits, Route, SettlementIsClosed, EnterGate, At
<1>11. ASSUME NEW a \in Aid, EnterLoop(a) PROVE OpenRowIsRouted'
  <2>1. \A p \in Aid, k \in Call : rows'[p][k] = "pending" => rows[p][k] = "pending"
    BY <1>11 DEF EnterLoop, TypeOK, NoRows
  <2> QED
    BY <1>11, <2>1 DEF EnterLoop, OpenRowIsRouted, Route
<1>12. ASSUME NEW a \in Aid, Generate(a) PROVE OpenRowIsRouted'
  <2>1. stage[a] = "model" /\ \A p \in Aid : p # a => stage'[p] = stage[p]
    BY <1>12 DEF Generate, At, TypeOK, BatchIsFresh
  <2> QED
    BY <1>12, <2>1 DEF Generate, OpenRowIsRouted, Route
<1>13. ASSUME NEW a \in Aid, IllegalTransition(a) PROVE OpenRowIsRouted'
  BY <1>13 DEF TypeOK, JoinInv, BatchIsFresh, Live, Starting, Terminal,
     OpenRowIsRouted, HandFits, Route, SettlementIsClosed, IllegalTransition,
     At
<1>14. ASSUME NEW a \in Aid, IssueCall(a) PROVE OpenRowIsRouted'
  BY <1>14 DEF TypeOK, JoinInv, BatchIsFresh, Live, Starting, Terminal,
     OpenRowIsRouted, HandFits, Route, SettlementIsClosed, IssueCall, InBatch,
     At
<1>15. ASSUME NEW a \in Aid, RefuseSpawn(a) PROVE OpenRowIsRouted'
  BY <1>15 DEF TypeOK, JoinInv, BatchIsFresh, Live, Starting, Terminal,
     OpenRowIsRouted, HandFits, Route, SettlementIsClosed, RefuseSpawn,
     InBatch, At
<1>16. ASSUME NEW a \in Aid, RegisterChild(a) PROVE OpenRowIsRouted'
  BY <1>16 DEF TypeOK, JoinInv, BatchIsFresh, Live, Starting, Terminal,
     OpenRowIsRouted, HandFits, Route, SettlementIsClosed, RegisterChild,
     InBatch, At
<1>17. ASSUME NEW a \in Aid, StartChild(a) PROVE OpenRowIsRouted'
  BY <1>17 DEF TypeOK, JoinInv, BatchIsFresh, Live, Starting, Terminal,
     OpenRowIsRouted, HandFits, Route, SettlementIsClosed, StartChild,
     InBatch, At
<1>18. ASSUME NEW a \in Aid, RollbackSpawn(a) PROVE OpenRowIsRouted'
  BY <1>18 DEF TypeOK, JoinInv, BatchIsFresh, Live, Starting, Terminal,
     OpenRowIsRouted, HandFits, Route, SettlementIsClosed, RollbackSpawn, At
<1>19. ASSUME NEW a \in Aid, RecordResult(a) PROVE OpenRowIsRouted'
  BY <1>19 DEF TypeOK, JoinInv, BatchIsFresh, Live, Starting, Terminal,
     OpenRowIsRouted, HandFits, Route, SettlementIsClosed, RecordResult, At
<1>20. ASSUME NEW a \in Aid, FinishBatch(a) PROVE OpenRowIsRouted'
  <2>1. \A p \in Aid, k \in Call : rows'[p][k] = "pending" => rows[p][k] = "pending"
    BY <1>20 DEF FinishBatch, TypeOK, NoRows
  <2>2. stage[a] = "next" /\ \A p \in Aid : p # a => stage'[p] = stage[p] /\ cur'[p] = cur[p]
    BY <1>20 DEF FinishBatch, InBatch, TypeOK
  <2> QED
    BY <1>20, <2>1, <2>2 DEF FinishBatch, OpenRowIsRouted, Route
<1>21. ASSUME NEW a \in Aid, BatchFails(a) PROVE OpenRowIsRouted'
  BY <1>21 DEF TypeOK, JoinInv, BatchIsFresh, Live, Starting, Terminal,
     OpenRowIsRouted, HandFits, Route, SettlementIsClosed, BatchFails,
     InBatch, At
<1>22. ASSUME NEW a \in Aid, Return(a) PROVE OpenRowIsRouted'
  BY <1>22 DEF TypeOK, JoinInv, BatchIsFresh, Live, Starting, Terminal,
     OpenRowIsRouted, HandFits, Route, SettlementIsClosed, Return, At,
     EndNormally, EndDriver, ResumeDue
<1>23. ASSUME NEW a \in Aid, CheckpointFails(a) PROVE OpenRowIsRouted'
  BY <1>23 DEF TypeOK, JoinInv, BatchIsFresh, Live, Starting, Terminal,
     OpenRowIsRouted, HandFits, Route, SettlementIsClosed, CheckpointFails, At
<1>24. ASSUME NEW a \in Aid, DiffFails(a) PROVE OpenRowIsRouted'
  BY <1>24 DEF TypeOK, JoinInv, BatchIsFresh, Live, Starting, Terminal,
     OpenRowIsRouted, HandFits, Route, SettlementIsClosed, DiffFails, At
<1>25. ASSUME NEW a \in Aid, Deliver(a) PROVE OpenRowIsRouted'
  <2>1. CASE origin[a] = 0
    BY <1>25, <2>1 DEF Deliver, OpenRowIsRouted, Route
  <2>2. CASE origin[a] # 0
    <3>1. ASSUME NEW p \in Aid, NEW k \in Call, rows'[p][k] = "pending"
          PROVE  /\ rows[p][k] = "pending"
                 /\ \A c \in Aid : Route(p, k, c) => origin'[c] = origin[c]
      <4>1. rows[p][k] = "pending" /\ ~(p = par[a] /\ k = origin[a])
        BY <2>2, <3>1, <1>25, OpenDelivery
      <4> QED
        BY <2>2, <4>1, <1>25, OpenDelivery DEF Route, TypeOK
    <3> QED
      BY <1>25, <3>1 DEF Deliver, OpenRowIsRouted, Route
  <2> QED
    BY <2>1, <2>2
<1>26. ASSUME NEW a \in Aid, EndDrain(a) PROVE OpenRowIsRouted'
  BY <1>26 DEF TypeOK, JoinInv, BatchIsFresh, Live, Starting, Terminal,
     OpenRowIsRouted, HandFits, Route, SettlementIsClosed, EndDrain, At,
     EndNormally, EndDriver, ResumeDue
<1>27. ASSUME NEW a \in Aid, Killed(a) PROVE OpenRowIsRouted'
  BY <1>27 DEF TypeOK, JoinInv, BatchIsFresh, Live, Starting, Terminal,
     OpenRowIsRouted, HandFits, Route, SettlementIsClosed, Killed, EndDriver,
     ResumeDue
<1>28. ASSUME NEW a \in Aid, Cancelled(a) PROVE OpenRowIsRouted'
  BY <1>28 DEF TypeOK, JoinInv, BatchIsFresh, Live, Starting, Terminal,
     OpenRowIsRouted, HandFits, Route, SettlementIsClosed, Cancelled
<1>29. ASSUME NEW a \in Aid, Swallow(a) PROVE OpenRowIsRouted'
  BY <1>29 DEF TypeOK, JoinInv, BatchIsFresh, Live, Starting, Terminal,
     OpenRowIsRouted, HandFits, Route, SettlementIsClosed, Swallow
<1>30. ASSUME NEW a \in Aid, NEW k \in Keys, ReserveSpawn(a, k) PROVE OpenRowIsRouted'
  <2>1. /\ UNCHANGED <<rows, cur, settling, subtree>>
        /\ par'[nextAid] = a /\ origin'[nextAid] = cur[a] /\ nextAid \in Aid
    <3>1. UNCHANGED <<rows, cur, settling, subtree>>
      BY <1>30 DEF ReserveSpawn
    <3> QED
      BY <1>30, <3>1, Spawning
  <2>2. \A p \in Aid, j \in Call, c \in Aid :
            Route(p, j, c) => par'[c] = p /\ origin'[c] = j
    BY <1>30, Spawning DEF Route, Call
  <2>3. \A p \in Aid : p # a => stage'[p] = stage[p]
    BY <1>30, Spawning
  <2>4. ASSUME NEW p \in Aid, NEW j \in Call, rows[p][j] = "pending"
        PROVE  \/ \E c \in Aid : par'[c] = p /\ origin'[c] = j
               \/ stage'[p] \in {"issued", "rolledback"} /\ cur[p] = j
               \/ settling /\ p \in subtree \cup {0}
    BY <2>1, <2>2, <2>3, <2>4 DEF OpenRowIsRouted
  <2> QED
    BY <2>1, <2>4 DEF OpenRowIsRouted, Route
<1>31. CASE UNCHANGED vars
  BY <1>31 DEF TypeOK, JoinInv, BatchIsFresh, Live, Starting, Terminal,
     OpenRowIsRouted, HandFits, Route, SettlementIsClosed, vars
<1> QED
  BY <1>1, <1>2, <1>3, <1>4, <1>5, <1>6, <1>7, <1>8, <1>9, <1>10, <1>11,
     <1>12, <1>13, <1>14, <1>15, <1>16, <1>17, <1>18, <1>19, <1>20, <1>21,
     <1>22, <1>23, <1>24, <1>25, <1>26, <1>27, <1>28, <1>29, <1>30, <1>31,
     OpenStep

(* Every action keeps ResumesAreWaited: who is to be resumed is suspended.  *)
LEMMA ResumesStep ==
    ASSUME WorkContext, [Next]_vars
    PROVE  CompleteBatchResumes'
<1> USE DEF WorkContext, sessionVars, driverVars, tableVars, batchVars, routeVars, cleanVars, turnVars
<1> DEFINE Calm == \A x \in Aid : phase'[x] = "awaiting" =>
                      /\ phase[x] = "awaiting" /\ rows'[x] = rows[x]
                      /\ \/ pc'[x] = pc[x] /\ resumeCb'[x] = resumeCb[x]
                         \/ pc'[x] \in {"created", "gate"}
                      /\ x = 0 /\ turn = "idle" => turn' = "idle" \/ pc'[x] = "created"
<1>C. ASSUME Calm PROVE CompleteBatchResumes'
  BY <1>C DEF CompleteBatchResumes
<1> HIDE DEF Calm
<1>1. CASE RestoreTurn
  <2>1. Calm
    BY <1>1 DEF Calm, TypeOK, RestoreTurn
  <2> QED
    BY <2>1, <1>C
<1>2. CASE RestoredCancelled
  <2>1. Calm
    BY <1>2 DEF Calm, TypeOK, RestoredCancelled
  <2> QED
    BY <2>1, <1>C
<1>3. CASE StartTurn
  <2>1. Calm
    BY <1>3 DEF Calm, TypeOK, StartTurn
  <2> QED
    BY <2>1, <1>C
<1>4. CASE RequestCancel
  <2>1. Calm
    BY <1>4 DEF Calm, TypeOK, RequestCancel
  <2> QED
    BY <2>1, <1>C
<1>5. CASE EndTurn
  <2>1. Calm
    BY <1>5 DEF Calm, TypeOK, EndTurn
  <2> QED
    BY <2>1, <1>C
<1>6. CASE StallTurn
  <2>1. Calm
    BY <1>6 DEF Calm, TypeOK, StallTurn
  <2> QED
    BY <2>1, <1>C
<1>7. CASE SettleBegin
  <2>1. Calm
    BY <1>7 DEF Calm, TypeOK, SettleBegin
  <2> QED
    BY <2>1, <1>C
<1>8. CASE SettleEnd
  <2>1. PICK S \in SUBSET Aid :
            \A x \in Aid : /\ rows'[x] = IF x \in S THEN NoRows ELSE rows[x]
                           /\ phase'[x] = IF x \in S /\ phase[x] \notin Terminal
                                          THEN "stopped" ELSE phase[x]
    BY <1>8, Settling
  <2>2. Calm
    BY <1>8, <2>1 DEF Calm, SettleEnd, Terminal
  <2> QED
    BY <2>2, <1>C
<1>9. ASSUME NEW a \in Aid, MessageTurn(a) PROVE CompleteBatchResumes'
  <2>1. Calm
    BY <1>9 DEF Calm, TypeOK, MessageTurn
  <2> QED
    BY <2>1, <1>C
<1>10. ASSUME NEW a \in Aid, EnterGate(a) PROVE CompleteBatchResumes'
  <2>1. Calm
    BY <1>10 DEF Calm, TypeOK, EnterGate, At
  <2> QED
    BY <2>1, <1>C
<1>11. ASSUME NEW a \in Aid, EnterLoop(a) PROVE CompleteBatchResumes'
  <2>1. \A x \in Aid : x # a => phase'[x] = phase[x] /\ rows'[x] = rows[x] /\ pc'[x] = pc[x]
    BY <1>11 DEF EnterLoop, TypeOK
  <2>2. phase'[a] = "awaiting" => rows'[a] = rows[a] /\ ~IsComplete(rows[a])
    BY <1>11 DEF EnterLoop, TypeOK
  <2> QED
    BY <1>11, <2>1, <2>2 DEF EnterLoop, CompleteBatchResumes
<1>12. ASSUME NEW a \in Aid, Generate(a) PROVE CompleteBatchResumes'
  <2>1. Calm
    BY <1>12 DEF Calm, TypeOK, Generate, At
  <2> QED
    BY <2>1, <1>C
<1>13. ASSUME NEW a \in Aid, IllegalTransition(a) PROVE CompleteBatchResumes'
  <2>1. Calm
    BY <1>13 DEF Calm, TypeOK, IllegalTransition, At
  <2> QED
    BY <2>1, <1>C
<1>14. ASSUME NEW a \in Aid, IssueCall(a) PROVE CompleteBatchResumes'
  <2>1. Calm
    BY <1>14 DEF Calm, TypeOK, IssueCall, InBatch, PhaseFits
  <2> QED
    BY <2>1, <1>C
<1>15. ASSUME NEW a \in Aid, RefuseSpawn(a) PROVE CompleteBatchResumes'
  <2>1. Calm
    BY <1>15 DEF Calm, TypeOK, RefuseSpawn, InBatch, At
  <2> QED
    BY <2>1, <1>C
<1>16. ASSUME NEW a \in Aid, RegisterChild(a) PROVE CompleteBatchResumes'
  <2>1. Calm
    BY <1>16 DEF Calm, TypeOK, RegisterChild
  <2> QED
    BY <2>1, <1>C
<1>17. ASSUME NEW a \in Aid, StartChild(a) PROVE CompleteBatchResumes'
  <2>1. Calm
    BY <1>17 DEF Calm, TypeOK, StartChild
  <2> QED
    BY <2>1, <1>C
<1>18. ASSUME NEW a \in Aid, RollbackSpawn(a) PROVE CompleteBatchResumes'
  <2>1. Calm
    BY <1>18 DEF Calm, TypeOK, RollbackSpawn, At
  <2> QED
    BY <2>1, <1>C
<1>19. ASSUME NEW a \in Aid, RecordResult(a) PROVE CompleteBatchResumes'
  <2>1. Calm
    BY <1>19 DEF Calm, TypeOK, RecordResult, PhaseFits
  <2> QED
    BY <2>1, <1>C
<1>20. ASSUME NEW a \in Aid, FinishBatch(a) PROVE CompleteBatchResumes'
  <2>1. \A x \in Aid : x # a => phase'[x] = phase[x] /\ rows'[x] = rows[x] /\ pc'[x] = pc[x]
    BY <1>20 DEF FinishBatch, TypeOK
  <2>2. phase'[a] = "awaiting" => rows'[a] = rows[a] /\ ~IsComplete(rows[a])
    BY <1>20 DEF FinishBatch, TypeOK
  <2> QED
    BY <1>20, <2>1, <2>2 DEF FinishBatch, CompleteBatchResumes
<1>21. ASSUME NEW a \in Aid, BatchFails(a) PROVE CompleteBatchResumes'
  <2>1. Calm
    BY <1>21 DEF Calm, TypeOK, BatchFails, InBatch, At
  <2> QED
    BY <2>1, <1>C
<1>22. ASSUME NEW a \in Aid, Return(a) PROVE CompleteBatchResumes'
  <2>1. /\ pc[a] = "ret" /\ UNCHANGED <<phase, rows, turn>>
        /\ \A x \in Aid : x # a => pc'[x] = pc[x] /\ resumeCb'[x] = resumeCb[x]
    BY <1>22 DEF Return, At, EndNormally, EndDriver, TypeOK
  <2>2. phase[a] = "awaiting" => pc'[a] = IF resumeCb[a] /\ IsComplete(rows[a])
                                           THEN "created" ELSE "none"
    BY <1>22 DEF Return, At, EndNormally, EndDriver, ResumeDue, TypeOK
  <2> QED
    BY <2>1, <2>2 DEF CompleteBatchResumes
<1>23. ASSUME NEW a \in Aid, CheckpointFails(a) PROVE CompleteBatchResumes'
  <2>1. Calm
    BY <1>23 DEF Calm, TypeOK, CheckpointFails, At
  <2> QED
    BY <2>1, <1>C
<1>24. ASSUME NEW a \in Aid, DiffFails(a) PROVE CompleteBatchResumes'
  <2>1. Calm
    BY <1>24 DEF Calm, TypeOK, DiffFails, At
  <2> QED
    BY <2>1, <1>C
<1>25. ASSUME NEW a \in Aid, Deliver(a) PROVE CompleteBatchResumes'
  <2>1. /\ UNCHANGED <<phase, turn>> /\ pc[a] \in {"ended", "cancelling"} /\ phase[a] # "awaiting"
    BY <1>25, OpenDelivery DEF Deliver, At, PhaseFits
  <2>2. CASE origin[a] = 0
    BY <1>25, <2>1, <2>2 DEF Deliver, CompleteBatchResumes, TypeOK
  <2>3. CASE origin[a] # 0
    <3>1. \A x \in Aid : x # par[a] => IsComplete(rows'[x]) = IsComplete(rows[x])
      <4>1. \A x \in Aid, k \in Call : x # par[a] => rows'[x][k] = rows[x][k]
        BY <1>25, <2>3, OpenDelivery
      <4> QED
        BY <4>1 DEF IsComplete, IsEmpty
    <3>2. /\ \A x \in Aid : x # par[a] /\ x # a => pc'[x] = pc[x] /\ resumeCb'[x] = resumeCb[x]
          /\ ResumeDue(par[a], rows') =>
                IF Live(par[a]) THEN pc'[par[a]] = pc[par[a]] /\ resumeCb'[par[a]]
                                ELSE pc'[par[a]] = "created"
      BY <1>25, <2>3, OpenDelivery DEF Resume, TypeOK
    <3>3. phase[par[a]] = "awaiting" => pc[par[a]] \in {"none", "created", "gate", "ret"}
      BY <1>25, <2>3, OpenDelivery DEF PhaseFits
    <3>4. ASSUME NEW x \in Aid, phase[x] = "awaiting", IsComplete(rows'[x])
          PROVE  \/ pc'[x] \in {"created", "gate"} \/ (pc'[x] = "ret" /\ resumeCb'[x])
                 \/ x = 0 /\ turn = "idle"
      <4>1. CASE x = par[a]
        BY <1>25, <2>3, <3>2, <3>3, <3>4, <4>1, OpenDelivery DEF ResumeDue,
           Live
      <4>2. CASE x # par[a]
        BY <2>1, <3>1, <3>2, <3>4, <4>2 DEF CompleteBatchResumes
      <4> QED
        BY <4>1, <4>2
    <3> QED
      BY <2>1, <3>4 DEF CompleteBatchResumes
  <2> QED
    BY <2>2, <2>3
<1>26. ASSUME NEW a \in Aid, EndDrain(a) PROVE CompleteBatchResumes'
  <2>1. Calm
    BY <1>26 DEF Calm, TypeOK, EndDrain, At, EndNormally, EndDriver, PhaseFits
  <2> QED
    BY <2>1, <1>C
<1>27. ASSUME NEW a \in Aid, Killed(a) PROVE CompleteBatchResumes'
  <2>1. phase[a] # "awaiting"
    BY <1>27 DEF Killed, SettlementIsClosed, Terminal
  <2>2. Calm
    BY <1>27, <2>1 DEF Killed, EndDriver, Calm, TypeOK
  <2> QED
    BY <2>2, <1>C
<1>28. ASSUME NEW a \in Aid, Cancelled(a) PROVE CompleteBatchResumes'
  <2>1. Calm
    BY <1>28 DEF Calm, TypeOK, Cancelled
  <2> QED
    BY <2>1, <1>C
<1>29. ASSUME NEW a \in Aid, Swallow(a) PROVE CompleteBatchResumes'
  <2>1. Calm
    BY <1>29 DEF Calm, TypeOK, Swallow
  <2> QED
    BY <2>1, <1>C
<1>30. ASSUME NEW a \in Aid, NEW k \in Keys, ReserveSpawn(a, k) PROVE CompleteBatchResumes'
  <2>1. Calm
    BY <1>30 DEF Calm, TypeOK, ReserveSpawn
  <2> QED
    BY <2>1, <1>C
<1>31. CASE UNCHANGED vars
  BY <1>31 DEF CompleteBatchResumes, vars
<1> QED
  BY <1>1, <1>2, <1>3, <1>4, <1>5, <1>6, <1>7, <1>8, <1>9, <1>10, <1>11,
     <1>12, <1>13, <1>14, <1>15, <1>16, <1>17, <1>18, <1>19, <1>20, <1>21,
     <1>22, <1>23, <1>24, <1>25, <1>26, <1>27, <1>28, <1>29, <1>30, <1>31,
     OpenStep

(* A shutdown is for good.                                                  *)
LEMMA ShuttingStep ==
    ASSUME TypeOK, [Next]_vars
    PROVE  shutting' = shutting \/ shutting' = TRUE
<1> USE DEF sessionVars, driverVars, tableVars, batchVars, routeVars, cleanVars, turnVars
<1>1. RestoreTurn \/ RestoredCancelled \/ StartTurn \/ RequestCancel \/ EndTurn
      \/ StallTurn \/ SettleBegin \/ SettleEnd \/ CleanupBegin \/ CleanupEnd
      => shutting' = shutting \/ shutting' = TRUE
  BY DEF RestoreTurn, RestoredCancelled, StartTurn, RequestCancel, EndTurn,
     StallTurn, SettleBegin, SettleEnd, CleanupBegin, CleanupEnd
<1>2. ASSUME NEW a \in Aid,
             MessageTurn(a) \/ EnterGate(a) \/ EnterLoop(a) \/ Generate(a)
             \/ IllegalTransition(a) \/ IssueCall(a) \/ RefuseSpawn(a) \/ RegisterChild(a)
      PROVE  shutting' = shutting
  BY <1>2 DEF MessageTurn, EnterGate, EnterLoop, Generate, IllegalTransition,
     IssueCall, RefuseSpawn, RegisterChild
<1>3. ASSUME NEW a \in Aid,
             StartChild(a) \/ RollbackSpawn(a) \/ RecordResult(a)
             \/ FinishBatch(a) \/ BatchFails(a) \/ Return(a)
      PROVE  shutting' = shutting
  BY <1>3 DEF StartChild, RollbackSpawn, RecordResult, FinishBatch,
     BatchFails, Return
<1>4. ASSUME NEW a \in Aid,
             CheckpointFails(a) \/ DiffFails(a) \/ Deliver(a) \/ EndDrain(a)
             \/ Killed(a) \/ Cancelled(a) \/ Swallow(a) \/ DiscardLate(a)
      PROVE  shutting' = shutting
  BY <1>4 DEF CheckpointFails, DiffFails, Deliver, EndDrain, Killed,
     Cancelled, Swallow, DiscardLate
<1>5. ASSUME NEW a \in Aid, NEW k \in Keys, ReserveSpawn(a, k) PROVE shutting' = shutting
  BY <1>5 DEF ReserveSpawn
<1>6. CASE UNCHANGED vars
  BY <1>6 DEF vars
<1> QED
  BY <1>1, <1>2, <1>3, <1>4, <1>5, <1>6 DEF Next, TurnStep, DriverStep,
     Finished

(* Before the lead has started nothing is in flight.                        *)
LEMMA WorkInit == Init => WorkInv
<1> SUFFICES ASSUME Init PROVE WorkInv
  OBVIOUS
<1>1. 0 \in Aid /\ 1 \in Call /\ \A x \in Aid : x \in Nat /\ (x # 0 => x >= 1)
  BY BoundsAssumption DEF Aid, Call
<1>2. /\ \A x \in Aid : /\ phase[x] \in {"absent", "idle", "awaiting"} /\ (x # 0 => phase[x] = "absent")
                        /\ pc[x] = "none" /\ ~creq[x] /\ stage[x] = "model" /\ cur[x] = 0
                        /\ origin[x] = 0 /\ key[x] = NoKey /\ ref[x] = NoRefs
                        /\ (x # 0 => rows[x] = NoRows)
      /\ turn = "idle" /\ ~settling /\ clean = "no" /\ nextAid = 1
  BY <1>1 DEF Init
<1>3. /\ phase[0] = "idle" => rows[0] = NoRows
      /\ phase[0] # "idle" => phase[0] = "awaiting" /\ rows[0][1] = "failed"
      /\ \A k \in Call : rows[0][k] # "pending"
  BY <1>1 DEF Init, NoRows
<1>4. NoRows \in [Call -> {"empty"}] /\ NoRefs \in [Call -> {NoAid}]
  BY DEF NoRows, NoRefs
<1>5. SettlementIsClosed /\ RefsNameChildren /\ RoutesAreOpen /\ OneRoute
  BY <1>2, <1>4 DEF SettlementIsClosed, RefsNameChildren, RoutesAreOpen,
     OneRoute, NoRefs
<1>6. \A p \in Aid, k \in Call : rows[p][k] # "pending"
  BY <1>2, <1>3, <1>4
<1>7. OpenRowIsRouted /\ CompleteBatchResumes
  BY <1>2, <1>6 DEF OpenRowIsRouted, CompleteBatchResumes
<1>8. ASSUME NEW x \in Aid PROVE PhaseFits(x)
  <2>1. x # 0 \/ phase[0] = "idle" => IsEmpty(rows[x]) \/ x = 0
    BY <1>2, <1>4 DEF IsEmpty
  <2>2. phase[0] = "idle" => IsEmpty(rows[0])
    BY <1>3, <1>4 DEF IsEmpty
  <2>3. phase[0] # "idle" => ~IsEmpty(rows[0])
    BY <1>1, <1>3 DEF IsEmpty
  <2> QED
    BY <1>2, <1>3, <2>1, <2>2, <2>3 DEF PhaseFits
<1>9. ASSUME NEW x \in Aid PROVE HandFits(x) /\ WorkFits(x)
  BY <1>2 DEF HandFits, WorkFits, Starting
<1> QED
  BY <1>5, <1>7, <1>8, <1>9 DEF WorkInv

(* Every step keeps the work in order, until cleanup begins.                *)
LEMMA WorkStays ==
    ASSUME TypeOK, JoinInv, BatchIsFresh, WorkInv, [Next]_vars
    PROVE  WorkInv'
<1> SUFFICES ASSUME ~shutting' PROVE WorkInv'
  BY DEF WorkInv
<1>1. ~shutting
  <2>1. shutting' = shutting \/ shutting' = TRUE
    BY ShuttingStep
  <2> QED
    BY <2>1 DEF TypeOK
<1>2. WorkContext
  BY <1>1 DEF WorkContext, WorkInv
<1> QED
  BY <1>2, SettleStep, RefsStep, RoutesStep, OneRouteStep, RoutedStep,
     ResumesStep,
     PhaseStep, HandStep, WorkStep DEF WorkInv

(* The work in order is an invariant of the specification.                  *)
LEMMA WorkInvariance == Spec => [](TypeOK /\ JoinInv /\ BatchIsFresh /\ WorkInv)
<1>1. Init => BatchIsFresh
  BY DEF Init, BatchIsFresh
<1>2. TypeOK /\ JoinInv /\ BatchIsFresh /\ WorkInv /\ [Next]_vars => BatchIsFresh' /\ WorkInv'
  BY FreshStep, WorkStays
<1> QED
  BY <1>1, <1>2, WorkInit, Invariance, PTL DEF Spec

(* Whatever a spawn adds, its row, its route or its identity, belongs to    *)
(* work in flight for as long as the scheduler is not shut down: in every   *)
(* order of refusals, rollbacks, completions, cancellations, settlements    *)
(* and teammate turns (spawn, _rollback_failed_spawn, _deliver_to_parent,   *)
(* _settle_cancelled_suspended_turn).                                       *)
THEOREM NothingIsLeftDangling == Spec => []NothingDangles
<1>1. TypeOK /\ WorkInv => NothingDangles
  <2> SUFFICES ASSUME TypeOK, WorkInv PROVE NothingDangles
    OBVIOUS
  <2>1. CASE shutting
    BY <2>1 DEF NothingDangles, OpenRowHasProducer, NoLeakedKey, RoutesAreOpen
  <2>2. CASE ~shutting
    <3>1. /\ SettlementIsClosed /\ RoutesAreOpen /\ OpenRowIsRouted
          /\ \A c \in Aid : WorkFits(c)
      BY <2>2 DEF WorkInv
    <3>2. NoLeakedKey
      BY <3>1 DEF NoLeakedKey, WorkFits
    <3>3. ASSUME NEW p \in Aid, NEW k \in Call, rows[p][k] = "pending"
          PROVE  \/ stage[p] \notin {"model", "next"} /\ cur[p] = k
                 \/ \E c \in Aid : par[c] = p /\ origin[c] = k /\ Producing(c)
                 \/ settling /\ p \in subtree \cup {0}
      <4>1. ASSUME NEW c \in Aid, Route(p, k, c)
            PROVE  Producing(c) \/ (settling /\ p \in subtree \cup {0})
        <5>1. origin[c] # 0 /\ par[c] = p
          BY <4>1 DEF Route, Call
        <5> QED
          BY <3>1, <5>1 DEF WorkFits, SettlementIsClosed
      <4> QED
        BY <3>1, <3>3, <4>1 DEF OpenRowIsRouted, Route
    <3> QED
      BY <3>1, <3>2, <3>3 DEF NothingDangles, OpenRowHasProducer
  <2> QED
    BY <2>1, <2>2 DEF TypeOK
<1> QED
  BY <1>1, WorkInvariance, PTL

(* A nonempty set of agents has a youngest member.                          *)
LEMMA Youngest ==
    ASSUME NEW W \in SUBSET Aid, W # {}
    PROVE  \E x \in W : \A y \in W : ~(x < y)
<1> DEFINE T == {MaxAid - w : w \in W}
           R == {ss \in Nat \X Nat : ss[1] < ss[2]}
<1>1. MaxAid \in Nat /\ \A w \in W : w \in Nat /\ w <= MaxAid
  BY BoundsAssumption DEF Aid
<1>2. T \subseteq Nat /\ T # {}
  BY <1>1
<1>3. IsWellFoundedOn(R, Nat)
  BY NatLessThanWellFounded DEF OpToRel
<1>4. PICK t \in T : \A u \in T : ~(<<u, t>> \in R)
  <2> HIDE DEF T, R
  <2> QED
    BY <1>2, <1>3, WFMin
<1>5. PICK x \in W : t = MaxAid - x
  BY <1>4
<1>6. ASSUME NEW y \in W, x < y PROVE FALSE
  <2>1. MaxAid - y \in T /\ MaxAid - y \in Nat /\ t \in Nat /\ MaxAid - y < t
    BY <1>1, <1>2, <1>5, <1>6
  <2> QED
    BY <1>4, <2>1
<1> QED
  BY <1>6

(* No wake is lost: a batch that is complete while its session is suspended *)
(* resumes it, and a turn reports a stall only when some session failed     *)
(* with its batch open.  For the second: a suspended session with an open   *)
(* row waits for a younger child that is itself suspended, and there is no  *)
(* infinite line of those (_resume_completed_parent_locked,                 *)
(* _resume_after_parent_task, run_turn).                                    *)
THEOREM NoWakeIsLost == Spec => []NoLostWake
<1>1. ASSUME TypeOK, WorkInv PROVE CompleteBatchResumes
  BY <1>1 DEF WorkInv, CompleteBatchResumes
<1>2. ASSUME TypeOK, BatchIsFresh, WorkInv, Stalled,
             \A a \in Aid : phase[a] \in {"stopped", "error"} => IsEmpty(rows[a])
      PROVE  FALSE
  <2>1. /\ SettlementIsClosed /\ RoutesAreOpen /\ OpenRowIsRouted /\ CompleteBatchResumes
        /\ \A c \in Aid : PhaseFits(c) /\ WorkFits(c)
        /\ turn # "idle" /\ ~settling /\ ~shutting
    BY <1>2 DEF WorkInv, Stalled
  <2>2. \A a \in Aid : pc[a] = "none" /\ ~Starting(a)
    BY <1>2 DEF Stalled, NoTasks, Live
  <2>3. \A a \in Aid : stage[a] = "model"
    BY <1>2, <2>2 DEF BatchIsFresh
  <2>4. \A a \in Aid : phase[a] # "awaiting" => IsEmpty(rows[a]) /\ phase[a] \in Terminal \cup {"idle", "absent"}
    BY <1>2, <2>1, <2>2 DEF PhaseFits, TypeOK, Phase, Terminal
  <2> DEFINE W == {a \in Aid : phase[a] = "awaiting"}
  <2>5. W # {}
    <3>1. PICK a \in Aid : ~(IsEmpty(rows[a]) /\ phase[a] \in Terminal \cup {"idle"})
                           /\ phase[a] # "absent"
      BY <1>2 DEF Stalled, Quiescent
    <3> QED
      BY <2>4, <3>1
  <2>6. PICK a \in W : \A c \in W : ~(a < c)
    BY <2>5, Youngest
  <2>7. ~IsEmpty(rows[a]) /\ ~IsComplete(rows[a])
    BY <2>1, <2>2 DEF PhaseFits, CompleteBatchResumes
  <2>8. PICK k \in Call : rows[a][k] = "pending"
    BY <2>7 DEF IsComplete
  <2>9. PICK c \in Aid : Route(a, k, c)
    BY <2>1, <2>3, <2>8 DEF OpenRowIsRouted
  <2>10. origin[c] # 0 /\ par[c] = a /\ c \notin Startups
    BY <2>2, <2>9 DEF Route, Call, Startups
  <2>11. a < c /\ phase[c] = "awaiting"
    BY <2>1, <2>2, <2>10 DEF WorkFits, Producing
  <2> QED
    BY <2>6, <2>11
<1>3. TypeOK /\ BatchIsFresh /\ WorkInv => NoLostWake
  BY <1>1, <1>2 DEF NoLostWake, StallMeansBrokenBatch
<1> QED
  BY <1>3, WorkInvariance, PTL

(* One step from a state that satisfies every invariant; those that are     *)
(* proved already hold after it too.                                        *)
AgreeContext ==
    /\ TypeOK /\ JoinInv /\ BatchIsFresh /\ WorkInv /\ AgreeInv
    /\ TypeOK' /\ JoinInv' /\ BatchIsFresh' /\ WorkInv'

(* What can happen in general.                                              *)
LEMMA AnyStep ==
    ASSUME [Next]_vars
    PROVE  \/ RestoreTurn \/ RestoredCancelled \/ StartTurn \/ RequestCancel \/ EndTurn
           \/ StallTurn \/ SettleBegin \/ SettleEnd \/ CleanupBegin \/ CleanupEnd
           \/ \E a \in Aid :
                 \/ MessageTurn(a) \/ EnterGate(a) \/ EnterLoop(a) \/ Generate(a)
                 \/ IllegalTransition(a) \/ IssueCall(a) \/ RefuseSpawn(a)
                 \/ (\E k \in Keys : ReserveSpawn(a, k))
                 \/ RegisterChild(a) \/ StartChild(a) \/ RollbackSpawn(a) \/ RecordResult(a)
                 \/ FinishBatch(a) \/ BatchFails(a) \/ Return(a) \/ CheckpointFails(a)
                 \/ DiffFails(a) \/ DiscardLate(a) \/ Deliver(a) \/ EndDrain(a)
                 \/ Killed(a) \/ Cancelled(a) \/ Swallow(a)
           \/ UNCHANGED vars
  BY DEF Next, TurnStep, DriverStep, Finished

(* What can still happen once cleanup has begun, and how it begins.         *)
LEMMA ShutStep ==
    ASSUME [Next]_vars, shutting'
    PROVE  \/ CleanupBegin \/ CleanupEnd
           \/ shutting /\ \E a \in Aid :
                 \/ EnterGate(a) \/ EnterLoop(a) \/ Generate(a)
                 \/ IllegalTransition(a) \/ IssueCall(a) \/ RefuseSpawn(a)
                 \/ RollbackSpawn(a) \/ RecordResult(a)
                 \/ FinishBatch(a) \/ BatchFails(a) \/ Return(a) \/ CheckpointFails(a)
                 \/ DiffFails(a) \/ DiscardLate(a) \/ Deliver(a) \/ EndDrain(a)
                 \/ Killed(a) \/ Cancelled(a) \/ Swallow(a)
           \/ UNCHANGED vars
<1> USE DEF cleanVars
<1>1. ~RestoreTurn /\ ~RestoredCancelled /\ ~StartTurn /\ ~RequestCancel /\ ~EndTurn
  BY DEF RestoreTurn, RestoredCancelled, StartTurn, RequestCancel, EndTurn
<1>2. ~StallTurn /\ ~SettleBegin /\ ~SettleEnd
  BY DEF StallTurn, Stalled, SettleBegin, SettleEnd
<1>3. ASSUME NEW a \in Aid
      PROVE  /\ ~MessageTurn(a) /\ ~RegisterChild(a) /\ ~StartChild(a)
             /\ \A k \in Keys : ~ReserveSpawn(a, k)
  BY DEF MessageTurn, RegisterChild, StartChild, ReserveSpawn
<1>4. ASSUME NEW a \in Aid,
             EnterGate(a) \/ EnterLoop(a) \/ Generate(a) \/ IllegalTransition(a)
             \/ IssueCall(a) \/ RefuseSpawn(a) \/ RollbackSpawn(a) \/ RecordResult(a)
             \/ FinishBatch(a) \/ BatchFails(a)
      PROVE  shutting
  BY <1>4 DEF EnterGate, EnterLoop, Generate, IllegalTransition, IssueCall,
     RefuseSpawn, RollbackSpawn, RecordResult, FinishBatch, BatchFails
<1>5. ASSUME NEW a \in Aid,
             Return(a) \/ CheckpointFails(a) \/ DiffFails(a) \/ DiscardLate(a)
             \/ Deliver(a) \/ EndDrain(a) \/ Killed(a) \/ Cancelled(a) \/ Swallow(a)
      PROVE  shutting
  BY <1>5 DEF Return, CheckpointFails, DiffFails, DiscardLate, Deliver, EndDrain,
     Killed, Cancelled, Swallow
<1> QED
  BY <1>1, <1>2, <1>3, <1>4, <1>5, AnyStep

(* No agent is called NoAid.                                                *)
LEMMA NoAidIsNobody == NoAid \notin Aid
  BY BoundsAssumption DEF NoAid, Aid

(* Nothing is owned by a cleanup that has not begun.                        *)
LEMMA OwnedStep ==
    ASSUME AgreeContext, [Next]_vars
    PROVE  ((~shutting => owned = {}) /\ (shutting <=> clean # "no"))'
<1> USE DEF AgreeContext, sessionVars, driverVars, tableVars, batchVars, routeVars,
       cleanVars, turnVars
<1>1. CASE RestoreTurn
  BY <1>1 DEF AgreeInv, RestoreTurn
<1>2. CASE RestoredCancelled
  BY <1>2 DEF AgreeInv, RestoredCancelled
<1>3. CASE StartTurn
  BY <1>3 DEF AgreeInv, StartTurn
<1>4. CASE RequestCancel
  BY <1>4 DEF AgreeInv, RequestCancel
<1>5. CASE EndTurn
  BY <1>5 DEF AgreeInv, EndTurn
<1>6. CASE StallTurn
  BY <1>6 DEF AgreeInv, StallTurn
<1>7. CASE SettleBegin
  BY <1>7 DEF AgreeInv, SettleBegin
<1>8. CASE SettleEnd
  BY <1>8 DEF AgreeInv, SettleEnd
<1>9. CASE CleanupBegin
  BY <1>9 DEF AgreeInv, CleanupBegin
<1>10. CASE CleanupEnd
  BY <1>10 DEF AgreeInv, CleanupEnd, FinalizeAll, InTable
<1>11. ASSUME NEW a \in Aid, MessageTurn(a) PROVE ((~shutting => owned = {}) /\ (shutting <=> clean # "no"))'
  BY <1>11 DEF AgreeInv, MessageTurn
<1>12. ASSUME NEW a \in Aid, EnterGate(a) PROVE ((~shutting => owned = {}) /\ (shutting <=> clean # "no"))'
  BY <1>12 DEF AgreeInv, EnterGate, At
<1>13. ASSUME NEW a \in Aid, EnterLoop(a) PROVE ((~shutting => owned = {}) /\ (shutting <=> clean # "no"))'
  BY <1>13 DEF AgreeInv, EnterLoop, At
<1>14. ASSUME NEW a \in Aid, Generate(a) PROVE ((~shutting => owned = {}) /\ (shutting <=> clean # "no"))'
  BY <1>14 DEF AgreeInv, Generate, At
<1>15. ASSUME NEW a \in Aid, IllegalTransition(a) PROVE ((~shutting => owned = {}) /\ (shutting <=> clean # "no"))'
  BY <1>15 DEF AgreeInv, IllegalTransition, At
<1>16. ASSUME NEW a \in Aid, IssueCall(a) PROVE ((~shutting => owned = {}) /\ (shutting <=> clean # "no"))'
  BY <1>16 DEF AgreeInv, IssueCall, InBatch, At
<1>17. ASSUME NEW a \in Aid, RefuseSpawn(a) PROVE ((~shutting => owned = {}) /\ (shutting <=> clean # "no"))'
  BY <1>17 DEF AgreeInv, RefuseSpawn, InBatch, At
<1>18. ASSUME NEW a \in Aid, RegisterChild(a) PROVE ((~shutting => owned = {}) /\ (shutting <=> clean # "no"))'
  BY <1>18 DEF AgreeInv, RegisterChild, InBatch, At
<1>19. ASSUME NEW a \in Aid, StartChild(a) PROVE ((~shutting => owned = {}) /\ (shutting <=> clean # "no"))'
  BY <1>19 DEF AgreeInv, StartChild, InBatch, At
<1>20. ASSUME NEW a \in Aid, RollbackSpawn(a) PROVE ((~shutting => owned = {}) /\ (shutting <=> clean # "no"))'
  BY <1>20 DEF AgreeInv, RollbackSpawn, At
<1>21. ASSUME NEW a \in Aid, RecordResult(a) PROVE ((~shutting => owned = {}) /\ (shutting <=> clean # "no"))'
  BY <1>21 DEF AgreeInv, RecordResult, At
<1>22. ASSUME NEW a \in Aid, FinishBatch(a) PROVE ((~shutting => owned = {}) /\ (shutting <=> clean # "no"))'
  BY <1>22 DEF AgreeInv, FinishBatch, InBatch, At
<1>23. ASSUME NEW a \in Aid, BatchFails(a) PROVE ((~shutting => owned = {}) /\ (shutting <=> clean # "no"))'
  BY <1>23 DEF AgreeInv, BatchFails, InBatch, At
<1>24. ASSUME NEW a \in Aid, Return(a) PROVE ((~shutting => owned = {}) /\ (shutting <=> clean # "no"))'
  BY <1>24 DEF AgreeInv, Return, At, FinalizeAll, InTable, EndNormally,
     EndDriver, ResumeDue
<1>25. ASSUME NEW a \in Aid, CheckpointFails(a) PROVE ((~shutting => owned = {}) /\ (shutting <=> clean # "no"))'
  BY <1>25 DEF AgreeInv, CheckpointFails, At
<1>26. ASSUME NEW a \in Aid, DiffFails(a) PROVE ((~shutting => owned = {}) /\ (shutting <=> clean # "no"))'
  BY <1>26 DEF AgreeInv, DiffFails, At
<1>27. ASSUME NEW a \in Aid, DiscardLate(a) PROVE ((~shutting => owned = {}) /\ (shutting <=> clean # "no"))'
  BY <1>27 DEF AgreeInv, DiscardLate, At, FinalizeAll, InTable, EndNormally,
     EndDriver, ResumeDue
<1>28. ASSUME NEW a \in Aid, Deliver(a) PROVE ((~shutting => owned = {}) /\ (shutting <=> clean # "no"))'
  BY <1>28 DEF AgreeInv, Deliver, At, Resume, ResumeDue
<1>29. ASSUME NEW a \in Aid, EndDrain(a) PROVE ((~shutting => owned = {}) /\ (shutting <=> clean # "no"))'
  BY <1>29 DEF AgreeInv, EndDrain, At, EndNormally, EndDriver, ResumeDue
<1>30. ASSUME NEW a \in Aid, Killed(a) PROVE ((~shutting => owned = {}) /\ (shutting <=> clean # "no"))'
  BY <1>30 DEF AgreeInv, Killed, EndDriver, ResumeDue
<1>31. ASSUME NEW a \in Aid, Cancelled(a) PROVE ((~shutting => owned = {}) /\ (shutting <=> clean # "no"))'
  BY <1>31 DEF AgreeInv, Cancelled
<1>32. ASSUME NEW a \in Aid, Swallow(a) PROVE ((~shutting => owned = {}) /\ (shutting <=> clean # "no"))'
  BY <1>32 DEF AgreeInv, Swallow
<1>33. ASSUME NEW a \in Aid, NEW k \in Keys, ReserveSpawn(a, k) PROVE ((~shutting => owned = {}) /\ (shutting <=> clean # "no"))'
  BY <1>33 DEF AgreeInv, ReserveSpawn, InBatch, At
<1>34. CASE UNCHANGED vars
  BY <1>34 DEF AgreeInv, vars
<1> QED
  BY <1>1, <1>2, <1>3, <1>4, <1>5, <1>6, <1>7, <1>8, <1>9, <1>10, <1>11,
     <1>12, <1>13, <1>14, <1>15, <1>16, <1>17, <1>18, <1>19, <1>20, <1>21,
     <1>22, <1>23, <1>24, <1>25, <1>26, <1>27, <1>28, <1>29, <1>30, <1>31,
     <1>32, <1>33, <1>34, AnyStep

(* Every action keeps EndFits: a driver past its run loop has a final phase. *)
LEMMA EndsStep ==
    ASSUME AgreeContext, [Next]_vars
    PROVE  \A x \in Aid : EndFits(x)'
<1> USE DEF AgreeContext, sessionVars, driverVars, tableVars, batchVars, routeVars,
       cleanVars, turnVars
<1>1. CASE RestoreTurn
  BY <1>1 DEF TypeOK, JoinInv, BatchIsFresh, Live, Starting, Terminal,
     StartupIsFresh, AgreeInv, EndFits, RestoreTurn
<1>2. CASE RestoredCancelled
  BY <1>2 DEF TypeOK, JoinInv, BatchIsFresh, Live, Starting, Terminal,
     StartupIsFresh, AgreeInv, EndFits, RestoredCancelled
<1>3. CASE StartTurn
  BY <1>3 DEF TypeOK, JoinInv, BatchIsFresh, Live, Starting, Terminal,
     StartupIsFresh, AgreeInv, EndFits, StartTurn
<1>4. CASE RequestCancel
  BY <1>4 DEF TypeOK, JoinInv, BatchIsFresh, Live, Starting, Terminal,
     StartupIsFresh, AgreeInv, EndFits, RequestCancel
<1>5. CASE EndTurn
  BY <1>5 DEF TypeOK, JoinInv, BatchIsFresh, Live, Starting, Terminal,
     StartupIsFresh, AgreeInv, EndFits, EndTurn
<1>6. CASE StallTurn
  BY <1>6 DEF TypeOK, JoinInv, BatchIsFresh, Live, Starting, Terminal,
     StartupIsFresh, AgreeInv, EndFits, StallTurn
<1>7. CASE SettleBegin
  BY <1>7 DEF TypeOK, JoinInv, BatchIsFresh, Live, Starting, Terminal,
     StartupIsFresh, AgreeInv, EndFits, SettleBegin
<1>8. CASE SettleEnd
  BY <1>8 DEF TypeOK, JoinInv, BatchIsFresh, Live, Starting, Terminal,
     StartupIsFresh, AgreeInv, EndFits, SettleEnd
<1>9. CASE CleanupBegin
  BY <1>9 DEF TypeOK, JoinInv, BatchIsFresh, Live, Starting, Terminal,
     StartupIsFresh, AgreeInv, EndFits, CleanupBegin
<1>10. CASE CleanupEnd
  <2>1. \A x \in Aid : Live(x) \/ turns[x] > 0 => x \notin Startups
    BY DEF JoinInv, StartupIsFresh, Startups, Live
  <2>2. \A x \in Aid : Live(x) \/ turns[x] > 0 => phase'[x] = phase[x] \/ phase'[x] = "stopped"
    BY <1>10, <2>1 DEF CleanupEnd, FinalizeAll, InTable, AgreeInv, EndFits
  <2>3. pc' = pc /\ turns' = turns /\ creq' = creq /\ shutting' = shutting
    BY <1>10 DEF CleanupEnd
  <2> QED
    BY <2>2, <2>3 DEF AgreeInv, EndFits, Live, Terminal
<1>11. ASSUME NEW a \in Aid, MessageTurn(a) PROVE \A x \in Aid : EndFits(x)'
  BY <1>11 DEF TypeOK, JoinInv, BatchIsFresh, Live, Starting, Terminal,
     StartupIsFresh, AgreeInv, EndFits, MessageTurn
<1>12. ASSUME NEW a \in Aid, EnterGate(a) PROVE \A x \in Aid : EndFits(x)'
  BY <1>12 DEF TypeOK, JoinInv, BatchIsFresh, Live, Starting, Terminal,
     StartupIsFresh, AgreeInv, EndFits, EnterGate, At
<1>13. ASSUME NEW a \in Aid, EnterLoop(a) PROVE \A x \in Aid : EndFits(x)'
  BY <1>13 DEF TypeOK, JoinInv, BatchIsFresh, Live, Starting, Terminal,
     StartupIsFresh, AgreeInv, EndFits, EnterLoop, At
<1>14. ASSUME NEW a \in Aid, Generate(a) PROVE \A x \in Aid : EndFits(x)'
  BY <1>14 DEF TypeOK, JoinInv, BatchIsFresh, Live, Starting, Terminal,
     StartupIsFresh, AgreeInv, EndFits, Generate, At
<1>15. ASSUME NEW a \in Aid, IllegalTransition(a) PROVE \A x \in Aid : EndFits(x)'
  BY <1>15 DEF TypeOK, JoinInv, BatchIsFresh, Live, Starting, Terminal,
     StartupIsFresh, AgreeInv, EndFits, IllegalTransition, At
<1>16. ASSUME NEW a \in Aid, IssueCall(a) PROVE \A x \in Aid : EndFits(x)'
  BY <1>16 DEF TypeOK, JoinInv, BatchIsFresh, Live, Starting, Terminal,
     StartupIsFresh, AgreeInv, EndFits, IssueCall, InBatch, At
<1>17. ASSUME NEW a \in Aid, RefuseSpawn(a) PROVE \A x \in Aid : EndFits(x)'
  BY <1>17 DEF TypeOK, JoinInv, BatchIsFresh, Live, Starting, Terminal,
     StartupIsFresh, AgreeInv, EndFits, RefuseSpawn, InBatch, At
<1>18. ASSUME NEW a \in Aid, RegisterChild(a) PROVE \A x \in Aid : EndFits(x)'
  BY <1>18 DEF TypeOK, JoinInv, BatchIsFresh, Live, Starting, Terminal,
     StartupIsFresh, AgreeInv, EndFits, RegisterChild, InBatch, At
<1>19. ASSUME NEW a \in Aid, StartChild(a) PROVE \A x \in Aid : EndFits(x)'
  <2>1. kid[a] \in Aid /\ pc[kid[a]] = "none" /\ phase[kid[a]] # "absent"
    BY <1>19 DEF StartChild, InBatch, JoinInv, StartupIsFresh, Starting, WorkInv, HandFits
  <2>2. /\ \A x \in Aid : pc'[x] = IF x = kid[a] THEN "created" ELSE pc[x]
        /\ \A x \in Aid : x # kid[a] => turns'[x] = turns[x]
        /\ phase' = phase /\ creq' = creq /\ ~shutting'
    BY <1>19, <2>1 DEF StartChild, TypeOK
  <2> QED
    BY <2>1, <2>2 DEF AgreeInv, EndFits, Live
<1>20. ASSUME NEW a \in Aid, RollbackSpawn(a) PROVE \A x \in Aid : EndFits(x)'
  BY <1>20 DEF TypeOK, JoinInv, BatchIsFresh, Live, Starting, Terminal,
     StartupIsFresh, AgreeInv, EndFits, RollbackSpawn, At
<1>21. ASSUME NEW a \in Aid, RecordResult(a) PROVE \A x \in Aid : EndFits(x)'
  BY <1>21 DEF TypeOK, JoinInv, BatchIsFresh, Live, Starting, Terminal,
     StartupIsFresh, AgreeInv, EndFits, RecordResult, At
<1>22. ASSUME NEW a \in Aid, FinishBatch(a) PROVE \A x \in Aid : EndFits(x)'
  BY <1>22 DEF TypeOK, JoinInv, BatchIsFresh, Live, Starting, Terminal,
     StartupIsFresh, AgreeInv, EndFits, FinishBatch, InBatch, At
<1>23. ASSUME NEW a \in Aid, BatchFails(a) PROVE \A x \in Aid : EndFits(x)'
  BY <1>23 DEF TypeOK, JoinInv, BatchIsFresh, Live, Starting, Terminal,
     StartupIsFresh, AgreeInv, EndFits, BatchFails, InBatch, At
<1>24. ASSUME NEW a \in Aid, Return(a) PROVE \A x \in Aid : EndFits(x)'
  BY <1>24 DEF TypeOK, JoinInv, BatchIsFresh, Live, Starting, Terminal,
     StartupIsFresh, AgreeInv, EndFits, Return, At, FinalizeAll, InTable,
     EndNormally, EndDriver, ResumeDue
<1>25. ASSUME NEW a \in Aid, CheckpointFails(a) PROVE \A x \in Aid : EndFits(x)'
  BY <1>25 DEF TypeOK, JoinInv, BatchIsFresh, Live, Starting, Terminal,
     StartupIsFresh, AgreeInv, EndFits, CheckpointFails, At
<1>26. ASSUME NEW a \in Aid, DiffFails(a) PROVE \A x \in Aid : EndFits(x)'
  BY <1>26 DEF TypeOK, JoinInv, BatchIsFresh, Live, Starting, Terminal,
     StartupIsFresh, AgreeInv, EndFits, DiffFails, At
<1>27. ASSUME NEW a \in Aid, DiscardLate(a) PROVE \A x \in Aid : EndFits(x)'
  BY <1>27 DEF TypeOK, JoinInv, BatchIsFresh, Live, Starting, Terminal,
     StartupIsFresh, AgreeInv, EndFits, DiscardLate, At, FinalizeAll, InTable,
     EndNormally, EndDriver, ResumeDue
<1>28. ASSUME NEW a \in Aid, Deliver(a) PROVE \A x \in Aid : EndFits(x)'
  BY <1>28 DEF TypeOK, JoinInv, BatchIsFresh, Live, Starting, Terminal,
     StartupIsFresh, AgreeInv, EndFits, Deliver, At, Resume, ResumeDue
<1>29. ASSUME NEW a \in Aid, EndDrain(a) PROVE \A x \in Aid : EndFits(x)'
  BY <1>29 DEF TypeOK, JoinInv, BatchIsFresh, Live, Starting, Terminal,
     StartupIsFresh, AgreeInv, EndFits, EndDrain, At, EndNormally, EndDriver,
     ResumeDue
<1>30. ASSUME NEW a \in Aid, Killed(a) PROVE \A x \in Aid : EndFits(x)'
  BY <1>30 DEF TypeOK, JoinInv, BatchIsFresh, Live, Starting, Terminal,
     StartupIsFresh, AgreeInv, EndFits, Killed, EndDriver, ResumeDue
<1>31. ASSUME NEW a \in Aid, Cancelled(a) PROVE \A x \in Aid : EndFits(x)'
  BY <1>31 DEF TypeOK, JoinInv, BatchIsFresh, Live, Starting, Terminal,
     StartupIsFresh, AgreeInv, EndFits, Cancelled
<1>32. ASSUME NEW a \in Aid, Swallow(a) PROVE \A x \in Aid : EndFits(x)'
  BY <1>32 DEF TypeOK, JoinInv, BatchIsFresh, Live, Starting, Terminal,
     StartupIsFresh, AgreeInv, EndFits, Swallow
<1>33. ASSUME NEW a \in Aid, NEW k \in Keys, ReserveSpawn(a, k) PROVE \A x \in Aid : EndFits(x)'
  BY <1>33 DEF TypeOK, JoinInv, BatchIsFresh, Live, Starting, Terminal,
     StartupIsFresh, AgreeInv, EndFits, ReserveSpawn, InBatch, At
<1>34. CASE UNCHANGED vars
  BY <1>34 DEF TypeOK, JoinInv, BatchIsFresh, Live, Starting, Terminal,
     StartupIsFresh, AgreeInv, EndFits, vars
<1> QED
  BY <1>1, <1>2, <1>3, <1>4, <1>5, <1>6, <1>7, <1>8, <1>9, <1>10, <1>11,
     <1>12, <1>13, <1>14, <1>15, <1>16, <1>17, <1>18, <1>19, <1>20, <1>21,
     <1>22, <1>23, <1>24, <1>25, <1>26, <1>27, <1>28, <1>29, <1>30, <1>31,
     <1>32, <1>33, <1>34, AnyStep

(* Every action keeps it true that a child with a row was started.          *)
LEMMA StartedStep ==
    ASSUME AgreeContext, [Next]_vars
    PROVE  \A p \in Aid, k \in Call, c \in Aid : Names(p, k, c)' => turns'[c] > 0
<1> USE DEF AgreeContext, sessionVars, driverVars, tableVars, batchVars, routeVars,
       cleanVars, turnVars
<1>1. CASE RestoreTurn
  BY <1>1 DEF TypeOK, JoinInv, BatchIsFresh, Live, Starting, Terminal,
     AgreeInv, TableFits, Names, NoRefs, RestoreTurn
<1>2. CASE RestoredCancelled
  BY <1>2 DEF TypeOK, JoinInv, BatchIsFresh, Live, Starting, Terminal,
     AgreeInv, TableFits, Names, NoRefs, RestoredCancelled
<1>3. CASE StartTurn
  BY <1>3 DEF TypeOK, JoinInv, BatchIsFresh, Live, Starting, Terminal,
     AgreeInv, TableFits, Names, NoRefs, StartTurn
<1>4. CASE RequestCancel
  BY <1>4 DEF TypeOK, JoinInv, BatchIsFresh, Live, Starting, Terminal,
     AgreeInv, TableFits, Names, NoRefs, RequestCancel
<1>5. CASE EndTurn
  BY <1>5 DEF TypeOK, JoinInv, BatchIsFresh, Live, Starting, Terminal,
     AgreeInv, TableFits, Names, NoRefs, EndTurn
<1>6. CASE StallTurn
  BY <1>6 DEF TypeOK, JoinInv, BatchIsFresh, Live, Starting, Terminal,
     AgreeInv, TableFits, Names, NoRefs, StallTurn
<1>7. CASE SettleBegin
  BY <1>7 DEF TypeOK, JoinInv, BatchIsFresh, Live, Starting, Terminal,
     AgreeInv, TableFits, Names, NoRefs, SettleBegin
<1>8. CASE SettleEnd
  <2>1. \A p \in Aid, k \in Call : ref'[p][k] \in {ref[p][k], NoAid}
    BY <1>8 DEF SettleEnd, TypeOK, NoRefs
  <2>2. \A p \in Aid : stage'[p] = "ref" => stage[p] = "ref" /\ cur'[p] = cur[p] /\ kid'[p] = kid[p]
    BY <1>8 DEF SettleEnd, TypeOK
  <2>3. turns' = turns
    BY <1>8 DEF SettleEnd
  <2>4. ASSUME NEW p \in Aid, NEW k \in Call, NEW c \in Aid, Names(p, k, c)'
        PROVE  turns'[c] > 0
    <3>1. Names(p, k, c)
      BY <2>1, <2>2, <2>4, NoAidIsNobody DEF Names
    <3> QED
      BY <3>1, <2>3 DEF AgreeInv, TableFits
  <2> QED
    BY <2>4
<1>9. CASE CleanupBegin
  BY <1>9 DEF TypeOK, JoinInv, BatchIsFresh, Live, Starting, Terminal,
     AgreeInv, TableFits, Names, NoRefs, CleanupBegin
<1>10. CASE CleanupEnd
  BY <1>10 DEF TypeOK, JoinInv, BatchIsFresh, Live, Starting, Terminal,
     AgreeInv, TableFits, Names, NoRefs, CleanupEnd, FinalizeAll, InTable
<1>11. ASSUME NEW a \in Aid, MessageTurn(a) PROVE \A p \in Aid, k \in Call, c \in Aid : Names(p, k, c)' => turns'[c] > 0
  BY <1>11 DEF TypeOK, JoinInv, BatchIsFresh, Live, Starting, Terminal,
     AgreeInv, TableFits, Names, NoRefs, MessageTurn
<1>12. ASSUME NEW a \in Aid, EnterGate(a) PROVE \A p \in Aid, k \in Call, c \in Aid : Names(p, k, c)' => turns'[c] > 0
  BY <1>12 DEF TypeOK, JoinInv, BatchIsFresh, Live, Starting, Terminal,
     AgreeInv, TableFits, Names, NoRefs, EnterGate, At
<1>13. ASSUME NEW a \in Aid, EnterLoop(a) PROVE \A p \in Aid, k \in Call, c \in Aid : Names(p, k, c)' => turns'[c] > 0
  <2>1. \A p \in Aid, k \in Call : ref'[p][k] \in {ref[p][k], NoAid}
    BY <1>13 DEF EnterLoop, TypeOK, NoRefs
  <2>2. \A p \in Aid : stage'[p] = "ref" => stage[p] = "ref" /\ cur'[p] = cur[p] /\ kid'[p] = kid[p]
    BY <1>13 DEF EnterLoop, TypeOK
  <2>3. turns' = turns
    BY <1>13 DEF EnterLoop
  <2>4. ASSUME NEW p \in Aid, NEW k \in Call, NEW c \in Aid, Names(p, k, c)'
        PROVE  turns'[c] > 0
    <3>1. Names(p, k, c)
      BY <2>1, <2>2, <2>4, NoAidIsNobody DEF Names
    <3> QED
      BY <3>1, <2>3 DEF AgreeInv, TableFits
  <2> QED
    BY <2>4
<1>14. ASSUME NEW a \in Aid, Generate(a) PROVE \A p \in Aid, k \in Call, c \in Aid : Names(p, k, c)' => turns'[c] > 0
  BY <1>14 DEF TypeOK, JoinInv, BatchIsFresh, Live, Starting, Terminal,
     AgreeInv, TableFits, Names, NoRefs, Generate, At
<1>15. ASSUME NEW a \in Aid, IllegalTransition(a) PROVE \A p \in Aid, k \in Call, c \in Aid : Names(p, k, c)' => turns'[c] > 0
  BY <1>15 DEF TypeOK, JoinInv, BatchIsFresh, Live, Starting, Terminal,
     AgreeInv, TableFits, Names, NoRefs, IllegalTransition, At
<1>16. ASSUME NEW a \in Aid, IssueCall(a) PROVE \A p \in Aid, k \in Call, c \in Aid : Names(p, k, c)' => turns'[c] > 0
  BY <1>16 DEF TypeOK, JoinInv, BatchIsFresh, Live, Starting, Terminal,
     AgreeInv, TableFits, Names, NoRefs, IssueCall, InBatch, At
<1>17. ASSUME NEW a \in Aid, RefuseSpawn(a) PROVE \A p \in Aid, k \in Call, c \in Aid : Names(p, k, c)' => turns'[c] > 0
  BY <1>17 DEF TypeOK, JoinInv, BatchIsFresh, Live, Starting, Terminal,
     AgreeInv, TableFits, Names, NoRefs, RefuseSpawn, InBatch, At
<1>18. ASSUME NEW a \in Aid, RegisterChild(a) PROVE \A p \in Aid, k \in Call, c \in Aid : Names(p, k, c)' => turns'[c] > 0
  BY <1>18 DEF TypeOK, JoinInv, BatchIsFresh, Live, Starting, Terminal,
     AgreeInv, TableFits, Names, NoRefs, RegisterChild, InBatch, At
<1>19. ASSUME NEW a \in Aid, StartChild(a) PROVE \A p \in Aid, k \in Call, c \in Aid : Names(p, k, c)' => turns'[c] > 0
  BY <1>19 DEF TypeOK, JoinInv, BatchIsFresh, Live, Starting, Terminal,
     AgreeInv, TableFits, Names, NoRefs, StartChild, InBatch, At
<1>20. ASSUME NEW a \in Aid, RollbackSpawn(a) PROVE \A p \in Aid, k \in Call, c \in Aid : Names(p, k, c)' => turns'[c] > 0
  BY <1>20 DEF TypeOK, JoinInv, BatchIsFresh, Live, Starting, Terminal,
     AgreeInv, TableFits, Names, NoRefs, RollbackSpawn, At
<1>21. ASSUME NEW a \in Aid, RecordResult(a) PROVE \A p \in Aid, k \in Call, c \in Aid : Names(p, k, c)' => turns'[c] > 0
  BY <1>21 DEF TypeOK, JoinInv, BatchIsFresh, Live, Starting, Terminal,
     AgreeInv, TableFits, Names, NoRefs, RecordResult, At
<1>22. ASSUME NEW a \in Aid, FinishBatch(a) PROVE \A p \in Aid, k \in Call, c \in Aid : Names(p, k, c)' => turns'[c] > 0
  <2>1. \A p \in Aid, k \in Call : ref'[p][k] \in {ref[p][k], NoAid}
    BY <1>22 DEF FinishBatch, TypeOK, NoRefs
  <2>2. \A p \in Aid : stage'[p] = "ref" => stage[p] = "ref" /\ cur'[p] = cur[p] /\ kid'[p] = kid[p]
    BY <1>22 DEF FinishBatch, TypeOK
  <2>3. turns' = turns
    BY <1>22 DEF FinishBatch
  <2>4. ASSUME NEW p \in Aid, NEW k \in Call, NEW c \in Aid, Names(p, k, c)'
        PROVE  turns'[c] > 0
    <3>1. Names(p, k, c)
      BY <2>1, <2>2, <2>4, NoAidIsNobody DEF Names
    <3> QED
      BY <3>1, <2>3 DEF AgreeInv, TableFits
  <2> QED
    BY <2>4
<1>23. ASSUME NEW a \in Aid, BatchFails(a) PROVE \A p \in Aid, k \in Call, c \in Aid : Names(p, k, c)' => turns'[c] > 0
  BY <1>23 DEF TypeOK, JoinInv, BatchIsFresh, Live, Starting, Terminal,
     AgreeInv, TableFits, Names, NoRefs, BatchFails, InBatch, At
<1>24. ASSUME NEW a \in Aid, Return(a) PROVE \A p \in Aid, k \in Call, c \in Aid : Names(p, k, c)' => turns'[c] > 0
  BY <1>24 DEF TypeOK, JoinInv, BatchIsFresh, Live, Starting, Terminal,
     AgreeInv, TableFits, Names, NoRefs, Return, At, FinalizeAll, InTable,
     EndNormally, EndDriver, ResumeDue
<1>25. ASSUME NEW a \in Aid, CheckpointFails(a) PROVE \A p \in Aid, k \in Call, c \in Aid : Names(p, k, c)' => turns'[c] > 0
  BY <1>25 DEF TypeOK, JoinInv, BatchIsFresh, Live, Starting, Terminal,
     AgreeInv, TableFits, Names, NoRefs, CheckpointFails, At
<1>26. ASSUME NEW a \in Aid, DiffFails(a) PROVE \A p \in Aid, k \in Call, c \in Aid : Names(p, k, c)' => turns'[c] > 0
  BY <1>26 DEF TypeOK, JoinInv, BatchIsFresh, Live, Starting, Terminal,
     AgreeInv, TableFits, Names, NoRefs, DiffFails, At
<1>27. ASSUME NEW a \in Aid, DiscardLate(a) PROVE \A p \in Aid, k \in Call, c \in Aid : Names(p, k, c)' => turns'[c] > 0
  BY <1>27 DEF TypeOK, JoinInv, BatchIsFresh, Live, Starting, Terminal,
     AgreeInv, TableFits, Names, NoRefs, DiscardLate, At, FinalizeAll,
     InTable, EndNormally, EndDriver, ResumeDue
<1>28. ASSUME NEW a \in Aid, Deliver(a) PROVE \A p \in Aid, k \in Call, c \in Aid : Names(p, k, c)' => turns'[c] > 0
  BY <1>28 DEF TypeOK, JoinInv, BatchIsFresh, Live, Starting, Terminal,
     AgreeInv, TableFits, Names, NoRefs, Deliver, At, Resume, ResumeDue
<1>29. ASSUME NEW a \in Aid, EndDrain(a) PROVE \A p \in Aid, k \in Call, c \in Aid : Names(p, k, c)' => turns'[c] > 0
  BY <1>29 DEF TypeOK, JoinInv, BatchIsFresh, Live, Starting, Terminal,
     AgreeInv, TableFits, Names, NoRefs, EndDrain, At, EndNormally, EndDriver,
     ResumeDue
<1>30. ASSUME NEW a \in Aid, Killed(a) PROVE \A p \in Aid, k \in Call, c \in Aid : Names(p, k, c)' => turns'[c] > 0
  BY <1>30 DEF TypeOK, JoinInv, BatchIsFresh, Live, Starting, Terminal,
     AgreeInv, TableFits, Names, NoRefs, Killed, EndDriver, ResumeDue
<1>31. ASSUME NEW a \in Aid, Cancelled(a) PROVE \A p \in Aid, k \in Call, c \in Aid : Names(p, k, c)' => turns'[c] > 0
  BY <1>31 DEF TypeOK, JoinInv, BatchIsFresh, Live, Starting, Terminal,
     AgreeInv, TableFits, Names, NoRefs, Cancelled
<1>32. ASSUME NEW a \in Aid, Swallow(a) PROVE \A p \in Aid, k \in Call, c \in Aid : Names(p, k, c)' => turns'[c] > 0
  BY <1>32 DEF TypeOK, JoinInv, BatchIsFresh, Live, Starting, Terminal,
     AgreeInv, TableFits, Names, NoRefs, Swallow
<1>33. ASSUME NEW a \in Aid, NEW w \in Keys, ReserveSpawn(a, w) PROVE \A p \in Aid, k \in Call, c \in Aid : Names(p, k, c)' => turns'[c] > 0
  BY <1>33 DEF TypeOK, JoinInv, BatchIsFresh, Live, Starting, Terminal,
     AgreeInv, TableFits, Names, NoRefs, ReserveSpawn, InBatch, At
<1>34. CASE UNCHANGED vars
  BY <1>34 DEF TypeOK, JoinInv, BatchIsFresh, Live, Starting, Terminal,
     AgreeInv, TableFits, Names, NoRefs, vars
<1> QED
  BY <1>1, <1>2, <1>3, <1>4, <1>5, <1>6, <1>7, <1>8, <1>9, <1>10, <1>11,
     <1>12, <1>13, <1>14, <1>15, <1>16, <1>17, <1>18, <1>19, <1>20, <1>21,
     <1>22, <1>23, <1>24, <1>25, <1>26, <1>27, <1>28, <1>29, <1>30, <1>31,
     <1>32, <1>33, <1>34, AnyStep

(* Until cleanup begins this is what WorkInv says.                          *)
LEMMA OpenTables ==
    ASSUME AgreeContext, ~shutting',
           \A p \in Aid, k \in Call, c \in Aid : Names(p, k, c)' => turns'[c] > 0
    PROVE  RoutesStayOpen' /\ OneRoute' /\ \A x \in Aid : TableFits(x)'
<1>1. /\ RefsNameChildren' /\ RoutesAreOpen' /\ OneRoute'
      /\ \A x \in Aid : HandFits(x)' /\ WorkFits(x)'
  BY DEF AgreeContext, WorkInv
<1>2. RoutesStayOpen'
  BY <1>1 DEF AgreeContext, TypeOK, RoutesAreOpen, WorkFits, RoutesStayOpen, Aid
<1>3. ASSUME NEW x \in Aid PROVE TableFits(x)'
  <2>1. \A k \in Call : rows'[x][k] = "empty" => ref'[x][k] = NoAid
    BY <1>1 DEF RefsNameChildren
  <2>2. ASSUME NEW k \in Call, NEW c \in Aid, Names(x, k, c)'
        PROVE  c # 0 /\ par'[c] = x /\ turns'[c] > 0
    BY <1>1, <2>2, NoAidIsNobody DEF RefsNameChildren, HandFits, Names
  <2>3. stage'[x] \notin {"model", "next"} =>
            cur'[x] # 0 /\ ref'[x][cur'[x]] = NoAid /\ rows'[x][cur'[x]] # "empty"
    BY <1>1 DEF HandFits
  <2>4. ASSUME stage'[x] \notin {"model", "next"}, NEW c \in Aid, Route(x, cur[x], c)'
        PROVE  c = kid'[x] /\ stage'[x] \in {"env", "emit", "ref"}
    <3>1. stage'[x] \in {"issued", "env", "emit", "ref", "rolledback"}
      BY <2>4 DEF AgreeContext, TypeOK, Stage
    <3>2. CASE stage'[x] \in {"issued", "rolledback", "ref"}
      BY <1>1, <2>4, <3>2 DEF HandFits
    <3>3. CASE stage'[x] \in {"env", "emit"}
      <4>1. Route(x, cur[x], kid[x])' /\ kid'[x] \in Aid /\ origin'[c] # 0
        BY <1>1, <2>3, <2>4, <3>3 DEF AgreeContext, JoinInv, StartupIsFresh, HandFits, Starting, Route
      <4> QED
        BY <1>1, <2>4, <3>3, <4>1 DEF OneRoute, Route
    <3> QED
      BY <3>1, <3>2, <3>3
  <2> QED
    BY <2>1, <2>2, <2>3, <2>4 DEF TableFits
<1> QED
  BY <1>1, <1>2, <1>3

(* A route leads from a known agent by one of its calls.                    *)
LEMMA RoutesAreTyped ==
    ASSUME TypeOK
    PROVE  \A c \in Aid : origin[c] # 0 => origin[c] \in Call /\ par[c] \in Aid
<1>1. \A c \in Aid : origin[c] \in 0 .. MaxCalls /\ par[c] \in Aid
  BY DEF TypeOK
<1> QED
  BY <1>1, BoundsAssumption DEF Call

(* A call in hand is a call.                                                *)
LEMMA CursorIsTyped ==
    ASSUME TypeOK
    PROVE  \A x \in Aid : cur[x] # 0 => cur[x] \in Call
<1>1. \A x \in Aid : cur[x] \in 0 .. MaxCalls
  BY DEF TypeOK
<1> QED
  BY <1>1, BoundsAssumption DEF Call

(* What cleanup does to rows and routes: it closes them together.           *)
Closes ==
    /\ par' = par /\ ref' = ref /\ turns' = turns
    /\ cur' = cur /\ stage' = stage /\ kid' = kid
    /\ \A c \in Aid : origin'[c] \in {origin[c], 0}
    /\ \A c \in Aid : origin'[c] # 0 => rows'[par[c]][origin[c]] = rows[par[c]][origin[c]]
    /\ \A p \in Aid, k \in Call : rows'[p][k] = "empty" <=> rows[p][k] = "empty"

(* A driver that is closed, and the end of cleanup, close rows and routes.   *)
LEMMA Finalizing ==
    ASSUME AgreeContext,
           \/ \E a \in Aid : Return(a) \/ DiscardLate(a)
           \/ CleanupEnd
    PROVE  Closes
<1>1. ASSUME NEW F \in SUBSET Aid, NEW T, FinalizeAll(F, T)
      PROVE  /\ \A c \in Aid : origin'[c] \in {origin[c], 0}
             /\ \A c \in Aid : origin'[c] # 0 => rows'[par[c]][origin[c]] = rows[par[c]][origin[c]]
             /\ \A p \in Aid, k \in Call : rows'[p][k] = "empty" <=> rows[p][k] = "empty"
  <2>1. \A c \in Aid : origin'[c] = IF c \in F \ committed THEN 0 ELSE origin[c]
    BY <1>1 DEF FinalizeAll
  <2>2. \A p \in Aid, k \in Call : rows'[p][k] =
            IF /\ rows[p][k] = "pending"
               /\ \E c \in F \ committed : par[c] = p /\ origin[c] = k
            THEN "failed" ELSE rows[p][k]
    BY <1>1 DEF FinalizeAll
  <2>3. ASSUME NEW c \in Aid, origin'[c] # 0
        PROVE  rows'[par[c]][origin[c]] = rows[par[c]][origin[c]]
    <3>1. c \notin F \ committed /\ origin[c] # 0
      BY <2>1, <2>3
    <3>2. origin[c] \in Call /\ par[c] \in Aid
      BY <3>1, RoutesAreTyped DEF AgreeContext
    <3>3. ASSUME NEW d \in F \ committed, par[d] = par[c], origin[d] = origin[c] PROVE FALSE
      BY <3>1, <3>3, <1>1 DEF AgreeContext, AgreeInv, OneRoute, Route, TypeOK
    <3> QED
      BY <2>2, <3>2, <3>3
  <2> QED
    BY <2>1, <2>2, <2>3
<1>2. CASE \E a \in Aid : Return(a)
  <2>1. PICK a \in Aid : Return(a)
    BY <1>2
  <2>2. par' = par /\ ref' = ref /\ turns' = turns /\ cur' = cur /\ stage' = stage /\ kid' = kid
    BY <2>1 DEF Return, batchVars
  <2>3. FinalizeAll({a}, InTable) \/ (rows' = rows /\ origin' = origin)
    BY <2>1 DEF Return
  <2> QED
    BY <1>1, <2>2, <2>3 DEF Closes
<1>3. CASE \E a \in Aid : DiscardLate(a)
  BY <1>1, <1>3 DEF DiscardLate, batchVars, Closes
<1>4. CASE CleanupEnd
  <2>1. owned \cup (IF turn = "cleaning" THEN {0} ELSE {}) \in SUBSET Aid
    <3>1. 0 \in Aid /\ owned \subseteq Aid
      BY BoundsAssumption DEF AgreeContext, TypeOK, Aid
    <3> QED
      BY <3>1
  <2> QED
    BY <1>1, <1>4, <2>1 DEF CleanupEnd, batchVars, Closes
<1> QED
  BY <1>2, <1>3, <1>4

(* A delivery answers the row of its route and no other.                    *)
LEMMA Delivery ==
    ASSUME AgreeContext, NEW c \in Aid, Deliver(c), origin[c] # 0
    PROVE  /\ par[c] \in Aid /\ origin[c] \in Call /\ par[c] # c /\ c # 0
           /\ rows[par[c]][origin[c]] = "pending" /\ OutcomeOf(c) \in {"done", "failed"}
           /\ \A x \in Aid, k \in Call :
                 rows'[x][k] = IF x = par[c] /\ k = origin[c] THEN OutcomeOf(c) ELSE rows[x][k]
           /\ \A x \in Aid : origin'[x] = IF x = c THEN 0 ELSE origin[x]
           /\ phase' = IF shutting THEN [phase EXCEPT ![c] = "stopped"] ELSE phase
           /\ committed' = IF shutting THEN committed ELSE committed \cup {c}
           /\ Resume(c, "drain", par[c], rows')
<1>1. /\ par[c] \in Aid /\ origin[c] \in Call /\ par[c] # c /\ c # 0
      /\ rows[par[c]][origin[c]] = "pending"
  BY RoutesAreTyped DEF AgreeContext, AgreeInv, RoutesStayOpen
<1>2. OutcomeOf(c) \in {"done", "failed"}
  BY DEF OutcomeOf
<1>3. rows' = [rows EXCEPT ![par[c]][origin[c]] = OutcomeOf(c)] /\ Delivered(c)
  BY <1>1 DEF Deliver, RowsAfter, Delivered
<1>4. \A x \in Aid, k \in Call :
          rows'[x][k] = IF x = par[c] /\ k = origin[c] THEN OutcomeOf(c) ELSE rows[x][k]
  BY <1>1, <1>3 DEF AgreeContext, TypeOK
<1>5. /\ \A x \in Aid : origin'[x] = IF x = c THEN 0 ELSE origin[x]
      /\ committed' = IF shutting THEN committed ELSE committed \cup {c}
      /\ phase' = IF shutting THEN [phase EXCEPT ![c] = "stopped"] ELSE phase
  BY <1>3 DEF Deliver, AgreeContext, TypeOK
<1>6. Resume(c, "drain", par[c], rows')
  BY DEF Deliver
<1> QED
  BY <1>1, <1>2, <1>4, <1>5, <1>6

(* A shut down scheduler keeps RoutesStayOpen.                               *)
LEMMA StayOpenStep ==
    ASSUME AgreeContext, [Next]_vars, shutting'
    PROVE  RoutesStayOpen'
<1> USE DEF AgreeContext, sessionVars, driverVars, tableVars, batchVars, routeVars,
       cleanVars, turnVars
<1>1. CASE CleanupBegin
  BY <1>1 DEF TypeOK, JoinInv, BatchIsFresh, Live, Starting, Terminal,
     AgreeInv, RoutesStayOpen, TableFits, Route, CleanupBegin
<1>2. CASE CleanupEnd
  <2>1. Closes
    BY <1>2, Finalizing
  <2>2. \A c \in Aid : origin'[c] # 0 => origin[c] # 0 /\ origin'[c] = origin[c]
    BY <2>1 DEF Closes
  <2> QED
    BY <2>1, <2>2 DEF Closes, AgreeInv, RoutesStayOpen
<1>3. ASSUME NEW a \in Aid, EnterGate(a), shutting PROVE RoutesStayOpen'
  BY <1>3 DEF TypeOK, JoinInv, BatchIsFresh, Live, Starting, Terminal,
     AgreeInv, RoutesStayOpen, TableFits, Route, EnterGate, At
<1>4. ASSUME NEW a \in Aid, EnterLoop(a), shutting PROVE RoutesStayOpen'
  <2>1. \A c \in Aid : origin[c] # 0 => origin[c] \in Call /\ par[c] \in Aid
    BY RoutesAreTyped
  <2>2. (rows' # rows \/ ref' # ref => IsComplete(rows[a])) /\ origin' = origin /\ par' = par
    BY <1>4 DEF EnterLoop
  <2>3. \A x \in Aid : x # a => rows'[x] = rows[x] /\ ref'[x] = ref[x]
    BY <1>4 DEF EnterLoop, TypeOK
  <2>4. IsComplete(rows[a]) => \A c \in Aid : origin[c] # 0 => par[c] # a
    BY <2>1 DEF AgreeInv, RoutesStayOpen, IsComplete
  <2> QED
    BY <2>1, <2>2, <2>3, <2>4 DEF AgreeInv, RoutesStayOpen
<1>5. ASSUME NEW a \in Aid, Generate(a), shutting PROVE RoutesStayOpen'
  BY <1>5 DEF TypeOK, JoinInv, BatchIsFresh, Live, Starting, Terminal,
     AgreeInv, RoutesStayOpen, TableFits, Route, Generate, At
<1>6. ASSUME NEW a \in Aid, IllegalTransition(a), shutting PROVE RoutesStayOpen'
  BY <1>6 DEF TypeOK, JoinInv, BatchIsFresh, Live, Starting, Terminal,
     AgreeInv, RoutesStayOpen, TableFits, Route, IllegalTransition, At
<1>7. ASSUME NEW a \in Aid, IssueCall(a), shutting PROVE RoutesStayOpen'
  BY <1>7 DEF TypeOK, JoinInv, BatchIsFresh, Live, Starting, Terminal,
     AgreeInv, RoutesStayOpen, TableFits, Route, IssueCall, InBatch, At
<1>8. ASSUME NEW a \in Aid, RefuseSpawn(a), shutting PROVE RoutesStayOpen'
  BY <1>8 DEF TypeOK, JoinInv, BatchIsFresh, Live, Starting, Terminal,
     AgreeInv, RoutesStayOpen, TableFits, Route, RefuseSpawn, InBatch, At
<1>9. ASSUME NEW a \in Aid, RollbackSpawn(a), shutting PROVE RoutesStayOpen'
  BY <1>9 DEF TypeOK, JoinInv, BatchIsFresh, Live, Starting, Terminal,
     AgreeInv, RoutesStayOpen, TableFits, Route, RollbackSpawn, At
<1>10. ASSUME NEW a \in Aid, RecordResult(a), shutting PROVE RoutesStayOpen'
  <2>1. /\ stage[a] \in {"ref", "rolledback"} /\ cur[a] \in Call /\ origin' = origin /\ par' = par
        /\ \A c \in Aid : Route(a, cur[a], c) => c = kid[a] /\ stage[a] # "rolledback"
    BY <1>10, CursorIsTyped DEF RecordResult, AgreeInv, TableFits
  <2>2. \A p \in Aid, k \in Call :
            /\ rows'[p][k] = rows[p][k] \/ (p = a /\ k = cur[a] /\ stage[a] = "rolledback")
            /\ ref'[p][k] = ref[p][k] \/ (p = a /\ k = cur[a] /\ ref'[p][k] = kid[a])
    BY <1>10, <2>1 DEF RecordResult, TypeOK
  <2>3. \A c \in Aid : origin[c] # 0 => origin[c] \in Call /\ par[c] \in Aid
    BY RoutesAreTyped
  <2> QED
    BY <2>1, <2>2, <2>3 DEF AgreeInv, RoutesStayOpen, Route
<1>11. ASSUME NEW a \in Aid, FinishBatch(a), shutting PROVE RoutesStayOpen'
  <2>1. \A c \in Aid : origin[c] # 0 => origin[c] \in Call /\ par[c] \in Aid
    BY RoutesAreTyped
  <2>2. (rows' # rows \/ ref' # ref => IsComplete(rows[a])) /\ origin' = origin /\ par' = par
    BY <1>11 DEF FinishBatch
  <2>3. \A x \in Aid : x # a => rows'[x] = rows[x] /\ ref'[x] = ref[x]
    BY <1>11 DEF FinishBatch, TypeOK
  <2>4. IsComplete(rows[a]) => \A c \in Aid : origin[c] # 0 => par[c] # a
    BY <2>1 DEF AgreeInv, RoutesStayOpen, IsComplete
  <2> QED
    BY <2>1, <2>2, <2>3, <2>4 DEF AgreeInv, RoutesStayOpen
<1>12. ASSUME NEW a \in Aid, BatchFails(a), shutting PROVE RoutesStayOpen'
  BY <1>12 DEF TypeOK, JoinInv, BatchIsFresh, Live, Starting, Terminal,
     AgreeInv, RoutesStayOpen, TableFits, Route, BatchFails, InBatch, At
<1>13. ASSUME NEW a \in Aid, Return(a), shutting PROVE RoutesStayOpen'
  <2>1. Closes
    BY <1>13, Finalizing
  <2>2. \A c \in Aid : origin'[c] # 0 => origin[c] # 0 /\ origin'[c] = origin[c]
    BY <2>1 DEF Closes
  <2> QED
    BY <2>1, <2>2 DEF Closes, AgreeInv, RoutesStayOpen
<1>14. ASSUME NEW a \in Aid, CheckpointFails(a), shutting PROVE RoutesStayOpen'
  BY <1>14 DEF TypeOK, JoinInv, BatchIsFresh, Live, Starting, Terminal,
     AgreeInv, RoutesStayOpen, TableFits, Route, CheckpointFails, At
<1>15. ASSUME NEW a \in Aid, DiffFails(a), shutting PROVE RoutesStayOpen'
  BY <1>15 DEF TypeOK, JoinInv, BatchIsFresh, Live, Starting, Terminal,
     AgreeInv, RoutesStayOpen, TableFits, Route, DiffFails, At
<1>16. ASSUME NEW a \in Aid, DiscardLate(a), shutting PROVE RoutesStayOpen'
  <2>1. Closes
    BY <1>16, Finalizing
  <2>2. \A c \in Aid : origin'[c] # 0 => origin[c] # 0 /\ origin'[c] = origin[c]
    BY <2>1 DEF Closes
  <2> QED
    BY <2>1, <2>2 DEF Closes, AgreeInv, RoutesStayOpen
<1>17. ASSUME NEW a \in Aid, Deliver(a), shutting PROVE RoutesStayOpen'
  <2>1. CASE origin[a] = 0
    BY <1>17, <2>1 DEF Deliver, AgreeInv, RoutesStayOpen
  <2>2. CASE origin[a] # 0
    <3>1. \A c \in Aid : origin'[c] # 0 => c # a /\ origin'[c] = origin[c] /\ origin[c] \in Call
                                           /\ par[c] \in Aid
      BY <2>2, <1>17, Delivery, RoutesAreTyped
    <3>2. \A c \in Aid : origin'[c] # 0 => rows'[par[c]][origin[c]] = rows[par[c]][origin[c]]
      BY <2>2, <3>1, <1>17, Delivery DEF AgreeInv, OneRoute, Route
    <3>3. ref' = ref /\ par' = par
      BY <1>17 DEF Deliver
    <3> QED
      BY <3>1, <3>2, <3>3 DEF AgreeInv, RoutesStayOpen
  <2> QED
    BY <2>1, <2>2
<1>18. ASSUME NEW a \in Aid, EndDrain(a), shutting PROVE RoutesStayOpen'
  BY <1>18 DEF TypeOK, JoinInv, BatchIsFresh, Live, Starting, Terminal,
     AgreeInv, RoutesStayOpen, TableFits, Route, EndDrain, At, EndNormally,
     EndDriver, ResumeDue
<1>19. ASSUME NEW a \in Aid, Killed(a), shutting PROVE RoutesStayOpen'
  BY <1>19 DEF TypeOK, JoinInv, BatchIsFresh, Live, Starting, Terminal,
     AgreeInv, RoutesStayOpen, TableFits, Route, Killed, EndDriver, ResumeDue
<1>20. ASSUME NEW a \in Aid, Cancelled(a), shutting PROVE RoutesStayOpen'
  BY <1>20 DEF TypeOK, JoinInv, BatchIsFresh, Live, Starting, Terminal,
     AgreeInv, RoutesStayOpen, TableFits, Route, Cancelled
<1>21. ASSUME NEW a \in Aid, Swallow(a), shutting PROVE RoutesStayOpen'
  BY <1>21 DEF TypeOK, JoinInv, BatchIsFresh, Live, Starting, Terminal,
     AgreeInv, RoutesStayOpen, TableFits, Route, Swallow
<1>22. CASE UNCHANGED vars
  BY <1>22 DEF TypeOK, JoinInv, BatchIsFresh, Live, Starting, Terminal,
     AgreeInv, RoutesStayOpen, TableFits, Route, vars
<1> QED
  BY <1>1, <1>2, <1>3, <1>4, <1>5, <1>6, <1>7, <1>8, <1>9, <1>10, <1>11,
     <1>12, <1>13, <1>14, <1>15, <1>16, <1>17, <1>18, <1>19, <1>20, <1>21,
     <1>22, ShutStep

(* A shut down scheduler keeps OneRoute.                                     *)
LEMMA StayOneStep ==
    ASSUME AgreeContext, [Next]_vars, shutting'
    PROVE  OneRoute'
<1> USE DEF AgreeContext, sessionVars, driverVars, tableVars, batchVars, routeVars,
       cleanVars, turnVars
<1>1. CASE CleanupBegin
  BY <1>1 DEF TypeOK, JoinInv, BatchIsFresh, Live, Starting, Terminal,
     AgreeInv, OneRoute, TableFits, Route, CleanupBegin
<1>2. CASE CleanupEnd
  BY <1>2 DEF TypeOK, JoinInv, BatchIsFresh, Live, Starting, Terminal,
     AgreeInv, OneRoute, TableFits, Route, CleanupEnd, FinalizeAll, InTable
<1>3. ASSUME NEW a \in Aid, EnterGate(a), shutting PROVE OneRoute'
  BY <1>3 DEF TypeOK, JoinInv, BatchIsFresh, Live, Starting, Terminal,
     AgreeInv, OneRoute, TableFits, Route, EnterGate, At
<1>4. ASSUME NEW a \in Aid, EnterLoop(a), shutting PROVE OneRoute'
  BY <1>4 DEF TypeOK, JoinInv, BatchIsFresh, Live, Starting, Terminal,
     AgreeInv, OneRoute, TableFits, Route, EnterLoop, At
<1>5. ASSUME NEW a \in Aid, Generate(a), shutting PROVE OneRoute'
  BY <1>5 DEF TypeOK, JoinInv, BatchIsFresh, Live, Starting, Terminal,
     AgreeInv, OneRoute, TableFits, Route, Generate, At
<1>6. ASSUME NEW a \in Aid, IllegalTransition(a), shutting PROVE OneRoute'
  BY <1>6 DEF TypeOK, JoinInv, BatchIsFresh, Live, Starting, Terminal,
     AgreeInv, OneRoute, TableFits, Route, IllegalTransition, At
<1>7. ASSUME NEW a \in Aid, IssueCall(a), shutting PROVE OneRoute'
  BY <1>7 DEF TypeOK, JoinInv, BatchIsFresh, Live, Starting, Terminal,
     AgreeInv, OneRoute, TableFits, Route, IssueCall, InBatch, At
<1>8. ASSUME NEW a \in Aid, RefuseSpawn(a), shutting PROVE OneRoute'
  BY <1>8 DEF TypeOK, JoinInv, BatchIsFresh, Live, Starting, Terminal,
     AgreeInv, OneRoute, TableFits, Route, RefuseSpawn, InBatch, At
<1>9. ASSUME NEW a \in Aid, RollbackSpawn(a), shutting PROVE OneRoute'
  BY <1>9 DEF TypeOK, JoinInv, BatchIsFresh, Live, Starting, Terminal,
     AgreeInv, OneRoute, TableFits, Route, RollbackSpawn, At
<1>10. ASSUME NEW a \in Aid, RecordResult(a), shutting PROVE OneRoute'
  BY <1>10 DEF TypeOK, JoinInv, BatchIsFresh, Live, Starting, Terminal,
     AgreeInv, OneRoute, TableFits, Route, RecordResult, At
<1>11. ASSUME NEW a \in Aid, FinishBatch(a), shutting PROVE OneRoute'
  BY <1>11 DEF TypeOK, JoinInv, BatchIsFresh, Live, Starting, Terminal,
     AgreeInv, OneRoute, TableFits, Route, FinishBatch, InBatch, At
<1>12. ASSUME NEW a \in Aid, BatchFails(a), shutting PROVE OneRoute'
  BY <1>12 DEF TypeOK, JoinInv, BatchIsFresh, Live, Starting, Terminal,
     AgreeInv, OneRoute, TableFits, Route, BatchFails, InBatch, At
<1>13. ASSUME NEW a \in Aid, Return(a), shutting PROVE OneRoute'
  BY <1>13 DEF TypeOK, JoinInv, BatchIsFresh, Live, Starting, Terminal,
     AgreeInv, OneRoute, TableFits, Route, Return, At, FinalizeAll, InTable,
     EndNormally, EndDriver, ResumeDue
<1>14. ASSUME NEW a \in Aid, CheckpointFails(a), shutting PROVE OneRoute'
  BY <1>14 DEF TypeOK, JoinInv, BatchIsFresh, Live, Starting, Terminal,
     AgreeInv, OneRoute, TableFits, Route, CheckpointFails, At
<1>15. ASSUME NEW a \in Aid, DiffFails(a), shutting PROVE OneRoute'
  BY <1>15 DEF TypeOK, JoinInv, BatchIsFresh, Live, Starting, Terminal,
     AgreeInv, OneRoute, TableFits, Route, DiffFails, At
<1>16. ASSUME NEW a \in Aid, DiscardLate(a), shutting PROVE OneRoute'
  BY <1>16 DEF TypeOK, JoinInv, BatchIsFresh, Live, Starting, Terminal,
     AgreeInv, OneRoute, TableFits, Route, DiscardLate, At, FinalizeAll,
     InTable, EndNormally, EndDriver, ResumeDue
<1>17. ASSUME NEW a \in Aid, Deliver(a), shutting PROVE OneRoute'
  <2>1. par' = par /\ \A c \in Aid : origin'[c] \in {origin[c], 0}
    BY <1>17, Delivery DEF Deliver
  <2> QED
    BY <2>1 DEF AgreeInv, OneRoute, Route
<1>18. ASSUME NEW a \in Aid, EndDrain(a), shutting PROVE OneRoute'
  BY <1>18 DEF TypeOK, JoinInv, BatchIsFresh, Live, Starting, Terminal,
     AgreeInv, OneRoute, TableFits, Route, EndDrain, At, EndNormally,
     EndDriver, ResumeDue
<1>19. ASSUME NEW a \in Aid, Killed(a), shutting PROVE OneRoute'
  BY <1>19 DEF TypeOK, JoinInv, BatchIsFresh, Live, Starting, Terminal,
     AgreeInv, OneRoute, TableFits, Route, Killed, EndDriver, ResumeDue
<1>20. ASSUME NEW a \in Aid, Cancelled(a), shutting PROVE OneRoute'
  BY <1>20 DEF TypeOK, JoinInv, BatchIsFresh, Live, Starting, Terminal,
     AgreeInv, OneRoute, TableFits, Route, Cancelled
<1>21. ASSUME NEW a \in Aid, Swallow(a), shutting PROVE OneRoute'
  BY <1>21 DEF TypeOK, JoinInv, BatchIsFresh, Live, Starting, Terminal,
     AgreeInv, OneRoute, TableFits, Route, Swallow
<1>22. CASE UNCHANGED vars
  BY <1>22 DEF TypeOK, JoinInv, BatchIsFresh, Live, Starting, Terminal,
     AgreeInv, OneRoute, TableFits, Route, vars
<1> QED
  BY <1>1, <1>2, <1>3, <1>4, <1>5, <1>6, <1>7, <1>8, <1>9, <1>10, <1>11,
     <1>12, <1>13, <1>14, <1>15, <1>16, <1>17, <1>18, <1>19, <1>20, <1>21,
     <1>22, ShutStep

(* A shut down scheduler keeps TableFits.                                    *)
LEMMA TableStep ==
    ASSUME AgreeContext, [Next]_vars, shutting'
    PROVE  \A x \in Aid : TableFits(x)'
<1> USE DEF AgreeContext, sessionVars, driverVars, tableVars, batchVars, routeVars,
       cleanVars, turnVars
<1>1. CASE CleanupBegin
  BY <1>1 DEF TypeOK, JoinInv, BatchIsFresh, Live, Starting, Terminal,
     AgreeInv, RoutesStayOpen, TableFits, Names, Route, NoRows, NoRefs,
     CleanupBegin
<1>2. CASE CleanupEnd
  <2>1. Closes
    BY <1>2, Finalizing
  <2>2. ASSUME NEW x \in Aid PROVE TableFits(x)'
    <3>1. stage[x] \notin {"model", "next"} => cur[x] \in Call
      BY CursorIsTyped DEF AgreeInv, TableFits
    <3>2. \A c \in Aid : cur[x] # 0 /\ Route(x, cur[x], c)' => Route(x, cur[x], c)
      BY <2>1 DEF Closes, Route
    <3> QED
      BY <2>1, <3>1, <3>2 DEF Closes, AgreeInv, TableFits, Names
  <2> QED
    BY <2>2
<1>3. ASSUME NEW a \in Aid, EnterGate(a), shutting PROVE \A x \in Aid : TableFits(x)'
  BY <1>3 DEF TypeOK, JoinInv, BatchIsFresh, Live, Starting, Terminal,
     AgreeInv, RoutesStayOpen, TableFits, Names, Route, NoRows, NoRefs,
     EnterGate, At
<1>4. ASSUME NEW a \in Aid, EnterLoop(a), shutting PROVE \A x \in Aid : TableFits(x)'
  <2>1. /\ par' = par /\ origin' = origin /\ turns' = turns
        /\ \A x \in Aid : x # a => /\ rows'[x] = rows[x] /\ ref'[x] = ref[x]
                                   /\ stage'[x] = stage[x] /\ cur'[x] = cur[x] /\ kid'[x] = kid[x]
    BY <1>4 DEF EnterLoop, TypeOK
  <2>2. ASSUME NEW x \in Aid, x # a PROVE TableFits(x)'
    <3>1. TableFits(x)
      BY DEF AgreeInv
    <3> QED
      BY <2>1, <2>2, <3>1 DEF TableFits, Names, Route
  <2>3. stage'[a] = "model"
    BY <1>4 DEF EnterLoop, At, BatchIsFresh
  <2>4. \A k \in Call : \/ rows'[a][k] = rows[a][k] /\ ref'[a][k] = ref[a][k]
                        \/ rows'[a][k] = "empty" /\ ref'[a][k] = NoAid
    BY <1>4 DEF EnterLoop, TypeOK, NoRows, NoRefs
  <2>5. TableFits(a)'
    BY <2>1, <2>3, <2>4, NoAidIsNobody DEF AgreeInv, TableFits, Names
  <2> QED
    BY <2>2, <2>5
<1>5. ASSUME NEW a \in Aid, Generate(a), shutting PROVE \A x \in Aid : TableFits(x)'
  BY <1>5 DEF TypeOK, JoinInv, BatchIsFresh, Live, Starting, Terminal,
     AgreeInv, RoutesStayOpen, TableFits, Names, Route, NoRows, NoRefs,
     Generate, At
<1>6. ASSUME NEW a \in Aid, IllegalTransition(a), shutting PROVE \A x \in Aid : TableFits(x)'
  BY <1>6 DEF TypeOK, JoinInv, BatchIsFresh, Live, Starting, Terminal,
     AgreeInv, RoutesStayOpen, TableFits, Names, Route, NoRows, NoRefs,
     IllegalTransition, At
<1>7. ASSUME NEW a \in Aid, IssueCall(a), shutting PROVE \A x \in Aid : TableFits(x)'
  BY <1>7 DEF TypeOK, JoinInv, BatchIsFresh, Live, Starting, Terminal,
     AgreeInv, RoutesStayOpen, TableFits, Names, Route, NoRows, NoRefs,
     IssueCall, InBatch, At
<1>8. ASSUME NEW a \in Aid, RefuseSpawn(a), shutting PROVE \A x \in Aid : TableFits(x)'
  BY <1>8 DEF TypeOK, JoinInv, BatchIsFresh, Live, Starting, Terminal,
     AgreeInv, RoutesStayOpen, TableFits, Names, Route, NoRows, NoRefs,
     RefuseSpawn, InBatch, At
<1>9. ASSUME NEW a \in Aid, RollbackSpawn(a), shutting PROVE \A x \in Aid : TableFits(x)'
  BY <1>9 DEF TypeOK, JoinInv, BatchIsFresh, Live, Starting, Terminal,
     AgreeInv, RoutesStayOpen, TableFits, Names, Route, NoRows, NoRefs,
     RollbackSpawn, At
<1>10. ASSUME NEW a \in Aid, RecordResult(a), shutting PROVE \A x \in Aid : TableFits(x)'
  BY <1>10 DEF TypeOK, JoinInv, BatchIsFresh, Live, Starting, Terminal,
     AgreeInv, RoutesStayOpen, TableFits, Names, Route, NoRows, NoRefs,
     RecordResult, At
<1>11. ASSUME NEW a \in Aid, FinishBatch(a), shutting PROVE \A x \in Aid : TableFits(x)'
  <2>1. /\ par' = par /\ origin' = origin /\ turns' = turns
        /\ \A x \in Aid : x # a => /\ rows'[x] = rows[x] /\ ref'[x] = ref[x]
                                   /\ stage'[x] = stage[x] /\ cur'[x] = cur[x] /\ kid'[x] = kid[x]
    BY <1>11 DEF FinishBatch, TypeOK
  <2>2. ASSUME NEW x \in Aid, x # a PROVE TableFits(x)'
    <3>1. TableFits(x)
      BY DEF AgreeInv
    <3> QED
      BY <2>1, <2>2, <3>1 DEF TableFits, Names, Route
  <2>3. stage'[a] = "model"
    BY <1>11 DEF FinishBatch, TypeOK
  <2>4. \A k \in Call : \/ rows'[a][k] = rows[a][k] /\ ref'[a][k] = ref[a][k]
                        \/ rows'[a][k] = "empty" /\ ref'[a][k] = NoAid
    BY <1>11 DEF FinishBatch, TypeOK, NoRows, NoRefs
  <2>5. TableFits(a)'
    BY <2>1, <2>3, <2>4, NoAidIsNobody DEF AgreeInv, TableFits, Names
  <2> QED
    BY <2>2, <2>5
<1>12. ASSUME NEW a \in Aid, BatchFails(a), shutting PROVE \A x \in Aid : TableFits(x)'
  BY <1>12 DEF TypeOK, JoinInv, BatchIsFresh, Live, Starting, Terminal,
     AgreeInv, RoutesStayOpen, TableFits, Names, Route, NoRows, NoRefs,
     BatchFails, InBatch, At
<1>13. ASSUME NEW a \in Aid, Return(a), shutting PROVE \A x \in Aid : TableFits(x)'
  <2>1. Closes
    BY <1>13, Finalizing
  <2>2. ASSUME NEW x \in Aid PROVE TableFits(x)'
    <3>1. stage[x] \notin {"model", "next"} => cur[x] \in Call
      BY CursorIsTyped DEF AgreeInv, TableFits
    <3>2. \A c \in Aid : cur[x] # 0 /\ Route(x, cur[x], c)' => Route(x, cur[x], c)
      BY <2>1 DEF Closes, Route
    <3> QED
      BY <2>1, <3>1, <3>2 DEF Closes, AgreeInv, TableFits, Names
  <2> QED
    BY <2>2
<1>14. ASSUME NEW a \in Aid, CheckpointFails(a), shutting PROVE \A x \in Aid : TableFits(x)'
  BY <1>14 DEF TypeOK, JoinInv, BatchIsFresh, Live, Starting, Terminal,
     AgreeInv, RoutesStayOpen, TableFits, Names, Route, NoRows, NoRefs,
     CheckpointFails, At
<1>15. ASSUME NEW a \in Aid, DiffFails(a), shutting PROVE \A x \in Aid : TableFits(x)'
  BY <1>15 DEF TypeOK, JoinInv, BatchIsFresh, Live, Starting, Terminal,
     AgreeInv, RoutesStayOpen, TableFits, Names, Route, NoRows, NoRefs,
     DiffFails, At
<1>16. ASSUME NEW a \in Aid, DiscardLate(a), shutting PROVE \A x \in Aid : TableFits(x)'
  <2>1. Closes
    BY <1>16, Finalizing
  <2>2. ASSUME NEW x \in Aid PROVE TableFits(x)'
    <3>1. stage[x] \notin {"model", "next"} => cur[x] \in Call
      BY CursorIsTyped DEF AgreeInv, TableFits
    <3>2. \A c \in Aid : cur[x] # 0 /\ Route(x, cur[x], c)' => Route(x, cur[x], c)
      BY <2>1 DEF Closes, Route
    <3> QED
      BY <2>1, <3>1, <3>2 DEF Closes, AgreeInv, TableFits, Names
  <2> QED
    BY <2>2
<1>17. ASSUME NEW a \in Aid, Deliver(a), shutting PROVE \A x \in Aid : TableFits(x)'
  <2>1. /\ par' = par /\ ref' = ref /\ turns' = turns /\ cur' = cur /\ stage' = stage /\ kid' = kid
        /\ \A c \in Aid : origin'[c] \in {origin[c], 0}
    BY <1>17, Delivery DEF Deliver
  <2>2. \A p \in Aid, k \in Call : rows'[p][k] = "empty" <=> rows[p][k] = "empty"
    BY <1>17, Delivery DEF Deliver
  <2>3. ASSUME NEW x \in Aid PROVE TableFits(x)'
    <3>1. stage[x] \notin {"model", "next"} => cur[x] \in Call
      BY CursorIsTyped DEF AgreeInv, TableFits
    <3>2. \A c \in Aid : cur[x] # 0 /\ Route(x, cur[x], c)' => Route(x, cur[x], c)
      BY <2>1 DEF Route
    <3> QED
      BY <2>1, <2>2, <3>1, <3>2 DEF AgreeInv, TableFits, Names
  <2> QED
    BY <2>3
<1>18. ASSUME NEW a \in Aid, EndDrain(a), shutting PROVE \A x \in Aid : TableFits(x)'
  BY <1>18 DEF TypeOK, JoinInv, BatchIsFresh, Live, Starting, Terminal,
     AgreeInv, RoutesStayOpen, TableFits, Names, Route, NoRows, NoRefs,
     EndDrain, At, EndNormally, EndDriver, ResumeDue
<1>19. ASSUME NEW a \in Aid, Killed(a), shutting PROVE \A x \in Aid : TableFits(x)'
  BY <1>19 DEF TypeOK, JoinInv, BatchIsFresh, Live, Starting, Terminal,
     AgreeInv, RoutesStayOpen, TableFits, Names, Route, NoRows, NoRefs,
     Killed, EndDriver, ResumeDue
<1>20. ASSUME NEW a \in Aid, Cancelled(a), shutting PROVE \A x \in Aid : TableFits(x)'
  BY <1>20 DEF TypeOK, JoinInv, BatchIsFresh, Live, Starting, Terminal,
     AgreeInv, RoutesStayOpen, TableFits, Names, Route, NoRows, NoRefs,
     Cancelled
<1>21. ASSUME NEW a \in Aid, Swallow(a), shutting PROVE \A x \in Aid : TableFits(x)'
  BY <1>21 DEF TypeOK, JoinInv, BatchIsFresh, Live, Starting, Terminal,
     AgreeInv, RoutesStayOpen, TableFits, Names, Route, NoRows, NoRefs,
     Swallow
<1>22. CASE UNCHANGED vars
  BY <1>22 DEF TypeOK, JoinInv, BatchIsFresh, Live, Starting, Terminal,
     AgreeInv, RoutesStayOpen, TableFits, Names, Route, NoRows, NoRefs, vars
<1> QED
  BY <1>1, <1>2, <1>3, <1>4, <1>5, <1>6, <1>7, <1>8, <1>9, <1>10, <1>11,
     <1>12, <1>13, <1>14, <1>15, <1>16, <1>17, <1>18, <1>19, <1>20, <1>21,
     <1>22, ShutStep

(* The row of a route can only name the child that is on it.                *)
LEMMA OneAnswers ==
    ASSUME AgreeContext, NEW c \in Aid, origin[c] # 0, NEW x \in Aid,
           Names(par[c], origin[c], x)
    PROVE  x = c
<1>1. /\ par[c] \in Aid /\ ref[par[c]][origin[c]] \in {c, NoAid}
  BY RoutesAreTyped DEF AgreeContext, AgreeInv, RoutesStayOpen
<1>2. stage[par[c]] = "ref" /\ cur[par[c]] = origin[c] => c = kid[par[c]]
  BY <1>1 DEF AgreeContext, AgreeInv, TableFits, Route
<1> QED
  BY <1>1, <1>2, NoAidIsNobody DEF Names

(* A child in startup has had no turn, no driver and no row.                *)
LEMMA StartupIsNew ==
    ASSUME AgreeContext
    PROVE  /\ \A x \in Aid : x \in Startups => turns[x] = 0 /\ pc[x] = "none"
           /\ \A p \in Aid : Starting(p) => kid[p] \in Aid /\ kid[p] \in Startups
  BY DEF AgreeContext, JoinInv, StartupIsFresh, Startups

(* What is finalized is no success that a row tells of, and a row that is   *)
(* failed with it was waiting for it.                                       *)
LEMMA FinalizedOutcome ==
    ASSUME AgreeContext, NEW F \in SUBSET Aid, NEW T, FinalizeAll(F, T),
           \A x \in F : x # 0 => x \in owned \/ pc[x] \in {"ret", "ended"},
           \A x \in Aid : turns[x] > 0 => x \in T,
           NEW p \in Aid, NEW k \in Call, NEW x \in Aid, Names(p, k, x), turns[x] = 1
    PROVE  /\ rows'[p][k] = "done" => rows[p][k] = "done" /\ phase'[x] = phase[x]
           /\ rows'[p][k] = "failed" => /\ phase'[x] \in {"stopped", "error"}
                                        /\ rows[p][k] = "failed" \/ x \in F
<1>1. /\ x # 0 /\ turns[x] > 0
      /\ phase'[x] = IF x \in F \ committed THEN "stopped" ELSE phase[x]
      /\ rows'[p][k] = IF /\ rows[p][k] = "pending"
                          /\ \E c \in F \ committed : par[c] = p /\ origin[c] = k
                       THEN "failed" ELSE rows[p][k]
  BY DEF AgreeContext, AgreeInv, TableFits, FinalizeAll
<1>2. OutcomeIsFinal(x)
  BY DEF AgreeContext, AgreeInv
<1>3. ASSUME NEW c \in F \ committed, par[c] = p, origin[c] = k PROVE c = x
  BY <1>3, OneAnswers DEF Call
<1>4. rows[p][k] = "done" => x \notin F \ committed
  BY <1>1, <1>2 DEF OutcomeIsFinal
<1>5. rows[p][k] = "failed" => phase[x] \in {"stopped", "error"}
  BY <1>2 DEF OutcomeIsFinal
<1> QED
  BY <1>1, <1>3, <1>4, <1>5

(* Every action keeps OutcomeIsFinal.                                        *)
LEMMA OutcomeStep ==
    ASSUME AgreeContext, [Next]_vars
    PROVE  \A x \in Aid : OutcomeIsFinal(x)'
<1> USE DEF AgreeContext, sessionVars, driverVars, tableVars, batchVars, routeVars,
       cleanVars, turnVars
<1>1. CASE RestoreTurn
  BY <1>1 DEF TypeOK, JoinInv, BatchIsFresh, Live, Starting, Terminal,
     AgreeInv, EndFits, TableFits, Names, OutcomeIsFinal, RestoreTurn
<1>2. CASE RestoredCancelled
  BY <1>2 DEF TypeOK, JoinInv, BatchIsFresh, Live, Starting, Terminal,
     AgreeInv, EndFits, TableFits, Names, OutcomeIsFinal, RestoredCancelled
<1>3. CASE StartTurn
  BY <1>3 DEF TypeOK, JoinInv, BatchIsFresh, Live, Starting, Terminal,
     AgreeInv, EndFits, TableFits, Names, OutcomeIsFinal, StartTurn
<1>4. CASE RequestCancel
  BY <1>4 DEF TypeOK, JoinInv, BatchIsFresh, Live, Starting, Terminal,
     AgreeInv, EndFits, TableFits, Names, OutcomeIsFinal, RequestCancel
<1>5. CASE EndTurn
  BY <1>5 DEF TypeOK, JoinInv, BatchIsFresh, Live, Starting, Terminal,
     AgreeInv, EndFits, TableFits, Names, OutcomeIsFinal, EndTurn
<1>6. CASE StallTurn
  BY <1>6 DEF TypeOK, JoinInv, BatchIsFresh, Live, Starting, Terminal,
     AgreeInv, EndFits, TableFits, Names, OutcomeIsFinal, StallTurn
<1>7. CASE SettleBegin
  BY <1>7 DEF TypeOK, JoinInv, BatchIsFresh, Live, Starting, Terminal,
     AgreeInv, EndFits, TableFits, Names, OutcomeIsFinal, SettleBegin
<1>8. CASE SettleEnd
  <2>1. \A p \in Aid, k \in Call :
            rows'[p][k] \in {rows[p][k], "empty"} /\ ref'[p][k] \in {ref[p][k], NoAid}
    BY <1>8 DEF SettleEnd, TypeOK, NoRows, NoRefs
  <2>2. \A x \in Aid : /\ phase[x] \in Terminal => phase'[x] = phase[x]
                       /\ x # 0 /\ x \in committed /\ Live(x) => x \in committed'
    BY <1>8 DEF SettleEnd
  <2>3. /\ pc' = pc /\ creq' = creq /\ turns' = turns /\ owned' = {} /\ owned = {} /\ ~shutting
        /\ stage' = stage /\ cur' = cur /\ kid' = kid
    BY <1>8 DEF SettleEnd, AgreeInv
  <2>4. ASSUME NEW x \in Aid, NEW p \in Aid, NEW k \in Call, Names(p, k, x)', turns'[x] = 1
        PROVE  /\ rows'[p][k] = "done" =>
                    /\ phase'[x] = "done" /\ pc'[x] \in {"drain", "none"}
                    /\ Live(x)' => x \in committed'
               /\ rows'[p][k] = "failed" =>
                    /\ phase'[x] \in {"stopped", "error"}
                    /\ pc'[x] \in {"created", "gate"} => creq'[x]
    <3>1. Names(p, k, x) /\ x # 0 /\ OutcomeIsFinal(x)
      BY <2>1, <2>3, <2>4, NoAidIsNobody DEF Names, AgreeInv, TableFits
    <3> QED
      BY <2>1, <2>2, <2>3, <2>4, <3>1 DEF OutcomeIsFinal, Live, Terminal
  <2> QED
    BY <2>3, <2>4 DEF OutcomeIsFinal
<1>9. CASE CleanupBegin
  <2>1. /\ ~shutting /\ owned' = {x \in Aid : Live(x)} \cup Startups
        /\ creq' = [x \in Aid |-> Live(x)]
    BY <1>9 DEF CleanupBegin, AgreeInv
  <2>2. /\ rows' = rows /\ ref' = ref /\ turns' = turns /\ phase' = phase /\ pc' = pc
        /\ stage' = stage /\ cur' = cur /\ kid' = kid /\ committed' = committed
    BY <1>9 DEF CleanupBegin
  <2>3. ASSUME NEW x \in Aid PROVE OutcomeIsFinal(x)'
    <3>1. OutcomeIsFinal(x) /\ (x \in Startups => turns[x] # 1)
      BY StartupIsNew DEF AgreeInv
    <3> QED
      BY <2>1, <2>2, <3>1 DEF OutcomeIsFinal, Names, Live
  <2> QED
    BY <2>3
<1>10. CASE CleanupEnd
  <2> DEFINE F == owned \cup (IF turn = "cleaning" THEN {0} ELSE {})
  <2>1. FinalizeAll(F, InTable \ Startups) /\ shutting /\ shutting' /\ owned' = {}
    BY <1>10 DEF CleanupEnd, AgreeInv
  <2>2. /\ ref' = ref /\ turns' = turns /\ pc' = pc /\ creq' = creq
        /\ stage' = stage /\ cur' = cur /\ kid' = kid
    BY <1>10 DEF CleanupEnd
  <2>3. F \in SUBSET Aid /\ \A x \in F : x # 0 => x \in owned
    <3>1. 0 \in Aid /\ owned \subseteq Aid
      BY BoundsAssumption DEF TypeOK, Aid
    <3> QED
      BY <3>1
  <2>4. \A x \in Aid : turns[x] > 0 => x \in InTable \ Startups
    BY StartupIsNew DEF AgreeInv, EndFits, InTable
  <2> HIDE DEF F
  <2>5. ASSUME NEW x \in Aid, NEW p \in Aid, NEW k \in Call, Names(p, k, x)', turns'[x] = 1
        PROVE  /\ rows'[p][k] = "done" =>
                    /\ phase'[x] = "done" /\ pc'[x] \in {"drain", "none"}
               /\ rows'[p][k] = "failed" =>
                    /\ phase'[x] \in {"stopped", "error"}
                    /\ pc'[x] \in {"created", "gate"} => creq'[x]
    <3>1. Names(p, k, x) /\ turns[x] = 1 /\ OutcomeIsFinal(x) /\ EndFits(x)
      BY <2>2, <2>5 DEF Names, AgreeInv
    <3>2. /\ rows'[p][k] = "done" => rows[p][k] = "done" /\ phase'[x] = phase[x]
          /\ rows'[p][k] = "failed" => phase'[x] \in {"stopped", "error"}
      BY <2>1, <2>3, <2>4, <3>1, FinalizedOutcome
    <3> QED
      BY <2>1, <2>2, <3>1, <3>2 DEF OutcomeIsFinal, EndFits
  <2> QED
    BY <2>1, <2>5 DEF OutcomeIsFinal
<1>11. ASSUME NEW a \in Aid, MessageTurn(a) PROVE \A x \in Aid : OutcomeIsFinal(x)'
  BY <1>11 DEF TypeOK, JoinInv, BatchIsFresh, Live, Starting, Terminal,
     AgreeInv, EndFits, TableFits, Names, OutcomeIsFinal, MessageTurn
<1>12. ASSUME NEW a \in Aid, EnterGate(a) PROVE \A x \in Aid : OutcomeIsFinal(x)'
  BY <1>12 DEF TypeOK, JoinInv, BatchIsFresh, Live, Starting, Terminal,
     AgreeInv, EndFits, TableFits, Names, OutcomeIsFinal, EnterGate, At
<1>13. ASSUME NEW a \in Aid, EnterLoop(a) PROVE \A x \in Aid : OutcomeIsFinal(x)'
  <2>1. /\ \A p \in Aid, k \in Call :
               rows'[p][k] \in {rows[p][k], "empty"} /\ ref'[p][k] \in {ref[p][k], NoAid}
        /\ turns' = turns /\ owned' = owned /\ committed' = committed /\ shutting' = shutting
        /\ creq' = creq
    BY <1>13 DEF EnterLoop, TypeOK, NoRows, NoRefs
  <2>2. /\ \A x \in Aid : x # a => phase'[x] = phase[x] /\ pc'[x] = pc[x]
        /\ \A p \in Aid : stage'[p] = "ref" => stage[p] = "ref" /\ cur'[p] = cur[p] /\ kid'[p] = kid[p]
    BY <1>13 DEF EnterLoop, TypeOK
  <2>3. ASSUME NEW x \in Aid, NEW p \in Aid, NEW k \in Call, Names(p, k, x)', turns'[x] = 1
        PROVE  /\ rows'[p][k] = "done" =>
                    /\ phase'[x] = "done" /\ pc'[x] \in {"drain", "none"}
                    /\ x \in owned \/ (Live(x)' /\ ~shutting) => x \in committed
               /\ rows'[p][k] = "failed" =>
                    /\ phase'[x] \in {"stopped", "error"}
                    /\ pc'[x] \in {"created", "gate"} => creq[x]
    <3>1. Names(p, k, x) /\ turns[x] = 1 /\ OutcomeIsFinal(x)
      BY <2>1, <2>2, <2>3, NoAidIsNobody DEF Names, AgreeInv
    <3>2. CASE x # a
      BY <2>1, <2>2, <3>1, <3>2 DEF OutcomeIsFinal, Live
    <3>3. CASE x = a
      <4>1. pc[a] = "gate" /\ ~creq[a]
        BY <1>13 DEF EnterLoop, At
      <4> QED
        BY <2>1, <3>1, <3>3, <4>1 DEF OutcomeIsFinal
    <3> QED
      BY <3>2, <3>3
  <2> QED
    BY <2>1, <2>3 DEF OutcomeIsFinal
<1>14. ASSUME NEW a \in Aid, Generate(a) PROVE \A x \in Aid : OutcomeIsFinal(x)'
  BY <1>14 DEF TypeOK, JoinInv, BatchIsFresh, Live, Starting, Terminal,
     AgreeInv, EndFits, TableFits, Names, OutcomeIsFinal, Generate, At
<1>15. ASSUME NEW a \in Aid, IllegalTransition(a) PROVE \A x \in Aid : OutcomeIsFinal(x)'
  BY <1>15 DEF TypeOK, JoinInv, BatchIsFresh, Live, Starting, Terminal,
     AgreeInv, EndFits, TableFits, Names, OutcomeIsFinal, IllegalTransition,
     At
<1>16. ASSUME NEW a \in Aid, IssueCall(a) PROVE \A x \in Aid : OutcomeIsFinal(x)'
  BY <1>16 DEF TypeOK, JoinInv, BatchIsFresh, Live, Starting, Terminal,
     AgreeInv, EndFits, TableFits, Names, OutcomeIsFinal, IssueCall, InBatch,
     At
<1>17. ASSUME NEW a \in Aid, RefuseSpawn(a) PROVE \A x \in Aid : OutcomeIsFinal(x)'
  BY <1>17 DEF TypeOK, JoinInv, BatchIsFresh, Live, Starting, Terminal,
     AgreeInv, EndFits, TableFits, Names, OutcomeIsFinal, RefuseSpawn,
     InBatch, At
<1>18. ASSUME NEW a \in Aid, RegisterChild(a) PROVE \A x \in Aid : OutcomeIsFinal(x)'
  <2>1. /\ kid[a] \in Aid /\ turns[kid[a]] = 0
    BY <1>18, StartupIsNew DEF RegisterChild, InBatch, Starting
  <2>2. /\ rows' = rows /\ ref' = ref /\ turns' = turns /\ pc' = pc /\ creq' = creq
        /\ owned' = owned /\ committed' = committed /\ shutting' = shutting
        /\ \A x \in Aid : x # kid[a] => phase'[x] = phase[x]
        /\ \A p \in Aid : stage'[p] = "ref" => stage[p] = "ref" /\ cur'[p] = cur[p] /\ kid'[p] = kid[p]
    BY <1>18 DEF RegisterChild, TypeOK
  <2>3. ASSUME NEW x \in Aid PROVE OutcomeIsFinal(x)'
    <3>1. OutcomeIsFinal(x)
      BY DEF AgreeInv
    <3>2. CASE x = kid[a]
      BY <2>1, <2>2, <3>2 DEF OutcomeIsFinal
    <3>3. CASE x # kid[a]
      BY <2>2, <3>1, <3>3 DEF OutcomeIsFinal, Names, Live
    <3> QED
      BY <3>2, <3>3
  <2> QED
    BY <2>3
<1>19. ASSUME NEW a \in Aid, StartChild(a) PROVE \A x \in Aid : OutcomeIsFinal(x)'
  <2>1. /\ kid[a] \in Aid /\ turns[kid[a]] = 0 /\ Starting(a) /\ stage[a] = "emit" /\ ~shutting
    BY <1>19, StartupIsNew DEF StartChild, InBatch, Starting
  <2>2. /\ rows' = rows /\ ref' = ref /\ phase' = phase /\ creq' = creq
        /\ owned' = owned /\ committed' = committed /\ shutting' = shutting
        /\ \A x \in Aid : x # kid[a] => turns'[x] = turns[x] /\ pc'[x] = pc[x]
        /\ cur' = cur /\ kid' = kid
        /\ \A p \in Aid : stage'[p] = IF p = a THEN "ref" ELSE stage[p]
    BY <1>19 DEF StartChild, TypeOK
  <2>3. cur[a] \in Call /\ rows[a][cur[a]] = "pending"
    <3>1. Route(a, cur[a], kid[a]) /\ cur[a] # 0
      BY <2>1 DEF WorkInv, HandFits, Starting
    <3> QED
      BY <2>1, <3>1, CursorIsTyped DEF AgreeInv, RoutesStayOpen, Route
  <2>4. ASSUME NEW x \in Aid PROVE OutcomeIsFinal(x)'
    <3>1. OutcomeIsFinal(x)
      BY DEF AgreeInv
    <3>2. CASE x = kid[a]
      <4>1. ASSUME NEW p \in Aid, NEW k \in Call, Names(p, k, x)' PROVE rows'[p][k] = "pending"
        <5>1. ~Names(p, k, x)
          BY <2>1, <3>2 DEF AgreeInv, TableFits
        <5>2. p = a /\ k = cur[a]
          BY <2>2, <4>1, <5>1 DEF Names
        <5> QED
          BY <2>2, <2>3, <5>2
      <4> QED
        BY <4>1 DEF OutcomeIsFinal
    <3>3. CASE x # kid[a]
      <4>1. \A p \in Aid, k \in Call : Names(p, k, x)' => Names(p, k, x)
        BY <2>2, <3>3 DEF Names
      <4> QED
        BY <2>2, <3>1, <3>3, <4>1 DEF OutcomeIsFinal, Live
    <3> QED
      BY <3>2, <3>3
  <2> QED
    BY <2>4
<1>20. ASSUME NEW a \in Aid, RollbackSpawn(a) PROVE \A x \in Aid : OutcomeIsFinal(x)'
  <2>1. /\ kid[a] \in Aid /\ turns[kid[a]] = 0
    BY <1>20, StartupIsNew DEF RollbackSpawn, Starting
  <2>2. /\ rows' = rows /\ ref' = ref /\ turns' = turns /\ pc' = pc /\ creq' = creq
        /\ owned' = owned /\ committed' = committed /\ shutting' = shutting
        /\ \A x \in Aid : x # kid[a] => phase'[x] = phase[x]
        /\ \A p \in Aid : stage'[p] = "ref" => stage[p] = "ref" /\ cur'[p] = cur[p] /\ kid'[p] = kid[p]
    BY <1>20 DEF RollbackSpawn, TypeOK
  <2>3. ASSUME NEW x \in Aid PROVE OutcomeIsFinal(x)'
    <3>1. OutcomeIsFinal(x)
      BY DEF AgreeInv
    <3>2. CASE x = kid[a]
      BY <2>1, <2>2, <3>2 DEF OutcomeIsFinal
    <3>3. CASE x # kid[a]
      BY <2>2, <3>1, <3>3 DEF OutcomeIsFinal, Names, Live
    <3> QED
      BY <3>2, <3>3
  <2> QED
    BY <2>3
<1>21. ASSUME NEW a \in Aid, RecordResult(a) PROVE \A x \in Aid : OutcomeIsFinal(x)'
  <2>1. cur[a] \in Call /\ ref[a][cur[a]] = NoAid /\ stage[a] \in {"ref", "rolledback"}
    BY <1>21, CursorIsTyped DEF RecordResult, AgreeInv, TableFits
  <2>2. /\ phase' = phase /\ pc' = pc /\ creq' = creq /\ turns' = turns
        /\ owned' = owned /\ committed' = committed /\ shutting' = shutting
    BY <1>21 DEF RecordResult
  <2>3. \A p \in Aid, k \in Call :
            /\ rows'[p][k] = rows[p][k] \/ (p = a /\ k = cur[a] /\ stage[a] = "rolledback")
            /\ ref'[p][k] = IF p = a /\ k = cur[a] /\ stage[a] = "ref" THEN kid[a] ELSE ref[p][k]
            /\ stage'[p] = "ref" => p # a /\ stage[p] = "ref" /\ cur'[p] = cur[p] /\ kid'[p] = kid[p]
    BY <1>21, <2>1 DEF RecordResult, TypeOK
  <2>4. ASSUME NEW x \in Aid, NEW p \in Aid, NEW k \in Call, Names(p, k, x)'
        PROVE  Names(p, k, x) /\ rows'[p][k] = rows[p][k]
    BY <2>1, <2>3, <2>4, NoAidIsNobody DEF Names
  <2>5. ASSUME NEW x \in Aid PROVE OutcomeIsFinal(x)'
    <3>1. OutcomeIsFinal(x)
      BY DEF AgreeInv
    <3> QED
      BY <2>2, <2>4, <3>1 DEF OutcomeIsFinal, Live
  <2> QED
    BY <2>5
<1>22. ASSUME NEW a \in Aid, FinishBatch(a) PROVE \A x \in Aid : OutcomeIsFinal(x)'
  <2>1. /\ \A p \in Aid, k \in Call :
               rows'[p][k] \in {rows[p][k], "empty"} /\ ref'[p][k] \in {ref[p][k], NoAid}
        /\ turns' = turns /\ owned' = owned /\ committed' = committed /\ shutting' = shutting
        /\ creq' = creq
    BY <1>22 DEF FinishBatch, TypeOK, NoRows, NoRefs
  <2>2. /\ \A x \in Aid : x # a => phase'[x] = phase[x] /\ pc'[x] = pc[x]
        /\ \A p \in Aid : stage'[p] = "ref" => stage[p] = "ref" /\ cur'[p] = cur[p] /\ kid'[p] = kid[p]
    BY <1>22 DEF FinishBatch, TypeOK
  <2>3. ASSUME NEW x \in Aid, NEW p \in Aid, NEW k \in Call, Names(p, k, x)', turns'[x] = 1
        PROVE  /\ rows'[p][k] = "done" =>
                    /\ phase'[x] = "done" /\ pc'[x] \in {"drain", "none"}
                    /\ x \in owned \/ (Live(x)' /\ ~shutting) => x \in committed
               /\ rows'[p][k] = "failed" =>
                    /\ phase'[x] \in {"stopped", "error"}
                    /\ pc'[x] \in {"created", "gate"} => creq[x]
    <3>1. Names(p, k, x) /\ turns[x] = 1 /\ OutcomeIsFinal(x)
      BY <2>1, <2>2, <2>3, NoAidIsNobody DEF Names, AgreeInv
    <3>2. CASE x # a
      BY <2>1, <2>2, <3>1, <3>2 DEF OutcomeIsFinal, Live
    <3>3. CASE x = a
      <4>1. /\ pc[a] = "loop" /\ pc'[a] \in {"loop", "ret"}
            /\ phase[a] \in {"stopped", "error"} => phase'[a] = "error"
        BY <1>22 DEF FinishBatch, InBatch, At, TypeOK
      <4> QED
        BY <2>1, <3>1, <3>3, <4>1 DEF OutcomeIsFinal
    <3> QED
      BY <3>2, <3>3
  <2> QED
    BY <2>1, <2>3 DEF OutcomeIsFinal
<1>23. ASSUME NEW a \in Aid, BatchFails(a) PROVE \A x \in Aid : OutcomeIsFinal(x)'
  BY <1>23 DEF TypeOK, JoinInv, BatchIsFresh, Live, Starting, Terminal,
     AgreeInv, EndFits, TableFits, Names, OutcomeIsFinal, BatchFails, InBatch,
     At
<1>24. ASSUME NEW a \in Aid, Return(a) PROVE \A x \in Aid : OutcomeIsFinal(x)'
  <2>1. /\ pc[a] \in {"ret", "ended"} /\ ~creq[a]
        /\ ref' = ref /\ turns' = turns /\ shutting' = shutting
        /\ stage' = stage /\ cur' = cur /\ kid' = kid
        /\ owned' \subseteq owned
    BY <1>24 DEF Return, At, EndNormally
  <2>2. /\ \A x \in Aid : x # a => /\ pc'[x] = pc[x] /\ creq'[x] = creq[x]
                                   /\ x \in committed => x \in committed'
        /\ phase[a] # "awaiting" \/ shutting => pc'[a] \in {"none", "ended"}
        /\ rows' # rows => shutting
    BY <1>24 DEF Return, EndNormally, EndDriver, ResumeDue, TypeOK
  <2>3. ASSUME NEW x \in Aid, NEW p \in Aid, NEW k \in Call, Names(p, k, x), turns[x] = 1
        PROVE  /\ rows'[p][k] = "done" => rows[p][k] = "done" /\ phase'[x] = phase[x]
               /\ rows'[p][k] = "failed" => /\ phase'[x] \in {"stopped", "error"}
                                            /\ rows[p][k] = "failed" \/ x = a
    <3>1. CASE FinalizeAll({a}, InTable)
      <4>1. \A y \in Aid : turns[y] > 0 => y \in InTable
        BY DEF AgreeInv, EndFits, InTable
      <4> QED
        BY <2>1, <2>3, <3>1, <4>1, FinalizedOutcome
    <3>2. CASE rows' = rows /\ phase' = phase
      BY <2>3, <3>2 DEF AgreeInv, OutcomeIsFinal
    <3> QED
      BY <1>24, <3>1, <3>2 DEF Return
  <2>4. ASSUME NEW x \in Aid, NEW p \in Aid, NEW k \in Call, Names(p, k, x)', turns'[x] = 1
        PROVE  /\ rows'[p][k] = "done" =>
                    /\ phase'[x] = "done" /\ pc'[x] \in {"drain", "none"}
                    /\ x \in owned' \/ (Live(x)' /\ ~shutting') => x \in committed'
               /\ rows'[p][k] = "failed" =>
                    /\ phase'[x] \in {"stopped", "error"}
                    /\ pc'[x] \in {"created", "gate"} => creq'[x]
    <3>1. Names(p, k, x) /\ turns[x] = 1 /\ OutcomeIsFinal(x) /\ EndFits(x)
      BY <2>1, <2>4 DEF Names, AgreeInv
    <3>2. rows[p][k] = "done" => x # a
      BY <2>1, <3>1 DEF OutcomeIsFinal
    <3>3. CASE x # a
      <4>1. /\ rows'[p][k] = "done" => rows[p][k] = "done" /\ phase'[x] = phase[x]
            /\ rows'[p][k] = "failed" => phase'[x] \in {"stopped", "error"} /\ rows[p][k] = "failed"
        BY <2>3, <3>1, <3>3
      <4> QED
        BY <2>1, <2>2, <3>1, <3>3, <4>1 DEF OutcomeIsFinal, Live
    <3>4. CASE x = a
      <4>1. /\ rows'[p][k] # "done"
            /\ rows'[p][k] = "failed" => phase'[a] \in {"stopped", "error"}
        BY <2>3, <3>1, <3>2, <3>4
      <4>2. rows'[p][k] = "failed" => phase[a] # "awaiting" \/ shutting
        BY <2>2, <3>1, <3>4 DEF OutcomeIsFinal
      <4> QED
        BY <2>2, <3>4, <4>1, <4>2
    <3> QED
      BY <3>3, <3>4
  <2> QED
    BY <2>4 DEF OutcomeIsFinal
<1>25. ASSUME NEW a \in Aid, CheckpointFails(a) PROVE \A x \in Aid : OutcomeIsFinal(x)'
  BY <1>25 DEF TypeOK, JoinInv, BatchIsFresh, Live, Starting, Terminal,
     AgreeInv, EndFits, TableFits, Names, OutcomeIsFinal, CheckpointFails, At
<1>26. ASSUME NEW a \in Aid, DiffFails(a) PROVE \A x \in Aid : OutcomeIsFinal(x)'
  BY <1>26 DEF TypeOK, JoinInv, BatchIsFresh, Live, Starting, Terminal,
     AgreeInv, EndFits, TableFits, Names, OutcomeIsFinal, DiffFails, At
<1>27. ASSUME NEW a \in Aid, DiscardLate(a) PROVE \A x \in Aid : OutcomeIsFinal(x)'
  <2>1. /\ pc[a] \in {"ret", "ended"} /\ ~creq[a]
        /\ ref' = ref /\ turns' = turns /\ shutting' = shutting
        /\ stage' = stage /\ cur' = cur /\ kid' = kid
        /\ owned' \subseteq owned
    BY <1>27 DEF DiscardLate, At, EndNormally
  <2>2. /\ \A x \in Aid : x # a => /\ pc'[x] = pc[x] /\ creq'[x] = creq[x]
                                   /\ x \in committed => x \in committed'
        /\ phase[a] # "awaiting" \/ shutting => pc'[a] \in {"none", "ended"}
        /\ rows' # rows => shutting
    BY <1>27 DEF DiscardLate, EndNormally, EndDriver, ResumeDue, TypeOK
  <2>3. ASSUME NEW x \in Aid, NEW p \in Aid, NEW k \in Call, Names(p, k, x), turns[x] = 1
        PROVE  /\ rows'[p][k] = "done" => rows[p][k] = "done" /\ phase'[x] = phase[x]
               /\ rows'[p][k] = "failed" => /\ phase'[x] \in {"stopped", "error"}
                                            /\ rows[p][k] = "failed" \/ x = a
    <3>1. CASE FinalizeAll({a}, InTable)
      <4>1. \A y \in Aid : turns[y] > 0 => y \in InTable
        BY DEF AgreeInv, EndFits, InTable
      <4> QED
        BY <2>1, <2>3, <3>1, <4>1, FinalizedOutcome
    <3>2. CASE rows' = rows /\ phase' = phase
      BY <2>3, <3>2 DEF AgreeInv, OutcomeIsFinal
    <3> QED
      BY <1>27, <3>1, <3>2 DEF DiscardLate
  <2>4. ASSUME NEW x \in Aid, NEW p \in Aid, NEW k \in Call, Names(p, k, x)', turns'[x] = 1
        PROVE  /\ rows'[p][k] = "done" =>
                    /\ phase'[x] = "done" /\ pc'[x] \in {"drain", "none"}
                    /\ x \in owned' \/ (Live(x)' /\ ~shutting') => x \in committed'
               /\ rows'[p][k] = "failed" =>
                    /\ phase'[x] \in {"stopped", "error"}
                    /\ pc'[x] \in {"created", "gate"} => creq'[x]
    <3>1. Names(p, k, x) /\ turns[x] = 1 /\ OutcomeIsFinal(x) /\ EndFits(x)
      BY <2>1, <2>4 DEF Names, AgreeInv
    <3>2. rows[p][k] = "done" => x # a
      BY <2>1, <3>1 DEF OutcomeIsFinal
    <3>3. CASE x # a
      <4>1. /\ rows'[p][k] = "done" => rows[p][k] = "done" /\ phase'[x] = phase[x]
            /\ rows'[p][k] = "failed" => phase'[x] \in {"stopped", "error"} /\ rows[p][k] = "failed"
        BY <2>3, <3>1, <3>3
      <4> QED
        BY <2>1, <2>2, <3>1, <3>3, <4>1 DEF OutcomeIsFinal, Live
    <3>4. CASE x = a
      <4>1. /\ rows'[p][k] # "done"
            /\ rows'[p][k] = "failed" => phase'[a] \in {"stopped", "error"}
        BY <2>3, <3>1, <3>2, <3>4
      <4>2. rows'[p][k] = "failed" => phase[a] # "awaiting" \/ shutting
        BY <2>2, <3>1, <3>4 DEF OutcomeIsFinal
      <4> QED
        BY <2>2, <3>4, <4>1, <4>2
    <3> QED
      BY <3>3, <3>4
  <2> QED
    BY <2>4 DEF OutcomeIsFinal
<1>28. ASSUME NEW a \in Aid, Deliver(a) PROVE \A x \in Aid : OutcomeIsFinal(x)'
  <2>1. CASE origin[a] = 0
    <3>1. /\ rows' = rows /\ ref' = ref /\ phase' = phase /\ creq' = creq /\ turns' = turns
          /\ owned' = owned /\ committed' = committed /\ shutting' = shutting
          /\ stage' = stage /\ cur' = cur /\ kid' = kid
          /\ \A x \in Aid : pc'[x] = IF x = a THEN "drain" ELSE pc[x]
      BY <1>28, <2>1 DEF Deliver, TypeOK
    <3>2. pc[a] \in {"ended", "cancelling"}
      BY <1>28 DEF Deliver, At
    <3> QED
      BY <3>1, <3>2 DEF AgreeInv, OutcomeIsFinal, Names, Live
  <2>2. CASE origin[a] # 0
    <3>1. /\ par[a] \in Aid /\ origin[a] \in Call /\ par[a] # a
          /\ rows[par[a]][origin[a]] = "pending"
          /\ \A x \in Aid, k \in Call :
                rows'[x][k] = IF x = par[a] /\ k = origin[a] THEN OutcomeOf(a) ELSE rows[x][k]
          /\ phase' = IF shutting THEN [phase EXCEPT ![a] = "stopped"] ELSE phase
          /\ committed' = IF shutting THEN committed ELSE committed \cup {a}
          /\ Resume(a, "drain", par[a], rows')
      BY <1>28, <2>2, Delivery
    <3>2. /\ pc[a] \in {"ended", "cancelling"} /\ phase[a] \in Terminal
          /\ ref' = ref /\ turns' = turns /\ owned' = owned /\ shutting' = shutting
          /\ stage' = stage /\ cur' = cur /\ kid' = kid
      BY <1>28 DEF Deliver, At, AgreeInv, EndFits
    <3>3. /\ creq' = creq /\ pc'[a] = "drain"
          /\ \A x \in Aid : x # a =>
                pc'[x] = pc[x] \/ (phase[x] = "awaiting" /\ pc'[x] = "created")
      BY <3>1 DEF Resume, ResumeDue, TypeOK
    <3>4. /\ phase'[a] = IF shutting THEN "stopped" ELSE phase[a]
          /\ \A x \in Aid : x # a => phase'[x] = phase[x]
      BY <3>1 DEF TypeOK
    <3>5. ASSUME NEW x \in Aid, NEW p \in Aid, NEW k \in Call, Names(p, k, x)', turns'[x] = 1
          PROVE  /\ rows'[p][k] = "done" =>
                      /\ phase'[x] = "done" /\ pc'[x] \in {"drain", "none"}
                      /\ x \in owned \/ (Live(x)' /\ ~shutting) => x \in committed'
                 /\ rows'[p][k] = "failed" =>
                      /\ phase'[x] \in {"stopped", "error"}
                      /\ pc'[x] \in {"created", "gate"} => creq[x]
      <4>1. Names(p, k, x) /\ turns[x] = 1 /\ OutcomeIsFinal(x)
        BY <3>2, <3>5 DEF Names, AgreeInv
      <4>2. CASE p = par[a] /\ k = origin[a]
        <5>1. x = a
          BY <2>2, <4>1, <4>2, OneAnswers
        <5>2. rows'[p][k] = OutcomeOf(a) /\ (shutting \/ owned = {})
          BY <3>1, <4>2 DEF AgreeInv
        <5> QED
          BY <3>1, <3>2, <3>3, <3>4, <5>1, <5>2 DEF OutcomeOf, Terminal
      <4>3. CASE ~(p = par[a] /\ k = origin[a])
        <5>1. rows'[p][k] = rows[p][k] /\ (x \in committed => x \in committed')
          BY <3>1, <4>3
        <5> QED
          BY <3>2, <3>3, <3>4, <4>1, <5>1 DEF OutcomeIsFinal, Live
      <4> QED
        BY <4>2, <4>3
    <3> QED
      BY <3>2, <3>3, <3>5 DEF OutcomeIsFinal
  <2> QED
    BY <2>1, <2>2
<1>29. ASSUME NEW a \in Aid, EndDrain(a) PROVE \A x \in Aid : OutcomeIsFinal(x)'
  BY <1>29 DEF TypeOK, JoinInv, BatchIsFresh, Live, Starting, Terminal,
     AgreeInv, EndFits, TableFits, Names, OutcomeIsFinal, EndDrain, At,
     EndNormally, EndDriver, ResumeDue
<1>30. ASSUME NEW a \in Aid, Killed(a) PROVE \A x \in Aid : OutcomeIsFinal(x)'
  BY <1>30 DEF TypeOK, JoinInv, BatchIsFresh, Live, Starting, Terminal,
     AgreeInv, EndFits, TableFits, Names, OutcomeIsFinal, Killed, EndDriver,
     ResumeDue
<1>31. ASSUME NEW a \in Aid, Cancelled(a) PROVE \A x \in Aid : OutcomeIsFinal(x)'
  <2>1. /\ pc[a] \in {"gate", "loop", "ret"} /\ turns' = turns
        /\ owned' = owned /\ committed' = committed /\ shutting' = shutting
    BY <1>31 DEF Cancelled
  <2>2. /\ \A x \in Aid : x # a => pc'[x] = pc[x] /\ creq'[x] = creq[x]
        /\ \A x \in Aid : x # a /\ ~(Starting(a) /\ x = kid[a]) => phase'[x] = phase[x]
        /\ phase'[a] = "stopped" /\ pc'[a] = "cancelling" /\ stage'[a] = "model"
        /\ \A p \in Aid : p # a => stage'[p] = stage[p] /\ cur'[p] = cur[p] /\ kid'[p] = kid[p]
    BY <1>31 DEF Cancelled, TypeOK
  <2>3. stage[a] \notin {"model", "next"} => cur[a] \in Call /\ ref[a][cur[a]] = NoAid
    BY CursorIsTyped DEF AgreeInv, TableFits
  <2>4. \A p \in Aid, k \in Call :
            /\ rows'[p][k] = rows[p][k]
                  \/ (p = a /\ k = cur[a] /\ stage[a] \in {"issued", "env", "emit", "rolledback"})
            /\ ref'[p][k] = IF p = a /\ k = cur[a] /\ stage[a] = "ref" THEN kid[a] ELSE ref[p][k]
    BY <1>31, <2>3 DEF Cancelled, TypeOK
  <2>5. ASSUME NEW x \in Aid, NEW p \in Aid, NEW k \in Call, Names(p, k, x)'
        PROVE  Names(p, k, x) /\ rows'[p][k] = rows[p][k]
    BY <2>2, <2>3, <2>4, <2>5, NoAidIsNobody DEF Names
  <2>6. Starting(a) => turns[kid[a]] = 0
    BY StartupIsNew
  <2>7. ASSUME NEW x \in Aid PROVE OutcomeIsFinal(x)'
    <3>1. OutcomeIsFinal(x)
      BY DEF AgreeInv
    <3> QED
      BY <2>1, <2>2, <2>5, <2>6, <3>1 DEF OutcomeIsFinal, Live
  <2> QED
    BY <2>7
<1>32. ASSUME NEW a \in Aid, Swallow(a) PROVE \A x \in Aid : OutcomeIsFinal(x)'
  BY <1>32 DEF TypeOK, JoinInv, BatchIsFresh, Live, Starting, Terminal,
     AgreeInv, EndFits, TableFits, Names, OutcomeIsFinal, Swallow
<1>33. ASSUME NEW a \in Aid, NEW k \in Keys, ReserveSpawn(a, k) PROVE \A x \in Aid : OutcomeIsFinal(x)'
  BY <1>33 DEF TypeOK, JoinInv, BatchIsFresh, Live, Starting, Terminal,
     AgreeInv, EndFits, TableFits, Names, OutcomeIsFinal, ReserveSpawn,
     InBatch, At
<1>34. CASE UNCHANGED vars
  BY <1>34 DEF TypeOK, JoinInv, BatchIsFresh, Live, Starting, Terminal,
     AgreeInv, EndFits, TableFits, Names, OutcomeIsFinal, vars
<1> QED
  BY <1>1, <1>2, <1>3, <1>4, <1>5, <1>6, <1>7, <1>8, <1>9, <1>10, <1>11,
     <1>12, <1>13, <1>14, <1>15, <1>16, <1>17, <1>18, <1>19, <1>20, <1>21,
     <1>22, <1>23, <1>24, <1>25, <1>26, <1>27, <1>28, <1>29, <1>30, <1>31,
     <1>32, <1>33, <1>34, AnyStep

(* Before the lead has started there is nothing to agree on.                *)
LEMMA AgreeInit == Init => AgreeInv
<1> SUFFICES ASSUME Init PROVE AgreeInv
  OBVIOUS
<1>1. \A a \in Aid : /\ pc[a] = "none" /\ turns[a] = 0 /\ origin[a] = 0 /\ stage[a] = "model"
                     /\ \A k \in Call : ref[a][k] = NoAid
  BY DEF Init, NoRefs
<1>2. owned = {} /\ ~shutting /\ clean = "no"
  BY DEF Init
<1>3. \A p, c \in Aid, k \in Call : ~Names(p, k, c)
  BY <1>1, NoAidIsNobody DEF Names
<1> QED
  BY <1>1, <1>2, <1>3 DEF AgreeInv, RoutesStayOpen, OneRoute, EndFits, TableFits,
     OutcomeIsFinal, Live, Terminal

(* Every step keeps child and row in agreement, during a cleanup too.       *)
LEMMA AgreeStays ==
    ASSUME AgreeContext, [Next]_vars
    PROVE  AgreeInv'
<1>1. \A p \in Aid, k \in Call, c \in Aid : Names(p, k, c)' => turns'[c] > 0
  BY StartedStep
<1>2. RoutesStayOpen' /\ OneRoute' /\ \A x \in Aid : TableFits(x)'
  <2>1. CASE shutting'
    BY <2>1, StayOpenStep, StayOneStep, TableStep
  <2>2. CASE ~shutting'
    BY <1>1, <2>2, OpenTables
  <2> QED
    BY <2>1, <2>2
<1> QED
  BY <1>2, OwnedStep, EndsStep, OutcomeStep DEF AgreeInv

(* Child and row agree throughout.                                          *)
LEMMA AgreeInvariance == Spec => []AgreeInv
<1>1. /\ TypeOK /\ JoinInv /\ BatchIsFresh /\ WorkInv
      /\ (TypeOK /\ JoinInv /\ BatchIsFresh /\ WorkInv)'
      /\ AgreeInv /\ [Next]_vars
      => AgreeInv'
  BY AgreeStays DEF AgreeContext
<1> QED
  BY <1>1, AgreeInit, WorkInvariance, PTL DEF Spec

(* Child and row agree on the outcome in every order of a completion, a     *)
(* cancellation, a cleanup that times out and a driver that outlives it,    *)
(* and nothing dangles (_drive_agent, _deliver_to_parent,                   *)
(* _finalize_cleanup_failure, _delivery_committed).                         *)
THEOREM SettlementsAreWhole == Spec => []SettlesWhole
<1>1. TypeOK /\ AgreeInv => RowAgreesWithChild
  <2> SUFFICES ASSUME TypeOK, AgreeInv PROVE RowAgreesWithChild
    OBVIOUS
  <2>1. ASSUME NEW p \in Aid, NEW k \in Call, ref[p][k] # NoAid, turns[ref[p][k]] = 1
        PROVE  /\ rows[p][k] = "done" => phase[ref[p][k]] = "done"
               /\ rows[p][k] = "failed" => phase[ref[p][k]] \in {"stopped", "error"}
    <3>1. ref[p][k] \in Aid
      BY <2>1 DEF TypeOK
    <3>2. OutcomeIsFinal(ref[p][k])
      BY <3>1 DEF AgreeInv
    <3> QED
      BY <2>1, <3>2 DEF OutcomeIsFinal, Names
  <2> QED
    BY <2>1 DEF RowAgreesWithChild
<1>2. RowAgreesWithChild /\ NothingDangles => SettlesWhole
  BY DEF SettlesWhole
<1> QED
  BY <1>1, <1>2, AgreeInvariance, NothingIsLeftDangling, Invariance, PTL

=============================================================================

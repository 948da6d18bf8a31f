--------------------------- MODULE SessionRunProofs ---------------------------
(* Proofs about SessionRun: what a session can spend, when it may ask, what   *)
(* it leaves on disk, and what its allowances are worth over its life.       *)
EXTENDS SessionRun, TLAPS

(* What a copy of the spend must satisfy: in memory, in the write, on disk. *)
Fair(u) == u \in Nat /\ Covered(u)

(* The snapshot, and the one being written, are fair. *)
SavedFair == Fair(disk.used) /\ (frozen # <<>> => Fair(frozen[1].used))

(* The spend is covered; while a call is out, live or abandoned, its request *)
(* still fits, so that whatever it costs is the one call on top.             *)
SpendInv ==
    /\ Fair(used) /\ soft \in Nat /\ soft <= Hard
    /\ prov # "none" => used + 2 <= Hard
    /\ run = "call" => prov = "live"
    /\ SavedFair

(* The host never raises the soft budget above the hard one. *)
LEMMA DecidedBelowHard ==
    ASSUME NEW s \in Nat, s <= Hard, NEW u \in Nat, NEW t \in Decided(s, u)
    PROVE  t \in Nat /\ t <= Hard
BY BudgetAssumption DEF Decided

(* A request that fits the soft budget fits the hard one. *)
LEMMA FitsBelowHard ==
    ASSUME NEW s \in Nat, s <= Hard, NEW u \in Nat, Fits(s, u)
    PROVE  u + 2 <= Hard
BY BudgetAssumption DEF Fits

(* The cost of a call whose request fitted is covered. *)
LEMMA OneCallIsCovered ==
    ASSUME NEW u \in Nat, u + 2 <= Hard, NEW c \in {0} \cup Costs
    PROVE  Fair(u + c)
<1>1. PICK d \in Costs : c <= d
  <2>1. CASE c \in Costs
    BY <2>1, BudgetAssumption
  <2>2. CASE c = 0
    <3>1. PICK d \in Costs : d \in Nat
      BY BudgetAssumption
    <3> QED
      BY <2>2, <3>1
  <2> QED
    BY <2>1, <2>2
<1>2. c \in Nat /\ d \in Nat /\ Hard \in Nat
  BY BudgetAssumption
<1>3. u + c <= Hard + d - 2
  BY <1>1, <1>2
<1> QED
  BY <1>2, <1>3 DEF Fair, Covered

(* The initial state has spent nothing. *)
LEMMA SpendInit == Init => SpendInv
BY BudgetAssumption DEF Init, SpendInv, SavedFair, Fair, Covered, Snapshot

(* Every step keeps the spend covered. *)
LEMMA SpendStep == SpendInv /\ [Next]_vars => SpendInv'
<1> SUFFICES ASSUME SpendInv, [Next]_vars PROVE SpendInv'
  OBVIOUS
<1> USE DEF SpendInv
<1>0. Hard \in Nat /\ Soft \in Nat /\ Soft <= Hard
  BY BudgetAssumption

<1>1. CASE StartTurn
  BY <1>1 DEF StartTurn, acctVars, saveVars, provVars, SavedFair, Fair, Covered
<1>2. CASE ResumeTurn
  BY <1>2 DEF ResumeTurn, acctVars, saveVars, provVars, SavedFair, Fair, Covered
<1>3. CASE WaitForRows
  BY <1>3 DEF WaitForRows, acctVars, saveVars, provVars, SavedFair, Fair, Covered
<1>4. CASE RowsFilled
  BY <1>4 DEF RowsFilled, acctVars, saveVars, provVars, SavedFair, Fair, Covered
<1>5. CASE CancelEvent
  BY <1>5 DEF CancelEvent, acctVars, saveVars, provVars, SavedFair, Fair, Covered
<1>6. CASE Revoke
  BY <1>6 DEF Revoke, acctVars, saveVars, provVars, SavedFair, Fair, Covered
<1>7. CASE Return
  BY <1>7 DEF Return, acctVars, saveVars, provVars, SavedFair, Fair, Covered
<1>8. CASE PrecheckFail
  BY <1>8 DEF PrecheckFail, Fail, acctVars, saveVars, provVars, SavedFair, Fair, Covered
<1>9. CASE RequestFail
  BY <1>9 DEF RequestFail, Fail, acctVars, saveVars, provVars, SavedFair, Fair, Covered
<1>10. CASE HandleTools
  BY <1>10 DEF HandleTools, acctVars, saveVars, provVars, SavedFair, Fair, Covered
<1>11. CASE HandleCorrect
  BY <1>11 DEF HandleCorrect, acctVars, saveVars, provVars, SavedFair, Fair, Covered
<1>12. CASE HandleEmpty
  BY <1>12 DEF HandleEmpty, acctVars, saveVars, provVars, SavedFair, Fair, Covered
<1>13. CASE ToolsDone
  BY <1>13 DEF ToolsDone, acctVars, saveVars, provVars, SavedFair, Fair, Covered
<1>14. CASE ToolsFail
  BY <1>14 DEF ToolsFail, acctVars, saveVars, provVars, SavedFair, Fair, Covered
<1>15. CASE Finish
  BY <1>15 DEF Finish, Save, Snapshot, acctVars, provVars, SavedFair, Fair, Covered
<1>16. CASE HandleEnd
  BY <1>16 DEF HandleEnd, Save, Snapshot, acctVars, provVars, SavedFair, Fair, Covered
<1>17. CASE Autosave
  <2> DEFINE x == [Snapshot EXCEPT !.talk = talk', !.sys = sys']
  <2>1. x.used = used
    BY DEF Snapshot
  <2> HIDE DEF x
  <2>2. SavedFair'
    <3>1. disk' = disk /\ (frozen' = frozen \/ frozen' = <<x>>)
      BY <1>17 DEF Autosave, Save, x
    <3> QED
      BY <2>1, <3>1 DEF SavedFair, Fair, Covered
  <2> QED
    BY <1>17, <2>2 DEF Autosave, acctVars, provVars, Fair, Covered
<1>18. CASE AddUserMessage
  BY <1>18 DEF AddUserMessage, Save, Snapshot, acctVars, provVars, SavedFair, Fair, Covered
<1>19. CASE Kill
  BY <1>19 DEF Kill, NoCall, acctVars, saveVars, SavedFair, Fair, Covered
<1>20. CASE WriteDone
  BY <1>20 DEF WriteDone, Snapshot, acctVars, provVars, SavedFair, Fair, Covered
<1>21. CASE CallTimeout
  BY <1>21 DEF CallTimeout, Fail, InCall, acctVars, saveVars, SavedFair, Fair, Covered
<1>22. CASE Crash
  BY <1>22, <1>0 DEF Crash, SavedFair, Fair, Covered
<1>23. CASE PrecheckPass
  <2>1. soft' \in Nat /\ soft' <= Hard
    BY <1>23, DecidedBelowHard DEF PrecheckPass, Asked, Fair
  <2> QED
    BY <1>23, <2>1 DEF PrecheckPass, acctVars, saveVars, provVars, SavedFair, Fair, Covered
<1>24. CASE PrecheckRetry
  <2>1. soft' \in Nat /\ soft' <= Hard
    BY <1>24, DecidedBelowHard DEF PrecheckRetry, Fair
  <2> QED
    BY <1>24, <2>1 DEF PrecheckRetry, acctVars, saveVars, provVars, SavedFair, Fair, Covered
<1>25. CASE PrecheckStop
  <2>1. soft' \in Nat /\ soft' <= Hard
    BY <1>25, DecidedBelowHard DEF PrecheckStop, Asked, Refused, Fair
  <2> QED
    BY <1>25, <2>1 DEF PrecheckStop, Stop, acctVars, saveVars, provVars, SavedFair, Fair, Covered
<1>26. CASE PrecheckWindDown
  <2>1. soft' \in Nat /\ soft' <= Hard
    BY <1>26, DecidedBelowHard DEF PrecheckWindDown, Asked, Fair
  <2> QED
    BY <1>26, <2>1
       DEF PrecheckWindDown, Save, Snapshot, acctVars, saveVars, provVars, SavedFair, Fair,
           Covered
<1>27. CASE RequestStop
  <2>1. soft' \in Nat /\ soft' <= Hard
    BY <1>27, DecidedBelowHard DEF RequestStop, Barred, Fair
  <2> QED
    BY <1>27, <2>1 DEF RequestStop, Stop, acctVars, saveVars, provVars, SavedFair, Fair, Covered
<1>28. CASE Request
  <2>1. PICK s \in Decided(soft, used) : Fits(s, used) /\ soft' = s
    BY <1>28 DEF Request
  <2>2. s \in Nat /\ s <= Hard
    BY DecidedBelowHard DEF Fair
  <2>3. used + 2 <= Hard
    BY <2>1, <2>2, FitsBelowHard DEF Fair
  <2> QED
    BY <1>28, <2>1, <2>2, <2>3 DEF Request, acctVars, saveVars, provVars, SavedFair, Fair, Covered
<1>29. CASE ReplyAccepted
  <2>1. PICK c \in Costs : used' = used + c
    BY <1>29 DEF ReplyAccepted, Charge
  <2>2. used + 2 <= Hard /\ used \in Nat
    BY <1>29 DEF ReplyAccepted, InCall, Fair
  <2>3. Fair(used')
    BY <2>1, <2>2, OneCallIsCovered
  <2>4. soft' \in Nat /\ soft' <= Hard
    BY <1>29, DecidedBelowHard, <2>3 DEF ReplyAccepted, Decided
  <2>5. prov' = "none"
    BY <1>29 DEF ReplyAccepted, NoCall
  <2> QED
    BY <1>29, <2>3, <2>4, <2>5 DEF ReplyAccepted, saveVars, SavedFair, Fair, Covered
<1>30. CASE ReplyRefused
  <2>1. PICK c \in Costs : used' = used + c
    BY <1>30 DEF ReplyRefused, Charge
  <2>2. used + 2 <= Hard /\ used \in Nat
    BY <1>30 DEF ReplyRefused, InCall, Fair
  <2>3. Fair(used')
    BY <2>1, <2>2, OneCallIsCovered
  <2>4. soft' \in Nat /\ soft' <= Hard
    BY <1>30, DecidedBelowHard, <2>3 DEF ReplyRefused, Decided
  <2>5. prov' = "none"
    BY <1>30 DEF ReplyRefused, NoCall
  <2> DEFINE x == [Snapshot' EXCEPT !.phase = "calling", !.sub = sub]
  <2>6. x.used = used'
    BY DEF Snapshot
  <2> HIDE DEF x
  <2>7. SavedFair'
    <3>1. disk' = disk /\ (frozen' = frozen \/ frozen' = <<x>>)
      BY <1>30 DEF ReplyRefused, Save, saveVars, x
    <3> QED
      BY <2>3, <2>6, <3>1 DEF SavedFair, Fair, Covered
  <2> QED
    BY <1>30, <2>3, <2>4, <2>5, <2>7 DEF ReplyRefused, Stop
<1>31. CASE CallStopped
  <2>1. PICK c \in ({0} \cup Costs) : used' = used + c
    BY <1>31 DEF CallStopped, Charge
  <2>2. used + 2 <= Hard /\ used \in Nat
    BY <1>31 DEF CallStopped, InCall, Fair
  <2>3. Fair(used')
    BY <2>1, <2>2, OneCallIsCovered
  <2>4. soft' \in Nat /\ soft' <= Hard
    BY <1>31, DecidedBelowHard, <2>3 DEF CallStopped, Decided, Barred
  <2>5. prov' = "none"
    BY <1>31 DEF CallStopped, NoCall
  <2> QED
    BY <1>31, <2>3, <2>4, <2>5 DEF CallStopped, Stop, saveVars, SavedFair, Fair, Covered
<1>32. CASE CallFailed
  <2>1. PICK c \in ({0} \cup Costs) : used' = used + c
    BY <1>32 DEF CallFailed, Charge
  <2>2. used + 2 <= Hard /\ used \in Nat
    BY <1>32 DEF CallFailed, InCall, Fair
  <2>3. Fair(used')
    BY <2>1, <2>2, OneCallIsCovered
  <2>4. soft' \in Nat /\ soft' <= Hard
    BY <1>32, DecidedBelowHard, <2>3 DEF CallFailed, Decided, Barred
  <2>5. prov' = "none"
    BY <1>32 DEF CallFailed, NoCall
  <2> QED
    BY <1>32, <2>3, <2>4, <2>5 DEF CallFailed, Fail, saveVars, SavedFair, Fair, Covered
<1>33. CASE LateResult
  <2>1. used + 2 <= Hard /\ used \in Nat /\ prov' = "none"
    BY <1>33 DEF LateResult, NoCall, Fair
  <2>2. CASE (\E c \in Costs : Charge(c)) /\ Save(Snapshot')
    <3>1. PICK c \in Costs : used' = used + c
      BY <2>2 DEF Charge
    <3>2. Fair(used')
      BY <2>1, <3>1, OneCallIsCovered
    <3> QED
      BY <1>33, <2>1, <2>2, <3>2 DEF LateResult, Save, Snapshot, SavedFair, Fair, Covered
  <2>3. CASE UNCHANGED <<used, resv, saveVars>>
    BY <1>33, <2>1, <2>3 DEF LateResult, saveVars, SavedFair, Fair, Covered
  <2> QED
    BY <1>33, <2>2, <2>3 DEF LateResult
<1>34. CASE CallRetried
  <2>1. PICK c \in ({0} \cup Costs) : used' = used + c /\ Again(used + c)
    BY <1>34 DEF CallRetried, Charge
  <2>2. used + 2 <= Hard /\ used \in Nat
    BY <1>34 DEF CallRetried, InCall, Fair
  <2>3. Fair(used')
    BY <2>1, <2>2, OneCallIsCovered
  <2>4. PICK s \in Decided(soft, used') : Fits(s, used') /\ soft' = s
    BY <2>1 DEF Again
  <2>5. s \in Nat /\ s <= Hard
    BY <2>3, DecidedBelowHard DEF Fair
  <2>6. used' + 2 <= Hard
    BY <2>3, <2>4, <2>5, FitsBelowHard DEF Fair
  <2> QED
    BY <1>34, <2>3, <2>4, <2>5, <2>6 DEF CallRetried, saveVars, SavedFair, Fair, Covered
<1>35. CASE UNCHANGED vars
  BY <1>35 DEF vars, acctVars, saveVars, provVars, SavedFair, Fair, Covered
<1> QED
  BY <1>1, <1>2, <1>3, <1>4, <1>5, <1>6, <1>7, <1>8, <1>9, <1>10, <1>11, <1>12, <1>13, <1>14,
     <1>15, <1>16, <1>17, <1>18, <1>19, <1>20, <1>21, <1>22, <1>23, <1>24, <1>25, <1>26, <1>27,
     <1>28, <1>29, <1>30, <1>31, <1>32, <1>33, <1>34, <1>35
     DEF Next, Driver, Provider, Tools, Host

(* For every budget, reserve, limit and cost of a call, a session spends no  *)
(* more than its hard budget and one call on top of a request that fitted,   *)
(* whatever is retried, abandoned, charged late, lost or restored.           *)
THEOREM SpendIsCovered == Spec => []OverspendIsOneCall
<1>1. SpendInv => OverspendIsOneCall
  BY DEF SpendInv, Fair, OverspendIsOneCall
<1> QED
  BY SpendInit, SpendStep, <1>1, PTL DEF Spec

-----------------------------------------------------------------------------
(* What a request may be sent in *)

(* The driver, the call and the batch agree from the start. *)
LEMMA DriverInit == Init => DriverInv
BY DEF Init, DriverInv

(* Every step keeps the driver, the call and the batch in agreement. *)
LEMMA DriverStep ==
    ASSUME DriverInv, [Next]_vars
    PROVE  DriverInv'
<1>1. CASE StartTurn
  BY <1>1 DEF StartTurn, MayRun, DriverInv, acctVars, windVars, turnVars, histVars, provVars,
      envVars, saveVars, pastVars
<1>2. CASE ResumeTurn
  BY <1>2 DEF ResumeTurn, MayRun, DriverInv, acctVars, windVars, turnVars, provVars, envVars,
      saveVars, pastVars
<1>3. CASE WaitForRows
  BY <1>3 DEF WaitForRows, MayRun, DriverInv, acctVars, windVars, turnVars, histVars, onceVars,
      rowVars, provVars, envVars, saveVars, pastVars
<1>4. CASE RowsFilled
  BY <1>4 DEF RowsFilled, DriverInv, acctVars, windVars, turnVars, histVars, onceVars, provVars,
      envVars, saveVars, pastVars
<1>5. CASE CancelEvent
  BY <1>5 DEF CancelEvent, DriverInv, acctVars, windVars, turnVars, histVars, onceVars, rowVars,
      provVars, saveVars, pastVars
<1>6. CASE Revoke
  BY <1>6 DEF Revoke, DriverInv, acctVars, windVars, turnVars, histVars, onceVars, rowVars,
      provVars, saveVars, pastVars
<1>7. CASE Return
  BY <1>7 DEF Return, DriverInv, acctVars, windVars, turnVars, histVars, onceVars, rowVars,
      provVars, envVars, saveVars, pastVars
<1>8. CASE PrecheckFail
  BY <1>8 DEF PrecheckFail, Fail, InPrecheck, DriverInv, acctVars, windVars, turnVars, onceVars,
      provVars, envVars, saveVars, pastVars
<1>9. CASE RequestFail
  BY <1>9 DEF RequestFail, Fail, DriverInv, acctVars, windVars, turnVars, onceVars, provVars,
      envVars, saveVars, pastVars
<1>10. CASE HandleTools
  BY <1>10 DEF HandleTools, InHandling, DriverInv, acctVars, windVars, turnVars, histVars,
      onceVars, rowVars, provVars, envVars, saveVars, pastVars
<1>11. CASE HandleCorrect
  BY <1>11 DEF HandleCorrect, InHandling, MustUseTool, DriverInv, acctVars, windVars, turnVars,
      rowVars, provVars, envVars, saveVars, pastVars
<1>12. CASE HandleEmpty
  BY <1>12 DEF HandleEmpty, InHandling, MustUseTool, DriverInv, acctVars, windVars, turnVars,
      rowVars, provVars, envVars, saveVars, pastVars
<1>13. CASE ToolsDone
  BY <1>13 DEF ToolsDone, DriverInv, acctVars, windVars, histVars, provVars, envVars, saveVars,
      pastVars
<1>14. CASE ToolsFail
  BY <1>14 DEF ToolsFail, DriverInv, acctVars, windVars, turnVars, histVars, onceVars, provVars,
      envVars, saveVars, pastVars
<1>15. CASE Finish
  BY <1>15 DEF Finish, DriverInv, acctVars, windVars, turnVars, histVars, onceVars, rowVars,
      provVars, pastVars
<1>16. CASE HandleEnd
  BY <1>16 DEF HandleEnd, InHandling, DriverInv, acctVars, windVars, turnVars, onceVars,
      provVars, envVars, pastVars
<1>17. CASE Autosave
  BY <1>17 DEF Autosave, DriverInv, acctVars, windVars, turnVars, histVars, onceVars, provVars,
      envVars, pastVars
<1>18. CASE AddUserMessage
  BY <1>18 DEF AddUserMessage, DriverInv, acctVars, histVars, provVars, envVars
<1>19. CASE Kill
  BY <1>19 DEF Kill, NoCall, DriverInv, acctVars, windVars, turnVars, histVars, onceVars,
      envVars, saveVars, pastVars
<1>20. CASE WriteDone
  BY <1>20 DEF WriteDone, DriverInv, acctVars, windVars, turnVars, histVars, onceVars, rowVars,
      provVars, envVars, pastVars
<1>21. CASE CallTimeout
  BY <1>21 DEF CallTimeout, Fail, InCall, DriverInv, acctVars, windVars, turnVars, onceVars,
      envVars, saveVars, pastVars
<1>22. CASE Crash
  BY <1>22 DEF Crash, DriverInv
<1>23. CASE PrecheckPass
  BY <1>23 DEF PrecheckPass, InPrecheck, DriverInv, windVars, turnVars, histVars, onceVars,
      rowVars, provVars, envVars, saveVars, pastVars
<1>24. CASE PrecheckRetry
  BY <1>24 DEF PrecheckRetry, InPrecheck, DriverInv, turnVars, onceVars, rowVars, provVars,
      envVars, saveVars, pastVars
<1>25. CASE PrecheckStop
  BY <1>25 DEF PrecheckStop, InPrecheck, Stop, DriverInv, windVars, turnVars, onceVars,
      provVars, envVars, saveVars, pastVars
<1>26. CASE PrecheckWindDown
  BY <1>26 DEF PrecheckWindDown, InPrecheck, DriverInv, turnVars, onceVars, rowVars, provVars,
      envVars, saveVars, pastVars
<1>27. CASE RequestStop
  BY <1>27 DEF RequestStop, Stop, DriverInv, windVars, turnVars, onceVars, provVars, envVars,
      saveVars, pastVars
<1>28. CASE Request
  BY <1>28 DEF Request, DriverInv, windVars, turnVars, histVars, onceVars, rowVars, envVars,
      saveVars
<1>29. CASE ReplyAccepted
  BY <1>29 DEF ReplyAccepted, InCall, NoCall, DriverInv, turnVars, histVars, onceVars, rowVars,
      envVars, saveVars, pastVars
<1>30. CASE ReplyRefused
  BY <1>30 DEF ReplyRefused, InCall, NoCall, Stop, DriverInv, turnVars, onceVars, envVars,
      saveVars, pastVars
<1>31. CASE CallStopped
  BY <1>31 DEF CallStopped, InCall, NoCall, Stop, DriverInv, turnVars, onceVars, envVars,
      saveVars, pastVars
<1>32. CASE CallFailed
  BY <1>32 DEF CallFailed, InCall, NoCall, Fail, DriverInv, turnVars, onceVars, envVars,
      saveVars, pastVars
<1>33. CASE LateResult
  BY <1>33 DEF LateResult, NoCall, DriverInv, turnVars, histVars, onceVars, rowVars, envVars,
      saveVars, pastVars
<1>34. CASE CallRetried
  BY <1>34 DEF CallRetried, InCall, DriverInv, turnVars, histVars, onceVars, rowVars, envVars,
      saveVars, pastVars
<1>35. CASE UNCHANGED vars
  BY <1>35 DEF vars, DriverInv, acctVars, windVars, turnVars, histVars, onceVars, rowVars,
      provVars, envVars, saveVars, pastVars
<1> QED
  BY <1>1, <1>2, <1>3, <1>4, <1>5, <1>6, <1>7, <1>8, <1>9, <1>10, <1>11, <1>12, <1>13,
     <1>14, <1>15, <1>16, <1>17, <1>18, <1>19, <1>20, <1>21, <1>22, <1>23, <1>24, <1>25,
     <1>26, <1>27, <1>28, <1>29, <1>30, <1>31, <1>32, <1>33, <1>34, <1>35
     DEF Next, Driver, Provider, Tools, Host

(* No call is unanswered and nothing is submitted at the start. *)
LEMMA LegalInit == Init => LegalInv
BY DEF Init, LegalInv, Resting

(* Every step closes what it leaves before a request can follow. *)
LEMMA LegalStep ==
    ASSUME DriverInv, LegalInv, [Next]_vars
    PROVE  LegalInv'
<1>1. CASE StartTurn
  BY <1>1 DEF StartTurn, MayRun, DriverInv, LegalInv, Resting, acctVars, windVars, turnVars,
      histVars, provVars, envVars, saveVars, pastVars
<1>2. CASE ResumeTurn
  BY <1>2 DEF ResumeTurn, MayRun, DriverInv, LegalInv, Resting, acctVars, windVars, turnVars,
      provVars, envVars, saveVars, pastVars
<1>3. CASE WaitForRows
  BY <1>3 DEF WaitForRows, MayRun, DriverInv, LegalInv, Resting, acctVars, windVars, turnVars,
      histVars, onceVars, rowVars, provVars, envVars, saveVars, pastVars
<1>4. CASE RowsFilled
  BY <1>4 DEF RowsFilled, DriverInv, LegalInv, Resting, acctVars, windVars, turnVars, histVars,
      onceVars, provVars, envVars, saveVars, pastVars
<1>5. CASE CancelEvent
  BY <1>5 DEF CancelEvent, DriverInv, LegalInv, Resting, acctVars, windVars, turnVars, histVars,
      onceVars, rowVars, provVars, saveVars, pastVars
<1>6. CASE Revoke
  BY <1>6 DEF Revoke, DriverInv, LegalInv, Resting, acctVars, windVars, turnVars, histVars,
      onceVars, rowVars, provVars, saveVars, pastVars
<1>7. CASE Return
  BY <1>7 DEF Return, DriverInv, LegalInv, Resting, acctVars, windVars, turnVars, histVars,
      onceVars, rowVars, provVars, envVars, saveVars, pastVars
<1>8. CASE PrecheckFail
  BY <1>8 DEF PrecheckFail, Fail, InPrecheck, DriverInv, LegalInv, Resting, acctVars, windVars,
      turnVars, onceVars, provVars, envVars, saveVars, pastVars
<1>9. CASE RequestFail
  BY <1>9 DEF RequestFail, Fail, DriverInv, LegalInv, Resting, acctVars, windVars, turnVars,
      onceVars, provVars, envVars, saveVars, pastVars
<1>10. CASE HandleTools
  BY <1>10 DEF HandleTools, InHandling, DriverInv, LegalInv, Resting, acctVars, windVars,
      turnVars, histVars, onceVars, rowVars, provVars, envVars, saveVars, pastVars
<1>11. CASE HandleCorrect
  BY <1>11 DEF HandleCorrect, InHandling, MustUseTool, DriverInv, LegalInv, Resting, acctVars,
      windVars, turnVars, rowVars, provVars, envVars, saveVars, pastVars
<1>12. CASE HandleEmpty
  BY <1>12 DEF HandleEmpty, InHandling, MustUseTool, DriverInv, LegalInv, Resting, acctVars,
      windVars, turnVars, rowVars, provVars, envVars, saveVars, pastVars
<1>13. CASE ToolsDone
  BY <1>13 DEF ToolsDone, DriverInv, LegalInv, Resting, acctVars, windVars, histVars, provVars,
      envVars, saveVars, pastVars
<1>14. CASE ToolsFail
  BY <1>14 DEF ToolsFail, DriverInv, LegalInv, Resting, acctVars, windVars, turnVars, histVars,
      onceVars, provVars, envVars, saveVars, pastVars
<1>15. CASE Finish
  BY <1>15 DEF Finish, DriverInv, LegalInv, Resting, acctVars, windVars, turnVars, histVars,
      onceVars, rowVars, provVars, pastVars
<1>16. CASE HandleEnd
  BY <1>16 DEF HandleEnd, InHandling, DriverInv, LegalInv, Resting, acctVars, windVars,
      turnVars, onceVars, provVars, envVars, pastVars
<1>17. CASE Autosave
  BY <1>17 DEF Autosave, DriverInv, LegalInv, Resting, acctVars, windVars, turnVars, histVars,
      onceVars, provVars, envVars, pastVars
<1>18. CASE AddUserMessage
  BY <1>18 DEF AddUserMessage, DriverInv, LegalInv, Resting, acctVars, histVars, provVars,
      envVars
<1>19. CASE Kill
  BY <1>19 DEF Kill, NoCall, DriverInv, LegalInv, Resting, acctVars, windVars, turnVars,
      histVars, onceVars, envVars, saveVars, pastVars
<1>20. CASE WriteDone
  BY <1>20 DEF WriteDone, DriverInv, LegalInv, Resting, acctVars, windVars, turnVars, histVars,
      onceVars, rowVars, provVars, envVars, pastVars
<1>21. CASE CallTimeout
  BY <1>21 DEF CallTimeout, Fail, InCall, DriverInv, LegalInv, Resting, acctVars, windVars,
      turnVars, onceVars, envVars, saveVars, pastVars
<1>22. CASE Crash
  BY <1>22 DEF Crash, DriverInv, LegalInv, Resting
<1>23. CASE PrecheckPass
  BY <1>23 DEF PrecheckPass, InPrecheck, DriverInv, LegalInv, Resting, windVars, turnVars,
      histVars, onceVars, rowVars, provVars, envVars, saveVars, pastVars
<1>24. CASE PrecheckRetry
  BY <1>24 DEF PrecheckRetry, InPrecheck, DriverInv, LegalInv, Resting, turnVars, onceVars,
      rowVars, provVars, envVars, saveVars, pastVars
<1>25. CASE PrecheckStop
  BY <1>25 DEF PrecheckStop, InPrecheck, Stop, DriverInv, LegalInv, Resting, windVars, turnVars,
      onceVars, provVars, envVars, saveVars, pastVars
<1>26. CASE PrecheckWindDown
  BY <1>26 DEF PrecheckWindDown, InPrecheck, DriverInv, LegalInv, Resting, turnVars, onceVars,
      rowVars, provVars, envVars, saveVars, pastVars
<1>27. CASE RequestStop
  BY <1>27 DEF RequestStop, Stop, DriverInv, LegalInv, Resting, windVars, turnVars, onceVars,
      provVars, envVars, saveVars, pastVars
<1>28. CASE Request
  BY <1>28 DEF Request, DriverInv, LegalInv, Resting, windVars, turnVars, histVars, onceVars,
      rowVars, envVars, saveVars
<1>29. CASE ReplyAccepted
  BY <1>29 DEF ReplyAccepted, InCall, NoCall, DriverInv, LegalInv, Resting, turnVars, histVars,
      onceVars, rowVars, envVars, saveVars, pastVars
<1>30. CASE ReplyRefused
  BY <1>30 DEF ReplyRefused, InCall, NoCall, Stop, DriverInv, LegalInv, Resting, turnVars,
      onceVars, envVars, saveVars, pastVars
<1>31. CASE CallStopped
  BY <1>31 DEF CallStopped, InCall, NoCall, Stop, DriverInv, LegalInv, Resting, turnVars,
      onceVars, envVars, saveVars, pastVars
<1>32. CASE CallFailed
  BY <1>32 DEF CallFailed, InCall, NoCall, Fail, DriverInv, LegalInv, Resting, turnVars,
      onceVars, envVars, saveVars, pastVars
<1>33. CASE LateResult
  BY <1>33 DEF LateResult, NoCall, DriverInv, LegalInv, Resting, turnVars, histVars, onceVars,
      rowVars, envVars, saveVars, pastVars
<1>34. CASE CallRetried
  BY <1>34 DEF CallRetried, InCall, DriverInv, LegalInv, Resting, turnVars, histVars, onceVars,
      rowVars, envVars, saveVars, pastVars
<1>35. CASE UNCHANGED vars
  BY <1>35 DEF vars, DriverInv, LegalInv, Resting, acctVars, windVars, turnVars, histVars,
      onceVars, rowVars, provVars, envVars, saveVars, pastVars
<1> QED
  BY <1>1, <1>2, <1>3, <1>4, <1>5, <1>6, <1>7, <1>8, <1>9, <1>10, <1>11, <1>12, <1>13,
     <1>14, <1>15, <1>16, <1>17, <1>18, <1>19, <1>20, <1>21, <1>22, <1>23, <1>24, <1>25,
     <1>26, <1>27, <1>28, <1>29, <1>30, <1>31, <1>32, <1>33, <1>34, <1>35
     DEF Next, Driver, Provider, Tools, Host

(* For every limit and every event from outside, a request is sent only with *)
(* every tool call of the history answered and nothing submitted, after any  *)
(* failed, cancelled, suspended or restored batch.                          *)
THEOREM RequestsStayLegal == Spec => []RequestsAreLegal
<1>1. LegalInv => RequestsAreLegal
  BY DEF LegalInv, Resting, RequestsAreLegal, ProtocolClosed, NoRequestAfterSubmit
<1>2. DriverInv /\ LegalInv /\ [Next]_vars => DriverInv' /\ LegalInv'
  BY DriverStep, LegalStep
<1> QED
  BY DriverInit, LegalInit, <1>1, <1>2, PTL DEF Spec

-----------------------------------------------------------------------------
(* What a run leaves on disk *)

(* The first snapshot is the session. *)
LEMMA RestInit == Init => RestInv
BY DEF Init, RestInv, Knows, Snapshot

(* What a step saves of itself is known once it is written. *)
LEMMA SaveKnows ==
    ASSUME NEW x, Save(x),
           x.used = used', x.steps = steps', x.resv = resv',
           x.wd = wd', x.att = att', x.spare = spare', epoch' = epoch
    PROVE  RestInv'
<1>1. CASE epoch < MaxRestarts /\ frozen = <<>>
  <2>1. frozen' = <<x>> /\ <<x>> # <<>> /\ <<x>>[1] = x
    BY <1>1 DEF Save
  <2> QED
    BY <2>1 DEF RestInv, Knows
<1>2. CASE epoch < MaxRestarts /\ frozen # <<>>
  BY <1>2 DEF Save, RestInv
<1>3. CASE ~(epoch < MaxRestarts)
  BY <1>3 DEF RestInv
<1> QED
  BY <1>1, <1>2, <1>3

(* Every step from the end of a run on queues what it changes. *)
LEMMA RestStep ==
    ASSUME RestInv, DriverInv, [Next]_vars
    PROVE  RestInv'
<1>1. CASE StartTurn
  BY <1>1 DEF StartTurn, MayRun, RestInv, DriverInv, Knows, acctVars, windVars, turnVars,
      histVars, provVars, envVars, saveVars, pastVars
<1>2. CASE ResumeTurn
  BY <1>2 DEF ResumeTurn, MayRun, RestInv, DriverInv, Knows, acctVars, windVars, turnVars,
      provVars, envVars, saveVars, pastVars
<1>3. CASE WaitForRows
  BY <1>3 DEF WaitForRows, MayRun, RestInv, DriverInv, Knows, acctVars, windVars, turnVars,
      histVars, onceVars, rowVars, provVars, envVars, saveVars, pastVars
<1>4. CASE RowsFilled
  BY <1>4 DEF RowsFilled, RestInv, DriverInv, Knows, acctVars, windVars, turnVars, histVars,
      onceVars, provVars, envVars, saveVars, pastVars
<1>5. CASE CancelEvent
  BY <1>5 DEF CancelEvent, RestInv, DriverInv, Knows, acctVars, windVars, turnVars, histVars,
      onceVars, rowVars, provVars, saveVars, pastVars
<1>6. CASE Revoke
  BY <1>6 DEF Revoke, RestInv, DriverInv, Knows, acctVars, windVars, turnVars, histVars,
      onceVars, rowVars, provVars, saveVars, pastVars
<1>7. CASE Return
  BY <1>7 DEF Return, RestInv, DriverInv, Knows, acctVars, windVars, turnVars, histVars,
      onceVars, rowVars, provVars, envVars, saveVars, pastVars
<1>8. CASE PrecheckFail
  BY <1>8 DEF PrecheckFail, Fail, InPrecheck, RestInv, DriverInv, Knows, acctVars, windVars,
      turnVars, onceVars, provVars, envVars, saveVars, pastVars
<1>9. CASE RequestFail
  BY <1>9 DEF RequestFail, Fail, RestInv, DriverInv, Knows, acctVars, windVars, turnVars,
      onceVars, provVars, envVars, saveVars, pastVars
<1>10. CASE HandleTools
  BY <1>10 DEF HandleTools, InHandling, RestInv, DriverInv, Knows, acctVars, windVars, turnVars,
      histVars, onceVars, rowVars, provVars, envVars, saveVars, pastVars
<1>11. CASE HandleCorrect
  BY <1>11 DEF HandleCorrect, InHandling, MustUseTool, RestInv, DriverInv, Knows, acctVars,
      windVars, turnVars, rowVars, provVars, envVars, saveVars, pastVars
<1>12. CASE HandleEmpty
  BY <1>12 DEF HandleEmpty, InHandling, MustUseTool, RestInv, DriverInv, Knows, acctVars,
      windVars, turnVars, rowVars, provVars, envVars, saveVars, pastVars
<1>13. CASE ToolsDone
  BY <1>13 DEF ToolsDone, RestInv, DriverInv, Knows, acctVars, windVars, histVars, provVars,
      envVars, saveVars, pastVars
<1>14. CASE ToolsFail
  BY <1>14 DEF ToolsFail, RestInv, DriverInv, Knows, acctVars, windVars, turnVars, histVars,
      onceVars, provVars, envVars, saveVars, pastVars
<1>15. CASE Finish
  <2>1. Snapshot.used = used /\ Snapshot.steps = steps /\ Snapshot.resv = resv
        /\ Snapshot.wd = wd /\ Snapshot.att = att /\ Snapshot.spare = spare
    BY DEF Snapshot
  <2> QED
    BY <1>15, <2>1, SaveKnows DEF Finish, acctVars, windVars, pastVars
<1>16. CASE HandleEnd
  BY <1>16 DEF HandleEnd, InHandling, RestInv, DriverInv, Knows, acctVars, windVars, turnVars,
      onceVars, provVars, envVars, pastVars, Save, Snapshot
<1>17. CASE Autosave
  BY <1>17 DEF Autosave, RestInv, DriverInv, Knows, acctVars, windVars, turnVars, histVars,
      onceVars, provVars, envVars, pastVars, Save, Snapshot
<1>18. CASE AddUserMessage
  <2>1. /\ (Snapshot').used = used' /\ (Snapshot').steps = steps' /\ (Snapshot').resv = resv'
        /\ (Snapshot').wd = wd' /\ (Snapshot').att = att' /\ (Snapshot').spare = spare'
    BY DEF Snapshot
  <2> QED
    BY <1>18, <2>1, SaveKnows DEF AddUserMessage
<1>19. CASE Kill
  BY <1>19 DEF Kill, NoCall, RestInv, DriverInv, Knows, acctVars, windVars, turnVars, histVars,
      onceVars, envVars, saveVars, pastVars
<1>20. CASE WriteDone
  BY <1>20 DEF WriteDone, RestInv, DriverInv, Knows, acctVars, windVars, turnVars, histVars,
      onceVars, rowVars, provVars, envVars, pastVars, Snapshot
<1>21. CASE CallTimeout
  BY <1>21 DEF CallTimeout, Fail, InCall, RestInv, DriverInv, Knows, acctVars, windVars,
      turnVars, onceVars, envVars, saveVars, pastVars
<1>22. CASE Crash
  BY <1>22 DEF Crash, RestInv, DriverInv, Knows
<1>23. CASE PrecheckPass
  BY <1>23 DEF PrecheckPass, InPrecheck, RestInv, DriverInv, Knows, windVars, turnVars,
      histVars, onceVars, rowVars, provVars, envVars, saveVars, pastVars
<1>24. CASE PrecheckRetry
  BY <1>24 DEF PrecheckRetry, InPrecheck, RestInv, DriverInv, Knows, turnVars, onceVars,
      rowVars, provVars, envVars, saveVars, pastVars
<1>25. CASE PrecheckStop
  BY <1>25 DEF PrecheckStop, InPrecheck, Stop, RestInv, DriverInv, Knows, windVars, turnVars,
      onceVars, provVars, envVars, saveVars, pastVars
<1>26. CASE PrecheckWindDown
  BY <1>26 DEF PrecheckWindDown, InPrecheck, RestInv, DriverInv, Knows, turnVars, onceVars,
      rowVars, provVars, envVars, saveVars, pastVars, Save, Snapshot
<1>27. CASE RequestStop
  BY <1>27 DEF RequestStop, Stop, RestInv, DriverInv, Knows, windVars, turnVars, onceVars,
      provVars, envVars, saveVars, pastVars
<1>28. CASE Request
  BY <1>28 DEF Request, RestInv, DriverInv, Knows, windVars, turnVars, histVars, onceVars,
      rowVars, envVars, saveVars
<1>29. CASE ReplyAccepted
  BY <1>29 DEF ReplyAccepted, InCall, NoCall, RestInv, DriverInv, Knows, turnVars, histVars,
      onceVars, rowVars, envVars, saveVars, pastVars
<1>30. CASE ReplyRefused
  BY <1>30 DEF ReplyRefused, InCall, NoCall, Stop, RestInv, DriverInv, Knows, turnVars,
      onceVars, envVars, saveVars, pastVars, Save, Snapshot
<1>31. CASE CallStopped
  BY <1>31 DEF CallStopped, InCall, NoCall, Stop, RestInv, DriverInv, Knows, turnVars, onceVars,
      envVars, saveVars, pastVars
<1>32. CASE CallFailed
  BY <1>32 DEF CallFailed, InCall, NoCall, Fail, RestInv, DriverInv, Knows, turnVars, onceVars,
      envVars, saveVars, pastVars
<1>33. CASE LateResult
  <2>1. /\ (Snapshot').used = used' /\ (Snapshot').steps = steps' /\ (Snapshot').resv = resv'
        /\ (Snapshot').wd = wd' /\ (Snapshot').att = att' /\ (Snapshot').spare = spare'
    BY DEF Snapshot
  <2>2. CASE Save(Snapshot')
    BY <1>33, <2>1, <2>2, SaveKnows DEF LateResult, pastVars
  <2>3. CASE UNCHANGED <<used, resv, saveVars>>
    BY <1>33, <2>3 DEF LateResult, RestInv, Knows, saveVars, pastVars
  <2> QED
    BY <1>33, <2>2, <2>3 DEF LateResult
<1>34. CASE CallRetried
  BY <1>34 DEF CallRetried, InCall, RestInv, DriverInv, Knows, turnVars, histVars, onceVars,
      rowVars, envVars, saveVars, pastVars
<1>35. CASE UNCHANGED vars
  BY <1>35 DEF vars, RestInv, DriverInv, Knows, acctVars, windVars, turnVars, histVars,
      onceVars, rowVars, provVars, envVars, saveVars, pastVars
<1> QED
  BY <1>1, <1>2, <1>3, <1>4, <1>5, <1>6, <1>7, <1>8, <1>9, <1>10, <1>11, <1>12, <1>13,
     <1>14, <1>15, <1>16, <1>17, <1>18, <1>19, <1>20, <1>21, <1>22, <1>23, <1>24, <1>25,
     <1>26, <1>27, <1>28, <1>29, <1>30, <1>31, <1>32, <1>33, <1>34, <1>35
     DEF Next, Driver, Provider, Tools, Host

(* For every limit and every event from outside, between runs and with no    *)
(* write in progress the snapshot knows all the session has spent, the usage *)
(* of the calls that ended after their run included.                        *)
THEOREM RestsAreDurable == Spec => []RestIsDurable
<1>1. RestInv => RestIsDurable
  BY DEF RestInv, Knows, RestIsDurable
<1>2. DriverInv /\ RestInv /\ [Next]_vars => DriverInv' /\ RestInv'
  BY DriverStep, RestStep
<1> QED
  BY DriverInit, RestInit, <1>1, <1>2, PTL DEF Spec

-----------------------------------------------------------------------------
(* The allowances of a session *)

(* A host that moves no budget keeps it. *)
LEMMA DecidedIsFixed ==
    ASSUME FixedBudget, NEW u, NEW t \in Decided(Soft, u)
    PROVE  t = Soft
BY BudgetAssumption DEF FixedBudget, Decided

(* A step that spends nothing leaves a session within its allowances. *)
LEMMA SameTally ==
    ASSUME Within(Snapshot), UNCHANGED <<used, steps, windVars, turnVars, spare>>
    PROVE  Within(Snapshot)'
BY DEF Within, Snapshot, windVars, turnVars, Near

(* Only what a session saves of itself reaches its copies. *)
LEMMA SaveWithin ==
    ASSUME CopiesWithin, NEW x, Within(x), Save(x)
    PROVE  CopiesWithin'
<1>1. CASE epoch < MaxRestarts /\ frozen = <<>>
  <2>1. frozen' = <<x>> /\ <<x>>[1] = x /\ disk' = disk
    BY <1>1 DEF Save
  <2> QED
    BY <2>1 DEF CopiesWithin, Within, Near
<1>2. CASE ~(epoch < MaxRestarts /\ frozen = <<>>)
  BY <1>2 DEF Save, CopiesWithin, Within, Near
<1> QED
  BY <1>1, <1>2

(* A session that saves what it has become keeps its copies within them. *)
LEMMA SaveSelf ==
    ASSUME CopiesWithin, Within(Snapshot)', Save(Snapshot')
    PROVE  CopiesWithin'
<1> DEFINE x == Snapshot'
<1>1. Within(x)
  BY DEF Within, Near
<1> HIDE DEF x
<1>2. Save(x)
  BY DEF x
<1> QED
  BY <1>1, <1>2, SaveWithin

(* The copies stand while nothing is saved. *)
LEMMA SameCopies ==
    ASSUME CopiesWithin, UNCHANGED saveVars
    PROVE  CopiesWithin'
BY DEF CopiesWithin, saveVars, Within, Near

(* What a call costs is taken from the reserve only by a protected call. *)
LEMMA ChargeWithin ==
    ASSUME Within(Snapshot), soft = Soft, prot = wd, NEW c \in {0} \cup Costs, Charge(c),
           wd \/ steps <= MaxSteps,
           UNCHANGED <<steps, wd, att, turnVars, spare>>
    PROVE  Within(Snapshot)'
<1>1. c \in Nat /\ used \in Nat /\ Soft \in Nat /\ Reserve \in Nat
  BY BudgetAssumption DEF Within, Snapshot
<1>2. used' = used + c /\ resv' = (resv \/ (wd /\ Near(used')))
  BY DEF Charge, Near
<1>3. used' \in Nat /\ (Near(used) => Near(used'))
  BY <1>1, <1>2 DEF Near
<1>4. (resv' => Near(used')) /\ (wd /\ Near(used') => resv') /\ resv' \in BOOLEAN
  BY <1>2, <1>3 DEF Within, Snapshot
<1>5. ~resv' => spare = 0
  BY <1>2 DEF Within, Snapshot
<1> HIDE DEF Near
<1>6. (~wd /\ steps > MaxSteps) = FALSE
  BY LimitAssumption DEF Within, Snapshot
<1> QED
  BY <1>3, <1>4, <1>5, <1>6 DEF Within, Snapshot, turnVars

(* A new session is within every allowance. *)
LEMMA LimitInit == Init => LimitInv
<1> SUFFICES ASSUME Init PROVE LimitInv
  OBVIOUS
<1>1. /\ wd = FALSE /\ resv = FALSE /\ steps = 0 /\ used = 0 /\ att = 0
      /\ stall = 0 /\ low = 0 /\ spare = 0
  BY DEF Init
<1>2. Within(Snapshot)
  <2> DEFINE x == Snapshot
  <2>1. /\ x.used = 0 /\ x.steps = 0 /\ x.wd = FALSE /\ x.att = 0 /\ x.resv = FALSE
        /\ x.stall = 0 /\ x.low = 0 /\ x.spare = 0
    BY <1>1 DEF Snapshot
  <2>2. MaxSteps \in Nat /\ ~x.wd /\ x.wd \in BOOLEAN /\ ~x.resv /\ x.resv \in BOOLEAN
    BY <2>1, LimitAssumption
  <2> HIDE DEF x
  <2>3. Within(x)
    BY <2>1, <2>2 DEF Within
  <2> QED
    BY <2>3 DEF x
<1>3. disk = Snapshot /\ frozen = <<>> /\ soft = Soft /\ run = "none"
  BY DEF Init
<1> QED
  BY <1>1, <1>2, <1>3, LimitAssumption DEF LimitInv, CopiesWithin

(* Every step keeps a session and its copies within their allowances. *)
LEMMA LimitStep ==
    ASSUME FixedBudget, DriverInv, LimitInv, [Next]_vars
    PROVE  LimitInv'
<1>1. CASE StartTurn
  <2>1. soft' = Soft
    BY <1>1 DEF LimitInv, StartTurn, acctVars
  <2>2. Within(Snapshot)'
    BY <1>1, SameTally DEF LimitInv, StartTurn, acctVars, windVars, turnVars, pastVars
  <2>3. CopiesWithin'
    BY <1>1, SameCopies DEF LimitInv, StartTurn, saveVars
  <2> QED
    BY <1>1, <2>1, <2>2, <2>3 DEF LimitInv, DriverInv, StartTurn, MayRun, provVars, pastVars,
        windVars, acctVars
<1>2. CASE ResumeTurn
  <2>1. soft' = Soft
    BY <1>2 DEF LimitInv, ResumeTurn, acctVars
  <2>2. Within(Snapshot)'
    BY <1>2, SameTally DEF LimitInv, ResumeTurn, acctVars, windVars, turnVars, pastVars
  <2>3. CopiesWithin'
    BY <1>2, SameCopies DEF LimitInv, ResumeTurn, saveVars
  <2> QED
    BY <1>2, <2>1, <2>2, <2>3 DEF LimitInv, DriverInv, ResumeTurn, MayRun, provVars, pastVars,
        windVars, acctVars
<1>3. CASE WaitForRows
  <2>1. soft' = Soft
    BY <1>3 DEF LimitInv, WaitForRows, acctVars
  <2>2. Within(Snapshot)'
    BY <1>3, SameTally DEF LimitInv, WaitForRows, acctVars, windVars, turnVars, pastVars
  <2>3. CopiesWithin'
    BY <1>3, SameCopies DEF LimitInv, WaitForRows, saveVars
  <2> QED
    BY <1>3, <2>1, <2>2, <2>3 DEF LimitInv, DriverInv, WaitForRows, MayRun, provVars, pastVars,
        windVars, acctVars
<1>4. CASE RowsFilled
  <2>1. soft' = Soft
    BY <1>4 DEF LimitInv, RowsFilled, acctVars
  <2>2. Within(Snapshot)'
    BY <1>4, SameTally DEF LimitInv, RowsFilled, acctVars, windVars, turnVars, pastVars
  <2>3. CopiesWithin'
    BY <1>4, SameCopies DEF LimitInv, RowsFilled, saveVars
  <2> QED
    BY <1>4, <2>1, <2>2, <2>3 DEF LimitInv, DriverInv, RowsFilled, provVars, pastVars, windVars,
        acctVars
<1>5. CASE CancelEvent
  <2>1. soft' = Soft
    BY <1>5 DEF LimitInv, CancelEvent, acctVars
  <2>2. Within(Snapshot)'
    BY <1>5, SameTally DEF LimitInv, CancelEvent, acctVars, windVars, turnVars, pastVars
  <2>3. CopiesWithin'
    BY <1>5, SameCopies DEF LimitInv, CancelEvent, saveVars
  <2> QED
    BY <1>5, <2>1, <2>2, <2>3 DEF LimitInv, DriverInv, CancelEvent, provVars, pastVars, windVars,
        acctVars
<1>6. CASE Revoke
  <2>1. soft' = Soft
    BY <1>6 DEF LimitInv, Revoke, acctVars
  <2>2. Within(Snapshot)'
    BY <1>6, SameTally DEF LimitInv, Revoke, acctVars, windVars, turnVars, pastVars
  <2>3. CopiesWithin'
    BY <1>6, SameCopies DEF LimitInv, Revoke, saveVars
  <2> QED
    BY <1>6, <2>1, <2>2, <2>3 DEF LimitInv, DriverInv, Revoke, provVars, pastVars, windVars,
        acctVars
<1>7. CASE Return
  <2>1. soft' = Soft
    BY <1>7 DEF LimitInv, Return, acctVars
  <2>2. Within(Snapshot)'
    BY <1>7, SameTally DEF LimitInv, Return, acctVars, windVars, turnVars, pastVars
  <2>3. CopiesWithin'
    BY <1>7, SameCopies DEF LimitInv, Return, saveVars
  <2> QED
    BY <1>7, <2>1, <2>2, <2>3 DEF LimitInv, DriverInv, Return, provVars, pastVars, windVars,
        acctVars
<1>8. CASE PrecheckFail
  <2>1. soft' = Soft
    BY <1>8 DEF LimitInv, PrecheckFail, acctVars
  <2>2. Within(Snapshot)'
    BY <1>8, SameTally DEF LimitInv, PrecheckFail, acctVars, windVars, turnVars, pastVars
  <2>3. CopiesWithin'
    BY <1>8, SameCopies DEF LimitInv, PrecheckFail, saveVars
  <2> QED
    BY <1>8, <2>1, <2>2, <2>3 DEF LimitInv, DriverInv, PrecheckFail, Fail, InPrecheck, provVars,
        pastVars, windVars, acctVars
<1>9. CASE RequestFail
  <2>1. soft' = Soft
    BY <1>9 DEF LimitInv, RequestFail, acctVars
  <2>2. Within(Snapshot)'
    BY <1>9, SameTally DEF LimitInv, RequestFail, acctVars, windVars, turnVars, pastVars
  <2>3. CopiesWithin'
    BY <1>9, SameCopies DEF LimitInv, RequestFail, saveVars
  <2> QED
    BY <1>9, <2>1, <2>2, <2>3 DEF LimitInv, DriverInv, RequestFail, Fail, provVars, pastVars,
        windVars, acctVars
<1>10. CASE HandleTools
  <2>1. soft' = Soft
    BY <1>10 DEF LimitInv, HandleTools, acctVars
  <2>2. Within(Snapshot)'
    BY <1>10, SameTally DEF LimitInv, HandleTools, acctVars, windVars, turnVars, pastVars
  <2>3. CopiesWithin'
    BY <1>10, SameCopies DEF LimitInv, HandleTools, saveVars
  <2> QED
    BY <1>10, <2>1, <2>2, <2>3
       DEF LimitInv, DriverInv, HandleTools, InHandling, provVars, pastVars,
        windVars, acctVars
<1>11. CASE HandleCorrect
  <2>1. soft' = Soft
    BY <1>11 DEF LimitInv, HandleCorrect, acctVars
  <2>2. Within(Snapshot)'
    BY <1>11, SameTally DEF LimitInv, HandleCorrect, acctVars, windVars, turnVars, pastVars
  <2>3. CopiesWithin'
    BY <1>11, SameCopies DEF LimitInv, HandleCorrect, saveVars
  <2> QED
    BY <1>11, <2>1, <2>2, <2>3 DEF LimitInv, DriverInv, HandleCorrect, InHandling, MustUseTool,
        provVars, pastVars, windVars, acctVars
<1>12. CASE HandleEmpty
  <2>1. soft' = Soft
    BY <1>12 DEF LimitInv, HandleEmpty, acctVars
  <2>2. Within(Snapshot)'
    BY <1>12, SameTally DEF LimitInv, HandleEmpty, acctVars, windVars, turnVars, pastVars
  <2>3. CopiesWithin'
    BY <1>12, SameCopies DEF LimitInv, HandleEmpty, saveVars
  <2> QED
    BY <1>12, <2>1, <2>2, <2>3 DEF LimitInv, DriverInv, HandleEmpty, InHandling, MustUseTool,
        provVars, pastVars, windVars, acctVars
<1>13. CASE ToolsDone
  <2>1. soft' = Soft
    BY <1>13 DEF LimitInv, ToolsDone, acctVars
  <2>2. Within(Snapshot)'
    <3>1. wd \/ ~(steps > MaxSteps)
      BY <1>13 DEF LimitInv, ToolsDone
    <3>2. stall' \in Nat /\ low' \in Nat
      BY <1>13, LimitAssumption DEF LimitInv, ToolsDone, Progress, LowYieldAfter, Cap, Within, Snapshot
    <3>3. UNCHANGED <<used, steps, windVars, spare>>
      BY <1>13 DEF ToolsDone, acctVars, pastVars
    <3> QED
      BY <3>1, <3>2, <3>3 DEF LimitInv, Within, Snapshot, windVars, Near
  <2>3. CopiesWithin'
    BY <1>13, SameCopies DEF LimitInv, ToolsDone, saveVars
  <2> QED
    BY <1>13, <2>1, <2>2, <2>3 DEF LimitInv, DriverInv, ToolsDone, provVars, pastVars, windVars,
        acctVars
<1>14. CASE ToolsFail
  <2>1. soft' = Soft
    BY <1>14 DEF LimitInv, ToolsFail, acctVars
  <2>2. Within(Snapshot)'
    BY <1>14, SameTally DEF LimitInv, ToolsFail, acctVars, windVars, turnVars, pastVars
  <2>3. CopiesWithin'
    BY <1>14, SameCopies DEF LimitInv, ToolsFail, saveVars
  <2> QED
    BY <1>14, <2>1, <2>2, <2>3 DEF LimitInv, DriverInv, ToolsFail, provVars, pastVars, windVars,
        acctVars
<1>15. CASE Finish
  <2>1. soft' = Soft
    BY <1>15 DEF LimitInv, Finish, acctVars
  <2>2. Within(Snapshot)'
    BY <1>15, SameTally DEF LimitInv, Finish, acctVars, windVars, turnVars, pastVars
  <2>3. CopiesWithin'
    <3> DEFINE x == Snapshot
    <3>1. Within(x)
      BY <1>15, <2>2 DEF LimitInv, Within, Snapshot
    <3>2. Save(x)
      BY <1>15 DEF Finish
    <3> HIDE DEF x
    <3> QED
      BY <3>1, <3>2, SaveWithin DEF LimitInv
  <2> QED
    BY <1>15, <2>1, <2>2, <2>3 DEF LimitInv, DriverInv, Finish, provVars, pastVars, windVars,
        acctVars
<1>16. CASE HandleEnd
  <2>1. soft' = Soft
    BY <1>16 DEF LimitInv, HandleEnd, acctVars
  <2>2. Within(Snapshot)'
    BY <1>16, SameTally DEF LimitInv, HandleEnd, acctVars, windVars, turnVars, pastVars
  <2>3. CopiesWithin'
    <3> DEFINE x == [Snapshot EXCEPT !.sys = sys']
    <3>1. Within(x)
      BY <1>16, <2>2 DEF LimitInv, Within, Snapshot
    <3>2. Save(x)
      BY <1>16 DEF HandleEnd
    <3> HIDE DEF x
    <3> QED
      BY <3>1, <3>2, SaveWithin DEF LimitInv
  <2> QED
    BY <1>16, <2>1, <2>2, <2>3 DEF LimitInv, DriverInv, HandleEnd, InHandling, provVars, pastVars,
        windVars, acctVars
<1>17. CASE Autosave
  <2>1. soft' = Soft
    BY <1>17 DEF LimitInv, Autosave, acctVars
  <2>2. Within(Snapshot)'
    BY <1>17, SameTally DEF LimitInv, Autosave, acctVars, windVars, turnVars, pastVars
  <2>3. CopiesWithin'
    <3> DEFINE x == [Snapshot EXCEPT !.talk = talk', !.sys = sys']
    <3>1. Within(x)
      BY <1>17, <2>2 DEF LimitInv, Within, Snapshot
    <3>2. Save(x)
      BY <1>17 DEF Autosave
    <3> HIDE DEF x
    <3> QED
      BY <3>1, <3>2, SaveWithin DEF LimitInv
  <2> QED
    BY <1>17, <2>1, <2>2, <2>3 DEF LimitInv, DriverInv, Autosave, provVars, pastVars, windVars,
        acctVars
<1>18. CASE AddUserMessage
  <2>1. soft' = Soft
    BY <1>18 DEF LimitInv, AddUserMessage, acctVars
  <2>2. Within(Snapshot)'
    <3>1. /\ wd' = FALSE /\ att' = 0 /\ stall' = 0 /\ low' = 0
          /\ UNCHANGED <<used, steps, resv, spare>>
      BY <1>18 DEF AddUserMessage, acctVars
    <3>2. steps <= MaxSteps + 2 /\ (steps > MaxSteps => (Near(used) => resv))
      BY LimitAssumption DEF LimitInv, Within, Snapshot
    <3>3. Near(used)' = Near(used)
      BY <3>1 DEF Near
    <3> HIDE DEF Near
    <3> QED
      <4> DEFINE x == Snapshot
                 y == Snapshot'
      <4>1. /\ y.used = x.used /\ y.steps = x.steps /\ y.resv = x.resv
            /\ y.wd = FALSE /\ y.att = 0 /\ y.stall = 0 /\ y.low = 0 /\ y.spare = x.spare
        BY <3>1 DEF Snapshot
      <4>2. x.steps <= MaxSteps + 2 /\ (x.steps > MaxSteps => (Near(x.used) => x.resv))
        BY <3>2 DEF Snapshot
      <4>3. Within(x)
        BY DEF LimitInv
      <4> HIDE DEF x, y
      <4>4. Within(y)
        <5>1. ~y.wd /\ y.wd \in BOOLEAN
          BY <4>1
        <5> QED
          BY <4>1, <4>2, <4>3, <5>1, LimitAssumption DEF Within
      <4>5. Within(y) = Within(Snapshot)'
        BY DEF y, Within, Near
      <4> QED
        BY <4>4, <4>5
  <2>3. CopiesWithin'
    BY <1>18, <2>2, SaveSelf DEF LimitInv, AddUserMessage
  <2> QED
    BY <1>18, <2>1, <2>2, <2>3 DEF LimitInv, AddUserMessage, provVars
<1>19. CASE Kill
  <2>1. soft' = Soft
    BY <1>19 DEF LimitInv, Kill, acctVars
  <2>2. Within(Snapshot)'
    BY <1>19, SameTally DEF LimitInv, Kill, acctVars, windVars, turnVars, pastVars
  <2>3. CopiesWithin'
    BY <1>19, SameCopies DEF LimitInv, Kill, saveVars
  <2> QED
    BY <1>19, <2>1, <2>2, <2>3 DEF LimitInv, DriverInv, Kill, NoCall, pastVars, windVars, acctVars
<1>20. CASE WriteDone
  <2>1. soft' = Soft
    BY <1>20 DEF LimitInv, WriteDone, acctVars
  <2>2. Within(Snapshot)'
    BY <1>20, SameTally DEF LimitInv, WriteDone, acctVars, windVars, turnVars, pastVars
  <2>3. CopiesWithin'
    <3>1. disk' = frozen[1] /\ (frozen' = <<Snapshot>> \/ frozen' = <<>>)
      BY <1>20 DEF WriteDone
    <3>2. <<Snapshot>>[1] = Snapshot
      OBVIOUS
    <3>3. Within(frozen[1]) /\ Within(Snapshot)
      BY <1>20 DEF WriteDone, LimitInv, CopiesWithin
    <3> QED
      BY <3>1, <3>2, <3>3 DEF CopiesWithin, Within, Near
  <2> QED
    BY <1>20, <2>1, <2>2, <2>3 DEF LimitInv, DriverInv, WriteDone, provVars, pastVars, windVars,
        acctVars
<1>21. CASE CallTimeout
  <2>1. soft' = Soft
    BY <1>21 DEF LimitInv, CallTimeout, acctVars
  <2>2. Within(Snapshot)'
    BY <1>21, SameTally DEF LimitInv, CallTimeout, acctVars, windVars, turnVars, pastVars
  <2>3. CopiesWithin'
    BY <1>21, SameCopies DEF LimitInv, CallTimeout, saveVars
  <2> QED
    BY <1>21, <2>1, <2>2, <2>3 DEF LimitInv, DriverInv, CallTimeout, Fail, InCall, pastVars,
        windVars, acctVars
<1>22. CASE Crash
  <2>1. soft' = Soft
    BY <1>22 DEF Crash
  <2>2. Within(disk)
    BY DEF LimitInv, CopiesWithin
  <2>3. /\ used' = disk.used /\ steps' = disk.steps /\ wd' = disk.wd
        /\ att' = disk.att /\ resv' = disk.resv /\ stall' = disk.stall
        /\ low' = disk.low /\ spare' = disk.spare
        /\ disk' = disk /\ frozen' = <<>> /\ run' = "none" /\ prov' = "none"
    BY <1>22 DEF Crash
  <2>4. Within(Snapshot)'
    BY <2>2, <2>3 DEF Within, Snapshot, Near
  <2>5. CopiesWithin'
    BY <2>2, <2>3 DEF CopiesWithin, Within, Near
  <2> QED
    BY <2>1, <2>3, <2>4, <2>5 DEF LimitInv
<1>23. CASE PrecheckPass
  <2>1. soft' = Soft
    BY <1>23, DecidedIsFixed DEF LimitInv, PrecheckPass, Asked
  <2>2. Within(Snapshot)'
    BY <1>23, <2>1, SameTally DEF LimitInv, PrecheckPass, windVars, turnVars, pastVars
  <2>3. CopiesWithin'
    BY <1>23, SameCopies DEF LimitInv, PrecheckPass, saveVars
  <2>4. /\ ~wd \/ "enforce" \notin Events
        /\ steps < MaxSteps /\ ("enforce" \in Events => ~Near(used))
    <3>1. PICK s \in Decided(soft, used) : \E t \in Asked(s) :
             Gate(t) = "none" /\ steps < MaxSteps /\ soft' = t
      BY <1>23 DEF PrecheckPass
    <3>2. Gate(Soft) = "none" /\ steps < MaxSteps
      BY <2>1, <3>1
    <3>3. table = "empty"
      BY <1>23 DEF PrecheckPass, InPrecheck, DriverInv
    <3> QED
      BY <3>2, <3>3 DEF Gate, Spent, Near
  <2>5. ~wd
    BY <2>4 DEF LimitInv, Within, Snapshot
  <2>6. steps' = steps /\ wd' = wd /\ used' = used
    BY <1>23 DEF PrecheckPass, windVars
  <2>7. steps' < MaxSteps /\ ~wd' /\ ("enforce" \in Events => ~Near(used'))
    BY <2>4, <2>5, <2>6
  <2>8. steps' \in Nat /\ MaxSteps \in Nat
    BY <2>6, LimitAssumption DEF LimitInv, Within, Snapshot
  <2>9. steps' < MaxSteps + 0 /\ ~(steps' > MaxSteps)
    BY <2>7, <2>8
  <2> HIDE DEF Near
  <2> QED
    BY <2>1, <2>2, <2>3, <2>7, <2>9 DEF LimitInv
<1>24. CASE PrecheckRetry
  <2>1. soft' = Soft
    BY <1>24, DecidedIsFixed DEF LimitInv, PrecheckRetry
  <2>2. Within(Snapshot)'
    <3>1. wd /\ att < 2
      BY <1>24 DEF PrecheckRetry, Gate
    <3> QED
      <4>1. /\ att' = att + 1 /\ att' \in 0 .. 2
            /\ UNCHANGED <<used, steps, wd, resv, stall, low, spare>>
        BY <1>24, <3>1 DEF LimitInv, PrecheckRetry, Within, Snapshot, turnVars, pastVars
      <4> QED
        BY <3>1, <4>1, LimitAssumption DEF LimitInv, Within, Snapshot, Near
  <2>3. CopiesWithin'
    BY <1>24, SameCopies DEF LimitInv, PrecheckRetry, saveVars
  <2>4. wd /\ att' = att + 1 /\ steps < MaxSteps + att' /\ spare < att'
    <3>1. wd /\ att' = att + 1
      BY <1>24 DEF PrecheckRetry, Gate
    <3> QED
      BY <3>1, LimitAssumption DEF LimitInv, Within, Snapshot
  <2> QED
    BY <1>24, <2>1, <2>2, <2>3, <2>4 DEF LimitInv, DriverInv, PrecheckRetry, InPrecheck, provVars,
        pastVars
<1>25. CASE PrecheckStop
  <2>1. soft' = Soft
    BY <1>25, DecidedIsFixed DEF LimitInv, PrecheckStop, Asked, Refused
  <2>2. Within(Snapshot)'
    BY <1>25, <2>1, SameTally DEF LimitInv, PrecheckStop, windVars, turnVars, pastVars
  <2>3. CopiesWithin'
    BY <1>25, SameCopies DEF LimitInv, PrecheckStop, saveVars
  <2> QED
    BY <1>25, <2>1, <2>2, <2>3 DEF LimitInv, DriverInv, PrecheckStop, InPrecheck, Stop, provVars,
        pastVars, windVars
<1>26. CASE PrecheckWindDown
  <2>1. PICK s \in Decided(soft, used) : \E t \in Asked(s) :
           /\ Gate(t) = "wind" /\ soft' = t
           /\ resv' = (resv \/ Spent(t))
           /\ IF Spent(t) THEN Save([Snapshot EXCEPT !.resv = TRUE])
                          ELSE UNCHANGED saveVars
    BY <1>26 DEF PrecheckWindDown
  <2>2. s = Soft
    BY DecidedIsFixed DEF LimitInv
  <2>3. \A t \in Asked(s) : t = Soft
    BY <2>2, DecidedIsFixed DEF Asked
  <2>4. /\ Gate(Soft) = "wind" /\ soft' = Soft
        /\ resv' = (resv \/ Near(used))
        /\ IF Near(used) THEN Save([Snapshot EXCEPT !.resv = TRUE])
                         ELSE UNCHANGED saveVars
    BY <2>1, <2>3 DEF Spent, Near
  <2>5. /\ "enforce" \in Events /\ ~wd /\ (Near(used) \/ Braked)
        /\ ~(Near(used) /\ resv)
    BY <2>4 DEF Gate, Spent, Near
  <2>6. ~resv /\ spare = 0 /\ att = 0
    BY <2>5 DEF LimitInv, Within, Snapshot
  <2>7. steps <= MaxSteps
    <3>1. SUFFICES ASSUME steps > MaxSteps PROVE FALSE
      BY LimitAssumption DEF LimitInv, Within, Snapshot
    <3>2. stall = 0 /\ low = 0 /\ (Near(used) => resv)
      BY <2>5, <3>1 DEF LimitInv, Within, Snapshot
    <3> QED
      BY <2>5, <3>2, LimitAssumption DEF Braked
  <2>8. wd' = TRUE /\ att' = 1 /\ UNCHANGED <<used, steps, turnVars, spare>>
    BY <1>26, <2>6 DEF PrecheckWindDown, pastVars
  <2>9. Within(Snapshot)'
    <3>1. UNCHANGED <<used, steps, stall, low, spare>>
      BY <2>8 DEF turnVars
    <3>2. (resv' <=> Near(used)) /\ resv' \in BOOLEAN
      BY <2>4, <2>6 DEF LimitInv, Within, Snapshot, Near
    <3>3. Near(used)' = Near(used)
      BY <3>1 DEF Near
    <3> HIDE DEF Near
    <3> QED
      BY <2>5, <2>6, <2>7, <2>8, <3>1, <3>2, <3>3, LimitAssumption DEF LimitInv, Within, Snapshot
  <2>10. CopiesWithin'
    <3>1. CASE Near(used)
      <4> DEFINE x == [Snapshot EXCEPT !.resv = TRUE]
      <4>1. Within(x)
        BY <2>6, <3>1 DEF LimitInv, Within, Snapshot
      <4>2. Save(x)
        BY <2>4, <3>1
      <4> HIDE DEF x
      <4> QED
        BY <4>1, <4>2, SaveWithin DEF LimitInv
    <3>2. CASE ~Near(used)
      BY <2>4, <3>2, SameCopies DEF LimitInv
    <3> QED
      BY <3>1, <3>2
  <2> QED
    BY <1>26, <2>4, <2>6, <2>7, <2>8, <2>9, <2>10, LimitAssumption
       DEF LimitInv, DriverInv, PrecheckWindDown, Within, Snapshot
<1>27. CASE RequestStop
  <2>1. soft' = Soft
    BY <1>27, DecidedIsFixed DEF LimitInv, RequestStop, Barred
  <2>2. Within(Snapshot)'
    BY <1>27, <2>1, SameTally DEF LimitInv, RequestStop, windVars, turnVars, pastVars
  <2>3. CopiesWithin'
    BY <1>27, SameCopies DEF LimitInv, RequestStop, saveVars
  <2> QED
    BY <1>27, <2>1, <2>2, <2>3 DEF LimitInv, DriverInv, RequestStop, Stop, provVars, pastVars,
        windVars
<1>28. CASE Request
  <2>1. soft' = Soft
    BY <1>28, DecidedIsFixed DEF LimitInv, Request
  <2>2. steps < MaxSteps + (IF wd THEN att ELSE 0) /\ steps' = steps + 1
    BY <1>28 DEF LimitInv, Request
  <2>3. /\ UNCHANGED <<used, wd, att, resv, turnVars>>
        /\ spare' = IF "enforce" \in Events /\ Near(used) THEN spare + 1 ELSE spare
    BY <1>28, <2>1 DEF Request, windVars, Spent, Near
  <2>4. spare' \in 0 .. 2 /\ (wd => spare' <= att) /\ (~resv => spare' = 0)
    <3>1. CASE spare' = spare
      BY <3>1 DEF LimitInv, Within, Snapshot
    <3>2. CASE Near(used) /\ spare' = spare + 1 /\ "enforce" \in Events
      <4>1. wd /\ spare < att
        BY <1>28, <3>2 DEF LimitInv, Request
      <4> QED
        BY <3>2, <4>1 DEF LimitInv, Within, Snapshot
    <3> QED
      BY <2>3, <3>1, <3>2
  <2>5. ~wd => steps' <= MaxSteps
    BY <2>2, LimitAssumption DEF LimitInv, Within, Snapshot
  <2>6. wd => steps' <= MaxSteps + att
    BY <2>2, LimitAssumption DEF LimitInv, Within, Snapshot
  <2>7. Within(Snapshot)'
    BY <2>2, <2>3, <2>4, <2>5, <2>6, LimitAssumption
       DEF LimitInv, Within, Snapshot, turnVars, Near
  <2>8. CopiesWithin'
    BY <1>28, SameCopies DEF LimitInv, Request
  <2> QED
    BY <1>28, <2>1, <2>2, <2>3, <2>5, <2>7, <2>8, LimitAssumption
       DEF LimitInv, Request, Within, Snapshot
<1>29. CASE ReplyAccepted
  <2>1. PICK c \in Costs : Charge(c)
    BY <1>29 DEF ReplyAccepted
  <2>2. prot = wd /\ (wd \/ steps <= MaxSteps)
    BY <1>29, LimitAssumption DEF LimitInv, DriverInv, Within, Snapshot, ReplyAccepted, InCall
  <2>3. Within(Snapshot)'
    BY <1>29, <2>1, <2>2, ChargeWithin DEF LimitInv, ReplyAccepted, pastVars
  <2>4. soft' = Soft
    BY <1>29, DecidedIsFixed DEF LimitInv, ReplyAccepted
  <2>5. CopiesWithin'
    BY <1>29, SameCopies DEF LimitInv, ReplyAccepted
  <2> QED
    BY <1>29, <2>2, <2>3, <2>4, <2>5, LimitAssumption DEF LimitInv, DriverInv, Within, Snapshot,
        ReplyAccepted, InCall, NoCall
<1>30. CASE ReplyRefused
  <2>1. PICK c \in Costs : Charge(c)
    BY <1>30 DEF ReplyRefused
  <2>2. prot = wd /\ (wd \/ steps <= MaxSteps)
    BY <1>30, LimitAssumption DEF LimitInv, DriverInv, Within, Snapshot, ReplyRefused, InCall
  <2>3. Within(Snapshot)'
    BY <1>30, <2>1, <2>2, ChargeWithin DEF LimitInv, ReplyRefused, pastVars
  <2>4. soft' = Soft
    BY <1>30, DecidedIsFixed DEF LimitInv, ReplyRefused
  <2>5. CopiesWithin'
    <3>1. CASE UNCHANGED saveVars
      BY <3>1, SameCopies DEF LimitInv
    <3>2. CASE Save([Snapshot' EXCEPT !.phase = "calling", !.sub = sub])
      <4> DEFINE x == [Snapshot' EXCEPT !.phase = "calling", !.sub = sub]
      <4>1. Within(x)
        BY <2>3 DEF Within, Snapshot, Near
      <4>2. Save(x)
        BY <3>2
      <4> HIDE DEF x
      <4> QED
        BY <4>1, <4>2, SaveWithin DEF LimitInv
    <3> QED
      BY <1>30, <3>1, <3>2 DEF ReplyRefused
  <2> QED
    BY <1>30, <2>2, <2>3, <2>4, <2>5, LimitAssumption DEF LimitInv, DriverInv, Within, Snapshot,
        ReplyRefused, InCall, NoCall, Stop
<1>31. CASE CallStopped
  <2>1. PICK c \in ({0} \cup Costs) : Charge(c)
    BY <1>31 DEF CallStopped
  <2>2. prot = wd /\ (wd \/ steps <= MaxSteps)
    BY <1>31, LimitAssumption DEF LimitInv, DriverInv, Within, Snapshot, CallStopped, InCall
  <2>3. Within(Snapshot)'
    BY <1>31, <2>1, <2>2, ChargeWithin DEF LimitInv, CallStopped, pastVars
  <2>4. soft' = Soft
    BY <1>31, DecidedIsFixed DEF LimitInv, CallStopped, Barred
  <2>5. CopiesWithin'
    BY <1>31, SameCopies DEF LimitInv, CallStopped
  <2> QED
    BY <1>31, <2>2, <2>3, <2>4, <2>5, LimitAssumption DEF LimitInv, DriverInv, Within, Snapshot,
        CallStopped, InCall, NoCall, Stop
<1>32. CASE CallFailed
  <2>1. PICK c \in ({0} \cup Costs) : Charge(c)
    BY <1>32 DEF CallFailed
  <2>2. prot = wd /\ (wd \/ steps <= MaxSteps)
    BY <1>32, LimitAssumption DEF LimitInv, DriverInv, Within, Snapshot, CallFailed, InCall
  <2>3. Within(Snapshot)'
    BY <1>32, <2>1, <2>2, ChargeWithin DEF LimitInv, CallFailed, pastVars
  <2>4. soft' = Soft
    BY <1>32, DecidedIsFixed DEF LimitInv, CallFailed, Barred
  <2>5. CopiesWithin'
    BY <1>32, SameCopies DEF LimitInv, CallFailed
  <2> QED
    BY <1>32, <2>2, <2>3, <2>4, <2>5, LimitAssumption DEF LimitInv, DriverInv, Within, Snapshot,
        CallFailed, InCall, NoCall, Fail
<1>33. CASE LateResult
  <2>1. soft' = Soft /\ prov' = "none" /\ run' = run /\ phase' = phase /\ prov # "none"
    BY <1>33 DEF LimitInv, LateResult, NoCall
  <2>2. prot = wd /\ (wd \/ steps <= MaxSteps)
    BY <1>33, LimitAssumption DEF LimitInv, DriverInv, Within, Snapshot, LateResult
  <2>3. UNCHANGED <<steps, wd, att, turnVars, spare>>
    BY <1>33 DEF LateResult, pastVars
  <2>4. Within(Snapshot)' /\ CopiesWithin'
    <3>1. CASE (\E c \in Costs : Charge(c)) /\ Save(Snapshot')
      <4>1. Within(Snapshot)'
        BY <2>2, <2>3, <3>1, ChargeWithin DEF LimitInv
      <4> QED
        BY <3>1, <4>1, SaveSelf DEF LimitInv
    <3>2. CASE UNCHANGED <<used, resv, saveVars>>
      BY <2>3, <3>2, SameTally, SameCopies DEF LimitInv, windVars
    <3> QED
      BY <1>33, <3>1, <3>2 DEF LateResult
  <2>5. ~(run = "loop" \/ run = "tool" \/ run = "call") /\ (wd' \/ steps' <= MaxSteps)
    BY <1>33, <2>2, <2>3 DEF DriverInv, LateResult
  <2> QED
    BY <2>1, <2>2, <2>3, <2>4, <2>5, LimitAssumption DEF LimitInv, Within, Snapshot
<1>34. CASE CallRetried
  <2>1. PICK c \in ({0} \cup Costs) : Charge(c)
    BY <1>34 DEF CallRetried
  <2>2. prot = wd /\ (wd \/ steps <= MaxSteps)
    BY <1>34, LimitAssumption DEF LimitInv, DriverInv, Within, Snapshot, CallRetried, InCall
  <2>3. Within(Snapshot)'
    BY <1>34, <2>1, <2>2, ChargeWithin DEF LimitInv, CallRetried, pastVars
  <2>4. soft' = Soft
    BY <1>34, DecidedIsFixed DEF LimitInv, CallRetried, Again
  <2>5. CopiesWithin'
    BY <1>34, SameCopies DEF LimitInv, CallRetried
  <2> QED
    BY <1>34, <2>2, <2>3, <2>4, <2>5, LimitAssumption DEF LimitInv, DriverInv, Within, Snapshot,
        CallRetried, InCall
<1>35. CASE UNCHANGED vars
  <2>1. soft' = Soft
    BY <1>35 DEF LimitInv, vars, acctVars
  <2>2. Within(Snapshot)'
    BY <1>35, SameTally DEF LimitInv, vars, acctVars, windVars, turnVars, pastVars
  <2>3. CopiesWithin'
    BY <1>35, SameCopies DEF LimitInv, vars
  <2> QED
    BY <1>35, <2>1, <2>2, <2>3 DEF LimitInv, vars, acctVars, windVars, provVars,
       pastVars, Near
<1> QED
  BY <1>1, <1>2, <1>3, <1>4, <1>5, <1>6, <1>7, <1>8, <1>9, <1>10, <1>11, <1>12, <1>13,
     <1>14, <1>15, <1>16, <1>17, <1>18, <1>19, <1>20, <1>21, <1>22, <1>23, <1>24, <1>25,
     <1>26, <1>27, <1>28, <1>29, <1>30, <1>31, <1>32, <1>33, <1>34, <1>35
     DEF Next, Driver, Provider, Tools, Host

(* For every limit and cost, while the host leaves the soft budget alone a   *)
(* session takes no more steps than its limit and two protected calls, and   *)
(* its reserve pays for two requests at most, over all its turns and         *)
(* restarts.                                                                *)
THEOREM AllowancesHold == FixedBudget => (Spec => []LimitsHold)
<1> SUFFICES ASSUME FixedBudget PROVE Spec => []LimitsHold
  OBVIOUS
<1>1. LimitInv => LimitsHold
  BY LimitAssumption
     DEF LimitInv, Within, Snapshot, LimitsHold, StepLimitHolds, ReservePaysTwice
<1>2. DriverInv /\ LimitInv /\ [Next]_vars => DriverInv' /\ LimitInv'
  BY DriverStep, LimitStep
<1> QED
  BY DriverInit, LimitInit, <1>1, <1>2, PTL DEF Spec

=============================================================================

--------------------------- MODULE MessagingProofs ---------------------------
(***************************************************************************)
(* Two facts about teammate messages, for any number of agents, messages    *)
(* and restarts: an exchange is settled once, and the append of a turn      *)
(* never meets a living run of its session.  What the inboxes hold in which *)
(* order is left to the runs: SelectSeq is a recursion over data.           *)
(***************************************************************************)
EXTENDS Messaging, TLAPS

(* The outstanding exchanges of a step only lose some of those in `un`. *)
OnlyDrops(un) ==
    /\ unans' \in [Aid -> [Aid -> Nat]]
    /\ \A c, d \in Aid : unans'[c][d] \in {NoId, un[c][d]}

Table == [Aid -> [Aid -> Nat]]

(* what a driver has still to drain and to settle names agents *)
WaitsAreNamed ==
    /\ wait \in [Aid -> SUBSET (Aid \X Aid \X Nat)] /\ seats \subseteq Aid
    /\ todo \in [Aid -> SUBSET Aid]

SettleInv == ExchangesAreOpen /\ WaitsAreNamed /\ SettledOnce

-----------------------------------------------------------------------------
(* A drain rejects messages, and drops the exchanges they opened. *)
LEMMA DrainDrops ==
    ASSUME NEW a \in Aid, NEW who, NEW new, NEW un \in Table, Drain(a, who, new, un)
    PROVE  OnlyDrops(un)
<1> DEFINE lost == Ids(inbox[a]) \ Ids(SelectSeq(inbox[a], RouteOk) \o new)
           row == [b \in Aid |-> IF un[a][b] \in lost THEN NoId ELSE un[a][b]]
<1>1. unans' = [un EXCEPT ![a] = row]
  BY DEF Drain
<1>2. row \in [Aid -> Nat] /\ \A d \in Aid : row[d] \in {NoId, un[a][d]}
  BY DEF Table, NoId
<1> HIDE DEF row
<1> QED BY <1>1, <1>2 DEF OnlyDrops, Table

(* An exchange is open for one pair of agents. *)
LEMMA OnePair ==
    ASSUME ExchangesAreOpen, NEW a \in Aid, NEW b \in Aid, NEW c \in Aid, NEW d \in Aid,
           unans[a][b] # NoId, unans[c][d] = unans[a][b]
    PROVE  c = a /\ d = b
<1>1. \A e, f \in Aid : unans[e][f] = unans[a][b] => e = a /\ f = b
  BY DEF ExchangesAreOpen
<1> QED BY <1>1

(* Exchanges may be dropped at any time. *)
LEMMA DropsKeep ==
    ASSUME ExchangesAreOpen, SettledOnce, OnlyDrops(unans),
           UNCHANGED <<about, answered, nextId>>
    PROVE  ExchangesAreOpen' /\ SettledOnce'
<1>1. SettledOnce'
  BY DEF SettledOnce, IsNotice
<1>2. ASSUME NEW a \in Aid, NEW b \in Aid, unans'[a][b] # NoId
      PROVE  /\ unans'[a][b] < nextId /\ unans'[a][b] \notin answered
             /\ \A n \in Id : about[n] # unans'[a][b]
             /\ \A c, d \in Aid : unans'[c][d] = unans'[a][b] => c = a /\ d = b
  <2>1. unans'[a][b] = unans[a][b]
    BY <1>2 DEF OnlyDrops
  <2>2. ASSUME NEW c \in Aid, NEW d \in Aid, unans'[c][d] = unans'[a][b]
        PROVE  c = a /\ d = b
    <3>1. unans'[c][d] = unans[c][d]
      BY <1>2, <2>2 DEF OnlyDrops
    <3>2. unans[a][b] # NoId /\ unans[c][d] = unans[a][b]
      BY <1>2, <2>1, <2>2, <3>1
    <3> QED BY <3>2, OnePair
  <2> QED BY <1>2, <2>1, <2>2 DEF ExchangesAreOpen
<1> QED BY <1>1, <1>2 DEF ExchangesAreOpen, OnlyDrops, IsNotice

(* A notice about an open exchange closes it. *)
LEMMA NoticeKeeps ==
    ASSUME ExchangesAreOpen, SettledOnce, NEW a \in Aid, NEW b \in Aid, NEW p,
           Enqueue(p, unans[a][b]), OnlyDrops([unans EXCEPT ![a][b] = NoId]),
           UNCHANGED answered
    PROVE  ExchangesAreOpen' /\ SettledOnce'
<1> DEFINE x == unans[a][b]
<1>1. /\ nextId \in Id /\ nextId' = nextId + 1
      /\ about' = [about EXCEPT ![nextId] = x] /\ x \in Nat
  BY DEF Enqueue, ExchangesAreOpen
<1>2. \A m \in Id : about'[m] = IF m = nextId THEN x ELSE about[m]
  BY <1>1 DEF ExchangesAreOpen
<1>3. x # NoId => /\ x < nextId /\ x \notin answered
                  /\ \A n \in Id : about[n] # x
  BY DEF ExchangesAreOpen
<1>4. \A c, d \in Aid : unans'[c][d] # NoId =>
          unans'[c][d] = unans[c][d] /\ ~(c = a /\ d = b)
  BY DEF OnlyDrops, ExchangesAreOpen
<1> HIDE DEF x
<1>5. SettledOnce'
  BY <1>1, <1>2, <1>3 DEF SettledOnce, IsNotice
<1>6. ASSUME NEW c \in Aid, NEW d \in Aid, unans'[c][d] # NoId
      PROVE  /\ unans'[c][d] < nextId' /\ unans'[c][d] \notin answered'
             /\ \A n \in Id : about'[n] # unans'[c][d]
             /\ \A e, f \in Aid : unans'[e][f] = unans'[c][d] => e = c /\ f = d
  <2>1. unans'[c][d] = unans[c][d] /\ ~(c = a /\ d = b)
    BY <1>4, <1>6
  <2>2. unans[c][d] # x
    BY <1>6, <2>1 DEF x, ExchangesAreOpen
  <2>3. unans'[c][d] < nextId' /\ unans'[c][d] \notin answered'
    BY <1>1, <1>6, <2>1 DEF ExchangesAreOpen
  <2>4. \A n \in Id : about'[n] # unans'[c][d]
    BY <1>2, <1>6, <2>1, <2>2 DEF ExchangesAreOpen
  <2>5. ASSUME NEW e \in Aid, NEW f \in Aid, unans'[e][f] = unans'[c][d]
        PROVE  e = c /\ f = d
    <3>1. unans'[e][f] = unans[e][f]
      BY <1>4, <1>6, <2>5
    <3>2. unans[c][d] # NoId /\ unans[e][f] = unans[c][d]
      BY <1>6, <2>1, <2>5, <3>1
    <3> QED BY <3>2, OnePair
  <2> QED BY <2>3, <2>4, <2>5
<1>7. /\ nextId' \in Nat \ {0} /\ answered' \subseteq Nat
      /\ unans' \in [Aid -> [Aid -> Nat]] /\ about' \in [Id -> Nat]
  BY <1>1 DEF ExchangesAreOpen, OnlyDrops
<1>8. \A y \in answered' : y < nextId'
  BY <1>1 DEF ExchangesAreOpen
<1>9. \A m \in Id : IsNotice(m)' => m < nextId' /\ about'[m] < nextId'
  BY <1>1, <1>2, <1>3 DEF ExchangesAreOpen, IsNotice
<1> QED BY <1>5, <1>6, <1>7, <1>8, <1>9 DEF ExchangesAreOpen

(* A message answers the exchange that is open the other way, or opens one. *)
LEMMA MessageKeeps ==
    ASSUME ExchangesAreOpen, SettledOnce, NEW a \in Aid, NEW b \in Aid,
           Enqueue(a, NoId), OnlyDrops(Exchange(a, b, nextId)),
           answered' = answered \cup ({unans[a][b]} \ {NoId})
    PROVE  ExchangesAreOpen' /\ SettledOnce'
<1>1. /\ nextId \in Id /\ nextId' = nextId + 1 /\ nextId \in Nat \ {0}
      /\ about' = [about EXCEPT ![nextId] = NoId]
  BY DEF Enqueue, ExchangesAreOpen
<1>2. about' = about
  <2>1. about[nextId] = NoId
    BY <1>1 DEF ExchangesAreOpen, IsNotice
  <2> QED BY <1>1, <2>1 DEF ExchangesAreOpen
<1>3. SettledOnce'
  <2>1. \A m \in Id : IsNotice(m) => about[m] # unans[a][b] \/ unans[a][b] = NoId
    BY DEF ExchangesAreOpen
  <2> QED BY <1>2, <2>1 DEF SettledOnce, IsNotice
<1>4. \A c, d \in Aid : unans'[c][d] # NoId =>
          \/ unans'[c][d] = unans[c][d] /\ (unans[a][b] # NoId => ~(c = a /\ d = b))
          \/ unans'[c][d] = nextId /\ c = b /\ d = a /\ unans[a][b] = NoId
  <2>1. CASE unans[a][b] # NoId
    BY <2>1 DEF OnlyDrops, Exchange, ExchangesAreOpen
  <2>2. CASE unans[a][b] = NoId
    BY <2>2 DEF OnlyDrops, Exchange, ExchangesAreOpen
  <2> QED BY <2>1, <2>2
<1>5. ASSUME NEW c \in Aid, NEW d \in Aid, unans'[c][d] # NoId
      PROVE  /\ unans'[c][d] < nextId' /\ unans'[c][d] \notin answered'
             /\ \A n \in Id : about'[n] # unans'[c][d]
             /\ \A e, f \in Aid : unans'[e][f] = unans'[c][d] => e = c /\ f = d
  <2>1. CASE unans'[c][d] = unans[c][d] /\ (unans[a][b] # NoId => ~(c = a /\ d = b))
    <3>1. unans[c][d] < nextId /\ unans[c][d] \in Nat
      BY <1>5, <2>1 DEF ExchangesAreOpen
    <3>2. unans'[c][d] \notin answered'
      BY <1>5, <2>1 DEF ExchangesAreOpen
    <3>3. \A n \in Id : about'[n] # unans'[c][d]
      BY <1>2, <1>5, <2>1 DEF ExchangesAreOpen
    <3>4. ASSUME NEW e \in Aid, NEW f \in Aid, unans'[e][f] = unans'[c][d]
          PROVE  e = c /\ f = d
      <4>1. unans'[e][f] = unans[e][f]
        BY <1>1, <1>4, <1>5, <2>1, <3>1, <3>4
      <4>2. unans[c][d] # NoId /\ unans[e][f] = unans[c][d]
        BY <1>5, <2>1, <3>4, <4>1
      <4> QED BY <4>2, OnePair
    <3> QED BY <1>1, <2>1, <3>1, <3>2, <3>3, <3>4
  <2>2. CASE unans'[c][d] = nextId /\ c = b /\ d = a /\ unans[a][b] = NoId
    <3>1. nextId \notin answered' /\ \A n \in Id : about'[n] # nextId
      BY <1>1, <1>2, <2>2 DEF ExchangesAreOpen, IsNotice, NoId
    <3>2. ASSUME NEW e \in Aid, NEW f \in Aid, unans'[e][f] = nextId
          PROVE  e = c /\ f = d
      <4>1. unans[e][f] # NoId => unans[e][f] < nextId /\ unans[e][f] \in Nat
        BY DEF ExchangesAreOpen
      <4> QED BY <1>1, <1>4, <1>5, <2>2, <3>2, <4>1
    <3> QED BY <1>1, <2>2, <3>1, <3>2
  <2> QED BY <1>4, <1>5, <2>1, <2>2
<1>6. /\ nextId' \in Nat \ {0} /\ answered' \subseteq Nat
      /\ unans' \in [Aid -> [Aid -> Nat]] /\ about' \in [Id -> Nat]
  <2>1. unans[a][b] \in Nat /\ answered \subseteq Nat
    BY DEF ExchangesAreOpen
  <2>2. answered' \subseteq Nat
    BY <2>1
  <2>3. nextId' \in Nat \ {0}
    BY <1>1
  <2>4. about' \in [Id -> Nat]
    BY <1>2 DEF ExchangesAreOpen
  <2> QED BY <2>2, <2>3, <2>4 DEF OnlyDrops
<1>7. \A y \in answered' : y < nextId'
  BY <1>1 DEF ExchangesAreOpen
<1>8. \A m \in Id : IsNotice(m)' => m < nextId' /\ about'[m] < nextId'
  BY <1>1, <1>2 DEF ExchangesAreOpen, IsNotice
<1> QED BY <1>3, <1>5, <1>6, <1>7, <1>8 DEF ExchangesAreOpen

(* What settling an exchange does to it: nobody is left to be told, a       *)
(* notice is sent, or nothing.                                              *)
LEMMA NotifySplits ==
    ASSUME NEW a \in Aid, NEW b \in Aid, NEW x, NEW who, Notify(a, b, x, who)
    PROVE  \/ /\ unans' = [unans EXCEPT ![a][b] = NoId]
              /\ UNCHANGED <<boxVars, phase, appVars, about, answered, nextId>>
           \/ /\ unans[a][b] = x /\ Enqueue(a, x) /\ UNCHANGED answered
              /\ Drain(b, who, <<nextId>>, [unans EXCEPT ![a][b] = NoId])
           \/ UNCHANGED <<boxVars, phase, appVars, noteVars>>
<1> DEFINE valid == /\ unans[a][b] = x /\ phase[a] \in Failed
                    /\ ~(a \notin hold /\ x \in Ids(inbox[a])) /\ ~shutting
           moot  == b \notin seats \/ phase[b] \in Failed
           room  == Len(inbox[b]) < MaxInbox /\ nextId \in Id
<1>1. CASE valid /\ moot
  BY <1>1 DEF Notify
<1>2. CASE valid /\ ~moot /\ room
  BY <1>2 DEF Notify
<1>3. CASE ~(valid /\ moot) /\ ~(valid /\ ~moot /\ room)
  BY <1>3 DEF Notify
<1> QED BY <1>1, <1>2, <1>3

LEMMA RedrainSettles ==
    ASSUME ExchangesAreOpen, SettledOnce, NEW a \in Aid, NEW who, Redrain(a, who)
    PROVE  ExchangesAreOpen' /\ SettledOnce'
<1>1. OnlyDrops(unans)
  BY DrainDrops DEF Redrain, Table, ExchangesAreOpen
<1> QED BY <1>1, DropsKeep DEF Redrain

LEMMA NotifySettles ==
    ASSUME ExchangesAreOpen, SettledOnce, NEW a \in Aid, NEW b \in Aid, NEW x, NEW who,
           Notify(a, b, x, who)
    PROVE  ExchangesAreOpen' /\ SettledOnce'
<1>1. [unans EXCEPT ![a][b] = NoId] \in Table
  BY DEF ExchangesAreOpen, Table, NoId
<1>2. CASE /\ unans' = [unans EXCEPT ![a][b] = NoId]
           /\ UNCHANGED <<about, answered, nextId>>
  <2>1. OnlyDrops(unans)
    BY <1>1, <1>2 DEF OnlyDrops, Table, ExchangesAreOpen
  <2> QED BY <1>2, <2>1, DropsKeep
<1>3. CASE /\ unans[a][b] = x /\ Enqueue(a, x) /\ UNCHANGED answered
           /\ Drain(b, who, <<nextId>>, [unans EXCEPT ![a][b] = NoId])
  <2>1. OnlyDrops([unans EXCEPT ![a][b] = NoId])
    BY <1>1, <1>3, DrainDrops
  <2>2. Enqueue(a, unans[a][b])
    BY <1>3
  <2> QED BY <1>3, <2>1, <2>2, NoticeKeeps
<1>4. CASE UNCHANGED noteVars
  BY <1>4 DEF noteVars, ExchangesAreOpen, SettledOnce, IsNotice
<1> QED BY <1>2, <1>3, <1>4, NotifySplits DEF noteVars

LEMMA SendSettles ==
    ASSUME ExchangesAreOpen, SettledOnce, NEW a \in Aid, NEW b \in Aid, Send(a, b)
    PROVE  ExchangesAreOpen' /\ SettledOnce'
<1>1. Exchange(a, b, nextId) \in Table
  BY DEF ExchangesAreOpen, Table, NoId, Exchange
<1>2. OnlyDrops(Exchange(a, b, nextId))
  BY <1>1, DrainDrops DEF Send
<1>3. Enqueue(a, NoId) /\ answered' = answered \cup ({unans[a][b]} \ {NoId})
  BY DEF Send
<1> QED BY <1>2, <1>3, MessageKeeps

-----------------------------------------------------------------------------
(* The exchanges of existing agents name existing agents. *)
LEMMA OutstandingIsNamed ==
    ASSUME ExchangesAreOpen, NEW S \in SUBSET Aid
    PROVE  Outstanding(S) \in SUBSET (Aid \X Aid \X Nat)
BY DEF Outstanding, ExchangesAreOpen

LEMMA StoppedIsNamed ==
    ASSUME ExchangesAreOpen, WaitsAreNamed
    PROVE  Outstanding({x \in seats : phase[x] \in Failed}) \in SUBSET (Aid \X Aid \X Nat)
<1>1. {x \in seats : phase[x] \in Failed} \in SUBSET Aid
  BY DEF WaitsAreNamed
<1> QED BY <1>1, OutstandingIsNamed

LEMMA WaitsStayNamed ==
    ASSUME ExchangesAreOpen, WaitsAreNamed, [Next]_vars
    PROVE  WaitsAreNamed'
<1> USE DEF WaitsAreNamed
<1>1. ASSUME NEW a \in Aid, Finalize(a) PROVE WaitsAreNamed'
  <2>1. {a} \in SUBSET Aid
    OBVIOUS
  <2>2. Outstanding({a}) \in SUBSET (Aid \X Aid \X Nat)
    BY <2>1, OutstandingIsNamed
  <2> QED BY <1>1, <2>2 DEF Finalize, teamVars
<1>2. ASSUME NEW a \in Aid, SweepDone(a) PROVE WaitsAreNamed'
  BY <1>2, StoppedIsNamed DEF SweepDone, teamVars
<1>3. ASSUME NEW a \in Aid, NotifyNext(a) PROVE WaitsAreNamed'
  <2>1. PICK t \in wait[a] : wait' = [wait EXCEPT ![a] = @ \ {t}]
    BY <1>3 DEF NotifyNext
  <2> QED BY <1>3, <2>1 DEF NotifyNext, teamVars
<1>4. ASSUME NEW a \in Aid, Kill(a) PROVE WaitsAreNamed'
  BY <1>4 DEF Kill, teamVars
<1>5. CASE Crash
  BY <1>5 DEF Crash
<1>6. CASE UNCHANGED <<wait, seats, todo>>
  BY <1>6
<1>7. ASSUME NEW a \in Aid, TailSweep(a) \/ TailNotify(a) \/ TailDone(a) \/ EnterLoop(a)
                            \/ (\E p \in Terminal : EndRun(a, p)) \/ NotifyDone(a)
      PROVE UNCHANGED <<wait, seats, todo>>
  BY <1>7 DEF TailSweep, TailNotify, TailDone, EnterLoop, EndRun, NotifyDone,
              jobVars, teamVars
<1>8. ASSUME NEW a \in Aid, AppendStep(a) \/ AppendFails(a) \/ OwnerSettles(a)
      PROVE UNCHANGED <<wait, seats, todo>>
  BY <1>8 DEF AppendStep, FinishDelivery, FinishUser, AppendFails, OwnerSettles,
              jobVars, teamVars
<1>9. ASSUME NEW a \in Aid, NEW b \in Aid, Send(a, b) PROVE UNCHANGED <<wait, seats, todo>>
  BY <1>9 DEF Send, jobVars, teamVars
<1>10. CASE StartTurn \/ RequestCancel \/ TurnStep
  <2>1. CASE StartTurn \/ RequestCancel
    BY <1>6, <2>1 DEF StartTurn, RequestCancel, jobVars, teamVars
  <2>2. CASE TurnStep
    BY <1>6, <2>2 DEF TurnStep, TurnDrain, AcceptTurn, WaitDone, EndTurn, TurnSweep, TurnNotify,
                      StallTurn, jobVars, teamVars
  <2> QED BY <1>10, <2>1, <2>2
<1>11. CASE SpendAll \/ Save \/ Shutdown \/ KillTurn \/ Finished \/ UNCHANGED vars
  BY <1>6, <1>11 DEF SpendAll, Save, Shutdown, KillTurn, Finished, vars, jobVars, teamVars
<1>12. ASSUME NEW a \in Aid, OwnDrain(a) PROVE WaitsAreNamed'
  <2>1. UNCHANGED <<wait, seats>>
    BY <1>12 DEF OwnDrain, teamVars
  <2>2. \E S \in SUBSET Aid : todo' = [todo EXCEPT ![a] = S]
    <3>1. todo' = todo \/ todo' = [todo EXCEPT ![a] = {b \in Aid : inbox'[b] # <<>>}]
      BY <1>12 DEF OwnDrain
    <3>2. todo = [todo EXCEPT ![a] = todo[a]] /\ todo[a] \in SUBSET Aid
      OBVIOUS
    <3>3. {b \in Aid : inbox'[b] # <<>>} \in SUBSET Aid
      OBVIOUS
    <3> HIDE DEF WaitsAreNamed
    <3> QED BY <3>1, <3>2, <3>3
  <2> QED BY <2>1, <2>2
<1>13. ASSUME NEW a \in Aid, Sweep(a) PROVE WaitsAreNamed'
  <2>1. PICK b \in todo[a] : todo' = [todo EXCEPT ![a] = @ \ {b}]
    BY <1>13 DEF Sweep
  <2> QED BY <1>13, <2>1 DEF Sweep, teamVars
<1> QED
  BY <1>1, <1>2, <1>3, <1>4, <1>5, <1>6, <1>7, <1>8, <1>9, <1>10, <1>11, <1>12, <1>13
     DEF Next, DriverStep

LEMMA SettleStarts == Init => SettleInv
<1> SUFFICES ASSUME Init PROVE SettleInv
  OBVIOUS
<1>1. ExchangesAreOpen /\ SettledOnce
  BY DEF Init, ExchangesAreOpen, SettledOnce, IsNotice, NoId
<1>2. WaitsAreNamed
  BY DEF Init, WaitsAreNamed
<1> QED BY <1>1, <1>2 DEF SettleInv

LEMMA SettleKept ==
    ASSUME SettleInv, [Next]_vars
    PROVE  SettleInv'
<1> DEFINE Goal == ExchangesAreOpen' /\ SettledOnce'
<1>0. ExchangesAreOpen /\ SettledOnce /\ WaitsAreNamed
  BY DEF SettleInv
<1> SUFFICES Goal
  BY <1>0, WaitsStayNamed DEF SettleInv
<1>1. UNCHANGED noteVars => Goal
  BY <1>0 DEF noteVars, ExchangesAreOpen, SettledOnce, IsNotice
<1>2. ASSUME NEW a \in Aid, TailSweep(a) \/ OwnDrain(a) \/ Sweep(a) PROVE Goal
  <2>1. CASE TailSweep(a)
    <3>1. PICK b \in Aid : Redrain(b, Old)
      BY <2>1 DEF TailSweep
    <3> QED BY <1>0, <3>1, RedrainSettles
  <2>2. CASE OwnDrain(a)
    BY <1>0, <2>2, RedrainSettles DEF OwnDrain
  <2>3. CASE Sweep(a)
    <3>1. PICK b \in todo[a] : Redrain(b, a)
      BY <2>3 DEF Sweep
    <3>2. b \in Aid
      BY <1>0 DEF WaitsAreNamed
    <3> QED BY <1>0, <3>1, <3>2, RedrainSettles
  <2> QED BY <1>2, <2>1, <2>2, <2>3
<1>3. ASSUME NEW a \in Aid, TailNotify(a) PROVE Goal
  <2>1. PICK t \in Outstanding({x \in seats : phase[x] \in Failed}) :
              Notify(t[1], t[2], t[3], Old)
    BY <1>3 DEF TailNotify
  <2>2. t \in Aid \X Aid \X Nat
    BY <1>0, StoppedIsNamed, <2>1
  <2> QED BY <1>0, <2>1, <2>2, NotifySettles
<1>4. ASSUME NEW a \in Aid, NotifyNext(a) PROVE Goal
  <2>1. PICK t \in wait[a] : Notify(t[1], t[2], t[3], a)
    BY <1>4 DEF NotifyNext
  <2>2. t \in Aid \X Aid \X Nat
    BY <1>0 DEF WaitsAreNamed
  <2> QED BY <1>0, <2>1, <2>2, NotifySettles
<1>5. ASSUME NEW a \in Aid, NEW b \in Aid, Send(a, b) PROVE Goal
  BY <1>0, <1>5, SendSettles
<1>6. CASE TurnDrain \/ TurnSweep
  <2>1. 0 \in Aid
    BY BoundsAssumption DEF Aid
  <2>2. CASE TurnDrain
    BY <1>0, <2>1, <2>2, RedrainSettles DEF TurnDrain
  <2>3. CASE TurnSweep
    <3>1. PICK b \in Movable : Redrain(b, Turn)
      BY <2>3 DEF TurnSweep
    <3>2. b \in Aid
      BY <1>0 DEF Movable, WaitsAreNamed
    <3> QED BY <1>0, <3>1, <3>2, RedrainSettles
  <2> QED BY <1>6, <2>2, <2>3
<1>7. CASE TurnNotify
  <2>1. PICK t \in Payable : Notify(t[1], t[2], t[3], Turn)
    BY <1>7 DEF TurnNotify
  <2>2. t \in Outstanding({x \in seats : phase[x] \in Failed})
    BY DEF Payable
  <2>3. t \in Aid \X Aid \X Nat
    BY <1>0, <2>2, StoppedIsNamed
  <2> QED BY <1>0, <2>1, <2>3, NotifySettles
<1>8. CASE Crash
  <2>1. unans' = [a \in Aid |-> [b \in Aid |-> NoId]]
    BY <1>8 DEF Crash
  <2>3. OnlyDrops(unans)
    BY <2>1 DEF OnlyDrops, NoId
  <2>2. UNCHANGED <<about, answered, nextId>>
    BY <1>8 DEF Crash
  <2> QED BY <1>0, <2>2, <2>3, DropsKeep
<1>9. ASSUME NEW a \in Aid, TailDone(a) \/ EnterLoop(a) \/ (\E p \in Terminal : EndRun(a, p))
                            \/ Finalize(a) \/ NotifyDone(a) \/ SweepDone(a)
      PROVE UNCHANGED noteVars
  BY <1>9 DEF TailDone, EnterLoop, EndRun, Finalize, NotifyDone, SweepDone
<1>10. ASSUME NEW a \in Aid, AppendStep(a) \/ AppendFails(a) \/ OwnerSettles(a) \/ Kill(a)
       PROVE UNCHANGED noteVars
  BY <1>10 DEF AppendStep, FinishDelivery, FinishUser, AppendFails, OwnerSettles, Kill
<1>11. CASE StartTurn \/ RequestCancel \/ AcceptTurn \/ WaitDone \/ EndTurn \/ StallTurn
  BY <1>1, <1>11 DEF StartTurn, RequestCancel, AcceptTurn, WaitDone, EndTurn, StallTurn
<1>12. CASE SpendAll \/ Save \/ Shutdown \/ KillTurn \/ Finished \/ UNCHANGED vars
  BY <1>1, <1>12 DEF SpendAll, Save, Shutdown, KillTurn, Finished, vars
<1> HIDE DEF Goal
<1> QED
  BY <1>1, <1>2, <1>3, <1>4, <1>5, <1>6, <1>7, <1>8, <1>9, <1>10, <1>11, <1>12
     DEF Next, DriverStep, TurnStep

(* An exchange is settled once: a sender is told at most once that nobody   *)
(* will answer, and never after an answer (notify_unanswered_senders),      *)
(* whichever of the tasks that settle it comes first.                       *)
THEOREM ExchangesSettleOnce == Spec => []SettledOnce
<1>1. SettleInv /\ [Next]_vars => SettleInv'
  BY SettleKept
<1>2. SettleInv => SettledOnce
  BY DEF SettleInv
<1> QED BY SettleStarts, <1>1, <1>2, PTL DEF Spec

-----------------------------------------------------------------------------
(* Whose append is open                                                     *)

(* A delivery opens its append only where nobody else is alive. *)
LEMMA DrainIsAlone ==
    ASSUME AppendsAreAlone, NEW a \in Aid, NEW who \in Nat, NEW new, NEW un,
           Drain(a, who, new, un), UNCHANGED <<job, owner>>
    PROVE  AppendsAreAlone'
<1> DEFINE kept == SelectSeq(inbox[a], RouteOk) \o new
           n == Shorter(MaxBatch, Len(kept))
           go == kept # <<>> /\ ~Holds(a) /\ CanStart(a, who)
<1>1. CASE go
  <2>1. /\ ext' = [ext EXCEPT ![a] = TRUE] /\ phase' = [phase EXCEPT ![a] = "idle"]
        /\ app' = [app EXCEPT ![a] = "msg"] /\ by' = [by EXCEPT ![a] = who]
        /\ saved' = [saved EXCEPT ![a] = phase[a]]
    BY <1>1 DEF Drain
  <2>2. a \notin owner /\ (job[a] = "none" \/ (who = a /\ job[a] \in {"own", "late"}))
    BY <1>1 DEF CanStart, Accepts, Free
  <2>3. /\ app' \in [Aid -> {"free", "msg", "user"}]
        /\ phase' \in [Aid -> Phase] /\ saved' \in [Aid -> Phase] /\ job' \in [Aid -> Job]
        /\ by' \in [Aid -> Nat] /\ ext' \in [Aid -> BOOLEAN]
    BY <2>1 DEF AppendsAreAlone, Phase
  <2>4. ASSUME NEW b \in Aid, app'[b] # "free"
        PROVE  /\ phase'[b] = "idle" /\ ext'[b] /\ b \notin owner'
               /\ job'[b] = "none" \/ (app'[b] = "msg" /\ by'[b] = b /\ job'[b] \in {"own", "late"})
    <3>1. CASE b = a
      BY <2>1, <2>2, <3>1 DEF AppendsAreAlone
    <3>2. CASE b # a
      BY <2>1, <2>4, <3>2 DEF AppendsAreAlone
    <3> QED BY <3>1, <3>2
  <2> QED BY <2>3, <2>4 DEF AppendsAreAlone
<1>2. CASE ~go
  <2>1. UNCHANGED <<hist, ext, phase, appVars>>
    BY <1>2 DEF Drain
  <2> QED BY <2>1 DEF appVars, AppendsAreAlone
<1> QED BY <1>1, <1>2

LEMMA NotifyIsAlone ==
    ASSUME AppendsAreAlone, NEW a \in Aid, NEW b \in Aid, NEW x, NEW who \in Nat,
           Notify(a, b, x, who), UNCHANGED <<job, owner>>
    PROVE  AppendsAreAlone'
<1>1. CASE UNCHANGED <<boxVars, phase, appVars>>
  BY <1>1 DEF boxVars, appVars, AppendsAreAlone
<1>2. CASE Drain(b, who, <<nextId>>, [unans EXCEPT ![a][b] = NoId])
  BY <1>2, DrainIsAlone
<1> QED BY <1>1, <1>2, NotifySplits

(* An append that ends, well or badly, leaves nothing open. *)
LEMMA FreedIsAlone ==
    ASSUME AppendsAreAlone, NEW a \in Aid, app' = [app EXCEPT ![a] = "free"],
           by' \in [Aid -> Nat], job' \in [Aid -> Job], ext' \in [Aid -> BOOLEAN],
           phase' \in [Aid -> Phase], saved' \in [Aid -> Phase],
           \A b \in Aid : b # a => /\ by'[b] = by[b] /\ job'[b] = job[b]
                                  /\ ext'[b] = ext[b] /\ phase'[b] = phase[b],
           owner' = owner
    PROVE  AppendsAreAlone'
<1>1. ASSUME NEW b \in Aid, app'[b] # "free"
      PROVE  b # a /\ app'[b] = app[b]
  BY <1>1 DEF AppendsAreAlone
<1>2. ASSUME NEW b \in Aid, app'[b] # "free"
      PROVE  /\ phase'[b] = "idle" /\ ext'[b] /\ b \notin owner'
             /\ job'[b] = "none" \/ (app'[b] = "msg" /\ by'[b] = b /\ job'[b] \in {"own", "late"})
  BY <1>1, <1>2 DEF AppendsAreAlone
<1>3. app' \in [Aid -> {"free", "msg", "user"}]
  BY DEF AppendsAreAlone
<1> QED BY <1>2, <1>3 DEF AppendsAreAlone

(* A driver that moves on: no append is open on its session. *)
LEMMA DriverIsAlone ==
    ASSUME AppendsAreAlone, NEW a \in Aid, app[a] = "free",
           UNCHANGED <<app, by, saved>>,
           job' \in [Aid -> Job], ext' \in [Aid -> BOOLEAN], phase' \in [Aid -> Phase],
           \A b \in Aid : b # a => /\ job'[b] = job[b] /\ ext'[b] = ext[b]
                                  /\ phase'[b] = phase[b],
           owner' \subseteq owner \cup {a}
    PROVE  AppendsAreAlone'
<1>1. ASSUME NEW b \in Aid, app'[b] # "free"
      PROVE  /\ phase'[b] = "idle" /\ ext'[b] /\ b \notin owner'
             /\ job'[b] = "none" \/ (app'[b] = "msg" /\ by'[b] = b /\ job'[b] \in {"own", "late"})
  <2>1. b # a /\ app[b] # "free"
    BY <1>1
  <2> QED BY <2>1 DEF AppendsAreAlone
<1> QED BY <1>1 DEF AppendsAreAlone

(* The user's message is appended to a session without a driver. *)
LEMMA UserIsAlone ==
    ASSUME AppendsAreAlone, 0 \in Aid, AcceptUser, job[0] = "none", UNCHANGED <<job, owner>>
    PROVE  AppendsAreAlone'
<1>1. CASE Accepts(0) /\ funded
  <2>1. /\ ext' = [ext EXCEPT ![0] = TRUE] /\ phase' = [phase EXCEPT ![0] = "idle"]
        /\ app' = [app EXCEPT ![0] = "user"] /\ by' = [by EXCEPT ![0] = Turn]
        /\ saved' = [saved EXCEPT ![0] = phase[0]] /\ 0 \notin owner
    BY <1>1 DEF AcceptUser, Accepts
  <2>2. Turn \in Nat
    BY BoundsAssumption DEF Turn
  <2>3. /\ app' \in [Aid -> {"free", "msg", "user"}]
        /\ phase' \in [Aid -> Phase] /\ saved' \in [Aid -> Phase] /\ job' \in [Aid -> Job]
        /\ by' \in [Aid -> Nat] /\ ext' \in [Aid -> BOOLEAN]
    BY <2>1, <2>2 DEF AppendsAreAlone, Phase
  <2>4. ASSUME NEW b \in Aid, app'[b] # "free"
        PROVE  /\ phase'[b] = "idle" /\ ext'[b] /\ b \notin owner'
               /\ job'[b] = "none" \/ (app'[b] = "msg" /\ by'[b] = b /\ job'[b] \in {"own", "late"})
    <3>1. CASE b = 0
      BY <2>1, <3>1 DEF AppendsAreAlone
    <3>2. CASE b # 0
      BY <2>1, <2>4, <3>2 DEF AppendsAreAlone
    <3> QED BY <3>1, <3>2
  <2> QED BY <2>3, <2>4 DEF AppendsAreAlone
<1>2. CASE ~(Accepts(0) /\ funded)
  <2>1. UNCHANGED <<ext, phase, appVars>>
    BY <1>2 DEF AcceptUser
  <2> QED BY <2>1 DEF appVars, AppendsAreAlone
<1> QED BY <1>1, <1>2

LEMMA ProceedIsAlone ==
    ASSUME AppendsAreAlone, 0 \in Aid, Proceed, job[0] = "none", UNCHANGED <<job, owner>>
    PROVE  AppendsAreAlone'
<1>1. CASE AcceptUser
  BY <1>1, UserIsAlone
<1>2. CASE UNCHANGED <<ext, phase, appVars>>
  BY <1>2 DEF appVars, AppendsAreAlone
<1> QED BY <1>1, <1>2 DEF Proceed

-----------------------------------------------------------------------------
(* The steps of drivers. *)
LEMMA DriversAreAlone ==
    ASSUME AppendsAreAlone, WaitsAreNamed, NEW a \in Aid, DriverStep(a)
    PROVE  AppendsAreAlone'
<1>0. a \in Nat
  BY BoundsAssumption DEF Aid
<1>1. job[a] \notin {"none", "own", "late"} => app[a] = "free"
  BY DEF AppendsAreAlone
<1>2. CASE EnterLoop(a)
  <2>1. app[a] = "free" /\ UNCHANGED <<app, by, saved, owner>>
    BY <1>1, <1>2 DEF EnterLoop, appVars, teamVars
  <2>2. /\ job' = [job EXCEPT ![a] = "run"] /\ ext' = [ext EXCEPT ![a] = FALSE]
        /\ phase' = [phase EXCEPT ![a] = "running"]
    BY <1>2 DEF EnterLoop
  <2>3. job' \in [Aid -> Job] /\ ext' \in [Aid -> BOOLEAN] /\ phase' \in [Aid -> Phase]
    BY <2>2 DEF AppendsAreAlone, Job, Phase
  <2>4. \A b \in Aid : b # a => job'[b] = job[b] /\ ext'[b] = ext[b] /\ phase'[b] = phase[b]
    BY <2>2 DEF AppendsAreAlone
  <2> QED BY <2>1, <2>3, <2>4, DriverIsAlone
<1>3. ASSUME NEW p \in Terminal, EndRun(a, p) PROVE AppendsAreAlone'
  <2>1. app[a] = "free" /\ UNCHANGED <<app, by, saved, ext>>
    BY <1>1, <1>3 DEF EndRun, appVars, boxVars
  <2>2. job' = [job EXCEPT ![a] = "ended"] /\ phase' = [phase EXCEPT ![a] = p]
    BY <1>3 DEF EndRun
  <2>3. job' \in [Aid -> Job] /\ ext' \in [Aid -> BOOLEAN] /\ phase' \in [Aid -> Phase]
    BY <2>1, <2>2 DEF AppendsAreAlone, Job, Phase
  <2>4. \A b \in Aid : b # a => job'[b] = job[b] /\ ext'[b] = ext[b] /\ phase'[b] = phase[b]
    BY <2>1, <2>2 DEF AppendsAreAlone
  <2>5. owner' \subseteq owner \cup {a}
    BY <1>3 DEF EndRun
  <2> QED BY <2>1, <2>3, <2>4, <2>5, DriverIsAlone
<1>4. CASE Finalize(a) \/ NotifyDone(a) \/ SweepDone(a)
  <2>1. app[a] = "free" /\ UNCHANGED <<app, by, saved, ext, owner>>
    BY <1>1, <1>4 DEF Finalize, NotifyDone, SweepDone, appVars, boxVars, teamVars
  <2>2. PICK j \in Job : job' = [job EXCEPT ![a] = j]
    <3>1. CASE Finalize(a)
      <4>1. job' = [job EXCEPT ![a] = "notify"] \/ job' = [job EXCEPT ![a] = "own"]
        BY <3>1 DEF Finalize
      <4> QED BY <4>1 DEF Job
    <3>2. Last(a) \in Job /\ {"own", "owed"} \subseteq Job
      BY DEF Last, Job
    <3>3. CASE NotifyDone(a)
      <4>1. job' = [job EXCEPT ![a] = "own"] \/ job' = [job EXCEPT ![a] = Last(a)]
        BY <3>3 DEF NotifyDone, AppendsAreAlone
      <4> QED BY <3>2, <4>1
    <3>4. CASE SweepDone(a)
      <4>1. job' = [job EXCEPT ![a] = "owed"] \/ job' = [job EXCEPT ![a] = Last(a)]
        BY <3>4 DEF SweepDone
      <4> QED BY <3>2, <4>1
    <3> QED BY <1>4, <3>1, <3>3, <3>4
  <2>3. phase' \in [Aid -> Phase] /\ \A b \in Aid : b # a => phase'[b] = phase[b]
    BY <1>4 DEF Finalize, NotifyDone, SweepDone, AppendsAreAlone, Phase, Terminal, Failed
  <2>4. job' \in [Aid -> Job] /\ ext' \in [Aid -> BOOLEAN]
    BY <2>1, <2>2 DEF AppendsAreAlone
  <2>5. \A b \in Aid : b # a => job'[b] = job[b] /\ ext'[b] = ext[b] /\ phase'[b] = phase[b]
    BY <2>1, <2>2, <2>3 DEF AppendsAreAlone
  <2>6. owner' \subseteq owner \cup {a}
    BY <2>1
  <2> QED BY <2>1, <2>3, <2>4, <2>5, <2>6, DriverIsAlone
<1>5. CASE NotifyNext(a)
  <2>1. PICK t \in wait[a] : Notify(t[1], t[2], t[3], a)
    BY <1>5 DEF NotifyNext
  <2>2. t \in Aid \X Aid \X Nat
    BY DEF WaitsAreNamed
  <2>3. UNCHANGED <<job, owner>>
    BY <1>5 DEF NotifyNext, teamVars
  <2> QED BY <1>0, <2>1, <2>2, <2>3, NotifyIsAlone
<1>6. CASE Sweep(a)
  <2>1. PICK b \in todo[a] : Redrain(b, a)
    BY <1>6 DEF Sweep
  <2>2. b \in Aid
    BY DEF WaitsAreNamed
  <2>3. UNCHANGED <<job, owner>>
    BY <1>6 DEF Sweep, teamVars
  <2> QED BY <1>0, <2>1, <2>2, <2>3, DrainIsAlone DEF Redrain
<1>7. CASE OwnDrain(a)
  <2>1. app[a] = "free" /\ owner' = owner /\ Drain(a, a, <<>>, unans)
    BY <1>7 DEF OwnDrain, Redrain, Unlocked, teamVars, AppendsAreAlone
  <2>2. CASE app'[a] = "msg"
    <3>1. job' = job
      BY <1>7, <2>2 DEF OwnDrain
    <3> QED BY <1>0, <2>1, <3>1, DrainIsAlone
  <2>3. CASE app'[a] # "msg"
    <3>1. UNCHANGED <<hist, ext, phase, appVars>>
      BY <2>1, <2>3 DEF Drain, AppendsAreAlone
    <3>2. PICK j \in Job : job' = [job EXCEPT ![a] = j]
      BY <1>7, <2>3 DEF OwnDrain, Job
    <3>3. job' \in [Aid -> Job] /\ \A b \in Aid : b # a => job'[b] = job[b]
      BY <3>2 DEF AppendsAreAlone
    <3>4. ext' \in [Aid -> BOOLEAN] /\ phase' \in [Aid -> Phase] /\ UNCHANGED <<app, by, saved>>
      BY <3>1 DEF AppendsAreAlone, appVars
    <3>5. \A b \in Aid : b # a => job'[b] = job[b] /\ ext'[b] = ext[b] /\ phase'[b] = phase[b]
      BY <3>1, <3>3
    <3>6. owner' \subseteq owner \cup {a}
      BY <2>1
    <3> QED BY <2>1, <3>3, <3>4, <3>5, <3>6, DriverIsAlone
  <2> QED BY <2>2, <2>3
<1> QED BY <1>2, <1>3, <1>4, <1>5, <1>6, <1>7 DEF DriverStep

(* The steps that end an append. *)
LEMMA EndsAreAlone ==
    ASSUME AppendsAreAlone, NEW a \in Aid, AppendStep(a) \/ AppendFails(a)
    PROVE  AppendsAreAlone'
<1>1. None \in Nat /\ "new" \in Job /\ "idle" \in Phase
  BY BoundsAssumption DEF None, Job, Phase
<1>2. CASE FinishDelivery(a)
  <2>1. /\ app' = [app EXCEPT ![a] = "free"] /\ by' = [by EXCEPT ![a] = None]
        /\ saved' = [saved EXCEPT ![a] = "idle"] /\ UNCHANGED <<ext, phase, owner>>
        /\ job' = job \/ job' = [job EXCEPT ![a] = "new"]
    BY <1>2 DEF FinishDelivery, teamVars
  <2> QED BY <1>1, <2>1, FreedIsAlone DEF AppendsAreAlone
<1>3. CASE a = 0 /\ FinishUser
  <2>1. /\ app' = [app EXCEPT ![a] = "free"] /\ by' = [by EXCEPT ![a] = None]
        /\ saved' = [saved EXCEPT ![a] = "idle"] /\ UNCHANGED <<ext, phase, owner>>
        /\ job' = job \/ job' = [job EXCEPT ![a] = "new"]
    BY <1>3 DEF FinishUser, boxVars, teamVars
  <2> QED BY <1>1, <2>1, FreedIsAlone DEF AppendsAreAlone
<1>4. CASE AppendFails(a)
  <2>1. /\ app' = [app EXCEPT ![a] = "free"] /\ by' = [by EXCEPT ![a] = None]
        /\ saved' = [saved EXCEPT ![a] = "idle"] /\ ext' = [ext EXCEPT ![a] = FALSE]
        /\ phase' = [phase EXCEPT ![a] = saved[a]] /\ UNCHANGED <<job, owner>>
    BY <1>4 DEF AppendFails, jobVars, teamVars
  <2>2. saved[a] \in Phase
    BY DEF AppendsAreAlone
  <2> QED BY <1>1, <2>1, <2>2, FreedIsAlone DEF AppendsAreAlone
<1> QED BY <1>2, <1>3, <1>4 DEF AppendStep

(* The steps of the public turn. *)
LEMMA TurnsAreAlone ==
    ASSUME AppendsAreAlone, ExchangesAreOpen, WaitsAreNamed, StartTurn \/ TurnStep
    PROVE  AppendsAreAlone'
<1>0. 0 \in Aid /\ Turn \in Nat
  BY BoundsAssumption DEF Aid, Turn
<1>1. CASE StartTurn
  <2>1. CASE ext[0]
    <3>1. app[0] = "free" /\ UNCHANGED <<app, by, saved, ext, phase, owner>>
      BY <1>1, <2>1 DEF StartTurn, appVars, teamVars
    <3>2. job' = [job EXCEPT ![0] = "new"]
      BY <1>1, <2>1 DEF StartTurn
    <3>3. job' \in [Aid -> Job] /\ \A b \in Aid : b # 0 => job'[b] = job[b]
      BY <3>2 DEF AppendsAreAlone, Job
    <3> QED BY <1>0, <3>1, <3>3, DriverIsAlone DEF AppendsAreAlone
  <2>2. CASE ~ext[0]
    <3>1. Proceed /\ job[0] = "none" /\ UNCHANGED <<job, owner>>
      BY <1>1, <2>2 DEF StartTurn, teamVars
    <3> QED BY <1>0, <3>1, ProceedIsAlone
  <2> QED BY <2>1, <2>2
<1>2. CASE TurnDrain
  BY <1>0, <1>2, DrainIsAlone DEF TurnDrain, Redrain, jobVars, teamVars
<1>3. CASE AcceptTurn
  <2>1. UNCHANGED <<job, owner>>
    BY <1>3 DEF AcceptTurn, jobVars, teamVars
  <2>2. CASE UNCHANGED <<ext, phase, appVars>>
    BY <2>1, <2>2 DEF appVars, AppendsAreAlone
  <2>3. CASE AcceptUser /\ job[0] = "none"
    BY <1>0, <2>1, <2>3, UserIsAlone
  <2> QED BY <1>3, <2>2, <2>3 DEF AcceptTurn
<1>4. CASE WaitDone
  <2>1. job[0] = "none" /\ phase[0] \in Terminal /\ UNCHANGED <<job, owner>>
    BY <1>4 DEF WaitDone, Recovered, jobVars, teamVars
  <2>2. CASE UNCHANGED <<ext, appVars>>
           /\ phase' = [phase EXCEPT ![0] = IF @ = "done" THEN "interrupted" ELSE @]
    <3>1. app[0] = "free"
      BY <1>0, <2>1 DEF AppendsAreAlone, Terminal, Failed
    <3>2. phase' \in [Aid -> Phase] /\ \A b \in Aid : b # 0 => phase'[b] = phase[b]
      <4>1. phase[0] \in Phase /\ "interrupted" \in Phase
        BY <1>0 DEF AppendsAreAlone, Phase, Terminal, Failed
      <4>2. PICK p \in Phase : phase' = [phase EXCEPT ![0] = p]
        BY <2>2, <4>1
      <4> QED BY <4>2 DEF AppendsAreAlone
    <3>3. UNCHANGED <<app, by, saved>> /\ ext' = ext
      BY <2>2 DEF appVars
    <3> QED BY <1>0, <2>1, <3>1, <3>2, <3>3, DriverIsAlone DEF AppendsAreAlone
  <2>3. CASE Proceed
    BY <1>0, <2>1, <2>3, ProceedIsAlone
  <2>4. CASE AcceptUser
    BY <1>0, <2>1, <2>4, UserIsAlone
  <2> QED BY <1>4, <2>2, <2>3, <2>4 DEF WaitDone
<1>5. CASE EndTurn \/ StallTurn
  BY <1>5 DEF EndTurn, StallTurn, boxVars, appVars, jobVars, teamVars, AppendsAreAlone
<1>6. CASE TurnSweep
  <2>1. PICK b \in Movable : Redrain(b, Turn)
    BY <1>6 DEF TurnSweep
  <2>2. b \in Aid
    BY DEF Movable, WaitsAreNamed
  <2> QED BY <1>0, <1>6, <2>1, <2>2, DrainIsAlone DEF TurnSweep, Redrain, jobVars, teamVars
<1>7. CASE TurnNotify
  <2>1. PICK t \in Payable : Notify(t[1], t[2], t[3], Turn)
    BY <1>7 DEF TurnNotify
  <2>2. t \in Aid \X Aid \X Nat
    BY StoppedIsNamed DEF Payable
  <2>3. UNCHANGED <<job, owner>>
    BY <1>7 DEF TurnNotify, jobVars, teamVars
  <2> QED BY <1>0, <2>1, <2>2, <2>3, NotifyIsAlone
<1> QED BY <1>1, <1>2, <1>3, <1>4, <1>5, <1>6, <1>7 DEF TurnStep

LEMMA AloneStarts == Init => AppendsAreAlone
<1>1. None \in Nat
  BY BoundsAssumption DEF None
<1> QED BY <1>1 DEF Init, AppendsAreAlone, Phase, Job

LEMMA AloneKept ==
    ASSUME AppendsAreAlone, SettleInv, [Next]_vars
    PROVE  AppendsAreAlone'
<1>0. ExchangesAreOpen /\ WaitsAreNamed
  BY DEF SettleInv
<1>1. Old \in Nat /\ None \in Nat /\ 0 \in Aid /\ \A a \in Aid : a \in Nat
  BY BoundsAssumption DEF Old, None, Aid
<1>2. ASSUME UNCHANGED <<app, phase, saved, job, by, ext>>, owner' \subseteq owner
      PROVE  AppendsAreAlone'
  BY <1>2 DEF AppendsAreAlone
<1>3. ASSUME NEW a \in Aid, TailSweep(a) PROVE AppendsAreAlone'
  <2>1. PICK b \in Aid : Redrain(b, Old)
    BY <1>3 DEF TailSweep
  <2> QED BY <1>1, <1>3, <2>1, DrainIsAlone DEF TailSweep, Redrain, jobVars, teamVars
<1>4. ASSUME NEW a \in Aid, TailNotify(a) PROVE AppendsAreAlone'
  <2>1. PICK t \in Outstanding({x \in seats : phase[x] \in Failed}) :
              Notify(t[1], t[2], t[3], Old)
    BY <1>4 DEF TailNotify
  <2>2. t \in Aid \X Aid \X Nat
    BY <1>0, <2>1, StoppedIsNamed
  <2>3. UNCHANGED <<job, owner>>
    BY <1>4 DEF TailNotify, jobVars, teamVars
  <2> QED BY <1>1, <2>1, <2>2, <2>3, NotifyIsAlone
<1>5. ASSUME NEW a \in Aid, TailDone(a) \/ OwnerSettles(a) PROVE AppendsAreAlone'
  <2>1. UNCHANGED <<app, phase, saved, job, by, ext>> /\ owner' \subseteq owner
    BY <1>5 DEF TailDone, OwnerSettles, boxVars, appVars, jobVars, teamVars
  <2> QED BY <1>2, <2>1
<1>6. ASSUME NEW a \in Aid, NEW b \in Aid, Send(a, b) PROVE AppendsAreAlone'
  <2>1. Drain(b, a, <<nextId>>, Exchange(a, b, nextId)) /\ UNCHANGED <<job, owner>>
    BY <1>6 DEF Send, jobVars, teamVars
  <2> QED BY <1>1, <2>1, DrainIsAlone
<1>7. ASSUME NEW a \in Aid, Kill(a) PROVE AppendsAreAlone'
  BY <1>7 DEF Kill, boxVars, appVars, teamVars, AppendsAreAlone, Job, Phase, Terminal, Failed
<1>8. CASE KillTurn
  BY <1>8 DEF KillTurn, boxVars, appVars, jobVars, teamVars, AppendsAreAlone, Phase, Terminal,
              Failed
<1>9. CASE Crash
  <2>1. app' = [a \in Aid |-> "free"]
    BY <1>9 DEF Crash
  <2>2. by' \in [Aid -> Nat] /\ saved' \in [Aid -> Phase] /\ job' \in [Aid -> Job]
    BY <1>1, <1>9 DEF Crash, Phase, Job
  <2>3. phase' \in [Aid -> Phase]
    BY <1>9 DEF Crash, Phase
  <2>4. ext' \in [Aid -> BOOLEAN]
    BY <1>9 DEF Crash
  <2> QED BY <2>1, <2>2, <2>3, <2>4 DEF AppendsAreAlone
<1>10. CASE RequestCancel \/ SpendAll \/ Save \/ Shutdown \/ Finished \/ UNCHANGED vars
  <2>1. UNCHANGED <<app, phase, saved, job, by, ext, owner>>
    BY <1>10 DEF RequestCancel, SpendAll, Save, Shutdown, Finished, vars, boxVars, appVars,
                 jobVars, teamVars
  <2> QED BY <1>2, <2>1
<1> QED
  BY <1>0, <1>3, <1>4, <1>5, <1>6, <1>7, <1>8, <1>9, <1>10,
     DriversAreAlone, EndsAreAlone, TurnsAreAlone DEF Next

(* A session takes a turn only when no provider call of an earlier turn is  *)
(* still running, and its append never meets a living run of its own,       *)
(* whoever delivers: the sender, a driver, a replaced driver or the turn.   *)
THEOREM AppendsAreExclusive == Spec => []AppendIsExclusive
<1>1. Init => SettleInv /\ AppendsAreAlone
  BY SettleStarts, AloneStarts
<1>2. SettleInv /\ AppendsAreAlone /\ [Next]_vars => (SettleInv /\ AppendsAreAlone)'
  BY SettleKept, AloneKept
<1>3. AppendsAreAlone => AppendIsExclusive
  BY DEF AppendsAreAlone, AppendIsExclusive
<1> QED BY <1>1, <1>2, <1>3, PTL DEF Spec
=============================================================================

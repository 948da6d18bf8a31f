------------------------- MODULE RepeatedCallsProofs -------------------------
(***************************************************************************)
(* Proofs about loop protection: an extra run of an operation is paid for   *)
(* by an edit or a fresh window, through crashes and lost saves.            *)
(*                                                                          *)
(* The loop state exists up to three times, in the session, in the batch    *)
(* under way and on disk.  The lemmas are about one copy t of it, and about *)
(* one operation k with x the extra runs it had, n the times it was         *)
(* forgotten, and open the operations whose extra run has no outcome yet.   *)
(***************************************************************************)
EXTENDS RepeatedCalls, FiniteSetTheorems, TLAPS

-----------------------------------------------------------------------------
(* One copy of the loop state                                               *)

Extras == [validation : Nat, recovery : Nat]

(* Knows, of given numbers *)
KnowsOf(t, k, x, n, open) ==
    /\ x.validation <= t.edits
    /\ x.validation > 0 =>
          /\ k \in Observers
          /\ k \in DOMAIN t.rows =>
                x.validation <= t.rows[k].ran \/ x.validation <= t.rows[k].resv
          /\ k \notin DOMAIN t.rows => k \notin ToSet(t.recent)
    /\ x.recovery <= 1 + n
    /\ x.recovery > n => k \in DOMAIN t.rows /\ t.rows[k].recovered
    /\ k \in open => k \in DOMAIN t.rows /\ t.rows[k].inflight

(* The greater of two numbers.                                              *)
LEMMA MaxOfTwo ==
    ASSUME NEW a \in Nat, NEW b \in Nat
    PROVE  Max({a, b}) \in Nat /\ Max({a, b}) >= a /\ Max({a, b}) >= b
<1>1. \E m \in {a, b} : \A y \in {a, b} : m >= y
  <2>1. CASE a >= b
    BY <2>1
  <2>2. CASE b >= a
    BY <2>2
  <2> QED BY <2>1, <2>2
<1>2. Max({a, b}) \in {a, b} /\ \A y \in {a, b} : Max({a, b}) >= y
  BY <1>1 DEF Max
<1> QED BY <1>2

(* A call enters the window: what is forgotten has left it.                 *)
LEMMA EnteredIs ==
    ASSUME NEW t, IsTurn(t), NEW k \in Operation
    PROVE  LET e == Entered(t, k) IN
           /\ IsTurn(e) /\ e.edits = t.edits
           /\ DOMAIN e.rows = DOMAIN t.rows \ Leaving(t, k)
           /\ \A d \in DOMAIN e.rows : e.rows[d] = t.rows[d]
           /\ ToSet(e.recent) \subseteq ToSet(t.recent) \cup {k}
           /\ \A d \in Leaving(t, k) : d # k /\ d \notin ToSet(e.recent) /\ ~t.rows[d].inflight
<1> DEFINE e == Entered(t, k)
           q == IF Len(t.recent) = HashWindow THEN Tail(t.recent) ELSE t.recent
           D == DOMAIN t.rows \ Leaving(t, k)
<1>1. t.recent \in Seq(Operation) /\ t.edits \in Nat
      /\ t = [recent |-> t.recent, edits |-> t.edits, rows |-> t.rows]
  BY DEF IsTurn
<1>2. e = [recent |-> q \o <<k>>, edits |-> t.edits, rows |-> [d \in D |-> t.rows[d]]]
  <2> DEFINE l == Leaving(t, k)
  <2> HIDE DEF l, q
  <2>1. PICK a, b, c : t = [recent |-> a, edits |-> b, rows |-> c]
    BY <1>1
  <2>2. e = [t EXCEPT !.recent = q \o <<k>>, !.rows = [d \in DOMAIN t.rows \ l |-> t.rows[d]]]
    BY <2>1 DEF Entered, l, q
  <2>3. D = DOMAIN c \ l
    BY <2>1 DEF l
  <2> QED BY <2>1, <2>2, <2>3 DEF q
<1>3. Len(t.recent) = HashWindow => t.recent # << >>
  BY <1>1, LoopsAssumption
<1>4. q \in Seq(Operation) /\ \A i \in DOMAIN q : \E j \in DOMAIN t.recent : q[i] = t.recent[j]
  <2>1. CASE Len(t.recent) = HashWindow
    <3>1. q = Tail(t.recent) /\ q \in Seq(Operation) /\ Len(q) = Len(t.recent) - 1
      BY <1>1, <1>3, <2>1
    <3>2. \A i \in 1..Len(q) : q[i] = t.recent[i + 1] /\ i + 1 \in 1..Len(t.recent)
      BY <1>1, <1>3, <3>1
    <3> QED BY <1>1, <3>1, <3>2
  <2>2. CASE Len(t.recent) # HashWindow
    BY <1>1, <2>2
  <2> QED BY <2>1, <2>2
<1>5. q \o <<k>> \in Seq(Operation)
  BY <1>4
<1>6. ToSet(q \o <<k>>) \subseteq ToSet(t.recent) \cup {k} /\ k \in ToSet(q \o <<k>>)
  <2>1. /\ Len(q \o <<k>>) = Len(q) + 1 /\ (q \o <<k>>)[Len(q) + 1] = k
        /\ \A i \in 1..Len(q) : (q \o <<k>>)[i] = q[i]
    BY <1>4
  <2>2. \A i \in 1..(Len(q) + 1) : (q \o <<k>>)[i] \in ToSet(t.recent) \cup {k}
    <3> SUFFICES ASSUME NEW i \in 1..(Len(q) + 1), i # Len(q) + 1
                 PROVE  (q \o <<k>>)[i] \in ToSet(t.recent)
      BY <2>1
    <3>1. i \in 1..Len(q) /\ i \in DOMAIN q
      BY <1>4
    <3> HIDE DEF q
    <3> QED BY <1>4, <2>1, <3>1 DEF ToSet
  <2>3. DOMAIN (q \o <<k>>) = 1..(Len(q) + 1) /\ Len(q) + 1 \in 1..(Len(q) + 1)
    BY <1>4, <1>5, <2>1
  <2> HIDE DEF q
  <2> QED BY <2>1, <2>2, <2>3 DEF ToSet
<1>7. IsTurn(e)
  <2>1. PICK E \in SUBSET Operation : t.rows \in [E -> OperationRow]
    BY DEF IsTurn
  <2>2. D \in SUBSET Operation /\ [d \in D |-> t.rows[d]] \in [D -> OperationRow]
    BY <2>1
  <2>3. /\ e = [recent |-> e.recent, edits |-> e.edits, rows |-> e.rows]
        /\ e.recent = q \o <<k>> /\ e.edits = t.edits /\ e.rows = [d \in D |-> t.rows[d]]
    BY <1>2
  <2>4. e.rows \in [D -> OperationRow]
    BY <2>2, <2>3
  <2> HIDE DEF e, D, q
  <2> QED BY <1>1, <1>5, <2>2, <2>3, <2>4 DEF IsTurn
<1>8. \A d \in Leaving(t, k) : d \notin ToSet(q \o <<k>>) /\ ~t.rows[d].inflight
  BY DEF Leaving
<1> QED BY <1>2, <1>6, <1>7, <1>8

(* An operation that is in the window twice was in it before.               *)
LEMMA RepeatsWereThere ==
    ASSUME NEW t, IsTurn(t), NEW k \in Operation, k \notin ToSet(t.recent)
    PROVE  Repeats(Entered(t, k), k) \in Nat /\ Repeats(Entered(t, k), k) <= 1
<1> DEFINE q == IF Len(t.recent) = HashWindow THEN Tail(t.recent) ELSE t.recent
           w == q \o <<k>>
           I == {i \in DOMAIN w : w[i] = k}
<1>1. t.recent \in Seq(Operation) /\ (Len(t.recent) = HashWindow => t.recent # << >>)
  BY LoopsAssumption DEF IsTurn
<1>2. q \in Seq(Operation) /\ \A i \in DOMAIN q : \E j \in DOMAIN t.recent : q[i] = t.recent[j]
  <2>1. CASE Len(t.recent) = HashWindow
    <3>1. q = Tail(t.recent) /\ q \in Seq(Operation) /\ Len(q) = Len(t.recent) - 1
      BY <1>1, <2>1
    <3>2. \A i \in 1..Len(q) : q[i] = t.recent[i + 1] /\ i + 1 \in 1..Len(t.recent)
      BY <1>1, <2>1, <3>1
    <3> QED BY <1>1, <3>1, <3>2
  <2>2. CASE Len(t.recent) # HashWindow
    BY <1>1, <2>2
  <2> QED BY <2>1, <2>2
<1>3. \A i \in DOMAIN q : q[i] # k
  BY <1>2 DEF ToSet
<1>4. I \subseteq {Len(q) + 1}
  <2>1. /\ DOMAIN w = 1..(Len(q) + 1) /\ Len(q) \in Nat
        /\ \A i \in 1..Len(q) : w[i] = q[i]
    BY <1>2
  <2> QED BY <1>2, <1>3, <2>1
<1> HIDE DEF I
<1>5. Cardinality(I) \in Nat /\ Cardinality(I) <= 1
  <2>1. PICK last : I \in SUBSET {last}
    BY <1>4
  <2>2. IsFiniteSet({last}) /\ Cardinality({last}) = 1
    BY FS_Singleton
  <2>3. IsFiniteSet(I) /\ Cardinality(I) <= Cardinality({last})
    BY <2>1, <2>2, FS_Subset
  <2> QED BY <2>2, <2>3, FS_CardinalityType
<1>6. Entered(t, k).recent = w
  BY DEF Entered, IsTurn
<1> QED BY <1>5, <1>6 DEF Repeats, I

(* The parts of a copy have their types.                                    *)
LEMMA RowsAre ==
    ASSUME NEW t, IsTurn(t)
    PROVE  /\ t.edits \in Nat /\ DOMAIN t.rows \in SUBSET Operation
           /\ \A d \in DOMAIN t.rows : t.rows[d] \in OperationRow
           /\ t = [recent |-> t.recent, edits |-> t.edits, rows |-> t.rows]
           /\ t.recent \in Seq(Operation)
BY DEF IsTurn

(* The row a reservation starts from: the one that is there, or a new one.  *)
LEMMA RowIs ==
    ASSUME NEW t, IsTurn(t), NEW k \in Operation
    PROVE  /\ Row(t, k) \in OperationRow
           /\ k \in DOMAIN t.rows => Row(t, k) = t.rows[k]
           /\ k \notin DOMAIN t.rows => Row(t, k).recovered = FALSE
BY RowsAre DEF Row, NoRow, OperationRow

(* A reservation: the row is in flight, and the permission is spent.        *)
LEMMA ReservedIs ==
    ASSUME NEW t, IsTurn(t), NEW k \in Operation, NEW time \in {1, 2}
    PROVE  LET r == Reserved(t, k, time) IN
           /\ IsTurn(r) /\ r.edits = t.edits /\ r.recent = t.recent
           /\ DOMAIN r.rows = DOMAIN t.rows \cup {k}
           /\ \A d \in DOMAIN t.rows \ {k} : r.rows[d] = t.rows[d]
           /\ r.rows[k].inflight /\ r.rows[k].resv = t.edits
           /\ r.rows[k].recovered = (Row(t, k).recovered \/ (Extra(t, k) /\ Recovers(t, k, time)))
<1> DEFINE r == Reserved(t, k, time)
           row == Row(t, k)
           new == [row EXCEPT !.inflight = TRUE, !.resv = t.edits,
                              !.longest = IF k \in Timed THEN Max({@, time}) ELSE @,
                              !.recovered = @ \/ (Extra(t, k) /\ Recovers(t, k, time))]
           rows == [d \in DOMAIN t.rows \cup {k} |-> IF d # k THEN t.rows[d] ELSE new]
<1>1. row \in OperationRow /\ t.edits \in Nat
  BY RowIs, RowsAre
<1>2. Max({row.longest, time}) \in Nat
  BY <1>1, MaxOfTwo DEF OperationRow
<1>3. (row.recovered \/ (Extra(t, k) /\ Recovers(t, k, time))) \in BOOLEAN
  BY <1>1 DEF OperationRow
<1>4. /\ new \in OperationRow /\ new.inflight /\ new.resv = t.edits
      /\ new.recovered = (row.recovered \/ (Extra(t, k) /\ Recovers(t, k, time)))
  <2> DEFINE m == Max({row.longest, time})
             v == (row.recovered \/ (Extra(t, k) /\ Recovers(t, k, time)))
  <2>1. new = [row EXCEPT !.inflight = TRUE, !.resv = t.edits,
                          !.longest = IF k \in Timed THEN m ELSE @, !.recovered = v]
    BY <1>1 DEF OperationRow
  <2>2. m \in Nat /\ v \in BOOLEAN
    BY <1>2, <1>3
  <2> HIDE DEF m, v, row, new
  <2>3. new \in OperationRow /\ new.inflight = TRUE /\ new.resv = t.edits /\ new.recovered = v
    BY <1>1, <2>1, <2>2 DEF OperationRow
  <2> QED BY <2>3 DEF v, row
<1>5. r = [t EXCEPT !.rows = rows]
  BY DEF Reserved
<1> HIDE DEF new
<1>6. rows \in [DOMAIN t.rows \cup {k} -> OperationRow] /\ rows[k] = new
  BY <1>4, RowsAre
<1>7. /\ r = [recent |-> t.recent, edits |-> t.edits, rows |-> rows]
  <2> HIDE DEF rows, r
  <2> QED BY <1>5, RowsAre DEF r
<1>8. IsTurn(r)
  <2>1. DOMAIN t.rows \cup {k} \in SUBSET Operation
    BY RowsAre
  <2> HIDE DEF rows, r
  <2>2. r.recent = t.recent /\ r.edits = t.edits /\ r.rows = rows
    BY <1>7
  <2> QED BY <1>6, <1>7, <2>1, <2>2, RowsAre DEF IsTurn
<1>9. r.recent = t.recent /\ r.edits = t.edits /\ r.rows = rows
  <2> HIDE DEF rows, r
  <2> QED BY <1>7
<1> HIDE DEF r
<1> QED BY <1>4, <1>6, <1>8, <1>9 DEF r

(* A reservation touches one row only.                                      *)
LEMMA ReservedKeeps ==
    ASSUME NEW t, IsTurn(t), NEW k \in Operation, NEW time \in {1, 2}
    PROVE  /\ Reserved(t, k, time).edits = t.edits
           /\ Reserved(t, k, time).recent = t.recent
           /\ DOMAIN Reserved(t, k, time).rows = DOMAIN t.rows \cup {k}
           /\ \A d \in DOMAIN t.rows \ {k} : Reserved(t, k, time).rows[d] = t.rows[d]
<1> DEFINE r == Reserved(t, k, time)
<1>1. r.edits = t.edits /\ r.recent = t.recent /\ DOMAIN r.rows = DOMAIN t.rows \cup {k}
  BY ReservedIs
<1>2. \A d \in DOMAIN t.rows \ {k} : r.rows[d] = t.rows[d]
  BY ReservedIs
<1> QED BY <1>1, <1>2

(* An answer: the row has run at the edits there are now.                   *)
LEMMA FinishedIs ==
    ASSUME NEW t, IsTurn(t), NEW k \in Operation, NEW exit \in {"completed", "timeout"},
           NEW changed \in BOOLEAN
    PROVE  LET f == Finished(t, k, exit, changed) IN
           /\ IsTurn(f) /\ f.recent = t.recent
           /\ f.edits = t.edits + (IF changed THEN 1 ELSE 0)
           /\ DOMAIN f.rows = DOMAIN t.rows
           /\ \A d \in DOMAIN t.rows \ {k} : f.rows[d] = t.rows[d]
           /\ k \in DOMAIN t.rows => /\ f.rows[k].ran = f.edits
                                     /\ f.rows[k].recovered = t.rows[k].recovered
<1> DEFINE f == Finished(t, k, exit, changed)
           e == t.edits + (IF changed THEN 1 ELSE 0)
<1>1. e \in Nat
  BY RowsAre
<1>2. CASE k \notin DOMAIN t.rows
  <2>1. f = [recent |-> t.recent, edits |-> e, rows |-> t.rows]
    BY <1>2, RowsAre DEF Finished
  <2> HIDE DEF f, e
  <2>2. f.recent = t.recent /\ f.edits = e /\ f.rows = t.rows
    BY <2>1
  <2>3. IsTurn(f)
    BY <1>1, <2>1, <2>2 DEF IsTurn
  <2> QED BY <1>2, <2>2, <2>3 DEF f, e
<1>3. CASE k \in DOMAIN t.rows
  <2> DEFINE new == [t.rows[k] EXCEPT !.ran = e, !.resv = Max({@, e}), !.exit = exit,
                                      !.inflight = FALSE]
             rows == [t.rows EXCEPT ![k] = new]
  <2>1. t.rows[k] \in OperationRow /\ Max({t.rows[k].resv, e}) \in Nat
    BY <1>1, <1>3, RowsAre, MaxOfTwo DEF OperationRow
  <2>2. new \in OperationRow /\ new.ran = e /\ new.recovered = t.rows[k].recovered
    <3> DEFINE m == Max({t.rows[k].resv, e})
    <3>1. new = [t.rows[k] EXCEPT !.ran = e, !.resv = m, !.exit = exit, !.inflight = FALSE]
      BY <2>1 DEF OperationRow
    <3>2. m \in Nat
      BY <2>1
    <3> HIDE DEF m, e, new
    <3> QED BY <1>1, <2>1, <3>1, <3>2 DEF OperationRow
  <2>3. f = [t EXCEPT !.edits = e, !.rows = rows]
    <3>1. t = [recent |-> t.recent, edits |-> t.edits, rows |-> t.rows]
      BY RowsAre
    <3>4. f = [t EXCEPT !.edits = e, !.rows[k] = new]
      BY <1>3 DEF Finished
    <3> HIDE DEF f, e, new
    <3> QED BY <3>1, <3>4
  <2> HIDE DEF new
  <2>4. /\ rows \in [DOMAIN t.rows -> OperationRow] /\ rows[k] = new
        /\ \A d \in DOMAIN t.rows \ {k} : rows[d] = t.rows[d]
    BY <1>3, <2>2, RowsAre
  <2> HIDE DEF f, e, rows
  <2>5. f = [recent |-> t.recent, edits |-> e, rows |-> rows]
    <3>1. t = [recent |-> t.recent, edits |-> t.edits, rows |-> t.rows]
      BY RowsAre
    <3> QED BY <2>3, <3>1
  <2>6. f.recent = t.recent /\ f.edits = e /\ f.rows = rows
    BY <2>5
  <2>7. IsTurn(f)
    BY <1>1, <2>4, <2>5, <2>6, RowsAre DEF IsTurn
  <2> QED BY <1>3, <2>2, <2>4, <2>6, <2>7 DEF f, e
<1> QED BY <1>2, <1>3

(* A released row: the save of its reservation failed.                      *)
LEMMA ReleasedIs ==
    ASSUME NEW t, IsTurn(t), NEW k \in DOMAIN t.rows
    PROVE  LET u == Released(t, k) IN
           /\ IsTurn(u) /\ u.recent = t.recent /\ u.edits = t.edits
           /\ DOMAIN u.rows = DOMAIN t.rows
           /\ \A d \in DOMAIN t.rows \ {k} : u.rows[d] = t.rows[d]
           /\ u.rows[k].ran = t.rows[k].ran /\ u.rows[k].resv = t.rows[k].resv
           /\ u.rows[k].recovered = t.rows[k].recovered
<1> DEFINE u == Released(t, k)
           new == [t.rows[k] EXCEPT !.inflight = FALSE]
           rows == [t.rows EXCEPT ![k] = new]
<1>1. t = [recent |-> t.recent, edits |-> t.edits, rows |-> t.rows]
  BY RowsAre
<1>2. u = [recent |-> t.recent, edits |-> t.edits, rows |-> rows]
  <2>1. u = [t EXCEPT !.rows[k] = new]
    BY DEF Released
  <2> HIDE DEF u, new
  <2> QED BY <1>1, <2>1
<1>3. /\ new \in OperationRow /\ new.ran = t.rows[k].ran /\ new.resv = t.rows[k].resv
      /\ new.recovered = t.rows[k].recovered
  <2>1. t.rows[k] \in OperationRow
    BY RowsAre
  <2> QED BY <2>1 DEF OperationRow
<1> HIDE DEF new
<1>4. /\ rows \in [DOMAIN t.rows -> OperationRow] /\ rows[k] = new
      /\ \A d \in DOMAIN t.rows \ {k} : rows[d] = t.rows[d]
  BY <1>3, RowsAre
<1> HIDE DEF u, rows
<1>5. u.recent = t.recent /\ u.edits = t.edits /\ u.rows = rows
  BY <1>2
<1>6. IsTurn(u)
  BY <1>2, <1>4, <1>5, RowsAre DEF IsTurn
<1> QED BY <1>3, <1>4, <1>5, <1>6 DEF u

-----------------------------------------------------------------------------
(* What a copy knows of one operation                                       *)

(* Another operation's call may push this one out of the window.            *)
LEMMA OthersAreKnown ==
    ASSUME NEW t, NEW k \in Operation, IsTurn(t), NEW d \in Operation, d # k,
           NEW x \in Extras, NEW n \in Nat, NEW open, KnowsOf(t, d, x, n, open)
    PROVE  KnowsOf(Entered(t, k), d, x, IF d \in Leaving(t, k) THEN n + 1 ELSE n, open)
<1> DEFINE e == Entered(t, k)
<1>1. /\ e.edits = t.edits
      /\ DOMAIN e.rows = DOMAIN t.rows \ Leaving(t, k)
      /\ \A c \in DOMAIN e.rows : e.rows[c] = t.rows[c]
      /\ ToSet(e.recent) \subseteq ToSet(t.recent) \cup {k}
      /\ \A c \in Leaving(t, k) : c # k /\ c \notin ToSet(e.recent) /\ ~t.rows[c].inflight
  <2>1. /\ e.edits = t.edits
        /\ DOMAIN e.rows = DOMAIN t.rows \ Leaving(t, k)
        /\ \A c \in DOMAIN e.rows : e.rows[c] = t.rows[c]
    BY EnteredIs
  <2>2. ToSet(e.recent) \subseteq ToSet(t.recent) \cup {k}
    BY EnteredIs
  <2>3. \A c \in Leaving(t, k) : c # k /\ c \notin ToSet(e.recent) /\ ~t.rows[c].inflight
    BY EnteredIs
  <2> QED BY <2>1, <2>2, <2>3
<1>2. t.edits \in Nat
  BY RowsAre
<1>3. x.validation \in Nat /\ x.recovery \in Nat
  BY DEF Extras
<1> HIDE DEF e
<1>4. CASE d \in Leaving(t, k)
  <2>1. d \notin DOMAIN e.rows /\ d \notin ToSet(e.recent) /\ d \notin open
    BY <1>1, <1>4 DEF KnowsOf
  <2>2. x.recovery <= n + 1
    BY <1>3 DEF KnowsOf
  <2>3. KnowsOf(e, d, x, n + 1, open)
    BY <1>1, <1>2, <1>3, <2>1, <2>2 DEF KnowsOf
  <2> QED BY <1>4, <2>3 DEF e
<1>5. CASE d \notin Leaving(t, k)
  <2>1. d \in DOMAIN e.rows <=> d \in DOMAIN t.rows
    BY <1>1, <1>5
  <2>2. KnowsOf(e, d, x, n, open)
    BY <1>1, <2>1 DEF KnowsOf
  <2> QED BY <1>5, <2>2 DEF e
<1> QED BY <1>4, <1>5

(* What is known of the operation that is called: it is not forgotten, and  *)
(* without a row it comes for the first time.                               *)
LEMMA CalledIsKnown ==
    ASSUME NEW t, IsTurn(t), NEW k \in Operation,
           NEW x \in Extras, NEW n \in Nat, NEW open, KnowsOf(t, k, x, n, open)
    PROVE  LET e == Entered(t, k) IN
           /\ k \notin Leaving(t, k)
           /\ x.validation > 0 /\ k \notin DOMAIN e.rows => ~Extra(e, k)
           /\ k \in DOMAIN e.rows \/ x.validation = 0 => KnowsOf(e, k, x, n, open)
           /\ x.validation <= e.edits /\ (x.validation > 0 => k \in Observers)
           /\ k \in DOMAIN e.rows => k \in DOMAIN t.rows /\ e.rows[k] = t.rows[k]
<1> DEFINE e == Entered(t, k)
<1>1. /\ IsTurn(e) /\ e.edits = t.edits
      /\ DOMAIN e.rows = DOMAIN t.rows \ Leaving(t, k)
      /\ \A c \in DOMAIN e.rows : e.rows[c] = t.rows[c]
      /\ \A c \in Leaving(t, k) : c # k
  BY EnteredIs
<1>2. k \notin Leaving(t, k) /\ (k \in DOMAIN e.rows <=> k \in DOMAIN t.rows)
  BY <1>1
<1>3. x.validation \in Nat /\ x.recovery \in Nat
  BY DEF Extras
<1>4. ASSUME x.validation > 0, k \notin DOMAIN e.rows PROVE ~Extra(e, k)
  <2>1. k \notin ToSet(t.recent)
    BY <1>2, <1>4 DEF KnowsOf
  <2>2. Repeats(e, k) \in Nat /\ Repeats(e, k) <= 1
    BY <2>1, RepeatsWereThere
  <2> QED BY <2>2, LoopsAssumption DEF Extra
<1> HIDE DEF e
<1>5. k \in DOMAIN e.rows \/ x.validation = 0 => KnowsOf(e, k, x, n, open)
  BY <1>1, <1>2, <1>3 DEF KnowsOf
<1>6. x.validation <= e.edits /\ (x.validation > 0 => k \in Observers)
  BY <1>1 DEF KnowsOf
<1> QED BY <1>1, <1>2, <1>4, <1>5, <1>6 DEF e

(* A refused call, and one that needs no reservation, change nothing of it. *)
LEMMA RefusedIsKnown ==
    ASSUME NEW t, IsTurn(t), NEW k \in Operation, NEW time \in {1, 2},
           NEW x \in Extras, NEW n \in Nat, NEW open, KnowsOf(t, k, x, n, open),
           Refuses(Entered(t, k), k, time) \/ ~Tracked(Entered(t, k), k)
    PROVE  KnowsOf(Entered(t, k), k, x, n, open)
<1> DEFINE e == Entered(t, k)
<1>1. /\ x.validation > 0 /\ k \notin DOMAIN e.rows => ~Extra(e, k)
      /\ k \in DOMAIN e.rows \/ x.validation = 0 => KnowsOf(e, k, x, n, open)
      /\ x.validation <= e.edits /\ (x.validation > 0 => k \in Observers)
  BY CalledIsKnown
<1>2. e.edits \in Nat
  <2>1. IsTurn(e)
    BY EnteredIs
  <2> QED BY <2>1, RowsAre
<1>3. Refuses(e, k, time) \/ ~Tracked(e, k)
  OBVIOUS
<1> HIDE DEF e
<1>4. CASE x.validation > 0 /\ k \notin DOMAIN e.rows
  <2>1. ~Refuses(e, k, time)
    BY <1>1, <1>4 DEF Refuses
  <2>2. Tracked(e, k)
    BY <1>1, <1>2, <1>4 DEF Tracked, Extras
  <2> QED BY <1>3, <2>1, <2>2
<1>5. x.validation \in Nat
  BY DEF Extras
<1> QED BY <1>1, <1>4, <1>5 DEF e

(* A reservation loses nothing, and is not made for an extra run whose      *)
(* outcome is still open.                                                   *)
LEMMA ReservedIsKnown ==
    ASSUME NEW t, IsTurn(t), NEW k \in Operation, NEW time \in {1, 2},
           NEW x \in Extras, NEW n \in Nat, NEW open, KnowsOf(t, k, x, n, open),
           ~Refuses(Entered(t, k), k, time)
    PROVE  /\ k \notin open
           /\ KnowsOf(Reserved(Entered(t, k), k, time), k, x, n, open)
<1> DEFINE e == Entered(t, k)
           r == Reserved(e, k, time)
<1>1. /\ x.validation <= e.edits /\ (x.validation > 0 => k \in Observers)
      /\ k \in DOMAIN e.rows => k \in DOMAIN t.rows /\ e.rows[k] = t.rows[k]
      /\ k \notin Leaving(t, k)
  BY CalledIsKnown
<1>2. IsTurn(e) /\ DOMAIN e.rows = DOMAIN t.rows \ Leaving(t, k)
  BY EnteredIs
<1>3. k \in DOMAIN t.rows <=> k \in DOMAIN e.rows
  BY <1>1, <1>2
<1>4. ~Refuses(e, k, time)
  OBVIOUS
<1> HIDE DEF e
<1>5. /\ r.edits = e.edits /\ k \in DOMAIN r.rows
      /\ r.rows[k].inflight /\ r.rows[k].resv = e.edits
      /\ r.rows[k].recovered = (Row(e, k).recovered \/ (Extra(e, k) /\ Recovers(e, k, time)))
  BY <1>2, ReservedIs
<1>6. k \notin open
  BY <1>1, <1>3, <1>4 DEF KnowsOf, Refuses, Tracked
<1>7. x.recovery > n => r.rows[k].recovered
  <2>1. k \in DOMAIN e.rows => Row(e, k) = e.rows[k]
    BY <1>2, RowIs
  <2> QED BY <1>1, <1>3, <1>5, <2>1 DEF KnowsOf
<1> HIDE DEF r
<1>8. KnowsOf(r, k, x, n, open)
  BY <1>1, <1>5, <1>6, <1>7 DEF KnowsOf
<1> QED BY <1>6, <1>8 DEF e, r

(* The permission for an extra run is spent with its reservation.           *)
LEMMA ReservedIsSpent ==
    ASSUME NEW t, IsTurn(t), NEW k \in Operation, NEW time \in {1, 2},
           NEW x \in Extras, NEW n \in Nat, NEW open, KnowsOf(t, k, x, n, open),
           ~Refuses(Entered(t, k), k, time), Extra(Entered(t, k), k)
    PROVE  LET e == Entered(t, k)
               r == Reserved(e, k, time)
           IN  /\ k \in DOMAIN r.rows /\ r.rows[k].inflight
               /\ Validates(e, k) => /\ k \in Observers /\ x.validation < r.edits
                                     /\ x.validation < r.rows[k].resv
               /\ ~Validates(e, k) => r.rows[k].recovered /\ x.recovery <= n
<1> DEFINE e == Entered(t, k)
           r == Reserved(e, k, time)
<1>1. /\ x.validation > 0 /\ k \notin DOMAIN e.rows => ~Extra(e, k)
      /\ k \in DOMAIN e.rows => k \in DOMAIN t.rows /\ e.rows[k] = t.rows[k]
      /\ k \notin Leaving(t, k)
  BY CalledIsKnown
<1>2. IsTurn(e) /\ DOMAIN e.rows = DOMAIN t.rows \ Leaving(t, k)
  BY EnteredIs
<1>3. k \in DOMAIN t.rows <=> k \in DOMAIN e.rows
  BY <1>1, <1>2
<1>4. ~Refuses(e, k, time) /\ Extra(e, k)
  OBVIOUS
<1> HIDE DEF e
<1>5. /\ r.edits = e.edits /\ k \in DOMAIN r.rows
      /\ r.rows[k].inflight /\ r.rows[k].resv = e.edits
      /\ r.rows[k].recovered = (Row(e, k).recovered \/ (Extra(e, k) /\ Recovers(e, k, time)))
  BY <1>2, ReservedIs
<1>6. /\ Row(e, k) \in OperationRow /\ e.edits \in Nat
      /\ k \in DOMAIN e.rows => Row(e, k) = e.rows[k]
      /\ k \notin DOMAIN e.rows => Row(e, k).recovered = FALSE
  BY <1>2, RowIs, RowsAre
<1>7. x.validation \in Nat /\ x.recovery \in Nat
  BY DEF Extras
<1>8. ASSUME Validates(e, k) PROVE k \in Observers /\ x.validation < e.edits
  <2> DEFINE ran == Row(e, k).ran
             resv == Row(e, k).resv
  <2>1. ran \in Nat /\ resv \in Nat
    BY <1>6 DEF OperationRow
  <2>2. Max({ran, resv}) \in Nat /\ Max({ran, resv}) >= ran /\ Max({ran, resv}) >= resv
    BY <2>1, MaxOfTwo
  <2>3. k \in Observers /\ e.edits > Max({ran, resv})
    BY <1>8 DEF Validates
  <2>4. x.validation > 0 => x.validation <= ran \/ x.validation <= resv
    BY <1>1, <1>3, <1>4, <1>6 DEF KnowsOf
  <2> HIDE DEF ran, resv
  <2> QED BY <1>6, <1>7, <2>1, <2>2, <2>3, <2>4
<1>9. ASSUME ~Validates(e, k) PROVE r.rows[k].recovered /\ x.recovery <= n
  <2>1. Recovers(e, k, time)
    BY <1>4, <1>9 DEF Refuses
  <2>2. ~Row(e, k).recovered
    BY <2>1 DEF Recovers
  <2>3. ~(x.recovery > n)
    BY <1>1, <1>3, <1>6, <2>2 DEF KnowsOf
  <2>4. r.rows[k].recovered
    BY <1>4, <1>5, <2>1
  <2>5. x.recovery <= n
    BY <1>7, <2>3
  <2> QED BY <2>4, <2>5
<1> HIDE DEF r
<1> QED BY <1>5, <1>8, <1>9 DEF e, r

(* A reservation of one operation forgets nothing of another.               *)
LEMMA OthersStayKnown ==
    ASSUME NEW t, IsTurn(t), NEW k \in Operation, NEW d \in Operation, d # k,
           NEW time \in {1, 2}, NEW x, NEW n, NEW open, KnowsOf(t, d, x, n, open)
    PROVE  KnowsOf(Reserved(t, k, time), d, x, n, open)
<1> DEFINE r == Reserved(t, k, time)
<1>1. /\ r.edits = t.edits /\ r.recent = t.recent
      /\ DOMAIN r.rows = DOMAIN t.rows \cup {k}
      /\ \A c \in DOMAIN t.rows \ {k} : r.rows[c] = t.rows[c]
  <2>1. r.edits = t.edits /\ r.recent = t.recent /\ DOMAIN r.rows = DOMAIN t.rows \cup {k}
    BY ReservedKeeps
  <2>2. \A c \in DOMAIN t.rows \ {k} : r.rows[c] = t.rows[c]
    BY ReservedKeeps
  <2> QED BY <2>1, <2>2
<1> HIDE DEF r
<1>2. KnowsOf(r, d, x, n, open)
  BY <1>1 DEF KnowsOf
<1> QED BY <1>2 DEF r

(* An answer forgets nothing, and closes one outcome.                       *)
LEMMA FinishedIsKnown ==
    ASSUME NEW t, IsTurn(t), NEW k \in Operation, NEW d \in Operation,
           NEW exit \in {"completed", "timeout"}, NEW changed \in BOOLEAN,
           NEW x \in Extras, NEW n \in Nat, NEW open, KnowsOf(t, d, x, n, open)
    PROVE  KnowsOf(Finished(t, k, exit, changed), d, x, n, open \ {k})
<1> DEFINE f == Finished(t, k, exit, changed)
<1>1. /\ f.recent = t.recent
      /\ f.edits = t.edits + (IF changed THEN 1 ELSE 0)
      /\ DOMAIN f.rows = DOMAIN t.rows
      /\ \A c \in DOMAIN t.rows \ {k} : f.rows[c] = t.rows[c]
      /\ k \in DOMAIN t.rows => /\ f.rows[k].ran = f.edits
                                /\ f.rows[k].recovered = t.rows[k].recovered
  BY FinishedIs
<1>2. t.edits \in Nat /\ x.validation \in Nat
  BY RowsAre DEF Extras
<1> HIDE DEF f
<1>3. x.validation <= f.edits
  BY <1>1, <1>2 DEF KnowsOf
<1>4. CASE d = k
  BY <1>1, <1>3, <1>4 DEF KnowsOf, f
<1>5. CASE d # k
  <2>1. KnowsOf(f, d, x, n, open \ {k})
    BY <1>1, <1>3, <1>5 DEF KnowsOf
  <2> QED BY <2>1 DEF f
<1> QED BY <1>4, <1>5

(* A released row forgets nothing: its extra run was never dispatched.      *)
LEMMA ReleasedIsKnown ==
    ASSUME NEW t, IsTurn(t), NEW k \in DOMAIN t.rows, NEW d \in Operation,
           NEW x, NEW n, NEW open, k \notin open, KnowsOf(t, d, x, n, open)
    PROVE  KnowsOf(Released(t, k), d, x, n, open)
<1> DEFINE u == Released(t, k)
<1>1. /\ u.recent = t.recent /\ u.edits = t.edits
      /\ DOMAIN u.rows = DOMAIN t.rows
      /\ \A c \in DOMAIN t.rows \ {k} : u.rows[c] = t.rows[c]
      /\ u.rows[k].ran = t.rows[k].ran /\ u.rows[k].resv = t.rows[k].resv
      /\ u.rows[k].recovered = t.rows[k].recovered
  BY ReleasedIs
<1> HIDE DEF u
<1>2. KnowsOf(u, d, x, n, open)
  BY <1>1 DEF KnowsOf
<1> QED BY <1>2 DEF u

-----------------------------------------------------------------------------
(* The inductive invariant                                                  *)

(* The loop state of a new turn.                                            *)
LEMMA NoTurnIs == IsTurn(NoTurn) /\ DOMAIN NoTurn.rows = {} /\ NoTurn.edits = 0
<1>1. /\ NoTurn.recent = << >> /\ NoTurn.edits = 0 /\ NoTurn.rows = [k \in {} |-> NoRow]
      /\ NoTurn = [recent |-> NoTurn.recent, edits |-> NoTurn.edits, rows |-> NoTurn.rows]
  BY DEF NoTurn
<1>2. [k \in {} |-> NoRow] \in [{} -> OperationRow] /\ {} \in SUBSET Operation
  OBVIOUS
<1>3. << >> \in Seq(Operation)
  OBVIOUS
<1>4. DOMAIN NoTurn.rows = {}
  BY <1>1
<1>5. \E D \in SUBSET Operation : NoTurn.rows \in [D -> OperationRow]
  BY <1>1, <1>2
<1>6. NoTurn.recent \in Seq(Operation) /\ NoTurn.edits \in Nat
  BY <1>1, <1>3
<1> QED BY <1>1, <1>4, <1>5, <1>6 DEF IsTurn

(* A turn starts with nothing run.                                          *)
LEMMA LoopsStart == LoopsInit => LoopsInv
<1> SUFFICES ASSUME LoopsInit PROVE LoopsInv
  OBVIOUS
<1>1. /\ turn = NoTurn /\ disk = NoTurn /\ copy = NoBatch /\ landed = 0 /\ unseen = {}
      /\ again = FALSE
  BY DEF LoopsInit
<1>2. /\ copy.turn = NoTurn /\ copy.at = "none" /\ copy.key = "none"
      /\ copy = [at |-> copy.at, key |-> copy.key, turn |-> copy.turn, saved |-> copy.saved,
                 why |-> copy.why]
  BY <1>1 DEF NoBatch
<1>3. /\ extra \in [Operation -> [validation : Nat, recovery : Nat]]
      /\ \A k \in Operation : extra[k].validation = 0 /\ extra[k].recovery = 0
      /\ dropped \in [Operation -> Nat] /\ \A k \in Operation : dropped[k] = 0
  BY DEF LoopsInit
<1>4. LoopTypes
  BY <1>1, <1>2, <1>3, NoTurnIs DEF LoopTypes
<1>5. Remembers(NoTurn)
  BY <1>1, <1>3, NoTurnIs DEF Remembers, Knows
<1> QED BY <1>1, <1>2, <1>4, <1>5 DEF LoopsInv, PermitIsSpent

(* Remembers, of given numbers *)
Known(t, land, ex, drop, open) ==
    /\ t.edits <= land
    /\ \A k \in Operation : KnowsOf(t, k, ex[k], drop[k], open)

(* What the copies remember, as a matter of their values.                   *)
LEMMA KnownIs ==
    /\ Remembers(turn) = Known(turn, landed, extra, dropped, unseen)
    /\ Remembers(disk) = Known(disk, landed, extra, dropped, unseen)
    /\ Remembers(copy.turn) = Known(copy.turn, landed, extra, dropped, unseen)
BY DEF Remembers, Knows, Known, KnowsOf

(* The same of the next state.                                              *)
LEMMA KnownIsNext ==
    /\ Remembers(turn)' = Known(turn', landed', extra', dropped', unseen')
    /\ Remembers(disk)' = Known(disk', landed', extra', dropped', unseen')
    /\ Remembers(copy.turn)' = Known(copy'.turn, landed', extra', dropped', unseen')
BY DEF Remembers, Knows, Known, KnowsOf

(* More may have landed since, and been dropped; outcomes may be known.     *)
LEMMA KnownStays ==
    ASSUME NEW t, t.edits \in Nat, NEW land \in Nat, NEW more \in Nat, land <= more,
           NEW ex, NEW drop \in [Operation -> Nat], NEW drop2 \in [Operation -> Nat],
           \A k \in Operation : drop[k] <= drop2[k], \A k \in Operation : ex[k] \in Extras,
           NEW open, NEW fewer \in SUBSET open, Known(t, land, ex, drop, open)
    PROVE  Known(t, more, ex, drop2, fewer)
<1>1. t.edits <= more
  BY DEF Known
<1>2. ASSUME NEW k \in Operation PROVE KnowsOf(t, k, ex[k], drop2[k], fewer)
  <2>1. KnowsOf(t, k, ex[k], drop[k], open) /\ drop[k] <= drop2[k] /\ ex[k] \in Extras
    BY DEF Known
  <2>2. drop[k] \in Nat /\ drop2[k] \in Nat /\ ex[k].recovery \in Nat
    BY <2>1 DEF Extras
  <2>3. k \in fewer => k \in open
    OBVIOUS
  <2>4. ex[k].recovery <= 1 + drop2[k] /\ (ex[k].recovery > drop2[k] => ex[k].recovery > drop[k])
    BY <2>1, <2>2 DEF KnowsOf
  <2> QED BY <2>1, <2>3, <2>4 DEF KnowsOf
<1> QED BY <1>1, <1>2 DEF Known

(* The copy of a batch, and its place.                                      *)
BatchIs(b) ==
    b = [at |-> b.at, key |-> b.key, turn |-> b.turn, saved |-> b.saved, why |-> b.why]

(* A call enters the window and is refused, dispatched or reserved.         *)
LEMMA CallKeeps ==
    ASSUME LoopsInv, NEW k \in Operation, NEW time \in {1, 2}, CallTool(k, time)
    PROVE  LoopsInv'
<1> DEFINE t == copy.turn
           e == Entered(t, k)
           r == Reserved(e, k, time)
<1>1. /\ IsTurn(turn) /\ IsTurn(disk) /\ IsTurn(t) /\ BatchIs(copy) /\ landed \in Nat
      /\ extra \in [Operation -> Extras] /\ dropped \in [Operation -> Nat]
      /\ unseen \subseteq Operation
  BY DEF LoopsInv, LoopTypes, BatchIs, Extras
<1>2. /\ copy.at = "next"
      /\ UNCHANGED <<turn, disk, landed, extra, unseen>>
      /\ dropped' = [d \in Operation |-> IF d \in Leaving(t, k) THEN dropped[d] + 1 ELSE dropped[d]]
  BY DEF CallTool
<1>3. dropped' \in [Operation -> Nat] /\ \A d \in Operation : dropped[d] <= dropped'[d]
  BY <1>1, <1>2
<1>4. /\ Known(turn, landed, extra, dropped, unseen)
      /\ Known(disk, landed, extra, dropped, unseen)
      /\ Known(t, landed, extra, dropped, unseen)
  BY <1>2, KnownIs DEF LoopsInv
<1>5. Remembers(turn)' /\ Remembers(disk)'
  <2>1. turn.edits \in Nat /\ disk.edits \in Nat
    BY <1>1, RowsAre
  <2>2. /\ landed \in Nat /\ landed <= landed /\ unseen \in SUBSET unseen
        /\ dropped \in [Operation -> Nat] /\ dropped' \in [Operation -> Nat]
        /\ \A d \in Operation : dropped[d] <= dropped'[d]
        /\ \A d \in Operation : extra[d] \in Extras
    BY <1>1, <1>3
  <2>3. Known(turn, landed, extra, dropped', unseen)
    BY <1>4, <2>1, <2>2, KnownStays
  <2>4. Known(disk, landed, extra, dropped', unseen)
    BY <1>4, <2>1, <2>2, KnownStays
  <2> QED BY <1>2, <2>3, <2>4, KnownIsNext
<1>6. /\ IsTurn(e) /\ IsTurn(r) /\ e.edits = t.edits /\ r.edits = t.edits
  <2>1. IsTurn(e) /\ e.edits = t.edits
    BY <1>1, EnteredIs
  <2> HIDE DEF e
  <2>2. IsTurn(r) /\ r.edits = e.edits
    BY <2>1, ReservedIs
  <2> QED BY <2>1, <2>2
<1>7. /\ extra[k] \in Extras /\ dropped[k] \in Nat
      /\ KnowsOf(t, k, extra[k], dropped[k], unseen)
  BY <1>1, <1>4 DEF Known
<1>8. k \notin Leaving(t, k) /\ dropped'[k] = dropped[k]
  <2>1. k \notin Leaving(t, k)
    BY <1>1, <1>7, CalledIsKnown
  <2> QED BY <1>2, <2>1
<1>9. ASSUME NEW d \in Operation, d # k
      PROVE  KnowsOf(e, d, extra[d], dropped'[d], unseen) /\ KnowsOf(r, d, extra[d], dropped'[d], unseen)
  <2>1. /\ extra[d] \in Extras /\ dropped[d] \in Nat
        /\ KnowsOf(t, d, extra[d], dropped[d], unseen)
    BY <1>1, <1>4 DEF Known
  <2>2. KnowsOf(e, d, extra[d], IF d \in Leaving(t, k) THEN dropped[d] + 1 ELSE dropped[d], unseen)
    BY <1>1, <1>9, <2>1, OthersAreKnown
  <2>3. KnowsOf(e, d, extra[d], dropped'[d], unseen)
    BY <1>2, <2>2
  <2> HIDE DEF e
  <2>4. KnowsOf(r, d, extra[d], dropped'[d], unseen)
    BY <1>6, <1>9, <2>3, OthersStayKnown
  <2> QED BY <2>3, <2>4
<1>10. ASSUME KnowsOf(e, k, extra[k], dropped[k], unseen)
       PROVE  Known(e, landed, extra, dropped', unseen)
  BY <1>4, <1>6, <1>8, <1>9, <1>10 DEF Known
<1>11. ASSUME ~Refuses(e, k, time)
       PROVE  k \notin unseen /\ Known(r, landed, extra, dropped', unseen)
  <2>1. k \notin unseen /\ KnowsOf(r, k, extra[k], dropped[k], unseen)
    BY <1>1, <1>7, <1>11, ReservedIsKnown
  <2> HIDE DEF r
  <2> QED BY <1>4, <1>6, <1>8, <1>9, <2>1 DEF Known
<1>12. CASE /\ Refuses(e, k, time)
            /\ copy' = [copy EXCEPT !.turn = e]
            /\ UNCHANGED again
  <2>1. KnowsOf(e, k, extra[k], dropped[k], unseen)
    BY <1>1, <1>7, <1>12, RefusedIsKnown
  <2>2. copy'.turn = e /\ copy'.at = "next" /\ BatchIs(copy')
    <3> HIDE DEF e
    <3> QED BY <1>1, <1>2, <1>12 DEF BatchIs
  <2>3. Remembers(copy.turn)'
    BY <1>2, <1>10, <2>1, <2>2, KnownIsNext
  <2>4. LoopTypes'
    <3> HIDE DEF e
    <3> QED BY <1>1, <1>2, <1>3, <1>6, <2>2 DEF LoopTypes, BatchIs, Extras
  <2> QED BY <1>5, <1>12, <2>2, <2>3, <2>4 DEF LoopsInv, PermitIsSpent
<1>13. CASE /\ ~Refuses(e, k, time) /\ ~Extra(e, k)
            /\ copy' = [copy EXCEPT !.turn = IF Tracked(e, k) THEN r ELSE e,
                                    !.at = "run", !.key = k]
            /\ Dispatched(k)
  <2> DEFINE new == IF Tracked(e, k) THEN r ELSE e
  <2>1. k \notin unseen
    BY <1>11, <1>13
  <2>2. IsTurn(new) /\ Known(new, landed, extra, dropped', unseen)
    <3>1. CASE Tracked(e, k)
      BY <1>6, <1>11, <1>13, <3>1
    <3>2. CASE ~Tracked(e, k)
      <4>1. KnowsOf(e, k, extra[k], dropped[k], unseen)
        BY <1>1, <1>7, <3>2, RefusedIsKnown
      <4> QED BY <1>6, <1>10, <3>2, <4>1
    <3> QED BY <3>1, <3>2
  <2> HIDE DEF new
  <2>3. copy'.turn = new /\ copy'.at = "run" /\ copy'.key = k /\ BatchIs(copy')
    <3>1. copy' = [copy EXCEPT !.turn = new, !.at = "run", !.key = k]
      BY <1>13 DEF new
    <3> QED BY <1>1, <3>1 DEF BatchIs
  <2>4. Remembers(copy.turn)'
    BY <1>2, <2>2, <2>3, KnownIsNext
  <2>5. LoopTypes'
    <3> HIDE DEF e
    <3> QED BY <1>1, <1>2, <1>3, <2>2, <2>3 DEF LoopTypes, BatchIs, Extras
  <2>6. ~again'
    BY <1>13, <2>1 DEF Dispatched, LoopsInv
  <2> QED BY <1>5, <2>3, <2>4, <2>5, <2>6 DEF LoopsInv, PermitIsSpent
<1>14. CASE /\ ~Refuses(e, k, time) /\ Extra(e, k)
            /\ copy' = [copy EXCEPT !.turn = r, !.at = "save", !.key = k,
                                    !.why = IF Validates(e, k) THEN "validation" ELSE "recovery"]
            /\ UNCHANGED again
  <2> DEFINE why == IF Validates(e, k) THEN "validation" ELSE "recovery"
  <2>1. k \notin unseen /\ IsTurn(r) /\ Known(r, landed, extra, dropped', unseen)
    BY <1>6, <1>11, <1>14
  <2>2. /\ k \in DOMAIN r.rows /\ r.rows[k].inflight
        /\ Validates(e, k) => /\ k \in Observers /\ extra[k].validation < r.edits
                              /\ extra[k].validation < r.rows[k].resv
        /\ ~Validates(e, k) => r.rows[k].recovered /\ extra[k].recovery <= dropped[k]
    BY <1>1, <1>7, <1>14, ReservedIsSpent
  <2>3. /\ why \in {"validation", "recovery"}
        /\ why = "validation" => /\ k \in Observers /\ extra[k].validation < r.edits
                                 /\ extra[k].validation < r.rows[k].resv
        /\ why = "recovery" => r.rows[k].recovered /\ extra[k].recovery <= dropped[k]
    <3> HIDE DEF r, e
    <3> QED BY <2>2
  <2>4. copy' = [copy EXCEPT !.turn = r, !.at = "save", !.key = k, !.why = why]
    BY <1>14
  <2> HIDE DEF e, r, why
  <2>5. /\ copy'.turn = r /\ copy'.at = "save" /\ copy'.key = k /\ copy'.why = why
        /\ BatchIs(copy')
    BY <1>1, <2>4 DEF BatchIs
  <2>6. Remembers(copy.turn)'
    BY <1>2, <2>1, <2>5, KnownIsNext
  <2>7. LoopTypes'
    BY <1>1, <1>2, <1>3, <2>1, <2>5 DEF LoopTypes, BatchIs, Extras
  <2>8. PermitIsSpent'
    BY <1>2, <1>8, <2>1, <2>2, <2>3, <2>5 DEF PermitIsSpent
  <2> QED BY <1>5, <1>14, <2>5, <2>6, <2>7, <2>8 DEF LoopsInv
<1> QED BY <1>12, <1>13, <1>14 DEF CallTool

(* The reservation is saved: all three copies are one, and it has the       *)
(* permission spent.                                                        *)
LEMMA SaveKeeps ==
    ASSUME LoopsInv, SaveReservation
    PROVE  LoopsInv'
<1> DEFINE t == copy.turn
           k == copy.key
<1>1. /\ IsTurn(t) /\ BatchIs(copy) /\ landed \in Nat /\ k \in Operation
      /\ extra \in [Operation -> Extras] /\ dropped \in [Operation -> Nat]
      /\ unseen \subseteq Operation
  BY DEF LoopsInv, LoopTypes, BatchIs, Extras, SaveReservation
<1>2. /\ copy.at = "save" /\ turn' = t /\ disk' = t
      /\ copy' = [copy EXCEPT !.at = "run", !.saved = TRUE]
      /\ unseen' = unseen \cup {k} /\ landed' = landed /\ dropped' = dropped
      /\ extra' = [extra EXCEPT ![k][copy.why] = @ + 1] /\ Dispatched(k)
  BY DEF SaveReservation
<1>3. /\ k \in DOMAIN t.rows /\ t.rows[k].inflight /\ k \notin unseen
      /\ copy.why \in {"validation", "recovery"}
      /\ copy.why = "validation" => /\ k \in Observers /\ extra[k].validation < t.edits
                                    /\ extra[k].validation < t.rows[k].resv
      /\ copy.why = "recovery" => t.rows[k].recovered /\ extra[k].recovery <= dropped[k]
  BY <1>2 DEF LoopsInv, PermitIsSpent
<1>4. Known(t, landed, extra, dropped, unseen)
  BY <1>2, KnownIs DEF LoopsInv
<1>5. copy'.turn = t /\ copy'.at = "run" /\ copy'.key = k /\ BatchIs(copy')
  BY <1>1, <1>2 DEF BatchIs
<1>6. /\ t.edits \in Nat /\ t.rows[k] \in OperationRow /\ extra[k] \in Extras
      /\ dropped[k] \in Nat
  BY <1>1, <1>3, RowsAre
<1>7. /\ extra' \in [Operation -> Extras]
      /\ \A d \in Operation \ {k} : extra'[d] = extra[d]
      /\ copy.why = "validation" => /\ extra'[k].validation = extra[k].validation + 1
                                    /\ extra'[k].recovery = extra[k].recovery
      /\ copy.why = "recovery" => /\ extra'[k].validation = extra[k].validation
                                  /\ extra'[k].recovery = extra[k].recovery + 1
  <2>1. CASE copy.why = "validation"
    <3>1. extra' = [extra EXCEPT ![k] = [extra[k] EXCEPT !.validation = @ + 1]]
      BY <1>1, <1>2, <2>1 DEF Extras
    <3> QED BY <1>1, <1>6, <2>1, <3>1 DEF Extras
  <2>2. CASE copy.why = "recovery"
    <3>1. extra' = [extra EXCEPT ![k] = [extra[k] EXCEPT !.recovery = @ + 1]]
      BY <1>1, <1>2, <2>2 DEF Extras
    <3> QED BY <1>1, <1>6, <2>2, <3>1 DEF Extras
  <2> QED BY <1>3, <2>1, <2>2
<1> HIDE DEF t, k
<1>8. Known(t, landed, extra', dropped, unseen')
  <2>1. ASSUME NEW d \in Operation, d # k PROVE KnowsOf(t, d, extra'[d], dropped[d], unseen')
    <3>1. KnowsOf(t, d, extra[d], dropped[d], unseen)
      BY <1>4 DEF Known
    <3> QED BY <1>2, <1>7, <2>1, <3>1 DEF KnowsOf
  <2>2. KnowsOf(t, k, extra'[k], dropped[k], unseen')
    <3>1. KnowsOf(t, k, extra[k], dropped[k], unseen)
      BY <1>1, <1>4 DEF Known
    <3>2. extra[k].validation \in Nat /\ extra[k].recovery \in Nat /\ t.rows[k].resv \in Nat
      BY <1>6 DEF Extras, OperationRow
    <3>3. CASE copy.why = "validation"
      BY <1>3, <1>6, <1>7, <3>1, <3>2, <3>3 DEF KnowsOf
    <3>4. CASE copy.why = "recovery"
      BY <1>3, <1>6, <1>7, <3>1, <3>2, <3>4 DEF KnowsOf
    <3> QED BY <1>3, <3>3, <3>4
  <2> QED BY <1>4, <2>1, <2>2 DEF Known
<1>9. Remembers(turn)' /\ Remembers(disk)' /\ Remembers(copy.turn)'
  BY <1>2, <1>5, <1>8, KnownIsNext
<1>10. LoopTypes'
  BY <1>1, <1>2, <1>5, <1>7 DEF LoopTypes, BatchIs, Extras
<1>11. ~again'
  BY <1>2, <1>3 DEF Dispatched, LoopsInv
<1> QED BY <1>5, <1>9, <1>10, <1>11 DEF LoopsInv, PermitIsSpent

(* An answer reaches the batch, and the session if it has the copy.         *)
LEMMA EndKeeps ==
    ASSUME LoopsInv, NEW exit \in {"completed", "timeout"}, NEW changed \in BOOLEAN,
           ToolEnds(exit, changed)
    PROVE  LoopsInv'
<1> DEFINE t == copy.turn
           k == copy.key
           f == Finished(t, k, exit, changed)
<1>1. /\ IsTurn(t) /\ IsTurn(turn) /\ IsTurn(disk) /\ BatchIs(copy) /\ landed \in Nat
      /\ k \in Operation
      /\ extra \in [Operation -> Extras] /\ dropped \in [Operation -> Nat]
      /\ unseen \subseteq Operation
  BY DEF LoopsInv, LoopTypes, BatchIs, Extras, ToolEnds
<1>2. /\ copy.at = "run"
      /\ landed' = landed + (IF changed THEN 1 ELSE 0)
      /\ turn' = IF copy.saved THEN copy'.turn ELSE turn
      /\ unseen' = unseen \ {k} /\ UNCHANGED <<disk, extra, dropped, again>>
  BY DEF ToolEnds
<1>3. copy' = [copy EXCEPT !.at = "next", !.key = "none", !.why = "none", !.turn = f]
  BY <1>1 DEF ToolEnds, BatchIs
<1>4. IsTurn(f) /\ f.edits = t.edits + (IF changed THEN 1 ELSE 0)
  BY <1>1, FinishedIs
<1>5. copy'.turn = f /\ copy'.at = "next" /\ BatchIs(copy')
  <2> HIDE DEF f
  <2> QED BY <1>1, <1>3 DEF BatchIs
<1>6. /\ Known(turn, landed, extra, dropped, unseen)
      /\ Known(disk, landed, extra, dropped, unseen)
      /\ Known(t, landed, extra, dropped, unseen)
  BY <1>2, KnownIs DEF LoopsInv
<1>7. landed' \in Nat /\ landed <= landed'
  BY <1>1, <1>2
<1>8. ASSUME NEW d \in Operation PROVE KnowsOf(f, d, extra[d], dropped[d], unseen \ {k})
  <2>1. KnowsOf(t, d, extra[d], dropped[d], unseen) /\ extra[d] \in Extras /\ dropped[d] \in Nat
    BY <1>1, <1>6 DEF Known
  <2> QED BY <1>1, <2>1, FinishedIsKnown
<1>9. f.edits <= landed'
  <2>1. t.edits \in Nat /\ t.edits <= landed
    BY <1>1, <1>6, RowsAre DEF Known
  <2> HIDE DEF f
  <2> QED BY <1>1, <1>2, <1>4, <2>1
<1>10. Known(f, landed', extra, dropped, unseen')
  <2> HIDE DEF f
  <2> QED BY <1>2, <1>8, <1>9 DEF Known
<1>11. /\ Known(turn, landed', extra, dropped, unseen')
       /\ Known(disk, landed', extra, dropped, unseen')
  <2>1. turn.edits \in Nat /\ disk.edits \in Nat
    BY <1>1, RowsAre
  <2>2. \A d \in Operation : extra[d] \in Extras /\ dropped[d] <= dropped[d]
    BY <1>1
  <2>3. unseen' \in SUBSET unseen
    BY <1>2
  <2>4. Known(turn, landed', extra, dropped, unseen')
    BY <1>1, <1>6, <1>7, <2>1, <2>2, <2>3, KnownStays
  <2>5. Known(disk, landed', extra, dropped, unseen')
    BY <1>1, <1>6, <1>7, <2>1, <2>2, <2>3, KnownStays
  <2> QED BY <2>4, <2>5
<1> HIDE DEF f
<1>12. Known(turn', landed', extra, dropped, unseen') /\ IsTurn(turn')
  BY <1>1, <1>2, <1>4, <1>5, <1>10, <1>11
<1>13. Remembers(turn)' /\ Remembers(disk)' /\ Remembers(copy.turn)'
  BY <1>2, <1>5, <1>10, <1>11, <1>12, KnownIsNext
<1>14. LoopTypes'
  BY <1>1, <1>2, <1>4, <1>5, <1>7, <1>12 DEF LoopTypes, BatchIs, Extras
<1> QED BY <1>2, <1>5, <1>13, <1>14 DEF LoopsInv, PermitIsSpent

(* A failed save leaves its extra run undispatched.                         *)
LEMMA FailKeeps ==
    ASSUME LoopsInv, SaveFails
    PROVE  LoopsInv'
<1> DEFINE t == copy.turn
           k == copy.key
           u == Released(t, k)
<1>1. /\ IsTurn(t) /\ IsTurn(disk) /\ landed \in Nat /\ k \in Operation
      /\ extra \in [Operation -> Extras] /\ dropped \in [Operation -> Nat]
      /\ unseen \subseteq Operation
  BY DEF LoopsInv, LoopTypes, Extras, SaveFails
<1>2. /\ copy.at = "save" /\ turn' = u /\ copy' = NoBatch
      /\ UNCHANGED <<disk, landed, extra, dropped, unseen, again>>
  BY DEF SaveFails
<1>3. k \in DOMAIN t.rows /\ k \notin unseen
  BY <1>2 DEF LoopsInv, PermitIsSpent
<1>4. Known(t, landed, extra, dropped, unseen) /\ Known(disk, landed, extra, dropped, unseen)
  BY <1>2, KnownIs DEF LoopsInv
<1>5. IsTurn(u) /\ u.edits = t.edits
  BY <1>1, <1>3, ReleasedIs
<1>6. ASSUME NEW d \in Operation PROVE KnowsOf(u, d, extra[d], dropped[d], unseen)
  <2>1. KnowsOf(t, d, extra[d], dropped[d], unseen)
    BY <1>4 DEF Known
  <2> QED BY <1>1, <1>3, <2>1, ReleasedIsKnown
<1> HIDE DEF u
<1>7. Known(u, landed, extra, dropped, unseen)
  BY <1>4, <1>5, <1>6 DEF Known
<1>8. Remembers(turn)' /\ Remembers(disk)'
  BY <1>2, <1>4, <1>7, KnownIsNext
<1>9. copy'.at = "none" /\ copy'.turn = NoTurn /\ BatchIs(copy')
  BY <1>2 DEF NoBatch, BatchIs
<1>10. LoopTypes'
  BY <1>1, <1>2, <1>5, <1>9, NoTurnIs DEF LoopTypes, BatchIs, Extras
<1> QED BY <1>2, <1>8, <1>9, <1>10 DEF LoopsInv, PermitIsSpent

(* The rest only copies one copy over another.                              *)
LEMMA CopyKeeps ==
    ASSUME LoopsInv, BatchStarts \/ BatchEnds \/ Autosave \/ ProcessDies \/ UNCHANGED loopVars
    PROVE  LoopsInv'
<1>1. /\ IsTurn(turn) /\ IsTurn(disk) /\ IsTurn(copy.turn) /\ BatchIs(copy) /\ landed \in Nat
      /\ extra \in [Operation -> Extras] /\ dropped \in [Operation -> Nat]
      /\ unseen \subseteq Operation
  BY DEF LoopsInv, LoopTypes, BatchIs, Extras
<1>2. /\ Known(turn, landed, extra, dropped, unseen)
      /\ Known(disk, landed, extra, dropped, unseen)
      /\ copy.at # "none" => Known(copy.turn, landed, extra, dropped, unseen)
  BY KnownIs DEF LoopsInv
<1>3. CASE BatchStarts
  <2>1. /\ copy'.at = "next" /\ copy'.turn = turn /\ BatchIs(copy')
        /\ UNCHANGED <<turn, disk, landed, extra, dropped, unseen, again>>
    BY <1>3 DEF BatchStarts, BatchIs
  <2>2. Remembers(turn)' /\ Remembers(disk)' /\ Remembers(copy.turn)'
    BY <1>2, <2>1, KnownIsNext
  <2>3. LoopTypes'
    BY <1>1, <2>1 DEF LoopTypes, BatchIs, Extras
  <2> QED BY <2>1, <2>2, <2>3 DEF LoopsInv, PermitIsSpent
<1>4. CASE BatchEnds
  <2>1. /\ copy'.at = "none" /\ copy'.turn = NoTurn /\ BatchIs(copy') /\ turn' = copy.turn
        /\ copy.at = "next" /\ UNCHANGED <<disk, landed, extra, dropped, unseen, again>>
    BY <1>4 DEF BatchEnds, BatchIs, NoBatch
  <2>2. Remembers(turn)' /\ Remembers(disk)'
    BY <1>2, <2>1, KnownIsNext
  <2>3. LoopTypes'
    BY <1>1, <2>1, NoTurnIs DEF LoopTypes, BatchIs, Extras
  <2> QED BY <2>1, <2>2, <2>3 DEF LoopsInv, PermitIsSpent
<1>5. CASE Autosave
  <2>1. disk' = turn /\ UNCHANGED <<turn, copy, landed, extra, dropped, unseen, again>>
    BY <1>5 DEF Autosave
  <2>2. /\ Remembers(turn)' /\ Remembers(disk)'
        /\ copy.at # "none" => Remembers(copy.turn)'
    BY <1>2, <2>1, KnownIsNext
  <2>3. LoopTypes'
    BY <1>1, <2>1 DEF LoopTypes, BatchIs, LoopsInv
  <2>4. PermitIsSpent'
    BY <2>1 DEF LoopsInv, PermitIsSpent
  <2> QED BY <2>1, <2>2, <2>3, <2>4 DEF LoopsInv
<1>6. CASE ProcessDies
  <2>1. /\ copy'.at = "none" /\ copy'.turn = NoTurn /\ BatchIs(copy') /\ turn' = disk
        /\ UNCHANGED <<disk, extra, dropped, unseen, again>>
        /\ landed' \in Nat /\ landed <= landed'
    BY <1>1, <1>6 DEF ProcessDies, BatchIs, NoBatch
  <2>2. Known(disk, landed', extra, dropped, unseen)
    <3>1. disk.edits \in Nat /\ \A d \in Operation : extra[d] \in Extras /\ dropped[d] <= dropped[d]
      BY <1>1, RowsAre
    <3> QED BY <1>1, <1>2, <2>1, <3>1, KnownStays
  <2>3. Remembers(turn)' /\ Remembers(disk)'
    BY <2>1, <2>2, KnownIsNext
  <2>4. LoopTypes'
    BY <1>1, <2>1, NoTurnIs DEF LoopTypes, BatchIs, Extras
  <2> QED BY <2>1, <2>3, <2>4 DEF LoopsInv, PermitIsSpent
<1>7. CASE UNCHANGED loopVars
  <2>1. UNCHANGED <<turn, copy, disk, landed, extra, dropped, unseen, again>>
    BY <1>7 DEF loopVars
  <2>2. /\ Remembers(turn)' /\ Remembers(disk)'
        /\ copy.at # "none" => Remembers(copy.turn)'
    BY <1>2, <2>1, KnownIsNext
  <2>3. LoopTypes'
    BY <1>1, <2>1 DEF LoopTypes, LoopsInv
  <2>4. PermitIsSpent'
    BY <2>1 DEF LoopsInv, PermitIsSpent
  <2> QED BY <2>1, <2>2, <2>3, <2>4 DEF LoopsInv
<1> QED BY <1>3, <1>4, <1>5, <1>6, <1>7

(* Every step keeps the invariant.                                          *)
LEMMA LoopsKept == LoopsInv /\ [LoopsNext]_loopVars => LoopsInv'
BY CallKeeps, SaveKeeps, EndKeeps, FailKeeps, CopyKeeps DEF LoopsNext

(* A repeated operation gets no more validating runs than edits have        *)
(* landed, one recovery for each time it entered the window, and is not run *)
(* again while the outcome of an extra run is open (LoopState.reserve,      *)
(* _checkpoint_loop_reservation).                                           *)
THEOREM ExtraRunsStayPaid == LoopsSpec => []ExtraRunsArePaid
<1>1. LoopsInv => ExtraRunsArePaid
  <2> SUFFICES ASSUME LoopsInv PROVE ExtraRunsArePaid
    OBVIOUS
  <2>1. Known(turn, landed, extra, dropped, unseen) /\ ~again
    BY KnownIs DEF LoopsInv
  <2>2. turn.edits \in Nat /\ landed \in Nat
    BY RowsAre DEF LoopsInv, LoopTypes
  <2>3. ASSUME NEW k \in Operation
        PROVE  extra[k].validation <= landed /\ extra[k].recovery <= 1 + dropped[k]
    <3>1. extra[k].validation \in Nat
      BY DEF LoopsInv, LoopTypes
    <3>2. KnowsOf(turn, k, extra[k], dropped[k], unseen) /\ turn.edits <= landed
      BY <2>1 DEF Known
    <3> QED BY <2>2, <3>1, <3>2 DEF KnowsOf
  <2> QED BY <2>1, <2>3 DEF ExtraRunsArePaid
<1> QED BY LoopsStart, LoopsKept, <1>1, PTL DEF LoopsSpec
=============================================================================

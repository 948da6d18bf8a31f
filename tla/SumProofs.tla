------------------------------ MODULE SumProofs ------------------------------
(***************************************************************************)
(* What the sum of a function over a finite set is: SumFunctionOnSet of the *)
(* community modules adds the values up in an order that CHOOSE picks; here *)
(* the order is shown not to matter.  The library's induction theorems take *)
(* an operator, so the inductions below look at the least counterexample.   *)
(***************************************************************************)
EXTENDS Integers, Sequences, FiniteSets, Functions, FiniteSetTheorems, WellFoundedInduction, TLAPS

(* A non-empty set of natural numbers has a least element.                  *)
LEMMA LeastNumber ==
    ASSUME NEW T, T \subseteq Nat, T # {}
    PROVE  \E n \in T : \A m \in T : n <= m
<1>1. IsWellFoundedOn({ss \in Nat \X Nat : ss[1] < ss[2]}, Nat)
  BY NatLessThanWellFounded DEF OpToRel
<1>2. PICK n \in T : \A m \in T : ~ (<<m, n>> \in {ss \in Nat \X Nat : ss[1] < ss[2]})
  BY <1>1, WFMin
<1>3. \A m \in T : <<m, n>> \in Nat \X Nat /\ <<m, n>>[1] = m /\ <<m, n>>[2] = n
  OBVIOUS
<1>4. \A m \in T : ~ (m < n)
  BY <1>2, <1>3
<1> QED BY <1>4

(* Among some subsets of a finite set there is one none of whose proper     *)
(* subsets is among them.                                                   *)
LEMMA SmallestSet ==
    ASSUME NEW S, IsFiniteSet(S), NEW T, T \subseteq SUBSET S, T # {}
    PROVE  \E s \in T : \A t \in SUBSET s : t \in T => t = s
<1> DEFINE Sizes == {Cardinality(s) : s \in T}
<1>1. \A s \in T : IsFiniteSet(s) /\ Cardinality(s) \in Nat
  BY FS_Subset, FS_CardinalityType
<1>2. PICK n \in Sizes : \A m \in Sizes : n <= m
  <2>1. Sizes \subseteq Nat /\ Sizes # {}
    BY <1>1
  <2> HIDE DEF Sizes
  <2> QED BY <2>1, LeastNumber
<1>3. PICK s \in T : Cardinality(s) = n
  OBVIOUS
<1>4. ASSUME NEW t \in SUBSET s, t \in T PROVE t = s
  <2>1. Cardinality(t) <= Cardinality(s) /\ (Cardinality(s) = Cardinality(t) => s = t)
    BY <1>1, <1>3, FS_Subset
  <2>2. Cardinality(s) <= Cardinality(t)
    BY <1>2, <1>3, <1>4
  <2> QED BY <1>1, <1>3, <1>4, <2>1, <2>2
<1> QED BY <1>3, <1>4

-----------------------------------------------------------------------------
(* The table of the sums over all subsets *)

FirstOf(s) == CHOOSE x \in s : TRUE
SumRow(F, w, s) == IF s = {} THEN 0 ELSE w[FirstOf(s)] + F[s \ {FirstOf(s)}]
SumTable(F, w, S) == F = [s \in SUBSET S |-> SumRow(F, w, s)]
SubsetsUpTo(S, n) == {s \in SUBSET S : Cardinality(s) <= n}

LEMMA FirstIsOne ==
    ASSUME NEW s, s # {}
    PROVE  FirstOf(s) \in s
BY DEF FirstOf

(* What is left of a set without its first element is smaller.              *)
LEMMA RestIsSmaller ==
    ASSUME NEW S, IsFiniteSet(S), NEW s \in SUBSET S, s # {}
    PROVE  /\ s \ {FirstOf(s)} \in SUBSET S
           /\ Cardinality(s) \in Nat \ {0}
           /\ Cardinality(s \ {FirstOf(s)}) = Cardinality(s) - 1
<1>1. FirstOf(s) \in s
  BY FirstIsOne
<1>2. IsFiniteSet(s) /\ Cardinality(s) \in Nat
  BY FS_Subset, FS_CardinalityType
<1>3. Cardinality(s) # 0
  BY <1>2, FS_EmptySet
<1>4. Cardinality(s \ {FirstOf(s)}) = Cardinality(s) - 1
  BY <1>1, <1>2, FS_RemoveElement
<1> QED BY <1>2, <1>3, <1>4

LEMMA TableExists ==
    ASSUME NEW S, IsFiniteSet(S), NEW w
    PROVE  \E F : SumTable(F, w, S)
<1> DEFINE Level(F, n) == F = [s \in SubsetsUpTo(S, n) |-> SumRow(F, w, s)]
           Missing == {n \in Nat : ~ \E F : Level(F, n)}
<1>1. Missing = {}
  <2> SUFFICES ASSUME Missing # {} PROVE FALSE
    OBVIOUS
  <2>1. Missing \subseteq Nat
    OBVIOUS
  <2> HIDE DEF Missing
  <2>2. PICK n \in Missing : \A m \in Missing : n <= m
    BY <2>1, LeastNumber
  <2> USE DEF Missing
  <2>3. n \in Nat /\ ~ \E F : Level(F, n)
    BY <2>2
  <2>4. CASE n = 0
    <3> DEFINE F == [s \in SubsetsUpTo(S, 0) |-> 0]
    <3>1. \A s \in SubsetsUpTo(S, 0) : s = {}
      <4> SUFFICES ASSUME NEW s \in SUBSET S, Cardinality(s) <= 0, s # {} PROVE FALSE
        BY DEF SubsetsUpTo
      <4>1. Cardinality(s) \in Nat \ {0}
        BY RestIsSmaller
      <4> QED BY <4>1
    <3>2. \A s \in SubsetsUpTo(S, 0) : SumRow(F, w, s) = 0
      BY <3>1 DEF SumRow
    <3>3. Level(F, 0)
      BY <3>2
    <3> QED BY <2>3, <2>4, <3>3
  <2>5. CASE n # 0
    <3>1. n - 1 \in Nat /\ ~ (n <= n - 1)
      BY <2>3, <2>5
    <3>2. PICK G : Level(G, n - 1)
      BY <2>2, <3>1
    <3> DEFINE F == [s \in SubsetsUpTo(S, n) |-> SumRow(G, w, s)]
    <3>3. ASSUME NEW s \in SubsetsUpTo(S, n), s # {}
          PROVE  s \ {FirstOf(s)} \in SubsetsUpTo(S, n - 1) /\ s \ {FirstOf(s)} \in SubsetsUpTo(S, n)
      BY <2>3, <3>3, RestIsSmaller DEF SubsetsUpTo
    <3>4. ASSUME NEW s \in SubsetsUpTo(S, n - 1)
          PROVE  G[s] = SumRow(G, w, s)
      BY <3>2
    <3>5. ASSUME NEW s \in SubsetsUpTo(S, n) PROVE SumRow(G, w, s) = SumRow(F, w, s)
      <4>1. CASE s = {}
        BY <4>1 DEF SumRow
      <4>2. CASE s # {}
        <5>1. F[s \ {FirstOf(s)}] = SumRow(G, w, s \ {FirstOf(s)})
          BY <3>3, <4>2
        <5>2. F[s \ {FirstOf(s)}] = G[s \ {FirstOf(s)}]
          BY <3>3, <3>4, <4>2, <5>1
        <5> QED BY <4>2, <5>2 DEF SumRow
      <4> QED BY <4>1, <4>2
    <3>6. Level(F, n)
      BY <3>5
    <3> QED BY <2>3, <3>6
  <2> QED BY <2>4, <2>5
<1>2. Cardinality(S) \in Nat
  BY FS_CardinalityType
<1>3. PICK F : Level(F, Cardinality(S))
  BY <1>1, <1>2
<1>4. SubsetsUpTo(S, Cardinality(S)) = SUBSET S
  BY FS_Subset DEF SubsetsUpTo
<1> QED BY <1>3, <1>4 DEF SumTable

(* The sum is an entry of such a table.                                     *)
LEMMA SumIsInTable ==
    ASSUME NEW S, IsFiniteSet(S), NEW w
    PROVE  \E F : SumTable(F, w, S) /\ SumFunctionOnSet(w, S) = F[S]
<1> DEFINE C == CHOOSE F : SumTable(F, w, S)
<1>1. SumTable(C, w, S)
  BY TableExists
<1>2. SumFunctionOnSet(w, S) = C[S]
  BY DEF SumFunctionOnSet, FoldFunctionOnSet, MapThenFoldSet, SumTable, SumRow, FirstOf
<1> QED BY <1>1, <1>2

-----------------------------------------------------------------------------
(* The table of w over S does not depend on the order of the additions, and *)
(* the tables of all its subsets are parts of it.                           *)

LEMMA TableRows ==
    ASSUME NEW S, IsFiniteSet(S), NEW w, \A x \in S : w[x] \in Int,
           NEW F, SumTable(F, w, S)
    PROVE  /\ F[{}] = 0
           /\ \A s \in SUBSET S : F[s] \in Int /\ \A x \in s : F[s] = w[x] + F[s \ {x}]
<1> DEFINE Good(s) == F[s] \in Int /\ \A x \in s : F[s] = w[x] + F[s \ {x}]
           Bad == {s \in SUBSET S : ~ Good(s)}
<1>1. \A s \in SUBSET S : F[s] = SumRow(F, w, s)
  BY DEF SumTable
<1>2. F[{}] = 0
  BY <1>1 DEF SumRow
<1>3. Bad = {}
  <2> SUFFICES ASSUME Bad # {} PROVE FALSE
    OBVIOUS
  <2>1. Bad \subseteq SUBSET S
    OBVIOUS
  <2> HIDE DEF Bad
  <2>2. PICK s \in Bad : \A t \in SUBSET s : t \in Bad => t = s
    BY <2>1, SmallestSet
  <2>3. s \in SUBSET S /\ ~ Good(s)
    BY <2>2 DEF Bad
  <2>4. ASSUME NEW x \in s PROVE Good(s \ {x})
    BY <2>2, <2>3 DEF Bad
  <2>5. s # {}
    BY <1>2, <2>3
  <2> DEFINE f == FirstOf(s)
  <2>6. f \in s /\ f \in S
    BY <2>3, <2>5, FirstIsOne
  <2>7. F[s] = w[f] + F[s \ {f}]
    BY <1>1, <2>3, <2>5 DEF SumRow
  <2> HIDE DEF f, Good
  <2>8. \A x \in s : F[s \ {x}] \in Int /\ \A y \in s \ {x} : F[s \ {x}] = w[y] + F[(s \ {x}) \ {y}]
    BY <2>4 DEF Good
  <2>9. F[s] \in Int
    BY <2>6, <2>7, <2>8
  <2>10. ASSUME NEW x \in s PROVE F[s] = w[x] + F[s \ {x}]
    <3>1. CASE x = f
      BY <2>7, <3>1
    <3>2. CASE x # f
      <4>1. (s \ {x}) \ {f} = (s \ {f}) \ {x}
        OBVIOUS
      <4>2. F[s \ {x}] = w[f] + F[(s \ {x}) \ {f}] /\ F[s \ {f}] = w[x] + F[(s \ {f}) \ {x}]
        BY <2>6, <2>8, <3>2
      <4>3. (s \ {x}) \ {f} \in SUBSET s /\ (s \ {x}) \ {f} # s
        BY <2>6
      <4>4. F[(s \ {x}) \ {f}] \in Int
        BY <4>3, <2>2, <2>3 DEF Bad, Good
      <4>5. w[x] \in Int /\ w[f] \in Int
        BY <2>3, <2>6
      <4>6. F[s \ {f}] = w[x] + F[(s \ {x}) \ {f}]
        BY <4>1, <4>2
      <4> QED BY <2>7, <4>2, <4>4, <4>5, <4>6
    <3> QED BY <3>1, <3>2
  <2> QED BY <2>3, <2>9, <2>10 DEF Good
<1> QED BY <1>2, <1>3

LEMMA TablesAgree ==
    ASSUME NEW S, IsFiniteSet(S), NEW w, NEW v, NEW F, SumTable(F, w, S),
           NEW s \in SUBSET S, NEW G, SumTable(G, v, s), \A x \in s : w[x] = v[x]
    PROVE  F[s] = G[s]
<1> DEFINE Bad == {t \in SUBSET s : F[t] # G[t]}
<1>1. \A t \in SUBSET s : F[t] = SumRow(F, w, t) /\ G[t] = SumRow(G, v, t)
  BY DEF SumTable
<1>2. Bad = {}
  <2> SUFFICES ASSUME Bad # {} PROVE FALSE
    OBVIOUS
  <2>1. Bad \subseteq SUBSET s /\ IsFiniteSet(s)
    BY FS_Subset
  <2> HIDE DEF Bad
  <2>2. PICK t \in Bad : \A u \in SUBSET t : u \in Bad => u = t
    BY <2>1, SmallestSet
  <2>3. t \in SUBSET s /\ F[t] # G[t]
    BY <2>2 DEF Bad
  <2>4. t # {}
    BY <1>1, <2>3 DEF SumRow
  <2>5. FirstOf(t) \in t
    BY <2>4, FirstIsOne
  <2>6. F[t \ {FirstOf(t)}] = G[t \ {FirstOf(t)}]
    BY <2>2, <2>3, <2>5 DEF Bad
  <2>7. w[FirstOf(t)] = v[FirstOf(t)]
    BY <2>3, <2>5
  <2> QED BY <1>1, <2>3, <2>4, <2>6, <2>7 DEF SumRow
<1> QED BY <1>2

-----------------------------------------------------------------------------
(* Sums *)

(* Functions that agree on a set have the same sum over it.                 *)
LEMMA SumAgrees ==
    ASSUME NEW S, IsFiniteSet(S), NEW w, NEW v, \A x \in S : w[x] = v[x]
    PROVE  SumFunctionOnSet(w, S) = SumFunctionOnSet(v, S)
<1>1. PICK F : SumTable(F, w, S) /\ SumFunctionOnSet(w, S) = F[S]
  BY SumIsInTable
<1>2. PICK G : SumTable(G, v, S) /\ SumFunctionOnSet(v, S) = G[S]
  BY SumIsInTable
<1> QED BY <1>1, <1>2, TablesAgree

(* A sum is any one of its terms and the sum of the others.                 *)
LEMMA SumSplits ==
    ASSUME NEW S, IsFiniteSet(S), NEW w, \A x \in S : w[x] \in Int
    PROVE  /\ SumFunctionOnSet(w, S) \in Int
           /\ S = {} => SumFunctionOnSet(w, S) = 0
           /\ \A x \in S : SumFunctionOnSet(w, S) = w[x] + SumFunctionOnSet(w, S \ {x})
<1>1. PICK F : SumTable(F, w, S) /\ SumFunctionOnSet(w, S) = F[S]
  BY SumIsInTable
<1>2. ASSUME NEW s \in SUBSET S PROVE SumFunctionOnSet(w, s) = F[s]
  <2>1. IsFiniteSet(s)
    BY FS_Subset
  <2>2. PICK G : SumTable(G, w, s) /\ SumFunctionOnSet(w, s) = G[s]
    BY <2>1, SumIsInTable
  <2> QED BY <1>1, <2>2, TablesAgree
<1>3. /\ F[{}] = 0
      /\ \A s \in SUBSET S : F[s] \in Int /\ \A x \in s : F[s] = w[x] + F[s \ {x}]
  BY <1>1, TableRows
<1>4. \A x \in S : SumFunctionOnSet(w, S \ {x}) = F[S \ {x}]
  BY <1>2
<1> QED BY <1>1, <1>3, <1>4

(* Smaller terms have a smaller sum.                                        *)
LEMMA SumGrows ==
    ASSUME NEW S, IsFiniteSet(S), NEW w, NEW v,
           \A x \in S : w[x] \in Int /\ v[x] \in Int /\ w[x] <= v[x]
    PROVE  SumFunctionOnSet(w, S) <= SumFunctionOnSet(v, S)
<1> DEFINE Bad == {s \in SUBSET S : ~ (SumFunctionOnSet(w, s) <= SumFunctionOnSet(v, s))}
<1>1. Bad = {}
  <2> SUFFICES ASSUME Bad # {} PROVE FALSE
    OBVIOUS
  <2>1. Bad \subseteq SUBSET S
    OBVIOUS
  <2> HIDE DEF Bad
  <2>2. PICK s \in Bad : \A t \in SUBSET s : t \in Bad => t = s
    BY <2>1, SmallestSet
  <2>3. s \in SUBSET S /\ ~ (SumFunctionOnSet(w, s) <= SumFunctionOnSet(v, s)) /\ IsFiniteSet(s)
    BY <2>2, FS_Subset DEF Bad
  <2>4. /\ s = {} => SumFunctionOnSet(w, s) = 0 /\ SumFunctionOnSet(v, s) = 0
        /\ \A x \in s : /\ SumFunctionOnSet(w, s) = w[x] + SumFunctionOnSet(w, s \ {x})
                        /\ SumFunctionOnSet(v, s) = v[x] + SumFunctionOnSet(v, s \ {x})
    BY <2>3, SumSplits
  <2>5. PICK x \in s : TRUE
    BY <2>3, <2>4
  <2>6. s \ {x} \in SUBSET S /\ IsFiniteSet(s \ {x})
    BY <2>3, FS_Subset
  <2>7. SumFunctionOnSet(w, s \ {x}) <= SumFunctionOnSet(v, s \ {x})
    BY <2>2, <2>3, <2>5, <2>6 DEF Bad
  <2>8. SumFunctionOnSet(w, s \ {x}) \in Int /\ SumFunctionOnSet(v, s \ {x}) \in Int
    BY <2>6, SumSplits
  <2>9. w[x] \in Int /\ v[x] \in Int /\ w[x] <= v[x]
    BY <2>3, <2>5
  <2> QED BY <2>3, <2>4, <2>5, <2>7, <2>8, <2>9
<1> QED BY <1>1

(* What a change of one term does to the sum.                               *)
LEMMA SumChanges ==
    ASSUME NEW S, IsFiniteSet(S), NEW w, NEW v, NEW a \in S,
           \A x \in S : w[x] \in Int /\ v[x] \in Int,
           \A x \in S \ {a} : w[x] = v[x]
    PROVE  SumFunctionOnSet(v, S) = SumFunctionOnSet(w, S) - w[a] + v[a]
<1>1. IsFiniteSet(S \ {a})
  BY FS_Subset
<1>2. SumFunctionOnSet(w, S \ {a}) = SumFunctionOnSet(v, S \ {a})
  BY <1>1, SumAgrees
<1>3. SumFunctionOnSet(w, S \ {a}) \in Int
  BY <1>1, SumSplits
<1>4. /\ SumFunctionOnSet(w, S) = w[a] + SumFunctionOnSet(w, S \ {a})
      /\ SumFunctionOnSet(v, S) = v[a] + SumFunctionOnSet(v, S \ {a})
  BY SumSplits
<1> QED BY <1>2, <1>3, <1>4

(* A sum of zeros is zero.                                                  *)
LEMMA SumOfZeros ==
    ASSUME NEW S, IsFiniteSet(S), NEW z, \A x \in S : z[x] = 0
    PROVE  SumFunctionOnSet(z, S) = 0
<1> DEFINE Bad == {s \in SUBSET S : SumFunctionOnSet(z, s) # 0}
<1> SUFFICES ASSUME Bad # {} PROVE FALSE
  OBVIOUS
<1>1. Bad \subseteq SUBSET S
  OBVIOUS
<1> HIDE DEF Bad
<1>2. PICK s \in Bad : \A t \in SUBSET s : t \in Bad => t = s
  BY <1>1, SmallestSet
<1>3. s \in SUBSET S /\ SumFunctionOnSet(z, s) # 0 /\ IsFiniteSet(s)
  BY <1>2, FS_Subset DEF Bad
<1>4. \A x \in s : z[x] = 0
  BY <1>3
<1>5. /\ s = {} => SumFunctionOnSet(z, s) = 0
      /\ \A x \in s : SumFunctionOnSet(z, s) = z[x] + SumFunctionOnSet(z, s \ {x})
  BY <1>3, <1>4, SumSplits
<1>6. PICK x \in s : TRUE
  BY <1>3, <1>5
<1>7. SumFunctionOnSet(z, s \ {x}) = 0
  BY <1>2, <1>3, <1>6 DEF Bad
<1> QED BY <1>3, <1>4, <1>5, <1>6, <1>7

(* A sum of natural numbers is one.                                         *)
LEMMA SumIsNat ==
    ASSUME NEW S, IsFiniteSet(S), NEW w, \A x \in S : w[x] \in Nat
    PROVE  SumFunctionOnSet(w, S) \in Nat
<1> DEFINE z == [x \in S |-> 0]
<1>1. SumFunctionOnSet(z, S) <= SumFunctionOnSet(w, S)
  BY SumGrows
<1>2. SumFunctionOnSet(z, S) = 0
  BY SumOfZeros
<1>3. SumFunctionOnSet(w, S) \in Int
  BY SumSplits
<1> QED BY <1>1, <1>2, <1>3

(* Sums are added term by term.                                             *)
LEMMA SumAdds ==
    ASSUME NEW S, IsFiniteSet(S), NEW w, NEW v, NEW u,
           \A x \in S : w[x] \in Int /\ v[x] \in Int /\ u[x] = w[x] + v[x]
    PROVE  SumFunctionOnSet(u, S) = SumFunctionOnSet(w, S) + SumFunctionOnSet(v, S)
<1> DEFINE Bad == {s \in SUBSET S :
                     SumFunctionOnSet(u, s) # SumFunctionOnSet(w, s) + SumFunctionOnSet(v, s)}
<1> SUFFICES ASSUME Bad # {} PROVE FALSE
  OBVIOUS
<1>1. Bad \subseteq SUBSET S
  OBVIOUS
<1> HIDE DEF Bad
<1>2. PICK s \in Bad : \A t \in SUBSET s : t \in Bad => t = s
  BY <1>1, SmallestSet
<1>3. /\ s \in SUBSET S /\ IsFiniteSet(s)
      /\ SumFunctionOnSet(u, s) # SumFunctionOnSet(w, s) + SumFunctionOnSet(v, s)
  BY <1>2, FS_Subset DEF Bad
<1>4. \A x \in s : w[x] \in Int /\ v[x] \in Int /\ u[x] \in Int /\ u[x] = w[x] + v[x]
  BY <1>3
<1>5. /\ s = {} => SumFunctionOnSet(u, s) = 0 /\ SumFunctionOnSet(w, s) = 0
                   /\ SumFunctionOnSet(v, s) = 0
      /\ \A x \in s : /\ SumFunctionOnSet(u, s) = u[x] + SumFunctionOnSet(u, s \ {x})
                      /\ SumFunctionOnSet(w, s) = w[x] + SumFunctionOnSet(w, s \ {x})
                      /\ SumFunctionOnSet(v, s) = v[x] + SumFunctionOnSet(v, s \ {x})
  BY <1>3, <1>4, SumSplits
<1>6. PICK x \in s : TRUE
  BY <1>3, <1>5
<1>7. s \ {x} \in SUBSET S /\ IsFiniteSet(s \ {x})
  BY <1>3, FS_Subset
<1>8. SumFunctionOnSet(u, s \ {x}) = SumFunctionOnSet(w, s \ {x}) + SumFunctionOnSet(v, s \ {x})
  BY <1>2, <1>3, <1>6, <1>7 DEF Bad
<1>9. SumFunctionOnSet(w, s \ {x}) \in Int /\ SumFunctionOnSet(v, s \ {x}) \in Int
  BY <1>4, <1>7, SumSplits
<1> QED BY <1>3, <1>4, <1>5, <1>6, <1>8, <1>9

(* A sum can be taken group by group: own names the group of a term, t has  *)
(* the sum of each group.                                                   *)
LEMMA SumByGroup ==
    ASSUME NEW S, IsFiniteSet(S), NEW I, IsFiniteSet(I), NEW own, NEW w,
           \A x \in S : w[x] \in Int /\ own[x] \in I
    PROVE  LET t == [i \in I |-> SumFunctionOnSet(w, {x \in S : own[x] = i})]
           IN  SumFunctionOnSet(w, S) = SumFunctionOnSet(t, I)
<1> DEFINE T(s) == [i \in I |-> SumFunctionOnSet(w, {x \in s : own[x] = i})]
           Bad == {s \in SUBSET S : SumFunctionOnSet(w, s) # SumFunctionOnSet(T(s), I)}
<1>1. Bad \subseteq SUBSET S
  OBVIOUS
<1>2. ASSUME Bad # {} PROVE FALSE
  <2> HIDE DEF Bad
  <2>1. PICK s \in Bad : \A q \in SUBSET s : q \in Bad => q = s
    BY <1>1, <1>2, SmallestSet
  <2>2. /\ s \in SUBSET S /\ IsFiniteSet(s)
        /\ SumFunctionOnSet(w, s) # SumFunctionOnSet(T(s), I)
    BY <2>1, FS_Subset DEF Bad
  <2>3. \A x \in s : w[x] \in Int /\ own[x] \in I
    BY <2>2
  <2>4. /\ s = {} => SumFunctionOnSet(w, s) = 0
        /\ \A x \in s : SumFunctionOnSet(w, s) = w[x] + SumFunctionOnSet(w, s \ {x})
    BY <2>2, <2>3, SumSplits
  <2>5. s # {}
    <3> SUFFICES ASSUME s = {} PROVE FALSE
      OBVIOUS
    <3>1. \A i \in I : {x \in s : own[x] = i} = {}
      OBVIOUS
    <3>2. \A x \in {} : w[x] \in Int
      OBVIOUS
    <3>3. SumFunctionOnSet(w, {}) = 0
      BY <3>2, FS_EmptySet, SumSplits
    <3>4. \A i \in I : T(s)[i] = 0
      BY <3>1, <3>3
    <3> HIDE DEF T
    <3>5. SumFunctionOnSet(T(s), I) = 0
      BY <3>4, SumOfZeros
    <3> QED BY <2>2, <2>4, <3>5
  <2>6. PICK y \in s : TRUE
    BY <2>5
  <2> DEFINE r == s \ {y}
  <2>7. r \in SUBSET s /\ r \in SUBSET S /\ IsFiniteSet(r) /\ r # s
    BY <2>2, <2>6, FS_Subset
  <2>8. SumFunctionOnSet(w, r) = SumFunctionOnSet(T(r), I)
    BY <2>1, <2>7 DEF Bad
  <2>9. ASSUME NEW i \in I
        PROVE  /\ T(r)[i] \in Int /\ T(s)[i] \in Int
               /\ T(s)[i] = T(r)[i] + (IF i = own[y] THEN w[y] ELSE 0)
    <3> DEFINE G == {x \in s : own[x] = i}
               H == {x \in r : own[x] = i}
    <3>1. IsFiniteSet(G) /\ IsFiniteSet(H)
      BY <2>2, <2>7, FS_Subset
    <3>2. \A x \in G : w[x] \in Int
      BY <2>3
    <3>3. \A x \in H : w[x] \in Int
      BY <2>3
    <3>4. y \in G <=> i = own[y]
      BY <2>6
    <3>5. H = G \ {y}
      OBVIOUS
    <3>6. T(r)[i] = SumFunctionOnSet(w, H) /\ T(s)[i] = SumFunctionOnSet(w, G)
      OBVIOUS
    <3> HIDE DEF G, H, T, r
    <3>7. SumFunctionOnSet(w, G) \in Int /\ SumFunctionOnSet(w, H) \in Int
      BY <3>1, <3>2, <3>3, SumSplits
    <3>8. y \in G => SumFunctionOnSet(w, G) = w[y] + SumFunctionOnSet(w, H)
      BY <3>1, <3>2, <3>5, SumSplits
    <3>9. y \notin G => H = G
      BY <3>5
    <3>10. w[y] \in Int
      BY <2>3, <2>6
    <3> QED BY <3>4, <3>6, <3>7, <3>8, <3>9, <3>10
  <2>10. own[y] \in I /\ w[y] \in Int
    BY <2>3, <2>6
  <2> HIDE DEF T, r
  <2>11. \A i \in I : T(r)[i] \in Int /\ T(s)[i] \in Int
    BY <2>9
  <2>12. \A i \in I \ {own[y]} : T(r)[i] = T(s)[i]
    BY <2>9
  <2>13. SumFunctionOnSet(T(s), I)
           = SumFunctionOnSet(T(r), I) - T(r)[own[y]] + T(s)[own[y]]
    BY <2>10, <2>11, <2>12, SumChanges
  <2>14. T(s)[own[y]] = T(r)[own[y]] + w[y] /\ T(r)[own[y]] \in Int
    BY <2>9, <2>10
  <2>15. SumFunctionOnSet(w, s) = w[y] + SumFunctionOnSet(w, r)
    BY <2>4, <2>6 DEF r
  <2>16. SumFunctionOnSet(T(r), I) \in Int
    BY <2>11, SumSplits
  <2> QED BY <2>2, <2>8, <2>10, <2>13, <2>14, <2>15, <2>16
<1>3. S \in SUBSET S
  OBVIOUS
<1>4. SumFunctionOnSet(w, S) = SumFunctionOnSet(T(S), I)
  BY <1>2, <1>3
<1> QED BY <1>4

-----------------------------------------------------------------------------
(* The sum of a sequence with one more element.                             *)
LEMMA SumAppends ==
    ASSUME NEW n \in Nat, NEW s, DOMAIN s = 1..n, NEW t, DOMAIN t = 1..(n + 1),
           \A i \in 1..(n + 1) : t[i] \in Int,
           \A i \in 1..n : t[i] = s[i]
    PROVE  SumFunction(t) = SumFunction(s) + t[n + 1]
<1>1. (1..(n + 1)) \ {n + 1} = 1..n /\ n + 1 \in 1..(n + 1) /\ \A i \in 1..n : i \in 1..(n + 1)
  OBVIOUS
<1>2. IsFiniteSet(1..n) /\ IsFiniteSet(1..(n + 1))
  BY FS_Interval
<1>3. SumFunctionOnSet(t, 1..(n + 1)) = t[n + 1] + SumFunctionOnSet(t, (1..(n + 1)) \ {n + 1})
  BY <1>1, <1>2, SumSplits
<1>4. SumFunctionOnSet(t, 1..n) = SumFunctionOnSet(s, 1..n) /\ SumFunctionOnSet(t, 1..n) \in Int
  BY <1>1, <1>2, SumAgrees, SumSplits
<1>5. t[n + 1] \in Int
  BY <1>1
<1>6. /\ SumFunction(t) = SumFunctionOnSet(t, 1..(n + 1))
      /\ SumFunction(s) = SumFunctionOnSet(s, 1..n)
  BY DEF SumFunction
<1>7. SumFunctionOnSet(t, 1..(n + 1)) = t[n + 1] + SumFunctionOnSet(t, 1..n)
  BY <1>1, <1>3
<1> QED BY <1>4, <1>5, <1>6, <1>7
=============================================================================

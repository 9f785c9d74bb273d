--------------------------- MODULE UserDataProofs ---------------------------
(***************************************************************************)
(* Lemmas about the operators of UserData: what InOrder reads of a set of  *)
(* places, and what the fold of Preview comes to, change by change.  Both  *)
(* are inductions over data; the library's induction theorems take an      *)
(* operator, so they are done over sets of naturals, from the theorem that *)
(* a well-founded relation has minimal elements.                           *)
(***************************************************************************)
EXTENDS UserData, FiniteSetTheorems, FunctionTheorems, SequenceTheorems, WellFoundedInduction, TLAPS

-----------------------------------------------------------------------------
(* Induction over the naturals, for a set of them: a set that does not hold *)
(* all of them has a least natural outside it.                              *)
LEMMA LeastNumber ==
  ASSUME NEW T, T \subseteq Nat, T # {}
  PROVE  \E x \in T : \A y \in T : x <= y
<1>1. PICK x \in T : \A y \in T : ~(<<y, x>> \in OpToRel(<, Nat))
  BY WFMin, NatLessThanWellFounded, Zenon
<1>2. \A y \in T : ~(y < x)
  BY <1>1 DEF OpToRel
<1> QED  BY <1>2

LEMMA NatSetInduction ==
  ASSUME NEW S, 0 \in S, \A n \in Nat : n \in S => n + 1 \in S
  PROVE  Nat \subseteq S
<1> DEFINE Rest == Nat \ S
<1> SUFFICES ASSUME Rest # {} PROVE FALSE
  OBVIOUS
<1>1. Rest \subseteq Nat
  OBVIOUS
<1>2. PICK x \in Rest : \A y \in Rest : x <= y
  <2> HIDE DEF Rest
  <2> QED  BY <1>1, LeastNumber
<1>3. x # 0
  OBVIOUS
<1>4. x - 1 \in Nat /\ x - 1 \in S
  BY <1>2, <1>3
<1> QED  BY <1>4

-----------------------------------------------------------------------------
(* An enumeration of a finite set of naturals, the smallest first. *)
Enumerates(e, S) ==
  /\ e \in [1..Cardinality(S) -> S]
  /\ \A i, j \in 1..Cardinality(S) : i < j => e[i] < e[j]
  /\ \A x \in S : \E i \in 1..Cardinality(S) : e[i] = x

(* Whatever lists the members of a set one after the other counts them. *)
Counts(h, n, S) ==
  /\ S \subseteq Nat
  /\ \A i \in 1..n : h[i] \in S
  /\ \A i, j \in 1..n : i < j => h[i] < h[j]
  /\ \A x \in S : \E i \in 1..n : h[i] = x

LEMMA CountedBy ==
  ASSUME NEW S, NEW n \in Nat, NEW h, Counts(h, n, S)
  PROVE  Cardinality(S) = n
<1> USE DEF Counts
<1> DEFINE b == [i \in 1..n |-> h[i]]
<1>1. \A i, j \in 1..n : h[i] = h[j] => i = j
  <2> TAKE i \in 1..n, j \in 1..n
  <2>1. (i < j => h[i] < h[j]) /\ (j < i => h[j] < h[i])
    OBVIOUS
  <2>2. h[i] \in Nat /\ h[j] \in Nat
    OBVIOUS
  <2> QED  BY <2>1, <2>2
<1>2. b \in Bijection(1..n, S)
  BY <1>1 DEF Bijection, Injection, Surjection, IsInjective
<1> QED  BY <1>2, FS_CountingElements DEF ExistsBijection

LEMMA HasGreatest ==
  ASSUME NEW S, S \subseteq Nat, IsFiniteSet(S), S # {}
  PROVE  \E m \in S : \A x \in S : x <= m
<1> DEFINE Greatest(T) == \E m \in T : \A x \in T : x <= m
           Good == {n \in Nat : \A T \in SUBSET Nat :
                      IsFiniteSet(T) /\ Cardinality(T) = n + 1 => Greatest(T)}
<1>1. 0 \in Good
  <2> SUFFICES ASSUME NEW T \in SUBSET Nat, IsFiniteSet(T), Cardinality(T) = 1
               PROVE Greatest(T)
    OBVIOUS
  <2>1. PICK m : T = {m}
    BY FS_Singleton
  <2> QED  BY <2>1
<1>2. ASSUME NEW n \in Nat, n \in Good PROVE n + 1 \in Good
  <2> SUFFICES ASSUME NEW T \in SUBSET Nat, IsFiniteSet(T), Cardinality(T) = n + 2
               PROVE Greatest(T)
    OBVIOUS
  <2>1. T # {}
    BY FS_EmptySet
  <2>2. PICK y \in T : TRUE
    BY <2>1
  <2> DEFINE R == T \ {y}
  <2>3. R \in SUBSET Nat /\ IsFiniteSet(R) /\ Cardinality(R) = n + 1
    BY <2>2, FS_RemoveElement
  <2>4. PICK m \in R : \A x \in R : x <= m
    BY <1>2, <2>3
  <2>5. \A x \in T : x <= m \/ x = y
    BY <2>4
  <2>6. CASE m <= y
    BY <2>4, <2>5, <2>6
  <2>7. CASE y <= m
    BY <2>4, <2>5, <2>7
  <2> QED  BY <2>2, <2>3, <2>6, <2>7
<1>3. Nat \subseteq Good
  <2> HIDE DEF Good
  <2> QED  BY <1>1, <1>2, NatSetInduction
<1>4. Cardinality(S) \in Nat /\ Cardinality(S) # 0
  BY FS_CardinalityType, FS_EmptySet
<1>5. Cardinality(S) - 1 \in Good /\ Cardinality(S) = (Cardinality(S) - 1) + 1
  BY <1>3, <1>4
<1> QED  BY <1>5

LEMMA EnumerationGrows ==
  ASSUME NEW S, S \subseteq Nat, IsFiniteSet(S), NEW m \in Nat, \A x \in S : x < m,
         NEW e, Enumerates(e, S)
  PROVE  /\ IsFiniteSet(S \cup {m}) /\ Cardinality(S \cup {m}) = Cardinality(S) + 1
         /\ Cardinality(S) \in Nat
         /\ Enumerates([i \in 1..Cardinality(S) + 1 |->
                          IF i = Cardinality(S) + 1 THEN m ELSE e[i]], S \cup {m})
<1>1. m \notin S
  OBVIOUS
<1>2. /\ IsFiniteSet(S \cup {m}) /\ Cardinality(S \cup {m}) = Cardinality(S) + 1
      /\ Cardinality(S) \in Nat
  BY <1>1, FS_AddElement, FS_CardinalityType
<1> DEFINE n == Cardinality(S)
           g == [i \in 1..n + 1 |-> IF i = n + 1 THEN m ELSE e[i]]
<1>3. g \in [1..n + 1 -> S \cup {m}]
  BY <1>2 DEF Enumerates
<1>4. \A i, j \in 1..n + 1 : i < j => g[i] < g[j]
  <2> TAKE i \in 1..n + 1, j \in 1..n + 1
  <2> HAVE i < j
  <2>1. i \in 1..n /\ e[i] \in S /\ g[i] = e[i]
    BY <1>2 DEF Enumerates
  <2>2. CASE j = n + 1
    BY <2>1, <2>2
  <2>3. CASE j # n + 1
    BY <1>2, <2>1, <2>3 DEF Enumerates
  <2> QED  BY <2>2, <2>3
<1>5. \A x \in S \cup {m} : \E i \in 1..n + 1 : g[i] = x
  <2>1. g[n + 1] = m /\ n + 1 \in 1..n + 1
    BY <1>2
  <2>2. \A x \in S : \E i \in 1..n + 1 : g[i] = x
    BY <1>2 DEF Enumerates
  <2> HIDE DEF g
  <2> QED  BY <2>1, <2>2
<1> QED  BY <1>2, <1>3, <1>4, <1>5 DEF Enumerates

LEMMA EnumerationExists ==
  ASSUME NEW S, S \subseteq Nat, IsFiniteSet(S)
  PROVE  \E e : Enumerates(e, S)
<1> DEFINE Good == {n \in Nat : \A T \in SUBSET Nat :
                      IsFiniteSet(T) /\ Cardinality(T) = n => \E e : Enumerates(e, T)}
<1>1. 0 \in Good
  <2> SUFFICES ASSUME NEW T \in SUBSET Nat, IsFiniteSet(T), Cardinality(T) = 0
               PROVE \E e : Enumerates(e, T)
    OBVIOUS
  <2>1. T = {}
    BY FS_EmptySet
  <2>2. Enumerates([i \in 1..0 |-> 0], T)
    BY <2>1 DEF Enumerates
  <2> QED  BY <2>2
<1>2. ASSUME NEW n \in Nat, n \in Good PROVE n + 1 \in Good
  <2> SUFFICES ASSUME NEW T \in SUBSET Nat, IsFiniteSet(T), Cardinality(T) = n + 1
               PROVE \E e : Enumerates(e, T)
    OBVIOUS
  <2>1. T # {}
    BY FS_EmptySet
  <2>2. PICK m \in T : \A x \in T : x <= m
    BY <2>1, HasGreatest
  <2> DEFINE R == T \ {m}
  <2>3. R \in SUBSET Nat /\ IsFiniteSet(R) /\ Cardinality(R) = n /\ \A x \in R : x < m
    <3>1. IsFiniteSet(R) /\ Cardinality(R) = (n + 1) - 1
      BY <2>2, FS_RemoveElement
    <3>2. \A x \in R : x < m
      BY <2>2
    <3> QED  BY <3>1, <3>2
  <2>4. PICK e : Enumerates(e, R)
    BY <1>2, <2>3
  <2>5. \E g : Enumerates(g, R \cup {m})
    <3> HIDE DEF R
    <3> QED  BY <2>2, <2>3, <2>4, EnumerationGrows
  <2>6. R \cup {m} = T
    OBVIOUS
  <2> QED  BY <2>5, <2>6
<1>3. Nat \subseteq Good
  <2> HIDE DEF Good
  <2> QED  BY <1>1, <1>2, NatSetInduction
<1>4. Cardinality(S) \in Good
  BY <1>3, FS_CardinalityType
<1> QED  BY <1>4

(* Nth(S, n) is the n-th of the enumeration, whichever that is. *)
LEMMA EnumerationIsNth ==
  ASSUME NEW S, S \subseteq Nat, IsFiniteSet(S), NEW e, Enumerates(e, S),
         NEW n \in 1..Cardinality(S)
  PROVE  Nth(S, n) = e[n]
<1> DEFINE Upto(i) == {j \in S : j <= i}
<1>1. \A k \in 1..Cardinality(S) : Cardinality(Upto(e[k])) = k
  <2> TAKE k \in 1..Cardinality(S)
  <2>1. Cardinality(S) \in Nat
    BY FS_CardinalityType
  <2>2. \A i \in 1..Cardinality(S) : e[i] \in S /\ e[i] \in Nat
    BY DEF Enumerates
  <2>3. \A i, j \in 1..Cardinality(S) : i < j => e[i] < e[j]
    BY DEF Enumerates
  <2>4. \A i \in 1..k : e[i] \in Upto(e[k])
    <3> TAKE i \in 1..k
    <3>1. i = k \/ e[i] < e[k]
      BY <2>1, <2>3
    <3> QED  BY <3>1, <2>1, <2>2
  <2>5. \A i, j \in 1..k : i < j => e[i] < e[j]
    BY <2>1, <2>3
  <2>6. \A x \in Upto(e[k]) : \E i \in 1..k : e[i] = x
    <3> TAKE x \in Upto(e[k])
    <3>1. PICK i \in 1..Cardinality(S) : e[i] = x
      BY DEF Enumerates
    <3>2. k < i => e[k] < e[i]
      BY <2>1, <2>3
    <3> QED  BY <3>1, <3>2, <2>1, <2>2
  <2>7. Upto(e[k]) \subseteq Nat
    OBVIOUS
  <2>8. k \in Nat
    BY <2>1
  <2> HIDE DEF Upto
  <2>9. Counts(e, k, Upto(e[k]))
    BY <2>4, <2>5, <2>6, <2>7 DEF Counts
  <2> QED  BY <2>8, <2>9, CountedBy
<1>2. \A i \in S : Cardinality(Upto(i)) = n <=> i = e[n]
  BY <1>1 DEF Enumerates
<1>3. e[n] \in S
  BY DEF Enumerates
<1>4. Nth(S, n) = CHOOSE i \in S : Cardinality(Upto(i)) = n
  BY DEF Nth
<1> HIDE DEF Upto
<1> QED  BY <1>2, <1>3, <1>4

LEMMA OrderedBy ==
  ASSUME NEW S, S \subseteq Nat, IsFiniteSet(S), NEW e, Enumerates(e, S), NEW f
  PROVE  /\ InOrder(f, S) = [n \in 1..Cardinality(S) |-> InOrder(f, S)[n]]
         /\ \A n \in 1..Cardinality(S) : InOrder(f, S)[n] = f[e[n]]
         /\ Cardinality(S) \in Nat
<1>1. InOrder(f, S) = [n \in 1..Cardinality(S) |-> InOrder(f, S)[n]]
  BY DEF InOrder
<1>2. \A n \in 1..Cardinality(S) : InOrder(f, S)[n] = f[Nth(S, n)]
  BY DEF InOrder
<1>3. \A n \in 1..Cardinality(S) : Nth(S, n) = e[n]
  BY EnumerationIsNth
<1>4. Cardinality(S) \in Nat
  BY FS_CardinalityType
<1> QED  BY <1>1, <1>2, <1>3, <1>4

(* Two functions on the same places that agree on each are equal. *)
LEMMA SameFunction ==
  ASSUME NEW N, NEW f, NEW g, f = [n \in N |-> f[n]], g = [n \in N |-> g[n]],
         \A n \in N : f[n] = g[n]
  PROVE  f = g
OBVIOUS

(* What InOrder returns: the values of f on S, as often as there are places. *)
LEMMA OrderedType ==
  ASSUME NEW S, S \subseteq Nat, IsFiniteSet(S), NEW f, NEW X, \A x \in S : f[x] \in X
  PROVE  /\ InOrder(f, S) \in Seq(X)
         /\ Len(InOrder(f, S)) = Cardinality(S)
         /\ DOMAIN InOrder(f, S) = 1..Cardinality(S)
         /\ Cardinality(S) \in Nat
<1>1. PICK e : Enumerates(e, S)
  BY EnumerationExists
<1>2. /\ InOrder(f, S) = [n \in 1..Cardinality(S) |-> InOrder(f, S)[n]]
      /\ \A n \in 1..Cardinality(S) : InOrder(f, S)[n] = f[e[n]]
      /\ Cardinality(S) \in Nat
  BY <1>1, OrderedBy
<1>3. \A n \in 1..Cardinality(S) : f[e[n]] \in X
  BY <1>1 DEF Enumerates
<1>4. InOrder(f, S) \in [1..Cardinality(S) -> X]
  BY <1>2, <1>3
<1> QED  BY <1>2, <1>4

(* A place beyond all the others comes last. *)
LEMMA OrderedAppend ==
  ASSUME NEW S, S \subseteq Nat, IsFiniteSet(S), NEW m \in Nat, \A x \in S : x < m,
         NEW f, NEW g, \A x \in S : g[x] = f[x]
  PROVE  InOrder(g, S \cup {m}) = Append(InOrder(f, S), g[m])
<1>1. PICK e : Enumerates(e, S)
  BY EnumerationExists
<1> DEFINE n == Cardinality(S)
           h == [i \in 1..n + 1 |-> IF i = n + 1 THEN m ELSE e[i]]
<1>2. /\ IsFiniteSet(S \cup {m}) /\ Cardinality(S \cup {m}) = n + 1 /\ n \in Nat
      /\ Enumerates(h, S \cup {m})
  BY <1>1, EnumerationGrows
<1> DEFINE a == InOrder(f, S)
           b == InOrder(g, S \cup {m})
           X == {f[x] : x \in S} \cup {g[m]}
<1>3. a \in Seq(X) /\ Len(a) = n /\ \A i \in 1..n : a[i] = f[e[i]]
  <2>1. \A x \in S : f[x] \in X
    OBVIOUS
  <2> HIDE DEF X
  <2> QED  BY <1>1, <2>1, OrderedBy, OrderedType
<1>4. b = [i \in 1..n + 1 |-> b[i]] /\ \A i \in 1..n + 1 : b[i] = g[h[i]]
  <2> DEFINE U == S \cup {m}
  <2>1. U \subseteq Nat
    OBVIOUS
  <2>2. IsFiniteSet(U) /\ Cardinality(U) = n + 1 /\ Enumerates(h, U)
    BY <1>2
  <2>3. /\ InOrder(g, U) = [i \in 1..n + 1 |-> InOrder(g, U)[i]]
        /\ \A i \in 1..n + 1 : InOrder(g, U)[i] = g[h[i]]
    <3> HIDE DEF h, U, n
    <3> QED  BY <2>1, <2>2, OrderedBy
  <2> QED  BY <2>3
<1>5. \A i \in 1..n : e[i] \in S /\ h[i] = e[i]
  BY <1>1, <1>2 DEF Enumerates
<1>6. h[n + 1] = m
  BY <1>2
<1>7. g[m] \in X
  OBVIOUS
<1> HIDE DEF n, h, a, b, X
<1>8. Append(a, g[m]) = [i \in 1..n + 1 |-> Append(a, g[m])[i]]
  BY <1>2, <1>3, <1>7
<1>9. \A i \in 1..n + 1 : Append(a, g[m])[i] = b[i]
  <2> TAKE i \in 1..n + 1
  <2>1. CASE i = n + 1
    BY <2>1, <1>2, <1>3, <1>4, <1>6, <1>7
  <2>2. CASE i # n + 1
    <3>1. i \in 1..n
      BY <2>2, <1>2
    <3>2. b[i] = f[e[i]]
      BY <3>1, <1>4, <1>5
    <3> QED  BY <3>1, <3>2, <1>2, <1>3, <1>7
  <2> QED  BY <2>1, <2>2
<1> QED  BY <1>4, <1>8, <1>9 DEF a, b

(* Taking some of the places leaves the others in order. *)
LEMMA OrderedSelection ==
  ASSUME NEW S, S \subseteq Nat, IsFiniteSet(S), NEW K, K \subseteq S, NEW f
  PROVE  InOrder(InOrder(f, S), {n \in 1..Cardinality(S) : Nth(S, n) \in K}) = InOrder(f, K)
<1> DEFINE Q == {n \in 1..Cardinality(S) : Nth(S, n) \in K}
<1>1. PICK e : Enumerates(e, S)
  BY EnumerationExists
<1>2. /\ \A i \in 1..Cardinality(S) : InOrder(f, S)[i] = f[e[i]]
      /\ Cardinality(S) \in Nat
  BY <1>1, OrderedBy
<1>3. Q = {n \in 1..Cardinality(S) : e[n] \in K}
  BY <1>1, EnumerationIsNth
<1>4. Q \subseteq Nat /\ IsFiniteSet(Q) /\ Q \subseteq 1..Cardinality(S)
  <2>1. IsFiniteSet(1..Cardinality(S))
    BY <1>2, FS_Interval
  <2>2. Q \in SUBSET (1..Cardinality(S))
    OBVIOUS
  <2>3. IsFiniteSet(Q)
    BY <2>1, <2>2, FS_Subset
  <2> QED  BY <2>2, <2>3
<1>5. PICK q : Enumerates(q, Q)
  BY <1>4, EnumerationExists
<1> DEFINE N == Cardinality(Q)
           k == [i \in 1..N |-> e[q[i]]]
<1>6. N \in Nat
  BY <1>4, FS_CardinalityType
<1>7. \A i \in 1..N : q[i] \in Q /\ q[i] \in 1..Cardinality(S) /\ e[q[i]] \in K
  BY <1>3, <1>4, <1>5 DEF Enumerates
<1>8. \A i, j \in 1..N : i < j => k[i] < k[j]
  <2> TAKE i \in 1..N, j \in 1..N
  <2> HAVE i < j
  <2>1. q[i] < q[j]
    BY <1>5 DEF Enumerates
  <2>2. e[q[i]] < e[q[j]]
    BY <2>1, <1>1, <1>7 DEF Enumerates
  <2> QED  BY <2>2
<1>9. \A x \in K : \E i \in 1..N : k[i] = x
  <2> TAKE x \in K
  <2>1. PICK n \in 1..Cardinality(S) : e[n] = x
    BY <1>1 DEF Enumerates
  <2>2. n \in Q
    BY <2>1, <1>3
  <2>3. PICK i \in 1..N : q[i] = n
    BY <2>2, <1>5 DEF Enumerates
  <2> QED  BY <2>1, <2>3
<1>10. IsFiniteSet(K) /\ K \subseteq Nat
  BY FS_Subset
<1>11. Cardinality(K) = N
  <2>1. \A i \in 1..N : k[i] \in K
    BY <1>7
  <2>2. K \subseteq Nat
    BY <1>10
  <2> HIDE DEF k, N, Q
  <2>3. Counts(k, N, K)
    BY <2>1, <2>2, <1>8, <1>9 DEF Counts
  <2> QED  BY <2>3, <1>6, CountedBy
<1>12. Enumerates(k, K)
  <2>1. k \in [1..N -> K]
    BY <1>7
  <2> HIDE DEF k, N
  <2> QED  BY <2>1, <1>8, <1>9, <1>11 DEF Enumerates
<1> DEFINE a == InOrder(f, S)
<1>13. /\ InOrder(f, K) = [i \in 1..N |-> InOrder(f, K)[i]]
       /\ \A i \in 1..N : InOrder(f, K)[i] = f[k[i]]
  <2> HIDE DEF k, N
  <2> QED  BY <1>10, <1>11, <1>12, OrderedBy
<1>14. /\ InOrder(a, Q) = [i \in 1..N |-> InOrder(a, Q)[i]]
       /\ \A i \in 1..N : InOrder(a, Q)[i] = a[q[i]]
  <2>1. Q \subseteq Nat /\ IsFiniteSet(Q)
    BY <1>4
  <2> HIDE DEF a, k, Q
  <2> QED  BY <2>1, <1>5, OrderedBy
<1>15. \A i \in 1..N : a[q[i]] = f[k[i]]
  BY <1>2, <1>7
<1> HIDE DEF k, N, a, Q
<1> QED  BY <1>13, <1>14, <1>15 DEF a, Q

-----------------------------------------------------------------------------
(* The fold of Preview, as the rows after each change of the list. *)
Runs(f, data, changes) ==
  /\ f[0] = data
  /\ \A k \in 1..Len(changes) : f[k] = ApplyChange(f[k - 1], changes[k])

LEMMA GreatestOf ==
  ASSUME NEW S, NEW m \in S, S \subseteq Nat, \A x \in S : x <= m
  PROVE  Max(S) = m
<1>1. m \in S /\ \A y \in S : m >= y
  OBVIOUS
<1>2. \A x \in S : (\A y \in S : x >= y) => x = m
  OBVIOUS
<1>3. Max(S) \in S /\ \A y \in S : Max(S) >= y
  BY <1>1 DEF Max
<1> HIDE DEF Max
<1> QED  BY <1>2, <1>3

LEMMA FoldRuns ==
  ASSUME NEW data, NEW changes \in Seq(Change)
  PROVE  \E f : Runs(f, data, changes) /\ FoldLeft(ApplyChange, data, changes) = f[Len(changes)]
<1> DEFINE Step(g, s) == IF s = {} THEN data
                         ELSE ApplyChange(g[s \ {Max(s)}], changes[Max(s)])
           IsFold(g, n) == g = [s \in SUBSET (1..n) |-> Step(g, s)]
           Good == {n \in Nat : \E g : IsFold(g, n)}
<1>1. 0 \in Good
  <2> DEFINE g == [s \in SUBSET (1..0) |-> data]
  <2>1. \A s \in SUBSET (1..0) : s = {}
    OBVIOUS
  <2>2. IsFold(g, 0)
    BY <2>1
  <2> QED  BY <2>2
<1>2. ASSUME NEW n \in Nat, n \in Good PROVE n + 1 \in Good
  <2>1. PICK g : IsFold(g, n)
    BY <1>2
  <2> DEFINE Top(s) == n + 1 \in s
             h == [s \in SUBSET (1..n + 1) |->
                     IF Top(s) THEN ApplyChange(g[s \ {n + 1}], changes[n + 1]) ELSE g[s]]
  <2>2. ASSUME NEW s \in SUBSET (1..n + 1) PROVE h[s] = Step(h, s)
    <3>1. CASE n + 1 \in s
      <4>1. Max(s) = n + 1
        <5>1. s \subseteq Nat /\ \A x \in s : x <= n + 1
          OBVIOUS
        <5> QED  BY <3>1, <5>1, GreatestOf
      <4>2. s \ {n + 1} \in SUBSET (1..n) /\ s \ {n + 1} \in SUBSET (1..n + 1)
        OBVIOUS
      <4>3. h[s \ {n + 1}] = g[s \ {n + 1}]
        BY <4>2
      <4>4. h[s] = ApplyChange(g[s \ {n + 1}], changes[n + 1])
        BY <3>1
      <4> HIDE DEF h
      <4> QED  BY <3>1, <4>1, <4>3, <4>4
    <3>2. CASE n + 1 \notin s
      <4>1. s \in SUBSET (1..n)
        BY <3>2
      <4>2. h[s] = Step(g, s)
        <5>1. h[s] = g[s]
          BY <3>2
        <5> HIDE DEF h, Step
        <5> QED  BY <4>1, <5>1, <2>1
      <4>3. s \ {Max(s)} \in SUBSET (1..n) /\ s \ {Max(s)} \in SUBSET (1..n + 1)
        BY <4>1
      <4>4. n + 1 \notin s \ {Max(s)}
        BY <3>2
      <4>5. h[s \ {Max(s)}] = g[s \ {Max(s)}]
        BY <4>3, <4>4
      <4> HIDE DEF h
      <4> QED  BY <4>2, <4>5
    <3> QED  BY <3>1, <3>2
  <2>3. IsFold(h, n + 1)
    <3>1. h = [s \in SUBSET (1..n + 1) |-> h[s]]
      OBVIOUS
    <3> HIDE DEF h, Step
    <3> QED  BY <2>2, <3>1
  <2>4. \E k : IsFold(k, n + 1)
    <3> HIDE DEF h, IsFold
    <3> QED  BY <2>3
  <2> HIDE DEF IsFold
  <2> QED  BY <2>4, <1>2
<1>3. Nat \subseteq Good
  <2> HIDE DEF Good
  <2> QED  BY <1>1, <1>2, NatSetInduction
<1> DEFINE N == Len(changes)
           G == CHOOSE g : IsFold(g, N)
<1>4. N \in Nat /\ DOMAIN changes = 1..N
  OBVIOUS
<1>5. IsFold(G, N)
  BY <1>3, <1>4
<1>6. FoldLeft(ApplyChange, data, changes) = G[1..N]
  BY <1>4 DEF FoldLeft, MapThenFoldSet
<1> DEFINE f == [k \in 0..N |-> G[1..k]]
<1>7. f[0] = data
  <2>1. 1..0 = {} /\ 1..0 \in SUBSET (1..N) /\ 0 \in 0..N
    BY <1>4
  <2> HIDE DEF G
  <2> QED  BY <2>1, <1>5
<1>8. ASSUME NEW k \in 1..N PROVE f[k] = ApplyChange(f[k - 1], changes[k])
  <2>1. 1..k \in SUBSET (1..N) /\ k \in 0..N /\ k - 1 \in 0..N
    BY <1>4
  <2>2. 1..k # {} /\ Max(1..k) = k
    <3>1. 1..k \subseteq Nat /\ k \in 1..k /\ \A x \in 1..k : x <= k
      OBVIOUS
    <3> QED  BY <3>1, GreatestOf
  <2>3. (1..k) \ {k} = 1..k - 1
    OBVIOUS
  <2>4. G[1..k] = Step(G, 1..k)
    <3> HIDE DEF G, Step
    <3> QED  BY <2>1, <1>5
  <2> HIDE DEF G
  <2> QED  BY <2>1, <2>2, <2>3, <2>4
<1> HIDE DEF G
<1>9. f[N] = G[1..N]
  BY <1>4
<1>10. Runs(f, data, changes)
  <2> HIDE DEF f
  <2> QED  BY <1>7, <1>8 DEF Runs
<1> HIDE DEF f
<1> QED  BY <1>6, <1>9, <1>10

(* Only the first row and the changes decide what a list leads to. *)
LEMMA RunsAgree ==
  ASSUME NEW data, NEW changes \in Seq(Change),
         NEW f, Runs(f, data, changes), NEW g, Runs(g, data, changes)
  PROVE  \A k \in 0..Len(changes) : f[k] = g[k]
<1> DEFINE Good == {k \in Nat : k <= Len(changes) => f[k] = g[k]}
<1>1. 0 \in Good
  BY DEF Runs
<1>2. ASSUME NEW n \in Nat, n \in Good PROVE n + 1 \in Good
  <2> SUFFICES ASSUME n + 1 <= Len(changes) PROVE f[n + 1] = g[n + 1]
    OBVIOUS
  <2>1. n + 1 \in 1..Len(changes) /\ (n + 1) - 1 = n /\ f[n] = g[n]
    BY <1>2
  <2>2. f[n + 1] = ApplyChange(f[n], changes[n + 1])
    BY <2>1 DEF Runs
  <2>3. g[n + 1] = ApplyChange(g[n], changes[n + 1])
    BY <2>1 DEF Runs
  <2> QED  BY <2>1, <2>2, <2>3
<1>3. Nat \subseteq Good
  <2> HIDE DEF Good
  <2> QED  BY <1>1, <1>2, NatSetInduction
<1> QED  BY <1>3

LEMMA FoldOf ==
  ASSUME NEW data, NEW changes \in Seq(Change), NEW f, Runs(f, data, changes)
  PROVE  FoldLeft(ApplyChange, data, changes) = f[Len(changes)]
<1>1. PICK g : Runs(g, data, changes)
               /\ FoldLeft(ApplyChange, data, changes) = g[Len(changes)]
  BY FoldRuns
<1>2. Len(changes) \in 0..Len(changes)
  OBVIOUS
<1> HIDE DEF FoldLeft
<1> QED  BY <1>1, <1>2, RunsAgree

LEMMA FoldEmpty == ASSUME NEW data PROVE FoldLeft(ApplyChange, data, <<>>) = data
<1>1. <<>> \in Seq(Change) /\ Len(<<>>) = 0
  OBVIOUS
<1>2. PICK g : Runs(g, data, <<>>) /\ FoldLeft(ApplyChange, data, <<>>) = g[0]
  BY <1>1, FoldRuns
<1> QED  BY <1>2 DEF Runs

LEMMA FoldAppend ==
  ASSUME NEW data, NEW changes \in Seq(Change), NEW c \in Change
  PROVE  FoldLeft(ApplyChange, data, Append(changes, c))
           = ApplyChange(FoldLeft(ApplyChange, data, changes), c)
<1> DEFINE more == Append(changes, c)
           n == Len(changes)
<1>1. /\ more \in Seq(Change) /\ Len(more) = n + 1 /\ n \in Nat
      /\ more[n + 1] = c /\ \A k \in 1..n : more[k] = changes[k]
  OBVIOUS
<1> HIDE DEF more, n
<1>2. PICK g : Runs(g, data, more) /\ FoldLeft(ApplyChange, data, more) = g[n + 1]
  BY <1>1, FoldRuns
<1>3. Runs(g, data, changes)
  <2>1. \A k \in 1..n : k \in 1..n + 1
    BY <1>1
  <2> QED  BY <1>1, <1>2, <2>1 DEF Runs, n
<1>4. FoldLeft(ApplyChange, data, changes) = g[n]
  BY <1>3, FoldOf DEF n
<1>5. g[n + 1] = ApplyChange(g[n], c)
  <2>1. n + 1 \in 1..n + 1 /\ (n + 1) - 1 = n
    BY <1>1
  <2> QED  BY <1>1, <1>2, <2>1 DEF Runs
<1> QED  BY <1>2, <1>4, <1>5 DEF more

-----------------------------------------------------------------------------
(* What a change does to the phrases and to the counts. *)
PhraseRowsLeft(rows, c) == Without(rows, LAMBDA row : SamePhrase(c, row))
QueryRowsLeft(rows, c) == Without(rows, LAMBDA row : SameQuery(c, row))
CountRowsLeft(rows, c) == Without(rows, LAMBDA row : row.method = c.method)
PhraseRowsStored(rows, c) ==
  InPlaceOrAppended(rows, LAMBDA row : SamePhrase(c, row), PhraseRow(c))
CountRowsStored(rows, c, k) ==
  InPlaceOrAppended(rows, LAMBDA row : SameTableRow(c, row), TableRow(c, k))
HasPhrase(rows, c) == Holds(rows, LAMBDA row : SamePhrase(c, row))

PhraseRows == [key : Keys, score : Nat]
CountRows == [method : Methods, current : Words, count : Nat \ {0}]

Picks(e, out, rows, K) ==
  /\ \A i \in DOMAIN out : e[i] \in K /\ out[i] = rows[e[i]]
  /\ \A k \in K : \E i \in DOMAIN out : e[i] = k
  /\ \A i, j \in DOMAIN out : e[i] = e[j] => i = j

LEMMA PickedRows ==
  ASSUME NEW X, NEW rows \in Seq(X), NEW K, K \subseteq DOMAIN rows
  PROVE  /\ InOrder(rows, K) \in Seq(X)
         /\ \E e : Picks(e, InOrder(rows, K), rows, K)
<1>1. K \subseteq Nat /\ IsFiniteSet(K)
  <2>1. DOMAIN rows = 1..Len(rows) /\ Len(rows) \in Nat
    OBVIOUS
  <2>2. IsFiniteSet(1..Len(rows))
    BY <2>1, FS_Interval
  <2> QED  BY <2>1, <2>2, FS_Subset
<1>2. PICK e : Enumerates(e, K)
  BY <1>1, EnumerationExists
<1> DEFINE out == InOrder(rows, K)
           n == Cardinality(K)
<1>3. out = [i \in 1..n |-> out[i]] /\ n \in Nat /\ \A i \in 1..n : out[i] = rows[e[i]]
  BY <1>1, <1>2, OrderedBy
<1>4. out \in Seq(X)
  BY <1>1, OrderedType
<1> HIDE DEF out
<1>5. DOMAIN out = 1..n
  BY <1>3
<1> HIDE DEF n
<1>6. \A i, j \in 1..n : i < j => e[i] < e[j]
  BY <1>2 DEF Enumerates, n
<1>7. \A i \in 1..n : e[i] \in K /\ e[i] \in Nat
  BY <1>1, <1>2 DEF Enumerates, n
<1>8. \A k \in K : \E i \in 1..n : e[i] = k
  BY <1>2 DEF Enumerates, n
<1>9. \A i, j \in 1..n : e[i] = e[j] => i = j
  <2> TAKE i \in 1..n, j \in 1..n
  <2>1. (i < j => e[i] < e[j]) /\ (j < i => e[j] < e[i])
    BY <1>6
  <2> QED  BY <2>1, <1>3, <1>7
<1>10. Picks(e, out, rows, K)
  BY <1>3, <1>5, <1>7, <1>8, <1>9 DEF Picks
<1> QED  BY <1>4, <1>10 DEF out

LEMMA PhrasesChange ==
  ASSUME NEW data, data.phrases \in Seq(PhraseRows), NEW c \in Change
  PROVE  /\ ApplyChange(data, c).phrases \in Seq(PhraseRows)
         /\ \A key \in PhraseKeys(ApplyChange(data, c)) :
              \/ key \in PhraseKeys(data) /\ ~(c.kind = "RemovePhrase" /\ c.key = key)
              \/ c.kind \in {"UpsertPhrase", "InsertPhraseIfAbsent"} /\ c.key = key
<1> DEFINE rows == data.phrases
           next == ApplyChange(data, c)
           Goal == /\ next.phrases \in Seq(PhraseRows)
                   /\ \A key \in PhraseKeys(next) :
                        \/ key \in PhraseKeys(data) /\ ~(c.kind = "RemovePhrase" /\ c.key = key)
                        \/ c.kind \in {"UpsertPhrase", "InsertPhraseIfAbsent"} /\ c.key = key
<1> SUFFICES Goal
  OBVIOUS
<1>0. DOMAIN rows = 1..Len(rows) /\ Len(rows) \in Nat
      /\ \A i \in DOMAIN rows : rows[i] \in PhraseRows /\ rows[i].key \in PhraseKeys(data)
  BY DEF PhraseKeys
<1>1. CASE c.kind \in {"UpsertPhrase", "InsertPhraseIfAbsent"}
  <2>1. PhraseRow(c) \in PhraseRows /\ PhraseRow(c).key = c.key
    BY <1>1 DEF PhraseRow, PhraseRows, Change
  <2> DEFINE v == [i \in DOMAIN rows |-> IF SamePhrase(c, rows[i]) THEN PhraseRow(c) ELSE rows[i]]
             w == Append(rows, PhraseRow(c))
  <2>a. PhraseRowsStored(rows, c) \in {v, w}
    BY DEF PhraseRowsStored, InPlaceOrAppended, InPlace
  <2>b. ASSUME c.kind = "UpsertPhrase" PROVE next.phrases \in {v, w, rows}
    <3>1. ApplyChange(data, c) = [data EXCEPT !.phrases = PhraseRowsStored(rows, c)]
      BY <2>b DEF ApplyChange, PhraseRowsStored
    <3>2. next.phrases = PhraseRowsStored(rows, c)
      BY <3>1
    <3> QED  BY <2>a, <3>2
  <2>c. ASSUME c.kind = "InsertPhraseIfAbsent" PROVE next.phrases \in {v, w, rows}
    <3>1. ApplyChange(data, c) = [data EXCEPT !.phrases = IF HasPhrase(rows, c) THEN rows ELSE w]
      BY <2>c DEF ApplyChange, HasPhrase
    <3> QED  BY <3>1
  <2>2. next.phrases \in {v, w, rows}
    BY <1>1, <2>b, <2>c
  <2>3. v \in Seq(PhraseRows)
        /\ \A i \in DOMAIN v : v[i].key = c.key \/ v[i].key \in PhraseKeys(data)
    <3>1. \A i \in DOMAIN rows : v[i] \in PhraseRows
      BY <1>0, <2>1
    <3> QED  BY <1>0, <2>1, <3>1
  <2>4. w \in Seq(PhraseRows)
        /\ \A i \in DOMAIN w : w[i].key = c.key \/ w[i].key \in PhraseKeys(data)
    <3>1. /\ w \in Seq(PhraseRows) /\ DOMAIN w = 1..Len(rows) + 1
          /\ \A i \in 1..Len(rows) : w[i] = rows[i]
          /\ w[Len(rows) + 1] = PhraseRow(c)
      BY <1>0, <2>1
    <3> HIDE DEF w
    <3> QED  BY <1>0, <2>1, <3>1
  <2> HIDE DEF v, w
  <2>5. next.phrases \in Seq(PhraseRows)
        /\ \A i \in DOMAIN next.phrases : next.phrases[i].key = c.key \/ next.phrases[i].key \in PhraseKeys(data)
    BY <1>0, <2>2, <2>3, <2>4
  <2> HIDE DEF next
  <2> QED  BY <1>1, <2>5 DEF PhraseKeys
<1>2. CASE c.kind = "RemovePhrase"
  <2> DEFINE K == {i \in DOMAIN rows : ~SamePhrase(c, rows[i])}
             out == InOrder(rows, K)
  <2>a. ApplyChange(data, c) = [data EXCEPT !.phrases = PhraseRowsLeft(rows, c)]
    BY <1>2 DEF ApplyChange, PhraseRowsLeft
  <2>b. PhraseRowsLeft(rows, c) = out
    BY DEF PhraseRowsLeft, Without
  <2>1. next.phrases = out
    BY <2>a, <2>b
  <2>2. K \subseteq DOMAIN rows /\ \A k \in K : rows[k].key # c.key
    BY DEF SamePhrase
  <2> HIDE DEF K
  <2>3. out \in Seq(PhraseRows) /\ \E e : Picks(e, out, rows, K)
    BY <2>2, PickedRows
  <2>4. \A i \in DOMAIN out : out[i].key \in PhraseKeys(data) /\ out[i].key # c.key
    <3>1. PICK e : Picks(e, out, rows, K)
      BY <2>3
    <3> HIDE DEF out
    <3> QED  BY <1>0, <2>2, <3>1 DEF Picks
  <2> HIDE DEF next, out
  <2> QED  BY <1>2, <2>1, <2>3, <2>4 DEF PhraseKeys
<1>3. CASE c.kind \notin {"UpsertPhrase", "InsertPhraseIfAbsent", "RemovePhrase"}
  <2>1. next.phrases = rows
    BY <1>3 DEF ApplyChange, Change
  <2> HIDE DEF next
  <2> QED  BY <1>3, <2>1 DEF PhraseKeys
<1> QED  BY <1>1, <1>2, <1>3

-----------------------------------------------------------------------------
KeyedRows(rows) ==
  \A i, j \in DOMAIN rows :
    rows[i].method = rows[j].method /\ rows[i].current = rows[j].current => i = j

(* The count that rows have of a candidate of a method. *)
CountIs(rows, m, cur, n) ==
  \/ n = 0 /\ \A i \in DOMAIN rows : ~(rows[i].method = m /\ rows[i].current = cur)
  \/ \E i \in DOMAIN rows : rows[i].method = m /\ rows[i].current = cur /\ rows[i].count = n

LEMMA CountOfIs ==
  ASSUME NEW data, KeyedRows(data.table), NEW m, NEW cur
  PROVE  /\ CountIs(data.table, m, cur, CountOf(data, m, cur))
         /\ \A n : CountIs(data.table, m, cur, n) => CountOf(data, m, cur) = n
<1> DEFINE rows == {i \in DOMAIN data.table : data.table[i].method = m /\ data.table[i].current = cur}
<1>1. CASE rows = {}
  <2>1. CountOf(data, m, cur) = 0
    BY <1>1 DEF CountOf
  <2> QED  BY <1>1, <2>1 DEF CountIs
<1>2. CASE rows # {}
  <2> DEFINE x == CHOOSE i \in rows : TRUE
  <2>1. x \in rows /\ CountOf(data, m, cur) = data.table[x].count
    BY <1>2 DEF CountOf
  <2> HIDE DEF x
  <2> QED  BY <2>1 DEF CountIs, KeyedRows
<1> QED  BY <1>1, <1>2

(* What one change makes of a count. *)
CountStep(n, c, m, cur) ==
  CASE c.kind = "IncrementTable" -> IF c.method = m /\ c.current = cur THEN n + 1 ELSE n
    [] c.kind = "SetTable" -> IF c.method = m /\ c.current = cur THEN c.count ELSE n
    [] c.kind = "ResetTableLearning" -> IF c.method = m THEN 0 ELSE n
    [] c.kind = "ResetLearning" -> 0
    [] OTHER -> n

LEMMA StoredCounts ==
  ASSUME NEW rows \in Seq(CountRows), KeyedRows(rows), NEW c, c.method \in Methods, c.current \in Words,
         NEW k \in Nat \ {0}
  PROVE  LET out == CountRowsStored(rows, c, k)
         IN /\ out \in Seq(CountRows) /\ KeyedRows(out)
            /\ \A m, cur, n : CountIs(rows, m, cur, n) =>
                 CountIs(out, m, cur, IF c.method = m /\ c.current = cur THEN k ELSE n)
<1> DEFINE new == TableRow(c, k)
           v == [i \in DOMAIN rows |-> IF SameTableRow(c, rows[i]) THEN new ELSE rows[i]]
           w == Append(rows, new)
           After(out) ==
             /\ out \in Seq(CountRows) /\ KeyedRows(out)
             /\ \A m, cur, n : CountIs(rows, m, cur, n) =>
                  CountIs(out, m, cur, IF c.method = m /\ c.current = cur THEN k ELSE n)
<1>0. DOMAIN rows = 1..Len(rows) /\ Len(rows) \in Nat /\ \A i \in DOMAIN rows : rows[i] \in CountRows
  OBVIOUS
<1>1. new \in CountRows /\ new.method = c.method /\ new.current = c.current /\ new.count = k
  BY DEF TableRow, CountRows
<1> HIDE DEF new
<1>2. CASE \E i \in DOMAIN rows : SameTableRow(c, rows[i])
  <2>1. CountRowsStored(rows, c, k) = v
    BY <1>2 DEF CountRowsStored, InPlaceOrAppended, InPlace, Holds, new
  <2>2. v \in Seq(CountRows) /\ DOMAIN v = DOMAIN rows
    <3>1. \A i \in DOMAIN rows : v[i] \in CountRows
      BY <1>0, <1>1
    <3> QED  BY <1>0, <3>1
  <2>3. \A i \in DOMAIN rows :
          /\ v[i].method = rows[i].method /\ v[i].current = rows[i].current
          /\ v[i].count = IF rows[i].method = c.method /\ rows[i].current = c.current THEN k ELSE rows[i].count
    BY <1>1 DEF SameTableRow
  <2> HIDE DEF v
  <2>4. KeyedRows(v)
    BY <2>2, <2>3 DEF KeyedRows
  <2>5. ASSUME NEW m, NEW cur, NEW n, CountIs(rows, m, cur, n)
        PROVE  CountIs(v, m, cur, IF c.method = m /\ c.current = cur THEN k ELSE n)
    BY <1>2, <2>2, <2>3, <2>5 DEF CountIs, SameTableRow
  <2>6. After(v)
    BY <2>2, <2>4, <2>5
  <2> HIDE DEF After
  <2> QED  BY <2>1, <2>6 DEF After, new
<1>3. CASE ~\E i \in DOMAIN rows : SameTableRow(c, rows[i])
  <2>1. CountRowsStored(rows, c, k) = w
    BY <1>3 DEF CountRowsStored, InPlaceOrAppended, Holds, new
  <2>2. /\ w \in Seq(CountRows) /\ DOMAIN w = 1..Len(rows) + 1
        /\ \A i \in 1..Len(rows) : w[i] = rows[i]
        /\ w[Len(rows) + 1] = new
    BY <1>0, <1>1
  <2> HIDE DEF w
  <2>3. \A i \in 1..Len(rows) : ~(rows[i].method = c.method /\ rows[i].current = c.current)
    BY <1>0, <1>3 DEF SameTableRow
  <2>4. KeyedRows(w)
    <3> SUFFICES ASSUME NEW i \in 1..Len(rows) + 1, NEW j \in 1..Len(rows) + 1,
                        w[i].method = w[j].method, w[i].current = w[j].current
                 PROVE  i = j
      BY <2>2 DEF KeyedRows
    <3>1. i \in 1..Len(rows) \/ i = Len(rows) + 1
      BY <1>0
    <3>2. j \in 1..Len(rows) \/ j = Len(rows) + 1
      BY <1>0
    <3> QED  BY <1>0, <1>1, <2>2, <2>3, <3>1, <3>2 DEF KeyedRows
  <2>5. ASSUME NEW m, NEW cur, NEW n, CountIs(rows, m, cur, n)
        PROVE  CountIs(w, m, cur, IF c.method = m /\ c.current = cur THEN k ELSE n)
    <3>1. \A i \in 1..Len(rows) : i \in 1..Len(rows) + 1
      BY <1>0
    <3>2. \A i \in 1..Len(rows) + 1 : i \in 1..Len(rows) \/ i = Len(rows) + 1
      BY <1>0
    <3>3. Len(rows) + 1 \in 1..Len(rows) + 1
      BY <1>0
    <3> QED  BY <1>0, <1>1, <2>2, <2>3, <2>5, <3>1, <3>2, <3>3 DEF CountIs
  <2>6. After(w)
    BY <2>2, <2>4, <2>5
  <2> HIDE DEF After
  <2> QED  BY <2>1, <2>6 DEF After, new
<1> QED  BY <1>2, <1>3

LEMMA LeftCounts ==
  ASSUME NEW rows \in Seq(CountRows), KeyedRows(rows), NEW c
  PROVE  LET out == CountRowsLeft(rows, c)
         IN /\ out \in Seq(CountRows) /\ KeyedRows(out)
            /\ \A m, cur, n : CountIs(rows, m, cur, n) =>
                 CountIs(out, m, cur, IF c.method = m THEN 0 ELSE n)
<1> DEFINE K == {i \in DOMAIN rows : rows[i].method # c.method}
           out == InOrder(rows, K)
<1>1. CountRowsLeft(rows, c) = out
  BY DEF CountRowsLeft, Without
<1>2. K \subseteq DOMAIN rows /\ \A i \in DOMAIN rows : i \in K <=> rows[i].method # c.method
  OBVIOUS
<1> HIDE DEF K
<1>3. out \in Seq(CountRows) /\ \E e : Picks(e, out, rows, K)
  BY <1>2, PickedRows
<1>4. PICK e : Picks(e, out, rows, K)
  BY <1>3
<1> HIDE DEF out
<1>5. KeyedRows(out)
  BY <1>2, <1>4 DEF Picks, KeyedRows
<1>6. ASSUME NEW m, NEW cur, NEW n, CountIs(rows, m, cur, n)
      PROVE  CountIs(out, m, cur, IF c.method = m THEN 0 ELSE n)
  <2>1. CASE c.method = m
    BY <1>2, <1>4, <2>1 DEF Picks, CountIs
  <2>2. CASE c.method # m
    BY <1>2, <1>4, <1>6, <2>2 DEF Picks, CountIs
  <2> QED  BY <2>1, <2>2
<1> QED  BY <1>1, <1>3, <1>5, <1>6

LEMMA CountsChange ==
  ASSUME NEW data, data.table \in Seq(CountRows), KeyedRows(data.table), NEW c \in Change
  PROVE  /\ ApplyChange(data, c).table \in Seq(CountRows)
         /\ KeyedRows(ApplyChange(data, c).table)
         /\ \A m, cur : CountOf(ApplyChange(data, c), m, cur) = CountStep(CountOf(data, m, cur), c, m, cur)
<1> DEFINE rows == data.table
           next == ApplyChange(data, c)
           Steps(out) == /\ out \in Seq(CountRows) /\ KeyedRows(out)
                         /\ \A m, cur, n : CountIs(rows, m, cur, n) /\ n = CountOf(data, m, cur) =>
                              CountIs(out, m, cur, CountStep(n, c, m, cur))
<1>1. ASSUME Steps(next.table)
      PROVE  /\ next.table \in Seq(CountRows) /\ KeyedRows(next.table)
             /\ \A m, cur : CountOf(next, m, cur) = CountStep(CountOf(data, m, cur), c, m, cur)
  <2>1. ASSUME NEW m, NEW cur
        PROVE  CountOf(next, m, cur) = CountStep(CountOf(data, m, cur), c, m, cur)
    <3> DEFINE n == CountOf(data, m, cur)
    <3> HIDE DEF n, next
    <3>1. CountIs(rows, m, cur, n)
      BY CountOfIs DEF n
    <3>2. CountIs(next.table, m, cur, CountStep(n, c, m, cur))
      BY <1>1, <3>1 DEF n
    <3>3. CountOf(next, m, cur) = CountStep(n, c, m, cur)
      BY <1>1, <3>2, CountOfIs
    <3> QED  BY <3>3 DEF n
  <2> HIDE DEF next
  <2> QED  BY <1>1, <2>1
<1> SUFFICES Steps(next.table)
  BY <1>1
<1>2. CASE c.kind = "IncrementTable"
  <2> DEFINE k == CountOf(data, c.method, c.current) + 1
             out == CountRowsStored(rows, c, k)
  <2>1. ApplyChange(data, c) = [data EXCEPT !.table = out]
    BY <1>2 DEF ApplyChange, CountRowsStored
  <2>2. c.method \in Methods /\ c.current \in Words
    BY <1>2 DEF Change
  <2>3. k \in Nat \ {0}
    <3> DEFINE n == CountOf(data, c.method, c.current)
    <3>1. CountIs(rows, c.method, c.current, n)
      BY CountOfIs
    <3> HIDE DEF n
    <3>2. \A i \in DOMAIN rows : rows[i].count \in Nat
      <4>1. \A i \in DOMAIN rows : rows[i] \in CountRows
        OBVIOUS
      <4> QED  BY <4>1 DEF CountRows
    <3>3. n \in Nat
      BY <3>1, <3>2 DEF CountIs
    <3> QED  BY <3>3 DEF n
  <2>4. next.table = out
    BY <2>1
  <2> HIDE DEF k, next
  <2>5. /\ out \in Seq(CountRows) /\ KeyedRows(out)
        /\ \A m, cur, n : CountIs(rows, m, cur, n) =>
             CountIs(out, m, cur, IF c.method = m /\ c.current = cur THEN k ELSE n)
    BY <2>2, <2>3, StoredCounts
  <2>6. ASSUME NEW m, NEW cur, NEW n, n = CountOf(data, m, cur)
        PROVE  CountStep(n, c, m, cur) = IF c.method = m /\ c.current = cur THEN k ELSE n
    BY <1>2, <2>6 DEF CountStep, k
  <2> HIDE DEF out
  <2> QED  BY <2>4, <2>5, <2>6
<1>3. CASE c.kind = "SetTable"
  <2> DEFINE out == CountRowsStored(rows, c, c.count)
  <2>1. ApplyChange(data, c) = [data EXCEPT !.table = out]
    BY <1>3 DEF ApplyChange, CountRowsStored
  <2>2. c.method \in Methods /\ c.current \in Words /\ c.count \in Nat \ {0}
    BY <1>3 DEF Change
  <2>4. next.table = out
    BY <2>1
  <2> HIDE DEF next
  <2>5. /\ out \in Seq(CountRows) /\ KeyedRows(out)
        /\ \A m, cur, n : CountIs(rows, m, cur, n) =>
             CountIs(out, m, cur, IF c.method = m /\ c.current = cur THEN c.count ELSE n)
    BY <2>2, StoredCounts
  <2>6. ASSUME NEW m, NEW cur, NEW n
        PROVE  CountStep(n, c, m, cur) = IF c.method = m /\ c.current = cur THEN c.count ELSE n
    BY <1>3 DEF CountStep
  <2> HIDE DEF out
  <2> QED  BY <2>4, <2>5, <2>6
<1>4. CASE c.kind = "ResetTableLearning"
  <2> DEFINE out == CountRowsLeft(rows, c)
  <2>1. ApplyChange(data, c) = [data EXCEPT !.table = out]
    BY <1>4 DEF ApplyChange, CountRowsLeft
  <2>4. next.table = out
    BY <2>1
  <2> HIDE DEF next
  <2>5. /\ out \in Seq(CountRows) /\ KeyedRows(out)
        /\ \A m, cur, n : CountIs(rows, m, cur, n) =>
             CountIs(out, m, cur, IF c.method = m THEN 0 ELSE n)
    BY LeftCounts
  <2>6. ASSUME NEW m, NEW cur, NEW n
        PROVE  CountStep(n, c, m, cur) = IF c.method = m THEN 0 ELSE n
    BY <1>4 DEF CountStep
  <2> HIDE DEF out
  <2> QED  BY <2>4, <2>5, <2>6
<1>5. CASE c.kind = "ResetLearning"
  <2>1. next.table = <<>>
    <3>1. ApplyChange(data, c)
            = [data EXCEPT !.overrides = <<>>, !.bigrams = <<>>, !.table = <<>>]
      BY <1>5 DEF ApplyChange
    <3> QED  BY <3>1
  <2> HIDE DEF next
  <2>2. <<>> \in Seq(CountRows) /\ KeyedRows(<<>>) /\ \A m, cur : CountIs(<<>>, m, cur, 0)
    BY DEF KeyedRows, CountIs
  <2>6. ASSUME NEW m, NEW cur, NEW n
        PROVE  CountStep(n, c, m, cur) = 0
    BY <1>5 DEF CountStep
  <2> QED  BY <2>1, <2>2, <2>6
<1>6. CASE c.kind \notin {"IncrementTable", "SetTable", "ResetTableLearning", "ResetLearning"}
  <2>1. next.table = rows
    BY <1>6 DEF ApplyChange, Change
  <2> HIDE DEF next
  <2>2. ASSUME NEW m, NEW cur, NEW n PROVE CountStep(n, c, m, cur) = n
    BY <1>6 DEF CountStep
  <2> QED  BY <2>1, <2>2
<1> HIDE DEF Steps, next
<1> QED  BY <1>2, <1>3, <1>4, <1>5, <1>6

-----------------------------------------------------------------------------
(* What a list of changes does. *)
LEMMA EachChange ==
  ASSUME NEW changes \in Seq(Change), NEW P, P \subseteq 0..Len(changes),
         0 \in P,
         \A k \in 1..Len(changes) : k - 1 \in P => k \in P
  PROVE  Len(changes) \in P
<1> DEFINE n == Len(changes)
           Good == {k \in Nat : k <= n => k \in P}
<1>0. n \in Nat
  OBVIOUS
<1>1. 0 \in Good
  OBVIOUS
<1>2. ASSUME NEW k \in Nat, k \in Good PROVE k + 1 \in Good
  <2> SUFFICES ASSUME k + 1 <= n PROVE k + 1 \in P
    OBVIOUS
  <2>1. k + 1 \in 1..n /\ (k + 1) - 1 = k /\ k \in P
    BY <1>0, <1>2
  <2> QED  BY <2>1
<1>3. Nat \subseteq Good
  <2> HIDE DEF Good
  <2> QED  BY <1>1, <1>2, NatSetInduction
<1> QED  BY <1>0, <1>3

Removes(c, key) == c.kind = "RemovePhrase" /\ c.key = key
Adds(c, key) == c.kind \in {"UpsertPhrase", "InsertPhraseIfAbsent"} /\ c.key = key

LEMMA PhrasesAfter ==
  ASSUME NEW data, data.phrases \in Seq(PhraseRows), NEW changes \in Seq(Change)
  PROVE  LET rows == FoldLeft(ApplyChange, data, changes)
         IN /\ rows.phrases \in Seq(PhraseRows)
            /\ \A key \in PhraseKeys(rows) :
                 \/ key \in PhraseKeys(data) /\ \A i \in DOMAIN changes : ~Removes(changes[i], key)
                 \/ \E i \in DOMAIN changes : Adds(changes[i], key)
<1> DEFINE n == Len(changes)
<1>1. PICK f : Runs(f, data, changes) /\ FoldLeft(ApplyChange, data, changes) = f[n]
  BY FoldRuns
<1>2. n \in Nat /\ DOMAIN changes = 1..n /\ \A i \in 1..n : changes[i] \in Change
  OBVIOUS
<1> DEFINE Left(k) ==
             /\ f[k].phrases \in Seq(PhraseRows)
             /\ \A key \in PhraseKeys(f[k]) :
                  \/ key \in PhraseKeys(data) /\ \A i \in 1..k : ~Removes(changes[i], key)
                  \/ \E i \in 1..k : Adds(changes[i], key)
           P == {k \in 0..n : Left(k)}
<1>3. 0 \in P
  BY <1>1, <1>2 DEF Runs
<1>4. ASSUME NEW k \in 1..n, k - 1 \in P PROVE k \in P
  <2>1. f[k] = ApplyChange(f[k - 1], changes[k]) /\ changes[k] \in Change /\ Left(k - 1)
    BY <1>1, <1>2, <1>4 DEF Runs
  <2>2. /\ f[k].phrases \in Seq(PhraseRows)
        /\ \A key \in PhraseKeys(f[k]) :
              \/ key \in PhraseKeys(f[k - 1]) /\ ~Removes(changes[k], key)
              \/ Adds(changes[k], key)
    <3> DEFINE d == f[k - 1]
               c == changes[k]
    <3>1. d.phrases \in Seq(PhraseRows) /\ c \in Change /\ f[k] = ApplyChange(d, c)
      BY <2>1
    <3> HIDE DEF d, c
    <3>2. /\ ApplyChange(d, c).phrases \in Seq(PhraseRows)
          /\ \A key \in PhraseKeys(ApplyChange(d, c)) :
               \/ key \in PhraseKeys(d) /\ ~(c.kind = "RemovePhrase" /\ c.key = key)
               \/ c.kind \in {"UpsertPhrase", "InsertPhraseIfAbsent"} /\ c.key = key
      BY <3>1, PhrasesChange
    <3>3. /\ f[k].phrases \in Seq(PhraseRows)
          /\ \A key \in PhraseKeys(f[k]) :
               \/ key \in PhraseKeys(d) /\ ~Removes(c, key)
               \/ Adds(c, key)
      BY <3>1, <3>2 DEF Removes, Adds
    <3> QED  BY <3>3 DEF d, c
  <2>3. \A i \in 1..k : i \in 1..k - 1 \/ i = k
    BY <1>2
  <2>4. k \in 1..k /\ \A i \in 1..k - 1 : i \in 1..k
    BY <1>2
  <2>5. \A key \in PhraseKeys(f[k]) :
          \/ key \in PhraseKeys(data) /\ \A i \in 1..k : ~Removes(changes[i], key)
          \/ \E i \in 1..k : Adds(changes[i], key)
    BY <2>1, <2>2, <2>3, <2>4
  <2> QED  BY <1>2, <2>2, <2>5
<1> HIDE DEF P
<1>5. n \in P
  BY <1>3, <1>4, EachChange DEF P
<1> QED  BY <1>1, <1>2, <1>5 DEF P

Clears(c, m) == c.kind = "ResetLearning" \/ (c.kind = "ResetTableLearning" /\ c.method = m)
Sets(c, m, cur) == c.kind = "SetTable" /\ c.method = m /\ c.current = cur

(* A list that counts nothing up, and sets the counts of a method only      *)
(* after it has cleared them.                                               *)
SetsAfterClears(changes, m) ==
  /\ \A i \in DOMAIN changes : changes[i].kind # "IncrementTable"
  /\ \A cur : \A i, j \in DOMAIN changes : Clears(changes[i], m) /\ Sets(changes[j], m, cur) => i < j
  /\ \A cur : \A i, j \in DOMAIN changes :
       Sets(changes[i], m, cur) /\ Sets(changes[j], m, cur) => i = j
  /\ \A cur : \A j \in DOMAIN changes :
       Sets(changes[j], m, cur) => \E i \in DOMAIN changes : Clears(changes[i], m)

LEMMA CountsTyped ==
  ASSUME NEW data, data.table \in Seq(CountRows), KeyedRows(data.table),
         NEW changes \in Seq(Change), NEW f, Runs(f, data, changes)
  PROVE  \A k \in 0..Len(changes) : f[k].table \in Seq(CountRows) /\ KeyedRows(f[k].table)
<1> DEFINE n == Len(changes)
           P == {k \in 0..n : f[k].table \in Seq(CountRows) /\ KeyedRows(f[k].table)}
           Q == {k \in 0..n : \A i \in 0..k : i \in P}
<1>2. n \in Nat /\ DOMAIN changes = 1..n /\ \A i \in 1..n : changes[i] \in Change
  OBVIOUS
<1>3. 0 \in Q
  BY <1>2 DEF Runs
<1>4. ASSUME NEW k \in 1..n, k - 1 \in Q PROVE k \in Q
  <2>1. f[k] = ApplyChange(f[k - 1], changes[k]) /\ changes[k] \in Change /\ k - 1 \in P
    BY <1>2, <1>4 DEF Runs
  <2>2. k \in P
    <3> DEFINE d == f[k - 1]
               c == changes[k]
    <3>1. d.table \in Seq(CountRows) /\ KeyedRows(d.table) /\ c \in Change /\ f[k] = ApplyChange(d, c)
      BY <2>1
    <3> HIDE DEF d, c
    <3>2. ApplyChange(d, c).table \in Seq(CountRows) /\ KeyedRows(ApplyChange(d, c).table)
      BY <3>1, CountsChange
    <3> QED  BY <1>2, <3>1, <3>2
  <2> HIDE DEF P
  <2> QED  BY <1>2, <1>4, <2>2
<1> HIDE DEF Q
<1>5. n \in Q
  BY <1>3, <1>4, EachChange DEF Q
<1> QED  BY <1>2, <1>5 DEF Q

LEMMA CountAfterImport ==
  ASSUME NEW data, data.table \in Seq(CountRows), KeyedRows(data.table),
         NEW changes \in Seq(Change), NEW m, NEW cur, SetsAfterClears(changes, m)
  PROVE  LET n == CountOf(FoldLeft(ApplyChange, data, changes), m, cur)
         IN /\ (\A i \in DOMAIN changes : ~Clears(changes[i], m)) => n = CountOf(data, m, cur)
            /\ (\E i \in DOMAIN changes : Clears(changes[i], m))
                 /\ (\A i \in DOMAIN changes : ~Sets(changes[i], m, cur)) => n = 0
            /\ \A i \in DOMAIN changes : Sets(changes[i], m, cur) => n = changes[i].count
<1> DEFINE n == Len(changes)
<1>1. PICK f : Runs(f, data, changes) /\ FoldLeft(ApplyChange, data, changes) = f[n]
  BY FoldRuns
<1>2. n \in Nat /\ DOMAIN changes = 1..n /\ \A i \in 1..n : changes[i] \in Change
  OBVIOUS
<1> DEFINE N(k) == CountOf(f[k], m, cur)
           A(k) == \E i \in 1..k : Clears(changes[i], m)
           B(k) == \E i \in 1..k : Sets(changes[i], m, cur)
           Now(k) == /\ ~A(k) /\ ~B(k) => N(k) = CountOf(data, m, cur)
                     /\ A(k) /\ ~B(k) => N(k) = 0
                     /\ \A i \in 1..k : Sets(changes[i], m, cur) => N(k) = changes[i].count
           P == {k \in 0..n : Now(k)}
<1>3. 0 \in P
  BY <1>1, <1>2 DEF Runs
<1>4. ASSUME NEW k \in 1..n, k - 1 \in P PROVE k \in P
  <2> DEFINE c == changes[k]
  <2>1. f[k] = ApplyChange(f[k - 1], c) /\ c \in Change /\ Now(k - 1) /\ k - 1 \in 0..n
    BY <1>1, <1>2, <1>4 DEF Runs
  <2>2. f[k - 1].table \in Seq(CountRows) /\ KeyedRows(f[k - 1].table)
    BY <1>1, <2>1, CountsTyped
  <2>3. N(k) = CountStep(N(k - 1), c, m, cur)
    <3> DEFINE d == f[k - 1]
    <3>1. d.table \in Seq(CountRows) /\ KeyedRows(d.table) /\ f[k] = ApplyChange(d, c) /\ c \in Change
      BY <2>1, <2>2
    <3> HIDE DEF d, c
    <3>2. CountOf(ApplyChange(d, c), m, cur) = CountStep(CountOf(d, m, cur), c, m, cur)
      BY <3>1, CountsChange
    <3> QED  BY <3>1, <3>2 DEF d
  <2> HIDE DEF N
  <2>4. \A i \in 1..k : (i \in 1..k - 1 \/ i = k) /\ i \in DOMAIN changes
    BY <1>2
  <2>5. k \in 1..k /\ k \in DOMAIN changes /\ \A i \in 1..k - 1 : i \in 1..k /\ i < k /\ i # k
    BY <1>2
  <2>6. CASE Sets(c, m, cur)
    <3>1. N(k) = c.count
      BY <2>3, <2>6 DEF CountStep, Sets
    <3>2. \A i \in 1..k : Sets(changes[i], m, cur) => i = k
      BY <2>4, <2>5, <2>6 DEF SetsAfterClears
    <3>3. B(k)
      BY <2>5, <2>6
    <3> HIDE DEF A, B
    <3>4. Now(k)
      BY <3>1, <3>2, <3>3
    <3> QED  BY <1>2, <3>4
  <2>7. CASE Clears(c, m)
    <3>1. N(k) = 0 /\ A(k)
      BY <2>3, <2>5, <2>7 DEF CountStep, Clears
    <3>2. \A i \in 1..k : ~Sets(changes[i], m, cur)
      <4> TAKE i \in 1..k
      <4>1. Sets(changes[i], m, cur) => k < i
        BY <2>4, <2>5, <2>7 DEF SetsAfterClears
      <4>2. ~(k < i)
        BY <1>2
      <4> QED  BY <4>1, <4>2
    <3> HIDE DEF A
    <3>4. Now(k)
      BY <3>1, <3>2
    <3> QED  BY <1>2, <3>4
  <2>8. CASE ~Sets(c, m, cur) /\ ~Clears(c, m)
    <3>1. c.kind # "IncrementTable"
      BY <2>5 DEF SetsAfterClears
    <3>2. N(k) = N(k - 1)
      BY <2>3, <2>8, <3>1 DEF CountStep, Sets, Clears
    <3>3. (A(k) <=> A(k - 1)) /\ (B(k) <=> B(k - 1))
      BY <2>4, <2>5, <2>8
    <3>4. \A i \in 1..k : Sets(changes[i], m, cur) => i \in 1..k - 1
      BY <2>4, <2>8
    <3> HIDE DEF A, B
    <3>5. Now(k)
      BY <2>1, <3>2, <3>3, <3>4
    <3> QED  BY <1>2, <3>5
  <2> QED  BY <2>6, <2>7, <2>8
<1> HIDE DEF P
<1>5. n \in P
  BY <1>3, <1>4, EachChange DEF P
<1>6. B(n) => A(n)
  BY <1>2 DEF SetsAfterClears
<1> QED  BY <1>1, <1>2, <1>5, <1>6 DEF P

LEMMA OneChange ==
  ASSUME NEW data, NEW c \in Change
  PROVE  FoldLeft(ApplyChange, data, <<c>>) = ApplyChange(data, c)
<1>1. <<>> \in Seq(Change) /\ Append(<<>>, c) = <<c>>
  OBVIOUS
<1>2. FoldLeft(ApplyChange, data, Append(<<>>, c))
        = ApplyChange(FoldLeft(ApplyChange, data, <<>>), c)
  BY <1>1, FoldAppend
<1>3. FoldLeft(ApplyChange, data, <<>>) = data
  BY FoldEmpty
<1> HIDE DEF FoldLeft
<1> QED  BY <1>1, <1>2, <1>3
=============================================================================

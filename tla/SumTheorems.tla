---------------------------- MODULE SumTheorems ----------------------------
(***************************************************************************)
(* Sums of a function over a finite set, as the specifications of money    *)
(* write them: SumFunctionOnSet(f, S) of the Functions module.             *)
(*                                                                         *)
(* The sum is the value of a recursive function on the subsets of S.  That *)
(* the function exists, and every law after it, is an induction; the laws  *)
(* are about a fixed f, so instead of an induction rule over a predicate   *)
(* each proof takes a smallest set that breaks the law.                    *)
(***************************************************************************)
EXTENDS Integers, Functions, FiniteSetTheorems, WellFoundedInduction, TLAPS

\* The recursion of MapThenFoldSet for a sum: one element at a time.
One(s) == CHOOSE x \in s : TRUE
Solves(f, S, g) == g = [s \in SUBSET S |-> IF s = {} THEN 0 ELSE f[One(s)] + g[s \ {One(s)}]]
SumIter(f, S) == CHOOSE g : Solves(f, S, g)

\* The sum is the value at S of the recursive function on the subsets of S.
LEMMA SumDef == \A f, S : SumFunctionOnSet(f, S) = SumIter(f, S)[S]
  BY DEF SumFunctionOnSet, FoldFunctionOnSet, MapThenFoldSet, SumIter, Solves, One

\* A nonempty set of natural numbers has a least element.
LEMMA Smallest ==
  ASSUME NEW T \in SUBSET Nat, T # {}
  PROVE  \E m \in T : \A n \in T : m <= n
  <1> DEFINE R == OpToRel(<, Nat)
  <1>1. \E m \in T : \A n \in T : <<n, m>> \notin R
    <2> HIDE DEF R
    <2> QED BY NatLessThanWellFounded, WFMin DEF R
  <1>2. ASSUME NEW m \in T, NEW n \in T, n < m
        PROVE <<n, m>> \in R
    BY <1>2 DEF OpToRel
  <1> HIDE DEF R
  <1>3. PICK m \in T : \A n \in T : <<n, m>> \notin R
    BY <1>1
  <1>4. ASSUME NEW n \in T
        PROVE  m <= n
    <2>1. m \in Nat /\ n \in Nat
      OBVIOUS
    <2>2. ~(n < m)
      BY <1>2, <1>3
    <2> QED BY <2>1, <2>2
  <1> QED
    BY <1>4

\* A nonempty set of subsets of a finite set has a minimal element.
LEMMA MinimalSubset ==
  ASSUME NEW S, IsFiniteSet(S), NEW X \in SUBSET SUBSET S, X # {}
  PROVE  \E m \in X : \A x \in X : x \subseteq m => x = m
  <1>1. PICK m \in X : \A x \in X : Cardinality(m) <= Cardinality(x)
    <2> DEFINE T == {Cardinality(x) : x \in X}
    <2>1. T \in SUBSET Nat /\ T # {}
      BY FS_Subset, FS_CardinalityType
    <2>2. PICK c \in T : \A d \in T : c <= d
      <3> HIDE DEF T
      <3> QED BY <2>1, Smallest
    <2> QED BY <2>2
  <1>2. ASSUME NEW x \in X, x \subseteq m
        PROVE x = m
    <2>1. IsFiniteSet(m) /\ Cardinality(x) <= Cardinality(m) /\ Cardinality(x) \in Nat /\ Cardinality(m) \in Nat
      BY <1>2, FS_Subset, FS_CardinalityType
    <2>2. Cardinality(x) = Cardinality(m)
      BY <1>1, <2>1
    <2> QED BY <1>2, <2>1, <2>2, FS_Subset
  <1> QED BY <1>1, <1>2

\* The recursion has a solution, found one cardinality at a time.
LEMMA IterExists ==
  ASSUME NEW f, NEW S, IsFiniteSet(S)
  PROVE  \E g : Solves(f, S, g)
  <1> DEFINE D(n) == {s \in SUBSET S : Cardinality(s) <= n}
             Upto(g, n) == g = [s \in D(n) |-> IF s = {} THEN 0 ELSE f[One(s)] + g[s \ {One(s)}]]
             Bad == {n \in Nat : ~\E g : Upto(g, n)}
  <1>1. ASSUME NEW s \in SUBSET S, s # {}
        PROVE  /\ Cardinality(s) \in Nat /\ Cardinality(s \ {One(s)}) = Cardinality(s) - 1
               /\ s \ {One(s)} \in SUBSET S
    BY <1>1, FS_Subset, FS_CardinalityType, FS_RemoveElement DEF One
  <1>2. \E g : Upto(g, 0)
    <2>1. D(0) = {{}}
      BY FS_Subset, FS_CardinalityType, FS_EmptySet
    <2>2. Upto([s \in {{}} |-> 0], 0)
      BY <2>1
    <2> QED BY <2>2
  <1>3. ASSUME NEW n \in Nat, NEW g, Upto(g, n)
        PROVE  \E h : Upto(h, n + 1)
    <2> DEFINE h == [s \in D(n + 1) |-> IF s = {} THEN 0 ELSE f[One(s)] + g[s \ {One(s)}]]
    <2>1. ASSUME NEW s \in D(n + 1), s # {}
          PROVE  s \ {One(s)} \in D(n)
      BY <1>1, <2>1
    <2>2. ASSUME NEW s \in D(n)
          PROVE  s \in D(n + 1) /\ h[s] = g[s]
      <3>1. s \in D(n + 1)
        BY FS_Subset, FS_CardinalityType
      <3>2. g[s] = IF s = {} THEN 0 ELSE f[One(s)] + g[s \ {One(s)}]
        BY <1>3
      <3> QED BY <3>1, <3>2
    <2>3. Upto(h, n + 1)
      <3>1. ASSUME NEW s \in D(n + 1), s # {}
            PROVE  h[s \ {One(s)}] = g[s \ {One(s)}]
        BY <2>1, <2>2, <3>1
      <3> QED BY <3>1
    <2> QED BY <2>3
  <1>4. Bad = {}
    <2> HIDE DEF Upto
    <2>1. ASSUME Bad # {} PROVE FALSE
      <3>1. PICK m \in Bad : \A n \in Bad : m <= n
        BY <2>1, Smallest
      <3>2. m # 0
        BY <1>2
      <3>3. m - 1 \in Nat /\ m - 1 \notin Bad /\ (m - 1) + 1 = m
        BY <3>1, <3>2
      <3> QED BY <1>3, <3>3
    <2> QED BY <2>1
  <1>5. D(Cardinality(S)) = SUBSET S /\ Cardinality(S) \in Nat
    BY FS_Subset, FS_CardinalityType
  <1>6. PICK g : Upto(g, Cardinality(S))
    <2> HIDE DEF Upto
    <2> QED BY <1>4, <1>5
  <1> QED BY <1>5, <1>6 DEF Solves

\* The recursive function under the fold, one step unrolled.
LEMMA IterDef ==
  ASSUME NEW f, NEW S, IsFiniteSet(S), NEW s \in SUBSET S
  PROVE  SumIter(f, S)[s] = IF s = {} THEN 0 ELSE f[One(s)] + SumIter(f, S)[s \ {One(s)}]
  <1> DEFINE h == SumIter(f, S)
  <1>1. Solves(f, S, h)
    BY IterExists DEF SumIter
  <1>2. h = [t \in SUBSET S |-> IF t = {} THEN 0 ELSE f[One(t)] + h[t \ {One(t)}]]
    BY <1>1 DEF Solves
  <1> HIDE DEF h
  <1> QED
    BY <1>2 DEF h

\* The sum over a part of S does not depend on S.
LEMMA IterLocal ==
  ASSUME NEW f, NEW S, IsFiniteSet(S), NEW T \in SUBSET S, IsFiniteSet(T)
  PROVE  SumIter(f, S)[T] = SumIter(f, T)[T]
  <1> DEFINE X == {t \in SUBSET T : SumIter(f, S)[t] # SumIter(f, T)[t]}
  <1>1. ASSUME NEW m \in X, \A x \in X : x \subseteq m => x = m
        PROVE  FALSE
    <2>1. m \in SUBSET S /\ m \in SUBSET T
      OBVIOUS
    <2>2. m # {}
      BY <2>1, IterDef
    <2>3. One(m) \in m
      BY <2>2 DEF One
    <2>4. m \ {One(m)} \notin X /\ m \ {One(m)} \in SUBSET T
      BY <1>1, <2>3
    <2>5. SumIter(f, S)[m \ {One(m)}] = SumIter(f, T)[m \ {One(m)}]
      BY <2>4
    <2>6. SumIter(f, S)[m] = SumIter(f, T)[m]
      BY <2>1, <2>2, <2>5, IterDef
    <2> QED
      BY <2>6
  <1>2. X = {}
    <2> HIDE DEF X
    <2>1. X \in SUBSET SUBSET T
      BY DEF X
    <2> QED
      BY <1>1, <2>1, MinimalSubset
  <1> QED
    BY <1>2

-----------------------------------------------------------------------------
\* The sum over nothing.
THEOREM SumEmpty == ASSUME NEW f PROVE SumFunctionOnSet(f, {}) = 0
  BY SumDef, IterDef, FS_EmptySet

\* The sum over S takes out one element.
LEMMA SumStep ==
  ASSUME NEW f, NEW S, IsFiniteSet(S), S # {}
  PROVE  /\ One(S) \in S
         /\ SumFunctionOnSet(f, S) = f[One(S)] + SumFunctionOnSet(f, S \ {One(S)})
  <1>1. One(S) \in S
    BY DEF One
  <1>2. IsFiniteSet(S \ {One(S)})
    BY FS_Subset
  <1>3. SumIter(f, S)[S \ {One(S)}] = SumIter(f, S \ {One(S)})[S \ {One(S)}]
    BY <1>2, IterLocal
  <1>4. SumIter(f, S)[S] = f[One(S)] + SumIter(f, S)[S \ {One(S)}]
    BY IterDef
  <1> QED
    BY <1>1, <1>3, <1>4, SumDef

\* A sum of integers is an integer.
THEOREM SumInt ==
  ASSUME NEW S, IsFiniteSet(S), NEW f, \A x \in S : f[x] \in Int
  PROVE  SumFunctionOnSet(f, S) \in Int
  <1> DEFINE X == {t \in SUBSET S : SumFunctionOnSet(f, t) \notin Int}
  <1>1. ASSUME NEW m \in X, \A x \in X : x \subseteq m => x = m
        PROVE  FALSE
    <2>1. m # {}
      BY SumEmpty
    <2>2. IsFiniteSet(m)
      BY FS_Subset
    <2>3. One(m) \in m /\ SumFunctionOnSet(f, m) = f[One(m)] + SumFunctionOnSet(f, m \ {One(m)})
      BY <2>1, <2>2, SumStep
    <2>4. SumFunctionOnSet(f, m \ {One(m)}) \in Int
      BY <1>1, <2>3
    <2>5. f[One(m)] \in Int
      BY <2>3
    <2> QED
      BY <2>3, <2>4, <2>5
  <1>2. X = {}
    <2> HIDE DEF X
    <2>1. X \in SUBSET SUBSET S
      BY DEF X
    <2> QED
      BY <1>1, <2>1, MinimalSubset
  <1> QED
    BY <1>2

\* A sum of natural numbers is a natural number.
THEOREM SumNat ==
  ASSUME NEW S, IsFiniteSet(S), NEW f, \A x \in S : f[x] \in Nat
  PROVE  SumFunctionOnSet(f, S) \in Nat
  <1> DEFINE X == {t \in SUBSET S : SumFunctionOnSet(f, t) \notin Nat}
  <1>1. ASSUME NEW m \in X, \A x \in X : x \subseteq m => x = m
        PROVE  FALSE
    <2>1. m # {}
      BY SumEmpty
    <2>2. IsFiniteSet(m)
      BY FS_Subset
    <2>3. One(m) \in m /\ SumFunctionOnSet(f, m) = f[One(m)] + SumFunctionOnSet(f, m \ {One(m)})
      BY <2>1, <2>2, SumStep
    <2>4. SumFunctionOnSet(f, m \ {One(m)}) \in Nat
      BY <1>1, <2>3
    <2>5. f[One(m)] \in Nat
      BY <2>3
    <2> QED
      BY <2>3, <2>4, <2>5
  <1>2. X = {}
    <2> HIDE DEF X
    <2>1. X \in SUBSET SUBSET S
      BY DEF X
    <2> QED
      BY <1>1, <2>1, MinimalSubset
  <1> QED
    BY <1>2

\* Equal terms, equal sums.
THEOREM SumCong ==
  ASSUME NEW S, IsFiniteSet(S), NEW f, NEW g, \A x \in S : f[x] = g[x]
  PROVE  SumFunctionOnSet(f, S) = SumFunctionOnSet(g, S)
  <1> DEFINE X == {t \in SUBSET S : SumFunctionOnSet(f, t) # SumFunctionOnSet(g, t)}
  <1>1. ASSUME NEW m \in X, \A x \in X : x \subseteq m => x = m
        PROVE  FALSE
    <2>1. m # {}
      BY SumEmpty
    <2>2. IsFiniteSet(m)
      BY FS_Subset
    <2>3. /\ One(m) \in m
          /\ SumFunctionOnSet(f, m) = f[One(m)] + SumFunctionOnSet(f, m \ {One(m)})
          /\ SumFunctionOnSet(g, m) = g[One(m)] + SumFunctionOnSet(g, m \ {One(m)})
      BY <2>1, <2>2, SumStep
    <2>4. SumFunctionOnSet(f, m \ {One(m)}) = SumFunctionOnSet(g, m \ {One(m)})
      BY <1>1, <2>3
    <2>5. f[One(m)] = g[One(m)]
      BY <2>3
    <2> QED
      BY <2>3, <2>4, <2>5
  <1>2. X = {}
    <2> HIDE DEF X
    <2>1. X \in SUBSET SUBSET S
      BY DEF X
    <2> QED
      BY <1>1, <2>1, MinimalSubset
  <1> QED
    BY <1>2

\* Any element may be taken out first.
THEOREM SumRemove ==
  ASSUME NEW S, IsFiniteSet(S), NEW f, \A x \in S : f[x] \in Int, NEW a \in S
  PROVE  SumFunctionOnSet(f, S) = f[a] + SumFunctionOnSet(f, S \ {a})
  <1> DEFINE Off(t, x) == SumFunctionOnSet(f, t) # f[x] + SumFunctionOnSet(f, t \ {x})
             X == {t \in SUBSET S : \E x \in t : Off(t, x)}
  <1>1. ASSUME NEW m \in X, \A x \in X : x \subseteq m => x = m
        PROVE  FALSE
    <2>1. PICK x \in m : Off(m, x)
      OBVIOUS
    <2> DEFINE o == One(m)
    <2>2. IsFiniteSet(m) /\ m \in SUBSET S
      BY FS_Subset
    <2>3. o \in m /\ SumFunctionOnSet(f, m) = f[o] + SumFunctionOnSet(f, m \ {o})
      BY <2>1, <2>2, SumStep
    <2>4. x # o
      BY <2>1, <2>3
    <2>5. m \ {o} \notin X /\ m \ {x} \notin X /\ m \ {o} \in SUBSET S /\ m \ {x} \in SUBSET S
      BY <1>1, <2>1, <2>2, <2>3
    <2> HIDE DEF o
    <2>6. SumFunctionOnSet(f, m \ {o}) = f[x] + SumFunctionOnSet(f, (m \ {o}) \ {x})
      BY <2>1, <2>4, <2>5
    <2>7. SumFunctionOnSet(f, m \ {x}) = f[o] + SumFunctionOnSet(f, (m \ {x}) \ {o})
      BY <2>3, <2>4, <2>5
    <2>8. (m \ {x}) \ {o} = (m \ {o}) \ {x}
      OBVIOUS
    <2>9. SumFunctionOnSet(f, (m \ {o}) \ {x}) \in Int
      <3>1. IsFiniteSet((m \ {o}) \ {x}) /\ \A y \in (m \ {o}) \ {x} : f[y] \in Int
        BY <2>2, FS_Subset
      <3> QED
        BY <3>1, SumInt
    <2>10. f[x] \in Int /\ f[o] \in Int
      BY <2>2, <2>3
    <2>11. SumFunctionOnSet(f, m) = f[o] + (f[x] + SumFunctionOnSet(f, (m \ {o}) \ {x}))
      BY <2>3, <2>6
    <2>12. SumFunctionOnSet(f, m) = f[x] + (f[o] + SumFunctionOnSet(f, (m \ {o}) \ {x}))
      BY <2>9, <2>10, <2>11
    <2>13. SumFunctionOnSet(f, m) = f[x] + SumFunctionOnSet(f, m \ {x})
      BY <2>7, <2>8, <2>12
    <2> QED
      BY <2>1, <2>13
  <1>2. X = {}
    <2> HIDE DEF X
    <2>1. X \in SUBSET SUBSET S
      BY DEF X
    <2> QED
      BY <1>1, <2>1, MinimalSubset
  <1> QED
    BY <1>2

\* One more element.
THEOREM SumInsert ==
  ASSUME NEW S, IsFiniteSet(S), NEW a, a \notin S, NEW f, \A x \in S \cup {a} : f[x] \in Int
  PROVE  SumFunctionOnSet(f, S \cup {a}) = f[a] + SumFunctionOnSet(f, S)
  <1>1. IsFiniteSet(S \cup {a}) /\ (S \cup {a}) \ {a} = S /\ a \in S \cup {a}
    BY FS_AddElement
  <1> QED
    BY <1>1, SumRemove

\* One term changes.
THEOREM SumUpdate ==
  ASSUME NEW S, IsFiniteSet(S), NEW f, NEW g, NEW a \in S,
         \A x \in S : f[x] \in Int /\ g[x] \in Int,
         \A x \in S \ {a} : g[x] = f[x]
  PROVE  SumFunctionOnSet(g, S) = SumFunctionOnSet(f, S) + (g[a] - f[a])
  <1>1. IsFiniteSet(S \ {a})
    BY FS_Subset
  <1>2. SumFunctionOnSet(g, S \ {a}) = SumFunctionOnSet(f, S \ {a})
    BY <1>1, SumCong
  <1>3. SumFunctionOnSet(f, S) = f[a] + SumFunctionOnSet(f, S \ {a})
    BY SumRemove
  <1>4. SumFunctionOnSet(g, S) = g[a] + SumFunctionOnSet(g, S \ {a})
    BY SumRemove
  <1>5. SumFunctionOnSet(f, S \ {a}) \in Int
    BY <1>1, SumInt
  <1> QED
    BY <1>2, <1>3, <1>4, <1>5

\* Term by term.
THEOREM SumAdd ==
  ASSUME NEW S, IsFiniteSet(S), NEW f, NEW g, NEW h,
         \A x \in S : f[x] \in Int /\ g[x] \in Int /\ h[x] = f[x] + g[x]
  PROVE  SumFunctionOnSet(h, S) = SumFunctionOnSet(f, S) + SumFunctionOnSet(g, S)
  <1> DEFINE X == {t \in SUBSET S : SumFunctionOnSet(h, t) # SumFunctionOnSet(f, t) + SumFunctionOnSet(g, t)}
  <1>1. ASSUME NEW m \in X, \A x \in X : x \subseteq m => x = m
        PROVE  FALSE
    <2> DEFINE o == One(m)
    <2>1. m # {}
      <3>1. ASSUME m = {} PROVE SumFunctionOnSet(h, m) = SumFunctionOnSet(f, m) + SumFunctionOnSet(g, m)
        <4>1. SumFunctionOnSet(h, m) = 0 /\ SumFunctionOnSet(f, m) = 0 /\ SumFunctionOnSet(g, m) = 0
          BY <3>1, SumEmpty
        <4> QED
          BY <4>1
      <3> QED
        BY <3>1
    <2>2. IsFiniteSet(m) /\ IsFiniteSet(m \ {o})
      BY FS_Subset
    <2>3. /\ o \in m
          /\ SumFunctionOnSet(f, m) = f[o] + SumFunctionOnSet(f, m \ {o})
          /\ SumFunctionOnSet(g, m) = g[o] + SumFunctionOnSet(g, m \ {o})
          /\ SumFunctionOnSet(h, m) = h[o] + SumFunctionOnSet(h, m \ {o})
      BY <2>1, <2>2, SumStep
    <2>4. SumFunctionOnSet(h, m \ {o}) = SumFunctionOnSet(f, m \ {o}) + SumFunctionOnSet(g, m \ {o})
      BY <1>1, <2>3
    <2>5. f[o] \in Int /\ g[o] \in Int /\ h[o] = f[o] + g[o]
      BY <2>3
    <2>6. SumFunctionOnSet(f, m \ {o}) \in Int /\ SumFunctionOnSet(g, m \ {o}) \in Int
      BY <2>2, SumInt
    <2> HIDE DEF o
    <2> QED
      BY <2>3, <2>4, <2>5, <2>6
  <1>2. X = {}
    <2> HIDE DEF X
    <2>1. X \in SUBSET SUBSET S
      BY DEF X
    <2> QED
      BY <1>1, <2>1, MinimalSubset
  <1> QED
    BY <1>2

\* Adding up group by group: the terms of S go to the members k[x] of U.
THEOREM SumPartition ==
  ASSUME NEW S, IsFiniteSet(S), NEW U, IsFiniteSet(U),
         NEW f, \A x \in S : f[x] \in Int, NEW k, \A x \in S : k[x] \in U
  PROVE  SumFunctionOnSet([u \in U |-> SumFunctionOnSet(f, {x \in S : k[x] = u})], U)
            = SumFunctionOnSet(f, S)
  <1> DEFINE group(t, u) == {x \in t : k[x] = u}
             share(t) == [u \in U |-> SumFunctionOnSet(f, group(t, u))]
             X == {t \in SUBSET S : SumFunctionOnSet(share(t), U) # SumFunctionOnSet(f, t)}
  <1>0. ASSUME NEW t \in SUBSET S, NEW u \in U
        PROVE  share(t)[u] = SumFunctionOnSet(f, group(t, u)) /\ share(t)[u] \in Int
    <2>1. IsFiniteSet(group(t, u)) /\ \A x \in group(t, u) : f[x] \in Int
      BY FS_Subset
    <2> QED
      BY <2>1, SumInt
  <1>1. ASSUME NEW m \in X, \A x \in X : x \subseteq m => x = m
        PROVE  FALSE
    <2>0. m \in SUBSET S
      OBVIOUS
    <2>1. m # {}
      <3>1. ASSUME m = {} PROVE FALSE
        <4>1. \A u \in U : share(m)[u] = 0
          BY <1>0, <3>1, SumEmpty
        <4>2. SumFunctionOnSet(share(m), U) + SumFunctionOnSet(share(m), U) = SumFunctionOnSet(share(m), U)
          <5>1. \A u \in U : share(m)[u] \in Int /\ share(m)[u] = share(m)[u] + share(m)[u]
            BY <4>1
          <5> HIDE DEF share
          <5> QED
            BY <5>1, SumAdd
        <4>3. SumFunctionOnSet(share(m), U) \in Int
          <5>1. \A u \in U : share(m)[u] \in Int
            BY <4>1
          <5> HIDE DEF share
          <5> QED
            BY <5>1, SumInt
        <4>4. SumFunctionOnSet(share(m), U) = 0
          <5>1. \A n \in Int : n + n = n => n = 0
            OBVIOUS
          <5> HIDE DEF share
          <5> QED
            BY <4>2, <4>3, <5>1
        <4>5. SumFunctionOnSet(f, m) = 0
          BY <3>1, SumEmpty
        <4> QED
          BY <4>4, <4>5
      <3> QED
        BY <3>1
    <2>2. PICK o \in m : TRUE
      BY <2>1
    <2> DEFINE r == m \ {o}
               v == k[o]
    <2>3. r \in SUBSET S /\ r \notin X /\ v \in U /\ f[o] \in Int
      BY <1>1, <2>0, <2>2
    <2>4. \A u \in U \ {v} : share(m)[u] = share(r)[u]
      <3>1. \A u \in U \ {v} : group(m, u) = group(r, u)
        OBVIOUS
      <3> QED
        BY <1>0, <2>0, <2>3, <3>1
    <2>5. share(m)[v] = f[o] + share(r)[v]
      <3>1. group(m, v) = group(r, v) \cup {o} /\ o \notin group(r, v)
        BY <2>2
      <3>2. IsFiniteSet(group(r, v)) /\ \A x \in group(r, v) \cup {o} : f[x] \in Int
        BY <2>0, <2>2, FS_Subset
      <3>3. SumFunctionOnSet(f, group(m, v)) = f[o] + SumFunctionOnSet(f, group(r, v))
        <4> HIDE DEF group
        <4> QED
          BY <3>1, <3>2, SumInsert
      <3> QED
        BY <1>0, <2>0, <2>3, <3>3
    <2>6. SumFunctionOnSet(share(m), U) = SumFunctionOnSet(share(r), U) + (share(m)[v] - share(r)[v])
      <3>1. \A u \in U : share(r)[u] \in Int /\ share(m)[u] \in Int
        BY <1>0, <2>0, <2>3
      <3> HIDE DEF share, r, v
      <3>2. v \in U
        BY <2>3
      <3> QED
        BY <2>4, <3>1, <3>2, SumUpdate
    <2>7. SumFunctionOnSet(share(r), U) = SumFunctionOnSet(f, r)
      BY <2>3
    <2>8. SumFunctionOnSet(f, m) = f[o] + SumFunctionOnSet(f, r)
      BY <2>0, <2>2, FS_Subset, SumRemove
    <2>9. share(r)[v] \in Int /\ SumFunctionOnSet(f, r) \in Int
      BY <1>0, <2>3, FS_Subset, SumInt
    <2>10. SumFunctionOnSet(share(m), U) = SumFunctionOnSet(f, m)
      <3> HIDE DEF share, v, r
      <3> QED
        BY <2>3, <2>5, <2>6, <2>7, <2>8, <2>9
    <2> QED
      BY <2>10
  <1>2. X = {}
    <2> HIDE DEF X
    <2>1. X \in SUBSET SUBSET S
      BY DEF X
    <2> QED
      BY <1>1, <2>1, MinimalSubset
  <1>3. SumFunctionOnSet(share(S), U) = SumFunctionOnSet(f, S)
    BY <1>2
  <1> QED
    BY <1>3

\* Terms outside a part R of S count as nothing.
THEOREM SumWithin ==
  ASSUME NEW S, IsFiniteSet(S), NEW R \in SUBSET S, NEW f, NEW g,
         \A x \in R : f[x] \in Int /\ g[x] = f[x],
         \A x \in S \ R : g[x] = 0
  PROVE  SumFunctionOnSet(g, S) = SumFunctionOnSet(f, R)
  <1> DEFINE X == {t \in SUBSET S : SumFunctionOnSet(g, t) # SumFunctionOnSet(f, t \cap R)}
  <1>1. ASSUME NEW m \in X, \A x \in X : x \subseteq m => x = m
        PROVE  FALSE
    <2> DEFINE o == One(m)
               r == m \ {o}
    <2>1. m # {}
      <3>1. ASSUME m = {} PROVE SumFunctionOnSet(g, m) = SumFunctionOnSet(f, m \cap R)
        <4>1. m \cap R = {}
          BY <3>1
        <4> QED
          BY <3>1, <4>1, SumEmpty
      <3> QED
        BY <3>1
    <2>2. IsFiniteSet(m) /\ m \in SUBSET S
      BY FS_Subset
    <2>3. o \in m /\ SumFunctionOnSet(g, m) = g[o] + SumFunctionOnSet(g, r)
      BY <2>1, <2>2, SumStep
    <2>4. SumFunctionOnSet(g, r) = SumFunctionOnSet(f, r \cap R)
      BY <1>1, <2>2, <2>3
    <2>5. IsFiniteSet(r \cap R) /\ \A x \in r \cap R : f[x] \in Int
      BY <2>2, FS_Subset
    <2>6. SumFunctionOnSet(f, r \cap R) \in Int
      <3> HIDE DEF r
      <3> QED
        BY <2>5, SumInt
    <2>7. CASE o \in R
      <3>1. m \cap R = (r \cap R) \cup {o} /\ o \notin r \cap R
        BY <2>3, <2>7
      <3>2. \A x \in (r \cap R) \cup {o} : f[x] \in Int
        BY <2>5, <2>7
      <3>3. SumFunctionOnSet(f, m \cap R) = f[o] + SumFunctionOnSet(f, r \cap R)
        <4> HIDE DEF r, o
        <4> QED
          BY <2>5, <3>1, <3>2, SumInsert
      <3>4. g[o] = f[o]
        BY <2>7
      <3> QED
        BY <2>3, <2>4, <3>3, <3>4
    <2>8. CASE o \notin R
      <3>1. m \cap R = r \cap R /\ g[o] = 0
        BY <2>2, <2>3, <2>8
      <3>2. SumFunctionOnSet(g, m) = SumFunctionOnSet(f, r \cap R)
        <4> HIDE DEF r, o
        <4> QED
          BY <2>3, <2>4, <2>6, <3>1
      <3> QED
        BY <3>1, <3>2
    <2> QED
      BY <2>7, <2>8
  <1>2. X = {}
    <2> HIDE DEF X
    <2>1. X \in SUBSET SUBSET S
      BY DEF X
    <2> QED
      BY <1>1, <2>1, MinimalSubset
  <1>3. SumFunctionOnSet(g, S) = SumFunctionOnSet(f, S \cap R)
    BY <1>2
  <1> QED
    BY <1>3

\* One element has a term.
THEOREM SumSingle ==
  ASSUME NEW S, IsFiniteSet(S), NEW a \in S, NEW f, f[a] \in Int, \A x \in S \ {a} : f[x] = 0
  PROVE  SumFunctionOnSet(f, S) = f[a]
  <1>1. SumFunctionOnSet(f, S) = SumFunctionOnSet(f, {a})
    <2>1. /\ {a} \in SUBSET S /\ \A x \in {a} : f[x] \in Int /\ f[x] = f[x]
          /\ \A x \in S \ {a} : f[x] = 0
      OBVIOUS
    <2> QED
      BY <2>1, SumWithin
  <1>2. SumFunctionOnSet(f, {a}) = f[a] + SumFunctionOnSet(f, {a} \ {a})
    BY FS_Singleton, SumRemove
  <1>3. {a} \ {a} = {}
    OBVIOUS
  <1> QED
    BY <1>1, <1>2, <1>3, SumEmpty

\* Two parts without a common element.
THEOREM SumUnion ==
  ASSUME NEW S, IsFiniteSet(S), NEW T, IsFiniteSet(T), S \cap T = {},
         NEW f, \A x \in S \cup T : f[x] \in Int
  PROVE  SumFunctionOnSet(f, S \cup T) = SumFunctionOnSet(f, S) + SumFunctionOnSet(f, T)
  <1> DEFINE A == S \cup T
             g == [x \in A |-> IF x \in S THEN f[x] ELSE 0]
             h == [x \in A |-> IF x \in T THEN f[x] ELSE 0]
  <1>1. IsFiniteSet(A) /\ S \in SUBSET A /\ T \in SUBSET A
    BY FS_Union
  <1>2. /\ \A x \in S : f[x] \in Int /\ g[x] = f[x]
        /\ \A x \in A \ S : g[x] = 0
        /\ \A x \in T : f[x] \in Int /\ h[x] = f[x]
        /\ \A x \in A \ T : h[x] = 0
    OBVIOUS
  <1>3. \A x \in A : g[x] \in Int /\ h[x] \in Int /\ f[x] = g[x] + h[x]
    OBVIOUS
  <1> HIDE DEF g, h, A
  <1>4. SumFunctionOnSet(g, A) = SumFunctionOnSet(f, S) /\ SumFunctionOnSet(h, A) = SumFunctionOnSet(f, T)
    BY <1>1, <1>2, SumWithin
  <1>5. SumFunctionOnSet(f, A) = SumFunctionOnSet(g, A) + SumFunctionOnSet(h, A)
    BY <1>1, <1>3, SumAdd
  <1> QED
    BY <1>4, <1>5 DEF A

\* The function h lists every element of T once, over S.
Lists(h, S, T) ==
    /\ \A x, y \in S : h[x] = h[y] => x = y
    /\ \A x \in S : h[x] \in T
    /\ \A y \in T : \E x \in S : y = h[x]

\* The sum over a set that is listed by another.
THEOREM SumImage ==
  ASSUME NEW S, IsFiniteSet(S), NEW T, NEW h, Lists(h, S, T),
         NEW f, NEW g, \A x \in S : f[h[x]] \in Int /\ g[x] = f[h[x]]
  PROVE  IsFiniteSet(T) /\ SumFunctionOnSet(f, T) = SumFunctionOnSet(g, S)
  <1> DEFINE image(t) == {h[x] : x \in t}
             X == {t \in SUBSET S :
                     ~(IsFiniteSet(image(t)) /\ SumFunctionOnSet(f, image(t)) = SumFunctionOnSet(g, t))}
  <1>1. ASSUME NEW m \in X, \A x \in X : x \subseteq m => x = m
        PROVE  FALSE
    <2>1. m # {}
      <3>1. ASSUME m = {}
            PROVE  IsFiniteSet(image(m)) /\ SumFunctionOnSet(f, image(m)) = SumFunctionOnSet(g, m)
        <4>1. image(m) = {}
          BY <3>1
        <4> QED
          BY <3>1, <4>1, SumEmpty, FS_EmptySet
      <3> QED
        BY <3>1
    <2>2. PICK o \in m : TRUE
      BY <2>1
    <2> DEFINE r == m \ {o}
    <2>3. m \in SUBSET S /\ r \in SUBSET S /\ r \notin X
      BY <1>1, <2>2
    <2>4. image(m) = image(r) \cup {h[o]} /\ h[o] \notin image(r)
      BY <2>2, <2>3 DEF Lists
    <2>5. IsFiniteSet(m) /\ IsFiniteSet(r) /\ IsFiniteSet(image(r)) /\ IsFiniteSet(image(m))
      <3>1. IsFiniteSet(m) /\ IsFiniteSet(r) /\ IsFiniteSet(image(r))
        BY <2>3, FS_Subset
      <3> HIDE DEF image, r
      <3> QED
        BY <2>4, <3>1, FS_AddElement
    <2>6. \A x \in image(r) \cup {h[o]} : f[x] \in Int
      BY <2>2, <2>3
    <2>7. SumFunctionOnSet(f, image(m)) = f[h[o]] + SumFunctionOnSet(f, image(r))
      <3> HIDE DEF image, r
      <3> QED
        BY <2>4, <2>5, <2>6, SumInsert
    <2>8. SumFunctionOnSet(g, m) = g[o] + SumFunctionOnSet(g, r)
      <3>1. \A x \in m : g[x] \in Int
        BY <2>3
      <3> QED
        BY <2>2, <2>5, <3>1, SumRemove
    <2>9. SumFunctionOnSet(f, image(r)) = SumFunctionOnSet(g, r) /\ g[o] = f[h[o]]
      BY <2>2, <2>3
    <2> QED
      BY <2>5, <2>7, <2>8, <2>9
  <1>2. X = {}
    <2> HIDE DEF X
    <2>1. X \in SUBSET SUBSET S
      BY DEF X
    <2> QED
      BY <1>1, <2>1, MinimalSubset
  <1>3. T = image(S)
    BY DEF Lists
  <1> QED
    BY <1>2, <1>3

\* The same term for every element.
THEOREM SumConstant ==
  ASSUME NEW S, IsFiniteSet(S), NEW c \in Int, NEW f, \A x \in S : f[x] = c
  PROVE  SumFunctionOnSet(f, S) = c * Cardinality(S)
  <1> DEFINE X == {t \in SUBSET S : SumFunctionOnSet(f, t) # c * Cardinality(t)}
  <1>1. ASSUME NEW m \in X, \A x \in X : x \subseteq m => x = m
        PROVE  FALSE
    <2> DEFINE o == One(m)
               r == m \ {o}
               n == Cardinality(r)
    <2>1. m # {}
      <3>1. ASSUME m = {} PROVE SumFunctionOnSet(f, m) = c * Cardinality(m)
        <4>1. SumFunctionOnSet(f, m) = 0 /\ Cardinality(m) = 0
          BY <3>1, SumEmpty, FS_EmptySet
        <4> QED
          BY <4>1
      <3> QED
        BY <3>1
    <2>2. IsFiniteSet(m) /\ IsFiniteSet(r) /\ r \in SUBSET S
      BY FS_Subset
    <2>3. o \in m /\ SumFunctionOnSet(f, m) = f[o] + SumFunctionOnSet(f, r)
      BY <2>1, <2>2, SumStep
    <2>4. SumFunctionOnSet(f, r) = c * n
      BY <1>1, <2>2, <2>3
    <2>5. Cardinality(m) = n + 1 /\ n \in Nat
      BY <2>2, <2>3, FS_AddElement, FS_RemoveElement, FS_CardinalityType
    <2>6. f[o] = c
      BY <2>3
    <2> HIDE DEF n, r, o
    <2>7. c * (n + 1) = c + c * n
      BY <2>5
    <2> QED
      BY <2>3, <2>4, <2>5, <2>6, <2>7
  <1>2. X = {}
    <2> HIDE DEF X
    <2>1. X \in SUBSET SUBSET S
      BY DEF X
    <2> QED
      BY <1>1, <2>1, MinimalSubset
  <1> QED
    BY <1>2
\* Larger terms have a larger sum.
THEOREM SumLe ==
  ASSUME NEW S, IsFiniteSet(S), NEW f, NEW g,
         \A x \in S : f[x] \in Int /\ g[x] \in Int /\ f[x] <= g[x]
  PROVE  SumFunctionOnSet(f, S) <= SumFunctionOnSet(g, S)
  <1> DEFINE d == [x \in S |-> g[x] - f[x]]
  <1>1. \A x \in S : d[x] \in Nat /\ g[x] = f[x] + d[x]
    OBVIOUS
  <1> HIDE DEF d
  <1>2. SumFunctionOnSet(g, S) = SumFunctionOnSet(f, S) + SumFunctionOnSet(d, S)
    <2>1. \A x \in S : f[x] \in Int /\ d[x] \in Int /\ g[x] = f[x] + d[x]
      BY <1>1
    <2> QED
      BY <2>1, SumAdd
  <1>3. SumFunctionOnSet(d, S) \in Nat
    BY <1>1, SumNat
  <1>4. SumFunctionOnSet(f, S) \in Int
    BY SumInt
  <1> QED
    BY <1>2, <1>3, <1>4

\* The table h is summed by rows or by columns.
THEOREM SumSwap ==
  ASSUME NEW S, IsFiniteSet(S), NEW T, IsFiniteSet(T),
         NEW h, \A x \in S, y \in T : h[x][y] \in Int,
         NEW f, \A x \in S : f[x] = SumFunctionOnSet(h[x], T),
         NEW c, \A y \in T, x \in S : c[y][x] = h[x][y],
         NEW g, \A y \in T : g[y] = SumFunctionOnSet(c[y], S)
  PROVE  SumFunctionOnSet(f, S) = SumFunctionOnSet(g, T)
  <1> DEFINE G(t) == [y \in T |-> SumFunctionOnSet(c[y], t)]
             X == {t \in SUBSET S : SumFunctionOnSet(f, t) # SumFunctionOnSet(G(t), T)}
  <1>1. ASSUME NEW m \in X, \A x \in X : x \subseteq m => x = m
        PROVE  FALSE
    <2>1. m # {}
      <3>1. ASSUME m = {} PROVE SumFunctionOnSet(f, m) = SumFunctionOnSet(G(m), T)
        <4>1. SumFunctionOnSet(f, m) = 0
          BY <3>1, SumEmpty
        <4>2. \A y \in T : G(m)[y] = 0
          BY <3>1, SumEmpty
        <4>3. SumFunctionOnSet(G(m), T) = 0 * Cardinality(T)
          <5> HIDE DEF G
          <5> QED BY <4>2, SumConstant
        <4>4. Cardinality(T) \in Nat
          BY FS_CardinalityType
        <4> QED
          BY <4>1, <4>3, <4>4
      <3> QED
        BY <3>1
    <2>2. PICK o \in m : TRUE
      BY <2>1
    <2> DEFINE r == m \ {o}
    <2>3. m \in SUBSET S /\ r \in SUBSET S /\ r \notin X
      BY <1>1, <2>2
    <2>4. IsFiniteSet(m) /\ IsFiniteSet(r)
      BY <2>3, FS_Subset
    <2>5. \A x \in S : f[x] \in Int
      <3>1. ASSUME NEW x \in S PROVE f[x] \in Int
        <4>1. \A y \in T : h[x][y] \in Int
          OBVIOUS
        <4>2. SumFunctionOnSet(h[x], T) \in Int
          BY <4>1, SumInt
        <4> QED
          BY <4>2
      <3> QED
        BY <3>1
    <2>6. SumFunctionOnSet(f, m) = f[o] + SumFunctionOnSet(f, r)
      <3>1. \A x \in m : f[x] \in Int
        BY <2>3, <2>5
      <3> QED
        BY <2>2, <2>4, <3>1, SumRemove
    <2>7. ASSUME NEW y \in T
          PROVE  h[o][y] \in Int /\ G(r)[y] \in Int /\ G(m)[y] = h[o][y] + G(r)[y]
      <3>1. \A x \in m : c[y][x] \in Int
        BY <2>3
      <3>2. SumFunctionOnSet(c[y], m) = c[y][o] + SumFunctionOnSet(c[y], r)
        BY <2>2, <2>4, <3>1, SumRemove
      <3>3. SumFunctionOnSet(c[y], r) \in Int
        BY <2>4, <3>1, SumInt
      <3> QED
        BY <2>2, <2>3, <3>2, <3>3
    <2>8. SumFunctionOnSet(G(m), T) = SumFunctionOnSet(h[o], T) + SumFunctionOnSet(G(r), T)
      <3> HIDE DEF G, r
      <3> QED BY <2>7, SumAdd
    <2>9. f[o] = SumFunctionOnSet(h[o], T)
      BY <2>2, <2>3
    <2>10. SumFunctionOnSet(f, r) = SumFunctionOnSet(G(r), T)
      BY <2>3
    <2> QED
      BY <2>6, <2>8, <2>9, <2>10
  <1>2. X = {}
    <2> HIDE DEF X
    <2>1. X \in SUBSET SUBSET S
      BY DEF X
    <2> QED
      BY <1>1, <2>1, MinimalSubset
  <1>3. SumFunctionOnSet(f, S) = SumFunctionOnSet(G(S), T)
    BY <1>2
  <1>4. \A y \in T : G(S)[y] = g[y]
    OBVIOUS
  <1>5. SumFunctionOnSet(G(S), T) = SumFunctionOnSet(g, T)
    <2> HIDE DEF G
    <2> QED BY <1>4, SumCong
  <1> QED
    BY <1>3, <1>5
\* A nonempty finite set has an element with the highest value.
LEMMA GreatestValue ==
  ASSUME NEW S, IsFiniteSet(S), S # {}, NEW D, \A x \in S : D[x] \in Int
  PROVE  \E o \in S : \A x \in S : D[x] <= D[o]
  <1> DEFINE Has(t) == \E o \in t : \A x \in t : D[x] <= D[o]
             X == {t \in SUBSET S : t # {} /\ ~Has(t)}
  <1>1. ASSUME NEW m \in X, \A x \in X : x \subseteq m => x = m
        PROVE  FALSE
    <2>1. PICK o \in m : TRUE
      OBVIOUS
    <2> DEFINE r == m \ {o}
    <2>2. r \in SUBSET S /\ r \notin X
      BY <1>1, <2>1
    <2>3. CASE r = {}
      <3>1. \A x \in m : x = o
        BY <2>3
      <3>2. D[o] <= D[o]
        BY <2>1
      <3> QED
        BY <2>1, <3>1, <3>2
    <2>4. CASE r # {}
      <3>1. PICK p \in r : \A x \in r : D[x] <= D[p]
        BY <2>2, <2>4
      <3>2. D[o] \in Int /\ D[p] \in Int /\ \A x \in r : D[x] \in Int
        BY <2>1, <2>2
      <3>3. CASE D[o] <= D[p]
        BY <3>1, <3>3
      <3>4. CASE D[p] <= D[o]
        <4>1. \A x \in r : D[x] <= D[o]
          BY <3>1, <3>2, <3>4
        <4> QED
          BY <2>1, <3>2, <4>1
      <3> QED
        BY <3>2, <3>3, <3>4
    <2> QED
      BY <2>3, <2>4
  <1>2. X = {}
    <2> HIDE DEF X
    <2>1. X \in SUBSET SUBSET S
      BY DEF X
    <2> QED
      BY <1>1, <2>1, MinimalSubset
  <1> QED
    BY <1>2

\* The elements of a set that have fewer than k elements of lower value.
RankedBelow(D, t, x) == {y \in t : D[y] < D[x]}
FirstRanked(D, t, k) == {x \in t : Cardinality(RankedBelow(D, t, x)) < k}

\* With different values there are k of them.
LEMMA CountRanks ==
  ASSUME NEW S, IsFiniteSet(S), NEW D, \A x \in S : D[x] \in Int,
         \A x, y \in S : D[x] = D[y] => x = y, NEW k \in 0..Cardinality(S)
  PROVE  Cardinality(FirstRanked(D, S, k)) = k
  <1> DEFINE Below(t, x) == RankedBelow(D, t, x)
             First(t, j) == FirstRanked(D, t, j)
             X == {t \in SUBSET S : \E j \in 0..Cardinality(t) : Cardinality(First(t, j)) # j}
  <1> USE DEF RankedBelow, FirstRanked
  <1>1. ASSUME NEW m \in X, \A x \in X : x \subseteq m => x = m
        PROVE  FALSE
    <2>1. PICK j \in 0..Cardinality(m) : Cardinality(First(m, j)) # j
      OBVIOUS
    <2>2. m \in SUBSET S /\ IsFiniteSet(m) /\ Cardinality(m) \in Nat
      BY FS_Subset, FS_CardinalityType
    <2>3. m # {}
      <3>1. ASSUME m = {} PROVE FALSE
        <4>1. j = 0 /\ First(m, j) = {}
          BY <2>1, <3>1, FS_EmptySet
        <4> QED
          BY <2>1, <4>1, FS_EmptySet
      <3> QED
        BY <3>1
    <2>4. PICK o \in m : \A x \in m : D[x] <= D[o]
      BY <2>2, <2>3, GreatestValue
    <2> DEFINE r == m \ {o}
               n == Cardinality(r)
    <2>5. r \in SUBSET S /\ r \notin X /\ IsFiniteSet(r) /\ n \in Nat /\ Cardinality(m) = n + 1
      <3>1. r \in SUBSET S /\ r \notin X
        BY <1>1, <2>2, <2>4
      <3>2. IsFiniteSet(r) /\ n = Cardinality(m) - 1
        BY <2>2, <2>4, FS_RemoveElement
      <3>3. n \in Nat
        BY <3>2, FS_CardinalityType
      <3> HIDE DEF n, r
      <3>4. Cardinality(m) = n + 1
        BY <2>2, <3>2, <3>3
      <3> QED
        BY <3>1, <3>2, <3>3, <3>4
    <2>6. CASE j <= n
      <3>1. Below(m, o) = r
        <4>1. ASSUME NEW y \in r PROVE D[y] < D[o]
          <5>1. D[y] # D[o] /\ D[y] <= D[o] /\ D[y] \in Int /\ D[o] \in Int
            BY <2>2, <2>4
          <5> QED
            BY <5>1
        <4>2. ~(D[o] < D[o])
          BY <2>2, <2>4
        <4> QED
          BY <4>1, <4>2
      <3>2. ASSUME NEW x \in r PROVE Below(m, x) = Below(r, x)
        <4>1. D[x] <= D[o] /\ D[x] \in Int /\ D[o] \in Int
          BY <2>2, <2>4
        <4>2. ~(D[o] < D[x])
          BY <4>1
        <4> QED
          BY <4>2
      <3>3. First(m, j) = First(r, j)
        <4>1. ~(Cardinality(Below(m, o)) < j)
          <5>1. Cardinality(Below(m, o)) = n
            BY <3>1
          <5> HIDE DEF n, Below
          <5> QED
            BY <2>1, <2>5, <2>6, <5>1
        <4>2. \A x \in r : Cardinality(Below(m, x)) = Cardinality(Below(r, x))
          BY <3>2
        <4> HIDE DEF RankedBelow
        <4> QED
          BY <4>1, <4>2
      <3>4. j \in 0..Cardinality(r)
        BY <2>1, <2>5, <2>6
      <3> QED
        BY <2>1, <2>5, <3>3, <3>4
    <2>7. CASE j = n + 1
      <3>1. ASSUME NEW x \in m PROVE Cardinality(Below(m, x)) < j
        <4>1. Below(m, x) \subseteq m \ {x}
          BY <2>2
        <4>2. IsFiniteSet(m \ {x}) /\ Cardinality(m \ {x}) = Cardinality(m) - 1
          BY <2>2, FS_RemoveElement
        <4>3. Cardinality(Below(m, x)) <= Cardinality(m \ {x}) /\ Cardinality(Below(m, x)) \in Nat
          BY <4>1, <4>2, FS_Subset, FS_CardinalityType
        <4> HIDE DEF Below, n
        <4> QED
          BY <2>5, <2>7, <4>2, <4>3
      <3>2. First(m, j) = m
        BY <3>1
      <3> QED
        BY <2>1, <2>5, <2>7, <3>2
    <2> QED
      BY <2>1, <2>5, <2>6, <2>7
  <1>2. X = {}
    <2> HIDE DEF X
    <2>1. X \in SUBSET SUBSET S
      BY DEF X
    <2> QED
      BY <1>1, <2>1, MinimalSubset
  <1>3. S \notin X
    BY <1>2
  <1> QED
    BY <1>3

\* A division and its remainder.
LEMMA QuotientAndRest ==
  ASSUME NEW a \in Nat, NEW n \in Nat, n > 0
  PROVE  /\ a \div n \in Nat /\ a % n \in 0..(n - 1)
         /\ a = (a \div n) * n + (a % n)
  <1>1. a \div n \in Nat /\ a % n \in 0..(n - 1)
    OBVIOUS
  <1>2. a \in Int /\ n \in Int
    OBVIOUS
  <1>3. a = (a \div n) * n + (a % n)
    BY <1>2
  <1> QED
    BY <1>1, <1>3
=============================================================================

---------------------------- MODULE SumsAndRanks ----------------------------
(***************************************************************************)
(* Sums of the values of a function over a finite set, for the counters,   *)
(* scores and totals of the specifications: what the folds of the          *)
(* community modules compute, as facts that proofs can cite.  The          *)
(* inductions are over the finite subsets of a set: a smallest one that    *)
(* has not the property is shown not to exist.                             *)
(***************************************************************************)
EXTENDS Integers, FiniteSets, FiniteSetsExt, FiniteSetTheorems, WellFoundedInduction, TLAPS

Pick(S) == CHOOSE x \in S : TRUE

(* The recursion of MapThenSumSet: g maps each part of S to its sum.       *)
SumsUp(g, f, S) ==
    g = [s \in SUBSET S |-> IF s = {} THEN 0 ELSE f[Pick(s)] + g[s \ {Pick(s)}]]

PartialSums(f, S) == CHOOSE g : SumsUp(g, f, S)
SumOf(f, S) == PartialSums(f, S)[S]

-----------------------------------------------------------------------------
(* Of the finite subsets of a set that have a property, one is minimal.    *)
LEMMA MinimalSubset ==
  ASSUME NEW S, IsFiniteSet(S), NEW B, B \subseteq SUBSET S, B # {}
  PROVE  \E u \in B : \A t \in SUBSET u : t # u => t \notin B
<1>1. B \subseteq FiniteSubsetsOf(S)
  BY FS_Subset DEF FiniteSubsetsOf
<1>2. PICK u \in B : \A t \in B : ~ (<<t, u>> \in StrictSubsetOrdering(S))
  BY <1>1, FS_StrictSubsetOrderingWellFounded, WFMin
<1>3. \A t \in SUBSET u : t # u => t \notin B
  BY <1>2 DEF StrictSubsetOrdering
<1> QED BY <1>2, <1>3

(* Two recursions over functions that agree on U give U the same sum.      *)
LEMMA SumsAgree ==
  ASSUME NEW S, NEW T, NEW f, NEW h, NEW a, NEW b, SumsUp(a, f, S), SumsUp(b, h, T),
         NEW U, U \subseteq S, U \subseteq T, IsFiniteSet(U), \A x \in U : f[x] = h[x]
  PROVE  a[U] = b[U]
<1> DEFINE B == {u \in SUBSET U : a[u] # b[u]}
<1> SUFFICES ASSUME B # {} PROVE FALSE
  OBVIOUS
<1>0. B \subseteq SUBSET U
  OBVIOUS
<1>1. PICK u \in B : \A t \in SUBSET u : t # u => t \notin B
  <2> HIDE DEF B
  <2> QED BY <1>0, MinimalSubset
<1>2. u # {}
  BY DEF SumsUp
<1> DEFINE x == Pick(u)
<1>3. x \in u
  BY <1>2 DEF Pick
<1>4. a[u \ {x}] = b[u \ {x}]
  BY <1>1, <1>3
<1>5. a[u] = f[x] + a[u \ {x}] /\ b[u] = h[x] + b[u \ {x}]
  BY <1>2, u \in SUBSET S, u \in SUBSET T DEF SumsUp
<1> QED BY <1>3, <1>4, <1>5

LEMMA SumsExist ==
  ASSUME NEW S, IsFiniteSet(S), NEW f
  PROVE  SumsUp(PartialSums(f, S), f, S)
<1> DEFINE B == {u \in SUBSET S : ~ \E g : SumsUp(g, f, u)}
<1>1. ASSUME B # {} PROVE FALSE
  <2>0. B \subseteq SUBSET S
    OBVIOUS
  <2>1. PICK u \in B : \A t \in SUBSET u : t # u => t \notin B
    <3> HIDE DEF B
    <3> QED BY <1>1, <2>0, MinimalSubset
  <2>2. \A t \in SUBSET u : t # u => SumsUp(PartialSums(f, t), f, t)
    BY <2>1 DEF PartialSums
  <2> DEFINE part(t) == PartialSums(f, t)
             g == [s \in SUBSET u |-> IF s = {} THEN 0
                     ELSE f[Pick(s)] + part(s \ {Pick(s)})[s \ {Pick(s)}]]
  <2>3. ASSUME NEW s \in SUBSET u, s # {}
        PROVE  g[s \ {Pick(s)}] = part(s \ {Pick(s)})[s \ {Pick(s)}]
    <3> DEFINE t == s \ {Pick(s)}
    <3>1. Pick(s) \in s
      BY <2>3 DEF Pick
    <3>2. t \in SUBSET u /\ t # u /\ IsFiniteSet(t)
      BY <3>1, FS_Subset
    <3>3. SumsUp(part(t), f, t)
      BY <2>2, <3>2
    <3>4. CASE t = {}
      BY <3>2, <3>3, <3>4 DEF SumsUp
    <3>5. CASE t # {}
      <4> DEFINE r == t \ {Pick(t)}
      <4>1. Pick(t) \in t
        BY <3>5 DEF Pick
      <4>2. r \in SUBSET u /\ r # u /\ r \subseteq t /\ IsFiniteSet(r)
        BY <3>2, <4>1, FS_Subset
      <4>3. SumsUp(part(r), f, r)
        BY <2>2, <4>2
      <4>4. part(t)[r] = part(r)[r]
        BY <3>3, <4>2, <4>3, SumsAgree
      <4>5. part(t)[t] = f[Pick(t)] + part(t)[r]
        BY <3>3, <3>5 DEF SumsUp
      <4>6. g[t] = f[Pick(t)] + part(r)[r]
        BY <3>2, <3>5
      <4> QED BY <4>4, <4>5, <4>6
    <3> QED BY <3>4, <3>5
  <2>4. SumsUp(g, f, u)
    BY <2>3 DEF SumsUp
  <2> QED BY <2>1, <2>4
<1>2. \E g : SumsUp(g, f, S)
  BY <1>1
<1> QED BY <1>2 DEF PartialSums

(* Induction over the parts of a finite set, for a property given as the   *)
(* set G of the parts that have it.                                        *)
LEMMA PartInduction ==
  ASSUME NEW S, IsFiniteSet(S), NEW G, {} \in G,
         \A u \in SUBSET S : \A x \in u : u \ {x} \in G => u \in G
  PROVE  S \in G
<1> DEFINE B == {u \in SUBSET S : u \notin G}
<1> SUFFICES ASSUME S \notin G PROVE FALSE
  OBVIOUS
<1>1. B \subseteq SUBSET S /\ B # {}
  OBVIOUS
<1>2. PICK u \in B : \A t \in SUBSET u : t # u => t \notin B
  <2> HIDE DEF B
  <2> QED BY <1>1, MinimalSubset
<1>3. PICK x : x \in u
  OBVIOUS
<1>4. u \ {x} \in G
  BY <1>2, <1>3, u \ {x} # u, u \ {x} \in SUBSET S
<1> QED BY <1>3, <1>4

-----------------------------------------------------------------------------
(* The equations of a sum.                                                 *)
LEMMA SumSame ==
  ASSUME NEW S, IsFiniteSet(S), NEW f, NEW h, \A x \in S : f[x] = h[x]
  PROVE  SumOf(f, S) = SumOf(h, S)
BY SumsExist, SumsAgree DEF SumOf

LEMMA SumEmpty == \A f : SumOf(f, {}) = 0
<1> SUFFICES ASSUME NEW f PROVE SumOf(f, {}) = 0
  OBVIOUS
<1>1. SumsUp(PartialSums(f, {}), f, {})
  BY SumsExist, FS_EmptySet
<1> QED BY <1>1 DEF SumOf, SumsUp

LEMMA SumPick ==
  ASSUME NEW S, IsFiniteSet(S), S # {}, NEW f
  PROVE  Pick(S) \in S /\ SumOf(f, S) = f[Pick(S)] + SumOf(f, S \ {Pick(S)})
<1> DEFINE T == S \ {Pick(S)}
<1>1. Pick(S) \in S
  BY DEF Pick
<1>2. T \subseteq S /\ IsFiniteSet(T)
  BY FS_Subset
<1>3. SumsUp(PartialSums(f, S), f, S) /\ SumsUp(PartialSums(f, T), f, T)
  BY <1>2, SumsExist
<1>4. PartialSums(f, S)[T] = PartialSums(f, T)[T]
  BY <1>2, <1>3, SumsAgree
<1> QED BY <1>1, <1>3, <1>4 DEF SumOf, SumsUp

LEMMA SumInt ==
  ASSUME NEW S, IsFiniteSet(S), NEW f, \A x \in S : f[x] \in Int
  PROVE  SumOf(f, S) \in Int
<1> DEFINE B == {u \in SUBSET S : SumOf(f, u) \notin Int}
<1> SUFFICES ASSUME B # {} PROVE FALSE
  OBVIOUS
<1>1. B \subseteq SUBSET S
  OBVIOUS
<1>2. PICK u \in B : \A t \in SUBSET u : t # u => t \notin B
  <2> HIDE DEF B
  <2> QED BY <1>1, MinimalSubset
<1>3. IsFiniteSet(u) /\ u # {}
  <2>1. SumOf(f, {}) \in Int
    BY SumEmpty
  <2> QED BY <2>1, FS_Subset
<1>4. Pick(u) \in u /\ SumOf(f, u) = f[Pick(u)] + SumOf(f, u \ {Pick(u)})
  BY <1>3, SumPick
<1>5. SumOf(f, u \ {Pick(u)}) \in Int
  BY <1>2, <1>4
<1> QED BY <1>4, <1>5

(* Any member of the set may be the first to be added. *)
LEMMA SumRemove ==
  ASSUME NEW S, IsFiniteSet(S), NEW f, \A x \in S : f[x] \in Int, NEW x \in S
  PROVE  SumOf(f, S) = f[x] + SumOf(f, S \ {x})
<1> DEFINE B == {u \in SUBSET S : \E y \in u : SumOf(f, u) # f[y] + SumOf(f, u \ {y})}
<1> SUFFICES ASSUME B # {} PROVE FALSE
  OBVIOUS
<1>1. B \subseteq SUBSET S
  OBVIOUS
<1>2. PICK u \in B : \A t \in SUBSET u : t # u => t \notin B
  <2> HIDE DEF B
  <2> QED BY <1>1, MinimalSubset
<1>3. PICK y \in u : SumOf(f, u) # f[y] + SumOf(f, u \ {y})
  OBVIOUS
<1> DEFINE z == Pick(u)
<1>4. IsFiniteSet(u) /\ u # {}
  BY FS_Subset
<1>5. z \in u /\ SumOf(f, u) = f[z] + SumOf(f, u \ {z})
  BY <1>4, SumPick
<1>6. y # z
  BY <1>3, <1>5
<1>7. SumOf(f, u \ {z}) = f[y] + SumOf(f, (u \ {z}) \ {y})
  BY <1>2, <1>5, <1>6
<1>8. SumOf(f, u \ {y}) = f[z] + SumOf(f, (u \ {y}) \ {z})
  BY <1>2, <1>5, <1>6
<1>9. (u \ {z}) \ {y} = (u \ {y}) \ {z} /\ IsFiniteSet((u \ {z}) \ {y})
  BY <1>4, FS_Subset
<1>10. SumOf(f, (u \ {z}) \ {y}) \in Int /\ f[y] \in Int /\ f[z] \in Int
  BY <1>5, <1>9, SumInt
<1>11. SumOf(f, u) = f[y] + SumOf(f, u \ {y})
  <2> DEFINE rest == SumOf(f, (u \ {z}) \ {y})
  <2>1. SumOf(f, u) = f[z] + (f[y] + rest) /\ SumOf(f, u \ {y}) = f[z] + rest
    BY <1>5, <1>7, <1>8, <1>9
  <2> QED BY <2>1, <1>10
<1> QED BY <1>3, <1>11

LEMMA SumAdd ==
  ASSUME NEW S, IsFiniteSet(S), NEW x, x \notin S, NEW f, \A y \in S \cup {x} : f[y] \in Int
  PROVE  SumOf(f, S \cup {x}) = f[x] + SumOf(f, S)
<1>1. IsFiniteSet(S \cup {x}) /\ (S \cup {x}) \ {x} = S
  BY FS_AddElement
<1> QED BY <1>1, SumRemove

-----------------------------------------------------------------------------
(* Comparisons.                                                            *)
LEMMA SumNat ==
  ASSUME NEW S, IsFiniteSet(S), NEW f, \A x \in S : f[x] \in Nat
  PROVE  SumOf(f, S) \in Nat
<1> DEFINE G == {u \in SUBSET S : SumOf(f, u) \in Nat}
<1>1. {} \in G
  BY SumEmpty
<1>2. ASSUME NEW u \in SUBSET S, NEW x \in u, u \ {x} \in G PROVE u \in G
  <2>1. IsFiniteSet(u)
    BY FS_Subset
  <2>2. SumOf(f, u) = f[x] + SumOf(f, u \ {x})
    BY <2>1, SumRemove
  <2> QED BY <1>2, <2>2
<1> HIDE DEF G
<1>3. S \in G
  BY <1>1, <1>2, PartInduction
<1> QED BY <1>3 DEF G

(* The sums over two parts of a set make up the whole. *)
LEMMA SumSplit ==
  ASSUME NEW S, IsFiniteSet(S), NEW f, \A x \in S : f[x] \in Int, NEW T \in SUBSET S
  PROVE  SumOf(f, S) = SumOf(f, T) + SumOf(f, S \ T)
<1> DEFINE G == {u \in SUBSET S : SumOf(f, u) = SumOf(f, u \cap T) + SumOf(f, u \ T)}
<1>1. {} \in G
  BY SumEmpty
<1>2. ASSUME NEW u \in SUBSET S, NEW x \in u, u \ {x} \in G PROVE u \in G
  <2> DEFINE v == u \ {x}
  <2>1. IsFiniteSet(u) /\ IsFiniteSet(u \cap T) /\ IsFiniteSet(u \ T)
        /\ IsFiniteSet(v \cap T) /\ IsFiniteSet(v \ T)
    BY FS_Subset
  <2>2. SumOf(f, u) = f[x] + SumOf(f, v)
    BY <2>1, SumRemove
  <2>3. /\ SumOf(f, v) = SumOf(f, v \cap T) + SumOf(f, v \ T)
        /\ f[x] \in Int /\ SumOf(f, v \cap T) \in Int /\ SumOf(f, v \ T) \in Int
    BY <1>2, <2>1, SumInt
  <2>4. CASE x \in T
    <3>1. u \ T = v \ T /\ (u \cap T) \ {x} = v \cap T
      BY <2>4
    <3>2. SumOf(f, u \cap T) = f[x] + SumOf(f, v \cap T)
      BY <2>1, <2>4, <3>1, SumRemove
    <3>3. SumOf(f, u \ T) = SumOf(f, v \ T)
      BY <3>1
    <3> HIDE DEF v
    <3>4. SumOf(f, u) = SumOf(f, u \cap T) + SumOf(f, u \ T)
      BY <2>2, <2>3, <3>2, <3>3
    <3> QED BY <3>4
  <2>5. CASE x \notin T
    <3>1. u \cap T = v \cap T /\ (u \ T) \ {x} = v \ T
      BY <2>5
    <3>2. SumOf(f, u \ T) = f[x] + SumOf(f, v \ T)
      BY <2>1, <2>5, <3>1, SumRemove
    <3>3. SumOf(f, u \cap T) = SumOf(f, v \cap T)
      BY <3>1
    <3> HIDE DEF v
    <3>4. SumOf(f, u) = SumOf(f, u \cap T) + SumOf(f, u \ T)
      BY <2>2, <2>3, <3>2, <3>3
    <3> QED BY <3>4
  <2> QED BY <2>4, <2>5
<1> HIDE DEF G
<1>3. S \in G
  BY <1>1, <1>2, PartInduction
<1>4. S \cap T = T
  OBVIOUS
<1> QED BY <1>3, <1>4 DEF G

LEMMA SumOfPart ==
  ASSUME NEW S, IsFiniteSet(S), NEW f, \A x \in S : f[x] \in Nat, NEW T \in SUBSET S
  PROVE  SumOf(f, T) \in Nat /\ SumOf(f, T) <= SumOf(f, S)
<1>1. SumOf(f, S) = SumOf(f, T) + SumOf(f, S \ T)
  BY SumSplit
<1>2. SumOf(f, T) \in Nat /\ SumOf(f, S \ T) \in Nat
  BY FS_Subset, SumNat
<1> QED BY <1>1, <1>2

LEMMA SumAtMost ==
  ASSUME NEW S, IsFiniteSet(S), NEW f, NEW h,
         \A x \in S : f[x] \in Int /\ h[x] \in Int /\ f[x] <= h[x]
  PROVE  SumOf(f, S) <= SumOf(h, S)
<1> DEFINE G == {u \in SUBSET S : SumOf(f, u) <= SumOf(h, u)}
<1>1. {} \in G
  BY SumEmpty
<1>2. ASSUME NEW u \in SUBSET S, NEW x \in u, u \ {x} \in G PROVE u \in G
  <2>1. IsFiniteSet(u) /\ IsFiniteSet(u \ {x})
    BY FS_Subset
  <2>2. SumOf(f, u) = f[x] + SumOf(f, u \ {x}) /\ SumOf(h, u) = h[x] + SumOf(h, u \ {x})
    BY <2>1, SumRemove
  <2>3. SumOf(f, u \ {x}) \in Int /\ SumOf(h, u \ {x}) \in Int /\ f[x] \in Int /\ h[x] \in Int
    BY <2>1, SumInt
  <2> QED BY <1>2, <2>2, <2>3
<1> HIDE DEF G
<1>3. S \in G
  BY <1>1, <1>2, PartInduction
<1> QED BY <1>3 DEF G

LEMMA SumPlus ==
  ASSUME NEW S, IsFiniteSet(S), NEW f, NEW h, NEW k,
         \A x \in S : f[x] \in Int /\ h[x] \in Int /\ k[x] = f[x] + h[x]
  PROVE  SumOf(k, S) = SumOf(f, S) + SumOf(h, S)
<1> DEFINE G == {u \in SUBSET S : SumOf(k, u) = SumOf(f, u) + SumOf(h, u)}
<1>1. {} \in G
  BY SumEmpty
<1>2. ASSUME NEW u \in SUBSET S, NEW x \in u, u \ {x} \in G PROVE u \in G
  <2>1. IsFiniteSet(u) /\ IsFiniteSet(u \ {x})
    BY FS_Subset
  <2>2. \A y \in u : f[y] \in Int /\ h[y] \in Int /\ k[y] \in Int
    OBVIOUS
  <2>3. /\ SumOf(f, u) = f[x] + SumOf(f, u \ {x}) /\ SumOf(h, u) = h[x] + SumOf(h, u \ {x})
        /\ SumOf(k, u) = k[x] + SumOf(k, u \ {x})
    BY <2>1, <2>2, SumRemove
  <2>4. SumOf(f, u \ {x}) \in Int /\ SumOf(h, u \ {x}) \in Int
    BY <2>1, <2>2, SumInt
  <2>5. k[x] = f[x] + h[x] /\ f[x] \in Int /\ h[x] \in Int
    OBVIOUS
  <2>6. SumOf(k, u \ {x}) = SumOf(f, u \ {x}) + SumOf(h, u \ {x})
    BY <1>2
  <2> QED BY <2>3, <2>4, <2>5, <2>6
<1> HIDE DEF G
<1>3. S \in G
  BY <1>1, <1>2, PartInduction
<1> QED BY <1>3 DEF G

(* A sum lies between as many times the least and the greatest value.      *)
LEMMA SumBetween ==
  ASSUME NEW S, IsFiniteSet(S), NEW f, NEW low \in Int, NEW high \in Int,
         \A x \in S : f[x] \in Int /\ low <= f[x] /\ f[x] <= high
  PROVE  /\ low * Cardinality(S) <= SumOf(f, S)
         /\ SumOf(f, S) <= high * Cardinality(S)
<1> DEFINE G == {u \in SUBSET S : /\ low * Cardinality(u) <= SumOf(f, u)
                                  /\ SumOf(f, u) <= high * Cardinality(u)}
<1>1. {} \in G
  <2>1. low * 0 = 0 /\ high * 0 = 0
    OBVIOUS
  <2> QED BY <2>1, SumEmpty, FS_EmptySet
<1>2. ASSUME NEW u \in SUBSET S, NEW x \in u, u \ {x} \in G PROVE u \in G
  <2> DEFINE v == u \ {x}
             n == Cardinality(v)
             m == SumOf(f, v)
  <2>1. IsFiniteSet(u) /\ IsFiniteSet(v)
    BY FS_Subset
  <2>2. n \in Nat /\ Cardinality(u) = n + 1
    BY <2>1, FS_RemoveElement, FS_CardinalityType
  <2>3. m \in Int /\ SumOf(f, u) = f[x] + m
    BY <2>1, SumRemove, SumInt
  <2>4. low * n <= m /\ m <= high * n
    BY <1>2
  <2> HIDE DEF n, m
  <2>5. /\ low * (n + 1) = low * n + low /\ high * (n + 1) = high * n + high
        /\ low * n \in Int /\ high * n \in Int
    BY <2>2
  <2>6. low * (n + 1) <= f[x] + m /\ f[x] + m <= high * (n + 1)
    BY <2>3, <2>4, <2>5
  <2> QED BY <2>2, <2>3, <2>6
<1> HIDE DEF G
<1>3. S \in G
  BY <1>1, <1>2, PartInduction
<1> QED BY <1>3 DEF G

(* Counting a part is summing its indicator. *)
LEMMA SumCounts ==
  ASSUME NEW S, IsFiniteSet(S), NEW T \in SUBSET S, NEW f,
         \A x \in S : f[x] = IF x \in T THEN 1 ELSE 0
  PROVE  SumOf(f, S) = Cardinality(T)
<1> DEFINE G == {u \in SUBSET S : SumOf(f, u) = Cardinality(u \cap T)}
<1>1. {} \in G
  BY SumEmpty, FS_EmptySet, {} \cap T = {}
<1>2. ASSUME NEW u \in SUBSET S, NEW x \in u, u \ {x} \in G PROVE u \in G
  <2> DEFINE v == u \ {x}
  <2>1. IsFiniteSet(u) /\ IsFiniteSet(u \cap T) /\ IsFiniteSet(v \cap T)
    BY FS_Subset
  <2>2. SumOf(f, u) = f[x] + SumOf(f, v)
    BY <2>1, SumRemove
  <2>3. SumOf(f, v) = Cardinality(v \cap T) /\ Cardinality(v \cap T) \in Nat
    BY <1>2, <2>1, FS_CardinalityType
  <2>4. CASE x \in T
    <3>1. u \cap T = (v \cap T) \cup {x} /\ x \notin v \cap T /\ f[x] = 1
      BY <2>4
    <3>2. Cardinality(u \cap T) = Cardinality(v \cap T) + 1
      BY <2>1, <3>1, FS_AddElement
    <3>3. SumOf(f, u) = Cardinality(u \cap T)
      BY <2>2, <2>3, <3>1, <3>2
    <3> QED BY <3>3
  <2>5. CASE x \notin T
    <3>1. u \cap T = v \cap T /\ f[x] = 0
      BY <2>5
    <3>2. Cardinality(u \cap T) = Cardinality(v \cap T)
      BY <3>1
    <3> HIDE DEF v
    <3>3. SumOf(f, u) = Cardinality(u \cap T)
      BY <2>2, <2>3, <3>1, <3>2
    <3> QED BY <3>3
  <2> QED BY <2>4, <2>5
<1>3. S \in G
  <2> HIDE DEF G
  <2> QED BY <1>1, <1>2, PartInduction
<1> QED BY <1>3, S \cap T = T

(* A relation between two sets, which row and column give by its members   *)
(* on either side, and the numbers of these.                               *)
Paired(P, S, row, column, f, h) ==
    /\ IsFiniteSet(P) /\ IsFiniteSet(S)
    /\ \A p \in P : row[p] \subseteq S /\ f[p] = Cardinality(row[p])
    /\ \A s \in S : column[s] \subseteq P /\ h[s] = Cardinality(column[s])
    /\ \A p \in P, s \in S : s \in row[p] <=> p \in column[s]

(* Two ways of counting its pairs. *)
LEMMA CountBothWays ==
  ASSUME NEW P, NEW S, NEW row, NEW column, NEW f, NEW h, Paired(P, S, row, column, f, h)
  PROVE  SumOf(f, P) = SumOf(h, S)
<1> SUFFICES ASSUME IsFiniteSet(P), IsFiniteSet(S),
                    \A p \in P : row[p] \subseteq S, \A s \in S : column[s] \subseteq P,
                    \A p \in P, s \in S : s \in row[p] <=> p \in column[s],
                    \A p \in P : f[p] = Cardinality(row[p]),
                    \A s \in S : h[s] = Cardinality(column[s])
             PROVE  SumOf(f, P) = SumOf(h, S)
  BY DEF Paired
<1> DEFINE within(u) == [p \in P |-> Cardinality(row[p] \cap u)]
           G == {u \in SUBSET S : SumOf(within(u), P) = SumOf(h, u)}
<1>1. {} \in G
  <2>1. \A p \in P : within({})[p] = IF p \in {} THEN 1 ELSE 0
    BY FS_EmptySet, \A p \in P : row[p] \cap {} = {}
  <2> HIDE DEF within
  <2>2. SumOf(within({}), P) = Cardinality({})
    BY <2>1, SumCounts
  <2> QED BY <2>2, SumEmpty, FS_EmptySet
<1>2. ASSUME NEW u \in SUBSET S, NEW x \in u, u \ {x} \in G PROVE u \in G
  <2> DEFINE v == u \ {x}
             one == [p \in P |-> IF p \in column[x] THEN 1 ELSE 0]
  <2>1. IsFiniteSet(u) /\ IsFiniteSet(v)
    BY FS_Subset
  <2>2. ASSUME NEW p \in P
        PROVE  within(v)[p] \in Int /\ one[p] \in Int /\ within(u)[p] = within(v)[p] + one[p]
    <3> DEFINE a == row[p] \cap v
               b == row[p] \cap u
    <3>1. IsFiniteSet(a) /\ Cardinality(a) \in Nat
      BY <2>1, FS_Subset, FS_CardinalityType
    <3>2. Cardinality(b) = Cardinality(a) + one[p] /\ one[p] \in Int
      <4>1. CASE p \in column[x]
        <5>1. b = a \cup {x} /\ x \notin a
          BY <4>1
        <5>2. Cardinality(b) = Cardinality(a) + 1
          BY <3>1, <5>1, FS_AddElement
        <5> QED BY <4>1, <5>2
      <4>2. CASE p \notin column[x]
        <5>1. b = a /\ one[p] = 0
          BY <4>2
        <5> HIDE DEF a, b, one
        <5> QED BY <3>1, <5>1
      <4> QED BY <4>1, <4>2
    <3>3. within(v)[p] = Cardinality(a) /\ within(u)[p] = Cardinality(b)
      OBVIOUS
    <3> HIDE DEF a, b, within, one
    <3> QED BY <3>1, <3>2, <3>3
  <2>3. SumOf(within(v), P) = SumOf(h, v)
    BY <1>2
  <2>4. SumOf(one, P) = Cardinality(column[x])
    <3>1. \A p \in P : one[p] = IF p \in column[x] THEN 1 ELSE 0
      OBVIOUS
    <3> HIDE DEF one
    <3> QED BY <3>1, SumCounts
  <2>5. \A s \in u : h[s] \in Int
    BY FS_Subset, FS_CardinalityType
  <2> HIDE DEF one, within
  <2>6. SumOf(within(u), P) = SumOf(within(v), P) + SumOf(one, P)
    BY <2>2, SumPlus
  <2>7. SumOf(h, u) = h[x] + SumOf(h, v) /\ h[x] = Cardinality(column[x])
    BY <2>1, <2>5, SumRemove
  <2>8. h[x] \in Int /\ SumOf(h, v) \in Int
    BY <2>1, <2>5, SumInt
  <2> HIDE DEF v
  <2>9. SumOf(within(u), P) = SumOf(h, u)
    BY <2>3, <2>4, <2>6, <2>7, <2>8
  <2> QED BY <2>9
<1>3. SumOf(within(S), P) = SumOf(h, S)
  <2>1. S \in G
    <3> HIDE DEF G
    <3> QED BY <1>1, <1>2, PartInduction
  <2> QED BY <2>1
<1>4. \A p \in P : f[p] = within(S)[p]
  BY \A p \in P : row[p] \cap S = row[p]
<1> HIDE DEF within
<1> QED BY <1>3, <1>4, SumSame

(* The sizes of the classes of a function add up to the size of its domain.*)
LEMMA ClassesAddUp ==
  ASSUME NEW S, IsFiniteSet(S), NEW N, IsFiniteSet(N), NEW class,
         \A n \in N : class[n] \subseteq S, \A s \in S : \E n \in N : s \in class[n],
         \A s \in S : \A m, n \in N : s \in class[m] /\ s \in class[n] => m = n,
         NEW f, \A n \in N : f[n] = Cardinality(class[n])
  PROVE  SumOf(f, N) = Cardinality(S)
<1> DEFINE of == [s \in S |-> {n \in N : s \in class[n]}]
           h == [s \in S |-> 1]
<1>1. /\ \A s \in S : of[s] \subseteq N
      /\ \A n \in N, s \in S : s \in class[n] <=> n \in of[s]
  OBVIOUS
<1>2. \A s \in S : h[s] = Cardinality(of[s])
  <2> SUFFICES ASSUME NEW s \in S PROVE h[s] = Cardinality(of[s])
    OBVIOUS
  <2>1. PICK n \in N : s \in class[n]
    OBVIOUS
  <2>2. of[s] = {n} /\ h[s] = 1
    BY <2>1
  <2> HIDE DEF of, h
  <2>3. Cardinality({n}) = 1
    BY FS_Singleton
  <2> QED BY <2>2, <2>3
<1>3. \A s \in S : h[s] = IF s \in S THEN 1 ELSE 0
  OBVIOUS
<1> HIDE DEF of, h
<1>4. SumOf(f, N) = SumOf(h, S)
  <2>1. Paired(N, S, class, of, f, h)
    BY <1>1, <1>2 DEF Paired
  <2> QED BY <2>1, CountBothWays
<1>5. SumOf(h, S) = Cardinality(S)
  BY <1>3, SumCounts
<1> QED BY <1>4, <1>5

-----------------------------------------------------------------------------
(* Greatest and least elements of finite sets of integers. *)
LEMMA FiniteMax ==
  ASSUME NEW S, IsFiniteSet(S), S # {}, S \subseteq Int
  PROVE  Max(S) \in S /\ \A x \in S : x <= Max(S)
<1> DEFINE B == {u \in SUBSET S : u # {} /\ \A m \in u : \E x \in u : ~ (x <= m)}
<1>1. B = {}
  <2> SUFFICES ASSUME B # {} PROVE FALSE
    OBVIOUS
  <2>1. B \subseteq SUBSET S
    OBVIOUS
  <2>2. PICK u \in B : \A t \in SUBSET u : t # u => t \notin B
    <3> HIDE DEF B
    <3> QED BY <2>1, MinimalSubset
  <2>3. PICK x : x \in u
    OBVIOUS
  <2>4. u \ {x} \notin B /\ u \ {x} \in SUBSET S
    BY <2>2, <2>3
  <2>5. CASE u \ {x} = {}
    BY <2>3, <2>5
  <2>6. CASE u \ {x} # {}
    <3>1. PICK m \in u \ {x} : \A y \in u \ {x} : y <= m
      BY <2>4, <2>6
    <3>2. x \in Int /\ m \in Int /\ \A y \in u : y \in Int
      BY <2>3
    <3>3. CASE x <= m
      BY <3>1, <3>3
    <3>4. CASE ~ (x <= m)
      <4>1. \A y \in u : y <= x
        BY <3>1, <3>2, <3>4
      <4> QED BY <4>1, <2>3
    <3> QED BY <3>3, <3>4
  <2> QED BY <2>5, <2>6
<1>2. \E m \in S : \A x \in S : x <= m
  <2>1. S \notin B
    BY <1>1
  <2> QED BY <2>1
<1> HIDE DEF B
<1> QED BY <1>2 DEF Max

LEMMA FiniteMin ==
  ASSUME NEW S, IsFiniteSet(S), S # {}, S \subseteq Int
  PROVE  Min(S) \in S /\ \A x \in S : Min(S) <= x
<1> DEFINE B == {u \in SUBSET S : u # {} /\ \A m \in u : \E x \in u : ~ (m <= x)}
<1>1. B = {}
  <2> SUFFICES ASSUME B # {} PROVE FALSE
    OBVIOUS
  <2>1. B \subseteq SUBSET S
    OBVIOUS
  <2>2. PICK u \in B : \A t \in SUBSET u : t # u => t \notin B
    <3> HIDE DEF B
    <3> QED BY <2>1, MinimalSubset
  <2>3. PICK x : x \in u
    OBVIOUS
  <2>4. u \ {x} \notin B /\ u \ {x} \in SUBSET S
    BY <2>2, <2>3
  <2>5. CASE u \ {x} = {}
    BY <2>3, <2>5
  <2>6. CASE u \ {x} # {}
    <3>1. PICK m \in u \ {x} : \A y \in u \ {x} : m <= y
      BY <2>4, <2>6
    <3>2. x \in Int /\ m \in Int /\ \A y \in u : y \in Int
      BY <2>3
    <3>3. CASE m <= x
      BY <3>1, <3>3
    <3>4. CASE ~ (m <= x)
      <4>1. \A y \in u : x <= y
        BY <3>1, <3>2, <3>4
      <4> QED BY <4>1, <2>3
    <3> QED BY <3>3, <3>4
  <2> QED BY <2>5, <2>6
<1>2. \E m \in S : \A x \in S : m <= x
  <2>1. S \notin B
    BY <1>1
  <2> QED BY <2>1
<1> HIDE DEF B
<1> QED BY <1>2 DEF Min

(* The image of a finite set is finite. *)
LEMMA ImageFinite ==
  ASSUME NEW S, IsFiniteSet(S), NEW f
  PROVE  IsFiniteSet({f[x] : x \in S})
<1> DEFINE T == {f[x] : x \in S}
           g == [x \in S |-> f[x]]
<1>1. g \in Surjection(S, T)
  BY DEF Surjection
<1> HIDE DEF T, g
<1>2. IsFiniteSet(T)
  BY <1>1, FS_Surjection
<1> QED BY <1>2 DEF T

-----------------------------------------------------------------------------
(* Sorted listings.  before is a strict order given as a set of pairs.     *)
StrictOrder(before, S) ==
    /\ \A x \in S : <<x, x>> \notin before
    /\ \A x, y, z \in S : <<x, y>> \in before /\ <<y, z>> \in before => <<x, z>> \in before

Listing(seq, before, S) ==
    /\ seq \in [1 .. Cardinality(S) -> S]
    /\ \A i, j \in 1 .. Cardinality(S) : i < j => seq[i] # seq[j] /\ <<seq[j], seq[i]>> \notin before

(* Some element precedes no other. *)
LEMMA LastElement ==
  ASSUME NEW S, IsFiniteSet(S), S # {}, NEW before, StrictOrder(before, S)
  PROVE  \E m \in S : \A x \in S : <<m, x>> \notin before
<1> DEFINE B == {u \in SUBSET S : u # {} /\ \A m \in u : \E x \in u : <<m, x>> \in before}
<1> SUFFICES ASSUME B # {} PROVE FALSE
  OBVIOUS
<1>1. B \subseteq SUBSET S
  OBVIOUS
<1>2. PICK u \in B : \A t \in SUBSET u : t # u => t \notin B
  <2> HIDE DEF B
  <2> QED BY <1>1, MinimalSubset
<1>3. PICK x : x \in u
  OBVIOUS
<1>4. u \ {x} \notin B /\ u \ {x} \in SUBSET S
  BY <1>2, <1>3
<1>5. CASE u \ {x} = {}
  BY <1>3, <1>5 DEF StrictOrder
<1>6. CASE u \ {x} # {}
  <2>1. PICK m \in u \ {x} : \A y \in u \ {x} : <<m, y>> \notin before
    BY <1>4, <1>6
  <2>2. CASE <<m, x>> \notin before
    BY <2>1, <2>2
  <2>3. CASE <<m, x>> \in before
    <3>1. \A y \in u : <<x, y>> \notin before
      BY <2>1, <2>3, <1>3 DEF StrictOrder
    <3> QED BY <3>1, <1>3
  <2> QED BY <2>2, <2>3
<1> QED BY <1>5, <1>6

(* Every finite set has a sorted listing. *)
LEMMA ListingExists ==
  ASSUME NEW S, IsFiniteSet(S), NEW before, StrictOrder(before, S)
  PROVE  \E seq : Listing(seq, before, S)
<1> DEFINE B == {u \in SUBSET S : ~ \E seq : Listing(seq, before, u)}
<1> SUFFICES ASSUME B # {} PROVE FALSE
  OBVIOUS
<1>1. B \subseteq SUBSET S
  OBVIOUS
<1>2. PICK u \in B : \A t \in SUBSET u : t # u => t \notin B
  <2> HIDE DEF B
  <2> QED BY <1>1, MinimalSubset
<1>3. IsFiniteSet(u) /\ u \subseteq S /\ StrictOrder(before, u)
  BY FS_Subset DEF StrictOrder
<1>4. CASE u = {}
  <2>1. Cardinality(u) = 0
    BY <1>4, FS_EmptySet
  <2>2. Listing([i \in 1 .. 0 |-> i], before, u)
    BY <2>1, <1>4 DEF Listing
  <2> QED BY <2>2
<1>5. CASE u # {}
  <2>1. PICK m \in u : \A x \in u : <<m, x>> \notin before
    BY <1>3, <1>5, LastElement
  <2> DEFINE v == u \ {m}
             n == Cardinality(v)
  <2>2. v \in SUBSET u /\ v # u /\ v \notin B /\ IsFiniteSet(v)
    BY <1>2, <1>3, FS_Subset, <2>1
  <2>3. PICK seq : Listing(seq, before, v)
    BY <2>2
  <2>4. n \in Nat /\ Cardinality(u) = n + 1
    <3>1. Cardinality(v) = Cardinality(u) - 1
      BY <1>3, FS_RemoveElement
    <3>2. Cardinality(v) \in Nat /\ Cardinality(u) \in Nat
      BY <1>3, <2>2, FS_CardinalityType
    <3> QED BY <3>1, <3>2
  <2> DEFINE longer == [i \in 1 .. n + 1 |-> IF i = n + 1 THEN m ELSE seq[i]]
  <2>5. \A i \in 1 .. n + 1 : i # n + 1 => i \in 1 .. n
    BY <2>4
  <2>6. \A i \in 1 .. n : seq[i] \in v
    BY <2>3 DEF Listing
  <2>7. longer \in [1 .. n + 1 -> u]
    BY <2>5, <2>6, <2>1
  <2>8. ASSUME NEW i \in 1 .. n + 1, NEW j \in 1 .. n + 1, i < j
        PROVE  longer[i] # longer[j] /\ <<longer[j], longer[i]>> \notin before
    <3>1. i \in 1 .. n
      BY <2>4, <2>8
    <3>2. longer[i] = seq[i] /\ seq[i] \in v
      BY <2>4, <2>6, <3>1
    <3>3. CASE j = n + 1
      BY <2>1, <3>2, <3>3
    <3>4. CASE j # n + 1
      <4>1. j \in 1 .. n /\ longer[j] = seq[j]
        BY <2>5, <3>4
      <4> QED BY <4>1, <3>1, <3>2, <2>3, <2>8 DEF Listing
    <3> QED BY <3>3, <3>4
  <2> HIDE DEF longer
  <2>9. Listing(longer, before, u)
    BY <2>4, <2>7, <2>8 DEF Listing
  <2> QED BY <2>9
<1> QED BY <1>4, <1>5

(* A listing has every member of its set, each at one place. *)
LEMMA ListingComplete ==
  ASSUME NEW S, IsFiniteSet(S), NEW before, NEW seq, Listing(seq, before, S)
  PROVE  /\ \A x \in S : \E i \in 1 .. Cardinality(S) : seq[i] = x
         /\ \A i, j \in 1 .. Cardinality(S) : seq[i] = seq[j] => i = j
<1> DEFINE n == Cardinality(S)
<1>1. n \in Nat
  BY FS_CardinalityType
<1>2. \A i, j \in 1 .. n : seq[i] = seq[j] => i = j
  <2> SUFFICES ASSUME NEW i \in 1 .. n, NEW j \in 1 .. n, seq[i] = seq[j], i # j PROVE FALSE
    OBVIOUS
  <2>1. i < j \/ j < i
    BY <1>1
  <2> QED BY <2>1 DEF Listing
<1>3. seq \in Injection(1 .. n, S)
  BY <1>2 DEF Listing, Injection, IsInjective
<1>4. Cardinality(1 .. n) = Cardinality(S)
  BY <1>1, FS_Interval
<1>5. seq \in Surjection(1 .. n, S)
  BY <1>3, <1>4, FS_Injection
<1> QED BY <1>2, <1>5 DEF Surjection

-----------------------------------------------------------------------------
(* Ranks.  Neither of two tied elements precedes the other, and being tied *)
(* is transitive: what precedes one of two tied elements precedes both.    *)
WeakOrder(before, tied, S) ==
    /\ StrictOrder(before, S)
    /\ \A x, y, z \in S : <<x, y>> \in before => <<x, z>> \in before \/ <<z, y>> \in before
    /\ \A x, y \in S : <<x, y>> \in tied <=> <<x, y>> \notin before /\ <<y, x>> \notin before

Starts(seq, tied, S) ==
    {i \in 1 .. Cardinality(S) : i = 1 \/ <<seq[i], seq[i - 1]>> \notin tied}

(* The elements between the start of a run and a place of it are tied.     *)
LEMMA RunIsTied ==
  ASSUME NEW S, IsFiniteSet(S), NEW before, NEW tied, WeakOrder(before, tied, S),
         NEW seq, Listing(seq, before, S), NEW k \in 1 .. Cardinality(S),
         NEW a \in 1 .. k, \A i \in Starts(seq, tied, S) : i <= k => i <= a
  PROVE  \A i \in a .. k : <<seq[i], seq[k]>> \in tied
<1> DEFINE n == Cardinality(S)
           apart == {i \in a .. k : <<seq[i], seq[k]>> \notin tied}
<1> SUFFICES ASSUME apart # {} PROVE FALSE
  OBVIOUS
<1>1. n \in Nat /\ k \in Int /\ a \in Int /\ 1 <= a /\ a <= k /\ k <= n
  BY FS_CardinalityType
<1>2. IsFiniteSet(apart) /\ apart \subseteq Int
  <2>1. IsFiniteSet(a .. k)
    BY <1>1, FS_Interval
  <2>2. apart \in SUBSET (a .. k) /\ \A i \in a .. k : i \in Int
    OBVIOUS
  <2> HIDE DEF apart
  <2>3. IsFiniteSet(apart)
    BY <2>1, <2>2, FS_Subset
  <2> QED BY <2>2, <2>3
<1>3. PICK i \in apart : \A j \in apart : j <= i
  <2> HIDE DEF apart
  <2> QED BY <1>2, FiniteMax
<1>4. i \in a .. k /\ <<seq[i], seq[k]>> \notin tied
  OBVIOUS
<1>5. \A j \in 1 .. n : seq[j] \in S
  BY DEF Listing
<1>6. i # k
  BY <1>1, <1>4, <1>5 DEF WeakOrder, StrictOrder
<1>7. i + 1 \in a .. k /\ i + 1 \notin apart /\ i + 1 \in 1 .. n /\ i \in 1 .. n /\ k \in 1 .. n
      /\ (i + 1) - 1 = i /\ i + 1 # 1 /\ ~ (i + 1 <= a)
  BY <1>1, <1>3, <1>4, <1>6
<1>8. <<seq[i + 1], seq[k]>> \in tied
  BY <1>7
<1>9. <<seq[i + 1], seq[i]>> \in tied
  <2>1. i + 1 \notin Starts(seq, tied, S)
    BY <1>7
  <2>2. \A j \in 1 .. n : j # 1 /\ j \notin Starts(seq, tied, S) => <<seq[j], seq[j - 1]>> \in tied
    BY DEF Starts
  <2> QED BY <2>1, <2>2, <1>7
<1> DEFINE x == seq[i]
           y == seq[i + 1]
           z == seq[k]
<1>10. x \in S /\ y \in S /\ z \in S
  BY <1>5, <1>7
<1>11. <<y, z>> \in tied /\ <<y, x>> \in tied /\ <<x, z>> \notin tied
  BY <1>4, <1>8, <1>9
<1> HIDE DEF x, y, z
<1> QED BY <1>10, <1>11 DEF WeakOrder

(* The elements before the start of a run precede those of the run.        *)
LEMMA BeforeTheRun ==
  ASSUME NEW S, IsFiniteSet(S), NEW before, NEW tied, WeakOrder(before, tied, S),
         NEW seq, Listing(seq, before, S), NEW k \in 1 .. Cardinality(S),
         NEW a \in 1 .. k, a \in Starts(seq, tied, S), <<seq[a], seq[k]>> \in tied
  PROVE  \A i \in 1 .. a - 1 : <<seq[i], seq[k]>> \in before
<1> DEFINE n == Cardinality(S)
<1> SUFFICES ASSUME NEW i \in 1 .. a - 1 PROVE <<seq[i], seq[k]>> \in before
  OBVIOUS
<1>1. n \in Nat /\ k \in Int /\ a \in Int /\ 1 <= a /\ a <= k /\ k <= n
  BY FS_CardinalityType
<1>2. a # 1 /\ a \in 1 .. n /\ a - 1 \in 1 .. n /\ i \in 1 .. n /\ k \in 1 .. n /\ i < a
      /\ a - 1 < a /\ (i = a - 1 \/ i < a - 1)
  BY <1>1
<1> DEFINE x == seq[i]
           y == seq[a - 1]
           z == seq[a]
           w == seq[k]
<1>3. x \in S /\ y \in S /\ z \in S /\ w \in S
  BY <1>2 DEF Listing
<1>4. <<z, y>> \notin tied /\ <<z, y>> \notin before /\ <<z, w>> \in tied
  BY <1>2 DEF Starts, Listing
<1>5. x = y \/ <<y, x>> \notin before
  BY <1>2 DEF Listing
<1> HIDE DEF x, y, z
<1>6. <<y, z>> \in before
  BY <1>3, <1>4 DEF WeakOrder
<1>7. <<x, z>> \in before
  BY <1>3, <1>5, <1>6 DEF WeakOrder
<1>8. <<x, w>> \in before
  BY <1>3, <1>4, <1>7 DEF WeakOrder
<1> QED BY <1>8 DEF x

(* The start of an element's run is one more than the number before it.    *)
LEMMA RankOfListing ==
  ASSUME NEW S, IsFiniteSet(S), NEW before, NEW tied, WeakOrder(before, tied, S),
         NEW seq, Listing(seq, before, S), NEW k \in 1 .. Cardinality(S)
  PROVE  Max({i \in Starts(seq, tied, S) : i <= k})
            = 1 + Cardinality({x \in S : <<x, seq[k]>> \in before})
<1> DEFINE n == Cardinality(S)
           reached == {i \in Starts(seq, tied, S) : i <= k}
           a == Max(reached)
           ahead == {x \in S : <<x, seq[k]>> \in before}
<1>1. n \in Nat /\ k \in Int /\ 1 <= k /\ k <= n
  BY FS_CardinalityType
<1>2. reached \in SUBSET (1 .. n) /\ 1 \in reached
  BY <1>1 DEF Starts
<1>3. a \in reached /\ \A i \in reached : i <= a
  <2>1. IsFiniteSet(1 .. n) /\ 1 .. n \subseteq Int
    BY <1>1, FS_Interval
  <2> HIDE DEF reached
  <2>2. IsFiniteSet(reached)
    BY <2>1, <1>2, FS_Subset
  <2> QED BY <2>1, <2>2, <1>2, FiniteMax
<1>4. a \in 1 .. k /\ a \in Starts(seq, tied, S) /\ a \in Int
      /\ \A i \in Starts(seq, tied, S) : i <= k => i <= a
  <2>1. a \in 1 .. n /\ a <= k /\ a \in Starts(seq, tied, S)
    BY <1>2, <1>3
  <2> HIDE DEF a
  <2> QED BY <2>1, <1>1, <1>3
<1> HIDE DEF a
<1>5. \A i \in a .. k : <<seq[i], seq[k]>> \in tied
  BY <1>4, RunIsTied
<1>6. <<seq[a], seq[k]>> \in tied
  BY <1>4, <1>5, <1>1
<1>7. \A i \in 1 .. a - 1 : <<seq[i], seq[k]>> \in before
  BY <1>4, <1>6, BeforeTheRun
<1>8. \A i \in 1 .. n : seq[i] \in S
  BY DEF Listing
<1>9. \A i \in 1 .. n : i \notin 1 .. a - 1 => <<seq[i], seq[k]>> \notin before
  <2> SUFFICES ASSUME NEW i \in 1 .. n, i \notin 1 .. a - 1 PROVE <<seq[i], seq[k]>> \notin before
    OBVIOUS
  <2>1. i \in a .. k \/ k < i
    BY <1>1, <1>4
  <2>2. CASE i \in a .. k
    BY <1>5, <1>8, <1>1, <2>2 DEF WeakOrder
  <2>3. CASE k < i
    BY <1>1, <2>3 DEF Listing
  <2> QED BY <2>1, <2>2, <2>3
<1> DEFINE first == [i \in 1 .. a - 1 |-> seq[i]]
<1>10. 1 .. a - 1 \subseteq 1 .. n
  BY <1>1, <1>4
<1>11. first \in [1 .. a - 1 -> ahead]
  BY <1>7, <1>8, <1>10
<1>12. \A x \in ahead : \E i \in 1 .. a - 1 : first[i] = x
  <2> SUFFICES ASSUME NEW x \in ahead PROVE \E i \in 1 .. a - 1 : first[i] = x
    OBVIOUS
  <2>1. PICK i \in 1 .. n : seq[i] = x
    BY ListingComplete
  <2>2. i \in 1 .. a - 1
    BY <1>9, <2>1
  <2> QED BY <2>1, <2>2
<1>13. \A i, j \in 1 .. a - 1 : first[i] = first[j] => i = j
  BY <1>10, ListingComplete
<1> HIDE DEF first, ahead
<1>14. first \in Surjection(1 .. a - 1, ahead) /\ first \in Injection(1 .. a - 1, ahead)
  BY <1>11, <1>12, <1>13 DEF Surjection, Injection, IsInjective
<1>15. IsFiniteSet(1 .. a - 1) /\ Cardinality(1 .. a - 1) = a - 1
  <2>1. a - 1 \in Int /\ (1 > a - 1 => a - 1 = 0)
    BY <1>4, <1>1
  <2>2. IsFiniteSet(1 .. a - 1)
        /\ Cardinality(1 .. a - 1) = IF 1 > a - 1 THEN 0 ELSE (a - 1) - 1 + 1
    BY <2>1, FS_Interval
  <2> QED BY <2>1, <2>2
<1>16. Cardinality(ahead) = a - 1
  BY <1>14, <1>15, FS_Surjection
<1> QED BY <1>4, <1>16 DEF a, ahead
=============================================================================

-------------------------- MODULE Standings_proofs ---------------------------
(* Proofs about Standings, for any students, squads, campuses, days and     *)
(* jobs: every stored board is one ranking, what is read off it agrees with *)
(* it, and when no job is under way it holds the figures of the rows.       *)
EXTENDS Standings, SumsAndRanks, SequenceTheorems

-----------------------------------------------------------------------------
(* Ranking: entries whose five figures are numbers.                        *)
Measured(e) == {e.score, e.solved, e.minute, e.streak, e.consistency} \subseteq Int

AheadBy(a, b) ==
    \/ a.score > b.score
    \/ a.score = b.score /\ a.solved > b.solved
    \/ a.score = b.score /\ a.solved = b.solved /\ a.minute < b.minute
    \/ a.score = b.score /\ a.solved = b.solved /\ a.minute = b.minute /\ a.streak > b.streak
    \/ /\ a.score = b.score /\ a.solved = b.solved /\ a.minute = b.minute
       /\ a.streak = b.streak /\ a.consistency > b.consistency

SameMerits(a, b) ==
    /\ a.score = b.score /\ a.solved = b.solved /\ a.minute = b.minute
    /\ a.streak = b.streak /\ a.consistency = b.consistency

LEMMA AheadMeans ==
  ASSUME NEW a, NEW b, Measured(a), Measured(b)
  PROVE  /\ Ahead(a, b) <=> AheadBy(a, b)
         /\ IsTie(a, b) <=> SameMerits(a, b)
<1> DEFINE m == Merits(a)
           n == Merits(b)
           P(i) == m[i] > n[i] /\ \A j \in 1 .. i - 1 : m[j] = n[j]
<1>0. /\ m[1] = a.score /\ m[2] = a.solved /\ m[3] = Never - a.minute /\ m[4] = a.streak
      /\ m[5] = a.consistency
      /\ n[1] = b.score /\ n[2] = b.solved /\ n[3] = Never - b.minute /\ n[4] = b.streak
      /\ n[5] = b.consistency
  BY DEF Merits
<1>1. Ahead(a, b) <=> P(1) \/ P(2) \/ P(3) \/ P(4) \/ P(5)
  <2>1. Ahead(a, b) <=> \E i \in 1 .. 5 : P(i)
    BY DEF Ahead
  <2> HIDE DEF P
  <2>2. \A i \in 1 .. 5 : i = 1 \/ i = 2 \/ i = 3 \/ i = 4 \/ i = 5
    OBVIOUS
  <2> QED BY <2>1, <2>2
<1>2. /\ P(1) <=> m[1] > n[1]
      /\ P(2) <=> m[2] > n[2] /\ m[1] = n[1]
      /\ P(3) <=> m[3] > n[3] /\ m[1] = n[1] /\ m[2] = n[2]
      /\ P(4) <=> m[4] > n[4] /\ m[1] = n[1] /\ m[2] = n[2] /\ m[3] = n[3]
      /\ P(5) <=> m[5] > n[5] /\ m[1] = n[1] /\ m[2] = n[2] /\ m[3] = n[3] /\ m[4] = n[4]
  <2> HIDE DEF m, n
  <2>1. /\ \A j \in 1 .. 1 - 1 : FALSE
        /\ \A j \in 1 .. 2 - 1 : j = 1
        /\ \A j \in 1 .. 3 - 1 : j = 1 \/ j = 2
        /\ \A j \in 1 .. 4 - 1 : j = 1 \/ j = 2 \/ j = 3
        /\ \A j \in 1 .. 5 - 1 : j = 1 \/ j = 2 \/ j = 3 \/ j = 4
    OBVIOUS
  <2> QED BY <2>1
<1>3. IsTie(a, b) <=> \A i \in 1 .. 5 : m[i] = n[i]
  BY DEF IsTie, Merits
<1>4. (\A i \in 1 .. 5 : m[i] = n[i]) <=>
         m[1] = n[1] /\ m[2] = n[2] /\ m[3] = n[3] /\ m[4] = n[4] /\ m[5] = n[5]
  <2> HIDE DEF m, n
  <2>1. \A i \in 1 .. 5 : i = 1 \/ i = 2 \/ i = 3 \/ i = 4 \/ i = 5
    OBVIOUS
  <2> QED BY <2>1
<1> HIDE DEF m, n, P
<1>5. Never - a.minute = Never - b.minute <=> a.minute = b.minute
  BY DEF Measured, Never
<1>6. Never - a.minute > Never - b.minute <=> a.minute < b.minute
  BY DEF Measured, Never
<1> QED BY <1>0, <1>1, <1>2, <1>3, <1>4, <1>5, <1>6 DEF AheadBy, SameMerits, Measured

LEMMA AheadOrders ==
  ASSUME NEW a, NEW b, NEW c, Measured(a), Measured(b), Measured(c)
  PROVE  /\ ~ Ahead(a, a)
         /\ Ahead(a, b) /\ Ahead(b, c) => Ahead(a, c)
         /\ Ahead(a, b) => Ahead(a, c) \/ Ahead(c, b)
         /\ IsTie(a, b) <=> ~ Ahead(a, b) /\ ~ Ahead(b, a)
         /\ IsTie(a, b) <=> IsTie(b, a)
<1>1. /\ ~ AheadBy(a, a)
      /\ AheadBy(a, b) /\ AheadBy(b, c) => AheadBy(a, c)
      /\ AheadBy(a, b) => AheadBy(a, c) \/ AheadBy(c, b)
      /\ SameMerits(a, b) <=> ~ AheadBy(a, b) /\ ~ AheadBy(b, a)
      /\ SameMerits(a, b) <=> SameMerits(b, a)
  BY DEF AheadBy, SameMerits, Measured
<1> QED BY <1>1, AheadMeans

-----------------------------------------------------------------------------
(* rankEntries: a place is one more than the number of entries ahead.      *)
Place(e, x) == 1 + Cardinality({y \in DOMAIN e : Ahead(e[y], e[x])})

LEMMA RanksArePlaces ==
  ASSUME NEW e, IsFiniteSet(DOMAIN e), \A x \in DOMAIN e : Measured(e[x])
  PROVE  \A x \in DOMAIN e :
            /\ RankEntries(e)[x].rank = Place(e, x)
            /\ RankEntries(e)[x].tied <=> \E y \in DOMAIN e \ {x} : Place(e, y) = Place(e, x)
<1> DEFINE S == DOMAIN e
           before == {x \in S \X S : Ahead(e[x[1]], e[x[2]])}
           tied == {x \in S \X S : IsTie(e[x[1]], e[x[2]])}
           ids == Sorted(e)
           all == Orderings(S, LAMBDA a, b : Ahead(e[a], e[b]))
           order == [i \in DOMAIN ids |-> e[ids[i]]]
           place(x) == CHOOSE i \in DOMAIN ids : ids[i] = x
           rank == [x \in S |-> RankAt(order, place(x))]
<1>1. \A s, t \in S : /\ <<s, t>> \in before <=> Ahead(e[s], e[t])
                      /\ <<s, t>> \in tied <=> IsTie(e[s], e[t])
  OBVIOUS
<1>2. WeakOrder(before, tied, S) /\ \A s, t \in S : IsTie(e[s], e[t]) <=> IsTie(e[t], e[s])
  <2> HIDE DEF before, tied, S
  <2>1. \A s \in S : Measured(e[s])
    BY DEF S
  <2>2. \A s, t, u \in S :
           /\ ~ Ahead(e[s], e[s])
           /\ Ahead(e[s], e[t]) /\ Ahead(e[t], e[u]) => Ahead(e[s], e[u])
           /\ Ahead(e[s], e[t]) => Ahead(e[s], e[u]) \/ Ahead(e[u], e[t])
           /\ IsTie(e[s], e[t]) <=> ~ Ahead(e[s], e[t]) /\ ~ Ahead(e[t], e[s])
           /\ IsTie(e[s], e[t]) <=> IsTie(e[t], e[s])
    BY <2>1, AheadOrders
  <2> QED BY <1>1, <2>2 DEF WeakOrder, StrictOrder
<1>3. \A seq : seq \in all <=> Listing(seq, before, S)
  <2>1. \A seq : seq \in all <=>
           /\ seq \in [1 .. Cardinality(S) -> S]
           /\ \A i, j \in 1 .. Cardinality(S) :
                 i < j => seq[i] # seq[j] /\ ~ Ahead(e[seq[j]], e[seq[i]])
    BY DEF Orderings
  <2>2. \A seq : seq \in [1 .. Cardinality(S) -> S] =>
           \A i, j \in 1 .. Cardinality(S) :
              Ahead(e[seq[j]], e[seq[i]]) <=> <<seq[j], seq[i]>> \in before
    BY <1>1, Zenon
  <2> HIDE DEF all, S, before
  <2> QED BY <2>1, <2>2 DEF Listing
<1>4. Listing(ids, before, S)
  <2>1. \E seq : Listing(seq, before, S)
    BY <1>2, ListingExists DEF WeakOrder
  <2>2. ids = CHOOSE seq \in all : TRUE
    BY DEF Sorted, Orderings
  <2> HIDE DEF all, ids, before
  <2> QED BY <2>1, <2>2, <1>3
<1>5. DOMAIN ids = 1 .. Cardinality(S) /\ \A i \in 1 .. Cardinality(S) : ids[i] \in S
  <2> HIDE DEF ids, S, before
  <2> QED BY <1>4 DEF Listing
<1>6. ASSUME NEW x \in S PROVE place(x) \in 1 .. Cardinality(S) /\ ids[place(x)] = x
  <2>1. \E i \in 1 .. Cardinality(S) : ids[i] = x
    BY <1>4, ListingComplete
  <2> HIDE DEF ids, S
  <2> QED BY <1>5, <2>1
<1>7. ASSUME NEW x \in S PROVE rank[x] = Place(e, x)
  <2> DEFINE k == place(x)
  <2>1. k \in 1 .. Cardinality(S) /\ ids[k] = x
    BY <1>6
  <2>2. {j \in 1 .. k : j = 1 \/ ~ IsTie(order[j - 1], order[j])}
          = {i \in Starts(ids, tied, S) : i <= k}
    <3>1. Cardinality(S) \in Nat
      BY FS_CardinalityType
    <3> HIDE DEF k, ids, S, tied
    <3>2. \A j \in 1 .. k : j \in 1 .. Cardinality(S) /\ (j # 1 => j - 1 \in 1 .. Cardinality(S))
      BY <2>1, <3>1
    <3>3. \A j \in 1 .. k : j # 1 => (IsTie(order[j - 1], order[j]) <=> <<ids[j], ids[j - 1]>> \in tied)
      BY <1>1, <1>2, <1>5, <3>2
    <3>4. \A j \in 1 .. Cardinality(S) : j \in 1 .. k <=> j <= k
      BY <2>1, <3>1
    <3> HIDE DEF order
    <3> QED BY <3>2, <3>3, <3>4 DEF Starts
  <2>3. rank[x] = Max({j \in 1 .. k : j = 1 \/ ~ IsTie(order[j - 1], order[j])})
    BY DEF RankAt
  <2>4. {y \in S : Ahead(e[y], e[x])} = {y \in S : <<y, x>> \in before}
    BY <1>1
  <2> HIDE DEF rank, k, order, before, tied, ids
  <2>5. Max({i \in Starts(ids, tied, S) : i <= k}) = 1 + Cardinality({y \in S : <<y, ids[k]>> \in before})
    BY <1>2, <1>4, <2>1, RankOfListing
  <2> QED BY <2>1, <2>2, <2>3, <2>4, <2>5 DEF Place
<1>8. RankEntries(e) = [x \in S |-> [rank |-> rank[x], tied |-> \E y \in S \ {x} : rank[y] = rank[x]]]
  BY DEF RankEntries
<1> HIDE DEF rank
<1> QED BY <1>7, <1>8


(* Places keep the order of the entries and none lies after the last.      *)
LEMMA PlacesInOrder ==
  ASSUME NEW e, IsFiniteSet(DOMAIN e), \A x \in DOMAIN e : Measured(e[x]),
         NEW x \in DOMAIN e, NEW y \in DOMAIN e
  PROVE  /\ Place(e, x) \in Nat /\ Place(e, x) <= Cardinality(DOMAIN e)
         /\ Place(e, x) < Place(e, y) <=> Ahead(e[x], e[y])
<1> DEFINE S == DOMAIN e
           before(u) == {v \in S : Ahead(e[v], e[u])}
<1>1. \A u \in S : IsFiniteSet(before(u)) /\ Cardinality(before(u)) \in Nat
  BY FS_Subset, FS_CardinalityType
<1>2. \A u \in S : ~ Ahead(e[u], e[u])
  BY AheadOrders
<1>3. Cardinality(before(x)) < Cardinality(S) /\ Cardinality(S) \in Nat
  <2>1. before(x) \subseteq S /\ before(x) # S
    BY <1>2
  <2> QED BY <2>1, FS_Subset, FS_CardinalityType
<1>4. ASSUME NEW u \in S, NEW w \in S, Ahead(e[u], e[w])
      PROVE  Cardinality(before(u)) < Cardinality(before(w))
  <2>1. before(u) \subseteq before(w)
    BY <1>4, AheadOrders
  <2>2. u \in before(w) /\ u \notin before(u)
    BY <1>2, <1>4
  <2> QED BY <1>1, <2>1, <2>2, FS_Subset
<1>5. ASSUME NEW u \in S, NEW w \in S, ~ Ahead(e[u], e[w]), ~ Ahead(e[w], e[u])
      PROVE  before(u) = before(w)
  <2>1. \A v \in S : /\ Ahead(e[v], e[u]) => Ahead(e[v], e[w]) \/ Ahead(e[w], e[u])
                     /\ Ahead(e[v], e[w]) => Ahead(e[v], e[u]) \/ Ahead(e[u], e[w])
    BY AheadOrders
  <2> QED BY <1>5, <2>1
<1> HIDE DEF before
<1>6. \A u \in S : Place(e, u) = 1 + Cardinality(before(u))
  BY DEF Place, before
<1>7. CASE Ahead(e[x], e[y])
  BY <1>1, <1>3, <1>4, <1>6, <1>7
<1>8. CASE Ahead(e[y], e[x])
  <2>1. ~ Ahead(e[x], e[y])
    BY <1>2, <1>8, AheadOrders
  <2>2. Cardinality(before(y)) < Cardinality(before(x))
    BY <1>4, <1>8
  <2> QED BY <1>1, <1>3, <1>6, <2>1, <2>2
<1>9. CASE ~ Ahead(e[x], e[y]) /\ ~ Ahead(e[y], e[x])
  BY <1>1, <1>3, <1>5, <1>6, <1>9
<1> QED BY <1>7, <1>8, <1>9

-----------------------------------------------------------------------------
(* Figures: sums and rounded quotients of natural numbers.                 *)
LEMMA SumsAreNat ==
  ASSUME NEW f, IsFiniteSet(DOMAIN f), \A x \in DOMAIN f : f[x] \in Nat
  PROVE  SumFunction(f) \in Nat
<1> DEFINE S == DOMAIN f
           F(g) == [t \in SUBSET S |-> IF t = {} THEN 0 ELSE f[Pick(t)] + g[t \ {Pick(t)}]]
           sums == CHOOSE g : g = F(g)
           G == PartialSums(f, S)
<1>1. SumsUp(G, f, S)
  BY SumsExist
<1>2. G = F(G)
  BY <1>1 DEF SumsUp
<1>3. sums = F(sums)
  BY <1>2
<1>4. SumsUp(sums, f, S)
  BY <1>3 DEF SumsUp
<1>5. SumFunction(f) = sums[S]
  BY DEF SumFunction, SumFunctionOnSet, FoldFunctionOnSet, MapThenFoldSet, Pick
<1> HIDE DEF sums
<1>6. sums[S] = G[S]
  BY <1>1, <1>4, SumsAgree
<1>7. SumOf(f, S) \in Nat
  BY SumNat
<1> QED BY <1>5, <1>6, <1>7 DEF SumOf

LEMMA RoundedIsNat ==
  ASSUME NEW n \in Nat, NEW m \in Nat \ {0}
  PROVE  Rounded(n, m) \in Nat
<1>1. 2 * n + m \in Nat /\ 2 * m \in Nat \ {0}
  OBVIOUS
<1>2. \A a \in Nat, b \in Nat \ {0} : a \div b \in Nat
  OBVIOUS
<1> QED BY <1>1, <1>2 DEF Rounded

LEMMA HundredthsIsNat ==
  ASSUME NEW n \in Nat, NEW m \in Nat
  PROVE  Hundredths(n, m) \in Nat
<1>1. CASE m = 0
  BY <1>1 DEF Hundredths
<1>2. CASE m # 0
  <2>1. 100 * n \in Nat
    OBVIOUS
  <2> QED BY <1>2, <2>1, RoundedIsNat DEF Hundredths
<1> QED BY <1>1, <1>2

(* buildLeaderboard's entry of a student. *)
LEMMA DaysFinite == IsFiniteSet(Days) /\ Days \subseteq Nat \ {0}
<1>1. Today \in Nat
  BY StandingsAssumption
<1> QED BY <1>1, FS_Interval DEF Days

LEMMA EntryTyped ==
  ASSUME NEW rows, DOMAIN rows \subseteq Days, \A d \in DOMAIN rows : rows[d] \in Results,
         NEW period, NEW current \in Nat
  PROVE  Entry(rows, period, current) \in EntryFigures
<1> DEFINE days == RowsIn(rows, period)
           solved == [d \in days |-> Cardinality(rows[d].solved)]
           asked == [d \in days |-> Cardinality(rows[d].assigned)]
           inWindow == [d \in days |-> Cardinality(rows[d].inWindow)]
           m == IF period.to \in days THEN rows[period.to].minute ELSE Never
           c == IF SumFunction(asked) = 0 THEN 0 ELSE Rounded(10000 * SumFunction(solved), SumFunction(asked))
<1>1. days \subseteq DOMAIN rows /\ IsFiniteSet(days)
  BY DaysFinite, FS_Subset DEF RowsIn
<1>2. \A d \in days : /\ Cardinality(rows[d].solved) \in Nat /\ Cardinality(rows[d].assigned) \in Nat
                      /\ Cardinality(rows[d].inWindow) \in Nat /\ rows[d].minute \in 0 .. Never
  <2> SUFFICES ASSUME NEW d \in days
               PROVE  /\ Cardinality(rows[d].solved) \in Nat /\ Cardinality(rows[d].assigned) \in Nat
                      /\ Cardinality(rows[d].inWindow) \in Nat /\ rows[d].minute \in 0 .. Never
    OBVIOUS
  <2>1. rows[d] \in Results
    BY <1>1
  <2>2. /\ rows[d].solved \subseteq Problems /\ rows[d].assigned \subseteq Problems
        /\ rows[d].inWindow \subseteq Problems /\ rows[d].minute \in 0 .. Never
    BY <2>1 DEF Results
  <2> QED BY <2>2, FS_Subset, FS_CardinalityType, AssignmentDayAssumption
<1>3. SumFunction(solved) \in Nat /\ SumFunction(asked) \in Nat /\ SumFunction(inWindow) \in Nat
  <2>1. \A d \in days : solved[d] \in Nat /\ asked[d] \in Nat /\ inWindow[d] \in Nat
    BY <1>2
  <2>2. DOMAIN solved = days /\ DOMAIN asked = days /\ DOMAIN inWindow = days
    OBVIOUS
  <2> HIDE DEF solved, asked, inWindow, days
  <2> QED BY <1>1, <2>1, <2>2, SumsAreNat
<1>4. m \in 0 .. Never
  <2>1. Never \in 0 .. Never
    BY DEF Never
  <2> HIDE DEF days
  <2> QED BY <1>2, <2>1
<1>5. Entry(rows, period, current) =
        [score |-> SumFunction(inWindow), solved |-> SumFunction(solved), minute |-> m,
         streak |-> current, consistency |-> c]
  BY DEF Entry
<1> HIDE DEF solved, asked, inWindow, m
<1>6. c \in Nat
  <2>1. CASE SumFunction(asked) = 0
    BY <2>1
  <2>2. CASE SumFunction(asked) # 0
    <3>1. 10000 * SumFunction(solved) \in Nat
      BY <1>3
    <3> QED BY <1>3, <2>2, <3>1, RoundedIsNat
  <2> QED BY <2>1, <2>2
<1> HIDE DEF c
<1> QED BY <1>3, <1>4, <1>5, <1>6 DEF EntryFigures

(* It has the streak given and no other figure depends on it. *)
LEMMA EntryBut ==
  ASSUME NEW rows, NEW period, NEW current, NEW other
  PROVE  /\ Entry(rows, period, current).score = Entry(rows, period, other).score
         /\ Entry(rows, period, current).solved = Entry(rows, period, other).solved
         /\ Entry(rows, period, current).minute = Entry(rows, period, other).minute
         /\ Entry(rows, period, current).consistency = Entry(rows, period, other).consistency
  BY DEF Entry

(* Rows outside a period are not in its entry. *)
LEMMA EntryOfPeriod ==
  ASSUME NEW rows, NEW others, NEW period, NEW current,
         RowsIn(rows, period) = RowsIn(others, period),
         \A d \in RowsIn(rows, period) : rows[d] = others[d]
  PROVE  Entry(rows, period, current) = Entry(others, period, current)
<1> DEFINE days == RowsIn(rows, period)
<1>1. /\ [d \in days |-> Cardinality(rows[d].solved)] = [d \in days |-> Cardinality(others[d].solved)]
      /\ [d \in days |-> Cardinality(rows[d].assigned)] = [d \in days |-> Cardinality(others[d].assigned)]
      /\ [d \in days |-> Cardinality(rows[d].inWindow)] = [d \in days |-> Cardinality(others[d].inWindow)]
  OBVIOUS
<1>2. (IF period.to \in days THEN rows[period.to].minute ELSE Never)
        = IF period.to \in days THEN others[period.to].minute ELSE Never
  OBVIOUS
<1>3. RowsIn(others, period) = days
  OBVIOUS
<1> HIDE DEF days
<1> QED BY <1>1, <1>2, <1>3 DEF Entry, days

-----------------------------------------------------------------------------
(* aggregateSquad. *)
IsEntries(e) == DOMAIN e \subseteq Students /\ \A s \in DOMAIN e : e[s] \in EntryFigures

DoneBy(e) == {m \in DOMAIN e : e[m].minute # Never}
ByMinute(e) == Orderings(DoneBy(e), LAMBDA a, b : e[a].minute < e[b].minute)

LEMMA MedianIs ==
  ASSUME NEW e
  PROVE  MedianMinute(e) = IF DoneBy(e) = {} THEN Never
                           ELSE e[Pick(ByMinute(e))[(Cardinality(DoneBy(e)) - 1) \div 2 + 1]].minute
  BY DEF MedianMinute, DoneBy, ByMinute, Pick, Orderings

LEMMA MedianMember ==
  ASSUME NEW e, IsFiniteSet(DOMAIN e), \A m \in DOMAIN e : e[m].minute \in Int, DoneBy(e) # {}
  PROVE  Pick(ByMinute(e))[(Cardinality(DoneBy(e)) - 1) \div 2 + 1] \in DoneBy(e)
<1> DEFINE S == DoneBy(e)
           before == {x \in S \X S : e[x[1]].minute < e[x[2]].minute}
           n == Cardinality(S)
           order == Pick(ByMinute(e))
<1>1. S \subseteq DOMAIN e /\ IsFiniteSet(S) /\ n \in Nat /\ (n = 0 <=> S = {})
  <2>1. S \subseteq DOMAIN e
    BY DEF DoneBy
  <2> HIDE DEF S
  <2> QED BY <2>1, FS_Subset, FS_CardinalityType, FS_EmptySet
<1>2. StrictOrder(before, S)
  <2>1. \A s, t \in S : <<s, t>> \in before <=> e[s].minute < e[t].minute
    OBVIOUS
  <2>2. \A s \in S : e[s].minute \in Int
    BY <1>1
  <2> HIDE DEF before, S
  <2> QED BY <2>1, <2>2 DEF StrictOrder
<1>3. \A seq : Listing(seq, before, S) => seq \in ByMinute(e)
  <2>1. \A seq : seq \in ByMinute(e) <=>
           /\ seq \in [1 .. n -> S]
           /\ \A i, j \in 1 .. n :
                 i < j => seq[i] # seq[j] /\ ~ (e[seq[j]].minute < e[seq[i]].minute)
    BY DEF ByMinute, Orderings
  <2>2. \A s, t \in S : <<s, t>> \in before <=> e[s].minute < e[t].minute
    OBVIOUS
  <2> HIDE DEF S, before
  <2> QED BY <2>1, <2>2 DEF Listing
<1>4. order \in ByMinute(e)
  <2>1. \E seq : Listing(seq, before, S)
    <3> HIDE DEF S, before
    <3> QED BY <1>1, <1>2, ListingExists
  <2>2. \E seq : seq \in ByMinute(e)
    BY <1>3, <2>1
  <2> QED BY <2>2 DEF Pick
<1>5. order \in [1 .. n -> S]
  <2>1. \A seq \in ByMinute(e) : seq \in [1 .. n -> S]
    BY DEF ByMinute, Orderings
  <2> HIDE DEF order, S, n
  <2> QED BY <1>4, <2>1
<1>6. (n - 1) \div 2 + 1 \in 1 .. n
  <2>1. n \in Nat \ {0}
    BY <1>1
  <2> HIDE DEF n
  <2> QED BY <2>1
<1> HIDE DEF order, n, S
<1>7. order[(n - 1) \div 2 + 1] \in S
  BY <1>5, <1>6
<1> QED BY <1>7 DEF order, n, S

LEMMA MedianTyped ==
  ASSUME NEW e, IsFiniteSet(DOMAIN e), \A m \in DOMAIN e : e[m].minute \in Int
  PROVE  MedianMinute(e) \in Int
<1>1. CASE DoneBy(e) = {}
  BY <1>1, MedianIs DEF Never
<1>2. CASE DoneBy(e) # {}
  <2>1. Pick(ByMinute(e))[(Cardinality(DoneBy(e)) - 1) \div 2 + 1] \in DOMAIN e
    BY <1>2, MedianMember DEF DoneBy
  <2> QED BY <1>2, <2>1, MedianIs
<1> QED BY <1>1, <1>2

LEMMA SquadMeasured ==
  ASSUME NEW e, IsFiniteSet(DOMAIN e), DOMAIN e # {}, \A s \in DOMAIN e : e[s] \in EntryFigures
  PROVE  Measured(AggregateSquad(e))
<1> DEFINE n == Cardinality(DOMAIN e)
           score == [m \in DOMAIN e |-> e[m].score]
           solved == [m \in DOMAIN e |-> e[m].solved]
           streaks == [m \in DOMAIN e |-> e[m].streak]
           consistency == [m \in DOMAIN e |-> e[m].consistency]
<1>1. n \in Nat \ {0}
  BY FS_CardinalityType, FS_EmptySet
<1>2. \A m \in DOMAIN e : /\ e[m].score \in Nat /\ e[m].solved \in Nat /\ e[m].streak \in Nat
                          /\ e[m].consistency \in Nat /\ e[m].minute \in Int
  <2> HIDE DEF n, score, solved, streaks, consistency
  <2>1. \A x \in EntryFigures : /\ x.score \in Nat /\ x.solved \in Nat /\ x.streak \in Nat
                                /\ x.consistency \in Nat /\ x.minute \in 0 .. Never
    BY DEF EntryFigures
  <2>2. 0 .. Never \subseteq Int
    BY DEF Never
  <2> QED BY <2>1, <2>2
<1>3. /\ SumFunction(score) \in Nat /\ SumFunction(solved) \in Nat
      /\ SumFunction(streaks) \in Nat /\ SumFunction(consistency) \in Nat
  <2>1. /\ DOMAIN score = DOMAIN e /\ DOMAIN solved = DOMAIN e
        /\ DOMAIN streaks = DOMAIN e /\ DOMAIN consistency = DOMAIN e
    OBVIOUS
  <2>2. \A m \in DOMAIN e : /\ score[m] \in Nat /\ solved[m] \in Nat
                            /\ streaks[m] \in Nat /\ consistency[m] \in Nat
    BY <1>2
  <2> HIDE DEF score, solved, streaks, consistency
  <2> QED BY <2>1, <2>2, SumsAreNat
<1>4. MedianMinute(e) \in Int
  BY <1>2, MedianTyped
<1>5. AggregateSquad(e) =
        [score |-> Hundredths(SumFunction(score), n), solved |-> SumFunction(solved),
         minute |-> MedianMinute(e), streak |-> Hundredths(SumFunction(streaks), n),
         consistency |-> Rounded(SumFunction(consistency), n), members |-> n]
  BY DEF AggregateSquad
<1> HIDE DEF n, score, solved, streaks, consistency
<1>6. /\ Hundredths(SumFunction(score), n) \in Nat /\ Hundredths(SumFunction(streaks), n) \in Nat
      /\ Rounded(SumFunction(consistency), n) \in Nat
  BY <1>1, <1>3, HundredthsIsNat, RoundedIsNat
<1> QED BY <1>3, <1>4, <1>5, <1>6 DEF Measured

(* Two squads of the same members, equal but for the streaks. *)
SameFigures(x, y) == \A f \in {"score", "solved", "minute", "consistency"} : x[f] = y[f]

LEMMA SquadBut ==
  ASSUME NEW e, NEW o, DOMAIN e = DOMAIN o, \A m \in DOMAIN e : SameFigures(e[m], o[m]),
         IsFiniteSet(DOMAIN e), \A m \in DOMAIN e : e[m].minute \in Int
  PROVE  SameFigures(AggregateSquad(e), AggregateSquad(o))
<1> DEFINE M == DOMAIN e
<1>1. \A m \in M : /\ e[m].score = o[m].score /\ e[m].solved = o[m].solved
                   /\ e[m].minute = o[m].minute /\ e[m].consistency = o[m].consistency
  BY DEF SameFigures
<1>2. /\ [m \in M |-> e[m].score] = [m \in M |-> o[m].score]
      /\ [m \in M |-> e[m].solved] = [m \in M |-> o[m].solved]
      /\ [m \in M |-> e[m].consistency] = [m \in M |-> o[m].consistency]
  BY <1>1
<1>3. DoneBy(e) = DoneBy(o)
  BY <1>1 DEF DoneBy
<1>4. ByMinute(e) = ByMinute(o)
  <2> DEFINE S == DoneBy(e)
             n == Cardinality(S)
  <2>1. \A x \in S : e[x].minute = o[x].minute
    BY <1>1 DEF DoneBy
  <2>2. \A seq : seq \in ByMinute(e) <=>
           /\ seq \in [1 .. n -> S]
           /\ \A i, j \in 1 .. n : i < j => seq[i] # seq[j] /\ ~ (e[seq[j]].minute < e[seq[i]].minute)
    BY DEF ByMinute, Orderings
  <2>3. \A seq : seq \in ByMinute(o) <=>
           /\ seq \in [1 .. n -> S]
           /\ \A i, j \in 1 .. n : i < j => seq[i] # seq[j] /\ ~ (o[seq[j]].minute < o[seq[i]].minute)
    BY <1>3 DEF ByMinute, Orderings
  <2> HIDE DEF S, n
  <2>4. \A seq \in [1 .. n -> S] : \A i \in 1 .. n : e[seq[i]].minute = o[seq[i]].minute
    BY <2>1
  <2>5. ASSUME NEW seq PROVE seq \in ByMinute(e) <=> seq \in ByMinute(o)
    <3>1. CASE seq \in [1 .. n -> S]
      <4>1. \A i, j \in 1 .. n :
               (e[seq[j]].minute < e[seq[i]].minute) <=> (o[seq[j]].minute < o[seq[i]].minute)
        BY <2>4, <3>1
      <4> QED BY <2>2, <2>3, <3>1, <4>1, Zenon
    <3> QED BY <2>2, <2>3, <3>1
  <2>6. \A x, y : x = ByMinute(e) /\ y = ByMinute(o) /\ (\A seq : seq \in x <=> seq \in y) => x = y
    BY Zenon
  <2> QED BY <2>5, <2>6
<1>5. MedianMinute(e) = MedianMinute(o)
  <2>1. CASE DoneBy(e) = {}
    BY <1>3, <2>1, MedianIs
  <2>2. CASE DoneBy(e) # {}
    <3> DEFINE k == Pick(ByMinute(e))[(Cardinality(DoneBy(e)) - 1) \div 2 + 1]
    <3>1. MedianMinute(e) = e[k].minute /\ MedianMinute(o) = o[k].minute
      BY <1>3, <1>4, <2>2, MedianIs
    <3>2. k \in M
      BY <2>2, MedianMember DEF DoneBy
    <3> HIDE DEF k
    <3> QED BY <1>1, <3>1, <3>2
  <2> QED BY <2>1, <2>2
<1>6. AggregateSquad(e).score = AggregateSquad(o).score
      /\ AggregateSquad(e).solved = AggregateSquad(o).solved
      /\ AggregateSquad(e).minute = AggregateSquad(o).minute
      /\ AggregateSquad(e).consistency = AggregateSquad(o).consistency
  BY <1>2, <1>5 DEF AggregateSquad
<1> QED BY <1>6 DEF SameFigures

-----------------------------------------------------------------------------
(* The boards built from the entries of a period are rankings. *)
AheadIn(r, peers, x) == {y \in peers : Ahead(r[y].figures, r[x].figures)}
PeersIn(r, x) == {y \in DOMAIN r : r[y].campus = r[x].campus}

LEMMA StudentRanking ==
  ASSUME NEW r
  PROVE  IsRanking("student", r) <=>
           \A x \in DOMAIN r :
              /\ r[x].globalRank = 1 + Cardinality(AheadIn(r, DOMAIN r, x))
              /\ r[x].rank = 1 + Cardinality(AheadIn(r, PeersIn(r, x), x))
              /\ r[x].tied <=> \E y \in DOMAIN r \ {x} : r[y].globalRank = r[x].globalRank
<1>1. \A x : {y \in DOMAIN r : "student" = "student" => r[y].campus = r[x].campus} = PeersIn(r, x)
  BY DEF PeersIn
<1> QED BY <1>1 DEF IsRanking, AheadIn

LEMMA SquadRanking ==
  ASSUME NEW r
  PROVE  IsRanking("squad", r) <=>
           \A x \in DOMAIN r :
              /\ r[x].rank = 1 + Cardinality(AheadIn(r, DOMAIN r, x))
              /\ r[x].tied <=> \E y \in DOMAIN r \ {x} : r[y].rank = r[x].rank
<1>1. \A x : {y \in DOMAIN r : "squad" = "student" => r[y].campus = r[x].campus} = DOMAIN r
  OBVIOUS
<1> QED BY <1>1 DEF IsRanking, AheadIn

LEMMA EntriesMeasured ==
  ASSUME NEW e, IsEntries(e)
  PROVE  /\ IsFiniteSet(DOMAIN e)
         /\ \A s \in DOMAIN e : Measured(e[s]) /\ e[s].minute \in Int
<1>1. IsFiniteSet(DOMAIN e)
  BY StandingsAssumption, FS_Subset DEF IsEntries
<1>2. \A x \in EntryFigures : Measured(x) /\ x.minute \in Int
  BY DEF EntryFigures, Measured, Never
<1> QED BY <1>1, <1>2 DEF IsEntries

LEMMA StudentBoardIs ==
  ASSUME NEW e, IsEntries(e), NEW campus
  PROVE  LET r == StudentBoard(e, campus)
         IN /\ DOMAIN r = DOMAIN e
            /\ \A s \in DOMAIN e : r[s].figures = e[s] /\ r[s].campus = campus[s]
            /\ IsRanking("student", r)
<1> DEFINE r == StudentBoard(e, campus)
           peers(s) == {t \in DOMAIN e : campus[t] = campus[s]}
           of(s) == [t \in peers(s) |-> e[t]]
<1>1. r = [s \in DOMAIN e |->
             [figures |-> e[s], campus |-> campus[s], rank |-> RankEntries(of(s))[s].rank,
              globalRank |-> RankEntries(e)[s].rank, tied |-> RankEntries(e)[s].tied]]
  BY DEF StudentBoard
<1> HIDE DEF of, r
<1>2. /\ DOMAIN r = DOMAIN e
      /\ \A s \in DOMAIN e : /\ r[s].figures = e[s] /\ r[s].campus = campus[s]
                             /\ r[s].rank = RankEntries(of(s))[s].rank
                             /\ r[s].globalRank = RankEntries(e)[s].rank
                             /\ r[s].tied = RankEntries(e)[s].tied
  BY <1>1
<1>3. \A s \in DOMAIN e : RankEntries(e)[s].rank = Place(e, s)
  BY RanksArePlaces, EntriesMeasured
<1>4. ASSUME NEW s \in DOMAIN e PROVE RankEntries(of(s))[s].rank = Place(of(s), s)
  <2>1. DOMAIN of(s) = peers(s) /\ s \in peers(s) /\ \A t \in peers(s) : of(s)[t] = e[t]
    BY DEF of
  <2>2. IsFiniteSet(DOMAIN of(s)) /\ \A t \in DOMAIN of(s) : Measured(of(s)[t])
    BY <2>1, EntriesMeasured, FS_Subset
  <2> QED BY <2>1, <2>2, RanksArePlaces
<1>5. ASSUME NEW s \in DOMAIN e
      PROVE  /\ AheadIn(r, DOMAIN r, s) = {y \in DOMAIN e : Ahead(e[y], e[s])}
             /\ AheadIn(r, PeersIn(r, s), s) = {y \in DOMAIN of(s) : Ahead(of(s)[y], of(s)[s])}
  <2>1. AheadIn(r, DOMAIN r, s) = {y \in DOMAIN e : Ahead(e[y], e[s])}
    BY <1>2 DEF AheadIn
  <2>2. PeersIn(r, s) = peers(s)
    BY <1>2 DEF PeersIn
  <2>3. DOMAIN of(s) = peers(s) /\ s \in peers(s) /\ \A t \in peers(s) : of(s)[t] = e[t]
    BY DEF of
  <2>4. \A y \in peers(s) : r[y].figures = e[y] /\ r[s].figures = e[s]
    BY <1>2
  <2>5. AheadIn(r, PeersIn(r, s), s) = {y \in DOMAIN of(s) : Ahead(of(s)[y], of(s)[s])}
    <3> HIDE DEF peers
    <3> QED BY <2>2, <2>3, <2>4 DEF AheadIn
  <2> QED BY <2>1, <2>5
<1>6. IsRanking("student", r)
  <2> SUFFICES ASSUME NEW s \in DOMAIN e
               PROVE  /\ r[s].globalRank = 1 + Cardinality(AheadIn(r, DOMAIN r, s))
                      /\ r[s].rank = 1 + Cardinality(AheadIn(r, PeersIn(r, s), s))
                      /\ r[s].tied <=> \E y \in DOMAIN r \ {s} : r[y].globalRank = r[s].globalRank
    BY <1>2, StudentRanking
  <2>1. r[s].globalRank = 1 + Cardinality(AheadIn(r, DOMAIN r, s))
    BY <1>2, <1>3, <1>5 DEF Place
  <2>2. r[s].rank = 1 + Cardinality(AheadIn(r, PeersIn(r, s), s))
    BY <1>2, <1>4, <1>5 DEF Place
  <2>3. r[s].tied <=> \E y \in DOMAIN r \ {s} : r[y].globalRank = r[s].globalRank
    <3>1. RankEntries(e)[s].tied <=> \E y \in DOMAIN e \ {s} : Place(e, y) = Place(e, s)
      BY RanksArePlaces, EntriesMeasured
    <3> QED BY <3>1, <1>2, <1>3
  <2> QED BY <2>1, <2>2, <2>3
<1> QED BY <1>2, <1>6 DEF r

MembersOf(e, q) == [s \in {t \in DOMAIN e : SquadOf[t] = q} |-> e[s]]

LEMMA SquadBoardIs ==
  ASSUME NEW e, IsEntries(e)
  PROVE  LET r == SquadBoard(e)
         IN /\ DOMAIN r = {SquadOf[s] : s \in DOMAIN e}
            /\ \A q \in DOMAIN r : r[q].figures = AggregateSquad(MembersOf(e, q))
            /\ IsRanking("squad", r)
<1> DEFINE r == SquadBoard(e)
           Q == {SquadOf[s] : s \in DOMAIN e}
           squads == [q \in Q |-> AggregateSquad(MembersOf(e, q))]
<1>1. r = [q \in Q |-> [figures |-> squads[q], rank |-> RankEntries(squads)[q].rank,
                        tied |-> RankEntries(squads)[q].tied]]
  BY DEF SquadBoard, MembersOf
<1>2. IsFiniteSet(Q) /\ DOMAIN squads = Q
  <2>1. IsFiniteSet(DOMAIN e)
    BY EntriesMeasured
  <2>2. IsFiniteSet(Q)
    BY <2>1, ImageFinite
  <2> QED BY <2>2
<1>3. ASSUME NEW q \in Q PROVE Measured(squads[q])
  <2> DEFINE m == MembersOf(e, q)
  <2>1. DOMAIN m = {t \in DOMAIN e : SquadOf[t] = q} /\ \A t \in DOMAIN m : m[t] = e[t]
    BY DEF MembersOf
  <2>2. DOMAIN m # {} /\ DOMAIN m \subseteq DOMAIN e
    BY <2>1
  <2> HIDE DEF m
  <2>3. IsFiniteSet(DOMAIN m) /\ \A t \in DOMAIN m : m[t] \in EntryFigures
    BY <2>1, <2>2, EntriesMeasured, FS_Subset DEF IsEntries
  <2>4. Measured(AggregateSquad(m))
    BY <2>2, <2>3, SquadMeasured
  <2> QED BY <2>4 DEF m
<1> HIDE DEF r, squads, Q
<1>4. \A q \in Q : /\ RankEntries(squads)[q].rank = Place(squads, q)
                   /\ RankEntries(squads)[q].tied <=>
                         \E y \in Q \ {q} : Place(squads, y) = Place(squads, q)
  BY <1>2, <1>3, RanksArePlaces
<1>5. /\ DOMAIN r = Q
      /\ \A q \in Q : /\ r[q].figures = squads[q] /\ r[q].rank = Place(squads, q)
                      /\ r[q].tied <=> \E y \in Q \ {q} : Place(squads, y) = Place(squads, q)
  BY <1>1, <1>4
<1>6. \A q \in Q : AheadIn(r, DOMAIN r, q) = {y \in DOMAIN squads : Ahead(squads[y], squads[q])}
  BY <1>2, <1>5 DEF AheadIn
<1>7. IsRanking("squad", r)
  <2> SUFFICES ASSUME NEW q \in Q
               PROVE  /\ r[q].rank = 1 + Cardinality(AheadIn(r, DOMAIN r, q))
                      /\ r[q].tied <=> \E y \in DOMAIN r \ {q} : r[y].rank = r[q].rank
    BY <1>5, SquadRanking
  <2>1. r[q].rank = 1 + Cardinality(AheadIn(r, DOMAIN r, q))
    BY <1>5, <1>6 DEF Place
  <2>2. r[q].tied <=> \E y \in DOMAIN r \ {q} : r[y].rank = r[q].rank
    BY <1>5
  <2> QED BY <2>1, <2>2
<1>8. \A q \in Q : squads[q] = AggregateSquad(MembersOf(e, q))
  BY DEF squads
<1> QED BY <1>5, <1>7, <1>8 DEF r, Q

-----------------------------------------------------------------------------
(* The inductive invariant.  A job is at one of its steps with what that   *)
(* step needs: days to recompute and to renew the boards of; boards that   *)
(* alternate, the squads' after the students' of the same period; at       *)
(* replace and create the ranking of the first of them.                    *)
Fields == {"pc", "todo", "days", "boards", "heal", "cached", "found", "entries", "locked", "overtaken"}
Steps == {"idle", "recompute", "aggregate", "cache", "rank", "replace", "create", "heal"}

JobTyped(j) ==
    /\ DOMAIN j = Fields
    /\ j.pc \in Steps
    /\ j.todo \subseteq Days /\ j.days \subseteq Days
    /\ j.boards \in Seq(AllBoards)
    /\ j.heal \in 0 .. PerNight
    /\ {j.cached, j.locked, j.overtaken} \subseteq BOOLEAN

Ladder(bs) ==
    \A i \in 1 .. Len(bs) - 1 :
        IF bs[i][1] = "student" THEN bs[i + 1] = <<"squad", bs[i][2]>> ELSE bs[i + 1][1] = "student"

Writing(j) == j.pc \in {"replace", "create"}

Fits(j) ==
    /\ Ladder(j.boards)
    /\ j.pc = "recompute" => j.todo # {} /\ j.todo \subseteq j.days
    /\ j.pc \in {"aggregate", "cache"} => j.days # {}
    /\ j.pc = "cache" => j.found \in [Students -> Nat]
    /\ j.pc = "rank" => j.boards # <<>> /\ Head(j.boards)[1] = "student"
    /\ Writing(j) =>
          /\ j.boards # <<>>
          /\ IsRanking(Head(j.boards)[1], j.found)
          /\ Head(j.boards)[1] = "student" =>
                /\ IsEntries(j.entries) /\ DOMAIN j.found = DOMAIN j.entries
                /\ \A s \in DOMAIN j.entries : j.found[s].figures = j.entries[s]

(* While nobody's status changes a board is of every student or of none.   *)
Everyone(kind) == IF kind = "student" THEN Students ELSE {SquadOf[s] : s \in Students}
Whole(kind, rows) == DOMAIN rows \in {{}, Everyone(kind)}
AllThere ==
    "status" \notin env =>
        /\ active = Students
        /\ \A s, t \in Students : DOMAIN row[s] = DOMAIN row[t]
        /\ \A b \in AllBoards : Whole(b[1], board[b])
        /\ \A p \in Procs : Writing(proc[p]) => Whole(Head(proc[p].boards)[1], proc[p].found)

(* Jobs overlap only where they may.                                       *)
OneJob ==
    "overlap" \notin env =>
        /\ \A p, q \in Procs : At(p, "idle") \/ At(q, "idle") \/ p = q
        /\ \A p \in Procs : ~ proc[p].overtaken

BoardsRanked ==
    \A b \in AllBoards :
        /\ {"overlap", "status"} \subseteq env \/ IsRanking(b[1], board[b])
        /\ b[1] = "student" => /\ DOMAIN board[b] \subseteq Students
                               /\ \A s \in DOMAIN board[b] : board[b][s].figures \in EntryFigures

(* The boards a job has still to renew.                                    *)
Waiting(j) ==
    IF j.pc \in {"recompute", "aggregate", "cache"} THEN Range(BoardsOf(j.days))
    ELSE IF j.pc \in {"rank", "replace", "create"} THEN Range(j.boards) ELSE {}

(* FollowsRows for given daily rows and active students.                   *)
RankedOf(all, present, period) == {s \in present : RowsIn(all[s], period) # {}}
Now(all, present, period) == [s \in RankedOf(all, present, period) |-> Entry(all[s], period, 0)]
Follows(b, rows, all, present) ==
    LET now == Now(all, present, b[2])
    IN IF b[1] = "student"
       THEN /\ DOMAIN rows = DOMAIN now
            /\ \A s \in DOMAIN now : /\ SameFigures(rows[s].figures, now[s])
                                      /\ rows[s].campus \in CampusesOf(all[s], b[2])
       ELSE /\ DOMAIN rows = {SquadOf[s] : s \in DOMAIN now}
            /\ \A q \in DOMAIN rows :
                  SameFigures(rows[q].figures, AggregateSquad(MembersOf(now, q)))

Quiet == env \cap {"crash", "overlap", "status"} = {}
Followed ==
    Quiet =>
        /\ \A b \in AllBoards :
              Follows(b, board[b], row, active) \/ \E p \in Procs : b \in Waiting(proc[p])
        /\ \A p \in Procs :
              Writing(proc[p]) => Follows(Head(proc[p].boards), proc[p].found, row, active)

Kept ==
    /\ \A p \in Procs : JobTyped(proc[p]) /\ Fits(proc[p])
    /\ AllThere
    /\ OneJob
    /\ BoardsRanked
    /\ Followed

Inv == TypeOK /\ Kept

-----------------------------------------------------------------------------
(* Periods: a period holds a day if and only if it is that day's.          *)
LEMMA Quotient ==
  ASSUME NEW x \in Nat, NEW n \in Nat \ {0}
  PROVE  /\ x \div n \in Nat
         /\ (x \div n) * n <= x /\ x < (x \div n) * n + n
  OBVIOUS

LEMMA QuotientIs ==
  ASSUME NEW x \in Nat, NEW n \in Nat \ {0}, NEW k \in Nat, k * n <= x, x < k * n + n
  PROVE  x \div n = k
<1> DEFINE q == x \div n
<1>1. q \in Nat /\ q * n <= x /\ x < q * n + n
  BY Quotient
<1> HIDE DEF q
<1>2. ASSUME NEW a \in Nat, NEW b \in Nat, a < b PROVE a * n + n <= b * n
  <2>1. PICK c \in Nat : b = a + 1 + c
    <3>1. b - a - 1 \in Nat /\ b = a + 1 + (b - a - 1)
      BY <1>2
    <3> QED BY <3>1
  <2>2. b * n = a * n + n + c * n
    BY <2>1
  <2>3. c * n \in Nat /\ a * n \in Nat
    OBVIOUS
  <2> QED BY <2>2, <2>3
<1>3. ~ q < k
  <2> SUFFICES ASSUME q < k PROVE FALSE
    OBVIOUS
  <2>1. q * n + n <= k * n
    BY <1>1, <1>2
  <2>2. q * n \in Nat /\ k * n \in Nat
    BY <1>1
  <2> QED BY <1>1, <2>1, <2>2
<1>4. ~ k < q
  <2> SUFFICES ASSUME k < q PROVE FALSE
    OBVIOUS
  <2>1. k * n + n <= q * n
    BY <1>1, <1>2
  <2>2. q * n \in Nat /\ k * n \in Nat
    BY <1>1
  <2> QED BY <1>1, <2>1, <2>2
<1>5. q = k
  BY <1>1, <1>3, <1>4
<1> QED BY <1>5 DEF q

LEMMA SpanOfDay ==
  ASSUME NEW kind, NEW length \in Nat \ {0}, NEW d \in Nat \ {0}
  PROVE  LET p == Span(kind, length, d) IN p.from \in Nat \ {0} /\ p.to \in Nat /\ p.from <= d /\ d <= p.to
<1> DEFINE q == (d - 1) \div length
           m == q * length
<1>1. d - 1 \in Nat
  OBVIOUS
<1>2. q \in Nat /\ m <= d - 1 /\ d - 1 < m + length
  BY <1>1, Quotient
<1> HIDE DEF q
<1>3. m \in Nat
  BY <1>2
<1>4. Span(kind, length, d).from = m + 1 /\ Span(kind, length, d).to = m + 1 + length - 1
  BY DEF Span, q
<1> HIDE DEF m
<1> QED BY <1>2, <1>3, <1>4

LEMMA SpanIs ==
  ASSUME NEW kind, NEW length \in Nat \ {0}, NEW d \in Nat \ {0}, NEW e \in Nat \ {0},
         Span(kind, length, e).from <= d, d <= Span(kind, length, e).to
  PROVE  Span(kind, length, d) = Span(kind, length, e)
<1> DEFINE q == (e - 1) \div length
           m == q * length
<1>1. d - 1 \in Nat /\ e - 1 \in Nat
  OBVIOUS
<1>2. q \in Nat
  BY <1>1, Quotient
<1>3. Span(kind, length, e).from = m + 1 /\ Span(kind, length, e).to = m + 1 + length - 1
  BY DEF Span
<1>4. m \in Nat
  BY <1>2
<1> HIDE DEF q
<1>5. m <= d - 1 /\ d - 1 < m + length
  <2> HIDE DEF m
  <2> QED BY <1>3, <1>4
<1>6. (d - 1) \div length = q
  BY <1>1, <1>2, <1>5, QuotientIs
<1>7. (d - 1) \div length = (e - 1) \div length
  BY <1>6 DEF q
<1> QED BY <1>7 DEF Span

(* The boards of a day are those of its three periods. *)
Kinds == {"student", "squad"}

LEMMA BoardsAre ==
  ASSUME NEW b
  PROVE  b \in AllBoards <=>
           \E kind \in Kinds, d \in Days, k \in 1 .. 3 : b = <<kind, PeriodsOf(d, Week, Month)[k]>>
<1>1. \A d : Range(PeriodsOf(d, Week, Month)) = {PeriodsOf(d, Week, Month)[k] : k \in 1 .. 3}
  <2>1. \A d : DOMAIN PeriodsOf(d, Week, Month) = 1 .. 3
    BY DEF PeriodsOf
  <2> QED BY <2>1 DEF Range
<1> DEFINE P == UNION {Range(PeriodsOf(d, Week, Month)) : d \in Days}
<1>2. \A p : p \in P <=> \E d \in Days, k \in 1 .. 3 : p = PeriodsOf(d, Week, Month)[k]
  BY <1>1
<1>3. b \in AllBoards <=> \E kind \in Kinds, p \in P : b = <<kind, p>>
  BY DEF AllBoards, Boards, Kinds
<1> HIDE DEF P
<1> QED BY <1>2, <1>3

LEMMA PeriodOfDay ==
  ASSUME NEW d \in Days, NEW k \in 1 .. 3
  PROVE  LET p == PeriodsOf(d, Week, Month)[k]
         IN /\ p.from \in Nat \ {0} /\ p.to \in Nat /\ p.from <= d /\ d <= p.to
            /\ \A e \in Days : p.from <= e /\ e <= p.to => PeriodsOf(e, Week, Month)[k] = p
<1>1. Days \subseteq Nat \ {0} /\ Week \in Nat \ {0} /\ Month \in Nat \ {0} /\ 1 \in Nat \ {0}
  BY DaysFinite, StandingsAssumption
<1>2. \A e : /\ PeriodsOf(e, Week, Month)[1] = Span("DAILY", 1, e)
             /\ PeriodsOf(e, Week, Month)[2] = Span("WEEKLY", Week, e)
             /\ PeriodsOf(e, Week, Month)[3] = Span("MONTHLY", Month, e)
  BY DEF PeriodsOf
<1>3. k = 1 \/ k = 2 \/ k = 3
  OBVIOUS
<1>4. CASE k = 1
  BY <1>1, <1>2, <1>4, SpanOfDay, SpanIs
<1>5. CASE k = 2
  BY <1>1, <1>2, <1>5, SpanOfDay, SpanIs
<1>6. CASE k = 3
  BY <1>1, <1>2, <1>6, SpanOfDay, SpanIs
<1> QED BY <1>3, <1>4, <1>5, <1>6

LEMMA BoardParts ==
  ASSUME NEW b \in AllBoards
  PROVE  /\ b[1] \in Kinds /\ b = <<b[1], b[2]>> /\ b[2].from \in Nat \ {0} /\ b[2].to \in Nat
         /\ \E d \in Days, k \in 1 .. 3 : b[2] = PeriodsOf(d, Week, Month)[k]
         /\ \A kind \in Kinds : <<kind, b[2]>> \in AllBoards
<1>1. PICK kind \in Kinds, d \in Days, k \in 1 .. 3 : b = <<kind, PeriodsOf(d, Week, Month)[k]>>
  BY BoardsAre
<1>2. b[1] = kind /\ b[2] = PeriodsOf(d, Week, Month)[k]
  BY <1>1
<1>3. b = <<b[1], b[2]>>
  BY <1>1, <1>2
<1>4. b[2].from \in Nat \ {0} /\ b[2].to \in Nat
  BY <1>2, PeriodOfDay
<1>5. \A other \in Kinds : <<other, b[2]>> \in AllBoards
  BY <1>2, BoardsAre
<1> QED BY <1>2, <1>3, <1>4, <1>5

(* BoardsOf: the boards of every period of the given days. *)
LEMMA DaysInOrder ==
  ASSUME NEW days, days \subseteq Days
  PROVE  /\ IsFiniteSet(days) /\ Cardinality(days) \in Nat /\ (Cardinality(days) = 0 <=> days = {})
         /\ OldestFirst(days) \in [1 .. Cardinality(days) -> days]
         /\ \A d \in days : \E i \in 1 .. Cardinality(days) : OldestFirst(days)[i] = d
<1> DEFINE n == Cardinality(days)
           before == {x \in days \X days : x[1] < x[2]}
           all == Orderings(days, LAMBDA d, e : d < e)
<1>1. IsFiniteSet(days) /\ n \in Nat /\ (n = 0 <=> days = {})
  BY DaysFinite, FS_Subset, FS_CardinalityType, FS_EmptySet
<1>2. \A d, e \in days : <<d, e>> \in before <=> d < e
  OBVIOUS
<1>3. days \subseteq Int
  BY DaysFinite
<1>4. \A seq : seq \in all <=> Listing(seq, before, days)
  <2>1. \A seq : seq \in all <=>
           /\ seq \in [1 .. n -> days]
           /\ \A i, j \in 1 .. n : i < j => seq[i] # seq[j] /\ ~ (seq[j] < seq[i])
    BY DEF Orderings
  <2>2. \A seq \in [1 .. n -> days] : \A i, j \in 1 .. n : <<seq[j], seq[i]>> \in before <=> seq[j] < seq[i]
    OBVIOUS
  <2> HIDE DEF before, all
  <2> QED BY <2>1, <2>2 DEF Listing
<1> HIDE DEF before
<1>5. StrictOrder(before, days)
  BY <1>2, <1>3 DEF StrictOrder
<1>6. \E seq : Listing(seq, before, days)
  BY <1>1, <1>5, ListingExists
<1>7. OldestFirst(days) = CHOOSE o \in all : TRUE
  BY DEF OldestFirst, Orderings
<1> HIDE DEF all
<1>8. Listing(OldestFirst(days), before, days)
  BY <1>4, <1>6, <1>7
<1>9. OldestFirst(days) \in [1 .. n -> days]
  BY <1>8 DEF Listing
<1>10. \A d \in days : \E i \in 1 .. n : OldestFirst(days)[i] = d
  BY <1>1, <1>8, ListingComplete
<1> QED BY <1>1, <1>9, <1>10

DayAt(i) == (i - 1) \div 6 + 1
PeriodAt(i) == ((i - 1) % 6) \div 2 + 1

LEMMA SixADay ==
  ASSUME NEW n \in Nat, NEW i \in 1 .. 6 * n
  PROVE  /\ DayAt(i) \in 1 .. n /\ PeriodAt(i) \in 1 .. 3
         /\ i % 2 = 1 => i + 1 \in 1 .. 6 * n /\ (i + 1) % 2 # 1
                         /\ DayAt(i + 1) = DayAt(i) /\ PeriodAt(i + 1) = PeriodAt(i)
         /\ i % 2 # 1 => (i + 1) % 2 = 1
  BY DEF DayAt, PeriodAt

LEMMA PlaceOfBoard ==
  ASSUME NEW n \in Nat, NEW m \in 1 .. n, NEW k \in 1 .. 3, NEW side \in 1 .. 2
  PROVE  LET i == 6 * (m - 1) + 2 * (k - 1) + side
         IN /\ i \in 1 .. 6 * n /\ DayAt(i) = m /\ PeriodAt(i) = k
            /\ i % 2 = 1 <=> side = 1
  BY DEF DayAt, PeriodAt

LEMMA BoardsListed ==
  ASSUME NEW days, days \subseteq Days
  PROVE  LET bs == BoardsOf(days)
         IN /\ bs \in Seq(AllBoards)
            /\ Ladder(bs)
            /\ days # {} => bs # <<>> /\ Head(bs)[1] = "student"
            /\ \A b \in AllBoards, d \in days : b[2].from <= d /\ d <= b[2].to => b \in Range(bs)
<1> DEFINE bs == BoardsOf(days)
           n == Cardinality(days)
           period(i) == PeriodsOf(OldestFirst(days)[DayAt(i)], Week, Month)[PeriodAt(i)]
           kind(i) == IF i % 2 = 1 THEN "student" ELSE "squad"
<1>1. n \in Nat /\ (n = 0 <=> days = {})
  BY DaysInOrder
<1>2. bs = [i \in 1 .. 6 * n |-> <<kind(i), period(i)>>]
  BY DEF BoardsOf, DayAt, PeriodAt
<1>3. \A i \in 1 .. 6 * n : bs[i] \in AllBoards
  <2> SUFFICES ASSUME NEW i \in 1 .. 6 * n PROVE <<kind(i), period(i)>> \in AllBoards
    BY <1>2
  <2>1. DayAt(i) \in 1 .. n /\ PeriodAt(i) \in 1 .. 3
    BY <1>1, SixADay
  <2>2. OldestFirst(days)[DayAt(i)] \in Days
    BY <2>1, DaysInOrder
  <2>3. kind(i) \in Kinds
    BY DEF Kinds
  <2> QED BY <2>1, <2>2, <2>3, BoardsAre
<1>4. bs \in Seq(AllBoards) /\ Len(bs) = 6 * n
  <2>1. 6 * n \in Nat
    BY <1>1
  <2> HIDE DEF bs, n
  <2>2. bs \in [1 .. 6 * n -> AllBoards]
    BY <1>2, <1>3
  <2>3. bs \in Seq(AllBoards)
    BY <2>1, <2>2, SeqDef
  <2>4. DOMAIN bs = 1 .. 6 * n
    BY <2>2
  <2> QED BY <2>1, <2>3, <2>4, LenProperties
<1>5. Ladder(bs)
  <2> SUFFICES ASSUME NEW i \in 1 .. 6 * n - 1
               PROVE  IF bs[i][1] = "student" THEN bs[i + 1] = <<"squad", bs[i][2]>>
                      ELSE bs[i + 1][1] = "student"
    BY <1>4 DEF Ladder
  <2>1. i \in 1 .. 6 * n /\ i + 1 \in 1 .. 6 * n
    BY <1>1
  <2> HIDE DEF bs, n
  <2>2. bs[i] = <<kind(i), period(i)>> /\ bs[i + 1] = <<kind(i + 1), period(i + 1)>>
    BY <1>2, <2>1
  <2>3. CASE i % 2 = 1
    BY <1>1, <2>1, <2>2, <2>3, SixADay
  <2>4. CASE i % 2 # 1
    BY <1>1, <2>1, <2>2, <2>4, SixADay
  <2> QED BY <2>3, <2>4
<1>6. ASSUME days # {} PROVE bs # <<>> /\ Head(bs)[1] = "student"
  <2>1. 1 \in 1 .. 6 * n
    BY <1>1, <1>6
  <2>2. bs[1][1] = "student"
    BY <1>2, <2>1
  <2> HIDE DEF bs, n
  <2>3. bs # <<>>
    BY <1>1, <1>4, <1>6
  <2>4. Head(bs) = bs[1]
    BY <1>4, <2>3, HeadTailProperties
  <2> QED BY <2>2, <2>3, <2>4
<1>7. ASSUME NEW b \in AllBoards, NEW d \in days, b[2].from <= d, d <= b[2].to
      PROVE  b \in Range(bs)
  <2>1. PICK m \in 1 .. n : OldestFirst(days)[m] = d
    BY DaysInOrder
  <2>2. PICK e \in Days, k \in 1 .. 3 : b[2] = PeriodsOf(e, Week, Month)[k]
    BY BoardParts
  <2>3. PeriodsOf(d, Week, Month)[k] = b[2]
    BY <1>7, <2>2, PeriodOfDay
  <2> DEFINE side == IF b[1] = "student" THEN 1 ELSE 2
             i == 6 * (m - 1) + 2 * (k - 1) + side
  <2>4. i \in 1 .. 6 * n /\ DayAt(i) = m /\ PeriodAt(i) = k /\ (i % 2 = 1 <=> side = 1)
    BY <1>1, PlaceOfBoard
  <2>5. kind(i) = b[1]
    BY <2>4, BoardParts DEF Kinds
  <2>6. period(i) = b[2]
    BY <2>1, <2>3, <2>4
  <2> HIDE DEF i
  <2>7. b = <<kind(i), period(i)>>
    BY <2>5, <2>6, BoardParts
  <2>8. bs[i] = b /\ i \in DOMAIN bs
    BY <1>2, <2>4, <2>7
  <2> QED BY <2>8 DEF Range
<1> QED BY <1>4, <1>5, <1>6, <1>7

-----------------------------------------------------------------------------
(* Rows, streaks and jobs as they are stored.                              *)
LEMMA ResultTyped ==
  ASSUME NEW s \in Students, NEW d \in Days, NEW done, NEW problems, problems \subseteq Problems,
         NEW version \in 1 .. 2
  PROVE  Result(s, d, done, problems, version) \in Results
<1> DEFINE inWindow == SolvedInWindow(done, problems, d)
           solved == IF version = 1 THEN inWindow ELSE Solved(done, problems)
           minute == IF problems # {} /\ solved = problems THEN MinuteOf[s] ELSE Never
<1>1. inWindow \subseteq Problems /\ solved \subseteq Problems
  BY DEF SolvedInWindow, Solved
<1>2. minute \in 0 .. Never
  <2>1. MinuteOf[s] \in 0 .. Never - 1
    BY StandingsAssumption
  <2> QED BY <2>1 DEF Never
<1>3. CampusOn[s][d] \in Campuses
  BY DEF Campuses
<1>4. Result(s, d, done, problems, version) =
        [assigned |-> problems, solved |-> solved, inWindow |-> inWindow, minute |-> minute,
         campus |-> CampusOn[s][d], version |-> version]
  BY DEF Result
<1> HIDE DEF inWindow, solved, minute
<1> QED BY <1>1, <1>2, <1>3, <1>4 DEF Results

LEMMA StreakTyped ==
  ASSUME NEW rows, DOMAIN rows \subseteq Days, NEW ref, NEW start
  PROVE  Streak(rows, ref, start) \in Nat
<1> DEFINE counted == {d \in DOMAIN rows : rows[d].assigned # {} /\ start <= d /\ d <= ref}
           met == {d \in counted : Qualifies(rows[d])}
           missed == counted \ (met \cup {ref})
           run == {d \in met : \A m \in missed : m < d}
<1>1. Streak(rows, ref, start) = Cardinality(run)
  BY DEF Streak
<1>2. run \subseteq Days
  OBVIOUS
<1> HIDE DEF run
<1> QED BY <1>1, <1>2, DaysFinite, FS_Subset, FS_CardinalityType

(* A job just started, and one whose boards are to be renewed. *)
Started(days, heal, cached) ==
    [Idle EXCEPT !.pc = "recompute", !.todo = days, !.days = days, !.heal = heal, !.cached = cached]
Renewing(days, heal) == [Idle EXCEPT !.pc = "rank", !.boards = BoardsOf(days), !.heal = heal]

LEMMA IdleFits == JobTyped(Idle) /\ Fits(Idle) /\ ~ Writing(Idle) /\ Waiting(Idle) = {} /\ Idle.pc = "idle"
                  /\ ~ Idle.overtaken
<1>1. PerNight \in Nat
  BY StandingsAssumption
<1>2. <<>> \in Seq(AllBoards) /\ Len(<<>>) = 0 /\ 1 .. 0 - 1 = {}
  OBVIOUS
<1> QED BY <1>1, <1>2 DEF Idle, JobTyped, Fits, Writing, Waiting, Fields, Steps, Ladder

LEMMA StartedFits ==
  ASSUME NEW days, days \subseteq Days, days # {}, NEW heal \in 0 .. PerNight, NEW cached \in BOOLEAN
  PROVE  LET j == Started(days, heal, cached)
         IN JobTyped(j) /\ Fits(j) /\ ~ Writing(j) /\ j.pc = "recompute" /\ ~ j.overtaken
<1> DEFINE j == Started(days, heal, cached)
<1>1. /\ DOMAIN j = Fields /\ j.pc = "recompute" /\ j.todo = days /\ j.days = days /\ j.boards = <<>>
      /\ j.heal = heal /\ j.cached = cached /\ j.locked = FALSE /\ j.overtaken = FALSE
  BY DEF Started, Idle, Fields
<1>2. <<>> \in Seq(AllBoards) /\ Len(<<>>) = 0 /\ 1 .. 0 - 1 = {}
  OBVIOUS
<1> HIDE DEF j
<1>3. JobTyped(j)
  BY <1>1, <1>2 DEF JobTyped, Steps
<1>4. Fits(j) /\ ~ Writing(j)
  BY <1>1, <1>2 DEF Fits, Writing, Ladder
<1> QED BY <1>1, <1>3, <1>4 DEF j

LEMMA RenewingFits ==
  ASSUME NEW days, days \subseteq Days, days # {}, NEW heal \in 0 .. PerNight
  PROVE  LET j == Renewing(days, heal)
         IN /\ JobTyped(j) /\ Fits(j) /\ ~ Writing(j) /\ j.pc = "rank" /\ ~ j.overtaken
            /\ Waiting(j) = Range(BoardsOf(days))
<1> DEFINE j == Renewing(days, heal)
           bs == BoardsOf(days)
<1>1. /\ DOMAIN j = Fields /\ j.pc = "rank" /\ j.todo = {} /\ j.days = {} /\ j.boards = bs
      /\ j.heal = heal /\ j.cached = TRUE /\ j.locked = FALSE /\ j.overtaken = FALSE
  BY DEF Renewing, Idle, Fields
<1>2. bs \in Seq(AllBoards) /\ Ladder(bs) /\ bs # <<>> /\ Head(bs)[1] = "student"
  BY BoardsListed
<1> HIDE DEF j, bs
<1>3. JobTyped(j)
  BY <1>1, <1>2 DEF JobTyped, Steps
<1>4. Fits(j) /\ ~ Writing(j) /\ Waiting(j) = Range(bs)
  BY <1>1, <1>2 DEF Fits, Writing, Waiting
<1> QED BY <1>1, <1>3, <1>4 DEF j, bs

-----------------------------------------------------------------------------
(* A step of one job that changes neither rows nor boards.                 *)
JobOK(j) ==
    /\ JobTyped(j) /\ Fits(j)
    /\ Writing(j) => /\ "status" \notin env => Whole(Head(j.boards)[1], j.found)
                     /\ Quiet => Follows(Head(j.boards), j.found, row, active)

LEMMA JobsAreOK ==
  ASSUME Kept, NEW p \in Procs
  PROVE  JobOK(proc[p])
  BY DEF Kept, JobOK, AllThere, Followed

LEMMA JobStep ==
  ASSUME Kept, DOMAIN proc = Procs, NEW p \in Procs, NEW j, proc' = [proc EXCEPT ![p] = j],
         UNCHANGED <<row, active, board, env>>,
         JobOK(j), j.overtaken => proc[p].overtaken,
         j.pc = "idle" \/ ~ At(p, "idle") \/ "overlap" \in env \/ Alone,
         Quiet => \A b \in Waiting(proc[p]) : b \in Waiting(j) \/ Follows(b, board[b], row, active)
  PROVE  Kept'
<1>1. proc'[p] = j /\ DOMAIN proc' = Procs /\ \A q \in Procs : q # p => proc'[q] = proc[q]
  OBVIOUS
<1>2. \A q \in Procs : JobOK(proc[q]) /\ JobOK(proc'[q])
  BY <1>1, JobsAreOK
<1>3. \A q \in Procs : JobTyped(proc'[q]) /\ Fits(proc'[q])
  BY <1>2 DEF JobOK
<1>4. AllThere'
  BY <1>2 DEF Kept, AllThere, JobOK
<1>5. OneJob'
  <2> SUFFICES ASSUME "overlap" \notin env
               PROVE  /\ \A q, r \in Procs : proc'[q].pc = "idle" \/ proc'[r].pc = "idle" \/ q = r
                      /\ \A q \in Procs : ~ proc'[q].overtaken
    BY DEF OneJob, At
  <2>1. /\ \A q, r \in Procs : proc[q].pc = "idle" \/ proc[r].pc = "idle" \/ q = r
        /\ \A q \in Procs : ~ proc[q].overtaken
    BY DEF Kept, OneJob, At
  <2>2. j.pc = "idle" \/ proc[p].pc # "idle" \/ \A q \in Procs : proc[q].pc = "idle"
    BY DEF At, Alone
  <2> QED BY <1>1, <2>1, <2>2
<1>6. BoardsRanked'
  BY DEF Kept, BoardsRanked
<1>7. Followed'
  <2> SUFFICES ASSUME Quiet
               PROVE  /\ \A b \in AllBoards : Follows(b, board[b], row, active) \/
                                               \E q \in Procs : b \in Waiting(proc'[q])
                      /\ \A q \in Procs : Writing(proc'[q]) =>
                            Follows(Head(proc'[q].boards), proc'[q].found, row, active)
    BY DEF Followed, Quiet
  <2>1. \A b \in AllBoards : Follows(b, board[b], row, active) \/ \E q \in Procs : b \in Waiting(proc[q])
    BY DEF Kept, Followed
  <2>2. \A b \in AllBoards : Follows(b, board[b], row, active) \/ \E q \in Procs : b \in Waiting(proc'[q])
    BY <1>1, <2>1
  <2> QED BY <1>2, <2>2 DEF JobOK
<1> QED BY <1>3, <1>4, <1>5, <1>6, <1>7 DEF Kept

(* A job starts, or goes on to the days it heals. *)
LEMMA StartKeeps ==
  ASSUME Kept, DOMAIN proc = Procs, NEW p \in Procs, NEW days, days \subseteq Days, days # {},
         NEW heal \in 0 .. PerNight, NEW cached \in BOOLEAN, Job(p, days, heal, cached),
         UNCHANGED <<row, active, board, env>>,
         \/ At(p, "idle") /\ ("overlap" \in env \/ Alone)
         \/ At(p, "heal")
  PROVE  Kept' /\ \A q \in Procs : JobTyped(proc'[q])
<1> DEFINE j == Started(days, heal, cached)
<1>1. proc' = [proc EXCEPT ![p] = j]
  BY DEF Job, Started
<1>2. JobOK(j) /\ ~ j.overtaken
  BY StartedFits DEF JobOK
<1> HIDE DEF j
<1>3. Waiting(proc[p]) = {}
  BY DEF At, Waiting
<1>4. j.pc = "idle" \/ ~ At(p, "idle") \/ "overlap" \in env \/ Alone
  BY DEF At
<1>5. Kept'
  BY <1>1, <1>2, <1>3, <1>4, JobStep
<1> QED BY <1>5 DEF Kept

(* A recompute of a day changes the rows of that day only. *)
LEMMA OtherPeriods ==
  ASSUME NEW b \in AllBoards, NEW d, ~ (b[2].from <= d /\ d <= b[2].to), NEW rows, NEW others,
         DOMAIN rows \cup {d} = DOMAIN others \cup {d}, \A e \in DOMAIN rows \ {d} : rows[e] = others[e]
  PROVE  /\ RowsIn(rows, b[2]) = RowsIn(others, b[2])
         /\ Entry(rows, b[2], 0) = Entry(others, b[2], 0)
         /\ CampusesOf(rows, b[2]) = CampusesOf(others, b[2])
<1>1. b[2].from <= b[2].to /\ b[2].to \in Nat
  <2>1. PICK e \in Days, k \in 1 .. 3 : b[2] = PeriodsOf(e, Week, Month)[k]
    BY BoardParts
  <2>2. b[2].from \in Nat /\ b[2].to \in Nat /\ b[2].from <= e /\ e <= b[2].to /\ e \in Nat
    BY <2>1, PeriodOfDay, DaysFinite
  <2> QED BY <2>2
<1>2. /\ RowsIn(rows, b[2]) = RowsIn(others, b[2])
      /\ \A e \in RowsIn(rows, b[2]) : rows[e] = others[e]
  BY DEF RowsIn
<1>3. Entry(rows, b[2], 0) = Entry(others, b[2], 0)
  BY <1>2, EntryOfPeriod
<1>4. b[2].to # d
  BY <1>1
<1>5. /\ b[2].to \in DOMAIN rows <=> b[2].to \in DOMAIN others
      /\ b[2].to \in DOMAIN rows => rows[b[2].to] = others[b[2].to]
  BY <1>4
<1>6. CampusesOf(rows, b[2]) = CampusesOf(others, b[2])
  BY <1>2, <1>5 DEF CampusesOf
<1> QED BY <1>2, <1>3, <1>6

LEMMA FollowsAfter ==
  ASSUME NEW b \in AllBoards, NEW d, ~ (b[2].from <= d /\ d <= b[2].to), NEW present,
         NEW all, NEW later,
         \A s \in present : /\ DOMAIN all[s] \cup {d} = DOMAIN later[s] \cup {d}
                            /\ \A e \in DOMAIN all[s] \ {d} : all[s][e] = later[s][e],
         NEW rows, Follows(b, rows, all, present)
  PROVE  Follows(b, rows, later, present)
<1>1. ASSUME NEW s \in present
      PROVE  /\ RowsIn(all[s], b[2]) = RowsIn(later[s], b[2])
             /\ Entry(all[s], b[2], 0) = Entry(later[s], b[2], 0)
             /\ CampusesOf(all[s], b[2]) = CampusesOf(later[s], b[2])
  BY OtherPeriods
<1>2. RankedOf(all, present, b[2]) = RankedOf(later, present, b[2])
  BY <1>1 DEF RankedOf
<1>3. Now(all, present, b[2]) = Now(later, present, b[2])
  BY <1>1, <1>2 DEF Now, RankedOf
<1>4. \A s \in DOMAIN Now(all, present, b[2]) : CampusesOf(all[s], b[2]) = CampusesOf(later[s], b[2])
  BY <1>1 DEF Now, RankedOf
<1> QED BY <1>3, <1>4 DEF Follows

LEMMA EarliestDay ==
  ASSUME NEW todo, todo \subseteq Days, todo # {}
  PROVE  (CHOOSE e \in todo : \A f \in todo : e <= f) \in todo
<1>1. IsFiniteSet(todo)
  BY DaysFinite, FS_Subset
<1>2. todo \subseteq Int
  BY DaysFinite
<1>3. \E e \in todo : \A f \in todo : e <= f
  BY <1>1, <1>2, FiniteMin
<1> QED BY <1>3

(* What becomes of a job that has recomputed day d. *)
Recomputed(job, d) ==
    LET left == job.todo \ {d}
    IN IF left # {} THEN [job EXCEPT !.todo = left]
       ELSE IF job.cached THEN [job EXCEPT !.todo = {}, !.pc = "aggregate"]
       ELSE Renewing(job.days, job.heal)

LEMMA RecomputedFits ==
  ASSUME NEW job, JobTyped(job), Fits(job), job.pc = "recompute", NEW d \in job.todo
  PROVE  LET j == Recomputed(job, d)
         IN /\ JobTyped(j) /\ Fits(j) /\ ~ Writing(j) /\ j.pc # "idle"
            /\ j.overtaken => job.overtaken
            /\ Waiting(j) = Waiting(job) /\ Waiting(job) = Range(BoardsOf(job.days))
            /\ d \in job.days /\ job.days \subseteq Days
<1> DEFINE left == job.todo \ {d}
           more == [job EXCEPT !.todo = left]
           next == [job EXCEPT !.todo = {}, !.pc = "aggregate"]
           j == Recomputed(job, d)
<1>1. job.days \subseteq Days /\ job.days # {} /\ d \in job.days /\ Waiting(job) = Range(BoardsOf(job.days))
  BY DEF JobTyped, Fits, Waiting
<1>2. CASE left # {}
  <2>1. j = more
    BY <1>2 DEF Recomputed
  <2>2. /\ DOMAIN more = Fields /\ more.pc = "recompute" /\ more.todo = left /\ more.days = job.days
        /\ more.boards = job.boards /\ more.heal = job.heal /\ more.cached = job.cached
        /\ more.locked = job.locked /\ more.overtaken = job.overtaken
    BY DEF JobTyped, Fields
  <2> HIDE DEF more, j
  <2>3. JobTyped(more)
    BY <2>2 DEF JobTyped
  <2>4. Fits(more) /\ ~ Writing(more) /\ Waiting(more) = Range(BoardsOf(job.days))
    BY <1>2, <2>2 DEF Fits, Writing, Waiting
  <2> QED BY <1>1, <2>1, <2>2, <2>3, <2>4 DEF j
<1>3. CASE left = {} /\ job.cached
  <2>1. j = next
    BY <1>3 DEF Recomputed
  <2>2. /\ DOMAIN next = Fields /\ next.pc = "aggregate" /\ next.todo = {} /\ next.days = job.days
        /\ next.boards = job.boards /\ next.heal = job.heal /\ next.cached = job.cached
        /\ next.locked = job.locked /\ next.overtaken = job.overtaken
    BY DEF JobTyped, Fields
  <2> HIDE DEF next, j
  <2>3. JobTyped(next)
    BY <2>2 DEF JobTyped, Steps
  <2>4. Fits(next) /\ ~ Writing(next) /\ Waiting(next) = Range(BoardsOf(job.days))
    BY <1>1, <2>2 DEF Fits, Writing, Waiting
  <2> QED BY <1>1, <2>1, <2>2, <2>3, <2>4 DEF j
<1>4. CASE left = {} /\ ~ job.cached
  <2>1. j = Renewing(job.days, job.heal)
    BY <1>4 DEF Recomputed
  <2>2. job.heal \in 0 .. PerNight
    BY DEF JobTyped
  <2> QED BY <1>1, <2>1, <2>2, RenewingFits
<1> QED BY <1>2, <1>3, <1>4

LEMMA RecomputeKeeps ==
  ASSUME TypeOK, Kept, NEW p \in Procs, RecomputeDay(p)
  PROVE  Kept'
<1> DEFINE d == CHOOSE e \in proc[p].todo : \A f \in proc[p].todo : e <= f
           j == Recomputed(proc[p], d)
<1>1. JobTyped(proc[p]) /\ Fits(proc[p]) /\ proc[p].pc = "recompute"
  BY DEF Kept, RecomputeDay, At
<1>2. d \in proc[p].todo
  BY <1>1, EarliestDay DEF JobTyped, Fits
<1>3. DOMAIN proc = Procs /\ DOMAIN row = Students
  BY DEF TypeOK
<1>4. proc' = [proc EXCEPT ![p] = j] /\ UNCHANGED <<active, board, env>>
  BY <1>3 DEF RecomputeDay, Renew, Renewing, Recomputed, inputs, counts
<1>5. \A s \in Students :
         IF s \notin active THEN row'[s] = row[s]
         ELSE /\ DOMAIN row'[s] = DOMAIN row[s] \cup {d}
              /\ \A e \in DOMAIN row[s] \ {d} : row'[s][e] = row[s][e]
  <2> SUFFICES ASSUME NEW s \in Students
               PROVE  IF s \notin active THEN row'[s] = row[s]
                      ELSE /\ DOMAIN row'[s] = DOMAIN row[s] \cup {d}
                           /\ \A e \in DOMAIN row[s] \ {d} : row'[s][e] = row[s][e]
    OBVIOUS
  <2>1. row'[s] = IF s \notin active THEN row[s]
                  ELSE [e \in DOMAIN row[s] \cup {d} |->
                          IF e = d THEN Result(s, d, mirror[s], assigned[d], rules) ELSE row[s][e]]
    BY DEF RecomputeDay
  <2> HIDE DEF d
  <2> QED BY <2>1
<1> HIDE DEF d
<1>6. /\ JobTyped(j) /\ Fits(j) /\ ~ Writing(j) /\ j.pc # "idle"
      /\ j.overtaken => proc[p].overtaken
      /\ Waiting(j) = Waiting(proc[p]) /\ Waiting(proc[p]) = Range(BoardsOf(proc[p].days))
      /\ d \in proc[p].days /\ proc[p].days \subseteq Days
  BY <1>1, <1>2, RecomputedFits
<1> HIDE DEF j
<1>7. proc'[p] = j /\ \A q \in Procs : q # p => proc'[q] = proc[q]
  BY <1>3, <1>4
<1>8. \A q \in Procs : JobTyped(proc'[q]) /\ Fits(proc'[q])
  BY <1>6, <1>7 DEF Kept
<1>9. AllThere'
  <2> SUFFICES ASSUME "status" \notin env
               PROVE  /\ active = Students
                      /\ \A s, t \in Students : DOMAIN row'[s] = DOMAIN row'[t]
                      /\ \A b \in AllBoards : Whole(b[1], board[b])
                      /\ \A q \in Procs : Writing(proc'[q]) => Whole(Head(proc'[q].boards)[1], proc'[q].found)
    BY <1>4 DEF AllThere
  <2>1. /\ active = Students
        /\ \A s, t \in Students : DOMAIN row[s] = DOMAIN row[t]
        /\ \A b \in AllBoards : Whole(b[1], board[b])
        /\ \A q \in Procs : Writing(proc[q]) => Whole(Head(proc[q].boards)[1], proc[q].found)
    BY DEF Kept, AllThere
  <2>2. \A s \in Students : DOMAIN row'[s] = DOMAIN row[s] \cup {d}
    BY <1>5, <2>1
  <2> QED BY <1>6, <1>7, <2>1, <2>2
<1>10. OneJob'
  <2> SUFFICES ASSUME "overlap" \notin env
               PROVE  /\ \A q, r \in Procs : proc'[q].pc = "idle" \/ proc'[r].pc = "idle" \/ q = r
                      /\ \A q \in Procs : ~ proc'[q].overtaken
    BY <1>4 DEF OneJob, At
  <2>1. /\ \A q, r \in Procs : proc[q].pc = "idle" \/ proc[r].pc = "idle" \/ q = r
        /\ \A q \in Procs : ~ proc[q].overtaken
    BY DEF Kept, OneJob, At
  <2> QED BY <1>1, <1>6, <1>7, <2>1
<1>11. BoardsRanked'
  BY <1>4 DEF Kept, BoardsRanked
<1>12. Followed'
  <2> SUFFICES ASSUME Quiet
               PROVE  /\ \A b \in AllBoards : Follows(b, board[b], row', active) \/
                                               \E q \in Procs : b \in Waiting(proc'[q])
                      /\ \A q \in Procs : Writing(proc'[q]) =>
                            Follows(Head(proc'[q].boards), proc'[q].found, row', active)
    BY <1>4 DEF Followed, Quiet
  <2>1. \A q \in Procs : q # p => proc[q].pc = "idle"
    BY <1>1 DEF Quiet, Kept, OneJob, At
  <2>2. \A q \in Procs : ~ Writing(proc'[q])
    BY <1>6, <1>7, <2>1 DEF Writing
  <2>3. ASSUME NEW b \in AllBoards
        PROVE  Follows(b, board[b], row', active) \/ \E q \in Procs : b \in Waiting(proc'[q])
    <3>1. CASE b[2].from <= d /\ d <= b[2].to
      <4>1. b \in Range(BoardsOf(proc[p].days))
        BY <1>6, <3>1, BoardsListed
      <4> QED BY <1>6, <1>7, <4>1
    <3>2. CASE \E q \in Procs : b \in Waiting(proc[q])
      BY <1>6, <1>7, <3>2
    <3>3. CASE ~ (b[2].from <= d /\ d <= b[2].to) /\ Follows(b, board[b], row, active)
      <4>1. active \subseteq Students
        BY DEF TypeOK
      <4>2. \A s \in active : /\ DOMAIN row[s] \cup {d} = DOMAIN row'[s] \cup {d}
                              /\ \A e \in DOMAIN row[s] \ {d} : row[s][e] = row'[s][e]
        BY <1>5, <4>1
      <4> QED BY <3>3, <4>2, FollowsAfter
    <3> QED BY <3>1, <3>2, <3>3 DEF Kept, Followed
  <2> QED BY <2>2, <2>3
<1> QED BY <1>8, <1>9, <1>10, <1>11, <1>12 DEF Kept

LEMMA ReadKeeps ==
  ASSUME TypeOK, Kept, NEW p \in Procs, ReadStatuses(p)
  PROVE  Kept'
<1> DEFINE job == proc[p]
           read == [s \in Students |-> Streak(row[s], Today, 1)]
           j == [job EXCEPT !.pc = "cache", !.found = read]
<1>1. JobTyped(job) /\ Fits(job) /\ job.pc = "aggregate" /\ DOMAIN proc = Procs
  BY DEF Kept, ReadStatuses, At, TypeOK
<1>2. proc' = [proc EXCEPT ![p] = j] /\ UNCHANGED <<row, active, board, env>>
  BY <1>1 DEF ReadStatuses, inputs, counts
<1>3. read \in [Students -> Nat]
  BY StreakTyped DEF TypeOK
<1>4. /\ DOMAIN j = Fields /\ j.pc = "cache" /\ j.todo = job.todo /\ j.days = job.days
      /\ j.boards = job.boards /\ j.heal = job.heal /\ j.cached = job.cached /\ j.found = read
      /\ j.locked = job.locked /\ j.overtaken = job.overtaken
  BY <1>1 DEF JobTyped, Fields
<1> HIDE DEF j, read
<1>5. JobTyped(j)
  BY <1>1, <1>4 DEF JobTyped, Steps
<1>6. Fits(j) /\ ~ Writing(j) /\ Waiting(j) = Waiting(job)
  BY <1>1, <1>3, <1>4 DEF Fits, Writing, Waiting
<1>7. JobOK(j)
  BY <1>5, <1>6 DEF JobOK
<1>8. ~ At(p, "idle")
  BY <1>1 DEF At
<1> HIDE DEF job
<1>9. Waiting(j) = Waiting(proc[p]) /\ (j.overtaken => proc[p].overtaken) /\ DOMAIN proc = Procs
  BY <1>1, <1>4, <1>6 DEF job
<1> QED BY <1>2, <1>7, <1>8, <1>9, JobStep

LEMMA WriteKeeps ==
  ASSUME TypeOK, Kept, NEW p \in Procs, WriteAggregates(p)
  PROVE  Kept' /\ streak' \in [Students -> Nat]
<1> DEFINE job == proc[p]
           j == Renewing(job.days, job.heal)
<1>1. JobTyped(job) /\ Fits(job) /\ job.pc = "cache" /\ DOMAIN proc = Procs
  BY DEF Kept, WriteAggregates, At, TypeOK
<1>2. proc' = [proc EXCEPT ![p] = j] /\ UNCHANGED <<row, active, board, env>> /\ streak' = job.found
  BY <1>1 DEF WriteAggregates, inputs, counts, Renew, Renewing
<1>3. job.days \subseteq Days /\ job.days # {} /\ job.heal \in 0 .. PerNight /\ job.found \in [Students -> Nat]
  BY <1>1 DEF JobTyped, Fits
<1>4. /\ JobTyped(j) /\ Fits(j) /\ ~ Writing(j) /\ j.pc = "rank" /\ ~ j.overtaken
      /\ Waiting(j) = Range(BoardsOf(job.days))
  BY <1>3, RenewingFits
<1>5. Waiting(job) = Range(BoardsOf(job.days))
  BY <1>1 DEF Waiting
<1> HIDE DEF j
<1>6. JobOK(j)
  BY <1>4 DEF JobOK
<1>7. ~ At(p, "idle")
  BY <1>1 DEF At
<1>8. Waiting(j) = Waiting(proc[p])
  BY <1>4, <1>5
<1>9. Kept'
  BY <1>1, <1>2, <1>4, <1>6, <1>7, <1>8, JobStep
<1> QED BY <1>2, <1>3, <1>9

LEMMA ResetKeeps ==
  ASSUME TypeOK, Kept, NEW p \in Procs, NEW d \in Days, Reset(p, d)
  PROVE  Kept'
<1> DEFINE j == Renewing({d}, proc[p].heal)
<1>1. JobTyped(proc[p]) /\ DOMAIN proc = Procs /\ proc[p].pc = "idle"
  BY DEF Kept, TypeOK, Reset, MayStart, At
<1>2. proc' = [proc EXCEPT ![p] = j] /\ UNCHANGED <<row, active, board, env>>
  BY DEF Reset, inputs, counts, Renew, Renewing
<1>3. JobTyped(j) /\ Fits(j) /\ ~ Writing(j) /\ ~ j.overtaken
  <2>1. proc[p].heal \in 0 .. PerNight
    BY <1>1 DEF JobTyped
  <2> QED BY <2>1, RenewingFits
<1>4. "overlap" \in env \/ Alone
  BY DEF Reset, MayStart
<1>5. Waiting(proc[p]) = {}
  BY <1>1 DEF Waiting
<1> HIDE DEF j
<1>6. JobOK(j)
  BY <1>3 DEF JobOK
<1> QED BY <1>1, <1>2, <1>3, <1>4, <1>5, <1>6, JobStep

(* A job that ends, or dies where jobs may. *)
LEMMA EndKeeps ==
  ASSUME Kept, DOMAIN proc = Procs, NEW p \in Procs, proc' = [proc EXCEPT ![p] = Idle],
         UNCHANGED <<row, active, board, env>>, Quiet => Waiting(proc[p]) = {}
  PROVE  Kept'
<1>1. JobOK(Idle) /\ ~ Idle.overtaken /\ Idle.pc = "idle"
  BY IdleFits DEF JobOK
<1> HIDE DEF Idle
<1> QED BY <1>1, JobStep

LEMMA HealKeeps ==
  ASSUME TypeOK, Kept, NEW p \in Procs, Heal(p)
  PROVE  Kept'
<1> DEFINE days == Oldest(Superseded(1), proc[p].heal)
<1>1. DOMAIN proc = Procs /\ At(p, "heal") /\ Waiting(proc[p]) = {} /\ UNCHANGED <<row, active, board, env>>
  BY DEF TypeOK, Heal, At, Waiting, inputs, counts
<1>2. IF days = {} THEN proc' = [proc EXCEPT ![p] = Idle] ELSE Job(p, days, 0, TRUE)
  BY DEF Heal
<1>3. days \subseteq Days
  BY DEF Oldest, Superseded, Days
<1>4. 0 \in 0 .. PerNight
  BY StandingsAssumption
<1> HIDE DEF days
<1>5. CASE days = {}
  BY <1>1, <1>2, <1>5, EndKeeps
<1>6. CASE days # {}
  BY <1>1, <1>2, <1>3, <1>4, <1>6, StartKeeps
<1> QED BY <1>5, <1>6

LEMMA CrashKeeps ==
  ASSUME TypeOK, Kept, NEW p \in Procs, Crash(p)
  PROVE  Kept'
<1>1. DOMAIN proc = Procs /\ proc' = [proc EXCEPT ![p] = Idle] /\ UNCHANGED <<row, active, board, env>>
  BY DEF TypeOK, Crash, inputs
<1>2. ~ Quiet
  BY DEF Crash, Quiet
<1> QED BY <1>1, <1>2, EndKeeps

LEMMA StatusKeeps ==
  ASSUME TypeOK, Kept, NEW s \in Students, SetStatus(s)
  PROVE  Kept'
<1>1. "status" \in env /\ UNCHANGED <<row, board, proc, env>>
  BY DEF SetStatus
<1> QED BY <1>1 DEF Kept, AllThere, OneJob, At, BoardsRanked, Followed, Quiet

LEMMA DeleteKeeps ==
  ASSUME TypeOK, Kept, NEW p \in Procs, Delete(p)
  PROVE  Kept'
<1> DEFINE job == proc[p]
           b == Head(job.boards)
           locked == board[b] # NoBoard /\ \A q \in Deleting(b) : ~ proc[q].locked
           j == [job EXCEPT !.pc = "create", !.locked = locked]
<1>1. JobTyped(job) /\ Fits(job) /\ JobOK(job) /\ job.pc = "replace" /\ DOMAIN proc = Procs
  BY JobsAreOK DEF Kept, Delete, At, TypeOK
<1>2. proc' = [proc EXCEPT ![p] = j] /\ UNCHANGED <<row, active, board, env>>
  BY <1>1 DEF Delete, inputs, counts
<1>3. locked \in BOOLEAN
  OBVIOUS
<1> HIDE DEF locked
<1>4. /\ DOMAIN j = Fields /\ j.pc = "create" /\ j.todo = job.todo /\ j.days = job.days
      /\ j.boards = job.boards /\ j.heal = job.heal /\ j.cached = job.cached /\ j.found = job.found
      /\ j.entries = job.entries /\ j.locked = locked /\ j.overtaken = job.overtaken
  BY <1>1 DEF JobTyped, Fields
<1> HIDE DEF j
<1>5. JobTyped(j)
  BY <1>1, <1>3, <1>4 DEF JobTyped, Steps
<1>6. Fits(j) /\ Writing(j) /\ Writing(job) /\ Waiting(j) = Waiting(job)
  BY <1>1, <1>4 DEF Fits, Writing, Waiting
<1>7. JobOK(j)
  BY <1>1, <1>4, <1>5, <1>6 DEF JobOK
<1>8. ~ At(p, "idle")
  BY <1>1 DEF At
<1> HIDE DEF job
<1>9. Waiting(j) = Waiting(proc[p]) /\ (j.overtaken => proc[p].overtaken) /\ DOMAIN proc = Procs
  BY <1>1, <1>4, <1>6 DEF job
<1> QED BY <1>2, <1>7, <1>8, <1>9, JobStep

(* buildLeaderboard ranks the students who have rows in the period.        *)
RowsTyped ==
    /\ active \subseteq Students
    /\ \A s \in Students : DOMAIN row[s] \subseteq Days /\ row[s] \in [DOMAIN row[s] -> Results]
    /\ streak \in [Students -> Nat]
AllAlike == active = Students /\ \A s, t \in Students : DOMAIN row[s] = DOMAIN row[t]

LEMMA EntriesNow ==
  ASSUME RowsTyped, NEW period
  PROVE  LET e == EntriesOf(period)
         IN /\ IsEntries(e) /\ DOMAIN e = RankedOf(row, active, period)
            /\ \A s \in DOMAIN e : SameFigures(e[s], Now(row, active, period)[s])
            /\ AllAlike => DOMAIN e \in {{}, Students}
<1> DEFINE e == EntriesOf(period)
<1>1. DOMAIN e = RankedOf(row, active, period) /\ DOMAIN e \subseteq Students
  BY DEF EntriesOf, Ranked, RankedOf, RowsTyped
<1>2. \A s \in DOMAIN e : e[s] = Entry(row[s], period, streak[s])
  BY DEF EntriesOf
<1> HIDE DEF e
<1>3. \A s \in DOMAIN e : e[s] \in EntryFigures
  <2> SUFFICES ASSUME NEW s \in DOMAIN e PROVE e[s] \in EntryFigures
    OBVIOUS
  <2>1. DOMAIN row[s] \subseteq Days /\ streak[s] \in Nat /\ row[s] \in [DOMAIN row[s] -> Results]
    BY <1>1 DEF RowsTyped
  <2>2. \A d \in DOMAIN row[s] : row[s][d] \in Results
    BY <2>1
  <2> QED BY <1>2, <2>1, <2>2, EntryTyped
<1>4. IsEntries(e)
  BY <1>1, <1>3 DEF IsEntries
<1>5. ASSUME NEW s \in DOMAIN e PROVE SameFigures(e[s], Now(row, active, period)[s])
  <2>1. Now(row, active, period)[s] = Entry(row[s], period, 0)
    BY <1>1 DEF Now
  <2>2. e[s] = Entry(row[s], period, streak[s])
    BY <1>2
  <2> QED BY <2>1, <2>2, EntryBut DEF SameFigures
<1>6. ASSUME AllAlike PROVE DOMAIN e \in {{}, Students}
  <2>1. active = Students /\ \A s, t \in Students : DOMAIN row[s] = DOMAIN row[t]
    BY <1>6 DEF AllAlike
  <2>2. \A s, t \in Students : RowsIn(row[s], period) = RowsIn(row[t], period)
    BY <2>1 DEF RowsIn
  <2>3. DOMAIN e = {s \in Students : RowsIn(row[s], period) # {}}
    BY <1>1, <2>1 DEF RankedOf
  <2> QED BY <2>2, <2>3
<1> QED BY <1>1, <1>4, <1>5, <1>6 DEF e

LEMMA RankKeeps ==
  ASSUME TypeOK, Kept, NEW p \in Procs, Rank(p)
  PROVE  Kept'
<1> DEFINE job == proc[p]
           period == Head(job.boards)[2]
           entries == EntriesOf(period)
<1>1. JobTyped(job) /\ Fits(job) /\ job.pc = "rank" /\ DOMAIN proc = Procs
  BY DEF Kept, Rank, At, TypeOK
<1>2. UNCHANGED <<row, active, board, env>>
  BY DEF Rank, inputs, counts
<1>3. PICK campus : /\ \A s \in DOMAIN entries : campus[s] \in CampusesOf(row[s], period)
                    /\ proc' = [proc EXCEPT ![p] =
                          [job EXCEPT !.pc = "replace", !.entries = entries,
                                      !.found = StudentBoard(entries, campus)]]
  <2>1. DOMAIN entries = Ranked(period)
    BY DEF EntriesOf
  <2> QED BY <2>1 DEF Rank
<1>4. /\ IsEntries(entries) /\ DOMAIN entries = RankedOf(row, active, period)
      /\ \A s \in DOMAIN entries : SameFigures(entries[s], Now(row, active, period)[s])
      /\ "status" \notin env => DOMAIN entries \in {{}, Students}
  <2>1. RowsTyped /\ ("status" \notin env => AllAlike)
    BY DEF TypeOK, RowsTyped, Kept, AllThere, AllAlike
  <2> QED BY <2>1, EntriesNow
<1> HIDE DEF entries
<1> DEFINE r == StudentBoard(entries, campus)
           j == [job EXCEPT !.pc = "replace", !.entries = entries, !.found = r]
<1>5. proc' = [proc EXCEPT ![p] = j]
  BY <1>3
<1>6. /\ DOMAIN r = DOMAIN entries
      /\ \A s \in DOMAIN entries : r[s].figures = entries[s] /\ r[s].campus = campus[s]
      /\ IsRanking("student", r)
  BY <1>4, StudentBoardIs
<1> HIDE DEF r
<1>7. /\ DOMAIN j = Fields /\ j.pc = "replace" /\ j.todo = job.todo /\ j.days = job.days
      /\ j.boards = job.boards /\ j.heal = job.heal /\ j.cached = job.cached /\ j.found = r
      /\ j.entries = entries /\ j.locked = job.locked /\ j.overtaken = job.overtaken
  BY <1>1 DEF JobTyped, Fields
<1> HIDE DEF j
<1>8. JobTyped(j)
  BY <1>1, <1>7 DEF JobTyped, Steps
<1>9. job.boards # <<>> /\ Head(job.boards)[1] = "student"
  BY <1>1 DEF Fits
<1>10. Fits(j) /\ Writing(j) /\ Waiting(j) = Waiting(job)
  BY <1>1, <1>4, <1>6, <1>7, <1>9 DEF Fits, Writing, Waiting
<1>11. "status" \notin env => Whole(Head(j.boards)[1], j.found)
  BY <1>4, <1>6, <1>7, <1>9 DEF Whole, Everyone
<1>12. Follows(Head(j.boards), j.found, row, active)
  <2>1. DOMAIN Now(row, active, period) = DOMAIN entries
    BY <1>4 DEF Now
  <2>2. \A s \in DOMAIN entries : /\ SameFigures(r[s].figures, Now(row, active, period)[s])
                                  /\ r[s].campus \in CampusesOf(row[s], period)
    BY <1>3, <1>4, <1>6
  <2> QED BY <1>6, <1>7, <1>9, <2>1, <2>2 DEF Follows
<1>13. JobOK(j)
  BY <1>8, <1>10, <1>11, <1>12 DEF JobOK
<1>14. ~ At(p, "idle")
  BY <1>1 DEF At
<1> HIDE DEF job
<1>15. Waiting(j) = Waiting(proc[p]) /\ (j.overtaken => proc[p].overtaken) /\ DOMAIN proc = Procs
  BY <1>1, <1>7, <1>10 DEF job
<1> QED BY <1>2, <1>5, <1>13, <1>14, <1>15, JobStep

(* What becomes of a job that has written a board. *)
WentOn(job) ==
    LET left == Tail(job.boards)
        next == [Idle EXCEPT !.boards = left, !.heal = job.heal]
    IN IF left = <<>>
       THEN IF job.heal > 0 THEN [next EXCEPT !.pc = "heal"] ELSE Idle
       ELSE IF Head(left)[1] = "student" THEN [next EXCEPT !.pc = "rank"]
       ELSE [next EXCEPT !.pc = "replace", !.found = SquadBoard(job.entries)]

LEMMA LadderDown ==
  ASSUME NEW bs \in Seq(AllBoards), bs # <<>>, Ladder(bs)
  PROVE  /\ Tail(bs) \in Seq(AllBoards) /\ Ladder(Tail(bs)) /\ Head(bs) \in AllBoards
         /\ Range(bs) = {Head(bs)} \cup Range(Tail(bs))
         /\ Tail(bs) # <<>> => /\ Head(Tail(bs)) \in AllBoards
                               /\ Head(Tail(bs))[1] # "student" =>
                                     Head(bs)[1] = "student" /\ Head(Tail(bs)) = <<"squad", Head(bs)[2]>>
<1> DEFINE t == Tail(bs)
           n == Len(bs)
<1>1. n \in Nat \ {0} /\ bs \in [1 .. n -> AllBoards]
  BY LenProperties, EmptySeq
<1>2. /\ Head(bs) = bs[1] /\ t \in Seq(AllBoards) /\ Len(t) = n - 1
      /\ \A i \in 1 .. n - 1 : t[i] = bs[i + 1]
  BY HeadTailProperties
<1>3. DOMAIN t = 1 .. n - 1 /\ DOMAIN bs = 1 .. n
  BY <1>1, <1>2, LenProperties
<1> HIDE DEF t, n
<1>4. Ladder(t)
  <2> SUFFICES ASSUME NEW i \in 1 .. Len(t) - 1
               PROVE  IF t[i][1] = "student" THEN t[i + 1] = <<"squad", t[i][2]>> ELSE t[i + 1][1] = "student"
    BY DEF Ladder
  <2>1. i \in 1 .. n - 1 /\ i + 1 \in 1 .. n - 1 /\ i + 1 \in 1 .. Len(bs) - 1
    BY <1>1, <1>2 DEF n
  <2>2. t[i] = bs[i + 1] /\ t[i + 1] = bs[i + 1 + 1]
    BY <1>2, <2>1
  <2> QED BY <2>1, <2>2 DEF Ladder
<1>5. Head(bs) \in AllBoards
  BY <1>1, <1>2
<1>6. Range(bs) = {Head(bs)} \cup Range(t)
  <2>1. \A x : x \in Range(bs) <=> \E i \in 1 .. n : x = bs[i]
    BY <1>3 DEF Range
  <2>2. \A x : x \in Range(t) <=> \E i \in 1 .. n - 1 : x = bs[i + 1]
    BY <1>2, <1>3 DEF Range
  <2>3. \A i \in 1 .. n : i = 1 \/ \E k \in 1 .. n - 1 : i = k + 1
    <3> SUFFICES ASSUME NEW i \in 1 .. n, i # 1 PROVE \E k \in 1 .. n - 1 : i = k + 1
      OBVIOUS
    <3>1. i - 1 \in 1 .. n - 1 /\ i = i - 1 + 1
      BY <1>1
    <3> QED BY <3>1
  <2>4. 1 \in 1 .. n /\ \A k \in 1 .. n - 1 : k + 1 \in 1 .. n
    BY <1>1
  <2> QED BY <1>2, <2>1, <2>2, <2>3, <2>4
<1>7. ASSUME t # <<>>
      PROVE  /\ Head(t) \in AllBoards
             /\ Head(t)[1] # "student" => Head(bs)[1] = "student" /\ Head(t) = <<"squad", Head(bs)[2]>>
  <2>1. Head(t) = t[1] /\ Len(t) # 0 /\ Len(t) \in Nat
    BY <1>2, <1>7, HeadTailProperties, EmptySeq, LenProperties
  <2>2. 1 \in 1 .. n - 1 /\ 1 \in 1 .. Len(bs) - 1
    BY <1>1, <1>2, <2>1 DEF n
  <2>3. Head(t) = bs[2] /\ bs[2] \in AllBoards
    BY <1>1, <1>2, <2>1, <2>2
  <2>4. IF bs[1][1] = "student" THEN bs[2] = <<"squad", bs[1][2]>> ELSE bs[2][1] = "student"
    BY <2>2 DEF Ladder
  <2> QED BY <1>2, <2>3, <2>4
<1> QED BY <1>2, <1>4, <1>5, <1>6, <1>7 DEF t

LEMMA WentOnFits ==
  ASSUME NEW job, JobTyped(job), Fits(job), Writing(job)
  PROVE  LET j == WentOn(job)
         IN /\ JobTyped(j) /\ Fits(j) /\ ~ j.overtaken /\ Waiting(j) = Range(Tail(job.boards))
            /\ Writing(j) => /\ Head(job.boards)[1] = "student"
                             /\ Head(j.boards) = <<"squad", Head(job.boards)[2]>>
                             /\ j.found = SquadBoard(job.entries) /\ IsEntries(job.entries)
<1> DEFINE left == Tail(job.boards)
           next == [Idle EXCEPT !.boards = left, !.heal = job.heal]
           heal == [next EXCEPT !.pc = "heal"]
           rank == [next EXCEPT !.pc = "rank"]
           squad == [next EXCEPT !.pc = "replace", !.found = SquadBoard(job.entries)]
           j == WentOn(job)
<1>1. job.boards \in Seq(AllBoards) /\ job.boards # <<>> /\ Ladder(job.boards) /\ job.heal \in 0 .. PerNight
  BY DEF JobTyped, Fits
<1>2. /\ left \in Seq(AllBoards) /\ Ladder(left)
      /\ left # <<>> /\ Head(left)[1] # "student" =>
            Head(job.boards)[1] = "student" /\ Head(left) = <<"squad", Head(job.boards)[2]>>
  BY <1>1, LadderDown
<1>3. /\ DOMAIN next = Fields /\ next.pc = "idle" /\ next.todo = {} /\ next.days = {} /\ next.boards = left
      /\ next.heal = job.heal /\ next.cached = TRUE /\ next.locked = FALSE /\ next.overtaken = FALSE
  BY DEF Idle, Fields
<1>4. j = IF left = <<>> THEN IF job.heal > 0 THEN heal ELSE Idle
          ELSE IF Head(left)[1] = "student" THEN rank ELSE squad
  BY DEF WentOn
<1> HIDE DEF next, left, j
<1>5. CASE left = <<>> /\ job.heal > 0
  <2>1. /\ DOMAIN heal = Fields /\ heal.pc = "heal" /\ heal.todo = {} /\ heal.days = {}
        /\ heal.boards = left /\ heal.heal = job.heal /\ heal.cached = TRUE /\ heal.locked = FALSE
        /\ heal.overtaken = FALSE
    BY <1>3 DEF Fields
  <2>2. Range(left) = {}
    <3>1. DOMAIN left = {}
      BY <1>5
    <3> QED BY <3>1 DEF Range
  <2> HIDE DEF heal
  <2>3. JobTyped(heal) /\ Fits(heal) /\ ~ Writing(heal) /\ Waiting(heal) = {}
    BY <1>1, <1>2, <2>1 DEF JobTyped, Steps, Fits, Writing, Waiting
  <2> QED BY <1>4, <1>5, <2>1, <2>2, <2>3 DEF j, left
<1>6. CASE left = <<>> /\ ~ job.heal > 0
  <2>1. Range(left) = {}
    <3>1. DOMAIN left = {}
      BY <1>6
    <3> QED BY <3>1 DEF Range
  <2> QED BY <1>4, <1>6, <2>1, IdleFits DEF j, left
<1>7. CASE left # <<>> /\ Head(left)[1] = "student"
  <2>1. /\ DOMAIN rank = Fields /\ rank.pc = "rank" /\ rank.todo = {} /\ rank.days = {}
        /\ rank.boards = left /\ rank.heal = job.heal /\ rank.cached = TRUE /\ rank.locked = FALSE
        /\ rank.overtaken = FALSE
    BY <1>3 DEF Fields
  <2> HIDE DEF rank
  <2>2. JobTyped(rank) /\ Fits(rank) /\ ~ Writing(rank) /\ Waiting(rank) = Range(left)
    BY <1>1, <1>2, <1>7, <2>1 DEF JobTyped, Steps, Fits, Writing, Waiting
  <2> QED BY <1>4, <1>7, <2>1, <2>2 DEF j, left
<1>8. CASE left # <<>> /\ Head(left)[1] # "student"
  <2>1. /\ DOMAIN squad = Fields /\ squad.pc = "replace" /\ squad.todo = {} /\ squad.days = {}
        /\ squad.boards = left /\ squad.heal = job.heal /\ squad.cached = TRUE /\ squad.locked = FALSE
        /\ squad.overtaken = FALSE /\ squad.found = SquadBoard(job.entries)
    BY <1>3 DEF Fields, Idle, next
  <2>2. Head(job.boards)[1] = "student" /\ Head(left) = <<"squad", Head(job.boards)[2]>>
    BY <1>2, <1>8
  <2>3. IsEntries(job.entries)
    BY <2>2 DEF Fits
  <2>4. IsRanking("squad", SquadBoard(job.entries))
    BY <2>3, SquadBoardIs
  <2>5. Head(left)[1] = "squad"
    BY <2>2
  <2> HIDE DEF squad
  <2>6. JobTyped(squad) /\ Fits(squad) /\ Writing(squad) /\ Waiting(squad) = Range(left)
    BY <1>1, <1>2, <1>8, <2>1, <2>4, <2>5 DEF JobTyped, Steps, Fits, Writing, Waiting
  <2> QED BY <1>4, <1>8, <2>1, <2>2, <2>3, <2>6 DEF j, left
<1> QED BY <1>5, <1>6, <1>7, <1>8

(* The squads' board ranked from the entries of the students'.             *)
LEMMA SquadsFollow ==
  ASSUME NEW b, b[1] = "student", NEW all, NEW present, NEW rows, Follows(b, rows, all, present),
         NEW e, IsEntries(e), DOMAIN rows = DOMAIN e, \A s \in DOMAIN e : rows[s].figures = e[s]
  PROVE  Follows(<<"squad", b[2]>>, SquadBoard(e), all, present)
<1> DEFINE now == Now(all, present, b[2])
           r == SquadBoard(e)
<1>1. DOMAIN e = DOMAIN now /\ \A s \in DOMAIN e : SameFigures(e[s], now[s])
  BY DEF Follows
<1>2. /\ DOMAIN r = {SquadOf[s] : s \in DOMAIN e}
      /\ \A q \in DOMAIN r : r[q].figures = AggregateSquad(MembersOf(e, q))
  BY SquadBoardIs
<1> HIDE DEF now, r
<1>3. DOMAIN r = {SquadOf[s] : s \in DOMAIN now}
  BY <1>1, <1>2
<1>4. ASSUME NEW q \in DOMAIN r
      PROVE  SameFigures(r[q].figures, AggregateSquad(MembersOf(now, q)))
  <2> DEFINE m == MembersOf(e, q)
             o == MembersOf(now, q)
  <2>1. DOMAIN m = {t \in DOMAIN e : SquadOf[t] = q} /\ \A t \in DOMAIN m : m[t] = e[t]
    BY DEF MembersOf
  <2>2. DOMAIN o = {t \in DOMAIN e : SquadOf[t] = q} /\ \A t \in DOMAIN o : o[t] = now[t]
    BY <1>1 DEF MembersOf
  <2> HIDE DEF m, o
  <2>3. IsFiniteSet(DOMAIN m) /\ \A t \in DOMAIN m : m[t].minute \in Int
    BY <2>1, EntriesMeasured, FS_Subset
  <2>4. DOMAIN m = DOMAIN o /\ \A t \in DOMAIN m : SameFigures(m[t], o[t])
    BY <1>1, <2>1, <2>2
  <2>5. SameFigures(AggregateSquad(m), AggregateSquad(o))
    BY <2>3, <2>4, SquadBut
  <2> QED BY <1>2, <2>5 DEF m, o
<1>5. <<"squad", b[2]>>[1] # "student" /\ <<"squad", b[2]>>[2] = b[2]
  OBVIOUS
<1> QED BY <1>3, <1>4, <1>5 DEF Follows, r, now

LEMMA SquadsWhole ==
  ASSUME NEW rows, Whole("student", rows), NEW e, IsEntries(e), DOMAIN rows = DOMAIN e
  PROVE  Whole("squad", SquadBoard(e))
<1>1. DOMAIN SquadBoard(e) = {SquadOf[s] : s \in DOMAIN e}
  BY SquadBoardIs
<1> QED BY <1>1 DEF Whole, Everyone

(* What depends on the rows of a board only.                               *)
SameRows(r, o) == DOMAIN r = DOMAIN o /\ \A x \in DOMAIN r : r[x] = o[x]

LEMMA SameRanking ==
  ASSUME NEW r, NEW o, SameRows(r, o), NEW kind \in Kinds, IsRanking(kind, r)
  PROVE  IsRanking(kind, o)
<1>1. \A x \in DOMAIN r : AheadIn(r, DOMAIN r, x) = AheadIn(o, DOMAIN o, x)
  BY DEF SameRows, AheadIn
<1>2. \A x \in DOMAIN r : PeersIn(r, x) = PeersIn(o, x) /\ PeersIn(r, x) \subseteq DOMAIN r
  BY DEF SameRows, PeersIn
<1>3. \A x \in DOMAIN r : AheadIn(r, PeersIn(r, x), x) = AheadIn(o, PeersIn(o, x), x)
  BY <1>2 DEF SameRows, AheadIn
<1>4. CASE kind = "student"
  BY <1>1, <1>3, <1>4, StudentRanking DEF SameRows
<1>5. CASE kind = "squad"
  BY <1>1, <1>5, SquadRanking DEF SameRows
<1> QED BY <1>4, <1>5 DEF Kinds

LEMMA SameFollows ==
  ASSUME NEW r, NEW o, SameRows(r, o), NEW b, NEW all, NEW present, Follows(b, r, all, present)
  PROVE  Follows(b, o, all, present)
  BY DEF SameRows, Follows

LEMMA BesideNothing ==
  ASSUME NEW r, NEW o
  PROVE  /\ DOMAIN r = {} => SameRows(o, Beside(r, o))
         /\ DOMAIN o = {} => SameRows(r, Beside(r, o))
  BY DEF Beside, SameRows

(* A job whose rows another transaction replaces while it waits. *)
LEMMA OvertakenFits ==
  ASSUME NEW job, JobTyped(job), Fits(job)
  PROVE  LET o == [job EXCEPT !.overtaken = TRUE]
         IN /\ JobTyped(o) /\ Fits(o) /\ o.pc = job.pc /\ o.boards = job.boards /\ o.found = job.found
            /\ (Writing(o) <=> Writing(job)) /\ Waiting(o) = Waiting(job)
<1> DEFINE o == [job EXCEPT !.overtaken = TRUE]
<1>1. /\ DOMAIN o = Fields /\ o.pc = job.pc /\ o.todo = job.todo /\ o.days = job.days
      /\ o.boards = job.boards /\ o.heal = job.heal /\ o.cached = job.cached /\ o.found = job.found
      /\ o.entries = job.entries /\ o.locked = job.locked /\ o.overtaken = TRUE
  BY DEF JobTyped, Fields
<1> HIDE DEF o
<1>2. JobTyped(o)
  BY <1>1 DEF JobTyped
<1>3. Fits(o) /\ (Writing(o) <=> Writing(job)) /\ Waiting(o) = Waiting(job)
  BY <1>1 DEF Fits, Writing, Waiting
<1> QED BY <1>1, <1>2, <1>3 DEF o

LEMMA CreateKeeps ==
  ASSUME TypeOK, Kept, NEW p \in Procs, Create(p)
  PROVE  Kept'
<1> DEFINE job == proc[p]
           b == Head(job.boards)
           new == job.found
           left == IF job.overtaken THEN board[b] ELSE NoBoard
           stored == Beside(left, new)
           j == WentOn(job)
<1>1. /\ JobTyped(job) /\ Fits(job) /\ JobOK(job) /\ job.pc = "create" /\ Writing(job)
      /\ DOMAIN proc = Procs /\ DOMAIN board = AllBoards
  BY JobsAreOK DEF Kept, Create, At, TypeOK, Writing
<1>2. UNCHANGED <<row, active, env>>
  BY DEF Create, inputs, counts
<1>3. job.overtaken \in BOOLEAN /\ (job.overtaken => "overlap" \in env)
  BY <1>1 DEF JobTyped, Kept, OneJob
<1>4. DOMAIN NoBoard = {}
  BY DEF NoBoard
<1>5. CASE DOMAIN left \cap DOMAIN new # {}
  <2>1. proc' = [proc EXCEPT ![p] = Idle] /\ UNCHANGED board
    BY <1>5 DEF Create
  <2>2. job.overtaken
    BY <1>4, <1>5
  <2>3. ~ Quiet
    BY <1>3, <2>2 DEF Quiet
  <2> QED BY <1>1, <1>2, <2>1, <2>3, EndKeeps
<1>6. CASE DOMAIN left \cap DOMAIN new = {}
  <2>1. board' = [board EXCEPT ![b] = stored]
    BY <1>6 DEF Create
  <2>2. proc' = [q \in Procs |-> IF q = p THEN j
                                 ELSE IF q \in Deleting(b) THEN [proc[q] EXCEPT !.overtaken = TRUE]
                                 ELSE proc[q]]
    BY <1>6 DEF Create, Done, WentOn
  <2>3. /\ job.boards \in Seq(AllBoards) /\ job.boards # <<>> /\ Ladder(job.boards)
        /\ IsRanking(b[1], new)
        /\ b[1] = "student" => /\ IsEntries(job.entries) /\ DOMAIN new = DOMAIN job.entries
                               /\ \A s \in DOMAIN job.entries : new[s].figures = job.entries[s]
    BY <1>1 DEF JobTyped, Fits
  <2>4. b \in AllBoards /\ b[1] \in Kinds /\ Range(job.boards) = {b} \cup Range(Tail(job.boards))
    BY <2>3, LadderDown, BoardParts
  <2>5. /\ "status" \notin env => Whole(b[1], new)
        /\ Quiet => Follows(b, new, row, active)
    BY <1>1 DEF JobOK
  <2>6. ~ job.overtaken => SameRows(new, stored)
    BY <1>4, BesideNothing
  <2>7. "status" \notin env => SameRows(new, stored) \/ SameRows(board[b], stored)
    <3> SUFFICES ASSUME "status" \notin env, job.overtaken
                 PROVE  SameRows(new, stored) \/ SameRows(board[b], stored)
      BY <1>3, <2>6
    <3>1. left = board[b]
      OBVIOUS
    <3>2. Whole(b[1], board[b]) /\ Whole(b[1], new)
      BY <2>4, <2>5 DEF Kept, AllThere
    <3>3. DOMAIN left = {} \/ DOMAIN new = {}
      BY <1>6, <3>1, <3>2 DEF Whole
    <3> HIDE DEF new, left
    <3>4. SameRows(new, stored) \/ SameRows(left, stored)
      BY <3>3, BesideNothing
    <3> QED BY <3>1, <3>4
  <2>8. {"overlap", "status"} \subseteq env \/ IsRanking(b[1], stored)
    <3> SUFFICES ASSUME ~ ({"overlap", "status"} \subseteq env) PROVE IsRanking(b[1], stored)
      OBVIOUS
    <3>1. SameRows(new, stored) \/ SameRows(board[b], stored)
      BY <1>3, <2>6, <2>7
    <3>2. IsRanking(b[1], board[b])
      BY <2>4 DEF Kept, BoardsRanked
    <3> HIDE DEF new, stored, b
    <3> QED BY <2>3, <2>4, <3>1, <3>2, SameRanking
  <2>9. b[1] = "student" => /\ DOMAIN stored \subseteq Students
                            /\ \A s \in DOMAIN stored : stored[s].figures \in EntryFigures
    <3> SUFFICES ASSUME b[1] = "student"
                 PROVE  /\ DOMAIN stored \subseteq Students
                        /\ \A s \in DOMAIN stored : stored[s].figures \in EntryFigures
      OBVIOUS
    <3>1. DOMAIN new \subseteq Students /\ \A s \in DOMAIN new : new[s].figures \in EntryFigures
      BY <2>3 DEF IsEntries
    <3>2. DOMAIN board[b] \subseteq Students /\ \A s \in DOMAIN board[b] : board[b][s].figures \in EntryFigures
      BY <2>4 DEF Kept, BoardsRanked
    <3>3. DOMAIN left \subseteq Students /\ \A s \in DOMAIN left : left[s].figures \in EntryFigures
      BY <1>4, <3>2
    <3> HIDE DEF new, left, b
    <3> QED BY <3>1, <3>3 DEF Beside
  <2>10. "status" \notin env => Whole(b[1], stored)
    <3>1. "status" \notin env => Whole(b[1], board[b])
      BY <2>4 DEF Kept, AllThere
    <3> HIDE DEF new, stored, b
    <3> QED BY <2>5, <2>7, <3>1 DEF SameRows, Whole
  <2>11. Quiet => ~ job.overtaken /\ Follows(b, stored, row, active)
    <3> SUFFICES ASSUME Quiet PROVE ~ job.overtaken /\ Follows(b, stored, row, active)
      OBVIOUS
    <3>1. ~ job.overtaken
      BY <1>3 DEF Quiet
    <3> HIDE DEF new, stored, b
    <3> QED BY <2>5, <2>6, <3>1, SameFollows
  <2>12. /\ JobTyped(j) /\ Fits(j) /\ ~ j.overtaken /\ Waiting(j) = Range(Tail(job.boards))
         /\ Writing(j) => /\ b[1] = "student" /\ Head(j.boards) = <<"squad", b[2]>>
                          /\ j.found = SquadBoard(job.entries) /\ IsEntries(job.entries)
    BY <1>1, WentOnFits
  <2>13. Waiting(job) = {b} \cup Waiting(j)
    BY <1>1, <2>4, <2>12 DEF Waiting
  <2>14. Writing(j) => /\ "status" \notin env => Whole(Head(j.boards)[1], j.found)
                       /\ Quiet => Follows(Head(j.boards), j.found, row, active)
    <3> SUFFICES ASSUME Writing(j)
                 PROVE  /\ "status" \notin env => Whole(Head(j.boards)[1], j.found)
                        /\ Quiet => Follows(Head(j.boards), j.found, row, active)
      OBVIOUS
    <3>1. Head(j.boards)[1] = "squad"
      BY <2>12
    <3> HIDE DEF job, new, left, stored, j, b
    <3>2. "status" \notin env => Whole(Head(j.boards)[1], j.found)
      BY <2>3, <2>5, <2>12, <3>1, SquadsWhole
    <3>3. Quiet => Follows(Head(j.boards), j.found, row, active)
      <4>1. /\ b[1] = "student" /\ IsEntries(job.entries) /\ DOMAIN new = DOMAIN job.entries
            /\ \A s \in DOMAIN job.entries : new[s].figures = job.entries[s]
        BY <2>3, <2>12
      <4>2. Quiet => Follows(<<"squad", b[2]>>, SquadBoard(job.entries), row, active)
        BY <2>5, <4>1, SquadsFollow
      <4> QED BY <2>12, <4>2
    <3> QED BY <3>2, <3>3
  <2>15. \A q \in Procs : q # p => JobTyped(proc[q]) /\ Fits(proc[q])
    BY DEF Kept
  <2> DEFINE Same(o, q) == /\ JobTyped(o) /\ Fits(o) /\ o.pc = proc[q].pc /\ o.boards = proc[q].boards
                           /\ o.found = proc[q].found /\ (Writing(o) <=> Writing(proc[q]))
                           /\ Waiting(o) = Waiting(proc[q])
  <2>16. ASSUME NEW q \in Procs, q # p PROVE Same(proc'[q], q)
    <3>1. Same([proc[q] EXCEPT !.overtaken = TRUE], q)
      BY <2>15, <2>16, OvertakenFits
    <3>2. Same(proc[q], q)
      BY <2>15, <2>16
    <3>3. proc'[q] = [proc[q] EXCEPT !.overtaken = TRUE] \/ proc'[q] = proc[q]
      BY <2>2, <2>16
    <3> HIDE DEF Same
    <3> QED BY <3>1, <3>2, <3>3
  <2>17. "overlap" \notin env => \A q \in Procs : q # p => proc[q].pc = "idle" /\ proc'[q] = proc[q]
    <3> SUFFICES ASSUME "overlap" \notin env, NEW q \in Procs, q # p
                 PROVE  proc[q].pc = "idle" /\ proc'[q] = proc[q]
      OBVIOUS
    <3>1. proc[q].pc = "idle"
      BY <1>1 DEF Kept, OneJob, At
    <3>2. q \notin Deleting(b)
      BY <3>1 DEF Deleting, At
    <3> QED BY <2>2, <3>1, <3>2
  <2>18. proc'[p] = j
    BY <2>2
  <2>19. /\ board'[b] = stored /\ DOMAIN board' = AllBoards
         /\ \A x \in AllBoards : x # b => board'[x] = board[x]
    BY <1>1, <2>1, <2>4
  <2> HIDE DEF job, b, new, left, stored, j
  <2>20. \A q \in Procs : JobTyped(proc'[q]) /\ Fits(proc'[q])
    BY <2>12, <2>16, <2>18
  <2>21. AllThere'
    <3> SUFFICES ASSUME "status" \notin env
                 PROVE  /\ active = Students
                        /\ \A s, t \in Students : DOMAIN row[s] = DOMAIN row[t]
                        /\ \A x \in AllBoards : Whole(x[1], board'[x])
                        /\ \A q \in Procs : Writing(proc'[q]) => Whole(Head(proc'[q].boards)[1], proc'[q].found)
      BY <1>2 DEF AllThere
    <3>1. /\ active = Students
          /\ \A s, t \in Students : DOMAIN row[s] = DOMAIN row[t]
          /\ \A x \in AllBoards : Whole(x[1], board[x])
          /\ \A q \in Procs : Writing(proc[q]) => Whole(Head(proc[q].boards)[1], proc[q].found)
      BY DEF Kept, AllThere
    <3>2. \A x \in AllBoards : Whole(x[1], board'[x])
      BY <2>10, <2>19, <3>1
    <3>3. \A q \in Procs : Writing(proc'[q]) => Whole(Head(proc'[q].boards)[1], proc'[q].found)
      BY <2>14, <2>16, <2>18, <3>1
    <3> QED BY <3>1, <3>2, <3>3
  <2>22. OneJob'
    <3> SUFFICES ASSUME "overlap" \notin env
                 PROVE  /\ \A q, r \in Procs : proc'[q].pc = "idle" \/ proc'[r].pc = "idle" \/ q = r
                        /\ \A q \in Procs : ~ proc'[q].overtaken
      BY <1>2 DEF OneJob, At
    <3>1. \A q \in Procs : ~ proc[q].overtaken
      BY DEF Kept, OneJob
    <3> QED BY <2>12, <2>17, <2>18, <3>1
  <2>23. BoardsRanked'
    <3> SUFFICES ASSUME NEW x \in AllBoards
                 PROVE  /\ {"overlap", "status"} \subseteq env \/ IsRanking(x[1], board'[x])
                        /\ x[1] = "student" => /\ DOMAIN board'[x] \subseteq Students
                                               /\ \A s \in DOMAIN board'[x] : board'[x][s].figures \in EntryFigures
      BY <1>2 DEF BoardsRanked
    <3>1. CASE x = b
      BY <2>8, <2>9, <2>19, <3>1
    <3>2. CASE x # b
      BY <2>19, <3>2 DEF Kept, BoardsRanked
    <3> QED BY <3>1, <3>2
  <2>24. Followed'
    <3> SUFFICES ASSUME Quiet
                 PROVE  /\ \A x \in AllBoards : Follows(x, board'[x], row, active) \/
                                                 \E q \in Procs : x \in Waiting(proc'[q])
                        /\ \A q \in Procs : Writing(proc'[q]) =>
                              Follows(Head(proc'[q].boards), proc'[q].found, row, active)
      BY <1>2 DEF Followed, Quiet
    <3>1. /\ \A x \in AllBoards : Follows(x, board[x], row, active) \/
                                   \E q \in Procs : x \in Waiting(proc[q])
          /\ \A q \in Procs : Writing(proc[q]) => Follows(Head(proc[q].boards), proc[q].found, row, active)
      BY DEF Kept, Followed
    <3>2. ASSUME NEW x \in AllBoards
          PROVE  Follows(x, board'[x], row, active) \/ \E q \in Procs : x \in Waiting(proc'[q])
      <4>1. CASE x = b
        BY <2>11, <2>19, <4>1
      <4>2. CASE x # b /\ Follows(x, board[x], row, active)
        BY <2>19, <4>2
      <4>3. ASSUME NEW q \in Procs, x # b, x \in Waiting(proc[q])
            PROVE  \E r \in Procs : x \in Waiting(proc'[r])
        <5>1. CASE q = p
          BY <2>13, <2>18, <4>3, <5>1 DEF job
        <5>2. CASE q # p
          BY <2>16, <4>3, <5>2
        <5> QED BY <5>1, <5>2
      <4> QED BY <3>1, <4>1, <4>2, <4>3
    <3>3. \A q \in Procs : Writing(proc'[q]) =>
             Follows(Head(proc'[q].boards), proc'[q].found, row, active)
      BY <2>14, <2>16, <2>18, <3>1
    <3> QED BY <3>2, <3>3
  <2> QED BY <2>20, <2>21, <2>22, <2>23, <2>24 DEF Kept
<1> QED BY <1>5, <1>6

-----------------------------------------------------------------------------
(* Initially every board has been ranked from the rows of the days before  *)
(* today.                                                                  *)
LEMMA InitRows ==
  ASSUME Init
  PROVE  /\ RowsTyped /\ AllAlike /\ DOMAIN row = Students
         /\ \A s \in Students : /\ DOMAIN row[s] = 1 .. Today - 1
                                /\ \A d \in 1 .. Today - 1 : row[s][d].campus = CampusOn[s][d]
<1>1. /\ rules = 1 /\ mirror = FirstSolves /\ active = Students
      /\ row = [s \in Students |-> [d \in 1 .. Today - 1 |-> Result(s, d, mirror[s], Problems, 1)]]
      /\ streak = [s \in Students |-> Streak(row[s], Today, 1)]
  BY DEF Init
<1>2. 1 .. Today - 1 \subseteq Days
  BY StandingsAssumption DEF Days
<1>3. ASSUME NEW s \in Students
      PROVE  /\ DOMAIN row[s] = 1 .. Today - 1 /\ row[s] \in [1 .. Today - 1 -> Results]
             /\ \A d \in 1 .. Today - 1 : row[s][d].campus = CampusOn[s][d]
  <2>1. row[s] = [d \in 1 .. Today - 1 |-> Result(s, d, mirror[s], Problems, 1)]
    BY <1>1
  <2>2. \A d \in 1 .. Today - 1 : /\ Result(s, d, mirror[s], Problems, 1) \in Results
                                  /\ Result(s, d, mirror[s], Problems, 1).campus = CampusOn[s][d]
    <3>1. 1 \in 1 .. 2 /\ Problems \subseteq Problems
      OBVIOUS
    <3>2. \A d : Result(s, d, mirror[s], Problems, 1).campus = CampusOn[s][d]
      BY DEF Result
    <3> QED BY <1>2, <3>1, <3>2, ResultTyped
  <2> QED BY <2>1, <2>2
<1>4. streak \in [Students -> Nat]
  BY <1>1, <1>2, <1>3, StreakTyped
<1>5. DOMAIN row = Students
  BY <1>1
<1> QED BY <1>1, <1>2, <1>3, <1>4, <1>5 DEF RowsTyped, AllAlike

LEMMA InitBoards ==
  ASSUME Init, NEW b \in AllBoards
  PROVE  /\ IsRanking(b[1], board[b]) /\ Whole(b[1], board[b])
         /\ Follows(b, board[b], row, active)
         /\ b[1] = "student" => /\ DOMAIN board[b] \subseteq Students
                                /\ \A s \in DOMAIN board[b] : board[b][s].figures \in EntryFigures
<1> DEFINE period == b[2]
           e == EntriesOf(period)
           campus == [s \in Ranked(period) |-> CampusOn[s][SmallerOf(period.to, Today - 1)]]
           r == board[b]
<1>1. r = IF b[1] = "squad" THEN SquadBoard(e) ELSE StudentBoard(e, campus)
  BY DEF Init
<1>2. /\ IsEntries(e) /\ DOMAIN e = RankedOf(row, active, period) /\ DOMAIN e \in {{}, Students}
      /\ \A s \in DOMAIN e : SameFigures(e[s], Now(row, active, period)[s])
  BY InitRows, EntriesNow
<1>3. DOMAIN Now(row, active, period) = DOMAIN e
  BY <1>2 DEF Now
<1>4. b[1] \in Kinds /\ period.from \in Nat \ {0} /\ period.to \in Nat
  BY BoardParts
<1>5. \A s \in DOMAIN e : campus[s] \in CampusesOf(row[s], period)
  <2> SUFFICES ASSUME NEW s \in DOMAIN e PROVE campus[s] \in CampusesOf(row[s], period)
    OBVIOUS
  <2>1. s \in Ranked(period)
    BY DEF EntriesOf
  <2>2. campus[s] = CampusOn[s][SmallerOf(period.to, Today - 1)]
    BY <2>1
  <2>3. s \in Students /\ RowsIn(row[s], period) # {}
    BY <2>1, InitRows DEF Ranked, AllAlike
  <2>4. /\ DOMAIN row[s] = 1 .. Today - 1
        /\ \A d \in 1 .. Today - 1 : row[s][d].campus = CampusOn[s][d]
    BY <2>3, InitRows
  <2>5. Today \in Nat \ {0, 1}
    BY StandingsAssumption
  <2>6. PICK d \in 1 .. Today - 1 : period.from <= d /\ d <= period.to
    BY <2>3, <2>4 DEF RowsIn
  <2>7. CASE period.to < Today - 1 \/ period.to = Today - 1
    <3>1. period.to \in 1 .. Today - 1 /\ SmallerOf(period.to, Today - 1) = period.to
      BY <1>4, <2>5, <2>6, <2>7 DEF SmallerOf
    <3> HIDE DEF campus, period
    <3> QED BY <2>2, <2>4, <3>1 DEF CampusesOf
  <2>8. CASE period.to > Today - 1
    <3>1. SmallerOf(period.to, Today - 1) = Today - 1 /\ period.to \notin 1 .. Today - 1
      BY <1>4, <2>5, <2>8 DEF SmallerOf
    <3>2. Today - 1 \in RowsIn(row[s], period)
      BY <1>4, <2>4, <2>5, <2>6, <2>8 DEF RowsIn
    <3>3. Today - 1 \in 1 .. Today - 1
      BY <2>5
    <3> HIDE DEF campus, period
    <3> QED BY <2>2, <2>4, <3>1, <3>2, <3>3 DEF CampusesOf
  <2> QED BY <1>4, <2>5, <2>7, <2>8
<1> HIDE DEF e, campus, r
<1>6. CASE b[1] = "student"
  <2>1. r = StudentBoard(e, campus)
    BY <1>1, <1>6
  <2>2. /\ DOMAIN r = DOMAIN e
        /\ \A s \in DOMAIN e : r[s].figures = e[s] /\ r[s].campus = campus[s]
        /\ IsRanking("student", r)
    BY <1>2, <2>1, StudentBoardIs
  <2>3. Whole(b[1], r)
    BY <1>2, <1>6, <2>2 DEF Whole, Everyone
  <2>4. Follows(b, r, row, active)
    BY <1>2, <1>3, <1>5, <1>6, <2>2 DEF Follows
  <2>5. DOMAIN r \subseteq Students /\ \A s \in DOMAIN r : r[s].figures \in EntryFigures
    BY <1>2, <2>2 DEF IsEntries
  <2> QED BY <1>6, <2>2, <2>3, <2>4, <2>5 DEF r
<1>7. CASE b[1] = "squad"
  <2>1. r = SquadBoard(e)
    BY <1>1, <1>7
  <2> DEFINE campuses == [s \in DOMAIN e |-> CHOOSE c : c \in CampusesOf(row[s], period)]
             rows == StudentBoard(e, campuses)
             other == <<"student", period>>
  <2>2. /\ DOMAIN rows = DOMAIN e
        /\ \A s \in DOMAIN e : rows[s].figures = e[s] /\ rows[s].campus = campuses[s]
    <3> HIDE DEF campuses
    <3> QED BY <1>2, StudentBoardIs
  <2>3. \A s \in DOMAIN e : campuses[s] \in CampusesOf(row[s], period)
    BY <1>5
  <2> HIDE DEF rows, campuses
  <2>4. Follows(other, rows, row, active)
    BY <1>2, <1>3, <2>2, <2>3 DEF Follows
  <2>5. Follows(<<"squad", other[2]>>, r, row, active)
    BY <1>2, <2>1, <2>2, <2>4, SquadsFollow
  <2>6. <<"squad", other[2]>> = b
    BY <1>7, BoardParts
  <2>7. Whole("squad", r)
    <3>1. Whole("student", rows)
      BY <1>2, <2>2 DEF Whole, Everyone
    <3> QED BY <1>2, <2>1, <2>2, <3>1, SquadsWhole
  <2>8. IsRanking("squad", r)
    BY <1>2, <2>1, SquadBoardIs
  <2> QED BY <1>7, <2>5, <2>6, <2>7, <2>8 DEF r
<1> QED BY <1>4, <1>6, <1>7 DEF Kinds

LEMMA InitKept ==
  ASSUME Init
  PROVE  Kept
<1>1. proc = [p \in Procs |-> Idle]
  BY DEF Init
<1>2. \A p \in Procs : /\ JobTyped(proc[p]) /\ Fits(proc[p]) /\ ~ Writing(proc[p])
                       /\ proc[p].pc = "idle" /\ ~ proc[p].overtaken
  <2> HIDE DEF Idle
  <2> QED BY <1>1, IdleFits
<1>3. AllThere
  BY <1>2, InitRows, InitBoards DEF AllThere, AllAlike
<1>4. OneJob
  BY <1>2 DEF OneJob, At
<1>5. BoardsRanked
  BY InitBoards DEF BoardsRanked
<1>6. Followed
  BY <1>2, InitBoards DEF Followed
<1> QED BY <1>2, <1>3, <1>4, <1>5, <1>6 DEF Kept

-----------------------------------------------------------------------------
(* Types.  Those of boards and jobs are parts of Kept.                     *)
Stored ==
    /\ env \in Environments
    /\ rules \in 1 .. 2
    /\ assigned \in [Days -> SUBSET Problems]
    /\ mirror \in [Students -> SUBSET (Problems \X Int)]
    /\ DOMAIN row = Students
    /\ RowsTyped
    /\ DOMAIN board = AllBoards
    /\ DOMAIN proc = Procs
    /\ crashes \in 0 .. MaxCrashes /\ flips \in 0 .. MaxFlips /\ mirrored \in 0 .. MaxMirrored

LEMMA TypesAre == Kept => (TypeOK <=> Stored)
<1> SUFFICES ASSUME Kept PROVE TypeOK <=> Stored
  OBVIOUS
<1>1. \A b \in AllBoards, x \in Students : x \in DOMAIN board[b] /\ b[1] = "student" =>
         board[b][x].figures \in EntryFigures
  BY DEF Kept, BoardsRanked
<1>2. \A p \in Procs : JobTyped(proc[p])
  BY DEF Kept
<1> QED BY <1>1, <1>2 DEF TypeOK, Stored, RowsTyped, JobTyped, Steps

LEMMA InitStored ==
  ASSUME Init
  PROVE  Stored
<1>1. /\ env \in Environments /\ rules = 1 /\ assigned = [d \in Days |-> Problems]
      /\ mirror = FirstSolves /\ crashes = 0 /\ flips = 0 /\ mirrored = 0
      /\ DOMAIN board = AllBoards /\ DOMAIN proc = Procs
  BY DEF Init
<1>2. {MaxMirrored, MaxCrashes, MaxFlips} \subseteq Nat /\ FirstSolves \in [Students -> SUBSET (Problems \X Int)]
  BY StandingsAssumption
<1>3. 0 \in 0 .. MaxMirrored /\ 0 \in 0 .. MaxCrashes /\ 0 \in 0 .. MaxFlips
  BY <1>2
<1>4. assigned \in [Days -> SUBSET Problems]
  BY <1>1
<1> QED BY <1>1, <1>2, <1>3, <1>4, InitRows DEF Stored

(* A step that leaves the inputs and the counts alone.                     *)
LEMMA StoredStill ==
  ASSUME Stored, UNCHANGED <<inputs, counts>>, RowsTyped', DOMAIN row' = DOMAIN row,
         DOMAIN board' = DOMAIN board, DOMAIN proc' = DOMAIN proc
  PROVE  Stored'
  BY DEF Stored, inputs, counts

LEMMA RowsStill ==
  ASSUME RowsTyped, UNCHANGED <<active, row, streak>>
  PROVE  RowsTyped'
  BY DEF RowsTyped

LEMMA RecomputeStored ==
  ASSUME Inv, NEW p \in Procs, RecomputeDay(p)
  PROVE  Stored'
<1> DEFINE d == CHOOSE e \in proc[p].todo : \A f \in proc[p].todo : e <= f
<1>1. Stored /\ JobTyped(proc[p]) /\ Fits(proc[p]) /\ proc[p].pc = "recompute"
  BY TypesAre DEF Inv, Kept, RecomputeDay, At
<1>2. d \in Days
  <2>1. d \in proc[p].todo
    BY <1>1, EarliestDay DEF JobTyped, Fits
  <2> QED BY <1>1, <2>1 DEF JobTyped
<1>3. row' = [s \in Students |->
                IF s \notin active THEN row[s]
                ELSE [e \in DOMAIN row[s] \cup {d} |->
                        IF e = d THEN Result(s, d, mirror[s], assigned[d], rules) ELSE row[s][e]]]
  BY DEF RecomputeDay
<1>4. UNCHANGED <<inputs, counts, streak, board>> /\ DOMAIN proc' = DOMAIN proc
  BY DEF RecomputeDay
<1> HIDE DEF d
<1>5. ASSUME NEW s \in Students
      PROVE  DOMAIN row'[s] \subseteq Days /\ row'[s] \in [DOMAIN row'[s] -> Results]
  <2>1. DOMAIN row[s] \subseteq Days /\ row[s] \in [DOMAIN row[s] -> Results]
    BY <1>1 DEF Stored, RowsTyped
  <2>2. CASE s \notin active
    BY <1>3, <2>1, <2>2
  <2>3. CASE s \in active
    <3>1. assigned[d] \subseteq Problems /\ rules \in 1 .. 2
      BY <1>1, <1>2 DEF Stored
    <3>2. Result(s, d, mirror[s], assigned[d], rules) \in Results
      BY <1>2, <3>1, ResultTyped
    <3>3. row'[s] = [e \in DOMAIN row[s] \cup {d} |->
                       IF e = d THEN Result(s, d, mirror[s], assigned[d], rules) ELSE row[s][e]]
      BY <1>3, <2>3
    <3> QED BY <1>2, <2>1, <3>2, <3>3
  <2> QED BY <2>2, <2>3
<1>6. RowsTyped'
  <2>1. UNCHANGED <<active, streak>>
    BY <1>4 DEF inputs
  <2> QED BY <1>1, <1>5, <2>1 DEF Stored, RowsTyped
<1>7. DOMAIN row' = DOMAIN row
  BY <1>1, <1>3 DEF Stored
<1> QED BY <1>1, <1>4, <1>6, <1>7, StoredStill

-----------------------------------------------------------------------------
(* Every step keeps the invariant.                                         *)
(* What a sync mirrors: nothing, or one submission. *)
LEMMA NewWork ==
  ASSUME NEW new \in {{}} \cup {{x} : x \in Problems \X Days}
  PROVE  new \subseteq Problems \X Int /\ Cardinality(new) \in Nat
<1>1. CASE new = {}
  BY <1>1, FS_EmptySet
<1>2. CASE new # {}
  <2>2. PICK x \in Problems \X Days : new = {x}
    BY <1>2
  <2>3. Cardinality(new) = 1
    <3>1. \E y : new = {y}
      BY <2>2
    <3> QED BY <3>1, FS_Singleton
  <2>4. Days \subseteq Int
    BY DaysFinite
  <2>5. x \in Problems \X Int
    BY <2>4
  <2> QED BY <2>2, <2>3, <2>5
<1> QED BY <1>1, <1>2

LEMMA SyncKeeps ==
  ASSUME Inv, NEW p \in Procs, NEW s \in Students,
         NEW new, new \subseteq Problems \X Int, Cardinality(new) \in Nat, Sync(p, s, new)
  PROVE  Stored' /\ Kept'
<1> DEFINE days == DaysToSync(new)
<1>1. Stored /\ Kept /\ TypeOK
  BY TypesAre DEF Inv
<1>2. /\ Job(p, days, 0, TRUE) /\ At(p, "idle") /\ ("overlap" \in env \/ Alone)
      /\ UNCHANGED <<rules, assigned, active, row, streak, board, crashes, flips, env>>
      /\ mirror' = [mirror EXCEPT ![s] = @ \cup new] /\ mirrored' = mirrored + Cardinality(new)
      /\ mirrored + Cardinality(new) <= MaxMirrored
  BY DEF Sync, MayStart
<1>3. days \subseteq Days /\ days # {}
  <2>1. Today \in Days
    BY StandingsAssumption DEF Days
  <2> QED BY <2>1 DEF DaysToSync, Recent
<1>4. 0 \in 0 .. PerNight /\ TRUE \in BOOLEAN
  BY StandingsAssumption
<1> HIDE DEF days
<1>5. Kept'
  <2>1. DOMAIN proc = Procs /\ UNCHANGED <<row, active, board, env>>
    BY <1>1, <1>2 DEF Stored
  <2> QED BY <1>1, <1>2, <1>3, <1>4, <2>1, StartKeeps
<1>7. mirror' \in [Students -> SUBSET (Problems \X Int)]
  BY <1>1, <1>2 DEF Stored
<1>8. mirrored' \in 0 .. MaxMirrored
  <2>1. mirrored \in Nat /\ MaxMirrored \in Nat
    BY <1>1, StandingsAssumption DEF Stored
  <2> QED BY <1>2, <2>1
<1>9. RowsTyped'
  BY <1>1, <1>2, RowsStill DEF Stored
<1>10. DOMAIN proc' = Procs
  BY <1>1, <1>2 DEF Job, Stored
<1> QED BY <1>1, <1>2, <1>5, <1>7, <1>8, <1>9, <1>10 DEF Stored

LEMMA StartsKeep ==
  ASSUME Inv, NEW p \in Procs,
         NightlyRollup(p) \/ RecomputeStale(p)
           \/ \E d \in Days : Reconcile(p, d) \/ RemoveAssignment(p, d) \/ Reset(p, d)
  PROVE  Stored' /\ Kept'
<1>1. Stored /\ Kept /\ TypeOK /\ RowsTyped /\ DOMAIN proc = Procs
  BY TypesAre DEF Inv, Stored
<1>2. Today \in Nat \ {0, 1} /\ PerNight \in Nat /\ 0 \in 0 .. PerNight /\ PerNight \in 0 .. PerNight
      /\ TRUE \in BOOLEAN /\ FALSE \in BOOLEAN
  BY StandingsAssumption
<1>3. \A days, heal, cached : Job(p, days, heal, cached) => DOMAIN proc' = Procs
  BY <1>1 DEF Job
<1>4. CASE NightlyRollup(p)
  <2>1. /\ At(p, "idle") /\ ("overlap" \in env \/ Alone) /\ Job(p, {Today - 1}, PerNight, TRUE)
        /\ UNCHANGED <<inputs, row, streak, board, counts>>
    BY <1>4 DEF NightlyRollup
  <2>2. {Today - 1} \subseteq Days /\ {Today - 1} # {}
    BY <1>2 DEF Days
  <2>3. UNCHANGED <<row, active, streak, board, env>>
    BY <2>1 DEF inputs, counts
  <2>4. Kept'
    BY <1>1, <1>2, <2>1, <2>2, <2>3, StartKeeps
  <2>5. RowsTyped'
    BY <1>1, <2>3, RowsStill
  <2> QED BY <1>1, <1>3, <2>1, <2>3, <2>4, <2>5, StoredStill
<1>5. CASE RecomputeStale(p)
  <2>1. /\ At(p, "idle") /\ ("overlap" \in env \/ Alone) /\ Job(p, Superseded(1), 0, TRUE)
        /\ Superseded(1) # {} /\ UNCHANGED <<inputs, row, streak, board, counts>>
    BY <1>5 DEF RecomputeStale, MayStart
  <2>2. Superseded(1) \subseteq Days
    BY DEF Superseded, Days
  <2>3. UNCHANGED <<row, active, streak, board, env>>
    BY <2>1 DEF inputs, counts
  <2>4. Kept'
    BY <1>1, <1>2, <2>1, <2>2, <2>3, StartKeeps
  <2>5. RowsTyped'
    BY <1>1, <2>3, RowsStill
  <2> QED BY <1>1, <1>3, <2>1, <2>3, <2>4, <2>5, StoredStill
<1>6. ASSUME NEW d \in Days, Reconcile(p, d) PROVE Stored' /\ Kept'
  <2>1. /\ At(p, "idle") /\ ("overlap" \in env \/ Alone) /\ Job(p, d .. Today, 0, TRUE)
        /\ UNCHANGED <<inputs, row, streak, board, counts>>
    BY <1>6 DEF Reconcile, MayStart
  <2>2. d .. Today \subseteq Days /\ d .. Today # {}
    BY <1>2 DEF Days
  <2>3. UNCHANGED <<row, active, streak, board, env>>
    BY <2>1 DEF inputs, counts
  <2>4. Kept'
    BY <1>1, <1>2, <2>1, <2>2, <2>3, StartKeeps
  <2>5. RowsTyped'
    BY <1>1, <2>3, RowsStill
  <2> QED BY <1>1, <1>3, <2>1, <2>3, <2>4, <2>5, StoredStill
<1>7. ASSUME NEW d \in Days, RemoveAssignment(p, d) PROVE Stored' /\ Kept'
  <2>1. /\ At(p, "idle") /\ ("overlap" \in env \/ Alone) /\ Job(p, {d}, 0, FALSE)
        /\ assigned' = [assigned EXCEPT ![d] = {}]
        /\ UNCHANGED <<rules, mirror, active, row, streak, board, counts>>
    BY <1>7 DEF RemoveAssignment, MayStart
  <2>2. {d} \subseteq Days /\ {d} # {}
    OBVIOUS
  <2>3. UNCHANGED <<row, active, streak, board, env, crashes, flips, mirrored>>
    BY <2>1 DEF counts
  <2>4. Kept'
    BY <1>1, <1>2, <2>1, <2>2, <2>3, StartKeeps
  <2>5. RowsTyped'
    BY <1>1, <2>3, RowsStill
  <2>6. assigned' \in [Days -> SUBSET Problems] /\ DOMAIN proc' = Procs
    BY <1>1, <1>3, <2>1 DEF Stored
  <2> QED BY <1>1, <2>1, <2>3, <2>4, <2>5, <2>6 DEF Stored
<1>8. ASSUME NEW d \in Days, Reset(p, d) PROVE Stored' /\ Kept'
  <2>1. Kept'
    BY <1>1, <1>8, ResetKeeps
  <2>2. UNCHANGED <<inputs, row, streak, board, counts>> /\ DOMAIN proc' = Procs
    BY <1>1, <1>8 DEF Reset
  <2>3. RowsTyped'
    BY <1>1, <2>2, RowsStill DEF inputs
  <2> QED BY <1>1, <2>1, <2>2, <2>3, StoredStill
<1> QED BY <1>4, <1>5, <1>6, <1>7, <1>8

LEMMA StepKeeps ==
  ASSUME Inv, NEW p \in Procs, Step(p)
  PROVE  Stored' /\ Kept'
<1>1. Stored /\ Kept /\ TypeOK /\ RowsTyped /\ DOMAIN proc = Procs /\ DOMAIN board = AllBoards
  BY TypesAre DEF Inv, Stored
<1>2. ASSUME Kept', UNCHANGED <<inputs, row, streak, counts>>, DOMAIN board' = DOMAIN board,
             DOMAIN proc' = DOMAIN proc
      PROVE  Stored'
  <2>1. RowsTyped'
    BY <1>1, <1>2, RowsStill DEF inputs
  <2> QED BY <1>1, <1>2, <2>1, StoredStill
<1>3. CASE RecomputeDay(p)
  BY <1>1, <1>3, RecomputeStored, RecomputeKeeps
<1>4. CASE ReadStatuses(p)
  <2>1. UNCHANGED <<inputs, row, streak, counts, board>> /\ DOMAIN proc' = DOMAIN proc
    BY <1>4 DEF ReadStatuses
  <2> QED BY <1>1, <1>2, <1>4, <2>1, ReadKeeps
<1>5. CASE WriteAggregates(p)
  <2>1. UNCHANGED <<inputs, row, counts, board>> /\ DOMAIN proc' = DOMAIN proc
    BY <1>5 DEF WriteAggregates
  <2>2. Kept' /\ streak' \in [Students -> Nat]
    BY <1>1, <1>5, WriteKeeps
  <2>3. RowsTyped'
    BY <1>1, <2>1, <2>2 DEF RowsTyped, inputs
  <2> QED BY <1>1, <2>1, <2>2, <2>3, StoredStill
<1>6. CASE Rank(p)
  <2>1. UNCHANGED <<inputs, row, streak, counts, board>> /\ DOMAIN proc' = DOMAIN proc
    BY <1>6 DEF Rank
  <2> QED BY <1>1, <1>2, <1>6, <2>1, RankKeeps
<1>7. CASE Delete(p)
  <2>1. UNCHANGED <<inputs, row, streak, counts, board>> /\ DOMAIN proc' = DOMAIN proc
    BY <1>7 DEF Delete
  <2> QED BY <1>1, <1>2, <1>7, <2>1, DeleteKeeps
<1>8. CASE Create(p)
  <2>1. UNCHANGED <<inputs, row, streak, counts>>
    BY <1>8 DEF Create
  <2>2. DOMAIN board' = DOMAIN board /\ DOMAIN proc' = DOMAIN proc
    <3> DEFINE b == Head(proc[p].boards)
               left == IF proc[p].overtaken THEN board[b] ELSE NoBoard
    <3>1. CASE DOMAIN left \cap DOMAIN proc[p].found # {}
      BY <1>1, <1>8, <3>1 DEF Create
    <3>2. CASE DOMAIN left \cap DOMAIN proc[p].found = {}
      <4>1. board' = [board EXCEPT ![b] = Beside(left, proc[p].found)]
        BY <1>8, <3>2 DEF Create
      <4>2. proc' = [q \in Procs |->
                      IF q = p THEN Done(p)
                      ELSE IF q \in Deleting(b) THEN [proc[q] EXCEPT !.overtaken = TRUE] ELSE proc[q]]
        BY <1>8, <3>2 DEF Create
      <4> QED BY <1>1, <4>1, <4>2
    <3> QED BY <3>1, <3>2
  <2> QED BY <1>1, <1>2, <1>8, <2>1, <2>2, CreateKeeps
<1>9. CASE Heal(p)
  <2>1. UNCHANGED <<inputs, row, streak, counts, board>> /\ DOMAIN proc' = DOMAIN proc
    BY <1>1, <1>9 DEF Heal, Job
  <2> QED BY <1>1, <1>2, <1>9, <2>1, HealKeeps
<1> QED BY <1>3, <1>4, <1>5, <1>6, <1>7, <1>8, <1>9 DEF Step

LEMMA OthersKeep ==
  ASSUME Inv, (\E p \in Procs : Crash(p)) \/ (\E s \in Students : SetStatus(s)) \/ Deploy
              \/ UNCHANGED vars
  PROVE  Stored' /\ Kept'
<1>1. Stored /\ Kept /\ TypeOK /\ RowsTyped
  BY TypesAre DEF Inv, Stored
<1>2. ASSUME NEW p \in Procs, Crash(p) PROVE Stored' /\ Kept'
  <2>1. /\ UNCHANGED <<inputs, row, streak, board, flips, mirrored, env>> /\ DOMAIN proc' = DOMAIN proc
        /\ crashes' = crashes + 1 /\ crashes < MaxCrashes
    BY <1>2 DEF Crash
  <2>2. RowsTyped' /\ UNCHANGED <<rules, assigned, mirror>>
    BY <1>1, <2>1, RowsStill DEF inputs
  <2>3. crashes' \in 0 .. MaxCrashes
    BY <1>1, <2>1, StandingsAssumption DEF Stored
  <2> QED BY <1>1, <1>2, <2>1, <2>2, <2>3, CrashKeeps DEF Stored
<1>3. ASSUME NEW s \in Students, SetStatus(s) PROVE Stored' /\ Kept'
  <2>1. /\ UNCHANGED <<rules, assigned, mirror, row, streak, board, proc, crashes, mirrored, env>>
        /\ flips' = flips + 1 /\ flips < MaxFlips /\ active' = (active \ {s}) \cup ({s} \ active)
    BY <1>3 DEF SetStatus
  <2>2. RowsTyped'
    BY <1>1, <2>1 DEF RowsTyped
  <2>3. flips' \in 0 .. MaxFlips
    BY <1>1, <2>1, StandingsAssumption DEF Stored
  <2> QED BY <1>1, <1>3, <2>1, <2>2, <2>3, StatusKeeps DEF Stored
<1>4. CASE Deploy \/ UNCHANGED vars
  <2>1. UNCHANGED <<assigned, mirror, active, row, streak, board, proc, counts>> /\ rules' \in 1 .. 2
    BY <1>1, <1>4 DEF Deploy, vars, counts, Stored
  <2>2. RowsTyped'
    BY <1>1, <2>1, RowsStill
  <2>3. Stored'
    BY <1>1, <2>1, <2>2 DEF Stored, counts
  <2>4. Kept'
    BY <1>1, <2>1 DEF Kept, AllThere, OneJob, At, BoardsRanked, Followed, Quiet, counts
  <2> QED BY <2>3, <2>4
<1> QED BY <1>2, <1>3, <1>4

-----------------------------------------------------------------------------
(* What is read off a board agrees with it.                                *)
LEMMA ReadsFollow ==
  ASSUME Inv, NEW b \in AllBoards, b[1] = "student", "status" \notin env
  PROVE  ReadsAgree(b)
<1> DEFINE r == board[b]
           e == [x \in DOMAIN r |-> r[x].figures]
           peers(s) == [t \in PeersIn(r, s) |-> r[t].figures]
           squad(q) == [s \in {t \in Shown(b) : SquadOf[t] = q} |-> r[s].figures]
<1>1. /\ DOMAIN r \subseteq Students /\ \A x \in DOMAIN r : r[x].figures \in EntryFigures
      /\ IsRanking("student", r) /\ active = Students
  BY DEF Inv, Kept, BoardsRanked, AllThere
<1>2. Shown(b) = DOMAIN r
  BY <1>1 DEF Shown
<1>3. /\ DOMAIN e = DOMAIN r /\ \A x \in DOMAIN r : e[x] = r[x].figures
      /\ \A s : /\ DOMAIN peers(s) = PeersIn(r, s) /\ PeersIn(r, s) \subseteq DOMAIN r
                /\ \A t \in PeersIn(r, s) : peers(s)[t] = r[t].figures
      /\ \A q : /\ DOMAIN squad(q) = {t \in DOMAIN r : SquadOf[t] = q}
                /\ \A t \in DOMAIN squad(q) : squad(q)[t] = r[t].figures
  BY <1>2 DEF PeersIn
<1>4. \A q : Narrowed(b, q) = RankEntries(squad(q))
  BY DEF Narrowed
<1>5. ASSUME NEW s
      PROVE  /\ MyRank(b, s).rank = r[s].rank
             /\ MyRank(b, s).total = Cardinality({t \in DOMAIN r : r[t].campus = r[s].campus})
             /\ MyRank(b, s).globalRank = r[s].globalRank
             /\ MyRank(b, s).globalTotal = Cardinality(DOMAIN r)
  BY <1>2 DEF MyRank
<1> HIDE DEF e, peers, squad, r
<1>6. /\ IsEntries(e) /\ \A s : IsEntries(peers(s))
      /\ \A q : IsEntries(squad(q))
  <2>1. IsEntries(e)
    BY <1>1, <1>3 DEF IsEntries
  <2>2. ASSUME NEW s PROVE IsEntries(peers(s))
    BY <1>1, <1>3 DEF IsEntries
  <2>3. ASSUME NEW q PROVE IsEntries(squad(q))
    BY <1>1, <1>3 DEF IsEntries
  <2> QED BY <2>1, <2>2, <2>3
<1>7. ASSUME NEW s \in DOMAIN r
      PROVE  r[s].globalRank = Place(e, s) /\ r[s].rank = Place(peers(s), s) /\ s \in PeersIn(r, s)
  <2>1. /\ r[s].globalRank = 1 + Cardinality(AheadIn(r, DOMAIN r, s))
        /\ r[s].rank = 1 + Cardinality(AheadIn(r, PeersIn(r, s), s))
    BY <1>1, StudentRanking
  <2>2. s \in PeersIn(r, s)
    BY DEF PeersIn
  <2>3. AheadIn(r, DOMAIN r, s) = {y \in DOMAIN e : Ahead(e[y], e[s])}
    BY <1>3 DEF AheadIn
  <2>4. AheadIn(r, PeersIn(r, s), s) = {y \in DOMAIN peers(s) : Ahead(peers(s)[y], peers(s)[s])}
    BY <1>3, <2>2 DEF AheadIn
  <2> QED BY <2>1, <2>2, <2>3, <2>4 DEF Place
<1>8. ASSUME NEW q, NEW s \in DOMAIN squad(q), NEW t \in DOMAIN squad(q)
      PROVE  RankEntries(squad(q))[s].rank < RankEntries(squad(q))[t].rank
                <=> r[s].globalRank < r[t].globalRank
  <2>1. /\ RankEntries(squad(q))[s].rank = Place(squad(q), s)
        /\ RankEntries(squad(q))[t].rank = Place(squad(q), t)
    BY <1>6, EntriesMeasured, RanksArePlaces
  <2>2. Place(squad(q), s) < Place(squad(q), t) <=> Ahead(squad(q)[s], squad(q)[t])
    BY <1>6, EntriesMeasured, PlacesInOrder
  <2>3. s \in DOMAIN e /\ t \in DOMAIN e /\ s \in DOMAIN r /\ t \in DOMAIN r
    BY <1>3
  <2>4. Place(e, s) < Place(e, t) <=> Ahead(e[s], e[t])
    BY <1>6, <2>3, EntriesMeasured, PlacesInOrder
  <2>5. squad(q)[s] = e[s] /\ squad(q)[t] = e[t]
    BY <1>3, <2>3
  <2> QED BY <1>7, <2>1, <2>2, <2>3, <2>4, <2>5
<1>9. ASSUME NEW s \in DOMAIN r
      PROVE  /\ r[s].rank <= Cardinality({t \in DOMAIN r : r[t].campus = r[s].campus})
             /\ r[s].globalRank <= Cardinality(DOMAIN r)
  <2>1. Place(e, s) <= Cardinality(DOMAIN e)
    BY <1>3, <1>6, EntriesMeasured, PlacesInOrder
  <2>2. Place(peers(s), s) <= Cardinality(DOMAIN peers(s))
    <3>1. s \in DOMAIN peers(s)
      BY <1>3, <1>7
    <3> QED BY <1>6, <3>1, EntriesMeasured, PlacesInOrder
  <2>3. {t \in DOMAIN r : r[t].campus = r[s].campus} = DOMAIN peers(s)
    BY <1>3 DEF PeersIn
  <2> QED BY <1>3, <1>7, <2>1, <2>2, <2>3
<1>10. \A q : DOMAIN RankEntries(squad(q)) = DOMAIN squad(q)
  BY DEF RankEntries
<1>11. ASSUME NEW q
       PROVE  LET list == Narrowed(b, q)
              IN \A s, t \in DOMAIN list :
                    list[s].rank < list[t].rank <=> board[b][s].globalRank < board[b][t].globalRank
  BY <1>4, <1>8, <1>10 DEF r
<1>12. ASSUME NEW s \in Shown(b)
       PROVE  LET me == MyRank(b, s) IN me.rank <= me.total /\ me.globalRank <= me.globalTotal
  <2> DEFINE me == MyRank(b, s)
  <2>1. s \in DOMAIN r
    BY <1>2
  <2>2. /\ me.rank = r[s].rank /\ me.total = Cardinality({t \in DOMAIN r : r[t].campus = r[s].campus})
        /\ me.globalRank = r[s].globalRank /\ me.globalTotal = Cardinality(DOMAIN r)
    BY <1>5
  <2> HIDE DEF me
  <2>3. me.rank <= me.total /\ me.globalRank <= me.globalTotal
    BY <1>9, <2>1, <2>2
  <2> QED BY <2>3 DEF me
<1> QED BY <1>11, <1>12 DEF ReadsAgree

LEMMA FollowsMeans ==
  ASSUME NEW b, NEW rows, Follows(b, rows, row, active)
  PROVE  FollowsRows(b, rows)
<1>1. Ranked(b[2]) = RankedOf(row, active, b[2])
  BY DEF Ranked, RankedOf
<1>2. [s \in Ranked(b[2]) |-> Entry(row[s], b[2], 0)] = Now(row, active, b[2])
  BY <1>1 DEF Now
<1> QED BY <1>2 DEF Follows, FollowsRows, SameFigures, MembersOf

LEMMA InvMeans == Inv => BoardsCorrect
<1> SUFFICES ASSUME Inv, NEW b \in AllBoards
             PROVE  /\ {"overlap", "status"} \subseteq env \/ IsRanking(b[1], board[b])
                    /\ b[1] = "student" /\ "status" \notin env => ReadsAgree(b)
                    /\ Alone /\ env \cap {"crash", "overlap", "status"} = {} => FollowsRows(b, board[b])
  BY DEF BoardsCorrect
<1>1. {"overlap", "status"} \subseteq env \/ IsRanking(b[1], board[b])
  BY DEF Inv, Kept, BoardsRanked
<1>2. b[1] = "student" /\ "status" \notin env => ReadsAgree(b)
  BY ReadsFollow
<1>3. ASSUME Alone, Quiet PROVE FollowsRows(b, board[b])
  <2>1. \A p \in Procs : Waiting(proc[p]) = {}
    BY <1>3 DEF Alone, At, Waiting
  <2>2. Follows(b, board[b], row, active)
    BY <1>3, <2>1 DEF Inv, Kept, Followed
  <2> QED BY <2>2, FollowsMeans
<1> QED BY <1>1, <1>2, <1>3 DEF Quiet

-----------------------------------------------------------------------------
LEMMA InvStarts == Init => Inv
<1> SUFFICES ASSUME Init PROVE Inv
  OBVIOUS
<1>1. Kept /\ Stored
  BY InitKept, InitStored
<1> QED BY <1>1, TypesAre DEF Inv

LEMMA InvStays == Inv /\ [Next]_vars => Inv'
<1> SUFFICES ASSUME Inv, [Next]_vars PROVE Inv'
  OBVIOUS
<1>1. ASSUME NEW p \in Procs, NEW s \in Students, NEW new \in {{}} \cup {{x} : x \in Problems \X Days},
             Sync(p, s, new)
      PROVE  Stored' /\ Kept'
  <2>1. new \subseteq Problems \X Int /\ Cardinality(new) \in Nat
    BY NewWork
  <2> QED BY <1>1, <2>1, SyncKeeps
<1>2. ASSUME NEW p \in Procs,
             NightlyRollup(p) \/ RecomputeStale(p)
               \/ \E d \in Days : Reconcile(p, d) \/ RemoveAssignment(p, d) \/ Reset(p, d)
      PROVE  Stored' /\ Kept'
  BY <1>2, StartsKeep
<1>3. ASSUME NEW p \in Procs, Step(p) PROVE Stored' /\ Kept'
  BY <1>3, StepKeeps
<1>4. ASSUME (\E p \in Procs : Crash(p)) \/ (\E s \in Students : SetStatus(s)) \/ Deploy \/ UNCHANGED vars
      PROVE  Stored' /\ Kept'
  BY <1>4, OthersKeep
<1>5. Stored' /\ Kept'
  BY <1>1, <1>2, <1>3, <1>4, Zenon DEF Next
<1>6. Kept' => (TypeOK' <=> Stored')
  BY TypesAre, PTL
<1> QED BY <1>5, <1>6 DEF Inv

(* Every table and every job has its type (TypeOK). *)
THEOREM Typing == Spec => []TypeOK
<1>1. Inv => TypeOK
  BY DEF Inv
<1> QED BY <1>1, InvStarts, InvStays, PTL DEF Spec

(* Whichever jobs wrote at once, a stored board is one competition-style   *)
(* ranking and what is read off it agrees with it; once no job is under    *)
(* way it holds the figures of the stored rows (BoardsCorrect).            *)
THEOREM BoardsStand == Spec => []BoardsCorrect
  BY InvStarts, InvStays, InvMeans, PTL DEF Spec
=============================================================================

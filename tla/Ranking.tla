------------------------------- MODULE Ranking -------------------------------
(***************************************************************************)
(* The pure rules of a leaderboard (packages/shared/src/domain/ranking.ts, *)
(* time.ts): how entries are ordered, ranked and tied, how a squad becomes *)
(* one entry, and the periods a day belongs to.  An entry is a record of   *)
(* the five figures that matter; averages and percentages are kept in      *)
(* hundredths, as the code rounds them.                                    *)
(***************************************************************************)
EXTENDS Integers, FiniteSets, FiniteSetsExt, Functions, Orderings

Never == 1440       \* the null minute of day: after every minute there is

Rounded(n, m) == (2 * n + m) \div (2 * m)
Hundredths(n, m) == IF m = 0 THEN 0 ELSE Rounded(100 * n, m)

-----------------------------------------------------------------------------
(* compareForRanking, up to the name and id, which only order ties.        *)
Merits(e) == <<e.score, e.solved, Never - e.minute, e.streak, e.consistency>>

Ahead(a, b) ==
    LET m == Merits(a)
        n == Merits(b)
    IN \E i \in 1 .. 5 : m[i] > n[i] /\ \A j \in 1 .. i - 1 : m[j] = n[j]

IsTie(a, b) == Merits(a) = Merits(b)

(* Broken variant: a tie takes no place, so the next entry follows on. *)
RankAtDense(sorted, i) ==
    Cardinality({j \in 1 .. i : j = 1 \/ ~ IsTie(sorted[j - 1], sorted[j])})

(* A tie reuses the rank of its first entry, any other entry's rank is its *)
(* position.                                                               *)
RankAt(sorted, i) == Max({j \in 1 .. i : j = 1 \/ ~ IsTie(sorted[j - 1], sorted[j])})

(* rankEntries, for a function from ids to entries.                        *)
Sorted(entries) ==
    CHOOSE ids \in Orderings(DOMAIN entries, LAMBDA a, b : Ahead(entries[a], entries[b])) : TRUE

RankEntries(entries) ==
    LET ids == Sorted(entries)
        order == [i \in DOMAIN ids |-> entries[ids[i]]]
        rank == [id \in DOMAIN entries |-> RankAt(order, CHOOSE i \in DOMAIN ids : ids[i] = id)]
    IN [id \in DOMAIN entries |->
          [rank |-> rank[id],
           tied |-> \E other \in DOMAIN entries \ {id} : rank[other] = rank[id]]]

-----------------------------------------------------------------------------
(* aggregateSquad: averages of the members, the median minute of those who *)
(* completed.                                                              *)
MedianMinute(members) ==
    LET done == {m \in DOMAIN members : members[m].minute # Never}
        order == CHOOSE o \in Orderings(done, LAMBDA a, b : members[a].minute < members[b].minute) : TRUE
    IN IF done = {} THEN Never ELSE members[order[(Cardinality(done) - 1) \div 2 + 1]].minute

AggregateSquad(members) ==
    LET n == Cardinality(DOMAIN members)
    IN [score |-> Hundredths(SumFunction([m \in DOMAIN members |-> members[m].score]), n),
        solved |-> SumFunction([m \in DOMAIN members |-> members[m].solved]),
        minute |-> MedianMinute(members),
        streak |-> Hundredths(SumFunction([m \in DOMAIN members |-> members[m].streak]), n),
        consistency |-> Rounded(SumFunction([m \in DOMAIN members |-> members[m].consistency]), n),
        members |-> n]

-----------------------------------------------------------------------------
(* The periods of a day, with weeks and months of a given length; a period *)
(* may end after today.                                                    *)
Span(kind, length, d) ==
    LET first == ((d - 1) \div length) * length + 1
    IN [kind |-> kind, from |-> first, to |-> first + length - 1]

PeriodsOf(d, week, month) ==
    <<Span("DAILY", 1, d), Span("WEEKLY", week, d), Span("MONTHLY", month, d)>>
=============================================================================

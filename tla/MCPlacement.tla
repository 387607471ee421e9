----------------------------- MODULE MCPlacement -----------------------------
(* An instance of Placement for TLC: two campuses, one with two batches,    *)
(* and two students.                                                        *)
EXTENDS Placement

Home(c, b) == [campus |-> c, batch |-> b]
Nowhere == Home(None, None)
CampusOfBatch == [b \in Batches |-> IF b = "b1" THEN "B" ELSE "A"]

Unplaced == [s \in Students |-> IF s = "s1" THEN Home("A", None) ELSE Nowhere]
Placed == [s \in Students |-> IF s = "s1" THEN Home("A", "a1") ELSE Home("B", "b1")]
OneAway == [s \in Students |-> IF s = "s1" THEN Home("A", "a1") ELSE Nowhere]

Entry(owner, namesakes, batch) == [owner |-> owner, namesakes |-> namesakes, batch |-> batch]
Roster(campus, overwrite, archive, entries) ==
    [campus |-> campus, overwrite |-> overwrite, archive |-> archive, rows |-> entries]

Both == Roster("A", TRUE, TRUE, <<Entry("s1", {"s2"}, "a1"), Entry("s2", {}, "a2")>>)
Rosters == {Both, Roster("A", TRUE, TRUE, <<Entry("s2", {}, "a1")>>),
            Roster("A", FALSE, TRUE, <<Entry("s1", {}, "a2")>>),
            Roster("B", TRUE, FALSE, <<Entry("s1", {}, "b1")>>)}
BlankRoster == Roster("B", TRUE, FALSE, <<Entry("s1", {}, None)>>)

Env(may, start, targets, rosters) == [may |-> may, start |-> start, targets |-> targets, rosters |-> rosters]
Anywhere == Batches \cup {None}

OneAtATime == {Env({"create", "move", "transfer", "bulk", "remove"}, Unplaced, Anywhere, {}),
               Env({"create", "move", "update", "remove"}, Unplaced, Anywhere, {}),
               Env({"move", "bulk", "import", "crash"}, Unplaced, {"a1"}, {BlankRoster} \cup Rosters),
               Env({"update", "transfer", "import", "deleteBatch", "crash"}, Unplaced, {"a1", None},
                   {Both, BlankRoster})}
Overlapping == {Env({"overlap", "move", "transfer"}, Placed, Batches, {}),
                Env({"overlap", "create", "move", "remove", "deleteBatch", "crash"}, Placed, Batches, {}),
                Env({"overlap", "flaky", "import", "transfer"}, OneAway, {"b1"}, Rosters)}
WithDeletion == {Env({"create", "move", "deleteBatch"}, Unplaced, Batches, {})}
Usual == OneAtATime \cup Overlapping \cup WithDeletion
=============================================================================

------------------------- MODULE MCReadingSessions -------------------------
(* Small instances of ReadingSessions for TLC. *)
EXTENDS ReadingSessions

CONSTANTS l1, l2, grimmory, bookorbit

BothOrder == <<grimmory, bookorbit>>
Ids(g, b) == [d \in Dests |-> IF d = grimmory THEN g ELSE b]
Move(delta, ids, complete) ==
    [delta |-> delta, ids |-> ids, wide |-> TRUE, complete |-> complete]
Narrow(move) == [move EXCEPT !.wide = FALSE]
Most(seen, kinds) ==
    [k \in Kinds |-> IF k = "seen" THEN seen ELSE IF k \in kinds THEN 1 ELSE 0]
Plan(clients, moves, off, most) ==
    [clients |-> clients, moves |-> moves, down |-> off, most |-> most]

\* How sittings are cut: rewinds, slow and fast reading, completion, two clients.
Reads == {Move(0, Ids(None, None), FALSE), Move(1, Ids(None, None), FALSE),
          Move(3, Ids(None, None), FALSE), Move(3, Ids(None, None), TRUE)}
Cuts == {Plan({l1, l2}, Reads, {}, Most(2, {"elsewhere", "removed", "account"})),
         Plan({l1, l2}, Reads, {}, Most(3, {}))}

\* Ids that are unknown, become known and change.
Resolving == {Plan({l1}, {Move(2, Ids(1, 1), FALSE), Move(2, Ids(None, 1), FALSE),
                          Move(2, Ids(2, None), FALSE)}, {}, Most(3, {}))}

\* Two sessions to deliver.
Finished == {Move(2, Ids(1, 1), TRUE)}
Deliver(off, kinds) == Plan({l1}, Finished, off, Most(2, kinds))
Outages == {Deliver({d}, {k, "restart"}) : d \in Dests, k \in {"setting", "removed", "account"}}
Mishaps == {Deliver({}, kinds) : kinds \in {{"lost", "blind"}, {"refused", "covered"},
                                              {"removed", "restart"}}}

\* Sessions that are too narrow to be found, and one that becomes so.
Unseen == {Plan({l1}, {Narrow(m) : m \in Finished}, {}, Most(1, {"lost", "restart", "covered"})),
           Plan({l1}, {Move(2, Ids(1, 1), FALSE), Narrow(Move(2, Ids(1, 1), TRUE))}, {},
                Most(2, {"lost"}))}

Explored == Cuts \cup Resolving \cup Outages \cup Mishaps \cup Unseen

\* One destination does not answer.
HeldUp == {Deliver({grimmory}, {})}
=============================================================================

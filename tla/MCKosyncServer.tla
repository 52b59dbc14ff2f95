--------------------------- MODULE MCKosyncServer ---------------------------
(* Small instances of KosyncServer for TLC. *)
EXTENDS KosyncServer, TLC

CONSTANTS u1, u2, d1, d2, h1, h2, s1, s2

Install(users, devices, docs, top, trailLength, furthest, kinds) ==
    [users |-> users, devices |-> devices, anonymous |-> {}, docs |-> docs,
     siblings |-> docs \ {Exact}, slots |-> {s1}, top |-> top, trail |-> trailLength,
     furthestWins |-> furthest, cycleKinds |-> kinds, serial |-> TRUE]

Readers == {{u1}, {u2}}
Devs == {{d1}, {d2}}

\* Two devices of one reader on one hash, alone with a longer trail or with
\* bridge writes in between.
Rewinding == {Install(u, {d1, d2}, {h1}, 2, 3, TRUE, {}) : u \in Readers}
             \cup {Install(u, {d1, d2}, {h1}, 2, 2, TRUE, {"write"}) : u \in Readers}

\* Two devices, one without a device_id, and a document that belongs to no book.
Unlinked ==
    {[Install(u, {d1, d2}, {h1, h2}, 1, 1, TRUE, {"fill"})
        EXCEPT !.anonymous = d, !.siblings = {}] : u \in Readers, d \in Devs}

\* Two readers of one file; decisions and stores are separated.
Shared ==
    {[Install({u1, u2}, d, {h1}, 1, 1, FALSE, {"write", "clear"})
        EXCEPT !.serial = FALSE] : d \in Devs}

\* One reader with two hashes of a book: approved rewinds and clears.
Hashes == {Install(u, d, {h1, h2}, 2, 1, FALSE, {"rewind", "lead", "clear"}) :
              u \in Readers, d \in Devs}

\* Two devices whose reports race, where the furthest position wins.
Racing ==
    {[Install(u, {d1, d2}, {h1}, 2, 2, TRUE, {})
        EXCEPT !.serial = FALSE, !.slots = {s1, s2}] : u \in Readers}

Installs == Rewinding \cup Unlinked \cup Shared \cup Racing \cup Hashes

Retiring == {Install({u1}, {d1}, {h1, h2}, 2, 1, TRUE, {"rewind"})}

\* Accounts are interchangeable, and so are reading devices and request threads.
ReaderSymmetry ==
    Permutations({u1, u2}) \union Permutations({d1, d2}) \union Permutations({s1, s2})

==============================================================================

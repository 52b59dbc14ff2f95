---------------------------- MODULE KosyncServer ----------------------------
(***************************************************************************)
(* The built-in KoSync server for one book that several accounts read, on  *)
(* several devices and from several EPUB builds (document hashes): what a  *)
(* progress PUT may change, what it is judged by, and what a GET answers.  *)
(*                                                                         *)
(* The server answers requests on concurrent threads.  A PUT reads the     *)
(* stored rows and decides, then stores: two actions, with anything in     *)
(* between unless Serial.  The bridge's own writes are PUTs too, made by   *)
(* the one sync cycle that runs at a time, which saves its State at its    *)
(* end.  Positions are whole numbers, 0 for the start of the book.  Only    *)
(* the bridge's own client sends the "force" flag that passes every gate.  *)
(***************************************************************************)
EXTENDS Integers, Sequences, FiniteSets, SequencesExt, FiniteSetsExt

CONSTANTS
    Bridge,     \* the name under which the bridge's own PUTs come
    Exact,      \* book.kosync_doc_id, the hash the bridge itself writes
    Setups,     \* the installs a run looks at
    NoRow, NoUser, NoDev

VARIABLE setup  \* the install the behaviour is about; it never changes

Users == setup.users
Devices == setup.devices
Anonymous == setup.anonymous        \* the devices that send no device_id
Docs == setup.docs                  \* hashes that are or may become linked to the book
Siblings == setup.siblings          \* hashes a filename or checksum lookup resolves to it
Pct == 0 .. setup.top
Slots == setup.slots                \* device requests that can be in progress at once
MaxTrail == setup.trail             \* _MAX_TRAIL_ENTRIES
FurthestWins == setup.furthestWins  \* KOSYNC_FURTHEST_WINS
CycleKinds == setup.cycleKinds      \* what the cycle may do to KoSync, of
                                    \* {"write", "rewind", "fill", "lead", "clear"}
Serial == setup.serial              \* a PUT's decision and store are not separated

ASSUME SetupAssumption ==
    \A s \in Setups :
        /\ Exact \in s.docs /\ s.siblings \subseteq s.docs
        /\ s.anonymous \subseteq s.devices
        /\ Bridge \notin s.devices /\ NoDev \notin s.devices /\ NoUser \notin s.users
        /\ s.top \in Nat /\ s.trail \in Nat \ {0}
        /\ {s.furthestWins, s.serial} \subseteq BOOLEAN
        /\ s.cycleKinds \subseteq {"write", "rewind", "fill", "lead", "clear"}

\* The missing row is no row.
ASSUME NoRowAssumption ==
    \A s \in Setups :
        /\ NoRow \notin [pct : 0..s.top, dev : s.devices \union {Bridge, NoDev}, owner : s.users]
        /\ NoRow \notin [pct : 0..s.top, dev : s.devices \union {Bridge}, old : BOOLEAN]
        /\ NoRow \notin [pct : 0..s.top, cut : BOOLEAN]

VARIABLES
    access,   \* users with a UserBook claim on the book
    shared,   \* kosync_documents: [pct, dev, owner] or NoRow, per hash
    linked,   \* hashes whose document row names the book
    row,      \* kosync_user_progress: [pct, dev, old] or NoRow, per user and hash;
              \* old: written before the user's last approved rewind
    state,    \* the user's "kosync" State: [pct, cut] or NoRow; cut: it carries
              \* kosync_approved_rewind_at
    trail,    \* observation_trail of the book, per user, oldest first
    anchor,   \* _discovery_anchor_cache of the rewind gate, -1 for no entry
    event,    \* users with a pending debounce entry for the book
    inflight, \* the device PUT a slot has decided and not yet stored, or NoRow
    cycle     \* the write of the running sync cycle, or NoRow

vars == <<setup, access, shared, linked, row, state, trail, anchor, event, inflight, cycle>>

Init ==
    /\ setup \in Setups
    /\ access \in SUBSET Users
    /\ shared = [h \in Docs |-> NoRow]
    /\ linked = {}
    /\ row = [u \in Users |-> [h \in Docs |-> NoRow]]
    /\ state = [u \in Users |-> NoRow]
    /\ trail = [u \in Users |-> <<>>]
    /\ anchor = [u \in Users |-> [h \in Docs |-> [d \in Devices |-> [b \in Pct |-> -1]]]]
    /\ event = {}
    /\ inflight = [s \in Slots |-> NoRow]
    /\ cycle = NoRow

\* Nothing comes between a PUT's decision and its store when Serial.
Free ==
    Serial => /\ \A s \in Slots : inflight[s] = NoRow
              /\ cycle # NoRow => cycle.stage # "put"

-----------------------------------------------------------------------------
(* The observation trail. *)

\* record_observation: a repeat of the last report by the same device is
\* folded into it; the oldest entry goes when the trail is full.
Observe(t, d, p) ==
    LET e == [dev |-> d, pct |-> p] IN
    IF t # <<>> /\ Last(t) = e THEN t
    ELSE IF Len(t) = MaxTrail THEN Append(Tail(t), e)
    ELSE Append(t, e)

\* evaluate(device=d): since that device's last backward step it reported at
\* least twice and moved forward at least once.
Corroborated(t, d) ==
    LET mine == {i \in DOMAIN t : t[i].dev = d} IN
    \E i, j \in mine :
        /\ i < j /\ t[i].pct < t[j].pct
        /\ \A k, l \in mine : i <= k /\ k < l => t[k].pct <= t[l].pct

-----------------------------------------------------------------------------
(* What a PUT is judged by. *)

Resolves(h) == h \in linked \union Siblings \union {Exact}

Position(r) == IF r = NoRow THEN 0 ELSE r.pct

\* The reader's own row, else the shared row when it is theirs.
ReaderRow(u, h) ==
    IF row[u][h] # NoRow THEN row[u][h]
    ELSE IF shared[h] # NoRow /\ shared[h].owner = u THEN shared[h] ELSE NoRow

\* The position a device's PUT must not regress and the device that claimed
\* it; a hash without a position of its own is judged by the user's State.
Baseline(u, h) ==
    LET own == ReaderRow(u, h) IN
    IF Position(own) > 0 THEN [pct |-> own.pct, dev |-> own.dev, fromState |-> FALSE]
    ELSE IF Resolves(h) THEN [pct |-> Position(state[u]), dev |-> NoDev, fromState |-> TRUE]
    ELSE [pct |-> 0, dev |-> NoDev, fromState |-> FALSE]

Unclaimed(base) == ~base.fromState /\ base.dev \in {NoDev, Bridge} \union Anonymous

\* Mutant: a device is always believed about its own earlier position.
BackwardTrustsSameDevice(base, d, h, p) ==
    FurthestWins /\ p < base.pct /\ base.dev # d

Backward(base, d, h, p) ==
    /\ FurthestWins
    /\ p < base.pct
    /\ Resolves(h) \/ base.dev # d \/ d \in Anonymous

\* _discovery_anchor_may_match with the gate's baseline as key: the device
\* moved forward since its last report below this same baseline.
Moved(u, h, d, b, p) == anchor[u][h][d][b] # -1 /\ p > anchor[u][h][d][b]

-----------------------------------------------------------------------------
(* PUT by a reading device: the decision. *)

\* A report on the book is recorded before the gate can refuse it.
Observed(u, d, h, p) ==
    IF Resolves(h) THEN [trail EXCEPT ![u] = Observe(@, d, p)] ELSE trail

Accept(s, u, d, h, p) ==
    inflight' = [inflight EXCEPT ![s] =
        [u |-> u, d |-> d, h |-> h, p |-> p, snap |-> shared[h], wasLinked |-> h \in linked]]

\* A user without a claim on the book only gets the own row written.
DevicePutWithoutAccess(u, d, h, p) ==
    /\ Free
    /\ Resolves(h)
    /\ u \notin access
    /\ row' = [row EXCEPT ![u][h] = [pct |-> p, dev |-> d, old |-> FALSE]]
    /\ UNCHANGED <<access, shared, linked, state, trail, anchor, event, inflight, cycle>>

DevicePutForward(s, u, d, h, p) ==
    /\ Free
    /\ inflight[s] = NoRow
    /\ Resolves(h) => u \in access
    /\ ~Backward(Baseline(u, h), d, h, p)
    /\ trail' = Observed(u, d, h, p)
    /\ Accept(s, u, d, h, p)
    /\ UNCHANGED <<access, shared, linked, row, state, anchor, event, cycle>>

\* Furthest wins.  Going back in the book needs the device to have read on from
\* there, by the trail and by the anchor, which success uses up.
DevicePutRewind(s, u, d, h, p) ==
    LET b     == Baseline(u, h).pct
        seen  == Observed(u, d, h, p)
        moved == Moved(u, h, d, b, p)
        proof == moved /\ Corroborated(seen[u], d)
    IN
    /\ Free
    /\ inflight[s] = NoRow
    /\ Resolves(h)
    /\ u \in access
    /\ Backward(Baseline(u, h), d, h, p)
    /\ trail' = seen
    /\ anchor' = [anchor EXCEPT ![u][h][d][b] = IF proof THEN -1 ELSE p]
    /\ IF proof THEN Accept(s, u, d, h, p) ELSE UNCHANGED inflight
    /\ UNCHANGED <<access, shared, linked, row, state, event, cycle>>

\* Mutant: nobody defends the position of an unlinked document.
UnlinkedRewindUndefended(s, u, d, h, p) ==
    /\ Free
    /\ inflight[s] = NoRow
    /\ ~Resolves(h)
    /\ Backward(Baseline(u, h), d, h, p)
    /\ Accept(s, u, d, h, p)
    /\ UNCHANGED <<access, shared, linked, row, state, trail, anchor, event, cycle>>

\* In a document that belongs to no book yet, a higher position that no device
\* claimed has nobody to defend it (a claimed one is kept: nothing happens).
DevicePutUnclaimedRewind(s, u, d, h, p) ==
    /\ Free
    /\ inflight[s] = NoRow
    /\ ~Resolves(h)
    /\ Backward(Baseline(u, h), d, h, p)
    /\ Unclaimed(Baseline(u, h))
    /\ Accept(s, u, d, h, p)
    /\ UNCHANGED <<access, shared, linked, row, state, trail, anchor, event, cycle>>

-----------------------------------------------------------------------------
(* PUT by a reading device: the store. *)

OwnedByOther(snap, u) == snap # NoRow /\ snap.owner \notin {NoUser, u}

\* A hash found by filename is not linked under another reader's feet.
MayLink(h, u, snap) ==
    \/ h = Exact
    \/ /\ h \in Siblings
       /\ ~OwnedByOther(snap, u)
       /\ \A v \in Users \ {u} : row[v][h] = NoRow

\* The document row is saved as it was read, its link included.
StoreDevicePut(s) ==
    LET r == inflight[s] IN
    /\ r # NoRow
    /\ shared' = [shared EXCEPT ![r.h] = [pct |-> r.p, dev |-> r.d, owner |-> r.u]]
    /\ linked' = IF r.wasLinked \/ MayLink(r.h, r.u, r.snap)
                 THEN linked \union {r.h} ELSE linked \ {r.h}
    /\ row' = [row EXCEPT ![r.u][r.h] = [pct |-> r.p, dev |-> r.d, old |-> FALSE]]
    /\ IF r.u \in access /\ (r.wasLinked \/ r.h \in Siblings \union {Exact})
       THEN /\ state' = [state EXCEPT ![r.u] = [pct |-> r.p, cut |-> FALSE]]
            /\ event' = event \union {r.u}
       ELSE UNCHANGED <<state, event>>
    /\ inflight' = [inflight EXCEPT ![s] = NoRow]
    /\ cycle' = IF cycle # NoRow /\ cycle.u = r.u
                THEN [cycle EXCEPT !.before = @ \ {r.h}] ELSE cycle
    /\ UNCHANGED <<access, trail, anchor>>

-----------------------------------------------------------------------------
(* GET: what a reader is told, and what asking changes. *)

\* _respond_from_book_states for a linked hash; -1 stands for 404.
Respond(u) ==
    LET own    == {h \in linked : row[u][h] # NoRow}
        \* Shared rows stand in for a user with no row of their own.
        lent   == {h \in linked : shared[h] # NoRow /\ shared[h].owner = u}
        cut    == state[u] # NoRow /\ state[u].cut
        told   == IF own # {} THEN {row[u][h].pct : h \in {g \in own : ~(cut /\ row[u][g].old)}}
                  ELSE {shared[h].pct : h \in lent}
        best   == Max(told \union {0})
    IN  IF best > Position(state[u]) THEN best
        ELSE IF state[u] = NoRow THEN -1 ELSE state[u].pct

\* A reader without a claim on the book is deferred: no position at all.
Answer(u, h) ==
    IF h \notin linked THEN Position(ReaderRow(u, h))
    ELSE IF u \in access THEN Respond(u) ELSE -1

\* Mutant: the hash is linked, its document is not created.
GetLinksOnly(u, h) ==
    /\ Free
    /\ h \notin linked
    /\ u \in access
    /\ Resolves(h)
    /\ linked' = linked \union {h}
    /\ UNCHANGED <<access, shared, row, state, trail, anchor, event, inflight, cycle>>

\* A GET registers a hash that resolves to the book.
GetRegisters(u, h) ==
    /\ Free
    /\ h \notin linked
    /\ u \in access
    /\ \/ shared[h] = NoRow /\ Resolves(h)
       \/ shared[h] # NoRow /\ h \in Siblings /\ MayLink(h, u, shared[h])
       \/ shared[h] # NoRow /\ h = Exact /\ Position(ReaderRow(u, h)) = 0
    /\ linked' = linked \union {h}
    /\ shared' = IF shared[h] = NoRow
                 THEN [shared EXCEPT ![h] = [pct |-> 0, dev |-> NoDev, owner |-> u]]
                 ELSE shared
    /\ UNCHANGED <<access, row, state, trail, anchor, event, inflight, cycle>>

-----------------------------------------------------------------------------
(* The sync cycle's write to KoSync, for one user at a time. *)

Write(kind, u, p, cut, rewind) ==
    [kind |-> kind, stage |-> "put", u |-> u, p |-> p, cut |-> cut, rewind |-> rewind,
     snap |-> shared[Exact], before |-> {h \in Docs : row[u][h] # NoRow}]

HasCut(u) == state[u] # NoRow /\ state[u].cut

\* KosyncSyncClient.update_progress: after an approved rewind the cutoff is
\* now, otherwise the State's is kept.
CycleWrites(u, p, rewind) ==
    /\ Free
    /\ cycle = NoRow
    /\ IF rewind THEN "rewind" \in CycleKinds ELSE "write" \in CycleKinds
    /\ u \in access
    /\ cycle' = Write("write", u, p, rewind \/ HasCut(u), rewind)
    /\ UNCHANGED <<access, shared, linked, row, state, trail, anchor, event, inflight>>

\* A follower that has no position gets one with fill_if_absent, which the
\* server refuses when it holds a position or a State of this user.
CycleFills(u, p) ==
    /\ Free
    /\ cycle = NoRow
    /\ "fill" \in CycleKinds
    /\ u \in access
    /\ Position(ReaderRow(u, Exact)) = 0
    /\ state[u] = NoRow
    /\ cycle' = Write("fill", u, p, FALSE, FALSE)
    /\ UNCHANGED <<access, shared, linked, row, state, trail, anchor, event, inflight>>

\* KoSync leads: nothing is written here, the position it answered is saved.
CycleFollowsKosync(u, rewind) ==
    /\ Free
    /\ cycle = NoRow
    /\ {"lead"} \union (IF rewind THEN {"rewind"} ELSE {}) \subseteq CycleKinds
    /\ u \in access
    /\ Answer(u, Exact) > 0
    /\ cycle' = [Write("lead", u, Answer(u, Exact), rewind \/ HasCut(u), rewind)
                 EXCEPT !.stage = "save"]
    /\ UNCHANGED <<access, shared, linked, row, state, trail, anchor, event, inflight>>

\* clear_progress deletes the user's State, has every client write 0, and ends
\* in ClearEnds; it holds the sync lock, so it is a cycle of its own here.
ClearProgress(u) ==
    /\ Free
    /\ cycle = NoRow
    /\ "clear" \in CycleKinds
    /\ u \in access
    /\ state' = [state EXCEPT ![u] = NoRow]
    /\ cycle' = Write("clear", u, 0, FALSE, FALSE)
    /\ UNCHANGED <<access, shared, linked, row, trail, anchor, event, inflight>>

\* Mutant: the bridge writes into whoever's shared row is there.
BridgeSharedIgnoresOwner(c) ==
    [shared EXCEPT ![Exact] =
        IF c.snap = NoRow THEN [pct |-> c.p, dev |-> Bridge, owner |-> c.u]
        ELSE [c.snap EXCEPT !.pct = c.p]]

\* The shared row is left alone when another user owns it; otherwise the
\* device that reported last keeps its name on it.
BridgeShared(c) ==
    IF OwnedByOther(c.snap, c.u) THEN shared
    ELSE [shared EXCEPT ![Exact] =
            IF c.snap = NoRow THEN [pct |-> c.p, dev |-> Bridge, owner |-> c.u]
            ELSE [c.snap EXCEPT !.pct = c.p]]

StoreBridgePut ==
    /\ cycle # NoRow
    /\ cycle.stage = "put"
    /\ shared' = BridgeShared(cycle)
    /\ linked' = linked \union {Exact}
    /\ row' = [row EXCEPT ![cycle.u][Exact] = [pct |-> cycle.p, dev |-> Bridge, old |-> FALSE]]
    /\ event' = {}
    /\ cycle' = [cycle EXCEPT !.stage = "save", !.before = @ \ {Exact}]
    /\ UNCHANGED <<access, state, trail, anchor, inflight>>

\* Mutant: the saved State loses the rewind's cutoff.
SaveStateWithoutCutoff ==
    /\ cycle # NoRow
    /\ Free
    /\ cycle.stage = "save" /\ cycle.kind # "clear"
    /\ state' = [state EXCEPT ![cycle.u] = [pct |-> cycle.p, cut |-> FALSE]]
    /\ cycle' = NoRow
    /\ UNCHANGED <<access, shared, linked, row, trail, anchor, event, inflight>>

\* At its end the cycle saves the State it wrote or followed.  An approved
\* rewind dates the rows written before it.
SaveCycleState ==
    LET c == cycle IN
    /\ c # NoRow
    /\ Free
    /\ c.stage = "save" /\ c.kind # "clear"
    /\ state' = [state EXCEPT ![c.u] = [pct |-> c.p, cut |-> c.cut]]
    /\ row' = IF ~c.rewind THEN row
              ELSE [row EXCEPT ![c.u] = [h \in Docs |->
                       IF row[c.u][h] # NoRow /\ (h \in c.before \/ c.kind = "lead")
                       THEN [row[c.u][h] EXCEPT !.old = TRUE] ELSE row[c.u][h]]]
    /\ cycle' = NoRow
    /\ UNCHANGED <<access, shared, linked, trail, anchor, event, inflight>>

\* A clear whose KoSync write failed goes on without saving a State.
ClearWriteFails ==
    /\ cycle # NoRow
    /\ cycle.kind = "clear" /\ cycle.stage = "put"
    /\ cycle' = [cycle EXCEPT !.stage = "reset"]
    /\ UNCHANGED <<access, shared, linked, row, state, trail, anchor, event, inflight>>

\* Mutant: only the State is cleared.
ClearLeavesRows ==
    /\ Free
    /\ cycle # NoRow
    /\ cycle.kind = "clear" /\ cycle.stage # "put"
    /\ state' = IF cycle.stage = "save"
                THEN [state EXCEPT ![cycle.u] = [pct |-> 0, cut |-> FALSE]] ELSE state
    /\ cycle' = NoRow
    /\ UNCHANGED <<access, shared, linked, row, trail, anchor, event, inflight>>

\* The 0% State, then reset_user_kosync_progress_for_book: every hash linked to
\* the book, and its own, gets a row of this user at 0.
ClearEnds ==
    LET u == cycle.u IN
    /\ Free
    /\ cycle # NoRow
    /\ cycle.kind = "clear" /\ cycle.stage # "put"
    /\ state' = IF cycle.stage = "save"
                THEN [state EXCEPT ![u] = [pct |-> 0, cut |-> FALSE]] ELSE state
    /\ row' = [row EXCEPT ![u] = [h \in Docs |->
                 IF h \in linked \union {Exact}
                 THEN [pct |-> 0, dev |-> Bridge, old |-> FALSE] ELSE row[u][h]]]
    /\ cycle' = NoRow
    /\ UNCHANGED <<access, shared, linked, trail, anchor, event, inflight>>

\* The write failed, or the process stopped before the State was saved.
CycleFails ==
    /\ cycle # NoRow
    /\ cycle' = NoRow
    /\ UNCHANGED <<access, shared, linked, row, state, trail, anchor, event, inflight>>

-----------------------------------------------------------------------------
(* Time and other parts of the program. *)

\* The debounce loop starts a sync cycle of this user for the book.
DebounceFires(u) ==
    /\ Free
    /\ u \in event
    /\ event' = event \ {u}
    /\ UNCHANGED <<access, shared, linked, row, state, trail, anchor, inflight, cycle>>

\* Ten minutes pass: evidence no longer counts.
EvidenceExpires(u) ==
    /\ Free
    /\ \/ trail[u] # <<>> /\ trail' = [trail EXCEPT ![u] = Tail(@)] /\ UNCHANGED anchor
       \/ \E h \in Docs, d \in Devices, b \in Pct :
            /\ anchor[u][h][d][b] # -1
            /\ anchor' = [anchor EXCEPT ![u][h][d][b] = -1]
            /\ UNCHANGED trail
    /\ UNCHANGED <<access, shared, linked, row, state, event, inflight, cycle>>

\* Auto-discovery, the hash reconciler or an administrator links a hash.
LinkDocument(h) ==
    /\ Free
    /\ shared[h] # NoRow /\ h \notin linked
    /\ linked' = linked \union {h}
    /\ UNCHANGED <<access, shared, row, state, trail, anchor, event, inflight, cycle>>

GrantAccess(u) ==
    /\ Free
    /\ u \notin access
    /\ access' = access \union {u}
    /\ UNCHANGED <<shared, linked, row, state, trail, anchor, event, inflight, cycle>>

-----------------------------------------------------------------------------

DevicePut(u, d, h, p) ==
    \/ DevicePutWithoutAccess(u, d, h, p)
    \/ \E s \in Slots : \/ DevicePutForward(s, u, d, h, p)
                        \/ DevicePutRewind(s, u, d, h, p)
                        \/ DevicePutUnclaimedRewind(s, u, d, h, p)

Cycle(u) ==
    \/ \E p \in Pct \ {0}, rewind \in BOOLEAN : CycleWrites(u, p, rewind)
    \/ \E p \in Pct \ {0} : CycleFills(u, p)
    \/ \E rewind \in BOOLEAN : CycleFollowsKosync(u, rewind)
    \/ ClearProgress(u)

Step ==
    \/ \E u \in Users, d \in Devices, h \in Docs, p \in Pct : DevicePut(u, d, h, p)
    \/ \E s \in Slots : StoreDevicePut(s)
    \/ \E u \in Users, h \in Docs : GetRegisters(u, h)
    \/ \E u \in Users : Cycle(u)
    \/ StoreBridgePut \/ SaveCycleState
    \/ ClearWriteFails \/ ClearEnds \/ CycleFails
    \/ \E u \in Users : DebounceFires(u) \/ EvidenceExpires(u) \/ GrantAccess(u)
    \/ \E h \in Docs : LinkDocument(h)

Next == Step /\ UNCHANGED setup

Spec == Init /\ [][Next]_vars

-----------------------------------------------------------------------------
(* Properties. *)

TypeOK ==
    /\ access \subseteq Users
    /\ linked \subseteq Docs /\ \A h \in linked : shared[h] # NoRow
    /\ \A h \in Docs : shared[h] # NoRow =>
          shared[h] \in [pct : Pct, dev : Devices \union {Bridge, NoDev}, owner : Users]
    /\ \A u \in Users, h \in Docs : row[u][h] # NoRow =>
          row[u][h] \in [pct : Pct, dev : Devices \union {Bridge}, old : BOOLEAN]
    /\ \A u \in Users : state[u] # NoRow => state[u] \in [pct : Pct, cut : BOOLEAN]
    /\ \A u \in Users : Len(trail[u]) <= MaxTrail
    /\ event \subseteq Users
    /\ cycle # NoRow => cycle.u \in access /\ cycle.p \in Pct

Touched(u) == row[u]' # row[u] \/ state[u]' # state[u]

\* One reader never moves another.  The rows of kosync_documents are shared by
\* everybody who reads the same file, yet what the server answers a reader for
\* any hash changes only in a step that changes that reader's own records, and no
\* step changes the records of two readers.  (Linking a hash to the book, and a
\* claim on the book, are exempt: they decide which records are asked.)
AnswersArePrivate ==
    [][ /\ \A u, v \in Users : Touched(u) /\ Touched(v) => u = v
        /\ linked' = linked /\ access' = access =>
             \A u \in Users : Touched(u) \/ \A h \in Docs : Answer(u, h)' = Answer(u, h) ]_vars

\* A stale reader that is merely opened never takes a reader back, where the
\* furthest position wins.  When a device's report for a hash of a book passes the
\* gate below the position stored there, that same device has reported two rising
\* positions, both below the stored one: it was opened there and read on.  While
\* requests do not race that holds of every stored position a device lowers; when
\* they do, one stored after the report was judged can still be replaced.
ReadOnBelow(t, d, b) ==
    \E i, j \in 1..Len(t) :
        i < j /\ t[i].dev = d /\ t[j].dev = d /\ t[i].pct < t[j].pct /\ t[j].pct < b
Passes(s) == inflight[s] = NoRow /\ inflight'[s] # NoRow
Lowered(u, h) == row' # row /\ Position(row[u][h]') < Position(row[u][h])
RewindNeedsReadingOn ==
    [][ FurthestWins =>
          /\ \A s \in Slots : Passes(s) =>
                LET r == inflight'[s]  stood == Position(row[r.u][r.h])
                IN  Resolves(r.h) /\ r.p < stood => ReadOnBelow(trail'[r.u], r.d, stood)
          /\ Serial => \A u \in access, h \in Docs :
                Resolves(h) /\ Lowered(u, h) /\ row[u][h]'.dev \in Devices
                => ReadOnBelow(trail[u], row[u][h]'.dev, row[u][h].pct) ]_vars

\* In a document that belongs to no book, where no trail is kept, a position
\* claimed by one device lets no lower report of another pass, if the furthest
\* wins, and while requests do not race it is not taken back by another.
ClaimedPositionStands ==
    [][ FurthestWins =>
          /\ \A s \in Slots : Passes(s) =>
                LET r == inflight'[s]  stood == row[r.u][r.h]
                IN  ~Resolves(r.h) /\ r.p < Position(stood)
                    /\ stood.dev \in Devices \ Anonymous => stood.dev = r.d
          /\ Serial => \A u \in Users, h \in Docs :
                ~Resolves(h) /\ Lowered(u, h) /\ row[u][h].dev \in Devices \ Anonymous
                => row[u][h]'.dev = row[u][h].dev ]_vars

\* An approved rewind takes effect on every hash of the book at once: when the
\* cycle has saved it, the reader is not sent ahead of it again, except by a
\* higher position that a device reported after that cycle had read the old ones.
RewindTakesEffect ==
    [][ cycle # NoRow /\ cycle' = NoRow /\ SaveCycleState /\ cycle.rewind =>
          \A u \in {cycle.u}, h \in linked : Answer(u, h)' > cycle.p =>
              \E g \in linked \ cycle.before :
                  /\ row[u][g] # NoRow /\ row[u][g].dev \in Devices
                  /\ row[u][g].pct > cycle.p ]_vars

\* A cleared book is at its start on every hash linked to it, whichever hash the
\* reader's devices ask with.
ClearReadsAsStart ==
    [][ cycle # NoRow /\ cycle' = NoRow /\ ClearEnds /\ cycle.stage = "save" =>
          \A u \in {cycle.u}, h \in linked \union {Exact} : Answer(u, h)' = 0 ]_vars

-----------------------------------------------------------------------------
(* What the source says of itself and does not do. *)

Quiescent == cycle = NoRow /\ \A s \in Slots : inflight[s] = NoRow

\* "Only a corroborated rewind can retire positions reported before that
\* rewind. Intentional rewinds still stick": a GET that answers with more than
\* the State answers with a position reported after the last approved rewind.
RetiredPositionStaysRetired ==
    Quiescent => \A u \in access :
        Respond(u) > Position(state[u]) =>
            \E h \in linked : row[u][h] # NoRow /\ ~row[u][h].old /\ row[u][h].pct = Respond(u)

==============================================================================

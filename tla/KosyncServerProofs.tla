------------------------- MODULE KosyncServerProofs -------------------------
(* What holds at the KoSync server for any installs: any readers, devices,  *)
(* document hashes, positions and slots.                                    *)
EXTENDS KosyncServer, FiniteSetTheorems, WellFoundedInduction, TLAPS

-----------------------------------------------------------------------------
(* The shape of the rows. *)

SharedRow == [pct : Pct, dev : Devices \union {Bridge, NoDev}, owner : Users]
OwnRow == [pct : Pct, dev : Devices \union {Bridge}, old : BOOLEAN]
Saved == [pct : Pct, cut : BOOLEAN]
Report == [dev : Devices, pct : Pct]
Request == [u : Users, d : Devices, h : Docs, p : Pct, snap : SharedRow \union {NoRow},
            wasLinked : BOOLEAN]
CycleWrite == [kind : {"write", "fill", "lead", "clear"}, stage : {"put", "save", "reset"},
               u : Users, p : Pct, cut : BOOLEAN, rewind : BOOLEAN,
               snap : SharedRow \union {NoRow}, before : SUBSET Docs]

Tables ==
    /\ access \subseteq Users /\ linked \subseteq Docs /\ event \subseteq Users
    /\ shared \in [Docs -> SharedRow \union {NoRow}]
    /\ row \in [Users -> [Docs -> OwnRow \union {NoRow}]]
    /\ state \in [Users -> Saved \union {NoRow}]
    /\ inflight \in [Slots -> Request \union {NoRow}]
    /\ cycle \in CycleWrite \union {NoRow}

Trails == trail \in [Users -> Seq(Report)] /\ \A u \in Users : Len(trail[u]) <= MaxTrail

\* A linked hash has its document row.
Registered == \A h \in linked : shared[h] # NoRow

\* A cycle works for a reader with a claim on the book, an approved rewind dates
\* the State it will save, and the document row it saw is still there.
CycleSound ==
    cycle # NoRow => /\ cycle.u \in access
                     /\ cycle.rewind => cycle.cut
                     /\ cycle.snap # NoRow => shared[Exact] # NoRow

\* Whoever's position a document row shows has a row of their own.
OwnedIsOwn ==
    \A h \in Docs : shared[h] # NoRow /\ shared[h].pct > 0 => row[shared[h].owner][h] # NoRow

IInv == setup \in Setups /\ Tables /\ Trails /\ Registered /\ CycleSound /\ OwnedIsOwn

-----------------------------------------------------------------------------
(* The install does not change, and what it fixes about the rows. *)

\* The install never changes.
LEMMA Fixed ==
    ASSUME setup' = setup
    PROVE  /\ Users' = Users /\ Devices' = Devices /\ Docs' = Docs /\ Pct' = Pct
           /\ Siblings' = Siblings /\ MaxTrail' = MaxTrail /\ Slots' = Slots
           /\ SharedRow' = SharedRow /\ OwnRow' = OwnRow /\ Saved' = Saved
           /\ Report' = Report /\ Request' = Request /\ CycleWrite' = CycleWrite
BY DEF Users, Devices, Docs, Pct, Siblings, MaxTrail, Slots, SharedRow, OwnRow, Saved, Report,
       Request, CycleWrite

\* What an install assumes, said of the one the behaviour is about.
LEMMA Install ==
    ASSUME setup \in Setups
    PROVE  /\ Exact \in Docs /\ Siblings \subseteq Docs /\ NoUser \notin Users
           /\ MaxTrail \in Nat \ {0} /\ setup.top \in Nat /\ Pct = 0 .. setup.top
           /\ NoRow \notin SharedRow /\ NoRow \notin OwnRow /\ NoRow \notin Saved
BY SetupAssumption, NoRowAssumption
   DEF Users, Devices, Docs, Pct, Siblings, MaxTrail, SharedRow, OwnRow, Saved

-----------------------------------------------------------------------------
(* The maximum of a bounded set of numbers. *)

\* A smallest set {y \in S : y > x} is empty, and its x is the maximum.
LEMMA Maximum ==
    ASSUME NEW n \in Nat, NEW S \in SUBSET (0 .. n), S # {}
    PROVE  Max(S) \in S /\ \A y \in S : Max(S) >= y
<1> DEFINE Above(x) == {y \in S : y > x}
           Family == {Above(x) : x \in S}
<1>1. IsFiniteSet(0 .. n)
  BY FS_Interval
<1>2. IsFiniteSet(S)
  BY <1>1, FS_Subset
<1>3. Family \subseteq FiniteSubsetsOf(S)
  BY <1>2, FS_FiniteSubsetsOfFinite
<1>4. Family # {}
  OBVIOUS
<1>5. \E U \in Family : \A V \in Family : <<V, U>> \notin StrictSubsetOrdering(S)
  <2>1. IsWellFoundedOn(StrictSubsetOrdering(S), FiniteSubsetsOf(S))
    BY FS_StrictSubsetOrderingWellFounded
  <2> HIDE DEF Family
  <2> QED
    BY <2>1, <1>3, <1>4, WFMin
<1>6. PICK x \in S : \A V \in Family : <<V, Above(x)>> \notin StrictSubsetOrdering(S)
  BY <1>5
<1>7. \A y \in S : ~(y > x)
  <2> SUFFICES ASSUME NEW y \in S, y > x PROVE FALSE
    OBVIOUS
  <2>0. \A z \in S : z \in Int
    OBVIOUS
  <2>1. /\ Above(y) \subseteq Above(x) 
        /\ y \in Above(x) /\ y \notin Above(y)
    <3>1. \A z \in S : z > y => z > x
      BY <2>0
    <3>2. ~(y > y)
      BY <2>0
    <3> QED
      BY <3>1, <3>2
  <2>2. <<Above(y), Above(x)>> \in StrictSubsetOrdering(S)
    BY <2>1 DEF StrictSubsetOrdering
  <2> QED
    BY <2>2, <1>6
<1>8. \A y \in S : x >= y
  BY <1>7
<1> QED
  BY <1>8 DEF Max

-----------------------------------------------------------------------------
(* What a reader is answered depends on nobody else's records. *)

\* Respond without the shared rows.
OwnRespond(u) ==
    LET own  == {h \in linked : row[u][h] # NoRow}
        cut  == state[u] # NoRow /\ state[u].cut
        told == {row[u][h].pct : h \in {g \in own : ~(cut /\ row[u][g].old)}}
        best == Max(told \union {0})
    IN  IF best > Position(state[u]) THEN best
        ELSE IF state[u] = NoRow THEN -1 ELSE state[u].pct

OwnAnswer(u, h) ==
    IF h \notin linked THEN Position(row[u][h])
    ELSE IF u \in access THEN OwnRespond(u) ELSE -1

\* A shared row that stands in for a missing one has no position to tell.
LEMMA LentIsEmpty ==
    ASSUME IInv, NEW u \in Users, NEW h \in Docs,
           shared[h] # NoRow, shared[h].owner = u, row[u][h] = NoRow
    PROVE  shared[h].pct = 0
<1>1. shared[h] \in SharedRow
  BY DEF IInv, Tables
<1>2. shared[h].pct \in 0 .. setup.top /\ setup.top \in Nat
  BY <1>1, Install DEF IInv, SharedRow
<1>3. ~(shared[h].pct > 0)
  BY DEF IInv, OwnedIsOwn
<1> QED
  BY <1>2, <1>3

\* With rows of one's own the shared ones are not asked; without, they tell nothing.
LEMMA RespondIsOwn ==
    ASSUME IInv, NEW u \in Users
    PROVE  Respond(u) = OwnRespond(u)
<1> DEFINE own == {h \in linked : row[u][h] # NoRow}
           lent == {h \in linked : shared[h] # NoRow /\ shared[h].owner = u}
           cut == state[u] # NoRow /\ state[u].cut
           mine == {row[u][h].pct : h \in {g \in own : ~(cut /\ row[u][g].old)}}
           loan == {shared[h].pct : h \in lent}
           told == IF own # {} THEN mine ELSE loan
<1>1. CASE own # {}
  BY <1>1 DEF Respond, OwnRespond
<1>2. CASE own = {}
  <2>1. \A h \in lent : shared[h].pct = 0
    BY <1>2, LentIsEmpty DEF IInv, Tables
  <2>2. loan \union {0} = {0} /\ mine \union {0} = {0}
    BY <2>1, <1>2
  <2>3. told \union {0} = mine \union {0}
    BY <2>2, <1>2
  <2> HIDE DEF told, mine
  <2>4. Max(told \union {0}) = Max(mine \union {0})
    BY <2>3
  <2> USE DEF told, mine
  <2> QED
    BY <2>4 DEF Respond, OwnRespond
<1> QED
  BY <1>1, <1>2

\* What a reader is answered can be computed from their own records.
LEMMA AnswerIsOwn ==
    ASSUME IInv, NEW u \in Users, NEW h \in Docs
    PROVE  Answer(u, h) = OwnAnswer(u, h)
<1>1. CASE h \notin linked
  BY <1>1, LentIsEmpty DEF Answer, OwnAnswer, ReaderRow, Position
<1>2. CASE h \in linked
  BY <1>2, RespondIsOwn DEF Answer, OwnAnswer
<1> QED
  BY <1>1, <1>2

\* What is told is a stored position, or none.
LEMMA AnswerIsPosition ==
    ASSUME IInv, NEW u \in Users, NEW h \in Docs
    PROVE  Answer(u, h) \in Pct \union {-1}
<1> DEFINE own == {g \in linked : row[u][g] # NoRow}
           cut == state[u] # NoRow /\ state[u].cut
           told == {row[u][g].pct : g \in {f \in own : ~(cut /\ row[u][f].old)}}
<1>1. Pct = 0 .. setup.top /\ setup.top \in Nat
  BY Install DEF IInv
<1>2. row[u][h] # NoRow => row[u][h].pct \in Pct
  BY DEF IInv, Tables, OwnRow
<1>3. state[u] # NoRow => state[u].pct \in Pct
  BY DEF IInv, Tables, Saved
<1>4. told \subseteq Pct
  BY DEF IInv, Tables, OwnRow
<1>5. told \union {0} \in SUBSET (0 .. setup.top)
  BY <1>1, <1>4
<1>6. Max(told \union {0}) \in Pct
  <2> HIDE DEF told
  <2>1. Max(told \union {0}) \in told \union {0}
    BY <1>1, <1>5, Maximum
  <2> QED
    BY <2>1, <1>1, <1>5
<1>7. OwnRespond(u) \in Pct \union {-1}
  BY <1>3, <1>6 DEF OwnRespond
<1>8. OwnAnswer(u, h) \in Pct \union {-1}
  BY <1>1, <1>2, <1>7 DEF OwnAnswer, Position
<1> QED
  BY <1>8, AnswerIsOwn

-----------------------------------------------------------------------------
(* The invariant at the start, and what it says of the types. *)

\* Nothing is stored at the start.
LEMMA InitInv == Init => IInv
<1> SUFFICES ASSUME Init PROVE IInv
  OBVIOUS
<1>1. setup \in Setups /\ Tables /\ Registered /\ CycleSound /\ OwnedIsOwn
  BY DEF Init, Tables, Registered, CycleSound, OwnedIsOwn
<1>2. MaxTrail \in Nat
  BY <1>1, Install
<1>3. Trails
  BY <1>2 DEF Init, Trails
<1> QED
  BY <1>1, <1>3 DEF IInv

\* The types are part of the invariant.
LEMMA InvTypes == IInv => TypeOK
<1> SUFFICES ASSUME IInv PROVE TypeOK
  OBVIOUS
<1>1. access \subseteq Users /\ linked \subseteq Docs /\ event \subseteq Users
  BY DEF IInv, Tables
<1>2. \A h \in linked : shared[h] # NoRow
  BY DEF IInv, Registered
<1>3. /\ \A h \in Docs : shared[h] # NoRow => shared[h] \in SharedRow
      /\ \A u \in Users, h \in Docs : row[u][h] # NoRow => row[u][h] \in OwnRow
      /\ \A u \in Users : state[u] # NoRow => state[u] \in Saved
  BY DEF IInv, Tables
<1>4. \A u \in Users : Len(trail[u]) <= MaxTrail
  BY DEF IInv, Trails
<1>5. cycle # NoRow => cycle.u \in access /\ cycle.p \in Pct
  BY DEF IInv, Tables, CycleSound, CycleWrite
<1> QED
  BY <1>1, <1>2, <1>3, <1>4, <1>5 DEF TypeOK, SharedRow, OwnRow, Saved

-----------------------------------------------------------------------------
(* Every step preserves it. *)

\* The oldest report makes room for a new one.
LEMMA ObserveKeeps ==
    ASSUME NEW t \in Seq(Report), MaxTrail \in Nat \ {0}, Len(t) <= MaxTrail,
           NEW d \in Devices, NEW p \in Pct
    PROVE  Observe(t, d, p) \in Seq(Report) /\ Len(Observe(t, d, p)) <= MaxTrail
<1> DEFINE e == [dev |-> d, pct |-> p]
<1>1. e \in Report
  BY DEF Report
<1> HIDE DEF e
<1>2. Append(t, e) \in Seq(Report) /\ Len(Append(t, e)) = Len(t) + 1
  BY <1>1
<1>3. CASE Len(t) = MaxTrail
  <2>1. t # <<>>
    BY <1>3
  <2>2. Tail(t) \in Seq(Report) /\ Len(Tail(t)) = Len(t) - 1
    BY <2>1
  <2>3. /\ Append(Tail(t), e) \in Seq(Report)
        /\ Len(Append(Tail(t), e)) = Len(Tail(t)) + 1
    BY <1>1, <2>2
  <2>4. Len(Append(Tail(t), e)) <= MaxTrail
    BY <2>2, <2>3, <1>3
  <2> QED
    BY <1>3, <2>3, <2>4 DEF Observe, e
<1>4. CASE Len(t) # MaxTrail
  <2>1. Len(t) + 1 <= MaxTrail
    BY <1>4
  <2> QED
    BY <1>2, <1>4, <2>1 DEF Observe, e
<1> QED
  BY <1>3, <1>4

\* A recorded report keeps the trails within their cap.
LEMMA TrailsKept ==
    ASSUME IInv, setup' = setup, NEW u \in Users, NEW d \in Devices, NEW h, NEW p \in Pct,
           trail' = Observed(u, d, h, p) \/ trail' = trail
    PROVE  Trails'
<1>1. trail[u] \in Seq(Report) /\ Len(trail[u]) <= MaxTrail /\ trail \in [Users -> Seq(Report)]
  BY DEF IInv, Trails
<1>2. MaxTrail \in Nat \ {0}
  BY Install DEF IInv
<1> DEFINE t == Observe(trail[u], d, p)
<1>3. t \in Seq(Report) /\ Len(t) <= MaxTrail
  BY <1>1, <1>2, ObserveKeeps
<1> HIDE DEF t
<1>4. trail' = trail \/ trail' = [trail EXCEPT ![u] = t]
  BY DEF Observed, t
<1>5. trail' \in [Users -> Seq(Report)] /\ \A v \in Users : Len(trail'[v]) <= MaxTrail
  BY <1>1, <1>3, <1>4 DEF IInv, Trails
<1> QED
  BY <1>5, Fixed DEF Trails

\* The decision on a PUT changes the trails and the slot.
LEMMA DecisionKeeps ==
    ASSUME IInv, setup' = setup, NEW s \in Slots,
           NEW u \in Users, NEW d \in Devices, NEW h \in Docs, NEW p \in Pct,
           trail' = Observed(u, d, h, p) \/ trail' = trail,
           inflight' = inflight \/ Accept(s, u, d, h, p),
           UNCHANGED <<access, shared, linked, row, state, event, cycle>>
    PROVE  IInv'
<1>1. Trails'
  BY TrailsKept
<1>2. shared[h] \in SharedRow \union {NoRow}
  BY DEF IInv, Tables
<1> DEFINE r == [u |-> u, d |-> d, h |-> h, p |-> p, snap |-> shared[h], wasLinked |-> h \in linked]
<1>3. r \in Request
  BY <1>2 DEF Request
<1> HIDE DEF r
<1>4. inflight' = inflight \/ inflight' = [inflight EXCEPT ![s] = r]
  BY DEF Accept, r
<1>5. inflight' \in [Slots -> Request \union {NoRow}]
  BY <1>3, <1>4 DEF IInv, Tables
<1>6. Tables'
  BY <1>5, Fixed DEF IInv, Tables
<1> QED
  BY <1>1, <1>6, Fixed DEF IInv, Registered, CycleSound, OwnedIsOwn

\* A PUT without a claim adds a row of the reader's own.
LEMMA WithoutAccessKeeps ==
    ASSUME IInv, setup' = setup, NEW u \in Users, NEW d \in Devices, NEW h \in Docs, NEW p \in Pct,
           DevicePutWithoutAccess(u, d, h, p)
    PROVE  IInv'
<1> DEFINE r == [pct |-> p, dev |-> d, old |-> FALSE]
<1>1. r \in OwnRow /\ NoRow \notin OwnRow
  BY Install DEF OwnRow, IInv
<1> HIDE DEF r
<1>2. row' = [row EXCEPT ![u][h] = r]
  BY DEF DevicePutWithoutAccess, r
<1>3. /\ row' \in [Users -> [Docs -> OwnRow \union {NoRow}]]
      /\ \A v \in Users, g \in Docs : row[v][g] # NoRow => row'[v][g] # NoRow
  BY <1>1, <1>2 DEF IInv, Tables
<1>4. Tables'
  BY <1>3, Fixed DEF IInv, Tables, DevicePutWithoutAccess
<1>5. Trails'
  BY Fixed DEF IInv, Trails, DevicePutWithoutAccess
<1>6. OwnedIsOwn'
  <2>1. \A g \in Docs : shared[g] # NoRow => shared[g].owner \in Users
    BY DEF IInv, Tables, SharedRow
  <2> QED
    BY <1>3, <2>1, Fixed DEF IInv, OwnedIsOwn, DevicePutWithoutAccess
<1> QED
  BY <1>4, <1>5, <1>6, Fixed DEF IInv, Registered, CycleSound, DevicePutWithoutAccess

\* A stored PUT makes the document row and the reader's own row in one step.
LEMMA StoreDevicePutKeeps ==
    ASSUME IInv, setup' = setup, NEW s \in Slots, StoreDevicePut(s)
    PROVE  IInv'
<1> DEFINE r == inflight[s]
           sr == [pct |-> r.p, dev |-> r.d, owner |-> r.u]
           or == [pct |-> r.p, dev |-> r.d, old |-> FALSE]
           st == [pct |-> r.p, cut |-> FALSE]
<1>1. r \in Request
  BY DEF IInv, Tables, StoreDevicePut
<1>2. r.u \in Users /\ r.d \in Devices /\ r.h \in Docs /\ r.p \in Pct
  BY <1>1 DEF Request
<1>3. /\ sr \in SharedRow /\ or \in OwnRow /\ st \in Saved
      /\ NoRow \notin SharedRow /\ NoRow \notin OwnRow
  BY <1>2, Install DEF SharedRow, OwnRow, Saved, IInv
<1>4. sr.owner = r.u
  OBVIOUS
<1>5. /\ shared' = [shared EXCEPT ![r.h] = sr]
      /\ row' = [row EXCEPT ![r.u][r.h] = or]
      /\ state' = [state EXCEPT ![r.u] = st] \/ state' = state
      /\ event' = event \union {r.u} \/ event' = event
      /\ linked' = linked \union {r.h} \/ linked' = linked \ {r.h}
      /\ inflight' = [inflight EXCEPT ![s] = NoRow]
      /\ cycle' = (IF cycle # NoRow /\ cycle.u = r.u
                   THEN [cycle EXCEPT !.before = @ \ {r.h}] ELSE cycle)
      /\ access' = access /\ trail' = trail
  BY DEF StoreDevicePut
<1> HIDE DEF r, sr, or, st
<1>6. cycle # NoRow => cycle \in CycleWrite
  BY DEF IInv, Tables
<1>7. /\ cycle' \in CycleWrite \union {NoRow}
      /\ cycle' # NoRow => /\ cycle # NoRow
                           /\ cycle'.u = cycle.u /\ cycle'.snap = cycle.snap
                           /\ cycle'.rewind = cycle.rewind /\ cycle'.cut = cycle.cut
  BY <1>5, <1>6 DEF CycleWrite
<1>8. /\ shared' \in [Docs -> SharedRow \union {NoRow}]
      /\ shared'[r.h] = sr
      /\ \A h \in Docs : h # r.h => shared'[h] = shared[h]
  BY <1>2, <1>3, <1>5 DEF IInv, Tables
<1>9. /\ row' \in [Users -> [Docs -> OwnRow \union {NoRow}]]
      /\ row'[r.u][r.h] = or
      /\ \A u \in Users, h \in Docs : row[u][h] # NoRow => row'[u][h] # NoRow
  BY <1>2, <1>3, <1>5 DEF IInv, Tables
<1>10. /\ state' \in [Users -> Saved \union {NoRow}]
       /\ inflight' \in [Slots -> Request \union {NoRow}]
       /\ event' \subseteq Users /\ linked' \subseteq Docs /\ access' \subseteq Users
  BY <1>2, <1>3, <1>5 DEF IInv, Tables
<1>11. Tables'
  BY <1>7, <1>8, <1>9, <1>10, Fixed DEF Tables
<1>12. Registered'
  BY <1>3, <1>5, <1>8 DEF Registered, IInv, Tables
<1>13. CycleSound'
  BY <1>3, <1>5, <1>7, <1>8, Install DEF CycleSound, IInv
<1>14. OwnedIsOwn'
  <2> SUFFICES ASSUME NEW h \in Docs, shared'[h] # NoRow, shared'[h].pct > 0
               PROVE  row'[shared'[h].owner][h] # NoRow
    BY Fixed DEF OwnedIsOwn
  <2>1. CASE h = r.h
    BY <2>1, <1>3, <1>4, <1>8, <1>9
  <2>2. CASE h # r.h
    <3>1. shared[h].owner \in Users
      BY <2>2, <1>8 DEF IInv, Tables, SharedRow
    <3> QED
      BY <2>2, <3>1, <1>8, <1>9 DEF IInv, OwnedIsOwn
  <2> QED
    BY <2>1, <2>2
<1>15. Trails'
  BY <1>5, Fixed DEF IInv, Trails
<1> QED
  BY <1>11, <1>12, <1>13, <1>14, <1>15 DEF IInv

\* A GET registers a hash at 0: no position, so nobody needs a row for it.
LEMMA GetRegistersKeeps ==
    ASSUME IInv, setup' = setup, NEW u \in Users, NEW h \in Docs, GetRegisters(u, h)
    PROVE  IInv'
<1> DEFINE sr == [pct |-> 0, dev |-> NoDev, owner |-> u]
<1>1. 0 \in Pct /\ NoRow \notin SharedRow
  BY Install DEF IInv
<1>2. sr \in SharedRow /\ ~(sr.pct > 0)
  BY <1>1 DEF SharedRow
<1>3. /\ shared' = (IF shared[h] = NoRow THEN [shared EXCEPT ![h] = sr] ELSE shared)
      /\ linked' = linked \union {h}
      /\ UNCHANGED <<access, row, state, trail, event, inflight, cycle>>
  BY DEF GetRegisters
<1> HIDE DEF sr
<1>4. /\ shared' \in [Docs -> SharedRow \union {NoRow}]
      /\ shared'[h] # NoRow
      /\ \A g \in Docs : shared[g] # NoRow => shared'[g] = shared[g]
      /\ \A g \in Docs : shared'[g] = shared[g] \/ shared'[g] = sr
  BY <1>1, <1>2, <1>3 DEF IInv, Tables
<1>5. Tables'
  BY <1>3, <1>4, Fixed DEF IInv, Tables
<1>6. Registered'
  BY <1>3, <1>4 DEF IInv, Registered, Tables
<1>7. CycleSound'
  BY <1>3, <1>4, Install DEF IInv, CycleSound
<1>8. OwnedIsOwn'
  BY <1>2, <1>3, <1>4, Fixed DEF IInv, OwnedIsOwn
<1>9. Trails'
  BY <1>3, Fixed DEF IInv, Trails
<1> QED
  BY <1>5, <1>6, <1>7, <1>8, <1>9 DEF IInv

\* A cycle begins with a write, a fill, a position to follow or a clear.
LEMMA BeginKeeps ==
    ASSUME IInv, setup' = setup, NEW u \in Users, u \in access,
           NEW kind \in {"write", "fill", "lead", "clear"}, NEW stage \in {"put", "save"},
           NEW p \in Pct, NEW cut \in BOOLEAN, NEW rewind \in BOOLEAN, rewind => cut,
           cycle' = [Write(kind, u, p, cut, rewind) EXCEPT !.stage = stage],
           state' = state \/ state' = [state EXCEPT ![u] = NoRow],
           UNCHANGED <<access, shared, linked, row, trail, event, inflight>>
    PROVE  IInv'
<1> DEFINE c == [kind |-> kind, stage |-> stage, u |-> u, p |-> p, cut |-> cut, rewind |-> rewind,
                 snap |-> shared[Exact], before |-> {h \in Docs : row[u][h] # NoRow}]
<1>1. cycle' = c
  BY DEF Write
<1>2. shared[Exact] \in SharedRow \union {NoRow}
  BY Install DEF IInv, Tables
<1>3. c \in CycleWrite
  BY <1>2 DEF CycleWrite
<1>4. c.u = u /\ c.rewind = rewind /\ c.cut = cut /\ c.snap = shared[Exact]
  OBVIOUS
<1> HIDE DEF c
<1>5. state' \in [Users -> Saved \union {NoRow}]
  BY DEF IInv, Tables
<1>6. Tables'
  BY <1>1, <1>3, <1>5, Fixed DEF IInv, Tables
<1>7. CycleSound'
  BY <1>1, <1>4 DEF CycleSound
<1> QED
  BY <1>6, <1>7, Fixed DEF IInv, Trails, Registered, OwnedIsOwn

\* Each way to begin is one of those.
LEMMA CycleKeeps ==
    ASSUME IInv, setup' = setup, NEW u \in Users, Cycle(u)
    PROVE  IInv'
<1>1. HasCut(u) \in BOOLEAN
  BY DEF IInv, Tables, Saved, HasCut
<1>2. 0 \in Pct /\ Exact \in Docs
  BY Install DEF IInv
<1>3. ASSUME NEW p \in Pct \ {0}, NEW rewind \in BOOLEAN, CycleWrites(u, p, rewind)
      PROVE  IInv'
  <2>1. cycle' = [Write("write", u, p, rewind \/ HasCut(u), rewind) EXCEPT !.stage = "put"]
    BY <1>3 DEF CycleWrites, Write
  <2> QED
    BY <1>1, <1>3, <2>1, BeginKeeps DEF CycleWrites
<1>4. ASSUME NEW p \in Pct \ {0}, CycleFills(u, p) PROVE IInv'
  <2>1. cycle' = [Write("fill", u, p, FALSE, FALSE) EXCEPT !.stage = "put"]
    BY <1>4 DEF CycleFills, Write
  <2> QED
    BY <1>4, <2>1, BeginKeeps DEF CycleFills
<1>5. ASSUME NEW rewind \in BOOLEAN, CycleFollowsKosync(u, rewind) PROVE IInv'
  <2>1. Answer(u, Exact) \in Pct
    BY <1>2, <1>5, AnswerIsPosition DEF CycleFollowsKosync
  <2> QED
    BY <1>1, <1>5, <2>1, BeginKeeps DEF CycleFollowsKosync
<1>6. ASSUME ClearProgress(u) PROVE IInv'
  <2>1. cycle' = [Write("clear", u, 0, FALSE, FALSE) EXCEPT !.stage = "put"]
    BY <1>6 DEF ClearProgress, Write
  <2> QED
    BY <1>2, <1>6, <2>1, BeginKeeps DEF ClearProgress
<1> QED
  BY <1>3, <1>4, <1>5, <1>6 DEF Cycle

\* The bridge's PUT gives its reader a row, and a document row that is not
\* another reader's.
LEMMA StoreBridgePutKeeps ==
    ASSUME IInv, setup' = setup, StoreBridgePut
    PROVE  IInv'
<1> DEFINE c == cycle
           or == [pct |-> c.p, dev |-> Bridge, old |-> FALSE]
           fresh == [pct |-> c.p, dev |-> Bridge, owner |-> c.u]
           next == [c EXCEPT !.stage = "save", !.before = @ \ {Exact}]
<1>1. c \in CycleWrite /\ c # NoRow
  BY DEF IInv, Tables, StoreBridgePut
<1>2. c.u \in Users /\ c.p \in Pct /\ c.snap \in SharedRow \union {NoRow}
  BY <1>1 DEF CycleWrite
<1>3. /\ Exact \in Docs /\ NoUser \notin Users
      /\ NoRow \notin SharedRow /\ NoRow \notin OwnRow
  BY Install DEF IInv
<1>4. or \in OwnRow /\ fresh \in SharedRow /\ fresh.owner = c.u
  BY <1>2 DEF OwnRow, SharedRow
<1>5. next \in CycleWrite /\ next.u = c.u /\ next.snap = c.snap
      /\ next.rewind = c.rewind /\ next.cut = c.cut
  BY <1>1 DEF CycleWrite
<1>6. PICK sr : /\ shared' = shared \/ shared' = [shared EXCEPT ![Exact] = sr]
                /\ shared' = shared => c.snap # NoRow \/ shared' = [shared EXCEPT ![Exact] = sr]
                /\ sr \in SharedRow /\ sr.owner = c.u
  <2>1. CASE OwnedByOther(c.snap, c.u)
    <3>1. shared' = shared /\ c.snap # NoRow
      BY <2>1 DEF StoreBridgePut, BridgeShared, OwnedByOther
    <3> QED
      BY <3>1, <1>4
  <2>2. CASE ~OwnedByOther(c.snap, c.u) /\ c.snap = NoRow
    <3>1. shared' = [shared EXCEPT ![Exact] = fresh]
      BY <2>2 DEF StoreBridgePut, BridgeShared
    <3> QED
      BY <3>1, <1>4
  <2>3. CASE ~OwnedByOther(c.snap, c.u) /\ c.snap # NoRow
    <3>1. shared' = [shared EXCEPT ![Exact] = [c.snap EXCEPT !.pct = c.p]]
      BY <2>3 DEF StoreBridgePut, BridgeShared
    <3>2. c.snap \in SharedRow /\ c.snap.owner \in Users
      BY <2>3, <1>2 DEF SharedRow
    <3>3. c.snap.owner = c.u
      BY <2>3, <3>2, <1>3 DEF OwnedByOther
    <3>4. [c.snap EXCEPT !.pct = c.p] \in SharedRow /\ [c.snap EXCEPT !.pct = c.p].owner = c.u
      BY <3>2, <3>3, <1>2 DEF SharedRow
    <3> QED
      BY <3>1, <3>4
  <2> QED
    BY <2>1, <2>2, <2>3
<1>7. /\ linked' = linked \union {Exact}
      /\ row' = [row EXCEPT ![c.u][Exact] = or]
      /\ event' = {}
      /\ cycle' = next
      /\ UNCHANGED <<access, state, trail, inflight>>
  BY DEF StoreBridgePut
<1> HIDE DEF c, or, fresh, next
<1>8. /\ shared' \in [Docs -> SharedRow \union {NoRow}]
      /\ shared'[Exact] # NoRow
      /\ \A h \in Docs \ {Exact} : shared'[h] = shared[h]
      /\ shared'[Exact] = shared[Exact] \/ shared'[Exact] = sr
  BY <1>1, <1>3, <1>6 DEF IInv, Tables, CycleSound, c
<1>9. /\ row' \in [Users -> [Docs -> OwnRow \union {NoRow}]]
      /\ row'[c.u][Exact] # NoRow
      /\ \A u \in Users, h \in Docs : row[u][h] # NoRow => row'[u][h] # NoRow
  BY <1>2, <1>3, <1>4, <1>7 DEF IInv, Tables
<1>10. Tables'
  BY <1>3, <1>5, <1>7, <1>8, <1>9, Fixed DEF IInv, Tables
<1>11. Registered'
  BY <1>3, <1>7, <1>8 DEF IInv, Registered, Tables
<1>12. CycleSound'
  BY <1>1, <1>5, <1>7, <1>8 DEF IInv, CycleSound, c
<1>13. OwnedIsOwn'
  <2> SUFFICES ASSUME NEW h \in Docs, shared'[h] # NoRow, shared'[h].pct > 0
               PROVE  row'[shared'[h].owner][h] # NoRow
    BY Fixed DEF OwnedIsOwn
  <2>1. CASE shared'[h] = shared[h]
    <3>1. shared[h].owner \in Users
      BY <2>1 DEF IInv, Tables, SharedRow
    <3> QED
      BY <2>1, <3>1, <1>9 DEF IInv, OwnedIsOwn
  <2>2. CASE h = Exact /\ shared'[h] = sr
    BY <2>2, <1>6, <1>9
  <2> QED
    BY <2>1, <2>2, <1>8
<1>14. Trails'
  BY <1>7, Fixed DEF IInv, Trails
<1> QED
  BY <1>10, <1>11, <1>12, <1>13, <1>14 DEF IInv

\* What the end of a cycle may do: save a State, date or reset rows.
LEMMA EndKeeps ==
    ASSUME IInv, setup' = setup, cycle' = NoRow,
           state' \in [Users -> Saved \union {NoRow}],
           row' \in [Users -> [Docs -> OwnRow \union {NoRow}]],
           \A u \in Users, h \in Docs : row[u][h] # NoRow => row'[u][h] # NoRow,
           UNCHANGED <<access, shared, linked, trail, event, inflight>>
    PROVE  IInv'
<1>1. Tables'
  BY Fixed DEF IInv, Tables
<1>2. \A h \in Docs : shared[h] # NoRow => shared[h].owner \in Users
  BY DEF IInv, Tables, SharedRow
<1>3. OwnedIsOwn'
  BY <1>2, Fixed DEF IInv, OwnedIsOwn
<1> QED
  BY <1>1, <1>3, Fixed DEF IInv, Trails, Registered, CycleSound

\* Dating a row keeps it a row.
LEMMA Dated ==
    ASSUME IInv, NEW r \in OwnRow
    PROVE  [r EXCEPT !.old = TRUE] \in OwnRow /\ [r EXCEPT !.old = TRUE] # NoRow
BY Install DEF IInv, OwnRow

\* A saved State, and rows dated by an approved rewind.
LEMMA SaveCycleStateKeeps ==
    ASSUME IInv, setup' = setup, SaveCycleState
    PROVE  IInv'
<1> DEFINE c == cycle
           st == [pct |-> c.p, cut |-> c.cut]
           dated(h) == IF row[c.u][h] # NoRow /\ (h \in c.before \/ c.kind = "lead")
                       THEN [row[c.u][h] EXCEPT !.old = TRUE] ELSE row[c.u][h]
           rows == [h \in Docs |-> dated(h)]
<1>1. c \in CycleWrite
  BY DEF IInv, Tables, SaveCycleState
<1>2. c.u \in Users /\ st \in Saved
  BY <1>1 DEF CycleWrite, Saved
<1>3. \A h \in Docs : /\ dated(h) \in OwnRow \union {NoRow}
                      /\ row[c.u][h] # NoRow => dated(h) # NoRow
  BY <1>2, Dated DEF IInv, Tables
<1>4. /\ state' = [state EXCEPT ![c.u] = st]
      /\ row' = row \/ row' = [row EXCEPT ![c.u] = rows]
      /\ cycle' = NoRow
      /\ UNCHANGED <<access, shared, linked, trail, event, inflight>>
  BY DEF SaveCycleState
<1> HIDE DEF c, st, dated
<1>5. state' \in [Users -> Saved \union {NoRow}]
  BY <1>2, <1>4 DEF IInv, Tables
<1>6. /\ row' \in [Users -> [Docs -> OwnRow \union {NoRow}]]
      /\ \A u \in Users, h \in Docs : row[u][h] # NoRow => row'[u][h] # NoRow
  BY <1>2, <1>3, <1>4 DEF IInv, Tables
<1> QED
  BY <1>4, <1>5, <1>6, EndKeeps

\* A clear resets rows and drops none.
LEMMA ClearEndsKeeps ==
    ASSUME IInv, setup' = setup, ClearEnds
    PROVE  IInv'
<1> DEFINE u == cycle.u
           st == [pct |-> 0, cut |-> FALSE]
           zero == [pct |-> 0, dev |-> Bridge, old |-> FALSE]
           rows == [h \in Docs |-> IF h \in linked \union {Exact} THEN zero ELSE row[u][h]]
<1>1. u \in Users
  BY DEF IInv, Tables, ClearEnds, CycleWrite
<1>2. 0 \in Pct /\ NoRow \notin OwnRow
  BY Install DEF IInv
<1>3. st \in Saved /\ zero \in OwnRow
  BY <1>2 DEF Saved, OwnRow
<1>4. /\ state' = [state EXCEPT ![u] = st] \/ state' = state
      /\ row' = [row EXCEPT ![u] = rows]
      /\ cycle' = NoRow
      /\ UNCHANGED <<access, shared, linked, trail, event, inflight>>
  BY DEF ClearEnds
<1> HIDE DEF u, st, zero
<1>5. state' \in [Users -> Saved \union {NoRow}]
  BY <1>1, <1>3, <1>4 DEF IInv, Tables
<1>6. /\ row' \in [Users -> [Docs -> OwnRow \union {NoRow}]]
      /\ \A v \in Users, h \in Docs : row[v][h] # NoRow => row'[v][h] # NoRow
  BY <1>1, <1>2, <1>3, <1>4 DEF IInv, Tables
<1> QED
  BY <1>4, <1>5, <1>6, EndKeeps

\* A clear that goes on without its write.
LEMMA ClearWriteFailsKeeps ==
    ASSUME IInv, setup' = setup, ClearWriteFails
    PROVE  IInv'
<1>1. cycle \in CycleWrite /\ cycle # NoRow
  BY DEF IInv, Tables, ClearWriteFails
<1> DEFINE next == [cycle EXCEPT !.stage = "reset"]
<1>2. /\ next \in CycleWrite /\ next.u = cycle.u /\ next.snap = cycle.snap
      /\ next.rewind = cycle.rewind /\ next.cut = cycle.cut
  BY <1>1 DEF CycleWrite
<1>3. cycle' = next /\ UNCHANGED <<access, shared, linked, row, state, trail, event, inflight>>
  BY DEF ClearWriteFails
<1> HIDE DEF next
<1>4. Tables'
  BY <1>2, <1>3, Fixed DEF IInv, Tables
<1>5. CycleSound'
  BY <1>1, <1>2, <1>3 DEF IInv, CycleSound
<1> QED
  BY <1>3, <1>4, <1>5, Fixed DEF IInv, Trails, Registered, OwnedIsOwn

\* A cycle that ends without a State.
LEMMA CycleFailsKeeps ==
    ASSUME IInv, setup' = setup, CycleFails
    PROVE  IInv'
<1>1. /\ cycle' = NoRow
      /\ UNCHANGED <<access, shared, linked, row, state, trail, event, inflight>>
  BY DEF CycleFails
<1> QED
  BY <1>1, EndKeeps DEF IInv, Tables

\* Evidence goes, oldest report first; links, claims and sync cycles come.
LEMMA OthersKeep ==
    ASSUME IInv, setup' = setup,
           \/ \E u \in Users : DebounceFires(u) \/ EvidenceExpires(u) \/ GrantAccess(u)
           \/ \E h \in Docs : LinkDocument(h)
    PROVE  IInv'
<1>1. ASSUME NEW u \in Users, DebounceFires(u) PROVE IInv'
  BY <1>1, Fixed DEF DebounceFires, IInv, Tables, Trails, Registered, CycleSound, OwnedIsOwn
<1>2. ASSUME NEW u \in Users, GrantAccess(u) PROVE IInv'
  BY <1>2, Fixed DEF GrantAccess, IInv, Tables, Trails, Registered, CycleSound, OwnedIsOwn
<1>3. ASSUME NEW h \in Docs, LinkDocument(h) PROVE IInv'
  BY <1>3, Fixed DEF LinkDocument, IInv, Tables, Trails, Registered, CycleSound, OwnedIsOwn
<1>4. ASSUME NEW u \in Users, EvidenceExpires(u) PROVE IInv'
  <2>1. trail[u] \in Seq(Report) /\ Len(trail[u]) <= MaxTrail /\ MaxTrail \in Nat
    BY Install DEF IInv, Trails
  <2>2. \/ trail' = trail
        \/ trail[u] # <<>> /\ trail' = [trail EXCEPT ![u] = Tail(@)]
    BY <1>4 DEF EvidenceExpires
  <2>3. trail[u] # <<>> => /\ Tail(trail[u]) \in Seq(Report)
                           /\ Len(Tail(trail[u])) = Len(trail[u]) - 1
                           /\ Len(trail[u]) \in Nat
    BY <2>1
  <2>4. trail[u] # <<>> => Len(Tail(trail[u])) <= MaxTrail
    BY <2>1, <2>3
  <2>5. Trails'
    BY <2>2, <2>3, <2>4, Fixed DEF IInv, Trails
  <2>6. UNCHANGED <<access, shared, linked, row, state, event, inflight, cycle>>
    BY <1>4 DEF EvidenceExpires
  <2> QED
    BY <2>5, <2>6, Fixed DEF IInv, Tables, Registered, CycleSound, OwnedIsOwn
<1> QED
  BY <1>1, <1>2, <1>3, <1>4

\* Each decision on a PUT.
LEMMA DevicePutKeeps ==
    ASSUME IInv, setup' = setup,
           NEW u \in Users, NEW d \in Devices, NEW h \in Docs, NEW p \in Pct,
           DevicePut(u, d, h, p)
    PROVE  IInv'
<1>1. CASE DevicePutWithoutAccess(u, d, h, p)
  BY <1>1, WithoutAccessKeeps
<1>2. ASSUME NEW s \in Slots, DevicePutForward(s, u, d, h, p) PROVE IInv'
  BY <1>2, DecisionKeeps DEF DevicePutForward
<1>3. ASSUME NEW s \in Slots, DevicePutRewind(s, u, d, h, p) PROVE IInv'
  BY <1>3, DecisionKeeps DEF DevicePutRewind
<1>4. ASSUME NEW s \in Slots, DevicePutUnclaimedRewind(s, u, d, h, p) PROVE IInv'
  BY <1>4, DecisionKeeps DEF DevicePutUnclaimedRewind
<1> QED
  BY <1>1, <1>2, <1>3, <1>4 DEF DevicePut

\* The invariant is inductive.
LEMMA StepKeeps == IInv /\ [Next]_vars => IInv'
<1> SUFFICES ASSUME IInv, [Next]_vars PROVE IInv'
  OBVIOUS
<1>u. setup' = setup
  BY DEF Next, vars
<1>1. ASSUME NEW u \in Users, NEW d \in Devices, NEW h \in Docs, NEW p \in Pct,
             DevicePut(u, d, h, p)
      PROVE  IInv'
  BY <1>u, <1>1, DevicePutKeeps
<1>2. ASSUME NEW s \in Slots, StoreDevicePut(s) PROVE IInv'
  BY <1>u, <1>2, StoreDevicePutKeeps
<1>3. ASSUME NEW u \in Users, NEW h \in Docs, GetRegisters(u, h) PROVE IInv'
  BY <1>u, <1>3, GetRegistersKeeps
<1>4. ASSUME NEW u \in Users, Cycle(u) PROVE IInv'
  BY <1>u, <1>4, CycleKeeps
<1>5. CASE StoreBridgePut
  BY <1>u, <1>5, StoreBridgePutKeeps
<1>6. CASE SaveCycleState
  BY <1>u, <1>6, SaveCycleStateKeeps
<1>7. CASE ClearWriteFails \/ ClearEnds \/ CycleFails
  BY <1>u, <1>7, ClearWriteFailsKeeps, ClearEndsKeeps, CycleFailsKeeps
<1>8. CASE \/ \E u \in Users : DebounceFires(u) \/ EvidenceExpires(u) \/ GrantAccess(u)
           \/ \E h \in Docs : LinkDocument(h)
  BY <1>u, <1>8, OthersKeep
<1>9. CASE UNCHANGED vars
  BY <1>9, Fixed DEF vars, IInv, Tables, Trails, Registered, CycleSound, OwnedIsOwn
<1> QED
  BY <1>1, <1>2, <1>3, <1>4, <1>5, <1>6, <1>7, <1>8, <1>9 DEF Next, Step

-----------------------------------------------------------------------------
(* The theorems. *)

\* The inductive invariant: the types, every linked hash has its document row, a
\* cycle works for a reader with a claim, and whoever's position a document row
\* shows has a row of their own.
THEOREM Inductive == Spec => []IInv
BY InitInv, StepKeeps, PTL DEF Spec

\* Rows, States, trails, links and the write of a running cycle keep their shape
\* through every interleaving of requests and cycles; no trail outgrows its cap.
THEOREM TypeCorrect == Spec => []TypeOK
BY Inductive, InvTypes, PTL

\* Nobody's records but this reader's change.
OnlyFor(u) == \A v \in Users : v # u => row'[v] = row[v] /\ state'[v] = state[v]

\* A step changes the records of one reader at most.
LEMMA OneReader ==
    ASSUME IInv, Step
    PROVE  (row' = row /\ state' = state) \/ \E u \in Users : OnlyFor(u)
<1>1. ASSUME NEW u \in Users, NEW d \in Devices, NEW h \in Docs, NEW p \in Pct,
             DevicePut(u, d, h, p)
      PROVE  (row' = row /\ state' = state) \/ OnlyFor(u)
  <2>1. CASE DevicePutWithoutAccess(u, d, h, p)
    BY <2>1 DEF DevicePutWithoutAccess, OnlyFor, IInv, Tables
  <2> QED
    BY <1>1, <2>1 DEF DevicePut, DevicePutForward, DevicePutRewind, DevicePutUnclaimedRewind
<1>2. ASSUME NEW s \in Slots, StoreDevicePut(s) PROVE \E u \in Users : OnlyFor(u)
  <2> DEFINE r == inflight[s]
  <2>1. r.u \in Users
    BY <1>2 DEF IInv, Tables, StoreDevicePut, Request
  <2>2. /\ \E x : row' = [row EXCEPT ![r.u][r.h] = x]
        /\ state' = state \/ \E x : state' = [state EXCEPT ![r.u] = x]
    BY <1>2 DEF StoreDevicePut
  <2> HIDE DEF r
  <2>3. OnlyFor(r.u)
    BY <2>1, <2>2 DEF OnlyFor, IInv, Tables
  <2> QED
    BY <2>1, <2>3
<1>3. ASSUME NEW u \in Users, Cycle(u) PROVE (row' = row /\ state' = state) \/ OnlyFor(u)
  BY <1>3 DEF Cycle, CycleWrites, CycleFills, CycleFollowsKosync, ClearProgress, OnlyFor, IInv, Tables
<1>4. CASE StoreBridgePut \/ SaveCycleState \/ ClearEnds
  <2>1. cycle.u \in Users
    BY <1>4 DEF IInv, Tables, CycleWrite, StoreBridgePut, SaveCycleState, ClearEnds
  <2>2. \A v \in Users : v # cycle.u => row'[v] = row[v]
    BY <1>4, <2>1 DEF StoreBridgePut, SaveCycleState, ClearEnds, IInv, Tables
  <2>3. \A v \in Users : v # cycle.u => state'[v] = state[v]
    BY <1>4, <2>1 DEF StoreBridgePut, SaveCycleState, ClearEnds, IInv, Tables
  <2> QED
    BY <2>1, <2>2, <2>3 DEF OnlyFor
<1> QED
  BY <1>1, <1>2, <1>3, <1>4
     DEF Step, GetRegisters, ClearWriteFails, CycleFails, DebounceFires, EvidenceExpires,
         GrantAccess, LinkDocument

\* What a reader is told on the strength of their own records changes with them.
LEMMA OwnAnswerKept ==
    ASSUME IInv, IInv', setup' = setup, NEW u \in Users, NEW h \in Docs,
           ~Touched(u), linked' = linked, access' = access
    PROVE  OwnAnswer(u, h)' = OwnAnswer(u, h)
<1>1. row[u]' = row[u] /\ state[u]' = state[u]
  BY DEF Touched
<1> QED
  BY <1>1 DEF OwnAnswer, OwnRespond, Position

FromOwn == \A u \in Users, h \in Docs : Answer(u, h) = OwnAnswer(u, h)

\* The same for all readers and hashes at once.
LEMMA AnswersFromOwn == IInv => FromOwn
BY AnswerIsOwn DEF FromOwn

\* One reader never moves another, whoever shares their files.
THEOREM Private == Spec => AnswersArePrivate
<1>1. ASSUME IInv, FromOwn, FromOwn', [Next]_vars
      PROVE  [ /\ \A u, v \in Users : Touched(u) /\ Touched(v) => u = v
               /\ linked' = linked /\ access' = access =>
                    \A u \in Users : Touched(u) \/ \A h \in Docs : Answer(u, h)' = Answer(u, h) ]_vars
  <2>1. setup' = setup
    BY <1>1 DEF Next, vars
  <2>2. IInv'
    BY <1>1, StepKeeps
  <2>3. CASE Step
    <3>1. \A u, v \in Users : Touched(u) /\ Touched(v) => u = v
      BY <1>1, <2>3, OneReader DEF OnlyFor, Touched
    <3>2. ASSUME linked' = linked, access' = access, NEW u \in Users, ~Touched(u), NEW h \in Docs
          PROVE  Answer(u, h)' = Answer(u, h)
      <4>1. OwnAnswer(u, h)' = OwnAnswer(u, h)
        BY <1>1, <2>1, <2>2, <3>2, OwnAnswerKept
      <4>2. Answer(u, h) = OwnAnswer(u, h)
        BY <1>1 DEF FromOwn
      <4>3. Answer(u, h)' = OwnAnswer(u, h)'
        BY <1>1, <2>1, Fixed DEF FromOwn
      <4> QED
        BY <4>1, <4>2, <4>3
    <3> QED
      BY <3>1, <3>2
  <2>4. CASE UNCHANGED vars
    BY <2>4
  <2> QED
    BY <1>1, <2>3, <2>4 DEF Next
<1> QED
  BY <1>1, Inductive, AnswersFromOwn, PTL DEF Spec, AnswersArePrivate

\* A reader whose own rows are retired or not ahead of the State is told the State.
LEMMA ToldTheState ==
    ASSUME IInv, NEW u \in Users, u \in access, NEW h \in linked, state[u] # NoRow,
           \A g \in linked : row[u][g] # NoRow =>
               row[u][g].pct <= state[u].pct \/ (state[u].cut /\ row[u][g].old)
    PROVE  OwnAnswer(u, h) = state[u].pct
<1> DEFINE own == {g \in linked : row[u][g] # NoRow}
           cut == state[u] # NoRow /\ state[u].cut
           told == {row[u][g].pct : g \in {f \in own : ~(cut /\ row[u][f].old)}}
<1>3. Position(state[u]) = state[u].pct
  BY DEF Position
<1>4. /\ state[u].pct \in 0 .. setup.top /\ setup.top \in Nat
      /\ told \in SUBSET (0 .. setup.top)
  BY Install DEF IInv, Tables, Saved, OwnRow
<1>5. \A x \in told \union {0} : x <= state[u].pct
  <2>1. ASSUME NEW x \in told PROVE x <= state[u].pct
    <3>1. PICK g \in linked : row[u][g] # NoRow /\ ~(cut /\ row[u][g].old) /\ x = row[u][g].pct
      BY <2>1
    <3> QED
      BY <3>1
  <2>2. 0 <= state[u].pct
    BY <1>4
  <2> HIDE DEF told
  <2> QED
    BY <2>1, <2>2
<1>2. ~(Max(told \union {0}) > state[u].pct)
  <2> HIDE DEF told
  <2>1. told \union {0} \in SUBSET (0 .. setup.top) /\ told \union {0} # {}
    BY <1>4
  <2>2. Max(told \union {0}) \in told \union {0}
    BY <1>4, <2>1, Maximum
  <2>3. PICK m \in told \union {0} : m = Max(told \union {0})
    BY <2>2
  <2>4. m <= state[u].pct /\ m \in Int /\ state[u].pct \in Int
    BY <1>4, <1>5
  <2>5. ~(m > state[u].pct)
    BY <2>4
  <2> QED
    BY <2>3, <2>5
<1>6. OwnRespond(u) = state[u].pct
  <2> HIDE DEF told
  <2>1. OwnRespond(u) = IF Max(told \union {0}) > Position(state[u]) THEN Max(told \union {0})
                        ELSE IF state[u] = NoRow THEN -1 ELSE state[u].pct
    BY DEF OwnRespond, told
  <2> QED
    BY <2>1, <1>2, <1>3
<1> QED
  BY <1>6 DEF OwnAnswer

StateTold ==
    \A u \in access, h \in linked :
        state[u] # NoRow /\ (\A g \in linked : row[u][g] # NoRow =>
                                 \/ row[u][g].pct <= state[u].pct
                                 \/ state[u].cut /\ row[u][g].old)
            => OwnAnswer(u, h) = state[u].pct

\* The same for all readers at once.
LEMMA InvTold == IInv => StateTold
BY ToldTheState DEF StateTold, IInv, Tables

\* What the running cycle has not read of its reader's rows, a device has reported
\* since, or it wrote itself.
UnreadRows ==
    cycle # NoRow => \A g \in Docs :
        row[cycle.u][g] # NoRow /\ g \notin cycle.before =>
            row[cycle.u][g].dev \in Devices \/ row[cycle.u][g].pct = cycle.p

\* Reports, the cycle's own write and its end leave nothing else unread.
LEMMA UnreadKept ==
    ASSUME IInv, UnreadRows, [Next]_vars PROVE UnreadRows'
<1>0. setup' = setup /\ Docs' = Docs /\ Devices' = Devices
  BY Fixed DEF Next, vars
<1>r. row \in [Users -> [Docs -> OwnRow \union {NoRow}]]
  BY DEF IInv, Tables
<1>c. cycle # NoRow => cycle.u \in Users /\ cycle.u \in access /\ cycle \in CycleWrite
  BY DEF IInv, Tables, CycleSound, CycleWrite
<1>1. row' = row /\ (cycle' = cycle \/ cycle' = NoRow) => UnreadRows'
  BY <1>0 DEF UnreadRows
<1>2. ASSUME NEW v \in Users, NEW d \in Devices, NEW g \in Docs, NEW p \in Pct,
             DevicePutWithoutAccess(v, d, g, p)
      PROVE  UnreadRows'
  <2>1. \E x : row' = [row EXCEPT ![v][g] = x]
    BY <1>2 DEF DevicePutWithoutAccess
  <2>2. cycle' = cycle /\ v \notin access
    BY <1>2 DEF DevicePutWithoutAccess
  <2>3. cycle # NoRow => row'[cycle.u] = row[cycle.u]
    BY <1>r, <1>c, <2>1, <2>2
  <2> QED
    BY <1>0, <2>2, <2>3 DEF UnreadRows
<1>3. ASSUME NEW s \in Slots, StoreDevicePut(s) PROVE UnreadRows'
  <2> DEFINE r == inflight[s]
  <2>1. PICK x : x = [pct |-> r.p, dev |-> r.d, old |-> FALSE]
    OBVIOUS
  <2>2. /\ row' = [row EXCEPT ![r.u][r.h] = x] /\ x.dev = r.d
        /\ cycle' = (IF cycle # NoRow /\ cycle.u = r.u
                     THEN [cycle EXCEPT !.before = @ \ {r.h}] ELSE cycle)
    BY <1>3, <2>1 DEF StoreDevicePut
  <2>3. r \in Request
    BY <1>3 DEF IInv, Tables, StoreDevicePut
  <2>4. r.u \in Users /\ r.h \in Docs /\ r.d \in Devices
    BY <2>3 DEF Request
  <2> HIDE DEF r
  <2>5. CASE cycle = NoRow
    BY <2>2, <2>5 DEF UnreadRows
  <2>6. CASE cycle # NoRow /\ cycle.u # r.u
    <3>1. cycle' = cycle /\ row'[cycle.u] = row[cycle.u]
      BY <1>r, <1>c, <2>2, <2>4, <2>6
    <3> QED
      BY <1>0, <3>1 DEF UnreadRows
  <2>7. CASE cycle # NoRow /\ cycle.u = r.u
    <3>1. cycle' = [cycle EXCEPT !.before = @ \ {r.h}]
      BY <2>2, <2>7
    <3>2. /\ cycle'.u = cycle.u /\ cycle'.p = cycle.p
          /\ cycle'.before = cycle.before \ {r.h}
      BY <1>c, <2>7, <3>1 DEF CycleWrite
    <3>3. \A g \in Docs : row'[r.u][g] = IF g = r.h THEN x ELSE row[r.u][g]
      BY <1>r, <2>2, <2>4
    <3> QED
      BY <1>0, <2>2, <2>4, <2>7, <3>2, <3>3 DEF UnreadRows
  <2> QED
    BY <2>5, <2>6, <2>7
<1>4. ASSUME NEW v \in Users, NEW d \in Devices, NEW g \in Docs, NEW p \in Pct,
             DevicePut(v, d, g, p), ~DevicePutWithoutAccess(v, d, g, p)
      PROVE  row' = row /\ cycle' = cycle
  BY <1>4 DEF DevicePut, DevicePutForward, DevicePutRewind, DevicePutUnclaimedRewind
<1>5. ASSUME NEW u \in Users, Cycle(u) PROVE UnreadRows'
  <2>0. ASSUME NEW kind, NEW p, NEW cut, NEW rewind
        PROVE  /\ Write(kind, u, p, cut, rewind).u = u
               /\ Write(kind, u, p, cut, rewind).before = {h \in Docs : row[u][h] # NoRow}
               /\ [Write(kind, u, p, cut, rewind) EXCEPT !.stage = "save"].u = u
               /\ [Write(kind, u, p, cut, rewind) EXCEPT !.stage = "save"].before =
                      {h \in Docs : row[u][h] # NoRow}
    BY DEF Write
  <2> DEFINE Reads == /\ row' = row /\ cycle'.u = u
                      /\ cycle'.before = {h \in Docs : row[u][h] # NoRow}
  <2>1. ASSUME NEW p, NEW rewind, CycleWrites(u, p, rewind) PROVE Reads
    BY <2>0, <2>1 DEF CycleWrites
  <2>2. ASSUME NEW p, CycleFills(u, p) PROVE Reads
    BY <2>2 DEF CycleFills, Write
  <2>3. ASSUME NEW rewind, CycleFollowsKosync(u, rewind) PROVE Reads
    BY <2>0, <2>3 DEF CycleFollowsKosync
  <2>4. CASE ClearProgress(u)
    <3>1. Reads
      BY <2>4 DEF ClearProgress, Write
    <3> QED
      BY <1>0, <3>1 DEF UnreadRows
  <2>5. Reads => UnreadRows'
    BY <1>0 DEF UnreadRows
  <2> HIDE DEF Reads
  <2> QED
    BY <1>5, <2>1, <2>2, <2>3, <2>4, <2>5 DEF Cycle
<1>6. CASE StoreBridgePut
  <2>1. PICK x : x = [pct |-> cycle.p, dev |-> Bridge, old |-> FALSE]
    OBVIOUS
  <2>2. /\ row' = [row EXCEPT ![cycle.u][Exact] = x] /\ x.pct = cycle.p /\ cycle # NoRow
        /\ cycle' = [cycle EXCEPT !.stage = "save", !.before = @ \ {Exact}]
    BY <1>6, <2>1 DEF StoreBridgePut
  <2>3. /\ cycle'.u = cycle.u /\ cycle'.p = cycle.p
        /\ cycle'.before = cycle.before \ {Exact}
    BY <1>c, <2>2 DEF CycleWrite
  <2>4. Exact \in Docs
    BY Install DEF IInv
  <2>5. \A g \in Docs : row'[cycle.u][g] = IF g = Exact THEN x ELSE row[cycle.u][g]
    BY <1>r, <1>c, <2>2, <2>4
  <2> QED
    BY <1>0, <2>2, <2>3, <2>4, <2>5 DEF UnreadRows
<1>7. CASE SaveCycleState \/ ClearEnds
  <2>1. cycle' = NoRow
    BY <1>7 DEF SaveCycleState, ClearEnds
  <2> QED
    BY <2>1 DEF UnreadRows
<1>8. CASE ClearWriteFails
  <2>1. /\ row' = row /\ cycle # NoRow
        /\ cycle' = [cycle EXCEPT !.stage = "reset"]
    BY <1>8 DEF ClearWriteFails
  <2>2. cycle'.u = cycle.u /\ cycle'.p = cycle.p /\ cycle'.before = cycle.before
    BY <1>c, <2>1 DEF CycleWrite
  <2> QED
    BY <1>0, <2>1, <2>2 DEF UnreadRows
<1>9. CASE \/ \E v \in Users, g \in Docs : GetRegisters(v, g)
           \/ CycleFails
           \/ \E v \in Users : DebounceFires(v) \/ EvidenceExpires(v) \/ GrantAccess(v)
           \/ \E g \in Docs : LinkDocument(g)
  <2>1. row' = row /\ (cycle' = cycle \/ cycle' = NoRow)
    BY <1>9 DEF GetRegisters, CycleFails, DebounceFires, EvidenceExpires, GrantAccess,
                LinkDocument
  <2> QED
    BY <1>1, <2>1
<1>10. CASE UNCHANGED vars
  BY <1>1, <1>10 DEF vars
<1> QED
  BY <1>1, <1>2, <1>3, <1>4, <1>5, <1>6, <1>7, <1>8, <1>9, <1>10 DEF Next, Step

\* What the running cycle has not read is a device's, or is its own write.
THEOREM UnreadIsReported == Spec => []UnreadRows
<1>1. Init => UnreadRows
  BY DEF Init, UnreadRows
<1> QED
  BY <1>1, UnreadKept, Inductive, PTL DEF Spec

\* After an approved rewind nobody is sent ahead of it, on any hash of the book,
\* but by a higher position that a device reported after the cycle had read the
\* old ones.
THEOREM RewindsStick == Spec => RewindTakesEffect
<1>1. ASSUME IInv, IInv', UnreadRows, FromOwn', StateTold', [Next]_vars,
             cycle # NoRow, cycle' = NoRow, SaveCycleState, cycle.rewind,
             NEW u \in {cycle.u}, NEW h \in linked, Answer(u, h)' > cycle.p
      PROVE  \E g \in linked \ cycle.before :
                 /\ row[u][g] # NoRow /\ row[u][g].dev \in Devices
                 /\ row[u][g].pct > cycle.p
  <2> SUFFICES ASSUME \A g \in linked \ cycle.before :
                         row[u][g] # NoRow /\ row[u][g].dev \in Devices
                            => ~(row[u][g].pct > cycle.p)
               PROVE  FALSE
    OBVIOUS
  <2>1. setup' = setup
    BY <1>1 DEF Next, vars
  <2>2. /\ u = cycle.u /\ u \in Users /\ u \in access /\ cycle.p \in Pct
        /\ linked \subseteq Docs /\ cycle.cut = TRUE
    BY <1>1 DEF IInv, Tables, CycleSound, CycleWrite
  <2>3. [pct |-> cycle.p, cut |-> cycle.cut] # NoRow
    <3>1. [pct |-> cycle.p, cut |-> cycle.cut] \in Saved
      BY <2>2 DEF Saved
    <3>2. NoRow \notin Saved
      BY <1>1, Install DEF IInv
    <3> QED
      BY <3>1, <3>2
  <2>4. /\ state'[u] # NoRow /\ state'[u].cut /\ state'[u].pct = cycle.p
        /\ linked' = linked /\ access' = access
    BY <1>1, <2>2, <2>3 DEF SaveCycleState, IInv, Tables
  <2>8. cycle.p \in Int /\ Pct \subseteq Int
    BY <1>1, <2>2, Install DEF IInv
  <2>5. ASSUME NEW g \in linked, row'[u][g] # NoRow
        PROVE  row'[u][g].old \/ row'[u][g].pct <= cycle.p
    <3>1. row'[u][g] = IF row[u][g] # NoRow /\ (g \in cycle.before \/ cycle.kind = "lead")
                       THEN [row[u][g] EXCEPT !.old = TRUE] ELSE row[u][g]
      BY <1>1, <2>2 DEF SaveCycleState, IInv, Tables
    <3>2. CASE g \in cycle.before \/ cycle.kind = "lead"
      <4>1. row[u][g] # NoRow /\ row'[u][g] = [row[u][g] EXCEPT !.old = TRUE]
        BY <2>5, <3>1, <3>2
      <4>2. row[u][g] \in OwnRow
        BY <1>1, <2>2, <4>1 DEF IInv, Tables
      <4> QED
        BY <4>1, <4>2 DEF OwnRow
    <3>3. CASE g \notin cycle.before /\ cycle.kind # "lead"
      <4>1. row'[u][g] = row[u][g] /\ row[u][g] # NoRow
        BY <2>5, <3>1, <3>3
      <4>2. row[u][g].pct \in Int
        <5>1. row[u][g] \in OwnRow
          BY <1>1, <2>2, <4>1 DEF IInv, Tables
        <5> QED
          BY <2>8, <5>1 DEF OwnRow
      <4>3. row[u][g].dev \in Devices \/ row[u][g].pct = cycle.p
        BY <1>1, <2>2, <3>3, <4>1 DEF UnreadRows
      <4>4. row[u][g].pct <= cycle.p
        BY <2>8, <3>3, <4>1, <4>2, <4>3
      <4> QED
        BY <4>1, <4>4
    <3> QED
      BY <3>2, <3>3
  <2>6. OwnAnswer(u, h)' = cycle.p
    BY <1>1, <2>2, <2>4, <2>5 DEF StateTold
  <2>7. Answer(u, h)' = OwnAnswer(u, h)'
    BY <1>1, <2>1, <2>2, Fixed DEF FromOwn
  <2>9. ~(cycle.p > cycle.p)
    BY <2>8
  <2> QED
    BY <1>1, <2>6, <2>7, <2>9
<1>2. ASSUME IInv, IInv', UnreadRows, FromOwn', StateTold', [Next]_vars
      PROVE  [ cycle # NoRow /\ cycle' = NoRow /\ SaveCycleState /\ cycle.rewind =>
                 \A u \in {cycle.u}, h \in linked : Answer(u, h)' > cycle.p =>
                     \E g \in linked \ cycle.before :
                         /\ row[u][g] # NoRow /\ row[u][g].dev \in Devices
                         /\ row[u][g].pct > cycle.p ]_vars
  BY <1>1, <1>2
<1> QED
  BY <1>2, Inductive, UnreadIsReported, AnswersFromOwn, InvTold, PTL
     DEF Spec, RewindTakesEffect

\* A cleared book reads as its start on every hash.
THEOREM ClearsStick == Spec => ClearReadsAsStart
<1>1. ASSUME IInv, IInv', FromOwn', StateTold', [Next]_vars,
             cycle # NoRow, cycle' = NoRow, ClearEnds, cycle.stage = "save",
             NEW u \in {cycle.u}, NEW h \in linked \union {Exact}
      PROVE  Answer(u, h)' = 0
  <2> DEFINE zero == [pct |-> 0, dev |-> Bridge, old |-> FALSE]
             st == [pct |-> 0, cut |-> FALSE]
  <2>1. setup' = setup
    BY <1>1 DEF Next, vars
  <2>2. u = cycle.u /\ u \in Users /\ u \in access /\ linked \subseteq Docs /\ Exact \in Docs
    BY <1>1, Install DEF IInv, Tables, CycleSound, CycleWrite
  <2>3. st # NoRow /\ zero # NoRow /\ st.pct = 0 /\ zero.pct = 0
    <3>1. 0 \in Pct /\ NoRow \notin Saved /\ NoRow \notin OwnRow
      BY <1>1, Install DEF IInv
    <3>2. st \in Saved /\ zero \in OwnRow
      BY <3>1 DEF Saved, OwnRow
    <3> QED
      BY <3>1, <3>2
  <2>4. /\ state'[u] = st
        /\ linked' = linked /\ access' = access
        /\ \A g \in linked \union {Exact} : row'[u][g] = zero
    BY <1>1, <2>2 DEF ClearEnds, IInv, Tables
  <2>5. zero.pct <= st.pct
    BY <2>3
  <2> HIDE DEF st, zero
  <2>7. OwnAnswer(u, h)' = 0
    <3>1. CASE h \in linked
      BY <1>1, <2>2, <2>3, <2>4, <2>5, <3>1 DEF StateTold
    <3>2. CASE h \notin linked
      BY <1>1, <2>2, <2>3, <2>4, <3>2 DEF OwnAnswer, Position
    <3> QED
      BY <3>1, <3>2
  <2>8. Answer(u, h)' = OwnAnswer(u, h)'
    BY <1>1, <2>1, <2>2, Fixed DEF FromOwn
  <2> QED
    BY <2>7, <2>8
<1>2. ASSUME IInv, IInv', FromOwn', StateTold', [Next]_vars
      PROVE  [ cycle # NoRow /\ cycle' = NoRow /\ ClearEnds /\ cycle.stage = "save" =>
                 \A u \in {cycle.u}, h \in linked \union {Exact} : Answer(u, h)' = 0 ]_vars
  BY <1>1, <1>2
<1> QED
  BY <1>2, Inductive, AnswersFromOwn, InvTold, PTL DEF Spec, ClearReadsAsStart

-----------------------------------------------------------------------------
(* Whose report a stored position answers to, where reports are stored one at *)
(* a time.                                                                    *)

\* At most one report waits to be stored.
Alone == \A s, t \in Slots : inflight[s] # NoRow /\ inflight[t] # NoRow => s = t

\* While one does, no write of the bridge is on its way.
Undisturbed ==
    (\E s \in Slots : inflight[s] # NoRow) => cycle = NoRow \/ cycle.stage # "put"

\* It takes nothing back that another device claimed in a document of no book.
Defends(r) ==
    /\ FurthestWins /\ ~Resolves(r.h)
    /\ r.p < Position(row[r.u][r.h])
    /\ row[r.u][r.h].dev \in Devices \ Anonymous
    => row[r.u][r.h].dev = r.d

\* If it goes back in the book, its device has read on from there.
ReadOn(r) ==
    /\ FurthestWins /\ Resolves(r.h)
    /\ r.p < Position(row[r.u][r.h])
    => ReadOnBelow(trail[r.u], r.d, row[r.u][r.h].pct)

ClaimsDefended == \A s \in Slots : inflight[s] # NoRow => Defends(inflight[s])
RewindsProved == \A s \in Slots : inflight[s] # NoRow => ReadOn(inflight[s])

Defended == Serial => Alone /\ ClaimsDefended
Proved == Serial => Alone /\ Undisturbed /\ RewindsProved

\* What is last in a trail after a report is that report.
LEMMA ObservedLast ==
    ASSUME NEW t \in Seq(Report), MaxTrail \in Nat \ {0}, NEW d \in Devices, NEW p \in Pct
    PROVE  LET o == Observe(t, d, p) IN
           o \in Seq(Report) /\ Len(o) > 0 /\ o[Len(o)].dev = d /\ o[Len(o)].pct = p
<1> DEFINE e == [dev |-> d, pct |-> p]
           o == Observe(t, d, p)
<1>1. e \in Report /\ e.dev = d /\ e.pct = p
  BY DEF Report
<1> HIDE DEF e
<1>2. CASE t # <<>> /\ Last(t) = e
  <2>1. o = t /\ t[Len(t)] = e /\ Len(t) > 0
    BY <1>2 DEF Observe, e, Last
  <2> QED
    BY <1>1, <2>1
<1>3. CASE ~(t # <<>> /\ Last(t) = e) /\ Len(t) = MaxTrail
  <2>1. t # <<>>
    BY <1>3
  <2>2. Tail(t) \in Seq(Report)
    BY <2>1
  <2>3. o = Append(Tail(t), e)
    BY <1>3 DEF Observe, e
  <2> HIDE DEF o
  <2>4. o \in Seq(Report) /\ Len(o) = Len(Tail(t)) + 1 /\ o[Len(Tail(t)) + 1] = e
    BY <1>1, <2>2, <2>3
  <2>5. Len(Tail(t)) \in Nat
    BY <2>2
  <2>6. Len(o) > 0 /\ o[Len(o)] = e
    BY <2>4, <2>5
  <2> QED
    BY <1>1, <2>4, <2>6 DEF o
<1>4. CASE ~(t # <<>> /\ Last(t) = e) /\ Len(t) # MaxTrail
  <2>1. o = Append(t, e)
    BY <1>4 DEF Observe, e
  <2> HIDE DEF o
  <2>2. o \in Seq(Report) /\ Len(o) = Len(t) + 1 /\ o[Len(t) + 1] = e /\ Len(t) \in Nat
    BY <1>1, <2>1
  <2>3. Len(o) > 0 /\ o[Len(o)] = e
    BY <2>2
  <2> QED
    BY <1>1, <2>2, <2>3 DEF o
<1> QED
  BY <1>2, <1>3, <1>4

\* A device that is believed and has come to p has read on below whatever is
\* ahead of p: none of its reports since the first of those is above the last.
LEMMA CorroboratedBelow ==
    ASSUME NEW t \in Seq(Report), NEW d \in Devices, NEW p, NEW b \in Int,
           Pct \subseteq Int, Len(t) > 0, t[Len(t)].dev = d, t[Len(t)].pct = p, p < b,
           Corroborated(t, d)
    PROVE  ReadOnBelow(t, d, b)
<1> DEFINE mine == {i \in DOMAIN t : t[i].dev = d}
           n == Len(t)
<1>1. PICK i \in mine, j \in mine :
          /\ i < j /\ t[i].pct < t[j].pct
          /\ \A k, l \in mine : i <= k /\ k < l => t[k].pct <= t[l].pct
  BY DEF Corroborated
<1>2. DOMAIN t = 1 .. n /\ n \in Nat
  OBVIOUS
<1>3. n \in mine
  BY <1>2
<1>4. i \in 1 .. n /\ j \in 1 .. n
  BY <1>2
<1>5. t[j].pct <= t[n].pct
  <2>1. CASE j = n
    <3>1. t[n] \in Report
      BY <1>2
    <3>2. t[n].pct \in Int
      BY <3>1 DEF Report
    <3> QED
      BY <2>1, <3>2
  <2>2. CASE j < n
    BY <1>1, <1>3, <1>4, <2>2
  <2> QED
    BY <1>4, <2>1, <2>2
<1>6. t[j] \in Report /\ t[n] \in Report
  BY <1>2, <1>4
<1>7. t[j].pct \in Int /\ t[n].pct \in Int
  BY <1>6 DEF Report
<1>8. t[j].pct < b
  BY <1>5, <1>7
<1> QED
  BY <1>1, <1>4, <1>8 DEF ReadOnBelow

\* A position of the reader's own is what a PUT is judged by.
LEMMA JudgedByOwn ==
    ASSUME IInv, NEW u \in Users, NEW h \in Docs, NEW p \in Pct, p < Position(row[u][h])
    PROVE  /\ row[u][h] # NoRow /\ Position(row[u][h]) = row[u][h].pct
           /\ row[u][h].pct \in Int /\ p \in Int
           /\ Baseline(u, h).pct = row[u][h].pct
           /\ Baseline(u, h).dev = row[u][h].dev
           /\ Baseline(u, h).fromState = FALSE
<1>1. Pct = 0 .. setup.top /\ setup.top \in Nat
  BY Install DEF IInv
<1>2. p \in Int /\ p >= 0
  BY <1>1
<1>3. row[u][h] # NoRow
  <2>1. ~(p < 0)
    BY <1>2
  <2> QED
    BY <2>1 DEF Position
<1>4. Position(row[u][h]) = row[u][h].pct
  BY <1>3 DEF Position
<1>5. row[u][h].pct \in Int
  <2>1. row[u][h] \in OwnRow
    BY <1>3 DEF IInv, Tables
  <2>2. row[u][h].pct \in 0 .. setup.top
    BY <2>1, <1>1 DEF OwnRow
  <2> QED
    BY <1>1, <2>2
<1>6. row[u][h].pct > 0
  BY <1>2, <1>4, <1>5
<1>7. ReaderRow(u, h) = row[u][h]
  BY <1>3 DEF ReaderRow
<1>8. Position(ReaderRow(u, h)) > 0
  BY <1>4, <1>6, <1>7
<1>9. Baseline(u, h) = [pct |-> row[u][h].pct, dev |-> row[u][h].dev, fromState |-> FALSE]
  BY <1>7, <1>8 DEF Baseline
<1> QED
  BY <1>2, <1>3, <1>4, <1>5, <1>9

Decided(s, u, d, h, p) ==
    \/ DevicePutForward(s, u, d, h, p)
    \/ DevicePutRewind(s, u, d, h, p)
    \/ DevicePutUnclaimedRewind(s, u, d, h, p)

\* What is decided and to be stored takes no claim and is proved.
LEMMA DecidedWell ==
    ASSUME IInv, setup' = setup, NEW s \in Slots,
           NEW u \in Users, NEW d \in Devices, NEW h \in Docs, NEW p \in Pct,
           Decided(s, u, d, h, p), inflight'[s] # NoRow,
           FurthestWins, p < Position(row[u][h])
    PROVE  /\ ~Resolves(h) /\ row[u][h].dev \in Devices \ Anonymous => row[u][h].dev = d
           /\ Resolves(h) => ReadOnBelow(trail'[u], d, row[u][h].pct)
<1>1. /\ Baseline(u, h).pct = row[u][h].pct
      /\ Baseline(u, h).dev = row[u][h].dev
      /\ Baseline(u, h).fromState = FALSE
      /\ row[u][h].pct \in Int /\ p \in Int /\ p < row[u][h].pct
  BY JudgedByOwn
<1>2. CASE DevicePutForward(s, u, d, h, p)
  BY <1>1, <1>2 DEF DevicePutForward, Backward
<1>3. CASE DevicePutUnclaimedRewind(s, u, d, h, p)
  <2>1. Bridge \notin Devices /\ NoDev \notin Devices
    BY SetupAssumption DEF IInv, Devices
  <2> QED
    BY <1>1, <1>3, <2>1 DEF DevicePutUnclaimedRewind, Unclaimed
<1>4. CASE DevicePutRewind(s, u, d, h, p) /\ ~DevicePutForward(s, u, d, h, p)
  <2> DEFINE o == Observe(trail[u], d, p)
  <2>1. Resolves(h) /\ trail' = Observed(u, d, h, p)
    BY <1>4 DEF DevicePutRewind
  <2>2. trail \in [Users -> Seq(Report)] /\ MaxTrail \in Nat \ {0} /\ Pct \subseteq Int
    BY Install DEF IInv, Trails
  <2>3. trail' = [trail EXCEPT ![u] = o] /\ Observed(u, d, h, p)[u] = o
    BY <2>1, <2>2 DEF Observed
  <2>4. Corroborated(o, d)
    <3>1. Corroborated(Observed(u, d, h, p)[u], d)
      BY <1>4 DEF DevicePutRewind
    <3> QED
      BY <3>1, <2>3
  <2>5. o \in Seq(Report) /\ Len(o) > 0 /\ o[Len(o)].dev = d /\ o[Len(o)].pct = p
    BY <2>2, ObservedLast
  <2> HIDE DEF o
  <2>6. ReadOnBelow(o, d, row[u][h].pct)
    BY <1>1, <2>2, <2>4, <2>5, CorroboratedBelow
  <2> QED
    BY <2>1, <2>2, <2>3, <2>6
<1> QED
  BY <1>2, <1>3, <1>4 DEF Decided

\* A decision leaves the rows and the links alone and fills one slot, if any.
LEMMA DecisionIs ==
    ASSUME IInv, NEW s \in Slots,
           NEW u \in Users, NEW d \in Devices, NEW h \in Docs, NEW p \in Pct,
           Decided(s, u, d, h, p)
    PROVE  /\ Free /\ inflight[s] = NoRow
           /\ row' = row /\ linked' = linked /\ cycle' = cycle
           /\ \A t \in Slots : t # s => inflight'[t] = inflight[t]
           /\ inflight'[s] # NoRow =>
                /\ inflight'[s].u = u /\ inflight'[s].d = d
                /\ inflight'[s].h = h /\ inflight'[s].p = p
<1> DEFINE r == [u |-> u, d |-> d, h |-> h, p |-> p, snap |-> shared[h], wasLinked |-> h \in linked]
<1>1. /\ Free /\ inflight[s] = NoRow
      /\ row' = row /\ linked' = linked /\ cycle' = cycle
      /\ inflight' = inflight \/ inflight' = [inflight EXCEPT ![s] = r]
  BY DEF Decided, DevicePutForward, DevicePutRewind, DevicePutUnclaimedRewind, Accept
<1>2. r.u = u /\ r.d = d /\ r.h = h /\ r.p = p
  OBVIOUS
<1> HIDE DEF r
<1>3. inflight \in [Slots -> Request \union {NoRow}]
  BY DEF IInv, Tables
<1> QED
  BY <1>1, <1>2, <1>3

\* What each other step leaves alone.
LEMMA OtherSteps ==
    ASSUME IInv, Step,
           ~\E s \in Slots : StoreDevicePut(s),
           ~\E s \in Slots, u \in Users, d \in Devices, h \in Docs, p \in Pct : Decided(s, u, d, h, p)
    PROVE  /\ inflight' = inflight
           /\ linked \subseteq linked'
           /\ \/ Free
              \/ cycle # NoRow /\ cycle.stage = "put"
              \/ CycleFails
<1>1. ASSUME NEW u \in Users, NEW d \in Devices, NEW h \in Docs, NEW p \in Pct,
             DevicePutWithoutAccess(u, d, h, p)
      PROVE  inflight' = inflight /\ linked \subseteq linked' /\ Free
  BY <1>1 DEF DevicePutWithoutAccess
<1>2. ASSUME NEW u \in Users, NEW h \in Docs, GetRegisters(u, h)
      PROVE  inflight' = inflight /\ linked \subseteq linked' /\ Free
  BY <1>2 DEF GetRegisters
<1>3. ASSUME NEW u \in Users, Cycle(u)
      PROVE  inflight' = inflight /\ linked \subseteq linked' /\ Free
  BY <1>3 DEF Cycle, CycleWrites, CycleFills, CycleFollowsKosync, ClearProgress
<1>4. CASE StoreBridgePut \/ ClearWriteFails
  BY <1>4 DEF StoreBridgePut, ClearWriteFails
<1>5. CASE SaveCycleState \/ ClearEnds
  BY <1>5 DEF SaveCycleState, ClearEnds
<1>6. CASE CycleFails
  BY <1>6 DEF CycleFails
<1>7. CASE \/ \E u \in Users : DebounceFires(u) \/ EvidenceExpires(u) \/ GrantAccess(u)
           \/ \E h \in Docs : LinkDocument(h)
  BY <1>7 DEF DebounceFires, EvidenceExpires, GrantAccess, LinkDocument
<1>8. ~\E u \in Users, d \in Devices, h \in Docs, p \in Pct :
          DevicePut(u, d, h, p) /\ ~DevicePutWithoutAccess(u, d, h, p)
  BY DEF DevicePut, Decided
<1> QED
  BY <1>1, <1>2, <1>3, <1>4, <1>5, <1>6, <1>7, <1>8 DEF Step

\* Who changes a stored position: a device's own report, without a claim or
\* decided before, and the bridge, in the book; an approved rewind only dates it.
LEMMA RowChanges ==
    ASSUME IInv, Step, NEW u \in Users, NEW h \in Docs
    PROVE  \/ /\ Position(row'[u][h]) = Position(row[u][h])
              /\ row'[u][h].dev = row[u][h].dev
           \/ Resolves(h) /\ row'[u][h].dev = Bridge
           \/ Resolves(h) /\ u \notin access
           \/ \E s \in Slots : /\ StoreDevicePut(s)
                               /\ inflight[s].u = u /\ inflight[s].h = h
                               /\ Position(row'[u][h]) = inflight[s].p
                               /\ row'[u][h].dev = inflight[s].d
<1> DEFINE Same == Position(row'[u][h]) = Position(row[u][h]) /\ row'[u][h].dev = row[u][h].dev
<1>0. row \in [Users -> [Docs -> OwnRow \union {NoRow}]]
  BY DEF IInv, Tables
<1>1. ASSUME NEW v \in Users, NEW d \in Devices, NEW g \in Docs, NEW p \in Pct,
             DevicePutWithoutAccess(v, d, g, p)
      PROVE  Same \/ (Resolves(h) /\ u \notin access)
  <2>1. \E x : row' = [row EXCEPT ![v][g] = x]
    BY <1>1 DEF DevicePutWithoutAccess
  <2> QED
    BY <1>0, <1>1, <2>1 DEF DevicePutWithoutAccess
<1>2. ASSUME NEW s \in Slots, StoreDevicePut(s)
      PROVE  \/ Same
             \/ /\ inflight[s].u = u /\ inflight[s].h = h
                /\ Position(row'[u][h]) = inflight[s].p
                /\ row'[u][h].dev = inflight[s].d
  <2> DEFINE r == inflight[s]
  <2>1. PICK x : x = [pct |-> r.p, dev |-> r.d, old |-> FALSE]
    OBVIOUS
  <2>2. row' = [row EXCEPT ![r.u][r.h] = x]
    BY <1>2, <2>1 DEF StoreDevicePut
  <2>3. x.pct = r.p /\ x.dev = r.d
    BY <2>1
  <2>4. r \in Request
    BY <1>2 DEF IInv, Tables, StoreDevicePut
  <2>5. x # NoRow
    <3>1. x \in OwnRow
      BY <2>1, <2>4 DEF Request, OwnRow
    <3>2. NoRow \notin OwnRow
      BY Install DEF IInv
    <3> QED
      BY <3>1, <3>2
  <2> HIDE DEF r
  <2> QED
    BY <1>0, <2>2, <2>3, <2>5 DEF Position, r
<1>3. CASE SaveCycleState
  <2> DEFINE c == cycle
  <2>1. c.u \in Users
    BY <1>3 DEF IInv, Tables, CycleWrite, SaveCycleState
  <2>2. \A g \in Docs : row[c.u][g] # NoRow =>
            /\ [row[c.u][g] EXCEPT !.old = TRUE].pct = row[c.u][g].pct
            /\ [row[c.u][g] EXCEPT !.old = TRUE].dev = row[c.u][g].dev
            /\ [row[c.u][g] EXCEPT !.old = TRUE] # NoRow
    <3> SUFFICES ASSUME NEW g \in Docs, row[c.u][g] # NoRow
                 PROVE  /\ [row[c.u][g] EXCEPT !.old = TRUE].pct = row[c.u][g].pct
                        /\ [row[c.u][g] EXCEPT !.old = TRUE].dev = row[c.u][g].dev
                        /\ [row[c.u][g] EXCEPT !.old = TRUE] # NoRow
      OBVIOUS
    <3>1. row[c.u][g] \in OwnRow
      BY <1>0, <2>1
    <3> QED
      BY <3>1, Dated DEF OwnRow
  <2>3. CASE u = c.u /\ c.rewind
    <3>1. row'[u][h] = IF row[u][h] # NoRow /\ (h \in c.before \/ c.kind = "lead")
                       THEN [row[u][h] EXCEPT !.old = TRUE] ELSE row[u][h]
      BY <1>0, <1>3, <2>1, <2>3 DEF SaveCycleState
    <3> QED
      BY <2>2, <2>3, <3>1 DEF Position
  <2>4. CASE ~(u = c.u /\ c.rewind)
    <3>1. row'[u] = row[u]
      BY <1>0, <1>3, <2>1, <2>4 DEF SaveCycleState
    <3> QED
      BY <3>1
  <2> QED
    BY <2>3, <2>4
<1>4. CASE StoreBridgePut \/ ClearEnds
  <2>1. cycle.u \in Users
    BY <1>4 DEF IInv, Tables, CycleWrite, StoreBridgePut, ClearEnds
  <2>2. CASE StoreBridgePut
    <3>1. PICK x : x = [pct |-> cycle.p, dev |-> Bridge, old |-> FALSE]
      OBVIOUS
    <3>2. row' = [row EXCEPT ![cycle.u][Exact] = x] /\ x.dev = Bridge
      BY <2>2, <3>1 DEF StoreBridgePut
    <3>3. row'[u][h] = row[u][h] \/ (row'[u][h] = x /\ h = Exact)
      BY <1>0, <3>2
    <3> QED
      BY <3>2, <3>3 DEF Resolves
  <2>3. CASE ClearEnds
    <3>1. PICK x : x = [pct |-> 0, dev |-> Bridge, old |-> FALSE]
      OBVIOUS
    <3>2. row' = [row EXCEPT ![cycle.u] = [g \in Docs |-> IF g \in linked \union {Exact} THEN x
                                                           ELSE row[cycle.u][g]]]
      BY <2>3, <3>1 DEF ClearEnds
    <3>3. row'[u][h] = row[u][h] \/ (row'[u][h] = x /\ h \in linked \union {Exact})
      BY <1>0, <2>1, <3>2
    <3>4. x.dev = Bridge
      BY <3>1
    <3> QED
      BY <3>3, <3>4 DEF Resolves
  <2> QED
    BY <1>4, <2>2, <2>3
<1>5. ASSUME NEW v \in Users, NEW d \in Devices, NEW g \in Docs, NEW p \in Pct,
             DevicePut(v, d, g, p), ~DevicePutWithoutAccess(v, d, g, p)
      PROVE  row' = row
  BY <1>5 DEF DevicePut, DevicePutForward, DevicePutRewind, DevicePutUnclaimedRewind
<1>6. ASSUME NEW v \in Users, Cycle(v) PROVE row' = row
  BY <1>6 DEF Cycle, CycleWrites, CycleFills, CycleFollowsKosync, ClearProgress
<1>7. CASE \/ \E v \in Users, g \in Docs : GetRegisters(v, g)
           \/ ClearWriteFails \/ CycleFails
           \/ \E v \in Users : DebounceFires(v) \/ EvidenceExpires(v) \/ GrantAccess(v)
           \/ \E g \in Docs : LinkDocument(g)
  <2>1. row' = row
    BY <1>7 DEF GetRegisters, ClearWriteFails, CycleFails, DebounceFires, EvidenceExpires,
                GrantAccess, LinkDocument
  <2> QED
    BY <2>1
<1> HIDE DEF Same
<1>8. row' = row => Same
  BY DEF Same
<1> QED
  BY <1>1, <1>2, <1>3, <1>4, <1>5, <1>6, <1>7, <1>8 DEF Step, Same

\* The links and the installs are what resolves a hash.
LEMMA ResolvesGrows ==
    ASSUME setup' = setup, linked \subseteq linked', NEW h
    PROVE  /\ Resolves(h) => Resolves(h)'
           /\ linked' = linked => (Resolves(h)' => Resolves(h))
BY Fixed DEF Resolves

\* No claim is given up by what happens between a decision and its store.
LEMMA DefendedKept ==
    ASSUME IInv, Step, setup' = setup, Serial, Alone, ClaimsDefended
    PROVE  Alone' /\ ClaimsDefended'
<1>0. /\ Users' = Users /\ Devices' = Devices /\ Docs' = Docs /\ Slots' = Slots
      /\ FurthestWins' = FurthestWins /\ Anonymous' = Anonymous
  BY Fixed DEF FurthestWins, Anonymous
<1>t. inflight \in [Slots -> Request \union {NoRow}]
  BY DEF IInv, Tables
<1>1. ASSUME NEW s \in Slots, StoreDevicePut(s) PROVE Alone' /\ ClaimsDefended'
  <2>1. inflight' = [inflight EXCEPT ![s] = NoRow] /\ inflight[s] # NoRow
    BY <1>1 DEF StoreDevicePut
  <2>2. \A t \in Slots : inflight'[t] = NoRow
    BY <1>t, <2>1 DEF Alone
  <2> QED
    BY <1>0, <2>2 DEF Alone, ClaimsDefended
<1>2. ASSUME NEW s \in Slots,
             NEW u \in Users, NEW d \in Devices, NEW h \in Docs, NEW p \in Pct,
             Decided(s, u, d, h, p)
      PROVE  Alone' /\ ClaimsDefended'
  <2>1. /\ Free /\ row' = row /\ linked' = linked
        /\ \A t \in Slots : t # s => inflight'[t] = inflight[t]
        /\ inflight'[s] # NoRow => /\ inflight'[s].u = u /\ inflight'[s].d = d
                                   /\ inflight'[s].h = h /\ inflight'[s].p = p
    BY <1>2, DecisionIs
  <2>2. \A t \in Slots : t # s => inflight'[t] = NoRow
    BY <2>1 DEF Free
  <2>3. Alone'
    BY <1>0, <2>2 DEF Alone
  <2>4. inflight'[s] # NoRow => Defends(inflight[s])'
    <3> SUFFICES ASSUME inflight'[s] # NoRow, FurthestWins, ~Resolves(h)',
                        p < Position(row[u][h]), row[u][h].dev \in Devices \ Anonymous
                 PROVE  row[u][h].dev = d
      BY <1>0, <2>1 DEF Defends, Position
    <3>1. ~Resolves(h)
      BY <2>1, ResolvesGrows
    <3> QED
      BY <1>2, <3>1, DecidedWell
  <2> QED
    BY <1>0, <2>2, <2>3, <2>4 DEF ClaimsDefended
<1>3. ASSUME ~\E s \in Slots : StoreDevicePut(s),
             ~\E s \in Slots, u \in Users, d \in Devices, h \in Docs, p \in Pct : Decided(s, u, d, h, p)
      PROVE  Alone' /\ ClaimsDefended'
  <2>1. inflight' = inflight /\ linked \subseteq linked'
    BY <1>3, OtherSteps
  <2>2. Alone'
    BY <1>0, <2>1 DEF Alone
  <2>3. ASSUME NEW t \in Slots, inflight[t] # NoRow PROVE Defends(inflight[t])'
    <3>1. PICK r \in Request : r = inflight[t]
      BY <1>t, <2>3
    <3>2. r.u \in Users /\ r.h \in Docs
      BY <3>1 DEF Request
    <3>3. Defends(r)
      BY <2>3, <3>1 DEF ClaimsDefended
    <3>4. Defends(r)'
      <4> SUFFICES ASSUME FurthestWins, ~Resolves(r.h)', r.p < Position(row'[r.u][r.h]),
                          row'[r.u][r.h].dev \in Devices \ Anonymous
                   PROVE  row'[r.u][r.h].dev = r.d
        BY <1>0 DEF Defends, Position
      <4>1. ~Resolves(r.h)
        BY <2>1, ResolvesGrows
      <4>2. /\ Position(row'[r.u][r.h]) = Position(row[r.u][r.h])
            /\ row'[r.u][r.h].dev = row[r.u][r.h].dev
        BY <1>3, <3>2, <4>1, RowChanges
      <4> QED
        BY <3>3, <4>1, <4>2 DEF Defends
    <3> QED
      BY <2>1, <3>1, <3>4
  <2> QED
    BY <1>0, <2>1, <2>2, <2>3 DEF ClaimsDefended
<1> QED
  BY <1>1, <1>2, <1>3

\* While a report waits to be stored, only its store and a failing cycle can
\* happen, so what was proved of it still holds.
LEMMA ProvedKept ==
    ASSUME IInv, Step, setup' = setup, Serial, Alone, Undisturbed, RewindsProved
    PROVE  Alone' /\ Undisturbed' /\ RewindsProved'
<1>0. Users' = Users /\ Docs' = Docs /\ Slots' = Slots /\ FurthestWins' = FurthestWins
  BY Fixed DEF FurthestWins
<1>t. inflight \in [Slots -> Request \union {NoRow}]
  BY DEF IInv, Tables
<1>1. ASSUME NEW s \in Slots, StoreDevicePut(s) PROVE Alone' /\ Undisturbed' /\ RewindsProved'
  <2>1. inflight' = [inflight EXCEPT ![s] = NoRow] /\ inflight[s] # NoRow
    BY <1>1 DEF StoreDevicePut
  <2>2. \A t \in Slots : inflight'[t] = NoRow
    BY <1>t, <2>1 DEF Alone
  <2> QED
    BY <1>0, <2>2 DEF Alone, Undisturbed, RewindsProved
<1>2. ASSUME NEW s \in Slots,
             NEW u \in Users, NEW d \in Devices, NEW h \in Docs, NEW p \in Pct,
             Decided(s, u, d, h, p)
      PROVE  Alone' /\ Undisturbed' /\ RewindsProved'
  <2>1. /\ Free /\ row' = row /\ linked' = linked /\ cycle' = cycle
        /\ \A t \in Slots : t # s => inflight'[t] = inflight[t]
        /\ inflight'[s] # NoRow => /\ inflight'[s].u = u /\ inflight'[s].d = d
                                   /\ inflight'[s].h = h /\ inflight'[s].p = p
    BY <1>2, DecisionIs
  <2>2. \A t \in Slots : t # s => inflight'[t] = NoRow
    BY <2>1 DEF Free
  <2>3. Alone' /\ Undisturbed'
    BY <1>0, <2>1, <2>2 DEF Alone, Undisturbed, Free
  <2>4. inflight'[s] # NoRow => ReadOn(inflight[s])'
    <3> SUFFICES ASSUME inflight'[s] # NoRow, FurthestWins, Resolves(h)', p < Position(row[u][h])
                 PROVE  ReadOnBelow(trail'[u], d, row[u][h].pct)
      BY <1>0, <2>1 DEF ReadOn, Position, ReadOnBelow
    <3>1. Resolves(h)
      BY <2>1, ResolvesGrows
    <3> QED
      BY <1>2, <3>1, DecidedWell
  <2> QED
    BY <1>0, <2>2, <2>3, <2>4 DEF RewindsProved
<1>3. ASSUME ~\E s \in Slots : StoreDevicePut(s),
             ~\E s \in Slots, u \in Users, d \in Devices, h \in Docs, p \in Pct : Decided(s, u, d, h, p)
      PROVE  Alone' /\ Undisturbed' /\ RewindsProved'
  <2>1. inflight' = inflight /\ (Free \/ (cycle # NoRow /\ cycle.stage = "put") \/ CycleFails)
    BY <1>3, OtherSteps
  <2>2. CASE \A s \in Slots : inflight[s] = NoRow
    BY <1>0, <2>1, <2>2 DEF Alone, Undisturbed, RewindsProved
  <2>3. CASE \E s \in Slots : inflight[s] # NoRow
    <3>1. CycleFails
      BY <2>1, <2>3 DEF Free, Undisturbed
    <3>2. UNCHANGED <<linked, row, trail, inflight>> /\ cycle' = NoRow
      BY <3>1 DEF CycleFails
    <3>3. \A h : Resolves(h)' => Resolves(h)
      BY <3>2, ResolvesGrows
    <3> QED
      BY <1>0, <3>2, <3>3 DEF Alone, Undisturbed, RewindsProved, ReadOn, Position, ReadOnBelow
  <2> QED
    BY <2>2, <2>3
<1> QED
  BY <1>1, <1>2, <1>3

\* What a waiting report may do holds from the start, and through every step.
LEMMA WaitingInit == Init => Defended /\ Proved
BY DEF Init, Defended, Proved, Alone, ClaimsDefended, Undisturbed, RewindsProved

\* Through every step.
LEMMA WaitingKept == IInv /\ Defended /\ Proved /\ [Next]_vars => (Defended /\ Proved)'
<1> SUFFICES ASSUME IInv, Defended, Proved, [Next]_vars PROVE (Defended /\ Proved)'
  OBVIOUS
<1>1. CASE Next
  <2>1. Step /\ setup' = setup /\ (Serial' => Serial)
    BY <1>1 DEF Next, Serial
  <2> QED
    BY <2>1, DefendedKept, ProvedKept DEF Defended, Proved
<1>2. CASE UNCHANGED vars
  <2>1. /\ setup' = setup /\ (Serial' => Serial) /\ Slots' = Slots
        /\ FurthestWins' = FurthestWins /\ Devices' = Devices /\ Anonymous' = Anonymous
        /\ \A h : Resolves(h)' = Resolves(h)
    BY <1>2 DEF vars, Slots, Serial, Resolves, Siblings, FurthestWins, Devices, Anonymous
  <2>2. /\ Alone' = Alone /\ Undisturbed' = Undisturbed
    BY <1>2, <2>1 DEF vars, Alone, Undisturbed
  <2>3. ClaimsDefended => ClaimsDefended'
    BY <1>2, <2>1 DEF vars, ClaimsDefended, Defends, Position
  <2>4. RewindsProved => RewindsProved'
    BY <1>2, <2>1 DEF vars, RewindsProved, ReadOn, Position, ReadOnBelow
  <2> QED
    BY <2>1, <2>2, <2>3, <2>4 DEF Defended, Proved
<1> QED
  BY <1>1, <1>2 

\* The claims and proofs of the reports that wait.
THEOREM Waiting == Spec => [](Defended /\ Proved)
<1>1. IInv /\ Defended /\ Proved /\ [Next]_vars => (Defended /\ Proved)'
  BY WaitingKept
<1> QED
  BY <1>1, WaitingInit, Inductive, PTL DEF Spec

\* A stored position is a number.
LEMMA PositionIsNumber ==
    ASSUME IInv, NEW u \in Users, NEW h \in Docs
    PROVE  Position(row[u][h]) \in Int
<1>1. Pct \subseteq Int
  BY Install DEF IInv
<1>2. CASE row[u][h] = NoRow
  <2>1. Position(row[u][h]) = 0
    BY <1>2 DEF Position
  <2> QED
    BY <2>1
<1>3. CASE row[u][h] # NoRow
  <2>1. row[u][h] \in OwnRow
    BY <1>3 DEF IInv, Tables
  <2>2. Position(row[u][h]) \in Pct
    BY <1>3, <2>1 DEF Position, OwnRow
  <2> QED
    BY <1>1, <2>2
<1> QED
  BY <1>2, <1>3

\* A lowered position answers to a report that waited.
LEMMA StoredLower ==
    ASSUME IInv, Defended, Proved, Step, NEW u \in Users, NEW h \in Docs,
           Position(row'[u][h]) < Position(row[u][h]), FurthestWins,
           row'[u][h].dev # Bridge, ~(Resolves(h) /\ u \notin access)
    PROVE  \E s \in Slots : /\ inflight[s] # NoRow
                            /\ inflight[s].u = u /\ inflight[s].h = h
                            /\ inflight[s].p < Position(row[u][h])
                            /\ row'[u][h].dev = inflight[s].d
<1>1. Position(row[u][h]) \in Int
  BY PositionIsNumber
<1>2. PICK s \in Slots : /\ StoreDevicePut(s)
                         /\ inflight[s].u = u /\ inflight[s].h = h
                         /\ Position(row'[u][h]) = inflight[s].p
                         /\ row'[u][h].dev = inflight[s].d
  <2>1. Position(row'[u][h]) # Position(row[u][h])
    BY <1>1
  <2> QED
    BY <2>1, RowChanges
<1> QED
  BY <1>2 DEF StoreDevicePut

\* What passes the gate of a device's PUT takes no claim back and is read on.
LEMMA PassesWell ==
    ASSUME IInv, [Next]_vars, FurthestWins, NEW s \in Slots, Passes(s),
           NEW r, r = inflight'[s], r.p < Position(row[r.u][r.h])
    PROVE  /\ ~Resolves(r.h) /\ row[r.u][r.h].dev \in Devices \ Anonymous =>
                  row[r.u][r.h].dev = r.d
           /\ Resolves(r.h) => ReadOnBelow(trail'[r.u], r.d, Position(row[r.u][r.h]))
<1>1. Step /\ setup' = setup
  BY DEF Next, vars, Passes
<1>2. PICK t \in Slots, u \in Users, d \in Devices, h \in Docs, p \in Pct :
          Decided(t, u, d, h, p)
  <2> SUFFICES ASSUME ~\E t \in Slots, u \in Users, d \in Devices, h \in Docs, p \in Pct :
                         Decided(t, u, d, h, p)
               PROVE  FALSE
    OBVIOUS
  <2>1. CASE \E t \in Slots : StoreDevicePut(t)
    <3>1. PICK t \in Slots : inflight' = [inflight EXCEPT ![t] = NoRow]
      BY <2>1 DEF StoreDevicePut
    <3>2. inflight \in [Slots -> Request \union {NoRow}]
      BY DEF IInv, Tables
    <3> QED
      BY <3>1, <3>2 DEF Passes
  <2>2. CASE ~\E t \in Slots : StoreDevicePut(t)
    BY <1>1, <2>2, OtherSteps DEF Passes
  <2> QED
    BY <2>1, <2>2
<1>3. t = s /\ r.u = u /\ r.d = d /\ r.h = h /\ r.p = p
  BY <1>2, DecisionIs DEF Passes
<1>4. Decided(s, u, d, h, p) /\ inflight'[s] # NoRow /\ p < Position(row[u][h])
  BY <1>2, <1>3 DEF Passes
<1>5. /\ ~Resolves(h) /\ row[u][h].dev \in Devices \ Anonymous => row[u][h].dev = d
      /\ Resolves(h) => ReadOnBelow(trail'[u], d, row[u][h].pct)
  BY <1>1, <1>4, DecidedWell
<1>6. Position(row[u][h]) = row[u][h].pct
  <2>1. Position(row[u][h]) # 0 \/ row[u][h] # NoRow
    <3>1. Pct \subseteq Int /\ \A x \in Pct : x >= 0
      BY Install DEF IInv
    <3>2. ~(p < 0)
      BY <3>1
    <3> QED
      BY <1>4, <3>2 DEF Position
  <2> QED
    BY <2>1 DEF Position
<1> QED
  BY <1>3, <1>5, <1>6

\* In a document of no book, no lower report of another device passes the gate
\* against a position one device claimed, whatever requests race; and while they
\* do not, none takes it back.
THEOREM ClaimsStand == Spec => ClaimedPositionStands
<1>1. ASSUME IInv, Defended, Proved, [Next]_vars, row' # row, FurthestWins, Serial,
             NEW u \in Users, NEW h \in Docs, ~Resolves(h),
             Position(row[u][h]') < Position(row[u][h]),
             row[u][h].dev \in Devices \ Anonymous
      PROVE  row[u][h]'.dev = row[u][h].dev
  <2>1. Step
    BY <1>1 DEF Next, vars
  <2>3. CASE row'[u][h].dev = Bridge
    <3>1. Bridge \notin Devices
      BY <1>1, SetupAssumption DEF IInv, Devices
    <3>2. Position(row'[u][h]) # Position(row[u][h])
      <4>1. Position(row[u][h]) \in Int
        BY <1>1, PositionIsNumber
      <4> QED
        BY <1>1, <4>1
    <3>3. PICK s \in Slots : /\ StoreDevicePut(s) /\ row'[u][h].dev = inflight[s].d
      BY <1>1, <2>1, <2>3, <3>2, RowChanges
    <3>4. inflight[s].d \in Devices
      BY <1>1, <3>3 DEF IInv, Tables, Request, StoreDevicePut
    <3> QED
      BY <2>3, <3>1, <3>3, <3>4
  <2>4. CASE row'[u][h].dev # Bridge
    <3>1. PICK s \in Slots : /\ inflight[s] # NoRow
                             /\ inflight[s].u = u /\ inflight[s].h = h
                             /\ inflight[s].p < Position(row[u][h])
                             /\ row'[u][h].dev = inflight[s].d
      BY <1>1, <2>1, <2>4, StoredLower
    <3>2. Defends(inflight[s])
      BY <1>1, <3>1 DEF Defended, ClaimsDefended
    <3> QED
      BY <1>1, <3>1, <3>2 DEF Defends
  <2> QED
    BY <2>3, <2>4
<1>2. ASSUME IInv, [Next]_vars, FurthestWins, NEW s \in Slots, Passes(s)
      PROVE  LET r == inflight'[s]  stood == row[r.u][r.h]
             IN  ~Resolves(r.h) /\ r.p < Position(stood)
                 /\ stood.dev \in Devices \ Anonymous => stood.dev = r.d
  BY <1>2, PassesWell
<1>3. ASSUME IInv, Defended, Proved, [Next]_vars
      PROVE  [ FurthestWins =>
                 /\ \A s \in Slots : Passes(s) =>
                       LET r == inflight'[s]  stood == row[r.u][r.h]
                       IN  ~Resolves(r.h) /\ r.p < Position(stood)
                           /\ stood.dev \in Devices \ Anonymous => stood.dev = r.d
                 /\ Serial => \A u \in Users, h \in Docs :
                       ~Resolves(h) /\ Lowered(u, h) /\ row[u][h].dev \in Devices \ Anonymous
                       => row[u][h]'.dev = row[u][h].dev ]_vars
  BY <1>1, <1>2, <1>3 DEF Lowered
<1> QED
  BY <1>3, Inductive, Waiting, PTL DEF Spec, ClaimedPositionStands

\* In a book a report passes the gate below the stored position only when its
\* device has read on there, on two rising reports below that position, whatever
\* requests race; and while they do not, only such a report lowers it.
THEOREM RewindsAreRead == Spec => RewindNeedsReadingOn
<1>1. ASSUME IInv, Defended, Proved, [Next]_vars, row' # row, FurthestWins, Serial,
             NEW u \in access, NEW h \in Docs, Resolves(h),
             Position(row[u][h]') < Position(row[u][h]),
             row[u][h]'.dev \in Devices
      PROVE  ReadOnBelow(trail[u], row[u][h]'.dev, row[u][h].pct)
  <2>1. Step
    BY <1>1 DEF Next, vars
  <2>2. u \in Users
    BY <1>1 DEF IInv, Tables
  <2>3. Bridge \notin Devices
    BY <1>1, SetupAssumption DEF IInv, Devices
  <2>4. PICK s \in Slots : /\ inflight[s] # NoRow
                           /\ inflight[s].u = u /\ inflight[s].h = h
                           /\ inflight[s].p < Position(row[u][h])
                           /\ row'[u][h].dev = inflight[s].d
    BY <1>1, <2>1, <2>2, <2>3, StoredLower
  <2>5. ReadOn(inflight[s])
    BY <1>1, <2>4 DEF Proved, RewindsProved
  <2> QED
    BY <1>1, <2>4, <2>5 DEF ReadOn
<1>2. ASSUME IInv, [Next]_vars, FurthestWins, NEW s \in Slots, Passes(s)
      PROVE  LET r == inflight'[s]  stood == Position(row[r.u][r.h])
             IN  Resolves(r.h) /\ r.p < stood => ReadOnBelow(trail'[r.u], r.d, stood)
  BY <1>2, PassesWell
<1>3. ASSUME IInv, Defended, Proved, [Next]_vars
      PROVE  [ FurthestWins =>
                 /\ \A s \in Slots : Passes(s) =>
                       LET r == inflight'[s]  stood == Position(row[r.u][r.h])
                       IN  Resolves(r.h) /\ r.p < stood => ReadOnBelow(trail'[r.u], r.d, stood)
                 /\ Serial => \A u \in access, h \in Docs :
                       Resolves(h) /\ Lowered(u, h) /\ row[u][h]'.dev \in Devices
                       => ReadOnBelow(trail[u], row[u][h]'.dev, row[u][h].pct) ]_vars
  BY <1>1, <1>2, <1>3 DEF Lowered
<1> QED
  BY <1>3, Inductive, Waiting, PTL DEF Spec, RewindNeedsReadingOn

=============================================================================

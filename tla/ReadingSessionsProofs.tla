------------------------ MODULE ReadingSessionsProofs ------------------------
(***************************************************************************)
(* What holds of the reading sessions for any clients, destinations, bounds *)
(* and plans: types, disjoint sessions, at-least-once delivery and local    *)
(* outages.  The shapes that the store and the delivery keep come first;    *)
(* what the destinations took and what is given up are separate layers over *)
(* six sorts of steps.                                                      *)
(***************************************************************************)
EXTENDS ReadingSessions, FiniteSetTheorems, WellFoundedInduction, NaturalsInduction, TLAPS

-----------------------------------------------------------------------------
(* Numbers. *)

\* The constants are numbers.
LEMMA Bounds ==
    /\ Gap \in Nat \ {0} /\ Patience \in Nat \ {0} /\ MaxSession \in Nat \ {0} /\ Limit \in Nat \ {0}
    /\ MaxExplained \in Nat /\ RetryWindow \in Nat /\ KeepFor \in Nat /\ Reading \in Nat
    /\ Horizon \in Nat
BY SessionAssumption

\* What is missing is no number.
LEMMA Missings ==
    /\ None \notin Int /\ None \notin Nat /\ None \notin Times
    /\ None \notin Movements /\ None \notin Sittings /\ None \notin Deliveries
<1>1. Nat \subseteq Int /\ Times \subseteq Int
  BY Bounds DEF Times
<1> QED
  BY <1>1, NoneAssumption

\* The greater of two numbers is one of them.
LEMMA MaxIs ==
    ASSUME NEW i \in Int, NEW j \in Int
    PROVE  Max({i, j}) \in {i, j} /\ Max({i, j}) >= i /\ Max({i, j}) >= j
<1>1. \E x \in {i, j} : \A y \in {i, j} : x >= y
  OBVIOUS
<1> QED
  BY <1>1 DEF Max

\* The smallest of three numbers is one of them.
LEMMA Min3Is ==
    ASSUME NEW i \in Int, NEW j \in Int, NEW k \in Int
    PROVE  /\ Min({i, j, k}) \in {i, j, k}
           /\ Min({i, j, k}) <= i /\ Min({i, j, k}) <= j /\ Min({i, j, k}) <= k
<1>1. \E x \in {i, j, k} : \A y \in {i, j, k} : x <= y
  OBVIOUS
<1> QED
  BY <1>1 DEF Min

\* The smallest and the greatest of a set of moments.
LEMMA Least ==
    ASSUME NEW S \in SUBSET Nat, S # {}
    PROVE  \E x \in S : \A y \in S : x <= y
<1>1. PICK x \in S : \A y \in S : <<y, x>> \notin OpToRel(<, Nat)
  BY NatLessThanWellFounded, WFMin
<1>2. \A y \in S : ~(y < x)
  BY <1>1 DEF OpToRel
<1> QED
  BY <1>2

\* The greatest of a set of moments is in it.
LEMMA Greatest ==
    ASSUME NEW n \in Nat, NEW S \in SUBSET (0 .. n), S # {}
    PROVE  Max(S) \in S /\ \A y \in S : Max(S) >= y
<1> DEFINE T == {n - x : x \in S}
<1>1. T \in SUBSET Nat /\ T # {}
  <2>1. \A x \in S : x \in Int /\ n - x \in Nat
    OBVIOUS
  <2>2. PICK x \in S : TRUE
    OBVIOUS
  <2>3. n - x \in T
    BY <2>2
  <2> QED
    BY <2>1, <2>3
<1>2. PICK z \in T : \A y \in T : z <= y
  BY <1>1, Least
<1>3. PICK x \in S : z = n - x
  OBVIOUS
<1>4. \A y \in S : x >= y
  <2> TAKE y \in S
  <2>1. n - x <= n - y
    BY <1>2, <1>3
  <2>2. n \in Int /\ x \in Int /\ y \in Int
    OBVIOUS
  <2> QED
    BY ONLY <2>1, <2>2
<1> QED
  BY <1>4 DEF Max

-----------------------------------------------------------------------------
(* What the store keeps. *)

Ends(h) == {s.to : s \in h}

\* The ends of the wide ones.
Long(h) == {s.to : s \in {x \in h : x.wide}}

HistoryOK(n, h) ==
    /\ \A s \in h : /\ s.from \in Int /\ s.to \in 0 .. n
                    /\ s.from < s.to /\ s.to - s.from <= MaxSession
    /\ \A s, t \in h : s = t \/ s.to <= t.from \/ t.to <= s.from

OpenOK(n, h, o) ==
    o = None \/ ( /\ o \in Sittings /\ o.last <= n
                  /\ o.acc \in 1 .. (o.last - o.from)
                  /\ \A s \in h : s.to <= o.from )

RowsOK(h, r) ==
    \A t \in DOMAIN r :
        t \in Ends(h) /\ r[t] \in Outbox /\ r[t].to = t /\ (t \in Long(h) => r[t].wide)

Kept(n, h, o, r) == HistoryOK(n, h) /\ OpenOK(n, h, o) /\ RowsOK(h, r)

DeliveryOK(f, h) ==
    f = None \/ ( /\ f \in Deliveries /\ f.at \in 1 .. (Len(Order) + 1)
                  /\ f.posted => f.at <= Len(Order)
                  /\ IsFiniteSet(f.queue) /\ Cardinality(f.queue) \in 1 .. Limit
                  /\ \A q \in f.queue : q.to \in Ends(h) /\ (q.to \in Long(h) => q.wide)
                  /\ \A p, q \in f.queue : p.to = q.to => p = q )

\* A destination has nothing but sessions of the history.
Sent(m, h) == \A d \in Dests, t \in Times : m[d][t] > 0 => t \in Ends(h)

Clocks ==
    /\ now \in Times
    /\ saved \in [Leaders -> Stamp]
    /\ notice = None \/ notice \in Movements
    /\ notice = None \/ flush = None

Surroundings ==
    /\ remote \in [Dests -> [Times -> Nat]]
    /\ setting \in [Dests -> BOOLEAN] /\ plan \in Plans /\ active \in BOOLEAN /\ book \in BOOLEAN
    /\ spent \in [Kinds -> Nat]

Shapes ==
    /\ Clocks
    /\ Kept(now, history, open, rows)
    /\ DeliveryOK(flush, history)
    /\ Sent(remote, history)
    /\ Surroundings

\* The shapes hold what the types and the first property say.
LEMMA ShapesTyped == Shapes => TypeOK /\ SessionsDisjoint
<1> SUFFICES ASSUME Shapes PROVE TypeOK /\ SessionsDisjoint
  OBVIOUS
<1>1. now \in Times /\ Times = 0 .. Horizon /\ Horizon \in Nat
  BY Bounds DEF Shapes, Clocks, Times
<1>2. HistoryOK(now, history) /\ OpenOK(now, history, open) /\ RowsOK(history, rows)
  BY DEF Shapes, Kept
<1>3. \A s \in history : s.to \in Times /\ s.from < s.to /\ s.to - s.from <= MaxSession
  BY <1>1, <1>2 DEF HistoryOK
<1>4. Ends(history) \subseteq Times
  BY <1>3 DEF Ends
<1>5. DOMAIN rows \subseteq Times /\ \A t \in DOMAIN rows : rows[t] \in Outbox /\ rows[t].to = t
  BY <1>2, <1>4 DEF RowsOK
<1>6. open = None \/ (open \in Sittings /\ open.acc \in 1 .. (open.last - open.from))
  BY <1>2 DEF OpenOK
<1>7. flush = None \/ (flush \in Deliveries /\ Cardinality(flush.queue) \in 1 .. Limit)
  BY DEF Shapes, DeliveryOK
<1>8. SessionsDisjoint
  BY <1>2 DEF HistoryOK, OpenOK, SessionsDisjoint
<1> QED
  BY <1>3, <1>5, <1>6, <1>7, <1>8 DEF TypeOK, Shapes, Clocks, Surroundings

-----------------------------------------------------------------------------
(* Closing a session. *)

\* What a session is credited with.
LEMMA Credited ==
    ASSUME NEW o \in Sittings, o.acc \in 1 .. (o.last - o.from)
    PROVE  /\ Duration(o) \in Int /\ Duration(o) >= 1
           /\ Duration(o) <= MaxSession /\ Duration(o) <= o.last - o.from
<1>1. /\ o.acc \in Int /\ o.acc >= 1 /\ o.last \in Int /\ o.from \in Int
      /\ o.last - o.from \in Int /\ o.last - o.from >= 1
  BY Bounds DEF Sittings, Times
<1>2. MaxSession \in Int /\ MaxSession >= 1
  BY Bounds
<1> DEFINE x == o.last - o.from
<1> HIDE DEF x
<1>3. x \in Int /\ x >= 1
  BY <1>1 DEF x
<1>4. PICK a \in Int : a = o.acc
  BY <1>1
<1>5. /\ Min({a, x, MaxSession}) \in {a, x, MaxSession}
      /\ Min({a, x, MaxSession}) <= x /\ Min({a, x, MaxSession}) <= MaxSession
  BY ONLY <1>2, <1>3, <1>4, Min3Is
<1>6. Duration(o) = Min({a, x, MaxSession})
  BY <1>4 DEF Duration, x
<1>7. Min({a, x, MaxSession}) >= 1 /\ Min({a, x, MaxSession}) \in Int
  BY <1>1, <1>2, <1>3, <1>4, <1>5
<1> QED
  BY <1>5, <1>6, <1>7 DEF x

\* The row of a closed session.
LEMMA RowOf ==
    ASSUME NEW o \in Sittings, now \in Times
    PROVE  /\ Outgoing(o) \in Outbox /\ Outgoing(o).to = o.last /\ Outgoing(o).wide = o.wide
           /\ \A d \in Dests : Outgoing(o).status[d] \in {"pending", "disabled"}
<1>1. o.last \in Times /\ o.ids \in DestIds /\ o.wide \in BOOLEAN
  BY DEF Sittings
<1>2. [d \in Dests |-> IF o.ids[d] # None THEN "pending" ELSE "disabled"] \in [Dests -> Statuses]
  BY DEF Statuses
<1> QED
  BY <1>1, <1>2 DEF Outgoing, Outbox

\* Closing credits what lay open, and nothing that is in the history.
LEMMA Closing ==
    ASSUME now \in Times, NEW n \in Times, NEW h, NEW r, NEW o \in Sittings, Kept(n, h, o, r),
           o # None
    PROVE  /\ Kept(n, h \cup {Entry(o)}, None, WithRow(r, o))
           /\ Ends(h \cup {Entry(o)}) = Ends(h) \cup {o.last}
           /\ o.last \notin Ends(h)
           /\ Long(h \cup {Entry(o)}) \subseteq Long(h) \cup {o.last}
<1>1. /\ o.last \in Int /\ o.from \in Int /\ o.last \in 0 .. n /\ o.last \in Times
      /\ o.acc \in 1 .. (o.last - o.from)
      /\ \A s \in h : s.to <= o.from
  BY Bounds DEF Kept, OpenOK, Sittings, Times
<1>2. PICK c \in Int : c = Duration(o) /\ c >= 1 /\ c <= MaxSession /\ c <= o.last - o.from
  BY <1>1, Credited
<1>3. PICK e : e = Entry(o)
  OBVIOUS
<1>4. /\ e.from = o.last - c /\ e.to = o.last /\ e.from \in Int /\ e.from < e.to
      /\ e.to - e.from <= MaxSession /\ o.from <= e.from /\ o.from < o.last /\ e.wide = o.wide
  BY <1>1, <1>2, <1>3, Bounds DEF Entry
<1>5. Ends(h \cup {e}) = Ends(h) \cup {o.last}
  BY <1>4 DEF Ends
<1>6. \A s \in h : s.to \in Int /\ s.to <= e.from /\ s.to < o.last
  BY <1>1, <1>4 DEF Kept, HistoryOK
<1>7. o.last \notin Ends(h)
  BY <1>1, <1>6 DEF Ends
<1>8. HistoryOK(n, h \cup {e})
  <2>1. \A s \in h \cup {e} : /\ s.from \in Int /\ s.to \in 0 .. n
                              /\ s.from < s.to /\ s.to - s.from <= MaxSession
    BY <1>1, <1>4 DEF Kept, HistoryOK
  <2>2. \A s, t \in h \cup {e} : s = t \/ s.to <= t.from \/ t.to <= s.from
    BY <1>6 DEF Kept, HistoryOK
  <2> QED
    BY <2>1, <2>2 DEF HistoryOK
<1>10. /\ Long(h \cup {e}) \subseteq Long(h) \cup {o.last} /\ Long(h) \subseteq Ends(h)
       /\ o.last \in Long(h \cup {e}) => o.wide
  <2>1. \A s \in h \cup {e} : s \in h \/ (s.to = o.last /\ s.wide = o.wide)
    BY <1>4
  <2>2. \A s \in h : s.to # o.last
    BY <1>7 DEF Ends
  <2> QED
    BY <2>1, <2>2 DEF Long, Ends
<1>9. RowsOK(h \cup {e}, WithRow(r, o))
  <2> DEFINE R == WithRow(r, o)
  <2> SUFFICES ASSUME NEW t \in DOMAIN R
               PROVE  /\ t \in Ends(h \cup {e}) /\ R[t] \in Outbox /\ R[t].to = t
                      /\ t \in Long(h \cup {e}) => R[t].wide
    BY DEF RowsOK
  <2>1. CASE t = o.last
    <3>1. R[t] = Outgoing(o)
      BY <2>1 DEF WithRow
    <3> QED
      BY <1>5, <1>10, <2>1, <3>1, RowOf
  <2>2. CASE t # o.last
    <3>1. t \in DOMAIN r /\ R[t] = r[t]
      BY <2>2 DEF WithRow
    <3>2. t \in Ends(h) /\ r[t] \in Outbox /\ r[t].to = t /\ (t \in Long(h) => r[t].wide)
      BY <3>1 DEF Kept, RowsOK
    <3> QED
      BY <1>5, <1>10, <2>2, <3>1, <3>2
  <2> QED
    BY <2>1, <2>2
<1> QED
  BY <1>3, <1>5, <1>7, <1>8, <1>9, <1>10 DEF Kept, OpenOK

-----------------------------------------------------------------------------
(* Opening and extending a session. *)

\* The later of two moments, one of which may be missing.
LEMMA LaterIs ==
    ASSUME NEW t \in Int \cup {None}, NEW u \in Int \cup {None}
    PROVE  /\ Later(t, u) \in Int \cup {None}
           /\ t # None => Later(t, u) \in Int /\ Later(t, u) >= t
           /\ u # None => Later(t, u) \in Int /\ Later(t, u) >= u
<1>1. CASE t = None \/ u = None
  BY <1>1, Missings DEF Later
<1>2. CASE t # None /\ u # None
  <2>1. t \in Int /\ u \in Int
    BY <1>2
  <2>2. Max({t, u}) \in {t, u} /\ Max({t, u}) >= t /\ Max({t, u}) >= u
    BY ONLY <2>1, MaxIs
  <2> QED
    BY <1>2, <2>1, <2>2 DEF Later
<1> QED
  BY <1>1, <1>2

\* A movement lasts no longer than the time since it may have begun.
LEMMA MovementIs ==
    ASSUME NEW n \in Nat, now = n, NEW delta \in Nat, NEW since \in Int \cup {None}
    PROVE  /\ Movement(delta, since) \in Nat
           /\ since # None /\ Movement(delta, since) > 0 => Movement(delta, since) <= n - since
           /\ since # None /\ n >= since => Movement(delta, since) <= n - since
           /\ since # None /\ n <= since => Movement(delta, since) = 0
           /\ Movement(delta, since) <= MaxSession
<1>1. MaxSession \in Int /\ MaxSession >= 0 /\ Gap \in Int /\ Gap >= 0
  BY Bounds
<1>2. CASE since = None
  <2>1. Movement(delta, since) = Min({delta, MaxSession, Gap})
    BY <1>2 DEF Movement
  <2>2. /\ Min({delta, MaxSession, Gap}) \in {delta, MaxSession, Gap}
        /\ Min({delta, MaxSession, Gap}) <= MaxSession
    <3>1. delta \in Int
      OBVIOUS
    <3> QED
      BY ONLY <3>1, <1>1, Min3Is
  <2> QED
    BY <1>1, <1>2, <2>1, <2>2
<1>3. CASE since # None
  <2>1. since \in Int /\ n \in Int /\ delta \in Int
    BY <1>3
  <2>2. PICK x \in Int : x = n - since
    BY <2>1
  <2>3. 0 \in Int
    OBVIOUS
  <2>4. Max({0, x}) \in {0, x} /\ Max({0, x}) >= 0 /\ Max({0, x}) >= x
    BY ONLY <2>2, <2>3, MaxIs
  <2>5. PICK y \in Int : y = Max({0, x})
    BY <2>2, <2>4
  <2>6. Movement(delta, since) = Min({delta, MaxSession, y})
    BY <1>3, <2>2, <2>5 DEF Movement
  <2>7. /\ Min({delta, MaxSession, y}) \in {delta, MaxSession, y}
        /\ Min({delta, MaxSession, y}) <= y /\ Min({delta, MaxSession, y}) <= MaxSession
    BY ONLY <2>1, <2>5, <1>1, Min3Is
  <2> QED
    BY <1>1, <2>1, <2>2, <2>4, <2>5, <2>6, <2>7
<1> QED
  BY <1>2, <1>3

\* The end of the last session of the history.
LEMMA LatestIs ==
    ASSUME NEW n \in Nat, NEW h, HistoryOK(n, h)
    PROVE  /\ LatestEnd(h) \in Int \cup {None}
           /\ \A s \in h : LatestEnd(h) \in Int /\ LatestEnd(h) # None /\ s.to <= LatestEnd(h)
<1>1. CASE h = {}
  BY <1>1 DEF LatestEnd
<1>2. CASE h # {}
  <2>1. PICK S : S = {s.to : s \in h}
    OBVIOUS
  <2>2. S \in SUBSET (0 .. n) /\ S # {} /\ \A s \in h : s.to \in S
    BY <1>2, <2>1 DEF HistoryOK
  <2>3. Max(S) \in S /\ \A y \in S : Max(S) >= y
    BY ONLY <2>2, n \in Nat, Greatest
  <2>4. LatestEnd(h) = Max(S)
    BY <1>2, <2>1 DEF LatestEnd
  <2>5. PICK g \in 0 .. n : g = Max(S) /\ \A y \in S : g >= y
    BY <2>2, <2>3
  <2>6. g \in Int /\ g # None
    BY <2>5, Missings
  <2>7. \A s \in h : s.to <= g
    BY <2>2, <2>5
  <2> QED
    BY <2>4, <2>5, <2>6, <2>7
<1> QED
  BY <1>1, <1>2

\* A new session begins where the history ends, or later.
LEMMA Opening ==
    ASSUME now \in Times, NEW h, HistoryOK(now, h), NEW m \in Movements
    PROVE  /\ OpenOK(now, h, Opened(m, h))
           /\ Movement(m.delta, Baseline(m, h)) \in Nat
           /\ Movement(m.delta, Baseline(m, h)) <= MaxSession
           /\ Opened(m, h) = None => Movement(m.delta, Baseline(m, h)) = 0
           /\ Opened(m, h) # None => Opened(m, h).acc = Movement(m.delta, Baseline(m, h))
<1>1. PICK n \in Nat : n = now
  BY Bounds DEF Times
<1>2. HistoryOK(n, h)
  BY <1>1
<1>3. PICK l \in Int \cup {None} : l = LatestEnd(h) /\ \A s \in h : l \in Int /\ l # None /\ s.to <= l
  BY ONLY <1>2, LatestIs
<1>4. /\ m.leader \in Leaders /\ m.base \in Stamp /\ m.delta \in Nat /\ m.ids \in DestIds
      /\ m.wide \in BOOLEAN
  BY DEF Movements
<1>5. PICK b \in Int \cup {None} : b = m.base
  <2>1. Stamp \subseteq Int \cup {None}
    BY Bounds DEF Stamp, Times
  <2>2. m.base \in Int \cup {None}
    BY <1>4, <2>1
  <2> QED
    BY <2>2
<1>6. PICK since \in Int \cup {None} : since = Later(b, l)
  BY ONLY LaterIs
<1>7. l # None => since \in Int /\ since # None /\ since >= l
  <2>1. l # None => Later(b, l) \in Int /\ Later(b, l) >= l
    BY ONLY LaterIs
  <2> QED
    BY <1>6, <2>1, Missings
<1>8. PICK delta \in Nat : delta = m.delta
  BY <1>4
<1>9. PICK c \in Nat : /\ c = Movement(delta, since)
                       /\ since # None /\ c > 0 => c <= n - since
                       /\ c <= MaxSession
  BY ONLY <1>1, MovementIs
<1>10. c = Movement(m.delta, Baseline(m, h))
  BY <1>3, <1>5, <1>6, <1>8, <1>9 DEF Baseline
<1>11. CASE c = 0
  <2>1. Opened(m, h) = None
    BY <1>10, <1>11 DEF Opened
  <2> QED
    BY <1>9, <1>10, <1>11, <2>1 DEF OpenOK
<1>12. CASE c # 0
  <2>1. PICK o : o = [leader |-> m.leader, from |-> now - c, last |-> now, acc |-> c, ids |-> m.ids,
                      wide |-> m.wide]
    OBVIOUS
  <2>2. Opened(m, h) = o
    BY <1>10, <1>12, <2>1 DEF Opened
  <2>3. o.last = n /\ o.from = n - c /\ o.from \in Int /\ o.acc = c
    BY <1>1, <2>1
  <2>4. o \in Sittings
    BY <1>1, <1>4, <2>1, <2>3 DEF Sittings
  <2>5. \A s \in h : s.to <= o.from
    BY <1>2, <1>3, <1>7, <1>9, <1>12, <2>3 DEF HistoryOK
  <2>6. o.acc \in 1 .. (o.last - o.from)
    BY <1>12, <2>3
  <2>7. o # None
    BY <2>4, Missings
  <2>8. OpenOK(now, h, o)
    BY <1>1, <2>3, <2>4, <2>5, <2>6 DEF OpenOK
  <2> QED
    BY <1>9, <1>10, <2>2, <2>3, <2>7, <2>8
<1> QED
  BY <1>11, <1>12

\* An extended session still begins where it began.
LEMMA Extending ==
    ASSUME now \in Times, NEW h, OpenOK(now, h, open), open # None, NEW m \in Movements
    PROVE  /\ OpenOK(now, h, Extended(m)) /\ Extended(m) \in Sittings
           /\ Extended(m).last = now /\ Extended(m).from = open.from
           /\ Extended(m).acc = open.acc + Movement(m.delta, Later(m.base, open.last))
<1>1. PICK n \in Nat : n = now
  BY Bounds DEF Times
<1>2. /\ open \in Sittings /\ open.last <= n /\ open.acc \in 1 .. (open.last - open.from)
      /\ \A s \in h : s.to <= open.from
  BY <1>1 DEF OpenOK
<1>3. open.last \in Int /\ open.from \in Int /\ open.acc \in Int /\ open.leader \in Leaders
      /\ open.ids \in DestIds
  BY <1>2, Bounds DEF Sittings, Times
<1>4. m.base \in Stamp /\ m.delta \in Nat /\ m.ids \in DestIds /\ m.wide \in BOOLEAN
  BY DEF Movements
<1>5. PICK b \in Int \cup {None} : b = m.base
  <2>1. Stamp \subseteq Int \cup {None}
    BY Bounds DEF Stamp, Times
  <2>2. m.base \in Int \cup {None}
    BY <1>4, <2>1
  <2> QED
    BY <2>2
<1>6. PICK u \in Int \cup {None} : u = open.last /\ u \in Int /\ u # None
  BY <1>3, Missings
<1>7. PICK since \in Int \cup {None} : since = Later(b, u) /\ since \in Int /\ since >= u
  BY ONLY <1>6, LaterIs
<1>8. PICK delta \in Nat : delta = m.delta
  BY <1>4
<1>9. PICK c \in Nat : /\ c = Movement(delta, since)
                       /\ since # None /\ c > 0 => c <= n - since
  BY ONLY <1>1, MovementIs
<1>10. c <= n - u
  BY <1>2, <1>6, <1>7, <1>9, Missings
<1>11. PICK ids \in DestIds : ids = [d \in Dests |-> IF open.ids[d] = None THEN m.ids[d] ELSE open.ids[d]]
  BY <1>3, <1>4 DEF DestIds
<1>12. PICK o : o = [leader |-> open.leader, from |-> open.from, last |-> n, acc |-> open.acc + c,
                     ids |-> ids, wide |-> m.wide]
  OBVIOUS
<1>13. Extended(m) = o
  <2>1. PICK p1, p2, p3, p4, p5, p6 :
           open = [leader |-> p1, from |-> p2, last |-> p3, acc |-> p4, ids |-> p5, wide |-> p6]
    BY <1>2 DEF Sittings
  <2>2. Movement(m.delta, Later(m.base, open.last)) = c
    BY <1>5, <1>6, <1>7, <1>8, <1>9
  <2>3. PICK x : x = [leader |-> p1, from |-> p2, last |-> p3, acc |-> p4, ids |-> p5, wide |-> p6]
    OBVIOUS
  <2>4. /\ x.leader = p1 /\ x.from = p2 /\ x.last = p3 /\ x.acc = p4 /\ x.ids = p5 /\ x = open
        /\ DOMAIN x = {"leader", "from", "last", "acc", "ids", "wide"}
    BY <2>1, <2>3
  <2>7. PICK w : w = m.wide
    OBVIOUS
  <2>5. Extended(m) = [x EXCEPT !.acc = p4 + c, !.last = n, !.wide = w, !.ids = ids]
    BY <1>1, <1>11, <2>2, <2>4, <2>7 DEF Extended
  <2>6. [x EXCEPT !.acc = p4 + c, !.last = n, !.wide = w, !.ids = ids]
           = [leader |-> p1, from |-> p2, last |-> n, acc |-> p4 + c, ids |-> ids, wide |-> w]
    <3>1. PICK y : y = [x EXCEPT !.acc = p4 + c]
      OBVIOUS
    <3>2. PICK z : z = [y EXCEPT !.last = n]
      OBVIOUS
    <3>3. y = [leader |-> p1, from |-> p2, last |-> p3, acc |-> p4 + c, ids |-> p5, wide |-> p6]
      BY ONLY <2>3, <3>1
    <3>4. z = [leader |-> p1, from |-> p2, last |-> n, acc |-> p4 + c, ids |-> p5, wide |-> p6]
      BY ONLY <3>2, <3>3
    <3>6. PICK v : v = [z EXCEPT !.wide = w]
      OBVIOUS
    <3>7. v = [leader |-> p1, from |-> p2, last |-> n, acc |-> p4 + c, ids |-> p5, wide |-> w]
      BY ONLY <3>4, <3>6
    <3>5. [v EXCEPT !.ids = ids]
            = [leader |-> p1, from |-> p2, last |-> n, acc |-> p4 + c, ids |-> ids, wide |-> w]
      BY ONLY <3>7
    <3> QED
      BY ONLY <3>1, <3>2, <3>5, <3>6
  <2> QED
    BY <1>12, <2>4, <2>5, <2>6, <2>7
<1>14. o \in Sittings
  BY <1>1, <1>2, <1>3, <1>4, <1>12 DEF Sittings
<1>15. o.acc \in 1 .. (o.last - o.from)
  BY <1>2, <1>3, <1>6, <1>10, <1>12
<1>16. o.last = n /\ o.from = open.from /\ o.acc = open.acc + c
  BY <1>12
<1>17. Movement(m.delta, Later(m.base, open.last)) = c
  BY <1>5, <1>6, <1>7, <1>8, <1>9
<1>18. OpenOK(now, h, o)
  BY <1>1, <1>2, <1>14, <1>15, <1>16 DEF OpenOK
<1> QED
  BY <1>1, <1>13, <1>14, <1>16, <1>17, <1>18

-----------------------------------------------------------------------------
(* What a step adds to the store. *)

\* The rows of r2 are those of r, and new ones of moments at which none ended.
New(r, r2, h) ==
    \A t \in DOMAIN r2 :
        \/ t \in DOMAIN r /\ r2[t] = r[t]
        \/ t \notin Ends(h) /\ \A d \in Dests : r2[t].status[d] \in {"pending", "disabled"}

Grows(h, o, r, h2, o2, r2) ==
    /\ Kept(now, h2, o2, r2) /\ New(r, r2, h)
    /\ Ends(h) \subseteq Ends(h2) /\ Long(h2) \cap Ends(h) \subseteq Long(h)

\* Closing a session adds to the store.
LEMMA ClosingGrows ==
    ASSUME now \in Times, NEW h, NEW r, NEW o \in Sittings, Kept(now, h, o, r), o # None
    PROVE  /\ Grows(h, o, r, h \cup {Entry(o)}, None, WithRow(r, o))
           /\ o.last \notin Ends(h)
<1>1. PICK n \in Times : n = now
  OBVIOUS
<1>2. Kept(n, h, o, r)
  BY <1>1
<1>3. /\ Kept(n, h \cup {Entry(o)}, None, WithRow(r, o))
      /\ Ends(h \cup {Entry(o)}) = Ends(h) \cup {o.last}
      /\ o.last \notin Ends(h)
      /\ Long(h \cup {Entry(o)}) \subseteq Long(h) \cup {o.last}
  BY ONLY <1>2, now \in Times, o # None, Closing
<1>4. New(r, WithRow(r, o), h)
  BY <1>1, <1>3, RowOf DEF New, WithRow
<1> QED
  BY <1>1, <1>3, <1>4 DEF Grows

\* So does what becomes of a session that is extended or opened.
LEMMA Settling ==
    ASSUME now \in Times, NEW o, Kept(now, history, o, rows), NEW c, Settle(o, c)
    PROVE  Grows(history, o, rows, history', open', rows')
<1>1. CASE o # None /\ c
  <2>1. o \in Sittings
    BY <1>1 DEF Kept, OpenOK
  <2>2. Grows(history, o, rows, history \cup {Entry(o)}, None, WithRow(rows, o))
    BY <1>1, <2>1, ClosingGrows
  <2>3. open' = None /\ history' = history \cup {Entry(o)} /\ rows' = WithRow(rows, o)
    BY <1>1 DEF Settle
  <2> QED
    BY <2>2, <2>3
<1>2. CASE ~(o # None /\ c)
  <2>1. open' = o /\ history' = history /\ rows' = rows
    BY <1>2 DEF Settle
  <2>2. New(rows, rows, history)
    BY DEF New
  <2> QED
    BY <2>1, <2>2 DEF Grows
<1> QED
  BY <1>1, <1>2

\* So does a session that follows the one it closes.
LEMMA Succeeding ==
    ASSUME now \in Times, Kept(now, history, open, rows), open # None, NEW m \in Movements,
           Succeed(m)
    PROVE  Grows(history, open, rows, history', open', rows')
<1>1. open \in Sittings
  BY DEF Kept, OpenOK
<1>2. /\ Grows(history, open, rows, history \cup {Entry(open)}, None, WithRow(rows, open))
  BY <1>1, ClosingGrows
<1>3. PICK h : h = history \cup {Entry(open)}
  OBVIOUS
<1>4. PICK r : r = WithRow(rows, open)
  OBVIOUS
<1>5. PICK o : o = Opened(m, h)
  OBVIOUS
<1>6. /\ Kept(now, h, None, r) /\ New(rows, r, history)
      /\ Ends(history) \subseteq Ends(h) /\ Long(h) \cap Ends(history) \subseteq Long(history)
  BY <1>2, <1>3, <1>4 DEF Grows
<1>7. OpenOK(now, h, o)
  BY <1>5, <1>6, Opening DEF Kept
<1>8. Kept(now, h, o, r)
  BY <1>6, <1>7 DEF Kept
<1>9. CASE o # None /\ m.complete
  <2>1. o \in Sittings
    BY <1>7, <1>9 DEF OpenOK
  <2>2. Grows(h, o, r, h \cup {Entry(o)}, None, WithRow(r, o)) /\ o.last \notin Ends(h)
    BY <1>8, <1>9, <2>1, ClosingGrows
  <2>3. open' = None /\ history' = h \cup {Entry(o)} /\ rows' = WithRow(r, o)
    BY <1>3, <1>4, <1>5, <1>9 DEF Succeed
  <2>4. New(rows, WithRow(r, o), history)
    BY <1>6, <2>2 DEF Grows, New
  <2> QED
    BY <1>6, <2>2, <2>3, <2>4 DEF Grows
<1>10. CASE ~(o # None /\ m.complete)
  <2>1. open' = o /\ history' = h /\ rows' = r
    BY <1>3, <1>4, <1>5, <1>10 DEF Succeed, Close
  <2> QED
    BY <1>6, <1>8, <2>1 DEF Grows
<1> QED
  BY <1>9, <1>10

\* An observation adds to the store, whatever becomes of its session.
LEMMA ExtendGrows ==
    ASSUME Shapes, Extend
    PROVE  Grows(history, open, rows, history', open', rows')
<1>1. /\ now \in Times /\ Kept(now, history, open, rows) /\ notice # None /\ notice \in Movements
  BY DEF Shapes, Clocks, Extend
<1>2. PICK m \in Movements : m = notice
  BY <1>1
<1>3. CASE open = None
  <2>1. PICK o : o = Opened(m, history)
    OBVIOUS
  <2>2. OpenOK(now, history, o)
    BY <1>1, <2>1, Opening DEF Kept
  <2>3. Kept(now, history, o, rows) /\ Settle(o, m.complete)
    BY <1>1, <1>2, <1>3, <2>1, <2>2 DEF Kept, Extend
  <2>4. Grows(history, o, rows, history', open', rows')
    BY <1>1, <2>3, Settling
  <2> QED
    BY <2>4 DEF Grows
<1>4. CASE open # None /\ now <= open.last
  <2>1. history' = history /\ open' = open /\ rows' = rows
    BY <1>4 DEF Extend, store
  <2> QED
    BY <1>1, <2>1 DEF Grows, New
<1>5. CASE open # None /\ ~(now <= open.last) /\ Splits(m)
  <2>1. Succeed(m)
    BY <1>2, <1>5 DEF Extend
  <2> QED
    BY <1>1, <1>5, <2>1, Succeeding
<1>6. CASE open # None /\ ~(now <= open.last) /\ ~Splits(m)
  <2>1. PICK o : o = Extended(m)
    OBVIOUS
  <2>2. OpenOK(now, history, o)
    BY <1>1, <1>6, <2>1, Extending DEF Kept
  <2>3. Kept(now, history, o, rows) /\ Settle(o, m.complete)
    BY <1>1, <1>2, <1>6, <2>1, <2>2 DEF Kept, Extend
  <2>4. Grows(history, o, rows, history', open', rows')
    BY <1>1, <2>3, Settling
  <2> QED
    BY <2>4 DEF Grows
<1> QED
  BY <1>3, <1>4, <1>5, <1>6

\* What closes an overdue session adds to the store.
LEMMA OverdueGrows ==
    ASSUME Shapes, Overdue, Close(open), open' = None
    PROVE  Grows(history, open, rows, history', open', rows') /\ rows' = WithRow(rows, open)
<1>1. now \in Times /\ Kept(now, history, open, rows) /\ open # None
  BY DEF Shapes, Clocks, Overdue
<1>2. open \in Sittings
  BY <1>1 DEF Kept, OpenOK
<1>3. Grows(history, open, rows, history \cup {Entry(open)}, None, WithRow(rows, open))
  BY <1>1, <1>2, ClosingGrows
<1> QED
  BY <1>3 DEF Close

\* So does the maintenance, which may also drop rows.
LEMMA MaintainGrows ==
    ASSUME Shapes, Maintain
    PROVE  Grows(history, open, rows, history', open', rows')
<1>1. CASE Overdue
  BY <1>1, OverdueGrows DEF Maintain
<1>2. CASE ~Overdue
  <2>1. /\ rows' = [t \in DOMAIN rows \ Expired |-> rows[t]] /\ history' = history /\ open' = open
    BY <1>2 DEF Maintain, Stored
  <2>2. Kept(now, history, open, rows)
    BY DEF Shapes
  <2> QED
    BY <2>1, <2>2 DEF Grows, Kept, RowsOK, New
<1> QED
  BY <1>1, <1>2

-----------------------------------------------------------------------------
(* What a delivery takes. *)

\* Of any moments, no more than Limit are among the oldest.
LEMMA OldestAreFew ==
    ASSUME NEW W \in SUBSET Times
    PROVE  IsFiniteSet(Oldest(W)) /\ Cardinality(Oldest(W)) <= Limit /\ Oldest(W) \subseteq W
<1>1. IsFiniteSet(Times) /\ Times \subseteq Nat /\ Limit \in Nat
  BY Bounds, FS_Interval DEF Times
<1>2. PICK O \in SUBSET W : O = Oldest(W)
  BY DEF Oldest
<1>3. IsFiniteSet(W) /\ IsFiniteSet(O)
  BY <1>1, FS_Subset
<1>4. CASE O = {}
  BY <1>1, <1>2, <1>3, <1>4, FS_EmptySet
<1>5. CASE O # {}
  <2>1. PICK n \in Nat : n = Horizon
    BY Bounds
  <2>2. O \in SUBSET (0 .. n) /\ O # {}
    BY <1>2, <1>5, <2>1 DEF Times
  <2>3. PICK m \in O : \A y \in O : m >= y
    <3>1. Max(O) \in O /\ \A y \in O : Max(O) >= y
      BY ONLY <2>2, n \in Nat, Greatest
    <3> QED
      BY <3>1
  <2>4. PICK B : B = {u \in W : u < m}
    OBVIOUS
  <2>5. Cardinality(B) < Limit
    BY <1>2, <2>3, <2>4 DEF Oldest
  <2>6. O \ {m} \subseteq B
    <3> SUFFICES ASSUME NEW y \in O \ {m} PROVE y \in B
      OBVIOUS
    <3>1. y \in Nat /\ m \in Nat /\ y \in W /\ m >= y /\ y # m
      BY <1>1, <1>2, <2>3
    <3>2. y < m
      BY ONLY <3>1
    <3> QED
      BY <2>4, <3>1, <3>2
  <2>7. IsFiniteSet(B) /\ Cardinality(B) \in Nat
    BY <1>3, <2>4, FS_Subset, FS_CardinalityType
  <2>8. Cardinality(O \ {m}) <= Cardinality(B)
    BY <2>6, <2>7, FS_Subset
  <2>9. Cardinality(O \ {m}) = Cardinality(O) - 1
    BY <1>3, <2>3, FS_RemoveElement
  <2>10. Cardinality(O) \in Nat
    BY <1>3, FS_CardinalityType
  <2> QED
    BY <1>1, <1>2, <1>3, <2>5, <2>7, <2>8, <2>9, <2>10
<1> QED
  BY <1>4, <1>5

\* What is fetched are rows, each once, and Limit of them at most.
LEMMA FetchedAre ==
    ASSUME NEW h, Ends(h) \subseteq Times, NEW r, RowsOK(h, r)
    PROVE  /\ Fetched(r) \subseteq Outbox /\ IsFiniteSet(Fetched(r)) /\ Cardinality(Fetched(r)) <= Limit
           /\ \A q \in Fetched(r) : q.to \in DOMAIN r /\ q.to \in Ends(h) /\ q = r[q.to]
<1>1. PICK W \in SUBSET Times : W = Waiting(r) /\ W \subseteq DOMAIN r
  <2>1. Waiting(r) \subseteq DOMAIN r /\ DOMAIN r \subseteq Times
    BY DEF Waiting, RowsOK
  <2> QED
    BY <2>1
<1>2. PICK O : O = Oldest(W)
  OBVIOUS
<1>3. IsFiniteSet(O) /\ Cardinality(O) <= Limit /\ O \subseteq W
  BY <1>2, OldestAreFew
<1>4. PICK Q : Q = Fetched(r)
  OBVIOUS
<1>5. Q = {r[t] : t \in O}
  BY <1>1, <1>2, <1>4 DEF Fetched
<1>6. \A q \in Q : q.to \in DOMAIN r /\ q.to \in Ends(h) /\ q = r[q.to] /\ q \in Outbox
  BY <1>1, <1>3, <1>5 DEF RowsOK
<1>7. IsFiniteSet(Q) /\ Cardinality(Q) <= Cardinality(O)
  <2>1. PICK f : f = [t \in O |-> r[t]]
    OBVIOUS
  <2>2. f \in [O -> Q] /\ \A q \in Q : \E t \in O : f[t] = q
    BY <1>5, <2>1
  <2>3. f \in Surjection(O, Q)
    BY <2>2 DEF Surjection
  <2> QED
    BY <1>3, <2>3, FS_Surjection
<1>8. Cardinality(Q) \in Nat /\ Cardinality(O) \in Nat /\ Limit \in Nat
  BY <1>3, <1>7, FS_CardinalityType, Bounds
<1> QED
  BY <1>3, <1>4, <1>6, <1>7, <1>8

\* The part of a delivery that is new in it.
Fresh(f, r) ==
    f = None \/ (f.at = 1 /\ ~f.posted /\ \A q \in f.queue : q.to \in DOMAIN r /\ q = r[q.to])

\* A delivery that starts takes the rows as they are.
LEMMA DeliveryIs ==
    ASSUME book \in BOOLEAN, NEW h, Ends(h) \subseteq Times, NEW r, RowsOK(h, r)
    PROVE  DeliveryOK(Delivery(Fetched(r)), h) /\ Fresh(Delivery(Fetched(r)), r)
<1>1. PICK Q : Q = Fetched(r)
  OBVIOUS
<1>2. /\ Q \subseteq Outbox /\ IsFiniteSet(Q) /\ Cardinality(Q) <= Limit
      /\ \A q \in Q : q.to \in DOMAIN r /\ q.to \in Ends(h) /\ q = r[q.to]
  BY <1>1, FetchedAre
<1>5. \A q \in Q : q.to \in Long(h) => q.wide
  BY <1>2 DEF RowsOK
<1>3. CASE Q = {}
  BY <1>1, <1>3 DEF Delivery, DeliveryOK, Fresh
<1>4. CASE Q # {}
  <2>1. PICK f : f = [queue |-> Q, at |-> 1, present |-> book, retry |-> FALSE, posted |-> FALSE]
    OBVIOUS
  <2>2. Delivery(Fetched(r)) = f
    BY <1>1, <1>4, <2>1 DEF Delivery
  <2>3. f \in Deliveries /\ f.queue = Q /\ f.at = 1 /\ ~f.posted
    BY <1>2, <2>1 DEF Deliveries
  <2>4. Len(Order) \in Nat
    BY SessionAssumption
  <2>5. Cardinality(Q) \in 1 .. Limit
    BY <1>2, <1>4, FS_EmptySet, FS_CardinalityType, Bounds
  <2>6. \A p, q \in Q : p.to = q.to => p = q
    BY <1>2
  <2> QED
    BY <1>2, <1>5, <2>2, <2>3, <2>4, <2>5, <2>6 DEF DeliveryOK, Fresh
<1> QED
  BY <1>3, <1>4

\* The end of every session of the history is a moment of the run.
LEMMA EndsAreTimes ==
    ASSUME NEW n \in Times, NEW h, HistoryOK(n, h)
    PROVE  Ends(h) \subseteq Times
BY Bounds DEF Ends, HistoryOK, Times

\* The start of a delivery adds to the store what it closes.
LEMMA StartGrows ==
    ASSUME Shapes, FlushStart
    PROVE  /\ Grows(history, open, rows, history', open', rows')
           /\ DeliveryOK(flush', history') /\ Fresh(flush', rows')
<1>1. Grows(history, open, rows, history', open', rows') /\ rows' = RowsNow
  <2>1. CASE Overdue
    BY <2>1, OverdueGrows DEF FlushStart, CloseOverdue, RowsNow
  <2>2. CASE ~Overdue
    <3>1. open' = open /\ history' = history /\ rows' = rows /\ RowsNow = rows
      BY <2>2 DEF FlushStart, CloseOverdue, store, RowsNow
    <3> QED
      BY <3>1 DEF Grows, New, Shapes
  <2> QED
    BY <2>1, <2>2
<1>2. PICK n \in Times : n = now
  BY DEF Shapes, Clocks
<1>3. HistoryOK(n, history') /\ RowsOK(history', rows')
  BY <1>1, <1>2 DEF Grows, Kept
<1>4. Ends(history') \subseteq Times
  BY <1>3, EndsAreTimes
<1>5. flush' = Delivery(Fetched(rows')) /\ book \in BOOLEAN
  BY <1>1 DEF FlushStart, Shapes, Surroundings
<1> QED
  BY <1>1, <1>3, <1>4, <1>5, DeliveryIs

-----------------------------------------------------------------------------
(* The row and the destination in hand. *)

\* The row in hand is one of the delivery's, and there is one until it is over.
LEMMA InHand ==
    ASSUME Shapes, flush # None
    PROVE  /\ Row \in flush.queue /\ Row \in Outbox /\ Row.to \in Ends(history) /\ Row.to \in Times
           /\ Row.to \in Long(history) => Row.wide
           /\ flush \in Deliveries /\ flush.at \in Nat \ {0}
           /\ ~AllTried => Dest \in Dests /\ flush.at \in 1 .. Len(Order)
<1>1. /\ flush \in Deliveries /\ flush.at \in 1 .. (Len(Order) + 1)
      /\ Cardinality(flush.queue) \in 1 .. Limit
      /\ \A q \in flush.queue : q.to \in Ends(history) /\ (q.to \in Long(history) => q.wide)
  BY DEF Shapes, DeliveryOK
<1>2. PICK n \in Times : n = now
  BY DEF Shapes, Clocks
<1>3. HistoryOK(n, history)
  BY <1>2 DEF Shapes, Kept
<1>4. Ends(history) \subseteq Times
  BY <1>3, EndsAreTimes
<1>5. PICK Q : Q = flush.queue
  OBVIOUS
<1>6. Q \subseteq Outbox /\ Q # {}
  <2>1. Q # {}
    <3>1. Cardinality(Q) # 0
      BY <1>1, <1>5, Bounds
    <3>2. Cardinality({}) = 0
      BY FS_EmptySet
    <3> QED
      BY <3>1, <3>2
  <2> QED
    BY <1>1, <1>5, <2>1 DEF Deliveries
<1>7. \E r \in Q : \A q \in Q : r.to <= q.to
  <2>1. PICK T : T = {q.to : q \in Q}
    OBVIOUS
  <2>2. T \in SUBSET Nat /\ T # {}
    BY <1>1, <1>4, <1>5, <1>6, <2>1, Bounds DEF Times
  <2>3. PICK x \in T : \A y \in T : x <= y
    BY ONLY <2>2, Least
  <2> QED
    BY <2>1, <2>3
<1>8. Row \in flush.queue
  BY <1>5, <1>7 DEF Row
<1>9. Len(Order) \in Nat /\ \A i \in 1 .. Len(Order) : Order[i] \in Dests
  BY SessionAssumption
<1>10. ~AllTried => flush.at \in 1 .. Len(Order) /\ Dest \in Dests
  BY <1>1, <1>9 DEF AllTried, Dest
<1> QED
  BY <1>1, <1>4, <1>5, <1>6, <1>8, <1>9, <1>10

\* The delivery goes on to the next destination.
LEMMA NextDestIs ==
    ASSUME flush \in Deliveries, NEW retry \in BOOLEAN, NextDest(retry)
    PROVE  /\ flush' \in Deliveries /\ flush' # None
           /\ flush'.queue = flush.queue /\ flush'.at = flush.at + 1 /\ ~flush'.posted
           /\ retry => flush'.retry
           /\ ~retry => flush'.retry = flush.retry
<1>1. PICK p1, p2, p3, p4, p5 :
         flush = [queue |-> p1, at |-> p2, present |-> p3, retry |-> p4, posted |-> p5]
  BY DEF Deliveries
<1>2. PICK x : x = [queue |-> p1, at |-> p2, present |-> p3, retry |-> p4, posted |-> p5]
  OBVIOUS
<1>3. x = flush /\ x.queue = p1 /\ x.at = p2 /\ x.present = p3 /\ x.retry = p4 /\ x.posted = p5
  BY <1>1, <1>2
<1>4. PICK c : c = (x.retry \/ retry)
  OBVIOUS
<1>5. c \in BOOLEAN
  BY <1>4
<1>6. PICK y : y = [x EXCEPT !.at = p2 + 1]
  OBVIOUS
<1>7. PICK z : z = [y EXCEPT !.retry = c]
  OBVIOUS
<1>8. y = [queue |-> p1, at |-> p2 + 1, present |-> p3, retry |-> p4, posted |-> p5]
  BY ONLY <1>2, <1>6
<1>9. z = [queue |-> p1, at |-> p2 + 1, present |-> p3, retry |-> c, posted |-> p5]
  BY ONLY <1>7, <1>8
<1> DEFINE no == FALSE
<1> HIDE DEF no
<1>10. [z EXCEPT !.posted = no]
         = [queue |-> p1, at |-> p2 + 1, present |-> p3, retry |-> c, posted |-> no]
  BY ONLY <1>9
<1>11. flush' = [x EXCEPT !.at = x.at + 1, !.retry = (x.retry \/ retry), !.posted = no]
  BY <1>3 DEF NextDest, no
<1>12. flush' = [queue |-> p1, at |-> p2 + 1, present |-> p3, retry |-> c, posted |-> no]
  BY <1>3, <1>4, <1>6, <1>7, <1>10, <1>11
<1>13. p1 \in SUBSET Outbox /\ p2 \in Nat /\ p3 \in BOOLEAN
  BY <1>1 DEF Deliveries
<1>14. flush' \in Deliveries
  BY <1>5, <1>12, <1>13 DEF Deliveries, no
<1>15. /\ flush'.queue = p1 /\ flush'.at = p2 + 1 /\ flush'.retry = c /\ ~flush'.posted
  BY <1>12 DEF no
<1>16. (retry => c) /\ (~retry => c = x.retry)
  <2>1. x.retry \in BOOLEAN
    BY <1>1, <1>3 DEF Deliveries
  <2> QED
    BY <1>4, <2>1
<1> QED
  BY <1>3, <1>14, <1>15, <1>16, Missings

\* What marking a destination does to the rows.
LEMMA MarkIs ==
    ASSUME RowsOK(history, rows), NEW d \in Dests, NEW status \in Statuses, MarkAs(d, status)
    PROVE  /\ RowsOK(history, rows') /\ DOMAIN rows' = DOMAIN rows
           /\ \A t \in DOMAIN rows, e \in Dests :
                \/ rows'[t].status[e] = rows[t].status[e]
                \/ t = Row.to /\ e = d /\ rows[t].status[e] = "pending" /\ rows'[t].status[e] = status
           /\ Row.to \in DOMAIN rows /\ status # "pending" => rows'[Row.to].status[d] # "pending"
<1>1. CASE ~(Row.to \in DOMAIN rows /\ rows[Row.to].status[d] = "pending")
  BY <1>1 DEF MarkAs
<1>2. CASE Row.to \in DOMAIN rows /\ rows[Row.to].status[d] = "pending"
  <2>1. PICK u \in DOMAIN rows : u = Row.to
    BY <1>2
  <2>2. PICK x \in Outbox : x = rows[u]
    BY DEF RowsOK
  <2>3. PICK p1, p2, p3, w, f :
           /\ x = [to |-> p1, closed |-> p2, ids |-> p3, wide |-> w, status |-> f]
           /\ p1 \in Times /\ p2 \in Times /\ p3 \in DestIds /\ w \in BOOLEAN
           /\ f \in [Dests -> Statuses]
    BY DEF Outbox
  <2>4. PICK g : g = [f EXCEPT ![d] = status]
    OBVIOUS
  <2>5. g \in [Dests -> Statuses] /\ g[d] = status /\ \A e \in Dests : e # d => g[e] = f[e]
    BY <2>3, <2>4
  <2>6. PICK y : y = [to |-> p1, closed |-> p2, ids |-> p3, wide |-> w, status |-> g]
    OBVIOUS
  <2>7. y = [x EXCEPT !.status = g]
    BY <2>3, <2>6
  <2>8. x.status = f /\ y.status = g /\ y.to = x.to /\ y.wide = x.wide
    BY <2>3, <2>6
  <2>9. rows' = [rows EXCEPT ![u] = y]
    BY <1>2, <2>1, <2>2, <2>4, <2>7, <2>8 DEF MarkAs
  <2>10. y \in Outbox
    BY <2>3, <2>5, <2>6 DEF Outbox
  <2>11. /\ DOMAIN rows' = DOMAIN rows /\ rows'[u] = y
         /\ \A t \in DOMAIN rows : t # u => rows'[t] = rows[t]
    BY <2>9
  <2>12. RowsOK(history, rows')
    BY <2>2, <2>8, <2>10, <2>11 DEF RowsOK
  <2>13. \A t \in DOMAIN rows, e \in Dests :
            \/ rows'[t].status[e] = rows[t].status[e]
            \/ t = u /\ e = d /\ rows[t].status[e] = "pending" /\ rows'[t].status[e] = status
    BY <1>2, <2>1, <2>2, <2>5, <2>8, <2>11
  <2> QED
    BY <2>1, <2>5, <2>8, <2>11, <2>12, <2>13
<1> QED
  BY <1>1, <1>2

\* What giving up does to the rows.
LEMMA GiveUpIs ==
    ASSUME RowsOK(history, rows), GiveUp
    PROVE  /\ RowsOK(history, rows') /\ DOMAIN rows' = DOMAIN rows
           /\ \A t \in DOMAIN rows, e \in Dests :
                \/ rows'[t].status[e] = rows[t].status[e]
                \/ t = Row.to /\ rows[t].status[e] = "pending" /\ rows'[t].status[e] = "failed"
           /\ Row.to \in DOMAIN rows /\ Row.closed <= now - RetryWindow => Terminal(rows'[Row.to])
<1>1. CASE ~(Row.to \in DOMAIN rows /\ Row.closed <= now - RetryWindow)
  BY <1>1 DEF GiveUp
<1>2. CASE Row.to \in DOMAIN rows /\ Row.closed <= now - RetryWindow
  <2>1. PICK u \in DOMAIN rows : u = Row.to
    BY <1>2
  <2>2. PICK x \in Outbox : x = rows[u]
    BY DEF RowsOK
  <2>3. PICK p1, p2, p3, w, f :
           /\ x = [to |-> p1, closed |-> p2, ids |-> p3, wide |-> w, status |-> f]
           /\ p1 \in Times /\ p2 \in Times /\ p3 \in DestIds /\ w \in BOOLEAN
           /\ f \in [Dests -> Statuses]
    BY DEF Outbox
  <2>4. PICK g : g = [e \in Dests |-> IF f[e] = "pending" THEN "failed" ELSE f[e]]
    OBVIOUS
  <2>5. /\ g \in [Dests -> Statuses]
        /\ \A e \in Dests : g[e] = f[e] \/ (f[e] = "pending" /\ g[e] = "failed")
        /\ \A e \in Dests : g[e] # "pending"
    BY <2>3, <2>4 DEF Statuses
  <2>6. PICK y : y = [to |-> p1, closed |-> p2, ids |-> p3, wide |-> w, status |-> g]
    OBVIOUS
  <2>7. y = [x EXCEPT !.status = g]
    BY <2>3, <2>6
  <2>8. x.status = f /\ y.status = g /\ y.to = x.to /\ y.wide = x.wide
    BY <2>3, <2>6
  <2>9. rows' = [rows EXCEPT ![u] = y]
    BY <1>2, <2>1, <2>2, <2>4, <2>7, <2>8 DEF GiveUp
  <2>10. y \in Outbox
    BY <2>3, <2>5, <2>6 DEF Outbox
  <2>11. /\ DOMAIN rows' = DOMAIN rows /\ rows'[u] = y
         /\ \A t \in DOMAIN rows : t # u => rows'[t] = rows[t]
    BY <2>9
  <2>12. RowsOK(history, rows')
    BY <2>2, <2>8, <2>10, <2>11 DEF RowsOK
  <2>13. Terminal(rows'[u])
    BY <2>5, <2>8, <2>11 DEF Terminal
  <2> QED
    BY <2>1, <2>2, <2>5, <2>8, <2>11, <2>12, <2>13
<1> QED
  BY <1>1, <1>2

\* What is left of a delivery when a row is done.
LEMMA RestIs ==
    ASSUME Shapes, flush # None, NEW f, f = Delivery(flush.queue \ {Row})
    PROVE  /\ DeliveryOK(f, history)
           /\ f = None \/ (f.at = 1 /\ ~f.posted /\ f.queue = flush.queue \ {Row})
           /\ f # None => Cardinality(f.queue) = Cardinality(flush.queue) - 1
<1>1. /\ flush \in Deliveries /\ Row \in flush.queue
      /\ IsFiniteSet(flush.queue) /\ Cardinality(flush.queue) \in 1 .. Limit
      /\ \A q \in flush.queue : q.to \in Ends(history) /\ (q.to \in Long(history) => q.wide)
      /\ \A p, q \in flush.queue : p.to = q.to => p = q
  BY InHand DEF Shapes, DeliveryOK
<1>2. PICK Q : Q = flush.queue \ {Row}
  OBVIOUS
<1>3. CASE Q = {}
  BY <1>2, <1>3 DEF Delivery, DeliveryOK
<1>4. CASE Q # {}
  <2>1. PICK x : x = [queue |-> Q, at |-> 1, present |-> book, retry |-> FALSE, posted |-> FALSE]
    OBVIOUS
  <2>9. f = x
    BY <1>2, <1>4, <2>1 DEF Delivery
  <2>2. flush.queue \subseteq Outbox /\ book \in BOOLEAN
    BY <1>1 DEF Deliveries, Shapes, Surroundings
  <2>3. Q \subseteq Outbox
    BY <1>2, <2>2
  <2>4. x \in Deliveries /\ x.queue = Q /\ x.at = 1 /\ ~x.posted
    BY <2>1, <2>2, <2>3 DEF Deliveries
  <2>5. Len(Order) \in Nat
    BY SessionAssumption
  <2>6. IsFiniteSet(Q) /\ Cardinality(Q) = Cardinality(flush.queue) - 1
    BY <1>1, <1>2, FS_RemoveElement
  <2>7. Cardinality(Q) \in Nat /\ Cardinality(Q) # 0
    BY <1>4, <2>6, FS_EmptySet, FS_CardinalityType
  <2>8. Cardinality(Q) \in 1 .. Limit
    BY <1>1, <2>6, <2>7, Bounds
  <2>10. /\ \A q \in Q : q.to \in Ends(history) /\ (q.to \in Long(history) => q.wide)
         /\ \A p, q \in Q : p.to = q.to => p = q
    BY <1>1, <1>2
  <2>11. DeliveryOK(x, history)
    BY <2>4, <2>5, <2>6, <2>8, <2>10 DEF DeliveryOK
  <2> QED
    BY <1>2, <2>4, <2>6, <2>9, <2>11
<1> QED
  BY <1>3, <1>4

\* A counter that rises.
Rises == spent' \in [Kinds -> Nat] /\ \A k \in Kinds : spent'[k] >= spent[k]

\* A change or fault that is counted makes one count rise.
LEMMA SpendIs ==
    ASSUME spent \in [Kinds -> Nat], NEW k \in Kinds, Spend(k)
    PROVE  Rises /\ spent'[k] = spent[k] + 1
BY DEF Spend, Rises

\* Where nothing is counted, the counts stay.
LEMMA SpendNot ==
    ASSUME spent \in [Kinds -> Nat], spent' = spent
    PROVE  Rises
BY DEF Rises

\* What the destination took.
LEMMA TookIs ==
    ASSUME remote \in [Dests -> [Times -> Nat]], NEW d \in Dests, d = Dest,
           NEW t \in Times, t = Row.to, Took
    PROVE  /\ remote' \in [Dests -> [Times -> Nat]]
           /\ remote'[d][t] = remote[d][t] + 1
           /\ \A e \in Dests, u \in Times : e # d \/ u # t => remote'[e][u] = remote[e][u]
<1>1. PICK f \in [Times -> Nat] : f = remote[d]
  OBVIOUS
<1>2. PICK g : g = [f EXCEPT ![t] = f[t] + 1]
  OBVIOUS
<1>3. g \in [Times -> Nat] /\ g[t] = f[t] + 1 /\ \A u \in Times : u # t => g[u] = f[u]
  BY <1>2
<1>4. remote' = [remote EXCEPT ![d] = g]
  BY <1>1, <1>2 DEF Took
<1>5. remote'[d] = g /\ \A e \in Dests : e # d => remote'[e] = remote[e]
  BY <1>4
<1>6. remote' \in [Dests -> [Times -> Nat]]
  BY <1>3, <1>4
<1> QED
  BY <1>1, <1>3, <1>5, <1>6

\* A delivery that goes on to the next destination is still one.
LEMMA GoesOn ==
    ASSUME Shapes, flush # None, ~AllTried, NEW retry \in BOOLEAN, NextDest(retry)
    PROVE  /\ DeliveryOK(flush', history) /\ flush' # None
           /\ flush'.queue = flush.queue /\ flush'.at = flush.at + 1 /\ ~flush'.posted
           /\ retry => flush'.retry
           /\ ~retry => flush'.retry = flush.retry
<1>1. flush \in Deliveries /\ flush # None /\ flush.at \in 1 .. Len(Order) /\ Len(Order) \in Nat
  BY InHand, SessionAssumption DEF Delivering
<1>2. /\ flush' \in Deliveries /\ flush' # None
      /\ flush'.queue = flush.queue /\ flush'.at = flush.at + 1 /\ ~flush'.posted
      /\ retry => flush'.retry
      /\ ~retry => flush'.retry = flush.retry
  BY <1>1, NextDestIs
<1>3. flush'.at \in 1 .. (Len(Order) + 1)
  BY <1>1, <1>2
<1>4. DeliveryOK(flush, history)
  BY DEF Shapes
<1> QED
  BY <1>1, <1>2, <1>3, <1>4 DEF DeliveryOK

\* A delivery that has posted is still where it was.
LEMMA PostedIs ==
    ASSUME Shapes, flush # None, ~AllTried, flush' = [flush EXCEPT !.posted = TRUE]
    PROVE  /\ DeliveryOK(flush', history) /\ flush' # None
           /\ flush'.queue = flush.queue /\ flush'.at = flush.at /\ flush'.posted
           /\ flush'.retry = flush.retry
<1>1. flush \in Deliveries /\ flush.at \in 1 .. Len(Order) /\ Len(Order) \in Nat
  BY InHand, SessionAssumption
<1>2. PICK p1, p2, p3, p4, p5 :
         flush = [queue |-> p1, at |-> p2, present |-> p3, retry |-> p4, posted |-> p5]
  BY <1>1 DEF Deliveries
<1> DEFINE yes == TRUE
<1> HIDE DEF yes
<1>3. flush' = [flush EXCEPT !.posted = yes]
  BY DEF yes
<1>4. flush' = [queue |-> p1, at |-> p2, present |-> p3, retry |-> p4, posted |-> yes]
  BY ONLY <1>2, <1>3
<1>5. flush' \in Deliveries /\ flush'.queue = flush.queue /\ flush'.at = flush.at
  BY <1>1, <1>2, <1>4 DEF Deliveries, yes
<1>6. flush'.posted /\ flush'.retry = flush.retry
  BY <1>2, <1>4 DEF yes
<1>7. DeliveryOK(flush, history)
  BY DEF Shapes
<1>8. flush' # None
  BY <1>5, Missings
<1>9. DeliveryOK(flush', history)
  BY <1>1, <1>5, <1>7, <1>8 DEF DeliveryOK
<1> QED
  BY <1>5, <1>6, <1>8, <1>9

-----------------------------------------------------------------------------
(* The shapes are kept. *)

\* A destination that takes a session takes one of the history.
LEMMA SentKept ==
    ASSUME Shapes, flush # None, ~AllTried, Took
    PROVE  Sent(remote', history) /\ remote' \in [Dests -> [Times -> Nat]]
<1>1. PICK d \in Dests : d = Dest
  BY InHand
<1>2. PICK t \in Times : t = Row.to /\ t \in Ends(history)
  BY InHand
<1>3. /\ remote' \in [Dests -> [Times -> Nat]]
      /\ \A e \in Dests, u \in Times : e # d \/ u # t => remote'[e][u] = remote[e][u]
  BY <1>1, <1>2, TookIs DEF Shapes, Surroundings
<1>4. Sent(remote, history)
  BY DEF Shapes
<1> QED
  BY <1>2, <1>3, <1>4 DEF Sent

\* What the steps of a delivery keep.
Delivers ==
    /\ RowsOK(history, rows') /\ DeliveryOK(flush', history) /\ Sent(remote', history)
    /\ remote' \in [Dests -> [Times -> Nat]] /\ spent' \in [Kinds -> Nat]

\* What is counted.
LEMMA KindsAre ==
    {"lost", "refused", "blind", "restart", "covered", "seen", "elsewhere", "removed", "setting",
     "account"} \subseteq Kinds
BY DEF Kinds, Faults

\* Whatever comes of posting, rows, delivery and destinations keep their shape.
LEMMA PostDelivers ==
    ASSUME Shapes, Post
    PROVE  Delivers
<1>1. /\ flush # None /\ ~AllTried /\ rows' = rows
      /\ RowsOK(history, rows) /\ Sent(remote, history)
      /\ remote \in [Dests -> [Times -> Nat]] /\ spent \in [Kinds -> Nat]
  BY DEF Shapes, Kept, Surroundings, Post, Delivering
<1>2. CASE Unaware /\ Took /\ flush' = [flush EXCEPT !.posted = TRUE]
  <2>1. DeliveryOK(flush', history) /\ Sent(remote', history) /\ remote' \in [Dests -> [Times -> Nat]]
    BY <1>1, <1>2, PostedIs, SentKept
  <2>2. Rises
    <3>1. PICK k \in Kinds : k = "blind"
      BY KindsAre
    <3>2. Spend(k) \/ spent' = spent
      BY <1>2, <3>1 DEF Unaware
    <3> QED
      BY <1>1, <3>2, SpendIs, SpendNot
  <2> QED
    BY <1>1, <2>1, <2>2 DEF Delivers, Rises
<1>3. CASE Spend("lost") /\ Took /\ NextDest(TRUE)
  <2>1. DeliveryOK(flush', history) /\ Sent(remote', history) /\ remote' \in [Dests -> [Times -> Nat]]
    BY <1>1, <1>3, GoesOn, SentKept
  <2>2. Rises
    <3>1. PICK k \in Kinds : k = "lost"
      BY KindsAre
    <3> QED
      BY <1>1, <1>3, <3>1, SpendIs
  <2> QED
    BY <1>1, <2>1, <2>2 DEF Delivers, Rises
<1>4. CASE Spend("refused") /\ UNCHANGED remote /\ NextDest(TRUE)
  <2>1. DeliveryOK(flush', history)
    BY <1>1, <1>4, GoesOn
  <2>2. Rises
    <3>1. PICK k \in Kinds : k = "refused"
      BY KindsAre
    <3> QED
      BY <1>1, <1>4, <3>1, SpendIs
  <2> QED
    BY <1>1, <1>4, <2>1, <2>2 DEF Delivers, Rises
<1>5. CASE UNCHANGED <<remote, spent>> /\ NextDest(TRUE)
  <2>1. DeliveryOK(flush', history)
    BY <1>1, <1>5, GoesOn
  <2> QED
    BY <1>1, <1>5, <2>1 DEF Delivers
<1> QED
  BY <1>2, <1>3, <1>4, <1>5 DEF Post

\* So they do with every other step of a delivery.
LEMMA StepDelivers ==
    ASSUME Shapes, PassOver \/ Disable \/ Covered \/ Post \/ Mark \/ RowDone
    PROVE  Delivers
<1>1. /\ RowsOK(history, rows) /\ Sent(remote, history)
      /\ remote \in [Dests -> [Times -> Nat]] /\ spent \in [Kinds -> Nat]
  BY DEF Shapes, Kept, Surroundings
<1>2. CASE PassOver
  <2>1. DeliveryOK(flush', history)
    BY <1>2, GoesOn DEF PassOver, Delivering
  <2> QED
    BY <1>1, <1>2, <2>1 DEF Delivers, PassOver
<1>3. CASE Disable
  <2>1. DeliveryOK(flush', history)
    BY <1>3, GoesOn DEF Disable, Delivering
  <2>2. PICK d \in Dests : d = Dest
    BY <1>3, InHand DEF Disable, Delivering
  <2>3. PICK s \in Statuses : s = "disabled"
    BY DEF Statuses
  <2>4. RowsOK(history, rows')
    BY <1>1, <1>3, <2>2, <2>3, MarkIs DEF Disable
  <2> QED
    BY <1>1, <1>3, <2>1, <2>4 DEF Delivers, Disable
<1>4. CASE Covered
  <2>1. DeliveryOK(flush', history)
    BY <1>4, GoesOn DEF Covered, Delivering
  <2>2. PICK d \in Dests : d = Dest
    BY <1>4, InHand DEF Covered, Delivering
  <2>3. PICK s \in Statuses : s = "disabled"
    BY DEF Statuses
  <2>4. RowsOK(history, rows')
    BY <1>1, <1>4, <2>2, <2>3, MarkIs DEF Covered
  <2>5. Rises
    <3>1. PICK k \in Kinds : k = "covered"
      BY KindsAre
    <3>2. Spend(k) \/ spent' = spent
      BY <1>4, <3>1 DEF Covered
    <3> QED
      BY <1>1, <3>2, SpendIs, SpendNot
  <2> QED
    BY <1>1, <1>4, <2>1, <2>4, <2>5 DEF Delivers, Covered, Rises
<1>5. CASE Post
  BY <1>5, PostDelivers
<1>6. CASE Mark
  <2>1. flush # None /\ ~AllTried
    BY <1>6, SessionAssumption DEF Mark, Shapes, DeliveryOK, AllTried
  <2>2. DeliveryOK(flush', history)
    BY <1>6, <2>1, GoesOn DEF Mark
  <2>3. PICK d \in Dests : d = Dest
    BY <2>1, InHand
  <2>4. PICK s \in Statuses : s = "delivered"
    BY DEF Statuses
  <2>5. RowsOK(history, rows')
    BY <1>1, <1>6, <2>3, <2>4, MarkIs DEF Mark
  <2> QED
    BY <1>1, <1>6, <2>2, <2>5 DEF Delivers, Mark
<1>7. CASE RowDone
  <2>1. flush # None /\ flush' = Delivery(flush.queue \ {Row})
    BY <1>7 DEF RowDone
  <2>2. DeliveryOK(flush', history)
    BY <2>1, RestIs
  <2>3. RowsOK(history, rows')
    BY <1>1, <1>7, GiveUpIs DEF RowDone
  <2> QED
    BY <1>1, <1>7, <2>2, <2>3 DEF Delivers, RowDone
<1> QED
  BY <1>2, <1>3, <1>4, <1>5, <1>6, <1>7

\* The shapes hold in the beginning.
LEMMA Starting == Init => Shapes
<1> SUFFICES ASSUME Init PROVE Shapes
  OBVIOUS
<1>1. 0 \in Times
  BY Bounds DEF Times
<1>2. Clocks
  BY <1>1 DEF Init, Clocks, Stamp
<1>3. Kept(now, history, open, rows)
  BY DEF Init, Kept, HistoryOK, OpenOK, RowsOK
<1>4. DeliveryOK(flush, history)
  BY DEF Init, DeliveryOK
<1>5. Sent(remote, history)
  BY DEF Init, Sent
<1>6. Surroundings
  BY DEF Init, Surroundings
<1> QED
  BY <1>2, <1>3, <1>4, <1>5, <1>6 DEF Shapes

\* A later moment changes nothing about what was kept.
LEMMA KeptLater ==
    ASSUME NEW n \in Nat, NEW m \in Nat, n <= m, Kept(n, history, open, rows)
    PROVE  Kept(m, history, open, rows)
<1>1. HistoryOK(m, history)
  BY DEF Kept, HistoryOK
<1>2. OpenOK(m, history, open)
  <2>1. CASE open = None
    BY <2>1 DEF OpenOK
  <2>2. CASE open # None
    <3>1. open \in Sittings /\ open.last <= n /\ open.last \in Int
      BY <2>2, Bounds DEF Kept, OpenOK, Sittings, Times
    <3>2. open.last <= m
      BY <3>1
    <3> QED
      BY <2>2, <3>2 DEF Kept, OpenOK
  <2> QED
    BY <2>1, <2>2
<1> QED
  BY <1>1, <1>2 DEF Kept

\* What has grown keeps the shapes.
LEMMA GrowthKeepsShapes ==
    ASSUME Shapes, Grows(history, open, rows, history', open', rows'), now' = now,
           DeliveryOK(flush', history'), Clocks', Surroundings', remote' = remote
    PROVE  Shapes'
<1>1. Kept(now', history', open', rows') /\ Ends(history) \subseteq Ends(history')
  BY DEF Grows
<1>2. Sent(remote', history')
  BY <1>1 DEF Shapes, Sent
<1> QED
  BY <1>1, <1>2 DEF Shapes

\* What leaves the store and the deliveries alone keeps the shapes.
LEMMA RestKeepsShapes ==
    ASSUME Shapes, history' = history, open' = open, rows' = rows, now' = now,
           flush' = flush \/ flush' = None, Clocks', Surroundings', remote' = remote
    PROVE  Shapes'
<1>1. Kept(now', history', open', rows')
  BY DEF Shapes
<1>2. Sent(remote', history')
  BY DEF Shapes
<1>3. DeliveryOK(flush', history')
  BY DEF Shapes, DeliveryOK
<1> QED
  BY <1>1, <1>2, <1>3 DEF Shapes

\* A spent change.
LEMMA Spending ==
    ASSUME Surroundings, NEW k \in Kinds, Spend(k)
    PROVE  spent' \in [Kinds -> Nat]
BY SpendIs DEF Surroundings, Rises

-----------------------------------------------------------------------------
(* Every step keeps the shapes, and is of one of six sorts. *)

Idles == UNCHANGED <<history, rows, flush, remote, plan>> /\ Rises

Grown ==
    /\ flush = None /\ flush' = None
    /\ Grows(history, open, rows, history', open', rows')
    /\ UNCHANGED <<remote, plan>> /\ Rises

Begins ==
    /\ flush = None
    /\ Grows(history, open, rows, history', open', rows')
    /\ DeliveryOK(flush', history') /\ Fresh(flush', rows')
    /\ UNCHANGED <<remote, plan>> /\ Rises

GoesOnOrEnds ==
    /\ PassOver \/ Disable \/ Covered \/ Post \/ Mark \/ RowDone
    /\ Delivers /\ history' = history /\ plan' = plan

Removes == rows' = <<>> /\ UNCHANGED <<history, flush, remote, plan>> /\ Rises

Stops ==
    /\ flush' = None /\ spent'["restart"] = spent["restart"] + 1
    /\ UNCHANGED <<history, rows, remote, plan>> /\ Rises

\* A cycle hands on a movement, and nothing of a session changes.
LEMMA NoticeStep ==
    ASSUME Shapes, NEW l \in plan.clients, NEW reached \in SUBSET plan.clients, Notice(l, reached)
    PROVE  Shapes' /\ Idles
<1>1. /\ now \in Times /\ saved \in [Leaders -> Stamp] /\ plan \in Plans /\ Surroundings
      /\ flush = None
  BY DEF Shapes, Clocks, Surroundings, Notice, LockFree
<1>2. l \in Leaders
  BY <1>1, SessionAssumption
<1>3. PICK m \in plan.moves :
         notice' = [leader |-> l, base |-> saved[l], delta |-> m.delta, ids |-> m.ids,
                    wide |-> m.wide, complete |-> m.complete]
  BY DEF Notice
<1>4. m.delta \in Nat /\ m.ids \in DestIds /\ m.wide \in BOOLEAN /\ m.complete \in BOOLEAN
  BY <1>1, SessionAssumption
<1>5. notice' \in Movements
  BY <1>1, <1>2, <1>3, <1>4 DEF Movements
<1>6. saved' \in [Leaders -> Stamp]
  BY <1>1 DEF Notice, Saved, Stamp
<1>7. Clocks'
  BY <1>1, <1>5, <1>6 DEF Notice, Clocks
<1>8. Rises
  <2>1. PICK k \in Kinds : k = "seen"
    BY KindsAre
  <2> QED
    BY <1>1, <2>1, SpendIs DEF Notice, Surroundings
<1>9. Surroundings'
  BY <1>1, <1>8 DEF Notice, Surroundings, Rises, world, admin
<1>10. UNCHANGED <<now, open, history, rows, flush, remote, plan>>
  BY DEF Notice, store, world
<1>11. Shapes'
  BY <1>7, <1>9, <1>10, RestKeepsShapes
<1> QED
  BY <1>8, <1>10, <1>11 DEF Idles

\* A cycle led by KoSync saves states only.
LEMMA ElsewhereStep ==
    ASSUME Shapes, NEW reached \in SUBSET plan.clients, LedElsewhere(reached)
    PROVE  Shapes' /\ Idles
<1>1. now \in Times /\ saved \in [Leaders -> Stamp] /\ Surroundings
  BY DEF Shapes, Clocks
<1>2. saved' \in [Leaders -> Stamp]
  BY <1>1 DEF LedElsewhere, Saved, Stamp
<1>3. Clocks'
  BY <1>1, <1>2 DEF LedElsewhere, Clocks, Shapes
<1>4. Rises
  <2>1. PICK k \in Kinds : k = "elsewhere"
    BY KindsAre
  <2> QED
    BY <1>1, <2>1, SpendIs DEF LedElsewhere, Surroundings
<1>5. Surroundings'
  BY <1>1, <1>4 DEF LedElsewhere, Surroundings, Rises, world, admin
<1>6. UNCHANGED <<now, open, history, rows, flush, remote, plan>>
  BY DEF LedElsewhere, store, world
<1>7. Shapes'
  BY <1>3, <1>5, <1>6, RestKeepsShapes
<1> QED
  BY <1>4, <1>6, <1>7 DEF Idles

\* A movement extends, closes or opens a session.
LEMMA ExtendStep ==
    ASSUME Shapes, Extend
    PROVE  Shapes' /\ Grown
<1>1. Grows(history, open, rows, history', open', rows')
  BY ExtendGrows
<1>2. /\ notice' = None /\ flush = None /\ flush' = None
      /\ UNCHANGED <<now, saved, remote, setting, plan, active, book, spent>>
  BY DEF Extend, world, admin, Shapes, Clocks
<1>3. Clocks' /\ Surroundings'
  BY <1>2 DEF Shapes, Clocks, Surroundings
<1>4. Rises
  BY <1>2, SpendNot DEF Shapes, Surroundings
<1>5. DeliveryOK(flush', history')
  BY <1>2 DEF DeliveryOK
<1>6. Shapes'
  BY <1>1, <1>2, <1>3, <1>5, GrowthKeepsShapes
<1> QED
  BY <1>1, <1>2, <1>4, <1>6 DEF Grown

\* The maintenance closes a session or drops rows.
LEMMA MaintainStep ==
    ASSUME Shapes, Maintain
    PROVE  Shapes' /\ Grown
<1>1. Grows(history, open, rows, history', open', rows')
  BY MaintainGrows
<1>2. /\ flush = None /\ flush' = None
      /\ UNCHANGED <<now, saved, notice, remote, setting, plan, active, book, spent>>
  BY DEF Maintain, world, admin, LockFree
<1>3. Clocks' /\ Surroundings'
  BY <1>2 DEF Shapes, Clocks, Surroundings
<1>4. Rises
  BY <1>2, SpendNot DEF Shapes, Surroundings
<1>5. DeliveryOK(flush', history')
  BY <1>2 DEF DeliveryOK
<1>6. Shapes'
  BY <1>1, <1>2, <1>3, <1>5, GrowthKeepsShapes
<1> QED
  BY <1>1, <1>2, <1>4, <1>6 DEF Grown

\* A delivery begins.
LEMMA StartStep ==
    ASSUME Shapes, FlushStart
    PROVE  Shapes' /\ Begins
<1>1. /\ Grows(history, open, rows, history', open', rows')
      /\ DeliveryOK(flush', history') /\ Fresh(flush', rows')
  BY StartGrows
<1>2. /\ notice = None /\ flush = None
      /\ UNCHANGED <<now, saved, notice, remote, setting, plan, active, book, spent>>
  BY DEF FlushStart, world, admin, LockFree
<1>3. Clocks' /\ Surroundings'
  BY <1>2 DEF Shapes, Clocks, Surroundings
<1>4. Rises
  BY <1>2, SpendNot DEF Shapes, Surroundings
<1>5. Shapes'
  BY <1>1, <1>2, <1>3, GrowthKeepsShapes
<1> QED
  BY <1>1, <1>2, <1>4, <1>5 DEF Begins

\* A delivery goes on or ends.
LEMMA DeliveryStep ==
    ASSUME Shapes, FlushStep
    PROVE  Shapes' /\ GoesOnOrEnds
<1>1. /\ PassOver \/ Disable \/ Covered \/ Post \/ Mark \/ RowDone
      /\ UNCHANGED <<now, saved, notice, open, history, plan, setting, active, book>>
  BY DEF FlushStep, admin
<1>2. Delivers
  BY <1>1, StepDelivers
<1>3. flush # None
  BY <1>1 DEF PassOver, Disable, Covered, Post, Mark, RowDone, Delivering
<1>4. Clocks' /\ Surroundings'
  BY <1>1, <1>2, <1>3 DEF Shapes, Clocks, Surroundings, Delivers
<1>5. Kept(now', history', open', rows')
  BY <1>1, <1>2 DEF Shapes, Kept, Delivers
<1>6. Shapes'
  BY <1>1, <1>2, <1>4, <1>5 DEF Shapes, Delivers
<1> QED
  BY <1>1, <1>2, <1>6 DEF GoesOnOrEnds

\* Time goes on.
LEMMA TickStep ==
    ASSUME Shapes, Tick
    PROVE  Shapes' /\ Idles
<1>1. /\ now \in Times /\ now < Horizon /\ now' = now + 1 /\ flush = None
      /\ UNCHANGED <<saved, notice, open, history, rows, flush, remote, setting, plan, active, book,
                     spent>>
  BY DEF Shapes, Clocks, Tick, LockFree, store, world, admin
<1>2. now' \in Times /\ now \in Nat /\ now' \in Nat /\ now <= now'
  BY <1>1, Bounds DEF Times
<1>3. Clocks' /\ Surroundings'
  BY <1>1, <1>2 DEF Shapes, Clocks, Surroundings
<1>4. PICK n \in Nat : n = now
  BY <1>2
<1>5. PICK m \in Nat : m = now'
  BY <1>2
<1>6. Kept(n, history, open, rows) /\ n <= m
  BY <1>2, <1>4, <1>5 DEF Shapes
<1>7. Kept(m, history, open, rows)
  BY ONLY <1>6, KeptLater
<1>8. Kept(now', history', open', rows')
  BY <1>1, <1>5, <1>7
<1>9. Shapes'
  BY <1>1, <1>3, <1>8 DEF Shapes
<1>10. Rises
  BY <1>1, SpendNot DEF Shapes, Surroundings
<1> QED
  BY <1>1, <1>9, <1>10 DEF Idles

\* A mapping is removed.
LEMMA RemoveStep ==
    ASSUME Shapes, RemoveMapping
    PROVE  Shapes' /\ Removes
<1>1. /\ book' = FALSE /\ open' = None /\ rows' = <<>> /\ saved' = [l \in Leaders |-> None]
      /\ UNCHANGED <<now, notice, history, flush, remote, plan, setting, active>>
  BY DEF RemoveMapping, world
<1>2. Rises
  <2>1. PICK k \in Kinds : k = "removed"
    BY KindsAre
  <2> QED
    BY <2>1, SpendIs DEF RemoveMapping, Shapes, Surroundings
<1>3. saved' \in [Leaders -> Stamp]
  BY <1>1 DEF Stamp
<1>4. Clocks'
  BY <1>1, <1>3 DEF Shapes, Clocks
<1>5. Surroundings'
  BY <1>1, <1>2 DEF Shapes, Surroundings, Rises
<1>6. Kept(now', history', open', rows')
  BY <1>1 DEF Shapes, Kept, OpenOK, RowsOK
<1>7. Shapes'
  BY <1>1, <1>4, <1>5, <1>6 DEF Shapes
<1> QED
  BY <1>1, <1>2, <1>7 DEF Removes

\* Settings, accounts and a new mapping concern no session.
LEMMA WorldStep ==
    ASSUME Shapes, Rematch \/ (\E d \in Dests : Toggle(d)) \/ SetActive
    PROVE  Shapes' /\ Idles
<1>1. UNCHANGED <<now, saved, notice, open, history, rows, flush, remote, plan>>
  BY DEF Rematch, Toggle, SetActive, store, world
<1>2. Clocks'
  BY <1>1 DEF Shapes, Clocks
<1>3. Rises /\ Surroundings'
  <2>1. CASE Rematch
    BY <2>1, SpendNot DEF Rematch, Shapes, Surroundings, world
  <2>2. CASE \E d \in Dests : Toggle(d)
    <3>1. PICK d \in Dests : Toggle(d)
      BY <2>2
    <3>2. PICK k \in Kinds : k = "setting"
      BY KindsAre
    <3>3. Rises
      BY <3>1, <3>2, SpendIs DEF Toggle, Shapes, Surroundings
    <3> QED
      BY <3>1, <3>3 DEF Toggle, Shapes, Surroundings, world, Rises
  <2>3. CASE SetActive
    <3>1. PICK k \in Kinds : k = "account"
      BY KindsAre
    <3>2. Rises
      BY <2>3, <3>1, SpendIs DEF SetActive, Shapes, Surroundings
    <3> QED
      BY <2>3, <3>2 DEF SetActive, Shapes, Surroundings, world, Rises
  <2> QED
    BY <2>1, <2>2, <2>3
<1>4. Shapes'
  BY <1>1, <1>2, <1>3, RestKeepsShapes
<1> QED
  BY <1>1, <1>3, <1>4 DEF Idles

\* A restart stops what is under way.
LEMMA RestartStep ==
    ASSUME Shapes, Restart
    PROVE  Shapes' /\ Stops
<1>1. /\ notice' = None /\ flush' = None
      /\ UNCHANGED <<now, saved, open, history, rows, remote, plan, setting, active, book>>
  BY DEF Restart, store, world, admin
<1>2. Rises /\ spent'["restart"] = spent["restart"] + 1
  <2>1. PICK k \in Kinds : k = "restart"
    BY KindsAre
  <2> QED
    BY <2>1, SpendIs DEF Restart, Shapes, Surroundings
<1>3. Clocks' /\ Surroundings'
  BY <1>1, <1>2 DEF Shapes, Clocks, Surroundings, Rises
<1>4. Shapes'
  BY <1>1, <1>3, RestKeepsShapes
<1> QED
  BY <1>1, <1>2, <1>4 DEF Stops

Sorts == Idles \/ Grown \/ Begins \/ GoesOnOrEnds \/ Removes \/ Stops

\* There is no other step.
LEMMA EveryStep == Shapes /\ [Next]_vars => Shapes' /\ Sorts
<1> SUFFICES ASSUME Shapes, [Next]_vars PROVE Shapes' /\ Sorts
  OBVIOUS
<1>1. CASE \E l \in plan.clients, reached \in SUBSET plan.clients : Notice(l, reached)
  BY <1>1, NoticeStep DEF Sorts
<1>2. CASE \E reached \in SUBSET plan.clients : LedElsewhere(reached)
  BY <1>2, ElsewhereStep DEF Sorts
<1>3. CASE Extend
  BY <1>3, ExtendStep DEF Sorts
<1>4. CASE Maintain
  BY <1>4, MaintainStep DEF Sorts
<1>5. CASE FlushStart
  BY <1>5, StartStep DEF Sorts
<1>6. CASE FlushStep
  BY <1>6, DeliveryStep DEF Sorts
<1>7. CASE Tick
  BY <1>7, TickStep DEF Sorts
<1>8. CASE RemoveMapping
  BY <1>8, RemoveStep DEF Sorts
<1>9. CASE Rematch \/ (\E d \in Dests : Toggle(d)) \/ SetActive
  BY <1>9, WorldStep DEF Sorts
<1>10. CASE Restart
  BY <1>10, RestartStep DEF Sorts
<1>11. CASE UNCHANGED vars
  <2>1. /\ UNCHANGED <<now, saved, notice, open, history, rows, flush, remote, plan>>
        /\ UNCHANGED <<setting, active, book, spent>>
    BY <1>11 DEF vars
  <2>2. Clocks' /\ Surroundings'
    BY <2>1 DEF Shapes, Clocks, Surroundings
  <2>3. Shapes'
    BY <2>1, <2>2, RestKeepsShapes
  <2>4. Rises
    BY <2>1, SpendNot DEF Shapes, Surroundings
  <2> QED
    BY <2>1, <2>3, <2>4 DEF Sorts, Idles
<1> QED
  BY <1>1, <1>2, <1>3, <1>4, <1>5, <1>6, <1>7, <1>8, <1>9, <1>10, <1>11 DEF Next

\* The shapes hold in every run: sessions, rows and the delivery stay consistent
\* through observations, closing, delivery, removal and restarts.
THEOREM Inductive == Spec => []Shapes
<1>1. Init => Shapes
  BY Starting
<1>2. Shapes /\ [Next]_vars => Shapes'
  BY EveryStep
<1> QED
  BY <1>1, <1>2, PTL DEF Spec

\* The types of the store, the delivery and the destinations, for any clients,
\* destinations, bounds and plans.
THEOREM TypeCorrect == Spec => []TypeOK
<1>1. Shapes => TypeOK
  BY ShapesTyped
<1> QED
  BY <1>1, Inductive, PTL

\* No moment is credited twice, whichever client leads a session and whatever
\* ended the one before (_close_reading_session, _ingest_movement).
THEOREM Disjoint == Spec => []SessionsDisjoint
<1>1. Shapes => SessionsDisjoint
  BY ShapesTyped
<1> QED
  BY <1>1, Inductive, PTL

-----------------------------------------------------------------------------
(* What each destination was given. *)

\* The destination d may still be sent the session that ends at t.
Owed(d, t) ==
    \/ t \in DOMAIN rows /\ rows[t].status[d] = "pending"
    \/ /\ flush # None
       /\ \E q \in flush.queue :
            /\ q.to = t /\ q.status[d] = "pending"
            /\ q = Row => \E i \in flush.at .. Len(Order) : Order[i] = d

\* It has just taken it, and nothing is marked yet.
InTransit(d, t) == flush # None /\ flush.posted /\ d = Dest /\ t = Row.to

Slips == spent.lost + spent.restart

Taken ==
    /\ \A d \in Dests, t \in DOMAIN rows : rows[t].status[d] = "delivered" => remote[d][t] > 0
    /\ flush # None /\ flush.posted => remote[Dest][Row.to] > 0
    /\ \A d \in Dests, t \in Times : remote[d][t] <= 1 + Slips
    /\ \A d \in Dests, t \in Times : Owed(d, t) /\ ~InTransit(d, t) => remote[d][t] <= Slips
    /\ \A d \in Checking, t \in Long(history) : remote[d][t] <= 1 + spent.blind

\* Slips are counted, and no count goes down.
LEMMA Counted ==
    ASSUME Shapes
    PROVE  /\ Slips \in Nat /\ spent.blind \in Nat /\ spent.lost \in Nat /\ spent.restart \in Nat
           /\ Rises => /\ Slips' \in Nat /\ Slips' >= Slips
                       /\ spent'.blind \in Nat /\ spent'.blind >= spent.blind
                       /\ spent'.lost >= spent.lost /\ spent'.restart >= spent.restart
                       /\ spent'.lost \in Nat /\ spent'.restart \in Nat
<1>1. spent \in [Kinds -> Nat]
  BY DEF Shapes, Surroundings
<1>2. spent.blind \in Nat /\ spent.lost \in Nat /\ spent.restart \in Nat
  BY <1>1, KindsAre
<1>3. ASSUME Rises
      PROVE  /\ spent'.blind \in Nat /\ spent'.lost \in Nat /\ spent'.restart \in Nat
             /\ spent'.blind >= spent.blind /\ spent'.lost >= spent.lost
             /\ spent'.restart >= spent.restart
  BY <1>3, KindsAre DEF Rises
<1> QED
  BY <1>2, <1>3 DEF Slips

\* A destination has each session a number of times.
LEMMA RemoteNumbers ==
    ASSUME Shapes
    PROVE  /\ \A d \in Dests, t \in Times : remote[d][t] \in Nat
           /\ Checking \subseteq Dests
           /\ DOMAIN rows \subseteq Times /\ Long(history) \subseteq Times
<1>1. TypeOK
  BY ShapesTyped
<1>2. Long(history) \subseteq Times
  BY <1>1 DEF TypeOK, Long
<1> QED
  BY <1>1, <1>2, SessionAssumption DEF TypeOK

\* Where the history stays, so do its wide sessions.
LEMMA SameHistory ==
    ASSUME Shapes, history' = history
    PROVE  /\ Long(history') = Long(history)
           /\ Long(history') \subseteq Times /\ Long(history') \cap Ends(history) \subseteq Long(history)
<1>1. Long(history) \subseteq Times
  BY RemoteNumbers
<1> QED
  BY <1>1 DEF Long

\* Where it grows, no old one becomes wide.
LEMMA GrownHistory ==
    ASSUME Shapes, Grows(history, open, rows, history', open', rows')
    PROVE  Long(history') \subseteq Times /\ Long(history') \cap Ends(history) \subseteq Long(history)
<1>1. PICK n \in Times : n = now
  BY DEF Shapes, Clocks
<1>2. HistoryOK(n, history')
  BY <1>1 DEF Grows, Kept
<1>3. Ends(history') \subseteq Times
  BY <1>2, EndsAreTimes
<1> QED
  BY <1>3 DEF Grows, Long, Ends

\* Nothing has been sent anywhere in the beginning.
LEMMA TakenAtFirst == Init => Taken
<1> SUFFICES ASSUME Init PROVE Taken
  OBVIOUS
<1>1. /\ rows = <<>> /\ flush = None
      /\ \A d \in Dests, t \in Times : remote[d][t] = 0
      /\ spent = [k \in Kinds |-> 0]
  BY DEF Init
<1>2. Shapes
  BY Starting
<1>3. Slips \in Nat /\ spent.blind \in Nat /\ Checking \subseteq Dests
  BY <1>2, Counted, RemoteNumbers
<1>4. Long(history) = {}
  BY DEF Init, Long
<1> QED
  BY <1>1, <1>3, <1>4 DEF Taken

\* Where the destinations take nothing and nothing more is owed, what holds goes on to hold.
LEMMA TakenStays ==
    ASSUME Shapes, Taken, Rises, remote' = remote,
           Long(history') \subseteq Times, Long(history') \cap Ends(history) \subseteq Long(history),
           \A d \in Dests, t \in DOMAIN rows' :
               rows'[t].status[d] = "delivered" => t \in DOMAIN rows /\ rows[t].status[d] = "delivered",
           flush' # None /\ flush'.posted => flush # None /\ flush.posted /\ Dest' = Dest /\ Row' = Row,
           \A d \in Dests, t \in Times :
               Owed(d, t)' /\ ~InTransit(d, t)'
                  => remote[d][t] = 0 \/ (Owed(d, t) /\ ~InTransit(d, t))
    PROVE  Taken'
<1>1. /\ Slips' >= Slips /\ Slips' \in Nat /\ Slips \in Nat
      /\ spent'.blind >= spent.blind /\ spent'.blind \in Nat /\ spent.blind \in Nat
  BY Counted
<1>2. \A d \in Dests, t \in Times : remote[d][t] \in Nat
  BY RemoteNumbers
<1>3. \A d \in Dests, t \in DOMAIN rows' : rows'[t].status[d] = "delivered" => remote'[d][t] > 0
  BY DEF Taken
<1>4. flush' # None /\ flush'.posted => remote'[Dest'][Row'.to] > 0
  BY DEF Taken
<1>5. \A d \in Dests, t \in Times : remote'[d][t] <= 1 + Slips'
  BY <1>1, <1>2 DEF Taken
<1>6. \A d \in Dests, t \in Times :
         Owed(d, t)' /\ ~InTransit(d, t)' => remote'[d][t] <= Slips'
  BY <1>1, <1>2 DEF Taken
<1>7. ASSUME NEW d \in Checking, NEW t \in Long(history') PROVE remote'[d][t] <= 1 + spent'.blind
  <2>1. d \in Dests /\ t \in Times
    BY RemoteNumbers
  <2>2. PICK n \in Nat : n = remote[d][t]
    BY <1>2, <2>1
  <2>3. CASE t \in Long(history)
    BY <1>1, <2>2, <2>3 DEF Taken
  <2>4. CASE t \notin Ends(history)
    <3>1. ~(n > 0)
      BY <2>1, <2>2, <2>4 DEF Shapes, Sent
    <3> QED
      BY <1>1, <2>2, <3>1
  <2> QED
    BY <2>3, <2>4
<1> QED
  BY <1>3, <1>4, <1>5, <1>6, <1>7 DEF Taken

\* The row in hand stays in hand while the queue and the place in it stay.
LEMMA SameRow == flush'.queue = flush.queue => Row' = Row
BY DEF Row

\* So does the destination in hand.
LEMMA SameDest == flush'.at = flush.at => Dest' = Dest
BY DEF Dest

\* What does not concern the store or the deliveries leaves it so.
LEMMA TakenIdle ==
    ASSUME Shapes, Taken, Idles
    PROVE  Taken'
<1>1. /\ history' = history /\ rows' = rows /\ flush' = flush /\ remote' = remote /\ Rises
      /\ Long(history') \subseteq Times /\ Long(history') \cap Ends(history) \subseteq Long(history)
  BY SameHistory DEF Idles
<1>2. Row' = Row /\ Dest' = Dest
  BY <1>1, SameRow, SameDest
<1>3. \A d \in Dests, t \in Times :
        (Owed(d, t)' <=> Owed(d, t)) /\ (InTransit(d, t)' <=> InTransit(d, t))
  BY <1>1, <1>2 DEF Owed, InTransit
<1> QED
  BY <1>1, <1>2, <1>3, TakenStays

\* New rows are owed, of sessions no destination has seen.
LEMMA NewAreOwed ==
    ASSUME Shapes, New(rows, rows', history), flush = None,
           NEW d \in Dests, NEW t \in DOMAIN rows', t \in Times, rows'[t].status[d] = "pending"
    PROVE  remote[d][t] = 0 \/ (Owed(d, t) /\ ~InTransit(d, t))
<1>1. CASE t \in DOMAIN rows /\ rows'[t] = rows[t]
  BY <1>1 DEF Owed, InTransit
<1>2. CASE t \notin Ends(history)
  <2>1. ~(remote[d][t] > 0)
    BY <1>2 DEF Shapes, Sent
  <2>2. PICK n \in Nat : n = remote[d][t]
    BY RemoteNumbers
  <2>3. n = 0
    BY <2>1, <2>2
  <2> QED
    BY <2>2, <2>3
<1> QED
  BY <1>1, <1>2 DEF New

\* Where no delivery is under way, new rows keep it so.
LEMMA TakenGrowth ==
    ASSUME Shapes, Shapes', Taken, flush = None, Rises, remote' = remote,
           Grows(history, open, rows, history', open', rows'), Fresh(flush', rows')
    PROVE  Taken'
<1>5. /\ New(rows, rows', history)
      /\ Long(history') \subseteq Times /\ Long(history') \cap Ends(history) \subseteq Long(history)
  BY GrownHistory DEF Grows
<1>1. \A d \in Dests, t \in DOMAIN rows' :
         rows'[t].status[d] = "delivered" => t \in DOMAIN rows /\ rows[t].status[d] = "delivered"
  BY <1>5 DEF New
<1>2. ~(flush' # None /\ flush'.posted)
  BY DEF Fresh
<1>3. \A d \in Dests, t \in Times :
         Owed(d, t)' => t \in DOMAIN rows' /\ rows'[t].status[d] = "pending"
  BY DEF Owed, Fresh
<1>4. \A d \in Dests, t \in Times :
         Owed(d, t)' => remote[d][t] = 0 \/ (Owed(d, t) /\ ~InTransit(d, t))
  BY <1>3, <1>5, NewAreOwed
<1> QED
  BY <1>1, <1>2, <1>4, <1>5, TakenStays

\* A mapping that is removed takes its rows along.
LEMMA TakenRemoves ==
    ASSUME Shapes, Taken, Removes
    PROVE  Taken'
<1>1. /\ rows' = <<>> /\ flush' = flush /\ remote' = remote /\ Rises
      /\ Long(history') \subseteq Times /\ Long(history') \cap Ends(history) \subseteq Long(history)
  BY SameHistory DEF Removes
<1>2. Row' = Row /\ Dest' = Dest
  BY <1>1, SameRow, SameDest
<1>3. \A d \in Dests, t \in Times :
        (Owed(d, t)' => Owed(d, t)) /\ (InTransit(d, t)' <=> InTransit(d, t))
  BY <1>1, <1>2 DEF Owed, InTransit
<1>4. DOMAIN rows' = {}
  BY <1>1
<1> QED
  BY <1>1, <1>2, <1>3, <1>4, TakenStays

\* A restart may make a second copy of what was in transit.
LEMMA TakenStops ==
    ASSUME Shapes, Taken, Stops
    PROVE  Taken'
<1>1. /\ flush' = None /\ rows' = rows /\ remote' = remote /\ Rises
      /\ spent'.restart = spent.restart + 1 /\ Long(history') = Long(history)
  BY SameHistory DEF Stops
<1>2. /\ Slips' \in Nat /\ Slips \in Nat /\ Slips' >= 1 + Slips
      /\ spent'.blind \in Nat /\ spent'.blind >= spent.blind /\ spent.blind \in Nat
  BY <1>1, Counted DEF Slips
<1>3. \A d \in Dests, t \in Times : remote[d][t] \in Nat
  BY RemoteNumbers
<1>4. \A d \in Dests, t \in Times : remote'[d][t] <= Slips'
  BY <1>1, <1>2, <1>3 DEF Taken
<1>5. \A d \in Dests, t \in Times : remote'[d][t] <= 1 + Slips'
  BY <1>1, <1>2, <1>3, <1>4
<1>6. \A d \in Checking, t \in Long(history') : remote'[d][t] <= 1 + spent'.blind
  BY <1>1, <1>2, <1>3, RemoteNumbers DEF Taken
<1>7. \A d \in Dests, t \in DOMAIN rows' : rows'[t].status[d] = "delivered" => remote'[d][t] > 0
  BY <1>1 DEF Taken
<1> QED
  BY <1>1, <1>4, <1>5, <1>6, <1>7 DEF Taken

\* Going on to the next destination, no row more is owed.
LEMMA OwedNext ==
    ASSUME Shapes, flush # None, ~AllTried,
           flush' # None, flush'.queue = flush.queue, flush'.at = flush.at + 1,
           DOMAIN rows' = DOMAIN rows,
           \A e \in Dests, u \in DOMAIN rows :
               rows'[u].status[e] = "pending" => rows[u].status[e] = "pending",
           NEW d \in Dests, NEW t \in Times, Owed(d, t)'
    PROVE  /\ Owed(d, t)
           /\ d = Dest /\ t = Row.to => t \in DOMAIN rows /\ rows'[t].status[d] = "pending"
<1>1. /\ flush.at \in 1 .. Len(Order) /\ Len(Order) \in Nat /\ Row \in flush.queue
      /\ DOMAIN Order = 1 .. Len(Order)
  BY InHand, SessionAssumption
<1>2. Row' = Row
  BY SameRow
<1>3. CASE t \in DOMAIN rows' /\ rows'[t].status[d] = "pending"
  BY <1>3 DEF Owed
<1>4. CASE \E q \in flush'.queue :
             /\ q.to = t /\ q.status[d] = "pending"
             /\ q = Row' => \E i \in flush'.at .. Len(Order) : Order[i] = d
  <2>1. PICK q \in flush.queue :
             /\ q.to = t /\ q.status[d] = "pending"
             /\ q = Row => \E i \in (flush.at + 1) .. Len(Order) : Order[i] = d
    BY <1>2, <1>4
  <2>2. (flush.at + 1) .. Len(Order) \subseteq flush.at .. Len(Order)
    BY <1>1
  <2>3. Owed(d, t)
    BY <2>1, <2>2 DEF Owed
  <2>4. ASSUME d = Dest, t = Row.to PROVE FALSE
    <3>1. q = Row
      BY <1>1, <2>1, <2>4 DEF Shapes, DeliveryOK
    <3>2. PICK i \in (flush.at + 1) .. Len(Order) : Order[i] = Order[flush.at]
      BY <2>1, <2>4, <3>1 DEF Dest
    <3>3. i \in DOMAIN Order /\ flush.at \in DOMAIN Order /\ i # flush.at
      BY <1>1, <3>2
    <3> QED
      BY <3>2, <3>3, SessionAssumption DEF IsInjective
  <2> QED
    BY <2>3, <2>4
<1> QED
  BY <1>3, <1>4 DEF Owed

\* Passing a destination over, or finding the session unwanted or there already.
LEMMA TakenNext ==
    ASSUME Shapes, Taken, history' = history, Delivering, Rises, remote' = remote,
           flush' # None, flush'.queue = flush.queue, flush'.at = flush.at + 1, ~flush'.posted,
           DOMAIN rows' = DOMAIN rows,
           \A e \in Dests, u \in DOMAIN rows :
               /\ rows'[u].status[e] = "pending" => rows[u].status[e] = "pending"
               /\ rows'[u].status[e] = "delivered" => rows[u].status[e] = "delivered"
    PROVE  Taken'
<1>1. flush # None /\ ~AllTried /\ ~flush.posted
  BY DEF Delivering
<1>2. \A d \in Dests, t \in Times : Owed(d, t)' => Owed(d, t)
  BY <1>1, OwedNext
<1>3. \A d \in Dests, t \in Times : ~InTransit(d, t)
  BY <1>1 DEF InTransit
<1> QED
  BY <1>2, <1>3, SameHistory, TakenStays

\* A destination that is passed over, or whose row is disabled, takes nothing.
LEMMA TakenQuietly ==
    ASSUME Shapes, Taken, history' = history, PassOver \/ Disable \/ Covered
    PROVE  Taken'
<1>1. Delivering /\ remote' = remote /\ NextDest(FALSE)
  BY DEF PassOver, Disable, Covered
<1>2. flush # None /\ ~AllTried
  BY <1>1 DEF Delivering
<1>3. flush' # None /\ flush'.queue = flush.queue /\ flush'.at = flush.at + 1 /\ ~flush'.posted
  BY <1>1, <1>2, GoesOn
<1>4. RowsOK(history, rows) /\ spent \in [Kinds -> Nat]
  BY DEF Shapes, Kept, Surroundings
<1>5. Rises
  <2>1. PICK k \in Kinds : k = "covered"
    BY KindsAre
  <2>2. Spend(k) \/ spent' = spent
    BY <2>1 DEF PassOver, Disable, Covered
  <2> QED
    BY <1>4, <2>2, SpendIs, SpendNot
<1>6. /\ DOMAIN rows' = DOMAIN rows
      /\ \A e \in Dests, u \in DOMAIN rows :
           /\ rows'[u].status[e] = "pending" => rows[u].status[e] = "pending"
           /\ rows'[u].status[e] = "delivered" => rows[u].status[e] = "delivered"
  <2>1. CASE PassOver
    BY <2>1 DEF PassOver
  <2>2. CASE Disable \/ Covered
    <3>1. PICK d \in Dests : d = Dest
      BY <1>2, InHand
    <3>2. PICK s \in Statuses : s = "disabled"
      BY DEF Statuses
    <3>3. MarkAs(d, s)
      BY <2>2, <3>1, <3>2 DEF Disable, Covered
    <3> QED
      BY <1>4, <3>2, <3>3, MarkIs
  <2> QED
    BY <2>1, <2>2
<1> QED
  BY <1>1, <1>3, <1>5, <1>6, TakenNext

\* Marking what has been posted ends its transit.
LEMMA TakenMark ==
    ASSUME Shapes, Taken, history' = history, Mark
    PROVE  Taken'
<1>1. flush # None /\ flush.posted /\ ~AllTried
  BY SessionAssumption DEF Mark, Shapes, DeliveryOK, AllTried
<1>2. remote' = remote /\ spent' = spent /\ NextDest(FALSE) /\ MarkAs(Dest, "delivered")
  BY DEF Mark
<1>3. flush' # None /\ flush'.queue = flush.queue /\ flush'.at = flush.at + 1 /\ ~flush'.posted
  BY <1>1, <1>2, GoesOn
<1>4. RowsOK(history, rows) /\ spent \in [Kinds -> Nat]
  BY DEF Shapes, Kept, Surroundings
<1>5. PICK d \in Dests : d = Dest
  BY <1>1, InHand
<1>6. PICK s \in Statuses : s = "delivered"
  BY DEF Statuses
<1>7. MarkAs(d, s)
  BY <1>2, <1>5, <1>6
<1>8. PICK u \in Times : u = Row.to
  BY <1>1, InHand
<1>9. /\ DOMAIN rows' = DOMAIN rows
      /\ \A t \in DOMAIN rows, e \in Dests :
            \/ rows'[t].status[e] = rows[t].status[e]
            \/ t = u /\ e = d /\ rows[t].status[e] = "pending" /\ rows'[t].status[e] = s
      /\ u \in DOMAIN rows => rows'[u].status[d] # "pending"
  BY <1>4, <1>6, <1>7, <1>8, MarkIs
<1>10. \A e \in Dests, t \in DOMAIN rows : rows'[t].status[e] = "pending" => rows[t].status[e] = "pending"
  BY <1>6, <1>9
<1>11. \A e \in Dests, t \in Times : Owed(e, t)' => Owed(e, t) /\ ~(e = d /\ t = u)
  BY <1>1, <1>3, <1>5, <1>8, <1>9, <1>10, OwedNext
<1>12. \A e \in Dests, t \in Times : InTransit(e, t) => e = d /\ t = u
  BY <1>5, <1>8 DEF InTransit
<1>13. remote[d][u] > 0 /\ \A e \in Dests, t \in Times : remote[e][t] \in Nat
  BY <1>1, <1>5, <1>8, RemoteNumbers DEF Taken
<1>14. \A e \in Dests, t \in DOMAIN rows' : rows'[t].status[e] = "delivered" => remote'[e][t] > 0
  <2> SUFFICES ASSUME NEW e \in Dests, NEW t \in DOMAIN rows', rows'[t].status[e] = "delivered"
               PROVE  remote[e][t] > 0
    BY <1>2
  <2>1. CASE t = u /\ e = d
    BY <1>13, <2>1
  <2>2. CASE ~(t = u /\ e = d)
    <3>1. t \in DOMAIN rows /\ rows[t].status[e] = "delivered"
      BY <1>9, <2>2
    <3> QED
      BY <3>1 DEF Taken
  <2> QED
    BY <2>1, <2>2
<1>15. Slips' = Slips /\ spent'.blind = spent.blind
  BY <1>2 DEF Slips
<1>16. \A e \in Dests, t \in Times :
         Owed(e, t)' /\ ~InTransit(e, t)' => remote'[e][t] <= Slips'
  BY <1>2, <1>11, <1>12, <1>15 DEF Taken
<1>17. /\ \A e \in Dests, t \in Times : remote'[e][t] <= 1 + Slips'
       /\ \A e \in Checking, t \in Long(history') : remote'[e][t] <= 1 + spent'.blind
  BY <1>2, <1>15, SameHistory DEF Taken
<1> QED
  BY <1>3, <1>14, <1>16, <1>17 DEF Taken

\* The end of a row's delivery owes nothing more.
LEMMA TakenDone ==
    ASSUME Shapes, Taken, history' = history, RowDone
    PROVE  Taken'
<1>1. /\ flush # None /\ AllTried /\ flush' = Delivery(flush.queue \ {Row})
      /\ remote' = remote /\ spent' = spent
  BY DEF RowDone
<1>2. flush' = None \/ (flush'.at = 1 /\ ~flush'.posted /\ flush'.queue = flush.queue \ {Row})
  BY <1>1, RestIs
<1>3. RowsOK(history, rows) /\ spent \in [Kinds -> Nat]
  BY DEF Shapes, Kept, Surroundings
<1>4. Rises
  BY <1>1, <1>3, SpendNot
<1>5. /\ DOMAIN rows' = DOMAIN rows
      /\ \A t \in DOMAIN rows, e \in Dests :
           \/ rows'[t].status[e] = rows[t].status[e]
           \/ rows[t].status[e] = "pending" /\ rows'[t].status[e] = "failed"
  BY <1>3, GiveUpIs DEF RowDone
<1>6. ~flush.posted
  BY <1>1, SessionAssumption DEF Shapes, DeliveryOK, AllTried
<1>7. \A d \in Dests, t \in Times : Owed(d, t)' => Owed(d, t)
  <2> SUFFICES ASSUME NEW d \in Dests, NEW t \in Times, Owed(d, t)' PROVE Owed(d, t)
    OBVIOUS
  <2>1. CASE t \in DOMAIN rows' /\ rows'[t].status[d] = "pending"
    <3>1. t \in DOMAIN rows /\ rows[t].status[d] = "pending"
      BY <1>5, <2>1
    <3> QED
      BY <3>1 DEF Owed
  <2>2. CASE flush' # None /\ \E q \in flush'.queue : q.to = t /\ q.status[d] = "pending"
    <3>1. PICK q \in flush.queue \ {Row} : q.to = t /\ q.status[d] = "pending"
      BY <1>2, <2>2
    <3> QED
      BY <1>1, <3>1 DEF Owed
  <2> QED
    BY <2>1, <2>2 DEF Owed
<1>8. \A d \in Dests, t \in Times : ~InTransit(d, t)
  BY <1>6 DEF InTransit
<1>9. \A d \in Dests, t \in DOMAIN rows' :
         rows'[t].status[d] = "delivered" => t \in DOMAIN rows /\ rows[t].status[d] = "delivered"
  BY <1>5
<1> QED
  BY <1>1, <1>2, <1>4, <1>7, <1>8, <1>9, SameHistory, TakenStays

\* What is due is owed.
LEMMA DueIsOwed ==
    ASSUME Shapes, Delivering, Due
    PROVE  Owed(Dest, Row.to)
<1>1. /\ flush # None /\ Row \in flush.queue /\ flush.at \in 1 .. Len(Order) /\ Len(Order) \in Nat
      /\ Row.status[Dest] = "pending"
  BY InHand, SessionAssumption DEF Delivering, Due
<1>2. flush.at \in flush.at .. Len(Order) /\ Order[flush.at] = Dest
  BY <1>1 DEF Dest
<1>3. \E i \in flush.at .. Len(Order) : Order[i] = Dest
  BY <1>2
<1> QED
  BY <1>1, <1>3 DEF Owed

\* A session that is taken, and the answer comes.
LEMMA TakenPost ==
    ASSUME Shapes, Taken, history' = history, Delivering, Due, Unaware, Took, rows' = rows,
           flush' = [flush EXCEPT !.posted = TRUE]
    PROVE  Taken'
<1>1. flush # None /\ ~AllTried /\ ~flush.posted
  BY DEF Delivering
<1>2. flush' # None /\ flush'.queue = flush.queue /\ flush'.at = flush.at /\ flush'.posted
  BY <1>1, PostedIs
<1>3. Row' = Row /\ Dest' = Dest
  BY <1>2, SameRow, SameDest
<1>4. PICK d \in Dests : d = Dest
  BY <1>1, InHand
<1>5. PICK u \in Times : u = Row.to
  BY <1>1, InHand
<1>6. /\ remote'[d][u] = remote[d][u] + 1
      /\ \A e \in Dests, t \in Times : e # d \/ t # u => remote'[e][t] = remote[e][t]
  BY <1>4, <1>5, TookIs DEF Shapes, Surroundings
<1>7. Owed(d, u) /\ \A e \in Dests, t \in Times : ~InTransit(e, t)
  BY <1>1, <1>4, <1>5, DueIsOwed DEF InTransit
<1>8. spent \in [Kinds -> Nat]
  BY DEF Shapes, Surroundings
<1>9. PICK k \in Kinds : k = "blind"
  BY KindsAre
<1>10. Rises
  <2>1. Spend(k) \/ spent' = spent
    BY <1>9 DEF Unaware
  <2> QED
    BY <1>8, <2>1, SpendIs, SpendNot
<1>11. /\ Slips' >= Slips /\ Slips' \in Nat /\ Slips \in Nat
       /\ spent'.blind >= spent.blind /\ spent'.blind \in Nat /\ spent.blind \in Nat
  BY <1>10, Counted
<1>12. /\ \A e \in Dests, t \in Times : remote[e][t] \in Nat
       /\ DOMAIN rows \subseteq Times /\ Checking \subseteq Dests
  BY RemoteNumbers
<1>13. \A e \in Dests, t \in Times : remote'[e][t] >= remote[e][t] /\ remote'[e][t] \in Nat
  BY <1>6, <1>12
<1>14. \A e \in Dests, t \in DOMAIN rows' : rows'[t].status[e] = "delivered" => remote'[e][t] > 0
  <2> SUFFICES ASSUME NEW e \in Dests, NEW t \in DOMAIN rows', rows'[t].status[e] = "delivered"
               PROVE  remote'[e][t] > 0
    OBVIOUS
  <2>1. remote[e][t] > 0 /\ t \in Times
    BY <1>12 DEF Taken
  <2> QED
    BY <1>12, <1>13, <2>1
<1>15. remote'[Dest'][Row'.to] > 0
  <2>1. remote'[d][u] > 0
    BY <1>6, <1>12
  <2> QED
    BY <1>3, <1>4, <1>5, <2>1
<1>16. \A e \in Dests, t \in Times : remote'[e][t] <= 1 + Slips'
  <2> SUFFICES ASSUME NEW e \in Dests, NEW t \in Times PROVE remote'[e][t] <= 1 + Slips'
    OBVIOUS
  <2>1. CASE e = d /\ t = u
    <3>1. remote[d][u] <= Slips
      BY <1>7, <2>1 DEF Taken
    <3>2. remote'[e][t] = remote[d][u] + 1 /\ remote[d][u] \in Nat
      BY <1>6, <1>12, <2>1
    <3> QED
      BY <1>11, <3>1, <3>2
  <2>2. CASE ~(e = d /\ t = u)
    <3>1. remote'[e][t] = remote[e][t] /\ remote[e][t] <= 1 + Slips /\ remote[e][t] \in Nat
      BY <1>6, <1>12, <2>2 DEF Taken
    <3> QED
      BY <1>11, <3>1
  <2> QED
    BY <2>1, <2>2
<1>17. \A e \in Dests, t \in Times : InTransit(e, t)' <=> e = d /\ t = u
  BY <1>2, <1>3, <1>4, <1>5 DEF InTransit
<1>18. \A e \in Dests, t \in Times : Owed(e, t)' => Owed(e, t)
  BY <1>1, <1>2, <1>3 DEF Owed
<1>19. \A e \in Dests, t \in Times :
          Owed(e, t)' /\ ~InTransit(e, t)' => remote'[e][t] <= Slips'
  <2> SUFFICES ASSUME NEW e \in Dests, NEW t \in Times, Owed(e, t)', ~InTransit(e, t)'
               PROVE  remote'[e][t] <= Slips'
    OBVIOUS
  <2>1. ~(e = d /\ t = u)
    BY <1>17
  <2>2. Owed(e, t) /\ ~InTransit(e, t)
    BY <1>7, <1>18
  <2>3. remote[e][t] <= Slips
    BY <2>2 DEF Taken
  <2>4. remote'[e][t] = remote[e][t] /\ remote[e][t] \in Nat
    BY <1>6, <1>12, <2>1
  <2> QED
    BY <1>11, <2>3, <2>4
<1>20. \A e \in Checking, t \in Long(history') : remote'[e][t] <= 1 + spent'.blind
  <2> SUFFICES ASSUME NEW e \in Checking, NEW t \in Long(history)
               PROVE  remote'[e][t] <= 1 + spent'.blind
    BY SameHistory
  <2>1. e \in Dests /\ t \in Times /\ remote[e][t] \in Nat
    BY <1>12, RemoteNumbers
  <2>2. remote[e][t] <= 1 + spent.blind
    BY DEF Taken
  <2>3. CASE ~(e = d /\ t = u)
    <3>1. remote'[e][t] = remote[e][t]
      BY <1>6, <2>1, <2>3
    <3> QED
      BY <1>11, <2>1, <2>2, <3>1
  <2>4. CASE e = d /\ t = u
    <3>1. remote'[e][t] = remote[e][t] + 1
      BY <1>6, <2>4
    <3>4. Row.wide
      BY <1>1, <1>5, <2>4, InHand
    <3>2. CASE remote[e][t] > 0
      <4>1. Spend(k)
        BY <1>4, <1>5, <1>9, <2>4, <3>2, <3>4 DEF Unaware, Found
      <4>2. spent'[k] = spent[k] + 1
        BY <1>8, <4>1, SpendIs
      <4>3. spent'.blind = spent.blind + 1
        BY <1>9, <4>2
      <4> QED
        BY <1>11, <2>1, <2>2, <3>1, <4>3
    <3>3. CASE ~(remote[e][t] > 0)
      BY <1>11, <2>1, <3>1, <3>3
    <3> QED
      BY <3>2, <3>3
  <2> QED
    BY <2>3, <2>4
<1> QED
  BY <1>14, <1>15, <1>16, <1>19, <1>20 DEF Taken

\* A session that is taken, and the answer is lost.
LEMMA TakenLost ==
    ASSUME Shapes, Taken, history' = history, Delivering, Due, ~Found, Spend("lost"), Took, rows' = rows,
           NextDest(TRUE)
    PROVE  Taken'
<1>1. flush # None /\ ~AllTried /\ ~flush.posted
  BY DEF Delivering
<1>2. flush' # None /\ flush'.queue = flush.queue /\ flush'.at = flush.at + 1 /\ ~flush'.posted
  BY <1>1, GoesOn
<1>3. PICK d \in Dests : d = Dest
  BY <1>1, InHand
<1>4. PICK u \in Times : u = Row.to
  BY <1>1, InHand
<1>5. /\ remote'[d][u] = remote[d][u] + 1
      /\ \A e \in Dests, t \in Times : e # d \/ t # u => remote'[e][t] = remote[e][t]
  BY <1>3, <1>4, TookIs DEF Shapes, Surroundings
<1>6. spent \in [Kinds -> Nat]
  BY DEF Shapes, Surroundings
<1>7. Rises /\ spent'.lost = spent.lost + 1
  <2>1. PICK k \in Kinds : k = "lost"
    BY KindsAre
  <2>2. Spend(k)
    BY <2>1
  <2>3. Rises /\ spent'[k] = spent[k] + 1
    BY <1>6, <2>2, SpendIs
  <2> QED
    BY <2>1, <2>3
<1>8. /\ Slips' = Slips + 1 /\ Slips \in Nat
      /\ spent'.blind >= spent.blind /\ spent'.blind \in Nat /\ spent.blind \in Nat
  <2>1. /\ spent.lost \in Nat /\ spent.restart \in Nat /\ spent'.restart = spent.restart
        /\ spent'.blind >= spent.blind /\ spent'.blind \in Nat /\ spent.blind \in Nat
    <3>1. spent'.restart = spent.restart
      BY <1>6, KindsAre DEF Spend
    <3> QED
      BY <1>7, <3>1, Counted
  <2> QED
    BY <1>7, <2>1 DEF Slips
<1>9. /\ \A e \in Dests, t \in Times : remote[e][t] \in Nat
      /\ DOMAIN rows \subseteq Times /\ Checking \subseteq Dests /\ Long(history) \subseteq Times
  BY RemoteNumbers
<1>10. \A e \in Dests, t \in DOMAIN rows' : rows'[t].status[e] = "delivered" => remote'[e][t] > 0
  <2> SUFFICES ASSUME NEW e \in Dests, NEW t \in DOMAIN rows', rows'[t].status[e] = "delivered"
               PROVE  remote'[e][t] > 0
    OBVIOUS
  <2>1. remote[e][t] > 0 /\ t \in Times /\ remote[e][t] \in Nat
    BY <1>9 DEF Taken
  <2>2. remote'[e][t] = remote[e][t] \/ remote'[e][t] = remote[e][t] + 1
    BY <1>5, <2>1
  <2> QED
    BY <2>1, <2>2
<1>11. \A e \in Dests, t \in Times : Owed(e, t)' => Owed(e, t)
  BY <1>1, <1>2, OwedNext
<1>12. \A e \in Dests, t \in Times : ~InTransit(e, t)
  BY <1>1 DEF InTransit
<1>13. Owed(d, u)
  BY <1>3, <1>4, DueIsOwed
<1>14. ASSUME NEW e \in Dests, NEW t \in Times
       PROVE  /\ remote'[e][t] <= 1 + Slips'
              /\ Owed(e, t)' => remote'[e][t] <= Slips'
  <2>1. remote[e][t] <= 1 + Slips /\ remote[e][t] \in Nat
    BY <1>9 DEF Taken
  <2>2. CASE e = d /\ t = u
    <3>1. remote[e][t] <= Slips /\ remote'[e][t] = remote[e][t] + 1
      BY <1>5, <1>12, <1>13, <2>2 DEF Taken
    <3> QED
      BY <1>8, <2>1, <3>1
  <2>3. CASE ~(e = d /\ t = u)
    <3>1. remote'[e][t] = remote[e][t]
      BY <1>5, <2>3
    <3> QED
      BY <1>8, <2>1, <3>1
  <2> QED
    BY <2>2, <2>3
<1>15. \A e \in Checking, t \in Long(history') : remote'[e][t] <= 1 + spent'.blind
  <2> SUFFICES ASSUME NEW e \in Checking, NEW t \in Long(history)
               PROVE  remote'[e][t] <= 1 + spent'.blind
    BY SameHistory
  <2>1. e \in Dests /\ t \in Times /\ remote[e][t] <= 1 + spent.blind /\ remote[e][t] \in Nat
    BY <1>9 DEF Taken
  <2>2. CASE e = d /\ t = u
    <3>1. Row.wide
      BY <1>1, <1>4, <2>2, InHand
    <3>2. ~(remote[e][t] > 0) /\ remote'[e][t] = remote[e][t] + 1
      BY <1>3, <1>4, <1>5, <2>2, <3>1 DEF Found
    <3> QED
      BY <1>8, <2>1, <3>2
  <2>3. CASE ~(e = d /\ t = u)
    <3>1. remote'[e][t] = remote[e][t]
      BY <1>5, <2>1, <2>3
    <3> QED
      BY <1>8, <2>1, <3>1
  <2> QED
    BY <2>2, <2>3
<1> QED
  BY <1>2, <1>10, <1>14, <1>15 DEF Taken

\* Whatever comes of posting a session.
LEMMA TakenTried ==
    ASSUME Shapes, Taken, history' = history, Post
    PROVE  Taken'
<1>1. Delivering /\ Due /\ rows' = rows
  BY DEF Post
<1>2. CASE Unaware /\ Took /\ flush' = [flush EXCEPT !.posted = TRUE]
  BY <1>1, <1>2, TakenPost
<1>3. CASE ~Found /\ Spend("lost") /\ Took /\ NextDest(TRUE)
  BY <1>1, <1>3, TakenLost
<1>4. CASE (Spend("refused") \/ spent' = spent) /\ remote' = remote /\ NextDest(TRUE)
  <2>1. flush # None /\ ~AllTried
    BY <1>1 DEF Delivering
  <2>2. flush' # None /\ flush'.queue = flush.queue /\ flush'.at = flush.at + 1 /\ ~flush'.posted
    BY <1>4, <2>1, GoesOn
  <2>3. Rises
    <3>1. PICK k \in Kinds : k = "refused"
      BY KindsAre
    <3> QED
      BY <1>4, <3>1, SpendIs, SpendNot DEF Shapes, Surroundings
  <2> QED
    BY <1>1, <1>4, <2>2, <2>3, TakenNext
<1> QED
  BY <1>2, <1>3, <1>4 DEF Post

\* Every step keeps what the destinations were given within its bounds.
LEMMA TakenKept == Shapes /\ Taken /\ [Next]_vars => Taken'
<1> SUFFICES ASSUME Shapes, Taken, [Next]_vars PROVE Taken'
  OBVIOUS
<1>1. Shapes' /\ Sorts
  BY EveryStep
<1>2. CASE Idles
  BY <1>2, TakenIdle
<1>3. CASE Grown
  <2>1. Fresh(flush', rows')
    BY <1>3 DEF Grown, Fresh
  <2> QED
    BY <1>1, <1>3, <2>1, TakenGrowth DEF Grown
<1>4. CASE Begins
  BY <1>1, <1>4, TakenGrowth DEF Begins
<1>5. CASE GoesOnOrEnds
  BY <1>5, TakenQuietly, TakenTried, TakenMark, TakenDone DEF GoesOnOrEnds
<1>6. CASE Removes
  BY <1>6, TakenRemoves
<1>7. CASE Stops
  BY <1>7, TakenStops
<1> QED
  BY <1>1, <1>2, <1>3, <1>4, <1>5, <1>6, <1>7 DEF Sorts

\* These bounds are those of at-least-once delivery.
LEMMA TakenMeans == Shapes /\ Taken => PostedOnce
<1> SUFFICES ASSUME Shapes, Taken PROVE PostedOnce
  OBVIOUS
<1>1. \A d \in Dests, t \in Times : remote[d][t] <= 1 + spent.lost + spent.restart
  BY Counted, RemoteNumbers DEF Taken, Slips
<1>2. \A d \in Checking, s \in history : s.wide => remote[d][s.to] <= 1 + spent.blind
  BY DEF Taken, Long
<1> QED
  BY <1>1, <1>2 DEF PostedOnce, Taken

\* What counts as delivered is there, and every further copy comes of a lost response or a
\* restart (_flush_reading_sessions); where find_covering_sessions is asked first, a session
\* wide enough for it to find also takes a look that failed.
THEOREM Once == Spec => []PostedOnce
<1>1. Init => Shapes /\ Taken
  BY Starting, TakenAtFirst
<1>2. Shapes /\ Taken /\ [Next]_vars => Shapes' /\ Taken'
  BY EveryStep, TakenKept
<1>3. Shapes /\ Taken => PostedOnce
  BY TakenMeans
<1> QED
  BY <1>1, <1>2, <1>3, PTL DEF Spec

-----------------------------------------------------------------------------
(* What is given up. *)

Trouble == spent.refused + spent.lost

\* A destination that answers has been tried, and is pending still, only after trouble.
Tried(d) == \E i \in 1 .. (flush.at - 1) : Order[i] = d

Excused ==
    /\ \A t \in DOMAIN rows, d \in Dests \ down : rows[t].status[d] = "failed" => Trouble > 0
    /\ flush # None =>
         \A q \in flush.queue, d \in Dests :
             q.to \in DOMAIN rows /\ rows[q.to].status[d] = "pending" => q.status[d] = "pending"
    /\ flush # None /\ Row.to \in DOMAIN rows =>
         \A d \in Dests \ down :
             Tried(d) /\ rows[Row.to].status[d] = "pending" => Trouble > 0

\* Trouble is counted, and never forgotten.
LEMMA Troubled ==
    ASSUME Shapes, Rises
    PROVE  /\ Trouble \in Nat /\ Trouble' \in Nat /\ Trouble' >= Trouble
           /\ Trouble > 0 => Trouble' > 0
           /\ spent'.refused > spent.refused \/ spent'.lost > spent.lost => Trouble' > 0
<1>1. spent \in [Kinds -> Nat]
  BY DEF Shapes, Surroundings
<1>2. /\ spent.refused \in Nat /\ spent.lost \in Nat
      /\ spent'.refused \in Nat /\ spent'.lost \in Nat
      /\ spent'.refused >= spent.refused /\ spent'.lost >= spent.lost
  BY <1>1, KindsAre DEF Rises
<1> QED
  BY <1>2 DEF Trouble

\* Nothing is given up in the beginning.
LEMMA ExcusedAtFirst == Init => Excused
BY DEF Init, Excused

\* Nothing under way, and rows that are old or have not been tried.
LEMMA ExcusedGrowth ==
    ASSUME Shapes, Excused, Rises, plan' = plan, Shapes',
           \A t \in DOMAIN rows', d \in Dests :
               rows'[t].status[d] = "failed" => t \in DOMAIN rows /\ rows[t].status[d] = "failed",
           Fresh(flush', rows')
    PROVE  Excused'
<1>1. Trouble > 0 => Trouble' > 0
  BY Troubled
<1>2. down' = down
  BY DEF down
<1>3. \A t \in DOMAIN rows', d \in Dests \ down : rows'[t].status[d] = "failed" => Trouble' > 0
  BY <1>1 DEF Excused
<1>4. flush' # None =>
         \A q \in flush'.queue, d \in Dests :
             q.to \in DOMAIN rows' /\ rows'[q.to].status[d] = "pending" => q.status[d] = "pending"
  BY DEF Fresh
<1>5. flush' # None => \A d \in Dests : ~Tried(d)'
  BY DEF Fresh, Tried
<1> QED
  BY <1>2, <1>3, <1>4, <1>5 DEF Excused

\* The queue and the place in it stay.
LEMMA ExcusedStays ==
    ASSUME Shapes, Excused, Rises, plan' = plan,
           flush' # None => flush # None /\ flush'.queue = flush.queue /\ flush'.at = flush.at,
           rows' = rows \/ rows' = <<>>
    PROVE  Excused'
<1>1. Trouble > 0 => Trouble' > 0
  BY Troubled
<1>2. down' = down
  BY DEF down
<1>3. CASE rows' = <<>>
  <2>1. DOMAIN rows' = {}
    BY <1>3
  <2> QED
    BY <2>1 DEF Excused
<1>4. CASE rows' = rows
  <2>1. \A t \in DOMAIN rows, d \in Dests \ down : rows[t].status[d] = "failed" => Trouble' > 0
    BY <1>1 DEF Excused
  <2>2. flush' # None =>
          \A q \in flush'.queue, d \in Dests :
              q.to \in DOMAIN rows /\ rows[q.to].status[d] = "pending" => q.status[d] = "pending"
    BY DEF Excused
  <2>3. flush' # None => Row' = Row /\ \A d \in Dests : Tried(d)' <=> Tried(d)
    BY SameRow DEF Tried
  <2>4. flush' # None /\ Row'.to \in DOMAIN rows =>
          \A d \in Dests \ down :
              Tried(d)' /\ rows[Row'.to].status[d] = "pending" => Trouble' > 0
    BY <1>1, <2>3 DEF Excused
  <2> QED
    BY <1>2, <1>4, <2>1, <2>2, <2>4 DEF Excused
<1> QED
  BY <1>3, <1>4

\* Going on from a destination that is not pending any more, is down, or made trouble.
LEMMA ExcusedNext ==
    ASSUME Shapes, Excused, Rises, plan' = plan, flush # None, ~AllTried,
           flush' # None, flush'.queue = flush.queue, flush'.at = flush.at + 1,
           DOMAIN rows' = DOMAIN rows,
           \A e \in Dests, u \in DOMAIN rows :
               /\ rows'[u].status[e] = "pending" => rows[u].status[e] = "pending"
               /\ rows'[u].status[e] = "failed" => rows[u].status[e] = "failed",
           Row.to \in DOMAIN rows /\ rows'[Row.to].status[Dest] = "pending" /\ Dest \notin down
               => Trouble' > 0
    PROVE  Excused'
<1>1. Trouble > 0 => Trouble' > 0
  BY Troubled
<1>2. down' = down
  BY DEF down
<1>3. Row' = Row
  BY SameRow
<1>4. \A t \in DOMAIN rows', d \in Dests \ down : rows'[t].status[d] = "failed" => Trouble' > 0
  BY <1>1 DEF Excused
<1>5. \A q \in flush'.queue, d \in Dests :
         q.to \in DOMAIN rows' /\ rows'[q.to].status[d] = "pending" => q.status[d] = "pending"
  BY DEF Excused
<1>6. \A d \in Dests : Tried(d)' => Tried(d) \/ d = Dest
  <2> SUFFICES ASSUME NEW d \in Dests, Tried(d)', d # Dest PROVE Tried(d)
    OBVIOUS
  <2>1. flush.at \in Nat
    BY InHand
  <2>2. PICK i \in 1 .. flush.at : Order[i] = d
    <3>1. PICK i \in 1 .. (flush'.at - 1) : Order[i] = d
      BY DEF Tried
    <3>2. flush'.at - 1 = flush.at
      BY <2>1
    <3> QED
      BY <3>1, <3>2
  <2>3. i # flush.at
    BY <2>2 DEF Dest
  <2>4. i \in 1 .. (flush.at - 1)
    BY <2>1, <2>2, <2>3
  <2> QED
    BY <2>2, <2>4 DEF Tried
<1>7. Row.to \in DOMAIN rows =>
        \A d \in Dests \ down : Tried(d)' /\ rows'[Row.to].status[d] = "pending" => Trouble' > 0
  <2> SUFFICES ASSUME Row.to \in DOMAIN rows, NEW d \in Dests \ down, Tried(d)',
                      rows'[Row.to].status[d] = "pending"
               PROVE  Trouble' > 0
    OBVIOUS
  <2>1. CASE d = Dest
    BY <2>1
  <2>2. CASE Tried(d)
    BY <1>1, <2>2 DEF Excused
  <2> QED
    BY <1>6, <2>1, <2>2
<1> QED
  BY <1>2, <1>3, <1>4, <1>5, <1>7 DEF Excused

\* The steps that leave what is due, or settle it.
LEMMA ExcusedSettles ==
    ASSUME Shapes, Excused, PassOver \/ Disable \/ Covered \/ Mark, plan' = plan
    PROVE  Excused'
<1>1. flush # None /\ ~AllTried
  <2>1. CASE Mark
    BY <2>1, SessionAssumption DEF Mark, Shapes, DeliveryOK, AllTried
  <2>2. CASE PassOver \/ Disable \/ Covered
    BY <2>2 DEF PassOver, Disable, Covered, Delivering
  <2> QED
    BY <2>1, <2>2
<1>2. NextDest(FALSE)
  BY DEF PassOver, Disable, Covered, Mark
<1>3. flush' # None /\ flush'.queue = flush.queue /\ flush'.at = flush.at + 1
  BY <1>1, <1>2, GoesOn
<1>4. RowsOK(history, rows) /\ spent \in [Kinds -> Nat]
  BY DEF Shapes, Kept, Surroundings
<1>5. Rises
  <2>1. PICK k \in Kinds : k = "covered"
    BY KindsAre
  <2>2. Spend(k) \/ spent' = spent
    BY <2>1 DEF PassOver, Disable, Covered, Mark
  <2> QED
    BY <1>4, <2>2, SpendIs, SpendNot
<1>6. PICK d \in Dests : d = Dest
  BY <1>1, InHand
<1>7. /\ DOMAIN rows' = DOMAIN rows
      /\ \A e \in Dests, u \in DOMAIN rows :
           /\ rows'[u].status[e] = "pending" => rows[u].status[e] = "pending"
           /\ rows'[u].status[e] = "failed" => rows[u].status[e] = "failed"
      /\ Row.to \in DOMAIN rows => rows'[Row.to].status[d] # "pending"
  <2>1. CASE PassOver
    <3>1. rows' = rows /\ Row.status[d] # "pending"
      BY <1>6, <2>1 DEF PassOver, Due
    <3>2. Row \in flush.queue
      BY <1>1, InHand
    <3> QED
      BY <1>1, <3>1, <3>2 DEF Excused
  <2>2. CASE Disable \/ Covered \/ Mark
    <3>1. PICK s \in Statuses : s \in {"disabled", "delivered"} /\ MarkAs(d, s)
      BY <1>6, <2>2 DEF Disable, Covered, Mark, Statuses
    <3> QED
      BY <1>4, <3>1, MarkIs
  <2> QED
    BY <2>1, <2>2
<1> QED
  BY <1>1, <1>3, <1>5, <1>6, <1>7, ExcusedNext

\* Posting settles the session, makes trouble, or meets a destination that is down.
LEMMA ExcusedPost ==
    ASSUME Shapes, Excused, Post, plan' = plan
    PROVE  Excused'
<1>1. flush # None /\ ~AllTried /\ rows' = rows
  BY DEF Post, Delivering
<1>2. spent \in [Kinds -> Nat]
  BY DEF Shapes, Surroundings
<1>3. CASE Unaware /\ flush' = [flush EXCEPT !.posted = TRUE]
  <2>1. flush' # None /\ flush'.queue = flush.queue /\ flush'.at = flush.at
    BY <1>1, <1>3, PostedIs
  <2>2. Rises
    <3>1. PICK k \in Kinds : k = "blind"
      BY KindsAre
    <3>2. Spend(k) \/ spent' = spent
      BY <1>3, <3>1 DEF Unaware
    <3> QED
      BY <1>2, <3>2, SpendIs, SpendNot
  <2> QED
    BY <1>1, <2>1, <2>2, ExcusedStays
<1>4. CASE (Spend("lost") \/ Spend("refused") \/ (Dest \in down /\ spent' = spent)) /\ NextDest(TRUE)
  <2>1. flush' # None /\ flush'.queue = flush.queue /\ flush'.at = flush.at + 1
    BY <1>1, <1>4, GoesOn
  <2>2. /\ Rises
        /\ \/ spent'.refused > spent.refused
           \/ spent'.lost > spent.lost
           \/ Dest \in down
    <3>1. CASE Spend("lost")
      <4>1. PICK k \in Kinds : k = "lost"
        BY KindsAre
      <4>2. Rises /\ spent'[k] = spent[k] + 1 /\ spent[k] \in Nat
        BY <1>2, <3>1, <4>1, SpendIs
      <4> QED
        BY <4>1, <4>2
    <3>2. CASE Spend("refused")
      <4>1. PICK k \in Kinds : k = "refused"
        BY KindsAre
      <4>2. Rises /\ spent'[k] = spent[k] + 1 /\ spent[k] \in Nat
        BY <1>2, <3>2, <4>1, SpendIs
      <4> QED
        BY <4>1, <4>2
    <3>3. CASE Dest \in down /\ spent' = spent
      BY <1>2, <3>3, SpendNot
    <3> QED
      BY <1>4, <3>1, <3>2, <3>3
  <2>3. Dest \notin down => Trouble' > 0
    BY <2>2, Troubled
  <2> QED
    BY <1>1, <2>1, <2>2, <2>3, ExcusedNext
<1> QED
  BY <1>3, <1>4 DEF Post

\* A row is given up where the one destination or the other made trouble, or is down.
LEMMA ExcusedDone ==
    ASSUME Shapes, Excused, RowDone, plan' = plan
    PROVE  Excused'
<1>1. /\ flush # None /\ AllTried /\ flush' = Delivery(flush.queue \ {Row})
      /\ spent' = spent /\ Row \in flush.queue /\ flush.at \in Nat
  BY InHand DEF RowDone
<1>2. flush' = None \/ (flush'.at = 1 /\ ~flush'.posted /\ flush'.queue = flush.queue \ {Row})
  BY <1>1, RestIs
<1>3. RowsOK(history, rows)
  BY DEF Shapes, Kept
<1>4. /\ DOMAIN rows' = DOMAIN rows
      /\ \A t \in DOMAIN rows, e \in Dests :
           \/ rows'[t].status[e] = rows[t].status[e]
           \/ t = Row.to /\ rows[t].status[e] = "pending" /\ rows'[t].status[e] = "failed"
  BY <1>3, GiveUpIs DEF RowDone
<1>5. \A d \in Dests : Tried(d)
  <2> SUFFICES ASSUME NEW d \in Dests PROVE Tried(d)
    OBVIOUS
  <2>1. Len(Order) \in Nat /\ DOMAIN Order = 1 .. Len(Order) /\ flush.at > Len(Order)
    BY <1>1, SessionAssumption DEF AllTried
  <2>2. PICK i \in 1 .. Len(Order) : Order[i] = d
    BY <2>1 DEF Dests, ToSet
  <2>3. i \in 1 .. (flush.at - 1)
    BY <1>1, <2>1, <2>2
  <2> QED
    BY <2>2, <2>3 DEF Tried
<1>6. Trouble' = Trouble /\ down' = down
  BY <1>1 DEF Trouble, down
<1>7. \A t \in DOMAIN rows', d \in Dests \ down : rows'[t].status[d] = "failed" => Trouble > 0
  <2> SUFFICES ASSUME NEW t \in DOMAIN rows', NEW d \in Dests \ down, rows'[t].status[d] = "failed"
               PROVE  Trouble > 0
    OBVIOUS
  <2>1. CASE rows[t].status[d] = "failed"
    BY <1>4, <2>1 DEF Excused
  <2>2. CASE t = Row.to /\ rows[t].status[d] = "pending"
    BY <1>1, <1>4, <1>5, <2>2 DEF Excused
  <2> QED
    BY <1>4, <2>1, <2>2
<1>8. flush' # None =>
        \A q \in flush'.queue, d \in Dests :
            q.to \in DOMAIN rows' /\ rows'[q.to].status[d] = "pending" => q.status[d] = "pending"
  <2> SUFFICES ASSUME flush' # None, NEW q \in flush'.queue, NEW d \in Dests,
                      q.to \in DOMAIN rows', rows'[q.to].status[d] = "pending"
               PROVE  q.status[d] = "pending"
    OBVIOUS
  <2>1. q \in flush.queue
    BY <1>2
  <2>2. q.to \in DOMAIN rows /\ rows[q.to].status[d] = "pending"
    BY <1>4
  <2> QED
    BY <1>1, <2>1, <2>2 DEF Excused
<1>9. flush' # None => \A d \in Dests : ~Tried(d)'
  BY <1>2 DEF Tried
<1> QED
  BY <1>6, <1>7, <1>8, <1>9 DEF Excused

\* Every step gives up only what is excused.
LEMMA ExcusedKept == Shapes /\ Excused /\ [Next]_vars => Excused'
<1> SUFFICES ASSUME Shapes, Excused, [Next]_vars PROVE Excused'
  OBVIOUS
<1>1. Shapes' /\ Sorts
  BY EveryStep
<1>2. CASE Idles
  BY <1>2, ExcusedStays DEF Idles
<1>3. CASE Grown \/ Begins
  <2>1. New(rows, rows', history) /\ Fresh(flush', rows') /\ Rises /\ plan' = plan
    BY <1>3 DEF Grown, Begins, Grows, Fresh
  <2>2. \A t \in DOMAIN rows', d \in Dests :
          rows'[t].status[d] = "failed" => t \in DOMAIN rows /\ rows[t].status[d] = "failed"
    BY <2>1 DEF New
  <2> QED
    BY <1>1, <2>1, <2>2, ExcusedGrowth
<1>4. CASE GoesOnOrEnds
  BY <1>4, ExcusedSettles, ExcusedPost, ExcusedDone DEF GoesOnOrEnds
<1>5. CASE Removes
  BY <1>5, ExcusedStays DEF Removes
<1>6. CASE Stops
  BY <1>6, ExcusedStays DEF Stops
<1> QED
  BY <1>1, <1>2, <1>3, <1>4, <1>5, <1>6 DEF Sorts

\* So a destination that answers loses nothing to another that does not.
LEMMA ExcusedMeans == Excused => GivenUpForCause
BY DEF Excused, GivenUpForCause, Trouble

\* A destination that answers is given up on only if it refused a session or lost
\* a response itself, however long another one is away (record_reading_session_delivery_failure).
THEOREM Local == Spec => []GivenUpForCause
<1>1. Init => Shapes /\ Excused
  BY Starting, ExcusedAtFirst
<1>2. Shapes /\ Excused /\ [Next]_vars => Shapes' /\ Excused'
  BY EveryStep, ExcusedKept
<1>3. Excused => GivenUpForCause
  BY ExcusedMeans
<1> QED
  BY <1>1, <1>2, <1>3, PTL DEF Spec

-----------------------------------------------------------------------------
(* What the deliveries come to. *)

\* No step takes back what is settled, at any destination.
SettledStays ==
    [][\A t \in DOMAIN rows \cap DOMAIN rows', d \in Dests :
         rows[t].status[d] # "pending" => rows'[t].status[d] = rows[t].status[d]]_vars

\* Such a step has a destination in hand.
LEMMA AtADestination ==
    ASSUME Shapes, PassOver \/ Disable \/ Covered \/ Post \/ Mark
    PROVE  flush # None /\ ~AllTried
<1>1. CASE Mark
  BY <1>1, SessionAssumption DEF Mark, Shapes, DeliveryOK, AllTried
<1>2. CASE PassOver \/ Disable \/ Covered \/ Post
  BY <1>2 DEF PassOver, Disable, Covered, Post, Delivering
<1> QED
  BY <1>1, <1>2

\* What the steps of a delivery do to the rows.
LEMMA StepSettles ==
    ASSUME Shapes, PassOver \/ Disable \/ Covered \/ Post \/ Mark \/ RowDone
    PROVE  /\ DOMAIN rows' = DOMAIN rows
           /\ \A t \in DOMAIN rows, d \in Dests :
                rows[t].status[d] # "pending" => rows'[t].status[d] = rows[t].status[d]
<1>1. RowsOK(history, rows)
  BY DEF Shapes, Kept
<1>2. CASE PassOver \/ Post
  BY <1>2 DEF PassOver, Post
<1>3. CASE Disable \/ Covered \/ Mark
  <2>1. flush # None /\ ~AllTried
    BY <1>3, AtADestination
  <2>2. PICK d \in Dests : d = Dest
    BY <2>1, InHand
  <2>3. PICK s \in Statuses : MarkAs(d, s)
    BY <1>3, <2>2 DEF Disable, Covered, Mark, Statuses
  <2> QED
    BY <1>1, <2>3, MarkIs
<1>4. CASE RowDone
  BY <1>1, <1>4, GiveUpIs DEF RowDone
<1> QED
  BY <1>2, <1>3, <1>4

\* A session that a destination took, refused for good or does not want is not
\* offered to it again: no later pass, mark, retry or closing of another session
\* reopens it (mark_reading_session_delivered, record_reading_session_delivery_failure).
THEOREM SettledForGood == Spec => SettledStays
<1>1. ASSUME Shapes, [Next]_vars
      PROVE  \A t \in DOMAIN rows \cap DOMAIN rows', d \in Dests :
                rows[t].status[d] # "pending" => rows'[t].status[d] = rows[t].status[d]
  <2>1. Sorts
    BY <1>1, EveryStep
  <2>2. \A t \in DOMAIN rows : t \in Ends(history)
    BY <1>1 DEF Shapes, Kept, RowsOK
  <2>3. CASE Grown \/ Begins
    BY <2>2, <2>3 DEF Grown, Begins, Grows, New
  <2>4. CASE GoesOnOrEnds
    BY <1>1, <2>4, StepSettles DEF GoesOnOrEnds
  <2>5. CASE Removes
    BY <2>5 DEF Removes
  <2>6. CASE Idles \/ Stops
    BY <2>6 DEF Idles, Stops
  <2> QED
    BY <2>1, <2>3, <2>4, <2>5, <2>6 DEF Sorts
<1> QED
  BY <1>1, Inductive, PTL DEF Spec, SettledStays

\* The steps a delivery still takes, at most.
LeftOf(f) ==
    IF f = None THEN 0
    ELSE Cardinality(f.queue) * (2 * Len(Order) + 3) - 2 * f.at - (IF f.posted THEN 1 ELSE 0)

Left == LeftOf(flush)

\* Every step of a delivery brings it nearer to its end, and no other step
\* gives it more to do.
DeliveriesEnd ==
    [][ /\ Left \in Nat
        /\ flush # None => flush' = flush \/ Left' < Left
        /\ FlushStep => Left' < Left ]_vars

\* A queue that is one shorter takes one round less.
LEMMA Rounds ==
    ASSUME NEW c \in Nat, c >= 1, NEW k \in Nat
    PROVE  c * k \in Nat /\ c * k >= k /\ (c - 1) * k = c * k - k
<1>1. PICK b \in Nat : c = b + 1
  BY c - 1 \in Nat
<1>2. c * k = b * k + k /\ b * k \in Nat
  BY <1>1
<1>3. c - 1 = b
  BY <1>1
<1> QED
  BY <1>2, <1>3

\* While there is a delivery there is a step left.
LEMMA LeftIs ==
    ASSUME NEW h, NEW f, DeliveryOK(f, h)
    PROVE  LeftOf(f) \in Nat /\ (f # None => LeftOf(f) >= 1)
<1>1. CASE f = None
  BY <1>1 DEF LeftOf
<1>2. CASE f # None
  <2>1. /\ f.at \in 1 .. (Len(Order) + 1) /\ (f.posted => f.at <= Len(Order))
        /\ Cardinality(f.queue) \in 1 .. Limit /\ Len(Order) \in Nat /\ Limit \in Nat
    BY <1>2, Bounds, SessionAssumption DEF DeliveryOK
  <2>2. PICK c \in Nat : c = Cardinality(f.queue) /\ c >= 1
    BY <2>1
  <2>3. PICK l \in Nat : l = Len(Order)
    BY <2>1
  <2>4. PICK k \in Nat : k = 2 * l + 3
    BY <2>3
  <2>5. PICK a \in Int : a = f.at /\ a >= 1 /\ a <= l + 1 /\ (f.posted => a <= l)
    BY <2>1, <2>3
  <2>6. PICK p \in 0 .. 1 : p = IF f.posted THEN 1 ELSE 0
    OBVIOUS
  <2>7. a + a + p <= 2 * l + 2
    BY <2>5, <2>6
  <2>8. PICK m \in Nat : m = c * k /\ m >= k
    BY <2>2, <2>4, Rounds
  <2>9. LeftOf(f) = m - 2 * a - p
    BY <1>2, <2>2, <2>3, <2>4, <2>5, <2>6, <2>8 DEF LeftOf
  <2> QED
    BY <2>4, <2>5, <2>6, <2>7, <2>8, <2>9
<1> QED
  BY <1>1, <1>2

\* The next destination is one step nearer, even from a session just posted.
LEMMA LeftNext ==
    ASSUME Shapes, flush # None, flush' # None, flush'.queue = flush.queue,
           \/ flush'.at = flush.at + 1 /\ ~flush'.posted
           \/ flush'.at = flush.at /\ ~flush.posted /\ flush'.posted
    PROVE  LeftOf(flush') < LeftOf(flush)
<1>1. /\ flush.at \in 1 .. (Len(Order) + 1) /\ Len(Order) \in Nat
      /\ Cardinality(flush.queue) \in 1 .. Limit /\ Limit \in Nat
  BY Bounds, SessionAssumption DEF Shapes, DeliveryOK
<1>2. PICK m \in Int : m = Cardinality(flush.queue) * (2 * Len(Order) + 3)
  BY <1>1
<1>3. PICK a \in Int : a = flush.at
  BY <1>1
<1>4. LeftOf(flush) = m - 2 * a - (IF flush.posted THEN 1 ELSE 0)
  BY <1>2, <1>3 DEF LeftOf
<1>5. LeftOf(flush') = m - 2 * flush'.at - (IF flush'.posted THEN 1 ELSE 0)
  BY <1>2 DEF LeftOf
<1> QED
  BY <1>3, <1>4, <1>5

\* So is the next row, or the end.
LEMMA LeftDone ==
    ASSUME Shapes, RowDone
    PROVE  LeftOf(flush') < LeftOf(flush)
<1>1. flush # None /\ AllTried /\ flush' = Delivery(flush.queue \ {Row})
  BY DEF RowDone
<1>2. CASE flush' = None
  <2>1. LeftOf(flush) >= 1 /\ LeftOf(flush) \in Nat
    BY <1>1, LeftIs DEF Shapes
  <2> QED
    BY <1>2, <2>1 DEF LeftOf
<1>3. CASE flush' # None
  <2>1. flush'.at = 1 /\ ~flush'.posted /\ Cardinality(flush'.queue) = Cardinality(flush.queue) - 1
    BY <1>1, <1>3, RestIs
  <2>2. /\ flush.at \in 1 .. (Len(Order) + 1) /\ Len(Order) \in Nat
        /\ Cardinality(flush.queue) \in 1 .. Limit /\ Limit \in Nat
        /\ flush.posted => flush.at <= Len(Order)
    BY <1>1, Bounds, SessionAssumption DEF Shapes, DeliveryOK
  <2>3. PICK l \in Nat : l = Len(Order) /\ flush.at = l + 1 /\ ~flush.posted
    BY <1>1, <2>2 DEF AllTried
  <2>4. PICK c \in Nat : c = Cardinality(flush.queue) /\ c >= 1
    BY <2>2
  <2>5. PICK k \in Nat : k = 2 * l + 3
    OBVIOUS
  <2>6. (c - 1) * k = c * k - k /\ c * k \in Nat
    BY <2>4, <2>5, Rounds
  <2>7. PICK m \in Nat : m = c * k
    BY <2>6
  <2>8. LeftOf(flush) = m - 2 * (l + 1)
    BY <1>1, <2>3, <2>4, <2>5, <2>7 DEF LeftOf
  <2>9. LeftOf(flush') = (m - k) - 2
    BY <1>3, <2>1, <2>3, <2>4, <2>5, <2>6, <2>7 DEF LeftOf
  <2> QED
    BY <2>5, <2>8, <2>9
<1> QED
  BY <1>2, <1>3

\* Every step of a delivery is one less.
LEMMA StepLeft ==
    ASSUME Shapes, PassOver \/ Disable \/ Covered \/ Post \/ Mark \/ RowDone
    PROVE  LeftOf(flush') < LeftOf(flush)
<1>1. CASE RowDone
  BY <1>1, LeftDone
<1>2. CASE PassOver \/ Disable \/ Covered \/ Post \/ Mark
  <2>1. flush # None /\ ~AllTried
    BY <1>2, AtADestination
  <2>2. CASE \E retry \in BOOLEAN : NextDest(retry)
    BY <2>1, <2>2, GoesOn, LeftNext
  <2>3. CASE ~flush.posted /\ flush' = [flush EXCEPT !.posted = TRUE]
    BY <2>1, <2>3, PostedIs, LeftNext
  <2> QED
    BY <1>2, <2>2, <2>3 DEF PassOver, Disable, Covered, Post, Mark, Delivering
<1> QED
  BY <1>1, <1>2

\* A delivery holds the sync lock for a bounded number of steps, whatever fails
\* on the way and whatever the web routes change in between (_flush_reading_sessions).
THEOREM DeliveriesAreBounded == Spec => DeliveriesEnd
<1>1. ASSUME Shapes, [Next]_vars
      PROVE  /\ Left \in Nat
             /\ flush # None => flush' = flush \/ Left' < Left
             /\ FlushStep => Left' < Left
  <2>1. Sorts
    BY <1>1, EveryStep
  <2>2. Left \in Nat /\ (flush # None => Left >= 1)
    BY <1>1, LeftIs DEF Left, Shapes
  <2>3. CASE PassOver \/ Disable \/ Covered \/ Post \/ Mark \/ RowDone
    BY <1>1, <2>2, <2>3, StepLeft DEF Left
  <2>4. CASE flush' = flush \/ flush = None
    BY <2>2, <2>3, <2>4 DEF FlushStep
  <2>5. CASE flush' = None
    <3>1. Left' = 0
      BY <2>5 DEF Left, LeftOf
    <3> QED
      BY <2>2, <2>3, <2>4, <3>1 DEF FlushStep
  <2> QED
    BY <2>1, <2>3, <2>4, <2>5 DEF Sorts, Idles, Grown, Begins, GoesOnOrEnds, Removes, Stops
<1> QED
  BY <1>1, Inductive, PTL DEF Spec, DeliveriesEnd

\* An attempt settles the session everywhere, unless a destination failed and the
\* row is younger than what is given up.
AttemptsSettle ==
    [][RowDone /\ Row.to \in DOMAIN rows /\ (flush.retry => Row.closed <= now - RetryWindow)
         => Terminal(rows'[Row.to])]_vars

\* What was tried in this attempt without a failure is settled.
Answered ==
    flush # None /\ Row.to \in DOMAIN rows /\ ~flush.retry =>
        \A d \in Dests : Tried(d) => rows[Row.to].status[d] # "pending"

\* An attempt that begins has tried nothing.
LEMMA AnsweredFresh == Fresh(flush', rows') => Answered'
BY DEF Fresh, Answered, Tried

\* Nothing is said of a delivery that is over.
LEMMA AnsweredOver == flush' = None => Answered'
BY DEF Answered

\* The place in the delivery stays.
LEMMA AnsweredStays ==
    ASSUME Answered, flush' # None => /\ flush # None /\ flush'.queue = flush.queue
                                      /\ flush'.at = flush.at /\ flush'.retry = flush.retry,
           rows' = rows \/ rows' = <<>>
    PROVE  Answered'
<1>1. CASE flush' = None \/ rows' = <<>>
  BY <1>1 DEF Answered
<1>2. CASE flush' # None /\ rows' = rows
  <2>1. Row' = Row /\ \A d \in Dests : Tried(d)' <=> Tried(d)
    BY <1>2, SameRow DEF Tried
  <2> QED
    BY <1>2, <2>1 DEF Answered
<1> QED
  BY <1>1, <1>2

\* The destination that was in hand is settled, or it failed.
LEMMA AnsweredNext ==
    ASSUME Shapes, Answered, flush # None, ~AllTried, flush' # None, flush'.queue = flush.queue,
           flush'.at = flush.at + 1, DOMAIN rows' = DOMAIN rows,
           \A t \in DOMAIN rows, d \in Dests :
               rows[t].status[d] # "pending" => rows'[t].status[d] = rows[t].status[d],
           ~flush'.retry => /\ ~flush.retry
                            /\ Row.to \in DOMAIN rows => rows'[Row.to].status[Dest] # "pending"
    PROVE  Answered'
<1>1. Row' = Row
  BY SameRow
<1>2. SUFFICES ASSUME Row.to \in DOMAIN rows, ~flush'.retry, NEW d \in Dests, Tried(d)'
               PROVE  rows'[Row.to].status[d] # "pending"
  BY <1>1 DEF Answered
<1>3. CASE d = Dest
  BY <1>2, <1>3
<1>4. CASE d # Dest
  <2>1. flush.at \in Nat
    BY InHand
  <2>2. PICK i \in 1 .. (flush'.at - 1) : Order[i] = d
    BY <1>2 DEF Tried
  <2>3. i \in 1 .. flush.at /\ i # flush.at
    BY <1>4, <2>1, <2>2 DEF Dest
  <2>4. i \in 1 .. (flush.at - 1)
    BY <2>1, <2>3
  <2>5. Tried(d)
    BY <2>2, <2>4 DEF Tried
  <2>6. rows[Row.to].status[d] # "pending"
    BY <1>2, <2>5 DEF Answered
  <2> QED
    BY <1>2, <2>6
<1> QED
  BY <1>3, <1>4

\* The steps at one destination.
LEMMA AnsweredStep ==
    ASSUME Shapes, Excused, Answered, PassOver \/ Disable \/ Covered \/ Post \/ Mark
    PROVE  Answered'
<1>1. flush # None /\ ~AllTried
  BY AtADestination
<1>2. PICK d \in Dests : d = Dest
  BY <1>1, InHand
<1>3. /\ DOMAIN rows' = DOMAIN rows
      /\ \A t \in DOMAIN rows, e \in Dests :
           rows[t].status[e] # "pending" => rows'[t].status[e] = rows[t].status[e]
  BY StepSettles
<1>4. RowsOK(history, rows)
  BY DEF Shapes, Kept
<1>5. CASE PassOver
  <2>1. rows' = rows /\ Row.status[d] # "pending" /\ NextDest(FALSE)
    BY <1>2, <1>5 DEF PassOver, Due
  <2>2. Row \in flush.queue
    BY <1>1, InHand
  <2>3. Row.to \in DOMAIN rows => rows'[Row.to].status[d] # "pending"
    BY <1>1, <2>1, <2>2 DEF Excused
  <2>4. /\ flush' # None /\ flush'.queue = flush.queue /\ flush'.at = flush.at + 1
        /\ flush'.retry = flush.retry
    BY <1>1, <2>1, GoesOn
  <2> QED
    BY <1>1, <1>2, <1>3, <2>3, <2>4, AnsweredNext
<1>6. CASE Disable \/ Covered \/ Mark
  <2>1. PICK s \in Statuses : s # "pending" /\ MarkAs(d, s)
    BY <1>2, <1>6 DEF Disable, Covered, Mark, Statuses
  <2>2. Row.to \in DOMAIN rows => rows'[Row.to].status[d] # "pending"
    BY <1>4, <2>1, MarkIs
  <2>3. NextDest(FALSE)
    BY <1>6 DEF Disable, Covered, Mark
  <2>4. /\ flush' # None /\ flush'.queue = flush.queue /\ flush'.at = flush.at + 1
        /\ flush'.retry = flush.retry
    BY <1>1, <2>3, GoesOn
  <2> QED
    BY <1>1, <1>2, <1>3, <2>2, <2>4, AnsweredNext
<1>7. CASE Post
  <2>1. CASE NextDest(TRUE)
    <3>1. /\ flush' # None /\ flush'.queue = flush.queue /\ flush'.at = flush.at + 1
          /\ flush'.retry
      BY <1>1, <2>1, GoesOn
    <3> QED
      BY <1>1, <1>3, <3>1, AnsweredNext
  <2>2. CASE flush' = [flush EXCEPT !.posted = TRUE]
    <3>1. rows' = rows
      BY <1>7 DEF Post
    <3>2. /\ flush'.queue = flush.queue /\ flush'.at = flush.at /\ flush'.retry = flush.retry
      BY <1>1, <2>2, PostedIs
    <3> QED
      BY <1>1, <3>1, <3>2, AnsweredStays
  <2> QED
    BY <1>7, <2>1, <2>2 DEF Post
<1> QED
  BY <1>5, <1>6, <1>7

\* Every step keeps it.
LEMMA AnsweredKept == Shapes /\ Excused /\ Answered /\ [Next]_vars => Answered'
<1> SUFFICES ASSUME Shapes, Excused, Answered, [Next]_vars PROVE Answered'
  OBVIOUS
<1>1. Sorts
  BY EveryStep
<1>2. CASE Idles \/ Removes
  BY <1>2, AnsweredStays DEF Idles, Removes
<1>3. CASE Grown \/ Stops
  BY <1>3, AnsweredOver DEF Grown, Stops
<1>4. CASE Begins
  BY <1>4, AnsweredFresh DEF Begins
<1>5. CASE PassOver \/ Disable \/ Covered \/ Post \/ Mark
  BY <1>5, AnsweredStep
<1>6. CASE RowDone
  <2>1. flush # None /\ flush' = Delivery(flush.queue \ {Row})
    BY <1>6 DEF RowDone
  <2>2. flush' = None \/ flush'.at = 1
    BY <2>1, RestIs
  <2> QED
    BY <2>2 DEF Answered, Tried
<1> QED
  BY <1>1, <1>2, <1>3, <1>4, <1>5, <1>6 DEF Sorts, GoesOnOrEnds

\* At the end of an attempt every destination has been tried.
LEMMA AllAreTried ==
    ASSUME Shapes, flush # None, AllTried, NEW d \in Dests
    PROVE  Tried(d)
<1>1. /\ Len(Order) \in Nat /\ DOMAIN Order = 1 .. Len(Order)
      /\ flush.at > Len(Order) /\ flush.at \in Nat
  BY InHand, SessionAssumption DEF AllTried
<1>2. PICK i \in 1 .. Len(Order) : Order[i] = d
  BY <1>1 DEF Dests, ToSet
<1>3. i \in 1 .. (flush.at - 1)
  BY <1>1, <1>2
<1> QED
  BY <1>2, <1>3 DEF Tried

\* One attempt at a session settles it at every destination, except for a failure
\* of that very attempt on a row that is still young: no destination is left out
\* by what the other one does, and beyond the retry window there is no further
\* attempt (record_reading_session_delivery_failure).
THEOREM AttemptsAreFinal == Spec => AttemptsSettle
<1>1. Init => Shapes /\ Excused /\ Answered
  BY Starting, ExcusedAtFirst DEF Init, Answered
<1>2. Shapes /\ Excused /\ Answered /\ [Next]_vars => Shapes' /\ Excused' /\ Answered'
  BY EveryStep, ExcusedKept, AnsweredKept
<1>3. ASSUME Shapes, Answered, RowDone, Row.to \in DOMAIN rows,
             flush.retry => Row.closed <= now - RetryWindow
      PROVE  Terminal(rows'[Row.to])
  <2>1. RowsOK(history, rows) /\ flush # None /\ AllTried
    BY <1>3 DEF Shapes, Kept, RowDone
  <2>2. CASE flush.retry
    BY <1>3, <2>1, <2>2, GiveUpIs DEF RowDone
  <2>3. CASE ~flush.retry
    <3>1. rows' = rows
      BY <1>3, <2>3 DEF RowDone
    <3>2. \A d \in Dests : rows[Row.to].status[d] # "pending"
      BY <1>3, <2>1, <2>3, AllAreTried DEF Answered
    <3> QED
      BY <3>1, <3>2 DEF Terminal
  <2> QED
    BY <2>2, <2>3
<1> QED
  BY <1>1, <1>2, <1>3, PTL DEF Spec, AttemptsSettle

-----------------------------------------------------------------------------
(* Nothing that was read is lost or invented. *)

\* What a store credits, in its history and in the open session.
Credit(h, o) == Cardinality(Moments(h)) + IF o = None THEN 0 ELSE o.acc

\* No open session has more than a whole one, and the history is finite.
Whole ==
    /\ IsFiniteSet(Moments(history))
    /\ open # None => open.acc <= MaxSession

\* A session of no more than a whole one is credited with what it accumulated.
LEMMA CreditedInFull ==
    ASSUME NEW o \in Sittings, o.acc \in 1 .. (o.last - o.from), o.acc <= MaxSession
    PROVE  Duration(o) = o.acc
<1>1. o.acc \in Int /\ o.last \in Int /\ o.from \in Int /\ MaxSession \in Int
  BY Bounds DEF Sittings, Times
<1>2. PICK a \in Int : a = o.acc
  BY <1>1
<1>3. PICK x \in Int : x = o.last - o.from
  BY <1>1
<1>4. a <= x /\ a <= MaxSession
  BY <1>1, <1>2, <1>3
<1>5. /\ Min({a, x, MaxSession}) \in {a, x, MaxSession}
      /\ Min({a, x, MaxSession}) <= a
  BY ONLY <1>1, <1>2, <1>3, Min3Is
<1>6. Min({a, x, MaxSession}) = a
  BY <1>1, <1>4, <1>5
<1> QED
  BY <1>2, <1>3, <1>6 DEF Duration

\* Closing moves what the session accumulated to the history.
LEMMA ClosingCredits ==
    ASSUME NEW n \in Times, NEW h, NEW r, NEW o \in Sittings, Kept(n, h, o, r), o # None,
           o.acc <= MaxSession, IsFiniteSet(Moments(h))
    PROVE  /\ IsFiniteSet(Moments(h \cup {Entry(o)}))
           /\ Credit(h \cup {Entry(o)}, None) = Credit(h, o)
<1>1. /\ o.last \in Int /\ o.from \in Int /\ o.acc \in 1 .. (o.last - o.from)
      /\ \A s \in h : s.to <= o.from
  BY Bounds DEF Kept, OpenOK, Sittings, Times
<1>2. PICK c \in Int : c = o.acc /\ c >= 1 /\ c <= o.last - o.from
  BY <1>1
<1>3. Duration(o) = c
  BY <1>1, <1>2, CreditedInFull
<1>4. PICK a \in Int : a = o.last - c + 1
  BY <1>1, <1>2
<1>5. PICK b \in Int : b = o.last
  BY <1>1
<1>6. Entry(o).from + 1 = a /\ Entry(o).to = b
  BY <1>3, <1>4, <1>5 DEF Entry
<1>7. Moments(h \cup {Entry(o)}) = Moments(h) \cup (a .. b)
  BY <1>6 DEF Moments
<1>8. Moments(h) \cap (a .. b) = {}
  <2> SUFFICES ASSUME NEW x \in Moments(h), x \in a .. b PROVE FALSE
    OBVIOUS
  <2>1. PICK s \in h : x \in (s.from + 1) .. s.to
    BY DEF Moments
  <2>2. s.from \in Int /\ s.to \in Int /\ s.to <= o.from
    BY <1>1, Bounds DEF Kept, HistoryOK, Times
  <2>3. x \in Int /\ x <= s.to /\ x >= a
    BY <2>1, <2>2, <1>4, <1>5
  <2> QED
    BY <1>1, <1>2, <1>4, <2>2, <2>3
<1>9. IsFiniteSet(a .. b) /\ Cardinality(a .. b) = c
  <2>1. ~(a > b) /\ b - a + 1 = c
    BY <1>2, <1>4, <1>5
  <2>2. IsFiniteSet(a .. b) /\ Cardinality(a .. b) = IF a > b THEN 0 ELSE b - a + 1
    BY ONLY FS_Interval
  <2> QED
    BY <2>1, <2>2
<1> DEFINE M == Moments(h)
           I == a .. b
<1> HIDE DEF M, I
<1>10. IsFiniteSet(M) /\ IsFiniteSet(I) /\ M \cap I = {} /\ Cardinality(I) = c
  BY <1>8, <1>9 DEF M, I
<1>11. /\ IsFiniteSet(M \cup I)
       /\ Cardinality(M \cup I) = Cardinality(M) + Cardinality(I) - Cardinality(M \cap I)
  BY ONLY <1>10, FS_Union
<1>12. Cardinality(M) \in Nat /\ Cardinality({}) = 0
  BY <1>10, FS_CardinalityType, FS_EmptySet
<1>13. Cardinality(M \cup I) = Cardinality(M) + c
  <2>1. PICK i \in Nat : i = Cardinality(M)
    BY <1>12
  <2>2. Cardinality(M \cup I) = i + c - 0
    BY <1>10, <1>11, <1>12, <2>1
  <2> QED
    BY <2>1, <2>2
<1>14. Moments(h \cup {Entry(o)}) = M \cup I
  BY <1>7 DEF M, I
<1>15. Credit(h \cup {Entry(o)}, None) = Cardinality(M) + c
  <2>1. PICK k \in Int : k = Cardinality(Moments(h \cup {Entry(o)}))
    <3>1. PICK i \in Nat : i = Cardinality(M)
      BY <1>12
    <3>2. Cardinality(Moments(h \cup {Entry(o)})) = i + c
      BY <1>13, <1>14, <3>1
    <3>3. i + c \in Int
      OBVIOUS
    <3> QED
      BY <3>2, <3>3
  <2>2. Credit(h \cup {Entry(o)}, None) = k + 0
    BY <2>1 DEF Credit
  <2>3. k + 0 = k
    BY <2>1
  <2>4. k = Cardinality(M) + c
    BY ONLY <1>13, <1>14, <2>1
  <2> QED
    BY ONLY <2>2, <2>3, <2>4
<1>16. Credit(h, o) = Cardinality(M) + c
  BY <1>2 DEF Credit, M
<1> QED
  BY <1>11, <1>14, <1>15, <1>16

\* So does completing it, at once or never.
LEMMA SettlingCredits ==
    ASSUME now \in Times, NEW o, Kept(now, history, o, rows), NEW c, Settle(o, c),
           IsFiniteSet(Moments(history)), o # None => o.acc <= MaxSession
    PROVE  /\ IsFiniteSet(Moments(history')) /\ (open' # None => open'.acc <= MaxSession)
           /\ Credit(history', open') = Credit(history, o)
<1>1. CASE o # None /\ c
  <2>1. o \in Sittings
    BY <1>1 DEF Kept, OpenOK
  <2>2. PICK n \in Times : n = now
    OBVIOUS
  <2>3. Kept(n, history, o, rows) /\ o # None /\ o.acc <= MaxSession
    BY <1>1, <2>2
  <2>4. /\ IsFiniteSet(Moments(history \cup {Entry(o)}))
        /\ Credit(history \cup {Entry(o)}, None) = Credit(history, o)
    BY ONLY <2>1, <2>3, IsFiniteSet(Moments(history)), ClosingCredits
  <2>5. open' = None /\ history' = history \cup {Entry(o)}
    BY <1>1 DEF Settle
  <2> QED
    BY <2>4, <2>5
<1>2. CASE ~(o # None /\ c)
  <2>1. open' = o /\ history' = history
    BY <1>2 DEF Settle
  <2> QED
    BY <2>1
<1> QED
  BY <1>1, <1>2

\* A session begins with what the movement earned since the history's end.
LEMMA OpeningCredits ==
    ASSUME now \in Times, NEW h, HistoryOK(now, h), NEW m \in Movements, IsFiniteSet(Moments(h))
    PROVE  /\ Opened(m, h) # None => Opened(m, h).acc <= MaxSession
           /\ Credit(h, Opened(m, h)) = Credit(h, None) + Movement(m.delta, Baseline(m, h))
<1>1. PICK c \in Nat : c = Movement(m.delta, Baseline(m, h))
  BY Opening
<1>2. /\ c <= MaxSession
      /\ Opened(m, h) = None => c = 0
      /\ Opened(m, h) # None => Opened(m, h).acc = c
  BY <1>1, Opening
<1>3. Cardinality(Moments(h)) \in Nat
  BY FS_CardinalityType
<1> QED
  BY <1>1, <1>2, <1>3 DEF Credit

\* The open session's last moment is the last one heard of.
LEMMA HeardIs ==
    ASSUME NEW n \in Times, NEW h, NEW o, HistoryOK(n, h), OpenOK(n, h, o), o # None
    PROVE  /\ Later(LatestEnd(h), o.last) = o.last
           /\ LatestEnd(h \cup {Entry(o)}) = o.last
<1>1. /\ o \in Sittings /\ o.last \in Int /\ o.from \in Int /\ o.last \in 0 .. n
      /\ o.from < o.last
      /\ \A s \in h : s.to <= o.from
  BY Bounds DEF OpenOK, Sittings, Times
<1>2. n \in Nat
  BY Bounds DEF Times
<1>3. PICK b \in Int : b = o.last /\ b # None
  BY <1>1, Missings
<1>4. PICK l \in Int \cup {None} : l = LatestEnd(h)
  BY ONLY <1>2, HistoryOK(n, h), LatestIs
<1>5. l # None => l < b
  <2>1. CASE h = {}
    BY <1>4, <2>1 DEF LatestEnd
  <2>2. CASE h # {}
    <3>1. PICK S : S = {s.to : s \in h}
      OBVIOUS
    <3>2. S \in SUBSET (0 .. n) /\ S # {}
      BY <2>2, <3>1 DEF HistoryOK
    <3>3. Max(S) \in S
      BY ONLY <3>2, <1>2, Greatest
    <3>4. PICK s \in h : l = s.to
      BY <1>4, <2>2, <3>1, <3>3 DEF LatestEnd
    <3>5. s.to \in Int /\ s.to <= o.from
      BY <1>1, <1>2 DEF HistoryOK
    <3> QED
      BY <1>1, <1>3, <3>4, <3>5
  <2> QED
    BY <2>1, <2>2
<1>6. Later(l, b) = b
  <2>1. CASE l = None
    BY <2>1 DEF Later
  <2>2. CASE l # None
    <3>1. l \in Int
      BY <2>2
    <3>2. Max({l, b}) \in {l, b} /\ Max({l, b}) >= b
      BY ONLY <3>1, <1>3, MaxIs
    <3>3. Max({l, b}) = b
      BY <1>3, <1>5, <2>2, <3>1, <3>2
    <3> QED
      BY <1>3, <2>2, <3>3 DEF Later
  <2> QED
    BY <2>1, <2>2
<1>7. LatestEnd(h \cup {Entry(o)}) = b
  <2>1. PICK S : S = {s.to : s \in h \cup {Entry(o)}}
    OBVIOUS
  <2>2. Entry(o).to = b
    BY <1>3 DEF Entry
  <2>3. S \in SUBSET (0 .. n) /\ S # {} /\ b \in S
    BY <1>1, <1>3, <2>1, <2>2 DEF HistoryOK
  <2>4. Max(S) \in S /\ \A y \in S : Max(S) >= y
    BY ONLY <2>3, <1>2, Greatest
  <2>5. \A y \in S : y \in Int /\ y <= b
    <3> SUFFICES ASSUME NEW s \in h \cup {Entry(o)} PROVE s.to \in Int /\ s.to <= b
      BY <2>1
    <3>1. CASE s = Entry(o)
      BY <1>3, <2>2, <3>1
    <3>2. CASE s \in h
      <4>1. s.to \in Int /\ s.to <= o.from
        BY <1>1, <1>2, <3>2 DEF HistoryOK
      <4> QED
        BY <1>1, <1>3, <4>1
    <3> QED
      BY <3>1, <3>2
  <2>6. Max(S) = b
    <3>1. PICK x \in Int : x = Max(S)
      BY <2>4, <2>5
    <3>2. x <= b /\ x >= b
      BY <2>3, <2>4, <2>5, <3>1
    <3> QED
      BY <1>3, <3>1, <3>2
  <2> QED
    BY <2>1, <2>6 DEF LatestEnd
<1> QED
  BY <1>3, <1>4, <1>6, <1>7

\* A movement that is handed on earns its time, however the sessions are cut.
LEMMA ExtendCredits ==
    ASSUME Shapes, Whole, Extend
    PROVE  Whole' /\ Credit(history', open') = Credit(history, open) + Earned
<1>1. /\ now \in Times /\ Kept(now, history, open, rows) /\ notice # None /\ notice \in Movements
      /\ HistoryOK(now, history) /\ OpenOK(now, history, open)
  BY DEF Shapes, Clocks, Extend, Kept
<1>2. PICK m \in Movements : m = notice
  BY <1>1
<1>3. PICK n \in Times : n = now
  BY <1>1
<1>4. Cardinality(Moments(history)) \in Nat
  BY FS_CardinalityType DEF Whole
<1>5. CASE open = None
  <2>1. PICK o : o = Opened(m, history)
    OBVIOUS
  <2>2. OpenOK(now, history, o) /\ Settle(o, m.complete)
    BY <1>1, <1>2, <1>5, <2>1, Opening DEF Extend
  <2>3. Kept(now, history, o, rows)
    BY <1>1, <2>2 DEF Kept
  <2>4. /\ o # None => o.acc <= MaxSession
        /\ Credit(history, o) = Credit(history, None) + Movement(m.delta, Baseline(m, history))
    BY <1>1, <2>1, OpeningCredits DEF Whole
  <2>5. /\ IsFiniteSet(Moments(history')) /\ (open' # None => open'.acc <= MaxSession)
        /\ Credit(history', open') = Credit(history, o)
    BY <1>1, <2>2, <2>3, <2>4, SettlingCredits DEF Whole
  <2>6. Later(LatestEnd(history), None) = LatestEnd(history)
    BY DEF Later
  <2>7. Earned = Movement(m.delta, Baseline(m, history))
    BY <1>2, <1>5, <2>6 DEF Earned, Heard, Baseline
  <2> QED
    BY <1>5, <2>4, <2>5, <2>7 DEF Whole
<1>6. CASE open # None
  <2>1. PICK u \in Int : u = open.last /\ u # None
    BY <1>1, <1>6, Bounds, Missings DEF OpenOK, Sittings, Times
  <2>2. PICK b \in Int \cup {None} : b = m.base
    <3>1. Stamp \subseteq Int \cup {None}
      BY Bounds DEF Stamp, Times
    <3>2. m.base \in Int \cup {None}
      BY <3>1 DEF Movements
    <3> QED
      BY <3>2
  <2>3. /\ Later(LatestEnd(history), open.last) = open.last
        /\ LatestEnd(history \cup {Entry(open)}) = open.last
    BY <1>1, <1>6, HeardIs
  <2>4. Earned = Movement(m.delta, Later(m.base, open.last))
    BY <1>2, <1>6, <2>3 DEF Earned, Heard
  <2>5. open \in Sittings /\ open.acc <= MaxSession /\ open.acc \in Int
    BY <1>1, <1>6 DEF OpenOK, Whole, Sittings
  <2>6. CASE now <= open.last
    <3>1. history' = history /\ open' = open
      BY <1>6, <2>6 DEF Extend, store
    <3>2. PICK k \in Nat : k = now
      BY <1>1, Bounds DEF Times
    <3>3. PICK since \in Int : since = Later(b, u) /\ since >= u
      <4>1. u \in Int \cup {None} /\ u # None
        BY <2>1
      <4> QED
        BY ONLY <4>1, b \in Int \cup {None}, LaterIs
    <3>4. PICK delta \in Nat : delta = m.delta
      BY DEF Movements
    <3>5. k <= since /\ since # None /\ since \in Int \cup {None}
      BY <2>1, <2>6, <3>2, <3>3, Missings
    <3>6. Movement(delta, since) = 0
      BY ONLY <3>2, <3>5, delta \in Nat, MovementIs
    <3>7. Earned = 0
      BY <2>1, <2>2, <2>4, <3>3, <3>4, <3>6
    <3>8. Credit(history, open) \in Int
      BY <1>4, <1>6, <2>5 DEF Credit
    <3> QED
      BY <3>1, <3>7, <3>8 DEF Whole
  <2>7. CASE ~(now <= open.last) /\ Splits(m)
    <3>1. PICK h : h = history \cup {Entry(open)}
      OBVIOUS
    <3>2. Kept(n, history, open, rows) /\ open \in Sittings
      BY <1>1, <1>3, <2>5
    <3>3. IsFiniteSet(Moments(h)) /\ Credit(h, None) = Credit(history, open)
      BY <1>6, <2>5, <3>1, <3>2, ClosingCredits DEF Whole
    <3>4. PICK r : r = WithRow(rows, open)
      OBVIOUS
    <3>5. Kept(now, h, None, r)
      BY <1>1, <1>6, <2>5, <3>1, <3>4, ClosingGrows DEF Grows
    <3>6. PICK o : o = Opened(m, h)
      OBVIOUS
    <3>7. OpenOK(now, h, o)
      BY <1>1, <3>5, <3>6, Opening DEF Kept
    <3>8. Kept(now, h, o, r)
      BY <3>5, <3>7 DEF Kept
    <3>9. /\ o # None => o.acc <= MaxSession
          /\ Credit(h, o) = Credit(h, None) + Movement(m.delta, Baseline(m, h))
      BY <1>1, <3>3, <3>5, <3>6, OpeningCredits DEF Kept
    <3>10. Earned = Movement(m.delta, Baseline(m, h))
      BY <2>3, <2>4, <3>1 DEF Baseline
    <3>11. Succeed(m)
      BY <1>2, <1>6, <2>7 DEF Extend
    <3>12. CASE o # None /\ m.complete
      <4>1. open' = None /\ history' = h \cup {Entry(o)}
        BY <3>1, <3>6, <3>11, <3>12 DEF Succeed
      <4>2. o \in Sittings /\ o # None /\ o.acc <= MaxSession /\ Kept(n, h, o, r)
        BY <1>3, <3>7, <3>8, <3>9, <3>12 DEF OpenOK
      <4>3. IsFiniteSet(Moments(h \cup {Entry(o)})) /\ Credit(h \cup {Entry(o)}, None) = Credit(h, o)
        BY ONLY <3>3, <4>2, ClosingCredits
      <4> QED
        BY <3>3, <3>9, <3>10, <4>1, <4>3 DEF Whole
    <3>13. CASE ~(o # None /\ m.complete)
      <4>1. open' = o /\ history' = h
        BY <3>1, <3>6, <3>11, <3>13 DEF Succeed, Close
      <4> QED
        BY <3>3, <3>9, <3>10, <4>1 DEF Whole
    <3> QED
      BY <3>12, <3>13
  <2>8. CASE ~(now <= open.last) /\ ~Splits(m)
    <3>1. PICK o : o = Extended(m)
      OBVIOUS
    <3>2. /\ OpenOK(now, history, o) /\ o \in Sittings
          /\ o.last = now /\ o.from = open.from /\ o.acc = open.acc + Earned
      BY <1>1, <1>6, <2>4, <3>1, Extending
    <3>3. Kept(now, history, o, rows) /\ Settle(o, m.complete)
      BY <1>1, <1>2, <1>6, <2>8, <3>1, <3>2 DEF Kept, Extend
    <3>4. o # None
      BY <3>2, Missings
    <3>5. o.acc <= MaxSession
      <4>1. now \in Int /\ open.from \in Int /\ MaxSession \in Int /\ o.acc \in Int
        BY <1>1, <2>5, <3>2, Bounds DEF Sittings, Times
      <4>2. now - open.from < MaxSession
        BY <2>8, <4>1 DEF Splits
      <4>3. o.acc <= now - open.from
        BY <3>2, <3>4, <4>1 DEF OpenOK
      <4> QED
        BY <4>1, <4>2, <4>3
    <3>6. /\ IsFiniteSet(Moments(history')) /\ (open' # None => open'.acc <= MaxSession)
          /\ Credit(history', open') = Credit(history, o)
      BY <1>1, <3>3, <3>5, SettlingCredits DEF Whole
    <3>7. Earned \in Int
      <4>1. PICK k \in Nat : k = now
        BY <1>1, Bounds DEF Times
      <4>2. PICK since \in Int \cup {None} : since = Later(b, u)
        BY ONLY u \in Int, b \in Int \cup {None}, LaterIs
      <4>3. PICK delta \in Nat : delta = m.delta
        BY DEF Movements
      <4>4. Movement(delta, since) \in Nat
        BY ONLY <4>1, since \in Int \cup {None}, delta \in Nat, MovementIs
      <4> QED
        BY <2>1, <2>2, <2>4, <4>2, <4>3, <4>4
    <3>8. Credit(history, o) = Credit(history, open) + Earned
      BY <1>4, <1>6, <2>5, <3>2, <3>4, <3>7 DEF Credit
    <3> QED
      BY <3>6, <3>8 DEF Whole
  <2> QED
    BY <2>6, <2>7, <2>8
<1> QED
  BY <1>5, <1>6

\* What closes an overdue session keeps its time.
LEMMA OverdueCredits ==
    ASSUME Shapes, Whole, Overdue, Close(open), open' = None
    PROVE  Whole' /\ Credit(history', open') = Credit(history, open)
<1>1. now \in Times /\ Kept(now, history, open, rows) /\ open # None
  BY DEF Shapes, Clocks, Overdue
<1>2. open \in Sittings /\ open.acc <= MaxSession
  BY <1>1 DEF Kept, OpenOK, Whole
<1>3. PICK n \in Times : n = now
  BY <1>1
<1>4. /\ IsFiniteSet(Moments(history \cup {Entry(open)}))
      /\ Credit(history \cup {Entry(open)}, None) = Credit(history, open)
  BY <1>1, <1>2, <1>3, ClosingCredits DEF Whole
<1> QED
  BY <1>4 DEF Close, Whole

\* Only a cycle that hands a movement on ends its notice and spends nothing.
LEMMA OtherCredits ==
    ASSUME Shapes, Whole, [Next]_vars, ~Extend
    PROVE  /\ Whole' /\ ~HandedOn
           /\ book' = book => Credit(history', open') = Credit(history, open)
<1>1. CASE UNCHANGED vars
  BY <1>1 DEF vars, Whole, HandedOn
<1>2. CASE Maintain \/ FlushStart
  <2>1. ~HandedOn
    BY <1>2 DEF Maintain, FlushStart, LockFree, HandedOn
  <2>2. CASE Overdue
    <3>1. Close(open) /\ open' = None
      BY <1>2, <2>2 DEF Maintain, FlushStart, CloseOverdue
    <3> QED
      BY <2>1, <2>2, <3>1, OverdueCredits
  <2>3. CASE ~Overdue
    <3>1. history' = history /\ open' = open
      BY <1>2, <2>3 DEF Maintain, FlushStart, CloseOverdue, store
    <3> QED
      BY <2>1, <3>1 DEF Whole
  <2> QED
    BY <2>2, <2>3
<1>3. CASE RemoveMapping
  <2>1. history' = history /\ open' = None /\ notice' = notice /\ book' # book
    BY <1>3 DEF RemoveMapping
  <2> QED
    BY <2>1 DEF Whole, HandedOn
<1>4. CASE Restart
  <2>1. history' = history /\ open' = open
    BY <1>4 DEF Restart, store
  <2>2. spent'["restart"] = spent["restart"] + 1 /\ spent["restart"] \in Nat
    <3>1. PICK k \in Kinds : k = "restart"
      BY KindsAre
    <3>2. spent[k] \in Nat
      BY DEF Shapes, Surroundings
    <3> QED
      BY <1>4, <3>1, <3>2, RestartStep DEF Stops
  <2>3. spent' # spent
    BY <2>2
  <2> QED
    BY <2>1, <2>3 DEF Whole, HandedOn
<1>5. ASSUME history' = history, open' = open, notice' = notice \/ notice = None
      PROVE  /\ Whole' /\ ~HandedOn
             /\ book' = book => Credit(history', open') = Credit(history, open)
  BY <1>5 DEF Whole, HandedOn
<1>6. CASE \/ \E l \in plan.clients, reached \in SUBSET plan.clients : Notice(l, reached)
           \/ \E reached \in SUBSET plan.clients : LedElsewhere(reached)
           \/ Tick
  <2>1. history' = history /\ open' = open /\ notice = None
    BY <1>6 DEF Notice, LedElsewhere, Tick, LockFree, store
  <2> QED
    BY <1>5, <2>1
<1>7. CASE FlushStep \/ Rematch \/ (\E d \in Dests : Toggle(d)) \/ SetActive
  <2>1. history' = history /\ open' = open /\ notice' = notice
    BY <1>7 DEF FlushStep, Rematch, Toggle, SetActive, store
  <2> QED
    BY <1>5, <2>1
<1> QED
  BY <1>1, <1>2, <1>3, <1>4, <1>6, <1>7 DEF Next

\* Sessions stay within a whole one.
LEMMA WholeKept == Shapes /\ Whole /\ [Next]_vars => Whole'
BY ExtendCredits, OtherCredits

\* A movement earns the time since the last one was heard of, once, and no way to
\* cut, close, extend, complete, deliver or interrupt sessions changes that.
THEOREM TimeKept == Spec => TimeIsKept
<1>1. Init => Whole
  <2> SUFFICES ASSUME Init PROVE Whole
    OBVIOUS
  <2>1. Moments(history) = {}
    BY DEF Init, Moments
  <2> QED
    BY <2>1, FS_EmptySet DEF Init, Whole
<1>2. ASSUME Shapes, Whole, [Next]_vars
      PROVE  [book' = book => Seconds' = Seconds + IF HandedOn THEN Earned ELSE 0]_vars
  <2>1. Seconds = Credit(history, open) /\ Seconds' = Credit(history', open')
    BY DEF Seconds, Credit
  <2>2. CASE Extend
    <3>1. HandedOn
      BY <2>2 DEF Extend, HandedOn
    <3> QED
      BY <1>2, <2>1, <2>2, <3>1, ExtendCredits
  <2>3. CASE ~Extend
    <3>1. Seconds \in Int
      <4>1. Cardinality(Moments(history)) \in Nat
        BY <1>2, FS_CardinalityType DEF Whole
      <4>2. open # None => open.acc \in Int
        BY <1>2 DEF Shapes, Kept, OpenOK, Sittings
      <4> QED
        BY <4>1, <4>2 DEF Seconds
    <3> QED
      BY <1>2, <2>1, <2>3, <3>1, OtherCredits
  <2> QED
    BY <2>2, <2>3
<1> QED
  BY <1>1, <1>2, WholeKept, Inductive, PTL DEF Spec, TimeIsKept

=============================================================================

------------------------ MODULE AnnotationHubProofs ------------------------
(* What holds of the annotation hub for any devices, edits, deletions and   *)
(* faults.                                                                   *)
EXTENDS AnnotationHub, FiniteSetTheorems, TLAPS

-----------------------------------------------------------------------------
(* The shape of what the parties hold. *)

RowSet == [ver : Nat, dead : BOOLEAN, text : Nat, at : Nat,
           src : Devices \cup {"site"}, site : Nat \cup {None}]
Ack == [ver : Nat, dead : BOOLEAN]
Sent == [upload : BOOLEAN, listed : BOOLEAN, complete : BOOLEAN, entry : Content \cup {None}]
Call == [sent : Sent, live : BOOLEAN, todo : {"add", "edit", "delete"},
         text : Nat, at : Nat, ver : Nat]
Remote == [id : Nat, text : Nat, at : Nat, same : BOOLEAN]
Planned == [step : {"create", "recreate", "update", "replace", "erase", "erased", "uploaded"},
            text : Nat, id : Nat \cup {None}]
Rows == [step : {"rows"}, changed : BOOLEAN, gone : BOOLEAN]
Notes == [step : {"notes", "noted"}, gone : BOOLEAN, text : Nat \cup {None}, ver : Nat]
Waits == [step : {"idle", "pull", "card"}]

\* No version is confirmed that the row has not reached.
Confirmed(r, a) ==
    /\ r \in RowSet \cup {None}
    /\ a \in [Parties -> Ack]
    /\ \A p \in Parties : a[p].ver > 0 => r # None /\ a[p].ver <= r.ver

DevicesOK ==
    /\ have \in [Devices -> Content \cup {None}]
    /\ mark \in [Devices -> Nat \cup {Never}]
    /\ sig \in [Devices -> {{}} \cup {{x} : x \in Content \cup {None}}]
    /\ owed \in [Devices -> {{}} \cup {{x} : x \in Content \cup {None}}]
    /\ call \in [Devices -> Call \cup {None}]

\* An answer under way is of a version the row has reached, and was asked with an
\* entry if one was uploaded.
CallsSound ==
    \A d \in Devices : call[d] # None =>
        /\ row # None /\ call[d].ver <= row.ver
        /\ call[d].sent.upload => call[d].sent.entry # None

CycleOK ==
    /\ cycle \in Planned \cup Rows \cup Notes \cup Waits
    /\ cycle.step \in {"create", "recreate", "update", "replace", "erase", "erased", "uploaded"}
           => row # None
    /\ cycle.step \in {"notes", "noted"} /\ cycle.ver > 0 => row # None /\ cycle.ver <= row.ver

WebOK ==
    /\ made \in Nat
    /\ remote \in Remote \cup {None}
    /\ remote # None => remote.id \in 1 .. made
    /\ card \in Nat \cup {None}

ReaderOK ==
    /\ {twin, erased} \subseteq BOOLEAN
    /\ lapses \subseteq {"open", "torn", "stale"}
    /\ clock \in Nat
    /\ clock = 0 => cycle = Idle
    /\ spent \in [Kinds -> Nat]

IInv == Confirmed(row, acks) /\ DevicesOK /\ CallsSound /\ CycleOK /\ WebOK /\ ReaderOK

-----------------------------------------------------------------------------
(* The hub's operations on a row and its acknowledgements. *)

\* What is missing is not in these sets.
LEMMA Missings ==
    /\ None \notin RowSet /\ None \notin Content /\ None \notin Remote /\ None \notin Nat
    /\ "site" \notin Devices /\ "card" \notin Devices
    /\ {"site", "card"} \subseteq Parties /\ Devices \subseteq Parties
BY NoneAssumption, HubAssumption DEF RowSet, Remote, Parties, Spokes

\* The higher of two numbers is one of them.
LEMMA HigherIs ==
    ASSUME NEW i \in Int, NEW j \in Int
    PROVE  /\ Higher(i, j) \in {i, j} /\ Higher(i, j) >= i /\ Higher(i, j) >= j
BY DEF Higher

\* An acknowledgement of a version that the row has reached, which may set the
\* mark of a confirmed deletion.
LEMMA AckedIs ==
    ASSUME NEW a \in [Parties -> Ack], NEW p \in Parties, NEW v \in Nat
    PROVE  /\ Acked(a, p, v) \in [Parties -> Ack]
           /\ Acked(a, p, v)[p].ver = Higher(a[p].ver, v)
           /\ \A q \in Parties : q # p => Acked(a, p, v)[q] = a[q]
           /\ \A q \in Parties : Acked(a, p, v)[q].dead = a[q].dead
<1>1. a[p] \in Ack /\ a[p].ver \in Nat
  BY DEF Ack
<1>2. Higher(a[p].ver, v) \in Nat
  BY <1>1, HigherIs
<1>3. [a[p] EXCEPT !.ver = Higher(@, v)] \in Ack
  BY <1>1, <1>2 DEF Ack
<1> QED
  BY <1>1, <1>3 DEF Acked, Ack

\* What is confirmed may be raised to any version that the row has.
LEMMA AckKeeps ==
    ASSUME NEW r \in RowSet, NEW a, Confirmed(r, a), NEW p \in Parties,
           NEW v \in Nat, v <= r.ver
    PROVE  Confirmed(r, Acked(a, p, v))
<1>1. a \in [Parties -> Ack] /\ r.ver \in Nat /\ r # None
  BY Missings DEF Confirmed, RowSet
<1>2. a[p].ver \in Nat /\ (a[p].ver > 0 => a[p].ver <= r.ver)
  BY <1>1 DEF Confirmed, Ack
<1>3. Higher(a[p].ver, v) <= r.ver
  BY <1>1, <1>2 DEF Higher
<1>4. \A q \in Parties : Acked(a, p, v)[q].ver <= r.ver \/ Acked(a, p, v)[q] = a[q]
  <2>1. Acked(a, p, v)[p].ver <= r.ver
    BY <1>1, <1>3, AckedIs
  <2>2. \A q \in Parties : q # p => Acked(a, p, v)[q] = a[q]
    BY <1>1, AckedIs
  <2> QED
    BY <2>1, <2>2
<1>5. Acked(a, p, v) \in [Parties -> Ack]
  BY <1>1, AckedIs
<1> QED
  BY <1>1, <1>4, <1>5 DEF Confirmed

\* A row that was written has reached all that was confirmed of the old one.
LEMMA GrowKeeps ==
    ASSUME NEW r, NEW a, Confirmed(r, a), NEW s \in RowSet, r # None => s.ver >= r.ver
    PROVE  Confirmed(s, a)
<1>1. s # None /\ s.ver \in Nat
  BY Missings DEF RowSet
<1>2. ASSUME NEW p \in Parties, a[p].ver > 0 PROVE a[p].ver <= s.ver
  <2>1. r # None /\ a[p].ver <= r.ver /\ r \in RowSet /\ a[p].ver \in Nat
    BY <1>2 DEF Confirmed, Ack
  <2>2. r.ver \in Nat /\ s.ver >= r.ver
    BY <2>1 DEF RowSet
  <2> QED
    BY <1>1, <2>1, <2>2
<1> QED
  BY <1>1, <1>2 DEF Confirmed

\* Marking a deletion as confirmed, or not, confirms no version.
LEMMA DeadAckKeeps ==
    ASSUME NEW r, NEW a, Confirmed(r, a), NEW p \in Parties, NEW b \in BOOLEAN
    PROVE  /\ Confirmed(r, [a EXCEPT ![p].dead = b])
           /\ \A q \in Parties : [a EXCEPT ![p].dead = b][q].ver = a[q].ver
<1>1. a \in [Parties -> Ack]
  BY DEF Confirmed
<1>2. [a[p] EXCEPT !.dead = b] \in Ack /\ [a[p] EXCEPT !.dead = b].ver = a[p].ver
  BY <1>1 DEF Ack
<1>3. /\ [a EXCEPT ![p].dead = b] \in [Parties -> Ack]
      /\ \A q \in Parties : [a EXCEPT ![p].dead = b][q].ver = a[q].ver
  BY <1>1, <1>2 DEF Ack
<1> QED
  BY <1>1, <1>3 DEF Confirmed

\* What an operation on the hub makes of a row: a row that is there stays, with
\* its version going up and its id at Grimmory as it was.
Grows(r, s) ==
    r # None => s # None /\ s.ver >= r.ver /\ s.site = r.site

\* A row that is written has the next version, and keeps tombstone and id.
LEMMA WrittenIs ==
    ASSUME NEW r \in RowSet, NEW p \in Devices \cup {"site"}, NEW text \in Nat, NEW at \in Nat
    PROVE  /\ Written(r, p, text, at) \in RowSet
           /\ Written(r, p, text, at).ver = r.ver + 1
           /\ Written(r, p, text, at).dead = r.dead
           /\ Written(r, p, text, at).src = p
           /\ Written(r, p, text, at).site = r.site
<1>1. /\ r = [ver |-> r.ver, dead |-> r.dead, text |-> r.text, at |-> r.at, src |-> r.src, site |-> r.site]
      /\ r.ver \in Nat /\ r.dead \in BOOLEAN /\ r.site \in Nat \cup {None}
  BY DEF RowSet
<1>2. Written(r, p, text, at) = [ver |-> r.ver + 1, dead |-> r.dead, text |-> text, at |-> at,
                                 src |-> p, site |-> r.site]
  <2>1. SUFFICES ASSUME NEW x, x = [r EXCEPT !.ver = @ + 1, !.text = text, !.at = at, !.src = p]
                 PROVE  x = [ver |-> r.ver + 1, dead |-> r.dead, text |-> text, at |-> at,
                             src |-> p, site |-> r.site]
    BY DEF Written
  <2> QED
    BY <1>1, <2>1
<1>3. r.ver + 1 \in Nat
  BY <1>1
<1> QED
  BY <1>1, <1>2, <1>3 DEF RowSet

\* A new row has version 1 and no tombstone.
LEMMA NewRowIs ==
    ASSUME NEW p \in Devices \cup {"site"}, NEW text \in Nat, NEW at \in Nat,
           NEW site \in Nat \cup {None}
    PROVE  /\ NewRow(p, text, at, site) \in RowSet
           /\ NewRow(p, text, at, site).ver = 1 /\ ~NewRow(p, text, at, site).dead
           /\ NewRow(p, text, at, site).src = p /\ NewRow(p, text, at, site).site = site
BY DEF NewRow, RowSet

\* A tombstone is a version of its own, which its author has confirmed.
LEMMA TombstonedIs ==
    ASSUME NEW h, h.row \in RowSet, Confirmed(h.row, h.acks), NEW p \in Parties
    PROVE  /\ Confirmed(Tombstoned(h, p).row, Tombstoned(h, p).acks)
           /\ Tombstoned(h, p).row \in RowSet
           /\ Tombstoned(h, p).row.dead
           /\ Grows(h.row, Tombstoned(h, p).row)
           /\ Tombstoned(h, p).row.src = h.row.src
           /\ \A q \in Parties : q # p => Tombstoned(h, p).acks[q] = h.acks[q]
<1> DEFINE r == [h.row EXCEPT !.dead = TRUE, !.ver = @ + 1]
           a == Acked(h.acks, p, h.row.ver + 1)
           b == [a EXCEPT ![p].dead = TRUE]
<1> DEFINE g == h.row
<1>g. g \in RowSet
  OBVIOUS
<1>0. /\ r \in RowSet /\ r.dead /\ r.ver = g.ver + 1 /\ r.site = g.site
      /\ r.src = g.src /\ g.ver \in Nat
  <2> HIDE DEF g
  <2> SUFFICES ASSUME NEW x, x = [g EXCEPT !.dead = TRUE, !.ver = @ + 1]
               PROVE /\ x \in RowSet /\ x.dead /\ x.ver = g.ver + 1 /\ x.site = g.site
                     /\ x.src = g.src /\ g.ver \in Nat
    BY DEF g
  <2>1. /\ g = [ver |-> g.ver, dead |-> g.dead, text |-> g.text, at |-> g.at, src |-> g.src, site |-> g.site]
        /\ g.ver \in Nat /\ g.text \in Nat /\ g.at \in Nat /\ g.site \in Nat \cup {None}
        /\ g.src \in Devices \cup {"site"}
    BY <1>g DEF RowSet
  <2>2. x = [ver |-> g.ver + 1, dead |-> TRUE, text |-> g.text, at |-> g.at, src |-> g.src, site |-> g.site]
    BY <2>1
  <2>3. g.ver + 1 \in Nat
    BY <2>1
  <2> QED
    BY <2>1, <2>2, <2>3 DEF RowSet
<1>1. /\ r \in RowSet /\ r.dead /\ r.ver = h.row.ver + 1 /\ r.site = h.row.site
      /\ r.src = h.row.src /\ h.row.ver \in Nat
  BY <1>0
<1>2. Confirmed(r, h.acks)
  <2>1. h.row # None => r.ver >= h.row.ver
    BY <1>1
  <2> HIDE DEF r, g
  <2> QED
    BY <1>1, <2>1, GrowKeeps
<1> HIDE DEF r
<1>3. Confirmed(r, a)
  BY <1>1, <1>2, AckKeeps
<1>4. \A q \in Parties : q # p => a[q] = h.acks[q]
  BY <1>1, AckedIs DEF Confirmed
<1> HIDE DEF a
<1>5. Confirmed(r, b)
  BY <1>3, DeadAckKeeps
<1>6. \A q \in Parties : q # p => b[q] = h.acks[q]
  BY <1>3, <1>4 DEF Confirmed
<1> HIDE DEF b
<1>7. Tombstoned(h, p).row = r /\ Tombstoned(h, p).acks = b
  BY DEF Tombstoned, r, b, a
<1>8. r # None
  BY <1>1, Missings
<1> QED
  BY <1>1, <1>5, <1>6, <1>7, <1>8 DEF Grows

\* An upload writes the row or not; only a device that has confirmed the deletion
\* lifts a tombstone, and nobody but the device itself is taken to know the row.
LEMMA UploadIs ==
    ASSUME NEW h, Confirmed(h.row, h.acks), NEW d \in Devices, NEW e \in Content
    PROVE  /\ Confirmed(Upload(h, d, e).row, Upload(h, d, e).acks)
           /\ Grows(h.row, Upload(h, d, e).row)
           /\ h.row # None /\ h.row.dead /\ ~h.acks[d].dead => Upload(h, d, e).row = h.row
           /\ h.row # None /\ ~h.row.dead => ~Upload(h, d, e).row.dead
           /\ Upload(h, d, e).row # None
           /\ h.row = None => ~Upload(h, d, e).row.dead /\ Upload(h, d, e).row.site = None
           /\ Upload(h, d, e).row.src # d => h.row # None /\ Upload(h, d, e).row.src = h.row.src
           /\ \A q \in Parties : q # d => Upload(h, d, e).acks[q] = h.acks[q]
<1>d. d \in Parties /\ h.acks \in [Parties -> Ack] /\ e.text \in Nat /\ e.at \in Nat
  BY Missings DEF Confirmed, Content
<1>1. CASE h.row = None
  <2> DEFINE r == NewRow(d, e.text, e.at, None)
  <2>1. r \in RowSet /\ r.ver = 1 /\ ~r.dead /\ r.src = d /\ r.site = None
    BY <1>d, NewRowIs
  <2> HIDE DEF r
  <2>2. Confirmed(r, h.acks)
    BY <1>1, <2>1, GrowKeeps
  <2>3. Confirmed(r, Acked(h.acks, d, 1))
    BY <1>d, <2>1, <2>2, AckKeeps
  <2>4. \A q \in Parties : q # d => Acked(h.acks, d, 1)[q] = h.acks[q]
    BY <1>d, AckedIs
  <2>5. Upload(h, d, e).row = r /\ Upload(h, d, e).acks = Acked(h.acks, d, 1)
    BY <1>1 DEF Upload, r
  <2> QED
    BY <1>1, <2>1, <2>3, <2>4, <2>5, Missings DEF Grows
<1>2. CASE h.row # None /\ h.row.dead /\ ~h.acks[d].dead
  <2>1. Upload(h, d, e) = h
    BY <1>2 DEF Upload
  <2>2. h.row \in RowSet /\ h.row.ver \in Nat
    BY <1>2 DEF Confirmed, RowSet
  <2> QED
    BY <1>2, <2>1, <2>2 DEF Grows
<1>3. CASE h.row # None /\ h.row.dead /\ h.acks[d].dead
  <2>1. h.row \in RowSet /\ h.row.ver \in Nat
    BY <1>3 DEF Confirmed, RowSet
  <2> DEFINE w == Written(h.row, d, e.text, e.at)
  <2>2. w \in RowSet /\ w.ver = h.row.ver + 1 /\ w.src = d /\ w.site = h.row.site /\ w.dead = h.row.dead
    <3>1. PICK r0 : r0 = h.row
      OBVIOUS
    <3>2. PICK text : text = e.text
      OBVIOUS
    <3>3. PICK at : at = e.at
      OBVIOUS
    <3>4. r0 \in RowSet /\ d \in Devices \cup {"site"} /\ text \in Nat /\ at \in Nat
      BY <1>d, <2>1, <3>1, <3>2, <3>3
    <3>5. /\ Written(r0, d, text, at) \in RowSet /\ Written(r0, d, text, at).ver = r0.ver + 1
          /\ Written(r0, d, text, at).dead = r0.dead /\ Written(r0, d, text, at).src = d
          /\ Written(r0, d, text, at).site = r0.site
      BY ONLY <3>4, WrittenIs
    <3> QED
      BY <3>1, <3>2, <3>3, <3>5
  <2> HIDE DEF w
  <2> DEFINE r == [w EXCEPT !.dead = FALSE]
             a == [h.acks EXCEPT ![d] = [ver |-> h.row.ver + 1, dead |-> FALSE]]
  <2>3. r \in RowSet /\ r.ver = h.row.ver + 1 /\ r.src = d /\ r.site = h.row.site /\ ~r.dead
    BY <2>2 DEF RowSet
  <2> HIDE DEF r
  <2>4. Confirmed(r, h.acks)
    BY <1>3, <2>1, <2>3, GrowKeeps
  <2>5. [ver |-> h.row.ver + 1, dead |-> FALSE] \in Ack
    BY <2>1 DEF Ack
  <2>6. a \in [Parties -> Ack] /\ \A q \in Parties : q # d => a[q] = h.acks[q]
    BY <1>d, <2>5
  <2>7. a[d].ver <= r.ver
    BY <1>d, <2>1, <2>3
  <2>8. Confirmed(r, a)
    BY <2>3, <2>4, <2>6, <2>7, Missings DEF Confirmed
  <2> HIDE DEF a
  <2>9. Upload(h, d, e).row = r /\ Upload(h, d, e).acks = a
    BY <1>3 DEF Upload, r, w, a
  <2> QED
    BY <1>3, <2>1, <2>3, <2>6, <2>8, <2>9, Missings DEF Grows
<1>4. CASE h.row # None /\ ~h.row.dead
  <2>1. h.row \in RowSet /\ h.row.ver \in Nat
    BY <1>4 DEF Confirmed, RowSet
  <2> DEFINE w == Written(h.row, d, e.text, e.at)
             r == IF (h.row.text # e.text \/ h.row.at # e.at) /\ e.at >= h.row.at THEN w ELSE h.row
  <2>2. w \in RowSet /\ w.ver = h.row.ver + 1 /\ w.src = d /\ w.site = h.row.site /\ w.dead = h.row.dead
    <3>1. PICK r0 : r0 = h.row
      OBVIOUS
    <3>2. PICK text : text = e.text
      OBVIOUS
    <3>3. PICK at : at = e.at
      OBVIOUS
    <3>4. r0 \in RowSet /\ d \in Devices \cup {"site"} /\ text \in Nat /\ at \in Nat
      BY <1>d, <2>1, <3>1, <3>2, <3>3
    <3>5. /\ Written(r0, d, text, at) \in RowSet /\ Written(r0, d, text, at).ver = r0.ver + 1
          /\ Written(r0, d, text, at).dead = r0.dead /\ Written(r0, d, text, at).src = d
          /\ Written(r0, d, text, at).site = r0.site
      BY ONLY <3>4, WrittenIs
    <3> QED
      BY <3>1, <3>2, <3>3, <3>5
  <2> HIDE DEF w
  <2>3. r \in {w, h.row}
    OBVIOUS
  <2>4. Upload(h, d, e).row = r /\ Upload(h, d, e).acks = Acked(h.acks, d, r.ver)
    BY <1>4 DEF Upload, r, w
  <2> HIDE DEF r
  <2>5. /\ r \in RowSet /\ r.ver \in Nat /\ r.ver >= h.row.ver /\ r.site = h.row.site /\ ~r.dead
        /\ r.src # d => r.src = h.row.src
    BY <1>4, <2>1, <2>2, <2>3
  <2>6. Confirmed(r, h.acks)
    BY <1>4, <2>5, GrowKeeps
  <2>7. r.ver <= r.ver
    BY <2>5
  <2>8. Confirmed(r, Acked(h.acks, d, r.ver))
    BY <1>d, <2>5, <2>6, <2>7, AckKeeps
  <2>9. \A q \in Parties : q # d => Acked(h.acks, d, r.ver)[q] = h.acks[q]
    BY <1>d, <2>5, AckedIs
  <2> QED
    BY <1>4, <2>4, <2>5, <2>8, <2>9, Missings DEF Grows
<1> QED
  BY <1>1, <1>2, <1>3, <1>4

\* The row is merged with what Grimmory lists: it is made, written or left alone,
\* and a tombstone is neither lifted nor made while Grimmory lists the highlight.
LEMMA MergedIs ==
    ASSUME NEW h, Confirmed(h.row, h.acks), NEW got \in Remote \cup {None}
    PROVE  /\ Confirmed(Merged(h, got).row, Merged(h, got).acks)
           /\ h.row # None => Merged(h, got).row # None /\ Merged(h, got).row.ver >= h.row.ver
           /\ h.row # None /\ h.row.dead => Merged(h, got).row = h.row
           /\ got # None /\ (h.row # None => ~h.row.dead) => ~Merged(h, got).row.dead
           /\ got = None => \/ Merged(h, got) = h
                            \/ h.row # None /\ ~h.row.dead /\ h.row.site # None
           /\ Merged(h, got).row # None => \/ Merged(h, got).row.src = "site"
                                           \/ h.row # None /\ Merged(h, got).row.src = h.row.src
           /\ \A q \in Devices : Merged(h, got).acks[q] = h.acks[q]
<1>d. "site" \in Parties /\ h.acks \in [Parties -> Ack] /\ \A q \in Devices : q \in Parties /\ q # "site"
  BY Missings DEF Confirmed
<1>g. got # None => got.text \in Nat /\ got.at \in Nat /\ got.id \in Nat /\ got.id \in Nat \cup {None}
  BY DEF Remote
<1>p. PICK p \in Devices \cup {"site"} : p = "site"
  OBVIOUS
<1>1. CASE got # None /\ h.row = None
  <2> DEFINE r == NewRow("site", got.text, got.at, got.id)
             a == Acked(h.acks, "site", 1)
  <2>1. r \in RowSet /\ r.ver = 1 /\ ~r.dead /\ r.src = "site"
    <3>1. /\ NewRow(p, got.text, got.at, got.id) \in RowSet
          /\ NewRow(p, got.text, got.at, got.id).ver = 1 /\ ~NewRow(p, got.text, got.at, got.id).dead
          /\ NewRow(p, got.text, got.at, got.id).src = p
      BY <1>1, <1>g, <1>p, NewRowIs
    <3> QED
      BY <3>1, <1>p
  <2>5. Merged(h, got).row = r /\ Merged(h, got).acks = a
    BY <1>1 DEF Merged
  <2> HIDE DEF r
  <2>2. Confirmed(r, h.acks)
    BY <1>1, <2>1, GrowKeeps
  <2>3. Confirmed(r, a)
    BY <1>d, <2>1, <2>2, AckKeeps
  <2>4. \A q \in Devices : a[q] = h.acks[q]
    BY <1>d, AckedIs
  <2> HIDE DEF a
  <2> QED
    BY <1>1, <2>1, <2>3, <2>4, <2>5
<1>2. CASE h.row # None /\ h.row.dead
  <2>1. Merged(h, got) = h
    BY <1>2 DEF Merged
  <2>2. h.row \in RowSet /\ h.row.ver \in Nat
    BY <1>2 DEF Confirmed, RowSet
  <2> QED
    BY <1>2, <2>1, <2>2
<1>3. CASE got # None /\ h.row # None /\ ~h.row.dead
  <2>1. h.row \in RowSet /\ h.row.ver \in Nat
    BY <1>3 DEF Confirmed, RowSet
  <2> DEFINE w == Written(h.row, "site", got.text, got.at)
  <2>2. /\ w \in RowSet /\ w.ver = h.row.ver + 1 /\ w.dead = h.row.dead /\ w.src = "site"
        /\ w.site = h.row.site
    <3> DEFINE v == Written(h.row, p, got.text, got.at)
    <3>0. got.text \in Nat /\ got.at \in Nat /\ p \in Devices \cup {"site"} /\ h.row \in RowSet
      BY <1>3, <1>g, <1>p, <2>1
    <3>1. /\ v \in RowSet /\ v.ver = h.row.ver + 1 /\ v.dead = h.row.dead /\ v.src = p
          /\ v.site = h.row.site
      <4> DEFINE x == h.row
                 t == got.text
                 u == got.at
      <4>1. x \in RowSet /\ t \in Nat /\ u \in Nat
        BY <3>0
      <4>2. x.ver = h.row.ver /\ x.dead = h.row.dead /\ x.site = h.row.site /\ v = Written(x, p, t, u)
        OBVIOUS
      <4> HIDE DEF x, t, u, v
      <4>3. /\ Written(x, p, t, u) \in RowSet /\ Written(x, p, t, u).ver = x.ver + 1
            /\ Written(x, p, t, u).dead = x.dead /\ Written(x, p, t, u).src = p
            /\ Written(x, p, t, u).site = x.site
        <5>1. p \in Devices \cup {"site"} /\ x \in RowSet /\ t \in Nat /\ u \in Nat
          BY <3>0, <4>1
        <5> QED
          BY ONLY <5>1, WrittenIs
      <4> QED
        BY <4>2, <4>3
    <3> QED
      BY <3>1, <1>p
  <2> HIDE DEF w
  <2> DEFINE r == IF h.row.text # got.text THEN w ELSE h.row
  <2>3. r \in {w, h.row}
    OBVIOUS
  <2> DEFINE s == [r EXCEPT !.site = got.id]
             a == Acked(h.acks, "site", r.ver)
  <2>4. Merged(h, got).row = s /\ Merged(h, got).acks = a
    BY <1>3 DEF Merged, w
  <2> HIDE DEF r
  <2>5. /\ r \in RowSet /\ r.ver \in Nat /\ r.ver >= h.row.ver /\ ~r.dead
        /\ r.src = "site" \/ r.src = h.row.src
    BY <1>3, <2>1, <2>2, <2>3
  <2>6. s \in RowSet /\ s.ver = r.ver /\ s.dead = r.dead /\ s.src = r.src
    BY <1>3, <1>g, <2>5 DEF RowSet
  <2> HIDE DEF s
  <2>7. Confirmed(s, h.acks)
    BY <1>3, <2>5, <2>6, GrowKeeps
  <2>8. r.ver <= s.ver
    BY <2>5, <2>6
  <2>9. Confirmed(s, a)
    BY <1>d, <2>5, <2>6, <2>7, <2>8, AckKeeps
  <2>10. \A q \in Devices : a[q] = h.acks[q]
    BY <1>d, <2>5, AckedIs
  <2> HIDE DEF a
  <2> QED
    BY <1>3, <2>4, <2>5, <2>6, <2>9, <2>10, Missings
<1>4. CASE got = None /\ h.row # None /\ ~h.row.dead /\ h.row.site # None
  <2>1. Merged(h, got) = Tombstoned(h, "site") /\ h.row \in RowSet
    BY <1>4 DEF Merged, Confirmed
  <2>2. /\ Confirmed(Tombstoned(h, "site").row, Tombstoned(h, "site").acks)
        /\ Tombstoned(h, "site").row \in RowSet
        /\ Grows(h.row, Tombstoned(h, "site").row)
        /\ Tombstoned(h, "site").row.src = h.row.src
        /\ \A q \in Parties : q # "site" => Tombstoned(h, "site").acks[q] = h.acks[q]
    BY <1>d, <2>1, TombstonedIs
  <2> QED
    BY <1>4, <1>d, <2>1, <2>2 DEF Grows
<1>5. CASE got = None /\ ~(h.row # None /\ ~h.row.dead /\ h.row.site # None)
  <2>1. Merged(h, got) = h
    BY <1>5 DEF Merged
  <2>2. h.row # None => h.row \in RowSet /\ h.row.ver \in Nat
    BY DEF Confirmed, RowSet
  <2> QED
    BY <1>5, <2>1, <2>2
<1> QED
  BY <1>1, <1>2, <1>3, <1>4, <1>5

Given == [row |-> row, acks |-> acks]

\* What an exchange does to the row: a changed entry is uploaded, or a key is
\* missing, or nothing.
LEMMA ServedIs ==
    ASSUME IInv, NEW d \in Devices, NEW mode \in Modes, NEW e \in Content \cup {None}
    PROVE  LET sent == Prepared(d, mode, e) IN
           /\ sent \in Sent /\ sent.entry = e
           /\ sent.upload => e # None /\ e.same /\ Served(d, sent) = Upload(Given, d, e)
           /\ ~sent.upload =>
                 \/ Served(d, sent) = Given
                 \/ /\ Served(d, sent) = Tombstoned(Given, d)
                    /\ row # None /\ ~row.dead
                    /\ e = None \/ ~e.same
                    /\ row.src = d \/ acks[d].ver > 0
<1> DEFINE sent == Prepared(d, mode, e)
<1>1. sent \in Sent /\ sent.entry = e
  BY DEF Prepared, Keyed, Sent
<1>2. sent.upload => e # None /\ e.same /\ sent.listed
  BY DEF Prepared, Keyed
<1>3. sent.listed <=> e # None /\ e.same
  BY DEF Prepared, Keyed
<1> HIDE DEF sent
<1>4. sent.upload => Served(d, sent) = Upload(Given, d, e)
  BY <1>1, <1>2 DEF Served, Missing, Given
<1>5. Given.row = row /\ Given.acks = acks
  BY DEF Given
<1>6. ~sent.upload => Served(d, sent) = IF Missing(Given, d, sent) THEN Tombstoned(Given, d) ELSE Given
  BY DEF Served, Given
<1>7. Missing(Given, d, sent) =>
        /\ ~sent.listed /\ row # None /\ ~row.dead
        /\ row.src = d \/ acks[d].ver > 0
  BY <1>5 DEF Missing
<1> QED
  BY <1>1, <1>2, <1>3, <1>4, <1>6, <1>7 DEF sent

\* What an exchange reads is an entry or none: the book's, or the file's that is
\* owed.
LEMMA ReadIs ==
    ASSUME IInv, NEW d \in Devices, NEW mode, NEW e \in Read(d, mode)
    PROVE  /\ e \in Content \cup {None}
           /\ e = have[d] \/ (mode = "snapshot" /\ e \in owed[d])
<1>1. e = have[d] \/ (mode = "snapshot" /\ e \in owed[d])
  BY DEF Read
<1>2. have[d] \in Content \cup {None} /\ owed[d] \in {{}} \cup {{x} : x \in Content \cup {None}}
  BY DEF IInv, DevicesOK
<1> QED
  BY <1>1, <1>2

-----------------------------------------------------------------------------
(* What is held keeps its shape. *)

\* The count of one kind of event goes up.
LEMMA SpendIs ==
    ASSUME NEW k \in Kinds, spent \in [Kinds -> Nat], Spend(k)
    PROVE  spent' \in [Kinds -> Nat]
<1>1. spent[k] + 1 \in Nat
  OBVIOUS
<1> QED
  BY <1>1 DEF Spend

\* The kinds that the actions spend.
LEMMA KindsAre ==
    {"edits", "deletes", "sweeps", "closes", "moves", "lost", "refused", "stuck", "restart"} \subseteq Kinds
BY DEF Kinds, Faults

\* The row is there for whoever counts on it.
LEMMA RowStands ==
    ASSUME IInv, row' \in RowSet \cup {None}, row # None => row' # None /\ row'.ver >= row.ver
    PROVE  /\ UNCHANGED <<have, call>> => CallsSound'
           /\ UNCHANGED cycle => CycleOK'
<1>1. row # None => row.ver \in Nat /\ row'.ver \in Nat
  BY DEF IInv, Confirmed, RowSet
<1>2. \A d \in Devices : call[d] # None => call[d].ver \in Nat
  BY DEF IInv, DevicesOK, Call
<1>3. ASSUME UNCHANGED <<have, call>> PROVE CallsSound'
  BY <1>1, <1>2, <1>3 DEF IInv, CallsSound
<1>4. ASSUME UNCHANGED cycle PROVE CycleOK'
  <2>1. cycle.step \in {"notes", "noted"} => cycle.ver \in Nat
    BY DEF IInv, CycleOK, Planned, Rows, Notes, Waits
  <2> QED
    BY <1>1, <1>4, <2>1 DEF IInv, CycleOK
<1> QED
  BY <1>3, <1>4

\* An entry changes on a device that waits for no answer.
LEMMA EntryKeeps ==
    ASSUME IInv, NEW d \in Devices, call[d] = None, NEW e \in Content \cup {None},
           have' = [have EXCEPT ![d] = e], UNCHANGED <<row, mark, sig, owed, call>>
    PROVE  DevicesOK' /\ CallsSound'
<1>1. have' \in [Devices -> Content \cup {None}] /\ \A f \in Devices : f # d => have'[f] = have[f]
  BY DEF IInv, DevicesOK
<1> QED
  BY <1>1 DEF IInv, DevicesOK, CallsSound

\* An entry with another text stays where it was found.
LEMMA EntryIs ==
    ASSUME NEW e \in Content, NEW t \in Nat, NEW u \in Nat
    PROVE  /\ [e EXCEPT !.text = t, !.at = u] \in Content
           /\ [e EXCEPT !.text = t, !.at = u].same = e.same
<1> SUFFICES ASSUME NEW x, x = [e EXCEPT !.text = t, !.at = u]
             PROVE  x \in Content /\ x.same = e.same
  OBVIOUS
<1>1. e = [text |-> e.text, at |-> e.at, same |-> e.same] /\ e.same \in BOOLEAN
  BY DEF Content
<1>2. x = [text |-> t, at |-> u, same |-> e.same]
  BY <1>1
<1> QED
  BY <1>1, <1>2 DEF Content

\* An annotation at Grimmory keeps its id and its place when its text changes.
LEMMA RemoteIs ==
    ASSUME NEW e \in Remote, NEW t \in Nat, NEW u \in Nat
    PROVE  /\ [e EXCEPT !.text = t, !.at = u] \in Remote
           /\ [e EXCEPT !.text = t, !.at = u].id = e.id
           /\ [e EXCEPT !.text = t, !.at = u].same = e.same
<1> SUFFICES ASSUME NEW x, x = [e EXCEPT !.text = t, !.at = u]
             PROVE  x \in Remote /\ x.id = e.id /\ x.same = e.same
  OBVIOUS
<1>1. e = [id |-> e.id, text |-> e.text, at |-> e.at, same |-> e.same] /\ e.id \in Nat /\ e.same \in BOOLEAN
  BY DEF Remote
<1>2. x = [id |-> e.id, text |-> t, at |-> u, same |-> e.same]
  BY <1>1
<1> QED
  BY <1>1, <1>2 DEF Remote

\* The reader makes, edits and removes the highlight.
LEMMA ReaderKeeps ==
    ASSUME IInv, Reader
    PROVE  IInv'
<1>c. clock \in Nat /\ clock + 1 \in Nat /\ 2 * (clock + 1) \in Nat /\ clock + 1 # 0
  BY DEF IInv, ReaderOK
<1>k. {"edits", "deletes", "closes", "moves"} \subseteq Kinds
  BY KindsAre
<1>s. spent \in [Kinds -> Nat]
  BY DEF IInv, ReaderOK
<1>1. ASSUME UNCHANGED <<row, acks>> PROVE Confirmed(row, acks)'
  BY <1>1 DEF IInv, Confirmed
<1>2. ASSUME UNCHANGED <<row, cycle>> PROVE CycleOK'
  BY <1>2 DEF IInv, CycleOK
<1>3. ASSUME UNCHANGED <<cycle, twin, lapses>>, clock' \in {clock, clock + 1}, erased' \in BOOLEAN,
             spent' \in [Kinds -> Nat]
      PROVE  ReaderOK'
  BY <1>c, <1>3 DEF IInv, ReaderOK
<1>4. ASSUME UNCHANGED <<made, remote, card>> PROVE WebOK'
  BY <1>4 DEF IInv, WebOK
<1>5. ASSUME UNCHANGED <<have, mark, sig, owed, call, row>> PROVE DevicesOK' /\ CallsSound'
  BY <1>5 DEF IInv, DevicesOK, CallsSound
<1>6. erased \in BOOLEAN
  BY DEF IInv, ReaderOK
<1>7. ASSUME NEW d \in Devices, CreateOnDevice(d) PROVE IInv'
  <2>1. Entry(1, 2) \in Content
    BY DEF Entry, Content
  <2>2. DevicesOK' /\ CallsSound'
    BY <1>7, <2>1, EntryKeeps DEF CreateOnDevice, hub
  <2> QED
    BY <1>7, <1>1, <1>2, <1>3, <1>4, <1>6, <1>s, <2>2 DEF CreateOnDevice, hub, web, Acts, IInv
<1>8. ASSUME NEW d \in Devices, EditOnDevice(d) PROVE IInv'
  <2>1. have[d] \in Content /\ clock' = clock + 1
    BY <1>8 DEF EditOnDevice, Acts, IInv, DevicesOK
  <2>2. [have[d] EXCEPT !.text = clock', !.at = 2 * clock'] \in Content
    <3>1. PICK x \in Content, t \in Nat, u \in Nat : t = clock' /\ u = 2 * clock' /\ x = have[d]
      BY <1>c, <2>1
    <3>2. [x EXCEPT !.text = t, !.at = u] \in Content /\ [x EXCEPT !.text = t, !.at = u].same = x.same
      BY ONLY x \in Content, t \in Nat, u \in Nat, EntryIs, Zenon
    <3> QED
      BY <3>1, <3>2
  <2>3. have' = [have EXCEPT ![d] = [have[d] EXCEPT !.text = clock', !.at = 2 * clock']]
    BY <1>8 DEF EditOnDevice
  <2>4. DevicesOK' /\ CallsSound'
    BY <1>8, <2>2, <2>3, EntryKeeps DEF EditOnDevice, hub
  <2>5. spent' \in [Kinds -> Nat]
    BY <1>8, <1>k, <1>s, SpendIs DEF EditOnDevice
  <2> QED
    BY <1>8, <1>1, <1>2, <1>3, <1>4, <1>6, <2>4, <2>5 DEF EditOnDevice, hub, web, Acts, IInv
<1>9. ASSUME NEW d \in Devices, DeleteOnDevice(d) PROVE IInv'
  <2>4. DevicesOK' /\ CallsSound'
    BY <1>9, EntryKeeps DEF DeleteOnDevice, hub
  <2>5. spent' \in [Kinds -> Nat]
    BY <1>9, <1>k, <1>s, SpendIs DEF DeleteOnDevice
  <2> QED
    BY <1>9, <1>1, <1>2, <1>3, <1>4, <2>4, <2>5 DEF DeleteOnDevice, hub, web, Acts, IInv
<1>10. ASSUME CreateOnSite PROVE IInv'
  <2>0. PICK same \in BOOLEAN : remote' = [id |-> 1, text |-> 1, at |-> 2, same |-> same]
    BY <1>10 DEF CreateOnSite
  <2>1. remote' \in Remote /\ remote'.id = 1
    BY <2>0 DEF Remote
  <2>2. WebOK'
    BY <1>10, <2>1 DEF CreateOnSite, WebOK, IInv
  <2> QED
    BY <1>10, <1>1, <1>2, <1>3, <1>5, <1>6, <1>s, <2>2 DEF CreateOnSite, hub, device, Acts, IInv
<1>11. ASSUME EditOnSite PROVE IInv'
  <2>1. remote \in Remote /\ clock' = clock + 1
    BY <1>11 DEF EditOnSite, Acts, IInv, WebOK
  <2>2. remote' \in Remote /\ remote'.id = remote.id
    <3>1. PICK x \in Remote, t \in Nat, u \in Nat : t = clock' /\ u = 2 * clock' /\ x = remote
      BY <1>c, <2>1
    <3>2. /\ [x EXCEPT !.text = t, !.at = u] \in Remote
          /\ [x EXCEPT !.text = t, !.at = u].id = x.id
          /\ [x EXCEPT !.text = t, !.at = u].same = x.same
      BY ONLY x \in Remote, t \in Nat, u \in Nat, RemoteIs, Zenon
    <3>3. remote' = [x EXCEPT !.text = t, !.at = u]
      BY <1>11, <3>1 DEF EditOnSite
    <3> QED
      BY <3>1, <3>2, <3>3
  <2>3. WebOK'
    BY <1>11, <2>1, <2>2, Missings DEF EditOnSite, WebOK, IInv
  <2>5. spent' \in [Kinds -> Nat]
    BY <1>11, <1>k, <1>s, SpendIs DEF EditOnSite
  <2> QED
    BY <1>11, <1>1, <1>2, <1>3, <1>5, <1>6, <2>3, <2>5 DEF EditOnSite, hub, device, Acts, IInv
<1>12. ASSUME DeleteOnSite PROVE IInv'
  <2>3. WebOK'
    BY <1>12 DEF DeleteOnSite, WebOK, IInv
  <2>5. spent' \in [Kinds -> Nat]
    BY <1>12, <1>k, <1>s, SpendIs DEF DeleteOnSite
  <2> QED
    BY <1>12, <1>1, <1>2, <1>3, <1>5, <2>3, <2>5 DEF DeleteOnSite, hub, device, Acts, IInv
<1>13. ASSUME NEW d \in Devices, Close(d) PROVE IInv'
  <2>1. have[d] \in Content \cup {None} /\ UNCHANGED <<row, have, mark, sig, call>>
    BY <1>13 DEF Close, hub, IInv, DevicesOK
  <2>2. owed' \in [Devices -> {{}} \cup {{x} : x \in Content \cup {None}}]
    BY <1>13, <2>1 DEF Close, IInv, DevicesOK
  <2>4. DevicesOK' /\ CallsSound'
    BY <2>1, <2>2 DEF IInv, DevicesOK, CallsSound
  <2>5. spent' \in [Kinds -> Nat]
    BY <1>13, <1>k, <1>s, SpendIs DEF Close
  <2> QED
    BY <1>13, <1>1, <1>2, <1>3, <1>4, <1>6, <2>4, <2>5 DEF Close, hub, web, reader, IInv
<1>14. ASSUME Moved PROVE IInv'
  <2>1. remote \in Remote /\ remote # None /\ remote' = [remote EXCEPT !.same = FALSE]
    BY <1>14 DEF Moved, IInv, WebOK
  <2>2. remote' \in Remote /\ remote'.id = remote.id
    BY <2>1 DEF Remote
  <2>3. WebOK'
    BY <1>14, <2>1, <2>2 DEF Moved, WebOK, IInv
  <2>5. spent' \in [Kinds -> Nat]
    BY <1>14, <1>k, <1>s, SpendIs DEF Moved
  <2> QED
    BY <1>14, <1>1, <1>2, <1>3, <1>5, <1>6, <2>3, <2>5 DEF Moved, hub, device, reader, IInv
<1> QED
  BY <1>7, <1>8, <1>9, <1>10, <1>11, <1>12, <1>13, <1>14 DEF Reader

\* What an exchange, its answer and its acknowledgement leave alone.
LEMMA DeviceLeaves ==
    ASSUME IInv, UNCHANGED <<web, cycle, reader>>, spent' \in [Kinds -> Nat], twin' \in BOOLEAN,
           lapses' \subseteq lapses \cup {"stale"}
    PROVE  WebOK' /\ ReaderOK'
BY DEF IInv, WebOK, ReaderOK, web, reader

\* Watermark and signature after an exchange.
LEMMA CommitIs ==
    ASSUME IInv, NEW d \in Devices, NEW sent \in Sent, sent.upload => sent.entry # None,
           Commit(d, sent)
    PROVE  /\ mark' \in [Devices -> Nat \cup {Never}]
           /\ sig' \in [Devices -> {{}} \cup {{x} : x \in Content \cup {None}}]
<1>1. /\ sent.entry \in Content \cup {None} /\ (sent.entry # None => sent.entry.at \in Nat)
      /\ mark[d] \in Nat \cup {Never}
  BY DEF IInv, DevicesOK, Content, Sent
<1>2. mark[d] \in Int /\ \A n \in Nat : Higher(mark[d], n) \in Nat \cup {Never}
  BY <1>1 DEF Higher, Never
<1>3. {sent.entry} \in {{}} \cup {{x} : x \in Content \cup {None}}
  BY <1>1
<1>4. mark \in [Devices -> Nat \cup {Never}]
      /\ sig \in [Devices -> {{}} \cup {{x} : x \in Content \cup {None}}]
  BY DEF IInv, DevicesOK
<1>5. (IF sent.upload THEN Higher(mark[d], sent.entry.at) ELSE Higher(mark[d], 0)) \in Nat \cup {Never}
  BY <1>1, <1>2
<1>6. mark' \in [Devices -> Nat \cup {Never}]
  BY <1>4, <1>5 DEF Commit
<1>7. sig' \in [Devices -> {{}} \cup {{x} : x \in Content \cup {None}}]
  BY <1>3, <1>4 DEF Commit
<1> QED
  BY <1>6, <1>7

\* What a device is told: a deletion of a tombstone only, an edit only of what it
\* confirmed once.
LEMMA DeltaIs ==
    ASSUME NEW h, NEW d, Delta(h, d) # "nothing"
    PROVE  /\ Delta(h, d) \in {"add", "edit", "delete"}
           /\ h.row # None
           /\ Delta(h, d) = "delete" => h.row.dead
           /\ Delta(h, d) = "edit" => h.acks[d].ver # 0
BY DEF Delta

\* The hub after an exchange.
LEMMA ServedKeeps ==
    ASSUME IInv, NEW d \in Devices, NEW mode \in Modes, NEW e \in Content \cup {None}
    PROVE  LET h == Served(d, Prepared(d, mode, e)) IN
           /\ Confirmed(h.row, h.acks) /\ Grows(row, h.row)
           /\ \A q \in Parties : q # d => h.acks[q] = acks[q]
<1> DEFINE sent == Prepared(d, mode, e)
           h == Served(d, sent)
<1>1. Given.row = row /\ Given.acks = acks /\ Confirmed(Given.row, Given.acks) /\ d \in Parties
  BY Missings DEF Given, IInv
<1>2. ASSUME sent.upload PROVE /\ Confirmed(h.row, h.acks) /\ Grows(row, h.row)
                               /\ \A q \in Parties : q # d => h.acks[q] = acks[q]
  <2>1. e \in Content /\ h = Upload(Given, d, e)
    BY <1>2, ServedIs
  <2> HIDE DEF h
  <2> QED
    BY <1>1, <2>1, UploadIs
<1>3. ASSUME ~sent.upload, h = Given
      PROVE  /\ Confirmed(h.row, h.acks) /\ Grows(row, h.row)
             /\ \A q \in Parties : q # d => h.acks[q] = acks[q]
  <2>1. row # None => row.ver \in Nat
    BY DEF IInv, Confirmed, RowSet
  <2> HIDE DEF h
  <2> QED
    BY <1>1, <1>3, <2>1 DEF Grows
<1>4. ASSUME h = Tombstoned(Given, d), row # None
      PROVE  /\ Confirmed(h.row, h.acks) /\ Grows(row, h.row)
             /\ \A q \in Parties : q # d => h.acks[q] = acks[q]
  <2>1. Given.row \in RowSet
    BY <1>1, <1>4 DEF Confirmed
  <2> HIDE DEF h
  <2> QED
    BY <1>1, <1>4, <2>1, TombstonedIs
<1> QED
  BY <1>2, <1>3, <1>4, ServedIs

\* The answer of an exchange, or its loss.
LEMMA ExchangeKeeps ==
    ASSUME IInv, NEW d \in Devices, NEW mode \in Modes, Exchange(d, mode)
    PROVE  IInv'
<1>e. PICK e \in Read(d, mode) :
        /\ row' = Served(d, Prepared(d, mode, e)).row /\ acks' = Served(d, Prepared(d, mode, e)).acks
        /\ lapses' = With("stale", Stale(d, e))
        /\ \/ /\ IF mode = "sweep" THEN Spend("sweeps") ELSE UNCHANGED spent
              /\ Answered(d, mode, Prepared(d, mode, e), Served(d, Prepared(d, mode, e)))
           \/ Spend("lost") /\ UNCHANGED <<call, mark, sig, owed>>
  BY DEF Exchange
<1>f. e \in Content \cup {None}
  BY ReadIs
<1> DEFINE sent == Prepared(d, mode, e)
           h == Served(d, sent)
<1>1. /\ call[d] = None /\ row' = h.row /\ acks' = h.acks
      /\ UNCHANGED <<twin, have, web, cycle, reader>>
      /\ \/ /\ IF mode = "sweep" THEN Spend("sweeps") ELSE UNCHANGED spent
            /\ Answered(d, mode, sent, h)
         \/ Spend("lost") /\ UNCHANGED <<call, mark, sig, owed>>
  BY <1>e DEF Exchange
<1>2. sent \in Sent /\ (sent.upload => sent.entry # None)
  BY <1>f, ServedIs
<1>3. Confirmed(h.row, h.acks) /\ Grows(row, h.row)
  BY <1>f, ServedKeeps
<1>o. owed \in [Devices -> {{}} \cup {{x} : x \in Content \cup {None}}]
  BY DEF IInv, DevicesOK
<1> HIDE DEF sent, h
<1>4. Confirmed(row, acks)'
  BY <1>1, <1>3 DEF Confirmed
<1>5. row' \in RowSet \cup {None} /\ (row # None => row' # None /\ row'.ver >= row.ver)
  BY <1>1, <1>3 DEF Confirmed, Grows
<1>6. spent' \in [Kinds -> Nat] /\ twin' \in BOOLEAN
  <2>1. spent \in [Kinds -> Nat] /\ twin' \in BOOLEAN
    BY <1>1 DEF IInv, ReaderOK
  <2> QED
    BY <1>1, <2>1, SpendIs, KindsAre
<1>7. WebOK' /\ ReaderOK'
  <2>1. lapses' \subseteq lapses \cup {"stale"}
    BY <1>e DEF With
  <2> QED
    BY <1>1, <1>6, <2>1, DeviceLeaves
<1>8. CycleOK'
  BY <1>1, <1>5, RowStands
<1>9. CASE Answered(d, mode, sent, h)
  <2>1. CASE Delta(h, d) = "nothing" \/ mode = "snapshot"
    <3>1. /\ Commit(d, sent) /\ UNCHANGED call
          /\ owed' = IF mode = "snapshot" THEN [owed EXCEPT ![d] = {}] ELSE owed
      BY <1>9, <2>1 DEF Answered
    <3>o. owed' \in [Devices -> {{}} \cup {{x} : x \in Content \cup {None}}]
      BY <1>o, <3>1
    <3>2. /\ mark' \in [Devices -> Nat \cup {Never}]
          /\ sig' \in [Devices -> {{}} \cup {{x} : x \in Content \cup {None}}]
      BY <1>2, <3>1, CommitIs
    <3>3. CallsSound'
      BY <1>1, <1>5, <3>1, RowStands
    <3>4. DevicesOK'
      BY <1>1, <3>1, <3>2, <3>o DEF IInv, DevicesOK
    <3> QED
      BY <1>4, <1>7, <1>8, <3>3, <3>4 DEF IInv
  <2>2. CASE ~(Delta(h, d) = "nothing" \/ mode = "snapshot")
    <3> DEFINE c == [sent |-> sent, live |-> mode = "live", todo |-> Delta(h, d),
                     text |-> h.row.text, at |-> h.row.at, ver |-> h.row.ver]
    <3>1. call' = [call EXCEPT ![d] = c] /\ UNCHANGED <<mark, sig, owed>>
      BY <1>9, <2>2 DEF Answered
    <3>2. h.row # None /\ Delta(h, d) \in {"add", "edit", "delete"}
      BY <2>2, DeltaIs
    <3>3. h.row.text \in Nat /\ h.row.at \in Nat /\ h.row.ver \in Nat
      BY <1>3, <3>2 DEF Confirmed, RowSet
    <3>4. (mode = "live") \in BOOLEAN
      OBVIOUS
    <3>5. c \in Call /\ c.ver = row'.ver /\ c.sent = sent
      BY <1>1, <1>2, <3>2, <3>3, <3>4 DEF Call
    <3> HIDE DEF c
    <3>6. DevicesOK'
      BY <1>1, <3>1, <3>5 DEF IInv, DevicesOK
    <3>7. \A f \in Devices : f # d => call'[f] = call[f]
      BY <3>1 DEF IInv, DevicesOK
    <3>8. call'[d] = c
      BY <3>1 DEF IInv, DevicesOK
    <3>9. row' # None /\ row'.ver \in Nat /\ have' = have
      BY <1>1, <3>2, <3>3
    <3>10. \A f \in Devices : call[f] # None =>
              /\ call[f].ver \in Nat /\ row # None /\ row.ver \in Nat /\ call[f].ver <= row.ver
              /\ call[f].sent.upload => call[f].sent.entry # None
      BY DEF IInv, CallsSound, DevicesOK, Call, Confirmed, RowSet
    <3>11. ASSUME NEW f \in Devices, call'[f] # None
           PROVE  call'[f].ver <= row'.ver /\ (call'[f].sent.upload => call'[f].sent.entry # None)
      <4>1. CASE f = d
        BY <1>2, <3>5, <3>8, <3>9, <4>1
      <4>2. CASE f # d
        BY <1>5, <3>7, <3>9, <3>10, <3>11, <4>2
      <4> QED
        BY <4>1, <4>2
    <3>12. CallsSound'
      BY <3>9, <3>11 DEF CallsSound
    <3> QED
      BY <1>4, <1>7, <1>8, <3>6, <3>12 DEF IInv
  <2> QED
    BY <2>1, <2>2
<1>10. CASE UNCHANGED <<call, mark, sig, owed>>
  <2>1. CallsSound'
    BY <1>1, <1>5, <1>10, RowStands
  <2>2. DevicesOK'
    BY <1>1, <1>10 DEF IInv, DevicesOK
  <2> QED
    BY <1>4, <1>7, <1>8, <2>1, <2>2 DEF IInv
<1> QED
  BY <1>1, <1>9, <1>10

\* A device makes an entry, or none, of what it is told.
LEMMA AppliedIs ==
    ASSUME NEW d \in Devices, have[d] \in Content \cup {None}, NEW c \in Call
    PROVE  Applied(d, c) \in Content \cup {None}
<1>1. c.text \in Nat /\ c.at \in Nat
  BY DEF Call
<1> DEFINE received == [text |-> c.text, at |-> c.at, same |-> TRUE]
           new == [received EXCEPT !.same = d \notin Repairing]
           edited == [have[d] EXCEPT !.text = c.text, !.at = c.at]
<1>2. received \in Content
  BY <1>1 DEF Content
<1>3. new \in Content
  <2>1. (d \notin Repairing) \in BOOLEAN
    OBVIOUS
  <2> HIDE DEF received
  <2> QED
    BY <1>2, <2>1 DEF Content
<1>4. have[d] # None => edited \in Content
  <2>1. SUFFICES ASSUME have[d] # None PROVE edited \in Content
    OBVIOUS
  <2>2. PICK x \in Content, t \in Nat, u \in Nat : t = c.text /\ u = c.at /\ x = have[d]
    BY <1>1, <2>1
  <2>3. [x EXCEPT !.text = t, !.at = u] \in Content /\ [x EXCEPT !.text = t, !.at = u].same = x.same
    BY ONLY x \in Content, t \in Nat, u \in Nat, EntryIs, Zenon
  <2>4. edited = [x EXCEPT !.text = t, !.at = u]
    BY <2>2
  <2> QED
    BY <2>3, <2>4
<1>5. Applied(d, c) \in {None, received, new, have[d]} \/ (have[d] # None /\ Applied(d, c) = edited)
  BY DEF Applied
<1> QED
  BY <1>2, <1>3, <1>4, <1>5

\* A closed book's file has what the book has.
LEMMA FiledIs ==
    ASSUME IInv, NEW d \in Devices, have[d] \in Content \cup {None}, NEW c \in Call, Filed(d, c)
    PROVE  owed' \in [Devices -> {{}} \cup {{x} : x \in Content \cup {None}}]
<1>1. owed \in [Devices -> {{}} \cup {{x} : x \in Content \cup {None}}]
  BY DEF IInv, DevicesOK
<1>a. Applied(d, c) \in Content \cup {None}
  BY AppliedIs
<1>2. PICK e \in Content \cup {None} : e = Applied(d, c)
  BY <1>a
<1>3. owed' = owed \/ owed' = [owed EXCEPT ![d] = {e}]
  BY <1>2 DEF Filed
<1> QED
  BY <1>1, <1>3

\* The answer of an exchange is of a version the row has reached.
LEMMA ConfirmIs ==
    ASSUME IInv, NEW d \in Devices, call[d] # None, Confirm(d, call[d])
    PROVE  /\ Confirmed(row, acks')
           /\ \A q \in Parties : q # d => acks'[q] = acks[q]
<1> DEFINE c == call[d]
<1>1. /\ c \in Call /\ c.ver \in Nat /\ row # None /\ row \in RowSet /\ c.ver <= row.ver
      /\ d \in Parties /\ Confirmed(row, acks) /\ acks \in [Parties -> Ack]
  BY Missings DEF IInv, CallsSound, DevicesOK, Call, Confirmed
<1>2. CASE c.todo = "delete"
  <2>1. acks' = [acks EXCEPT ![d].dead = TRUE]
    BY <1>2 DEF Confirm
  <2>2. TRUE \in BOOLEAN
    OBVIOUS
  <2> QED
    BY <1>1, <2>1, <2>2, DeadAckKeeps
<1>3. CASE c.todo # "delete"
  <2>1. acks' = Acked(acks, d, c.ver)
    BY <1>3 DEF Confirm
  <2> HIDE DEF c
  <2> QED
    BY <1>1, <2>1, AckKeeps, AckedIs
<1> QED
  BY <1>2, <1>3

\* The answer has been dealt with, entry and all.
LEMMA AnsweredKeeps ==
    ASSUME IInv, NEW d \in Devices, NEW e \in Content \cup {None},
           have' = [have EXCEPT ![d] = e], Done(d), UNCHANGED row
    PROVE  /\ CallsSound'
           /\ have' \in [Devices -> Content \cup {None}]
           /\ call' \in [Devices -> Call \cup {None}]
<1>1. /\ have' \in [Devices -> Content \cup {None}]
      /\ call' \in [Devices -> Call \cup {None}]
      /\ call'[d] = None
      /\ \A f \in Devices : f # d => have'[f] = have[f] /\ call'[f] = call[f]
  BY DEF IInv, DevicesOK, Done
<1> QED
  BY <1>1 DEF IInv, CallsSound

\* An answer applied and acknowledged.
LEMMA FinishKeeps ==
    ASSUME IInv, NEW d \in Devices, Finish(d)
    PROVE  IInv'
<1> DEFINE c == call[d]
<1>1. c # None /\ c \in Call /\ c.sent \in Sent /\ (c.sent.upload => c.sent.entry # None)
  BY DEF Finish, IInv, DevicesOK, CallsSound, Call
<1>2. Confirmed(row, acks')
  BY <1>1, ConfirmIs DEF Finish
<1>3. /\ mark' \in [Devices -> Nat \cup {Never}]
      /\ sig' \in [Devices -> {{}} \cup {{x} : x \in Content \cup {None}}]
  BY <1>1, CommitIs DEF Finish
<1>h. have[d] \in Content \cup {None} /\ have = [have EXCEPT ![d] = have[d]]
  BY DEF IInv, DevicesOK
<1>4. PICK e \in Content \cup {None} : have' = [have EXCEPT ![d] = e]
  <2>1. Applied(d, c) \in Content \cup {None}
    BY <1>1, <1>h, AppliedIs
  <2>2. have' = [have EXCEPT ![d] = Applied(d, c)] \/ have' = have
    BY DEF Finish, Apply
  <2> QED
    BY <2>1, <2>2, <1>h
<1>5. UNCHANGED <<row, twin, web, cycle, lapses, reader>> /\ Done(d)
  BY DEF Finish
<1>o. owed' \in [Devices -> {{}} \cup {{x} : x \in Content \cup {None}}]
  BY <1>1, <1>h, FiledIs DEF Finish
<1>6. /\ CallsSound'
      /\ have' \in [Devices -> Content \cup {None}]
      /\ call' \in [Devices -> Call \cup {None}]
  BY <1>4, <1>5, AnsweredKeeps
<1>7. spent' \in [Kinds -> Nat] /\ twin' \in BOOLEAN
  <2>1. spent \in [Kinds -> Nat] /\ twin' \in BOOLEAN
    BY <1>5 DEF IInv, ReaderOK
  <2> QED
    BY <2>1, SpendIs, KindsAre DEF Finish, Apply
<1>8. WebOK' /\ ReaderOK'
  BY <1>5, <1>7, DeviceLeaves
<1>9. CycleOK'
  BY <1>5 DEF IInv, CycleOK
<1>10. Confirmed(row, acks)'
  BY <1>2, <1>5 DEF Confirmed
<1> QED
  BY <1>3, <1>6, <1>8, <1>9, <1>10, <1>o DEF IInv, DevicesOK

\* An answer applied whose acknowledgement is lost, before or behind the hub.
LEMMA UnconfirmedKeeps ==
    ASSUME IInv, NEW d \in Devices, NEW arrived \in BOOLEAN, FinishUnconfirmed(d, arrived)
    PROVE  IInv'
<1> DEFINE c == call[d]
<1>1. c # None /\ c \in Call
  BY DEF FinishUnconfirmed, IInv, DevicesOK
<1>2. Confirmed(row, acks')
  <2>1. CASE arrived
    BY <1>1, <2>1, ConfirmIs DEF FinishUnconfirmed
  <2>2. CASE ~arrived
    BY <2>2 DEF FinishUnconfirmed, IInv
  <2> QED
    BY <2>1, <2>2
<1>4. Applied(d, c) \in Content \cup {None}
  BY <1>1, AppliedIs DEF IInv, DevicesOK
<1>5. /\ UNCHANGED <<row, twin, mark, sig, web, cycle, lapses, reader>> /\ Done(d) /\ Spend("lost")
      /\ have' = [have EXCEPT ![d] = Applied(d, c)]
  BY DEF FinishUnconfirmed
<1>o. owed' \in [Devices -> {{}} \cup {{x} : x \in Content \cup {None}}]
  BY <1>1, FiledIs DEF FinishUnconfirmed, IInv, DevicesOK
<1>6. /\ CallsSound'
      /\ have' \in [Devices -> Content \cup {None}]
      /\ call' \in [Devices -> Call \cup {None}]
  BY <1>4, <1>5, AnsweredKeeps
<1>7. spent' \in [Kinds -> Nat] /\ twin' \in BOOLEAN
  BY <1>5, SpendIs, KindsAre DEF IInv, ReaderOK
<1>8. WebOK' /\ ReaderOK'
  BY <1>5, <1>7, DeviceLeaves
<1>9. CycleOK'
  BY <1>5 DEF IInv, CycleOK
<1>10. Confirmed(row, acks)'
  BY <1>2, <1>5 DEF Confirmed
<1> QED
  BY <1>5, <1>6, <1>8, <1>9, <1>10, <1>o DEF IInv, DevicesOK

-----------------------------------------------------------------------------
(* The cycle keeps the shapes. *)

\* What the cycle has in hand fits its step.
LEMMA StepIs ==
    ASSUME IInv
    PROVE  /\ cycle.step \in {"create", "recreate", "update", "replace", "erase", "erased", "uploaded"}
                  => cycle \in Planned /\ cycle.text \in Nat /\ cycle.id \in Nat \cup {None} /\ row # None
           /\ cycle.step = "rows" => cycle \in Rows
           /\ cycle.step \in {"notes", "noted"} => cycle \in Notes /\ cycle.text \in Nat \cup {None}
           /\ cycle.step = "idle" <=> cycle = Idle
<1>1. cycle \in Planned \cup Rows \cup Notes \cup Waits
  BY DEF IInv, CycleOK
<1>2. cycle \in Planned => cycle.step \notin {"rows", "notes", "noted", "idle"}
  BY DEF Planned
<1>3. cycle \in Rows => cycle.step = "rows"
  BY DEF Rows
<1>4. cycle \in Notes => cycle.step \in {"notes", "noted"}
  BY DEF Notes
<1>5. cycle \in Waits => cycle.step \in {"idle", "pull", "card"} /\ cycle = [step |-> cycle.step]
  BY DEF Waits
<1>6. cycle.step \in {"create", "recreate", "update", "replace", "erase", "erased", "uploaded"}
                  => cycle \in Planned /\ row # None
  BY <1>1, <1>3, <1>4, <1>5 DEF IInv, CycleOK
<1>7. cycle.step = "rows" => cycle \in Rows
  BY <1>1, <1>2, <1>4, <1>5
<1>8. cycle.step \in {"notes", "noted"} => cycle \in Notes
  BY <1>1, <1>2, <1>3, <1>5
<1>9. cycle.step = "idle" => cycle = Idle
  BY <1>1, <1>2, <1>3, <1>4, <1>5 DEF Idle
<1>10. cycle = Idle => cycle.step = "idle"
  BY DEF Idle
<1>11. cycle \in Planned => cycle.text \in Nat /\ cycle.id \in Nat \cup {None}
  BY DEF Planned
<1>12. cycle \in Notes => cycle.text \in Nat \cup {None}
  BY DEF Notes
<1> QED
  BY <1>6, <1>7, <1>8, <1>9, <1>10, <1>11, <1>12

\* The lapses are of three kinds.
LEMMA LapsesAre ==
    ASSUME IInv
    PROVE  /\ lapses \subseteq {"open", "torn", "stale"} /\ Closed \subseteq {"open", "torn", "stale"}
           /\ \A b : \A x \in {"open", "torn", "stale"} : With(x, b) \subseteq {"open", "torn", "stale"}
BY DEF IInv, ReaderOK, Closed, With

\* What a step of the cycle has to show.
LEMMA CycleLeaves ==
    ASSUME IInv, UNCHANGED Rest, cycle # Idle \/ clock # 0,
           Confirmed(row', acks'), row # None => row' # None /\ row'.ver >= row.ver,
           spent' \in [Kinds -> Nat], twin' \in BOOLEAN, lapses' \subseteq {"open", "torn", "stale"},
           WebOK', CycleOK'
    PROVE  IInv'
<1>1. UNCHANGED <<have, mark, sig, owed, call, clock, erased>>
  BY DEF Rest, device, reader
<1>2. row' \in RowSet \cup {None}
  BY DEF Confirmed
<1>3. CallsSound'
  BY <1>1, <1>2, RowStands
<1>4. DevicesOK'
  BY <1>1 DEF IInv, DevicesOK
<1>5. ReaderOK'
  BY <1>1 DEF IInv, ReaderOK
<1>6. Confirmed(row, acks)'
  BY DEF Confirmed
<1> QED
  BY <1>3, <1>4, <1>5, <1>6 DEF IInv

\* A step of the cycle at a spoke that leaves the hub alone.
LEMMA SpokeLeaves ==
    ASSUME IInv, UNCHANGED <<hub, Rest>>, cycle # Idle \/ clock # 0,
           spent' \in [Kinds -> Nat], lapses' \subseteq {"open", "torn", "stale"}, WebOK', CycleOK'
    PROVE  IInv'
<1>1. UNCHANGED <<row, acks, twin>> /\ UNCHANGED Rest
  BY DEF hub
<1>2. Confirmed(row', acks') /\ twin' \in BOOLEAN
  BY <1>1 DEF IInv, ReaderOK
<1>3. row # None => row.ver \in Nat
  BY DEF IInv, Confirmed, RowSet
<1> QED
  BY <1>1, <1>2, <1>3, CycleLeaves

\* Only the step of what is planned changes.
LEMMA GoIs ==
    ASSUME IInv, NEW to,
           \/ to = "pull"
           \/ /\ cycle.step \in {"create", "recreate", "update", "replace", "erase", "erased", "uploaded"}
              /\ to \in {"recreate", "erased", "uploaded"},
           Go(to), row # None => row' # None
    PROVE  CycleOK' /\ cycle'.step = to /\ (to # "pull" => cycle'.id = cycle.id)
<1>1. CASE to = "pull"
  <2>1. cycle' = [step |-> "pull"]
    BY <1>1 DEF Go
  <2> QED
    BY <1>1, <2>1 DEF CycleOK, Waits
<1>2. CASE to # "pull"
  <2>1. cycle' = [cycle EXCEPT !.step = to] /\ cycle \in Planned /\ row # None
    BY <1>2, StepIs DEF Go
  <2>2. cycle' \in Planned /\ cycle'.step = to /\ cycle'.id = cycle.id
    BY <1>2, <2>1 DEF Planned
  <2> QED
    BY <1>2, <2>1, <2>2 DEF CycleOK
<1> QED
  BY <1>1, <1>2

\* The plan is of a row that is there.
LEMMA PlanKeeps ==
    ASSUME IInv, Plan
    PROVE  IInv'
<1>1. clock # 0 /\ UNCHANGED <<hub, web, Rest>>
  BY DEF Plan, IInv, ReaderOK
<1>2. spent' \in [Kinds -> Nat]
  BY SpendIs, KindsAre DEF Plan, IInv, ReaderOK
<1>3. UNCHANGED <<row, made, remote, card>>
  BY <1>1 DEF hub, web
<1>4. WebOK' /\ lapses' \subseteq {"open", "torn", "stale"}
  BY <1>3, LapsesAre DEF IInv, WebOK, Plan
<1>5. CycleOK'
  <2>1. CASE cycle' \in Waits
    BY <2>1 DEF CycleOK, Waits
  <2>2. CASE cycle' \notin Waits
    <3> DEFINE there == remote # None /\ remote.same
               id == IF Alive /\ row.site # None THEN row.site
                     ELSE IF there THEN remote.id ELSE None
               way == IF Pending = "delete" THEN "erase"
                      ELSE IF Pending = "nothing" THEN "pull"
                      ELSE IF id = None THEN "create"
                      ELSE IF there /\ remote.id = id THEN "update"
                      ELSE "replace"
    <3>a. [step |-> "pull"] \in Waits /\ [step |-> "card"] \in Waits
      BY DEF Waits
    <3>b. /\ way # "pull"
          /\ cycle' = [step |-> way, text |-> row.text, id |-> IF way = "erase" THEN row.site ELSE id]
      BY <2>2, <3>a DEF Plan
    <3>c. way \in {"create", "update", "replace", "erase"} /\ row # None
      BY <3>b DEF Alive, Dead, Pending
    <3>d. id \in {row.site, None} \/ (remote # None /\ id = remote.id)
      OBVIOUS
    <3> HIDE DEF id, way
    <3>2. row.text \in Nat /\ row.site \in Nat \cup {None}
      BY <3>c DEF IInv, Confirmed, RowSet
    <3>3. id \in Nat \cup {None}
      BY <3>2, <3>d DEF IInv, WebOK, Remote
    <3>4. (IF way = "erase" THEN row.site ELSE id) \in Nat \cup {None}
      BY <3>2, <3>3
    <3>5. cycle' \in Planned /\ cycle'.step = way
      BY <3>b, <3>c, <3>2, <3>4 DEF Planned
    <3> QED
      BY <1>3, <3>c, <3>5 DEF CycleOK
  <2> QED
    BY <2>1, <2>2
<1> QED
  BY <1>1, <1>2, <1>4, <1>5, SpokeLeaves

\* A deletion at Grimmory, or its failure.
LEMMA EraseKeeps ==
    ASSUME IInv, Erase
    PROVE  IInv'
<1>1. cycle.step \in {"erase", "replace"} /\ UNCHANGED <<hub, card, made, Rest>> /\ cycle # Idle
  BY StepIs DEF Erase
<1>2. spent' \in [Kinds -> Nat]
  BY SpendIs, KindsAre DEF Erase, IInv, ReaderOK
<1>3. remote' \in {remote, None} /\ lapses' \subseteq {"open", "torn", "stale"}
  BY LapsesAre DEF Erase
<1>4. WebOK'
  BY <1>1, <1>3 DEF IInv, WebOK
<1>5. PICK to \in {"erased", "recreate", "pull"} : Go(to)
  BY DEF Erase
<1>6. CycleOK'
  BY <1>1, <1>5, GoIs DEF hub
<1> QED
  BY <1>1, <1>2, <1>3, <1>4, <1>6, SpokeLeaves

\* An update at Grimmory, or its failure.
LEMMA UpdateKeeps ==
    ASSUME IInv, Update
    PROVE  IInv'
<1>1. /\ cycle.step = "update" /\ UNCHANGED <<hub, card, made, Rest>> /\ cycle # Idle
      /\ lapses' \subseteq {"open", "torn", "stale"}
  BY StepIs, LapsesAre DEF Update
<1>2. spent' \in [Kinds -> Nat]
  BY SpendIs, KindsAre DEF Update, IInv, ReaderOK
<1>3. UNCHANGED remote \/ (remote \in Remote /\ remote' \in Remote /\ remote'.id = remote.id)
  <2>1. cycle.text \in Nat /\ Now \in Nat
    BY <1>1, StepIs DEF Now, IInv, ReaderOK
  <2>2. remote # None => remote \in Remote
    BY DEF IInv, WebOK
  <2>3. UNCHANGED remote \/ (remote # None /\ remote' = [remote EXCEPT !.text = cycle.text, !.at = Now])
    BY DEF Update, Has
  <2> DEFINE n == Now
  <2>4. n \in Nat
    BY <2>1
  <2>5. ASSUME remote # None, remote' = [remote EXCEPT !.text = cycle.text, !.at = n]
        PROVE  remote' \in Remote /\ remote'.id = remote.id
    <3> HIDE DEF n
    <3>1. PICK x \in Remote, t \in Nat, u \in Nat : t = cycle.text /\ u = n /\ x = remote
      BY <2>1, <2>2, <2>4, <2>5
    <3>2. /\ [x EXCEPT !.text = t, !.at = u] \in Remote
          /\ [x EXCEPT !.text = t, !.at = u].id = x.id
          /\ [x EXCEPT !.text = t, !.at = u].same = x.same
      BY ONLY x \in Remote, t \in Nat, u \in Nat, RemoteIs, Zenon
    <3>3. remote' = [x EXCEPT !.text = t, !.at = u]
      BY <2>5, <3>1
    <3> QED
      BY <3>1, <3>2, <3>3
  <2> QED
    BY <2>2, <2>3, <2>5
<1>4. WebOK'
  BY <1>1, <1>3, Missings DEF IInv, WebOK
<1>5. PICK to \in {"uploaded", "pull"} : Go(to)
  BY DEF Update
<1>6. CycleOK'
  BY <1>1, <1>5, GoIs DEF hub
<1> QED
  BY <1>1, <1>2, <1>4, <1>6, SpokeLeaves

\* What is left to do when a create has failed.
LEMMA FailedIs ==
    ASSUME IInv, cycle.step \in {"create", "recreate"}, row' = row, remote' \in Remote \cup {None}, Failed
    PROVE  /\ CycleOK'
           /\ \/ cycle' = [step |-> "pull"]
              \/ cycle'.step = "update" /\ cycle.step = "create" /\ remote' # None /\ cycle'.id = remote'.id
<1>1. cycle \in Planned /\ row # None
  BY StepIs
<1>2. CASE cycle' = [step |-> "pull"]
  BY <1>2 DEF CycleOK, Waits
<1>3. CASE /\ cycle.step = "create" /\ remote' # None
           /\ cycle' = [cycle EXCEPT !.step = "update", !.id = remote'.id]
  <2>1. remote'.id \in Nat
    BY <1>3 DEF Remote
  <2>2. cycle = [step |-> cycle.step, text |-> cycle.text, id |-> cycle.id] /\ cycle.text \in Nat
    BY <1>1 DEF Planned
  <2>3. cycle' = [step |-> "update", text |-> cycle.text, id |-> remote'.id]
    BY <1>3, <2>2
  <2>4. cycle' \in Planned /\ cycle'.step = "update" /\ cycle'.id = remote'.id
    BY <2>1, <2>2, <2>3 DEF Planned
  <2> QED
    BY <1>1, <1>3, <2>4 DEF CycleOK
<1> QED
  BY <1>2, <1>3 DEF Failed

\* A new annotation at Grimmory has a new id.
LEMMA MadeIs ==
    ASSUME IInv, cycle.step \in {"create", "recreate"}
    PROVE  Made \in Remote /\ Made.id = made + 1 /\ Made.same /\ Made # None
<1>1. cycle.text \in Nat /\ Now \in Nat /\ made + 1 \in Nat
  BY StepIs DEF Now, IInv, ReaderOK, WebOK
<1>2. Made \in Remote /\ Made.id = made + 1 /\ Made.same
  <2> HIDE DEF Now
  <2> QED
    BY <1>1 DEF Made, Remote
<1> QED
  BY <1>2, Missings

\* A create puts a new annotation there, or fails and leaves or adopts what is there.
LEMMA CreateIs ==
    ASSUME IInv, Create
    PROVE  /\ cycle.step \in {"create", "recreate"} /\ UNCHANGED <<hub, card, Rest, lapses>> /\ cycle # Idle
           /\ spent' \in [Kinds -> Nat]
           /\ \/ /\ remote = None /\ remote' = Made /\ made' = made + 1
                 /\ \/ /\ cycle' \in Planned /\ cycle'.step = "uploaded" /\ cycle'.id = made + 1
                       /\ cycle' = [cycle EXCEPT !.step = "uploaded", !.id = made + 1]
                    \/ Failed
              \/ UNCHANGED <<remote, made>> /\ Failed
<1>1. cycle.step \in {"create", "recreate"} /\ UNCHANGED <<hub, card, Rest, lapses>> /\ cycle # Idle
  BY StepIs DEF Create
<1>2. spent' \in [Kinds -> Nat]
  BY SpendIs, KindsAre DEF Create, IInv, ReaderOK
<1>3. cycle = [step |-> cycle.step, text |-> cycle.text, id |-> cycle.id] /\ cycle.text \in Nat /\ made + 1 \in Nat
  BY <1>1, StepIs DEF Planned, IInv, WebOK
<1>4. ASSUME cycle' = [cycle EXCEPT !.step = "uploaded", !.id = made + 1]
      PROVE  cycle' \in Planned /\ cycle'.step = "uploaded" /\ cycle'.id = made + 1
  <2>1. cycle' = [step |-> "uploaded", text |-> cycle.text, id |-> made + 1]
    BY <1>3, <1>4
  <2> QED
    BY <1>3, <2>1 DEF Planned
<1> QED
  BY <1>1, <1>2, <1>4 DEF Create

\* A create, or its failure.
LEMMA CreateKeeps ==
    ASSUME IInv, Create
    PROVE  IInv'
<1>1. /\ cycle.step \in {"create", "recreate"} /\ UNCHANGED <<hub, card, Rest>> /\ cycle # Idle
      /\ spent' \in [Kinds -> Nat] /\ row' = row /\ row # None
      /\ lapses' \subseteq {"open", "torn", "stale"}
  BY CreateIs, StepIs, LapsesAre DEF hub
<1>2. WebOK'
  <2>1. made \in Nat /\ made + 1 \in Nat
    BY DEF IInv, WebOK
  <2>2. CASE remote' = Made /\ made' = made + 1
    BY <1>1, <2>1, <2>2, MadeIs DEF IInv, WebOK
  <2>3. CASE UNCHANGED <<remote, made>>
    BY <1>1, <2>3 DEF IInv, WebOK
  <2> QED
    BY <2>2, <2>3, CreateIs
<1>3. CycleOK'
  <2>1. ASSUME cycle' \in Planned PROVE CycleOK'
    <3>1. cycle'.step \notin {"notes", "noted"}
      BY <2>1 DEF Planned
    <3> QED
      BY <1>1, <2>1, <3>1 DEF CycleOK
  <2>2. remote' \in Remote \cup {None}
    BY <1>2 DEF WebOK
  <2> QED
    BY <1>1, <2>1, <2>2, CreateIs, FailedIs
<1> QED
  BY <1>1, <1>2, <1>3, SpokeLeaves

\* What was written at Grimmory is noted: its id, the version of the row.
LEMMA MarkKeeps ==
    ASSUME IInv, Mark
    PROVE  IInv'
<1>1. /\ cycle.step \in {"uploaded", "erased"} /\ Go("pull") /\ UNCHANGED <<twin, web, Rest, spent>>
      /\ cycle # Idle /\ row # None /\ cycle.id \in Nat \cup {None}
  BY StepIs DEF Mark
<1>2. row \in RowSet /\ Confirmed(row, acks) /\ "site" \in Parties /\ row.ver \in Nat
  BY <1>1, Missings DEF IInv, Confirmed, RowSet
<1>3. Confirmed(row', acks') /\ row' # None /\ row'.ver = row.ver
  <2>1. CASE cycle.step = "erased"
    <3>1. acks' = [acks EXCEPT !["site"].dead = TRUE] /\ row' = row /\ TRUE \in BOOLEAN
      BY <2>1 DEF Mark
    <3> QED
      BY <1>1, <1>2, <3>1, DeadAckKeeps
  <2>2. CASE cycle.step = "uploaded"
    <3>1. row' = [row EXCEPT !.site = cycle.id] /\ acks' = Acked(acks, "site", row.ver)
      BY <2>2 DEF Mark
    <3>2. row' \in RowSet /\ row'.ver = row.ver /\ row' # None
      BY <1>1, <1>2, <3>1, Missings DEF RowSet
    <3>3. Confirmed(row', acks)
      BY <1>2, <3>2, GrowKeeps
    <3>4. row.ver <= row'.ver
      BY <1>2, <3>2
    <3> QED
      BY <1>2, <3>1, <3>2, <3>3, <3>4, AckKeeps
  <2> QED
    BY <1>1, <2>1, <2>2
<1>4. /\ WebOK' /\ spent' \in [Kinds -> Nat] /\ twin' \in BOOLEAN
      /\ lapses' \subseteq {"open", "torn", "stale"}
  <2>1. lapses' \in {lapses, Closed}
    BY DEF Mark
  <2> QED
    BY <1>1, <2>1, LapsesAre DEF IInv, WebOK, web, ReaderOK
<1>5. CycleOK'
  BY <1>1, <1>3, GoIs
<1> QED
  BY <1>1, <1>2, <1>3, <1>4, <1>5, CycleLeaves

\* What Grimmory lists is merged.
LEMMA MergeKeeps ==
    ASSUME IInv, Merge
    PROVE  IInv'
<1>1. /\ cycle.step = "pull" /\ cycle' = [step |-> "card"] /\ UNCHANGED <<web, Rest>> /\ cycle # Idle
  BY StepIs DEF Merge
<1>2. /\ Given.row = row /\ Given.acks = acks /\ Confirmed(Given.row, Given.acks)
      /\ remote \in Remote \cup {None}
  BY DEF Given, IInv, WebOK
<1>3. Confirmed(row', acks') /\ (row # None => row' # None /\ row'.ver >= row.ver) /\ twin' \in BOOLEAN
  <2>0. twin \in BOOLEAN /\ (row # None => row.ver \in Nat)
    BY DEF IInv, ReaderOK, Confirmed, RowSet
  <2>1. CASE UNCHANGED hub
    BY <1>2, <2>0, <2>1 DEF hub
  <2>2. CASE /\ row' = Merged(Given, remote).row /\ acks' = Merged(Given, remote).acks
             /\ twin' = (twin \/ Returns(remote))
    <3>1. twin' \in BOOLEAN
      BY <2>2
    <3> QED
      BY <1>2, <2>2, <3>1, MergedIs
  <2> QED
    BY <2>1, <2>2 DEF Merge, Given
<1>4. WebOK' /\ lapses' \subseteq {"open", "torn", "stale"}
  <2>1. lapses' \in {lapses, Closed, With("torn", Alive /\ "open" \in lapses)}
    BY DEF Merge
  <2> QED
    BY <1>1, <2>1, LapsesAre DEF IInv, WebOK, web
<1>5. spent' \in [Kinds -> Nat]
  BY SpendIs, KindsAre DEF Merge, IInv, ReaderOK
<1>6. CycleOK'
  BY <1>1 DEF CycleOK, Waits
<1> QED
  BY <1>1, <1>3, <1>4, <1>5, <1>6, CycleLeaves

\* The versions read for the notes are still reached when they are acknowledged.
LEMMA CardKeeps ==
    ASSUME IInv, Card
    PROVE  IInv'
<1>0. card' \in Nat \cup {None} /\ UNCHANGED <<remote, made>> => WebOK'
  BY DEF IInv, WebOK
<1>1. /\ card \in Nat \cup {None} /\ spent \in [Kinds -> Nat] /\ twin \in BOOLEAN
      /\ lapses' \subseteq {"open", "torn", "stale"}
  BY LapsesAre DEF IInv, WebOK, ReaderOK, Card, CardLook, CardRows, CardWrite, CardAck
<1>2. cycle' = Idle => CycleOK'
  BY DEF Idle, CycleOK, Waits
<1>r. row # None => row \in RowSet /\ row.ver \in Nat /\ row.text \in Nat
  BY DEF IInv, Confirmed, RowSet
<1>3. CASE CardLook
  <2>1. /\ cycle.step = "card" /\ UNCHANGED <<hub, web, Rest, spent>> /\ cycle # Idle
        /\ UNCHANGED <<card, remote, made>>
    BY <1>3, StepIs DEF CardLook, web
  <2>2. cycle' = Idle \/ \E x \in BOOLEAN, y \in BOOLEAN : cycle' = [step |-> "rows", changed |-> x, gone |-> y]
    BY <1>3 DEF CardLook
  <2>3. CycleOK'
    BY <1>2, <2>2 DEF CycleOK, Rows
  <2> QED
    BY <1>0, <1>1, <2>1, <2>3, SpokeLeaves
<1>4. CASE CardRows
  <2>1. /\ cycle.step = "rows" /\ UNCHANGED <<hub, web, Rest, spent>> /\ cycle # Idle
        /\ UNCHANGED <<card, remote, made, row>>
    BY <1>4, StepIs DEF CardRows, web, hub
  <2>2. cycle.gone \in BOOLEAN
    BY <2>1, StepIs DEF Rows
  <2>3. cycle' = Idle \/ cycle' = [step |-> "notes", gone |-> cycle.gone,
                      text |-> IF Alive THEN row.text ELSE None,
                      ver |-> IF Alive THEN row.ver ELSE 0]
    BY <1>4 DEF CardRows
  <2>4. /\ (IF Alive THEN row.text ELSE None) \in Nat \cup {None}
        /\ (IF Alive THEN row.ver ELSE 0) \in Nat
        /\ (IF Alive THEN row.ver ELSE 0) > 0 => row # None /\ (IF Alive THEN row.ver ELSE 0) <= row.ver
    BY <1>r DEF Alive
  <2>5. CycleOK'
    <3> DEFINE t == IF Alive THEN row.text ELSE None
               v == IF Alive THEN row.ver ELSE 0
    <3>1. t \in Nat \cup {None} /\ v \in Nat /\ (v > 0 => row # None /\ v <= row.ver)
      BY <2>4
    <3>2. cycle' = Idle \/ cycle' = [step |-> "notes", gone |-> cycle.gone, text |-> t, ver |-> v]
      BY <2>3
    <3> HIDE DEF t, v
    <3>3. cycle' # Idle => cycle' \in Notes /\ cycle'.step = "notes" /\ cycle'.ver = v
      BY <2>2, <3>1, <3>2 DEF Notes
    <3> QED
      BY <1>2, <2>1, <3>1, <3>3 DEF CycleOK
  <2> QED
    BY <1>0, <1>1, <2>1, <2>5, SpokeLeaves
<1>5. CASE CardWrite
  <2>1. /\ cycle.step = "notes" /\ UNCHANGED <<hub, remote, made, Rest>> /\ cycle # Idle
        /\ cycle \in Notes /\ cycle.text \in Nat \cup {None} /\ row' = row
    BY <1>5, StepIs DEF CardWrite, hub
  <2>2. card' \in Nat \cup {None} /\ spent' \in [Kinds -> Nat]
    BY <1>1, <1>5, <2>1, SpendIs, KindsAre DEF CardWrite
  <2>3. cycle' = Idle \/ cycle' = [cycle EXCEPT !.step = "noted"]
    BY <1>5 DEF CardWrite, Go
  <2>4. ASSUME cycle' = [cycle EXCEPT !.step = "noted"] PROVE CycleOK'
    <3>1. cycle' \in Notes /\ cycle'.step = "noted" /\ cycle'.ver = cycle.ver
      BY <2>1, <2>4 DEF Notes
    <3> QED
      BY <2>1, <3>1 DEF IInv, CycleOK
  <2> QED
    BY <1>0, <1>1, <1>2, <2>1, <2>2, <2>3, <2>4, SpokeLeaves
<1>6. CASE CardAck
  <2>1. /\ cycle.step = "noted" /\ UNCHANGED <<row, twin, web, Rest, spent>> /\ cycle # Idle /\ cycle' = Idle
        /\ acks' = [Acked(acks, "card", cycle.ver) EXCEPT !["card"].dead = @ \/ cycle.gone]
        /\ UNCHANGED <<card, remote, made>>
    BY <1>6, StepIs DEF CardAck, web
  <2>2. cycle.ver \in Nat /\ (cycle.ver > 0 => row # None /\ cycle.ver <= row.ver)
    BY <2>1, StepIs DEF Notes, IInv, CycleOK
  <2>3. Confirmed(row, acks) /\ "card" \in Parties /\ acks \in [Parties -> Ack]
    BY Missings DEF IInv, Confirmed
  <2> DEFINE a == Acked(acks, "card", cycle.ver)
  <2>4. Confirmed(row, a)
    <3>1. CASE cycle.ver > 0
      BY <1>r, <2>2, <2>3, <3>1, AckKeeps
    <3>2. CASE cycle.ver = 0
      <4>1. acks["card"].ver \in Nat /\ acks["card"] \in Ack
        BY <2>3 DEF Ack
      <4>2. Higher(acks["card"].ver, 0) = acks["card"].ver
        BY <4>1 DEF Higher
      <4>3. [acks["card"] EXCEPT !.ver = Higher(@, 0)] = acks["card"]
        BY <4>1, <4>2 DEF Ack
      <4>4. a = acks
        BY <2>3, <3>2, <4>3 DEF Acked
      <4> QED
        BY <2>3, <4>4
    <3> QED
      BY <2>2, <3>1, <3>2
  <2>5. Confirmed(row, acks')
    <3> HIDE DEF a
    <3>1. acks' = [a EXCEPT !["card"].dead = (a["card"].dead \/ cycle.gone)]
      BY <2>1 DEF a
    <3>2. (a["card"].dead \/ cycle.gone) \in BOOLEAN
      OBVIOUS
    <3> QED
      BY <2>3, <2>4, <3>1, <3>2, DeadAckKeeps
  <2>6. Confirmed(row', acks')
    BY <2>1, <2>5
  <2> QED
    BY <1>0, <1>1, <1>2, <1>r, <2>1, <2>6, CycleLeaves
<1> QED
  BY <1>3, <1>4, <1>5, <1>6 DEF Card

\* A restart loses what the cycle had in hand.
LEMMA RestartKeeps ==
    ASSUME IInv, Restart
    PROVE  IInv'
<1>1. cycle # Idle /\ cycle' = Idle /\ UNCHANGED <<hub, web, Rest>>
  BY DEF Restart
<1>2. spent' \in [Kinds -> Nat]
  BY SpendIs, KindsAre DEF Restart, IInv, ReaderOK
<1>3. WebOK' /\ lapses' \subseteq {"open", "torn", "stale"}
  BY <1>1, LapsesAre DEF IInv, WebOK, web, Restart
<1>4. CycleOK'
  BY <1>1 DEF Idle, CycleOK, Waits
<1> QED
  BY <1>1, <1>2, <1>3, <1>4, SpokeLeaves

\* Every step keeps the shapes.
LEMMA StepKeeps ==
    ASSUME IInv, [Next]_vars
    PROVE  IInv'
<1>1. CASE UNCHANGED vars
  BY <1>1 DEF vars, IInv, Confirmed, DevicesOK, CallsSound, CycleOK, WebOK, ReaderOK
<1>2. ASSUME NEW d \in Devices, Device(d) PROVE IInv'
  BY <1>2, ExchangeKeeps, FinishKeeps, UnconfirmedKeeps DEF Device
<1>3. CASE Site
  BY <1>3, PlanKeeps, EraseKeeps, UpdateKeeps, CreateKeeps, MarkKeeps, MergeKeeps DEF Site
<1> QED
  BY <1>1, <1>2, <1>3, ReaderKeeps, CardKeeps, RestartKeeps DEF Next

\* The shapes hold at first.
LEMMA InitIs == Init => IInv
<1> SUFFICES ASSUME Init PROVE IInv
  OBVIOUS
<1>1. Confirmed(row, acks)
  BY Missings DEF Init, Confirmed, Ack
<1>2. DevicesOK /\ CallsSound
  BY DEF Init, DevicesOK, CallsSound
<1>3. CycleOK
  BY DEF Init, CycleOK, Idle, Waits
<1>4. WebOK /\ ReaderOK
  BY DEF Init, WebOK, ReaderOK
<1> QED
  BY <1>1, <1>2, <1>3, <1>4 DEF IInv

\* The shapes, and that nothing is confirmed, answered or written down of a version
\* the row has not reached, hold from the start and through every step.
THEOREM Inductive == Spec => []IInv
<1>1. IInv /\ [Next]_vars => IInv'
  BY StepKeeps
<1> QED
  BY <1>1, InitIs, PTL DEF Spec

-----------------------------------------------------------------------------
(* What is at Grimmory with another anchor is known by its id, so no create   *)
(* puts a second annotation beside it.                                        *)

Anchored ==
    /\ clock = 0 => row = None /\ remote = None /\ \A d \in Devices : have[d] = None /\ owed[d] = {}
    /\ row = None /\ remote # None => \A d \in Devices : have[d] = None /\ owed[d] \subseteq {None}
    /\ remote # None /\ ~remote.same => row = None \/ row.site = remote.id
    /\ cycle.step = "create" => remote = None
    /\ cycle.step = "uploaded" /\ remote # None => Has(cycle.id)
    /\ cycle.step \in {"replace", "recreate"} => row.site = cycle.id
    /\ cycle.step = "recreate" => ~Has(cycle.id)

\* The reader's own steps.
LEMMA ReaderAnchored ==
    ASSUME IInv, Anchored, Reader
    PROVE  Anchored'
<1>0. /\ clock \in Nat /\ (clock = 0 => cycle.step = "idle")
      /\ have \in [Devices -> Content \cup {None}]
      /\ owed \in [Devices -> {{}} \cup {{x} : x \in Content \cup {None}}]
      /\ remote \in Remote \cup {None}
  BY StepIs DEF IInv, ReaderOK, DevicesOK, WebOK
<1>1. ASSUME NEW d \in Devices, CreateOnDevice(d) PROVE Anchored'
  <2>1. /\ clock = 0 /\ clock' # 0 /\ UNCHANGED <<row, remote, cycle>>
    BY <1>1, <1>0 DEF CreateOnDevice, Acts, hub, web
  <2> QED
    BY <2>1, <1>0 DEF Anchored, Has
<1>2. ASSUME NEW d \in Devices, EditOnDevice(d) \/ DeleteOnDevice(d) PROVE Anchored'
  <2>1. /\ have[d] # None /\ clock' # 0 /\ UNCHANGED <<row, remote, cycle, owed>>
    BY <1>2, <1>0 DEF EditOnDevice, DeleteOnDevice, Acts, hub, web
  <2> QED
    BY <2>1, <1>0 DEF Anchored, Has
<1>3. ASSUME NEW d \in Devices, Close(d) PROVE Anchored'
  <2>1. /\ clock # 0 /\ UNCHANGED <<row, remote, cycle, have, clock>>
        /\ owed' = [owed EXCEPT ![d] = {have[d]}]
    BY <1>3, <1>0 DEF Close, hub, web, reader
  <2>2. row = None /\ remote # None => \A f \in Devices : owed'[f] \subseteq {None}
    BY <2>1, <1>0 DEF Anchored
  <2> QED
    BY <2>1, <2>2 DEF Anchored, Has
<1>4. CASE CreateOnSite
  <2>1. PICK same \in BOOLEAN : remote' = [id |-> 1, text |-> 1, at |-> 2, same |-> same]
    BY <1>4 DEF CreateOnSite
  <2>2. clock = 0 /\ clock' # 0 /\ UNCHANGED <<row, cycle, have, owed>>
    BY <1>4, <1>0 DEF CreateOnSite, Acts, hub, device
  <2> QED
    BY <2>2, <1>0 DEF Anchored
<1>5. CASE EditOnSite
  <2>1. clock' # 0 /\ UNCHANGED <<row, cycle, have, owed>> /\ remote \in Remote /\ remote # None
        /\ clock' \in Nat /\ 2 * clock' \in Nat
    BY <1>5, <1>0 DEF EditOnSite, Acts, hub, device
  <2>2. PICK x \in Remote, t \in Nat, u \in Nat : t = clock' /\ u = 2 * clock' /\ x = remote
    BY <2>1
  <2>3. /\ [x EXCEPT !.text = t, !.at = u] \in Remote
        /\ [x EXCEPT !.text = t, !.at = u].id = x.id
        /\ [x EXCEPT !.text = t, !.at = u].same = x.same
    BY ONLY x \in Remote, t \in Nat, u \in Nat, RemoteIs, Zenon
  <2>4. remote' = [x EXCEPT !.text = t, !.at = u]
    BY <1>5, <2>2 DEF EditOnSite
  <2>5. remote'.id = remote.id /\ remote'.same = remote.same /\ remote' # None
    BY <2>2, <2>3, <2>4, Missings
  <2> QED
    BY <2>1, <2>5 DEF Anchored, Has
<1>6. CASE DeleteOnSite
  <2>1. clock' # 0 /\ UNCHANGED <<row, cycle, have, owed>> /\ remote' = None
    BY <1>6, <1>0 DEF DeleteOnSite, Acts, hub, device
  <2> QED
    BY <2>1 DEF Anchored, Has
<1>7. CASE Moved
  <2>1. UNCHANGED <<row, cycle, have, owed, clock>> /\ remote \in Remote /\ remote # None
        /\ row # None /\ row.site = remote.id /\ remote' = [remote EXCEPT !.same = FALSE]
    BY <1>7, <1>0 DEF Moved, hub, device, reader
  <2>2. remote'.id = remote.id
    BY <2>1 DEF Remote
  <2> QED
    BY <2>1, <2>2 DEF Anchored, Has
<1> QED
  BY <1>1, <1>2, <1>3, <1>4, <1>5, <1>6, <1>7 DEF Reader

\* A device's steps: a row is made of an entry only where there is one.
LEMMA DeviceAnchored ==
    ASSUME IInv, Anchored, NEW d \in Devices, Device(d)
    PROVE  Anchored'
<1>0. /\ clock \in Nat
      /\ have \in [Devices -> Content \cup {None}]
      /\ owed \in [Devices -> {{}} \cup {{x} : x \in Content \cup {None}}]
  BY DEF IInv, ReaderOK, DevicesOK
<1>s. cycle.step \in {"replace", "recreate"} => row # None
  BY StepIs
<1>1. ASSUME NEW mode \in Modes, Exchange(d, mode) PROVE Anchored'
  <2>1. PICK e \in Read(d, mode) :
          /\ row' = Served(d, Prepared(d, mode, e)).row
          /\ Answered(d, mode, Prepared(d, mode, e), Served(d, Prepared(d, mode, e))) \/ UNCHANGED owed
    BY <1>1 DEF Exchange
  <2>2. e \in Content \cup {None} /\ (e = have[d] \/ e \in owed[d])
    BY ReadIs
  <2> DEFINE sent == Prepared(d, mode, e)
             h == Served(d, sent)
  <2>3. Grows(row, h.row)
    BY <2>2, ServedKeeps
  <2>4. row = None /\ e = None => h.row = None
    <3>1. ~sent.upload => h = Given \/ row # None
      BY <2>2, ServedIs
    <3>2. e = None => ~sent.upload
      BY <2>2, ServedIs
    <3> HIDE DEF h, sent
    <3> QED
      BY <3>1, <3>2 DEF Given
  <2>5. clock # 0 /\ UNCHANGED <<have, remote, cycle, clock>>
    BY <1>1, <1>0 DEF Exchange, web, reader
  <2>6. owed' = owed \/ owed' = [owed EXCEPT ![d] = {}]
    BY <2>1 DEF Answered
  <2>7. row' = h.row
    BY <2>1
  <2> HIDE DEF h, sent
  <2>8. row' = None => row = None
    BY <2>3, <2>7 DEF Grows
  <2>9. row' = None /\ remote' # None => \A f \in Devices : have'[f] = None /\ owed'[f] \subseteq {None}
    BY <1>0, <2>5, <2>6, <2>8 DEF Anchored
  <2>10. remote' # None /\ ~remote'.same => row' = None \/ row'.site = remote'.id
    <3>1. CASE row = None /\ remote # None
      <4>1. e = None
        BY <2>2, <3>1 DEF Anchored
      <4> QED
        BY <2>4, <2>7, <3>1, <4>1
    <3>2. CASE row # None
      BY <2>3, <2>5, <2>7, <3>2 DEF Anchored, Grows
    <3>3. CASE remote = None
      BY <2>5, <3>3
    <3> QED
      BY <3>1, <3>2, <3>3
  <2>11. cycle'.step \in {"replace", "recreate"} => row'.site = cycle'.id
    BY <1>s, <2>3, <2>5, <2>7 DEF Anchored, Grows
  <2> QED
    BY <2>5, <2>9, <2>10, <2>11 DEF Anchored, Has
<1>2. ASSUME call[d] # None, UNCHANGED <<row, remote, cycle, clock>> PROVE Anchored'
  <2>1. row # None
    BY <1>2 DEF IInv, CallsSound
  <2> QED
    BY <1>2, <2>1 DEF Anchored, Has
<1>3. ASSUME Finish(d) PROVE Anchored'
  BY <1>2, <1>3 DEF Finish, web, reader
<1>4. ASSUME NEW arrived \in BOOLEAN, FinishUnconfirmed(d, arrived) PROVE Anchored'
  BY <1>2, <1>4 DEF FinishUnconfirmed, web, reader
<1> QED
  BY <1>1, <1>3, <1>4 DEF Device

\* The cycle at Grimmory: what it creates has the anchor that comes of the row.
LEMMA SiteAnchored ==
    ASSUME IInv, Anchored, Site
    PROVE  Anchored'
<1>0. UNCHANGED <<have, owed, clock>>
  BY DEF Site, Plan, Erase, Update, Create, Mark, Merge, Rest, device, reader
<1>1. clock \in Nat /\ (cycle # Idle => clock # 0) /\ remote \in Remote \cup {None}
  BY DEF IInv, ReaderOK, WebOK
<1>2. clock' # 0
  <2>1. CASE Plan
    BY <1>0, <1>1, <2>1 DEF Plan
  <2>2. CASE ~Plan
    BY <1>0, <1>1, <2>2, StepIs DEF Site, Erase, Update, Create, Mark, Merge
  <2> QED
    BY <2>1, <2>2
<1>p. (cycle.step \in {"erase", "replace", "update", "create", "recreate", "uploaded", "erased"}
          => cycle \in Planned /\ row # None)
  BY StepIs
<1>3. ASSUME NEW to, Go(to), cycle \in Planned
      PROVE  cycle'.step = to /\ (to # "pull" => cycle'.id = cycle.id)
  <2>1. CASE to = "pull"
    BY <1>3, <2>1 DEF Go
  <2>2. CASE to # "pull"
    BY <1>3, <2>2 DEF Go, Planned
  <2> QED
    BY <2>1, <2>2
<1>4. CASE Plan
  <2>1. UNCHANGED <<row, remote>>
    BY <1>4 DEF Plan, hub, web
  <2> DEFINE there == remote # None /\ remote.same
             id == IF Alive /\ row.site # None THEN row.site
                   ELSE IF there THEN remote.id ELSE None
             way == IF Pending = "delete" THEN "erase"
                    ELSE IF Pending = "nothing" THEN "pull"
                    ELSE IF id = None THEN "create"
                    ELSE IF there /\ remote.id = id THEN "update"
                    ELSE "replace"
  <2>2. \/ cycle' \in {[step |-> "pull"], [step |-> "card"]}
        \/ cycle' = [step |-> way, text |-> row.text, id |-> IF way = "erase" THEN row.site ELSE id]
    BY <1>4 DEF Plan
  <2>3. way = "create" => remote = None
    <3>1. SUFFICES ASSUME way = "create" PROVE remote = None
      OBVIOUS
    <3>2. Alive /\ id = None
      BY <3>1 DEF Pending
    <3>3. remote # None => remote.id # None
      BY <1>1, Missings DEF Remote
    <3>4. row # None /\ row.site = None /\ ~there
      BY <3>2, <3>3 DEF Alive
    <3> QED
      BY <3>3, <3>4 DEF Anchored
  <2>4. way = "replace" => row.site = id
    OBVIOUS
  <2>5. way \notin {"uploaded", "recreate"}
    OBVIOUS
  <2> HIDE DEF way, id
  <2>6. /\ cycle'.step = "create" => remote = None
        /\ cycle'.step = "replace" => row.site = cycle'.id
        /\ cycle'.step \notin {"uploaded", "recreate"}
    BY <2>2, <2>3, <2>4, <2>5
  <2> QED
    BY <1>0, <1>2, <2>1, <2>6 DEF Anchored
<1>5. CASE Erase
  <2>1. cycle.step \in {"erase", "replace"} /\ UNCHANGED row /\ cycle \in Planned /\ row # None
    BY <1>5, <1>p DEF Erase, hub
  <2>2. \/ /\ remote' = IF Has(cycle.id) THEN None ELSE remote
           /\ Go(IF cycle.step = "erase" THEN "erased" ELSE "recreate")
        \/ UNCHANGED remote /\ Go("pull")
    BY <1>5 DEF Erase
  <2>3. CASE Go("pull") /\ UNCHANGED remote
    <3>1. cycle'.step = "pull"
      BY <1>3, <2>1, <2>3
    <3> QED
      BY <1>0, <1>2, <2>1, <2>3, <3>1 DEF Anchored
  <2>4. CASE /\ remote' = IF Has(cycle.id) THEN None ELSE remote
             /\ Go(IF cycle.step = "erase" THEN "erased" ELSE "recreate")
    <3>1. PICK to \in {"erased", "recreate"} : Go(to) /\ (to = "recreate" => cycle.step = "replace")
      BY <2>1, <2>4
    <3>2. cycle'.step = to /\ cycle'.id = cycle.id
      BY <1>3, <2>1, <3>1
    <3>3. remote' \in {None, remote} /\ (remote' # None => remote' = remote /\ ~Has(cycle.id))
      BY <2>4
    <3> QED
      BY <1>0, <1>2, <2>1, <3>1, <3>2, <3>3 DEF Anchored, Has
  <2> QED
    BY <2>2, <2>3, <2>4
<1>6. CASE Update
  <2>1. cycle.step = "update" /\ UNCHANGED row /\ cycle \in Planned /\ row # None
    BY <1>6, <1>p DEF Update, hub
  <2>2. \/ Has(cycle.id) /\ remote' = [remote EXCEPT !.text = cycle.text, !.at = Now] /\ Go("uploaded")
        \/ UNCHANGED remote /\ Go("pull")
    BY <1>6 DEF Update
  <2>3. CASE Go("pull") /\ UNCHANGED remote
    <3>1. cycle'.step = "pull"
      BY <1>3, <2>1, <2>3
    <3> QED
      BY <1>0, <1>2, <2>1, <2>3, <3>1 DEF Anchored
  <2>4. CASE Has(cycle.id) /\ remote' = [remote EXCEPT !.text = cycle.text, !.at = Now] /\ Go("uploaded")
    <3>1. cycle.text \in Nat /\ Now \in Nat
      BY <2>1, StepIs DEF Now, IInv, ReaderOK
    <3>2. remote \in Remote /\ remote # None /\ remote.id = cycle.id
      BY <1>1, <2>4 DEF Has
    <3>0. PICK n : n = Now
      OBVIOUS
    <3>3. PICK x \in Remote, t \in Nat, u \in Nat : t = cycle.text /\ u = n /\ x = remote
      BY <3>0, <3>1, <3>2
    <3>4. /\ [x EXCEPT !.text = t, !.at = u] \in Remote
          /\ [x EXCEPT !.text = t, !.at = u].id = x.id
          /\ [x EXCEPT !.text = t, !.at = u].same = x.same
      BY ONLY x \in Remote, t \in Nat, u \in Nat, RemoteIs, Zenon
    <3>5. remote' = [x EXCEPT !.text = t, !.at = u]
      BY <2>4, <3>0, <3>3
    <3>6. remote'.id = remote.id /\ remote'.same = remote.same /\ remote' # None
      BY <3>3, <3>4, <3>5, Missings
    <3>7. cycle'.step = "uploaded" /\ cycle'.id = cycle.id
      BY <1>3, <2>1, <2>4
    <3> QED
      BY <1>0, <1>2, <2>1, <3>2, <3>6, <3>7 DEF Anchored, Has
  <2> QED
    BY <2>2, <2>3, <2>4
<1>7. CASE Create
  <2>1. UNCHANGED row /\ row # None
    BY <1>7, <1>p, CreateIs DEF hub, Create
  <2>2. remote' = Made \/ remote' = remote
    BY <1>7, CreateIs
  <2>3. Made \in Remote /\ Made.same /\ Made # None /\ Made.id = made + 1
    BY <1>7, MadeIs DEF Create
  <2>4. remote' # None /\ ~remote'.same => row'.site = remote'.id
    BY <2>1, <2>2, <2>3 DEF Anchored
  <2>5. CASE Failed
    <3>1. cycle'.step \in {"pull", "update"}
      BY <1>7, <2>1, <2>2, <2>3, <2>5, <1>1, FailedIs DEF Create
    <3> QED
      BY <1>0, <1>2, <2>1, <2>4, <3>1 DEF Anchored
  <2>6. CASE remote' = Made /\ cycle'.step = "uploaded" /\ cycle'.id = made + 1
    BY <1>0, <1>2, <2>1, <2>3, <2>4, <2>6 DEF Anchored, Has
  <2> QED
    BY <1>7, <2>5, <2>6, CreateIs
<1>8. CASE Mark
  <2>1. /\ cycle.step \in {"uploaded", "erased"} /\ cycle \in Planned /\ row # None
        /\ UNCHANGED remote /\ Go("pull")
        /\ row' = row \/ (cycle.step = "uploaded" /\ row' = [row EXCEPT !.site = cycle.id])
    BY <1>8, <1>p DEF Mark, web
  <2>2. cycle'.step = "pull"
    BY <1>3, <2>1
  <2>3. row \in RowSet
    BY <2>1 DEF IInv, Confirmed
  <2>4. row' # None /\ (row'.site = row.site \/ (cycle.step = "uploaded" /\ row'.site = cycle.id))
    BY <2>1, <2>3, Missings DEF RowSet, IInv, CycleOK, Planned
  <2>5. remote # None /\ ~remote.same => row'.site = remote.id
    BY <2>1, <2>4 DEF Anchored, Has
  <2> QED
    BY <1>0, <1>2, <2>1, <2>2, <2>4, <2>5 DEF Anchored
<1>9. CASE Merge
  <2>1. /\ UNCHANGED remote /\ cycle'.step = "card"
        /\ row' = row \/ row' = Merged(Given, remote).row
    BY <1>9 DEF Merge, web, hub, Given
  <2>3. /\ remote # None /\ ~remote.same => row' = None \/ row'.site = remote.id
        /\ row' = None => row = None
    <3>1. row' = Merged(Given, remote).row /\ remote # None => row' = row \/ row'.site = remote.id
      <4>1. SUFFICES ASSUME row' = Merged(Given, remote).row, remote # None
                     PROVE  row' = row \/ row'.site = remote.id
        OBVIOUS
      <4>2. CASE row = None
        BY <4>1, <4>2 DEF Merged, Given, NewRow
      <4>3. CASE row # None /\ row.dead
        BY <4>1, <4>3 DEF Merged, Given
      <4>4. CASE row # None /\ ~row.dead
        <5> DEFINE r == IF row.text # remote.text
                        THEN Written(row, "site", remote.text, remote.at) ELSE row
        <5>1. row' = [r EXCEPT !.site = remote.id]
          BY <4>1, <4>4 DEF Merged, Given
        <5>2. row \in RowSet /\ remote.text \in Nat /\ remote.at \in Nat
          BY <1>1, <4>1, <4>4 DEF IInv, Confirmed, Remote
        <5>3. r \in RowSet
          <6>1. PICK p \in Devices \cup {"site"}, x \in RowSet, t \in Nat, u \in Nat :
                  p = "site" /\ x = row /\ t = remote.text /\ u = remote.at
            BY <5>2
          <6>2. Written(x, p, t, u) \in RowSet
            BY ONLY p \in Devices \cup {"site"}, x \in RowSet, t \in Nat, u \in Nat, WrittenIs
          <6> QED
            BY <5>2, <6>1, <6>2
        <5> HIDE DEF r
        <5> QED
          BY <5>1, <5>3 DEF RowSet
      <4> QED
        BY <4>2, <4>3, <4>4
    <3>2. row' = Merged(Given, remote).row /\ row # None => row' # None
      <4>1. Given.row = row /\ Given.acks = acks /\ Confirmed(Given.row, Given.acks)
        BY DEF Given, IInv
      <4> QED
        BY <1>1, <4>1, MergedIs
    <3> QED
      BY <2>1, <3>1, <3>2 DEF Anchored
  <2>4. row' = None => row = None
    BY <2>3
  <2> QED
    BY <1>0, <1>2, <2>1, <2>3, <2>4 DEF Anchored
<1> QED
  BY <1>4, <1>5, <1>6, <1>7, <1>8, <1>9 DEF Site

\* Every step.
LEMMA StepAnchored ==
    ASSUME IInv, Anchored, [Next]_vars
    PROVE  Anchored'
<1>1. CASE UNCHANGED vars
  BY <1>1 DEF vars, Anchored, Has
<1>2. CASE Card \/ Restart
  <2>1. UNCHANGED <<row, remote, have, owed, clock>>
    BY <1>2 DEF Card, CardLook, CardRows, CardWrite, CardAck, Restart, hub, web, Rest, device, reader
  <2>2. cycle'.step \in {"idle", "rows", "notes", "noted"}
    <3>1. cycle' = Idle => cycle'.step = "idle"
      BY DEF Idle
    <3>2. CardWrite => cycle' = Idle \/ cycle'.step = "noted"
      BY StepIs DEF CardWrite, Go, Notes
    <3>3. CardLook => cycle' = Idle \/ cycle'.step = "rows"
      BY DEF CardLook
    <3>4. CardRows => cycle' = Idle \/ cycle'.step = "notes"
      BY DEF CardRows
    <3>5. CardAck \/ Restart => cycle' = Idle
      BY DEF CardAck, Restart
    <3> QED
      BY <1>2, <3>1, <3>2, <3>3, <3>4, <3>5 DEF Card
  <2> QED
    BY <2>1, <2>2 DEF Anchored
<1> QED
  BY <1>1, <1>2, ReaderAnchored, DeviceAnchored, SiteAnchored DEF Next

\* There is nothing at first.
LEMMA InitAnchored == Init => Anchored
<1> SUFFICES ASSUME Init PROVE Anchored
  OBVIOUS
<1>1. /\ row = None /\ remote = None /\ cycle.step = "idle"
      /\ \A d \in Devices : have[d] = None /\ owed[d] = {}
  BY DEF Init, Idle
<1> QED
  BY <1>1 DEF Anchored

\* The shapes are the types.
LEMMA TypeIs == IInv /\ Anchored => TypeOK
<1> SUFFICES ASSUME IInv, Anchored PROVE TypeOK
  OBVIOUS
<1>1. /\ row = None \/ row \in [ver : Nat, dead : BOOLEAN, text : Nat, at : Nat,
                              src : Devices \cup {"site"}, site : Nat \cup {None}]
      /\ acks \in [Parties -> [ver : Nat, dead : BOOLEAN]]
      /\ \A p \in Parties : acks[p].ver > 0 => row # None /\ acks[p].ver <= row.ver
  BY DEF IInv, Confirmed, RowSet, Ack
<1>2. /\ have \in [Devices -> Content \cup {None}]
      /\ mark \in [Devices -> Nat \cup {Never}]
  BY DEF IInv, DevicesOK
<1>3. ASSUME NEW d \in Devices, NEW held \in {sig[d], owed[d]}
      PROVE  held \subseteq Content \cup {None} /\ Cardinality(held) <= 1
  <2>1. held = {} \/ \E x \in Content \cup {None} : held = {x}
    BY DEF IInv, DevicesOK
  <2>2. held = {} => Cardinality(held) = 0
    BY FS_EmptySet
  <2>3. \A x : Cardinality({x}) = 1
    BY FS_Singleton
  <2>4. \A x : held = {x} => Cardinality(held) = 1
    BY <2>3
  <2>5. Cardinality(held) \in {0, 1}
    BY <2>1, <2>2, <2>4
  <2>6. held \subseteq Content \cup {None}
    BY <2>1
  <2> QED
    BY <2>5, <2>6
<1>4. \A d \in Devices : call[d] # None => call[d].todo \in {"add", "edit", "delete"}
  BY DEF IInv, DevicesOK, Call
<1>5. remote = None \/ remote \in [id : 1 .. made, text : Nat, at : Nat, same : BOOLEAN]
  BY DEF IInv, WebOK, Remote
<1>6. card \in Nat \cup {None} /\ {twin, erased} \subseteq BOOLEAN /\ clock \in Nat /\ made \in Nat
      /\ spent \in [Kinds -> Nat] /\ lapses \subseteq {"open", "torn", "stale"}
  BY DEF IInv, WebOK, ReaderOK
<1>7. cycle.step \in {"create", "recreate"} /\ remote # None => remote.same
  <2>1. cycle.step = "recreate" => row # None
    BY StepIs
  <2>2. remote # None => remote.same \in BOOLEAN
    BY DEF IInv, WebOK, Remote
  <2> QED
    BY <2>1, <2>2 DEF Anchored, Has
<1> QED
  BY <1>1, <1>2, <1>3, <1>4, <1>5, <1>6, <1>7 DEF TypeOK

\* Every variable keeps its type, no party has confirmed a version the row has not
\* reached, and no create finds an annotation of this highlight at another anchor,
\* whatever the exchanges, cycles and faults.
THEOREM TypeCorrect == Spec => []TypeOK
<1>1. IInv /\ Anchored /\ [Next]_vars => Anchored'
  BY StepAnchored
<1> QED
  BY <1>1, InitAnchored, Inductive, TypeIs, PTL DEF Spec

-----------------------------------------------------------------------------
(* A tombstone is not lifted by an echo. *)

\* The only step that lifts a tombstone is an upload by a device that confirmed it.
LEMMA TombstoneStands ==
    ASSUME IInv, [Next]_vars, Dead, ~row'.dead
    PROVE  \E d \in Devices : acks[d].dead /\ {have[d]} \cup owed[d] # {None}
<1>1. row # None /\ row.dead /\ row' # row /\ row \in RowSet
  BY DEF Dead, IInv, Confirmed
<1>2. PICK d \in Devices, mode \in Modes : Exchange(d, mode)
  <2>1. ~UNCHANGED row
    BY <1>1
  <2>2. ~Reader /\ ~Card /\ ~Restart /\ ~Plan /\ ~Erase /\ ~Update /\ ~Create /\ ~UNCHANGED vars
    BY <2>1 DEF Reader, CreateOnDevice, EditOnDevice, DeleteOnDevice, CreateOnSite, EditOnSite,
                DeleteOnSite, Close, Moved, Card, CardLook, CardRows, CardWrite, CardAck, Restart, Plan, Erase,
                Update, Create, hub, vars
  <2>3. ~Mark
    <3>1. Mark => row' = row \/ row' = [row EXCEPT !.site = cycle.id]
      BY DEF Mark
    <3>2. [row EXCEPT !.site = cycle.id].dead = row.dead
      BY <1>1 DEF RowSet
    <3> QED
      BY <1>1, <3>1, <3>2
  <2>4. ~Merge
    <3>1. Merge => row' = row \/ row' = Merged(Given, remote).row
      BY DEF Merge, hub, Given
    <3>2. Merged(Given, remote) = Given
      BY <1>1 DEF Merged, Given
    <3> QED
      BY <1>1, <3>1, <3>2 DEF Given
  <2>5. \A d \in Devices : ~Finish(d) /\ \A arrived \in BOOLEAN : ~FinishUnconfirmed(d, arrived)
    BY <2>1 DEF Finish, FinishUnconfirmed
  <2>6. \E d \in Devices : Device(d)
    BY <2>2, <2>3, <2>4 DEF Next, Site
  <2> QED
    BY <2>5, <2>6 DEF Device
<1>e. PICK e \in Read(d, mode) : row' = Served(d, Prepared(d, mode, e)).row
  BY <1>2 DEF Exchange
<1>f. e \in Content \cup {None} /\ (e = have[d] \/ e \in owed[d])
  BY ReadIs
<1> DEFINE sent == Prepared(d, mode, e)
<1>3. row' = Served(d, sent).row
  BY <1>e
<1>4. Given.row = row /\ Given.acks = acks /\ Confirmed(Given.row, Given.acks)
  BY DEF Given, IInv
<1>5. sent.upload /\ e # None /\ Served(d, sent) = Upload(Given, d, e)
  <2>1. ~sent.upload => row.dead /\ Served(d, sent) = Given
    BY <1>1, <1>f, ServedIs
  <2> QED
    BY <1>1, <1>3, <1>4, <1>f, <2>1, ServedIs
<1>6. e \in Content
  BY <1>5, <1>f
<1>7. ~acks[d].dead => Upload(Given, d, e).row = row
  BY <1>1, <1>4, <1>6, UploadIs
<1>8. {have[d]} \cup owed[d] # {None}
  BY <1>f, <1>5
<1> QED
  BY <1>1, <1>3, <1>5, <1>7, <1>8

\* A tombstone stands until a device that confirmed it, and has the entry or owes the
\* hub a file with it, uploads it again: no echo of an older upload, of Grimmory or of the cycle lifts it.
THEOREM Tombstones == Spec => TombstonesStand
<1>1. IInv /\ [Next]_vars => [Dead /\ ~row'.dead =>
          \E d \in Devices : acks[d].dead /\ {have[d]} \cup owed[d] # {None}]_vars
  BY TombstoneStands
<1> QED
  BY <1>1, Inductive, PTL DEF Spec, TombstonesStand

-----------------------------------------------------------------------------
(* Nobody but the reader deletes, as long as every device shows the highlight *)
(* where it was made.                                                         *)

\* What may be taken for a deletion.
Excused == erased \/ lapses \cap {"torn", "stale"} # {}

\* Until then, whoever had the highlight has it: a device that confirmed a version or
\* made the row, and Grimmory once the row has an id there, unless the cycle has just
\* removed it there.
DevicesFaithful ==
    /\ \A d \in Devices : \A e \in {have[d]} \cup owed[d] : e # None => e.same
    /\ ~Excused => \A d \in Devices :
                     acks[d].ver > 0 \/ (row # None /\ row.src = d) => have[d] # None
    /\ \A d \in Devices : call[d] # None =>
          /\ call[d].todo = "delete" => Excused
          /\ call[d].todo = "edit" => acks[d].ver > 0

SiteFaithful ==
    /\ ~Excused /\ row # None /\ row.site # None => remote # None \/ "open" \in lapses
    /\ ~Excused /\ cycle.step = "uploaded" => remote # None
    /\ cycle.step = "erase" => Excused

Faith == OnlyTheReaderDeletes /\ DevicesFaithful /\ SiteFaithful

\* The reader takes an entry away only by removing the highlight.
LEMMA ReaderFaithful ==
    ASSUME IInv, Faith, Reader
    PROVE  Faith'
<1>1. UNCHANGED <<row, acks, call, cycle, lapses>> /\ (erased => erased')
  <2>1. \A d \in Devices : CreateOnDevice(d) \/ EditOnDevice(d) \/ DeleteOnDevice(d) \/ Close(d)
           => UNCHANGED <<row, acks, call, cycle, lapses>> /\ (erased => erased')
    BY DEF CreateOnDevice, EditOnDevice, DeleteOnDevice, Close, hub, reader
  <2>2. CreateOnSite \/ EditOnSite \/ DeleteOnSite \/ Moved
           => UNCHANGED <<row, acks, call, cycle, lapses>> /\ (erased => erased')
    BY DEF CreateOnSite, EditOnSite, DeleteOnSite, Moved, hub, device, reader
  <2> QED
    BY <2>1, <2>2 DEF Reader
<1>x. Excused => Excused'
  BY <1>1 DEF Excused
<1>2. OnlyTheReaderDeletes'
  BY <1>1 DEF Faith, OnlyTheReaderDeletes, Dead
<1>3. /\ have \in [Devices -> Content \cup {None}]
      /\ owed \in [Devices -> {{}} \cup {{x} : x \in Content \cup {None}}]
  BY DEF IInv, DevicesOK
<1>4. ASSUME UNCHANGED <<have, owed>> PROVE DevicesFaithful'
  BY <1>1, <1>x, <1>4 DEF Faith, DevicesFaithful
<1>5. ASSUME remote # None => remote' # None PROVE SiteFaithful'
  BY <1>1, <1>x, <1>5 DEF Faith, SiteFaithful
<1>6. ASSUME NEW d \in Devices, NEW e \in Content, e.same, have' = [have EXCEPT ![d] = e],
             UNCHANGED owed
      PROVE  DevicesFaithful'
  <2>1. /\ have'[d] = e /\ e # None /\ e.same
        /\ \A f \in Devices : f # d => have'[f] = have[f]
    BY <1>3, <1>6, Missings
  <2> QED
    BY <1>1, <1>6, <1>x, <2>1 DEF Faith, DevicesFaithful
<1>7. ASSUME NEW d \in Devices, CreateOnDevice(d) PROVE Faith'
  <2>1. Entry(1, 2) \in Content /\ Entry(1, 2).same
    BY DEF Entry, Content
  <2> QED
    BY <1>2, <1>5, <1>6, <1>7, <2>1 DEF CreateOnDevice, web, Faith
<1>8. ASSUME NEW d \in Devices, EditOnDevice(d) PROVE Faith'
  <2>1. have[d] \in Content /\ clock' = clock + 1 /\ clock \in Nat
    BY <1>8 DEF EditOnDevice, Acts, IInv, DevicesOK, ReaderOK
  <2>2. clock' \in Nat /\ 2 * clock' \in Nat
    BY <2>1
  <2>0. PICK e : e = [have[d] EXCEPT !.text = clock', !.at = 2 * clock']
    OBVIOUS
  <2>3. e \in Content /\ e.same = have[d].same
    <3>1. PICK x \in Content, t \in Nat, u \in Nat : x = have[d] /\ t = clock' /\ u = 2 * clock'
      BY <2>1, <2>2
    <3>2. e = [x EXCEPT !.text = t, !.at = u]
      BY <2>0, <3>1
    <3>3. [x EXCEPT !.text = t, !.at = u] \in Content /\ [x EXCEPT !.text = t, !.at = u].same = x.same
      BY ONLY x \in Content, t \in Nat, u \in Nat, EntryIs, Zenon
    <3> QED
      BY <3>1, <3>2, <3>3
  <2>4. have' = [have EXCEPT ![d] = e] /\ UNCHANGED <<remote, owed>>
    BY <1>8, <2>0 DEF EditOnDevice, web
  <2>5. have[d].same
    BY <1>8 DEF EditOnDevice, Faith, DevicesFaithful
  <2>6. DevicesFaithful'
    BY <1>6, <2>3, <2>4, <2>5
  <2> QED
    BY <1>2, <1>5, <2>4, <2>6 DEF Faith
<1>9. ASSUME NEW d \in Devices, DeleteOnDevice(d) PROVE Faith'
  <2>1. /\ Excused' /\ UNCHANGED <<remote, owed>>
        /\ \A f \in Devices : have'[f] = have[f] \/ have'[f] = None
    BY <1>3, <1>9 DEF DeleteOnDevice, web, Excused
  <2>2. DevicesFaithful'
    BY <1>1, <2>1 DEF Faith, DevicesFaithful
  <2> QED
    BY <1>2, <1>5, <2>1, <2>2 DEF Faith
<1>10. ASSUME CreateOnSite PROVE Faith'
  <2>1. UNCHANGED <<have, owed>>
    BY <1>10 DEF CreateOnSite, device
  <2>2. PICK same \in BOOLEAN : remote' = [id |-> 1, text |-> 1, at |-> 2, same |-> same]
    BY <1>10 DEF CreateOnSite
  <2>3. remote' \in Remote
    BY <2>2 DEF Remote
  <2> QED
    BY <1>2, <1>4, <1>5, <2>1, <2>3, Missings DEF Faith
<1>11. ASSUME EditOnSite PROVE Faith'
  <2>1. remote \in Remote /\ clock' = clock + 1 /\ clock \in Nat /\ UNCHANGED <<have, owed>>
    BY <1>11 DEF EditOnSite, Acts, IInv, WebOK, ReaderOK, device
  <2>2. PICK x \in Remote, t \in Nat, u \in Nat : x = remote /\ t = clock' /\ u = 2 * clock'
    BY <2>1
  <2>3. /\ [x EXCEPT !.text = t, !.at = u] \in Remote
        /\ [x EXCEPT !.text = t, !.at = u].id = x.id
        /\ [x EXCEPT !.text = t, !.at = u].same = x.same
    BY ONLY x \in Remote, t \in Nat, u \in Nat, RemoteIs, Zenon
  <2>4. remote' = [x EXCEPT !.text = t, !.at = u]
    BY <1>11, <2>2 DEF EditOnSite
  <2>5. remote' # None
    BY <2>3, <2>4, Missings
  <2> QED
    BY <1>2, <1>4, <1>5, <2>1, <2>5 DEF Faith
<1>12. ASSUME DeleteOnSite PROVE Faith'
  <2>1. Excused' /\ UNCHANGED <<have, owed>>
    BY <1>12 DEF DeleteOnSite, device, Excused
  <2>2. SiteFaithful'
    BY <2>1 DEF SiteFaithful
  <2> QED
    BY <1>2, <1>4, <2>1, <2>2 DEF Faith
<1>13. ASSUME NEW d \in Devices, Close(d) PROVE Faith'
  <2>1. UNCHANGED <<have, remote>> /\ owed' = [owed EXCEPT ![d] = {have[d]}]
    BY <1>13 DEF Close, web
  <2>2. \A f \in Devices : \A e \in {have'[f]} \cup owed'[f] : e # None => e.same
    BY <1>3, <2>1 DEF Faith, DevicesFaithful
  <2>3. DevicesFaithful'
    BY <1>1, <1>x, <2>1, <2>2 DEF Faith, DevicesFaithful
  <2> QED
    BY <1>2, <1>5, <2>1, <2>3 DEF Faith
<1>14. ASSUME Moved PROVE Faith'
  <2>1. UNCHANGED <<have, owed>> /\ remote \in Remote /\ remote' = [remote EXCEPT !.same = FALSE]
    BY <1>14 DEF Moved, device, IInv, WebOK
  <2>2. remote' \in Remote
    BY <2>1 DEF Remote
  <2> QED
    BY <1>2, <1>4, <1>5, <2>1, <2>2, Missings DEF Faith
<1> QED
  BY <1>7, <1>8, <1>9, <1>10, <1>11, <1>12, <1>13, <1>14 DEF Reader

\* A key is missing only on a device whose reader removed the highlight, or from a
\* file older than the book.
LEMMA ExchangeFaithful ==
    ASSUME IInv, Faith, NEW d \in Devices, NEW mode \in Modes, Exchange(d, mode)
    PROVE  Faith'
<1>e. PICK e \in Read(d, mode) :
        /\ row' = Served(d, Prepared(d, mode, e)).row /\ acks' = Served(d, Prepared(d, mode, e)).acks
        /\ lapses' = With("stale", Stale(d, e))
        /\ \/ Answered(d, mode, Prepared(d, mode, e), Served(d, Prepared(d, mode, e)))
           \/ UNCHANGED <<call, owed>>
  BY DEF Exchange
<1>f. /\ e \in Content \cup {None} /\ (e = have[d] \/ e \in owed[d])
      /\ e # None => e.same
      /\ have[d] # None => have[d].same
  BY ReadIs DEF Faith, DevicesFaithful
<1> DEFINE sent == Prepared(d, mode, e)
           h == Served(d, sent)
<1>1. /\ row' = h.row /\ acks' = h.acks
      /\ Answered(d, mode, sent, h) \/ UNCHANGED <<call, owed>>
  BY <1>e
<1>2. UNCHANGED <<have, remote, cycle, erased>>
  BY DEF Exchange, web, reader
<1>x. /\ Excused => Excused'
      /\ ("open" \in lapses) = ("open" \in lapses')
      /\ Stale(d, e) => Excused'
  BY <1>e, <1>2 DEF Excused, With
<1>3. Confirmed(h.row, h.acks) /\ Grows(row, h.row) /\ \A q \in Devices : q # d => h.acks[q] = acks[q]
  BY <1>f, ServedKeeps, Missings
<1>4. Given.row = row /\ Given.acks = acks /\ Confirmed(Given.row, Given.acks)
  BY DEF Given, IInv
<1> DEFINE Holders == ~Excused' => \A f \in Devices :
                      acks'[f].ver > 0 \/ (row' # None /\ row'.src = f) => have'[f] # None
<1>5. ASSUME sent.upload PROVE OnlyTheReaderDeletes' /\ SiteFaithful' /\ Holders
  <2>1. e # None /\ e \in Content /\ h = Upload(Given, d, e)
    BY <1>5, <1>f, ServedIs
  <2> HIDE DEF h, sent
  <2>2. /\ row # None /\ ~row.dead => ~h.row.dead
        /\ row = None => ~h.row.dead /\ h.row.site = None
        /\ h.row.src # d => row # None /\ h.row.src = row.src
    BY <1>4, <2>1, UploadIs
  <2>3. OnlyTheReaderDeletes'
    <3>1. Dead' => Dead
      BY <1>1, <2>2 DEF Dead
    <3> QED
      BY <1>x, <3>1 DEF Faith, OnlyTheReaderDeletes, Excused
  <2>4. SiteFaithful'
    BY <1>1, <1>2, <1>3, <1>x, <2>2 DEF Faith, SiteFaithful, Grows
  <2>5. ASSUME ~Excused', NEW f \in Devices, acks'[f].ver > 0 \/ (row' # None /\ row'.src = f)
        PROVE  have'[f] # None
    <3>1. CASE f = d
      BY <1>2, <1>f, <1>x, <2>1, <2>5, <3>1 DEF Stale, Keyed
    <3>2. CASE f # d
      BY <1>1, <1>2, <1>3, <1>x, <2>2, <2>5, <3>2 DEF Faith, DevicesFaithful
    <3> QED
      BY <3>1, <3>2
  <2> QED
    BY <2>3, <2>4, <2>5
<1>6. ASSUME h = Given PROVE OnlyTheReaderDeletes' /\ SiteFaithful' /\ Holders
  <2>1. UNCHANGED <<row, acks>>
    BY <1>1, <1>4, <1>6
  <2> QED
    BY <1>2, <1>x, <2>1 DEF Faith, OnlyTheReaderDeletes, Dead, DevicesFaithful, SiteFaithful, Excused
<1>7. ASSUME h = Tombstoned(Given, d), row # None, ~row.dead, e = None \/ ~e.same,
             row.src = d \/ acks[d].ver > 0
      PROVE  OnlyTheReaderDeletes' /\ SiteFaithful' /\ Holders
  <2>1. e = None
    BY <1>7, <1>f
  <2>2. Excused'
    BY <1>7, <1>f, <1>x, <2>1 DEF Faith, DevicesFaithful, Stale, Keyed
  <2>3. OnlyTheReaderDeletes' /\ Holders
    BY <2>2 DEF OnlyTheReaderDeletes, Excused
  <2>4. SiteFaithful'
    BY <2>2 DEF SiteFaithful
  <2> QED
    BY <2>3, <2>4
<1>8. OnlyTheReaderDeletes' /\ SiteFaithful' /\ Holders
  BY <1>5, <1>6, <1>7, <1>f, ServedIs
<1>9. ASSUME NEW f \in Devices, call'[f] # None
      PROVE  (call'[f].todo = "delete" => Excused') /\ (call'[f].todo = "edit" => acks'[f].ver > 0)
  <2>0. call \in [Devices -> Call \cup {None}] /\ call[d] = None
    BY DEF IInv, DevicesOK, Exchange
  <2> HIDE DEF h, sent
  <2>1. CASE f = d
    <3> DEFINE c == [sent |-> sent, live |-> mode = "live", todo |-> Delta(h, d),
                     text |-> h.row.text, at |-> h.row.at, ver |-> h.row.ver]
    <3>1. call' = [call EXCEPT ![d] = c] /\ Delta(h, d) # "nothing"
      BY <1>1, <1>9, <2>0, <2>1 DEF Answered
    <3>2. call'[d].todo = Delta(h, d)
      BY <2>0, <3>1
    <3>3. h.acks[d].ver \in Nat
      BY <1>3, Missings DEF Confirmed, Ack
    <3>4. Delta(h, d) = "delete" => Excused'
      BY <1>1, <1>8, <3>1, DeltaIs DEF OnlyTheReaderDeletes, Dead, Excused
    <3>5. Delta(h, d) = "edit" => acks'[d].ver > 0
      BY <1>1, <3>1, <3>3, DeltaIs
    <3> QED
      BY <2>1, <3>2, <3>4, <3>5
  <2>2. CASE f # d
    <3>1. call'[f] = call[f]
      BY <1>1, <2>0, <2>2 DEF Answered
    <3> QED
      BY <1>1, <1>2, <1>3, <1>9, <1>x, <2>2, <3>1 DEF Faith, DevicesFaithful
  <2> QED
    BY <2>1, <2>2
<1>10. DevicesFaithful'
  <2>0. owed \in [Devices -> {{}} \cup {{x} : x \in Content \cup {None}}]
    BY DEF IInv, DevicesOK
  <2>1. owed' = owed \/ owed' = [owed EXCEPT ![d] = {}]
    BY <1>1 DEF Answered
  <2>2. \A f \in Devices : \A x \in {have'[f]} \cup owed'[f] : x # None => x.same
    BY <1>2, <2>0, <2>1 DEF Faith, DevicesFaithful
  <2> QED
    BY <2>2, <1>8, <1>9 DEF DevicesFaithful
<1> QED
  BY <1>8, <1>10 DEF Faith

\* What the answer of an exchange makes of the entry.
LEMMA AppliedFaithful ==
    ASSUME IInv, Faith, Repairing = {}, NEW d \in Devices, call[d] # None
    PROVE  /\ Applied(d, call[d]) # None => Applied(d, call[d]).same
           /\ ~Excused /\ (have[d] # None \/ call[d].todo # "edit") => Applied(d, call[d]) # None
<1> DEFINE c == call[d]
<1>1. /\ c \in Call /\ c.text \in Nat /\ c.at \in Nat /\ c.todo \in {"add", "edit", "delete"}
      /\ have[d] \in Content \cup {None}
  BY DEF IInv, DevicesOK, Call
<1>2. (c.todo = "delete" => Excused) /\ (have[d] # None => have[d].same)
  BY DEF Faith, DevicesFaithful
<1> HIDE DEF c
<1> DEFINE received == [text |-> c.text, at |-> c.at, same |-> TRUE]
           new == [received EXCEPT !.same = d \notin Repairing]
           edited == [have[d] EXCEPT !.text = c.text, !.at = c.at]
<1>3. received \in Content /\ received.same
  BY <1>1 DEF Content
<1>4. new = received
  <2>1. (d \notin Repairing) = TRUE
    OBVIOUS
  <2>2. new = [received EXCEPT !.same = TRUE]
    BY <2>1
  <2>3. [received EXCEPT !.same = TRUE] = received
    BY <1>3 DEF Content
  <2> QED
    BY <2>2, <2>3
<1>5. have[d] # None => edited \in Content /\ edited.same
  <2>1. SUFFICES ASSUME have[d] # None PROVE edited \in Content /\ edited.same
    OBVIOUS
  <2>2. PICK x \in Content, t \in Nat, u \in Nat : t = c.text /\ u = c.at /\ x = have[d]
    BY <1>1, <2>1
  <2>3. [x EXCEPT !.text = t, !.at = u] \in Content /\ [x EXCEPT !.text = t, !.at = u].same = x.same
    BY ONLY x \in Content, t \in Nat, u \in Nat, EntryIs, Zenon
  <2>4. edited = [x EXCEPT !.text = t, !.at = u]
    BY <2>2
  <2> QED
    BY <1>2, <2>1, <2>2, <2>3, <2>4
<1>6. /\ c.todo = "delete" => Applied(d, c) = None
      /\ c.todo # "delete" /\ have[d] = None =>
            Applied(d, c) = IF ~c.live THEN received ELSE IF c.todo = "add" THEN new ELSE None
      /\ c.todo # "delete" /\ have[d] # None =>
            Applied(d, c) = IF c.todo = "edit" THEN edited ELSE IF c.live THEN have[d] ELSE received
  BY DEF Applied
<1> HIDE DEF received, new, edited
<1>7. Applied(d, c) # None => Applied(d, c).same
  BY <1>2, <1>3, <1>4, <1>5, <1>6
<1>8. received # None /\ (have[d] # None => edited # None)
  BY <1>3, <1>5, Missings
<1>9. ~Excused /\ (have[d] # None \/ c.todo # "edit") => Applied(d, c) # None
  BY <1>1, <1>2, <1>4, <1>6, <1>8
<1> QED
  BY <1>7, <1>9 DEF c

\* An answer takes an entry away only for a tombstone.
LEMMA AnswerFaithful ==
    ASSUME IInv, Faith, Repairing = {}, NEW d \in Devices, call[d] # None, Done(d), Filed(d, call[d]),
           have' = [have EXCEPT ![d] = Applied(d, call[d])] \/ (call[d].todo = "delete" /\ have' = have),
           \A q \in Parties : q # d => acks'[q] = acks[q],
           UNCHANGED <<row, remote, cycle, lapses, erased>>
    PROVE  Faith'
<1>x. Excused' = Excused
  BY DEF Excused
<1>1. OnlyTheReaderDeletes' /\ SiteFaithful'
  BY <1>x DEF Faith, OnlyTheReaderDeletes, Dead, SiteFaithful
<1>2. /\ call'[d] = None
      /\ \A f \in Devices : f # d => call'[f] = call[f] /\ have'[f] = have[f] /\ acks'[f] = acks[f]
      /\ have'[d] = Applied(d, call[d]) \/ (call[d].todo = "delete" /\ have'[d] = have[d])
  BY Missings DEF IInv, DevicesOK, Done
<1>3. have'[d] # None => have'[d].same
  BY <1>2, AppliedFaithful DEF Faith, DevicesFaithful
<1>o. \A f \in Devices : \A e \in owed'[f] : e # None => e.same
  <2>1. owed \in [Devices -> {{}} \cup {{x} : x \in Content \cup {None}}]
    BY DEF IInv, DevicesOK
  <2>2. \A f \in Devices : owed'[f] = owed[f] \/ (f = d /\ owed'[f] = {Applied(d, call[d])})
    BY <2>1 DEF Filed
  <2> QED
    BY <2>2, AppliedFaithful DEF Faith, DevicesFaithful
<1>4. ~Excused => have'[d] # None
  <2>1. ~Excused => call[d].todo # "delete" /\ (call[d].todo = "edit" => have[d] # None)
    BY DEF Faith, DevicesFaithful
  <2> QED
    BY <1>2, <2>1, AppliedFaithful
<1>5. DevicesFaithful'
  <2>1. ASSUME NEW f \in Devices
        PROVE  /\ have'[f] # None => have'[f].same
               /\ ~Excused' => (acks'[f].ver > 0 \/ (row' # None /\ row'.src = f) => have'[f] # None)
               /\ call'[f] # None => /\ call'[f].todo = "delete" => Excused'
                                     /\ call'[f].todo = "edit" => acks'[f].ver > 0
    <3>1. CASE f = d
      BY <1>2, <1>3, <1>4, <1>x, <3>1
    <3>2. CASE f # d
      BY <1>2, <1>x, <3>2 DEF Faith, DevicesFaithful
    <3> QED
      BY <3>1, <3>2
  <2> QED
    BY <2>1, <1>o DEF DevicesFaithful
<1> QED
  BY <1>1, <1>5 DEF Faith

\* Every step of a device.
LEMMA DeviceFaithful ==
    ASSUME IInv, Faith, Repairing = {}, NEW d \in Devices, Device(d)
    PROVE  Faith'
<1>1. ASSUME Finish(d) PROVE Faith'
  <2>1. /\ call[d] # None /\ Done(d) /\ Filed(d, call[d]) /\ Confirm(d, call[d])
        /\ UNCHANGED <<row, remote, cycle, lapses, erased>>
    BY <1>1 DEF Finish, web, reader
  <2>2. have' = [have EXCEPT ![d] = Applied(d, call[d])] \/ (call[d].todo = "delete" /\ have' = have)
    BY <1>1 DEF Finish, Apply
  <2>3. \A q \in Parties : q # d => acks'[q] = acks[q]
    BY <2>1, ConfirmIs
  <2> QED
    BY <2>1, <2>2, <2>3, AnswerFaithful
<1>2. ASSUME NEW arrived \in BOOLEAN, FinishUnconfirmed(d, arrived) PROVE Faith'
  <2>1. /\ call[d] # None /\ Done(d) /\ Filed(d, call[d])
        /\ UNCHANGED <<row, remote, cycle, lapses, erased>>
    BY <1>2 DEF FinishUnconfirmed, web, reader
  <2>2. have' = [have EXCEPT ![d] = Applied(d, call[d])]
    BY <1>2 DEF FinishUnconfirmed
  <2>3. \A q \in Parties : q # d => acks'[q] = acks[q]
    <3>1. Confirm(d, call[d]) \/ UNCHANGED acks
      BY <1>2 DEF FinishUnconfirmed
    <3> QED
      BY <2>1, <3>1, ConfirmIs
  <2> QED
    BY <2>1, <2>2, <2>3, AnswerFaithful
<1> QED
  BY <1>1, <1>2, ExchangeFaithful DEF Device

\* A step that leaves the row and the devices alone.
LEMMA SpokeFaithful ==
    ASSUME Faith, UNCHANGED <<row, acks, have, owed, call, erased>>,
           lapses' \in {lapses, lapses \cup {"open"}}, SiteFaithful'
    PROVE  Faith'
<1>1. Excused' = Excused
  BY DEF Excused
<1> QED
  BY <1>1 DEF Faith, OnlyTheReaderDeletes, Dead, DevicesFaithful, Excused

\* An annotation is erased only for a tombstone.
LEMMA PlanFaithful ==
    ASSUME IInv, Faith, Plan
    PROVE  Faith'
<1>1. UNCHANGED <<row, acks, have, owed, call, lapses, erased, remote>>
  BY DEF Plan, hub, web, Rest, device, reader
<1>x. Excused' = Excused
  BY <1>1 DEF Excused
<1> DEFINE there == remote # None /\ remote.same
           id == IF Alive /\ row.site # None THEN row.site
                 ELSE IF there THEN remote.id ELSE None
           way == IF Pending = "delete" THEN "erase"
                  ELSE IF Pending = "nothing" THEN "pull"
                  ELSE IF id = None THEN "create"
                  ELSE IF there /\ remote.id = id THEN "update"
                  ELSE "replace"
<1>2. \/ cycle' \in {[step |-> "pull"], [step |-> "card"]}
      \/ cycle' = [step |-> way, text |-> row.text, id |-> IF way = "erase" THEN row.site ELSE id]
  BY DEF Plan
<1>3. /\ way = "erase" => Excused
      /\ way # "uploaded"
  BY DEF Faith, OnlyTheReaderDeletes, Excused, Pending, Dead
<1> HIDE DEF id, way
<1>4. /\ cycle'.step = "erase" => Excused
      /\ cycle'.step # "uploaded"
  BY <1>2, <1>3
<1>5. SiteFaithful'
  BY <1>1, <1>4, <1>x DEF Faith, SiteFaithful
<1> QED
  BY <1>1, <1>5, SpokeFaithful

\* A write at Grimmory takes the annotation away only for a tombstone, or opens the
\* gap in which there is none to be listed.
LEMMA WriteFaithful ==
    ASSUME IInv, Faith, Erase \/ Update \/ Create
    PROVE  Faith'
<1>1. UNCHANGED <<row, acks, have, owed, call, erased>>
  BY DEF Erase, Update, Create, hub, Rest, device, reader
<1>l. lapses' \in {lapses, lapses \cup {"open"}}
  BY DEF Erase, Update, Create, With
<1>x. Excused' = Excused
  BY <1>1, <1>l DEF Excused
<1>2. cycle.step \in {"erase", "replace", "update", "create", "recreate"} /\ cycle \in Planned
  BY StepIs DEF Erase, Update, Create
<1>3. ASSUME NEW to, Go(to), to \in {"erased", "recreate", "pull", "uploaded"}
      PROVE  cycle'.step = to
  <2>1. CASE to = "pull"
    BY <1>3, <2>1 DEF Go
  <2>2. CASE to # "pull"
    BY <1>2, <1>3, <2>2 DEF Go, Planned
  <2> QED
    BY <2>1, <2>2
<1>4. CASE Erase
  <2>1. cycle'.step \in {"erased", "recreate", "pull"}
    BY <1>3, <1>4 DEF Erase
  <2>2. \/ remote' = remote
        \/ cycle.step = "erase"
        \/ cycle.step = "replace" /\ "open" \in lapses'
    BY <1>4 DEF Erase, With
  <2>3. Excused \/ remote' = remote \/ "open" \in lapses'
    BY <2>2 DEF Faith, SiteFaithful
  <2>4. SiteFaithful'
    BY <1>1, <1>l, <1>x, <2>1, <2>3 DEF Faith, SiteFaithful
  <2> QED
    BY <1>1, <1>l, <2>4, SpokeFaithful
<1>5. CASE Update
  <2>1. cycle'.step \in {"uploaded", "pull"} /\ (cycle'.step = "uploaded" => Has(cycle.id))
    BY <1>3, <1>5 DEF Update
  <2>2. remote' = remote \/ (remote # None /\ remote' = [remote EXCEPT !.text = cycle.text, !.at = Now])
    BY <1>5 DEF Update, Has
  <2>3. remote # None => remote' # None
    <3>1. cycle.text \in Nat /\ Now \in Nat
      BY <1>5, StepIs DEF Update, Now, IInv, ReaderOK
    <3>2. PICK n : n = Now
      OBVIOUS
    <3>3. SUFFICES ASSUME remote # None PROVE remote' # None
      OBVIOUS
    <3>4. PICK x \in Remote, t \in Nat, u \in Nat : t = cycle.text /\ u = n /\ x = remote
      BY <3>1, <3>2, <3>3 DEF IInv, WebOK
    <3>5. /\ [x EXCEPT !.text = t, !.at = u] \in Remote
          /\ [x EXCEPT !.text = t, !.at = u].id = x.id
          /\ [x EXCEPT !.text = t, !.at = u].same = x.same
      BY ONLY x \in Remote, t \in Nat, u \in Nat, RemoteIs, Zenon
    <3>6. remote' \in {remote, [x EXCEPT !.text = t, !.at = u]}
      BY <2>2, <3>2, <3>4
    <3> QED
      BY <3>3, <3>5, <3>6, Missings
  <2>4. SiteFaithful'
    BY <1>1, <1>l, <1>x, <2>1, <2>3 DEF Faith, SiteFaithful, Has
  <2> QED
    BY <1>1, <1>l, <2>4, SpokeFaithful
<1>6. CASE Create
  <2>1. remote' \in {remote, Made} /\ Made # None /\ lapses' = lapses
    BY <1>6, CreateIs, MadeIs DEF Create
  <2>2. remote' = Made \/ cycle'.step \in {"pull", "update"}
    <3>1. remote' \in Remote \cup {None} /\ row' = row
      BY <1>1, <1>6, <2>1, MadeIs DEF Create, IInv, WebOK
    <3> QED
      BY <1>6, <3>1, CreateIs, FailedIs
  <2>3. cycle'.step # "erase"
    <3>1. remote' \in Remote \cup {None} /\ row' = row
      BY <1>1, <1>6, <2>1, MadeIs DEF Create, IInv, WebOK
    <3> QED
      BY <1>6, <3>1, CreateIs, FailedIs
  <2>4. SiteFaithful'
    BY <1>1, <1>x, <2>1, <2>2, <2>3 DEF Faith, SiteFaithful
  <2> QED
    BY <1>1, <2>1, <2>4, SpokeFaithful
<1> QED
  BY <1>4, <1>5, <1>6

\* A row that is written without being tombstoned, for the devices as before.
LEMMA RowFaithful ==
    ASSUME Faith, UNCHANGED <<have, owed, call, remote>>, \A d \in Devices : acks'[d] = acks[d],
           Excused => Excused',
           row' # None /\ row'.dead => Excused',
           ~Excused' /\ row' # None => \A d \in Devices : row'.src = d => row # None /\ row.src = d,
           ~Excused' /\ row' # None /\ row'.site # None => remote # None \/ "open" \in lapses',
           cycle'.step \in {"pull", "card"}
    PROVE  Faith'
<1>1. OnlyTheReaderDeletes'
  BY DEF OnlyTheReaderDeletes, Dead, Excused
<1>2. DevicesFaithful'
  BY DEF Faith, DevicesFaithful
<1>3. SiteFaithful'
  BY DEF SiteFaithful
<1> QED
  BY <1>1, <1>2, <1>3 DEF Faith

\* The row gets the id of an annotation that is there.
LEMMA MarkFaithful ==
    ASSUME IInv, Faith, Mark
    PROVE  Faith'
<1>1. /\ cycle.step \in {"uploaded", "erased"} /\ UNCHANGED <<have, owed, call, remote, erased>>
      /\ cycle'.step = "pull" /\ row # None
      /\ \/ cycle.step = "erased" /\ UNCHANGED lapses
         \/ cycle.step = "uploaded" /\ lapses' = lapses \ {"open"}
  BY StepIs DEF Mark, web, Rest, device, reader, Go, Closed
<1>x. Excused' = Excused
  BY <1>1 DEF Excused
<1>2. row \in RowSet /\ acks \in [Parties -> Ack] /\ \A d \in Devices : d \in Parties /\ d # "site"
  BY <1>1, Missings DEF IInv, Confirmed
<1>3. \A d \in Devices : acks'[d] = acks[d]
  BY <1>2 DEF Mark, Acked
<1>4. /\ row' # None => row'.dead = row.dead /\ row'.src = row.src
      /\ row' # None /\ row'.site # None => row.site # None \/ cycle.step = "uploaded"
  <2>1. row' = row \/ (cycle.step = "uploaded" /\ row' = [row EXCEPT !.site = cycle.id])
    BY <1>1 DEF Mark
  <2>2. [row EXCEPT !.site = cycle.id].dead = row.dead /\ [row EXCEPT !.site = cycle.id].src = row.src
    BY <1>2 DEF RowSet
  <2> QED
    BY <2>1, <2>2
<1>5. (row.dead => Excused) /\ (~Excused /\ row.site # None => remote # None \/ "open" \in lapses)
      /\ (~Excused /\ cycle.step = "uploaded" => remote # None)
  BY <1>1 DEF Faith, OnlyTheReaderDeletes, Dead, SiteFaithful, Excused
<1> QED
  BY <1>1, <1>3, <1>4, <1>5, <1>x, RowFaithful

\* Grimmory no longer lists the id only after the reader removed the highlight, or
\* the cycle did.
LEMMA MergeFaithful ==
    ASSUME IInv, Faith, Merge
    PROVE  Faith'
<1>1. /\ UNCHANGED <<have, owed, call, remote, erased>> /\ cycle'.step = "card"
      /\ \/ UNCHANGED <<row, acks, lapses>>
         \/ /\ row' = Merged(Given, remote).row /\ acks' = Merged(Given, remote).acks
            /\ lapses' = IF remote # None THEN Closed ELSE With("torn", Alive /\ "open" \in lapses)
  BY DEF Merge, web, Rest, device, reader, hub, Given
<1>x. Excused => Excused'
  BY <1>1 DEF Excused, Closed, With
<1>2. /\ Given.row = row /\ Given.acks = acks /\ Confirmed(Given.row, Given.acks)
      /\ remote \in Remote \cup {None}
  BY DEF Given, IInv, WebOK
<1>3. /\ row # None /\ row.dead => Excused
      /\ ~Excused /\ row # None /\ row.site # None => remote # None \/ "open" \in lapses
  BY DEF Faith, OnlyTheReaderDeletes, Dead, SiteFaithful, Excused
<1>4. CASE UNCHANGED <<row, acks, lapses>>
  BY <1>1, <1>3, <1>4, <1>x, RowFaithful
<1>5. CASE /\ row' = Merged(Given, remote).row /\ acks' = Merged(Given, remote).acks
           /\ lapses' = IF remote # None THEN Closed ELSE With("torn", Alive /\ "open" \in lapses)
  <2>1. CASE remote # None
    <3>1. (row # None /\ row.dead) \/ ~row'.dead
      BY <1>2, <1>5, <2>1, MergedIs
    <3>2. \A d \in Devices : d # "site"
      BY Missings
    <3>3. /\ row' # None => row'.src = "site" \/ (row # None /\ row'.src = row.src)
          /\ \A d \in Devices : acks'[d] = acks[d]
      BY <1>2, <1>5, MergedIs
    <3> QED
      BY <1>1, <1>3, <1>x, <2>1, <3>1, <3>2, <3>3, RowFaithful
  <2>2. CASE remote = None
    <3>1. UNCHANGED <<row, acks>> \/ (row # None /\ ~row.dead /\ row.site # None)
      BY <1>2, <1>5, <2>2, MergedIs
    <3>2. row # None /\ ~row.dead /\ row.site # None => Excused'
      <4>1. Alive /\ "open" \in lapses => "torn" \in lapses'
        BY <1>5, <2>2 DEF With
      <4> QED
        BY <1>3, <1>x, <2>2, <4>1 DEF Alive, Excused
    <3>3. \A d \in Devices : acks'[d] = acks[d]
      BY <1>2, <1>5, MergedIs
    <3>4. "open" \in lapses => "open" \in lapses'
      BY <1>5, <2>2 DEF With
    <3> QED
      BY <1>1, <1>3, <1>x, <3>1, <3>2, <3>3, <3>4, RowFaithful
  <2> QED
    BY <2>1, <2>2
<1> QED
  BY <1>1, <1>4, <1>5

\* The notes at Hardcover, and a restart, touch no highlight.
LEMMA CardFaithful ==
    ASSUME IInv, Faith, Card \/ Restart
    PROVE  Faith'
<1>1. UNCHANGED <<row, have, owed, call, remote, lapses, erased>>
  BY DEF Card, CardLook, CardRows, CardWrite, CardAck, Restart, hub, web, Rest, device, reader
<1>x. Excused' = Excused
  BY <1>1 DEF Excused
<1>2. \A d \in Devices : acks'[d] = acks[d]
  <2>1. acks \in [Parties -> Ack] /\ \A d \in Devices : d \in Parties /\ d # "card"
    BY Missings DEF IInv, Confirmed
  <2>2. UNCHANGED acks \/ \E n, b : acks' = [Acked(acks, "card", n) EXCEPT !["card"].dead = b]
    BY DEF Card, CardLook, CardRows, CardWrite, CardAck, Restart, hub
  <2> QED
    BY <2>1, <2>2 DEF Acked
<1>3. cycle'.step \in {"idle", "rows", "notes", "noted"}
  <2>1. cycle' = Idle => cycle'.step = "idle"
    BY DEF Idle
  <2>2. CardWrite => cycle' = Idle \/ cycle'.step = "noted"
    BY StepIs DEF CardWrite, Go, Notes
  <2>3. CardLook => cycle' = Idle \/ cycle'.step = "rows"
    BY DEF CardLook
  <2>4. CardRows => cycle' = Idle \/ cycle'.step = "notes"
    BY DEF CardRows
  <2>5. CardAck \/ Restart => cycle' = Idle
    BY DEF CardAck, Restart
  <2> QED
    BY <2>1, <2>2, <2>3, <2>4, <2>5 DEF Card
<1>4. OnlyTheReaderDeletes'
  BY <1>1 DEF Faith, OnlyTheReaderDeletes, Dead
<1>5. DevicesFaithful'
  BY <1>1, <1>2, <1>x DEF Faith, DevicesFaithful
<1>6. SiteFaithful'
  BY <1>1, <1>3, <1>x DEF Faith, SiteFaithful
<1> QED
  BY <1>4, <1>5, <1>6 DEF Faith

\* Every step is faithful.
LEMMA StepFaithful ==
    ASSUME IInv, Faith, Repairing = {}, [Next]_vars
    PROVE  Faith'
<1>1. CASE UNCHANGED vars
  BY <1>1 DEF vars, Faith, OnlyTheReaderDeletes, Dead, DevicesFaithful, SiteFaithful, Excused
<1>2. CASE Site
  BY <1>2, PlanFaithful, WriteFaithful, MarkFaithful, MergeFaithful DEF Site
<1> QED
  BY <1>1, <1>2, ReaderFaithful, DeviceFaithful, CardFaithful DEF Next

\* There is nothing to be faithful to at first.
LEMMA InitFaithful == Init => Faith
<1> SUFFICES ASSUME Init PROVE Faith
  OBVIOUS
<1>1. row = None /\ cycle.step = "idle"
  BY DEF Init, Idle
<1>2. \A d \in Devices : have[d] = None /\ owed[d] = {} /\ call[d] = None /\ acks[d].ver = 0
  BY Missings DEF Init
<1>3. OnlyTheReaderDeletes /\ SiteFaithful
  BY <1>1 DEF OnlyTheReaderDeletes, Dead, SiteFaithful
<1>4. DevicesFaithful
  BY <1>1, <1>2 DEF DevicesFaithful
<1> QED
  BY <1>3, <1>4 DEF Faith

\* Where no build of the EPUB makes a device search for the passage, the row is
\* tombstoned only after the reader has removed the highlight somewhere: no key
\* that is missing from a list, no id that Grimmory no longer lists and no failed
\* request is taken for a deletion, but for the two ways the code leaves: the pull
\* after an annotation with another anchor was removed and its new copy refused, and
\* the late upload of a file that is older than the book.
THEOREM OnlyReadersDelete ==
    ASSUME Repairing = {}
    PROVE  Spec => []OnlyTheReaderDeletes
<1>1. IInv /\ Faith /\ [Next]_vars => Faith'
  BY StepFaithful
<1>2. Faith => OnlyTheReaderDeletes
  BY DEF Faith
<1> QED
  BY <1>1, <1>2, InitFaithful, Inductive, PTL DEF Spec

-----------------------------------------------------------------------------
(* A version stands for one text: what is acknowledged by its number is      *)
(* known.                                                                    *)

\* A row is there for good, its version never goes down, and another text or
\* tombstone is another version.
Advances(r, s) ==
    IF r = None THEN s # None => s.ver > 0
    ELSE s # None /\ (s.ver > r.ver \/ (s.ver = r.ver /\ s.text = r.text /\ s.dead = r.dead))

\* A row that is left alone advances.
LEMMA StillAdvances == ASSUME NEW r \in RowSet \cup {None} PROVE Advances(r, r)
BY DEF Advances, RowSet

\* An upload is a new version, or changes nothing.
LEMMA UploadAdvances ==
    ASSUME NEW h, Confirmed(h.row, h.acks), NEW d \in Devices, NEW e \in Content
    PROVE  Advances(h.row, Upload(h, d, e).row)
<1>t. e.text \in Nat /\ e.at \in Nat /\ d \in Devices \cup {"site"}
  BY DEF Content
<1>r. h.row \in RowSet \cup {None}
  BY DEF Confirmed
<1>1. CASE h.row = None
  <2>1. Upload(h, d, e).row = NewRow(d, e.text, e.at, None)
    BY <1>1 DEF Upload
  <2>2. NewRow(d, e.text, e.at, None).ver = 1
    BY DEF NewRow
  <2> QED
    BY <1>1, <2>1, <2>2 DEF Advances
<1>2. CASE h.row # None
  <2> DEFINE w == Written(h.row, d, e.text, e.at)
  <2>1. w \in RowSet /\ w.ver = h.row.ver + 1 /\ h.row.ver \in Nat
    <3>1. PICK r \in RowSet : r = h.row
      BY <1>2, <1>r
    <3>2. PICK t \in Nat : t = e.text
      BY <1>t
    <3>3. PICK u \in Nat : u = e.at
      BY <1>t
    <3>4. Written(r, d, t, u) \in RowSet /\ Written(r, d, t, u).ver = r.ver + 1
      BY ONLY <1>t, <3>1, <3>2, <3>3, r \in RowSet, t \in Nat, u \in Nat, WrittenIs
    <3>5. r.ver \in Nat
      BY DEF RowSet
    <3> QED
      BY <3>1, <3>2, <3>3, <3>4, <3>5
  <2>2. Upload(h, d, e).row \in {h.row, w, [w EXCEPT !.dead = FALSE]}
    BY <1>2 DEF Upload
  <2> HIDE DEF w
  <2> DEFINE v == [w EXCEPT !.dead = FALSE]
  <2>3. v.ver = w.ver /\ v \in RowSet
    BY <2>1 DEF RowSet
  <2> DEFINE u == Upload(h, d, e).row
  <2>5. u \in {h.row, w, v}
    BY <2>2
  <2> HIDE DEF v, u
  <2>6. u = h.row \/ (u \in RowSet /\ u.ver > h.row.ver)
    BY <2>1, <2>3, <2>5
  <2>7. Upload(h, d, e).row = u
    BY DEF u
  <2>8. u # h.row => u # None /\ u.ver > h.row.ver
    BY <2>6, Missings
  <2> QED
    BY <1>2, <1>r, <2>7, <2>8, StillAdvances DEF Advances
<1> QED
  BY <1>1, <1>2

\* So is a tombstone.
LEMMA TombstonedAdvances ==
    ASSUME NEW h, h.row \in RowSet, NEW p
    PROVE  /\ Advances(h.row, Tombstoned(h, p).row)
           /\ Tombstoned(h, p).row # None
<1>1. Tombstoned(h, p).row = [h.row EXCEPT !.dead = TRUE, !.ver = @ + 1]
  BY DEF Tombstoned
<1> DEFINE g == h.row
<1>2. g \in RowSet
  OBVIOUS
<1> HIDE DEF g
<1>3. SUFFICES ASSUME NEW x, x = [g EXCEPT !.dead = TRUE, !.ver = @ + 1]
               PROVE  x # None /\ Advances(g, x)
  BY <1>1 DEF g
<1>4. /\ g = [ver |-> g.ver, dead |-> g.dead, text |-> g.text, at |-> g.at, src |-> g.src, site |-> g.site]
      /\ g.ver \in Nat /\ g.ver + 1 \in Nat /\ g.ver + 1 > g.ver
  BY <1>2 DEF RowSet
<1>5. x = [ver |-> g.ver + 1, dead |-> TRUE, text |-> g.text, at |-> g.at, src |-> g.src, site |-> g.site]
  BY <1>3, <1>4
<1>6. x \in RowSet /\ x.ver > g.ver
  BY <1>2, <1>4, <1>5 DEF RowSet
<1>7. g # None /\ x # None
  BY <1>2, <1>6, Missings
<1> QED
  BY <1>6, <1>7 DEF Advances

\* The acknowledgements of the other parties are left alone by a tombstone.
LEMMA TombstonedOthers ==
    ASSUME NEW h, h.acks \in [Parties -> Ack], NEW p \in Parties, h.row.ver \in Nat, NEW q \in Parties, q # p
    PROVE  Tombstoned(h, p).acks[q] = h.acks[q]
<1> DEFINE a == Acked(h.acks, p, h.row.ver + 1)
<1>1. h.row.ver + 1 \in Nat
  OBVIOUS
<1>2. a \in [Parties -> Ack] /\ a[q] = h.acks[q]
  BY <1>1, AckedIs
<1>3. Tombstoned(h, p).acks = [a EXCEPT ![p].dead = TRUE]
  BY DEF Tombstoned
<1> HIDE DEF a
<1> QED
  BY <1>2, <1>3

\* What Grimmory lists is a new version when its text differs, and the notes at
\* Hardcover have not heard of it.
LEMMA MergedAdvances ==
    ASSUME NEW h, Confirmed(h.row, h.acks), NEW got \in Remote \cup {None}
    PROVE  /\ Advances(h.row, Merged(h, got).row)
           /\ Merged(h, got).acks["card"] = h.acks["card"]
<1>a. /\ h.acks \in [Parties -> Ack] /\ h.row \in RowSet \cup {None}
      /\ "card" \in Parties /\ "site" \in Parties
  BY Missings DEF Confirmed
<1>s. PICK p \in Parties : p = "site"
  BY <1>a
<1>q. PICK q \in Parties : q = "card"
  BY <1>a
<1>p. q # p
  BY <1>s, <1>q
<1>r. h.row # None => h.row.ver \in Nat
  BY <1>a DEF RowSet
<1>1. CASE got # None /\ h.row = None
  <2>1. /\ Merged(h, got).row = NewRow(p, got.text, got.at, got.id)
        /\ Merged(h, got).acks = Acked(h.acks, p, 1)
    BY <1>1, <1>s DEF Merged
  <2>2. NewRow(p, got.text, got.at, got.id).ver = 1
    BY DEF NewRow
  <2>3. Acked(h.acks, p, 1)[q] = h.acks[q]
    <3>1. PICK a \in [Parties -> Ack] : a = h.acks
      BY <1>a
    <3>2. Acked(a, p, 1)[q] = a[q]
      BY <1>p, AckedIs
    <3> QED
      BY <3>1, <3>2
  <2> QED
    BY <1>1, <1>q, <2>1, <2>2, <2>3 DEF Advances
<1>2. CASE got # None /\ h.row # None /\ ~h.row.dead
  <2> DEFINE w == Written(h.row, p, got.text, got.at)
             r == IF h.row.text # got.text THEN w ELSE h.row
             s == [r EXCEPT !.site = got.id]
  <2>1. Merged(h, got).row = s /\ Merged(h, got).acks = Acked(h.acks, p, r.ver)
    BY <1>2, <1>s DEF Merged
  <2>2. w \in RowSet /\ w.ver = h.row.ver + 1
    <3>0. got.text \in Nat /\ got.at \in Nat
      BY <1>2 DEF Remote
    <3>1. PICK x \in RowSet : x = h.row
      BY <1>2, <1>a
    <3>2. PICK t \in Nat : t = got.text
      BY <3>0
    <3>3. PICK u \in Nat : u = got.at
      BY <3>0
    <3>4. PICK f \in Devices \cup {"site"} : f = p
      BY <1>s
    <3>5. Written(x, f, t, u) \in RowSet /\ Written(x, f, t, u).ver = x.ver + 1
      BY ONLY x \in RowSet, t \in Nat, u \in Nat, f \in Devices \cup {"site"}, WrittenIs
    <3> QED
      BY <3>1, <3>2, <3>3, <3>4, <3>5
  <2> HIDE DEF w
  <2>3. r \in RowSet /\ (r = h.row \/ r.ver = h.row.ver + 1) /\ r.ver \in Nat
    BY <1>2, <1>a, <2>2 DEF RowSet
  <2> HIDE DEF r
  <2>4. s.ver = r.ver /\ s.text = r.text /\ s.dead = r.dead /\ s \in RowSet
    <3>1. got.id \in Nat \cup {None}
      BY <1>2 DEF Remote
    <3> QED
      BY <2>3, <3>1 DEF RowSet
  <2> HIDE DEF s
  <2>5. s # None
    BY <2>4, Missings
  <2>6. Acked(h.acks, p, r.ver)[q] = h.acks[q]
    <3>1. PICK a \in [Parties -> Ack] : a = h.acks
      BY <1>a
    <3>2. PICK v \in Nat : v = r.ver
      BY <2>3
    <3>3. Acked(a, p, v)[q] = a[q]
      BY <1>p, AckedIs
    <3> QED
      BY <3>1, <3>2, <3>3
  <2>7. s.ver > h.row.ver \/ (s.ver = h.row.ver /\ s.text = h.row.text /\ s.dead = h.row.dead)
    BY <1>2, <1>r, <2>3, <2>4
  <2> QED
    BY <1>2, <1>q, <2>1, <2>5, <2>6, <2>7 DEF Advances
<1>3. CASE got = None /\ h.row # None /\ ~h.row.dead /\ h.row.site # None
  <2>1. Merged(h, got) = Tombstoned(h, p)
    BY <1>3, <1>s DEF Merged
  <2>2. h.row \in RowSet
    BY <1>3, <1>a
  <2> QED
    BY <1>3, <1>a, <1>p, <1>q, <1>r, <2>1, <2>2, TombstonedAdvances, TombstonedOthers
<1>4. CASE ~(got # None /\ h.row = None) /\ ~(got # None /\ h.row # None /\ ~h.row.dead)
           /\ ~(got = None /\ h.row # None /\ ~h.row.dead /\ h.row.site # None)
  <2>1. Merged(h, got) = h
    BY <1>4 DEF Merged
  <2> QED
    BY <1>a, <2>1, StillAdvances
<1> QED
  BY <1>1, <1>2, <1>3, <1>4

\* What an exchange makes of the row.
LEMMA ServedAdvances ==
    ASSUME IInv, NEW d \in Devices, NEW mode \in Modes, NEW e \in Content \cup {None}
    PROVE  Advances(row, Served(d, Prepared(d, mode, e)).row)
<1> DEFINE sent == Prepared(d, mode, e)
           h == Served(d, sent)
<1>1. Given.row = row /\ Given.acks = acks /\ Confirmed(Given.row, Given.acks)
  BY DEF Given, IInv
<1>2. row \in RowSet \cup {None}
  BY DEF IInv, Confirmed
<1>3. ASSUME sent.upload PROVE Advances(row, h.row)
  <2>1. e \in Content /\ h = Upload(Given, d, e)
    BY <1>3, ServedIs
  <2> HIDE DEF h
  <2> QED
    BY <1>1, <2>1, UploadAdvances
<1>4. ASSUME h = Given PROVE Advances(row, h.row)
  <2> HIDE DEF h
  <2> QED
    BY <1>1, <1>2, <1>4, StillAdvances
<1>5. ASSUME h = Tombstoned(Given, d), row # None PROVE Advances(row, h.row)
  <2>1. Given.row \in RowSet
    BY <1>1, <1>2, <1>5
  <2> HIDE DEF h
  <2> QED
    BY <1>1, <1>5, <2>1, TombstonedAdvances
<1> QED
  BY <1>3, <1>4, <1>5, ServedIs

\* Every step advances the row, or leaves it alone.
LEMMA StepAdvances ==
    ASSUME IInv, [Next]_vars
    PROVE  Advances(row, row')
<1>r. row \in RowSet \cup {None}
  BY DEF IInv, Confirmed
<1>1. ASSUME UNCHANGED row PROVE Advances(row, row')
  BY <1>1, <1>r, StillAdvances
<1>2. ASSUME NEW d \in Devices, Device(d) PROVE Advances(row, row')
  <2>1. ASSUME NEW mode \in Modes, Exchange(d, mode) PROVE Advances(row, row')
    <3>1. PICK e \in Read(d, mode) : row' = Served(d, Prepared(d, mode, e)).row
      BY <2>1 DEF Exchange
    <3>2. e \in Content \cup {None}
      BY ReadIs
    <3> QED
      BY <3>1, <3>2, ServedAdvances
  <2> QED
    BY <1>1, <1>2, <2>1 DEF Device, Finish, FinishUnconfirmed
<1>3. ASSUME Mark PROVE Advances(row, row')
  <2>1. row # None /\ cycle.id \in Nat \cup {None}
    BY <1>3, StepIs DEF Mark
  <2>2. row' = row \/ row' = [row EXCEPT !.site = cycle.id]
    BY <1>3 DEF Mark
  <2>3. ASSUME row' = [row EXCEPT !.site = cycle.id] PROVE Advances(row, row')
    <3>1. row' \in RowSet /\ row'.ver = row.ver /\ row'.text = row.text /\ row'.dead = row.dead
      BY <1>r, <2>1, <2>3 DEF RowSet
    <3> QED
      BY <2>1, <3>1, Missings DEF Advances
  <2> QED
    BY <1>1, <2>2, <2>3
<1>4. ASSUME Merge PROVE Advances(row, row')
  <2>1. UNCHANGED row \/ row' = Merged(Given, remote).row
    BY <1>4 DEF Merge, Given, hub
  <2>2. Confirmed(Given.row, Given.acks) /\ Given.row = row /\ remote \in Remote \cup {None}
    BY DEF Given, IInv, WebOK
  <2> QED
    BY <1>1, <2>1, <2>2, MergedAdvances
<1>5. Reader => UNCHANGED row
  BY DEF Reader, CreateOnDevice, EditOnDevice, DeleteOnDevice, Close, CreateOnSite, EditOnSite, DeleteOnSite,
         Moved, hub
<1>6. Plan \/ Erase \/ Update \/ Create => UNCHANGED row
  BY DEF Plan, Erase, Update, Create, hub
<1>7. Card \/ Restart => UNCHANGED row
  BY DEF Card, CardLook, CardRows, CardWrite, CardAck, Restart, hub
<1>8. UNCHANGED vars => UNCHANGED row
  BY DEF vars
<1> QED
  BY <1>1, <1>2, <1>3, <1>4, <1>5, <1>6, <1>7, <1>8 DEF Next, Site

\* A version number stands for one text and one state of the tombstone, and none
\* is taken back: whoever acknowledges the number knows the row, which is what
\* lets the hub leave out of a delta all that is acknowledged.
THEOREM VersionsAreTexts == Spec => [][Advances(row, row')]_vars
<1>1. IInv /\ [Next]_vars => Advances(row, row')
  BY StepAdvances
<1> QED
  BY <1>1, Inductive, PTL DEF Spec

-----------------------------------------------------------------------------
(* The notes at Hardcover are what the hub takes them for.                   *)

CardSteps == {"rows", "notes", "noted"}

\* What the cycle carries to the notes is not acknowledged yet, is the text of
\* the version it goes by, and is in the notes once it was written.
CardSound ==
    /\ cycle.step \in CardSteps /\ Alive => acks["card"].ver < row.ver
    /\ cycle.step \in {"notes", "noted"} /\ Alive /\ cycle.ver = row.ver => cycle.text = row.text
    /\ cycle.step = "noted" => card = cycle.text
    /\ Alive /\ acks["card"].ver >= row.ver => card = row.text

\* Another party's acknowledgement leaves that of the notes alone.
LEMMA OthersKeepCard ==
    ASSUME IInv, NEW d \in Devices, Device(d)
    PROVE  acks'["card"] = acks["card"]
<1>1. "card" \in Parties /\ d # "card"
  BY Missings
<1>2. PICK q \in Parties : q = "card"
  BY <1>1
<1>3. q # d
  BY <1>1, <1>2
<1>4. ASSUME NEW mode \in Modes, Exchange(d, mode) PROVE acks'[q] = acks[q]
  <2>1. PICK e \in Read(d, mode) : acks' = Served(d, Prepared(d, mode, e)).acks
    BY <1>4 DEF Exchange
  <2>2. e \in Content \cup {None}
    BY ReadIs
  <2> QED
    BY <1>3, <2>1, <2>2, ServedKeeps
<1>5. ASSUME call[d] # None, Confirm(d, call[d]) PROVE acks'[q] = acks[q]
  BY <1>3, <1>5, ConfirmIs
<1>6. acks'[q] = acks[q]
  BY <1>4, <1>5, <1>2 DEF Device, Finish, FinishUnconfirmed
<1> QED
  BY <1>2, <1>6

\* A row that advances elsewhere, while the cycle waits or goes on to something
\* else.
LEMMA CardQuiet ==
    ASSUME IInv, CardSound, Advances(row, row'), row' \in RowSet \cup {None},
           acks'["card"] = acks["card"], card' = card,
           cycle' = cycle \/ cycle'.step \notin CardSteps
    PROVE  CardSound'
<1>1. /\ row # None => row.ver \in Nat
      /\ row' # None => row'.ver \in Nat
      /\ acks["card"].ver \in Nat
      /\ acks["card"].ver > 0 => row # None /\ acks["card"].ver <= row.ver
  BY Missings DEF IInv, Confirmed, RowSet, Ack
<1>2. Alive' => acks["card"].ver < row'.ver \/ (Alive /\ row'.ver = row.ver /\ row'.text = row.text)
  BY <1>1 DEF Alive, Advances
<1>3. ASSUME cycle' = cycle, cycle.step \in {"notes", "noted"}, Alive', cycle.ver = row'.ver
      PROVE  Alive /\ row'.ver = row.ver /\ row'.text = row.text
  <2>1. cycle.ver \in Nat /\ (cycle.ver > 0 => row # None /\ cycle.ver <= row.ver)
    BY <1>3, StepIs DEF Notes, IInv, CycleOK
  <2>2. row' # None
    BY <1>3 DEF Alive
  <2> QED
    BY <1>1, <1>3, <2>1, <2>2 DEF Alive, Advances
<1>4. CASE cycle' = cycle
  <2>1. cycle.step \in CardSteps /\ Alive' => acks'["card"].ver < row'.ver
    BY <1>1, <1>2, <1>4 DEF CardSound
  <2>2. cycle.step \in {"notes", "noted"} /\ Alive' /\ cycle.ver = row'.ver => cycle.text = row'.text
    BY <1>3, <1>4 DEF CardSound
  <2>3. Alive' /\ acks'["card"].ver >= row'.ver => card' = row'.text
    <3>1. Alive' => row'.ver \in Nat
      BY <1>1 DEF Alive
    <3> QED
      BY <1>1, <1>2, <3>1 DEF CardSound
  <2> QED
    BY <1>4, <2>1, <2>2, <2>3 DEF CardSound
<1>5. CASE cycle'.step \notin CardSteps
  <2>1. Alive' /\ acks'["card"].ver >= row'.ver => card' = row'.text
    <3>1. Alive' => row'.ver \in Nat
      BY <1>1 DEF Alive
    <3> QED
      BY <1>1, <1>2, <3>1 DEF CardSound
  <2> QED
    BY <1>5, <2>1 DEF CardSound, CardSteps
<1> QED
  BY <1>4, <1>5

\* What each step of the cycle in the notes hands to the next.
LEMMA CardStep ==
    ASSUME IInv, CardSound, Card
    PROVE  CardSound'
<1>0. row' = row /\ (Alive' <=> Alive)
  BY DEF Card, CardLook, CardRows, CardWrite, CardAck, hub, Alive
<1>i. Idle.step \notin CardSteps
  BY DEF Idle, CardSteps
<1>1. CASE CardLook
  <2>1. acks' = acks /\ card' = card
    BY <1>1 DEF CardLook, hub, web
  <2>2. CASE cycle' = Idle
    BY <1>0, <1>i, <2>1, <2>2 DEF CardSound, CardSteps
  <2>3. CASE cycle' # Idle
    <3>1. cycle'.step = "rows"
      BY <1>1, <2>3 DEF CardLook
    <3>2. (Alive /\ acks["card"].ver < row.ver) \/ Dead
      BY <1>1, <2>3 DEF CardLook
    <3>3. Alive => acks["card"].ver < row.ver
      BY <3>2 DEF Alive, Dead
    <3> QED
      BY <1>0, <2>1, <3>1, <3>3 DEF CardSound, CardSteps
  <2> QED
    BY <2>2, <2>3
<1>2. CASE CardRows
  <2>1. acks' = acks /\ card' = card /\ cycle.step = "rows"
    BY <1>2 DEF CardRows, hub, web
  <2>2. CASE cycle' = Idle
    BY <1>0, <1>i, <2>1, <2>2 DEF CardSound, CardSteps
  <2>3. CASE cycle' # Idle
    <3>1. /\ cycle'.step = "notes"
          /\ cycle'.text = IF Alive THEN row.text ELSE None
      BY <1>2, <2>3 DEF CardRows
    <3> QED
      BY <1>0, <2>1, <3>1 DEF CardSound, CardSteps
  <2> QED
    BY <2>2, <2>3
<1>3. CASE CardWrite
  <2>1. acks' = acks /\ cycle.step = "notes"
    BY <1>3 DEF CardWrite, hub
  <2>2. Alive => acks["card"].ver < row.ver
    BY <2>1 DEF CardSound, CardSteps
  <2>3. ~(Alive /\ acks["card"].ver >= row.ver)
    <3>1. Alive => acks["card"].ver \in Nat /\ row.ver \in Nat
      BY Missings DEF Alive, IInv, Confirmed, RowSet, Ack
    <3> QED
      BY <2>2, <3>1
  <2>4. CASE cycle' = Idle
    BY <1>0, <1>i, <2>1, <2>3, <2>4 DEF CardSound, CardSteps
  <2>5. CASE card' = cycle.text /\ Go("noted")
    <3>1. cycle' = [cycle EXCEPT !.step = "noted"] /\ cycle \in Notes
      BY <2>1, <2>5, StepIs DEF Go
    <3>2. cycle'.step = "noted" /\ cycle'.text = cycle.text /\ cycle'.ver = cycle.ver
      BY <3>1 DEF Notes
    <3>3. Alive /\ cycle.ver = row.ver => cycle.text = row.text
      BY <2>1 DEF CardSound
    <3> QED
      BY <1>0, <2>1, <2>2, <2>3, <2>5, <3>2, <3>3 DEF CardSound, CardSteps
  <2> QED
    BY <1>3, <2>4, <2>5 DEF CardWrite
<1>4. CASE CardAck
  <2>1. /\ card' = card /\ cycle' = Idle /\ cycle.step = "noted"
        /\ acks' = [Acked(acks, "card", cycle.ver) EXCEPT !["card"].dead = @ \/ cycle.gone]
    BY <1>4 DEF CardAck, web
  <2>2. card = cycle.text
    BY <2>1 DEF CardSound
  <2>3. /\ cycle.ver \in Nat /\ (cycle.ver > 0 => row # None /\ cycle.ver <= row.ver)
        /\ acks \in [Parties -> Ack] /\ acks["card"].ver \in Nat /\ "card" \in Parties
    BY <2>1, StepIs, Missings DEF Notes, IInv, CycleOK, Confirmed, Ack
  <2>4. acks'["card"].ver = Higher(acks["card"].ver, cycle.ver)
    <3> DEFINE a == Acked(acks, "card", cycle.ver)
    <3>1. PICK p \in Parties : p = "card"
      BY <2>3
    <3>2. PICK v \in Nat : v = cycle.ver
      BY <2>3
    <3>3. Acked(acks, p, v) \in [Parties -> Ack] /\ Acked(acks, p, v)[p].ver = Higher(acks[p].ver, v)
      BY <2>3, AckedIs
    <3>4. a \in [Parties -> Ack] /\ a["card"].ver = Higher(acks["card"].ver, cycle.ver)
      BY <3>1, <3>2, <3>3
    <3>5. acks' = [a EXCEPT !["card"].dead = (a["card"].dead \/ cycle.gone)]
      BY <2>1
    <3> HIDE DEF a
    <3>6. PICK b \in BOOLEAN : b = (a["card"].dead \/ cycle.gone)
      OBVIOUS
    <3>7. acks' = [a EXCEPT !["card"].dead = b]
      BY <3>5, <3>6
    <3>8. acks'["card"].ver = a["card"].ver
      BY <2>3, <3>4, <3>7 DEF Ack
    <3> QED
      BY <3>4, <3>8
  <2>5. Alive => acks["card"].ver < row.ver /\ row.ver \in Nat
    <3>1. Alive => row.ver \in Nat
      BY DEF Alive, IInv, Confirmed, RowSet
    <3> QED
      BY <2>1, <3>1 DEF CardSound, CardSteps
  <2>6. ASSUME Alive, acks'["card"].ver >= row.ver PROVE card = row.text
    <3>1. cycle.ver = row.ver
      BY <2>3, <2>4, <2>5, <2>6 DEF Higher
    <3> QED
      BY <2>1, <2>2, <2>6, <3>1 DEF CardSound
  <2> QED
    BY <1>0, <1>i, <2>1, <2>6 DEF CardSound, CardSteps
<1> QED
  BY <1>1, <1>2, <1>3, <1>4 DEF Card

\* The steps of the cycle at Grimmory leave the notes alone.
LEMMA SiteLeavesCard ==
    ASSUME IInv, Site
    PROVE  acks'["card"] = acks["card"] /\ card' = card /\ cycle'.step \notin CardSteps
<1>1. card' = card
  BY DEF Site, Plan, Erase, Update, Create, Mark, Merge, web
<1>2. cycle'.step \notin CardSteps
  <2>1. ASSUME NEW to, Go(to), to \in {"erased", "recreate", "pull", "uploaded"},
               cycle.step \in {"create", "recreate", "update", "replace", "erase", "erased", "uploaded"}
        PROVE  cycle'.step \notin CardSteps
    <3>1. CASE to = "pull"
      BY <2>1, <3>1 DEF Go, CardSteps
    <3>2. CASE to # "pull"
      <4>1. cycle' = [cycle EXCEPT !.step = to] /\ cycle \in Planned
        BY <2>1, <3>2, StepIs DEF Go
      <4>2. cycle'.step = to
        BY <4>1 DEF Planned
      <4> QED
        BY <2>1, <4>2 DEF CardSteps
    <3> QED
      BY <3>1, <3>2
  <2>2. Plan => cycle'.step \notin CardSteps
    <3>1. ASSUME Plan PROVE cycle'.step \in {"pull", "card", "erase", "create", "update", "replace"}
      BY <3>1 DEF Plan
    <3> QED
      BY <3>1 DEF CardSteps
  <2>3. Erase => cycle'.step \notin CardSteps
    BY <2>1 DEF Erase
  <2>4. Update => cycle'.step \notin CardSteps
    BY <2>1 DEF Update
  <2>5. Create => cycle'.step \notin CardSteps
    <3>1. ASSUME Create PROVE cycle'.step = "uploaded" \/ Failed
      BY <3>1, CreateIs
    <3>2. ASSUME Create, Failed PROVE cycle'.step \in {"update", "pull"}
      <4>1. row' = row /\ remote' \in Remote \cup {None} /\ cycle.step \in {"create", "recreate"}
        BY <3>2, CreateIs, MadeIs DEF hub, IInv, WebOK
      <4> QED
        BY <3>2, <4>1, FailedIs
    <3> QED
      BY <3>1, <3>2 DEF CardSteps
  <2>6. Mark => cycle'.step \notin CardSteps
    BY <2>1 DEF Mark
  <2>7. Merge => cycle'.step \notin CardSteps
    BY DEF Merge, CardSteps
  <2> QED
    BY <2>2, <2>3, <2>4, <2>5, <2>6, <2>7 DEF Site
<1>3. acks'["card"] = acks["card"]
  <2>1. ASSUME Merge PROVE acks'["card"] = acks["card"]
    <3>1. acks' = acks \/ acks' = Merged(Given, remote).acks
      BY <2>1 DEF Merge, Given, hub
    <3>2. Confirmed(Given.row, Given.acks) /\ Given.acks = acks /\ remote \in Remote \cup {None}
      BY DEF Given, IInv, WebOK
    <3> QED
      BY <3>1, <3>2, MergedAdvances
  <2>2. ASSUME Mark PROVE acks'["card"] = acks["card"]
    <3>1. acks \in [Parties -> Ack]
      BY DEF IInv, Confirmed
    <3> QED
      BY <2>2, <3>1, Missings DEF Mark, Acked
  <2> QED
    BY <2>1, <2>2 DEF Site, Plan, Erase, Update, Create, hub
<1> QED
  BY <1>1, <1>2, <1>3

\* Every step keeps the notes sound.
LEMMA CardSoundStep ==
    ASSUME IInv, IInv', CardSound, [Next]_vars
    PROVE  CardSound'
<1>1. Advances(row, row')
  BY StepAdvances
<1>2. row' \in RowSet \cup {None}
  BY DEF IInv, Confirmed
<1>3. ASSUME UNCHANGED <<acks, card, cycle>> PROVE CardSound'
  BY <1>1, <1>2, <1>3, CardQuiet
<1>4. Reader => UNCHANGED <<acks, card, cycle>>
  BY DEF Reader, CreateOnDevice, EditOnDevice, DeleteOnDevice, Close, CreateOnSite, EditOnSite, DeleteOnSite,
         Moved, hub, web
<1>5. ASSUME NEW d \in Devices, Device(d) PROVE CardSound'
  <2>1. UNCHANGED <<card, cycle>>
    BY <1>5 DEF Device, Exchange, Finish, FinishUnconfirmed, web
  <2> QED
    BY <1>1, <1>2, <1>5, <2>1, OthersKeepCard, CardQuiet
<1>6. Site => CardSound'
  BY <1>1, <1>2, SiteLeavesCard, CardQuiet
<1>7. Restart => CardSound'
  <2>1. Restart => UNCHANGED <<acks, card>> /\ cycle'.step \notin CardSteps
    BY DEF Restart, hub, web, Idle, CardSteps
  <2> QED
    BY <1>1, <1>2, <2>1, CardQuiet
<1>8. UNCHANGED vars => UNCHANGED <<acks, card, cycle>>
  BY DEF vars
<1> QED
  BY <1>3, <1>4, <1>5, <1>6, <1>7, <1>8, CardStep DEF Next

\* There is no row to note at first.
LEMMA InitCard == Init => CardSound
BY DEF Init, CardSound, CardSteps, Alive, Idle

-----------------------------------------------------------------------------
(* A deletion that was confirmed is final, as long as KOReader removes what  *)
(* it is told to remove.                                                     *)

\* A device that confirmed the deletion has no entry that it would send again, and
\* none is under way to it; it is told of a deletion only while the row is dead.
DeathSound ==
    /\ row # None => clock # 0
    /\ Intact => \A d \in Devices :
          /\ acks[d].dead => Dead /\ (have[d] = None \/ ~have[d].same) /\ call[d] = None
          /\ call[d] # None /\ call[d].todo = "delete" => Dead

\* Faults that happened have happened.
LEMMA IntactStays ==
    ASSUME IInv, [Next]_vars
    PROVE  /\ Intact' => Intact
           /\ Intact' => ~Spend("stuck")
<1>l. "stale" \in lapses => "stale" \in lapses'
  <2>1. ASSUME NEW d \in Devices, NEW mode \in Modes, Exchange(d, mode)
        PROVE  "stale" \in lapses => "stale" \in lapses'
    BY <2>1 DEF Exchange, With
  <2>2. ASSUME NEW d \in Devices, Device(d) PROVE "stale" \in lapses => "stale" \in lapses'
    BY <2>1, <2>2 DEF Device, Finish, FinishUnconfirmed
  <2>3. Reader => UNCHANGED lapses
    BY DEF Reader, CreateOnDevice, EditOnDevice, DeleteOnDevice, Close, CreateOnSite, EditOnSite, DeleteOnSite,
           Moved
  <2>4. Erase \/ Mark \/ Merge => ("stale" \in lapses => "stale" \in lapses')
    BY DEF Erase, Mark, Merge, With, Closed
  <2>5. Plan \/ Update \/ Create => UNCHANGED lapses
    BY DEF Plan, Update, Create
  <2>6. Card \/ Restart => UNCHANGED lapses
    BY DEF Card, CardLook, CardRows, CardWrite, CardAck, Restart
  <2>7. UNCHANGED vars => UNCHANGED lapses
    BY DEF vars
  <2> QED
    BY <2>2, <2>3, <2>4, <2>5, <2>6, <2>7 DEF Next, Site
<1>s. spent \in [Kinds -> Nat] /\ "stuck" \in Kinds /\ spent["stuck"] \in Nat
  BY KindsAre DEF IInv, ReaderOK
<1>1. UNCHANGED spent \/ \E k \in Kinds : spent' = [spent EXCEPT ![k] = @ + 1]
  <2>0. ASSUME NEW k \in Kinds, Spend(k) PROVE \E j \in Kinds : spent' = [spent EXCEPT ![j] = @ + 1]
    BY <2>0 DEF Spend
  <2>k. {"edits", "deletes", "sweeps", "closes", "moves", "lost", "refused", "stuck", "restart"} \subseteq Kinds
    BY KindsAre
  <2>1. Reader => UNCHANGED spent \/ \E k \in Kinds : Spend(k)
    BY <2>k DEF Reader, CreateOnDevice, EditOnDevice, DeleteOnDevice, Close, CreateOnSite, EditOnSite,
              DeleteOnSite, Moved
  <2>2. ASSUME NEW d \in Devices, Device(d) PROVE UNCHANGED spent \/ \E k \in Kinds : Spend(k)
    BY <2>2, <2>k DEF Device, Exchange, Finish, Apply, FinishUnconfirmed
  <2>3. Site => UNCHANGED spent \/ \E k \in Kinds : Spend(k)
    BY <2>k DEF Site, Plan, Erase, Update, Create, Mark, Merge
  <2>4. Card \/ Restart => UNCHANGED spent \/ \E k \in Kinds : Spend(k)
    BY <2>k DEF Card, CardLook, CardRows, CardWrite, CardAck, Restart
  <2>5. UNCHANGED vars => UNCHANGED spent
    BY DEF vars
  <2> QED
    BY <2>0, <2>1, <2>2, <2>3, <2>4, <2>5 DEF Next
<1>2. spent'["stuck"] >= spent["stuck"]
  BY <1>s, <1>1
<1>3. Spend("stuck") => spent'["stuck"] = spent["stuck"] + 1
  BY <1>s DEF Spend
<1> QED
  BY <1>l, <1>s, <1>2, <1>3 DEF Intact

\* A step that changes neither what the devices have nor what they confirmed, and
\* lifts no tombstone.
LEMMA DeathQuiet ==
    ASSUME DeathSound, Intact' => Intact, UNCHANGED <<have, call>>,
           \A d \in Devices : acks'[d].dead = acks[d].dead,
           row' # None => clock' # 0, Dead => Dead'
    PROVE  DeathSound'
BY DEF DeathSound

\* The reader makes the highlight once, and edits leave an entry where it is.
LEMMA DeathReader ==
    ASSUME IInv, DeathSound, Intact' => Intact, Reader
    PROVE  DeathSound'
<1>1. UNCHANGED <<row, acks, call>> /\ clock' \in {clock, clock + 1} /\ clock \in Nat
  BY DEF Reader, CreateOnDevice, EditOnDevice, DeleteOnDevice, Close, CreateOnSite, EditOnSite,
         DeleteOnSite, Moved, hub, device, reader, Acts, IInv, ReaderOK
<1>2. (row' # None => clock' # 0) /\ (Dead' <=> Dead)
  BY <1>1 DEF Dead, DeathSound
<1>3. have \in [Devices -> Content \cup {None}]
  BY DEF IInv, DevicesOK
<1>4. ASSUME NEW d \in Devices, clock = 0 \/ have'[d] = have[d] \/ have'[d] = None
                                 \/ (have[d] # None /\ have'[d].same = have[d].same),
             \A f \in Devices : f # d => have'[f] = have[f]
      PROVE  DeathSound'
  <2>1. ASSUME NEW f \in Devices, Intact', acks'[f].dead
        PROVE  Dead' /\ (have'[f] = None \/ ~have'[f].same) /\ call'[f] = None
    <3>1. Dead /\ (have[f] = None \/ ~have[f].same) /\ call[f] = None /\ clock # 0
      BY <1>1, <2>1 DEF DeathSound, Dead
    <3> QED
      BY <1>1, <1>2, <1>4, <3>1
  <2>2. ASSUME NEW f \in Devices, Intact', call'[f] # None, call'[f].todo = "delete" PROVE Dead'
    BY <1>1, <1>2, <2>2 DEF DeathSound
  <2> QED
    BY <1>2, <2>1, <2>2 DEF DeathSound
<1>5. ASSUME NEW d \in Devices, CreateOnDevice(d) PROVE DeathSound'
  <2>1. clock = 0 /\ \A f \in Devices : f # d => have'[f] = have[f]
    BY <1>3, <1>5 DEF CreateOnDevice
  <2> QED
    BY <1>4, <2>1
<1>6. ASSUME NEW d \in Devices, EditOnDevice(d) PROVE DeathSound'
  <2>1. have[d] # None /\ have[d] \in Content
    BY <1>3, <1>6 DEF EditOnDevice
  <2>2. clock' \in Nat /\ 2 * clock' \in Nat
    <3>1. clock' = clock + 1
      BY <1>6 DEF EditOnDevice, Acts
    <3>2. PICK n \in Nat : n = clock
      BY <1>1
    <3>3. clock' = n + 1 /\ n + 1 \in Nat /\ 2 * (n + 1) \in Nat
      BY <3>1, <3>2
    <3> QED
      BY <3>3
  <2>3. PICK t \in Nat : t = clock'
    BY <2>2
  <2>4. PICK u \in Nat : u = 2 * clock'
    BY <2>2
  <2>5. have' = [have EXCEPT ![d] = [have[d] EXCEPT !.text = t, !.at = u]]
    BY <1>6, <2>3, <2>4 DEF EditOnDevice
  <2>6. have'[d] = [have[d] EXCEPT !.text = t, !.at = u] /\ \A f \in Devices : f # d => have'[f] = have[f]
    BY <1>3, <2>5
  <2>7. have'[d].same = have[d].same
    <3>1. PICK x \in Content : x = have[d]
      BY <2>1
    <3>2. [x EXCEPT !.text = t, !.at = u] \in Content /\ [x EXCEPT !.text = t, !.at = u].same = x.same
      BY ONLY x \in Content, t \in Nat, u \in Nat, EntryIs, Zenon
    <3> QED
      BY <2>6, <3>1, <3>2
  <2> QED
    BY <1>4, <2>1, <2>6, <2>7
<1>7. ASSUME NEW d \in Devices, DeleteOnDevice(d) PROVE DeathSound'
  <2>1. have'[d] = None /\ \A f \in Devices : f # d => have'[f] = have[f]
    BY <1>3, <1>7 DEF DeleteOnDevice
  <2> QED
    BY <1>4, <2>1
<1>8. ASSUME (\E d \in Devices : Close(d)) \/ CreateOnSite \/ EditOnSite \/ DeleteOnSite \/ Moved
      PROVE  DeathSound'
  <2>1. UNCHANGED have
    BY <1>8 DEF Close, CreateOnSite, EditOnSite, DeleteOnSite, Moved, device
  <2> QED
    BY <1>1, <1>2, <2>1, DeathQuiet
<1> QED
  BY <1>5, <1>6, <1>7, <1>8 DEF Reader

\* What an exchange makes of the marks of confirmed deletions.
LEMMA ServedMarks ==
    ASSUME IInv, DeathSound, Intact, NEW d \in Devices, NEW mode \in Modes,
           NEW e \in Content \cup {None}, ~Stale(d, e)
    PROVE  LET h == Served(d, Prepared(d, mode, e)) IN
           /\ row # None /\ row.dead => h.row # None /\ h.row.dead
           /\ \A q \in Devices : h.acks[q].dead =>
                 /\ h.row # None /\ h.row.dead
                 /\ acks[q].dead \/ (q = d /\ (have[d] = None \/ ~have[d].same))
<1> DEFINE sent == Prepared(d, mode, e)
           h == Served(d, sent)
<1>1. /\ Given.row = row /\ Given.acks = acks /\ Confirmed(Given.row, Given.acks)
      /\ d \in Parties /\ acks \in [Parties -> Ack] /\ \A q \in Devices : q \in Parties
  BY Missings DEF Given, IInv, Confirmed
<1>2. \A q \in Devices : acks[q].dead => row # None /\ row.dead
  BY DEF DeathSound, Dead
<1>3. ASSUME sent.upload
      PROVE  /\ row # None /\ row.dead => h.row # None /\ h.row.dead
             /\ \A q \in Devices : h.acks[q].dead = acks[q].dead
  <2>1. e # None /\ e.same /\ h = Upload(Given, d, e)
    BY <1>3, ServedIs
  <2>2. ~acks[d].dead
    BY <2>1 DEF DeathSound, Stale, Keyed
  <2>3. h = Upload(Given, d, e)
    BY <2>1
  <2> HIDE DEF h
  <2>4. CASE row # None /\ row.dead
    <3>1. h = Given
      BY <1>1, <2>2, <2>3, <2>4 DEF Upload
    <3> QED
      BY <1>1, <2>4, <3>1
  <2>5. CASE ~(row # None /\ row.dead)
    <3>1. \E v : h.acks = Acked(acks, d, v)
      BY <1>1, <2>3, <2>5 DEF Upload
    <3>2. PICK v : h.acks = Acked(acks, d, v)
      BY <3>1
    <3>3. \A q \in Parties : h.acks[q].dead = acks[q].dead
      BY <1>1, <3>2 DEF Acked, Ack
    <3> QED
      BY <1>1, <2>5, <3>3
  <2> QED
    BY <2>4, <2>5
<1>4. ASSUME h = Given
      PROVE  /\ row # None /\ row.dead => h.row # None /\ h.row.dead
             /\ \A q \in Devices : h.acks[q].dead = acks[q].dead
  <2> HIDE DEF h
  <2> QED
    BY <1>1, <1>4
<1>5. ASSUME h = Tombstoned(Given, d), row # None, have[d] = None \/ ~have[d].same
      PROVE  /\ h.row # None /\ h.row.dead
             /\ \A q \in Devices : q # d => h.acks[q].dead = acks[q].dead
  <2>1. Given.row \in RowSet
    BY <1>1, <1>5 DEF Confirmed
  <2> HIDE DEF h
  <2> QED
    BY <1>1, <1>5, <2>1, TombstonedIs, Missings
<1>6. \/ sent.upload \/ h = Given
      \/ h = Tombstoned(Given, d) /\ row # None /\ (have[d] = None \/ ~have[d].same)
  BY ServedIs DEF Stale, Keyed
<1> HIDE DEF sent, h
<1>7. /\ row # None /\ row.dead => h.row # None /\ h.row.dead
      /\ \A q \in Devices : h.acks[q].dead =>
            /\ h.row # None /\ h.row.dead
            /\ acks[q].dead \/ (q = d /\ (have[d] = None \/ ~have[d].same))
  BY <1>2, <1>3, <1>4, <1>5, <1>6
<1> QED
  BY <1>7 DEF h, sent

\* A device that confirmed the deletion is told nothing more of it.
LEMMA DeathExchange ==
    ASSUME IInv, DeathSound, Intact' => Intact, NEW d \in Devices, NEW mode \in Modes, Exchange(d, mode)
    PROVE  DeathSound'
<1>e. PICK e \in Read(d, mode) :
        /\ row' = Served(d, Prepared(d, mode, e)).row /\ acks' = Served(d, Prepared(d, mode, e)).acks
        /\ lapses' = With("stale", Stale(d, e))
        /\ \/ Answered(d, mode, Prepared(d, mode, e), Served(d, Prepared(d, mode, e)))
           \/ UNCHANGED call
  BY DEF Exchange
<1>f. e \in Content \cup {None} /\ (Intact' => ~Stale(d, e))
  BY <1>e, ReadIs DEF Intact, With
<1> DEFINE h == Served(d, Prepared(d, mode, e))
<1>1. /\ call[d] = None /\ row' = h.row /\ acks' = h.acks /\ clock > 0
      /\ UNCHANGED <<have, clock>>
      /\ \/ UNCHANGED call
         \/ /\ Delta(h, d) # "nothing"
            /\ \E c : c.todo = Delta(h, d) /\ call' = [call EXCEPT ![d] = c]
  BY <1>e DEF Exchange, Answered, web, reader
<1>2. clock' # 0
  BY <1>1 DEF IInv, ReaderOK
<1>3. SUFFICES ASSUME Intact' PROVE
        \A f \in Devices :
          /\ acks'[f].dead => Dead' /\ (have'[f] = None \/ ~have'[f].same) /\ call'[f] = None
          /\ call'[f] # None /\ call'[f].todo = "delete" => Dead'
  BY <1>2 DEF DeathSound
<1>4. /\ Dead => Dead'
      /\ \A q \in Devices : acks'[q].dead =>
            Dead' /\ (acks[q].dead \/ (q = d /\ (have[d] = None \/ ~have[d].same)))
  BY <1>1, <1>3, <1>f, ServedMarks DEF Dead
<1> HIDE DEF h
<1>5. ASSUME NEW f \in Devices
      PROVE  /\ call'[f] = call[f] \/ (f = d /\ call'[f].todo = Delta(h, d) /\ Delta(h, d) # "nothing")
  BY <1>1 DEF IInv, DevicesOK
<1>6. acks'[d].dead => Delta(h, d) = "nothing"
  BY <1>1, <1>4 DEF Delta, Dead
<1>7. Delta(h, d) = "delete" => Dead'
  BY <1>1, DeltaIs DEF Dead
<1>8. ASSUME NEW f \in Devices, acks'[f].dead
      PROVE  Dead' /\ (have'[f] = None \/ ~have'[f].same) /\ call'[f] = None
  <2>1. Dead' /\ (have[f] = None \/ ~have[f].same)
    BY <1>3, <1>4, <1>8 DEF DeathSound
  <2>2. call[f] = None
    BY <1>1, <1>3, <1>4, <1>8 DEF DeathSound
  <2>3. call'[f] = call[f]
    BY <1>5, <1>6, <1>8
  <2> QED
    BY <1>1, <2>1, <2>2, <2>3
<1>9. ASSUME NEW f \in Devices, call'[f] # None, call'[f].todo = "delete" PROVE Dead'
  <2>1. CASE call'[f] = call[f]
    BY <1>3, <1>4, <1>9, <2>1 DEF DeathSound
  <2>2. CASE call'[f] # call[f]
    BY <1>5, <1>7, <1>9, <2>2
  <2> QED
    BY <2>1, <2>2
<1> QED
  BY <1>8, <1>9

\* The entry is gone when its removal is confirmed.
LEMMA DeathAnswer ==
    ASSUME IInv, DeathSound, Intact' => Intact, NEW d \in Devices, call[d] # None, Done(d),
           Intact' => have' = [have EXCEPT ![d] = Applied(d, call[d])],
           Confirm(d, call[d]) \/ UNCHANGED acks, UNCHANGED <<row, clock>>
    PROVE  DeathSound'
<1>1. /\ call'[d] = None /\ \A f \in Devices : f # d => call'[f] = call[f]
      /\ Intact' => have'[d] = Applied(d, call[d]) /\ \A f \in Devices : f # d => have'[f] = have[f]
  BY DEF Done, IInv, DevicesOK
<1>2. /\ \A f \in Devices : f # d => acks'[f] = acks[f]
      /\ acks'[d].dead => acks[d].dead \/ call[d].todo = "delete"
  <2>1. acks \in [Parties -> Ack] /\ \A f \in Devices : f \in Parties
    BY Missings DEF IInv, Confirmed
  <2>2. \A f \in Devices : f # d => acks'[f] = acks[f]
    BY <2>1, ConfirmIs
  <2>3. acks'[d].dead => acks[d].dead \/ call[d].todo = "delete"
    <3>1. CASE call[d].todo = "delete" \/ UNCHANGED acks
      BY <3>1
    <3>2. CASE call[d].todo # "delete" /\ acks' = Acked(acks, d, call[d].ver)
      <4>1. acks'[d] = [acks[d] EXCEPT !.ver = Higher(@, call[d].ver)] /\ acks[d] \in Ack
        BY <2>1, <3>2 DEF Acked
      <4>2. acks'[d].dead = acks[d].dead
        BY <4>1 DEF Ack
      <4> QED
        BY <4>2
    <3> QED
      BY <3>1, <3>2 DEF Confirm
  <2> QED
    BY <2>2, <2>3
<1>3. Dead' <=> Dead
  BY DEF Dead
<1>4. call[d].todo = "delete" => Applied(d, call[d]) = None
  BY DEF Applied
<1>5. ASSUME NEW f \in Devices, Intact', acks'[f].dead
      PROVE  Dead' /\ (have'[f] = None \/ ~have'[f].same) /\ call'[f] = None
  <2>1. CASE f = d
    <3>1. call[d].todo = "delete"
      BY <1>2, <1>5, <2>1 DEF DeathSound
    <3>2. Dead
      BY <1>5, <3>1 DEF DeathSound
    <3> QED
      BY <1>1, <1>3, <1>4, <1>5, <2>1, <3>1, <3>2
  <2>2. CASE f # d
    <3>1. acks[f].dead
      BY <1>2, <1>5, <2>2
    <3>2. Dead /\ (have[f] = None \/ ~have[f].same) /\ call[f] = None
      BY <1>5, <3>1 DEF DeathSound
    <3> QED
      BY <1>1, <1>3, <1>5, <2>2, <3>2
  <2> QED
    BY <2>1, <2>2
<1>6. ASSUME NEW f \in Devices, Intact', call'[f] # None, call'[f].todo = "delete" PROVE Dead'
  BY <1>1, <1>3, <1>6 DEF DeathSound
<1>7. row' # None => clock' # 0
  BY DEF DeathSound
<1> QED
  BY <1>5, <1>6, <1>7 DEF DeathSound

\* No cycle lifts a tombstone.
LEMMA SiteLeavesDead ==
    ASSUME IInv, Site
    PROVE  /\ Dead => Dead'
           /\ \A d \in Devices : acks'[d] = acks[d]
<1>a. acks \in [Parties -> Ack] /\ \A d \in Devices : d \in Parties /\ d # "site"
  BY Missings DEF IInv, Confirmed
<1>1. CASE Mark
  <2>1. row # None /\ row \in RowSet /\ cycle.id \in Nat \cup {None}
    BY <1>1, StepIs DEF Mark, IInv, Confirmed
  <2>2. row' = row \/ row' = [row EXCEPT !.site = cycle.id]
    BY <1>1 DEF Mark
  <2>3. ASSUME row' = [row EXCEPT !.site = cycle.id] PROVE row' # None /\ row'.dead = row.dead
    <3>1. row' \in RowSet /\ row'.dead = row.dead
      BY <2>1, <2>3 DEF RowSet
    <3> QED
      BY <3>1, Missings
  <2>4. \A d \in Devices : acks'[d] = acks[d]
    BY <1>1, <1>a DEF Mark, Acked
  <2> QED
    BY <2>2, <2>3, <2>4 DEF Dead
<1>2. CASE Merge
  <2>1. UNCHANGED <<row, acks>> \/ (row' = Merged(Given, remote).row /\ acks' = Merged(Given, remote).acks)
    BY <1>2 DEF Merge, Given, hub
  <2>2. /\ Confirmed(Given.row, Given.acks) /\ Given.row = row /\ Given.acks = acks
        /\ remote \in Remote \cup {None}
    BY DEF Given, IInv, WebOK
  <2> QED
    BY <2>1, <2>2, MergedIs DEF Dead
<1>3. CASE Plan \/ Erase \/ Update \/ Create
  <2>1. UNCHANGED <<row, acks>>
    BY <1>3 DEF Plan, Erase, Update, Create, hub
  <2> QED
    BY <2>1 DEF Dead
<1> QED
  BY <1>1, <1>2, <1>3 DEF Site

\* The cycle in the notes touches no row and no device.
LEMMA CardLeavesDead ==
    ASSUME IInv, Card \/ Restart
    PROVE  /\ UNCHANGED row /\ \A d \in Devices : acks'[d] = acks[d]
<1>1. acks \in [Parties -> Ack] /\ \A d \in Devices : d \in Parties /\ d # "card"
  BY Missings DEF IInv, Confirmed
<1>2. UNCHANGED acks \/ \E n, b : acks' = [Acked(acks, "card", n) EXCEPT !["card"].dead = b]
  BY DEF Card, CardLook, CardRows, CardWrite, CardAck, Restart, hub
<1>3. UNCHANGED row
  BY DEF Card, CardLook, CardRows, CardWrite, CardAck, Restart, hub
<1> QED
  BY <1>1, <1>2, <1>3 DEF Acked

\* Every step keeps confirmed deletions sound.
LEMMA DeathStep ==
    ASSUME IInv, DeathSound, [Next]_vars
    PROVE  DeathSound'
<1>1. (Intact' => Intact) /\ (Intact' => ~Spend("stuck"))
  BY IntactStays
<1>2. ASSUME NEW d \in Devices, Device(d) PROVE DeathSound'
  <2>1. ASSUME Finish(d) PROVE DeathSound'
    <3>1. /\ call[d] # None /\ Done(d) /\ Confirm(d, call[d]) /\ UNCHANGED <<row, clock>>
          /\ Intact' => have' = [have EXCEPT ![d] = Applied(d, call[d])]
      BY <1>1, <2>1 DEF Finish, Apply, reader
    <3> QED
      BY <1>1, <3>1, DeathAnswer
  <2>2. ASSUME NEW arrived \in BOOLEAN, FinishUnconfirmed(d, arrived) PROVE DeathSound'
    <3>1. /\ call[d] # None /\ Done(d) /\ UNCHANGED <<row, clock>>
          /\ Confirm(d, call[d]) \/ UNCHANGED acks
          /\ have' = [have EXCEPT ![d] = Applied(d, call[d])]
      BY <2>2 DEF FinishUnconfirmed, reader
    <3> QED
      BY <1>1, <3>1, DeathAnswer
  <2> QED
    BY <1>1, <1>2, <2>1, <2>2, DeathExchange DEF Device
<1>3. ASSUME Site PROVE DeathSound'
  <2>1. UNCHANGED <<have, call, clock>>
    BY <1>3 DEF Site, Plan, Erase, Update, Create, Mark, Merge, Rest, device, reader
  <2>2. clock # 0
    <3>1. cycle.step = "idle" => clock # 0
      BY <1>3 DEF Site, Plan, Erase, Update, Create, Mark, Merge, IInv, ReaderOK
    <3>2. clock = 0 => cycle.step = "idle"
      BY DEF IInv, ReaderOK, Idle
    <3> QED
      BY <3>1, <3>2
  <2> QED
    BY <1>1, <1>3, <2>1, <2>2, SiteLeavesDead, DeathQuiet
<1>4. ASSUME Card \/ Restart PROVE DeathSound'
  <2>1. UNCHANGED <<have, call, clock>>
    BY <1>4 DEF Card, CardLook, CardRows, CardWrite, CardAck, Restart, Rest, device, reader
  <2>2. Dead => Dead'
    BY <1>4, CardLeavesDead DEF Dead
  <2>3. row' # None => clock' # 0
    BY <1>4, <2>1, CardLeavesDead DEF DeathSound
  <2> QED
    BY <1>1, <1>4, <2>1, <2>2, <2>3, CardLeavesDead, DeathQuiet
<1>5. ASSUME UNCHANGED vars PROVE DeathSound'
  <2>1. UNCHANGED <<row, acks, have, call, clock>>
    BY <1>5 DEF vars
  <2>2. (Dead => Dead') /\ (row' # None => clock' # 0)
    BY <2>1 DEF Dead, DeathSound
  <2> QED
    BY <1>1, <2>1, <2>2, DeathQuiet
<1> QED
  BY <1>1, <1>2, <1>3, <1>4, <1>5, DeathReader DEF Next

\* No step lifts a tombstone while KOReader did every removal.
LEMMA DeadStays ==
    ASSUME IInv, DeathSound, [Next]_vars, Intact', Dead
    PROVE  Dead'
<1>1. Intact
  BY IntactStays
<1>2. ASSUME NEW d \in Devices, NEW mode \in Modes, Exchange(d, mode) PROVE Dead'
  <2>1. PICK e \in Read(d, mode) :
          row' = Served(d, Prepared(d, mode, e)).row /\ lapses' = With("stale", Stale(d, e))
    BY <1>2 DEF Exchange
  <2>2. e \in Content \cup {None} /\ ~Stale(d, e)
    BY <2>1, ReadIs DEF Intact, With
  <2> QED
    BY <1>1, <2>1, <2>2, ServedMarks DEF Dead
<1>3. ASSUME UNCHANGED row PROVE Dead'
  BY <1>3 DEF Dead
<1>4. Reader => UNCHANGED row
  BY DEF Reader, CreateOnDevice, EditOnDevice, DeleteOnDevice, Close, CreateOnSite, EditOnSite, DeleteOnSite,
         Moved, hub
<1>5. ASSUME NEW d \in Devices, Device(d) PROVE Dead'
  BY <1>2, <1>3, <1>5 DEF Device, Finish, FinishUnconfirmed
<1>6. Site => Dead'
  BY SiteLeavesDead
<1>7. Card \/ Restart => UNCHANGED row
  BY CardLeavesDead
<1>8. UNCHANGED vars => UNCHANGED row
  BY DEF vars
<1> QED
  BY <1>3, <1>4, <1>5, <1>6, <1>7, <1>8 DEF Next

\* Nothing is confirmed at first.
LEMMA InitDeath == Init => DeathSound
<1> SUFFICES ASSUME Init PROVE DeathSound
  OBVIOUS
<1>1. row = None /\ \A d \in Devices : ~acks[d].dead /\ call[d] = None
  BY Missings DEF Init
<1> QED
  BY <1>1 DEF DeathSound

\* Confirmed deletions are sound from the start and through every step.
LEMMA Deaths == Spec => []DeathSound
<1>1. IInv /\ DeathSound /\ [Next]_vars => DeathSound'
  BY DeathStep
<1> QED
  BY <1>1, InitDeath, Inductive, PTL DEF Spec

\* As long as KOReader removes what it is told to remove and no file is sent that
\* knows less, or more, than the book, no upload, merge, late answer or restart
\* brings a deleted highlight back: only a device that confirmed the deletion
\* could, and it has no entry to send.
THEOREM DeletionsAreFinal == Spec => [][Intact' /\ Dead => Dead']_vars
<1>1. IInv /\ DeathSound /\ [Next]_vars => (Intact' /\ Dead => Dead')
  BY DeadStays
<1> QED
  BY <1>1, Deaths, Inductive, PTL DEF Spec

\* A device that has the highlight and is known to the hub is offered the deletion
\* at its next exchange, whatever was lost before: what DeletionArrives needs of
\* every state for the fair exchanges to get there.
THEOREM DeletionsAreOffered ==
    Spec => [](Intact /\ Dead => \A d \in Devices :
                  have[d] # None /\ have[d].same /\ acks[d].ver > 0 => Delta(Given, d) = "delete")
<1>1. ASSUME DeathSound, Intact, Dead, NEW d \in Devices,
             have[d] # None, have[d].same, acks[d].ver > 0
      PROVE  Delta(Given, d) = "delete"
  <2>1. ~acks[d].dead
    BY <1>1 DEF DeathSound
  <2>2. Given.row = row /\ Given.acks = acks
    BY DEF Given
  <2> QED
    BY <1>1, <2>1, <2>2 DEF Delta, Dead
<1>2. DeathSound => (Intact /\ Dead => \A d \in Devices :
                  have[d] # None /\ have[d].same /\ acks[d].ver > 0 => Delta(Given, d) = "delete")
  BY <1>1
<1> QED
  BY <1>2, Deaths, PTL

\* The notes are cleared for a tombstone only, and left alone from then on.
CardCleared ==
    Intact =>
      /\ cycle.step \in CardSteps => ~acks["card"].dead /\ (cycle.gone => Dead)
      /\ cycle.step \in {"notes", "noted"} /\ cycle.gone => cycle.text = None
      /\ acks["card"].dead => Dead /\ card = None

\* Another party's deletion is not confirmed in Hardcover's name, and the notes
\* are not written elsewhere.
LEMMA ClearedQuiet ==
    ASSUME CardCleared, Intact' => Intact, Intact' /\ Dead => Dead',
           acks'["card"] = acks["card"], card' = card,
           cycle' = cycle \/ cycle'.step \notin CardSteps
    PROVE  CardCleared'
<1>1. {"notes", "noted"} \subseteq CardSteps
  BY DEF CardSteps
<1> QED
  BY <1>1 DEF CardCleared

\* What each step of the cycle in the notes hands on.
LEMMA ClearedStep ==
    ASSUME IInv, CardSound, CardCleared, Intact' => Intact, Card
    PROVE  CardCleared'
<1>0. Dead' <=> Dead
  BY CardLeavesDead DEF Dead
<1>i. cycle' = Idle => cycle'.step \notin CardSteps
  BY DEF Idle, CardSteps
<1>1. CASE CardLook
  <2>1. acks' = acks /\ card' = card
    BY <1>1 DEF CardLook, hub, web
  <2>2. CASE cycle' = Idle
    BY <1>0, <1>i, <2>1, <2>2, ClearedQuiet
  <2>3. CASE cycle' # Idle
    <3>1. cycle'.step = "rows" /\ (cycle'.gone => Dead /\ ~acks["card"].dead) /\ (Alive \/ (Dead /\ ~acks["card"].dead))
      BY <1>1, <2>3 DEF CardLook
    <3>2. Intact => ~acks["card"].dead
      BY <3>1 DEF CardCleared, Alive, Dead
    <3> QED
      BY <1>0, <2>1, <3>1, <3>2 DEF CardCleared, CardSteps
  <2> QED
    BY <2>2, <2>3
<1>2. CASE CardRows
  <2>1. acks' = acks /\ card' = card /\ cycle.step = "rows"
    BY <1>2 DEF CardRows, hub, web
  <2>2. CASE cycle' = Idle
    BY <1>0, <1>i, <2>1, <2>2, ClearedQuiet
  <2>3. CASE cycle' # Idle
    <3>1. /\ cycle'.step = "notes" /\ cycle'.gone = cycle.gone
          /\ cycle'.text = IF Alive THEN row.text ELSE None
      BY <1>2, <2>3 DEF CardRows
    <3>2. Intact => ~acks["card"].dead /\ (cycle.gone => Dead)
      BY <2>1 DEF CardCleared, CardSteps
    <3>3. Dead => ~Alive
      BY DEF Alive, Dead
    <3> QED
      BY <1>0, <2>1, <3>1, <3>2, <3>3 DEF CardCleared, CardSteps
  <2> QED
    BY <2>2, <2>3
<1>3. CASE CardWrite
  <2>1. acks' = acks /\ cycle.step = "notes"
    BY <1>3 DEF CardWrite, hub
  <2>2. Intact => ~acks["card"].dead /\ (cycle.gone => Dead /\ cycle.text = None)
    BY <2>1 DEF CardCleared, CardSteps
  <2>4. CASE cycle' = Idle
    BY <1>0, <1>i, <2>1, <2>2, <2>4 DEF CardCleared, CardSteps
  <2>5. CASE card' = cycle.text /\ Go("noted")
    <3>1. cycle' = [cycle EXCEPT !.step = "noted"] /\ cycle \in Notes
      BY <2>1, <2>5, StepIs DEF Go
    <3>2. cycle'.step = "noted" /\ cycle'.text = cycle.text /\ cycle'.gone = cycle.gone
      BY <3>1 DEF Notes
    <3> QED
      BY <1>0, <2>1, <2>2, <3>2 DEF CardCleared, CardSteps
  <2> QED
    BY <1>3, <2>4, <2>5 DEF CardWrite
<1>4. CASE CardAck
  <2>1. /\ card' = card /\ cycle' = Idle /\ cycle.step = "noted"
        /\ acks' = [Acked(acks, "card", cycle.ver) EXCEPT !["card"].dead = @ \/ cycle.gone]
    BY <1>4 DEF CardAck, web
  <2>2. card = cycle.text
    BY <2>1 DEF CardSound
  <2>3. Intact => ~acks["card"].dead /\ (cycle.gone => Dead /\ cycle.text = None)
    BY <2>1 DEF CardCleared, CardSteps
  <2>4. acks'["card"].dead => acks["card"].dead \/ cycle.gone
    <3> DEFINE a == Acked(acks, "card", cycle.ver)
    <3>1. PICK p \in Parties : p = "card"
      BY Missings
    <3>2. PICK v \in Nat : v = cycle.ver
      BY <2>1, StepIs DEF Notes
    <3>3. Acked(acks, p, v) \in [Parties -> Ack] /\ Acked(acks, p, v)[p].dead = acks[p].dead
      BY AckedIs DEF IInv, Confirmed
    <3>4. a \in [Parties -> Ack] /\ a["card"].dead = acks["card"].dead
      BY <3>1, <3>2, <3>3
    <3>5. acks' = [a EXCEPT !["card"].dead = (a["card"].dead \/ cycle.gone)]
      BY <2>1
    <3> HIDE DEF a
    <3>6. PICK b \in BOOLEAN : b = (a["card"].dead \/ cycle.gone)
      OBVIOUS
    <3>7. acks' = [a EXCEPT !["card"].dead = b]
      BY <3>5, <3>6
    <3>8. acks'["card"].dead = b
      BY <3>1, <3>4, <3>7 DEF Ack
    <3> QED
      BY <3>4, <3>6, <3>8
  <2> QED
    BY <1>0, <1>i, <2>1, <2>2, <2>3, <2>4 DEF CardCleared, CardSteps
<1> QED
  BY <1>1, <1>2, <1>3, <1>4 DEF Card

\* Every step keeps the notes cleared.
LEMMA CardClearedStep ==
    ASSUME IInv, DeathSound, CardSound, CardCleared, [Next]_vars
    PROVE  CardCleared'
<1>1. (Intact' => Intact) /\ (Intact' /\ Dead => Dead')
  BY IntactStays, DeadStays
<1>3. ASSUME UNCHANGED <<acks, card, cycle>> PROVE CardCleared'
  BY <1>1, <1>3, ClearedQuiet
<1>4. Reader => UNCHANGED <<acks, card, cycle>>
  BY DEF Reader, CreateOnDevice, EditOnDevice, DeleteOnDevice, Close, CreateOnSite, EditOnSite, DeleteOnSite,
         Moved, hub, web
<1>5. ASSUME NEW d \in Devices, Device(d) PROVE CardCleared'
  <2>1. UNCHANGED <<card, cycle>>
    BY <1>5 DEF Device, Exchange, Finish, FinishUnconfirmed, web
  <2> QED
    BY <1>1, <1>5, <2>1, OthersKeepCard, ClearedQuiet
<1>6. Site => CardCleared'
  BY <1>1, SiteLeavesCard, ClearedQuiet
<1>7. Restart => CardCleared'
  <2>1. Restart => UNCHANGED <<acks, card>> /\ cycle'.step \notin CardSteps
    BY DEF Restart, hub, web, Idle, CardSteps
  <2> QED
    BY <1>1, <2>1, ClearedQuiet
<1>8. UNCHANGED vars => UNCHANGED <<acks, card, cycle>>
  BY DEF vars
<1> QED
  BY <1>1, <1>3, <1>4, <1>5, <1>6, <1>7, <1>8, ClearedStep DEF Next

\* Nothing was cleared at first.
LEMMA InitCleared == Init => CardCleared
<1> SUFFICES ASSUME Init PROVE CardCleared
  OBVIOUS
<1>1. cycle = Idle /\ ~acks["card"].dead
  BY Missings DEF Init
<1> QED
  BY <1>1 DEF CardCleared, CardSteps, Idle

\* What the hub holds Hardcover's notes to be, they are.
NotesKnown ==
    /\ Alive /\ acks["card"].ver >= row.ver => card = row.text
    /\ Intact /\ acks["card"].dead => Dead /\ card = None

\* Where the version of the row is acknowledged the notes say what the row says,
\* however often the highlight was edited or the process restarted between the
\* reading of the rows, the write and the acknowledgement; and once the deletion
\* is acknowledged they are without the highlight for good.
THEOREM NotesAreAsAcknowledged == Spec => []NotesKnown
<1>1. IInv /\ IInv' /\ CardSound /\ [Next]_vars => CardSound'
  BY CardSoundStep
<1>2. IInv /\ DeathSound /\ CardSound /\ CardCleared /\ [Next]_vars => CardCleared'
  BY CardClearedStep
<1>3. CardSound /\ CardCleared => NotesKnown
  BY DEF CardSound, CardCleared, NotesKnown
<1> QED
  BY <1>1, <1>2, <1>3, InitCard, InitCleared, Deaths, Inductive, PTL DEF Spec

=============================================================================

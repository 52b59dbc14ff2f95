---------------------------- MODULE AnnotationHub ----------------------------
(***************************************************************************)
(* One highlight of one reader in the annotation hub: the canonical row,   *)
(* the KOReader devices that exchange it with the hub through BridgeSync,  *)
(* and the periodic cycle that carries it to Grimmory (both ways, with     *)
(* positions that do not survive the round trip) and into the private      *)
(* notes at Hardcover (one way).                                           *)
(*                                                                         *)
(* The reader's n-th action happens at time 2n and writes the text n; what *)
(* the bridge writes at Grimmory is stamped in between.  A device waits    *)
(* for the answer of its exchange, so nothing is read there meanwhile, and *)
(* a request and the hub's handling of it are one step.                    *)
(***************************************************************************)
EXTENDS Integers, FiniteSets

CONSTANTS
    Devices,    \* KOReader devices with the BridgeSync plugin
    Known,      \* those that have exchanged the book before, for its other highlights
    Repairing,  \* those whose build of the EPUB makes them search for the passage
    Bounds,     \* mixes of edits, deletions, sweeps and faults that a run explores
    None

Spokes == {"site", "card"}
Parties == Devices \cup Spokes
Faults == {"lost", "refused", "stuck", "restart"}
Kinds == {"edits", "deletes", "sweeps", "closes", "moves"} \cup Faults

ASSUME HubAssumption ==
    /\ IsFiniteSet(Devices) /\ Devices \cap Spokes = {}
    /\ Known \subseteq Devices /\ Repairing \subseteq Devices
    /\ Bounds \subseteq [Kinds -> Nat]

Content == [text : Nat, at : Nat, same : BOOLEAN]

(* What is missing is no number, no entry and no row.                        *)
ASSUME NoneAssumption ==
    /\ None \notin Nat \cup Content
    /\ None \notin [ver : Nat, dead : BOOLEAN, text : Nat, at : Nat,
                   src : Devices \cup {"site"}, site : Nat \cup {None}]
    /\ None \notin [id : Nat, text : Nat, at : Nat, same : BOOLEAN]

VARIABLES
    row,     \* KoreaderAnnotation: version, tombstone, text and its time, the
             \* device or spoke it came from, Grimmory's id for it
    acks,    \* KoreaderAnnotationDeviceState: party -> version and tombstone acked
    have,    \* device -> its sidecar entry
    mark,    \* device -> annotation_watermarks
    sig,     \* device -> annotation_signatures: what it last listed in full, if ever
    owed,    \* device -> the sidecar file that pending_annotation_closes will send, if any
    call,    \* device -> the exchange whose answer it waits for
    remote,  \* Grimmory's annotation, and whether its anchor is what the hub makes of the row
    card,    \* the text in the bridge's part of Hardcover's private notes
    cycle,   \* what run_cycle has in hand
    made,    \* the number of annotations ever made at Grimmory
    twin,    \* the highlight is back under a second row
    lapses,  \* "open": the cycle removed the annotation there, to make it again, and has
             \* noted no new one; "torn": the row was tombstoned for that; "stale": a
             \* sidecar file older than the book was sent
    clock,   \* the number of actions of the reader
    erased,  \* the reader has removed the highlight somewhere
    spent    \* edits, deletions and faults so far

hub == <<row, acks, twin>>
device == <<have, mark, sig, owed, call>>
web == <<remote, card, made>>
reader == <<clock, erased>>
vars == <<row, acks, have, mark, sig, owed, call, remote, card, cycle, made, twin, lapses,
          clock, erased, spent>>

Idle == [step |-> "idle"]
Never == -1      \* no watermark: the book was never exchanged

Alive == row # None /\ ~row.dead
Dead == row # None /\ row.dead

Init ==
    /\ row = None
    /\ acks = [p \in Parties |-> [ver |-> 0, dead |-> FALSE]]
    /\ have = [d \in Devices |-> None]
    /\ mark = [d \in Devices |-> IF d \in Known THEN 0 ELSE Never]
    /\ sig = [d \in Devices |-> {}]
    /\ owed = [d \in Devices |-> {}]
    /\ call = [d \in Devices |-> None]
    /\ remote = None
    /\ card = None
    /\ cycle = Idle
    /\ made = 0
    /\ twin = FALSE
    /\ lapses = {}
    /\ clock = 0
    /\ erased = FALSE
    /\ spent = [k \in Kinds |-> 0]

Spend(k) ==
    /\ spent' = [spent EXCEPT ![k] = @ + 1]
    /\ \E b \in Bounds : \A j \in Kinds : spent'[j] <= b[j]

With(lapse, when) == IF when THEN lapses \cup {lapse} ELSE lapses
Closed == lapses \ {"open"}

--------------------------------------------------------------------------------
(* The reader.                                                               *)

Entry(text, at) == [text |-> text, at |-> at, same |-> TRUE]
Now == 2 * clock + 1       \* between two actions of the reader
Acts == clock' = clock + 1

(* The highlight is made, on a device or in Grimmory's web reader.           *)
CreateOnDevice(d) ==
    /\ clock = 0 /\ Acts /\ call[d] = None
    /\ have' = [have EXCEPT ![d] = Entry(1, 2)]
    /\ UNCHANGED <<hub, mark, sig, owed, call, web, cycle, lapses, erased, spent>>

(* Its anchor there may not be the one that comes of the row made from it.   *)
CreateOnSite ==
    /\ clock = 0 /\ Acts
    /\ \E same \in BOOLEAN : remote' = [id |-> 1, text |-> 1, at |-> 2, same |-> same]
    /\ made' = 1
    /\ UNCHANGED <<hub, device, card, cycle, lapses, erased, spent>>

EditOnDevice(d) ==
    /\ have[d] # None /\ call[d] = None /\ Acts /\ Spend("edits")
    /\ have' = [have EXCEPT ![d].text = clock', ![d].at = 2 * clock']
    /\ UNCHANGED <<hub, mark, sig, owed, call, web, cycle, lapses, erased>>

EditOnSite ==
    /\ remote # None /\ Acts /\ Spend("edits")
    /\ remote' = [remote EXCEPT !.text = clock', !.at = 2 * clock']
    /\ UNCHANGED <<hub, device, card, made, cycle, lapses, erased>>

DeleteOnDevice(d) ==
    /\ have[d] # None /\ call[d] = None /\ Acts /\ Spend("deletes")
    /\ have' = [have EXCEPT ![d] = None]
    /\ erased' = TRUE
    /\ UNCHANGED <<hub, mark, sig, owed, call, web, cycle, lapses>>

DeleteOnSite ==
    /\ remote # None /\ Acts /\ Spend("deletes")
    /\ remote' = None
    /\ erased' = TRUE
    /\ UNCHANGED <<hub, device, card, made, cycle, lapses>>

(* The book is closed: its sidecar file is written, and owed to the hub.     *)
Close(d) ==
    /\ call[d] = None /\ clock > 0 /\ owed[d] # {have[d]} /\ Spend("closes")
    /\ owed' = [owed EXCEPT ![d] = {have[d]}]
    /\ UNCHANGED <<hub, have, mark, sig, call, web, cycle, lapses, reader>>

(* The EPUB is replaced, or an update converts positions differently: the    *)
(* anchor of an annotation that the hub knows is no longer what the hub      *)
(* makes of its row.                                                         *)
Moved ==
    /\ row # None /\ remote # None /\ row.site = remote.id /\ remote.same /\ Spend("moves")
    /\ remote' = [remote EXCEPT !.same = FALSE]
    /\ UNCHANGED <<hub, device, card, made, cycle, lapses, reader>>

Reader ==
    \/ \E d \in Devices : CreateOnDevice(d) \/ EditOnDevice(d) \/ DeleteOnDevice(d) \/ Close(d)
    \/ CreateOnSite \/ EditOnSite \/ DeleteOnSite \/ Moved

--------------------------------------------------------------------------------
(* The hub's side of an exchange, on a row r and its acks a.                 *)

Higher(i, j) == IF i < j THEN j ELSE i

(* _set_device_state(acked_version): it never goes down.                     *)
Acked(a, p, ver) == [a EXCEPT ![p].ver = Higher(@, ver)]

Written(r, p, text, at) ==
    [r EXCEPT !.ver = @ + 1, !.text = text, !.at = at, !.src = p]

NewRow(p, text, at, site) ==
    [ver |-> 1, dead |-> FALSE, text |-> text, at |-> at, src |-> p, site |-> site]

(* Mutant: a tombstone is not a version of its own.                          *)
TombstonedUnversioned(h, p) ==
    [row |-> [h.row EXCEPT !.dead = TRUE],
     acks |-> [Acked(h.acks, p, h.row.ver + 1) EXCEPT ![p].dead = TRUE]]

(* A row that is tombstoned by p.                                            *)
Tombstoned(h, p) ==
    [row |-> [h.row EXCEPT !.dead = TRUE, !.ver = @ + 1],
     acks |-> [Acked(h.acks, p, h.row.ver + 1) EXCEPT ![p].dead = TRUE]]

(* Mutant: a re-uploaded entry revives the row, whoever sends it.            *)
UploadRevives(h, d, e) ==
    IF h.row = None
    THEN [row |-> NewRow(d, e.text, e.at, None), acks |-> Acked(h.acks, d, 1)]
    ELSE IF h.row.dead
    THEN [row |-> [Written(h.row, d, e.text, e.at) EXCEPT !.dead = FALSE],
          acks |-> [h.acks EXCEPT ![d] = [ver |-> h.row.ver + 1, dead |-> FALSE]]]
    ELSE LET r == IF (h.row.text # e.text \/ h.row.at # e.at) /\ e.at >= h.row.at
                  THEN Written(h.row, d, e.text, e.at) ELSE h.row
         IN  [row |-> r, acks |-> Acked(h.acks, d, r.ver)]

(* 1. A changed entry of the device: the newer text stands, a tombstone is   *)
(* lifted only for a device that had confirmed it, and the device is taken   *)
(* to have the row as it now is.                                             *)
Upload(h, d, e) ==
    IF h.row = None
    THEN [row |-> NewRow(d, e.text, e.at, None), acks |-> Acked(h.acks, d, 1)]
    ELSE IF h.row.dead
    THEN IF ~h.acks[d].dead THEN h
         ELSE [row |-> [Written(h.row, d, e.text, e.at) EXCEPT !.dead = FALSE],
               acks |-> [h.acks EXCEPT ![d] = [ver |-> h.row.ver + 1, dead |-> FALSE]]]
    ELSE LET r == IF (h.row.text # e.text \/ h.row.at # e.at) /\ e.at >= h.row.at
                  THEN Written(h.row, d, e.text, e.at) ELSE h.row
         IN  [row |-> r, acks |-> Acked(h.acks, d, r.ver)]

(* Mutant: a device that never had the highlight is believed too.            *)
MissingUnknown(h, d, sent) ==
    /\ sent.complete /\ ~sent.listed
    /\ h.row # None /\ ~h.row.dead

(* 2. A complete key list without a key that the device once had.            *)
Missing(h, d, sent) ==
    /\ sent.complete /\ ~sent.listed
    /\ h.row # None /\ ~h.row.dead
    /\ h.row.src = d \/ h.acks[d].ver > 0

(* Mutant: a deletion goes to the devices that are level with the row only.  *)
DeltaToCurrent(h, d) ==
    LET ack == h.acks[d] IN
    IF h.row = None THEN "nothing"
    ELSE IF h.row.dead
    THEN IF ack.ver >= h.row.ver /\ ~ack.dead THEN "delete" ELSE "nothing"
    ELSE IF ack.ver >= h.row.ver THEN "nothing"
    ELSE IF ack.ver = 0 THEN "add" ELSE "edit"

(* 3. _compute_annotation_delta.                                             *)
Delta(h, d) ==
    LET ack == h.acks[d] IN
    IF h.row = None THEN "nothing"
    ELSE IF h.row.dead
    THEN IF ack.ver > 0 /\ ~ack.dead THEN "delete" ELSE "nothing"
    ELSE IF ack.ver >= h.row.ver THEN "nothing"
    ELSE IF ack.ver = 0 THEN "add" ELSE "edit"

(* exchange_koreader_annotations.                                            *)
Served(d, sent) ==
    LET given == [row |-> row, acks |-> acks]
        uploaded == IF sent.upload THEN Upload(given, d, sent.entry) ELSE given
    IN  IF Missing(uploaded, d, sent) THEN Tombstoned(uploaded, d) ELSE uploaded

--------------------------------------------------------------------------------
(* The device's side.  A book is "live" while it is open; a "snapshot" is    *)
(* the upload owed since it was closed, which may come late and with the     *)
(* book open again; a "sweep" goes through every closed book.                *)

Modes == {"live", "closed", "snapshot", "sweep"}

(* collectBooks: an entry, or a watermark, makes the book worth an exchange. *)
Collected(d) == have[d] # None \/ mark[d] # Never

(* What each of them reads: the open book's entry, or that of the file,      *)
(* which has been as the book is since it was closed.                        *)
Read(d, mode) ==
    CASE mode = "live" -> {have[d]}
      [] mode = "snapshot" -> owed[d]
      [] OTHER -> IF owed[d] \subseteq {have[d]} THEN {have[d]} ELSE {}

(* The key is made of the passage, so an entry in another place has another. *)
Keyed(entry) == entry # None /\ entry.same

(* prepareBook: an entry newer than the watermark, and the full list of keys *)
(* when the entries differ from those last listed.                           *)
Prepared(d, mode, entry) ==
    [upload |-> Keyed(entry) /\ (mode = "sweep" \/ entry.at > mark[d]),
     listed |-> Keyed(entry),
     complete |-> mode # "sweep" /\ entry \notin sig[d],
     entry |-> entry]

(* Every request was answered: the watermark moves up to the entry sent, and *)
(* the list that was sent is remembered.                                     *)
Commit(d, sent) ==
    /\ mark' = [mark EXCEPT ![d] = IF sent.upload THEN Higher(@, sent.entry.at) ELSE Higher(@, 0)]
    /\ sig' = IF sent.complete THEN [sig EXCEPT ![d] = {sent.entry}] ELSE sig

(* A snapshot leaves the changes it is told of for later.                    *)
Answered(d, mode, sent, h) ==
    LET todo == Delta(h, d) IN
    IF todo = "nothing" \/ mode = "snapshot"
    THEN /\ Commit(d, sent)
         /\ owed' = IF mode = "snapshot" THEN [owed EXCEPT ![d] = {}] ELSE owed
         /\ UNCHANGED call
    ELSE /\ call' = [call EXCEPT ![d] =
                       [sent |-> sent, live |-> mode = "live", todo |-> todo,
                        text |-> h.row.text, at |-> h.row.at, ver |-> h.row.ver]]
         /\ UNCHANGED <<mark, sig, owed>>

(* A file that lacks a key which the book has by now, or has one it lost.    *)
Stale(d, entry) == Keyed(entry) # Keyed(have[d])

(* A lost answer leaves watermark and signature alone; the second attempt of *)
(* the plugin is an exchange like any other.                                 *)
Exchange(d, mode) ==
    /\ call[d] = None
    /\ clock > 0
    /\ mode \in {"live", "closed"} => Collected(d)
    /\ \E entry \in Read(d, mode) :
       LET sent == Prepared(d, mode, entry)
           h == Served(d, sent)
       IN  /\ row' = h.row /\ acks' = h.acks
           /\ lapses' = With("stale", Stale(d, entry))
           /\ \/ /\ IF mode = "sweep" THEN Spend("sweeps") ELSE UNCHANGED spent
                 /\ Answered(d, mode, sent, h)
              \/ mode # "sweep" /\ Spend("lost") /\ UNCHANGED <<call, mark, sig, owed>>
    /\ UNCHANGED <<twin, have, web, cycle, reader>>

(* applyLive and applyToSidecar: what the answer makes of the entry.  An     *)
(* open book keeps an entry it has when told to add it, and adds a new one   *)
(* where it finds the passage; a live edit without its target is dropped.    *)
Applied(d, c) ==
    LET received == [text |-> c.text, at |-> c.at, same |-> TRUE]
    IN  IF c.todo = "delete" THEN None
        ELSE IF have[d] = None
        THEN IF ~c.live THEN received
             ELSE IF c.todo = "add" THEN [received EXCEPT !.same = d \notin Repairing]
             ELSE None
        ELSE IF c.todo = "edit" THEN [have[d] EXCEPT !.text = c.text, !.at = c.at]
        ELSE IF c.live THEN have[d] ELSE received

(* A closed book's file is written.                                          *)
Filed(d, c) ==
    owed' = IF c.live \/ owed[d] = {} THEN owed ELSE [owed EXCEPT ![d] = {Applied(d, c)}]

(* KOReader's own removal may fail; the deletion is acknowledged all the     *)
(* same.                                                                     *)
Apply(d, c) ==
    \/ have' = [have EXCEPT ![d] = Applied(d, c)] /\ UNCHANGED spent
    \/ c.todo = "delete" /\ c.live /\ have[d] # None /\ Spend("stuck") /\ UNCHANGED have

(* ack_koreader_annotations.                                                 *)
Confirm(d, c) ==
    acks' = IF c.todo = "delete" THEN [acks EXCEPT ![d].dead = TRUE]
            ELSE Acked(acks, d, c.ver)

Done(d) == call' = [call EXCEPT ![d] = None]

(* The answer is applied and acknowledged.                                   *)
Finish(d) ==
    /\ call[d] # None
    /\ Apply(d, call[d]) /\ Filed(d, call[d])
    /\ Confirm(d, call[d])
    /\ Commit(d, call[d].sent)
    /\ Done(d)
    /\ UNCHANGED <<row, twin, web, cycle, lapses, reader>>

(* The acknowledgement is lost, before or behind the hub.                    *)
FinishUnconfirmed(d, arrived) ==
    /\ call[d] # None /\ Spend("lost")
    /\ have' = [have EXCEPT ![d] = Applied(d, call[d])] /\ Filed(d, call[d])
    /\ IF arrived THEN Confirm(d, call[d]) ELSE UNCHANGED acks
    /\ Done(d)
    /\ UNCHANGED <<row, twin, mark, sig, web, cycle, lapses, reader>>

Device(d) ==
    \/ \E mode \in Modes : Exchange(d, mode)
    \/ Finish(d)
    \/ \E arrived \in BOOLEAN : FinishUnconfirmed(d, arrived)

--------------------------------------------------------------------------------
(* The cycle at Grimmory: read there, read the hub, write there, note it,    *)
(* read there again, merge.                                                  *)

Go(step) == cycle' = IF step = "pull" THEN [step |-> "pull"] ELSE [cycle EXCEPT !.step = step]
Rest == <<device, reader>>

(* get_annotation_spoke_state: the tombstone or the version that the spoke is *)
(* not known to have.                                                        *)
Pending ==
    IF Dead /\ ~acks["site"].dead /\ row.site # None THEN "delete"
    ELSE IF Alive /\ acks["site"].ver < row.ver THEN "change" ELSE "nothing"

(* GET, what is pending, and the way a change is made: a row without an id   *)
(* takes the one listed at its anchor, an id that Grimmory lists at the      *)
(* row's anchor is updated, and any other is deleted and made again.         *)
(* Without an answer the book is left for the next cycle.                    *)
Plan ==
    /\ cycle.step = "idle" /\ clock > 0
    /\ LET there == remote # None /\ remote.same
           id == IF Alive /\ row.site # None THEN row.site
                 ELSE IF there THEN remote.id ELSE None
           way == IF Pending = "delete" THEN "erase"
                  ELSE IF Pending = "nothing" THEN "pull"
                  ELSE IF id = None THEN "create"
                  ELSE IF there /\ remote.id = id THEN "update"
                  ELSE "replace"
       IN  \/ /\ UNCHANGED spent
              /\ cycle' = IF way = "pull" THEN [step |-> "pull"]
                          ELSE [step |-> way, text |-> row.text,
                                id |-> IF way = "erase" THEN row.site ELSE id]
           \/ Spend("refused") /\ cycle' = [step |-> "card"]
    /\ UNCHANGED <<hub, web, lapses, Rest>>

Has(id) == remote # None /\ remote.id = id

(* delete_annotation: an unknown id counts as deleted.                       *)
Erase ==
    /\ cycle.step \in {"erase", "replace"}
    /\ \/ /\ UNCHANGED spent
          /\ remote' = IF Has(cycle.id) THEN None ELSE remote
          /\ lapses' = With("open", Has(cycle.id) /\ cycle.step = "replace")
          /\ Go(IF cycle.step = "erase" THEN "erased" ELSE "recreate")
       \/ Spend("refused") /\ UNCHANGED <<remote, lapses>> /\ Go("pull")
    /\ UNCHANGED <<hub, card, made, Rest>>

Update ==
    /\ cycle.step = "update"
    /\ \/ /\ Has(cycle.id) /\ UNCHANGED spent
          /\ remote' = [remote EXCEPT !.text = cycle.text, !.at = Now]
          /\ Go("uploaded")
       \/ ~Has(cycle.id) /\ UNCHANGED <<remote, spent>> /\ Go("pull")
       \/ Spend("refused") /\ UNCHANGED remote /\ Go("pull")
    /\ UNCHANGED <<hub, card, made, lapses, Rest>>

Made == [id |-> made + 1, text |-> cycle.text, at |-> Now, same |-> TRUE]

(* The list is read again after a create that failed, and what is at the     *)
(* row's anchor is taken; not so after a deletion.                           *)
Failed ==
    cycle' = IF cycle.step = "create" /\ remote' # None /\ remote'.same
             THEN [cycle EXCEPT !.step = "update", !.id = remote'.id]
             ELSE [step |-> "pull"]

(* create_annotation: Grimmory refuses a second one at the same anchor, or   *)
(* fails, or its answer is lost.                                             *)
Create ==
    /\ cycle.step \in {"create", "recreate"}
    /\ \/ /\ remote = None /\ UNCHANGED spent
          /\ remote' = Made /\ made' = made + 1
          /\ cycle' = [cycle EXCEPT !.step = "uploaded", !.id = made + 1]
       \/ /\ remote = None /\ Spend("lost")
          /\ remote' = Made /\ made' = made + 1
          /\ Failed
       \/ /\ IF remote # None THEN UNCHANGED spent ELSE Spend("refused")
          /\ UNCHANGED <<remote, made>>
          /\ Failed
    /\ UNCHANGED <<hub, card, lapses, Rest>>

(* mark_spoke_annotations_uploaded: the row's version as it is by now.       *)
Mark ==
    /\ cycle.step \in {"uploaded", "erased"}
    /\ IF cycle.step = "erased"
       THEN acks' = [acks EXCEPT !["site"].dead = TRUE] /\ UNCHANGED <<row, lapses>>
       ELSE /\ row' = [row EXCEPT !.site = cycle.id] /\ acks' = Acked(acks, "site", row.ver)
            /\ lapses' = Closed
    /\ Go("pull")
    /\ UNCHANGED <<twin, web, Rest, spent>>

(* Mutant: an older text at Grimmory is left there, as if it were the row's.  *)
MergedNewer(h, got) ==
    IF got # None
    THEN IF h.row = None
         THEN [row |-> NewRow("site", got.text, got.at, got.id), acks |-> Acked(h.acks, "site", 1)]
         ELSE IF h.row.dead THEN h
         ELSE LET r == IF h.row.text # got.text /\ got.at >= h.row.at
                       THEN Written(h.row, "site", got.text, got.at) ELSE h.row
              IN  [row |-> [r EXCEPT !.site = got.id], acks |-> Acked(h.acks, "site", r.ver)]
    ELSE IF h.row # None /\ ~h.row.dead /\ h.row.site # None THEN Tombstoned(h, "site")
    ELSE h

(* apply_spoke_annotations(trust_positions=False): everything Grimmory lists *)
(* is merged, text that differs whichever is newer; a tombstone is not       *)
(* lifted; a row whose id it no longer lists takes the id that its passage   *)
(* is listed under, or is tombstoned.                                        *)
Merged(h, got) ==
    IF got # None
    THEN IF h.row = None
         THEN [row |-> NewRow("site", got.text, got.at, got.id), acks |-> Acked(h.acks, "site", 1)]
         ELSE IF h.row.dead THEN h
         ELSE LET r == IF h.row.text # got.text
                       THEN Written(h.row, "site", got.text, got.at) ELSE h.row
              IN  [row |-> [r EXCEPT !.site = got.id], acks |-> Acked(h.acks, "site", r.ver)]
    ELSE IF h.row # None /\ ~h.row.dead /\ h.row.site # None THEN Tombstoned(h, "site")
    ELSE h

(* A tombstone that does not know the id it is listed under is not found.    *)
Returns(got) == Dead /\ got # None /\ row.site # got.id

Merge ==
    /\ cycle.step = "pull"
    /\ \/ /\ UNCHANGED spent
          /\ LET h == Merged([row |-> row, acks |-> acks], remote)
             IN  row' = h.row /\ acks' = h.acks
          /\ twin' = (twin \/ Returns(remote))
          /\ lapses' = IF remote # None THEN Closed ELSE With("torn", Alive /\ "open" \in lapses)
       \/ Spend("refused") /\ UNCHANGED <<hub, lapses>>
    /\ cycle' = [step |-> "card"]
    /\ UNCHANGED <<web, Rest>>

Site == Plan \/ Erase \/ Update \/ Create \/ Mark \/ Merge

--------------------------------------------------------------------------------
(* The cycle at Hardcover: what is not acknowledged, the rows, the write,    *)
(* the versions as they were read.                                           *)

CardLook ==
    /\ cycle.step = "card"
    /\ LET changed == Alive /\ acks["card"].ver < row.ver
           gone == Dead /\ acks["card"].ver > 0 /\ ~acks["card"].dead
       IN  cycle' = IF changed \/ gone
                    THEN [step |-> "rows", changed |-> changed, gone |-> gone] ELSE Idle
    /\ UNCHANGED <<hub, web, lapses, Rest, spent>>

CardRows ==
    /\ cycle.step = "rows"
    /\ cycle' = IF (Alive /\ cycle.changed) \/ cycle.gone
                THEN [step |-> "notes", gone |-> cycle.gone,
                      text |-> IF Alive THEN row.text ELSE None,
                      ver |-> IF Alive THEN row.ver ELSE 0]
                ELSE Idle
    /\ UNCHANGED <<hub, web, lapses, Rest, spent>>

CardWrite ==
    /\ cycle.step = "notes"
    /\ \/ UNCHANGED spent /\ card' = cycle.text /\ Go("noted")
       \/ Spend("refused") /\ UNCHANGED card /\ cycle' = Idle
    /\ UNCHANGED <<hub, remote, made, lapses, Rest>>

(* Mutant: the row's version as it is by now.                                *)
CardAckCurrent ==
    /\ cycle.step = "noted"
    /\ acks' = [Acked(acks, "card", IF cycle.ver = 0 THEN 0 ELSE row.ver)
                  EXCEPT !["card"].dead = @ \/ cycle.gone]
    /\ cycle' = Idle
    /\ UNCHANGED <<row, twin, web, lapses, Rest, spent>>

(* ack_annotation_versions.                                                  *)
CardAck ==
    /\ cycle.step = "noted"
    /\ acks' = [Acked(acks, "card", cycle.ver) EXCEPT !["card"].dead = @ \/ cycle.gone]
    /\ cycle' = Idle
    /\ UNCHANGED <<row, twin, web, lapses, Rest, spent>>

Card == CardLook \/ CardRows \/ CardWrite \/ CardAck

--------------------------------------------------------------------------------

(* The process restarts: what the cycle had in hand is lost.                 *)
Restart ==
    /\ cycle # Idle /\ Spend("restart")
    /\ cycle' = Idle
    /\ UNCHANGED <<hub, web, lapses, Rest>>

Next ==
    \/ Reader
    \/ \E d \in Devices : Device(d)
    \/ Site
    \/ Card
    \/ Restart

Spec == Init /\ [][Next]_vars

(* run_annotation_sync_daemon runs the cycle again and again, and so does    *)
(* the plugin with a book that it has exchanged before.                      *)
Sync(d) == Exchange(d, "live") \/ Exchange(d, "closed")

Fairness ==
    /\ WF_vars(Site \/ Card)
    /\ \A d \in Devices : SF_vars(Sync(d)) /\ WF_vars(Finish(d))

FairSpec == Spec /\ Fairness

--------------------------------------------------------------------------------
(* Properties.                                                               *)

TypeOK ==
    /\ row = None \/ row \in [ver : Nat, dead : BOOLEAN, text : Nat, at : Nat,
                              src : Devices \cup {"site"}, site : Nat \cup {None}]
    /\ acks \in [Parties -> [ver : Nat, dead : BOOLEAN]]
    /\ \A p \in Parties : acks[p].ver > 0 => row # None /\ acks[p].ver <= row.ver
    /\ have \in [Devices -> Content \cup {None}]
    /\ mark \in [Devices -> Nat \cup {Never}]
    /\ \A d \in Devices : \A held \in {sig[d], owed[d]} :
           held \subseteq Content \cup {None} /\ Cardinality(held) <= 1
    /\ \A d \in Devices : call[d] # None => call[d].todo \in {"add", "edit", "delete"}
    /\ remote = None \/ remote \in [id : 1 .. made, text : Nat, at : Nat, same : BOOLEAN]
    /\ cycle.step \in {"create", "recreate"} /\ remote # None => remote.same
    /\ card \in Nat \cup {None}
    /\ {twin, erased} \subseteq BOOLEAN /\ lapses \subseteq {"open", "torn", "stale"}
    /\ clock \in Nat /\ made \in Nat
    /\ spent \in [Kinds -> Nat]

(* "Tombstoned rows are never revived by a stale remote echo", and a delete  *)
(* wins over the re-upload of a device that has not heard of it: only a      *)
(* device that confirmed the deletion and still has the entry, in the book   *)
(* or in a file it owes the hub, brings it back.                             *)
TombstonesStand ==
    [][Dead /\ ~row'.dead =>
         \E d \in Devices : acks[d].dead /\ {have[d]} \cup owed[d] # {None}]_vars

(* The reader's own removal, somewhere, tombstones the row: a missing key, a *)
(* failed request and a replaced annotation do not.  The code has two ways   *)
(* around it: Grimmory refuses to take again an annotation that the cycle    *)
(* has just removed for its changed anchor, or a late upload lists a sidecar *)
(* from before the entry came.                                               *)
OnlyTheReaderDeletes == Dead => erased \/ lapses \cap {"torn", "stale"} # {}

(* KOReader removed every entry that it was told to remove, and no file was  *)
(* sent that knew less, or more, than the book.                              *)
Intact == spent.stuck = 0 /\ "stale" \notin lapses

(* A tombstone reaches every device that the hub knows to have had the       *)
(* highlight, however the requests that carry it are lost, cut short by a    *)
(* snapshot or answered late.  A device whose acknowledgement of an added    *)
(* entry was lost is not known to have it: nothing offers it the deletion,   *)
(* and its own upload of the entry is refused as stale.                      *)
DeletionArrives ==
    <>[](Intact /\ Dead => \A d \in Devices : acks[d].ver > 0 => have[d] = None)

(* The hub and Grimmory end up with the same text, or both without it, after *)
(* refused requests and a restart in the middle of the cycle.  An annotation *)
(* whose id the hub never noted, the process having stopped between the      *)
(* creation and the note, is left there when the highlight is deleted.       *)
SiteAgrees ==
    <>[](Intact => IF Alive THEN remote # None /\ remote.text = row.text
                   ELSE remote = None \/ (Dead /\ row.site # remote.id))

(* Hardcover's notes end up as the hub has them, edits made while they were  *)
(* being written included.  A text that was written and never acknowledged   *)
(* stays when the highlight is deleted.                                      *)
CardAgrees ==
    <>[](Intact => IF Alive THEN card = row.text
                   ELSE card = None \/ (Dead /\ acks["card"].ver = 0))

================================================================================

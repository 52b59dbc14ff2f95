# A TLA+ model of BookBridge

BookBridge keeps one reading position in step between an audiobook server
(Audiobookshelf), several ebook servers (Storyteller, BookLore/Grimmory,
BookOrbit, Kavita, BookFusion, Readest, CWA), the trackers (Hardcover,
StoryGraph) and KOReader devices, for several accounts that share one catalogue.
It is one Python process: a Flask server that answers each request on a thread
of its own, a scheduler thread, some background listeners, and a SQLite
database. This directory holds TLA+ modules of the parts whose correctness
depends on order, the TLC configurations that check them and TLAPS proofs of
what matters most.

## The system

| Component | State it keeps | Operations | What is hard | What makes it correct |
|---|---|---|---|---|
| Sync scheduling (`sync_manager.py`) | sync lock, pending set, replay flag | `sync_cycle`, rounds over the users, replay, `clear_progress` | threads on one lock, time-outs, a queue and a worker that may be ending | one cycle at a time; a request is never lost and is eventually served |
| Sync cycle, leader selection (`sync_manager.py`) | State rows per client, a cycle's reads | fetch, choose a leader, write the others, save | echoes of own writes, rollbacks, partial failures, restarts | converges on the reader's position; never follows its own write; makes no position up |
| Write tracker, observation trail (`services/`) | recent own writes and reports | record, suppress, corroborate | windows that expire between write and read | an own write is not taken for reading |
| Client poller, ABS socket (`services/`) | last seen positions, a debounce | poll, settle, trigger | bursts, own writes | a reader's move triggers a sync |
| KoSync server (`api/kosync_server.py`) | document rows (shared by readers), per-user rows, links, State, rewind evidence, debounce entries | device PUT and GET, the bridge's own PUTs, linking | several devices, hashes and readers of one book; concurrent requests | no reader moves another; a stale device never takes a reader back; a real rewind does and sticks |
| Alignment jobs (`sync_manager.py`) | books' status and pairing, maps, job rows, cancel tokens | tick, worker, ebook-only batch, input recovery, restart; re-match, remap, clear, delete, add | hours between a worker's read of a row and its write; deletes, remaps and kills meanwhile | a queued book is settled; an active book has a map, of its own pairing; a deleted book stays deleted |
| Read-along delivery (`services/forge_service.py`, `web_server.py`) | a request per book, a reservation, status rows | match, end of the alignment, dashboard, generation, removal | three ways to start the same long job; errors between its hand-overs | one generation of a book at a time; a request is taken up |
| Reading sessions (`db/database_service.py`) | open sitting, history, an outbox row with a status per service | record movement, close, deliver, purge | retry after a lost answer; a destination that is down | time is credited once; a session is delivered |
| Annotation sync (`services/`, the plugin) | highlights with versions and tombstones, what each party confirmed | exchange with devices, cycle with Grimmory, notes at Hardcover | two-sided edits and deletes, lost answers | no highlight is lost or comes back |
| KOReader device sync (`services/`, the plugin) | manifest and its revision, a managed folder | resolve, hash, link, download, mirror deletions | files replaced while they are open, names that move | the folder becomes what the manifest says |
| Tracker cooldown (`sync_manager.py`) | timers per book | schedule, replace, fire | a timer that fires while it is replaced | the last position is sent once |
| Per-user clients | bundles per account | build, invalidate | credentials change during a build | a stale bundle is not kept |
| Shelf watch, suggestions, library watch, hash reconciler | seen items, pending suggestions | periodic scans | coalesced signals | nothing is suggested twice |

The components meet in five places. A device's PUT leaves a debounce entry; the
debounce loop, the poller, the socket and the tracker timers all call
`SyncManager.sync_cycle` with a book and a user and compete for the sync lock.
The cycle writes to KoSync over HTTP through the same server the devices use. The
States it saves are what the KoSync server answers with, and the movement it saw
is what the reading sessions are made of. `clear_progress` takes the sync lock
and writes to both. The end of an alignment dispatches the read-along.

The table of hazards in `PROJECT.json` names, line by line, what is hard to test
here, and the properties that look after it.

## Modules

| Module | Models |
|---|---|
| `InstantRequests` | what a caller of an instant sync is promised: an abstract specification |
| `SyncScheduler` | the threads, the sync lock, the pending set and the replay worker; implements it |
| `PositionRelay` | what the cycle promises about positions: an abstract specification |
| `SyncCycle` | one book through the cycle, its leader selection, and the poller, socket and PUTs that trigger it; implements it |
| `KosyncServer` | one book at the KoSync server: PUT, GET, linking, the rewind gate, the bridge's writes |
| `AlignmentJobs` | how books get their maps: the tick, its worker, a restart, and the web requests meanwhile |
| `ReadAlong` | who generates the read-along of a book and when |
| `AnnotationHub` | one highlight between devices, the hub, Grimmory and Hardcover |
| `ReadingSessions` | one reader's reading time in one book, from movement to delivery |
| `...Proofs` | inductive invariants, one lemma per action, and the theorems |
| `MC...` | the instances TLC checks |

### SyncScheduler

`lock` is `_sync_lock`, `pending` `_pending_sync_books`, `flag`
`_replay_worker_running`; `pc` says where a thread is, and the actions are the
stretches of code between two points where threads can interleave: the acquire,
its time-out, the insertion into the pending set, the release, and the dispatch
that follows the release *outside* the lock. A caller enters with
`RequestSync`; the daemon visits users with one attempt each. `_pending_sync_lock`
is only ever held for one such stretch, so it needs no variable. What a cycle
does to the positions is not in this module.

`InstantRequests` says: a request stays wanted until a cycle runs for it or its
user turns out not to be allowed to sync. `KeepsItsPromise` is that
specification under the mapping `want <- Wanted`, `running <- Running`.

Fairness: threads run; the daemon keeps starting full rounds, as its schedule
does every period; `AcquireForTarget` is strongly fair, since `threading.Lock`
hands the lock to some waiter and the cycles of the others end. Nothing obliges
callers to come, accounts to change or `clear_progress` to start. The liveness
property assumes that `clear_progress` does not come for ever and that the
replay worker is not timed out for ever: with cycles of more than ten seconds
back to back a worker can queue its own request again and again.

### SyncCycle

The variables are the tables and memories of the process: `held` is what the
services would answer (with who put it there, which no code reads and the
properties need), `saved` the State rows, `wrote` `write_tracker`, `guarded` the
socket's self-write window, `trail` and `recent` the observation trail, `put` the
recent device PUTs, `known` and `waiting` the poller's, `event` the socket's
debounce, `wanted` the instant syncs under way, `tried` the cooldown of a fill.
`cycle` is what a running cycle has read and has still to write.

`Begin` fetches; `Decide` is `_determine_leader` with the checks before and after
it, down to the locator that may not resolve. A follower is written in two steps,
as the clients do it: `Write` is the service taking the position, `Answered` the
return of the request and the write tracker's record of it; `Refuse` and
`WriteFails` (which also loses an answer after the service took the position) are
the other ends. `SaveLeader`, `SaveFollowers` and `SaveFill` store the States. The
operators between `Seen` and `Approved` have the names of the code's stages:
movers, echoes, vetoes, rewinds trusted because the trail corroborates them,
demotion, holds, the furthest-wins filter, the bootstrap. Only one cycle runs,
which is what `SyncScheduler` shows.

Abstracted: positions are points so far apart that every difference is
significant, so the rollback dead band and Guard 1 (inert with three services)
have no place; time moves in two strides, `Pause` (a hold of a backward move
ends) and `LongPause` (every window has closed). The read of ABS before its write
and the write are one step, and what a request changes at a service it changes at
once. Trackers as followers, the propagation of a completion, the read-along mirror
and stale ABS items are left out.

Between the service's `Write` and the `Answered` of the cycle the poller, on its
own thread, finds a position that nobody has recorded as the bridge's, and takes
it for the reader's: it adds it to the trail and asks for a sync. That is what the
code does, against what `observation_trail.py:19-21` says of its reports. In the
model such a position is marked `sent`, and `bridge` from the record on.
`TrailIsTheReaders` therefore speaks of writes that are recorded, and `Quiesces`
assumes that polls do not fall into that window for ever; `EchoNeverLeads` is
about remembered writes and needs neither.

`PositionRelay` says that the bridge only copies positions it has read at some
service. It tells a move, after which the position is the reader's, from a copy,
after which it is the bridge's, so that every write of the cycle has to be a
`Copy` of a noted position. The mapping takes a running cycle's reads, then its
leader's position, for `noted`, and `Seat` for who put a position there.

Fairness: the poller, the socket's loop and the daemon run for as long as the
process does, and a cycle goes on (weak); a queued sync gets the lock, and time
passes, though cycles and events come in between (strong).

### KosyncServer

One book, the hashes that are or may become linked to it, its readers and their
devices. `shared` is `kosync_documents`, `row` is `kosync_user_progress`,
`state` the `"kosync"` rows of `states`, `trail` and `anchor` the two kinds of
rewind evidence, `event` the debounce entries. A device's PUT is two actions: the
decision (`DevicePutForward`, `DevicePutRewind`, `DevicePutUnclaimedRewind`,
`DevicePutWithoutAccess`), which reads the rows, and `StoreDevicePut`, which
writes them; with `Serial` nothing comes in between, without it anything may.
The bridge's PUTs are made by the one cycle that runs at a time and are followed
by `SaveCycleState`. Timestamps are abstracted to what the code asks of them:
whether a row is older than the last approved rewind (`old`).

Rows of other clients that a GET may fall back on, installs without accounts,
the XPath order, pages of comics and the device arbiter's "on" mode are left out,
and so is the `force` flag, which lets a PUT through the gate
(`kosync_server.py:2117`): what the gate promises is about the other reports. The
gate is per user preference (`FurthestWins`).

`setup` says which install a behaviour is about: accounts, devices, hashes, what
the bridge may do, and whether a PUT's decision and store are separated. It is
chosen at the start and never changes, so that one run looks at several installs.

The server is threaded and does not serialise PUTs, so what the gate promises has
two parts. `RewindNeedsReadingOn` and `ClaimedPositionStands` say of every
interleaving that a report *passes* the gate (`Passes`) only if, judged by the
position stored then, it may; and of requests that do not overlap (`Serial`) also
that what is *stored* was lowered by such a report only. Between the two there is
a race which the code has: a report that was judged before a higher one was
stored replaces it afterwards. `RewindTakesEffect` excuses a higher answer after
an approved rewind only by a row that a device (`dev \in Devices`) stored since
the cycle read the rows; the bridge's own row, which every rewind writes, excuses
nothing.

### AlignmentJobs

`book`, `map` and `job` are the tables `books`, `book_alignments` and the latest
alignment row of `jobs`. A pairing of an audiobook and an ebook is one value; a
map is the pairing it was built from. `tick` is `check_pending_jobs` between its
reads and writes, `worker` the one background thread with the copy of the row it
was started with and its cancellation token, `cycle` what a running sync cycle has
read and may still repair, `deleting` the deletions between the cancellation and
the removal of the row. The worker is cut where other threads can come in: before
its work, before the map is stored, before each write. Both ways of saving a row
write all columns of the copy; neither revives a deleted row.

`asked` is a history variable: a rebuild the web answered as queued, until a
worker starts on it (`serving`) or its request is overwritten (`lost`). An input
repair goes through `TickBegin` (the proof), `WorkerRecovers` and
`WorkerPublishes`, whose comparison of row, job and map is the real one, with
the version of a map compared by its pairing.

A re-match keeps the row's status or makes the book active without a rebuild
where the source is unchanged and a map is there (`Rematched`). A clear without a
map queues the book, as the default of `REPROCESS_ON_CLEAR_IF_NO_ALIGNMENT` does;
with it off the code activates a book that has no map, and `ActiveHasMap` would
not hold. `Starts` gives the scenarios: the books there at first, and how often
each web operation and the restart may come.

Merged into one step: the proofs of one tick (each is a transaction of its own
that compares what it read), activating audio-only books, a batch's claim, the
check and job row of a failure, a web request's read and save, and the
restart's pass over the books. The ways to obtain a map (Storyteller, SMIL,
CTC, Whisper) are one store, which may keep the incumbent where the text is the
same (`SameText`), as the publish veto does. Queue order and retry delay are any
order and any delay.

Fairness: the daemon calls the tick every minute and a started thread runs; a
request or a cycle that began goes on. Nobody has to request anything.

### ReadAlong

`status` and `map` are the book's row and alignment, `requested`
`readalong_epub_requested`, `reserved` membership of the book in
`_ACTIVE_READALONG_GENERATIONS`, `gen` the generations alive, `jobs` their status
rows. A thread (`Matchers`, the alignment job, the dashboard's route) walks from
its look at the book over `Admit` (the reservation) and `Consume` (the request)
to `Start`, which hands the reservation to the generation; `Work`, `Release` and
`Unwind` give it back on every path. The wrapper around the worker is in the
model because both of them have a `finally`.

Others write the status without looking for a request: a match without the
checkbox (`MatchOnly`), a clear (`ClearProgress`, with either setting of
`REPROCESS_ON_CLEAR_IF_NO_ALIGNMENT`) and the startup. A request that they find on
record stays there with nobody on the way to it, until the next alignment or
asking match takes it up; `missed` notes it, and `RequestServed` excepts it, as it
does a dispatch that meets a generation, fails or is cut off. The alignment job
may fail before its map is stored, after it, or before its dispatch
(`AlignFails`); the wrapper of a generation may fail before it hands the job to
the worker (`HandOffFails`) and then gives the reservation back itself.

One book. The alignment is three steps, the builder is a step that succeeds or
fails. Retries are bounded only by the faults; status writes do not fail; the
files are not modelled. The alignment's end also stands for the end of a forge
job, whose dispatch has the same shape.

### AnnotationHub

`row` is the highlight's `KoreaderAnnotation`, `acks` the
`KoreaderAnnotationDeviceState` rows, `have`, `mark`, `sig` and `call` what a
device keeps in its sidecar and settings and the exchange it waits for, `remote`
Grimmory's annotation, `card` the bridge's part of Hardcover's notes, `cycle` what
`run_cycle` has in hand. Since KOReader blocks on HTTP, a request and its handling
are one step (`Exchange`), and so are applying and acknowledging an answer
(`Finish`); either can be lost. An exchange is of the open book, of a closed one,
a sweep, or the upload that closing the book owes (`Close`, `owed`): it sends the
sidecar file as it was then, a complete key list included, and may come late,
with the book changed or open again. Where the captured upload itself failed, the
file that the retry reads is the one of the close.

The cycle is cut at each request to a site: `Plan`, `Erase`, `Update`, `Create`,
`Mark`, `Merge`; then `CardLook` to `CardAck`. `Plan` updates an id that Grimmory
lists at the row's anchor, takes over one listed there for a row without an id,
and replaces an id listed at another anchor or not at all: it is deleted and made
again. `remote.same` says whether the anchors agree; they part when a row is made
from Grimmory's annotation, or when the book or the conversion of positions
changes (`Moved`). One copy at Grimmory is enough: a create that finds one finds
it at its own anchor (a clause of `TypeOK`), and there Grimmory refuses a second.
Times come from a clock that the reader's actions advance.

One highlight. BookOrbit (which is trusted), BookFusion and Readest, the web
notes, paging, positions that do not convert and clocks that disagree are left
out, and so is what becomes of a row that a merge made a second time (`twin`).
`Merge` is one step; the code's reads its rows before it writes them, and an
exchange that falls in between is not in the model. Two behaviours are outside the
instances that are checked: a live repair of ranges that changes keys, and edits
in the same second.

The properties say what the hub can know, and the runs with a deletion and a lost
acknowledgement or a restart show where that ends:

- A device that applied an added entry and whose acknowledgement was lost is not
  known to have it: `_compute_annotation_delta` (`database_service.py:4767`) offers a
  deletion only to a device with an acknowledged version, and the device's own
  upload of the entry is refused as stale (line 4689). The entry stays there.
  `DeletionArrives` speaks of devices with an acknowledged version.
- Grimmory's id is noted after the create (`annotation_sync_service.py:681`), the
  versions in the notes after the write (`hardcover_annotation_sync.py:207`). A
  process that stops in between leaves a second annotation at Grimmory, and if
  the highlight is deleted before the next cycle, a text at either that nothing
  removes. `SiteAgrees` and `CardAgrees` except an annotation of another id and a
  text that was never acknowledged.
- There are two ways to a tombstone that no reader asked for, and
  `OnlyTheReaderDeletes` excepts exactly these (`lapses`). A highlight that is
  replaced at Grimmory for its changed anchor (`annotation_sync_service.py:666`) is
  listed nowhere once the old annotation is deleted and the new one refused; the
  next pull takes that for a deletion (`torn`). And the upload that a closed book
  owes (`main.lua:3332`) may list every key of a file from before an entry came
  (`stale`).
- A device revives a deleted highlight only if KOReader failed to remove it, or if
  a file from before the deletion is sent after it was confirmed; the marks of the
  other parties then still say that the deletion is confirmed, and a second
  deletion is not offered to them. `Intact` excludes both.
- The bridge pulls after it pushes, and takes any differing text for an edit made
  at Grimmory: an edit of a device that reaches the hub between the push and the
  pull, or whose push is refused, is taken back by the older text. `SiteAgrees`
  holds, the edit is lost; `[][Alive /\ Alive' => row'.at >= row.at]_vars` is
  violated in nine steps.

Fairness: the annotation daemon repeats its cycle (weak); a device exchanges again
and again a book it has exchanged (strong, since it may be busy) and finishes an
exchange it began (weak).

### ReadingSessions

`saved` is `State.last_updated`, `notice` the movement a cycle has stored and not
handed on, `open` the buffer without `closed_at`, `history` the local
`ReadingSession` rows, `rows` the outbox, `flush` a delivery. `Notice` and
`Extend` are the two halves of a movement, `Maintain` the scheduler's maintenance
for all readers, `FlushStart` to `RowDone` a delivery, cut between posting and
marking. The rows of a delivery are a set, taken by the time of their last event,
and `at` is the place of the destination in hand in `Order`. Web requests
(settings, removal and re-match of the mapping, switching an account off) fall
between any two steps. Cycles, deliveries and maintenance run under the sync lock,
so only one of them is under way.

A session is `wide` if its progress spans more than 0.05 % of the book. BookOrbit
is asked before it is posted to (`Checking`), and the look ignores overlaps up to
that width (`bookorbit_client.py:68`, `:1746`): a session that was delivered and is
not wide is not found, and a retry posts it again. `PostedOnce` says what is left.
Every further copy, at any destination, comes of a lost answer or of a restart
before the mark; at a destination that is asked first it takes a failed look
besides, if the session is wide.

Time is in units of the idle gap and stands still while the lock is held. One
reader, book and media type; a service without a client counts as one that
refuses; the trimming of a session which the destination has logged in part, the
attempts counter and the sessions a device reports itself are left out. Each
behaviour follows a `plan`: who leads, what moves, which destinations are down,
which faults come.

Fairness: the maintenance and the reader's cycles come again and again between
other uses of the lock (strong), and what holds the lock goes on (weak).

## Runs

| Run | Instance | Shows |
|---|---|---|
| `scheduler` | 1 user, 1 book, 1 caller, 2 replay threads, 1 clear | the lock, the flag, the promise and that each request is answered, over all interleavings; two replay threads are what a double start needs |
| `kosync` | five kinds of installs: 1 reader with 2 devices on 1 hash (positions 0..2, 3 trail entries, or 2 with bridge writes between); the same with requests that race on 2 threads; 2 devices, one without an id, and an unlinked hash; 2 readers of 1 hash with decision and store apart; 1 reader with 2 hashes, rewinds and clears | a stale device takes nobody back; a claimed position in an unlinked document stands; no reader's answer changes through another; rewinds and clears hold on every hash. Three positions are what two rising reports below a stored one need |
| `jobs` | three scenarios, 2 pairings, 2 tries: 1 book under one of each web operation and 1 restart; 1 book that is deleted and added, and 1 restart; an ordinary, an ebook-only and an audio-only book, 1 remap, 1 restart | statuses, job rows and maps agree through every interleaving; a recovery yields to newer requests; nobody revives a deleted book; every queued book is settled, every failing one ends, on one worker slot. Two pairings are what a re-match needs, two tries tell a retry from the last one |
| `cycle` | ABS, KoSync, Storyteller; positions 0..2; 2 moves, one of them back or none; or 1 move, back or not, and a fault | recorded writes are never followed nor taken for evidence; every position written was held by a service; the bridge comes to rest; a reader who only went forward is at one position everywhere |
| `annotations` | 2 devices, one of which has exchanged the book before; one edit or one deletion, each with a lost answer, a refusal or a restart; an edit also with a refusal and an anchor that changes; a deletion also with a book that is closed, or with a device that keeps the entry and a sweep; a closed book with a lost answer | a deletion stands and arrives where the hub knows of a copy; nothing is deleted that the reader did not delete, but in the two ways above; both sites end up as the hub |
| `sessions` | 2 clients, 2 destinations, one of which is asked first; a queue limit of 1; wide and narrow sessions; plans with one change or fault of each of two kinds; 9 units of time | time is credited once and kept; no duplicate without a lost answer or a restart; a destination that answers is given up on only for its own failures; every session is settled |
| `readalong` | 2 matches with or without a request, 1 clear, 1 request of the dashboard, removal, unmatch, a failure at any step and a restart | one generation under one reservation that is given back; no request slips between match and alignment |

The bounds are the smallest with which the hazards happen: a second actor for
every race, a second position above and below for every comparison, one fault of
each kind at every step. Two faults in a row are only explored where the code
keeps state about the first (tries of a job, reports in a trail). In
`kosync`, `cycle`, `annotations` and `sessions` the kinds of events are combined
in mixes, each a run of its own inside the one state space, because all kinds at
once have too many states. Two runs switch the deadlock check off: in `sessions`
time ends, and in `readalong` the budgets may be used up with nothing at work.

The other runs check what the source says of itself and find a counterexample;
each is a finding in `PROJECT.json`: `kosync_retired` (one PUT after an approved
rewind brings the retired position back), `jobs_rematch` (a map of an earlier
pairing makes a book active and its rebuild is forgotten; in a scenario with a
restart or a clear these do the same), `jobs_remap` (a stale row overwrites a
queued remap), `cycle_fill` (a due fill of KoSync is discarded by a guard of the
leader selection) and `sessions_holdup` (the 200 oldest pending rows are fetched
whichever destination they wait for, `database_service.py:6208`, so that one that
is down holds up the other, against `sync_manager.py:6297-6299`; with a limit of
one, two sessions and one destination down are enough).

`AlignmentJobs` assumes that a deleted book is added again only when no work on
the deleted mapping is left (`~Busy`). The code does not see to it: a worker that
a deletion did not cancel takes the new row for its own, and without the
assumption `FailedCanRetry` fails.

Where `furthestWins` is off, devices may report any position at any time, which
allows more than the gate would; the evidence is then not kept.

## Proofs

`SyncSchedulerProofs` proves, for any sets of threads, users and books, that
`TypeOK`, `LockDiscipline` and `ReplayFlagMatchesWorker` are invariants and that
`SyncScheduler` implements `InstantRequests`. The invariant is not inductive by
itself: `IInv` adds that a thread carries a request exactly while it waits or is
in its cycle, and that an ended replay thread has an empty batch; without the
first the holder of the lock could complete a request nobody asked for, without
the second a dispatch would overwrite requests. The assumptions are that the
kinds of threads are disjoint and the null values are not members.

`AlignmentJobsProofs` proves every safety property of `jobs`, for any sets of
books and pairings, any retry limit and any number of web operations and
restarts. The three state properties are not inductive: whether the worker's last
write leaves a book with a map, or a failed one with a job that can be retried,
depends on what happened since it was started. `IInv` therefore says what each
copy still tells of the tables:

- the tick and the worker never have a book in hand at the same time (`Alone`);
- the job of the book in hand is below the limit and not for manual review, so
  that one more failure can be counted (`JobsUsable`);
- while the row of the book in hand is `processing`, its pairing is the copy's:
  whoever changed it also changed the status (`RowKept`);
- a worker past the alignment finds its map (`MapReady`), one with a cancelled
  token has a deletion under way (`CancelMeansDelete`), and one in a recovery has
  the job and the map version it took down (`Recovering`).

One lemma per action shows that it preserves `IInv`; `Stops` and `GoesOn` do it
once for all the worker's ends and plain moves. `NoGhost` then follows action by
action, and `RecoveryYields` from a second layer (`Answered`, `ProvenForCopy`):
claiming a book answers the requests made before, and a recovery's job was made
for the pairing in its copy. The assumptions are that the retry limit is
positive and the null value is no member; the proofs also rest on the assumption
on `AddBook` above.

`SyncCycleProofs` proves that own writes are never followed (`EchoNeverLeads`),
that the trail is the reader's (`TrailIsTheReaders`) and that `SyncCycle`
implements `PositionRelay`, for any finite set of services and any last position.
`EchoNeverLeads` speaks of a leader chosen from reads, while writes and pauses
went on since. `IInv` adds the shape of a cycle in hand (the leader has been read
and is not written; a fill writes only a device that had no position) and
`WritesRemembered`: while the bridge remembers a write, the service holds it or
something newer (`HeldAsWritten`), a running cycle has read it as an echo
(`ReadAsWritten`), a write whose answer is awaited is true of its service unless
the reader has moved on there (`SentAsAwaited`), and the poller and the socket
will know a recorded write when they find it (`PollFindsWrite`,
`EventFindsWrite`). None of it is said of a write between the service and its
record. `LeadersAreReaders` then goes through every way to the lead. In the
refinement a move maps to `Move`, a fetch to `Note`, a write to `Copy`, the ends of
a cycle to `Drop`.

Its last section says what the State rows are worth. Without a restart, what the
cycle wrote to a service and knows that it did stands in the service's row or is
still in the cycle's hands (`RowsKeepUp`), through refused and failed writes, lost
answers, collapsed positions and a reader who moves on between the fetch, the
write, the answer and the save; `Steady` adds what a deciding and a writing cycle
hold. So whatever a cycle finds moved was moved by the reader, or is a write whose
answer was lost, of which the tracker does not know either (`MovesAreReaders`):
for movers the write tracker is needed only when the process stopped between a
write and its row. It stays needed for a leader that did not move (a discrepancy),
for the poller and for the socket.

`ReadAlongProofs` proves `GenerationAccounted` and `RequestServed` for any number
of matches of both kinds, clears, requests, removals, failures and restarts. The
reservation is counted: `Alone` says that the holders before a start and the
generations after it are one if the book is reserved and none otherwise, and every
step moves, adds or takes away one (`FiniteSetTheorems`). `OpenRows` says who will
settle an open status row. For `RequestServed` each step that makes the book
active, records a request or ends somebody's way has to leave somebody else on it
or to be one of those that `missed` notes.

`KosyncServerProofs` proves, for any installs (readers, devices, hashes, positions,
sizes of the trail, requests that race or not), `TypeOK`, `AnswersArePrivate`,
`RewindTakesEffect`, `ClearReadsAsStart`, `ClaimedPositionStands` and
`RewindNeedsReadingOn`. A document row is shared by the readers of a book and shows
one position without saying whose; an answer that fell back on it would leak. So
`IInv` adds to the shapes that a linked hash has its document row, that a cycle
works for a reader with a claim and dates its State at an approved rewind, and
`OwnedIsOwn`: whoever's position a document row shows has a row of their own.
From this an answer is a function of the reader's own rows and State (`FromOwn`),
and each action changes only those of the reader who acts. For `RewindTakesEffect`
a second layer, `UnreadRows`, says that what a running cycle has not read of its
reader's rows a device has reported since, or is the cycle's own write: so a
higher answer after the rewind can only be a device's. The lemma `Maximum`
(a bounded set of positions has a greatest one) comes from the well-foundedness
of the strict subset order. `NoRowAssumption` says that the null row is no row.

The other two speak of what passes the gate and, where requests are serialised, of
what is stored. The first part follows from the gate and the trail alone
(`CorroboratedBelow`: a device that is believed has read on below whatever is
ahead of its report), whatever races. For the second `Waiting` says of every report
that is decided and not yet stored what its decision rests on, while `Serial`: a
claim of the device still defends the hash (`Defended`), and a position that takes
the reader back is proved by a pair of the device's own reports in the trail, both
below the position it replaces (`Proved`). Both need that nothing else stores in
between; without that the second part is false, since one report can replace what
another has raised after the first was judged.

`AnnotationHubProofs` proves, for any devices and mixes of faults, `TypeOK`,
`TombstonesStand` and, where no device searches for the passage (`Repairing =
{}`), `OnlyTheReaderDeletes`. Each operation of the hub is described once, by a
lemma about a row and its acknowledgements (`UploadIs`, `TombstonedIs`,
`MergedIs`). `IInv` says that no party has confirmed, no answer carries and no
note holds a version the row has not reached; `Anchored`, that an annotation with
another anchor is known by its id, so that no create meets one. That nobody but
the reader deletes is not inductive: the key list of a device and the listing of
Grimmory look the same whether the reader removed the highlight or it never
arrived. `Faith` adds what tells the two apart until the reader removes it or one
of the two lapses happens (`Excused`): a device that confirmed a version or made
the row has the entry (`DevicesFaithful`), and Grimmory has the annotation once
the row carries its id, unless the cycle has just removed it there to make it
again and has noted no new one (`SiteFaithful`). What becomes of the row in that
case is the difference between a replacement that the next cycle completes and a
`torn` one. The hypothesis on `Repairing` is needed: a device that repairs the
range of a passage lists the entry under another key, and the old one is missing.
`NoneAssumption` says that the null value is no entry, row or number.

Four more theorems are the safety under the three liveness properties of this
module, which TLC checks on the instance only. `VersionsAreTexts`: every step
leaves the row alone or raises its version (`Advances`), so that to have
acknowledged a version is to know the text. `NotesAreAsAcknowledged`: Hardcover's
notes are what the acknowledgements say they are. Its layer `CardSound` follows
the text from the rows through the write to the acknowledgement: until then the
row is ahead of what is acknowledged, and the version carried is that of the text
carried. Here the restart is harmless, since what is in hand was not acknowledged.
`DeletionsAreFinal` and `DeletionsAreOffered`: while KOReader did every removal
and no stale file was sent, no step lifts a tombstone, and a device that has the
highlight and an acknowledged version is offered the deletion. Their layer,
`DeathSound`, is that a device which confirmed a deletion has nothing under the
key and no answer under way. What is left to fairness is that the offers are
taken.

`ReadingSessionsProofs` proves, for any clients, destinations, bounds and plans,
`TypeOK`, `SessionsDisjoint`, `TimeIsKept`, `PostedOnce` and `GivenUpForCause`.
The invariant `Shapes` says that sessions are disjoint, that the open one begins
where the history ends, that each row and each session a destination has belongs
to one of the history, and that a delivery holds different rows. `EveryStep` sorts
the steps into six kinds under it, and two layers follow over these. `Taken`
bounds what a destination has by whether it is still owed the session and whether
the mark is under way: what is owed and not in transit has been sent at most once
for each lost answer or restart, and what a look finds, a wide session, at most
once for each failed look besides the first. `Excused` adds that the row in hand
is pending at a destination that was tried and answers only after it refused or
lost something. That the moments of two sessions differ, so that a new row is
never one that was sent, is what `Closing` gives both of them. `Order` has to name
each destination once. For `TimeIsKept`, `Seconds` counts the moments that
sessions credit, which is the sum of their durations because they are disjoint.
`Whole` says that these are finitely many and that the open session has earned no
more than a session may last: what closes it then credits all it earned, since
that is also no more than the time it spans (`CreditedInFull`). The cases are the
ways `Extend` cuts.

Three theorems give what is safety under `EverySessionSettles`. No step takes back
a status that is delivered or given up (`SettledForGood`). What a delivery
has left to do is a natural number that each of its steps decreases, and while it
runs no other step changes the number without ending the delivery
(`DeliveriesAreBounded`), so a delivery ends whatever the destinations answer. And
an attempt on a row leaves nothing of it pending, unless a destination failed and
the row is younger than the retry window (`AttemptsAreFinal`, with the layer
`Answered`). What is left to fairness is that deliveries start and that time
passes.

Every safety property that a passing run checks is a theorem of its module;
only `OnlyTheReaderDeletes` has a hypothesis, the one named above.
Liveness is model-checked only: it needs fairness, which the prover does not
handle.

## What is left

In the order in which it would add most:

1. KOReader device sync: the manifest, its cache and prebuilder, and the managed
   folder with its downloads, reuse by recorded hash, deferred and mirrored
   deletions (`koreader_device_sync_service.py`, `main.lua`). Two things to look
   at first: a deletion deferred because the book is open does not make the sync
   incomplete, so an unchanged manifest revision is not looked at again; and a
   file is reused by the hash its record states, which goes wrong when names move
   between books.
2. `HashReconciler`: the signal is cleared before the wait, so one that is raised
   during a pass is dropped until the next period.
3. `TrackerCooldown` and `UserClientRegistry`, each small.
4. Several books at once in `ReadingSessions` and `AnnotationHub`.

## Not modelled

Most of the repository's lines are not control: the alignment of text and audio,
transcription and map quality (numerical work on one book's content, no shared
state), parsing EPUBs and locating text, the HTTP clients of twelve services,
some hundred routes that render or forward, templates, migrations, settings,
diagnostics and reports. A model of these would be a transliteration, or would
assume what it is meant to show. The parts of them that have an order that
matters are in the modules above: what a route changes in a mapping or a
read-along, the requests of the plugin, the deletion at Grimmory. `PROJECT.json`
lists each part with the reason.

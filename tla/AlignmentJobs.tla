--------------------------- MODULE AlignmentJobs ---------------------------
(***************************************************************************)
(* The alignment jobs of sync_manager.py: the scheduler's tick             *)
(* (check_pending_jobs) hands one book at a time to a background worker    *)
(* (_run_background_job), which builds the map between audio and text,     *)
(* stores it and makes the book active.  Web requests re-match, remap,     *)
(* clear, delete and add books meanwhile, a running sync cycle repairs     *)
(* books from what it read at its start, and the process may be killed at  *)
(* any step; cleanup_stale_jobs then puts the books in order.              *)
(*                                                                         *)
(* A pairing (audio and ebook of a book) is one value, a map is the        *)
(* pairing it was built from, a worker holds the copy of the row it was    *)
(* started with.  save_book and update_book_if_exists write whole rows     *)
(* from such copies; neither brings back a row that is gone.               *)
(***************************************************************************)
EXTENDS Naturals, FiniteSets

CONSTANTS
    Books,        \* mappings, by abs_id
    Pairs,        \* pairings of an audiobook and an ebook
    EbookOnly,    \* books with sync_mode "ebook_only"
    AudioOnly,    \* books with sync_mode "audiobook_only"
    SameText,     \* whether the pairings share the ebook text
    MaxRetries,   \* JOB_MAX_RETRIES
    Starts,       \* what a run explores: the books that are there at first and their
                  \* pairing, and bounds of each web operation and of the restarts
    None          \* no row, no map, no job, no worker

Ops == {"add", "rematch", "remap", "clear", "delete", "restart"}

Statuses == {"pending", "processing", "active", "failed_retry_later",
             "failed_permanent"}
Rows == [status : Statuses, pair : Pairs, managed : BOOLEAN, damaged : BOOLEAN]
Jobs == [retries : 0 .. MaxRetries, done : BOOLEAN, error : BOOLEAN,
         stage : {"none", "recovery", "manual"}, ident : Pairs \cup {None}]
Ticks == [pc : {"claim", "job", "launch"}, b : Books, copy : Rows,
          retry : BOOLEAN, job : Jobs \cup {None}]
Workers == [pc : {"begin", "work", "store", "finish", "persist", "close",
                  "recover", "publish", "fail", "failed"},
            b : Books, copy : Rows, cancelled : BOOLEAN, todo : SUBSET EbookOnly,
            job : Jobs \cup {None}, map : Pairs \cup {None}, refused : BOOLEAN]
Batches == [pc : {"next"}, b : {None}, cancelled : {FALSE},
            todo : (SUBSET EbookOnly) \ {{}}]

ASSUME JobsAssumption ==
    /\ EbookOnly \subseteq Books /\ AudioOnly \subseteq Books
    /\ EbookOnly \cap AudioOnly = {}
    /\ SameText \in BOOLEAN
    /\ MaxRetries \in Nat \ {0}
    /\ Starts \subseteq [there : SUBSET Books, pair : Pairs, left : [Ops -> Nat]]
    /\ None \notin Pairs \cup Books \cup Rows \cup Jobs \cup Ticks \cup Workers \cup Batches
    /\ None # [pc |-> "select"]

VARIABLES
    book,      \* books table
    map,       \* book_alignments table
    job,       \* the latest alignment job of each book
    tick,      \* check_pending_jobs, between its reads and its writes
    worker,    \* _job_thread and its cancellation token
    cycle,     \* rows a running sync cycle read and may still repair
    deleting,  \* deletions between the cancellation and the row's removal
    asked,     \* history: rebuilds the web answered "queued"
    left       \* bound: operations left

vars == <<book, map, job, tick, worker, cycle, deleting, asked, left>>

NewJob(retries, stage, ident) ==
    [retries |-> retries, done |-> FALSE, error |-> FALSE, stage |-> stage,
     ident |-> ident]
DoneJob == [NewJob(0, "none", None) EXCEPT !.done = TRUE]
Stage(b) == IF job[b] = None THEN "none" ELSE job[b].stage

-----------------------------------------------------------------------------
(* The scheduler's tick: check_pending_jobs *)

Damaged ==
    {b \in Books \ (EbookOnly \cup AudioOnly) :
        /\ book[b] # None /\ book[b].damaged
        /\ book[b].status \in {"active", "failed_retry_later", "failed_permanent"}
        /\ Stage(b) = "none"}

\* A tick with no live worker first looks at the damaged inputs: each one is
\* queued when it can be proved, or flagged, or left alone, in one conditional
\* transaction.
TickBegin ==
    /\ tick = None /\ worker = None
    /\ \E proven \in SUBSET Damaged : \E flagged \in SUBSET (Damaged \ proven) :
        /\ book' = [b \in Books |->
             IF b \in proven
             THEN [book[b] EXCEPT !.status = "pending", !.damaged = FALSE]
             ELSE IF b \in flagged
             THEN [book[b] EXCEPT !.status = "failed_permanent"] ELSE book[b]]
        /\ job' = [b \in Books |->
             IF b \in proven THEN NewJob(0, "recovery", book[b].pair)
             ELSE IF b \notin flagged THEN job[b]
             ELSE [(IF job[b] = None THEN NewJob(0, "none", None) ELSE job[b])
                     EXCEPT !.stage = "manual", !.error = TRUE]]
    /\ tick' = [pc |-> "select"]
    /\ UNCHANGED <<map, worker, cycle, deleting, asked, left>>

Pending == {b \in Books : book[b] # None /\ book[b].status = "pending"}

\* Mutation: only books never aligned before are taken up.
NewBooksOnly == {b \in Pending \ (EbookOnly \cup AudioOnly) : job[b] = None}

FullPipeline == Pending \ (EbookOnly \cup AudioOnly)

\* Mutation: only a book that never failed is retried.
RetryableOnce ==
    {b \in Books : /\ book[b] # None /\ book[b].status = "failed_retry_later"
                   /\ job[b] # None /\ job[b].retries = 0}

Retryable ==
    {b \in Books : /\ book[b] # None /\ book[b].status = "failed_retry_later"
                   /\ job[b] # None /\ job[b].stage # "manual"
                   /\ job[b].retries < MaxRetries}

Batch(todo) == [pc |-> "next", b |-> None, cancelled |-> FALSE, todo |-> todo]

Select(b, retry) ==
    /\ tick' = [pc |-> "claim", b |-> b, copy |-> book[b], retry |-> retry,
                job |-> job[b]]
    /\ UNCHANGED worker

\* Audio-only books are activated, ebook-only books go to one batch worker,
\* then one pending book, or with none pending one failed book, is selected.
TickSelect ==
    /\ tick # None /\ tick.pc = "select"
    /\ book' = [b \in Books |-> IF b \in Pending \cap AudioOnly
                                THEN [book[b] EXCEPT !.status = "active"]
                                ELSE book[b]]
    /\ job' = [b \in Books |-> IF b \in Pending \cap AudioOnly
                               THEN DoneJob ELSE job[b]]
    /\ \/ /\ Pending \cap EbookOnly # {}
          /\ worker' = Batch(Pending \cap EbookOnly)
          /\ tick' = None
       \/ /\ Pending \cap EbookOnly = {}
          /\ \E b \in FullPipeline : Select(b, FALSE)
       \/ /\ Pending = {}
          /\ \E b \in Retryable : Select(b, TRUE)
       \/ /\ Pending \cap EbookOnly = {} /\ FullPipeline = {}
          /\ Pending # {} \/ Retryable = {}
          /\ tick' = None
          /\ UNCHANGED worker
    /\ UNCHANGED <<map, cycle, deleting, asked, left>>

\* The rebuild now starting answers a request for the pairing it works on;
\* a request for another pairing is lost with the row it was recorded in.
Serving(b, copy) ==
    asked' = [asked EXCEPT ![b] =
        IF @ # "asked" THEN @
        ELSE IF copy.pair = book[b].pair THEN "serving" ELSE "lost"]

TickClaim ==
    /\ tick # None /\ tick.pc = "claim"
    /\ LET b == tick.b  claimed == [tick.copy EXCEPT !.status = "processing"]
       IN \/ /\ book[b] # None
             /\ book' = [book EXCEPT ![b] = claimed]
             /\ tick' = [tick EXCEPT !.pc = "job", !.copy = claimed]
             /\ Serving(b, claimed)
          \/ /\ book[b] = None
             /\ tick' = None
             /\ UNCHANGED <<book, asked>>
    /\ UNCHANGED <<map, job, worker, cycle, deleting, left>>

\* A recovery keeps its stage and approval; a manual one was asked again by
\* the user and runs through the ordinary pipeline.
TickJob ==
    /\ tick # None /\ tick.pc = "job"
    /\ LET prior == IF tick.retry THEN tick.job ELSE job[tick.b]
           recovery == prior # None /\ prior.stage = "recovery"
       IN job' = [job EXCEPT ![tick.b] =
                    NewJob(IF tick.retry THEN tick.job.retries ELSE 0,
                           IF recovery THEN "recovery" ELSE "none",
                           IF recovery THEN prior.ident ELSE None)]
    /\ tick' = [tick EXCEPT !.pc = "launch"]
    /\ UNCHANGED <<book, map, worker, cycle, deleting, asked, left>>

Start(b, copy, todo) ==
    [pc |-> "begin", b |-> b, copy |-> copy, cancelled |-> FALSE,
     todo |-> todo, job |-> None, map |-> None, refused |-> FALSE]

\* register_worker, then the thread starts.
TickLaunch ==
    /\ tick # None /\ tick.pc = "launch"
    /\ worker' = Start(tick.b, tick.copy, {})
    /\ tick' = None
    /\ UNCHANGED <<book, map, job, cycle, deleting, asked, left>>

-----------------------------------------------------------------------------
(* The worker: _run_ebook_only_batch and _run_background_job *)

At(pc) == worker # None /\ worker.pc = pc

\* Mutation: the worker slot is not given up with the last book.
NeverEnds == worker' = Batch(worker.todo)

Ends == worker' = IF worker.todo = {} THEN None ELSE Batch(worker.todo)
GoesTo(pc) == worker' = [worker EXCEPT !.pc = pc]
Raises(refused) == worker' = [worker EXCEPT !.pc = "fail", !.refused = refused]

\* ensure_active: the token is cancelled, or the mapping is gone.
Stopped == worker.cancelled \/ book[worker.b] = None

BatchNext ==
    /\ At("next")
    /\ \E b \in worker.todo :
         LET rest == worker.todo \ {b}
             claimed == [book[b] EXCEPT !.status = "processing"]
         IN \/ /\ b \in Pending
               /\ book' = [book EXCEPT ![b] = claimed]
               /\ job' = [job EXCEPT ![b] = NewJob(0, "none", None)]
               /\ worker' = Start(b, claimed, rest)
               /\ Serving(b, claimed)
            \/ /\ b \notin Pending
               /\ worker' = IF rest = {} THEN None ELSE Batch(rest)
               /\ UNCHANGED <<book, job, asked>>
    /\ UNCHANGED <<map, tick, cycle, deleting, left>>

WorkerBegins ==
    /\ At("begin")
    /\ IF Stopped THEN Ends
       ELSE GoesTo(IF Stage(worker.b) = "recovery" THEN "recover" ELSE "work")
    /\ UNCHANGED <<book, map, job, tick, cycle, deleting, asked, left>>

\* The EPUB and the transcript.  A missing series name or KOSync hash is
\* filled in on the way, which writes the whole copy (persist_book).
WorkerWorks ==
    /\ At("work")
    /\ \/ /\ Stopped
          /\ Ends
          /\ UNCHANGED book
       \/ /\ ~Stopped
          /\ book' \in {book, [book EXCEPT ![worker.b] = worker.copy]}
          /\ \/ GoesTo(IF worker.b \in EbookOnly THEN "finish" ELSE "store")
             \/ \E refused \in BOOLEAN : Raises(refused)
    /\ UNCHANGED <<map, job, tick, cycle, deleting, asked, left>>

\* align_and_store: the row may have gone since the last check.  The publish
\* veto keeps a better incumbent only when it was built on the same text.
WorkerStores ==
    /\ At("store")
    /\ LET b == worker.b
       IN \/ /\ map' = [map EXCEPT ![b] = worker.copy.pair]
             /\ GoesTo("finish")
          \/ /\ map[b] # None /\ SameText
             /\ GoesTo("finish")
             /\ UNCHANGED map
          \/ /\ \E refused \in BOOLEAN : Raises(refused)
             /\ UNCHANGED map
    /\ UNCHANGED <<book, job, tick, cycle, deleting, asked, left>>

WorkerFinishes ==
    /\ At("finish")
    /\ \/ Stopped /\ Ends
       \/ ~Stopped /\ GoesTo("persist")
       \/ ~Stopped /\ worker.b \notin EbookOnly /\ Raises(FALSE)
    /\ UNCHANGED <<book, map, job, tick, cycle, deleting, asked, left>>

Finished == [worker.copy EXCEPT !.status = "active",
                                !.managed = @ \/ worker.b \notin EbookOnly]

\* Mutation: the worker's last write with save_book on a fresh row: an upsert.
WorkerUpserts ==
    /\ At("persist")
    /\ book' = [book EXCEPT ![worker.b] = Finished]
    /\ GoesTo("close")
    /\ UNCHANGED <<map, job, tick, cycle, deleting, asked, left>>

\* persist_book's write: update_book_if_exists.
WorkerPersists ==
    /\ At("persist")
    /\ \/ /\ book[worker.b] # None
          /\ book' = [book EXCEPT ![worker.b] = Finished]
          /\ GoesTo("close")
       \/ /\ book[worker.b] = None
          /\ Ends
          /\ UNCHANGED book
    /\ UNCHANGED <<map, job, tick, cycle, deleting, asked, left>>

Served == asked' = [asked EXCEPT ![worker.b] = IF @ = "serving" THEN "no" ELSE @]

WorkerCloses ==
    /\ At("close")
    /\ job' = [job EXCEPT ![worker.b] =
         IF @ = None THEN @ ELSE [@ EXCEPT !.retries = 0, !.error = FALSE, !.done = TRUE]]
    /\ Ends
    /\ Served
    /\ UNCHANGED <<book, map, tick, cycle, deleting, left>>

\* _ebook_recovery_book_matches and the row's part of the recovery CAS.
Matches(b, copy) ==
    /\ book[b] # None
    /\ book[b].status = copy.status
    /\ book[b].pair = copy.pair
    /\ book[b].damaged = copy.damaged

\* _run_cached_ebook_input_recovery up to the alignment: it takes the job
\* and the map version its publication will be compared with.
WorkerRecovers ==
    /\ At("recover")
    /\ LET b == worker.b
       IN \/ Stopped /\ Ends
          \/ /\ ~Stopped /\ ~Matches(b, worker.copy)
             /\ Ends
          \/ /\ ~Stopped /\ job[b] # None /\ job[b].ident = worker.copy.pair
             /\ Matches(b, worker.copy)
             /\ worker' = [worker EXCEPT !.pc = "publish", !.job = job[b], !.map = map[b]]
          \/ ~Stopped /\ \E refused \in BOOLEAN : Raises(refused)
    /\ UNCHANGED <<book, map, job, tick, cycle, deleting, asked, left>>

\* Mutation: a recovery publishes without looking at the row again.
RowUnwatched(b) == book[b] # None /\ job[b] = worker.job /\ map[b] = worker.map

Unchanged(b) == Matches(b, worker.copy) /\ job[b] = worker.job /\ map[b] = worker.map

\* complete_ebook_input_recovery: map, row and job in one transaction, only
\* while nothing it was computed from has changed.
WorkerPublishes ==
    /\ At("publish")
    /\ LET b == worker.b
       IN \/ /\ Unchanged(b)
             /\ map' = [map EXCEPT ![b] = worker.copy.pair]
             /\ book' = [book EXCEPT ![b].status = "active", ![b].managed = TRUE]
             /\ job' = [job EXCEPT ![b] = DoneJob]
             /\ Ends
             /\ Served
          \/ /\ ~Unchanged(b)
             /\ Ends
             /\ UNCHANGED <<book, map, job, asked>>
          \/ /\ \E refused \in BOOLEAN : Raises(refused)
             /\ UNCHANGED <<book, map, job, asked>>
    /\ UNCHANGED <<tick, cycle, deleting, left>>

Retries(b) == IF job[b] = None THEN 0 ELSE job[b].retries

\* Mutation: one try too many before giving up.
PermanentTooLate(b) == worker.refused \/ Retries(b) + 1 > MaxRetries

Permanent(b) == worker.refused \/ Retries(b) + 1 >= MaxRetries

\* The exception handler's first half: the job row.
WorkerFails ==
    /\ At("fail")
    /\ LET b == worker.b
           recovery == Stage(b) = "recovery"
       IN \/ /\ Stopped \/ (recovery /\ ~Matches(b, worker.copy))
             /\ Ends
             /\ UNCHANGED job
          \/ /\ ~Stopped
             /\ recovery => Matches(b, worker.copy)
             /\ job' = [job EXCEPT ![b] =
                  [retries |-> Retries(b) + 1,
                   done |-> IF @ = None THEN FALSE ELSE @.done,
                   error |-> TRUE,
                   stage |-> IF recovery /\ Permanent(b) THEN "manual" ELSE Stage(b),
                   ident |-> IF recovery THEN @.ident ELSE None]]
             /\ worker' = [worker EXCEPT !.pc = "failed", !.copy.status =
                  IF Permanent(b) THEN "failed_permanent" ELSE "failed_retry_later"]
    /\ UNCHANGED <<book, map, tick, cycle, deleting, asked, left>>

\* Mutation: the exception handler records the job and forgets the book.
FailsQuietly ==
    /\ At("failed")
    /\ Ends
    /\ Served
    /\ UNCHANGED <<book, map, job, tick, cycle, deleting, left>>

\* Its second half: the book's status, if the book still exists.
WorkerFailed ==
    /\ At("failed")
    /\ book' = IF book[worker.b] = None THEN book
               ELSE [book EXCEPT ![worker.b] = worker.copy]
    /\ Ends
    /\ Served
    /\ UNCHANGED <<map, job, tick, cycle, deleting, left>>

-----------------------------------------------------------------------------
(* A running sync cycle repairs books whose map is stored but whose row or  *)
(* job never said so (_promote_alignment_backed_book)                      *)

Unfinished(b) == job[b] # None /\ (~job[b].done \/ job[b].retries > 0 \/ job[b].error)

CycleReads ==
    /\ \A b \in Books : cycle[b] = None
    /\ cycle' = [b \in Books |->
         IF /\ book[b] # None /\ book[b].status = "active" /\ ~book[b].damaged
            /\ map[b] # None /\ Stage(b) = "none"
            /\ ~book[b].managed \/ Unfinished(b)
         THEN book[b] ELSE None]
    /\ cycle' # cycle
    /\ UNCHANGED <<book, map, job, tick, worker, deleting, asked, left>>

CyclePromotes(b) ==
    /\ cycle[b] # None
    /\ LET promotes == map[b] # None /\ Stage(b) = "none"
           saves == promotes /\ ~cycle[b].managed
       IN /\ book' = IF saves /\ book[b] # None
                     THEN [book EXCEPT ![b] = [cycle[b] EXCEPT !.managed = TRUE]]
                     ELSE book
          /\ job' = IF promotes /\ Unfinished(b) /\ (saves => book[b] # None)
                    THEN [job EXCEPT ![b].done = TRUE, ![b].retries = 0, ![b].error = FALSE]
                    ELSE job
    /\ cycle' = [cycle EXCEPT ![b] = None]
    /\ UNCHANGED <<map, tick, worker, deleting, asked, left>>

-----------------------------------------------------------------------------
(* Web requests *)

Uses(op) == left[op] > 0 /\ left' = [left EXCEPT ![op] = @ - 1]

Busy(b) == \/ worker # None /\ (worker.b = b \/ b \in worker.todo)
           \/ tick # None /\ tick.pc # "select" /\ tick.b = b
           \/ cycle[b] # None

\* A deleted book is added again only when no work on the old mapping is left
\* (an assumption about users: the code has no such check).
AddBook(b, p) ==
    /\ Uses("add")
    /\ book[b] = None
    /\ ~Busy(b)
    /\ book' = [book EXCEPT ![b] = [status |-> "pending", pair |-> p, managed |-> FALSE,
                                    damaged |-> FALSE]]
    /\ UNCHANGED <<map, job, tick, worker, cycle, deleting, asked>>

\* _preserve_or_reset_mapping_status: with a stable source identity the status
\* stays, whatever it is; else a stored map makes the book active.
Rematched(b, p, stable) ==
    IF p = book[b].pair /\ stable THEN book[b].status
    ELSE IF p = book[b].pair /\ map[b] # None THEN "active" ELSE "pending"

\* Then the row with its new pairing.  Some match paths drop transcript_file.
Rematch(b, p) ==
    /\ Uses("rematch")
    /\ book[b] # None /\ b \notin AudioOnly
    /\ \E managed \in {FALSE, book[b].managed}, stable \in BOOLEAN :
         book' = [book EXCEPT ![b] = [@ EXCEPT !.pair = p, !.managed = managed,
                    !.status = Rematched(b, p, stable)]]
    /\ asked' = [asked EXCEPT ![b] = IF p # book[b].pair THEN "asked" ELSE @]
    /\ UNCHANGED <<map, job, tick, worker, cycle, deleting>>

\* alignments_realign, which takes any book, and remap_alignment
Remap(b) ==
    /\ Uses("remap")
    /\ book[b] # None
    /\ book' = [book EXCEPT ![b].status = "pending"]
    /\ asked' = [asked EXCEPT ![b] = "asked"]
    /\ UNCHANGED <<map, job, tick, worker, cycle, deleting>>

\* clear_progress, its last part: the book's status.
ClearProgress(b) ==
    /\ Uses("clear")
    /\ book[b] # None
    /\ book' = [book EXCEPT ![b].status =
         IF b \in AudioOnly \/ map[b] # None THEN "active" ELSE "pending"]
    /\ UNCHANGED <<map, job, tick, worker, cycle, deleting, asked>>

\* _delete_or_unlink_book: cancel the worker registered for the book ...
CancelForDelete(b) ==
    /\ Uses("delete")
    /\ book[b] # None /\ b \notin deleting
    /\ deleting' = deleting \cup {b}
    /\ worker' = IF worker # None /\ worker.b = b
                 THEN [worker EXCEPT !.cancelled = TRUE] ELSE worker
    /\ UNCHANGED <<book, map, job, tick, cycle, asked>>

\* ... then remove the row, with its jobs and its map.
DeleteBook(b) ==
    /\ b \in deleting
    /\ deleting' = deleting \ {b}
    /\ book' = [book EXCEPT ![b] = None]
    /\ map' = [map EXCEPT ![b] = None]
    /\ job' = [job EXCEPT ![b] = None]
    /\ asked' = [asked EXCEPT ![b] = "no"]
    /\ UNCHANGED <<tick, worker, cycle, left>>

-----------------------------------------------------------------------------
(* The process is killed and starts again: cleanup_stale_jobs *)

Stale(b) == book[b] # None /\ book[b].status \in {"processing", "failed_retry_later"}

\* Mutation: recovery after a restart trusts the status of the job alone.
PromotedBlindly(b) == Stale(b) /\ Stage(b) = "none"

Promoted(b) == Stale(b) /\ map[b] # None /\ Stage(b) = "none"
Interrupted(b) == Stale(b) /\ ~Promoted(b) /\ book[b].status = "processing"

\* Only a recovery keeps its count over a restart, which counts as a failure.
RetriesAfter(b) == IF Stage(b) = "none" THEN 0
                   ELSE job[b].retries + (IF Stage(b) = "recovery" THEN 1 ELSE 0)
NeedsReview(b) == \/ Stage(b) = "manual"
                  \/ Stage(b) = "recovery" /\ RetriesAfter(b) >= MaxRetries

Restart ==
    /\ Uses("restart")
    /\ tick' = None /\ worker' = None
    /\ cycle' = [b \in Books |-> None] /\ deleting' = {}
    /\ book' = [b \in Books |->
         IF Promoted(b) THEN [book[b] EXCEPT !.status = "active", !.managed = TRUE]
         ELSE IF Interrupted(b)
         THEN [book[b] EXCEPT !.status = IF NeedsReview(b) THEN "failed_permanent"
                                         ELSE "failed_retry_later"]
         ELSE book[b]]
    /\ job' = [b \in Books |->
         IF Promoted(b) /\ Unfinished(b)
         THEN [job[b] EXCEPT !.done = TRUE, !.retries = 0, !.error = FALSE]
         ELSE IF Interrupted(b)
         THEN [retries |-> RetriesAfter(b),
               done |-> IF job[b] = None THEN FALSE ELSE job[b].done,
               error |-> TRUE,
               stage |-> IF NeedsReview(b) THEN "manual" ELSE Stage(b),
               ident |-> IF Stage(b) = "none" THEN None ELSE job[b].ident]
         ELSE job[b]]
    /\ UNCHANGED <<map, asked>>

-----------------------------------------------------------------------------
\* Books are missing, or new, or aligned, or aligned by an earlier version from
\* an input that was damaged.
NewRows == {r \in [status : {"pending", "active"}, pair : Pairs, managed : BOOLEAN,
                   damaged : BOOLEAN] :
              /\ r.managed <=> r.status = "active"
              /\ r.damaged => r.status = "active"}

Aligned(b) == book[b] # None /\ book[b].status = "active"

Init ==
    /\ \E s \in Starts :
         /\ book \in [Books -> {r \in NewRows : r.pair = s.pair} \cup {None}]
         /\ {b \in Books : book[b] # None} = s.there
         /\ left = s.left
    /\ \A b \in EbookOnly \cup AudioOnly :
         book[b] # None => ~book[b].damaged /\ book[b].status = "pending"
    /\ map = [b \in Books |-> IF Aligned(b) THEN book[b].pair ELSE None]
    /\ job = [b \in Books |-> IF Aligned(b) THEN DoneJob ELSE None]
    /\ tick = None /\ worker = None
    /\ cycle = [b \in Books |-> None]
    /\ deleting = {}
    /\ asked = [b \in Books |-> "no"]

Scheduler == TickBegin \/ TickSelect \/ TickClaim \/ TickJob \/ TickLaunch

Worker ==
    \/ BatchNext \/ WorkerBegins \/ WorkerWorks \/ WorkerStores \/ WorkerFinishes
    \/ WorkerPersists \/ WorkerCloses \/ WorkerRecovers \/ WorkerPublishes
    \/ WorkerFails \/ WorkerFailed

Cycle == CycleReads \/ \E b \in Books : CyclePromotes(b)

Web == \E b \in Books :
    \/ \E p \in Pairs : AddBook(b, p) \/ Rematch(b, p)
    \/ Remap(b) \/ ClearProgress(b) \/ CancelForDelete(b) \/ DeleteBook(b)

Next == Scheduler \/ Worker \/ Cycle \/ Web \/ Restart

\* The daemon calls check_pending_jobs every minute and a started thread
\* runs; nothing makes users, sync cycles or restarts come.
Fairness == /\ WF_vars(Scheduler) /\ WF_vars(Worker)
            /\ \A b \in Books : WF_vars(CyclePromotes(b)) /\ WF_vars(DeleteBook(b))

Spec == Init /\ [][Next]_vars /\ Fairness

-----------------------------------------------------------------------------
(* Properties *)

TypeOK ==
    /\ book \in [Books -> Rows \cup {None}]
    /\ map \in [Books -> Pairs \cup {None}]
    /\ job \in [Books -> Jobs \cup {None}]
    /\ tick \in {None, [pc |-> "select"]} \cup Ticks
    /\ worker \in {None} \cup Batches \cup Workers
    /\ cycle \in [Books -> Rows \cup {None}]
    /\ deleting \subseteq Books
    /\ asked \in [Books -> {"no", "asked", "serving", "lost"}]
    /\ left \in [Ops -> Nat]

\* Only adding a book creates one: no worker, tick, running cycle or restart
\* brings back a mapping that was deleted while it held a copy of it.
NoGhost ==
    [][\A b \in Books : book[b] = None /\ book'[b] # None =>
          left'["add"] < left["add"]]_vars

\* A book shown as processing is in the hands of the tick or of the live
\* worker, or about to be deleted: nothing but a restart would ever pick it
\* up again.
ProcessingIsWorkedOn ==
    \A b \in Books : book[b] # None /\ book[b].status = "processing" =>
        \/ worker # None /\ worker.b = b
        \/ b \in deleting
        \/ tick # None /\ tick.pc \in {"job", "launch"} /\ tick.b = b

\* A book left for a retry will be retried: its job row is there, not for
\* manual review, and below the limit.
FailedCanRetry ==
    \A b \in Books : book[b] # None /\ book[b].status = "failed_retry_later" =>
        job[b] # None /\ job[b].stage # "manual" /\ job[b].retries < MaxRetries

\* Whatever is interrupted, cancelled or repaired, an active book with both
\* an audiobook and an ebook has a map.
ActiveHasMap ==
    \A b \in Books \ (EbookOnly \cup AudioOnly) :
        book[b] # None /\ book[b].status = "active" => map[b] # None

\* A recovery publishes for the pairing its proof was made for, and never
\* over a request made while it computed.
RecoveryYields ==
    [][\A b \in Books :
         At("publish") /\ worker.b = b /\ worker' # worker /\ book'[b] # book[b]
            => \/ book'[b] = None
               \/ asked[b] # "asked" /\ book[b].pair = job[b].ident]_vars

\* Every queued book is taken up and settled, and every failed one is retried
\* until it succeeds or is given up.
PendingSettles ==
    \A b \in Books : (book[b] # None /\ book[b].status = "pending")
                        ~> (book[b] = None \/ book[b].status # "pending")
RetriesEnd ==
    \A b \in Books : (book[b] # None /\ book[b].status = "failed_retry_later")
                        ~> (book[b] = None \/ book[b].status \in {"active", "failed_permanent"})

\* An active book's map was built from the pairing the book has now.
MapFitsPairing ==
    \A b \in Books : book[b] # None /\ book[b].status = "active" /\ map[b] # None
                        => map[b] = book[b].pair

\* A rebuild answered "queued" and not yet started is still queued.
RequestKept ==
    \A b \in Books : book[b] # None =>
        asked[b] # "lost" /\ (asked[b] = "asked" => book[b].status = "pending")
=============================================================================

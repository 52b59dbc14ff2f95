------------------------ MODULE AlignmentJobsProofs ------------------------
(***************************************************************************)
(* Proofs about AlignmentJobs, for any sets of books and pairings, any     *)
(* retry limit and any number of user operations and restarts: no book is  *)
(* left in processing with nobody at work on it, a book marked for a retry *)
(* can be retried, an active book has its map, a deleted book stays        *)
(* deleted, and a recovery publishes only what it proved.                  *)
(*                                                                         *)
(* IInv is inductive.  Besides the three state properties it says what the *)
(* threads' copies still tell of the tables they were read from; one lemma *)
(* per action shows that the action preserves it.                          *)
(***************************************************************************)
EXTENDS AlignmentJobs, TLAPS

\* The worker has a book in hand, rather than a batch to choose from.
Live == worker # None /\ worker.pc # "next"
Ticking == tick # None /\ tick.pc \in {"job", "launch"}

Usable(j) == j # None => j.stage # "manual" /\ j.retries < MaxRetries

\* One book is in hand at a time.
Alone == tick # None => worker = None

\* The job of the book in hand can still fail without passing the limit.
JobsUsable ==
    /\ \A b \in Books : Stage(b) = "recovery" => job[b].retries < MaxRetries
    /\ tick # None /\ tick.pc \in {"claim", "job"} /\ tick.retry =>
          tick.job # None /\ Usable(tick.job)
    /\ tick # None /\ tick.pc = "launch" => Usable(job[tick.b])
    /\ Live /\ worker.pc # "failed" => Usable(job[worker.b])
    /\ Live /\ worker.pc = "failed" /\ worker.copy.status = "failed_retry_later" =>
          \/ book[worker.b] = None
          \/ job[worker.b] # None /\ Usable(job[worker.b])

\* What the copies say of the book's status.
Copies ==
    /\ Ticking => tick.copy.status = "processing"
    /\ Live /\ worker.pc # "failed" => worker.copy.status = "processing"
    /\ Live /\ worker.pc = "failed" =>
          worker.copy.status \in {"failed_retry_later", "failed_permanent"}
    /\ \A b \in Books : cycle[b] # None => cycle[b].status = "active"

\* The row of the book in hand: while it is processing nothing has changed it.
RowKept ==
    /\ Ticking /\ book[tick.b] # None =>
          /\ book[tick.b].status # "failed_retry_later"
          /\ book[tick.b].status = "processing" =>
                /\ book[tick.b].pair = tick.copy.pair
                /\ book[tick.b].damaged = tick.copy.damaged
    /\ Live /\ book[worker.b] # None =>
          /\ book[worker.b].status # "failed_retry_later"
          /\ worker.pc = "close" => book[worker.b].status # "processing"
          /\ book[worker.b].status = "processing" =>
                /\ book[worker.b].pair = worker.copy.pair
                /\ book[worker.b].damaged = worker.copy.damaged

\* A worker that built a map for a book still there finds it there.
MapReady ==
    Live /\ worker.pc \in {"finish", "persist"} /\ worker.b \notin EbookOnly =>
        book[worker.b] = None \/ map[worker.b] # None

\* A worker is cancelled only by a deletion.
CancelMeansDelete ==
    Live /\ worker.cancelled => worker.b \in deleting \/ book[worker.b] = None

\* The rows a recovery was computed from are its own until a deletion.
Recovering ==
    Live /\ book[worker.b] # None =>
        /\ worker.pc \in {"recover", "publish"} => Stage(worker.b) = "recovery"
        /\ worker.pc = "publish" => job[worker.b] = worker.job /\ map[worker.b] = worker.map

IInv ==
    /\ TypeOK /\ Alone /\ JobsUsable /\ Copies /\ RowKept /\ MapReady
    /\ CancelMeansDelete /\ Recovering
    /\ ProcessingIsWorkedOn /\ FailedCanRetry /\ ActiveHasMap

-----------------------------------------------------------------------------
(* The records: what a changed copy of one still is *)

Pcs == {"begin", "work", "store", "finish", "persist", "close",
        "recover", "publish", "fail", "failed"}

\* None is no record, no pairing and no book.
LEMMA NoneApart ==
    /\ None \notin Pairs /\ None \notin Books /\ None \notin Rows /\ None \notin Jobs
    /\ None \notin Ticks /\ None \notin Workers /\ None \notin Batches
    /\ None # [pc |-> "select"]
  BY JobsAssumption

\* The retry limit, as the arithmetic needs it.
LEMMA Limit == MaxRetries \in Nat /\ 0 < MaxRetries /\ 0 \in 0 .. MaxRetries
  BY JobsAssumption

\* The columns of a row.
LEMMA RowFields ==
    ASSUME NEW r \in Rows
    PROVE  /\ r # None /\ r.status \in Statuses /\ r.pair \in Pairs
           /\ r.managed \in BOOLEAN /\ r.damaged \in BOOLEAN
  BY NoneApart DEF Rows

\* A row with another status is a row.
LEMMA RowStatus ==
    ASSUME NEW r \in Rows, NEW s \in Statuses, NEW c, c = [r EXCEPT !.status = s]
    PROVE  /\ c \in Rows /\ c # None /\ c.status = s
           /\ c.pair = r.pair /\ c.managed = r.managed /\ c.damaged = r.damaged
<1>1. /\ c \in Rows /\ c.status = s
      /\ c.pair = r.pair /\ c.managed = r.managed /\ c.damaged = r.damaged
  BY DEF Rows
<1> QED BY <1>1, NoneApart

\* A new job is a job.
LEMMA JobFields ==
    ASSUME NEW retries \in 0 .. MaxRetries, NEW stage \in {"none", "recovery", "manual"},
           NEW ident \in Pairs \cup {None}
    PROVE  /\ NewJob(retries, stage, ident) \in Jobs
           /\ NewJob(retries, stage, ident).stage = stage
           /\ NewJob(retries, stage, ident).retries = retries
           /\ NewJob(retries, stage, ident).ident = ident
           /\ NewJob(retries, stage, ident) # None
<1>1. NewJob(retries, stage, ident) \in Jobs
  BY DEF NewJob, Jobs
<1> QED BY <1>1, NoneApart DEF NewJob

\* The columns of a job.
LEMMA JobParts ==
    ASSUME NEW j \in Jobs
    PROVE  /\ j.retries \in 0 .. MaxRetries /\ j.retries \in Nat
           /\ j.stage \in {"none", "recovery", "manual"}
           /\ j.ident \in Pairs \cup {None} /\ j.done \in BOOLEAN /\ j.error \in BOOLEAN
           /\ j # None
  BY NoneApart, Limit DEF Jobs

\* A closed job is a job that can be retried.
LEMMA JobCloses ==
    ASSUME NEW j \in Jobs, NEW k,
           \/ k = [j EXCEPT !.retries = 0, !.error = FALSE, !.done = TRUE]
           \/ k = [j EXCEPT !.done = TRUE, !.retries = 0, !.error = FALSE]
    PROVE  k \in Jobs /\ k # None /\ k.retries = 0 /\ k.stage = j.stage
<1>1. k \in Jobs
  BY Limit DEF Jobs
<1>2. k.retries = 0 /\ k.stage = j.stage
  BY DEF Jobs
<1> QED BY <1>1, <1>2, NoneApart

\* So is the job of a book that needs no work.
LEMMA JobIsDone ==
    DoneJob \in Jobs /\ DoneJob # None /\ DoneJob.stage = "none" /\ DoneJob.retries = 0
<1>1. DoneJob \in Jobs
  BY Limit DEF DoneJob, NewJob, Jobs
<1>2. DoneJob.stage = "none" /\ DoneJob.retries = 0
  BY DEF DoneJob, NewJob
<1> QED BY <1>1, <1>2, NoneApart

\* What a worker with a book in hand holds.
LEMMA WorkerParts ==
    ASSUME NEW w \in Workers
    PROVE  /\ w # None /\ w.pc \in Pcs /\ w.b \in Books /\ w.copy \in Rows
           /\ w.cancelled \in BOOLEAN /\ w.todo \subseteq EbookOnly
           /\ w.job \in Jobs \cup {None} /\ w.map \in Pairs \cup {None}
           /\ w.refused \in BOOLEAN
  BY NoneApart DEF Workers, Pcs

\* A worker that moves on holds the same.
LEMMA WorkerMoves ==
    ASSUME NEW w \in Workers, NEW pc \in Pcs, NEW v, v = [w EXCEPT !.pc = pc]
    PROVE  /\ v \in Workers /\ v.pc = pc /\ v.b = w.b /\ v.copy = w.copy
           /\ v.cancelled = w.cancelled /\ v.todo = w.todo
  BY DEF Workers, Pcs

\* A new worker holds what it was started with.
LEMMA WorkerStarts ==
    ASSUME NEW b \in Books, NEW copy \in Rows, NEW todo, todo \subseteq EbookOnly
    PROVE  /\ Start(b, copy, todo) \in Workers
           /\ Start(b, copy, todo) # None
           /\ Start(b, copy, todo).pc = "begin" /\ Start(b, copy, todo).b = b
           /\ Start(b, copy, todo).copy = copy
<1>1. Start(b, copy, todo) \in Workers
  BY DEF Workers, Start
<1>2. Start(b, copy, todo) # None
  BY <1>1, NoneApart
<1>3. /\ Start(b, copy, todo).pc = "begin" /\ Start(b, copy, todo).b = b
      /\ Start(b, copy, todo).copy = copy
  BY DEF Start
<1> QED BY <1>1, <1>2, <1>3

\* A worker that fails holds the same.
LEMMA RaisesFields ==
    ASSUME NEW w \in Workers, NEW refused \in BOOLEAN,
           NEW v, v = [w EXCEPT !.pc = "fail", !.refused = refused]
    PROVE  /\ v \in Workers /\ v.pc = "fail" /\ v.b = w.b /\ v.copy = w.copy
               /\ v.cancelled = w.cancelled /\ v.todo = w.todo
  BY DEF Workers

\* What a tick with a book in hand holds.
LEMMA TickFields ==
    ASSUME NEW t \in Ticks
    PROVE  /\ t.pc \in {"claim", "job", "launch"} /\ t.b \in Books /\ t.copy \in Rows
           /\ t.retry \in BOOLEAN /\ t.job \in Jobs \cup {None}
  BY DEF Ticks

\* It holds the same when it is about to start the worker.
LEMMA TickLaunches ==
    ASSUME NEW t \in Ticks, NEW u, u = [t EXCEPT !.pc = "launch"]
    PROVE  u \in Ticks /\ u.pc = "launch" /\ u.b = t.b /\ u.copy = t.copy
  BY DEF Ticks

\* A batch with books left is a batch.
LEMMA BatchFields ==
    ASSUME NEW todo \in SUBSET EbookOnly, todo # {}
    PROVE  /\ Batch(todo) \in Batches /\ Batch(todo) # None
           /\ Batch(todo).pc = "next" /\ Batch(todo).todo = todo
           /\ Batch(todo) \notin Workers
<1>1. todo \in (SUBSET EbookOnly) \ {{}}
  OBVIOUS
<1>2. FALSE \in BOOLEAN /\ None \in {None} /\ "next" \in {"next"}
  OBVIOUS
<1>3. Batch(todo) \in Batches
  BY <1>1, <1>2, Zenon DEF Batch, Batches
<1> QED BY <1>3, NoneApart DEF Batch, Workers

\* Who is at work is told by the program counter.
LEMMA InHand ==
    ASSUME TypeOK, Alone
    PROVE  /\ Live => worker \in Workers /\ tick = None
           /\ worker # None /\ worker.pc = "next" => worker \in Batches /\ tick = None
           /\ tick # None /\ tick.pc # "select" => tick \in Ticks /\ worker = None
           /\ \A pc \in Pcs : At(pc) => Live
<1>1. worker # None => tick = None
  BY DEF Alone
<1>2. Live => worker \in Workers
  BY DEF TypeOK, Live, Batches
<1>3. ASSUME worker # None, worker.pc = "next"
      PROVE  worker \in Batches
  BY <1>3, WorkerParts DEF TypeOK, Pcs
<1>4. ASSUME tick # None, tick.pc # "select"
      PROVE  tick \in Ticks
  BY <1>4 DEF TypeOK
<1> QED BY <1>1, <1>2, <1>3, <1>4 DEF At, Pcs, Live

\* A worker that ends leaves no book in hand.
LEMMA Ended ==
    ASSUME worker \in Workers, Ends
    PROVE  worker' \in {None} \cup Batches /\ ~Live'
<1>1. CASE worker.todo = {}
  BY <1>1 DEF Ends, Live
<1>2. CASE worker.todo # {}
  <2>1. worker.todo \in SUBSET EbookOnly
    BY WorkerParts
  <2> QED BY <1>2, <2>1, BatchFields DEF Ends, Live
<1> QED BY <1>1, <1>2

-----------------------------------------------------------------------------
(* The worker *)

\* A worker may end when no row is left in processing for it.
Released ==
    \/ book[worker.b] = None
    \/ book[worker.b].status # "processing"
    \/ worker.b \in deleting

\* A cancelled worker may end: a deletion will take the row.
LEMMA StoppedIsReleased ==
    ASSUME IInv, Live, Stopped
    PROVE  Released
  BY DEF IInv, CancelMeansDelete, Stopped, Released

\* So may one whose row was changed: whoever changed it settled it.
LEMMA MismatchIsReleased ==
    ASSUME IInv, Live, worker.pc # "failed", ~Matches(worker.b, worker.copy)
    PROVE  Released
  BY DEF IInv, Copies, RowKept, Matches, Released

\* Ending, with nothing written, preserves the invariant.
LEMMA Stops ==
    ASSUME IInv, Live, Released, Ends,
           UNCHANGED <<book, map, job, tick, cycle, deleting, asked, left>>
    PROVE  IInv'
<1>1. worker \in Workers /\ tick = None /\ worker' \in {None} \cup Batches /\ ~Live'
  BY InHand, Ended DEF IInv
<1>2. TypeOK'
  BY <1>1 DEF IInv, TypeOK
<1>3. ProcessingIsWorkedOn'
  BY <1>1, WorkerParts DEF IInv, ProcessingIsWorkedOn, Released
<1>4. (Alone /\ JobsUsable /\ Copies /\ RowKept /\ MapReady /\ CancelMeansDelete /\ Recovering)'
  BY <1>1 DEF IInv, Alone, JobsUsable, Copies, RowKept, MapReady, CancelMeansDelete,
              Recovering, Ticking, Stage
<1>5. (FailedCanRetry /\ ActiveHasMap)'
  BY DEF IInv, FailedCanRetry, ActiveHasMap
<1> QED BY <1>2, <1>3, <1>4, <1>5 DEF IInv

\* The worker goes on to the next piece of work, and may write its copy of the
\* row or the map it built.
LEMMA GoesOn ==
    ASSUME IInv, Live, worker.pc # "failed", worker' \in Workers,
           worker'.b = worker.b, worker'.copy = worker.copy,
           worker'.cancelled = worker.cancelled,
           worker'.pc \notin {"close", "publish", "failed"},
           worker'.pc \in {"finish", "persist"} /\ worker.b \notin EbookOnly =>
               book[worker.b] = None \/ map'[worker.b] # None,
           worker'.pc = "recover" => Stage(worker.b) = "recovery",
           \/ book' = book
           \/ book[worker.b] # None /\ book' = [book EXCEPT ![worker.b] = worker.copy],
           map' = map \/ map' = [map EXCEPT ![worker.b] = worker.copy.pair],
           UNCHANGED <<job, tick, cycle, deleting, asked, left>>
    PROVE  IInv'
<1>1. /\ worker \in Workers /\ tick = None /\ worker' # None /\ worker'.pc # "next" /\ Live'
      /\ worker.b \in Books /\ worker.copy \in Rows /\ worker.copy.status = "processing"
      /\ worker.copy.pair \in Pairs /\ worker.copy.pair # None /\ worker.copy # None
  <2>1. worker \in Workers /\ tick = None
    BY InHand DEF IInv
  <2>2. worker' # None /\ worker'.pc # "next" /\ Live'
    BY WorkerParts DEF Pcs, Live
  <2>3. worker.copy.status = "processing"
    BY DEF IInv, Copies
  <2> QED BY <2>1, <2>2, <2>3, WorkerParts, RowFields, NoneApart
<1>2. book' \in [Books -> Rows \cup {None}] /\ map' \in [Books -> Pairs \cup {None}]
  BY <1>1 DEF IInv, TypeOK
<1>3. \A b \in Books :
        /\ book'[b] = None <=> book[b] = None
        /\ book'[b] # book[b] => b = worker.b /\ book'[b] = worker.copy
        /\ map[b] # None => map'[b] # None
  BY <1>1 DEF IInv, TypeOK
<1>4. TypeOK'
  BY <1>1, <1>2 DEF IInv, TypeOK
<1>5. ProcessingIsWorkedOn'
  BY <1>1, <1>3 DEF IInv, ProcessingIsWorkedOn
<1>6. (Alone /\ JobsUsable)'
  BY <1>1, <1>3 DEF IInv, Alone, JobsUsable, Stage, Usable
<1>7. (Copies /\ RowKept)'
  BY <1>1, <1>3 DEF IInv, Copies, RowKept, Ticking
<1>8. (MapReady /\ CancelMeansDelete)'
  BY <1>1, <1>3 DEF IInv, MapReady, CancelMeansDelete
<1>9. Recovering'
  BY <1>1, <1>3 DEF IInv, Recovering, Stage
<1>10. (FailedCanRetry /\ ActiveHasMap)'
  BY <1>1, <1>3 DEF IInv, FailedCanRetry, ActiveHasMap
<1> QED BY <1>4, <1>5, <1>6, <1>7, <1>8, <1>9, <1>10 DEF IInv

\* Failing is going on.
LEMMA RaiseGoesOn ==
    ASSUME IInv, Live, worker.pc # "failed", \E refused \in BOOLEAN : Raises(refused),
           UNCHANGED <<map, job, tick, cycle, deleting, asked, left>>,
           \/ book' = book
           \/ book[worker.b] # None /\ book' = [book EXCEPT ![worker.b] = worker.copy]
    PROVE  IInv'
<1>1. worker \in Workers
  BY InHand DEF IInv
<1>2. PICK refused \in BOOLEAN : Raises(refused)
  OBVIOUS
<1>3. /\ worker' \in Workers /\ worker'.pc = "fail" /\ worker'.b = worker.b
      /\ worker'.copy = worker.copy /\ worker'.cancelled = worker.cancelled
  BY <1>1, <1>2, RaisesFields DEF Raises
<1> QED BY <1>3, GoesOn

\* So is a plain move.
LEMMA MoveGoesOn ==
    ASSUME IInv, Live, worker.pc # "failed",
           NEW pc \in Pcs \ {"close", "publish", "failed"}, GoesTo(pc),
           pc \in {"finish", "persist"} /\ worker.b \notin EbookOnly =>
               book[worker.b] = None \/ map'[worker.b] # None,
           pc = "recover" => Stage(worker.b) = "recovery",
           \/ book' = book
           \/ book[worker.b] # None /\ book' = [book EXCEPT ![worker.b] = worker.copy],
           map' = map \/ map' = [map EXCEPT ![worker.b] = worker.copy.pair],
           UNCHANGED <<job, tick, cycle, deleting, asked, left>>
    PROVE  IInv'
<1>1. worker \in Workers
  BY InHand DEF IInv
<1>2. /\ worker' \in Workers /\ worker'.pc = pc /\ worker'.b = worker.b
      /\ worker'.copy = worker.copy /\ worker'.cancelled = worker.cancelled
  BY <1>1, WorkerMoves DEF GoesTo
<1> QED BY <1>2, GoesOn

\* The worker looks at its token, then at the stage.
LEMMA BeginsStep == ASSUME IInv, WorkerBegins PROVE IInv'
<1>1. Live /\ worker.pc # "failed"
  BY DEF WorkerBegins, At, Live
<1>2. CASE Stopped
  BY <1>1, <1>2, StoppedIsReleased, Stops DEF WorkerBegins
<1>3. CASE ~Stopped
  <2>1. \E pc \in {"recover", "work"} :
          GoesTo(pc) /\ (pc = "recover" => Stage(worker.b) = "recovery")
    BY <1>3 DEF WorkerBegins
  <2> QED BY <1>1, <2>1, MoveGoesOn DEF WorkerBegins, Pcs
<1> QED BY <1>2, <1>3

\* It may write its copy on the way.
LEMMA WorksStep == ASSUME IInv, WorkerWorks PROVE IInv'
<1>1. Live /\ worker.pc # "failed"
  BY DEF WorkerWorks, At, Live
<1>2. CASE Stopped /\ Ends /\ UNCHANGED book
  BY <1>1, <1>2, StoppedIsReleased, Stops DEF WorkerWorks
<1>3. ASSUME NEW pc \in {"finish", "store"}, GoesTo(pc), ~Stopped,
             book' \in {book, [book EXCEPT ![worker.b] = worker.copy]},
             pc = "finish" => worker.b \in EbookOnly
      PROVE  IInv'
  BY <1>1, <1>3, MoveGoesOn DEF WorkerWorks, Stopped, Pcs
<1>4. CASE /\ ~Stopped /\ \E refused \in BOOLEAN : Raises(refused)
           /\ book' \in {book, [book EXCEPT ![worker.b] = worker.copy]}
  BY <1>1, <1>4, RaiseGoesOn DEF WorkerWorks, Stopped
<1> QED BY <1>2, <1>3, <1>4 DEF WorkerWorks

\* It stores the map, keeps a better one, or fails.
LEMMA StoresStep == ASSUME IInv, WorkerStores PROVE IInv'
<1>1. Live /\ worker.pc # "failed" /\ worker \in Workers
  BY InHand DEF WorkerStores, At, Live, IInv
<1>2. worker.b \in Books /\ worker.copy.pair # None
  BY <1>1, WorkerParts, RowFields, NoneApart
<1>3. CASE GoesTo("finish") /\ map' = [map EXCEPT ![worker.b] = worker.copy.pair]
  <2>1. map'[worker.b] # None
    BY <1>2, <1>3 DEF IInv, TypeOK
  <2> QED BY <1>1, <1>3, <2>1, MoveGoesOn DEF WorkerStores, Pcs
<1>4. CASE map[worker.b] # None /\ GoesTo("finish") /\ map' = map
  BY <1>1, <1>4, MoveGoesOn DEF WorkerStores, Pcs
<1>5. CASE (\E refused \in BOOLEAN : Raises(refused)) /\ UNCHANGED map
  BY <1>1, <1>5, RaiseGoesOn DEF WorkerStores
<1> QED BY <1>3, <1>4, <1>5 DEF WorkerStores

\* It looks at its token once more.
LEMMA FinishesStep == ASSUME IInv, WorkerFinishes PROVE IInv'
<1>1. Live /\ worker.pc = "finish" /\ worker.pc # "failed"
  BY DEF WorkerFinishes, At, Live
<1>2. CASE Stopped /\ Ends
  BY <1>1, <1>2, StoppedIsReleased, Stops DEF WorkerFinishes
<1>3. CASE GoesTo("persist")
  <2>1. worker.b \notin EbookOnly => book[worker.b] = None \/ map'[worker.b] # None
    BY <1>1 DEF WorkerFinishes, IInv, MapReady
  <2> QED BY <1>1, <1>3, <2>1, MoveGoesOn DEF WorkerFinishes, Pcs
<1>4. CASE Raises(FALSE)
  BY <1>1, <1>4, RaiseGoesOn DEF WorkerFinishes
<1> QED BY <1>2, <1>3, <1>4 DEF WorkerFinishes

\* A recovery takes down what its publication will be compared with.
LEMMA RecoversStep == ASSUME IInv, WorkerRecovers PROVE IInv'
<1>1. Live /\ worker.pc = "recover" /\ worker.pc # "failed"
  BY DEF WorkerRecovers, At, Live
<1>2. CASE Stopped /\ Ends
  BY <1>1, <1>2, StoppedIsReleased, Stops DEF WorkerRecovers
<1>3. CASE ~Matches(worker.b, worker.copy) /\ Ends
  BY <1>1, <1>3, MismatchIsReleased, Stops DEF WorkerRecovers
<1>4. CASE \E refused \in BOOLEAN : Raises(refused)
  BY <1>1, <1>4, RaiseGoesOn DEF WorkerRecovers
<1>5. ASSUME job[worker.b] # None, Matches(worker.b, worker.copy),
             worker' = [worker EXCEPT !.pc = "publish", !.job = job[worker.b],
                                      !.map = map[worker.b]]
      PROVE  IInv'
  <2>1. worker \in Workers /\ worker.b \in Books /\ tick = None
    BY <1>1, InHand, WorkerParts DEF IInv
  <2>2. job[worker.b] \in Jobs \cup {None} /\ map[worker.b] \in Pairs \cup {None}
    BY <2>1 DEF IInv, TypeOK
  <2>3. /\ worker' \in Workers /\ worker'.pc = "publish" /\ worker'.b = worker.b
        /\ worker'.copy = worker.copy /\ worker'.cancelled = worker.cancelled
        /\ worker'.job = job[worker.b] /\ worker'.map = map[worker.b]
    BY <1>5, <2>1, <2>2 DEF Workers
  <2>4. worker' # None /\ Live' /\ worker'.pc # "failed"
    BY <2>3, WorkerParts DEF Live
  <2>5. TypeOK'
    BY <2>3 DEF IInv, TypeOK, WorkerRecovers
  <2>6. (Alone /\ JobsUsable /\ Copies /\ RowKept)'
    BY <1>1, <2>1, <2>3, <2>4
    DEF WorkerRecovers, IInv, Alone, JobsUsable, Copies, RowKept, Stage, Usable, Ticking
  <2>7. (MapReady /\ CancelMeansDelete /\ Recovering)'
    BY <1>1, <2>1, <2>3, <2>4
    DEF WorkerRecovers, IInv, MapReady, CancelMeansDelete, Recovering, Stage
  <2>8. (ProcessingIsWorkedOn /\ FailedCanRetry /\ ActiveHasMap)'
    BY <2>1, <2>3, <2>4
    DEF WorkerRecovers, IInv, ProcessingIsWorkedOn, FailedCanRetry, ActiveHasMap
  <2> QED BY <2>5, <2>6, <2>7, <2>8 DEF IInv
<1> QED BY <1>2, <1>3, <1>4, <1>5 DEF WorkerRecovers

\* The worker makes the book active: its map is there.
LEMMA PersistsStep == ASSUME IInv, WorkerPersists PROVE IInv'
<1>1. /\ Live /\ worker.pc = "persist" /\ worker.pc # "failed" /\ worker \in Workers
      /\ tick = None
  BY InHand DEF WorkerPersists, At, Live, IInv
<1>2. CASE book[worker.b] = None /\ Ends /\ UNCHANGED book
  BY <1>1, <1>2, Stops DEF WorkerPersists, Released
<1>3. ASSUME book[worker.b] # None, book' = [book EXCEPT ![worker.b] = Finished],
             GoesTo("close")
      PROVE  IInv'
  <2>1. worker.b \in Books /\ worker.copy \in Rows
    BY <1>1, WorkerParts
  <2>2. Finished \in Rows /\ Finished.status = "active"
    BY <2>1 DEF Finished, Rows, Statuses
  <2>3. /\ worker' \in Workers /\ worker'.pc = "close" /\ worker'.b = worker.b
        /\ worker'.copy = worker.copy /\ worker'.cancelled = worker.cancelled
        /\ worker' # None
    BY <1>1, <1>3, WorkerMoves, WorkerParts DEF GoesTo, Pcs
  <2>4. /\ book' \in [Books -> Rows \cup {None}]
        /\ book'[worker.b] = Finished /\ Finished # None
        /\ \A b \in Books \ {worker.b} : book'[b] = book[b]
    BY <1>3, <2>1, <2>2, NoneApart DEF IInv, TypeOK
  <2>5. TypeOK'
    BY <2>3, <2>4 DEF IInv, TypeOK, WorkerPersists
  <2>6. (Alone /\ JobsUsable /\ Copies)'
    BY <1>1, <2>1, <2>3
    DEF WorkerPersists, IInv, Alone, JobsUsable, Copies, Stage, Usable, Ticking, Live
  <2>7. (RowKept /\ MapReady /\ CancelMeansDelete /\ Recovering)'
    BY <1>1, <1>3, <2>1, <2>2, <2>3, <2>4
    DEF WorkerPersists, IInv, RowKept, MapReady, CancelMeansDelete, Recovering, Stage,
        Ticking, Live
  <2>8. (ProcessingIsWorkedOn /\ FailedCanRetry)'
    BY <1>1, <2>1, <2>2, <2>3, <2>4
    DEF WorkerPersists, IInv, ProcessingIsWorkedOn, FailedCanRetry
  <2>9. ActiveHasMap'
    BY <1>1, <1>3, <2>1, <2>4 DEF WorkerPersists, IInv, ActiveHasMap, MapReady
  <2> QED BY <2>5, <2>6, <2>7, <2>8, <2>9 DEF IInv
<1> QED BY <1>2, <1>3 DEF WorkerPersists

\* It closes the job: the row is no longer processing.
LEMMA ClosesStep == ASSUME IInv, WorkerCloses PROVE IInv'
<1>1. Live /\ worker.pc = "close" /\ worker \in Workers /\ tick = None
  BY InHand DEF WorkerCloses, At, Live, IInv
<1>2. worker.b \in Books /\ worker' \in {None} \cup Batches /\ ~Live'
  BY <1>1, WorkerParts, Ended DEF WorkerCloses
<1>3. job[worker.b] \in Jobs \cup {None}
  BY <1>2 DEF IInv, TypeOK
<1>4. job[worker.b] # None =>
        LET j == [job[worker.b] EXCEPT !.retries = 0, !.error = FALSE, !.done = TRUE]
        IN  j \in Jobs /\ j # None /\ j.retries = 0 /\ j.stage = job[worker.b].stage
  BY <1>3, JobCloses
<1>5. /\ job' \in [Books -> Jobs \cup {None}]
      /\ \A b \in Books \ {worker.b} : job'[b] = job[b]
      /\ job'[worker.b] # None => job'[worker.b].retries = 0
  BY <1>2, <1>3, <1>4 DEF WorkerCloses, IInv, TypeOK
<1>6. asked' \in [Books -> {"no", "asked", "serving", "lost"}]
  BY <1>2 DEF WorkerCloses, Served, IInv, TypeOK
<1>7. TypeOK'
  BY <1>2, <1>5, <1>6 DEF IInv, TypeOK, WorkerCloses
<1>8. (Alone /\ JobsUsable)'
  BY <1>1, <1>2, <1>5, Limit DEF WorkerCloses, IInv, Alone, JobsUsable, Stage
<1>9. (Copies /\ RowKept /\ MapReady /\ CancelMeansDelete /\ Recovering)'
  BY <1>1, <1>2
  DEF WorkerCloses, IInv, Copies, RowKept, MapReady, CancelMeansDelete, Recovering, Ticking
<1>10. ProcessingIsWorkedOn'
  BY <1>1, <1>2 DEF WorkerCloses, IInv, ProcessingIsWorkedOn, RowKept
<1>11. (FailedCanRetry /\ ActiveHasMap)'
  BY <1>1, <1>2, <1>5 DEF WorkerCloses, IInv, FailedCanRetry, ActiveHasMap, RowKept
<1> QED BY <1>7, <1>8, <1>9, <1>10, <1>11 DEF IInv

\* A recovery publishes, or finds its row changed.
LEMMA PublishesStep == ASSUME IInv, WorkerPublishes PROVE IInv'
<1>1. /\ Live /\ worker.pc = "publish" /\ worker.pc # "failed"
      /\ worker \in Workers /\ tick = None
  BY InHand DEF WorkerPublishes, At, Live, IInv
<1>2. CASE /\ \E refused \in BOOLEAN : Raises(refused)
           /\ UNCHANGED <<book, map, job, asked>>
  BY <1>1, <1>2, RaiseGoesOn DEF WorkerPublishes
<1>3. CASE ~Unchanged(worker.b) /\ Ends /\ UNCHANGED <<book, map, job, asked>>
  <2>1. book[worker.b] = None \/ ~Matches(worker.b, worker.copy)
    BY <1>1, <1>3 DEF IInv, Recovering, Unchanged
  <2>2. Released
    BY <1>1, <2>1, MismatchIsReleased DEF Released
  <2> QED BY <1>1, <1>3, <2>2, Stops DEF WorkerPublishes
<1>4. ASSUME Unchanged(worker.b), Ends, Served,
             map' = [map EXCEPT ![worker.b] = worker.copy.pair],
             book' = [book EXCEPT ![worker.b].status = "active",
                                  ![worker.b].managed = TRUE],
             job' = [job EXCEPT ![worker.b] = DoneJob]
      PROVE  IInv'
  <2>1. /\ worker.b \in Books /\ worker.copy.pair \in Pairs
        /\ worker.copy.pair # None /\ worker' \in {None} \cup Batches /\ ~Live'
    BY <1>1, <1>4, WorkerParts, RowFields, NoneApart, Ended
  <2>2. book[worker.b] \in Rows
    BY <1>4, <2>1 DEF Unchanged, Matches, IInv, TypeOK
  <2>3. /\ book'[worker.b] \in Rows /\ book'[worker.b].status = "active"
        /\ \A b \in Books \ {worker.b} : book'[b] = book[b]
        /\ book' \in [Books -> Rows \cup {None}]
    BY <1>4, <2>1, <2>2 DEF IInv, TypeOK, Rows, Statuses
  <2>4. DoneJob \in Jobs /\ DoneJob # None /\ DoneJob.stage = "none" /\ DoneJob.retries = 0
    BY JobIsDone
  <2>5. /\ map' \in [Books -> Pairs \cup {None}] /\ job' \in [Books -> Jobs \cup {None}]
        /\ map'[worker.b] = worker.copy.pair /\ job'[worker.b] = DoneJob
        /\ \A b \in Books \ {worker.b} : map'[b] = map[b] /\ job'[b] = job[b]
        /\ asked' \in [Books -> {"no", "asked", "serving", "lost"}]
    BY <1>4, <2>1, <2>4 DEF IInv, TypeOK, Served
  <2>6. TypeOK'
    BY <2>1, <2>3, <2>5 DEF IInv, TypeOK, WorkerPublishes
  <2>7. (Alone /\ JobsUsable)'
    BY <1>1, <2>1, <2>4, <2>5 DEF WorkerPublishes, IInv, Alone, JobsUsable, Stage
  <2>8. (Copies /\ RowKept /\ MapReady /\ CancelMeansDelete /\ Recovering)'
    BY <1>1, <2>1
    DEF WorkerPublishes, IInv, Copies, RowKept, MapReady, CancelMeansDelete, Recovering,
        Ticking
  <2>9. ProcessingIsWorkedOn'
    BY <1>1, <2>1, <2>3 DEF WorkerPublishes, IInv, ProcessingIsWorkedOn
  <2>10. (FailedCanRetry /\ ActiveHasMap)'
    BY <2>1, <2>3, <2>5 DEF IInv, FailedCanRetry, ActiveHasMap
  <2> QED BY <2>6, <2>7, <2>8, <2>9, <2>10 DEF IInv
<1> QED BY <1>2, <1>3, <1>4 DEF WorkerPublishes

\* What the exception handler writes into the job.
LEMMA FailedJob ==
    ASSUME IInv, NEW b \in Books, Usable(job[b]), NEW k,
           k = [retries |-> Retries(b) + 1,
                done |-> IF job[b] = None THEN FALSE ELSE job[b].done,
                error |-> TRUE,
                stage |-> IF Stage(b) = "recovery" /\ Permanent(b) THEN "manual" ELSE Stage(b),
                ident |-> IF Stage(b) = "recovery" THEN job[b].ident ELSE None]
    PROVE  /\ k \in Jobs /\ k # None
           /\ ~Permanent(b) => Usable(k)
           /\ k.stage = "recovery" => k.retries < MaxRetries
<1>1. job[b] \in Jobs \cup {None}
  BY DEF IInv, TypeOK
<1>2. /\ Retries(b) \in Nat /\ Retries(b) < MaxRetries
      /\ Stage(b) \in {"none", "recovery"}
      /\ Stage(b) = "recovery" => job[b].ident \in Pairs \cup {None}
      /\ (IF job[b] = None THEN FALSE ELSE job[b].done) \in BOOLEAN
  BY <1>1, Limit, JobParts DEF Usable, Retries, Stage
<1>3. Retries(b) + 1 \in 0 .. MaxRetries
  BY <1>2, Limit
<1>4. k \in Jobs
  BY <1>2, <1>3 DEF Jobs
<1>5. /\ k.retries = Retries(b) + 1
      /\ k.stage = IF Stage(b) = "recovery" /\ Permanent(b) THEN "manual" ELSE Stage(b)
  OBVIOUS
<1>6. ~Permanent(b) => Retries(b) + 1 < MaxRetries
  BY <1>2, Limit DEF Permanent
<1> QED BY <1>2, <1>4, <1>5, <1>6, NoneApart DEF Usable

\* The exception handler counts the failure in the job.
LEMMA FailsStep == ASSUME IInv, WorkerFails PROVE IInv'
<1>1. /\ Live /\ worker.pc = "fail" /\ worker.pc # "failed" /\ worker \in Workers
      /\ tick = None
  BY InHand DEF WorkerFails, At, Live, IInv
<1>2. CASE /\ Stopped \/ ~Matches(worker.b, worker.copy)
           /\ Ends /\ UNCHANGED job
  BY <1>1, <1>2, StoppedIsReleased, MismatchIsReleased, Stops DEF WorkerFails
<1>3. ASSUME ~Stopped,
             job' = [job EXCEPT ![worker.b] =
               [retries |-> Retries(worker.b) + 1,
                done |-> IF @ = None THEN FALSE ELSE @.done,
                error |-> TRUE,
                stage |-> IF Stage(worker.b) = "recovery" /\ Permanent(worker.b)
                          THEN "manual" ELSE Stage(worker.b),
                ident |-> IF Stage(worker.b) = "recovery" THEN @.ident ELSE None]],
             worker' = [worker EXCEPT !.pc = "failed", !.copy.status =
                 IF Permanent(worker.b) THEN "failed_permanent" ELSE "failed_retry_later"]
      PROVE  IInv'
  <2> DEFINE b == worker.b
  <2>1. b \in Books /\ worker.copy \in Rows
    BY <1>1, WorkerParts
  <2>2. Usable(job[b])
    BY <1>1 DEF IInv, JobsUsable
  <2>3. /\ job' \in [Books -> Jobs \cup {None}] /\ job'[b] # None
        /\ \A c \in Books \ {b} : job'[c] = job[c]
        /\ ~Permanent(b) => Usable(job'[b])
        /\ job'[b].stage = "recovery" => job'[b].retries < MaxRetries
    <3>1. PICK k : k = [retries |-> Retries(b) + 1,
                     done |-> IF job[b] = None THEN FALSE ELSE job[b].done,
                     error |-> TRUE,
                     stage |-> IF Stage(b) = "recovery" /\ Permanent(b)
                               THEN "manual" ELSE Stage(b),
                     ident |-> IF Stage(b) = "recovery" THEN job[b].ident ELSE None]
      OBVIOUS
    <3>2. job \in [Books -> Jobs \cup {None}] /\ job' = [job EXCEPT ![b] = k]
      BY <1>3, <3>1 DEF IInv, TypeOK
    <3>3. /\ k \in Jobs /\ k # None
          /\ ~Permanent(b) => Usable(k)
          /\ k.stage = "recovery" => k.retries < MaxRetries
      BY <2>1, <2>2, <3>1, FailedJob
    <3> QED BY <2>1, <3>2, <3>3 DEF Usable
  <2>4. /\ worker' \in Workers /\ worker'.pc = "failed" /\ worker'.b = b
        /\ worker'.cancelled = worker.cancelled
        /\ worker'.copy \in Rows
        /\ worker'.copy.status = IF Permanent(b) THEN "failed_permanent"
                                 ELSE "failed_retry_later"
        /\ worker'.copy.pair = worker.copy.pair
        /\ worker'.copy.damaged = worker.copy.damaged
    <3>1. PICK s \in {"failed_permanent", "failed_retry_later"} :
            /\ s = IF Permanent(b) THEN "failed_permanent" ELSE "failed_retry_later"
            /\ worker' = [worker EXCEPT !.pc = "failed", !.copy.status = s]
      BY <1>3
    <3>2. /\ [worker.copy EXCEPT !.status = s] \in Rows
          /\ [worker.copy EXCEPT !.status = s].status = s
          /\ [worker.copy EXCEPT !.status = s].pair = worker.copy.pair
          /\ [worker.copy EXCEPT !.status = s].damaged = worker.copy.damaged
      BY <2>1, <3>1, RowStatus DEF Statuses
    <3>3. /\ worker' \in Workers /\ worker'.pc = "failed" /\ worker'.b = b
          /\ worker'.cancelled = worker.cancelled
          /\ worker'.copy = [worker.copy EXCEPT !.status = s]
      BY <1>1, <3>1, <3>2 DEF Workers
    <3> QED BY <3>1, <3>2, <3>3
  <2>5. worker' # None /\ Live'
    BY <2>4, WorkerParts DEF Live
  <2>6. TypeOK'
    BY <2>3, <2>4 DEF IInv, TypeOK, WorkerFails
  <2>7. (Alone /\ JobsUsable)'
    BY <1>1, <2>1, <2>3, <2>4, <2>5
    DEF WorkerFails, IInv, Alone, JobsUsable, Stage, Usable
  <2>8. Copies'
    BY <1>1, <2>4 DEF WorkerFails, IInv, Copies, Ticking
  <2>9. RowKept'
    BY <1>1, <2>4 DEF WorkerFails, IInv, RowKept, Ticking
  <2>10. (MapReady /\ CancelMeansDelete /\ Recovering)'
    BY <1>1, <2>4 DEF WorkerFails, IInv, MapReady, CancelMeansDelete, Recovering
  <2>11. (ProcessingIsWorkedOn /\ ActiveHasMap)'
    BY <1>1, <2>4, <2>5 DEF WorkerFails, IInv, ProcessingIsWorkedOn, ActiveHasMap
  <2>12. FailedCanRetry'
    BY <1>1, <2>3 DEF WorkerFails, IInv, FailedCanRetry, RowKept
  <2> QED BY <2>6, <2>7, <2>8, <2>9, <2>10, <2>11, <2>12 DEF IInv
<1> QED BY <1>2, <1>3 DEF WorkerFails

\* Then it sets the status, which the job agrees with.
LEMMA FailedStep == ASSUME IInv, WorkerFailed PROVE IInv'
<1>1. Live /\ worker.pc = "failed" /\ worker \in Workers /\ tick = None
  BY InHand DEF WorkerFailed, At, Live, IInv
<1>2. /\ worker.b \in Books /\ worker.copy \in Rows /\ worker.copy # None
      /\ worker.copy.status \in {"failed_retry_later", "failed_permanent"}
      /\ worker' \in {None} \cup Batches /\ ~Live'
  BY <1>1, WorkerParts, Ended, NoneApart DEF WorkerFailed, IInv, Copies
<1>3. /\ book' \in [Books -> Rows \cup {None}]
      /\ book'[worker.b] = IF book[worker.b] = None THEN None ELSE worker.copy
      /\ \A b \in Books \ {worker.b} : book'[b] = book[b]
      /\ asked' \in [Books -> {"no", "asked", "serving", "lost"}]
  BY <1>2 DEF WorkerFailed, Served, IInv, TypeOK
<1>4. TypeOK'
  BY <1>2, <1>3 DEF IInv, TypeOK, WorkerFailed
<1>5. (Alone /\ JobsUsable)'
  BY <1>1, <1>2 DEF WorkerFailed, IInv, Alone, JobsUsable, Stage
<1>6. (Copies /\ RowKept /\ MapReady /\ CancelMeansDelete /\ Recovering)'
  BY <1>1, <1>2
  DEF WorkerFailed, IInv, Copies, RowKept, MapReady, CancelMeansDelete, Recovering, Ticking
<1>7. ProcessingIsWorkedOn'
  BY <1>1, <1>2, <1>3 DEF WorkerFailed, IInv, ProcessingIsWorkedOn
<1>8. FailedCanRetry'
  BY <1>1, <1>2, <1>3 DEF WorkerFailed, IInv, FailedCanRetry, JobsUsable, Usable
<1>9. ActiveHasMap'
  BY <1>2, <1>3 DEF WorkerFailed, IInv, ActiveHasMap
<1> QED BY <1>4, <1>5, <1>6, <1>7, <1>8, <1>9 DEF IInv

\* The batch takes up its next book, or skips it.
LEMMA BatchStep == ASSUME IInv, BatchNext PROVE IInv'
<1>1. worker \in Batches /\ tick = None /\ worker.todo \subseteq EbookOnly /\ ~Live
  BY InHand DEF BatchNext, At, IInv, Batches, Live
<1>2. ASSUME NEW b \in worker.todo, b \notin Pending,
             worker' = IF worker.todo \ {b} = {} THEN None ELSE Batch(worker.todo \ {b}),
             UNCHANGED <<book, job, asked>>
      PROVE  IInv'
  <2>1. worker' \in {None} \cup Batches /\ ~Live'
    <3>1. CASE worker.todo \ {b} = {}
      BY <1>2, <3>1 DEF Live
    <3>2. CASE worker.todo \ {b} # {}
      <4>1. worker.todo \ {b} \in SUBSET EbookOnly
        BY <1>1
      <4> QED BY <1>2, <3>2, <4>1, BatchFields DEF Live
    <3> QED BY <3>1, <3>2
  <2>2. TypeOK'
    BY <1>2, <2>1 DEF IInv, TypeOK, BatchNext
  <2>3. (Alone /\ JobsUsable /\ Copies /\ RowKept /\ MapReady /\ CancelMeansDelete
          /\ Recovering)'
    BY <1>1, <1>2, <2>1
    DEF BatchNext, IInv, Alone, JobsUsable, Copies, RowKept, MapReady, CancelMeansDelete,
        Recovering, Ticking, Stage
  <2>4. worker.b \notin Books
    BY <1>1, NoneApart DEF Batches
  <2>5. (ProcessingIsWorkedOn /\ FailedCanRetry /\ ActiveHasMap)'
    BY <1>1, <1>2, <2>4
    DEF BatchNext, IInv, ProcessingIsWorkedOn, FailedCanRetry, ActiveHasMap
  <2> QED BY <2>2, <2>3, <2>5 DEF IInv
<1>3. ASSUME NEW b \in worker.todo, b \in Pending, NEW claimed,
             claimed = [book[b] EXCEPT !.status = "processing"],
             book' = [book EXCEPT ![b] = claimed],
             job' = [job EXCEPT ![b] = NewJob(0, "none", None)],
             worker' = Start(b, claimed, worker.todo \ {b}),
             Serving(b, claimed)
      PROVE  IInv'
  <2>1. /\ b \in Books /\ b \in EbookOnly /\ book[b] \in Rows
        /\ claimed \in Rows /\ claimed # None /\ claimed.status = "processing"
        /\ claimed.pair = book[b].pair /\ claimed.damaged = book[b].damaged
    <3>1. b \in Books /\ b \in EbookOnly /\ book[b] \in Rows
      BY <1>1, <1>3 DEF Pending, IInv, TypeOK
    <3> QED BY <1>3, <3>1, RowStatus DEF Statuses
  <2>2. /\ NewJob(0, "none", None) \in Jobs /\ NewJob(0, "none", None) # None
        /\ NewJob(0, "none", None).stage = "none" /\ NewJob(0, "none", None).retries = 0
    BY Limit, JobFields
  <2>3. PICK rest \in SUBSET EbookOnly : rest = worker.todo \ {b}
    BY <1>1
  <2>4. /\ worker' \in Workers /\ worker' # None /\ worker'.pc = "begin" /\ worker'.b = b
        /\ worker'.copy = claimed /\ worker'.cancelled = FALSE
    <3>1. worker' = Start(b, claimed, rest)
      BY <1>3, <2>3
    <3>3. worker'.cancelled = FALSE
      BY <3>1 DEF Start
    <3> QED BY <2>1, <3>1, <3>3, WorkerStarts
  <2>5. /\ book' \in [Books -> Rows \cup {None}] /\ job' \in [Books -> Jobs \cup {None}]
        /\ book'[b] = claimed /\ job'[b] = NewJob(0, "none", None)
        /\ \A c \in Books \ {b} : book'[c] = book[c] /\ job'[c] = job[c]
        /\ asked' \in [Books -> {"no", "asked", "serving", "lost"}]
    BY <1>3, <2>1, <2>2 DEF IInv, TypeOK, Serving
  <2>6. TypeOK'
    BY <2>4, <2>5 DEF IInv, TypeOK, BatchNext
  <2>7. (Alone /\ JobsUsable)'
    BY <1>1, <2>1, <2>2, <2>4, <2>5, Limit
    DEF BatchNext, IInv, Alone, JobsUsable, Stage, Usable
  <2>8. (Copies /\ RowKept)'
    BY <1>1, <2>1, <2>4, <2>5 DEF BatchNext, IInv, Copies, RowKept, Ticking
  <2>9. (MapReady /\ CancelMeansDelete /\ Recovering)'
    BY <2>4 DEF MapReady, CancelMeansDelete, Recovering
  <2>10. worker.b \notin Books
    BY <1>1, NoneApart DEF Batches
  <2>11. (ProcessingIsWorkedOn /\ FailedCanRetry /\ ActiveHasMap)'
    BY <1>1, <2>1, <2>4, <2>5, <2>10
    DEF BatchNext, IInv, ProcessingIsWorkedOn, FailedCanRetry, ActiveHasMap
  <2> QED BY <2>6, <2>7, <2>8, <2>9, <2>11 DEF IInv
<1> QED BY <1>2, <1>3 DEF BatchNext, At

-----------------------------------------------------------------------------
(* The scheduler's tick *)

\* With nobody at work, what the invariant says of the one in hand is empty.
LEMMA NobodyAtWork ==
    ASSUME ~Live', tick' = None \/ tick'.pc = "select" \/ tick'.pc = "claim",
           Copies, UNCHANGED cycle
    PROVE  (Copies /\ RowKept /\ MapReady /\ CancelMeansDelete /\ Recovering)'
  BY DEF Copies, RowKept, MapReady, CancelMeansDelete, Recovering, Ticking

\* The tick queues or flags damaged inputs.
LEMMA TickBeginStep == ASSUME IInv, TickBegin PROVE IInv'
<1>1. /\ tick' # None /\ tick'.pc = "select" /\ ~Live' /\ worker' = None
      /\ tick = None /\ worker = None
      /\ UNCHANGED <<map, worker, cycle, deleting, asked, left>>
  BY NoneApart DEF TickBegin, Live
<1>2. PICK proven \in SUBSET Damaged, flagged \in SUBSET Damaged :
        /\ book' = [b \in Books |->
             IF b \in proven
             THEN [book[b] EXCEPT !.status = "pending", !.damaged = FALSE]
             ELSE IF b \in flagged
             THEN [book[b] EXCEPT !.status = "failed_permanent"] ELSE book[b]]
        /\ job' = [b \in Books |->
             IF b \in proven THEN NewJob(0, "recovery", book[b].pair)
             ELSE IF b \notin flagged THEN job[b]
             ELSE [(IF job[b] = None THEN NewJob(0, "none", None) ELSE job[b])
                     EXCEPT !.stage = "manual", !.error = TRUE]]
  BY DEF TickBegin
<1>3. ASSUME NEW b \in Books
      PROVE  /\ book'[b] \in Rows \cup {None} /\ job'[b] \in Jobs \cup {None}
             /\ \/ book'[b] = book[b] /\ job'[b] = job[b]
                \/ /\ book'[b] # None /\ book'[b].status \in {"pending", "failed_permanent"}
                   /\ job'[b] # None
                   /\ job'[b].stage = "manual" \/ job'[b].retries = 0
  <2>1. CASE b \notin proven /\ b \notin flagged
    BY <1>2, <2>1 DEF IInv, TypeOK
  <2>2. CASE b \in proven
    <3>1. book[b] \in Rows
      BY <2>2 DEF Damaged, IInv, TypeOK
    <3>2. book'[b] = [book[b] EXCEPT !.status = "pending", !.damaged = FALSE]
      BY <1>2, <2>2
    <3>3. book'[b] \in Rows /\ book'[b].status = "pending"
      BY <3>1, <3>2 DEF Rows, Statuses
    <3>4. job'[b] = NewJob(0, "recovery", book[b].pair)
      BY <1>2, <2>2
    <3>5. job'[b] \in Jobs /\ job'[b] # None /\ job'[b].retries = 0
      BY <3>1, <3>4, RowFields, JobFields, Limit
    <3> QED BY <3>3, <3>5, NoneApart
  <2>3. CASE b \in flagged /\ b \notin proven
    <3>1. book[b] \in Rows
      BY <2>3 DEF Damaged, IInv, TypeOK
    <3>2. book'[b] = [book[b] EXCEPT !.status = "failed_permanent"]
      BY <1>2, <2>3
    <3>3. book'[b] \in Rows /\ book'[b].status = "failed_permanent"
      BY <3>1, <3>2, RowStatus DEF Statuses
    <3>4. PICK j \in Jobs : job'[b] = [j EXCEPT !.stage = "manual", !.error = TRUE]
      <4>1. (IF job[b] = None THEN NewJob(0, "none", None) ELSE job[b]) \in Jobs
        BY JobFields, Limit DEF IInv, TypeOK
      <4> QED BY <1>2, <2>3, <4>1
    <3>5. job'[b] \in Jobs /\ job'[b].stage = "manual"
      BY <3>4 DEF Jobs
    <3> QED BY <3>3, <3>5, NoneApart
  <2> QED BY <2>1, <2>2, <2>3
<1>4. book' \in [Books -> Rows \cup {None}] /\ job' \in [Books -> Jobs \cup {None}]
  BY <1>2, <1>3
<1>5. TypeOK'
  BY <1>1, <1>4 DEF IInv, TypeOK, TickBegin
<1>6. (Alone /\ JobsUsable)'
  BY <1>1, <1>3, Limit DEF IInv, Alone, JobsUsable, Stage
<1>7. (Copies /\ RowKept /\ MapReady /\ CancelMeansDelete /\ Recovering)'
  BY <1>1, NobodyAtWork DEF IInv
<1>8. (ProcessingIsWorkedOn /\ FailedCanRetry /\ ActiveHasMap)'
  BY <1>1, <1>3 DEF IInv, ProcessingIsWorkedOn, FailedCanRetry, ActiveHasMap
<1> QED BY <1>5, <1>6, <1>7, <1>8 DEF IInv

\* The outcome of a tick's choice: nothing to do, a batch, or a claimed book.
Chosen ==
    /\ worker' \in {None} \cup Batches
    /\ tick' \in {None} \cup Ticks
    /\ tick' # None => /\ worker' = None /\ tick'.b \in Books /\ tick'.job = job[tick'.b]
                       /\ tick'.retry => tick'.b \in Retryable

\* It chooses.
LEMMA TickSelectStep == ASSUME IInv, TickSelect PROVE IInv'
<1>1. worker = None /\ ~Live' /\ (tick' # None => tick'.pc = "claim")
  BY BatchFields DEF TickSelect, Select, Batch, IInv, Alone, Live
<1>2. Chosen
  <2>1. ASSUME NEW b \in FullPipeline \cup Retryable, NEW retry \in BOOLEAN,
               Select(b, retry), retry => b \in Retryable
        PROVE  Chosen
    <3>1. /\ b \in Books /\ book[b] \in Rows /\ job[b] \in Jobs \cup {None}
      BY DEF FullPipeline, Pending, Retryable, IInv, TypeOK
    <3>2. /\ tick' \in Ticks /\ tick'.b = b /\ tick'.job = job[b] /\ tick'.retry = retry
          /\ UNCHANGED worker
      BY <2>1, <3>1 DEF Select, Ticks
    <3> QED BY <1>1, <2>1, <3>1, <3>2 DEF Chosen
  <2>2. CASE /\ Pending \cap EbookOnly # {}
             /\ worker' = Batch(Pending \cap EbookOnly) /\ tick' = None
    BY <2>2, BatchFields DEF Chosen
  <2>3. CASE tick' = None /\ UNCHANGED worker
    BY <1>1, <2>3 DEF Chosen
  <2>4. ASSUME NEW b \in FullPipeline, Select(b, FALSE) PROVE Chosen
    BY <2>1, <2>4, Zenon
  <2>5. ASSUME NEW b \in Retryable, Select(b, TRUE) PROVE Chosen
    BY <2>1, <2>5, Zenon
  <2>6. \/ \E b \in FullPipeline : Select(b, FALSE)
        \/ \E b \in Retryable : Select(b, TRUE)
        \/ Pending \cap EbookOnly # {} /\ worker' = Batch(Pending \cap EbookOnly) /\ tick' = None
        \/ tick' = None /\ UNCHANGED worker
    BY DEF TickSelect
  <2> QED BY <2>2, <2>3, <2>4, <2>5, <2>6
<1>3. \A b \in Books :
        \/ book'[b] = book[b] /\ job'[b] = job[b]
        \/ /\ b \in AudioOnly /\ book[b] # None
           /\ book'[b] = [book[b] EXCEPT !.status = "active"] /\ job'[b] = DoneJob
  BY DEF TickSelect, Pending
<1>4. ASSUME NEW b \in Books
      PROVE  /\ book'[b] \in Rows \cup {None} /\ job'[b] \in Jobs \cup {None}
             /\ \/ book'[b] = book[b] /\ job'[b] = job[b]
                \/ /\ b \in AudioOnly /\ book'[b] # None /\ book'[b].status = "active"
                   /\ job'[b] # None /\ job'[b].stage = "none" /\ job'[b].retries = 0
  <2>1. book[b] \in Rows \cup {None} /\ job[b] \in Jobs \cup {None}
    BY DEF IInv, TypeOK
  <2>2. ASSUME b \in AudioOnly, book[b] # None,
               book'[b] = [book[b] EXCEPT !.status = "active"], job'[b] = DoneJob
        PROVE  /\ book'[b] \in Rows /\ book'[b] # None /\ book'[b].status = "active"
               /\ job'[b] \in Jobs /\ job'[b] # None /\ job'[b].stage = "none"
               /\ job'[b].retries = 0
    <3>1. "active" \in Statuses /\ book[b] \in Rows
      BY <2>1, <2>2 DEF Statuses
    <3>2. book'[b] \in Rows /\ book'[b] # None /\ book'[b].status = "active"
      BY <2>2, <3>1, RowStatus
    <3> QED BY <2>2, <3>2, JobIsDone
  <2> QED BY <1>3, <2>1, <2>2
<1>5. book' \in [Books -> Rows \cup {None}] /\ job' \in [Books -> Jobs \cup {None}]
  BY <1>4 DEF TickSelect
<1>6. TypeOK'
  BY <1>2, <1>5 DEF Chosen, IInv, TypeOK, TickSelect
<1>7. Alone'
  BY <1>2 DEF Chosen, Alone
<1>8. JobsUsable'
  BY <1>1, <1>2, <1>4, Limit DEF Chosen, IInv, JobsUsable, Stage, Retryable, Usable
<1>9. (Copies /\ RowKept /\ MapReady /\ CancelMeansDelete /\ Recovering)'
  BY <1>1, NobodyAtWork DEF TickSelect, IInv
<1>10. (ProcessingIsWorkedOn /\ FailedCanRetry)'
  BY <1>1, <1>4 DEF TickSelect, IInv, ProcessingIsWorkedOn, FailedCanRetry
<1>11. ActiveHasMap'
  BY <1>4 DEF TickSelect, IInv, ActiveHasMap
<1> QED BY <1>6, <1>7, <1>8, <1>9, <1>10, <1>11 DEF IInv

\* It claims the book it chose.
LEMMA TickClaimStep == ASSUME IInv, TickClaim PROVE IInv'
<1>1. /\ tick \in Ticks /\ tick.pc = "claim" /\ worker = None /\ worker' = None /\ ~Live'
      /\ tick.b \in Books /\ tick.copy \in Rows
      /\ UNCHANGED <<map, job, worker, cycle, deleting, left>>
  BY InHand, TickFields DEF TickClaim, IInv, Live
<1>2. CASE tick' = None /\ UNCHANGED <<book, asked>>
  <2>1. TypeOK'
    BY <1>1, <1>2 DEF IInv, TypeOK
  <2>2. (Alone /\ JobsUsable)'
    BY <1>1, <1>2 DEF IInv, Alone, JobsUsable, Stage
  <2>3. (Copies /\ RowKept /\ MapReady /\ CancelMeansDelete /\ Recovering)'
    BY <1>1, <1>2, NobodyAtWork DEF IInv
  <2>4. (ProcessingIsWorkedOn /\ FailedCanRetry /\ ActiveHasMap)'
    BY <1>1, <1>2 DEF IInv, ProcessingIsWorkedOn, FailedCanRetry, ActiveHasMap
  <2> QED BY <2>1, <2>2, <2>3, <2>4 DEF IInv
<1>3. ASSUME NEW claimed, claimed = [tick.copy EXCEPT !.status = "processing"],
             book' = [book EXCEPT ![tick.b] = claimed],
             tick' = [tick EXCEPT !.pc = "job", !.copy = claimed],
             Serving(tick.b, claimed)
      PROVE  IInv'
  <2>1. claimed \in Rows /\ claimed # None /\ claimed.status = "processing"
    BY <1>1, <1>3, RowStatus DEF Statuses
  <2>2. /\ tick' \in Ticks /\ tick'.pc = "job" /\ tick'.b = tick.b /\ tick'.copy = claimed
        /\ tick'.retry = tick.retry /\ tick'.job = tick.job /\ tick # None /\ tick' # None
    <3>1. /\ tick' \in Ticks /\ tick'.pc = "job" /\ tick'.b = tick.b
          /\ tick'.copy = claimed /\ tick'.job = tick.job
      BY <1>1, <1>3, <2>1 DEF Ticks
    <3>2. tick'.retry = tick.retry
      BY <1>1, <1>3 DEF Ticks
    <3> QED BY <1>1, <3>1, <3>2, NoneApart
  <2>3. /\ book' \in [Books -> Rows \cup {None}] /\ book'[tick.b] = claimed
        /\ \A b \in Books \ {tick.b} : book'[b] = book[b]
        /\ asked' \in [Books -> {"no", "asked", "serving", "lost"}]
    BY <1>1, <1>3, <2>1 DEF Serving, IInv, TypeOK
  <2>4. TypeOK'
    BY <1>1, <2>2, <2>3 DEF IInv, TypeOK
  <2>5. (Alone /\ JobsUsable)'
    BY <1>1, <2>2 DEF IInv, Alone, JobsUsable, Stage
  <2>6. (Copies /\ RowKept /\ MapReady /\ CancelMeansDelete /\ Recovering)'
    BY <1>1, <2>1, <2>2, <2>3
    DEF IInv, Copies, RowKept, MapReady, CancelMeansDelete, Recovering, Ticking
  <2>7. (ProcessingIsWorkedOn /\ FailedCanRetry /\ ActiveHasMap)'
    BY <1>1, <2>1, <2>2, <2>3 DEF IInv, ProcessingIsWorkedOn, FailedCanRetry, ActiveHasMap
  <2> QED BY <2>4, <2>5, <2>6, <2>7 DEF IInv
<1> QED BY <1>2, <1>3 DEF TickClaim

\* It records the job, which can be retried.
LEMMA TickJobStep == ASSUME IInv, TickJob PROVE IInv'
<1>1. /\ tick \in Ticks /\ tick.pc = "job" /\ worker = None /\ worker' = None /\ ~Live'
      /\ tick.b \in Books /\ tick.job \in Jobs \cup {None} /\ tick # None
      /\ UNCHANGED <<book, map, worker, cycle, deleting, asked, left>>
  BY InHand, TickFields DEF TickJob, IInv, Live
<1>2. /\ tick' \in Ticks /\ tick'.pc = "launch" /\ tick'.b = tick.b
      /\ tick'.copy = tick.copy /\ tick' # None
  BY <1>1, TickLaunches, NoneApart DEF TickJob
<1>3. /\ job' \in [Books -> Jobs \cup {None}] /\ job'[tick.b] # None /\ Usable(job'[tick.b])
      /\ \A b \in Books \ {tick.b} : job'[b] = job[b]
  <2>0. PICK prior \in Jobs \cup {None} :
          job' = [job EXCEPT ![tick.b] =
                    NewJob(IF tick.retry THEN tick.job.retries ELSE 0,
                           IF prior # None /\ prior.stage = "recovery" THEN "recovery" ELSE "none",
                           IF prior # None /\ prior.stage = "recovery" THEN prior.ident ELSE None)]
    <3>1. (IF tick.retry THEN tick.job ELSE job[tick.b]) \in Jobs \cup {None}
      BY <1>1 DEF IInv, TypeOK
    <3> QED BY <3>1 DEF TickJob
  <2>1. PICK retries, stage, ident :
          /\ retries = IF tick.retry THEN tick.job.retries ELSE 0
          /\ stage = IF prior # None /\ prior.stage = "recovery" THEN "recovery" ELSE "none"
          /\ ident = IF prior # None /\ prior.stage = "recovery" THEN prior.ident ELSE None
          /\ job' = [job EXCEPT ![tick.b] = NewJob(retries, stage, ident)]
    BY <2>0
  <2>2. retries \in 0 .. MaxRetries /\ retries < MaxRetries
    BY <1>1, <2>1, JobParts, Limit DEF IInv, JobsUsable, Usable
  <2>3. stage \in {"none", "recovery"} /\ ident \in Pairs \cup {None}
    BY <2>1, JobParts
  <2>4. /\ NewJob(retries, stage, ident) \in Jobs /\ NewJob(retries, stage, ident) # None
        /\ Usable(NewJob(retries, stage, ident))
    BY <2>2, <2>3, JobFields DEF Usable
  <2> QED BY <1>1, <2>1, <2>4 DEF IInv, TypeOK
<1>4. TypeOK'
  BY <1>1, <1>2, <1>3 DEF IInv, TypeOK
<1>5. (Alone /\ JobsUsable)'
  BY <1>1, <1>2, <1>3 DEF IInv, Alone, JobsUsable, Stage, Usable
<1>6. (Copies /\ RowKept /\ MapReady /\ CancelMeansDelete /\ Recovering)'
  BY <1>1, <1>2
  DEF IInv, Copies, RowKept, MapReady, CancelMeansDelete, Recovering, Ticking
<1>7. (ProcessingIsWorkedOn /\ FailedCanRetry /\ ActiveHasMap)'
  BY <1>1, <1>2, <1>3 DEF IInv, ProcessingIsWorkedOn, FailedCanRetry, ActiveHasMap, Usable
<1> QED BY <1>4, <1>5, <1>6, <1>7 DEF IInv

\* It starts the worker with its copy.
LEMMA TickLaunchStep == ASSUME IInv, TickLaunch PROVE IInv'
<1>1. /\ tick \in Ticks /\ tick.pc = "launch" /\ worker = None /\ tick # None
      /\ tick.b \in Books /\ tick.copy \in Rows
      /\ tick' = None /\ worker' = Start(tick.b, tick.copy, {})
      /\ UNCHANGED <<book, map, job, cycle, deleting, asked, left>>
  BY InHand, TickFields DEF TickLaunch, IInv
<1>2. /\ worker' \in Workers /\ worker' # None /\ worker'.pc = "begin"
      /\ worker'.b = tick.b /\ worker'.copy = tick.copy
  BY <1>1, WorkerStarts
<1>3. worker'.cancelled = FALSE
  BY <1>1 DEF Start
<1>4. TypeOK'
  BY <1>1, <1>2 DEF IInv, TypeOK
<1>5. (Alone /\ JobsUsable)'
  BY <1>1, <1>2 DEF IInv, Alone, JobsUsable, Stage, Usable
<1>6. (Copies /\ RowKept)'
  BY <1>1, <1>2 DEF IInv, Copies, RowKept, Ticking
<1>7. (MapReady /\ CancelMeansDelete /\ Recovering)'
  BY <1>2, <1>3 DEF MapReady, CancelMeansDelete, Recovering
<1>8. (ProcessingIsWorkedOn /\ FailedCanRetry /\ ActiveHasMap)'
  BY <1>1, <1>2 DEF IInv, ProcessingIsWorkedOn, FailedCanRetry, ActiveHasMap
<1> QED BY <1>4, <1>5, <1>6, <1>7, <1>8 DEF IInv

-----------------------------------------------------------------------------
(* The sync cycle *)

\* A sync cycle reads active rows.
LEMMA CycleReadsStep == ASSUME IInv, CycleReads PROVE IInv'
<1>1. /\ UNCHANGED <<book, map, job, tick, worker, deleting, asked, left>>
      /\ cycle' \in [Books -> Rows \cup {None}]
      /\ \A b \in Books : cycle'[b] # None => cycle'[b].status = "active"
  <2>1. \A b \in Books : \/ cycle'[b] = None
                         \/ cycle'[b] = book[b] /\ book[b].status = "active"
    BY DEF CycleReads
  <2>2. \A b \in Books : cycle'[b] \in Rows \cup {None}
    BY <2>1 DEF IInv, TypeOK
  <2> QED BY <2>1, <2>2 DEF CycleReads
<1>2. TypeOK'
  BY <1>1 DEF IInv, TypeOK
<1>3. (Alone /\ JobsUsable /\ Copies /\ RowKept)'
  BY <1>1 DEF IInv, Alone, JobsUsable, Copies, RowKept, Ticking, Live, Stage
<1>4. (MapReady /\ CancelMeansDelete /\ Recovering)'
  BY <1>1 DEF IInv, MapReady, CancelMeansDelete, Recovering, Live, Stage
<1>5. (ProcessingIsWorkedOn /\ FailedCanRetry /\ ActiveHasMap)'
  BY <1>1 DEF IInv, ProcessingIsWorkedOn, FailedCanRetry, ActiveHasMap
<1> QED BY <1>2, <1>3, <1>4, <1>5 DEF IInv

\* It repairs one of them, if it still has its map and no recovery.
LEMMA PromotesStep == ASSUME IInv, NEW b \in Books, CyclePromotes(b) PROVE IInv'
<1>1. /\ cycle[b] \in Rows /\ cycle[b].status = "active" /\ cycle' = [cycle EXCEPT ![b] = None]
      /\ UNCHANGED <<map, tick, worker, deleting, asked, left>>
      /\ book[b] \in Rows \cup {None} /\ job[b] \in Jobs \cup {None}
  BY DEF CyclePromotes, IInv, TypeOK, Copies
<1>2. PICK r : r = [cycle[b] EXCEPT !.managed = TRUE]
  OBVIOUS
<1>3. r \in Rows /\ r # None /\ r.status = "active"
  <2>1. r \in Rows /\ r.status = "active"
    BY <1>1, <1>2 DEF Rows
  <2> QED BY <2>1, NoneApart
<1>4. \/ book' = book
      \/ book' = [book EXCEPT ![b] = r] /\ book[b] # None /\ map[b] # None
  BY <1>2 DEF CyclePromotes
<1>5. \/ job' = job
      \/ /\ job[b] # None /\ job[b].stage = "none"
         /\ job' = [job EXCEPT ![b] = [@ EXCEPT !.done = TRUE, !.retries = 0, !.error = FALSE]]
  BY DEF CyclePromotes, Unfinished, Stage
<1>6. /\ book' \in [Books -> Rows \cup {None}] /\ job' \in [Books -> Jobs \cup {None}]
      /\ \A c \in Books \ {b} : book'[c] = book[c] /\ job'[c] = job[c]
      /\ \/ book'[b] = book[b]
         \/ book'[b] = r /\ book[b] # None /\ map[b] # None
      /\ \/ job'[b] = job[b]
         \/ /\ job[b] # None /\ job[b].stage = "none" /\ job'[b] # None
            /\ job'[b].stage = "none" /\ job'[b].retries = 0
  <2>1. ASSUME job[b] # None,
               job' = [job EXCEPT ![b] = [@ EXCEPT !.done = TRUE, !.retries = 0, !.error = FALSE]]
        PROVE  /\ job' \in [Books -> Jobs \cup {None}]
               /\ \A c \in Books \ {b} : job'[c] = job[c]
               /\ job'[b] # None /\ job'[b].stage = job[b].stage /\ job'[b].retries = 0
    <3>1. PICK k : k = [job[b] EXCEPT !.done = TRUE, !.retries = 0, !.error = FALSE]
      OBVIOUS
    <3>2. k \in Jobs /\ k # None /\ k.retries = 0 /\ k.stage = job[b].stage
      BY <1>1, <2>1, <3>1, JobCloses
    <3>3. job' = [job EXCEPT ![b] = k]
      BY <2>1, <3>1
    <3> QED BY <3>2, <3>3 DEF IInv, TypeOK
  <2>2. /\ book' \in [Books -> Rows \cup {None}]
        /\ \A c \in Books \ {b} : book'[c] = book[c]
        /\ \/ book'[b] = book[b]
           \/ book'[b] = r /\ book[b] # None /\ map[b] # None
    BY <1>3, <1>4 DEF IInv, TypeOK
  <2>3. CASE job' = job
    BY <2>2, <2>3 DEF IInv, TypeOK
  <2> QED BY <1>5, <2>1, <2>2, <2>3
<1>7. /\ cycle' \in [Books -> Rows \cup {None}]
      /\ \A c \in Books : cycle'[c] # None => cycle'[c] = cycle[c]
  BY <1>1 DEF IInv, TypeOK
<1>8. TypeOK'
  BY <1>1, <1>6, <1>7 DEF IInv, TypeOK
<1>9. \A c \in Books : /\ book'[c] = None <=> book[c] = None
                       /\ book'[c] # book[c] => book'[c].status = "active" /\ map[c] # None
                       /\ job'[c] # job[c] => /\ Stage(c) = "none" /\ job'[c] # None
                                              /\ job'[c].stage = "none" /\ job'[c].retries = 0
  BY <1>3, <1>6 DEF Stage
<1>10. /\ Live => worker.b \in Books
       /\ tick # None /\ tick.pc # "select" => tick.b \in Books
  BY InHand, WorkerParts, TickFields DEF IInv
<1>11. (Alone /\ JobsUsable)'
  BY <1>1, <1>9, <1>10, Limit DEF IInv, Alone, JobsUsable, Usable, Live, Stage
<1>12. (Copies /\ RowKept)'
  BY <1>1, <1>7, <1>9, <1>10 DEF IInv, Copies, RowKept, Live, Ticking
<1>13. (MapReady /\ CancelMeansDelete /\ Recovering)'
  BY <1>1, <1>9, <1>10 DEF IInv, MapReady, CancelMeansDelete, Recovering, Live, Stage
<1>14. (ProcessingIsWorkedOn /\ FailedCanRetry /\ ActiveHasMap)'
  BY <1>1, <1>9, Limit DEF IInv, ProcessingIsWorkedOn, FailedCanRetry, ActiveHasMap
<1> QED BY <1>8, <1>11, <1>12, <1>13, <1>14 DEF IInv

-----------------------------------------------------------------------------
(* Web requests *)

\* A counted operation uses up its budget.
LEMMA Spends ==
    ASSUME IInv, NEW op \in Ops, Uses(op)
    PROVE  left' \in [Ops -> Nat] /\ left'[op] < left[op]
<1>1. left \in [Ops -> Nat] /\ op \in Ops
  BY DEF IInv, TypeOK, Ops
<1> QED BY <1>1 DEF Uses

\* A web request writes a row that asks for work or has its map; it may create
\* the row only when nobody is at work on the book.
LEMMA RowWritten ==
    ASSUME IInv, NEW b \in Books, NEW r \in Rows, r.status \in {"pending", "active"},
           r.status = "active" /\ b \notin EbookOnly \cup AudioOnly => map[b] # None,
           book[b] # None \/ ~Busy(b),
           book' = [book EXCEPT ![b] = r],
           asked' \in [Books -> {"no", "asked", "serving", "lost"}],
           left' \in [Ops -> Nat],
           UNCHANGED <<map, job, tick, worker, cycle, deleting>>
    PROVE  IInv'
<1>1. /\ book' \in [Books -> Rows \cup {None}] /\ book'[b] = r
      /\ \A c \in Books \ {b} : book'[c] = book[c]
  BY DEF IInv, TypeOK
<1>2. /\ Live => worker.b \in Books /\ (book[worker.b] = None => worker.b # b)
      /\ tick # None /\ tick.pc # "select" =>
            tick.b \in Books /\ (book[tick.b] = None => tick.b # b)
  BY InHand, WorkerParts, TickFields DEF IInv, Busy, Live
<1>3. TypeOK'
  BY <1>1 DEF IInv, TypeOK
<1>4. (Alone /\ JobsUsable)'
  BY <1>1, <1>2 DEF IInv, Alone, JobsUsable, Usable, Live, Stage
<1>5. (Copies /\ RowKept)'
  BY <1>1, <1>2 DEF IInv, Copies, RowKept, Live, Ticking
<1>6. (MapReady /\ CancelMeansDelete /\ Recovering)'
  BY <1>1, <1>2 DEF IInv, MapReady, CancelMeansDelete, Recovering, Live, Stage
<1>7. (ProcessingIsWorkedOn /\ FailedCanRetry /\ ActiveHasMap)'
  BY <1>1 DEF IInv, ProcessingIsWorkedOn, FailedCanRetry, ActiveHasMap
<1> QED BY <1>3, <1>4, <1>5, <1>6, <1>7 DEF IInv

\* A book is added when nobody works on it.
LEMMA AddBookStep ==
    ASSUME IInv, NEW b \in Books, NEW p \in Pairs, AddBook(b, p) PROVE IInv'
<1>1. PICK r : r = [status |-> "pending", pair |-> p, managed |-> FALSE, damaged |-> FALSE]
  OBVIOUS
<1>2. r \in Rows /\ r.status = "pending"
  BY <1>1 DEF Rows, Statuses
<1>3. /\ Uses("add") /\ ~Busy(b) /\ book' = [book EXCEPT ![b] = r]
      /\ UNCHANGED <<map, job, tick, worker, cycle, deleting, asked>>
  BY <1>1 DEF AddBook
<1>4. left' \in [Ops -> Nat]
  BY <1>3, Spends DEF Ops
<1>5. asked' \in [Books -> {"no", "asked", "serving", "lost"}]
  BY <1>3 DEF IInv, TypeOK
<1> QED BY <1>2, <1>3, <1>4, <1>5, RowWritten

\* A row whose status, pairing and damage stay says as much as before.
LEMMA RowTouched ==
    ASSUME IInv, NEW b \in Books, NEW r \in Rows, book[b] # None,
           r.status = book[b].status, r.pair = book[b].pair, r.damaged = book[b].damaged,
           book' = [book EXCEPT ![b] = r],
           asked' \in [Books -> {"no", "asked", "serving", "lost"}],
           left' \in [Ops -> Nat],
           UNCHANGED <<map, job, tick, worker, cycle, deleting>>
    PROVE  IInv'
<1>1. /\ book' \in [Books -> Rows \cup {None}]
      /\ \A c \in Books : /\ book'[c] = None <=> book[c] = None
                          /\ book[c] # None => /\ book'[c].status = book[c].status
                                              /\ book'[c].pair = book[c].pair
                                              /\ book'[c].damaged = book[c].damaged
  BY NoneApart DEF IInv, TypeOK
<1>2. /\ Live => worker.b \in Books
      /\ tick # None /\ tick.pc # "select" => tick.b \in Books
  BY InHand, WorkerParts, TickFields DEF IInv
<1>3. TypeOK'
  BY <1>1 DEF IInv, TypeOK
<1>4. (Alone /\ JobsUsable)'
  BY <1>1, <1>2 DEF IInv, Alone, JobsUsable, Usable, Live, Stage
<1>5. (Copies /\ RowKept)'
  BY <1>1, <1>2 DEF IInv, Copies, RowKept, Live, Ticking
<1>6. (MapReady /\ CancelMeansDelete /\ Recovering)'
  BY <1>1, <1>2 DEF IInv, MapReady, CancelMeansDelete, Recovering, Live, Stage
<1>7. (ProcessingIsWorkedOn /\ FailedCanRetry /\ ActiveHasMap)'
  BY <1>1 DEF IInv, ProcessingIsWorkedOn, FailedCanRetry, ActiveHasMap
<1> QED BY <1>3, <1>4, <1>5, <1>6, <1>7 DEF IInv

\* A re-match leaves the row its status, or asks for work, or finds the map.
LEMMA RematchWrites ==
    ASSUME IInv, NEW b \in Books, NEW p \in Pairs, Rematch(b, p)
    PROVE  \E r \in Rows :
              /\ book' = [book EXCEPT ![b] = r]
              /\ \/ /\ r.status = book[b].status /\ r.pair = book[b].pair
                    /\ r.damaged = book[b].damaged /\ p = book[b].pair
                 \/ r.status = "active" /\ map[b] # None
                 \/ r.status = "pending"
<1>1. book[b] # None /\ book[b] \in Rows
  BY DEF Rematch, IInv, TypeOK
<1> DEFINE Saved(managed, stable, s, r) ==
        /\ s = Rematched(b, p, stable)
        /\ r = [book[b] EXCEPT !.pair = p, !.managed = managed, !.status = s]
        /\ book' = [book EXCEPT ![b] = r]
<1>a. PICK managed \in {FALSE, book[b].managed}, stable \in BOOLEAN :
         \E s, r : Saved(managed, stable, s, r)
  BY DEF Rematch
<1>2. PICK s, r : Saved(managed, stable, s, r)
  BY <1>a
<1>3. \/ s = book[b].status /\ p = book[b].pair
      \/ s = "active" /\ map[b] # None
      \/ s = "pending"
  BY <1>2 DEF Rematched
<1>4. s \in Statuses /\ managed \in BOOLEAN
  BY <1>1, <1>3, RowFields DEF Statuses
<1>5. r \in Rows /\ r.status = s /\ r.pair = p /\ r.damaged = book[b].damaged
  BY <1>1, <1>2, <1>4 DEF Rows
<1> QED BY <1>2, <1>3, <1>5

\* So it preserves the invariant.
LEMMA RematchStep ==
    ASSUME IInv, NEW b \in Books, NEW p \in Pairs, Rematch(b, p) PROVE IInv'
<1>1. /\ Uses("rematch") /\ book[b] # None
      /\ asked' = [asked EXCEPT ![b] = IF p # book[b].pair THEN "asked" ELSE @]
      /\ UNCHANGED <<map, job, tick, worker, cycle, deleting>>
  BY DEF Rematch
<1>2. PICK r \in Rows :
        /\ book' = [book EXCEPT ![b] = r]
        /\ \/ /\ r.status = book[b].status /\ r.pair = book[b].pair
              /\ r.damaged = book[b].damaged
           \/ r.status = "active" /\ map[b] # None
           \/ r.status = "pending"
  BY RematchWrites
<1>3. left' \in [Ops -> Nat]
  BY <1>1, Spends DEF Ops
<1>4. asked' \in [Books -> {"no", "asked", "serving", "lost"}]
  BY <1>1 DEF IInv, TypeOK
<1>5. CASE /\ r.status = book[b].status /\ r.pair = book[b].pair
           /\ r.damaged = book[b].damaged
  BY <1>1, <1>2, <1>3, <1>4, <1>5, RowTouched
<1>6. CASE (r.status = "active" /\ map[b] # None) \/ r.status = "pending"
  <2>1. /\ r.status \in {"pending", "active"}
        /\ r.status = "active" /\ b \notin EbookOnly \cup AudioOnly => map[b] # None
    BY <1>6
  <2> QED BY <1>1, <1>2, <1>3, <1>4, <2>1, RowWritten
<1> QED BY <1>2, <1>5, <1>6

\* A remap asks for work.
LEMMA RemapStep == ASSUME IInv, NEW b \in Books, Remap(b) PROVE IInv'
<1>1. /\ Uses("remap") /\ book[b] # None /\ book' = [book EXCEPT ![b].status = "pending"]
      /\ asked' = [asked EXCEPT ![b] = "asked"]
      /\ UNCHANGED <<map, job, tick, worker, cycle, deleting>>
  BY DEF Remap
<1>2. PICK r : r = [book[b] EXCEPT !.status = "pending"]
  OBVIOUS
<1>3. book[b] \in Rows
  BY <1>1 DEF IInv, TypeOK
<1>4. r \in Rows /\ r.status = "pending"
  BY <1>2, <1>3, RowStatus DEF Statuses
<1>5. left' \in [Ops -> Nat] /\ asked' \in [Books -> {"no", "asked", "serving", "lost"}]
  BY <1>1, Spends DEF IInv, TypeOK, Ops
<1>6. book' = [book EXCEPT ![b] = r]
  BY <1>1, <1>2
<1> QED BY <1>1, <1>4, <1>5, <1>6, RowWritten

\* Clearing the progress leaves a book active only with a map.
LEMMA ClearStep == ASSUME IInv, NEW b \in Books, ClearProgress(b) PROVE IInv'
<1>1. PICK s \in {"pending", "active"} :
        /\ s = IF b \in AudioOnly \/ map[b] # None THEN "active" ELSE "pending"
        /\ book' = [book EXCEPT ![b].status = s]
  BY DEF ClearProgress
<1>2. /\ Uses("clear") /\ book[b] # None
      /\ UNCHANGED <<map, job, tick, worker, cycle, deleting, asked>>
  BY DEF ClearProgress
<1>3. PICK r : r = [book[b] EXCEPT !.status = s]
  OBVIOUS
<1>4. book[b] \in Rows
  BY <1>2 DEF IInv, TypeOK
<1>5. r \in Rows /\ r.status = s
  BY <1>3, <1>4, RowStatus DEF Statuses
<1>6. left' \in [Ops -> Nat] /\ asked' \in [Books -> {"no", "asked", "serving", "lost"}]
  BY <1>2, Spends DEF IInv, TypeOK, Ops
<1>7. book' = [book EXCEPT ![b] = r]
  BY <1>1, <1>3
<1> QED BY <1>1, <1>2, <1>5, <1>6, <1>7, RowWritten

\* A deletion cancels the worker first.
LEMMA CancelStep == ASSUME IInv, NEW b \in Books, CancelForDelete(b) PROVE IInv'
<1>1. /\ Uses("delete") /\ deleting' = deleting \cup {b}
      /\ UNCHANGED <<book, map, job, tick, cycle, asked>>
      /\ \/ worker' = worker
         \/ /\ worker # None /\ worker.b = b
            /\ worker' = [worker EXCEPT !.cancelled = TRUE]
  BY DEF CancelForDelete
<1>2. left' \in [Ops -> Nat]
  BY <1>1, Spends DEF Ops
<1>3. \/ worker' = worker
      \/ /\ worker \in Workers /\ worker.b = b /\ worker # None /\ worker.pc # "next"
         /\ worker' \in Workers /\ worker' # None /\ worker'.pc = worker.pc
         /\ worker'.b = worker.b /\ worker'.copy = worker.copy
         /\ worker'.job = worker.job /\ worker'.map = worker.map
  <2>1. ASSUME worker # None, worker.b = b, worker' = [worker EXCEPT !.cancelled = TRUE]
        PROVE  /\ worker \in Workers /\ worker.pc # "next"
               /\ worker' \in Workers /\ worker' # None /\ worker'.pc = worker.pc
               /\ worker'.b = worker.b /\ worker'.copy = worker.copy
               /\ worker'.job = worker.job /\ worker'.map = worker.map
    <3>1. worker \in Workers
      BY <2>1, NoneApart DEF IInv, TypeOK, Batches
    <3>2. worker.pc # "next"
      BY <3>1, WorkerParts DEF Pcs
    <3>3. worker' \in Workers
      BY <2>1, <3>1 DEF Workers
    <3>4. /\ worker'.pc = worker.pc /\ worker'.b = worker.b /\ worker'.copy = worker.copy
          /\ worker'.job = worker.job /\ worker'.map = worker.map
      BY <2>1, <3>1 DEF Workers
    <3> QED BY <3>1, <3>2, <3>3, <3>4, NoneApart
  <2> QED BY <1>1, <2>1
<1>4. TypeOK'
  BY <1>1, <1>2, <1>3 DEF IInv, TypeOK
<1>5. (Alone /\ JobsUsable)'
  BY <1>1, <1>3 DEF IInv, Alone, JobsUsable, Live, Stage
<1>6. (Copies /\ RowKept)'
  BY <1>1, <1>3 DEF IInv, Copies, RowKept, Live, Ticking
<1>7. (MapReady /\ CancelMeansDelete /\ Recovering)'
  BY <1>1, <1>3 DEF IInv, MapReady, CancelMeansDelete, Recovering, Live, Stage
<1>8. (ProcessingIsWorkedOn /\ FailedCanRetry /\ ActiveHasMap)'
  BY <1>1, <1>3 DEF IInv, ProcessingIsWorkedOn, FailedCanRetry, ActiveHasMap
<1> QED BY <1>4, <1>5, <1>6, <1>7, <1>8 DEF IInv

\* Then nothing of the book is left.
LEMMA DeleteStep == ASSUME IInv, NEW b \in Books, DeleteBook(b) PROVE IInv'
<1>1. /\ deleting' = deleting \ {b}
      /\ book' = [book EXCEPT ![b] = None] /\ map' = [map EXCEPT ![b] = None]
      /\ job' = [job EXCEPT ![b] = None] /\ asked' = [asked EXCEPT ![b] = "no"]
      /\ UNCHANGED <<tick, worker, cycle, left>>
  BY DEF DeleteBook
<1>2. TypeOK'
  BY <1>1 DEF IInv, TypeOK
<1>3. /\ book'[b] = None /\ map'[b] = None /\ job'[b] = None
      /\ \A c \in Books \ {b} : book'[c] = book[c] /\ map'[c] = map[c] /\ job'[c] = job[c]
  BY <1>1 DEF IInv, TypeOK
<1>4. /\ Live => worker.b \in Books
      /\ tick # None /\ tick.pc # "select" => tick.b \in Books
  BY InHand, WorkerParts, TickFields DEF IInv
<1>5. (Alone /\ JobsUsable)'
  BY <1>1, <1>3, <1>4 DEF IInv, Alone, JobsUsable, Usable, Live, Stage
<1>6. (Copies /\ RowKept)'
  BY <1>1, <1>3, <1>4 DEF IInv, Copies, RowKept, Live, Ticking
<1>7. (MapReady /\ CancelMeansDelete /\ Recovering)'
  BY <1>1, <1>3, <1>4 DEF IInv, MapReady, CancelMeansDelete, Recovering, Live, Stage
<1>8. (ProcessingIsWorkedOn /\ FailedCanRetry /\ ActiveHasMap)'
  BY <1>1, <1>3 DEF IInv, ProcessingIsWorkedOn, FailedCanRetry, ActiveHasMap
<1> QED BY <1>2, <1>5, <1>6, <1>7, <1>8 DEF IInv

-----------------------------------------------------------------------------
(* The start and the restart *)

\* After a restart nobody is at work, and every interrupted book can be taken up.
LEMMA RestartStep == ASSUME IInv, Restart PROVE IInv'
<1>1. /\ tick' = None /\ worker' = None /\ deleting' = {}
      /\ cycle' = [b \in Books |-> None] /\ UNCHANGED <<map, asked>> /\ ~Live' /\ ~Ticking'
      /\ left' \in [Ops -> Nat]
  BY Spends DEF Restart, Live, Ticking, Ops
<1>2. ASSUME NEW b \in Books
      PROVE  /\ book'[b] \in Rows \cup {None}
             /\ book'[b] # None =>
                  /\ book'[b].status # "processing"
                  /\ book'[b].status = "active" => map[b] # None \/ book[b] = book'[b]
  <2>1. CASE Promoted(b)
    <3>1. book[b] \in Rows /\ map[b] # None
      BY <2>1 DEF Promoted, Stale, IInv, TypeOK
    <3>2. book'[b] = [book[b] EXCEPT !.status = "active", !.managed = TRUE]
      BY <2>1 DEF Restart
    <3>3. book'[b] \in Rows /\ book'[b].status = "active"
      BY <3>1, <3>2 DEF Rows, Statuses
    <3> QED BY <3>1, <3>3
  <2>2. CASE ~Promoted(b) /\ Interrupted(b)
    <3>1. book[b] \in Rows
      BY <2>2 DEF Interrupted, Stale, IInv, TypeOK
    <3>2. PICK s \in {"failed_permanent", "failed_retry_later"} :
            book'[b] = [book[b] EXCEPT !.status = s]
      BY <2>2 DEF Restart
    <3>3. book'[b] \in Rows /\ book'[b].status = s
      BY <3>1, <3>2, RowStatus DEF Statuses
    <3> QED BY <3>2, <3>3
  <2>3. CASE ~Promoted(b) /\ ~Interrupted(b)
    BY <2>3 DEF Restart, Promoted, Interrupted, Stale, IInv, TypeOK
  <2> QED BY <2>1, <2>2, <2>3
<1>3. ASSUME NEW b \in Books
      PROVE  /\ job'[b] \in Jobs \cup {None}
             /\ job'[b] # None /\ job'[b].stage = "recovery" => job'[b].retries < MaxRetries
             /\ book'[b] # None /\ book'[b].status = "failed_retry_later" =>
                    job'[b] # None /\ job'[b].stage # "manual" /\ job'[b].retries < MaxRetries
  <2>1. /\ job[b] \in Jobs \cup {None}
        /\ Stage(b) = "recovery" => job[b].retries < MaxRetries
    BY DEF IInv, TypeOK, JobsUsable
  <2>2. CASE Promoted(b)
    <3>1. book'[b] \in Rows /\ book'[b].status = "active"
      <4>1. book[b] \in Rows /\ book'[b] = [book[b] EXCEPT !.status = "active", !.managed = TRUE]
        BY <2>2 DEF Restart, Promoted, Stale, IInv, TypeOK
      <4> QED BY <4>1 DEF Rows, Statuses
    <3>2. CASE ~Unfinished(b)
      <4>1. job'[b] = job[b]
        BY <2>2, <3>2 DEF Restart, Interrupted
      <4> QED BY <2>1, <3>1, <4>1 DEF Stage
    <3>3. CASE Unfinished(b)
      <4>1. /\ job[b] \in Jobs
            /\ job'[b] = [job[b] EXCEPT !.done = TRUE, !.retries = 0, !.error = FALSE]
        BY <2>1, <2>2, <3>3 DEF Restart, Unfinished
      <4>2. job'[b] \in Jobs /\ job'[b] # None /\ job'[b].retries = 0
        BY <4>1, JobCloses
      <4> QED BY <3>1, <4>2, Limit
    <3> QED BY <3>2, <3>3
  <2>3. CASE ~Promoted(b) /\ Interrupted(b)
    <3>1. /\ RetriesAfter(b) \in 0 .. MaxRetries /\ RetriesAfter(b) \in Nat
          /\ ~NeedsReview(b) => RetriesAfter(b) < MaxRetries
          /\ Stage(b) \in {"none", "recovery", "manual"}
          /\ Stage(b) # "none" => job[b].ident \in Pairs \cup {None}
          /\ job[b] # None => job[b].done \in BOOLEAN
      <4>1. job[b] # None => /\ job[b].retries \in 0 .. MaxRetries /\ job[b].retries \in Nat
                             /\ job[b].stage \in {"none", "recovery", "manual"}
                             /\ job[b].ident \in Pairs \cup {None} /\ job[b].done \in BOOLEAN
        BY <2>1, JobParts
      <4> QED BY <2>1, <4>1, Limit DEF RetriesAfter, NeedsReview, Stage
    <3>2. job'[b] =
            [retries |-> RetriesAfter(b),
             done |-> IF job[b] = None THEN FALSE ELSE job[b].done,
             error |-> TRUE,
             stage |-> IF NeedsReview(b) THEN "manual" ELSE Stage(b),
             ident |-> IF Stage(b) = "none" THEN None ELSE job[b].ident]
      BY <2>3 DEF Restart
    <3>3. job'[b] \in Jobs
      <4>1. /\ (IF job[b] = None THEN FALSE ELSE job[b].done) \in BOOLEAN
            /\ (IF NeedsReview(b) THEN "manual" ELSE Stage(b)) \in {"none", "recovery", "manual"}
            /\ (IF Stage(b) = "none" THEN None ELSE job[b].ident) \in Pairs \cup {None}
        BY <3>1
      <4>2. PICK d \in BOOLEAN, s \in {"none", "recovery", "manual"}, i \in Pairs \cup {None} :
              job'[b] = [retries |-> RetriesAfter(b), done |-> d, error |-> TRUE,
                         stage |-> s, ident |-> i]
        BY <3>2, <4>1
      <4> QED BY <3>1, <4>2 DEF Jobs
    <3>4. /\ job'[b].retries = RetriesAfter(b)
          /\ job'[b].stage = IF NeedsReview(b) THEN "manual" ELSE Stage(b)
      BY <3>2
    <3>5. NeedsReview(b) => book'[b] # None /\ book'[b].status = "failed_permanent"
      <4>1. book[b] \in Rows
        BY <2>3 DEF Interrupted, Stale, IInv, TypeOK
      <4>2. NeedsReview(b) => book'[b] = [book[b] EXCEPT !.status = "failed_permanent"]
        BY <2>3 DEF Restart
      <4> QED BY <4>1, <4>2, RowStatus DEF Statuses
    <3>6. Stage(b) = "manual" => NeedsReview(b)
      BY DEF NeedsReview
    <3> QED BY <3>1, <3>3, <3>4, <3>5, <3>6, NoneApart
  <2>4. CASE ~Promoted(b) /\ ~Interrupted(b)
    <3>1. job'[b] = job[b] /\ book'[b] = book[b]
      BY <2>4 DEF Restart
    <3> QED BY <2>1, <3>1 DEF IInv, FailedCanRetry, Stage
  <2> QED BY <2>2, <2>3, <2>4
<1>4. book' \in [Books -> Rows \cup {None}] /\ job' \in [Books -> Jobs \cup {None}]
  BY <1>2, <1>3 DEF Restart
<1>5. TypeOK'
  BY <1>1, <1>4 DEF IInv, TypeOK
<1>6. (Alone /\ JobsUsable)'
  BY <1>1, <1>3 DEF Alone, JobsUsable, Stage
<1>7. (Copies /\ RowKept /\ MapReady /\ CancelMeansDelete /\ Recovering)'
  BY <1>1 DEF Copies, RowKept, MapReady, CancelMeansDelete, Recovering
<1>8. (ProcessingIsWorkedOn /\ FailedCanRetry /\ ActiveHasMap)'
  BY <1>1, <1>2, <1>3 DEF IInv, ProcessingIsWorkedOn, FailedCanRetry, ActiveHasMap
<1> QED BY <1>5, <1>6, <1>7, <1>8 DEF IInv

\* Books are not there, or new, or have their map.
LEMMA InitIInv == Init => IInv
<1> SUFFICES ASSUME Init PROVE IInv
  OBVIOUS
<1>1. PICK st \in Starts :
        /\ book \in [Books -> {r \in NewRows : r.pair = st.pair} \cup {None}]
        /\ left = st.left
  BY DEF Init
<1>2. ASSUME NEW b \in Books
      PROVE  /\ book[b] \in Rows \cup {None}
             /\ book[b] # None => book[b].status \in {"pending", "active"}
             /\ book[b] # None /\ book[b].status = "active" => map[b] # None
             /\ map[b] \in Pairs \cup {None}
             /\ job[b] \in Jobs \cup {None} /\ Stage(b) = "none"
  <2>1. book[b] \in NewRows \cup {None}
    BY <1>1
  <2>2. book[b] # None =>
          book[b] \in Rows /\ book[b].status \in {"pending", "active"}
    BY <2>1 DEF NewRows, Rows, Statuses
  <2>3. /\ map[b] = IF Aligned(b) THEN book[b].pair ELSE None
        /\ job[b] = IF Aligned(b) THEN DoneJob ELSE None
    BY DEF Init
  <2>4. Aligned(b) <=> book[b] # None /\ book[b].status = "active"
    BY DEF Aligned
  <2>5. Aligned(b) => book[b].pair \in Pairs /\ book[b].pair # None
    BY <2>2, <2>4, RowFields, NoneApart
  <2> QED BY <2>2, <2>3, <2>4, <2>5, JobIsDone DEF Stage
<1>3. /\ tick = None /\ worker = None /\ deleting = {} /\ cycle = [b \in Books |-> None]
      /\ asked = [b \in Books |-> "no"] /\ left \in [Ops -> Nat]
  BY <1>1, JobsAssumption DEF Init
<1>4. /\ book \in [Books -> Rows \cup {None}] /\ map \in [Books -> Pairs \cup {None}]
      /\ job \in [Books -> Jobs \cup {None}]
  BY <1>1, <1>2 DEF Init
<1>5. TypeOK
  BY <1>3, <1>4 DEF TypeOK
<1>6. /\ Alone /\ JobsUsable /\ Copies /\ RowKept /\ MapReady /\ CancelMeansDelete
      /\ Recovering
  BY <1>2, <1>3
  DEF Alone, JobsUsable, Copies, RowKept, MapReady, CancelMeansDelete, Recovering,
      Ticking, Live
<1>7. ProcessingIsWorkedOn /\ FailedCanRetry /\ ActiveHasMap
  BY <1>2 DEF ProcessingIsWorkedOn, FailedCanRetry, ActiveHasMap
<1> QED BY <1>5, <1>6, <1>7 DEF IInv

-----------------------------------------------------------------------------
(* The theorems *)

\* The invariant is about the state alone.
LEMMA StutterStep == ASSUME IInv, UNCHANGED vars PROVE IInv'
<1>1. /\ book' = book /\ map' = map /\ job' = job /\ tick' = tick /\ worker' = worker
      /\ cycle' = cycle /\ deleting' = deleting /\ asked' = asked /\ left' = left
  BY DEF vars
<1> QED BY <1>1
  DEF IInv, TypeOK, Alone, JobsUsable, Copies, RowKept, MapReady, CancelMeansDelete,
      Recovering, ProcessingIsWorkedOn, FailedCanRetry, ActiveHasMap, Ticking, Live, Stage

\* Every step preserves the invariant.
LEMMA NextIInv == IInv /\ [Next]_vars => IInv'
<1> SUFFICES ASSUME IInv, [Next]_vars PROVE IInv'
  OBVIOUS
<1>1. CASE Scheduler
  BY <1>1, TickBeginStep, TickSelectStep, TickClaimStep, TickJobStep, TickLaunchStep
  DEF Scheduler
<1>2. CASE Worker
  BY <1>2, BatchStep, BeginsStep, WorksStep, StoresStep, FinishesStep, PersistsStep,
     ClosesStep, RecoversStep, PublishesStep, FailsStep, FailedStep
  DEF Worker
<1>3. CASE Cycle
  BY <1>3, CycleReadsStep, PromotesStep DEF Cycle
<1>4. CASE Web
  BY <1>4, AddBookStep, RematchStep, RemapStep, ClearStep, CancelStep, DeleteStep DEF Web
<1>5. CASE Restart
  BY <1>5, RestartStep
<1>6. CASE UNCHANGED vars
  BY <1>6, StutterStep
<1> QED BY <1>1, <1>2, <1>3, <1>4, <1>5, <1>6 DEF Next

\* The invariant holds in every reachable state.
THEOREM Inductive == Spec => []IInv
  BY InitIInv, NextIInv, PTL DEF Spec

\* The tables and the threads keep their shape.
THEOREM TypeCorrect == Spec => []TypeOK
<1>1. IInv => TypeOK
  BY DEF IInv
<1> QED BY <1>1, Inductive, PTL

\* Whoever interleaves and whenever the process dies, no book is left in
\* processing with nobody to finish it.
THEOREM ProcessingWorked == Spec => []ProcessingIsWorkedOn
<1>1. IInv => ProcessingIsWorkedOn
  BY DEF IInv
<1> QED BY <1>1, Inductive, PTL

\* A book marked for a retry always has a job row that allows one.
THEOREM FailuresRetry == Spec => []FailedCanRetry
<1>1. IInv => FailedCanRetry
  BY DEF IInv
<1> QED BY <1>1, Inductive, PTL

\* No interruption, cancellation or repair makes a book active without a map.
THEOREM ActiveMapped == Spec => []ActiveHasMap
<1>1. IInv => ActiveHasMap
  BY DEF IInv
<1> QED BY <1>1, Inductive, PTL

\* Only AddBook writes a row where there is none, and it uses up its budget.
LEMMA NoRowAppears ==
    ASSUME IInv, [Next]_vars, NEW b \in Books, book[b] = None, book'[b] # None
    PROVE  left'["add"] < left["add"]
<1> USE DEF IInv, TypeOK
<1>1. CASE UNCHANGED vars
  BY <1>1 DEF vars
<1>2. CASE Scheduler
  <2>1. CASE TickBegin
    BY <2>1 DEF TickBegin, Damaged
  <2>2. CASE TickSelect
    BY <2>2 DEF TickSelect, Pending
  <2>3. CASE TickClaim
    BY <2>3 DEF TickClaim
  <2> QED BY <1>2, <2>1, <2>2, <2>3 DEF Scheduler, TickJob, TickLaunch
<1>3. CASE Worker
  <2>1. CASE BatchNext
    BY <2>1 DEF BatchNext, Pending
  <2>2. CASE WorkerWorks
    BY <2>2 DEF WorkerWorks, Stopped
  <2>3. CASE WorkerPersists
    BY <2>3 DEF WorkerPersists
  <2>4. CASE WorkerPublishes
    BY <2>4 DEF WorkerPublishes, Unchanged, Matches
  <2>5. CASE WorkerFailed
    BY <2>5 DEF WorkerFailed
  <2> QED BY <1>3, <2>1, <2>2, <2>3, <2>4, <2>5
          DEF Worker, WorkerBegins, WorkerStores, WorkerFinishes, WorkerCloses,
              WorkerRecovers, WorkerFails
<1>4. CASE Cycle
  BY <1>4 DEF Cycle, CycleReads, CyclePromotes
<1>5. ASSUME NEW c \in Books, NEW p \in Pairs, AddBook(c, p)
      PROVE  left'["add"] < left["add"]
  BY <1>5, Spends DEF AddBook, Ops
<1>6. ASSUME NEW c \in Books,
             \/ \E p \in Pairs : Rematch(c, p)
             \/ Remap(c) \/ ClearProgress(c) \/ CancelForDelete(c) \/ DeleteBook(c)
      PROVE  FALSE
  BY <1>6 DEF Rematch, Remap, ClearProgress, CancelForDelete, DeleteBook
<1>7. CASE Restart
  BY <1>7 DEF Restart, Promoted, Interrupted, Stale
<1> QED BY <1>1, <1>2, <1>3, <1>4, <1>5, <1>6, <1>7 DEF Next, Web

\* A deleted mapping comes back only when a user adds it again: no tick, worker,
\* sync cycle or restart writes the copy it holds over nothing.
THEOREM GhostFree == Spec => NoGhost
<1>1. IInv /\ [Next]_vars =>
        [\A b \in Books : book[b] = None /\ book'[b] # None => left'["add"] < left["add"]]_vars
  BY NoRowAppears
<1> QED BY <1>1, Inductive, PTL DEF Spec, NoGhost

-----------------------------------------------------------------------------
(* A recovery publishes only what it proved *)

\* No rebuild is asked for and waiting on a book taken up and not yet worked on.
Answered ==
    \A b \in Books :
        /\ book[b] # None /\ book[b].status = "processing"
        /\ \/ Ticking /\ tick.b = b
           \/ Live /\ worker.b = b /\ worker.pc \in {"begin", "recover", "publish"}
        => asked[b] # "asked"

\* The job a recovery holds was made for the pairing it works on.
ProvenForCopy ==
    Live /\ worker.pc = "publish" =>
        worker.job # None /\ worker.job.ident = worker.copy.pair

\* Nobody has just taken up a book: nothing to show.
LEMMA NobodyRecovers ==
    ASSUME ~Ticking', Live' => worker'.pc \notin {"begin", "recover", "publish"}
    PROVE  Answered' /\ ProvenForCopy'
  BY DEF Answered, ProvenForCopy

\* The worker only starts a recovery from a row just claimed.
LEMMA WorkerRecovery ==
    ASSUME IInv, Answered, ProvenForCopy, Worker
    PROVE  Answered' /\ ProvenForCopy'
<1>1. tick = None /\ tick' = None /\ ~Ticking'
  <2>1. worker # None /\ tick' = tick
    BY DEF Worker, At, BatchNext, WorkerBegins, WorkerWorks, WorkerStores, WorkerFinishes,
           WorkerPersists, WorkerCloses, WorkerRecovers, WorkerPublishes, WorkerFails,
           WorkerFailed
  <2> QED BY <2>1 DEF IInv, Alone, Ticking
<1>2. ASSUME Live, Ends PROVE ~Live'
  BY <1>2, InHand, Ended DEF IInv
<1>3. ASSUME Live, NEW pc \in Pcs, GoesTo(pc)
      PROVE  worker'.pc = pc /\ worker'.b = worker.b /\ worker'.copy = worker.copy
  BY <1>3, InHand, WorkerMoves DEF IInv, GoesTo
<1>4. ASSUME Live, NEW refused \in BOOLEAN, Raises(refused)
      PROVE  worker'.pc = "fail"
  BY <1>4, InHand, RaisesFields DEF IInv, Raises
<1>5. CASE BatchNext
  <2>1. worker \in Batches
    BY <1>5, InHand DEF BatchNext, At, IInv
  <2>2. ASSUME NEW b \in worker.todo, b \in Pending,
               worker' = Start(b, [book[b] EXCEPT !.status = "processing"], worker.todo \ {b}),
               Serving(b, [book[b] EXCEPT !.status = "processing"])
        PROVE  Answered' /\ ProvenForCopy'
    <3>1. worker'.b = b /\ worker'.pc = "begin" /\ b \in Books
      BY <2>2 DEF Start, Pending
    <3>2. asked'[b] # "asked"
      BY <2>2, <3>1 DEF Serving, IInv, TypeOK
    <3> QED BY <1>1, <3>1, <3>2 DEF Answered, ProvenForCopy
  <2>3. ASSUME NEW b \in worker.todo,
               worker' = IF worker.todo \ {b} = {} THEN None ELSE Batch(worker.todo \ {b})
        PROVE  Answered' /\ ProvenForCopy'
    BY <1>1, <2>3, NobodyRecovers DEF Live, Batch
  <2> QED BY <1>5, <2>2, <2>3 DEF BatchNext
<1>6. CASE WorkerBegins
  <2>1. Live /\ worker.pc = "begin" /\ UNCHANGED <<book, asked>>
    BY <1>6 DEF WorkerBegins, At, Live
  <2>2. CASE Ends
    BY <1>1, <1>2, <2>1, <2>2, NobodyRecovers
  <2>3. ASSUME NEW pc \in {"recover", "work"}, GoesTo(pc)
        PROVE  Answered' /\ ProvenForCopy'
    BY <1>1, <1>3, <2>1, <2>3 DEF Answered, ProvenForCopy, Pcs
  <2> QED BY <1>6, <2>2, <2>3 DEF WorkerBegins
<1>7. CASE WorkerWorks
  BY <1>1, <1>2, <1>3, <1>4, <1>7, NobodyRecovers DEF WorkerWorks, At, Live, Pcs
<1>8. CASE WorkerStores
  BY <1>1, <1>3, <1>4, <1>8, NobodyRecovers DEF WorkerStores, At, Live, Pcs
<1>9. CASE WorkerFinishes
  BY <1>1, <1>2, <1>3, <1>4, <1>9, NobodyRecovers DEF WorkerFinishes, At, Live, Pcs
<1>10. CASE WorkerPersists
  BY <1>1, <1>2, <1>3, <1>10, NobodyRecovers DEF WorkerPersists, At, Live, Pcs
<1>11. CASE WorkerCloses
  BY <1>1, <1>2, <1>11, NobodyRecovers DEF WorkerCloses, At, Live
<1>12. CASE WorkerRecovers
  <2>1. Live /\ worker.pc = "recover" /\ UNCHANGED <<book, asked>> /\ worker \in Workers
    BY <1>12, InHand DEF WorkerRecovers, At, Live, IInv
  <2>2. CASE Ends
    BY <1>1, <1>2, <2>1, <2>2, NobodyRecovers
  <2>3. CASE \E refused \in BOOLEAN : Raises(refused)
    BY <1>1, <1>4, <2>1, <2>3, NobodyRecovers
  <2>4. ASSUME job[worker.b] # None, job[worker.b].ident = worker.copy.pair,
               worker' = [worker EXCEPT !.pc = "publish", !.job = job[worker.b],
                                        !.map = map[worker.b]]
        PROVE  Answered' /\ ProvenForCopy'
    <3>1. /\ worker'.b = worker.b /\ worker'.copy = worker.copy
          /\ worker'.job = job[worker.b]
      BY <2>1, <2>4 DEF Workers
    <3> QED BY <1>1, <2>1, <2>4, <3>1 DEF Answered, ProvenForCopy
  <2> QED BY <1>12, <2>2, <2>3, <2>4 DEF WorkerRecovers
<1>13. CASE WorkerPublishes
  BY <1>1, <1>2, <1>4, <1>13, NobodyRecovers DEF WorkerPublishes, At, Live
<1>14. CASE WorkerFails
  <2>1. Live /\ worker \in Workers
    BY <1>14, InHand DEF WorkerFails, At, Live, IInv
  <2>2. CASE Ends
    BY <1>1, <1>2, <2>1, <2>2, NobodyRecovers
  <2>3. ASSUME NEW s, worker' = [worker EXCEPT !.pc = "failed", !.copy.status = s]
        PROVE  Answered' /\ ProvenForCopy'
    <3>1. worker'.pc = "failed"
      BY <2>1, <2>3 DEF Workers
    <3> QED BY <1>1, <3>1, NobodyRecovers
  <2> QED BY <1>14, <2>2, <2>3 DEF WorkerFails
<1>15. CASE WorkerFailed
  BY <1>1, <1>2, <1>15, NobodyRecovers DEF WorkerFailed, At, Live
<1> QED BY <1>5, <1>6, <1>7, <1>8, <1>9, <1>10, <1>11, <1>12, <1>13, <1>14, <1>15
        DEF Worker

\* Claiming a book answers what was asked of it.
LEMMA SchedulerRecovery ==
    ASSUME IInv, Answered, ProvenForCopy, Scheduler
    PROVE  Answered' /\ ProvenForCopy'
<1>1. CASE TickBegin
  BY <1>1, NobodyRecovers DEF TickBegin, Live, Ticking
<1>2. CASE TickSelect
  BY <1>2, NobodyRecovers DEF TickSelect, Select, Batch, IInv, Alone, Live, Ticking
<1>3. CASE TickClaim
  <2>1. /\ tick \in Ticks /\ worker' = None /\ tick.b \in Books
    BY <1>3, InHand, TickFields DEF TickClaim, IInv
  <2>2. CASE tick' = None
    BY <2>1, <2>2, NobodyRecovers DEF Ticking, Live
  <2>3. ASSUME NEW claimed, tick' = [tick EXCEPT !.pc = "job", !.copy = claimed],
               Serving(tick.b, claimed)
        PROVE  Answered' /\ ProvenForCopy'
    <3>1. tick'.b = tick.b /\ asked'[tick.b] # "asked"
      BY <2>1, <2>3 DEF Ticks, Serving, IInv, TypeOK
    <3> QED BY <2>1, <3>1 DEF Answered, ProvenForCopy, Live
  <2> QED BY <1>3, <2>2, <2>3 DEF TickClaim
<1>4. CASE TickJob
  <2>1. /\ tick \in Ticks /\ worker' = None /\ Ticking /\ UNCHANGED <<book, asked>>
    BY <1>4, InHand DEF TickJob, IInv, Ticking
  <2>2. tick'.b = tick.b
    BY <1>4, <2>1 DEF TickJob, Ticks
  <2> QED BY <2>1, <2>2 DEF Answered, ProvenForCopy, Live
<1>5. CASE TickLaunch
  BY <1>5 DEF TickLaunch, Start, Answered, ProvenForCopy, Ticking
<1> QED BY <1>1, <1>2, <1>3, <1>4, <1>5 DEF Scheduler

\* A cycle or a web request writes rows that are not processing, or none, or
\* leaves a processing one its status and its pairing.
LEMMA OthersRecovery ==
    ASSUME IInv, Answered, ProvenForCopy, Cycle \/ Web
    PROVE  Answered' /\ ProvenForCopy'
<1> DEFINE Same(b) == /\ book[b] # None /\ book[b].status = "processing"
                      /\ asked'[b] = asked[b]
<1>1. /\ tick' = tick
      /\ \/ worker' = worker
         \/ worker # None /\ worker.b \in Books /\ worker' = [worker EXCEPT !.cancelled = TRUE]
  BY DEF Cycle, Web, CycleReads, CyclePromotes, AddBook, Rematch, Remap, ClearProgress,
         CancelForDelete, DeleteBook
<1>2. Live' => /\ Live /\ worker'.b = worker.b /\ worker'.pc = worker.pc
               /\ worker'.copy = worker.copy /\ worker'.job = worker.job
  <2>1. CASE worker' = worker
    BY <2>1 DEF Live
  <2>2. ASSUME worker # None, worker.b \in Books, worker' = [worker EXCEPT !.cancelled = TRUE]
        PROVE  /\ Live /\ worker'.b = worker.b /\ worker'.pc = worker.pc
               /\ worker'.copy = worker.copy /\ worker'.job = worker.job
    <3>1. worker \in Workers
      BY <2>2, NoneApart DEF IInv, TypeOK, Batches
    <3>2. /\ worker'.b = worker.b /\ worker'.pc = worker.pc
          /\ worker'.copy = worker.copy /\ worker'.job = worker.job
      BY <2>2, <3>1 DEF Workers
    <3> QED BY <2>2, <3>1, <3>2, WorkerParts DEF Live, Pcs
  <2> QED BY <1>1, <2>1, <2>2
<1>3. ASSUME NEW b \in Books, book'[b] # None, book'[b].status = "processing"
      PROVE  Same(b)
  <2>1. /\ book \in [Books -> Rows \cup {None}]
        /\ asked \in [Books -> {"no", "asked", "serving", "lost"}]
    BY DEF IInv, TypeOK
  <2>2. CASE CycleReads
    BY <1>3, <2>2 DEF CycleReads
  <2>3. ASSUME NEW c \in Books, CyclePromotes(c)
        PROVE  Same(b)
    <3>1. cycle[c] \in Rows /\ cycle[c].status = "active"
      BY <2>3 DEF CyclePromotes, IInv, TypeOK, Copies
    <3>2. [cycle[c] EXCEPT !.managed = TRUE].status = "active"
      BY <3>1 DEF Rows
    <3>3. /\ asked' = asked
          /\ book' \in {book, [book EXCEPT ![c] = [cycle[c] EXCEPT !.managed = TRUE]]}
      BY <2>3 DEF CyclePromotes
    <3> QED BY <1>3, <2>1, <3>2, <3>3
  <2>4. ASSUME NEW c \in Books, NEW p \in Pairs, AddBook(c, p)
        PROVE  Same(b)
    BY <1>3, <2>1, <2>4 DEF AddBook
  <2>5. ASSUME NEW c \in Books, NEW p \in Pairs, Rematch(c, p)
        PROVE  Same(b)
    <3>1. book[c] \in Rows
      BY <2>1, <2>5 DEF Rematch
    <3>2. PICK r \in Rows :
            /\ book' = [book EXCEPT ![c] = r]
            /\ \/ r.status = book[c].status /\ p = book[c].pair
               \/ r.status \in {"active", "pending"}
      BY <2>5, RematchWrites
    <3>3. book'[c] = r /\ (b # c => book'[b] = book[b])
      BY <2>1, <3>2
    <3>4. asked' = [asked EXCEPT ![c] = IF p # book[c].pair THEN "asked" ELSE @]
      BY <2>5 DEF Rematch
    <3>5. CASE b # c
      BY <1>3, <2>1, <3>3, <3>4, <3>5
    <3>6. CASE b = c
      <4>1. book[c] # None /\ book[c].status = "processing" /\ p = book[c].pair
        BY <1>3, <3>1, <3>2, <3>3, <3>6, NoneApart
      <4> QED BY <2>1, <3>4, <3>6, <4>1
    <3> QED BY <3>5, <3>6
  <2>6. ASSUME NEW c \in Books, Remap(c)
        PROVE  Same(b)
    <3>1. book[c] \in Rows
      BY <2>1, <2>6 DEF Remap
    <3>2. book'[c].status = "pending" /\ (b # c => book'[b] = book[b])
      BY <2>1, <2>6, <3>1 DEF Remap, Rows
    <3> QED BY <1>3, <2>1, <2>6, <3>2 DEF Remap
  <2>7. ASSUME NEW c \in Books, ClearProgress(c)
        PROVE  Same(b)
    <3>1. book[c] \in Rows
      BY <2>1, <2>7 DEF ClearProgress
    <3>2. book'[c].status \in {"active", "pending"} /\ (b # c => book'[b] = book[b])
      BY <2>1, <2>7, <3>1 DEF ClearProgress, Rows
    <3> QED BY <1>3, <2>1, <2>7, <3>2 DEF ClearProgress
  <2>8. ASSUME NEW c \in Books, CancelForDelete(c) \/ DeleteBook(c)
        PROVE  Same(b)
    BY <1>3, <2>1, <2>8 DEF CancelForDelete, DeleteBook
  <2> QED BY <2>2, <2>3, <2>4, <2>5, <2>6, <2>7, <2>8 DEF Cycle, Web
<1> QED BY <1>1, <1>2, <1>3 DEF Answered, ProvenForCopy, Ticking

\* Every step keeps what a recovery relies on.
LEMMA NextRecovery ==
    IInv /\ Answered /\ ProvenForCopy /\ [Next]_vars => Answered' /\ ProvenForCopy'
<1> SUFFICES ASSUME IInv, Answered, ProvenForCopy, [Next]_vars
             PROVE  Answered' /\ ProvenForCopy'
  OBVIOUS
<1>1. CASE Restart
  BY <1>1, NobodyRecovers DEF Restart, Live, Ticking
<1>2. CASE UNCHANGED vars
  BY <1>2 DEF vars, Answered, ProvenForCopy, Live, Ticking
<1> QED BY <1>1, <1>2, SchedulerRecovery, WorkerRecovery, OthersRecovery DEF Next

\* When the worker about to publish a recovery lets go of it, by publishing, by
\* giving up or by being killed, the row it may change is one nobody asked
\* anything of and still has the pairing that was proved.
LEMMA RecoveryStep ==
    ASSUME IInv, Answered, ProvenForCopy, [Next]_vars, NEW b \in Books,
           At("publish"), worker.b = b, worker' # worker, book'[b] # book[b]
    PROVE  book'[b] = None \/ (asked[b] # "asked" /\ book[b].pair = job[b].ident)
<1>1. /\ Live /\ worker.pc = "publish" /\ tick = None /\ worker \in Workers
  BY InHand DEF At, Live, IInv
<1>2. ASSUME book[b] # None, book[b].status = "processing"
      PROVE  asked[b] # "asked" /\ book[b].pair = job[b].ident
  BY <1>1, <1>2 DEF Answered, ProvenForCopy, IInv, RowKept, Recovering
<1>3. book[b] # None => book[b].status # "failed_retry_later"
  BY <1>1 DEF IInv, RowKept
<1>4. CASE Restart
  BY <1>2, <1>3, <1>4 DEF Restart, Promoted, Interrupted, Stale
<1>5. CASE WorkerPublishes
  <2>1. Matches(b, worker.copy)
    BY <1>5 DEF WorkerPublishes, Unchanged
  <2>2. worker.copy.status = "processing"
    BY <1>1 DEF IInv, Copies
  <2> QED BY <1>2, <2>1, <2>2 DEF Matches
<1>6. CASE UNCHANGED vars
  BY <1>6 DEF vars
<1>7. ~Scheduler
  BY <1>1 DEF Scheduler, TickBegin, TickSelect, TickClaim, TickJob, TickLaunch, IInv, Alone
<1>8. ~(BatchNext \/ WorkerBegins \/ WorkerWorks \/ WorkerStores \/ WorkerFinishes
          \/ WorkerPersists \/ WorkerCloses \/ WorkerRecovers \/ WorkerFails \/ WorkerFailed)
  BY <1>1 DEF At, BatchNext, WorkerBegins, WorkerWorks, WorkerStores, WorkerFinishes,
              WorkerPersists, WorkerCloses, WorkerRecovers, WorkerFails, WorkerFailed
<1>9. ~Cycle
  BY DEF Cycle, CycleReads, CyclePromotes
<1>10. ~Web
  BY DEF Web, AddBook, Rematch, Remap, ClearProgress, CancelForDelete, DeleteBook
<1> QED BY <1>4, <1>5, <1>6, <1>7, <1>8, <1>9, <1>10 DEF Next, Worker

\* A recovery publishes for the pairing its proof was made for, and never over
\* a request made while it computed.
THEOREM RecoveryIsCareful == Spec => RecoveryYields
<1>1. Init => Answered /\ ProvenForCopy
  BY DEF Init, Answered, ProvenForCopy, Ticking, Live
<1>2. Spec => [](Answered /\ ProvenForCopy)
  BY <1>1, NextRecovery, Inductive, PTL DEF Spec
<1>3. IInv /\ Answered /\ ProvenForCopy /\ [Next]_vars =>
        [\A b \in Books :
           At("publish") /\ worker.b = b /\ worker' # worker /\ book'[b] # book[b]
             => \/ book'[b] = None
                \/ asked[b] # "asked" /\ book[b].pair = job[b].ident]_vars
  BY RecoveryStep
<1> QED BY <1>2, <1>3, Inductive, PTL DEF Spec, RecoveryYields
=============================================================================

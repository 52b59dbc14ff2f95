---------------------------- MODULE SyncScheduler ----------------------------
(***************************************************************************)
(* The threads that run sync cycles and the lock, the replay queue and the *)
(* replay worker they share (SyncManager.sync_cycle and its callers).      *)
(*                                                                         *)
(* A caller thread (a web request, the ABS socket, the client poller, the  *)
(* KoSync debounce loop, a tracker timer) asks for one book of one user    *)
(* and waits up to ten seconds for the sync lock; when that times out its  *)
(* request goes to a pending set, which the next cycle to finish hands to  *)
(* a replay worker.  The daemon thread runs full rounds and session        *)
(* rounds over the users and skips a user when the lock is taken.          *)
(* clear_progress takes the same lock and waits for it without limit.      *)
(***************************************************************************)
EXTENDS FiniteSets

CONSTANTS
    Users,      \* accounts
    NoUser,     \* a request of the default, single-user scope (user_id None)
    Books,      \* target_abs_id values
    Callers,    \* threads that ask for an instant sync
    Workers,    \* the replay threads that could ever be alive at once
    Clearers,   \* web threads in clear_progress
    Daemon,     \* the scheduler thread
    NoThread, NoReq

Requests == (Users \union {NoUser}) \X Books
Threads  == Callers \union Workers \union Clearers \union {Daemon}

ASSUME ThreadsAssumption ==
    /\ Callers \intersect Workers = {}
    /\ Callers \intersect Clearers = {}
    /\ Workers \intersect Clearers = {}
    /\ Daemon \notin Callers \union Workers \union Clearers
    /\ NoThread \notin Threads
ASSUME RequestsAssumption == NoReq \notin Requests /\ NoUser \notin Users

VARIABLES
    canSync,  \* [Users -> BOOLEAN]: the account is active and its clients build
    lock,     \* the thread that holds _sync_lock
    pc,       \* where each thread is
    req,      \* the request a caller or a worker is serving
    pending,  \* _pending_sync_books
    flag,     \* _replay_worker_running
    batch,    \* what each replay worker still has to run
    todo      \* the users the daemon's round still has to visit

vars == <<canSync, lock, pc, req, pending, flag, batch, todo>>

\* "waiting":  blocked in _sync_lock.acquire
\* "timedout": the acquire failed and the request is not queued yet
\* "cycle":    in a cycle, with the lock
\* "released": after _sync_lock.release(), before _dispatch_pending_syncs()
\* "held":     holding the lock outside a cycle (clear_progress, the session
\*             maintenance of the daemon)
\* "working":  a replay worker, or the daemon in a round, between two cycles
States == {"idle", "waiting", "timedout", "cycle", "released", "held", "working"}

MaySync(u) == u \in Users => canSync[u]

Init ==
    /\ canSync \in [Users -> BOOLEAN]
    /\ lock = NoThread
    /\ pc = [t \in Threads |-> "idle"]
    /\ req = [t \in Threads |-> NoReq]
    /\ pending = {}
    /\ flag = FALSE
    /\ batch = [w \in Workers |-> {}]
    /\ todo = {}

Goto(t, s) == pc' = [pc EXCEPT ![t] = s]

-----------------------------------------------------------------------------
(* sync_cycle with a target: callers, and the worker for what was queued. *)

\* A caller enters sync_cycle; a user who may not sync is turned away at once.
RequestSync(c, r) ==
    /\ pc[c] = "idle"
    /\ MaySync(r[1])
    /\ Goto(c, "waiting")
    /\ req' = [req EXCEPT ![c] = r]
    /\ UNCHANGED <<canSync, lock, pending, flag, batch, todo>>

AcquireForTarget(t) ==
    /\ pc[t] = "waiting"
    /\ lock = NoThread
    /\ lock' = t
    /\ Goto(t, "cycle")
    /\ UNCHANGED <<canSync, req, pending, flag, batch, todo>>

LockTimeout(t) ==
    /\ pc[t] = "waiting"
    /\ lock # NoThread
    /\ Goto(t, "timedout")
    /\ UNCHANGED <<canSync, lock, req, pending, flag, batch, todo>>

\* Where a thread goes when its sync_cycle returns.
Continuation(t) == IF t \in Workers \union {Daemon} THEN "working" ELSE "idle"

\* Mutant: the request is forgotten before it is queued.
QueueForgotten(t) ==
    /\ pc[t] = "timedout"
    /\ pending' = pending \union {NoReq}
    /\ req' = [req EXCEPT ![t] = NoReq]
    /\ Goto(t, Continuation(t))
    /\ UNCHANGED <<canSync, lock, flag, batch, todo>>

\* Mutant: a request that finds the lock busy is skipped.
SkipWhenBusy(t) ==
    /\ pc[t] = "timedout"
    /\ req' = [req EXCEPT ![t] = NoReq]
    /\ Goto(t, Continuation(t))
    /\ UNCHANGED <<canSync, lock, pending, flag, batch, todo>>

QueuePendingSync(t) ==
    /\ pc[t] = "timedout"
    /\ pending' = pending \union {req[t]}
    /\ req' = [req EXCEPT ![t] = NoReq]
    /\ Goto(t, Continuation(t))
    /\ UNCHANGED <<canSync, lock, flag, batch, todo>>

\* The cycle's work is done (or raised); the finally clause releases the lock.
ReleaseCycle(t) ==
    /\ pc[t] = "cycle"
    /\ lock' = NoThread
    /\ req' = [req EXCEPT ![t] = NoReq]
    /\ Goto(t, "released")
    /\ UNCHANGED <<canSync, pending, flag, batch, todo>>

-----------------------------------------------------------------------------
(* _dispatch_pending_syncs and its worker thread. *)

DispatchNothing(t) ==
    /\ pc[t] = "released"
    /\ flag \/ pending = {}
    /\ Goto(t, Continuation(t))
    /\ UNCHANGED <<canSync, lock, req, pending, flag, batch, todo>>

\* Mutant: a worker is started although one is running.
DispatchAlways(t, w) ==
    /\ pc[t] = "released"
    /\ pending # {}
    /\ pc[w] = "idle"
    /\ flag' = TRUE
    /\ batch' = [batch EXCEPT ![w] = pending]
    /\ pending' = {}
    /\ pc' = [pc EXCEPT ![t] = Continuation(t), ![w] = "working"]
    /\ UNCHANGED <<canSync, lock, req, todo>>

DispatchPendingSyncs(t, w) ==
    /\ pc[t] = "released"
    /\ ~flag
    /\ pending # {}
    /\ pc[w] = "idle"
    /\ flag' = TRUE
    /\ batch' = [batch EXCEPT ![w] = pending]
    /\ pending' = {}
    /\ pc' = [pc EXCEPT ![t] = Continuation(t), ![w] = "working"]
    /\ UNCHANGED <<canSync, lock, req, todo>>

\* The worker replays one request of its batch through sync_cycle.
ReplayNext(w, r) ==
    /\ pc[w] = "working"
    /\ r \in batch[w]
    /\ batch' = [batch EXCEPT ![w] = @ \ {r}]
    /\ IF MaySync(r[1])
       THEN Goto(w, "waiting") /\ req' = [req EXCEPT ![w] = r]
       ELSE UNCHANGED <<pc, req>>
    /\ UNCHANGED <<canSync, lock, pending, flag, todo>>

\* Mutant: the worker ends with its flag still set.
ExitWithFlag(w) ==
    /\ pc[w] = "working"
    /\ batch[w] = {}
    /\ pending = {}
    /\ Goto(w, "idle")
    /\ UNCHANGED <<canSync, lock, req, pending, flag, batch, todo>>

\* The batch is used up: take what was queued meanwhile, or end the thread.
RefillOrExit(w) ==
    /\ pc[w] = "working"
    /\ batch[w] = {}
    /\ IF pending = {}
       THEN flag' = FALSE /\ Goto(w, "idle") /\ UNCHANGED <<batch, pending>>
       ELSE /\ batch' = [batch EXCEPT ![w] = pending]
            /\ pending' = {}
            /\ UNCHANGED <<flag, pc>>
    /\ UNCHANGED <<canSync, lock, req, todo>>

-----------------------------------------------------------------------------
(* The daemon: run_sync_for_all_users and flush_reading_sessions_for_all_users. *)

ActiveUsers == {u \in Users : canSync[u]}

StartFullRound ==
    /\ pc[Daemon] = "idle"
    /\ todo' = IF ActiveUsers = {} THEN {NoUser} ELSE ActiveUsers
    /\ Goto(Daemon, "working")
    /\ UNCHANGED <<canSync, lock, req, pending, flag, batch>>

\* A session round first closes and purges sessions under the lock, and is
\* given up when the lock is taken.
StartSessionRound ==
    /\ pc[Daemon] = "idle"
    /\ lock = NoThread
    /\ lock' = Daemon
    /\ Goto(Daemon, "held")
    /\ UNCHANGED <<canSync, req, pending, flag, batch, todo>>

\* Mutant: maintenance that fails leaves the lock taken.
MaintenanceLeaksLock ==
    /\ pc[Daemon] = "held"
    /\ \/ /\ lock' = NoThread
          /\ todo' = ActiveUsers
          /\ Goto(Daemon, "working")
       \/ todo' = {} /\ Goto(Daemon, "idle") /\ UNCHANGED lock
    /\ UNCHANGED <<canSync, req, pending, flag, batch>>

\* This release does not dispatch the pending set.  The maintenance may have
\* failed, and then nobody's sessions are delivered.
EndSessionMaintenance ==
    /\ pc[Daemon] = "held"
    /\ lock' = NoThread
    /\ \/ todo' = (IF Users = {} THEN {NoUser} ELSE ActiveUsers) /\ Goto(Daemon, "working")
       \/ todo' = {} /\ Goto(Daemon, "idle")
    /\ UNCHANGED <<canSync, req, pending, flag, batch>>

\* sync_cycle without a target: one non-blocking attempt at the lock.
DaemonVisit(u) ==
    /\ pc[Daemon] = "working"
    /\ u \in todo
    /\ todo' = todo \ {u}
    /\ IF MaySync(u) /\ lock = NoThread
       THEN lock' = Daemon /\ Goto(Daemon, "cycle")
       ELSE UNCHANGED <<lock, pc>>
    /\ UNCHANGED <<canSync, req, pending, flag, batch>>

EndRound ==
    /\ pc[Daemon] = "working"
    /\ todo = {}
    /\ Goto(Daemon, "idle")
    /\ UNCHANGED <<canSync, lock, req, pending, flag, batch, todo>>

-----------------------------------------------------------------------------
(* clear_progress: `with self._sync_lock`, and no dispatch on release. *)

StartClear(t) ==
    /\ pc[t] = "idle"
    /\ lock = NoThread
    /\ lock' = t
    /\ Goto(t, "held")
    /\ UNCHANGED <<canSync, req, pending, flag, batch, todo>>

EndClear(t) ==
    /\ pc[t] = "held"
    /\ lock' = NoThread
    /\ Goto(t, "idle")
    /\ UNCHANGED <<canSync, req, pending, flag, batch, todo>>

\* An administrator disables or deletes an account, or its clients break.
AccountChanges(u) ==
    /\ canSync' = [canSync EXCEPT ![u] = ~@]
    /\ UNCHANGED <<lock, pc, req, pending, flag, batch, todo>>

-----------------------------------------------------------------------------

SyncCycleStep(t) ==
    \/ AcquireForTarget(t)
    \/ LockTimeout(t)
    \/ QueuePendingSync(t)
    \/ ReleaseCycle(t)
    \/ DispatchNothing(t)
    \/ \E w \in Workers : DispatchPendingSyncs(t, w)

WorkerStep(w) == RefillOrExit(w) \/ \E r \in Requests : ReplayNext(w, r)

RoundStep ==
    EndSessionMaintenance \/ EndRound \/ \E u \in Users \union {NoUser} : DaemonVisit(u)

Next ==
    \/ \E c \in Callers, r \in Requests : RequestSync(c, r)
    \/ \E t \in Threads \ Clearers : SyncCycleStep(t)
    \/ \E w \in Workers : WorkerStep(w)
    \/ StartFullRound \/ StartSessionRound \/ RoundStep
    \/ \E t \in Clearers : StartClear(t) \/ EndClear(t)
    \/ \E u \in Users : AccountChanges(u)

Spec == Init /\ [][Next]_vars

\* Threads run; the daemon keeps starting full rounds (its schedule does, every
\* period); a waiter that keeps finding the lock free gets it.  Nothing is
\* assumed of callers, of clear_progress starting, or of accounts.
Fairness ==
    /\ \A t \in Threads \ Clearers : WF_vars(SyncCycleStep(t)) /\ SF_vars(AcquireForTarget(t))
    /\ \A w \in Workers : WF_vars(WorkerStep(w))
    /\ WF_vars(RoundStep)
    /\ SF_vars(StartFullRound)
    /\ \A t \in Clearers : WF_vars(EndClear(t))

FairSpec == Spec /\ Fairness

-----------------------------------------------------------------------------
(* Properties. *)

TypeOK ==
    /\ canSync \in [Users -> BOOLEAN]
    /\ lock \in Threads \union {NoThread}
    /\ pc \in [Threads -> States]
    /\ req \in [Threads -> Requests \union {NoReq}]
    /\ pending \in SUBSET Requests
    /\ flag \in BOOLEAN
    /\ batch \in [Workers -> SUBSET Requests]
    /\ todo \in SUBSET (Users \union {NoUser})

\* No two threads are ever between acquire and release of _sync_lock: a full
\* cycle, a targeted cycle, a replay, the session maintenance and
\* clear_progress exclude one another, and the lock never stays taken by a
\* thread that has moved on.
Holding == {"cycle", "held"}
LockDiscipline == \A t \in Threads : pc[t] \in Holding <=> lock = t

\* _replay_worker_running is set exactly while one replay worker is alive: it
\* is never left set by a worker that ended (nothing would be replayed again)
\* and no second worker starts beside a live one.
Alive(w) == pc[w] # "idle"
ReplayFlagMatchesWorker ==
    /\ flag <=> \E w \in Workers : Alive(w)
    /\ \A v, w \in Workers : Alive(v) /\ Alive(w) => v = w

\* What is still owed a cycle: requests waiting for the lock, timed out and
\* about to be queued, queued, or taken by a worker.
Wanted ==
    {req[t] : t \in {s \in Threads : pc[s] \in {"waiting", "timedout"}}}
      \union pending
      \union (UNION {batch[w] : w \in Workers})

Running == IF lock # NoThread /\ req[lock] # NoReq THEN req[lock] ELSE NoReq

\* The scheduler implements InstantRequests: no step of any thread loses a
\* request, whatever the interleaving of time-outs, releases, dispatches and
\* the worker's last look at the queue.
Abs == INSTANCE InstantRequests WITH want <- Wanted, running <- Running
KeepsItsPromise == Abs!Spec

\* Every request is eventually run, or its user may not sync; provided
\* clear_progress does not come for ever, the lock does not time the replay
\* worker out for ever, and accounts stop changing.  A request that is queued
\* just after the busy cycle looked at the queue waits for the daemon's round.
Quiet ==
    /\ \A t \in Clearers : pc[t] = "idle"
    /\ \A w \in Workers : pc[w] # "timedout"
AccountsSettle == \A u \in Users : <>[]canSync[u] \/ <>[]~canSync[u]
EveryRequestAnswered ==
    <>[]Quiet /\ AccountsSettle =>
        \A r \in Requests : r \in Wanted ~> Running = r \/ ~MaySync(r[1])

==============================================================================

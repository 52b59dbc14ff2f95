------------------------ MODULE SyncSchedulerProofs ------------------------
(***************************************************************************)
(* Proofs about SyncScheduler, for any sets of users, books and threads:   *)
(* the lock excludes, the replay flag tells the truth, and the scheduler   *)
(* implements InstantRequests.                                             *)
(***************************************************************************)
EXTENDS SyncScheduler, TLAPS

\* Which states each kind of thread can be in.
ThreadShape ==
    /\ \A c \in Callers : pc[c] \notin {"held", "working"}
    /\ \A w \in Workers : pc[w] # "held"
    /\ \A t \in Clearers : pc[t] \in {"idle", "held"}
    /\ pc[Daemon] \notin {"waiting", "timedout"}

\* A thread has a request exactly from entering a targeted sync_cycle to
\* queueing it or finishing its cycle; the daemon and clear_progress have none.
RequestShape ==
    /\ \A t \in Threads : pc[t] \in {"waiting", "timedout"} => req[t] \in Requests
    /\ \A t \in Threads : pc[t] \in {"idle", "released", "held", "working"} => req[t] = NoReq
    /\ req[Daemon] = NoReq

\* A replay thread that ended has nothing left to run.
BatchShape == \A w \in Workers : pc[w] = "idle" => batch[w] = {}

IInv == TypeOK /\ ThreadShape /\ RequestShape /\ BatchShape
          /\ LockDiscipline /\ ReplayFlagMatchesWorker

-----------------------------------------------------------------------------

LEMMA InitIInv == Init => IInv
  BY ThreadsAssumption
  DEF Init, IInv, TypeOK, ThreadShape, RequestShape, BatchShape, LockDiscipline,
      ReplayFlagMatchesWorker, Alive, Holding, States, Threads

\* One lemma for the steps of sync_cycle and its dispatch, one for the rest.
LEMMA SyncCycleStepIInv ==
  ASSUME IInv, NEW t \in Threads \ Clearers, SyncCycleStep(t)
  PROVE  IInv'
<1> USE ThreadsAssumption, RequestsAssumption
    DEF IInv, TypeOK, ThreadShape, RequestShape, BatchShape, LockDiscipline,
        ReplayFlagMatchesWorker, Alive, Holding, States, Threads, Goto, Continuation
<1>1. CASE AcquireForTarget(t)
  BY <1>1 DEF AcquireForTarget
<1>2. CASE LockTimeout(t)
  BY <1>2 DEF LockTimeout
<1>3. CASE QueuePendingSync(t)
  BY <1>3 DEF QueuePendingSync
<1>4. CASE ReleaseCycle(t)
  BY <1>4 DEF ReleaseCycle
<1>5. CASE DispatchNothing(t)
  BY <1>5 DEF DispatchNothing
<1>6. ASSUME NEW w \in Workers, DispatchPendingSyncs(t, w)
      PROVE  IInv'
  BY <1>6 DEF DispatchPendingSyncs
<1> QED BY <1>1, <1>2, <1>3, <1>4, <1>5, <1>6 DEF SyncCycleStep

LEMMA WorkerStepIInv ==
  ASSUME IInv, NEW w \in Workers, WorkerStep(w)
  PROVE  IInv'
<1> USE ThreadsAssumption, RequestsAssumption
    DEF IInv, TypeOK, ThreadShape, RequestShape, BatchShape, LockDiscipline,
        ReplayFlagMatchesWorker, Alive, Holding, States, Threads, Goto
<1>1. CASE RefillOrExit(w)
  <2>1. CASE pending = {}
    <3>1. TypeOK' /\ ThreadShape' /\ RequestShape' /\ LockDiscipline' /\ BatchShape'
      <4>1. /\ batch[w] = {} /\ pc[w] = "working"
            /\ pc' = [pc EXCEPT ![w] = "idle"]
            /\ flag' = FALSE
            /\ UNCHANGED <<batch, pending, canSync, lock, req, todo>>
        BY <1>1, <2>1 DEF RefillOrExit
      <4>2. TypeOK' /\ ThreadShape' /\ LockDiscipline'
        BY <4>1
      <4>3. RequestShape' /\ BatchShape'
        BY <4>1
      <4> QED BY <4>2, <4>3
    <3>2. ReplayFlagMatchesWorker'
      BY <1>1, <2>1 DEF RefillOrExit
    <3> QED BY <3>1, <3>2
  <2>2. CASE pending # {}
    <3>1. TypeOK'
      BY <1>1, <2>2 DEF RefillOrExit
    <3>2. ThreadShape' /\ RequestShape' /\ BatchShape' /\ LockDiscipline' /\ ReplayFlagMatchesWorker'
      BY <1>1, <2>2 DEF RefillOrExit
    <3> QED BY <3>1, <3>2
  <2> QED BY <2>1, <2>2
<1>2. ASSUME NEW r \in Requests, ReplayNext(w, r)
      PROVE  IInv'
  BY <1>2 DEF ReplayNext
<1> QED BY <1>1, <1>2 DEF WorkerStep

LEMMA DaemonStepIInv ==
  ASSUME IInv, StartFullRound \/ StartSessionRound \/ RoundStep
  PROVE  IInv'
<1> USE ThreadsAssumption, RequestsAssumption
    DEF IInv, TypeOK, ThreadShape, RequestShape, BatchShape, LockDiscipline,
        ReplayFlagMatchesWorker, Alive, Holding, States, Threads, Goto
<1>1. CASE StartFullRound
  BY <1>1 DEF StartFullRound, ActiveUsers
<1>2. CASE StartSessionRound
  BY <1>2 DEF StartSessionRound
<1>3. CASE EndSessionMaintenance
  BY <1>3 DEF EndSessionMaintenance, ActiveUsers
<1>4. CASE EndRound
  BY <1>4 DEF EndRound
<1>5. ASSUME NEW u \in Users \union {NoUser}, DaemonVisit(u)
      PROVE  IInv'
  BY <1>5 DEF DaemonVisit
<1> QED BY <1>1, <1>2, <1>3, <1>4, <1>5 DEF RoundStep

LEMMA OtherStepIInv ==
  ASSUME IInv,
         \/ \E c \in Callers, r \in Requests : RequestSync(c, r)
         \/ \E t \in Clearers : StartClear(t) \/ EndClear(t)
         \/ \E u \in Users : AccountChanges(u)
         \/ UNCHANGED vars
  PROVE  IInv'
<1> USE ThreadsAssumption, RequestsAssumption
    DEF IInv, TypeOK, ThreadShape, RequestShape, BatchShape, LockDiscipline,
        ReplayFlagMatchesWorker, Alive, Holding, States, Threads, Goto
<1>1. ASSUME NEW c \in Callers, NEW r \in Requests, RequestSync(c, r)
      PROVE  IInv'
  BY <1>1 DEF RequestSync
<1>2. ASSUME NEW t \in Clearers, StartClear(t) \/ EndClear(t)
      PROVE  IInv'
  BY <1>2 DEF StartClear, EndClear
<1>3. ASSUME NEW u \in Users, AccountChanges(u)
      PROVE  IInv'
  BY <1>3 DEF AccountChanges
<1>4. CASE UNCHANGED vars
  BY <1>4 DEF vars
<1> QED BY <1>1, <1>2, <1>3, <1>4

LEMMA NextIInv == IInv /\ [Next]_vars => IInv'
  BY SyncCycleStepIInv, WorkerStepIInv, DaemonStepIInv, OtherStepIInv DEF Next

\* In every reachable state of any instance the inductive invariant holds:
\* beside the types, a thread carries a request exactly while it is waiting or
\* in its cycle, and an ended replay thread has an empty batch.
THEOREM InductiveInvariant == Spec => []IInv
<1>1. Init => IInv
  BY InitIInv
<1>2. IInv /\ [Next]_vars => IInv'
  BY NextIInv
<1> QED BY <1>1, <1>2, PTL DEF Spec

\* The variables keep their types, for any sets of threads, users and books.
THEOREM TypeCorrect == Spec => []TypeOK
<1>1. IInv => TypeOK
  BY DEF IInv
<1> QED BY <1>1, InductiveInvariant, PTL

\* sync_cycle, the session maintenance and clear_progress never overlap, for
\* any number of threads.
THEOREM MutualExclusion == Spec => []LockDiscipline
<1>1. IInv => LockDiscipline
  BY DEF IInv
<1> QED BY <1>1, InductiveInvariant, PTL

\* _replay_worker_running is never stuck and never lets a second worker start.
THEOREM OneReplayWorker == Spec => []ReplayFlagMatchesWorker
<1>1. IInv => ReplayFlagMatchesWorker
  BY DEF IInv
<1> QED BY <1>1, InductiveInvariant, PTL

-----------------------------------------------------------------------------
(* The refinement: each step of a thread is a step of InstantRequests or   *)
(* leaves what is wanted and what runs alone.                              *)

LEMMA RefinesInit == Init => Abs!Init
<1> SUFFICES ASSUME Init PROVE Abs!Init
  OBVIOUS
<1>1. Wanted = {}
  BY DEF Init, Wanted
<1>2. Running = NoReq
  BY DEF Init, Running
<1> QED BY <1>1, <1>2 DEF Init, Abs!Init

\* Wanted, spelled out for one request.
Wants(r) ==
    \/ \E t \in Threads : pc[t] \in {"waiting", "timedout"} /\ req[t] = r
    \/ r \in pending
    \/ \E w \in Workers : r \in batch[w]

LEMMA WantedMeaning == ASSUME NEW r PROVE r \in Wanted <=> Wants(r)
  BY DEF Wanted, Wants

LEMMA WantedMeaningNext == ASSUME NEW r PROVE r \in Wanted' <=> Wants(r)'
  BY DEF Wanted, Wants

\* Steps that leave what threads, queue and batches want, and what runs, alone.
LEMMA SameWants ==
  ASSUME UNCHANGED canSync, Running' = Running,
         \A r : Wants(r)' <=> Wants(r)
  PROVE  UNCHANGED Abs!vars
<1>1. Wanted' = Wanted
  BY WantedMeaning, WantedMeaningNext
<1> QED BY <1>1 DEF Abs!vars

LEMMA SyncCycleStepRefines ==
  ASSUME IInv, NEW t \in Threads \ Clearers, SyncCycleStep(t)
  PROVE  [Abs!Next]_(Abs!vars)
<1> USE ThreadsAssumption, RequestsAssumption
    DEF IInv, TypeOK, ThreadShape, RequestShape, BatchShape, LockDiscipline,
        Holding, States, Threads, Goto, Continuation, Wants, Running
<1>1. CASE AcquireForTarget(t)
  <2> DEFINE r == req[t]
  <2>1. r \in Requests /\ Wants(r) /\ t # NoThread /\ r # NoReq
    BY <1>1 DEF AcquireForTarget
  <2>2. Running = NoReq /\ Running' = r
    BY <1>1, <2>1 DEF AcquireForTarget
  <2>3. \A q : q # r => (Wants(q)' <=> Wants(q))
    BY <1>1 DEF AcquireForTarget
  <2>4. \A q : Wants(q)' => Wants(q)
    BY <1>1 DEF AcquireForTarget
  <2>5. Wanted' \in {Wanted, Wanted \ {r}}
    <3>1. \A q : q # r => (q \in Wanted' <=> q \in Wanted)
      BY <2>3, WantedMeaning, WantedMeaningNext
    <3>2. r \in Wanted
      BY <2>1, WantedMeaning
    <3> HIDE DEF r
    <3>3. CASE r \in Wanted'
      <4>1. \A q : q \in Wanted' <=> q \in Wanted
        BY <3>1, <3>2, <3>3
      <4>2. Wanted' = Wanted
        BY <4>1
      <4> QED BY <4>2
    <3>4. CASE r \notin Wanted'
      <4>1. \A q : q \in Wanted' <=> q \in Wanted \ {r}
        BY <3>1, <3>4
      <4>2. Wanted' = Wanted \ {r}
        BY <4>1
      <4> QED BY <4>2
    <3> QED BY <3>3, <3>4
  <2>6. Abs!Serve(r)
    <3>1. r \in Wanted
      BY <2>1, WantedMeaning
    <3>2. canSync' = canSync
      BY <1>1 DEF AcquireForTarget
    <3> HIDE DEF r, Running, Wants
    <3> QED BY <2>2, <2>5, <3>1, <3>2 DEF Abs!Serve
  <2>7. r \in Abs!Requests
    BY <2>1 DEF Requests, Abs!Requests
  <2> HIDE DEF r
  <2> QED BY <2>6, <2>7 DEF Abs!Next
<1>2. CASE LockTimeout(t)
  <2>1. UNCHANGED canSync /\ Running' = Running
    BY <1>2 DEF LockTimeout
  <2>2. \A r : Wants(r)' <=> Wants(r)
    BY <1>2 DEF LockTimeout
  <2> QED BY <2>1, <2>2, SameWants
<1>3. CASE QueuePendingSync(t)
  <2>1. UNCHANGED canSync /\ Running' = Running
    BY <1>3 DEF QueuePendingSync
  <2>2. \A r : Wants(r)' <=> Wants(r)
    BY <1>3 DEF QueuePendingSync
  <2> QED BY <2>1, <2>2, SameWants
<1>4. CASE ReleaseCycle(t)
  <2>1. UNCHANGED canSync /\ Running' = NoReq
    BY <1>4 DEF ReleaseCycle
  <2>2. \A r : Wants(r)' <=> Wants(r)
    BY <1>4 DEF ReleaseCycle
  <2>3. Wanted' = Wanted
    BY <2>2, WantedMeaning, WantedMeaningNext
  <2>4. Abs!Complete
    BY <2>1, <2>3 DEF Abs!Complete
  <2> QED BY <2>4 DEF Abs!Next
<1>5. CASE DispatchNothing(t)
  <2>1. UNCHANGED canSync /\ Running' = Running
    BY <1>5 DEF DispatchNothing
  <2>2. \A r : Wants(r)' <=> Wants(r)
    BY <1>5 DEF DispatchNothing
  <2> QED BY <2>1, <2>2, SameWants
<1>6. ASSUME NEW w \in Workers, DispatchPendingSyncs(t, w)
      PROVE  [Abs!Next]_(Abs!vars)
  <2>1. UNCHANGED canSync /\ Running' = Running
    BY <1>6 DEF DispatchPendingSyncs
  <2>2. \A r : Wants(r)' <=> Wants(r)
    BY <1>6 DEF DispatchPendingSyncs
  <2> QED BY <2>1, <2>2, SameWants
<1> QED BY <1>1, <1>2, <1>3, <1>4, <1>5, <1>6 DEF SyncCycleStep

LEMMA WorkerStepRefines ==
  ASSUME IInv, NEW w \in Workers, WorkerStep(w)
  PROVE  [Abs!Next]_(Abs!vars)
<1> USE ThreadsAssumption, RequestsAssumption
    DEF IInv, TypeOK, RequestShape, LockDiscipline, Holding, States, Threads, Goto,
        Wants, Running
<1>1. CASE RefillOrExit(w)
  <2>1. UNCHANGED canSync /\ Running' = Running
    BY <1>1 DEF RefillOrExit
  <2>2. \A r : Wants(r)' <=> Wants(r)
    <3>1. CASE pending = {}
      BY <1>1, <3>1 DEF RefillOrExit
    <3>2. CASE pending # {}
      BY <1>1, <3>2 DEF RefillOrExit
    <3> QED BY <3>1, <3>2
  <2> QED BY <2>1, <2>2, SameWants
<1>2. ASSUME NEW r \in Requests, ReplayNext(w, r)
      PROVE  [Abs!Next]_(Abs!vars)
  <2>1. UNCHANGED canSync /\ Running' = Running
    BY <1>2 DEF ReplayNext
  <2>2. CASE MaySync(r[1])
    <3>1. \A q : Wants(q)' <=> Wants(q)
      BY <1>2, <2>2 DEF ReplayNext
    <3> QED BY <2>1, <3>1, SameWants
  <2>3. CASE ~MaySync(r[1])
    <3>1. \A q : q # r => (Wants(q)' <=> Wants(q))
      BY <1>2, <2>3 DEF ReplayNext
    <3>2. \A q : q # r => (q \in Wanted' <=> q \in Wanted)
      BY <3>1, WantedMeaning, WantedMeaningNext
    <3>3. CASE r \in Wanted'
      <4>1. Wants(r)' => Wants(r)
        BY <1>2, <2>3 DEF ReplayNext
      <4>2. r \in Wanted
        BY <3>3, <4>1, WantedMeaning, WantedMeaningNext
      <4>3. Wanted' = Wanted
        <5>1. \A q : q \in Wanted' <=> q \in Wanted
          BY <3>2, <3>3, <4>2
        <5> HIDE DEF Wants
        <5> QED BY <5>1
      <4> QED BY <2>1, <4>3 DEF Abs!vars
    <3>4. CASE r \notin Wanted'
      <4>1. Wanted' = Wanted \ {r}
        <5>1. \A q : q \in Wanted' <=> q \in Wanted \ {r}
          BY <3>2, <3>4
        <5> HIDE DEF Wants
        <5> QED BY <5>1
      <4>2. Abs!Refuse(r)
        BY <2>1, <2>3, <4>1 DEF Abs!Refuse, Abs!MaySync, MaySync
      <4> QED BY <4>2 DEF Abs!Next, Abs!Requests, Requests
    <3> QED BY <3>3, <3>4
  <2> QED BY <2>2, <2>3
<1> QED BY <1>1, <1>2 DEF WorkerStep

LEMMA DaemonStepRefines ==
  ASSUME IInv, StartFullRound \/ StartSessionRound \/ RoundStep
  PROVE  UNCHANGED Abs!vars
<1> USE ThreadsAssumption, RequestsAssumption
    DEF IInv, TypeOK, RequestShape, ThreadShape, LockDiscipline, Holding, States,
        Threads, Goto, Wants, Running
<1>1. UNCHANGED canSync /\ Running' = Running
  BY DEF StartFullRound, StartSessionRound, RoundStep, EndSessionMaintenance,
         EndRound, DaemonVisit
<1>2. \A r : Wants(r)' <=> Wants(r)
  BY DEF StartFullRound, StartSessionRound, RoundStep, EndSessionMaintenance,
         EndRound, DaemonVisit
<1> QED BY <1>1, <1>2, SameWants

LEMMA OtherStepRefines ==
  ASSUME IInv,
         \/ \E c \in Callers, r \in Requests : RequestSync(c, r)
         \/ \E t \in Clearers : StartClear(t) \/ EndClear(t)
         \/ \E u \in Users : AccountChanges(u)
         \/ UNCHANGED vars
  PROVE  [Abs!Next]_(Abs!vars)
<1> USE ThreadsAssumption, RequestsAssumption
    DEF IInv, TypeOK, RequestShape, ThreadShape, LockDiscipline, Holding, States,
        Threads, Goto, Wants, Running
<1>1. ASSUME NEW c \in Callers, NEW r \in Requests, RequestSync(c, r)
      PROVE  [Abs!Next]_(Abs!vars)
  <2>1. UNCHANGED canSync /\ Running' = Running
    BY <1>1 DEF RequestSync
  <2>2. \A q : Wants(q)' <=> (Wants(q) \/ q = r)
    BY <1>1 DEF RequestSync
  <2>3. Wanted' = Wanted \union {r}
    <3>1. \A q : q \in Wanted' <=> q \in Wanted \union {r}
      BY <2>2, WantedMeaning, WantedMeaningNext
    <3> HIDE DEF Wants
    <3> QED BY <3>1
  <2>4. Abs!Ask(r)
    BY <2>1, <2>3 DEF Abs!Ask
  <2> QED BY <2>4 DEF Abs!Next, Abs!Requests, Requests
<1>2. ASSUME NEW t \in Clearers, StartClear(t) \/ EndClear(t)
      PROVE  [Abs!Next]_(Abs!vars)
  <2>1. UNCHANGED canSync /\ Running' = Running
    BY <1>2 DEF StartClear, EndClear
  <2>2. \A r : Wants(r)' <=> Wants(r)
    BY <1>2 DEF StartClear, EndClear
  <2> QED BY <2>1, <2>2, SameWants
<1>3. ASSUME NEW u \in Users, AccountChanges(u)
      PROVE  [Abs!Next]_(Abs!vars)
  <2>1. Running' = Running /\ canSync' \in [Users -> BOOLEAN]
    BY <1>3 DEF AccountChanges
  <2>2. Wanted' = Wanted
    BY <1>3 DEF AccountChanges, Wanted
  <2>3. Abs!AccountChanges
    BY <2>1, <2>2 DEF Abs!AccountChanges
  <2> QED BY <2>3 DEF Abs!Next
<1>4. CASE UNCHANGED vars
  BY <1>4 DEF vars, Abs!vars, Wanted
<1> QED BY <1>1, <1>2, <1>3, <1>4

LEMMA RefinesNext == IInv /\ [Next]_vars => [Abs!Next]_(Abs!vars)
  BY SyncCycleStepRefines, WorkerStepRefines, DaemonStepRefines, OtherStepRefines
  DEF Next

\* The scheduler implements InstantRequests for every set of users, books and
\* threads: whatever the interleaving of time-outs, releases, dispatches and
\* the replay worker's exit, a request leaves the system only by a cycle that
\* runs for it or by its user's account being refused.
THEOREM NoRequestLost == Spec => KeepsItsPromise
<1>1. Init => Abs!Init
  BY RefinesInit
<1>2. IInv /\ [Next]_vars => [Abs!Next]_(Abs!vars)
  BY RefinesNext
<1>3. Spec => []IInv
  BY InductiveInvariant
<1> QED BY <1>1, <1>2, <1>3, PTL DEF Spec, Abs!Spec, KeepsItsPromise

=============================================================================

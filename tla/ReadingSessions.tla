--------------------------- MODULE ReadingSessions ---------------------------
(***************************************************************************)
(* The reading sessions that BookBridge derives from one reader's progress *)
(* in one book: the open buffer that observations extend, the local        *)
(* history, and the closed buffers that wait for delivery to the           *)
(* destinations.  Cycles, deliveries and the scheduler's maintenance run   *)
(* under the sync lock, so at most one of notice and flush is there; what  *)
(* the web routes change may fall between any two of their steps.  Time is *)
(* counted in units of the idle gap and stands still while the lock is     *)
(* held.                                                                   *)
(***************************************************************************)
EXTENDS Integers, Sequences, FiniteSets, FiniteSetsExt, SequencesExt

CONSTANTS
    Leaders,      \* clients that lead a cycle and are ingested (all but KoSync)
    Order,        \* _SESSION_DESTINATIONS, in their order
    Checking,     \* those asked first what they have logged themselves (BookOrbit)
    Gap, Patience, MaxSession, MaxExplained, RetryWindow, KeepFor, Limit,
    Reading, Horizon,      \* the last moment of an observation, and of a run
    Plans,        \* what a run explores: who leads, what is observed, which destinations never
                  \* answer, and how many observations, changes and faults there are
    None

Dests == ToSet(Order)
Times == 0 .. Horizon
Faults == {"refused", "lost", "blind", "restart"}
Kinds == {"seen", "elsewhere", "covered", "removed", "setting", "account"} \cup Faults

Stamp == Times \cup {None}
Statuses == {"pending", "delivered", "disabled", "failed"}
DestIds == [Dests -> Nat \cup {None}]     \* the destinations' ids for the book

(* A session is wide where its progress, from its start to where it ends now, *)
(* is more than _SESSION_OVERLAP_EPSILON_PCT of the book.                    *)
Movements == [leader : Leaders, base : Stamp, delta : Nat, ids : DestIds, wide : BOOLEAN,
              complete : BOOLEAN]
Sittings == [leader : Leaders, from : Int, last : Times, acc : Nat, ids : DestIds, wide : BOOLEAN]
Outbox == [to : Times, closed : Times, ids : DestIds, wide : BOOLEAN, status : [Dests -> Statuses]]
Deliveries == [queue : SUBSET Outbox, at : Nat, present : BOOLEAN, retry : BOOLEAN, posted : BOOLEAN]

ASSUME SessionAssumption ==
    /\ IsFiniteSet(Leaders) /\ Checking \subseteq Dests
    /\ Order \in Seq(Dests) /\ IsInjective(Order)
    /\ {Gap, Patience, MaxSession, Limit} \subseteq Nat \ {0}
    /\ {MaxExplained, RetryWindow, KeepFor, Reading, Horizon} \subseteq Nat
    /\ \A p \in Plans :
         /\ p.clients \subseteq Leaders /\ p.down \subseteq Dests /\ p.most \in [Kinds -> Nat]
         /\ \A m \in p.moves : /\ m.delta \in Nat /\ m.ids \in DestIds
                              /\ m.wide \in BOOLEAN /\ m.complete \in BOOLEAN

(* What is missing is no number and no record.                               *)
ASSUME NoneAssumption == None \notin Int \cup Movements \cup Sittings \cup Deliveries

VARIABLES
    now,
    saved,     \* client -> State.last_updated
    notice,    \* the movement a cycle has saved and not yet handed on
    open,      \* the ReadingSessionBuffer without closed_at
    history,   \* ReadingSession
    rows,      \* closed buffers, by the time of their last event
    flush,     \* the delivery under way
    remote,    \* destination -> how often it took the session that ends at a time
    setting,   \* destination -> GRIMMORY_READING_SESSIONS, BOOKORBIT_READING_SESSIONS
    plan,
    active,    \* User.active
    book,      \* the mapping exists
    spent

store == <<open, history, rows>>
world == <<remote, plan>>
admin == <<setting, active, book>>
vars == <<now, saved, notice, open, history, rows, flush, remote, setting, plan, active, book, spent>>

Init ==
    /\ now = 0
    /\ saved = [l \in Leaders |-> None]
    /\ notice = None
    /\ open = None
    /\ history = {}
    /\ rows = <<>>
    /\ flush = None
    /\ remote = [d \in Dests |-> [t \in Times |-> 0]]
    /\ setting = [d \in Dests |-> TRUE]
    /\ plan \in Plans
    /\ active = TRUE
    /\ book = TRUE
    /\ spent = [k \in Kinds |-> 0]

Spend(k) ==
    /\ spent' = [spent EXCEPT ![k] = @ + 1]
    /\ spent'[k] <= plan.most[k]

down == plan.down
LockFree == notice = None /\ flush = None

Later(t, u) == IF t = None THEN u ELSE IF u = None THEN t ELSE Max({t, u})

--------------------------------------------------------------------------------
(* Closing.                                                                  *)

(* Mutant: the time from the first event to the last.                        *)
DurationElapsed(o) == Min({o.last - o.from, MaxSession})

(* What the session is credited with.                                        *)
Duration(o) == Min({o.acc, o.last - o.from, MaxSession})

Entry(o) == [from |-> o.last - Duration(o), to |-> o.last, wide |-> o.wide]

(* Mutant: nothing says where the session is still to go.                    *)
OutgoingUnmarked(o) ==
    [to |-> o.last, closed |-> now, ids |-> o.ids, wide |-> o.wide,
     status |-> [d \in Dests |-> None]]

Outgoing(o) ==
    [to |-> o.last, closed |-> now, ids |-> o.ids, wide |-> o.wide,
     status |-> [d \in Dests |-> IF o.ids[d] # None THEN "pending" ELSE "disabled"]]

WithRow(r, o) ==
    [t \in DOMAIN r \cup {o.last} |-> IF t = o.last THEN Outgoing(o) ELSE r[t]]

(* _close_reading_session: the buffer and its history in one transaction.    *)
Close(o) ==
    /\ history' = history \cup {Entry(o)}
    /\ rows' = WithRow(rows, o)

Overdue == open # None /\ (now - open.last > Patience * Gap \/ now - open.from >= MaxSession)

(* close_reading_sessions.                                                   *)
CloseOverdue ==
    IF Overdue THEN Close(open) /\ open' = None ELSE UNCHANGED store

RowsNow == IF Overdue THEN WithRow(rows, open) ELSE rows

--------------------------------------------------------------------------------
(* Observations.                                                             *)

(* A cycle saves the states of its leader and of the followers it reached.   *)
Saved(reached) == saved' = [l \in Leaders |-> IF l \in reached THEN now ELSE saved[l]]

Notice(l, reached) ==
    /\ LockFree /\ now <= Reading /\ active /\ book /\ Spend("seen")
    /\ \E m \in plan.moves :
         notice' = [leader |-> l, base |-> saved[l], delta |-> m.delta, ids |-> m.ids,
                    wide |-> m.wide, complete |-> m.complete]
    /\ Saved(reached \cup {l})
    /\ UNCHANGED <<now, store, flush, world, admin>>

(* A cycle led by KoSync saves states and hands nothing on.                  *)
LedElsewhere(reached) ==
    /\ LockFree /\ now <= Reading /\ active /\ book /\ Spend("elsewhere")
    /\ Saved(reached)
    /\ UNCHANGED <<now, notice, store, flush, world, admin>>

(* movement_seconds.                                                         *)
Movement(delta, since) ==
    Min({delta, MaxSession, IF since = None THEN Gap ELSE Max({0, now - since})})

(* unexplained_idle_seconds.                                                 *)
Idle(delta) == Max({0, now - open.last - Min({delta, MaxExplained})})

Splits(n) ==
    \/ Idle(n.delta) > Gap
    \/ now - open.from >= MaxSession
    \/ open.leader # n.leader
    \/ \E d \in Dests : None \notin {open.ids[d], n.ids[d]} /\ open.ids[d] # n.ids[d]

(* The row extended by a movement: its progress ends elsewhere, which may be *)
(* back near its start, and an id that became known is adopted.              *)
Extended(n) ==
    [open EXCEPT !.acc = @ + Movement(n.delta, Later(n.base, open.last)),
                 !.last = now,
                 !.wide = n.wide,
                 !.ids = [d \in Dests |-> IF @[d] = None THEN n.ids[d] ELSE @[d]]]

LatestEnd(h) == IF h = {} THEN None ELSE Max({s.to : s \in h})

(* Mutant: only the client's own saved state bounds a new session.           *)
BaselineUnbounded(n, h) == n.base

(* What bounds the first interval of a new session.                          *)
Baseline(n, h) == Later(n.base, LatestEnd(h))

Opened(n, h) ==
    LET seconds == Movement(n.delta, Baseline(n, h))
    IN  IF seconds = 0 THEN None
        ELSE [leader |-> n.leader, from |-> now - seconds, last |-> now, acc |-> seconds,
              ids |-> n.ids, wide |-> n.wide]

Settle(o, complete) ==
    IF o # None /\ complete
    THEN /\ open' = None
         /\ history' = history \cup {Entry(o)}
         /\ rows' = WithRow(rows, o)
    ELSE open' = o /\ UNCHANGED <<history, rows>>

(* A new session after the old one was closed in the same call.              *)
Succeed(n) ==
    LET h == history \cup {Entry(open)}
        next == Opened(n, h)
    IN  IF next # None /\ n.complete
        THEN /\ open' = None
             /\ history' = h \cup {Entry(next)}
             /\ rows' = WithRow(WithRow(rows, open), next)
        ELSE open' = next /\ Close(open)

(* extend_reading_session.                                                   *)
Extend ==
    /\ notice # None
    /\ notice' = None
    /\ IF open = None THEN Settle(Opened(notice, history), notice.complete)
       ELSE IF now <= open.last THEN UNCHANGED store
       ELSE IF Splits(notice) THEN Succeed(notice)
       ELSE Settle(Extended(notice), notice.complete)
    /\ UNCHANGED <<now, saved, flush, world, admin, spent>>

--------------------------------------------------------------------------------
(* Maintenance, every minute, and deliveries, in every cycle of the reader.  *)

Terminal(r) == \A d \in Dests : r.status[d] # "pending"
Waiting(from) == {t \in DOMAIN from : ~Terminal(from[t])}
Stored(live) == rows' = [t \in live |-> rows[t]]
Expired == {t \in DOMAIN rows : rows[t].closed < now - KeepFor /\ Terminal(rows[t])}

(* Mutant: only the sessions of active readers are closed.                   *)
MaintainActive ==
    /\ LockFree /\ active
    /\ Overdue \/ Expired # {}
    /\ IF Overdue THEN Close(open) /\ open' = None
       ELSE Stored(DOMAIN rows \ Expired) /\ UNCHANGED <<open, history>>
    /\ UNCHANGED <<now, saved, notice, flush, world, admin, spent>>

(* close_reading_sessions(all_users) and purge_delivered_reading_sessions.   *)
Maintain ==
    /\ LockFree
    /\ Overdue \/ Expired # {}
    /\ IF Overdue THEN Close(open) /\ open' = None
       ELSE Stored(DOMAIN rows \ Expired) /\ UNCHANGED <<open, history>>
    /\ UNCHANGED <<now, saved, notice, flush, world, admin, spent>>

(* get_pending_reading_sessions: the oldest Limit rows that wait.            *)
Oldest(times) == {t \in times : Cardinality({u \in times : u < t}) < Limit}
Fetched(from) == {from[t] : t \in Oldest(Waiting(from))}

Delivery(queue) ==
    IF queue = {} THEN None
    ELSE [queue |-> queue, at |-> 1, present |-> book, retry |-> FALSE, posted |-> FALSE]

FlushStart ==
    /\ LockFree /\ active
    /\ Overdue \/ Waiting(rows) # {}
    /\ CloseOverdue
    /\ flush' = Delivery(Fetched(RowsNow))
    /\ UNCHANGED <<now, saved, notice, world, admin, spent>>

Row == CHOOSE r \in flush.queue : \A q \in flush.queue : r.to <= q.to
Dest == Order[flush.at]
AllTried == flush.at > Len(Order)

NextDest(retry) ==
    flush' = [flush EXCEPT !.at = @ + 1, !.retry = @ \/ retry, !.posted = FALSE]

(* mark_reading_session_delivered: the row may be gone by now.               *)
MarkAs(d, status) ==
    IF Row.to \in DOMAIN rows /\ rows[Row.to].status[d] = "pending"
    THEN rows' = [rows EXCEPT ![Row.to].status[d] = status]
    ELSE UNCHANGED rows

Delivering == flush # None /\ ~AllTried /\ ~flush.posted

(* Mutant: a destination that has the session already gets it once more.     *)
DueAgain == Row.status[Dest] \in {"pending", "delivered"}

Due == Row.status[Dest] = "pending"

PassOver ==
    /\ Delivering /\ ~Due
    /\ NextDest(FALSE)
    /\ UNCHANGED <<rows, remote, spent>>

Wanted == setting[Dest] /\ flush.present /\ Row.ids[Dest] # None

Disable ==
    /\ Delivering /\ Due /\ ~Wanted
    /\ MarkAs(Dest, "disabled") /\ NextDest(FALSE)
    /\ UNCHANGED <<remote, spent>>

(* find_covering_sessions: a copy that is there already, of an attempt whose *)
(* answer or mark was lost, unless the session is too narrow to overlap it.  *)
Found == Dest \in Checking /\ Row.wide /\ remote[Dest][Row.to] > 0

(* _bookorbit_session_scale: this reading is there already, from an earlier  *)
(* attempt or from BookOrbit's own reader.                                   *)
Covered ==
    /\ Delivering /\ Due /\ Wanted
    /\ Dest \in Checking \ down /\ Row.wide
    /\ IF Found THEN UNCHANGED spent ELSE Spend("covered")
    /\ MarkAs(Dest, "disabled") /\ NextDest(FALSE)
    /\ UNCHANGED remote

(* The look fails where it would have found the session, which is posted in  *)
(* full; a session it cannot find is posted in any case.                     *)
Unaware == IF Found THEN Spend("blind") ELSE UNCHANGED spent

Took == remote' = [remote EXCEPT ![Dest][Row.to] = @ + 1]

(* Mutant: the first destination that fails ends the row's delivery.         *)
PostOrStop ==
    /\ Delivering /\ Due /\ Wanted
    /\ \/ Dest \notin down /\ Unaware /\ Took /\ flush' = [flush EXCEPT !.posted = TRUE]
       \/ Dest \in down /\ UNCHANGED <<remote, spent>>
          /\ flush' = [flush EXCEPT !.at = Len(Order) + 1, !.retry = TRUE]
    /\ UNCHANGED rows

Post ==
    /\ Delivering /\ Due /\ Wanted
    /\ \/ Dest \notin down /\ Unaware /\ Took /\ flush' = [flush EXCEPT !.posted = TRUE]
       \/ Dest \notin down /\ ~Found /\ Spend("lost") /\ Took /\ NextDest(TRUE)
       \/ Dest \notin down /\ Spend("refused") /\ UNCHANGED remote /\ NextDest(TRUE)
       \/ Dest \in down /\ UNCHANGED <<remote, spent>> /\ NextDest(TRUE)
    /\ UNCHANGED rows

Mark ==
    /\ flush # None /\ flush.posted
    /\ MarkAs(Dest, "delivered") /\ NextDest(FALSE)
    /\ UNCHANGED <<remote, spent>>

(* record_reading_session_delivery_failure: what is still pending is given   *)
(* up once the row is old enough.                                            *)
GiveUp ==
    IF Row.to \in DOMAIN rows /\ Row.closed <= now - RetryWindow
    THEN rows' = [rows EXCEPT ![Row.to].status =
                    [d \in Dests |-> IF @[d] = "pending" THEN "failed" ELSE @[d]]]
    ELSE UNCHANGED rows

RowDone ==
    /\ flush # None /\ AllTried
    /\ IF flush.retry THEN GiveUp ELSE UNCHANGED rows
    /\ flush' = Delivery(flush.queue \ {Row})
    /\ UNCHANGED <<remote, spent>>

FlushStep ==
    /\ PassOver \/ Disable \/ Covered \/ Post \/ Mark \/ RowDone
    /\ UNCHANGED <<now, saved, notice, open, history, plan, admin>>

--------------------------------------------------------------------------------
(* Everything else.                                                          *)

(* Nothing has a time before the first observation.                          *)
Tick ==
    /\ LockFree /\ now < Horizon /\ spent.seen > 0
    /\ now' = now + 1
    /\ UNCHANGED <<saved, notice, store, flush, world, admin, spent>>

(* delete_book: states and buffers go, the history stays.                    *)
RemoveMapping ==
    /\ book /\ Spend("removed")
    /\ book' = FALSE
    /\ open' = None /\ rows' = <<>>
    /\ saved' = [l \in Leaders |-> None]
    /\ UNCHANGED <<now, notice, history, flush, world, setting, active>>

(* The same book is matched again.                                           *)
Rematch ==
    /\ ~book /\ book' = TRUE
    /\ UNCHANGED <<now, saved, notice, store, flush, world, setting, active, spent>>

Toggle(d) ==
    /\ Spend("setting")
    /\ setting' = [setting EXCEPT ![d] = ~@]
    /\ UNCHANGED <<now, saved, notice, store, flush, world, active, book>>

SetActive ==
    /\ Spend("account")
    /\ active' = ~active
    /\ UNCHANGED <<now, saved, notice, store, flush, world, setting, book>>

Restart ==
    /\ ~LockFree /\ Spend("restart")
    /\ notice' = None /\ flush' = None
    /\ UNCHANGED <<now, saved, store, world, admin>>

Next ==
    \/ \E l \in plan.clients, reached \in SUBSET plan.clients : Notice(l, reached)
    \/ \E reached \in SUBSET plan.clients : LedElsewhere(reached)
    \/ Extend
    \/ Maintain
    \/ FlushStart
    \/ FlushStep
    \/ Tick
    \/ RemoveMapping \/ Rematch \/ (\E d \in Dests : Toggle(d)) \/ SetActive
    \/ Restart

Spec == Init /\ [][Next]_vars

(* The scheduler's maintenance and the reader's cycles come again and again, *)
(* and what holds the lock goes on.                                          *)
Fairness ==
    /\ SF_vars(Tick) /\ SF_vars(Maintain) /\ SF_vars(FlushStart)
    /\ WF_vars(Extend) /\ WF_vars(FlushStep)

FairSpec == Spec /\ Fairness

--------------------------------------------------------------------------------
(* Properties.                                                               *)

TypeOK ==
    /\ now \in Times
    /\ saved \in [Leaders -> Stamp]
    /\ notice = None \/ notice \in Movements
    /\ open = None \/ (open \in Sittings /\ open.acc \in 1 .. (open.last - open.from))
    /\ \A s \in history : s.to \in Times /\ s.from < s.to /\ s.to - s.from <= MaxSession
    /\ DOMAIN rows \subseteq Times /\ \A t \in DOMAIN rows : rows[t] \in Outbox /\ rows[t].to = t
    /\ notice = None \/ flush = None
    /\ flush = None \/ (flush \in Deliveries /\ Cardinality(flush.queue) \in 1 .. Limit)
    /\ remote \in [Dests -> [Times -> Nat]]
    /\ setting \in [Dests -> BOOLEAN] /\ plan \in Plans /\ {active, book} \subseteq BOOLEAN
    /\ spent \in [Kinds -> Nat]

(* "Existing local history bounds subsequent sessions to avoid overlapping   *)
(* segments, including after completion and forced closure": no moment is    *)
(* credited twice, whichever client led, whatever ended the session before.  *)
SessionsDisjoint ==
    /\ \A s, t \in history : s = t \/ s.to <= t.from \/ t.to <= s.from
    /\ open # None => \A s \in history : s.to <= open.from

(* The moments that sessions credit; they are disjoint, so these are as many *)
(* as their durations add up to.                                             *)
Moments(h) == UNION {(s.from + 1) .. s.to : s \in h}
Seconds == Cardinality(Moments(history)) + IF open = None THEN 0 ELSE open.acc

Heard == Later(LatestEnd(history), IF open = None THEN None ELSE open.last)
Earned == Movement(notice.delta, Later(notice.base, Heard))
HandedOn == notice # None /\ notice' = None /\ spent' = spent

(* A movement earns the time since the last one, and how the stretches are   *)
(* cut into sessions, closed late, extended, completed or delivered neither  *)
(* loses nor invents any of it.                                              *)
TimeIsKept ==
    [][book' = book => Seconds' = Seconds + IF HandedOn THEN Earned ELSE 0]_vars

(* "At-least-once delivery: a lost POST response may cause a duplicate":     *)
(* what counts as delivered is there, and every further copy comes of a lost *)
(* response or of a restart before the mark.  Where the bridge looks first   *)
(* it takes a failed look besides, but for the sessions that are too narrow  *)
(* for a look to find.                                                       *)
PostedOnce ==
    \A d \in Dests :
        /\ \A t \in DOMAIN rows : rows[t].status[d] = "delivered" => remote[d][t] > 0
        /\ \A t \in Times : remote[d][t] <= 1 + spent.lost + spent.restart
        /\ d \in Checking => \A s \in history : s.wide => remote[d][s.to] <= 1 + spent.blind

(* record_reading_session_delivery_failure gives up on every destination of  *)
(* a row that is still pending, whichever failed: one that answers is given  *)
(* up on only after it refused a session or lost an answer itself, though    *)
(* the other one fills the queue and its rows grow old.                      *)
GivenUpForCause ==
    \A t \in DOMAIN rows, d \in Dests \ down :
        rows[t].status[d] = "failed" => spent.refused + spent.lost > 0

(* "one destination being unreachable never holds up or duplicates the       *)
(* other": a delivery leaves out a row that waits for a destination that     *)
(* answers only for as many earlier ones that do so too.  The code does not  *)
(* keep this: rows that wait for the other destination alone count as well.  *)
Deliverable(r) == \E d \in Dests \ down : r.status[d] = "pending"
Starts == flush = None /\ flush' # None

NeverHoldsUp ==
    [][Starts => \A t \in DOMAIN rows' :
           Deliverable(rows'[t]) /\ rows'[t] \notin flush'.queue
             => Cardinality({u \in DOMAIN rows' : u < t /\ Deliverable(rows'[u])}) >= Limit]_vars

(* Every session is closed in the end, and of an active reader each is       *)
(* delivered, found unwanted or given up, everywhere, after outages, lost    *)
(* responses, restarts and with more waiting than one pass takes.            *)
EverySessionSettles ==
    <>[](open = None /\ (active => Waiting(rows) = {}))
================================================================================

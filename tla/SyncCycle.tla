------------------------------- MODULE SyncCycle -------------------------------
(***************************************************************************)
(* One book of one reader through the sync cycle: the services that hold   *)
(* its position, the cycle that reads them, elects a leader and writes the *)
(* others, the State rows it leaves, the memory of its own writes, and the *)
(* three ways in which a reader's move triggers a cycle: the poller, the   *)
(* ABS socket and a device's PUT.                                          *)
(*                                                                         *)
(* Positions are points of one timeline, further apart than every margin,  *)
(* dead band and threshold, so that any difference is significant.  Time   *)
(* passes in two strides: past the hold of a backward move (Pause) and     *)
(* past every memory the process keeps of the book (LongPause).            *)
(***************************************************************************)
EXTENDS Integers, Sequences, FiniteSets

CONSTANTS
    Services,     \* the reader's services of this book
    Audio,        \* the primary audio client (ABS), announced by its socket
    Device,       \* KoSync: devices PUT to it and it may have no record yet
    Marked,       \* polled services that return a position marker (Storyteller)
    Rough,        \* services whose locator may fail to resolve
    Settling,     \* polled services with POLL_WAIT_FOR_SETTLE
    Top,          \* the last position; 0 is the first
    Bounds,       \* the mixes of moves, rewinds and faults that a run explores
    None

Positions == 0 .. Top
Polled == Services \ {Audio, Device}

ASSUME ServiceAssumption ==
    /\ IsFiniteSet(Services)
    /\ {Audio, Device} \subseteq Services
    /\ Audio # Device
    /\ Marked \subseteq Polled
    /\ Rough \subseteq Services \ {Audio}
    /\ Settling \subseteq Polled
    /\ Top \in Nat \ {0}
    /\ None \notin Positions \cup Services
    /\ Bounds \subseteq [moves : Nat, rewinds : Nat, faults : Nat]

VARIABLES
    held,     \* service -> its position, who put it there (the reader, or the bridge,
              \* once it has recorded the write or before), and whether long ago
    saved,    \* service -> its State row's percentage
    wrote,    \* write_tracker._recent_writes: service -> what the bridge wrote
    guarded,  \* the bridge wrote Audio within the socket's self-write window
    trail,    \* observation_trail._trails: service -> reported positions
    recent,   \* services whose last report is younger than the hold
    put,      \* the position of a recent device PUT (_kosync_recent_external_puts)
    known,    \* ClientPoller._last_known: nothing yet, or the same or not as now
    waiting,  \* ClientPoller._pending_sync
    event,    \* ABSSocketListener._pending with _last_progress
    wanted,   \* instant syncs asked for: by a device's PUT, still in its debounce
              \* ("put"), and by threads already started ("thread")
    tried,    \* _follower_init_attempts: a fill is in its cooldown
    cycle,    \* what the running cycle has in hand
    spent     \* moves of the reader, those of them that go back, and faults: reads,
              \* writes and locators that fail, and restarts

world == <<held, saved>>
memory == <<wrote, guarded, trail, recent, put, known, waiting, event, wanted, tried>>
vars == <<held, saved, wrote, guarded, trail, recent, put, known, waiting, event,
          wanted, tried, cycle, spent>>

MaxTrail == 3   \* reports kept of the twelve: a jump and the advance after it

Steps == {"idle", "read", "fill", "write", "followers"}
Idle == [step |-> "idle"]
Writers == {"reader", "sent", "bridge"}
Position(p, by) == [pos |-> p, by |-> by, old |-> FALSE]

TypeOK ==
    /\ held \in [Services -> [pos : Positions \cup {None}, by : Writers, old : BOOLEAN]]
    /\ \A c \in Services \ {Device} : held[c].pos # None
    /\ saved \in [Services -> Positions \cup {None}]
    /\ wrote \in [Services -> Positions \cup {None}]
    /\ guarded \in BOOLEAN
    /\ trail \in [Services -> Seq(Positions)]
    /\ \A c \in Services : Len(trail[c]) <= MaxTrail
    /\ recent \subseteq Services
    /\ put \in Positions \cup {None}
    /\ known \in [Polled -> {"nothing", "same", "moved"}]
    /\ waiting \subseteq Polled
    /\ event \in Positions \cup {None}
    /\ wanted \subseteq {"put", "thread"}
    /\ tried \in BOOLEAN
    /\ cycle.step \in Steps
    /\ spent \in [moves : Nat, rewinds : Nat, faults : Nat]

(* A mapping just made, at the start of the book, or one in step at p; no    *)
(* device has read the book yet.                                             *)
Init ==
    /\ \E p \in Positions :
         /\ held = [c \in Services |->
                      [pos |-> IF c = Device THEN None ELSE p, by |-> "reader", old |-> TRUE]]
         /\ saved = [c \in Services |-> IF c = Device \/ p = 0 THEN None ELSE p]
    /\ wrote = [c \in Services |-> None]
    /\ guarded = FALSE
    /\ trail = [c \in Services |-> <<>>]
    /\ recent = {}
    /\ put = None
    /\ known = [c \in Polled |-> "nothing"]
    /\ waiting = {}
    /\ event = None
    /\ wanted = {}
    /\ tried = FALSE
    /\ cycle = Idle
    /\ spent = [moves |-> 0, rewinds |-> 0, faults |-> 0]

--------------------------------------------------------------------------------
(* The observation trail.                                                    *)

Last(s) == s[Len(s)]

Recorded(t, p) ==
    IF t # <<>> /\ Last(t) = p THEN t
    ELSE IF Len(t) < MaxTrail THEN Append(t, p) ELSE Append(Tail(t), p)

(* record_observation: c reports p from outside the bridge.                  *)
Record(c, p) ==
    /\ trail' = [trail EXCEPT ![c] = Recorded(@, p)]
    /\ recent' = recent \cup {c}

(* The last backward step of a trail, or its first entry.                    *)
Anchor(t) ==
    LET back == {i \in 2 .. Len(t) : t[i] < t[i - 1]}
    IN  IF back = {} THEN 1 ELSE CHOOSE i \in back : \A j \in back : j <= i

(* evaluate: the reader went on from the jump.                               *)
Corroborated(t) == \E i \in (Anchor(t) + 1) .. Len(t) : t[i] > t[i - 1]

--------------------------------------------------------------------------------
(* The reader and the three triggers.                                        *)

Spend(now) ==
    /\ \E b \in Bounds : \A what \in DOMAIN b : now[what] <= b[what]
    /\ spent' = now

Fault == Spend([spent EXCEPT !.faults = @ + 1])

(* The reader takes up the book at p: past all of it read so far, or back.   *)
Forward(p) == \A d \in Services : held[d].pos # None => held[d].pos <= p

MovesTo(p) ==
    Spend([spent EXCEPT !.moves = @ + 1, !.rewinds = IF Forward(p) THEN @ ELSE @ + 1])

(* Whatever is stored at a polled service looks changed to the next poll.    *)
Unseen(c) ==
    IF c \in Polled /\ known[c] # "nothing"
    THEN known' = [known EXCEPT ![c] = "moved"] ELSE UNCHANGED known

(* The reader listens on, or skips back; ABS announces it.                   *)
Listen(p) ==
    /\ MovesTo(p) /\ p # held[Audio].pos
    /\ held' = [held EXCEPT ![Audio] = Position(p, "reader")]
    /\ event' = p
    /\ UNCHANGED <<saved, wrote, guarded, trail, recent, put, known, waiting, wanted,
                   tried, cycle>>

(* The reader turns pages in an app that the poller watches.                 *)
Read(c, p) ==
    /\ c \in Polled
    /\ MovesTo(p) /\ p # held[c].pos
    /\ held' = [held EXCEPT ![c] = Position(p, "reader")]
    /\ Unseen(c)
    /\ UNCHANGED <<saved, wrote, guarded, trail, recent, put, waiting, event, wanted,
                   tried, cycle>>

(* A PUT that kosync_put_progress accepts: it is stored, written to the      *)
(* State row, observed, remembered as external, and asks for a sync.         *)
Put(p) ==
    /\ MovesTo(p)
    /\ held' = [held EXCEPT ![Device] = Position(p, "reader")]
    /\ saved' = [saved EXCEPT ![Device] = p]
    /\ Record(Device, p)
    /\ put' = p
    /\ wanted' = wanted \cup {"put"}
    /\ UNCHANGED <<wrote, guarded, known, waiting, event, tried, cycle>>

(* A thread is started for an instant sync.                                  *)
Ask(really) == wanted' = IF really THEN wanted \cup {"thread"} ELSE wanted

(* Mutant: the poller does not ask the write tracker.                        *)
PollEchoUnasked(c) == FALSE

(* What the poller takes for the bridge's own write.                         *)
PollEcho(c) ==
    /\ wrote[c] # None
    /\ IF c \in Marked THEN held[c].by = "bridge" ELSE wrote[c] = held[c].pos

(* _poll_client_for_user: the first poll only remembers the position; a      *)
(* foreign change asks for a sync, at once or when it has settled.           *)
Poll(c) ==
    /\ c \in Polled
    /\ known' = [known EXCEPT ![c] = "same"]
    /\ \/ /\ known[c] = "nothing" \/ (known[c] = "moved" /\ PollEcho(c))
          /\ UNCHANGED <<trail, recent, waiting, wanted>>
       \/ /\ known[c] = "moved" /\ ~PollEcho(c)
          /\ Record(c, held[c].pos)
          /\ waiting' = waiting \cup ({c} \cap Settling)
          /\ Ask(c \notin Settling)
       \/ /\ known[c] = "same" /\ c \in waiting
          /\ waiting' = waiting \ {c}
          /\ Ask(~PollEcho(c))
          /\ UNCHANGED <<trail, recent>>
    /\ UNCHANGED <<world, wrote, guarded, put, event, tried, cycle, spent>>

(* _check_and_fire: the debounce of an announced position has run out.       *)
SocketFire ==
    /\ event # None
    /\ event' = None
    /\ IF guarded THEN UNCHANGED <<trail, recent, wanted>>
       ELSE Record(Audio, event) /\ Ask(TRUE)
    /\ UNCHANGED <<world, wrote, guarded, put, known, waiting, tried, cycle, spent>>

--------------------------------------------------------------------------------
(* The cycle reads: everything it decides on is read here, in parallel.      *)

Begin(target, reached, rough) ==
    /\ cycle.step = "idle"
    /\ IF target THEN \E w \in wanted : wanted' = wanted \ {w} ELSE UNCHANGED wanted
    /\ reached \subseteq Services
    /\ IF reached = Services THEN UNCHANGED spent ELSE Fault
    /\ rough \subseteq Rough \cap reached
    /\ LET reads == [c \in {d \in reached : held[d].pos # None} |-> held[c]]
       IN  cycle' = IF DOMAIN reads = {} THEN Idle
                    ELSE [step |-> "read", target |-> target, reads |-> reads,
                          prev |-> saved, rough |-> rough, put |-> put,
                          fill |-> Device \in reached /\ held[Device].pos = None
                                                      /\ saved[Device] = None]
    /\ UNCHANGED <<world, wrote, guarded, trail, recent, put, known, waiting, event, tried>>

(* The cycle's view: positions read, State rows read with them, movers.      *)
Seen == DOMAIN cycle.reads
At(c) == cycle.reads[c].pos
Before(c) == IF cycle.prev[c] = None THEN 0 ELSE cycle.prev[c]
Moved == {c \in Seen : At(c) # Before(c)}
Disagree == \E c, d \in Seen : At(c) # At(d)
Appeared == \E c \in Seen : cycle.prev[c] = None
Normalized == Audio \in Seen /\ Seen # {Audio}
Peers(c, S) == S \ {c}
Behind(c, S) == \E d \in Peers(c, S) : At(c) < At(d)
Furthest(S) == {c \in S : \A d \in S : At(d) <= At(c)}

(* _peer_position_is_own_writeback.                                          *)
Echo(c) ==
    /\ wrote[c] # None
    /\ ~(c = Device /\ cycle.put = At(c) /\ cycle.reads[c].by = "reader")
    /\ IF c \in Marked THEN cycle.reads[c].by = "bridge" ELSE wrote[c] = At(c)

(* Guard 2: a peer further on was stamped much later, and not by the bridge. *)
Vetoed(c) ==
    /\ cycle.reads[c].old
    /\ \E d \in Peers(c, Seen) : At(c) < At(d) /\ ~cycle.reads[d].old /\ ~Echo(d)

(* _rewind_trust.                                                            *)
Trusted(c) == Corroborated(trail[c]) /\ c \notin cycle.rough /\ ~Echo(c)

Echoes == {c \in Seen : Echo(c)}
Movers == {c \in Moved : ~Vetoed(c) /\ ~Echo(c)}
RecentPut(c) == c = Device /\ cycle.put = At(c)

(* A lone text mover that the normalized timeline speaks against.            *)
Ahead(c) == At(c) > Before(c) /\ \A d \in Peers(c, Seen) : At(d) < At(c)
RoughMover(c) == c \in cycle.rough /\ ~RecentPut(c) /\ ~Ahead(c)
Rewound(c) == c \notin cycle.rough /\ Behind(c, Seen)
Demoted(c) ==
    /\ Movers = {c} /\ Normalized /\ c # Audio
    /\ RoughMover(c) \/ (Rewound(c) /\ ~Trusted(c))

(* _should_hold_backward_leader.                                             *)
Hold(c) ==
    /\ At(c) < Before(c)
    /\ Seen # {c}
    /\ ~Trusted(c)
    /\ trail[c] # <<>> /\ c \in recent

(* Mutant: with nothing moved, every service is a candidate.                 *)
CandidatesWithEchoes ==
    IF Movers = {} \/ \E c \in Movers : Demoted(c) THEN Seen ELSE Movers

(* Furthest wins among the candidates that are not the bridge's own writes.  *)
Candidates ==
    (IF Movers = {} \/ \E c \in Movers : Demoted(c) THEN Seen ELSE Movers) \ Echoes
Rewinders == {c \in Candidates : Behind(c, Candidates) /\ Trusted(c)}
Solid == IF Candidates \subseteq cycle.rough THEN Candidates ELSE Candidates \ cycle.rough
PutLeads ==
    /\ Device \in Candidates /\ RecentPut(Device)
    /\ ~\E d \in (Candidates \ cycle.rough) \ {Device} : At(Device) < At(d)
Bootstrap(c) ==   \* the guardrail against resetting a reader to an unstarted audiobook
    Demoted(c) /\ RoughMover(c) /\ At(Audio) = 0 /\ At(c) > 0
Chosen ==
    LET best == Furthest(Solid)
    IN  IF Audio \notin best THEN best
        ELSE IF \E c \in Movers : Bootstrap(c) THEN Movers ELSE {Audio}

(* _determine_leader: the services that may lead; none when it returns None. *)
Leaders ==
    IF Movers = {} /\ Normalized /\ ~Disagree THEN {}
    ELSE IF \E c \in Movers : Movers = {c} /\ ~Demoted(c)
    THEN {c \in Movers : ~Hold(c)}
    ELSE IF Candidates = {} THEN {}
    ELSE IF ~Normalized THEN Furthest(Candidates)
    ELSE IF Rewinders # {} THEN Rewinders
    ELSE IF PutLeads THEN {Device}
    ELSE Chosen

(* _approved_rewind.                                                         *)
Approved(c) ==
    /\ Normalized /\ Trusted(c)
    /\ IF Movers = {c} THEN c # Audio /\ Rewound(c) ELSE c \in Rewinders

--------------------------------------------------------------------------------
(* The cycle decides.                                                        *)

Settled == Moved = {} /\ ~Disagree

(* _should_initialize_followers: a settled book is left alone, but for a     *)
(* service without a position, which is filled once per cooldown.            *)
FillDue == cycle.fill /\ ~tried /\ \E c \in Seen : At(c) > 0

(* Mutant: an instant sync waits for a delta too.                            *)
DueOnDelta == IF Settled THEN FillDue ELSE Moved # {} \/ Appeared

(* A disagreement in which nothing moved waits for a new read event.         *)
Due == IF Settled THEN FillDue ELSE Moved # {} \/ Appeared \/ cycle.target

Pass ==
    /\ ~Due
    /\ cycle' = Idle
    /\ UNCHANGED <<saved, tried, spent>>

(* Where resolving the leader's position may land: there, or, failing, at    *)
(* either end of the book or nowhere.                                        *)
Locators(c) == {At(c), 0, Top, None}
Collapsed(located, c) == located # None /\ located # At(c)

(* Mutant: a leader whose position does not resolve is written all the same. *)
DispatchUnresolved(c, located) ==
    /\ IF located = At(c) THEN UNCHANGED spent ELSE Fault
    /\ saved' = saved
    /\ cycle' = [step |-> "write", lead |-> c, at |-> located,
                 approved |-> Approved(c), reads |-> cycle.reads,
                 todo |-> Services \ {c}, sent |-> None, done |-> [d \in {} |-> 0]]

(* Mutant: a locator at an end of the book is believed.                      *)
DispatchAnywhere(c, located) ==
    /\ IF located = At(c) THEN UNCHANGED spent ELSE Fault
    /\ saved' = saved
    /\ cycle' = IF located # None
                THEN [step |-> "write", lead |-> c, at |-> located,
                      approved |-> Approved(c), reads |-> cycle.reads,
                      todo |-> Services \ {c}, sent |-> None, done |-> [d \in {} |-> 0]]
                ELSE Idle

(* A leader whose position resolves is written to the others; one that       *)
(* collapses to an end of the book only has its own State row brought up to  *)
(* date.                                                                     *)
Dispatch(c, located) ==
    /\ IF located = At(c) THEN UNCHANGED spent ELSE Fault
    /\ saved' = IF Collapsed(located, c) THEN [saved EXCEPT ![c] = At(c)] ELSE saved
    /\ cycle' = IF located = At(c)
                THEN [step |-> IF Settled THEN "fill" ELSE "write",
                      lead |-> c, at |-> At(c), approved |-> Approved(c),
                      reads |-> cycle.reads,
                      todo |-> IF Settled THEN {Device} ELSE Services \ {c},
                      sent |-> None, done |-> [d \in {} |-> 0]]
                ELSE Idle

Elect ==
    /\ Due
    /\ tried' = (tried \/ Settled)
    /\ LET leaders == Leaders
       IN  \/ leaders = {} /\ cycle' = Idle /\ UNCHANGED <<saved, spent>>
           \/ \E c \in leaders : \E located \in Locators(c) : Dispatch(c, located)

Decide ==
    /\ cycle.step = "read"
    /\ Pass \/ Elect
    /\ UNCHANGED <<held, wrote, guarded, trail, recent, put, known, waiting, event, wanted>>

--------------------------------------------------------------------------------
(* The cycle writes the others, KoSync last, and saves what it did.  A write *)
(* is at the service before the bridge has the answer and records it.        *)

Turn(c) ==
    /\ cycle.step \in {"write", "fill"}
    /\ c \in cycle.todo
    /\ cycle.sent = None
    /\ c = Device => cycle.todo = {Device}

(* The bridge waits for c's answer.                                          *)
Awaits(c) == cycle.step \in {"write", "fill"} /\ cycle.sent = c

Finish(c, done) == cycle' = [cycle EXCEPT !.todo = @ \ {c}, !.sent = None, !.done = done]
Landed(c, p) == [d \in DOMAIN cycle.done \cup {c} |-> IF d = c THEN p ELSE cycle.done[d]]

(* An audio client does not go back unless the rewind was approved; a        *)
(* locator at the start of the book is written without that check.           *)
Refused(c) == c = Audio /\ cycle.at # 0 /\ cycle.at < held[c].pos /\ ~cycle.approved

Refuse(c) ==
    /\ Turn(c) /\ Refused(c)
    /\ Finish(c, Landed(c, held[c].pos))
    /\ UNCHANGED <<world, memory, spent>>

(* fill_if_absent: a device has stored a position meanwhile (409).           *)
Occupied(c) == cycle.step = "fill" /\ held[c].pos # None

(* The service takes the position; ABS announces it, and the KoSync server   *)
(* takes it for the end of what a device had still in its debounce.          *)
Write(c) ==
    /\ Turn(c) /\ ~Refused(c) /\ ~Occupied(c)
    /\ held' = [held EXCEPT ![c] = Position(cycle.at, "sent")]
    /\ event' = IF c = Audio THEN cycle.at ELSE event
    /\ Unseen(c)
    /\ wanted' = IF c = Device THEN wanted \ {"put"} ELSE wanted
    /\ cycle' = [cycle EXCEPT !.sent = c]
    /\ UNCHANGED <<saved, wrote, guarded, trail, recent, put, waiting, tried, spent>>

(* The answer has come: the write is recorded, whoever has moved since.      *)
Answered(c) ==
    /\ Awaits(c)
    /\ held' = IF held[c].by = "sent" THEN [held EXCEPT ![c] = Position(held[c].pos, "bridge")] ELSE held
    /\ wrote' = [wrote EXCEPT ![c] = cycle.at]
    /\ guarded' = (guarded \/ c = Audio)
    /\ Finish(c, Landed(c, cycle.at))
    /\ UNCHANGED <<saved, trail, recent, put, known, waiting, event, wanted, tried, spent>>

(* The request fails before the service has it, or its answer is lost.       *)
WriteFails(c) ==
    /\ Turn(c) \/ Awaits(c)
    /\ IF Turn(c) /\ Occupied(c) THEN UNCHANGED spent ELSE Fault
    /\ Finish(c, cycle.done)
    /\ UNCHANGED <<world, memory>>

(* Mutant: only the followers' rows are saved.                               *)
SaveLeaderNot ==
    /\ cycle.step = "write" /\ cycle.todo = {}
    /\ cycle' = [cycle EXCEPT !.step = "followers"]
    /\ UNCHANGED <<world, memory, spent>>

SaveLeader ==
    /\ cycle.step = "write" /\ cycle.todo = {}
    /\ saved' = [saved EXCEPT ![cycle.lead] = cycle.at]
    /\ cycle' = [cycle EXCEPT !.step = "followers"]
    /\ UNCHANGED <<held, memory, spent>>

SaveFollowers ==
    /\ cycle.step = "followers"
    /\ saved' = [c \in Services |-> IF c \in DOMAIN cycle.done THEN cycle.done[c] ELSE saved[c]]
    /\ cycle' = Idle
    /\ UNCHANGED <<held, memory, spent>>

(* _finish_follower_init.                                                    *)
SaveFill ==
    /\ cycle.step = "fill" /\ cycle.todo = {}
    /\ IF DOMAIN cycle.done = {} THEN UNCHANGED <<saved, tried>>
       ELSE saved' = [saved EXCEPT ![Device] = cycle.done[Device]] /\ tried' = FALSE
    /\ cycle' = Idle
    /\ UNCHANGED <<held, wrote, guarded, trail, recent, put, known, waiting, event, wanted,
                   spent>>

--------------------------------------------------------------------------------
(* Time and restarts.                                                        *)

Restful == cycle.step = "idle" /\ event = None /\ wanted = {}

(* Longer than the hold of a backward move and the socket's own window.      *)
Pause ==
    /\ Restful
    /\ recent # {} \/ guarded
    /\ recent' = {} /\ guarded' = FALSE
    /\ UNCHANGED <<world, wrote, trail, put, known, waiting, event, wanted, tried, cycle,
                   spent>>

(* Longer than every memory: by then every service has been polled again.    *)
LongPause ==
    /\ Restful /\ recent = {} /\ ~guarded /\ waiting = {}
    /\ \A c \in Polled : known[c] = "same"
    /\ \/ \E c \in Services : wrote[c] # None \/ trail[c] # <<>> \/ ~held[c].old
       \/ put # None
       \/ tried
    /\ held' = [c \in Services |-> [held[c] EXCEPT !.old = TRUE]]
    /\ wrote' = [c \in Services |-> None]
    /\ trail' = [c \in Services |-> <<>>]
    /\ put' = None
    /\ tried' = FALSE
    /\ UNCHANGED <<saved, guarded, recent, known, waiting, event, wanted, cycle, spent>>

(* The process restarts: the services and the State rows are all that lasts. *)
Restart ==
    /\ Fault
    /\ wrote' = [c \in Services |-> None]
    /\ guarded' = FALSE
    /\ trail' = [c \in Services |-> <<>>]
    /\ recent' = {}
    /\ put' = None
    /\ known' = [c \in Polled |-> "nothing"]
    /\ waiting' = {}
    /\ event' = None
    /\ wanted' = {}
    /\ tried' = FALSE
    /\ cycle' = Idle
    /\ UNCHANGED world

BeginAny(target) ==
    \E reached \in SUBSET Services : \E rough \in SUBSET Rough : Begin(target, reached, rough)
AnyWrite == \E c \in Services : Refuse(c) \/ Write(c) \/ Answered(c) \/ WriteFails(c)
Save == SaveLeader \/ SaveFollowers \/ SaveFill

Next ==
    \/ \E p \in Positions : Listen(p)
    \/ \E c \in Polled, p \in Positions : Read(c, p)
    \/ \E p \in Positions : Put(p)
    \/ \E c \in Polled : Poll(c)
    \/ SocketFire
    \/ \E target \in BOOLEAN : BeginAny(target)
    \/ Decide
    \/ AnyWrite
    \/ Save
    \/ Pause
    \/ LongPause
    \/ Restart

Spec == Init /\ [][Next]_vars

(* The poller, the socket's debounce loop and the daemon run as long as the  *)
(* process does; a queued instant sync gets the lock; time passes.           *)
Fairness ==
    /\ \A c \in Polled : WF_vars(Poll(c))
    /\ WF_vars(SocketFire)
    /\ \A target \in BOOLEAN : SF_vars(BeginAny(target))
    /\ WF_vars(Decide)
    /\ WF_vars(AnyWrite)
    /\ WF_vars(Save)
    /\ SF_vars(Pause)

FairSpec == Spec /\ Fairness

--------------------------------------------------------------------------------
(* Properties.                                                               *)

(* A position that the bridge itself put at a service, while it remembers    *)
(* having done so, is never what it elects: whichever of the ways to the     *)
(* lead is taken (_determine_leader, Guard 3 and the furthest-wins filter).  *)
EchoNeverLeads ==
    cycle.step \in {"write", "fill"} /\ cycle.reads[cycle.lead].by = "bridge"
        => wrote[cycle.lead] = None

(* The evidence for a rewind is the reader's: no report that the poller or   *)
(* the socket adds to a trail is a write of the bridge come back, once the   *)
(* bridge has recorded it (observation_trail, "never our own write-back").   *)
(* Before the record, or without it where an answer was lost, the poller     *)
(* cannot tell it from reading.                                              *)
TrailIsTheReaders ==
    [][\A c \in Services \ {Device} :
          trail'[c] # trail[c] /\ trail'[c] # <<>> => held[c].by # "bridge"]_vars

(* The positions of the cycle are positions that services hold: a locator    *)
(* that fails never puts the book at its start or end, and neither does a    *)
(* write that is refused, a failed step or a restart.                        *)
Noted ==
    IF cycle.step = "idle" THEN {}
    ELSE IF cycle.step = "read" THEN {At(c) : c \in Seen}
    ELSE {cycle.at}

Seat(c) == [pos |-> held[c].pos, by |-> IF held[c].by = "reader" THEN "reader" ELSE "bridge"]

Relay == INSTANCE PositionRelay WITH held <- [c \in Services |-> Seat(c)], noted <- Noted

OnlyRelays == Relay!Spec

(* Once the reader has stopped, the bridge stops writing: its own writes     *)
(* come back to it through polls, socket events and daemon cycles, and none  *)
(* of them makes it write again (the round trips of #416).  A poll that falls *)
(* between a write and its record does, so the polls must not do so forever. *)
Quiesces ==
    <>[][\A c \in Polled : Awaits(c) => ~Poll(c)]_vars => <>[](cycle.step \notin {"write", "fill"})

(* When the reader only went forward and nothing failed, the services end up *)
(* at one position: no report is mistaken for an echo or waits for another.  *)
Converges ==
    [](spent.rewinds = 0 /\ spent.faults = 0)
        => <>[](\A c, d \in Services : held[c].pos # None /\ held[d].pos # None
                                        => held[c].pos = held[d].pos)

--------------------------------------------------------------------------------
(* What CHANGELOG.md:280 says of the fill; the code does otherwise.          *)

(* "A mapped book that KoSync has no position for gets one: once your other  *)
(* services agree": a fill that _should_initialize_followers says is due is  *)
(* carried out by the cycle that found it so.                                *)
FillNotDiscarded ==
    [][cycle.step = "read" /\ ~tried /\ tried' => cycle'.step = "fill"]_vars

================================================================================

---------------------------- MODULE SyncCycleProofs ----------------------------
(***************************************************************************)
(* Proofs about SyncCycle, for any services, any length of the book and    *)
(* any mix of moves, rewinds and faults: the bridge never follows its own  *)
(* write, its evidence for rewinds is the reader's, and every position it  *)
(* writes is one that a service held (PositionRelay). Last, what its State *)
(* rows are worth as long as no restart comes between a write and its row. *)
(***************************************************************************)
EXTENDS SyncCycle, SequenceTheorems, TLAPS

Held == [pos : Positions \cup {None}, by : Writers, old : BOOLEAN]
Reads == UNION {[D -> [pos : Positions, by : Writers, old : BOOLEAN]] :
                   D \in SUBSET Services}

(* What a cycle has in hand while it decides and while it writes.            *)
Deciding ==
    [step : {"read"}, target : BOOLEAN, reads : Reads, prev : [Services -> Positions \cup {None}],
     rough : SUBSET Services, put : Positions \cup {None}, fill : BOOLEAN]
Writing ==
    [step : {"write", "fill", "followers"}, lead : Services, at : Positions, approved : BOOLEAN,
     reads : Reads, todo : SUBSET Services, sent : Services \cup {None}, done : UNION {[D -> Positions] : D \in SUBSET Services}]

CycleShape ==
    /\ cycle \in {Idle} \cup Deciding \cup Writing
    /\ cycle.step = "read" /\ cycle.fill => Device \notin Seen
    /\ cycle.step \in {"write", "fill"} => cycle.lead \in Seen /\ cycle.lead \notin cycle.todo
    /\ cycle.step = "fill" => cycle.todo \subseteq {Device} /\ DOMAIN cycle.done \subseteq {Device}
    /\ cycle.step \in {"write", "fill", "followers"} /\ cycle.sent # None
          => cycle.step # "followers" /\ cycle.sent \in cycle.todo

(* What the bridge remembers of its writes is true of what it wrote, at the  *)
(* services and in what the cycle has read of them; and what it will record  *)
(* of the write it awaits the answer of is true of the service, unless the   *)
(* reader has moved on there.                                                *)
HeldAsWritten ==
    \A c \in Services : held[c].by = "bridge" /\ wrote[c] # None => held[c].pos = wrote[c]
ReadAsWritten ==
    cycle.step = "read" =>
      \A c \in Seen : cycle.reads[c].by = "bridge" /\ wrote[c] # None => At(c) = wrote[c]

SentAsAwaited ==
    \A c \in Services : Awaits(c) =>
       held[c].by = "reader" \/ (held[c].by = "sent" /\ held[c].pos = cycle.at)

(* A poll or a socket event still to come finds a recorded write remembered. *)
PollFindsWrite == \A c \in Polled : held[c].by = "bridge" /\ known[c] = "moved" => wrote[c] # None
EventFindsWrite == event # None /\ ~guarded => held[Audio].by # "bridge"

WritesRemembered ==
    HeldAsWritten /\ ReadAsWritten /\ SentAsAwaited /\ PollFindsWrite /\ EventFindsWrite

IInv == TypeOK /\ CycleShape /\ WritesRemembered /\ EchoNeverLeads

(* The initial states: nothing written, nothing in hand.                     *)
LEMMA InitIInv == Init => IInv
<1> SUFFICES ASSUME Init PROVE IInv
  OBVIOUS
<1> USE ServiceAssumption
<1>1. TypeOK
  <2>1. trail \in [Services -> Seq(Positions)] /\ \A c \in Services : Len(trail[c]) <= MaxTrail
    BY EmptySeq DEF Init, MaxTrail
  <2>2. /\ held \in [Services -> Held]
        /\ \A c \in Services \ {Device} : held[c].pos # None
    BY DEF Init, Held, Position, Writers
  <2>3. saved \in [Services -> Positions \cup {None}]
    BY DEF Init
  <2>4. /\ wrote \in [Services -> Positions \cup {None}] /\ put \in Positions \cup {None}
        /\ known \in [Polled -> {"nothing", "same", "moved"}] /\ event \in Positions \cup {None}
    BY DEF Init
  <2>5. spent \in [moves : Nat, rewinds : Nat, faults : Nat]
    BY DEF Init
  <2> QED
    BY <2>1, <2>2, <2>3, <2>4, <2>5 DEF Init, TypeOK, Held, Polled, Steps, Idle
<1>2. CycleShape /\ EchoNeverLeads
  BY DEF Init, CycleShape, EchoNeverLeads, Idle
<1>3. WritesRemembered
  BY DEF Init, WritesRemembered, HeldAsWritten, ReadAsWritten, SentAsAwaited, Awaits,
         PollFindsWrite, EventFindsWrite, Idle
<1> QED
  BY <1>1, <1>2, <1>3 DEF IInv

--------------------------------------------------------------------------------
(* Who may lead.                                                             *)

(* Every way to the lead goes to a service that was read and whose position  *)
(* is not the bridge's own write.                                            *)
LEMMA LeadersAreReaders == Leaders \subseteq Seen \ Echoes
<1>1. Movers \subseteq Seen \ Echoes
  BY DEF Movers, Moved, Echoes
<1>2. Candidates \subseteq Seen \ Echoes
  BY <1>1 DEF Candidates
<1>3. ASSUME NEW S PROVE Furthest(S) \subseteq S
  BY DEF Furthest
<1>4. Rewinders \subseteq Candidates /\ Solid \subseteq Candidates
  BY DEF Rewinders, Solid
<1>5. Chosen \subseteq Seen \ Echoes
  BY <1>1, <1>2, <1>3, <1>4 DEF Chosen
<1>6. PutLeads => Device \in Candidates
  BY DEF PutLeads
<1> QED
  BY <1>1, <1>2, <1>3, <1>4, <1>5, <1>6 DEF Leaders

--------------------------------------------------------------------------------
(* The types.                                                                *)

(* record_observation keeps a trail of at most MaxTrail positions.           *)
LEMMA RecordedTrail ==
    ASSUME NEW t \in Seq(Positions), Len(t) <= MaxTrail, NEW p \in Positions
    PROVE  /\ Recorded(t, p) \in Seq(Positions)
           /\ Len(Recorded(t, p)) <= MaxTrail
<1>1. CASE t # <<>> /\ Last(t) = p
  BY <1>1 DEF Recorded
<1>0. Len(t) \in Nat
  BY LenProperties
<1>2. CASE ~(t # <<>> /\ Last(t) = p) /\ Len(t) < MaxTrail
  <2>1. Append(t, p) \in Seq(Positions) /\ Len(Append(t, p)) = Len(t) + 1
    BY AppendProperties
  <2>2. Recorded(t, p) = Append(t, p)
    BY <1>2 DEF Recorded
  <2>3. Len(t) < MaxTrail
    BY <1>2
  <2> QED
    BY <1>0, <2>1, <2>2, <2>3 DEF MaxTrail
<1>3. CASE ~(t # <<>> /\ Last(t) = p) /\ ~(Len(t) < MaxTrail)
  <2>1. Len(t) >= MaxTrail
    <3>1. ~(Len(t) < MaxTrail)
      BY <1>3
    <3> QED
      BY <1>0, <3>1 DEF MaxTrail
  <2>2. t # <<>>
    <3>1. Len(<<>>) = 0
      BY EmptySeq
    <3>2. Len(t) # 0
      BY <1>0, <2>1 DEF MaxTrail
    <3> QED
      BY <3>1, <3>2, Zenon
  <2>3. Tail(t) \in Seq(Positions) /\ Len(Tail(t)) = Len(t) - 1
    BY <2>2, HeadTailProperties
  <2>4. Append(Tail(t), p) \in Seq(Positions) /\ Len(Append(Tail(t), p)) = Len(Tail(t)) + 1
    BY <2>3, AppendProperties
  <2>5. Recorded(t, p) = Append(Tail(t), p)
    BY <1>3 DEF Recorded
  <2>6. Len(Recorded(t, p)) = Len(t)
    BY <1>0, <2>3, <2>4, <2>5
  <2> QED
    BY <2>4, <2>5, <2>6
<1> QED
  BY <1>1, <1>2, <1>3

(* A recorded report keeps the trails and what is recent in shape.           *)
LEMMA RecordStep ==
    ASSUME TypeOK, NEW c \in Services, NEW p \in Positions, Record(c, p)
    PROVE  /\ trail' \in [Services -> Seq(Positions)]
           /\ \A d \in Services : Len(trail'[d]) <= MaxTrail
           /\ recent' \subseteq Services
<1>1. trail[c] \in Seq(Positions) /\ Len(trail[c]) <= MaxTrail
  BY DEF TypeOK
<1>2. Recorded(trail[c], p) \in Seq(Positions) /\ Len(Recorded(trail[c], p)) <= MaxTrail
  BY <1>1, RecordedTrail
<1>3. trail' = [trail EXCEPT ![c] = Recorded(trail[c], p)] /\ recent' = recent \cup {c}
  BY DEF Record
<1> QED
  BY <1>2, <1>3 DEF TypeOK

(* A fault counts, and so does a move of the reader.                         *)
LEMMA FaultSpent ==
    ASSUME TypeOK, Fault
    PROVE  spent' \in [moves : Nat, rewinds : Nat, faults : Nat]
<1>1. spent \in [moves : Nat, rewinds : Nat, faults : Nat]
  BY DEF TypeOK
<1>2. [spent EXCEPT !.faults = spent.faults + 1] \in [moves : Nat, rewinds : Nat, faults : Nat]
  BY <1>1
<1>3. spent' = [spent EXCEPT !.faults = spent.faults + 1]
  BY DEF Fault, Spend
<1> QED
  BY <1>2, <1>3

(* Two counters of a record of counters.                                     *)
LEMMA Counted ==
    ASSUME NEW s \in [moves : Nat, rewinds : Nat, faults : Nat], NEW m \in Nat, NEW b \in Nat
    PROVE  [s EXCEPT !.moves = m, !.rewinds = b] \in [moves : Nat, rewinds : Nat, faults : Nat]
  OBVIOUS

(* A move of the reader is counted, and so is a step back.                   *)
LEMMA MoveSpent ==
    ASSUME TypeOK, NEW p, MovesTo(p)
    PROVE  spent' \in [moves : Nat, rewinds : Nat, faults : Nat]
<1>1. spent \in [moves : Nat, rewinds : Nat, faults : Nat]
  BY DEF TypeOK
<1> DEFINE back == IF Forward(p) THEN spent.rewinds ELSE spent.rewinds + 1
<1>2. back \in Nat
  BY <1>1
<1>3. spent.moves + 1 \in Nat
  BY <1>1
<1>4. spent' = [spent EXCEPT !.moves = spent.moves + 1, !.rewinds = back]
  BY DEF MovesTo, Spend
<1> HIDE DEF back
<1> QED
  BY <1>1, <1>2, <1>3, <1>4, Counted

(* A position taken by one service, from the reader or from the bridge.      *)
LEMMA MovedHeld ==
    ASSUME TypeOK, NEW c \in Services, NEW p \in Positions, NEW by \in Writers,
           held' = [held EXCEPT ![c] = Position(p, by)]
    PROVE  /\ held' \in [Services -> Held]
           /\ \A d \in Services \ {Device} : held'[d].pos # None
<1>1. Position(p, by) \in Held /\ Position(p, by).pos # None
  BY ServiceAssumption DEF Position, Held
<1> QED
  BY <1>1 DEF TypeOK, Held

(* What the poller knows after a position was stored.                        *)
LEMMA UnseenKnown ==
    ASSUME TypeOK, NEW c, Unseen(c)
    PROVE  known' \in [Polled -> {"nothing", "same", "moved"}]
  BY DEF TypeOK, Unseen

(* What a cycle has read.                                                    *)
LEMMA ReadsPositions ==
    ASSUME NEW r \in Reads
    PROVE  /\ DOMAIN r \subseteq Services
           /\ \A c \in DOMAIN r : r[c].pos \in Positions /\ r[c] \in Held
  BY DEF Reads, Held

(* A cycle that reads.                                                       *)
LEMMA DecidingShape ==
    ASSUME CycleShape, cycle.step = "read"
    PROVE  cycle \in Deciding
  BY DEF CycleShape, Deciding, Writing, Idle

(* A cycle that has a leader.                                                *)
LEMMA WritingShape ==
    ASSUME CycleShape, cycle.step \in {"write", "fill", "followers"}
    PROVE  cycle \in Writing
  BY DEF CycleShape, Deciding, Writing, Idle

Results == UNION {[D -> Positions] : D \in SUBSET Services}

(* The results of the followers written so far, with one more.               *)
LEMMA LandedResults ==
    ASSUME cycle \in Writing, NEW c \in Services, NEW p \in Positions
    PROVE  Landed(c, p) \in Results /\ DOMAIN Landed(c, p) = DOMAIN cycle.done \cup {c}
<1>1. PICK D \in SUBSET Services : cycle.done \in [D -> Positions]
  BY DEF Writing
<1>2. DOMAIN cycle.done = D
  BY <1>1
<1>3. Landed(c, p) \in [D \cup {c} -> Positions]
  BY <1>1, <1>2 DEF Landed
<1> QED
  BY <1>2, <1>3 DEF Results, Landed

(* One service after the other: only what is left to do, and what was done.  *)
LEMMA FinishShape ==
    ASSUME cycle \in Writing, NEW c \in Services, NEW done \in Results, Finish(c, done)
    PROVE  /\ cycle' \in Writing
           /\ cycle'.step = cycle.step /\ cycle'.lead = cycle.lead /\ cycle'.at = cycle.at
           /\ cycle'.reads = cycle.reads
           /\ cycle'.todo = cycle.todo \ {c} /\ cycle'.sent = None /\ cycle'.done = done
<1>1. cycle' = [cycle EXCEPT !.todo = cycle.todo \ {c}, !.sent = None, !.done = done]
  BY DEF Finish
<1>2. cycle.todo \ {c} \in SUBSET Services
  BY DEF Writing
<1> QED
  BY <1>1, <1>2 DEF Writing, Results

(* A write whose answer is awaited: nothing else has changed.                *)
LEMMA SentShape ==
    ASSUME cycle \in Writing, NEW c \in Services, cycle' = [cycle EXCEPT !.sent = c]
    PROVE  /\ cycle' \in Writing
           /\ cycle'.step = cycle.step /\ cycle'.lead = cycle.lead /\ cycle'.at = cycle.at
           /\ cycle'.reads = cycle.reads
           /\ cycle'.todo = cycle.todo /\ cycle'.sent = c /\ cycle'.done = cycle.done
  BY DEF Writing

(* Whatever becomes of a write, the service was still to be written, and now *)
(* the bridge awaits its answer or is done with it.                          *)
LEMMA TurnShape ==
    ASSUME TypeOK, CycleShape, NEW c \in Services,
           Refuse(c) \/ Write(c) \/ Answered(c) \/ WriteFails(c)
    PROVE  /\ cycle \in Writing /\ cycle.step \in {"write", "fill"} /\ c \in cycle.todo
           /\ cycle' \in Writing
           /\ cycle'.step = cycle.step /\ cycle'.lead = cycle.lead /\ cycle'.at = cycle.at
           /\ cycle'.reads = cycle.reads
           /\ \/ /\ Write(c)
                 /\ cycle'.todo = cycle.todo /\ cycle'.sent = c /\ cycle'.done = cycle.done
              \/ /\ ~Write(c)
                 /\ cycle'.todo = cycle.todo \ {c} /\ cycle'.sent = None
                 /\ DOMAIN cycle'.done \subseteq DOMAIN cycle.done \cup {c}
<1> USE ServiceAssumption
<1>1. cycle.step \in {"write", "fill"} /\ (Turn(c) \/ cycle.sent = c)
  BY DEF Refuse, Write, Answered, WriteFails, Turn, Awaits
<1>2. cycle \in Writing
  BY <1>1, WritingShape
<1>3. c # None
  OBVIOUS
<1>4. c \in cycle.todo
  BY <1>1, <1>3 DEF CycleShape, Turn
<1>5. CASE Write(c)
  <2>1. cycle' = [cycle EXCEPT !.sent = c]
    BY <1>5 DEF Write
  <2> QED
    BY <1>1, <1>2, <1>4, <1>5, <2>1, SentShape
<1>6. ASSUME NEW done \in Results, Finish(c, done), DOMAIN done \subseteq DOMAIN cycle.done \cup {c}
      PROVE  /\ cycle' \in Writing
             /\ cycle'.step = cycle.step /\ cycle'.lead = cycle.lead /\ cycle'.at = cycle.at
             /\ cycle'.reads = cycle.reads
             /\ cycle'.todo = cycle.todo \ {c} /\ cycle'.sent = None
             /\ DOMAIN cycle'.done \subseteq DOMAIN cycle.done \cup {c}
  BY <1>2, <1>6, FinishShape
<1>7. ASSUME ~Write(c)
      PROVE  \E done \in Results : Finish(c, done) /\ DOMAIN done \subseteq DOMAIN cycle.done \cup {c}
  <2>1. CASE Refuse(c)
    <3>1. held[c].pos \in Positions
      BY <2>1 DEF Refuse, Refused, TypeOK
    <3>2. /\ Landed(c, held[c].pos) \in Results
          /\ DOMAIN Landed(c, held[c].pos) \subseteq DOMAIN cycle.done \cup {c}
      BY <1>2, <3>1, LandedResults
    <3> QED
      BY <2>1, <3>2 DEF Refuse
  <2>2. CASE Answered(c)
    <3>1. cycle.at \in Positions
      BY <1>2 DEF Writing
    <3>2. /\ Landed(c, cycle.at) \in Results
          /\ DOMAIN Landed(c, cycle.at) \subseteq DOMAIN cycle.done \cup {c}
      BY <1>2, <3>1, LandedResults
    <3> QED
      BY <2>2, <3>2 DEF Answered
  <2>3. CASE WriteFails(c)
    <3>1. cycle.done \in Results
      BY <1>2 DEF Writing, Results
    <3> QED
      BY <2>3, <3>1 DEF WriteFails
  <2> QED
    BY <1>7, <2>1, <2>2, <2>3
<1> QED
  BY <1>1, <1>2, <1>4, <1>5, <1>6, <1>7

(* The write just sent turns into a recorded one, unless the reader moved on.*)
LEMMA AnsweredHeld ==
    ASSUME TypeOK, NEW c \in Services, Answered(c)
    PROVE  /\ held' \in [Services -> Held] /\ \A d \in Services : held'[d].pos = held[d].pos
           /\ \A d \in Services \ {c} : held'[d] = held[d]
           /\ held'[c].by = IF held[c].by = "sent" THEN "bridge" ELSE held[c].by
<1>1. held \in [Services -> Held]
  BY DEF TypeOK, Held
<1>2. CASE held[c].by = "sent"
  <2>1. held' = [held EXCEPT ![c] = Position(held[c].pos, "bridge")]
    BY <1>2 DEF Answered
  <2>2. /\ Position(held[c].pos, "bridge") \in Held
        /\ Position(held[c].pos, "bridge").pos = held[c].pos
        /\ Position(held[c].pos, "bridge").by = "bridge"
    BY <1>1 DEF Position, Held, Writers
  <2> QED
    BY <1>1, <1>2, <2>1, <2>2
<1>3. CASE held[c].by # "sent"
  BY <1>1, <1>3 DEF Answered
<1> QED
  BY <1>2, <1>3

(* Every step keeps the types.                                               *)
LEMMA TypeStep == TypeOK /\ CycleShape /\ [Next]_vars => TypeOK'
<1> SUFFICES ASSUME TypeOK, CycleShape, [Next]_vars PROVE TypeOK'
  OBVIOUS
<1> USE ServiceAssumption
<1>p. Polled \subseteq Services /\ Audio \in Services /\ Device \in Services
  BY DEF Polled
<1>h. held \in [Services -> Held] /\ \A c \in Services \ {Device} : held[c].pos # None
  BY DEF TypeOK, Held
<1>w. "reader" \in Writers /\ "sent" \in Writers
  BY DEF Writers
<1>z. Idle.step = "idle"
  BY DEF Idle
<1>1. ASSUME NEW p \in Positions, Listen(p) PROVE TypeOK'
  <2>1. held' \in [Services -> Held] /\ \A d \in Services \ {Device} : held'[d].pos # None
    BY <1>1, <1>p, <1>w, MovedHeld DEF Listen
  <2> QED
    BY <1>1, <2>1, MoveSpent DEF Listen, TypeOK, Held
<1>2. ASSUME NEW c \in Polled, NEW p \in Positions, Read(c, p) PROVE TypeOK'
  <2>1. held' \in [Services -> Held] /\ \A d \in Services \ {Device} : held'[d].pos # None
    BY <1>2, <1>p, <1>w, MovedHeld DEF Read
  <2> QED
    BY <1>2, <2>1, MoveSpent, UnseenKnown DEF Read, TypeOK, Held
<1>3. ASSUME NEW p \in Positions, Put(p) PROVE TypeOK'
  <2>1. held' \in [Services -> Held] /\ \A d \in Services \ {Device} : held'[d].pos # None
    BY <1>3, <1>p, <1>w, MovedHeld DEF Put
  <2>2. saved' \in [Services -> Positions \cup {None}] /\ put' \in Positions \cup {None}
    BY <1>3 DEF Put, TypeOK
  <2> QED
    BY <1>3, <1>p, <2>1, <2>2, MoveSpent, RecordStep DEF Put, TypeOK, Held
<1>4. ASSUME NEW c \in Polled, Poll(c) PROVE TypeOK'
  <2>1. known' \in [Polled -> {"nothing", "same", "moved"}] /\ waiting' \subseteq Polled
    BY <1>4 DEF Poll, TypeOK
  <2>2. wanted' \subseteq {"put", "thread"}
    BY <1>4 DEF Poll, Ask, TypeOK
  <2>3. held[c].pos \in Positions
    BY <1>p, <1>h DEF Held, Polled
  <2>4. (trail' = trail /\ recent' = recent) \/ Record(c, held[c].pos)
    BY <1>4 DEF Poll
  <2>5. /\ trail' \in [Services -> Seq(Positions)] /\ recent' \subseteq Services
        /\ \A d \in Services : Len(trail'[d]) <= MaxTrail
    BY <2>3, <2>4, <1>p, RecordStep DEF TypeOK
  <2> QED
    BY <1>4, <2>1, <2>2, <2>5 DEF Poll, world, TypeOK
<1>5. CASE SocketFire
  <2>1. event \in Positions
    BY <1>5 DEF SocketFire, TypeOK
  <2>2. wanted' \subseteq {"put", "thread"}
    BY <1>5 DEF SocketFire, Ask, TypeOK
  <2>3. (trail' = trail /\ recent' = recent) \/ Record(Audio, event)
    BY <1>5 DEF SocketFire
  <2>4. /\ trail' \in [Services -> Seq(Positions)] /\ recent' \subseteq Services
        /\ \A d \in Services : Len(trail'[d]) <= MaxTrail
    BY <2>1, <2>3, <1>p, RecordStep DEF TypeOK
  <2> QED
    BY <1>5, <2>2, <2>4 DEF SocketFire, world, TypeOK
<1>6. ASSUME NEW target \in BOOLEAN, NEW reached \in SUBSET Services, NEW rough \in SUBSET Rough,
             Begin(target, reached, rough)
      PROVE  TypeOK'
  <2>1. spent' \in [moves : Nat, rewinds : Nat, faults : Nat]
    BY <1>6, FaultSpent DEF Begin, TypeOK
  <2>2. wanted' \subseteq {"put", "thread"}
    BY <1>6 DEF Begin, TypeOK
  <2>3. cycle'.step \in Steps
    BY <1>6, <1>z DEF Begin, Steps
  <2> QED
    BY <1>6, <2>1, <2>2, <2>3 DEF Begin, world, TypeOK
<1>7. CASE Decide
  <2>1. cycle \in Deciding
    BY <1>7, <1>z DEF Decide, CycleShape, Deciding, Writing
  <2>2. \A c \in Seen : c \in Services /\ At(c) \in Positions
    BY <2>1, ReadsPositions DEF Deciding, Seen, At
  <2>3. CASE Pass
    BY <1>7, <2>3, <1>z DEF Decide, Pass, TypeOK, Steps
  <2>4. CASE Elect
    <3>1. tried' \in BOOLEAN
      BY <2>4 DEF Elect
    <3>2. CASE cycle' = Idle /\ UNCHANGED <<saved, spent>>
      BY <1>7, <3>1, <3>2, <1>z DEF Decide, TypeOK, Steps
    <3>3. ASSUME NEW c \in Leaders, NEW located \in Locators(c), Dispatch(c, located) PROVE TypeOK'
      <4>1. c \in Services /\ At(c) \in Positions
        BY <2>2, <3>3, LeadersAreReaders
      <4>2. saved' \in [Services -> Positions \cup {None}]
        BY <3>3, <4>1 DEF Dispatch, TypeOK
      <4>3. spent' \in [moves : Nat, rewinds : Nat, faults : Nat]
        BY <3>3, FaultSpent DEF Dispatch, TypeOK
      <4>4. cycle'.step \in Steps
        BY <3>3, <1>z DEF Dispatch, Steps
      <4> QED
        BY <1>7, <3>1, <4>2, <4>3, <4>4 DEF Decide, TypeOK
    <3> QED
      BY <2>4, <3>2, <3>3 DEF Elect
  <2> QED
    BY <1>7, <2>3, <2>4 DEF Decide
<1>8. ASSUME NEW c \in Services, Refuse(c) \/ Write(c) \/ Answered(c) \/ WriteFails(c)
      PROVE  TypeOK'
  <2>1. cycle \in Writing /\ cycle'.step = cycle.step /\ cycle.step \in Steps
    BY <1>8, TurnShape DEF Steps
  <2>2. cycle.at \in Positions
    BY <2>1 DEF Writing
  <2>3. CASE Refuse(c)
    BY <2>1, <2>3 DEF Refuse, world, memory, TypeOK
  <2>4. CASE Write(c)
    <3>1. held' \in [Services -> Held] /\ \A d \in Services \ {Device} : held'[d].pos # None
      BY <1>w, <2>2, <2>4, MovedHeld DEF Write
    <3>2. known' \in [Polled -> {"nothing", "same", "moved"}]
      BY <2>4, UnseenKnown DEF Write
    <3>3. event' \in Positions \cup {None} /\ wanted' \subseteq {"put", "thread"}
      BY <2>2, <2>4 DEF Write, TypeOK
    <3> QED
      BY <2>1, <2>4, <3>1, <3>2, <3>3 DEF Write, TypeOK, Held
  <2>5. CASE Answered(c)
    <3>1. held' \in [Services -> Held] /\ \A d \in Services \ {Device} : held'[d].pos # None
      BY <1>h, <2>5, AnsweredHeld
    <3>2. wrote' \in [Services -> Positions \cup {None}] /\ guarded' \in BOOLEAN
      BY <2>2, <2>5 DEF Answered, TypeOK
    <3> QED
      BY <2>1, <2>5, <3>1, <3>2 DEF Answered, TypeOK, Held
  <2>6. CASE WriteFails(c)
    <3>1. spent' \in [moves : Nat, rewinds : Nat, faults : Nat]
      BY <2>6, FaultSpent DEF WriteFails, TypeOK
    <3> QED
      BY <2>1, <2>6, <3>1 DEF WriteFails, world, memory, TypeOK
  <2> QED
    BY <1>8, <2>3, <2>4, <2>5, <2>6
<1>9. CASE SaveLeader
  <2>1. cycle \in Writing
    BY <1>9, WritingShape DEF SaveLeader
  <2>2. saved' \in [Services -> Positions \cup {None}]
    BY <1>9, <2>1 DEF SaveLeader, Writing, TypeOK
  <2>3. cycle'.step \in Steps
    BY <1>9, <2>1 DEF SaveLeader, Writing, Steps
  <2> QED
    BY <1>9, <2>2, <2>3 DEF SaveLeader, memory, TypeOK
<1>10. CASE SaveFollowers
  <2>1. cycle \in Writing
    BY <1>10, WritingShape DEF SaveFollowers
  <2>2. \A c \in DOMAIN cycle.done : cycle.done[c] \in Positions
    BY <2>1 DEF Writing
  <2>3. saved' \in [Services -> Positions \cup {None}]
    BY <1>10, <2>2 DEF SaveFollowers, TypeOK
  <2> QED
    BY <1>10, <1>z, <2>3 DEF SaveFollowers, memory, TypeOK, Steps
<1>11. CASE SaveFill
  <2>1. cycle \in Writing /\ DOMAIN cycle.done \subseteq {Device}
    BY <1>11, WritingShape DEF SaveFill, CycleShape
  <2>2. \A c \in DOMAIN cycle.done : cycle.done[c] \in Positions
    BY <2>1 DEF Writing
  <2>3. CASE DOMAIN cycle.done = {}
    BY <1>11, <1>z, <2>3 DEF SaveFill, TypeOK, Steps
  <2>4. CASE DOMAIN cycle.done # {}
    <3>1. cycle.done[Device] \in Positions
      BY <2>1, <2>2, <2>4
    <3>2. saved' = [saved EXCEPT ![Device] = cycle.done[Device]] /\ tried' = FALSE
      BY <1>11, <2>4 DEF SaveFill
    <3>3. saved' \in [Services -> Positions \cup {None}]
      BY <3>1, <3>2, <1>p DEF TypeOK
    <3> QED
      BY <1>11, <1>z, <3>2, <3>3 DEF SaveFill, TypeOK, Steps
  <2> QED
    BY <2>3, <2>4
<1>12. CASE Pause
  BY <1>12 DEF Pause, world, TypeOK
<1>13. ASSUME LongPause \/ Restart
       PROVE  /\ trail' \in [Services -> Seq(Positions)]
              /\ \A d \in Services : Len(trail'[d]) <= MaxTrail
              /\ wrote' \in [Services -> Positions \cup {None}]
              /\ put' \in Positions \cup {None}
              /\ tried' \in BOOLEAN
  <2>1. trail' = [c \in Services |-> <<>>]
    BY <1>13 DEF LongPause, Restart
  <2>2. <<>> \in Seq(Positions) /\ Len(<<>>) <= MaxTrail
    BY EmptySeq DEF MaxTrail
  <2>3. /\ wrote' \in [Services -> Positions \cup {None}]
        /\ put' \in Positions \cup {None}
        /\ tried' \in BOOLEAN
    BY <1>13 DEF LongPause, Restart
  <2> QED
    BY <2>1, <2>2, <2>3
<1>14. CASE LongPause
  <2>1. \A c \in Services : [held[c] EXCEPT !.old = TRUE] \in Held
                            /\ [held[c] EXCEPT !.old = TRUE].pos = held[c].pos
    BY <1>h DEF Held
  <2>2. held' \in [Services -> Held] /\ \A d \in Services \ {Device} : held'[d].pos # None
    BY <1>14, <2>1, <1>h DEF LongPause
  <2> QED
    BY <1>13, <1>14, <2>2 DEF LongPause, TypeOK, Held
<1>15. CASE Restart
  <2>1. /\ known' \in [Polled -> {"nothing", "same", "moved"}] /\ guarded' \in BOOLEAN
        /\ recent' \subseteq Services /\ waiting' \subseteq Polled
        /\ event' \in Positions \cup {None} /\ wanted' \subseteq {"put", "thread"}
        /\ cycle'.step \in Steps
    BY <1>15, <1>z DEF Restart, Steps
  <2>2. spent' \in [moves : Nat, rewinds : Nat, faults : Nat]
    BY <1>15, FaultSpent DEF Restart
  <2> QED
    BY <1>13, <1>15, <2>1, <2>2 DEF Restart, world, TypeOK
<1>16. CASE UNCHANGED vars
  BY <1>16 DEF vars, TypeOK
<1>17. CASE Next
  BY <1>17, <1>1, <1>2, <1>3, <1>4, <1>5, <1>6, <1>7, <1>8, <1>9, <1>10, <1>11, <1>12, <1>14,
     <1>15 DEF Next, BeginAny, AnyWrite, Save
<1> QED
  BY <1>16, <1>17

--------------------------------------------------------------------------------
(* The cycle's own data.                                                     *)

(* A leader that is dispatched to the others was read, and is not one of the *)
(* bridge's own writes; a fill goes to a device that has no position.        *)
LEMMA DispatchShape ==
    ASSUME CycleShape, cycle.step = "read", Due,
           NEW c \in Leaders, NEW located, Dispatch(c, located), cycle' # Idle
    PROVE  /\ cycle' \in Writing
           /\ cycle'.step \in {"write", "fill"}
           /\ cycle'.lead = c /\ cycle'.reads = cycle.reads /\ cycle'.at = At(c)
           /\ c \in Seen /\ ~Echo(c) /\ c \notin cycle'.todo
           /\ cycle'.step = "fill" => cycle'.todo = {Device}
           /\ DOMAIN cycle'.done = {} /\ cycle'.sent = None
<1>1. cycle \in Deciding
  BY DecidingShape
<1>2. c \in Seen /\ ~Echo(c)
  BY LeadersAreReaders DEF Echoes
<1>3. Seen \subseteq Services /\ At(c) \in Positions /\ cycle.reads \in Reads
  BY <1>1, <1>2, ReadsPositions DEF Deciding, Seen, At
<1> DEFINE todo == IF Settled THEN {Device} ELSE Services \ {c}
<1>4. cycle' = [step |-> IF Settled THEN "fill" ELSE "write",
                lead |-> c, at |-> At(c), approved |-> Approved(c),
                reads |-> cycle.reads, todo |-> todo, sent |-> None, done |-> [d \in {} |-> 0]]
  BY DEF Dispatch
<1>5. c \notin todo
  <2>1. CASE Settled
    <3>1. cycle.fill
      BY <2>1 DEF Due, FillDue
    <3>2. c # Device
      BY <1>2, <3>1 DEF CycleShape
    <3> QED
      BY <2>1, <3>2
  <2>2. CASE ~Settled
    BY <2>2
  <2> QED
    BY <2>1, <2>2
<1>6. todo \in SUBSET Services
  BY ServiceAssumption
<1>7. Approved(c) \in BOOLEAN
  BY DEF Approved, Trusted, Corroborated
<1>8. [d \in {} |-> 0] \in Results /\ DOMAIN [d \in {} |-> 0] = {}
  <2>1. [d \in {} |-> 0] \in [{} -> Positions]
    OBVIOUS
  <2> QED
    BY <2>1 DEF Results
<1> QED
  BY <1>2, <1>3, <1>4, <1>5, <1>6, <1>7, <1>8 DEF Writing, Results

(* A decision that does not end the cycle has dispatched a leader.           *)
LEMMA DecideShape ==
    ASSUME CycleShape, Decide, cycle' # Idle
    PROVE  /\ cycle.step = "read" /\ Due
           /\ \E c \in Leaders : \E located \in Locators(c) : Dispatch(c, located)
  BY DEF Decide, Pass, Elect

(* Every step keeps the cycle's data in shape.                               *)
LEMMA ShapeStep == TypeOK /\ CycleShape /\ [Next]_vars => CycleShape'
<1> SUFFICES ASSUME TypeOK, CycleShape, [Next]_vars PROVE CycleShape'
  OBVIOUS
<1> USE ServiceAssumption
<1>1. ASSUME cycle' = cycle PROVE CycleShape'
  BY <1>1 DEF CycleShape, Seen
<1>2. ASSUME cycle' = Idle PROVE CycleShape'
  BY <1>2 DEF CycleShape, Idle
<1>3. ASSUME NEW target \in BOOLEAN, NEW reached \in SUBSET Services, NEW rough \in SUBSET Rough,
             Begin(target, reached, rough), cycle' # Idle
      PROVE  CycleShape'
  <2> DEFINE reads == [c \in {d \in reached : held[d].pos # None} |-> held[c]]
             due == Device \in reached /\ held[Device].pos = None /\ saved[Device] = None
  <2>1. cycle' = [step |-> "read", target |-> target, reads |-> reads, prev |-> saved,
                  rough |-> rough, put |-> put, fill |-> due]
    BY <1>3 DEF Begin
  <2>2. \A c \in DOMAIN reads :
           reads[c] \in [pos : Positions, by : Writers, old : BOOLEAN]
    BY DEF TypeOK
  <2>3. reads \in Reads
    <3>1. DOMAIN reads \in SUBSET Services
      OBVIOUS
    <3>2. reads \in [DOMAIN reads -> [pos : Positions, by : Writers, old : BOOLEAN]]
      BY <2>2
    <3> HIDE DEF reads
    <3> QED
      BY <3>1, <3>2 DEF Reads
  <2>4. due => Device \notin DOMAIN reads
    OBVIOUS
  <2>5. due \in BOOLEAN /\ rough \in SUBSET Services
    OBVIOUS
  <2> HIDE DEF reads, due
  <2>6. cycle' \in Deciding
    BY <2>1, <2>3, <2>5 DEF Deciding, TypeOK
  <2> QED
    BY <2>1, <2>4, <2>6 DEF CycleShape, Seen
<1>4. ASSUME Decide, cycle' # Idle PROVE CycleShape'
  <2>1. cycle.step = "read" /\ Due
    BY <1>4, DecideShape
  <2>2. PICK c \in Leaders : \E located \in Locators(c) : Dispatch(c, located)
    BY <1>4, DecideShape
  <2>3. PICK located \in Locators(c) : Dispatch(c, located)
    BY <2>2
  <2>4. /\ cycle' \in Writing
        /\ cycle'.step \in {"write", "fill"}
        /\ cycle'.lead = c /\ cycle'.reads = cycle.reads
        /\ c \in Seen /\ c \notin cycle'.todo
        /\ cycle'.step = "fill" => cycle'.todo = {Device}
        /\ DOMAIN cycle'.done = {} /\ cycle'.sent = None
    BY <1>4, <2>1, <2>3, DispatchShape
  <2> QED
    BY <2>4 DEF CycleShape, Seen
<1>6. ASSUME NEW c \in Services, Refuse(c) \/ Write(c) \/ Answered(c) \/ WriteFails(c)
      PROVE  CycleShape'
  <2>1. /\ cycle \in Writing /\ cycle.step \in {"write", "fill"} /\ c \in cycle.todo
        /\ cycle' \in Writing
        /\ cycle'.step = cycle.step /\ cycle'.lead = cycle.lead /\ cycle'.reads = cycle.reads
        /\ \/ cycle'.todo = cycle.todo /\ cycle'.sent = c /\ cycle'.done = cycle.done
           \/ /\ cycle'.todo = cycle.todo \ {c} /\ cycle'.sent = None
              /\ DOMAIN cycle'.done \subseteq DOMAIN cycle.done \cup {c}
    BY <1>6, TurnShape
  <2> QED
    BY <2>1 DEF CycleShape, Seen
<1>7. CASE SaveLeader
  <2>1. cycle \in Writing
    BY <1>7, WritingShape DEF SaveLeader
  <2>2. cycle' = [cycle EXCEPT !.step = "followers"]
    BY <1>7 DEF SaveLeader
  <2>3. cycle' \in Writing /\ cycle'.step = "followers" /\ cycle'.sent = cycle.sent
    BY <2>1, <2>2 DEF Writing
  <2>4. cycle.sent = None
    BY <1>7, <2>1 DEF SaveLeader, CycleShape
  <2> QED
    BY <2>3, <2>4 DEF CycleShape
<1>8. CASE Next
  <2>1. ASSUME NEW p \in Positions, Listen(p) \/ Put(p) PROVE CycleShape'
    BY <1>1, <2>1 DEF Listen, Put
  <2>2. ASSUME NEW c \in Polled, NEW p \in Positions, Read(c, p) PROVE CycleShape'
    BY <1>1, <2>2 DEF Read
  <2>3. ASSUME NEW c \in Polled, Poll(c) PROVE CycleShape'
    BY <1>1, <2>3 DEF Poll
  <2>4. ASSUME SocketFire \/ Pause \/ LongPause PROVE CycleShape'
    BY <1>1, <2>4 DEF SocketFire, Pause, LongPause
  <2>5. ASSUME SaveFollowers \/ SaveFill \/ Restart PROVE CycleShape'
    BY <1>2, <2>5 DEF SaveFollowers, SaveFill, Restart
  <2>6. ASSUME Decide PROVE CycleShape'
    BY <1>2, <1>4, <2>6
  <2>7. ASSUME NEW target \in BOOLEAN, BeginAny(target) PROVE CycleShape'
    BY <1>2, <1>3, <2>7 DEF BeginAny
  <2> QED
    BY <1>6, <1>7, <1>8, <2>1, <2>2, <2>3, <2>4, <2>5, <2>6, <2>7 DEF Next, AnyWrite, Save
<1>9. CASE UNCHANGED vars
  BY <1>1, <1>9 DEF vars
<1> QED
  BY <1>8, <1>9

--------------------------------------------------------------------------------
(* The memory of the bridge's own writes.                                    *)

(* A remembered write is recognised by the poll that finds it ...            *)
LEMMA PollKnowsItsWrite ==
    ASSUME TypeOK, HeldAsWritten, PollFindsWrite, NEW c \in Polled, known[c] = "moved", ~PollEcho(c)
    PROVE  held[c].by # "bridge"
<1>1. c \in Services
  BY DEF Polled
<1> QED
  BY <1>1 DEF HeldAsWritten, PollFindsWrite, PollEcho

(* ... and by the cycle that reads it.                                       *)
LEMMA CycleKnowsItsWrite ==
    ASSUME ReadAsWritten, cycle.step = "read", NEW c \in Seen, ~Echo(c),
           cycle.reads[c].by = "bridge"
    PROVE  wrote[c] = None
  BY DEF ReadAsWritten, Echo

(* Every step keeps what is remembered of the bridge's writes true, and so   *)
(* keeps the bridge from following one of them.                              *)
LEMMA MemoryStep == IInv /\ [Next]_vars => WritesRemembered' /\ EchoNeverLeads'
<1> SUFFICES ASSUME IInv, [Next]_vars PROVE WritesRemembered' /\ EchoNeverLeads'
  OBVIOUS
<1> USE ServiceAssumption
<1>i. TypeOK /\ CycleShape /\ HeldAsWritten /\ ReadAsWritten /\ SentAsAwaited
      /\ PollFindsWrite /\ EventFindsWrite /\ EchoNeverLeads
  BY DEF IInv, WritesRemembered
<1>p. Polled \subseteq Services /\ Audio \in Services \ Polled /\ Device \in Services \ Polled
  BY DEF Polled
<1>h. held \in [Services -> Held] /\ wrote \in [Services -> Positions \cup {None}]
      /\ known \in [Polled -> {"nothing", "same", "moved"}]
  BY <1>i DEF TypeOK, Held
<1>b. guarded \in BOOLEAN
  BY <1>i DEF TypeOK
<1>1. ASSUME UNCHANGED <<cycle, wrote>> PROVE ReadAsWritten' /\ EchoNeverLeads'
  BY <1>i, <1>1 DEF ReadAsWritten, EchoNeverLeads, Seen, At
<1>2. ASSUME cycle' = Idle PROVE ReadAsWritten' /\ EchoNeverLeads' /\ SentAsAwaited'
  BY <1>2 DEF ReadAsWritten, EchoNeverLeads, SentAsAwaited, Awaits, Idle
<1>s. ASSUME UNCHANGED <<held, cycle>> PROVE SentAsAwaited'
  BY <1>i, <1>s DEF SentAsAwaited, Awaits
<1>3. ASSUME UNCHANGED <<held, wrote, guarded, known, event>>
      PROVE  HeldAsWritten' /\ PollFindsWrite' /\ EventFindsWrite'
  BY <1>i, <1>3 DEF HeldAsWritten, PollFindsWrite, EventFindsWrite
<1>4. ASSUME NEW c \in Services, NEW p \in Positions,
             held' = [held EXCEPT ![c] = Position(p, "reader")], UNCHANGED <<wrote, cycle>>,
             \A d \in Polled \ {c} : known'[d] = known[d]
      PROVE  HeldAsWritten' /\ PollFindsWrite' /\ SentAsAwaited'
  <2>1. held'[c].by = "reader" /\ \A d \in Services \ {c} : held'[d] = held[d]
    BY <1>4, <1>h DEF Position
  <2> QED
    BY <1>i, <1>p, <1>4, <2>1 DEF HeldAsWritten, PollFindsWrite, SentAsAwaited, Awaits
<1>5. ASSUME NEW p \in Positions, Listen(p) PROVE WritesRemembered' /\ EchoNeverLeads'
  <2>1. HeldAsWritten' /\ PollFindsWrite' /\ SentAsAwaited' /\ ReadAsWritten' /\ EchoNeverLeads'
    BY <1>1, <1>4, <1>5, <1>p DEF Listen
  <2>2. held'[Audio].by = "reader"
    BY <1>5, <1>h, <1>p DEF Listen, Position
  <2> QED
    BY <2>1, <2>2 DEF WritesRemembered, EventFindsWrite
<1>6. ASSUME NEW c \in Polled, NEW p \in Positions, Read(c, p)
      PROVE  WritesRemembered' /\ EchoNeverLeads'
  <2>1. \A d \in Polled \ {c} : known'[d] = known[d]
    BY <1>6, <1>h DEF Read, Unseen
  <2>2. HeldAsWritten' /\ PollFindsWrite' /\ SentAsAwaited' /\ ReadAsWritten' /\ EchoNeverLeads'
    BY <1>1, <1>4, <1>6, <1>p, <2>1 DEF Read
  <2>3. held'[Audio] = held[Audio]
    BY <1>6, <1>h, <1>p DEF Read
  <2>4. EventFindsWrite'
    BY <1>6, <1>i, <2>3 DEF Read, EventFindsWrite
  <2> QED
    BY <2>2, <2>4 DEF WritesRemembered
<1>7. ASSUME NEW p \in Positions, Put(p) PROVE WritesRemembered' /\ EchoNeverLeads'
  <2>1. HeldAsWritten' /\ PollFindsWrite' /\ SentAsAwaited' /\ ReadAsWritten' /\ EchoNeverLeads'
    BY <1>1, <1>4, <1>7, <1>p DEF Put
  <2>2. held'[Audio] = held[Audio]
    BY <1>7, <1>h, <1>p DEF Put
  <2>3. EventFindsWrite'
    BY <1>7, <1>i, <2>2 DEF Put, EventFindsWrite
  <2> QED
    BY <2>1, <2>3 DEF WritesRemembered
<1>8. ASSUME NEW c \in Polled, Poll(c) PROVE WritesRemembered' /\ EchoNeverLeads'
  <2>1. ReadAsWritten' /\ EchoNeverLeads' /\ SentAsAwaited'
    BY <1>1, <1>s, <1>8 DEF Poll, world
  <2>2. UNCHANGED <<held, wrote, guarded, event>> /\ known' = [known EXCEPT ![c] = "same"]
    BY <1>8 DEF Poll, world
  <2>3. HeldAsWritten' /\ EventFindsWrite'
    BY <1>i, <2>2 DEF HeldAsWritten, EventFindsWrite
  <2>4. \A d \in Polled : known'[d] = "moved" => known[d] = "moved"
    BY <1>h, <2>2
  <2>5. PollFindsWrite'
    BY <1>i, <2>2, <2>4 DEF PollFindsWrite
  <2> QED
    BY <2>1, <2>3, <2>5 DEF WritesRemembered
<1>9. CASE SocketFire
  <2>1. ReadAsWritten' /\ EchoNeverLeads' /\ SentAsAwaited'
    BY <1>1, <1>s, <1>9 DEF SocketFire, world
  <2>2. UNCHANGED <<held, wrote, known>> /\ event' = None
    BY <1>9 DEF SocketFire, world
  <2> QED
    BY <1>i, <2>1, <2>2 DEF WritesRemembered, HeldAsWritten, PollFindsWrite, EventFindsWrite
<1>10. ASSUME NEW target \in BOOLEAN, NEW reached \in SUBSET Services, NEW rough \in SUBSET Rough,
              Begin(target, reached, rough)
       PROVE  WritesRemembered' /\ EchoNeverLeads'
  <2>1. UNCHANGED <<held, wrote, guarded, known, event>>
    BY <1>10 DEF Begin, world
  <2>2. CASE cycle' = Idle
    BY <1>2, <1>3, <2>1, <2>2 DEF WritesRemembered
  <2>3. CASE cycle' # Idle
    <3>1. /\ cycle'.step = "read"
          /\ cycle'.reads = [c \in {d \in reached : held[d].pos # None} |-> held[c]]
      BY <1>10, <2>3 DEF Begin
    <3>2. ReadAsWritten'
      BY <1>i, <2>1, <3>1 DEF ReadAsWritten, HeldAsWritten, Seen, At
    <3>3. EchoNeverLeads' /\ SentAsAwaited'
      BY <3>1 DEF EchoNeverLeads, SentAsAwaited, Awaits
    <3> QED
      BY <1>3, <2>1, <3>2, <3>3 DEF WritesRemembered
  <2> QED
    BY <2>2, <2>3
<1>11. CASE Decide
  <2>1. UNCHANGED <<held, wrote, guarded, known, event>>
    BY <1>11 DEF Decide
  <2>2. CASE cycle' = Idle
    BY <1>2, <1>3, <2>1, <2>2 DEF WritesRemembered
  <2>3. CASE cycle' # Idle
    <3>1. cycle.step = "read" /\ Due
      BY <1>11, <1>i, <2>3, DecideShape
    <3>2. PICK c \in Leaders : \E located \in Locators(c) : Dispatch(c, located)
      BY <1>11, <1>i, <2>3, DecideShape
    <3>3. PICK located \in Locators(c) : Dispatch(c, located)
      BY <3>2
    <3>4. /\ cycle'.step \in {"write", "fill"}
          /\ cycle'.lead = c /\ cycle'.reads = cycle.reads
          /\ c \in Seen /\ ~Echo(c) /\ cycle'.sent = None
      BY <1>i, <2>3, <3>1, <3>3, DispatchShape
    <3>5. cycle.reads[c].by = "bridge" => wrote[c] = None
      BY <1>i, <3>1, <3>4, CycleKnowsItsWrite
    <3>6. ReadAsWritten' /\ EchoNeverLeads' /\ SentAsAwaited'
      BY <2>1, <3>4, <3>5 DEF ReadAsWritten, EchoNeverLeads, SentAsAwaited, Awaits
    <3> QED
      BY <1>3, <2>1, <3>6 DEF WritesRemembered
  <2> QED
    BY <2>2, <2>3
<1>12. ASSUME NEW c \in Services, Refuse(c) \/ Write(c) \/ Answered(c) \/ WriteFails(c),
              \A d \in Services \ {c} : wrote'[d] = wrote[d]
       PROVE  ReadAsWritten' /\ EchoNeverLeads'
  <2>1. /\ cycle \in Writing /\ c \in cycle.todo /\ cycle.step \in {"write", "fill"}
        /\ cycle'.step = cycle.step /\ cycle'.lead = cycle.lead /\ cycle'.reads = cycle.reads
    BY <1>12, <1>i, TurnShape
  <2>2. cycle.lead \in Services \ {c}
    BY <1>i, <2>1 DEF CycleShape, Writing
  <2>3. wrote'[cycle.lead] = wrote[cycle.lead]
    BY <1>12, <2>2
  <2> QED
    BY <1>i, <2>1, <2>3 DEF ReadAsWritten, EchoNeverLeads
<1>d. ASSUME NEW c \in Services, Refuse(c) \/ Answered(c) \/ WriteFails(c), ~Write(c)
      PROVE  SentAsAwaited'
  <2>1. cycle'.sent = None
    BY <1>d, <1>i, TurnShape
  <2> QED
    BY <2>1 DEF SentAsAwaited, Awaits
<1>o. ASSUME NEW c \in Services, Refuse(c) \/ Answered(c) \/ WriteFails(c), Write(c)
      PROVE  FALSE
  <2>1. cycle'.sent = c
    BY <1>o, <1>i, SentShape, TurnShape DEF Write
  <2>2. cycle'.sent = None
    <3>1. cycle \in Writing
      BY <1>o, <1>i, TurnShape
    <3> QED
      BY <1>o, <3>1 DEF Refuse, Answered, WriteFails, Finish, Writing
  <2> QED
    BY <2>1, <2>2
<1>13. ASSUME NEW c \in Services, Refuse(c) \/ WriteFails(c)
       PROVE  WritesRemembered' /\ EchoNeverLeads'
  <2>1. UNCHANGED <<held, wrote, guarded, known, event>>
    BY <1>13 DEF Refuse, WriteFails, world, memory
  <2>2. ReadAsWritten' /\ EchoNeverLeads'
    BY <1>12, <1>13, <2>1
  <2>3. SentAsAwaited'
    BY <1>13, <1>d, <1>o
  <2> QED
    BY <1>3, <2>1, <2>2, <2>3 DEF WritesRemembered
<1>14. ASSUME NEW c \in Services, Write(c) PROVE WritesRemembered' /\ EchoNeverLeads'
  <2>1. /\ cycle \in Writing /\ cycle.step \in {"write", "fill"}
        /\ cycle'.step = cycle.step /\ cycle'.at = cycle.at /\ cycle'.sent = c
    BY <1>14, <1>i, TurnShape, SentShape DEF Write
  <2>2. UNCHANGED <<wrote, guarded>>
    BY <1>14 DEF Write
  <2>3. /\ held'[c].by = "sent" /\ held'[c].pos = cycle.at
        /\ \A d \in Services \ {c} : held'[d] = held[d]
    BY <1>14, <1>h DEF Write, Position
  <2>4. ReadAsWritten' /\ EchoNeverLeads'
    BY <1>12, <1>14, <2>2
  <2>5. HeldAsWritten'
    BY <1>i, <2>2, <2>3 DEF HeldAsWritten
  <2>6. SentAsAwaited'
    BY <2>1, <2>3 DEF SentAsAwaited, Awaits
  <2>7. \A d \in Polled \ {c} : known'[d] = known[d]
    BY <1>14, <1>h DEF Write, Unseen
  <2>8. PollFindsWrite'
    BY <1>i, <1>p, <2>2, <2>3, <2>7 DEF PollFindsWrite
  <2>9. EventFindsWrite'
    <3>1. CASE c = Audio
      BY <2>3, <3>1 DEF EventFindsWrite
    <3>2. CASE c # Audio
      <4>1. event' = event /\ held'[Audio] = held[Audio]
        BY <1>14, <1>p, <2>3, <3>2 DEF Write
      <4> QED
        BY <1>i, <2>2, <4>1 DEF EventFindsWrite
    <3> QED
      BY <3>1, <3>2
  <2> QED
    BY <2>4, <2>5, <2>6, <2>8, <2>9 DEF WritesRemembered
<1>r. ASSUME NEW c \in Services, Answered(c) PROVE WritesRemembered' /\ EchoNeverLeads'
  <2>1. cycle \in Writing /\ cycle.at \in Positions /\ cycle.at # None
    BY <1>r, <1>i, TurnShape DEF Writing
  <2>2. /\ wrote'[c] = cycle.at /\ \A d \in Services \ {c} : wrote'[d] = wrote[d]
        /\ UNCHANGED <<known, event>>
    BY <1>r, <1>h DEF Answered
  <2>3. /\ \A d \in Services \ {c} : held'[d] = held[d]
        /\ held'[c].pos = held[c].pos
        /\ held'[c].by = IF held[c].by = "sent" THEN "bridge" ELSE held[c].by
    BY <1>r, <1>i, AnsweredHeld
  <2>4. held[c].by = "reader" \/ (held[c].by = "sent" /\ held[c].pos = cycle.at)
    BY <1>r, <1>i DEF Answered, SentAsAwaited
  <2>5. ReadAsWritten' /\ EchoNeverLeads'
    BY <1>12, <1>r, <2>2
  <2>6. HeldAsWritten'
    BY <1>i, <2>2, <2>3, <2>4 DEF HeldAsWritten
  <2>7. SentAsAwaited'
    BY <1>r, <1>d, <1>o
  <2>8. PollFindsWrite'
    BY <1>i, <1>p, <2>1, <2>2, <2>3 DEF PollFindsWrite
  <2>9. EventFindsWrite'
    <3>1. CASE c = Audio
      <4>1. guarded'
        BY <1>r, <3>1 DEF Answered
      <4> QED
        BY <4>1 DEF EventFindsWrite
    <3>2. CASE c # Audio
      <4>1. held'[Audio] = held[Audio]
        BY <1>p, <2>3, <3>2
      <4>2. ~guarded' => ~guarded
        BY <1>r, Zenon DEF Answered
      <4> QED
        BY <1>i, <2>2, <4>1, <4>2 DEF EventFindsWrite
    <3> QED
      BY <3>1, <3>2
  <2> QED
    BY <2>5, <2>6, <2>7, <2>8, <2>9 DEF WritesRemembered
<1>15. CASE SaveLeader
  <2>1. UNCHANGED <<held, wrote, guarded, known, event>>
    BY <1>15 DEF SaveLeader, memory
  <2>2. cycle \in Writing /\ cycle' = [cycle EXCEPT !.step = "followers"]
    BY <1>15, <1>i, WritingShape DEF SaveLeader
  <2>3. cycle'.step = "followers"
    BY <2>2 DEF Writing
  <2>4. ReadAsWritten' /\ EchoNeverLeads' /\ SentAsAwaited'
    BY <2>3 DEF ReadAsWritten, EchoNeverLeads, SentAsAwaited, Awaits
  <2> QED
    BY <1>3, <2>1, <2>4 DEF WritesRemembered
<1>16. CASE SaveFollowers \/ SaveFill
  <2>1. UNCHANGED <<held, wrote, guarded, known, event>> /\ cycle' = Idle
    BY <1>16 DEF SaveFollowers, SaveFill, memory
  <2> QED
    BY <1>2, <1>3, <2>1 DEF WritesRemembered
<1>17. CASE Pause
  <2>1. UNCHANGED <<held, wrote, known, event, cycle>> /\ event = None
    BY <1>17 DEF Pause, world, Restful
  <2>2. ReadAsWritten' /\ EchoNeverLeads' /\ SentAsAwaited'
    BY <1>1, <1>s, <2>1
  <2> QED
    BY <1>i, <2>1, <2>2 DEF WritesRemembered, HeldAsWritten, PollFindsWrite, EventFindsWrite
<1>18. CASE LongPause
  <2>1. UNCHANGED <<known, event, cycle>> /\ event = None /\ cycle.step = "idle"
    BY <1>18 DEF LongPause, Restful
  <2>2. \A c \in Services : wrote'[c] = None
    BY <1>18 DEF LongPause
  <2>3. \A c \in Polled : known'[c] = "same"
    BY <1>18, <2>1 DEF LongPause
  <2>4. ReadAsWritten' /\ EchoNeverLeads' /\ SentAsAwaited'
    BY <2>1 DEF ReadAsWritten, EchoNeverLeads, SentAsAwaited, Awaits
  <2> QED
    BY <2>1, <2>2, <2>3, <2>4
       DEF WritesRemembered, HeldAsWritten, PollFindsWrite, EventFindsWrite
<1>19. CASE Restart
  <2>1. cycle' = Idle /\ event' = None /\ (\A c \in Services : wrote'[c] = None)
        /\ (\A c \in Polled : known'[c] = "nothing")
    BY <1>19 DEF Restart
  <2> QED
    BY <1>2, <2>1 DEF WritesRemembered, HeldAsWritten, PollFindsWrite, EventFindsWrite
<1>20. CASE UNCHANGED vars
  <2>1. UNCHANGED <<held, wrote, guarded, known, event, cycle>>
    BY <1>20 DEF vars
  <2> QED
    BY <1>1, <1>3, <1>s, <2>1 DEF WritesRemembered
<1>21. CASE Next
  BY <1>21, <1>5, <1>6, <1>7, <1>8, <1>9, <1>10, <1>11, <1>13, <1>14, <1>r, <1>15, <1>16, <1>17,
     <1>18, <1>19 DEF Next, BeginAny, AnyWrite, Save
<1> QED
  BY <1>20, <1>21

--------------------------------------------------------------------------------
(* The observation trail.                                                    *)

TrailStep ==
    \A c \in Services \ {Device} :
        trail'[c] # trail[c] /\ trail'[c] # <<>> => held[c].by # "bridge"

(* A report of what no recorded write put there, or of a device, is evidence.*)
LEMMA TrailFromReader ==
    ASSUME TypeOK, NEW c \in Services, NEW p, Record(c, p), c = Device \/ held[c].by # "bridge"
    PROVE  TrailStep
<1>1. \A d \in Services \ {c} : trail'[d] = trail[d]
  BY DEF Record, TypeOK
<1> QED
  BY <1>1 DEF TrailStep

(* Every step keeps the recorded writes of the bridge out of the trails.     *)
LEMMA TrailKeptToReader == IInv /\ [Next]_vars => TrailStep
<1> SUFFICES ASSUME IInv, [Next]_vars PROVE TrailStep
  OBVIOUS
<1> USE ServiceAssumption
<1>i. TypeOK /\ HeldAsWritten /\ PollFindsWrite /\ EventFindsWrite
  BY DEF IInv, WritesRemembered
<1>p. Polled \subseteq Services /\ Audio \in Services /\ Device \in Services
  BY DEF Polled
<1>1. ASSUME trail' = trail PROVE TrailStep
  BY <1>1 DEF TrailStep
<1>2. ASSUME NEW p \in Positions, Put(p) PROVE TrailStep
  BY <1>2, <1>i, <1>p, TrailFromReader DEF Put
<1>3. ASSUME NEW c \in Polled, Poll(c) PROVE TrailStep
  <2>1. \/ trail' = trail
        \/ known[c] = "moved" /\ ~PollEcho(c) /\ Record(c, held[c].pos)
    BY <1>3 DEF Poll
  <2>2. CASE known[c] = "moved" /\ ~PollEcho(c) /\ Record(c, held[c].pos)
    <3>1. held[c].by # "bridge"
      BY <1>i, <2>2, PollKnowsItsWrite
    <3> QED
      BY <1>i, <1>p, <2>2, <3>1, TrailFromReader
  <2> QED
    BY <1>1, <2>1, <2>2
<1>4. CASE SocketFire
  <2>1. CASE guarded
    BY <1>1, <1>4, <2>1 DEF SocketFire
  <2>2. CASE ~guarded
    <3>1. Record(Audio, event) /\ held[Audio].by # "bridge"
      BY <1>i, <1>4, <2>2 DEF SocketFire, EventFindsWrite
    <3> QED
      BY <1>i, <1>p, <3>1, TrailFromReader
  <2> QED
    BY <2>1, <2>2
<1>5. CASE LongPause \/ Restart
  BY <1>5 DEF LongPause, Restart, TrailStep
<1>6. CASE Next
  <2>1. ASSUME NEW p \in Positions, Listen(p) PROVE TrailStep
    BY <1>1, <2>1 DEF Listen
  <2>2. ASSUME NEW c \in Polled, NEW p \in Positions, Read(c, p) PROVE TrailStep
    BY <1>1, <2>2 DEF Read
  <2>3. ASSUME NEW target \in BOOLEAN, BeginAny(target) PROVE TrailStep
    BY <1>1, <2>3 DEF BeginAny, Begin
  <2>4. CASE Decide \/ AnyWrite
    BY <1>1, <2>4 DEF Decide, AnyWrite, Refuse, Write, Answered, WriteFails, memory
  <2>5. CASE Save \/ Pause
    BY <1>1, <2>5 DEF Save, SaveLeader, SaveFollowers, SaveFill, Pause, memory
  <2> QED
    BY <1>2, <1>3, <1>4, <1>5, <1>6, <2>1, <2>2, <2>3, <2>4, <2>5 DEF Next
<1>7. CASE UNCHANGED vars
  BY <1>1, <1>7 DEF vars
<1> QED
  BY <1>6, <1>7

--------------------------------------------------------------------------------
(* The refinement of PositionRelay.                                          *)

Where == [c \in Services |-> Seat(c)]

(* The bridge begins with nothing in hand.                                   *)
LEMMA InitRelays == Init => Relay!Init
<1> SUFFICES ASSUME Init PROVE Relay!Init
  OBVIOUS
<1>1. \A c \in Services : Seat(c) \in [pos : Positions \cup {None}, by : {"reader"}]
  BY DEF Init, Seat
<1>2. Noted = {}
  BY DEF Init, Noted, Idle
<1> QED
  BY <1>1, <1>2 DEF Relay!Init

(* A position that one service takes is a change of that service alone.      *)
LEMMA OneTakes ==
    ASSUME TypeOK, NEW c \in Services, NEW p \in Positions, NEW by \in Writers,
           held' = [held EXCEPT ![c] = Position(p, by)]
    PROVE  Where' = [Where EXCEPT ![c] =
                       [pos |-> p, by |-> IF by = "reader" THEN "reader" ELSE "bridge"]]
<1>1. Position(p, by).pos = p /\ Position(p, by).by = by
  BY DEF Position
<1>2. \A d \in Services : held'[d] = IF d = c THEN Position(p, by) ELSE held[d]
  BY DEF TypeOK
<1> QED
  BY <1>1, <1>2 DEF Where, Seat

(* A move of the reader is a move of the relay.                              *)
LEMMA ReaderMoves ==
    ASSUME TypeOK, NEW c \in Services, NEW p \in Positions,
           held' = [held EXCEPT ![c] = Position(p, "reader")], cycle' = cycle
    PROVE  Relay!Next
<1>1. Where' = [Where EXCEPT ![c] = [pos |-> p, by |-> "reader"]]
  BY OneTakes DEF Writers
<1>2. Noted' = Noted
  BY DEF Noted, Seen, At
<1>3. Relay!Move(c)
  BY <1>1, <1>2 DEF Relay!Move, Where
<1> QED
  BY <1>3 DEF Relay!Next

(* What changes neither positions nor what is in hand.                       *)
LEMMA BridgeStutters ==
    ASSUME Where' = Where, Noted' = Noted
    PROVE  UNCHANGED Relay!vars
  BY DEF Relay!vars, Where

(* What only lets go of positions in hand.                                   *)
LEMMA BridgeDrops ==
    ASSUME Where' = Where, Noted' \subseteq Noted
    PROVE  Relay!Next
  BY DEF Relay!Next, Relay!Drop, Where

(* Every step of the cycle and its triggers is a step of the relay, or none. *)
LEMMA StepRelays == TypeOK /\ CycleShape /\ [Next]_vars => [Relay!Next]_Relay!vars
<1> SUFFICES ASSUME TypeOK, CycleShape, [Next]_vars PROVE Relay!Next \/ UNCHANGED Relay!vars
  BY DEF Relay!vars
<1> USE ServiceAssumption
<1>p. Polled \subseteq Services /\ Audio \in Services /\ Device \in Services
  BY DEF Polled
<1>z. Idle.step = "idle"
  BY DEF Idle
<1>1. ASSUME held' = held PROVE Where' = Where
  BY <1>1 DEF Where, Seat
<1>2. ASSUME cycle' = cycle PROVE Noted' = Noted
  BY <1>2 DEF Noted, Seen, At
<1>3. ASSUME cycle' = Idle PROVE Noted' \subseteq Noted
  BY <1>3, <1>z DEF Noted
<1>4. ASSUME NEW p \in Positions, Listen(p) \/ Put(p) PROVE Relay!Next
  BY <1>4, <1>p, ReaderMoves DEF Listen, Put
<1>5. ASSUME NEW c \in Polled, NEW p \in Positions, Read(c, p) PROVE Relay!Next
  BY <1>5, <1>p, ReaderMoves DEF Read
<1>6. ASSUME NEW c \in Polled, Poll(c) PROVE UNCHANGED Relay!vars
  BY <1>1, <1>2, <1>6, BridgeStutters DEF Poll, world
<1>7. CASE SocketFire \/ Pause \/ UNCHANGED vars
  BY <1>1, <1>2, <1>7, BridgeStutters DEF SocketFire, Pause, world, vars
<1>8. CASE LongPause
  <2>1. \A c \in Services : held'[c].pos = held[c].pos /\ held'[c].by = held[c].by
    BY <1>8 DEF LongPause, TypeOK
  <2>2. Where' = Where
    BY <2>1 DEF Where, Seat
  <2> QED
    BY <1>2, <1>8, <2>2, BridgeStutters DEF LongPause
<1>9. ASSUME NEW target \in BOOLEAN, NEW reached \in SUBSET Services, NEW rough \in SUBSET Rough,
             Begin(target, reached, rough)
      PROVE  Relay!Next
  <2>1. held' = held /\ cycle.step = "idle"
    BY <1>9 DEF Begin, world
  <2>2. CASE cycle' = Idle
    BY <1>1, <1>3, <2>1, <2>2, BridgeDrops
  <2>3. CASE cycle' # Idle
    <3>1. /\ cycle'.step = "read"
          /\ cycle'.reads = [c \in {d \in reached : held[d].pos # None} |-> held[c]]
      BY <1>9, <2>3 DEF Begin
    <3>2. Noted' = {cycle'.reads[c].pos : c \in DOMAIN cycle'.reads}
      BY <3>1 DEF Noted, Seen, At
    <3>3. \A c \in DOMAIN cycle'.reads :
             c \in Services /\ held[c].pos # None /\ cycle'.reads[c].pos = Where[c].pos
      BY <3>1 DEF Where, Seat
    <3>4. Noted' \subseteq {Where[c].pos : c \in Services} \ {None}
      BY <3>2, <3>3 DEF Where, Seat
    <3>5. Relay!Note
      BY <1>1, <2>1, <3>4 DEF Relay!Note, Where
    <3> QED
      BY <3>5 DEF Relay!Next
  <2> QED
    BY <2>2, <2>3
<1>10. CASE Decide
  <2>1. held' = held
    BY <1>10 DEF Decide
  <2>2. CASE cycle' = Idle
    BY <1>1, <1>3, <2>1, <2>2, BridgeDrops
  <2>3. CASE cycle' # Idle
    <3>1. cycle.step = "read" /\ Due
      BY <1>10, <2>3, DecideShape
    <3>2. PICK c \in Leaders : \E located \in Locators(c) : Dispatch(c, located)
      BY <1>10, <2>3, DecideShape
    <3>3. PICK located \in Locators(c) : Dispatch(c, located)
      BY <3>2
    <3>4. cycle'.step \in {"write", "fill"} /\ cycle'.at = At(c) /\ c \in Seen
      BY <2>3, <3>1, <3>3, DispatchShape
    <3>5. Noted' = {At(c)} /\ Noted = {At(d) : d \in Seen}
      BY <3>1, <3>4 DEF Noted
    <3>6. Noted' \subseteq Noted
      BY <3>4, <3>5
    <3> QED
      BY <1>1, <2>1, <3>6, BridgeDrops
  <2> QED
    BY <2>2, <2>3
<1>11. ASSUME NEW c \in Services, Refuse(c) \/ Write(c) \/ Answered(c) \/ WriteFails(c)
       PROVE  Relay!Next \/ UNCHANGED Relay!vars
  <2>1. cycle \in Writing /\ cycle.step \in {"write", "fill"}
        /\ cycle'.step = cycle.step /\ cycle'.at = cycle.at
    BY <1>11, TurnShape
  <2>2. cycle.at \in Positions /\ Noted' = Noted /\ Noted = {cycle.at}
    BY <2>1 DEF Noted, Writing
  <2>3. CASE Refuse(c) \/ WriteFails(c)
    <3>1. held' = held
      BY <2>3 DEF Refuse, WriteFails, world
    <3> QED
      BY <1>1, <2>2, <3>1, BridgeStutters
  <2>4. CASE Write(c)
    <3>1. Where' = [Where EXCEPT ![c] = [pos |-> cycle.at, by |-> "bridge"]]
      BY <2>2, <2>4, OneTakes DEF Write, Writers
    <3>2. Relay!Copy(c)
      BY <2>2, <3>1 DEF Relay!Copy, Where
    <3> QED
      BY <3>2 DEF Relay!Next
  <2>5. CASE Answered(c)
    <3>1. /\ \A d \in Services : held'[d].pos = held[d].pos
          /\ \A d \in Services : (held'[d].by = "reader") <=> (held[d].by = "reader")
      BY <2>5, AnsweredHeld
    <3>2. Where' = Where
      BY <3>1 DEF Where, Seat
    <3> QED
      BY <2>2, <3>2, BridgeStutters
  <2> QED
    BY <1>11, <2>3, <2>4, <2>5
<1>12. CASE SaveLeader
  <2>1. held' = held /\ cycle.step = "write" /\ cycle' = [cycle EXCEPT !.step = "followers"]
    BY <1>12 DEF SaveLeader
  <2>2. cycle \in Writing
    BY <2>1, WritingShape
  <2>3. cycle'.step = "followers" /\ cycle'.at = cycle.at
    BY <2>1, <2>2 DEF Writing
  <2>4. Noted' = Noted
    BY <2>1, <2>3 DEF Noted
  <2> QED
    BY <1>1, <2>1, <2>4, BridgeStutters
<1>13. CASE SaveFollowers \/ SaveFill \/ Restart
  <2>1. held' = held /\ cycle' = Idle
    BY <1>13 DEF SaveFollowers, SaveFill, Restart, world
  <2> QED
    BY <1>1, <1>3, <2>1, BridgeDrops
<1>14. CASE Next
  BY <1>14, <1>4, <1>5, <1>6, <1>7, <1>8, <1>9, <1>10, <1>11, <1>12, <1>13
     DEF Next, BeginAny, AnyWrite, Save
<1> QED
  BY <1>7, <1>14

--------------------------------------------------------------------------------
(* The theorems.                                                             *)

(* The inductive invariant.                                                  *)
THEOREM Inductive == Spec => []IInv
<1>1. IInv /\ [Next]_vars => IInv'
  BY TypeStep, ShapeStep, MemoryStep DEF IInv
<1> QED
  BY InitIInv, <1>1, PTL DEF Spec

(* Every variable keeps its type.                                            *)
THEOREM TypeCorrect == Spec => []TypeOK
<1>1. IInv => TypeOK
  BY DEF IInv
<1> QED
  BY Inductive, <1>1, PTL

(* _determine_leader: whatever the services report and in whatever order the *)
(* cycle, the poller and the socket run, the bridge never follows a position *)
(* that it wrote itself and remembers writing.                               *)
THEOREM NeverItsOwnEcho == Spec => []EchoNeverLeads
<1>1. IInv => EchoNeverLeads
  BY DEF IInv
<1> QED
  BY Inductive, <1>1, PTL

(* The poller and the socket listener: what they add to a service's trail is *)
(* never a write that the bridge has recorded; so what _rewind_trust          *)
(* corroborates a rewind with is the reader's own, but for a write that they *)
(* see before its record, or whose answer was lost.                          *)
THEOREM EvidenceIsTheReaders == Spec => TrailIsTheReaders
<1>1. IInv /\ [Next]_vars =>
        [\A c \in Services \ {Device} :
            trail'[c] # trail[c] /\ trail'[c] # <<>> => held[c].by # "bridge"]_vars
  BY TrailKeptToReader DEF TrailStep
<1> QED
  BY Inductive, <1>1, PTL DEF Spec, TrailIsTheReaders

(* The cycle relays positions and makes none up: whatever fails between the  *)
(* reading, the deciding, the writing and the saving, what a service is given *)
(* is a position that a service held when the cycle read it.                 *)
THEOREM CycleRelays == Spec => OnlyRelays
<1>1. IInv => TypeOK /\ CycleShape
  BY DEF IInv
<1> QED
  BY Inductive, <1>1, InitRelays, StepRelays, PTL DEF Spec, OnlyRelays, Relay!Spec

--------------------------------------------------------------------------------
(* The State rows.                                                           *)

(* What the running cycle has stored at c, for the State row it still saves. *)
Carried(c) ==
    /\ cycle.step \in {"write", "fill", "followers"}
    /\ c \in DOMAIN cycle.done /\ cycle.done[c] = held[c].pos

(* What the bridge put at a service, and knows that it did, is in the        *)
(* service's State row, or will be when the cycle saves what it did.         *)
RowsFollow == \A c \in Services : held[c].by = "bridge" => saved[c] = held[c].pos \/ Carried(c)

(* Whatever a cycle finds moved was moved by the reader, or by a write of    *)
(* the bridge whose answer was lost.                                         *)
MovesAreTheReaders ==
    cycle.step = "read" => \A c \in Moved : cycle.reads[c].by # "bridge"

(* What the cycle has in hand, while the reader may move on: the rows of     *)
(* what it read, and what it has stored.                                     *)
ReadsInHand ==
    cycle.step = "read" =>
      \A c \in Seen :
        /\ cycle.reads[c].by = "bridge" => cycle.prev[c] = At(c)
        /\ held[c].by = "bridge" => held[c].pos = At(c)
WritesInHand ==
    cycle.step \in {"write", "fill", "followers"} =>
      /\ DOMAIN cycle.done \cap cycle.todo = {}
      /\ \A c \in DOMAIN cycle.done : held[c].by = "bridge" => held[c].pos = cycle.done[c]
      /\ cycle.step = "write" /\ held[cycle.lead].by = "bridge" => held[cycle.lead].pos = cycle.at

Steady == RowsFollow /\ ReadsInHand /\ WritesInHand

(* In the beginning nothing is the bridge's.                                 *)
LEMMA InitSteady == Init => Steady
<1> SUFFICES ASSUME Init PROVE Steady
  OBVIOUS
<1>1. /\ \A c \in Services : held[c].by = "reader"
      /\ cycle.step = "idle"
  BY DEF Init, Idle
<1> QED
  BY <1>1 DEF Steady, RowsFollow, ReadsInHand, WritesInHand

(* The reader takes a service over; nothing else changes.                    *)
LEMMA SteadyTakenOver ==
    ASSUME Steady, NEW c \in Services, NEW p, held \in [Services -> Held],
           held' = [held EXCEPT ![c] = Position(p, "reader")], cycle' = cycle,
           \A d \in Services \ {c} : saved'[d] = saved[d], CycleShape
    PROVE  Steady'
<1>1. held'[c].by = "reader" /\ \A d \in Services \ {c} : held'[d] = held[d]
  BY DEF Position
<1>2. RowsFollow'
  BY <1>1 DEF Steady, RowsFollow, Carried
<1>3. ReadsInHand'
  <2> SUFFICES ASSUME cycle.step = "read", NEW d \in Seen
               PROVE  /\ cycle.reads[d].by = "bridge" => cycle.prev[d] = At(d)
                      /\ held'[d].by = "bridge" => held'[d].pos = At(d)
    BY DEF ReadsInHand, Seen, At
  <2>1. d \in Services
    BY DecidingShape, ReadsPositions DEF Deciding, Seen
  <2> QED
    BY <1>1, <2>1 DEF Steady, ReadsInHand
<1>4. WritesInHand'
  <2> SUFFICES ASSUME cycle.step \in {"write", "fill", "followers"} PROVE WritesInHand'
    BY DEF WritesInHand
  <2>1. cycle \in Writing
    BY WritingShape
  <2>2. cycle.lead \in Services /\ DOMAIN cycle.done \subseteq Services
    BY <2>1 DEF Writing
  <2> QED
    BY <1>1, <2>2 DEF Steady, WritesInHand
<1> QED
  BY <1>2, <1>3, <1>4 DEF Steady

(* What touches neither a service nor a State row nor the cycle.             *)
LEMMA SteadyKept == Steady /\ UNCHANGED <<held, saved, cycle>> => Steady'
BY DEF Steady, RowsFollow, ReadsInHand, WritesInHand, Carried, Seen, At

(* A cycle begins with the rows as they are.                                 *)
LEMMA SteadyBegin ==
    ASSUME TypeOK, Steady, NEW target, NEW reached \in SUBSET Services, NEW rough,
           Begin(target, reached, rough)
    PROVE  Steady'
<1>1. held' = held /\ saved' = saved /\ cycle.step = "idle"
  BY DEF Begin, world
<1>2. \A c \in Services : held[c].by = "bridge" => saved[c] = held[c].pos
  BY <1>1 DEF Steady, RowsFollow, Carried
<1>3. RowsFollow'
  BY <1>1, <1>2 DEF RowsFollow
<1>4. CASE cycle' = Idle
  BY <1>3, <1>4 DEF Steady, ReadsInHand, WritesInHand, Idle
<1>5. CASE cycle' # Idle
  <2>1. /\ cycle'.step = "read" /\ cycle'.prev = saved
        /\ cycle'.reads = [c \in {d \in reached : held[d].pos # None} |-> held[c]]
    BY <1>5 DEF Begin
  <2>2. ReadsInHand'
    BY <1>1, <1>2, <2>1 DEF ReadsInHand, Seen, At
  <2>3. WritesInHand'
    BY <2>1 DEF WritesInHand
  <2> QED
    BY <1>3, <2>2, <2>3 DEF Steady
<1> QED
  BY <1>4, <1>5

(* A decision takes nothing back; a leader whose position collapses has its  *)
(* own row brought to what was read.                                         *)
LEMMA SteadyDecide ==
    ASSUME TypeOK, CycleShape, Steady, Decide
    PROVE  Steady'
<1>1. held' = held /\ cycle.step = "read"
  BY DEF Decide
<1>2. \A c \in Services : held[c].by = "bridge" => saved[c] = held[c].pos
  BY <1>1 DEF Steady, RowsFollow, Carried
<1>3. CASE cycle' = Idle
  <2>1. \/ saved' = saved
        \/ \E c \in Leaders : saved' = [saved EXCEPT ![c] = At(c)]
    BY DEF Decide, Pass, Elect, Dispatch
  <2>2. RowsFollow'
    <3>1. CASE saved' = saved
      BY <1>1, <1>2, <3>1 DEF RowsFollow
    <3>2. ASSUME NEW c \in Leaders, saved' = [saved EXCEPT ![c] = At(c)] PROVE RowsFollow'
      <4>1. c \in Seen
        BY LeadersAreReaders
      <4>2. held[c].by = "bridge" => held[c].pos = At(c)
        BY <1>1, <4>1 DEF Steady, ReadsInHand
      <4>3. saved \in [Services -> Positions \cup {None}]
        BY DEF TypeOK
      <4> QED
        BY <1>1, <1>2, <3>2, <4>2, <4>3 DEF RowsFollow
    <3> QED
      BY <2>1, <3>1, <3>2
  <2> QED
    BY <1>3, <2>2 DEF Steady, ReadsInHand, WritesInHand, Idle
<1>4. CASE cycle' # Idle
  <2>1. Due
    BY <1>4, DecideShape
  <2>2. PICK c \in Leaders : \E located \in Locators(c) : Dispatch(c, located)
    BY <1>4, DecideShape
  <2>3. PICK located \in Locators(c) : Dispatch(c, located)
    BY <2>2
  <2>4. /\ cycle'.step \in {"write", "fill"}
        /\ cycle'.lead = c /\ cycle'.at = At(c) /\ c \in Seen
        /\ DOMAIN cycle'.done = {}
    BY <1>1, <1>4, <2>1, <2>3, DispatchShape
  <2>5. saved' = saved
    BY <1>4, <2>3, ServiceAssumption DEF Dispatch, Collapsed, Locators
  <2>6. RowsFollow'
    BY <1>1, <1>2, <2>5 DEF RowsFollow
  <2>7. held[c].by = "bridge" => held[c].pos = At(c)
    BY <1>1, <2>4 DEF Steady, ReadsInHand
  <2>8. WritesInHand'
    BY <1>1, <2>4, <2>7 DEF WritesInHand
  <2>9. ReadsInHand'
    BY <2>4 DEF ReadsInHand
  <2> QED
    BY <2>6, <2>8, <2>9 DEF Steady
<1> QED
  BY <1>3, <1>4

(* A service has its turn: refused, failed, written, or answered.            *)
LEMMA SteadyTurn ==
    ASSUME TypeOK, CycleShape, SentAsAwaited, Steady, NEW c \in Services,
           Refuse(c) \/ Write(c) \/ Answered(c) \/ WriteFails(c)
    PROVE  Steady'
<1>1. /\ cycle \in Writing /\ cycle.step \in {"write", "fill"} /\ c \in cycle.todo
      /\ cycle'.step = cycle.step /\ cycle'.lead = cycle.lead /\ cycle'.at = cycle.at
  BY TurnShape
<1>2. /\ DOMAIN cycle.done \subseteq Services /\ c \notin DOMAIN cycle.done
      /\ cycle.lead \in Services /\ cycle.lead # c /\ cycle.at \in Positions
  BY <1>1 DEF Steady, WritesInHand, Writing, CycleShape
<1>3. saved' = saved
  BY DEF Refuse, Write, Answered, WriteFails, world
<1>4. ASSUME \A d \in Services \ {c} : held'[d] = held[d],
             DOMAIN cycle.done \subseteq DOMAIN cycle'.done,
             \A d \in DOMAIN cycle.done : cycle'.done[d] = cycle.done[d],
             DOMAIN cycle'.done \subseteq DOMAIN cycle.done \cup {c},
             DOMAIN cycle'.done \cap cycle'.todo = {},
             held'[c].by = "bridge" =>
                \/ c \in DOMAIN cycle'.done /\ cycle'.done[c] = held'[c].pos
                \/ held'[c] = held[c] /\ c \notin DOMAIN cycle'.done
      PROVE  Steady'
  <2>1. RowsFollow'
    <3> SUFFICES ASSUME NEW d \in Services, held'[d].by = "bridge"
                 PROVE  saved[d] = held'[d].pos \/ Carried(d)'
      BY <1>3 DEF RowsFollow
    <3>1. CASE d = c /\ c \in DOMAIN cycle'.done
      BY <1>1, <1>4, <3>1 DEF Carried
    <3>2. CASE d # c \/ c \notin DOMAIN cycle'.done
      <4>1. held'[d] = held[d]
        BY <1>4, <3>2
      <4>2. saved[d] = held[d].pos \/ Carried(d)
        BY <4>1 DEF Steady, RowsFollow
      <4>3. Carried(d) => Carried(d)'
        BY <1>1, <1>4, <4>1 DEF Carried
      <4> QED
        BY <4>1, <4>2, <4>3
    <3> QED
      BY <3>1, <3>2
  <2>2. WritesInHand'
    <3>1. \A d \in DOMAIN cycle'.done : held'[d].by = "bridge" => held'[d].pos = cycle'.done[d]
      BY <1>1, <1>2, <1>4 DEF Steady, WritesInHand
    <3>2. cycle.step = "write" /\ held'[cycle.lead].by = "bridge"
             => held'[cycle.lead].pos = cycle.at
      BY <1>2, <1>4 DEF Steady, WritesInHand
    <3> QED
      BY <1>1, <1>4, <3>1, <3>2 DEF WritesInHand
  <2>3. ReadsInHand'
    BY <1>1 DEF ReadsInHand
  <2> QED
    BY <2>1, <2>2, <2>3 DEF Steady
<1>5. DOMAIN cycle.done \cap cycle.todo = {}
  BY <1>1 DEF Steady, WritesInHand
<1>6. ASSUME NEW p \in Positions, Finish(c, Landed(c, p)), held'[c].by = "bridge" => p = held'[c].pos,
             \A d \in Services \ {c} : held'[d] = held[d]
      PROVE  Steady'
  <2>1. PICK done \in Results : done = Landed(c, p)
    BY <1>1, LandedResults
  <2>2. cycle'.done = done /\ cycle'.todo = cycle.todo \ {c}
    BY <1>1, <1>6, <2>1, FinishShape
  <2>3. /\ DOMAIN done = DOMAIN cycle.done \cup {c} /\ done[c] = p
        /\ \A d \in DOMAIN cycle.done \ {c} : done[d] = cycle.done[d]
    BY <2>1 DEF Landed
  <2> QED
    BY <1>2, <1>4, <1>5, <1>6, <2>2, <2>3
<1>7. CASE Refuse(c)
  <2>1. held' = held /\ Finish(c, Landed(c, held[c].pos))
    BY <1>7 DEF Refuse, world
  <2>2. held[c].pos \in Positions
    BY <1>7, ServiceAssumption DEF Refuse, Refused, TypeOK
  <2>3. PICK p \in Positions : p = held[c].pos
    BY <2>2
  <2> QED
    BY <1>6, <2>1, <2>3
<1>8. CASE Write(c)
  <2>1. cycle'.done = cycle.done /\ cycle'.todo = cycle.todo
    BY <1>1, <1>8, SentShape DEF Write
  <2>2. held'[c].by = "sent" /\ \A d \in Services \ {c} : held'[d] = held[d]
    BY <1>8 DEF Write, TypeOK, Position
  <2> QED
    BY <1>2, <1>4, <1>5, <2>1, <2>2
<1>9. CASE Answered(c)
  <2>1. /\ \A d \in Services \ {c} : held'[d] = held[d]
        /\ held'[c].pos = held[c].pos
        /\ held'[c].by = IF held[c].by = "sent" THEN "bridge" ELSE held[c].by
    BY <1>9, AnsweredHeld
  <2>2. held[c].by = "reader" \/ (held[c].by = "sent" /\ held[c].pos = cycle.at)
    BY <1>9 DEF Answered, SentAsAwaited
  <2>3. Finish(c, Landed(c, cycle.at))
    BY <1>9 DEF Answered
  <2>4. PICK p \in Positions : p = cycle.at
    BY <1>2
  <2> QED
    BY <1>6, <2>1, <2>2, <2>3, <2>4
<1>10. CASE WriteFails(c)
  <2>1. held' = held /\ Finish(c, cycle.done)
    BY <1>10 DEF WriteFails, world
  <2>2. cycle.done \in Results
    BY <1>1 DEF Writing, Results
  <2>3. cycle'.done = cycle.done /\ cycle'.todo = cycle.todo \ {c}
    BY <1>1, <2>1, <2>2, FinishShape
  <2> QED
    BY <1>2, <1>4, <1>5, <2>1, <2>3
<1> QED
  BY <1>7, <1>8, <1>9, <1>10

(* The cycle saves what it read of the leader and what it stored elsewhere.  *)
LEMMA SteadySave ==
    ASSUME TypeOK, CycleShape, Steady, Save
    PROVE  Steady'
<1>1. held' = held /\ saved \in [Services -> Positions \cup {None}]
  BY DEF Save, SaveLeader, SaveFollowers, SaveFill, TypeOK
<1>2. CASE SaveLeader
  <2>1. cycle \in Writing /\ cycle.step = "write"
    BY <1>2, WritingShape DEF SaveLeader
  <2>2. /\ cycle'.step = "followers" /\ cycle'.done = cycle.done /\ cycle'.todo = cycle.todo
        /\ cycle.lead \in Services
    BY <1>2, <2>1 DEF SaveLeader, Writing
  <2>3. saved' = [saved EXCEPT ![cycle.lead] = cycle.at]
    BY <1>2 DEF SaveLeader
  <2>4. held[cycle.lead].by = "bridge" => held[cycle.lead].pos = cycle.at
    BY <2>1 DEF Steady, WritesInHand
  <2>5. RowsFollow'
    BY <1>1, <2>1, <2>2, <2>3, <2>4 DEF Steady, RowsFollow, Carried
  <2>6. WritesInHand' /\ ReadsInHand'
    BY <1>1, <2>1, <2>2 DEF Steady, WritesInHand, ReadsInHand
  <2> QED
    BY <2>5, <2>6 DEF Steady
<1>3. CASE SaveFollowers
  <2>1. cycle.step = "followers" /\ cycle' = Idle
        /\ saved' = [c \in Services |-> IF c \in DOMAIN cycle.done THEN cycle.done[c] ELSE saved[c]]
    BY <1>3 DEF SaveFollowers
  <2>2. \A c \in Services : held[c].by = "bridge" => saved'[c] = held[c].pos
    BY <2>1 DEF Steady, RowsFollow, WritesInHand, Carried
  <2> QED
    BY <1>1, <2>1, <2>2 DEF Steady, RowsFollow, ReadsInHand, WritesInHand, Idle
<1>4. CASE SaveFill
  <2>1. cycle.step = "fill" /\ cycle' = Idle /\ DOMAIN cycle.done \subseteq {Device}
    BY <1>4 DEF SaveFill, CycleShape
  <2>2. \A c \in Services : held[c].by = "bridge" => saved'[c] = held[c].pos
    <3>1. CASE DOMAIN cycle.done = {}
      <4>1. saved' = saved
        BY <1>4, <3>1 DEF SaveFill
      <4> QED
        BY <3>1, <4>1 DEF Steady, RowsFollow, Carried
    <3>2. CASE DOMAIN cycle.done # {}
      <4>1. DOMAIN cycle.done = {Device} /\ saved' = [saved EXCEPT ![Device] = cycle.done[Device]]
        BY <1>4, <2>1, <3>2 DEF SaveFill
      <4>2. held[Device].by = "bridge" => held[Device].pos = cycle.done[Device]
        BY <2>1, <4>1 DEF Steady, WritesInHand
      <4> QED
        BY <1>1, <4>1, <4>2 DEF Steady, RowsFollow, Carried
    <3> QED
      BY <3>1, <3>2
  <2> QED
    BY <1>1, <2>1, <2>2 DEF Steady, RowsFollow, ReadsInHand, WritesInHand, Idle
<1> QED
  BY <1>2, <1>3, <1>4 DEF Save

(* Every step but a restart keeps rows and services together.                *)
LEMMA SteadyStep == IInv /\ Steady /\ [Next]_vars /\ [~Restart]_vars => Steady'
<1> SUFFICES ASSUME IInv, Steady, [Next]_vars, [~Restart]_vars PROVE Steady'
  OBVIOUS
<1>i. TypeOK /\ CycleShape /\ SentAsAwaited /\ held \in [Services -> Held]
  BY DEF IInv, WritesRemembered, TypeOK, Held
<1>p. Polled \subseteq Services /\ Audio \in Services /\ Device \in Services
  BY ServiceAssumption DEF Polled
<1>1. CASE UNCHANGED vars
  BY <1>1, SteadyKept DEF vars
<1>2. CASE Next /\ ~Restart
  <2>1. ASSUME NEW p \in Positions, Listen(p) PROVE Steady'
    BY <1>i, <1>p, <2>1, SteadyTakenOver DEF Listen
  <2>2. ASSUME NEW c \in Polled, NEW p \in Positions, Read(c, p) PROVE Steady'
    BY <1>i, <1>p, <2>2, SteadyTakenOver DEF Read
  <2>3. ASSUME NEW p \in Positions, Put(p) PROVE Steady'
    <3>1. \A d \in Services \ {Device} : saved'[d] = saved[d]
      BY <1>i, <2>3 DEF Put, TypeOK
    <3> QED
      BY <1>i, <1>p, <2>3, <3>1, SteadyTakenOver DEF Put
  <2>4. ASSUME NEW c \in Polled, Poll(c) PROVE Steady'
    BY <2>4, SteadyKept DEF Poll, world
  <2>5. CASE SocketFire \/ Pause
    BY <2>5, SteadyKept DEF SocketFire, Pause, world
  <2>6. ASSUME NEW target \in BOOLEAN, BeginAny(target) PROVE Steady'
    BY <1>i, <2>6, SteadyBegin DEF BeginAny
  <2>7. CASE Decide
    BY <1>i, <2>7, SteadyDecide
  <2>8. CASE AnyWrite
    BY <1>i, <2>8, SteadyTurn DEF AnyWrite
  <2>9. CASE Save
    BY <1>i, <2>9, SteadySave
  <2>10. CASE LongPause
    <3>1. cycle.step = "idle" /\ cycle' = cycle /\ saved' = saved
      BY <2>10 DEF LongPause, Restful
    <3>2. \A c \in Services : held'[c].by = held[c].by /\ held'[c].pos = held[c].pos
      BY <1>i, <2>10 DEF LongPause, Held
    <3> QED
      BY <3>1, <3>2 DEF Steady, RowsFollow, ReadsInHand, WritesInHand, Carried
  <2> QED
    BY <1>2, <2>1, <2>2, <2>3, <2>4, <2>5, <2>6, <2>7, <2>8, <2>9, <2>10 DEF Next
<1> QED
  BY <1>1, <1>2

(* As long as the process runs, what the cycle wrote to a service and has    *)
(* the answer of is in that service's State row, or the cycle still has it   *)
(* in hand: through refused and failed writes, lost answers, positions that  *)
(* do not resolve, and a reader who moves between the read, the write, the   *)
(* answer and the save (_run_sync_cycle).                                    *)
THEOREM RowsKeepUp == Spec /\ [][~Restart]_vars => []RowsFollow
<1>1. Steady => RowsFollow
  BY DEF Steady
<1> QED
  BY Inductive, InitSteady, SteadyStep, <1>1, PTL DEF Spec

(* So a position that differs from its State row when _run_sync_cycle reads  *)
(* it is the reader's, or a write whose answer was lost, which the tracker   *)
(* does not know either: for the services that a cycle finds moved, what the *)
(* tracker still knows matters only where a restart came between a write and *)
(* its row.                                                                  *)
THEOREM MovesAreReaders == Spec /\ [][~Restart]_vars => []MovesAreTheReaders
<1>1. ASSUME IInv, Steady PROVE MovesAreTheReaders
  <2> SUFFICES ASSUME cycle.step = "read", NEW c \in Moved PROVE cycle.reads[c].by # "bridge"
    BY DEF MovesAreTheReaders
  <2>1. cycle \in Deciding /\ c \in Seen /\ At(c) # Before(c)
    BY <1>1, DecidingShape DEF IInv, Moved
  <2>2. cycle.reads[c] \in Held /\ At(c) \in Positions
    BY <2>1, ReadsPositions DEF Deciding, Seen, At
  <2>3. cycle.reads[c].by = "bridge" => cycle.prev[c] = At(c)
    BY <1>1, <2>1 DEF Steady, ReadsInHand
  <2>4. cycle.prev[c] = At(c) => Before(c) = At(c)
    BY <2>2, ServiceAssumption DEF Before
  <2> QED
    BY <2>1, <2>2, <2>3, <2>4 DEF Held
<1> QED
  BY Inductive, InitSteady, SteadyStep, <1>1, PTL DEF Spec

================================================================================

---------------------------- MODULE ReadAlongProofs ----------------------------
(***************************************************************************)
(* Proofs about ReadAlong, for any number of matches, routes, removals,    *)
(* faults and restarts.                                                    *)
(***************************************************************************)
EXTENDS ReadAlong, FiniteSetTheorems, SequenceTheorems, TLAPS

Holding == {"admitted", "consumed", "start"}
Serving == {"record", "look", "align", "persist", "dispatch", "admitted"}

(* Of the threads between admission and the start of a generation and the    *)
(* generations that have not released, there is one when the book is         *)
(* reserved and none otherwise.                                              *)
Alone ==
    /\ \A t, u \in Threads : at[t] \in Holding /\ at[u] \in Holding => t = u
    /\ \A g, h \in Working : g = h
    /\ \A t \in Threads : at[t] \in Holding => Working = {}
    /\ reserved <=> (\E t \in Threads : at[t] \in Holding) \/ Working # {}

(* The open status rows are those of the holder or of the generation.        *)
OpenRows ==
    spent.restart = 0 =>
        \A i \in DOMAIN jobs : jobs[i] = "open" =>
            \/ \E t \in Threads : at[t] = "start" /\ row[t] = i
            \/ \E g \in gen : g.step = "work" /\ g.row = i

IInv == TypeOK /\ Alone /\ OpenRows /\ RequestServed

Rows == {"open", "done", "failed", None}

(* What the three ways to change the status rows do to them.                 *)
LEMMA AppendedRow ==
    ASSUME jobs \in Seq(Rows), NEW new, new = Append(jobs, "open")
    PROVE  /\ new \in Seq(Rows)
           /\ Len(new) \in DOMAIN new /\ DOMAIN jobs \subseteq DOMAIN new
           /\ \A i \in DOMAIN new : new[i] = IF i = Len(new) THEN "open" ELSE jobs[i]
           /\ \A i \in DOMAIN new : i # Len(new) => i \in DOMAIN jobs
<1>1. "open" \in Rows
  BY DEF Rows
<1> QED
  BY <1>1, AppendProperties

LEMMA MarkedRow ==
    ASSUME jobs \in Seq(Rows), NEW r \in DOMAIN jobs \cup {None},
           NEW state \in {"done", "failed"}, NEW new, new = Marked(r, state)
    PROVE  /\ new \in Seq(Rows)
           /\ DOMAIN new = DOMAIN jobs
           /\ \A i \in DOMAIN jobs : new[i] = "open" => jobs[i] = "open" /\ i # r
<1>1. CASE r = None \/ jobs[r] = None
  BY <1>1, ReadAlongAssumption DEF Marked
<1>2. CASE ~(r = None \/ jobs[r] = None)
  <2>1. new = [jobs EXCEPT ![r] = state] /\ r \in DOMAIN jobs /\ state \in Rows
    BY <1>2 DEF Marked, Rows
  <2>2. new \in Seq(Rows)
    BY <2>1, ExceptSeq
  <2> QED
    BY <2>1, <2>2
<1> QED
  BY <1>1, <1>2

LEMMA RemovedRows ==
    ASSUME jobs \in Seq(Rows), NEW new, new = [i \in DOMAIN jobs |-> None]
    PROVE  /\ new \in Seq(Rows)
           /\ DOMAIN new = DOMAIN jobs
           /\ \A i \in DOMAIN new : new[i] # "open"
<1>1. None \in Rows /\ Len(jobs) \in Nat /\ DOMAIN jobs = 1 .. Len(jobs)
  BY LenProperties DEF Rows
<1>2. \A i \in 1 .. Len(jobs) : new[i] \in Rows
  BY <1>1
<1>3. new \in Seq(Rows)
  BY <1>1, <1>2
<1> QED
  BY <1>3, ReadAlongAssumption

LEMMA InitIInv == Init => IInv
<1> SUFFICES ASSUME Init PROVE IInv
  OBVIOUS
<1>1. TypeOK
  <2>1. jobs \in Seq({"open", "done", "failed", None})
    BY DEF Init
  <2>2. {requested, reserved, missed} \subseteq BOOLEAN
    BY DEF Init
  <2> QED
    BY <2>1, <2>2 DEF Init, TypeOK
<1>2. Alone
  BY DEF Init, Alone, Working, Holding
<1>3. OpenRows /\ RequestServed
  BY DEF Init, OpenRows, RequestServed
<1> QED
  BY <1>1, <1>2, <1>3 DEF IInv

LEMMA Spent ==
    ASSUME spent \in [Kinds -> Nat], NEW k \in Kinds, Spend(k)
    PROVE  spent' \in [Kinds -> Nat] /\ (spent'.restart = 0 => spent.restart = 0 /\ k # "restart")
<1>1. "restart" \in Kinds
  BY DEF Kinds
<1> QED
  BY <1>1 DEF Spend

LEMMA Types ==
    ASSUME TypeOK
    PROVE  /\ jobs \in Seq(Rows) /\ spent \in [Kinds -> Nat]
           /\ requested \in BOOLEAN /\ reserved \in BOOLEAN /\ missed \in BOOLEAN
           /\ (missed \/ requested) \in BOOLEAN
  BY DEF TypeOK, Rows

(* The parts of the type invariant that an action may disturb.               *)
LEMMA TypeParts ==
    ASSUME status' \in {"gone", "pending", "processing", "retry", "active"},
           map' \in {"none", "eligible", "other"},
           requested' \in BOOLEAN, reserved' \in BOOLEAN, missed' \in BOOLEAN,
           at' \in [Threads -> {"idle", "record", "look", "align", "persist", "cancelled",
                                "dispatch", "admitted", "consumed", "start"}],
           jobs' \in Seq(Rows),
           row' \in [Threads -> DOMAIN jobs' \cup {None}],
           \A t \in Threads : row'[t] # None => at'[t] = "start",
           gen' \subseteq [step : {"work", "finally", "unwind"}, row : DOMAIN jobs' \cup {None},
                           wrapped : BOOLEAN],
           spent' \in [Kinds -> Nat]
    PROVE  TypeOK'
  BY DEF TypeOK, Rows

LEMMA TypeStep == TypeOK /\ [Next]_vars => TypeOK'
<1> SUFFICES ASSUME TypeOK, [Next]_vars PROVE TypeOK'
  OBVIOUS
<1> USE Types, Spent, TypeParts DEF TypeOK
<1> DEFINE Kind(k) == k \in Kinds
<1>k. Kind("match") /\ Kind("clear") /\ Kind("route") /\ Kind("remove") /\ Kind("unmatch") /\ Kind("fault") /\ Kind("restart")
  BY DEF Kinds
<1> HIDE DEF Kind
<1>t. "aligner" \in Threads /\ "route" \in Threads /\ Matchers \subseteq Threads
  BY DEF Threads
<1>1. ASSUME NEW m \in Matchers, Match(m) PROVE TypeOK'
  BY <1>1, <1>k, <1>t, Spent DEF Match, Matched, Goes, request, generation, Kind
<1>2. ASSUME NEW m \in Matchers, Record(m) PROVE TypeOK'
  BY <1>2, <1>k, <1>t, Spent DEF Record, Recorded, Goes, alignment, generation, request, Kind
<1>3. ASSUME NEW m \in Matchers, Look(m) PROVE TypeOK'
  BY <1>3, <1>k, <1>t, Spent DEF Look, Goes, alignment, generation, request, Kind
<1>4. CASE AlignStart
  BY <1>4, <1>k, <1>t, Spent DEF AlignStart, Goes, generation, request, Kind
<1>5. CASE AlignStore
  BY <1>5, <1>k, <1>t, Spent DEF AlignStore, Goes, generation, request, Kind
<1>6. CASE AlignPersist
  BY <1>6, <1>k, <1>t, Spent DEF AlignPersist, Goes, generation, request, Kind
<1>7. CASE AlignCancelled
  BY <1>7, <1>k, <1>t, Spent DEF AlignCancelled, Goes, alignment, generation, request, Kind
<1>8. ASSUME NEW t \in Threads, Admit(t) PROVE TypeOK'
  BY <1>8, <1>k, <1>t, Spent DEF Admit, Goes, alignment, generation, Kind
<1>9. ASSUME NEW t \in Threads, Consume(t) PROVE TypeOK'
  BY <1>9, <1>k, <1>t, Spent DEF Consume, Goes, alignment, generation, request, Kind
<1>10. ASSUME NEW t \in Threads, Dispatched(t) PROVE TypeOK'
  <2>1. CASE row' = row /\ jobs' = jobs
    BY <1>10, <2>1, <1>k, <1>t, Spent DEF Dispatched, Leave, Goes, alignment, request, Kind
  <2>2. CASE Leave(t) /\ jobs' = jobs /\ UNCHANGED spent
    BY <1>10, <2>2 DEF Dispatched, Leave, Goes, alignment, request
  <2>3. CASE /\ jobs' = Append(jobs, "open") /\ row' = [row EXCEPT ![t] = Len(jobs')]
             /\ Goes(t, "start") /\ UNCHANGED <<reserved, spent>>
    <3>1. jobs' \in Seq(Rows) /\ Len(jobs') \in DOMAIN jobs' /\ DOMAIN jobs \subseteq DOMAIN jobs'
      BY <2>3, AppendedRow
    <3> QED
      BY <1>10, <2>3, <3>1 DEF Dispatched, Goes, alignment, request
  <2> QED
    BY <1>10, <2>1, <2>2, <2>3 DEF Dispatched
<1>11. ASSUME NEW t \in Threads, Start(t) PROVE TypeOK'
  <2>1. jobs' \in Seq(Rows) /\ DOMAIN jobs' = DOMAIN jobs
    BY <1>11, MarkedRow DEF Start
  <2>2. row' \in [Threads -> DOMAIN jobs \cup {None}]
    BY <1>11 DEF Start, Leave
  <2>3. gen' \subseteq [step : {"work", "finally", "unwind"}, row : DOMAIN jobs \cup {None}, wrapped : BOOLEAN]
    <3>1. (t # "route") \in BOOLEAN /\ row[t] \in DOMAIN jobs \cup {None}
      OBVIOUS
    <3>2. [step |-> "work", row |-> row[t], wrapped |-> t # "route"]
            \in [step : {"work", "finally", "unwind"}, row : DOMAIN jobs \cup {None}, wrapped : BOOLEAN]
      BY <3>1
    <3>3. gen' = gen \cup {[step |-> "work", row |-> row[t], wrapped |-> t # "route"]} \/ gen' = gen
      BY <1>11 DEF Start
    <3> QED
      BY <3>2, <3>3
  <2> QED
    BY <1>11, <2>1, <2>2, <2>3, <1>k, Spent DEF Start, Leave, Goes, alignment, request, Kind
<1>12. CASE Request
  BY <1>12, <1>k, <1>t, Spent DEF Request, Goes, alignment, request, generation, Kind
<1>13. CASE Queued
  <2>1. CASE Spend("fault") /\ Leave("route") /\ reserved' = FALSE /\ UNCHANGED jobs
    BY <1>13, <2>1, <1>k, <1>t, Spent DEF Queued, Leave, Goes, alignment, request, Kind
  <2>2. CASE /\ jobs' = Append(jobs, "open") /\ row' = [row EXCEPT !["route"] = Len(jobs')]
             /\ Goes("route", "start") /\ UNCHANGED <<reserved, spent>>
    <3>1. jobs' \in Seq(Rows) /\ Len(jobs') \in DOMAIN jobs' /\ DOMAIN jobs \subseteq DOMAIN jobs'
      BY <2>2, AppendedRow
    <3> QED
      BY <1>13, <1>t, <2>2, <3>1 DEF Queued, Goes, alignment, request
  <2> QED
    BY <1>13, <2>1, <2>2 DEF Queued
<1>14. ASSUME NEW g \in gen, Work(g) PROVE TypeOK'
  <2>1. jobs' \in Seq(Rows) /\ DOMAIN jobs' = DOMAIN jobs
    BY <1>14, MarkedRow DEF Work, Delivery
  <2> QED
    BY <1>14, <2>1 DEF Work, alignment, request, threads
<1>15. ASSUME NEW g \in gen, Release(g) PROVE TypeOK'
  BY <1>15, <1>k, <1>t, Spent DEF Release, alignment, request, threads, Kind
<1>16. ASSUME NEW g \in gen, Unwind(g) PROVE TypeOK'
  BY <1>16, <1>k, <1>t, Spent DEF Unwind, alignment, request, threads, Kind
<1>17. CASE RemoveFile
  BY <1>17, <1>k, <1>t, RemovedRows, Spent DEF RemoveFile, alignment, request, threads, Kind
<1>18. CASE Unmatch
  BY <1>18, <1>k, <1>t, RemovedRows, Spent DEF Unmatch, Kind
<1>19. CASE Restart
  BY <1>19, <1>k, <1>t, Spent DEF Restart, Kind
<1>20. CASE UNCHANGED vars
  BY <1>20 DEF vars
<1>21. CASE MatchOnly
  BY <1>21, <1>k, <1>t, Spent DEF MatchOnly, Matched, LeftBehind, threads, generation, Kind
<1>22. CASE ClearProgress
  BY <1>22, <1>k, <1>t, Spent DEF ClearProgress, LeftBehind, threads, generation, Kind
<1>23. CASE AlignFails
  BY <1>23, <1>k, <1>t, Spent DEF AlignFails, Goes, generation, request, Kind
<1>24. ASSUME NEW g \in gen, HandOffFails(g) PROVE TypeOK'
  <2>1. jobs' \in Seq(Rows) /\ DOMAIN jobs' = DOMAIN jobs
    BY <1>24, MarkedRow DEF HandOffFails
  <2> QED
    BY <1>24, <2>1, <1>k, Spent DEF HandOffFails, alignment, request, threads, Kind
<1> QED
  BY <1>1, <1>2, <1>3, <1>4, <1>5, <1>6, <1>7, <1>8, <1>9, <1>10, <1>11, <1>12, <1>13, <1>14, <1>15, <1>16, <1>17, <1>18, <1>19, <1>20, <1>21, <1>22, <1>23, <1>24 DEF Next

--------------------------------------------------------------------------------
(* The reservation.                                                          *)

LEMMA AloneStep == TypeOK /\ TypeOK' /\ Alone /\ [Next]_vars => Alone'
<1> SUFFICES ASSUME TypeOK, Alone, [Next]_vars PROVE Alone'
  OBVIOUS
<1> USE DEF Alone, Holding, Working
<1>0. /\ at \in [Threads -> {"idle", "record", "look", "align", "persist", "cancelled",
                             "dispatch", "admitted", "consumed", "start"}]
      /\ gen \subseteq [step : {"work", "finally", "unwind"}, row : DOMAIN jobs \cup {None},
                        wrapped : BOOLEAN]
      /\ reserved \in BOOLEAN
  BY DEF TypeOK
<1>t. "aligner" \in Threads /\ "route" \in Threads /\ Matchers \subseteq Threads
  BY DEF Threads
<1>1. ASSUME NEW m \in Matchers, Match(m) PROVE Alone'
  BY <1>1, <1>0, <1>t DEF Match, Goes, generation
<1>2. ASSUME NEW m \in Matchers, Record(m) PROVE Alone'
  BY <1>2, <1>0, <1>t DEF Record, Goes, generation
<1>3. ASSUME NEW m \in Matchers, Look(m) PROVE Alone'
  BY <1>3, <1>0, <1>t DEF Look, Goes, generation
<1>4. CASE AlignStart
  BY <1>4, <1>0, <1>t DEF AlignStart, Goes, generation
<1>5. CASE AlignStore
  BY <1>5, <1>0, <1>t DEF AlignStore, Goes, generation
<1>6. CASE AlignPersist
  BY <1>6, <1>0, <1>t DEF AlignPersist, Goes, generation
<1>7. CASE AlignCancelled
  BY <1>7, <1>0, <1>t DEF AlignCancelled, Goes, generation
<1>8. ASSUME NEW t \in Threads, Admit(t) PROVE Alone'
  BY <1>8, <1>0, <1>t DEF Admit, Goes, generation
<1>9. ASSUME NEW t \in Threads, Consume(t) PROVE Alone'
  BY <1>9, <1>0, <1>t DEF Consume, Goes, generation
<1>10. ASSUME NEW t \in Threads, Dispatched(t) PROVE Alone'
  BY <1>10, <1>0, <1>t DEF Dispatched, Leave, Goes
<1>11. ASSUME NEW t \in Threads, Start(t) PROVE Alone'
  <2> DEFINE new == [step |-> "work", row |-> row[t], wrapped |-> t # "route"]
  <2>1. Working = {} /\ \A u \in Threads : at[u] \in Holding => u = t
    BY <1>11 DEF Start
  <2>2. \A u \in Threads : at'[u] \notin Holding
    BY <1>11, <1>0, <2>1 DEF Start, Leave, Goes
  <2>3. CASE gen' = gen \cup {new} /\ UNCHANGED reserved
    <3>1. Working' = {new}
      BY <2>1, <2>3
    <3> QED
      BY <1>11, <2>2, <2>3, <3>1 DEF Start
  <2>4. CASE gen' = gen /\ reserved' = FALSE
    BY <2>1, <2>2, <2>4
  <2> QED
    BY <1>11, <2>3, <2>4 DEF Start
<1>12. CASE Request
  BY <1>12, <1>0, <1>t DEF Request, Goes, generation
<1>13. CASE Queued
  BY <1>13, <1>0, <1>t DEF Queued, Leave, Goes
<1>14. ASSUME NEW g \in gen, Work(g) PROVE Alone'
  <2> DEFINE next == [g EXCEPT !.step = "finally"]
  <2>1. next.step = "finally" /\ g \in Working
    BY <1>14, <1>0 DEF Work
  <2>2. Working' = {next}
    BY <1>14, <2>1 DEF Work
  <2> QED
    BY <1>14, <2>1, <2>2 DEF Work, threads
<1>15. ASSUME NEW g \in gen, Release(g) PROVE Alone'
  BY <1>15, <1>0, <1>t DEF Release, threads
<1>16. ASSUME NEW g \in gen, Unwind(g) PROVE Alone'
  BY <1>16, <1>0, <1>t DEF Unwind, threads
<1>17. CASE RemoveFile
  BY <1>17, <1>0, <1>t DEF RemoveFile, threads
<1>18. CASE Unmatch
  BY <1>18, <1>0, <1>t DEF Unmatch
<1>19. CASE Restart
  BY <1>19, <1>0, <1>t DEF Restart
<1>20. CASE UNCHANGED vars
  BY <1>20, <1>0, <1>t DEF vars, generation, threads
<1>21. CASE MatchOnly
  BY <1>21, <1>0, <1>t DEF MatchOnly, LeftBehind, threads, generation
<1>22. CASE ClearProgress
  BY <1>22, <1>0, <1>t DEF ClearProgress, LeftBehind, threads, generation
<1>23. CASE AlignFails
  BY <1>23, <1>0, <1>t DEF AlignFails, Goes, generation
<1>24. ASSUME NEW g \in gen, HandOffFails(g) PROVE Alone'
  BY <1>24, <1>0, <1>t DEF HandOffFails, threads
<1> QED
  BY <1>1, <1>2, <1>3, <1>4, <1>5, <1>6, <1>7, <1>8, <1>9, <1>10, <1>11, <1>12, <1>13, <1>14, <1>15, <1>16, <1>17, <1>18, <1>19, <1>20, <1>21, <1>22, <1>23, <1>24 DEF Next

--------------------------------------------------------------------------------
(* The request.                                                              *)

LEMMA ServedStep == TypeOK /\ RequestServed /\ [Next]_vars => RequestServed'
<1> SUFFICES ASSUME TypeOK, RequestServed, [Next]_vars PROVE RequestServed'
  OBVIOUS
<1> USE DEF RequestServed, OnTheWay
<1>0. /\ at \in [Threads -> {"idle", "record", "look", "align", "persist", "cancelled",
                             "dispatch", "admitted", "consumed", "start"}]
      /\ requested \in BOOLEAN /\ missed \in BOOLEAN
  BY DEF TypeOK
<1>t. "aligner" \in Threads /\ "route" \in Threads /\ Matchers \subseteq Threads
  BY DEF Threads
<1>1. ASSUME NEW m \in Matchers, Match(m) PROVE RequestServed'
  BY <1>1, <1>0, <1>t DEF Match, Goes, request
<1>2. ASSUME NEW m \in Matchers, Record(m) PROVE RequestServed'
  BY <1>2, <1>0, <1>t DEF Record, Recorded, Goes, generation, alignment
<1>3. ASSUME NEW m \in Matchers, Look(m) PROVE RequestServed'
  BY <1>3, <1>0, <1>t DEF Look, Goes, alignment, request
<1>4. CASE AlignStart
  BY <1>4, <1>0, <1>t DEF AlignStart, Goes, request
<1>5. CASE AlignStore
  BY <1>5, <1>0, <1>t DEF AlignStore, Goes, request
<1>6. CASE AlignPersist
  BY <1>6, <1>0, <1>t DEF AlignPersist, Goes
<1>7. CASE AlignCancelled
  BY <1>7, <1>0, <1>t DEF AlignCancelled, Goes, alignment, request
<1>8. ASSUME NEW t \in Threads, Admit(t) PROVE RequestServed'
  BY <1>8, <1>0, <1>t DEF Admit, Goes, alignment
<1>9. ASSUME NEW t \in Threads, Consume(t) PROVE RequestServed'
  BY <1>9, <1>0, <1>t DEF Consume, Goes, alignment, request
<1>10. ASSUME NEW t \in Threads, Dispatched(t) PROVE RequestServed'
  BY <1>10, <1>0, <1>t DEF Dispatched, Leave, Goes, alignment, request
<1>11. ASSUME NEW t \in Threads, Start(t) PROVE RequestServed'
  BY <1>11, <1>0, <1>t DEF Start, Leave, Goes, alignment, request
<1>12. CASE Request
  BY <1>12, <1>0, <1>t DEF Request, Goes, alignment, request
<1>13. CASE Queued
  BY <1>13, <1>0, <1>t DEF Queued, Leave, Goes, alignment, request
<1>14. ASSUME NEW g \in gen, Work(g) PROVE RequestServed'
  BY <1>14, <1>0, <1>t DEF Work, alignment, request, threads
<1>15. ASSUME NEW g \in gen, Release(g) PROVE RequestServed'
  BY <1>15, <1>0, <1>t DEF Release, alignment, request, threads
<1>16. ASSUME NEW g \in gen, Unwind(g) PROVE RequestServed'
  BY <1>16, <1>0, <1>t DEF Unwind, alignment, request, threads
<1>17. CASE RemoveFile
  BY <1>17, <1>0, <1>t DEF RemoveFile, alignment, request, threads
<1>18. CASE Unmatch
  BY <1>18, <1>0, <1>t DEF Unmatch
<1>19. CASE Restart
  BY <1>19, <1>0, <1>t DEF Restart
<1>20. CASE UNCHANGED vars
  BY <1>20, <1>0, <1>t DEF vars
<1>21. CASE MatchOnly
  BY <1>21, <1>0 DEF MatchOnly, LeftBehind, threads
<1>22. CASE ClearProgress
  BY <1>22, <1>0 DEF ClearProgress, LeftBehind, threads
<1>23. CASE AlignFails
  BY <1>23, <1>0, <1>t DEF AlignFails, Goes, request
<1>24. ASSUME NEW g \in gen, HandOffFails(g) PROVE RequestServed'
  BY <1>24, <1>0, <1>t DEF HandOffFails, alignment, request, threads
<1> QED
  BY <1>1, <1>2, <1>3, <1>4, <1>5, <1>6, <1>7, <1>8, <1>9, <1>10, <1>11, <1>12, <1>13, <1>14, <1>15, <1>16, <1>17, <1>18, <1>19, <1>20, <1>21, <1>22, <1>23, <1>24 DEF Next

--------------------------------------------------------------------------------
(* The status rows.                                                          *)

Carried(i) ==
    \/ \E t \in Threads : at[t] = "start" /\ row[t] = i
    \/ \E g \in gen : g.step = "work" /\ g.row = i

LEMMA OpenRowsStep == TypeOK /\ Alone /\ OpenRows /\ [Next]_vars => OpenRows'
<1> SUFFICES ASSUME TypeOK, Alone, OpenRows, [Next]_vars, spent'.restart = 0,
                    NEW i \in DOMAIN jobs', jobs'[i] = "open"
             PROVE  Carried(i)'
  BY DEF OpenRows, Carried
<1>0. /\ at \in [Threads -> {"idle", "record", "look", "align", "persist", "cancelled",
                             "dispatch", "admitted", "consumed", "start"}]
      /\ row \in [Threads -> DOMAIN jobs \cup {None}]
      /\ gen \subseteq [step : {"work", "finally", "unwind"}, row : DOMAIN jobs \cup {None},
                        wrapped : BOOLEAN]
      /\ spent \in [Kinds -> Nat]
  BY DEF TypeOK
<1>t. "aligner" \in Threads /\ "route" \in Threads /\ Matchers \subseteq Threads
  BY DEF Threads
<1>k. /\ "match" \in Kinds /\ "clear" \in Kinds /\ "route" \in Kinds /\ "remove" \in Kinds /\ "unmatch" \in Kinds
      /\ "fault" \in Kinds /\ "restart" \in Kinds
  BY DEF Kinds
<1>s. \A k \in Kinds : Spend(k) => spent.restart = 0 /\ k # "restart"
  BY Spent, <1>0
<1>c. spent.restart = 0 => \A j \in DOMAIN jobs : jobs[j] = "open" => Carried(j)
  BY DEF OpenRows, Carried
<1>h. \A t \in Threads : at[t] \in Holding =>
        /\ \A u \in Threads : at[u] = "start" => u = t
        /\ \A g \in gen : g.step # "work"
  BY DEF Alone, Holding, Working
<1>u. ASSUME spent.restart = 0, jobs' = jobs,
             \A t \in Threads : at[t] = "start" => at'[t] = "start" /\ row'[t] = row[t],
             \A g \in gen : g.step = "work" => g \in gen'
      PROVE  Carried(i)'
  BY <1>u, <1>c DEF Carried
<1>1. ASSUME NEW m \in Matchers, Match(m) PROVE Carried(i)'
  BY <1>1, <1>0, <1>t, <1>s, <1>k, <1>u DEF Match, Goes, generation, threads
<1>2. ASSUME NEW m \in Matchers, Record(m) PROVE Carried(i)'
  BY <1>2, <1>0, <1>t, <1>s, <1>k, <1>u DEF Record, Goes, generation
<1>3. ASSUME NEW m \in Matchers, Look(m) PROVE Carried(i)'
  BY <1>3, <1>0, <1>t, <1>s, <1>k, <1>u DEF Look, Goes, generation
<1>4. CASE AlignStart
  BY <1>4, <1>0, <1>t, <1>s, <1>k, <1>u DEF AlignStart, Goes, generation
<1>5. CASE AlignStore
  BY <1>5, <1>0, <1>t, <1>s, <1>k, <1>u DEF AlignStore, Goes, generation
<1>6. CASE AlignPersist
  BY <1>6, <1>0, <1>t, <1>s, <1>k, <1>u DEF AlignPersist, Goes, generation
<1>7. CASE AlignCancelled
  BY <1>7, <1>0, <1>t, <1>s, <1>k, <1>u DEF AlignCancelled, Goes, generation
<1>8. ASSUME NEW t \in Threads, Admit(t) PROVE Carried(i)'
  BY <1>8, <1>0, <1>t, <1>s, <1>k, <1>u DEF Admit, Goes, generation
<1>9. ASSUME NEW t \in Threads, Consume(t) PROVE Carried(i)'
  BY <1>9, <1>0, <1>t, <1>s, <1>k, <1>u DEF Consume, Goes, generation
<1>10. ASSUME NEW t \in Threads, Dispatched(t) PROVE Carried(i)'
  <2>1. CASE jobs' = Append(jobs, "open") /\ row' = [row EXCEPT ![t] = Len(jobs')]
             /\ Goes(t, "start") /\ UNCHANGED spent
    <3>1. CASE i = Len(jobs')
      BY <1>0, <2>1, <3>1 DEF Carried, Goes
    <3>2. CASE i # Len(jobs')
      <4>1. i \in DOMAIN jobs /\ jobs[i] = "open"
        BY <2>1, <3>2, AppendedRow, Types
      <4> QED
        BY <1>10, <2>1, <4>1, <1>c, <1>h DEF Dispatched, Carried, Holding
    <3> QED
      BY <3>1, <3>2
  <2>2. CASE Spend("fault") /\ Goes(t, "start") /\ UNCHANGED <<jobs, row, reserved>>
    BY <1>10, <2>2, <1>0, <1>s, <1>k, <1>u DEF Dispatched, Goes
  <2>3. CASE Leave(t) /\ reserved' = FALSE /\ UNCHANGED <<jobs, spent>>
    BY <1>10, <2>3, <1>0, <1>u DEF Dispatched, Leave, Goes
  <2> QED
    BY <1>10, <2>1, <2>2, <2>3 DEF Dispatched
<1>11. ASSUME NEW t \in Threads, Start(t) PROVE Carried(i)'
  <2>1. CASE gen' = gen \cup {[step |-> "work", row |-> row[t], wrapped |-> t # "route"]}
             /\ UNCHANGED <<jobs, reserved, spent>>
    <3>1. Carried(i)
      BY <2>1, <1>c
    <3>2. PICK u \in Threads : at[u] = "start" /\ row[u] = i
      BY <1>11, <3>1, <1>h DEF Start, Carried, Holding
    <3>3. u = t
      BY <1>11, <3>2, <1>h DEF Start, Holding
    <3> DEFINE new == [step |-> "work", row |-> row[t], wrapped |-> t # "route"]
    <3>4. new \in gen' /\ new.step = "work" /\ new.row = i
      BY <2>1, <3>2, <3>3
    <3> QED
      BY <3>4 DEF Carried
  <2>2. CASE Spend("fault") /\ UNCHANGED gen /\ jobs' = Marked(row[t], "failed") /\ reserved' = FALSE
    <3>1. jobs[i] = "open" /\ i # row[t] /\ i \in DOMAIN jobs
      BY <2>2, MarkedRow, Types, <1>0
    <3>2. Carried(i)
      BY <2>2, <3>1, <1>c, <1>s, <1>k
    <3> QED
      BY <1>11, <3>1, <3>2, <1>h DEF Start, Carried, Holding
  <2> QED
    BY <1>11, <2>1, <2>2 DEF Start
<1>12. CASE Request
  BY <1>12, <1>0, <1>t, <1>s, <1>k, <1>u DEF Request, Goes, generation
<1>13. CASE Queued
  <2>1. CASE /\ jobs' = Append(jobs, "open") /\ row' = [row EXCEPT !["route"] = Len(jobs')]
             /\ Goes("route", "start") /\ UNCHANGED <<reserved, spent>>
    <3>1. CASE i = Len(jobs')
      <4>1. at'["route"] = "start" /\ row'["route"] = i
        BY <1>0, <1>t, <2>1, <3>1 DEF Goes
      <4> QED
        BY <4>1, <1>t DEF Carried
    <3>2. CASE i # Len(jobs')
      <4>1. i \in DOMAIN jobs /\ jobs[i] = "open"
        BY <2>1, <3>2, AppendedRow, Types
      <4> QED
        BY <1>13, <1>t, <2>1, <4>1, <1>c, <1>h DEF Queued, Carried, Holding
    <3> QED
      BY <3>1, <3>2
  <2>2. CASE Spend("fault") /\ Leave("route") /\ reserved' = FALSE /\ UNCHANGED jobs
    BY <1>13, <2>2, <1>0, <1>s, <1>k, <1>u DEF Queued, Leave, Goes
  <2> QED
    BY <1>13, <2>1, <2>2 DEF Queued
<1>14. ASSUME NEW g \in gen, Work(g) PROVE Carried(i)'
  <2>1. jobs[i] = "open" /\ i # g.row /\ i \in DOMAIN jobs
    BY <1>14, MarkedRow, Types, <1>0 DEF Work, Delivery
  <2>2. Carried(i)
    BY <1>14, <2>1, <1>c DEF Work
  <2>3. \A h \in gen : h.step = "work" => h = g
    BY <1>14 DEF Work, Alone, Working
  <2> QED
    BY <1>14, <2>1, <2>2, <2>3 DEF Work, threads, Carried
<1>15. ASSUME NEW g \in gen, Release(g) PROVE Carried(i)'
  BY <1>15, <1>0, <1>t, <1>s, <1>k, <1>u DEF Release, threads
<1>16. ASSUME NEW g \in gen, Unwind(g) PROVE Carried(i)'
  BY <1>16, <1>0, <1>t, <1>s, <1>k, <1>u DEF Unwind, threads
<1>17. CASE RemoveFile
  BY <1>17, RemovedRows, Types DEF RemoveFile
<1>18. CASE Unmatch
  BY <1>18, RemovedRows, Types DEF Unmatch
<1>19. CASE Restart
  BY <1>19, <1>s, <1>k DEF Restart
<1>20. CASE UNCHANGED vars
  BY <1>20, <1>0, <1>t, <1>s, <1>k, <1>u DEF vars
<1>21. CASE MatchOnly
  BY <1>21, <1>0, <1>t, <1>s, <1>k, <1>u DEF MatchOnly, LeftBehind, threads, generation
<1>22. CASE ClearProgress
  BY <1>22, <1>0, <1>t, <1>s, <1>k, <1>u DEF ClearProgress, LeftBehind, threads, generation
<1>23. CASE AlignFails
  BY <1>23, <1>0, <1>t, <1>s, <1>k, <1>u DEF AlignFails, Goes, generation
<1>24. ASSUME NEW g \in gen, HandOffFails(g) PROVE Carried(i)'
  <2>1. jobs[i] = "open" /\ i # g.row /\ i \in DOMAIN jobs
    BY <1>24, MarkedRow, Types, <1>0 DEF HandOffFails
  <2>2. Carried(i)
    BY <1>24, <2>1, <1>c, <1>s, <1>k DEF HandOffFails
  <2>3. \A h \in gen : h.step = "work" => h = g
    BY <1>24 DEF HandOffFails, Alone, Working
  <2> QED
    BY <1>24, <2>1, <2>2, <2>3 DEF HandOffFails, threads, Carried
<1> QED
  BY <1>1, <1>2, <1>3, <1>4, <1>5, <1>6, <1>7, <1>8, <1>9, <1>10, <1>11, <1>12, <1>13, <1>14, <1>15, <1>16, <1>17, <1>18, <1>19, <1>20, <1>21, <1>22, <1>23, <1>24 DEF Next

--------------------------------------------------------------------------------
(* The theorems.                                                             *)

LEMMA Counted == TypeOK /\ Alone /\ OpenRows => GenerationAccounted
<1> SUFFICES ASSUME TypeOK, Alone, OpenRows PROVE GenerationAccounted
  OBVIOUS
<1>1. CASE ~reserved
  <2>1. Holders = {} /\ Working = {}
    BY <1>1 DEF Alone, Holders, Holding
  <2>2. Cardinality(Holders) + Cardinality(Working) = 0
    BY <2>1, FS_EmptySet
  <2> QED
    BY <1>1, <2>1, <2>2 DEF GenerationAccounted, OpenRows, Alone, Working, Holders
<1>2. CASE reserved /\ Working = {}
  <2>1. PICK t \in Threads : Holders = {t}
    BY <1>2 DEF Alone, Holders, Holding
  <2>2. Cardinality(Holders) = 1 /\ Cardinality(Working) = 0
    BY <1>2, <2>1, FS_EmptySet, FS_Singleton
  <2> QED
    BY <1>2, <2>2 DEF GenerationAccounted, OpenRows, Working, Holders
<1>3. CASE reserved /\ Working # {}
  <2>1. PICK g \in Working : Working = {g}
    BY <1>3 DEF Alone
  <2>2. Holders = {}
    BY <1>3 DEF Alone, Holders, Holding
  <2>3. Cardinality(Holders) = 0 /\ Cardinality(Working) = 1
    BY <2>1, <2>2, FS_EmptySet, FS_Singleton
  <2> QED
    BY <1>3, <2>3 DEF GenerationAccounted, OpenRows, Working, Holders
<1> QED
  BY <1>1, <1>2, <1>3

(* The types, the one holder of the reservation, the rows and the request    *)
(* are inductive together.                                                   *)
THEOREM Inductive == Spec => []IInv
<1>1. IInv /\ [Next]_vars => IInv'
  BY TypeStep, AloneStep, ServedStep, OpenRowsStep DEF IInv
<1> QED
  BY <1>1, InitIInv, PTL DEF Spec

(* The state of the book, of every thread and of every generation keeps its  *)
(* shape.                                                                    *)
THEOREM TypeCorrect == Spec => []TypeOK
BY Inductive, PTL DEF IInv

(* Process-wide admission (_claim_readalong_generation): one generation of a *)
(* book at most, always under the reservation, and the reservation is given  *)
(* back by every path; a running status row has a generation.                *)
THEOREM OneGeneration == Spec => []GenerationAccounted
<1>1. IInv => GenerationAccounted
  BY Counted DEF IInv
<1> QED
  BY <1>1, Inductive, PTL

(* A request that a match records while the alignment ends is left to        *)
(* neither's neglect (_record_readalong_intent_for_match,                    *)
(* _dispatch_readalong_intent): as long as only alignments and asking matches *)
(* make the book active and no dispatch meets a generation, fails or is cut   *)
(* off, somebody is on the way to take it up.                                *)
THEOREM RequestsMeet == Spec => []RequestServed
BY Inductive, PTL DEF IInv
================================================================================

------------------------------ MODULE ReadAlong ------------------------------
(***************************************************************************)
(* Who generates the read-along EPUB of one book, and when: the request    *)
(* that a match records, the alignment whose end serves it, the dashboard's *)
(* own request, and the reservation that keeps two generations apart.      *)
(* Matches, the alignment job, the route and the generation are threads;   *)
(* the reservation lives in the process, the request and the status rows   *)
(* in the database.                                                        *)
(***************************************************************************)
EXTENDS Integers, FiniteSets, Sequences

CONSTANTS
    Matchers,   \* Match All, auto-match, shelf watch, each asking for a read-along
    Bounds,     \* how often each of the Kinds may happen
    None

Kinds == {"match", "clear", "route", "remove", "unmatch", "fault", "restart"}

ASSUME ReadAlongAssumption ==
    /\ IsFiniteSet(Matchers) /\ Matchers \cap {"aligner", "route"} = {}
    /\ Bounds \in [Kinds -> Nat]
    /\ None \notin Nat \cup {"open", "done", "failed"}

Threads == Matchers \cup {"aligner", "route"}

VARIABLES
    status,     \* Book.status; "gone" without a mapping
    map,        \* the stored alignment: none, of an eligible method, of another one
    requested,  \* Book.readalong_epub_requested
    at,         \* thread -> where it is
    row,        \* thread -> the status row it has made
    gen,        \* the generations alive: step, row, whether a wrapper waits for it
    reserved,   \* the book is in _ACTIVE_READALONG_GENERATIONS
    jobs,       \* status rows: "open", "done" or "failed"; None when deleted
    missed,     \* a dispatch of the request found a generation at work, failed,
                \* or was cut off by a restart, or the book was made active with
                \* nobody there to dispatch it
    spent

vars == <<status, map, requested, at, row, gen, reserved, jobs, missed, spent>>
alignment == <<status, map>>
request == <<requested, missed>>
generation == <<gen, jobs>>
threads == <<at, row>>

Init ==
    /\ status = "gone"
    /\ map = "none"
    /\ requested = FALSE
    /\ at = [t \in Threads |-> "idle"]
    /\ row = [t \in Threads |-> None]
    /\ gen = {}
    /\ reserved = FALSE
    /\ jobs = <<>>
    /\ missed = FALSE
    /\ spent = [k \in Kinds |-> 0]

Spend(k) ==
    /\ spent[k] < Bounds[k]
    /\ spent' = [spent EXCEPT ![k] = @ + 1]

Goes(t, step) == at' = [at EXCEPT ![t] = step]

--------------------------------------------------------------------------------
(* Who dispatches a request on its own, or comes to look whether to do so.   *)
OnTheWay ==
    \E t \in Threads : at[t] \in {"record", "look", "align", "persist", "dispatch", "admitted"}

(* A match: the mapping is made, or keeps its status, or is taken for        *)
(* aligned where the stored map is of its pairing.                           *)
Matched ==
    status' \in {"pending"} \cup (IF map = "none" THEN {} ELSE {"active"})
                 \cup ({status} \ {"gone"})

(* A match that asks for a read-along then records the request, then looks   *)
(* at the status.                                                            *)
Match(m) ==
    /\ at[m] = "idle" /\ Spend("match")
    /\ Matched
    /\ Goes(m, "record")
    /\ UNCHANGED <<map, request, row, generation, reserved>>

(* The book is active now, and who made it so looks for no request.          *)
LeftBehind ==
    /\ missed' = (missed \/ (requested /\ status' = "active" /\ ~OnTheWay))
    /\ UNCHANGED <<map, requested, threads, generation, reserved>>

(* A match without the checkbox, on its own or again.                        *)
MatchOnly == Spend("match") /\ Matched /\ LeftBehind

(* clear_progress: with a map the book is active, without one it is aligned  *)
(* again unless REPROCESS_ON_CLEAR_IF_NO_ALIGNMENT is off.                   *)
ClearProgress ==
    /\ status # "gone" /\ Spend("clear")
    /\ status' \in {"active"} \cup (IF map = "none" THEN {"pending"} ELSE {})
    /\ LeftBehind

(* set_readalong_epub_requested.                                             *)
Recorded ==
    /\ requested' = TRUE
    /\ missed' = FALSE

(* Mutant: the status is looked at before the request is recorded.           *)
RecordAfterLook(m) ==
    /\ at[m] = "record"
    /\ IF status = "gone" THEN Goes(m, "idle") /\ UNCHANGED request
       ELSE /\ Recorded
            /\ Goes(m, IF status = "active" /\ at["aligner"] = "idle" THEN "dispatch" ELSE "idle")
    /\ UNCHANGED <<alignment, row, generation, reserved, spent>>

Record(m) ==
    /\ at[m] = "record"
    /\ IF status = "gone" THEN Goes(m, "idle") /\ UNCHANGED request
       ELSE Recorded /\ Goes(m, "look")
    /\ UNCHANGED <<alignment, row, generation, reserved, spent>>

Look(m) ==
    /\ at[m] = "look"
    /\ Goes(m, IF status = "active" THEN "dispatch" ELSE "idle")
    /\ UNCHANGED <<alignment, request, row, generation, reserved, spent>>

--------------------------------------------------------------------------------
(* The alignment job: its map, the row as active, the request.               *)

AlignStart ==
    /\ at["aligner"] = "idle" /\ status \in {"pending", "retry"}
    /\ status' = "processing"
    /\ Goes("aligner", "align")
    /\ UNCHANGED <<map, request, row, generation, reserved, spent>>

AlignStore ==
    /\ at["aligner"] = "align"
    /\ map' \in {"eligible", "other"}
    /\ Goes("aligner", "persist")
    /\ UNCHANGED <<status, request, row, generation, reserved, spent>>

AlignPersist ==
    /\ at["aligner"] = "persist"
    /\ status' = "active"
    /\ Goes("aligner", "dispatch")
    /\ UNCHANGED <<map, request, row, generation, reserved, spent>>

(* It raises before or after its map is stored, or before the request is     *)
(* looked at: the book is left for a retry, or given up.                     *)
AlignFails ==
    /\ at["aligner"] \in {"align", "persist", "dispatch"} /\ Spend("fault")
    /\ status' = IF status = "gone" THEN status ELSE "retry"
    /\ Goes("aligner", "idle")
    /\ UNCHANGED <<map, request, row, generation, reserved>>

(* The mapping was removed: nothing is written, nothing dispatched.          *)
AlignCancelled ==
    /\ at["aligner"] = "cancelled"
    /\ Goes("aligner", "idle")
    /\ UNCHANGED <<alignment, request, row, generation, reserved, spent>>

--------------------------------------------------------------------------------
(* generate_readalong_if_requested, of a match or the alignment job.         *)

(* Mutant: the row of this attempt is still there for the next one.          *)
LeaveKeepsRow(t) == Goes(t, "idle") /\ UNCHANGED row

Leave(t) == Goes(t, "idle") /\ row' = [row EXCEPT ![t] = None]

Admit(t) ==
    /\ at[t] = "dispatch"
    /\ IF reserved THEN /\ Goes(t, "idle") /\ UNCHANGED reserved
                        /\ missed' = (missed \/ requested)
       ELSE Goes(t, "admitted") /\ reserved' = TRUE /\ UNCHANGED missed
    /\ UNCHANGED <<alignment, requested, row, generation, spent>>

(* consume_readalong_epub_intent.                                            *)
Consume(t) ==
    /\ at[t] = "admitted"
    /\ \/ /\ requested
          /\ requested' = FALSE /\ missed' = FALSE
          /\ Goes(t, "consumed")
          /\ UNCHANGED <<reserved, spent>>
       \/ /\ ~requested
          /\ Goes(t, "idle") /\ reserved' = FALSE
          /\ UNCHANGED <<request, spent>>
       \/ /\ Spend("fault")
          /\ Goes(t, "idle") /\ reserved' = FALSE
          /\ missed' = (missed \/ requested) /\ UNCHANGED requested
    /\ UNCHANGED <<alignment, row, generation>>

(* A new status row; the alignment must still be of an eligible method.      *)
Dispatched(t) ==
    /\ at[t] = "consumed" /\ t # "route"
    /\ \/ /\ map = "eligible"
          /\ jobs' = Append(jobs, "open") /\ row' = [row EXCEPT ![t] = Len(jobs')]
          /\ Goes(t, "start") /\ UNCHANGED <<reserved, spent>>
       \/ /\ map = "eligible" /\ Spend("fault")
          /\ Goes(t, "start") /\ UNCHANGED <<jobs, row, reserved>>
       \/ /\ map # "eligible"
          /\ Leave(t) /\ reserved' = FALSE /\ UNCHANGED <<jobs, spent>>
    /\ UNCHANGED <<alignment, request, gen>>

--------------------------------------------------------------------------------
(* The dashboard's request.                                                  *)

Request ==
    /\ at["route"] = "idle" /\ Spend("route")
    /\ status # "gone" /\ map = "eligible" /\ ~reserved
    /\ reserved' = TRUE
    /\ Goes("route", "consumed")
    /\ UNCHANGED <<alignment, request, row, generation>>

Queued ==
    /\ at["route"] = "consumed"
    /\ \/ /\ jobs' = Append(jobs, "open") /\ row' = [row EXCEPT !["route"] = Len(jobs')]
          /\ Goes("route", "start") /\ UNCHANGED <<reserved, spent>>
       \/ /\ Spend("fault")
          /\ Leave("route") /\ reserved' = FALSE /\ UNCHANGED jobs
    /\ UNCHANGED <<alignment, request, gen>>

--------------------------------------------------------------------------------
(* The generation, on a thread of its own.                                   *)

(* update_job_by_id: a row that is gone stays gone.                          *)
Marked(r, state) ==
    IF r # None /\ jobs[r] # None THEN [jobs EXCEPT ![r] = state] ELSE jobs

(* The thread starts, or what was begun is undone.                           *)
Start(t) ==
    /\ at[t] = "start"
    /\ \/ /\ gen' = gen \cup {[step |-> "work", row |-> row[t], wrapped |-> t # "route"]}
          /\ UNCHANGED <<jobs, reserved, spent>>
       \/ /\ Spend("fault") /\ UNCHANGED gen
          /\ jobs' = Marked(row[t], "failed") /\ reserved' = FALSE
    /\ Leave(t)
    /\ UNCHANGED <<alignment, request>>

(* deliver_readalong_epub: refused, or delivered, confirmed or not.          *)
Delivery == {"failed", "done"}

(* _readalong_epub_worker up to its finally.                                 *)
Work(g) ==
    /\ g.step = "work"
    /\ \E state \in IF status = "gone" THEN {"failed"} ELSE Delivery : jobs' = Marked(g.row, state)
    /\ gen' = (gen \ {g}) \cup {[g EXCEPT !.step = "finally"]}
    /\ UNCHANGED <<alignment, request, threads, reserved, spent>>

(* The wrapper ends before it hands the job to the worker.                   *)
HandOffFails(g) ==
    /\ g.step = "work" /\ g.wrapped /\ Spend("fault")
    /\ jobs' = Marked(g.row, "failed")
    /\ gen' = gen \ {g} /\ reserved' = FALSE
    /\ UNCHANGED <<alignment, request, threads>>

Release(g) ==
    /\ g.step = "finally"
    /\ reserved' = FALSE
    /\ gen' = IF g.wrapped THEN (gen \ {g}) \cup {[g EXCEPT !.step = "unwind"]} ELSE gen \ {g}
    /\ UNCHANGED <<alignment, request, threads, jobs, spent>>

(* Mutant: the wrapper releases, whether it has handed the job on or not.    *)
UnwindReleases(g) ==
    /\ g.step = "unwind"
    /\ gen' = gen \ {g}
    /\ reserved' = FALSE
    /\ UNCHANGED <<alignment, request, threads, jobs, spent>>

(* _run_readalong_epub_after_forge after the worker, which has released.     *)
Unwind(g) ==
    /\ g.step = "unwind"
    /\ gen' = gen \ {g}
    /\ UNCHANGED <<alignment, request, threads, jobs, reserved, spent>>

--------------------------------------------------------------------------------
(* Everything else.                                                          *)

(* remove_readalong_epub_route: the status rows go.                          *)
RemoveFile ==
    /\ status # "gone" /\ Spend("remove")
    /\ jobs' = [i \in DOMAIN jobs |-> None]
    /\ UNCHANGED <<alignment, request, threads, gen, reserved>>

(* delete_book: the row with its request, the map and the status rows go,    *)
(* and the alignment job is cancelled; whoever else is at work goes on.      *)
Unmatch ==
    /\ status # "gone" /\ Spend("unmatch")
    /\ status' = "gone" /\ map' = "none"
    /\ requested' = FALSE /\ missed' = FALSE
    /\ jobs' = [i \in DOMAIN jobs |-> None]
    /\ at' = IF at["aligner"] \in {"align", "persist"} THEN [at EXCEPT !["aligner"] = "cancelled"] ELSE at
    /\ UNCHANGED <<row, gen, reserved>>

(* The startup takes a book whose map was stored for aligned.                *)
Restart ==
    /\ Spend("restart")
    /\ at' = [t \in Threads |-> "idle"] /\ row' = [t \in Threads |-> None]
    /\ gen' = {} /\ reserved' = FALSE
    /\ status' = IF status \notin {"processing", "retry"} THEN status
                 ELSE IF map = "none" THEN "retry" ELSE "active"
    /\ missed' = requested
    /\ UNCHANGED <<map, requested, jobs>>

Next ==
    \/ \E m \in Matchers : Match(m) \/ Record(m) \/ Look(m)
    \/ MatchOnly \/ ClearProgress
    \/ AlignStart \/ AlignStore \/ AlignPersist \/ AlignFails \/ AlignCancelled
    \/ \E t \in Threads : Admit(t) \/ Consume(t) \/ Dispatched(t) \/ Start(t)
    \/ Request \/ Queued
    \/ \E g \in gen : Work(g) \/ HandOffFails(g) \/ Release(g) \/ Unwind(g)
    \/ RemoveFile \/ Unmatch \/ Restart

Spec == Init /\ [][Next]_vars

--------------------------------------------------------------------------------
(* Properties.                                                               *)

Holders == {t \in Threads : at[t] \in {"admitted", "consumed", "start"}}
Working == {g \in gen : g.step \in {"work", "finally"}}

TypeOK ==
    /\ status \in {"gone", "pending", "processing", "retry", "active"}
    /\ map \in {"none", "eligible", "other"}
    /\ {requested, reserved, missed} \subseteq BOOLEAN
    /\ at \in [Threads -> {"idle", "record", "look", "align", "persist", "cancelled",
                           "dispatch", "admitted", "consumed", "start"}]
    /\ jobs \in Seq({"open", "done", "failed", None})
    /\ row \in [Threads -> DOMAIN jobs \cup {None}]
    /\ \A t \in Threads : row[t] # None => at[t] = "start"
    /\ gen \subseteq [step : {"work", "finally", "unwind"}, row : DOMAIN jobs \cup {None},
                      wrapped : BOOLEAN]
    /\ spent \in [Kinds -> Nat]

(* "Process-wide" admission: never two generations of one book, none without *)
(* the reservation, and no error path, removal or restart leaves it behind;  *)
(* and short of a restart a status row reads as running only as long as      *)
(* there is a generation that will settle it.                                *)
GenerationAccounted ==
    /\ Cardinality(Holders) + Cardinality(Working) = IF reserved THEN 1 ELSE 0
    /\ spent.restart = 0 =>
         \A i \in DOMAIN jobs : jobs[i] = "open" =>
             \/ \E t \in Holders : at[t] = "start" /\ row[t] = i
             \/ \E g \in Working : g.step = "work" /\ g.row = i

(* A match and an alignment that ends never leave a request to each other:   *)
(* whatever they find of each other, on an active book somebody is on the    *)
(* way to take the request up.  It stays recorded, for the next alignment or *)
(* asking match, when its dispatch met a generation at work, failed or was   *)
(* cut off by a restart, and when something else made the book active (a     *)
(* clear, a match without the checkbox, the startup).                        *)
RequestServed == requested /\ status = "active" /\ ~missed => OnTheWay
================================================================================

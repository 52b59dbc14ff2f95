-------------------------- MODULE MCAlignmentJobs --------------------------
(* Small instances of AlignmentJobs for TLC.  The pairings are              *)
(* interchangeable, so the books there at first are given one of them.      *)
EXTENDS AlignmentJobs

CONSTANTS b1, e1, a1, p1, p2

Scenario(there, often) ==
    [there |-> there, pair |-> p1,
     left |-> [op \in Ops |-> IF op \in DOMAIN often THEN often[op] ELSE 0]]

\* One book, under one of each other operation and a restart.
Alone == Scenario({b1}, [op \in Ops \ {"add"} |-> 1])

\* Books come and go, and the process restarts.
ComeAndGo == Scenario({b1}, [op \in {"add", "delete", "restart"} |-> 1])

\* An ordinary, an ebook-only and an audio-only book share the worker.
Queue == Scenario({b1, e1, a1}, [remap |-> 1, restart |-> 1])

Explored == {Alone, ComeAndGo, Queue}
RematchedTwice == {Scenario({b1}, [rematch |-> 2])}
RemappedTwice == {Scenario({b1}, [remap |-> 2])}
=============================================================================

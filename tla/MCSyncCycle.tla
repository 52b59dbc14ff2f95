------------------------------ MODULE MCSyncCycle ------------------------------
(* Small instances of SyncCycle for TLC. *)
EXTENDS SyncCycle

Bound(moves, rewinds, faults) == [moves |-> moves, rewinds |-> rewinds, faults |-> faults]

\* Two moves, one of them back or none; or one, back or not, and a fault.
Mixed == {Bound(2, 1, 0), Bound(1, 1, 1)}

Forwards == {Bound(2, 0, 0)}

================================================================================

----------------------------- MODULE PositionRelay -----------------------------
(***************************************************************************)
(* What the sync cycle promises about a book's positions, and all of it:   *)
(* the reader moves at the services, and the position is the reader's; now *)
(* and then the bridge takes note of the positions some of them hold, and  *)
(* what it puts at a service, which is then the bridge's, is a position it *)
(* has taken note of.  It makes no position up.                            *)
(***************************************************************************)
CONSTANTS Services, Positions, None

VARIABLES
    held,   \* service -> its position, or None, and who put it there
    noted   \* the positions the bridge has in hand

vars == <<held, noted>>

Init ==
    /\ held \in [Services -> [pos : Positions \cup {None}, by : {"reader"}]]
    /\ noted = {}

Move(c) ==
    /\ \E p \in Positions : held' = [held EXCEPT ![c] = [pos |-> p, by |-> "reader"]]
    /\ UNCHANGED noted

Note ==
    /\ noted' \subseteq {held[c].pos : c \in Services} \ {None}
    /\ UNCHANGED held

Drop ==
    /\ noted' \subseteq noted
    /\ UNCHANGED held

Copy(c) ==
    /\ \E p \in noted : held' = [held EXCEPT ![c] = [pos |-> p, by |-> "bridge"]]
    /\ UNCHANGED noted

Next == Note \/ Drop \/ \E c \in Services : Move(c) \/ Copy(c)

Spec == Init /\ [][Next]_vars

================================================================================

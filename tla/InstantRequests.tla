--------------------------- MODULE InstantRequests ---------------------------
(***************************************************************************)
(* What SyncManager promises to a caller of an instant sync, whatever      *)
(* threads, locks and queues implement it: a request that was made stays   *)
(* wanted until a sync cycle runs for it, or until it is picked up for a   *)
(* user who may not sync any more; and one cycle runs at a time.           *)
(***************************************************************************)
CONSTANTS Users, Books, NoUser, NoReq

Requests == (Users \union {NoUser}) \X Books

VARIABLES want,     \* the requests made and not yet answered by a cycle
          running,  \* the request a cycle is running for, or NoReq
          canSync   \* the users whose account is active and whose clients build

vars == <<want, running, canSync>>

\* A cycle without a user is never refused.
MaySync(r) == r[1] \in Users => canSync[r[1]]

Init ==
    /\ want = {}
    /\ running = NoReq
    /\ canSync \in [Users -> BOOLEAN]

Ask(r) ==
    /\ want' = want \union {r}
    /\ UNCHANGED <<running, canSync>>

\* The same request may be wanted twice (by a caller and by the replay queue):
\* a cycle for it answers one of the two or both.
Serve(r) ==
    /\ r \in want
    /\ running = NoReq
    /\ running' = r
    /\ want' \in {want, want \ {r}}
    /\ UNCHANGED canSync

Complete ==
    /\ running' = NoReq
    /\ UNCHANGED <<want, canSync>>

Refuse(r) ==
    /\ ~MaySync(r)
    /\ want' = want \ {r}
    /\ UNCHANGED <<running, canSync>>

AccountChanges ==
    /\ canSync' \in [Users -> BOOLEAN]
    /\ UNCHANGED <<want, running>>

Next ==
    \/ \E r \in Requests : Ask(r) \/ Serve(r) \/ Refuse(r)
    \/ Complete
    \/ AccountChanges

Spec == Init /\ [][Next]_vars

==============================================================================

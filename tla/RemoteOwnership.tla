-------------------------- MODULE RemoteOwnership --------------------------
(***************************************************************************)
(* What a finalizer is for, with nothing of how a reconciler works: the    *)
(* operator may make or change a resource at Aiven only while its object   *)
(* is held by the finalizer, and lets the object go only when the resource *)
(* is gone or somebody decided to keep it.  ManagedReconciler implements   *)
(* this; the legacy reconciler of the service kinds does not.              *)
(***************************************************************************)

VARIABLES
    held,   \* the object exists and carries the finalizer
    inUse,  \* the resource exists at Aiven
    fate    \* who answers for it: "none", "managed", or why it was left

Kept == {"orphaned", "abandoned"}

Init == held = FALSE /\ inUse = FALSE /\ fate = "none"

Hold == ~held /\ held' = TRUE /\ UNCHANGED <<inUse, fate>>

Apply == held /\ inUse' = TRUE /\ fate' = "managed" /\ UNCHANGED held

\* By the operator, or by anybody else.
Remove == inUse /\ inUse' = FALSE /\ fate' = "none" /\ UNCHANGED held

Keep == inUse /\ fate' \in Kept /\ UNCHANGED <<held, inUse>>

LetGo == /\ held
         /\ ~(inUse /\ fate = "managed")
         /\ held' = FALSE
         /\ UNCHANGED <<inUse, fate>>

Next == Hold \/ Apply \/ Remove \/ Keep \/ LetGo

Spec == Init /\ [][Next]_<<held, inUse, fate>>
=============================================================================

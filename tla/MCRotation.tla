---------------------------- MODULE MCRotation ----------------------------
(* Small instances of ServiceUserRotation for TLC. *)
EXTENDS RotationInvariant

CONSTANTS a, b

Pool == <<a, b>>

\* A failure at any step, or a time unit more.
BothBounds == {[maxTime |-> 2, maxEdits |-> 2, maxFaults |-> 1],
               [maxTime |-> 3, maxEdits |-> 2, maxFaults |-> 0]}
=============================================================================

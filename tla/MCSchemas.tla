------------------------------ MODULE MCSchemas ------------------------------
\* SchemaReferences for TLC: a referent and its dependent, two that come to
\* reference each other, one whose level changes, and a referent that changes.
EXTENDS SchemasInvariant
CONSTANTS a, b
Want(body, level, refs) == [body |-> body, level |-> level, refs |-> refs]
Wants(A, B) == [n \in Names |-> IF n = a THEN A ELSE B]
\* A dependent that takes its reference off, or puts it back.
Chain == [wants |-> Wants({Want(1, "", {})}, {Want(1, "", {a}), Want(1, "", {})}),
          others |-> FALSE, maxEdits |-> 3, maxFaults |-> 1]
Cycle == [wants |-> Wants({Want(1, "", {}), Want(1, "", {b})}, {Want(1, "", {a})}),
          others |-> FALSE, maxEdits |-> 3, maxFaults |-> 0]
Level == [wants |-> Wants({Want(1, "FULL", {}), Want(2, "NONE", {}), Want(1, "", {})}, {}),
          others |-> TRUE, maxEdits |-> 3, maxFaults |-> 1]
\* A dependent whose referent changes and may go back.
Back  == [wants |-> Wants({Want(1, "", {}), Want(2, "", {})}, {Want(1, "", {a})}),
          others |-> FALSE, maxEdits |-> 4, maxFaults |-> 1]
AllSetups  == {Chain, Cycle, Level, Back}
\* The last alone, for FollowsReferents.
BackSetups == {Back}
\* FULL: a schema cannot be changed in place of another.
Strict(level, old, new) == level = "FULL" /\ old # new
=============================================================================

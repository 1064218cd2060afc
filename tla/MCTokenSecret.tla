---------------------------- MODULE MCTokenSecret ----------------------------
\* TokenSecretGC for TLC: two kinds, an object of each.
EXTENDS TokenSecretGC
CONSTANTS a, b
KindsOfObjects == [o \in Objects |-> IF o = a THEN 1 ELSE 2]
Busy     == [moves |-> FALSE, restarts |-> FALSE, maxEdits |-> 4, maxFaults |-> 1]
Moving   == [moves |-> TRUE, restarts |-> FALSE, maxEdits |-> 3, maxFaults |-> 1]
Changing == [moves |-> FALSE, restarts |-> TRUE, maxEdits |-> 3, maxFaults |-> 1]
AllSetups   == {Busy, Moving, Changing}
=============================================================================

----------------------------- MODULE MCManaged -----------------------------
\* ManagedReconciler for TLC: a kind in each setup, and as many edits as what is
\* peculiar to it takes.
EXTENDS ManagedInvariant
CONSTANTS s1, s2
Setup(kind, e, f) == [kind |-> kind, maxEdits |-> e, maxFaults |-> f]
AllSetups == {Setup(ConnectionPool, 3, 1), Setup(KafkaTopic, 2, 1), Setup(ClickhouseDatabase, 2, 1),
              Setup(OrganizationProject, 2, 1), Setup(OpenSearchACLConfig, 2, 1),
              Setup(Database, 4, 0)}
=============================================================================

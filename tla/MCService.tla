----------------------------- MODULE MCService -----------------------------
(***************************************************************************)
(* Small instances of ServiceReconciler for TLC: a plain spec, one that is *)
(* protected and powered off, and two that migrate data, of which the      *)
(* second has the source deleted.                                          *)
(***************************************************************************)
EXTENDS ServiceInvariant

CONSTANTS plain, off, keeps, cleans

Setup(backedUp, specs, secret, maxEdits, maxFaults, maxStale) ==
    [backedUp |-> backedUp, specs |-> specs, source |-> secret, maxEdits |-> maxEdits,
     maxFaults |-> maxFaults, maxStale |-> maxStale]

\* A long history with a fault or an outdated copy, a shorter one with both; and
\* a KafkaConnect, which is powered off without a backup.
AllSetups ==
    {Setup(TRUE, {plain, off}, FALSE, 3, 1, 0),
     Setup(TRUE, {plain, off}, FALSE, 3, 0, 1),
     Setup(TRUE, {plain, off}, FALSE, 2, 1, 1),
     Setup(FALSE, {plain, off}, FALSE, 3, 0, 0),
     Setup(FALSE, {plain, off}, FALSE, 2, 1, 0),
     Setup(TRUE, {keeps, cleans}, TRUE, 2, 1, 0),
     Setup(TRUE, {plain, cleans}, FALSE, 3, 0, 0),
     Setup(TRUE, {cleans}, TRUE, 2, 0, 1)}

\* A migration that nobody interferes with.
CleaningSetups == {Setup(TRUE, {cleans}, TRUE, 1, 1, 0)}

\* A KafkaConnect declared powered off.
OffSetups == {Setup(FALSE, {off}, FALSE, 1, 0, 0)}

PlainSetups == {Setup(TRUE, {plain}, FALSE, 2, 1, 1)}
=============================================================================

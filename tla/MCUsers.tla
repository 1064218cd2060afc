------------------------------- MODULE MCUsers -------------------------------
\* UserPasswords for TLC: one object of each kind, two ServiceUsers of one
\* user, and a built-in user.
EXTENDS UsersInvariant
CONSTANTS o1, o2
Want(sourced, auth, acl) == [sourced |-> sourced, auth |-> auth, acl |-> acl]
Base == [kind |-> "ServiceUser", objects |-> {o1}, wants |-> {}, source |-> 1,
         builtIn |-> FALSE, others |-> TRUE, maxEdits |-> 3, maxFaults |-> 0]

Alone1   == [Base EXCEPT !.wants = {Want(TRUE, 1, 2), Want(FALSE, 2, 0)}]
Alone2   == [Alone1 EXCEPT !.maxEdits = 2, !.maxFaults = 1]
Shared   == [Base EXCEPT !.wants = {Want(FALSE, 0, 0)}, !.objects = {o1, o2},
                         !.others = FALSE, !.maxEdits = 4]
Avnadmin == [Base EXCEPT !.wants = {Want(TRUE, 0, 0)}, !.builtIn = TRUE,
                         !.maxEdits = 2, !.maxFaults = 1]
House    == [Base EXCEPT !.kind = "ClickhouseUser",
                         !.wants = {Want(TRUE, 0, 0), Want(FALSE, 0, 0)}]
Faulty   == [House EXCEPT !.wants = {Want(TRUE, 0, 0)}, !.others = FALSE, !.maxFaults = 1]

AllSetups  == {Alone1, Alone2, Shared, Avnadmin, House, Faulty}
HouseSetup == {House}
=============================================================================

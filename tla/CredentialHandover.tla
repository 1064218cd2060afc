------------------------- MODULE CredentialHandover -------------------------
(***************************************************************************)
(* What docs/docs/guides/serviceuser-rotation.md promises to applications: *)
(* the connection Secret shows credentials that Aiven accepts, the users   *)
(* take turns, and nobody's password changes while it is shown or within   *)
(* one rotation interval of the switch away from it.                       *)
(***************************************************************************)
EXTENDS Integers

CONSTANTS
    Users,       \* the pool of service users
    NoUser,      \* shown before the first publication
    MinInterval  \* the shortest rotation interval

VARIABLES
    shown,     \* the credentials in the Secret: [user, password, at]
    password,  \* the password each user has at Aiven
    now        \* the time

Blank == [user |-> NoUser, password |-> 0, at |-> 0]

Init == shown = Blank /\ password = [u \in Users |-> 0] /\ now = 1

Due == shown = Blank \/ shown.at + MinInterval <= now

\* The operator gives a user that applications do not read now, and no longer
\* need, a password (passwords of this operator are positive).
Reset(u) ==
    /\ u # shown.user
    /\ Due
    /\ password'[u] > 0
    /\ password' = [password EXCEPT ![u] = password'[u]]
    /\ UNCHANGED <<shown, now>>

\* One step shows the other user, with a password that works unless somebody
\* else has changed it; the interval starts anew.
Publish(u) ==
    /\ u # shown.user
    /\ shown' = [user |-> u, password |-> shown'.password, at |-> shown'.at]
    /\ shown'.password > 0
    /\ password[u] \in {shown'.password, 0, -1}
    /\ shown # Blank => shown.at + MinInterval <= shown'.at
    /\ 0 < shown'.at /\ shown'.at <= now
    /\ UNCHANGED <<password, now>>

\* The Secret is deleted.
Withdraw == shown' = Blank /\ UNCHANGED <<password, now>>

\* Somebody else changes a password (0), or removes the user (-1).
Interfere(u) ==
    /\ \E p \in {0, -1} : password' = [password EXCEPT ![u] = p]
    /\ UNCHANGED <<shown, now>>

Tick == now' = now + 1 /\ UNCHANGED <<shown, password>>

Next == \/ \E u \in Users : Reset(u) \/ Publish(u) \/ Interfere(u)
        \/ Withdraw \/ Tick

Spec == Init /\ [][Next]_<<shown, password, now>>
=============================================================================

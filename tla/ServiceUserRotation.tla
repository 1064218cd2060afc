------------------------ MODULE ServiceUserRotation ------------------------
(***************************************************************************)
(* controllers/serviceuserrotation_controller.go: the credentials of two   *)
(* service users take turns in one connection Secret, which also keeps the *)
(* candidate that is being prepared.                                       *)
(*                                                                         *)
(* The ServiceUserRotation object and its Secret live in the API server;   *)
(* the operator reads both from caches that lag behind it, each on its     *)
(* own.  Every call to the API server or to Aiven is a step of its own,    *)
(* and time passes between them.                                           *)
(*                                                                         *)
(* Abstracted: a password is the number of the candidate it was made for,  *)
(* 0 for one that is not this operator's, and NoAccount for a user that    *)
(* Aiven does not have; endpoints, certificates, CA, labels and            *)
(* annotations are one value, the connection details; the Error condition  *)
(* is a flag; a requeued key is simply pending.  An unreadable publication *)
(* time, and a saved candidate that a user replaced by a complete one, are *)
(* left out: the guide forbids both.                                       *)
(***************************************************************************)
EXTENDS Integers, Sequences

CONSTANTS
    Usernames,   \* spec.usernames: the pool, in rotation order
    NoUser,      \* an absent USERNAME key
    Intervals,   \* the values a user can give spec.rotationInterval
    MinInterval, \* the shortest of them
    Bounds       \* what a behaviour is bounded by, see BoundsType

Users == {Usernames[i] : i \in DOMAIN Usernames}

ASSUME PoolAssumption ==
    /\ Usernames \in Seq(Users)
    /\ Len(Usernames) = 2
    /\ Usernames[1] # Usernames[2]
    /\ NoUser \notin Users
ASSUME IntervalAssumption ==
    /\ Intervals \subseteq Nat \ {0}
    /\ MinInterval \in Intervals
    /\ \A i \in Intervals : MinInterval <= i

\* The clock, the steps of users and other Aiven clients, and failed calls,
\* crashes and starts from a deleted object.
BoundsType == [maxTime: Nat, maxEdits: Nat, maxFaults: Nat]
ASSUME BoundsAssumption == Bounds \subseteq BoundsType

VARIABLES
    bounds,         \* a member of Bounds
    cr,             \* the ServiceUserRotation in the API server
    crRevision,     \* the latest version given to one
    cachedCr,       \* the informer's copy of it
    secret,         \* the connection Secret in the API server
    secretRevision, \* the latest version given to one
    cachedSecret,   \* the informer's copy of it
    queued,         \* the key is in the workqueue
    pc,             \* where the worker is in Reconcile
    obj,            \* the copy of cr that the worker read
    copy,           \* the Secret that the worker is changing
    svc,            \* the answer of ServiceGet
    out,            \* the status that the worker has computed
    password,       \* Aiven: the password of each user
    details,        \* Aiven: the connection details of the service
    operational,    \* Aiven: the service is running
    lastPassword,   \* the latest password saved as a candidate
    now,            \* the clock
    edits,          \* steps of users and other Aiven clients so far
    faults,         \* failed calls, crashes and late starts so far
    former,         \* history: the password each user was last shown with
    tampered        \* history: a user removed or spoilt the saved state

cluster == <<cr, crRevision, cachedCr, secret, secretRevision, cachedSecret>>
worker  == <<pc, obj, copy, svc, out>>
aiven   == <<password, details, operational>>
history == <<former, tampered>>
vars    == <<bounds, cr, crRevision, cachedCr, secret, secretRevision, cachedSecret,
             queued, pc, obj, copy, svc, out, password, details, operational,
             lastPassword, now, edits, faults, former, tampered>>

----------------------------------------------------------------------------
(* Values.  Version 0 is no object; time 0 is no publication.              *)

NoAccount == -1
Details   == {1, 2}
PCs       == {"idle", "service", "secret", "prepare", "save", "reset", "publish", "status"}

NoStatus  == [active |-> NoUser, last |-> 0, next |-> 0, err |-> FALSE]
NoCr      == [uid |-> 0, rv |-> 0, interval |-> MinInterval, deleting |-> FALSE, status |-> NoStatus]
NoPair    == [user |-> NoUser, password |-> 0]
NoSecret  == [rv |-> 0, owner |-> 0, user |-> NoUser, password |-> 0, at |-> 0,
              desired |-> NoPair, details |-> 0]
NoService == [users |-> {}, details |-> 0]

Statuses == [active: Users \cup {NoUser}, last: Nat, next: Nat, err: BOOLEAN]
Crs      == [uid: Nat, rv: Nat, interval: Intervals, deleting: BOOLEAN, status: Statuses]
Pairs    == [user: Users \cup {NoUser}, password: Nat]
Secrets  == [rv: Nat, owner: Nat, user: Users \cup {NoUser}, password: Nat,
             at: Nat, desired: Pairs, details: Details \cup {0}]
Services == [users: SUBSET Users, details: Details \cup {0}]

Exists(o)    == o.rv # 0
Published(s) == s.at # 0

\* The API server accepts an update of the current version only, and a
\* creation only if there is nothing.
IsCurrent(s) == s.rv = secret.rv

hasPendingCredentials(s) == s.desired.user \in Users /\ s.desired.password > 0

\* The user after the one shown, in turn; the first one if none is.
NextUser(u) == IF u = Usernames[1] THEN Usernames[2] ELSE Usernames[1]

Due(s, interval) == ~Published(s) \/ s.at + interval <= now

\* Mutant: the deadline is before the publication.
EarlyStatus(s, interval) ==
    [active |-> s.user, last |-> s.at, next |-> s.at - interval, err |-> FALSE]

StatusOf(s, interval) ==
    [active |-> s.user, last |-> s.at, next |-> s.at + interval, err |-> FALSE]

----------------------------------------------------------------------------
Init ==
    /\ bounds \in Bounds
    /\ cr = NoCr /\ crRevision = 0 /\ cachedCr = NoCr
    /\ secret = NoSecret /\ secretRevision = 0 /\ cachedSecret = NoSecret
    /\ queued = FALSE
    /\ pc = "idle" /\ obj = NoCr /\ copy = NoSecret /\ svc = NoService /\ out = NoStatus
    /\ password = [u \in Users |-> 0] /\ details = 1 /\ operational = TRUE
    /\ lastPassword = 0
    /\ now = 1
    /\ edits = 0 /\ faults = 0
    /\ former = [u \in Users |-> 0] /\ tampered = FALSE

----------------------------------------------------------------------------
(* The worker: one step per call                                           *)

\* Mutant: nothing is asked.
ReturnOnly ==
    /\ pc' = "idle"
    /\ obj' = NoCr /\ copy' = NoSecret /\ svc' = NoService /\ out' = NoStatus
    /\ UNCHANGED queued

\* Reconcile returns; it always asks to be called again: at the next poll, at
\* the deadline, after the precondition timeout, or because of an error.
Return ==
    /\ pc' = "idle"
    /\ obj' = NoCr /\ copy' = NoSecret /\ svc' = NoService /\ out' = NoStatus
    /\ queued' = TRUE

\* reconcile returns an error, which the deferred persistStatus records.
Fail ==
    /\ pc' = "status"
    /\ out' = [obj.status EXCEPT !.err = TRUE]
    /\ copy' = NoSecret /\ svc' = NoService
    /\ UNCHANGED <<obj, queued>>

Fault ==
    /\ faults < bounds.maxFaults
    /\ faults' = faults + 1

\* r.Get from the cache; nothing to do for an object that is being deleted.
\* Reconciles that start from a cached object which is already gone, as many as
\* fit into the lag of the cache, are bounded like faults.
Begin ==
    /\ pc = "idle"
    /\ queued
    /\ queued' = FALSE
    /\ \/ /\ Exists(cachedCr)
          /\ ~cachedCr.deleting
          /\ IF cachedCr.uid = cr.uid /\ ~cr.deleting THEN UNCHANGED faults ELSE Fault
          /\ pc' = "service"
          /\ obj' = cachedCr
       \/ /\ Exists(cachedCr) => cachedCr.deleting
          /\ UNCHANGED <<pc, obj, faults>>
    /\ UNCHANGED <<cluster, copy, svc, out, aiven, lastPassword, bounds, now, edits, history>>

\* getServiceIfOperational: a service that is not running is a precondition,
\* requeued with the status as it is, or, if powered off, an error.
ReadService ==
    /\ pc = "service"
    /\ \/ /\ operational
          /\ svc' = [users |-> {u \in Users : password[u] # NoAccount}, details |-> details]
          /\ pc' = "secret"
          /\ UNCHANGED <<obj, copy, out, queued, faults>>
       \/ ~operational /\ Return /\ UNCHANGED faults
       \/ ~operational /\ Fail /\ UNCHANGED faults
       \/ Fault /\ Fail
    /\ UNCHANGED <<cluster, aiven, lastPassword, bounds, now, edits, history>>

\* ensureSecret: the cached Secret, or a template that is not saved yet.
EnsureSecret ==
    /\ pc = "secret"
    /\ \/ /\ Exists(cachedSecret) => cachedSecret.owner = obj.uid
          /\ copy' = IF Exists(cachedSecret) THEN cachedSecret
                     ELSE [NoSecret EXCEPT !.owner = obj.uid]
          /\ pc' = "prepare"
          /\ UNCHANGED <<obj, svc, out, queued, faults>>
       \/ Exists(cachedSecret) /\ cachedSecret.owner # obj.uid /\ Fail /\ UNCHANGED faults
       \/ Fault /\ Fail
    /\ UNCHANGED <<cluster, aiven, lastPassword, bounds, now, edits, history>>

\* refreshRotationSecret with the answer of ServiceGet.
Refreshed(s) == [s EXCEPT !.details = svc.details]

\* Mutant: the password of the user being shown is changed.
SameUser(s) == [s EXCEPT !.desired = [user |-> IF Published(s) THEN s.user ELSE Usernames[1],
                                      password |-> lastPassword + 1]]

\* The candidate: the saved one if it is complete, or the next user with a new password.
Candidate(s) ==
    IF hasPendingCredentials(s) THEN s
    ELSE [s EXCEPT !.desired = [user |-> NextUser(s.user), password |-> lastPassword + 1]]

\* reconcileCredentials up to its first write: whether to rotate, the project
\* CA, and the connection details of the user shown, who must still be there.
Prepare ==
    /\ pc = "prepare"
    /\ LET refreshed == IF Published(copy) THEN Refreshed(copy) ELSE copy
           kept      == [refreshed EXCEPT !.desired = NoPair]
       IN \/ /\ Published(copy) => copy.user \in svc.users
             /\ \/ /\ hasPendingCredentials(copy) \/ Due(copy, obj.interval)
                   /\ copy' = Candidate(refreshed)
                   /\ pc' = "save"
                   /\ UNCHANGED out
                \/ /\ ~hasPendingCredentials(copy) /\ ~Due(copy, obj.interval)
                   /\ copy' = kept
                   /\ pc' = IF kept = copy THEN "status" ELSE "publish"
                   /\ out' = StatusOf(copy, obj.interval)
             /\ UNCHANGED <<obj, svc, queued, faults>>
          \/ Published(copy) /\ copy.user \notin svc.users /\ Fail /\ UNCHANGED faults
          \/ Fault /\ Fail
          \/ Fault /\ Return
    /\ UNCHANGED <<cluster, aiven, lastPassword, bounds, now, edits, history>>

\* The API server keeps s; an update that changes nothing keeps the version.
Store(s) ==
    /\ secret' = IF s = secret THEN s ELSE [s EXCEPT !.rv = secretRevision + 1]
    /\ secretRevision' = secret'.rv

\* Mutant: the candidate is kept in memory only.
PendingInMemory ==
    /\ pc = "save"
    /\ pc' = "reset"
    /\ lastPassword' = copy.desired.password
    /\ UNCHANGED <<cluster, queued, obj, copy, svc, out, aiven, bounds, now, edits, faults, history>>

\* Mutant: the candidate is saved whatever became of the Secret since.
SaveUnchecked ==
    /\ pc = "save"
    /\ Store(copy)
    /\ lastPassword' = copy.desired.password
    /\ pc' = "reset"
    /\ copy' = secret'
    /\ UNCHANGED <<cr, crRevision, cachedCr, cachedSecret, queued, obj, svc, out,
                   aiven, bounds, now, edits, faults, history>>

\* The candidate, and the refreshed details, are saved before any reset.
SavePending ==
    /\ pc = "save"
    /\ \/ /\ IsCurrent(copy)
          /\ Store(copy)
          /\ lastPassword' = IF copy.desired.password > lastPassword
                             THEN copy.desired.password ELSE lastPassword
          /\ \/ /\ pc' = "reset"
                /\ copy' = secret'
                /\ UNCHANGED <<obj, svc, out, queued, faults>>
             \/ Fault /\ Fail
       \/ /\ ~IsCurrent(copy)
          /\ Fail
          /\ UNCHANGED <<secret, secretRevision, lastPassword, faults>>
       \/ /\ Fault
          /\ Fail
          /\ UNCHANGED <<secret, secretRevision, lastPassword>>
    /\ UNCHANGED <<cr, crRevision, cachedCr, cachedSecret, aiven, bounds, now, edits, history>>

\* ServiceUserCredentialsModify, and the Secret to publish made of its answer.
\* The certificates of a Kafka user may not be there yet; the call may fail
\* after it took effect.
ResetPassword ==
    /\ pc = "reset"
    /\ LET u == copy.desired.user
       IN \/ /\ password[u] # NoAccount
             /\ password' = [password EXCEPT ![u] = copy.desired.password]
             /\ \/ /\ copy' = [Refreshed(copy) EXCEPT
                                 !.user = u, !.password = copy.desired.password,
                                 !.at = now, !.desired = NoPair]
                   /\ pc' = "publish"
                   /\ out' = StatusOf(copy', obj.interval)
                   /\ UNCHANGED <<obj, svc, queued, faults>>
                \/ Fault /\ Fail
                \/ Fault /\ Return
          \/ password[u] = NoAccount /\ Fail /\ UNCHANGED <<password, faults>>
          \/ Fault /\ Fail /\ UNCHANGED password
    /\ UNCHANGED <<cluster, details, operational, lastPassword, bounds, now, edits, history>>

\* The one update that publishes the credentials and clears the candidate, or
\* refreshes the connection details.
Publish ==
    /\ pc = "publish"
    /\ \/ /\ Exists(secret)
          /\ IsCurrent(copy)
          /\ Store(copy)
          /\ former' = [former EXCEPT ![copy.user] = copy.password]
          /\ \/ pc' = "status" /\ copy' = NoSecret /\ svc' = NoService
                /\ UNCHANGED <<obj, out, queued, faults>>
             \/ Fault /\ Fail
       \/ /\ ~Exists(secret) \/ ~IsCurrent(copy)
          /\ Fail
          /\ UNCHANGED <<secret, secretRevision, faults, former>>
       \/ /\ Fault
          /\ Fail
          /\ UNCHANGED <<secret, secretRevision, former>>
    /\ UNCHANGED <<cr, crRevision, cachedCr, cachedSecret, aiven, lastPassword, bounds, now, edits, tampered>>

\* persistStatus, deferred: an update of the copy if the status changed.
PersistStatus ==
    /\ pc = "status"
    /\ \/ /\ out # obj.status
          /\ obj.rv = cr.rv
          /\ cr' = [cr EXCEPT !.status = out, !.rv = crRevision + 1]
          /\ crRevision' = cr'.rv
          /\ UNCHANGED faults
       \/ /\ out = obj.status \/ obj.rv # cr.rv
          /\ UNCHANGED <<cr, crRevision, faults>>
       \/ Fault /\ UNCHANGED <<cr, crRevision>>
    /\ Return
    /\ UNCHANGED <<cachedCr, secret, secretRevision, cachedSecret, aiven, lastPassword, bounds, now, edits, history>>

\* The manager stops and starts again; the initial list enqueues the object.
Crash ==
    /\ Fault
    /\ Return
    /\ UNCHANGED <<cluster, aiven, lastPassword, bounds, now, edits, history>>

----------------------------------------------------------------------------
(* The cluster, time, users and Aiven                                      *)

SyncCr ==
    /\ cachedCr # cr
    /\ cachedCr' = cr
    /\ queued' = TRUE
    /\ UNCHANGED <<cr, crRevision, secret, secretRevision, cachedSecret, worker, aiven,
                   lastPassword, bounds, now, edits, faults, history>>

\* SetupWithManager: Owns(Secret) enqueues the owner.
SyncSecret ==
    /\ cachedSecret # secret
    /\ cachedSecret' = secret
    /\ queued' = TRUE
    /\ UNCHANGED <<cr, crRevision, cachedCr, secret, secretRevision, worker, aiven,
                   lastPassword, bounds, now, edits, faults, history>>

\* The garbage collector removes a Secret whose controller is gone or goes.
CollectSecret ==
    /\ Exists(secret)
    /\ secret.owner # cr.uid \/ cr.deleting
    /\ secret' = NoSecret
    /\ UNCHANGED <<cr, crRevision, cachedCr, secretRevision, cachedSecret, queued, worker, aiven,
                   lastPassword, bounds, now, edits, faults, history>>

\* A foreground deletion ends when the Secret is gone.
FinishDeletion ==
    /\ cr.deleting
    /\ ~Exists(secret)
    /\ cr' = NoCr
    /\ UNCHANGED <<crRevision, cachedCr, secret, secretRevision, cachedSecret, queued, worker, aiven,
                   lastPassword, bounds, now, edits, faults, history>>

Tick ==
    /\ now < bounds.maxTime
    /\ now' = now + 1
    /\ UNCHANGED <<bounds, cluster, queued, worker, aiven, lastPassword, edits, faults, history>>

Edit ==
    /\ edits < bounds.maxEdits
    /\ edits' = edits + 1

UserCreates(i) ==
    /\ Edit
    /\ ~Exists(cr)
    /\ crRevision' = crRevision + 1
    /\ cr' = [NoCr EXCEPT !.uid = crRevision', !.rv = crRevision', !.interval = i]
    /\ UNCHANGED <<cachedCr, secret, secretRevision, cachedSecret, queued, worker, aiven,
                   lastPassword, bounds, now, faults, history>>

UserChangesInterval(i) ==
    /\ Edit
    /\ Exists(cr)
    /\ i # cr.interval
    /\ crRevision' = crRevision + 1
    /\ cr' = [cr EXCEPT !.interval = i, !.rv = crRevision']
    /\ UNCHANGED <<cachedCr, secret, secretRevision, cachedSecret, queued, worker, aiven,
                   lastPassword, bounds, now, faults, history>>

\* In the background the object goes at once; in the foreground, after its Secret.
UserDeletes ==
    /\ Edit
    /\ Exists(cr)
    /\ ~cr.deleting
    /\ \/ cr' = NoCr /\ UNCHANGED crRevision
       \/ /\ crRevision' = crRevision + 1
          /\ cr' = [cr EXCEPT !.deleting = TRUE, !.rv = crRevision']
    /\ tampered' = TRUE
    /\ UNCHANGED <<cachedCr, secret, secretRevision, cachedSecret, queued, worker, aiven,
                   lastPassword, bounds, now, faults, former>>

UserDeletesSecret ==
    /\ Edit
    /\ Exists(secret)
    /\ secret' = NoSecret
    /\ tampered' = TRUE
    /\ UNCHANGED <<cr, crRevision, cachedCr, secretRevision, cachedSecret, queued, worker, aiven,
                   lastPassword, bounds, now, faults, former>>

\* Labels or connection details are changed by hand.
UserTouchesSecret ==
    /\ Edit
    /\ Exists(secret)
    /\ secretRevision' = secretRevision + 1
    /\ secret' = [secret EXCEPT !.details = 0, !.rv = secretRevision']
    /\ UNCHANGED <<cr, crRevision, cachedCr, cachedSecret, queued, worker, aiven,
                   lastPassword, bounds, now, faults, history>>

\* The candidate is replaced by an incomplete one.
UserSpoilsCandidate ==
    /\ Edit
    /\ Exists(secret)
    /\ secretRevision' = secretRevision + 1
    /\ secret' = [secret EXCEPT !.desired = [user |-> Usernames[1], password |-> 0],
                                !.rv = secretRevision']
    /\ tampered' = TRUE
    /\ UNCHANGED <<cr, crRevision, cachedCr, cachedSecret, queued, worker, aiven,
                   lastPassword, bounds, now, faults, former>>

\* Somebody else changes a password, removes a user or creates it again.
OthersChangeUser(u, p) ==
    /\ Edit
    /\ password[u] # p
    /\ password' = [password EXCEPT ![u] = p]
    /\ UNCHANGED <<cluster, queued, worker, details, operational,
                   lastPassword, bounds, now, faults, history>>

ServiceMoves ==
    /\ Edit
    /\ details' = 3 - details
    /\ UNCHANGED <<cluster, queued, worker, password, operational,
                   lastPassword, bounds, now, faults, history>>

ServiceStops ==
    /\ Edit
    /\ operational' = ~operational
    /\ UNCHANGED <<cluster, queued, worker, password, details,
                   lastPassword, bounds, now, faults, history>>

----------------------------------------------------------------------------
Reconcile == \/ Begin \/ ReadService \/ EnsureSecret \/ Prepare
             \/ SavePending \/ ResetPassword \/ Publish \/ PersistStatus

Others == \/ \E i \in Intervals : UserCreates(i) \/ UserChangesInterval(i)
          \/ UserDeletes \/ UserDeletesSecret \/ UserTouchesSecret \/ UserSpoilsCandidate
          \/ \E u \in Users, p \in {0, NoAccount} : OthersChangeUser(u, p)
          \/ ServiceMoves \/ ServiceStops

Next == \/ Reconcile \/ Crash \/ SyncCr \/ SyncSecret
        \/ CollectSecret \/ FinishDeletion \/ Tick \/ Others

Spec == Init /\ [][Next]_vars

\* The worker runs while its key is queued, watches deliver, the garbage
\* collector finishes and time passes; users and faults owe nothing.
Fairness == /\ WF_vars(Reconcile)
            /\ WF_vars(SyncCr)
            /\ WF_vars(SyncSecret)
            /\ WF_vars(CollectSecret)
            /\ WF_vars(FinishDeletion)
            /\ WF_vars(Tick)

FairSpec == Spec /\ Fairness

----------------------------------------------------------------------------
(* Properties                                                              *)

ObjectsOK == /\ {cr, cachedCr, obj} \subseteq Crs
             /\ {secret, cachedSecret, copy} \subseteq Secrets
             /\ crRevision \in Nat /\ secretRevision \in Nat
RunOK     == pc \in PCs /\ svc \in Services /\ out \in Statuses /\ queued \in BOOLEAN
ServiceOK == /\ password \in [Users -> Nat \cup {NoAccount}]
             /\ details \in Details /\ operational \in BOOLEAN
CountsOK  == bounds \in Bounds /\ {lastPassword, now, edits, faults} \subseteq Nat
PastOK    == former \in [Users -> Nat] /\ tampered \in BOOLEAN

TypeOK == ObjectsOK /\ RunOK /\ ServiceOK /\ CountsOK /\ PastOK

\* The credentials that applications read from the Secret work at Aiven, at
\* every moment, unless somebody else changed them: no crash, stale cache, lost
\* answer or conflict lets a rotation publish a password that was not set, or
\* change the one that is published.
PublishedWorks ==
    Published(secret) => password[secret.user] \in {secret.password, 0, NoAccount}

\* A password that this operator gave a user is never lost: it is the one the
\* user was last shown with, or the candidate in the Secret, which the next
\* reconcile takes up, unless a user removed that state.
PasswordsRecorded ==
    ~tampered =>
        \A u \in Users : password[u] > 0 =>
            \/ password[u] = former[u]
            \/ secret.desired = [user |-> u, password |-> password[u]]

shown == [user |-> secret.user, password |-> secret.password, at |-> secret.at]
Handover == INSTANCE CredentialHandover

\* The guide's promise to applications: the users take turns, and no password
\* changes while it is shown or within one interval of the switch away from it
\* (the shortest interval, as users may change theirs at any time), however
\* stale the Secret the worker started from.
HandsOver == Handover!Spec

\* Nothing left to do: no object, or a Secret that shows credentials which are
\* not due yet, no candidate, current details and a status that says the same.
Settled ==
    \/ ~Exists(cr)
    \/ /\ secret.owner = cr.uid
       /\ Published(secret)
       /\ ~Due(secret, cr.interval)
       /\ secret.desired = NoPair
       /\ secret.details = details
       /\ cr.status = StatusOf(secret, cr.interval)

\* Once the service runs and has both users, every due rotation is completed,
\* every candidate published or dropped, and the status follows: no failure on
\* the way leaves the rotation stuck.
Completes == <>[](operational /\ \A u \in Users : password[u] # NoAccount) => <>[]Settled
=============================================================================

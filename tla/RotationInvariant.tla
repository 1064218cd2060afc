------------------------- MODULE RotationInvariant -------------------------
(***************************************************************************)
(* The inductive invariant behind PublishedWorks, HandsOver and            *)
(* PasswordsRecorded: what the worker's copy of the Secret still says      *)
(* about the Secret, and about Aiven, once both may have changed.          *)
(***************************************************************************)
EXTENDS ServiceUserRotation

Shown(s) == [user |-> s.user, password |-> s.password, at |-> s.at]

Works(s) == password[s.user] \in {s.password, 0, NoAccount}

\* What every state of the Secret is like at time t, and every copy of it: the
\* candidate is not the user shown, and is there only once a rotation was due.
SoundAt(s, t) ==
    /\ ~Exists(s) => ~Published(s)
    /\ Published(s) => s.user \in Users /\ s.password > 0 /\ s.at <= t
    /\ ~Published(s) => s.user = NoUser /\ s.password = 0
    /\ hasPendingCredentials(s) =>
           /\ s.desired.user # s.user
           /\ Published(s) => s.at + MinInterval <= t

\* A copy is an earlier version; equal versions are equal Secrets.
SecretVersions ==
    /\ secret.rv \in {0, secretRevision}
    /\ ~Exists(secret) => secret = NoSecret
    /\ cachedSecret.rv <= secretRevision
    /\ ~Exists(cachedSecret) => cachedSecret = NoSecret
    /\ IsCurrent(cachedSecret) => cachedSecret = secret
    /\ copy.rv <= secretRevision

SoundCopies == SoundAt(secret, now) /\ SoundAt(cachedSecret, now) /\ SoundAt(copy, now)

\* Until the candidate is saved, a copy that is still current shows what the
\* Secret shows, and has its candidate if that is complete.
WorkerPrepares ==
    pc \in {"prepare", "save"} /\ IsCurrent(copy) =>
        /\ Shown(copy) = Shown(secret)
        /\ hasPendingCredentials(secret) => copy.desired = secret.desired

WorkerSaves == pc \in {"save", "reset"} => hasPendingCredentials(copy)

\* The worker alone publishes: what it is about to reset is not shown.
WorkerResets ==
    pc = "reset" => /\ Exists(copy)
                    /\ Published(secret) => Shown(copy) = Shown(secret)

\* What the worker is about to publish is shown already, or was set at Aiven for
\* the other user an interval after the last publication.
Rotates == /\ Works(copy)
           /\ copy.user # secret.user
           /\ Published(secret) => secret.at + MinInterval <= copy.at

Refreshes == IsCurrent(copy) => /\ Shown(copy) = Shown(secret)
                                /\ ~hasPendingCredentials(secret)

WorkerPublishes ==
    pc = "publish" =>
        /\ Exists(copy)
        /\ Published(copy)
        /\ ~hasPendingCredentials(copy)
        /\ Rotates \/ Refreshes

HandoverInv ==
    /\ now > 0
    /\ PublishedWorks
    /\ SecretVersions
    /\ SoundCopies
    /\ WorkerPrepares
    /\ WorkerSaves
    /\ WorkerResets
    /\ WorkerPublishes

----------------------------------------------------------------------------
(* Behind PasswordsRecorded                                                *)

\* As long as no user removes anything, there is one object, and the Secret is its.
OneObject ==
    ~tampered => /\ ~cr.deleting
                 /\ ~Exists(cr) => ~Exists(cachedCr) /\ pc = "idle" /\ ~Exists(secret)
                 /\ Exists(cachedCr) => cachedCr.uid = cr.uid
                 /\ pc # "idle" => obj.uid = cr.uid
                 /\ pc \in {"prepare", "save", "reset", "publish"} => copy.owner = cr.uid
                 /\ Exists(secret) => secret.owner = cr.uid

\* From SavePending on, the Secret keeps the candidate; a refresh finds none.
CandidateIsSaved ==
    ~tampered =>
        /\ pc = "reset" => secret.desired = copy.desired
        /\ pc = "publish" /\ IsCurrent(copy) =>
               \/ secret.desired = [user |-> copy.user, password |-> copy.password]
               \/ Refreshes

RecordInv == PasswordsRecorded /\ OneObject /\ CandidateIsSaved
=============================================================================

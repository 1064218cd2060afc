--------------------- MODULE ServiceUserRotation_proofs ---------------------
(***************************************************************************)
(* Theorems about ServiceUserRotation, for every pool of two users, every  *)
(* set of intervals and every bound.                                       *)
(***************************************************************************)
EXTENDS RotationInvariant, TLAPS

----------------------------------------------------------------------------
(* Values                                                                  *)

LEMMA PoolFacts ==
    /\ Users = {Usernames[1], Usernames[2]}
    /\ NoUser \notin Users
    /\ \A u : NextUser(u) \in Users /\ NextUser(u) # u
<1>1. DOMAIN Usernames = {1, 2}
  BY PoolAssumption
<1>2. Users = {Usernames[1], Usernames[2]}
  BY <1>1 DEF Users
<1> QED
  BY <1>2, PoolAssumption DEF NextUser

LEMMA BlankTypes ==
    /\ MinInterval \in Nat /\ MinInterval > 0
    /\ NoStatus \in Statuses /\ NoCr \in Crs /\ NoPair \in Pairs
    /\ NoSecret \in Secrets /\ NoService \in Services
<1>1. MinInterval \in Nat /\ MinInterval > 0 /\ MinInterval \in Intervals
  BY IntervalAssumption
<1>2. NoStatus \in Statuses
  BY DEF NoStatus, Statuses
<1>3. NoPair \in Pairs
  BY DEF NoPair, Pairs
<1> QED
  BY <1>1, <1>2, <1>3 DEF NoCr, Crs, NoSecret, Secrets, NoService, Services

LEMMA IntervalFacts ==
    ASSUME NEW i \in Intervals
    PROVE  i \in Nat /\ MinInterval <= i
BY IntervalAssumption

\* What may become of a Secret is a Secret.
LEMMA SecretTypes ==
    ASSUME NEW s \in Secrets
    PROVE  /\ \A n \in Nat : [s EXCEPT !.rv = n] \in Secrets
           /\ \A n \in Nat : [s EXCEPT !.owner = n] \in Secrets
           /\ \A d \in Details \cup {0} : [s EXCEPT !.details = d] \in Secrets
           /\ \A p \in Pairs : [s EXCEPT !.desired = p] \in Secrets
BY DEF Secrets

LEMMA CrTypes ==
    ASSUME NEW o \in Crs, NEW n \in Nat
    PROVE  /\ \A st \in Statuses : [o EXCEPT !.status = st, !.rv = n] \in Crs
           /\ \A i \in Intervals : [o EXCEPT !.interval = i, !.rv = n] \in Crs
           /\ \A i \in Intervals : [o EXCEPT !.uid = n, !.rv = n, !.interval = i] \in Crs
           /\ [o EXCEPT !.deleting = TRUE, !.rv = n] \in Crs
BY DEF Crs

LEMMA StatusTypes ==
    ASSUME NEW s \in Secrets, NEW i \in Intervals
    PROVE  StatusOf(s, i) \in Statuses
BY IntervalFacts DEF StatusOf, Statuses, Secrets

LEMMA CandidateTypes ==
    ASSUME NEW s \in Secrets, lastPassword \in Nat
    PROVE  Candidate(s) \in Secrets
<1>1. NextUser(s.user) \in Users
  BY PoolFacts
<1>2. [user |-> NextUser(s.user), password |-> lastPassword + 1] \in Pairs
  BY <1>1 DEF Pairs
<1> QED
  BY <1>2, SecretTypes DEF Candidate

LEMMA RefreshedTypes ==
    ASSUME NEW s \in Secrets, svc \in Services
    PROVE  Refreshed(s) \in Secrets
<1>1. svc.details \in Details \cup {0}
  BY DEF Services
<1> QED
  BY <1>1, SecretTypes DEF Refreshed

\* The new values that a worker's step leaves.
WorkerTyped == pc' \in PCs /\ obj' \in Crs /\ copy' \in Secrets /\ svc' \in Services
               /\ out' \in Statuses /\ queued' \in BOOLEAN

LEMMA ReturnTyped == ASSUME Return PROVE WorkerTyped
BY BlankTypes DEF Return, WorkerTyped, PCs

LEMMA FailTyped == ASSUME TypeOK, Fail PROVE WorkerTyped
<1>1. obj \in Crs /\ queued \in BOOLEAN
  BY DEF TypeOK, ObjectsOK, RunOK
<1>2. obj.status \in Statuses
  BY <1>1 DEF Crs
<1>3. [obj.status EXCEPT !.err = TRUE] \in Statuses
  BY <1>2 DEF Statuses
<1> QED
  BY <1>1, <1>3, BlankTypes DEF Fail, WorkerTyped, PCs

LEMMA StoreTyped ==
    ASSUME TypeOK, NEW s \in Secrets, Store(s)
    PROVE  secret' \in Secrets /\ secretRevision' \in Nat
<1>1. secret \in Secrets /\ secretRevision \in Nat
  BY DEF TypeOK, ObjectsOK
<1>2. secret' \in Secrets
  BY <1>1, SecretTypes DEF Store
<1> QED
  BY <1>2 DEF Store, Secrets

LEMMA CountsStay ==
    ASSUME CountsOK, UNCHANGED <<bounds, lastPassword, now, edits>>, faults' = faults \/ Fault
    PROVE  CountsOK'
BY DEF CountsOK, Fault

----------------------------------------------------------------------------
LEMMA TypeInit == ASSUME Init PROVE TypeOK
<1>1. ObjectsOK
  BY BlankTypes DEF Init, ObjectsOK
<1>2. RunOK
  BY BlankTypes DEF Init, RunOK, PCs
<1>3. ServiceOK /\ CountsOK /\ PastOK
  <2>1. [u \in Users |-> 0] \in [Users -> Nat] /\ [u \in Users |-> 0] \in [Users -> Nat \cup {NoAccount}]
    OBVIOUS
  <2>2. ServiceOK /\ PastOK
    BY <2>1 DEF Init, ServiceOK, PastOK, Details
  <2>3. CountsOK
    BY DEF Init, CountsOK
  <2> QED
    BY <2>2, <2>3
<1> QED
  BY <1>1, <1>2, <1>3 DEF TypeOK

LEMMA TypeStep == ASSUME TypeOK, [Next]_vars PROVE TypeOK'
<1> USE DEF ObjectsOK, RunOK, ServiceOK, PastOK
<1>1. CASE Begin
  <2>1. CountsOK'
    BY <1>1, CountsStay DEF Begin, TypeOK
  <2> QED
    BY <1>1, <2>1 DEF Begin, TypeOK, cluster, aiven, history, PCs
<1>2. CASE ReadService
  <2>1. CountsOK'
    BY <1>2, CountsStay DEF ReadService, TypeOK
  <2>2. WorkerTyped
    <3>1. [users |-> {u \in Users : password[u] # NoAccount}, details |-> details] \in Services
      BY DEF TypeOK, Services
    <3> QED
      BY <1>2, <3>1, ReturnTyped, FailTyped DEF ReadService, WorkerTyped, TypeOK, PCs
  <2> QED
    BY <1>2, <2>1, <2>2 DEF ReadService, WorkerTyped, TypeOK, cluster, aiven, history
<1>3. CASE EnsureSecret
  <2>1. CountsOK'
    BY <1>3, CountsStay DEF EnsureSecret, TypeOK
  <2>2. WorkerTyped
    <3>1. [NoSecret EXCEPT !.owner = obj.uid] \in Secrets
      BY BlankTypes, SecretTypes DEF TypeOK, Crs
    <3> QED
      BY <1>3, <3>1, FailTyped DEF EnsureSecret, WorkerTyped, TypeOK, PCs
  <2> QED
    BY <1>3, <2>1, <2>2 DEF EnsureSecret, WorkerTyped, TypeOK, cluster, aiven, history
<1>4. CASE Prepare
  <2>1. CountsOK'
    BY <1>4, CountsStay DEF Prepare, TypeOK
  <2>2. WorkerTyped
    <3>1. copy \in Secrets /\ obj.interval \in Intervals /\ lastPassword \in Nat /\ svc \in Services
      BY DEF TypeOK, CountsOK, Crs
    <3> DEFINE refreshed == IF Published(copy) THEN Refreshed(copy) ELSE copy
               kept      == [refreshed EXCEPT !.desired = NoPair]
    <3>2. refreshed \in Secrets
      BY <3>1, RefreshedTypes
    <3>3. Candidate(refreshed) \in Secrets /\ kept \in Secrets
      BY <3>1, <3>2, CandidateTypes, SecretTypes, BlankTypes
    <3>4. StatusOf(copy, obj.interval) \in Statuses
      BY <3>1, StatusTypes
    <3>5. \/ /\ copy' \in {Candidate(refreshed), kept}
             /\ pc' \in {"save", "status", "publish"}
             /\ out' \in {out, StatusOf(copy, obj.interval)}
             /\ UNCHANGED <<obj, svc, queued>>
          \/ Fail
          \/ Return
      BY <1>4 DEF Prepare
    <3> HIDE DEF refreshed, kept
    <3> QED
      BY <3>3, <3>4, <3>5, ReturnTyped, FailTyped DEF WorkerTyped, TypeOK, PCs
  <2> QED
    BY <1>4, <2>1, <2>2 DEF Prepare, WorkerTyped, TypeOK, cluster, aiven, history
<1>5. CASE SavePending
  <2>1. copy \in Secrets /\ copy.desired.password \in Nat
    BY DEF TypeOK, Secrets, Pairs
  <2>2. CountsOK'
    BY <1>5, <2>1 DEF SavePending, Fault, TypeOK, CountsOK
  <2>3. secret' \in Secrets /\ secretRevision' \in Nat
    BY <1>5, <2>1, StoreTyped DEF SavePending, TypeOK
  <2>4. WorkerTyped
    BY <1>5, <2>3, FailTyped DEF SavePending, WorkerTyped, TypeOK, PCs
  <2> QED
    BY <1>5, <2>2, <2>3, <2>4 DEF SavePending, WorkerTyped, TypeOK, aiven, history
<1>6. CASE ResetPassword
  <2>1. copy \in Secrets /\ copy.desired \in Pairs /\ copy.desired.password \in Nat
    BY DEF TypeOK, Secrets, Pairs
  <2>2. CountsOK'
    BY <1>6, CountsStay DEF ResetPassword, TypeOK
  <2>3. password' \in [Users -> Nat \cup {NoAccount}]
    BY <1>6, <2>1 DEF ResetPassword, TypeOK
  <2>4. WorkerTyped
    <3> DEFINE published == [Refreshed(copy) EXCEPT !.user = copy.desired.user,
                                 !.password = copy.desired.password, !.at = now, !.desired = NoPair]
    <3>1. Refreshed(copy) \in Secrets /\ now \in Nat /\ copy.desired.user \in Users \cup {NoUser}
      BY <2>1, RefreshedTypes DEF TypeOK, CountsOK, Pairs
    <3>2. published \in Secrets
      BY <2>1, <3>1, BlankTypes DEF Secrets
    <3>3. StatusOf(published, obj.interval) \in Statuses
      BY <3>2, StatusTypes DEF TypeOK, Crs
    <3>4. \/ /\ copy' = published /\ pc' = "publish" /\ out' = StatusOf(copy', obj.interval)
             /\ UNCHANGED <<obj, svc, queued>>
          \/ Fail
          \/ Return
      BY <1>6 DEF ResetPassword
    <3> HIDE DEF published
    <3> QED
      BY <3>2, <3>3, <3>4, ReturnTyped, FailTyped DEF WorkerTyped, TypeOK, PCs
  <2> QED
    BY <1>6, <2>2, <2>3, <2>4 DEF ResetPassword, WorkerTyped, TypeOK, cluster, history
<1>7. CASE Publish
  <2>1. copy \in Secrets /\ copy.password \in Nat
    BY DEF TypeOK, Secrets
  <2>2. CountsOK'
    BY <1>7, CountsStay DEF Publish, TypeOK
  <2>3. secret' \in Secrets /\ secretRevision' \in Nat
    BY <1>7, <2>1, StoreTyped DEF Publish, TypeOK
  <2>4. WorkerTyped
    BY <1>7, BlankTypes, FailTyped DEF Publish, WorkerTyped, TypeOK, PCs
  <2>5. former' \in [Users -> Nat]
    BY <1>7, <2>1 DEF Publish, TypeOK
  <2> QED
    BY <1>7, <2>2, <2>3, <2>4, <2>5 DEF Publish, WorkerTyped, TypeOK, aiven
<1>8. CASE PersistStatus
  <2>1. CountsOK'
    BY <1>8, CountsStay DEF PersistStatus, TypeOK
  <2>2. cr' \in Crs /\ crRevision' \in Nat
    <3>1. cr \in Crs /\ crRevision + 1 \in Nat /\ out \in Statuses
      BY DEF TypeOK
    <3>2. [cr EXCEPT !.status = out, !.rv = crRevision + 1] \in Crs
      BY <3>1, CrTypes
    <3>3. \A o \in Crs : o.rv \in Nat
      BY DEF Crs
    <3> QED
      BY <1>8, <3>2, <3>3 DEF PersistStatus, TypeOK
  <2> QED
    BY <1>8, <2>1, <2>2, ReturnTyped DEF PersistStatus, WorkerTyped, TypeOK, aiven, history
<1>9. CASE Crash
  <2>1. CountsOK'
    BY <1>9, CountsStay DEF Crash, TypeOK
  <2> QED
    BY <1>9, <2>1, ReturnTyped DEF Crash, WorkerTyped, TypeOK, cluster, aiven, history
<1>10. CASE SyncCr \/ SyncSecret \/ CollectSecret \/ FinishDeletion \/ Tick
  <2>1. ObjectsOK' /\ RunOK'
    BY <1>10, BlankTypes DEF SyncCr, SyncSecret, CollectSecret, FinishDeletion, Tick, TypeOK, cluster, worker
  <2>2. ServiceOK' /\ PastOK'
    BY <1>10 DEF SyncCr, SyncSecret, CollectSecret, FinishDeletion, Tick, TypeOK, aiven, history
  <2>3. CountsOK'
    BY <1>10 DEF SyncCr, SyncSecret, CollectSecret, FinishDeletion, Tick, TypeOK, CountsOK
  <2> QED
    BY <2>1, <2>2, <2>3 DEF TypeOK
<1>11. CASE Others
  <2>0. cr \in Crs /\ crRevision + 1 \in Nat /\ secret \in Secrets /\ secretRevision + 1 \in Nat
    BY DEF TypeOK
  <2>1. ASSUME NEW i \in Intervals, UserCreates(i) \/ UserChangesInterval(i) PROVE TypeOK'
    <3>1. cr' \in Crs /\ crRevision' \in Nat
      <4> DEFINE n == crRevision + 1
      <4>1. [NoCr EXCEPT !.uid = n, !.rv = n, !.interval = i] \in Crs /\ [cr EXCEPT !.interval = i, !.rv = n] \in Crs
        BY <2>0, CrTypes, BlankTypes
      <4> QED
        BY <2>0, <2>1, <4>1 DEF UserCreates, UserChangesInterval
    <3> QED
      BY <2>1, <3>1 DEF UserCreates, UserChangesInterval, Edit, TypeOK, CountsOK, worker, aiven, history
  <2>2. ASSUME UserDeletes PROVE TypeOK'
    <3>1. cr' \in Crs /\ crRevision' \in Nat
      <4> DEFINE n == crRevision + 1
      <4>1. [cr EXCEPT !.deleting = TRUE, !.rv = n] \in Crs
        BY <2>0, CrTypes
      <4> QED
        BY <2>0, <2>2, <4>1, BlankTypes DEF UserDeletes, TypeOK
    <3> QED
      BY <2>2, <3>1 DEF UserDeletes, Edit, TypeOK, CountsOK, worker, aiven
  <2>3. ASSUME UserDeletesSecret PROVE TypeOK'
    BY <2>3, BlankTypes DEF UserDeletesSecret, Edit, TypeOK, CountsOK, worker, aiven
  <2>4. ASSUME UserTouchesSecret PROVE TypeOK'
    <3>1. secret' \in Secrets
      BY <2>0, <2>4 DEF UserTouchesSecret, Secrets
    <3> QED
      BY <2>0, <2>4, <3>1 DEF UserTouchesSecret, Edit, TypeOK, CountsOK, worker, aiven, history
  <2>5. ASSUME UserSpoilsCandidate PROVE TypeOK'
    <3>1. [user |-> Usernames[1], password |-> 0] \in Pairs
      BY PoolFacts DEF Pairs
    <3>2. secret' \in Secrets
      BY <2>0, <2>5, <3>1 DEF UserSpoilsCandidate, Secrets
    <3> QED
      BY <2>0, <2>5, <3>2 DEF UserSpoilsCandidate, Edit, TypeOK, CountsOK, worker, aiven
  <2>6. ASSUME NEW u \in Users, NEW p \in {0, NoAccount}, OthersChangeUser(u, p) PROVE TypeOK'
    BY <2>6 DEF OthersChangeUser, Edit, TypeOK, CountsOK, cluster, worker, history
  <2>7. ASSUME ServiceMoves \/ ServiceStops PROVE TypeOK'
    <3>1. ServiceOK'
      <4>1. 3 - details \in Details /\ (~operational) \in BOOLEAN
        BY DEF TypeOK, Details
      <4>2. password' = password /\ details' \in {details, 3 - details}
        BY <2>7 DEF ServiceMoves, ServiceStops
      <4>3. operational' = operational \/ operational' = ~operational
        BY <2>7 DEF ServiceMoves, ServiceStops
      <4> QED
        BY <4>1, <4>2, <4>3 DEF TypeOK
    <3>2. CountsOK'
      BY <2>7 DEF ServiceMoves, ServiceStops, Edit, TypeOK, CountsOK
    <3> QED
      BY <2>7, <3>1, <3>2 DEF ServiceMoves, ServiceStops, TypeOK, cluster, worker, history
  <2> QED
    BY <1>11, <2>1, <2>2, <2>3, <2>4, <2>5, <2>6, <2>7 DEF Others
<1>12. CASE UNCHANGED vars
  BY <1>12 DEF vars, TypeOK, CountsOK
<1> QED
  BY <1>1, <1>2, <1>3, <1>4, <1>5, <1>6, <1>7, <1>8, <1>9, <1>10, <1>11, <1>12 DEF Next, Reconcile

\* Every variable keeps its type.
THEOREM TypeCorrect == Spec => []TypeOK
<1>1. Init => TypeOK
  BY TypeInit
<1>2. TypeOK /\ [Next]_vars => TypeOK'
  BY TypeStep
<1> QED
  BY <1>1, <1>2, PTL DEF Spec

----------------------------------------------------------------------------
(* Copies                                                                  *)

LEMMA Copies ==
    ASSUME TypeOK
    PROVE  /\ secret \in Secrets /\ cachedSecret \in Secrets /\ copy \in Secrets
           /\ secretRevision \in Nat /\ now \in Nat
BY DEF TypeOK, ObjectsOK, CountsOK

LEMMA BlankFacts ==
    /\ NoSecret.rv = 0 /\ ~Exists(NoSecret) /\ ~Published(NoSecret)
    /\ NoSecret.user = NoUser /\ NoSecret.password = 0 /\ NoSecret.at = 0
    /\ ~hasPendingCredentials(NoSecret)
    /\ \A t : SoundAt(NoSecret, t)
BY PoolFacts DEF NoSecret, NoPair, Exists, Published, hasPendingCredentials, SoundAt

LEMMA SoundLater ==
    ASSUME NEW s \in Secrets, NEW t \in Nat, NEW u \in Nat, t <= u, SoundAt(s, t)
    PROVE  SoundAt(s, u)
BY BlankTypes DEF SoundAt, Secrets

LEMMA SoundAlike ==
    ASSUME NEW s, NEW r, NEW t, SoundAt(s, t),
           Shown(r) = Shown(s), r.desired = s.desired, Exists(r)
    PROVE  SoundAt(r, t)
BY DEF SoundAt, Shown, Published, hasPendingCredentials

\* A Secret that shows what s shows and has no complete candidate.
LEMMA SoundDropped ==
    ASSUME NEW s, NEW r, NEW t, SoundAt(s, t),
           Shown(r) = Shown(s), ~hasPendingCredentials(r), Exists(s) => Exists(r)
    PROVE  SoundAt(r, t)
BY DEF SoundAt, Shown, Published

\* What a write to the Secret leaves there is s, at a version of its own unless
\* nothing changed.
LEMMA Stored ==
    ASSUME TypeOK, HandoverInv, NEW s \in Secrets, IsCurrent(s), Store(s),
           hasPendingCredentials(s) \/ Exists(secret), UNCHANGED cachedSecret
    PROVE  /\ Exists(secret') /\ secret'.rv = secretRevision' /\ secret' \in Secrets
           /\ Shown(secret') = Shown(s) /\ secret'.desired = s.desired /\ secret'.owner = s.owner
           /\ secretRevision <= secretRevision' /\ secretRevision' \in Nat
           /\ cachedSecret'.rv <= secretRevision'
           /\ IsCurrent(cachedSecret)' => cachedSecret' = secret'
<1>0. /\ secret \in Secrets /\ secretRevision \in Nat
      /\ cachedSecret \in Secrets /\ cachedSecret.rv <= secretRevision
      /\ IsCurrent(cachedSecret) => cachedSecret = secret
      /\ secret.rv \in {0, secretRevision}
      /\ ~Exists(secret) => secret = NoSecret
  BY Copies DEF HandoverInv, SecretVersions
<1>1. CASE s = secret
  <2>1. Exists(secret)
    BY <1>0, <1>1, BlankFacts
  <2>2. secret' = secret /\ secretRevision' = secret.rv
    BY <1>1 DEF Store
  <2> QED
    BY <1>0, <1>1, <2>1, <2>2 DEF Exists, IsCurrent
<1>2. CASE s # secret
  <2>1. secret' = [s EXCEPT !.rv = secretRevision + 1] /\ secretRevision' = secret'.rv
    BY <1>2 DEF Store
  <2>2. /\ secret' \in Secrets /\ secret'.rv = secretRevision + 1
        /\ Shown(secret') = Shown(s) /\ secret'.desired = s.desired /\ secret'.owner = s.owner
    BY <1>0, <2>1 DEF Secrets, Shown
  <2>3. cachedSecret.rv \in Nat
    BY <1>0 DEF Secrets
  <2> QED
    BY <1>0, <2>1, <2>2, <2>3 DEF Exists, IsCurrent
<1> QED
  BY <1>1, <1>2

----------------------------------------------------------------------------
(* Steps that leave the Secret alone                                       *)

Busy == {"prepare", "save", "reset", "publish"}

LEMMA WorkerAway ==
    ASSUME TypeOK, HandoverInv, UNCHANGED <<secret, secretRevision, cachedSecret, password, now>>,
           copy' \in {copy, NoSecret}, pc' \notin Busy
    PROVE  HandoverInv'
<1>1. PublishedWorks' /\ (now > 0)'
  BY DEF HandoverInv, PublishedWorks
<1>2. SecretVersions'
  BY Copies, BlankFacts DEF HandoverInv, SecretVersions, IsCurrent
<1>3. SoundCopies'
  BY BlankFacts DEF HandoverInv, SoundCopies
<1> QED
  BY <1>1, <1>2, <1>3 DEF HandoverInv, Busy, WorkerPrepares, WorkerSaves, WorkerResets, WorkerPublishes

LEMMA Untouched ==
    ASSUME HandoverInv, UNCHANGED <<secret, secretRevision, cachedSecret, password, now, copy, pc>>
    PROVE  HandoverInv'
BY DEF HandoverInv, PublishedWorks, SecretVersions, SoundCopies, WorkerPrepares, WorkerSaves,
   WorkerResets, WorkerPublishes, Rotates, Refreshes, Works, IsCurrent

LEMMA FailAway == ASSUME Fail PROVE copy' = NoSecret /\ pc' \notin Busy
BY DEF Fail, Busy

LEMMA ReturnAway == ASSUME Return PROVE copy' = NoSecret /\ pc' \notin Busy
BY DEF Return, Busy

LEMMA HandoverEnsureSecret == ASSUME TypeOK, HandoverInv, EnsureSecret PROVE HandoverInv'
<1>1. UNCHANGED <<secret, secretRevision, cachedSecret, password, now>>
  BY DEF EnsureSecret, cluster, aiven
<1>2. CASE Fail
  BY <1>1, <1>2, FailAway, WorkerAway
<1>3. CASE /\ pc' = "prepare"
           /\ copy' = IF Exists(cachedSecret) THEN cachedSecret ELSE [NoSecret EXCEPT !.owner = obj.uid]
  <2>1. CASE Exists(cachedSecret)
    BY <1>1, <1>3, <2>1 DEF HandoverInv, PublishedWorks, SecretVersions, SoundCopies, WorkerPrepares,
       WorkerSaves, WorkerResets, WorkerPublishes, IsCurrent
  <2>2. CASE ~Exists(cachedSecret)
    <3>1. /\ copy'.rv = 0 /\ ~Published(copy') /\ ~Exists(copy')
          /\ Shown(copy') = Shown(NoSecret) /\ ~hasPendingCredentials(copy')
      BY <1>3, <2>2, PoolFacts DEF NoSecret, NoPair, Shown, Published, Exists, hasPendingCredentials
    <3>2. SoundAt(copy', now)
      BY <3>1 DEF SoundAt, Shown, NoSecret
    <3>3. IsCurrent(copy)' => secret = NoSecret
      BY <1>1, <3>1 DEF HandoverInv, SecretVersions, IsCurrent, Exists
    <3>4. WorkerPrepares'
      BY <1>1, <3>1, <3>3, BlankFacts DEF WorkerPrepares
    <3>5. SecretVersions'
      BY <1>1, <3>1, Copies DEF HandoverInv, SecretVersions, IsCurrent
    <3> QED
      BY <1>1, <1>3, <3>2, <3>4, <3>5 DEF HandoverInv, PublishedWorks, SoundCopies, WorkerSaves,
         WorkerResets, WorkerPublishes
  <2> QED
    BY <2>1, <2>2
<1> QED
  BY <1>2, <1>3 DEF EnsureSecret

LEMMA HandoverPrepare == ASSUME TypeOK, HandoverInv, Prepare PROVE HandoverInv'
<1> DEFINE refreshed == IF Published(copy) THEN Refreshed(copy) ELSE copy
           kept      == [refreshed EXCEPT !.desired = NoPair]
<1>1. UNCHANGED <<secret, secretRevision, cachedSecret, password, now>> /\ pc = "prepare"
  BY DEF Prepare, cluster, aiven
<1>2. copy \in Secrets /\ obj.interval \in Intervals /\ now \in Nat
  BY DEF TypeOK, ObjectsOK, CountsOK, Crs
<1>3. /\ Shown(refreshed) = Shown(copy) /\ refreshed.rv = copy.rv
      /\ refreshed.desired = copy.desired /\ refreshed.user = copy.user /\ refreshed.at = copy.at
  BY <1>2 DEF Refreshed, Shown, Secrets
<1>4. CASE Fail \/ Return
  BY <1>1, <1>4, FailAway, ReturnAway, WorkerAway
<1>5. CASE /\ hasPendingCredentials(copy) \/ Due(copy, obj.interval)
           /\ copy' = Candidate(refreshed)
           /\ pc' = "save"
  <2>1. /\ Shown(copy') = Shown(copy) /\ copy'.rv = copy.rv
        /\ hasPendingCredentials(copy) => copy'.desired = copy.desired
        /\ ~hasPendingCredentials(copy) =>
               copy'.desired = [user |-> NextUser(copy.user), password |-> lastPassword + 1]
    <3>1. refreshed \in Secrets
      BY <1>2, RefreshedTypes DEF TypeOK, RunOK
    <3> HIDE DEF refreshed
    <3> QED
      BY <1>3, <1>5, <3>1 DEF Candidate, Secrets, Shown, hasPendingCredentials
  <2>2. hasPendingCredentials(copy') /\ copy'.desired.user # copy.user
    <3>1. CASE hasPendingCredentials(copy)
      BY <2>1, <3>1 DEF hasPendingCredentials, HandoverInv, SoundCopies, SoundAt
    <3>2. CASE ~hasPendingCredentials(copy)
      BY <2>1, <3>2, PoolFacts DEF hasPendingCredentials, TypeOK, CountsOK
    <3> QED
      BY <3>1, <3>2
  <2>3. Published(copy) => copy.at + MinInterval <= now
    <3>1. CASE hasPendingCredentials(copy)
      BY <3>1 DEF HandoverInv, SoundCopies, SoundAt
    <3>2. CASE Due(copy, obj.interval)
      <4>1. copy.at \in Nat
        BY <1>2 DEF Secrets
      <4> QED
        BY <1>2, <3>2, <4>1, IntervalFacts, BlankTypes DEF Due
    <3> QED
      BY <1>5, <3>1, <3>2
  <2>4. SoundAt(copy', now)
    BY <2>1, <2>2, <2>3 DEF HandoverInv, SoundCopies, SoundAt, Shown, Published, Exists
  <2>5. WorkerPrepares'
    BY <1>1, <2>1 DEF HandoverInv, WorkerPrepares, IsCurrent, hasPendingCredentials
  <2>6. SecretVersions'
    BY <1>1, <2>1 DEF HandoverInv, SecretVersions, IsCurrent
  <2> QED
    BY <1>1, <1>5, <2>2, <2>4, <2>5, <2>6 DEF HandoverInv, PublishedWorks, SoundCopies, WorkerSaves,
       WorkerResets, WorkerPublishes
<1>6. CASE /\ ~hasPendingCredentials(copy) /\ ~Due(copy, obj.interval)
           /\ copy' = kept
           /\ pc' \in {"status", "publish"}
  <2>1. /\ Shown(copy') = Shown(copy) /\ copy'.rv = copy.rv /\ copy'.desired = NoPair
    <3>1. refreshed \in Secrets
      BY <1>2, RefreshedTypes DEF TypeOK, RunOK
    <3> HIDE DEF refreshed
    <3> QED
      BY <1>3, <1>6, <3>1 DEF Secrets, Shown
  <2>2. ~hasPendingCredentials(copy')
    BY <2>1, PoolFacts DEF hasPendingCredentials, NoPair
  <2>3. Published(copy) /\ Exists(copy)
    BY <1>6 DEF Due, HandoverInv, SoundCopies, SoundAt
  <2>4. Published(copy') /\ Exists(copy')
    BY <2>1, <2>3 DEF Shown, Published, Exists
  <2>5. SoundAt(copy', now)
    BY <2>1, <2>2, <2>4, SoundDropped DEF HandoverInv, SoundCopies
  <2>6. Refreshes'
    BY <1>1, <1>6, <2>1 DEF HandoverInv, WorkerPrepares, Refreshes, IsCurrent, hasPendingCredentials
  <2>7. SecretVersions'
    BY <1>1, <2>1 DEF HandoverInv, SecretVersions, IsCurrent
  <2> QED
    BY <1>1, <1>6, <2>2, <2>4, <2>5, <2>6, <2>7 DEF HandoverInv, PublishedWorks, SoundCopies,
       WorkerPrepares, WorkerSaves, WorkerResets, WorkerPublishes
<1> QED
  BY <1>4, <1>5, <1>6 DEF Prepare

LEMMA HandoverSavePending == ASSUME TypeOK, HandoverInv, SavePending PROVE HandoverInv'
<1>1. UNCHANGED <<cachedSecret, password, now>> /\ pc = "save"
  BY DEF SavePending, aiven
<1>2. hasPendingCredentials(copy)
  BY <1>1 DEF HandoverInv, WorkerSaves
<1>3. CASE IsCurrent(copy) /\ Store(copy)
  <2>1. /\ Exists(secret') /\ secret'.rv = secretRevision'
        /\ Shown(secret') = Shown(copy) /\ secret'.desired = copy.desired
        /\ cachedSecret'.rv <= secretRevision' /\ secretRevision' \in Nat
        /\ IsCurrent(cachedSecret)' => cachedSecret' = secret'
    BY <1>1, <1>2, <1>3, Stored, Copies
  <2>2. Shown(copy) = Shown(secret)
    BY <1>1, <1>3 DEF HandoverInv, WorkerPrepares
  <2>3. SoundAt(secret', now)
    BY <2>1, SoundAlike DEF HandoverInv, SoundCopies
  <2>4. PublishedWorks' /\ (now > 0)'
    BY <1>1, <2>1, <2>2 DEF HandoverInv, PublishedWorks, Published, Shown
  <2>5. copy' \in {secret', NoSecret}
    BY <1>3 DEF SavePending, Fail, IsCurrent
  <2>6. SecretVersions'
    BY <1>1, <2>1, <2>5, BlankFacts DEF HandoverInv, SecretVersions, Exists
  <2>7. SoundCopies'
    BY <1>1, <2>3, <2>5, BlankFacts DEF HandoverInv, SoundCopies
  <2>8. CASE pc' = "reset" /\ copy' = secret'
    <3>1. hasPendingCredentials(copy') /\ Exists(copy')
      BY <1>2, <2>1, <2>8 DEF hasPendingCredentials, Exists
    <3> QED
      BY <2>4, <2>6, <2>7, <2>8, <3>1 DEF HandoverInv, WorkerPrepares, WorkerSaves, WorkerResets, WorkerPublishes
  <2>9. CASE Fail
    BY <2>4, <2>6, <2>7, <2>9, FailAway
       DEF HandoverInv, Busy, WorkerPrepares, WorkerSaves, WorkerResets, WorkerPublishes
  <2> QED
    BY <1>3, <2>8, <2>9 DEF SavePending
<1>4. CASE Fail /\ UNCHANGED <<secret, secretRevision>>
  BY <1>1, <1>4, FailAway, WorkerAway
<1> QED
  BY <1>3, <1>4 DEF SavePending

LEMMA HandoverResetPassword == ASSUME TypeOK, HandoverInv, ResetPassword PROVE HandoverInv'
<1> DEFINE u == copy.desired.user
           p == copy.desired.password
<1>1. UNCHANGED <<secret, secretRevision, cachedSecret, now>> /\ pc = "reset"
  BY DEF ResetPassword, cluster
<1>2. /\ u \in Users /\ p \in Nat /\ p > 0 /\ hasPendingCredentials(copy)
      /\ copy \in Secrets /\ now \in Nat /\ now > 0
  BY <1>1, Copies DEF HandoverInv, WorkerSaves, hasPendingCredentials, Secrets, Pairs
<1>3. /\ u # secret.user
      /\ Published(secret) => secret.at + MinInterval <= now
  <2>1. CASE Published(secret)
    <3>1. Shown(copy) = Shown(secret)
      BY <1>1, <2>1 DEF HandoverInv, WorkerResets
    <3> QED
      BY <1>2, <2>1, <3>1 DEF HandoverInv, SoundCopies, SoundAt, Shown, Published
  <2>2. CASE ~Published(secret)
    BY <1>2, <2>2, PoolFacts DEF HandoverInv, SoundCopies, SoundAt
  <2> QED
    BY <2>1, <2>2
<1>4. /\ password' = password \/ password' = [password EXCEPT ![u] = p]
      /\ password \in [Users -> Nat \cup {NoAccount}]
  BY DEF ResetPassword, TypeOK, ServiceOK
<1>5. PublishedWorks'
  BY <1>1, <1>3, <1>4 DEF HandoverInv, PublishedWorks, SoundCopies, SoundAt
<1>6. CASE Fail \/ Return
  <2>1. copy' = NoSecret /\ pc' \notin Busy
    BY <1>6, FailAway, ReturnAway
  <2>2. SecretVersions'
    BY <1>1, <2>1, Copies, BlankFacts DEF HandoverInv, SecretVersions, IsCurrent
  <2>3. SoundCopies'
    BY <1>1, <2>1, BlankFacts DEF HandoverInv, SoundCopies
  <2> QED
    BY <1>1, <1>5, <2>1, <2>2, <2>3
       DEF HandoverInv, Busy, WorkerPrepares, WorkerSaves, WorkerResets, WorkerPublishes
<1>7. CASE /\ password' = [password EXCEPT ![u] = p]
           /\ copy' = [Refreshed(copy) EXCEPT !.user = u, !.password = p, !.at = now, !.desired = NoPair]
           /\ pc' = "publish"
  <2>1. /\ copy'.user = u /\ copy'.password = p /\ copy'.at = now /\ copy'.desired = NoPair
        /\ copy'.rv = copy.rv
    <3>1. Refreshed(copy) \in Secrets /\ Refreshed(copy).rv = copy.rv
      BY <1>2, RefreshedTypes DEF TypeOK, RunOK, Refreshed, Secrets
    <3> HIDE DEF u, p
    <3> QED
      BY <1>7, <3>1 DEF Secrets
  <2>2. Exists(copy') /\ Published(copy') /\ ~hasPendingCredentials(copy')
    <3>1. Exists(copy)
      BY <1>1 DEF HandoverInv, WorkerResets
    <3> QED
      BY <1>2, <2>1, <3>1, PoolFacts DEF Exists, Published, hasPendingCredentials, NoPair
  <2>3. Rotates'
    <3>1. password'[u] = p
      BY <1>2, <1>4, <1>7
    <3> QED
      BY <1>1, <1>3, <2>1, <3>1 DEF Rotates, Works, Published
  <2>4. SoundAt(copy', now)
    BY <1>2, <2>1, <2>2 DEF SoundAt
  <2>5. SecretVersions'
    BY <1>1, <2>1 DEF HandoverInv, SecretVersions, IsCurrent
  <2> QED
    BY <1>1, <1>2, <1>5, <1>7, <2>2, <2>3, <2>4, <2>5
       DEF HandoverInv, SoundCopies, WorkerPrepares, WorkerSaves, WorkerResets, WorkerPublishes
<1> QED
  BY <1>1, <1>6, <1>7 DEF ResetPassword

LEMMA HandoverPublish == ASSUME TypeOK, HandoverInv, Publish PROVE HandoverInv'
<1>1. UNCHANGED <<cachedSecret, password, now>> /\ pc = "publish"
  BY DEF Publish, aiven
<1>2. copy' = NoSecret /\ pc' \notin Busy
  BY FailAway DEF Publish, Busy
<1>3. CASE Exists(secret) /\ IsCurrent(copy) /\ Store(copy)
  <2>1. /\ Exists(secret') /\ secret'.rv = secretRevision'
        /\ Shown(secret') = Shown(copy) /\ secret'.desired = copy.desired
        /\ cachedSecret'.rv <= secretRevision' /\ secretRevision' \in Nat
        /\ IsCurrent(cachedSecret)' => cachedSecret' = secret'
    BY <1>1, <1>3, Stored, Copies
  <2>2. Works(copy)
    <3>1. CASE Rotates
      BY <3>1 DEF Rotates
    <3>2. CASE Refreshes
      BY <1>1, <1>3, <3>2 DEF HandoverInv, WorkerPublishes, Refreshes, PublishedWorks, Works, Shown, Published
    <3> QED
      BY <1>1, <3>1, <3>2 DEF HandoverInv, WorkerPublishes
  <2>3. PublishedWorks' /\ (now > 0)'
    BY <1>1, <2>1, <2>2 DEF HandoverInv, PublishedWorks, Works, Shown
  <2>4. SoundCopies'
    BY <1>1, <1>2, <2>1, SoundAlike, BlankFacts DEF HandoverInv, SoundCopies
  <2>5. SecretVersions'
    BY <1>1, <1>2, <2>1, BlankFacts DEF HandoverInv, SecretVersions
  <2> QED
    BY <1>2, <2>3, <2>4, <2>5
       DEF HandoverInv, Busy, WorkerPrepares, WorkerSaves, WorkerResets, WorkerPublishes
<1>4. CASE UNCHANGED <<secret, secretRevision>>
  BY <1>1, <1>2, <1>4, WorkerAway
<1> QED
  BY <1>3, <1>4 DEF Publish

----------------------------------------------------------------------------
(* The cluster, time, users and Aiven                                      *)

LEMMA HandoverRemoved ==
    ASSUME TypeOK, HandoverInv, secret' = NoSecret,
           UNCHANGED <<secretRevision, cachedSecret, password, now, copy, pc>>
    PROVE  HandoverInv'
<1>1. PublishedWorks' /\ (now > 0)' /\ SoundCopies'
  BY BlankFacts DEF HandoverInv, PublishedWorks, SoundCopies
<1>2. SecretVersions'
  BY BlankFacts DEF HandoverInv, SecretVersions, IsCurrent, Exists
<1>3. IsCurrent(copy)' => ~Exists(copy) /\ Shown(copy) = Shown(NoSecret)
  <2>1. ~Exists(copy) => copy.at = 0 /\ copy.user = NoUser /\ copy.password = 0
    BY DEF HandoverInv, SoundCopies, SoundAt, Published
  <2>2. IsCurrent(copy)' => ~Exists(copy)
    BY BlankFacts DEF IsCurrent, Exists
  <2> QED
    BY <2>1, <2>2, BlankFacts DEF Shown
<1>4. WorkerPrepares'
  BY <1>3, BlankFacts DEF HandoverInv, WorkerPrepares
<1>5. WorkerPublishes'
  <2>1. Rotates => Rotates' \/ copy.user = NoUser
    BY BlankFacts DEF Rotates, Works
  <2>2. Published(copy) => copy.user \in Users
    BY DEF HandoverInv, SoundCopies, SoundAt
  <2> QED
    BY <1>3, <2>1, <2>2, PoolFacts DEF HandoverInv, WorkerPublishes, Refreshes
<1> QED
  BY <1>1, <1>2, <1>4, <1>5, BlankFacts DEF HandoverInv, WorkerSaves, WorkerResets

\* A user changes something but what is shown.
LEMMA HandoverRewritten ==
    ASSUME TypeOK, HandoverInv, Shown(secret') = Shown(secret),
           secret'.desired = secret.desired \/ ~hasPendingCredentials(secret'),
           Exists(secret), secret'.rv = secretRevision', secretRevision' = secretRevision + 1,
           UNCHANGED <<cachedSecret, password, now, copy, pc>>
    PROVE  HandoverInv'
<1>0. secretRevision \in Nat /\ copy.rv <= secretRevision /\ cachedSecret.rv <= secretRevision
      /\ copy.rv \in Nat /\ cachedSecret.rv \in Nat
  BY Copies DEF HandoverInv, SecretVersions, Secrets
<1>1. ~IsCurrent(copy)' /\ ~IsCurrent(cachedSecret)' /\ Exists(secret')
  BY <1>0 DEF IsCurrent, Exists
<1>2. PublishedWorks' /\ (now > 0)'
  BY DEF HandoverInv, PublishedWorks, Shown, Published
<1>3. SoundCopies'
  <2>1. SoundAt(secret', now)
    BY <1>1, SoundAlike, SoundDropped DEF HandoverInv, SoundCopies
  <2> QED
    BY <2>1 DEF HandoverInv, SoundCopies
<1>4. SecretVersions'
  BY <1>0, <1>1 DEF HandoverInv, SecretVersions
<1>5. WorkerPublishes'
  BY <1>1 DEF HandoverInv, WorkerPublishes, Rotates, Refreshes, Works, Shown, Published
<1> QED
  BY <1>1, <1>2, <1>3, <1>4, <1>5
     DEF HandoverInv, WorkerPrepares, WorkerSaves, WorkerResets, Shown, Published

LEMMA HandoverSyncSecret == ASSUME TypeOK, HandoverInv, SyncSecret PROVE HandoverInv'
<1>1. cachedSecret' = secret /\ UNCHANGED <<secret, secretRevision, password, now, copy, pc>>
  BY DEF SyncSecret, worker, aiven
<1>2. SecretVersions'
  BY <1>1, Copies DEF HandoverInv, SecretVersions, IsCurrent
<1> QED
  BY <1>1, <1>2 DEF HandoverInv, PublishedWorks, SoundCopies, WorkerPrepares, WorkerSaves,
     WorkerResets, WorkerPublishes, Rotates, Refreshes, Works, IsCurrent

LEMMA HandoverTick == ASSUME TypeOK, HandoverInv, Tick PROVE HandoverInv'
<1>1. UNCHANGED <<secret, secretRevision, cachedSecret, password, copy, pc>> /\ now' = now + 1
  BY DEF Tick, cluster, worker, aiven
<1>2. now \in Nat /\ now' \in Nat /\ now <= now' /\ now > 0
  BY <1>1, Copies DEF HandoverInv
<1>3. SoundCopies'
  BY <1>1, <1>2, Copies, SoundLater DEF HandoverInv, SoundCopies
<1> QED
  BY <1>1, <1>2, <1>3 DEF HandoverInv, PublishedWorks, SecretVersions, WorkerPrepares, WorkerSaves,
     WorkerResets, WorkerPublishes, Rotates, Refreshes, Works, IsCurrent

LEMMA HandoverOthersChange ==
    ASSUME TypeOK, HandoverInv, NEW u \in Users, NEW p \in {0, NoAccount}, OthersChangeUser(u, p)
    PROVE  HandoverInv'
<1>1. /\ UNCHANGED <<secret, secretRevision, cachedSecret, now, copy, pc>>
      /\ password' = [password EXCEPT ![u] = p]
      /\ password \in [Users -> Nat \cup {NoAccount}]
  BY DEF OthersChangeUser, cluster, worker, TypeOK, ServiceOK
<1>2. PublishedWorks'
  BY <1>1 DEF HandoverInv, PublishedWorks, SoundCopies, SoundAt
<1>3. Published(copy) /\ Works(copy) => Works(copy)'
  BY <1>1 DEF HandoverInv, SoundCopies, SoundAt, Works
<1>4. WorkerPublishes'
  BY <1>1, <1>3 DEF HandoverInv, WorkerPublishes, Rotates, Refreshes, IsCurrent
<1> QED
  BY <1>1, <1>2, <1>4 DEF HandoverInv, SecretVersions, SoundCopies, WorkerPrepares, WorkerSaves,
     WorkerResets, IsCurrent

----------------------------------------------------------------------------
LEMMA HandoverInvInit == ASSUME Init PROVE HandoverInv
BY BlankFacts DEF Init, HandoverInv, PublishedWorks, SecretVersions, SoundCopies, WorkerPrepares,
   WorkerSaves, WorkerResets, WorkerPublishes

LEMMA HandoverInvStep == ASSUME TypeOK, HandoverInv, [Next]_vars PROVE HandoverInv'
<1>1. CASE Begin \/ ReadService \/ PersistStatus \/ Crash
  <2>1. UNCHANGED <<secret, secretRevision, cachedSecret, password, now>>
    BY <1>1 DEF Begin, ReadService, PersistStatus, Crash, cluster, aiven
  <2>2. copy' \in {copy, NoSecret} /\ pc' \notin Busy
    BY <1>1, FailAway, ReturnAway DEF Begin, ReadService, PersistStatus, Crash, Busy
  <2> QED
    BY <2>1, <2>2, WorkerAway
<1>2. CASE EnsureSecret \/ Prepare \/ SavePending \/ ResetPassword \/ Publish
  BY <1>2, HandoverEnsureSecret, HandoverPrepare, HandoverSavePending, HandoverResetPassword, HandoverPublish
<1>3. CASE SyncCr \/ FinishDeletion \/ UNCHANGED vars
  BY <1>3, Untouched DEF SyncCr, FinishDeletion, vars, worker, aiven
<1>4. CASE SyncSecret \/ Tick
  BY <1>4, HandoverSyncSecret, HandoverTick
<1>5. CASE CollectSecret
  BY <1>5, HandoverRemoved DEF CollectSecret, worker, aiven
<1>6. CASE Others
  <2>1. ASSUME NEW i \in Intervals, UserCreates(i) \/ UserChangesInterval(i) PROVE HandoverInv'
    BY <2>1, Untouched DEF UserCreates, UserChangesInterval, worker, aiven
  <2>2. CASE UserDeletes \/ ServiceMoves \/ ServiceStops
    BY <2>2, Untouched DEF UserDeletes, ServiceMoves, ServiceStops, cluster, worker, aiven
  <2>3. CASE UserDeletesSecret
    BY <2>3, HandoverRemoved DEF UserDeletesSecret, worker, aiven
  <2>4. CASE UserTouchesSecret
    <3>1. /\ Shown(secret') = Shown(secret) /\ secret'.desired = secret.desired
          /\ secret'.rv = secretRevision'
      BY <2>4, Copies DEF UserTouchesSecret, Shown, Secrets
    <3> QED
      BY <2>4, <3>1, HandoverRewritten DEF UserTouchesSecret, worker, aiven
  <2>5. CASE UserSpoilsCandidate
    <3>1. /\ Shown(secret') = Shown(secret) /\ secret'.desired.password = 0
          /\ secret'.rv = secretRevision'
      BY <2>5, Copies DEF UserSpoilsCandidate, Shown, Secrets
    <3> QED
      BY <2>5, <3>1, HandoverRewritten DEF UserSpoilsCandidate, hasPendingCredentials, worker, aiven
  <2>6. ASSUME NEW u \in Users, NEW p \in {0, NoAccount}, OthersChangeUser(u, p) PROVE HandoverInv'
    BY <2>6, HandoverOthersChange
  <2> QED
    BY <1>6, <2>1, <2>2, <2>3, <2>4, <2>5, <2>6 DEF Others
<1> QED
  BY <1>1, <1>2, <1>3, <1>4, <1>5, <1>6 DEF Next, Reconcile

LEMMA HandoverInvCorrect == Spec => [](TypeOK /\ HandoverInv)
<1>1. Init => HandoverInv
  BY HandoverInvInit
<1>2. TypeOK /\ HandoverInv /\ [Next]_vars => HandoverInv'
  BY HandoverInvStep
<1> QED
  BY <1>1, <1>2, TypeCorrect, PTL DEF Spec

\* What the Secret shows works at Aiven, unless another client changed it: no
\* stale copy, conflict, lost answer or crash publishes a password that was not
\* set, or changes one that is shown.
THEOREM CredentialsWork == Spec => []PublishedWorks
<1>1. HandoverInv => PublishedWorks
  BY DEF HandoverInv
<1> QED
  BY <1>1, HandoverInvCorrect, PTL

----------------------------------------------------------------------------
(* The refinement                                                          *)

hvars == <<shown, password, now>>

LEMMA ShownIsShown == shown = Shown(secret) /\ shown' = Shown(secret')
BY DEF shown, Shown

LEMMA BlankIsShown == Shown(NoSecret) = Handover!Blank
BY BlankFacts DEF Shown, Handover!Blank

LEMMA HandoverInit == ASSUME Init PROVE Handover!Init
BY DEF Init, Handover!Init, Handover!Blank, shown, NoSecret

LEMMA PublishHandsOver == ASSUME TypeOK, HandoverInv, Publish PROVE [Handover!Next]_hvars
<1>1. UNCHANGED <<cachedSecret, password, now>> /\ pc = "publish"
  BY DEF Publish, aiven
<1>2. copy \in Secrets /\ secret \in Secrets
  BY Copies
<1>3. CASE Exists(secret) /\ IsCurrent(copy) /\ Store(copy)
  <2>1. shown' = Shown(copy)
    BY <1>1, <1>2, <1>3, Stored, ShownIsShown
  <2>2. CASE Refreshes
    BY <1>1, <1>3, <2>1, <2>2, ShownIsShown DEF Refreshes, hvars
  <2>3. CASE Rotates
    <3>1. Published(copy) /\ copy.user \in Users /\ copy.password > 0 /\ copy.at <= now
      BY <1>1 DEF HandoverInv, WorkerPublishes, SoundCopies, SoundAt
    <3>2. copy.at \in Nat /\ copy.at > 0
      BY <1>2, <3>1 DEF Secrets, Published
    <3>3. copy.user # shown.user
      BY <2>3 DEF Rotates, shown
    <3>4. shown # Handover!Blank => shown.at + MinInterval <= shown'.at
      <4>1. ~Published(secret) => Shown(secret) = Handover!Blank
        BY DEF HandoverInv, SoundCopies, SoundAt, Published, Shown, Handover!Blank
      <4> QED
        BY <2>1, <2>3, <4>1, ShownIsShown DEF Rotates, Shown
    <3>5. password[copy.user] \in {shown'.password, 0, -1}
      BY <2>1, <2>3 DEF Rotates, Works, Shown, NoAccount
    <3>6. Handover!Publish(copy.user)
      BY <1>1, <2>1, <3>1, <3>2, <3>3, <3>4, <3>5 DEF Handover!Publish, Shown
    <3> QED
      BY <3>1, <3>6 DEF Handover!Next
  <2> QED
    BY <1>1, <2>2, <2>3 DEF HandoverInv, WorkerPublishes
<1>4. CASE UNCHANGED <<secret, secretRevision>>
  BY <1>1, <1>4 DEF hvars, shown
<1> QED
  BY <1>3, <1>4 DEF Publish

LEMMA ResetHandsOver == ASSUME TypeOK, HandoverInv, ResetPassword PROVE [Handover!Next]_hvars
<1> DEFINE u == copy.desired.user
           p == copy.desired.password
<1>1. UNCHANGED <<secret, secretRevision, cachedSecret, now, shown>> /\ pc = "reset"
  BY DEF ResetPassword, cluster, shown
<1>2. u \in Users /\ p > 0 /\ hasPendingCredentials(copy)
  BY <1>1 DEF HandoverInv, WorkerSaves, hasPendingCredentials
<1>3. u # shown.user
  <2>1. CASE Published(secret)
    BY <1>1, <1>2, <2>1, ShownIsShown DEF HandoverInv, WorkerResets, SoundCopies, SoundAt, Shown
  <2>2. CASE ~Published(secret)
    BY <1>2, <2>2, PoolFacts DEF HandoverInv, SoundCopies, SoundAt, shown
  <2> QED
    BY <2>1, <2>2
<1>4. Handover!Due
  <2>1. CASE Published(secret)
    <3>1. Shown(copy) = Shown(secret)
      BY <1>1, <2>1 DEF HandoverInv, WorkerResets
    <3>2. copy.at = secret.at /\ Published(copy)
      BY <2>1, <3>1 DEF Shown, Published
    <3> QED
      BY <1>2, <3>2 DEF HandoverInv, SoundCopies, SoundAt, Handover!Due, shown
  <2>2. CASE ~Published(secret)
    BY <2>2 DEF HandoverInv, SoundCopies, SoundAt, Published, shown, Handover!Due, Handover!Blank
  <2> QED
    BY <2>1, <2>2
<1>5. CASE password' = [password EXCEPT ![u] = p]
  <2>1. password \in [Users -> Nat \cup {NoAccount}]
    BY DEF TypeOK, ServiceOK
  <2>2. password'[u] = p
    BY <1>2, <1>5, <2>1
  <2>3. Handover!Reset(u)
    BY <1>1, <1>2, <1>3, <1>4, <1>5, <2>2 DEF Handover!Reset
  <2> QED
    BY <1>2, <2>3 DEF Handover!Next
<1>6. CASE password' = password
  BY <1>1, <1>6 DEF hvars
<1> QED
  BY <1>5, <1>6 DEF ResetPassword

LEMMA HandoverStep == ASSUME TypeOK, HandoverInv, [Next]_vars PROVE [Handover!Next]_hvars
<1>1. CASE Begin \/ ReadService \/ EnsureSecret \/ Prepare \/ PersistStatus \/ Crash
           \/ SyncCr \/ SyncSecret \/ FinishDeletion \/ UNCHANGED vars
  BY <1>1 DEF Begin, ReadService, EnsureSecret, Prepare, PersistStatus, Crash, SyncCr, SyncSecret,
     FinishDeletion, vars, cluster, aiven, hvars, shown
<1>2. CASE SavePending
  <2>1. UNCHANGED <<cachedSecret, password, now>> /\ pc = "save"
    BY <1>2 DEF SavePending, aiven
  <2>2. shown' = shown
    <3>1. CASE IsCurrent(copy) /\ Store(copy)
      <4>1. Shown(secret') = Shown(copy)
        BY <2>1, <3>1, Stored, Copies DEF HandoverInv, WorkerSaves
      <4>2. Shown(copy) = Shown(secret)
        BY <2>1, <3>1 DEF HandoverInv, WorkerPrepares
      <4> QED
        BY <4>1, <4>2, ShownIsShown
    <3>2. CASE secret' = secret
      BY <3>2 DEF shown
    <3> QED
      BY <1>2, <3>1, <3>2 DEF SavePending
  <2> QED
    BY <2>1, <2>2 DEF hvars
<1>3. CASE ResetPassword \/ Publish
  BY <1>3, ResetHandsOver, PublishHandsOver
<1>4. CASE CollectSecret \/ UserDeletesSecret
  <2>1. shown' = Handover!Blank /\ UNCHANGED <<password, now>>
    BY <1>4, ShownIsShown, BlankIsShown DEF CollectSecret, UserDeletesSecret, aiven
  <2> QED
    BY <2>1 DEF Handover!Withdraw, Handover!Next
<1>5. CASE Tick
  BY <1>5 DEF Tick, cluster, aiven, shown, Handover!Tick, Handover!Next
<1>6. CASE UserTouchesSecret \/ UserSpoilsCandidate
  <2>1. Shown(secret') = Shown(secret) /\ UNCHANGED <<password, now>>
    BY <1>6, Copies DEF UserTouchesSecret, UserSpoilsCandidate, Shown, Secrets, aiven
  <2> QED
    BY <2>1, ShownIsShown DEF hvars
<1>7. CASE Others /\ ~UserDeletesSecret /\ ~UserTouchesSecret /\ ~UserSpoilsCandidate
  <2>1. ASSUME NEW i \in Intervals, UserCreates(i) \/ UserChangesInterval(i) PROVE UNCHANGED hvars
    BY <2>1 DEF UserCreates, UserChangesInterval, aiven, hvars, shown
  <2>2. ASSUME UserDeletes \/ ServiceMoves \/ ServiceStops PROVE UNCHANGED hvars
    BY <2>2 DEF UserDeletes, ServiceMoves, ServiceStops, cluster, aiven, hvars, shown
  <2>3. ASSUME NEW u \in Users, NEW p \in {0, NoAccount}, OthersChangeUser(u, p) PROVE Handover!Next
    <3>1. p \in {0, -1} /\ password' = [password EXCEPT ![u] = p] /\ UNCHANGED <<shown, now>>
      BY <2>3 DEF OthersChangeUser, cluster, shown, NoAccount
    <3> QED
      BY <3>1 DEF Handover!Interfere, Handover!Next
  <2> QED
    BY <1>7, <2>1, <2>2, <2>3 DEF Others
<1> QED
  BY <1>1, <1>2, <1>3, <1>4, <1>5, <1>6, <1>7 DEF Next, Reconcile

\* The rotation implements what its guide promises: users take turns, and nobody's
\* password changes while it is shown or within the shortest interval of the
\* switch away from it.
THEOREM ImplementsHandover == Spec => HandsOver
<1>1. Init => Handover!Init
  BY HandoverInit
<1>2. TypeOK /\ HandoverInv /\ [Next]_vars => [Handover!Next]_hvars
  BY HandoverStep
<1> QED
  BY <1>1, <1>2, HandoverInvCorrect, PTL DEF Spec, HandsOver, Handover!Spec, hvars

----------------------------------------------------------------------------
(* One object                                                              *)

LEMMA OneObjectStep == ASSUME TypeOK, HandoverInv, OneObject, [Next]_vars PROVE OneObject'
<1> SUFFICES ASSUME ~tampered' PROVE OneObject'
  BY DEF OneObject
<1>0. /\ ~tampered
      /\ secret \in Secrets /\ copy \in Secrets /\ cr \in Crs
      /\ crRevision + 1 # 0 /\ crRevision + 1 > 0 /\ secretRevision + 1 > 0
  <2>1. tampered' = tampered \/ tampered'
    BY DEF Next, Reconcile, Begin, ReadService, EnsureSecret, Prepare, SavePending, ResetPassword, Publish,
       PersistStatus, Crash, SyncCr, SyncSecret, CollectSecret, FinishDeletion, Tick, Others, UserCreates,
       UserChangesInterval, UserDeletes, UserDeletesSecret, UserTouchesSecret, UserSpoilsCandidate,
       OthersChangeUser, ServiceMoves, ServiceStops, history, vars
  <2>2. tampered \in BOOLEAN /\ tampered' \in BOOLEAN
    BY TypeStep DEF TypeOK, PastOK
  <2> QED
    BY <2>1, <2>2 DEF TypeOK, ObjectsOK
<1>1. CASE Begin \/ ReadService \/ Crash
  BY <1>0, <1>1 DEF OneObject, Begin, ReadService, Crash, Return, Fail, cluster
<1>2. CASE EnsureSecret
  <2>1. copy' = [NoSecret EXCEPT !.owner = obj.uid] => copy'.owner = obj.uid
    BY DEF NoSecret
  <2> QED
    BY <1>0, <1>2, <2>1 DEF OneObject, EnsureSecret, Return, Fail, cluster
<1>3. CASE Prepare
  <2>1. Fail \/ Return \/ (UNCHANGED obj /\ copy'.owner = copy.owner /\ pc = "prepare")
    <3> DEFINE refreshed == IF Published(copy) THEN Refreshed(copy) ELSE copy
               kept      == [refreshed EXCEPT !.desired = NoPair]
    <3>1. refreshed \in Secrets /\ refreshed.owner = copy.owner
      BY <1>0, RefreshedTypes DEF TypeOK, RunOK, Refreshed, Secrets
    <3>2. Candidate(refreshed).owner = copy.owner /\ kept.owner = copy.owner
      <4> HIDE DEF refreshed
      <4> QED
        BY <3>1 DEF Candidate, Secrets
    <3>3. Fail \/ Return \/ (UNCHANGED obj /\ copy' \in {Candidate(refreshed), kept} /\ pc = "prepare")
      BY <1>3 DEF Prepare
    <3> QED
      BY <3>2, <3>3
  <2>2. UNCHANGED cluster
    BY <1>3 DEF Prepare
  <2>3. pc # "idle"
    BY <1>3 DEF Prepare
  <2> QED
    BY <1>0, <2>1, <2>2, <2>3 DEF OneObject, Return, Fail, cluster
<1>4. CASE SavePending
  <2>1. UNCHANGED <<cr, cachedCr, obj>> /\ pc = "save"
    BY <1>4 DEF SavePending, Fail
  <2>2. CASE IsCurrent(copy) /\ Store(copy)
    <3>1. secret'.owner = copy.owner
      BY <1>0, <1>4, <2>1, <2>2, Stored DEF HandoverInv, WorkerSaves, SavePending
    <3>2. (pc' = "reset" /\ copy' = secret') \/ pc' = "status"
      BY <1>4 DEF SavePending, Fail
    <3> QED
      BY <1>0, <2>1, <3>1, <3>2 DEF OneObject
  <2>3. CASE secret' = secret /\ Fail
    BY <1>0, <2>1, <2>3 DEF OneObject, Fail
  <2> QED
    BY <1>4, <2>2, <2>3 DEF SavePending
<1>5. CASE ResetPassword
  <2>1. Fail \/ Return \/ (UNCHANGED obj /\ copy'.owner = copy.owner)
    <3> DEFINE u == copy.desired.user
               p == copy.desired.password
    <3>1. Refreshed(copy) \in Secrets /\ Refreshed(copy).owner = copy.owner
      BY <1>0, RefreshedTypes DEF TypeOK, RunOK, Refreshed, Secrets
    <3>2. \/ Fail
          \/ Return
          \/ /\ UNCHANGED obj
             /\ copy' = [Refreshed(copy) EXCEPT !.user = u, !.password = p, !.at = now, !.desired = NoPair]
      BY <1>5 DEF ResetPassword
    <3> HIDE DEF u, p
    <3> QED
      BY <3>1, <3>2 DEF Secrets
  <2>2. UNCHANGED cluster /\ pc = "reset"
    BY <1>5 DEF ResetPassword
  <2> QED
    BY <1>0, <2>1, <2>2 DEF OneObject, Return, Fail, cluster
<1>6. CASE Publish
  <2>1. /\ UNCHANGED <<cr, cachedCr, obj>> /\ pc = "publish" /\ pc' = "status"
    BY <1>6 DEF Publish, Fail
  <2>2. secret' = secret \/ secret'.owner = copy.owner
    <3>1. CASE Exists(secret) /\ IsCurrent(copy) /\ Store(copy)
      BY <1>0, <1>6, <3>1, Stored DEF Publish
    <3> QED
      BY <1>6, <3>1 DEF Publish
  <2> QED
    BY <1>0, <2>1, <2>2 DEF OneObject
<1>7. CASE PersistStatus
  <2>1. UNCHANGED <<cachedCr, secret>> /\ pc' = "idle" /\ pc = "status"
    BY <1>7 DEF PersistStatus, Return
  <2>2. cr' = cr \/ (cr'.uid = cr.uid /\ cr'.deleting = cr.deleting /\ Exists(cr'))
    <3>1. cr' = cr \/ cr' = [cr EXCEPT !.status = out, !.rv = crRevision + 1]
      BY <1>7 DEF PersistStatus
    <3> DEFINE r == crRevision + 1
    <3>2. r > 0 /\ r # 0
      BY <1>0
    <3> HIDE DEF r
    <3>3. cr' = cr \/ cr' = [cr EXCEPT !.status = out, !.rv = r]
      BY <3>1 DEF r
    <3> QED
      BY <1>0, <3>2, <3>3 DEF Crs, Exists
  <2> QED
    BY <1>0, <2>1, <2>2 DEF OneObject
<1>8. CASE SyncCr \/ SyncSecret \/ CollectSecret \/ FinishDeletion \/ Tick
  BY <1>0, <1>8 DEF SyncCr, SyncSecret, CollectSecret, FinishDeletion, Tick, OneObject, worker, cluster
<1>9. CASE Others
  <2>1. ASSUME NEW i \in Intervals, UserCreates(i) PROVE OneObject'
    BY <1>0, <2>1 DEF UserCreates, OneObject, worker, Exists, NoCr
  <2>2. ASSUME NEW i \in Intervals, UserChangesInterval(i) PROVE OneObject'
    <3>1. cr'.uid = cr.uid /\ cr'.deleting = cr.deleting /\ Exists(cr')
      BY <1>0, <2>2 DEF UserChangesInterval, Crs, Exists
    <3> QED
      BY <1>0, <2>2, <3>1 DEF UserChangesInterval, OneObject, worker
  <2>3. ASSUME UserTouchesSecret PROVE OneObject'
    <3>1. secret'.owner = secret.owner
      BY <1>0, <2>3 DEF UserTouchesSecret, Secrets
    <3> QED
      BY <1>0, <2>3, <3>1 DEF UserTouchesSecret, OneObject, worker
  <2>4. ASSUME UserDeletes \/ UserDeletesSecret \/ UserSpoilsCandidate PROVE FALSE
    BY <2>4 DEF UserDeletes, UserDeletesSecret, UserSpoilsCandidate
  <2>5. ASSUME \/ ServiceMoves \/ ServiceStops
               \/ \E u \in Users, p \in {0, NoAccount} : OthersChangeUser(u, p)
        PROVE  OneObject'
    BY <1>0, <2>5 DEF ServiceMoves, ServiceStops, OthersChangeUser, OneObject, cluster, worker
  <2> QED
    BY <1>9, <2>1, <2>2, <2>3, <2>4, <2>5 DEF Others
<1>10. CASE UNCHANGED vars
  BY <1>0, <1>10 DEF vars, OneObject
<1> QED
  BY <1>1, <1>2, <1>3, <1>4, <1>5, <1>6, <1>7, <1>8, <1>9, <1>10 DEF Next, Reconcile

----------------------------------------------------------------------------
(* Every password is recorded                                              *)

Recorded == PasswordsRecorded /\ CandidateIsSaved

LEMMA PairFields == ASSUME NEW d \in Pairs PROVE d = [user |-> d.user, password |-> d.password]
BY DEF Pairs

LEMMA RecordsStay ==
    ASSUME Recorded, UNCHANGED <<secret, password, former, tampered>>,
           UNCHANGED <<copy, pc>> \/ pc' \notin {"reset", "publish"}
    PROVE  Recorded'
BY DEF Recorded, PasswordsRecorded, CandidateIsSaved, IsCurrent, Refreshes

LEMMA RecordedPrepare == ASSUME TypeOK, HandoverInv, Recorded, Prepare PROVE Recorded'
<1>1. UNCHANGED <<secret, password, former, tampered>> /\ pc = "prepare"
  BY DEF Prepare, cluster, aiven, history
<1>2. CASE Fail \/ Return \/ pc' = "save"
  BY <1>1, <1>2, RecordsStay DEF Fail, Return
<1>3. CASE /\ ~hasPendingCredentials(copy)
           /\ copy' = [(IF Published(copy) THEN Refreshed(copy) ELSE copy) EXCEPT !.desired = NoPair]
  <2> DEFINE refreshed == IF Published(copy) THEN Refreshed(copy) ELSE copy
  <2>1. refreshed \in Secrets /\ Shown(refreshed) = Shown(copy) /\ refreshed.rv = copy.rv
    BY Copies, RefreshedTypes DEF TypeOK, RunOK, Refreshed, Shown, Secrets
  <2>2. copy' = [refreshed EXCEPT !.desired = NoPair]
    BY <1>3
  <2>3. Shown(copy') = Shown(copy) /\ copy'.rv = copy.rv
    <3> HIDE DEF refreshed
    <3> QED
      BY <2>1, <2>2 DEF Shown, Secrets
  <2>4. Refreshes'
    BY <1>1, <1>3, <2>3 DEF HandoverInv, WorkerPrepares, Refreshes, IsCurrent, hasPendingCredentials
  <2>5. CandidateIsSaved' \/ pc' = "reset"
    BY <2>4 DEF CandidateIsSaved
  <2>6. PasswordsRecorded'
    BY <1>1 DEF Recorded, PasswordsRecorded
  <2>7. pc' # "reset"
    BY DEF Prepare, Fail, Return
  <2> QED
    BY <2>5, <2>6, <2>7 DEF Recorded
<1> QED
  BY <1>2, <1>3 DEF Prepare

LEMMA RecordedSavePending == ASSUME TypeOK, HandoverInv, Recorded, SavePending PROVE Recorded'
<1>1. UNCHANGED <<cachedSecret, password, former, tampered>> /\ pc = "save"
  BY DEF SavePending, aiven, history
<1>2. CASE IsCurrent(copy) /\ Store(copy)
  <2>1. secret'.desired = copy.desired
    BY <1>1, <1>2, Stored, Copies DEF HandoverInv, WorkerSaves
  <2>2. ASSUME NEW u \in Users, password[u] > 0, secret.desired = [user |-> u, password |-> password[u]]
        PROVE  secret'.desired = secret.desired
    BY <1>1, <1>2, <2>1, <2>2 DEF HandoverInv, WorkerPrepares, hasPendingCredentials
  <2>3. PasswordsRecorded'
    BY <1>1, <2>2 DEF Recorded, PasswordsRecorded
  <2>4. (copy' = secret' /\ pc' = "reset") \/ pc' = "status"
    BY DEF SavePending, Fail
  <2> QED
    BY <2>3, <2>4 DEF Recorded, CandidateIsSaved
<1>3. CASE Fail /\ UNCHANGED secret
  BY <1>1, <1>3, RecordsStay DEF Fail
<1> QED
  BY <1>2, <1>3 DEF SavePending

LEMMA RecordedResetPassword == ASSUME TypeOK, HandoverInv, Recorded, ResetPassword PROVE Recorded'
<1> DEFINE u == copy.desired.user
           p == copy.desired.password
<1>1. UNCHANGED <<secret, former, tampered>> /\ pc = "reset"
  BY DEF ResetPassword, cluster, history
<1>2. copy \in Secrets /\ copy.desired = [user |-> u, password |-> p]
  BY Copies, PairFields DEF Secrets
<1>3. ~tampered => secret.desired = [user |-> u, password |-> p]
  BY <1>1, <1>2 DEF Recorded, CandidateIsSaved
<1>4. /\ password' = password \/ password' = [password EXCEPT ![u] = p]
      /\ password \in [Users -> Nat \cup {NoAccount}]
  BY DEF ResetPassword, TypeOK, ServiceOK
<1>5. PasswordsRecorded'
  <2> HIDE DEF u, p
  <2>1. ASSUME NEW v \in Users PROVE password'[v] = password[v] \/ (v = u /\ password'[v] = p)
    BY <1>4
  <2> QED
    BY <1>1, <1>3, <2>1 DEF Recorded, PasswordsRecorded
<1>6. CASE Fail \/ Return
  BY <1>5, <1>6 DEF Recorded, CandidateIsSaved, Fail, Return
<1>7. CASE /\ copy' = [Refreshed(copy) EXCEPT !.user = u, !.password = p, !.at = now, !.desired = NoPair]
           /\ pc' = "publish"
  <2>1. copy'.user = u /\ copy'.password = p
    <3>1. Refreshed(copy) \in Secrets
      BY <1>2, RefreshedTypes DEF TypeOK, RunOK
    <3> HIDE DEF u, p
    <3> QED
      BY <1>7, <3>1 DEF Secrets
  <2> HIDE DEF u, p
  <2> QED
    BY <1>1, <1>3, <1>5, <1>7, <2>1 DEF Recorded, CandidateIsSaved
<1> QED
  BY <1>6, <1>7 DEF ResetPassword

LEMMA RecordedPublish == ASSUME TypeOK, HandoverInv, HandoverInv', Recorded, Publish PROVE Recorded'
<1>1. UNCHANGED <<cachedSecret, password, tampered>> /\ pc = "publish" /\ pc' = "status"
  BY DEF Publish, aiven, Fail
<1>2. CASE /\ Exists(secret) /\ IsCurrent(copy) /\ Store(copy)
           /\ former' = [former EXCEPT ![copy.user] = copy.password]
  <2>1. Shown(secret') = Shown(copy) /\ Published(copy) /\ copy.user \in Users
    BY <1>1, <1>2, Stored, Copies DEF HandoverInv, WorkerPublishes, SoundCopies, SoundAt
  <2>2. password[copy.user] \in {copy.password, 0, NoAccount}
    BY <1>1, <2>1 DEF HandoverInv, PublishedWorks, Shown, Published
  <2>3. former \in [Users -> Nat]
    BY DEF TypeOK, PastOK
  <2>4. ASSUME ~tampered, NEW v \in Users, password[v] > 0 PROVE password[v] = former'[v]
    <3>1. CASE v = copy.user
      BY <1>2, <2>1, <2>2, <2>3, <2>4, <3>1 DEF NoAccount
    <3>2. CASE v # copy.user
      <4>1. former'[v] = former[v]
        BY <1>2, <2>3, <3>2
      <4>2. ~hasPendingCredentials(secret) \/ secret.desired.user = copy.user
        BY <1>1, <1>2, <2>4 DEF Recorded, CandidateIsSaved, Refreshes
      <4>3. secret.desired # [user |-> v, password |-> password[v]]
        BY <2>4, <3>2, <4>2 DEF hasPendingCredentials
      <4> QED
        BY <1>1, <2>4, <4>1, <4>3 DEF Recorded, PasswordsRecorded
    <3> QED
      BY <3>1, <3>2
  <2> QED
    BY <1>1, <2>4 DEF Recorded, PasswordsRecorded, CandidateIsSaved
<1>3. CASE UNCHANGED <<secret, former>>
  BY <1>1, <1>3, RecordsStay
<1> QED
  BY <1>2, <1>3 DEF Publish

LEMMA RecordedStep ==
    ASSUME TypeOK, HandoverInv, HandoverInv', OneObject, Recorded, [Next]_vars
    PROVE  Recorded'
<1>1. CASE Begin \/ ReadService \/ EnsureSecret \/ PersistStatus \/ Crash
  BY <1>1, RecordsStay
     DEF Begin, ReadService, EnsureSecret, PersistStatus, Crash, Return, Fail, cluster, aiven, history
<1>2. CASE Prepare \/ SavePending \/ ResetPassword \/ Publish
  BY <1>2, RecordedPrepare, RecordedSavePending, RecordedResetPassword, RecordedPublish
<1>3. CASE SyncCr \/ SyncSecret \/ FinishDeletion \/ Tick \/ UNCHANGED vars
  BY <1>3, RecordsStay
     DEF SyncCr, SyncSecret, FinishDeletion, Tick, vars, cluster, worker, aiven, history
<1>4. CASE CollectSecret
  BY <1>4 DEF CollectSecret, history, OneObject, Recorded, PasswordsRecorded, CandidateIsSaved
<1>5. CASE Others
  <2>1. ASSUME NEW i \in Intervals, UserCreates(i) \/ UserChangesInterval(i) PROVE Recorded'
    BY <2>1, RecordsStay DEF UserCreates, UserChangesInterval, worker, aiven, history
  <2>2. CASE UserDeletes \/ UserDeletesSecret \/ UserSpoilsCandidate
    BY <2>2 DEF UserDeletes, UserDeletesSecret, UserSpoilsCandidate, Recorded, PasswordsRecorded, CandidateIsSaved
  <2>3. CASE UserTouchesSecret
    <3>1. /\ UNCHANGED <<copy, pc, password, former, tampered>>
          /\ secret'.desired = secret.desired /\ secret'.rv = secretRevision + 1
      BY <2>3, Copies DEF UserTouchesSecret, worker, aiven, history, Secrets
    <3>2. copy.rv \in Nat /\ secretRevision \in Nat /\ copy.rv <= secretRevision
      BY Copies DEF HandoverInv, SecretVersions, Secrets
    <3>3. ~IsCurrent(copy)'
      BY <3>1, <3>2 DEF IsCurrent
    <3> QED
      BY <3>1, <3>3 DEF Recorded, PasswordsRecorded, CandidateIsSaved
  <2>4. CASE ServiceMoves \/ ServiceStops
    BY <2>4, RecordsStay DEF ServiceMoves, ServiceStops, cluster, worker, history
  <2>5. ASSUME NEW u \in Users, NEW p \in {0, NoAccount}, OthersChangeUser(u, p) PROVE Recorded'
    <3>1. UNCHANGED <<secret, copy, pc, former, tampered>> /\ password' = [password EXCEPT ![u] = p]
      BY <2>5 DEF OthersChangeUser, cluster, worker, history
    <3>2. password \in [Users -> Nat \cup {NoAccount}]
      BY DEF TypeOK, ServiceOK
    <3>3. ASSUME NEW v \in Users, password'[v] > 0 PROVE password'[v] = password[v]
      BY <2>5, <3>1, <3>2, <3>3 DEF NoAccount
    <3>4. PasswordsRecorded'
      BY <3>1, <3>3 DEF Recorded, PasswordsRecorded
    <3>5. CandidateIsSaved'
      BY <3>1 DEF Recorded, CandidateIsSaved, IsCurrent, Refreshes
    <3> QED
      BY <3>4, <3>5 DEF Recorded
  <2> QED
    BY <1>5, <2>1, <2>2, <2>3, <2>4, <2>5 DEF Others
<1> QED
  BY <1>1, <1>2, <1>3, <1>4, <1>5 DEF Next, Reconcile

\* A password that the rotation gave a user is shown, was shown last, or is the
\* saved candidate that the next reconcile takes up: a crash, a conflict or a
\* lost answer between the reset and the publication loses none.
THEOREM PasswordsKept == Spec => []PasswordsRecorded
<1>1. Init => OneObject /\ Recorded
  <2>1. ASSUME Init PROVE PasswordsRecorded
    BY <2>1 DEF Init, PasswordsRecorded
  <2>2. ASSUME Init PROVE OneObject
    <3>1. ~Exists(NoCr) /\ ~NoCr.deleting
      BY DEF NoCr, Exists
    <3> QED
      BY <2>2, <3>1, BlankFacts DEF Init, OneObject
  <2> QED
    BY <2>1, <2>2 DEF Init, Recorded, CandidateIsSaved
<1>2. TypeOK /\ HandoverInv /\ HandoverInv' /\ OneObject /\ Recorded /\ [Next]_vars
        => OneObject' /\ Recorded'
  BY OneObjectStep, RecordedStep
<1>3. Recorded => PasswordsRecorded
  BY DEF Recorded
<1> QED
  BY <1>1, <1>2, <1>3, HandoverInvCorrect, PTL DEF Spec
=============================================================================

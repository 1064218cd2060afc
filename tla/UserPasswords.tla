---------------------------- MODULE UserPasswords ----------------------------
(***************************************************************************)
(* The password of one Aiven user: declared in a source Secret, set at     *)
(* Aiven and published in connection Secrets by the ServiceUser or         *)
(* ClickhouseUser objects that manage the user, and pushed again by the    *)
(* controller that watches source Secrets (controllers/secret_watch_*.go,  *)
(* serviceuser_*.go, clickhouseuser_*.go).                                 *)
(*                                                                         *)
(* Objects are reconciled concurrently; one watch feeds the cache of them, *)
(* another that of the Secret.  The reconciler around them is              *)
(* ManagedReconciler's: a ClickHouse user's UUID is saved with the status, *)
(* the other marks with the annotations.  A deletion with an invalid token *)
(* (reconciler.go, reconcileDeletion) is left to ManagedReconciler.        *)
(***************************************************************************)
EXTENDS Integers, FiniteSets

CONSTANTS
    Objects,    \* the names of the objects
    Sources,    \* the passwords users put in the source Secret
    Setups      \* what to look at: [kind, objects, wants, source, builtIn,
                \* others, maxEdits, maxFaults]: the password in the source
                \* Secret at first, are there other clients of
                \* the Aiven user, and bounds on the steps of users and of
                \* those, and on failed calls and crashes

\* A spec: is there a connInfoSecretSource, the authentication method (0 is
\* not given), the access control rules.
Specs == [sourced: BOOLEAN, auth: Nat, acl: Nat]

ASSUME SourcesAssumption == Sources \subseteq 1 .. 9
ASSUME SetupsAssumption ==
    \A s \in Setups : /\ s.kind \in {"ServiceUser", "ClickhouseUser"}
                      /\ s.objects \subseteq Objects
                      /\ s.wants \subseteq Specs
                      /\ s.source \in Sources
                      /\ {s.builtIn, s.others} \subseteq BOOLEAN
                      /\ {s.maxEdits, s.maxFaults} \subseteq Nat

VARIABLES
    setup,     \* the kind, its objects and what they may want
    crs,       \* the objects in the API server
    cache,     \* the informer's copies of them
    queued,    \* the names in the workqueue
    work,      \* where the worker of each object is, with its copy
    secrets,   \* the password in each object's connection Secret
    source,    \* the password in the source Secret
    seen,      \* the informer's copy of it
    watch,     \* the source Secret is in the watch controller's queue
    toTrigger, \* the objects it still has to trigger
    user,      \* the user at Aiven
    made,      \* passwords Aiven or others made up so far
    edits,     \* steps of users and other clients so far
    faults,    \* failed calls and crashes so far
    lost,      \* history: why a new source password went unnoticed
    meddled,   \* history: another client changed the password
    unheard,   \* history: a password Aiven made up was not published, or a
               \* ClickHouse user's UUID not saved before a deletion could be read
    unseen     \* history: an object was deleted that no pass had seen yet

aiven    == <<user, made>>
objects  == <<crs, cache, queued>>
watcher  == <<seen, watch, toTrigger>>
bounds   == <<edits, faults>>
history  == <<lost, meddled, unheard, unseen>>
vars     == <<setup, objects, work, secrets, source, watcher, aiven, bounds, history>>

----------------------------------------------------------------------------
(* Values                                                                  *)

Absent     == 0   \* no Secret, no password in it
NoPassword == 0
Keep       == -1  \* nothing to publish: what is in the Secret stays
MadeUp(n)  == 10 + n

Records ==
    {c \in [uid: Nat, rv: Nat, gen: Nat \ {0}, spec: Specs, deleting: BOOLEAN,
            finalizer: BOOLEAN, known: BOOLEAN, running: BOOLEAN, processed: Nat, stamp: Nat] :
        c.processed <= c.gen}
Fresh(uid, spec) ==
    [uid |-> uid, rv |-> 1, gen |-> 1, spec |-> spec, deleting |-> FALSE,
     finalizer |-> FALSE, known |-> FALSE, running |-> FALSE, processed |-> 0, stamp |-> 0]
NoObject  == Fresh(0, [sourced |-> FALSE, auth |-> 0, acl |-> 0])
Exists(c) == c.uid # 0
IsCurrent(o, c) == Exists(c) /\ c.uid = crs[o].uid /\ c.rv = crs[o].rv
Write(c)  == [c EXCEPT !.rv = @ + 1]
IsReadyToUse(c) == c.running /\ c.processed = c.gen

KindIs(k) == setup.kind = k

\* pw is what the user logs in with, shown what Aiven's API answers: nothing
\* for a password changed in the database, or (lag) for one just reset.
Users == [there: BOOLEAN, pw: Nat, shown: Nat, lag: BOOLEAN, auth: Nat, acl: Nat]
NoUser == [there |-> FALSE, pw |-> 0, shown |-> 0, lag |-> FALSE, auth |-> 0, acl |-> 0]
NewUser(pw, auth, acl) ==
    [there |-> TRUE, pw |-> pw, shown |-> pw, lag |-> FALSE, auth |-> auth, acl |-> acl]

PCs   == {"idle", "hold", "observe", "create", "update", "reset", "fetch", "publish", "persist",
          "annotate", "delete", "unfinalize"}
Works == [pc: PCs, orig: Records, obj: Records, pw: Nat \cup {Keep}, retry: BOOLEAN]
Idle  == [pc |-> "idle", orig |-> NoObject, obj |-> NoObject, pw |-> Keep, retry |-> FALSE]

Init ==
    /\ setup \in Setups
    /\ crs = [o \in Objects |-> NoObject]
    /\ cache = crs
    /\ queued = {}
    /\ work = [o \in Objects |-> Idle]
    /\ secrets = [o \in Objects |-> Absent]
    /\ source = setup.source
    /\ seen = source
    /\ watch = FALSE
    /\ toTrigger = {}
    /\ user = IF setup.builtIn THEN NewUser(MadeUp(0), 1, 1) ELSE NoUser
    /\ made = 1
    /\ edits = 0
    /\ faults = 0
    /\ lost = {}
    /\ meddled = FALSE
    /\ unheard = FALSE
    /\ unseen = FALSE

----------------------------------------------------------------------------
(* A worker of the kind, on object o                                       *)

Fault ==
    /\ faults < setup.maxFaults
    /\ faults' = faults + 1

Unheard == unheard' = (unheard \/ KindIs("ClickhouseUser"))

At(o, pc) == work[o].pc = pc
Me(o)     == work[o].obj

Goto(o, pc, c, pw, retry) ==
    /\ work' = [work EXCEPT ![o] = [@ EXCEPT !.pc = pc, !.obj = c, !.pw = pw, !.retry = retry]]
    /\ UNCHANGED queued

Return(o, requeue) ==
    /\ work' = [work EXCEPT ![o] = Idle]
    /\ queued' = queued \cup (IF requeue THEN {o} ELSE {})

\* The pass ends: what it changed of the object, if anything, is to be saved.
Finish(o, c) == IF c = work[o].orig THEN Return(o, TRUE)
               ELSE Goto(o, "persist", c, Keep, FALSE)

Begin(o) ==
    /\ At(o, "idle")
    /\ o \in queued
    /\ queued' = queued \ {o}
    /\ LET c == cache[o]
       IN work' = IF ~Exists(c) THEN work
                  ELSE [work EXCEPT ![o] = [Idle EXCEPT !.pc = IF c.deleting THEN "delete"
                                                               ELSE IF c.finalizer THEN "observe"
                                                               ELSE "hold",
                                                        !.orig = c, !.obj = c]]
    /\ UNCHANGED <<setup, crs, cache, secrets, source, watcher, aiven, bounds, history>>

\* ensureFinalizer: on the object as the cache has it by now.
Hold(o) ==
    /\ At(o, "hold")
    /\ LET c == cache[o]
           held == IF c.finalizer THEN c ELSE Write([c EXCEPT !.finalizer = TRUE])
       IN \/ /\ IsCurrent(o, c)
             /\ crs' = [crs EXCEPT ![o] = held]
             /\ work' = [work EXCEPT ![o] = [@ EXCEPT !.pc = "observe", !.orig = held, !.obj = held]]
             /\ UNCHANGED <<queued, faults>>
          \/ ~IsCurrent(o, c) /\ Return(o, TRUE) /\ UNCHANGED <<crs, faults>>
          \/ Fault /\ Return(o, TRUE) /\ UNCHANGED crs
    /\ UNCHANGED <<setup, cache, secrets, source, watcher, aiven, edits, history>>

\* GetPasswordFromSecret, from the cache.
Declared(c)   == IF c.spec.sourced THEN seen ELSE NoPassword
Undeclared(c) == c.spec.sourced /\ seen = Absent

AuthDiffers(c) == c.spec.auth # 0 /\ user.auth # c.spec.auth
AclDiffers(c)  == c.spec.acl # 0 /\ user.acl # c.spec.acl

\* An empty password is pushed again if one is declared.  Mutant: it is not.
PushesNever(c) == FALSE
Pushes(c)      == user.shown = NoPassword /\ c.spec.sourced

ObserveServiceUser(o) ==
    LET c == Me(o)
    IN IF Pushes(c) \/ ~IsReadyToUse(c) \/ AuthDiffers(c) \/ AclDiffers(c)
       THEN Goto(o, "update", c, Keep, FALSE)
       ELSE Goto(o, "publish", c, user.shown, FALSE)

\* ClickhouseUser: Aiven tells no password, so the declared one is published
\* and its being set is left to the annotations.
ObserveClickhouseUser(o) ==
    LET c == [Me(o) EXCEPT !.known = TRUE]
    IN IF Undeclared(c) THEN Finish(o, c)
       ELSE IF ~IsReadyToUse(c) THEN Goto(o, "update", c, Keep, FALSE)
       ELSE Goto(o, "publish", c, IF c.spec.sourced THEN seen ELSE Keep, FALSE)

Observe(o) ==
    /\ At(o, "observe")
    /\ \/ /\ user.there
          /\ IF KindIs("ServiceUser") THEN ObserveServiceUser(o) ELSE ObserveClickhouseUser(o)
          /\ UNCHANGED faults
       \/ ~user.there /\ Goto(o, "create", Me(o), Keep, FALSE) /\ UNCHANGED faults
       \/ Fault /\ Finish(o, Me(o))
    /\ UNCHANGED <<setup, crs, cache, secrets, source, watcher, aiven, edits, history>>

\* A user that had disappeared is made again without the declared password, of
\* an object that counts as up to date.
HalfMade(o) == lost \cup {w \in {"half made"} : IsReadyToUse(crs[o]) /\ crs[o].spec.sourced}

\* Create.  A ServiceUser is made with a password Aiven makes up, set to the
\* declared one by a second call; a ClickHouse user with the declared one, and
\* if the answer does not tell the password, that is reset.
Create(o) ==
    /\ At(o, "create")
    /\ LET c  == [Me(o) EXCEPT !.known = @ \/ KindIs("ClickhouseUser")]
           pw == IF Declared(c) # NoPassword /\ KindIs("ClickhouseUser") THEN Declared(c)
                 ELSE MadeUp(made)
       IN \/ /\ Undeclared(c) \/ user.there
             /\ Finish(o, Me(o))
             /\ UNCHANGED <<aiven, faults, unheard, lost>>
          \/ /\ ~Undeclared(c) /\ ~user.there
             /\ user' = NewUser(pw, IF c.spec.auth = 0 THEN 1 ELSE c.spec.auth,
                                IF c.spec.acl = 0 THEN 1 ELSE c.spec.acl)
             /\ made' = made + 1
             /\ \/ /\ UNCHANGED <<faults, unheard>>
                   /\ \/ Goto(o, "reset", c, Declared(c), TRUE)
                      \/ /\ KindIs("ClickhouseUser")
                         /\ Goto(o, "publish", [c EXCEPT !.running = TRUE], pw, FALSE)
                   /\ UNCHANGED lost
                \/ Fault /\ Finish(o, Me(o)) /\ Unheard /\ lost' = HalfMade(o)
          \/ Fault /\ Finish(o, Me(o)) /\ UNCHANGED <<aiven, unheard, lost>>
    /\ UNCHANGED <<setup, crs, cache, secrets, source, watcher, edits, meddled, unseen>>

\* Update, up to the reset of the password.  ServiceUser sets the access
\* control, and looks up the password to keep if the authentication changes;
\* an object without a source leaves a ClickHouse user alone.
Update(o) ==
    /\ At(o, "update")
    /\ LET c  == Me(o)
           pw == IF AuthDiffers(c) /\ Declared(c) = NoPassword THEN user.shown ELSE Declared(c)
           controls == KindIs("ServiceUser") /\ c.spec.acl # 0
           ready == [c EXCEPT !.running = TRUE]
       IN \/ /\ Undeclared(c) \/ ~user.there
             /\ Finish(o, c)
             /\ UNCHANGED <<user, faults>>
          \/ /\ ~Undeclared(c) /\ user.there
             /\ user' = IF controls THEN [user EXCEPT !.acl = c.spec.acl] ELSE user
             /\ IF KindIs("ClickhouseUser")
                THEN IF c.spec.sourced THEN Goto(o, "reset", c, pw, FALSE)
                     ELSE Goto(o, "publish", ready, Keep, FALSE)
                ELSE IF AuthDiffers(c) /\ pw = NoPassword THEN Finish(o, c)
                     ELSE Goto(o, "reset", c, pw, FALSE)
             /\ UNCHANGED faults
          \/ /\ Fault
             /\ \/ UNCHANGED user
                \/ controls /\ user.there /\ user' = [user EXCEPT !.acl = c.spec.acl]
             /\ Finish(o, c)
    /\ UNCHANGED <<setup, crs, cache, secrets, source, watcher, made, edits, history>>

\* Aiven sets a password.
SetPassword(pw, auth) ==
    user' = [user EXCEPT !.pw = pw, !.shown = pw, !.lag = FALSE,
                         !.auth = IF auth = 0 THEN @ ELSE auth]

\* Its API shows none for longer than fetchUser is ready to wait.
SetPasswordLate(pw, auth) ==
    user' = [user EXCEPT !.pw = pw, !.shown = NoPassword, !.lag = TRUE,
                         !.auth = IF auth = 0 THEN @ ELSE auth]

\* setAivenPasswordIfProvided, ServiceClickHousePasswordReset.
Reset(o) ==
    /\ At(o, "reset")
    /\ LET c     == Me(o)
           pw    == work[o].pw
           ready == [c EXCEPT !.running = TRUE]
       IN \/ /\ KindIs("ServiceUser") /\ pw = NoPassword
             /\ Goto(o, "fetch", ready, Keep, work[o].retry)
             /\ UNCHANGED <<aiven, faults, unheard, lost>>
          \/ /\ KindIs("ServiceUser") /\ pw # NoPassword /\ user.there
             /\ UNCHANGED <<made, unheard, lost>>
             /\ \/ /\ SetPassword(pw, c.spec.auth)
                   /\ \/ Goto(o, "fetch", ready, Keep, TRUE) /\ UNCHANGED faults
                      \/ Fault /\ Finish(o, c)
                \/ Fault /\ SetPasswordLate(pw, c.spec.auth) /\ Goto(o, "fetch", ready, Keep, TRUE)
          \/ /\ KindIs("ClickhouseUser") /\ user.there
             /\ LET new == IF pw = NoPassword THEN MadeUp(made) ELSE pw
                IN /\ SetPassword(new, 0)
                   /\ made' = IF pw = NoPassword THEN made + 1 ELSE made
                   /\ UNCHANGED lost
                   /\ \/ Goto(o, "publish", ready, new, FALSE) /\ UNCHANGED <<faults, unheard>>
                      \/ Fault /\ Finish(o, c) /\ Unheard
          \/ /\ pw # NoPassword \/ KindIs("ClickhouseUser")
             /\ \/ ~user.there /\ Finish(o, c) /\ UNCHANGED <<faults, unheard, lost>>
                \/ /\ Fault
                   /\ Finish(o, c)
                   /\ Unheard
                   /\ lost' = IF work[o].retry THEN HalfMade(o) ELSE lost
             /\ UNCHANGED aiven
    /\ UNCHANGED <<setup, crs, cache, secrets, source, watcher, edits, meddled, unseen>>

\* fetchUser, after Create or Update of a ServiceUser: no password, when one
\* was just set, is a precondition to wait for.
Fetch(o) ==
    /\ At(o, "fetch")
    /\ \/ /\ ~user.there \/ (work[o].retry /\ user.shown = NoPassword)
          /\ Finish(o, Me(o))
          /\ UNCHANGED faults
       \/ /\ user.there
          /\ work[o].retry => user.shown # NoPassword
          /\ Goto(o, "publish", Me(o), user.shown, FALSE)
          /\ UNCHANGED faults
       \/ Fault /\ Finish(o, Me(o))
    /\ UNCHANGED <<setup, crs, cache, secrets, source, watcher, aiven, edits, history>>

\* Details without a password leave the one in the Secret.  Mutant: they do not.
PublishedBlindly(o) == work[o].pw
Published(o)        == IF work[o].pw = Keep THEN secrets[o] ELSE work[o].pw

\* publishSecretDetails and completeReconcileSuccess.
Publish(o) ==
    /\ At(o, "publish")
    /\ \/ /\ secrets' = [secrets EXCEPT ![o] = Published(o)]
          /\ Finish(o, [Me(o) EXCEPT !.processed = Me(o).gen])
          /\ lost' = lost \cup {w \in {"cleared"} : /\ Me(o).spec.sourced /\ ~crs[o].spec.sourced
                                                   /\ work[o].pw # user.pw}
          /\ UNCHANGED <<faults, unheard>>
       \/ Fault /\ Finish(o, Me(o)) /\ Unheard /\ UNCHANGED <<secrets, lost>>
    /\ UNCHANGED <<setup, crs, cache, source, watcher, aiven, edits, meddled, unseen>>

\* persistReconcileState, first part: the status, with a ClickHouse user's UUID,
\* refused if the object has changed since it was read.  The annotations follow,
\* if they have changed.  (A pass on a copy that is being deleted already saves a
\* UUID that the pass that deletes may not see.)
Identified(o) == Write([crs[o] EXCEPT !.known = Me(o).known])

Persist(o) ==
    /\ At(o, "persist")
    /\ \/ /\ IsCurrent(o, Me(o))
          /\ crs' = [crs EXCEPT ![o] = Identified(o)]
          /\ unheard' = (unheard \/ (Me(o).known /\ ~crs[o].known /\ crs[o].deleting))
          /\ \/ Write(Me(o)) = Identified(o) /\ Return(o, TRUE)
             \/ /\ Write(Me(o)) # Identified(o)
                /\ work' = [work EXCEPT ![o] = [@ EXCEPT !.pc = "annotate", !.orig = Identified(o),
                                                         !.obj = Write(Me(o))]]
                /\ UNCHANGED queued
          /\ UNCHANGED faults
       \/ /\ ~IsCurrent(o, Me(o))
          /\ unheard' = (unheard \/ (KindIs("ClickhouseUser") /\ ~crs[o].known))
          /\ Return(o, TRUE)
          /\ UNCHANGED <<crs, faults>>
       \/ Fault /\ Unheard /\ Return(o, TRUE) /\ UNCHANGED crs
    /\ UNCHANGED <<setup, cache, secrets, source, watcher, aiven, edits, lost, meddled, unseen>>

\* Second part: the patch of the annotations, refused if the object has changed
\* since its status was saved.
Annotate(o) ==
    /\ At(o, "annotate")
    /\ \/ /\ IsCurrent(o, Me(o))
          /\ crs' = [crs EXCEPT ![o] = Write([@ EXCEPT !.running = Me(o).running,
                                                       !.processed = Me(o).processed])]
          /\ UNCHANGED faults
       \/ ~IsCurrent(o, Me(o)) /\ UNCHANGED <<crs, faults>>
       \/ Fault /\ UNCHANGED crs
    /\ Return(o, TRUE)
    /\ UNCHANGED <<setup, cache, secrets, source, watcher, aiven, edits, history>>

\* findDuplicate: another object that is not being deleted, in the cache.
\* Mutant: one being deleted counts.
FindAny(o)       == \E p \in Objects \ {o} : Exists(cache[p])
FindDuplicate(o) == \E p \in Objects \ {o} : Exists(cache[p]) /\ ~cache[p].deleting

\* Delete, and the removal of the finalizer if it succeeds or is skipped.
Delete(o) ==
    /\ At(o, "delete")
    /\ \/ /\ \/ setup.builtIn
             \/ KindIs("ServiceUser") /\ FindDuplicate(o)
             \/ KindIs("ClickhouseUser") /\ ~Me(o).known
          /\ Goto(o, "unfinalize", Me(o), Keep, FALSE)
          /\ UNCHANGED <<user, faults>>
       \/ /\ ~setup.builtIn
          /\ KindIs("ServiceUser") => ~FindDuplicate(o)
          /\ KindIs("ClickhouseUser") => Me(o).known
          /\ user' = NoUser
          /\ \/ Goto(o, "unfinalize", Me(o), Keep, FALSE) /\ UNCHANGED faults
             \/ Fault /\ Finish(o, Me(o))
       \/ Fault /\ Finish(o, Me(o)) /\ UNCHANGED user
    /\ UNCHANGED <<setup, crs, cache, secrets, source, watcher, made, edits, history>>

\* removeFinalizer, on the object as the cache has it by now, even a new
\* incarnation.  A connection Secret goes with its owner.
RemoveFinalizer(o) ==
    /\ At(o, "unfinalize")
    /\ \/ /\ IsCurrent(o, cache[o])
          /\ IF ~crs[o].finalizer THEN UNCHANGED <<crs, secrets>>
             ELSE IF crs[o].deleting
             THEN /\ crs' = [crs EXCEPT ![o] = NoObject]
                  /\ secrets' = [secrets EXCEPT ![o] = Absent]
             ELSE /\ crs' = [crs EXCEPT ![o] = Write([@ EXCEPT !.finalizer = FALSE])]
                  /\ UNCHANGED secrets
          /\ Return(o, FALSE)
          /\ UNCHANGED faults
       \/ /\ ~IsCurrent(o, cache[o])
          /\ Return(o, Exists(cache[o]))
          /\ UNCHANGED <<crs, secrets, faults>>
       \/ Fault /\ Return(o, TRUE) /\ UNCHANGED <<crs, secrets>>
    /\ UNCHANGED <<setup, cache, source, watcher, aiven, edits, history>>

----------------------------------------------------------------------------
(* SecretWatchController                                                   *)

\* Something a new password could be missed by: an object that counts as
\* processed, or may soon.
CanMiss(o) == Exists(crs[o]) /\ (IsReadyToUse(crs[o]) \/ ~At(o, "idle"))
Missed(why, O) == lost \cup {w \in {why} : \E o \in O : CanMiss(o)}

\* The watch shows the Secret.  Only an update that changes the data counts:
\* one that is created again does not.
SyncSource ==
    /\ seen # source
    /\ seen' = source
    /\ watch' = (watch \/ (seen # Absent /\ source # Absent))
    /\ lost' = IF seen = Absent THEN Missed("recreated", Objects) ELSE lost
    /\ UNCHANGED <<setup, objects, work, secrets, source, toTrigger, aiven, bounds, meddled, unheard,
                   unseen>>

\* Reconcile, findResourcesUsingSecret: the dependents the cache shows.
FindDependents ==
    /\ watch
    /\ toTrigger = {}
    /\ watch' = FALSE
    /\ toTrigger' = IF seen = Absent THEN {}
                    ELSE {o \in Objects : Exists(cache[o]) /\ cache[o].spec.sourced}
    /\ UNCHANGED <<setup, objects, work, secrets, source, seen, aiven, bounds, history>>

\* What the patch does: a merge patch holds what differs from the copy, so the
\* annotation is removed only if the copy has it.  Mutant: only the time is set.
StampOnly(c, o, t) == [crs[o] EXCEPT !.stamp = t]
Patched(c, o, t) ==
    [crs[o] EXCEPT !.processed = IF c.processed # 0 THEN 0 ELSE @,
                   !.stamp     = IF c.stamp # t THEN t ELSE @]

\* triggerReconciliation, with the time in whole seconds: that of the latest
\* trigger, or a later one.  One that fails is logged and forgotten.
Trigger(o) ==
    /\ o \in toTrigger
    /\ toTrigger' = toTrigger \ {o}
    /\ \/ /\ Exists(cache[o]) /\ Exists(crs[o])
          /\ \E t \in {crs[o].stamp, crs[o].stamp + 1} \ {0} :
             LET new == Patched(cache[o], o, t)
             IN IF new = crs[o]
                THEN lost' = Missed("same second", {o}) /\ UNCHANGED crs
                ELSE /\ crs' = [crs EXCEPT ![o] = Write(new)]
                     /\ lost' = lost \cup {w \in {"outdated"} : crs[o].processed # 0
                                                               /\ cache[o].processed = 0}
          /\ UNCHANGED faults
       \/ ~(Exists(cache[o]) /\ Exists(crs[o])) /\ UNCHANGED <<crs, lost, faults>>
       \/ Fault /\ lost' = Missed("failed", {o}) /\ UNCHANGED crs
    /\ UNCHANGED <<setup, cache, queued, work, secrets, source, seen, watch, aiven, edits,
                   meddled, unheard, unseen>>

----------------------------------------------------------------------------
(* The cluster, its users, other clients and Aiven                         *)

\* The manager stops and starts again, and lists everything; that makes no
\* update of a Secret.
Crash ==
    /\ Fault
    /\ cache' = crs
    /\ queued' = {o \in Objects : Exists(crs[o])}
    /\ work' = [o \in Objects |-> Idle]
    /\ seen' = source
    /\ watch' = FALSE
    /\ toTrigger' = {}
    /\ lost' = (IF watch \/ toTrigger # {} \/ seen # source THEN Missed("restart", Objects)
                ELSE lost)
               \cup UNION {HalfMade(o) : o \in {p \in Objects : At(p, "reset") /\ work[p].retry}}
    /\ Unheard
    /\ UNCHANGED <<setup, crs, secrets, source, aiven, edits, meddled, unseen>>

SyncCache ==
    /\ cache # crs
    /\ cache' = crs
    /\ queued' = queued \cup {o \in Objects : crs[o] # cache[o]}
    /\ UNCHANGED <<setup, crs, work, secrets, source, watcher, aiven, bounds, history>>

\* A password just set becomes visible.
AivenProgress ==
    /\ user.lag
    /\ user' = [user EXCEPT !.lag = FALSE, !.shown = user.pw]
    /\ UNCHANGED <<setup, objects, work, secrets, source, watcher, made, bounds, history>>

Edit ==
    /\ edits < setup.maxEdits
    /\ edits' = edits + 1
    /\ UNCHANGED <<setup, work, secrets, faults, unheard>>

UserCreates(o) ==
    /\ Edit
    /\ o \in setup.objects /\ ~Exists(crs[o])
    /\ \E s \in setup.wants : crs' = [crs EXCEPT ![o] = Fresh(edits', s)]
    /\ UNCHANGED <<cache, queued, source, watcher, aiven, lost, meddled, unseen>>

Revised(c, spec) == Write([c EXCEPT !.spec = spec, !.gen = @ + 1])
Deleted(c)       == Write([c EXCEPT !.deleting = TRUE, !.gen = @ + 1])

UserEditsSpec(o) ==
    /\ Edit
    /\ Exists(crs[o]) /\ ~crs[o].deleting
    /\ \E s \in setup.wants \ {crs[o].spec} :
          /\ crs' = [crs EXCEPT ![o] = Revised(crs[o], s)]
          /\ lost' = IF ~s.sourced /\ secrets[o] # user.pw THEN lost \cup {"cleared"} ELSE lost
    /\ UNCHANGED <<cache, queued, source, watcher, aiven, meddled, unseen>>

\* Without the finalizer the object is gone at once.
UserDeletes(o) ==
    /\ Edit
    /\ Exists(crs[o]) /\ ~crs[o].deleting
    /\ crs' = [crs EXCEPT ![o] = IF crs[o].finalizer THEN Deleted(crs[o]) ELSE NoObject]
    /\ unseen' = (unseen \/ ~crs[o].finalizer)
    /\ UNCHANGED <<cache, queued, source, watcher, aiven, lost, meddled>>

UserChangesSource ==
    /\ Edit
    /\ \E s \in setup.wants : s.sourced
    /\ \E s \in (Sources \cup {Absent}) \ {source} : source' = s
    /\ UNCHANGED <<objects, watcher, aiven, lost, meddled, unseen>>

\* ALTER USER in the database: the API has no password to show.
OthersChangePassword ==
    /\ Edit
    /\ setup.others /\ user.there
    /\ user' = [user EXCEPT !.pw = MadeUp(made), !.shown = NoPassword, !.lag = FALSE]
    /\ made' = made + 1
    /\ meddled' = TRUE
    /\ UNCHANGED <<objects, source, watcher, lost, unseen>>

OthersDeleteUser ==
    /\ Edit
    /\ setup.others /\ user.there /\ ~setup.builtIn
    /\ user' = NoUser
    /\ UNCHANGED <<objects, source, watcher, made, lost, meddled, unseen>>

----------------------------------------------------------------------------
Reconcile(o) == \/ Begin(o) \/ Hold(o) \/ Observe(o) \/ Create(o) \/ Update(o) \/ Reset(o) \/ Fetch(o)
                \/ Publish(o) \/ Persist(o) \/ Annotate(o) \/ Delete(o) \/ RemoveFinalizer(o)

WatchSecret == FindDependents \/ \E o \in Objects : Trigger(o)

Others == \/ \E o \in Objects : UserCreates(o) \/ UserEditsSpec(o) \/ UserDeletes(o)
          \/ UserChangesSource \/ OthersChangePassword \/ OthersDeleteUser

Next == \/ \E o \in Objects : Reconcile(o)
        \/ WatchSecret \/ Crash \/ SyncCache \/ SyncSource \/ AivenProgress \/ Others

Spec == Init /\ [][Next]_vars

\* A worker takes every queued object, watches deliver, Aiven finishes.
FairSpec == /\ Spec
            /\ \A o \in Objects : WF_vars(Reconcile(o))
            /\ WF_vars(WatchSecret) /\ WF_vars(SyncCache) /\ WF_vars(SyncSource)
            /\ WF_vars(AivenProgress)

----------------------------------------------------------------------------
(* Properties                                                              *)

TypeOK ==
    /\ setup \in Setups
    /\ crs \in [Objects -> Records] /\ cache \in [Objects -> Records]
    /\ queued \subseteq Objects /\ toTrigger \subseteq Objects
    /\ work \in [Objects -> Works]
    /\ \A o \in Objects : At(o, "reset") => work[o].pw \in Nat
    /\ secrets \in [Objects -> Nat]
    /\ {source, seen} \subseteq Sources \cup {Absent}
    /\ user \in Users /\ (user.lag => user.shown = NoPassword)
    /\ {made, edits, faults} \subseteq Nat
    /\ {watch, meddled, unheard, unseen} \subseteq BOOLEAN
    /\ lost \subseteq {"recreated", "same second", "outdated", "failed", "restart", "half made",
                     "cleared"}

Live    == {o \in Objects : Exists(crs[o]) /\ ~crs[o].deleting}
Alone(o) == setup.objects = {o}

\* Nothing more to come: the caches are current and the watch has triggered.
Quiet(o) == /\ seen = source /\ ~watch /\ toTrigger = {}
            /\ At(o, "idle")

\* A source password is not forgotten: once the watch has gone quiet, an object
\* that has the user to itself and counts as up to date has set it at Aiven, save
\* for the ways to miss it that lost names, and for what other clients have done.
\* (Of two objects that share a user, a pass of the one that read the password
\* before may set it after the other has set the new one.)
RotationIsNotForgotten ==
    \A o \in Objects :
        Alone(o) /\ Quiet(o) /\ IsReadyToUse(crs[o]) /\ crs[o].spec.sourced
        /\ source # Absent /\ user.there /\ lost = {} /\ ~meddled
        => user.pw = source

\* The last of the objects that share a user deletes it, whatever the cache
\* showed each of them of the others; not a built-in one, not a ClickHouse user
\* whose UUID was not saved in time, and not one left to an object that was
\* deleted before a pass had put the finalizer on it.
LastOneDeletes ==
    /\ \A o \in Objects : ~Exists(crs[o]) /\ At(o, "idle")
    /\ ~setup.builtIn
    /\ ~unseen
    /\ KindIs("ClickhouseUser") => ~unheard
    => ~user.there

\* What nobody can repair: no password to keep while the authentication
\* changes, or no source Secret.
Stuck(o) == \/ crs[o].spec.sourced /\ source = Absent
            \/ KindIs("ServiceUser") /\ user.shown = NoPassword /\ AuthDiffers(crs[o])

Settled(o) == /\ user.there
              /\ IsReadyToUse(crs[o])
              /\ secrets[o] = IF KindIs("ServiceUser") /\ ~crs[o].spec.sourced THEN user.shown
                              ELSE user.pw

\* Once left alone, every object publishes the password its user has, or as
\* much of it as Aiven tells if none is declared.  A
\* ClickHouse user's cannot be read back, so one that was missed or not heard
\* of stays wrong in the Secret.
Settles ==
    <>[](\A o \in Live : \/ Settled(o) \/ Stuck(o)
                         \/ KindIs("ClickhouseUser") /\ (lost # {} \/ meddled \/ unheard))

\* docs/docs/controllers/clickhouseuser.md: "updating the password in the
\* source Secret automatically triggers reconciliation and rotates the
\* ClickHouse user password to the new value".  No call fails, the operator is
\* not restarted and the Secret is not created anew.
UpdatesReachAiven ==
    <>[](/\ lost \subseteq {"outdated", "same second"} /\ faults = 0 /\ ~meddled
         => \A o \in Live : crs[o].spec.sourced /\ source # Absent => user.pw = source)
=============================================================================

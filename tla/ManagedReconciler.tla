------------------------- MODULE ManagedReconciler -------------------------
(***************************************************************************)
(* The generic reconciler of controllers/reconciler.go, which drives every *)
(* kind except the nine service kinds and ServiceUserRotation, together    *)
(* with the AivenController contract of controllers/client.go.             *)
(*                                                                         *)
(* One custom resource (one workqueue key) is followed from its creation   *)
(* by a user to its removal, through several incarnations if the user      *)
(* creates it again.  The Kubernetes API server keeps the object and a     *)
(* version that every write changes; the operator reads a cache that lags  *)
(* behind it, works on a copy, and its writes are refused when the copy is *)
(* not the current version.  Every call to the API server or to Aiven is a *)
(* step of its own, so users, the Aiven back end, the garbage collector    *)
(* and a crash of the operator may come between any two of them.           *)
(*                                                                         *)
(* Abstracted: the contents of a spec (a value of Specs), the wording of   *)
(* conditions and events, requeue delays (a requeued key is simply         *)
(* pending), and leader election (one worker per key: one active manager,  *)
(* and controller-runtime never runs one key twice at a time).             *)
(***************************************************************************)
EXTENDS Integers, ManagedKinds

CONSTANTS
    Specs,        \* the values a user can put in .spec
    NoSpec,       \* the spec of what does not exist
    Setups        \* the kinds, each with the bounds it is looked at under

ASSUME SpecsAssumption == NoSpec \notin Specs
ASSUME SetupAssumption == Setups \subseteq [kind: Kinds, maxEdits: Nat, maxFaults: Nat]

VARIABLES
    setup,     \* the kind, and the bounds on edits and faults
    cr,        \* the object in the API server
    lastUid,   \* the uid of the latest incarnation
    cache,     \* the informer's copy of the object
    queued,    \* the key is in the workqueue
    pc,        \* where the worker is in Reconcile
    obj,       \* the copy the worker read: "orig" of persistReconcileState
    out,       \* the status and annotations the worker has computed
    details,   \* the SecretDetails to publish, by the spec they come from
    remote,    \* the resource at Aiven
    secret,    \* the connection Secret
    token,     \* the state of the API token in the auth Secret
    edits,     \* steps of users and other Aiven clients so far
    faults,    \* failed calls and crashes so far
    fate,      \* history: who answers for the remote resource
    drifted,   \* history: changed by another client since the last write
    protected  \* history: deleted under a policy or a protection, and under one since

worker  == <<pc, obj, out, details>>
history == <<fate, drifted, protected>>
vars    == <<setup, cr, lastUid, cache, queued, pc, obj, out, details, remote, secret,
             token, edits, faults, fate, drifted, protected>>

\* Its traits.
Kind == setup.kind

----------------------------------------------------------------------------
(* Values.  Uid 0 is no object; processed 0 is no processedGeneration      *)
(* annotation.                                                             *)

Policies == {"none", "Orphan", "Invalid"}
Errors   == {"none", "Preconditions", "CreateOrUpdate", "ConnInfoSecret", "Delete"}
Phases   == {"absent", "building", "active"}
Tokens   == {"valid", "invalid", "missing"}
Fates    == {"none", "managed", "orphaned", "abandoned"}
PCs      == {"idle", "refs", "finalizer", "observe", "create", "update",
             "publish", "persist", "annotate", "finalize", "unfinalize"}

MaybeSpec == Specs \cup {NoSpec}
Outcomes  == [initialized: BOOLEAN, err: Errors, processed: Nat, running: BOOLEAN]
Objects   == [uid: Nat, rv: Nat, gen: Nat, spec: MaybeSpec, guarded: BOOLEAN,
              policy: Policies, deleting: BOOLEAN, finalizer: BOOLEAN,
              initialized: BOOLEAN, err: Errors, processed: Nat, running: BOOLEAN]
Remotes   == [phase: Phases, spec: MaybeSpec]
Secrets   == [owner: Nat, spec: MaybeSpec]

Fresh(uid, spec, guarded) ==
    [uid |-> uid, rv |-> 1, gen |-> 1, spec |-> spec, guarded |-> guarded,
     policy |-> "none", deleting |-> FALSE, finalizer |-> FALSE,
     initialized |-> FALSE, err |-> "none", processed |-> 0, running |-> FALSE]
NoObject == Fresh(0, NoSpec, FALSE)
NoRemote == [phase |-> "absent", spec |-> NoSpec]
NoSecret == [owner |-> 0, spec |-> NoSpec]

Exists(o)              == o.uid # 0
hasLatestGeneration(o) == o.processed = o.gen

IsReadyToUse(o)        == o.running /\ hasLatestGeneration(o)
InUse                  == remote.phase # "absent"

\* The status and managed annotations of an object.
OutcomeOf(o) == [initialized |-> o.initialized, err |-> o.err,
                 processed |-> o.processed, running |-> o.running]

\* Mutant: a patch without the version it was made from.
IsSameObject(o) == Exists(o) /\ o.uid = cr.uid

\* The API server accepts a write of a copy only at the version it was read.
IsCurrent(o) == Exists(o) /\ o.uid = cr.uid /\ o.rv = cr.rv
Write(o)     == [o EXCEPT !.rv = @ + 1]

\* What keeps the resource when the object is deleted: terminationProtection,
\* or the deletion-policy annotation, whatever its value.
Protects(o) == o.guarded \/ o.policy # "none"

----------------------------------------------------------------------------
Init ==
    /\ setup \in Setups
    /\ cr = NoObject
    /\ lastUid = 0
    /\ cache = NoObject
    /\ queued = FALSE
    /\ pc = "idle"
    /\ obj = NoObject
    /\ out = OutcomeOf(NoObject)
    /\ details = NoSpec
    /\ remote = NoRemote
    /\ secret = NoSecret
    /\ token = "valid"
    /\ edits = 0
    /\ faults = 0
    /\ fate = "none"
    /\ drifted = FALSE
    /\ protected = FALSE

----------------------------------------------------------------------------
(* The worker: one step per call                                           *)

\* Mutant: the requeue is lost.
ReturnOnly(requeue) ==
    /\ pc' = "idle"
    /\ obj' = NoObject
    /\ out' = OutcomeOf(NoObject)
    /\ details' = NoSpec
    /\ UNCHANGED queued

\* Reconcile returns; a requeue or an error puts the key back in the queue.
Return(requeue) ==
    /\ pc' = "idle"
    /\ obj' = NoObject
    /\ out' = OutcomeOf(NoObject)
    /\ details' = NoSpec
    /\ queued' = (queued \/ requeue)

\* Reconcile goes on at step p with the outcome o.
Goto(p, o) ==
    /\ pc' = p
    /\ out' = o
    /\ UNCHANGED <<obj, details, queued>>

\* Reconcile goes on to publishSecretDetails, with details of spec s.
Present(s, o) ==
    /\ pc' = "publish"
    /\ details' = s
    /\ out' = o
    /\ UNCHANGED <<obj, queued>>

Fault ==
    /\ faults < setup.maxFaults
    /\ faults' = faults + 1

\* r.Get from the cache, and the dispatch on the deletion timestamp.
Begin ==
    /\ pc = "idle"
    /\ queued
    /\ queued' = FALSE
    /\ \/ /\ Exists(cache)
          /\ cache.deleting => cache.finalizer
          /\ pc' = IF cache.deleting THEN "finalize" ELSE "refs"
          /\ obj' = cache
          /\ out' = OutcomeOf(cache)
       \/ /\ ~Exists(cache) \/ (cache.deleting /\ ~cache.finalizer)
          /\ UNCHANGED <<pc, obj, out>>
    /\ UNCHANGED <<cr, lastUid, cache, details, remote, secret, token, edits, faults, history>>

\* getAuthSecret finds the Secret with the API token.
hasAuthSecret == token # "missing"

\* ensureAuthSecretFinalizer (the Secret must be there) and resolveK8sRefs: a
\* referenced resource that is not ready requeues, an error is recorded.
ResolveRefs ==
    /\ pc = "refs"
    /\ \/ /\ ~hasAuthSecret
          /\ Return(TRUE)
          /\ UNCHANGED faults
       \/ /\ hasAuthSecret
          /\ Goto("finalizer", out)
          /\ UNCHANGED faults
       \/ Fault /\ Return(TRUE)
       \/ Fault /\ Goto("persist", [out EXCEPT !.err = "Preconditions"])
    /\ UNCHANGED <<cr, lastUid, cache, remote, secret, token, edits, history>>

\* Mutant: the finalizer is set on the copy and left for a later write.
FinalizerInMemory ==
    /\ pc = "finalizer"
    /\ obj' = [obj EXCEPT !.finalizer = TRUE]
    /\ pc' = "observe"
    /\ UNCHANGED <<cr, lastUid, cache, queued, out, details, remote, secret, token, edits, faults, history>>

\* ensureFinalizer: the copy is read again from the cache; a conflict is
\* retried a few times before the error is returned.
EnsureFinalizer ==
    /\ pc = "finalizer"
    /\ \/ /\ obj.finalizer
          /\ Goto("observe", out)
          /\ UNCHANGED cr
       \/ /\ ~obj.finalizer
          /\ IsCurrent(cache)
          /\ cr' = IF cache.finalizer THEN cr ELSE Write([cache EXCEPT !.finalizer = TRUE])
          /\ obj' = cr'
          /\ out' = OutcomeOf(cr')
          /\ pc' = "observe"
          /\ UNCHANGED <<details, queued>>
       \/ /\ ~obj.finalizer
          /\ ~IsCurrent(cache)
          /\ Return(TRUE)
          /\ UNCHANGED cr
    /\ UNCHANGED <<lastUid, cache, remote, secret, token, edits, faults, history>>

\* Mutant: the Error condition is blanked, not removed.
BlankedError(o) == [o EXCEPT !.err = "", !.processed = obj.gen]

\* completeReconcileSuccess: the generation of the copy is now processed.
Completed(o) == [o EXCEPT !.err = "none", !.processed = obj.gen]

\* Mutant: only the remote state counts.
RemoteUpToDate == Kind.compares => remote.spec = obj.spec

UpToDate == /\ ~Kind.standing => hasLatestGeneration(obj)
            /\ Kind.compares => remote.spec = obj.spec

\* The resource, or what there always is of it.
Found == InUse \/ (Kind.standing /\ remote.phase = "absent")

\* What Observe leaves in the status and annotations of an existing resource.
Observed(o) == [o EXCEPT !.initialized = TRUE,
                         !.running = @ \/ /\ remote.phase # "building"
                                          /\ Kind.runsWhenApplied => UpToDate]

\* Observe fails: a refused token (403), like a 5xx, is retryable; any other
\* error is recorded.
handleObserveError(o) ==
    \/ token = "invalid" /\ Goto("persist", o) /\ UNCHANGED faults
    \/ Fault /\ Goto("persist", o)
    \/ Fault /\ Goto("persist", [o EXCEPT !.err = "Preconditions"])

\* KafkaTopic takes a 5xx for the state that its annotations tell.
ObserveFromAnnotations(o) ==
    /\ Kind.trustsAnnotations
    /\ Fault
    /\ IF obj.processed = 0 /\ ~obj.running THEN Goto("create", o)
       ELSE IF hasLatestGeneration(obj) THEN Goto("persist", Completed(o))
       ELSE Goto("update", o)

\* newAivenClient (the token must be there), then controller.Observe and what
\* Reconcile makes of its answer.
Observe ==
    /\ pc = "observe"
    /\ LET started == [out EXCEPT !.initialized = TRUE]
       IN \/ /\ ~hasAuthSecret
             /\ Return(TRUE)
             /\ UNCHANGED faults
          \/ /\ hasAuthSecret
             /\ handleObserveError(started) \/ ObserveFromAnnotations(started)
          \/ /\ token = "valid"
             /\ remote.phase = "absent"
             /\ ~Kind.standing
             /\ Goto("create", started)
             /\ UNCHANGED faults
          \/ /\ token = "valid"
             /\ Found
             /\ ~UpToDate
             /\ Goto("update", Observed(out))
             /\ UNCHANGED faults
          \/ /\ token = "valid"
             /\ Found
             /\ UpToDate
             /\ IF Kind.hasSecret THEN Present(remote.spec, Observed(out))
                             ELSE Goto("persist", Completed(Observed(out)))
             /\ UNCHANGED faults
    /\ UNCHANGED <<cr, lastUid, cache, remote, secret, token, edits, history>>

\* The remote resource now has the spec of the copy, and this object answers for it.
Applied(phase) ==
    /\ remote' = [phase |-> phase, spec |-> obj.spec]
    /\ fate' = "managed"
    /\ drifted' = FALSE
    /\ UNCHANGED protected

\* Create and Update succeeded: running is dropped and, for some kinds, set again at once.
Succeeded ==
    LET done == [out EXCEPT !.running = Kind.runsAtOnce]
    IN IF Kind.hasSecret /\ Kind.runsAtOnce
       THEN Present(obj.spec, done)
       ELSE Goto("persist", Completed(done))

\* Create and Update begin by dropping the running annotation; only that of an
\* ACL configuration stays.
Interrupted == [out EXCEPT !.running = @ /\ Kind.standing]

\* Create or Update failed: an Error condition, or an unmet precondition.
Failed ==
    \/ Goto("persist", [Interrupted EXCEPT !.err = "CreateOrUpdate"])
    \/ Goto("persist", Interrupted)

\* createResource: controller.Create.  It may fail after the call took effect.
Create ==
    /\ pc = "create"
    /\ \/ /\ remote.phase = "absent"
          /\ token = "valid"
          /\ Applied(IF Kind.runsAtOnce THEN "active" ELSE "building")
          /\ \/ Succeeded /\ UNCHANGED faults
             \/ Failed /\ Fault
       \/ /\ remote.phase # "absent" \/ token # "valid"
          /\ Goto("persist", [Interrupted EXCEPT !.err = "CreateOrUpdate"])
          /\ UNCHANGED <<remote, faults, history>>
       \/ /\ Fault
          /\ Failed
          /\ UNCHANGED <<remote, history>>
    /\ UNCHANGED <<cr, lastUid, cache, secret, token, edits>>

\* controller.Update of a mutable kind.  A 404 is requeued without a condition.
UpdateRemote ==
    \/ /\ Found
       /\ token = "valid"
       /\ Applied(IF InUse THEN remote.phase ELSE "active")
       /\ \/ Succeeded /\ UNCHANGED faults
          \/ Failed /\ Fault
    \/ /\ token = "valid"
       /\ remote.phase = "absent"
       /\ ~Kind.standing
       /\ Goto("persist", Interrupted)
       /\ UNCHANGED <<remote, faults, history>>
    \/ /\ token # "valid"
       /\ Goto("persist", [Interrupted EXCEPT !.err = "CreateOrUpdate"])
       /\ UNCHANGED <<remote, faults, history>>
    \/ /\ Fault
       /\ Failed
       /\ UNCHANGED <<remote, history>>

\* updateResource: an immutable kind has nothing to update.
Update ==
    /\ pc = "update"
    /\ \/ /\ Kind.immutable
          /\ Goto("persist", Completed(out))
          /\ UNCHANGED <<remote, faults, history>>
       \/ /\ ~Kind.immutable
          /\ UpdateRemote
    /\ UNCHANGED <<cr, lastUid, cache, secret, token, edits>>

\* publishSecretDetails, then completeReconcileSuccess.  SetControllerReference
\* refuses a Secret that another (an earlier) object controls.
Publish ==
    /\ pc = "publish"
    /\ \/ /\ secret.owner \in {0, obj.uid}
          /\ secret' = [owner |-> obj.uid, spec |-> details]
          /\ Goto("persist", Completed(out))
          /\ UNCHANGED faults
       \/ /\ secret.owner \notin {0, obj.uid}
          /\ Goto("persist", [out EXCEPT !.err = "ConnInfoSecret"])
          /\ UNCHANGED <<secret, faults>>
       \/ /\ Fault
          /\ Goto("persist", [out EXCEPT !.err = "ConnInfoSecret"])
          /\ UNCHANGED secret
    /\ UNCHANGED <<cr, lastUid, cache, remote, token, edits, history>>

\* persistReconcileState, first half: Status().Update if anything changed.
Persist ==
    LET written == [cr EXCEPT !.initialized = out.initialized, !.err = out.err]
    IN /\ pc = "persist"
       /\ \/ /\ out = OutcomeOf(obj) \/ ~IsCurrent(obj)
             /\ Return(TRUE)
             /\ UNCHANGED <<cr, faults>>
          \/ /\ out # OutcomeOf(obj)
             /\ IsCurrent(obj)
             /\ cr' = IF written = cr THEN cr ELSE Write(written)
             /\ IF out.processed = obj.processed /\ out.running = obj.running
                THEN Return(TRUE)
                ELSE /\ pc' = "annotate"
                     /\ obj' = cr'
                     /\ UNCHANGED <<out, details, queued>>
             /\ UNCHANGED faults
          \/ Fault /\ Return(TRUE) /\ UNCHANGED cr
       /\ UNCHANGED <<lastUid, cache, remote, secret, token, edits, history>>

\* persistReconcileState, second half: the annotation patch, which carries the
\* version that the status update returned.
Annotate ==
    /\ pc = "annotate"
    /\ \/ /\ IsCurrent(obj)
          /\ cr' = Write([cr EXCEPT !.processed = out.processed, !.running = out.running])
          /\ UNCHANGED faults
       \/ ~IsCurrent(obj) /\ UNCHANGED <<cr, faults>>
       \/ Fault /\ UNCHANGED cr
    /\ Return(TRUE)
    /\ UNCHANGED <<lastUid, cache, remote, secret, token, edits, history>>

\* The deletion-policy annotation of the copy.  Mutant: heeded on running
\* instances only.
hasDeletionPolicyIfRunning == obj.policy # "none" /\ obj.running
hasDeletionPolicy == obj.policy # "none"

\* Mutant: a deletion that failed counts as done.
DeleteFailedLetsGo == Goto("unfinalize", out)

\* handleDeleteError: an Error condition; the finalizer stays.
DeleteFailed == Goto("persist", [out EXCEPT !.err = "Delete"])

\* errTerminationProtectionOn: Delete refuses before it calls Aiven.
Guarded == obj.guarded

\* reconcileDeletion without a deletion policy: controller.Delete, by the
\* project, service and name in the spec.
DeleteRemote ==
    /\ pc = "finalize"
    /\ ~hasDeletionPolicy
    /\ \/ /\ ~hasAuthSecret
          /\ Return(TRUE)
          /\ UNCHANGED <<remote, faults, history>>
       \/ /\ hasAuthSecret
          /\ Guarded
          /\ DeleteFailed
          /\ UNCHANGED <<remote, faults, history>>
       \/ /\ token = "invalid"
          /\ ~Guarded
          /\ IF obj.running
             THEN DeleteFailed /\ UNCHANGED fate
             ELSE /\ Goto("unfinalize", out)
                  /\ fate' = IF InUse THEN "abandoned" ELSE fate
          /\ UNCHANGED <<remote, faults, drifted, protected>>
       \/ /\ token = "valid"
          /\ ~Guarded
          /\ ~InUse
          /\ Goto("unfinalize", out)
          /\ UNCHANGED <<remote, faults, history>>
       \/ /\ token = "valid"
          /\ ~Guarded
          /\ InUse
          /\ remote' = NoRemote
          /\ \/ Goto("unfinalize", out) /\ UNCHANGED faults
             \/ Fault /\ DeleteFailed
          /\ fate' = "none"
          /\ drifted' = FALSE
          /\ UNCHANGED protected
       \/ /\ Fault
          /\ DeleteFailed
          /\ UNCHANGED <<remote, history>>
    /\ UNCHANGED <<cr, lastUid, cache, secret, token, edits>>

\* reconcileDeletion with a deletion policy: Orphan leaves the resource at
\* Aiven, any other value is refused.
ApplyDeletionPolicy ==
    /\ pc = "finalize"
    /\ hasDeletionPolicy
    /\ \/ /\ obj.policy = "Orphan"
          /\ Goto("unfinalize", out)
          /\ fate' = IF InUse THEN "orphaned" ELSE fate
       \/ /\ obj.policy = "Invalid"
          /\ DeleteFailed
          /\ UNCHANGED fate
    /\ UNCHANGED <<cr, lastUid, cache, remote, secret, token, edits, faults, drifted, protected>>

\* removeFinalizer: on the object as the cache has it, whatever was decided on;
\* an object marked for deletion goes with its last finalizer.
RemoveFinalizer ==
    /\ pc = "unfinalize"
    /\ \/ /\ ~Exists(cache)
          /\ Return(FALSE)
          /\ UNCHANGED <<cr, faults>>
       \/ /\ IsCurrent(cache)
          /\ cr' = IF ~cr.finalizer THEN cr
                   ELSE IF cr.deleting THEN NoObject
                   ELSE Write([cr EXCEPT !.finalizer = FALSE])
          /\ Return(FALSE)
          /\ UNCHANGED faults
       \/ /\ Exists(cache)
          /\ ~IsCurrent(cache)
          /\ Return(TRUE)
          /\ UNCHANGED <<cr, faults>>
       \/ Fault /\ Return(TRUE) /\ UNCHANGED cr
    /\ UNCHANGED <<lastUid, cache, remote, secret, token, edits, history>>

\* The manager stops and starts again: the worker's copy is lost, and the
\* initial list enqueues every object.
Crash ==
    /\ Fault
    /\ Return(TRUE)
    /\ UNCHANGED <<cr, lastUid, cache, remote, secret, token, edits, history>>

----------------------------------------------------------------------------
(* The cluster and Aiven                                                   *)

\* A watch event reaches the informer, which enqueues the key.
SyncCache ==
    /\ cache # cr
    /\ cache' = cr
    /\ queued' = TRUE
    /\ UNCHANGED <<cr, lastUid, worker, remote, secret, token, edits, faults, history>>

\* The garbage collector removes a Secret whose controller is gone.
CollectSecret ==
    /\ secret.owner \notin {0, cr.uid}
    /\ secret' = NoSecret
    /\ UNCHANGED <<cr, lastUid, cache, queued, worker, remote, token, edits, faults, history>>

\* Aiven finishes building the resource.
AivenProgress ==
    /\ remote.phase = "building"
    /\ remote' = [remote EXCEPT !.phase = "active"]
    /\ UNCHANGED <<cr, lastUid, cache, queued, worker, secret, token, edits, faults, history>>

Edit ==
    /\ edits < setup.maxEdits
    /\ edits' = edits + 1

UserCreates(s, guarded) ==
    /\ Edit
    /\ ~Exists(cr)
    /\ guarded => Kind.guards
    /\ lastUid' = lastUid + 1
    /\ cr' = Fresh(lastUid + 1, s, guarded)
    /\ protected' = FALSE
    /\ UNCHANGED <<cache, queued, worker, remote, secret, token, faults, fate, drifted>>

\* The CRD refuses to change the spec of an immutable kind.
UserEditsSpec(s) ==
    /\ Edit
    /\ ~Kind.immutable
    /\ Exists(cr)
    /\ ~cr.deleting
    /\ s # cr.spec
    /\ cr' = Write([cr EXCEPT !.spec = s, !.gen = @ + 1])
    /\ UNCHANGED <<lastUid, cache, queued, worker, remote, secret, token, faults, history>>

\* terminationProtection may change, of an object being deleted too.
UserGuards ==
    /\ Edit
    /\ Kind.guards
    /\ Exists(cr)
    /\ cr' = Write([cr EXCEPT !.guarded = ~@, !.gen = @ + 1])
    /\ protected' = (protected /\ Protects(cr'))
    /\ UNCHANGED <<lastUid, cache, queued, worker, remote, secret, token, faults, fate, drifted>>

UserSetsPolicy(p) ==
    /\ Edit
    /\ Exists(cr)
    /\ p # cr.policy
    /\ cr' = Write([cr EXCEPT !.policy = p])
    /\ protected' = (protected /\ Protects(cr'))
    /\ UNCHANGED <<lastUid, cache, queued, worker, remote, secret, token, faults, fate, drifted>>

\* A deletion timestamp counts as a new generation.
UserDeletes ==
    /\ Edit
    /\ Exists(cr)
    /\ ~cr.deleting
    /\ cr' = IF cr.finalizer THEN Write([cr EXCEPT !.deleting = TRUE, !.gen = @ + 1])
             ELSE NoObject
    /\ protected' = (cr.finalizer /\ Protects(cr))
    /\ UNCHANGED <<lastUid, cache, queued, worker, remote, secret, token, faults, fate, drifted>>

UserChangesToken(t) ==
    /\ Edit
    /\ t # token
    /\ token' = t
    /\ UNCHANGED <<cr, lastUid, cache, queued, worker, remote, secret, faults, history>>

\* SetupWithManager: Owns(Secret) enqueues the owner of a Secret that changed.
UserDeletesSecret ==
    /\ Edit
    /\ secret # NoSecret
    /\ secret' = NoSecret
    /\ queued' = TRUE
    /\ UNCHANGED <<cr, lastUid, cache, worker, remote, token, faults, history>>

\* Another client of Aiven changes or removes the resource.
OthersChangeRemote(s) ==
    /\ Edit
    /\ InUse
    /\ s # remote.spec
    /\ remote' = [remote EXCEPT !.spec = s]
    /\ drifted' = TRUE
    /\ UNCHANGED <<cr, lastUid, cache, queued, worker, secret, token, faults, fate, protected>>

OthersDeleteRemote ==
    /\ Edit
    /\ InUse
    /\ remote' = NoRemote
    /\ fate' = "none"
    /\ drifted' = TRUE
    /\ UNCHANGED <<cr, lastUid, cache, queued, worker, secret, token, faults, protected>>

----------------------------------------------------------------------------
Reconcile == \/ Begin \/ ResolveRefs \/ EnsureFinalizer \/ Observe
             \/ Create \/ Update \/ Publish \/ Persist \/ Annotate
             \/ DeleteRemote \/ ApplyDeletionPolicy \/ RemoveFinalizer

Others == \/ \E s \in Specs, guarded \in BOOLEAN : UserCreates(s, guarded)
          \/ \E s \in Specs : UserEditsSpec(s) \/ OthersChangeRemote(s)
          \/ \E p \in Policies : UserSetsPolicy(p)
          \/ \E t \in Tokens : UserChangesToken(t)
          \/ UserGuards \/ UserDeletes \/ UserDeletesSecret \/ OthersDeleteRemote

Next == /\ Reconcile \/ Crash \/ SyncCache \/ CollectSecret \/ AivenProgress \/ Others
        /\ UNCHANGED setup

Spec == Init /\ [][Next]_vars

\* The worker runs while its key is queued, watches deliver, and the garbage
\* collector and Aiven finish; users and faults owe nothing.
Fairness == /\ WF_vars(Reconcile /\ UNCHANGED setup)
            /\ WF_vars(SyncCache /\ UNCHANGED setup)
            /\ WF_vars(CollectSecret /\ UNCHANGED setup)
            /\ WF_vars(AivenProgress /\ UNCHANGED setup)

FairSpec == Spec /\ Fairness

----------------------------------------------------------------------------
(* Properties                                                              *)

ClusterOK == cr \in Objects /\ lastUid \in Nat /\ cache \in Objects
WorkerOK  == /\ pc \in PCs /\ obj \in Objects /\ out \in Outcomes
             /\ details \in MaybeSpec /\ queued \in BOOLEAN
AivenOK   == remote \in Remotes /\ secret \in Secrets /\ token \in Tokens
BoundsOK  == edits \in Nat /\ faults \in Nat
HistoryOK == fate \in Fates /\ drifted \in BOOLEAN /\ protected \in BOOLEAN

TypeOK == setup \in Setups /\ ClusterOK /\ WorkerOK /\ AivenOK /\ BoundsOK /\ HistoryOK

\* The object is held: no deletion completes without the operator.
Held == Exists(cr) /\ cr.finalizer

\* ensureFinalizer comes before Create, and removeFinalizer after Delete: a
\* resource this operator made, and that nobody chose to keep, always has an
\* object with the finalizer, so no deletion, crash, stale read or lost answer
\* leaves it behind at Aiven.
NoLeak == fate = "managed" /\ InUse => Held

Ownership == INSTANCE RemoteOwnership WITH held <- Held, inUse <- InUse

\* The reconciler implements RemoteOwnership: Create and Update happen only
\* under a persisted finalizer, which goes only with the resource or after a
\* decision to keep it, whatever stale copy the worker acted on.
HoldsWhatItMakes == Ownership!Spec

\* A resource that an earlier object left behind, and that this one, whose Update
\* does nothing, takes as it is.
Inherited == Kind.immutable /\ fate # "managed"

\* IsReadyToUse lets dependents and users go ahead: the resource then exists
\* with the spec of this very generation, unless another client changed it or
\* it was inherited, whatever edits raced with the reconcile that annotated the
\* object.
ReadyIsApplied ==
    Exists(cr) /\ ~cr.deleting /\ IsReadyToUse(cr) /\ ~drifted
        => InUse /\ (remote.spec = cr.spec \/ Inherited)

\* An object deleted under a deletion policy or termination protection keeps its
\* resource as long as one of them stands: no worker, whatever copy it holds,
\* removes it.
ProtectedIsKept == [][protected /\ InUse /\ UNCHANGED edits => InUse']_vars

\* Nothing more to do: no object; a deletion stuck on a policy the operator
\* refuses, or on the termination protection; or a ready object, its resource and its Secret as specified.
Settled ==
    \/ ~Exists(cr)
    \/ cr.deleting /\ (cr.policy = "Invalid" \/ (cr.policy = "none" /\ cr.guarded))
    \/ /\ ~cr.deleting
       /\ IsReadyToUse(cr)
       /\ cr.err = "none"
       /\ remote.phase = "active"
       /\ remote.spec = cr.spec \/ Inherited \/ (drifted /\ ~Kind.compares)
       /\ Kind.hasSecret => secret.owner = cr.uid

\* Once users and faults leave it alone and the token works, the operator
\* settles every object for good: edits are applied, drift and lost Secrets are
\* repaired, deletions complete.
Converges == <>[](token = "valid") => <>[]Settled
=============================================================================

------------------------- MODULE ServiceReconciler -------------------------
(***************************************************************************)
(* The reconciler of the nine service kinds (controllers/basic_controller, *)
(* with the handlers of controllers/generic_service_handler).  Unlike the  *)
(* generic reconciler it sets the finalizer and everything else on its     *)
(* copy, and writes the whole copy back at the end, at whatever version    *)
(* the object then has; and it leaves a ready service alone.               *)
(*                                                                         *)
(* The setting is that of ManagedReconciler: one object through all its    *)
(* incarnations, a lagging cache, users, Aiven, faults and crashes between *)
(* any two calls.                                                          *)
(*                                                                         *)
(* Abstracted: a spec is a value, of which only four things are known:     *)
(* whether it protects the service from termination, powers it off, has    *)
(* data migrated into it with the credentials of a Secret, and has that    *)
(* Secret deleted afterwards; upgrades, disk space, integrations and       *)
(* service-specific calls are left out.                                    *)
(***************************************************************************)
EXTENDS Integers

CONSTANTS
    Specs,          \* the values a user can put in .spec
    NoSpec,         \* the spec of what does not exist
    ProtectedSpecs, \* those with terminationProtection
    OffSpecs,       \* those with powered: false
    MigratingSpecs, \* those with a migrationSecretSource
    CleaningSpecs,  \* those of them with deleteAfterMigration
    Setups          \* what a behaviour may use, see SetupType

\* Whether the kind of service needs a backup before it is powered off (all but
\* KafkaConnect), the specs users choose from, whether the migration Secret is
\* there, and the bounds: steps of users and other Aiven clients, failed calls and crashes of
\* the operator, and reconciles that start from an outdated copy.
SetupType == [backedUp: BOOLEAN, specs: SUBSET Specs, source: BOOLEAN,
              maxEdits: Nat, maxFaults: Nat, maxStale: Nat]

ASSUME ServiceAssumption ==
    /\ NoSpec \notin Specs
    /\ {ProtectedSpecs, OffSpecs, MigratingSpecs} \subseteq SUBSET Specs
    /\ CleaningSpecs \subseteq MigratingSpecs
    /\ Setups \subseteq SetupType

VARIABLES
    setup,     \* a member of Setups
    cr,        \* the object in the API server
    lastUid,   \* the uid of the latest incarnation
    cache,     \* the informer's copy of the object
    queued,    \* the key is in the workqueue
    pc,        \* where the worker is in Reconcile
    orig,      \* the copy the worker read
    obj,       \* the copy it works on and will write back
    again,     \* reconcileInstance asked for a requeue
    remote,    \* the service at Aiven
    owner,     \* the uid of the object that published the connection Secret
    token,     \* the state of the API token in the auth Secret
    source,    \* the migration Secret is there, and well formed
    edits,     \* steps of users and other Aiven clients so far
    faults,    \* failed calls and crashes so far
    stale,     \* starts from an outdated copy so far
    fate,      \* history: who answers for the service
    drifted,   \* history: another client removed what this object had applied
    protected, \* history: deleted under the Orphan policy, which still stands
    saved,     \* history: the uid of the latest object whose finalizer was saved
    moved,     \* history: Aiven has completed a migration
    handed,    \* history: the uid of the latest object whose source Aiven was given
    tried,     \* history: the uid of the latest object done with deleting its source
    unreported \* history: a state of the migration was seen and not yet saved

worker    == <<pc, orig, obj, again>>
history   == <<fate, drifted, protected, saved>>
given     == <<setup, token>>
migrating == <<source, moved, handed, tried, unreported>>
vars      == <<setup, cr, lastUid, cache, queued, pc, orig, obj, again, remote, owner,
               token, edits, faults, stale, fate, drifted, protected, saved, migrating>>

----------------------------------------------------------------------------
Policies == {"none", "Orphan", "Invalid"}
Errors   == {"none", "Preconditions", "CreateOrUpdate", "ConnInfoSecret"}
Markers  == {"none", "on", "off"}
Phases   == {"absent", "building", "running", "poweroff"}
Tokens   == {"valid", "invalid", "missing"}
Fates    == {"none", "managed", "orphaned", "abandoned"}
PCs      == {"idle", "refs", "backups", "apply", "create", "update", "tags", "observe",
             "migration", "source", "publish",
             "write", "status", "finalize", "delete", "unfinalize"}
\* The reason of the MigrationComplete condition.
Migrations == {"none", "progress", "failed", "done"}

MaybeSpec == Specs \cup {NoSpec}
Objects   == [uid: Nat, rv: Nat, gen: Nat, spec: MaybeSpec, policy: Policies,
              deleting: BOOLEAN, finalizer: BOOLEAN, processed: Nat, marker: Markers,
              state: Phases, running: BOOLEAN, err: Errors, migration: Migrations]
Remotes   == [phase: Phases, spec: MaybeSpec, off: BOOLEAN, tags: MaybeSpec,
              protection: BOOLEAN, migration: Migrations \cup {"asked"}]

\* state and the conditions running, err and migration make up the status; marker is the
\* instance-is-running annotation.  At Aiven, off is what it was last told of
\* the power, and a migration is asked for before Aiven starts it.
Fresh(uid, spec) ==
    [uid |-> uid, rv |-> 1, gen |-> 1, spec |-> spec, policy |-> "none",
     deleting |-> FALSE, finalizer |-> FALSE, processed |-> 0, marker |-> "none",
     state |-> "absent", running |-> FALSE, err |-> "none",
     migration |-> "none"]
NoObject == Fresh(0, NoSpec)
NoRemote == [phase |-> "absent", spec |-> NoSpec, off |-> FALSE, tags |-> NoSpec,
             protection |-> FALSE, migration |-> "none"]

Exists(o)              == o.uid # 0

\* Mutant: of whatever generation.
hasAnyGeneration(o)    == o.processed # 0
hasLatestGeneration(o) == o.processed = o.gen
IsReadyToUse(o)        == o.marker # "none" /\ hasLatestGeneration(o)
hasPendingMigration(o) == o.migration = "progress"
Migrates(o)            == o.spec \in MigratingSpecs /\ o.migration # "done"
InUse                  == remote.phase # "absent"

\* The API server accepts a write of a copy only at the version it was read.
IsCurrent(o) == Exists(o) /\ o.uid = cr.uid /\ o.rv = cr.rv
Bumped(o)    == IF o = cr THEN o ELSE [o EXCEPT !.rv = @ + 1]

\* An update of the object takes everything but the status from the copy.
Update(o) ==
    Bumped([cr EXCEPT !.spec = o.spec,
                      !.gen = IF o.spec = cr.spec THEN @ ELSE @ + 1,
                      !.policy = o.policy, !.finalizer = o.finalizer,
                      !.processed = o.processed, !.marker = o.marker])

StatusUpdate(o) == Bumped([cr EXCEPT !.state = o.state, !.running = o.running, !.err = o.err,
                                              !.migration = o.migration])

----------------------------------------------------------------------------
Init ==
    /\ setup \in Setups
    /\ cr = NoObject /\ lastUid = 0 /\ cache = NoObject
    /\ queued = FALSE
    /\ pc = "idle" /\ orig = NoObject /\ obj = NoObject /\ again = FALSE
    /\ remote = NoRemote /\ owner = 0 /\ token = "valid"
    /\ edits = 0 /\ faults = 0 /\ stale = 0
    /\ fate = "none" /\ drifted = FALSE /\ protected = FALSE /\ saved = 0
    /\ source = setup.source /\ moved = FALSE /\ handed = 0 /\ tried = 0
    /\ unreported = FALSE

----------------------------------------------------------------------------
(* The worker: one step per call                                           *)

Return(requeue) ==
    /\ pc' = "idle"
    /\ orig' = NoObject /\ obj' = NoObject /\ again' = FALSE
    /\ queued' = (queued \/ requeue)

Goto(p, o) ==
    /\ pc' = p
    /\ obj' = o
    /\ UNCHANGED <<orig, again, queued>>

\* The inner reconcileInstance ends with copy o: "requeue", "error" or "done".
\* A changed copy is written back, and an error is then forgotten.
Finish(o, end) ==
    IF o = orig THEN Return(end # "done")
    ELSE /\ pc' = "write"
         /\ obj' = o
         /\ again' = (end = "requeue")
         /\ UNCHANGED <<orig, queued>>

Fault ==
    /\ faults < setup.maxFaults
    /\ faults' = faults + 1

\* needsConnectionSecretPublish
needsConnectionSecretPublish(o) == o.err = "ConnInfoSecret" \/ owner # o.uid

\* The Secret is asked for unless the service is powered off.
Unpublished(o) == o.marker # "off" /\ needsConnectionSecretPublish(o)

\* The reconcile of a ready object ends here, unless its Secret is not published
\* or its migration is to be followed.
Skips(o) == IsReadyToUse(o) /\ ~Unpublished(o) /\ ~hasPendingMigration(o)

\* Mutant: powered off, for the time being.
MarkedPending(o) ==
    IF IsReadyToUse(o) /\ Unpublished(o) THEN [o EXCEPT !.marker = "pending", !.running = FALSE]
    ELSE o

\* A stale marker is taken off before anything can requeue.
Marked(o) ==
    IF IsReadyToUse(o) /\ Unpublished(o) THEN [o EXCEPT !.marker = "none", !.running = FALSE]
    ELSE o

\* The outer reconcileInstance and reconcile: the object from the cache, the
\* token, and the dispatch.  The finalizer is set on the copy.
Begin ==
    /\ pc = "idle"
    /\ queued
    /\ stale' = stale + (IF cache = cr THEN 0 ELSE 1) /\ stale' <= setup.maxStale
    /\ \/ /\ ~Exists(cache) \/ (token # "missing" /\ cache.deleting /\ ~cache.finalizer)
          /\ queued' = FALSE
          /\ UNCHANGED worker
       \/ /\ Exists(cache) /\ token = "missing"
          /\ UNCHANGED <<worker, queued>>
       \/ /\ Exists(cache) /\ token # "missing"
          /\ cache.deleting /\ cache.finalizer
          /\ queued' = FALSE
          /\ pc' = "finalize" /\ orig' = cache /\ obj' = cache
          /\ UNCHANGED again
       \/ /\ Exists(cache) /\ token # "missing"
          /\ ~cache.deleting
          /\ queued' = FALSE
          /\ IF Skips(cache) THEN UNCHANGED worker
             ELSE /\ pc' = "refs" /\ orig' = cache
                  /\ obj' = [Marked(cache) EXCEPT !.finalizer = TRUE]
                  /\ UNCHANGED again
    /\ UNCHANGED <<cr, lastUid, cache, remote, owner, given, migrating, edits, faults, history>>

\* The auth Secret's finalizer, getObjectRefs and the preconditions of other
\* objects and services.
ResolveRefs ==
    /\ pc = "refs"
    /\ \/ /\ Goto(IF obj.spec \in OffSpecs /\ setup.backedUp THEN "backups" ELSE "apply", obj)
          /\ UNCHANGED faults
       \/ Fault /\ Finish(obj, "requeue")
       \/ Fault /\ Finish([obj EXCEPT !.err = "Preconditions"], "error")
    /\ UNCHANGED <<cr, lastUid, stale, cache, remote, owner, given, migrating, edits, history>>

\* genericServiceHandler.checkPreconditions: no power-off without a backup; a
\* service that does not exist has no list of backups.
CheckBackups ==
    /\ pc = "backups"
    /\ \/ token = "valid" /\ InUse /\ Goto("apply", obj) /\ UNCHANGED faults
       \/ Fault /\ Finish(obj, "requeue")
       \/ Fault /\ Finish([obj EXCEPT !.err = "Preconditions"], "error")
       \/ /\ token # "valid" \/ ~InUse
          /\ Finish([obj EXCEPT !.err = "Preconditions"], "error")
          /\ UNCHANGED faults
    /\ UNCHANGED <<cr, lastUid, stale, cache, remote, owner, given, migrating, edits, history>>

\* createOrUpdateInstance failed: 5xx are requeued, the rest is recorded.
ApplyFailed ==
    \/ Finish([obj EXCEPT !.processed = 0, !.marker = "none"], "requeue")
    \/ Finish([obj EXCEPT !.processed = 0, !.marker = "none", !.err = "CreateOrUpdate"], "error")

Refused ==
    Finish([obj EXCEPT !.processed = 0, !.marker = "none", !.err = "CreateOrUpdate"], "error")

\* Whether the generation was processed, and if not, the credentials of a
\* migration that is not over, and whether the service exists.
Apply ==
    /\ pc = "apply"
    /\ \/ hasLatestGeneration(obj) /\ Goto("observe", obj) /\ UNCHANGED faults
       \/ /\ ~hasLatestGeneration(obj)
          /\ Migrates(obj) => source
          /\ token = "valid"
          /\ Goto(IF InUse THEN "update" ELSE "create", obj)
          /\ UNCHANGED faults
       \/ /\ ~hasLatestGeneration(obj)
          /\ token # "valid" \/ (Migrates(obj) /\ ~source)
          /\ Refused
          /\ UNCHANGED faults
       \/ ~hasLatestGeneration(obj) /\ Fault /\ ApplyFailed
    /\ UNCHANGED <<cr, lastUid, stale, cache, remote, owner, given, migrating, edits, history>>

\* The service answers to this object from now on.
Answers == fate' = "managed" /\ UNCHANGED <<drifted, protected, saved>>

\* What Aiven makes of a configuration with, or without, migration credentials:
\* it will start a migration, and may start the one it knows again.
Asked(m) == IF ~Migrates(obj) THEN {m} ELSE {"asked", m} \ {"none"}
HandsOver == handed' = IF Migrates(obj) THEN obj.uid ELSE handed

\* ServiceCreate; powered is not sent.  It may fail after it took effect.
Create ==
    /\ pc = "create"
    /\ \/ /\ token = "valid" /\ ~InUse
          /\ \E m \in Asked("none") :
                remote' = [phase |-> "building", spec |-> obj.spec, off |-> FALSE,
                           tags |-> NoSpec, protection |-> obj.spec \in ProtectedSpecs,
                           migration |-> m]
          /\ Answers /\ HandsOver
          /\ \/ Goto("tags", obj) /\ UNCHANGED faults
             \/ Fault /\ ApplyFailed
       \/ /\ token # "valid" \/ InUse
          /\ Refused
          /\ UNCHANGED <<remote, faults, history, handed>>
       \/ /\ Fault
          /\ ApplyFailed
          /\ UNCHANGED <<remote, history, handed>>
    /\ UNCHANGED <<cr, lastUid, stale, cache, owner, given, edits, source, moved, tried,
                   unreported>>

\* ServiceUpdate.  Omitted, the termination protection stays as it was.
UpdateService ==
    /\ pc = "update"
    /\ \/ /\ token = "valid" /\ InUse
          /\ \E m \in Asked(remote.migration) :
                remote' = [remote EXCEPT !.phase = "building", !.spec = obj.spec,
                                         !.off = obj.spec \in OffSpecs,
                                         !.protection = @ \/ obj.spec \in ProtectedSpecs,
                                         !.migration = m]
          /\ Answers /\ HandsOver
          /\ \/ Goto("tags", obj) /\ UNCHANGED faults
             \/ Fault /\ ApplyFailed
       \/ /\ token # "valid" \/ ~InUse
          /\ Refused
          /\ UNCHANGED <<remote, faults, history, handed>>
       \/ /\ Fault
          /\ ApplyFailed
          /\ UNCHANGED <<remote, history, handed>>
    /\ UNCHANGED <<cr, lastUid, stale, cache, owner, given, edits, source, moved, tried,
                   unreported>>

\* The generation of the copy is processed; whether it runs is not known.
Processed(o) == [o EXCEPT !.processed = o.gen, !.marker = "none", !.running = FALSE]

\* Mutant: the tags are not worth an error.
TagsAtBest ==
    /\ pc = "tags"
    /\ \/ /\ token = "valid" /\ InUse
          /\ remote' = [remote EXCEPT !.tags = obj.spec]
          /\ drifted' = FALSE
          /\ UNCHANGED faults
       \/ Fault /\ UNCHANGED <<remote, drifted>>
    /\ Goto("observe", Processed(obj))
    /\ UNCHANGED <<cr, lastUid, stale, cache, owner, given, migrating, edits, fate,
                   protected, saved>>

\* ProjectServiceTagsReplace, always sent; then the generation is processed.
ReplaceTags ==
    /\ pc = "tags"
    /\ \/ /\ token = "valid" /\ InUse
          /\ remote' = [remote EXCEPT !.tags = obj.spec]
          /\ drifted' = FALSE
          /\ \/ Goto("observe", Processed(obj)) /\ UNCHANGED faults
             \/ Fault /\ ApplyFailed
       \/ /\ token # "valid" \/ ~InUse
          /\ Refused
          /\ UNCHANGED <<remote, drifted, faults>>
       \/ /\ Fault
          /\ ApplyFailed
          /\ UNCHANGED <<remote, drifted>>
    /\ UNCHANGED <<cr, lastUid, stale, cache, owner, given, migrating, edits, fate,
                   protected, saved>>

\* markConnectionSecretPublishFailed
PublishFailed(o) == [o EXCEPT !.marker = "none", !.running = FALSE, !.err = "ConnInfoSecret"]

\* A working service clears the error of an earlier publication, no other.
Working(o, marker) ==
    [o EXCEPT !.marker = marker, !.running = TRUE,
              !.err = IF @ = "ConnInfoSecret" THEN "none" ELSE @]

\* observe has returned without an error: the object that does not run yet, and
\* the one whose migration is not over, come again.
Observed(o) == Finish(o, IF o.marker = "none" \/ hasPendingMigration(o) THEN "requeue" ELSE "done")

\* What observe does with a service in the wanted state, once its migration is
\* looked after.
Settle(o) == IF o.spec \in OffSpecs THEN Observed(Working(o, "off")) ELSE Goto("publish", o)

\* genericServiceHandler.observe: the state, and whether it is the wanted one.
Observe ==
    /\ pc = "observe"
    /\ LET seen   == [obj EXCEPT !.state = remote.phase]
           wanted == IF obj.spec \in OffSpecs THEN "poweroff" ELSE "running"
       IN \/ /\ token = "valid"
             /\ \/ ~InUse /\ Finish(obj, "requeue")
                \/ InUse /\ remote.phase # wanted /\ Observed(seen)
                \/ /\ remote.phase = wanted
                   /\ IF obj.spec \in MigratingSpecs THEN Goto("migration", seen) ELSE Settle(seen)
             /\ UNCHANGED faults
          \/ token # "valid" /\ Finish(obj, "error") /\ UNCHANGED faults
          \/ Fault /\ Finish(obj, "error")
    /\ UNCHANGED <<cr, lastUid, stale, cache, remote, owner, given, migrating, edits, history>>

\* updateMigrationStatus: Aiven knows no migration that is over and cleaned up,
\* nor one that it has not started; the 404 is taken for one that is done.
Reported(m) == IF m \in {"none", "asked"} THEN "done" ELSE m

\* The source is needed no more.
Cleans(o) == o.spec \in CleaningSpecs /\ o.migration = "done"

\* The status of a migration that is not known to be done.
CheckMigration ==
    /\ pc = "migration"
    /\ \/ /\ obj.migration = "done" \/ token = "valid"
          /\ LET seen == IF obj.migration = "done" THEN obj
                         ELSE [obj EXCEPT !.migration = Reported(remote.migration)]
             IN /\ IF Cleans(seen) THEN Goto("source", seen) ELSE Settle(seen)
                /\ unreported' = (unreported \/ seen # obj)
          /\ UNCHANGED faults
       \/ /\ obj.migration # "done"
          /\ token # "valid"
          /\ Finish(obj, "error")
          /\ UNCHANGED <<faults, unreported>>
       \/ /\ obj.migration # "done"
          /\ Fault
          /\ Finish(obj, "error")
          /\ UNCHANGED unreported
    /\ UNCHANGED <<cr, lastUid, stale, cache, remote, owner, given, edits, history,
                   source, moved, handed, tried>>

\* maybeDeleteMigrationSecret; a Secret that is not there is as good as deleted.
\* Whether it fails or not, a service that was ready does not get here again.
DeleteSource ==
    /\ pc = "source"
    /\ \/ /\ source' = FALSE /\ tried' = obj.uid
          /\ \/ Settle(obj) /\ UNCHANGED faults
             \/ Fault /\ Finish(obj, "error")
       \/ /\ Fault
          /\ Finish(obj, "error")
          /\ tried' = IF obj.marker = "none" THEN tried ELSE obj.uid
          /\ UNCHANGED source
    /\ UNCHANGED <<cr, lastUid, stale, cache, remote, owner, given, edits, history,
                   moved, handed, unreported>>

\* The CA certificate, and the connection Secret unless another object controls it.
Publish ==
    /\ pc = "publish"
    /\ \/ /\ token = "valid" /\ owner \in {0, obj.uid}
          /\ owner' = obj.uid
          /\ \/ Observed(Working(obj, "on")) /\ UNCHANGED faults
             \/ Fault /\ Finish(PublishFailed(obj), "error")
       \/ /\ token # "valid" \/ owner \notin {0, obj.uid}
          /\ Finish(PublishFailed(obj), "error")
          /\ UNCHANGED <<owner, faults>>
       \/ Fault /\ Finish(PublishFailed(obj), "error") /\ UNCHANGED owner
    /\ UNCHANGED <<cr, lastUid, stale, cache, remote, given, migrating, edits, history>>

\* The copy is written at the version that the cache has now; a conflict is
\* retried a few times before the error is returned.
Write ==
    /\ pc = "write"
    /\ \/ /\ IsCurrent(cache)
          /\ cache.uid = obj.uid
          /\ cr' = Update(obj)
          /\ saved' = obj.uid
          /\ protected' = (protected /\ obj.policy = "Orphan")
          /\ \/ Goto("status", [obj EXCEPT !.rv = cr'.rv]) /\ UNCHANGED faults
             \/ Fault /\ Return(TRUE)
       \/ /\ ~(IsCurrent(cache) /\ cache.uid = obj.uid)
          /\ Return(TRUE)
          /\ UNCHANGED <<cr, faults, saved, protected>>
       \/ Fault /\ Return(TRUE) /\ UNCHANGED <<cr, saved, protected>>
    /\ UNCHANGED <<lastUid, stale, cache, remote, owner, given, migrating, edits, fate,
                   drifted>>

\* Then its status; after a conflict both writes are tried again.
WriteStatus ==
    /\ pc = "status"
    /\ \/ /\ IsCurrent(obj)
          /\ cr' = StatusUpdate(obj)
          /\ unreported' = FALSE
          /\ Return(again)
          /\ UNCHANGED faults
       \/ /\ ~IsCurrent(obj)
          /\ Goto("write", obj) \/ Return(TRUE)
          /\ UNCHANGED <<cr, faults, unreported>>
       \/ Fault /\ Return(TRUE) /\ UNCHANGED <<cr, unreported>>
    /\ UNCHANGED <<lastUid, stale, cache, remote, owner, given, edits, history,
                   source, moved, handed, tried>>

\* finalize lets go of a service whose token is refused, unless it was running.
LetGoOnInvalidToken ==
    /\ token # "valid"
    /\ IF obj.marker = "none"
       THEN /\ Goto("unfinalize", obj)
            /\ fate' = IF InUse THEN "abandoned" ELSE fate
       ELSE Return(TRUE) /\ UNCHANGED fate
    /\ UNCHANGED <<remote, faults, drifted, protected, saved>>

\* Mutant: the protection at Aiven is left as it is.
FinalizeProtected ==
    /\ pc = "finalize"
    /\ \/ /\ obj.policy = "Orphan"
          /\ Goto("unfinalize", obj)
          /\ fate' = IF InUse THEN "orphaned" ELSE fate
          /\ UNCHANGED <<drifted, protected, saved>>
       \/ /\ obj.policy # "Orphan"
          /\ IF obj.spec \in ProtectedSpecs THEN Return(TRUE) ELSE Goto("delete", obj)
          /\ UNCHANGED history
    /\ UNCHANGED <<cr, lastUid, stale, cache, remote, owner, given, migrating, edits, faults>>

\* Mutant: only what runs is worth keeping.
FinalizeUnlessRunning ==
    /\ pc = "finalize"
    /\ IF obj.policy = "Orphan" /\ obj.marker # "none"
       THEN Goto("unfinalize", obj) /\ fate' = IF InUse THEN "orphaned" ELSE fate
       ELSE Goto("delete", obj) /\ UNCHANGED fate
    /\ UNCHANGED <<cr, lastUid, stale, cache, remote, owner, given, migrating, edits,
                   faults, drifted,
                   protected, saved>>

\* finalize: the Orphan policy, and the first half of delete, which turns off
\* the protection of a service whose spec does not ask for it.  A policy that
\* is not Orphan is logged, and the deletion goes on.
Finalize ==
    /\ pc = "finalize"
    /\ \/ /\ obj.policy = "Orphan"
          /\ Goto("unfinalize", obj)
          /\ fate' = IF InUse THEN "orphaned" ELSE fate
          /\ UNCHANGED <<remote, faults, drifted, protected, saved>>
       \/ /\ obj.policy # "Orphan"
          /\ obj.spec \in ProtectedSpecs
          /\ Return(TRUE)
          /\ UNCHANGED <<remote, faults, history>>
       \/ /\ obj.policy # "Orphan"
          /\ obj.spec \notin ProtectedSpecs
          /\ \/ LetGoOnInvalidToken
             \/ /\ token = "valid"
                /\ remote' = [remote EXCEPT !.protection = FALSE]
                /\ \/ Goto("delete", obj) /\ UNCHANGED faults
                   \/ Fault /\ Return(TRUE)
                /\ UNCHANGED history
             \/ /\ Fault
                /\ Return(TRUE)
                /\ UNCHANGED <<remote, history>>
    /\ UNCHANGED <<cr, lastUid, stale, cache, owner, given, migrating, edits>>

\* Mutant: a service that cannot be deleted does not hold its object.
DeleteAtBest ==
    /\ pc = "delete"
    /\ IF token = "valid" /\ ~remote.protection
       THEN remote' = NoRemote /\ fate' = "none" /\ drifted' = FALSE
       ELSE UNCHANGED <<remote, fate, drifted>>
    /\ Goto("unfinalize", obj)
    /\ UNCHANGED <<cr, lastUid, stale, cache, owner, given, migrating, edits, faults,
                   protected, saved>>

\* The second half of delete: ServiceDelete, refused for a protected service.
Delete ==
    /\ pc = "delete"
    /\ \/ LetGoOnInvalidToken
       \/ /\ token = "valid"
          /\ InUse => ~remote.protection
          /\ remote' = NoRemote
          /\ fate' = "none" /\ drifted' = FALSE /\ UNCHANGED <<protected, saved>>
          /\ \/ Goto("unfinalize", obj) /\ UNCHANGED faults
             \/ Fault /\ Return(TRUE)
       \/ /\ token = "valid"
          /\ InUse /\ remote.protection
          /\ Return(TRUE)
          /\ UNCHANGED <<remote, faults, history>>
       \/ /\ Fault
          /\ Return(TRUE)
          /\ UNCHANGED <<remote, history>>
    /\ UNCHANGED <<cr, lastUid, stale, cache, owner, given, migrating, edits>>

\* removeFinalizer, on the object as the cache has it.
RemoveFinalizer ==
    /\ pc = "unfinalize"
    /\ \/ /\ ~Exists(cache)
          /\ Return(FALSE)
          /\ UNCHANGED <<cr, faults>>
       \/ /\ IsCurrent(cache)
          /\ cr' = IF cr.deleting THEN NoObject ELSE Bumped([cr EXCEPT !.finalizer = FALSE])
          /\ Return(FALSE)
          /\ UNCHANGED faults
       \/ /\ Exists(cache)
          /\ ~IsCurrent(cache)
          /\ Return(TRUE)
          /\ UNCHANGED <<cr, faults>>
       \/ Fault /\ Return(TRUE) /\ UNCHANGED cr
    /\ UNCHANGED <<lastUid, stale, cache, remote, owner, given, migrating, edits, history>>

Crash ==
    /\ Fault
    /\ Return(TRUE)
    /\ UNCHANGED <<cr, lastUid, stale, cache, remote, owner, given, migrating, edits, history>>

----------------------------------------------------------------------------
(* The cluster and Aiven                                                   *)

SyncCache ==
    /\ cache # cr
    /\ cache' = cr
    /\ queued' = TRUE
    /\ UNCHANGED <<cr, lastUid, stale, worker, remote, owner, given, migrating, edits,
                   faults, history>>

\* The garbage collector removes a Secret whose controller is gone.
CollectSecret ==
    /\ owner \notin {0, cr.uid}
    /\ owner' = 0
    /\ UNCHANGED <<cr, lastUid, stale, cache, queued, worker, remote, given, migrating,
                   edits, faults, history>>

\* Aiven finishes building, or powering off, the service.
AivenProgress ==
    /\ remote.phase = "building"
    /\ remote' = [remote EXCEPT !.phase = IF remote.off THEN "poweroff" ELSE "running"]
    /\ UNCHANGED <<cr, lastUid, stale, cache, queued, worker, owner, given, migrating,
                   edits, faults, history>>

\* A migration starts, and comes to an end.  Aiven later forgets one that is
\* done, which Reported takes for the same.
AivenMigrates ==
    /\ remote.migration \in {"asked", "progress"}
    /\ \E m \in IF remote.migration = "asked" THEN {"progress"} ELSE {"failed", "done"} :
          /\ remote' = [remote EXCEPT !.migration = m]
          /\ moved' = (moved \/ m = "done")
    /\ UNCHANGED <<cr, lastUid, stale, cache, queued, worker, owner, given, edits, faults,
                   history, source, handed, tried, unreported>>

Edit ==
    /\ edits < setup.maxEdits
    /\ edits' = edits + 1

UserCreates(s) ==
    /\ Edit
    /\ ~Exists(cr)
    /\ lastUid' = lastUid + 1
    /\ cr' = Fresh(lastUid + 1, s)
    /\ drifted' = FALSE /\ protected' = FALSE
    /\ UNCHANGED <<cache, queued, worker, remote, owner, given, migrating, faults, stale,
                   fate, saved>>

UserEditsSpec(s) ==
    /\ Edit
    /\ Exists(cr)
    /\ s # cr.spec
    /\ cr' = [cr EXCEPT !.spec = s, !.gen = @ + 1, !.rv = @ + 1]
    /\ UNCHANGED <<lastUid, stale, cache, queued, worker, remote, owner, given, migrating,
                   faults, history>>

UserSetsPolicy(p) ==
    /\ Edit
    /\ Exists(cr)
    /\ p # cr.policy
    /\ cr' = [cr EXCEPT !.policy = p, !.rv = @ + 1]
    /\ protected' = FALSE
    /\ UNCHANGED <<lastUid, stale, cache, queued, worker, remote, owner, given, migrating,
                   faults, fate, drifted, saved>>

UserDeletes ==
    /\ Edit
    /\ Exists(cr)
    /\ ~cr.deleting
    /\ cr' = IF cr.finalizer THEN [cr EXCEPT !.deleting = TRUE, !.gen = @ + 1, !.rv = @ + 1]
             ELSE NoObject
    /\ protected' = (cr.finalizer /\ cr.policy = "Orphan")
    /\ UNCHANGED <<lastUid, stale, cache, queued, worker, remote, owner, given, migrating,
                   faults, fate, drifted, saved>>

UserChangesToken(t) ==
    /\ Edit
    /\ t # token
    /\ token' = t
    /\ UNCHANGED <<setup, cr, lastUid, stale, cache, queued, worker, remote, owner,
                   migrating, faults, history>>

\* A user makes the migration Secret, or takes it away.
UserChangesSource ==
    /\ Edit
    /\ setup.specs \cap MigratingSpecs # {}
    /\ source' = ~source
    /\ UNCHANGED <<cr, lastUid, stale, cache, queued, worker, remote, owner, given, faults,
                   history, moved, handed, tried, unreported>>

\* SetupWithManager: Owns(Secret) enqueues the owner of a Secret that changed.
UserDeletesSecret ==
    /\ Edit
    /\ owner # 0
    /\ owner' = 0
    /\ queued' = TRUE
    /\ UNCHANGED <<cr, lastUid, stale, cache, worker, remote, given, migrating, faults,
                   history>>

OthersDelete ==
    /\ Edit
    /\ InUse
    /\ remote' = NoRemote
    /\ fate' = "none"
    /\ drifted' = TRUE
    /\ UNCHANGED <<cr, lastUid, stale, cache, queued, worker, owner, given, migrating, faults,
                   protected, saved>>

OthersProtect ==
    /\ Edit
    /\ InUse
    /\ ~remote.protection
    /\ remote' = [remote EXCEPT !.protection = TRUE]
    /\ UNCHANGED <<cr, lastUid, stale, cache, queued, worker, owner, given, migrating,
                   faults, history>>

----------------------------------------------------------------------------
Reconcile == \/ Begin \/ ResolveRefs \/ CheckBackups \/ Apply
             \/ Create \/ UpdateService \/ ReplaceTags
             \/ Observe \/ CheckMigration \/ DeleteSource \/ Publish
             \/ Write \/ WriteStatus
             \/ Finalize \/ Delete \/ RemoveFinalizer

Others == \/ \E s \in setup.specs : UserCreates(s) \/ UserEditsSpec(s)
          \/ \E p \in Policies : UserSetsPolicy(p)
          \/ \E t \in Tokens : UserChangesToken(t)
          \/ UserDeletes \/ UserDeletesSecret \/ UserChangesSource
          \/ OthersDelete \/ OthersProtect

Next == \/ Reconcile \/ Crash \/ SyncCache \/ CollectSecret
        \/ AivenProgress \/ AivenMigrates \/ Others

Spec == Init /\ [][Next]_vars

\* The worker runs while its key is queued, watches deliver, and the garbage
\* collector and Aiven finish; users and faults owe nothing.
Fairness == /\ WF_vars(Reconcile)
            /\ WF_vars(SyncCache)
            /\ WF_vars(CollectSecret)
            /\ WF_vars(AivenProgress)
            /\ WF_vars(AivenMigrates)

FairSpec == Spec /\ Fairness

----------------------------------------------------------------------------
(* Properties                                                              *)

TypeOK ==
    /\ {cr, cache, orig, obj} \subseteq Objects
    /\ lastUid \in Nat /\ queued \in BOOLEAN /\ pc \in PCs /\ again \in BOOLEAN
    /\ remote \in Remotes /\ owner \in Nat /\ token \in Tokens
    /\ {edits, faults, stale} \subseteq Nat
    /\ fate \in Fates /\ {drifted, protected} \subseteq BOOLEAN /\ saved \in 0 .. lastUid
    /\ setup \in Setups /\ {tried, handed} \subseteq 0 .. lastUid
    /\ {source, moved, unreported} \subseteq BOOLEAN

Ready(o) == Exists(o) /\ ~o.deleting /\ IsReadyToUse(o)

\* Dependents act on IsReadyToUse: the service then has the spec and the tags
\* of this very generation, unless another client removed it, whichever call
\* failed on the way and whatever edits raced with the write of the copy.
ReadyIsApplied ==
    Ready(cr) /\ ~drifted => remote.spec = cr.spec /\ remote.tags = cr.spec

\* docs/docs/guides/deletion-policy.md again, as far as it holds: a service is
\* left behind only by an object whose finalizer was never saved.  Once it is,
\* no stale copy, lost answer, crash or re-creation leaves the service alone.
LeaksOnlyUnsaved ==
    fate = "managed" /\ InUse /\ pc = "idle" /\ ~Exists(cr) => saved # lastUid

\* ... and a service whose object was deleted under Orphan stays, unless the
\* annotation is overwritten, whatever the worker was about to do.
KeptWhileAnnotated == [][protected /\ InUse /\ UNCHANGED edits => InUse']_vars

\* api/v1alpha1/common.go: "When true, the operator deletes the referenced
\* Kubernetes Secret after migration completes successfully".  Not of an object
\* whose credentials never reached Aiven: a failed call, an edit that asks for a
\* migration late, a re-creation under the same name or the write of an outdated
\* copy may all make the migration condition speak of another one.
SourceIsHandedOver ==
    [][source /\ ~source' /\ UNCHANGED edits => handed = obj.uid]_vars

\* The same promise, as it stands: Aiven has completed a migration by then.
SourceOutlivesMigration ==
    [][source /\ ~source' /\ UNCHANGED edits => moved]_vars

\* Nothing more to do: no object; a deletion that termination protection
\* forbids; a service that is not created for want of a backup to power it off
\* with; one created on such a spec all the same, which runs on, its object
\* waiting for ever; one that another client removed, which only a new spec
\* brings back; a migration whose source
\* is missing and that is not known to be done; or a ready one, as specified,
\* with its Secret, its migration over and the source deleted that was to be.
\* A migration of which the status was not saved is not followed any further,
\* nor is a deletion of the source tried again when the service was ready.
RunsOn == /\ hasLatestGeneration(cr) /\ cr.spec \in OffSpecs
          /\ remote.phase = "running" /\ ~remote.off

Settled ==
    \/ ~Exists(cr)
    \/ cr.deleting /\ cr.spec \in ProtectedSpecs
    \/ ~InUse /\ (drifted \/ (cr.spec \in OffSpecs /\ setup.backedUp))
    \/ RunsOn
    \/ Migrates(cr) /\ ~source /\ ~hasLatestGeneration(cr)
    \/ /\ Ready(cr)
       /\ ~drifted => remote.spec = cr.spec /\ remote.tags = cr.spec
       /\ cr.marker = "on" => owner = cr.uid
       /\ Migrates(cr) => cr.migration = "failed" \/ unreported
       /\ Cleans(cr) /\ source => tried = cr.uid

\* Once users and faults leave it alone and the token works, every object
\* settles for good, although errors are forgotten once the copy is written:
\* the event of that very write brings the object back.
Converges == <>[](token = "valid") => <>[]Settled

\* The same promise: "the operator deletes the referenced Kubernetes Secret after
\* migration completes successfully".
SourceIsDeleted ==
    <>[](token = "valid") => <>[](Ready(cr) /\ Cleans(cr) => ~source)

\* api/v1alpha1/common.go of powered: "When `false`, the service is powered off".
\* A service of which the object was processed is, in the end.
PowersOff ==
    <>[](token = "valid") =>
        <>[](Exists(cr) /\ ~cr.deleting /\ cr.spec \in OffSpecs /\ hasLatestGeneration(cr)
                 => remote.phase \in {"absent", "poweroff"})

\* docs/docs/guides/deletion-policy.md: when a resource is deleted, "the operator
\* deletes both the Kubernetes resource and the corresponding Aiven service": an
\* object that is gone, with nobody at work, has left no service behind.
NoLeak == ~Exists(cr) /\ pc = "idle" => ~(fate = "managed" /\ InUse)
=============================================================================

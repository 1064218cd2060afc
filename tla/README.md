# A TLA+ model of the Aiven Kubernetes operator

The operator reconciles Kubernetes custom resources with resources at Aiven.
This directory holds TLA+ modules that model its controllers, TLC
configurations that check them on small instances, and TLAPS proofs of the
results that matter most for every instance. Paths such as `reconciler.go` are
under `controllers/` unless they say otherwise.

## 1. Inventory

### The parts, their state and how they interact

| Part | Code | State it keeps | Talks to |
|---|---|---|---|
| Managed reconciler | `reconciler.go`, `client.go`, `common.go` | none of its own: status, the annotations `processed-generation` and `instance-is-running`, and the finalizer of the object | API server (through an informer cache), Aiven, connection Secret |
| Kind controllers (about 20) | `connectionpool_controller.go`, `kafkatopic_controller.go`, ... | kind-specific status (IDs, versions, states) | Aiven, called by the managed reconciler |
| Service reconciler (legacy) | `basic_controller.go`, `generic_service_handler.go`, `migration_secret.go`, one handler per service kind | status, annotations, finalizer; upgrade and migration state | API server, Aiven, connection Secret |
| ServiceUserRotation | `serviceuserrotation_controller.go` | the rotation Secret (published pair, pending pair, time of publication) | API server, Aiven |
| ServiceUser, ClickhouseUser | `serviceuser_controller.go`, `clickhouseuser_controller.go`, `secret_password_manager.go` | status, connection Secret | source Secret of the user, Aiven |
| Secret watch | `secret_watch_controller.go` | a timestamp annotation on the dependents | source Secrets; triggers reconciles |
| Auth Secret protection | `reconciler.go:192`, `secret_finalizer_gc_controller.go` | the finalizer of the auth Secret | all objects that name the Secret |
| Kind selection and set-up | `kinds.go`, `setup.go`, `main.go` | none | starts the controllers |
| API types and validation | `api/v1alpha1` | none | the API server |

### What is hard about it

* **Stale reads.** Every controller reads objects and Secrets from informer
  caches that lag behind the API server, each on its own.
* **Interleaving.** One key is reconciled by one worker at a time, but users,
  other Aiven clients, the garbage collector and Aiven itself act between any
  two calls of a reconcile.
* **Crashes and lost answers.** A reconcile is a sequence of calls to two
  systems without a transaction. Any prefix may be all that happens, and a call
  may take effect and still be reported as failed.
* **Incarnations.** An object may be deleted and created again under its name
  while a worker still holds a copy of the earlier one.
* **Asynchrony at Aiven.** Resources are built, powered off and removed later
  than the call that asked for it.
* **Time.** Only the rotation depends on a clock: a password handed out must
  stay valid for one interval after its successor is shown.
* **Shared things.** Objects of one kind meet at Aiven (two ServiceUsers of one
  user, two lists of grants, schemas that reference each other) and objects of
  all kinds meet at the Secret that holds their token.
* **Names that Aiven gives.** What a kind knows only by an identifier in its
  status is lost when the status is not saved.

### What makes each part correct

| Part | Properties worth having |
|---|---|
| Managed reconciler | nothing made at Aiven is left without a held object; a ready object is applied as specified; an orphaned resource is kept; every object settles |
| Service reconciler | the same list; some of its entries hold only with exceptions, see "Findings" |
| Kinds that keep an identifier in the status | a resource made is a resource found again: none left behind, none doubled, no foreign one taken over |
| ClickhouseGrant | what a ready object lists is granted; what is granted somebody answers for |
| ServiceUserRotation | published credentials always work; no password given is lost; nobody's password changes while it is read or within an interval of the switch; every due rotation completes |
| ServiceUser, ClickhouseUser, Secret watch | the latest password in the source Secret is what Aiven and the connection Secret end up with; a shared user goes with the last of its objects |
| Kafka schemas | a version that a referent gets reaches its dependents; no endless updates; dependents are deleted first; a level taken off is reverted |
| Auth Secret protection | a token that a held object needs for its deletion stays; one that nobody needs goes |

## 2. Modules and the code

| Module | Models | Kind |
|---|---|---|
| `ManagedKinds` | what distinguishes the kinds of the generic reconciler, as traits: `ConnectionPool`, `KafkaTopic`, `Database`, `ClickhouseDatabase`, `ClickhouseRole`, `KafkaConnector`, `KafkaQuota`, `OpenSearchACLConfig`, `Project`, `OrganizationProject` | constants |
| `ManagedReconciler` | `reconciler.go` with the `AivenController` contract of `client.go` and the finalizer helpers of `common.go` | component |
| `RemoteOwnership` | what a finalizer promises | abstract specification |
| `ManagedInvariant` | the inductive invariants of the two above | invariant |
| `ManagedReconciler_proofs` | proofs | theorems |
| `RemoteIdentity` | how nine kinds find, make, replace and remove a resource that Aiven names | component |
| `IdentityInvariant` | its inductive invariants | invariant |
| `RemoteIdentity_proofs` | proofs | theorems |
| `ClickhouseGrants` | `clickhousegrant_controller.go` | component |
| `GrantsInvariant` | its inductive invariant | invariant |
| `ClickhouseGrants_proofs` | proofs | theorems |
| `UserPasswords` | `serviceuser_controller.go`, `clickhouseuser_controller.go` with `secret_password_manager.go` and `secret_watch_controller.go` | composition |
| `UsersInvariant` | its inductive invariant | invariant |
| `UserPasswords_proofs` | proofs | theorems |
| `SchemaReferences` | `kafkaschema_controller.go`, with the schema registry | component |
| `SchemasInvariant` | its inductive invariants | invariant |
| `SchemaReferences_proofs` | proofs | theorems |
| `TokenSecretGC` | `secret_finalizer_gc_controller.go` with the half of `reconciler.go` that protects the Secret, and the selection of kinds | composition |
| `TokenSecretGC_proofs` | proofs | theorems |
| `ServiceUserRotation` | `serviceuserrotation_controller.go` | component |
| `CredentialHandover` | what `docs/docs/guides/serviceuser-rotation.md` promises to applications | abstract specification |
| `RotationInvariant` | the inductive invariants of the rotation | invariant |
| `ServiceUserRotation_proofs` | proofs | theorems |
| `ServiceReconciler` | `basic_controller.go` with `generic_service_handler.go` and `migration_secret.go` | component |
| `ServiceInvariant` | its inductive invariants | invariant |
| `ServiceReconciler_proofs` | proofs | theorems |
| `MCManaged`, `MCIdentity`, `MCGrants`, `MCUsers`, `MCSchemas`, `MCTokenSecret`, `MCRotation`, `MCService` | small instances | model checking |

All components share one view of the cluster. The API server holds the
object with a version that every change bumps; `SyncCache` (`SyncCr`,
`SyncSecret`, `SyncSource`, `SyncKind`) brings an informer's copy up to date and enqueues the key;
an action of the worker makes **one** call to the API server or to Aiven, with
everything that the code does in memory up to the next call. The worker's
position is `pc`; a crash resets it and leaves everything else. Each call has up
to three outcomes: it works; it fails; it works and is reported as failed.
Conditions and annotations are fields of the object, kept apart where the code
saves them by different calls.

**ManagedReconciler.** `Begin` is the `Get` and dispatch of `Reconcile`;
`ResolveRefs` the auth Secret's finalizer and the references;
`EnsureFinalizer` re-reads the cache as `addFinalizer` does; `Observe`,
`Create` and `UpdateRemote` are the calls of the kind, with what the traits say
about them: whether the kind marks itself running at once, whether it compares
the remote state or only the generation, whether its spec is immutable, whether
it has a Secret, whether it answers a 5xx from its annotations, whether it can be protected from termination, and
whether there is always something to observe (the ACL configuration of an
OpenSearch service, which is only ever updated, and reset on deletion). All of them find and
delete their resource by what the spec says; kinds that need a saved identifier for it, such as
ProjectVPC, whose `Delete` takes an empty `status.ID` for "nothing was created", are in `RemoteIdentity`. `Publish` writes the connection Secret, refused
while another incarnation controls it. `Persist` and `Annotate` are the two
halves of `persistReconcileState`: the status, then a patch of the annotations
at the version that the first half returned. `ApplyDeletionPolicy`,
`DeleteRemote` and `RemoveFinalizer` are `reconcileDeletion`. `setup`, chosen
initially from `Setups`, says which kind and how much may happen; the proofs hold
for every set of setups, and so for every combination of traits in `Kinds`.

**RemoteIdentity.** One object and the entries at Aiven, each with an identifier
and a content. A kind is a set of traits: does Observe search by content, does it
ask for the identifier it knows, does it forget one that is gone, does Aiven
refuse a second entry of the same content, is a changed entry replaced, does
Delete search, is deletion staged. `RemoveOld` and `Add` are the two calls of
`applyACL` (and `Add` alone is `Create` of the others); `PersistStatus` saves the identifier,
or is refused.

**ClickhouseGrants.** Privileges that exist for a grantee that exists (`there`),
the ones held, and per object the list in the spec and the manifest in the
status. `Revoke`, `RevokeState` and `Grant` run statement by statement, each of
which may fail; `Delete` revokes the list of the spec.

**UserPasswords.** Objects are reconciled concurrently. `Hold` puts the finalizer on the object that the
cache has by then; one that is deleted before that is gone at once, which `unseen` remembers. `Observe`, `Create`,
`Update`, `Reset`, `Fetch` are the calls of the two controllers; `Publish` merges
the details into the connection Secret; `Persist` saves the status, with the UUID of a ClickHouse user, and
`Annotate` the annotations, by a patch of its own that may be refused when the status is saved.
`FindDependents` and `Trigger` are the watch controller, `Patched` what its
merge patch does to the object: only the difference between the cached copy and
the changed one. A password is a number: one of the source Secret, or made up.
`lost` records in which of the known ways a new source password went unnoticed.

**SchemaReferences.** A subject has a list of versions, a level, and is soft
deleted or not. `ApplyLevel`, `Post` (with the look-up of the version and the
fingerprint) are `applySchema`; `Delete` and `HardDelete` the two steps of the deletion, refused by the
registry while a version of another subject references it. `Persist` saves the status, with the version, and
`Annotate` the annotations, with the fingerprint, the level and the processed generation: the first may be saved
without the second, and `halfSaved` remembers the objects whose version is newer than their fingerprint. `Noticed` is the
predicate of the watch that enqueues dependents.

**TokenSecretGC.** `Protect`, `Hold`, `Make`, `Delete`, `Release` are a pass over
an object, `GCBegin`, `GCList` (one kind per step) and `GCRemove` the collector;
`SyncSecret` and `SyncKind` deliver events through its predicates. `owed` is a history
variable: the objects that the Secret must be kept for because they were shown
to the collector's caches while the Secret was protected and no collection was under way.

**ServiceUserRotation.** `Prepare`, `SavePending`, `ResetPassword`, `Publish`
and `PersistStatus` are the stages of `reconcileCredentials`. The Secret has
the pair that is shown, its time, and the candidate; a password is the number
of the candidate it was made for. Creation and update of the Secret are refused
unless the copy is the current version.

**ServiceReconciler.** The finalizer, like everything else, is set on the
worker's copy `obj`. `Finish` ends the inner `reconcileInstance`: an unchanged
copy returns, a changed one goes on to `Write`, which replaces spec, policy,
finalizer and annotations of the object at the version that the cache has, and
then to `WriteStatus`. `Begin` leaves a ready object alone (`Skips`). `Apply`
to `ReplaceTags` are the calls of `createOrUpdate`; `Observe`, `CheckMigration`,
`DeleteSource` and `Publish` those of `observe`: the service, the status of its migration,
the deletion of the migration Secret and the connection Secret. `Finalize` and `Delete`
are `finalize` with the two calls of the handler's `delete`. A spec is protected, powered
off, has a migration Secret (`source`), has it deleted afterwards, or is plain. Whether the
Secret is well formed is part of whether it is there. A setup says whether the kind needs a backup before it is
powered off (`backedUp`): all but KafkaConnect do. At Aiven, `off` is the power it was last told of: `ServiceCreate` tells
nothing, so a service is created running. A migration that Aiven was asked for (`Asked`) may take a while to start, and
until then `Reported` gets the same 404 as for one that is over and forgotten; this about Aiven is an assumption of the model. `unreported`,
`tried`, `moved` and `handed` are history variables: a state of the migration that was read and not saved, the object
that is done with deleting the source, a migration that Aiven has completed, and the object whose credentials Aiven was given.

## 3. Runs

| Run | Instance | Properties |
|---|---|---|
| `managed` | two specs; ConnectionPool, 3 edits, 1 fault; KafkaTopic, ClickhouseDatabase, OrganizationProject and OpenSearchACLConfig, 2 edits, 1 fault; Database, 4 edits, no fault | `TypeOK`, `NoLeak`, `ReadyIsApplied`, `HoldInv`, `ReadyInv`, `ProtectInv`, `ProtectedIsKept`, `HoldsWhatItMakes`, `Converges` |
| `identity` | the nine kinds, two specs, 3 edits, 1 fault, 1 stale start | `TypeOK`, `LeavesNothing`, `NoDuplicates`, `SavedIsRight`, `Settles` |
| `grants` | two objects, two overlapping lists, 3 edits, 1 fault | `TypeOK`, `ReadyIsGranted`, `GrantsAreRecorded`, `Settles` |
| `grants_manifest` | one object, 2 edits, no fault | `ManifestIsComplete`, violated |
| `users` | a ServiceUser that changes source and authentication, 3 edits without a fault, 2 with one; two of one user, 4 edits without a fault; a built-in one, 2 edits with 1 fault; a ClickhouseUser, 3 edits without a fault, and a sourced one that no other client touches, 3 edits with 1 fault | `TypeOK`, `RotationIsNotForgotten`, `LastOneDeletes`, `Settles` |
| `users_missed` | a ClickhouseUser, 3 edits, no fault | `UpdatesReachAiven`, violated |
| `schemas` | a dependent that takes its reference off, 3 edits with 1 fault; a pair that comes to reference each other, 3 edits without a fault; a schema whose level changes, 3 edits with 1 fault; a dependent whose referent changes and may go back, 4 edits with 1 fault | `TypeOK`, `ReadyIsRegistered`, `NoRunaway`, `Settles` |
| `token_secret` | two kinds, an object of each; with 4 edits, with moves, with restarts | `TypeOK`, `KeepsWhatIsOwed`, `Settles` |
| `rotation` | two users, intervals 1 and 2, 2 edits; two time units and 1 fault, or three and none | `TypeOK`, `PublishedWorks`, `PasswordsRecorded`, `HandsOver`, `Completes` |
| `service` | a plain spec and one that is protected and powered off, 3 edits with 1 fault or 1 stale start, 2 edits with both; the same of a KafkaConnect, 3 edits, or 2 with 1 fault; specs that migrate, 2 edits with 1 fault or 1 stale start; migration added to or taken off a service, 3 edits | `TypeOK`, `ReadyIsApplied`, `LeaksOnlyUnsaved`, `KeptWhileAnnotated`, `SourceIsHandedOver`, `Converges` |
| `service_leak` | a plain spec, 2 edits, 1 fault, 1 stale start | `NoLeak`, violated |
| `service_source` | a spec that migrates and has the source deleted, 1 edit, 1 fault | `SourceIsDeleted`, violated |

What the properties say:

* `NoLeak`: a resource that the operator made, and that nobody chose to keep,
  has an object with the finalizer. `HoldsWhatItMakes` is stronger: the
  reconciler implements `RemoteOwnership`, so the finalizer is in the API server
  *before* any Create or Update, and goes only with the resource.
* `ReadyIsApplied`: when `IsReadyToUse` holds of the object in the API server,
  Aiven has the spec of that very generation, unless another client changed it.
  Dependent objects start on this condition. An object of an immutable kind may
  also be ready with a resource that an earlier object left behind, as it is (see "Findings").
* `ProtectedIsKept`: an object deleted under a deletion policy or termination
  protection keeps its resource as long as one of them stands, whatever copy the
  worker read and whatever users switch meanwhile. For services, whose reconciler may take the
  annotation off itself, `KeptWhileAnnotated` says what is left of it: the service stays
  until a write of the worker overwrites the annotation or users change something.
* `Converges`: once users, faults and other clients stop, and if the token stays
  valid, every object reaches a state where nothing is left to do and stays
  there.
* `LeaksOnlyUnsaved`: the leak of services needs an object whose finalizer was never
  saved; no other order of crashes, stale copies and re-creations leaves one behind.
* `SourceIsHandedOver`: the operator deletes a migration Secret only in the name of an object whose credentials
  Aiven was given: not of a new incarnation, an outdated copy or a copy whose spec was written back, nor after a call that
  failed. That Aiven has *completed* the migration by then, `SourceOutlivesMigration`, is false (see "Findings"). `Converges`
  includes that a migration is followed to its end and its source then deleted, with the two exceptions
  that "Findings" describes; and leaves out a service that was created on a powered-off spec and runs on (`RunsOn`), which "Findings" describes too.
* `LeavesNothing`, `NoDuplicates`, `SavedIsRight`: with the exceptions each states,
  the deletion of an object deletes what was made for it, no entry is made twice, and the
  identifier in the status names an entry of this incarnation's content.
* `ReadyIsGranted`, `GrantsAreRecorded`: a ready grant object holds what it lists,
  and whatever is held is listed by the spec or the manifest of some object.
* `RotationIsNotForgotten`: when the watch has gone quiet, an object that has its user to itself and counts
  as up to date has the source's password at Aiven, save for the ways to miss one that `lost` names: the Secret
  created anew, two changes in a second, an outdated copy, a failed trigger, a restart, a
  user half made, an absent Secret. `LastOneDeletes`: a shared user goes with its last object, unless an object
  was deleted before any pass had seen it, or a ClickHouse user's UUID was not saved in time.
* `ReadyIsRegistered`, `NoRunaway`: a ready schema is the version its status names; without
  a cycle of references neither of two subjects gets more versions than there were edits. `Settles` of the schemas
  leaves the version of an object in `halfSaved` open; `FollowsReferents` does not, and is false (see "Findings").
* `HoldInv`, `ReadyInv` and `ProtectInv` are induction hypotheses, tested before they are
  proved. Those of the rotation, `HandoverInv` and `RecordInv`, of the services (`ServiceInv`), the
  identities (`IdentityInv`), the grants (`GrantsInv`), the schemas (`SchemasInv`, `VersionsInv`) and the users (`UsersInv`)
  hold on the instances of `rotation`, `service`, `identity`, `grants`, `schemas` and `users` too (add them to
  `Rotation.cfg`, `Service.cfg`, `Identity.cfg`, `Grants.cfg`, `Schemas.cfg`, `Users.cfg`); the proofs have made the runs unnecessary.
* `KeepsWhatIsOwed`: the token's Secret keeps its finalizer for whoever is owed it.
* `Settles`: each module's form of "once left alone, everything is as it should be".
* `PublishedWorks`, `PasswordsRecorded`, `HandsOver`, `Completes`: see the
  comments in `ServiceUserRotation` and `CredentialHandover`.

### Bounds, and why they are enough

`MaxEdits` (`maxEdits` of a setup) bounds the steps of users and of other Aiven
clients, `MaxFaults` (`maxFaults`) the failed or lost calls and crashes, `maxTime` the clock,
`MaxStale` (`maxStale`; services, identity) the reconciles that start from an outdated copy,
`MaxVersions` the versions of a subject; in the rotation `maxFaults` also
bounds reconciles that start from a copy of an object that is already deleted.
Three edits give the sequences that matter: create, change, delete; create,
delete, create again, with a worker or a cache left in the earlier incarnation;
create, protect by the Orphan policy, delete; create, lose the Secret or the
resource, edit. An immutable kind needs a fourth: create, orphan, delete, create with another
spec. Where two objects meet, the setups with four edits give
create both, change or delete both. Every race in the list of hazards needs one edit during one
reconcile; none needs two faults, because a fault only cuts a reconcile short,
and the next one starts from the same persistent state. Two specs are enough to
tell "this" from "another". In the rotation two time units cover a publication
and the next one, each with whatever can fail; three, in behaviours without
a fault, two publications with a change of the interval between them. Versions,
generations and uids are not bounded by themselves; they are finite because
whatever bumps them is. Five versions of a subject are more than the edits of any setup,
so that `NoRunaway` does not hold by the bound; in the cycle the bound is what ends the run, and is why
properties exempt it.

A setup is a record that says which objects there are and what may happen to
them. Each describes one situation; the initial states of a run are all its setups.

`maxStale` of the services is more than a convenience. The service reconciler writes back the
spec it has read, so a reconcile that starts one version behind takes back the
edit that came after, and its write starts the next reconcile, which may again
be one version behind: two specs can alternate for ever. `Converges` is
checked for behaviours with one such start.

Runs stop checking for deadlock, because an object that is gone and a user who
has used up the edits leave nothing to do.

### Fairness

Safety needs none. The runs that check liveness assume weak fairness of: the worker's
`Reconcile`, because controller-runtime runs a queued key again after every
error, requeue or event; the delivery of watch events to the cache; the garbage
collectors; progress at Aiven; and, in the rotation, the clock. One worker that
takes several objects serves each of them (`ClickhouseGrants` has strong fairness of each
object's `Begin`): the workqueue is first in, first out. Requeue delays and
the poll interval are not modelled: a requeued key is pending. Faults, crashes,
users and other clients have no fairness; they end only because they are
bounded. `Converges` presupposes that the token is valid from some time on, as
without a token the operator cannot do anything; `Completes` that the service runs
and has both users; `Settles` of the grants that what they list exists.

## 4. Proofs

`ManagedReconciler_proofs` proves `TypeCorrect`: `Spec => []TypeOK`. Its lemmas
say what a write does to an object, and what the steps of the worker leave in its copy.

The same module proves `NeverLeaks` (`Spec => []NoLeak`) and
`ImplementsOwnership` (`Spec => HoldsWhatItMakes`), for every kind, every set of
specs and any number of edits, faults, crashes and incarnations. `NoLeak` is not
inductive: it says nothing about a worker that is about to create, or to take
the finalizer off, on the strength of a copy. `HoldInv` adds what stale copies
still say:
1. `Versions`: a copy in the cache is an earlier version of its incarnation;
   the same version is the same object.
2. `CacheKnowsHeld`, `CacheIsHeld`, `CacheDeleting`: the finalizer is only ever
   added through the cache, deletion is for good, and a live cached object with
   the finalizer is held now, because the operator takes the finalizer off only
   after it has seen the deletion in this very cache.
3. `WorkerIsHeld`: from `EnsureFinalizer` on, the object is held.
4. `WorkerFinalizes`, `WorkerLetsGo`: on the deletion path the object is the
   deleted one, or a new one without finalizer that the worker cannot harm; and
   `RemoveFinalizer` is reached only when nothing is left to answer for.

The step is proved action by action. Most actions leave the object's standing
alone (`ObjectStands`), and the lemmas `CopiesStand` and `WorkerStands` deal with
them together; writes that the API server accepts only for the current version are
handled by `CurrentCache`. The refinement follows from `HoldInv`: `EnsureFinalizer`
is `Hold`, `Create` and `UpdateRemote` are `Apply`, deletion by anybody is `Remove`,
the decision to leave the resource is `Keep`, and `RemoveFinalizer` is `LetGo`.

It proves `ReadyMeansApplied` too (`Spec => []ReadyIsApplied`), by `ReadyInvCorrect`.
The operator writes "processed" at the end of a pass, from a copy that
may be old by then, about a resource it saw or made some calls before. `ReadyInv` says why
that is sound, in four parts:
1. `CopiesAge`, `WorkerCopy`: a copy (the cache's, the worker's) is an earlier
   version; its generation is no later, the same generation has the same spec,
   and nothing has been processed that the copy's generation does not reach.
   So if the copy's generation is still that of the object, the specs agree.
2. `WorkerOwns`: from `Observe` to `Update` the worker's object is the one that exists.
3. `ProcessedIsApplied` and `WorkerProcesses`: what the object says is processed,
   and what the worker is about to say, is applied if the object is still at that
   generation.
4. `UpdateFindsIt`, `MadeAsSpecified`, `AbsentIsBlank`: for kinds whose Update does
   nothing, that there is something to leave alone, and that it was made as the
   (unchangeable) spec says.

It rests on `HoldInv` for the incarnations: a worker can be on its way to
`Update` only for an object that is held, so that it is not a new one. Edits
raise the generation, so `ServerStands` and `WorkerUntouched` show
that edits and writes leave these facts alone; the proof has a lemma per action.

The same module proves `ProtectInvCorrect` and from it `ProtectionHolds` (`Spec => ProtectedIsKept`). `ProtectInv`
says that after a protected deletion no copy that the deletion path acts on, in
the cache or with the worker, is without the protection: copies from before the deletion
are not on that path, and later ones show it. Lifting the protection ends `protected`.

`TokenSecretGC_proofs` proves `TypeCorrect` and `SecretKept` (`Spec => []KeepsWhatIsOwed`)
for any number of objects and kinds, with moves, restarts and failed calls. The
collector decides on listings that are old when it acts, so `KeepsWhatIsOwed` needs
two more facts: `CopyOK`, that a copy of the Secret marked as current is the
Secret, and `Unlisted`, that what is owed is still in the cache and of a kind
that the running collection has not come to. A collection that reaches the end
has therefore found nobody owed; a write to the Secret with an outdated copy is refused.

`ServiceUserRotation_proofs` proves `TypeCorrect`,
`CredentialsWork` (`Spec => []PublishedWorks`) and `ImplementsHandover` (`Spec => HandsOver`)
for any two users, intervals, edits, faults and crashes. `PublishedWorks` says nothing of a
password that is about to be reset or published, so `HandoverInv` adds:
1. `SecretVersions`: the API server accepts a copy only at the Secret's version, and the same
   version is the same Secret.
2. `SoundCopies`: in every copy, however old, the candidate is not the user shown, and is
   there only once the shortest interval has passed since that publication.
3. `WorkerPrepares`, `WorkerSaves`, `WorkerResets`: a copy that is still current shows what
   the Secret shows and drops no complete candidate. From the save on, what the worker changes
   at Aiven is that candidate, and what the Secret shows is what the copy shows, unless the
   Secret was removed: the worker alone publishes.
4. `WorkerPublishes`: what is about to be published was set for the other user an interval
   after the last publication (`Rotates`), or is shown already (`Refreshes`).

Under the mapping `shown` <- user, password and time in the Secret, `ResetPassword` is `Reset`,
`Publish` is `Publish` or changes nothing shown, the loss of the Secret is `Withdraw`, a change by
another client is `Interfere`, and all other steps but `Tick` stutter.

The same module proves `PasswordsKept` (`Spec => []PasswordsRecorded`). `RecordInv`
adds `OneObject` (while no user removes anything there is one object and the Secret is its, so
that it is not collected) and `CandidateIsSaved` (from the save to the publication, the Secret
has the candidate that the worker sets). A publication drops the candidate only in the
update that shows it, and `CredentialsWork` says that this is what the user then has.

`ServiceReconciler_proofs` proves the type invariant and all safety properties of the
services: `ReadyMeansApplied`, `LeaksOnlyBeforeSave`, `OrphanIsKept`, `SourceWasHandedOver`. Here
the worker writes its whole copy over the object at the latest version, so nothing that the
API server checks ties the two together, and what a copy still says must be kept track of.
The proof first reduces every step to one of fifteen *shapes* (`ShapedStep`): what it writes to
the object, the cache, the worker's copy and Aiven, whatever call it models. Then
1. `CopiesInv` (`CopiesStep`): a copy is of an earlier version, with the same spec within a
   generation, and nothing is processed that its generation does not reach; an incarnation that the
   cache has not seen is as its user made it (`AsMade`). It is proved
   together with `TypeOK`: that identifiers stay in range depends on it.
2. `AppliedInv`: whoever claims (`Claims`) that the current generation is processed, the
   object, the cache or the worker's copy, speaks the truth. A write of an older copy over a
   newer spec raises the generation, and then nobody claims it (`ClaimsMatch`).
3. `SavedInv`: a finalizer that was saved goes only on the deletion path, after the cache
   has shown the deletion and the service is gone or kept.
4. `KeptInv`: after a deletion under Orphan the copies that the deletion path acts on have
   the annotation, until it is overwritten, which ends `protected`.
5. `HandedInv`: a copy that has a spec with a migration processed, or knows the end of one, is of the object
   that `handed` names, and so is one whose tags are about to be replaced: only `Create` and `UpdateService` lead there.

`RemoteIdentity_proofs` proves `TypeCorrect`, `SavedHasContent` (`Spec => []SavedIsRight`), `MakesNoTwins`
(`NoDuplicates`) and `LeavesNothingBehind` (`LeavesNothing`), for every set of kinds that satisfies
`KindsAssumption`, not only the nine: a kind can find its entry again, by ID or by content, and one that
replaces entries looks by content only and keeps the ID of what it replaces. Lemmas called
*moves* (`ObserveMoves`, `AddMoves`, ...) first say what each action does to the worker, the object and the
entries: those shrink or grow by one (`Shrinks`, `Grows`). That the first or the last of several
entries exists (`PickFacts`) rests on the well-foundedness of the natural numbers. `IdentityInv` then has, besides
types:
1. `CopiesInv`: copies are earlier versions, and the same version is the same object but for the identifier
   that the worker has found; an incarnation that the cache has not seen has no finalizer and no identifier.
2. `EntriesInv`: identifiers are unique, and none is known that Aiven has not given.
3. `ContentInv`, behind `SavedIsRight`: the identifier in *any* copy, of whatever incarnation, is that of an
   entry with the content of the copy.
4. `TwinsInv`, behind `NoDuplicates`: a worker that is about to add an entry has found none of its content. A
   kind that asks by ID does not look; for it every ID in a copy on which nothing has been deleted yet
   (`Untouched`) is that of an entry in use.
5. `SavedInv`, behind `LeavesNothing`: an entry that is in use and saved is the one the object names, and the
   one that `Delete` will be given. It would be lost if a save put another ID in its place; so whoever
   is about to save another (after finding or adding it) leaves none in use under the old one.

Parts 4 and 5 rest on the earlier ones, and the second case of 5 on 4: an entry found by content, and not
replaced, is the one that was saved, because there are no two.

`ClickhouseGrants_proofs` proves `TypeCorrect`, `ReadyMeansGranted` (`Spec => []ReadyIsGranted`) and `GrantsAreKnown`
(`GrantsAreRecorded`) for any number of objects, privileges and lists. ClickHouse is never read back, so all
that ties a pass to what is granted is the path it has come: `GrantsInv` says, besides `WorkerInv`,
1. `CacheInv`, `CopyInv`, `PathInv`: copies are earlier versions; a current one is the object itself while the
   worker grants and revokes; what it does there depends on what the copy said where the pass began.
2. `ContestInv`: what two objects list is contested, so revoking on account of one
   takes nothing else from another. This needs that a saved status adds nothing to what the object lists.
3. `AppliedInv`: from the last statement to the annotation all that the copy lists is granted. If its
   generation still stands when the annotation is written, that is what the object lists.
4. `RecordInv`: what is granted is in a *status* (`GrantsAreRecorded` also counts the specs, but an edit
   changes those); hence a pass that is about to save another status has revoked what the old one lists,
   and one that is about to let the object go what its spec lists.

`SchemaReferences_proofs` proves `TypeCorrect` and `ReadyMeansRegistered` (`Spec => []ReadyIsRegistered`) for any number
of objects, any references among them (cycles included) and any rule of what a level refuses. It too goes by *moves*: the
worker stops, takes an object, or `Continues` with its own; one object is written (`OneWritten`); and the
versions of every subject stay (`Keeps`) but of those that others changed or `HardDelete` removes. That a version is found for
what was just posted (`LastPlace`) rests on the well-foundedness of the natural numbers. `SchemasInv` has
1. `CacheInv`, `CopyInv`: copies are earlier versions; an incarnation that the cache has not seen, or that came
   after the worker began, has been processed by no pass, so a hard delete on account of the old one finds nothing ready.
   Between `Persist` and `Annotate` the copy is of the version that the status was saved at, so that the patch of the
   annotations is refused exactly if somebody has written in between.
2. `ResolvedInv`: what is about to be posted references all that the object does.
3. `ProcessedInv`: whoever says that the generation of a live object is processed, the object itself or a worker with a
   current copy (`ClaimsRight`), names a version that is what it describes. `ReadyIsRegistered` alone says nothing of the worker.

It also proves `NeverRunsAway` (`Spec => []NoRunaway`), for any two objects (`Pair`) without a cycle. That a subject has at
most as many versions as there were edits is far from inductive: what is *about* to be registered must be counted too,
and was caused by an edit that may lie many steps back. `VersionsInv` has, besides `SchemasInv`,
1. `AgesInv`: an incarnation that the cache or the worker has not seen has no version in its status, and the copy of a
   pass that has saved nothing is no younger than the cache. So a pass whose copy can still be saved has what the cache has (`CurrentCopy`).
2. `DistinctInv`: no version of a subject is there twice, so one that is posted again is the one in the status, or
   the status was behind.
3. `BoundInv`: the versions of `n` (`Size`) plus one for each way to another are at most the edits (`Bound`): what the pass
   under way or the next one registers is not there (`Awaits`); the pass is behind the cache in what it describes
   (`PassLag`) or in the versions it resolved (`ResolvedLag`); the cache is behind the server in either (`CacheLag`,
   `VersionLag`); the other object's version is about to be saved (`Saving`), or is yet to change because it is
   deleted, references something or is not registered as it is (`Unsettled`).

An edit raises one of these by one. Every other step only moves a debt along: from `Unsettled` to `Saving` by a post (`PostSettles`),
to `VersionLag` by the save (`SavedBound`) or the removal of the finalizer (`LetGoBound`), to `Awaits` or the lags of a pass when the cache
hears of it (`HearsCounts`), into the versions by the post (`PassCounts`). That there is no cycle is needed where a save
makes the other's version old: the object saved then references nothing, so its version does not change again.

`UserPasswords_proofs` proves `TypeCorrect`, `LastOneDeletesCorrect` (`Spec => []LastOneDeletes`) and `RotationCorrect`
(`Spec => []RotationIsNotForgotten`) for any number of objects, either kind, any specs and passwords, crashes
and other clients included. Here too a *moves* lemma per action says what it leaves alone. `UsersInv` has three parts:
1. `CopiesInv`, object by object: the copies in the cache and with the worker are earlier versions (`Earlier`), the
   finalizer and the UUID are for good, and the worker's is no later than the cache's, which never goes back.
   A pass has put the finalizer on its object, so the object is still there; a new incarnation behind an old copy
   is `Untouched`. From `Persist` to `Annotate` the copy is of the status just saved, with its UUID. It is proved together with `TypeOK`, because what a pass saves is well typed only if its copy is.
2. `KeptInv`, behind `LastOneDeletes`: as long as the user is there, some object `Keeps` it: it exists, is not about to
   go without deleting the user and, for ClickHouse, has the UUID or a worker that will save it. A removal that skips
   the deletion has found a live duplicate in the cache, and that one keeps the user: it exists, because an object that
   had the finalizer does not go before its cached copy shows the deletion, and one without is what `unseen` exempts.
3. `ClaimInv`, behind `RotationIsNotForgotten`, which says nothing of a pass under way. Once no trigger for it is
   due (`Due`), an object that counts as up to date has set the password that the cache shows in the source
   (`ReadyClaim`), and a pass whose copy can still be saved sets it before it says so (`PassClaim`). An edit or a
   trigger raises the version, and then the pass that read the old password cannot save its claim.

The assumptions are those on the constants (`SetupAssumption` among them: `Kinds` excludes
combinations of traits that no kind has and for which `ReadyIsApplied` could fail, a kind that is always there
and not compared, and an immutable one that is always there or answers a 5xx from its annotations) and what the models take for granted about Kubernetes: one
active manager and one worker per key, informer caches that never go back, also
across a restart; finalizers that only the operator touches; and about Aiven: a service is created running, a migration
that was asked for is unknown until it starts, and one that is over may be forgotten.

Only model-checked: liveness (`Converges`, `Completes`, `Settles`), out of the prover's reach. Every
invariant and action property of the runs is a theorem. `NoRunaway` is a statement about two objects in the model too: among more, one edit can
reach an object along several ways and make it register a version for each, so no bound by the edits holds.

## 5. Findings

The first four are traces of runs that are expected to find their property violated.

* **Services can be left behind** (`service_leak`). The legacy reconciler sets the
  finalizer in memory (`basic_controller.go:273`) and saves it after
  `ServiceCreate` (244). After a stop or a failed write in between, the object is there without a finalizer; if it is
  deleted before the next reconcile has saved one, it goes at once, and leaves a service that nothing refers to.
  The generic reconciler is proved free of it, for the kinds of `ManagedKinds`; those of `RemoteIdentity` leave behind what
  they have no saved identifier of (`unsaved`: a VPC, an integration or an ACL made just before a stop, and an object deleted
  before the next pass).
* **Grants outside the manifest stay** (`grants_manifest`). What to revoke later is
  what the last *saved* status lists (`clickhousegrant_controller.go:76-88`). If the object is edited
  between `GRANT` and the save, the save is refused and what was granted is recorded nowhere.
* **A new source password can be published without being set** (`users_missed`). The watch
  removes the processed annotation by a merge patch against a cached copy (`secret_watch_controller.go:200-212`).
  If that copy does not show the annotation yet, the patch removes nothing, and the next
  pass finds the object processed.
* **A migration Secret can stay** (`service_source`). If the object is ready before its migration
  is over, and the deletion of the Secret (`generic_service_handler.go:259`) fails when the end is seen, the condition
  `MigrationComplete` is saved all the same, the error is overwritten (`basic_controller.go:235`), and the object
  is ready with nothing pending: no reconcile comes that far again, until the spec changes.

Three more can be had from TLC with a setup and a property that the modules keep: give a copy of the configuration named
the setup and the property in place of its own.

* **A migration Secret can go too early** (`Service.cfg`, `CleaningSetups`, `SourceOutlivesMigration`). `updateMigrationStatus`
  takes a 404 for a migration that is over (`generic_service_handler.go:352-362`). If Aiven answers 404 for one it has not
  started yet, a service that is already running has its credentials deleted before any data has moved.
* **A KafkaConnect declared powered off runs on** (`Service.cfg`, `OffSetups`, `PowersOff`). `ServiceCreate` carries no `powered`
  (`generic_service_handler.go:103-114`), its generation counts as processed, and only another generation leads to the
  `ServiceUpdate` that does. `observe` waits for the service to be off, and the object is requeued for ever.
  `api/v1alpha1/common.go:155` says that the value is ignored during creation; nothing applies it later.
* **A schema can name the wrong version** (`Schemas.cfg`, `BackSetups`, `FollowsReferents`). The version is saved with the
  status (`reconciler.go:321`), the fingerprint with the annotations (339). If the patch is lost and the referent then goes
  back to an earlier version, the old fingerprint fits again, and the object is up to date with a version that references
  the newer referent.

Seen in traces of earlier versions of the runs or while modelling, and described here only:

* **An Orphan annotation can be taken back.** The write of the whole copy of a service object
  (`basic_controller.go:243-246`) at the latest version undoes whatever users changed during the
  reconcile. If that is the Orphan annotation, the service is deleted with its object,
  although `docs/docs/guides/deletion-policy.md` says that it remains.
* **A shared user can be left behind.** The deletion of a ServiceUser is skipped on account of another one that the cache
  shows (`serviceuser_controller.go:202`). If that one is deleted before its first pass has put the finalizer on it,
  it is gone at once, nobody deletes the user, and the comment above the call (197-200) counts on
  the "surviving resource" (`unseen` in `UserPasswords`).
* **A ClickHouse user can be left behind.** `addFinalizer` reads the object again (`common.go:205`). A pass that began on a
  copy without finalizer may so get one that is being deleted by now, create the user and save its UUID; the pass
  that deletes may still read a copy without the UUID, and takes it for a user that was never made
  (`clickhouseuser_controller.go:158`; part of `unheard`).
* **An old password can come back.** Of two ServiceUsers that share a user and a source, a pass of one that read the
  password before it changed may set it after the other has set the new one. If the first is then deleted,
  the other counts as up to date with the old password. `RotationIsNotForgotten` speaks of objects that have
  the user to themselves.
* **A privilege that two objects list can be lost.** Either object revokes by its own manifest
  (`clickhousegrant_controller.go:77`), and the other, whose generation is processed, does not look (`contested` in `ClickhouseGrants`).
* **A level that was taken off can stay.** The record that the operator set
  it is an annotation saved after the registration (`kafkaschema_controller.go:285`); an edit in between refuses the save
  (`unowned` in `SchemaReferences`).
* **A migration may not be followed.** If the object is saved and its status is not, the
  condition that says "in progress" is lost, and the object is ready (`unreported` in `ServiceReconciler`). And if the source
  is deleted and the condition that says so is lost to a conflict, the next spec needs a Secret that is gone, although
  the comment at `tests/migration_secret_test.go:296` counts on the condition. Taking the source off
  the spec while the condition says "in progress" makes the object come back every ten seconds for ever.
* **Conditions can be lost for good.** After the object was written and its status was not
  (`basic_controller.go:249`), the object reads as ready and is not looked at again, although the comment
  above the write says that it saves the conditions.
* **A service declared powered off is never created**, unless it is a KafkaConnect. Its backups are asked for first
  (`generic_service_handler.go:428`), and there is no service that could have them, although
  `api/v1alpha1/common.go:155` says that the value is ignored during creation.
* **Processed objects are dropped on an invalid token.** The code tests the running annotation
  (`reconciler.go:555`) where the comment (656-657) speaks of objects of which no generation was ever processed.
* **A re-created immutable object takes what it finds.** If a Database (or another kind whose Update
  does nothing, such as a ClickhouseDatabase) was deleted under the Orphan policy and is created again with
  another spec, Observe finds the old resource by its name, `updateResource` calls an Update that does nothing
  (`database_controller.go:83-86`), and the object is reported ready (`reconciler.go:437`) with a
  resource that is not as it says (`Inherited` in `ManagedReconciler`). It takes four steps of users, every
  one of them legal.
* **A protected Secret can be stranded.** A reconciler reads the finalizer of the Secret from
  its cache (`reconciler.go:207`) and puts none on if the outdated copy shows one that the collector has
  just taken off; the comment at `secret_finalizer_gc_controller.go:26-28` counts on it.
* For services an invalid deletion policy is logged and the service deleted all the same; the error of an earlier
  creation stays among the conditions of a healthy service; edits of the spec made during a
  reconcile can be lost; a service that another client removes is not created again
  until its spec changes (`Settled` allows for it).
* A ProjectVPC whose VPC another client removed keeps its identifier and asks for it for ever if
  the next identifier is not saved (`KeepsDanglingID` in `RemoteIdentity`).
* Schemas that reference each other register new versions in turn without end (`cyclic` in `SchemaReferences`).

## 6. What is not modelled

* The service kinds: adapters that name fields and build Secrets. The PostgreSQL upgrade check
  waits for a task inside one reconcile.
* In `ManagedReconciler`: references to disabled kinds; in `RemoteIdentity`: updates in place of
  an integration's or endpoint's configuration, pages of entries, that `Delete` of an upgrade step asks by content
  whatever ID is saved; in `RemoteIdentity` and `UserPasswords`: that an object is let go of because its token is
  invalid (`reconciler.go:555`), which is in `ManagedReconciler`; in `ClickhouseGrants`: the
  text of statements; in `SchemaReferences`: references by subject and version; in `UserPasswords`:
  certificates and the naming of Secrets.
* In `ServiceReconciler`: upgrades of PostgreSQL, disk space, service integrations,
  service specific calls, `connInfoSecretTargetDisabled`, the content of the migration Secret. Validation webhooks
  are optional, and not assumed.
* In `ServiceUserRotation`: an unreadable publication time, users who edit the published
  keys, the content of connection details.
* Users who remove finalizers by force, other controllers' finalizers, two active managers.
* Three quarters of the Go lines outside tests are generated or declarative: user configuration
  types of `api/v1alpha1/userconfig`, deep copies, CRD types with their validation markers.
  They have no steps, and no definition stands for them. Generators, charts, documentation, the sweeper and
  tests do not run in the operator.

## 7. Plan

| # | Module | Composes or extends | Abstract specification | Properties to check, theorems to prove |
|---|---|---|---|---|
| 1 | `ManagedReconciler` (done) | `ManagedKinds` | `RemoteOwnership` | done, safety proved |
| 2 | `ServiceUserRotation` (done) | | `CredentialHandover` | done, safety proved |
| 3 | `ServiceReconciler` (done) | | | done, safety proved |
| 4 | `TokenSecretGC` (done) | the reconcilers' passes, reduced to holding and needing a token | | done, safety proved |
| 5 | `UserPasswords` (done) | Secret watch with ServiceUser and ClickhouseUser | | done, safety proved |
| 6 | `RemoteIdentity` (done) | Create, persist, Delete of the kinds with an identifier | | done, safety proved |
| 7 | `SchemaReferences` (done) | several KafkaSchemas | | done, safety proved |
| 8 | `ClickhouseGrants` (done) | two objects on one service | | done, safety proved |
| 9 | data migration (done), PostgreSQL upgrades | `ServiceReconciler` | | upgrades left |
| 10 | `KindSelection`, `Pagination` | pure | reference definitions | `parseControllers` as an algorithm, pages of databases |

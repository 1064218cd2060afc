--------------------------- MODULE SchemaReferences ---------------------------
(***************************************************************************)
(* KafkaSchema objects that reference each other, and the subjects of the  *)
(* schema registry they register versions in                               *)
(* (controllers/kafkaschema_controller.go).  One worker takes all objects; *)
(* what it reads of the others, their versions and whether they are ready, *)
(* comes from a cache that shows them as of one moment.                    *)
(*                                                                         *)
(* The reconciler around it is ManagedReconciler's: the finalizer is there *)
(* from the start.  The version is in the status, all else that a pass     *)
(* leaves in the object in its annotations, which are saved after it.      *)
(***************************************************************************)
EXTENDS Integers, FiniteSets, Sequences

CONSTANTS
    Names,        \* the objects, each with a subject of its own
    NoOne,        \* no name
    Levels,       \* compatibility levels: "" in a spec is not given
    Global,       \* the registry's default level
    Rejects(_, _, _), \* does a level refuse to let one body follow another
    Setups,       \* what to look at: [wants, others, maxEdits, maxFaults]: the
                  \* specs of each object, are there other clients, and bounds
    MaxVersions   \* bound on the versions of a subject

Specs == [body: Nat, level: Levels \cup {""}, refs: SUBSET Names]

ASSUME NamesAssumption == NoOne \notin Names
ASSUME LevelsAssumption == "" \notin Levels /\ Global \in Levels
ASSUME SetupsAssumption ==
    \A s \in Setups : /\ \A n \in Names : \A w \in s.wants[n] : w \in Specs /\ n \notin w.refs
                      /\ s.others \in BOOLEAN
                      /\ {s.maxEdits, s.maxFaults} \subseteq Nat
ASSUME BoundAssumption == MaxVersions \in Nat

VARIABLES
    setup,     \* what the objects may want
    crs,       \* the objects in the API server
    cache,     \* the informer's copies of them
    queued,    \* the names in the workqueue
    pc,        \* where the worker is
    me,        \* the object it works on
    orig,      \* the copy it read
    obj,       \* that copy, with what the pass has changed
    resolved,  \* the references it will register
    registry,  \* the subjects
    edits,     \* steps of users and other clients so far
    faults,    \* failed calls and crashes so far
    cyclic,    \* history: the references have formed a cycle
    unowned,   \* history: subjects whose level was set and not recorded
    meddled,   \* history: subjects other clients have changed
    halfSaved  \* history: objects whose version was saved without its fingerprint

worker  == <<pc, me, orig, obj, resolved>>
objects == <<crs, cache, queued>>
bounds  == <<edits, faults>>
history == <<cyclic, unowned, meddled, halfSaved>>
vars    == <<setup, objects, worker, registry, bounds, history>>

----------------------------------------------------------------------------
(* Values                                                                  *)

Fresh(uid, spec) ==
    [uid |-> uid, rv |-> 1, gen |-> 1, spec |-> spec, deleting |-> FALSE, version |-> 0,
     applied |-> {}, level |-> "", running |-> FALSE, processed |-> 0]
NoObject  == Fresh(0, [body |-> 0, level |-> "", refs |-> {}])
Exists(o) == o.uid # 0
IsCurrent(o) == Exists(o) /\ o.uid = crs[me].uid /\ o.rv = crs[me].rv
Write(o)  == [o EXCEPT !.rv = @ + 1]
Regenerate(o) == [o EXCEPT !.rv = @ + 1, !.gen = @ + 1]
hasLatestGeneration(o) == o.processed = o.gen
IsReadyToUse(o) == Exists(o) /\ o.running /\ hasLatestGeneration(o)

\* A subject: its versions, soft-deleted or not, and its own level, "" if none.
NoSubject == [versions |-> <<>>, soft |-> FALSE, level |-> ""]
Visible(n) == registry[n].versions # <<>> /\ ~registry[n].soft
LevelOf(n) == IF registry[n].level = "" THEN Global ELSE registry[n].level

\* What is registered: a body and references to versions of other subjects.
Resolved(o) == {<<n, cache[n].version>> : n \in o.spec.refs}

\* resolveReferences fails: a referent is missing or has no version yet.
Unresolved(o) == \E n \in o.spec.refs : ~Exists(cache[n]) \/ cache[n].version = 0

\* fingerprintSchema.
fingerprintSchema(o, refs) == {<<o.spec.body, o.spec.level, refs>>}

PinnedBy(n, m) == \E i \in DOMAIN registry[m].versions :
                     \E r \in registry[m].versions[i].refs : r[1] = n

Init ==
    /\ setup \in Setups
    /\ crs = [n \in Names |-> NoObject]
    /\ cache = crs
    /\ queued = {}
    /\ pc = "idle"
    /\ me = NoOne
    /\ orig = NoObject
    /\ obj = NoObject
    /\ resolved = {}
    /\ registry = [n \in Names |-> NoSubject]
    /\ edits = 0
    /\ faults = 0
    /\ cyclic = FALSE
    /\ unowned = {}
    /\ meddled = {}
    /\ halfSaved = {}

----------------------------------------------------------------------------
(* The worker                                                              *)

Fault ==
    /\ faults < setup.maxFaults
    /\ faults' = faults + 1

Idle == pc' = "idle" /\ me' = NoOne /\ orig' = NoObject /\ obj' = NoObject /\ resolved' = {}

Return(requeue) ==
    /\ Idle
    /\ queued' = queued \cup (IF requeue THEN {me} ELSE {})

Goto(p, o) ==
    /\ pc' = p
    /\ obj' = o
    /\ UNCHANGED <<me, orig, resolved, queued>>

\* The pass ends: what it changed of the object, if anything, is to be saved.
Finish(o) == IF o = orig THEN Return(TRUE) ELSE Goto("persist", o)

Completed(o) == [o EXCEPT !.processed = o.gen]

Begin(n) ==
    /\ pc = "idle"
    /\ n \in queued
    /\ queued' = queued \ {n}
    /\ IF Exists(cache[n])
       THEN /\ pc' = IF cache[n].deleting THEN "delete" ELSE "observe"
            /\ me' = n
            /\ orig' = cache[n]
            /\ obj' = cache[n]
            /\ UNCHANGED resolved
       ELSE UNCHANGED worker
    /\ UNCHANGED <<setup, crs, cache, registry, bounds, history>>

\* resolveK8sRefs lets a pass through only when all referents are ready.
RefsReady == \A n \in obj.spec.refs : IsReadyToUse(cache[n])

\* A level applied before its annotation existed is taken to be ours.
Backfilled(o) == [o EXCEPT !.level = IF @ = "" THEN o.spec.level ELSE @]

\* Is it registered as it is described?
AppliedAsIs(o) == o.applied = fingerprintSchema(o, Resolved(o))

\* Observe, and the start of Create and Update, which drop the running
\* annotation.
Observe ==
    /\ pc = "observe"
    /\ \/ /\ \/ ~RefsReady
             \/ Visible(me) /\ Unresolved(obj)
          /\ Return(TRUE)
          /\ UNCHANGED faults
       \/ /\ RefsReady /\ ~Visible(me)
          /\ Goto("level", [obj EXCEPT !.running = FALSE])
          /\ UNCHANGED faults
       \/ /\ RefsReady /\ Visible(me) /\ ~Unresolved(obj)
          /\ LET found == IF AppliedAsIs(obj) THEN Backfilled(obj) ELSE obj
             IN IF AppliedAsIs(obj) /\ hasLatestGeneration(obj)
                THEN Finish(Completed([found EXCEPT !.running = TRUE]))
                ELSE Goto("level", [found EXCEPT !.running = FALSE])
          /\ UNCHANGED faults
       \/ Fault /\ Return(TRUE)
    /\ UNCHANGED <<setup, crs, cache, registry, edits, history>>

\* The level to be set: the one given, or, when it is no longer given and is
\* still the one we set, the global default.  Mutant: it is left alone then.
LevelGiven == IF obj.spec.level # "" THEN obj.spec.level ELSE registry[me].level
LevelToSet ==
    IF obj.spec.level # "" THEN obj.spec.level
    ELSE IF obj.level # "" /\ registry[me].level = obj.level THEN Global
    ELSE registry[me].level

\* applySchema: the references are resolved, then applyCompatibilityLevel.
ApplyLevel ==
    /\ pc = "level"
    /\ \/ Unresolved(obj) /\ Finish(obj) /\ UNCHANGED <<registry, faults, unowned>>
       \/ /\ ~Unresolved(obj)
          /\ registry' = [registry EXCEPT ![me].level = LevelToSet]
          /\ \/ /\ pc' = "post"
                /\ obj' = [obj EXCEPT !.level = obj.spec.level]
                /\ resolved' = Resolved(obj)
                /\ UNCHANGED <<me, orig, queued, faults, unowned>>
             \/ /\ Fault
                /\ Finish(obj)
                /\ unowned' = IF obj.spec.level # "" THEN unowned \cup {me} ELSE unowned
       \/ Fault /\ Finish(obj) /\ UNCHANGED <<registry, unowned>>
    /\ UNCHANGED <<setup, crs, cache, edits, cyclic, meddled, halfSaved>>

New == [body |-> obj.spec.body, refs |-> resolved]
Has(n, v) == \E i \in DOMAIN registry[n].versions : registry[n].versions[i] = v

\* The registry takes a version it has; or a new one, if the subject's level
\* allows it and the versions it references are there.
Accepted ==
    LET vs == registry[me].versions
    IN \/ Has(me, New)
       \/ /\ vs # <<>> => ~Rejects(LevelOf(me), vs[Len(vs)].body, New.body)
          /\ \A r \in New.refs : Visible(r[1]) /\ r[2] \in DOMAIN registry[r[1]].versions

\* Mutant: a version that is there is added again.
RegisteredAgain == Append(registry[me].versions, New)
Registered == IF Has(me, New) THEN registry[me].versions ELSE Append(registry[me].versions, New)

\* lookupVersionForID: from the latest version down.  Mutant: the latest.
LatestVersion == Len(registry'[me].versions)
Version == LET vs == registry'[me].versions
           IN CHOOSE i \in DOMAIN vs :
                 vs[i] = New /\ \A j \in DOMAIN vs : vs[j] = New => j <= i

\* ServiceSchemaRegistrySubjectVersionPost and lookupVersionForID; at the end
\* completeReconcileSuccess.
Post ==
    /\ pc = "post"
    /\ \/ /\ Accepted
          /\ Len(Registered) <= MaxVersions
          /\ registry' = [registry EXCEPT ![me].versions = Registered, ![me].soft = FALSE]
          /\ \/ /\ Finish(Completed([obj EXCEPT !.version = Version,
                                               !.applied = fingerprintSchema(obj, resolved)]))
                /\ UNCHANGED faults
             \/ Fault /\ Finish(obj)
       \/ ~Accepted /\ Finish(obj) /\ UNCHANGED <<registry, faults>>
       \/ Fault /\ Finish(obj) /\ UNCHANGED registry
    /\ UNCHANGED <<setup, crs, cache, edits, history>>

\* The level the pass has set is not that in the annotations.
Unrecorded == pc \in {"post", "persist", "annotate"} /\ obj.level \notin {"", orig.level}

\* A write of the pass is refused, or fails, and ends it: what it knows of the
\* level it set is gone.
NotSaved ==
    /\ \/ ~IsCurrent(obj) /\ UNCHANGED faults
       \/ Fault
    /\ unowned' = IF Unrecorded THEN unowned \cup {me} ELSE unowned
    /\ Return(TRUE)
    /\ UNCHANGED <<crs, halfSaved>>

Recorded == unowned' = IF obj.level = registry[me].level THEN unowned \ {me} ELSE unowned

\* persistReconcileState, first part: the status, refused if the object has
\* changed since it was read.  The annotations follow, if they have changed.
WithVersion == Write([orig EXCEPT !.version = obj.version])

Persist ==
    /\ pc = "persist"
    /\ \/ /\ IsCurrent(obj)
          /\ crs' = [crs EXCEPT ![me] = WithVersion]
          /\ halfSaved' = IF obj.version # orig.version THEN halfSaved \cup {me} ELSE halfSaved
          /\ \/ /\ Write(obj) = WithVersion
                /\ Recorded
                /\ Return(TRUE)
             \/ /\ Write(obj) # WithVersion
                /\ pc' = "annotate"
                /\ orig' = WithVersion
                /\ obj' = Write(obj)
                /\ UNCHANGED <<me, resolved, queued, unowned>>
          /\ UNCHANGED faults
       \/ NotSaved
    /\ UNCHANGED <<setup, cache, registry, edits, cyclic, meddled>>

\* What a registration leaves in the annotations.
Registration(o) == <<o.applied, o.processed>>

\* Second part: the patch of the annotations, refused if the object has changed
\* since its status was saved.
Annotate ==
    /\ pc = "annotate"
    /\ \/ /\ IsCurrent(obj)
          /\ crs' = [crs EXCEPT ![me] = Write(obj)]
          /\ halfSaved' = IF Registration(obj) # Registration(orig) THEN halfSaved \ {me} ELSE halfSaved
          /\ Recorded
          /\ Return(TRUE)
          /\ UNCHANGED faults
       \/ NotSaved
    /\ UNCHANGED <<setup, cache, registry, edits, cyclic, meddled>>

\* findKafkaSchemaRefDependents, in the cache.
Dependents == {n \in Names \ {me} : Exists(cache[n]) /\ me \in cache[n].spec.refs}

\* What is not there cannot be deleted.  Mutant: it is marked all the same.
SoftDeletedBlindly == [registry[me] EXCEPT !.soft = TRUE]
SoftDeleted        == [registry[me] EXCEPT !.soft = Visible(me) \/ @]

\* Delete: refused while another object references this one; then a soft
\* delete, refused while a version of another subject references this one.
Delete ==
    /\ pc = "delete"
    /\ \/ /\ \/ Dependents # {}
             \/ Visible(me) /\ \E m \in Names \ {me} : PinnedBy(me, m)
          /\ Return(TRUE)
          /\ UNCHANGED <<registry, faults>>
       \/ /\ Dependents = {}
          /\ Visible(me) => \A m \in Names \ {me} : ~PinnedBy(me, m)
          /\ registry' = [registry EXCEPT ![me] = SoftDeleted]
          /\ \/ Goto("harddelete", obj) /\ UNCHANGED faults
             \/ Fault /\ Return(TRUE)
       \/ Fault /\ Return(TRUE) /\ UNCHANGED registry
    /\ UNCHANGED <<setup, crs, cache, edits, history>>

HardDelete ==
    /\ pc = "harddelete"
    /\ \/ /\ registry' = [registry EXCEPT ![me] = NoSubject]
          /\ \/ Goto("unfinalize", obj) /\ UNCHANGED faults
             \/ Fault /\ Return(TRUE)
       \/ Fault /\ Return(TRUE) /\ UNCHANGED registry
    /\ UNCHANGED <<setup, crs, cache, edits, history>>

\* removeFinalizer, on the object as the cache has it by now; a new incarnation,
\* which no pass has looked at yet, is left as it is.
RemoveFinalizer ==
    /\ pc = "unfinalize"
    /\ \/ /\ IsCurrent(cache[me])
          /\ IF crs[me].deleting
             THEN /\ crs' = [crs EXCEPT ![me] = NoObject]
                  /\ unowned' = unowned \ {me}
                  /\ meddled' = meddled \ {me}
                  /\ halfSaved' = halfSaved \ {me}
             ELSE UNCHANGED <<crs, unowned, meddled, halfSaved>>
          /\ Return(FALSE)
          /\ UNCHANGED faults
       \/ /\ ~IsCurrent(cache[me])
          /\ Return(Exists(cache[me]))
          /\ UNCHANGED <<crs, faults, unowned, meddled, halfSaved>>
       \/ Fault /\ Return(TRUE) /\ UNCHANGED <<crs, unowned, meddled, halfSaved>>
    /\ UNCHANGED <<setup, cache, registry, edits, cyclic>>

\* The manager stops and starts again, and lists every object.
Crash ==
    /\ Fault
    /\ Idle
    /\ cache' = crs
    /\ queued' = {n \in Names : Exists(crs[n])}
    /\ unowned' = IF Unrecorded THEN unowned \cup {me} ELSE unowned
    /\ UNCHANGED <<setup, crs, registry, edits, cyclic, meddled, halfSaved>>

----------------------------------------------------------------------------
(* The cluster, its users and other clients of the registry                *)

\* findKafkaSchemasReferencing, for those kafkaSchemaVersionChangedPredicate
\* lets through: created, or with another version or generation.
Noticed(n) == /\ Exists(crs[n])
              /\ \/ crs[n].uid # cache[n].uid
                 \/ crs[n].version # cache[n].version
                 \/ crs[n].gen # cache[n].gen

SyncCache ==
    /\ cache # crs
    /\ cache' = crs
    /\ queued' = queued \cup {n \in Names : crs[n] # cache[n]}
                        \cup {n \in Names : \E m \in crs[n].spec.refs : Noticed(m)}
    /\ UNCHANGED <<setup, crs, worker, registry, bounds, history>>

\* Some of the objects only reference each other.
HasCycle(c) == \E S \in (SUBSET Names) \ {{}} : \A n \in S : c[n].spec.refs \cap S # {}

Edit ==
    /\ edits < setup.maxEdits
    /\ edits' = edits + 1
    /\ cyclic' = (cyclic \/ HasCycle(crs'))
    /\ UNCHANGED <<setup, cache, queued, worker, faults, unowned, halfSaved>>

UserCreates(n) ==
    /\ ~Exists(crs[n])
    /\ \E s \in setup.wants[n] : crs' = [crs EXCEPT ![n] = Fresh(edits + 1, s)]
    /\ Edit
    /\ UNCHANGED <<registry, meddled>>

UserEditsSpec(n) ==
    /\ Exists(crs[n]) /\ ~crs[n].deleting
    /\ \E s \in setup.wants[n] \ {crs[n].spec} :
          crs' = [crs EXCEPT ![n] = Regenerate([@ EXCEPT !.spec = s])]
    /\ Edit
    /\ UNCHANGED <<registry, meddled>>

UserDeletes(n) ==
    /\ Exists(crs[n]) /\ ~crs[n].deleting
    /\ crs' = [crs EXCEPT ![n] = Regenerate([@ EXCEPT !.deleting = TRUE])]
    /\ Edit
    /\ UNCHANGED <<registry, meddled>>

OthersSetLevel(n) ==
    /\ setup.others
    /\ Visible(n)
    /\ \E l \in Levels \ {registry[n].level} : registry' = [registry EXCEPT ![n].level = l]
    /\ meddled' = meddled \cup {n}
    /\ UNCHANGED crs
    /\ Edit

OthersDeleteSubject(n) ==
    /\ setup.others
    /\ Visible(n)
    /\ \A m \in Names \ {n} : ~PinnedBy(n, m)
    /\ registry' = [registry EXCEPT ![n] = NoSubject]
    /\ meddled' = meddled \cup {n}
    /\ UNCHANGED crs
    /\ Edit

----------------------------------------------------------------------------
Reconcile == \/ \E n \in Names : Begin(n)
             \/ Observe \/ ApplyLevel \/ Post \/ Persist \/ Annotate
             \/ Delete \/ HardDelete \/ RemoveFinalizer

Others == \E n \in Names : \/ UserCreates(n) \/ UserEditsSpec(n) \/ UserDeletes(n)
                           \/ OthersSetLevel(n) \/ OthersDeleteSubject(n)

Next == Reconcile \/ Crash \/ SyncCache \/ Others

Spec == Init /\ [][Next]_vars

\* The worker takes every queued object, ends every pass, and watches deliver.
FairSpec == /\ Spec
            /\ WF_vars(Reconcile) /\ WF_vars(SyncCache)
            /\ \A n \in Names : SF_vars(Begin(n))

----------------------------------------------------------------------------
(* Properties                                                              *)

\* An object, or a copy of one: no generation is processed before it is there.
Refs         == SUBSET (Names \X Nat)
Fingerprints == Nat \X (Levels \cup {""}) \X Refs
Objects == [uid: Nat, rv: Nat, gen: Nat, spec: Specs, deleting: BOOLEAN, version: Nat,
            applied: SUBSET Fingerprints, level: Levels \cup {""}, running: BOOLEAN,
            processed: Nat]
IsObject(o) == /\ o \in Objects
               /\ o.version <= MaxVersions
               /\ o.gen # 0 /\ o.processed <= o.gen
Versions == [body: Nat, refs: Refs]
Subjects == [versions: Seq(Versions), soft: BOOLEAN, level: Levels \cup {""}]

TypeOK ==
    /\ setup \in Setups
    /\ crs \in [Names -> Objects] /\ cache \in [Names -> Objects]
    /\ \A n \in Names : IsObject(crs[n]) /\ IsObject(cache[n])
    /\ IsObject(orig) /\ IsObject(obj) /\ resolved \in Refs
    /\ queued \subseteq Names
    /\ pc \in {"idle", "observe", "level", "post", "persist", "annotate", "delete",
              "harddelete", "unfinalize"}
    /\ IF pc = "idle" THEN me = NoOne
       ELSE /\ me \in Names /\ Exists(obj) /\ obj.uid = orig.uid
            /\ (pc \in {"delete", "harddelete", "unfinalize"} <=> obj.deleting)
    /\ registry \in [Names -> Subjects]
    /\ \A n \in Names : registry[n].soft => registry[n].versions # <<>>
    /\ edits \in Nat /\ faults \in Nat
    /\ cyclic \in BOOLEAN /\ unowned \subseteq Names /\ meddled \subseteq Names
    /\ halfSaved \subseteq Names

Live == {n \in Names : Exists(crs[n]) /\ ~crs[n].deleting}

\* The version in the status of o is there, with the body that o describes and
\* versions of all it references.
IsRegistered(o, n) ==
    /\ o.version \in DOMAIN registry[n].versions
    /\ LET v == registry[n].versions[o.version]
       IN v.body = o.spec.body /\ {r[1] : r \in v.refs} = o.spec.refs

\* A ready object is registered: the version in its status has the body it
\* describes and the references it was resolved to.
ReadyIsRegistered ==
    \A n \in Live \ meddled : IsReadyToUse(crs[n]) => IsRegistered(crs[n], n)

\* A registered schema only moves on when somebody changes it or one it
\* references: no subject gets more versions than there were edits, whatever
\* answers and writes are lost, as long as there has been no cycle.  Said of two
\* objects: among more, one edit may reach a third along two ways, at a version
\* for each.
Pair      == \E n, m \in Names : Names = {n, m}
NoRunaway == Pair /\ ~cyclic => \A n \in Names : Len(registry[n].versions) <= edits

\* Its subject's level refuses what the object describes now.
Refused(n) == LET vs == registry[n].versions
              IN vs # <<>> /\ Rejects(LevelOf(n), vs[Len(vs)].body, crs[n].spec.body)

\* All it references, however far, is there to be registered.
Supported(n) == \E S \in SUBSET Live : n \in S /\ \A m \in S : ~Refused(m) /\ crs[m].spec.refs \subseteq S

\* The level given is set; or, if none is, none of ours is left.
LevelSettled(n) ==
    IF crs[n].spec.level # "" THEN registry[n].level = crs[n].spec.level
    ELSE n \in unowned \/ registry[n].level \in {"", Global}

\* The version in the status is what n describes, as of the current versions of
\* what it references.
IsUpToDate(n) ==
    /\ crs[n].version \in DOMAIN registry[n].versions
    /\ registry[n].versions[crs[n].version] =
          [body |-> crs[n].spec.body, refs |-> {<<m, crs[m].version>> : m \in crs[n].spec.refs}]

\* The status may go on naming a version that others have deleted.
Settled(n) == IsReadyToUse(crs[n]) /\ (n \in meddled \/ (IsUpToDate(n) /\ LevelSettled(n)))

\* The same, but a version that was saved without its fingerprint may go on
\* being taken for the version of the fingerprint that is there.
SettledIfSaved(n) ==
    /\ IsReadyToUse(crs[n])
    /\ n \in meddled \/ ((IsUpToDate(n) \/ n \in halfSaved) /\ LevelSettled(n))

\* What keeps a deleted object: another one that references it, or a version
\* of another subject that does, or did.
Kept(n) == \E m \in Names \ {n} : (Exists(crs[m]) /\ n \in crs[m].spec.refs) \/ PinnedBy(n, m)

\* Without a cycle, once left alone, what is deleted goes, dependents first,
\* and what is not is registered with the current versions of what it
\* references, with the level it gives.
Settles ==
    <>[](cyclic \/ \A n \in Names :
              /\ n \in Live /\ Supported(n) => SettledIfSaved(n)
              /\ crs[n].deleting => Kept(n))

\* Without a cycle, once left alone, every object's version is that of what it
\* describes: the fingerprint that Observe compares is that of the schema last
\* applied (kafkaschema_controller.go:133).  It is not when the version was saved
\* and the annotations were not, and its referent then goes back.
FollowsReferents ==
    <>[](cyclic \/ \A n \in Live : Supported(n) => Settled(n))
=============================================================================

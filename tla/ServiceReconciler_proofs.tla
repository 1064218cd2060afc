---------------------- MODULE ServiceReconciler_proofs ----------------------
(***************************************************************************)
(* Theorems about ServiceReconciler, for every set of specs and every      *)
(* bound.                                                                  *)
(***************************************************************************)
EXTENDS ServiceInvariant, TLAPS

----------------------------------------------------------------------------
(* Values                                                                  *)

\* r is o with another status, processed generation, marker or version.
Rewrites(r, o) ==
    /\ r \in Objects
    /\ r.uid = o.uid /\ r.gen = o.gen /\ r.spec = o.spec /\ r.policy = o.policy
    /\ r.deleting = o.deleting /\ r.finalizer = o.finalizer

\* ... and of them, nothing that the invariants speak of.
Restates(r, o) == Rewrites(r, o) /\ r.processed = o.processed /\ r.migration = o.migration

LEMMA NoObjectFacts ==
    /\ NoObject \in Objects /\ NoObject.uid = 0 /\ NoObject.gen = 1 /\ NoObject.processed = 0
    /\ ~NoObject.deleting /\ ~NoObject.finalizer /\ NoObject.migration = "none" /\ ~Exists(NoObject)
BY DEF NoObject, Fresh, Objects, MaybeSpec, Policies, Errors, Markers, Phases, Migrations, Exists

LEMMA NoRemoteFacts ==
    /\ NoRemote \in Remotes /\ NoRemote.phase = "absent" /\ NoRemote.spec = NoSpec
    /\ NoRemote.migration = "none"
BY DEF NoRemote, Remotes, Phases, MaybeSpec, Migrations

LEMMA FreshFacts ==
    ASSUME NEW u \in Nat, NEW s \in Specs
    PROVE  /\ Fresh(u, s) \in Objects
           /\ Fresh(u, s).uid = u /\ Fresh(u, s).gen = 1 /\ Fresh(u, s).spec = s
           /\ Fresh(u, s).processed = 0 /\ ~Fresh(u, s).deleting /\ ~Fresh(u, s).finalizer
           /\ Fresh(u, s).migration = "none"
BY DEF Fresh, Objects, MaybeSpec, Policies, Errors, Markers, Phases, Migrations

LEMMA Selves == ASSUME NEW o \in Objects PROVE Restates(o, o)
BY DEF Restates, Rewrites

LEMMA StatusValues ==
    ASSUME NEW o \in Objects
    PROVE  /\ Restates([o EXCEPT !.err = "Preconditions"], o)
           /\ Restates([o EXCEPT !.marker = "none", !.running = FALSE], o)
           /\ Restates(PublishFailed(o), o)
<1>1. Restates([o EXCEPT !.err = "Preconditions"], o)
  BY DEF Restates, Rewrites, Objects, Errors
<1>2. Restates([o EXCEPT !.marker = "none", !.running = FALSE], o)
  BY DEF Restates, Rewrites, Objects, Markers
<1>3. Restates(PublishFailed(o), o)
  BY DEF Restates, Rewrites, Objects, Markers, Errors, PublishFailed
<1> QED
  BY <1>1, <1>2, <1>3

LEMMA SeenValue == ASSUME NEW o \in Objects, NEW p \in Phases PROVE Restates([o EXCEPT !.state = p], o)
BY DEF Restates, Rewrites, Objects

LEMMA WorkingValue == ASSUME NEW o \in Objects, NEW m \in {"on", "off"} PROVE Restates(Working(o, m), o)
<1> DEFINE e == IF o.err = "ConnInfoSecret" THEN "none" ELSE o.err
<1>1. e \in Errors /\ m \in Markers
  BY DEF Objects, Errors, Markers
<1>2. Working(o, m) = [o EXCEPT !.marker = m, !.running = TRUE, !.err = e]
  BY DEF Working
<1> HIDE DEF e
<1> QED
  BY <1>1, <1>2 DEF Restates, Rewrites, Objects

LEMMA FailedValues ==
    ASSUME NEW o \in Objects
    PROVE  LET r == [o EXCEPT !.processed = 0, !.marker = "none"]
               e == [o EXCEPT !.processed = 0, !.marker = "none", !.err = "CreateOrUpdate"]
           IN  /\ Rewrites(r, o) /\ r.processed = 0 /\ r.migration = o.migration
               /\ Rewrites(e, o) /\ e.processed = 0 /\ e.migration = o.migration
BY DEF Rewrites, Objects, Markers, Errors

LEMMA ProcessedValue ==
    ASSUME NEW o \in Objects
    PROVE  Rewrites(Processed(o), o) /\ Processed(o).processed = o.gen /\ Processed(o).migration = o.migration
<1> DEFINE g == o.gen
<1>1. g \in Nat
  BY DEF Objects
<1>2. Processed(o) = [o EXCEPT !.processed = g, !.marker = "none", !.running = FALSE]
  BY DEF Processed
<1>3. Rewrites([o EXCEPT !.processed = g, !.marker = "none", !.running = FALSE], o)
  BY <1>1 DEF Rewrites, Objects, Markers
<1> HIDE DEF g
<1>4. /\ [o EXCEPT !.processed = g, !.marker = "none", !.running = FALSE].processed = g
      /\ [o EXCEPT !.processed = g, !.marker = "none", !.running = FALSE].migration = o.migration
  BY DEF Objects
<1> QED
  BY <1>2, <1>3, <1>4 DEF g

LEMMA MigrationValue ==
    ASSUME NEW o \in Objects, NEW m \in Migrations
    PROVE  LET r == [o EXCEPT !.migration = m]
           IN  Rewrites(r, o) /\ r.processed = o.processed /\ r.migration = m
BY DEF Rewrites, Objects

LEMMA VersionValue ==
    ASSUME NEW o \in Objects, NEW n \in Nat
    PROVE  Restates([o EXCEPT !.rv = n], o)
BY DEF Restates, Rewrites, Objects

LEMMA BumpedValue == ASSUME NEW o \in Objects PROVE Restates(Bumped(o), o)
<1> DEFINE n == o.rv + 1
<1>1. n \in Nat
  BY DEF Objects
<1>2. Bumped(o) \in {o, [o EXCEPT !.rv = n]}
  BY DEF Bumped
<1> HIDE DEF n
<1> QED
  BY <1>1, <1>2, Selves, VersionValue

\* What a write of the copy o leaves in the API server.
LEMMA UpdateValue ==
    ASSUME NEW o \in Objects, cr \in Objects
    PROVE  /\ Update(o) \in Objects
           /\ Update(o).uid = cr.uid /\ Update(o).deleting = cr.deleting
           /\ Update(o).migration = cr.migration /\ Update(o).spec = o.spec
           /\ Update(o).policy = o.policy /\ Update(o).finalizer = o.finalizer
           /\ Update(o).processed = o.processed
           /\ Update(o).gen = IF o.spec = cr.spec THEN cr.gen ELSE cr.gen + 1
<1> DEFINE g == IF o.spec = cr.spec THEN cr.gen ELSE cr.gen + 1
           w == [cr EXCEPT !.spec = o.spec, !.gen = g, !.policy = o.policy, !.finalizer = o.finalizer,
                           !.processed = o.processed, !.marker = o.marker]
<1>1. g \in Nat
  BY DEF Objects
<1>2. Update(o) = Bumped(w)
  BY DEF Update
<1>3. /\ o.spec \in MaybeSpec /\ o.policy \in Policies /\ o.finalizer \in BOOLEAN
      /\ o.processed \in Nat /\ o.marker \in Markers
  BY DEF Objects
<1> HIDE DEF g
<1>4. w \in Objects
  BY <1>1, <1>3 DEF Objects
<1>5. /\ w.uid = cr.uid /\ w.deleting = cr.deleting /\ w.migration = cr.migration
      /\ w.spec = o.spec /\ w.policy = o.policy /\ w.finalizer = o.finalizer
      /\ w.processed = o.processed /\ w.gen = g
  BY DEF Objects
<1> HIDE DEF w
<1>6. Restates(Bumped(w), w)
  BY <1>4, BumpedValue
<1> QED
  BY <1>2, <1>5, <1>6 DEF Restates, Rewrites, g

LEMMA StatusUpdateValue ==
    ASSUME NEW o \in Objects, cr \in Objects
    PROVE  /\ Rewrites(StatusUpdate(o), cr) /\ StatusUpdate(o).processed = cr.processed
           /\ StatusUpdate(o).migration = o.migration
<1> DEFINE w == [cr EXCEPT !.state = o.state, !.running = o.running, !.err = o.err,
                           !.migration = o.migration]
<1>1. StatusUpdate(o) = Bumped(w)
  BY DEF StatusUpdate
<1>2. w \in Objects
  BY DEF Objects
<1>3. Rewrites(w, cr) /\ w.processed = cr.processed /\ w.migration = o.migration
  BY <1>2 DEF Rewrites, Objects
<1> HIDE DEF w
<1>4. Restates(Bumped(w), w)
  BY <1>2, BumpedValue
<1> QED
  BY <1>1, <1>3, <1>4 DEF Restates, Rewrites

----------------------------------------------------------------------------
(* What a step of the worker leaves in its hands                           *)

WorkerRests   == pc' = "idle" /\ orig' = NoObject /\ obj' = NoObject /\ again' = FALSE
WorkerGoes(P) == pc' \in P /\ orig' = orig /\ again' \in BOOLEAN

\* It returns, or goes on in P with a copy that has changed in its status only, ...
Ends(P) == /\ queued' \in BOOLEAN
           /\ WorkerRests \/ (WorkerGoes(P) /\ Restates(obj', obj))

\* ... or in nothing at all ...
Passes(P) == queued' \in BOOLEAN /\ WorkerGoes(P) /\ obj' = obj

\* ... or that has nothing processed.
Fails == /\ queued' \in BOOLEAN
         /\ \/ WorkerRests
            \/ /\ WorkerGoes({"write"})
               /\ Rewrites(obj', obj) /\ obj'.processed = 0 /\ obj'.migration = obj.migration

LEMMA RestatesTrans ==
    ASSUME NEW o, NEW r, NEW q, Restates(r, o), Restates(q, r)
    PROVE  Restates(q, o)
BY DEF Restates, Rewrites

LEMMA ReturnRests ==
    ASSUME TypeOK, NEW b \in BOOLEAN, Return(b)
    PROVE  WorkerRests /\ queued' \in BOOLEAN /\ (\A P : Ends(P)) /\ Fails
BY DEF TypeOK, Return, WorkerRests, Ends, Fails

LEMMA GotoGoes ==
    ASSUME TypeOK, NEW p, NEW o, Goto(p, o)
    PROVE  /\ queued' \in BOOLEAN /\ WorkerGoes({p}) /\ obj' = o
           /\ Restates(o, obj) => Ends({p})
           /\ o = obj => Passes({p})
BY DEF TypeOK, Goto, WorkerGoes, Ends, Passes

LEMMA FinishEnds ==
    ASSUME TypeOK, NEW o, NEW end, Finish(o, end)
    PROVE  queued' \in BOOLEAN /\ (WorkerRests \/ (WorkerGoes({"write"}) /\ obj' = o))
<1>1. CASE o = orig
  <2>1. Return(end # "done")
    BY <1>1 DEF Finish
  <2> QED
    BY <2>1, ReturnRests
<1>2. CASE o # orig
  BY <1>2 DEF Finish, TypeOK, WorkerGoes
<1> QED
  BY <1>1, <1>2

LEMMA FinishRestates ==
    ASSUME TypeOK, NEW o, Restates(o, obj), NEW end, Finish(o, end)
    PROVE  Ends({"write"})
BY FinishEnds DEF Ends

LEMMA EndsWider == ASSUME NEW P, NEW Q, P \subseteq Q, Ends(P) PROVE Ends(Q)
BY DEF Ends, WorkerGoes

LEMMA FailedFails == ASSUME TypeOK, ApplyFailed \/ Refused PROVE Fails
<1> DEFINE r == [obj EXCEPT !.processed = 0, !.marker = "none"]
           e == [obj EXCEPT !.processed = 0, !.marker = "none", !.err = "CreateOrUpdate"]
<1>1. obj \in Objects
  BY DEF TypeOK
<1>2. /\ Rewrites(r, obj) /\ r.processed = 0 /\ r.migration = obj.migration
      /\ Rewrites(e, obj) /\ e.processed = 0 /\ e.migration = obj.migration
  BY <1>1, FailedValues
<1>3. Finish(r, "requeue") \/ Finish(e, "error")
  BY DEF ApplyFailed, Refused
<1> HIDE DEF r, e
<1> QED
  BY <1>2, <1>3, FinishEnds DEF Fails

LEMMA SettleEnds ==
    ASSUME TypeOK, NEW o \in Objects, Restates(o, obj), Settle(o)
    PROVE  Ends({"write", "publish"})
<1>1. CASE o.spec \in OffSpecs
  <2>1. Restates(Working(o, "off"), obj)
    BY WorkingValue, RestatesTrans
  <2>2. \E end : Finish(Working(o, "off"), end)
    BY <1>1 DEF Settle, Observed
  <2> QED
    BY <2>1, <2>2, FinishRestates, EndsWider
<1>2. CASE o.spec \notin OffSpecs
  BY <1>2, GotoGoes, EndsWider DEF Settle
<1> QED
  BY <1>1, <1>2

LEMMA RefsEnds == ASSUME TypeOK, ResolveRefs PROVE pc = "refs" /\ Ends({"backups", "apply", "write"})
<1>1. obj \in Objects
  BY DEF TypeOK
<1>2. CASE Goto(IF obj.spec \in OffSpecs /\ setup.backedUp THEN "backups" ELSE "apply", obj)
  <2>1. PICK p \in {"backups", "apply"} : Goto(p, obj)
    BY <1>2
  <2>2. Ends({p})
    BY <1>1, <2>1, GotoGoes, Selves
  <2> QED
    BY <2>2, EndsWider DEF ResolveRefs
<1>3. CASE Finish(obj, "requeue")
  BY <1>1, <1>3, FinishRestates, Selves, EndsWider DEF ResolveRefs
<1>4. CASE Finish([obj EXCEPT !.err = "Preconditions"], "error")
  BY <1>1, <1>4, FinishRestates, StatusValues, EndsWider DEF ResolveRefs
<1> QED
  BY <1>2, <1>3, <1>4 DEF ResolveRefs

LEMMA BackupsEnds == ASSUME TypeOK, CheckBackups PROVE pc = "backups" /\ Ends({"apply", "write"})
<1>1. obj \in Objects
  BY DEF TypeOK
<1>2. CASE Goto("apply", obj)
  BY <1>1, <1>2, GotoGoes, Selves, EndsWider DEF CheckBackups
<1>3. CASE Finish(obj, "requeue")
  BY <1>1, <1>3, FinishRestates, Selves, EndsWider DEF CheckBackups
<1>4. CASE Finish([obj EXCEPT !.err = "Preconditions"], "error")
  BY <1>1, <1>4, FinishRestates, StatusValues, EndsWider DEF CheckBackups
<1> QED
  BY <1>2, <1>3, <1>4 DEF CheckBackups

LEMMA ApplyEnds ==
    ASSUME TypeOK, Apply
    PROVE  /\ pc = "apply"
           /\ \/ hasLatestGeneration(obj) /\ Passes({"observe"})
              \/ Passes({"create", "update"})
              \/ Fails
<1>1. CASE hasLatestGeneration(obj) /\ Goto("observe", obj)
  BY <1>1, GotoGoes DEF Apply
<1>2. CASE Goto(IF InUse THEN "update" ELSE "create", obj)
  BY <1>2, GotoGoes DEF Apply, Passes, WorkerGoes
<1>3. CASE ApplyFailed \/ Refused
  BY <1>3, FailedFails DEF Apply
<1> QED
  BY <1>1, <1>2, <1>3 DEF Apply

LEMMA ObserveEnds ==
    ASSUME TypeOK, Observe
    PROVE  /\ pc = "observe"
           /\ \/ obj.spec \in MigratingSpecs /\ Ends({"migration"})
              \/ Ends({"write", "publish"})
<1> DEFINE seen == [obj EXCEPT !.state = remote.phase]
<1>1. obj \in Objects /\ remote.phase \in Phases
  BY DEF TypeOK, Remotes
<1>2. Restates(seen, obj)
  BY <1>1, SeenValue
<1>3. seen \in Objects
  BY <1>2 DEF Restates, Rewrites
<1>4. \/ Finish(obj, "requeue") \/ Finish(obj, "error")
      \/ Observed(seen)
      \/ obj.spec \in MigratingSpecs /\ Goto("migration", seen)
      \/ Settle(seen)
  BY DEF Observe
<1> HIDE DEF seen
<1>5. CASE Finish(obj, "requeue") \/ Finish(obj, "error")
  BY <1>1, <1>5, FinishRestates, Selves, EndsWider DEF Observe
<1>6. CASE Observed(seen)
  <2>1. \E end : Finish(seen, end)
    BY <1>6 DEF Observed
  <2> QED
    BY <1>2, <2>1, FinishRestates, EndsWider DEF Observe
<1>7. CASE obj.spec \in MigratingSpecs /\ Goto("migration", seen)
  BY <1>2, <1>7, GotoGoes DEF Observe
<1>8. CASE Settle(seen)
  BY <1>2, <1>3, <1>8, SettleEnds DEF Observe
<1> QED
  BY <1>4, <1>5, <1>6, <1>7, <1>8

LEMMA SourceEnds == ASSUME TypeOK, DeleteSource PROVE pc = "source" /\ Ends({"write", "publish"})
<1>1. obj \in Objects
  BY DEF TypeOK
<1>2. CASE Settle(obj)
  BY <1>1, <1>2, SettleEnds, Selves DEF DeleteSource
<1>3. CASE Finish(obj, "error")
  BY <1>1, <1>3, FinishRestates, Selves, EndsWider DEF DeleteSource
<1> QED
  BY <1>2, <1>3 DEF DeleteSource

LEMMA PublishEnds == ASSUME TypeOK, Publish PROVE pc = "publish" /\ Ends({"write"})
<1>1. obj \in Objects
  BY DEF TypeOK
<1>2. CASE Observed(Working(obj, "on"))
  <2>1. \E end : Finish(Working(obj, "on"), end)
    BY <1>2 DEF Observed
  <2> QED
    BY <1>1, <2>1, FinishRestates, WorkingValue DEF Publish
<1>3. CASE Finish(PublishFailed(obj), "error")
  BY <1>1, <1>3, FinishRestates, StatusValues DEF Publish
<1> QED
  BY <1>2, <1>3 DEF Publish

\* With the migration looked up, which may be taken for done.
LEMMA MigrationEnds ==
    ASSUME TypeOK, CheckMigration
    PROVE  /\ pc = "migration" /\ queued' \in BOOLEAN
           /\ \/ WorkerRests
              \/ /\ WorkerGoes({"write", "publish", "source"})
                 /\ Rewrites(obj', obj) /\ obj'.processed = obj.processed
                 /\ obj'.migration \in {obj.migration, Reported(remote.migration)}
                 /\ pc' = "source" => obj'.migration = "done"
<1>0. obj \in Objects /\ remote.migration \in Migrations \cup {"asked"} /\ pc = "migration"
  BY DEF TypeOK, Remotes, CheckMigration
<1> DEFINE m    == Reported(remote.migration)
           seen == IF obj.migration = "done" THEN obj ELSE [obj EXCEPT !.migration = m]
<1>1. m \in Migrations
  BY <1>0 DEF Reported, Migrations
<1> HIDE DEF m
<1>2. /\ Rewrites(seen, obj) /\ seen.processed = obj.processed
      /\ seen.migration \in {obj.migration, m}
  BY <1>0, <1>1, Selves, MigrationValue DEF Restates
<1>3. seen \in Objects
  BY <1>2 DEF Rewrites
<1>4. \/ IF Cleans(seen) THEN Goto("source", seen) ELSE Settle(seen)
      \/ Finish(obj, "error")
  BY DEF CheckMigration, m
<1> HIDE DEF seen
<1>5. CASE Cleans(seen) /\ Goto("source", seen)
  BY <1>0, <1>2, <1>5, GotoGoes DEF Cleans, WorkerGoes, m
<1>6. CASE Settle(seen)
  <2>1. CASE seen.spec \in OffSpecs
    <3>1. \E end : Finish(Working(seen, "off"), end)
      BY <1>6, <2>1 DEF Settle, Observed
    <3>2. Restates(Working(seen, "off"), seen)
      BY <1>3, WorkingValue
    <3>3. queued' \in BOOLEAN /\ (WorkerRests \/ (WorkerGoes({"write"}) /\ obj' = Working(seen, "off")))
      BY <3>1, FinishEnds
    <3> QED
      BY <1>0, <1>2, <3>2, <3>3 DEF Restates, Rewrites, WorkerGoes, m
  <2>2. CASE seen.spec \notin OffSpecs
    <3>1. Goto("publish", seen)
      BY <1>6, <2>2 DEF Settle
    <3>2. queued' \in BOOLEAN /\ WorkerGoes({"publish"}) /\ obj' = seen
      BY <3>1, GotoGoes
    <3> QED
      BY <1>0, <1>2, <3>2 DEF WorkerGoes, m
  <2> QED
    BY <2>1, <2>2
<1>7. CASE Finish(obj, "error")
  BY <1>0, <1>7, FinishRestates, Selves DEF Ends, Restates, WorkerGoes
<1> QED
  BY <1>4, <1>5, <1>6, <1>7

----------------------------------------------------------------------------
(* The shapes of the steps, as far as the invariants tell them apart       *)

Typed == {orig', obj'} \subseteq Objects /\ pc' \in PCs /\ again' \in BOOLEAN /\ queued' \in BOOLEAN

Untouched   == UNCHANGED <<cr, lastUid, cache, handed>>
SameService == /\ InUse' <=> InUse
               /\ remote'.spec = remote.spec /\ remote'.tags = remote.tags

\* The worker, if it has a copy, goes on with it or drops it.
Local ==
    /\ Untouched /\ SameService /\ UNCHANGED history
    /\ \/ WorkerRests
       \/ UNCHANGED <<pc, obj>>
       \/ /\ pc \in Applying /\ pc' \in Applying \ {"tags"}
          /\ pc' \in {"observe", "migration", "source", "publish"} => hasLatestGeneration(obj')
          /\ pc' = "migration" => obj.spec \in MigratingSpecs
          /\ pc' = "source" => obj'.migration = "done"
          /\ Rewrites(obj', obj) /\ obj'.processed \in {0, obj.processed}
          /\ \/ obj'.migration = obj.migration
             \/ pc = "migration" /\ obj'.migration = Reported(remote.migration)

\* It takes up what the cache has, ...
Starts ==
    /\ Untouched /\ UNCHANGED <<remote, history>>
    /\ Exists(cache)
    /\ obj' \in Objects /\ obj'.uid = cache.uid /\ obj'.gen = cache.gen /\ obj'.spec = cache.spec
    /\ obj'.policy = cache.policy /\ obj'.deleting = cache.deleting
    /\ obj'.processed = cache.processed /\ obj'.migration = cache.migration
    /\ \/ pc' = "refs" /\ ~cache.deleting /\ obj'.finalizer
       \/ pc' = "finalize" /\ cache.deleting /\ cache.finalizer

\* ... sends the configuration ...
Configures ==
    /\ UNCHANGED <<cr, lastUid, cache, drifted, protected, saved>> /\ fate' = "managed"
    /\ handed' = IF Migrates(obj) THEN obj.uid ELSE handed
    /\ pc \in {"create", "update"}
    /\ remote' \in Remotes /\ InUse' /\ remote'.spec = obj.spec
    /\ InUse => remote'.tags = remote.tags
    /\ Passes({"tags"}) \/ Fails

\* ... and the tags, ...
Tags ==
    /\ Untouched /\ UNCHANGED <<fate, protected, saved>> /\ drifted' = FALSE
    /\ pc = "tags"
    /\ InUse /\ InUse' /\ remote'.spec = remote.spec /\ remote'.tags = obj.spec
    /\ Fails \/ (WorkerGoes({"observe"}) /\ obj' = Processed(obj))

\* ... writes the object, ...
Writes ==
    /\ UNCHANGED <<lastUid, cache, remote, fate, drifted, handed>>
    /\ pc = "write"
    /\ Exists(cr) /\ cache.uid = cr.uid /\ cache.uid = obj.uid
    /\ cr' = Update(obj)
    /\ saved' = obj.uid /\ protected' = (protected /\ obj.policy = "Orphan")
    /\ WorkerRests \/ (pc' = "status" /\ Restates(obj', obj))

\* ... and its status.
WritesStatus ==
    /\ UNCHANGED <<lastUid, cache, remote, history, handed>>
    /\ pc = "status"
    /\ Exists(cr) /\ obj.uid = cr.uid
    /\ cr' = StatusUpdate(obj)
    /\ WorkerRests

\* Deleting, it goes on to delete the service, ...
Proceeds ==
    /\ Untouched /\ SameService /\ UNCHANGED history
    /\ pc = "finalize" /\ pc' = "delete" /\ obj' = obj
    /\ obj.policy # "Orphan"

\* ... lets go of it, ...
LetsGo ==
    /\ Untouched /\ UNCHANGED <<remote, drifted, protected, saved>>
    /\ fate' # "managed" \/ (~InUse /\ fate' = fate)
    /\ pc \in {"finalize", "delete"} /\ pc' = "unfinalize" /\ obj' = obj

\* ... has it deleted ...
Deletes ==
    /\ Untouched /\ UNCHANGED <<protected, saved>> /\ fate' = "none" /\ drifted' = FALSE
    /\ pc = "delete" /\ remote' = NoRemote
    /\ WorkerRests \/ (pc' = "unfinalize" /\ obj' = obj)

\* ... and lets the object go.
Releases ==
    /\ UNCHANGED <<lastUid, cache, remote, history, handed>>
    /\ pc = "unfinalize" /\ WorkerRests
    /\ Exists(cr) /\ cache.uid = cr.uid
    /\ IF cr.deleting THEN cr' = NoObject
       ELSE /\ cr' \in Objects /\ ~cr'.finalizer
            /\ cr'.uid = cr.uid /\ cr'.gen = cr.gen /\ cr'.spec = cr.spec /\ cr'.policy = cr.policy
            /\ cr'.deleting = cr.deleting /\ cr'.processed = cr.processed
            /\ cr'.migration = cr.migration

\* A user makes the object, edits it, or deletes it, at once or to be finalized.
OfUsers == UNCHANGED <<cache, pc, obj, remote, fate, saved, handed>>

Makes ==
    /\ OfUsers /\ drifted' = FALSE /\ protected' = FALSE
    /\ ~Exists(cr) /\ lastUid' = lastUid + 1
    /\ cr'.uid = lastUid' /\ cr'.gen = 1 /\ cr'.spec \in Specs /\ cr'.processed = 0
    /\ ~cr'.deleting /\ ~cr'.finalizer /\ cr'.migration = "none"

Respecs ==
    /\ OfUsers /\ UNCHANGED <<lastUid, drifted, protected>>
    /\ Exists(cr)
    /\ cr'.gen = cr.gen + 1 /\ cr'.spec \in Specs
    /\ cr'.uid = cr.uid /\ cr'.policy = cr.policy /\ cr'.deleting = cr.deleting
    /\ cr'.finalizer = cr.finalizer /\ cr'.processed = cr.processed /\ cr'.migration = cr.migration

Repolices ==
    /\ OfUsers /\ UNCHANGED <<lastUid, drifted>> /\ protected' = FALSE
    /\ Exists(cr)
    /\ cr'.uid = cr.uid /\ cr'.gen = cr.gen /\ cr'.spec = cr.spec /\ cr'.deleting = cr.deleting
    /\ cr'.finalizer = cr.finalizer /\ cr'.processed = cr.processed /\ cr'.migration = cr.migration

Vanishes ==
    /\ OfUsers /\ UNCHANGED <<lastUid, drifted>> /\ protected' = FALSE
    /\ Exists(cr) /\ ~cr.finalizer
    /\ cr' = NoObject

Condemns ==
    /\ OfUsers /\ UNCHANGED <<lastUid, drifted>> /\ protected' = (cr.policy = "Orphan")
    /\ Exists(cr) /\ cr.finalizer /\ ~cr.deleting
    /\ cr'.gen = cr.gen + 1 /\ cr'.deleting
    /\ cr'.uid = cr.uid /\ cr'.spec = cr.spec /\ cr'.policy = cr.policy
    /\ cr'.finalizer = cr.finalizer /\ cr'.processed = cr.processed /\ cr'.migration = cr.migration

LEMMA EndsLocal ==
    ASSUME TypeOK, NEW P, P \subseteq Applying \ {"tags", "migration", "source"}, Ends(P),
           pc \in Applying, P \subseteq {"backups", "apply", "write"} \/ hasLatestGeneration(obj),
           Untouched, UNCHANGED <<remote, history>>
    PROVE  Local
BY DEF Local, SameService, InUse, Ends, WorkerGoes, Restates, Rewrites, hasLatestGeneration, Applying

LEMMA FailsLocal ==
    ASSUME TypeOK, Fails, pc \in Applying, Untouched, UNCHANGED <<remote, history>>
    PROVE  Local
BY DEF Local, SameService, InUse, Fails, WorkerGoes, Applying

LEMMA RestsLocal == ASSUME WorkerRests, Untouched, UNCHANGED <<remote, history>> PROVE Local
BY DEF Local, SameService, InUse

LEMMA IdleLocal == ASSUME UNCHANGED <<pc, obj>>, Untouched, UNCHANGED <<remote, history>> PROVE Local
BY DEF Local, SameService, InUse

LEMMA BeginShape ==
    ASSUME TypeOK, Begin
    PROVE  /\ Local \/ Starts
           /\ \/ UNCHANGED worker /\ queued' \in BOOLEAN
              \/ Typed
<1> DEFINE taken == [Marked(cache) EXCEPT !.finalizer = TRUE]
<1>1. cache \in Objects /\ queued \in BOOLEAN /\ again \in BOOLEAN
  BY DEF TypeOK
<1>2. Restates(Marked(cache), cache)
  BY <1>1, Selves, StatusValues DEF Marked
<1>3. Marked(cache) \in Objects
  BY <1>2 DEF Restates, Rewrites
<1>4. /\ taken \in Objects /\ taken.finalizer
      /\ taken.uid = cache.uid /\ taken.gen = cache.gen /\ taken.spec = cache.spec
      /\ taken.policy = cache.policy /\ taken.deleting = cache.deleting
      /\ taken.processed = cache.processed /\ taken.migration = cache.migration
  <2> DEFINE o == Marked(cache)
  <2>1. o \in Objects /\ Restates(o, cache)
    BY <1>2, <1>3
  <2> HIDE DEF o
  <2>2. LET t == [o EXCEPT !.finalizer = TRUE]
        IN  /\ t \in Objects /\ t.finalizer /\ t.uid = o.uid /\ t.gen = o.gen /\ t.spec = o.spec
            /\ t.policy = o.policy /\ t.deleting = o.deleting
            /\ t.processed = o.processed /\ t.migration = o.migration
    BY <2>1 DEF Objects
  <2> QED
    BY <2>1, <2>2 DEF o, Restates, Rewrites
<1>5. Untouched /\ UNCHANGED <<remote, history>>
  BY DEF Begin, Untouched, migrating
<1>6. CASE UNCHANGED worker /\ queued' \in BOOLEAN
  BY <1>5, <1>6, IdleLocal DEF worker
<1>7. CASE /\ Exists(cache) /\ cache.deleting /\ cache.finalizer /\ queued' = FALSE
           /\ pc' = "finalize" /\ orig' = cache /\ obj' = cache /\ UNCHANGED again
  <2>1. Typed
    BY <1>1, <1>7 DEF Typed, PCs
  <2>2. Starts
    BY <1>1, <1>5, <1>7 DEF Starts
  <2> QED
    BY <2>1, <2>2
<1>8. CASE /\ Exists(cache) /\ ~cache.deleting /\ queued' = FALSE
           /\ pc' = "refs" /\ orig' = cache /\ obj' = taken /\ UNCHANGED again
  <2> HIDE DEF taken
  <2>1. Typed
    BY <1>1, <1>4, <1>8 DEF Typed, PCs
  <2>2. Starts
    BY <1>4, <1>5, <1>8 DEF Starts
  <2> QED
    BY <2>1, <2>2
<1>9. \/ UNCHANGED worker /\ queued' \in BOOLEAN
      \/ /\ Exists(cache) /\ cache.deleting /\ cache.finalizer /\ queued' = FALSE
         /\ pc' = "finalize" /\ orig' = cache /\ obj' = cache /\ UNCHANGED again
      \/ /\ Exists(cache) /\ ~cache.deleting /\ queued' = FALSE
         /\ pc' = "refs" /\ orig' = cache /\ obj' = taken /\ UNCHANGED again
  BY <1>1 DEF Begin
<1> QED
  BY <1>6, <1>7, <1>8, <1>9

LEMMA RestsTyped == ASSUME TypeOK, WorkerRests, queued' \in BOOLEAN PROVE Typed
BY NoObjectFacts DEF WorkerRests, Typed, PCs

LEMMA GoesTyped ==
    ASSUME TypeOK, NEW P, P \subseteq PCs, WorkerGoes(P), obj' \in Objects, queued' \in BOOLEAN
    PROVE  Typed
BY DEF TypeOK, WorkerGoes, Typed

LEMMA EndsTyped ==
    ASSUME TypeOK, NEW P, P \subseteq PCs, Ends(P) \/ Passes(P)
    PROVE  Typed
<1>1. CASE WorkerRests /\ queued' \in BOOLEAN
  BY <1>1, RestsTyped
<1>2. CASE WorkerGoes(P) /\ obj' \in Objects /\ queued' \in BOOLEAN
  BY <1>2, GoesTyped
<1> QED
  BY <1>1, <1>2 DEF Ends, Passes, Restates, Rewrites, TypeOK

LEMMA FailsTyped == ASSUME TypeOK, Fails PROVE Typed
<1>1. CASE WorkerRests
  BY <1>1, RestsTyped DEF Fails
<1>2. CASE ~WorkerRests
  BY <1>2, GoesTyped DEF Fails, Rewrites, PCs
<1> QED
  BY <1>1, <1>2

LEMMA RefsShape == ASSUME TypeOK, ResolveRefs PROVE Typed /\ Local
<1>1. Untouched /\ UNCHANGED <<remote, history>>
  BY DEF ResolveRefs, Untouched, migrating
<1> QED
  BY <1>1, RefsEnds, EndsLocal, EndsTyped DEF Applying, PCs

LEMMA BackupsShape == ASSUME TypeOK, CheckBackups PROVE Typed /\ Local
<1>1. Untouched /\ UNCHANGED <<remote, history>>
  BY DEF CheckBackups, Untouched, migrating
<1> QED
  BY <1>1, BackupsEnds, EndsLocal, EndsTyped DEF Applying, PCs

LEMMA ApplyShape == ASSUME TypeOK, Apply PROVE Typed /\ Local
<1>1. Untouched /\ UNCHANGED <<remote, history>> /\ pc = "apply"
  BY DEF Apply, Untouched, migrating
<1>2. CASE hasLatestGeneration(obj) /\ Passes({"observe"})
  BY <1>1, <1>2, EndsTyped, Selves
     DEF Local, SameService, InUse, Passes, WorkerGoes, Applying, PCs, TypeOK, Restates
<1>3. CASE Passes({"create", "update"})
  BY <1>1, <1>3, EndsTyped, Selves
     DEF Local, SameService, InUse, Passes, WorkerGoes, Applying, PCs, TypeOK, Restates
<1>4. CASE Fails
  BY <1>1, <1>4, FailsTyped, FailsLocal DEF Applying
<1> QED
  BY <1>2, <1>3, <1>4, ApplyEnds

LEMMA ObserveShape == ASSUME TypeOK, WorkerPath, Observe PROVE Typed /\ Local
<1>1. Untouched /\ UNCHANGED <<remote, history>> /\ pc = "observe"
  BY DEF Observe, Untouched, migrating
<1>2. hasLatestGeneration(obj)
  BY <1>1 DEF WorkerPath
<1>3. CASE obj.spec \in MigratingSpecs /\ Ends({"migration"})
  <2>1. Typed
    BY <1>3, EndsTyped DEF PCs
  <2>2. CASE WorkerRests
    BY <1>1, <2>1, <2>2, RestsLocal
  <2>3. CASE WorkerGoes({"migration"}) /\ Restates(obj', obj)
    BY <1>1, <1>2, <1>3, <2>1, <2>3
       DEF Local, SameService, InUse, WorkerGoes, Restates, Rewrites, Applying, hasLatestGeneration
  <2> QED
    BY <1>3, <2>1, <2>2, <2>3 DEF Ends
<1>4. CASE Ends({"write", "publish"})
  BY <1>1, <1>2, <1>4, EndsLocal, EndsTyped DEF Applying, PCs
<1> QED
  BY <1>3, <1>4, ObserveEnds

LEMMA MigrationShape == ASSUME TypeOK, WorkerPath, CheckMigration PROVE Typed /\ Local
<1>1. Untouched /\ UNCHANGED <<remote, history>> /\ pc = "migration" /\ queued' \in BOOLEAN
  BY MigrationEnds DEF CheckMigration, Untouched
<1>2. hasLatestGeneration(obj)
  BY <1>1 DEF WorkerPath
<1>3. CASE WorkerRests
  BY <1>1, <1>3, RestsLocal, RestsTyped
<1>4. CASE /\ WorkerGoes({"write", "publish", "source"})
           /\ Rewrites(obj', obj) /\ obj'.processed = obj.processed
           /\ obj'.migration \in {obj.migration, Reported(remote.migration)}
           /\ pc' = "source" => obj'.migration = "done"
  <2>1. Typed
    BY <1>1, <1>4, GoesTyped DEF Rewrites, PCs
  <2>2. Local
    BY <1>1, <1>2, <1>4 DEF Local, SameService, InUse, WorkerGoes, Rewrites, Applying, hasLatestGeneration
  <2> QED
    BY <2>1, <2>2
<1> QED
  BY <1>3, <1>4, MigrationEnds

LEMMA SourceShape == ASSUME TypeOK, WorkerPath, DeleteSource PROVE Typed /\ Local
<1>1. Untouched /\ UNCHANGED <<remote, history>> /\ pc = "source"
  BY DEF DeleteSource, Untouched
<1>2. hasLatestGeneration(obj)
  BY <1>1 DEF WorkerPath
<1> QED
  BY <1>1, <1>2, SourceEnds, EndsLocal, EndsTyped DEF Applying, PCs

LEMMA PublishShape == ASSUME TypeOK, Publish PROVE Typed /\ Local
<1>1. Untouched /\ UNCHANGED <<remote, history>> /\ pc = "publish"
  BY DEF Publish, Untouched, migrating
<1> QED
  BY <1>1, PublishEnds, EndsLocal, EndsTyped DEF Applying, PCs

LEMMA FailsShape ==
    ASSUME TypeOK, ApplyFailed \/ Refused, pc \in Applying, Untouched, UNCHANGED <<remote, history>>
    PROVE  Typed /\ Local
BY FailedFails, FailsTyped, FailsLocal

LEMMA CreateShape == ASSUME TypeOK, Create PROVE Typed /\ remote' \in Remotes /\ (Local \/ Configures)
<1>1. UNCHANGED <<cr, lastUid, cache>> /\ pc = "create" /\ pc \in Applying
  BY DEF Create, Applying
<1>2. obj \in Objects /\ remote \in Remotes
  BY DEF TypeOK
<1>3. CASE /\ ~InUse
           /\ \E m \in Asked("none") :
                 remote' = [phase |-> "building", spec |-> obj.spec, off |-> FALSE,
                            tags |-> NoSpec, protection |-> obj.spec \in ProtectedSpecs,
                            migration |-> m]
           /\ Answers /\ HandsOver
           /\ Goto("tags", obj) \/ ApplyFailed
  <2>1. PICK m \in Asked("none") :
            remote' = [phase |-> "building", spec |-> obj.spec, off |-> FALSE,
                       tags |-> NoSpec, protection |-> obj.spec \in ProtectedSpecs,
                       migration |-> m]
    BY <1>3
  <2>2. m \in Migrations \cup {"asked"}
    BY <2>1 DEF Asked, Migrations
  <2>3. remote' \in Remotes /\ remote'.phase # "absent" /\ remote'.spec = obj.spec
    BY <1>2, <2>1, <2>2 DEF Objects, Remotes, Phases, MaybeSpec
  <2>4. Passes({"tags"}) \/ Fails
    BY <1>3, GotoGoes, FailedFails
  <2>5. Configures
    BY <1>1, <1>3, <2>3, <2>4 DEF Configures, InUse, Answers, HandsOver
  <2>6. Typed
    BY <2>4, EndsTyped, FailsTyped DEF PCs
  <2> QED
    BY <2>3, <2>5, <2>6
<1>4. CASE (ApplyFailed \/ Refused) /\ UNCHANGED <<remote, history, handed>>
  BY <1>1, <1>2, <1>4, FailsShape DEF Untouched
<1> QED
  BY <1>3, <1>4 DEF Create

LEMMA UpdateShape == ASSUME TypeOK, UpdateService PROVE Typed /\ remote' \in Remotes /\ (Local \/ Configures)
<1>1. UNCHANGED <<cr, lastUid, cache>> /\ pc = "update" /\ pc \in Applying
  BY DEF UpdateService, Applying
<1>2. obj \in Objects /\ remote \in Remotes
  BY DEF TypeOK
<1>3. CASE /\ InUse
           /\ \E m \in Asked(remote.migration) :
                 remote' = [remote EXCEPT !.phase = "building", !.spec = obj.spec,
                                          !.off = obj.spec \in OffSpecs,
                                          !.protection = @ \/ obj.spec \in ProtectedSpecs,
                                          !.migration = m]
           /\ Answers /\ HandsOver
           /\ Goto("tags", obj) \/ ApplyFailed
  <2>1. PICK m \in Asked(remote.migration) :
            remote' = [remote EXCEPT !.phase = "building", !.spec = obj.spec,
                                     !.off = obj.spec \in OffSpecs,
                                     !.protection = @ \/ obj.spec \in ProtectedSpecs,
                                     !.migration = m]
    BY <1>3
  <2>2. m \in Migrations \cup {"asked"}
    BY <1>2, <2>1 DEF Asked, Migrations, Remotes
  <2>3. /\ remote' \in Remotes /\ remote'.phase # "absent" /\ remote'.spec = obj.spec
        /\ remote'.tags = remote.tags
    <3> DEFINE b == remote.protection \/ obj.spec \in ProtectedSpecs
               c == obj.spec \in OffSpecs
    <3>1. b \in BOOLEAN /\ c \in BOOLEAN
      BY <1>2 DEF Remotes
    <3>2. remote' = [remote EXCEPT !.phase = "building", !.spec = obj.spec, !.off = c,
                                   !.protection = b, !.migration = m]
      BY <2>1
    <3> HIDE DEF b, c
    <3> QED
      BY <1>2, <2>2, <3>1, <3>2 DEF Objects, Remotes, Phases, MaybeSpec
  <2>4. Passes({"tags"}) \/ Fails
    BY <1>3, GotoGoes, FailedFails
  <2>5. Configures
    BY <1>1, <1>3, <2>3, <2>4 DEF Configures, InUse, Answers, HandsOver
  <2>6. Typed
    BY <2>4, EndsTyped, FailsTyped DEF PCs
  <2> QED
    BY <2>3, <2>5, <2>6
<1>4. CASE (ApplyFailed \/ Refused) /\ UNCHANGED <<remote, history, handed>>
  BY <1>1, <1>2, <1>4, FailsShape DEF Untouched
<1> QED
  BY <1>3, <1>4 DEF UpdateService

LEMMA TagsShape ==
    ASSUME TypeOK, ReplaceTags
    PROVE  Typed /\ remote' \in Remotes /\ drifted' \in BOOLEAN /\ (Local \/ Tags)
<1>1. Untouched /\ pc = "tags" /\ pc \in Applying /\ UNCHANGED <<fate, protected, saved>>
  BY DEF ReplaceTags, Untouched, migrating, Applying
<1>2. obj \in Objects /\ remote \in Remotes /\ drifted \in BOOLEAN
  BY DEF TypeOK
<1>3. CASE /\ InUse /\ remote' = [remote EXCEPT !.tags = obj.spec] /\ drifted' = FALSE
           /\ Goto("observe", Processed(obj)) \/ ApplyFailed
  <2>1. /\ remote' \in Remotes /\ remote'.tags = obj.spec /\ remote'.spec = remote.spec
        /\ remote'.phase = remote.phase /\ remote'.migration = remote.migration
    BY <1>2, <1>3 DEF Objects, Remotes
  <2>2. Processed(obj) \in Objects
    BY <1>2, ProcessedValue DEF Rewrites
  <2>3. Typed /\ (Fails \/ (WorkerGoes({"observe"}) /\ obj' = Processed(obj)))
    BY <1>3, <2>2, GotoGoes, FailedFails, GoesTyped, FailsTyped DEF PCs
  <2> QED
    BY <1>1, <1>3, <2>1, <2>3 DEF Tags, InUse
<1>4. CASE (ApplyFailed \/ Refused) /\ UNCHANGED <<remote, drifted>>
  BY <1>1, <1>2, <1>4, FailsShape DEF history
<1> QED
  BY <1>3, <1>4 DEF ReplaceTags

LEMMA WriteShape ==
    ASSUME TypeOK, Write
    PROVE  Typed /\ (Local \/ (Writes /\ cr' \in Objects))
<1>1. /\ pc = "write" /\ UNCHANGED <<lastUid, cache, remote, fate, drifted, handed>>
      /\ cr \in Objects /\ obj \in Objects
  BY DEF Write, migrating, TypeOK
<1>2. CASE /\ IsCurrent(cache) /\ cache.uid = obj.uid /\ cr' = Update(obj) /\ saved' = obj.uid
           /\ protected' = (protected /\ obj.policy = "Orphan")
           /\ Goto("status", [obj EXCEPT !.rv = cr'.rv]) \/ Return(TRUE)
  <2>1. cr' \in Objects
    BY <1>1, <1>2, UpdateValue
  <2>2. Restates([obj EXCEPT !.rv = cr'.rv], obj)
    <3>1. cr'.rv \in Nat
      BY <2>1 DEF Objects
    <3> QED
      BY <1>1, <3>1, VersionValue
  <2>3. CASE Goto("status", [obj EXCEPT !.rv = cr'.rv])
    <3>1. queued' \in BOOLEAN /\ WorkerGoes({"status"}) /\ obj' = [obj EXCEPT !.rv = cr'.rv]
      BY <2>3, GotoGoes
    <3>2. obj' \in Objects /\ Restates(obj', obj)
      BY <2>2, <3>1 DEF Restates, Rewrites
    <3>3. Typed
      BY <3>1, <3>2, GoesTyped DEF PCs
    <3>4. Writes
      BY <1>1, <1>2, <3>1, <3>2 DEF Writes, WorkerGoes, IsCurrent, Exists
    <3> QED
      BY <2>1, <3>3, <3>4
  <2>4. CASE Return(TRUE)
    <3>1. queued' \in BOOLEAN /\ WorkerRests
      BY <2>4, ReturnRests
    <3>2. Writes
      BY <1>1, <1>2, <3>1 DEF Writes, IsCurrent, Exists
    <3> QED
      BY <2>1, <3>1, <3>2, RestsTyped
  <2> QED
    BY <1>2, <2>3, <2>4
<1>3. CASE Return(TRUE) /\ UNCHANGED <<cr, saved, protected>>
  BY <1>1, <1>3, ReturnRests, RestsTyped, RestsLocal DEF Untouched, history
<1> QED
  BY <1>2, <1>3 DEF Write

LEMMA StatusShape ==
    ASSUME TypeOK, WriteStatus
    PROVE  Typed /\ (Local \/ (WritesStatus /\ cr' \in Objects))
<1>1. /\ pc = "status" /\ UNCHANGED <<lastUid, cache, remote, history, handed>>
      /\ cr \in Objects /\ obj \in Objects /\ again \in BOOLEAN
  BY DEF WriteStatus, migrating, TypeOK
<1>2. CASE IsCurrent(obj) /\ cr' = StatusUpdate(obj) /\ Return(again)
  <2>1. cr' \in Objects
    BY <1>1, <1>2, StatusUpdateValue DEF Rewrites
  <2>2. queued' \in BOOLEAN /\ WorkerRests
    BY <1>1, <1>2, ReturnRests
  <2>3. WritesStatus
    BY <1>1, <1>2, <2>2 DEF WritesStatus, IsCurrent, Exists
  <2> QED
    BY <2>1, <2>2, <2>3, RestsTyped
<1>3. CASE UNCHANGED cr /\ Goto("write", obj)
  <2>1. Passes({"write"})
    BY <1>3, GotoGoes
  <2>2. Typed
    BY <2>1, EndsTyped DEF PCs
  <2>3. Local
    BY <1>1, <1>3, <2>1, Selves
       DEF Local, Untouched, SameService, InUse, Passes, WorkerGoes, Applying, Restates
  <2> QED
    BY <2>2, <2>3
<1>4. CASE UNCHANGED cr /\ Return(TRUE)
  BY <1>1, <1>4, ReturnRests, RestsTyped, RestsLocal DEF Untouched
<1> QED
  BY <1>2, <1>3, <1>4 DEF WriteStatus

LEMMA LetGoShape ==
    ASSUME TypeOK, LetGoOnInvalidToken, pc \in {"finalize", "delete"}, Untouched
    PROVE  Typed /\ fate' \in Fates /\ UNCHANGED <<remote, drifted, protected, saved>> /\ (Local \/ LetsGo)
<1>1. /\ UNCHANGED <<remote, drifted, protected, saved>>
      /\ fate \in Fates
  BY DEF LetGoOnInvalidToken, TypeOK
<1>2. CASE Goto("unfinalize", obj) /\ fate' = IF InUse THEN "abandoned" ELSE fate
  <2>1. Passes({"unfinalize"})
    BY <1>2, GotoGoes
  <2>2. Typed
    BY <2>1, EndsTyped DEF PCs
  <2>3. LetsGo
    BY <1>1, <1>2, <2>1 DEF LetsGo, Passes, WorkerGoes
  <2> QED
    BY <1>1, <1>2, <2>2, <2>3 DEF Fates
<1>3. CASE Return(TRUE) /\ UNCHANGED fate
  BY <1>1, <1>3, ReturnRests, RestsTyped, RestsLocal DEF history
<1> QED
  BY <1>2, <1>3 DEF LetGoOnInvalidToken

LEMMA FinalizeShape ==
    ASSUME TypeOK, Finalize
    PROVE  /\ Typed /\ remote' \in Remotes /\ fate' \in Fates /\ UNCHANGED <<drifted, protected, saved>>
           /\ Local \/ Proceeds \/ LetsGo
<1>1. Untouched /\ pc = "finalize" /\ remote \in Remotes /\ fate \in Fates
  BY DEF Finalize, Untouched, migrating, TypeOK
<1>2. CASE /\ Goto("unfinalize", obj) /\ fate' = IF InUse THEN "orphaned" ELSE fate
           /\ UNCHANGED <<remote, drifted, protected, saved>>
  <2>1. Passes({"unfinalize"})
    BY <1>2, GotoGoes
  <2>2. Typed
    BY <2>1, EndsTyped DEF PCs
  <2>3. LetsGo
    BY <1>1, <1>2, <2>1 DEF LetsGo, Passes, WorkerGoes
  <2> QED
    BY <1>1, <1>2, <2>2, <2>3 DEF Fates
<1>3. CASE LetGoOnInvalidToken
  BY <1>1, <1>3, LetGoShape
<1>4. CASE /\ obj.policy # "Orphan" /\ remote' = [remote EXCEPT !.protection = FALSE]
           /\ Goto("delete", obj) \/ Return(TRUE)
           /\ UNCHANGED history
  <2>1. remote' \in Remotes /\ SameService
    BY <1>1, <1>4 DEF Remotes, SameService, InUse
  <2>2. CASE Goto("delete", obj)
    <3>1. Passes({"delete"})
      BY <2>2, GotoGoes
    <3>2. Typed
      BY <3>1, EndsTyped DEF PCs
    <3>3. Proceeds
      BY <1>1, <1>4, <2>1, <3>1 DEF Proceeds, Passes, WorkerGoes
    <3> QED
      BY <1>1, <1>4, <2>1, <3>2, <3>3 DEF history
  <2>3. CASE Return(TRUE)
    <3>1. WorkerRests /\ Typed
      BY <2>3, ReturnRests, RestsTyped
    <3>2. Local
      BY <1>1, <1>4, <2>1, <3>1 DEF Local
    <3> QED
      BY <1>1, <1>4, <2>1, <3>1, <3>2 DEF history
  <2> QED
    BY <1>4, <2>2, <2>3
<1>5. CASE Return(TRUE) /\ UNCHANGED <<remote, history>>
  BY <1>1, <1>5, ReturnRests, RestsTyped, RestsLocal DEF history
<1> QED
  BY <1>2, <1>3, <1>4, <1>5 DEF Finalize

LEMMA DeleteShape ==
    ASSUME TypeOK, Delete
    PROVE  /\ Typed /\ remote' \in Remotes /\ fate' \in Fates /\ drifted' \in BOOLEAN
           /\ UNCHANGED <<protected, saved>>
           /\ Local \/ LetsGo \/ Deletes
<1>1. Untouched /\ pc = "delete" /\ remote \in Remotes /\ fate \in Fates /\ drifted \in BOOLEAN
  BY DEF Delete, Untouched, migrating, TypeOK
<1>2. CASE LetGoOnInvalidToken
  BY <1>1, <1>2, LetGoShape
<1>3. CASE /\ remote' = NoRemote /\ fate' = "none" /\ drifted' = FALSE /\ UNCHANGED <<protected, saved>>
           /\ Goto("unfinalize", obj) \/ Return(TRUE)
  <2>1. Passes({"unfinalize"}) \/ (WorkerRests /\ queued' \in BOOLEAN)
    BY <1>3, GotoGoes, ReturnRests
  <2>2. Typed
    BY <2>1, EndsTyped, RestsTyped DEF PCs
  <2>3. Deletes
    BY <1>1, <1>3, <2>1 DEF Deletes, Passes, WorkerGoes
  <2> QED
    BY <1>3, <2>2, <2>3, NoRemoteFacts DEF Fates
<1>4. CASE Return(TRUE) /\ UNCHANGED <<remote, history>>
  BY <1>1, <1>4, ReturnRests, RestsTyped, RestsLocal DEF history
<1> QED
  BY <1>2, <1>3, <1>4 DEF Delete

LEMMA ReleaseShape ==
    ASSUME TypeOK, RemoveFinalizer
    PROVE  Typed /\ (Local \/ (Releases /\ cr' \in Objects))
<1>1. /\ pc = "unfinalize" /\ UNCHANGED <<lastUid, cache, remote, history, handed>>
      /\ cr \in Objects
  BY DEF RemoveFinalizer, migrating, TypeOK
<1>2. CASE /\ IsCurrent(cache) /\ Return(FALSE)
           /\ cr' = IF cr.deleting THEN NoObject ELSE Bumped([cr EXCEPT !.finalizer = FALSE])
  <2> DEFINE w == [cr EXCEPT !.finalizer = FALSE]
  <2>1. /\ w \in Objects /\ ~w.finalizer /\ w.uid = cr.uid /\ w.gen = cr.gen /\ w.spec = cr.spec
        /\ w.policy = cr.policy /\ w.deleting = cr.deleting /\ w.processed = cr.processed
        /\ w.migration = cr.migration
    BY <1>1 DEF Objects
  <2>2. cr' = IF cr.deleting THEN NoObject ELSE Bumped(w)
    BY <1>2
  <2> HIDE DEF w
  <2>3. Restates(Bumped(w), w)
    BY <2>1, BumpedValue
  <2>4. queued' \in BOOLEAN /\ WorkerRests
    BY <1>2, ReturnRests
  <2>5. cr' \in Objects
    BY <2>2, <2>3, NoObjectFacts DEF Restates, Rewrites
  <2>6. Releases
    BY <1>1, <1>2, <2>1, <2>2, <2>3, <2>4, <2>5 DEF Releases, Restates, Rewrites, IsCurrent, Exists
  <2> QED
    BY <2>4, <2>5, <2>6, RestsTyped
<1>3. CASE UNCHANGED cr /\ (Return(TRUE) \/ Return(FALSE))
  BY <1>1, <1>3, ReturnRests, RestsTyped, RestsLocal DEF Untouched
<1> QED
  BY <1>2, <1>3 DEF RemoveFinalizer

LEMMA CrashShape == ASSUME TypeOK, Crash PROVE Typed /\ Local
BY ReturnRests, RestsTyped, RestsLocal DEF Crash, Untouched, migrating

\* What happens around the object and its service, without touching either.
LEMMA AroundShape ==
    ASSUME TypeOK,
           \/ CollectSecret \/ AivenProgress \/ UserDeletesSecret \/ UserChangesSource \/ OthersProtect
           \/ \E t \in Tokens : UserChangesToken(t)
           \/ UNCHANGED vars
    PROVE  remote' \in Remotes /\ UNCHANGED <<orig, obj, pc, again>> /\ Local
<1>1. remote \in Remotes
  BY DEF TypeOK
<1>2. CASE \/ CollectSecret \/ UserDeletesSecret \/ UserChangesSource
           \/ \E t \in Tokens : UserChangesToken(t)
           \/ UNCHANGED vars
  <2>1. UNCHANGED <<orig, obj, pc, again, remote, history>> /\ Untouched
    BY <1>2 DEF CollectSecret, UserDeletesSecret, UserChangesSource, UserChangesToken, vars, worker,
                history, migrating, given, Untouched
  <2> QED
    BY <1>1, <2>1, IdleLocal
<1>3. CASE AivenProgress
  <2> DEFINE p == IF remote.off THEN "poweroff" ELSE "running"
  <2>1. /\ remote.phase = "building" /\ remote' = [remote EXCEPT !.phase = p]
        /\ UNCHANGED <<orig, obj, pc, again, history>> /\ Untouched
    BY <1>3 DEF AivenProgress, worker, migrating, Untouched
  <2>2. p \in Phases /\ p # "absent"
    BY DEF Phases
  <2> HIDE DEF p
  <2>3. remote' \in Remotes /\ SameService
    BY <1>1, <2>1, <2>2 DEF Remotes, SameService, InUse
  <2> QED
    BY <2>1, <2>3 DEF Local
<1>4. CASE OthersProtect
  <2>1. /\ remote' = [remote EXCEPT !.protection = TRUE]
        /\ UNCHANGED <<orig, obj, pc, again, history>> /\ Untouched
    BY <1>4 DEF OthersProtect, worker, migrating, Untouched
  <2>2. remote' \in Remotes /\ SameService
    BY <1>1, <2>1 DEF Remotes, SameService, InUse
  <2> QED
    BY <2>1, <2>2 DEF Local
<1> QED
  BY <1>2, <1>3, <1>4

LEMMA EditedSpec ==
    ASSUME TypeOK, NEW s \in Specs
    PROVE  LET e == [cr EXCEPT !.spec = s, !.gen = @ + 1, !.rv = @ + 1]
           IN  /\ e \in Objects /\ e.gen = cr.gen + 1 /\ e.spec = s
               /\ e.uid = cr.uid /\ e.policy = cr.policy /\ e.deleting = cr.deleting
               /\ e.finalizer = cr.finalizer /\ e.processed = cr.processed /\ e.migration = cr.migration
<1> DEFINE g == cr.gen + 1
           v == cr.rv + 1
           e == [cr EXCEPT !.spec = s, !.gen = g, !.rv = v]
<1>1. cr \in Objects /\ g \in Nat /\ v \in Nat /\ s \in MaybeSpec
  BY DEF TypeOK, Objects, MaybeSpec
<1> HIDE DEF g, v
<1>2. /\ e \in Objects /\ e.gen = g /\ e.spec = s
      /\ e.uid = cr.uid /\ e.policy = cr.policy /\ e.deleting = cr.deleting
      /\ e.finalizer = cr.finalizer /\ e.processed = cr.processed /\ e.migration = cr.migration
  BY <1>1 DEF Objects
<1> QED
  BY <1>2 DEF g, v

LEMMA EditedPolicy ==
    ASSUME TypeOK, NEW p \in Policies
    PROVE  LET e == [cr EXCEPT !.policy = p, !.rv = @ + 1]
           IN  /\ e \in Objects
               /\ e.uid = cr.uid /\ e.gen = cr.gen /\ e.spec = cr.spec /\ e.deleting = cr.deleting
               /\ e.finalizer = cr.finalizer /\ e.processed = cr.processed /\ e.migration = cr.migration
<1> DEFINE v == cr.rv + 1
           e == [cr EXCEPT !.policy = p, !.rv = v]
<1>1. cr \in Objects /\ v \in Nat
  BY DEF TypeOK, Objects
<1> HIDE DEF v
<1>2. /\ e \in Objects
      /\ e.uid = cr.uid /\ e.gen = cr.gen /\ e.spec = cr.spec /\ e.deleting = cr.deleting
      /\ e.finalizer = cr.finalizer /\ e.processed = cr.processed /\ e.migration = cr.migration
  BY <1>1 DEF Objects
<1> QED
  BY <1>2 DEF v

LEMMA Deleted ==
    ASSUME TypeOK
    PROVE  LET e == [cr EXCEPT !.deleting = TRUE, !.gen = @ + 1, !.rv = @ + 1]
           IN  /\ e \in Objects /\ e.gen = cr.gen + 1 /\ e.deleting
               /\ e.uid = cr.uid /\ e.spec = cr.spec /\ e.policy = cr.policy
               /\ e.finalizer = cr.finalizer /\ e.processed = cr.processed /\ e.migration = cr.migration
<1> DEFINE g == cr.gen + 1
           v == cr.rv + 1
           e == [cr EXCEPT !.deleting = TRUE, !.gen = g, !.rv = v]
<1>1. cr \in Objects /\ g \in Nat /\ v \in Nat
  BY DEF TypeOK, Objects
<1> HIDE DEF g, v
<1>2. /\ e \in Objects /\ e.gen = g /\ e.deleting
      /\ e.uid = cr.uid /\ e.spec = cr.spec /\ e.policy = cr.policy
      /\ e.finalizer = cr.finalizer /\ e.processed = cr.processed /\ e.migration = cr.migration
  BY <1>1 DEF Objects
<1> QED
  BY <1>2 DEF g, v

LEMMA SpecsOfUsers == ASSUME TypeOK PROVE setup.specs \subseteq Specs
BY ServiceAssumption DEF TypeOK, SetupType

LEMMA UserShape ==
    ASSUME TypeOK,
           \/ \E s \in setup.specs : UserCreates(s) \/ UserEditsSpec(s)
           \/ \E p \in Policies : UserSetsPolicy(p)
           \/ UserDeletes
    PROVE  cr' \in Objects /\ (Makes \/ Respecs \/ Repolices \/ Vanishes \/ Condemns)
<1> USE DEF OfUsers, worker, migrating
<1>1. CASE \E s \in setup.specs : UserCreates(s)
  <2>1. PICK s \in Specs : UserCreates(s)
    BY <1>1, SpecsOfUsers
  <2>2. lastUid + 1 \in Nat
    BY DEF TypeOK
  <2> QED
    BY <2>1, <2>2, FreshFacts DEF UserCreates, Makes
<1>2. CASE \E s \in setup.specs : UserEditsSpec(s)
  <2>1. PICK s \in Specs : UserEditsSpec(s)
    BY <1>2, SpecsOfUsers
  <2> QED
    BY <2>1, EditedSpec DEF UserEditsSpec, Respecs, history
<1>3. CASE \E p \in Policies : UserSetsPolicy(p)
  BY <1>3, EditedPolicy DEF UserSetsPolicy, Repolices
<1>4. CASE UserDeletes
  <2>1. CASE cr.finalizer
    BY <1>4, <2>1, Deleted DEF UserDeletes, Condemns
  <2>2. CASE ~cr.finalizer
    BY <1>4, <2>2, NoObjectFacts DEF UserDeletes, Vanishes
  <2> QED
    BY <2>1, <2>2
<1> QED
  BY <1>1, <1>2, <1>3, <1>4

\* Every step has one of these shapes.
Shaped ==
    \/ Local \/ Starts \/ Configures \/ Tags \/ Writes \/ WritesStatus
    \/ Proceeds \/ LetsGo \/ Deletes \/ Releases
    \/ Makes \/ Respecs \/ Repolices \/ Vanishes \/ Condemns
    \/ SyncCache \/ AivenMigrates \/ OthersDelete

LEMMA ShapedStep == ASSUME TypeOK, WorkerPath, [Next]_vars PROVE Shaped
<1>1. CASE Reconcile
  BY <1>1, BeginShape, RefsShape, BackupsShape, ApplyShape, CreateShape, UpdateShape, TagsShape,
     ObserveShape, MigrationShape, SourceShape, PublishShape, WriteShape, StatusShape,
     FinalizeShape, DeleteShape, ReleaseShape
     DEF Reconcile, Shaped
<1>2. CASE Crash \/ CollectSecret \/ AivenProgress \/ UNCHANGED vars
  BY <1>2, CrashShape, AroundShape DEF Shaped
<1>3. CASE SyncCache \/ AivenMigrates
  BY <1>3 DEF Shaped
<1>4. CASE Others
  BY <1>4, AroundShape, UserShape DEF Others, Shaped
<1> QED
  BY <1>1, <1>2, <1>3, <1>4 DEF Next

----------------------------------------------------------------------------
(* Types and copies                                                        *)

LEMMA UidBounded == ASSUME CopiesInv, TypeOK, pc # "idle" PROVE obj.uid \in 1 .. lastUid
BY DEF CopiesInv, WorkerIsEarlier

\* What TypeOK asks of the variables that are not the worker's.
LEMMA TypeKept ==
    ASSUME TypeOK, Typed, UNCHANGED <<lastUid, cache, setup, token>>,
           cr' \in Objects, remote' \in Remotes, owner' \in Nat, {edits', faults', stale'} \subseteq Nat,
           fate' \in Fates, {drifted', protected'} \subseteq BOOLEAN, saved' \in 0 .. lastUid,
           {tried', handed'} \subseteq 0 .. lastUid, {source', moved', unreported'} \subseteq BOOLEAN
    PROVE  TypeOK'
BY DEF TypeOK, Typed

LEMMA TypeInit == ASSUME Init PROVE TypeOK
<1>1. setup \in Setups /\ source \in BOOLEAN
  BY ServiceAssumption DEF Init, SetupType
<1>2. {cr, cache, orig, obj} \subseteq Objects /\ remote \in Remotes
  BY NoObjectFacts, NoRemoteFacts DEF Init
<1>3. /\ lastUid = 0 /\ saved = 0 /\ tried = 0 /\ handed = 0 /\ owner = 0 /\ edits = 0 /\ faults = 0 /\ stale = 0
      /\ fate \in Fates /\ token \in Tokens /\ pc \in PCs
      /\ {drifted, protected, queued, again, moved, unreported} \subseteq BOOLEAN
  BY DEF Init, PCs, Tokens, Fates
<1> QED
  BY <1>1, <1>2, <1>3 DEF TypeOK

LEMMA TypeWorker ==
    ASSUME TypeOK, CopiesInv, Reconcile \/ Crash
    PROVE  TypeOK'
<1> USE DEF given, migrating, history, worker
<1>0. /\ cr \in Objects /\ remote \in Remotes /\ owner \in Nat /\ {edits, faults, stale} \subseteq Nat
      /\ fate \in Fates /\ {drifted, protected} \subseteq BOOLEAN /\ saved \in 0 .. lastUid
      /\ {tried, handed} \subseteq 0 .. lastUid /\ {source, moved, unreported} \subseteq BOOLEAN
      /\ pc # "idle" => obj.uid \in 0 .. lastUid /\ obj.uid \in Nat
  BY UidBounded DEF TypeOK
<1>a. Fault => faults' \in Nat
  BY <1>0 DEF Fault
<1>1. CASE Begin
  <2>1. UNCHANGED <<cr, lastUid, cache, remote, owner, given, migrating, edits, faults, history>> /\ stale' \in Nat
    BY <1>0, <1>1 DEF Begin
  <2>2. Typed
    BY <1>1, BeginShape DEF Typed, TypeOK
  <2> QED
    BY <1>0, <2>1, <2>2, TypeKept
<1>2. CASE ResolveRefs
  <2>1. UNCHANGED <<cr, lastUid, stale, cache, remote, owner, given, migrating, edits, history>> /\ faults' \in Nat
    BY <1>0, <1>a, <1>2 DEF ResolveRefs
  <2> QED
    BY <1>0, <1>2, <2>1, RefsShape, TypeKept
<1>3. CASE CheckBackups
  <2>1. UNCHANGED <<cr, lastUid, stale, cache, remote, owner, given, migrating, edits, history>> /\ faults' \in Nat
    BY <1>0, <1>a, <1>3 DEF CheckBackups
  <2> QED
    BY <1>0, <1>3, <2>1, BackupsShape, TypeKept
<1>4. CASE Apply
  <2>1. UNCHANGED <<cr, lastUid, stale, cache, remote, owner, given, migrating, edits, history>> /\ faults' \in Nat
    BY <1>0, <1>a, <1>4 DEF Apply
  <2> QED
    BY <1>0, <1>4, <2>1, ApplyShape, TypeKept
<1>5. CASE Create \/ UpdateService
  <2>1. /\ UNCHANGED <<cr, lastUid, stale, cache, owner, given, edits, source, moved, tried, unreported>>
        /\ faults' \in Nat /\ pc # "idle" /\ handed' \in {handed, obj.uid}
        /\ fate' \in Fates /\ UNCHANGED <<drifted, protected, saved>>
    BY <1>0, <1>a, <1>5 DEF Create, UpdateService, Answers, HandsOver, Fates
  <2>2. Typed /\ remote' \in Remotes
    BY <1>5, CreateShape, UpdateShape
  <2> QED
    BY <1>0, <2>1, <2>2, TypeKept
<1>6. CASE ReplaceTags
  <2>1. /\ UNCHANGED <<cr, lastUid, stale, cache, owner, given, migrating, edits, fate, protected, saved>>
        /\ faults' \in Nat
    BY <1>0, <1>a, <1>6 DEF ReplaceTags
  <2> QED
    BY <1>0, <1>6, <2>1, TagsShape, TypeKept
<1>7. CASE Observe
  <2>1. UNCHANGED <<cr, lastUid, stale, cache, remote, owner, given, migrating, edits, history>> /\ faults' \in Nat
    BY <1>0, <1>a, <1>7 DEF Observe
  <2> QED
    BY <1>0, <1>7, <2>1, ObserveShape, TypeKept DEF CopiesInv
<1>8. CASE CheckMigration
  <2>1. /\ UNCHANGED <<cr, lastUid, stale, cache, remote, owner, given, edits, history, source, moved, handed, tried>>
        /\ faults' \in Nat /\ unreported' \in BOOLEAN
    BY <1>0, <1>a, <1>8 DEF CheckMigration
  <2> QED
    BY <1>0, <1>8, <2>1, MigrationShape, TypeKept DEF CopiesInv
<1>9. CASE DeleteSource
  <2>1. /\ UNCHANGED <<cr, lastUid, stale, cache, remote, owner, given, edits, history, moved, handed, unreported>>
        /\ faults' \in Nat /\ source' \in BOOLEAN /\ tried' \in {tried, obj.uid} /\ pc = "source"
    BY <1>0, <1>a, <1>9 DEF DeleteSource
  <2> QED
    BY <1>0, <1>9, <2>1, SourceShape, TypeKept DEF CopiesInv
<1>10. CASE Publish
  <2>1. /\ UNCHANGED <<cr, lastUid, stale, cache, remote, given, migrating, edits, history>>
        /\ faults' \in Nat /\ owner' \in {owner, obj.uid} /\ pc = "publish"
    BY <1>0, <1>a, <1>10 DEF Publish
  <2> QED
    BY <1>0, <1>10, <2>1, PublishShape, TypeKept
<1>11. CASE Write
  <2>1. /\ UNCHANGED <<lastUid, stale, cache, remote, owner, given, migrating, edits, fate, drifted>>
        /\ faults' \in Nat /\ saved' \in {saved, obj.uid} /\ protected' \in BOOLEAN /\ pc = "write"
    BY <1>0, <1>a, <1>11 DEF Write
  <2>2. Typed /\ cr' \in Objects
    BY <1>0, <1>11, WriteShape DEF Local, Untouched
  <2> QED
    BY <1>0, <2>1, <2>2, TypeKept
<1>12. CASE WriteStatus
  <2>1. /\ UNCHANGED <<lastUid, stale, cache, remote, owner, given, edits, history, source, moved, handed, tried>>
        /\ faults' \in Nat /\ unreported' \in BOOLEAN
    BY <1>0, <1>a, <1>12 DEF WriteStatus
  <2>2. Typed /\ cr' \in Objects
    BY <1>0, <1>12, StatusShape DEF Local, Untouched
  <2> QED
    BY <1>0, <2>1, <2>2, TypeKept
<1>13. CASE Finalize
  <2>1. UNCHANGED <<cr, lastUid, stale, cache, owner, given, migrating, edits>> /\ faults' \in Nat
    BY <1>0, <1>a, <1>13 DEF Finalize, LetGoOnInvalidToken
  <2> QED
    BY <1>0, <1>13, <2>1, FinalizeShape, TypeKept
<1>14. CASE Delete
  <2>1. UNCHANGED <<cr, lastUid, stale, cache, owner, given, migrating, edits>> /\ faults' \in Nat
    BY <1>0, <1>a, <1>14 DEF Delete, LetGoOnInvalidToken
  <2> QED
    BY <1>0, <1>14, <2>1, DeleteShape, TypeKept
<1>15. CASE RemoveFinalizer
  <2>1. /\ UNCHANGED <<lastUid, stale, cache, remote, owner, given, migrating, edits, history>>
        /\ faults' \in Nat
    BY <1>0, <1>a, <1>15 DEF RemoveFinalizer
  <2>2. Typed /\ cr' \in Objects
    BY <1>0, <1>15, ReleaseShape DEF Local, Untouched
  <2> QED
    BY <1>0, <2>1, <2>2, TypeKept
<1>16. CASE Crash
  <2>1. UNCHANGED <<cr, lastUid, stale, cache, remote, owner, given, migrating, edits, history>> /\ faults' \in Nat
    BY <1>0, <1>a, <1>16 DEF Crash
  <2> QED
    BY <1>0, <1>16, <2>1, CrashShape, TypeKept
<1> QED
  BY <1>1, <1>2, <1>3, <1>4, <1>5, <1>6, <1>7, <1>8, <1>9, <1>10, <1>11, <1>12, <1>13, <1>14, <1>15, <1>16
     DEF Reconcile

LEMMA TypeAround ==
    ASSUME TypeOK, ~Reconcile, ~Crash, [Next]_vars
    PROVE  TypeOK'
<1> USE DEF given, migrating, history, worker
<1>0. /\ {cr, cache, orig, obj} \subseteq Objects /\ remote \in Remotes /\ owner \in Nat
      /\ {edits, faults, stale} \subseteq Nat /\ lastUid \in Nat
      /\ fate \in Fates /\ {drifted, protected} \subseteq BOOLEAN /\ saved \in 0 .. lastUid
      /\ {tried, handed} \subseteq 0 .. lastUid /\ {source, moved, unreported} \subseteq BOOLEAN
      /\ pc \in PCs /\ again \in BOOLEAN /\ queued \in BOOLEAN /\ token \in Tokens /\ setup \in Setups
  BY DEF TypeOK
<1>a. Edit => edits' \in Nat
  BY <1>0 DEF Edit
<1>1. CASE UNCHANGED vars
  BY <1>1 DEF vars, TypeOK
<1>2. CASE SyncCache
  BY <1>0, <1>2 DEF SyncCache, TypeOK
<1>3. CASE CollectSecret \/ AivenProgress \/ UserDeletesSecret \/ UserChangesSource \/ OthersProtect
  <2>1. UNCHANGED <<orig, obj, pc, again>> /\ remote' \in Remotes
    BY <1>3, AroundShape
  <2>2. /\ UNCHANGED <<setup, cr, lastUid, cache, token, faults, stale, fate, drifted, protected, saved,
                       tried, moved, handed, unreported>>
        /\ queued' \in BOOLEAN /\ owner' \in Nat /\ source' \in BOOLEAN /\ edits' \in Nat
    <3>1. CASE CollectSecret \/ AivenProgress
      BY <1>0, <3>1 DEF CollectSecret, AivenProgress
    <3>2. CASE UserDeletesSecret
      BY <1>0, <1>a, <3>2 DEF UserDeletesSecret
    <3>3. CASE OthersProtect
      BY <1>0, <1>a, <3>3 DEF OthersProtect
    <3>4. CASE UserChangesSource
      BY <1>0, <1>a, <3>4 DEF UserChangesSource
    <3> QED
      BY <1>3, <3>1, <3>2, <3>3, <3>4
  <2> QED
    BY <1>0, <2>1, <2>2 DEF TypeOK
<1>4. CASE \E t \in Tokens : UserChangesToken(t)
  <2>1. /\ UNCHANGED <<setup, cr, lastUid, cache, queued, worker, remote, owner, faults, stale, migrating, history>>
        /\ token' \in Tokens /\ edits' \in Nat
    BY <1>0, <1>a, <1>4 DEF UserChangesToken
  <2> QED
    BY <1>0, <2>1 DEF TypeOK
<1>5. CASE AivenMigrates
  <2>1. PICK m \in {"progress", "failed", "done"} :
            remote' = [remote EXCEPT !.migration = m] /\ moved' \in BOOLEAN
    BY <1>0, <1>5 DEF AivenMigrates
  <2>2. remote' \in Remotes
    BY <1>0, <2>1 DEF Remotes, Migrations
  <2>3. UNCHANGED <<cr, lastUid, stale, cache, queued, worker, owner, given, edits, faults, history, source,
                    handed, tried, unreported>>
    BY <1>5 DEF AivenMigrates
  <2> QED
    BY <1>0, <2>1, <2>2, <2>3 DEF TypeOK
<1>6. CASE \E s \in setup.specs : UserCreates(s)
  <2>1. /\ UNCHANGED <<cache, queued, worker, remote, owner, given, migrating, faults, stale, fate, saved>>
        /\ edits' \in Nat /\ lastUid' = lastUid + 1 /\ drifted' = FALSE /\ protected' = FALSE
    BY <1>0, <1>a, <1>6 DEF UserCreates
  <2>2. cr' \in Objects
    BY <1>6, UserShape
  <2>3. lastUid' \in Nat /\ {saved', tried', handed'} \subseteq 0 .. lastUid'
    BY <1>0, <2>1
  <2> QED
    BY <1>0, <2>1, <2>2, <2>3 DEF TypeOK
<1>7. CASE \E s \in setup.specs : UserEditsSpec(s)
  <2>1. /\ UNCHANGED <<lastUid, stale, cache, queued, worker, remote, owner, given, migrating, faults, history>>
        /\ edits' \in Nat
    BY <1>a, <1>7 DEF UserEditsSpec
  <2>2. cr' \in Objects
    BY <1>7, UserShape
  <2> QED
    BY <1>0, <2>1, <2>2 DEF TypeOK
<1>8. CASE \E p \in Policies : UserSetsPolicy(p)
  <2>1. /\ UNCHANGED <<lastUid, stale, cache, queued, worker, remote, owner, given, migrating, faults,
                       fate, drifted, saved>>
        /\ edits' \in Nat /\ protected' = FALSE
    BY <1>a, <1>8 DEF UserSetsPolicy
  <2>2. cr' \in Objects
    BY <1>8, UserShape
  <2> QED
    BY <1>0, <2>1, <2>2 DEF TypeOK
<1>9. CASE UserDeletes
  <2>1. /\ UNCHANGED <<lastUid, stale, cache, queued, worker, remote, owner, given, migrating, faults,
                       fate, drifted, saved>>
        /\ edits' \in Nat /\ protected' \in BOOLEAN
    BY <1>0, <1>a, <1>9 DEF UserDeletes
  <2>2. cr' \in Objects
    BY <1>9, UserShape
  <2> QED
    BY <1>0, <2>1, <2>2 DEF TypeOK
<1>10. CASE OthersDelete
  <2>1. /\ UNCHANGED <<cr, lastUid, stale, cache, queued, worker, owner, given, migrating, faults,
                       protected, saved>>
        /\ edits' \in Nat /\ remote' \in Remotes /\ fate' = "none" /\ drifted' = TRUE
    BY <1>0, <1>a, <1>10, NoRemoteFacts DEF OthersDelete
  <2> QED
    BY <1>0, <2>1 DEF TypeOK, Fates
<1> QED
  BY <1>1, <1>2, <1>3, <1>4, <1>5, <1>6, <1>7, <1>8, <1>9, <1>10 DEF Next, Others

LEMMA TypeStep == ASSUME TypeOK, CopiesInv, [Next]_vars PROVE TypeOK'
BY TypeWorker, TypeAround

LEMMA CopiesInit == ASSUME Init PROVE CopiesInv
BY NoObjectFacts
   DEF Init, CopiesInv, CacheIsEarlier, WorkerIsEarlier, WorkerPath, Sane, Earlier, Exists,
       Applying, Finalizing

\* The worker goes on with its copy, and nothing else moves.
LEMMA CopiesOfWorker ==
    ASSUME TypeOK, CopiesInv, UNCHANGED <<cr, lastUid, cache>>,
           \/ WorkerRests
           \/ UNCHANGED <<pc, obj>>
           \/ pc # "idle" /\ Rewrites(obj', obj) /\ obj'.processed \in {0, obj.processed, obj.gen}
    PROVE  CacheIsEarlier' /\ WorkerIsEarlier'
<1>1. CacheIsEarlier'
  BY DEF CopiesInv, CacheIsEarlier, Sane, Earlier, Exists
<1>2. CASE WorkerRests
  BY <1>1, <1>2 DEF WorkerRests, WorkerIsEarlier
<1>3. CASE UNCHANGED <<pc, obj>>
  BY <1>1, <1>3 DEF CopiesInv, WorkerIsEarlier, Sane, Earlier, Exists
<1>4. CASE pc # "idle" /\ Rewrites(obj', obj) /\ obj'.processed \in {0, obj.processed, obj.gen}
  <2>1. obj \in Objects /\ obj.gen \in Nat /\ obj.processed \in Nat
    BY DEF TypeOK, Objects
  <2>2. Sane(obj')
    BY <1>4, <2>1 DEF CopiesInv, WorkerIsEarlier, Rewrites, Sane, Exists
  <2>3. Earlier(obj')
    BY <1>4, <2>1 DEF CopiesInv, WorkerIsEarlier, Rewrites, Earlier, Exists
  <2>4. Earlier(obj)'
    BY <1>4, <2>3 DEF Earlier, Exists
  <2> QED
    BY <1>1, <1>4, <2>1, <2>2, <2>4 DEF CopiesInv, WorkerIsEarlier, Rewrites, Sane, Exists
<1> QED
  BY <1>2, <1>3, <1>4

LEMMA PathRests == ASSUME WorkerRests PROVE WorkerPath'
BY DEF WorkerRests, WorkerPath, Applying, Finalizing

\* The object changes, with the worker's copy or without.
LEMMA CopiesOfObject ==
    ASSUME TypeOK, TypeOK', CopiesInv, UNCHANGED <<lastUid, cache>>,
           \/ WorkerRests
           \/ UNCHANGED <<pc, obj>>
           \/ pc # "idle" /\ Restates(obj', obj),
           cr'.uid = cr.uid /\ Sane(cr)' /\ cr'.gen >= cr.gen,
           cr'.gen = cr.gen => cr'.spec = cr.spec,
           cr.deleting => cr'.deleting,
           \/ cr'.processed = cr.processed
           \/ cr.uid = cache.uid /\ cr'.processed <= cache.gen /\ (pc # "idle" => cr'.processed <= obj.gen),
           cr.uid # cache.uid => (cr'.finalizer <=> cr.finalizer) /\ cr'.migration = cr.migration,
           pc # "idle" /\ cr.uid # obj.uid => UNCHANGED <<cr.processed, cr.finalizer, cr.migration>>
    PROVE  CacheIsEarlier' /\ WorkerIsEarlier'
<1> USE DEF AsMade
<1>0. /\ {cr.gen, cr'.gen, cr.processed, cr'.processed, cache.gen, cache.processed, obj.gen, obj.processed,
          cr.uid, cache.uid, obj.uid, lastUid} \subseteq Nat
  BY DEF TypeOK, Objects
<1>1. CacheIsEarlier'
  <2>1. Earlier(cache)'
    BY <1>0 DEF CopiesInv, CacheIsEarlier, Earlier, Exists
  <2> QED
    BY <1>0, <2>1 DEF CopiesInv, CacheIsEarlier, Sane, Exists
<1>2. CASE WorkerRests
  BY <1>1, <1>2 DEF WorkerRests, WorkerIsEarlier
<1>3. CASE pc # "idle" /\ Rewrites(obj', obj) /\ obj'.processed = obj.processed
  <2>1. Earlier(obj)'
    BY <1>0, <1>3 DEF CopiesInv, WorkerIsEarlier, Earlier, Exists, Rewrites
  <2> QED
    BY <1>0, <1>1, <1>3, <2>1 DEF CopiesInv, WorkerIsEarlier, Sane, Exists, Rewrites
<1>4. CASE UNCHANGED <<pc, obj>>
  <2>1. pc # "idle" => Earlier(obj)'
    BY <1>0, <1>4 DEF CopiesInv, WorkerIsEarlier, Earlier, Exists
  <2> QED
    BY <1>0, <1>1, <1>4, <2>1 DEF CopiesInv, WorkerIsEarlier, Sane, Exists
<1> QED
  BY <1>2, <1>3, <1>4 DEF Restates

LEMMA CopiesStep == ASSUME TypeOK, TypeOK', CopiesInv, Shaped PROVE CopiesInv'
<1> USE DEF AsMade
<1> USE DEF Untouched
<1>0. /\ {cr, obj, cache, cr', obj', cache'} \subseteq Objects /\ lastUid \in Nat
      /\ {cr.gen, cr'.gen, cr.processed, cr'.processed, cache.gen, cache.processed, obj.gen, obj.processed,
          cr.uid, cache.uid, obj.uid} \subseteq Nat
  BY DEF TypeOK, Objects
<1>1. CASE Local
  <2>1. CacheIsEarlier' /\ WorkerIsEarlier'
    BY <1>1, CopiesOfWorker DEF Local, Applying
  <2>2. WorkerPath'
    <3>1. CASE WorkerRests
      BY <3>1, PathRests
    <3>2. CASE UNCHANGED <<pc, obj>>
      BY <3>2 DEF CopiesInv, WorkerPath, hasLatestGeneration
    <3>3. CASE /\ pc \in Applying /\ pc' \in Applying \ {"tags"}
               /\ pc' \in {"observe", "migration", "source", "publish"} => hasLatestGeneration(obj')
               /\ pc' = "migration" => obj.spec \in MigratingSpecs
               /\ pc' = "source" => obj'.migration = "done"
               /\ Rewrites(obj', obj)
      BY <3>3 DEF CopiesInv, WorkerPath, Rewrites, hasLatestGeneration, Applying, Finalizing
    <3> QED
      BY <1>1, <3>1, <3>2, <3>3 DEF Local
  <2> QED
    BY <2>1, <2>2 DEF CopiesInv
<1>2. CASE Starts
  <2>1. CacheIsEarlier'
    BY <1>2 DEF Starts, CopiesInv, CacheIsEarlier, Sane, Earlier, Exists
  <2>2. Sane(obj)' /\ Earlier(obj)'
    BY <1>0, <1>2 DEF Starts, CopiesInv, CacheIsEarlier, Sane, Earlier, Exists
  <2>3. WorkerIsEarlier'
    BY <1>0, <1>2, <2>2 DEF Starts, CopiesInv, CacheIsEarlier, Sane, WorkerIsEarlier, Exists
  <2>4. WorkerPath'
    BY <1>2 DEF Starts, WorkerPath, Applying, Finalizing
  <2> QED
    BY <2>1, <2>3, <2>4 DEF CopiesInv
<1>3. CASE Configures \/ Tags
  <2>1. \/ WorkerRests
        \/ /\ pc \in Applying /\ pc' \in {"tags", "write"} /\ Rewrites(obj', obj)
           /\ obj'.processed \in {0, obj.processed}
        \/ pc \in Applying /\ pc' = "observe" /\ obj' = Processed(obj)
    BY <1>0, <1>3, Selves
       DEF Configures, Tags, Passes, Fails, WorkerGoes, Applying, Restates
  <2>2. Rewrites(Processed(obj), obj) /\ Processed(obj).processed = obj.gen
    BY <1>0, ProcessedValue
  <2>3. UNCHANGED <<cr, lastUid, cache>>
    BY <1>3 DEF Configures, Tags
  <2>4. CacheIsEarlier' /\ WorkerIsEarlier'
    BY <2>1, <2>2, <2>3, CopiesOfWorker DEF Applying
  <2>5. WorkerPath'
    <3>1. CASE WorkerRests
      BY <3>1, PathRests
    <3>2. CASE pc \in Applying /\ pc' \in {"tags", "write"} /\ Rewrites(obj', obj)
      BY <3>2 DEF CopiesInv, WorkerPath, Rewrites, Applying, Finalizing
    <3>3. CASE pc \in Applying /\ pc' = "observe" /\ obj' = Processed(obj)
      BY <2>2, <3>3 DEF CopiesInv, WorkerPath, Rewrites, Applying, Finalizing, hasLatestGeneration
    <3> QED
      BY <2>1, <3>1, <3>2, <3>3
  <2> QED
    BY <2>4, <2>5 DEF CopiesInv
<1>4. CASE Writes
  <2>1. /\ cr' = Update(obj) /\ pc = "write" /\ obj.uid = cr.uid /\ cache.uid = cr.uid /\ Exists(cr)
        /\ UNCHANGED <<lastUid, cache>>
        /\ WorkerRests \/ (pc' = "status" /\ Restates(obj', obj))
    BY <1>4 DEF Writes
  <2>2. /\ cr'.uid = cr.uid /\ cr'.deleting = cr.deleting /\ cr'.spec = obj.spec
        /\ cr'.processed = obj.processed
        /\ cr'.gen = IF obj.spec = cr.spec THEN cr.gen ELSE cr.gen + 1
    BY <1>0, <2>1, UpdateValue
  <2>3. /\ obj.gen <= cr.gen /\ obj.gen <= cache.gen /\ obj.processed <= obj.gen /\ obj.gen > 0
        /\ obj.spec \in Specs
    BY <2>1 DEF CopiesInv, WorkerIsEarlier, Sane, Earlier, Exists
  <2>4. Sane(cr)' /\ cr'.gen >= cr.gen /\ cr'.processed <= cache.gen /\ cr'.processed <= obj.gen
        /\ (cr'.gen = cr.gen => cr'.spec = cr.spec)
    BY <1>0, <2>1, <2>2, <2>3 DEF Sane, Exists
  <2>5. CacheIsEarlier' /\ WorkerIsEarlier'
    BY <2>1, <2>2, <2>4, CopiesOfObject
  <2>6. WorkerPath'
    BY <2>1, PathRests DEF CopiesInv, WorkerPath, Restates, Rewrites, Applying, Finalizing
  <2> QED
    BY <2>5, <2>6 DEF CopiesInv
<1>5. CASE WritesStatus
  <2>1. Rewrites(cr', cr) /\ cr'.processed = cr.processed
    BY <1>0, <1>5, StatusUpdateValue DEF WritesStatus
  <2>2. Sane(cr)'
    BY <1>0, <2>1 DEF CopiesInv, CacheIsEarlier, Rewrites, Sane, Exists
  <2>3. cache.uid = cr.uid
    BY <1>5 DEF WritesStatus, CopiesInv, WorkerIsEarlier
  <2>4. CacheIsEarlier' /\ WorkerIsEarlier'
    BY <1>0, <1>5, <2>1, <2>2, <2>3, CopiesOfObject DEF WritesStatus, Rewrites
  <2> QED
    BY <1>5, <2>4, PathRests DEF WritesStatus, CopiesInv
<1>6. CASE Proceeds \/ LetsGo
  <2>1. /\ UNCHANGED <<cr, lastUid, cache, obj>> /\ pc \in Finalizing /\ pc' \in {"delete", "unfinalize"}
        /\ pc' = "delete" => obj.policy # "Orphan"
    BY <1>6 DEF Proceeds, LetsGo, Finalizing
  <2>2. CacheIsEarlier' /\ WorkerIsEarlier'
    BY <1>0, <2>1, CopiesOfWorker, Selves DEF Restates, Finalizing
  <2>3. WorkerPath'
    BY <2>1 DEF CopiesInv, WorkerPath, Applying, Finalizing
  <2> QED
    BY <2>2, <2>3 DEF CopiesInv
<1>7. CASE Deletes
  <2>1. /\ UNCHANGED <<cr, lastUid, cache>> /\ pc \in Finalizing
        /\ WorkerRests \/ (pc' = "unfinalize" /\ obj' = obj)
    BY <1>7 DEF Deletes, Finalizing
  <2>2. CacheIsEarlier' /\ WorkerIsEarlier'
    BY <1>0, <2>1, CopiesOfWorker, Selves DEF Restates, Finalizing
  <2>3. WorkerPath'
    BY <2>1, PathRests DEF CopiesInv, WorkerPath, Applying, Finalizing
  <2> QED
    BY <2>2, <2>3 DEF CopiesInv
<1>8. CASE Releases
  <2>1. WorkerRests /\ UNCHANGED <<lastUid, cache>> /\ cache.uid = cr.uid
    BY <1>8 DEF Releases
  <2>2. CASE cr' = NoObject
    BY <1>0, <2>1, <2>2, NoObjectFacts
       DEF CopiesInv, CacheIsEarlier, Sane, Earlier, Exists, WorkerRests, WorkerIsEarlier, WorkerPath,
           Applying, Finalizing
  <2>3. CASE /\ cr'.uid = cr.uid /\ cr'.gen = cr.gen /\ cr'.spec = cr.spec
             /\ cr'.deleting = cr.deleting /\ cr'.processed = cr.processed
    <3>1. Sane(cr)'
      BY <2>3 DEF CopiesInv, CacheIsEarlier, Sane, Exists
    <3>2. CacheIsEarlier' /\ WorkerIsEarlier'
      <4>1. CacheIsEarlier'
        BY <2>1, <2>3, <3>1 DEF CopiesInv, CacheIsEarlier, Sane, Earlier, Exists
      <4> QED
        BY <2>1, <4>1 DEF WorkerRests, WorkerIsEarlier
    <3> QED
      BY <2>1, <3>2, PathRests DEF CopiesInv
  <2> QED
    BY <1>8, <2>2, <2>3 DEF Releases
<1>9. CASE SyncCache
  <2>1. cache' = cr /\ UNCHANGED <<cr, lastUid, pc, obj>>
    BY <1>9 DEF SyncCache, worker
  <2>2. CacheIsEarlier'
    BY <1>0, <2>1 DEF CopiesInv, CacheIsEarlier, Sane, Earlier, Exists
  <2>3. WorkerIsEarlier'
    BY <1>0, <2>1 DEF CopiesInv, WorkerIsEarlier, Sane, Earlier, Exists
  <2> QED
    BY <2>1, <2>2, <2>3 DEF CopiesInv, WorkerPath, hasLatestGeneration
<1>10. CASE AivenMigrates \/ OthersDelete
  <2>1. UNCHANGED <<cr, lastUid, cache, pc, obj>>
    BY <1>10 DEF AivenMigrates, OthersDelete, worker
  <2>2. CacheIsEarlier' /\ WorkerIsEarlier'
    BY <2>1, CopiesOfWorker
  <2> QED
    BY <2>1, <2>2 DEF CopiesInv, WorkerPath, hasLatestGeneration
<1>11. CASE Makes
  <2>1. CacheIsEarlier'
    BY <1>0, <1>11 DEF Makes, OfUsers, CopiesInv, CacheIsEarlier, Sane, Earlier, Exists
  <2>2. WorkerIsEarlier'
    BY <1>0, <1>11 DEF Makes, OfUsers, CopiesInv, CacheIsEarlier, WorkerIsEarlier, Sane, Earlier, Exists
  <2> QED
    BY <1>11, <2>1, <2>2 DEF Makes, OfUsers, CopiesInv, WorkerPath, hasLatestGeneration
<1>12. CASE Respecs \/ Repolices \/ Condemns
  <2>1. /\ cr'.uid = cr.uid /\ cr'.gen >= cr.gen /\ (cr'.gen = cr.gen => cr'.spec = cr.spec)
        /\ cr'.spec \in Specs \cup {cr.spec} /\ (cr.deleting => cr'.deleting)
        /\ cr'.finalizer = cr.finalizer /\ cr'.processed = cr.processed
        /\ cr'.migration = cr.migration
        /\ UNCHANGED <<lastUid, cache, pc, obj>>
    BY <1>0, <1>12 DEF Respecs, Repolices, Condemns, OfUsers
  <2>2. Sane(cr)'
    BY <1>0, <2>1 DEF CopiesInv, CacheIsEarlier, Sane, Exists
  <2>3. CacheIsEarlier' /\ WorkerIsEarlier'
    BY <1>0, <2>1, <2>2, CopiesOfObject
  <2> QED
    BY <2>1, <2>3 DEF CopiesInv, WorkerPath, hasLatestGeneration
<1>13. CASE Vanishes
  <2>1. cr'.uid = 0 /\ cr'.gen = 1 /\ AsMade(cr')
    BY <1>13, NoObjectFacts DEF Vanishes
  <2>2. CacheIsEarlier'
    BY <1>0, <1>13, <2>1 DEF Vanishes, OfUsers, CopiesInv, CacheIsEarlier, Sane, Earlier, Exists
  <2>3. WorkerIsEarlier'
    BY <1>0, <1>13, <2>1 DEF Vanishes, OfUsers, CopiesInv, WorkerIsEarlier, Sane, Earlier, Exists
  <2> QED
    BY <1>13, <2>2, <2>3 DEF Vanishes, OfUsers, CopiesInv, WorkerPath, hasLatestGeneration
<1> QED
  BY <1>1, <1>2, <1>3, <1>4, <1>5, <1>6, <1>7, <1>8, <1>9, <1>10, <1>11, <1>12, <1>13 DEF Shaped

----------------------------------------------------------------------------
(* What a claim of the current generation is worth                         *)

LEMMA Numbers ==
    ASSUME TypeOK
    PROVE  {cr.gen, cr.processed, cr.uid, cache.gen, cache.processed, cache.uid,
            obj.gen, obj.processed, obj.uid, lastUid, saved} \subseteq Nat
BY DEF TypeOK, Objects

\* Whoever claims it, the worker's copy is of that very generation.
LEMMA ClaimsMatch ==
    ASSUME TypeOK, CopiesInv, pc # "idle", Claims(cr) \/ Claims(cache) \/ Claims(obj)
    PROVE  Exists(cr) /\ obj.uid = cr.uid /\ obj.gen = cr.gen /\ obj.spec = cr.spec
<1>1. obj.uid = cr.uid /\ Exists(cr)
  BY Numbers
     DEF CopiesInv, CacheIsEarlier, WorkerIsEarlier, AsMade, Sane, Claims, hasLatestGeneration, Exists
<1>2. obj.gen = cr.gen
  BY <1>1, Numbers
     DEF CopiesInv, CacheIsEarlier, WorkerIsEarlier, Sane, Earlier, Claims, hasLatestGeneration, Exists
<1> QED
  BY <1>1, <1>2 DEF CopiesInv, WorkerIsEarlier, Earlier, Exists

LEMMA AppliedInit == ASSUME Init PROVE AppliedInv
BY NoObjectFacts, NoRemoteFacts DEF Init, AppliedInv, Claims, Exists, InUse

\* The object stays, and of what the worker has nothing more is claimed.
LEMMA AppliedKept ==
    ASSUME AppliedInv, UNCHANGED <<cr, cache, drifted>>, SameService,
           pc' # "idle" /\ Claims(obj') => pc # "idle" /\ Claims(obj),
           pc' = "tags" => pc = "tags" /\ obj' = obj
    PROVE  AppliedInv'
BY DEF AppliedInv, SameService, InUse, Claims, Exists, IsApplied, hasLatestGeneration

LEMMA AppliedStep == ASSUME TypeOK, TypeOK', CopiesInv, AppliedInv, Shaped PROVE AppliedInv'
<1> USE DEF Untouched, history
<1>0. {cr, obj, cache} \subseteq Objects
  BY DEF TypeOK
<1>1. CASE Local
  <2>1. pc' # "idle" /\ Claims(obj') => pc # "idle" /\ Claims(obj)
    BY <1>1, Numbers
       DEF Local, WorkerRests, Applying, Rewrites, Claims, Exists, hasLatestGeneration, CopiesInv,
           WorkerIsEarlier, Sane
  <2> QED
    BY <1>1, <2>1, AppliedKept DEF Local, WorkerRests, Applying
<1>2. CASE Starts
  <2>1. Claims(obj') => Claims(cache)
    BY <1>2 DEF Starts, Claims, Exists, hasLatestGeneration
  <2> QED
    BY <1>2, <2>1 DEF Starts, AppliedInv, InUse, Claims, Exists, IsApplied, hasLatestGeneration
<1>3. CASE Configures
  <2>1. /\ UNCHANGED <<cr, cache, drifted>> /\ pc # "idle"
        /\ InUse' /\ remote'.spec = obj.spec /\ (InUse => remote'.tags = remote.tags)
        /\ WorkerRests \/ obj' = obj
           \/ (Rewrites(obj', obj) /\ obj'.processed = 0 /\ pc' = "write")
    BY <1>3 DEF Configures, Passes, Fails, WorkerGoes
  <2>2. ~cr.deleting /\ ~drifted /\ (Claims(cr) \/ Claims(cache) \/ Claims(obj)) => IsApplied'
    <3> SUFFICES ASSUME ~cr.deleting, ~drifted, Claims(cr) \/ Claims(cache) \/ Claims(obj)
                 PROVE  IsApplied'
      OBVIOUS
    <3>1. Exists(cr) /\ obj.spec = cr.spec /\ IsApplied
      BY <2>1, ClaimsMatch DEF AppliedInv
    <3>2. cr.spec \in Specs
      BY <3>1 DEF CopiesInv, CacheIsEarlier, Sane
    <3>3. InUse
      BY <3>1, <3>2, ServiceAssumption DEF AppliedInv, IsApplied
    <3> QED
      BY <2>1, <3>1, <3>3 DEF IsApplied
  <2>3. pc' # "idle" /\ Claims(obj)' => Claims(obj)
    BY <2>1, Numbers
       DEF WorkerRests, Rewrites, Claims, Exists, hasLatestGeneration, CopiesInv, WorkerIsEarlier, Sane
  <2>4. pc' = "tags" => obj' = obj
    BY <2>1 DEF WorkerRests
  <2> QED
    BY <2>1, <2>2, <2>3, <2>4 DEF AppliedInv, Claims, Exists, hasLatestGeneration
<1>4. CASE Tags
  <2>1. /\ UNCHANGED <<cr, cache>> /\ pc = "tags" /\ pc # "idle" /\ drifted' = FALSE
        /\ InUse /\ InUse' /\ remote'.spec = remote.spec /\ remote'.tags = obj.spec
        /\ pc' \in {"idle", "write", "observe"}
    BY <1>4 DEF Tags, Fails, WorkerRests, WorkerGoes
  <2>2. remote.spec = obj.spec
    BY <2>1 DEF AppliedInv
  <2>3. Claims(cr) \/ Claims(cache) => IsApplied'
    BY <2>1, <2>2, ClaimsMatch DEF IsApplied
  <2>4. pc' # "idle" /\ Claims(obj)' => IsApplied'
    <3>1. pc' # "idle" => obj'.uid = obj.uid /\ obj'.gen = obj.gen
      BY <1>0, <1>4, ProcessedValue DEF Tags, Fails, WorkerRests, Rewrites
    <3>2. pc' # "idle" /\ Claims(obj)' => Exists(obj) /\ obj.uid = cr.uid /\ obj.gen = cr.gen
      BY <2>1, <3>1 DEF Claims, Exists
    <3> QED
      BY <2>1, <2>2, <3>2 DEF CopiesInv, WorkerIsEarlier, Earlier, IsApplied
  <2> QED
    BY <2>1, <2>3, <2>4 DEF AppliedInv, Claims, Exists, hasLatestGeneration
<1>5. CASE Writes
  <2>1. /\ cr' = Update(obj) /\ pc = "write" /\ obj.uid = cr.uid /\ Exists(cr)
        /\ UNCHANGED <<cache, remote, drifted>>
        /\ pc' # "idle" => Restates(obj', obj) /\ pc' = "status"
    BY <1>5 DEF Writes, WorkerRests
  <2>2. /\ cr'.uid = cr.uid /\ cr'.deleting = cr.deleting /\ cr'.spec = obj.spec
        /\ cr'.processed = obj.processed
        /\ cr'.gen = IF obj.spec = cr.spec THEN cr.gen ELSE cr.gen + 1
    BY <1>0, <2>1, UpdateValue
  <2>3. obj.gen <= cr.gen /\ obj.processed <= obj.gen
    BY <2>1 DEF CopiesInv, WorkerIsEarlier, Sane, Earlier, Exists
  <2>4. CASE obj.spec = cr.spec
    <3>1. Claims(cr)' => Claims(obj)
      BY <2>1, <2>2, <2>3, <2>4, Numbers DEF Claims, Exists, hasLatestGeneration
    <3>2. Claims(cache)' => Claims(cache)
      BY <2>1, <2>2, <2>4 DEF Claims, Exists, hasLatestGeneration
    <3>3. pc' # "idle" /\ Claims(obj)' => Claims(obj)
      BY <2>1, <2>2, <2>4 DEF Claims, Exists, hasLatestGeneration, Restates, Rewrites
    <3> QED
      BY <2>1, <2>2, <2>4, <3>1, <3>2, <3>3 DEF AppliedInv, InUse, IsApplied
  <2>5. CASE obj.spec # cr.spec
    <3>1. ~Claims(cr)'
      BY <2>1, <2>2, <2>3, <2>5, Numbers DEF Claims, Exists, hasLatestGeneration
    <3>2. ~Claims(cache)'
      BY <2>1, <2>2, <2>5, Numbers DEF Claims, Exists, CopiesInv, CacheIsEarlier, Earlier
    <3>3. pc' # "idle" => ~Claims(obj)'
      BY <2>1, <2>2, <2>3, <2>5, Numbers DEF Claims, Exists, Restates, Rewrites
    <3> QED
      BY <2>1, <3>1, <3>2, <3>3 DEF AppliedInv, InUse
  <2> QED
    BY <2>4, <2>5
<1>6. CASE WritesStatus
  <2>1. Rewrites(cr', cr) /\ cr'.processed = cr.processed
    BY <1>0, <1>6, StatusUpdateValue DEF WritesStatus
  <2> QED
    BY <1>6, <2>1
       DEF WritesStatus, WorkerRests, Rewrites, AppliedInv, InUse, Claims, Exists, IsApplied,
           hasLatestGeneration
<1>7. CASE Proceeds \/ LetsGo
  BY <1>7, AppliedKept DEF Proceeds, LetsGo, SameService, InUse
<1>8. CASE Deletes
  <2>1. /\ UNCHANGED <<cr, cache>> /\ remote' = NoRemote /\ pc = "delete"
        /\ WorkerRests \/ (pc' = "unfinalize" /\ obj' = obj)
    BY <1>8 DEF Deletes
  <2>2. obj.deleting
    BY <2>1 DEF CopiesInv, WorkerPath, Finalizing
  <2>3. ~cr.deleting => ~(Claims(cr) \/ Claims(cache) \/ Claims(obj))
    BY <2>1, <2>2, ClaimsMatch DEF CopiesInv, WorkerIsEarlier, Earlier, Exists
  <2> QED
    BY <2>1, <2>3, NoRemoteFacts
       DEF WorkerRests, AppliedInv, InUse, Claims, Exists, hasLatestGeneration
<1>9. CASE Releases
  <2>1. CASE cr' = NoObject
    BY <1>9, <2>1, NoObjectFacts DEF Releases, WorkerRests, AppliedInv, InUse, Claims, Exists
  <2>2. CASE /\ cr'.uid = cr.uid /\ cr'.gen = cr.gen /\ cr'.spec = cr.spec
             /\ cr'.deleting = cr.deleting /\ cr'.processed = cr.processed
    BY <1>9, <2>2
       DEF Releases, WorkerRests, AppliedInv, InUse, Claims, Exists, IsApplied, hasLatestGeneration
  <2> QED
    BY <1>9, <2>1, <2>2 DEF Releases
<1>10. CASE SyncCache
  BY <1>10
     DEF SyncCache, worker, AppliedInv, InUse, Claims, Exists, IsApplied, hasLatestGeneration
<1>11. CASE AivenMigrates
  <2>1. PICK m : remote' = [remote EXCEPT !.migration = m]
    BY <1>11 DEF AivenMigrates
  <2>2. remote'.spec = remote.spec /\ remote'.tags = remote.tags /\ remote'.phase = remote.phase
    BY <2>1 DEF TypeOK, Remotes
  <2> QED
    BY <1>11, <2>2
       DEF AivenMigrates, worker, AppliedInv, InUse, Claims, Exists, IsApplied, hasLatestGeneration
<1>12. CASE OthersDelete
  BY <1>12, NoRemoteFacts DEF OthersDelete, AppliedInv, InUse
<1>13. CASE Makes
  <2>1. ~Claims(cr)' /\ ~Claims(cache)' /\ (pc # "idle" => ~Claims(obj)')
    BY <1>13, Numbers
       DEF Makes, OfUsers, Claims, hasLatestGeneration, CopiesInv, CacheIsEarlier, WorkerIsEarlier
  <2> QED
    BY <1>13, <2>1 DEF Makes, OfUsers, AppliedInv, InUse
<1>14. CASE Respecs
  <2>1. ~Claims(cr)' /\ ~Claims(cache)' /\ (pc # "idle" => ~Claims(obj)')
    BY <1>14, Numbers
       DEF Respecs, OfUsers, Claims, hasLatestGeneration, CopiesInv, CacheIsEarlier, WorkerIsEarlier,
           Sane, Earlier, Exists
  <2> QED
    BY <1>14, <2>1 DEF Respecs, OfUsers, AppliedInv, InUse
<1>15. CASE Repolices
  BY <1>15
     DEF Repolices, OfUsers, AppliedInv, InUse, Claims, Exists, IsApplied, hasLatestGeneration
<1>16. CASE Vanishes
  BY <1>16, NoObjectFacts DEF Vanishes, OfUsers, AppliedInv, InUse, Claims, Exists
<1>17. CASE Condemns
  BY <1>17 DEF Condemns, OfUsers, AppliedInv, InUse
<1> QED
  BY <1>1, <1>2, <1>3, <1>4, <1>5, <1>6, <1>7, <1>8, <1>9, <1>10, <1>11, <1>12, <1>13, <1>14, <1>15,
     <1>16, <1>17
     DEF Shaped

----------------------------------------------------------------------------
(* The saved finalizer                                                     *)

LEMMA SavedInit == ASSUME Init PROVE SavedInv
BY NoObjectFacts DEF Init, SavedInv, Exists, Applying

LEMMA SavedStep == ASSUME TypeOK, TypeOK', CopiesInv, SavedInv, Shaped PROVE SavedInv'
<1> USE DEF Untouched, history
<1>0. {cr, obj, cache} \subseteq Objects /\ saved \in 0 .. lastUid
  BY DEF TypeOK
<1>1. CASE Local
  <2>1. /\ UNCHANGED <<cr, lastUid, cache, fate, saved>> /\ (InUse' <=> InUse)
        /\ pc' \in Applying => pc \in Applying
        /\ pc' # "idle" => pc # "idle" /\ obj'.uid = obj.uid
        /\ pc' = "unfinalize" => pc = "unfinalize"
    BY <1>1 DEF Local, SameService, WorkerRests, Rewrites, Applying
  <2> QED
    BY <2>1 DEF SavedInv, Held, Exists
<1>2. CASE Starts
  BY <1>2 DEF Starts, SavedInv, Held, Exists, InUse, Applying
<1>3. CASE Configures
  <2>1. /\ UNCHANGED <<cr, lastUid, cache, saved>> /\ fate' = "managed" /\ pc \in Applying
        /\ pc' \in {"idle", "tags", "write"} /\ (pc' # "idle" => obj'.uid = obj.uid)
    BY <1>3 DEF Configures, Passes, Fails, WorkerRests, WorkerGoes, Rewrites, Applying
  <2>2. lastUid > 0 /\ pc # "idle"
    BY <1>0, <2>1 DEF CopiesInv, WorkerIsEarlier, Applying, TypeOK
  <2> QED
    BY <2>1, <2>2 DEF SavedInv, Held, Exists
<1>4. CASE Tags
  <2>1. /\ UNCHANGED <<cr, lastUid, cache, fate, saved>> /\ InUse /\ pc = "tags"
        /\ pc' \in {"idle", "write", "observe"} /\ (pc' # "idle" => obj'.uid = obj.uid)
    BY <1>0, <1>4, ProcessedValue DEF Tags, Fails, WorkerRests, WorkerGoes, Rewrites
  <2> QED
    BY <2>1 DEF SavedInv, Held, Exists, Applying
<1>5. CASE Writes
  <2>1. /\ cr' = Update(obj) /\ pc = "write" /\ obj.uid = cr.uid /\ cache.uid = cr.uid /\ Exists(cr)
        /\ UNCHANGED <<cache, lastUid, remote, fate>>
        /\ pc' # "idle" => Restates(obj', obj) /\ pc' = "status"
    BY <1>5 DEF Writes, WorkerRests
  <2>2. cr'.uid = cr.uid /\ cr'.finalizer
    BY <1>0, <2>1, UpdateValue DEF CopiesInv, WorkerPath, Applying
  <2>3. cr.uid = lastUid
    BY <2>1 DEF CopiesInv, CacheIsEarlier, Exists
  <2> QED
    BY <2>1, <2>2, <2>3 DEF SavedInv, Held, Exists, Restates, Rewrites, InUse
<1>6. CASE WritesStatus
  <2>1. Rewrites(cr', cr)
    BY <1>0, <1>6, StatusUpdateValue DEF WritesStatus
  <2> QED
    BY <1>6, <2>1 DEF WritesStatus, WorkerRests, Rewrites, SavedInv, Held, Exists, Applying, InUse
<1>7. CASE Proceeds \/ LetsGo
  <2>1. /\ UNCHANGED <<cr, lastUid, cache, obj, saved>> /\ (InUse' <=> InUse)
        /\ pc # "idle" /\ pc' \notin Applying
        /\ fate' = fate \/ fate' # "managed"
        /\ pc' = "unfinalize" => ~(fate' = "managed" /\ InUse')
    BY <1>7 DEF Proceeds, LetsGo, SameService, InUse, Applying
  <2> QED
    BY <2>1 DEF SavedInv, Held, Exists
<1>8. CASE Deletes
  BY <1>8, NoRemoteFacts DEF Deletes, WorkerRests, SavedInv, Held, Exists, InUse, Applying
<1>9. CASE Releases
  <2>1. /\ pc = "unfinalize" /\ pc' = "idle" /\ UNCHANGED <<lastUid, cache, fate, remote, saved>>
        /\ cr' = NoObject \/ cr'.uid = cr.uid
        /\ Exists(cr) /\ cache.uid = cr.uid
    BY <1>9 DEF Releases, WorkerRests
  <2>2. saved = lastUid => cache.deleting
    BY <2>1 DEF SavedInv, CopiesInv, WorkerIsEarlier, WorkerPath, Finalizing, Exists
  <2> QED
    BY <2>1, <2>2, NoObjectFacts DEF SavedInv, Held, Exists, InUse, Applying
<1>10. CASE SyncCache
  <2>1. cache' = cr /\ UNCHANGED <<cr, lastUid, pc, obj, remote, fate, saved>>
    BY <1>10 DEF SyncCache, worker
  <2>2. saved = lastUid /\ Exists(cr) => cr.uid = lastUid /\ (~cr.deleting => Held)
    BY DEF CopiesInv, CacheIsEarlier, SavedInv, Earlier, Exists
  <2> QED
    BY <2>1, <2>2 DEF SavedInv, Held, Exists, InUse
<1>11. CASE AivenMigrates
  <2>1. PICK m : remote' = [remote EXCEPT !.migration = m]
    BY <1>11 DEF AivenMigrates
  <2>2. remote'.phase = remote.phase
    BY <2>1 DEF TypeOK, Remotes
  <2> QED
    BY <1>11, <2>2 DEF AivenMigrates, worker, SavedInv, Held, Exists, InUse
<1>12. CASE OthersDelete
  BY <1>12, NoRemoteFacts DEF OthersDelete, worker, SavedInv, Held, Exists, InUse
<1>13. CASE Makes
  BY <1>13, <1>0, Numbers DEF Makes, OfUsers, SavedInv, InUse
<1>14. CASE Respecs \/ Repolices \/ Condemns
  BY <1>14 DEF Respecs, Repolices, Condemns, OfUsers, SavedInv, Held, Exists, InUse
<1>15. CASE Vanishes
  BY <1>15, NoObjectFacts DEF Vanishes, OfUsers, SavedInv, Held, Exists, InUse
<1> QED
  BY <1>1, <1>2, <1>3, <1>4, <1>5, <1>6, <1>7, <1>8, <1>9, <1>10, <1>11, <1>12, <1>13, <1>14, <1>15
     DEF Shaped

----------------------------------------------------------------------------
(* The Orphan policy                                                       *)

LEMMA KeptInit == ASSUME Init PROVE KeptInv
BY DEF Init, KeptInv

LEMMA KeptStep == ASSUME TypeOK, TypeOK', CopiesInv, KeptInv, Shaped PROVE KeptInv'
<1> USE DEF Untouched, history, AsMade
<1>0. {cr, obj, cache} \subseteq Objects
  BY DEF TypeOK
<1>1. CASE Local \/ Configures \/ Tags
  <2>1. /\ UNCHANGED <<cr, cache, protected>>
        /\ UNCHANGED <<pc, obj>> \/ pc' \in Applying \/ pc' = "idle"
    BY <1>1 DEF Local, Configures, Tags, Passes, Fails, WorkerRests, WorkerGoes, Applying
  <2> QED
    BY <2>1 DEF KeptInv, Exists, Applying
<1>2. CASE Starts
  BY <1>2 DEF Starts, KeptInv, Exists
<1>3. CASE Writes
  <2>1. /\ cr' = Update(obj) /\ obj.uid = cr.uid /\ Exists(cr) /\ UNCHANGED cache
        /\ protected' = (protected /\ obj.policy = "Orphan")
        /\ pc' \in {"idle", "status"}
    BY <1>3 DEF Writes, WorkerRests
  <2>2. cr'.uid = cr.uid /\ cr'.deleting = cr.deleting /\ cr'.policy = obj.policy
    BY <1>0, <2>1, UpdateValue
  <2> QED
    BY <2>1, <2>2 DEF KeptInv, Exists
<1>4. CASE WritesStatus
  <2>1. Rewrites(cr', cr)
    BY <1>0, <1>4, StatusUpdateValue DEF WritesStatus
  <2> QED
    BY <1>4, <2>1 DEF WritesStatus, WorkerRests, Rewrites, KeptInv, Exists
<1>5. CASE Proceeds \/ LetsGo \/ Deletes
  BY <1>5 DEF Proceeds, LetsGo, Deletes, WorkerRests, KeptInv, Exists
<1>6. CASE Releases
  BY <1>6, NoObjectFacts DEF Releases, WorkerRests, KeptInv, Exists
<1>7. CASE SyncCache \/ AivenMigrates \/ OthersDelete
  BY <1>7 DEF SyncCache, AivenMigrates, OthersDelete, worker, KeptInv, Exists
<1>8. CASE Makes \/ Respecs \/ Repolices \/ Vanishes
  BY <1>8 DEF Makes, Respecs, Repolices, Vanishes, OfUsers, KeptInv, Exists
<1>9. CASE Condemns
  <2>1. /\ UNCHANGED <<cache, pc, obj>> /\ Exists(cr) /\ cr.finalizer /\ ~cr.deleting
        /\ cr'.deleting /\ cr'.policy = cr.policy /\ protected' = (cr.policy = "Orphan")
    BY <1>9 DEF Condemns, OfUsers
  <2>2. ~cache.deleting
    BY <2>1 DEF CopiesInv, CacheIsEarlier, Earlier, Exists
  <2>3. pc \notin Finalizing
    BY <2>1 DEF CopiesInv, WorkerIsEarlier, WorkerPath, Earlier, Exists, Finalizing
  <2> QED
    BY <2>1, <2>2, <2>3 DEF KeptInv, Finalizing
<1> QED
  BY <1>1, <1>2, <1>3, <1>4, <1>5, <1>6, <1>7, <1>8, <1>9 DEF Shaped

----------------------------------------------------------------------------
(* Handing the source over                                                 *)

LEMMA HandedInit == ASSUME Init PROVE HandedInv
BY NoObjectFacts DEF Init, HandedInv, HandedOver, Exists

LEMMA HandedStep == ASSUME TypeOK, TypeOK', CopiesInv, HandedInv, Shaped PROVE HandedInv'
<1> USE DEF Untouched, history
<1>0. {cr, obj, cache} \subseteq Objects
  BY DEF TypeOK
<1>1. CASE Local
  <2>1. UNCHANGED <<cr, cache, handed>>
    BY <1>1 DEF Local
  <2>2. CASE WorkerRests
    BY <2>1, <2>2 DEF WorkerRests, HandedInv, HandedOver, Exists, hasLatestGeneration
  <2>3. CASE UNCHANGED <<pc, obj>>
    BY <2>1, <2>3 DEF HandedInv, HandedOver, Exists, hasLatestGeneration
  <2>4. CASE /\ pc \in Applying /\ pc' \in Applying \ {"tags"}
             /\ Rewrites(obj', obj) /\ obj'.processed \in {0, obj.processed}
             /\ \/ obj'.migration = obj.migration
                \/ pc = "migration" /\ obj'.migration = Reported(remote.migration)
    <3>1. HandedOver(obj) /\ obj.gen > 0 /\ Exists(obj)
      BY <1>0, <2>4 DEF HandedInv, CopiesInv, WorkerIsEarlier, Sane, Exists, Applying
    <3>2. pc = "migration" => handed = obj.uid
      BY <3>1 DEF HandedOver, CopiesInv, WorkerPath
    <3>3. HandedOver(obj)'
      BY <2>1, <2>4, <3>1, <3>2 DEF HandedOver, Exists, hasLatestGeneration, Rewrites
    <3> QED
      BY <2>1, <2>4, <3>3 DEF HandedInv, HandedOver, Exists, hasLatestGeneration, Applying
  <2> QED
    BY <1>1, <2>2, <2>3, <2>4 DEF Local
<1>2. CASE Starts
  <2>1. HandedOver(obj)' /\ UNCHANGED <<cr, cache, handed>>
    BY <1>2 DEF Starts, HandedInv, HandedOver, Exists, hasLatestGeneration
  <2> QED
    BY <1>2, <2>1 DEF Starts, HandedInv, HandedOver, Exists, hasLatestGeneration
<1>3. CASE Configures
  <2>1. /\ UNCHANGED <<cr, cache>> /\ pc \in {"create", "update"}
        /\ handed' = IF Migrates(obj) THEN obj.uid ELSE handed
        /\ pc' \in {"idle", "tags", "write"}
        /\ pc' = "tags" => obj' = obj
        /\ pc' # "idle" => Rewrites(obj', obj) /\ obj'.processed \in {0, obj.processed}
                           /\ obj'.migration = obj.migration
    BY <1>0, <1>3, Selves
       DEF Configures, Passes, Fails, WorkerRests, WorkerGoes, Restates
  <2>2. HandedOver(obj) /\ obj.gen > 0 /\ Exists(obj)
    BY <1>0, <2>1 DEF HandedInv, CopiesInv, WorkerIsEarlier, Sane, Exists
  <2>3. obj.spec \in MigratingSpecs => handed' = obj.uid
    BY <2>1, <2>2 DEF Migrates, HandedOver
  <2>4. \A o \in {cr, cache} : o.uid = obj.uid \/ AsMade(o)
    BY <2>1 DEF CopiesInv, WorkerIsEarlier
  <2>5. handed' = handed \/ handed' = obj.uid
    BY <2>1
  <2>6. HandedOver(cr)' /\ HandedOver(cache)'
    BY <2>1, <2>4, <2>5
       DEF HandedInv, HandedOver, AsMade, Exists, hasLatestGeneration, CopiesInv, CacheIsEarlier, Sane
  <2>7. pc' # "idle" => HandedOver(obj)'
    BY <2>1, <2>2, <2>3, <2>5 DEF HandedOver, Exists, hasLatestGeneration, Rewrites
  <2> QED
    BY <2>1, <2>3, <2>6, <2>7 DEF HandedInv
<1>4. CASE Tags
  <2>1. /\ UNCHANGED <<cr, cache, handed>> /\ pc = "tags"
        /\ pc' \in {"idle", "write", "observe"}
        /\ pc' # "idle" => Rewrites(obj', obj) /\ obj'.migration = obj.migration
    BY <1>0, <1>4, ProcessedValue DEF Tags, Fails, WorkerRests, WorkerGoes
  <2>2. HandedOver(obj) /\ (obj.spec \in MigratingSpecs => handed = obj.uid)
    BY <2>1 DEF HandedInv
  <2>3. pc' # "idle" => HandedOver(obj)'
    BY <2>1, <2>2 DEF HandedOver, Exists, Rewrites
  <2> QED
    BY <2>1, <2>3 DEF HandedInv, HandedOver, Exists, hasLatestGeneration
<1>5. CASE Writes
  <2>1. /\ cr' = Update(obj) /\ pc = "write" /\ obj.uid = cr.uid /\ Exists(cr)
        /\ UNCHANGED <<cache, handed>>
        /\ pc' # "idle" => Restates(obj', obj) /\ pc' = "status"
    BY <1>5 DEF Writes, WorkerRests
  <2>2. /\ cr'.uid = cr.uid /\ cr'.spec = obj.spec
        /\ cr'.processed = obj.processed /\ cr'.migration = cr.migration
        /\ cr'.gen = IF obj.spec = cr.spec THEN cr.gen ELSE cr.gen + 1
    BY <1>0, <2>1, UpdateValue
  <2>3. obj.gen <= cr.gen /\ obj.processed <= obj.gen /\ Exists(obj)
    BY <2>1 DEF CopiesInv, WorkerIsEarlier, Sane, Earlier, Exists
  <2>4. hasLatestGeneration(cr)' => hasLatestGeneration(obj)
    BY <2>1, <2>2, <2>3, Numbers DEF hasLatestGeneration
  <2>5. HandedOver(cr)'
    BY <2>1, <2>2, <2>3, <2>4 DEF HandedInv, HandedOver, Exists
  <2>6. pc' # "idle" => HandedOver(obj)'
    BY <2>1 DEF HandedInv, HandedOver, Exists, hasLatestGeneration, Restates, Rewrites
  <2> QED
    BY <2>1, <2>5, <2>6 DEF HandedInv, HandedOver, Exists, hasLatestGeneration
<1>6. CASE WritesStatus
  <2>1. Rewrites(cr', cr) /\ cr'.processed = cr.processed /\ cr'.migration = obj.migration
    BY <1>0, <1>6, StatusUpdateValue DEF WritesStatus
  <2> QED
    BY <1>6, <2>1
       DEF WritesStatus, WorkerRests, Rewrites, HandedInv, HandedOver, Exists, hasLatestGeneration
<1>7. CASE Proceeds \/ LetsGo \/ Deletes
  <2>1. /\ UNCHANGED <<cr, cache, handed>> /\ pc # "idle"
        /\ WorkerRests \/ (obj' = obj /\ pc' # "tags")
    BY <1>7 DEF Proceeds, LetsGo, Deletes
  <2> QED
    BY <2>1 DEF WorkerRests, HandedInv, HandedOver, Exists, hasLatestGeneration
<1>8. CASE Releases
  BY <1>8, NoObjectFacts
     DEF Releases, WorkerRests, HandedInv, HandedOver, Exists, hasLatestGeneration
<1>9. CASE SyncCache \/ AivenMigrates \/ OthersDelete
  BY <1>9
     DEF SyncCache, AivenMigrates, OthersDelete, worker, migrating,
         HandedInv, HandedOver, Exists, hasLatestGeneration
<1>10. CASE Makes
  BY <1>10 DEF Makes, OfUsers, HandedInv, HandedOver, Exists, hasLatestGeneration
<1>11. CASE Respecs
  <2>1. ~hasLatestGeneration(cr')
    BY <1>11, Numbers DEF Respecs, CopiesInv, CacheIsEarlier, Sane, hasLatestGeneration
  <2> QED
    BY <1>11, <2>1 DEF Respecs, OfUsers, HandedInv, HandedOver, Exists, hasLatestGeneration
<1>12. CASE Repolices
  BY <1>12 DEF Repolices, OfUsers, HandedInv, HandedOver, Exists, hasLatestGeneration
<1>13. CASE Condemns
  <2>1. ~hasLatestGeneration(cr')
    BY <1>13, Numbers DEF Condemns, CopiesInv, CacheIsEarlier, Sane, hasLatestGeneration
  <2> QED
    BY <1>13, <2>1 DEF Condemns, OfUsers, HandedInv, HandedOver, Exists, hasLatestGeneration
<1>14. CASE Vanishes
  BY <1>14, NoObjectFacts
     DEF Vanishes, OfUsers, HandedInv, HandedOver, Exists, hasLatestGeneration
<1> QED
  BY <1>1, <1>2, <1>3, <1>4, <1>5, <1>6, <1>7, <1>8, <1>9, <1>10, <1>11, <1>12, <1>13, <1>14
     DEF Shaped

----------------------------------------------------------------------------
(* Steps that none of them may be                                          *)

LEMMA KeptByStep ==
    ASSUME TypeOK, CopiesInv, KeptInv, [Next]_vars, protected, InUse, UNCHANGED edits
    PROVE  InUse'
<1>1. Shaped
  BY ShapedStep DEF CopiesInv
<1>2. ~Deletes
  BY DEF KeptInv, Deletes
<1>3. ~OthersDelete
  <2>1. ~Edit
    BY DEF Edit, TypeOK
  <2> QED
    BY <2>1 DEF OthersDelete
<1>4. CASE AivenMigrates
  <2>1. PICK m : remote' = [remote EXCEPT !.migration = m]
    BY <1>4 DEF AivenMigrates
  <2> QED
    BY <2>1 DEF InUse, TypeOK, Remotes
<1> QED
  BY <1>1, <1>2, <1>3, <1>4
     DEF Shaped, Local, Starts, Configures, Tags, Writes, WritesStatus, Proceeds, LetsGo, Releases,
         Makes, Respecs, Repolices, Vanishes, Condemns, OfUsers, SyncCache, SameService, InUse

LEMMA SourceByStep ==
    ASSUME TypeOK, CopiesInv, HandedInv, [Next]_vars, source, ~source', UNCHANGED edits
    PROVE  handed = obj.uid
<1>1. CASE DeleteSource
  BY <1>1 DEF DeleteSource, CopiesInv, WorkerPath, WorkerIsEarlier, HandedInv, HandedOver, Exists
<1>2. CASE \/ Begin \/ ResolveRefs \/ CheckBackups \/ Apply \/ Create \/ UpdateService \/ ReplaceTags
           \/ Observe \/ CheckMigration \/ Publish \/ Write \/ WriteStatus
           \/ Finalize \/ Delete \/ RemoveFinalizer
  BY <1>2
     DEF migrating, Begin, ResolveRefs, CheckBackups, Apply, Create, UpdateService, ReplaceTags, Observe,
         CheckMigration, Publish, Write, WriteStatus, Finalize, Delete, RemoveFinalizer
<1>3. CASE Crash \/ SyncCache \/ CollectSecret \/ AivenProgress \/ AivenMigrates \/ UNCHANGED vars
  BY <1>3
     DEF migrating, vars, Crash, SyncCache, CollectSecret, AivenProgress, AivenMigrates
<1>4. CASE Others
  <2>1. ~Edit
    BY DEF Edit, TypeOK
  <2> QED
    BY <1>4, <2>1
       DEF Others, UserCreates, UserEditsSpec, UserSetsPolicy, UserChangesToken, UserDeletes,
           UserDeletesSecret, UserChangesSource, OthersDelete, OthersProtect
<1> QED
  BY <1>1, <1>2, <1>3, <1>4 DEF Next, Reconcile

----------------------------------------------------------------------------
(* Theorems                                                                *)

\* The types and the copies carry each other: a copy's uid is one that was given.
LEMMA CopiesHold == Spec => [](TypeOK /\ CopiesInv)
<1>1. Init => TypeOK /\ CopiesInv
  BY TypeInit, CopiesInit
<1>2. TypeOK /\ CopiesInv /\ [Next]_vars => TypeOK' /\ CopiesInv'
  BY TypeStep, ShapedStep, CopiesStep DEF CopiesInv
<1> QED
  BY <1>1, <1>2, PTL DEF Spec

\* Every state of the service reconciler has the declared types.
THEOREM TypeCorrect == Spec => []TypeOK
<1>1. TypeOK /\ CopiesInv => TypeOK
  OBVIOUS
<1> QED
  BY <1>1, CopiesHold, PTL

\* What dependents take for ready has the spec and the tags of this very
\* generation at Aiven, for any specs and any number of edits, faults and
\* outdated copies.
THEOREM ReadyMeansApplied == Spec => []ReadyIsApplied
<1>1. Init => AppliedInv
  BY AppliedInit
<1>2. TypeOK /\ CopiesInv /\ (TypeOK /\ CopiesInv)' /\ AppliedInv /\ [Next]_vars => AppliedInv'
  BY ShapedStep, AppliedStep DEF CopiesInv
<1>3. AppliedInv => ReadyIsApplied
  BY DEF AppliedInv, ReadyIsApplied, Ready, IsReadyToUse, Claims, IsApplied, Exists
<1> QED
  BY <1>1, <1>2, <1>3, CopiesHold, PTL DEF Spec

\* Once its finalizer was saved, an object never goes while its service stays and
\* answers to it.
THEOREM LeaksOnlyBeforeSave == Spec => []LeaksOnlyUnsaved
<1>1. Init => SavedInv
  BY SavedInit
<1>2. TypeOK /\ CopiesInv /\ (TypeOK /\ CopiesInv)' /\ SavedInv /\ [Next]_vars => SavedInv'
  BY ShapedStep, SavedStep DEF CopiesInv
<1>3. SavedInv => LeaksOnlyUnsaved
  BY DEF SavedInv, LeaksOnlyUnsaved, Held
<1> QED
  BY <1>1, <1>2, <1>3, CopiesHold, PTL DEF Spec

\* No step of the operator takes away a service that the Orphan policy keeps.
THEOREM OrphanIsKept == Spec => KeptWhileAnnotated
<1>1. Init => KeptInv
  BY KeptInit
<1>2. TypeOK /\ CopiesInv /\ (TypeOK /\ CopiesInv)' /\ KeptInv /\ [Next]_vars => KeptInv'
  BY ShapedStep, KeptStep DEF CopiesInv
<1>3. TypeOK /\ CopiesInv /\ KeptInv /\ [Next]_vars => [protected /\ InUse /\ UNCHANGED edits => InUse']_vars
  BY KeptByStep
<1> QED
  BY <1>1, <1>2, <1>3, CopiesHold, PTL DEF Spec, KeptWhileAnnotated

\* The migration Secret is deleted only in the name of an object that has had
\* its credentials accepted by Aiven.
THEOREM SourceWasHandedOver == Spec => SourceIsHandedOver
<1>1. Init => HandedInv
  BY HandedInit
<1>2. TypeOK /\ CopiesInv /\ (TypeOK /\ CopiesInv)' /\ HandedInv /\ [Next]_vars => HandedInv'
  BY ShapedStep, HandedStep DEF CopiesInv
<1>3. TypeOK /\ CopiesInv /\ HandedInv /\ [Next]_vars
      => [source /\ ~source' /\ UNCHANGED edits => handed = obj.uid]_vars
  BY SourceByStep
<1> QED
  BY <1>1, <1>2, <1>3, CopiesHold, PTL DEF Spec, SourceIsHandedOver
=============================================================================

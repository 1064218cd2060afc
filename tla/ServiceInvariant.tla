-------------------------- MODULE ServiceInvariant --------------------------
(***************************************************************************)
(* The inductive invariants behind the safety properties of                *)
(* ServiceReconciler: what the worker's copy, which it will write over the *)
(* whole object, and the informer's cache still say about the object.      *)
(***************************************************************************)
EXTENDS ServiceReconciler

Applying   == {"refs", "backups", "apply", "create", "update", "tags", "observe",
               "migration", "source", "publish", "write", "status"}
Finalizing == {"finalize", "delete", "unfinalize"}

----------------------------------------------------------------------------
(* Copies                                                                  *)

Sane(o) == o.gen > 0 /\ o.processed <= o.gen /\ (Exists(o) => o.spec \in Specs)

\* A copy is of a generation that was there; within one, specs do not change; and
\* nothing has been processed that the copy's generation does not reach.
Earlier(o) ==
    Exists(o) /\ o.uid = cr.uid =>
        /\ o.gen <= cr.gen
        /\ o.gen = cr.gen => o.spec = cr.spec
        /\ cr.processed <= o.gen
        /\ o.deleting => cr.deleting

\* An object that the cache does not know is as its user made it.
AsMade(o) == o.processed = 0 /\ ~o.finalizer /\ o.migration = "none"

CacheIsEarlier ==
    /\ cr.uid \in {0, lastUid} /\ cache.uid <= lastUid
    /\ Sane(cr) /\ Sane(cache)
    /\ Earlier(cache)
    /\ cache.uid # cr.uid => AsMade(cr)

\* The worker's copy was read from the cache, which never goes back.
WorkerIsEarlier ==
    pc # "idle" =>
        /\ obj.uid \in 1 .. lastUid
        /\ Sane(obj) /\ Earlier(obj)
        /\ IF obj.uid = cr.uid THEN cache.uid = cr.uid ELSE AsMade(cr)
        /\ IF obj.uid = cache.uid
           THEN obj.gen <= cache.gen /\ cache.processed <= obj.gen /\ (obj.deleting => cache.deleting)
           ELSE AsMade(cache)

\* What brought the worker to where it is.
WorkerPath ==
    /\ pc \in Applying => obj.finalizer /\ ~obj.deleting
    /\ pc \in Finalizing => obj.deleting
    /\ pc = "delete" => obj.policy # "Orphan"
    /\ pc \in {"observe", "migration", "source", "publish"} => hasLatestGeneration(obj)
    /\ pc = "migration" => obj.spec \in MigratingSpecs
    /\ pc = "source" => obj.migration = "done"

CopiesInv == CacheIsEarlier /\ WorkerIsEarlier /\ WorkerPath

----------------------------------------------------------------------------
(* Behind ReadyIsApplied                                                   *)

\* A copy of the current generation that has it processed tells the truth.
Claims(o) == Exists(o) /\ o.uid = cr.uid /\ o.gen = cr.gen /\ hasLatestGeneration(o)
IsApplied == remote.spec = cr.spec /\ remote.tags = cr.spec

AppliedInv ==
    /\ ~cr.deleting /\ ~drifted /\ (Claims(cr) \/ Claims(cache) \/ (pc # "idle" /\ Claims(obj)))
       => IsApplied
    /\ pc = "tags" /\ InUse => remote.spec = obj.spec
    /\ ~InUse => remote.spec = NoSpec

----------------------------------------------------------------------------
(* Behind LeaksOnlyUnsaved                                                 *)

Held == Exists(cr) /\ cr.finalizer

\* Once saved, a finalizer goes only on the deletion path, after the service, and
\* only for an object whose deletion the cache has shown.
SavedInv ==
    /\ saved = lastUid =>
        /\ fate = "managed" /\ InUse => Held
        /\ pc \in Applying => Held
        /\ Exists(cache) /\ ~cache.deleting => Held
        /\ Exists(cr) => Exists(cache)
        /\ Exists(cache) => cache.uid = lastUid
        /\ pc # "idle" => obj.uid = lastUid
    /\ fate = "managed" => lastUid > 0
    /\ pc = "unfinalize" => ~(fate = "managed" /\ InUse)

----------------------------------------------------------------------------
(* Behind KeptWhileAnnotated                                               *)

\* Every copy that the deletion path may act on has the annotation.
KeptInv ==
    protected =>
        /\ Exists(cr) => cr.deleting
        /\ \A o \in {cr, cache} : o.deleting /\ o.finalizer => o.policy = "Orphan"
        /\ pc = "finalize" => obj.policy = "Orphan"
        /\ pc # "delete"

----------------------------------------------------------------------------
(* Behind SourceIsHandedOver                                               *)

\* A copy that has a migration processed, or knows the end of one, is of the
\* object that handed its source over.
HandedOver(o) ==
    Exists(o) /\ (o.migration = "done" \/ (hasLatestGeneration(o) /\ o.spec \in MigratingSpecs))
        => handed = o.uid

HandedInv ==
    /\ HandedOver(cr) /\ HandedOver(cache)
    /\ pc # "idle" => HandedOver(obj)
    /\ pc = "tags" /\ obj.spec \in MigratingSpecs => handed = obj.uid

ServiceInv == CopiesInv /\ AppliedInv /\ SavedInv /\ KeptInv /\ HandedInv
=============================================================================

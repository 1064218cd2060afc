-------------------------- MODULE ManagedInvariant --------------------------
(***************************************************************************)
(* The inductive invariants behind the safety properties of                *)
(* ManagedReconciler: what the worker's copy and the informer's cache      *)
(* still say about the object after both have grown stale.                 *)
(***************************************************************************)
EXTENDS ManagedReconciler

\* A copy is an earlier version of its incarnation: equal versions are equal
\* objects, and no incarnation is newer than the last one created.
Versions ==
    /\ cr.uid \in {0, lastUid}
    /\ cache.uid <= lastUid
    /\ Exists(cache) /\ cache.uid = cr.uid => cache.rv <= cr.rv
    /\ Exists(cache) /\ cache.uid = cr.uid /\ cache.rv = cr.rv => cache = cr

\* Only the operator adds the finalizer, and it reads the cache to do so: a
\* held object is of the incarnation that the cache knows.
CacheKnowsHeld == cache.uid # cr.uid => ~cr.finalizer

\* A finalizer on a live cached object is still there: to take it off, the
\* worker must first have seen the deletion in this very cache.
CacheIsHeld == Exists(cache) /\ cache.finalizer /\ ~cache.deleting => Held

\* Deletion is for good.
CacheDeleting == Exists(cache) /\ cache.deleting /\ cache.uid = cr.uid => cr.deleting

\* On the way to Create or Update the object is held.
WorkerIsHeld ==
    /\ pc \in {"refs", "finalizer"} /\ obj.finalizer => Held
    /\ pc \in {"observe", "create", "update"} => Held

\* On the deletion path, the object is the deleted one, or it is a new one
\* that the operator has not touched.
WorkerFinalizes ==
    pc \in {"finalize", "unfinalize"} =>
        /\ obj.uid \in 1 .. lastUid
        /\ obj.uid = cr.uid => cr.deleting
        /\ obj.uid # cr.uid => ~cr.finalizer

\* The finalizer is taken off only once nothing is left to answer for.
WorkerLetsGo == pc = "unfinalize" => ~(fate = "managed" /\ InUse)

\* The inductive invariant of NoLeak and HoldsWhatItMakes.
HoldInv ==
    /\ NoLeak
    /\ Versions
    /\ CacheKnowsHeld
    /\ CacheIsHeld
    /\ CacheDeleting
    /\ WorkerIsHeld
    /\ WorkerFinalizes
    /\ WorkerLetsGo

----------------------------------------------------------------------------
(* Behind ReadyIsApplied                                                   *)

\* What a copy still tells of its object: specs do not change within a
\* generation, and the operator has not processed a generation it has not seen.
EarlierCopy(o) ==
    Exists(cr) /\ o.uid = cr.uid =>
        /\ o.rv <= cr.rv
        /\ o.rv = cr.rv => o = cr
        /\ o.gen <= cr.gen
        /\ o.gen = cr.gen \/ Kind.immutable => o.spec = cr.spec
        /\ o.processed <= cr.processed
        /\ cr.processed <= o.gen

\* Objects have a spec and a generation, and are unprocessed until they have
\* the finalizer.
Plausible(o) == /\ Exists(o) => o.spec \in Specs /\ o.gen > 0
                /\ o.processed <= o.gen
                /\ ~o.finalizer => o.processed = 0

CopiesAge == /\ Plausible(cr) /\ Plausible(cache)
             /\ EarlierCopy(cache)

\* The worker's copy was read from the cache, and out differs in what it has
\* processed only by that very generation.
WorkerCopy ==
    pc # "idle" =>
        /\ obj.uid \in 1 .. lastUid
        /\ Plausible(obj)
        /\ EarlierCopy(obj)
        /\ obj.uid = cache.uid => obj.gen <= cache.gen
        /\ out.processed \in {obj.processed, obj.gen}
        /\ ~obj.finalizer => out.processed = 0

\* Create and Update are for the object that is there.
WorkerOwns ==
    /\ pc \in {"refs", "finalizer"} /\ obj.finalizer => obj.uid = cr.uid
    /\ pc \in {"observe", "create", "update"} => obj.uid = cr.uid /\ obj.finalizer
    /\ pc = "publish" => obj.finalizer

HasSpec == InUse /\ (remote.spec = cr.spec \/ Inherited)

\* A generation is processed once it is applied: in the API server, and in
\* what the worker is about to write there.
ProcessedIsApplied ==
    Exists(cr) /\ ~cr.deleting /\ hasLatestGeneration(cr) /\ ~drifted => HasSpec

WorkerProcesses ==
    /\ pc # "idle"
    /\ obj.uid = cr.uid
    /\ obj.gen = cr.gen
    /\ ~cr.deleting
    /\ ~drifted
    /\ pc = "publish" \/ out.processed = obj.gen
    => HasSpec

\* An Update that does nothing has found a resource; one that this object made
\* is as specified.
UpdateFindsIt == pc = "update" /\ Kind.immutable /\ ~drifted => InUse

MadeAsSpecified ==
    Kind.immutable /\ fate = "managed" /\ InUse /\ ~drifted => remote.spec = cr.spec

AbsentIsBlank == remote.phase = "absent" => remote.spec = NoSpec

\* The inductive invariant of ReadyIsApplied, given HoldInv.
ReadyInv ==
    /\ CopiesAge
    /\ WorkerCopy
    /\ WorkerOwns
    /\ ProcessedIsApplied
    /\ WorkerProcesses
    /\ UpdateFindsIt
    /\ MadeAsSpecified
    /\ AbsentIsBlank

----------------------------------------------------------------------------
(* Behind ProtectedIsKept                                                  *)

\* Every copy that the deletion path may act on knows of the protection.
ProtectInv ==
    protected =>
        /\ Exists(cr) => cr.deleting /\ Protects(cr)
        /\ Exists(cache) /\ cache.deleting /\ cache.finalizer =>
               cache.uid = lastUid /\ Protects(cache)
        /\ pc = "finalize" => obj.uid = lastUid /\ Protects(obj)
=============================================================================

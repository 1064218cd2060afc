------------------------- MODULE IdentityInvariant -------------------------
(***************************************************************************)
(* The inductive invariants behind the safety properties of RemoteIdentity: *)
(* what the copies of the object, in the cache and with the worker, still  *)
(* say about it, and what the identifiers they hold say about Aiven.       *)
(***************************************************************************)
EXTENDS RemoteIdentity

Applying == {"finalizer", "observe", "remove", "add", "status"}
Fetched  == {"finalizer", "observe", "remove", "delete", "unfinalize"}

----------------------------------------------------------------------------
(* Copies                                                                  *)

Copies == {cr, cache, obj}

\* Every object describes something, and the worker has an object.
SpecifiedInv ==
    /\ \A o \in Copies : Exists(o) => o.spec \in Specs
    /\ pc # "idle" => Exists(obj)

\* A copy of this incarnation is an earlier version; the same version is the
\* same object, but for the identifier that the worker has found.
Earlier(o) ==
    Exists(o) /\ o.uid = cr.uid =>
        /\ o.rv <= cr.rv
        /\ o.deleting => cr.deleting
        /\ o.rv = cr.rv => cr = [o EXCEPT !.id = cr.id]

\* An object that the cache does not know is as its user made it.
CacheIsEarlier ==
    /\ cr.uid <= edits /\ cache.uid <= edits
    /\ ~Exists(cr) => cr = NoObject
    /\ Earlier(cache)
    /\ IsCurrent(cache) => cache.id = cr.id
    /\ cache.uid # cr.uid => cr.id = 0 /\ ~cr.finalizer

\* The worker's copy was read from the cache, which never goes back.  Until it
\* observes or adds, the worker takes the identifier from that copy.
WorkerIsEarlier ==
    IF pc = "idle" THEN obj = NoObject ELSE
        /\ obj.uid \in 1 .. edits
        /\ Earlier(obj)
        /\ IF obj.uid = cr.uid THEN cache.uid = cr.uid ELSE cr.id = 0 /\ ~cr.finalizer
        /\ IF obj.uid = cache.uid
           THEN obj.deleting => cache.deleting
           ELSE cache.id = 0 /\ ~cache.finalizer
        /\ pc \in Fetched /\ IsCurrent(obj) => obj.id = cr.id

\* What brought the worker to where it is.
WorkerPath ==
    /\ pc \in {"observe", "remove", "add", "status"} => obj.finalizer
    /\ pc = "finalizer" => ~obj.deleting
    /\ pc \in {"delete", "unfinalize"} => obj.deleting
    /\ pc = "remove" => "replaces" \in kind

CopiesInv == CacheIsEarlier /\ WorkerIsEarlier /\ WorkerPath

----------------------------------------------------------------------------
(* Entries, and behind SavedIsRight                                        *)

EntriesInv ==
    /\ \A e \in entries : e.id \in 1 .. lastId
    /\ \A e, f \in entries : e.id = f.id => e = f
    /\ \A o \in Copies : o.id <= lastId

\* A copy's identifier is that of an entry with its content.
ContentInv ==
    "replaces" \notin kind =>
        \A o \in Copies :
            /\ \A e \in WithID(o.id) : e.spec = o.spec
            /\ Exists(o) /\ o.uid = cr.uid => o.spec = cr.spec

----------------------------------------------------------------------------
(* Behind NoDuplicates                                                     *)

\* Nothing has been deleted for this incarnation yet.
Untouched(o) ==
    \/ o.uid = cache.uid /\ ~cache.deleting
    \/ o.uid = obj.uid /\ pc \in Applying

LooksSafely ==
    /\ "looksUp" \in kind
    /\ "add" \notin meddled
    /\ "byID" \in kind => "remove" \notin meddled

\* What a copy knows by its ID is there; so a worker that is about to add an
\* entry has looked for its content.
TwinsInv ==
    LooksSafely =>
        /\ "byID" \in kind =>
              \A o \in Copies : o.id # 0 /\ Exists(o) /\ Untouched(o)
                                    => WithID(o.id) \cap InUse # {}
        /\ pc \in {"remove", "add"} => Matching(obj.spec) = {}
        /\ \A e, f \in entries : e.spec = f.spec => e = f

----------------------------------------------------------------------------
(* Behind LeavesNothing                                                    *)

Vouched == "add" \notin meddled /\ ("replaces" \in kind => ~troubled)

Saved == {e \in InUse : e.id \notin unsaved}

\* A saved entry is the one that the object names, and every copy that the
\* deletion path may act on; and neither an entry that is added nor a save
\* takes its place.
SavedInv ==
    Vouched =>
        /\ \A e \in Saved :
              /\ cr.finalizer /\ cr.id = e.id
              /\ cache.uid = cr.uid /\ cache.deleting => cache.id = e.id
              /\ obj.uid = cr.uid => /\ pc = "delete" => obj.id = e.id
                                     /\ pc # "unfinalize"
        /\ (pc = "add" \/ (pc = "status" /\ obj.id # cr.id)) /\ IsCurrent(obj)
              => WithID(cr.id) \cap InUse = {}
        /\ "replaces" \in kind /\ pc \in {"finalizer", "observe", "remove"} => unsaved = {}

IdentityInv ==
    SpecifiedInv /\ CopiesInv /\ EntriesInv /\ ContentInv /\ TwinsInv /\ SavedInv
=============================================================================

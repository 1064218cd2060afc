-------------------------- MODULE SchemasInvariant --------------------------
(***************************************************************************)
(* The inductive invariants behind ReadyIsRegistered: what the copies of   *)
(* an object still say about it, and whoever says that its generation is   *)
(* processed names a version that is what it describes; and behind         *)
(* NoRunaway: the versions still to come are paid for by edits.            *)
(***************************************************************************)
EXTENDS SchemaReferences

\* A copy of this incarnation is an earlier version of it.  Within a
\* generation the spec stays; and a deletion is for good, of the spec as it was.
Earlier(o, c) ==
    Exists(o) /\ o.uid = c.uid =>
        /\ o.rv <= c.rv /\ o.gen <= c.gen
        /\ o.gen = c.gen => o.spec = c.spec /\ o.deleting = c.deleting
        /\ o.deleting => o.gen = c.gen

\* What the cache does not know has been processed by no pass.
CacheInv ==
    \A n \in Names :
        LET c == crs[n]
        IN /\ c.uid <= edits /\ cache[n].uid <= edits
           /\ ~Exists(c) => c = NoObject
           /\ Earlier(cache[n], c)
           /\ Exists(cache[n]) /\ cache[n].uid = c.uid /\ cache[n].rv = c.rv => cache[n] = c
           /\ cache[n].uid # c.uid => c.processed = 0

\* What a pass leaves as it was when it began.
SameObject(o, c) ==
    /\ o.uid = c.uid /\ o.rv = c.rv /\ o.gen = c.gen
    /\ o.spec = c.spec /\ o.deleting = c.deleting

\* The worker began with a copy from the cache, which never goes back.
CopyInv ==
    pc # "idle" =>
        /\ orig.uid <= edits
        /\ Earlier(orig, crs[me])
        /\ orig.uid = crs[me].uid => cache[me].uid = crs[me].uid
        /\ orig.uid # crs[me].uid => crs[me].processed = 0
        /\ IsCurrent(orig) => orig = crs[me]
        /\ SameObject(obj, orig)
        /\ obj.processed \in {orig.processed, obj.gen}

\* What is to be posted references all that the object does.
ResolvedInv ==
    pc = "post" => {r[1] : r \in resolved} = obj.spec.refs

\* Whoever says that o's generation is processed names what it describes.
ClaimsRight(o, n) ==
    o.processed = o.gen /\ ~o.deleting /\ n \notin meddled => IsRegistered(o, n)

\* The object says so, or the worker is about to have it say so.
ProcessedInv ==
    /\ \A n \in Names : ClaimsRight(crs[n], n)
    /\ pc # "idle" /\ IsCurrent(obj) => ClaimsRight(obj, me)

SchemasInv == CacheInv /\ CopyInv /\ ResolvedInv /\ ProcessedInv

----------------------------------------------------------------------------
(* The versions still to come, of at most two objects                      *)

\* The version of an object in its status is at most as old as the cache, and
\* one that a pass has not seen has none.
AgesInv ==
    /\ \A n \in Names : cache[n].uid # crs[n].uid => crs[n].version = 0
    /\ pc # "idle" =>
           /\ pc # "annotate" /\ orig.uid = crs[me].uid => orig.rv <= cache[me].rv
           /\ orig.uid # crs[me].uid => crs[me].version = 0
           /\ pc \in {"observe", "level", "post", "annotate"} => obj.version = orig.version

\* No version of a subject is there twice.
DistinctInv ==
    \A n \in Names : LET vs == registry[n].versions
                     IN \A i, j \in DOMAIN vs : vs[i] = vs[j] => i = j

\* No two objects in c reference each other, nor one itself.
Acyclic(c) == \A n, m \in Names : ~(m \in c[n].spec.refs /\ n \in c[m].spec.refs)

Bit(b)      == IF b THEN 1 ELSE 0
Can(c)      == Exists(c) /\ ~c.deleting
AsOf(o, c)  == {<<m, c[m].version>> : m \in o.spec.refs}
Registering(n) == me = n /\ pc \in {"observe", "level", "post"}

\* What the next pass over n registers, or the one under way.
Coming(n) == IF Registering(n)
             THEN [body |-> obj.spec.body, refs |-> IF pc = "post" THEN resolved ELSE AsOf(obj, cache)]
             ELSE [body |-> cache[n].spec.body, refs |-> AsOf(cache[n], cache)]
Awaits(n) == (Registering(n) \/ Can(cache[n])) /\ ~Has(n, Coming(n))

\* How far the pass is behind the cache, and the cache behind the server: in
\* what n describes, and in the versions it references.
PassLag(n)     == Registering(n) /\ Can(cache[n]) /\ obj.spec # cache[n].spec
ResolvedLag(n) == Registering(n) /\ pc = "post" /\ resolved # AsOf(obj, cache)
CacheLag(n)    == Can(crs[n]) /\ ~(Can(cache[n]) /\ cache[n].spec = crs[n].spec)
VersionLag(n)  == \E m \in Names : /\ cache[m].version # crs[m].version
                                   /\ \/ Can(cache[n]) /\ m \in cache[n].spec.refs
                                      \/ Registering(n) /\ m \in obj.spec.refs

\* The version in the status of m changes when the pass is saved, and is then
\* still to change, because m is not registered as it is.  That of an object
\* that references another may always change.
Saves(m)  == me = m /\ pc = "persist" /\ IsCurrent(obj)
Saving(m) == Saves(m) /\ obj.spec.refs = {} /\ obj.version # crs[m].version
Right(v, m) == /\ v \in DOMAIN registry[m].versions
               /\ registry[m].versions[v] = [body |-> crs[m].spec.body, refs |-> {}]
Unsettled(m) == /\ Exists(crs[m])
                /\ \/ crs[m].deleting \/ crs[m].spec.refs # {}
                   \/ ~Right(IF Saves(m) THEN obj.version ELSE crs[m].version, m)

OtherSaving(n)    == \E m \in Names \ {n} : Saving(m)
OtherUnsettled(n) == \E m \in Names \ {n} : Unsettled(m)

\* Whatever happens before the next edit, n gets no more versions than this.
Size(n)  == Len(registry[n].versions)
Bound(n) == Size(n)
            + Bit(Awaits(n)) + Bit(PassLag(n)) + Bit(ResolvedLag(n))
            + Bit(CacheLag(n)) + Bit(VersionLag(n))
            + Bit(OtherSaving(n)) + Bit(OtherUnsettled(n))

BoundInv == ~cyclic => /\ Acyclic(crs) /\ Acyclic(cache)
                       /\ Pair => \A n \in Names : Bound(n) <= edits

VersionsInv == AgesInv /\ DistinctInv /\ BoundInv
=============================================================================

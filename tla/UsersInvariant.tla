--------------------------- MODULE UsersInvariant ---------------------------
(***************************************************************************)
(* The inductive invariant behind LastOneDeletes and RotationIsNotForgotten: *)
(* what the copies of an object still say about it, who is left to delete  *)
(* the user, and what a pass is about to claim of its password.            *)
(***************************************************************************)
EXTENDS UserPasswords

Pass    == {"observe", "create", "update", "reset", "fetch", "publish", "persist", "annotate"}
Removal == {"delete", "unfinalize"}

\* A copy c of an object is an earlier version of it.  Within a generation the
\* spec stays, a deletion is for good, and so are the finalizer and the UUID.
Earlier(c, now) ==
    Exists(c) /\ c.uid = now.uid =>
        /\ c.rv <= now.rv /\ c.gen <= now.gen
        /\ c.gen = now.gen => c.spec = now.spec /\ c.deleting = now.deleting
        /\ c.deleting => c.gen = now.gen
        /\ c.finalizer => now.finalizer
        /\ c.known => now.known

\* What no pass has seen: nothing but a trigger of the watch has touched it.
Untouched(c) == ~c.finalizer /\ ~c.deleting /\ ~c.known /\ c.processed = 0

\* A copy without a deletion is of an object that is still there, unless that
\* went before a pass had seen it.
Cached(o) ==
    LET c == cache[o]
        now == crs[o]
    IN /\ c.uid <= edits /\ now.uid <= edits
       /\ Exists(now) \/ now = NoObject
       /\ now.finalizer \/ Untouched(now)
       /\ Earlier(c, now)
       /\ IsCurrent(o, c) => c = now
       /\ c.uid # now.uid => Untouched(now)
       /\ Exists(c) /\ ~c.deleting /\ c.uid # now.uid => ~c.finalizer /\ unseen
       /\ now.processed = now.gen => c.uid = now.uid /\ c.gen = now.gen
       /\ KindIs("ClickhouseUser") /\ ~unheard /\ Exists(c) /\ c.deleting
          /\ c.uid = now.uid => c.known = now.known

\* What a pass leaves as it was when it began.
SameObject(c, d) ==
    /\ c.uid = d.uid /\ c.rv = d.rv /\ c.gen = d.gen /\ c.spec = d.spec
    /\ c.deleting = d.deleting /\ c.finalizer = d.finalizer

\* A worker began with a copy from the cache, which never goes back.  A pass
\* holds its object; what a removal has no longer got was never seen since.
Copied(o) ==
    LET w == work[o]
        now == crs[o]
    IN ~At(o, "idle") =>
       /\ Exists(w.orig) /\ w.orig.uid <= edits
       /\ SameObject(w.obj, w.orig)
       /\ w.orig.known => w.obj.known
       /\ Earlier(w.orig, now)
       /\ IsCurrent(o, w.orig) => w.orig = now
       /\ w.orig.uid = now.uid => cache[o].uid = now.uid /\ w.orig.gen <= cache[o].gen
       /\ w.orig.uid # now.uid => Untouched(now)
       /\ now.processed = now.gen => w.orig.uid = now.uid /\ w.orig.gen = now.gen
       /\ w.pc \in Pass => w.orig.finalizer /\ w.orig.uid = now.uid
       /\ w.pc \in Removal => w.orig.deleting
       /\ w.pc \in Removal \cup {"hold", "observe"} => w.obj = w.orig
       /\ KindIs("ClickhouseUser") /\ ~unheard /\ w.orig.deleting /\ w.orig.uid = now.uid
          /\ w.pc \in Removal => w.orig.known = now.known
       /\ At(o, "annotate") => w.obj.known = w.orig.known
       /\ w.pc \in {"create", "update", "reset"}
          => w.obj.running = w.orig.running /\ w.obj.processed = w.orig.processed

\* Who will delete the user: an object that is not about to go without, and a
\* ClickHouse one only if the user's UUID is with it or its worker.
Keeps(o) ==
    /\ Exists(crs[o])
    /\ ~(At(o, "unfinalize") /\ work[o].orig.uid = crs[o].uid)
    /\ KindIs("ClickhouseUser") => crs[o].known \/ (work[o].pc \in Pass /\ Me(o).known)

KeptInv ==
    user.there /\ ~setup.builtIn /\ ~unseen /\ (KindIs("ClickhouseUser") => ~unheard)
        => \E o \in Objects : Keeps(o)

\* Objects that the users of a setup do not make.
Outside(o) == o \in setup.objects \/ (At(o, "idle") /\ ~Exists(crs[o]) /\ ~Exists(cache[o]))

\* The password that the cache shows in the source is one to have been set:
\* nobody is on the way to push it.
Due(o) == /\ Alone(o) /\ lost = {} /\ ~meddled
          /\ seen # Absent /\ ~watch /\ o \notin toTrigger

\* An object that counts as up to date has set it, or is about to, for a user it
\* has just made.
ReadyClaim(o) ==
    Due(o) /\ IsReadyToUse(crs[o]) /\ crs[o].spec.sourced =>
        /\ At(o, "reset") => work[o].pw = seen
        /\ user.there => user.pw = seen \/ (At(o, "reset") /\ work[o].retry)

\* A pass whose copy can be saved sets it before it says that the object is up
\* to date.
PassClaim(o) ==
    Due(o) /\ IsCurrent(o, Me(o)) /\ Me(o).spec.sourced =>
        /\ At(o, "reset") => work[o].pw = seen
        /\ \/ At(o, "fetch") \/ At(o, "publish")
           \/ (At(o, "persist") \/ At(o, "annotate")) /\ IsReadyToUse(Me(o))
           => (user.there => user.pw = seen)

CopiesInv == \A o \in Objects : Cached(o) /\ Copied(o) /\ Outside(o)
ClaimInv  == \A o \in Objects : ReadyClaim(o) /\ PassClaim(o)

UsersInv == CopiesInv /\ KeptInv /\ ClaimInv
=============================================================================

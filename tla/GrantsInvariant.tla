--------------------------- MODULE GrantsInvariant ---------------------------
(***************************************************************************)
(* The inductive invariant behind the safety properties of                 *)
(* ClickhouseGrants: what the copies of an object still say about it, and  *)
(* how far the worker has come with what the object lists.                 *)
(***************************************************************************)
EXTENDS ClickhouseGrants

\* There is work on an object of this name exactly while the worker is busy.
WorkerInv ==
    IF pc = "idle" THEN me = NoOne /\ obj = NoObject ELSE me \in Objects /\ Exists(obj)

----------------------------------------------------------------------------
(* Copies                                                                  *)

\* A copy of this incarnation is an earlier version of it.  Within a
\* generation the spec stays; and a deletion is for good, of the spec as it was.
Earlier(o, c) ==
    Exists(o) /\ o.uid = c.uid =>
        /\ o.rv <= c.rv /\ o.gen <= c.gen
        /\ o.gen = c.gen => o.spec = c.spec /\ o.deleting = c.deleting
        /\ o.deleting => o.gen = c.gen

\* What the cache does not know has been processed by no pass.
CacheInv ==
    \A g \in Objects :
        LET c == crs[g]
        IN /\ c.uid <= edits /\ cache[g].uid <= edits
           /\ ~Exists(c) => c = NoObject
           /\ c.processed <= c.gen
           /\ Earlier(cache[g], c)
           /\ Exists(cache[g]) /\ cache[g].uid = c.uid /\ cache[g].rv = c.rv => cache[g] = c
           /\ cache[g].uid # c.uid => c.state = {} /\ c.processed = 0

Reading == {"observe", "revoke", "grant", "delete"}

\* The worker's copy was read from the cache, which never goes back; it is
\* current as long as nobody else writes the object.
CopyInv ==
    pc # "idle" =>
        /\ obj.uid <= edits
        /\ Earlier(obj, crs[me])
        /\ obj.uid = crs[me].uid => cache[me].uid = crs[me].uid
        /\ obj.uid # crs[me].uid => crs[me].state = {} /\ crs[me].processed = 0
        /\ IsCurrent(obj) =>
              /\ pc \in Reading => obj = crs[me]
              /\ pc = "status" => obj.gen = crs[me].gen
              /\ pc = "annotate" => obj.gen = crs[me].gen /\ obj.state = crs[me].state

\* What brought the worker to where it is.
PathInv ==
    /\ pc \in {"revoke", "grant"} => ~hasLatestGeneration(obj)
    /\ pc \in {"status", "annotate"} => obj.processed = obj.gen /\ obj.state = obj.spec
    /\ pc \in {"delete", "unfinalize"} => obj.deleting

----------------------------------------------------------------------------
(* Grants                                                                  *)

\* What two objects list is contested.
ContestInv ==
    \A g, h \in Objects : g # h => Listed(crs[g]) \cap Listed(crs[h]) \subseteq contested

\* What the worker is about to report as applied is granted.
AppliedInv ==
    pc \in {"status", "annotate"} => obj.spec \subseteq held \cup contested

\* What is granted is in a status, save for what is known not to be: a spec
\* does not count, because an edit can change it.  So a pass that is about to
\* save another status has revoked what the old one lists, and one that is about
\* to let the object go what its spec lists.
RecordInv ==
    /\ \A p \in held : p \in unrecorded \/ \E g \in Objects : p \in crs[g].state
    /\ pc = "grant" /\ IsCurrent(obj) => held \cap crs[me].state = {}
    /\ pc = "status" /\ IsCurrent(obj) => held \cap crs[me].state \subseteq obj.spec
    /\ pc = "unfinalize" => held \cap obj.spec = {}

GrantsInv ==
    /\ WorkerInv /\ CacheInv /\ CopyInv /\ PathInv
    /\ ContestInv /\ ReadyIsGranted /\ AppliedInv /\ RecordInv
=============================================================================

---------------------------- MODULE TokenSecretGC ----------------------------
(***************************************************************************)
(* A Secret that holds an API token, the objects that name it in their     *)
(* authSecretRef, and its protection finalizer: put on by the reconcilers  *)
(* (controllers/reconciler.go), taken off by the collector                 *)
(* (controllers/secret_finalizer_gc_controller.go), which lists the users  *)
(* of the Secret kind by kind, from caches, for the kinds --controllers    *)
(* enables (controllers/kinds.go).  There is no default token.             *)
(***************************************************************************)
EXTENDS Integers, FiniteSets

CONSTANTS
    Objects,    \* names of objects that may use the Secret
    NKinds,     \* the kinds are 1 .. NKinds, in the order they are listed
    KindOf,     \* the kind of an object
    Setups      \* what may happen: [moves, restarts, maxEdits, maxFaults]: may
                \* users change an authSecretRef, may the manager restart

Kinds == 1 .. NKinds

ASSUME KindsAssumption == NKinds \in Nat \ {0} /\ KindOf \in [Objects -> Kinds]
ASSUME SetupsAssumption ==
    \A s \in Setups : /\ {s.moves, s.restarts} \subseteq BOOLEAN
                      /\ {s.maxEdits, s.maxFaults} \subseteq Nat

VARIABLES
    setup,    \* what may happen
    enabled,  \* the kinds with a controller
    secret,   \* the Secret in the API server
    seen,     \* the informer's copy of the Secret
    current,  \* is that copy the latest
    objs,     \* the objects in the API server
    cache,    \* the informers' copies of the objects
    made,     \* the objects that have something at Aiven
    pc,       \* where the pass over an object is
    mine,     \* the copy of the object it works on
    gc,       \* the kind the collector lists next; 0: idle; more: it removes
    gcQueued, \* is the Secret in the collector's queue
    edits,    \* steps of users so far
    faults,   \* failed calls and restarts so far
    owed      \* history: the objects the Secret must be kept for

cluster   == <<secret, objs>>
caches    == <<seen, current, cache>>
passes    == <<pc, mine>>
collector == <<gc, gcQueued>>
vars      == <<setup, enabled, cluster, caches, made, passes, collector, edits, faults, owed>>

----------------------------------------------------------------------------
(* Values                                                                  *)

NoSecret == [at |-> "gone", protected |-> FALSE]
NoObject == [uid |-> 0, uses |-> FALSE, held |-> FALSE, deleting |-> FALSE]
New(uid) == [uid |-> uid, uses |-> TRUE, held |-> FALSE, deleting |-> FALSE]
Exists(o) == o.uid # 0
Uses(o)   == Exists(o) /\ o.uses

\* parseControllers: an allow list, or all but some; never none.
Selections == (SUBSET Kinds) \ {{}}

IsEnabled(o) == KindOf[o] \in enabled

Init ==
    /\ setup \in Setups
    /\ enabled \in IF setup.restarts THEN Selections ELSE {Kinds}
    /\ secret = [at |-> "live", protected |-> FALSE]
    /\ seen = secret
    /\ current = TRUE
    /\ objs = [o \in Objects |-> NoObject]
    /\ cache = objs
    /\ made = {}
    /\ pc = [o \in Objects |-> "idle"]
    /\ mine = objs
    /\ gc = 0
    /\ gcQueued = FALSE
    /\ edits = 0
    /\ faults = 0
    /\ owed = {}

----------------------------------------------------------------------------
(* The reconcilers: a pass over one object                                 *)

Fault ==
    /\ faults < setup.maxFaults
    /\ faults' = faults + 1

Goto(o, p, copy) ==
    /\ pc' = [pc EXCEPT ![o] = p]
    /\ mine' = [mine EXCEPT ![o] = copy]

Stop(o) == Goto(o, "idle", NoObject)

\* What the API server makes of a write to the Secret.
WriteSecret(s) ==
    /\ secret' = s
    /\ current' = FALSE
    /\ UNCHANGED seen

\* Reconcile starts: the object is read, periodically or after an event.
Begin(o) ==
    /\ pc[o] = "idle"
    /\ IsEnabled(o)
    /\ Exists(cache[o])
    /\ IF cache[o].deleting
       THEN cache[o].held /\ Goto(o, "delete", cache[o])
       ELSE Goto(o, "protect", cache[o])
    /\ UNCHANGED <<setup, enabled, cluster, caches, made, collector, edits, faults>>

\* No new finalizer is taken by what is being deleted.
CanProtect == current /\ seen.at = "live"

\* ensureAuthSecretFinalizer: nothing to do, or addFinalizer.
Protect(o) ==
    /\ pc[o] = "protect"
    /\ \/ /\ ~mine[o].uses \/ seen.protected
          /\ Goto(o, "hold", mine[o])
          /\ UNCHANGED <<secret, seen, current, faults>>
       \/ /\ mine[o].uses /\ ~seen.protected /\ CanProtect
          /\ WriteSecret([secret EXCEPT !.protected = TRUE])
          /\ Goto(o, "hold", mine[o])
          /\ UNCHANGED faults
       \/ /\ mine[o].uses /\ ~seen.protected
          /\ Stop(o)
          /\ \/ ~CanProtect /\ UNCHANGED faults
             \/ Fault
          /\ UNCHANGED <<secret, seen, current>>
    /\ UNCHANGED <<setup, enabled, objs, cache, made, collector, edits>>

IsCurrent(o) == Exists(cache[o]) /\ cache[o] = objs[o]

\* ensureFinalizer.
Hold(o) ==
    /\ pc[o] = "hold"
    /\ \/ /\ mine[o].held
          /\ Goto(o, "make", mine[o])
          /\ UNCHANGED <<objs, faults>>
       \/ /\ ~mine[o].held /\ IsCurrent(o) /\ ~cache[o].deleting
          /\ objs' = [objs EXCEPT ![o].held = TRUE]
          /\ Goto(o, "make", objs'[o])
          /\ UNCHANGED faults
       \/ /\ ~mine[o].held
          /\ Stop(o)
          /\ \/ ~(IsCurrent(o) /\ ~cache[o].deleting) /\ UNCHANGED faults
             \/ Fault
          /\ UNCHANGED objs
    /\ UNCHANGED <<setup, enabled, secret, caches, made, collector, edits>>

\* resolveToken: there is a token to call Aiven with.
HasToken(o) == mine[o].uses => seen.at # "gone"

\* newAivenClient, and what is made at Aiven with it.
Make(o) ==
    /\ pc[o] = "make"
    /\ \/ HasToken(o) /\ made' = made \cup {o} /\ UNCHANGED faults
       \/ ~HasToken(o) /\ UNCHANGED <<made, faults>>
       \/ Fault /\ UNCHANGED made
    /\ Stop(o)
    /\ UNCHANGED <<setup, enabled, cluster, caches, collector, edits>>

\* reconcileDeletion: newAivenClient and Delete.
Delete(o) ==
    /\ pc[o] = "delete"
    /\ \/ HasToken(o) /\ made' = made \ {o} /\ Goto(o, "release", mine[o]) /\ UNCHANGED faults
       \/ ~HasToken(o) /\ Stop(o) /\ UNCHANGED <<made, faults>>
       \/ Fault /\ Stop(o) /\ UNCHANGED made
    /\ UNCHANGED <<setup, enabled, cluster, caches, collector, edits>>

\* removeFinalizer: the object goes.
Release(o) ==
    /\ pc[o] = "release"
    /\ \/ IsCurrent(o) /\ objs' = [objs EXCEPT ![o] = NoObject] /\ UNCHANGED faults
       \/ ~IsCurrent(o) /\ UNCHANGED <<objs, faults>>
       \/ Fault /\ UNCHANGED objs
    /\ Stop(o)
    /\ UNCHANGED <<setup, enabled, secret, caches, made, collector, edits>>

----------------------------------------------------------------------------
(* The collector                                                           *)

\* Reconcile: a Secret without the finalizer is none of its business.
GCBegin ==
    /\ gc = 0
    /\ gcQueued
    /\ gcQueued' = FALSE
    /\ gc' = IF seen.protected THEN 1 ELSE 0
    /\ UNCHANGED <<setup, enabled, cluster, caches, made, passes, edits, faults>>

\* secretIsStillNeededBy.  Mutant: not by what is being deleted.
StillNeededByLive(k) ==
    k \in enabled /\ \E o \in Objects : KindOf[o] = k /\ Uses(cache[o]) /\ ~cache[o].deleting
StillNeededBy(k) ==
    k \in enabled /\ \E o \in Objects : KindOf[o] = k /\ Uses(cache[o])

\* secretIsStillNeeded, one kind at a time.
GCList ==
    /\ gc \in Kinds
    /\ \/ gc' = (IF StillNeededBy(gc) THEN 0 ELSE gc + 1) /\ UNCHANGED <<gcQueued, faults>>
       \/ Fault /\ gc' = 0 /\ gcQueued' = TRUE
    /\ UNCHANGED <<setup, enabled, cluster, caches, made, passes, edits>>

\* Without the finalizer, a Secret that is being deleted is gone.  Mutant: it
\* stays until somebody looks.
Bared(s)       == [s EXCEPT !.protected = FALSE]
Unprotected(s) == IF s.at = "deleting" THEN NoSecret ELSE [s EXCEPT !.protected = FALSE]

\* removeFinalizer.
GCRemove ==
    /\ gc = NKinds + 1
    /\ gc' = 0
    /\ \/ /\ current /\ seen.at # "gone"
          /\ WriteSecret(Unprotected(secret))
          /\ UNCHANGED <<gcQueued, faults>>
       \/ /\ seen.at = "gone"
          /\ UNCHANGED <<secret, seen, current, gcQueued, faults>>
       \/ /\ ~current \/ Fault
          /\ current => faults' = faults + 1
          /\ ~current => UNCHANGED faults
          /\ gcQueued' = TRUE
          /\ UNCHANGED <<secret, seen, current>>
    /\ UNCHANGED <<setup, enabled, objs, cache, made, passes, edits>>

----------------------------------------------------------------------------
(* The watches                                                             *)

\* protectedSecretIsDeleting
NeedsCollector(s) == s.at = "deleting" /\ s.protected

SyncSecret ==
    /\ ~current
    /\ seen' = secret
    /\ current' = TRUE
    /\ gcQueued' = (gcQueued \/ NeedsCollector(secret))
    /\ UNCHANGED <<setup, enabled, cluster, cache, made, passes, gc, edits, faults>>

\* The next the watch shows of an object: that it is gone, before another of
\* its name.
NextSeen(o) == IF Exists(cache[o]) /\ objs[o].uid # cache[o].uid THEN NoObject ELSE objs[o]

\* secretFinalizerGCEventPredicate.  Mutant: only for deletions.
Deleted(old, new) == Uses(old) /\ ~Exists(new)
Freed(old, new)   == IF Exists(old) /\ Exists(new) THEN old.uses # new.uses ELSE Deleted(old, new)

SyncKind(k) ==
    /\ k \in enabled
    /\ LET theirs == {o \in Objects : KindOf[o] = k}
       IN /\ \E o \in theirs : cache[o] # objs[o]
          /\ cache' = [o \in Objects |-> IF o \in theirs THEN NextSeen(o) ELSE cache[o]]
          /\ gcQueued' = (gcQueued \/ \E o \in theirs : Freed(cache[o], NextSeen(o)))
    /\ UNCHANGED <<setup, enabled, cluster, seen, current, made, passes, gc, edits, faults>>

\* The manager restarts, perhaps with other --controllers; what it lists then
\* comes as created, and only a Secret that is being deleted is collected.
Restart ==
    /\ setup.restarts
    /\ Fault
    /\ enabled' \in Selections
    /\ seen' = secret
    /\ current' = TRUE
    /\ cache' = objs
    /\ pc' = [o \in Objects |-> "idle"]
    /\ mine' = [o \in Objects |-> NoObject]
    /\ gc' = 0
    /\ gcQueued' = NeedsCollector(secret)
    /\ UNCHANGED <<setup, cluster, made, edits>>

----------------------------------------------------------------------------
(* The users                                                               *)

Edit ==
    /\ edits < setup.maxEdits
    /\ edits' = edits + 1
    /\ UNCHANGED <<setup, enabled, cache, made, passes, collector, faults>>

UserCreatesSecret ==
    /\ secret.at = "gone"
    /\ WriteSecret([at |-> "live", protected |-> FALSE])
    /\ Edit
    /\ UNCHANGED objs

UserDeletesSecret ==
    /\ secret.at = "live"
    /\ WriteSecret(IF secret.protected THEN [secret EXCEPT !.at = "deleting"] ELSE NoSecret)
    /\ Edit
    /\ UNCHANGED objs

UserCreatesObject(o) ==
    /\ ~Exists(objs[o])
    /\ o \notin made
    /\ objs' = [objs EXCEPT ![o] = New(edits + 1)]
    /\ Edit
    /\ UNCHANGED <<secret, seen, current>>

UserDeletesObject(o) ==
    /\ Exists(objs[o]) /\ ~objs[o].deleting
    /\ objs' = [objs EXCEPT ![o] = IF objs[o].held THEN [objs[o] EXCEPT !.deleting = TRUE] ELSE NoObject]
    /\ Edit
    /\ UNCHANGED <<secret, seen, current>>

\* Another authSecretRef, or this one again.
UserMovesObject(o) ==
    /\ setup.moves
    /\ Exists(objs[o])
    /\ objs' = [objs EXCEPT ![o].uses = ~@]
    /\ Edit
    /\ UNCHANGED <<secret, seen, current>>

----------------------------------------------------------------------------
Pass(o)   == Begin(o) \/ Protect(o) \/ Hold(o) \/ Make(o) \/ Delete(o) \/ Release(o)
Collector == GCBegin \/ GCList \/ GCRemove
Watches   == SyncSecret \/ \E k \in Kinds : SyncKind(k)
Users     == UserCreatesSecret \/ UserDeletesSecret
             \/ \E o \in Objects : UserCreatesObject(o) \/ UserDeletesObject(o) \/ UserMovesObject(o)

\* An object whose kind is enabled, that uses the Secret and is in its cache as
\* it is.
Shown(o) == Uses(objs[o]) /\ cache[o] = objs[o] /\ IsEnabled(o)

\* The Secret is to be kept for what is shown while it is protected and nobody
\* is about to collect it, until that is gone, uses another or is disabled.
Remember ==
    owed' = {o \in Objects :
                /\ Uses(objs'[o]) /\ KindOf[o] \in enabled'
                /\ \/ o \in owed /\ objs'[o].uid = objs[o].uid
                   \/ cache'[o] = objs'[o] /\ gc' = 0 /\ secret'.protected}

Step == (\E o \in Objects : Pass(o)) \/ Collector \/ Watches \/ Restart \/ Users
Next == Step /\ Remember

Spec == Init /\ [][Next]_vars

\* Objects are polled, passes end, the queue is served and watches deliver.
FairSpec ==
    /\ Spec
    /\ \A o \in Objects : WF_vars(Pass(o) /\ Remember)
    /\ WF_vars(Collector /\ Remember)
    /\ WF_vars(SyncSecret /\ Remember)
    /\ \A k \in Kinds : WF_vars(SyncKind(k) /\ Remember)

----------------------------------------------------------------------------
(* Properties                                                              *)

Object == [uid : Nat, uses : BOOLEAN, held : BOOLEAN, deleting : BOOLEAN]
Secret == {s \in [at : {"gone", "live", "deleting"}, protected : BOOLEAN] :
              (s.at = "gone" => ~s.protected) /\ (s.at = "deleting" => s.protected)}
Places == {"idle", "protect", "hold", "make", "delete", "release"}

TypeOK ==
    /\ enabled \in Selections
    /\ secret \in Secret
    /\ seen \in Secret
    /\ current \in BOOLEAN
    /\ objs \in [Objects -> Object]
    /\ cache \in [Objects -> Object]
    /\ mine \in [Objects -> Object]
    /\ made \subseteq Objects
    /\ pc \in [Objects -> Places]
    /\ gc \in 0 .. NKinds + 1
    /\ gcQueued \in BOOLEAN
    /\ edits \in Nat
    /\ owed \subseteq Objects

\* The Secret stays for an object the collector has had a chance to see,
\* however its deletion, listings and outdated copies fall together.
KeepsWhatIsOwed == owed # {} => secret.at # "gone" /\ secret.protected

\* What is owed is still in the cache, and of a kind not listed yet.
Unlisted == \A o \in owed : /\ Uses(objs[o]) /\ IsEnabled(o)
                            /\ Uses(cache[o]) /\ cache[o].uid = objs[o].uid
                            /\ gc # 0 => gc <= KindOf[o]

\* What the collector is at is not forgotten: it will be called when the last
\* user goes.
Needed == \E o \in Objects : Uses(objs[o]) /\ IsEnabled(o)

\* Once users stop: a Secret that is being deleted stays for those that use it,
\* and goes with the last; one that is not is protected for them; and what is
\* deleted goes, unless its Secret went before.
Settles ==
    <>[](/\ secret.at = "deleting" => Needed
         /\ secret.at = "live" /\ (\E o \in Objects : Uses(objs[o]) /\ IsEnabled(o) /\ ~objs[o].deleting)
               => secret.protected
         /\ \A o \in Objects : IsEnabled(o) /\ objs[o].deleting => Uses(objs[o]) /\ secret.at = "gone")
=============================================================================

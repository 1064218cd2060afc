---------------------- MODULE ManagedReconciler_proofs ----------------------
(***************************************************************************)
(* ManagedReconciler is type correct, never leaks a resource (NoLeak) and  *)
(* implements RemoteOwnership (HoldsWhatItMakes), for every set of specs,  *)
(* every kind and every bound.  The last two rest on HoldInv, which says   *)
(* what stale copies still tell about the object.                          *)
(***************************************************************************)
EXTENDS ManagedInvariant, TLAPS

----------------------------------------------------------------------------
(* Types of the values the steps build                                     *)

LEMMA NoObjectType == NoObject \in Objects
BY DEF NoObject, Fresh, Objects, MaybeSpec, Policies, Errors

LEMMA FreshType ==
    ASSUME NEW u \in Nat, NEW s \in Specs, NEW g \in BOOLEAN
    PROVE  /\ Fresh(u, s, g) \in Objects
           /\ Fresh(u, s, g).uid = u
           /\ ~Fresh(u, s, g).finalizer
           /\ ~Fresh(u, s, g).deleting
BY DEF Fresh, Objects, MaybeSpec, Policies, Errors

LEMMA OutcomeType ==
    ASSUME NEW o \in Objects
    PROVE  OutcomeOf(o) \in Outcomes
BY DEF OutcomeOf, Outcomes, Objects

LEMMA WriteType ==
    ASSUME NEW o \in Objects
    PROVE  /\ Write(o) \in Objects
           /\ Write(o) = [o EXCEPT !.rv = o.rv + 1]
           /\ Write(o).rv = o.rv + 1
           /\ Write(o).uid = o.uid
           /\ Write(o).finalizer = o.finalizer
           /\ Write(o).deleting = o.deleting
BY DEF Write, Objects

\* w is o with other contents: still the same incarnation at the same version.
Rewritten(w, o) == w \in Objects /\ w.uid = o.uid /\ w.rv = o.rv

LEMMA FinalizerType ==
    ASSUME NEW o \in Objects, NEW b \in BOOLEAN
    PROVE  LET w == [o EXCEPT !.finalizer = b]
           IN  Rewritten(w, o) /\ w.deleting = o.deleting /\ w.finalizer = b
BY DEF Objects, Rewritten

LEMMA StatusType ==
    ASSUME NEW o \in Objects, NEW c \in Outcomes
    PROVE  LET w == [o EXCEPT !.initialized = c.initialized, !.err = c.err]
           IN  Rewritten(w, o) /\ w.deleting = o.deleting /\ w.finalizer = o.finalizer
BY DEF Objects, Outcomes, Rewritten

LEMMA AnnotationsType ==
    ASSUME NEW o \in Objects, NEW c \in Outcomes
    PROVE  LET w == [o EXCEPT !.processed = c.processed, !.running = c.running]
           IN  Rewritten(w, o) /\ w.deleting = o.deleting /\ w.finalizer = o.finalizer
BY DEF Objects, Outcomes, Rewritten

LEMMA SpecType ==
    ASSUME NEW o \in Objects, NEW s \in Specs
    PROVE  LET w == [o EXCEPT !.spec = s, !.gen = @ + 1]
           IN  Rewritten(w, o) /\ w.deleting = o.deleting /\ w.finalizer = o.finalizer
<1> DEFINE g == o.gen + 1
<1>1. g \in Nat BY DEF Objects
<1> HIDE DEF g
<1>2. LET w == [o EXCEPT !.spec = s, !.gen = g]
      IN  Rewritten(w, o) /\ w.deleting = o.deleting /\ w.finalizer = o.finalizer
  BY <1>1 DEF Objects, MaybeSpec, Rewritten
<1> QED BY <1>2 DEF g

LEMMA PolicyType ==
    ASSUME NEW o \in Objects, NEW p \in Policies
    PROVE  LET w == [o EXCEPT !.policy = p]
           IN  Rewritten(w, o) /\ w.deleting = o.deleting /\ w.finalizer = o.finalizer
BY DEF Objects, Rewritten

LEMMA GuardType ==
    ASSUME NEW o \in Objects
    PROVE  LET w == [o EXCEPT !.guarded = ~@, !.gen = @ + 1]
           IN  Rewritten(w, o) /\ w.deleting = o.deleting /\ w.finalizer = o.finalizer
<1> DEFINE g == o.gen + 1
           b == ~o.guarded
<1>1. g \in Nat /\ b \in BOOLEAN BY DEF Objects
<1> HIDE DEF g, b
<1>2. LET w == [o EXCEPT !.guarded = b, !.gen = g]
      IN  Rewritten(w, o) /\ w.deleting = o.deleting /\ w.finalizer = o.finalizer
  BY <1>1 DEF Objects, Rewritten
<1> QED BY <1>2 DEF g, b

LEMMA KindType ==
    ASSUME setup \in Setups
    PROVE  Kind \in Kinds /\ setup.maxEdits \in Nat /\ setup.maxFaults \in Nat
BY SetupAssumption DEF Kind

LEMMA DeletionType ==
    ASSUME NEW o \in Objects
    PROVE  LET w == [o EXCEPT !.deleting = TRUE, !.gen = @ + 1]
           IN  Rewritten(w, o) /\ w.deleting /\ w.finalizer = o.finalizer
<1> DEFINE g == o.gen + 1
<1>1. g \in Nat BY DEF Objects
<1> HIDE DEF g
<1>2. LET w == [o EXCEPT !.deleting = TRUE, !.gen = g]
      IN  Rewritten(w, o) /\ w.deleting /\ w.finalizer = o.finalizer
  BY <1>1 DEF Objects, Rewritten
<1> QED BY <1>2 DEF g

LEMMA OutcomeUpdates ==
    ASSUME ClusterOK, WorkerOK, NEW o \in Outcomes
    PROVE  /\ \A e \in Errors : [o EXCEPT !.err = e] \in Outcomes
           /\ \A b \in BOOLEAN : [o EXCEPT !.running = b] \in Outcomes
           /\ [o EXCEPT !.initialized = TRUE] \in Outcomes
           /\ Completed(o) \in Outcomes
           /\ Observed(o) \in Outcomes
BY DEF Outcomes, Completed, Observed, WorkerOK, Objects, Errors

LEMMA ReturnType == ASSUME WorkerOK, NEW r \in BOOLEAN, Return(r) PROVE WorkerOK'
BY NoObjectType, OutcomeType DEF Return, WorkerOK, PCs, MaybeSpec

LEMMA GotoType == ASSUME WorkerOK, NEW p \in PCs, NEW o \in Outcomes, Goto(p, o) PROVE WorkerOK'
BY DEF Goto, WorkerOK

LEMMA PresentType ==
    ASSUME WorkerOK, NEW s \in MaybeSpec, NEW o \in Outcomes, Present(s, o) PROVE WorkerOK'
BY DEF Present, WorkerOK, PCs

LEMMA SucceededType == ASSUME setup \in Setups, ClusterOK, WorkerOK, Succeeded PROVE WorkerOK'
<1> DEFINE done == [out EXCEPT !.running = Kind.runsAtOnce]
<1>1. done \in Outcomes /\ Completed(done) \in Outcomes /\ obj.spec \in MaybeSpec
  BY OutcomeUpdates, KindType DEF WorkerOK, Objects, Kinds, Traits
<1>2. Present(obj.spec, done) \/ Goto("persist", Completed(done))
  BY DEF Succeeded
<1> QED
  BY <1>1, <1>2, PresentType, GotoType DEF PCs

\* Create or Update began, and failed.
LEMMA InterruptedType ==
    ASSUME setup \in Setups, WorkerOK
    PROVE  /\ Interrupted \in Outcomes
           /\ [Interrupted EXCEPT !.err = "CreateOrUpdate"] \in Outcomes
           /\ Interrupted.processed = out.processed
           /\ [Interrupted EXCEPT !.err = "CreateOrUpdate"].processed = out.processed
<1> DEFINE b == out.running /\ Kind.standing
<1>1. out \in Outcomes
  BY DEF WorkerOK
<1>2. b \in BOOLEAN
  OBVIOUS
<1>3. Interrupted = [out EXCEPT !.running = b]
  BY DEF Interrupted
<1>4. "CreateOrUpdate" \in Errors
  BY DEF Errors
<1> HIDE DEF b
<1> QED
  BY <1>1, <1>2, <1>3, <1>4 DEF Outcomes

LEMMA FailedType == ASSUME setup \in Setups, WorkerOK, Failed PROVE WorkerOK'
BY InterruptedType, GotoType DEF Failed, PCs

LEMMA DeleteFailedType == ASSUME ClusterOK, WorkerOK, DeleteFailed PROVE WorkerOK'
<1>1. [out EXCEPT !.err = "Delete"] \in Outcomes
  BY OutcomeUpdates DEF WorkerOK, Errors
<1> QED
  BY <1>1, GotoType DEF DeleteFailed, PCs

LEMMA AppliedType ==
    ASSUME WorkerOK, AivenOK, HistoryOK, NEW ph \in Phases, Applied(ph), secret' = secret, token' = token
    PROVE  AivenOK' /\ HistoryOK'
<1>1. obj.spec \in MaybeSpec
  BY DEF WorkerOK, Objects
<1>2. AivenOK'
  BY <1>1 DEF Applied, AivenOK, Remotes
<1>3. HistoryOK'
  BY DEF Applied, HistoryOK, Fates
<1> QED
  BY <1>2, <1>3

LEMMA BoundsType == ASSUME BoundsOK, edits' = edits, faults' = faults \/ Fault PROVE BoundsOK'
BY DEF Fault, BoundsOK

----------------------------------------------------------------------------
(* Type correctness                                                        *)

THEOREM TypeCorrect == Spec => []TypeOK
<1>1. Init => TypeOK
  <2> SUFFICES ASSUME Init PROVE TypeOK
    OBVIOUS
  <2>1. ClusterOK
    BY NoObjectType DEF Init, ClusterOK
  <2>2. WorkerOK
    BY NoObjectType, OutcomeType DEF Init, WorkerOK, PCs, MaybeSpec
  <2>3. AivenOK
    BY DEF Init, AivenOK, Remotes, NoRemote, Phases, Secrets, NoSecret, Tokens, MaybeSpec
  <2> QED
    BY <2>1, <2>2, <2>3 DEF Init, TypeOK, BoundsOK, HistoryOK, Fates
<1>2. TypeOK /\ [Next]_vars => TypeOK'
  <2> SUFFICES ASSUME TypeOK, [Next]_vars PROVE TypeOK'
    OBVIOUS
  <2>0. setup \in Setups /\ ClusterOK /\ WorkerOK /\ AivenOK /\ BoundsOK /\ HistoryOK
    BY DEF TypeOK
  <2>00. setup' \in Setups
    BY <2>0 DEF Next, vars
  <2> USE <2>0, <2>00
  <2>1. CASE Begin
    <3>1. WorkerOK'
      BY <2>1, OutcomeType DEF Begin, WorkerOK, PCs, ClusterOK
    <3> QED
      BY <2>1, <3>1 DEF Begin, TypeOK, ClusterOK, AivenOK, BoundsOK, HistoryOK, history
  <2>2. CASE ResolveRefs
    <3>1. WorkerOK'
      BY <2>2, OutcomeUpdates, NoObjectType, OutcomeType
         DEF ResolveRefs, Goto, Return, WorkerOK, PCs, Errors, MaybeSpec
    <3>2. BoundsOK'
      BY <2>2, BoundsType DEF ResolveRefs
    <3> QED
      BY <2>2, <3>1, <3>2 DEF ResolveRefs, TypeOK, ClusterOK, AivenOK, HistoryOK, history
  <2>3. CASE EnsureFinalizer
    <3>1. Write([cache EXCEPT !.finalizer = TRUE]) \in Objects
      BY FinalizerType, WriteType DEF ClusterOK, Rewritten
    <3>2. WorkerOK' /\ ClusterOK'
      BY <2>3, <3>1, OutcomeType, NoObjectType
         DEF EnsureFinalizer, Goto, Return, WorkerOK, ClusterOK, PCs, MaybeSpec
    <3> QED
      BY <2>3, <3>2 DEF EnsureFinalizer, TypeOK, AivenOK, BoundsOK, HistoryOK, history
  <2>4. CASE Observe
    <3> DEFINE started == [out EXCEPT !.initialized = TRUE]
    <3>1. /\ started \in Outcomes /\ [started EXCEPT !.err = "Preconditions"] \in Outcomes
          /\ Observed(out) \in Outcomes /\ Completed(Observed(out)) \in Outcomes
          /\ Completed(started) \in Outcomes
      BY OutcomeUpdates DEF WorkerOK, Errors
    <3>2. remote.spec \in MaybeSpec
      BY DEF AivenOK, Remotes
    <3>3. \/ Return(TRUE) \/ Goto("persist", started) \/ Goto("create", started)
          \/ Goto("update", Observed(out)) \/ Present(remote.spec, Observed(out))
          \/ Goto("persist", Completed(Observed(out)))
          \/ Goto("persist", [started EXCEPT !.err = "Preconditions"])
          \/ Goto("persist", Completed(started)) \/ Goto("update", started)
      BY <2>4 DEF Observe, handleObserveError, ObserveFromAnnotations
    <3>4. WorkerOK'
      BY <3>1, <3>2, <3>3, ReturnType, GotoType, PresentType DEF PCs
    <3>5. BoundsOK'
      BY <2>4, BoundsType DEF Observe, handleObserveError, ObserveFromAnnotations
    <3> QED
      BY <2>4, <3>4, <3>5 DEF Observe, TypeOK, ClusterOK, AivenOK, HistoryOK, history
  <2>5. CASE Create
    <3>1. [Interrupted EXCEPT !.err = "CreateOrUpdate"] \in Outcomes
      BY InterruptedType
    <3>2. WorkerOK'
      BY <2>5, <3>1, SucceededType, FailedType, GotoType DEF Create, PCs
    <3>3. BoundsOK'
      BY <2>5, BoundsType DEF Create
    <3>4. \/ UNCHANGED <<remote, history>>
          \/ Applied(IF Kind.runsAtOnce THEN "active" ELSE "building")
      BY <2>5 DEF Create, history
    <3>5. AivenOK' /\ HistoryOK'
      <4>1. CASE UNCHANGED <<remote, history>>
        BY <2>5, <4>1 DEF Create, AivenOK, HistoryOK, history
      <4>2. CASE Applied(IF Kind.runsAtOnce THEN "active" ELSE "building")
        BY <2>5, <4>2, AppliedType DEF Create, Phases
      <4> QED
        BY <3>4, <4>1, <4>2
    <3> QED
      BY <2>5, <3>2, <3>3, <3>5 DEF Create, TypeOK, ClusterOK
  <2>6. CASE Update
    <3>1. /\ [Interrupted EXCEPT !.err = "CreateOrUpdate"] \in Outcomes
          /\ Interrupted \in Outcomes
          /\ Completed(out) \in Outcomes
      BY InterruptedType, OutcomeUpdates DEF WorkerOK
    <3>2. WorkerOK'
      BY <2>6, <3>1, SucceededType, FailedType, GotoType DEF Update, UpdateRemote, PCs
    <3>3. BoundsOK'
      BY <2>6, BoundsType DEF Update, UpdateRemote
    <3>4. UNCHANGED <<remote, history>> \/ Applied(IF InUse THEN remote.phase ELSE "active")
      BY <2>6 DEF Update, UpdateRemote, history
    <3>5. AivenOK' /\ HistoryOK'
      <4>1. CASE UNCHANGED <<remote, history>>
        BY <2>6, <4>1 DEF Update, UpdateRemote, AivenOK, HistoryOK, history
      <4>2. CASE Applied(IF InUse THEN remote.phase ELSE "active")
        BY <2>6, <4>2, AppliedType DEF Update, UpdateRemote, AivenOK, Remotes, Phases
      <4> QED
        BY <3>4, <4>1, <4>2
    <3> QED
      BY <2>6, <3>2, <3>3, <3>5 DEF Update, TypeOK, ClusterOK
  <2>7. CASE Publish
    <3>1. WorkerOK'
      BY <2>7, OutcomeUpdates DEF Publish, Goto, WorkerOK, PCs, Errors
    <3>2. BoundsOK'
      BY <2>7, BoundsType DEF Publish
    <3>3. AivenOK'
      BY <2>7 DEF Publish, AivenOK, Secrets, WorkerOK, Objects
    <3> QED
      BY <2>7, <3>1, <3>2, <3>3 DEF Publish, TypeOK, ClusterOK, HistoryOK, history
  <2>8. CASE Persist
    <3> DEFINE w == [cr EXCEPT !.initialized = out.initialized, !.err = out.err]
    <3>1. w \in Objects /\ Write(w) \in Objects
      BY StatusType, WriteType DEF ClusterOK, WorkerOK, Rewritten
    <3> HIDE DEF w
    <3>2. ClusterOK'
      BY <2>8, <3>1 DEF Persist, ClusterOK, w
    <3>3. WorkerOK'
      BY <2>8, <3>2, NoObjectType, OutcomeType DEF Persist, Return, WorkerOK, ClusterOK, PCs, MaybeSpec
    <3>4. BoundsOK'
      BY <2>8, BoundsType DEF Persist
    <3> QED
      BY <2>8, <3>2, <3>3, <3>4 DEF Persist, TypeOK, AivenOK, HistoryOK, history
  <2>9. CASE Annotate
    <3> DEFINE w == [cr EXCEPT !.processed = out.processed, !.running = out.running]
    <3>1. Write(w) \in Objects
      BY AnnotationsType, WriteType DEF ClusterOK, WorkerOK, Rewritten
    <3> HIDE DEF w
    <3>2. ClusterOK'
      BY <2>9, <3>1 DEF Annotate, ClusterOK, w
    <3>3. WorkerOK'
      BY <2>9, ReturnType DEF Annotate
    <3>4. BoundsOK'
      BY <2>9, BoundsType DEF Annotate
    <3> QED
      BY <2>9, <3>2, <3>3, <3>4 DEF Annotate, TypeOK, AivenOK, HistoryOK, history
  <2>10. CASE DeleteRemote
    <3>1. WorkerOK'
      BY <2>10, ReturnType, GotoType, DeleteFailedType DEF DeleteRemote, PCs, WorkerOK
    <3>2. BoundsOK'
      BY <2>10, BoundsType DEF DeleteRemote
    <3>3. AivenOK'
      <4>1. remote' \in {remote, NoRemote}
        BY <2>10 DEF DeleteRemote
      <4>2. remote' \in Remotes
        BY <4>1 DEF AivenOK, Remotes, NoRemote, Phases, MaybeSpec
      <4> QED
        BY <2>10, <4>2 DEF DeleteRemote, AivenOK
    <3>4. HistoryOK'
      BY <2>10 DEF DeleteRemote, HistoryOK, Fates, history
    <3> QED
      BY <2>10, <3>1, <3>2, <3>3, <3>4 DEF DeleteRemote, TypeOK, ClusterOK
  <2>11. CASE ApplyDeletionPolicy
    <3>1. WorkerOK'
      BY <2>11, OutcomeUpdates DEF ApplyDeletionPolicy, DeleteFailed, Goto, WorkerOK, PCs, Errors
    <3> QED
      BY <2>11, <3>1 DEF ApplyDeletionPolicy, TypeOK, ClusterOK, AivenOK, BoundsOK, HistoryOK, Fates
  <2>12. CASE RemoveFinalizer
    <3>1. Write([cr EXCEPT !.finalizer = FALSE]) \in Objects
      BY FinalizerType, WriteType DEF ClusterOK, Rewritten
    <3>2. ClusterOK'
      BY <2>12, <3>1, NoObjectType DEF RemoveFinalizer, ClusterOK
    <3>3. WorkerOK'
      BY <2>12, ReturnType DEF RemoveFinalizer
    <3>4. BoundsOK'
      BY <2>12, BoundsType DEF RemoveFinalizer
    <3> QED
      BY <2>12, <3>2, <3>3, <3>4 DEF RemoveFinalizer, TypeOK, AivenOK, HistoryOK, history
  <2>13. CASE Crash
    <3>1. WorkerOK' /\ BoundsOK'
      BY <2>13, ReturnType, BoundsType DEF Crash
    <3> QED
      BY <2>13, <3>1 DEF Crash, TypeOK, ClusterOK, AivenOK, HistoryOK, history
  <2>14. CASE SyncCache
    BY <2>14 DEF SyncCache, worker, history, TypeOK, ClusterOK, WorkerOK, AivenOK, BoundsOK, HistoryOK
  <2>15. CASE CollectSecret
    <3>1. AivenOK'
      BY <2>15 DEF CollectSecret, AivenOK, Secrets, NoSecret, MaybeSpec
    <3> QED
      BY <2>15, <3>1 DEF CollectSecret, worker, history, TypeOK, ClusterOK, WorkerOK, BoundsOK, HistoryOK
  <2>16. CASE AivenProgress
    <3>1. AivenOK'
      BY <2>16 DEF AivenProgress, AivenOK, Remotes, NoRemote, Phases, MaybeSpec
    <3> QED
      BY <2>16, <3>1 DEF AivenProgress, worker, history, TypeOK, ClusterOK, WorkerOK, BoundsOK, HistoryOK
  <2>17. CASE Others
    <3>1. ClusterOK'
      <4>1. ASSUME NEW s \in Specs, NEW g \in BOOLEAN, UserCreates(s, g) PROVE ClusterOK'
        BY <4>1, FreshType DEF UserCreates, ClusterOK
      <4>2. ASSUME NEW s \in Specs, UserEditsSpec(s) PROVE ClusterOK'
        BY <4>2, WriteType, SpecType DEF UserEditsSpec, ClusterOK, Rewritten
      <4>3. ASSUME NEW p \in Policies, UserSetsPolicy(p) PROVE ClusterOK'
        BY <4>3, WriteType, PolicyType DEF UserSetsPolicy, ClusterOK, Rewritten
      <4>5. CASE UserGuards
        BY <4>5, WriteType, GuardType DEF UserGuards, ClusterOK, Rewritten
      <4>4. CASE UserDeletes
        BY <4>4, WriteType, DeletionType, NoObjectType DEF UserDeletes, ClusterOK, Rewritten
      <4> QED
        BY <2>17, <4>1, <4>2, <4>3, <4>4, <4>5
           DEF Others, OthersChangeRemote, OthersDeleteRemote, UserChangesToken, UserDeletesSecret, ClusterOK
    <3>2. WorkerOK'
      <4>1. /\ UNCHANGED worker
            /\ queued' \in {queued, TRUE}
        BY <2>17 DEF Others, UserCreates, UserEditsSpec, UserSetsPolicy, UserGuards, UserDeletes, OthersChangeRemote,
             OthersDeleteRemote, UserChangesToken, UserDeletesSecret
      <4> QED
        BY <4>1 DEF worker, WorkerOK
    <3>3. AivenOK'
      <4>1. \/ remote' = remote
            \/ OthersDeleteRemote
            \/ \E s \in Specs : OthersChangeRemote(s)
        BY <2>17 DEF Others, UserCreates, UserEditsSpec, UserSetsPolicy, UserGuards, UserDeletes, UserChangesToken,
             UserDeletesSecret
      <4>2. \/ remote' \in {remote, NoRemote}
            \/ \E s \in Specs : remote' = [remote EXCEPT !.spec = s]
        BY <4>1 DEF OthersChangeRemote, OthersDeleteRemote
      <4>3. secret' = secret \/ UserDeletesSecret
        BY <2>17 DEF Others, UserCreates, UserEditsSpec, UserSetsPolicy, UserGuards, UserDeletes, OthersChangeRemote,
             OthersDeleteRemote, UserChangesToken
      <4>4. token' = token \/ \E t \in Tokens : UserChangesToken(t)
        BY <2>17 DEF Others, UserCreates, UserEditsSpec, UserSetsPolicy, UserGuards, UserDeletes, OthersChangeRemote,
             OthersDeleteRemote, UserDeletesSecret
      <4>5. remote' \in Remotes
        BY <4>2 DEF AivenOK, Remotes, NoRemote, Phases, MaybeSpec
      <4>6. secret' \in Secrets
        BY <4>3 DEF UserDeletesSecret, AivenOK, Secrets, NoSecret, MaybeSpec
      <4> QED
        BY <4>4, <4>5, <4>6 DEF UserChangesToken, AivenOK
    <3>4. BoundsOK'
      <4>1. Edit /\ faults' = faults
        BY <2>17 DEF Others, UserCreates, UserEditsSpec, UserSetsPolicy, UserGuards, UserDeletes, OthersChangeRemote,
             OthersDeleteRemote, UserChangesToken, UserDeletesSecret
      <4> QED
        BY <4>1 DEF BoundsOK, Edit
    <3>5. HistoryOK'
      BY <2>17 DEF Others, UserCreates, UserEditsSpec, UserSetsPolicy, UserGuards, UserDeletes, OthersChangeRemote,
           OthersDeleteRemote, UserChangesToken, UserDeletesSecret, HistoryOK, Fates, history, ClusterOK, Objects
    <3> QED
      BY <3>1, <3>2, <3>3, <3>4, <3>5 DEF TypeOK
  <2>18. CASE UNCHANGED vars
    BY <2>18 DEF vars, TypeOK, ClusterOK, WorkerOK, AivenOK, BoundsOK, HistoryOK
  <2> QED
    BY <2>1, <2>2, <2>3, <2>4, <2>5, <2>6, <2>7, <2>8, <2>9, <2>10, <2>11, <2>12,
       <2>13, <2>14, <2>15, <2>16, <2>17, <2>18 DEF Next, Reconcile
<1> QED
  BY <1>1, <1>2, PTL DEF Spec

----------------------------------------------------------------------------
(* What most steps have in common                                          *)

\* The cluster knows nothing new, or a newer version of the held or unheld
\* object, on which a deletion stays.
ObjectStands ==
    /\ UNCHANGED <<lastUid, cache>>
    /\ \/ cr' = cr
       \/ /\ Exists(cr)
          /\ cr'.uid = cr.uid
          /\ cr'.rv = cr.rv + 1
          /\ cr'.finalizer = cr.finalizer
          /\ cr.deleting => cr'.deleting

CopiesOK == Versions /\ CacheKnowsHeld /\ CacheIsHeld /\ CacheDeleting

LEMMA CopiesStand ==
    ASSUME TypeOK, CopiesOK, ObjectStands
    PROVE  CopiesOK' /\ (Held' <=> Held)
<1>1. cr.rv \in Nat /\ cache.rv \in Nat
  BY DEF TypeOK, ClusterOK, Objects
<1>2. Held' <=> Held
  BY DEF ObjectStands, Held, Exists
<1>3. Versions'
  BY <1>1 DEF ObjectStands, CopiesOK, Versions, Exists
<1>4. CacheKnowsHeld' /\ CacheIsHeld' /\ CacheDeleting'
  BY <1>2 DEF ObjectStands, CopiesOK, CacheKnowsHeld, CacheIsHeld, CacheDeleting, Exists
<1> QED
  BY <1>2, <1>3, <1>4 DEF CopiesOK

\* Nothing happens to the worker or to who answers for the resource.
LEMMA WorkerStands ==
    ASSUME HoldInv, ObjectStands, Held' <=> Held, UNCHANGED <<pc, obj, fate>>, InUse' => InUse
    PROVE  WorkerIsHeld' /\ WorkerFinalizes' /\ WorkerLetsGo' /\ NoLeak'
BY DEF HoldInv, ObjectStands, WorkerIsHeld, WorkerFinalizes, WorkerLetsGo, NoLeak

\* Where the worker holds no obligation, only NoLeak is left to show.
LEMMA WorkerFree ==
    ASSUME pc' \in {"idle", "publish", "persist", "annotate"}
    PROVE  WorkerIsHeld' /\ WorkerFinalizes' /\ WorkerLetsGo'
BY DEF WorkerIsHeld, WorkerFinalizes, WorkerLetsGo

\* A write accepted on the cached copy is a write of the current object.
LEMMA CurrentCache ==
    ASSUME Versions, IsCurrent(cache)
    PROVE  cache = cr /\ Exists(cr)
BY DEF Versions, IsCurrent, Exists

LEMMA HoldInvParts ==
    HoldInv <=> NoLeak /\ CopiesOK /\ WorkerIsHeld /\ WorkerFinalizes /\ WorkerLetsGo
BY DEF HoldInv, CopiesOK

LEMMA PersistStands == ASSUME TypeOK, Persist PROVE ObjectStands
<1> DEFINE w == [cr EXCEPT !.initialized = out.initialized, !.err = out.err]
<1>1. cr \in Objects /\ out \in Outcomes
  BY DEF TypeOK, ClusterOK, WorkerOK
<1>2. Rewritten(w, cr) /\ w.deleting = cr.deleting /\ w.finalizer = cr.finalizer
  BY <1>1, StatusType
<1>3. cr' = cr \/ (Exists(cr) /\ cr' = Write(w))
  BY DEF Persist, IsCurrent, Exists
<1>4. UNCHANGED <<lastUid, cache>>
  BY DEF Persist
<1> HIDE DEF w
<1> QED
  BY <1>2, <1>3, <1>4, WriteType DEF Rewritten, ObjectStands

LEMMA AnnotateStands == ASSUME TypeOK, Annotate PROVE ObjectStands
<1> DEFINE w == [cr EXCEPT !.processed = out.processed, !.running = out.running]
<1>1. cr \in Objects /\ out \in Outcomes
  BY DEF TypeOK, ClusterOK, WorkerOK
<1>2. Rewritten(w, cr) /\ w.deleting = cr.deleting /\ w.finalizer = cr.finalizer
  BY <1>1, AnnotationsType
<1>3. cr' = cr \/ (Exists(cr) /\ cr' = Write(w))
  BY DEF Annotate, IsCurrent, Exists
<1>4. UNCHANGED <<lastUid, cache>>
  BY DEF Annotate
<1> HIDE DEF w
<1> QED
  BY <1>2, <1>3, <1>4, WriteType DEF Rewritten, ObjectStands

\* The edits of users that leave the object where it is.
LEMMA EditStands ==
    ASSUME TypeOK,
           \/ \E s \in Specs : UserEditsSpec(s)
           \/ \E p \in Policies : UserSetsPolicy(p)
           \/ UserGuards
           \/ UserDeletes /\ cr.finalizer
    PROVE  ObjectStands /\ UNCHANGED <<fate, remote>>
<1>0. cr \in Objects
  BY DEF TypeOK, ClusterOK
<1>1. ASSUME NEW s \in Specs, UserEditsSpec(s)
      PROVE  ObjectStands /\ UNCHANGED <<fate, remote>>
  <2> DEFINE w == [cr EXCEPT !.spec = s, !.gen = @ + 1]
  <2>1. Rewritten(w, cr) /\ (cr.deleting => w.deleting) /\ w.finalizer = cr.finalizer
    BY <1>0, <1>1, SpecType
  <2>2. Exists(cr) /\ cr' = Write(w) /\ UNCHANGED <<lastUid, cache, fate, remote>>
    BY <1>1 DEF UserEditsSpec, history
  <2> HIDE DEF w
  <2> QED
    BY <2>1, <2>2, WriteType DEF Rewritten, ObjectStands
<1>2. ASSUME NEW p \in Policies, UserSetsPolicy(p)
      PROVE  ObjectStands /\ UNCHANGED <<fate, remote>>
  <2> DEFINE w == [cr EXCEPT !.policy = p]
  <2>1. Rewritten(w, cr) /\ (cr.deleting => w.deleting) /\ w.finalizer = cr.finalizer
    BY <1>0, <1>2, PolicyType
  <2>2. Exists(cr) /\ cr' = Write(w) /\ UNCHANGED <<lastUid, cache, fate, remote>>
    BY <1>2 DEF UserSetsPolicy
  <2> HIDE DEF w
  <2> QED
    BY <2>1, <2>2, WriteType DEF Rewritten, ObjectStands
<1>3. ASSUME UserDeletes, cr.finalizer
      PROVE  ObjectStands /\ UNCHANGED <<fate, remote>>
  <2> DEFINE w == [cr EXCEPT !.deleting = TRUE, !.gen = @ + 1]
  <2>1. Rewritten(w, cr) /\ (cr.deleting => w.deleting) /\ w.finalizer = cr.finalizer
    BY <1>0, <1>3, DeletionType
  <2>2. Exists(cr) /\ cr' = Write(w) /\ UNCHANGED <<lastUid, cache, fate, remote>>
    BY <1>3 DEF UserDeletes
  <2> HIDE DEF w
  <2> QED
    BY <2>1, <2>2, WriteType DEF Rewritten, ObjectStands
<1>4. ASSUME UserGuards
      PROVE  ObjectStands /\ UNCHANGED <<fate, remote>>
  <2> DEFINE w == [cr EXCEPT !.guarded = ~@, !.gen = @ + 1]
  <2>1. Rewritten(w, cr) /\ (cr.deleting => w.deleting) /\ w.finalizer = cr.finalizer
    BY <1>0, <1>4, GuardType
  <2>2. Exists(cr) /\ cr' = Write(w) /\ UNCHANGED <<lastUid, cache, fate, remote>>
    BY <1>4 DEF UserGuards
  <2> HIDE DEF w
  <2> QED
    BY <2>1, <2>2, WriteType DEF Rewritten, ObjectStands
<1> QED
  BY <1>1, <1>2, <1>3, <1>4

----------------------------------------------------------------------------
(* The invariant                                                           *)

LEMMA HoldInvInit == ASSUME Init PROVE HoldInv
BY DEF Init, HoldInv, NoLeak, Versions, CacheKnowsHeld, CacheIsHeld, CacheDeleting, WorkerIsHeld,
       WorkerFinalizes, WorkerLetsGo, NoObject, Fresh, Exists

LEMMA HoldInvStep == ASSUME TypeOK, HoldInv, [Next]_vars PROVE HoldInv'
<1>1. NoLeak /\ CopiesOK /\ WorkerIsHeld /\ WorkerFinalizes /\ WorkerLetsGo
  BY HoldInvParts
<1> USE <1>1
<1>2. SUFFICES NoLeak' /\ CopiesOK' /\ WorkerIsHeld' /\ WorkerFinalizes' /\ WorkerLetsGo'
  BY DEF HoldInv, CopiesOK
<1>3. CASE Begin
  <2>1. ObjectStands /\ UNCHANGED <<fate, remote>>
    BY <1>3 DEF Begin, ObjectStands, history
  <2>2. CopiesOK' /\ (Held' <=> Held)
    BY <2>1, CopiesStand
  <2>3. NoLeak'
    BY <2>1, <2>2 DEF NoLeak, InUse
  <2>4. WorkerIsHeld'
    BY <1>3, <2>2 DEF Begin, WorkerIsHeld, CopiesOK, CacheIsHeld
  <2>5. WorkerFinalizes'
    BY <1>3 DEF Begin, WorkerFinalizes, CopiesOK, CacheDeleting, CacheKnowsHeld, Versions, Exists,
         TypeOK, ClusterOK, Objects
  <2>6. WorkerLetsGo'
    BY <1>3 DEF Begin, WorkerLetsGo
  <2> QED
    BY <2>2, <2>3, <2>4, <2>5, <2>6
<1>4. CASE ResolveRefs
  <2>1. ObjectStands /\ UNCHANGED <<fate, remote>>
    BY <1>4 DEF ResolveRefs, ObjectStands, history
  <2>2. CopiesOK' /\ (Held' <=> Held)
    BY <2>1, CopiesStand
  <2>3. NoLeak'
    BY <2>1, <2>2 DEF NoLeak, InUse
  <2>4. pc' \in {"idle", "persist"} \/ (pc = "refs" /\ pc' = "finalizer" /\ obj' = obj)
    BY <1>4 DEF ResolveRefs, Return, Goto
  <2>5. WorkerIsHeld' /\ WorkerFinalizes' /\ WorkerLetsGo'
    BY <2>2, <2>4 DEF WorkerIsHeld, WorkerFinalizes, WorkerLetsGo
  <2> QED
    BY <2>2, <2>3, <2>5
<1>5. CASE EnsureFinalizer
  <2>1. CASE obj.finalizer
    <3>1. ObjectStands /\ UNCHANGED <<fate, remote>>
      BY <1>5, <2>1 DEF EnsureFinalizer, ObjectStands, history
    <3>2. CopiesOK' /\ (Held' <=> Held)
      BY <3>1, CopiesStand
    <3>3. Held /\ pc' = "observe"
      BY <1>5, <2>1 DEF EnsureFinalizer, WorkerIsHeld, Goto
    <3> QED
      BY <3>1, <3>2, <3>3 DEF NoLeak, InUse, WorkerIsHeld, WorkerFinalizes, WorkerLetsGo
  <2>2. CASE ~obj.finalizer /\ IsCurrent(cache)
    <3> DEFINE w == [cr EXCEPT !.finalizer = TRUE]
    <3>1. cache = cr /\ Exists(cr)
      BY <2>2, CurrentCache DEF CopiesOK
    <3>2. cr \in Objects /\ cr.rv \in Nat
      BY DEF TypeOK, ClusterOK, Objects
    <3>3. Rewritten(w, cr) /\ w.deleting = cr.deleting /\ w.finalizer
      BY <3>2, FinalizerType
    <3> HIDE DEF w
    <3>4. /\ cr'.uid = cr.uid
          /\ cr' = cr \/ cr'.rv = cr.rv + 1
          /\ cr'.finalizer
          /\ cr'.deleting = cr.deleting
      <4>1. cr' = Write(w) \/ (cr' = cr /\ cr.finalizer)
        BY <1>5, <2>2, <3>1 DEF EnsureFinalizer, w
      <4> QED
        BY <4>1, <3>3, WriteType DEF Rewritten
    <3>5. Held' /\ pc' = "observe" /\ UNCHANGED <<lastUid, cache, fate, remote>>
      BY <1>5, <2>2, <3>1, <3>4 DEF EnsureFinalizer, Held, Exists, history
    <3>6. CopiesOK'
      BY <3>1, <3>2, <3>4, <3>5
         DEF CopiesOK, Versions, CacheKnowsHeld, CacheIsHeld, CacheDeleting, Exists
    <3> QED
      BY <3>5, <3>6 DEF NoLeak, WorkerIsHeld, WorkerFinalizes, WorkerLetsGo
  <2>3. CASE ~obj.finalizer /\ ~IsCurrent(cache)
    <3>1. ObjectStands /\ UNCHANGED <<fate, remote>> /\ pc' = "idle"
      BY <1>5, <2>3 DEF EnsureFinalizer, ObjectStands, history, Return
    <3>2. CopiesOK' /\ (Held' <=> Held)
      BY <3>1, CopiesStand
    <3> QED
      BY <3>1, <3>2, WorkerFree DEF NoLeak, InUse
  <2> QED
    BY <2>1, <2>2, <2>3
<1>6. CASE Observe
  <2>1. ObjectStands /\ UNCHANGED <<fate, remote>>
    BY <1>6 DEF Observe, ObjectStands, history
  <2>2. CopiesOK' /\ (Held' <=> Held)
    BY <2>1, CopiesStand
  <2>3. NoLeak'
    BY <2>1, <2>2 DEF NoLeak, InUse
  <2>4. pc = "observe" /\ pc' \in {"idle", "persist", "create", "update", "publish"}
    BY <1>6 DEF Observe, handleObserveError, ObserveFromAnnotations, Return, Goto, Present
  <2>5. WorkerIsHeld' /\ WorkerFinalizes' /\ WorkerLetsGo'
    BY <2>2, <2>4 DEF WorkerIsHeld, WorkerFinalizes, WorkerLetsGo
  <2> QED
    BY <2>2, <2>3, <2>5
<1>7. CASE Create \/ Update
  <2>1. ObjectStands
    BY <1>7 DEF Create, Update, ObjectStands
  <2>2. CopiesOK' /\ (Held' <=> Held)
    BY <2>1, CopiesStand
  <2>3. Held
    BY <1>7 DEF Create, Update, WorkerIsHeld
  <2>4. pc' \in {"persist", "publish"}
    BY <1>7 DEF Create, Update, UpdateRemote, Succeeded, Failed, Goto, Present
  <2> QED
    BY <2>2, <2>3, <2>4, WorkerFree DEF NoLeak
<1>8. CASE Publish
  <2>1. ObjectStands /\ UNCHANGED <<fate, remote>> /\ pc' = "persist"
    BY <1>8 DEF Publish, ObjectStands, history, Goto
  <2>2. CopiesOK' /\ (Held' <=> Held)
    BY <2>1, CopiesStand
  <2> QED
    BY <2>1, <2>2, WorkerFree DEF NoLeak, InUse
<1>9. CASE Persist
  <2>1. ObjectStands /\ UNCHANGED <<fate, remote>> /\ pc' \in {"idle", "annotate"}
    BY <1>9, PersistStands DEF Persist, Return, history
  <2>2. CopiesOK' /\ (Held' <=> Held)
    BY <2>1, CopiesStand
  <2> QED
    BY <2>1, <2>2, WorkerFree DEF NoLeak, InUse
<1>10. CASE Annotate
  <2>1. ObjectStands /\ UNCHANGED <<fate, remote>> /\ pc' = "idle"
    BY <1>10, AnnotateStands DEF Annotate, Return, history
  <2>2. CopiesOK' /\ (Held' <=> Held)
    BY <2>1, CopiesStand
  <2> QED
    BY <2>1, <2>2, WorkerFree DEF NoLeak, InUse
<1>11. CASE DeleteRemote
  <2>1. ObjectStands
    BY <1>11 DEF DeleteRemote, ObjectStands
  <2>2. CopiesOK' /\ (Held' <=> Held)
    BY <2>1, CopiesStand
  <2>3. ~(fate' = "managed" /\ InUse') \/ UNCHANGED <<fate, remote>>
    BY <1>11 DEF DeleteRemote, history
  <2>4. NoLeak'
    BY <2>2, <2>3 DEF NoLeak, InUse
  <2>5. \/ pc' \in {"idle", "persist"}
        \/ pc' = "unfinalize" /\ obj' = obj /\ ~(fate' = "managed" /\ InUse')
    BY <1>11 DEF DeleteRemote, DeleteFailed, Return, Goto, history, InUse, NoRemote
  <2>6. WorkerIsHeld' /\ WorkerFinalizes' /\ WorkerLetsGo'
    BY <1>11, <2>1, <2>5
       DEF DeleteRemote, ObjectStands, WorkerIsHeld, WorkerFinalizes, WorkerLetsGo
  <2> QED
    BY <2>2, <2>4, <2>6
<1>12. CASE ApplyDeletionPolicy
  <2>1. ObjectStands /\ remote' = remote
    BY <1>12 DEF ApplyDeletionPolicy, ObjectStands
  <2>2. CopiesOK' /\ (Held' <=> Held)
    BY <2>1, CopiesStand
  <2>3. NoLeak'
    BY <1>12, <2>1, <2>2 DEF ApplyDeletionPolicy, NoLeak, InUse
  <2>4. \/ pc' = "persist"
        \/ pc' = "unfinalize" /\ obj' = obj /\ ~(fate' = "managed" /\ InUse')
    BY <1>12 DEF ApplyDeletionPolicy, DeleteFailed, Goto, InUse
  <2>5. WorkerIsHeld' /\ WorkerFinalizes' /\ WorkerLetsGo'
    BY <1>12, <2>1, <2>4
       DEF ApplyDeletionPolicy, ObjectStands, WorkerIsHeld, WorkerFinalizes, WorkerLetsGo
  <2> QED
    BY <2>2, <2>3, <2>5
<1>13. CASE RemoveFinalizer
  <2>1. UNCHANGED <<lastUid, cache, fate, remote>> /\ pc' = "idle"
    BY <1>13 DEF RemoveFinalizer, Return, history
  <2>2. ~(fate = "managed" /\ InUse)
    BY <1>13 DEF RemoveFinalizer, WorkerLetsGo
  <2>3. CASE cr' = cr
    <3>1. ObjectStands
      BY <2>1, <2>3 DEF ObjectStands
    <3> QED
      BY <2>1, <2>2, <3>1, CopiesStand, WorkerFree DEF NoLeak, InUse
  <2>4. CASE cr' # cr
    <3>1. cache = cr /\ Exists(cr) /\ cr.finalizer
      BY <1>13, <2>4, CurrentCache DEF RemoveFinalizer, CopiesOK
    <3>2. cr.deleting
      BY <1>13, <3>1 DEF RemoveFinalizer, WorkerFinalizes
    <3>3. cr' = NoObject
      BY <1>13, <2>4, <3>1, <3>2 DEF RemoveFinalizer, CopiesOK, Versions, IsCurrent
    <3>4. CopiesOK'
      BY <2>1, <3>1, <3>2, <3>3
         DEF CopiesOK, Versions, CacheKnowsHeld, CacheIsHeld, CacheDeleting, Exists, NoObject, Fresh
    <3> QED
      BY <2>1, <2>2, <3>4, WorkerFree DEF NoLeak, InUse
  <2> QED
    BY <2>3, <2>4
<1>14. CASE Crash
  <2>1. ObjectStands /\ UNCHANGED <<fate, remote>> /\ pc' = "idle"
    BY <1>14 DEF Crash, ObjectStands, history, Return
  <2>2. CopiesOK' /\ (Held' <=> Held)
    BY <2>1, CopiesStand
  <2> QED
    BY <2>1, <2>2, WorkerFree DEF NoLeak, InUse
<1>15. CASE SyncCache
  <2>1. cache' = cr /\ UNCHANGED <<cr, lastUid, pc, obj, fate, remote>>
    BY <1>15 DEF SyncCache, worker, history
  <2>2. CopiesOK'
    BY <2>1 DEF CopiesOK, Versions, CacheKnowsHeld, CacheIsHeld, CacheDeleting, Held, Exists,
         TypeOK, ClusterOK, Objects
  <2> QED
    BY <2>1, <2>2 DEF WorkerIsHeld, WorkerFinalizes, WorkerLetsGo, NoLeak, Held, InUse
<1>16. CASE CollectSecret \/ AivenProgress \/ UNCHANGED vars
  <2>1. ObjectStands /\ UNCHANGED <<pc, obj, fate>>
    BY <1>16 DEF CollectSecret, AivenProgress, vars, ObjectStands, worker, history
  <2>2. InUse' => InUse
    BY <1>16 DEF CollectSecret, AivenProgress, vars, InUse, NoRemote
  <2> QED
    BY <2>1, <2>2, CopiesStand, WorkerStands
<1>17. CASE Others
  <2>1. UNCHANGED <<cache, pc, obj>>
    BY <1>17 DEF Others, UserCreates, UserEditsSpec, UserSetsPolicy, UserGuards, UserDeletes, OthersChangeRemote,
         OthersDeleteRemote, UserChangesToken, UserDeletesSecret, worker
  <2>2. ASSUME NEW s \in Specs, NEW g \in BOOLEAN, UserCreates(s, g)
        PROVE  CopiesOK' /\ WorkerIsHeld' /\ WorkerFinalizes' /\ WorkerLetsGo' /\ NoLeak'
    <3>1. /\ lastUid \in Nat /\ lastUid' = lastUid + 1
          /\ ~Exists(cr) /\ ~Held
          /\ cr'.uid = lastUid'
          /\ ~cr'.finalizer /\ ~cr'.deleting
      BY <2>2, FreshType DEF UserCreates, TypeOK, ClusterOK, Held
    <3>2. UNCHANGED <<fate, remote>>
      BY <2>2 DEF UserCreates
    <3>3. CopiesOK'
      BY <2>1, <3>1 DEF CopiesOK, Versions, CacheKnowsHeld, CacheIsHeld, CacheDeleting, Exists,
           TypeOK, ClusterOK, Objects
    <3>4. ~(pc = "observe" \/ pc = "create" \/ pc = "update")
      BY <3>1 DEF WorkerIsHeld
    <3>5. WorkerFinalizes'
      BY <2>1, <3>1 DEF WorkerFinalizes
    <3> QED
      BY <2>1, <3>1, <3>2, <3>3, <3>4, <3>5
         DEF WorkerIsHeld, WorkerLetsGo, NoLeak, InUse
  <2>3. CASE UserDeletes /\ ~cr.finalizer
    <3>1. cr' = NoObject /\ UNCHANGED <<lastUid, fate, remote>> /\ Exists(cr) /\ ~Held /\ ~Held'
      BY <2>3 DEF UserDeletes, Held, NoObject, Fresh, Exists
    <3>2. CopiesOK'
      BY <2>1, <2>3, <3>1 DEF CopiesOK, Versions, CacheKnowsHeld, CacheIsHeld, CacheDeleting, Exists,
           NoObject, Fresh
    <3>3. WorkerFinalizes'
      BY <2>1, <2>3, <3>1 DEF WorkerFinalizes, NoObject, Fresh
    <3> QED
      BY <2>1, <3>1, <3>2, <3>3 DEF WorkerIsHeld, WorkerLetsGo, NoLeak, InUse
  <2>4. ASSUME ObjectStands, fate' = fate \/ fate' = "none", InUse' => InUse
        PROVE  CopiesOK' /\ WorkerIsHeld' /\ WorkerFinalizes' /\ WorkerLetsGo' /\ NoLeak'
    <3>1. CopiesOK' /\ (Held' <=> Held)
      BY <2>4, CopiesStand
    <3> QED
      BY <2>1, <2>4, <3>1
         DEF ObjectStands, WorkerIsHeld, WorkerFinalizes, WorkerLetsGo, NoLeak
  <2>5. ASSUME NEW s \in Specs, OthersChangeRemote(s)
        PROVE  ObjectStands /\ fate' = fate /\ (InUse' => InUse)
    BY <2>5 DEF OthersChangeRemote, ObjectStands
  <2>6. ASSUME OthersDeleteRemote
        PROVE  ObjectStands /\ fate' = "none" /\ (InUse' => InUse)
    BY <2>6 DEF OthersDeleteRemote, ObjectStands
  <2>7. ASSUME UserDeletesSecret \/ \E t \in Tokens : UserChangesToken(t)
        PROVE  ObjectStands /\ UNCHANGED <<fate, remote>>
    BY <2>7 DEF UserDeletesSecret, UserChangesToken, ObjectStands, history
  <2> QED
    BY <1>17, <2>2, <2>3, <2>4, <2>5, <2>6, <2>7, EditStands DEF Others, InUse
<1> QED
  BY <1>3, <1>4, <1>5, <1>6, <1>7, <1>8, <1>9, <1>10, <1>11, <1>12, <1>13, <1>14, <1>15, <1>16, <1>17
     DEF Next, Reconcile

\* Stale as the cache and the worker's copy may be, what they say of the
\* finalizer and of the deletion is never what the operator must not act on.
THEOREM HoldInvCorrect == Spec => [](TypeOK /\ HoldInv)
<1>1. Init => HoldInv
  BY HoldInvInit
<1>2. TypeOK /\ HoldInv /\ [Next]_vars => HoldInv'
  BY HoldInvStep
<1> QED
  BY <1>1, <1>2, TypeCorrect, PTL DEF Spec

\* A resource that this operator made, and that nobody chose to keep, always
\* has an object with the finalizer (controllers/reconciler.go).
THEOREM NeverLeaks == Spec => []NoLeak
<1>1. HoldInv => NoLeak
  BY DEF HoldInv
<1> QED
  BY <1>1, HoldInvCorrect, PTL

----------------------------------------------------------------------------
(* The refinement                                                          *)

LEMMA OwnershipInit == ASSUME Init PROVE Ownership!Init
BY DEF Init, Ownership!Init, Held, InUse, Exists, NoObject, Fresh, NoRemote

\* Outside Create, Update, EnsureFinalizer and the deletion path, the object is
\* held or not as before, and at most the resource goes.
LEMMA OwnershipStep ==
    ASSUME TypeOK, HoldInv, HoldInv', [Next]_vars
    PROVE  [Ownership!Next]_<<Held, InUse, fate>>
<1> USE DEF Ownership!Next
<1>1. NoLeak /\ CopiesOK /\ WorkerIsHeld /\ WorkerFinalizes /\ WorkerLetsGo
  BY HoldInvParts
<1>2. ASSUME ObjectStands, UNCHANGED <<remote, fate>>
      PROVE  UNCHANGED <<Held, InUse, fate>>
  BY <1>2 DEF ObjectStands, Held, Exists, InUse
<1>3. CASE Begin \/ ResolveRefs \/ Observe \/ Publish \/ Crash
  BY <1>2, <1>3 DEF Begin, ResolveRefs, Observe, Publish, Crash, ObjectStands, history
<1>4. CASE Persist \/ Annotate
  <2>1. ObjectStands /\ UNCHANGED <<remote, fate>>
    BY <1>4, PersistStands, AnnotateStands DEF Persist, Annotate, history
  <2> QED
    BY <1>2, <2>1
<1>5. CASE EnsureFinalizer
  <2>1. UNCHANGED <<InUse, fate>>
    BY <1>5 DEF EnsureFinalizer, InUse, history
  <2>2. cr' = cr \/ Held'
    BY <1>5, HoldInvParts DEF EnsureFinalizer, HoldInv, WorkerIsHeld
  <2>3. UNCHANGED Held \/ (~Held /\ Held')
    BY <2>2 DEF Held, Exists
  <2> QED
    BY <2>1, <2>3 DEF Ownership!Hold
<1>6. CASE Create \/ Update
  <2>1. Held /\ UNCHANGED cr
    BY <1>1, <1>6 DEF Create, Update, WorkerIsHeld
  <2>2. UNCHANGED Held
    BY <2>1 DEF Held, Exists
  <2>3. UNCHANGED <<remote, fate>> \/ (InUse' /\ fate' = "managed")
    BY <1>6 DEF Create, Update, UpdateRemote, Applied, InUse, history
  <2> QED
    BY <2>1, <2>2, <2>3 DEF Ownership!Apply, InUse
<1>7. CASE DeleteRemote
  <2>1. UNCHANGED Held
    BY <1>7 DEF DeleteRemote, Held, Exists
  <2>2. \/ UNCHANGED <<remote, fate>>
        \/ InUse /\ ~InUse' /\ fate' = "none"
        \/ UNCHANGED remote /\ InUse /\ fate' = "abandoned"
    <3>1. remote \in Remotes
      BY DEF TypeOK, AivenOK
    <3>2. \/ UNCHANGED <<remote, fate>>
          \/ InUse /\ remote' = NoRemote /\ fate' = "none"
          \/ UNCHANGED remote /\ InUse /\ fate' = "abandoned"
      BY <1>7 DEF DeleteRemote, history
    <3> QED
      BY <3>1, <3>2 DEF InUse, NoRemote, Remotes
  <2> QED
    BY <2>1, <2>2 DEF Ownership!Remove, Ownership!Keep, Ownership!Kept, InUse
<1>8. CASE ApplyDeletionPolicy
  <2>1. UNCHANGED <<Held, InUse>>
    BY <1>8 DEF ApplyDeletionPolicy, Held, Exists, InUse
  <2>2. fate' = fate \/ (InUse /\ fate' = "orphaned")
    BY <1>8 DEF ApplyDeletionPolicy
  <2> QED
    BY <2>1, <2>2 DEF Ownership!Keep, Ownership!Kept
<1>9. CASE RemoveFinalizer
  <2>1. UNCHANGED <<InUse, fate>> /\ ~(InUse /\ fate = "managed")
    BY <1>1, <1>9 DEF RemoveFinalizer, InUse, history, WorkerLetsGo
  <2>2. cr' = cr \/ ~Held'
    <3> DEFINE w == [cr EXCEPT !.finalizer = FALSE]
    <3>1. Rewritten(w, cr) /\ ~w.finalizer
      BY FinalizerType DEF TypeOK, ClusterOK
    <3>2. cr' \in {cr, NoObject, Write(w)}
      BY <1>9 DEF RemoveFinalizer
    <3> HIDE DEF w
    <3> QED
      BY <3>1, <3>2, WriteType DEF Rewritten, Held, NoObject, Fresh, Exists
  <2>3. UNCHANGED Held \/ (Held /\ ~Held')
    BY <2>2 DEF Held, Exists
  <2> QED
    BY <2>1, <2>3 DEF Ownership!LetGo
<1>10. CASE SyncCache \/ CollectSecret \/ UNCHANGED vars
  BY <1>10 DEF SyncCache, CollectSecret, vars, Held, Exists, InUse, history
<1>11. CASE AivenProgress
  <2>1. UNCHANGED InUse
    BY <1>11 DEF AivenProgress, InUse, NoRemote, TypeOK, AivenOK, Remotes
  <2> QED
    BY <1>11, <2>1 DEF AivenProgress, Held, Exists, history
<1>12. CASE Others
  <2>1. CASE \/ \E s \in Specs : UserEditsSpec(s)
             \/ \E p \in Policies : UserSetsPolicy(p)
             \/ UserGuards
             \/ UserDeletes /\ cr.finalizer
    BY <1>2, <2>1, EditStands
  <2>2. ASSUME NEW s \in Specs, NEW g \in BOOLEAN, UserCreates(s, g) PROVE UNCHANGED <<Held, InUse, fate>>
    BY <2>2, FreshType DEF UserCreates, Held, InUse, TypeOK, ClusterOK
  <2>3. CASE UserDeletes /\ ~cr.finalizer
    BY <2>3 DEF UserDeletes, Held, InUse, NoObject, Fresh, Exists
  <2>4. ASSUME NEW s \in Specs, OthersChangeRemote(s) PROVE UNCHANGED <<Held, InUse, fate>>
    BY <2>4 DEF OthersChangeRemote, Held, InUse, Exists, TypeOK, AivenOK, Remotes
  <2>5. CASE OthersDeleteRemote
    BY <2>5 DEF OthersDeleteRemote, Ownership!Remove, Held, InUse, Exists, NoRemote
  <2>6. CASE UserDeletesSecret \/ \E t \in Tokens : UserChangesToken(t)
    BY <2>6 DEF UserDeletesSecret, UserChangesToken, Held, InUse, Exists, history
  <2> QED
    BY <1>12, <2>1, <2>2, <2>3, <2>4, <2>5, <2>6 DEF Others
<1> QED
  BY <1>3, <1>4, <1>5, <1>6, <1>7, <1>8, <1>9, <1>10, <1>11, <1>12 DEF Next, Reconcile

\* The reconciler implements RemoteOwnership, whatever copies it acts on:
\* it applies only to held objects, and lets go only what is gone or kept.
THEOREM ImplementsOwnership == Spec => HoldsWhatItMakes
<1>1. Init => Ownership!Init
  BY OwnershipInit
<1>2. TypeOK /\ HoldInv /\ HoldInv' /\ [Next]_vars => [Ownership!Next]_<<Held, InUse, fate>>
  BY OwnershipStep
<1> QED
  BY <1>1, <1>2, HoldInvCorrect, PTL DEF Spec, HoldsWhatItMakes, Ownership!Spec

(***************************************************************************)
(* Why a ready object has its spec at Aiven (ReadyIsApplied), and why what *)
(* a deletion policy or termination protection keeps stays                 *)
(* (ProtectedIsKept): ReadyInv and ProtectInv say what copies still tell,  *)
(* and what the worker has seen when it writes.                            *)
(***************************************************************************)

----------------------------------------------------------------------------
(* What writes leave of an object                                          *)

\* w is the next version of o, of the same generation and as far processed.
Rewrites(w, o) ==
    /\ w.uid = o.uid /\ w.rv = o.rv + 1
    /\ w.gen = o.gen /\ w.spec = o.spec /\ w.processed = o.processed
    /\ w.deleting = o.deleting
    /\ o.finalizer => w.finalizer

\* w is the next version of o and a new generation.
Bumps(w, o) ==
    /\ w.uid = o.uid /\ w.rv = o.rv + 1
    /\ w.gen = o.gen + 1 /\ w.processed = o.processed
    /\ w.spec \in Specs
    /\ Kind.immutable => w.spec = o.spec
    /\ o.deleting => w.deleting
    /\ w.finalizer = o.finalizer

\* What has become of the object after most steps.
Develops == cr' = cr \/ (Exists(cr) /\ (Rewrites(cr', cr) \/ Bumps(cr', cr)))

LEMMA FinalizerRewrites ==
    ASSUME NEW o \in Objects
    PROVE  Rewrites(Write([o EXCEPT !.finalizer = TRUE]), o)
BY DEF Write, Rewrites, Objects

LEMMA StatusRewrites ==
    ASSUME NEW o \in Objects, NEW c \in Outcomes
    PROVE  Rewrites(Write([o EXCEPT !.initialized = c.initialized, !.err = c.err]), o)
BY DEF Write, Rewrites, Objects, Outcomes

LEMMA PolicyRewrites ==
    ASSUME NEW o \in Objects, NEW p \in Policies
    PROVE  Rewrites(Write([o EXCEPT !.policy = p]), o)
BY DEF Write, Rewrites, Objects

LEMMA SpecBumps ==
    ASSUME NEW o \in Objects, NEW s \in Specs, ~Kind.immutable
    PROVE  Bumps(Write([o EXCEPT !.spec = s, !.gen = @ + 1]), o)
BY DEF Write, Bumps, Objects

LEMMA GuardBumps ==
    ASSUME NEW o \in Objects, o.spec \in Specs
    PROVE  Bumps(Write([o EXCEPT !.guarded = ~@, !.gen = @ + 1]), o)
BY DEF Write, Bumps, Objects

LEMMA DeletionBumps ==
    ASSUME NEW o \in Objects, o.spec \in Specs
    PROVE  Bumps(Write([o EXCEPT !.deleting = TRUE, !.gen = @ + 1]), o)
BY DEF Write, Bumps, Objects

LEMMA AnnotationsWrite ==
    ASSUME NEW o \in Objects, NEW c \in Outcomes
    PROVE  LET w == Write([o EXCEPT !.processed = c.processed, !.running = c.running])
           IN  /\ w.uid = o.uid /\ w.rv = o.rv + 1
               /\ w.gen = o.gen /\ w.spec = o.spec /\ w.processed = c.processed
               /\ w.deleting = o.deleting /\ w.finalizer = o.finalizer
BY DEF Write, Objects, Outcomes

----------------------------------------------------------------------------
(* What most steps have in common                                          *)

LEMMA CopyStands ==
    ASSUME TypeOK, NEW o \in Objects, EarlierCopy(o), Plausible(cr), Develops, UNCHANGED setup
    PROVE  EarlierCopy(o)' /\ Plausible(cr')
<1>1. /\ cr.rv \in Nat /\ cr.gen \in Nat /\ cr.processed \in Nat
      /\ o.rv \in Nat /\ o.gen \in Nat /\ o.processed \in Nat
  BY DEF TypeOK, ClusterOK, Objects
<1>2. CASE cr' = cr
  BY <1>2 DEF EarlierCopy, Exists, Kind
<1>3. CASE Exists(cr) /\ Rewrites(cr', cr)
  BY <1>1, <1>3 DEF EarlierCopy, Plausible, Exists, Rewrites, Kind
<1>4. CASE Exists(cr) /\ Bumps(cr', cr)
  BY <1>1, <1>4 DEF EarlierCopy, Plausible, Exists, Bumps, Kind
<1> QED
  BY <1>2, <1>3, <1>4 DEF Develops

LEMMA CopiesAgeStands ==
    ASSUME TypeOK, CopiesAge, Develops, UNCHANGED <<cache, setup>>
    PROVE  CopiesAge'
<1>1. cache \in Objects
  BY DEF TypeOK, ClusterOK
<1>2. \A o \in Objects : EarlierCopy(o) => EarlierCopy(o)' /\ Plausible(cr')
  BY CopyStands DEF CopiesAge
<1>3. EarlierCopy(cache)' /\ Plausible(cr')
  BY <1>1, <1>2 DEF CopiesAge, EarlierCopy
<1> QED
  BY <1>3 DEF CopiesAge, Plausible, Exists

LEMMA WorkerCopyStands ==
    ASSUME TypeOK, Plausible(cr), WorkerCopy, Develops, UNCHANGED <<cache, lastUid, setup, obj>>,
           pc' # "idle" => /\ pc # "idle"
                           /\ out'.processed \in {out.processed, obj.gen}
                           /\ ~obj.finalizer => out'.processed = out.processed
    PROVE  WorkerCopy'
<1> SUFFICES ASSUME pc' # "idle" PROVE WorkerCopy'
  BY DEF WorkerCopy
<1>1. obj \in Objects
  BY DEF TypeOK, WorkerOK
<1>2. EarlierCopy(obj)'
  <2>1. \A o \in Objects : EarlierCopy(o) => EarlierCopy(o)'
    BY CopyStands
  <2> QED
    BY <1>1, <2>1 DEF WorkerCopy, EarlierCopy
<1> QED
  BY <1>2 DEF WorkerCopy, Plausible, Exists

\* What is said of the object in the API server.
ServerKnows == ProcessedIsApplied /\ MadeAsSpecified /\ AbsentIsBlank

LEMMA ServerStands ==
    ASSUME TypeOK, Plausible(cr), ServerKnows, Develops, UNCHANGED <<remote, fate, drifted, setup>>
    PROVE  ServerKnows'
<1>1. cr.gen \in Nat /\ cr.processed \in Nat
  BY DEF TypeOK, ClusterOK, Objects
<1>2. CASE cr' = cr
  BY <1>2 DEF ServerKnows, ProcessedIsApplied, MadeAsSpecified, AbsentIsBlank, HasSpec, Inherited, InUse,
       Kind, Exists, hasLatestGeneration
<1>3. CASE Exists(cr) /\ Rewrites(cr', cr)
  BY <1>3 DEF ServerKnows, ProcessedIsApplied, MadeAsSpecified, AbsentIsBlank, HasSpec, Inherited, InUse,
       Kind, Exists, hasLatestGeneration, Rewrites
<1>4. CASE Exists(cr) /\ Bumps(cr', cr)
  <2>1. ~hasLatestGeneration(cr')
    BY <1>1, <1>4 DEF Bumps, hasLatestGeneration, Plausible
  <2> QED
    BY <1>4, <2>1 DEF ServerKnows, ProcessedIsApplied, MadeAsSpecified, AbsentIsBlank, InUse, Kind, Bumps,
         hasLatestGeneration
<1> QED
  BY <1>2, <1>3, <1>4 DEF Develops

LEMMA ReadyInvParts ==
    ReadyInv <=> CopiesAge /\ WorkerCopy /\ WorkerOwns /\ ServerKnows /\ WorkerProcesses /\ UpdateFindsIt
BY DEF ReadyInv, ServerKnows

\* Somebody else writes the object.
LEMMA WorkerUntouched ==
    ASSUME TypeOK, ReadyInv, Develops,
           UNCHANGED <<cache, lastUid, setup, pc, obj, out, remote, fate, drifted>>
    PROVE  ReadyInv'
<1>1. CopiesAge /\ WorkerCopy /\ WorkerOwns /\ ServerKnows /\ WorkerProcesses /\ UpdateFindsIt
  BY ReadyInvParts
<1>2. CopiesAge' /\ WorkerCopy' /\ ServerKnows'
  BY <1>1, CopiesAgeStands, WorkerCopyStands, ServerStands DEF CopiesAge
<1>3. cr'.uid = cr.uid
  BY DEF Develops, Rewrites, Bumps
<1>4. WorkerOwns' /\ UpdateFindsIt'
  BY <1>1, <1>3 DEF WorkerOwns, UpdateFindsIt, InUse, Kind
<1>5. WorkerProcesses'
  <2> SUFFICES ASSUME pc # "idle", obj.uid = cr'.uid, obj.gen = cr'.gen, ~cr'.deleting, ~drifted,
                      pc = "publish" \/ out.processed = obj.gen
               PROVE  HasSpec'
    BY DEF WorkerProcesses
  <2>1. Exists(cr) /\ EarlierCopy(obj)
    BY <1>1, <1>3 DEF WorkerCopy, Exists
  <2>2. cr.gen \in Nat /\ obj.gen \in Nat
    BY DEF TypeOK, ClusterOK, WorkerOK, Objects
  <2>3. ~Bumps(cr', cr)
    BY <1>3, <2>1, <2>2 DEF Bumps, EarlierCopy
  <2>4. cr' = cr \/ Rewrites(cr', cr)
    BY <2>3 DEF Develops
  <2>5. HasSpec
    BY <1>1, <2>4 DEF WorkerProcesses, Rewrites
  <2> QED
    BY <2>4, <2>5 DEF HasSpec, InUse, Inherited, Kind, Rewrites
<1> QED
  BY <1>2, <1>4, <1>5 DEF ReadyInv, ServerKnows

\* The worker goes on, with nothing written anywhere.
Proceeds ==
    /\ pc' = "idle" \/ (pc # "idle" /\ obj' = obj)
    /\ UNCHANGED <<cr, cache, lastUid, setup, remote, fate, drifted>>

\* The spec of the copy, if it is the latest, is applied.
Confirmed ==
    obj.uid = cr.uid /\ obj.gen = cr.gen /\ ~cr.deleting /\ ~drifted => HasSpec

LEMMA WorkerProceeds ==
    ASSUME TypeOK, ReadyInv, Proceeds,
           pc' # "idle" =>
               /\ \/ pc' # "publish" /\ out'.processed = out.processed
                  \/ /\ obj.finalizer
                     /\ Confirmed
                     /\ out'.processed \in {out.processed, obj.gen}
               /\ pc' = "update" => UpdateFindsIt'
               /\ pc' \in {"observe", "create", "update"} => obj.uid = cr.uid /\ obj.finalizer
               /\ pc' = "refs" => pc = "refs"
               /\ pc' = "finalizer" => pc = "refs"
    PROVE  ReadyInv'
<1>1. CopiesAge /\ WorkerCopy /\ WorkerOwns /\ ServerKnows /\ WorkerProcesses /\ UpdateFindsIt
  BY ReadyInvParts
<1>2. Develops /\ (pc' # "idle" => obj' = obj /\ pc # "idle")
  BY DEF Proceeds, Develops
<1>3. CopiesAge' /\ ServerKnows'
  BY <1>1, <1>2, CopiesAgeStands, ServerStands DEF CopiesAge, Proceeds
<1>4. CASE pc' = "idle"
  BY <1>3, <1>4 DEF ReadyInv, ServerKnows, WorkerCopy, WorkerOwns, WorkerProcesses, UpdateFindsIt
<1>5. CASE pc' # "idle"
  <2>1. WorkerCopy'
    BY <1>1, <1>2, <1>5, WorkerCopyStands DEF CopiesAge, Proceeds
  <2>2. WorkerOwns'
    BY <1>1, <1>2, <1>5 DEF WorkerOwns, Proceeds
  <2>3. HasSpec => HasSpec'
    BY DEF HasSpec, InUse, Inherited, Kind, Proceeds
  <2>4. WorkerProcesses'
    <3>1. CASE pc' # "publish" /\ out'.processed = out.processed
      BY <1>1, <1>2, <1>5, <2>3, <3>1 DEF WorkerProcesses, Proceeds
    <3>2. CASE Confirmed
      BY <1>2, <1>5, <2>3, <3>2 DEF WorkerProcesses, Confirmed, Proceeds
    <3> QED
      BY <1>5, <3>1, <3>2
  <2>5. UpdateFindsIt'
    BY <1>5 DEF UpdateFindsIt
  <2> QED
    BY <1>3, <2>1, <2>2, <2>4, <2>5 DEF ReadyInv, ServerKnows
<1> QED
  BY <1>4, <1>5

\* The remote resource has become that of the worker's copy.
LEMMA AppliedStands ==
    ASSUME TypeOK, ReadyInv, pc \in {"create", "update"}, NEW ph \in {"building", "active"},
           Applied(ph), pc' \in {"publish", "persist"}, out'.processed \in {out.processed, obj.gen},
           UNCHANGED <<cr, cache, lastUid, setup, obj>>
    PROVE  ReadyInv'
<1>1. CopiesAge /\ WorkerCopy /\ WorkerOwns /\ ServerKnows /\ WorkerProcesses /\ UpdateFindsIt
  BY ReadyInvParts
<1>2. /\ obj.uid = cr.uid /\ obj.finalizer
      /\ EarlierCopy(obj) /\ Exists(cr) /\ Plausible(cr) /\ Plausible(obj)
  BY <1>1 DEF WorkerOwns, WorkerCopy, CopiesAge, Exists
<1>3. /\ cr.gen \in Nat /\ cr.processed \in Nat /\ obj.gen \in Nat
  BY DEF TypeOK, ClusterOK, WorkerOK, Objects
<1>4. remote'.spec = obj.spec /\ InUse' /\ fate' = "managed" /\ remote'.phase # "absent"
  BY DEF Applied, InUse
<1>5. CopiesAge' /\ WorkerCopy'
  BY <1>1, <1>2, CopiesAgeStands, WorkerCopyStands DEF Develops
<1>6. WorkerOwns' /\ UpdateFindsIt'
  BY <1>2 DEF WorkerOwns, UpdateFindsIt
<1>7. obj.gen = cr.gen \/ Kind.immutable => HasSpec'
  BY <1>2, <1>4 DEF EarlierCopy, HasSpec
<1>8. WorkerProcesses'
  BY <1>7 DEF WorkerProcesses
<1>9. hasLatestGeneration(cr) => obj.gen = cr.gen
  BY <1>2, <1>3 DEF hasLatestGeneration, EarlierCopy
<1>10. ServerKnows'
  <2>1. ProcessedIsApplied'
    BY <1>7, <1>9 DEF ProcessedIsApplied, hasLatestGeneration
  <2>2. MadeAsSpecified'
    BY <1>4, <1>7 DEF MadeAsSpecified, HasSpec, Inherited, Kind
  <2>3. AbsentIsBlank'
    BY <1>4 DEF AbsentIsBlank
  <2> QED
    BY <2>1, <2>2, <2>3 DEF ServerKnows
<1> QED
  BY <1>5, <1>6, <1>8, <1>10 DEF ReadyInv, ServerKnows

----------------------------------------------------------------------------
(* The steps of the worker                                                 *)

LEMMA ReadyBegin == ASSUME TypeOK, HoldInv, ReadyInv, Begin, UNCHANGED setup PROVE ReadyInv'
<1>1. CopiesAge /\ ServerKnows
  BY ReadyInvParts
<1>2. UNCHANGED <<cr, cache, lastUid, remote, fate, drifted>> /\ pc = "idle"
  BY DEF Begin, history
<1>3. CASE UNCHANGED <<pc, obj, out>>
  BY <1>2, <1>3, WorkerUntouched DEF Develops
<1>4. CASE /\ Exists(cache)
           /\ cache.deleting => cache.finalizer
           /\ pc' = IF cache.deleting THEN "finalize" ELSE "refs"
           /\ obj' = cache
           /\ out' = OutcomeOf(cache)
  <2>1. CopiesAge' /\ ServerKnows'
    BY <1>1, <1>2, CopiesAgeStands, ServerStands DEF Develops, CopiesAge
  <2>2. out'.processed = cache.processed
    BY <1>4 DEF OutcomeOf
  <2>3. cache.uid \in 1 .. lastUid /\ cache.gen \in Nat
    BY <1>4 DEF HoldInv, Versions, Exists, TypeOK, ClusterOK, Objects
  <2>4. WorkerCopy'
    BY <1>2, <1>4, <2>1, <2>2, <2>3 DEF WorkerCopy, CopiesAge, Plausible
  <2>5. WorkerOwns'
    BY <1>2, <1>4 DEF WorkerOwns, HoldInv, CacheIsHeld, CacheKnowsHeld, Held
  <2>6. WorkerProcesses'
    <3> SUFFICES ASSUME cache.uid = cr.uid, cache.gen = cr.gen, ~cr.deleting, ~drifted,
                        cache.processed = cache.gen
                 PROVE  HasSpec'
      BY <1>2, <1>4, <2>2 DEF WorkerProcesses
    <3>1. Exists(cr) /\ cr.processed \in Nat /\ cr.gen \in Nat
      BY <1>4 DEF Exists, TypeOK, ClusterOK, Objects
    <3>2. hasLatestGeneration(cr)
      BY <1>1, <3>1 DEF CopiesAge, EarlierCopy, Plausible, hasLatestGeneration
    <3> QED
      BY <1>2, <2>1, <3>1, <3>2 DEF ServerKnows, ProcessedIsApplied
  <2>7. UpdateFindsIt'
    BY <1>4 DEF UpdateFindsIt
  <2> QED
    BY <2>1, <2>4, <2>5, <2>6, <2>7 DEF ReadyInv, ServerKnows
<1> QED
  BY <1>3, <1>4 DEF Begin

LEMMA ReadyResolveRefs ==
    ASSUME TypeOK, ReadyInv, ResolveRefs, UNCHANGED setup PROVE ReadyInv'
<1>1. Proceeds /\ pc = "refs"
  BY DEF ResolveRefs, Proceeds, Return, Goto, history
<1>2. pc' # "idle" => pc' \in {"finalizer", "persist"} /\ out'.processed = out.processed
  BY DEF ResolveRefs, Return, Goto, TypeOK, WorkerOK, Outcomes
<1> QED
  BY <1>1, <1>2, WorkerProceeds

LEMMA ReadyEnsureFinalizer ==
    ASSUME TypeOK, HoldInv, ReadyInv, EnsureFinalizer, UNCHANGED setup PROVE ReadyInv'
<1>1. CopiesAge /\ WorkerCopy /\ WorkerOwns /\ ServerKnows /\ WorkerProcesses /\ UpdateFindsIt
  BY ReadyInvParts
<1>2. pc = "finalizer" /\ UNCHANGED <<cache, lastUid, remote, fate, drifted>>
  BY DEF EnsureFinalizer, history
<1>3. CASE obj.finalizer
  <2>1. Goto("observe", out) /\ cr' = cr
    BY <1>3 DEF EnsureFinalizer
  <2>2. Proceeds /\ pc' = "observe" /\ out' = out /\ obj.uid = cr.uid
    BY <1>1, <1>2, <1>3, <2>1 DEF Goto, Proceeds, WorkerOwns
  <2> QED
    BY <1>3, <2>2, WorkerProceeds
<1>4. CASE ~obj.finalizer /\ ~IsCurrent(cache)
  <2>1. Return(TRUE) /\ cr' = cr
    BY <1>4 DEF EnsureFinalizer
  <2>2. Proceeds /\ pc' = "idle"
    BY <1>2, <2>1 DEF Return, Proceeds
  <2> QED
    BY <2>2, WorkerProceeds
<1>5. CASE ~obj.finalizer /\ IsCurrent(cache)
  <2>1. cache = cr /\ Exists(cr)
    BY <1>5, CurrentCache DEF HoldInv
  <2>2. /\ cr' = IF cr.finalizer THEN cr ELSE Write([cr EXCEPT !.finalizer = TRUE])
        /\ obj' = cr' /\ out' = OutcomeOf(cr') /\ pc' = "observe"
    BY <1>5, <2>1 DEF EnsureFinalizer
  <2>3. cr \in Objects /\ cr.processed \in Nat /\ cr.gen \in Nat /\ cr.rv \in Nat
    BY DEF TypeOK, ClusterOK, Objects
  <2>4. cr' = cr \/ Rewrites(cr', cr)
    BY <2>2, <2>3, FinalizerRewrites
  <2>5. Develops /\ cr'.uid = cr.uid /\ cr'.gen = cr.gen /\ cr'.processed = cr.processed
        /\ cr'.spec = cr.spec /\ cr'.deleting = cr.deleting /\ cr'.finalizer
    BY <2>1, <2>2, <2>3, <2>4, FinalizerType, WriteType DEF Develops, Rewrites, Rewritten
  <2>6. CopiesAge' /\ ServerKnows'
    BY <1>1, <1>2, <2>5, CopiesAgeStands, ServerStands DEF CopiesAge
  <2>7. cr.uid \in 1 .. lastUid
    BY <2>1 DEF HoldInv, Versions, Exists, TypeOK, ClusterOK, Objects
  <2>8. EarlierCopy(obj)'
    BY <2>2, <2>3, <2>4, <2>5, <2>6 DEF EarlierCopy, CopiesAge, Plausible, Rewrites, Exists
  <2>9. out'.processed = cr'.processed
    BY <2>2 DEF OutcomeOf
  <2>10. WorkerCopy'
    BY <1>2, <2>1, <2>2, <2>3, <2>5, <2>6, <2>7, <2>8, <2>9 DEF WorkerCopy, CopiesAge
  <2>11. WorkerOwns' /\ UpdateFindsIt'
    BY <2>2, <2>5 DEF WorkerOwns, UpdateFindsIt
  <2>12. WorkerProcesses'
    BY <1>2, <2>1, <2>2, <2>5, <2>6, <2>9
       DEF WorkerProcesses, ServerKnows, ProcessedIsApplied, hasLatestGeneration, Exists
  <2> QED
    BY <2>6, <2>10, <2>11, <2>12 DEF ReadyInv, ServerKnows
<1> QED
  BY <1>3, <1>4, <1>5

\* A copy whose generation is processed says what ProcessedIsApplied says.
LEMMA LatestIsConfirmed ==
    ASSUME TypeOK, ReadyInv, pc # "idle", hasLatestGeneration(obj)
    PROVE  Confirmed
<1> SUFFICES ASSUME obj.uid = cr.uid, obj.gen = cr.gen, ~cr.deleting, ~drifted PROVE HasSpec
  BY DEF Confirmed
<1>1. Exists(cr) /\ EarlierCopy(obj) /\ Plausible(cr)
  BY DEF ReadyInv, WorkerCopy, CopiesAge, Exists
<1>2. cr.gen \in Nat /\ cr.processed \in Nat
  BY DEF TypeOK, ClusterOK, Objects
<1>3. hasLatestGeneration(cr)
  BY <1>1, <1>2 DEF EarlierCopy, Plausible, hasLatestGeneration
<1> QED
  BY <1>1, <1>3 DEF ReadyInv, ProcessedIsApplied

LEMMA UpToDateIsConfirmed ==
    ASSUME TypeOK, ReadyInv, pc = "observe", Found, UpToDate
    PROVE  Confirmed
<1>1. CASE ~Kind.standing
  BY <1>1, LatestIsConfirmed DEF UpToDate
<1>2. CASE Kind.standing
  <2>1. remote.spec = obj.spec
    BY <1>2, KindType DEF UpToDate, TypeOK, Kinds
  <2>2. obj.spec \in Specs /\ EarlierCopy(obj) /\ obj.uid # 0
    BY DEF ReadyInv, WorkerCopy, Plausible, Exists
  <2>3. InUse
    BY <2>1, <2>2, SpecsAssumption DEF Found, ReadyInv, AbsentIsBlank
  <2> QED
    BY <2>1, <2>2, <2>3 DEF Confirmed, HasSpec, EarlierCopy, Exists
<1> QED
  BY <1>1, <1>2

LEMMA ProcessedUpdates ==
    ASSUME TypeOK, NEW o \in Outcomes
    PROVE  /\ [o EXCEPT !.err = "Preconditions"].processed = o.processed
           /\ [o EXCEPT !.err = "ConnInfoSecret"].processed = o.processed
           /\ [o EXCEPT !.err = "Delete"].processed = o.processed
           /\ [o EXCEPT !.running = Kind.runsAtOnce].processed = o.processed
           /\ [o EXCEPT !.initialized = TRUE].processed = o.processed
           /\ Completed(o).processed = obj.gen
           /\ Observed(o).processed = o.processed
BY DEF Outcomes, Completed, Observed

LEMMA ReadyObserve ==
    ASSUME TypeOK, ReadyInv, Observe, UNCHANGED setup PROVE ReadyInv'
<1> DEFINE started == [out EXCEPT !.initialized = TRUE]
<1>1. out \in Outcomes /\ started \in Outcomes /\ Observed(out) \in Outcomes
  BY OutcomeUpdates DEF TypeOK, WorkerOK
<1>2. pc = "observe" /\ obj.uid = cr.uid /\ obj.finalizer
  BY DEF Observe, ReadyInv, WorkerOwns
<1>3. /\ Proceeds
      /\ pc' \in {"idle", "persist", "create", "update", "publish"}
  BY <1>2 DEF Observe, handleObserveError, ObserveFromAnnotations, Proceeds, Return, Goto, Present, history
<1>4. Kind \in Kinds
  BY KindType DEF TypeOK
<1>5. CASE Return(TRUE)
  BY <1>3, <1>5, WorkerProceeds DEF Return
<1>6. CASE Goto("create", started)
  BY <1>1, <1>2, <1>3, <1>6, ProcessedUpdates, WorkerProceeds DEF Goto
<1>7. CASE handleObserveError(started)
  <2>1. pc' = "persist" /\ out' \in {started, [started EXCEPT !.err = "Preconditions"]}
    BY <1>7 DEF handleObserveError, Goto
  <2>2. out'.processed = out.processed
    BY <1>1, <2>1, ProcessedUpdates
  <2> QED
    BY <1>3, <2>1, <2>2, WorkerProceeds
<1>8. CASE ObserveFromAnnotations(started)
  <2>1. ~Kind.immutable
    BY <1>4, <1>8 DEF ObserveFromAnnotations, Kinds
  <2>2. CASE Goto("update", started)
    <3>1. UpdateFindsIt'
      BY <1>3, <2>1 DEF UpdateFindsIt, Kind, Proceeds
    <3> QED
      BY <1>1, <1>2, <1>3, <2>2, <3>1, ProcessedUpdates, WorkerProceeds DEF Goto
  <2>3. CASE hasLatestGeneration(obj) /\ Goto("persist", Completed(started))
    BY <1>1, <1>2, <1>3, <2>3, LatestIsConfirmed, ProcessedUpdates, WorkerProceeds DEF Goto
  <2> QED
    BY <1>6, <1>8, <2>2, <2>3 DEF ObserveFromAnnotations
<1>9. CASE Found /\ Goto("update", Observed(out))
  <2>1. UpdateFindsIt'
    BY <1>3, <1>4, <1>9 DEF UpdateFindsIt, Found, InUse, Kind, Kinds, Proceeds
  <2> QED
    BY <1>1, <1>2, <1>3, <1>9, <2>1, ProcessedUpdates, WorkerProceeds DEF Goto
<1>10. CASE /\ Found /\ UpToDate
            /\ \/ Present(remote.spec, Observed(out))
               \/ Goto("persist", Completed(Observed(out)))
  <2>1. Confirmed
    BY <1>2, <1>10, UpToDateIsConfirmed
  <2>2. pc' \in {"publish", "persist"} /\ out'.processed \in {out.processed, obj.gen}
    BY <1>1, <1>10, ProcessedUpdates DEF Present, Goto
  <2> QED
    BY <1>2, <1>3, <2>1, <2>2, WorkerProceeds
<1> QED
  BY <1>5, <1>6, <1>7, <1>8, <1>9, <1>10 DEF Observe

\* What Create and Update make of the outcome.
LEMMA SucceededOrFailed ==
    ASSUME TypeOK, Succeeded \/ Failed
    PROVE  /\ pc' \in {"publish", "persist"}
           /\ out'.processed \in {out.processed, obj.gen}
           /\ Failed => pc' = "persist" /\ out'.processed = out.processed
           /\ obj' = obj
<1>1. out \in Outcomes
  BY DEF TypeOK, WorkerOK
<1>2. CASE Succeeded
  <2> DEFINE done == [out EXCEPT !.running = Kind.runsAtOnce]
  <2>1. done \in Outcomes
    BY <1>1, KindType DEF TypeOK, Outcomes, Kinds, Traits
  <2>2. done.processed = out.processed /\ Completed(done).processed = obj.gen
    BY <1>1, <2>1, ProcessedUpdates
  <2>3. Present(obj.spec, done) \/ Goto("persist", Completed(done))
    BY <1>2 DEF Succeeded
  <2> HIDE DEF done
  <2>4. /\ pc' \in {"publish", "persist"} /\ obj' = obj
        /\ out'.processed \in {out.processed, obj.gen}
    BY <2>2, <2>3 DEF Present, Goto
  <2>5. ASSUME Failed PROVE pc' = "persist" /\ out'.processed = out.processed
    BY <2>5, InterruptedType DEF Failed, Goto, TypeOK
  <2> QED
    BY <2>4, <2>5
<1>3. CASE Failed
  BY <1>3, InterruptedType DEF Failed, Goto, TypeOK
<1> QED
  BY <1>2, <1>3

LEMMA ReadyCreate ==
    ASSUME TypeOK, ReadyInv, Create, UNCHANGED setup PROVE ReadyInv'
<1>1. pc = "create" /\ UNCHANGED <<cr, cache, lastUid>>
  BY DEF Create
<1>2. out \in Outcomes
  BY DEF TypeOK, WorkerOK
<1>3. CASE Applied(IF Kind.runsAtOnce THEN "active" ELSE "building") /\ (Succeeded \/ Failed)
  BY <1>1, <1>3, SucceededOrFailed, AppliedStands
<1>4. CASE /\ UNCHANGED <<remote, history>>
           /\ Failed \/ Goto("persist", [Interrupted EXCEPT !.err = "CreateOrUpdate"])
  <2>1. pc' = "persist" /\ out'.processed = out.processed /\ obj' = obj
    BY <1>4, SucceededOrFailed, InterruptedType DEF Goto, TypeOK
  <2>2. Proceeds
    BY <1>1, <1>4, <2>1 DEF Proceeds, history
  <2> QED
    BY <2>1, <2>2, WorkerProceeds
<1> QED
  BY <1>3, <1>4 DEF Create, history

LEMMA ReadyUpdate ==
    ASSUME TypeOK, ReadyInv, Update, UNCHANGED setup PROVE ReadyInv'
<1>1. pc = "update" /\ UNCHANGED <<cr, cache, lastUid>>
  BY DEF Update
<1>2. out \in Outcomes /\ obj.uid = cr.uid /\ obj.finalizer
  BY <1>1 DEF TypeOK, WorkerOK, ReadyInv, WorkerOwns
<1>3. CASE Kind.immutable
  <2>1. Goto("persist", Completed(out)) /\ UNCHANGED <<remote, history>>
    BY <1>3 DEF Update, history
  <2>2. Proceeds
    BY <1>1, <2>1 DEF Goto, Proceeds, history
  <2>3. Confirmed
    BY <1>1, <1>3 DEF Confirmed, HasSpec, Inherited, ReadyInv, UpdateFindsIt, MadeAsSpecified
  <2> QED
    BY <1>2, <2>1, <2>2, <2>3, ProcessedUpdates, WorkerProceeds DEF Goto
<1>4. CASE Found /\ Applied(IF InUse THEN remote.phase ELSE "active") /\ (Succeeded \/ Failed)
  <2>1. (IF InUse THEN remote.phase ELSE "active") \in {"building", "active"}
    BY DEF InUse, TypeOK, AivenOK, Remotes, Phases
  <2> QED
    BY <1>1, <1>4, <2>1, SucceededOrFailed, AppliedStands
<1>5. CASE /\ UNCHANGED <<remote, history>>
           /\ \/ Failed
              \/ Goto("persist", Interrupted)
              \/ Goto("persist", [Interrupted EXCEPT !.err = "CreateOrUpdate"])
  <2>1. pc' = "persist" /\ out'.processed = out.processed /\ obj' = obj
    BY <1>5, SucceededOrFailed, InterruptedType DEF Goto, TypeOK
  <2>2. Proceeds
    BY <1>1, <1>5, <2>1 DEF Proceeds, history
  <2> QED
    BY <2>1, <2>2, WorkerProceeds
<1> QED
  BY <1>3, <1>4, <1>5 DEF Update, UpdateRemote, history

LEMMA ReadyPublish ==
    ASSUME TypeOK, ReadyInv, Publish, UNCHANGED setup PROVE ReadyInv'
<1>1. out \in Outcomes
  BY DEF TypeOK, WorkerOK
<1>2. pc = "publish" /\ Proceeds /\ pc' = "persist"
  BY DEF Publish, Goto, Proceeds, history
<1>3. out' \in {Completed(out), [out EXCEPT !.err = "ConnInfoSecret"]}
  BY DEF Publish, Goto
<1>4. out'.processed \in {obj.gen, out.processed}
  BY <1>1, <1>3, ProcessedUpdates
<1>5. Confirmed /\ obj.finalizer
  BY <1>2 DEF Confirmed, ReadyInv, WorkerProcesses, WorkerOwns
<1> QED
  BY <1>2, <1>4, <1>5, WorkerProceeds

LEMMA ReadyPersist ==
    ASSUME TypeOK, ReadyInv, Persist, UNCHANGED setup PROVE ReadyInv'
<1> DEFINE w == [cr EXCEPT !.initialized = out.initialized, !.err = out.err]
<1>1. CopiesAge /\ WorkerCopy /\ WorkerOwns /\ ServerKnows /\ WorkerProcesses /\ UpdateFindsIt
  BY ReadyInvParts
<1>2. pc = "persist" /\ UNCHANGED <<cache, lastUid, remote, fate, drifted>>
  BY DEF Persist, history
<1>3. cr \in Objects /\ out \in Outcomes /\ Rewrites(Write(w), cr)
  BY StatusRewrites DEF TypeOK, ClusterOK, WorkerOK
<1>4. cr' = cr \/ (Exists(cr) /\ Rewrites(cr', cr))
  <2>1. cr' = cr \/ (Exists(cr) /\ cr' = Write(w))
    BY DEF Persist, IsCurrent, Exists
  <2> HIDE DEF w
  <2> QED
    BY <1>3, <2>1
<1> HIDE DEF w
<1>5. Develops
  BY <1>4 DEF Develops
<1>6. CopiesAge' /\ ServerKnows'
  BY <1>1, <1>2, <1>5, CopiesAgeStands, ServerStands DEF CopiesAge
<1>7. CASE pc' = "idle"
  BY <1>6, <1>7 DEF ReadyInv, ServerKnows, WorkerCopy, WorkerOwns, WorkerProcesses, UpdateFindsIt
<1>8. CASE pc' # "idle"
  <2>1. pc' = "annotate" /\ obj' = cr' /\ out' = out /\ IsCurrent(obj)
    BY <1>8 DEF Persist, Return
  <2>2. obj = cr /\ Exists(cr)
    BY <1>1, <1>2, <2>1 DEF IsCurrent, WorkerCopy, EarlierCopy, Exists
  <2>3. /\ cr'.uid = cr.uid /\ cr'.gen = cr.gen /\ cr'.processed = cr.processed
        /\ cr'.spec = cr.spec /\ cr'.deleting = cr.deleting /\ (cr.finalizer => cr'.finalizer)
    BY <1>4 DEF Rewrites
  <2>4. cr'.rv \in Nat /\ cr'.gen \in Nat /\ cr'.processed \in Nat
    BY <1>3, <1>4, <2>3 DEF Objects, Rewrites
  <2>5. EarlierCopy(obj)'
    BY <1>6, <2>1, <2>4 DEF EarlierCopy, CopiesAge, Plausible
  <2>6. WorkerCopy'
    BY <1>1, <1>2, <1>6, <2>1, <2>2, <2>3, <2>5 DEF WorkerCopy, CopiesAge
  <2>7. WorkerOwns' /\ UpdateFindsIt'
    BY <2>1 DEF WorkerOwns, UpdateFindsIt
  <2>8. HasSpec => HasSpec'
    BY <1>2, <2>3 DEF HasSpec, InUse, Inherited, Kind
  <2>9. WorkerProcesses'
    BY <1>1, <1>2, <2>1, <2>2, <2>3, <2>8 DEF WorkerProcesses
  <2> QED
    BY <1>6, <2>6, <2>7, <2>9 DEF ReadyInv, ServerKnows
<1> QED
  BY <1>7, <1>8

LEMMA ReadyAnnotate ==
    ASSUME TypeOK, ReadyInv, Annotate, UNCHANGED setup PROVE ReadyInv'
<1> DEFINE w == Write([cr EXCEPT !.processed = out.processed, !.running = out.running])
<1>1. CopiesAge /\ WorkerCopy /\ WorkerOwns /\ ServerKnows /\ WorkerProcesses /\ UpdateFindsIt
  BY ReadyInvParts
<1>2. pc = "annotate" /\ pc' = "idle" /\ UNCHANGED <<cache, lastUid, remote, fate, drifted>>
  BY DEF Annotate, Return, history
<1>3. WorkerCopy' /\ WorkerOwns' /\ WorkerProcesses' /\ UpdateFindsIt'
  BY <1>2 DEF WorkerCopy, WorkerOwns, WorkerProcesses, UpdateFindsIt
<1>4. CASE cr' = cr
  BY <1>1, <1>2, <1>3, <1>4, CopiesAgeStands, ServerStands DEF Develops, CopiesAge, ReadyInv, ServerKnows
<1>5. CASE cr' = w /\ IsCurrent(obj)
  <2>1. cr \in Objects /\ out \in Outcomes
    BY DEF TypeOK, ClusterOK, WorkerOK
  <2>2. obj = cr /\ Exists(cr)
    BY <1>1, <1>2, <1>5 DEF IsCurrent, WorkerCopy, EarlierCopy, Exists
  <2>3. /\ cr'.uid = cr.uid /\ cr'.rv = cr.rv + 1
        /\ cr'.gen = cr.gen /\ cr'.spec = cr.spec /\ cr'.processed = out.processed
        /\ cr'.deleting = cr.deleting /\ cr'.finalizer = cr.finalizer
    BY <1>5, <2>1, AnnotationsWrite
  <2>4. /\ cr.rv \in Nat /\ cr.gen \in Nat /\ cr.processed \in Nat
        /\ cache.rv \in Nat /\ cache.gen \in Nat /\ cache.processed \in Nat
    BY DEF TypeOK, ClusterOK, Objects
  <2>5. /\ out.processed \in {cr.processed, cr.gen} /\ cr.processed <= cr.gen
        /\ ~cr.finalizer => out.processed = 0
        /\ cr.uid = cache.uid => cr.gen <= cache.gen
    BY <1>1, <1>2, <2>2 DEF WorkerCopy, Plausible
  <2>6. Plausible(cr')
    BY <1>1, <2>2, <2>3, <2>4, <2>5 DEF CopiesAge, Plausible, Exists
  <2>7. EarlierCopy(cache)'
    BY <1>1, <1>2, <2>2, <2>3, <2>4, <2>5 DEF CopiesAge, EarlierCopy, Exists, Kind
  <2>8. CopiesAge'
    BY <1>1, <1>2, <2>6, <2>7 DEF CopiesAge, Plausible, Exists
  <2>9. HasSpec => HasSpec'
    BY <1>2, <2>3 DEF HasSpec, InUse, Inherited, Kind
  <2>10. ServerKnows'
    BY <1>1, <1>2, <2>2, <2>3, <2>9
       DEF ServerKnows, ProcessedIsApplied, WorkerProcesses, hasLatestGeneration, MadeAsSpecified,
           AbsentIsBlank, InUse, Kind
  <2> QED
    BY <1>3, <2>8, <2>10 DEF ReadyInv, ServerKnows
<1> QED
  BY <1>4, <1>5 DEF Annotate

\* The deletion path: the object is being deleted, or a later one unprocessed.
LEMMA FinalizingIsMoot ==
    ASSUME TypeOK, HoldInv, ReadyInv, pc \in {"finalize", "unfinalize"}
    PROVE  /\ Exists(cr) /\ ~cr.deleting => ~hasLatestGeneration(cr)
           /\ obj.uid = cr.uid => cr.deleting
<1>1. WorkerFinalizes /\ Plausible(cr)
  BY DEF HoldInv, ReadyInv, CopiesAge
<1>2. obj.uid = cr.uid => cr.deleting
  BY <1>1 DEF WorkerFinalizes
<1>3. ASSUME Exists(cr), ~cr.deleting PROVE cr.processed = 0 /\ cr.gen > 0
  BY <1>1, <1>3 DEF WorkerFinalizes, Plausible
<1> QED
  BY <1>2, <1>3 DEF hasLatestGeneration

LEMMA ReadyDelete ==
    ASSUME TypeOK, HoldInv, ReadyInv, DeleteRemote \/ ApplyDeletionPolicy, UNCHANGED setup
    PROVE  ReadyInv'
<1>1. CopiesAge /\ WorkerCopy /\ WorkerOwns /\ ServerKnows /\ WorkerProcesses /\ UpdateFindsIt
  BY ReadyInvParts
<1>2. pc = "finalize" /\ UNCHANGED <<cr, cache, lastUid>>
  BY DEF DeleteRemote, ApplyDeletionPolicy
<1>3. out \in Outcomes
  BY DEF TypeOK, WorkerOK
<1>4. /\ pc' \in {"idle", "persist", "unfinalize"}
      /\ pc' # "idle" => obj' = obj /\ out'.processed = out.processed
  BY <1>3, ProcessedUpdates DEF DeleteRemote, ApplyDeletionPolicy, DeleteFailed, Goto, Return
<1>5. CopiesAge'
  BY <1>1, <1>2, CopiesAgeStands DEF Develops
<1>6. WorkerOwns' /\ UpdateFindsIt'
  BY <1>4 DEF WorkerOwns, UpdateFindsIt
<1>7. WorkerCopy'
  <2>1. CASE pc' = "idle"
    BY <2>1 DEF WorkerCopy
  <2>2. CASE pc' # "idle"
    BY <1>1, <1>2, <1>4, <2>2, WorkerCopyStands DEF Develops, CopiesAge
  <2> QED
    BY <2>1, <2>2
<1>8. WorkerProcesses'
  BY <1>2, <1>4, FinalizingIsMoot DEF WorkerProcesses
<1>9. ProcessedIsApplied'
  BY <1>2, FinalizingIsMoot DEF ProcessedIsApplied, hasLatestGeneration
<1>10. remote' \in {remote, NoRemote} /\ remote \in Remotes
  BY DEF DeleteRemote, ApplyDeletionPolicy, TypeOK, AivenOK
<1>11. MadeAsSpecified'
  <2>1. CASE UNCHANGED <<remote, fate, drifted>>
    BY <1>1, <1>2, <2>1 DEF ServerKnows, MadeAsSpecified, InUse, Kind
  <2>2. CASE ~(UNCHANGED <<remote, fate, drifted>>)
    <3>1. fate' # "managed" \/ UNCHANGED <<remote, fate, drifted>>
      BY DEF DeleteRemote, ApplyDeletionPolicy, history
    <3> QED
      BY <2>2, <3>1 DEF MadeAsSpecified
  <2> QED
    BY <2>1, <2>2
<1>12. AbsentIsBlank'
  BY <1>1, <1>10 DEF ServerKnows, AbsentIsBlank, NoRemote, Remotes
<1> QED
  BY <1>5, <1>6, <1>7, <1>8, <1>9, <1>11, <1>12 DEF ReadyInv

LEMMA ReadyRemoveFinalizer ==
    ASSUME TypeOK, HoldInv, ReadyInv, RemoveFinalizer, UNCHANGED setup PROVE ReadyInv'
<1>1. CopiesAge /\ WorkerCopy /\ WorkerOwns /\ ServerKnows /\ WorkerProcesses /\ UpdateFindsIt
  BY ReadyInvParts
<1>2. pc = "unfinalize" /\ pc' = "idle" /\ UNCHANGED <<cache, lastUid, remote, fate, drifted>>
  BY DEF RemoveFinalizer, Return, history
<1>3. WorkerCopy' /\ WorkerOwns' /\ WorkerProcesses' /\ UpdateFindsIt'
  BY <1>2 DEF WorkerCopy, WorkerOwns, WorkerProcesses, UpdateFindsIt
<1>4. CASE cr' = cr
  BY <1>1, <1>2, <1>3, <1>4, CopiesAgeStands, ServerStands DEF Develops, CopiesAge, ReadyInv, ServerKnows
<1>5. CASE cr' # cr
  <2>1. cache = cr /\ Exists(cr) /\ cr.finalizer
    BY <1>5, CurrentCache DEF RemoveFinalizer, HoldInv
  <2>2. cr.deleting
    BY <1>2, <2>1 DEF HoldInv, WorkerFinalizes
  <2>3. cr' = NoObject
    BY <1>5, <2>1, <2>2 DEF RemoveFinalizer, HoldInv, Versions, IsCurrent
  <2>4. ~(fate = "managed" /\ InUse)
    BY <1>2 DEF HoldInv, WorkerLetsGo
  <2>5. CopiesAge'
    BY <1>1, <1>2, <2>3 DEF CopiesAge, Plausible, EarlierCopy, Exists, NoObject, Fresh
  <2>6. ServerKnows'
    BY <1>1, <1>2, <2>3, <2>4
       DEF ServerKnows, ProcessedIsApplied, MadeAsSpecified, AbsentIsBlank, InUse, Exists, NoObject, Fresh
  <2> QED
    BY <1>3, <2>5, <2>6 DEF ReadyInv, ServerKnows
<1> QED
  BY <1>4, <1>5

----------------------------------------------------------------------------
(* The steps of the others                                                 *)

LEMMA ReadySyncCache ==
    ASSUME TypeOK, ReadyInv, SyncCache, UNCHANGED setup PROVE ReadyInv'
<1>1. CopiesAge /\ WorkerCopy /\ WorkerOwns /\ ServerKnows /\ WorkerProcesses /\ UpdateFindsIt
  BY ReadyInvParts
<1>2. cache' = cr /\ UNCHANGED <<cr, lastUid, pc, obj, out, remote, fate, drifted>>
  BY DEF SyncCache, worker, history
<1>3. cr.rv \in Nat /\ cr.gen \in Nat /\ cr.processed \in Nat
  BY DEF TypeOK, ClusterOK, Objects
<1>4. CopiesAge'
  BY <1>1, <1>2, <1>3 DEF CopiesAge, Plausible, EarlierCopy, Exists
<1>5. WorkerCopy'
  BY <1>1, <1>2 DEF WorkerCopy, Plausible, EarlierCopy, Exists, Kind
<1>6. WorkerOwns' /\ WorkerProcesses' /\ UpdateFindsIt' /\ ServerKnows'
  BY <1>1, <1>2
     DEF WorkerOwns, WorkerProcesses, UpdateFindsIt, ServerKnows, ProcessedIsApplied, MadeAsSpecified,
         AbsentIsBlank, HasSpec, Inherited, InUse, Exists, Kind, hasLatestGeneration
<1> QED
  BY <1>4, <1>5, <1>6 DEF ReadyInv, ServerKnows

LEMMA ReadyAivenProgress ==
    ASSUME TypeOK, ReadyInv, AivenProgress, UNCHANGED setup PROVE ReadyInv'
<1>1. CopiesAge /\ WorkerCopy /\ WorkerOwns /\ ServerKnows /\ WorkerProcesses /\ UpdateFindsIt
  BY ReadyInvParts
<1>2. UNCHANGED <<cr, cache, lastUid, pc, obj, out, fate, drifted>>
  BY DEF AivenProgress, worker, history
<1>3. remote \in Remotes
  BY DEF TypeOK, AivenOK
<1>4. /\ InUse' <=> InUse
      /\ InUse => remote'.spec = remote.spec
      /\ remote'.phase = "absent" => remote'.spec = NoSpec
  BY <1>3 DEF AivenProgress, InUse, NoRemote, Remotes
<1>5. HasSpec' <=> HasSpec
  BY <1>2, <1>4 DEF HasSpec, Inherited, Kind
<1>6. CopiesAge' /\ WorkerCopy'
  BY <1>1, <1>2, CopiesAgeStands, WorkerCopyStands DEF Develops, CopiesAge
<1>7. WorkerOwns' /\ WorkerProcesses' /\ UpdateFindsIt' /\ ServerKnows'
  BY <1>1, <1>2, <1>4, <1>5
     DEF WorkerOwns, WorkerProcesses, UpdateFindsIt, ServerKnows, ProcessedIsApplied, MadeAsSpecified,
         AbsentIsBlank, Exists, Kind, hasLatestGeneration
<1> QED
  BY <1>6, <1>7 DEF ReadyInv, ServerKnows

\* Another client of Aiven: from then on the resource has drifted.
LEMMA ReadyDrift ==
    ASSUME TypeOK, ReadyInv, UNCHANGED setup,
           OthersDeleteRemote \/ \E s \in Specs : OthersChangeRemote(s)
    PROVE  ReadyInv'
<1>1. CopiesAge /\ WorkerCopy /\ WorkerOwns /\ ServerKnows
  BY ReadyInvParts
<1>2. UNCHANGED <<cr, cache, lastUid, pc, obj, out>> /\ drifted' = TRUE
  BY DEF OthersDeleteRemote, OthersChangeRemote, worker
<1>3. CopiesAge' /\ WorkerCopy'
  BY <1>1, <1>2, CopiesAgeStands, WorkerCopyStands DEF Develops, CopiesAge
<1>4. WorkerOwns' /\ WorkerProcesses' /\ UpdateFindsIt' /\ ProcessedIsApplied' /\ MadeAsSpecified'
  BY <1>1, <1>2 DEF WorkerOwns, WorkerProcesses, UpdateFindsIt, ProcessedIsApplied, MadeAsSpecified
<1>5. AbsentIsBlank'
  <2>1. remote \in Remotes /\ InUse
    BY DEF OthersDeleteRemote, OthersChangeRemote, TypeOK, AivenOK
  <2>2. remote' = NoRemote \/ \E s \in Specs : remote' = [remote EXCEPT !.spec = s]
    BY DEF OthersDeleteRemote, OthersChangeRemote
  <2> QED
    BY <2>1, <2>2 DEF AbsentIsBlank, NoRemote, Remotes, InUse
<1> QED
  BY <1>3, <1>4, <1>5 DEF ReadyInv

LEMMA ReadyUserCreates ==
    ASSUME TypeOK, HoldInv, ReadyInv, NEW s \in Specs, NEW g \in BOOLEAN, UserCreates(s, g),
           UNCHANGED setup
    PROVE  ReadyInv'
<1>1. CopiesAge /\ WorkerCopy /\ WorkerOwns /\ ServerKnows
  BY ReadyInvParts
<1>2. /\ ~Exists(cr) /\ lastUid \in Nat /\ lastUid' = lastUid + 1
      /\ cr' = Fresh(lastUid + 1, s, g)
      /\ UNCHANGED <<cache, pc, obj, out, remote, fate, drifted>>
  BY DEF UserCreates, worker, TypeOK, ClusterOK
<1>3. /\ cr'.uid = lastUid + 1 /\ cr'.gen = 1 /\ cr'.processed = 0 /\ cr'.spec = s
      /\ ~cr'.finalizer
  BY <1>2 DEF Fresh
<1>4. cache.uid <= lastUid /\ cache.uid \in Nat
  BY DEF HoldInv, Versions, TypeOK, ClusterOK, Objects
<1>5. ~(pc \in {"observe", "create", "update"}) /\ ~(fate = "managed" /\ InUse)
  BY <1>2 DEF HoldInv, WorkerIsHeld, NoLeak, Held
<1>6. CopiesAge'
  BY <1>1, <1>2, <1>3, <1>4 DEF CopiesAge, Plausible, EarlierCopy, Exists
<1>7. WorkerCopy'
  BY <1>1, <1>2, <1>3 DEF WorkerCopy, Plausible, EarlierCopy, Exists
<1>8. WorkerOwns'
  <2>1. ~(pc \in {"refs", "finalizer"} /\ obj.finalizer)
    BY <1>2 DEF HoldInv, WorkerIsHeld, Held
  <2> QED
    BY <1>1, <1>2, <1>5, <2>1 DEF WorkerOwns
<1>9. WorkerProcesses' /\ UpdateFindsIt'
  BY <1>1, <1>2, <1>3, <1>5 DEF WorkerCopy, WorkerProcesses, UpdateFindsIt
<1>10. ServerKnows'
  BY <1>1, <1>2, <1>3, <1>5
     DEF ServerKnows, ProcessedIsApplied, MadeAsSpecified, AbsentIsBlank, InUse, hasLatestGeneration
<1> QED
  BY <1>6, <1>7, <1>8, <1>9, <1>10 DEF ReadyInv, ServerKnows

\* An object that the operator has not got hold of just goes.
LEMMA ReadyUserDrops ==
    ASSUME TypeOK, HoldInv, ReadyInv, UserDeletes, ~cr.finalizer, UNCHANGED setup
    PROVE  ReadyInv'
<1>1. CopiesAge /\ WorkerCopy /\ WorkerOwns /\ ServerKnows
  BY ReadyInvParts
<1>2. cr' = NoObject /\ UNCHANGED <<cache, lastUid, pc, obj, out, remote, fate, drifted>> /\ ~Held
  BY DEF UserDeletes, worker, Held
<1>3. /\ ~(pc \in {"observe", "create", "update"})
      /\ ~(pc \in {"refs", "finalizer"} /\ obj.finalizer)
      /\ ~(fate = "managed" /\ InUse)
  BY <1>2 DEF HoldInv, WorkerIsHeld, NoLeak
<1>4. CopiesAge'
  BY <1>1, <1>2 DEF CopiesAge, Plausible, EarlierCopy, Exists, NoObject, Fresh
<1>5. WorkerCopy' /\ WorkerOwns' /\ UpdateFindsIt'
  BY <1>1, <1>2, <1>3
     DEF WorkerCopy, WorkerOwns, UpdateFindsIt, Plausible, EarlierCopy, Exists, NoObject, Fresh
<1>6. WorkerProcesses'
  BY <1>1, <1>2 DEF WorkerCopy, WorkerProcesses, NoObject, Fresh
<1>7. ServerKnows'
  BY <1>1, <1>2, <1>3
     DEF ServerKnows, ProcessedIsApplied, MadeAsSpecified, AbsentIsBlank, InUse, Exists, NoObject, Fresh
<1> QED
  BY <1>4, <1>5, <1>6, <1>7 DEF ReadyInv, ServerKnows

LEMMA ReadyEdits ==
    ASSUME TypeOK, ReadyInv, UNCHANGED setup,
           \/ \E s \in Specs : UserEditsSpec(s)
           \/ \E p \in Policies : UserSetsPolicy(p)
           \/ UserGuards
           \/ UserDeletes /\ cr.finalizer
           \/ UserDeletesSecret
           \/ \E t \in Tokens : UserChangesToken(t)
    PROVE  ReadyInv'
<1>1. cr \in Objects /\ (Exists(cr) => cr.spec \in Specs)
  BY DEF TypeOK, ClusterOK, ReadyInv, CopiesAge, Plausible
<1>2. UNCHANGED <<cache, lastUid, pc, obj, out, remote, fate, drifted>>
  BY DEF UserEditsSpec, UserSetsPolicy, UserGuards, UserDeletes, UserDeletesSecret, UserChangesToken,
         worker, history
<1>3. Develops
  <2>1. ASSUME NEW s \in Specs, UserEditsSpec(s) PROVE Develops
    <3> DEFINE w == Write([cr EXCEPT !.spec = s, !.gen = @ + 1])
    <3>1. Exists(cr) /\ cr' = w /\ Bumps(w, cr)
      BY <1>1, <2>1, SpecBumps DEF UserEditsSpec
    <3> HIDE DEF w
    <3> QED
      BY <3>1 DEF Develops
  <2>2. ASSUME NEW p \in Policies, UserSetsPolicy(p) PROVE Develops
    <3> DEFINE w == Write([cr EXCEPT !.policy = p])
    <3>1. Exists(cr) /\ cr' = w /\ Rewrites(w, cr)
      BY <1>1, <2>2, PolicyRewrites DEF UserSetsPolicy
    <3> HIDE DEF w
    <3> QED
      BY <3>1 DEF Develops
  <2>3. ASSUME UserGuards PROVE Develops
    <3> DEFINE w == Write([cr EXCEPT !.guarded = ~@, !.gen = @ + 1])
    <3>1. Exists(cr) /\ cr' = w /\ Bumps(w, cr)
      BY <1>1, <2>3, GuardBumps DEF UserGuards
    <3> HIDE DEF w
    <3> QED
      BY <3>1 DEF Develops
  <2>4. ASSUME UserDeletes, cr.finalizer PROVE Develops
    <3> DEFINE w == Write([cr EXCEPT !.deleting = TRUE, !.gen = @ + 1])
    <3>1. Exists(cr) /\ cr' = w /\ Bumps(w, cr)
      BY <1>1, <2>4, DeletionBumps DEF UserDeletes
    <3> HIDE DEF w
    <3> QED
      BY <3>1 DEF Develops
  <2>5. ASSUME UserDeletesSecret \/ \E t \in Tokens : UserChangesToken(t) PROVE Develops
    BY <2>5 DEF UserDeletesSecret, UserChangesToken, Develops
  <2> QED
    BY <2>1, <2>2, <2>3, <2>4, <2>5
<1> QED
  BY <1>2, <1>3, WorkerUntouched

----------------------------------------------------------------------------
(* The theorem                                                             *)

LEMMA ReadyInvInit == ASSUME Init PROVE ReadyInv
BY DEF Init, ReadyInv, CopiesAge, Plausible, EarlierCopy, WorkerCopy, WorkerOwns, ProcessedIsApplied,
       WorkerProcesses, UpdateFindsIt, MadeAsSpecified, AbsentIsBlank, InUse, Exists, NoObject, NoRemote, Fresh

LEMMA ReadyInvStep == ASSUME TypeOK, HoldInv, ReadyInv, [Next]_vars PROVE ReadyInv'
<1>1. UNCHANGED setup
  BY DEF Next, vars
<1>2. CASE Reconcile
  BY <1>1, <1>2, ReadyBegin, ReadyResolveRefs, ReadyEnsureFinalizer, ReadyObserve, ReadyCreate, ReadyUpdate,
     ReadyPublish, ReadyPersist, ReadyAnnotate, ReadyDelete, ReadyRemoveFinalizer DEF Reconcile
<1>3. CASE Crash
  <2>1. Proceeds /\ pc' = "idle"
    BY <1>1, <1>3 DEF Crash, Return, Proceeds, history
  <2> QED
    BY <2>1, WorkerProceeds
<1>4. CASE SyncCache \/ AivenProgress
  BY <1>1, <1>4, ReadySyncCache, ReadyAivenProgress
<1>5. CASE CollectSecret \/ UNCHANGED vars
  <2>1. UNCHANGED <<cr, cache, lastUid, pc, obj, out, remote, fate, drifted>>
    BY <1>5 DEF CollectSecret, vars, worker, history
  <2> QED
    BY <1>1, <2>1, WorkerUntouched DEF Develops
<1>6. CASE Others
  BY <1>1, <1>6, ReadyDrift, ReadyUserCreates, ReadyUserDrops, ReadyEdits DEF Others
<1> QED
  BY <1>2, <1>3, <1>4, <1>5, <1>6 DEF Next

\* Whatever copy claims to be of the current, processed generation tells the
\* truth about Aiven.
THEOREM ReadyInvCorrect == Spec => [](TypeOK /\ HoldInv /\ ReadyInv)
<1>1. Init => ReadyInv
  BY ReadyInvInit
<1>2. TypeOK /\ HoldInv /\ ReadyInv /\ [Next]_vars => ReadyInv'
  BY ReadyInvStep
<1> QED
  BY <1>1, <1>2, HoldInvCorrect, PTL DEF Spec

\* An object that IsReadyToUse accepts has the spec of its generation at Aiven,
\* unless another client changed it or an earlier object left it behind.
THEOREM ReadyMeansApplied == Spec => []ReadyIsApplied
<1>1. ReadyInv => ReadyIsApplied
  BY DEF ReadyInv, ProcessedIsApplied, HasSpec, ReadyIsApplied, IsReadyToUse
<1> QED
  BY <1>1, ReadyInvCorrect, PTL

----------------------------------------------------------------------------
(* Protection                                                              *)

\* Of the object, the deletion path reads nothing that other writes change.
SameProtection == cr'.uid = cr.uid /\ cr'.deleting = cr.deleting /\ (Protects(cr') <=> Protects(cr))

\* w is o but for what neither deletes nor protects.
SameFate(w, o) == Rewritten(w, o) /\ w.deleting = o.deleting /\ w.guarded = o.guarded /\ w.policy = o.policy

LEMMA WrittenProtects ==
    ASSUME TypeOK, NEW w, SameFate(w, cr), cr' = Write(w)
    PROVE  SameProtection
<1>1. w \in Objects
  BY DEF SameFate, Rewritten
<1>2. /\ Write(w).uid = w.uid /\ Write(w).deleting = w.deleting
      /\ Write(w).guarded = w.guarded /\ Write(w).policy = w.policy
  BY <1>1 DEF Write, Objects
<1> QED
  BY <1>2 DEF SameFate, Rewritten, SameProtection, Protects

LEMMA WritesProtect ==
    ASSUME TypeOK, Persist \/ Annotate \/ (EnsureFinalizer /\ (cr' = cr \/ cache = cr))
    PROVE  SameProtection
<1>1. cr \in Objects /\ out \in Outcomes
  BY DEF TypeOK, ClusterOK, WorkerOK
<1>2. CASE cr' = cr
  BY <1>2 DEF SameProtection, Protects
<1>3. CASE Persist /\ cr' # cr
  <2> DEFINE w == [cr EXCEPT !.initialized = out.initialized, !.err = out.err]
  <2>1. SameFate(w, cr)
    BY <1>1 DEF SameFate, Rewritten, Objects, Outcomes
  <2>2. cr' = Write(w)
    BY <1>3 DEF Persist
  <2> HIDE DEF w
  <2> QED
    BY <2>1, <2>2, WrittenProtects
<1>4. CASE Annotate /\ cr' # cr
  <2> DEFINE w == [cr EXCEPT !.processed = out.processed, !.running = out.running]
  <2>1. SameFate(w, cr)
    BY <1>1 DEF SameFate, Rewritten, Objects, Outcomes
  <2>2. cr' = Write(w)
    BY <1>4 DEF Annotate
  <2> HIDE DEF w
  <2> QED
    BY <2>1, <2>2, WrittenProtects
<1>5. CASE EnsureFinalizer /\ cr' # cr /\ cache = cr
  <2> DEFINE w == [cr EXCEPT !.finalizer = TRUE]
  <2>1. SameFate(w, cr)
    BY <1>1 DEF SameFate, Rewritten, Objects
  <2>2. cr' = Write(w)
    BY <1>5 DEF EnsureFinalizer
  <2> HIDE DEF w
  <2> QED
    BY <2>1, <2>2, WrittenProtects
<1> QED
  BY <1>2, <1>3, <1>4, <1>5

LEMMA ProtectInvInit == ASSUME Init PROVE ProtectInv
BY DEF Init, ProtectInv

LEMMA ProtectInvStep == ASSUME TypeOK, HoldInv, ProtectInv, [Next]_vars PROVE ProtectInv'
<1>1. CASE Begin
  BY <1>1 DEF Begin, ProtectInv, Exists, history
<1>2. CASE Persist \/ Annotate
  BY <1>2, WritesProtect DEF Persist, Annotate, Return, ProtectInv, SameProtection, Exists, history
<1>3. CASE EnsureFinalizer
  <2>1. cr' = cr \/ cache = cr
    BY <1>3, CurrentCache DEF EnsureFinalizer, HoldInv
  <2>2. UNCHANGED <<cache, lastUid, protected>> /\ pc' # "finalize"
    BY <1>3 DEF EnsureFinalizer, Goto, Return, history
  <2> QED
    BY <1>3, <2>1, <2>2, WritesProtect DEF ProtectInv, SameProtection, Exists
<1>4. CASE ResolveRefs \/ Observe \/ Create \/ Update \/ Publish \/ DeleteRemote \/ ApplyDeletionPolicy \/ Crash
  <2>1. UNCHANGED <<cr, cache, lastUid, protected>>
    BY <1>4 DEF ResolveRefs, Observe, Create, Update, UpdateRemote, Applied, Publish, DeleteRemote,
         ApplyDeletionPolicy, Crash, history
  <2>2. pc' # "finalize"
    BY <1>4 DEF ResolveRefs, Observe, handleObserveError, ObserveFromAnnotations, Create, Update,
         UpdateRemote, Succeeded, Failed, Publish, DeleteRemote, DeleteFailed, ApplyDeletionPolicy, Crash,
         Return, Goto, Present
  <2> QED
    BY <2>1, <2>2 DEF ProtectInv, Exists
<1>5. CASE RemoveFinalizer
  <2>1. UNCHANGED <<cache, lastUid, protected>> /\ pc' = "idle"
    BY <1>5 DEF RemoveFinalizer, Return, history
  <2>2. cr' = cr \/ cr' = NoObject
    <3> SUFFICES ASSUME cr' # cr PROVE cr' = NoObject
      OBVIOUS
    <3>1. cache = cr /\ Exists(cr) /\ cr.finalizer
      BY <1>5, CurrentCache DEF RemoveFinalizer, HoldInv
    <3>2. cr.deleting
      BY <1>5, <3>1 DEF RemoveFinalizer, HoldInv, WorkerFinalizes
    <3> QED
      BY <1>5, <3>1, <3>2 DEF RemoveFinalizer, HoldInv, Versions, IsCurrent
  <2> QED
    BY <2>1, <2>2 DEF ProtectInv, Exists, NoObject, Fresh
<1>6. CASE SyncCache
  BY <1>6 DEF SyncCache, worker, history, ProtectInv, Exists, HoldInv, Versions
<1>7. CASE CollectSecret \/ AivenProgress \/ UNCHANGED vars
  BY <1>7 DEF CollectSecret, AivenProgress, vars, worker, history, ProtectInv, Exists
<1>8. CASE Others
  <2>1. ASSUME NEW s \in Specs, NEW g \in BOOLEAN, UserCreates(s, g) PROVE ProtectInv'
    BY <2>1 DEF UserCreates, ProtectInv
  <2>2. ASSUME NEW s \in Specs, UserEditsSpec(s) PROVE ProtectInv'
    BY <2>2 DEF UserEditsSpec, ProtectInv, Exists, history, worker
  <2>3. ASSUME NEW p \in Policies, UserSetsPolicy(p) PROVE ProtectInv'
    <3> DEFINE w == [cr EXCEPT !.policy = p]
    <3>0. Exists(cr) /\ cr' = Write(w)
      BY <2>3 DEF UserSetsPolicy
    <3>1. w \in Objects /\ w.deleting = cr.deleting
      BY PolicyType DEF TypeOK, ClusterOK, Rewritten
    <3> HIDE DEF w
    <3>2. cr'.deleting = cr.deleting
      BY <3>0, <3>1, WriteType
    <3> QED
      BY <2>3, <3>0, <3>2 DEF UserSetsPolicy, ProtectInv, Exists, worker
  <2>4. ASSUME UserGuards PROVE ProtectInv'
    <3>1. cr'.deleting = cr.deleting /\ Exists(cr)
      BY <2>4, WriteType, GuardType DEF UserGuards, TypeOK, ClusterOK, Rewritten
    <3> QED
      BY <2>4, <3>1 DEF UserGuards, ProtectInv, Exists, worker
  <2>5. ASSUME UserDeletes PROVE ProtectInv'
    <3> SUFFICES ASSUME protected' PROVE ProtectInv'
      BY DEF ProtectInv
    <3>1. /\ cr.finalizer /\ Protects(cr) /\ ~cr.deleting /\ Exists(cr)
          /\ UNCHANGED <<cache, lastUid, pc, obj>>
          /\ cr' = Write([cr EXCEPT !.deleting = TRUE, !.gen = @ + 1])
      BY <2>5 DEF UserDeletes, worker
    <3>2. cr'.deleting
      BY <3>1, WriteType, DeletionType DEF TypeOK, ClusterOK, Rewritten
    <3>3. Protects(cr')
      <4>1. cr \in Objects
        BY DEF TypeOK, ClusterOK
      <4> QED
        BY <3>1, <4>1 DEF Write, Protects, Objects
    <3>4. ~(Exists(cache) /\ cache.deleting)
      BY <3>1 DEF HoldInv, CacheKnowsHeld, CacheDeleting
    <3>5. pc # "finalize"
      BY <3>1 DEF HoldInv, WorkerFinalizes
    <3> QED
      BY <3>1, <3>2, <3>3, <3>4, <3>5 DEF ProtectInv, Exists
  <2>6. ASSUME \/ OthersDeleteRemote \/ UserDeletesSecret
               \/ \E s \in Specs : OthersChangeRemote(s)
               \/ \E t \in Tokens : UserChangesToken(t)
        PROVE  ProtectInv'
    BY <2>6 DEF OthersDeleteRemote, UserDeletesSecret, OthersChangeRemote, UserChangesToken, ProtectInv,
         Exists, worker, history
  <2> QED
    BY <1>8, <2>1, <2>2, <2>3, <2>4, <2>5, <2>6 DEF Others
<1> QED
  BY <1>1, <1>2, <1>3, <1>4, <1>5, <1>6, <1>7, <1>8 DEF Next, Reconcile

LEMMA ProtectedStep ==
    ASSUME TypeOK, ProtectInv, [Next]_vars, protected, InUse, UNCHANGED edits
    PROVE  InUse'
<1>1. remote \in Remotes /\ edits \in Nat
  BY DEF TypeOK, AivenOK, BoundsOK
<1>2. CASE DeleteRemote
  <2>1. obj.guarded
    BY <1>2 DEF DeleteRemote, ProtectInv, Protects, hasDeletionPolicy
  <2> QED
    BY <1>2, <2>1 DEF DeleteRemote, Guarded, InUse
<1>3. CASE (Create \/ Update) /\ remote' # remote
  <2>1. PICK ph \in {"active", "building", remote.phase} : Applied(ph)
    BY <1>3 DEF Create, Update, UpdateRemote
  <2> QED
    BY <2>1 DEF Applied, InUse
<1>4. CASE AivenProgress
  BY <1>1, <1>4 DEF AivenProgress, InUse, Remotes
<1>5. CASE Others
  <2>1. Edit
    BY <1>5 DEF Others, UserCreates, UserEditsSpec, UserSetsPolicy, UserGuards, UserDeletes,
         UserChangesToken, UserDeletesSecret, OthersChangeRemote, OthersDeleteRemote
  <2> QED
    BY <1>1, <2>1 DEF Edit
<1>6. CASE remote' = remote
  BY <1>6 DEF InUse
<1> QED
  BY <1>2, <1>3, <1>4, <1>5, <1>6
     DEF Next, Reconcile, Begin, ResolveRefs, EnsureFinalizer, Observe, Publish, Persist, Annotate,
         ApplyDeletionPolicy, RemoveFinalizer, Crash, SyncCache, CollectSecret, vars

\* Once an object is deleted under protection, no copy that the operator may
\* still act on lacks it.
THEOREM ProtectInvCorrect == Spec => []ProtectInv
<1>1. Init => ProtectInv
  BY ProtectInvInit
<1>2. TypeOK /\ HoldInv /\ ProtectInv /\ [Next]_vars => ProtectInv'
  BY ProtectInvStep
<1> QED
  BY <1>1, <1>2, HoldInvCorrect, PTL DEF Spec

\* The resource of an object deleted under a policy or termination protection
\* stays until a user lifts it or another client removes the resource.
THEOREM ProtectionHolds == Spec => ProtectedIsKept
<1>1. TypeOK /\ ProtectInv /\ [Next]_vars => [protected /\ InUse /\ UNCHANGED edits => InUse']_vars
  BY ProtectedStep
<1> QED
  BY <1>1, HoldInvCorrect, ProtectInvCorrect, PTL DEF Spec, ProtectedIsKept
=============================================================================

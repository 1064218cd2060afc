------------------------- MODULE TokenSecretGC_proofs -------------------------
(***************************************************************************)
(* TokenSecretGC keeps a Secret for every object it has shown the          *)
(* collector, for any number of objects and kinds.                         *)
(***************************************************************************)
EXTENDS TokenSecretGC, TLAPS

\* A copy said to be the latest is.
CopyOK == current => seen = secret

\* Unlisted is what makes it inductive: while something is owed, the collector
\* has not passed its kind, and the cache still shows it.
IInv == TypeOK /\ CopyOK /\ Unlisted /\ KeepsWhatIsOwed

------------------------------------------------------------------------------
\* What the fields of well-typed values are, and that what is made of them is
\* well-typed.
LEMMA Values ==
    /\ NoObject \in Object
    /\ NoSecret \in Secret
    /\ [at |-> "live", protected |-> FALSE] \in Secret
    /\ \A n \in Nat : New(n + 1) \in Object
    /\ \A x \in Object : /\ [x EXCEPT !.held = TRUE] \in Object
                         /\ [x EXCEPT !.deleting = TRUE] \in Object
                         /\ [x EXCEPT !.uses = ~@] \in Object
    /\ \A s \in Secret : Unprotected(s) \in Secret
<1>1. NoObject \in Object
  BY DEF NoObject, Object
<1>2. NoSecret \in Secret /\ [at |-> "live", protected |-> FALSE] \in Secret
  BY DEF NoSecret, Secret
<1>3. ASSUME NEW n \in Nat PROVE New(n + 1) \in Object
  BY DEF New, Object
<1>4. ASSUME NEW x \in Object
      PROVE  /\ [x EXCEPT !.held = TRUE] \in Object
             /\ [x EXCEPT !.deleting = TRUE] \in Object
             /\ [x EXCEPT !.uses = ~@] \in Object
  BY DEF Object
<1>5. ASSUME NEW s \in Secret PROVE Unprotected(s) \in Secret
  BY DEF Secret, Unprotected, NoSecret
<1> QED BY <1>1, <1>2, <1>3, <1>4, <1>5

\* A live Secret may be protected, and deleted once it is.
LEMMA LiveSecret ==
    ASSUME NEW s \in Secret, s.at = "live"
    PROVE  /\ [s EXCEPT !.protected = TRUE] \in Secret
           /\ s.protected => [s EXCEPT !.at = "deleting"] \in Secret
  BY DEF Secret

\* Where a pass goes and what it works on are of their types.
LEMMA GotoType ==
    ASSUME TypeOK, NEW o \in Objects, NEW p \in Places, NEW x \in Object, Goto(o, p, x)
    PROVE  pc' \in [Objects -> Places] /\ mine' \in [Objects -> Object]
  BY DEF Goto, TypeOK

LEMMA StopType ==
    ASSUME TypeOK, NEW o \in Objects, Stop(o)
    PROVE  pc' \in [Objects -> Places] /\ mine' \in [Objects -> Object]
  BY GotoType, Values DEF Stop, Places

\* Every type is kept by every step, and copies stay what they are said to be.
LEMMA TypeKept == TypeOK /\ CopyOK /\ [Next]_vars => TypeOK' /\ CopyOK'
<1> SUFFICES ASSUME TypeOK, CopyOK, [Next]_vars PROVE TypeOK' /\ CopyOK'
  OBVIOUS
<1> DEFINE PassTyped == pc' \in [Objects -> Places] /\ mine' \in [Objects -> Object]
<1>1. ASSUME Next PROVE owed' \subseteq Objects
  BY <1>1 DEF Next, Remember
<1>2. ASSUME NEW o \in Objects, Begin(o), owed' \subseteq Objects PROVE TypeOK' /\ CopyOK'
  <2>1. PassTyped
    BY <1>2, GotoType DEF Begin, Places, TypeOK
  <2> QED BY <1>2, <2>1 DEF Begin, TypeOK, CopyOK, cluster, caches, collector
<1>3. ASSUME NEW o \in Objects, Protect(o), owed' \subseteq Objects PROVE TypeOK' /\ CopyOK'
  <2>1. PassTyped
    BY <1>3, GotoType, StopType DEF Protect, Places, TypeOK
  <2>2. CASE UNCHANGED <<secret, seen, current>>
    BY <1>3, <2>1, <2>2 DEF Protect, TypeOK, CopyOK, collector
  <2>3. CASE CanProtect /\ WriteSecret([secret EXCEPT !.protected = TRUE])
    <3>1. secret.at = "live"
      BY <2>3 DEF CanProtect, CopyOK
    <3>2. [secret EXCEPT !.protected = TRUE] \in Secret
      BY <3>1, LiveSecret DEF TypeOK
    <3>3. secret' \in Secret
      BY <2>3, <3>2 DEF WriteSecret
    <3>4. current' = FALSE /\ seen' = seen
      BY <2>3 DEF WriteSecret
    <3> QED BY <1>3, <2>1, <3>3, <3>4 DEF Protect, TypeOK, CopyOK, collector
  <2> QED BY <1>3, <2>2, <2>3 DEF Protect
<1>4. ASSUME NEW o \in Objects, Hold(o), owed' \subseteq Objects PROVE TypeOK' /\ CopyOK'
  <2>1. [objs[o] EXCEPT !.held = TRUE] \in Object
    BY Values DEF TypeOK
  <2>2. objs' = objs \/ objs' = [objs EXCEPT ![o] = [objs[o] EXCEPT !.held = TRUE]]
    BY <1>4 DEF Hold
  <2>3. objs' \in [Objects -> Object]
    BY <2>1, <2>2 DEF TypeOK
  <2>4. PassTyped
    BY <1>4, <2>3, GotoType, StopType DEF Hold, Places, TypeOK
  <2> QED BY <1>4, <2>3, <2>4 DEF Hold, TypeOK, CopyOK, caches, collector
<1>5. ASSUME NEW o \in Objects, Make(o), owed' \subseteq Objects PROVE TypeOK' /\ CopyOK'
  <2>1. PassTyped
    BY <1>5, StopType DEF Make
  <2> QED BY <1>5, <2>1 DEF Make, TypeOK, CopyOK, cluster, caches, collector
<1>6. ASSUME NEW o \in Objects, Delete(o), owed' \subseteq Objects PROVE TypeOK' /\ CopyOK'
  <2>1. PassTyped
    BY <1>6, GotoType, StopType DEF Delete, Places, TypeOK
  <2> QED BY <1>6, <2>1 DEF Delete, TypeOK, CopyOK, cluster, caches, collector
<1>7. ASSUME NEW o \in Objects, Release(o), owed' \subseteq Objects PROVE TypeOK' /\ CopyOK'
  <2>1. PassTyped
    BY <1>7, StopType DEF Release
  <2>2. objs' \in [Objects -> Object]
    BY <1>7, Values DEF Release, TypeOK
  <2> QED BY <1>7, <2>1, <2>2 DEF Release, TypeOK, CopyOK, caches, collector
<1>8. ASSUME GCBegin, owed' \subseteq Objects PROVE TypeOK' /\ CopyOK'
  <2>1. gc' \in 0 .. NKinds + 1
    BY <1>8, KindsAssumption DEF GCBegin
  <2>2. gcQueued' \in BOOLEAN
    BY <1>8 DEF GCBegin
  <2> QED BY <1>8, <2>1, <2>2 DEF GCBegin, TypeOK, CopyOK, cluster, caches, passes
<1>9. ASSUME GCList, owed' \subseteq Objects PROVE TypeOK' /\ CopyOK'
  <2>1. gc' \in 0 .. NKinds + 1
    BY <1>9, KindsAssumption DEF GCList, Kinds
  <2>2. gcQueued' \in BOOLEAN
    BY <1>9 DEF GCList, TypeOK
  <2> QED BY <1>9, <2>1, <2>2 DEF GCList, TypeOK, CopyOK, cluster, caches, passes
<1>10. ASSUME GCRemove, owed' \subseteq Objects PROVE TypeOK' /\ CopyOK'
  <2>1. gc' \in 0 .. NKinds + 1
    BY <1>10, KindsAssumption DEF GCRemove
  <2>2. gcQueued' \in BOOLEAN
    BY <1>10 DEF GCRemove, TypeOK
  <2>3. CASE WriteSecret(Unprotected(secret))
    <3>1. Unprotected(secret) \in Secret
      BY Values DEF TypeOK
    <3>2. secret' \in Secret
      BY <2>3, <3>1 DEF WriteSecret
    <3>3. current' = FALSE /\ seen' = seen
      BY <2>3 DEF WriteSecret
    <3> QED BY <1>10, <2>1, <2>2, <3>2, <3>3 DEF GCRemove, TypeOK, CopyOK, passes
  <2>4. CASE UNCHANGED <<secret, seen, current>>
    BY <1>10, <2>1, <2>2, <2>4 DEF GCRemove, TypeOK, CopyOK, passes
  <2> QED BY <1>10, <2>3, <2>4 DEF GCRemove
<1>11. ASSUME SyncSecret, owed' \subseteq Objects PROVE TypeOK' /\ CopyOK'
  BY <1>11 DEF SyncSecret, NeedsCollector, TypeOK, CopyOK, cluster, passes
<1>12. ASSUME NEW k \in Kinds, SyncKind(k), owed' \subseteq Objects PROVE TypeOK' /\ CopyOK'
  <2>1. \A o \in Objects : NextSeen(o) \in Object
    BY Values DEF NextSeen, TypeOK
  <2>2. cache' \in [Objects -> Object]
    BY <1>12, <2>1 DEF SyncKind, TypeOK
  <2>3. gcQueued' \in BOOLEAN
    BY <1>12 DEF SyncKind, TypeOK
  <2> QED BY <1>12, <2>2, <2>3 DEF SyncKind, TypeOK, CopyOK, cluster, passes
<1>13. ASSUME Restart, owed' \subseteq Objects PROVE TypeOK' /\ CopyOK'
  <2>1. PassTyped
    BY <1>13, Values DEF Restart, Places
  <2>2. gc' \in 0 .. NKinds + 1 /\ gcQueued' \in BOOLEAN
    BY <1>13, KindsAssumption DEF Restart, NeedsCollector
  <2> QED BY <1>13, <2>1, <2>2 DEF Restart, TypeOK, CopyOK, cluster
<1>14. ASSUME UserCreatesSecret, owed' \subseteq Objects PROVE TypeOK' /\ CopyOK'
  <2>1. secret' \in Secret /\ current' = FALSE /\ seen' = seen /\ edits' \in Nat
    BY <1>14, Values DEF UserCreatesSecret, Edit, WriteSecret, TypeOK
  <2> QED BY <1>14, <2>1 DEF UserCreatesSecret, Edit, TypeOK, CopyOK, passes, collector
<1>15. ASSUME UserDeletesSecret, owed' \subseteq Objects PROVE TypeOK' /\ CopyOK'
  <2>1. secret.protected => [secret EXCEPT !.at = "deleting"] \in Secret
    BY <1>15, LiveSecret DEF UserDeletesSecret, TypeOK
  <2>2. secret' \in Secret
    BY <1>15, <2>1, Values DEF UserDeletesSecret, WriteSecret
  <2>3. current' = FALSE /\ seen' = seen /\ edits' \in Nat
    BY <1>15 DEF UserDeletesSecret, Edit, WriteSecret, TypeOK
  <2> QED BY <1>15, <2>2, <2>3 DEF UserDeletesSecret, Edit, TypeOK, CopyOK, passes, collector
<1>16. ASSUME NEW o \in Objects, owed' \subseteq Objects,
             UserCreatesObject(o) \/ UserDeletesObject(o) \/ UserMovesObject(o)
       PROVE TypeOK' /\ CopyOK'
  <2>1. /\ New(edits + 1) \in Object
        /\ [objs[o] EXCEPT !.deleting = TRUE] \in Object
        /\ [objs[o] EXCEPT !.uses = ~@] \in Object
    BY Values DEF TypeOK
  <2>2. \E x \in Object : objs' = [objs EXCEPT ![o] = x]
    <3>1. CASE UserCreatesObject(o)
      BY <2>1, <3>1 DEF UserCreatesObject
    <3>2. CASE UserDeletesObject(o)
      BY <2>1, <3>2, Values DEF UserDeletesObject
    <3>3. CASE UserMovesObject(o)
      BY <2>1, <3>3 DEF UserMovesObject
    <3> QED BY <1>16, <3>1, <3>2, <3>3
  <2>3. objs' \in [Objects -> Object]
    BY <2>2 DEF TypeOK
  <2>4. edits' \in Nat /\ UNCHANGED <<enabled, secret, seen, current, cache, mine, made, pc, gc, gcQueued>>
    BY <1>16 DEF UserCreatesObject, UserDeletesObject, UserMovesObject, Edit, TypeOK, passes, collector
  <2> QED BY <1>16, <2>3, <2>4 DEF TypeOK, CopyOK
<1>17. CASE UNCHANGED vars
  BY <1>17 DEF vars, cluster, caches, passes, collector, TypeOK, CopyOK
<1> QED
  BY <1>1, <1>2, <1>3, <1>4, <1>5, <1>6, <1>7, <1>8, <1>9, <1>10, <1>11, <1>12, <1>13,
     <1>14, <1>15, <1>16, <1>17 DEF Next, Step, Pass, Collector, Watches, Users

------------------------------------------------------------------------------
\* While something is owed the Secret keeps its finalizer: the collector does
\* not get as far as taking it off, and everything else leaves it on.
LEMMA ProtectionKept ==
    ASSUME IInv, owed # {}, [Next]_vars
    PROVE  secret'.protected /\ secret'.at # "gone"
<1>1. secret \in Secret /\ secret.protected /\ secret.at # "gone"
  BY DEF IInv, TypeOK, KeepsWhatIsOwed
<1>2. gc # NKinds + 1
  <2>1. PICK o \in owed : TRUE
    OBVIOUS
  <2>2. KindOf[o] \in 1 .. NKinds
    BY <2>1, KindsAssumption DEF IInv, TypeOK, Kinds
  <2>3. gc # 0 => gc <= KindOf[o]
    BY <2>1 DEF IInv, Unlisted
  <2> QED BY <2>2, <2>3, KindsAssumption
<1>3. \/ secret' = secret
      \/ secret' = [secret EXCEPT !.protected = TRUE]
      \/ secret' = [secret EXCEPT !.at = "deleting"]
  <2>1. CASE \E o \in Objects : Pass(o)
    BY <2>1 DEF Pass, Begin, Protect, Hold, Make, Delete, Release, WriteSecret, cluster
  <2>2. CASE Collector
    BY <1>2, <2>2 DEF Collector, GCBegin, GCList, GCRemove, cluster
  <2>3. CASE Watches \/ Restart
    BY <2>3 DEF Watches, SyncSecret, SyncKind, Restart, cluster
  <2>4. CASE Users
    BY <1>1, <2>4 DEF Users, UserCreatesSecret, UserDeletesSecret, UserCreatesObject,
                      UserDeletesObject, UserMovesObject, WriteSecret
  <2>5. CASE UNCHANGED vars
    BY <2>5 DEF vars, cluster
  <2> QED BY <2>1, <2>2, <2>3, <2>4, <2>5 DEF Next, Step
<1> QED BY <1>1, <1>3 DEF Secret

\* What is owed after a step was owed before, of the same object; or it is in
\* the cache as it is, and the collector is idle.
LEMMA OwedBefore ==
    ASSUME Next, NEW o \in owed'
    PROVE  /\ o \in Objects /\ Uses(objs'[o]) /\ KindOf[o] \in enabled'
           /\ \/ o \in owed /\ objs'[o].uid = objs[o].uid
              \/ cache'[o] = objs'[o] /\ gc' = 0 /\ secret'.protected
  BY DEF Next, Remember

\* The cache goes on showing what is owed.
LEMMA CacheKept ==
    ASSUME IInv, Next, NEW o \in owed, o \in Objects, objs'[o].uid = objs[o].uid, Uses(objs'[o])
    PROVE  Uses(cache'[o]) /\ cache'[o].uid = objs'[o].uid
<1>1. Uses(objs[o]) /\ Uses(cache[o]) /\ cache[o].uid = objs[o].uid
  BY DEF IInv, Unlisted
<1>2. CASE cache' = cache
  BY <1>1, <1>2
<1>3. CASE cache' = objs /\ objs' = objs
  BY <1>1, <1>3
<1>4. ASSUME NEW k \in Kinds, SyncKind(k) PROVE Uses(cache'[o]) /\ cache'[o].uid = objs'[o].uid
  <2>1. NextSeen(o) = objs[o]
    BY <1>1 DEF NextSeen
  <2>2. cache'[o] \in {cache[o], NextSeen(o)}
    BY <1>4 DEF SyncKind, IInv, TypeOK
  <2> QED BY <1>1, <1>4, <2>1, <2>2 DEF SyncKind, cluster
<1>5. cache' = cache \/ (cache' = objs /\ objs' = objs) \/ \E k \in Kinds : SyncKind(k)
  <2>1. CASE \E p \in Objects : Pass(p)
    BY <2>1 DEF Pass, Begin, Protect, Hold, Make, Delete, Release, caches
  <2>2. CASE Collector
    BY <2>2 DEF Collector, GCBegin, GCList, GCRemove, caches
  <2>3. CASE Watches
    BY <2>3 DEF Watches, SyncSecret
  <2>4. CASE Restart
    BY <2>4 DEF Restart, cluster
  <2>5. CASE Users
    BY <2>5 DEF Users, UserCreatesSecret, UserDeletesSecret, UserCreatesObject,
                UserDeletesObject, UserMovesObject, Edit
  <2> QED BY <2>1, <2>2, <2>3, <2>4, <2>5 DEF Next, Step
<1> QED BY <1>2, <1>3, <1>4, <1>5

\* The collector stops at the kind of what is owed.
LEMMA NotPassed ==
    ASSUME IInv, Next, NEW o \in owed, o \in Objects
    PROVE  gc' # 0 => gc' <= KindOf[o]
<1>1. KindOf[o] \in Nat /\ KindOf[o] >= 1
  BY KindsAssumption DEF Kinds
<1>2. /\ Uses(cache[o]) /\ IsEnabled(o) /\ gc \in Nat
      /\ gc # 0 => gc <= KindOf[o]
  BY KindsAssumption DEF IInv, Unlisted, TypeOK
<1>3. CASE gc' = gc \/ gc' = 0
  BY <1>2, <1>3
<1>4. CASE GCBegin
  BY <1>1, <1>4 DEF GCBegin
<1>5. CASE GCList
  <2>1. gc = KindOf[o] => StillNeededBy(gc)
    BY <1>2 DEF StillNeededBy, IsEnabled
  <2>2. gc' = 0 \/ (gc' = gc + 1 /\ ~StillNeededBy(gc))
    BY <1>5 DEF GCList
  <2>3. gc \in Kinds
    BY <1>5 DEF GCList
  <2> QED BY <1>1, <1>2, <2>1, <2>2, <2>3, KindsAssumption DEF Kinds
<1>6. (gc' = gc \/ gc' = 0) \/ GCBegin \/ GCList
  <2>1. CASE \E p \in Objects : Pass(p)
    BY <2>1 DEF Pass, Begin, Protect, Hold, Make, Delete, Release, collector
  <2>2. CASE Collector
    BY <2>2 DEF Collector, GCRemove
  <2>3. CASE Watches \/ Restart
    BY <2>3 DEF Watches, SyncSecret, SyncKind, Restart
  <2>4. CASE Users
    BY <2>4 DEF Users, UserCreatesSecret, UserDeletesSecret, UserCreatesObject,
                UserDeletesObject, UserMovesObject, Edit, collector
  <2> QED BY <2>1, <2>2, <2>3, <2>4 DEF Next, Step
<1> QED BY <1>3, <1>4, <1>5, <1>6

\* The invariant holds at the start and is kept by every step.
LEMMA Start == Init => IInv
<1> SUFFICES ASSUME Init PROVE IInv
  OBVIOUS
<1>1. enabled \in Selections
  <2>1. 1 \in Kinds
    BY KindsAssumption DEF Kinds
  <2>2. Kinds \in Selections
    BY <2>1 DEF Selections
  <2> QED BY <2>2 DEF Init
<1>2. objs \in [Objects -> Object] /\ pc \in [Objects -> Places]
  BY Values DEF Init, Places
<1>3. gc \in 0 .. NKinds + 1
  BY KindsAssumption DEF Init
<1> QED BY <1>1, <1>2, <1>3, Values DEF Init, IInv, TypeOK, CopyOK, Unlisted, KeepsWhatIsOwed

LEMMA Kept == IInv /\ [Next]_vars => IInv'
<1> SUFFICES ASSUME IInv, [Next]_vars PROVE IInv'
  OBVIOUS
<1>1. TypeOK' /\ CopyOK'
  BY TypeKept DEF IInv
<1>2. CASE UNCHANGED vars
  BY <1>1, <1>2 DEF vars, cluster, caches, collector, IInv, Unlisted, KeepsWhatIsOwed, IsEnabled
<1>3. CASE Next
  <2>1. ASSUME NEW o \in owed'
        PROVE  /\ Uses(objs'[o]) /\ KindOf[o] \in enabled'
               /\ Uses(cache'[o]) /\ cache'[o].uid = objs'[o].uid
               /\ gc' # 0 => gc' <= KindOf[o]
    <3>1. CASE o \in owed /\ objs'[o].uid = objs[o].uid
      BY <1>3, <3>1, OwedBefore, CacheKept, NotPassed
    <3>2. CASE cache'[o] = objs'[o] /\ gc' = 0
      BY <1>3, <3>2, OwedBefore
    <3> QED BY <1>3, <3>1, <3>2, OwedBefore
  <2>2. Unlisted'
    BY <2>1 DEF Unlisted, IsEnabled
  <2>3. ASSUME NEW o \in owed' PROVE secret'.protected /\ secret'.at # "gone"
    <3>1. CASE o \in owed
      BY <3>1, ProtectionKept
    <3>2. CASE secret'.protected
      BY <1>1, <3>2 DEF TypeOK, Secret
    <3> QED BY <1>3, <3>1, <3>2, OwedBefore
  <2>4. KeepsWhatIsOwed'
    BY <2>3 DEF KeepsWhatIsOwed
  <2> QED BY <1>1, <2>2, <2>4 DEF IInv
<1> QED BY <1>2, <1>3

\* Every variable keeps its type, in particular a deleted Secret its finalizer.
THEOREM TypeCorrect == Spec => []TypeOK
<1>1. IInv => TypeOK
  BY DEF IInv
<1> QED BY <1>1, Start, Kept, PTL DEF Spec

\* The protection finalizer and the Secret stay for every object the collector
\* had a chance to see, until that object is gone, uses another Secret or its
\* kind is disabled.
THEOREM SecretKept == Spec => []KeepsWhatIsOwed
<1>1. IInv => KeepsWhatIsOwed
  BY DEF IInv
<1> QED BY <1>1, Start, Kept, PTL DEF Spec
=============================================================================

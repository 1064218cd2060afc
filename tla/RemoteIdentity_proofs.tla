----------------------- MODULE RemoteIdentity_proofs -----------------------
(***************************************************************************)
(* Theorems about RemoteIdentity.  IdentityInv is shown part by part; each *)
(* part rests on the ones before it.                                       *)
(***************************************************************************)
EXTENDS IdentityInvariant, WellFoundedInduction, TLAPS

PCs == {"idle", "finalizer", "observe", "remove", "add", "status", "delete", "unfinalize"}

----------------------------------------------------------------------------
(* Values                                                                  *)

\* What a write does to an object, and what an identifier found does to a copy.
LEMMA WriteFields ==
    ASSUME NEW o \in Objects
    PROVE  /\ Write(o) \in Objects
           /\ Write(o).uid = o.uid /\ Write(o).rv = o.rv + 1 /\ Write(o).spec = o.spec
           /\ Write(o).deleting = o.deleting /\ Write(o).finalizer = o.finalizer
           /\ Write(o).id = o.id
BY DEF Write, Objects

LEMMA IDFields ==
    ASSUME NEW o \in Objects, NEW i \in Nat
    PROVE  LET p == [o EXCEPT !.id = i]
           IN  /\ p \in Objects /\ p.id = i
               /\ p.uid = o.uid /\ p.rv = o.rv /\ p.spec = o.spec
               /\ p.deleting = o.deleting /\ p.finalizer = o.finalizer
BY DEF Objects

LEMMA FreshFields ==
    ASSUME NEW u \in Nat, NEW s \in Specs \cup {NoSpec}
    PROVE  /\ Fresh(u, s) \in Objects
           /\ Fresh(u, s).uid = u /\ Fresh(u, s).spec = s /\ Fresh(u, s).rv = 1
           /\ Fresh(u, s).id = 0 /\ ~Fresh(u, s).deleting /\ ~Fresh(u, s).finalizer
BY DEF Fresh, Objects

LEMMA NoObjectFields ==
    /\ NoObject \in Objects /\ NoObject.uid = 0 /\ NoObject.id = 0 /\ ~Exists(NoObject)
    /\ ~NoObject.deleting /\ ~NoObject.finalizer /\ NoObject.spec = NoSpec
BY FreshFields DEF NoObject, Exists

\* Two objects with the same fields are the same.
LEMMA SameObject ==
    ASSUME NEW o \in Objects, NEW p \in Objects,
           o.uid = p.uid, o.rv = p.rv, o.spec = p.spec, o.deleting = p.deleting,
           o.finalizer = p.finalizer, o.id = p.id
    PROVE  o = p
BY DEF Objects

\* A set of natural numbers has a least element; one that is bounded, a greatest.
LEMMA LeastNatural ==
    ASSUME NEW S \in SUBSET Nat, S # {}
    PROVE  \E x \in S : \A y \in S : x <= y
<1>1. PICK x \in S : \A y \in S : ~(<<y, x>> \in OpToRel(<, Nat))
    BY NatLessThanWellFounded, WFMin
<1>2. \A y \in S : ~(y < x)
    BY <1>1 DEF OpToRel
<1> QED BY <1>2

LEMMA ExtremesIn ==
    ASSUME NEW n \in Nat, NEW S \in SUBSET (1 .. n), S # {}
    PROVE  Max(S) \in S /\ Min(S) \in S
<1>1. PICK x \in S : \A y \in S : x <= y
    BY LeastNatural
<1>2. Min(S) \in S
    BY <1>1 DEF Min
<1> DEFINE T == {n - i : i \in S}
<1>3. T \in SUBSET Nat /\ T # {}
    OBVIOUS
<1>4. PICK y \in T : \A z \in T : y <= z
    <2> HIDE DEF T
    <2> QED BY <1>3, LeastNatural
<1>5. PICK m \in S : y = n - m
    BY <1>4
<1>6. \A i \in S : n - m <= n - i
    BY <1>4, <1>5
<1>7. \A i \in S : m >= i
    BY <1>6
<1>8. Max(S) \in S
    BY <1>7 DEF Max
<1> QED BY <1>2, <1>8

----------------------------------------------------------------------------
(* What the worker finds                                                   *)

Numbered == \A e \in entries : e.id \in 1 .. lastId

\* Of several entries one is picked.
LEMMA PickFacts ==
    ASSUME TypeOK, NEW E \in SUBSET entries
    PROVE  /\ Pick(E) \subseteq E
           /\ Numbered /\ E # {} => Pick(E) # {}
<1>1. Pick(E) \subseteq E
    BY DEF Pick
<1>2. ASSUME Numbered, E # {} PROVE Pick(E) # {}
    <2>1. IDsOf(E) \in SUBSET (1 .. lastId) /\ IDsOf(E) # {}
        BY <1>2 DEF Numbered, IDsOf
    <2>2. Max(IDsOf(E)) \in IDsOf(E) /\ Min(IDsOf(E)) \in IDsOf(E)
        BY <2>1, ExtremesIn DEF TypeOK
    <2> DEFINE m == IF "replaces" \in kind THEN Max(IDsOf(E)) ELSE Min(IDsOf(E))
    <2>3. PICK e \in E : e.id = m
        BY <2>2 DEF IDsOf
    <2> QED BY <2>3 DEF Pick
<1> QED BY <1>1, <1>2

\* What Observe finds is the entry of the ID, or one with the content; and if
\* it finds none there is none.
LEMMA FoundFacts ==
    ASSUME TypeOK
    PROVE  /\ Found \subseteq entries
           /\ "byID" \in kind /\ obj.id # 0 => Found = WithID(obj.id)
           /\ ~("byID" \in kind /\ obj.id # 0) => Found \subseteq Matching(obj.spec)
           /\ ~("byID" \in kind /\ obj.id # 0) /\ Matching(obj.spec) \cap InUse # {} => Found \subseteq InUse
           /\ Numbered /\ "looksUp" \in kind /\ ~("byID" \in kind /\ obj.id # 0) /\ Found = {}
              => Matching(obj.spec) = {}
<1>1. WithID(obj.id) \subseteq entries /\ Matching(obj.spec) \subseteq entries
    BY DEF WithID, Matching
<1>2. CASE "byID" \in kind /\ obj.id # 0
    BY <1>1, <1>2 DEF Found
<1>3. CASE ~("byID" \in kind /\ obj.id # 0) /\ "looksUp" \notin kind
    BY <1>3 DEF Found
<1>4. CASE ~("byID" \in kind /\ obj.id # 0) /\ "looksUp" \in kind
    <2> DEFINE U == Matching(obj.spec) \cap InUse
    <2>1. U \in SUBSET entries
        BY <1>1
    <2>2. Pick(U) \subseteq U /\ (Numbered /\ U # {} => Pick(U) # {})
        BY <2>1, PickFacts
    <2>3. CASE U # {}
        <3>1. Found = Pick(U)
            BY <1>4, <2>3 DEF Found
        <3> QED BY <1>1, <1>4, <2>2, <2>3, <3>1
    <2>4. CASE U = {}
        <3>1. Found = Matching(obj.spec)
            BY <1>4, <2>4 DEF Found
        <3> QED BY <1>1, <1>4, <2>4, <3>1
    <2> QED BY <2>3, <2>4
<1> QED BY <1>2, <1>3, <1>4

\* What Delete removes is the entry of the ID if there is one.
LEMMA RemovableFacts ==
    ASSUME TypeOK
    PROVE  /\ Removable \subseteq entries
           /\ obj.id # 0 => Removable = WithID(obj.id)
<1>1. Matching(obj.spec) \in SUBSET entries /\ WithID(obj.id) \subseteq entries
    BY DEF Matching, WithID
<1>2. Pick(Matching(obj.spec)) \subseteq entries
    BY <1>1, PickFacts
<1> QED BY <1>1, <1>2 DEF Removable

----------------------------------------------------------------------------
(* Entries                                                                 *)

OneEach == \A e, f \in entries : e.id = f.id => e = f

\* Entries are removed or torn down.
Shrinks ==
    /\ UNCHANGED lastId
    /\ entries' \subseteq Entries
    /\ \A e \in entries' : e \in entries
                            \/ (e.deleting /\ \E f \in entries : f.id = e.id /\ f.spec = e.spec)
    /\ OneEach => OneEach'

\* One is added.
NewEntry(s) == [id |-> NewId, spec |-> s, deleting |-> FALSE]
Grows(s) == lastId' = NewId /\ entries' = entries \cup {NewEntry(s)}

LEMMA NewEntryFields ==
    ASSUME TypeOK, NEW s \in Specs
    PROVE  /\ NewEntry(s) \in Entries
           /\ NewEntry(s).id = lastId + 1 /\ NewEntry(s).spec = s /\ ~NewEntry(s).deleting
BY DEF NewEntry, NewId, Entries, TypeOK

LEMMA SameShrinks ==
    ASSUME TypeOK, UNCHANGED aiven
    PROVE  Shrinks
BY DEF Shrinks, TypeOK, aiven, OneEach

\* An entry that is deleted is gone or no longer in use.
LEMMA GoneFacts ==
    ASSUME TypeOK, NEW x \in entries, Gone({x}), UNCHANGED lastId
    PROVE  /\ Shrinks
           /\ \A e \in entries' : ~e.deleting => e # x
           /\ \A e \in entries : e # x => e \in entries'
           /\ OneEach => \A e \in entries' : ~e.deleting => e.id # x.id
<1> DEFINE y == [x EXCEPT !.deleting = TRUE]
<1>1. y \in Entries /\ y.id = x.id /\ y.spec = x.spec /\ y.deleting
    BY DEF TypeOK, Entries
<1>2. entries' = (entries \ {x}) \cup {y} \/ entries' = entries \ {x}
    BY DEF Gone
<1> HIDE DEF y
<1>3. \A e \in entries' : (e \in entries /\ e # x) \/ e = y
    BY <1>2
<1>4. entries' \subseteq Entries
    BY <1>1, <1>2 DEF TypeOK
<1>5. \A e \in entries' : e \in entries
                            \/ (e.deleting /\ \E f \in entries : f.id = e.id /\ f.spec = e.spec)
    BY <1>1, <1>3
<1>6. ASSUME OneEach PROVE OneEach'
    BY <1>1, <1>3, <1>6 DEF OneEach
<1>7. \A e \in entries' : ~e.deleting => e # x
    BY <1>1, <1>3
<1>8. \A e \in entries : e # x => e \in entries'
    BY <1>2
<1>9. ASSUME OneEach PROVE \A e \in entries' : ~e.deleting => e.id # x.id
    BY <1>1, <1>3, <1>9 DEF OneEach
<1> QED BY <1>4, <1>5, <1>6, <1>7, <1>8, <1>9 DEF Shrinks

LEMMA RemovalFacts ==
    ASSUME TypeOK, NEW x \in entries, entries' = entries \ {x}, UNCHANGED lastId
    PROVE  Shrinks
<1>1. entries' \subseteq entries
    OBVIOUS
<1>2. entries' \subseteq Entries
    BY <1>1 DEF TypeOK
<1>3. OneEach => OneEach'
    BY <1>1 DEF OneEach
<1> QED BY <1>1, <1>2, <1>3 DEF Shrinks

----------------------------------------------------------------------------
(* The worker's moves                                                      *)

\* The worker stops, or goes on with the copy it has, in which it may have
\* put another identifier.
Stops == pc' = "idle" /\ obj' = NoObject
Goes(p, i) == pc' = p /\ obj' = [obj EXCEPT !.id = i]

LEMMA StopsFacts ==
    ASSUME NEW q, Return(q)
    PROVE  Stops
BY DEF Return, Stops

LEMMA GoesSame ==
    ASSUME TypeOK, NEW p, Goto(p, obj)
    PROVE  Goes(p, obj.id)
<1>1. obj = [obj EXCEPT !.id = obj.id]
    BY IDFields, SameObject DEF TypeOK, Objects
<1> QED BY <1>1 DEF Goto, Goes

LEMMA GoesWith ==
    ASSUME NEW p, NEW i, Goto(p, [obj EXCEPT !.id = i])
    PROVE  Goes(p, i)
BY DEF Goto, Goes

\* What Observe, RemoveOld, Add and Delete make of the worker and of Aiven.
LEMMA ObserveMoves ==
    ASSUME TypeOK, Observe
    PROVE  /\ pc = "observe" /\ Shrinks
           /\ UNCHANGED <<kind, stale, cr, cache, aiven, edits, unsaved, mine, troubled, meddled>>
           /\ \/ Stops
              \/ \E e \in Adoptable : Goes("status", e.id)
              \/ /\ Found = {} /\ pc' = IF "replaces" \in kind THEN "remove" ELSE "add"
                 /\ Goes(pc', IF "forgets" \in kind THEN 0 ELSE obj.id)
<1>1. Shrinks
    BY SameShrinks DEF Observe
<1>2. CASE \E e \in Adoptable : Goto("status", [obj EXCEPT !.id = e.id])
    BY <1>1, <1>2, GoesWith DEF Observe
<1>3. CASE Return(TRUE)
    BY <1>1, <1>3, StopsFacts DEF Observe
<1>4. CASE /\ Found = {}
           /\ Goto(IF "replaces" \in kind THEN "remove" ELSE "add",
                   IF "forgets" \in kind THEN [obj EXCEPT !.id = 0] ELSE obj)
    <2>1. pc' = IF "replaces" \in kind THEN "remove" ELSE "add"
        BY <1>4 DEF Goto
    <2>2. CASE "forgets" \in kind
        BY <1>1, <1>4, <2>1, <2>2, GoesWith DEF Observe, Goto
    <2>3. CASE "forgets" \notin kind
        BY <1>1, <1>4, <2>1, <2>3, GoesSame DEF Observe, Goto
    <2> QED BY <2>2, <2>3
<1> QED BY <1>2, <1>3, <1>4 DEF Observe

LEMMA RemoveOldMoves ==
    ASSUME TypeOK, RemoveOld
    PROVE  /\ pc = "remove" /\ Shrinks
           /\ UNCHANGED <<kind, stale, cr, cache, lastId, edits, mine, troubled, meddled>>
           /\ \/ UNCHANGED <<entries, unsaved>> /\ (Stops \/ (Removable = {} /\ Goes("add", obj.id)))
              \/ \E e \in Removable :
                    /\ Gone({e}) /\ unsaved' = unsaved \ {e.id}
                    /\ Stops \/ Goes("add", obj.id)
<1>1. pc = "remove" /\ UNCHANGED <<kind, stale, cr, cache, lastId, edits, mine, troubled, meddled>>
    BY DEF RemoveOld
<1>2. CASE UNCHANGED <<entries, unsaved>> /\ (Return(TRUE) \/ (Removable = {} /\ Goto("add", obj)))
    <2>1. Shrinks
        BY <1>1, <1>2, SameShrinks DEF aiven
    <2> QED BY <1>1, <1>2, <2>1, StopsFacts, GoesSame
<1>3. CASE \E e \in Removable :
               /\ Gone({e}) /\ unsaved' = unsaved \ {e.id}
               /\ Return(TRUE) \/ Goto("add", obj)
    <2>1. PICK e \in Removable : /\ Gone({e}) /\ unsaved' = unsaved \ {e.id}
                                 /\ Return(TRUE) \/ Goto("add", obj)
        BY <1>3
    <2>2. Shrinks
        BY <1>1, <2>1, RemovableFacts, GoneFacts
    <2>3. Stops \/ Goes("add", obj.id)
        BY <2>1, StopsFacts, GoesSame
    <2> QED BY <1>1, <2>1, <2>2, <2>3
<1> QED BY <1>2, <1>3 DEF RemoveOld

LEMMA DeleteMoves ==
    ASSUME TypeOK, Delete
    PROVE  /\ pc = "delete" /\ Shrinks
           /\ UNCHANGED <<kind, stale, cr, cache, lastId, edits, mine, troubled, meddled>>
           /\ \/ /\ UNCHANGED <<entries, unsaved>>
                 /\ Stops \/ ((\A e \in Removable : e.deleting) /\ Goes("unfinalize", obj.id))
              \/ \E e \in Removable :
                    /\ Gone({e}) /\ unsaved' = unsaved \ {e.id}
                    /\ Stops \/ Goes("unfinalize", obj.id)
<1>1. pc = "delete" /\ UNCHANGED <<kind, stale, cr, cache, lastId, edits, mine, troubled, meddled>>
    BY DEF Delete
<1>2. CASE /\ UNCHANGED <<entries, unsaved>>
           /\ Return(TRUE) \/ ((\A e \in Removable : e.deleting) /\ Goto("unfinalize", obj))
    <2>1. Shrinks
        BY <1>1, <1>2, SameShrinks DEF aiven
    <2> QED BY <1>1, <1>2, <2>1, StopsFacts, GoesSame
<1>3. CASE \E e \in Removable :
               /\ Gone({e}) /\ unsaved' = unsaved \ {e.id}
               /\ Return(TRUE) \/ Goto("unfinalize", obj)
    <2>1. PICK e \in Removable : /\ Gone({e}) /\ unsaved' = unsaved \ {e.id}
                                 /\ Return(TRUE) \/ Goto("unfinalize", obj)
        BY <1>3
    <2>2. Shrinks
        BY <1>1, <2>1, RemovableFacts, GoneFacts
    <2>3. Stops \/ Goes("unfinalize", obj.id)
        BY <2>1, StopsFacts, GoesSame
    <2> QED BY <1>1, <2>1, <2>2, <2>3
<1> QED BY <1>2, <1>3 DEF Delete

LEMMA AddMoves ==
    ASSUME TypeOK, Add
    PROVE  /\ pc = "add"
           /\ UNCHANGED <<kind, stale, cr, cache, edits, troubled, meddled>>
           /\ \/ UNCHANGED <<aiven, mine, unsaved>> /\ Shrinks /\ Goes("status", obj.id)
              \/ /\ Grows(obj.spec)
                 /\ mine' = mine \cup {NewId} /\ unsaved' = unsaved \cup {NewId}
                 /\ \/ Goes("status", NewId) \/ Goes("status", obj.id)
                    \/ "replaces" \in kind /\ Goes("status", 0)
<1>1. pc = "add" /\ UNCHANGED <<kind, stale, cr, cache, edits, troubled, meddled>>
    BY DEF Add
<1>2. CASE UNCHANGED <<aiven, mine, unsaved>> /\ Goto("status", obj)
    BY <1>1, <1>2, SameShrinks, GoesSame
<1>3. CASE /\ lastId' = NewId
           /\ entries' = entries \cup {[id |-> lastId', spec |-> obj.spec, deleting |-> FALSE]}
           /\ mine' = mine \cup {lastId'}
           /\ unsaved' = unsaved \cup {lastId'}
           /\ \/ Goto("status", [obj EXCEPT !.id = lastId'])
              \/ Goto("status", obj)
              \/ "replaces" \in kind /\ Goto("status", [obj EXCEPT !.id = 0])
    <2>1. Grows(obj.spec) /\ mine' = mine \cup {NewId} /\ unsaved' = unsaved \cup {NewId}
        BY <1>3 DEF Grows, NewEntry
    <2>2. \/ Goes("status", NewId) \/ Goes("status", obj.id)
          \/ "replaces" \in kind /\ Goes("status", 0)
        BY <1>3, GoesSame, GoesWith
    <2> QED BY <1>1, <2>1, <2>2
<1> QED BY <1>2, <1>3 DEF Add

\* EnsureFinalizer: the worker goes on with its copy, or with the object that
\* the cache shows and the API server has, with the finalizer on.
Finalized ==
    /\ IsCurrent(cache) /\ pc' = "observe" /\ obj' = cr'
    /\ cr' \in Objects /\ cr'.finalizer /\ cr'.uid = cache.uid /\ cr'.spec = cache.spec
    /\ cr'.deleting = cache.deleting /\ cr'.id = cache.id
    /\ cr'.rv = cr.rv + 1

LEMMA EnsureMoves ==
    ASSUME TypeOK, EnsureFinalizer
    PROVE  /\ pc = "finalizer" /\ Shrinks
           /\ UNCHANGED <<kind, stale, cache, aiven, edits, mine, unsaved, troubled, meddled>>
           /\ \/ UNCHANGED cr /\ Stops
              \/ UNCHANGED cr /\ obj.finalizer /\ Goes("observe", obj.id)
              \/ UNCHANGED cr /\ IsCurrent(cache) /\ cache.finalizer /\ pc' = "observe" /\ obj' = cr
              \/ Finalized
<1>1. /\ pc = "finalizer"
      /\ UNCHANGED <<kind, stale, cache, aiven, edits, mine, unsaved, troubled, meddled>>
    BY DEF EnsureFinalizer
<1>2. Shrinks
    BY <1>1, SameShrinks
<1>3. CASE obj.finalizer /\ Goto("observe", obj) /\ UNCHANGED cr
    BY <1>1, <1>2, <1>3, GoesSame
<1>4. CASE /\ IsCurrent(cache)
           /\ cr' = IF cache.finalizer THEN cr ELSE Write([cache EXCEPT !.finalizer = TRUE])
           /\ Goto("observe", cr')
    <2>1. CASE cache.finalizer
        BY <1>1, <1>2, <1>4, <2>1 DEF Goto
    <2>2. CASE ~cache.finalizer
        <3> DEFINE o == [cache EXCEPT !.finalizer = TRUE]
        <3>1. o \in Objects /\ o.uid = cache.uid /\ o.rv = cache.rv /\ o.spec = cache.spec
              /\ o.deleting = cache.deleting /\ o.finalizer /\ o.id = cache.id
            BY DEF TypeOK, Objects
        <3>2. cr' = Write(o)
            BY <1>4, <2>2
        <3> HIDE DEF o
        <3>3. Finalized
            BY <1>4, <3>1, <3>2, WriteFields DEF Finalized, Goto, IsCurrent
        <3> QED BY <1>1, <1>2, <3>3
    <2> QED BY <2>1, <2>2
<1>5. CASE Return(TRUE) /\ UNCHANGED cr
    BY <1>1, <1>2, <1>5, StopsFacts
<1> QED BY <1>3, <1>4, <1>5 DEF EnsureFinalizer

\* PersistStatus: the identifier is saved if the copy is current.
Saves ==
    /\ IsCurrent(obj)
    /\ cr' \in Objects /\ cr'.uid = cr.uid /\ cr'.spec = cr.spec /\ cr'.deleting = cr.deleting
    /\ cr'.finalizer = cr.finalizer /\ cr'.id = obj.id
    /\ cr' = cr \/ cr'.rv = cr.rv + 1
    /\ unsaved' = IF cr.deleting THEN unsaved ELSE unsaved \ {obj.id}

LEMMA PersistMoves ==
    ASSUME TypeOK, PersistStatus
    PROVE  /\ pc = "status" /\ Shrinks /\ Stops
           /\ UNCHANGED <<kind, stale, cache, aiven, edits, mine, troubled, meddled>>
           /\ Saves \/ UNCHANGED <<cr, unsaved>>
<1>1. /\ pc = "status" /\ Stops
      /\ UNCHANGED <<kind, stale, cache, aiven, edits, mine, troubled, meddled>>
    BY StopsFacts DEF PersistStatus
<1>2. Shrinks
    BY <1>1, SameShrinks
<1>3. ASSUME IsCurrent(obj),
             cr' = IF obj.id = cr.id THEN cr ELSE Write([cr EXCEPT !.id = obj.id]),
             unsaved' = IF cr.deleting THEN unsaved ELSE unsaved \ {obj.id}
      PROVE  Saves
    <2>1. CASE obj.id = cr.id
        BY <1>3, <2>1 DEF Saves, TypeOK
    <2>2. CASE obj.id # cr.id
        <3> DEFINE o == [cr EXCEPT !.id = obj.id]
        <3>1. o \in Objects /\ o.uid = cr.uid /\ o.rv = cr.rv /\ o.spec = cr.spec
              /\ o.deleting = cr.deleting /\ o.finalizer = cr.finalizer /\ o.id = obj.id
            BY DEF TypeOK, Objects
        <3>2. cr' = Write(o)
            BY <1>3, <2>2
        <3> HIDE DEF o
        <3> QED BY <1>3, <3>1, <3>2, WriteFields DEF Saves
    <2> QED BY <2>1, <2>2
<1> QED BY <1>1, <1>2, <1>3 DEF PersistStatus

\* RemoveFinalizer: the object goes, or is left without a finalizer.
LetsGo ==
    /\ IsCurrent(cache) /\ cr.finalizer
    /\ \/ cr.deleting /\ cr' = NoObject
       \/ /\ ~cr.deleting
          /\ cr' \in Objects /\ cr'.uid = cr.uid /\ cr'.spec = cr.spec /\ cr'.rv = cr.rv + 1
          /\ ~cr'.deleting /\ ~cr'.finalizer /\ cr'.id = cr.id

LEMMA RemoveMoves ==
    ASSUME TypeOK, RemoveFinalizer
    PROVE  /\ pc = "unfinalize" /\ Shrinks /\ Stops
           /\ UNCHANGED <<kind, stale, cache, aiven, edits, mine, unsaved, troubled, meddled>>
           /\ LetsGo \/ UNCHANGED cr
<1>1. /\ pc = "unfinalize" /\ Stops
      /\ UNCHANGED <<kind, stale, cache, aiven, edits, mine, unsaved, troubled, meddled>>
    BY StopsFacts DEF RemoveFinalizer
<1>2. Shrinks
    BY <1>1, SameShrinks
<1>3. ASSUME IsCurrent(cache), cr.finalizer, ~cr.deleting, cr' = Write([cr EXCEPT !.finalizer = FALSE])
      PROVE  LetsGo
    <2> DEFINE o == [cr EXCEPT !.finalizer = FALSE]
    <2>1. o \in Objects /\ o.uid = cr.uid /\ o.rv = cr.rv /\ o.spec = cr.spec
          /\ o.deleting = cr.deleting /\ ~o.finalizer /\ o.id = cr.id
        BY DEF TypeOK, Objects
    <2>2. cr' = Write(o)
        BY <1>3
    <2> HIDE DEF o
    <2> QED BY <1>3, <2>1, <2>2, WriteFields DEF LetsGo
<1> QED BY <1>1, <1>2, <1>3 DEF RemoveFinalizer, LetsGo

\* Users.
Makes(s) == ~Exists(cr) /\ edits' = edits + 1 /\ cr' = Fresh(edits', s)
Revises ==
    /\ Exists(cr) /\ ~cr.deleting /\ edits' = edits + 1
    /\ cr' \in Objects /\ cr'.uid = cr.uid /\ cr'.rv = cr.rv + 1 /\ cr'.id = cr.id
    /\ cr'.finalizer = cr.finalizer
    /\ \/ cr'.spec \in Specs /\ "replaces" \in kind /\ ~cr'.deleting
       \/ cr'.spec = cr.spec
Withdraws == Exists(cr) /\ ~cr.finalizer /\ edits' = edits + 1 /\ cr' = NoObject

LEMMA UserMoves ==
    ASSUME TypeOK, NEW s \in Specs, UserCreates(s) \/ UserEdits(s) \/ UserTouches \/ UserDeletes
    PROVE  /\ UNCHANGED <<kind, stale, cache, queued, worker, aiven, faults, history>>
           /\ Makes(s) \/ Revises \/ Withdraws
<1>1. UNCHANGED <<kind, stale, cache, queued, worker, aiven, faults, history>>
    BY DEF UserCreates, UserEdits, UserTouches, UserDeletes
<1>2. CASE UserCreates(s)
    BY <1>1, <1>2 DEF UserCreates, Makes, Edit
<1>3. CASE UserEdits(s)
    <2> DEFINE o == [cr EXCEPT !.spec = s]
    <2>1. o \in Objects /\ o.uid = cr.uid /\ o.rv = cr.rv /\ o.spec = s
          /\ o.deleting = cr.deleting /\ o.finalizer = cr.finalizer /\ o.id = cr.id
        BY DEF TypeOK, Objects
    <2>2. cr' = Write(o) /\ Exists(cr) /\ ~cr.deleting /\ edits' = edits + 1 /\ "replaces" \in kind
        BY <1>3 DEF UserEdits, Edit
    <2> HIDE DEF o
    <2>3. Revises
        BY <2>1, <2>2, WriteFields DEF Revises
    <2> QED BY <1>1, <2>3
<1>4. CASE UserTouches
    <2>1. cr' = Write(cr) /\ Exists(cr) /\ ~cr.deleting /\ edits' = edits + 1 /\ cr \in Objects
        BY <1>4 DEF UserTouches, Edit, TypeOK
    <2>2. Revises
        BY <2>1, WriteFields DEF Revises
    <2> QED BY <1>1, <2>2
<1>5. CASE UserDeletes /\ ~cr.finalizer
    BY <1>1, <1>5 DEF UserDeletes, Withdraws, Edit
<1>6. CASE UserDeletes /\ cr.finalizer
    <2> DEFINE o == [cr EXCEPT !.deleting = TRUE]
    <2>1. o \in Objects /\ o.uid = cr.uid /\ o.rv = cr.rv /\ o.spec = cr.spec
          /\ o.deleting /\ o.finalizer = cr.finalizer /\ o.id = cr.id
        BY DEF TypeOK, Objects
    <2>2. cr' = Write(o) /\ Exists(cr) /\ ~cr.deleting /\ edits' = edits + 1
        BY <1>6 DEF UserDeletes, Edit
    <2> HIDE DEF o
    <2>3. Revises
        BY <2>1, <2>2, WriteFields DEF Revises
    <2> QED BY <1>1, <2>3
<1> QED BY <1>2, <1>3, <1>4, <1>5, <1>6

\* Other clients and Aiven.
LEMMA AivenMoves ==
    ASSUME TypeOK, AivenProgress \/ OthersRemove
    PROVE  /\ Shrinks /\ UNCHANGED <<kind, stale, cr, cache, queued, worker, lastId, faults>>
           /\ UNCHANGED <<mine, unsaved, troubled>>
           /\ edits' \in {edits, edits + 1}
           /\ \/ UNCHANGED meddled /\ \A e \in entries : ~e.deleting => e \in entries'
              \/ meddled' = meddled \cup {"remove"}
           /\ \A e \in entries' : e \in entries
<1>1. CASE AivenProgress
    <2>1. PICK x \in entries : x.deleting /\ entries' = entries \ {x}
        BY <1>1 DEF AivenProgress
    <2>2. Shrinks
        BY <1>1, <2>1, RemovalFacts DEF AivenProgress
    <2> QED BY <1>1, <2>1, <2>2 DEF AivenProgress, history
<1>2. CASE OthersRemove
    <2>1. PICK x \in entries : entries' = entries \ {x}
        BY <1>2 DEF OthersRemove
    <2>2. Shrinks
        BY <1>2, <2>1, RemovalFacts DEF OthersRemove
    <2> QED BY <1>2, <2>1, <2>2 DEF OthersRemove, Edit
<1> QED BY <1>1, <1>2

LEMMA OthersAddMoves ==
    ASSUME TypeOK, NEW s \in Specs, OthersAdd(s)
    PROVE  /\ Grows(s) /\ meddled' = meddled \cup {"add"} /\ edits' = edits + 1
           /\ UNCHANGED <<kind, stale, cr, cache, queued, worker, faults, mine, unsaved, troubled>>
BY DEF OthersAdd, Grows, NewEntry, Edit

----------------------------------------------------------------------------
(* Types                                                                   *)

LEMMA GoesType ==
    ASSUME TypeOK, NEW p \in PCs, NEW i \in Nat, Goes(p, i)
    PROVE  /\ pc' = p /\ obj' \in Objects /\ obj'.id = i
           /\ obj'.uid = obj.uid /\ obj'.rv = obj.rv /\ obj'.spec = obj.spec
           /\ obj'.deleting = obj.deleting /\ obj'.finalizer = obj.finalizer
           /\ Exists(obj') <=> Exists(obj)
BY IDFields DEF Goes, TypeOK, Exists

LEMMA StopsType ==
    ASSUME Stops
    PROVE  pc' = "idle" /\ obj' = NoObject /\ obj' \in Objects /\ ~Exists(obj') /\ obj'.id = 0
BY NoObjectFields DEF Stops

\* What the worker becomes, whichever of its calls it made.
LEMMA WorkerType ==
    ASSUME TypeOK, SpecifiedInv,
           Begin \/ EnsureFinalizer \/ Observe \/ RemoveOld \/ Add \/ PersistStatus
                 \/ Delete \/ RemoveFinalizer
    PROVE  /\ pc' \in PCs /\ obj' \in Objects
           /\ Exists(obj') => obj'.spec \in Specs
           /\ pc' # "idle" => Exists(obj')
           /\ pc \in {"finalizer", "observe", "remove", "add", "status"} => obj.spec \in Specs
<1> USE DEF PCs
<1>0. obj.id \in Nat /\ cache.id \in Nat /\ NewId \in Nat /\ obj \in Objects /\ cr \in Objects /\ cache \in Objects
    BY DEF TypeOK, Objects, NewId
<1>1. pc \in {"finalizer", "observe", "remove", "add", "status"} => obj.spec \in Specs
    BY DEF SpecifiedInv, Copies
<1>2. CASE Stops
    BY <1>1, <1>2, StopsType
<1>3. ASSUME NEW p \in PCs, NEW i \in Nat, Goes(p, i), pc # "idle"
      PROVE  pc' \in PCs /\ obj' \in Objects /\ Exists(obj') /\ obj'.spec \in Specs
    <2>1. Exists(obj) /\ obj.spec \in Specs
        BY <1>3 DEF SpecifiedInv, Copies
    <2> QED BY <2>1, <1>3, GoesType
<1>4. CASE Begin
    <2>1. CASE UNCHANGED worker
        BY <1>1, <1>4, <2>1 DEF worker, TypeOK, SpecifiedInv, Copies, Begin
    <2>2. CASE Exists(cache) /\ pc' \in {"delete", "finalizer"} /\ obj' = cache
        BY <1>0, <1>1, <2>2 DEF SpecifiedInv, Copies
    <2> QED BY <1>4, <2>1, <2>2 DEF Begin
<1>5. CASE EnsureFinalizer
    <2>1. CASE IsCurrent(cache) /\ pc' = "observe" /\ obj' = cr /\ UNCHANGED cr
        BY <1>0, <1>1, <2>1 DEF SpecifiedInv, Copies, IsCurrent, Exists
    <2>2. CASE Finalized
        BY <1>0, <1>1, <2>2 DEF SpecifiedInv, Copies, Finalized, IsCurrent, Exists
    <2> QED BY <1>0, <1>1, <1>2, <1>3, <1>5, <2>1, <2>2, EnsureMoves
<1>6. CASE Observe
    <2>1. \A e \in Adoptable : e.id \in Nat
        BY FoundFacts DEF Adoptable, TypeOK, Entries
    <2> QED BY <1>0, <1>1, <1>2, <1>3, <1>6, <2>1, ObserveMoves
<1>7. CASE RemoveOld
    BY <1>0, <1>1, <1>2, <1>3, <1>7, RemoveOldMoves
<1>8. CASE Add
    BY <1>0, <1>1, <1>2, <1>3, <1>8, AddMoves
<1>9. CASE PersistStatus
    BY <1>1, <1>2, <1>9, PersistMoves
<1>10. CASE Delete
    BY <1>0, <1>1, <1>2, <1>3, <1>10, DeleteMoves
<1>11. CASE RemoveFinalizer
    BY <1>1, <1>2, <1>11, RemoveMoves
<1> QED BY <1>4, <1>5, <1>6, <1>7, <1>8, <1>9, <1>10, <1>11

\* What becomes of the object in the API server.
LEMMA ObjectType ==
    ASSUME TypeOK, SpecifiedInv, [Next]_vars
    PROVE  /\ cr' \in Objects /\ (Exists(cr') => cr'.spec \in Specs)
           /\ cache' \in {cache, cr}
<1>0. cr \in Objects /\ (Exists(cr) => cr.spec \in Specs) /\ (Exists(cache) => cache.spec \in Specs)
    BY DEF TypeOK, SpecifiedInv, Copies
<1>1. CASE EnsureFinalizer
    BY <1>0, <1>1, EnsureMoves DEF Finalized, IsCurrent
<1>2. CASE PersistStatus
    BY <1>0, <1>2, PersistMoves DEF Saves, Exists
<1>3. CASE RemoveFinalizer
    BY <1>0, <1>3, RemoveMoves, NoObjectFields DEF LetsGo, Exists
<1>4. ASSUME NEW s \in Specs, UserCreates(s) \/ UserEdits(s) \/ UserTouches \/ UserDeletes
      PROVE  /\ cr' \in Objects /\ (Exists(cr') => cr'.spec \in Specs)
             /\ cache' \in {cache, cr}
    <2>1. CASE Makes(s)
        <3>1. edits' \in Nat
            BY <2>1 DEF Makes, TypeOK
        <3> QED BY <1>4, <2>1, <3>1, FreshFields, UserMoves DEF Makes
    <2>2. CASE Revises
        BY <1>0, <1>4, <2>2, UserMoves DEF Revises, Exists
    <2>3. CASE Withdraws
        BY <1>4, <2>3, UserMoves, NoObjectFields DEF Withdraws
    <2> QED BY <1>4, <2>1, <2>2, <2>3, UserMoves
<1>5. CASE Begin \/ Observe \/ RemoveOld \/ Add \/ Delete \/ Crash \/ SyncCache
           \/ AivenProgress \/ OthersRemove \/ (\E s \in Specs : OthersAdd(s)) \/ UNCHANGED vars
    BY <1>0, <1>5 DEF Begin, Observe, RemoveOld, Add, Delete, Crash, SyncCache, AivenProgress,
                      OthersRemove, OthersAdd, vars
<1>7. CASE UserTouches \/ UserDeletes
    <2>1. Exists(cr)
        BY <1>7 DEF UserTouches, UserDeletes
    <2> QED BY <1>0, <1>4, <1>7, <2>1
<1> QED BY <1>1, <1>2, <1>3, <1>4, <1>5, <1>7 DEF Next, Reconcile, Others

\* What becomes of the entries and of the record of them.
LEMMA EntriesType ==
    ASSUME TypeOK, SpecifiedInv, [Next]_vars
    PROVE  /\ Shrinks \/ \E s \in Specs : Grows(s)
           /\ entries' \subseteq Entries /\ lastId' \in Nat
           /\ mine' \subseteq 1 .. lastId' /\ unsaved' \subseteq mine'
<1>0. /\ mine \subseteq 1 .. lastId /\ unsaved \subseteq mine /\ lastId \in Nat /\ NewId = lastId + 1
      /\ entries \subseteq Entries
    BY DEF TypeOK, NewId
<1>1. ASSUME Shrinks, UNCHANGED mine, unsaved' \subseteq unsaved
      PROVE  /\ Shrinks \/ \E s \in Specs : Grows(s)
             /\ entries' \subseteq Entries /\ lastId' \in Nat
             /\ mine' \subseteq 1 .. lastId' /\ unsaved' \subseteq mine'
    BY <1>0, <1>1 DEF Shrinks
<1>2. ASSUME NEW s \in Specs, Grows(s),
             (UNCHANGED <<mine, unsaved>>)
                \/ (mine' = mine \cup {NewId} /\ unsaved' = unsaved \cup {NewId})
      PROVE  /\ Shrinks \/ \E t \in Specs : Grows(t)
             /\ entries' \subseteq Entries /\ lastId' \in Nat
             /\ mine' \subseteq 1 .. lastId' /\ unsaved' \subseteq mine'
    <2>1. lastId' = lastId + 1 /\ entries' = entries \cup {NewEntry(s)}
        BY <1>0, <1>2 DEF Grows
    <2>2. entries' \subseteq Entries
        BY <1>0, <2>1, NewEntryFields
    <2>3. 1 .. lastId \subseteq 1 .. lastId' /\ NewId \in 1 .. lastId' /\ lastId' \in Nat
        BY <1>0, <2>1
    <2> QED BY <1>0, <1>2, <2>2, <2>3
<1>3. CASE EnsureFinalizer
    BY <1>1, <1>3, EnsureMoves
<1>4. CASE Observe
    BY <1>1, <1>4, ObserveMoves
<1>5. CASE RemoveOld
    BY <1>1, <1>5, RemoveOldMoves
<1>6. CASE Add
    <2>1. obj.spec \in Specs
        BY <1>6, WorkerType, AddMoves
    <2>2. CASE Shrinks /\ UNCHANGED <<mine, unsaved>>
        BY <1>1, <2>2
    <2>3. CASE Grows(obj.spec) /\ mine' = mine \cup {NewId} /\ unsaved' = unsaved \cup {NewId}
        BY <1>2, <2>1, <2>3
    <2> QED BY <1>6, <2>2, <2>3, AddMoves
<1>7. CASE PersistStatus
    BY <1>1, <1>7, PersistMoves DEF Saves
<1>8. CASE Delete
    BY <1>1, <1>8, DeleteMoves
<1>9. CASE RemoveFinalizer
    BY <1>1, <1>9, RemoveMoves
<1>10. CASE Begin \/ Crash \/ SyncCache \/ UserTouches \/ UserDeletes
            \/ (\E s \in Specs : UserCreates(s) \/ UserEdits(s)) \/ UNCHANGED vars
    <2>1. CASE Begin \/ Crash
        BY <1>1, <2>1, SameShrinks DEF Begin, Crash
    <2>2. CASE SyncCache \/ UserTouches \/ UserDeletes \/ UNCHANGED vars
        <3>1. UNCHANGED <<aiven, mine, unsaved>>
            <4>1. CASE SyncCache
                BY <4>1 DEF SyncCache, history
            <4>3. CASE UNCHANGED vars
                BY <4>3 DEF vars, history, aiven, worker
            <4>2. CASE UserTouches \/ UserDeletes
                BY <4>2 DEF UserTouches, UserDeletes, history
            <4> QED BY <2>2, <4>1, <4>2, <4>3
        <3> QED BY <1>1, <3>1, SameShrinks
    <2>3. ASSUME NEW s \in Specs, UserCreates(s) \/ UserEdits(s)
          PROVE  UNCHANGED <<aiven, mine, unsaved>>
        BY <2>3 DEF UserCreates, UserEdits, history
    <2> QED BY <1>1, <1>10, <2>1, <2>2, <2>3, SameShrinks
<1>11. CASE AivenProgress \/ OthersRemove
    BY <1>1, <1>11, AivenMoves
<1>12. ASSUME NEW s \in Specs, OthersAdd(s)
       PROVE  /\ Shrinks \/ \E t \in Specs : Grows(t)
              /\ entries' \subseteq Entries /\ lastId' \in Nat
              /\ mine' \subseteq 1 .. lastId' /\ unsaved' \subseteq mine'
    BY <1>2, <1>12, OthersAddMoves
<1> QED BY <1>3, <1>4, <1>5, <1>6, <1>7, <1>8, <1>9, <1>10, <1>11, <1>12 DEF Next, Reconcile, Others

LEMMA CountersType ==
    ASSUME TypeOK, [Next]_vars
    PROVE  /\ kind' = kind /\ queued' \in BOOLEAN /\ {edits, faults, stale}' \subseteq Nat
           /\ troubled' \in BOOLEAN /\ meddled' \subseteq {"add", "remove"}
           /\ edits' \in {edits, edits + 1}
<1> USE DEF TypeOK
<1>1. CASE Begin
    <2>1. kind' = kind /\ queued' = FALSE /\ UNCHANGED <<edits, faults, meddled>>
        BY <1>1 DEF Begin
    <2>2. stale' \in Nat
        BY <1>1 DEF Begin
    <2>3. troubled' \in BOOLEAN
        BY <1>1 DEF Begin
    <2> QED BY <2>1, <2>2, <2>3
<1>2. CASE EnsureFinalizer
    BY <1>2 DEF EnsureFinalizer, Goto, Return
<1>3. CASE Observe
    <2>1. UNCHANGED queued \/ queued' = (queued \/ TRUE) \/ queued' = (queued \/ FALSE)
        BY <1>3 DEF Observe, Goto, Return
    <2>2. faults' \in Nat
        <3>1. UNCHANGED faults \/ Fault
            BY <1>3, Zenon DEF Observe
        <3> QED BY <3>1 DEF Fault
    <2> QED BY <1>3, <2>1, <2>2, ObserveMoves
<1>4. CASE RemoveOld
    <2>1. UNCHANGED queued \/ queued' = (queued \/ TRUE) \/ queued' = (queued \/ FALSE)
        BY <1>4 DEF RemoveOld, Goto, Return
    <2>2. faults' \in Nat
        <3>1. UNCHANGED faults \/ Fault
            BY <1>4, Zenon DEF RemoveOld
        <3> QED BY <3>1 DEF Fault
    <2> QED BY <1>4, <2>1, <2>2, RemoveOldMoves
<1>5. CASE Add
    BY <1>5 DEF Add, Goto, Return, Fault
<1>6. CASE PersistStatus
    BY <1>6 DEF PersistStatus, Goto, Return, Fault
<1>7. CASE Delete
    <2>1. UNCHANGED queued \/ queued' = (queued \/ TRUE) \/ queued' = (queued \/ FALSE)
        BY <1>7 DEF Delete, Goto, Return
    <2>2. faults' \in Nat
        <3>1. UNCHANGED faults \/ Fault
            BY <1>7, Zenon DEF Delete
        <3> QED BY <3>1 DEF Fault
    <2> QED BY <1>7, <2>1, <2>2, DeleteMoves
<1>8. CASE RemoveFinalizer
    <2>1. UNCHANGED queued \/ queued' = (queued \/ TRUE) \/ queued' = (queued \/ FALSE)
        BY <1>8 DEF RemoveFinalizer, Goto, Return
    <2>2. faults' \in Nat
        <3>1. UNCHANGED faults \/ Fault
            BY <1>8, Zenon DEF RemoveFinalizer
        <3> QED BY <3>1 DEF Fault
    <2> QED BY <1>8, <2>1, <2>2, RemoveMoves
<1>9. CASE Crash
    BY <1>9 DEF Crash, Return, Fault
<1>10. CASE SyncCache
    BY <1>10 DEF SyncCache, history
<1>11. CASE AivenProgress
    BY <1>11 DEF AivenProgress, history
<1>12. ASSUME NEW s \in Specs, UserCreates(s) \/ UserEdits(s) \/ OthersAdd(s)
       PROVE  /\ kind' = kind /\ queued' \in BOOLEAN /\ {edits, faults, stale}' \subseteq Nat
              /\ troubled' \in BOOLEAN /\ meddled' \subseteq {"add", "remove"}
              /\ edits' \in {edits, edits + 1}
    BY <1>12 DEF UserCreates, UserEdits, OthersAdd, Edit, history
<1>13. CASE UserTouches \/ UserDeletes \/ OthersRemove
    BY <1>13 DEF UserTouches, UserDeletes, OthersRemove, Edit, history
<1>14. CASE UNCHANGED vars
    BY <1>14 DEF vars, history, aiven, worker
<1> QED BY <1>1, <1>2, <1>3, <1>4, <1>5, <1>6, <1>7, <1>8, <1>9, <1>10, <1>11, <1>12, <1>13, <1>14
        DEF Next, Reconcile, Others

\* A step is one of the worker's, or leaves the worker alone, or stops it.
LEMMA WorkerMoves ==
    ASSUME [Next]_vars
    PROVE  \/ Begin \/ EnsureFinalizer \/ Observe \/ RemoveOld \/ Add \/ PersistStatus
                 \/ Delete \/ RemoveFinalizer
           \/ Stops \/ UNCHANGED worker
<1>1. CASE Crash
    BY <1>1, StopsFacts DEF Crash
<1>2. CASE SyncCache \/ AivenProgress
    BY <1>2 DEF SyncCache, AivenProgress
<1>3. CASE Others
    BY <1>3 DEF Others, UserCreates, UserEdits, OthersAdd, UserTouches, UserDeletes, OthersRemove
<1>4. CASE UNCHANGED vars
    BY <1>4 DEF vars, worker
<1> QED BY <1>1, <1>2, <1>3, <1>4 DEF Next, Reconcile

LEMMA TypeStep ==
    ASSUME TypeOK, SpecifiedInv, [Next]_vars
    PROVE  TypeOK' /\ SpecifiedInv'
<1>1. /\ pc' \in PCs /\ obj' \in Objects
      /\ Exists(obj') => obj'.spec \in Specs
      /\ pc' # "idle" => Exists(obj')
    <2>1. CASE UNCHANGED worker
        BY <2>1 DEF worker, TypeOK, SpecifiedInv, Copies, Exists, PCs
    <2>2. CASE Stops
        BY <2>2, StopsType DEF PCs
    <2> QED BY <2>1, <2>2, WorkerMoves, WorkerType
<1>2. cache' \in Objects /\ (Exists(cache') => cache'.spec \in Specs)
    BY ObjectType DEF TypeOK, SpecifiedInv, Copies
<1>3. cr' \in Objects /\ (Exists(cr') => cr'.spec \in Specs)
    BY ObjectType
<1>4. SpecifiedInv'
    BY <1>1, <1>2, <1>3 DEF SpecifiedInv, Copies, Exists
<1>5. TypeOK'
    BY <1>1, <1>2, <1>3, EntriesType, CountersType DEF TypeOK, PCs
<1> QED BY <1>4, <1>5

LEMMA InitTyped == Init => TypeOK /\ SpecifiedInv
<1> SUFFICES ASSUME Init PROVE TypeOK /\ SpecifiedInv
    OBVIOUS
<1>1. /\ cr = NoObject /\ cache = NoObject /\ obj = NoObject /\ pc = "idle"
      /\ kind \in Kinds /\ queued = FALSE /\ entries = {} /\ lastId = 0
      /\ edits = 0 /\ faults = 0 /\ stale = 0 /\ mine = {} /\ unsaved = {}
      /\ troubled = FALSE /\ meddled = {}
    BY DEF Init
<1>2. TypeOK
    <2>1. entries \subseteq Entries /\ mine \subseteq 1 .. lastId /\ unsaved \subseteq mine
        BY <1>1
    <2>2. {edits, faults, stale} \subseteq Nat /\ lastId \in Nat /\ meddled \subseteq {"add", "remove"}
        BY <1>1
    <2> QED BY <1>1, <2>1, <2>2, NoObjectFields DEF TypeOK
<1>3. SpecifiedInv
    BY <1>1, NoObjectFields DEF SpecifiedInv, Copies
<1> QED BY <1>2, <1>3

\* Every reachable state is well typed; the contents of entries are those of
\* objects, never the placeholder of an object that is not there.
THEOREM TypeCorrect == Spec => []TypeOK
<1>1. TypeOK /\ SpecifiedInv /\ [Next]_vars => (TypeOK /\ SpecifiedInv)'
    BY TypeStep
<1> QED BY InitTyped, <1>1, PTL DEF Spec

----------------------------------------------------------------------------
(* CopiesInv                                                               *)

Typed == TypeOK /\ SpecifiedInv

LEMMA ObjectsTyped ==
    ASSUME TypeOK
    PROVE  /\ cr \in Objects /\ cache \in Objects /\ obj \in Objects
           /\ \A o \in {cr, cache, obj} : o.uid \in Nat /\ o.rv \in Nat /\ o.id \in Nat
                                          /\ o.deleting \in BOOLEAN /\ o.finalizer \in BOOLEAN
           /\ edits \in Nat /\ lastId \in Nat
BY DEF TypeOK, Objects

\* A copy that is current is the object.
LEMMA CurrentIsSame ==
    ASSUME TypeOK, CopiesInv
    PROVE  /\ IsCurrent(cache) => cache = cr
           /\ IsCurrent(obj) /\ pc # "idle" =>
                 /\ obj.deleting = cr.deleting /\ obj.finalizer = cr.finalizer /\ obj.spec = cr.spec
                 /\ pc \in Fetched => obj = cr
           /\ IsCurrent(obj) => pc # "idle"
<1> USE DEF Exists
<1>0. cr \in Objects /\ cache \in Objects /\ obj \in Objects
    BY ObjectsTyped
<1>1. ASSUME NEW o \in Objects, Earlier(o), IsCurrent(o)
      PROVE  /\ o.deleting = cr.deleting /\ o.finalizer = cr.finalizer /\ o.spec = cr.spec
             /\ o.id = cr.id => o = cr
    <2> DEFINE c == [o EXCEPT !.id = cr.id]
    <2>1. cr = c
        BY <1>1 DEF Earlier, IsCurrent
    <2>2. c.deleting = o.deleting /\ c.finalizer = o.finalizer /\ c.spec = o.spec /\ c.rv = o.rv
          /\ c.uid = o.uid
        BY <1>0, IDFields DEF Objects
    <2> HIDE DEF c
    <2>3. ASSUME o.id = cr.id PROVE o = cr
        BY <1>0, <2>1, <2>2, <2>3, SameObject
    <2> QED BY <2>1, <2>2, <2>3
<1>2. IsCurrent(cache) => cache = cr
    BY <1>0, <1>1 DEF CopiesInv, CacheIsEarlier
<1>3. IsCurrent(obj) => pc # "idle"
    BY NoObjectFields DEF IsCurrent, CopiesInv, WorkerIsEarlier
<1>4. pc # "idle" => Earlier(obj) /\ (pc \in Fetched /\ IsCurrent(obj) => obj.id = cr.id)
    BY DEF CopiesInv, WorkerIsEarlier
<1> QED BY <1>0, <1>1, <1>2, <1>3, <1>4

\* An object equal to the one in the API server but for the identifier.
LEMMA EarlierFields ==
    ASSUME TypeOK, NEW o \in Objects
    PROVE  Earlier(o) <=>
             (Exists(o) /\ o.uid = cr.uid =>
                /\ o.rv <= cr.rv
                /\ o.deleting => cr.deleting
                /\ o.rv = cr.rv => /\ o.spec = cr.spec /\ o.deleting = cr.deleting
                                   /\ o.finalizer = cr.finalizer)
<1> DEFINE c == [o EXCEPT !.id = cr.id]
<1>0. cr \in Objects /\ cr.id \in Nat
    BY ObjectsTyped
<1>1. c \in Objects /\ c.id = cr.id /\ c.uid = o.uid /\ c.rv = o.rv /\ c.spec = o.spec
      /\ c.deleting = o.deleting /\ c.finalizer = o.finalizer
    BY <1>0, IDFields
<1>2. Earlier(o) <=> (Exists(o) /\ o.uid = cr.uid =>
                        /\ o.rv <= cr.rv
                        /\ o.deleting => cr.deleting
                        /\ o.rv = cr.rv => cr = c)
    BY DEF Earlier
<1> HIDE DEF c
<1>3. o.uid = cr.uid /\ o.rv = cr.rv =>
        (cr = c <=> o.spec = cr.spec /\ o.deleting = cr.deleting /\ o.finalizer = cr.finalizer)
    BY <1>0, <1>1, SameObject
<1> QED BY <1>2, <1>3

\* The same, of the copies that there are.
Behind(o) ==
    Exists(o) /\ o.uid = cr.uid =>
        /\ o.rv <= cr.rv
        /\ o.deleting => cr.deleting
        /\ o.rv = cr.rv => o.spec = cr.spec /\ o.deleting = cr.deleting /\ o.finalizer = cr.finalizer

LEMMA CopiesFields ==
    ASSUME TypeOK
    PROVE  (Earlier(cache) <=> Behind(cache)) /\ (Earlier(obj) <=> Behind(obj))
BY EarlierFields, ObjectsTyped DEF Behind

\* Steps of the worker between its reads and writes of the object.
LEMMA LocalCopies ==
    ASSUME Typed, CopiesInv, Typed', WorkerPath',
           UNCHANGED <<cr, cache>>, edits' \in {edits, edits + 1},
           \/ UNCHANGED worker
           \/ Stops
           \/ \E p \in PCs, i \in Nat :
                 Goes(p, i) /\ pc # "idle" /\ p # "idle"
                 /\ (p \in Fetched => pc \in Fetched /\ i = obj.id)
    PROVE  CopiesInv'
<1> USE DEF Typed
<1>1. CacheIsEarlier'
    BY ObjectsTyped DEF CopiesInv, CacheIsEarlier, Earlier, IsCurrent, Exists
<1>2. WorkerIsEarlier'
    <2>1. CASE UNCHANGED worker
        BY <2>1, ObjectsTyped DEF worker, CopiesInv, WorkerIsEarlier, Earlier, IsCurrent, Exists
    <2>2. CASE Stops
        BY <2>2 DEF Stops, WorkerIsEarlier
    <2>3. ASSUME NEW p \in PCs, NEW i \in Nat, Goes(p, i), pc # "idle", p # "idle",
                 p \in Fetched => pc \in Fetched /\ i = obj.id
          PROVE  WorkerIsEarlier'
        <3>1. /\ pc' = p /\ obj' \in Objects /\ obj'.id = i
              /\ obj'.uid = obj.uid /\ obj'.rv = obj.rv /\ obj'.spec = obj.spec
              /\ obj'.deleting = obj.deleting /\ obj'.finalizer = obj.finalizer
              /\ Exists(obj') <=> Exists(obj)
            BY <2>3, GoesType
        <3>2. WorkerIsEarlier
            BY DEF CopiesInv
        <3>3. Behind(obj)
            BY <2>3, <3>2, CopiesFields DEF WorkerIsEarlier
        <3>4. Behind(obj)'
            BY <3>1, <3>3 DEF Behind, Exists
        <3>5. Earlier(obj)'
            BY <3>4, CopiesFields, PTL
        <3>6. obj'.uid \in 1 .. edits'
            BY <2>3, <3>1, <3>2, ObjectsTyped DEF WorkerIsEarlier
        <3>7. (pc \in Fetched /\ IsCurrent(obj) => obj.id = cr.id)'
            BY <2>3, <3>1, <3>2 DEF WorkerIsEarlier, IsCurrent, Exists
        <3> QED BY <2>3, <3>1, <3>2, <3>5, <3>6, <3>7 DEF WorkerIsEarlier
    <2> QED BY <2>1, <2>2, <2>3
<1> QED BY <1>1, <1>2 DEF CopiesInv

\* Begin, and the cache catching up.
LEMMA BeginCopies ==
    ASSUME Typed, CopiesInv, Typed', Begin
    PROVE  CopiesInv'
<1> USE DEF Typed
<1>1. CASE UNCHANGED worker
    <2>1. WorkerPath'
        BY <1>1 DEF worker, CopiesInv, WorkerPath, Begin
    <2> QED BY <1>1, <2>1, LocalCopies DEF Begin
<1>2. CASE Exists(cache) /\ (cache.deleting => cache.finalizer)
           /\ pc' = (IF cache.deleting THEN "delete" ELSE "finalizer") /\ obj' = cache
    <2>1. UNCHANGED <<kind, cr, cache, edits>> /\ CacheIsEarlier
        BY DEF Begin, CopiesInv
    <2>2. CacheIsEarlier'
        BY <2>1 DEF CacheIsEarlier, Earlier, IsCurrent, Exists
    <2>3. WorkerIsEarlier'
        BY <1>2, <2>1, ObjectsTyped DEF WorkerIsEarlier, CacheIsEarlier, Earlier, IsCurrent, Exists
    <2>4. WorkerPath'
        BY <1>2, <2>1, ObjectsTyped DEF WorkerPath
    <2> QED BY <2>2, <2>3, <2>4 DEF CopiesInv
<1> QED BY <1>1, <1>2 DEF Begin

LEMMA CatchUpCopies ==
    ASSUME Typed, CopiesInv, Typed', cache' = cr, UNCHANGED <<kind, cr, edits>>,
           Stops \/ UNCHANGED worker
    PROVE  CopiesInv'
<1> USE DEF Typed
<1>1. CacheIsEarlier
    BY DEF CopiesInv
<1>2. Behind(cache)'
    BY ObjectsTyped DEF Behind
<1>3. Earlier(cache)'
    BY <1>2, CopiesFields, PTL
<1>4. CacheIsEarlier'
    BY <1>1, <1>3 DEF CacheIsEarlier, IsCurrent, Exists
<1>5. CASE Stops
    BY <1>4, <1>5 DEF CopiesInv, Stops, WorkerIsEarlier, WorkerPath
<1>6. CASE UNCHANGED worker
    <2>1. WorkerPath'
        BY <1>6 DEF worker, CopiesInv, WorkerPath
    <2>2. WorkerIsEarlier'
        BY <1>6 DEF worker, CopiesInv, WorkerIsEarlier, Earlier, IsCurrent, Exists
    <2> QED BY <1>4, <2>1, <2>2 DEF CopiesInv
<1> QED BY <1>5, <1>6

\* The finalizer is put on the object that the cache shows and the API server has.
LEMMA FinalizedCopies ==
    ASSUME Typed, CopiesInv, Typed', Finalized, UNCHANGED <<kind, cache, edits>>
    PROVE  CopiesInv'
<1> USE DEF Typed
<1>1. CacheIsEarlier /\ cache = cr /\ Exists(cr) /\ Exists(cache)
    BY CurrentIsSame DEF CopiesInv, Finalized, IsCurrent, Exists
<1>2. Behind(cache)' /\ Behind(obj)'
    <2>1. cr.rv \in Nat /\ cr'.rv = cr.rv + 1 /\ obj' = cr' /\ cr'.deleting = cr.deleting
        BY <1>1, ObjectsTyped DEF Finalized
    <2>2. Behind(cache)'
        BY <1>1, <2>1 DEF Behind
    <2>3. Behind(obj)'
        BY <2>1 DEF Behind
    <2> QED BY <2>2, <2>3
<1>3. Earlier(cache)' /\ Earlier(obj)'
    BY <1>2, CopiesFields, PTL
<1>4. CacheIsEarlier'
    BY <1>1, <1>3, ObjectsTyped DEF CacheIsEarlier, IsCurrent, Exists, Finalized
<1>5. obj'.uid \in 1 .. edits'
    BY <1>1, ObjectsTyped DEF CacheIsEarlier, Finalized, Exists
<1>6. WorkerIsEarlier'
    BY <1>1, <1>3, <1>5, ObjectsTyped DEF WorkerIsEarlier, IsCurrent, Exists, Finalized
<1>7. WorkerPath'
    BY DEF WorkerPath, Finalized
<1> QED BY <1>4, <1>6, <1>7 DEF CopiesInv

LEMMA EnsureCopies ==
    ASSUME Typed, CopiesInv, Typed', EnsureFinalizer
    PROVE  CopiesInv'
<1> USE DEF Typed
<1>1. pc = "finalizer" /\ UNCHANGED <<kind, cache, edits>>
    BY EnsureMoves
<1>2. CASE UNCHANGED cr /\ Stops
    <2>1. WorkerPath'
        BY <1>2 DEF WorkerPath, Stops
    <2> QED BY <1>1, <1>2, <2>1, LocalCopies
<1>3. CASE UNCHANGED cr /\ obj.finalizer /\ Goes("observe", obj.id)
    <2>1. WorkerPath'
        BY <1>3, GoesType, ObjectsTyped DEF WorkerPath, PCs
    <2> QED BY <1>1, <1>3, <2>1, LocalCopies, ObjectsTyped DEF PCs, Fetched
<1>4. CASE UNCHANGED cr /\ IsCurrent(cache) /\ cache.finalizer /\ pc' = "observe" /\ obj' = cr
    <2>1. CacheIsEarlier /\ cache = cr /\ Exists(cr)
        BY <1>4, CurrentIsSame DEF CopiesInv, IsCurrent, Exists
    <2>2. CacheIsEarlier' /\ Earlier(cache)'
        BY <1>1, <1>4, <2>1 DEF CacheIsEarlier, Earlier, IsCurrent, Exists
    <2>3. WorkerIsEarlier'
        BY <1>1, <1>4, <2>1, <2>2, ObjectsTyped DEF CacheIsEarlier, WorkerIsEarlier, Earlier, IsCurrent, Exists
    <2>4. WorkerPath'
        BY <1>4, <2>1 DEF WorkerPath
    <2> QED BY <2>2, <2>3, <2>4 DEF CopiesInv
<1> QED BY <1>1, <1>2, <1>3, <1>4, EnsureMoves, FinalizedCopies

\* Writes of the object after which the worker stops.
LEMMA WrittenCopies ==
    ASSUME Typed, CopiesInv, Typed', Stops, UNCHANGED <<kind, cache, edits>>,
           cache.uid = cr.uid, cr'.uid = cr.uid, cr'.rv = cr.rv + 1, cr'.deleting = cr.deleting,
           Exists(cr)
    PROVE  CopiesInv'
<1> USE DEF Typed
<1>1. CacheIsEarlier
    BY DEF CopiesInv
<1>2. Behind(cache)
    BY <1>1, CopiesFields DEF CacheIsEarlier
<1>3. Behind(cache)'
    BY <1>2, ObjectsTyped DEF Behind, Exists
<1>4. cr'.rv > cache.rv
    BY <1>2, ObjectsTyped DEF Behind, Exists
<1>5. Earlier(cache)'
    BY <1>3, CopiesFields, PTL
<1>6. CacheIsEarlier'
    BY <1>1, <1>4, <1>5, ObjectsTyped DEF CacheIsEarlier, IsCurrent, Exists
<1> QED BY <1>6 DEF CopiesInv, Stops, WorkerIsEarlier, WorkerPath

LEMMA PersistCopies ==
    ASSUME Typed, CopiesInv, Typed', PersistStatus
    PROVE  CopiesInv'
<1> USE DEF Typed
<1>1. pc = "status" /\ Stops /\ UNCHANGED <<kind, cache, edits>>
    BY PersistMoves
<1>2. WorkerPath'
    BY <1>1 DEF WorkerPath, Stops
<1>3. CASE UNCHANGED cr
    BY <1>1, <1>2, <1>3, LocalCopies
<1>4. CASE Saves /\ cr' # cr
    <2>1. cache.uid = cr.uid /\ Exists(cr)
        BY <1>1, <1>4 DEF Saves, IsCurrent, Exists, CopiesInv, WorkerIsEarlier
    <2> QED BY <1>1, <1>4, <2>1, WrittenCopies DEF Saves
<1> QED BY <1>3, <1>4, PersistMoves

LEMMA RemoveCopies ==
    ASSUME Typed, CopiesInv, Typed', RemoveFinalizer
    PROVE  CopiesInv'
<1> USE DEF Typed
<1>1. pc = "unfinalize" /\ Stops /\ UNCHANGED <<kind, cache, edits>>
    BY RemoveMoves
<1>2. WorkerPath'
    BY <1>1 DEF WorkerPath, Stops
<1>3. CASE UNCHANGED cr
    BY <1>1, <1>2, <1>3, LocalCopies
<1>4. CASE LetsGo
    <2>1. cache = cr /\ Exists(cr) /\ CacheIsEarlier
        BY <1>4, CurrentIsSame DEF LetsGo, IsCurrent, Exists, CopiesInv
    <2>2. CASE cr' = NoObject
        <3>1. CacheIsEarlier'
            BY <1>1, <2>1, <2>2, NoObjectFields, ObjectsTyped DEF CacheIsEarlier, Earlier, IsCurrent, Exists
        <3> QED BY <1>1, <1>2, <3>1 DEF CopiesInv, WorkerIsEarlier, Stops
    <2>3. CASE cr' # NoObject
        <3>1. /\ ~cr.deleting /\ ~cr'.deleting /\ cr' \in Objects
              /\ cr'.uid = cr.uid /\ cr'.rv = cr.rv + 1
            BY <1>4, <2>3 DEF LetsGo
        <3>2. cr'.deleting = cr.deleting
            BY <3>1, ObjectsTyped DEF Objects
        <3> QED BY <1>1, <2>1, <3>1, <3>2, WrittenCopies
    <2> QED BY <2>2, <2>3
<1> QED BY <1>3, <1>4, RemoveMoves

\* Users make, change and withdraw objects.
LEMMA UserCopies ==
    ASSUME Typed, CopiesInv, Typed', UNCHANGED <<kind, cache, worker>>, edits' = edits + 1,
           Revises \/ Withdraws \/ \E s \in Specs : Makes(s)
    PROVE  CopiesInv'
<1> USE DEF Typed
<1>1. CacheIsEarlier /\ WorkerIsEarlier /\ WorkerPath'
    BY DEF CopiesInv, worker, WorkerPath
<1>2. Behind(cache) /\ (pc # "idle" => Behind(obj))
    BY <1>1, CopiesFields DEF CacheIsEarlier, WorkerIsEarlier
<1>3. CASE Revises
    <2>1. Behind(cache)' /\ (pc # "idle" => Behind(obj)')
        BY <1>2, <1>3, ObjectsTyped DEF Behind, Revises, Exists, worker
    <2>2. Earlier(cache)' /\ (pc # "idle" => Earlier(obj)')
        BY <2>1, CopiesFields, PTL
    <2>3. ~IsCurrent(cache)' /\ (pc # "idle" => ~IsCurrent(obj)')
        BY <1>2, <1>3, ObjectsTyped DEF Behind, Revises, IsCurrent, Exists, worker
    <2>4. CacheIsEarlier'
        BY <1>1, <1>3, <2>2, <2>3, ObjectsTyped DEF CacheIsEarlier, Revises, Exists
    <2>5. WorkerIsEarlier'
        BY <1>1, <1>3, <2>2, <2>3, ObjectsTyped DEF WorkerIsEarlier, Revises, Exists, worker
    <2> QED BY <1>1, <2>4, <2>5 DEF CopiesInv
<1>4. CASE Withdraws
    <2>1. cr' = NoObject /\ ~Exists(cr')
        BY <1>4, NoObjectFields DEF Withdraws
    <2>2. Behind(cache)' /\ Behind(obj)'
        BY <2>1 DEF Behind, Exists
    <2>3. Earlier(cache)' /\ Earlier(obj)'
        BY <2>2, CopiesFields, PTL
    <2>4. CacheIsEarlier'
        BY <1>1, <2>1, <2>3, NoObjectFields, ObjectsTyped DEF CacheIsEarlier, Exists, IsCurrent
    <2>5. WorkerIsEarlier'
        BY <1>1, <2>1, <2>3, NoObjectFields, ObjectsTyped DEF WorkerIsEarlier, Exists, IsCurrent, worker
    <2> QED BY <1>1, <2>4, <2>5 DEF CopiesInv
<1>5. ASSUME NEW s \in Specs, Makes(s) PROVE CopiesInv'
    <2>1. edits' \in Nat /\ edits' = edits + 1 /\ cr' = Fresh(edits', s)
        BY <1>5, ObjectsTyped DEF Makes
    <2>2. cr'.uid = edits + 1 /\ cr'.id = 0 /\ ~cr'.finalizer
        BY <2>1, FreshFields
    <2>3. cache'.uid < cr'.uid /\ (pc # "idle" => obj'.uid < cr'.uid)
        BY <1>1, <2>2, ObjectsTyped DEF CacheIsEarlier, WorkerIsEarlier, worker
    <2>4. Behind(cache)' /\ (pc # "idle" => Behind(obj)')
        BY <2>3, ObjectsTyped DEF Behind, worker
    <2>5. Earlier(cache)' /\ (pc # "idle" => Earlier(obj)')
        BY <2>4, CopiesFields, PTL
    <2>6. CacheIsEarlier'
        BY <1>1, <2>2, <2>3, <2>5, ObjectsTyped DEF CacheIsEarlier, Exists, IsCurrent
    <2>7. WorkerIsEarlier'
        BY <1>1, <2>2, <2>3, <2>5, ObjectsTyped DEF WorkerIsEarlier, Exists, IsCurrent, worker
    <2> QED BY <1>1, <2>6, <2>7 DEF CopiesInv
<1> QED BY <1>3, <1>4, <1>5

\* The traits of a kind.
LEMMA KindFacts ==
    ASSUME TypeOK
    PROVE  /\ "looksUp" \in kind \/ "byID" \in kind
           /\ "replaces" \in kind => "byID" \notin kind /\ "forgets" \notin kind
BY KindsAssumption DEF TypeOK

LEMMA ObserveCopies ==
    ASSUME Typed, CopiesInv, Typed', Observe
    PROVE  CopiesInv'
<1> USE DEF Typed, PCs, Fetched
<1>1. pc = "observe" /\ obj.finalizer /\ UNCHANGED <<kind, cr, cache, edits>>
    BY ObserveMoves DEF CopiesInv, WorkerPath
<1>2. CASE Stops
    <2>1. WorkerPath'
        BY <1>2 DEF WorkerPath, Stops
    <2> QED BY <1>1, <1>2, <2>1, LocalCopies
<1>3. CASE \E e \in Adoptable : Goes("status", e.id)
    <2>1. PICK i \in Nat : Goes("status", i)
        BY <1>3, FoundFacts DEF Adoptable, TypeOK, Entries
    <2>2. WorkerPath'
        BY <1>1, <2>1, GoesType DEF WorkerPath
    <2> QED BY <1>1, <2>1, <2>2, LocalCopies
<1>4. CASE /\ Found = {} /\ pc' = IF "replaces" \in kind THEN "remove" ELSE "add"
           /\ Goes(pc', IF "forgets" \in kind THEN 0 ELSE obj.id)
    <2> DEFINE i == IF "forgets" \in kind THEN 0 ELSE obj.id
    <2>1. i \in Nat /\ ("replaces" \in kind => i = obj.id)
        BY KindFacts, ObjectsTyped
    <2>2. PICK p \in {"remove", "add"} : Goes(p, i) /\ (p = "remove" => "replaces" \in kind)
        BY <1>4
    <2> HIDE DEF i
    <2>3. WorkerPath'
        BY <1>1, <2>1, <2>2, GoesType DEF WorkerPath
    <2>4. p \in PCs /\ p # "idle" /\ (p \in Fetched => pc \in Fetched /\ i = obj.id)
        BY <1>1, <2>1, <2>2
    <2> QED BY <1>1, <2>1, <2>2, <2>3, <2>4, LocalCopies
<1> QED BY <1>2, <1>3, <1>4, ObserveMoves

LEMMA CallCopies ==
    ASSUME Typed, CopiesInv, Typed', RemoveOld \/ Add \/ Delete
    PROVE  CopiesInv'
<1> USE DEF Typed, PCs, Fetched
<1>1. UNCHANGED <<kind, cr, cache, edits>>
    BY RemoveOldMoves, AddMoves, DeleteMoves
<1>2. CASE Stops
    <2>1. WorkerPath'
        BY <1>2 DEF WorkerPath, Stops
    <2> QED BY <1>1, <1>2, <2>1, LocalCopies
<1>3. CASE RemoveOld /\ ~Stops
    <2>1. pc = "remove" /\ Goes("add", obj.id)
        BY <1>3, RemoveOldMoves
    <2>2. WorkerPath'
        BY <1>1, <2>1, GoesType, ObjectsTyped DEF WorkerPath, CopiesInv
    <2> QED BY <1>1, <2>1, <2>2, LocalCopies, ObjectsTyped
<1>4. CASE Add
    <2>1. pc = "add" /\ (Goes("status", NewId) \/ Goes("status", obj.id) \/ Goes("status", 0))
        BY <1>4, AddMoves
    <2>2. PICK i \in Nat : Goes("status", i)
        BY <2>1, ObjectsTyped DEF NewId
    <2>3. WorkerPath'
        BY <1>1, <2>1, <2>2, GoesType, ObjectsTyped DEF WorkerPath, CopiesInv
    <2> QED BY <1>1, <2>1, <2>2, <2>3, LocalCopies
<1>5. CASE Delete /\ ~Stops
    <2>1. pc = "delete" /\ Goes("unfinalize", obj.id)
        BY <1>5, DeleteMoves
    <2>2. WorkerPath'
        BY <1>1, <2>1, GoesType, ObjectsTyped DEF WorkerPath, CopiesInv
    <2> QED BY <1>1, <2>1, <2>2, LocalCopies, ObjectsTyped
<1> QED BY <1>2, <1>3, <1>4, <1>5

LEMMA CopiesStep ==
    ASSUME Typed, CopiesInv, Typed', [Next]_vars
    PROVE  CopiesInv'
<1>1. Begin \/ EnsureFinalizer \/ PersistStatus \/ RemoveFinalizer => CopiesInv'
    BY BeginCopies, EnsureCopies, PersistCopies, RemoveCopies
<1>2. Observe \/ RemoveOld \/ Add \/ Delete => CopiesInv'
    BY ObserveCopies, CallCopies
<1>3. CASE Crash
    BY <1>3, CatchUpCopies, StopsFacts DEF Crash
<1>4. CASE SyncCache
    BY <1>4, CatchUpCopies DEF SyncCache
<1>5. ASSUME UNCHANGED <<kind, cr, cache, worker>>, edits' \in {edits, edits + 1}
      PROVE  CopiesInv'
    <2>1. WorkerPath'
        BY <1>5 DEF CopiesInv, WorkerPath, worker
    <2> QED BY <1>5, <2>1, LocalCopies
<1>6. CASE AivenProgress \/ OthersRemove
    BY <1>5, <1>6, AivenMoves DEF Typed
<1>7. ASSUME NEW s \in Specs, OthersAdd(s) PROVE CopiesInv'
    BY <1>5, <1>7, OthersAddMoves DEF Typed
<1>8. ASSUME NEW s \in Specs, UserCreates(s) \/ UserEdits(s) PROVE CopiesInv'
    BY <1>8, UserMoves, UserCopies DEF Typed, Makes, Revises, Withdraws
<1>9. CASE UserTouches \/ UserDeletes
    <2>1. PICK s \in Specs : TRUE
        BY <1>9 DEF UserTouches, UserDeletes, Typed, SpecifiedInv, Copies
    <2> QED BY <1>9, <2>1, UserMoves, UserCopies DEF Typed, Makes, Revises, Withdraws
<1>10. CASE UNCHANGED vars
    BY <1>5, <1>10 DEF vars, worker
<1> QED BY <1>1, <1>2, <1>3, <1>4, <1>6, <1>7, <1>8, <1>9, <1>10 DEF Next, Reconcile, Others

----------------------------------------------------------------------------
(* EntriesInv                                                              *)

LEMMA EntriesStep ==
    ASSUME Typed, CopiesInv, EntriesInv, Typed', [Next]_vars
    PROVE  EntriesInv'
<1> USE DEF Typed
<1>1. Numbered /\ OneEach /\ lastId \in Nat
    BY ObjectsTyped DEF EntriesInv, Numbered, OneEach
<1>2. lastId' \in Nat /\ lastId <= lastId' /\ Numbered' /\ OneEach'
    <2>1. CASE Shrinks
        <3>1. lastId' = lastId /\ OneEach'
            BY <1>1, <2>1 DEF Shrinks
        <3>2. Numbered'
            BY <1>1, <2>1 DEF Shrinks, Numbered
        <3> QED BY <1>1, <3>1, <3>2
    <2>2. ASSUME NEW s \in Specs, Grows(s)
          PROVE  lastId' \in Nat /\ lastId <= lastId' /\ Numbered' /\ OneEach'
        <3> DEFINE x == NewEntry(s)
        <3>1. lastId' = lastId + 1 /\ entries' = entries \cup {x} /\ x.id = lastId + 1
            BY <2>2, NewEntryFields DEF Grows, NewId
        <3> HIDE DEF x
        <3>2. Numbered'
            BY <1>1, <3>1 DEF Numbered
        <3>3. \A e \in entries : e.id # x.id
            BY <1>1, <3>1 DEF Numbered
        <3>4. OneEach'
            BY <1>1, <3>1, <3>3 DEF OneEach
        <3> QED BY <1>1, <3>1, <3>2, <3>4
    <2> QED BY <2>1, <2>2, EntriesType
<1>3. ASSUME NEW o \in Copies PROVE o.id \in Nat /\ o.id <= lastId /\ o.id <= lastId'
    BY <1>1, <1>2, ObjectsTyped DEF EntriesInv, Copies
<1>4. cr'.id <= lastId' /\ cache'.id <= lastId' /\ obj'.id <= lastId'
    <2>1. cache'.id <= lastId'
        BY <1>3, ObjectType DEF Copies
    <2>2. cr'.id \in {0, cr.id, obj.id, cache.id}
        <3>1. CASE EnsureFinalizer
            BY <3>1, EnsureMoves DEF Finalized
        <3>2. CASE PersistStatus
            BY <3>2, PersistMoves DEF Saves
        <3>3. CASE RemoveFinalizer
            BY <3>3, RemoveMoves, NoObjectFields DEF LetsGo
        <3>4. ASSUME NEW s \in Specs, UserCreates(s) \/ UserEdits(s) \/ UserTouches \/ UserDeletes
              PROVE  cr'.id \in {0, cr.id, obj.id, cache.id}
            <4>1. Makes(s) => cr'.id = 0
                BY FreshFields, ObjectsTyped DEF Makes
            <4> QED BY <3>4, <4>1, UserMoves, NoObjectFields DEF Revises, Withdraws
        <3>5. CASE UserTouches \/ UserDeletes
            BY <3>4, <3>5 DEF UserTouches, UserDeletes, SpecifiedInv, Copies
        <3>6. CASE Begin \/ Observe \/ RemoveOld \/ Add \/ Delete \/ Crash \/ SyncCache
                   \/ AivenProgress \/ OthersRemove \/ (\E s \in Specs : OthersAdd(s)) \/ UNCHANGED vars
            BY <3>6 DEF Begin, Observe, RemoveOld, Add, Delete, Crash, SyncCache, AivenProgress,
                        OthersRemove, OthersAdd, vars
        <3> QED BY <3>1, <3>2, <3>3, <3>4, <3>5, <3>6 DEF Next, Reconcile, Others
    <2>3. cr'.id <= lastId'
        BY <1>2, <1>3, <2>2 DEF Copies
    <2>4. obj'.id <= lastId'
        <3>1. CASE UNCHANGED worker
            BY <1>3, <3>1 DEF worker, Copies
        <3>2. CASE Stops
            BY <1>2, <3>2, StopsType
        <3>3. CASE Begin
            BY <1>3, <3>1, <3>3 DEF Begin, Copies
        <3>4. CASE EnsureFinalizer
            BY <1>3, <2>3, <3>2, <3>4, EnsureMoves, GoesType, ObjectsTyped DEF Finalized, Copies, PCs
        <3>5. CASE Observe
            <4>1. \A e \in Adoptable : e.id \in Nat /\ e.id <= lastId'
                BY <1>1, <1>2, FoundFacts DEF Adoptable, Numbered
            <4> QED BY <1>2, <1>3, <3>2, <3>5, <4>1, ObserveMoves, GoesType, ObjectsTyped DEF Copies, PCs
        <3>6. CASE RemoveOld \/ Delete
            BY <1>3, <3>2, <3>6, RemoveOldMoves, DeleteMoves, GoesType, ObjectsTyped DEF Copies, PCs
        <3>7. CASE Add
            <4>1. Grows(obj.spec) => NewId \in Nat /\ NewId <= lastId'
                BY <1>1 DEF Grows, NewId
            <4> QED BY <1>2, <1>3, <3>7, <4>1, AddMoves, GoesType, ObjectsTyped DEF Copies, PCs
        <3>8. CASE PersistStatus \/ RemoveFinalizer
            BY <3>2, <3>8, PersistMoves, RemoveMoves
        <3> QED BY <3>1, <3>2, <3>3, <3>4, <3>5, <3>6, <3>7, <3>8, WorkerMoves
    <2> QED BY <2>1, <2>3, <2>4
<1> QED BY <1>2, <1>4 DEF EntriesInv, Numbered, OneEach, Copies

----------------------------------------------------------------------------
(* ContentInv, and SavedIsRight                                            *)

\* The entry of an identifier, if any, has this content; now, and after a step.
Names(i, s)    == \A e \in entries : e.id = i => e.spec = s
WillName(i, s) == \A e \in entries' : e.id = i => e.spec = s

LEMMA NamesStay ==
    ASSUME Typed, EntriesInv, [Next]_vars, NEW i \in Nat, i <= lastId, NEW s, Names(i, s)
    PROVE  WillName(i, s)
<1> USE DEF Typed
<1>1. CASE Shrinks
    BY <1>1 DEF Shrinks, Names, WillName
<1>2. ASSUME NEW t \in Specs, Grows(t) PROVE WillName(i, s)
    <2> DEFINE x == NewEntry(t)
    <2>1. entries' = entries \cup {x} /\ x.id = lastId + 1
        BY <1>2, NewEntryFields DEF Grows
    <2> HIDE DEF x
    <2> QED BY <2>1, ObjectsTyped DEF Names, WillName
<1> QED BY <1>1, <1>2, EntriesType

LEMMA ContentFields ==
    ContentInv <=>
       ("replaces" \notin kind =>
          /\ Names(cr.id, cr.spec) /\ Names(cache.id, cache.spec) /\ Names(obj.id, obj.spec)
          /\ Exists(cr) /\ cache.uid = cr.uid => cache.spec = cr.spec
          /\ Exists(cr) /\ obj.uid = cr.uid => obj.spec = cr.spec)
BY DEF ContentInv, Names, WithID, Copies, Exists

\* What the worker observes or makes has the content of its copy.
LEMMA ObjContent ==
    ASSUME Typed, CopiesInv, EntriesInv, ContentInv, [Next]_vars, Typed', EntriesInv',
           "replaces" \notin kind
    PROVE  /\ WillName(obj'.id, obj'.spec)
           /\ \/ ~Exists(obj')
              \/ obj'.uid = obj.uid /\ obj'.spec = obj.spec
              \/ obj'.uid = cache.uid /\ obj'.spec = cache.spec
<1> USE DEF Typed
<1>0. /\ WillName(cr.id, cr.spec) /\ WillName(cache.id, cache.spec) /\ WillName(obj.id, obj.spec)
      /\ \A s : WillName(0, s)
      /\ OneEach /\ Numbered /\ lastId \in Nat /\ lastId' \in Nat
    <2>1. Names(cr.id, cr.spec) /\ Names(cache.id, cache.spec) /\ Names(obj.id, obj.spec)
        BY ContentFields
    <2>2. /\ cr.id \in Nat /\ cache.id \in Nat /\ obj.id \in Nat
          /\ cr.id <= lastId /\ cache.id <= lastId /\ obj.id <= lastId
        BY ObjectsTyped DEF EntriesInv, Copies
    <2>3. WillName(cr.id, cr.spec) /\ WillName(cache.id, cache.spec) /\ WillName(obj.id, obj.spec)
        BY <2>1, <2>2, NamesStay
    <2>4. lastId \in Nat /\ lastId' \in Nat
        BY ObjectsTyped, EntriesType
    <2>5. \A s : WillName(0, s)
        BY <2>4 DEF EntriesInv, WillName
    <2> QED BY <2>3, <2>4, <2>5 DEF EntriesInv, OneEach, Numbered
<1>1. CASE UNCHANGED worker
    BY <1>0, <1>1 DEF worker
<1>2. CASE Stops
    BY <1>0, <1>2, StopsType
<1>3. CASE Begin
    BY <1>0, <1>1, <1>3 DEF Begin
<1>4. ASSUME NEW p \in PCs, Goes(p, obj.id) \/ Goes(p, 0)
      PROVE  WillName(obj'.id, obj'.spec) /\ obj'.uid = obj.uid /\ obj'.spec = obj.spec
    BY <1>0, <1>4, GoesType, ObjectsTyped
<1>5. CASE EnsureFinalizer
    <2>1. CASE IsCurrent(cache) /\ obj' = cr
        <3>1. cache = cr
            BY <2>1, CurrentIsSame
        <3> QED BY <1>0, <2>1, <3>1
    <2>2. CASE Finalized
        BY <1>0, <2>2 DEF Finalized
    <2>3. CASE Goes("observe", obj.id)
        BY <1>4, <2>3 DEF PCs
    <2> QED BY <1>2, <1>5, <2>1, <2>2, <2>3, EnsureMoves
<1>6. CASE Observe
    <2>1. ASSUME NEW e \in Adoptable, Goes("status", e.id)
          PROVE  WillName(obj'.id, obj'.spec) /\ obj'.uid = obj.uid /\ obj'.spec = obj.spec
        <3>1. e \in entries /\ e.id \in Nat /\ e.id <= lastId
            BY <1>0, FoundFacts DEF Adoptable, Numbered
        <3>2. obj'.id = e.id /\ obj'.uid = obj.uid /\ obj'.spec = obj.spec
            BY <2>1, <3>1, GoesType DEF PCs
        <3>3. e.spec = obj.spec
            <4>1. CASE "byID" \in kind /\ obj.id # 0
                <5>1. e.id = obj.id
                    BY <4>1, FoundFacts DEF Adoptable, WithID
                <5> QED BY <3>1, <5>1, ContentFields DEF Names
            <4>2. CASE ~("byID" \in kind /\ obj.id # 0)
                BY <4>2, FoundFacts DEF Adoptable, Matching
            <4> QED BY <4>1, <4>2
        <3>4. Names(e.id, obj.spec)
            BY <1>0, <3>1, <3>3 DEF Names, OneEach
        <3> QED BY <3>1, <3>2, <3>4, NamesStay
    <2>2. ASSUME NEW p \in PCs, Goes(p, IF "forgets" \in kind THEN 0 ELSE obj.id)
          PROVE  WillName(obj'.id, obj'.spec) /\ obj'.uid = obj.uid /\ obj'.spec = obj.spec
        BY <1>4, <2>2
    <2> QED BY <1>2, <1>6, <2>1, <2>2, ObserveMoves DEF PCs
<1>7. CASE RemoveOld \/ Delete
    BY <1>2, <1>4, <1>7, RemoveOldMoves, DeleteMoves DEF PCs
<1>8. CASE Add
    <2>1. CASE Goes("status", obj.id) \/ Goes("status", 0)
        BY <1>4, <2>1 DEF PCs
    <2>2. CASE Grows(obj.spec) /\ Goes("status", NewId)
        <3> DEFINE x == NewEntry(obj.spec)
        <3>1. obj.spec \in Specs /\ NewId = lastId + 1 /\ NewId \in Nat
            BY <1>0, <1>8, WorkerType, AddMoves DEF NewId
        <3>2. entries' = entries \cup {x} /\ x.id = NewId /\ x.spec = obj.spec
            BY <2>2, <3>1, NewEntryFields DEF Grows
        <3> HIDE DEF x
        <3>3. WillName(NewId, obj.spec)
            BY <1>0, <3>1, <3>2 DEF WillName, Numbered
        <3> QED BY <2>2, <3>1, <3>3, GoesType DEF PCs
    <2> QED BY <1>8, <2>1, <2>2, AddMoves
<1>9. CASE PersistStatus \/ RemoveFinalizer
    BY <1>2, <1>9, PersistMoves, RemoveMoves
<1> QED BY <1>1, <1>2, <1>3, <1>5, <1>6, <1>7, <1>8, <1>9, WorkerMoves

\* What is saved has the content of the object, which does not change.
LEMMA CrContent ==
    ASSUME Typed, CopiesInv, EntriesInv, ContentInv, [Next]_vars, Typed', EntriesInv',
           "replaces" \notin kind
    PROVE  /\ WillName(cr'.id, cr'.spec)
           /\ \/ ~Exists(cr')
              \/ cr'.uid = cr.uid /\ cr'.spec = cr.spec
              \/ cr'.uid = edits + 1 /\ UNCHANGED <<cache, worker>>
<1> USE DEF Typed
<1>0. /\ WillName(cr.id, cr.spec) /\ WillName(obj.id, obj.spec) /\ \A s : WillName(0, s)
    <2>1. Names(cr.id, cr.spec) /\ Names(obj.id, obj.spec)
        BY ContentFields
    <2>2. /\ cr.id \in Nat /\ obj.id \in Nat /\ cr.id <= lastId /\ obj.id <= lastId
        BY ObjectsTyped DEF EntriesInv, Copies
    <2>3. lastId' \in Nat
        BY EntriesType
    <2>4. \A s : WillName(0, s)
        BY <2>3 DEF EntriesInv, WillName
    <2> QED BY <2>1, <2>2, <2>4, NamesStay
<1>1. CASE UNCHANGED cr
    BY <1>0, <1>1
<1>2. CASE EnsureFinalizer
    <2>1. Finalized => cache = cr
        BY CurrentIsSame DEF Finalized
    <2> QED BY <1>0, <1>1, <1>2, <2>1, EnsureMoves DEF Finalized
<1>3. CASE PersistStatus
    <2>1. Saves => obj.spec = cr.spec
        BY <1>3, CurrentIsSame, PersistMoves DEF Saves
    <2> QED BY <1>0, <1>1, <1>3, <2>1, PersistMoves DEF Saves
<1>4. CASE RemoveFinalizer
    BY <1>0, <1>1, <1>4, RemoveMoves, NoObjectFields DEF LetsGo
<1>5. ASSUME NEW s \in Specs, UserCreates(s) \/ UserEdits(s) \/ UserTouches \/ UserDeletes
      PROVE  /\ WillName(cr'.id, cr'.spec)
             /\ \/ ~Exists(cr')
                \/ cr'.uid = cr.uid /\ cr'.spec = cr.spec
                \/ cr'.uid = edits + 1 /\ UNCHANGED <<cache, worker>>
    <2>1. Makes(s) => cr'.id = 0 /\ cr'.uid = edits + 1
        BY FreshFields, ObjectsTyped DEF Makes
    <2> QED BY <1>0, <1>5, <2>1, UserMoves, NoObjectFields DEF Revises, Withdraws
<1>6. CASE UserTouches \/ UserDeletes
    BY <1>5, <1>6 DEF UserTouches, UserDeletes, SpecifiedInv, Copies
<1>7. CASE Begin \/ Observe \/ RemoveOld \/ Add \/ Delete \/ Crash \/ SyncCache
           \/ AivenProgress \/ OthersRemove \/ (\E s \in Specs : OthersAdd(s)) \/ UNCHANGED vars
    BY <1>1, <1>7 DEF Begin, Observe, RemoveOld, Add, Delete, Crash, SyncCache, AivenProgress,
                OthersRemove, OthersAdd, vars
<1> QED BY <1>2, <1>3, <1>4, <1>5, <1>6, <1>7 DEF Next, Reconcile, Others

LEMMA ContentStep ==
    ASSUME Typed, CopiesInv, EntriesInv, ContentInv, [Next]_vars, Typed', CopiesInv', EntriesInv'
    PROVE  ContentInv'
<1> USE DEF Typed
<1>1. kind' = kind
    BY CountersType
<1> SUFFICES ASSUME "replaces" \notin kind PROVE ContentInv'
    BY <1>1 DEF ContentInv
<1>2. WillName(cr'.id, cr'.spec) /\ WillName(obj'.id, obj'.spec)
    BY ObjContent, CrContent
<1>3. WillName(cache'.id, cache'.spec)
    <2>1. \A o \in {cr, cache} : WillName(o.id, o.spec)
        BY NamesStay, ContentFields, ObjectsTyped DEF EntriesInv, Copies
    <2> QED BY <2>1, ObjectType
<1>4. Exists(cr') /\ cache'.uid = cr'.uid => cache'.spec = cr'.spec
    <2>1. cr'.uid = edits + 1 => cr.uid # cr'.uid /\ cache.uid # cr'.uid
        BY ObjectsTyped DEF CopiesInv, CacheIsEarlier
    <2> QED BY <2>1, CrContent, ContentFields, ObjectType DEF Exists
<1>5. Exists(cr') /\ obj'.uid = cr'.uid => obj'.spec = cr'.spec
    <2>1. cache.uid <= edits /\ (pc = "idle" => obj.uid = 0) /\ (pc # "idle" => obj.uid <= edits)
        BY ObjectsTyped, NoObjectFields DEF CopiesInv, CacheIsEarlier, WorkerIsEarlier
    <2>2. cr'.uid = edits + 1 => obj.uid # cr'.uid /\ cache.uid # cr'.uid
        BY <2>1, ObjectsTyped
    <2> QED BY <2>2, CrContent, ObjContent, ContentFields DEF Exists
<1> QED BY <1>2, <1>3, <1>4, <1>5 DEF ContentInv, Copies, WithID, WillName, Exists

----------------------------------------------------------------------------
(* TwinsInv                                                                *)

\* Entries are added by Add and by other clients only.
LEMMA OnlyAdds ==
    ASSUME Typed, [Next]_vars
    PROVE  Shrinks \/ (Add /\ Grows(obj.spec)) \/ "add" \in meddled'
<1> USE DEF Typed
<1>1. CASE EnsureFinalizer \/ Observe \/ RemoveOld \/ PersistStatus \/ Delete \/ RemoveFinalizer
    BY <1>1, EnsureMoves, ObserveMoves, RemoveOldMoves, PersistMoves, DeleteMoves, RemoveMoves
<1>2. CASE Add
    BY <1>2, AddMoves
<1>3. CASE Begin \/ Crash \/ SyncCache
    BY <1>3, SameShrinks DEF Begin, Crash, SyncCache
<1>4. CASE AivenProgress \/ OthersRemove
    BY <1>4, AivenMoves
<1>5. ASSUME NEW s \in Specs, UserCreates(s) \/ UserEdits(s) \/ OthersAdd(s)
      PROVE  Shrinks \/ "add" \in meddled'
    <2>1. CASE OthersAdd(s)
        BY <2>1, OthersAddMoves
    <2>2. CASE UserCreates(s) \/ UserEdits(s)
        BY <2>2, SameShrinks DEF UserCreates, UserEdits
    <2> QED BY <1>5, <2>1, <2>2
<1>6. CASE UserTouches \/ UserDeletes
    BY <1>6, SameShrinks DEF UserTouches, UserDeletes
<1>7. CASE UNCHANGED vars
    <2>1. UNCHANGED aiven
        BY <1>7 DEF vars, history, aiven, worker
    <2> QED BY <2>1, SameShrinks
<1> QED BY <1>1, <1>2, <1>3, <1>4, <1>5, <1>6, <1>7 DEF Next, Reconcile, Others

\* An entry of this identifier is in use; now, and after a step.
Present(i)     == \E e \in entries : e.id = i /\ ~e.deleting
WillPresent(i) == \E e \in entries' : e.id = i /\ ~e.deleting

LEMMA MeddledGrows ==
    ASSUME Typed, [Next]_vars
    PROVE  meddled \subseteq meddled' /\ (troubled => troubled')
<1> USE DEF Typed
<1>1. CASE EnsureFinalizer \/ Observe \/ RemoveOld \/ PersistStatus \/ Delete \/ RemoveFinalizer \/ Add
    BY <1>1, EnsureMoves, ObserveMoves, RemoveOldMoves, PersistMoves, DeleteMoves, RemoveMoves, AddMoves
<1>2. CASE Begin
    BY <1>2 DEF Begin
<1>3. CASE Crash
    BY <1>3 DEF Crash
<1>4. CASE SyncCache
    BY <1>4 DEF SyncCache, history
<1>5. CASE AivenProgress \/ OthersRemove
    BY <1>5, AivenMoves
<1>6. ASSUME NEW s \in Specs, UserCreates(s) \/ UserEdits(s) \/ OthersAdd(s)
      PROVE  meddled \subseteq meddled' /\ (troubled => troubled')
    BY <1>6 DEF UserCreates, UserEdits, OthersAdd, history
<1>7. CASE UserTouches \/ UserDeletes
    BY <1>7 DEF UserTouches, UserDeletes, history
<1>8. CASE UNCHANGED vars
    BY <1>8 DEF vars, history
<1> QED BY <1>1, <1>2, <1>3, <1>4, <1>5, <1>6, <1>7, <1>8 DEF Next, Reconcile, Others

\* The worker and other clients alone take an entry out of use.
LEMMA PresentStays ==
    ASSUME Typed, [Next]_vars, ~Delete, ~RemoveOld, "remove" \notin meddled', NEW i, Present(i)
    PROVE  WillPresent(i)
<1> USE DEF Typed, Present, WillPresent
<1>1. CASE UNCHANGED entries
    BY <1>1
<1>2. CASE Add
    BY <1>1, <1>2, AddMoves DEF Grows, aiven
<1>3. CASE AivenProgress
    BY <1>3, AivenMoves
<1>4. ASSUME NEW s \in Specs, OthersAdd(s) PROVE WillPresent(i)
    BY <1>4, OthersAddMoves DEF Grows
<1>5. ~OthersRemove
    BY DEF OthersRemove
<1>6. Begin \/ EnsureFinalizer \/ Observe \/ PersistStatus \/ RemoveFinalizer \/ Crash \/ SyncCache
        => UNCHANGED entries
    BY DEF Begin, EnsureFinalizer, Observe, PersistStatus, RemoveFinalizer, Crash, SyncCache, aiven
<1>7. (\E s \in Specs : UserCreates(s) \/ UserEdits(s)) \/ UserTouches \/ UserDeletes \/ UNCHANGED vars
        => UNCHANGED entries
    BY DEF UserCreates, UserEdits, UserTouches, UserDeletes, vars, aiven
<1> QED BY <1>1, <1>2, <1>3, <1>4, <1>5, <1>6, <1>7 DEF Next, Reconcile, Others

\* What a copy knows is there; the first part of TwinsInv, for one copy.
Known(o) == o.id # 0 /\ Exists(o) /\ Untouched(o) => Present(o.id)

LEMMA KnownFields ==
    TwinsInv <=>
       (LooksSafely =>
          /\ "byID" \in kind => Known(cr) /\ Known(cache) /\ Known(obj)
          /\ pc \in {"remove", "add"} => Matching(obj.spec) = {}
          /\ \A e, f \in entries : e.spec = f.spec => e = f)
<1>1. \A i : WithID(i) \cap InUse # {} <=> Present(i)
    BY DEF WithID, InUse, Present
<1> QED BY <1>1 DEF TwinsInv, Known, Copies

\* The cases in which the cache, the object and its copy agree on what has been
\* touched.
LEMMA TouchedFacts ==
    ASSUME Typed, CopiesInv
    PROVE  /\ cache.uid = cr.uid /\ Exists(cr) /\ cache.deleting => cr.deleting
           /\ cache.uid # cr.uid => cr.id = 0
           /\ pc # "idle" /\ obj.uid = cr.uid => cache.uid = cr.uid
           /\ pc # "idle" /\ obj.uid # cr.uid => cr.id = 0
           /\ pc # "idle" /\ obj.uid = cache.uid /\ obj.deleting => cache.deleting
           /\ pc # "idle" /\ obj.uid # cache.uid => cache.id = 0
           /\ pc = "idle" => ~Exists(obj)
BY NoObjectFields DEF CopiesInv, CacheIsEarlier, WorkerIsEarlier, Earlier, Exists

\* Steps that change no object.
LEMMA KnownWorker ==
    ASSUME Typed, CopiesInv, TwinsInv, EntriesInv, Typed', [Next]_vars, LooksSafely, LooksSafely',
           "byID" \in kind,
           Begin \/ EnsureFinalizer \/ Observe \/ RemoveOld \/ Add \/ PersistStatus
                 \/ Delete \/ RemoveFinalizer
    PROVE  Known(cr)' /\ Known(cache)' /\ Known(obj)'
<1> USE DEF Typed, Known, Untouched
<1>0. /\ "remove" \notin meddled' /\ "replaces" \notin kind /\ kind' = kind
      /\ Known(cr) /\ Known(cache) /\ Known(obj)
    BY CountersType, KindFacts, KnownFields DEF LooksSafely
<1>1. ASSUME NEW i, Present(i), ~Delete, ~RemoveOld PROVE WillPresent(i)
    BY <1>0, <1>1, PresentStays
<1>2. CASE Begin
    <2>1. UNCHANGED <<cr, cache>> /\ pc = "idle" /\ ~Delete /\ ~RemoveOld
        BY <1>2 DEF Begin, Delete, RemoveOld
    <2>2. (UNCHANGED worker) \/ (Exists(cache) /\ obj' = cache
              /\ pc' = (IF cache.deleting THEN "delete" ELSE "finalizer"))
        BY <1>2 DEF Begin
    <2>3. ASSUME NEW o \in {cr, cache}, o.id # 0, Exists(o), o.uid = cache.uid, ~cache.deleting
          PROVE  WillPresent(o.id)
        BY <1>0, <1>1, <2>1, <2>3
    <2>4. CASE UNCHANGED worker
        BY <2>1, <2>3, <2>4, TouchedFacts DEF worker, Applying, Present, WillPresent, Exists
    <2>5. CASE Exists(cache) /\ obj' = cache /\ pc' = (IF cache.deleting THEN "delete" ELSE "finalizer")
        BY <2>1, <2>3, <2>5 DEF Applying, Present, WillPresent, Exists
    <2> QED BY <2>2, <2>4, <2>5
<1>3. CASE EnsureFinalizer
    <2>0. UNCHANGED cache /\ pc = "finalizer" /\ ~Delete /\ ~RemoveOld
        BY <1>3, EnsureMoves DEF Delete, RemoveOld
    <2>1. CASE UNCHANGED cr /\ Stops
        BY <1>0, <1>1, <2>0, <2>1, StopsType DEF Applying, Present, WillPresent, Exists
    <2>2. CASE UNCHANGED cr /\ Goes("observe", obj.id)
        BY <1>0, <1>1, <2>0, <2>2, GoesType, ObjectsTyped DEF Applying, Present, WillPresent, Exists, PCs
    <2>3. CASE IsCurrent(cache) /\ pc' = "observe" /\ obj' = cr' /\ cr'.id = cr.id /\ cr'.uid = cr.uid
        <3>1. cache = cr /\ Exists(cr)
            BY <2>3, CurrentIsSame DEF IsCurrent, Exists
        <3>2. cr.id # 0 => WillPresent(cr.id)
            <4>1. CASE obj.uid = cr.uid
                BY <1>0, <1>1, <2>0, <3>1, <4>1 DEF Applying
            <4>2. CASE obj.uid # cr.uid
                BY <2>0, <4>2, TouchedFacts
            <4> QED BY <4>1, <4>2
        <3> QED BY <2>0, <2>3, <3>1, <3>2 DEF Present, WillPresent
    <2>4. Finalized => cr'.id = cr.id /\ cr'.uid = cr.uid
        BY CurrentIsSame DEF Finalized
    <2> QED BY <1>3, <2>1, <2>2, <2>3, <2>4, EnsureMoves DEF Finalized
<1>4. CASE Observe
    <2>0. UNCHANGED <<cr, cache>> /\ pc = "observe" /\ ~Delete /\ ~RemoveOld /\ obj.id \in Nat
        BY <1>4, ObserveMoves, ObjectsTyped DEF Delete, RemoveOld
    <2>1. CASE Stops
        BY <1>0, <1>1, <2>0, <2>1, StopsType DEF Applying, Present, WillPresent, Exists
    <2>2. ASSUME NEW p \in {"status", "add"}, NEW i \in Nat, Goes(p, i), i # 0 => Present(i)
          PROVE  Known(cr)' /\ Known(cache)' /\ Known(obj)'
        <3>1. pc' = p /\ obj'.id = i /\ obj'.uid = obj.uid
            BY <2>2, GoesType DEF PCs
        <3>3. Known(cr)' /\ Known(cache)'
            BY <1>0, <1>1, <2>0, <2>2, <3>1 DEF Applying, Present, WillPresent, Exists
        <3>4. Known(obj)'
            BY <1>1, <2>0, <2>2, <3>1 DEF Present, WillPresent
        <3> QED BY <3>3, <3>4
    <2>3. obj.id # 0 => Present(obj.id)
        <3>1. Exists(obj)
            BY <2>0 DEF SpecifiedInv
        <3> QED BY <1>0, <2>0, <3>1 DEF Applying
    <2>4. ASSUME NEW e \in Adoptable PROVE e.id \in Nat /\ Present(e.id)
        <3>1. e \in entries /\ e.id \in Nat /\ e.id # 0
            BY FoundFacts, ObjectsTyped DEF Adoptable, EntriesInv
        <3>2. CASE obj.id # 0
            <4>1. e.id = obj.id
                BY <1>0, <3>2, FoundFacts DEF Adoptable, WithID
            <4> QED BY <2>3, <3>1, <3>2, <4>1
        <3>3. CASE obj.id = 0
            BY <3>1, <3>3 DEF Adoptable, Present
        <3> QED BY <3>1, <3>2, <3>3
    <2>5. CASE \E e \in Adoptable : Goes("status", e.id)
        BY <2>2, <2>4, <2>5
    <2>6. CASE pc' = "add" /\ Goes(pc', IF "forgets" \in kind THEN 0 ELSE obj.id)
        BY <2>0, <2>2, <2>3, <2>6
    <2> QED BY <1>0, <1>4, <2>1, <2>5, <2>6, ObserveMoves
<1>5. ~RemoveOld
    BY <1>0, RemoveOldMoves DEF CopiesInv, WorkerPath
<1>6. CASE Add
    <2>0. UNCHANGED <<cr, cache>> /\ pc = "add" /\ ~Delete /\ ~RemoveOld /\ obj.id \in Nat
        BY <1>6, AddMoves, ObjectsTyped DEF Delete, RemoveOld
    <2>1. obj.id # 0 => Present(obj.id)
        <3>1. Exists(obj)
            BY <2>0 DEF SpecifiedInv
        <3> QED BY <1>0, <2>0, <3>1 DEF Applying
    <2>2. ASSUME NEW i \in Nat, Goes("status", i), i # 0 => WillPresent(i)
          PROVE  Known(cr)' /\ Known(cache)' /\ Known(obj)'
        BY <1>0, <1>1, <2>0, <2>2, GoesType, ObjectsTyped DEF Applying, Present, WillPresent, Exists, PCs
    <2>3. CASE Goes("status", obj.id)
        BY <1>1, <2>0, <2>1, <2>2, <2>3
    <2>4. CASE Grows(obj.spec) /\ Goes("status", NewId)
        <3>1. obj.spec \in Specs /\ NewId = lastId + 1 /\ NewId \in Nat
            BY <1>6, WorkerType, <2>0, ObjectsTyped DEF NewId
        <3>2. WillPresent(NewId)
            BY <2>4, <3>1, NewEntryFields DEF Grows, WillPresent
        <3> QED BY <2>2, <2>4, <3>1, <3>2
    <2> QED BY <1>0, <1>6, <2>3, <2>4, AddMoves
<1>7. CASE PersistStatus
    <2>0. UNCHANGED cache /\ pc = "status" /\ Stops /\ ~Delete /\ ~RemoveOld
        BY <1>7, PersistMoves DEF Delete, RemoveOld
    <2>1. obj.id # 0 => WillPresent(obj.id)
        <3>1. Exists(obj)
            BY <2>0 DEF SpecifiedInv
        <3> QED BY <1>0, <1>1, <2>0, <3>1 DEF Applying
    <2>2. CASE UNCHANGED cr
        BY <1>0, <1>1, <2>0, <2>2, StopsType DEF Applying, Present, WillPresent, Exists
    <2>3. CASE Saves
        <3>1. cr'.id = obj.id
            BY <2>3 DEF Saves
        <3> QED BY <1>0, <1>1, <2>0, <2>1, <3>1, StopsType DEF Applying, Present, WillPresent, Exists
    <2> QED BY <1>7, <2>2, <2>3, PersistMoves
<1>8. CASE RemoveFinalizer
    <2>0. UNCHANGED cache /\ pc = "unfinalize" /\ Stops /\ ~Delete /\ ~RemoveOld
        BY <1>8, RemoveMoves DEF Delete, RemoveOld
    <2>1. cr' = NoObject \/ (cr'.id = cr.id /\ cr'.uid = cr.uid)
        BY <1>8, RemoveMoves DEF LetsGo
    <2> QED BY <1>0, <1>1, <2>0, <2>1, StopsType, NoObjectFields DEF Applying, Present, WillPresent, Exists
<1>9. CASE Delete
    <2>0. UNCHANGED <<cr, cache>> /\ pc = "delete" /\ obj.deleting /\ pc' \in {"idle", "unfinalize"}
          /\ (Stops \/ obj'.uid = obj.uid)
        BY <1>9, DeleteMoves, StopsType, GoesType, ObjectsTyped DEF CopiesInv, WorkerPath, PCs
    <2>1. ~cache.deleting => obj.uid # cache.uid /\ cache.id = 0 /\ (cr.uid = cache.uid => cr.id = 0)
        BY <2>0, TouchedFacts
    <2> QED BY <2>0, <2>1, StopsType DEF Applying, Exists
<1> QED BY <1>2, <1>3, <1>4, <1>5, <1>6, <1>7, <1>8, <1>9

\* Steps of users, other clients, the cache and the manager.
LEMMA KnownOthers ==
    ASSUME Typed, CopiesInv, TwinsInv, EntriesInv, Typed', [Next]_vars, LooksSafely, LooksSafely',
           "byID" \in kind, ~Reconcile
    PROVE  Known(cr)' /\ Known(cache)' /\ Known(obj)'
<1> USE DEF Typed, Known, Untouched
<1>0. /\ "remove" \notin meddled' /\ ~Delete /\ ~RemoveOld /\ kind' = kind
      /\ Known(cr) /\ Known(cache) /\ Known(obj)
    BY CountersType, KnownFields DEF LooksSafely, Reconcile
<1>1. ASSUME NEW i, Present(i) PROVE WillPresent(i)
    BY <1>0, <1>1, PresentStays
<1>2. CASE UNCHANGED <<cr, cache, worker>>
    BY <1>0, <1>1, <1>2 DEF worker, Present, WillPresent, Exists
<1>3. CASE Crash
    <2>0. UNCHANGED cr /\ cache' = cr /\ Stops
        BY <1>3, StopsFacts DEF Crash
    <2>1. Exists(cr) /\ cr.id # 0 /\ ~cr.deleting => WillPresent(cr.id)
        BY <1>0, <1>1, TouchedFacts
    <2> QED BY <2>0, <2>1, StopsType DEF Applying, Present, WillPresent, Exists
<1>4. CASE SyncCache
    <2>0. UNCHANGED <<cr, worker>> /\ cache' = cr
        BY <1>4 DEF SyncCache
    <2>1. Exists(cr) /\ cr.id # 0 /\ ~cr.deleting => WillPresent(cr.id)
        BY <1>0, <1>1, TouchedFacts
    <2>2. Exists(cr) /\ cr.id # 0 /\ cr.uid = obj.uid /\ pc \in Applying => WillPresent(cr.id)
        BY <1>0, <1>1
    <2>3. Exists(obj) /\ obj.id # 0 /\ pc \in Applying => WillPresent(obj.id)
        BY <1>0, <1>1
    <2>4. Exists(obj) /\ obj.id # 0 /\ obj.uid = cr.uid /\ ~cr.deleting => WillPresent(obj.id)
        BY <1>0, <1>1, TouchedFacts DEF Exists
    <2> QED BY <2>0, <2>1, <2>2, <2>3, <2>4 DEF worker, Present, WillPresent, Exists
<1>5. ASSUME UNCHANGED <<cache, worker>>, Revises \/ Withdraws \/ \E s \in Specs : Makes(s)
      PROVE  Known(cr)' /\ Known(cache)' /\ Known(obj)'
    <2>1. Known(cache)' /\ Known(obj)'
        BY <1>0, <1>1, <1>5 DEF worker, Present, WillPresent, Exists
    <2>2. Known(cr)'
        <3>1. CASE Revises
            BY <1>0, <1>1, <1>5, <3>1 DEF Revises, worker, Present, WillPresent, Exists
        <3>2. CASE Withdraws
            BY <3>2, NoObjectFields DEF Withdraws
        <3>3. ASSUME NEW s \in Specs, Makes(s) PROVE cr'.id = 0
            BY <3>3, FreshFields, ObjectsTyped DEF Makes
        <3> QED BY <1>5, <3>1, <3>2, <3>3
    <2> QED BY <2>1, <2>2
<1>6. ASSUME NEW s \in Specs, UserCreates(s) \/ UserEdits(s)
      PROVE  Known(cr)' /\ Known(cache)' /\ Known(obj)'
    BY <1>5, <1>6, UserMoves
<1>7. CASE UserTouches \/ UserDeletes
    <2>1. PICK s \in Specs : TRUE
        BY <1>7 DEF UserTouches, UserDeletes, SpecifiedInv, Copies
    <2> QED BY <1>5, <1>7, <2>1, UserMoves
<1>8. AivenProgress \/ OthersRemove \/ (\E s \in Specs : OthersAdd(s)) \/ UNCHANGED vars
        => UNCHANGED <<cr, cache, worker>>
    BY DEF AivenProgress, OthersRemove, OthersAdd, vars, worker
<1> QED BY <1>2, <1>3, <1>4, <1>6, <1>7, <1>8 DEF Next, Others

LEMMA TwinsStep ==
    ASSUME Typed, CopiesInv, EntriesInv, TwinsInv, [Next]_vars, Typed', EntriesInv'
    PROVE  TwinsInv'
<1> USE DEF Typed
<1>1. kind' = kind /\ meddled \subseteq meddled'
    BY CountersType, MeddledGrows
<1> SUFFICES ASSUME LooksSafely' PROVE TwinsInv'
    BY DEF TwinsInv
<1>2. LooksSafely /\ "looksUp" \in kind /\ "add" \notin meddled'
    BY <1>1 DEF LooksSafely
<1>3. "byID" \in kind => Known(cr)' /\ Known(cache)' /\ Known(obj)'
    BY <1>2, KnownWorker, KnownOthers DEF Reconcile
<1>4. Shrinks \/ (Add /\ Grows(obj.spec))
    BY <1>2, OnlyAdds
<1>5. Shrinks /\ Matching(obj.spec) = {} => \A e \in entries' : e.spec # obj.spec
    BY DEF Shrinks, Matching
<1>6. pc' \in {"remove", "add"} => \A e \in entries' : e.spec # obj'.spec
    <2>1. CASE UNCHANGED worker
        <3>1. Shrinks \/ pc' = "status"
            BY <1>4, AddMoves, GoesType, ObjectsTyped DEF PCs, NewId
        <3>2. pc \in {"remove", "add"} => Matching(obj.spec) = {}
            BY <1>2, KnownFields
        <3> QED BY <1>5, <2>1, <3>1, <3>2 DEF worker
    <2>2. CASE Stops
        BY <2>2, StopsType
    <2>3. CASE Begin
        BY <2>1, <2>3 DEF Begin
    <2>4. CASE EnsureFinalizer
        BY <2>2, <2>4, EnsureMoves, GoesType, ObjectsTyped DEF Finalized, PCs
    <2>5. CASE Observe
        <3>1. ASSUME Found = {} PROVE Matching(obj.spec) = {}
            <4>1. ~("byID" \in kind /\ obj.id # 0)
                <5> SUFFICES ASSUME "byID" \in kind, obj.id # 0 PROVE FALSE
                    OBVIOUS
                <5>1. Exists(obj) /\ pc \in Applying
                    BY <2>5, ObserveMoves DEF SpecifiedInv, Applying
                <5>2. Present(obj.id)
                    BY <1>2, <5>1, KnownFields DEF Known, Untouched
                <5>3. WithID(obj.id) = {}
                    BY <3>1, FoundFacts
                <5> QED BY <5>2, <5>3 DEF Present, WithID
            <4> QED BY <1>2, <3>1, <4>1, FoundFacts DEF EntriesInv, Numbered
        <3>2. ASSUME NEW e \in Adoptable, Goes("status", e.id) PROVE pc' = "status"
            BY <3>2 DEF Goes
        <3>3. ASSUME Goes(pc', IF "forgets" \in kind THEN 0 ELSE obj.id), pc' \in {"remove", "add"}
              PROVE  obj'.spec = obj.spec
            BY <3>3, GoesType, ObjectsTyped DEF PCs
        <3>4. Shrinks
            BY <2>5, ObserveMoves
        <3> QED BY <1>5, <2>2, <2>5, <3>1, <3>2, <3>3, <3>4, ObserveMoves
    <2>6. CASE RemoveOld
        <3>1. pc = "remove" /\ Shrinks /\ (Stops \/ Goes("add", obj.id))
            BY <2>6, RemoveOldMoves
        <3>2. Matching(obj.spec) = {}
            BY <1>2, <3>1, KnownFields
        <3> QED BY <1>5, <2>2, <3>1, <3>2, GoesType, ObjectsTyped DEF PCs
    <2>7. CASE Add \/ Delete
        <3>1. ASSUME NEW p, NEW i, p \notin {"remove", "add"}, Goes(p, i) PROVE pc' \notin {"remove", "add"}
            BY <3>1 DEF Goes
        <3> QED BY <2>2, <2>7, <3>1, AddMoves, DeleteMoves
    <2>8. CASE PersistStatus \/ RemoveFinalizer
        BY <2>2, <2>8, PersistMoves, RemoveMoves
    <2> QED BY <2>1, <2>2, <2>3, <2>4, <2>5, <2>6, <2>7, <2>8, WorkerMoves
<1>7. \A e, f \in entries' : e.spec = f.spec => e = f
    <2>0. \A e, f \in entries : e.spec = f.spec => e = f
        BY <1>2, KnownFields
    <2>1. CASE Shrinks
        <3>1. \A e \in entries' : \E g \in entries : g.id = e.id /\ g.spec = e.spec
            BY <2>1 DEF Shrinks
        <3>2. \A e, f \in entries' : e.id = f.id => e = f
            BY DEF EntriesInv
        <3> QED BY <2>0, <3>1, <3>2
    <2>2. CASE Add /\ Grows(obj.spec)
        <3> DEFINE x == NewEntry(obj.spec)
        <3>1. pc = "add" /\ obj.spec \in Specs
            BY <2>2, AddMoves, WorkerType
        <3>2. entries' = entries \cup {x} /\ x.spec = obj.spec
            BY <2>2, <3>1, NewEntryFields DEF Grows
        <3> HIDE DEF x
        <3>3. \A e \in entries : e.spec # x.spec
            BY <1>2, <3>1, <3>2, KnownFields DEF Matching
        <3> QED BY <2>0, <3>2, <3>3
    <2> QED BY <1>4, <2>1, <2>2
<1>9. ("byID" \in kind =>
          \A o \in Copies : o.id # 0 /\ Exists(o) /\ Untouched(o) => WithID(o.id) \cap InUse # {})'
    <2> SUFFICES ASSUME "byID" \in kind', NEW o \in Copies', o.id # 0, o.uid # 0,
                        \/ o.uid = cache'.uid /\ ~cache'.deleting
                        \/ o.uid = obj'.uid /\ pc' \in Applying
                 PROVE  \E e \in entries' : e.id = o.id /\ ~e.deleting
        BY DEF Exists, Untouched, WithID, InUse
    <2>1. Known(cr)' /\ Known(cache)' /\ Known(obj)'
        BY <1>1, <1>3
    <2>2. o = cr' \/ o = cache' \/ o = obj'
        BY DEF Copies
    <2>3. CASE o = cr'
        BY <2>1, <2>3 DEF Known, Untouched, Present, Exists
    <2>4. CASE o = cache'
        BY <2>1, <2>4 DEF Known, Untouched, Present, Exists
    <2>5. CASE o = obj'
        BY <2>1, <2>5 DEF Known, Untouched, Present, Exists
    <2> QED BY <2>2, <2>3, <2>4, <2>5
<1>10. (pc \in {"remove", "add"} => Matching(obj.spec) = {})'
    BY <1>6 DEF Matching
<1> QED BY <1>7, <1>9, <1>10 DEF TwinsInv

----------------------------------------------------------------------------
(* SavedInv                                                                *)

\* SavedInv, one entry at a time.
SavedNamed(e) ==
    /\ cr.finalizer /\ cr.id = e.id
    /\ cache.uid = cr.uid /\ cache.deleting => cache.id = e.id
    /\ obj.uid = cr.uid => (pc = "delete" => obj.id = e.id) /\ pc # "unfinalize"
Replaced == (pc = "add" \/ (pc = "status" /\ obj.id # cr.id)) /\ IsCurrent(obj) => ~Present(cr.id)
PassClean == "replaces" \in kind /\ pc \in {"finalizer", "observe", "remove"} => unsaved = {}

LEMMA SavedFields ==
    SavedInv <=> (Vouched => (\A e \in Saved : SavedNamed(e)) /\ Replaced /\ PassClean)
<1>1. WithID(cr.id) \cap InUse = {} <=> ~Present(cr.id)
    BY DEF WithID, InUse, Present
<1> QED BY <1>1 DEF SavedInv, SavedNamed, Replaced, PassClean

\* No step but a save makes an entry a saved one.
LEMMA SavedShrinks ==
    ASSUME Typed, EntriesInv, [Next]_vars, ~PersistStatus, "add" \notin meddled'
    PROVE  \A e \in Saved' : e \in Saved /\ e \in entries'
<1> USE DEF Typed
<1> SUFFICES ASSUME NEW e \in entries', ~e.deleting, e.id \notin unsaved'
             PROVE  e \in entries /\ e.id \notin unsaved
    BY DEF Saved, InUse
<1>1. Shrinks \/ (Add /\ Grows(obj.spec))
    BY OnlyAdds
<1>2. CASE Shrinks
    <2>1. e \in entries
        BY <1>2 DEF Shrinks
    <2>2. CASE unsaved \subseteq unsaved'
        BY <2>1, <2>2
    <2>3. ASSUME NEW x \in Removable, Gone({x}), UNCHANGED lastId, unsaved' = unsaved \ {x.id}
          PROVE  e.id \notin unsaved
        <3>1. e.id # x.id
            BY <2>3, RemovableFacts, GoneFacts DEF EntriesInv, OneEach
        <3> QED BY <2>3, <3>1
    <2>4. CASE RemoveOld
        BY <2>1, <2>2, <2>3, <2>4, RemoveOldMoves
    <2>5. CASE Delete
        BY <2>1, <2>2, <2>3, <2>5, DeleteMoves
    <2>6. CASE Add
        BY <2>2, <2>6, AddMoves
    <2>7. CASE Begin \/ EnsureFinalizer \/ Observe \/ RemoveFinalizer \/ Crash
        BY <2>2, <2>7 DEF Begin, EnsureFinalizer, Observe, RemoveFinalizer, Crash
    <2>8. CASE SyncCache \/ AivenProgress
        BY <2>2, <2>8 DEF SyncCache, AivenProgress, history
    <2>9. ASSUME NEW s \in Specs, UserCreates(s) \/ UserEdits(s) \/ OthersAdd(s) PROVE UNCHANGED unsaved
        BY <2>9 DEF UserCreates, UserEdits, OthersAdd, history
    <2>10. CASE UserTouches \/ UserDeletes \/ OthersRemove
        BY <2>2, <2>10 DEF UserTouches, UserDeletes, OthersRemove, history
    <2>11. CASE UNCHANGED vars
        BY <2>2, <2>11 DEF vars, history
    <2> QED BY <2>1, <2>2, <2>4, <2>5, <2>6, <2>7, <2>8, <2>9, <2>10, <2>11 DEF Next, Reconcile, Others
<1>3. CASE Add /\ Grows(obj.spec) /\ ~Shrinks
    <2> DEFINE x == NewEntry(obj.spec)
    <2>1. obj.spec \in Specs /\ unsaved' = unsaved \cup {NewId} /\ NewId = lastId + 1
        BY <1>3, AddMoves, WorkerType DEF NewId
    <2>2. entries' = entries \cup {x} /\ x.id = NewId
        BY <1>3, <2>1, NewEntryFields DEF Grows
    <2> HIDE DEF x
    <2> QED BY <2>1, <2>2
<1> QED BY <1>1, <1>2, <1>3

\* What the object names is no longer in use, and no step brings it back.
LEMMA GoneStaysGone ==
    ASSUME Typed, EntriesInv, [Next]_vars, "add" \notin meddled', NEW i \in Nat, i <= lastId, ~Present(i)
    PROVE  ~WillPresent(i)
<1> USE DEF Typed
<1>1. Shrinks \/ (Add /\ Grows(obj.spec))
    BY OnlyAdds
<1>2. CASE Shrinks
    BY <1>2 DEF Shrinks, Present, WillPresent
<1>3. CASE Add /\ Grows(obj.spec)
    <2> DEFINE x == NewEntry(obj.spec)
    <2>1. obj.spec \in Specs
        BY <1>3, AddMoves, WorkerType
    <2>2. entries' = entries \cup {x} /\ x.id = lastId + 1
        BY <1>3, <2>1, NewEntryFields DEF Grows
    <2> HIDE DEF x
    <2> QED BY <2>2, ObjectsTyped DEF Present, WillPresent
<1> QED BY <1>1, <1>2, <1>3

\* An object without a finalizer has no saved entry.
LEMMA NoneSaved ==
    ASSUME Typed, CopiesInv, SavedInv, Vouched, NEW e \in Saved
    PROVE  /\ SavedNamed(e) /\ cr.finalizer /\ Exists(cr)
           /\ pc # "idle" => cr.uid = obj.uid
           /\ cr.uid = cache.uid
BY SavedFields, NoObjectFields DEF SavedNamed, CopiesInv, CacheIsEarlier, WorkerIsEarlier

SavedKept == \A e \in Saved' : e \in Saved /\ e \in entries'
SavedAfter == \A e \in Saved' : SavedNamed(e)'

\* The worker's reads and calls.
LEMMA SavedWorker ==
    ASSUME Typed, CopiesInv, EntriesInv, SavedInv, Vouched, [Next]_vars, Typed', SavedKept,
           Begin \/ EnsureFinalizer \/ Observe \/ RemoveOld \/ Add \/ Delete \/ RemoveFinalizer
    PROVE  SavedAfter
<1> USE DEF Typed
<1> SUFFICES ASSUME NEW e \in Saved' PROVE SavedNamed(e)'
    BY DEF SavedAfter
<1>0. /\ e \in Saved /\ e \in entries' /\ e \in entries /\ ~e.deleting /\ e.id # 0
      /\ SavedNamed(e) /\ cr.finalizer /\ Exists(cr) /\ (pc # "idle" => cr.uid = obj.uid)
      /\ cr.uid = cache.uid
    BY NoneSaved DEF SavedKept, Saved, InUse, EntriesInv
<1> USE DEF SavedNamed
<1>1. CASE UNCHANGED <<cr, cache>> /\ pc' \notin {"delete", "unfinalize"}
    BY <1>0, <1>1
<1>2. CASE Begin
    BY <1>0, <1>1, <1>2 DEF Begin, worker
<1>3. CASE EnsureFinalizer
    <2>1. CASE Finalized
        BY <1>0, <1>3, <2>1, CurrentIsSame, EnsureMoves DEF Finalized
    <2> QED BY <1>1, <1>3, <2>1, EnsureMoves, StopsType, GoesType, ObjectsTyped DEF PCs
<1>4. CASE Observe
    <2>1. \A p, i : Goes(p, i) => pc' = p
        BY DEF Goes
    <2>2. UNCHANGED <<cr, cache>> /\ pc' \notin {"delete", "unfinalize"}
        BY <1>4, <2>1, ObserveMoves, StopsType
    <2> QED BY <1>1, <2>2
<1>5. CASE RemoveOld \/ Add
    <2>1. \A p, i : Goes(p, i) => pc' = p
        BY DEF Goes
    <2>2. UNCHANGED <<cr, cache>> /\ pc' \notin {"delete", "unfinalize"}
        BY <1>5, <2>1, RemoveOldMoves, AddMoves, StopsType
    <2> QED BY <1>1, <2>2
<1>6. CASE Delete
    <2>0. pc = "delete" /\ UNCHANGED <<cr, cache>> /\ obj.id = e.id
        BY <1>0, <1>6, DeleteMoves
    <2>1. CASE Stops
        BY <1>1, <2>0, <2>1, StopsType
    <2>2. CASE \A x \in Removable : x.deleting
        BY <1>0, <2>0, <2>2, RemovableFacts DEF WithID
    <2>3. ASSUME NEW x \in Removable, Gone({x}), UNCHANGED lastId PROVE FALSE
        <3>1. x.id = e.id /\ x \in entries
            BY <1>0, <2>0, RemovableFacts DEF WithID
        <3> QED BY <1>0, <2>3, <3>1, GoneFacts DEF EntriesInv, OneEach
    <2> QED BY <1>6, <2>1, <2>2, <2>3, DeleteMoves
<1>7. CASE RemoveFinalizer
    BY <1>0, <1>7, RemoveMoves
<1> QED BY <1>2, <1>3, <1>4, <1>5, <1>6, <1>7

\* A save.
LEMMA SavedPersist ==
    ASSUME Typed, CopiesInv, EntriesInv, SavedInv, Vouched, [Next]_vars, Typed', PersistStatus
    PROVE  SavedAfter
<1> USE DEF Typed
<1>0. pc = "status" /\ Stops /\ UNCHANGED <<cache, aiven>> /\ (Saves \/ UNCHANGED <<cr, unsaved>>)
    BY PersistMoves
<1> SUFFICES ASSUME NEW e \in Saved' PROVE SavedNamed(e)'
    BY DEF SavedAfter
<1>1. e \in entries /\ ~e.deleting /\ e.id \notin unsaved'
    BY <1>0 DEF Saved, InUse, aiven
<1>2. pc' = "idle"
    BY <1>0, StopsType
<1>3. CASE UNCHANGED <<cr, unsaved>>
    <2>1. e \in Saved
        BY <1>1, <1>3 DEF Saved, InUse
    <2> QED BY <1>0, <1>2, <1>3, <2>1, NoneSaved DEF SavedNamed
<1>4. CASE Saves /\ e.id \notin unsaved
    <2>1. e \in Saved
        BY <1>1, <1>4 DEF Saved, InUse
    <2>2. SavedNamed(e) /\ Replaced
        BY <2>1, SavedFields
    <2>3. obj.id = cr.id
        BY <1>0, <1>1, <1>4, <2>2 DEF SavedNamed, Replaced, Present, Saves
    <2> QED BY <1>0, <1>2, <1>4, <2>2, <2>3 DEF SavedNamed, Saves
<1>5. CASE Saves /\ e.id \in unsaved
    <2>1. ~cr.deleting /\ e.id = obj.id /\ IsCurrent(obj) /\ cr'.id = e.id /\ cr'.uid = cr.uid
          /\ cr'.finalizer = cr.finalizer
        BY <1>1, <1>5 DEF Saves
    <2>2. cr.finalizer
        BY <1>0, <2>1, CurrentIsSame DEF CopiesInv, WorkerPath
    <2>3. ~(cache.uid = cr.uid /\ cache.deleting)
        BY <2>1, TouchedFacts DEF IsCurrent, Exists
    <2> QED BY <1>0, <1>2, <2>1, <2>2, <2>3 DEF SavedNamed
<1> QED BY <1>0, <1>3, <1>4, <1>5

\* The cache, the manager, users and other clients.
LEMMA SavedOthers ==
    ASSUME Typed, CopiesInv, EntriesInv, SavedInv, Vouched, [Next]_vars, Typed', SavedKept, ~Reconcile
    PROVE  SavedAfter
<1> USE DEF Typed
<1> SUFFICES ASSUME NEW e \in Saved' PROVE SavedNamed(e)'
    BY DEF SavedAfter
<1>0. /\ SavedNamed(e) /\ cr.finalizer /\ Exists(cr) /\ (pc # "idle" => cr.uid = obj.uid)
      /\ cr.uid = cache.uid
    BY NoneSaved DEF SavedKept
<1> USE DEF SavedNamed
<1>1. CASE UNCHANGED <<cr, cache, worker>>
    BY <1>0, <1>1 DEF worker
<1>2. CASE Crash
    BY <1>0, <1>2, StopsFacts, StopsType DEF Crash
<1>3. CASE SyncCache
    BY <1>0, <1>3 DEF SyncCache, worker
<1>4. ASSUME NEW s \in Specs, UserCreates(s) \/ UserEdits(s) \/ UserTouches \/ UserDeletes
      PROVE  SavedNamed(e)'
    BY <1>0, <1>4, UserMoves DEF Makes, Withdraws, Revises, worker
<1>5. CASE UserTouches \/ UserDeletes
    <2>1. PICK s \in Specs : TRUE
        BY <1>0 DEF SpecifiedInv, Copies
    <2> QED BY <1>4, <1>5, <2>1
<1>6. AivenProgress \/ OthersRemove \/ (\E s \in Specs : OthersAdd(s)) \/ UNCHANGED vars
        => UNCHANGED <<cr, cache, worker>>
    BY DEF AivenProgress, OthersRemove, OthersAdd, vars, worker
<1> QED BY <1>1, <1>2, <1>3, <1>4, <1>5, <1>6 DEF Next, Others

----------------------------------------------------------------------------
(* SavedInv, continued: replacements                                       *)

ReplacedAfter ==
    (pc' = "add" \/ (pc' = "status" /\ obj'.id # cr'.id))
        /\ Exists(obj') /\ obj'.uid = cr'.uid /\ obj'.rv = cr'.rv
    => ~WillPresent(cr'.id)

\* A worker that found another entry than the one the object names, or none,
\* leaves none of that name.
LEMMA ReplacedObserve ==
    ASSUME Typed, CopiesInv, EntriesInv, ContentInv, TwinsInv, SavedInv, Vouched, Observe,
           "add" \notin meddled'
    PROVE  ReplacedAfter
<1> USE DEF Typed
<1>0. pc = "observe" /\ UNCHANGED <<cr, entries, meddled, kind>>
    BY ObserveMoves DEF aiven
<1> SUFFICES ASSUME pc' = "add" \/ (pc' = "status" /\ obj'.id # cr.id),
                    Exists(obj'), obj'.uid = cr.uid, obj'.rv = cr.rv,
                    NEW f \in entries, f.id = cr.id, ~f.deleting
             PROVE  FALSE
    BY <1>0 DEF ReplacedAfter, WillPresent
<1>1. f.id # 0 /\ cr.id \in Nat /\ obj.id \in Nat
    BY ObjectsTyped DEF EntriesInv
<1>2. (\E p \in PCs, i \in Nat : Goes(p, i)) => IsCurrent(obj)
    BY GoesType DEF IsCurrent
<1>3. IsCurrent(obj) => obj = cr
    BY <1>0, CurrentIsSame DEF Fetched
<1>4. "replaces" \notin kind => f.spec = cr.spec
    BY ContentFields DEF Names
<1>5. CASE Stops
    BY <1>5, StopsType
<1>6. ASSUME NEW e \in Adoptable, Goes("status", e.id) PROVE FALSE
    <2>1. e \in Found /\ e \in entries /\ e.id \in Nat /\ (e.deleting => obj.id = e.id)
        BY FoundFacts, ObjectsTyped DEF Adoptable, EntriesInv
    <2>2. obj = cr /\ e.id # cr.id
        BY <1>2, <1>3, <1>6, <2>1, GoesType DEF PCs
    <2>3. ~("byID" \in kind /\ obj.id # 0)
        BY <2>1, <2>2, FoundFacts DEF WithID
    <2>4. e.spec = cr.spec /\ ~e.deleting /\ "byID" \notin kind
        BY <1>1, <2>1, <2>2, <2>3, FoundFacts DEF Matching
    <2>5. CASE "replaces" \in kind
        <3>1. e \in Saved
            BY <1>0, <2>1, <2>4, <2>5, SavedFields DEF PassClean, Saved, InUse
        <3> QED BY <2>2, <3>1, SavedFields DEF SavedNamed
    <2>6. CASE "replaces" \notin kind
        <3>1. LooksSafely
            BY <2>4, KindFacts DEF Vouched, LooksSafely
        <3>2. e = f
            BY <1>4, <2>1, <2>4, <2>6, <3>1, KnownFields
        <3> QED BY <2>2, <3>2
    <2> QED BY <2>5, <2>6
<1>7. ASSUME Found = {}, pc' = (IF "replaces" \in kind THEN "remove" ELSE "add"),
             Goes(pc', IF "forgets" \in kind THEN 0 ELSE obj.id)
      PROVE  FALSE
    <2>1. pc' = "add" /\ "replaces" \notin kind
        BY <1>7
    <2>2. obj = cr
        BY <1>1, <1>2, <1>3, <1>7, <2>1 DEF PCs
    <2>3. ~("byID" \in kind /\ obj.id # 0)
        BY <1>7, <2>2, FoundFacts DEF WithID
    <2>4. Matching(obj.spec) = {}
        BY <1>7, <2>3, FoundFacts, KindFacts, <1>1, <2>2 DEF EntriesInv, Numbered
    <2> QED BY <1>4, <2>1, <2>2, <2>4 DEF Matching
<1> QED BY <1>5, <1>6, <1>7, ObserveMoves

\* The entry that is replaced is removed first.
LEMMA ReplacedRemove ==
    ASSUME Typed, CopiesInv, EntriesInv, SavedInv, Vouched, RemoveOld
    PROVE  ReplacedAfter
<1> USE DEF Typed
<1>0. pc = "remove" /\ UNCHANGED cr /\ obj.id \in Nat
    BY RemoveOldMoves, ObjectsTyped
<1>1. CASE Stops
    BY <1>1, StopsType DEF ReplacedAfter
<1>2. ASSUME Goes("add", obj.id), obj'.uid = cr.uid, obj'.rv = cr.rv, Exists(obj')
      PROVE  obj = cr
    <2>1. IsCurrent(obj)
        BY <1>0, <1>2, GoesType DEF IsCurrent, PCs
    <2> QED BY <1>0, <2>1, CurrentIsSame DEF Fetched
<1>3. ASSUME Goes("add", obj.id), UNCHANGED entries, Removable = {} PROVE ReplacedAfter
    <2> SUFFICES ASSUME obj'.uid = cr.uid, obj'.rv = cr.rv, Exists(obj'),
                        NEW f \in entries, f.id = cr.id
                 PROVE  FALSE
        BY <1>0, <1>3 DEF ReplacedAfter, WillPresent
    <2>1. obj = cr /\ obj.id # 0
        BY <1>2, <1>3, ObjectsTyped DEF EntriesInv
    <2> QED BY <1>3, <2>1, RemovableFacts DEF WithID
<1>4. ASSUME NEW x \in Removable, Gone({x}), UNCHANGED lastId, Goes("add", obj.id) PROVE ReplacedAfter
    <2> SUFFICES ASSUME obj'.uid = cr.uid, obj'.rv = cr.rv, Exists(obj'),
                        NEW f \in entries', f.id = cr.id, ~f.deleting
                 PROVE  FALSE
        BY <1>0, <1>4 DEF ReplacedAfter, WillPresent
    <2>1. obj = cr /\ x \in entries
        BY <1>2, <1>4, RemovableFacts
    <2>2. f \in entries /\ f.id # x.id
        BY <1>4, <2>1, GoneFacts DEF EntriesInv, OneEach, Shrinks
    <2>3. obj.id # 0
        BY <2>1, <2>2, ObjectsTyped DEF EntriesInv
    <2> QED BY <2>1, <2>2, <2>3, RemovableFacts DEF WithID
<1> QED BY <1>1, <1>3, <1>4, RemoveOldMoves

\* The worker's other steps: only an add that lost its answer, or that was
\* answered with a new identifier, goes on to save something else.
LEMMA ReplacedWorker ==
    ASSUME Typed, CopiesInv, EntriesInv, SavedInv, Vouched, [Next]_vars, Typed', "add" \notin meddled',
           Begin \/ EnsureFinalizer \/ Add \/ PersistStatus \/ Delete \/ RemoveFinalizer
    PROVE  ReplacedAfter
<1> USE DEF Typed, ReplacedAfter
<1>1. CASE Begin
    <2>1. pc' \notin {"add", "status"}
        BY <1>1 DEF Begin, worker
    <2> QED BY <2>1
<1>2. CASE EnsureFinalizer
    <2>1. pc' \notin {"add", "status"}
        BY <1>2, EnsureMoves, StopsType, GoesType, ObjectsTyped DEF Finalized, PCs
    <2> QED BY <2>1
<1>3. CASE PersistStatus \/ RemoveFinalizer
    BY <1>3, PersistMoves, RemoveMoves, StopsType
<1>4. CASE Delete
    <2>1. pc' \notin {"add", "status"}
        BY <1>4, DeleteMoves, StopsType, GoesType, ObjectsTyped DEF PCs
    <2> QED BY <2>1
<1>5. CASE Add
    <2>0. pc = "add" /\ UNCHANGED cr
        BY <1>5, AddMoves
    <2>1. \E i \in Nat : Goes("status", i)
        BY <1>5, AddMoves, ObjectsTyped DEF NewId
    <2> SUFFICES ASSUME Exists(obj'), obj'.uid = cr.uid, obj'.rv = cr.rv PROVE ~WillPresent(cr.id)
        BY <2>0
    <2>2. IsCurrent(obj)
        BY <2>1, GoesType DEF IsCurrent, PCs
    <2>3. ~Present(cr.id) /\ cr.id <= lastId /\ cr.id \in Nat
        BY <2>0, <2>2, SavedFields, ObjectsTyped DEF Replaced, EntriesInv, Copies
    <2> QED BY <2>3, GoneStaysGone
<1> QED BY <1>1, <1>2, <1>3, <1>4, <1>5

\* A copy with which the worker works is no longer current once a user acts.
LEMMA ReplacedOthers ==
    ASSUME Typed, CopiesInv, EntriesInv, SavedInv, Vouched, [Next]_vars, Typed', "add" \notin meddled',
           ~Reconcile
    PROVE  ReplacedAfter
<1> USE DEF Typed
<1>1. CASE Stops
    BY <1>1, StopsType DEF ReplacedAfter
<1>2. CASE UNCHANGED <<cr, worker>>
    <2>1. cr.id \in Nat /\ cr.id <= lastId
        BY ObjectsTyped DEF EntriesInv, Copies
    <2> QED BY <1>2, <2>1, SavedFields, GoneStaysGone DEF ReplacedAfter, Replaced, IsCurrent, worker
<1>3. ASSUME NEW s \in Specs, UserCreates(s) \/ UserEdits(s) \/ UserTouches \/ UserDeletes
      PROVE  ReplacedAfter
    <2>1. UNCHANGED worker /\ (Makes(s) \/ Revises \/ Withdraws)
        BY <1>3, UserMoves
    <2> SUFFICES ASSUME pc # "idle", Exists(obj), obj.uid = cr'.uid, obj.rv = cr'.rv PROVE FALSE
        BY <2>1 DEF ReplacedAfter, worker
    <2>2. obj.uid <= edits /\ Behind(obj)
        BY CopiesFields, ObjectsTyped DEF CopiesInv, WorkerIsEarlier
    <2>3. CASE Makes(s)
        BY <2>2, <2>3, FreshFields, ObjectsTyped DEF Makes
    <2>4. CASE Revises
        BY <2>2, <2>4, ObjectsTyped DEF Revises, Behind
    <2>5. CASE Withdraws
        BY <2>5, NoObjectFields DEF Withdraws, Exists
    <2> QED BY <2>1, <2>3, <2>4, <2>5
<1>4. CASE UserTouches \/ UserDeletes
    <2>1. PICK s \in Specs : TRUE
        BY <1>4 DEF UserTouches, UserDeletes, SpecifiedInv, Copies
    <2> QED BY <1>3, <1>4, <2>1
<1>5. Crash => Stops
    BY StopsFacts DEF Crash
<1>6. SyncCache \/ AivenProgress \/ OthersRemove \/ (\E s \in Specs : OthersAdd(s)) \/ UNCHANGED vars
        => UNCHANGED <<cr, worker>>
    BY DEF SyncCache, AivenProgress, OthersRemove, OthersAdd, vars, worker
<1> QED BY <1>1, <1>2, <1>3, <1>4, <1>5, <1>6 DEF Next, Others

\* A pass of a kind that replaces starts with everything saved.
LEMMA PassStep ==
    ASSUME Typed, [Next]_vars, Typed', PassClean, "replaces" \in kind, ~troubled',
           pc' \in {"finalizer", "observe", "remove"}
    PROVE  unsaved' = {}
<1> USE DEF Typed
<1>1. CASE Begin
    BY <1>1 DEF Begin
<1>2. CASE EnsureFinalizer \/ Observe
    BY <1>2, EnsureMoves, ObserveMoves DEF PassClean
<1>3. CASE RemoveOld \/ Add \/ Delete
    <2>1. \A p, i : Goes(p, i) => pc' = p
        BY DEF Goes
    <2>2. pc' \notin {"finalizer", "observe", "remove"}
        BY <1>3, <2>1, RemoveOldMoves, AddMoves, DeleteMoves, StopsType
    <2> QED BY <2>2
<1>4. CASE PersistStatus \/ RemoveFinalizer \/ Crash
    BY <1>4, PersistMoves, RemoveMoves, StopsFacts, StopsType DEF Crash
<1>5. CASE UNCHANGED <<unsaved, worker>>
    BY <1>5 DEF worker, PassClean
<1>6. SyncCache \/ AivenProgress \/ OthersRemove \/ UserTouches \/ UserDeletes \/ UNCHANGED vars
      \/ (\E s \in Specs : UserCreates(s) \/ UserEdits(s) \/ OthersAdd(s))
        => UNCHANGED <<unsaved, worker>>
    BY DEF SyncCache, AivenProgress, OthersRemove, OthersAdd, UserTouches, UserDeletes, UserCreates,
           UserEdits, vars, worker, history
<1> QED BY <1>1, <1>2, <1>3, <1>4, <1>5, <1>6 DEF Next, Reconcile, Others

LEMMA SavedStep ==
    ASSUME Typed, CopiesInv, EntriesInv, ContentInv, TwinsInv, SavedInv, [Next]_vars, Typed'
    PROVE  SavedInv'
<1> USE DEF Typed
<1>1. kind' = kind /\ meddled \subseteq meddled' /\ (troubled => troubled')
    BY CountersType, MeddledGrows
<1> SUFFICES ASSUME Vouched' PROVE SavedInv'
    BY DEF SavedInv
<1>2. Vouched /\ "add" \notin meddled' /\ ("replaces" \in kind => ~troubled')
    BY <1>1 DEF Vouched
<1>3. ~PersistStatus => SavedKept
    BY <1>2, SavedShrinks DEF SavedKept
<1>4. SavedAfter
    BY <1>2, <1>3, SavedWorker, SavedPersist, SavedOthers DEF Reconcile
<1>5. ReplacedAfter
    BY <1>2, ReplacedObserve, ReplacedRemove, ReplacedWorker, ReplacedOthers DEF Reconcile
<1>6. "replaces" \in kind /\ pc' \in {"finalizer", "observe", "remove"} => unsaved' = {}
    BY <1>2, PassStep, SavedFields
<1>7. (\A e \in Saved : /\ cr.finalizer /\ cr.id = e.id
                        /\ cache.uid = cr.uid /\ cache.deleting => cache.id = e.id
                        /\ obj.uid = cr.uid => /\ pc = "delete" => obj.id = e.id
                                               /\ pc # "unfinalize")'
    BY <1>4 DEF SavedAfter, SavedNamed
<1>8. ((pc = "add" \/ (pc = "status" /\ obj.id # cr.id)) /\ IsCurrent(obj)
          => WithID(cr.id) \cap InUse = {})'
    BY <1>5 DEF ReplacedAfter, WillPresent, IsCurrent, WithID, InUse, Exists
<1>9. ("replaces" \in kind /\ pc \in {"finalizer", "observe", "remove"} => unsaved = {})'
    BY <1>1, <1>6
<1> QED BY <1>7, <1>8, <1>9 DEF SavedInv

----------------------------------------------------------------------------
(* Theorems                                                                *)

LEMMA IdentityInit == Init => Typed /\ IdentityInv
<1> SUFFICES ASSUME Init PROVE Typed /\ IdentityInv
    OBVIOUS
<1>0. /\ cr = NoObject /\ cache = NoObject /\ obj = NoObject /\ pc = "idle" /\ entries = {}
      /\ lastId = 0 /\ edits = 0 /\ unsaved = {}
    BY DEF Init
<1>1. Typed
    BY InitTyped DEF Typed
<1>2. CopiesInv
    BY <1>0, NoObjectFields DEF CopiesInv, CacheIsEarlier, WorkerIsEarlier, WorkerPath, Earlier,
                                IsCurrent, Exists
<1>3. EntriesInv
    BY <1>0, NoObjectFields DEF EntriesInv, Copies
<1>4. ContentInv
    BY <1>0, NoObjectFields DEF ContentInv, Copies, WithID
<1>5. TwinsInv
    BY <1>0, NoObjectFields DEF TwinsInv, Copies
<1>6. SavedInv
    BY <1>0, NoObjectFields DEF SavedInv, Saved, InUse
<1> QED BY <1>1, <1>2, <1>3, <1>4, <1>5, <1>6 DEF IdentityInv, Typed

LEMMA IdentityStep ==
    ASSUME Typed, IdentityInv, [Next]_vars
    PROVE  (Typed /\ IdentityInv)'
<1> USE DEF IdentityInv
<1>1. Typed'
    BY TypeStep DEF Typed
<1>2. CopiesInv'
    BY <1>1, CopiesStep
<1>3. EntriesInv'
    BY <1>1, EntriesStep
<1>4. ContentInv'
    BY <1>1, <1>2, <1>3, ContentStep
<1>5. TwinsInv'
    BY <1>1, <1>3, TwinsStep
<1>6. SavedInv'
    BY <1>1, SavedStep
<1> QED BY <1>1, <1>2, <1>3, <1>4, <1>5, <1>6 DEF Typed

\* What the copies of the object and the identifiers in them say of the object
\* and of Aiven stays true, for every kind and any number of steps.
THEOREM IdentityInvCorrect == Spec => [](Typed /\ IdentityInv)
<1>1. Typed /\ IdentityInv /\ [Next]_vars => (Typed /\ IdentityInv)'
    BY IdentityStep
<1> QED BY IdentityInit, <1>1, PTL DEF Spec

\* The saved ID names an entry with the content of the object: the worker took
\* it from an entry it found by that content, or from the one it made of it,
\* and its copy is refused if it is of another incarnation.
THEOREM SavedHasContent == Spec => []SavedIsRight
<1>1. Typed /\ IdentityInv => SavedIsRight
    BY DEF IdentityInv, ContentInv, Copies, SavedIsRight
<1> QED BY <1>1, IdentityInvCorrect, PTL

\* A kind that looks for an entry of the content before it makes one never has
\* two of the same: a worker on its way to Create has not found any, and those
\* it may skip looking for it knows by an ID that is still there.
THEOREM MakesNoTwins == Spec => []NoDuplicates
<1>1. Typed /\ IdentityInv => NoDuplicates
    <2> SUFFICES ASSUME IdentityInv, LooksSafely, NEW e \in MineInUse, NEW f \in MineInUse, e.spec = f.spec
                 PROVE  e = f
        BY DEF NoDuplicates, LooksSafely
    <2>1. e \in entries /\ f \in entries
        BY DEF MineInUse, InUse
    <2> QED BY <2>1, KnownFields DEF IdentityInv
<1> QED BY <1>1, IdentityInvCorrect, PTL

\* When the object is gone no entry made for it is left whose ID had been saved:
\* a finalizer goes only after Delete, which was given the saved ID.
THEOREM LeavesNothingBehind == Spec => []LeavesNothing
<1>1. Typed /\ IdentityInv => LeavesNothing
    <2> SUFFICES ASSUME Typed, IdentityInv, ~Exists(cr), Vouched, NEW i \in IDsOf(MineInUse), i \notin unsaved
                 PROVE  FALSE
        BY DEF LeavesNothing, Vouched
    <2>1. PICK e \in Saved : TRUE
        BY DEF IDsOf, MineInUse, Saved
    <2>2. Exists(cr)
        BY <2>1, NoneSaved DEF IdentityInv
    <2> QED BY <2>2
<1> QED BY <1>1, IdentityInvCorrect, PTL
=============================================================================

----------------------- MODULE SchemaReferences_proofs -----------------------
(***************************************************************************)
(* Theorems about SchemaReferences, for any number of objects, any         *)
(* references among them and any rule of what the registry refuses; that   *)
(* it does not run away, for any two objects.                              *)
(***************************************************************************)
EXTENDS SchemasInvariant, WellFoundedInduction, TLAPS

PCs == {"idle", "observe", "level", "post", "persist", "annotate", "delete", "harddelete",
        "unfinalize"}

----------------------------------------------------------------------------
(* Values                                                                  *)

LEMMA ObjectTypes ==
    ASSUME NEW o, IsObject(o)
    PROVE  /\ o \in Objects
           /\ o.uid \in Nat /\ o.rv \in Nat /\ o.gen \in Nat /\ o.processed \in Nat
           /\ o.version \in Nat /\ o.gen # 0 /\ o.processed <= o.gen
           /\ o.spec \in Specs /\ o.spec.body \in Nat /\ o.spec.level \in Levels \cup {""}
           /\ o.spec.refs \in SUBSET Names
           /\ o.deleting \in BOOLEAN /\ o.running \in BOOLEAN /\ o.level \in Levels \cup {""}
BY DEF IsObject, Objects, Specs

LEMMA FreshFields ==
    ASSUME NEW u \in Nat, NEW s \in Specs
    PROVE  /\ IsObject(Fresh(u, s))
           /\ Fresh(u, s).uid = u /\ Fresh(u, s).rv = 1 /\ Fresh(u, s).gen = 1
           /\ Fresh(u, s).spec = s /\ ~Fresh(u, s).deleting
           /\ Fresh(u, s).version = 0 /\ Fresh(u, s).processed = 0
<1> DEFINE d == Fresh(u, s)
<1>1. /\ d \in Objects /\ d.uid = u /\ d.rv = 1 /\ d.gen = 1 /\ d.spec = s /\ ~d.deleting
      /\ d.version = 0 /\ d.applied = {} /\ d.processed = 0
    BY DEF Fresh, Objects
<1> HIDE DEF d
<1>2. IsObject(d)
    BY <1>1, BoundAssumption DEF IsObject
<1> QED BY <1>1, <1>2 DEF d

LEMMA NoObjectFields ==
    /\ IsObject(NoObject) /\ ~Exists(NoObject) /\ NoObject.uid = 0 /\ NoObject.gen = 1
    /\ NoObject.processed = 0 /\ NoObject.version = 0 /\ ~NoObject.deleting
<1>1. [body |-> 0, level |-> "", refs |-> {}] \in Specs
    BY DEF Specs
<1> QED BY <1>1, FreshFields DEF NoObject, Exists

\* A copy that the worker has changed, but for what it says is processed.
Alike(o, c) ==
    /\ IsObject(o) /\ SameObject(o, c)
    /\ o.version = c.version /\ o.processed = c.processed

LEMMA AlikeItself ==
    ASSUME NEW o, IsObject(o)
    PROVE  Alike(o, o)
BY DEF Alike, SameObject

LEMMA RunningFields ==
    ASSUME NEW o, IsObject(o), NEW b \in BOOLEAN
    PROVE  Alike([o EXCEPT !.running = b], o)
<1> DEFINE d == [o EXCEPT !.running = b]
<1>1. o \in Objects
    BY DEF IsObject
<1>2. /\ d \in Objects /\ SameObject(d, o) /\ d.version = o.version /\ d.applied = o.applied
      /\ d.processed = o.processed
    BY <1>1 DEF Objects, SameObject
<1> HIDE DEF d
<1>3. Alike(d, o)
    BY <1>2 DEF IsObject, Alike, SameObject
<1> QED BY <1>3 DEF d

LEMMA LevelFields ==
    ASSUME NEW o, IsObject(o), NEW l \in Levels \cup {""}
    PROVE  Alike([o EXCEPT !.level = l], o)
<1> DEFINE d == [o EXCEPT !.level = l]
<1>1. o \in Objects
    BY DEF IsObject
<1>2. /\ d \in Objects /\ SameObject(d, o) /\ d.version = o.version /\ d.applied = o.applied
      /\ d.processed = o.processed
    BY <1>1 DEF Objects, SameObject
<1> HIDE DEF d
<1>3. Alike(d, o)
    BY <1>2 DEF IsObject, Alike, SameObject
<1> QED BY <1>3 DEF d

LEMMA BackfilledFields ==
    ASSUME NEW o, IsObject(o)
    PROVE  Alike(Backfilled(o), o)
<1> DEFINE l == IF o.level = "" THEN o.spec.level ELSE o.level
<1>1. l \in Levels \cup {""}
    BY ObjectTypes
<1>2. Backfilled(o) = [o EXCEPT !.level = l]
    BY DEF Backfilled
<1> HIDE DEF l
<1> QED BY <1>1, <1>2, LevelFields

LEMMA CompletedFields ==
    ASSUME NEW o, IsObject(o)
    PROVE  /\ IsObject(Completed(o)) /\ SameObject(Completed(o), o)
           /\ Completed(o).version = o.version /\ Completed(o).processed = o.gen
<1> DEFINE d == [o EXCEPT !.processed = o.gen]
<1>1. o \in Objects /\ o.gen \in Nat
    BY ObjectTypes
<1>2. /\ d \in Objects /\ SameObject(d, o) /\ d.version = o.version /\ d.applied = o.applied
      /\ d.processed = o.gen
    BY <1>1 DEF Objects, SameObject
<1>3. Completed(o) = d
    BY DEF Completed
<1> HIDE DEF d
<1> QED BY <1>1, <1>2, <1>3 DEF IsObject, SameObject

\* The object after a registration.
LEMMA PostedFields ==
    ASSUME NEW o, IsObject(o), NEW v \in 1 .. MaxVersions, NEW r \in Refs
    PROVE  LET d == [o EXCEPT !.version = v, !.applied = fingerprintSchema(o, r)]
           IN  IsObject(d) /\ SameObject(d, o) /\ d.version = v
<1> DEFINE f == fingerprintSchema(o, r)
           d == [o EXCEPT !.version = v, !.applied = f]
<1>1. o \in Objects /\ o.gen # 0 /\ o.processed <= o.gen /\ v \in Nat
    <2>1. v \in Nat
        BY BoundAssumption
    <2> QED BY <2>1, ObjectTypes
<1>2. f \in SUBSET Fingerprints /\ f # {}
    <2>1. o.spec.body \in Nat /\ o.spec.level \in Levels \cup {""}
        BY ObjectTypes
    <2>2. <<o.spec.body, o.spec.level, r>> \in Fingerprints
        BY <2>1 DEF Fingerprints
    <2> QED BY <2>2 DEF fingerprintSchema
<1> HIDE DEF f
<1>3. /\ d \in Objects /\ SameObject(d, o) /\ d.version = v /\ d.applied = f
      /\ d.processed = o.processed /\ d.gen = o.gen
    BY <1>1, <1>2 DEF Objects, SameObject
<1>4. v <= MaxVersions /\ v # 0
    BY BoundAssumption
<1> HIDE DEF d
<1>5. IsObject(d)
    BY <1>1, <1>2, <1>3, <1>4 DEF IsObject
<1> QED BY <1>3, <1>5 DEF d, f

\* But for its version and generation.
SameBut(d, c) ==
    /\ d.uid = c.uid /\ d.spec = c.spec /\ d.deleting = c.deleting /\ d.version = c.version
    /\ d.applied = c.applied /\ d.processed = c.processed

\* The next version of an object.
Newer(d, c) == IsObject(d) /\ d.uid = c.uid /\ d.rv = c.rv + 1

LEMMA VersionFields ==
    \A o \in Objects, k \in Nat :
           /\ [o EXCEPT !.rv = k] \in Objects /\ [o EXCEPT !.gen = k] \in Objects
           /\ SameBut([o EXCEPT !.rv = k], o) /\ [o EXCEPT !.rv = k].gen = o.gen
           /\ [o EXCEPT !.rv = k].rv = k
           /\ SameBut([o EXCEPT !.gen = k], o) /\ [o EXCEPT !.gen = k].rv = o.rv
           /\ [o EXCEPT !.gen = k].gen = k
BY DEF Objects, SameBut

LEMMA WriteFields ==
    ASSUME NEW o, IsObject(o)
    PROVE  /\ Newer(Write(o), o)
           /\ Write(o).spec = o.spec /\ Write(o).gen = o.gen /\ Write(o).deleting = o.deleting
           /\ Write(o).version = o.version /\ Write(o).processed = o.processed
           /\ Write(o).applied = o.applied
<1> DEFINE d == Write(o)
<1>1. o \in Objects /\ o.rv \in Nat
    BY ObjectTypes
<1>2. d \in Objects /\ SameBut(d, o) /\ d.rv = o.rv + 1 /\ d.gen = o.gen
    <2> DEFINE k == o.rv + 1
    <2>1. k \in Nat /\ d = [o EXCEPT !.rv = k]
        BY <1>1 DEF Write
    <2> HIDE DEF d
    <2>2. d.rv = k
        <3> HIDE DEF k
        <3> QED BY <1>1, <2>1, VersionFields
    <2>3. d \in Objects /\ SameBut(d, o) /\ d.gen = o.gen
        <3> HIDE DEF k
        <3> QED BY <1>1, <2>1, VersionFields
    <2> QED BY <2>2, <2>3
<1> HIDE DEF d
<1>3. Newer(d, o)
    BY <1>2 DEF IsObject, Newer, SameBut
<1> QED BY <1>2, <1>3 DEF d, SameBut

\* A change by a user begins a new generation.
Revises(c, d) ==
    /\ Newer(d, c) /\ d.gen = c.gen + 1 /\ d.processed = c.processed /\ d.version = c.version
    /\ Exists(c) /\ ~c.deleting

LEMMA RegenerateFields ==
    ASSUME NEW o, IsObject(o), NEW c, Exists(c), ~c.deleting,
           o.uid = c.uid, o.rv = c.rv, o.gen = c.gen, o.processed = c.processed,
           o.version = c.version
    PROVE  Revises(c, Regenerate(o))
<1> DEFINE d == Regenerate(o)
<1>1. o \in Objects /\ o.rv \in Nat /\ o.gen \in Nat /\ o.processed \in Nat /\ o.processed <= o.gen
    BY ObjectTypes
<1>2. d \in Objects /\ SameBut(d, o) /\ d.rv = o.rv + 1 /\ d.gen = o.gen + 1
    <2> DEFINE w == [o EXCEPT !.rv = o.rv + 1]
    <2>1. w \in Objects /\ SameBut(w, o) /\ w.rv = o.rv + 1 /\ w.gen = o.gen
        <3>1. Write(o) = w
            BY DEF Write
        <3> HIDE DEF w
        <3> QED BY <1>1, <3>1, WriteFields DEF Newer, IsObject, SameBut
    <2> DEFINE k == o.gen + 1
    <2>2. k \in Nat /\ d = [w EXCEPT !.gen = k]
        <3>1. d = [w EXCEPT !.gen = k]
            BY DEF Regenerate
        <3> QED BY <1>1, <3>1
    <2>3. d.gen = o.gen + 1 /\ SameBut(d, w) /\ d.rv = w.rv /\ d \in Objects
        <3> HIDE DEF w, d
        <3>1. d.gen = k /\ SameBut(d, w) /\ d.rv = w.rv /\ d \in Objects
            <4> HIDE DEF k
            <4> QED BY <2>1, <2>2, VersionFields
        <3> QED BY <3>1
    <2> HIDE DEF w, d, k
    <2> QED BY <2>1, <2>3 DEF SameBut
<1> HIDE DEF d
<1>3. IsObject(d)
    BY <1>1, <1>2 DEF IsObject, SameBut
<1>4. Revises(c, d)
    BY <1>2, <1>3 DEF Newer, Revises, SameBut
<1> QED BY <1>4 DEF d

LEMMA RevisionFields ==
    ASSUME NEW c, IsObject(c), NEW s \in Specs, Exists(c), ~c.deleting
    PROVE  /\ Revises(c, Regenerate([c EXCEPT !.spec = s]))
           /\ Revises(c, Regenerate([c EXCEPT !.deleting = TRUE]))
<1> DEFINE d == [c EXCEPT !.spec = s]
           e == [c EXCEPT !.deleting = TRUE]
<1>1. c \in Objects
    BY DEF IsObject
<1>2. /\ d \in Objects /\ d.uid = c.uid /\ d.rv = c.rv /\ d.gen = c.gen
      /\ d.processed = c.processed /\ d.version = c.version /\ d.applied = c.applied
    BY <1>1 DEF Objects
<1>3. /\ e \in Objects /\ e.uid = c.uid /\ e.rv = c.rv /\ e.gen = c.gen
      /\ e.processed = c.processed /\ e.version = c.version /\ e.applied = c.applied
    BY <1>1 DEF Objects
<1> HIDE DEF d, e
<1>4. IsObject(d) /\ IsObject(e)
    BY <1>2, <1>3 DEF IsObject
<1>5. Revises(c, Regenerate(d)) /\ Revises(c, Regenerate(e))
    BY <1>2, <1>3, <1>4, RegenerateFields
<1> QED BY <1>5 DEF d, e

\* One object changes.
Writes(n, d) == crs' = [crs EXCEPT ![n] = d]

LEMMA WritesOne ==
    ASSUME TypeOK, NEW n \in Names, NEW d, IsObject(d), Writes(n, d)
    PROVE  /\ crs' \in [Names -> Objects] /\ crs'[n] = d
           /\ \A m \in Names : m # n => crs'[m] = crs[m]
<1>1. crs \in [Names -> Objects] /\ d \in Objects
    BY DEF TypeOK, IsObject
<1> QED BY <1>1 DEF Writes

----------------------------------------------------------------------------
(* The worker                                                              *)

LEMMA BusyFacts ==
    ASSUME TypeOK
    PROVE  /\ \A n \in Names : IsObject(crs[n]) /\ IsObject(cache[n])
           /\ IsObject(obj) /\ IsObject(orig) /\ edits \in Nat
           /\ pc = "idle" => me = NoOne
           /\ pc # "idle" => me \in Names /\ Exists(obj) /\ obj.uid = orig.uid /\ Exists(orig)
BY DEF TypeOK, Exists

\* The worker stops, takes an object, or goes on with its own.
Stops == pc' = "idle" /\ me' = NoOne /\ orig' = NoObject /\ obj' = NoObject /\ resolved' = {}
Takes(n) == /\ Exists(cache[n]) /\ me' = n /\ orig' = cache[n] /\ obj' = cache[n]
            /\ pc' = (IF cache[n].deleting THEN "delete" ELSE "observe") /\ UNCHANGED resolved
Goes(P) == /\ pc # "idle" /\ pc' \in P /\ UNCHANGED <<me, orig>>
           /\ IsObject(obj') /\ SameObject(obj', obj)
GoesAlike(P) == Goes(P) /\ Alike(obj', obj)

LEMMA ReturnFacts ==
    ASSUME NEW q, Return(q), me \in Names, queued \subseteq Names
    PROVE  Stops /\ queued' \subseteq Names
BY DEF Return, Idle, Stops

\* What the worker goes on with is alike what it had.
LEMMA GotoFacts ==
    ASSUME NEW p, NEW o, Goto(p, o), IsObject(o), SameObject(o, obj), pc # "idle", queued \subseteq Names
    PROVE  /\ Goes({p}) /\ obj' = o /\ UNCHANGED resolved /\ queued' \subseteq Names
           /\ Alike(o, obj) => GoesAlike({p})
BY DEF Goto, Goes, GoesAlike

LEMMA FinishFacts ==
    ASSUME NEW o, Finish(o), IsObject(o), SameObject(o, obj), pc # "idle", me \in Names,
           queued \subseteq Names
    PROVE  /\ queued' \subseteq Names
           /\ Stops \/ (/\ Goes({"persist"}) /\ obj' = o /\ UNCHANGED resolved
                        /\ Alike(o, obj) => GoesAlike({"persist"}))
<1>1. CASE Return(TRUE)
    BY <1>1, ReturnFacts
<1>2. CASE Goto("persist", o)
    BY <1>2, GotoFacts
<1> QED BY <1>1, <1>2 DEF Finish

LEMMA PassFacts ==
    ASSUME TypeOK
    PROVE  /\ queued \subseteq Names /\ Alike(obj, obj) /\ SameObject(obj, obj) /\ IsObject(obj)
           /\ pc # "idle" => me \in Names
BY BusyFacts, AlikeItself DEF Alike, TypeOK

LEMMA AlikeFields ==
    ASSUME NEW o, NEW c, NEW d, Alike(c, d), Alike(o, c)
    PROVE  Alike(o, d)
BY DEF Alike, SameObject

LEMMA BeginMoves ==
    ASSUME TypeOK, NEW n \in Names, Begin(n)
    PROVE  /\ pc = "idle" /\ queued' \subseteq Names
           /\ UNCHANGED <<setup, crs, cache, registry, bounds, history>>
           /\ UNCHANGED worker \/ Takes(n)
<1>1. queued \subseteq Names
    BY DEF TypeOK
<1> QED BY <1>1 DEF Begin, Takes

LEMMA ObserveMoves ==
    ASSUME TypeOK, Observe
    PROVE  /\ pc = "observe" /\ queued' \subseteq Names
           /\ UNCHANGED <<setup, crs, cache, registry, edits, history>>
           /\ Stops \/ (GoesAlike({"level", "persist"}) /\ UNCHANGED resolved)
<1> DEFINE Good == queued' \subseteq Names
                   /\ (Stops \/ (GoesAlike({"level", "persist"}) /\ UNCHANGED resolved))
<1>1. pc = "observe" /\ UNCHANGED <<setup, crs, cache, registry, edits, history>>
    BY DEF Observe
<1>2. me \in Names /\ queued \subseteq Names /\ Alike(obj, obj) /\ IsObject(obj)
    BY <1>1, PassFacts
<1>3. ASSUME NEW q, Return(q) PROVE Good
    BY <1>1, <1>2, <1>3, ReturnFacts
<1>4. ASSUME NEW o, Alike(o, obj), Goto("level", o) PROVE Good
    <2>1. IsObject(o) /\ SameObject(o, obj)
        BY <1>4 DEF Alike
    <2> QED BY <1>1, <1>2, <1>4, <2>1, GotoFacts DEF GoesAlike, Goes
<1>5. ASSUME NEW o, Alike(o, obj), Finish(o) PROVE Good
    <2>1. IsObject(o) /\ SameObject(o, obj)
        BY <1>5 DEF Alike
    <2> QED BY <1>1, <1>2, <1>5, <2>1, FinishFacts DEF GoesAlike, Goes
<1>6. ASSUME NEW o, NEW b \in BOOLEAN, Alike(o, obj) PROVE Alike([o EXCEPT !.running = b], obj)
    <2>1. IsObject(o)
        BY <1>6 DEF Alike
    <2>2. Alike([o EXCEPT !.running = b], o)
        BY <2>1, RunningFields
    <2> QED BY <1>6, <2>2, AlikeFields
<1>7. Alike(Backfilled(obj), obj)
    BY <1>2, BackfilledFields
<1>8. ASSUME NEW o, Alike(o, obj), hasLatestGeneration(obj) PROVE Alike(Completed(o), obj)
    <2>1. IsObject(o) /\ o.gen = obj.gen
        BY <1>8 DEF Alike, SameObject
    <2>2. IsObject(Completed(o)) /\ SameObject(Completed(o), o)
          /\ Completed(o).version = o.version /\ Completed(o).processed = obj.gen
        BY <2>1, CompletedFields
    <2> QED BY <1>8, <2>2 DEF Alike, SameObject, hasLatestGeneration
<1> DEFINE found == IF AppliedAsIs(obj) THEN Backfilled(obj) ELSE obj
<1>9. Alike(found, obj)
    BY <1>2, <1>7
<1> HIDE DEF Good, found
<1>10. \/ Return(TRUE)
       \/ Goto("level", [obj EXCEPT !.running = FALSE])
       \/ hasLatestGeneration(obj) /\ Finish(Completed([found EXCEPT !.running = TRUE]))
       \/ Goto("level", [found EXCEPT !.running = FALSE])
    BY DEF Observe, found
<1>11. /\ Alike([obj EXCEPT !.running = FALSE], obj) /\ Alike([found EXCEPT !.running = FALSE], obj)
       /\ Alike([found EXCEPT !.running = TRUE], obj)
    BY <1>2, <1>6, <1>9
<1>12. Good
    BY <1>3, <1>4, <1>5, <1>8, <1>10, <1>11
<1> QED BY <1>1, <1>12 DEF Good

----------------------------------------------------------------------------
(* The registry                                                            *)

\* All the versions of a subject stay.
Keeps(n) ==
    \A i \in DOMAIN registry[n].versions :
        /\ i \in DOMAIN registry'[n].versions
        /\ registry'[n].versions[i] = registry[n].versions[i]

IsSubject(s) == s \in Subjects /\ (s.soft => s.versions # <<>>)

LEMMA SubjectTypes ==
    ASSUME TypeOK, NEW n \in Names
    PROVE  /\ registry[n] \in Subjects /\ IsSubject(registry[n])
           /\ registry[n].versions \in Seq(Versions) /\ registry[n].soft \in BOOLEAN
           /\ registry[n].level \in Levels \cup {""}
BY DEF TypeOK, Subjects, IsSubject

\* One subject changes, or none does.
Becomes(n, s) == registry' = [registry EXCEPT ![n] = s]

LEMMA RegistryOne ==
    ASSUME TypeOK, NEW n \in Names, NEW s, IsSubject(s), Becomes(n, s)
    PROVE  /\ registry' \in [Names -> Subjects] /\ registry'[n] = s
           /\ \A m \in Names : IsSubject(registry'[m]) /\ (m # n => registry'[m] = registry[m])
<1>1. registry \in [Names -> Subjects] /\ s \in Subjects
    BY DEF TypeOK, IsSubject
<1>2. registry' \in [Names -> Subjects] /\ registry'[n] = s
      /\ \A m \in Names : m # n => registry'[m] = registry[m]
    BY <1>1 DEF Becomes
<1> QED BY <1>2, SubjectTypes

\* What a step may do to the registry: the versions stay but of what others
\* have changed, and of what HardDelete removes.
Registers ==
    /\ registry' \in [Names -> Subjects]
    /\ \A n \in Names : registry'[n].soft => registry'[n].versions # <<>>
    /\ \A n \in Names : Keeps(n) \/ n \in meddled' \/ (HardDelete /\ n = me)

LEMMA RegistryStays ==
    ASSUME TypeOK, UNCHANGED registry
    PROVE  Registers
BY DEF TypeOK, Registers, Keeps

LEMMA RegistryKeeps ==
    ASSUME TypeOK, NEW n \in Names, NEW s, IsSubject(s), Becomes(n, s),
           \/ \A i \in DOMAIN registry[n].versions :
                  i \in DOMAIN s.versions /\ s.versions[i] = registry[n].versions[i]
           \/ n \in meddled' \/ (HardDelete /\ n = me)
    PROVE  Registers
BY RegistryOne DEF Registers, Keeps, IsSubject

LEMMA SubjectFields ==
    ASSUME NEW s, IsSubject(s), NEW l \in Levels \cup {""}
    PROVE  /\ IsSubject([s EXCEPT !.level = l]) /\ [s EXCEPT !.level = l].versions = s.versions
           /\ \A b \in BOOLEAN : (b => s.versions # <<>>) =>
                  IsSubject([s EXCEPT !.soft = b]) /\ [s EXCEPT !.soft = b].versions = s.versions
BY DEF IsSubject, Subjects

LEMMA NoSubjectFields == IsSubject(NoSubject)
BY DEF NoSubject, IsSubject, Subjects

LEMMA LevelMoves ==
    ASSUME TypeOK, ApplyLevel
    PROVE  /\ pc = "level" /\ queued' \subseteq Names /\ Registers
           /\ UNCHANGED <<setup, crs, cache, edits, cyclic, meddled, halfSaved>>
           /\ unowned' \subseteq Names
           /\ \/ Stops
              \/ GoesAlike({"persist"}) /\ UNCHANGED resolved
              \/ GoesAlike({"post"}) /\ resolved' = Resolved(obj)
<1>1. pc = "level" /\ UNCHANGED <<setup, crs, cache, edits, cyclic, meddled, halfSaved>>
    BY DEF ApplyLevel
<1>2. me \in Names /\ queued \subseteq Names /\ Alike(obj, obj) /\ IsObject(obj)
      /\ SameObject(obj, obj) /\ unowned \subseteq Names
    BY <1>1, PassFacts DEF TypeOK
<1>3. Finish(obj) => queued' \subseteq Names /\ (Stops \/ (GoesAlike({"persist"}) /\ UNCHANGED resolved))
    BY <1>1, <1>2, FinishFacts
<1>4. LevelToSet \in Levels \cup {""}
    BY <1>2, ObjectTypes, SubjectTypes, LevelsAssumption DEF LevelToSet
<1>5. registry' = [registry EXCEPT ![me].level = LevelToSet] => Registers
    <2> DEFINE s == [registry[me] EXCEPT !.level = LevelToSet]
    <2>1. IsSubject(s) /\ s.versions = registry[me].versions
        BY <1>2, <1>4, SubjectTypes, SubjectFields
    <2>2. registry' = [registry EXCEPT ![me].level = LevelToSet] => Becomes(me, s)
        BY DEF Becomes
    <2> HIDE DEF s
    <2> QED BY <1>2, <2>1, <2>2, RegistryKeeps
<1>6. Registers
    BY <1>5, RegistryStays DEF ApplyLevel
<1>7. /\ pc' = "post" /\ obj' = [obj EXCEPT !.level = obj.spec.level] /\ resolved' = Resolved(obj)
      /\ UNCHANGED <<me, orig, queued>>
      => queued' \subseteq Names /\ GoesAlike({"post"})
    <2>1. Alike([obj EXCEPT !.level = obj.spec.level], obj)
        BY <1>2, ObjectTypes, LevelFields
    <2> QED BY <1>1, <1>2, <2>1 DEF GoesAlike, Goes, Alike
<1>8. unowned' \subseteq Names
    BY <1>2 DEF ApplyLevel
<1> QED BY <1>1, <1>3, <1>6, <1>7, <1>8 DEF ApplyLevel

\* A set of natural numbers has a least element.
LEMMA LeastNatural ==
    ASSUME NEW S \in SUBSET Nat, S # {}
    PROVE  \E x \in S : \A y \in S : x <= y
<1>1. PICK x \in S : \A y \in S : ~(<<y, x>> \in OpToRel(<, Nat))
    BY NatLessThanWellFounded, WFMin
<1>2. \A y \in S : ~(y < x)
    BY <1>1 DEF OpToRel
<1> QED BY <1>2

\* What is in a sequence is there at a last place.
LEMMA LastPlace ==
    ASSUME NEW s \in Seq(Versions), NEW v \in Versions, \E i \in DOMAIN s : s[i] = v
    PROVE  \E i \in DOMAIN s : s[i] = v /\ \A j \in DOMAIN s : s[j] = v => j <= i
<1> DEFINE n == Len(s)
           T == {n - i : i \in {j \in 1 .. n : s[j] = v}}
<1>1. DOMAIN s = 1 .. n /\ n \in Nat
    OBVIOUS
<1>2. T \in SUBSET Nat /\ T # {}
    BY <1>1
<1>3. PICK x \in T : \A y \in T : x <= y
    <2> HIDE DEF T
    <2> QED BY <1>2, LeastNatural
<1>4. PICK m \in 1 .. n : s[m] = v /\ x = n - m
    BY <1>3
<1>5. \A i \in 1 .. n : s[i] = v => n - m <= n - i
    BY <1>3, <1>4
<1>6. \A i \in 1 .. n : s[i] = v => i <= m
    BY <1>1, <1>5
<1> QED BY <1>1, <1>4, <1>6

LEMMA AppendFields ==
    ASSUME NEW S, NEW s \in Seq(S), NEW v \in S
    PROVE  /\ Append(s, v) \in Seq(S) /\ Append(s, v) # <<>>
           /\ \A i \in DOMAIN s : i \in DOMAIN Append(s, v) /\ Append(s, v)[i] = s[i]
           /\ \E i \in DOMAIN Append(s, v) : Append(s, v)[i] = v
<1>1. Len(s) + 1 \in DOMAIN Append(s, v) /\ Append(s, v)[Len(s) + 1] = v
    OBVIOUS
<1>2. \A i \in DOMAIN s : i \in DOMAIN Append(s, v) /\ Append(s, v)[i] = s[i]
    OBVIOUS
<1> QED BY <1>1, <1>2

\* The versions once the object's is there.
LEMMA RegisteredFields ==
    ASSUME TypeOK, pc = "post"
    PROVE  /\ Registered \in Seq(Versions) /\ Registered # <<>> /\ New \in Versions
           /\ \A i \in DOMAIN registry[me].versions :
                 i \in DOMAIN Registered /\ Registered[i] = registry[me].versions[i]
           /\ \E i \in DOMAIN Registered : Registered[i] = New
<1>1. me \in Names /\ registry[me].versions \in Seq(Versions)
    BY PassFacts, SubjectTypes
<1>2. New \in Versions
    <2>1. obj.spec.body \in Nat /\ resolved \in Refs
        BY PassFacts, ObjectTypes DEF TypeOK
    <2> QED BY <2>1 DEF New, Versions
<1>3. CASE Has(me, New)
    <2>1. Registered = registry[me].versions
        BY <1>3 DEF Registered
    <2>2. PICK i \in DOMAIN Registered : Registered[i] = New
        BY <1>3, <2>1 DEF Has
    <2>3. Registered # <<>>
        BY <1>1, <2>1, <2>2
    <2> QED BY <1>1, <2>1, <2>2, <2>3
<1>4. CASE ~Has(me, New)
    BY <1>1, <1>2, <1>4, AppendFields DEF Registered
<1> QED BY <1>2, <1>3, <1>4

\* The object once its status names the version that was registered.
PostedAs(o) ==
    /\ IsObject(o) /\ SameObject(o, obj) /\ o.processed = obj.gen
    /\ o.version \in DOMAIN registry'[me].versions
    /\ registry'[me].versions[o.version] = New

LEMMA PostMoves ==
    ASSUME TypeOK, Post
    PROVE  /\ pc = "post" /\ queued' \subseteq Names /\ Registers
           /\ UNCHANGED <<setup, crs, cache, edits, history>>
           /\ \/ Stops
              \/ GoesAlike({"persist"}) /\ UNCHANGED resolved
              \/ Goes({"persist"}) /\ PostedAs(obj') /\ UNCHANGED resolved
<1> DEFINE Good == /\ queued' \subseteq Names
                   /\ \/ Stops
                      \/ GoesAlike({"persist"}) /\ UNCHANGED resolved
                      \/ Goes({"persist"}) /\ PostedAs(obj') /\ UNCHANGED resolved
<1>1. pc = "post" /\ UNCHANGED <<setup, crs, cache, edits, history>>
    BY DEF Post
<1>2. me \in Names /\ queued \subseteq Names /\ Alike(obj, obj) /\ IsObject(obj)
      /\ SameObject(obj, obj) /\ resolved \in Refs
    BY <1>1, PassFacts DEF TypeOK
<1>3. Finish(obj) => Good
    BY <1>1, <1>2, FinishFacts
<1>4. ASSUME registry' = [registry EXCEPT ![me].versions = Registered, ![me].soft = FALSE]
      PROVE  Registers /\ registry'[me].versions = Registered
    <2> DEFINE s == [registry[me] EXCEPT !.versions = Registered, !.soft = FALSE]
    <2>1. registry[me] \in Subjects /\ registry \in [Names -> Subjects]
        BY <1>2, SubjectTypes DEF TypeOK
    <2>2. Registered \in Seq(Versions) /\ Registered # <<>>
          /\ \A i \in DOMAIN registry[me].versions :
                 i \in DOMAIN Registered /\ Registered[i] = registry[me].versions[i]
        BY <1>1, RegisteredFields
    <2> HIDE DEF Registered
    <2>3. IsSubject(s) /\ s.versions = Registered
        BY <2>1, <2>2 DEF IsSubject, Subjects
    <2>4. Becomes(me, s)
        BY <1>2, <1>4, <2>1 DEF Becomes
    <2> HIDE DEF s
    <2> QED BY <1>2, <2>2, <2>3, <2>4, RegistryKeeps, RegistryOne
<1>5. ASSUME registry' = [registry EXCEPT ![me].versions = Registered, ![me].soft = FALSE],
             Len(Registered) <= MaxVersions,
             Finish(Completed([obj EXCEPT !.version = Version,
                                          !.applied = fingerprintSchema(obj, resolved)]))
      PROVE  Good
    <2>1. /\ registry'[me].versions = Registered /\ Registered \in Seq(Versions) /\ New \in Versions
          /\ \E i \in DOMAIN Registered : Registered[i] = New
        BY <1>1, <1>4, <1>5, RegisteredFields
    <2>2. Version \in DOMAIN Registered /\ Registered[Version] = New
        <3>1. \E i \in DOMAIN Registered : /\ Registered[i] = New
                                          /\ \A j \in DOMAIN Registered : Registered[j] = New => j <= i
            <4> HIDE DEF Registered, New
            <4> QED BY <2>1, LastPlace
        <3>2. Version = CHOOSE i \in DOMAIN Registered :
                           /\ Registered[i] = New
                           /\ \A j \in DOMAIN Registered : Registered[j] = New => j <= i
            BY <2>1 DEF Version
        <3> HIDE DEF Registered, New, Version
        <3> QED BY <3>1, <3>2
    <2>3. Version \in 1 .. MaxVersions
        BY <1>5, <2>1, <2>2, BoundAssumption
    <2> DEFINE d == [obj EXCEPT !.version = Version, !.applied = fingerprintSchema(obj, resolved)]
    <2>4. IsObject(d) /\ SameObject(d, obj) /\ d.version = Version
        BY <1>2, <2>3, PostedFields
    <2> HIDE DEF d
    <2>5. /\ IsObject(Completed(d)) /\ SameObject(Completed(d), obj)
          /\ Completed(d).version = Version /\ Completed(d).processed = obj.gen
        BY <2>4, CompletedFields DEF SameObject
    <2>6. PostedAs(Completed(d))
        BY <2>1, <2>2, <2>5 DEF PostedAs
    <2>7. Finish(Completed(d))
        BY <1>5 DEF d
    <2> QED BY <1>1, <1>2, <2>5, <2>6, <2>7, FinishFacts
<1> HIDE DEF Good
<1>6. Good /\ Registers
    BY <1>3, <1>4, <1>5, RegistryStays DEF Post
<1> QED BY <1>1, <1>6 DEF Good

\* The status alone is saved.
LEMMA StatusFields ==
    ASSUME TypeOK
    PROVE  /\ Newer(WithVersion, orig)
           /\ WithVersion.spec = orig.spec /\ WithVersion.gen = orig.gen
           /\ WithVersion.deleting = orig.deleting /\ WithVersion.processed = orig.processed
           /\ WithVersion.version = obj.version
<1> DEFINE d == [orig EXCEPT !.version = obj.version]
<1>1. orig \in Objects /\ IsObject(orig) /\ IsObject(obj) /\ obj.version \in Nat
    BY BusyFacts, ObjectTypes
<1>2. /\ d \in Objects /\ SameObject(d, orig) /\ d.version = obj.version
      /\ d.processed = orig.processed
    BY <1>1 DEF Objects, SameObject
<1>3. WithVersion = Write(d)
    BY DEF WithVersion
<1> HIDE DEF d
<1>4. IsObject(d)
    BY <1>1, <1>2 DEF IsObject, SameObject
<1> QED BY <1>2, <1>3, <1>4, WriteFields DEF Newer, SameObject

\* The worker has saved the status, and goes on to save the annotations.
Halves ==
    /\ pc = "persist" /\ pc' = "annotate" /\ IsCurrent(obj)
    /\ Writes(me, WithVersion) /\ orig' = WithVersion /\ obj' = Write(obj)
    /\ UNCHANGED <<me, resolved, cache, registry, edits, cyclic, meddled>>

LEMMA NotSavedMoves ==
    ASSUME TypeOK, NotSaved, pc # "idle"
    PROVE  /\ Stops /\ queued' \subseteq Names /\ UNCHANGED <<crs, halfSaved>>
           /\ unowned' \subseteq Names /\ (UNCHANGED faults \/ Fault)
<1>1. me \in Names /\ queued \subseteq Names /\ unowned \subseteq Names
    BY PassFacts DEF TypeOK
<1>2. Stops /\ queued' \subseteq Names
    BY <1>1, ReturnFacts DEF NotSaved
<1> QED BY <1>1, <1>2 DEF NotSaved

LEMMA PersistMoves ==
    ASSUME TypeOK, Persist
    PROVE  /\ pc = "persist" /\ queued' \subseteq Names
           /\ UNCHANGED <<setup, cache, registry, edits, cyclic, meddled>>
           /\ unowned' \subseteq Names /\ halfSaved' \subseteq Names
           /\ UNCHANGED faults \/ Fault
           /\ \/ Stops /\ UNCHANGED crs
              \/ Stops /\ IsCurrent(obj) /\ Writes(me, Write(obj))
              \/ Halves
<1>1. pc = "persist" /\ UNCHANGED <<setup, cache, registry, edits, cyclic, meddled>>
    BY DEF Persist
<1>2. me \in Names /\ queued \subseteq Names /\ unowned \subseteq Names /\ halfSaved \subseteq Names
    BY <1>1, PassFacts DEF TypeOK
<1>3. CASE NotSaved
    BY <1>1, <1>2, <1>3, NotSavedMoves
<1>4. CASE ~NotSaved
    <2>1. /\ IsCurrent(obj) /\ Writes(me, WithVersion) /\ UNCHANGED faults
          /\ halfSaved' \subseteq Names
          /\ \/ Write(obj) = WithVersion /\ Recorded /\ Return(TRUE)
             \/ /\ pc' = "annotate" /\ orig' = WithVersion /\ obj' = Write(obj)
                /\ UNCHANGED <<me, resolved, queued, unowned>>
        BY <1>2, <1>4 DEF Persist, Writes
    <2>2. CASE Write(obj) = WithVersion /\ Recorded /\ Return(TRUE)
        BY <1>1, <1>2, <2>1, <2>2, ReturnFacts DEF Recorded
    <2>3. CASE /\ pc' = "annotate" /\ orig' = WithVersion /\ obj' = Write(obj)
               /\ UNCHANGED <<me, resolved, queued, unowned>>
        BY <1>1, <1>2, <2>1, <2>3 DEF Halves
    <2> QED BY <2>1, <2>2, <2>3
<1> QED BY <1>3, <1>4

LEMMA AnnotateMoves ==
    ASSUME TypeOK, Annotate
    PROVE  /\ pc = "annotate" /\ Stops /\ queued' \subseteq Names
           /\ UNCHANGED <<setup, cache, registry, edits, cyclic, meddled>>
           /\ unowned' \subseteq Names /\ halfSaved' \subseteq Names
           /\ UNCHANGED faults \/ Fault
           /\ UNCHANGED crs \/ (IsCurrent(obj) /\ Writes(me, Write(obj)))
<1>1. pc = "annotate" /\ UNCHANGED <<setup, cache, registry, edits, cyclic, meddled>>
    BY DEF Annotate
<1>2. me \in Names /\ queued \subseteq Names /\ unowned \subseteq Names /\ halfSaved \subseteq Names
    BY <1>1, PassFacts DEF TypeOK
<1>3. CASE NotSaved
    BY <1>1, <1>2, <1>3, NotSavedMoves
<1>4. CASE ~NotSaved
    <2>1. /\ IsCurrent(obj) /\ Writes(me, Write(obj)) /\ UNCHANGED faults
          /\ halfSaved' \subseteq Names /\ Recorded /\ Return(TRUE)
        BY <1>2, <1>4 DEF Annotate, Writes
    <2> QED BY <1>1, <1>2, <2>1, ReturnFacts DEF Recorded
<1> QED BY <1>3, <1>4

LEMMA DeleteMoves ==
    ASSUME TypeOK, Delete
    PROVE  /\ pc = "delete" /\ queued' \subseteq Names /\ Registers
           /\ UNCHANGED <<setup, crs, cache, edits, history>>
           /\ Stops \/ (GoesAlike({"harddelete"}) /\ UNCHANGED resolved)
<1>1. pc = "delete" /\ UNCHANGED <<setup, crs, cache, edits, history>>
    BY DEF Delete
<1>2. me \in Names /\ queued \subseteq Names /\ Alike(obj, obj) /\ IsObject(obj) /\ SameObject(obj, obj)
    BY <1>1, PassFacts
<1>3. \/ Return(TRUE)
      \/ Goto("harddelete", obj)
    BY DEF Delete
<1>4. queued' \subseteq Names /\ (Stops \/ (GoesAlike({"harddelete"}) /\ UNCHANGED resolved))
    BY <1>1, <1>2, <1>3, ReturnFacts, GotoFacts
<1>5. UNCHANGED registry \/ Becomes(me, SoftDeleted)
    BY DEF Delete, Becomes
<1>6. IsSubject(SoftDeleted) /\ SoftDeleted.versions = registry[me].versions
    <2>1. Visible(me) \/ registry[me].soft \in BOOLEAN
        BY <1>2, SubjectTypes
    <2> DEFINE b == Visible(me) \/ registry[me].soft
    <2>2. b \in BOOLEAN /\ (b => registry[me].versions # <<>>)
        BY <1>2, SubjectTypes DEF Visible, IsSubject
    <2>3. SoftDeleted = [registry[me] EXCEPT !.soft = b]
        BY DEF SoftDeleted
    <2> HIDE DEF b
    <2>4. IsSubject(registry[me])
        BY <1>2, SubjectTypes
    <2> QED BY <2>2, <2>3, <2>4, SubjectFields
<1>7. Registers
    BY <1>2, <1>5, <1>6, RegistryStays, RegistryKeeps
<1> QED BY <1>1, <1>4, <1>7

LEMMA HardDeleteMoves ==
    ASSUME TypeOK, HardDelete
    PROVE  /\ pc = "harddelete" /\ queued' \subseteq Names /\ Registers
           /\ UNCHANGED <<setup, crs, cache, edits, history>>
           /\ Stops \/ (GoesAlike({"unfinalize"}) /\ UNCHANGED resolved)
<1>1. pc = "harddelete" /\ UNCHANGED <<setup, crs, cache, edits, history>>
    BY DEF HardDelete
<1>2. me \in Names /\ queued \subseteq Names /\ Alike(obj, obj) /\ IsObject(obj) /\ SameObject(obj, obj)
    BY <1>1, PassFacts
<1>3. \/ Return(TRUE)
      \/ Goto("unfinalize", obj)
    BY DEF HardDelete
<1>4. queued' \subseteq Names /\ (Stops \/ (GoesAlike({"unfinalize"}) /\ UNCHANGED resolved))
    BY <1>1, <1>2, <1>3, ReturnFacts, GotoFacts
<1>5. UNCHANGED registry \/ Becomes(me, NoSubject)
    BY DEF HardDelete, Becomes
<1>6. Registers
    BY <1>2, <1>5, NoSubjectFields, RegistryStays, RegistryKeeps
<1> QED BY <1>1, <1>4, <1>6

LEMMA RemoveMoves ==
    ASSUME TypeOK, RemoveFinalizer
    PROVE  /\ pc = "unfinalize" /\ Stops /\ queued' \subseteq Names
           /\ UNCHANGED <<setup, cache, registry, edits, cyclic>>
           /\ unowned' \subseteq Names /\ halfSaved' \subseteq Names
           /\ \/ UNCHANGED <<crs, meddled>>
              \/ crs[me].deleting /\ Writes(me, NoObject) /\ meddled' = meddled \ {me}
<1>1. pc = "unfinalize" /\ UNCHANGED <<setup, cache, registry, edits, cyclic>>
    BY DEF RemoveFinalizer
<1>2. me \in Names /\ queued \subseteq Names /\ unowned \subseteq Names /\ halfSaved \subseteq Names
    BY <1>1, PassFacts DEF TypeOK
<1>3. \E q : Return(q)
    BY DEF RemoveFinalizer
<1>4. Stops /\ queued' \subseteq Names
    BY <1>2, <1>3, ReturnFacts
<1>5. unowned' \subseteq Names /\ halfSaved' \subseteq Names
    BY <1>2 DEF RemoveFinalizer
<1>6. \/ UNCHANGED <<crs, meddled>>
      \/ crs[me].deleting /\ Writes(me, NoObject) /\ meddled' = meddled \ {me}
    BY DEF RemoveFinalizer, Writes
<1> QED BY <1>1, <1>4, <1>5, <1>6

LEMMA CrashMoves ==
    ASSUME TypeOK, Crash
    PROVE  /\ Stops /\ cache' = crs /\ queued' \subseteq Names /\ unowned' \subseteq Names
           /\ UNCHANGED <<setup, crs, registry, edits, cyclic, meddled, halfSaved>>
<1>1. Unrecorded => me \in Names
    BY PassFacts DEF Unrecorded
<1>2. unowned \subseteq Names
    BY DEF TypeOK
<1> QED BY <1>1, <1>2 DEF Crash, Idle, Stops

LEMMA SyncMoves ==
    ASSUME TypeOK, SyncCache
    PROVE  /\ cache' = crs /\ queued' \subseteq Names
           /\ UNCHANGED <<setup, crs, worker, registry, bounds, history>>
BY DEF SyncCache, TypeOK

\* What every step of a user or another client does.
UserActs ==
    /\ edits' = edits + 1 /\ cyclic' \in BOOLEAN /\ cyclic' = (cyclic \/ HasCycle(crs'))
    /\ UNCHANGED <<setup, cache, queued, worker, faults, unowned, halfSaved>>

LEMMA EditMoves ==
    ASSUME TypeOK, Edit
    PROVE  UserActs
BY DEF Edit, UserActs, HasCycle, TypeOK

LEMMA WantedSpecs ==
    ASSUME TypeOK, NEW n \in Names, NEW s \in setup.wants[n]
    PROVE  s \in Specs
BY SetupsAssumption DEF TypeOK

LEMMA CreateMoves ==
    ASSUME TypeOK, NEW n \in Names, UserCreates(n)
    PROVE  /\ UserActs /\ UNCHANGED <<registry, meddled>> /\ ~Exists(crs[n])
           /\ \E s \in Specs : Writes(n, Fresh(edits + 1, s))
<1>1. UserActs /\ UNCHANGED <<registry, meddled>> /\ ~Exists(crs[n])
    BY EditMoves DEF UserCreates
<1>2. PICK s \in setup.wants[n] : crs' = [crs EXCEPT ![n] = Fresh(edits + 1, s)]
    BY DEF UserCreates
<1> QED BY <1>1, <1>2, WantedSpecs DEF Writes

LEMMA SpecMoves ==
    ASSUME TypeOK, NEW n \in Names, UserEditsSpec(n)
    PROVE  /\ UserActs /\ UNCHANGED <<registry, meddled>>
           /\ \E d : Writes(n, d) /\ Revises(crs[n], d)
<1>1. UserActs /\ UNCHANGED <<registry, meddled>> /\ Exists(crs[n]) /\ ~crs[n].deleting
    BY EditMoves DEF UserEditsSpec
<1>2. PICK s \in setup.wants[n] : crs' = [crs EXCEPT ![n] = Regenerate([@ EXCEPT !.spec = s])]
    BY DEF UserEditsSpec
<1>3. Writes(n, Regenerate([crs[n] EXCEPT !.spec = s]))
    BY <1>2 DEF Writes
<1>4. Revises(crs[n], Regenerate([crs[n] EXCEPT !.spec = s]))
    BY <1>1, WantedSpecs, BusyFacts, RevisionFields
<1> QED BY <1>1, <1>3, <1>4

LEMMA DeletionMoves ==
    ASSUME TypeOK, NEW n \in Names, UserDeletes(n)
    PROVE  /\ UserActs /\ UNCHANGED <<registry, meddled>>
           /\ \E d : Writes(n, d) /\ Revises(crs[n], d)
<1>1. UserActs /\ UNCHANGED <<registry, meddled>> /\ Exists(crs[n]) /\ ~crs[n].deleting
    BY EditMoves DEF UserDeletes
<1>2. Writes(n, Regenerate([crs[n] EXCEPT !.deleting = TRUE]))
    BY DEF Writes, UserDeletes
<1>3. crs[n].spec \in Specs /\ IsObject(crs[n])
    BY BusyFacts, ObjectTypes
<1>4. Revises(crs[n], Regenerate([crs[n] EXCEPT !.deleting = TRUE]))
    BY <1>1, <1>3, RevisionFields
<1> QED BY <1>1, <1>2, <1>4

LEMMA MeddlingMoves ==
    ASSUME TypeOK, NEW n \in Names, OthersSetLevel(n) \/ OthersDeleteSubject(n)
    PROVE  UserActs /\ UNCHANGED crs /\ Registers /\ meddled' = meddled \cup {n}
<1>1. UserActs /\ UNCHANGED crs /\ meddled' = meddled \cup {n}
    BY EditMoves DEF OthersSetLevel, OthersDeleteSubject
<1>2. ASSUME NEW l \in Levels, registry' = [registry EXCEPT ![n].level = l] PROVE Registers
    <2> DEFINE s == [registry[n] EXCEPT !.level = l]
    <2>1. IsSubject(s)
        BY SubjectTypes, SubjectFields
    <2>2. Becomes(n, s)
        BY <1>2 DEF Becomes
    <2> HIDE DEF s
    <2> QED BY <1>1, <2>1, <2>2, RegistryKeeps
<1>3. OthersDeleteSubject(n) => Registers
    BY <1>1, NoSubjectFields, RegistryKeeps DEF OthersDeleteSubject, Becomes
<1> QED BY <1>1, <1>2, <1>3 DEF OthersSetLevel

----------------------------------------------------------------------------
(* Steps                                                                   *)

Ending == {"delete", "harddelete", "unfinalize"}

\* The worker goes on with its object, and with what it had found out.
Continues ==
    /\ Goes(PCs \ {"idle", "annotate"}) /\ pc # "annotate" /\ (pc \in Ending <=> pc' \in Ending)
    /\ UNCHANGED <<crs, cache, edits, meddled>>
    /\ \/ Alike(obj', obj) /\ pc' # "post" /\ UNCHANGED resolved
       \/ Alike(obj', obj) /\ pc' = "post" /\ resolved' = Resolved(obj)
       \/ pc = "post" /\ pc' = "persist" /\ PostedAs(obj') /\ UNCHANGED resolved

LEMMA ContinuesAlike ==
    ASSUME NEW P, GoesAlike(P), P \subseteq PCs \ {"idle", "post", "annotate"}, UNCHANGED resolved,
           UNCHANGED <<crs, cache, edits, meddled>>,
           pc # "annotate",
           (pc \in Ending /\ P \subseteq Ending) \/ (pc \notin Ending /\ P \cap Ending = {})
    PROVE  Continues
BY DEF Continues, GoesAlike, Goes

LEMMA WorkerMoves ==
    ASSUME TypeOK, [Next]_vars
    PROVE  \/ UNCHANGED worker
           \/ Stops
           \/ pc = "idle" /\ UNCHANGED <<crs, cache, registry, edits, meddled>> /\ \E n \in Names : Takes(n)
           \/ Continues
           \/ Halves
<1>1. ASSUME NEW n \in Names, Begin(n)
      PROVE  /\ UNCHANGED worker \/ (pc = "idle" /\ Takes(n))
             /\ UNCHANGED <<crs, cache, registry, edits, meddled>>
    BY <1>1, BeginMoves DEF bounds, history
<1>2. Observe => Stops \/ Continues
    <2>1. Observe => pc \notin Ending \cup {"annotate"} /\ UNCHANGED <<crs, cache, edits, meddled>>
        BY ObserveMoves DEF Ending, history
    <2> QED BY <2>1, ObserveMoves, ContinuesAlike DEF PCs, Ending
<1>3. ApplyLevel => Stops \/ Continues
    <2>1. ApplyLevel => pc \notin Ending \cup {"annotate"} /\ UNCHANGED <<crs, cache, edits, meddled>>
        BY LevelMoves DEF Ending
    <2>2. ApplyLevel /\ GoesAlike({"post"}) /\ resolved' = Resolved(obj) => Continues
        BY <2>1 DEF Continues, GoesAlike, Goes, PCs, Ending
    <2> QED BY <2>1, <2>2, LevelMoves, ContinuesAlike DEF PCs, Ending
<1>4. Post => Stops \/ Continues
    <2>1. Post => pc = "post" /\ pc \notin Ending /\ UNCHANGED <<crs, cache, edits, meddled>>
        BY PostMoves DEF Ending, history
    <2>2. Post /\ Goes({"persist"}) /\ PostedAs(obj') /\ UNCHANGED resolved => Continues
        BY <2>1 DEF Continues, Goes, PCs, Ending
    <2> QED BY <2>1, <2>2, PostMoves, ContinuesAlike DEF PCs, Ending
<1>5. Delete \/ HardDelete => Stops \/ Continues
    <2>1. Delete \/ HardDelete => pc \in Ending /\ UNCHANGED <<crs, cache, edits, meddled>>
        BY DeleteMoves, HardDeleteMoves DEF Ending, history
    <2> QED BY <2>1, DeleteMoves, HardDeleteMoves, ContinuesAlike DEF PCs, Ending
<1>6. Persist \/ Annotate \/ RemoveFinalizer \/ Crash => Stops \/ Halves
    BY PersistMoves, AnnotateMoves, RemoveMoves, CrashMoves
<1>7. SyncCache => UNCHANGED worker
    BY SyncMoves
<1>8. ASSUME NEW n \in Names, UserCreates(n) \/ UserEditsSpec(n) \/ UserDeletes(n)
             \/ OthersSetLevel(n) \/ OthersDeleteSubject(n)
      PROVE  UNCHANGED worker
    BY <1>8, CreateMoves, SpecMoves, DeletionMoves, MeddlingMoves DEF UserActs
<1>9. UNCHANGED vars => UNCHANGED worker
    BY DEF vars
<1>10. Reconcile => \/ UNCHANGED worker \/ Stops \/ Continues \/ Halves
                    \/ /\ pc = "idle" /\ UNCHANGED <<crs, cache, registry, edits, meddled>>
                       /\ \E n \in Names : Takes(n)
    BY <1>1, <1>2, <1>3, <1>4, <1>5, <1>6 DEF Reconcile
<1>11. Others => UNCHANGED worker
    BY <1>8 DEF Others
<1> QED BY <1>6, <1>7, <1>9, <1>10, <1>11 DEF Next

\* The objects stand, or one of them is written; the cache then stays.
PassWrites(d) ==
    /\ UNCHANGED <<edits, registry>>
    /\ \/ Stops /\ IsCurrent(obj) /\ d = Write(obj) /\ UNCHANGED meddled
       \/ Stops /\ RemoveFinalizer /\ d = NoObject
       \/ Halves /\ d = WithVersion
UserWrites(n, d) ==
    /\ UserActs /\ UNCHANGED <<registry, meddled>>
    /\ \/ ~Exists(crs[n]) /\ \E s \in Specs : d = Fresh(edits + 1, s)
       \/ Revises(crs[n], d)
OneWritten(n, d) ==
    /\ IsObject(d) /\ Writes(n, d) /\ UNCHANGED cache
    /\ (pc # "idle" /\ n = me /\ PassWrites(d)) \/ UserWrites(n, d)

LEMMA ObjectMoves ==
    ASSUME TypeOK, [Next]_vars
    PROVE  \/ UNCHANGED crs /\ (UNCHANGED cache \/ cache' = crs)
           \/ \E n \in Names : \E d : OneWritten(n, d)
<1>1. ASSUME NEW n \in Names, Begin(n) PROVE UNCHANGED <<crs, cache>>
    BY <1>1, BeginMoves
<1>2. Observe \/ ApplyLevel \/ Post \/ Delete \/ HardDelete => UNCHANGED <<crs, cache>>
    BY ObserveMoves, LevelMoves, PostMoves, DeleteMoves, HardDeleteMoves
<1>3. ASSUME Persist \/ Annotate
      PROVE  UNCHANGED <<crs, cache>> \/ OneWritten(me, Write(obj)) \/ OneWritten(me, WithVersion)
    <2>1. IsObject(Write(obj)) /\ IsObject(WithVersion) /\ pc # "idle"
        BY <1>3, BusyFacts, WriteFields, StatusFields, PersistMoves, AnnotateMoves DEF Newer
    <2>2. CASE Halves
        BY <2>1, <2>2 DEF OneWritten, PassWrites, Halves
    <2> QED BY <1>3, <2>1, <2>2, PersistMoves, AnnotateMoves DEF OneWritten, PassWrites
<1>4. ASSUME RemoveFinalizer
      PROVE  UNCHANGED <<crs, cache>> \/ OneWritten(me, NoObject)
    BY <1>4, RemoveMoves, NoObjectFields DEF OneWritten, PassWrites
<1>5. Crash \/ SyncCache => UNCHANGED crs /\ cache' = crs
    BY CrashMoves, SyncMoves
<1>6. ASSUME NEW n \in Names, UserCreates(n) PROVE \E d : OneWritten(n, d)
    <2>1. PICK s \in Specs : Writes(n, Fresh(edits + 1, s))
        BY <1>6, CreateMoves
    <2>2. edits + 1 \in Nat
        BY BusyFacts
    <2>3. IsObject(Fresh(edits + 1, s))
        BY <2>2, FreshFields
    <2>4. UserWrites(n, Fresh(edits + 1, s)) /\ UNCHANGED cache
        BY <1>6, CreateMoves DEF UserWrites, UserActs
    <2> QED BY <2>1, <2>3, <2>4 DEF OneWritten
<1>7. ASSUME NEW n \in Names, UserEditsSpec(n) \/ UserDeletes(n) PROVE \E d : OneWritten(n, d)
    <2>1. PICK d : Writes(n, d) /\ Revises(crs[n], d)
        BY <1>7, SpecMoves, DeletionMoves
    <2>2. UserWrites(n, d) /\ UNCHANGED cache
        BY <1>7, <2>1, SpecMoves, DeletionMoves DEF UserWrites, UserActs
    <2> QED BY <2>1, <2>2 DEF OneWritten, Revises, Newer
<1>8. ASSUME NEW n \in Names, OthersSetLevel(n) \/ OthersDeleteSubject(n) PROVE UNCHANGED <<crs, cache>>
    BY <1>8, MeddlingMoves DEF UserActs
<1>9. UNCHANGED vars => UNCHANGED <<crs, cache>>
    BY DEF vars, objects
<1>10. Reconcile => UNCHANGED <<crs, cache>> \/ \E n \in Names : \E d : OneWritten(n, d)
    <2>1. Persist \/ Annotate \/ RemoveFinalizer => me \in Names
        BY PassFacts, PersistMoves, AnnotateMoves, RemoveMoves
    <2> QED BY <1>1, <1>2, <1>3, <1>4, <2>1 DEF Reconcile
<1>11. Others => UNCHANGED <<crs, cache>> \/ \E n \in Names : \E d : OneWritten(n, d)
    BY <1>6, <1>7, <1>8 DEF Others
<1> QED BY <1>5, <1>9, <1>10, <1>11 DEF Next

\* The registry, and who meddles with it.
LEMMA RegistryMoves ==
    ASSUME TypeOK, [Next]_vars
    PROVE  /\ Registers /\ meddled' \subseteq Names /\ edits' \in {edits, edits + 1}
           /\ \/ meddled \subseteq meddled'
              \/ /\ RemoveFinalizer /\ meddled' = meddled \ {me} /\ crs[me].deleting
                 /\ Writes(me, NoObject)
<1> DEFINE Good == /\ Registers /\ meddled' \subseteq Names /\ edits' \in {edits, edits + 1}
                   /\ \/ meddled \subseteq meddled'
                      \/ /\ RemoveFinalizer /\ meddled' = meddled \ {me} /\ crs[me].deleting
                         /\ Writes(me, NoObject)
<1>0. meddled \subseteq Names
    BY DEF TypeOK
<1>1. ASSUME UNCHANGED <<edits, meddled>>, Registers PROVE Good
    BY <1>0, <1>1
<1>2. ASSUME UNCHANGED <<edits, meddled, registry>> PROVE Good
    BY <1>1, <1>2, RegistryStays
<1>3. ASSUME NEW n \in Names, Begin(n) PROVE Good
    BY <1>2, <1>3, BeginMoves DEF bounds, history
<1>4. ASSUME Observe \/ Persist \/ Annotate \/ Crash \/ SyncCache PROVE Good
    BY <1>2, <1>4, ObserveMoves, PersistMoves, AnnotateMoves, CrashMoves, SyncMoves
       DEF bounds, history
<1>5. ASSUME ApplyLevel \/ Post \/ Delete \/ HardDelete PROVE Good
    BY <1>1, <1>5, LevelMoves, PostMoves, DeleteMoves, HardDeleteMoves DEF history
<1>6. ASSUME RemoveFinalizer PROVE Good
    BY <1>0, <1>6, RemoveMoves, RegistryStays
<1>7. ASSUME NEW n \in Names, UserCreates(n) \/ UserEditsSpec(n) \/ UserDeletes(n) PROVE Good
    BY <1>0, <1>7, CreateMoves, SpecMoves, DeletionMoves, RegistryStays DEF UserActs
<1>8. ASSUME NEW n \in Names, OthersSetLevel(n) \/ OthersDeleteSubject(n) PROVE Good
    BY <1>0, <1>8, MeddlingMoves DEF UserActs
<1>9. UNCHANGED vars => Good
    BY <1>2 DEF vars, bounds, history
<1> HIDE DEF Good
<1>10. Reconcile => Good
    BY <1>3, <1>4, <1>5, <1>6 DEF Reconcile
<1>11. Others => Good
    BY <1>7, <1>8 DEF Others
<1>12. Good
    BY <1>4, <1>9, <1>10, <1>11 DEF Next
<1> QED BY <1>12 DEF Good

----------------------------------------------------------------------------
(* Types                                                                   *)

LEMMA ResolvedFields ==
    ASSUME TypeOK
    PROVE  Resolved(obj) \in Refs /\ {r[1] : r \in Resolved(obj)} = obj.spec.refs
<1>1. obj.spec.refs \subseteq Names /\ \A n \in Names : cache[n].version \in Nat
    BY BusyFacts, ObjectTypes
<1>2. Resolved(obj) \in Refs
    BY <1>1 DEF Resolved, Refs
<1>3. \A n \in obj.spec.refs : <<n, cache[n].version>> \in Resolved(obj)
    BY DEF Resolved
<1>4. \A r \in Resolved(obj) : r[1] \in obj.spec.refs
    BY DEF Resolved
<1>5. \A n \in obj.spec.refs : n \in {r[1] : r \in Resolved(obj)}
    <2> TAKE n \in obj.spec.refs
    <2> DEFINE t == <<n, cache[n].version>>
    <2>1. t[1] = n /\ t \in Resolved(obj)
        BY <1>3
    <2> HIDE DEF t
    <2> QED BY <2>1
<1> QED BY <1>2, <1>4, <1>5

WorkerTyped ==
    /\ IsObject(orig) /\ IsObject(obj) /\ resolved \in Refs /\ pc \in PCs
    /\ IF pc = "idle" THEN me = NoOne
       ELSE /\ me \in Names /\ Exists(obj) /\ obj.uid = orig.uid
            /\ (pc \in Ending <=> obj.deleting)

LEMMA WorkerType ==
    ASSUME TypeOK, [Next]_vars
    PROVE  WorkerTyped'
<1>0. WorkerTyped
    BY DEF TypeOK, WorkerTyped, PCs, Ending
<1>1. ASSUME UNCHANGED worker PROVE WorkerTyped'
    BY <1>0, <1>1 DEF WorkerTyped, worker, Exists
<1>2. ASSUME Stops PROVE WorkerTyped'
    BY <1>2, NoObjectFields DEF WorkerTyped, Stops, PCs, Refs
<1>3. ASSUME NEW n \in Names, Takes(n) PROVE WorkerTyped'
    <2>1. IsObject(cache[n]) /\ cache[n].deleting \in BOOLEAN
        BY BusyFacts, ObjectTypes
    <2> QED BY <1>0, <1>3, <2>1 DEF WorkerTyped, Takes, PCs, Ending, Exists
<1>4. ASSUME Continues PROVE WorkerTyped'
    <2>1. /\ pc # "idle" /\ pc' \in PCs \ {"idle"} /\ UNCHANGED <<me, orig>>
          /\ IsObject(obj') /\ obj'.uid = obj.uid /\ obj'.deleting = obj.deleting
          /\ (pc \in Ending <=> pc' \in Ending)
        BY <1>4 DEF Continues, Goes, SameObject
    <2>2. resolved' \in Refs
        BY <1>0, <1>4, ResolvedFields DEF Continues, WorkerTyped
    <2> QED BY <1>0, <2>1, <2>2 DEF WorkerTyped, Exists
<1>5. CASE Halves
    <2>1. /\ pc' = "annotate" /\ orig' = WithVersion /\ obj' = Write(obj) /\ UNCHANGED <<me, resolved>>
          /\ pc = "persist"
        BY <1>5 DEF Halves
    <2>2. Newer(WithVersion, orig) /\ Newer(Write(obj), obj) /\ Write(obj).deleting = obj.deleting
        BY <1>0, StatusFields, WriteFields DEF WorkerTyped
    <2> QED BY <1>0, <2>1, <2>2 DEF WorkerTyped, Newer, Exists, PCs, Ending
<1> QED BY <1>1, <1>2, <1>3, <1>4, <1>5, WorkerMoves

LEMMA OtherTypes ==
    ASSUME TypeOK, [Next]_vars
    PROVE  /\ setup' \in Setups /\ queued' \subseteq Names /\ faults' \in Nat
           /\ cyclic' \in BOOLEAN /\ unowned' \subseteq Names /\ halfSaved' \subseteq Names
<1> DEFINE Good == /\ setup' \in Setups /\ queued' \subseteq Names /\ faults' \in Nat
                   /\ cyclic' \in BOOLEAN /\ unowned' \subseteq Names /\ halfSaved' \subseteq Names
<1>0. /\ setup \in Setups /\ queued \subseteq Names /\ faults \in Nat
      /\ cyclic \in BOOLEAN /\ unowned \subseteq Names /\ halfSaved \subseteq Names
    BY DEF TypeOK
<1>1. ASSUME NEW n \in Names, Begin(n) PROVE Good
    BY <1>0, <1>1, BeginMoves DEF bounds, history
<1>2. UNCHANGED faults \/ Fault => faults' \in Nat
    BY <1>0 DEF Fault
<1>3. ASSUME Observe PROVE Good
    <2>1. UNCHANGED faults \/ Fault
        BY <1>3, Zenon DEF Observe
    <2> QED BY <1>0, <1>2, <1>3, <2>1, ObserveMoves DEF history
<1>4. ASSUME ApplyLevel PROVE Good
    <2>1. UNCHANGED faults \/ Fault
        BY <1>4, Zenon DEF ApplyLevel
    <2> QED BY <1>0, <1>2, <1>4, <2>1, LevelMoves
<1>5. ASSUME Post PROVE Good
    <2>1. UNCHANGED faults \/ Fault
        BY <1>5, Zenon DEF Post
    <2> QED BY <1>0, <1>2, <1>5, <2>1, PostMoves DEF history
<1>6. ASSUME Persist \/ Annotate PROVE Good
    BY <1>0, <1>2, <1>6, PersistMoves, AnnotateMoves
<1>7. ASSUME Delete \/ HardDelete PROVE Good
    <2>1. UNCHANGED faults \/ Fault
        BY <1>7, Zenon DEF Delete, HardDelete
    <2> QED BY <1>0, <1>2, <1>7, <2>1, DeleteMoves, HardDeleteMoves DEF history
<1>8. ASSUME RemoveFinalizer PROVE Good
    <2>1. UNCHANGED faults \/ Fault
        BY <1>8, Zenon DEF RemoveFinalizer
    <2> QED BY <1>0, <1>2, <1>8, <2>1, RemoveMoves
<1>9. ASSUME Crash PROVE Good
    BY <1>0, <1>2, <1>9, CrashMoves DEF Crash
<1>10. SyncCache => Good
    BY <1>0, SyncMoves DEF bounds, history
<1>11. UserActs => Good
    BY <1>0 DEF UserActs
<1>12. UNCHANGED vars => Good
    BY <1>0 DEF vars, objects, bounds, history
<1> HIDE DEF Good
<1>13. Reconcile => Good
    BY <1>1, <1>3, <1>4, <1>5, <1>6, <1>7, <1>8 DEF Reconcile
<1>14. Others => Good
    BY <1>11, CreateMoves, SpecMoves, DeletionMoves, MeddlingMoves DEF Others
<1>15. Good
    BY <1>9, <1>10, <1>12, <1>13, <1>14 DEF Next
<1> QED BY <1>15 DEF Good

LEMMA ObjectsType ==
    ASSUME TypeOK, [Next]_vars
    PROVE  /\ crs' \in [Names -> Objects] /\ cache' \in [Names -> Objects]
           /\ \A n \in Names : IsObject(crs'[n]) /\ IsObject(cache'[n])
<1>0. /\ crs \in [Names -> Objects] /\ cache \in [Names -> Objects]
      /\ \A n \in Names : IsObject(crs[n]) /\ IsObject(cache[n])
    BY DEF TypeOK
<1>1. ASSUME NEW n \in Names, NEW d, OneWritten(n, d)
      PROVE  crs' \in [Names -> Objects] /\ cache' = cache /\ \A m \in Names : IsObject(crs'[m])
    <2>1. IsObject(d) /\ Writes(n, d) /\ cache' = cache
        BY <1>1 DEF OneWritten
    <2>2. /\ crs' \in [Names -> Objects] /\ crs'[n] = d
          /\ \A m \in Names : m # n => crs'[m] = crs[m]
        BY <2>1, WritesOne
    <2> QED BY <1>0, <2>1, <2>2
<1> QED BY <1>0, <1>1, ObjectMoves

LEMMA TypeStep ==
    ASSUME TypeOK, [Next]_vars
    PROVE  TypeOK'
<1>1. edits' \in Nat
    BY RegistryMoves, BusyFacts
<1>2. WorkerTyped'
    BY WorkerType
<1>3. /\ registry' \in [Names -> Subjects] /\ meddled' \subseteq Names
      /\ \A n \in Names : registry'[n].soft => registry'[n].versions # <<>>
    BY RegistryMoves DEF Registers
<1> HIDE DEF Next
<1> QED BY <1>1, <1>2, <1>3, OtherTypes, ObjectsType DEF TypeOK, WorkerTyped, PCs, Ending

LEMMA InitType == Init => TypeOK
<1> SUFFICES ASSUME Init PROVE TypeOK
    OBVIOUS
<1>1. /\ crs \in [Names -> Objects] /\ cache \in [Names -> Objects]
      /\ \A n \in Names : IsObject(crs[n]) /\ IsObject(cache[n])
    <2>1. NoObject \in Objects
        BY NoObjectFields DEF IsObject
    <2>2. crs = [n \in Names |-> NoObject] /\ cache = crs
        BY DEF Init
    <2> HIDE DEF NoObject, Objects
    <2> QED BY <2>1, <2>2, NoObjectFields
<1>2. registry \in [Names -> Subjects] /\ \A n \in Names : ~registry[n].soft
    <2>1. NoSubject \in Subjects /\ ~NoSubject.soft
        BY NoSubjectFields DEF IsSubject, NoSubject
    <2>2. registry = [n \in Names |-> NoSubject]
        BY DEF Init
    <2> QED BY <2>1, <2>2
<1>3. IsObject(orig) /\ IsObject(obj) /\ resolved \in Refs
    BY NoObjectFields DEF Init, Refs
<1> QED BY <1>1, <1>2, <1>3 DEF Init, TypeOK

\* Every reachable state is well typed; in particular, no generation is processed
\* before it is there, and the worker is on its way to let an object go exactly
\* if its copy says that it is deleted.
THEOREM TypeCorrect == Spec => []TypeOK
<1>1. TypeOK /\ [Next]_vars => TypeOK'
    BY TypeStep
<1> QED BY InitType, <1>1, PTL DEF Spec

----------------------------------------------------------------------------
(* Copies                                                                  *)

\* CacheInv of one object c and the cached copy x of it.
Cached(x, c, n) ==
    /\ c.uid <= n /\ x.uid <= n
    /\ ~Exists(c) => c = NoObject
    /\ Earlier(x, c)
    /\ Exists(x) /\ x.uid = c.uid /\ x.rv = c.rv => x = c
    /\ x.uid # c.uid => c.processed = 0

LEMMA CacheFields == CacheInv <=> \A n \in Names : Cached(cache[n], crs[n], edits)
BY DEF CacheInv, Cached

\* Of the object itself, and of one that has just been made.
LEMMA CachedSame ==
    ASSUME NEW x, NEW c, IsObject(x), IsObject(c), NEW n \in Nat, NEW m \in {n, n + 1}, Cached(x, c, n)
    PROVE  Cached(x, c, m) /\ Cached(c, c, m)
<1>1. /\ x.uid \in Nat /\ c.uid \in Nat /\ c.rv \in Nat /\ c.gen \in Nat
      /\ c.uid <= m /\ x.uid <= m
    <2>1. x.uid \in Nat /\ c.uid \in Nat /\ c.rv \in Nat /\ c.gen \in Nat
        BY ObjectTypes
    <2> QED BY <2>1 DEF Cached
<1>2. Cached(x, c, m)
    BY <1>1 DEF Cached
<1>3. Earlier(c, c)
    BY <1>1 DEF Earlier
<1> QED BY <1>1, <1>2, <1>3 DEF Cached

LEMMA CachedNewer ==
    ASSUME NEW x, NEW c, NEW d, IsObject(x), IsObject(c), NEW n \in Nat, NEW m \in {n, n + 1},
           Cached(x, c, n), Newer(d, c), c.gen <= d.gen, Exists(c),
           c.gen = d.gen => c.spec = d.spec /\ c.deleting = d.deleting,
           c.deleting => c.gen = d.gen,
           x.uid # c.uid => d.processed = 0
    PROVE  Cached(x, d, m)
<1>1. /\ x.uid \in Nat /\ x.rv \in Nat /\ x.gen \in Nat
      /\ c.uid \in Nat /\ c.rv \in Nat /\ c.gen \in Nat
      /\ d.uid = c.uid /\ d.rv = c.rv + 1 /\ d.gen \in Nat
    BY ObjectTypes DEF Newer
<1>2. Earlier(x, d)
    BY <1>1 DEF Cached, Earlier
<1>3. ~(x.uid = d.uid /\ x.rv = d.rv /\ Exists(x))
    BY <1>1 DEF Cached, Earlier
<1>4. d.uid <= m /\ x.uid <= m /\ Exists(d)
    BY <1>1 DEF Cached, Exists
<1> QED BY <1>1, <1>2, <1>3, <1>4 DEF Cached

LEMMA CachedFresh ==
    ASSUME NEW x, NEW c, IsObject(x), NEW n \in Nat, Cached(x, c, n)
    PROVE  /\ Cached(x, NoObject, n)
           /\ \A s \in Specs : Cached(x, Fresh(n + 1, s), n + 1)
<1>0. x.uid \in Nat /\ x.uid <= n
    BY ObjectTypes DEF Cached
<1>1. Cached(x, NoObject, n)
    BY <1>0, NoObjectFields DEF Cached, Earlier, Exists
<1>2. ASSUME NEW s \in Specs
      PROVE  Cached(x, Fresh(n + 1, s), n + 1)
    <2> DEFINE d == Fresh(n + 1, s)
    <2>1. d.uid = n + 1 /\ d.gen = 1 /\ d.processed = 0
        BY FreshFields
    <2> HIDE DEF d
    <2>2. Cached(x, d, n + 1)
        BY <1>0, <2>1 DEF Cached, Earlier, Exists
    <2> QED BY <2>2 DEF d
<1> QED BY <1>1, <1>2

\* CopyInv of the copy o that the worker began with, x and c what the cache and
\* the server have, and n the steps of users.
Copied(o, x, c, n) ==
    /\ o.uid <= n
    /\ Earlier(o, c)
    /\ o.uid = c.uid => x.uid = c.uid
    /\ o.uid # c.uid => c.processed = 0
    /\ Exists(o) /\ o.uid = c.uid /\ o.rv = c.rv => o = c

Claimed == obj.processed \in {orig.processed, obj.gen}

LEMMA CopyFields ==
    CopyInv <=> (pc # "idle" => /\ Copied(orig, cache[me], crs[me], edits)
                                /\ SameObject(obj, orig) /\ Claimed)
BY DEF CopyInv, Copied, IsCurrent, Claimed

\* What the worker may write: an object of which its copy is current.
LEMMA CurrentFacts ==
    ASSUME TypeOK, CopyInv, pc # "idle", IsCurrent(obj)
    PROVE  /\ Exists(crs[me]) /\ cache[me].uid = crs[me].uid /\ orig = crs[me]
           /\ SameObject(obj, crs[me])
BY DEF CopyInv, IsCurrent, Exists, SameObject

LEMMA CacheStep ==
    ASSUME TypeOK, CacheInv, CopyInv, [Next]_vars
    PROVE  CacheInv'
<1>0. /\ \A n \in Names : IsObject(crs[n]) /\ IsObject(cache[n]) /\ Cached(cache[n], crs[n], edits)
      /\ edits \in Nat /\ edits' \in {edits, edits + 1}
    BY BusyFacts, CacheFields, RegistryMoves
<1> SUFFICES ASSUME NEW h \in Names PROVE Cached(cache'[h], crs'[h], edits')
    BY DEF CacheInv, Cached, Earlier, Exists
<1>1. IsObject(cache[h]) /\ IsObject(crs[h]) /\ Cached(cache[h], crs[h], edits)
    BY <1>0
<1>2. CASE UNCHANGED crs /\ (UNCHANGED cache \/ cache' = crs)
    BY <1>0, <1>1, <1>2, CachedSame
<1>3. ASSUME NEW n \in Names, NEW d, OneWritten(n, d)
      PROVE  Cached(cache'[h], crs'[h], edits')
    <2>0. /\ IsObject(d) /\ UNCHANGED cache /\ crs'[n] = d
          /\ \A m \in Names : m # n => crs'[m] = crs[m]
        BY <1>3, WritesOne DEF OneWritten
    <2>1. CASE h # n
        BY <1>0, <1>1, <2>0, <2>1, CachedSame
    <2>2. CASE h = n /\ pc # "idle" /\ n = me /\ PassWrites(d)
        <3>1. CASE IsCurrent(obj) /\ d = Write(obj)
            <4>1. Exists(crs[me]) /\ cache[me].uid = crs[me].uid /\ SameObject(obj, crs[me])
                BY <2>2, <3>1, CurrentFacts
            <4>2. /\ Newer(d, obj) /\ d.spec = obj.spec /\ d.gen = obj.gen /\ d.deleting = obj.deleting
                BY <3>1, BusyFacts, WriteFields
            <4>3. /\ Newer(d, crs[me]) /\ d.gen = crs[me].gen
                  /\ d.spec = crs[me].spec /\ d.deleting = crs[me].deleting
                BY <4>1, <4>2 DEF Newer, SameObject
            <4>4. crs[me].gen \in Nat
                BY <1>1, <2>2, ObjectTypes
            <4> QED BY <1>0, <1>1, <2>0, <2>2, <4>1, <4>3, <4>4, CachedNewer
        <3>2. CASE d = NoObject
            <4>1. UNCHANGED edits
                BY <2>2 DEF PassWrites
            <4> QED BY <1>0, <1>1, <2>0, <2>2, <3>2, <4>1, CachedFresh
        <3>3. CASE Halves /\ d = WithVersion
            <4>1. Exists(crs[me]) /\ cache[me].uid = crs[me].uid /\ orig = crs[me]
                BY <2>2, <3>3, CurrentFacts DEF Halves
            <4>2. /\ Newer(d, crs[me]) /\ d.gen = crs[me].gen
                  /\ d.spec = crs[me].spec /\ d.deleting = crs[me].deleting
                BY <3>3, <4>1, StatusFields
            <4>3. crs[me].gen \in Nat
                BY <1>1, <2>2, ObjectTypes
            <4> QED BY <1>0, <1>1, <2>0, <2>2, <4>1, <4>2, <4>3, CachedNewer
        <3> QED BY <2>2, <3>1, <3>2, <3>3 DEF PassWrites
    <2>3. CASE h = n /\ UserWrites(n, d)
        <3>0. edits' = edits + 1
            BY <2>3 DEF UserWrites, UserActs
        <3>1. ASSUME NEW s \in Specs, d = Fresh(edits + 1, s)
              PROVE  Cached(cache'[h], crs'[h], edits')
            BY <1>0, <1>1, <2>0, <2>3, <3>0, <3>1, CachedFresh
        <3>2. CASE Revises(crs[n], d)
            <4>1. /\ Newer(d, crs[n]) /\ d.gen = crs[n].gen + 1 /\ d.processed = crs[n].processed
                  /\ Exists(crs[n]) /\ ~crs[n].deleting
                BY <3>2 DEF Revises
            <4>2. crs[n].gen \in Nat /\ (cache[n].uid # crs[n].uid => crs[n].processed = 0)
                BY <1>1, <2>3, ObjectTypes DEF Cached
            <4> QED BY <1>0, <1>1, <2>0, <2>3, <4>1, <4>2, CachedNewer
        <3> QED BY <2>3, <3>1, <3>2 DEF UserWrites
    <2> QED BY <1>3, <2>1, <2>2, <2>3 DEF OneWritten
<1> QED BY <1>2, <1>3, ObjectMoves

\* What a user writes, the worker has not seen.
LEMMA CopiedWritten ==
    ASSUME NEW o, NEW x, NEW c, NEW d, IsObject(o), IsObject(c), NEW n \in Nat,
           Exists(o), Copied(o, x, c, n), c.uid <= n,
           \/ ~Exists(c) /\ \E s \in Specs : d = Fresh(n + 1, s)
           \/ Revises(c, d)
    PROVE  Copied(o, x, d, n + 1) /\ ~(o.uid = d.uid /\ o.rv = d.rv)
<1>0. /\ o.uid \in Nat /\ o.rv \in Nat /\ o.gen \in Nat /\ c.uid \in Nat /\ c.rv \in Nat /\ c.gen \in Nat
      /\ o.uid <= n
    BY ObjectTypes DEF Copied
<1>1. ASSUME NEW s \in Specs, d = Fresh(n + 1, s)
      PROVE  Copied(o, x, d, n + 1) /\ ~(o.uid = d.uid /\ o.rv = d.rv)
    <2>0. n + 1 \in Nat
        OBVIOUS
    <2>1. d.uid = n + 1 /\ d.processed = 0
        BY <1>1, <2>0, FreshFields
    <2>2. o.uid # d.uid
        BY <1>0, <2>1
    <2> QED BY <1>0, <2>1, <2>2 DEF Copied, Earlier
<1>2. CASE Revises(c, d)
    <2>1. /\ d.uid = c.uid /\ d.rv = c.rv + 1 /\ d.gen = c.gen + 1
          /\ d.processed = c.processed /\ ~c.deleting
        BY <1>2 DEF Revises, Newer
    <2>2. Earlier(o, d) /\ ~(o.uid = d.uid /\ o.rv = d.rv)
        BY <1>0, <2>1 DEF Copied, Earlier
    <2> QED BY <1>0, <2>1, <2>2 DEF Copied
<1> QED BY <1>1, <1>2

\* A worker that keeps still either sees its object as it was, or no longer has
\* a current copy of it.
LEMMA StandStill ==
    ASSUME TypeOK, CacheInv, CopyInv, [Next]_vars, UNCHANGED worker, pc # "idle"
    PROVE  /\ Copied(orig, cache'[me], crs'[me], edits')
           /\ IsCurrent(obj)' => crs'[me] = crs[me]
<1>0. /\ me \in Names /\ IsObject(crs[me]) /\ IsObject(orig) /\ Exists(orig)
      /\ Copied(orig, cache[me], crs[me], edits) /\ SameObject(obj, orig)
      /\ Cached(cache[me], crs[me], edits)
      /\ edits \in Nat /\ edits' \in {edits, edits + 1} /\ orig.uid \in Nat
    BY BusyFacts, CacheFields, CopyFields, RegistryMoves, ObjectTypes
<1>1. pc' = pc /\ me' = me /\ obj' = obj
    BY DEF worker
<1>2. CASE UNCHANGED crs /\ (UNCHANGED cache \/ cache' = crs)
    BY <1>0, <1>2 DEF Copied
<1>3. ASSUME NEW n \in Names, NEW d, OneWritten(n, d)
      PROVE  /\ Copied(orig, cache'[me], crs'[me], edits')
             /\ IsCurrent(obj)' => crs'[me] = crs[me]
    <2>0. UserWrites(n, d) /\ edits' = edits + 1
        BY <1>1, <1>3 DEF OneWritten, PassWrites, Stops, Halves, UserWrites, UserActs
    <2>1. UNCHANGED cache /\ crs'[n] = d /\ (me # n => crs'[me] = crs[me])
        BY <1>0, <1>3, WritesOne DEF OneWritten
    <2>2. CASE me # n
        BY <1>0, <2>0, <2>1, <2>2 DEF Copied
    <2>3. CASE me = n
        <3>1. crs[me].uid <= edits
            BY <1>0 DEF Cached
        <3>2. Copied(orig, cache[me], d, edits + 1) /\ ~(orig.uid = d.uid /\ orig.rv = d.rv)
            BY <1>0, <2>0, <2>3, <3>1, CopiedWritten DEF UserWrites
        <3>3. ~IsCurrent(obj)'
            BY <1>0, <1>1, <2>1, <2>3, <3>2 DEF IsCurrent, SameObject
        <3> QED BY <2>0, <2>1, <2>3, <3>2, <3>3
    <2> QED BY <2>2, <2>3
<1> QED BY <1>2, <1>3, ObjectMoves

LEMMA CopyStep ==
    ASSUME TypeOK, CacheInv, CopyInv, [Next]_vars
    PROVE  CopyInv'
<1> SUFFICES ASSUME pc' # "idle"
             PROVE  Copied(orig', cache'[me'], crs'[me'], edits') /\ SameObject(obj', orig') /\ Claimed'
    BY DEF CopyInv, Copied, IsCurrent, Claimed
<1>1. CASE UNCHANGED worker
    <2>1. pc # "idle" /\ me' = me /\ obj' = obj /\ orig' = orig
        BY <1>1 DEF worker
    <2> QED BY <1>1, <2>1, StandStill, CopyFields DEF Claimed
<1>2. CASE Stops
    BY <1>2 DEF Stops
<1>3. ASSUME NEW n \in Names, Takes(n), UNCHANGED <<crs, cache, edits>>
      PROVE  Copied(orig', cache'[me'], crs'[me'], edits') /\ SameObject(obj', orig') /\ Claimed'
    <2>1. Cached(cache[n], crs[n], edits)
        BY CacheFields
    <2>2. me' = n /\ orig' = cache[n] /\ obj' = cache[n] /\ cache' = cache /\ crs' = crs /\ edits' = edits
        BY <1>3 DEF Takes
    <2> QED BY <2>1, <2>2 DEF Cached, Copied, SameObject, Claimed
<1>4. CASE Continues
    <2>1. /\ pc # "idle" /\ UNCHANGED <<me, orig, crs, cache, edits>> /\ SameObject(obj', obj)
          /\ obj'.processed \in {obj.processed, obj.gen}
        BY <1>4 DEF Continues, Goes, Alike, PostedAs
    <2> QED BY <2>1, CopyFields DEF SameObject, Claimed
<1>5. CASE Halves
    <2>0. /\ pc = "persist" /\ me' = me /\ cache' = cache /\ edits' = edits /\ Writes(me, WithVersion)
          /\ orig' = WithVersion /\ obj' = Write(obj) /\ IsCurrent(obj)
        BY <1>5 DEF Halves
    <2>1. /\ me \in Names /\ IsObject(orig) /\ IsObject(obj) /\ SameObject(obj, orig) /\ Claimed
          /\ orig = crs[me] /\ cache[me].uid = crs[me].uid /\ orig.uid <= edits /\ Exists(orig)
        BY <2>0, BusyFacts, CopyFields, CurrentFacts DEF Copied
    <2>2. /\ Newer(orig', orig) /\ orig'.spec = orig.spec /\ orig'.gen = orig.gen
          /\ orig'.deleting = orig.deleting /\ orig'.processed = orig.processed
        BY <2>0, StatusFields
    <2>3. /\ Newer(obj', obj) /\ obj'.spec = obj.spec /\ obj'.gen = obj.gen
          /\ obj'.deleting = obj.deleting /\ obj'.processed = obj.processed
        BY <2>0, <2>1, WriteFields
    <2>4. crs'[me] = orig'
        BY <2>0, <2>1, <2>2, WritesOne DEF Newer
    <2>5. SameObject(obj', orig') /\ Claimed'
        BY <2>1, <2>2, <2>3 DEF SameObject, Newer, Claimed
    <2>6. orig'.rv \in Nat /\ orig'.gen \in Nat
        BY <2>2, ObjectTypes DEF Newer
    <2>7. Copied(orig', cache[me], orig', edits)
        BY <2>1, <2>2, <2>6 DEF Copied, Earlier, Newer
    <2> QED BY <2>0, <2>4, <2>5, <2>7
<1> QED BY <1>1, <1>2, <1>3, <1>4, <1>5, WorkerMoves

----------------------------------------------------------------------------
(* What is registered                                                      *)

LEMMA ResolvedStep ==
    ASSUME TypeOK, ResolvedInv, [Next]_vars
    PROVE  ResolvedInv'
<1> SUFFICES ASSUME pc' = "post" PROVE {r[1] : r \in resolved'} = obj'.spec.refs
    BY DEF ResolvedInv
<1>1. CASE UNCHANGED worker
    BY <1>1 DEF worker, ResolvedInv
<1>2. ASSUME NEW n \in Names PROVE ~Stops /\ ~Takes(n)
    BY DEF Stops, Takes
<1>3. CASE Continues
    <2>1. obj'.spec = obj.spec /\ resolved' = Resolved(obj)
        BY <1>3 DEF Continues, Goes, SameObject
    <2> QED BY <2>1, ResolvedFields
<1>4. ~Stops /\ ~Halves
    BY DEF Stops, Halves
<1> QED BY <1>1, <1>2, <1>3, <1>4, WorkerMoves

\* IsRegistered and ClaimsRight of an object after the step.
RegisteredNext(o, n) ==
    /\ o.version \in DOMAIN registry'[n].versions
    /\ LET v == registry'[n].versions[o.version]
       IN v.body = o.spec.body /\ {r[1] : r \in v.refs} = o.spec.refs
ClaimsNext(o, n) ==
    o.processed = o.gen /\ ~o.deleting /\ n \notin meddled' => RegisteredNext(o, n)

LEMMA ClaimsFields ==
    (/\ \A n \in Names : ClaimsNext(crs'[n], n)
     /\ pc' # "idle" /\ IsCurrent(obj)' => ClaimsNext(obj', me'))
    => ProcessedInv'
BY DEF ProcessedInv, ClaimsRight, IsRegistered, ClaimsNext, RegisteredNext

\* What is registered stays, but of what HardDelete or others remove.
LEMMA ClaimsStay ==
    ASSUME NEW o, NEW d, NEW n, ClaimsRight(o, n), Keeps(n) \/ n \in meddled',
           n \in meddled => n \in meddled',
           d.version = o.version, d.spec = o.spec, d.gen = o.gen, d.deleting = o.deleting,
           d.processed = o.processed
    PROVE  ClaimsNext(d, n)
<1>1. CASE n \in meddled' \/ d.deleting \/ d.processed # d.gen
    BY <1>1 DEF ClaimsNext
<1>2. CASE n \notin meddled' /\ ~d.deleting /\ d.processed = d.gen
    <2>1. IsRegistered(o, n) /\ Keeps(n)
        BY <1>2 DEF ClaimsRight
    <2>2. RegisteredNext(o, n)
        BY <2>1 DEF IsRegistered, Keeps, RegisteredNext
    <2> QED BY <2>2 DEF ClaimsNext, RegisteredNext
<1> QED BY <1>1, <1>2

LEMMA ClaimsNothing ==
    ASSUME NEW d, NEW n, d.processed # d.gen \/ d.deleting
    PROVE  ClaimsNext(d, n)
BY DEF ClaimsNext

\* HardDelete removes the versions only of an object that is deleted, or that
\* has since been made anew.
LEMMA HardDeleted ==
    ASSUME TypeOK, CopyInv, HardDelete
    PROVE  obj.deleting /\ (crs[me].deleting \/ crs[me].processed # crs[me].gen)
<1>1. pc = "harddelete" /\ me \in Names /\ obj.deleting
    BY PassFacts DEF HardDelete, TypeOK
<1>2. /\ Copied(orig, cache[me], crs[me], edits) /\ orig.deleting /\ Exists(orig)
    BY <1>1, BusyFacts, CopyFields DEF SameObject
<1>3. CASE orig.uid = crs[me].uid
    BY <1>1, <1>2, <1>3 DEF Copied, Earlier
<1>4. CASE orig.uid # crs[me].uid
    <2>1. crs[me].processed = 0 /\ crs[me].gen # 0
        BY <1>1, <1>2, <1>4, BusyFacts, ObjectTypes DEF Copied
    <2> QED BY <1>1, <2>1
<1> QED BY <1>1, <1>3, <1>4

\* An object that the step leaves as it is.
LEMMA ClaimsUnchanged ==
    ASSUME TypeOK, CopyInv, ProcessedInv, [Next]_vars, NEW n \in Names, crs'[n] = crs[n]
    PROVE  ClaimsNext(crs'[n], n)
<1>1. ClaimsRight(crs[n], n)
    BY DEF ProcessedInv
<1>2. Keeps(n) \/ n \in meddled' \/ (HardDelete /\ n = me)
    BY RegistryMoves DEF Registers
<1>3. CASE HardDelete /\ n = me
    BY <1>3, HardDeleted, ClaimsNothing
<1>4. CASE n \in meddled => n \in meddled'
    BY <1>1, <1>2, <1>3, <1>4, ClaimsStay
<1>5. CASE RemoveFinalizer /\ meddled' = meddled \ {me} /\ crs[me].deleting /\ n = me
    BY <1>5, ClaimsNothing
<1>6. meddled \subseteq meddled' \/ (RemoveFinalizer /\ meddled' = meddled \ {me} /\ crs[me].deleting)
    BY RegistryMoves
<1> QED BY <1>4, <1>5, <1>6

\* An object that is written.
LEMMA ClaimsWritten ==
    ASSUME TypeOK, CopyInv, ProcessedInv, [Next]_vars, NEW n \in Names, NEW d, OneWritten(n, d)
    PROVE  ClaimsNext(d, n)
<1>0. IsObject(crs[n]) /\ edits + 1 \in Nat /\ IsObject(obj)
    BY BusyFacts
<1>1. CASE pc # "idle" /\ n = me /\ IsCurrent(obj) /\ d = Write(obj) /\ UNCHANGED <<registry, meddled>>
    <2>1. ClaimsRight(obj, n)
        BY <1>1 DEF ProcessedInv
    <2>2. /\ d.version = obj.version /\ d.spec = obj.spec /\ d.gen = obj.gen
          /\ d.deleting = obj.deleting /\ d.processed = obj.processed
        BY <1>0, <1>1, WriteFields
    <2>3. Keeps(n)
        BY <1>1 DEF Keeps
    <2> QED BY <1>1, <2>1, <2>2, <2>3, ClaimsStay
<1>2. CASE d = NoObject
    BY <1>2, NoObjectFields, ClaimsNothing
<1>3. ASSUME NEW s \in Specs, d = Fresh(edits + 1, s) PROVE ClaimsNext(d, n)
    BY <1>0, <1>3, FreshFields, ClaimsNothing
<1>4. CASE Revises(crs[n], d)
    <2>1. d.gen = crs[n].gen + 1 /\ d.processed = crs[n].processed
          /\ crs[n].gen \in Nat /\ crs[n].processed \in Nat /\ crs[n].processed <= crs[n].gen
        BY <1>0, <1>4, ObjectTypes DEF Revises
    <2> QED BY <2>1, ClaimsNothing
<1>5. CASE pc # "idle" /\ n = me /\ Halves /\ d = WithVersion
    <2>1. /\ ClaimsRight(obj, n) /\ SameObject(obj, orig) /\ Claimed /\ Keeps(n) /\ UNCHANGED meddled
        BY <1>5, CopyFields DEF ProcessedInv, Halves, Keeps
    <2>2. /\ d.version = obj.version /\ d.spec = obj.spec /\ d.gen = obj.gen
          /\ d.deleting = obj.deleting /\ d.processed = orig.processed
        BY <1>5, <2>1, StatusFields DEF SameObject
    <2>3. CASE d.processed = obj.processed
        BY <2>1, <2>2, <2>3, ClaimsStay
    <2>4. CASE d.processed # obj.processed
        <3>1. d.processed # d.gen
            BY <2>1, <2>2, <2>4 DEF Claimed
        <3> QED BY <3>1, ClaimsNothing
    <2> QED BY <2>3, <2>4
<1> QED BY <1>1, <1>2, <1>3, <1>4, <1>5 DEF OneWritten, PassWrites, UserWrites

\* What the worker has once it has gone on.
LEMMA ClaimsGone ==
    ASSUME TypeOK, CopyInv, ResolvedInv, ProcessedInv, [Next]_vars, Continues, IsCurrent(obj)'
    PROVE  ClaimsNext(obj', me)
<1>1. /\ pc # "idle" /\ me \in Names /\ UNCHANGED <<me, crs, meddled>> /\ SameObject(obj', obj)
    BY PassFacts DEF Continues, Goes
<1>2. IsCurrent(obj)
    BY <1>1 DEF IsCurrent, SameObject, Exists
<1>3. ClaimsRight(obj, me)
    BY <1>1, <1>2 DEF ProcessedInv
<1>4. CASE Alike(obj', obj)
    <2>1. Keeps(me) \/ me \in meddled' \/ HardDelete
        BY <1>1, RegistryMoves DEF Registers
    <2>2. CASE HardDelete
        BY <1>1, <2>2, HardDeleted, ClaimsNothing DEF SameObject
    <2>3. CASE Keeps(me) \/ me \in meddled'
        BY <1>1, <1>3, <1>4, <2>3, ClaimsStay DEF Alike, SameObject
    <2> QED BY <2>1, <2>2, <2>3
<1>5. CASE pc = "post" /\ PostedAs(obj')
    <2>1. /\ obj'.version \in DOMAIN registry'[me].versions
          /\ registry'[me].versions[obj'.version] = New /\ obj'.spec = obj.spec
        BY <1>5 DEF PostedAs, SameObject
    <2>2. New.body = obj.spec.body /\ {r[1] : r \in New.refs} = obj.spec.refs
        BY <1>5 DEF New, ResolvedInv
    <2> QED BY <2>1, <2>2 DEF ClaimsNext, RegisteredNext
<1> QED BY <1>4, <1>5 DEF Continues

LEMMA ProcessedStep ==
    ASSUME TypeOK, CacheInv, CopyInv, ResolvedInv, ProcessedInv, [Next]_vars
    PROVE  ProcessedInv'
<1>1. ASSUME NEW n \in Names PROVE ClaimsNext(crs'[n], n)
    <2>1. CASE crs'[n] = crs[n]
        BY <2>1, ClaimsUnchanged
    <2>2. ASSUME NEW m \in Names, NEW d, OneWritten(m, d) PROVE ClaimsNext(crs'[n], n)
        <3>1. crs'[m] = d /\ (n # m => crs'[n] = crs[n])
            BY <2>2, WritesOne DEF OneWritten
        <3> QED BY <2>1, <2>2, <3>1, ClaimsWritten
    <2> QED BY <2>1, <2>2, ObjectMoves
<1>2. ASSUME pc' # "idle", IsCurrent(obj)' PROVE ClaimsNext(obj', me')
    <2>1. CASE UNCHANGED worker
        <3>1. pc # "idle" /\ pc' = pc /\ me' = me /\ obj' = obj /\ me \in Names
            BY <1>2, <2>1, PassFacts DEF worker
        <3>2. crs'[me] = crs[me]
            BY <1>2, <2>1, <3>1, StandStill
        <3>3. IsCurrent(obj)
            BY <1>2, <3>1, <3>2 DEF IsCurrent
        <3>4. ClaimsRight(obj, me)
            BY <3>1, <3>3 DEF ProcessedInv
        <3>5. me \in meddled => me \in meddled'
            <4>1. ~RemoveFinalizer
                BY <1>2, RemoveMoves DEF Stops
            <4> QED BY <4>1, RegistryMoves
        <3>6. Keeps(me) \/ me \in meddled' \/ HardDelete
            BY <3>1, RegistryMoves DEF Registers
        <3>7. CASE HardDelete
            BY <3>1, <3>7, HardDeleted, ClaimsNothing
        <3> QED BY <3>1, <3>4, <3>5, <3>6, <3>7, ClaimsStay
    <2>2. CASE Stops
        BY <1>2, <2>2 DEF Stops
    <2>3. ASSUME NEW n \in Names, Takes(n), UNCHANGED <<crs, registry, meddled>> PROVE ClaimsNext(obj', me')
        <3>1. me' = n /\ obj' = cache[n] /\ Exists(cache[n])
            BY <2>3 DEF Takes
        <3>2. cache[n].uid = crs[n].uid /\ cache[n].rv = crs[n].rv
            BY <1>2, <2>3, <3>1 DEF IsCurrent
        <3>3. obj' = crs[n]
            BY <3>1, <3>2, CacheFields DEF Cached
        <3>4. ClaimsRight(crs[n], n) /\ Keeps(n)
            BY <2>3 DEF ProcessedInv, Keeps
        <3> QED BY <2>3, <3>1, <3>3, <3>4, ClaimsStay
    <2>4. CASE Continues
        <3>1. me' = me
            BY <2>4 DEF Continues, Goes
        <3> QED BY <1>2, <2>4, <3>1, ClaimsGone
    <2>5. CASE Halves
        <3>1. /\ me' = me /\ obj' = Write(obj) /\ IsObject(obj) /\ Keeps(me) /\ UNCHANGED meddled
              /\ ClaimsRight(obj, me)
            BY <2>5, BusyFacts DEF Halves, Keeps, ProcessedInv
        <3>2. /\ obj'.version = obj.version /\ obj'.spec = obj.spec /\ obj'.gen = obj.gen
              /\ obj'.deleting = obj.deleting /\ obj'.processed = obj.processed
            BY <3>1, WriteFields
        <3> QED BY <3>1, <3>2, ClaimsStay
    <2> QED BY <2>1, <2>2, <2>3, <2>4, <2>5, WorkerMoves
<1> QED BY <1>1, <1>2, ClaimsFields

----------------------------------------------------------------------------
(* Versions                                                                *)

\* Of the subjects, the versions alone.
VersionsStand == \A n \in Names : registry'[n].versions = registry[n].versions

\* A pass adds a version, and ends or goes on to save the object.
Adds ==
    /\ pc = "post" /\ pc' \in {"idle", "persist"} /\ ~Has(me, New)
    /\ registry'[me].versions = Append(registry[me].versions, New)
    /\ \A n \in Names : n # me => registry'[n].versions = registry[n].versions

\* A subject goes.
Empties(n) ==
    /\ registry'[n].versions = <<>>
    /\ \A m \in Names : m # n => registry'[m].versions = registry[m].versions

\* The worker goes on.
Onward ==
    /\ Goes(PCs \ {"idle"})
    /\ \/ pc = "observe" /\ pc' = "level" /\ Alike(obj', obj) /\ UNCHANGED resolved
       \/ pc = "level" /\ pc' = "post" /\ Alike(obj', obj) /\ resolved' = Resolved(obj)
       \/ /\ pc \in {"observe", "level", "post"} /\ pc' = "persist"
          /\ Alike(obj', obj) \/ (pc = "post" /\ PostedAs(obj'))
          /\ UNCHANGED resolved
       \/ pc \in Ending /\ pc' \in Ending /\ Alike(obj', obj) /\ UNCHANGED resolved

\* A step of the worker on its own.
WorkerSteps == UNCHANGED worker \/ Stops \/ (pc = "idle" /\ \E n \in Names : Takes(n)) \/ Onward
PassSteps   == /\ UNCHANGED <<crs, cache, edits, cyclic>>
               /\ WorkerSteps /\ (VersionsStand \/ (Adds /\ (Stops \/ Onward)))

\* The registry forgets a subject; the object is saved, or goes; the cache hears
\* of it; a user writes an object, or another client changes a subject.
Forgets  == /\ pc = "harddelete" /\ UNCHANGED <<crs, cache, edits, cyclic>>
            /\ Empties(me) /\ (Stops \/ (Onward /\ pc' = "unfinalize"))
Saved    == /\ UNCHANGED <<cache, registry, edits, cyclic>> /\ IsCurrent(obj)
            /\ \/ Halves
               \/ pc \in {"persist", "annotate"} /\ Stops /\ Writes(me, Write(obj))
LetGo    == /\ pc = "unfinalize" /\ Stops /\ UNCHANGED <<cache, registry, edits, cyclic>>
            /\ crs[me].deleting /\ Writes(me, NoObject)
Hears    == /\ cache' = crs /\ UNCHANGED <<crs, registry, edits, cyclic>>
            /\ UNCHANGED worker \/ Stops
Written(n) == /\ UserActs /\ UNCHANGED registry
              /\ \E d : IsObject(d) /\ Writes(n, d) /\ UserWrites(n, d)
Meddled  == UserActs /\ UNCHANGED crs /\ (VersionsStand \/ \E n \in Names : Empties(n))

\* What is saved is the object as the worker's copy has it.
LEMMA SavedObject ==
    ASSUME TypeOK, CopyInv, Saved
    PROVE  /\ pc \in {"persist", "annotate"} /\ pc' \in {"idle", "annotate"} /\ me \in Names
           /\ IsObject(crs'[me]) /\ crs'[me].spec = obj.spec /\ crs'[me].deleting = obj.deleting
           /\ crs'[me].uid = obj.uid /\ crs'[me].version = obj.version
           /\ \A m \in Names : m # me => crs'[m] = crs[m]
<1>1. pc \in {"persist", "annotate"} /\ pc' \in {"idle", "annotate"} /\ me \in Names
    BY PassFacts DEF Saved, Halves, Stops
<1>2. CASE Halves
    <2>1. /\ Newer(WithVersion, orig) /\ WithVersion.spec = orig.spec
          /\ WithVersion.deleting = orig.deleting /\ WithVersion.version = obj.version
          /\ SameObject(obj, orig) /\ Writes(me, WithVersion)
        BY <1>1, <1>2, StatusFields, CopyFields DEF Halves
    <2>2. crs'[me] = WithVersion /\ \A m \in Names : m # me => crs'[m] = crs[m]
        BY <1>1, <2>1, WritesOne DEF Newer
    <2> QED BY <1>1, <2>1, <2>2 DEF Newer, SameObject
<1>3. CASE Writes(me, Write(obj))
    <2>1. /\ Newer(Write(obj), obj) /\ Write(obj).spec = obj.spec
          /\ Write(obj).deleting = obj.deleting /\ Write(obj).version = obj.version
        BY BusyFacts, WriteFields
    <2>2. crs'[me] = Write(obj) /\ \A m \in Names : m # me => crs'[m] = crs[m]
        BY <1>1, <1>3, <2>1, WritesOne DEF Newer
    <2> QED BY <1>1, <2>1, <2>2 DEF Newer
<1> QED BY <1>2, <1>3 DEF Saved

LEMMA VersionsStay ==
    ASSUME UNCHANGED registry
    PROVE  VersionsStand
BY DEF VersionsStand

LEMMA PostAdds ==
    ASSUME TypeOK, Post
    PROVE  PassSteps
<1>1. /\ pc = "post" /\ UNCHANGED <<crs, cache, edits, cyclic>>
      /\ Stops \/ (Onward /\ pc' = "persist")
    <2>1. pc = "post" /\ UNCHANGED <<crs, cache, edits, cyclic>>
        BY PostMoves DEF history
    <2>2. \/ Stops
          \/ GoesAlike({"persist"}) /\ UNCHANGED resolved
          \/ Goes({"persist"}) /\ PostedAs(obj') /\ UNCHANGED resolved
        BY PostMoves
    <2>3. CASE GoesAlike({"persist"}) /\ UNCHANGED resolved
        BY <2>1, <2>3 DEF GoesAlike, Goes, Onward, PCs
    <2>4. CASE Goes({"persist"}) /\ PostedAs(obj') /\ UNCHANGED resolved
        BY <2>1, <2>4 DEF Goes, Onward, PCs
    <2> QED BY <2>1, <2>2, <2>3, <2>4
<1>2. me \in Names
    BY <1>1, PassFacts
<1>3. UNCHANGED registry \/ registry' = [registry EXCEPT ![me].versions = Registered, ![me].soft = FALSE]
    BY DEF Post
<1>4. ASSUME registry' = [registry EXCEPT ![me].versions = Registered, ![me].soft = FALSE]
      PROVE  /\ registry'[me].versions = Registered
             /\ \A n \in Names : n # me => registry'[n].versions = registry[n].versions
    <2>1. registry[me] \in Subjects /\ registry \in [Names -> Subjects]
        BY <1>2, SubjectTypes DEF TypeOK
    <2> HIDE DEF Registered
    <2> QED BY <1>2, <1>4, <2>1 DEF Subjects
<1>5. VersionsStand \/ Adds
    <2>1. CASE UNCHANGED registry
        BY <2>1, VersionsStay
    <2>2. CASE registry' = [registry EXCEPT ![me].versions = Registered, ![me].soft = FALSE]
        <3>1. CASE Has(me, New)
            <4>1. Registered = registry[me].versions
                BY <3>1 DEF Registered
            <4> QED BY <1>4, <2>2, <4>1 DEF VersionsStand
        <3>2. CASE ~Has(me, New)
            <4>1. Registered = Append(registry[me].versions, New)
                BY <3>2 DEF Registered
            <4>2. pc' \in {"idle", "persist"}
                BY <1>1 DEF Stops
            <4> QED BY <1>1, <1>4, <2>2, <3>2, <4>1, <4>2 DEF Adds
        <3> QED BY <3>1, <3>2
    <2> QED BY <1>3, <2>1, <2>2
<1> QED BY <1>1, <1>5 DEF PassSteps, WorkerSteps

LEMMA VersionMoves ==
    ASSUME TypeOK, [Next]_vars
    PROVE  \/ PassSteps \/ Forgets \/ Saved \/ LetGo \/ Hears
           \/ Meddled \/ \E n \in Names : Written(n)
<1>1. ASSUME UNCHANGED <<crs, cache, edits, cyclic>>, WorkerSteps, VersionsStand PROVE PassSteps
    BY <1>1 DEF PassSteps
<1>2. ASSUME NEW n \in Names, Begin(n) PROVE PassSteps
    <2>1. UNCHANGED <<crs, cache, edits, cyclic, registry>>
        BY <1>2, BeginMoves DEF bounds, history
    <2>2. WorkerSteps
        BY <1>2, BeginMoves DEF WorkerSteps
    <2> QED BY <1>1, <2>1, <2>2, VersionsStay
<1>3. ASSUME Observe PROVE PassSteps
    <2>1. UNCHANGED <<crs, cache, edits, cyclic, registry>> /\ pc = "observe"
        BY <1>3, ObserveMoves DEF history
    <2>2. GoesAlike({"level", "persist"}) /\ UNCHANGED resolved => Onward
        BY <2>1 DEF GoesAlike, Goes, Onward, PCs
    <2>3. WorkerSteps
        BY <1>3, <2>2, ObserveMoves DEF WorkerSteps
    <2> QED BY <1>1, <2>1, <2>3, VersionsStay
<1>4. ASSUME ApplyLevel PROVE PassSteps
    <2>1. UNCHANGED <<crs, cache, edits, cyclic>> /\ pc = "level" /\ me \in Names
        BY <1>4, LevelMoves, PassFacts
    <2>2. (GoesAlike({"persist"}) /\ UNCHANGED resolved) \/ (GoesAlike({"post"}) /\ resolved' = Resolved(obj))
          => Onward
        BY <2>1 DEF GoesAlike, Goes, Onward, PCs
    <2>3. WorkerSteps
        BY <1>4, <2>2, LevelMoves DEF WorkerSteps
    <2>4. UNCHANGED registry \/ registry' = [registry EXCEPT ![me].level = LevelToSet]
        BY <1>4 DEF ApplyLevel
    <2>5. registry' = [registry EXCEPT ![me].level = LevelToSet] => VersionsStand
        <3>1. registry[me] \in Subjects /\ registry \in [Names -> Subjects]
            BY <2>1, SubjectTypes DEF TypeOK
        <3> DEFINE l == LevelToSet
        <3>2. ASSUME registry' = [registry EXCEPT ![me].level = l] PROVE VersionsStand
            <4> HIDE DEF l
            <4> QED BY <2>1, <3>1, <3>2 DEF Subjects, VersionsStand
        <3> QED BY <3>2
    <2> QED BY <1>1, <2>1, <2>3, <2>4, <2>5, VersionsStay
<1>5. ASSUME Delete PROVE PassSteps
    <2>1. UNCHANGED <<crs, cache, edits, cyclic>> /\ pc = "delete" /\ me \in Names
        BY <1>5, DeleteMoves, PassFacts DEF history
    <2>2. GoesAlike({"harddelete"}) /\ UNCHANGED resolved => Onward
        BY <2>1 DEF GoesAlike, Goes, Onward, PCs, Ending
    <2>3. WorkerSteps
        BY <1>5, <2>2, DeleteMoves DEF WorkerSteps
    <2>4. UNCHANGED registry \/ registry' = [registry EXCEPT ![me] = SoftDeleted]
        BY <1>5 DEF Delete
    <2>5. registry' = [registry EXCEPT ![me] = SoftDeleted] => VersionsStand
        <3>1. registry[me] \in Subjects /\ registry \in [Names -> Subjects]
            BY <2>1, SubjectTypes DEF TypeOK
        <3>2. SoftDeleted.versions = registry[me].versions
            BY <3>1 DEF SoftDeleted, Subjects
        <3> HIDE DEF SoftDeleted
        <3> QED BY <2>1, <3>1, <3>2 DEF VersionsStand
    <2> QED BY <1>1, <2>1, <2>3, <2>4, <2>5, VersionsStay
<1>6. ASSUME NEW n \in Names, registry' = [registry EXCEPT ![n] = NoSubject] PROVE Empties(n)
    <2>1. registry \in [Names -> Subjects]
        BY DEF TypeOK
    <2> QED BY <1>6, <2>1 DEF Empties, NoSubject
<1>7. ASSUME HardDelete PROVE PassSteps \/ Forgets
    <2>1. UNCHANGED <<crs, cache, edits, cyclic>> /\ pc = "harddelete" /\ me \in Names
        BY <1>7, HardDeleteMoves, PassFacts DEF history
    <2>2. GoesAlike({"unfinalize"}) /\ UNCHANGED resolved => Onward /\ pc' = "unfinalize"
        BY <2>1 DEF GoesAlike, Goes, Onward, PCs, Ending
    <2>3. Stops \/ (Onward /\ pc' = "unfinalize")
        BY <1>7, <2>2, HardDeleteMoves
    <2>4. UNCHANGED registry \/ Empties(me)
        BY <1>6, <1>7, <2>1 DEF HardDelete
    <2>5. CASE UNCHANGED registry
        BY <1>1, <2>1, <2>3, <2>5, VersionsStay DEF WorkerSteps
    <2>6. CASE Empties(me)
        BY <2>1, <2>3, <2>6 DEF Forgets
    <2> QED BY <2>4, <2>5, <2>6
<1>8. ASSUME Persist \/ Annotate PROVE PassSteps \/ Saved
    <2>0. UNCHANGED <<cache, registry, edits, cyclic>> /\ pc \in {"persist", "annotate"}
        BY <1>8, PersistMoves, AnnotateMoves
    <2>1. CASE UNCHANGED crs /\ Stops
        BY <1>1, <2>0, <2>1, VersionsStay DEF WorkerSteps
    <2>2. CASE IsCurrent(obj) /\ Writes(me, Write(obj)) /\ Stops
        BY <2>0, <2>2 DEF Saved
    <2>3. CASE Halves
        BY <2>0, <2>3 DEF Saved, Halves
    <2> QED BY <1>8, <2>1, <2>2, <2>3, PersistMoves, AnnotateMoves
<1>9. ASSUME RemoveFinalizer PROVE PassSteps \/ LetGo
    <2>1. CASE UNCHANGED crs
        BY <1>1, <1>9, <2>1, RemoveMoves, VersionsStay DEF WorkerSteps
    <2>2. CASE crs[me].deleting /\ Writes(me, NoObject)
        BY <1>9, <2>2, RemoveMoves DEF LetGo
    <2> QED BY <1>9, <2>1, <2>2, RemoveMoves
<1>10. Crash \/ SyncCache => Hears
    BY CrashMoves, SyncMoves DEF Hears, bounds, history
<1>11. ASSUME NEW n \in Names, UserCreates(n) PROVE Written(n)
    <2>1. PICK s \in Specs : Writes(n, Fresh(edits + 1, s))
        BY <1>11, CreateMoves
    <2>2. edits + 1 \in Nat
        BY BusyFacts
    <2>3. IsObject(Fresh(edits + 1, s))
        BY <2>2, FreshFields
    <2>4. UserWrites(n, Fresh(edits + 1, s)) /\ UserActs /\ UNCHANGED registry
        BY <1>11, CreateMoves DEF UserWrites
    <2> QED BY <2>1, <2>3, <2>4 DEF Written
<1>12. ASSUME NEW n \in Names, UserEditsSpec(n) \/ UserDeletes(n) PROVE Written(n)
    <2>1. PICK d : Writes(n, d) /\ Revises(crs[n], d)
        BY <1>12, SpecMoves, DeletionMoves
    <2>2. UserWrites(n, d) /\ UserActs /\ UNCHANGED registry
        BY <1>12, <2>1, SpecMoves, DeletionMoves DEF UserWrites
    <2> QED BY <2>1, <2>2 DEF Written, Revises, Newer
<1>13. ASSUME NEW n \in Names, OthersSetLevel(n) PROVE Meddled
    <2>1. UserActs /\ UNCHANGED crs
        BY <1>13, MeddlingMoves
    <2>2. PICK l : registry' = [registry EXCEPT ![n].level = l]
        BY <1>13 DEF OthersSetLevel
    <2>3. VersionsStand
        <3>1. registry[n] \in Subjects /\ registry \in [Names -> Subjects]
            BY SubjectTypes DEF TypeOK
        <3> QED BY <2>2, <3>1 DEF Subjects, VersionsStand
    <2> QED BY <2>1, <2>3 DEF Meddled
<1>14. ASSUME NEW n \in Names, OthersDeleteSubject(n) PROVE Meddled
    <2>1. UserActs /\ UNCHANGED crs
        BY <1>14, MeddlingMoves
    <2>2. Empties(n)
        BY <1>6, <1>14 DEF OthersDeleteSubject
    <2> QED BY <2>1, <2>2 DEF Meddled
<1>15. UNCHANGED vars => PassSteps
    <2>1. UNCHANGED vars => UNCHANGED <<crs, cache, edits, cyclic, registry>> /\ UNCHANGED worker
        BY DEF vars, objects, bounds, history
    <2> QED BY <1>1, <2>1, VersionsStay DEF WorkerSteps
<1> DEFINE Good == \/ PassSteps \/ Forgets \/ Saved \/ LetGo \/ Hears
                   \/ Meddled \/ \E n \in Names : Written(n)
<1>16. Reconcile => Good
    BY <1>2, <1>3, <1>4, PostAdds, <1>5, <1>7, <1>8, <1>9 DEF Reconcile
<1>17. Others => Good
    BY <1>11, <1>12, <1>13, <1>14 DEF Others
<1> QED BY <1>10, <1>15, <1>16, <1>17 DEF Next

----------------------------------------------------------------------------
(* The version in the status, and the versions of a subject                *)

\* AgesInv of one object c with its cached copy x, and of the worker's copies.
Aged(x, c)        == x.uid # c.uid => c.version = 0
AgedCopy(p, o, x, c) == /\ p # "annotate" /\ o.uid = c.uid => o.rv <= x.rv
                        /\ o.uid # c.uid => c.version = 0
VersionKept == pc \in {"observe", "level", "post", "annotate"} => obj.version = orig.version

LEMMA AgesFields ==
    AgesInv <=> /\ \A n \in Names : Aged(cache[n], crs[n])
                /\ pc # "idle" => AgedCopy(pc, orig, cache[me], crs[me]) /\ VersionKept
BY DEF AgesInv, Aged, AgedCopy, VersionKept

\* Who has a current copy of an object has what the cache has of it.
LEMMA CurrentCopy ==
    ASSUME TypeOK, CacheInv, CopyInv, AgesInv, pc \notin {"idle", "annotate"}, IsCurrent(obj)
    PROVE  cache[me] = crs[me]
<1>1. Exists(crs[me]) /\ cache[me].uid = crs[me].uid /\ orig = crs[me] /\ me \in Names
    BY CurrentFacts, BusyFacts
<1>2. orig.rv <= cache[me].rv /\ Cached(cache[me], crs[me], edits)
    BY <1>1, AgesFields, CacheFields DEF AgedCopy
<1>3. cache[me].rv \in Nat /\ crs[me].rv \in Nat
    BY <1>1, BusyFacts, ObjectTypes
<1>4. Exists(cache[me])
    BY <1>1 DEF Exists
<1>5. cache[me].rv = crs[me].rv
    BY <1>1, <1>2, <1>3, <1>4 DEF Cached, Earlier
<1> QED BY <1>1, <1>2, <1>4, <1>5 DEF Cached

\* A user's change leaves the version, and makes the copies of others old.
LEMMA UserWritten ==
    ASSUME TypeOK, NEW n \in Names, NEW d, UserWrites(n, d), CacheInv
    PROVE  /\ ~Exists(crs[n]) => crs[n].version = 0 /\ crs[n].deleting = FALSE
           /\ d.version = crs[n].version /\ Exists(d)
           /\ d.uid = crs[n].uid \/ d.version = 0
           /\ d # crs[n]
<1>1. ~Exists(crs[n]) => crs[n] = NoObject
    BY CacheFields DEF Cached
<1>2. IsObject(crs[n]) /\ crs[n].rv \in Nat /\ edits \in Nat
    BY BusyFacts, ObjectTypes
<1>3. ASSUME NEW s \in Specs, d = Fresh(edits + 1, s), ~Exists(crs[n])
      PROVE  d.version = crs[n].version /\ Exists(d) /\ d.version = 0 /\ d # crs[n]
    <2>1. edits + 1 \in Nat /\ edits + 1 # 0
        BY <1>2
    <2>2. d.uid = edits + 1 /\ d.version = 0
        BY <1>3, <2>1, FreshFields
    <2>3. d.uid # 0
        BY <2>1, <2>2
    <2> QED BY <1>1, <1>3, <2>2, <2>3, NoObjectFields DEF Exists
<1>4. ASSUME Revises(crs[n], d)
      PROVE  d.version = crs[n].version /\ Exists(d) /\ d.uid = crs[n].uid /\ d # crs[n]
    BY <1>2, <1>4 DEF Revises, Newer, Exists
<1> QED BY <1>1, <1>3, <1>4, NoObjectFields DEF UserWrites

LEMMA AgesCacheStep ==
    ASSUME TypeOK, CacheInv, CopyInv, AgesInv, [Next]_vars
    PROVE  \A n \in Names : Aged(cache'[n], crs'[n])
<1> TAKE h \in Names
<1>0. Aged(cache[h], crs[h])
    BY AgesFields
<1>1. CASE UNCHANGED crs /\ (UNCHANGED cache \/ cache' = crs)
    BY <1>0, <1>1 DEF Aged
<1>2. ASSUME NEW n \in Names, NEW d, OneWritten(n, d)
      PROVE  Aged(cache'[h], crs'[h])
    <2>0. /\ IsObject(d) /\ UNCHANGED cache /\ crs'[n] = d
          /\ \A m \in Names : m # n => crs'[m] = crs[m]
        BY <1>2, WritesOne DEF OneWritten
    <2>1. CASE h # n
        BY <1>0, <2>0, <2>1
    <2>2. CASE h = n /\ pc # "idle" /\ n = me /\ IsCurrent(obj) /\ d = Write(obj)
        <3>1. cache[me].uid = crs[me].uid /\ obj.uid = crs[me].uid
            BY <2>2, CurrentFacts DEF SameObject
        <3>2. d.uid = obj.uid
            BY <2>2, BusyFacts, WriteFields DEF Newer
        <3> QED BY <2>0, <2>2, <3>1, <3>2 DEF Aged
    <2>3. CASE h = n /\ d = NoObject
        BY <2>0, <2>3, NoObjectFields DEF Aged
    <2>4. CASE h = n /\ UserWrites(n, d)
        BY <1>0, <2>0, <2>4, UserWritten DEF Aged
    <2>5. CASE h = n /\ pc # "idle" /\ n = me /\ Halves /\ d = WithVersion
        <3>1. cache[me].uid = crs[me].uid /\ orig = crs[me] /\ d.uid = orig.uid
            BY <2>5, CurrentFacts, StatusFields DEF Halves, Newer
        <3> QED BY <2>0, <2>5, <3>1 DEF Aged
    <2> QED BY <1>2, <2>1, <2>2, <2>3, <2>4, <2>5 DEF OneWritten, PassWrites
<1> QED BY <1>1, <1>2, ObjectMoves

LEMMA AgesCopyStep ==
    ASSUME TypeOK, CacheInv, CopyInv, AgesInv, [Next]_vars, pc' # "idle"
    PROVE  AgedCopy(pc', orig', cache'[me'], crs'[me'])
<1>1. CASE UNCHANGED worker
    <2>1. pc # "idle" /\ pc' = pc /\ me' = me /\ orig' = orig /\ me \in Names /\ IsObject(orig) /\ Exists(orig)
        BY <1>1, BusyFacts DEF worker
    <2>2. /\ AgedCopy(pc, orig, cache[me], crs[me]) /\ Copied(orig, cache[me], crs[me], edits)
          /\ crs[me].uid <= edits /\ edits \in Nat
        BY <2>1, AgesFields, CopyFields, CacheFields, BusyFacts DEF Cached
    <2>3. CASE UNCHANGED crs /\ (UNCHANGED cache \/ cache' = crs)
        BY <2>1, <2>2, <2>3 DEF AgedCopy, Copied, Earlier
    <2>4. ASSUME NEW n \in Names, NEW d, OneWritten(n, d)
          PROVE  AgedCopy(pc', orig', cache'[me'], crs'[me'])
        <3>0. UserWrites(n, d)
            BY <1>1, <2>1, <2>4 DEF worker, OneWritten, PassWrites, Stops, Halves
        <3>1. UNCHANGED cache /\ crs'[n] = d /\ (me # n => crs'[me] = crs[me])
            BY <2>1, <2>4, WritesOne DEF OneWritten
        <3>2. CASE me # n
            BY <2>1, <2>2, <3>1, <3>2
        <3>3. ASSUME me = n, NEW s \in Specs, d = Fresh(edits + 1, s)
              PROVE  AgedCopy(pc', orig', cache'[me'], crs'[me'])
            <4>0. orig.uid \in Nat
                BY <2>1, ObjectTypes
            <4>1. edits \in Nat /\ edits + 1 \in Nat /\ orig.uid \in Nat /\ orig.uid <= edits
                BY <2>2, <4>0 DEF Copied
            <4>2. d.uid = edits + 1 /\ d.version = 0
                BY <3>3, <4>1, FreshFields
            <4>3. orig.uid # d.uid
                BY <4>1, <4>2
            <4> QED BY <2>1, <3>1, <3>3, <4>2, <4>3 DEF AgedCopy
        <3>4. CASE me = n /\ Revises(crs[n], d)
            BY <2>1, <2>2, <3>1, <3>4 DEF AgedCopy, Revises, Newer
        <3> QED BY <3>0, <3>2, <3>3, <3>4 DEF UserWrites
    <2> QED BY <2>3, <2>4, ObjectMoves
<1>2. ASSUME NEW n \in Names, Takes(n), UNCHANGED <<crs, cache>>
      PROVE  AgedCopy(pc', orig', cache'[me'], crs'[me'])
    <2>1. me' = n /\ orig' = cache[n] /\ Aged(cache[n], crs[n]) /\ cache[n].rv \in Nat
        BY <1>2, AgesFields, BusyFacts, ObjectTypes DEF Takes
    <2> QED BY <1>2, <2>1 DEF Aged, AgedCopy
<1>3. CASE Continues
    <2>1. pc # "idle" /\ UNCHANGED <<me, orig, crs, cache>>
        BY <1>3 DEF Continues, Goes
    <2>2. pc # "annotate"
        BY <1>3 DEF Continues, Ending
    <2> QED BY <2>1, <2>2, AgesFields DEF AgedCopy
<1>4. ~Stops
    BY DEF Stops
<1>5. CASE Halves
    <2>1. me \in Names /\ orig' = WithVersion /\ Writes(me, WithVersion) /\ me' = me /\ pc' = "annotate"
        BY <1>5, PassFacts DEF Halves
    <2>2. crs'[me] = orig'
        BY <2>1, StatusFields, WritesOne DEF Newer
    <2> QED BY <2>1, <2>2 DEF AgedCopy
<1> QED BY <1>1, <1>2, <1>3, <1>4, <1>5, WorkerMoves

LEMMA VersionKeptStep ==
    ASSUME TypeOK, AgesInv, [Next]_vars, pc' # "idle"
    PROVE  VersionKept'
<1>1. CASE UNCHANGED worker
    BY <1>1, AgesFields DEF worker, VersionKept
<1>2. ASSUME NEW n \in Names, Takes(n) PROVE VersionKept'
    BY <1>2 DEF Takes, VersionKept
<1>3. CASE Onward
    <2>1. VersionKept /\ UNCHANGED orig
        BY <1>3, AgesFields DEF Onward, Goes
    <2> QED BY <1>3, <2>1 DEF VersionKept, Onward, Alike, Ending
<1>4. ~Stops
    BY DEF Stops
<1>5. CASE Halves
    <2>1. obj' = Write(obj) /\ orig' = WithVersion /\ IsObject(obj)
        BY <1>5, BusyFacts DEF Halves
    <2>2. obj'.version = obj.version /\ orig'.version = obj.version
        BY <2>1, WriteFields, StatusFields
    <2> QED BY <2>2 DEF VersionKept
<1>6. UNCHANGED worker \/ Onward \/ Halves \/ \E n \in Names : Takes(n)
    BY <1>4, VersionMoves DEF PassSteps, WorkerSteps, Forgets, Saved, LetGo, Hears, Meddled, Written, UserActs
<1> QED BY <1>1, <1>2, <1>3, <1>5, <1>6

LEMMA AgesStep ==
    ASSUME TypeOK, CacheInv, CopyInv, AgesInv, [Next]_vars
    PROVE  AgesInv'
<1>1. /\ \A n \in Names : Aged(cache'[n], crs'[n])
      /\ pc' # "idle" => AgedCopy(pc', orig', cache'[me'], crs'[me']) /\ VersionKept'
    BY AgesCacheStep, AgesCopyStep, VersionKeptStep
<1> QED BY <1>1 DEF AgesInv, Aged, AgedCopy, VersionKept

\* No version is in vs twice.
Distinct(vs) == \A i, j \in DOMAIN vs : vs[i] = vs[j] => i = j

LEMMA AppendDistinct ==
    ASSUME NEW S, NEW s \in Seq(S), NEW v \in S, Distinct(s), ~\E i \in DOMAIN s : s[i] = v
    PROVE  Distinct(Append(s, v))
<1> DEFINE t == Append(s, v)
           n == Len(s)
<1>1. /\ DOMAIN s = 1 .. n /\ DOMAIN t = 1 .. (n + 1) /\ n \in Nat
      /\ t[n + 1] = v /\ \A i \in 1 .. n : t[i] = s[i]
    OBVIOUS
<1> HIDE DEF t, n
<1>2. ASSUME NEW i \in 1 .. (n + 1), NEW j \in 1 .. (n + 1), t[i] = t[j] PROVE i = j
    <2>1. CASE i \in 1 .. n /\ j \in 1 .. n
        BY <1>1, <1>2, <2>1 DEF Distinct
    <2>2. (i \in 1 .. n \/ i = n + 1) /\ (j \in 1 .. n \/ j = n + 1)
        BY <1>1
    <2> QED BY <1>1, <1>2, <2>1, <2>2
<1> QED BY <1>1, <1>2 DEF Distinct, t

LEMMA DistinctStep ==
    ASSUME TypeOK, DistinctInv, [Next]_vars
    PROVE  DistinctInv'
<1>0. \A n \in Names : Distinct(registry[n].versions)
    BY DEF DistinctInv, Distinct
<1> SUFFICES ASSUME NEW n \in Names PROVE Distinct(registry'[n].versions)
    BY DEF DistinctInv, Distinct
<1>1. CASE VersionsStand \/ UNCHANGED registry
    BY <1>0, <1>1 DEF VersionsStand
<1>2. ASSUME NEW m, Empties(m) PROVE Distinct(registry'[n].versions)
    <2>1. CASE n = m
        BY <1>2, <2>1 DEF Empties, Distinct
    <2>2. CASE n # m
        BY <1>0, <1>2, <2>2 DEF Empties
    <2> QED BY <2>1, <2>2
<1>3. CASE Adds
    <2>1. CASE n = me
        <3>1. registry[me].versions \in Seq(Versions) /\ New \in Versions
            BY <1>3, <2>1, SubjectTypes, RegisteredFields DEF Adds
        <3>2. ~\E i \in DOMAIN registry[me].versions : registry[me].versions[i] = New
            BY <1>3 DEF Adds, Has
        <3>3. Distinct(Append(registry[me].versions, New))
            <4> HIDE DEF New
            <4> QED BY <1>0, <2>1, <3>1, <3>2, AppendDistinct
        <3> QED BY <1>3, <2>1, <3>3 DEF Adds
    <2>2. CASE n # me
        BY <1>0, <1>3, <2>2 DEF Adds
    <2> QED BY <2>1, <2>2
<1> QED BY <1>1, <1>2, <1>3, VersionMoves DEF PassSteps, Forgets, Saved, LetGo, Hears, Meddled, Written

----------------------------------------------------------------------------
(* The objects that are to be saved, or to get another version             *)

\* v names the version with this body that references nothing.
RightIn(vs, v, body) == v \in DOMAIN vs /\ vs[v] = [body |-> body, refs |-> {}]

\* Nothing else keeps m from being settled.
Plain(c) == Exists(c) /\ ~c.deleting /\ c.spec.refs = {}

\* What Saving and Unsettled say, before and after a step.
LEMMA SettledFields ==
    ASSUME NEW m
    PROVE  /\ Unsettled(m) <=> /\ Exists(crs[m])
                               /\ Plain(crs[m]) =>
                                  ~RightIn(registry[m].versions,
                                          IF Saves(m) THEN obj.version ELSE crs[m].version,
                                          crs[m].spec.body)
           /\ Unsettled(m)' <=> /\ Exists(crs'[m])
                                /\ Plain(crs'[m]) =>
                                   ~RightIn(registry'[m].versions,
                                           IF Saves(m)' THEN obj'.version ELSE crs'[m].version,
                                           crs'[m].spec.body)
           /\ Saving(m) <=> Saves(m) /\ obj.spec.refs = {} /\ obj.version # crs[m].version
           /\ Saving(m)' <=> Saves(m)' /\ obj'.spec.refs = {} /\ obj'.version # crs'[m].version
BY DEF Unsettled, Saving, Right, RightIn, Plain, Exists

LEMMA SavesFields ==
    ASSUME NEW m
    PROVE  /\ Saves(m)  <=> me = m /\ pc = "persist" /\ IsCurrent(obj)
           /\ Saves(m)' <=> me' = m /\ pc' = "persist" /\ Exists(obj')
                            /\ obj'.uid = crs'[m].uid /\ obj'.rv = crs'[m].rv
BY DEF Saves, IsCurrent, Exists

\* What is saved describes what is there.
LEMMA SavedFields ==
    ASSUME TypeOK, CopyInv, NEW m \in Names, Saves(m)
    PROVE  Exists(crs[m]) /\ ~crs[m].deleting /\ obj.spec = crs[m].spec
<1>1. me = m /\ pc = "persist" /\ IsCurrent(obj)
    BY DEF Saves
<1>2. Exists(crs[m]) /\ SameObject(obj, crs[m])
    BY <1>1, CurrentFacts
<1>3. ~obj.deleting
    BY <1>1 DEF TypeOK
<1> QED BY <1>2, <1>3 DEF SameObject

\* Neither begins.
SettledAs(m) == (Saving(m)' => Saving(m)) /\ (Unsettled(m)' => Unsettled(m))
\* What is to be saved may then be what is to be registered.
SettlesFor(m) == /\ ~(Saving(m)' /\ Unsettled(m)')
                 /\ Saving(m)' \/ Unsettled(m)' => Saving(m) \/ Unsettled(m)

\* The versions of a subject that stay right.
LEMMA NamesStay ==
    ASSUME TypeOK, NEW m \in Names, PassSteps, NEW v, NEW b, RightIn(registry[m].versions, v, b)
    PROVE  RightIn(registry'[m].versions, v, b)
<1>1. CASE registry'[m].versions = registry[m].versions
    BY <1>1
<1>2. CASE Adds /\ m = me
    <2>1. registry[me].versions \in Seq(Versions) /\ New \in Versions
        BY <1>2, SubjectTypes, RegisteredFields DEF Adds
    <2>2. v \in DOMAIN registry'[m].versions /\ registry'[m].versions[v] = registry[m].versions[v]
        <3> HIDE DEF New
        <3> QED BY <1>2, <2>1, AppendFields DEF Adds, RightIn
    <2> QED BY <2>2 DEF RightIn
<1> QED BY <1>1, <1>2 DEF PassSteps, VersionsStand, Adds

\* The object is registered as it is, by the pass that goes on to save it.
LEMMA PostSettles ==
    ASSUME TypeOK, CopyInv, ResolvedInv, DistinctInv', NEW m \in Names, PassSteps,
           Onward, pc = "post", pc' = "persist", PostedAs(obj'), me = m
    PROVE  SettledAs(m) \/ SettlesFor(m)
<1>1. /\ UNCHANGED <<me, crs>> /\ SameObject(obj', obj) /\ ~obj.deleting /\ pc # "idle" /\ ~Saves(m)
    BY DEF PassSteps, Onward, Goes, TypeOK, Saves
<1>2. CASE ~Saves(m)'
    BY <1>1, <1>2, NamesStay, SettledFields DEF SettledAs
<1>3. CASE Saves(m)'
    <2>1. IsCurrent(obj)
        BY <1>1, <1>3, SavesFields DEF IsCurrent, SameObject, Exists
    <2>2. Exists(crs[m]) /\ SameObject(obj, crs[m])
        BY <1>1, <2>1, CurrentFacts
    <2>3. obj'.spec = crs[m].spec /\ ~crs[m].deleting
        BY <1>1, <2>2 DEF SameObject
    <2>4. CASE crs[m].spec.refs # {}
        <3>1. ~Plain(crs[m])
            BY <2>4 DEF Plain
        <3> QED BY <1>1, <2>2, <2>3, <2>4, <3>1, SettledFields DEF SettledAs
    <2>5. CASE crs[m].spec.refs = {}
        <3>0. Plain(crs[m])
            BY <2>2, <2>3, <2>5 DEF Plain
        <3>1. obj.spec = crs[m].spec
            BY <2>2 DEF SameObject
        <3>2. resolved = {}
            BY <2>5, <3>1 DEF ResolvedInv
        <3>3. RightIn(registry'[m].versions, obj'.version, crs[m].spec.body)
            BY <3>1, <3>2 DEF PostedAs, New, RightIn
        <3>4. ~Unsettled(m)'
            BY <1>1, <1>3, <3>0, <3>3, SettledFields
        <3>5. ASSUME ~Unsettled(m) PROVE obj'.version = crs[m].version
            <4>1. RightIn(registry[m].versions, crs[m].version, crs[m].spec.body)
                BY <1>1, <2>2, <3>0, <3>5, SettledFields
            <4>2. RightIn(registry'[m].versions, crs[m].version, crs[m].spec.body)
                BY <4>1, NamesStay
            <4> QED BY <3>3, <4>2 DEF RightIn, DistinctInv
        <3>6. Saving(m)' => Unsettled(m)
            BY <1>1, <3>5, SettledFields
        <3> QED BY <3>4, <3>6 DEF SettlesFor
    <2> QED BY <2>4, <2>5
<1> QED BY <1>2, <1>3

LEMMA PassSettles ==
    ASSUME TypeOK, CacheInv, CopyInv, ResolvedInv, AgesInv, DistinctInv', NEW m \in Names, PassSteps
    PROVE  SettledAs(m) \/ SettlesFor(m)
<1>0. UNCHANGED crs
    BY DEF PassSteps
<1>1. CASE UNCHANGED worker
    <2>1. UNCHANGED <<pc, me, obj>> /\ VersionsStand
        BY <1>1 DEF worker, PassSteps, Adds, Stops, Onward, Ending
    <2>2. registry'[m].versions = registry[m].versions /\ (Saves(m)' <=> Saves(m))
        BY <1>0, <2>1, SavesFields DEF VersionsStand, IsCurrent
    <2> QED BY <1>0, <2>1, <2>2, SettledFields DEF SettledAs
<1>2. CASE ~Saves(m) /\ ~Saves(m)'
    BY <1>0, <1>2, NamesStay, SettledFields DEF SettledAs
<1>3. CASE Saves(m) /\ Stops
    <2>1. ~Saves(m)' /\ ~Saving(m)'
        BY <1>3, SavesFields, SettledFields DEF Stops
    <2>2. registry'[m].versions = registry[m].versions
        BY <1>3 DEF PassSteps, Saves, VersionsStand, Adds
    <2>3. Exists(crs[m]) /\ obj.spec = crs[m].spec
        BY <1>3, SavedFields
    <2>4. CASE Plain(crs[m]) /\ obj.version # crs[m].version
        BY <1>3, <2>1, <2>3, <2>4, SettledFields DEF SettlesFor, Plain
    <2>5. CASE ~Plain(crs[m]) \/ obj.version = crs[m].version
        BY <1>0, <2>1, <2>2, <2>5, SettledFields DEF SettledAs
    <2> QED BY <2>4, <2>5
<1>4. CASE Saves(m)' /\ ~Saves(m) /\ Onward
    <2>1. /\ pc \in {"observe", "level", "post"} /\ pc' = "persist" /\ UNCHANGED me /\ me = m /\ pc # "idle"
          /\ Alike(obj', obj) \/ (pc = "post" /\ PostedAs(obj'))
        BY <1>4, SavesFields DEF Onward, Goes, Ending
    <2>2. CASE pc = "post" /\ PostedAs(obj')
        BY <1>4, <2>1, <2>2, PostSettles
    <2>3. CASE Alike(obj', obj)
        <3>1. IsCurrent(obj)
            BY <1>0, <1>4, <2>1, <2>3, SavesFields DEF IsCurrent, Alike, SameObject, Exists
        <3>2. orig = crs[m] /\ obj.version = orig.version
            BY <2>1, <3>1, CurrentFacts, AgesFields DEF VersionKept
        <3>3. obj'.version = crs[m].version
            BY <2>3, <3>2 DEF Alike
        <3> QED BY <1>0, <1>4, <3>3, NamesStay, SettledFields DEF SettledAs
    <2> QED BY <2>1, <2>2, <2>3
<1>5. ASSUME NEW n \in Names, Takes(n), pc = "idle" PROVE ~Saves(m) /\ ~Saves(m)'
    BY <1>5, SavesFields DEF Takes
<1>6. Stops => ~Saves(m)'
    BY SavesFields DEF Stops
<1>7. Onward => ~Saves(m)
    BY SavesFields DEF Onward, Ending
<1> QED BY <1>1, <1>2, <1>3, <1>4, <1>5, <1>6, <1>7 DEF PassSteps, WorkerSteps

LEMMA ForgetsSettles ==
    ASSUME TypeOK, CacheInv, CopyInv, AgesInv, NEW m \in Names, Forgets
    PROVE  SettledAs(m)
<1>1. ~Saves(m) /\ ~Saves(m)' /\ UNCHANGED crs /\ pc = "harddelete" /\ me \in Names /\ pc # "idle"
    BY SavesFields, PassFacts DEF Forgets, Stops
<1>2. CASE m # me
    BY <1>1, <1>2, SettledFields DEF SettledAs, Forgets, Empties
<1>3. CASE m = me
    <2>1. obj.deleting /\ Copied(orig, cache[me], crs[me], edits) /\ SameObject(obj, orig)
        BY <1>1, CopyFields DEF TypeOK
    <2>2. AgedCopy(pc, orig, cache[me], crs[me]) /\ Exists(orig) /\ orig.deleting
        BY <1>1, <2>1, AgesFields, BusyFacts DEF SameObject
    <2>3. ~Plain(crs[m]) \/ crs[m].version = 0
        BY <1>3, <2>1, <2>2 DEF Copied, Earlier, AgedCopy, Plain
    <2>4. crs[m].version = 0 => ~RightIn(registry[m].versions, crs[m].version, crs[m].spec.body)
        <3>1. registry[m].versions \in Seq(Versions)
            BY SubjectTypes
        <3>2. 0 \notin DOMAIN registry[m].versions
            BY <3>1
        <3> QED BY <3>2 DEF RightIn
    <2> QED BY <1>1, <2>3, <2>4, SettledFields DEF SettledAs
<1> QED BY <1>2, <1>3

LEMMA HearsSettles ==
    ASSUME TypeOK, CacheInv, CopyInv, NEW m \in Names, Hears
    PROVE  SettledAs(m) \/ SettlesFor(m)
<1>0. UNCHANGED <<crs, registry>>
    BY DEF Hears
<1>1. CASE UNCHANGED worker
    <2>1. UNCHANGED <<pc, me, obj>>
        BY <1>1 DEF worker
    <2>2. Saves(m)' <=> Saves(m)
        BY <1>0, <2>1, SavesFields DEF IsCurrent
    <2> QED BY <1>0, <2>1, <2>2, SettledFields DEF SettledAs
<1>2. CASE Stops
    <2>1. ~Saves(m)' /\ ~Saving(m)'
        BY <1>2, SavesFields, SettledFields DEF Stops
    <2>2. CASE ~Saves(m)
        BY <1>0, <2>1, <2>2, SettledFields DEF SettledAs
    <2>3. CASE Saves(m) /\ Plain(crs[m]) /\ obj.version # crs[m].version
        <3>1. Exists(crs[m]) /\ obj.spec = crs[m].spec
            BY <2>3, SavedFields
        <3> QED BY <2>1, <2>3, <3>1, SettledFields DEF SettlesFor, Plain
    <2>4. CASE ~Plain(crs[m]) \/ obj.version = crs[m].version
        BY <1>0, <2>1, <2>4, SettledFields DEF SettledAs
    <2> QED BY <2>2, <2>3, <2>4
<1> QED BY <1>1, <1>2 DEF Hears

----------------------------------------------------------------------------
(* What is still to be registered                                          *)

LEMMA AsOfSame ==
    ASSUME NEW o, NEW p, NEW c, NEW d, o.spec = p.spec,
           \A m \in o.spec.refs : c[m].version = d[m].version
    PROVE  AsOf(o, c) = AsOf(p, d)
<1> DEFINE S == o.spec.refs
<1>1. AsOf(o, c) = {<<m, c[m].version>> : m \in S} /\ AsOf(p, d) = {<<m, d[m].version>> : m \in S}
    BY DEF AsOf
<1>2. \A m \in S : c[m].version = d[m].version
    OBVIOUS
<1> HIDE DEF S
<1> QED BY <1>1, <1>2

\* What o describes with these references; and it is among the versions vs.
Described(o, r) == [body |-> o.spec.body, refs |-> r]
Among(v, vs)    == \E i \in DOMAIN vs : vs[i] = v
FromPass        == Described(obj, IF pc = "post" THEN resolved ELSE AsOf(obj, cache))
FromCache(n)    == Described(cache[n], AsOf(cache[n], cache))

LEMMA AwaitsFields ==
    ASSUME NEW k
    PROVE  /\ Awaits(k)  <=> /\ Registering(k) \/ Can(cache[k])
                             /\ ~Among(IF Registering(k) THEN FromPass ELSE FromCache(k), registry[k].versions)
           /\ Awaits(k)' <=> /\ Registering(k)' \/ Can(cache'[k])
                             /\ ~Among(IF Registering(k)' THEN FromPass' ELSE FromCache(k)', registry'[k].versions)
BY DEF Awaits, Coming, Has, Among, Described, FromPass, FromCache, Can, Exists

LEMMA LagFields ==
    ASSUME NEW k
    PROVE  /\ PassLag(k)  <=> Registering(k) /\ Can(cache[k]) /\ obj.spec # cache[k].spec
           /\ PassLag(k)' <=> Registering(k)' /\ Can(cache'[k]) /\ obj'.spec # cache'[k].spec
           /\ ResolvedLag(k)  <=> Registering(k) /\ pc = "post" /\ resolved # AsOf(obj, cache)
           /\ ResolvedLag(k)' <=> Registering(k)' /\ pc' = "post" /\ resolved' # AsOf(obj', cache')
           /\ CacheLag(k)  <=> Can(crs[k]) /\ ~(Can(cache[k]) /\ cache[k].spec = crs[k].spec)
           /\ CacheLag(k)' <=> Can(crs'[k]) /\ ~(Can(cache'[k]) /\ cache'[k].spec = crs'[k].spec)
           /\ VersionLag(k)  <=> \E m \in Names : /\ cache[m].version # crs[m].version
                                                  /\ \/ Can(cache[k]) /\ m \in cache[k].spec.refs
                                                     \/ Registering(k) /\ m \in obj.spec.refs
           /\ VersionLag(k)' <=> \E m \in Names : /\ cache'[m].version # crs'[m].version
                                                  /\ \/ Can(cache'[k]) /\ m \in cache'[k].spec.refs
                                                     \/ Registering(k)' /\ m \in obj'.spec.refs
           /\ Registering(k)  <=> me = k /\ pc \in {"observe", "level", "post"}
           /\ Registering(k)' <=> me' = k /\ pc' \in {"observe", "level", "post"}
BY DEF PassLag, ResolvedLag, CacheLag, VersionLag, Registering, AsOf, Can, Exists

\* A pass that is behind nothing registers what the next would.
LEMMA NoLag ==
    ASSUME NEW k \in Names, Registering(k), Can(cache[k]), ~PassLag(k), ~ResolvedLag(k)
    PROVE  FromPass = FromCache(k)
<1>1. obj.spec = cache[k].spec /\ (pc = "post" => resolved = AsOf(obj, cache))
    BY LagFields
<1>2. AsOf(obj, cache) = AsOf(cache[k], cache)
    BY <1>1, AsOfSame
<1> QED BY <1>1, <1>2 DEF FromPass, FromCache, Described

\* How the versions that k has and those it awaits change: they stay; or the pass
\* over k ends; or it does with another version of k.
PassGoes(k) == /\ registry'[k].versions = registry[k].versions
               /\ Awaits(k)' => Awaits(k)
               /\ PassLag(k)' => PassLag(k)
               /\ ResolvedLag(k)' => ResolvedLag(k)
PassEnds(k) == /\ registry'[k].versions = registry[k].versions
               /\ ~PassLag(k)' /\ ~ResolvedLag(k)'
               /\ Awaits(k)' => Awaits(k) \/ PassLag(k) \/ ResolvedLag(k)
PassAdds(k) == /\ Size(k)' = Size(k) + 1
               /\ Awaits(k) /\ ~PassLag(k)' /\ ~ResolvedLag(k)'
               /\ Awaits(k)' => PassLag(k) \/ ResolvedLag(k)

LEMMA PassCounts ==
    ASSUME TypeOK, NEW k \in Names, PassSteps
    PROVE  /\ PassGoes(k) \/ PassEnds(k) \/ PassAdds(k)
           /\ CacheLag(k)' <=> CacheLag(k)
           /\ VersionLag(k)' => VersionLag(k)
<1>0. UNCHANGED <<crs, cache>>
    BY DEF PassSteps
<1>1. CacheLag(k)' <=> CacheLag(k)
    BY <1>0, LagFields
<1>2. FromCache(k)' = FromCache(k)
    BY <1>0 DEF FromCache, AsOf, Described
\* The pass over k is not under way.
<1>3. CASE ~Registering(k) /\ ~Registering(k)'
    <2>1. registry'[k].versions = registry[k].versions
        BY <1>3, LagFields DEF PassSteps, VersionsStand, Adds
    <2>2. PassGoes(k)
        BY <1>0, <1>2, <1>3, <2>1, AwaitsFields, LagFields DEF PassGoes
    <2>3. VersionLag(k)' => VersionLag(k)
        BY <1>0, <1>3, LagFields
    <2> QED BY <1>1, <2>2, <2>3
\* It begins.
<1>4. CASE ~Registering(k) /\ Registering(k)'
    <2>1. ~Onward /\ ~Stops /\ ~UNCHANGED worker
        BY <1>4, LagFields DEF Onward, Goes, Stops, worker, Ending
    <2>2. PICK n \in Names : Takes(n)
        BY <2>1 DEF PassSteps, WorkerSteps
    <2>3. /\ Can(cache[k]) /\ obj' = cache[k] /\ pc' = "observe" /\ cache' = cache
        BY <1>0, <1>4, <2>2, LagFields, BusyFacts, ObjectTypes DEF Takes, Can
    <2>4. registry'[k].versions = registry[k].versions
        BY <2>1 DEF PassSteps, VersionsStand
    <2>5. FromPass' = FromCache(k)
        <3>1. AsOf(obj', cache') = AsOf(cache[k], cache)
            BY <2>3
        <3>2. AsOf(obj, cache)' = AsOf(obj', cache')
            BY DEF AsOf
        <3>3. FromPass' = Described(obj', AsOf(obj, cache)')
            BY <2>3 DEF FromPass, Described
        <3> QED BY <2>3, <3>1, <3>2, <3>3 DEF FromCache
    <2>6. PassGoes(k)
        BY <1>0, <1>4, <2>3, <2>4, <2>5, AwaitsFields, LagFields DEF PassGoes
    <2>7. VersionLag(k)' => VersionLag(k)
        BY <1>0, <2>3, LagFields
    <2> QED BY <1>1, <2>6, <2>7
\* It goes on.
<1>5. CASE Registering(k) /\ Registering(k)'
    <2>0. ~Stops /\ pc # "idle" /\ pc' \notin {"idle", "persist"}
        BY <1>5, LagFields DEF Stops
    <2>1. registry'[k].versions = registry[k].versions
        BY <2>0 DEF PassSteps, VersionsStand, Adds
    <2>2. /\ obj'.spec = obj.spec
          /\ \/ (pc' = "post" <=> pc = "post") /\ resolved' = resolved
             \/ pc' = "post" /\ pc = "level" /\ resolved' = Resolved(obj)
        <3>1. CASE UNCHANGED worker
            BY <3>1 DEF worker
        <3>2. CASE Onward
            BY <1>5, <2>0, <3>2, LagFields DEF Onward, Goes, SameObject, Ending
        <3> QED BY <2>0, <3>1, <3>2 DEF PassSteps, WorkerSteps
    <2>3. AsOf(obj', cache') = AsOf(obj, cache) /\ AsOf(obj, cache)' = AsOf(obj', cache')
          /\ Resolved(obj) = AsOf(obj, cache)
        <3>1. AsOf(obj', cache') = AsOf(obj, cache)
            BY <1>0, <2>2, AsOfSame
        <3> QED BY <3>1 DEF AsOf, Resolved
    <2>4. FromPass' = FromPass
        <3>1. FromPass' = Described(obj', IF pc' = "post" THEN resolved' ELSE AsOf(obj', cache'))
            BY <2>3 DEF FromPass, Described
        <3>2. Described(obj', IF pc' = "post" THEN resolved' ELSE AsOf(obj', cache'))
              \in {Described(obj', resolved'), Described(obj', AsOf(obj, cache))}
            BY <2>3
        <3> QED BY <2>2, <2>3, <3>1 DEF FromPass, Described
    <2>5. Awaits(k)' => Awaits(k)
        BY <1>5, <2>1, <2>4, AwaitsFields
    <2>6. (PassLag(k)' => PassLag(k)) /\ (ResolvedLag(k)' => ResolvedLag(k))
        BY <1>0, <1>5, <2>2, <2>3, LagFields
    <2>7. VersionLag(k)' => VersionLag(k)
        BY <1>0, <1>5, <2>2, LagFields
    <2> QED BY <1>1, <2>1, <2>5, <2>6, <2>7 DEF PassGoes
\* It ends.
<1>6. CASE Registering(k) /\ ~Registering(k)'
    <2>1. ~PassLag(k)' /\ ~ResolvedLag(k)'
        BY <1>6, LagFields
    <2>2. VersionLag(k)' => VersionLag(k)
        BY <1>0, <1>6, LagFields
    <2>3. Awaits(k)' => Can(cache[k]) /\ ~Among(FromCache(k), registry'[k].versions)
        BY <1>0, <1>2, <1>6, AwaitsFields
    <2>4. Can(cache[k]) => FromPass = FromCache(k) \/ PassLag(k) \/ ResolvedLag(k)
        BY <1>6, NoLag
    <2>5. CASE registry'[k].versions = registry[k].versions
        <3>1. Awaits(k)' => Awaits(k) \/ PassLag(k) \/ ResolvedLag(k)
            BY <1>6, <2>3, <2>4, <2>5, AwaitsFields
        <3> QED BY <1>1, <2>1, <2>2, <2>5, <3>1 DEF PassEnds
    <2>6. CASE Adds /\ k = me
        <3>1. registry[k].versions \in Seq(Versions) /\ New \in Versions
            BY <2>6, SubjectTypes, RegisteredFields DEF Adds
        <3>2. FromPass = New
            BY <2>6 DEF Adds, FromPass, New, Described
        <3>3. registry'[k].versions = Append(registry[k].versions, New) /\ ~Among(New, registry[k].versions)
            BY <2>6 DEF Adds, Has, Among
        <3>4. Len(registry'[k].versions) = Len(registry[k].versions) + 1
              /\ Among(New, registry'[k].versions)
            <4> HIDE DEF New
            <4> QED BY <3>1, <3>3, AppendFields DEF Among
        <3>5. Awaits(k)
            BY <1>6, <3>2, <3>3, AwaitsFields
        <3>6. Awaits(k)' => PassLag(k) \/ ResolvedLag(k)
            BY <2>3, <2>4, <3>2, <3>4
        <3> QED BY <1>1, <2>1, <2>2, <3>4, <3>5, <3>6 DEF PassAdds, Size
    <2> QED BY <2>5, <2>6 DEF PassSteps, VersionsStand, Adds
<1> QED BY <1>3, <1>4, <1>5, <1>6

\* The subject of k stays or goes, and the pass and the cache stand.
LEMMA StillCounts ==
    ASSUME TypeOK, NEW k \in Names, UNCHANGED cache,
           registry'[k].versions \in {registry[k].versions, <<>>},
           UNCHANGED worker \/ (~Registering(k) /\ ~Registering(k)')
    PROVE  /\ Size(k)' + Bit(Awaits(k)') <= Size(k) + Bit(Awaits(k))
           /\ PassLag(k)' <=> PassLag(k)
           /\ ResolvedLag(k)' <=> ResolvedLag(k)
<1>1. Registering(k)' <=> Registering(k)
    BY LagFields DEF worker
<1>2. Registering(k) => UNCHANGED <<pc, obj, resolved>>
    BY DEF worker
<1>3. FromCache(k)' = FromCache(k)
    BY DEF FromCache, AsOf, Described
<1>4. Registering(k) => FromPass' = FromPass
    BY <1>2 DEF FromPass, AsOf, Described
<1>5. AsOf(obj', cache') = AsOf(obj, cache) \/ ~Registering(k)
    BY <1>2
<1>6. (PassLag(k)' <=> PassLag(k)) /\ (ResolvedLag(k)' <=> ResolvedLag(k))
    BY <1>1, <1>2, <1>5, LagFields
<1>7. registry[k].versions \in Seq(Versions)
    BY SubjectTypes
<1>8. CASE registry'[k].versions = registry[k].versions
    <2>1. Awaits(k)' <=> Awaits(k)
        BY <1>1, <1>3, <1>4, <1>8, AwaitsFields
    <2>2. Size(k)' = Size(k) /\ Size(k) \in Nat
        BY <1>7, <1>8 DEF Size
    <2> QED BY <1>6, <2>1, <2>2 DEF Bit
<1>9. CASE registry'[k].versions = <<>> /\ registry[k].versions # <<>>
    <2>1. Size(k) >= 1 /\ Size(k) \in Nat
        BY <1>7, <1>9 DEF Size
    <2>2. Size(k)' = 0
        BY <1>9 DEF Size
    <2>3. Size(k)' + Bit(Awaits(k)') <= Size(k) + Bit(Awaits(k))
        BY <2>1, <2>2 DEF Bit
    <2> QED BY <1>6, <2>3
<1> QED BY <1>8, <1>9

\* The lags of the cache, too, while no version changes.
LEMMA LagsStand ==
    ASSUME NEW k, UNCHANGED cache, UNCHANGED worker \/ (~Registering(k) /\ ~Registering(k)')
    PROVE  /\ Can(crs'[k]) = Can(crs[k]) /\ crs'[k].spec = crs[k].spec
              => (CacheLag(k)' <=> CacheLag(k))
           /\ (\A m \in Names : crs'[m].version = crs[m].version) => (VersionLag(k)' <=> VersionLag(k))
<1>1. Registering(k)' <=> Registering(k)
    BY LagFields DEF worker
<1>2. Registering(k) => UNCHANGED obj
    BY DEF worker
<1> QED BY <1>1, <1>2, LagFields

\* The cache hears of the objects.
LEMMA HearsCounts ==
    ASSUME TypeOK, NEW k \in Names, Hears
    PROVE  /\ registry'[k].versions = registry[k].versions
           /\ ~CacheLag(k)' /\ ~VersionLag(k)'
           /\ Bit(Awaits(k)') + Bit(PassLag(k)') + Bit(ResolvedLag(k)')
              <= Bit(Awaits(k)) + Bit(PassLag(k)) + Bit(ResolvedLag(k)) + Bit(CacheLag(k)) + Bit(VersionLag(k))
<1>1. cache' = crs /\ UNCHANGED <<crs, registry>>
    BY DEF Hears
<1>2. ~CacheLag(k)' /\ ~VersionLag(k)'
    BY <1>1, LagFields
\* The pass over k goes on.
<1>3. CASE Registering(k)'
    <2>1. UNCHANGED <<pc, me, obj, resolved>> /\ Registering(k)
        BY <1>3, LagFields DEF Hears, Stops, worker
    <2>2. PassLag(k)' => PassLag(k) \/ CacheLag(k)
        BY <1>1, <1>3, <2>1, LagFields
    <2>3. AsOf(obj', cache') = AsOf(obj, cache) \/ VersionLag(k)
        <3>1. ASSUME ~VersionLag(k) PROVE AsOf(obj, cache) = AsOf(obj, crs)
            <4>1. obj.spec.refs \subseteq Names
                BY PassFacts, ObjectTypes
            <4>2. \A m \in obj.spec.refs : cache[m].version = crs[m].version
                BY <2>1, <3>1, <4>1, LagFields
            <4> QED BY <4>2, AsOfSame
        <3> QED BY <1>1, <2>1, <3>1
    <2>4. CASE pc = "post"
        <3>1. FromPass' = FromPass
            BY <2>1, <2>4 DEF FromPass, Described
        <3>2. Awaits(k)' => Awaits(k)
            BY <1>1, <1>3, <2>1, <3>1, AwaitsFields
        <3>3. ResolvedLag(k)' => ResolvedLag(k) \/ VersionLag(k)
            BY <1>3, <2>1, <2>3, LagFields
        <3> QED BY <1>1, <1>2, <2>2, <3>2, <3>3 DEF Bit
    <2>5. CASE pc # "post"
        <3>1. ~ResolvedLag(k)'
            BY <2>1, <2>5, LagFields
        <3>2. FromPass' = Described(obj', AsOf(obj', cache')) /\ FromPass = Described(obj, AsOf(obj, cache))
            BY <2>1, <2>5 DEF FromPass, Described, AsOf
        <3>3. Awaits(k)' => Awaits(k) \/ VersionLag(k)
            BY <1>1, <1>3, <2>1, <2>3, <3>2, AwaitsFields
        <3> QED BY <1>1, <1>2, <2>2, <3>1, <3>3 DEF Bit
    <2> QED BY <2>4, <2>5
\* It is not under way, or ends.
<1>4. CASE ~Registering(k)'
    <2>1. ~PassLag(k)' /\ ~ResolvedLag(k)'
        BY <1>4, LagFields
    <2>2. ASSUME Awaits(k)', ~CacheLag(k), ~VersionLag(k)
          PROVE  Awaits(k) \/ PassLag(k) \/ ResolvedLag(k)
        <3>1. Can(crs[k]) /\ ~Among(FromCache(k)', registry[k].versions)
            BY <1>1, <1>4, <2>2, AwaitsFields
        <3>2. Can(cache[k]) /\ cache[k].spec = crs[k].spec
            BY <2>2, <3>1, LagFields
        <3>3. cache[k].spec.refs \subseteq Names
            BY BusyFacts, ObjectTypes
        <3>4. \A m \in cache[k].spec.refs : cache[m].version = crs[m].version
            BY <2>2, <3>2, <3>3, LagFields
        <3>5. AsOf(cache[k], cache) = AsOf(crs[k], crs)
            BY <3>2, <3>4, AsOfSame
        <3>6. FromCache(k)' = Described(crs[k], AsOf(crs[k], crs))
            BY <1>1 DEF FromCache, Described, AsOf
        <3>7. FromCache(k)' = FromCache(k)
            BY <3>2, <3>5, <3>6 DEF FromCache, Described
        <3>8. CASE Registering(k)
            BY <3>1, <3>2, <3>7, <3>8, NoLag, AwaitsFields
        <3>9. CASE ~Registering(k)
            BY <3>1, <3>2, <3>7, <3>9, AwaitsFields
        <3> QED BY <3>8, <3>9
    <2> QED BY <1>1, <1>2, <2>1, <2>2 DEF Bit
<1> QED BY <1>3, <1>4

----------------------------------------------------------------------------
(* Bounds                                                                  *)

\* Objects that do not form a cycle do not reference each other.
LEMMA NoCycle ==
    ASSUME NEW c, ~HasCycle(c)
    PROVE  Acyclic(c)
<1> SUFFICES ASSUME NEW n \in Names, NEW m \in Names, m \in c[n].spec.refs, n \in c[m].spec.refs
             PROVE  FALSE
    BY DEF Acyclic
<1> DEFINE S == {n, m}
<1>1. S \in (SUBSET Names) \ {{}}
    OBVIOUS
<1>2. \A x \in S : c[x].spec.refs \cap S # {}
    OBVIOUS
<1> HIDE DEF S
<1> QED BY <1>1, <1>2 DEF HasCycle

LEMMA AcyclicStep ==
    ASSUME TypeOK, CopyInv, [Next]_vars, ~cyclic', ~cyclic => Acyclic(crs) /\ Acyclic(cache)
    PROVE  ~cyclic /\ Acyclic(crs') /\ Acyclic(cache')
<1>1. CASE UNCHANGED <<crs, cache, cyclic>>
    BY <1>1
<1>2. CASE Saved
    <2>1. SameObject(obj, crs[me]) /\ me \in Names /\ crs'[me].spec = obj.spec
          /\ \A m \in Names : m # me => crs'[m] = crs[m]
        BY <1>2, SavedObject, CurrentFacts DEF Saved
    <2>2. \A n \in Names : crs'[n].spec = crs[n].spec
        BY <2>1 DEF SameObject
    <2> QED BY <1>2, <2>2 DEF Saved, Acyclic
<1>3. CASE LetGo
    <2>1. NoObject.spec.refs = {} /\ me \in Names
        BY <1>3, PassFacts DEF NoObject, Fresh, LetGo
    <2>2. \A n \in Names : crs'[n].spec.refs \subseteq crs[n].spec.refs
        BY <1>3, <2>1, WritesOne, NoObjectFields DEF LetGo
    <2> QED BY <1>3, <2>2 DEF LetGo, Acyclic
<1>4. CASE Hears
    BY <1>4 DEF Hears
<1>5. CASE UserActs
    <2>1. ~cyclic /\ ~HasCycle(crs') /\ UNCHANGED cache
        BY <1>5 DEF UserActs
    <2>2. Acyclic(crs')
        BY <2>1, NoCycle
    <2> QED BY <2>1, <2>2
<1> QED BY <1>1, <1>2, <1>3, <1>4, <1>5, VersionMoves DEF PassSteps, Forgets, Meddled, Written

LEMMA Lengths ==
    ASSUME TypeOK, NEW k \in Names
    PROVE  Size(k) \in Nat
<1>1. registry[k].versions \in Seq(Versions)
    BY SubjectTypes
<1> QED BY <1>1 DEF Size

LEMMA OtherFields ==
    ASSUME NEW k
    PROVE  /\ OtherSaving(k)     <=> \E m \in Names \ {k} : Saving(m)
           /\ OtherSaving(k)'    <=> \E m \in Names \ {k} : Saving(m)'
           /\ OtherUnsettled(k)  <=> \E m \in Names \ {k} : Unsettled(m)
           /\ OtherUnsettled(k)' <=> \E m \in Names \ {k} : Unsettled(m)'
BY DEF OtherSaving, OtherUnsettled

\* There is one other object, at most.
LEMMA OneOther ==
    ASSUME Pair, NEW k \in Names, NEW m \in Names \ {k}, NEW o \in Names \ {k}
    PROVE  m = o
BY DEF Pair

LEMMA OthersSettle ==
    ASSUME Pair, NEW k \in Names, \A m \in Names : SettledAs(m) \/ SettlesFor(m)
    PROVE  Bit(OtherSaving(k)') + Bit(OtherUnsettled(k)') <= Bit(OtherSaving(k)) + Bit(OtherUnsettled(k))
<1>1. CASE Names \ {k} = {}
    BY <1>1, OtherFields DEF Bit
<1>2. ASSUME NEW o \in Names \ {k}
      PROVE  Bit(OtherSaving(k)') + Bit(OtherUnsettled(k)') <= Bit(OtherSaving(k)) + Bit(OtherUnsettled(k))
    <2>1. Names \ {k} = {o}
        BY OneOther
    <2>2. /\ OtherSaving(k) <=> Saving(o)
          /\ OtherSaving(k)' <=> Saving(o)'
          /\ OtherUnsettled(k) <=> Unsettled(o)
          /\ OtherUnsettled(k)' <=> Unsettled(o)'
        BY <2>1, OtherFields
    <2>3. SettledAs(o) \/ SettlesFor(o)
        OBVIOUS
    <2> QED BY <2>2, <2>3 DEF Bit, SettledAs, SettlesFor
<1> QED BY <1>1, <1>2

LEMMA LengthsNext ==
    ASSUME TypeOK, [Next]_vars, NEW k \in Names
    PROVE  Size(k) \in Nat /\ Size(k)' \in Nat
<1>1. registry'[k] \in Subjects
    BY RegistryMoves DEF Registers
<1>2. registry'[k].versions \in Seq(Versions) /\ registry[k].versions \in Seq(Versions)
    BY <1>1, SubjectTypes DEF Subjects
<1> QED BY <1>2 DEF Size

LEMMA PassBound ==
    ASSUME TypeOK, SchemasInv, AgesInv, DistinctInv', [Next]_vars, Pair, NEW k \in Names, PassSteps
    PROVE  Bound(k)' <= Bound(k)
<1>1. \A m \in Names : SettledAs(m) \/ SettlesFor(m)
    BY PassSettles DEF SchemasInv
<1>2. Bit(OtherSaving(k)') + Bit(OtherUnsettled(k)') <= Bit(OtherSaving(k)) + Bit(OtherUnsettled(k))
    <2>1. Bit(OtherSaving(k)') + Bit(OtherUnsettled(k)') <= Bit(OtherSaving(k)) + Bit(OtherUnsettled(k))
        BY <1>1, OthersSettle
    <2> QED BY <2>1 DEF Bit
<1>3. /\ PassGoes(k) \/ PassEnds(k) \/ PassAdds(k)
      /\ CacheLag(k)' <=> CacheLag(k)
      /\ VersionLag(k)' => VersionLag(k)
    BY PassCounts
<1>4. Size(k) \in Nat /\ Size(k)' \in Nat
    BY LengthsNext
<1>5. Size(k)' + Bit(Awaits(k)') + Bit(PassLag(k)') + Bit(ResolvedLag(k)')
      <= Size(k) + Bit(Awaits(k)) + Bit(PassLag(k)) + Bit(ResolvedLag(k))
    <2>1. PassGoes(k) \/ PassEnds(k) => Size(k)' = Size(k)
        BY DEF PassGoes, PassEnds, Size
    <2>2. CASE PassGoes(k)
        BY <1>4, <2>1, <2>2 DEF Bit, PassGoes
    <2>3. CASE PassEnds(k)
        BY <1>4, <2>1, <2>3 DEF Bit, PassEnds
    <2>4. CASE PassAdds(k)
        BY <1>4, <2>4 DEF Bit, PassAdds
    <2> QED BY <1>3, <2>2, <2>3, <2>4
<1>6. Bit(CacheLag(k)') + Bit(VersionLag(k)') <= Bit(CacheLag(k)) + Bit(VersionLag(k))
    BY <1>3 DEF Bit
<1> QED BY <1>2, <1>4, <1>5, <1>6 DEF Bound, Bit

LEMMA ForgetsBound ==
    ASSUME TypeOK, SchemasInv, AgesInv, [Next]_vars, Pair, NEW k \in Names, Forgets
    PROVE  Bound(k)' <= Bound(k)
<1>1. \A m \in Names : SettledAs(m)
    BY ForgetsSettles DEF SchemasInv
<1>2. Bit(OtherSaving(k)') + Bit(OtherUnsettled(k)') <= Bit(OtherSaving(k)) + Bit(OtherUnsettled(k))
    <2>1. Bit(OtherSaving(k)') + Bit(OtherUnsettled(k)') <= Bit(OtherSaving(k)) + Bit(OtherUnsettled(k))
        BY <1>1, OthersSettle
    <2> QED BY <2>1 DEF Bit
<1>3. /\ UNCHANGED <<crs, cache>> /\ ~Registering(k) /\ ~Registering(k)'
      /\ registry'[k].versions \in {registry[k].versions, <<>>}
    BY LagFields DEF Forgets, Stops, Empties
<1>4. Size(k) \in Nat /\ Size(k)' \in Nat
    BY LengthsNext
<1>5. /\ Size(k)' + Bit(Awaits(k)') <= Size(k) + Bit(Awaits(k))
      /\ PassLag(k)' <=> PassLag(k)
      /\ ResolvedLag(k)' <=> ResolvedLag(k)
    BY <1>3, StillCounts
<1>6. (CacheLag(k)' <=> CacheLag(k)) /\ (VersionLag(k)' <=> VersionLag(k))
    BY <1>3, LagsStand
<1>7. Size(k)' + Bit(Awaits(k)') + Bit(PassLag(k)') + Bit(ResolvedLag(k)')
      <= Size(k) + Bit(Awaits(k)) + Bit(PassLag(k)) + Bit(ResolvedLag(k))
    BY <1>4, <1>5 DEF Bit
<1>8. Bit(CacheLag(k)') + Bit(VersionLag(k)') <= Bit(CacheLag(k)) + Bit(VersionLag(k))
    BY <1>6 DEF Bit
<1> QED BY <1>2, <1>4, <1>7, <1>8 DEF Bound, Bit

LEMMA HearsBound ==
    ASSUME TypeOK, SchemasInv, [Next]_vars, Pair, NEW k \in Names, Hears
    PROVE  Bound(k)' <= Bound(k)
<1>1. \A m \in Names : SettledAs(m) \/ SettlesFor(m)
    BY HearsSettles DEF SchemasInv
<1>2. Bit(OtherSaving(k)') + Bit(OtherUnsettled(k)') <= Bit(OtherSaving(k)) + Bit(OtherUnsettled(k))
    BY <1>1, OthersSettle
<1>3. /\ registry'[k].versions = registry[k].versions
      /\ ~CacheLag(k)' /\ ~VersionLag(k)'
      /\ Bit(Awaits(k)') + Bit(PassLag(k)') + Bit(ResolvedLag(k)')
         <= Bit(Awaits(k)) + Bit(PassLag(k)) + Bit(ResolvedLag(k)) + Bit(CacheLag(k)) + Bit(VersionLag(k))
    BY HearsCounts
<1>4. Size(k) \in Nat /\ Size(k)' = Size(k)
    BY <1>3, Lengths DEF Size
<1> QED BY <1>2, <1>3, <1>4 DEF Bound, Bit

\* A pass that has registered is saved, or ends.
LEMMA EndsStill ==
    ASSUME TypeOK, [Next]_vars, NEW k \in Names, pc \in {"persist", "annotate", "unfinalize"},
           pc' \in {"idle", "annotate"}, UNCHANGED <<cache, registry>>
    PROVE  /\ ~Registering(k) /\ ~Registering(k)'
           /\ Size(k)' \in Nat
           /\ Size(k)' + Bit(Awaits(k)') + Bit(PassLag(k)') + Bit(ResolvedLag(k)')
              <= Size(k) + Bit(Awaits(k)) + Bit(PassLag(k)) + Bit(ResolvedLag(k))
<1>1. ~Registering(k) /\ ~Registering(k)' /\ registry'[k].versions \in {registry[k].versions, <<>>}
    BY LagFields
<1>2. /\ Size(k)' + Bit(Awaits(k)') <= Size(k) + Bit(Awaits(k))
      /\ PassLag(k)' <=> PassLag(k)
      /\ ResolvedLag(k)' <=> ResolvedLag(k)
    BY <1>1, StillCounts
<1>3. Size(k) \in Nat /\ Size(k)' \in Nat
    BY LengthsNext
<1> QED BY <1>1, <1>2, <1>3 DEF Bit

LEMMA SavedBound ==
    ASSUME TypeOK, SchemasInv, AgesInv, Acyclic(cache), [Next]_vars, Pair, NEW k \in Names, Saved
    PROVE  Bound(k)' <= Bound(k)
<1>1. /\ pc \in {"persist", "annotate"} /\ pc' \in {"idle", "annotate"} /\ me \in Names
      /\ UNCHANGED <<cache, registry>> /\ IsCurrent(obj) /\ pc # "idle"
    BY SavedObject DEF Saved, SchemasInv
<1>2. /\ ~Registering(k) /\ ~Registering(k)'
      /\ Size(k)' \in Nat
      /\ Size(k)' + Bit(Awaits(k)') + Bit(PassLag(k)') + Bit(ResolvedLag(k)')
         <= Size(k) + Bit(Awaits(k)) + Bit(PassLag(k)) + Bit(ResolvedLag(k))
    BY <1>1, EndsStill
<1>3. /\ obj.spec = crs[me].spec /\ obj.deleting = crs[me].deleting
      /\ Exists(crs[me]) /\ obj.uid = crs[me].uid
      /\ pc = "persist" => cache[me] = crs[me] /\ Saves(me)
      /\ pc = "annotate" => obj.version = crs[me].version /\ ~Saves(me)
    BY <1>1, CurrentCopy, CurrentFacts, AgesFields DEF SchemasInv, SameObject, VersionKept, Saves
<1>4. /\ crs'[me].spec = crs[me].spec /\ crs'[me].deleting = crs[me].deleting
      /\ Exists(crs'[me]) /\ crs'[me].version = obj.version
      /\ \A m \in Names : m # me => crs'[m] = crs[m]
    BY <1>3, SavedObject DEF Exists, SchemasInv
<1>5. CacheLag(k)' <=> CacheLag(k)
    <2>1. Can(crs'[k]) = Can(crs[k]) /\ crs'[k].spec = crs[k].spec
        BY <1>3, <1>4 DEF Can
    <2> QED BY <1>1, <1>2, <2>1, LagsStand
<1>6. \A m \in Names : ~Saving(m)' /\ (Unsettled(m)' => Unsettled(m))
    <2> TAKE m \in Names
    <2>1. ~Saves(m)'
        BY <1>1, SavesFields
    <2>2. CASE m # me
        <3>1. ~Saves(m)
            BY <2>2 DEF Saves
        <3> QED BY <1>1, <1>4, <2>1, <2>2, <3>1, SettledFields
    <2>3. CASE m = me
        BY <1>1, <1>3, <1>4, <2>1, <2>3, SettledFields DEF Plain
    <2> QED BY <2>2, <2>3
<1>7. VersionLag(k)' => VersionLag(k) \/ OtherSaving(k)
    <2> SUFFICES ASSUME VersionLag(k)', ~VersionLag(k) PROVE OtherSaving(k)
        OBVIOUS
    <2>1. PICK m \in Names : cache[m].version # crs'[m].version /\ Can(cache[k]) /\ m \in cache[k].spec.refs
        BY <1>1, <1>2, LagFields
    <2>2. cache[m].version = crs[m].version
        BY <2>1, LagFields
    <2>3. m = me /\ obj.version # crs[me].version /\ pc = "persist"
        BY <1>1, <1>3, <1>4, <2>1, <2>2
    <2>4. m # k
        BY <2>1 DEF Acyclic
    <2>5. obj.spec.refs = {}
        <3>1. cache[m].spec.refs \subseteq Names
            BY BusyFacts, ObjectTypes
        <3>2. k \notin cache[m].spec.refs /\ m \notin cache[m].spec.refs
            BY <2>1 DEF Acyclic
        <3>3. \A o \in Names : o = k \/ o = m
            BY <2>4, OneOther
        <3> QED BY <1>3, <2>3, <3>1, <3>2, <3>3
    <2>6. Saving(m)
        BY <1>3, <2>3, <2>5, SettledFields
    <2> QED BY <2>4, <2>6, OtherFields
<1>8. ~OtherSaving(k)' /\ (OtherUnsettled(k)' => OtherUnsettled(k))
    BY <1>6, OtherFields
<1>9. Bit(CacheLag(k)') + Bit(VersionLag(k)') + Bit(OtherSaving(k)') + Bit(OtherUnsettled(k)')
      <= Bit(CacheLag(k)) + Bit(VersionLag(k)) + Bit(OtherSaving(k)) + Bit(OtherUnsettled(k))
    BY <1>5, <1>7, <1>8 DEF Bit
<1>10. Size(k) \in Nat
    BY Lengths
<1> QED BY <1>2, <1>9, <1>10 DEF Bound, Bit

LEMMA LetGoBound ==
    ASSUME TypeOK, SchemasInv, Acyclic(cache), [Next]_vars, Pair, NEW k \in Names, LetGo
    PROVE  Bound(k)' <= Bound(k)
<1>1. /\ pc = "unfinalize" /\ Stops /\ pc' = "idle" /\ UNCHANGED <<cache, registry>> /\ me \in Names
    BY PassFacts DEF LetGo, Stops
<1>2. /\ ~Registering(k) /\ ~Registering(k)'
      /\ Size(k)' \in Nat
      /\ Size(k)' + Bit(Awaits(k)') + Bit(PassLag(k)') + Bit(ResolvedLag(k)')
         <= Size(k) + Bit(Awaits(k)) + Bit(PassLag(k)) + Bit(ResolvedLag(k))
    BY <1>1, EndsStill
<1>3. /\ ~Exists(crs'[me]) /\ \A m \in Names : m # me => crs'[m] = crs[m]
    BY <1>1, NoObjectFields, WritesOne DEF LetGo
<1>4. Exists(crs[me]) /\ crs[me].deleting
    BY <1>1, NoObjectFields, CacheFields DEF LetGo, SchemasInv, Cached
<1>5. CacheLag(k)' <=> CacheLag(k)
    BY <1>1, <1>3, <1>4, LagFields DEF Can
<1>6. \A m \in Names : /\ ~Saving(m)' /\ ~Saving(m)
                       /\ m # me => (Unsettled(m)' <=> Unsettled(m))
                       /\ m = me => Unsettled(m) /\ ~Unsettled(m)'
    <2> TAKE m \in Names
    <2>1. ~Saves(m) /\ ~Saves(m)'
        BY <1>1, SavesFields DEF Stops
    <2> QED BY <1>1, <1>3, <1>4, <2>1, SettledFields DEF Plain
<1>7. k = me => (VersionLag(k)' => VersionLag(k))
    <2> SUFFICES ASSUME k = me, VersionLag(k)' PROVE VersionLag(k)
        OBVIOUS
    <2>1. PICK m \in Names : cache[m].version # crs'[m].version /\ Can(cache[k]) /\ m \in cache[k].spec.refs
        BY <1>1, <1>2, LagFields
    <2>2. m # k
        BY <2>1 DEF Acyclic
    <2> QED BY <1>3, <2>1, <2>2, LagFields
<1>8. k = me => (OtherUnsettled(k)' <=> OtherUnsettled(k))
    BY <1>6, OtherFields
<1>9. k # me => OtherUnsettled(k) /\ ~OtherUnsettled(k)'
    BY <1>1, <1>6, OtherFields, OneOther
<1>10. ~OtherSaving(k) /\ ~OtherSaving(k)'
    BY <1>6, OtherFields
<1>11. Bit(CacheLag(k)') + Bit(VersionLag(k)') + Bit(OtherSaving(k)') + Bit(OtherUnsettled(k)')
       <= Bit(CacheLag(k)) + Bit(VersionLag(k)) + Bit(OtherSaving(k)) + Bit(OtherUnsettled(k))
    BY <1>5, <1>7, <1>8, <1>9, <1>10 DEF Bit
<1>12. Size(k) \in Nat
    BY Lengths
<1> QED BY <1>2, <1>11, <1>12 DEF Bound, Bit

\* While users or other clients act, the worker stands.
LEMMA ActStill ==
    ASSUME TypeOK, [Next]_vars, NEW k \in Names, UNCHANGED <<cache, worker>>,
           registry'[k].versions \in {registry[k].versions, <<>>}
    PROVE  /\ Size(k)' \in Nat
           /\ Size(k)' + Bit(Awaits(k)') + Bit(PassLag(k)') + Bit(ResolvedLag(k)')
              <= Size(k) + Bit(Awaits(k)) + Bit(PassLag(k)) + Bit(ResolvedLag(k))
<1>1. /\ Size(k)' + Bit(Awaits(k)') <= Size(k) + Bit(Awaits(k))
      /\ PassLag(k)' <=> PassLag(k)
      /\ ResolvedLag(k)' <=> ResolvedLag(k)
    BY StillCounts
<1>2. Size(k) \in Nat /\ Size(k)' \in Nat
    BY LengthsNext
<1> QED BY <1>1, <1>2 DEF Bit

LEMMA MeddledBound ==
    ASSUME TypeOK, [Next]_vars, NEW k \in Names, Meddled
    PROVE  Bound(k)' <= Bound(k) + 1
<1>1. /\ UNCHANGED <<crs, cache, worker>>
      /\ registry'[k].versions \in {registry[k].versions, <<>>}
    BY DEF Meddled, UserActs, VersionsStand, Empties
<1>2. /\ Size(k)' \in Nat
      /\ Size(k)' + Bit(Awaits(k)') + Bit(PassLag(k)') + Bit(ResolvedLag(k)')
         <= Size(k) + Bit(Awaits(k)) + Bit(PassLag(k)) + Bit(ResolvedLag(k))
    BY <1>1, ActStill
<1>3. (CacheLag(k)' <=> CacheLag(k)) /\ (VersionLag(k)' <=> VersionLag(k))
    BY <1>1, LagsStand
<1>4. OtherSaving(k)' <=> OtherSaving(k)
    <2>1. UNCHANGED <<pc, me, obj>>
        BY <1>1 DEF worker
    <2>2. \A m \in Names : Saving(m)' <=> Saving(m)
        <3> TAKE m \in Names
        <3>1. Saves(m)' <=> Saves(m)
            BY <1>1, <2>1, SavesFields DEF IsCurrent
        <3> QED BY <1>1, <2>1, <3>1, SettledFields
    <2> QED BY <2>2, OtherFields
<1>5. Bit(CacheLag(k)') + Bit(VersionLag(k)') + Bit(OtherSaving(k)')
      <= Bit(CacheLag(k)) + Bit(VersionLag(k)) + Bit(OtherSaving(k))
    BY <1>3, <1>4 DEF Bit
<1>6. Size(k) \in Nat
    BY Lengths
<1> QED BY <1>2, <1>5, <1>6 DEF Bound, Bit

LEMMA WrittenBound ==
    ASSUME TypeOK, SchemasInv, [Next]_vars, Pair, NEW k \in Names, NEW n \in Names, Written(n)
    PROVE  Bound(k)' <= Bound(k) + 1
<1>1. UNCHANGED <<cache, worker, registry>> /\ registry'[k].versions \in {registry[k].versions, <<>>}
    BY DEF Written, UserActs
<1>2. /\ Size(k)' \in Nat
      /\ Size(k)' + Bit(Awaits(k)') + Bit(PassLag(k)') + Bit(ResolvedLag(k)')
         <= Size(k) + Bit(Awaits(k)) + Bit(PassLag(k)) + Bit(ResolvedLag(k))
    BY <1>1, ActStill
<1>3. PICK d : IsObject(d) /\ Writes(n, d) /\ UserWrites(n, d)
    BY DEF Written
<1>4. /\ crs'[n] = d /\ d.version = crs[n].version /\ d # crs[n]
      /\ \A m \in Names : m # n => crs'[m] = crs[m]
    BY <1>3, WritesOne, UserWritten DEF SchemasInv
<1>5. VersionLag(k)' <=> VersionLag(k)
    BY <1>1, <1>4, LagsStand
<1>6. k # n => (CacheLag(k)' <=> CacheLag(k))
    <2>1. k # n => Can(crs'[k]) = Can(crs[k]) /\ crs'[k].spec = crs[k].spec
        BY <1>4
    <2> QED BY <1>1, <2>1, LagsStand
<1>7. UNCHANGED <<pc, me, obj>>
    BY <1>1 DEF worker
<1>8. \A m \in Names : m # n => (Saving(m)' <=> Saving(m)) /\ (Unsettled(m)' <=> Unsettled(m))
    <2> TAKE m \in Names
    <2> HAVE m # n
    <2>1. Saves(m)' <=> Saves(m)
        BY <1>4, <1>7, SavesFields DEF IsCurrent
    <2> QED BY <1>1, <1>4, <1>7, <2>1, SettledFields
<1>9. ~Saving(n)'
    <2>1. ASSUME Saves(n)' PROVE FALSE
        <3>1. me = n /\ pc = "persist" /\ pc # "idle"
            BY <1>7, <2>1, SavesFields
        <3>2. IsCurrent(obj)'
            BY <1>7, <2>1, <3>1, SavesFields DEF IsCurrent, Exists
        <3>3. crs'[n] = crs[n]
            BY <1>1, <3>1, <3>2, StandStill DEF SchemasInv
        <3> QED BY <1>4, <3>3
    <2> QED BY <2>1, SettledFields
<1>10. k = n => (OtherSaving(k)' <=> OtherSaving(k)) /\ (OtherUnsettled(k)' <=> OtherUnsettled(k))
    BY <1>8, OtherFields
<1>11. k # n => ~OtherSaving(k)'
    BY <1>9, OtherFields, OneOther
<1>12. Bit(CacheLag(k)') + Bit(VersionLag(k)') + Bit(OtherSaving(k)') + Bit(OtherUnsettled(k)')
       <= Bit(CacheLag(k)) + Bit(VersionLag(k)) + Bit(OtherSaving(k)) + Bit(OtherUnsettled(k)) + 1
    BY <1>5, <1>6, <1>10, <1>11 DEF Bit
<1>13. Size(k) \in Nat
    BY Lengths
<1> QED BY <1>2, <1>12, <1>13 DEF Bound, Bit

LEMMA BoundType ==
    ASSUME TypeOK, NEW k \in Names
    PROVE  Bound(k) \in Nat /\ Size(k) <= Bound(k)
<1>1. Size(k) \in Nat
    BY Lengths
<1> QED BY <1>1 DEF Bound, Bit

LEMMA BoundStep ==
    ASSUME TypeOK, SchemasInv, VersionsInv, DistinctInv', [Next]_vars
    PROVE  BoundInv'
<1> SUFFICES ASSUME ~cyclic'
             PROVE  /\ Acyclic(crs') /\ Acyclic(cache')
                    /\ Pair => \A k \in Names : Bound(k)' <= edits'
    BY DEF BoundInv, Acyclic, Pair
<1>1. ~cyclic /\ Acyclic(crs') /\ Acyclic(cache')
    BY AcyclicStep DEF SchemasInv, VersionsInv, BoundInv
<1>2. ASSUME Pair, NEW k \in Names PROVE Bound(k)' <= edits'
    <2>1. Bound(k) <= edits /\ Bound(k) \in Nat /\ edits \in Nat /\ AgesInv /\ Acyclic(cache)
        BY <1>1, <1>2, BoundType, BusyFacts DEF VersionsInv, BoundInv
    <2>2. Bound(k)' \in Nat
        <3>1. Size(k)' \in Nat
            BY LengthsNext
        <3> QED BY <3>1 DEF Bound, Bit
    <2>3. CASE PassSteps \/ Forgets \/ Saved \/ LetGo \/ Hears
        <3>1. Bound(k)' <= Bound(k)
            BY <1>2, <2>1, <2>3, PassBound, ForgetsBound, SavedBound, LetGoBound, HearsBound
        <3>2. edits' = edits
            BY <2>3 DEF PassSteps, Forgets, Saved, LetGo, Hears
        <3> QED BY <2>1, <2>2, <3>1, <3>2
    <2>4. CASE Meddled \/ \E n \in Names : Written(n)
        <3>1. Bound(k)' <= Bound(k) + 1
            BY <1>2, <2>4, MeddledBound, WrittenBound
        <3>2. edits' = edits + 1
            BY <2>4 DEF Meddled, Written, UserActs
        <3> QED BY <2>1, <2>2, <3>1, <3>2
    <2> QED BY <2>3, <2>4, VersionMoves
<1> QED BY <1>1, <1>2

LEMMA InitVersions == Init => VersionsInv
<1> SUFFICES ASSUME Init PROVE VersionsInv
    OBVIOUS
<1>1. \A n \in Names : crs[n] = NoObject /\ cache[n] = NoObject /\ registry[n].versions = <<>>
    BY DEF Init, NoSubject
<1>2. pc = "idle" /\ edits = 0 /\ me = NoOne
    BY DEF Init
<1>3. AgesInv /\ DistinctInv
    BY <1>1, <1>2 DEF AgesInv, DistinctInv
<1>4. Acyclic(crs) /\ Acyclic(cache)
    <2>1. NoObject.spec.refs = {}
        BY DEF NoObject, Fresh
    <2> QED BY <1>1, <2>1 DEF Acyclic
<1>5. ASSUME NEW k \in Names PROVE Bound(k) <= edits
    <2>1. ~Can(cache[k]) /\ ~Can(crs[k]) /\ ~Registering(k)
        BY <1>1, <1>2, NoObjectFields DEF Can, Registering
    <2>2. ~Awaits(k) /\ ~PassLag(k) /\ ~ResolvedLag(k) /\ ~CacheLag(k) /\ ~VersionLag(k)
        BY <2>1, AwaitsFields, LagFields
    <2>3. \A m \in Names : ~Saving(m) /\ ~Unsettled(m)
        BY <1>1, <1>2, NoObjectFields, SettledFields, SavesFields
    <2>4. ~OtherSaving(k) /\ ~OtherUnsettled(k)
        BY <2>3, OtherFields
    <2>5. Size(k) = 0
        BY <1>1 DEF Size
    <2> QED BY <1>2, <2>2, <2>4, <2>5 DEF Bound, Bit
<1> QED BY <1>3, <1>4, <1>5 DEF VersionsInv, BoundInv

----------------------------------------------------------------------------
(* Theorems                                                                *)

LEMMA InitSchemas == Init => SchemasInv
<1> SUFFICES ASSUME Init PROVE SchemasInv
    OBVIOUS
<1>1. \A n \in Names : crs[n] = NoObject /\ cache[n] = NoObject
    BY DEF Init
<1>2. pc = "idle" /\ edits = 0
    BY DEF Init
<1>3. CopyInv /\ ResolvedInv
    BY <1>2 DEF CopyInv, ResolvedInv
<1>4. CacheInv
    BY <1>1, <1>2, NoObjectFields DEF CacheInv, Earlier
<1>5. ProcessedInv
    BY <1>1, <1>2, NoObjectFields DEF ProcessedInv, ClaimsRight
<1> QED BY <1>3, <1>4, <1>5 DEF SchemasInv

\* The copies of an object, and what it and the worker say is registered, agree
\* with the object and the registry in every reachable state.
THEOREM SchemasInvCorrect == Spec => [](TypeOK /\ SchemasInv)
<1>1. TypeOK /\ SchemasInv /\ [Next]_vars => TypeOK' /\ SchemasInv'
    <2> SUFFICES ASSUME TypeOK, SchemasInv, [Next]_vars PROVE TypeOK' /\ SchemasInv'
        OBVIOUS
    <2>1. TypeOK'
        BY TypeStep
    <2>2. CacheInv' /\ CopyInv' /\ ResolvedInv' /\ ProcessedInv'
        BY CacheStep, CopyStep, ResolvedStep, ProcessedStep DEF SchemasInv
    <2> QED BY <2>1, <2>2 DEF SchemasInv
<1> QED BY InitType, InitSchemas, <1>1, PTL DEF Spec

\* Whatever answers, writes and passes were lost, a KafkaSchema that is ready
\* names a version of its subject that has the body it describes and versions
\* of exactly the subjects it references, unless others have changed the
\* subject.
THEOREM ReadyMeansRegistered == Spec => []ReadyIsRegistered
<1>1. SchemasInv => ReadyIsRegistered
    BY DEF SchemasInv, ProcessedInv, ClaimsRight, ReadyIsRegistered, Live, IsReadyToUse,
           hasLatestGeneration
<1> QED BY SchemasInvCorrect, <1>1, PTL

\* In every reachable state no version is registered twice, a status names no
\* version younger than the cache it was read from, and, of two objects that have
\* formed no cycle, each step by which a subject may yet get a version has been
\* paid for by an edit.
THEOREM VersionsInvCorrect == Spec => [](TypeOK /\ SchemasInv /\ VersionsInv)
<1>1. TypeOK /\ SchemasInv /\ VersionsInv /\ TypeOK' /\ SchemasInv' /\ [Next]_vars => VersionsInv'
    <2> SUFFICES ASSUME TypeOK, SchemasInv, VersionsInv, [Next]_vars PROVE VersionsInv'
        OBVIOUS
    <2>1. AgesInv' /\ DistinctInv'
        BY AgesStep, DistinctStep DEF SchemasInv, VersionsInv
    <2>2. BoundInv'
        BY <2>1, BoundStep
    <2> QED BY <2>1, <2>2 DEF VersionsInv
<1> QED BY SchemasInvCorrect, InitVersions, <1>1, PTL DEF Spec

\* A registered schema does not run away: of two objects that have formed no
\* cycle, no subject ever gets more versions than there were edits, whatever
\* answers, writes and passes are lost, and however old the cache is that the
\* references are resolved in.
THEOREM NeverRunsAway == Spec => []NoRunaway
<1>1. TypeOK /\ VersionsInv => NoRunaway
    <2> SUFFICES ASSUME TypeOK, VersionsInv, Pair, ~cyclic, NEW k \in Names
                 PROVE  Len(registry[k].versions) <= edits
        BY DEF NoRunaway
    <2>1. Bound(k) <= edits
        BY DEF VersionsInv, BoundInv
    <2>2. Size(k) \in Nat /\ edits \in Nat
        BY Lengths, BusyFacts
    <2> QED BY <2>1, <2>2, BoundType DEF Size
<1> QED BY VersionsInvCorrect, <1>1, PTL
=============================================================================

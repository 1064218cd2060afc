---------------------- MODULE ClickhouseGrants_proofs ----------------------
(***************************************************************************)
(* Theorems about ClickhouseGrants, for any number of objects.             *)
(***************************************************************************)
EXTENDS GrantsInvariant, TLAPS

PCs == {"idle", "observe", "revoke", "grant", "status", "annotate", "delete", "unfinalize"}

----------------------------------------------------------------------------
(* Writes                                                                  *)

LEMMA FreshFields ==
    ASSUME NEW u \in Nat, NEW list \in SUBSET Privileges
    PROVE  /\ Fresh(u, list) \in Records
           /\ Fresh(u, list).uid = u /\ Fresh(u, list).rv = 1 /\ Fresh(u, list).gen = 1
           /\ Fresh(u, list).spec = list /\ ~Fresh(u, list).deleting
           /\ Fresh(u, list).state = {} /\ Fresh(u, list).processed = 0
BY DEF Fresh, Records

LEMMA NoObjectFields ==
    /\ NoObject \in Records /\ ~Exists(NoObject) /\ NoObject.uid = 0
    /\ NoObject.spec = {} /\ NoObject.state = {} /\ NoObject.gen = 1 /\ NoObject.processed = 0
    /\ ~NoObject.deleting
BY FreshFields DEF NoObject, Exists

LEMMA RecordTypes ==
    ASSUME NEW o \in Records
    PROVE  /\ o.uid \in Nat /\ o.rv \in Nat /\ o.gen \in Nat /\ o.processed \in Nat
           /\ o.spec \in SUBSET Privileges /\ o.state \in SUBSET Privileges /\ o.deleting \in BOOLEAN
BY DEF Records

\* The next version of an object.
Newer(d, c) == d \in Records /\ d.uid = c.uid /\ d.rv = c.rv + 1

LEMMA WriteFields ==
    ASSUME NEW o \in Records
    PROVE  /\ Newer(Write(o), o)
           /\ Write(o).spec = o.spec /\ Write(o).gen = o.gen /\ Write(o).deleting = o.deleting
           /\ Write(o).state = o.state /\ Write(o).processed = o.processed
BY DEF Write, Newer, Records

\* The six ways in which an object is written, in terms of what it becomes.
SavesStatus(c, d) ==
    /\ Newer(d, c) /\ d.gen = c.gen /\ d.spec = c.spec /\ d.deleting = c.deleting
    /\ d.processed = c.processed /\ d.state = obj.state
Marks(c, d) ==
    /\ Newer(d, c) /\ d.gen = c.gen /\ d.spec = c.spec /\ d.deleting = c.deleting
    /\ d.state = c.state /\ d.processed = obj.processed
Revises(c, d) ==
    /\ Newer(d, c) /\ d.gen = c.gen + 1 /\ d.state = c.state /\ d.processed = c.processed
    /\ Exists(c) /\ ~c.deleting

LEMMA StatusFields ==
    ASSUME NEW c \in Records, NEW l \in SUBSET Privileges, NEW n \in Nat
    PROVE  LET d == Write([c EXCEPT !.state = l])
               e == Write([c EXCEPT !.processed = n])
           IN  /\ Newer(d, c) /\ d.gen = c.gen /\ d.spec = c.spec /\ d.deleting = c.deleting
               /\ d.processed = c.processed /\ d.state = l
               /\ Newer(e, c) /\ e.gen = c.gen /\ e.spec = c.spec /\ e.deleting = c.deleting
               /\ e.state = c.state /\ e.processed = n
<1> DEFINE d == [c EXCEPT !.state = l]
           e == [c EXCEPT !.processed = n]
<1>1. /\ d \in Records /\ d.uid = c.uid /\ d.rv = c.rv /\ d.gen = c.gen /\ d.spec = c.spec
      /\ d.deleting = c.deleting /\ d.processed = c.processed /\ d.state = l
    BY DEF Records
<1>2. /\ e \in Records /\ e.uid = c.uid /\ e.rv = c.rv /\ e.gen = c.gen /\ e.spec = c.spec
      /\ e.deleting = c.deleting /\ e.processed = n /\ e.state = c.state
    BY DEF Records
<1>3. Write(d).rv = d.rv + 1 /\ Write(e).rv = e.rv + 1
    BY <1>1, <1>2, WriteFields DEF Newer
<1> HIDE DEF d, e
<1>4. /\ Newer(Write(d), c) /\ Write(d).gen = c.gen /\ Write(d).spec = c.spec
      /\ Write(d).deleting = c.deleting /\ Write(d).processed = c.processed /\ Write(d).state = l
    BY <1>1, WriteFields DEF Newer
<1>5. /\ Newer(Write(e), c) /\ Write(e).gen = c.gen /\ Write(e).spec = c.spec
      /\ Write(e).deleting = c.deleting /\ Write(e).processed = n /\ Write(e).state = c.state
    BY <1>2, WriteFields DEF Newer
<1> QED BY <1>4, <1>5 DEF d, e

LEMMA RevisionFields ==
    ASSUME NEW c \in Records, NEW o \in Records, Exists(c), ~c.deleting,
           o.uid = c.uid, o.rv = c.rv, o.gen = c.gen, o.state = c.state, o.processed = c.processed
    PROVE  LET d == Regenerate(o)
           IN  Revises(c, d) /\ d.spec = o.spec /\ d.deleting = o.deleting
<1> DEFINE d == Regenerate(o)
<1>1. /\ d.uid = o.uid /\ d.rv = o.rv + 1 /\ d.gen = o.gen + 1 /\ d.spec = o.spec
      /\ d.deleting = o.deleting /\ d.processed = o.processed /\ d.state = o.state
    BY DEF Regenerate, Records
<1>2. d \in Records
    <2>1. \A x \in Records : [x EXCEPT !.rv = @ + 1] \in Records
        BY DEF Records
    <2>2. \A x \in Records : [x EXCEPT !.gen = @ + 1] \in Records
        BY DEF Records
    <2> QED BY <2>1, <2>2 DEF Regenerate
<1> HIDE DEF d
<1>3. Revises(c, d) /\ d.spec = o.spec /\ d.deleting = o.deleting
    BY <1>1, <1>2 DEF Revises, Newer
<1> QED BY <1>3 DEF d

LEMMA SpecRevises ==
    ASSUME NEW c \in Records, NEW list \in SUBSET Privileges, Exists(c), ~c.deleting
    PROVE  LET d == Regenerate([c EXCEPT !.spec = list])
               e == Regenerate([c EXCEPT !.deleting = TRUE])
           IN  /\ Revises(c, d) /\ d.spec = list /\ ~d.deleting
               /\ Revises(c, e) /\ e.spec = c.spec /\ e.deleting
<1> DEFINE d == [c EXCEPT !.spec = list]
           e == [c EXCEPT !.deleting = TRUE]
<1>1. /\ d \in Records /\ d.uid = c.uid /\ d.rv = c.rv /\ d.gen = c.gen /\ d.spec = list
      /\ ~d.deleting /\ d.processed = c.processed /\ d.state = c.state
    BY DEF Records
<1>2. /\ e \in Records /\ e.uid = c.uid /\ e.rv = c.rv /\ e.gen = c.gen /\ e.spec = c.spec
      /\ e.deleting /\ e.processed = c.processed /\ e.state = c.state
    BY DEF Records
<1> HIDE DEF d, e
<1>3. Revises(c, Regenerate(d)) /\ Regenerate(d).spec = list /\ ~Regenerate(d).deleting
    BY <1>1, RevisionFields
<1>4. Revises(c, Regenerate(e)) /\ Regenerate(e).spec = c.spec /\ Regenerate(e).deleting
    BY <1>2, RevisionFields
<1> QED BY <1>3, <1>4 DEF d, e

\* One object changes.
Writes(g, d) == crs' = [crs EXCEPT ![g] = d]

LEMMA WritesOne ==
    ASSUME TypeOK, NEW g \in Objects, NEW d \in Records, Writes(g, d)
    PROVE  /\ crs' \in [Objects -> Records] /\ crs'[g] = d
           /\ \A h \in Objects : h # g => crs'[h] = crs[h]
BY DEF Writes, TypeOK

----------------------------------------------------------------------------
(* Moves                                                                   *)

Typed == TypeOK /\ WorkerInv

\* The worker stops, takes an object, or goes on with its copy.
Stops    == pc' = "idle" /\ me' = NoOne /\ obj' = NoObject
Takes(g) == /\ Exists(cache[g]) /\ me' = g /\ obj' = cache[g]
            /\ pc' = IF cache[g].deleting THEN "delete" ELSE "observe"
Goes(p)  == pc' = p /\ UNCHANGED <<me, obj>>

\* Its copy once all is granted, and once the status is saved.
GoesApplied ==
    /\ pc' = "status" /\ UNCHANGED me /\ obj' \in Records
    /\ obj'.uid = obj.uid /\ obj'.rv = obj.rv /\ obj'.gen = obj.gen /\ obj'.spec = obj.spec
    /\ obj'.deleting = obj.deleting /\ obj'.state = obj.spec /\ obj'.processed = obj.gen
GoesSaved(d) ==
    /\ pc' = "annotate" /\ UNCHANGED me /\ obj' \in Records
    /\ obj'.uid = obj.uid /\ obj'.rv = d.rv /\ obj'.gen = obj.gen /\ obj'.spec = obj.spec
    /\ obj'.deleting = obj.deleting /\ obj'.state = obj.state /\ obj'.processed = obj.processed

LEMMA StopsFacts ==
    ASSUME NEW q, Return(q)
    PROVE  Stops
BY DEF Return, Stops

LEMMA BusyFacts ==
    ASSUME Typed
    PROVE  /\ crs \in [Objects -> Records] /\ cache \in [Objects -> Records] /\ obj \in Records
           /\ edits \in Nat
           /\ pc # "idle" => me \in Objects /\ crs[me] \in Records /\ cache[me] \in Records
                             /\ Exists(obj)
           /\ pc = "idle" => me = NoOne /\ obj = NoObject
BY DEF Typed, TypeOK, WorkerInv

LEMMA BeginMoves ==
    ASSUME NEW g \in Objects, Begin(g)
    PROVE  /\ pc = "idle"
           /\ UNCHANGED <<crs, cache, held, there, edits, history>>
           /\ UNCHANGED worker \/ Takes(g)
BY DEF Begin, Takes

LEMMA ObserveMoves ==
    ASSUME Observe
    PROVE  /\ pc = "observe"
           /\ UNCHANGED <<crs, cache, held, there, edits, history>>
           /\ Stops \/ (~hasLatestGeneration(obj) /\ Goes("revoke"))
BY StopsFacts DEF Observe, Goto, Goes

\* What a series of statements has done.
Revoked(done) ==
    /\ held' = held \ done /\ unrecorded' = unrecorded \ done
    /\ replayed' = IF IsCurrent(obj) THEN replayed ELSE replayed \cup done
Granted(done) ==
    /\ held' = held \cup done /\ unrecorded' = unrecorded \cup done
    /\ replayed' = replayed \ done

LEMMA RevokeAll ==
    ASSUME Typed, NEW list, Revoke(list)
    PROVE  \E done \in SUBSET list : Revoked(done) /\ (faults' = faults => done = list)
<1>1. PICK done \in SUBSET list :
          /\ held' = held \ done
          /\ unrecorded' = unrecorded \ done
          /\ replayed' = (IF IsCurrent(obj) THEN replayed ELSE replayed \cup done)
          /\ done # list => Fault
    BY DEF Revoke
<1>2. Fault => faults' # faults
    BY DEF Fault, Typed, TypeOK
<1> QED BY <1>1, <1>2 DEF Revoked

LEMMA RevokeMoves ==
    ASSUME Typed, RevokeState
    PROVE  /\ pc = "revoke"
           /\ UNCHANGED <<crs, cache, there, edits, contested>>
           /\ \E done \in SUBSET obj.state :
                 Revoked(done) /\ (Stops \/ (done = obj.state /\ Goes("grant")))
<1>1. PICK done \in SUBSET obj.state : Revoked(done) /\ (faults' = faults => done = obj.state)
    BY RevokeAll DEF RevokeState
<1>2. (faults' = faults /\ Goes("grant")) \/ Stops
    BY StopsFacts DEF RevokeState, Goto, Goes
<1> QED BY <1>1, <1>2 DEF RevokeState

LEMMA DeleteMoves ==
    ASSUME Typed, Delete
    PROVE  /\ pc = "delete"
           /\ UNCHANGED <<crs, cache, there, edits, contested>>
           /\ \E done \in SUBSET obj.spec :
                 Revoked(done) /\ (Stops \/ (done = obj.spec /\ Goes("unfinalize")))
<1>1. PICK done \in SUBSET obj.spec : Revoked(done) /\ (faults' = faults => done = obj.spec)
    BY RevokeAll DEF Delete
<1>2. (faults' = faults /\ Goes("unfinalize")) \/ Stops
    BY StopsFacts DEF Delete, Goto, Goes
<1> QED BY <1>1, <1>2 DEF Delete

LEMMA GrantMoves ==
    ASSUME Typed, Grant
    PROVE  /\ pc = "grant"
           /\ UNCHANGED <<crs, cache, there, edits, contested>>
           /\ \E done \in SUBSET obj.spec :
                 Granted(done) /\ (Stops \/ (done = obj.spec /\ GoesApplied))
<1>1. PICK done \in SUBSET obj.spec :
          /\ held' = held \cup done
          /\ unrecorded' = unrecorded \cup done
          /\ replayed' = replayed \ done
          /\ (done = obj.spec /\ Goto("status", Applied(obj))) \/ Return(TRUE)
    BY DEF Grant
<1>2. Goto("status", Applied(obj)) => GoesApplied
    <2> DEFINE o == [obj EXCEPT !.state = obj.spec, !.processed = obj.gen]
    <2>1. o \in Records /\ o.uid = obj.uid /\ o.rv = obj.rv /\ o.gen = obj.gen /\ o.spec = obj.spec
          /\ o.deleting = obj.deleting /\ o.state = obj.spec /\ o.processed = obj.gen
        <3>1. obj \in Records /\ obj.spec \in SUBSET Privileges /\ obj.gen \in Nat
            BY BusyFacts, RecordTypes
        <3> QED BY <3>1 DEF Records
    <2>2. Applied(obj) = o
        BY DEF Applied
    <2> HIDE DEF o
    <2> QED BY <2>1, <2>2 DEF Goto, GoesApplied
<1> QED BY <1>1, <1>2, StopsFacts DEF Grant, Granted

LEMMA PersistMoves ==
    ASSUME Typed, PersistStatus
    PROVE  /\ pc = "status"
           /\ UNCHANGED <<cache, held, there, edits, contested, replayed>>
           /\ \/ UNCHANGED <<crs, unrecorded>> /\ Stops
              \/ /\ IsCurrent(obj) /\ unrecorded' = unrecorded \ obj.state
                 /\ \E d \in Records :
                       Writes(me, d) /\ SavesStatus(crs[me], d) /\ GoesSaved(d)
<1>1. /\ pc = "status"
      /\ UNCHANGED <<cache, held, there, edits, contested, replayed>>
    BY DEF PersistStatus
<1>2. CASE UNCHANGED <<crs, unrecorded>> /\ Return(TRUE)
    BY <1>1, <1>2, StopsFacts
<1>3. CASE /\ IsCurrent(obj)
           /\ crs' = [crs EXCEPT ![me] = Write([@ EXCEPT !.state = obj.state])]
           /\ Goto("annotate", [obj EXCEPT !.rv = crs'[me].rv])
           /\ unrecorded' = unrecorded \ obj.state
    <2> DEFINE d == Write([crs[me] EXCEPT !.state = obj.state])
               o == [obj EXCEPT !.rv = crs'[me].rv]
    <2>1. me \in Objects /\ crs[me] \in Records /\ obj \in Records /\ obj.state \in SUBSET Privileges
        BY <1>1, BusyFacts, RecordTypes
    <2>2. d \in Records /\ d.rv \in Nat /\ SavesStatus(crs[me], d)
        <3>1. /\ Newer(d, crs[me]) /\ d.gen = crs[me].gen /\ d.spec = crs[me].spec
              /\ d.deleting = crs[me].deleting /\ d.processed = crs[me].processed /\ d.state = obj.state
            BY <2>1, StatusFields
        <3> HIDE DEF d
        <3> QED BY <3>1, RecordTypes DEF SavesStatus, Newer
    <2>3. Writes(me, d)
        BY <1>3 DEF Writes
    <2> HIDE DEF d
    <2>4. crs'[me] = d
        BY <2>1, <2>2, <2>3, WritesOne DEF Typed
    <2>5. /\ o \in Records /\ o.uid = obj.uid /\ o.rv = d.rv /\ o.gen = obj.gen /\ o.spec = obj.spec
          /\ o.deleting = obj.deleting /\ o.state = obj.state /\ o.processed = obj.processed
        BY <2>1, <2>2, <2>4 DEF Records
    <2>6. pc' = "annotate" /\ UNCHANGED me /\ obj' = o
        BY <1>3 DEF Goto
    <2> HIDE DEF o
    <2>7. GoesSaved(d)
        BY <2>5, <2>6 DEF GoesSaved
    <2> QED BY <1>1, <1>3, <2>2, <2>3, <2>7
<1> QED BY <1>1, <1>2, <1>3 DEF PersistStatus

LEMMA AnnotateMoves ==
    ASSUME Typed, Annotate
    PROVE  /\ pc = "annotate" /\ Stops
           /\ UNCHANGED <<cache, held, there, edits, history>>
           /\ \/ UNCHANGED crs
              \/ /\ IsCurrent(obj)
                 /\ \E d \in Records : Writes(me, d) /\ Marks(crs[me], d)
<1>1. pc = "annotate" /\ Stops /\ UNCHANGED <<cache, held, there, edits, history>>
    BY StopsFacts DEF Annotate
<1>2. CASE IsCurrent(obj) /\ crs' = [crs EXCEPT ![me] = Write([@ EXCEPT !.processed = obj.processed])]
    <2> DEFINE d == Write([crs[me] EXCEPT !.processed = obj.processed])
    <2>1. me \in Objects /\ crs[me] \in Records /\ obj \in Records /\ obj.processed \in Nat
        BY <1>1, BusyFacts, RecordTypes
    <2>2. d \in Records /\ Marks(crs[me], d)
        <3>1. /\ Newer(d, crs[me]) /\ d.gen = crs[me].gen /\ d.spec = crs[me].spec
              /\ d.deleting = crs[me].deleting /\ d.state = crs[me].state /\ d.processed = obj.processed
            BY <2>1, StatusFields
        <3> HIDE DEF d
        <3> QED BY <3>1 DEF Marks, Newer
    <2>3. Writes(me, d)
        BY <1>2 DEF Writes
    <2> HIDE DEF d
    <2> QED BY <1>1, <1>2, <2>2, <2>3
<1> QED BY <1>1, <1>2 DEF Annotate

LEMMA RemoveMoves ==
    ASSUME RemoveFinalizer
    PROVE  /\ pc = "unfinalize" /\ Stops
           /\ UNCHANGED <<cache, held, there, edits, contested, replayed>>
           /\ \/ UNCHANGED <<crs, unrecorded>>
              \/ /\ crs[me].deleting /\ Writes(me, NoObject)
                 /\ unrecorded' = unrecorded \cup (held \cap (crs[me].state \ crs[me].spec))
BY StopsFacts DEF RemoveFinalizer, Writes

LEMMA CrashMoves ==
    ASSUME Crash
    PROVE  Stops /\ cache' = crs /\ UNCHANGED <<crs, held, there, edits, history>>
BY DEF Crash, Stops

LEMMA SyncMoves ==
    ASSUME SyncCache
    PROVE  cache' = crs /\ UNCHANGED <<crs, worker, held, there, edits, history>>
BY DEF SyncCache

\* Users leave the worker and ClickHouse alone.
UserActs ==
    /\ UNCHANGED <<cache, worker, held, there, unrecorded, replayed>>
    /\ edits' = edits + 1 /\ contested \subseteq contested'

LEMMA ListedElsewhere ==
    ASSUME NEW g \in Objects, NEW h \in Objects, g # h
    PROVE  Listed(crs[h]) \subseteq ListedBut(g)
BY DEF ListedBut

LEMMA CreateMoves ==
    ASSUME Typed, NEW g \in Objects, NEW list \in Lists, UserCreates(g, list)
    PROVE  /\ UserActs /\ ~Exists(crs[g]) /\ list \in SUBSET Privileges
           /\ Writes(g, Fresh(edits + 1, list))
           /\ contested' \subseteq contested \cup list
           /\ \A h \in Objects : h # g => list \cap Listed(crs[h]) \subseteq contested'
<1>1. /\ ~Exists(crs[g]) /\ crs' = [crs EXCEPT ![g] = Fresh(edits + 1, list)] /\ edits' = edits + 1
      /\ contested' = contested \cup (list \cap (ListedBut(g) \cup Listed(obj)))
      /\ UNCHANGED <<cache, worker, held, there, unrecorded, replayed>>
    BY DEF UserCreates, Edit
<1> QED BY <1>1, ListedElsewhere, ListsAssumption DEF UserActs, Writes

LEMMA EditMoves ==
    ASSUME Typed, NEW g \in Objects, NEW list \in Lists, UserEdits(g, list)
    PROVE  /\ UserActs /\ list \in SUBSET Privileges
           /\ \E d \in Records :
                 Writes(g, d) /\ Revises(crs[g], d) /\ d.spec = list /\ ~d.deleting
           /\ contested' \subseteq contested \cup list
           /\ \A h \in Objects : h # g => list \cap Listed(crs[h]) \subseteq contested'
<1> DEFINE d == Regenerate([crs[g] EXCEPT !.spec = list])
           L == IF me = g THEN {} ELSE Listed(obj)
<1>1. /\ Exists(crs[g]) /\ ~crs[g].deleting /\ edits' = edits + 1
      /\ contested' = contested \cup (list \cap (ListedBut(g) \cup L))
      /\ UNCHANGED <<cache, worker, held, there, unrecorded, replayed>>
    BY DEF UserEdits, Edit
<1>2. Writes(g, d)
    BY DEF UserEdits, Writes
<1> HIDE DEF L
<1>3. crs[g] \in Records /\ list \in SUBSET Privileges
    BY BusyFacts, ListsAssumption
<1>4. Revises(crs[g], d) /\ d.spec = list /\ ~d.deleting
    BY <1>1, <1>3, SpecRevises
<1> HIDE DEF d
<1>5. d \in Records
    BY <1>4 DEF Revises, Newer
<1> QED BY <1>1, <1>2, <1>3, <1>4, <1>5, ListedElsewhere DEF UserActs

LEMMA DeletionMoves ==
    ASSUME Typed, NEW g \in Objects, UserDeletes(g)
    PROVE  /\ UserActs /\ UNCHANGED contested
           /\ \E d \in Records :
                 Writes(g, d) /\ Revises(crs[g], d) /\ d.spec = crs[g].spec /\ d.deleting
<1> DEFINE d == Regenerate([crs[g] EXCEPT !.deleting = TRUE])
<1>1. /\ Exists(crs[g]) /\ ~crs[g].deleting /\ edits' = edits + 1
      /\ UNCHANGED <<cache, worker, held, there, history>>
    BY DEF UserDeletes, Edit
<1>2. Writes(g, d)
    BY DEF UserDeletes, Writes
<1>3. crs[g] \in Records
    BY BusyFacts
<1>4. Revises(crs[g], d) /\ d.spec = crs[g].spec /\ d.deleting
    BY <1>1, <1>3, SpecRevises
<1> HIDE DEF d
<1>5. d \in Records
    BY <1>4 DEF Revises, Newer
<1> QED BY <1>1, <1>2, <1>4, <1>5 DEF UserActs, history

LEMMA DropMoves ==
    ASSUME Typed, NEW p \in Privileges, Drop(p) \/ Appear(p)
    PROVE  /\ UNCHANGED <<crs, cache, worker, unrecorded, replayed>>
           /\ edits' \in {edits, edits + 1} /\ there' \subseteq Privileges
           /\ held' \subseteq held /\ contested \subseteq contested' /\ contested' \subseteq Privileges
           /\ \A x \in held : x \in held' \/ x \in contested'
BY DEF Drop, Appear, Edit, Typed, TypeOK, history

----------------------------------------------------------------------------
(* Types                                                                   *)

\* The worker either keeps still, or makes one of its moves.
LEMMA WorkerMoves ==
    ASSUME Typed, [Next]_vars
    PROVE  \/ UNCHANGED worker
           \/ Stops
           \/ pc = "idle" /\ \E g \in Objects : Begin(g) /\ Takes(g)
           \/ Observe /\ ~hasLatestGeneration(obj) /\ Goes("revoke")
           \/ RevokeState /\ Goes("grant")
           \/ Grant /\ GoesApplied
           \/ PersistStatus /\ IsCurrent(obj) /\ \E d \in Records : Writes(me, d) /\ GoesSaved(d)
           \/ Delete /\ Goes("unfinalize")
<1>1. ASSUME NEW g \in Objects, Begin(g)
      PROVE  UNCHANGED worker \/ (pc = "idle" /\ Takes(g))
    BY <1>1, BeginMoves
<1>2. CASE Observe
    BY <1>2, ObserveMoves
<1>3. CASE RevokeState
    BY <1>3, RevokeMoves
<1>4. CASE Grant
    BY <1>4, GrantMoves
<1>5. CASE PersistStatus
    BY <1>5, PersistMoves
<1>6. CASE Annotate \/ RemoveFinalizer \/ Crash
    BY <1>6, AnnotateMoves, RemoveMoves, CrashMoves
<1>7. CASE Delete
    BY <1>7, DeleteMoves
<1>8. SyncCache \/ Users \/ UNCHANGED vars => UNCHANGED worker
    BY DEF SyncCache, Users, UserCreates, UserEdits, UserDeletes, Drop, Appear, vars, worker
<1> QED BY <1>1, <1>2, <1>3, <1>4, <1>5, <1>6, <1>7, <1>8 DEF Next, Reconcile

\* The objects stand, or one of them is written; the cache then stays.
PassWrites(d) ==
    \/ PersistStatus /\ IsCurrent(obj) /\ SavesStatus(crs[me], d) /\ GoesSaved(d)
    \/ Annotate /\ IsCurrent(obj) /\ Marks(crs[me], d) /\ Stops
    \/ RemoveFinalizer /\ crs[me].deleting /\ d = NoObject /\ Stops
UserWrites(g, d) ==
    /\ UserActs
    /\ \/ ~Exists(crs[g]) /\ \E list \in SUBSET Privileges : d = Fresh(edits + 1, list)
       \/ Revises(crs[g], d) /\ (d.deleting => d.spec = crs[g].spec)

LEMMA ObjectMoves ==
    ASSUME Typed, [Next]_vars
    PROVE  \/ UNCHANGED crs /\ (UNCHANGED cache \/ cache' = crs)
           \/ /\ UNCHANGED cache
              /\ \E g \in Objects, d \in Records :
                    /\ Writes(g, d)
                    /\ (pc # "idle" /\ g = me /\ PassWrites(d)) \/ UserWrites(g, d)
<1>1. ASSUME NEW g \in Objects, Begin(g) PROVE UNCHANGED <<crs, cache>>
    BY <1>1, BeginMoves
<1>2. CASE Observe \/ RevokeState \/ Grant \/ Delete
    BY <1>2, ObserveMoves, RevokeMoves, GrantMoves, DeleteMoves
<1>3. CASE PersistStatus
    BY <1>3, PersistMoves, BusyFacts DEF PassWrites
<1>4. CASE Annotate
    BY <1>4, AnnotateMoves, BusyFacts DEF PassWrites
<1>5. CASE RemoveFinalizer
    BY <1>5, RemoveMoves, BusyFacts, NoObjectFields DEF PassWrites
<1>6. CASE Crash \/ SyncCache
    BY <1>6, CrashMoves, SyncMoves
<1>7. ASSUME NEW g \in Objects, NEW list \in Lists, UserCreates(g, list)
      PROVE  UNCHANGED cache /\ \E d \in Records : Writes(g, d) /\ UserWrites(g, d)
    <2>1. UserActs /\ ~Exists(crs[g]) /\ list \in SUBSET Privileges
          /\ Writes(g, Fresh(edits + 1, list)) /\ edits + 1 \in Nat
        BY <1>7, CreateMoves, BusyFacts
    <2> QED BY <2>1, FreshFields DEF UserWrites, UserActs
<1>8. ASSUME NEW g \in Objects, NEW list \in Lists, UserEdits(g, list)
      PROVE  UNCHANGED cache /\ \E d \in Records : Writes(g, d) /\ UserWrites(g, d)
    BY <1>8, EditMoves DEF UserWrites, UserActs
<1>9. ASSUME NEW g \in Objects, UserDeletes(g)
      PROVE  UNCHANGED cache /\ \E d \in Records : Writes(g, d) /\ UserWrites(g, d)
    BY <1>9, DeletionMoves DEF UserWrites, UserActs
<1>10. ASSUME NEW p \in Privileges, Drop(p) \/ Appear(p) PROVE UNCHANGED <<crs, cache>>
    BY <1>10, DropMoves
<1>11. UNCHANGED vars => UNCHANGED <<crs, cache>>
    BY DEF vars
<1> QED BY <1>1, <1>2, <1>3, <1>4, <1>5, <1>6, <1>7, <1>8, <1>9, <1>10, <1>11
        DEF Next, Reconcile, Users

LEMMA WorkerType ==
    ASSUME Typed, [Next]_vars
    PROVE  obj' \in Records /\ pc' \in PCs /\ WorkerInv' /\ me' \in Objects \cup {NoOne}
<1> DEFINE Good == obj' \in Records /\ pc' \in PCs /\ WorkerInv' /\ me' \in Objects \cup {NoOne}
<1> USE DEF WorkerInv, PCs
<1>0. pc \in PCs /\ obj \in Records /\ me \in Objects \cup {NoOne} /\ WorkerInv
    BY DEF Typed, TypeOK
<1>1. ASSUME UNCHANGED worker PROVE Good
    BY <1>0, <1>1 DEF worker, Exists
<1>2. ASSUME Stops PROVE Good
    BY <1>2, NoObjectFields DEF Stops
<1>3. ASSUME NEW g \in Objects, Takes(g) PROVE Good
    BY <1>3, BusyFacts DEF Takes, Exists
<1>4. ASSUME (Observe /\ Goes("revoke")) \/ (RevokeState /\ Goes("grant")) \/ (Delete /\ Goes("unfinalize"))
      PROVE  Good
    <2>1. pc # "idle"
        BY <1>4 DEF Observe, RevokeState, Delete
    <2> QED BY <1>0, <1>4, <2>1 DEF Goes, Exists
<1>5. ASSUME Grant, GoesApplied PROVE Good
    BY <1>0, <1>5 DEF GoesApplied, Exists, Grant
<1>6. ASSUME PersistStatus, NEW d \in Records, GoesSaved(d)
      PROVE  Good
    BY <1>0, <1>6 DEF GoesSaved, Exists, PersistStatus
<1> HIDE DEF Good, WorkerInv, PCs
<1>7. Good
    BY <1>1, <1>2, <1>3, <1>4, <1>5, <1>6, WorkerMoves, Zenon
<1> QED BY <1>7 DEF Good, WorkerInv, PCs

LEMMA GrantsType ==
    ASSUME Typed, [Next]_vars
    PROVE  /\ held' \subseteq Privileges /\ there' \subseteq Privileges
           /\ contested' \subseteq Privileges /\ unrecorded' \subseteq Privileges
           /\ replayed' \subseteq Privileges
           /\ edits' \in {edits, edits + 1} /\ contested \subseteq contested'
<1>0. /\ held \subseteq Privileges /\ there \subseteq Privileges
      /\ contested \subseteq Privileges /\ unrecorded \subseteq Privileges
      /\ replayed \subseteq Privileges
      /\ obj.spec \subseteq Privileges /\ obj.state \subseteq Privileges
    BY RecordTypes, BusyFacts DEF Typed, TypeOK
<1>1. ASSUME NEW g \in Objects, Begin(g)
      PROVE UNCHANGED <<held, there, edits, contested, unrecorded, replayed>>
    BY <1>1, BeginMoves DEF history
<1>2. CASE Observe \/ Crash \/ SyncCache \/ Annotate
    <2>1. UNCHANGED <<held, there, edits, contested, unrecorded, replayed>>
        BY <1>2, ObserveMoves, CrashMoves, SyncMoves, AnnotateMoves DEF history
    <2> QED BY <1>0, <2>1
<1>3. CASE RevokeState \/ Delete
    <2>1. UNCHANGED <<there, edits, contested>>
          /\ \E done : done \subseteq Privileges /\ Revoked(done)
        BY <1>0, <1>3, RevokeMoves, DeleteMoves
    <2> QED BY <1>0, <2>1 DEF Revoked
<1>4. CASE Grant
    <2>1. UNCHANGED <<there, edits, contested>>
          /\ \E done : done \subseteq Privileges /\ Granted(done)
        BY <1>0, <1>4, GrantMoves
    <2> QED BY <1>0, <2>1 DEF Granted
<1>5. CASE PersistStatus
    BY <1>0, <1>5, PersistMoves
<1>6. CASE RemoveFinalizer
    BY <1>0, <1>6, RemoveMoves
<1>7. ASSUME NEW g \in Objects, NEW list \in Lists, UserCreates(g, list) \/ UserEdits(g, list)
      PROVE  UserActs /\ contested' \subseteq Privileges
    BY <1>0, <1>7, CreateMoves, EditMoves
<1>8. ASSUME NEW g \in Objects, UserDeletes(g) PROVE UserActs /\ contested' \subseteq Privileges
    BY <1>0, <1>8, DeletionMoves
<1>9. ASSUME NEW p \in Privileges, Drop(p) \/ Appear(p)
      PROVE  /\ held' \subseteq Privileges /\ there' \subseteq Privileges
             /\ contested' \subseteq Privileges /\ unrecorded' \subseteq Privileges
             /\ replayed' \subseteq Privileges
             /\ edits' \in {edits, edits + 1} /\ contested \subseteq contested'
    BY <1>0, <1>9, DropMoves
<1>10. UNCHANGED vars => UNCHANGED <<held, there, edits, contested, unrecorded, replayed>>
    BY DEF vars, history
<1>11. UserActs /\ contested' \subseteq Privileges
         => /\ held' \subseteq Privileges /\ there' \subseteq Privileges
            /\ unrecorded' \subseteq Privileges /\ replayed' \subseteq Privileges
            /\ edits' \in {edits, edits + 1} /\ contested \subseteq contested'
    BY <1>0 DEF UserActs
<1> QED BY <1>0, <1>1, <1>2, <1>3, <1>4, <1>5, <1>6, <1>7, <1>8, <1>9, <1>10, <1>11
        DEF Next, Reconcile, Users

LEMMA QueueType ==
    ASSUME Typed, [Next]_vars
    PROVE  queued' \subseteq Objects /\ faults' \in Nat
<1>0. queued \subseteq Objects /\ faults \in Nat /\ (pc # "idle" => me \in Objects)
    BY BusyFacts DEF Typed, TypeOK
<1>1. ASSUME NEW g \in Objects, Begin(g) PROVE queued' \subseteq Objects /\ UNCHANGED faults
    BY <1>0, <1>1 DEF Begin
<1>2. \A q : pc # "idle" /\ Return(q) => queued' \subseteq Objects
    BY <1>0 DEF Return
<1>3. \A p, o : Goto(p, o) => queued' \subseteq Objects
    BY <1>0 DEF Goto
<1>4. CASE Observe
    <2>1. pc # "idle" /\ (UNCHANGED faults \/ Fault)
        BY <1>4, Zenon DEF Observe
    <2>2. queued' \subseteq Objects
        BY <1>2, <1>3, <1>4, <2>1, Zenon DEF Observe
    <2> QED BY <1>0, <2>1, <2>2 DEF Fault
<1>5. CASE RevokeState
    <2>1. pc # "idle" /\ (UNCHANGED faults \/ Fault)
        BY <1>5 DEF RevokeState, Revoke
    <2>2. queued' \subseteq Objects
        BY <1>2, <1>3, <1>5, <2>1, Zenon DEF RevokeState
    <2> QED BY <1>0, <2>1, <2>2 DEF Fault
<1>6. CASE Delete
    <2>1. pc # "idle" /\ (UNCHANGED faults \/ Fault)
        BY <1>6 DEF Delete, Revoke
    <2>2. queued' \subseteq Objects
        BY <1>2, <1>3, <1>6, <2>1, Zenon DEF Delete
    <2> QED BY <1>0, <2>1, <2>2 DEF Fault
<1>7. CASE Grant
    <2>1. pc # "idle" /\ (UNCHANGED faults \/ Fault)
        BY <1>7 DEF Grant
    <2>2. queued' \subseteq Objects
        BY <1>2, <1>3, <1>7, <2>1 DEF Grant
    <2> QED BY <1>0, <2>1, <2>2 DEF Fault
<1>8. CASE PersistStatus
    <2>1. pc # "idle" /\ (UNCHANGED faults \/ Fault)
        BY <1>8, Zenon DEF PersistStatus
    <2>2. queued' \subseteq Objects
        BY <1>2, <1>3, <1>8, <2>1, Zenon DEF PersistStatus
    <2> QED BY <1>0, <2>1, <2>2 DEF Fault
<1>9. CASE Annotate
    <2>1. pc # "idle" /\ (UNCHANGED faults \/ Fault)
        BY <1>9, Zenon DEF Annotate
    <2>2. queued' \subseteq Objects
        BY <1>2, <1>9, <2>1, Zenon DEF Annotate
    <2> QED BY <1>0, <2>1, <2>2 DEF Fault
<1>10. CASE RemoveFinalizer
    <2>1. pc # "idle" /\ (UNCHANGED faults \/ Fault)
        BY <1>10, Zenon DEF RemoveFinalizer
    <2>2. queued' \subseteq Objects
        BY <1>2, <1>10, <2>1, Zenon DEF RemoveFinalizer
    <2> QED BY <1>0, <2>1, <2>2 DEF Fault
<1>11. CASE Crash
    BY <1>0, <1>11 DEF Crash, Fault
<1>12. CASE SyncCache
    BY <1>0, <1>12 DEF SyncCache
<1>13. CASE Users \/ UNCHANGED vars
    <2>1. UNCHANGED <<queued, faults>>
        BY <1>13 DEF Users, UserCreates, UserEdits, UserDeletes, Drop, Appear, vars
    <2> QED BY <1>0, <2>1
<1> QED BY <1>0, <1>1, <1>4, <1>5, <1>6, <1>7, <1>8, <1>9, <1>10, <1>11, <1>12, <1>13
        DEF Next, Reconcile

LEMMA TypeStep ==
    ASSUME Typed, [Next]_vars
    PROVE  Typed'
<1>1. crs' \in [Objects -> Records] /\ cache' \in [Objects -> Records]
    <2>1. ASSUME NEW g \in Objects, NEW d \in Records, Writes(g, d) PROVE crs' \in [Objects -> Records]
        BY <2>1, WritesOne DEF Typed
    <2> QED BY <2>1, ObjectMoves, BusyFacts
<1>2. edits' \in Nat
    BY GrantsType, BusyFacts
<1> QED BY <1>1, <1>2, WorkerType, GrantsType, QueueType DEF Typed, TypeOK, PCs

LEMMA InitTyped == Init => Typed
BY NoObjectFields DEF Init, Typed, TypeOK, WorkerInv

\* Every reachable state is well typed, and the worker has an object exactly
\* while it is not idle.
THEOREM TypeCorrect == Spec => []TypeOK
<1>1. Typed /\ [Next]_vars => Typed'
    BY TypeStep
<1>2. Typed => TypeOK
    BY DEF Typed
<1> QED BY InitTyped, <1>1, <1>2, PTL DEF Spec

----------------------------------------------------------------------------
(* Copies                                                                  *)

\* CacheInv of one object c and the cached copy x of it.
Cached(x, c, n) ==
    /\ c.uid <= n /\ x.uid <= n
    /\ ~Exists(c) => c = NoObject
    /\ c.processed <= c.gen
    /\ Earlier(x, c)
    /\ Exists(x) /\ x.uid = c.uid /\ x.rv = c.rv => x = c
    /\ x.uid # c.uid => c.state = {} /\ c.processed = 0

LEMMA CacheFields == CacheInv <=> \A g \in Objects : Cached(cache[g], crs[g], edits)
BY DEF CacheInv, Cached

\* Of the object itself, and of one that has just been made.
LEMMA CachedSame ==
    ASSUME NEW x \in Records, NEW c \in Records, NEW n \in Nat, NEW m \in {n, n + 1}, Cached(x, c, n)
    PROVE  Cached(x, c, m) /\ Cached(c, c, m)
BY RecordTypes DEF Cached, Earlier

LEMMA CachedNewer ==
    ASSUME NEW x \in Records, NEW c \in Records, NEW n \in Nat, NEW m \in {n, n + 1}, Cached(x, c, n),
           NEW d \in Records, Newer(d, c), c.gen <= d.gen, d.processed <= d.gen, Exists(c),
           c.gen = d.gen => c.spec = d.spec /\ c.deleting = d.deleting,
           c.deleting => c.gen = d.gen,
           x.uid # c.uid => d.state = {} /\ d.processed = 0
    PROVE  Cached(x, d, m)
<1>1. /\ x.uid \in Nat /\ x.rv \in Nat /\ x.gen \in Nat
      /\ c.uid \in Nat /\ c.rv \in Nat /\ c.gen \in Nat
      /\ d.uid = c.uid /\ d.rv = c.rv + 1 /\ d.gen \in Nat
    BY RecordTypes DEF Newer
<1>2. Earlier(x, d)
    BY <1>1 DEF Cached, Earlier
<1>3. ~(x.uid = d.uid /\ x.rv = d.rv /\ Exists(x))
    BY <1>1 DEF Cached, Earlier
<1>4. d.uid <= m /\ x.uid <= m /\ Exists(d)
    BY <1>1 DEF Cached, Exists
<1> QED BY <1>1, <1>2, <1>3, <1>4 DEF Cached

LEMMA CachedFresh ==
    ASSUME NEW x \in Records, NEW c \in Records, NEW n \in Nat, Cached(x, c, n)
    PROVE  /\ Cached(x, NoObject, n)
           /\ \A list \in SUBSET Privileges : Cached(x, Fresh(n + 1, list), n + 1)
<1>0. x.uid \in Nat /\ x.uid <= n
    BY RecordTypes DEF Cached
<1>1. Cached(x, NoObject, n)
    BY <1>0, NoObjectFields DEF Cached, Earlier, Exists
<1>2. ASSUME NEW list \in SUBSET Privileges
      PROVE  Cached(x, Fresh(n + 1, list), n + 1)
    <2> DEFINE d == Fresh(n + 1, list)
    <2>1. d.uid = n + 1 /\ d.gen = 1 /\ d.processed = 0 /\ d.state = {}
        BY FreshFields
    <2> HIDE DEF d
    <2>2. Cached(x, d, n + 1)
        BY <1>0, <2>1 DEF Cached, Earlier, Exists
    <2> QED BY <2>2 DEF d
<1> QED BY <1>1, <1>2

\* What the worker may write: an object of which its copy is current.
LEMMA CurrentFacts ==
    ASSUME Typed, CacheInv, CopyInv, PathInv, pc # "idle", IsCurrent(obj)
    PROVE  /\ Exists(crs[me]) /\ cache[me].uid = crs[me].uid
           /\ obj.gen <= crs[me].gen /\ obj.rv = crs[me].rv /\ obj.uid = crs[me].uid
           /\ pc = "annotate" => obj.processed <= crs[me].gen
BY BusyFacts, RecordTypes DEF CopyInv, Earlier, IsCurrent, Exists, PathInv

LEMMA CacheStep ==
    ASSUME Typed, CacheInv, CopyInv, PathInv, [Next]_vars, Typed'
    PROVE  CacheInv'
<1>0. /\ crs \in [Objects -> Records] /\ cache \in [Objects -> Records]
      /\ \A g \in Objects : Cached(cache[g], crs[g], edits)
      /\ edits \in Nat /\ edits' \in {edits, edits + 1}
    BY BusyFacts, CacheFields, GrantsType
<1> SUFFICES ASSUME NEW h \in Objects PROVE Cached(cache'[h], crs'[h], edits')
    BY DEF CacheInv, Cached, Earlier, Exists
<1>1. cache[h] \in Records /\ crs[h] \in Records /\ Cached(cache[h], crs[h], edits)
    BY <1>0
<1>2. CASE UNCHANGED crs /\ (UNCHANGED cache \/ cache' = crs)
    BY <1>0, <1>1, <1>2, CachedSame
<1>3. ASSUME UNCHANGED cache, NEW g \in Objects, NEW d \in Records, Writes(g, d),
             (pc # "idle" /\ g = me /\ PassWrites(d)) \/ UserWrites(g, d)
      PROVE  Cached(cache'[h], crs'[h], edits')
    <2>1. CASE h # g
        BY <1>0, <1>1, <1>3, <2>1, CachedSame, WritesOne DEF Typed
    <2>2. ASSUME h = g PROVE cache'[h] = cache[h] /\ crs'[h] = d
        BY <1>3, <2>2, WritesOne DEF Typed
    <2>3. CASE h = g /\ pc # "idle" /\ g = me /\ PassWrites(d)
        <3>1. CASE IsCurrent(obj) /\ (SavesStatus(crs[me], d) \/ (Annotate /\ Marks(crs[me], d)))
            <4>1. /\ Exists(crs[me]) /\ cache[me].uid = crs[me].uid
                  /\ Annotate => obj.processed <= crs[me].gen
                BY <2>3, <3>1, CurrentFacts DEF Annotate
            <4>2. /\ Newer(d, crs[me]) /\ d.gen = crs[me].gen /\ d.processed <= d.gen
                  /\ d.spec = crs[me].spec /\ d.deleting = crs[me].deleting
                BY <1>1, <2>3, <3>1, <4>1 DEF SavesStatus, Marks, Cached
            <4>3. crs[me].gen \in Nat
                BY <1>1, <2>3, RecordTypes
            <4> QED BY <1>0, <1>1, <2>2, <2>3, <4>1, <4>2, <4>3, CachedNewer
        <3>2. CASE d = NoObject /\ RemoveFinalizer
            <4>1. UNCHANGED edits
                BY <3>2, RemoveMoves
            <4> QED BY <1>0, <1>1, <2>2, <2>3, <3>2, <4>1, CachedFresh
        <3> QED BY <2>3, <3>1, <3>2 DEF PassWrites
    <2>4. CASE h = g /\ UserWrites(g, d)
        <3>0. edits' = edits + 1
            BY <2>4 DEF UserWrites, UserActs
        <3>1. ASSUME NEW list \in SUBSET Privileges, d = Fresh(edits + 1, list)
              PROVE  Cached(cache'[h], crs'[h], edits')
            BY <1>0, <1>1, <2>2, <2>4, <3>0, <3>1, CachedFresh
        <3>2. CASE Revises(crs[g], d)
            <4>1. /\ Newer(d, crs[g]) /\ d.gen = crs[g].gen + 1 /\ d.processed = crs[g].processed
                  /\ d.state = crs[g].state /\ Exists(crs[g]) /\ ~crs[g].deleting
                BY <3>2 DEF Revises
            <4>2. crs[g].gen \in Nat /\ crs[g].processed \in Nat /\ crs[g].processed <= crs[g].gen
                  /\ (cache[g].uid # crs[g].uid => crs[g].state = {} /\ crs[g].processed = 0)
                BY <1>1, <2>4, RecordTypes DEF Cached
            <4> QED BY <1>0, <1>1, <2>2, <2>4, <4>1, <4>2, CachedNewer
        <3> QED BY <2>4, <3>1, <3>2 DEF UserWrites
    <2> QED BY <1>3, <2>1, <2>3, <2>4
<1> QED BY <1>2, <1>3, ObjectMoves

\* CopyInv of the worker's copy o, with x and c what the cache and the server
\* have, p the worker's place and n the steps of users.
Copied(o, x, c, p, n) ==
    /\ o.uid <= n
    /\ Earlier(o, c)
    /\ o.uid = c.uid => x.uid = c.uid
    /\ o.uid # c.uid => c.state = {} /\ c.processed = 0
    /\ Exists(o) /\ o.uid = c.uid /\ o.rv = c.rv =>
          /\ p \in Reading => o = c
          /\ p = "status" => o.gen = c.gen
          /\ p = "annotate" => o.gen = c.gen /\ o.state = c.state

LEMMA CopyFields == CopyInv <=> (pc # "idle" => Copied(obj, cache[me], crs[me], pc, edits))
BY DEF CopyInv, Copied, IsCurrent

LEMMA CopiedWritten ==
    ASSUME NEW o \in Records, NEW x \in Records, NEW c \in Records, NEW p, NEW n \in Nat,
           Exists(o), Copied(o, x, c, p, n), c.uid <= n, NEW g, NEW d \in Records,
           \/ ~Exists(c) /\ \E list \in SUBSET Privileges : d = Fresh(n + 1, list)
           \/ Revises(c, d)
    PROVE  Copied(o, x, d, p, n + 1) /\ ~(o.uid = d.uid /\ o.rv = d.rv)
<1>0. /\ o.uid \in Nat /\ o.rv \in Nat /\ o.gen \in Nat /\ c.uid \in Nat /\ c.rv \in Nat /\ c.gen \in Nat
      /\ o.uid <= n
    BY RecordTypes DEF Copied
<1>1. ASSUME NEW list \in SUBSET Privileges, d = Fresh(n + 1, list)
      PROVE  Copied(o, x, d, p, n + 1) /\ ~(o.uid = d.uid /\ o.rv = d.rv)
    <2>0. n + 1 \in Nat
        OBVIOUS
    <2>1. d.uid = n + 1 /\ d.state = {} /\ d.processed = 0
        BY <1>1, <2>0, FreshFields
    <2>2. o.uid # d.uid
        BY <1>0, <2>1
    <2> QED BY <1>0, <2>1, <2>2 DEF Copied, Earlier
<1>2. CASE Revises(c, d)
    <2>1. /\ d.uid = c.uid /\ d.rv = c.rv + 1 /\ d.gen = c.gen + 1 /\ d.state = c.state
          /\ d.processed = c.processed /\ ~c.deleting
        BY <1>2 DEF Revises, Newer
    <2>2. Earlier(o, d) /\ ~(o.uid = d.uid /\ o.rv = d.rv)
        BY <1>0, <2>1 DEF Copied, Earlier
    <2> QED BY <1>0, <2>1, <2>2 DEF Copied
<1> QED BY <1>1, <1>2

LEMMA CopiedSaved ==
    ASSUME Typed, PersistStatus, CopyInv, NEW d \in Records, IsCurrent(obj),
           Writes(me, d), SavesStatus(crs[me], d), GoesSaved(d), UNCHANGED <<cache, edits>>
    PROVE  Copied(obj', cache'[me'], crs'[me'], pc', edits')
<1>1. pc = "status" /\ me \in Objects /\ crs[me] \in Records /\ Exists(obj)
      /\ Copied(obj, cache[me], crs[me], pc, edits)
    BY CopyFields, BusyFacts DEF PersistStatus
<1>2. crs'[me'] = d /\ cache'[me'] = cache[me]
    BY <1>1, WritesOne DEF Typed, GoesSaved
<1>3. /\ obj.uid = crs[me].uid /\ obj.gen = crs[me].gen /\ obj.spec = crs[me].spec
      /\ obj.deleting = crs[me].deleting
    BY <1>1 DEF IsCurrent, Copied, Earlier
<1>4. /\ d.uid = crs[me].uid /\ d.gen = crs[me].gen /\ d.spec = crs[me].spec
      /\ d.deleting = crs[me].deleting /\ d.state = obj.state
    BY DEF SavesStatus, Newer
<1>5. /\ obj'.uid = d.uid /\ obj'.rv = d.rv /\ obj'.gen = d.gen /\ obj'.spec = d.spec
      /\ obj'.deleting = d.deleting /\ obj'.state = d.state /\ pc' = "annotate"
    BY <1>3, <1>4 DEF GoesSaved
<1>6. d.rv \in Nat /\ d.gen \in Nat
    BY RecordTypes
<1> HIDE DEF Writes, SavesStatus, GoesSaved
<1>7. Earlier(obj', d)
    BY <1>5, <1>6 DEF Earlier
<1>8. obj'.uid <= edits' /\ cache[me].uid = d.uid
    BY <1>1, <1>3, <1>4, <1>5 DEF Copied
<1> QED BY <1>2, <1>5, <1>7, <1>8 DEF Copied, Reading

LEMMA CopyStep ==
    ASSUME Typed, CacheInv, CopyInv, PathInv, [Next]_vars, Typed'
    PROVE  CopyInv'
<1> SUFFICES ASSUME pc' # "idle" PROVE Copied(obj', cache'[me'], crs'[me'], pc', edits')
    BY DEF CopyInv, Copied, IsCurrent
<1>0. /\ crs \in [Objects -> Records] /\ cache \in [Objects -> Records] /\ obj \in Records
      /\ edits \in Nat /\ edits' \in {edits, edits + 1}
      /\ \A g \in Objects : Cached(cache[g], crs[g], edits)
      /\ pc # "idle" => /\ me \in Objects /\ Exists(obj) /\ crs[me] \in Records /\ cache[me] \in Records
                        /\ Copied(obj, cache[me], crs[me], pc, edits)
    BY BusyFacts, CacheFields, CopyFields, GrantsType
<1>1. CASE UNCHANGED worker
    <2>0. pc' = pc /\ me' = me /\ obj' = obj /\ pc # "idle"
        BY <1>1 DEF worker
    <2>1. CASE UNCHANGED crs /\ (UNCHANGED cache \/ cache' = crs)
        <3>1. obj.uid \in Nat
            BY <1>0, RecordTypes
        <3> QED BY <1>0, <2>0, <2>1, <3>1 DEF Copied
    <2>2. ASSUME UNCHANGED cache, NEW g \in Objects, NEW d \in Records, Writes(g, d), UserWrites(g, d)
          PROVE  Copied(obj', cache'[me'], crs'[me'], pc', edits')
        <3>0. edits' = edits + 1 /\ crs'[g] = d /\ (me # g => crs'[me] = crs[me])
            BY <1>0, <2>0, <2>2, WritesOne DEF UserWrites, UserActs, Typed
        <3>1. CASE me # g
            <4>1. obj.uid \in Nat
                BY <1>0, RecordTypes
            <4> QED BY <1>0, <2>0, <2>2, <3>0, <3>1, <4>1 DEF Copied
        <3>2. CASE me = g
            <4>1. crs[me].uid <= edits
                BY <1>0, <2>0 DEF Cached
            <4>2. Copied(obj, cache[me], d, pc, edits + 1)
                BY <1>0, <2>0, <2>2, <3>2, <4>1, CopiedWritten DEF UserWrites
            <4> QED BY <2>0, <2>2, <3>0, <3>2, <4>2
        <3> QED BY <3>1, <3>2
    <2>3. ASSUME NEW d PROVE ~PassWrites(d)
        BY <2>0 DEF PassWrites, PersistStatus, GoesSaved, Stops
    <2> QED BY <2>1, <2>2, <2>3, ObjectMoves
<1>2. ASSUME NEW g \in Objects, Begin(g), Takes(g)
      PROVE  Copied(obj', cache'[me'], crs'[me'], pc', edits')
    <2>1. UNCHANGED <<crs, cache, edits>> /\ Cached(cache[g], crs[g], edits)
        BY <1>0, <1>2, BeginMoves
    <2> QED BY <1>2, <2>1 DEF Takes, Cached, Copied, Reading
<1>3. CASE \/ Observe /\ Goes("revoke")
           \/ RevokeState /\ Goes("grant")
           \/ Delete /\ Goes("unfinalize")
    <2>1. UNCHANGED <<crs, cache, edits, me, obj>>
          /\ pc \in Reading /\ pc' \in {"revoke", "grant", "unfinalize"}
        BY <1>3, ObserveMoves, RevokeMoves, DeleteMoves DEF Goes, Reading
    <2> QED BY <1>0, <2>1 DEF Copied, Reading
<1>4. CASE Grant /\ GoesApplied
    <2>1. UNCHANGED <<crs, cache, edits>> /\ pc = "grant"
        BY <1>4, GrantMoves
    <2>2. /\ me' = me /\ obj'.uid = obj.uid /\ obj'.rv = obj.rv /\ obj'.gen = obj.gen
          /\ obj'.spec = obj.spec /\ obj'.deleting = obj.deleting /\ pc' = "status"
        BY <1>4 DEF GoesApplied
    <2>3. Earlier(obj', crs[me]) /\ Copied(obj, cache[me], crs[me], "grant", edits)
        BY <1>0, <2>1, <2>2 DEF Copied, Earlier, Exists
    <2> QED BY <2>1, <2>2, <2>3 DEF Copied, Reading, Exists
<1>5. CASE PersistStatus /\ IsCurrent(obj)
    <2>1. PICK d \in Records : Writes(me, d) /\ SavesStatus(crs[me], d) /\ GoesSaved(d)
        BY <1>5, PersistMoves DEF Stops
    <2>2. UNCHANGED <<cache, edits>>
        BY <1>5, PersistMoves
    <2> QED BY <1>5, <2>1, <2>2, CopiedSaved
<1>6. ~Stops
    BY DEF Stops
<1> QED BY <1>1, <1>2, <1>3, <1>4, <1>5, <1>6, WorkerMoves

LEMMA PathStep ==
    ASSUME Typed, PathInv, [Next]_vars
    PROVE  PathInv'
<1>1. CASE UNCHANGED worker
    BY <1>1 DEF worker, PathInv, hasLatestGeneration
<1>2. CASE Stops
    BY <1>2 DEF Stops, PathInv
<1>3. ASSUME NEW g \in Objects, Takes(g) PROVE PathInv'
    BY <1>3 DEF Takes, PathInv
<1>4. CASE Observe /\ ~hasLatestGeneration(obj) /\ Goes("revoke")
    BY <1>4 DEF Goes, PathInv, hasLatestGeneration
<1>5. CASE RevokeState /\ Goes("grant")
    BY <1>5 DEF RevokeState, Goes, PathInv, hasLatestGeneration
<1>6. CASE Grant /\ GoesApplied
    BY <1>6 DEF GoesApplied, PathInv
<1>7. ASSUME PersistStatus, NEW d \in Records, GoesSaved(d) PROVE PathInv'
    BY <1>7 DEF PersistStatus, GoesSaved, PathInv
<1>8. CASE Delete /\ Goes("unfinalize")
    BY <1>8 DEF Delete, Goes, PathInv
<1> QED BY <1>1, <1>2, <1>3, <1>4, <1>5, <1>6, <1>7, <1>8, WorkerMoves

----------------------------------------------------------------------------
(* Grants                                                                  *)

\* The worker and ClickHouse, while the worker stays where it is.
LEMMA HeldMoves ==
    ASSUME Typed, [Next]_vars
    PROVE  \/ RevokeState \/ Delete \/ Grant
           \/ /\ held' \subseteq held /\ UNCHANGED replayed
              /\ \A x \in held : x \in held' \/ x \in contested'
<1>1. ASSUME NEW g \in Objects, Begin(g) PROVE UNCHANGED <<held, replayed>>
    BY <1>1, BeginMoves DEF history
<1>2. CASE Observe \/ PersistStatus \/ Annotate \/ RemoveFinalizer \/ Crash \/ SyncCache
    <2>1. UNCHANGED <<held, replayed>>
        BY <1>2, ObserveMoves, PersistMoves, AnnotateMoves, RemoveMoves, CrashMoves, SyncMoves DEF history
    <2> QED BY <2>1
<1>3. ASSUME NEW g \in Objects, NEW list \in Lists, UserCreates(g, list) \/ UserEdits(g, list)
      PROVE  UNCHANGED <<held, replayed>>
    BY <1>3, CreateMoves, EditMoves DEF UserActs
<1>4. ASSUME NEW g \in Objects, UserDeletes(g) PROVE UNCHANGED <<held, replayed>>
    BY <1>4, DeletionMoves DEF UserActs
<1>5. ASSUME NEW p \in Privileges, Drop(p) \/ Appear(p)
      PROVE  /\ held' \subseteq held /\ UNCHANGED replayed
             /\ \A x \in held : x \in held' \/ x \in contested'
    BY <1>5, DropMoves
<1>6. UNCHANGED vars => UNCHANGED <<held, replayed>>
    BY DEF vars, history
<1> QED BY <1>1, <1>2, <1>3, <1>4, <1>5, <1>6 DEF Next, Reconcile, Users

LEMMA StandStill ==
    ASSUME Typed, CacheInv, CopyInv, [Next]_vars, UNCHANGED worker, pc # "idle"
    PROVE  /\ held' \subseteq held
           /\ \A x \in held : x \in held' \/ x \in contested'
           /\ IsCurrent(obj)' => IsCurrent(obj) /\ crs'[me] = crs[me]
<1>0. /\ pc' = pc /\ me' = me /\ obj' = obj /\ me \in Objects
      /\ crs \in [Objects -> Records] /\ crs[me] \in Records /\ cache[me] \in Records /\ obj \in Records
      /\ edits \in Nat /\ crs[me].uid <= edits /\ Exists(obj)
      /\ Copied(obj, cache[me], crs[me], pc, edits)
    BY BusyFacts, CacheFields, CopyFields DEF worker, Cached
<1>1. \/ ~Stops /\ ~Goes("grant") /\ ~Goes("unfinalize") /\ ~GoesApplied
      \/ pc \in {"grant", "unfinalize", "status"} /\ ~Stops
    BY <1>0 DEF Stops, Goes, GoesApplied
<1>2. ~RevokeState /\ ~Delete /\ ~Grant
    BY <1>0, <1>1, RevokeMoves, DeleteMoves, GrantMoves DEF Goes, GoesApplied
<1>3. CASE UNCHANGED crs
    BY <1>0, <1>2, <1>3, HeldMoves DEF IsCurrent
<1>4. ASSUME NEW g \in Objects, NEW d \in Records, Writes(g, d), UserWrites(g, d), g = me
      PROVE  ~IsCurrent(obj)'
    <2>1. crs'[me] = d
        BY <1>0, <1>4, WritesOne DEF Typed
    <2>2. ~(obj.uid = d.uid /\ obj.rv = d.rv)
        BY <1>0, <1>4, CopiedWritten DEF UserWrites
    <2> QED BY <1>0, <2>1, <2>2 DEF IsCurrent
<1>5. ASSUME NEW g \in Objects, NEW d \in Records, Writes(g, d), g # me
      PROVE  UNCHANGED IsCurrent(obj) /\ crs'[me] = crs[me]
    <2>1. crs'[me] = crs[me]
        BY <1>0, <1>5, WritesOne DEF Typed
    <2> QED BY <1>0, <2>1 DEF IsCurrent
<1>6. ASSUME NEW d PROVE ~PassWrites(d)
    BY <1>0, <1>1 DEF PassWrites, PersistStatus, GoesSaved, Stops
<1> QED BY <1>2, <1>3, <1>4, <1>5, <1>6, HeldMoves, ObjectMoves

\* What the worker is about to save as the state of an object is its spec.
LEMMA SavedSpec ==
    ASSUME Typed, CopyInv, PathInv, pc \in {"status", "annotate"}, IsCurrent(obj)
    PROVE  /\ obj.state = obj.spec /\ obj.spec = crs[me].spec
           /\ obj.processed = obj.gen /\ obj.gen = crs[me].gen
<1>1. Copied(obj, cache[me], crs[me], pc, edits) /\ Exists(obj) /\ obj.uid = crs[me].uid
      /\ obj.rv = crs[me].rv
    BY CopyFields DEF IsCurrent
<1> QED BY <1>1 DEF Copied, Earlier, PathInv

\* An object lists what it listed before, and what a user has added.
ListsMore(g, list) ==
    /\ Listed(crs'[g]) \subseteq Listed(crs[g]) \cup list
    /\ \A h \in Objects : h # g => /\ crs'[h] = crs[h]
                                   /\ list \cap Listed(crs[h]) \subseteq contested'

LEMMA ListsNoMore ==
    ASSUME Typed, NEW g \in Objects, NEW d \in Records, Writes(g, d), Listed(d) \subseteq Listed(crs[g])
    PROVE  ListsMore(g, {})
BY WritesOne DEF ListsMore, Typed

LEMMA ListedMoves ==
    ASSUME Typed, CopyInv, PathInv, [Next]_vars
    PROVE  UNCHANGED crs \/ \E g \in Objects, list \in SUBSET Privileges : ListsMore(g, list)
<1> DEFINE Good == UNCHANGED crs \/ \E g \in Objects, list \in SUBSET Privileges : ListsMore(g, list)
<1>0. ASSUME NEW g \in Objects, ListsMore(g, {}) PROVE Good
    BY <1>0
<1>1. ASSUME PersistStatus PROVE Good
    <2>1. me \in Objects /\ pc = "status"
        BY <1>1, BusyFacts DEF PersistStatus
    <2>2. ASSUME IsCurrent(obj), NEW d \in Records, Writes(me, d), SavesStatus(crs[me], d)
          PROVE  ListsMore(me, {})
        <3>1. d.spec = crs[me].spec /\ d.state = crs[me].spec
            BY <2>1, <2>2, SavedSpec DEF SavesStatus
        <3>2. Listed(d) \subseteq Listed(crs[me])
            BY <3>1 DEF Listed
        <3> QED BY <2>1, <2>2, <3>2, ListsNoMore
    <2> QED BY <1>0, <1>1, <2>1, <2>2, PersistMoves
<1>2. ASSUME Annotate PROVE Good
    <2>1. me \in Objects
        BY <1>2, BusyFacts DEF Annotate
    <2>2. ASSUME NEW d \in Records, Writes(me, d), Marks(crs[me], d)
          PROVE  ListsMore(me, {})
        <3>1. Listed(d) \subseteq Listed(crs[me])
            BY <2>2 DEF Marks, Listed
        <3> QED BY <2>1, <2>2, <3>1, ListsNoMore
    <2> QED BY <1>0, <1>2, <2>1, <2>2, AnnotateMoves
<1>3. ASSUME RemoveFinalizer PROVE Good
    <2>1. me \in Objects
        BY <1>3, BusyFacts DEF RemoveFinalizer
    <2>2. Listed(NoObject) = {}
        BY NoObjectFields DEF Listed
    <2>3. Writes(me, NoObject) => ListsMore(me, {})
        BY <2>1, <2>2, NoObjectFields, ListsNoMore
    <2> QED BY <1>0, <1>3, <2>1, <2>3, RemoveMoves
<1>4. ASSUME NEW g \in Objects, NEW list \in Lists, UserCreates(g, list)
      PROVE  Good
    <2>1. /\ list \in SUBSET Privileges /\ Writes(g, Fresh(edits + 1, list)) /\ edits + 1 \in Nat
          /\ \A h \in Objects : h # g => list \cap Listed(crs[h]) \subseteq contested'
        BY <1>4, CreateMoves, BusyFacts
    <2>2. ListsMore(g, list)
        BY <2>1, FreshFields, WritesOne DEF Listed, Typed, ListsMore
    <2> QED BY <2>1, <2>2
<1>5. ASSUME NEW g \in Objects, NEW list \in Lists, UserEdits(g, list)
      PROVE  Good
    <2>1. list \in SUBSET Privileges /\ ListsMore(g, list)
        BY <1>5, EditMoves, WritesOne DEF Listed, Typed, Revises, ListsMore
    <2> QED BY <2>1
<1>6. ASSUME NEW g \in Objects, UserDeletes(g) PROVE Good
    <2>1. PICK d \in Records : Writes(g, d) /\ Revises(crs[g], d) /\ d.spec = crs[g].spec
        BY <1>6, DeletionMoves
    <2>2. Listed(d) = Listed(crs[g])
        BY <2>1 DEF Listed, Revises
    <2> QED BY <1>0, <2>1, <2>2, ListsNoMore
<1>7. ASSUME NEW g \in Objects, Begin(g) PROVE UNCHANGED crs
    BY <1>7, BeginMoves
<1>8. ASSUME Observe \/ RevokeState \/ Grant \/ Delete \/ Crash \/ SyncCache PROVE UNCHANGED crs
    BY <1>8, ObserveMoves, RevokeMoves, GrantMoves, DeleteMoves, CrashMoves, SyncMoves
<1>9. ASSUME NEW p \in Privileges, Drop(p) \/ Appear(p) PROVE UNCHANGED crs
    BY <1>9, DropMoves
<1>10. UNCHANGED vars => UNCHANGED crs
    BY DEF vars
<1> HIDE DEF Good
<1>11. UNCHANGED crs => Good
    BY DEF Good
<1>12. Reconcile => Good
    BY <1>1, <1>2, <1>3, <1>7, <1>8, <1>11 DEF Reconcile
<1>13. Users => Good
    BY <1>4, <1>5, <1>6, <1>9, <1>11 DEF Users
<1>14. Good
    BY <1>8, <1>10, <1>11, <1>12, <1>13 DEF Next
<1> QED BY <1>14 DEF Good

LEMMA ContestStep ==
    ASSUME Typed, CopyInv, PathInv, ContestInv, [Next]_vars
    PROVE  ContestInv'
<1>1. contested \subseteq contested'
    BY GrantsType
<1>2. CASE UNCHANGED crs
    BY <1>1, <1>2 DEF ContestInv
<1>3. ASSUME NEW g \in Objects, NEW list \in SUBSET Privileges, ListsMore(g, list)
      PROVE  ContestInv'
    <2>1. \A h \in Objects : h # g => Listed(crs'[g]) \cap Listed(crs'[h]) \subseteq contested'
        BY <1>1, <1>3 DEF ContestInv, ListsMore
    <2>2. \A h, k \in Objects : h # g /\ k # g /\ h # k
              => Listed(crs'[k]) \cap Listed(crs'[h]) \subseteq contested'
        BY <1>1, <1>3 DEF ContestInv, ListsMore
    <2>3. \A h, k \in Objects : h # k => Listed(crs'[k]) \cap Listed(crs'[h]) \subseteq contested'
        <3> TAKE h, k \in Objects
        <3> HAVE h # k
        <3> QED BY <2>1, <2>2
    <2> QED BY <2>3 DEF ContestInv, Listed
<1> QED BY <1>2, <1>3, ListedMoves

\* An object that is ready after a pass or a user has written it.
LEMMA ReadyWritten ==
    ASSUME Typed, CacheInv, CopyInv, PathInv, ReadyIsGranted, AppliedInv, [Next]_vars,
           NEW g \in Objects, NEW d \in Records, Ready(d),
           (pc # "idle" /\ g = me /\ PassWrites(d)) \/ UserWrites(g, d)
    PROVE  d.spec \subseteq held' \cup contested' \cup replayed'
<1>0. crs[g] \in Records /\ Cached(cache[g], crs[g], edits) /\ edits + 1 \in Nat
    BY BusyFacts, CacheFields
<1>1. CASE g = me /\ PersistStatus /\ SavesStatus(crs[me], d)
    <2>1. Ready(crs[g]) /\ d.spec = crs[g].spec
        BY <1>1 DEF SavesStatus, Newer, Ready, Exists, hasLatestGeneration
    <2>2. UNCHANGED <<held, contested, replayed>>
        BY <1>1, PersistMoves
    <2> QED BY <2>1, <2>2 DEF ReadyIsGranted
<1>2. CASE g = me /\ Annotate /\ IsCurrent(obj) /\ Marks(crs[me], d)
    <2>1. pc = "annotate" /\ UNCHANGED <<held, contested, replayed>>
        BY <1>2, AnnotateMoves DEF history
    <2>2. d.spec = obj.spec
        BY <1>2, <2>1, SavedSpec DEF Marks
    <2> QED BY <2>1, <2>2 DEF AppliedInv
<1>3. d # NoObject
    BY NoObjectFields DEF Ready
<1>4. ASSUME NEW list \in SUBSET Privileges, d = Fresh(edits + 1, list) PROVE FALSE
    BY <1>0, <1>4, FreshFields DEF Ready, hasLatestGeneration
<1>5. ~Revises(crs[g], d)
    BY <1>0, RecordTypes DEF Cached, Revises, Ready, hasLatestGeneration
<1> QED BY <1>1, <1>2, <1>3, <1>4, <1>5 DEF PassWrites, UserWrites

\* An object that is ready while the worker grants and revokes.
LEMMA ReadyRevoked ==
    ASSUME Typed, CopyInv, PathInv, ContestInv, ReadyIsGranted, RevokeState \/ Delete,
           NEW g \in Objects, Ready(crs[g])
    PROVE  crs[g].spec \subseteq held' \cup contested' \cup replayed'
<1>1. PICK done \in SUBSET (obj.state \cup obj.spec) : Revoked(done)
    BY RevokeMoves, DeleteMoves
<1>2. /\ pc \in Reading /\ UNCHANGED contested /\ me \in Objects
      /\ hasLatestGeneration(obj) => obj.deleting
    BY RevokeMoves, DeleteMoves, BusyFacts DEF PathInv, Reading
<1>3. ASSUME IsCurrent(obj), NEW x \in done, x \in crs[g].spec PROVE x \in contested
    <2>1. obj = crs[me]
        BY <1>2, <1>3, CopyFields DEF Copied, IsCurrent, Reading
    <2>2. g # me
        BY <1>2, <2>1 DEF Ready
    <2>3. x \in Listed(crs[me]) /\ x \in Listed(crs[g])
        BY <1>1, <1>3, <2>1 DEF Listed
    <2> QED BY <1>2, <2>2, <2>3 DEF ContestInv
<1>4. crs[g].spec \subseteq held \cup contested \cup replayed
    BY DEF ReadyIsGranted
<1>5. CASE IsCurrent(obj)
    BY <1>1, <1>2, <1>3, <1>4, <1>5 DEF Revoked
<1>6. CASE ~IsCurrent(obj)
    BY <1>1, <1>2, <1>4, <1>6 DEF Revoked
<1> QED BY <1>5, <1>6

LEMMA ReadyStep ==
    ASSUME Typed, CacheInv, CopyInv, PathInv, ContestInv, ReadyIsGranted, AppliedInv, [Next]_vars
    PROVE  ReadyIsGranted'
<1> SUFFICES ASSUME NEW g \in Objects, Ready(crs'[g])
             PROVE  crs'[g].spec \subseteq held' \cup contested' \cup replayed'
    BY DEF ReadyIsGranted, Ready, Exists, hasLatestGeneration
<1>1. CASE crs'[g] = crs[g]
    <2>0. crs[g].spec \subseteq held \cup contested \cup replayed /\ contested \subseteq contested'
        BY <1>1, GrantsType DEF ReadyIsGranted
    <2>1. CASE RevokeState \/ Delete
        BY <1>1, <2>1, ReadyRevoked
    <2>2. CASE Grant
        BY <1>1, <2>0, <2>2, GrantMoves DEF Granted
    <2>3. CASE UNCHANGED replayed /\ \A x \in held : x \in held' \/ x \in contested'
        BY <1>1, <2>0, <2>3
    <2> QED BY <2>1, <2>2, <2>3, HeldMoves
<1>2. ASSUME NEW h \in Objects, NEW d \in Records, Writes(h, d),
             (pc # "idle" /\ h = me /\ PassWrites(d)) \/ UserWrites(h, d), crs'[g] # crs[g]
      PROVE  crs'[g].spec \subseteq held' \cup contested' \cup replayed'
    <2>1. g = h /\ crs'[g] = d
        BY <1>2, WritesOne DEF Typed
    <2> QED BY <1>2, <2>1, ReadyWritten
<1>3. UNCHANGED crs => crs'[g] = crs[g]
    OBVIOUS
<1> QED BY <1>1, <1>2, <1>3, ObjectMoves

LEMMA AppliedStep ==
    ASSUME Typed, CacheInv, CopyInv, AppliedInv, [Next]_vars
    PROVE  AppliedInv'
<1>0. contested \subseteq contested'
    BY GrantsType
<1>1. CASE UNCHANGED worker
    <2>1. CASE pc = "idle"
        BY <1>1, <2>1 DEF worker, AppliedInv
    <2>2. CASE pc # "idle"
        <3>1. \A x \in held : x \in held' \/ x \in contested'
            BY <1>1, <2>2, StandStill
        <3>2. pc' = pc /\ obj' = obj
            BY <1>1 DEF worker
        <3> QED BY <1>0, <3>1, <3>2 DEF AppliedInv
    <2> QED BY <2>1, <2>2
<1>2. CASE Stops
    BY <1>2 DEF Stops, AppliedInv
<1>3. ASSUME NEW g \in Objects, Takes(g) PROVE AppliedInv'
    BY <1>3 DEF Takes, AppliedInv
<1>4. CASE Goes("revoke") \/ Goes("grant") \/ Goes("unfinalize")
    BY <1>4 DEF Goes, AppliedInv
<1>5. CASE Grant /\ GoesApplied
    <2>1. Granted(obj.spec) /\ obj'.spec = obj.spec
        BY <1>5, GrantMoves DEF Stops, GoesApplied
    <2> QED BY <2>1 DEF Granted, AppliedInv
<1>6. ASSUME PersistStatus, NEW d \in Records, GoesSaved(d) PROVE AppliedInv'
    BY <1>6, PersistMoves DEF GoesSaved, AppliedInv
<1> QED BY <1>1, <1>2, <1>3, <1>4, <1>5, <1>6, WorkerMoves

\* The parts of RecordInv: what is granted is recorded; and what is left of it
\* before the spec is granted, before its list is saved, and before it is let go.
Recorded    == \A p \in held : p \in unrecorded \/ \E g \in Objects : p \in crs[g].state
StateIsGone == pc = "grant" /\ IsCurrent(obj) => held \cap crs[me].state = {}
StateIsSpec == pc = "status" /\ IsCurrent(obj) => held \cap crs[me].state \subseteq obj.spec
SpecIsGone  == pc = "unfinalize" => held \cap obj.spec = {}

LEMMA RecordParts == RecordInv <=> Recorded /\ StateIsGone /\ StateIsSpec /\ SpecIsGone
BY DEF RecordInv, Recorded, StateIsGone, StateIsSpec, SpecIsGone

\* The grants of an object that is let go: its spec's are revoked, its other
\* ones noted as unrecorded.
LEMMA LetGo ==
    ASSUME Typed, CacheInv, CopyInv, PathInv, RecordInv, RemoveFinalizer, crs[me].deleting,
           NEW p \in held, p \in crs[me].state
    PROVE  p \in crs[me].state \ crs[me].spec
<1>1. /\ pc = "unfinalize" /\ obj.deleting /\ Exists(obj)
      /\ Copied(obj, cache[me], crs[me], pc, edits)
    BY CopyFields, BusyFacts DEF RemoveFinalizer, PathInv
<1>2. obj.uid = crs[me].uid
    BY <1>1 DEF Copied
<1>3. obj.spec = crs[me].spec
    BY <1>1, <1>2 DEF Copied, Earlier
<1> QED BY <1>1, <1>3 DEF RecordInv

\* The status that is saved lists what the old one did, as far as that is granted.
LEMMA SavedState ==
    ASSUME Typed, CopyInv, PathInv, RecordInv, PersistStatus, IsCurrent(obj),
           NEW d \in Records, Writes(me, d), SavesStatus(crs[me], d),
           unrecorded' = unrecorded \ obj.state, UNCHANGED held
    PROVE  Recorded'
<1>1. pc = "status" /\ me \in Objects
    BY BusyFacts DEF PersistStatus
<1>2. crs'[me] = d /\ \A h \in Objects : h # me => crs'[h] = crs[h]
    BY <1>1, WritesOne DEF Typed
<1>3. d.state = obj.state /\ obj.state = obj.spec
    BY <1>1, SavedSpec DEF SavesStatus
<1>4. held \cap crs[me].state \subseteq obj.state
    BY <1>1, <1>3 DEF RecordInv
<1> SUFFICES ASSUME NEW p \in held
             PROVE  p \in unrecorded' \/ \E g \in Objects : p \in crs'[g].state
    BY DEF Recorded
<1>5. CASE p \in obj.state
    BY <1>1, <1>2, <1>3, <1>5
<1>6. CASE p \notin obj.state
    <2>1. CASE p \in unrecorded
        BY <1>6, <2>1
    <2>2. ASSUME NEW g \in Objects, p \in crs[g].state
          PROVE  \E h \in Objects : p \in crs'[h].state
        BY <1>2, <1>4, <1>6, <2>2
    <2> QED BY <2>1, <2>2 DEF RecordInv
<1> QED BY <1>5, <1>6

\* A write that leaves every status as it is.
LEMMA StatesStay ==
    ASSUME Typed, Recorded, NEW g \in Objects, NEW d \in Records, Writes(g, d),
           crs[g].state \subseteq d.state, held' \subseteq held, UNCHANGED unrecorded
    PROVE  Recorded'
<1>1. \A h \in Objects : crs[h].state \subseteq crs'[h].state
    BY WritesOne DEF Typed
<1> QED BY <1>1 DEF Recorded

LEMMA RecordedStep ==
    ASSUME Typed, CacheInv, CopyInv, PathInv, RecordInv, [Next]_vars
    PROVE  Recorded'
<1>0. Recorded
    BY RecordParts
<1>1. ASSUME UNCHANGED crs, held' \subseteq held, UNCHANGED unrecorded PROVE Recorded'
    BY <1>0, <1>1 DEF Recorded
<1>2. ASSUME NEW g \in Objects, Begin(g) PROVE Recorded'
    BY <1>1, <1>2, BeginMoves DEF history
<1>3. ASSUME Observe \/ Crash \/ SyncCache PROVE Recorded'
    <2>1. UNCHANGED <<crs, held, unrecorded>>
        BY <1>3, ObserveMoves, CrashMoves, SyncMoves DEF history
    <2> QED BY <1>1, <2>1
<1>4. ASSUME RevokeState \/ Delete PROVE Recorded'
    <2>1. UNCHANGED crs /\ \E done : Revoked(done)
        BY <1>4, RevokeMoves, DeleteMoves
    <2> QED BY <1>0, <2>1 DEF Revoked, Recorded
<1>5. ASSUME Grant PROVE Recorded'
    <2>1. UNCHANGED crs /\ \E done : Granted(done)
        BY <1>5, GrantMoves
    <2> QED BY <1>0, <2>1 DEF Granted, Recorded
<1>6. ASSUME PersistStatus PROVE Recorded'
    BY <1>1, <1>6, PersistMoves, SavedState
<1>7. ASSUME Annotate PROVE Recorded'
    <2>1. me \in Objects /\ UNCHANGED <<held, unrecorded>>
        BY <1>7, AnnotateMoves, BusyFacts DEF Annotate, history
    <2>2. CASE UNCHANGED crs
        BY <1>1, <2>1, <2>2
    <2>3. ASSUME NEW d \in Records, Writes(me, d), Marks(crs[me], d) PROVE Recorded'
        BY <1>0, <2>1, <2>3, StatesStay DEF Marks
    <2> QED BY <1>7, <2>2, <2>3, AnnotateMoves
<1>8. ASSUME RemoveFinalizer PROVE Recorded'
    <2>1. me \in Objects /\ UNCHANGED held
        BY <1>8, RemoveMoves, BusyFacts DEF RemoveFinalizer
    <2>2. CASE UNCHANGED <<crs, unrecorded>>
        BY <1>1, <2>1, <2>2
    <2>3. CASE /\ crs[me].deleting /\ Writes(me, NoObject)
               /\ unrecorded' = unrecorded \cup (held \cap (crs[me].state \ crs[me].spec))
        <3>1. \A h \in Objects : h # me => crs'[h] = crs[h]
            BY <2>1, <2>3, WritesOne, NoObjectFields DEF Typed
        <3>2. \A p \in held : p \in crs[me].state => p \in unrecorded'
            BY <1>8, <2>3, LetGo
        <3> QED BY <1>0, <2>1, <2>3, <3>1, <3>2 DEF Recorded
    <2> QED BY <1>8, <2>2, <2>3, RemoveMoves
<1>9. ASSUME NEW g \in Objects, NEW d \in Records, Writes(g, d), UserWrites(g, d) PROVE Recorded'
    <2>1. UNCHANGED <<held, unrecorded>> /\ crs[g] \in Records /\ Cached(cache[g], crs[g], edits)
        BY <1>9, BusyFacts, CacheFields DEF UserWrites, UserActs
    <2>2. crs[g].state \subseteq d.state
        BY <1>9, <2>1, NoObjectFields DEF UserWrites, Revises, Cached
    <2> QED BY <1>0, <1>9, <2>1, <2>2, StatesStay
<1>10. ASSUME NEW g \in Objects, NEW list \in Lists, UserCreates(g, list) PROVE Recorded'
    <2>1. UserActs /\ ~Exists(crs[g]) /\ list \in SUBSET Privileges
          /\ Writes(g, Fresh(edits + 1, list)) /\ edits + 1 \in Nat
        BY <1>10, CreateMoves, BusyFacts
    <2> QED BY <1>9, <2>1, FreshFields DEF UserWrites
<1>11. ASSUME NEW g \in Objects, NEW list \in Lists, UserEdits(g, list) PROVE Recorded'
    BY <1>9, <1>11, EditMoves DEF UserWrites
<1>12. ASSUME NEW g \in Objects, UserDeletes(g) PROVE Recorded'
    BY <1>9, <1>12, DeletionMoves DEF UserWrites
<1>13. ASSUME NEW p \in Privileges, Drop(p) \/ Appear(p) PROVE Recorded'
    BY <1>1, <1>13, DropMoves
<1>14. UNCHANGED vars => Recorded'
    BY <1>0 DEF vars, history, Recorded
<1> QED BY <1>2, <1>3, <1>4, <1>5, <1>6, <1>7, <1>8, <1>10, <1>11, <1>12, <1>13, <1>14
        DEF Next, Reconcile, Users

\* The other parts are about a pass: where it has got to, what is granted can
\* only shrink until it goes on.
LEMMA LeftoverStep ==
    ASSUME Typed, CacheInv, CopyInv, RecordInv, [Next]_vars
    PROVE  StateIsGone' /\ StateIsSpec' /\ SpecIsGone'
<1> DEFINE Good == StateIsGone' /\ StateIsSpec' /\ SpecIsGone'
<1>0. StateIsGone /\ StateIsSpec /\ SpecIsGone
    BY RecordParts
<1>1. ASSUME UNCHANGED worker PROVE Good
    <2>1. pc' = pc /\ me' = me /\ obj' = obj
        BY <1>1 DEF worker
    <2>2. CASE pc = "idle"
        BY <2>1, <2>2 DEF StateIsGone, StateIsSpec, SpecIsGone
    <2>3. CASE pc # "idle"
        <3>1. held' \subseteq held /\ (IsCurrent(obj)' => IsCurrent(obj) /\ crs'[me] = crs[me])
            BY <1>1, <2>3, StandStill
        <3> QED BY <1>0, <2>1, <3>1 DEF StateIsGone, StateIsSpec, SpecIsGone
    <2> QED BY <2>2, <2>3
<1>2. ASSUME pc' \notin {"grant", "status", "unfinalize"} PROVE Good
    BY <1>2 DEF StateIsGone, StateIsSpec, SpecIsGone
<1>3. ASSUME RevokeState, Goes("grant") PROVE Good
    <2>1. pc = "revoke" /\ UNCHANGED <<crs, obj, me>> /\ pc' = "grant" /\ Revoked(obj.state)
        BY <1>3, RevokeMoves DEF Goes, Stops
    <2>2. UNCHANGED IsCurrent(obj)
        BY <2>1 DEF IsCurrent
    <2>3. IsCurrent(obj) => obj = crs[me]
        BY <2>1, CopyFields DEF Copied, IsCurrent, Reading
    <2> QED BY <2>1, <2>2, <2>3 DEF Revoked, StateIsGone, StateIsSpec, SpecIsGone
<1>4. ASSUME Grant, GoesApplied PROVE Good
    <2>1. pc = "grant" /\ UNCHANGED <<crs, me>> /\ pc' = "status" /\ Granted(obj.spec)
          /\ obj'.uid = obj.uid /\ obj'.rv = obj.rv /\ obj'.spec = obj.spec
        BY <1>4, GrantMoves DEF GoesApplied, Stops
    <2>2. IsCurrent(obj)' => IsCurrent(obj)
        BY <2>1 DEF IsCurrent, Exists
    <2> QED BY <1>0, <2>1, <2>2 DEF Granted, StateIsGone, StateIsSpec, SpecIsGone
<1>5. ASSUME Delete, Goes("unfinalize") PROVE Good
    <2>1. UNCHANGED obj /\ pc' = "unfinalize" /\ Revoked(obj.spec)
        BY <1>5, DeleteMoves DEF Goes, Stops
    <2> QED BY <2>1 DEF Revoked, StateIsGone, StateIsSpec, SpecIsGone
<1>6. ASSUME Stops \/ Goes("revoke") \/ (\E g \in Objects : Takes(g)) \/ (\E d \in Records : GoesSaved(d))
      PROVE  Good
    <2>1. pc' \notin {"grant", "status", "unfinalize"}
        BY <1>6 DEF Stops, Goes, Takes, GoesSaved
    <2> QED BY <1>2, <2>1
<1> HIDE DEF Good
<1>7. Good
    BY <1>1, <1>3, <1>4, <1>5, <1>6, WorkerMoves
<1> QED BY <1>7 DEF Good

LEMMA RecordStep ==
    ASSUME Typed, CacheInv, CopyInv, PathInv, RecordInv, [Next]_vars
    PROVE  RecordInv'
<1>1. Recorded' /\ StateIsGone' /\ StateIsSpec' /\ SpecIsGone'
    BY RecordedStep, LeftoverStep
<1> QED BY <1>1 DEF RecordInv, Recorded, StateIsGone, StateIsSpec, SpecIsGone

----------------------------------------------------------------------------
(* Theorems                                                                *)

LEMMA InitGrants == Init => GrantsInv
<1> SUFFICES ASSUME Init PROVE GrantsInv
    OBVIOUS
<1>1. \A g \in Objects : crs[g] = NoObject /\ cache[g] = NoObject
    BY DEF Init
<1>2. pc = "idle" /\ me = NoOne /\ obj = NoObject /\ held = {} /\ edits = 0
    BY DEF Init
<1>3. WorkerInv /\ CopyInv /\ PathInv /\ AppliedInv /\ RecordInv
    BY <1>2 DEF WorkerInv, CopyInv, PathInv, AppliedInv, RecordInv
<1>4. ReadyIsGranted
    BY <1>1, NoObjectFields DEF ReadyIsGranted, Ready
<1>5. ContestInv
    <2>1. Listed(NoObject) = {}
        BY NoObjectFields DEF Listed
    <2> QED BY <1>1, <2>1 DEF ContestInv
<1>6. CacheInv
    BY <1>1, <1>2, NoObjectFields DEF CacheInv, Earlier
<1> QED BY <1>3, <1>4, <1>5, <1>6 DEF GrantsInv

LEMMA GrantsStep ==
    ASSUME Typed, GrantsInv, [Next]_vars
    PROVE  Typed' /\ GrantsInv'
<1>1. Typed' /\ WorkerInv'
    BY TypeStep DEF Typed
<1>2. CacheInv' /\ CopyInv' /\ PathInv'
    BY <1>1, CacheStep, CopyStep, PathStep DEF GrantsInv
<1>3. ContestInv' /\ ReadyIsGranted' /\ AppliedInv' /\ RecordInv'
    BY ContestStep, ReadyStep, AppliedStep, RecordStep DEF GrantsInv
<1> QED BY <1>1, <1>2, <1>3 DEF GrantsInv

\* The copies of an object, the worker's way through a pass, and what is
\* recorded of what was granted agree in every reachable state.
THEOREM GrantsInvCorrect == Spec => [](Typed /\ GrantsInv)
<1>1. Typed /\ GrantsInv /\ [Next]_vars => Typed' /\ GrantsInv'
    BY GrantsStep
<1> QED BY InitTyped, InitGrants, <1>1, PTL DEF Spec

\* However the statements of its passes failed, a ClickhouseGrant that is ready
\* holds all it lists, unless another object lists it, somebody meddled with it
\* in ClickHouse, or a pass on an outdated copy revoked it.
THEOREM ReadyMeansGranted == Spec => []ReadyIsGranted
<1>1. GrantsInv => ReadyIsGranted
    BY DEF GrantsInv
<1> QED BY GrantsInvCorrect, <1>1, PTL

\* Whatever the order of edits, deletions, failures and crashes, all that is
\* granted is in the spec or the status of some object, save what a pass that
\* could not save its status has granted or a deletion has left.
THEOREM GrantsAreKnown == Spec => []GrantsAreRecorded
<1>1. GrantsInv => GrantsAreRecorded
    BY DEF GrantsInv, RecordInv, GrantsAreRecorded, AllListed, Listed
<1> QED BY GrantsInvCorrect, <1>1, PTL
=============================================================================

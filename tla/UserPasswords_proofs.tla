------------------------ MODULE UserPasswords_proofs ------------------------
(***************************************************************************)
(* Theorems about UserPasswords, for any number of objects that share a    *)
(* user, any specs, any source passwords and any bounds.                   *)
(***************************************************************************)
EXTENDS UsersInvariant, TLAPS

----------------------------------------------------------------------------
(* Values                                                                  *)

LEMMA RecordTypes ==
    ASSUME NEW c \in Records
    PROVE  /\ c.uid \in Nat /\ c.rv \in Nat /\ c.gen \in Nat /\ c.gen # 0 /\ c.spec \in Specs
           /\ c.spec.sourced \in BOOLEAN /\ c.spec.auth \in Nat /\ c.spec.acl \in Nat
           /\ c.deleting \in BOOLEAN /\ c.finalizer \in BOOLEAN /\ c.known \in BOOLEAN
           /\ c.running \in BOOLEAN /\ c.processed \in Nat /\ c.stamp \in Nat
           /\ c.processed <= c.gen
BY DEF Records, Specs

LEMMA FreshFields ==
    ASSUME NEW u \in Nat, NEW s \in Specs
    PROVE  /\ Fresh(u, s) \in Records
           /\ Fresh(u, s).uid = u /\ Fresh(u, s).spec = s /\ Untouched(Fresh(u, s))
           /\ ~IsReadyToUse(Fresh(u, s)) /\ Fresh(u, s).processed # Fresh(u, s).gen
<1> DEFINE d == Fresh(u, s)
<1>1. /\ d.uid = u /\ d.rv = 1 /\ d.gen = 1 /\ d.spec = s /\ d.deleting = FALSE
      /\ d.finalizer = FALSE /\ d.known = FALSE /\ d.running = FALSE
      /\ d.processed = 0 /\ d.stamp = 0
    BY DEF Fresh
<1>2. d \in Records
    BY DEF Fresh, Records
<1> QED BY <1>1, <1>2 DEF Untouched, IsReadyToUse

LEMMA NoObjectFields ==
    /\ NoObject \in Records /\ ~Exists(NoObject) /\ NoObject.uid = 0 /\ Untouched(NoObject)
    /\ ~IsReadyToUse(NoObject) /\ NoObject.processed # NoObject.gen /\ ~NoObject.spec.sourced
<1> DEFINE s == [sourced |-> FALSE, auth |-> 0, acl |-> 0]
<1>1. s \in Specs /\ ~s.sourced
    BY DEF Specs
<1>2. NoObject = Fresh(0, s)
    BY DEF NoObject
<1> HIDE DEF s
<1> QED BY <1>1, <1>2, FreshFields DEF Exists

\* The same incarnation, apart from what a pass notes about it.
Alike(d, c) ==
    /\ d \in Records /\ SameObject(d, c)
    /\ c.known => d.known

LEMMA AlikeItself ==
    ASSUME NEW c \in Records
    PROVE  Alike(c, c)
BY DEF Alike, SameObject

\* The notes of a pass.
LEMMA KnownFields ==
    ASSUME NEW c \in Records, NEW b \in BOOLEAN
    PROVE  LET d == [c EXCEPT !.known = b]
           IN  /\ d \in Records /\ SameObject(d, c) /\ d.known = b
               /\ d.running = c.running /\ d.processed = c.processed
BY DEF Records, SameObject

LEMMA RunningFields ==
    ASSUME NEW c \in Records
    PROVE  LET d == [c EXCEPT !.running = TRUE]
           IN  /\ d \in Records /\ SameObject(d, c) /\ d.known = c.known
               /\ d.running /\ d.processed = c.processed
BY DEF Records, SameObject

LEMMA ProcessedFields ==
    ASSUME NEW c \in Records
    PROVE  LET d == [c EXCEPT !.processed = c.gen]
           IN  /\ d \in Records /\ SameObject(d, c) /\ d.known = c.known
               /\ d.running = c.running /\ d.processed = c.gen
BY DEF Records, SameObject

\* The next version of an object.
Newer(d, c) ==
    /\ d \in Records /\ Exists(c) /\ d.uid = c.uid /\ d.rv = c.rv + 1
    /\ \/ d.gen = c.gen /\ d.spec = c.spec /\ d.deleting = c.deleting
       \/ d.gen = c.gen + 1 /\ ~c.deleting
    /\ c.finalizer => d.finalizer
    /\ c.known => d.known

LEMMA EarlierThanNewer ==
    ASSUME NEW c \in Records, NEW now \in Records, NEW d, Earlier(c, now), Newer(d, now)
    PROVE  Earlier(c, d) /\ (Exists(c) /\ c.uid = d.uid => c.rv < d.rv)
BY RecordTypes DEF Earlier, Newer

LEMMA NewerNotGone ==
    ASSUME NEW c \in Records, NEW d, Newer(d, c)
    PROVE  d # c /\ Exists(d)
BY RecordTypes DEF Newer, Exists

\* But for its version, generation and what else is listed.
SameSpec(d, c)  == d.uid = c.uid /\ d.spec = c.spec
SameNotes(d, c) ==
    /\ d.finalizer = c.finalizer /\ d.known = c.known /\ d.running = c.running
    /\ d.processed = c.processed /\ d.stamp = c.stamp

LEMMA WriteFields ==
    ASSUME NEW c \in Records
    PROVE  /\ Write(c) \in Records /\ SameSpec(Write(c), c) /\ SameNotes(Write(c), c)
           /\ Write(c).rv = c.rv + 1 /\ Write(c).gen = c.gen /\ Write(c).deleting = c.deleting
<1> DEFINE k == c.rv + 1
           d == [c EXCEPT !.rv = k]
<1>1. k \in Nat
    BY RecordTypes
<1>2. Write(c) = d
    BY DEF Write
<1>3. d.rv = k
    <2> HIDE DEF k
    <2> QED BY DEF Records
<1>4. d \in Records /\ SameSpec(d, c) /\ SameNotes(d, c) /\ d.gen = c.gen /\ d.deleting = c.deleting
    <2> HIDE DEF k
    <2> QED BY <1>1 DEF Records, SameSpec, SameNotes
<1> HIDE DEF d
<1> QED BY <1>2, <1>3, <1>4

\* ensureFinalizer
LEMMA HeldFields ==
    ASSUME NEW c \in Records, Exists(c)
    PROVE  LET d == Write([c EXCEPT !.finalizer = TRUE])
           IN  /\ Newer(d, c) /\ d.gen = c.gen /\ d.spec = c.spec /\ d.deleting = c.deleting
               /\ d.finalizer /\ d.known = c.known /\ d.running = c.running
               /\ d.processed = c.processed
<1> DEFINE e == [c EXCEPT !.finalizer = TRUE]
<1>1. /\ e \in Records /\ SameSpec(e, c) /\ e.rv = c.rv /\ e.gen = c.gen
      /\ e.deleting = c.deleting /\ e.finalizer /\ e.known = c.known /\ e.running = c.running
      /\ e.processed = c.processed
    BY DEF Records, SameSpec
<1> HIDE DEF e
<1> QED BY <1>1, WriteFields DEF Newer, SameSpec, SameNotes, e

\* persistReconcileState: the status, and the annotations.
LEMMA IdentifiedFields ==
    ASSUME NEW c \in Records, NEW b \in BOOLEAN, Exists(c), c.known => b
    PROVE  LET d == Write([c EXCEPT !.known = b])
           IN  /\ Newer(d, c) /\ d.gen = c.gen /\ d.spec = c.spec /\ d.deleting = c.deleting
               /\ d.finalizer = c.finalizer /\ d.known = b /\ d.running = c.running
               /\ d.processed = c.processed
<1> DEFINE f == [c EXCEPT !.known = b]
<1>1. /\ f \in Records /\ SameObject(f, c) /\ f.known = b
      /\ f.running = c.running /\ f.processed = c.processed
    BY KnownFields
<1> HIDE DEF f
<1> QED BY <1>1, WriteFields DEF Newer, SameObject, SameSpec, SameNotes, f

LEMMA AnnotatedFields ==
    ASSUME NEW c \in Records, NEW e \in Records, Exists(c), e.gen = c.gen
    PROVE  LET d == Write([c EXCEPT !.running = e.running, !.processed = e.processed])
           IN  /\ Newer(d, c) /\ d.gen = c.gen /\ d.spec = c.spec /\ d.deleting = c.deleting
               /\ d.finalizer = c.finalizer /\ d.known = c.known /\ d.running = e.running
               /\ d.processed = e.processed
<1> DEFINE r == e.running
           p == e.processed
           f == [c EXCEPT !.running = r, !.processed = p]
<1>1. r \in BOOLEAN /\ p \in Nat /\ p <= c.gen
    BY RecordTypes
<1> HIDE DEF r, p
<1>2. /\ f \in Records /\ SameSpec(f, c) /\ f.rv = c.rv /\ f.gen = c.gen
      /\ f.deleting = c.deleting /\ f.finalizer = c.finalizer /\ f.known = c.known
      /\ f.processed = p
    BY <1>1 DEF Records, SameSpec
<1>3. f.running = r
    BY <1>1 DEF Records
<1> HIDE DEF f
<1>4. LET d == Write(f)
      IN  /\ Newer(d, c) /\ d.gen = c.gen /\ d.spec = c.spec /\ d.deleting = c.deleting
          /\ d.finalizer = c.finalizer /\ d.known = c.known /\ d.running = r
          /\ d.processed = p
    BY <1>1, <1>2, <1>3, WriteFields DEF Newer, SameSpec, SameNotes
<1> QED BY <1>4 DEF f, r, p

\* A user changes or deletes it.
LEMMA RevisedFields ==
    ASSUME NEW c \in Records, NEW s \in Specs, Exists(c), ~c.deleting
    PROVE  /\ LET d == Revised(c, s)
              IN  /\ Newer(d, c) /\ d.gen = c.gen + 1 /\ d.processed = c.processed
                  /\ d.finalizer = c.finalizer /\ d.known = c.known /\ d.deleting = c.deleting
           /\ LET d == Deleted(c)
              IN  /\ Newer(d, c) /\ d.gen = c.gen + 1 /\ d.processed = c.processed
                  /\ d.finalizer = c.finalizer /\ d.known = c.known /\ d.deleting
<1> DEFINE g == c.gen + 1
           e == [c EXCEPT !.spec = s, !.gen = g]
           f == [c EXCEPT !.deleting = TRUE, !.gen = g]
<1>1. g \in Nat /\ g # 0 /\ c.processed <= g /\ c.gen \in Nat
    BY RecordTypes
<1>2. /\ e \in Records /\ e.uid = c.uid /\ e.rv = c.rv /\ e.gen = g
      /\ e.deleting = c.deleting /\ SameNotes(e, c)
    <2> HIDE DEF g
    <2> QED BY <1>1 DEF Records, SameNotes
<1>3. /\ f \in Records /\ f.uid = c.uid /\ f.rv = c.rv /\ f.gen = g
      /\ f.deleting = TRUE /\ SameNotes(f, c)
    <2> HIDE DEF g
    <2> QED BY <1>1 DEF Records, SameNotes
<1>4. Revised(c, s) = Write(e) /\ Deleted(c) = Write(f)
    BY DEF Revised, Deleted
<1> HIDE DEF e, f
<1>5. /\ Newer(Write(e), c) /\ Write(e).gen = c.gen + 1 /\ SameNotes(Write(e), c)
      /\ Write(e).deleting = c.deleting
    BY <1>1, <1>2, WriteFields DEF Newer, SameSpec, SameNotes
<1>6. /\ Newer(Write(f), c) /\ Write(f).gen = c.gen + 1 /\ SameNotes(Write(f), c)
      /\ Write(f).deleting
    BY <1>1, <1>3, WriteFields DEF Newer, SameSpec, SameNotes
<1> QED BY <1>4, <1>5, <1>6 DEF SameNotes

\* triggerReconciliation
LEMMA PatchedFields ==
    ASSUME NEW o \in Objects, crs[o] \in Records, NEW c, NEW t \in Nat, Exists(crs[o])
    PROVE  LET d == Write(Patched(c, o, t))
           IN  /\ Newer(d, crs[o]) /\ d.gen = crs[o].gen /\ d.spec = crs[o].spec
               /\ d.deleting = crs[o].deleting /\ d.finalizer = crs[o].finalizer
               /\ d.known = crs[o].known /\ d.running = crs[o].running
               /\ d.processed = (IF c.processed # 0 THEN 0 ELSE crs[o].processed)
<1> DEFINE p == IF c.processed # 0 THEN 0 ELSE crs[o].processed
           s == IF c.stamp # t THEN t ELSE crs[o].stamp
           e == [crs[o] EXCEPT !.processed = p, !.stamp = s]
<1>1. p \in Nat /\ s \in Nat /\ p <= crs[o].gen
    BY RecordTypes
<1>2. Patched(c, o, t) = e
    BY DEF Patched
<1>3. /\ e \in Records /\ SameSpec(e, crs[o]) /\ e.rv = crs[o].rv /\ e.gen = crs[o].gen
      /\ e.deleting = crs[o].deleting /\ e.finalizer = crs[o].finalizer
      /\ e.known = crs[o].known /\ e.running = crs[o].running /\ e.processed = p
    <2> HIDE DEF p, s
    <2> QED BY <1>1 DEF Records, SameSpec
<1> HIDE DEF p, e
<1>4. LET d == Write(e)
      IN  /\ Newer(d, crs[o]) /\ d.gen = crs[o].gen /\ d.spec = crs[o].spec
          /\ d.deleting = crs[o].deleting /\ d.finalizer = crs[o].finalizer
          /\ d.known = crs[o].known /\ d.running = crs[o].running
          /\ d.processed = p
    BY <1>3, WriteFields DEF Newer, SameSpec, SameNotes
<1> QED BY <1>2, <1>4 DEF p


----------------------------------------------------------------------------
(* The worker of an object                                                 *)

LEMMA WorkTypes ==
    ASSUME TypeOK, NEW o \in Objects
    PROVE  /\ work[o] \in Works /\ crs[o] \in Records /\ cache[o] \in Records
           /\ work[o].pc \in PCs /\ work[o].orig \in Records /\ Me(o) \in Records
           /\ work[o].pw \in Nat \cup {Keep} /\ work[o].retry \in BOOLEAN
           /\ At(o, "reset") => work[o].pw \in Nat
           /\ edits \in Nat /\ faults \in Nat /\ made \in Nat
<1>1. work[o] \in Works /\ crs[o] \in Records /\ cache[o] \in Records
    BY DEF TypeOK
<1>2. /\ work[o].pc \in PCs /\ work[o].orig \in Records /\ Me(o) \in Records
      /\ work[o].pw \in Nat \cup {Keep} /\ work[o].retry \in BOOLEAN
    BY <1>1 DEF Works, Me
<1> QED BY <1>1, <1>2 DEF TypeOK

LEMMA SeenTypes ==
    ASSUME TypeOK
    PROVE  seen \in Nat /\ (seen # Absent => seen # NoPassword)
<1>1. seen \in Sources \cup {Absent}
    BY DEF TypeOK
<1>2. \A s \in Sources : s \in Nat
    BY SourcesAssumption
<1> QED BY <1>1, <1>2 DEF Absent, NoPassword

LEMMA UserTypes ==
    ASSUME NEW u \in Users
    PROVE  /\ u.there \in BOOLEAN /\ u.pw \in Nat /\ u.shown \in Nat /\ u.lag \in BOOLEAN
           /\ u.auth \in Nat /\ u.acl \in Nat
BY DEF Users

LEMMA IdleFields ==
    /\ Idle \in Works /\ Idle.pc = "idle" /\ Idle.orig = NoObject /\ Idle.obj = NoObject
    /\ Idle.pw = Keep /\ Idle.retry = FALSE
<1>1. "idle" \in PCs
    BY DEF PCs
<1> QED BY <1>1, NoObjectFields DEF Idle, Works, Keep

\* Only the worker of o moves: it stops, or goes on with a copy.
Moves(o) ==
    /\ work' \in [Objects -> Works] /\ queued' \subseteq Objects
    /\ \A p \in Objects : p # o => work'[p] = work[p]
    /\ \A p \in Objects : work'[p].pc = "reset" => work'[p].pw \in Nat
Stops(o) == Moves(o) /\ work'[o] = Idle
Goes(o, P) ==
    /\ Moves(o)
    /\ work'[o].pc \in P /\ work'[o].orig = work[o].orig
    /\ Alike(work'[o].obj, Me(o))
    /\ work'[o].pc \in {"create", "update", "reset"}
       => work'[o].obj.running = Me(o).running /\ work'[o].obj.processed = Me(o).processed
    /\ work'[o].pc = "unfinalize" => work'[o].obj = Me(o)
Has(o, c, pw, retry) == work'[o].obj = c /\ work'[o].pw = pw /\ work'[o].retry = retry

LEMMA ReturnFacts ==
    ASSUME TypeOK, NEW o \in Objects, NEW b \in BOOLEAN, Return(o, b)
    PROVE  Stops(o)
<1>1. work \in [Objects -> Works] /\ work' = [work EXCEPT ![o] = Idle] /\ queued' \subseteq Objects
    BY DEF TypeOK, Return
<1>2. /\ work' \in [Objects -> Works] /\ work'[o] = Idle
      /\ \A p \in Objects : p # o => work'[p] = work[p]
    BY <1>1, IdleFields
<1>3. \A p \in Objects : work[p].pc = "reset" => work[p].pw \in Nat
    BY DEF TypeOK, At
<1> QED BY <1>1, <1>2, <1>3, IdleFields DEF Stops, Moves

LEMMA GotoFacts ==
    ASSUME TypeOK, NEW o \in Objects, NEW p \in PCs, NEW c \in Records, Alike(c, Me(o)),
           NEW w \in Nat \cup {Keep}, NEW r \in BOOLEAN, Goto(o, p, c, w, r),
           p = "reset" => w \in Nat,
           p \in {"create", "update", "reset"}
           => c.running = Me(o).running /\ c.processed = Me(o).processed,
           p = "unfinalize" => c = Me(o)
    PROVE  Goes(o, {p}) /\ Has(o, c, w, r)
<1> DEFINE d == [work[o] EXCEPT !.pc = p, !.obj = c, !.pw = w, !.retry = r]
<1>1. work \in [Objects -> Works] /\ work[o] \in Works /\ queued' \subseteq Objects
    BY WorkTypes DEF TypeOK, Goto
<1>2. work' = [work EXCEPT ![o] = d]
    BY DEF Goto
<1>3. /\ d \in Works /\ d.pc = p /\ d.obj = c /\ d.pw = w /\ d.retry = r
      /\ d.orig = work[o].orig
    BY <1>1 DEF Works
<1> HIDE DEF d
<1>4. /\ work' \in [Objects -> Works] /\ work'[o] = d
      /\ \A q \in Objects : q # o => work'[q] = work[q]
    BY <1>1, <1>2, <1>3
<1>5. \A q \in Objects : work[q].pc = "reset" => work[q].pw \in Nat
    BY DEF TypeOK, At
<1>6. Moves(o)
    BY <1>1, <1>3, <1>4, <1>5 DEF Moves
<1> QED BY <1>3, <1>4, <1>6 DEF Goes, Has

LEMMA FinishFacts ==
    ASSUME TypeOK, NEW o \in Objects, NEW c \in Records, Alike(c, Me(o)), Finish(o, c)
    PROVE  \/ Stops(o) /\ c = work[o].orig
           \/ Goes(o, {"persist"}) /\ Has(o, c, Keep, FALSE)
<1>1. CASE c = work[o].orig
    <2>1. Return(o, TRUE)
        BY <1>1 DEF Finish
    <2> QED BY <1>1, <2>1, ReturnFacts
<1>2. CASE c # work[o].orig
    <2>1. Goto(o, "persist", c, Keep, FALSE)
        BY <1>2 DEF Finish
    <2>2. "persist" \in PCs /\ Keep \in Nat \cup {Keep}
        BY DEF PCs
    <2> QED BY <2>1, <2>2, GotoFacts
<1> QED BY <1>1, <1>2

LEMMA GoesSubset ==
    ASSUME NEW o, NEW P, NEW Q, Goes(o, P), P \subseteq Q
    PROVE  Goes(o, Q)
BY DEF Goes

\* Types, when a worker moves and little else.
LEMMA MovesTypes ==
    ASSUME TypeOK, NEW o \in Objects, Moves(o), UNCHANGED <<setup, cache, source, watcher, edits>>,
           crs' \in [Objects -> Records], secrets' \in [Objects -> Nat],
           user' \in Users, user'.lag => user'.shown = NoPassword,
           made' \in Nat, faults' \in Nat, meddled' = meddled, unseen' = unseen,
           unheard' \in BOOLEAN,
           lost' \subseteq lost \cup {"half made", "cleared"}
    PROVE  TypeOK'
BY DEF TypeOK, Moves, watcher, At

LEMMA FaultTypes ==
    ASSUME TypeOK
    PROVE  /\ Fault => faults' \in Nat
           /\ faults' = faults => faults' \in Nat
           /\ Unheard => unheard' \in BOOLEAN
           /\ UNCHANGED unheard => unheard' \in BOOLEAN
<1>1. /\ unheard \in BOOLEAN /\ faults \in Nat
    BY DEF TypeOK
<1>2. (unheard \/ KindIs("ClickhouseUser")) \in BOOLEAN
    BY <1>1 DEF KindIs
<1>3. Fault => faults' \in Nat
    BY <1>1 DEF Fault
<1> QED BY <1>1, <1>2, <1>3 DEF Unheard


\* A pass ends with nothing learned of the object, or with something to save.
SameMarks(o) == /\ work'[o].obj.running = Me(o).running
                /\ work'[o].obj.processed = Me(o).processed
Ends(o)   == Stops(o) /\ (Me(o).known => work[o].orig.known)
Closes(o) == Ends(o) \/ Goes(o, {"persist"})
Leaves(o) == Ends(o) \/ (Goes(o, {"persist"}) /\ SameMarks(o))

LEMMA FinishCloses ==
    ASSUME TypeOK, NEW o \in Objects, NEW c \in Records, Alike(c, Me(o)), Finish(o, c)
    PROVE  /\ Closes(o) /\ Moves(o)
           /\ c.running = Me(o).running /\ c.processed = Me(o).processed => Leaves(o)
<1>1. CASE Stops(o) /\ c = work[o].orig
    BY <1>1 DEF Closes, Leaves, Ends, Alike, Stops
<1>2. CASE Goes(o, {"persist"}) /\ Has(o, c, Keep, FALSE)
    BY <1>2 DEF Closes, Leaves, Goes, SameMarks, Has
<1> QED BY <1>1, <1>2, FinishFacts

LEMMA FinishLeaves ==
    ASSUME TypeOK, NEW o \in Objects, Finish(o, Me(o))
    PROVE  Leaves(o) /\ Moves(o)
<1>1. Me(o) \in Records
    BY WorkTypes
<1> QED BY <1>1, AlikeItself, FinishCloses

\* Where everything but the worker stays.
StaysPut == UNCHANGED <<setup, crs, cache, secrets, source, watcher, edits, meddled, unseen>>

LEMMA StaysPutTypes ==
    ASSUME TypeOK, NEW o \in Objects, Moves(o), StaysPut,
           user' \in Users, user'.lag => user'.shown = NoPassword,
           made' \in Nat, faults' \in Nat, unheard' \in BOOLEAN,
           lost' \subseteq lost \cup {"half made", "cleared"}
    PROVE  TypeOK'
<1>1. crs' \in [Objects -> Records] /\ secrets' \in [Objects -> Nat]
    BY DEF StaysPut, TypeOK
<1> QED BY <1>1, MovesTypes DEF StaysPut

\* A worker takes the copy in the cache.
Takes(o) ==
    /\ Moves(o) /\ Exists(cache[o])
    /\ work'[o].orig = cache[o] /\ work'[o].obj = cache[o]
    /\ work'[o].pc = IF cache[o].deleting THEN "delete"
                     ELSE IF cache[o].finalizer THEN "observe" ELSE "hold"

LEMMA BeginMoves ==
    ASSUME TypeOK, NEW o \in Objects, Begin(o)
    PROVE  /\ TypeOK' /\ At(o, "idle") /\ (Takes(o) \/ UNCHANGED work)
           /\ Exists(cache[o]) \/ UNCHANGED work
           /\ StaysPut /\ UNCHANGED <<aiven, faults, lost, unheard>>
<1>1. At(o, "idle") /\ StaysPut /\ UNCHANGED <<aiven, faults, lost, unheard>>
    BY DEF Begin, StaysPut, bounds, history
<1>2. Moves(o) /\ (Takes(o) \/ UNCHANGED work) /\ (Exists(cache[o]) \/ UNCHANGED work)
    <2>1. CASE ~Exists(cache[o])
        <3>1. UNCHANGED work /\ queued' \subseteq Objects /\ work \in [Objects -> Works]
            BY <2>1 DEF Begin, TypeOK
        <3>2. \A p \in Objects : work[p].pc = "reset" => work[p].pw \in Nat
            BY DEF TypeOK, At
        <3> QED BY <3>1, <3>2 DEF Moves
    <2>2. CASE Exists(cache[o])
        <3> DEFINE c == cache[o]
                   p == IF c.deleting THEN "delete"
                        ELSE IF c.finalizer THEN "observe" ELSE "hold"
                   w == [Idle EXCEPT !.pc = p, !.orig = c, !.obj = c]
        <3>1. c \in Records /\ p \in PCs /\ p # "reset"
            BY WorkTypes DEF PCs
        <3>2. work' = [work EXCEPT ![o] = w] /\ queued' \subseteq Objects
            BY <2>2 DEF Begin, TypeOK
        <3>3. w \in Works /\ w.pc = p /\ w.orig = c /\ w.obj = c
            <4> HIDE DEF p, c
            <4> QED BY <3>1, IdleFields DEF Works
        <3> HIDE DEF w
        <3>4. /\ work' \in [Objects -> Works] /\ work'[o] = w
              /\ \A q \in Objects : q # o => work'[q] = work[q]
            BY <3>2, <3>3 DEF TypeOK
        <3>5. \A q \in Objects : work[q].pc = "reset" => work[q].pw \in Nat
            BY DEF TypeOK, At
        <3>6. Moves(o)
            BY <3>1, <3>2, <3>3, <3>4, <3>5 DEF Moves
        <3> QED BY <2>2, <3>3, <3>4, <3>6 DEF Takes
    <2> QED BY <2>1, <2>2
<1>3. TypeOK'
    <2>1. /\ user \in Users /\ (user.lag => user.shown = NoPassword) /\ made \in Nat
          /\ faults \in Nat /\ unheard \in BOOLEAN
        BY DEF TypeOK
    <2> QED BY <1>1, <1>2, <2>1, StaysPutTypes DEF aiven
<1> QED BY <1>1, <1>2, <1>3


\* One object changes.
Writes(o, d) == crs' = [crs EXCEPT ![o] = d]

\* ensureFinalizer writes the object, or finds that it has the finalizer.
Holds(o) ==
    LET d == crs'[o]
    IN /\ Moves(o) /\ work'[o].pc = "observe" /\ work'[o].orig = d /\ work'[o].obj = d
       /\ Writes(o, d) /\ d.finalizer
       /\ IsCurrent(o, cache[o])
       /\ \/ d = cache[o]
          \/ /\ ~cache[o].finalizer
             /\ Newer(d, cache[o]) /\ d.gen = cache[o].gen /\ d.spec = cache[o].spec
             /\ d.deleting = cache[o].deleting /\ d.known = cache[o].known
             /\ d.running = cache[o].running /\ d.processed = cache[o].processed

LEMMA WritesOne ==
    ASSUME TypeOK, NEW o \in Objects, NEW d \in Records, Writes(o, d)
    PROVE  /\ crs' \in [Objects -> Records] /\ crs'[o] = d
           /\ \A p \in Objects : p # o => crs'[p] = crs[p]
BY DEF TypeOK, Writes

LEMMA HoldMoves ==
    ASSUME TypeOK, NEW o \in Objects, Hold(o)
    PROVE  /\ TypeOK' /\ At(o, "hold")
           /\ UNCHANGED <<setup, cache, secrets, source, watcher, aiven, edits, history>>
           /\ (Stops(o) /\ UNCHANGED crs) \/ Holds(o)
<1>1. /\ At(o, "hold")
      /\ UNCHANGED <<setup, cache, secrets, source, watcher, aiven, edits, history>>
    BY DEF Hold
<1>2. crs \in [Objects -> Records] /\ cache[o] \in Records
    BY WorkTypes DEF TypeOK
<1>3. ((Stops(o) /\ UNCHANGED crs) \/ Holds(o)) /\ faults' \in Nat
    <2> DEFINE c == cache[o]
               held == IF c.finalizer THEN c ELSE Write([c EXCEPT !.finalizer = TRUE])
    <2>1. CASE /\ IsCurrent(o, c)
               /\ crs' = [crs EXCEPT ![o] = held]
               /\ work' = [work EXCEPT ![o] = [@ EXCEPT !.pc = "observe", !.orig = held, !.obj = held]]
               /\ UNCHANGED <<queued, faults>>
        <3>1. /\ held \in Records /\ held.finalizer
              /\ \/ held = c
                 \/ /\ ~c.finalizer
                    /\ Newer(held, c) /\ held.gen = c.gen /\ held.spec = c.spec
                    /\ held.deleting = c.deleting /\ held.known = c.known
                    /\ held.running = c.running /\ held.processed = c.processed
            <4>1. CASE c.finalizer
                BY <1>2, <4>1
            <4>2. CASE ~c.finalizer
                <5>1. Exists(c) /\ held = Write([c EXCEPT !.finalizer = TRUE])
                    BY <2>1, <4>2 DEF IsCurrent
                <5> HIDE DEF held, c
                <5>2. c \in Records
                    BY <1>2 DEF c
                <5> QED BY <4>2, <5>1, <5>2, HeldFields DEF Newer
            <4> QED BY <4>1, <4>2
        <3> HIDE DEF held, c
        <3>2. crs' \in [Objects -> Records] /\ crs'[o] = held
            BY <1>2, <2>1, <3>1
        <3> DEFINE w == [work[o] EXCEPT !.pc = "observe", !.orig = held, !.obj = held]
        <3>3. w \in Works /\ w.pc = "observe" /\ w.orig = held /\ w.obj = held
            <4>1. work[o] \in Works /\ "observe" \in PCs
                BY WorkTypes DEF PCs
            <4> QED BY <3>1, <4>1 DEF Works
        <3>4. work' = [work EXCEPT ![o] = w]
            BY <2>1
        <3> HIDE DEF w
        <3>5. /\ work' \in [Objects -> Works] /\ work'[o] = w
              /\ \A p \in Objects : p # o => work'[p] = work[p]
            BY <3>3, <3>4 DEF TypeOK
        <3>6. \A p \in Objects : work[p].pc = "reset" => work[p].pw \in Nat
            BY DEF TypeOK, At
        <3>7. Moves(o)
            BY <2>1, <3>3, <3>5, <3>6 DEF Moves, TypeOK
        <3>8. Holds(o)
            BY <2>1, <3>1, <3>2, <3>3, <3>5, <3>7 DEF Holds, Writes, c
        <3> QED BY <2>1, <3>8 DEF TypeOK
    <2>2. CASE ~IsCurrent(o, c) /\ Return(o, TRUE) /\ UNCHANGED <<crs, faults>>
        BY <2>2, ReturnFacts DEF TypeOK
    <2>3. CASE Fault /\ Return(o, TRUE) /\ UNCHANGED crs
        BY <2>3, ReturnFacts, FaultTypes
    <2> QED BY <2>1, <2>2, <2>3 DEF Hold
<1>4. TypeOK'
    <2>1. /\ user \in Users /\ (user.lag => user.shown = NoPassword) /\ made \in Nat
          /\ unheard \in BOOLEAN /\ secrets \in [Objects -> Nat]
        BY DEF TypeOK
    <2>2. Moves(o) /\ crs' \in [Objects -> Records]
        <3>1. Holds(o) => cache[o] \in Records /\ crs'[o] \in Records
            BY <1>2 DEF Holds, Newer
        <3> QED BY <1>2, <1>3, <3>1, WritesOne DEF Holds, Stops
    <2> QED BY <1>1, <1>3, <2>1, <2>2, MovesTypes DEF aiven, history
<1> QED BY <1>1, <1>3, <1>4

LEMMA ObserveMoves ==
    ASSUME TypeOK, NEW o \in Objects, Observe(o), Me(o) = work[o].orig
    PROVE  /\ TypeOK' /\ At(o, "observe") /\ StaysPut /\ UNCHANGED <<aiven, lost, unheard>>
           /\ \/ Leaves(o)
              \/ Goes(o, {"create", "update"})
              \/ Goes(o, {"publish"}) /\ SameMarks(o) /\ IsReadyToUse(Me(o))
<1> DEFINE Result == /\ Moves(o)
                     /\ \/ Leaves(o)
                        \/ Goes(o, {"create", "update"})
                        \/ Goes(o, {"publish"}) /\ SameMarks(o) /\ IsReadyToUse(Me(o))
<1>1. At(o, "observe") /\ StaysPut /\ UNCHANGED <<aiven, lost, unheard>> /\ faults' \in Nat
    BY FaultTypes DEF Observe, StaysPut, history
<1>2. Me(o) \in Records /\ Alike(Me(o), Me(o))
    BY WorkTypes, AlikeItself
<1>3. /\ {"create", "update", "publish"} \subseteq PCs /\ Keep \in Nat \cup {Keep}
      /\ FALSE \in BOOLEAN
    BY DEF PCs
<1>4. /\ user.shown \in Nat /\ seen \in Nat
    BY UserTypes, SeenTypes DEF TypeOK
<1>5. ASSUME ObserveServiceUser(o) PROVE Result
    <2>1. CASE Goto(o, "update", Me(o), Keep, FALSE)
        <3>1. Goes(o, {"update"})
            BY <1>2, <1>3, <2>1, GotoFacts
        <3> QED BY <3>1, GoesSubset DEF Goes
    <2>2. CASE IsReadyToUse(Me(o)) /\ Goto(o, "publish", Me(o), user.shown, FALSE)
        <3>1. Goes(o, {"publish"}) /\ Has(o, Me(o), user.shown, FALSE)
            BY <1>2, <1>3, <1>4, <2>2, GotoFacts
        <3> QED BY <2>2, <3>1 DEF Goes, Has, SameMarks
    <2> QED BY <1>5, <2>1, <2>2 DEF ObserveServiceUser
<1>6. ASSUME ObserveClickhouseUser(o) PROVE Result
    <2> DEFINE c == [Me(o) EXCEPT !.known = TRUE]
    <2>1. /\ c \in Records /\ SameObject(c, Me(o)) /\ c.known = TRUE
          /\ c.running = Me(o).running /\ c.processed = Me(o).processed
        BY <1>2, KnownFields
    <2>2. Alike(c, Me(o)) /\ (IsReadyToUse(c) <=> IsReadyToUse(Me(o)))
        BY <2>1 DEF Alike, IsReadyToUse, SameObject
    <2>3. \/ Finish(o, c)
          \/ Goto(o, "update", c, Keep, FALSE)
          \/ /\ IsReadyToUse(c)
             /\ Goto(o, "publish", c, IF c.spec.sourced THEN seen ELSE Keep, FALSE)
        BY <1>6 DEF ObserveClickhouseUser
    <2> HIDE DEF c
    <2>4. CASE Finish(o, c)
        BY <2>1, <2>2, <2>4, FinishCloses
    <2>5. CASE Goto(o, "update", c, Keep, FALSE)
        <3>1. Goes(o, {"update"})
            BY <1>3, <2>1, <2>2, <2>5, GotoFacts
        <3> QED BY <3>1, GoesSubset DEF Goes
    <2>6. CASE /\ IsReadyToUse(c)
               /\ Goto(o, "publish", c, IF c.spec.sourced THEN seen ELSE Keep, FALSE)
        <3> DEFINE pw == IF c.spec.sourced THEN seen ELSE Keep
        <3>1. pw \in Nat \cup {Keep}
            BY <1>4
        <3> HIDE DEF pw
        <3>2. Goes(o, {"publish"}) /\ Has(o, c, pw, FALSE)
            BY <1>3, <2>1, <2>2, <2>6, <3>1, GotoFacts DEF pw
        <3> QED BY <2>1, <2>2, <2>6, <3>2 DEF Goes, Has, SameMarks
    <2> QED BY <2>3, <2>4, <2>5, <2>6
<1>7. Result
    <2>1. CASE Goto(o, "create", Me(o), Keep, FALSE)
        <3>1. Goes(o, {"create"})
            BY <1>2, <1>3, <2>1, GotoFacts
        <3> QED BY <3>1, GoesSubset DEF Goes
    <2>2. CASE Finish(o, Me(o))
        BY <2>2, FinishLeaves
    <2> QED BY <1>5, <1>6, <2>1, <2>2 DEF Observe
<1>8. TypeOK'
    <2>1. /\ user \in Users /\ (user.lag => user.shown = NoPassword) /\ made \in Nat
          /\ unheard \in BOOLEAN
        BY DEF TypeOK
    <2> QED BY <1>1, <1>7, <2>1, StaysPutTypes DEF aiven
<1> QED BY <1>1, <1>7, <1>8


LEMMA NewUserFields ==
    ASSUME NEW p \in Nat, NEW a \in Nat, NEW l \in Nat
    PROVE  LET u == NewUser(p, a, l)
           IN  u \in Users /\ u.there = TRUE /\ u.pw = p /\ u.lag = FALSE
BY DEF NewUser, Users

LEMMA NoUserFields == NoUser \in Users /\ NoUser.there = FALSE /\ NoUser.lag = FALSE
BY DEF NoUser, Users

\* The password that a pass with copy c declares.
LEMMA DeclaredFields ==
    ASSUME TypeOK, NEW c \in Records, NEW d, SameObject(d, c)
    PROVE  /\ Declared(c) \in Nat /\ Declared(d) = Declared(c)
           /\ Undeclared(d) = Undeclared(c)
           /\ c.spec.sourced /\ ~Undeclared(c) => Declared(c) = seen /\ seen # NoPassword
BY SeenTypes, RecordTypes DEF Declared, Undeclared, SameObject, NoPassword

\* The user is made, unless it is there; and if the pass fails then, an object
\* that counts as up to date has a password of Aiven's making.
LEMMA CreateMoves ==
    ASSUME TypeOK, NEW o \in Objects, Create(o)
    PROVE  /\ TypeOK' /\ At(o, "create") /\ StaysPut
           /\ \/ Leaves(o) /\ UNCHANGED <<user, unheard, lost>>
              \/ /\ user'.there /\ ~Undeclared(Me(o)) /\ UNCHANGED <<unheard, lost>>
                 /\ KindIs("ClickhouseUser") => work'[o].obj.known
                 /\ \/ Goes(o, {"reset"}) /\ work'[o].pw = Declared(Me(o)) /\ work'[o].retry
                    \/ /\ Goes(o, {"publish"})
                       /\ Declared(Me(o)) # NoPassword => user'.pw = Declared(Me(o))
              \/ user'.there /\ Leaves(o) /\ Unheard /\ lost' = HalfMade(o)
<1> DEFINE m == Me(o)
           c == [m EXCEPT !.known = m.known \/ KindIs("ClickhouseUser")]
           pw == IF Declared(c) # NoPassword /\ KindIs("ClickhouseUser") THEN Declared(c)
                 ELSE MadeUp(made)
           auth == IF c.spec.auth = 0 THEN 1 ELSE c.spec.auth
           acl == IF c.spec.acl = 0 THEN 1 ELSE c.spec.acl
           new == NewUser(pw, auth, acl)
<1>1. At(o, "create") /\ StaysPut
    BY DEF Create, StaysPut
<1>2. m \in Records /\ made \in Nat /\ user \in Users /\ (user.lag => user.shown = NoPassword)
    BY WorkTypes DEF TypeOK
<1>3. /\ c \in Records /\ SameObject(c, m) /\ (m.known => c.known)
      /\ (KindIs("ClickhouseUser") => c.known)
      /\ c.running = m.running /\ c.processed = m.processed
    <2> DEFINE b == m.known \/ KindIs("ClickhouseUser")
    <2>1. m.known \in BOOLEAN
        BY <1>2, RecordTypes
    <2>2. b \in BOOLEAN /\ (m.known => b) /\ (KindIs("ClickhouseUser") => b)
        BY <2>1 DEF KindIs
    <2> HIDE DEF b, m
    <2>3. c = [m EXCEPT !.known = b]
        BY DEF b
    <2> QED BY <1>2, <2>2, <2>3, KnownFields
<1>4. Alike(c, m) /\ Declared(c) = Declared(m) /\ Undeclared(c) = Undeclared(m)
    <2> HIDE DEF c, m
    <2> QED BY <1>2, <1>3, DeclaredFields DEF Alike
<1>5. Declared(c) \in Nat
    <2> HIDE DEF c, m
    <2> QED BY <1>2, <1>3, <1>4, DeclaredFields
<1>6. pw \in Nat /\ auth \in Nat /\ acl \in Nat
    <2>1. MadeUp(made) \in Nat
        BY <1>2 DEF MadeUp
    <2>2. c.spec.auth \in Nat /\ c.spec.acl \in Nat
        BY <1>3, RecordTypes
    <2> HIDE DEF c
    <2> QED BY <1>5, <2>1, <2>2
<1>7. new \in Users /\ new.there = TRUE /\ new.pw = pw /\ new.lag = FALSE
    <2> HIDE DEF pw, auth, acl
    <2> QED BY <1>6, NewUserFields
<1> DEFINE Types == /\ Moves(o) /\ user' \in Users /\ (user'.lag => user'.shown = NoPassword)
                    /\ made' \in Nat /\ faults' \in Nat /\ unheard' \in BOOLEAN
                    /\ lost' \subseteq lost \cup {"half made", "cleared"}
<1>8. /\ {"reset", "publish"} \subseteq PCs /\ TRUE \in BOOLEAN /\ FALSE \in BOOLEAN
    BY DEF PCs
<1>9. CASE /\ Undeclared(c) \/ user.there
           /\ Finish(o, Me(o))
           /\ UNCHANGED <<aiven, faults, unheard, lost>>
    <2>1. Leaves(o) /\ Moves(o)
        BY <1>9, FinishLeaves
    <2>2. UNCHANGED <<user, unheard, lost>> /\ Types
        BY <1>2, <1>9, <2>1, FaultTypes DEF aiven
    <2>3. TypeOK'
        BY <1>1, <2>2, StaysPutTypes
    <2> QED BY <1>1, <2>1, <2>2, <2>3
<1>10. CASE Fault /\ Finish(o, Me(o)) /\ UNCHANGED <<aiven, unheard, lost>>
    <2>1. Leaves(o) /\ Moves(o)
        BY <1>10, FinishLeaves
    <2>2. UNCHANGED <<user, unheard, lost>> /\ Types
        BY <1>2, <1>10, <2>1, FaultTypes DEF aiven
    <2>3. TypeOK'
        BY <1>1, <2>2, StaysPutTypes
    <2> QED BY <1>1, <2>1, <2>2, <2>3
<1>11. CASE /\ ~Undeclared(c) /\ ~user.there
            /\ user' = new
            /\ made' = made + 1
            /\ \/ /\ UNCHANGED <<faults, unheard>>
                  /\ \/ Goto(o, "reset", c, Declared(c), TRUE)
                     \/ /\ KindIs("ClickhouseUser")
                        /\ Goto(o, "publish", [c EXCEPT !.running = TRUE], pw, FALSE)
                  /\ UNCHANGED lost
               \/ Fault /\ Finish(o, Me(o)) /\ Unheard /\ lost' = HalfMade(o)
    <2>1. user'.there /\ user' \in Users /\ user'.lag = FALSE /\ made' \in Nat
        <3> HIDE DEF new
        <3> QED BY <1>2, <1>7, <1>11
    <2>2. CASE UNCHANGED <<faults, unheard, lost>> /\ Goto(o, "reset", c, Declared(c), TRUE)
        <3>1. Goes(o, {"reset"}) /\ Has(o, c, Declared(c), TRUE)
            <4> HIDE DEF c
            <4> QED BY <1>3, <1>4, <1>5, <1>8, <2>2, GotoFacts
        <3>2. Types
            BY <2>1, <2>2, <3>1, FaultTypes DEF Goes
        <3>3. TypeOK'
            BY <1>1, <3>2, StaysPutTypes
        <3>4. /\ work'[o].obj = c /\ work'[o].pw = Declared(m) /\ work'[o].retry
            BY <1>4, <3>1 DEF Has
        <3> HIDE DEF c, m
        <3> QED BY <1>1, <1>3, <1>4, <1>11, <2>1, <2>2, <3>1, <3>3, <3>4 DEF m
    <2>3. CASE /\ UNCHANGED <<faults, unheard, lost>> /\ KindIs("ClickhouseUser")
               /\ Goto(o, "publish", [c EXCEPT !.running = TRUE], pw, FALSE)
        <3> DEFINE e == [c EXCEPT !.running = TRUE]
        <3>1. e \in Records /\ SameObject(e, c) /\ e.known = c.known
            <4> HIDE DEF c
            <4> QED BY <1>3, RunningFields
        <3>2. Alike(e, m)
            <4> HIDE DEF e, c, m
            <4> QED BY <1>3, <3>1 DEF Alike, SameObject
        <3>3. Goes(o, {"publish"}) /\ Has(o, e, pw, FALSE)
            <4> HIDE DEF e, pw, c
            <4> QED BY <1>6, <1>8, <2>3, <3>1, <3>2, GotoFacts DEF e
        <3>4. Types
            BY <2>1, <2>3, <3>3, FaultTypes DEF Goes
        <3>5. TypeOK'
            BY <1>1, <3>4, StaysPutTypes
        <3>6. work'[o].obj.known
            <4> HIDE DEF e, c
            <4> QED BY <1>3, <2>3, <3>1, <3>3 DEF Has
        <3>7. Declared(m) # NoPassword => user'.pw = Declared(m)
            <4>1. user'.pw = pw
                <5> HIDE DEF new, pw
                <5> QED BY <1>7, <1>11
            <4> HIDE DEF c, m
            <4> QED BY <1>4, <2>3, <4>1
        <3> QED BY <1>1, <1>4, <1>11, <2>1, <2>3, <3>3, <3>5, <3>6, <3>7
    <2>4. CASE Fault /\ Finish(o, Me(o)) /\ Unheard /\ lost' = HalfMade(o)
        <3>1. Leaves(o) /\ Moves(o)
            BY <2>4, FinishLeaves
        <3>2. Types
            BY <2>1, <2>4, <3>1, FaultTypes DEF HalfMade
        <3>3. TypeOK'
            BY <1>1, <3>2, StaysPutTypes
        <3> QED BY <1>1, <2>1, <2>4, <3>1, <3>3
    <2> QED BY <1>11, <2>2, <2>3, <2>4
<1> QED BY <1>9, <1>10, <1>11 DEF Create


\* A pass sets the declared password, if the object has one.
LEMMA UpdateMoves ==
    ASSUME TypeOK, NEW o \in Objects, Update(o)
    PROVE  /\ TypeOK' /\ At(o, "update") /\ StaysPut /\ UNCHANGED <<lost, unheard>>
           /\ user'.there = user.there /\ user'.pw = user.pw
           /\ \/ Leaves(o)
              \/ /\ Goes(o, {"reset"})
                 /\ Me(o).spec.sourced => work'[o].pw = seen
              \/ Goes(o, {"publish"}) /\ ~Me(o).spec.sourced
<1> DEFINE c == Me(o)
           acl == [user EXCEPT !.acl = c.spec.acl]
           pw == IF AuthDiffers(c) /\ Declared(c) = NoPassword THEN user.shown ELSE Declared(c)
           ready == [c EXCEPT !.running = TRUE]
           Result == /\ Moves(o)
                     /\ \/ Leaves(o)
                        \/ /\ Goes(o, {"reset"})
                           /\ c.spec.sourced => work'[o].pw = seen
                        \/ Goes(o, {"publish"}) /\ ~c.spec.sourced
<1>1. At(o, "update") /\ StaysPut /\ UNCHANGED <<made, lost, unheard>>
    BY DEF Update, StaysPut, history
<1>2. /\ c \in Records /\ Alike(c, c) /\ made \in Nat /\ unheard \in BOOLEAN
      /\ user \in Users /\ (user.lag => user.shown = NoPassword)
    BY WorkTypes, AlikeItself DEF TypeOK
<1>3. /\ acl \in Users /\ acl.there = user.there /\ acl.pw = user.pw
      /\ acl.lag = user.lag /\ acl.shown = user.shown
    <2>1. c.spec.acl \in Nat
        BY <1>2, RecordTypes
    <2> QED BY <1>2, <2>1 DEF Users
<1>4. user' = user \/ user' = acl
    BY DEF Update
<1>5. /\ user' \in Users /\ user'.there = user.there /\ user'.pw = user.pw
      /\ user'.lag => user'.shown = NoPassword
    <2> HIDE DEF acl
    <2> QED BY <1>2, <1>3, <1>4
<1>6. faults' \in Nat
    BY FaultTypes DEF Update
<1>7. /\ {"reset", "publish"} \subseteq PCs /\ FALSE \in BOOLEAN /\ Keep \in Nat \cup {Keep}
    BY DEF PCs
<1>8. ASSUME Finish(o, c) PROVE Result
    BY <1>8, FinishLeaves
<1>9. ASSUME ~Undeclared(c), Goto(o, "reset", c, pw, FALSE) PROVE Result
    <2>1. Declared(c) \in Nat /\ (c.spec.sourced => Declared(c) = seen /\ seen # NoPassword)
        BY <1>2, <1>9, DeclaredFields DEF SameObject
    <2>2. pw \in Nat /\ (c.spec.sourced => pw = seen)
        BY <1>2, <2>1, UserTypes
    <2> HIDE DEF pw
    <2>3. Goes(o, {"reset"}) /\ Has(o, c, pw, FALSE)
        BY <1>2, <1>7, <1>9, <2>2, GotoFacts
    <2> QED BY <2>2, <2>3 DEF Has, Goes
<1>10. ASSUME ~c.spec.sourced, Goto(o, "publish", ready, Keep, FALSE) PROVE Result
    <2>1. ready \in Records /\ Alike(ready, c)
        BY <1>2, RunningFields DEF Alike
    <2> HIDE DEF ready, c
    <2>2. Goes(o, {"publish"})
        BY <1>2, <1>7, <1>10, <2>1, GotoFacts DEF c
    <2> QED BY <1>10, <2>2 DEF Goes
<1>11. Result
    <2>1. \/ Finish(o, c)
          \/ ~Undeclared(c) /\ Goto(o, "reset", c, pw, FALSE)
          \/ ~c.spec.sourced /\ Goto(o, "publish", ready, Keep, FALSE)
        BY DEF Update
    <2> QED BY <1>8, <1>9, <1>10, <2>1
<1>12. TypeOK'
    <2>1. lost' \subseteq lost \cup {"half made", "cleared"} /\ made' \in Nat /\ unheard' \in BOOLEAN
        BY <1>1, <1>2
    <2> HIDE DEF c
    <2> QED BY <1>1, <1>5, <1>6, <1>11, <2>1, StaysPutTypes
<1> QED BY <1>1, <1>5, <1>11, <1>12

\* The password is set, or is not: then a pass that had made the user leaves an
\* object that counts as up to date without it.
LEMMA ResetMoves ==
    ASSUME TypeOK, NEW o \in Objects, Reset(o)
    PROVE  /\ TypeOK' /\ At(o, "reset") /\ StaysPut
           /\ \/ /\ work[o].pw = NoPassword /\ Goes(o, {"fetch"}) /\ UNCHANGED <<user, unheard, lost>>
              \/ /\ user.there /\ user'.there /\ UNCHANGED lost
                 /\ work[o].pw # NoPassword => user'.pw = work[o].pw
                 /\ \/ Goes(o, {"fetch", "publish"}) /\ UNCHANGED unheard
                    \/ Leaves(o) /\ IF KindIs("ClickhouseUser") THEN Unheard ELSE UNCHANGED unheard
              \/ ~user.there /\ UNCHANGED <<user, unheard, lost>> /\ Leaves(o)
              \/ /\ UNCHANGED user /\ Leaves(o) /\ Unheard
                 /\ lost' = IF work[o].retry THEN HalfMade(o) ELSE lost
<1> DEFINE c == Me(o)
           pw == work[o].pw
           ready == [c EXCEPT !.running = TRUE]
           new == IF pw = NoPassword THEN MadeUp(made) ELSE pw
           Types == /\ Moves(o) /\ user' \in Users /\ (user'.lag => user'.shown = NoPassword)
                    /\ made' \in Nat /\ faults' \in Nat /\ unheard' \in BOOLEAN
                    /\ lost' \subseteq lost \cup {"half made", "cleared"}
           Result == \/ pw = NoPassword /\ Goes(o, {"fetch"}) /\ UNCHANGED <<user, unheard, lost>>
                     \/ /\ user.there /\ user'.there /\ UNCHANGED lost
                        /\ pw # NoPassword => user'.pw = pw
                        /\ \/ Goes(o, {"fetch", "publish"}) /\ UNCHANGED unheard
                           \/ Leaves(o) /\ IF KindIs("ClickhouseUser") THEN Unheard ELSE UNCHANGED unheard
                     \/ ~user.there /\ UNCHANGED <<user, unheard, lost>> /\ Leaves(o)
                     \/ /\ UNCHANGED user /\ Leaves(o) /\ Unheard
                        /\ lost' = IF work[o].retry THEN HalfMade(o) ELSE lost
<1>1. At(o, "reset") /\ StaysPut
    BY DEF Reset, StaysPut
<1>2. /\ c \in Records /\ c.spec.auth \in Nat /\ pw \in Nat /\ made \in Nat /\ faults \in Nat
      /\ work[o].retry \in BOOLEAN /\ unheard \in BOOLEAN
      /\ user \in Users /\ (user.lag => user.shown = NoPassword)
    BY <1>1, WorkTypes, RecordTypes DEF TypeOK
<1>3. ready \in Records /\ Alike(ready, c)
    BY <1>2, RunningFields DEF Alike
<1>4. new \in Nat
    BY <1>2 DEF MadeUp
<1>5. ASSUME NEW p \in Nat, NEW a \in Nat, SetPassword(p, a) \/ SetPasswordLate(p, a)
      PROVE  /\ user' \in Users /\ user'.there = user.there /\ user'.pw = p
             /\ user'.lag => user'.shown = NoPassword
    <2> DEFINE b == IF a = 0 THEN user.auth ELSE a
    <2>1. b \in Nat
        BY <1>2, UserTypes
    <2>2. /\ SetPassword(p, a) => user' = [user EXCEPT !.pw = p, !.shown = p, !.lag = FALSE,
                                                       !.auth = b]
          /\ SetPasswordLate(p, a) => user' = [user EXCEPT !.pw = p, !.shown = NoPassword,
                                                           !.lag = TRUE, !.auth = b]
        BY DEF SetPassword, SetPasswordLate
    <2> HIDE DEF b
    <2>3. NoPassword \in Nat
        BY DEF NoPassword
    <2> QED BY <1>2, <1>5, <2>1, <2>2, <2>3 DEF Users
<1>6. /\ {"fetch", "publish"} \subseteq PCs /\ {TRUE, FALSE} \subseteq BOOLEAN
      /\ Keep \in Nat \cup {Keep}
    BY DEF PCs
<1>7. ASSUME NEW p \in {"fetch", "publish"}, NEW w \in Nat \cup {Keep}, NEW r \in BOOLEAN,
             Goto(o, p, ready, w, r)
      PROVE  Goes(o, {p}) /\ Goes(o, {"fetch", "publish"}) /\ Moves(o)
    <2> HIDE DEF ready, c
    <2>1. Goes(o, {p})
        BY <1>3, <1>6, <1>7, GotoFacts DEF c
    <2> QED BY <2>1 DEF Goes
<1>8. ASSUME Finish(o, c) PROVE Leaves(o) /\ Moves(o)
    BY <1>8, FinishLeaves
<1>9. ASSUME /\ KindIs("ServiceUser") /\ pw = NoPassword
             /\ Goto(o, "fetch", ready, Keep, work[o].retry)
             /\ UNCHANGED <<aiven, faults, unheard, lost>>
      PROVE  Types /\ Result
    <2> HIDE DEF ready, pw
    <2>1. Goes(o, {"fetch"}) /\ Moves(o)
        BY <1>2, <1>6, <1>7, <1>9
    <2> QED BY <1>2, <1>9, <2>1 DEF aiven
<1>10. ASSUME /\ KindIs("ServiceUser") /\ pw # NoPassword /\ user.there
              /\ UNCHANGED <<made, unheard, lost>>
              /\ \/ /\ SetPassword(pw, c.spec.auth)
                    /\ \/ Goto(o, "fetch", ready, Keep, TRUE) /\ UNCHANGED faults
                       \/ Fault /\ Finish(o, c)
                 \/ Fault /\ SetPasswordLate(pw, c.spec.auth) /\ Goto(o, "fetch", ready, Keep, TRUE)
      PROVE  Types /\ Result
    <2>1. /\ user' \in Users /\ user'.there = user.there /\ user'.pw = pw
          /\ user'.lag => user'.shown = NoPassword
        <3> HIDE DEF pw, c
        <3> QED BY <1>2, <1>5, <1>10
    <2>2. faults' \in Nat
        BY <1>10, FaultTypes
    <2>3. CASE Goto(o, "fetch", ready, Keep, TRUE)
        <3> HIDE DEF ready
        <3>1. Goes(o, {"fetch", "publish"}) /\ Moves(o)
            BY <1>6, <1>7, <2>3
        <3> HIDE DEF pw
        <3> QED BY <1>2, <1>10, <2>1, <2>2, <3>1
    <2>4. CASE Finish(o, c)
        <3>1. Leaves(o) /\ Moves(o)
            BY <1>8, <2>4
        <3>2. ~KindIs("ClickhouseUser")
            BY <1>10 DEF KindIs
        <3> HIDE DEF pw, c
        <3> QED BY <1>2, <1>10, <2>1, <2>2, <3>1, <3>2
    <2> QED BY <1>10, <2>3, <2>4
<1>11. ASSUME /\ KindIs("ClickhouseUser") /\ user.there
              /\ SetPassword(new, 0)
              /\ made' = IF pw = NoPassword THEN made + 1 ELSE made
              /\ UNCHANGED lost
              /\ \/ Goto(o, "publish", ready, new, FALSE) /\ UNCHANGED <<faults, unheard>>
                 \/ Fault /\ Finish(o, c) /\ Unheard
      PROVE  Types /\ Result
    <2>1. /\ user' \in Users /\ user'.there = user.there /\ user'.pw = new
          /\ user'.lag => user'.shown = NoPassword
        <3> HIDE DEF new
        <3> QED BY <1>4, <1>5, <1>11
    <2>2. faults' \in Nat /\ unheard' \in BOOLEAN /\ made' \in Nat
        <3>1. made + 1 \in Nat
            BY <1>2
        <3> HIDE DEF pw, new
        <3>2. made' \in Nat
            BY <1>2, <1>11, <3>1
        <3> QED BY <1>2, <1>11, <3>2, FaultTypes
    <2>3. pw # NoPassword => user'.pw = pw
        BY <2>1
    <2>4. CASE Goto(o, "publish", ready, new, FALSE) /\ UNCHANGED <<faults, unheard>>
        <3> HIDE DEF ready, new
        <3>1. Goes(o, {"fetch", "publish"}) /\ Moves(o)
            BY <1>4, <1>6, <1>7, <2>4
        <3> HIDE DEF pw
        <3> QED BY <1>2, <1>11, <2>1, <2>2, <2>3, <2>4, <3>1
    <2>5. CASE Fault /\ Finish(o, c) /\ Unheard
        <3>1. Leaves(o) /\ Moves(o)
            BY <1>8, <2>5
        <3> HIDE DEF pw, c
        <3> QED BY <1>2, <1>11, <2>1, <2>2, <2>3, <2>5, <3>1
    <2> QED BY <1>11, <2>4, <2>5
<1>12. ASSUME ~user.there /\ Finish(o, c) /\ UNCHANGED <<faults, unheard, lost, aiven>>
       PROVE  Types /\ Result
    <2>1. Leaves(o) /\ Moves(o)
        BY <1>8, <1>12
    <2> QED BY <1>2, <1>12, <2>1 DEF aiven
<1>13. ASSUME /\ Fault /\ Finish(o, c) /\ Unheard /\ UNCHANGED aiven
              /\ lost' = IF work[o].retry THEN HalfMade(o) ELSE lost
       PROVE  Types /\ Result
    <2>1. Leaves(o) /\ Moves(o)
        BY <1>8, <1>13
    <2>2. lost' \subseteq lost \cup {"half made", "cleared"} /\ faults' \in Nat /\ unheard' \in BOOLEAN
        BY <1>13, FaultTypes DEF HalfMade
    <2> QED BY <1>2, <1>13, <2>1, <2>2 DEF aiven
<1>14. Types /\ Result
    <2> HIDE DEF Types, Result
    <2> QED BY <1>9, <1>10, <1>11, <1>12, <1>13 DEF Reset
<1>15. TypeOK'
    BY <1>1, <1>14, StaysPutTypes
<1> QED BY <1>1, <1>14, <1>15


LEMMA FetchMoves ==
    ASSUME TypeOK, NEW o \in Objects, Fetch(o)
    PROVE  /\ TypeOK' /\ At(o, "fetch") /\ StaysPut /\ UNCHANGED <<aiven, lost, unheard>>
           /\ Leaves(o) \/ Goes(o, {"publish"})
<1>1. At(o, "fetch") /\ StaysPut /\ UNCHANGED <<aiven, lost, unheard>> /\ faults' \in Nat
    BY FaultTypes DEF Fetch, StaysPut, history
<1>2. /\ Me(o) \in Records /\ Alike(Me(o), Me(o)) /\ user \in Users /\ user.shown \in Nat
      /\ (user.lag => user.shown = NoPassword) /\ made \in Nat /\ unheard \in BOOLEAN
    BY WorkTypes, AlikeItself, UserTypes DEF TypeOK
<1>3. Moves(o) /\ (Leaves(o) \/ Goes(o, {"publish"}))
    <2>1. CASE Finish(o, Me(o))
        BY <2>1, FinishLeaves
    <2>2. CASE Goto(o, "publish", Me(o), user.shown, FALSE)
        <3>1. "publish" \in PCs /\ FALSE \in BOOLEAN /\ user.shown \in Nat \cup {Keep}
            BY <1>2 DEF PCs
        <3>2. Goes(o, {"publish"})
            BY <1>2, <2>2, <3>1, GotoFacts
        <3> QED BY <3>2 DEF Goes
    <2> QED BY <2>1, <2>2 DEF Fetch
<1>4. TypeOK'
    BY <1>1, <1>2, <1>3, StaysPutTypes DEF aiven
<1> QED BY <1>1, <1>3, <1>4

LEMMA PublishMoves ==
    ASSUME TypeOK, NEW o \in Objects, Publish(o)
    PROVE  /\ TypeOK' /\ At(o, "publish")
           /\ UNCHANGED <<setup, crs, cache, source, watcher, aiven, edits, meddled, unseen>>
           /\ lost \subseteq lost' /\ Closes(o)
           /\ UNCHANGED unheard \/ Unheard
<1> DEFINE c == Me(o)
           e == [c EXCEPT !.processed = c.gen]
<1>1. /\ At(o, "publish") /\ lost \subseteq lost' /\ (UNCHANGED unheard \/ Unheard)
      /\ UNCHANGED <<setup, crs, cache, source, watcher, aiven, edits, meddled, unseen>>
    BY DEF Publish
<1>2. /\ c \in Records /\ Alike(c, c) /\ user \in Users /\ made \in Nat
      /\ (user.lag => user.shown = NoPassword) /\ crs \in [Objects -> Records]
    BY WorkTypes, AlikeItself DEF TypeOK
<1>3. e \in Records /\ Alike(e, c)
    BY <1>2, ProcessedFields DEF Alike
<1>4. Closes(o) /\ Moves(o)
    <2>1. CASE Finish(o, e)
        <3> HIDE DEF e, c
        <3> QED BY <1>3, <2>1, FinishCloses DEF c
    <2>2. CASE Finish(o, c)
        BY <2>2, FinishLeaves DEF Leaves, Closes
    <2> QED BY <2>1, <2>2 DEF Publish
<1>5. /\ secrets' \in [Objects -> Nat] /\ faults' \in Nat /\ unheard' \in BOOLEAN
      /\ lost' \subseteq lost \cup {"half made", "cleared"}
    <2>1. Published(o) \in Nat /\ secrets \in [Objects -> Nat]
        BY WorkTypes DEF TypeOK, Published
    <2>2. secrets' = secrets \/ secrets' = [secrets EXCEPT ![o] = Published(o)]
        BY DEF Publish
    <2>3. secrets' \in [Objects -> Nat]
        BY <2>1, <2>2
    <2>4. faults' \in Nat /\ unheard' \in BOOLEAN
        BY FaultTypes DEF Publish
    <2>5. lost' \subseteq lost \cup {"half made", "cleared"}
        BY DEF Publish
    <2> QED BY <2>3, <2>4, <2>5
<1>6. TypeOK'
    BY <1>1, <1>2, <1>4, <1>5, MovesTypes DEF aiven
<1> QED BY <1>1, <1>4, <1>6

\* A write of what a pass has found out: the UUID, and the annotations or those
\* there were.
Saves(o) ==
    LET c == crs[o]
        d == crs'[o]
    IN /\ IsCurrent(o, Me(o)) /\ Writes(o, d) /\ Newer(d, c)
       /\ d.gen = c.gen /\ d.spec = c.spec /\ d.deleting = c.deleting
       /\ d.finalizer = c.finalizer /\ d.known = Me(o).known
       /\ \/ d.running = c.running /\ d.processed = c.processed
          \/ d.running = Me(o).running /\ d.processed = Me(o).processed
       /\ unheard' = (unheard \/ (d.known /\ ~c.known /\ c.deleting))

\* The status is saved, the annotations are to follow.
Halves(o) ==
    /\ Moves(o) /\ work'[o].pc = "annotate"
    /\ work'[o].orig = crs'[o] /\ work'[o].obj = Write(Me(o))

LEMMA HalvesFacts ==
    ASSUME TypeOK, NEW o \in Objects, NEW d \in Records, crs'[o] = d, UNCHANGED queued,
           work' = [work EXCEPT ![o] = [@ EXCEPT !.pc = "annotate", !.orig = d,
                                                 !.obj = Write(Me(o))]]
    PROVE  Halves(o)
<1> DEFINE e == Write(Me(o))
           w == [work[o] EXCEPT !.pc = "annotate", !.orig = d, !.obj = e]
<1>1. work \in [Objects -> Works] /\ work[o] \in Works /\ queued' \subseteq Objects
    BY WorkTypes DEF TypeOK
<1>2. e \in Records /\ "annotate" \in PCs
    BY WorkTypes, WriteFields DEF PCs
<1>3. work' = [work EXCEPT ![o] = w]
    OBVIOUS
<1> HIDE DEF e
<1>4. w \in Works /\ w.pc = "annotate" /\ w.orig = d /\ w.obj = e
    BY <1>1, <1>2 DEF Works
<1> HIDE DEF w
<1>5. /\ work' \in [Objects -> Works] /\ work'[o] = w
      /\ \A q \in Objects : q # o => work'[q] = work[q]
    BY <1>1, <1>3, <1>4
<1>6. \A q \in Objects : work[q].pc = "reset" => work[q].pw \in Nat
    BY DEF TypeOK, At
<1>7. Moves(o)
    BY <1>1, <1>4, <1>5, <1>6 DEF Moves
<1> QED BY <1>4, <1>5, <1>7 DEF Halves, e

LEMMA PersistMoves ==
    ASSUME TypeOK, NEW o \in Objects, Persist(o),
           IsCurrent(o, Me(o)) => (crs[o].known => Me(o).known)
    PROVE  /\ TypeOK' /\ At(o, "persist")
           /\ UNCHANGED <<setup, cache, secrets, source, watcher, aiven, edits, lost, meddled, unseen>>
           /\ \/ Saves(o) /\ (Stops(o) \/ Halves(o))
              \/ /\ UNCHANGED crs /\ Stops(o)
                 /\ Unheard \/ unheard' = (unheard \/ (KindIs("ClickhouseUser") /\ ~crs[o].known))
<1>1. /\ At(o, "persist")
      /\ UNCHANGED <<setup, cache, secrets, source, watcher, aiven, edits, lost, meddled, unseen>>
    BY DEF Persist
<1>2. /\ Me(o) \in Records /\ crs[o] \in Records /\ crs \in [Objects -> Records]
      /\ user \in Users /\ made \in Nat /\ unheard \in BOOLEAN /\ secrets \in [Objects -> Nat]
      /\ (user.lag => user.shown = NoPassword)
    BY WorkTypes DEF TypeOK
<1>3. Me(o).known \in BOOLEAN /\ crs[o].known \in BOOLEAN /\ crs[o].deleting \in BOOLEAN
    BY <1>2, RecordTypes
<1>4. faults' \in Nat
    BY FaultTypes DEF Persist
<1> DEFINE d == Identified(o)
<1>5. CASE /\ IsCurrent(o, Me(o)) /\ crs' = [crs EXCEPT ![o] = d]
           /\ unheard' = (unheard \/ (Me(o).known /\ ~crs[o].known /\ crs[o].deleting))
           /\ \/ Return(o, TRUE)
              \/ /\ work' = [work EXCEPT ![o] = [@ EXCEPT !.pc = "annotate", !.orig = d,
                                                          !.obj = Write(Me(o))]]
                 /\ UNCHANGED queued
    <2>1. Exists(crs[o])
        BY <1>5 DEF IsCurrent, Exists
    <2>2. /\ Newer(d, crs[o]) /\ d.gen = crs[o].gen /\ d.spec = crs[o].spec
          /\ d.deleting = crs[o].deleting /\ d.finalizer = crs[o].finalizer
          /\ d.known = Me(o).known /\ d.running = crs[o].running
          /\ d.processed = crs[o].processed /\ d \in Records
        BY <1>2, <1>3, <1>5, <2>1, IdentifiedFields DEF Identified, Newer
    <2> HIDE DEF d
    <2>3. crs' \in [Objects -> Records] /\ crs'[o] = d /\ Writes(o, d)
        BY <1>2, <1>5, <2>2 DEF Writes
    <2>4. unheard' \in BOOLEAN /\ Saves(o)
        BY <1>2, <1>3, <1>5, <2>2, <2>3 DEF Saves
    <2>5. Stops(o) \/ Halves(o)
        BY <1>5, <2>2, <2>3, ReturnFacts, HalvesFacts
    <2>6. TypeOK'
        BY <1>1, <1>2, <1>4, <2>3, <2>4, <2>5, MovesTypes DEF aiven, Stops, Halves
    <2> QED BY <1>1, <2>4, <2>5, <2>6
<1>6. CASE /\ UNCHANGED crs /\ Return(o, TRUE)
           /\ Unheard \/ unheard' = (unheard \/ (KindIs("ClickhouseUser") /\ ~crs[o].known))
    <2>1. Stops(o)
        BY <1>6, ReturnFacts
    <2>2. unheard' \in BOOLEAN
        BY <1>2, <1>3, <1>6 DEF KindIs, Unheard
    <2>3. TypeOK'
        BY <1>1, <1>2, <1>4, <1>6, <2>1, <2>2, MovesTypes DEF aiven, Stops
    <2> QED BY <1>1, <1>6, <2>1, <2>3
<1> QED BY <1>5, <1>6 DEF Persist

LEMMA AnnotateMoves ==
    ASSUME TypeOK, NEW o \in Objects, Annotate(o),
           IsCurrent(o, Me(o)) => Me(o).gen = crs[o].gen /\ Me(o).known = crs[o].known
    PROVE  /\ TypeOK' /\ At(o, "annotate") /\ Stops(o)
           /\ UNCHANGED <<setup, cache, secrets, source, watcher, aiven, edits, history>>
           /\ Saves(o) \/ UNCHANGED crs
<1>1. /\ At(o, "annotate") /\ Return(o, TRUE)
      /\ UNCHANGED <<setup, cache, secrets, source, watcher, aiven, edits, history>>
    BY DEF Annotate
<1>2. /\ Me(o) \in Records /\ crs[o] \in Records /\ crs \in [Objects -> Records]
      /\ user \in Users /\ made \in Nat /\ unheard \in BOOLEAN /\ secrets \in [Objects -> Nat]
      /\ (user.lag => user.shown = NoPassword)
    BY WorkTypes DEF TypeOK
<1>3. faults' \in Nat
    BY FaultTypes DEF Annotate
<1>4. Stops(o)
    BY <1>1, ReturnFacts
<1> DEFINE d == Write([crs[o] EXCEPT !.running = Me(o).running, !.processed = Me(o).processed])
<1>5. CASE IsCurrent(o, Me(o)) /\ crs' = [crs EXCEPT ![o] = d]
    <2>1. Exists(crs[o]) /\ Me(o).gen = crs[o].gen /\ Me(o).known = crs[o].known
        BY <1>5 DEF IsCurrent, Exists
    <2>2. /\ Newer(d, crs[o]) /\ d.gen = crs[o].gen /\ d.spec = crs[o].spec
          /\ d.deleting = crs[o].deleting /\ d.finalizer = crs[o].finalizer
          /\ d.known = crs[o].known /\ d.running = Me(o).running
          /\ d.processed = Me(o).processed
        <3> DEFINE e == Me(o)
                   n == crs[o]
        <3>1. n \in Records /\ e \in Records /\ Exists(n) /\ e.gen = n.gen
            BY <1>2, <2>1
        <3>2. d = Write([n EXCEPT !.running = e.running, !.processed = e.processed])
            OBVIOUS
        <3> HIDE DEF d, e, n
        <3>3. /\ Newer(d, n) /\ d.gen = n.gen /\ d.spec = n.spec
              /\ d.deleting = n.deleting /\ d.finalizer = n.finalizer
              /\ d.known = n.known /\ d.running = e.running /\ d.processed = e.processed
            BY <3>1, <3>2, AnnotatedFields
        <3> QED BY <3>3 DEF e, n
    <2> HIDE DEF d
    <2>3. crs' \in [Objects -> Records] /\ crs'[o] = d /\ Writes(o, d)
        BY <1>2, <1>5, <2>2 DEF Writes, Newer
    <2>4. unheard' = (unheard \/ (d.known /\ ~crs[o].known /\ crs[o].deleting))
        <3>1. d.known = crs[o].known
            BY <2>2
        <3>2. unheard' = unheard /\ unheard \in BOOLEAN
            BY <1>1, <1>2 DEF history
        <3> QED BY <3>1, <3>2
    <2>5. Saves(o)
        BY <1>5, <2>1, <2>2, <2>3, <2>4 DEF Saves
    <2>6. TypeOK'
        BY <1>1, <1>2, <1>3, <1>4, <2>3, MovesTypes DEF aiven, history, Stops
    <2> QED BY <1>1, <1>4, <2>5, <2>6
<1>6. CASE UNCHANGED crs
    <2>1. TypeOK'
        BY <1>1, <1>2, <1>3, <1>4, <1>6, MovesTypes DEF aiven, history, Stops
    <2> QED BY <1>1, <1>4, <1>6, <2>1
<1> QED BY <1>5, <1>6 DEF Annotate

LEMMA DeleteMoves ==
    ASSUME TypeOK, NEW o \in Objects, Delete(o), Me(o) = work[o].orig
    PROVE  /\ TypeOK' /\ At(o, "delete") /\ StaysPut /\ UNCHANGED <<lost, unheard>>
           /\ user' = NoUser \/ UNCHANGED user
           /\ \/ Stops(o)
              \/ /\ Goes(o, {"unfinalize"})
                 /\ \/ user' = NoUser
                    \/ setup.builtIn
                    \/ KindIs("ServiceUser") /\ FindDuplicate(o)
                    \/ KindIs("ClickhouseUser") /\ ~Me(o).known
<1>1. At(o, "delete") /\ StaysPut /\ UNCHANGED <<made, lost, unheard>> /\ faults' \in Nat
    BY FaultTypes DEF Delete, StaysPut, history
<1>2. user' = NoUser \/ UNCHANGED user
    BY DEF Delete
<1>3. /\ Me(o) \in Records /\ Alike(Me(o), Me(o)) /\ user \in Users /\ made \in Nat
      /\ (user.lag => user.shown = NoPassword) /\ unheard \in BOOLEAN
    BY WorkTypes, AlikeItself DEF TypeOK
<1>4. ASSUME Finish(o, Me(o)) PROVE Stops(o)
    BY <1>3, <1>4, FinishFacts, ReturnFacts DEF Finish
<1>5. ASSUME Goto(o, "unfinalize", Me(o), Keep, FALSE) PROVE Goes(o, {"unfinalize"})
    <2>1. "unfinalize" \in PCs /\ FALSE \in BOOLEAN /\ Keep \in Nat \cup {Keep}
        BY DEF PCs
    <2> QED BY <1>3, <1>5, <2>1, GotoFacts
<1>6. \/ Stops(o)
      \/ /\ Goes(o, {"unfinalize"})
         /\ \/ user' = NoUser
            \/ setup.builtIn
            \/ KindIs("ServiceUser") /\ FindDuplicate(o)
            \/ KindIs("ClickhouseUser") /\ ~Me(o).known
    BY <1>4, <1>5 DEF Delete
<1>7. TypeOK'
    <2>1. user' \in Users /\ (user'.lag => user'.shown = NoPassword)
        BY <1>2, <1>3, NoUserFields
    <2>2. Moves(o)
        BY <1>6 DEF Stops, Goes
    <2> QED BY <1>1, <1>3, <2>1, <2>2, StaysPutTypes
<1> QED BY <1>1, <1>2, <1>6, <1>7

LEMMA RemoveMoves ==
    ASSUME TypeOK, NEW o \in Objects, RemoveFinalizer(o), crs[o].finalizer => crs[o].deleting
    PROVE  /\ TypeOK' /\ At(o, "unfinalize") /\ Stops(o)
           /\ UNCHANGED <<setup, cache, source, watcher, aiven, edits, history>>
           /\ \/ UNCHANGED crs
              \/ /\ IsCurrent(o, cache[o]) /\ crs[o].deleting /\ Writes(o, NoObject)
<1>1. /\ At(o, "unfinalize")
      /\ UNCHANGED <<setup, cache, source, watcher, aiven, edits, history>>
    BY DEF RemoveFinalizer
<1>2. Stops(o)
    <2>1. Exists(cache[o]) \in BOOLEAN
        BY DEF Exists
    <2> QED BY <2>1, ReturnFacts DEF RemoveFinalizer
<1>3. \/ UNCHANGED <<crs, secrets>>
      \/ /\ IsCurrent(o, cache[o]) /\ crs[o].deleting /\ Writes(o, NoObject)
         /\ secrets' = [secrets EXCEPT ![o] = Absent]
    BY DEF RemoveFinalizer, Writes
<1>4. /\ crs' \in [Objects -> Records] /\ secrets' \in [Objects -> Nat]
      /\ faults' \in Nat /\ user \in Users /\ made \in Nat /\ unheard \in BOOLEAN
      /\ (user.lag => user.shown = NoPassword)
    <2>1. crs \in [Objects -> Records] /\ secrets \in [Objects -> Nat]
        BY DEF TypeOK
    <2>2. crs' \in [Objects -> Records]
        BY <1>3, <2>1, NoObjectFields, WritesOne
    <2>3. Absent \in Nat
        BY DEF Absent
    <2>4. secrets' \in [Objects -> Nat]
        BY <1>3, <2>1, <2>3
    <2>5. faults' \in Nat
        BY FaultTypes DEF RemoveFinalizer
    <2> QED BY <2>2, <2>4, <2>5 DEF TypeOK
<1>5. TypeOK'
    BY <1>1, <1>2, <1>4, MovesTypes DEF aiven, history, Stops
<1> QED BY <1>1, <1>2, <1>3, <1>5

----------------------------------------------------------------------------
(* The watch, the cluster and its users                                    *)

\* What no step but a pass changes.
WorkStays == UNCHANGED <<setup, work>>

LEMMA SyncSourceMoves ==
    ASSUME TypeOK, SyncSource
    PROVE  /\ TypeOK'
           /\ UNCHANGED <<setup, objects, work, toTrigger, aiven, bounds, meddled, unheard, unseen>>
<1>1. UNCHANGED <<setup, objects, work, secrets, source, toTrigger, aiven, bounds, meddled, unheard,
                   unseen>>
    BY DEF SyncSource
<1>2. seen' = source
    BY DEF SyncSource
<1>3. watch' \in BOOLEAN
    <2>1. watch \in BOOLEAN
        BY DEF TypeOK
    <2> QED BY <2>1 DEF SyncSource
<1>4. lost' \subseteq lost \cup {"recreated"}
    BY DEF SyncSource, Missed
<1> QED BY <1>1, <1>2, <1>3, <1>4 DEF TypeOK, objects, aiven, bounds, At

LEMMA FindDependentsMoves ==
    ASSUME TypeOK, FindDependents
    PROVE  /\ TypeOK'
           /\ UNCHANGED <<setup, objects, work, seen, aiven, bounds, history>>
<1>1. UNCHANGED <<setup, objects, work, secrets, source, seen, aiven, bounds, history>>
    BY DEF FindDependents
<1>2. watch' \in BOOLEAN /\ toTrigger' \subseteq Objects
    BY DEF FindDependents
<1> QED BY <1>1, <1>2 DEF TypeOK, objects, aiven, bounds, history, At

\* An object is patched, or not: then nothing is to be patched, or one that may
\* count as up to date misses it.
Patches(o) ==
    LET d == crs'[o]
    IN /\ Exists(crs[o]) /\ Exists(cache[o]) /\ Writes(o, d) /\ Newer(d, crs[o])
       /\ d.gen = crs[o].gen /\ d.spec = crs[o].spec /\ d.deleting = crs[o].deleting
       /\ d.finalizer = crs[o].finalizer /\ d.known = crs[o].known
       /\ d.running = crs[o].running
       /\ d.processed = (IF cache[o].processed # 0 THEN 0 ELSE crs[o].processed)
       /\ lost' = lost \cup {w \in {"outdated"} : crs[o].processed # 0 /\ cache[o].processed = 0}

LEMMA TriggerMoves ==
    ASSUME TypeOK, NEW o \in Objects, Trigger(o)
    PROVE  /\ TypeOK' /\ toTrigger' = toTrigger \ {o}
           /\ UNCHANGED <<setup, cache, queued, work, seen, watch, aiven, edits, meddled, unheard, unseen>>
           /\ \/ Patches(o)
              \/ /\ UNCHANGED crs
                 /\ \E why \in {"same second", "failed"} : lost' = Missed(why, {o})
              \/ UNCHANGED <<crs, lost>> /\ ~(Exists(cache[o]) /\ Exists(crs[o]))
<1>1. /\ toTrigger' = toTrigger \ {o}
      /\ UNCHANGED <<setup, cache, queued, work, secrets, source, seen, watch, aiven, edits,
                     meddled, unheard, unseen>>
    BY DEF Trigger
<1>2. /\ crs[o] \in Records /\ crs[o].stamp \in Nat /\ faults' \in Nat
    BY WorkTypes, RecordTypes, FaultTypes DEF Trigger
<1>3. \/ Patches(o)
      \/ /\ UNCHANGED crs
         /\ \E why \in {"same second", "failed"} : lost' = Missed(why, {o})
      \/ UNCHANGED <<crs, lost>> /\ ~(Exists(cache[o]) /\ Exists(crs[o]))
    <2>1. CASE /\ Exists(cache[o]) /\ Exists(crs[o])
               /\ \E t \in {crs[o].stamp, crs[o].stamp + 1} \ {0} :
                  LET new == Patched(cache[o], o, t)
                  IN IF new = crs[o]
                     THEN lost' = Missed("same second", {o}) /\ UNCHANGED crs
                     ELSE /\ crs' = [crs EXCEPT ![o] = Write(new)]
                          /\ lost' = lost \cup {w \in {"outdated"} : crs[o].processed # 0
                                                                    /\ cache[o].processed = 0}
        <3>1. PICK t \in {crs[o].stamp, crs[o].stamp + 1} \ {0} :
                  LET new == Patched(cache[o], o, t)
                  IN IF new = crs[o]
                     THEN lost' = Missed("same second", {o}) /\ UNCHANGED crs
                     ELSE /\ crs' = [crs EXCEPT ![o] = Write(new)]
                          /\ lost' = lost \cup {w \in {"outdated"} : crs[o].processed # 0
                                                                    /\ cache[o].processed = 0}
            BY <2>1
        <3>2. t \in Nat
            BY <1>2
        <3> DEFINE d == Write(Patched(cache[o], o, t))
        <3>3. /\ Newer(d, crs[o]) /\ d.gen = crs[o].gen /\ d.spec = crs[o].spec
              /\ d.deleting = crs[o].deleting /\ d.finalizer = crs[o].finalizer
              /\ d.known = crs[o].known /\ d.running = crs[o].running
              /\ d.processed = (IF cache[o].processed # 0 THEN 0 ELSE crs[o].processed)
            <4> DEFINE c == cache[o]
            <4> HIDE DEF c
            <4>1. LET e == Write(Patched(c, o, t))
                  IN  /\ Newer(e, crs[o]) /\ e.gen = crs[o].gen /\ e.spec = crs[o].spec
                      /\ e.deleting = crs[o].deleting /\ e.finalizer = crs[o].finalizer
                      /\ e.known = crs[o].known /\ e.running = crs[o].running
                      /\ e.processed = (IF c.processed # 0 THEN 0 ELSE crs[o].processed)
                <5>1. crs[o] \in Records /\ Exists(crs[o])
                    BY <1>2, <2>1
                <5> QED BY <3>2, <5>1, PatchedFields
            <4> QED BY <4>1 DEF c
        <3>4. CASE Patched(cache[o], o, t) = crs[o]
            BY <3>1, <3>4
        <3>5. CASE Patched(cache[o], o, t) # crs[o]
            <4>1. /\ crs' = [crs EXCEPT ![o] = d]
                  /\ lost' = lost \cup {w \in {"outdated"} : crs[o].processed # 0
                                                            /\ cache[o].processed = 0}
                BY <3>1, <3>5
            <4> HIDE DEF d
            <4>2. d \in Records
                BY <3>3 DEF Newer
            <4>3. crs'[o] = d /\ Writes(o, d)
                BY <4>1, <4>2, WritesOne DEF Writes
            <4> QED BY <2>1, <3>3, <4>1, <4>3 DEF Patches
        <3> QED BY <3>4, <3>5
    <2>2. CASE ~(Exists(cache[o]) /\ Exists(crs[o])) /\ UNCHANGED <<crs, lost, faults>>
        BY <2>2
    <2>3. CASE Fault /\ lost' = Missed("failed", {o}) /\ UNCHANGED crs
        BY <2>3
    <2> QED BY <2>1, <2>2, <2>3 DEF Trigger
<1>4. crs' \in [Objects -> Records]
    <2>1. crs \in [Objects -> Records]
        BY DEF TypeOK
    <2>2. CASE Patches(o)
        <3> DEFINE d == crs'[o]
        <3>1. d \in Records /\ Writes(o, d)
            BY <2>2 DEF Patches, Newer
        <3> HIDE DEF d
        <3> QED BY <3>1, WritesOne
    <2> QED BY <1>3, <2>1, <2>2
<1>5. lost' \subseteq lost \cup {"same second", "failed", "outdated"}
    BY <1>3 DEF Patches, Missed
<1>6. TypeOK'
    BY <1>1, <1>2, <1>4, <1>5 DEF TypeOK, aiven, At
<1> QED BY <1>1, <1>3, <1>6

LEMMA CrashMoves ==
    ASSUME TypeOK, Crash
    PROVE  /\ TypeOK'
           /\ UNCHANGED <<setup, crs, aiven, edits, meddled, unseen>> /\ cache' = crs
           /\ work' = [o \in Objects |-> Idle] /\ Unheard
           /\ seen' = source /\ watch' = FALSE /\ toTrigger' = {}
           /\ lost \subseteq lost'
           /\ watch \/ toTrigger # {} \/ seen # source => Missed("restart", Objects) \subseteq lost'
           /\ \A o \in Objects : At(o, "reset") /\ work[o].retry => HalfMade(o) \subseteq lost'
<1> DEFINE half == UNION {HalfMade(o) : o \in {p \in Objects : At(p, "reset") /\ work[p].retry}}
<1>1. /\ UNCHANGED <<setup, crs, secrets, source, aiven, edits, meddled, unseen>> /\ cache' = crs
      /\ work' = [o \in Objects |-> Idle] /\ Unheard /\ Fault
      /\ seen' = source /\ watch' = FALSE /\ toTrigger' = {} /\ queued' \subseteq Objects
    BY DEF Crash
<1>2. /\ lost' = (IF watch \/ toTrigger # {} \/ seen # source THEN Missed("restart", Objects)
                  ELSE lost) \cup half
    BY DEF Crash
<1>3. \A o \in Objects : At(o, "reset") /\ work[o].retry => HalfMade(o) \subseteq half
    OBVIOUS
<1>4. half \subseteq lost \cup {"half made"}
    BY DEF HalfMade
<1>5. lost \subseteq Missed("restart", Objects) /\ Missed("restart", Objects) \subseteq lost \cup {"restart"}
    BY DEF Missed
<1> HIDE DEF half
<1>6. lost' \subseteq lost \cup {"restart", "half made"} /\ lost \subseteq lost'
    BY <1>2, <1>4, <1>5
<1>7. faults' \in Nat /\ unheard' \in BOOLEAN
    BY <1>1, FaultTypes
<1>8. work' \in [Objects -> Works] /\ \A o \in Objects : work'[o].pc # "reset"
    BY <1>1, IdleFields
<1>9. TypeOK'
    BY <1>1, <1>6, <1>7, <1>8 DEF TypeOK, aiven, At
<1>10. watch \/ toTrigger # {} \/ seen # source => Missed("restart", Objects) \subseteq lost'
    BY <1>2
<1>11. \A o \in Objects : At(o, "reset") /\ work[o].retry => HalfMade(o) \subseteq lost'
    BY <1>2, <1>3
<1> QED BY <1>1, <1>6, <1>9, <1>10, <1>11

LEMMA SyncCacheMoves ==
    ASSUME TypeOK, SyncCache
    PROVE  /\ TypeOK' /\ cache' = crs
           /\ UNCHANGED <<setup, crs, work, secrets, source, watcher, aiven, bounds, history>>
<1>1. /\ UNCHANGED <<setup, crs, work, secrets, source, watcher, aiven, bounds, history>>
      /\ cache' = crs /\ queued' \subseteq Objects
    BY DEF SyncCache, TypeOK
<1> QED BY <1>1 DEF TypeOK, watcher, aiven, bounds, history, At

LEMMA AivenProgressMoves ==
    ASSUME TypeOK, AivenProgress
    PROVE  /\ TypeOK' /\ user'.there = user.there /\ user'.pw = user.pw
           /\ UNCHANGED <<setup, objects, work, secrets, source, watcher, made, bounds, history>>
<1>1. UNCHANGED <<setup, objects, work, secrets, source, watcher, made, bounds, history>>
    BY DEF AivenProgress
<1> DEFINE k == user.pw
<1>2. user \in Users /\ k \in Nat
    BY UserTypes DEF TypeOK
<1>3. user' = [user EXCEPT !.lag = FALSE, !.shown = k]
    BY DEF AivenProgress
<1>4. user' \in Users /\ user'.lag = FALSE /\ user'.there = user.there /\ user'.pw = user.pw
    <2> HIDE DEF k
    <2> QED BY <1>2, <1>3 DEF Users
<1> QED BY <1>1, <1>4 DEF TypeOK, objects, watcher, bounds, history, At

\* What the steps of users and other clients leave alone.
EditStays == UNCHANGED <<setup, cache, work, watcher, unheard>>

LEMMA EditTypes ==
    ASSUME TypeOK, Edit
    PROVE  edits' = edits + 1 /\ edits' \in Nat /\ UNCHANGED <<setup, work, secrets, faults, unheard>>
<1>1. edits \in Nat
    BY DEF TypeOK
<1> QED BY <1>1 DEF Edit

LEMMA WantTypes ==
    ASSUME TypeOK, NEW s \in setup.wants
    PROVE  s \in Specs
BY SetupsAssumption DEF TypeOK

LEMMA UserCreatesMoves ==
    ASSUME TypeOK, NEW o \in Objects, UserCreates(o)
    PROVE  /\ TypeOK' /\ EditStays /\ edits' = edits + 1
           /\ UNCHANGED <<aiven, lost, meddled, unseen>>
           /\ o \in setup.objects /\ ~Exists(crs[o])
           /\ \E s \in Specs : Writes(o, Fresh(edits', s))
<1>1. /\ edits' = edits + 1 /\ edits' \in Nat /\ o \in setup.objects /\ ~Exists(crs[o])
      /\ UNCHANGED <<setup, work, secrets, faults, unheard>>
      /\ UNCHANGED <<cache, queued, source, watcher, aiven, lost, meddled, unseen>>
    BY EditTypes DEF UserCreates
<1>2. PICK s \in setup.wants : crs' = [crs EXCEPT ![o] = Fresh(edits', s)]
    BY DEF UserCreates
<1>3. s \in Specs
    BY WantTypes
<1>4. Writes(o, Fresh(edits', s))
    BY <1>2 DEF Writes
<1>5. crs' \in [Objects -> Records]
    <2>1. Fresh(edits', s) \in Records
        BY <1>1, <1>3, FreshFields
    <2> QED BY <1>4, <2>1, WritesOne
<1>6. TypeOK'
    BY <1>1, <1>5 DEF TypeOK, watcher, aiven, At
<1> QED BY <1>1, <1>3, <1>4, <1>6 DEF EditStays

LEMMA UserEditsMoves ==
    ASSUME TypeOK, NEW o \in Objects, UserEditsSpec(o)
    PROVE  /\ TypeOK' /\ EditStays /\ edits' = edits + 1
           /\ UNCHANGED <<aiven, meddled, unseen>> /\ lost \subseteq lost'
           /\ LET d == crs'[o]
              IN  /\ Writes(o, d) /\ Newer(d, crs[o]) /\ d.gen = crs[o].gen + 1
                  /\ d.processed = crs[o].processed /\ d.finalizer = crs[o].finalizer
                  /\ d.known = crs[o].known /\ d.deleting = crs[o].deleting
           /\ Exists(crs[o]) /\ ~crs[o].deleting
<1>1. /\ edits' = edits + 1 /\ edits' \in Nat /\ Exists(crs[o]) /\ ~crs[o].deleting
      /\ UNCHANGED <<setup, work, secrets, faults, unheard>>
      /\ UNCHANGED <<cache, queued, source, watcher, aiven, meddled, unseen>>
    BY EditTypes DEF UserEditsSpec
<1>2. PICK s \in setup.wants :
          /\ crs' = [crs EXCEPT ![o] = Revised(crs[o], s)]
          /\ lost' = IF ~s.sourced /\ secrets[o] # user.pw THEN lost \cup {"cleared"} ELSE lost
    BY DEF UserEditsSpec
<1> DEFINE d == Revised(crs[o], s)
<1>3. s \in Specs /\ crs[o] \in Records
    BY WantTypes, WorkTypes
<1>4. /\ Newer(d, crs[o]) /\ d.gen = crs[o].gen + 1
      /\ d.processed = crs[o].processed /\ d.finalizer = crs[o].finalizer
      /\ d.known = crs[o].known /\ d.deleting = crs[o].deleting
    BY <1>1, <1>3, RevisedFields
<1>5. Writes(o, d)
    BY <1>2 DEF Writes
<1> HIDE DEF d
<1>6. d \in Records
    BY <1>4 DEF Newer
<1>7. crs' \in [Objects -> Records] /\ crs'[o] = d
    BY <1>5, <1>6, WritesOne
<1>8. lost \subseteq lost' /\ lost' \subseteq lost \cup {"cleared"}
    BY <1>2
<1>9. TypeOK'
    BY <1>1, <1>7, <1>8 DEF TypeOK, watcher, aiven, At
<1> QED BY <1>1, <1>4, <1>5, <1>7, <1>8, <1>9 DEF EditStays

LEMMA UserDeletesMoves ==
    ASSUME TypeOK, NEW o \in Objects, UserDeletes(o)
    PROVE  /\ TypeOK' /\ EditStays /\ edits' = edits + 1
           /\ UNCHANGED <<aiven, lost, meddled>>
           /\ Exists(crs[o]) /\ ~crs[o].deleting
           /\ unseen => unseen'
           /\ LET d == crs'[o]
              IN \/ Writes(o, NoObject) /\ ~crs[o].finalizer /\ unseen'
                 \/ /\ Writes(o, d) /\ Newer(d, crs[o]) /\ d.gen = crs[o].gen + 1
                    /\ d.processed = crs[o].processed /\ d.finalizer = crs[o].finalizer
                    /\ d.known = crs[o].known /\ d.deleting /\ d.finalizer
                    /\ unseen' = unseen
<1>1. /\ edits' = edits + 1 /\ edits' \in Nat /\ Exists(crs[o]) /\ ~crs[o].deleting
      /\ UNCHANGED <<setup, work, secrets, faults, unheard>>
      /\ UNCHANGED <<cache, queued, source, watcher, aiven, lost, meddled>>
      /\ unseen' = (unseen \/ ~crs[o].finalizer)
    BY EditTypes DEF UserDeletes
<1>2. crs[o] \in Records /\ crs[o].finalizer \in BOOLEAN /\ unseen \in BOOLEAN
    BY WorkTypes, RecordTypes DEF TypeOK
<1>3. CASE ~crs[o].finalizer
    <2>1. Writes(o, NoObject)
        BY <1>3 DEF UserDeletes, Writes
    <2>2. crs' \in [Objects -> Records] /\ unseen' \in BOOLEAN
        BY <1>1, <1>2, <2>1, WritesOne, NoObjectFields
    <2>3. TypeOK'
        BY <1>1, <2>2 DEF TypeOK, watcher, aiven, At
    <2> QED BY <1>1, <1>3, <2>1, <2>3 DEF EditStays
<1>4. CASE crs[o].finalizer
    <2> DEFINE d == Deleted(crs[o])
    <2>1. /\ Newer(d, crs[o]) /\ d.gen = crs[o].gen + 1
          /\ d.processed = crs[o].processed /\ d.finalizer = crs[o].finalizer
          /\ d.known = crs[o].known /\ d.deleting
        BY <1>1, <1>2, RevisedFields, RecordTypes
    <2>2. Writes(o, d)
        BY <1>4 DEF UserDeletes, Writes
    <2> HIDE DEF d
    <2>3. d \in Records
        BY <2>1 DEF Newer
    <2>4. crs' \in [Objects -> Records] /\ crs'[o] = d /\ unseen' = unseen
        BY <1>1, <1>2, <1>4, <2>2, <2>3, WritesOne
    <2>5. TypeOK'
        BY <1>1, <2>4 DEF TypeOK, watcher, aiven, At
    <2> QED BY <1>1, <1>4, <2>1, <2>2, <2>4, <2>5 DEF EditStays
<1> QED BY <1>2, <1>3, <1>4

LEMMA UserChangesSourceMoves ==
    ASSUME TypeOK, UserChangesSource
    PROVE  /\ TypeOK' /\ EditStays /\ edits' = edits + 1
           /\ UNCHANGED <<crs, aiven, lost, meddled, unseen>>
<1>1. /\ edits' = edits + 1 /\ edits' \in Nat
      /\ UNCHANGED <<setup, work, secrets, faults, unheard>>
      /\ UNCHANGED <<objects, watcher, aiven, lost, meddled, unseen>>
      /\ source' \in Sources \cup {Absent}
    BY EditTypes DEF UserChangesSource
<1> QED BY <1>1 DEF TypeOK, objects, watcher, aiven, EditStays, At

LEMMA OthersChangePasswordMoves ==
    ASSUME TypeOK, OthersChangePassword
    PROVE  /\ TypeOK' /\ EditStays /\ edits' = edits + 1
           /\ UNCHANGED <<crs, lost, unseen>> /\ user'.there = user.there /\ meddled'
<1>1. /\ edits' = edits + 1 /\ edits' \in Nat
      /\ UNCHANGED <<setup, work, secrets, faults, unheard>>
      /\ UNCHANGED <<objects, source, watcher, lost, unseen>> /\ meddled' = TRUE /\ made' = made + 1
    BY EditTypes DEF OthersChangePassword
<1> DEFINE k == MadeUp(made)
<1>2. user \in Users /\ made \in Nat /\ k \in Nat /\ NoPassword \in Nat
    <2>1. user \in Users /\ made \in Nat
        BY DEF TypeOK
    <2> QED BY <2>1 DEF MadeUp, NoPassword
<1>3. user' = [user EXCEPT !.pw = k, !.shown = NoPassword, !.lag = FALSE]
    BY DEF OthersChangePassword
<1>4. user' \in Users /\ user'.lag = FALSE /\ user'.there = user.there
    <2> HIDE DEF k
    <2> QED BY <1>2, <1>3 DEF Users
<1>5. made' \in Nat
    BY <1>1, <1>2
<1> QED BY <1>1, <1>4, <1>5 DEF TypeOK, objects, watcher, EditStays, At

LEMMA OthersDeleteUserMoves ==
    ASSUME TypeOK, OthersDeleteUser
    PROVE  /\ TypeOK' /\ EditStays /\ edits' = edits + 1
           /\ UNCHANGED <<crs, made, lost, meddled, unseen>> /\ user' = NoUser
<1>1. /\ edits' = edits + 1 /\ edits' \in Nat
      /\ UNCHANGED <<setup, work, secrets, faults, unheard>>
      /\ UNCHANGED <<objects, source, watcher, made, lost, meddled, unseen>> /\ user' = NoUser
    BY EditTypes DEF OthersDeleteUser
<1> QED BY <1>1, NoUserFields DEF TypeOK, objects, watcher, EditStays, At

----------------------------------------------------------------------------
(* The copies of an object, as the object changes                          *)

\* What every step leaves or adds to.
Later == /\ edits <= edits' /\ edits' \in Nat /\ setup' = setup
         /\ unseen => unseen'
         /\ unheard => unheard'

LEMMA CachedStays ==
    ASSUME TypeOK, Later, NEW o \in Objects, Cached(o), cache'[o] = cache[o], crs'[o] = crs[o]
    PROVE  Cached(o)'
<1>1. /\ cache[o].uid \in Nat /\ crs[o].uid \in Nat /\ edits \in Nat
    BY WorkTypes, RecordTypes
<1>2. cache[o].uid <= edits' /\ crs[o].uid <= edits'
    BY <1>1 DEF Cached, Later
<1> QED BY <1>2 DEF Cached, Later, IsCurrent, KindIs

LEMMA CachedSync ==
    ASSUME TypeOK, Later, NEW o \in Objects, Cached(o), cache'[o] = crs[o], crs'[o] = crs[o]
    PROVE  Cached(o)'
<1>1. crs[o] \in Records /\ crs[o].uid \in Nat /\ edits \in Nat
    BY WorkTypes, RecordTypes
<1>2. crs[o].uid <= edits'
    BY <1>1 DEF Cached, Later
<1>3. Earlier(crs[o], crs[o])
    BY <1>1, RecordTypes DEF Earlier
<1> QED BY <1>2, <1>3 DEF Cached, Later, IsCurrent, KindIs

\* A new version of an object that a pass holds or nobody has seen.
LEMMA CachedNewer ==
    ASSUME TypeOK, Later, NEW o \in Objects, Cached(o), cache'[o] = cache[o],
           NEW d, crs'[o] = d, Newer(d, crs[o]),
           d.finalizer \/ Untouched(d),
           cache[o].uid # d.uid => Untouched(d),
           d.processed = d.gen => cache[o].uid = d.uid /\ cache[o].gen = d.gen,
           KindIs("ClickhouseUser") /\ ~unheard' /\ Exists(cache[o]) /\ cache[o].deleting
           /\ cache[o].uid = d.uid => cache[o].known = d.known
    PROVE  Cached(o)'
<1>1. /\ cache[o] \in Records /\ crs[o] \in Records /\ d \in Records
      /\ cache[o].uid \in Nat /\ crs[o].uid \in Nat /\ edits \in Nat
      /\ crs[o].rv \in Nat /\ cache[o].rv \in Nat
    BY WorkTypes, RecordTypes DEF Newer
<1>2. /\ cache[o].uid <= edits' /\ d.uid <= edits' /\ d.uid = crs[o].uid
      /\ Exists(d)
    BY <1>1 DEF Cached, Later, Newer, Exists
<1>3. Earlier(cache[o], d) /\ (Exists(cache[o]) /\ cache[o].uid = d.uid => cache[o].rv < d.rv)
    BY <1>1, EarlierThanNewer DEF Cached
<1>4. d.rv \in Nat
    BY <1>1, RecordTypes
<1>5. ~(Exists(cache[o]) /\ cache[o].uid = d.uid /\ cache[o].rv = d.rv)
    BY <1>1, <1>3, <1>4
<1>6. Exists(cache[o]) /\ ~cache[o].deleting /\ cache[o].uid # d.uid => ~cache[o].finalizer /\ unseen'
    BY <1>2 DEF Cached, Later
<1> QED BY <1>2, <1>3, <1>5, <1>6 DEF Cached, Later, IsCurrent, KindIs

LEMMA CachedGone ==
    ASSUME TypeOK, Later, NEW o \in Objects, Cached(o), cache'[o] = cache[o], crs'[o] = NoObject,
           Exists(cache[o]) /\ ~cache[o].deleting => ~cache[o].finalizer /\ unseen'
    PROVE  Cached(o)'
<1>1. cache[o].uid \in Nat /\ edits \in Nat
    BY WorkTypes, RecordTypes
<1>2. cache[o].uid <= edits' /\ 0 <= edits'
    BY <1>1 DEF Cached, Later
<1>3. Earlier(cache[o], NoObject) /\ ~(Exists(cache[o]) /\ cache[o].uid = 0)
    BY NoObjectFields DEF Earlier, Exists
<1> QED BY <1>2, <1>3, NoObjectFields DEF Cached, Later, IsCurrent, KindIs

LEMMA CachedFresh ==
    ASSUME TypeOK, Later, NEW o \in Objects, Cached(o), cache'[o] = cache[o],
           edits' = edits + 1, NEW s \in Specs, crs'[o] = Fresh(edits', s), ~Exists(crs[o])
    PROVE  Cached(o)'
<1> DEFINE d == Fresh(edits', s)
<1>1. cache[o].uid \in Nat /\ edits \in Nat /\ edits' \in Nat
    BY WorkTypes, RecordTypes DEF Later
<1>2. d.uid = edits' /\ Untouched(d) /\ d.processed # d.gen
    BY <1>1, FreshFields
<1> HIDE DEF d
<1>3. crs'[o] = d
    BY DEF d
<1>4. /\ cache[o].uid <= edits /\ cache[o].uid # d.uid /\ d.uid <= edits' /\ Exists(d)
      /\ cache[o].uid <= edits'
    BY <1>1, <1>2 DEF Cached, Exists
<1>5. Exists(cache[o]) => cache[o].uid # crs[o].uid
    BY DEF Exists
<1>6. Exists(cache[o]) /\ ~cache[o].deleting => ~cache[o].finalizer /\ unseen'
    BY <1>5 DEF Cached, Later
<1> QED BY <1>2, <1>3, <1>4, <1>6 DEF Cached, Later, IsCurrent, KindIs, Earlier

LEMMA CopiedIdle ==
    ASSUME NEW o \in Objects, work'[o].pc = "idle"
    PROVE  Copied(o)'
BY DEF Copied, At

LEMMA CopiedStays ==
    ASSUME TypeOK, Later, NEW o \in Objects, Copied(o), work'[o] = work[o],
           cache'[o] = cache[o], crs'[o] = crs[o]
    PROVE  Copied(o)'
<1>1. ~At(o, "idle") => work[o].orig.uid <= edits'
    BY WorkTypes, RecordTypes DEF Copied, Later
<1> QED BY <1>1 DEF Copied, Later, IsCurrent, KindIs, At

LEMMA CopiedSync ==
    ASSUME TypeOK, Later, NEW o \in Objects, Copied(o), work'[o] = work[o],
           cache'[o] = crs[o], crs'[o] = crs[o]
    PROVE  Copied(o)'
<1>1. ~At(o, "idle") => work[o].orig.uid <= edits'
    BY WorkTypes, RecordTypes DEF Copied, Later
<1>2. ~At(o, "idle") /\ work[o].orig.uid = crs[o].uid => work[o].orig.gen <= crs[o].gen
    BY DEF Copied, Earlier
<1> QED BY <1>1, <1>2 DEF Copied, Later, IsCurrent, KindIs, At

\* A version that the watch, or a user, makes.
Outer(d, c) ==
    /\ Newer(d, c) /\ d.finalizer = c.finalizer /\ d.known = c.known
    /\ Untouched(c) => Untouched(d)
    /\ d.processed = d.gen => d.gen = c.gen /\ c.processed = c.gen

LEMMA OuterCached ==
    ASSUME TypeOK, Later, NEW o \in Objects, Cached(o), cache'[o] = cache[o],
           Outer(crs'[o], crs[o])
    PROVE  Cached(o)'
<1> DEFINE d == crs'[o]
<1>1. /\ Newer(d, crs[o]) /\ d.uid = crs[o].uid /\ d.finalizer = crs[o].finalizer
      /\ d.known = crs[o].known
      /\ (Untouched(crs[o]) => Untouched(d))
      /\ (d.processed = d.gen => d.gen = crs[o].gen /\ crs[o].processed = crs[o].gen)
    BY DEF Outer, Newer
<1> HIDE DEF d
<1>2. crs'[o] = d
    BY DEF d
<1>3. /\ d.finalizer \/ Untouched(d)
      /\ cache[o].uid # d.uid => Untouched(d)
      /\ d.processed = d.gen => cache[o].uid = d.uid /\ cache[o].gen = d.gen
    BY <1>1 DEF Cached
<1>4. KindIs("ClickhouseUser") /\ ~unheard' /\ Exists(cache[o]) /\ cache[o].deleting
      /\ cache[o].uid = d.uid => cache[o].known = d.known
    BY <1>1 DEF Cached, Later
<1> QED BY <1>1, <1>2, <1>3, <1>4, CachedNewer

LEMMA OuterCopied ==
    ASSUME TypeOK, Later, NEW o \in Objects, Copied(o), work'[o] = work[o], cache'[o] = cache[o],
           Outer(crs'[o], crs[o])
    PROVE  Copied(o)'
<1> DEFINE d == crs'[o]
           orig == work[o].orig
<1>1. /\ Newer(d, crs[o]) /\ d.uid = crs[o].uid /\ d.finalizer = crs[o].finalizer
      /\ d.known = crs[o].known /\ d \in Records
      /\ (Untouched(crs[o]) => Untouched(d))
      /\ (d.processed = d.gen => d.gen = crs[o].gen /\ crs[o].processed = crs[o].gen)
    BY DEF Outer, Newer
<1>2. CASE At(o, "idle")
    BY <1>2, CopiedIdle DEF At
<1>3. CASE ~At(o, "idle")
    <2>1. orig.uid <= edits' /\ orig \in Records /\ crs[o] \in Records /\ Exists(orig)
        BY <1>3, WorkTypes, RecordTypes DEF Copied, Later
    <2>2. Earlier(orig, d) /\ (orig.uid = d.uid => orig.rv < d.rv)
        <3>1. Earlier(orig, crs[o])
            BY <1>3 DEF Copied
        <3> HIDE DEF d, orig
        <3> QED BY <1>1, <2>1, <3>1, EarlierThanNewer
    <2>3. ~(orig.uid = d.uid /\ orig.rv = d.rv)
        <3>1. orig.rv \in Nat /\ d.rv \in Nat
            BY <1>1, <2>1, RecordTypes
        <3> QED BY <2>2, <3>1
    <2>4. crs'[o] = d /\ work'[o].orig = orig
        OBVIOUS
    <2> HIDE DEF d
    <2> QED BY <1>1, <1>3, <2>1, <2>2, <2>3, <2>4 DEF Copied, Later, IsCurrent, KindIs, At
<1> QED BY <1>2, <1>3

LEMMA CopiedGone ==
    ASSUME TypeOK, Later, NEW o \in Objects, Copied(o), work'[o] = work[o], cache'[o] = cache[o],
           crs'[o] = NoObject, ~crs[o].finalizer
    PROVE  Copied(o)'
<1>1. CASE At(o, "idle")
    BY <1>1, CopiedIdle DEF At
<1>2. CASE ~At(o, "idle")
    <2>1. work[o].orig.uid <= edits' /\ Exists(work[o].orig) /\ work[o].orig.uid # 0
        BY <1>2, WorkTypes, RecordTypes DEF Copied, Later, Exists
    <2>2. Earlier(work[o].orig, NoObject)
        BY <2>1, NoObjectFields DEF Earlier, Exists
    <2>3. work[o].pc \notin Pass
        BY <1>2, <2>1 DEF Copied, Earlier
    <2> QED BY <1>2, <2>1, <2>2, <2>3, NoObjectFields
        DEF Copied, Later, IsCurrent, KindIs, At
<1> QED BY <1>1, <1>2

LEMMA CopiedFresh ==
    ASSUME TypeOK, Later, NEW o \in Objects, Copied(o), work'[o] = work[o], cache'[o] = cache[o],
           edits' = edits + 1, NEW s \in Specs, crs'[o] = Fresh(edits', s), ~Exists(crs[o])
    PROVE  Copied(o)'
<1> DEFINE d == Fresh(edits', s)
<1>1. CASE At(o, "idle")
    BY <1>1, CopiedIdle DEF At
<1>2. CASE ~At(o, "idle")
    <2>1. /\ work[o].orig.uid <= edits /\ Exists(work[o].orig) /\ work[o].orig.uid # crs[o].uid
          /\ work[o].orig.uid \in Nat /\ edits \in Nat /\ edits' \in Nat
        BY <1>2, WorkTypes, RecordTypes DEF Copied, Later, Exists
    <2>2. d.uid = edits' /\ Untouched(d) /\ d.processed # d.gen
        BY <2>1, FreshFields
    <2> HIDE DEF d
    <2>3. crs'[o] = d /\ work[o].orig.uid # d.uid /\ work[o].orig.uid <= edits'
        BY <2>1, <2>2 DEF d
    <2>4. work[o].pc \notin Pass
        BY <1>2, <2>1 DEF Copied
    <2>5. Earlier(work[o].orig, d)
        BY <2>3 DEF Earlier
    <2> QED BY <1>2, <2>1, <2>2, <2>3, <2>4, <2>5 DEF Copied, Later, IsCurrent, KindIs, At
<1> QED BY <1>1, <1>2

\* A worker goes on with its copy.
Onward(o, P) ==
    \/ At(o, "observe") /\ P \subseteq {"create", "update", "publish", "persist"}
    \/ At(o, "create") /\ P \subseteq {"reset", "publish", "persist"}
    \/ At(o, "update") /\ P \subseteq {"reset", "publish", "persist"}
    \/ work[o].pc \in {"reset", "fetch", "publish"} /\ P \subseteq {"fetch", "publish", "persist"}
    \/ At(o, "delete") /\ P = {"unfinalize"}

LEMMA OnwardFacts ==
    ASSUME NEW o \in Objects, NEW P, Onward(o, P), NEW p \in P
    PROVE  /\ work[o].pc \in Pass \cup {"delete"} /\ ~At(o, "idle")
           /\ p \notin {"idle", "hold", "observe", "annotate", "delete"}
           /\ p \in Pass => work[o].pc \in Pass
           /\ p = "unfinalize" <=> At(o, "delete")
           /\ p \in Removal <=> p = "unfinalize"
           /\ p \in {"create", "update", "reset"}
              => work[o].pc \in {"hold", "observe", "create", "update", "reset"}
BY DEF Onward, Pass, Removal, At

LEMMA CopiedGoes ==
    ASSUME TypeOK, Later, NEW o \in Objects, Copied(o), NEW P, Goes(o, P), Onward(o, P),
           cache'[o] = cache[o], crs'[o] = crs[o]
    PROVE  Copied(o)'
<1> DEFINE w == work[o]
           v == work'[o]
<1>1. /\ v.pc \in P /\ v.orig = w.orig /\ v.obj \in Records /\ SameObject(v.obj, w.obj)
      /\ (w.obj.known => v.obj.known)
      /\ v.pc \in {"create", "update", "reset"}
         => v.obj.running = w.obj.running /\ v.obj.processed = w.obj.processed
      /\ v.pc = "unfinalize" => v.obj = w.obj
    BY DEF Goes, Alike, Me
<1>2. /\ w.pc \in Pass \cup {"delete"} /\ ~At(o, "idle")
      /\ v.pc \notin {"idle", "hold", "observe", "annotate", "delete"}
      /\ v.pc \in Pass => w.pc \in Pass
      /\ v.pc = "unfinalize" => w.pc = "delete"
      /\ v.pc \in Removal <=> v.pc = "unfinalize"
      /\ v.pc \in {"create", "update", "reset"}
         => w.pc \in {"hold", "observe", "create", "update", "reset"}
    BY <1>1, OnwardFacts DEF At
<1>3. w.orig.uid <= edits'
    BY <1>2, WorkTypes, RecordTypes DEF Copied, Later
<1>4. SameObject(v.obj, w.orig) /\ (w.orig.known => v.obj.known)
    BY <1>1, <1>2 DEF Copied, SameObject
<1>5. /\ v.pc \in Pass => w.orig.finalizer /\ w.orig.uid = crs[o].uid
      /\ v.pc \in Removal => w.orig.deleting
      /\ v.pc \in Removal \cup {"hold", "observe"} => v.obj = w.orig
    BY <1>1, <1>2 DEF Copied, Removal
<1>6. KindIs("ClickhouseUser") /\ ~unheard /\ w.orig.deleting /\ w.orig.uid = crs[o].uid
      /\ v.pc \in Removal => w.orig.known = crs[o].known
    BY <1>1, <1>2 DEF Copied, Removal
<1>7. v.pc \in {"create", "update", "reset"}
      => v.obj.running = w.orig.running /\ v.obj.processed = w.orig.processed
    BY <1>1, <1>2 DEF Copied
<1>8. work'[o] = v /\ work[o] = w
    OBVIOUS
<1>9. /\ Exists(w.orig) /\ Earlier(w.orig, crs[o])
      /\ IsCurrent(o, w.orig) => w.orig = crs[o]
      /\ w.orig.uid = crs[o].uid => cache[o].uid = crs[o].uid /\ w.orig.gen <= cache[o].gen
      /\ w.orig.uid # crs[o].uid => Untouched(crs[o])
      /\ crs[o].processed = crs[o].gen => w.orig.uid = crs[o].uid /\ w.orig.gen = crs[o].gen
    BY <1>2 DEF Copied
<1>10. (IsCurrent(o, w.orig))' <=> IsCurrent(o, w.orig)
    BY <1>1 DEF IsCurrent
<1>11. v.pc # "annotate"
    BY <1>2
<1> HIDE DEF w, v
<1> QED BY <1>1, <1>3, <1>4, <1>5, <1>6, <1>7, <1>8, <1>9, <1>10, <1>11
    DEF Copied, Later, KindIs, At, IsCurrent

LEMMA CopiedTakes ==
    ASSUME TypeOK, Later, NEW o \in Objects, Cached(o), Takes(o),
           cache'[o] = cache[o], crs'[o] = crs[o]
    PROVE  Copied(o)'
<1> DEFINE c == cache[o]
           v == work'[o]
<1>1. /\ Exists(c) /\ v.orig = c /\ v.obj = c
      /\ v.pc = IF c.deleting THEN "delete" ELSE IF c.finalizer THEN "observe" ELSE "hold"
    BY DEF Takes
<1>2. c \in Records /\ c.uid \in Nat /\ edits \in Nat /\ c.gen \in Nat
    BY WorkTypes, RecordTypes
<1>3. c.uid <= edits' /\ SameObject(c, c)
    BY <1>2 DEF Cached, Later, SameObject
<1>4. /\ v.pc \in Pass => ~c.deleting /\ c.finalizer
      /\ v.pc \in Removal => c.deleting
      /\ v.pc \notin {"create", "update", "reset"}
    BY <1>1 DEF Pass, Removal
<1>5. v.pc \in Pass => c.uid = crs[o].uid
    BY <1>1, <1>4 DEF Cached
<1>6. work'[o] = v /\ cache[o] = c
    OBVIOUS
<1> HIDE DEF v
<1> QED BY <1>1, <1>2, <1>3, <1>4, <1>5, <1>6 DEF Copied, Cached, Later, KindIs, At, IsCurrent

LEMMA CopiedHolds ==
    ASSUME TypeOK, Later, NEW o \in Objects, Cached(o), Holds(o), cache'[o] = cache[o]
    PROVE  Copied(o)' /\ Cached(o)'
<1> DEFINE c == cache[o]
           d == crs'[o]
           v == work'[o]
<1>1. /\ v.pc = "observe" /\ v.orig = d /\ v.obj = d
      /\ d.finalizer /\ IsCurrent(o, c) /\ c = crs[o] /\ Exists(c)
    BY DEF Holds, Cached, IsCurrent
<1>2. \/ d = c
      \/ /\ Newer(d, c) /\ d.gen = c.gen /\ d.deleting = c.deleting /\ d.known = c.known
         /\ d.processed = c.processed
    BY DEF Holds
<1>3. c \in Records /\ d \in Records /\ d.uid = c.uid /\ d.gen = c.gen /\ d.known = c.known
    BY <1>2, WorkTypes DEF Newer
<1> HIDE DEF d
<1>4. Cached(o)'
    <2>1. CASE d = c
        BY <1>1, <2>1, CachedStays DEF d
    <2>2. CASE Newer(d, c)
        <3>1. crs'[o] = d
            BY DEF d
        <3> QED BY <1>1, <1>3, <2>2, <3>1, CachedNewer
    <2> QED BY <1>2, <2>1, <2>2
<1>5. Copied(o)'
    <2>1. d.uid <= edits' /\ SameObject(d, d) /\ Earlier(d, d) /\ Exists(d) /\ d.gen <= c.gen
        BY <1>1, <1>3, <1>4, RecordTypes DEF Cached, SameObject, Earlier, d, Exists
    <2>2. v.pc \notin Removal /\ v.pc \notin {"create", "update", "reset"}
        BY <1>1 DEF Removal
    <2>3. work'[o] = v /\ crs'[o] = d
        BY DEF d
    <2> HIDE DEF v
    <2> QED BY <1>1, <1>3, <2>1, <2>2, <2>3 DEF Copied, At
<1> QED BY <1>4, <1>5

\* The object of a worker that saves is the one it began with.
LEMMA CurrentFacts ==
    ASSUME TypeOK, NEW o \in Objects, Copied(o), ~At(o, "idle"), IsCurrent(o, Me(o))
    PROVE  /\ work[o].orig = crs[o] /\ SameObject(Me(o), crs[o])
           /\ crs[o].known => Me(o).known
           /\ Exists(crs[o])
BY DEF Copied, IsCurrent, SameObject, Me, Exists

LEMMA CachedSaves ==
    ASSUME TypeOK, Later, NEW o \in Objects, Cached(o), Copied(o), Saves(o), work[o].pc \in Pass,
           cache'[o] = cache[o]
    PROVE  Cached(o)'
<1> DEFINE c == cache[o]
           d == crs'[o]
           e == Me(o)
<1>1. ~At(o, "idle") /\ work[o].pc \in Pass /\ IsCurrent(o, e)
    BY DEF At, Pass, Saves
<1>2. /\ work[o].orig = crs[o] /\ SameObject(e, crs[o]) /\ (crs[o].known => e.known)
      /\ Exists(crs[o]) /\ crs[o] \in Records /\ e \in Records /\ c \in Records
    BY <1>1, CurrentFacts, WorkTypes
<1>3. /\ Newer(d, crs[o]) /\ d.gen = crs[o].gen /\ d.deleting = crs[o].deleting
      /\ d.finalizer = crs[o].finalizer /\ d.known = e.known
      /\ d.uid = crs[o].uid /\ d \in Records
    BY DEF Saves, Newer
<1>4. /\ crs[o].finalizer /\ c.uid = crs[o].uid /\ crs[o].gen <= c.gen
    BY <1>1, <1>2 DEF Copied
<1>5. c.gen = crs[o].gen
    <2>1. c.gen <= crs[o].gen
        BY <1>2, <1>4 DEF Cached, Earlier, Exists
    <2> QED BY <1>2, <1>4, <2>1, RecordTypes
<1>6. KindIs("ClickhouseUser") /\ ~unheard' /\ Exists(c) /\ c.deleting => c.known = d.known
    <2>1. SUFFICES ASSUME KindIs("ClickhouseUser"), ~unheard', Exists(c), c.deleting
                   PROVE  c.known = d.known
        OBVIOUS
    <2>2. c.known = crs[o].known /\ crs[o].deleting
        BY <1>4, <1>5, <2>1 DEF Cached, Later, Earlier
    <2>3. ~(d.known /\ ~crs[o].known)
        BY <2>1, <2>2 DEF Saves
    <2>4. d.known \in BOOLEAN /\ crs[o].known \in BOOLEAN
        BY <1>2, <1>3, RecordTypes
    <2> QED BY <1>2, <1>3, <2>2, <2>3, <2>4
<1>7. crs'[o] = d
    OBVIOUS
<1> HIDE DEF d, e
<1> QED BY <1>3, <1>4, <1>5, <1>6, <1>7, CachedNewer

Same(p) == work'[p] = work[p] /\ cache'[p] = cache[p] /\ crs'[p] = crs[p]

LEMMA LaterPut ==
    ASSUME TypeOK, UNCHANGED <<setup, edits, unseen>>, unheard => unheard'
    PROVE  Later
<1>1. edits \in Nat
    BY DEF TypeOK
<1> QED BY <1>1 DEF Later

LEMMA LaterEdit ==
    ASSUME TypeOK, EditStays, edits' = edits + 1, unseen => unseen'
    PROVE  Later
<1>1. edits \in Nat
    BY DEF TypeOK
<1> QED BY <1>1 DEF Later, EditStays

\* The copies of an object whose step it is decide.
LEMMA CopiesOne ==
    ASSUME TypeOK, CopiesInv, Later, NEW o \in Objects,
           \A p \in Objects : p # o => Same(p),
           Cached(o)', Copied(o)', Outside(o)'
    PROVE  CopiesInv'
<1>1. ASSUME NEW p \in Objects PROVE Cached(p)' /\ Copied(p)' /\ Outside(p)'
    <2>1. CASE p = o
        BY <2>1
    <2>2. CASE p # o
        <3>1. Same(p) /\ Cached(p) /\ Copied(p) /\ Outside(p)
            BY <2>2 DEF CopiesInv
        <3>2. Cached(p)' /\ Copied(p)'
            BY <3>1, CachedStays, CopiedStays DEF Same
        <3> QED BY <3>1, <3>2 DEF Outside, Same, At, Later
    <2> QED BY <2>1, <2>2
<1> QED BY <1>1 DEF CopiesInv

LEMMA InsideOutside ==
    ASSUME Later, NEW o \in Objects, Outside(o),
           ~At(o, "idle") \/ Exists(crs[o]) \/ Exists(cache[o])
    PROVE  o \in setup.objects /\ Outside(o)'
BY DEF Outside, Later

\* A worker goes on, or stops, and changes no object.
LEMMA CopiesWorker ==
    ASSUME TypeOK, CopiesInv, Later, NEW o \in Objects, ~At(o, "idle"),
           UNCHANGED <<crs, cache>>, NEW P, Stops(o) \/ (Goes(o, P) /\ Onward(o, P))
    PROVE  CopiesInv'
<1>1. Cached(o) /\ Copied(o) /\ Outside(o)
    BY DEF CopiesInv
<1>2. Cached(o)' /\ Outside(o)'
    BY <1>1, CachedStays, InsideOutside
<1>3. Copied(o)'
    <2>1. CASE Stops(o)
        BY <2>1, CopiedIdle, IdleFields DEF Stops
    <2>2. CASE Goes(o, P) /\ Onward(o, P)
        BY <1>1, <2>2, CopiedGoes
    <2> QED BY <2>1, <2>2
<1>4. \A p \in Objects : p # o => Same(p)
    BY DEF Same, Moves, Stops, Goes
<1> QED BY <1>2, <1>3, <1>4, CopiesOne

\* A step of the worker of o, with what it does to o's user and the history.
LEMMA BeginCopies ==
    ASSUME TypeOK, CopiesInv, NEW o \in Objects, Begin(o)
    PROVE  TypeOK' /\ CopiesInv'
<1>1. /\ TypeOK' /\ (Takes(o) \/ UNCHANGED work) /\ StaysPut /\ UNCHANGED unheard
      /\ Cached(o) /\ Copied(o) /\ Outside(o)
    BY BeginMoves DEF CopiesInv
<1>2. Later
    BY <1>1, LaterPut DEF StaysPut
<1>3. CASE Takes(o)
    <2>1. Cached(o)' /\ Copied(o)' /\ Outside(o)'
        BY <1>1, <1>2, <1>3, CachedStays, CopiedTakes, InsideOutside DEF StaysPut, Takes
    <2>2. \A p \in Objects : p # o => Same(p)
        BY <1>1, <1>3 DEF Same, Takes, Moves, StaysPut
    <2> QED BY <1>1, <1>2, <2>1, <2>2, CopiesOne
<1>4. CASE UNCHANGED work
    <2>1. Cached(o)' /\ Copied(o)'
        BY <1>1, <1>2, <1>4, CachedStays, CopiedStays DEF StaysPut
    <2>2. Outside(o)'
        BY <1>1, <1>4 DEF Outside, At, StaysPut
    <2>3. \A p \in Objects : p # o => Same(p)
        BY <1>1, <1>4 DEF Same, StaysPut
    <2> QED BY <1>1, <1>2, <2>1, <2>2, <2>3, CopiesOne
<1> QED BY <1>1, <1>3, <1>4

LEMMA HoldCopies ==
    ASSUME TypeOK, CopiesInv, NEW o \in Objects, Hold(o)
    PROVE  TypeOK' /\ CopiesInv'
<1>1. /\ TypeOK' /\ At(o, "hold") /\ UNCHANGED <<setup, cache, edits, unheard, unseen>>
      /\ (Stops(o) /\ UNCHANGED crs) \/ Holds(o)
      /\ Cached(o) /\ Copied(o) /\ Outside(o)
    BY HoldMoves DEF CopiesInv, history
<1>2. Later /\ ~At(o, "idle")
    BY <1>1, LaterPut DEF At
<1>3. CASE Stops(o) /\ UNCHANGED crs
    BY <1>1, <1>2, <1>3, CopiesWorker
<1>4. CASE Holds(o)
    <2>1. Cached(o)' /\ Copied(o)' /\ Outside(o)'
        BY <1>1, <1>2, <1>4, CopiedHolds, InsideOutside
    <2>2. crs'[o] \in Records
        BY <1>1, WorkTypes DEF TypeOK
    <2>3. \A p \in Objects : p # o => Same(p)
        <3> DEFINE d == crs'[o]
        <3>1. d \in Records /\ Writes(o, d)
            BY <1>4, <2>2 DEF Holds
        <3> HIDE DEF d
        <3> QED BY <1>1, <1>4, <3>1, WritesOne DEF Same, Holds, Moves
    <2> QED BY <1>1, <1>2, <2>1, <2>3, CopiesOne
<1> QED BY <1>1, <1>3, <1>4

\* A copy that a worker has not touched.
LEMMA FreshCopy ==
    ASSUME CopiesInv, NEW o \in Objects, work[o].pc \in Removal \cup {"hold", "observe"}
    PROVE  Me(o) = work[o].orig
<1>1. ~At(o, "idle") /\ Copied(o)
    BY DEF CopiesInv, At, Removal
<1> QED BY <1>1 DEF Copied, Me

LEMMA LeavesGoes ==
    ASSUME NEW o
    PROVE  /\ Leaves(o) => Stops(o) \/ Goes(o, {"persist"})
           /\ Closes(o) => Stops(o) \/ Goes(o, {"persist"})
BY DEF Leaves, Closes, Ends

LEMMA ObserveCopies ==
    ASSUME TypeOK, CopiesInv, NEW o \in Objects, Observe(o)
    PROVE  TypeOK' /\ CopiesInv'
<1>1. At(o, "observe") /\ Me(o) = work[o].orig
    BY FreshCopy DEF Observe, At
<1>2. /\ TypeOK' /\ StaysPut /\ UNCHANGED unheard
      /\ Stops(o) \/ Goes(o, {"persist"}) \/ Goes(o, {"create", "update"}) \/ Goes(o, {"publish"})
    BY <1>1, ObserveMoves, LeavesGoes
<1> DEFINE P == {"create", "update", "publish", "persist"}
<1>3. Stops(o) \/ (Goes(o, P) /\ Onward(o, P))
    BY <1>1, <1>2 DEF Goes, Onward
<1>4. Later /\ ~At(o, "idle")
    BY <1>1, <1>2, LaterPut DEF At, StaysPut
<1> HIDE DEF P
<1> QED BY <1>2, <1>3, <1>4, CopiesWorker DEF StaysPut

LEMMA CreateCopies ==
    ASSUME TypeOK, CopiesInv, NEW o \in Objects, Create(o)
    PROVE  TypeOK' /\ CopiesInv'
<1>1. /\ TypeOK' /\ At(o, "create") /\ StaysPut /\ (unheard => unheard')
      /\ Stops(o) \/ Goes(o, {"persist"}) \/ Goes(o, {"reset"}) \/ Goes(o, {"publish"})
    BY CreateMoves, LeavesGoes DEF Unheard
<1> DEFINE P == {"reset", "publish", "persist"}
<1>2. Stops(o) \/ (Goes(o, P) /\ Onward(o, P))
    BY <1>1 DEF Goes, Onward
<1>3. Later /\ ~At(o, "idle")
    BY <1>1, LaterPut DEF At, StaysPut
<1> HIDE DEF P
<1> QED BY <1>1, <1>2, <1>3, CopiesWorker DEF StaysPut

LEMMA UpdateCopies ==
    ASSUME TypeOK, CopiesInv, NEW o \in Objects, Update(o)
    PROVE  TypeOK' /\ CopiesInv'
<1>1. /\ TypeOK' /\ At(o, "update") /\ StaysPut /\ (unheard => unheard')
      /\ Stops(o) \/ Goes(o, {"persist"}) \/ Goes(o, {"reset"}) \/ Goes(o, {"publish"})
    BY UpdateMoves, LeavesGoes
<1> DEFINE P == {"reset", "publish", "persist"}
<1>2. Stops(o) \/ (Goes(o, P) /\ Onward(o, P))
    BY <1>1 DEF Goes, Onward
<1>3. Later /\ ~At(o, "idle")
    BY <1>1, LaterPut DEF At, StaysPut
<1> HIDE DEF P
<1> QED BY <1>1, <1>2, <1>3, CopiesWorker DEF StaysPut

LEMMA ResetCopies ==
    ASSUME TypeOK, CopiesInv, NEW o \in Objects, Reset(o)
    PROVE  TypeOK' /\ CopiesInv'
<1>1. /\ TypeOK' /\ At(o, "reset") /\ StaysPut /\ (unheard => unheard')
      /\ Stops(o) \/ Goes(o, {"persist"}) \/ Goes(o, {"fetch"}) \/ Goes(o, {"fetch", "publish"})
    <2>1. Unheard => (unheard => unheard')
        BY DEF Unheard
    <2> QED BY <2>1, ResetMoves, LeavesGoes
<1> DEFINE P == {"fetch", "publish", "persist"}
<1>2. Stops(o) \/ (Goes(o, P) /\ Onward(o, P))
    BY <1>1 DEF Goes, Onward, At
<1>3. Later /\ ~At(o, "idle")
    BY <1>1, LaterPut DEF At, StaysPut
<1> HIDE DEF P
<1> QED BY <1>1, <1>2, <1>3, CopiesWorker DEF StaysPut

LEMMA FetchCopies ==
    ASSUME TypeOK, CopiesInv, NEW o \in Objects, Fetch(o)
    PROVE  TypeOK' /\ CopiesInv'
<1>1. /\ TypeOK' /\ At(o, "fetch") /\ StaysPut /\ (unheard => unheard')
      /\ Stops(o) \/ Goes(o, {"persist"}) \/ Goes(o, {"publish"})
    BY FetchMoves, LeavesGoes
<1> DEFINE P == {"fetch", "publish", "persist"}
<1>2. Stops(o) \/ (Goes(o, P) /\ Onward(o, P))
    BY <1>1 DEF Goes, Onward, At
<1>3. Later /\ ~At(o, "idle")
    BY <1>1, LaterPut DEF At, StaysPut
<1> HIDE DEF P
<1> QED BY <1>1, <1>2, <1>3, CopiesWorker DEF StaysPut

LEMMA PublishCopies ==
    ASSUME TypeOK, CopiesInv, NEW o \in Objects, Publish(o)
    PROVE  TypeOK' /\ CopiesInv'
<1>1. /\ TypeOK' /\ At(o, "publish") /\ UNCHANGED <<setup, crs, cache, edits, unseen>>
      /\ (unheard => unheard')
      /\ Stops(o) \/ Goes(o, {"persist"})
    BY PublishMoves, LeavesGoes DEF Unheard
<1> DEFINE P == {"fetch", "publish", "persist"}
<1>2. Stops(o) \/ (Goes(o, P) /\ Onward(o, P))
    BY <1>1 DEF Goes, Onward, At
<1>3. Later /\ ~At(o, "idle")
    BY <1>1, LaterPut DEF At
<1> HIDE DEF P
<1> QED BY <1>1, <1>2, <1>3, CopiesWorker

LEMMA PersistFacts ==
    ASSUME TypeOK, CopiesInv, NEW o \in Objects, Persist(o)
    PROVE  /\ TypeOK' /\ At(o, "persist") /\ Later
           /\ UNCHANGED <<setup, cache, secrets, source, watcher, aiven, edits, lost, meddled, unseen>>
           /\ \/ Saves(o) /\ (Stops(o) \/ Halves(o))
              \/ /\ UNCHANGED crs /\ Stops(o)
                 /\ Unheard \/ unheard' = (unheard \/ (KindIs("ClickhouseUser") /\ ~crs[o].known))
<1>1. At(o, "persist") /\ ~At(o, "idle") /\ Copied(o)
    BY DEF Persist, At, CopiesInv
<1>2. IsCurrent(o, Me(o)) => (crs[o].known => Me(o).known)
    BY <1>1, CurrentFacts
<1>3. /\ TypeOK'
      /\ UNCHANGED <<setup, cache, secrets, source, watcher, aiven, edits, lost, meddled, unseen>>
      /\ \/ Saves(o) /\ (Stops(o) \/ Halves(o))
         \/ /\ UNCHANGED crs /\ Stops(o)
            /\ Unheard \/ unheard' = (unheard \/ (KindIs("ClickhouseUser") /\ ~crs[o].known))
    BY <1>2, PersistMoves
<1>4. unheard => unheard'
    BY <1>3 DEF Saves, Unheard
<1> QED BY <1>1, <1>3, <1>4, LaterPut

LEMMA AnnotateFacts ==
    ASSUME TypeOK, CopiesInv, NEW o \in Objects, Annotate(o)
    PROVE  /\ TypeOK' /\ At(o, "annotate") /\ Stops(o) /\ Later
           /\ UNCHANGED <<setup, cache, secrets, source, watcher, aiven, edits, history>>
           /\ Saves(o) \/ UNCHANGED crs
<1>1. At(o, "annotate") /\ ~At(o, "idle") /\ Copied(o)
    BY DEF Annotate, At, CopiesInv
<1>2. IsCurrent(o, Me(o)) => Me(o).gen = crs[o].gen /\ Me(o).known = crs[o].known
    BY <1>1, CurrentFacts DEF SameObject, Copied, Me
<1>3. /\ TypeOK' /\ Stops(o)
      /\ UNCHANGED <<setup, cache, secrets, source, watcher, aiven, edits, history>>
      /\ Saves(o) \/ UNCHANGED crs
    BY <1>2, AnnotateMoves
<1>4. unheard => unheard'
    BY <1>3 DEF history
<1>5. UNCHANGED unseen
    BY <1>3 DEF history
<1> QED BY <1>1, <1>3, <1>4, <1>5, LaterPut

\* Between the two writes the worker has the object as the first left it.
LEMMA CopiedHalves ==
    ASSUME TypeOK, Later, NEW o \in Objects, Cached(o)', Copied(o), Saves(o), Halves(o),
           work[o].pc \in Pass, cache'[o] = cache[o]
    PROVE  Copied(o)'
<1> DEFINE d == crs'[o]
           e == Me(o)
           v == work'[o]
<1>1. ~At(o, "idle") /\ IsCurrent(o, e)
    BY DEF At, Pass, Saves
<1>2. /\ work[o].orig = crs[o] /\ SameObject(e, crs[o])
      /\ Exists(crs[o]) /\ crs[o] \in Records /\ e \in Records
    BY <1>1, CurrentFacts, WorkTypes
<1>3. /\ d \in Records /\ d.uid = crs[o].uid /\ d.rv = crs[o].rv + 1 /\ d.gen = crs[o].gen
      /\ d.spec = crs[o].spec /\ d.deleting = crs[o].deleting /\ d.finalizer = crs[o].finalizer
      /\ d.known = e.known
    BY DEF Saves, Newer
<1>4. /\ v.pc = "annotate" /\ v.orig = d /\ v.obj = Write(e)
    BY DEF Halves
<1>5. /\ Write(e).uid = e.uid /\ Write(e).rv = e.rv + 1 /\ Write(e).gen = e.gen
      /\ Write(e).spec = e.spec /\ Write(e).deleting = e.deleting
      /\ Write(e).finalizer = e.finalizer /\ Write(e).known = e.known
    BY <1>2, WriteFields DEF SameSpec, SameNotes
<1>6. SameObject(Write(e), d) /\ Write(e).known = d.known
    BY <1>2, <1>3, <1>5 DEF SameObject
<1>7. /\ cache[o].uid = d.uid /\ d.gen <= cache[o].gen /\ d.finalizer
    BY <1>1, <1>2, <1>3 DEF Copied
<1>8. Earlier(d, d) /\ Exists(d) /\ d.uid <= edits'
    BY <1>2, <1>3, RecordTypes DEF Earlier, Exists, Cached
<1>9. v.pc \notin Removal \cup {"hold", "observe", "create", "update", "reset"}
    BY <1>4 DEF Removal
<1>10. work'[o] = v /\ crs'[o] = d
    OBVIOUS
<1> HIDE DEF v, d, e
<1> QED BY <1>4, <1>6, <1>7, <1>8, <1>9, <1>10 DEF Copied, At

LEMMA SavesCopies ==
    ASSUME TypeOK, TypeOK', CopiesInv, Later, NEW o \in Objects, work[o].pc \in Pass, UNCHANGED cache,
           Saves(o), Stops(o) \/ Halves(o)
    PROVE  CopiesInv'
<1>1. ~At(o, "idle") /\ Cached(o) /\ Copied(o) /\ Outside(o)
    BY DEF At, CopiesInv, Pass
<1>2. Cached(o)' /\ Outside(o)'
    BY <1>1, CachedSaves, InsideOutside
<1>3. Copied(o)'
    BY <1>1, <1>2, CopiedHalves, CopiedIdle, IdleFields DEF Stops
<1>4. \A p \in Objects : p # o => Same(p)
    <2> DEFINE d == crs'[o]
    <2>1. d \in Records /\ Writes(o, d)
        BY DEF Saves, Newer
    <2> HIDE DEF d
    <2> QED BY <2>1, WritesOne DEF Same, Stops, Halves, Moves
<1> QED BY <1>2, <1>3, <1>4, CopiesOne

LEMMA PersistCopies ==
    ASSUME TypeOK, CopiesInv, NEW o \in Objects, Persist(o)
    PROVE  TypeOK' /\ CopiesInv'
<1>1. /\ TypeOK' /\ At(o, "persist") /\ Later /\ UNCHANGED cache
      /\ \/ Saves(o) /\ (Stops(o) \/ Halves(o))
         \/ UNCHANGED crs /\ Stops(o)
    BY PersistFacts
<1>2. ~At(o, "idle") /\ work[o].pc \in Pass
    BY <1>1 DEF At, Pass
<1> QED BY <1>1, <1>2, SavesCopies, CopiesWorker

LEMMA AnnotateCopies ==
    ASSUME TypeOK, CopiesInv, NEW o \in Objects, Annotate(o)
    PROVE  TypeOK' /\ CopiesInv'
<1>1. /\ TypeOK' /\ At(o, "annotate") /\ Later /\ UNCHANGED cache
      /\ Stops(o) /\ (Saves(o) \/ UNCHANGED crs)
    BY AnnotateFacts
<1>2. ~At(o, "idle") /\ work[o].pc \in Pass
    BY <1>1 DEF At, Pass
<1> QED BY <1>1, <1>2, SavesCopies, CopiesWorker

LEMMA DeleteCopies ==
    ASSUME TypeOK, CopiesInv, NEW o \in Objects, Delete(o)
    PROVE  TypeOK' /\ CopiesInv'
<1>1. At(o, "delete") /\ Me(o) = work[o].orig
    BY FreshCopy DEF Delete, At, Removal
<1>2. /\ TypeOK' /\ StaysPut /\ UNCHANGED unheard
      /\ Stops(o) \/ Goes(o, {"unfinalize"})
    BY <1>1, DeleteMoves
<1> DEFINE P == {"unfinalize"}
<1>3. Stops(o) \/ (Goes(o, P) /\ Onward(o, P))
    BY <1>1, <1>2 DEF Onward
<1>4. Later /\ ~At(o, "idle")
    BY <1>1, <1>2, LaterPut DEF At, StaysPut
<1> HIDE DEF P
<1> QED BY <1>2, <1>3, <1>4, CopiesWorker DEF StaysPut

LEMMA RemoveFacts ==
    ASSUME TypeOK, CopiesInv, NEW o \in Objects, RemoveFinalizer(o)
    PROVE  /\ TypeOK' /\ At(o, "unfinalize") /\ Stops(o) /\ Later
           /\ UNCHANGED <<setup, cache, source, watcher, aiven, edits, history>>
           /\ \/ UNCHANGED crs
              \/ /\ IsCurrent(o, cache[o]) /\ cache[o] = crs[o] /\ crs[o].deleting
                 /\ Writes(o, NoObject)
<1>1. At(o, "unfinalize") /\ ~At(o, "idle") /\ work[o].pc \in Removal /\ Copied(o) /\ Cached(o)
    BY DEF RemoveFinalizer, At, Removal, CopiesInv
<1>2. crs[o].finalizer => crs[o].deleting
    BY <1>1 DEF Copied, Earlier, Untouched
<1>3. /\ TypeOK' /\ Stops(o)
      /\ UNCHANGED <<setup, cache, source, watcher, aiven, edits, history>>
      /\ \/ UNCHANGED crs
         \/ IsCurrent(o, cache[o]) /\ crs[o].deleting /\ Writes(o, NoObject)
    BY <1>2, RemoveMoves
<1>4. Later
    BY <1>3, LaterPut DEF history
<1> QED BY <1>1, <1>3, <1>4 DEF Cached

LEMMA RemoveCopies ==
    ASSUME TypeOK, CopiesInv, NEW o \in Objects, RemoveFinalizer(o)
    PROVE  TypeOK' /\ CopiesInv'
<1>1. /\ TypeOK' /\ At(o, "unfinalize") /\ Stops(o) /\ Later /\ UNCHANGED cache
      /\ UNCHANGED crs \/ (cache[o] = crs[o] /\ crs[o].deleting /\ Writes(o, NoObject))
    BY RemoveFacts
<1>2. ~At(o, "idle") /\ Cached(o) /\ Copied(o) /\ Outside(o)
    BY <1>1 DEF At, CopiesInv
<1>3. CASE cache[o] = crs[o] /\ crs[o].deleting /\ Writes(o, NoObject)
    <2>1. crs'[o] = NoObject /\ \A p \in Objects : p # o => Same(p)
        BY <1>1, <1>3, WritesOne, NoObjectFields DEF Same, Stops, Moves
    <2>2. Cached(o)' /\ Copied(o)' /\ Outside(o)'
        BY <1>1, <1>2, <1>3, <2>1, CachedGone, CopiedIdle, IdleFields, InsideOutside DEF Stops
    <2> QED BY <1>1, <2>1, <2>2, CopiesOne
<1>4. CASE UNCHANGED crs
    BY <1>1, <1>2, <1>4, CopiesWorker
<1> QED BY <1>1, <1>3, <1>4

\* An object that a trigger or a user touches.
LEMMA OuterCopies ==
    ASSUME TypeOK, CopiesInv, Later, NEW o \in Objects, UNCHANGED <<cache, work>>,
           NEW d, Writes(o, d), Outer(d, crs[o]), Exists(crs[o])
    PROVE  CopiesInv'
<1>1. d \in Records
    BY DEF Outer, Newer
<1>2. crs'[o] = d /\ \A p \in Objects : p # o => Same(p)
    BY <1>1, WritesOne DEF Same
<1>3. Cached(o) /\ Copied(o) /\ Outside(o)
    BY DEF CopiesInv
<1>4. Cached(o)' /\ Copied(o)' /\ Outside(o)'
    BY <1>2, <1>3, OuterCached, OuterCopied, InsideOutside
<1> QED BY <1>2, <1>4, CopiesOne

\* Nothing of the objects changes.
LEMMA CopiesStay ==
    ASSUME TypeOK, CopiesInv, Later, UNCHANGED <<crs, cache, work>>
    PROVE  CopiesInv'
<1>1. ASSUME NEW p \in Objects PROVE Cached(p)' /\ Copied(p)' /\ Outside(p)'
    <2>1. Cached(p) /\ Copied(p) /\ Outside(p)
        BY DEF CopiesInv
    <2>2. Cached(p)' /\ Copied(p)'
        BY <2>1, CachedStays, CopiedStays
    <2> QED BY <2>1, <2>2 DEF Outside, At, Later
<1> QED BY <1>1 DEF CopiesInv

LEMMA PatchesOuter ==
    ASSUME TypeOK, NEW o \in Objects, Patches(o)
    PROVE  Outer(crs'[o], crs[o]) /\ Writes(o, crs'[o]) /\ Exists(crs[o])
<1> DEFINE d == crs'[o]
<1>1. /\ Exists(crs[o]) /\ Writes(o, d) /\ Newer(d, crs[o]) /\ d.gen = crs[o].gen
      /\ d.deleting = crs[o].deleting /\ d.finalizer = crs[o].finalizer /\ d.known = crs[o].known
      /\ d.processed = (IF cache[o].processed # 0 THEN 0 ELSE crs[o].processed)
    BY DEF Patches
<1>2. crs[o].gen # 0
    BY WorkTypes, RecordTypes
<1> HIDE DEF d
<1>3. Outer(d, crs[o])
    BY <1>1, <1>2 DEF Outer, Untouched
<1> QED BY <1>1, <1>3 DEF d

LEMMA TriggerCopies ==
    ASSUME TypeOK, CopiesInv, NEW o \in Objects, Trigger(o)
    PROVE  TypeOK' /\ CopiesInv'
<1>1. /\ TypeOK' /\ UNCHANGED <<setup, cache, work, edits, unheard, unseen>>
      /\ Patches(o) \/ UNCHANGED crs
    BY TriggerMoves
<1>2. Later
    BY <1>1, LaterPut
<1> DEFINE d == crs'[o]
<1>3. CASE Patches(o)
    <2>1. Outer(d, crs[o]) /\ Writes(o, d) /\ Exists(crs[o])
        BY <1>3, PatchesOuter
    <2> HIDE DEF d
    <2> QED BY <1>1, <1>2, <2>1, OuterCopies
<1>4. CASE UNCHANGED crs
    BY <1>1, <1>2, <1>4, CopiesStay
<1> QED BY <1>1, <1>3, <1>4

\* The cache shows everything.
LEMMA CopiesSync ==
    ASSUME TypeOK, CopiesInv, Later, UNCHANGED crs, cache' = crs,
           \A p \in Objects : work'[p] = work[p] \/ work'[p] = Idle
    PROVE  CopiesInv'
<1>1. ASSUME NEW p \in Objects PROVE Cached(p)' /\ Copied(p)' /\ Outside(p)'
    <2>1. Cached(p) /\ Copied(p) /\ Outside(p)
        BY DEF CopiesInv
    <2>2. Cached(p)'
        BY <2>1, CachedSync
    <2>3. Copied(p)'
        BY <2>1, CopiedSync, CopiedIdle, IdleFields
    <2> QED BY <2>1, <2>2, <2>3, IdleFields DEF Outside, At, Later
<1> QED BY <1>1 DEF CopiesInv

LEMMA CrashCopies ==
    ASSUME TypeOK, CopiesInv, Crash
    PROVE  TypeOK' /\ CopiesInv'
<1>1. /\ TypeOK' /\ UNCHANGED <<setup, crs, edits, unseen>> /\ cache' = crs
      /\ work' = [o \in Objects |-> Idle] /\ (unheard => unheard')
    BY CrashMoves DEF Unheard
<1>2. Later
    BY <1>1, LaterPut
<1> QED BY <1>1, <1>2, CopiesSync

LEMMA SyncCacheCopies ==
    ASSUME TypeOK, CopiesInv, SyncCache
    PROVE  TypeOK' /\ CopiesInv'
<1>1. TypeOK' /\ UNCHANGED <<setup, crs, work, edits, unheard, unseen>> /\ cache' = crs
    BY SyncCacheMoves DEF bounds, history
<1>2. Later
    BY <1>1, LaterPut
<1> QED BY <1>1, <1>2, CopiesSync

\* Steps of the watch and of Aiven that touch no object.
LEMMA WatchCopies ==
    ASSUME TypeOK, CopiesInv, SyncSource \/ FindDependents \/ AivenProgress
    PROVE  TypeOK' /\ CopiesInv'
<1>1. TypeOK' /\ UNCHANGED <<setup, crs, cache, work, edits, unheard, unseen>>
    BY SyncSourceMoves, FindDependentsMoves, AivenProgressMoves DEF bounds, history, objects
<1>2. Later
    BY <1>1, LaterPut
<1> QED BY <1>1, <1>2, CopiesStay

LEMMA UserCreatesCopies ==
    ASSUME TypeOK, CopiesInv, NEW o \in Objects, UserCreates(o)
    PROVE  TypeOK' /\ CopiesInv'
<1>1. /\ TypeOK' /\ EditStays /\ edits' = edits + 1 /\ UNCHANGED unseen
      /\ o \in setup.objects /\ ~Exists(crs[o])
    BY UserCreatesMoves
<1>2. PICK s \in Specs : Writes(o, Fresh(edits', s))
    BY UserCreatesMoves
<1>3. Later
    BY <1>1, LaterEdit
<1>4. Cached(o) /\ Copied(o) /\ Outside(o)
    BY DEF CopiesInv
<1> DEFINE d == Fresh(edits', s)
<1>5. d \in Records
    BY <1>1, FreshFields DEF TypeOK
<1>6. crs'[o] = d /\ \A p \in Objects : p # o => Same(p)
    <2> HIDE DEF d
    <2> QED BY <1>1, <1>2, <1>5, WritesOne DEF Same, EditStays, d
<1>7. Cached(o)' /\ Copied(o)' /\ Outside(o)'
    <2>1. Cached(o)' /\ Copied(o)'
        BY <1>1, <1>3, <1>4, <1>6, CachedFresh, CopiedFresh DEF EditStays
    <2> QED BY <1>1, <2>1 DEF Outside, EditStays
<1> QED BY <1>1, <1>3, <1>6, <1>7, CopiesOne

LEMMA UserEditsCopies ==
    ASSUME TypeOK, CopiesInv, NEW o \in Objects, UserEditsSpec(o)
    PROVE  TypeOK' /\ CopiesInv'
<1> DEFINE d == crs'[o]
<1>1. /\ TypeOK' /\ EditStays /\ edits' = edits + 1 /\ UNCHANGED unseen /\ Exists(crs[o])
      /\ Writes(o, d) /\ Newer(d, crs[o]) /\ d.gen = crs[o].gen + 1
      /\ d.processed = crs[o].processed /\ d.finalizer = crs[o].finalizer
      /\ d.known = crs[o].known /\ d.deleting = crs[o].deleting
    BY UserEditsMoves
<1>2. crs[o].processed <= crs[o].gen /\ crs[o].processed \in Nat /\ crs[o].gen \in Nat
    BY WorkTypes, RecordTypes
<1> HIDE DEF d
<1>3. Outer(d, crs[o])
    BY <1>1, <1>2 DEF Outer, Untouched
<1>4. Later
    BY <1>1, LaterEdit
<1> QED BY <1>1, <1>3, <1>4, OuterCopies DEF EditStays

LEMMA UserDeletesCopies ==
    ASSUME TypeOK, CopiesInv, NEW o \in Objects, UserDeletes(o)
    PROVE  TypeOK' /\ CopiesInv'
<1> DEFINE d == crs'[o]
<1>1. /\ TypeOK' /\ EditStays /\ edits' = edits + 1 /\ (unseen => unseen')
      /\ Exists(crs[o]) /\ ~crs[o].deleting
      /\ \/ Writes(o, NoObject) /\ ~crs[o].finalizer /\ unseen'
         \/ /\ Writes(o, d) /\ Newer(d, crs[o]) /\ d.gen = crs[o].gen + 1
            /\ d.processed = crs[o].processed /\ d.finalizer = crs[o].finalizer
            /\ d.known = crs[o].known /\ d.finalizer
    BY UserDeletesMoves
<1>2. Later
    BY <1>1, LaterEdit
<1>3. Cached(o) /\ Copied(o) /\ Outside(o)
    BY DEF CopiesInv
<1>4. crs[o].processed <= crs[o].gen /\ crs[o].processed \in Nat /\ crs[o].gen \in Nat
    BY WorkTypes, RecordTypes
<1>5. CASE Writes(o, NoObject) /\ ~crs[o].finalizer /\ unseen'
    <2>1. crs'[o] = NoObject /\ \A p \in Objects : p # o => Same(p)
        BY <1>1, <1>5, WritesOne, NoObjectFields DEF Same, EditStays
    <2>2. Exists(cache[o]) => ~cache[o].finalizer \/ cache[o].deleting
        BY <1>3, <1>5 DEF Cached, Earlier
    <2>3. Cached(o)' /\ Copied(o)' /\ Outside(o)'
        BY <1>1, <1>2, <1>3, <1>5, <2>1, <2>2, CachedGone, CopiedGone, InsideOutside DEF EditStays
    <2> QED BY <1>1, <1>2, <2>1, <2>3, CopiesOne
<1>6. CASE /\ Writes(o, d) /\ Newer(d, crs[o]) /\ d.gen = crs[o].gen + 1
           /\ d.processed = crs[o].processed /\ d.finalizer = crs[o].finalizer
           /\ d.known = crs[o].known /\ d.finalizer
    <2> HIDE DEF d
    <2>1. ~Untouched(crs[o])
        BY <1>6 DEF Untouched
    <2>2. d.processed # d.gen
        BY <1>4, <1>6
    <2>3. Outer(d, crs[o])
        BY <1>6, <2>1, <2>2 DEF Outer
    <2> QED BY <1>1, <1>2, <1>6, <2>3, OuterCopies DEF EditStays
<1> QED BY <1>1, <1>5, <1>6

LEMMA OthersCopies ==
    ASSUME TypeOK, CopiesInv, UserChangesSource \/ OthersChangePassword \/ OthersDeleteUser
    PROVE  TypeOK' /\ CopiesInv'
<1>1. TypeOK' /\ EditStays /\ edits' = edits + 1 /\ UNCHANGED <<crs, unseen>>
    BY UserChangesSourceMoves, OthersChangePasswordMoves, OthersDeleteUserMoves
<1>2. Later
    BY <1>1, LaterEdit
<1> QED BY <1>1, <1>2, CopiesStay DEF EditStays

LEMMA StutterCopies ==
    ASSUME TypeOK, CopiesInv, UNCHANGED vars
    PROVE  TypeOK' /\ CopiesInv'
<1>1. /\ UNCHANGED <<setup, crs, cache, queued, work, secrets, source, seen, watch, toTrigger>>
      /\ UNCHANGED <<user, made, edits, faults, lost, meddled, unheard, unseen>>
    BY DEF vars, objects, watcher, aiven, bounds, history
<1>2. Later
    BY <1>1, LaterPut
<1>3. TypeOK'
    BY <1>1 DEF TypeOK, At
<1> QED BY <1>1, <1>2, <1>3, CopiesStay

LEMMA CopiesStep ==
    ASSUME TypeOK, CopiesInv, [Next]_vars
    PROVE  TypeOK' /\ CopiesInv'
<1>1. ASSUME NEW o \in Objects, Reconcile(o)
      PROVE  TypeOK' /\ CopiesInv'
    BY <1>1, BeginCopies, HoldCopies, ObserveCopies, CreateCopies, UpdateCopies, ResetCopies,
       FetchCopies, PublishCopies, PersistCopies, AnnotateCopies, DeleteCopies, RemoveCopies DEF Reconcile
<1>2. ASSUME Others
      PROVE  TypeOK' /\ CopiesInv'
    BY <1>2, UserCreatesCopies, UserEditsCopies, UserDeletesCopies, OthersCopies DEF Others
<1>3. ASSUME WatchSecret \/ Crash \/ SyncCache \/ SyncSource \/ AivenProgress
      PROVE  TypeOK' /\ CopiesInv'
    BY <1>3, TriggerCopies, CrashCopies, SyncCacheCopies, WatchCopies DEF WatchSecret
<1> QED BY <1>1, <1>2, <1>3, StutterCopies DEF Next

LEMMA InitCopies ==
    ASSUME Init
    PROVE  TypeOK /\ CopiesInv
<1>1. user \in Users /\ user.lag = FALSE
    <2> DEFINE k == MadeUp(0)
    <2>1. k \in Nat /\ 1 \in Nat
        BY DEF MadeUp
    <2>2. user = IF setup.builtIn THEN NewUser(k, 1, 1) ELSE NoUser
        BY DEF Init
    <2> HIDE DEF k
    <2>3. NewUser(k, 1, 1) \in Users /\ NewUser(k, 1, 1).lag = FALSE
        BY <2>1, NewUserFields
    <2> QED BY <2>2, <2>3, NoUserFields
<1>2. /\ crs \in [Objects -> Records] /\ cache \in [Objects -> Records]
      /\ work \in [Objects -> Works] /\ secrets \in [Objects -> Nat]
      /\ \A o \in Objects : work[o].pc = "idle"
    <2>1. Absent \in Nat
        BY DEF Absent
    <2> QED BY <2>1, NoObjectFields, IdleFields DEF Init
<1>3. TypeOK
    <2>1. /\ setup \in Setups /\ queued = {} /\ toTrigger = {} /\ source \in Sources
          /\ seen = source /\ made = 1 /\ edits = 0 /\ faults = 0 /\ watch = FALSE
          /\ meddled = FALSE /\ unheard = FALSE /\ unseen = FALSE /\ lost = {}
        BY SetupsAssumption DEF Init
    <2>2. \A o \in Objects : At(o, "reset") => work[o].pw \in Nat
        BY <1>2 DEF At
    <2>3. queued \subseteq Objects /\ toTrigger \subseteq Objects /\ lost \subseteq {}
        BY <2>1
    <2>4. {source, seen} \subseteq Sources \cup {Absent} /\ {made, edits, faults} \subseteq Nat
        BY <2>1
    <2>5. {watch, meddled, unheard, unseen} \subseteq BOOLEAN
        BY <2>1
    <2> QED BY <1>1, <1>2, <2>1, <2>2, <2>3, <2>4, <2>5 DEF TypeOK
<1>4. ASSUME NEW o \in Objects PROVE Cached(o) /\ Copied(o) /\ Outside(o)
    <2>1. crs[o] = NoObject /\ cache[o] = NoObject /\ edits = 0
        BY DEF Init
    <2>2. Cached(o)
        BY <2>1, NoObjectFields DEF Cached, Earlier, IsCurrent
    <2> QED BY <1>2, <2>1, <2>2, NoObjectFields DEF Copied, Outside, At
<1> QED BY <1>3, <1>4 DEF CopiesInv

\* The state keeps its types: among them that a worker that resets a password
\* has one, that no password is shown while Aiven lags, and that a generation
\* is processed that exists.
THEOREM TypeCorrect == Spec => []TypeOK
<1>1. Init => TypeOK /\ CopiesInv
    BY InitCopies
<1>2. TypeOK /\ CopiesInv /\ [Next]_vars => (TypeOK /\ CopiesInv)'
    BY CopiesStep
<1> QED BY <1>1, <1>2, PTL DEF Spec

----------------------------------------------------------------------------
(* Who deletes the user                                                    *)

\* There is a user that somebody has to delete.
Wanted == /\ user.there /\ ~setup.builtIn /\ ~unseen
          /\ KindIs("ClickhouseUser") => ~unheard

LEMMA KeepsOn ==
    ASSUME NEW q \in Objects, Keeps(q), work'[q] = work[q], setup' = setup,
           Exists(crs'[q]), crs'[q].uid = crs[q].uid, crs[q].known => crs'[q].known
    PROVE  Keeps(q)'
BY DEF Keeps, At, Me, KindIs

LEMMA KeptAs ==
    ASSUME KeptInv, Later, user'.there => user.there,
           Wanted' => \A q \in Objects : Keeps(q) => Keeps(q)'
    PROVE  KeptInv'
<1>1. Wanted' => Wanted
    BY DEF Wanted, Later, KindIs
<1>2. Wanted => \E q \in Objects : Keeps(q)
    BY DEF KeptInv, Wanted
<1>3. Wanted' => \E q \in Objects : Keeps(q)'
    BY <1>1, <1>2
<1> QED BY <1>3 DEF KeptInv, Wanted

\* A pass goes on, or ends with what it knows saved already; or a worker stops
\* that is not in a pass.
LEMMA KeepsWorker ==
    ASSUME TypeOK, NEW o \in Objects, Copied(o), ~At(o, "idle"), Keeps(o),
           UNCHANGED <<setup, crs>>, NEW P, P \subseteq Pass,
           \/ Ends(o)
           \/ Stops(o) /\ work[o].pc \notin Pass
           \/ Goes(o, P) /\ work[o].pc \in Pass
    PROVE  Keeps(o)'
<1>1. Exists(crs[o]) /\ (KindIs("ClickhouseUser") => crs[o].known \/ (work[o].pc \in Pass /\ Me(o).known))
    BY DEF Keeps
<1>2. CASE Ends(o) \/ (Stops(o) /\ work[o].pc \notin Pass)
    <2>1. work'[o].pc = "idle"
        BY <1>2, IdleFields DEF Ends, Stops
    <2>2. KindIs("ClickhouseUser") => crs[o].known
        <3>1. SUFFICES ASSUME work[o].pc \in Pass, Me(o).known PROVE crs[o].known
            BY <1>1
        <3>2. work[o].orig.known
            BY <1>2, <3>1 DEF Ends
        <3> QED BY <3>1, <3>2 DEF Copied, Earlier
    <2> QED BY <1>1, <2>1, <2>2 DEF Keeps, At, KindIs
<1>3. CASE Goes(o, P) /\ work[o].pc \in Pass
    <2>1. work'[o].pc \in Pass /\ (Me(o).known => work'[o].obj.known)
        BY <1>3 DEF Goes, Alike
    <2>2. work'[o].pc # "unfinalize"
        BY <2>1 DEF Pass
    <2> QED BY <1>1, <2>1, <2>2 DEF Keeps, At, KindIs, Me
<1> QED BY <1>2, <1>3

\* A worker that changes no object; the user is not new.
LEMMA KeptWorker ==
    ASSUME TypeOK, CopiesInv, KeptInv, Later, NEW o \in Objects, ~At(o, "idle"),
           user'.there => user.there, UNCHANGED crs, NEW P, P \subseteq Pass,
           \/ Ends(o)
           \/ Stops(o) /\ work[o].pc \notin Pass
           \/ Goes(o, P) /\ work[o].pc \in Pass
    PROVE  KeptInv'
<1>1. Copied(o)
    BY DEF CopiesInv
<1>2. ASSUME NEW q \in Objects, Keeps(q) PROVE Keeps(q)'
    <2>1. CASE q = o
        BY <1>1, <1>2, <2>1, KeepsWorker DEF Later
    <2>2. CASE q # o
        <3>1. work'[q] = work[q]
            BY <2>2 DEF Ends, Stops, Goes, Moves
        <3>2. Exists(crs[q])
            BY <1>2 DEF Keeps
        <3> QED BY <1>2, <3>1, <3>2, KeepsOn DEF Later
    <2> QED BY <2>1, <2>2
<1> QED BY <1>2, KeptAs

LEMMA BeginKept ==
    ASSUME TypeOK, CopiesInv, KeptInv, NEW o \in Objects, Begin(o)
    PROVE  KeptInv'
<1>1. /\ At(o, "idle") /\ (Takes(o) \/ UNCHANGED work) /\ StaysPut
      /\ UNCHANGED <<aiven, unheard>> /\ TypeOK'
    BY BeginMoves
<1>2. Later
    BY <1>1, LaterPut DEF StaysPut
<1>3. ASSUME NEW q \in Objects, Keeps(q) PROVE Keeps(q)'
    <2>1. Exists(crs[q])
        BY <1>3 DEF Keeps
    <2>2. CASE work'[q] = work[q]
        BY <1>1, <1>3, <2>1, <2>2, KeepsOn DEF StaysPut
    <2>3. CASE work'[q] # work[q]
        <3>1. q = o /\ Takes(o)
            BY <1>1, <2>3 DEF Takes, Moves
        <3>2. work'[o].pc # "unfinalize" /\ work[o].pc \notin Pass
            BY <1>1, <3>1 DEF Takes, At, Pass
        <3> QED BY <1>1, <1>3, <3>1, <3>2 DEF Keeps, At, Me, KindIs, StaysPut
    <2> QED BY <2>2, <2>3
<1> QED BY <1>1, <1>2, <1>3, KeptAs DEF aiven

LEMMA HoldKept ==
    ASSUME TypeOK, CopiesInv, KeptInv, NEW o \in Objects, Hold(o)
    PROVE  KeptInv'
<1>1. /\ TypeOK' /\ At(o, "hold") /\ UNCHANGED <<setup, cache, edits, unheard, unseen, user>>
      /\ (Stops(o) /\ UNCHANGED crs) \/ Holds(o)
      /\ Cached(o) /\ Copied(o) /\ Outside(o)
    BY HoldMoves DEF CopiesInv, history, aiven
<1>2. Later /\ ~At(o, "idle") /\ work[o].pc \notin Pass
    BY <1>1, LaterPut DEF At, Pass
<1>3. CASE Stops(o) /\ UNCHANGED crs
    BY <1>1, <1>2, <1>3, KeptWorker
<1>4. CASE Holds(o)
    <2> DEFINE d == crs'[o]
    <2>1. /\ Writes(o, d) /\ crs[o] = cache[o] /\ Exists(crs[o]) /\ work'[o].pc = "observe"
          /\ d = crs[o] \/ (Newer(d, crs[o]) /\ d.known = crs[o].known)
        BY <1>1, <1>4 DEF Holds, Cached, IsCurrent
    <2>2. d \in Records
        BY <1>1, WorkTypes DEF TypeOK
    <2> HIDE DEF d
    <2>3. /\ crs'[o] = d /\ d.uid = crs[o].uid /\ Exists(d) /\ d.known = crs[o].known
          /\ \A p \in Objects : p # o => crs'[p] = crs[p]
        BY <2>1, <2>2, WritesOne DEF Newer, Exists
    <2>4. ASSUME NEW q \in Objects, Keeps(q) PROVE Keeps(q)'
        <3>1. CASE q # o
            BY <1>1, <1>4, <2>3, <2>4, <3>1, KeepsOn DEF Holds, Moves, Keeps
        <3>2. CASE q = o
            BY <1>1, <1>2, <2>1, <2>3, <2>4, <3>2 DEF Keeps, At, KindIs
        <3> QED BY <3>1, <3>2
    <2> QED BY <1>1, <1>2, <2>4, KeptAs
<1> QED BY <1>1, <1>3, <1>4

LEMMA PassActions ==
    /\ {"observe", "create", "update", "reset", "fetch", "publish", "persist", "annotate"} = Pass
    /\ Pass \cap {"idle", "hold", "delete", "unfinalize"} = {}
BY DEF Pass

LEMMA LeavesGoesOn ==
    ASSUME NEW o
    PROVE  /\ Leaves(o) => Ends(o) \/ Goes(o, {"persist"})
           /\ Closes(o) => Ends(o) \/ Goes(o, {"persist"})
           /\ \A P \in SUBSET Pass : Goes(o, P) => Goes(o, Pass)
BY DEF Leaves, Closes, Goes

LEMMA ObserveKept ==
    ASSUME TypeOK, CopiesInv, KeptInv, NEW o \in Objects, Observe(o)
    PROVE  KeptInv'
<1>1. At(o, "observe") /\ Me(o) = work[o].orig
    BY FreshCopy DEF Observe, At
<1>2. /\ TypeOK' /\ StaysPut /\ UNCHANGED <<aiven, unheard>>
      /\ Ends(o) \/ Goes(o, {"persist"}) \/ Goes(o, {"create", "update"}) \/ Goes(o, {"publish"})
    BY <1>1, ObserveMoves, LeavesGoesOn
<1>3. Ends(o) \/ Goes(o, Pass)
    BY <1>2, PassActions DEF Goes
<1>4. Later /\ ~At(o, "idle") /\ work[o].pc \in Pass
    BY <1>1, <1>2, LaterPut DEF At, Pass, StaysPut
<1> QED BY <1>2, <1>3, <1>4, KeptWorker DEF aiven, StaysPut

LEMMA CreateKept ==
    ASSUME TypeOK, CopiesInv, KeptInv, NEW o \in Objects, Create(o)
    PROVE  KeptInv'
<1>1. /\ TypeOK' /\ At(o, "create") /\ StaysPut /\ (unheard => unheard')
    BY CreateMoves DEF Unheard
<1>2. /\ Later /\ ~At(o, "idle") /\ work[o].pc \in Pass /\ Copied(o)
    BY <1>1, LaterPut DEF At, Pass, StaysPut, CopiesInv
<1>3. /\ \/ Ends(o) /\ UNCHANGED user
         \/ Goes(o, Pass) /\ UNCHANGED user
         \/ /\ Ends(o) \/ Goes(o, Pass)
            /\ (KindIs("ClickhouseUser") => unheard' \/ (Goes(o, Pass) /\ work'[o].obj.known))
    BY CreateMoves, LeavesGoesOn, PassActions DEF Unheard, Goes
<1>4. CASE UNCHANGED user /\ (Ends(o) \/ Goes(o, Pass))
    BY <1>1, <1>2, <1>4, KeptWorker DEF StaysPut
<1>5. CASE /\ Ends(o) \/ Goes(o, Pass)
           /\ (KindIs("ClickhouseUser") => unheard' \/ (Goes(o, Pass) /\ work'[o].obj.known))
    <2>1. SUFFICES ASSUME KindIs("ClickhouseUser") => ~unheard' PROVE Keeps(o)'
        BY <1>1 DEF KeptInv, StaysPut, KindIs
    <2>2. Exists(crs[o]) /\ crs'[o] = crs[o]
        BY <1>1, <1>2 DEF Copied, StaysPut, Exists
    <2>3. work'[o].pc # "unfinalize"
        BY <1>5, IdleFields, PassActions DEF Ends, Stops, Goes
    <2>4. KindIs("ClickhouseUser") => work'[o].pc \in Pass /\ work'[o].obj.known
        BY <1>5, <2>1 DEF Goes
    <2> QED BY <1>1, <2>2, <2>3, <2>4 DEF Keeps, At, Me, KindIs, StaysPut
<1> QED BY <1>3, <1>4, <1>5

LEMMA UpdateKept ==
    ASSUME TypeOK, CopiesInv, KeptInv, NEW o \in Objects, Update(o)
    PROVE  KeptInv'
<1>1. /\ TypeOK' /\ At(o, "update") /\ StaysPut /\ (unheard => unheard')
      /\ user'.there = user.there
      /\ Ends(o) \/ Goes(o, Pass)
    BY UpdateMoves, LeavesGoesOn, PassActions DEF Goes
<1>2. Later /\ ~At(o, "idle") /\ work[o].pc \in Pass
    BY <1>1, LaterPut DEF At, Pass, StaysPut
<1> QED BY <1>1, <1>2, KeptWorker DEF StaysPut

LEMMA ResetKept ==
    ASSUME TypeOK, CopiesInv, KeptInv, NEW o \in Objects, Reset(o)
    PROVE  KeptInv'
<1>1. /\ TypeOK' /\ At(o, "reset") /\ StaysPut
    BY ResetMoves
<1>2. /\ unheard => unheard'
      /\ user'.there => user.there
      /\ Ends(o) \/ Goes(o, Pass)
    BY ResetMoves, LeavesGoesOn, PassActions DEF Goes, Unheard
<1>3. Later /\ ~At(o, "idle") /\ work[o].pc \in Pass
    BY <1>1, <1>2, LaterPut DEF At, Pass, StaysPut
<1> QED BY <1>1, <1>2, <1>3, KeptWorker DEF StaysPut

LEMMA FetchKept ==
    ASSUME TypeOK, CopiesInv, KeptInv, NEW o \in Objects, Fetch(o)
    PROVE  KeptInv'
<1>1. /\ TypeOK' /\ At(o, "fetch") /\ StaysPut /\ UNCHANGED <<aiven, unheard>>
      /\ Ends(o) \/ Goes(o, Pass)
    BY FetchMoves, LeavesGoesOn, PassActions DEF Goes
<1>2. Later /\ ~At(o, "idle") /\ work[o].pc \in Pass
    BY <1>1, LaterPut DEF At, Pass, StaysPut
<1> QED BY <1>1, <1>2, KeptWorker DEF StaysPut, aiven

LEMMA PublishKept ==
    ASSUME TypeOK, CopiesInv, KeptInv, NEW o \in Objects, Publish(o)
    PROVE  KeptInv'
<1>1. /\ TypeOK' /\ At(o, "publish") /\ UNCHANGED <<setup, crs, aiven, edits, unseen>>
      /\ unheard => unheard'
      /\ Ends(o) \/ Goes(o, Pass)
    BY PublishMoves, LeavesGoesOn, PassActions DEF Goes, Unheard
<1>2. Later /\ ~At(o, "idle") /\ work[o].pc \in Pass
    BY <1>1, LaterPut DEF At, Pass
<1> QED BY <1>1, <1>2, KeptWorker DEF aiven

LEMMA SavesKept ==
    ASSUME TypeOK, CopiesInv, KeptInv, Later, NEW o \in Objects, work[o].pc \in Pass, UNCHANGED user,
           Saves(o), Stops(o) \/ Halves(o)
    PROVE  KeptInv'
<1> DEFINE d == crs'[o]
<1>1. ~At(o, "idle") /\ Copied(o)
    BY DEF At, CopiesInv, Pass
<1>2. /\ d.uid = crs[o].uid /\ Exists(crs[o]) /\ d \in Records /\ Writes(o, d)
      /\ d.known = Me(o).known /\ (crs[o].known => Me(o).known)
    BY <1>1, CurrentFacts DEF Saves, Newer
<1> HIDE DEF d
<1>3. crs'[o] = d /\ Exists(d) /\ \A p \in Objects : p # o => crs'[p] = crs[p]
    BY <1>2, WritesOne DEF Exists, d
<1>4. work'[o].pc \in {"idle", "annotate"}
    BY IdleFields DEF Stops, Halves
<1>5. \A p \in Objects : p # o => work'[p] = work[p]
    BY DEF Stops, Halves, Moves
<1>6. ASSUME NEW q \in Objects, Keeps(q) PROVE Keeps(q)'
    <2>1. CASE q # o
        BY <1>3, <1>5, <1>6, <2>1, KeepsOn DEF Keeps, Later
    <2>2. CASE q = o
        <3>1. KindIs("ClickhouseUser") => d.known
            BY <1>2, <1>6, <2>2 DEF Keeps
        <3> QED BY <1>3, <1>4, <2>2, <3>1 DEF Keeps, At, KindIs, Later
    <2> QED BY <2>1, <2>2
<1> QED BY <1>6, KeptAs

LEMMA PersistKept ==
    ASSUME TypeOK, CopiesInv, KeptInv, NEW o \in Objects, Persist(o)
    PROVE  KeptInv'
<1>1. /\ TypeOK' /\ At(o, "persist") /\ Later /\ UNCHANGED user
      /\ \/ Saves(o) /\ (Stops(o) \/ Halves(o))
         \/ /\ UNCHANGED crs /\ Stops(o)
            /\ Unheard \/ unheard' = (unheard \/ (KindIs("ClickhouseUser") /\ ~crs[o].known))
    BY PersistFacts DEF aiven
<1>2. ~At(o, "idle") /\ Copied(o) /\ work[o].pc \in Pass
    BY <1>1 DEF At, CopiesInv, Pass
<1>3. CASE Saves(o) /\ (Stops(o) \/ Halves(o))
    BY <1>1, <1>2, <1>3, SavesKept
<1>4. CASE UNCHANGED crs /\ Stops(o) /\ (Unheard \/ unheard' = (unheard \/ (KindIs("ClickhouseUser") /\ ~crs[o].known)))
    <2>1. ASSUME NEW q \in Objects, Keeps(q), Wanted' PROVE Keeps(q)'
        <3>1. CASE q # o
            BY <1>1, <1>4, <2>1, <3>1, KeepsOn DEF Stops, Moves, Keeps, Later
        <3>2. CASE q = o
            <4>1. work'[o].pc = "idle"
                BY <1>4, IdleFields DEF Stops
            <4>2. KindIs("ClickhouseUser") => crs[o].known
                <5>1. SUFFICES ASSUME KindIs("ClickhouseUser") PROVE crs[o].known
                    OBVIOUS
                <5>2. ~unheard'
                    BY <1>1, <2>1, <5>1 DEF Wanted, KindIs, Later
                <5> QED BY <1>4, <5>1, <5>2 DEF Unheard
            <4> QED BY <1>1, <1>4, <2>1, <3>2, <4>1, <4>2 DEF Keeps, At, KindIs, Later
        <3> QED BY <3>1, <3>2
    <2> QED BY <1>1, <2>1, KeptAs
<1> QED BY <1>1, <1>3, <1>4

\* The duplicate that findDuplicate shows is one that will delete the user.
LEMMA AnnotateKept ==
    ASSUME TypeOK, CopiesInv, KeptInv, NEW o \in Objects, Annotate(o)
    PROVE  KeptInv'
<1>1. /\ TypeOK' /\ At(o, "annotate") /\ Later /\ UNCHANGED <<user, unheard>> /\ Stops(o)
      /\ Saves(o) \/ UNCHANGED crs
    BY AnnotateFacts DEF aiven, history
<1>2. ~At(o, "idle") /\ Copied(o) /\ work[o].pc \in Pass
    BY <1>1 DEF At, CopiesInv, Pass
<1>3. CASE Saves(o)
    BY <1>1, <1>2, <1>3, SavesKept
<1>4. CASE UNCHANGED crs
    <2>1. ASSUME NEW q \in Objects, Keeps(q) PROVE Keeps(q)'
        <3>1. CASE q # o
            BY <1>1, <1>4, <2>1, <3>1, KeepsOn DEF Stops, Moves, Keeps, Later
        <3>2. CASE q = o
            <4>1. work'[o].pc = "idle"
                BY <1>1, IdleFields DEF Stops
            <4>2. KindIs("ClickhouseUser") => crs[o].known
                <5>1. At(o, "annotate") => Me(o).known = work[o].orig.known
                    BY <1>2 DEF Copied, Me
                <5>2. work[o].orig.uid = crs[o].uid /\ Earlier(work[o].orig, crs[o]) /\ Exists(work[o].orig)
                    BY <1>2 DEF Copied
                <5> QED BY <1>1, <2>1, <3>2, <5>1, <5>2 DEF Keeps, Earlier
            <4> QED BY <1>1, <1>4, <2>1, <3>2, <4>1, <4>2 DEF Keeps, At, KindIs, Later
        <3> QED BY <3>1, <3>2
    <2> QED BY <1>1, <2>1, KeptAs
<1> QED BY <1>1, <1>3, <1>4

LEMMA DuplicateKeeps ==
    ASSUME TypeOK, CopiesInv, NEW p \in Objects, Exists(cache[p]), ~cache[p].deleting,
           ~unseen, ~KindIs("ClickhouseUser")
    PROVE  Keeps(p)
<1>1. Cached(p) /\ Copied(p)
    BY DEF CopiesInv
<1>2. cache[p].uid = crs[p].uid /\ Exists(crs[p])
    BY <1>1 DEF Cached, Exists
<1>3. ASSUME At(p, "unfinalize"), work[p].orig.uid = crs[p].uid PROVE FALSE
    <2>1. /\ ~At(p, "idle") /\ work[p].pc \in Removal
        BY <1>3 DEF At, Removal
    <2>2. /\ work[p].orig.deleting /\ Exists(work[p].orig) /\ Earlier(work[p].orig, crs[p])
          /\ work[p].orig.gen <= cache[p].gen
        BY <1>1, <1>3, <2>1 DEF Copied
    <2>3. work[p].orig.gen = crs[p].gen /\ crs[p].deleting
        BY <1>3, <2>2 DEF Earlier
    <2>4. /\ cache[p].gen <= crs[p].gen
          /\ cache[p].gen = crs[p].gen => cache[p].deleting = crs[p].deleting
        BY <1>1, <1>2 DEF Cached, Earlier
    <2>5. cache[p].gen \in Nat /\ crs[p].gen \in Nat
        BY WorkTypes, RecordTypes
    <2>6. cache[p].gen = crs[p].gen
        BY <2>2, <2>3, <2>4, <2>5
    <2> QED BY <2>3, <2>4, <2>6
<1> QED BY <1>2, <1>3 DEF Keeps

LEMMA DeleteKept ==
    ASSUME TypeOK, CopiesInv, KeptInv, NEW o \in Objects, Delete(o)
    PROVE  KeptInv'
<1>1. At(o, "delete") /\ Me(o) = work[o].orig
    BY FreshCopy DEF Delete, At, Removal
<1>2. /\ TypeOK' /\ StaysPut /\ UNCHANGED unheard
      /\ user' = NoUser \/ UNCHANGED user
      /\ \/ Stops(o)
         \/ /\ Goes(o, {"unfinalize"})
            /\ \/ user' = NoUser
               \/ setup.builtIn
               \/ KindIs("ServiceUser") /\ FindDuplicate(o)
               \/ KindIs("ClickhouseUser") /\ ~Me(o).known
    BY <1>1, DeleteMoves
<1>3. /\ Later /\ ~At(o, "idle") /\ work[o].pc \notin Pass /\ work[o].pc \in Removal
      /\ user'.there => user.there
    BY <1>1, <1>2, LaterPut, NoUserFields DEF At, Pass, Removal, StaysPut
<1>4. CASE Stops(o)
    BY <1>2, <1>3, <1>4, KeptWorker DEF StaysPut
<1>5. CASE user' = NoUser \/ setup.builtIn
    BY <1>2, <1>5, NoUserFields DEF KeptInv, StaysPut
<1>6. CASE Goes(o, {"unfinalize"}) /\ KindIs("ServiceUser") /\ FindDuplicate(o)
    <2>1. PICK p \in Objects \ {o} : Exists(cache[p]) /\ ~cache[p].deleting
        BY <1>6 DEF FindDuplicate
    <2>2. SUFFICES ASSUME ~unseen' PROVE Keeps(p)'
        BY DEF KeptInv
    <2>3. ~unseen /\ ~KindIs("ClickhouseUser")
        BY <1>3, <1>6, <2>2 DEF Later, KindIs
    <2>4. Keeps(p)
        BY <2>1, <2>3, DuplicateKeeps
    <2>5. work'[p] = work[p] /\ crs'[p] = crs[p] /\ setup' = setup /\ Exists(crs[p])
        BY <1>2, <1>6, <2>1, <2>4 DEF Goes, Moves, StaysPut, Keeps
    <2> QED BY <2>4, <2>5, KeepsOn
<1>7. CASE Goes(o, {"unfinalize"}) /\ KindIs("ClickhouseUser") /\ ~Me(o).known
    <2>1. ASSUME NEW q \in Objects, Keeps(q), Wanted' PROVE Keeps(q)'
        <3>1. CASE q # o
            BY <1>2, <1>7, <2>1, <3>1, KeepsOn DEF Goes, Moves, StaysPut, Keeps
        <3>2. CASE q = o
            <4>1. crs[o].known /\ Exists(crs[o]) /\ Copied(o)
                BY <1>3, <1>7, <2>1, <3>2 DEF Keeps, CopiesInv
            <4>2. ~unheard
                BY <1>2, <1>7, <2>1 DEF Wanted, KindIs, StaysPut
            <4>3. work[o].orig.uid # crs[o].uid
                BY <1>1, <1>3, <1>7, <4>1, <4>2 DEF Copied
            <4> QED BY <1>2, <1>7, <3>2, <4>1, <4>3 DEF Keeps, At, KindIs, Goes, StaysPut
        <3> QED BY <3>1, <3>2
    <2> QED BY <1>3, <2>1, KeptAs
<1> QED BY <1>2, <1>4, <1>5, <1>6, <1>7

LEMMA RemoveKept ==
    ASSUME TypeOK, CopiesInv, KeptInv, NEW o \in Objects, RemoveFinalizer(o)
    PROVE  KeptInv'
<1>1. /\ TypeOK' /\ At(o, "unfinalize") /\ Stops(o) /\ Later /\ UNCHANGED user
      /\ UNCHANGED crs \/ (crs[o].deleting /\ Writes(o, NoObject))
    BY RemoveFacts DEF aiven
<1>2. ~At(o, "idle") /\ work[o].pc \notin Pass /\ Copied(o)
    BY <1>1 DEF At, Pass, CopiesInv
<1>3. CASE UNCHANGED crs
    BY <1>1, <1>2, <1>3, KeptWorker
<1>4. CASE crs[o].deleting /\ Writes(o, NoObject)
    <2>1. ASSUME NEW q \in Objects, Keeps(q) PROVE Keeps(q)'
        <3>1. q # o
            <4>1. ~Keeps(o)
                BY <1>1, <1>2, <1>4 DEF Keeps, Copied, Untouched
            <4> QED BY <2>1, <4>1
        <3>2. crs'[q] = crs[q] /\ work'[q] = work[q]
            BY <1>1, <1>4, <3>1, WritesOne, NoObjectFields DEF Stops, Moves
        <3> QED BY <1>1, <2>1, <3>2, KeepsOn DEF Keeps, Later
    <2> QED BY <1>1, <2>1, KeptAs
<1> QED BY <1>1, <1>3, <1>4

\* A trigger, or a user, touches an object.
LEMMA OuterKept ==
    ASSUME TypeOK, KeptInv, Later, NEW o \in Objects, UNCHANGED <<work, user>>,
           NEW d, Writes(o, d), Newer(d, crs[o])
    PROVE  KeptInv'
<1>1. d \in Records /\ Exists(d) /\ d.uid = crs[o].uid /\ (crs[o].known => d.known)
    BY DEF Newer, Exists
<1>2. crs'[o] = d /\ \A p \in Objects : p # o => crs'[p] = crs[p]
    BY <1>1, WritesOne
<1>3. ASSUME NEW q \in Objects, Keeps(q) PROVE Keeps(q)'
    BY <1>1, <1>2, <1>3, KeepsOn DEF Keeps, Later
<1> QED BY <1>3, KeptAs

\* No object changes, and no worker moves.
LEMMA KeptStays ==
    ASSUME KeptInv, Later, UNCHANGED <<crs, work>>, user'.there => user.there
    PROVE  KeptInv'
<1>1. ASSUME NEW q \in Objects, Keeps(q) PROVE Keeps(q)'
    BY <1>1, KeepsOn DEF Keeps, Later
<1> QED BY <1>1, KeptAs

LEMMA TriggerKept ==
    ASSUME TypeOK, CopiesInv, KeptInv, NEW o \in Objects, Trigger(o)
    PROVE  KeptInv'
<1> DEFINE d == crs'[o]
<1>1. /\ TypeOK' /\ UNCHANGED <<setup, work, edits, unheard, unseen, user>>
      /\ (Writes(o, d) /\ Newer(d, crs[o])) \/ UNCHANGED crs
    BY TriggerMoves DEF Patches, aiven
<1>2. Later
    BY <1>1, LaterPut
<1> HIDE DEF d
<1> QED BY <1>1, <1>2, OuterKept, KeptStays

LEMMA CrashKept ==
    ASSUME TypeOK, CopiesInv, KeptInv, Crash
    PROVE  KeptInv'
<1>1. /\ TypeOK' /\ UNCHANGED <<setup, crs, aiven, edits, unseen>>
      /\ work' = [o \in Objects |-> Idle] /\ Unheard
    BY CrashMoves
<1>2. Later
    BY <1>1, LaterPut DEF Unheard
<1>3. ASSUME NEW q \in Objects, Keeps(q), Wanted' PROVE Keeps(q)'
    <2>1. ~KindIs("ClickhouseUser")
        BY <1>1, <1>3 DEF Wanted, KindIs, Unheard
    <2>2. work'[q].pc = "idle"
        BY <1>1, IdleFields
    <2> QED BY <1>1, <1>3, <2>1, <2>2 DEF Keeps, At, KindIs
<1> QED BY <1>1, <1>2, <1>3, KeptAs DEF aiven

LEMMA WatchKept ==
    ASSUME TypeOK, CopiesInv, KeptInv,
           SyncCache \/ SyncSource \/ FindDependents \/ AivenProgress
    PROVE  KeptInv'
<1>1. /\ TypeOK' /\ UNCHANGED <<setup, crs, work, edits, unheard, unseen>>
      /\ user'.there = user.there
    BY SyncCacheMoves, SyncSourceMoves, FindDependentsMoves, AivenProgressMoves
       DEF bounds, history, objects, aiven
<1>2. Later
    BY <1>1, LaterPut
<1> QED BY <1>1, <1>2, KeptStays

LEMMA UserCreatesKept ==
    ASSUME TypeOK, CopiesInv, KeptInv, NEW o \in Objects, UserCreates(o)
    PROVE  KeptInv'
<1>1. /\ EditStays /\ edits' = edits + 1 /\ UNCHANGED <<user, unseen>> /\ ~Exists(crs[o])
    BY UserCreatesMoves DEF aiven
<1>2. PICK s \in Specs : Writes(o, Fresh(edits', s))
    BY UserCreatesMoves
<1>3. Later
    BY <1>1, LaterEdit
<1> DEFINE d == Fresh(edits', s)
<1>4. d \in Records
    BY <1>3, FreshFields DEF Later
<1>5. \A p \in Objects : p # o => crs'[p] = crs[p]
    <2> HIDE DEF d
    <2> QED BY <1>2, <1>4, WritesOne DEF d
<1>6. ASSUME NEW q \in Objects, Keeps(q) PROVE Keeps(q)'
    BY <1>1, <1>5, <1>6, KeepsOn DEF Keeps, EditStays
<1> QED BY <1>1, <1>3, <1>6, KeptAs

LEMMA UserDeletesKept ==
    ASSUME TypeOK, CopiesInv, KeptInv, NEW o \in Objects, UserDeletes(o)
    PROVE  KeptInv'
<1> DEFINE d == crs'[o]
<1>1. /\ EditStays /\ edits' = edits + 1 /\ UNCHANGED user /\ (unseen => unseen')
      /\ unseen' \/ (Writes(o, d) /\ Newer(d, crs[o]))
    BY UserDeletesMoves DEF aiven
<1>2. Later
    BY <1>1, LaterEdit
<1> HIDE DEF d
<1>3. CASE unseen'
    BY <1>3 DEF KeptInv
<1>4. CASE Writes(o, d) /\ Newer(d, crs[o])
    BY <1>1, <1>2, <1>4, OuterKept DEF EditStays
<1> QED BY <1>1, <1>3, <1>4

LEMMA UserEditsKept ==
    ASSUME TypeOK, CopiesInv, KeptInv, NEW o \in Objects, UserEditsSpec(o)
    PROVE  KeptInv'
<1> DEFINE d == crs'[o]
<1>1. /\ EditStays /\ edits' = edits + 1 /\ UNCHANGED <<user, unseen>>
      /\ Writes(o, d) /\ Newer(d, crs[o])
    BY UserEditsMoves DEF aiven
<1>2. Later
    BY <1>1, LaterEdit
<1> HIDE DEF d
<1> QED BY <1>1, <1>2, OuterKept DEF EditStays

LEMMA OthersKept ==
    ASSUME TypeOK, CopiesInv, KeptInv,
           UserChangesSource \/ OthersChangePassword \/ OthersDeleteUser
    PROVE  KeptInv'
<1>1. EditStays /\ edits' = edits + 1 /\ UNCHANGED <<crs, unseen>> /\ (user'.there => user.there)
    BY UserChangesSourceMoves, OthersChangePasswordMoves, OthersDeleteUserMoves, NoUserFields
       DEF aiven
<1>2. Later
    BY <1>1, LaterEdit
<1> QED BY <1>1, <1>2, KeptStays DEF EditStays

LEMMA StutterKept ==
    ASSUME TypeOK, KeptInv, UNCHANGED vars
    PROVE  KeptInv'
<1>1. UNCHANGED <<setup, crs, work, user, edits, unheard, unseen>>
    BY DEF vars, objects, aiven, bounds, history
<1>2. Later
    BY <1>1, LaterPut
<1> QED BY <1>1, <1>2, KeptStays

LEMMA KeptStep ==
    ASSUME TypeOK, CopiesInv, KeptInv, [Next]_vars
    PROVE  KeptInv'
<1>1. ASSUME NEW o \in Objects, Reconcile(o)
      PROVE  KeptInv'
    BY <1>1, BeginKept, HoldKept, ObserveKept, CreateKept, UpdateKept, ResetKept,
       FetchKept, PublishKept, PersistKept, AnnotateKept, DeleteKept, RemoveKept DEF Reconcile
<1>2. ASSUME Others
      PROVE  KeptInv'
    BY <1>2, UserCreatesKept, UserEditsKept, UserDeletesKept, OthersKept DEF Others
<1>3. ASSUME WatchSecret \/ Crash \/ SyncCache \/ SyncSource \/ AivenProgress
      PROVE  KeptInv'
    BY <1>3, TriggerKept, CrashKept, WatchKept DEF WatchSecret
<1> QED BY <1>1, <1>2, <1>3, StutterKept DEF Next

LEMMA InitKept ==
    ASSUME Init
    PROVE  KeptInv
<1>1. user.there => setup.builtIn
    BY NoUserFields DEF Init
<1> QED BY <1>1 DEF KeptInv

\* However many objects share a user at Aiven, and whatever the cache showed
\* each of them of the others: when the last is gone, so is the user, unless it
\* is a built-in one, an object was deleted before a pass had put the finalizer
\* on it, or a ClickHouse user's UUID was not saved.
THEOREM LastOneDeletesCorrect == Spec => []LastOneDeletes
<1>1. Init => TypeOK /\ CopiesInv /\ KeptInv
    BY InitCopies, InitKept
<1>2. TypeOK /\ CopiesInv /\ KeptInv /\ [Next]_vars => (TypeOK /\ CopiesInv /\ KeptInv)'
    BY CopiesStep, KeptStep
<1>3. KeptInv => LastOneDeletes
    BY DEF KeptInv, LastOneDeletes, Keeps
<1> QED BY <1>1, <1>2, <1>3, PTL DEF Spec

----------------------------------------------------------------------------
(* What a pass claims of the password                                      *)

\* The watch and its history say no less.
Quietly == UNCHANGED <<setup, watcher>> /\ lost \subseteq lost' /\ (meddled => meddled')

LEMMA DueBefore ==
    ASSUME Quietly, NEW o \in Objects, Due(o)'
    PROVE  Due(o) /\ seen' = seen /\ seen # NoPassword
BY DEF Quietly, Due, Alone, watcher, Absent, NoPassword

\* The user that o's steps leave has the password of the source, if o counts as
\* up to date.
ReadyHas(o) ==
    Due(o)' /\ IsReadyToUse(crs[o]) /\ crs[o].spec.sourced
        => (user'.there => user'.pw = seen)

UserKept == user'.there => user.there /\ user'.pw = user.pw

LEMMA ReadyUser ==
    ASSUME Quietly, NEW o \in Objects, ReadyClaim(o), ~At(o, "reset"), UserKept
    PROVE  ReadyHas(o)
BY DueBefore DEF ReadyClaim, ReadyHas, UserKept

\* A pass began with the spec of an object that counts as up to date.
LEMMA ReadySpec ==
    ASSUME CopiesInv, NEW o \in Objects, ~At(o, "idle"), IsReadyToUse(crs[o])
    PROVE  Me(o).spec = crs[o].spec
<1>1. Copied(o)
    BY DEF CopiesInv
<1> QED BY <1>1 DEF Copied, Earlier, SameObject, Me, IsReadyToUse

LEMMA NextCurrent ==
    ASSUME NEW o \in Objects, NEW P, Goes(o, P), crs'[o] = crs[o], IsCurrent(o, Me(o))'
    PROVE  /\ IsCurrent(o, Me(o)) /\ Me(o)'.spec = Me(o).spec
           /\ SameMarks(o) => (IsReadyToUse(Me(o)') <=> IsReadyToUse(Me(o)))
BY DEF Goes, Alike, SameObject, IsCurrent, Me, Exists, SameMarks, IsReadyToUse

LEMMA CurrentReady ==
    ASSUME TypeOK, CopiesInv, NEW o \in Objects, IsCurrent(o, Me(o)),
           work[o].pc \in {"observe", "create", "update", "reset"}
    PROVE  Me(o).spec = crs[o].spec /\ (IsReadyToUse(Me(o)) <=> IsReadyToUse(crs[o]))
<1>1. Copied(o) /\ ~At(o, "idle")
    BY DEF CopiesInv, At
<1>2. work[o].orig = crs[o] /\ SameObject(Me(o), crs[o])
    BY <1>1, CurrentFacts
<1>3. Me(o).running = work[o].orig.running /\ Me(o).processed = work[o].orig.processed
    BY <1>1 DEF Copied, Me
<1> QED BY <1>2, <1>3 DEF SameObject, IsReadyToUse

\* A worker that pushes no password.
LEMMA ClaimsElse ==
    ASSUME Quietly, NEW o \in Objects, crs'[o] = crs[o], ReadyHas(o),
           work'[o].pc \notin {"reset", "fetch", "publish", "persist", "annotate"}
    PROVE  ReadyClaim(o)' /\ PassClaim(o)'
BY DueBefore DEF ReadyClaim, PassClaim, ReadyHas, At

\* A pass that ends before it has pushed the password.
LEMMA ClaimsLeave ==
    ASSUME TypeOK, CopiesInv, Quietly, NEW o \in Objects, crs'[o] = crs[o], ReadyHas(o),
           work[o].pc \in {"observe", "create", "update", "reset"}, Leaves(o)
    PROVE  ReadyClaim(o)' /\ PassClaim(o)'
<1>1. CASE Ends(o)
    <2>1. work'[o].pc = "idle"
        BY <1>1, IdleFields DEF Ends, Stops
    <2> QED BY <2>1, ClaimsElse
<1>2. CASE Goes(o, {"persist"}) /\ SameMarks(o)
    <2>1. work'[o].pc = "persist"
        BY <1>2 DEF Goes
    <2>2. ReadyClaim(o)'
        BY <2>1, DueBefore DEF ReadyClaim, ReadyHas, At
    <2>3. ASSUME Due(o)', IsCurrent(o, Me(o))', Me(o)'.spec.sourced, IsReadyToUse(Me(o)')
          PROVE  user'.there => user'.pw = seen'
        <3>1. IsCurrent(o, Me(o)) /\ Me(o).spec.sourced /\ IsReadyToUse(Me(o))
            BY <1>2, <2>3, NextCurrent
        <3>2. IsReadyToUse(crs[o]) /\ crs[o].spec.sourced
            BY <3>1, CurrentReady
        <3> QED BY <2>3, <3>2, DueBefore DEF ReadyHas
    <2> QED BY <2>1, <2>2, <2>3 DEF PassClaim, At
<1> QED BY <1>1, <1>2 DEF Leaves

\* A pass that has pushed it, if its object is to have it.
LEMMA ClaimsPushed ==
    ASSUME TypeOK, CopiesInv, Quietly, NEW o \in Objects, crs'[o] = crs[o], ReadyHas(o),
           NEW P, Goes(o, P), P \subseteq {"fetch", "publish", "persist"},
           Due(o)' /\ IsCurrent(o, Me(o)) /\ Me(o).spec.sourced
               => (user'.there => user'.pw = seen)
    PROVE  ReadyClaim(o)' /\ PassClaim(o)'
<1>1. work'[o].pc \in {"fetch", "publish", "persist"}
    BY DEF Goes
<1>2. ReadyClaim(o)'
    BY <1>1, DueBefore DEF ReadyClaim, ReadyHas, At
<1>3. PassClaim(o)'
    <2>1. SUFFICES ASSUME Due(o)', IsCurrent(o, Me(o))', Me(o)'.spec.sourced
                   PROVE  user'.there => user'.pw = seen'
        BY <1>1 DEF PassClaim, At
    <2>2. IsCurrent(o, Me(o)) /\ Me(o).spec.sourced
        BY <2>1, NextCurrent
    <2> QED BY <2>1, <2>2, DueBefore
<1> QED BY <1>2, <1>3

\* A pass that is about to.
LEMMA ClaimsReset ==
    ASSUME TypeOK, CopiesInv, Quietly, NEW o \in Objects, crs'[o] = crs[o], ~At(o, "idle"),
           Goes(o, {"reset"}), Me(o).spec.sourced => work'[o].pw = seen,
           ReadyHas(o) \/ work'[o].retry
    PROVE  ReadyClaim(o)' /\ PassClaim(o)'
<1>1. work'[o].pc = "reset"
    BY DEF Goes
<1>2. ReadyClaim(o)'
    <2>1. SUFFICES ASSUME Due(o)', IsReadyToUse(crs[o]), crs[o].spec.sourced
                   PROVE  work'[o].pw = seen' /\ (user'.there => user'.pw = seen' \/ work'[o].retry)
        BY <1>1 DEF ReadyClaim, At
    <2>2. Me(o).spec.sourced
        BY <2>1, ReadySpec
    <2> QED BY <2>1, <2>2, DueBefore DEF ReadyHas
<1>3. PassClaim(o)'
    <2>1. SUFFICES ASSUME Due(o)', IsCurrent(o, Me(o))', Me(o)'.spec.sourced
                   PROVE  work'[o].pw = seen'
        BY <1>1 DEF PassClaim, At
    <2> QED BY <2>1, NextCurrent, DueBefore
<1> QED BY <1>2, <1>3

\* Where another object may step, none has the user to itself.
LEMMA ClaimsOne ==
    ASSUME setup' = setup, NEW o \in Objects, o \in setup.objects,
           ReadyClaim(o)' /\ PassClaim(o)'
    PROVE  ClaimInv'
<1>1. ASSUME NEW p \in Objects, p # o PROVE ReadyClaim(p)' /\ PassClaim(p)'
    <2>1. ~Alone(p)'
        BY <1>1 DEF Alone
    <2> QED BY <2>1 DEF ReadyClaim, PassClaim, Due
<1> QED BY <1>1 DEF ClaimInv

LEMMA WorkerInside ==
    ASSUME CopiesInv, NEW o \in Objects, ~At(o, "idle")
    PROVE  o \in setup.objects /\ Copied(o) /\ Cached(o)
BY DEF CopiesInv, Outside

LEMMA QuietlyPut ==
    ASSUME StaysPut, lost \subseteq lost'
    PROVE  Quietly
BY DEF StaysPut, Quietly

LEMMA BeginClaims ==
    ASSUME TypeOK, CopiesInv, ClaimInv, NEW o \in Objects, Begin(o)
    PROVE  ClaimInv'
<1>1. /\ At(o, "idle") /\ (Takes(o) \/ UNCHANGED work) /\ (Exists(cache[o]) \/ UNCHANGED work)
      /\ StaysPut /\ UNCHANGED <<aiven, lost>>
    BY BeginMoves
<1>2. Quietly /\ setup' = setup /\ crs' = crs /\ UserKept
    BY <1>1, QuietlyPut DEF StaysPut, aiven, UserKept
<1>3. ReadyClaim(o) /\ ReadyHas(o) /\ Outside(o)
    BY <1>1, <1>2, ReadyUser DEF ClaimInv, CopiesInv, At
<1>4. CASE Takes(o)
    <2>1. work'[o].pc \notin {"reset", "fetch", "publish", "persist", "annotate"}
        BY <1>4 DEF Takes
    <2>2. o \in setup.objects
        BY <1>3, <1>4 DEF Outside, Takes
    <2> QED BY <1>2, <1>3, <2>1, <2>2, ClaimsElse, ClaimsOne
<1>5. CASE UNCHANGED work
    <2>1. UNCHANGED <<user, seen, watch, toTrigger, lost, meddled, crs, work, setup>>
        BY <1>1, <1>5 DEF aiven, StaysPut, watcher
    <2> QED BY <2>1 DEF ClaimInv, ReadyClaim, PassClaim, Due, Alone, IsCurrent, Me, At
<1> QED BY <1>1, <1>4, <1>5

LEMMA HoldClaims ==
    ASSUME TypeOK, CopiesInv, ClaimInv, NEW o \in Objects, Hold(o)
    PROVE  ClaimInv'
<1>1. /\ TypeOK' /\ At(o, "hold") /\ UNCHANGED <<setup, watcher, user, lost, meddled>>
      /\ (Stops(o) /\ UNCHANGED crs) \/ Holds(o)
    BY HoldMoves DEF history, aiven
<1>2. /\ Quietly /\ UserKept /\ ~At(o, "idle") /\ ~At(o, "reset")
      /\ ReadyClaim(o) /\ o \in setup.objects /\ Cached(o)
    BY <1>1, WorkerInside DEF Quietly, UserKept, At, ClaimInv
<1>3. ReadyHas(o)
    BY <1>2, ReadyUser
<1>4. CASE Stops(o) /\ UNCHANGED crs
    <2>1. work'[o].pc = "idle"
        BY <1>4, IdleFields DEF Stops
    <2> QED BY <1>1, <1>2, <1>3, <1>4, <2>1, ClaimsElse, ClaimsOne
<1>5. CASE Holds(o)
    <2> DEFINE d == crs'[o]
    <2>1. /\ work'[o].pc = "observe" /\ crs[o] = cache[o]
          /\ IsReadyToUse(d) <=> IsReadyToUse(crs[o])
          /\ d.spec = crs[o].spec
        BY <1>2, <1>5 DEF Holds, Cached, IsReadyToUse
    <2>2. ReadyClaim(o)'
        <3>1. Due(o)' /\ IsReadyToUse(d) /\ d.spec.sourced => (user'.there => user'.pw = seen')
            <4> HIDE DEF d
            <4> QED BY <1>2, <1>3, <2>1, DueBefore DEF ReadyHas
        <3> QED BY <2>1, <3>1 DEF ReadyClaim, At
    <2>3. PassClaim(o)'
        BY <2>1 DEF PassClaim, At
    <2> QED BY <1>1, <1>2, <2>2, <2>3, ClaimsOne
<1> QED BY <1>1, <1>4, <1>5

LEMMA ObserveClaims ==
    ASSUME TypeOK, CopiesInv, ClaimInv, NEW o \in Objects, Observe(o)
    PROVE  ClaimInv'
<1>1. At(o, "observe") /\ Me(o) = work[o].orig
    BY FreshCopy DEF Observe, At
<1>2. /\ StaysPut /\ UNCHANGED <<aiven, lost>>
      /\ \/ Leaves(o)
         \/ Goes(o, {"create", "update"})
         \/ Goes(o, {"publish"}) /\ IsReadyToUse(Me(o))
    BY <1>1, ObserveMoves
<1>3. /\ Quietly /\ UserKept /\ ~At(o, "idle") /\ ~At(o, "reset") /\ crs'[o] = crs[o]
      /\ ReadyClaim(o) /\ o \in setup.objects /\ setup' = setup
    BY <1>1, <1>2, WorkerInside, QuietlyPut DEF UserKept, At, ClaimInv, aiven, StaysPut
<1>4. ReadyHas(o)
    BY <1>3, ReadyUser
<1>5. ReadyClaim(o)' /\ PassClaim(o)'
    <2>1. CASE Leaves(o)
        BY <1>1, <1>3, <1>4, <2>1, ClaimsLeave DEF At
    <2>2. CASE Goes(o, {"create", "update"})
        <3>1. work'[o].pc \notin {"reset", "fetch", "publish", "persist", "annotate"}
            BY <2>2 DEF Goes
        <3> QED BY <1>3, <1>4, <3>1, ClaimsElse
    <2>3. CASE Goes(o, {"publish"}) /\ IsReadyToUse(Me(o))
        <3>1. IsCurrent(o, Me(o)) /\ Me(o).spec.sourced
              => IsReadyToUse(crs[o]) /\ crs[o].spec.sourced
            BY <1>1, <2>3, CurrentReady DEF At
        <3>2. Due(o)' /\ IsCurrent(o, Me(o)) /\ Me(o).spec.sourced
              => (user'.there => user'.pw = seen)
            BY <1>4, <3>1 DEF ReadyHas
        <3> QED BY <1>3, <1>4, <2>3, <3>2, ClaimsPushed
    <2> QED BY <1>2, <2>1, <2>2, <2>3
<1> QED BY <1>3, <1>5, ClaimsOne

\* Nothing is half made if nothing is lost.
LEMMA HalfMadeLost ==
    ASSUME Quietly, NEW o \in Objects, HalfMade(o) \subseteq lost'
    PROVE  ReadyHas(o)
<1>1. SUFFICES ASSUME Due(o)', IsReadyToUse(crs[o]), crs[o].spec.sourced PROVE FALSE
    BY DEF ReadyHas
<1>2. "half made" \in HalfMade(o)
    BY <1>1 DEF HalfMade
<1> QED BY <1>1, <1>2 DEF Due

LEMMA CreateClaims ==
    ASSUME TypeOK, CopiesInv, ClaimInv, NEW o \in Objects, Create(o)
    PROVE  ClaimInv'
<1>1. /\ At(o, "create") /\ StaysPut
      /\ \/ Leaves(o) /\ UNCHANGED <<user, lost>>
         \/ /\ ~Undeclared(Me(o)) /\ UNCHANGED lost
            /\ \/ Goes(o, {"reset"}) /\ work'[o].pw = Declared(Me(o)) /\ work'[o].retry
               \/ /\ Goes(o, {"publish"})
                  /\ Declared(Me(o)) # NoPassword => user'.pw = Declared(Me(o))
         \/ Leaves(o) /\ lost' = HalfMade(o)
    BY CreateMoves
<1>2. lost \subseteq lost'
    BY <1>1 DEF HalfMade
<1>3. /\ Quietly /\ ~At(o, "idle") /\ ~At(o, "reset") /\ crs'[o] = crs[o]
      /\ ReadyClaim(o) /\ o \in setup.objects /\ setup' = setup
    BY <1>1, <1>2, WorkerInside, QuietlyPut DEF At, ClaimInv, StaysPut
<1>4. ~Undeclared(Me(o)) /\ Me(o).spec.sourced => Declared(Me(o)) = seen /\ seen # NoPassword
    BY DeclaredFields, WorkTypes DEF SameObject
<1>5. ReadyClaim(o)' /\ PassClaim(o)'
    <2>1. CASE Leaves(o) /\ UNCHANGED <<user, lost>>
        <3>1. ReadyHas(o)
            BY <1>3, <2>1, ReadyUser DEF UserKept
        <3> QED BY <1>1, <1>3, <2>1, <3>1, ClaimsLeave DEF At
    <2>2. CASE ~Undeclared(Me(o)) /\ Goes(o, {"reset"}) /\ work'[o].pw = Declared(Me(o)) /\ work'[o].retry
        BY <1>3, <1>4, <2>2, ClaimsReset
    <2>3. CASE /\ ~Undeclared(Me(o)) /\ Goes(o, {"publish"})
               /\ Declared(Me(o)) # NoPassword => user'.pw = Declared(Me(o))
        <3>1. Me(o).spec.sourced => user'.pw = seen
            BY <1>4, <2>3
        <3>2. ReadyHas(o)
            BY <1>3, <3>1, ReadySpec DEF ReadyHas
        <3> QED BY <1>3, <2>3, <3>1, <3>2, ClaimsPushed
    <2>4. CASE Leaves(o) /\ lost' = HalfMade(o)
        <3>1. ReadyHas(o)
            BY <1>3, <2>4, HalfMadeLost
        <3> QED BY <1>1, <1>3, <2>4, <3>1, ClaimsLeave DEF At
    <2> QED BY <1>1, <2>1, <2>2, <2>3, <2>4
<1> QED BY <1>3, <1>5, ClaimsOne

LEMMA UpdateClaims ==
    ASSUME TypeOK, CopiesInv, ClaimInv, NEW o \in Objects, Update(o)
    PROVE  ClaimInv'
<1>1. /\ At(o, "update") /\ StaysPut /\ UNCHANGED lost
      /\ user'.there = user.there /\ user'.pw = user.pw
      /\ \/ Leaves(o)
         \/ Goes(o, {"reset"}) /\ (Me(o).spec.sourced => work'[o].pw = seen)
         \/ Goes(o, {"publish"}) /\ ~Me(o).spec.sourced
    BY UpdateMoves
<1>2. /\ Quietly /\ UserKept /\ ~At(o, "idle") /\ ~At(o, "reset") /\ crs'[o] = crs[o]
      /\ ReadyClaim(o) /\ o \in setup.objects /\ setup' = setup
    BY <1>1, WorkerInside, QuietlyPut DEF UserKept, At, ClaimInv, StaysPut
<1>3. ReadyHas(o)
    BY <1>2, ReadyUser
<1>4. ReadyClaim(o)' /\ PassClaim(o)'
    BY <1>1, <1>2, <1>3, ClaimsLeave, ClaimsReset, ClaimsPushed DEF At
<1> QED BY <1>2, <1>4, ClaimsOne

LEMMA ResetClaims ==
    ASSUME TypeOK, CopiesInv, ClaimInv, NEW o \in Objects, Reset(o)
    PROVE  ClaimInv'
<1>1. /\ At(o, "reset") /\ StaysPut
      /\ \/ work[o].pw = NoPassword /\ Goes(o, {"fetch"}) /\ UNCHANGED <<user, lost>>
         \/ /\ UNCHANGED lost
            /\ work[o].pw # NoPassword => user'.pw = work[o].pw
            /\ Goes(o, {"fetch", "publish"}) \/ Leaves(o)
         \/ ~user.there /\ UNCHANGED <<user, lost>> /\ Leaves(o)
         \/ /\ UNCHANGED user /\ Leaves(o)
            /\ lost' = IF work[o].retry THEN HalfMade(o) ELSE lost
    BY ResetMoves
<1>2. lost \subseteq lost'
    BY <1>1 DEF HalfMade
<1>3. /\ Quietly /\ ~At(o, "idle") /\ crs'[o] = crs[o]
      /\ ReadyClaim(o) /\ PassClaim(o) /\ o \in setup.objects /\ setup' = setup
    BY <1>1, <1>2, WorkerInside, QuietlyPut DEF At, ClaimInv, StaysPut
<1>4. Due(o)' /\ IsReadyToUse(crs[o]) /\ crs[o].spec.sourced => work[o].pw = seen /\ seen # NoPassword
    BY <1>1, <1>3, DueBefore DEF ReadyClaim
<1>5. Due(o)' /\ IsCurrent(o, Me(o)) /\ Me(o).spec.sourced => work[o].pw = seen /\ seen # NoPassword
    BY <1>1, <1>3, DueBefore DEF PassClaim
<1>6. ReadyClaim(o)' /\ PassClaim(o)'
    <2>1. CASE work[o].pw = NoPassword /\ Goes(o, {"fetch"}) /\ UNCHANGED <<user, lost>>
        <3>1. ReadyHas(o)
            BY <1>4, <2>1 DEF ReadyHas
        <3> QED BY <1>3, <1>5, <2>1, <3>1, ClaimsPushed
    <2>2. CASE /\ UNCHANGED lost
               /\ work[o].pw # NoPassword => user'.pw = work[o].pw
               /\ Goes(o, {"fetch", "publish"}) \/ Leaves(o)
        <3>1. ReadyHas(o)
            BY <1>4, <2>2 DEF ReadyHas
        <3>2. Due(o)' /\ IsCurrent(o, Me(o)) /\ Me(o).spec.sourced
              => (user'.there => user'.pw = seen)
            BY <1>5, <2>2
        <3>3. CASE Goes(o, {"fetch", "publish"})
            BY <1>3, <3>1, <3>2, <3>3, ClaimsPushed
        <3>4. CASE Leaves(o)
            BY <1>1, <1>3, <3>1, <3>4, ClaimsLeave DEF At
        <3> QED BY <2>2, <3>3, <3>4
    <2>3. CASE ~user.there /\ UNCHANGED <<user, lost>> /\ Leaves(o)
        <3>1. ReadyHas(o)
            BY <2>3 DEF ReadyHas
        <3> QED BY <1>1, <1>3, <2>3, <3>1, ClaimsLeave DEF At
    <2>4. CASE /\ UNCHANGED user /\ Leaves(o)
               /\ lost' = IF work[o].retry THEN HalfMade(o) ELSE lost
        <3>1. ReadyHas(o)
            <4>1. CASE work[o].retry
                BY <1>3, <2>4, <4>1, HalfMadeLost
            <4>2. CASE ~work[o].retry
                BY <1>3, <2>4, <4>2, DueBefore DEF ReadyClaim, ReadyHas
            <4> QED BY <4>1, <4>2
        <3> QED BY <1>1, <1>3, <2>4, <3>1, ClaimsLeave DEF At
    <2> QED BY <1>1, <2>1, <2>2, <2>3, <2>4
<1> QED BY <1>3, <1>6, ClaimsOne

LEMMA FetchClaims ==
    ASSUME TypeOK, CopiesInv, ClaimInv, NEW o \in Objects, Fetch(o)
    PROVE  ClaimInv'
<1>1. /\ At(o, "fetch") /\ StaysPut /\ UNCHANGED <<aiven, lost>>
      /\ Ends(o) \/ Goes(o, {"persist"}) \/ Goes(o, {"publish"})
    BY FetchMoves, LeavesGoesOn
<1>2. /\ Quietly /\ UserKept /\ ~At(o, "idle") /\ ~At(o, "reset") /\ crs'[o] = crs[o]
      /\ ReadyClaim(o) /\ PassClaim(o) /\ o \in setup.objects /\ setup' = setup
    BY <1>1, WorkerInside, QuietlyPut DEF UserKept, At, ClaimInv, aiven, StaysPut
<1>3. ReadyHas(o)
    BY <1>2, ReadyUser
<1>4. Due(o)' /\ IsCurrent(o, Me(o)) /\ Me(o).spec.sourced => (user'.there => user'.pw = seen)
    BY <1>1, <1>2, DueBefore DEF PassClaim, UserKept
<1>5. ReadyClaim(o)' /\ PassClaim(o)'
    <2>1. Ends(o) => work'[o].pc = "idle"
        BY IdleFields DEF Ends, Stops
    <2> QED BY <1>1, <1>2, <1>3, <1>4, <2>1, ClaimsElse, ClaimsPushed
<1> QED BY <1>2, <1>5, ClaimsOne

LEMMA PublishClaims ==
    ASSUME TypeOK, CopiesInv, ClaimInv, NEW o \in Objects, Publish(o)
    PROVE  ClaimInv'
<1>1. /\ At(o, "publish") /\ UNCHANGED <<setup, crs, watcher, aiven, meddled>>
      /\ lost \subseteq lost' /\ (Ends(o) \/ Goes(o, {"persist"}))
    BY PublishMoves, LeavesGoesOn
<1>2. /\ Quietly /\ UserKept /\ ~At(o, "idle") /\ ~At(o, "reset") /\ crs'[o] = crs[o]
      /\ ReadyClaim(o) /\ PassClaim(o) /\ o \in setup.objects /\ setup' = setup
    BY <1>1, WorkerInside DEF Quietly, UserKept, At, ClaimInv, aiven
<1>3. ReadyHas(o)
    BY <1>2, ReadyUser
<1>4. Due(o)' /\ IsCurrent(o, Me(o)) /\ Me(o).spec.sourced => (user'.there => user'.pw = seen)
    BY <1>1, <1>2, DueBefore DEF PassClaim, UserKept
<1>5. ReadyClaim(o)' /\ PassClaim(o)'
    <2>1. Ends(o) => work'[o].pc = "idle"
        BY IdleFields DEF Ends, Stops
    <2> QED BY <1>1, <1>2, <1>3, <1>4, <2>1, ClaimsElse, ClaimsPushed
<1> QED BY <1>2, <1>5, ClaimsOne

\* A write by a pass.
LEMMA SavesClaims ==
    ASSUME TypeOK, CopiesInv, ClaimInv, NEW o \in Objects, At(o, "persist") \/ At(o, "annotate"),
           UNCHANGED <<setup, watcher, aiven, lost, meddled>>, Saves(o) \/ UNCHANGED crs,
           Stops(o) \/ (Halves(o) /\ Saves(o))
    PROVE  ClaimInv'
<1>1. /\ Quietly /\ UserKept /\ ~At(o, "idle") /\ ~At(o, "reset")
      /\ ReadyClaim(o) /\ PassClaim(o) /\ o \in setup.objects /\ setup' = setup /\ Copied(o)
    BY WorkerInside DEF Quietly, UserKept, At, ClaimInv, aiven, Halves, Stops
<1>2. work'[o].pc \in {"idle", "annotate"}
    BY IdleFields DEF Stops, Halves
<1>3. CASE UNCHANGED crs /\ Stops(o)
    <2>1. ReadyHas(o)
        BY <1>1, ReadyUser
    <2>2. work'[o].pc = "idle"
        BY <1>3, IdleFields DEF Stops
    <2> QED BY <1>1, <1>3, <2>1, <2>2, ClaimsElse, ClaimsOne
<1>4. CASE Saves(o)
    <2> DEFINE d == crs'[o]
    <2>1. SameObject(Me(o), crs[o]) /\ IsCurrent(o, Me(o)) /\ Me(o) \in Records
        BY <1>1, <1>4, CurrentFacts, WorkTypes DEF Saves
    <2>2. /\ d.gen = crs[o].gen /\ d.spec = crs[o].spec
          /\ \/ d.running = crs[o].running /\ d.processed = crs[o].processed
             \/ d.running = Me(o).running /\ d.processed = Me(o).processed
        BY <1>4 DEF Saves
    <2>3. IsReadyToUse(d) /\ d.spec.sourced
          => \/ IsReadyToUse(Me(o)) /\ Me(o).spec.sourced
             \/ IsReadyToUse(crs[o]) /\ crs[o].spec.sourced
        BY <2>1, <2>2 DEF IsReadyToUse, SameObject
    <2>4. Due(o)' /\ IsReadyToUse(Me(o)) /\ Me(o).spec.sourced
          => (user'.there => user'.pw = seen')
        BY <1>1, <2>1, DueBefore DEF PassClaim, UserKept
    <2>5. Due(o)' /\ IsReadyToUse(crs[o]) /\ crs[o].spec.sourced
          => (user'.there => user'.pw = seen')
        BY <1>1, DueBefore DEF ReadyClaim, UserKept
    <2>6. Due(o)' /\ IsReadyToUse(d) /\ d.spec.sourced => (user'.there => user'.pw = seen')
        BY <2>3, <2>4, <2>5
    <2>7. ReadyClaim(o)'
        BY <1>2, <2>6 DEF ReadyClaim, At
    <2>8. PassClaim(o)'
        <3>1. CASE work'[o].pc = "idle"
            BY <3>1 DEF PassClaim, At
        <3>2. CASE Halves(o)
            <4>1. work'[o].obj = Write(Me(o)) /\ work'[o].pc = "annotate"
                BY <3>2 DEF Halves
            <4>2. /\ IsReadyToUse(Write(Me(o))) => IsReadyToUse(Me(o))
                  /\ Write(Me(o)).spec = Me(o).spec
                BY <2>1, WriteFields DEF IsReadyToUse, SameSpec, SameNotes
            <4> QED BY <2>4, <4>1, <4>2 DEF PassClaim, At, Me
        <3> QED BY <3>1, <3>2, IdleFields DEF Stops
    <2> QED BY <1>1, <2>7, <2>8, ClaimsOne
<1> QED BY <1>3, <1>4

LEMMA PersistClaims ==
    ASSUME TypeOK, CopiesInv, ClaimInv, NEW o \in Objects, Persist(o)
    PROVE  ClaimInv'
<1>1. /\ At(o, "persist") /\ UNCHANGED <<setup, watcher, aiven, lost, meddled>>
      /\ Saves(o) \/ UNCHANGED crs
      /\ Stops(o) \/ (Halves(o) /\ Saves(o))
    BY PersistFacts
<1> QED BY <1>1, SavesClaims

LEMMA AnnotateClaims ==
    ASSUME TypeOK, CopiesInv, ClaimInv, NEW o \in Objects, Annotate(o)
    PROVE  ClaimInv'
<1>1. /\ At(o, "annotate") /\ UNCHANGED <<setup, watcher, aiven, lost, meddled>>
      /\ Stops(o) /\ (Saves(o) \/ UNCHANGED crs)
    BY AnnotateFacts DEF history
<1> QED BY <1>1, SavesClaims

LEMMA DeleteClaims ==
    ASSUME TypeOK, CopiesInv, ClaimInv, NEW o \in Objects, Delete(o)
    PROVE  ClaimInv'
<1>1. At(o, "delete") /\ Me(o) = work[o].orig
    BY FreshCopy DEF Delete, At, Removal
<1>2. /\ StaysPut /\ UNCHANGED lost /\ (user' = NoUser \/ UNCHANGED user)
      /\ Stops(o) \/ Goes(o, {"unfinalize"})
    BY <1>1, DeleteMoves
<1>3. /\ Quietly /\ UserKept /\ ~At(o, "idle") /\ ~At(o, "reset") /\ crs'[o] = crs[o]
      /\ ReadyClaim(o) /\ o \in setup.objects /\ setup' = setup
    BY <1>1, <1>2, NoUserFields, WorkerInside, QuietlyPut DEF UserKept, At, ClaimInv, StaysPut
<1>4. work'[o].pc \notin {"reset", "fetch", "publish", "persist", "annotate"}
    BY <1>2, IdleFields DEF Stops, Goes
<1> QED BY <1>3, <1>4, ReadyUser, ClaimsElse, ClaimsOne

LEMMA RemoveClaims ==
    ASSUME TypeOK, CopiesInv, ClaimInv, NEW o \in Objects, RemoveFinalizer(o)
    PROVE  ClaimInv'
<1>1. /\ At(o, "unfinalize") /\ Stops(o) /\ UNCHANGED <<setup, watcher, aiven, history>>
      /\ UNCHANGED crs \/ Writes(o, NoObject)
    BY RemoveFacts
<1>2. /\ Quietly /\ UserKept /\ ~At(o, "idle") /\ ~At(o, "reset")
      /\ ReadyClaim(o) /\ o \in setup.objects /\ setup' = setup
    BY <1>1, WorkerInside DEF Quietly, UserKept, At, ClaimInv, aiven, history
<1>3. work'[o].pc = "idle"
    BY <1>1, IdleFields DEF Stops
<1>4. CASE UNCHANGED crs
    <2>1. ReadyHas(o)
        BY <1>2, ReadyUser
    <2> QED BY <1>2, <1>3, <1>4, <2>1, ClaimsElse, ClaimsOne
<1>5. CASE Writes(o, NoObject)
    <2>1. ~IsReadyToUse(crs'[o])
        BY <1>5, WritesOne, NoObjectFields
    <2>2. ReadyClaim(o)' /\ PassClaim(o)'
        BY <1>3, <2>1 DEF ReadyClaim, PassClaim, At
    <2> QED BY <1>2, <2>2, ClaimsOne
<1> QED BY <1>1, <1>4, <1>5

\* A step that leaves objects and workers alone, and shows no more of the user.
LEMMA ClaimsStay ==
    ASSUME ClaimInv, setup' = setup, seen' = seen, watch => watch', toTrigger \subseteq toTrigger',
           lost \subseteq lost', meddled => meddled', UNCHANGED <<crs, work>>, UserKept
    PROVE  ClaimInv'
<1>1. ASSUME NEW o \in Objects PROVE ReadyClaim(o)' /\ PassClaim(o)'
    <2>1. Due(o)' => Due(o)
        BY DEF Due, Alone
    <2>2. ReadyClaim(o) /\ PassClaim(o)
        BY DEF ClaimInv
    <2> QED BY <2>1, <2>2 DEF ReadyClaim, PassClaim, UserKept, At, Me, IsCurrent
<1> QED BY <1>1 DEF ClaimInv

\* An object that may miss a new password is one that a pass could claim, or has
\* claimed, to be up to date.
LEMMA CanMissFacts ==
    ASSUME CopiesInv, NEW o \in Objects, ~CanMiss(o)
    PROVE  ~IsReadyToUse(crs[o]) /\ (At(o, "idle") \/ ~IsCurrent(o, Me(o)))
<1>1. Exists(crs[o]) \/ crs[o] = NoObject
    BY DEF CopiesInv, Cached
<1>2. IsCurrent(o, Me(o)) => Exists(crs[o])
    BY DEF IsCurrent, Exists
<1> QED BY <1>1, <1>2, NoObjectFields DEF CanMiss

LEMMA MissedFacts ==
    ASSUME NEW why, NEW O, NEW o \in O, Missed(why, O) = {}
    PROVE  ~CanMiss(o)
BY DEF Missed

\* Nothing is claimed of it.
LEMMA Unclaimed ==
    ASSUME NEW o \in Objects, UNCHANGED work, crs'[o] = crs[o],
           ~IsReadyToUse(crs[o]), At(o, "idle") \/ ~IsCurrent(o, Me(o))
    PROVE  ReadyClaim(o)' /\ PassClaim(o)'
BY DEF ReadyClaim, PassClaim, At, Me, IsCurrent

LEMMA SyncSourceClaims ==
    ASSUME TypeOK, CopiesInv, ClaimInv, SyncSource
    PROVE  ClaimInv'
<1>1. UNCHANGED <<setup, crs, work>>
    BY SyncSourceMoves DEF objects
<1>2. /\ seen # source /\ seen' = source
      /\ watch' = (watch \/ (seen # Absent /\ source # Absent))
      /\ lost' = IF seen = Absent THEN Missed("recreated", Objects) ELSE lost
    BY DEF SyncSource
<1>3. ASSUME NEW o \in Objects PROVE ReadyClaim(o)' /\ PassClaim(o)'
    <2>1. CASE ~Due(o)'
        BY <2>1 DEF ReadyClaim, PassClaim
    <2>2. CASE Due(o)'
        <3>1. lost' = {} /\ seen' # Absent /\ ~watch'
            BY <2>2 DEF Due
        <3>2. Missed("recreated", Objects) = {}
            BY <1>2, <3>1
        <3>3. ~CanMiss(o)
            BY <3>2, MissedFacts
        <3> QED BY <1>1, <3>3, CanMissFacts, Unclaimed
    <2> QED BY <2>1, <2>2
<1> QED BY <1>3 DEF ClaimInv

\* The copy in the cache has the spec that a claim is about.
LEMMA CachedSpec ==
    ASSUME TypeOK, CopiesInv, NEW o \in Objects,
           \/ IsReadyToUse(crs[o])
           \/ ~At(o, "idle") /\ IsCurrent(o, Me(o))
    PROVE  /\ Exists(crs[o]) /\ Exists(cache[o]) /\ cache[o].spec = crs[o].spec
           /\ ~At(o, "idle") /\ IsCurrent(o, Me(o)) => Me(o).spec = crs[o].spec
<1>1. Cached(o) /\ Copied(o)
    BY DEF CopiesInv
<1>2. ~At(o, "idle") /\ IsCurrent(o, Me(o)) =>
          /\ work[o].orig = crs[o] /\ SameObject(Me(o), crs[o]) /\ Exists(crs[o])
    BY <1>1, CurrentFacts
<1>3. Exists(crs[o])
    BY <1>1, <1>2, NoObjectFields DEF Cached
<1>4. cache[o].uid = crs[o].uid
    BY <1>1, <1>2 DEF Cached, Copied, IsReadyToUse
<1>5. cache[o].gen = crs[o].gen
    <2>1. CASE IsReadyToUse(crs[o])
        BY <1>1, <2>1 DEF Cached, IsReadyToUse
    <2>2. CASE ~At(o, "idle") /\ IsCurrent(o, Me(o))
        <3>1. crs[o].gen <= cache[o].gen
            BY <1>1, <1>2, <2>2 DEF Copied
        <3>2. cache[o].gen <= crs[o].gen
            BY <1>1, <1>3, <1>4 DEF Cached, Earlier, Exists
        <3> QED BY <3>1, <3>2, WorkTypes, RecordTypes
    <2> QED BY <2>1, <2>2
<1> QED BY <1>1, <1>2, <1>3, <1>4, <1>5 DEF Cached, Earlier, Exists, SameObject

LEMMA FindDependentsClaims ==
    ASSUME TypeOK, CopiesInv, ClaimInv, FindDependents
    PROVE  ClaimInv'
<1>1. UNCHANGED <<setup, crs, work, seen>>
    BY FindDependentsMoves DEF objects
<1>2. toTrigger' = IF seen = Absent THEN {}
                   ELSE {o \in Objects : Exists(cache[o]) /\ cache[o].spec.sourced}
    BY DEF FindDependents
<1>3. ASSUME NEW o \in Objects, Due(o)' PROVE ~(Exists(cache[o]) /\ cache[o].spec.sourced)
    BY <1>1, <1>2, <1>3 DEF Due
<1>4. ASSUME NEW o \in Objects PROVE ReadyClaim(o)' /\ PassClaim(o)'
    <2>1. ReadyClaim(o)'
        <3>1. SUFFICES ASSUME Due(o)', IsReadyToUse(crs[o]), crs[o].spec.sourced PROVE FALSE
            BY <1>1 DEF ReadyClaim
        <3> QED BY <1>3, <3>1, CachedSpec
    <2>2. PassClaim(o)'
        <3>1. CASE At(o, "idle")
            BY <1>1, <3>1 DEF PassClaim, At
        <3>2. CASE ~At(o, "idle")
            <4>1. SUFFICES ASSUME Due(o)', IsCurrent(o, Me(o)), Me(o).spec.sourced PROVE FALSE
                BY <1>1 DEF PassClaim, Me, IsCurrent
            <4> QED BY <1>3, <3>2, <4>1, CachedSpec
        <3> QED BY <3>1, <3>2
    <2> QED BY <2>1, <2>2
<1> QED BY <1>4 DEF ClaimInv

\* An object that changes under a pass is not current to it.
LEMMA NewerClaims ==
    ASSUME TypeOK, CopiesInv, NEW o \in Objects, UNCHANGED work, NEW d, crs'[o] = d,
           Newer(d, crs[o]), ~IsReadyToUse(d)
    PROVE  ReadyClaim(o)' /\ PassClaim(o)'
<1>1. ReadyClaim(o)'
    BY DEF ReadyClaim
<1>2. CASE At(o, "idle")
    BY <1>1, <1>2 DEF PassClaim, At
<1>3. CASE ~At(o, "idle")
    <2>1. Copied(o) /\ work[o].orig \in Records /\ crs[o] \in Records /\ d \in Records
        BY WorkTypes DEF CopiesInv, Newer
    <2>2. /\ Exists(work[o].orig) /\ Earlier(work[o].orig, crs[o])
          /\ Me(o).uid = work[o].orig.uid /\ Me(o).rv = work[o].orig.rv
        BY <1>3, <2>1 DEF Copied, SameObject, Me
    <2>3. work[o].orig.uid = d.uid => work[o].orig.rv < d.rv
        BY <2>1, <2>2, EarlierThanNewer
    <2>4. work[o].orig.rv \in Nat /\ d.rv \in Nat
        BY <2>1, RecordTypes
    <2>5. ~(Me(o).uid = d.uid /\ Me(o).rv = d.rv)
        BY <2>2, <2>3, <2>4
    <2> QED BY <1>1, <2>5 DEF PassClaim, IsCurrent, Me
<1> QED BY <1>2, <1>3

LEMMA TriggerClaims ==
    ASSUME TypeOK, CopiesInv, ClaimInv, NEW o \in Objects, Trigger(o)
    PROVE  ClaimInv'
<1>1. /\ toTrigger' = toTrigger \ {o}
      /\ UNCHANGED <<setup, work, seen, watch, user, meddled>>
      /\ \/ Patches(o)
         \/ /\ UNCHANGED crs
            /\ \E why \in {"same second", "failed"} : lost' = Missed(why, {o})
         \/ UNCHANGED <<crs, lost>> /\ ~(Exists(cache[o]) /\ Exists(crs[o]))
    BY TriggerMoves DEF aiven
<1>2. lost \subseteq lost'
    BY <1>1 DEF Patches, Missed
<1> DEFINE d == crs'[o]
<1>3. ASSUME Patches(o) PROVE Writes(o, d) /\ Newer(d, crs[o]) /\ d \in Records
    BY <1>3 DEF Patches, Newer
<1>4. ASSUME NEW p \in Objects, p # o PROVE ReadyClaim(p)' /\ PassClaim(p)'
    <2>1. crs'[p] = crs[p]
        <3> HIDE DEF d
        <3> QED BY <1>1, <1>3, <1>4, WritesOne
    <2>2. Due(p)' => Due(p)
        BY <1>1, <1>2, <1>4 DEF Due, Alone
    <2>3. ReadyClaim(p) /\ PassClaim(p)
        BY DEF ClaimInv
    <2> QED BY <1>1, <2>1, <2>2, <2>3 DEF ReadyClaim, PassClaim, At, Me, IsCurrent
<1>5. ReadyClaim(o)' /\ PassClaim(o)'
    <2>1. CASE ~Due(o)'
        BY <2>1 DEF ReadyClaim, PassClaim
    <2>2. CASE Due(o)' /\ Patches(o)
        <3>1. /\ d.processed = (IF cache[o].processed # 0 THEN 0 ELSE crs[o].processed)
              /\ d.gen = crs[o].gen
              /\ lost' = lost \cup {w \in {"outdated"} : crs[o].processed # 0 /\ cache[o].processed = 0}
            BY <2>2 DEF Patches
        <3>2. lost' = {}
            BY <2>2 DEF Due
        <3>3. ~(crs[o].processed # 0 /\ cache[o].processed = 0)
            BY <3>1, <3>2
        <3>4. crs[o].gen # 0
            BY WorkTypes, RecordTypes
        <3>5. ~IsReadyToUse(d)
            BY <3>1, <3>3, <3>4 DEF IsReadyToUse
        <3>6. Newer(d, crs[o]) /\ crs'[o] = d
            BY <1>3, <2>2
        <3> HIDE DEF d
        <3> QED BY <1>1, <3>5, <3>6, NewerClaims
    <2>3. CASE /\ Due(o)' /\ UNCHANGED crs
               /\ \E why \in {"same second", "failed"} : lost' = Missed(why, {o})
        <3>1. PICK why \in {"same second", "failed"} : Missed(why, {o}) = {}
            BY <2>3 DEF Due
        <3>2. ~CanMiss(o)
            BY <3>1, MissedFacts
        <3> QED BY <1>1, <2>3, <3>2, CanMissFacts, Unclaimed
    <2>4. CASE UNCHANGED <<crs, lost>> /\ ~(Exists(cache[o]) /\ Exists(crs[o]))
        <3>1. ~IsReadyToUse(crs[o]) /\ (At(o, "idle") \/ ~IsCurrent(o, Me(o)))
            BY <2>4, CachedSpec
        <3> QED BY <1>1, <2>4, <3>1, Unclaimed
    <2> QED BY <1>1, <2>1, <2>2, <2>3, <2>4
<1> QED BY <1>4, <1>5 DEF ClaimInv

LEMMA CrashClaims ==
    ASSUME TypeOK, CopiesInv, ClaimInv, Crash
    PROVE  ClaimInv'
<1>1. /\ UNCHANGED <<setup, crs, user, meddled>>
      /\ work' = [o \in Objects |-> Idle]
      /\ seen' = source /\ watch' = FALSE /\ toTrigger' = {}
      /\ lost \subseteq lost'
      /\ watch \/ toTrigger # {} \/ seen # source => Missed("restart", Objects) \subseteq lost'
      /\ \A o \in Objects : At(o, "reset") /\ work[o].retry => HalfMade(o) \subseteq lost'
    BY CrashMoves DEF aiven
<1>2. ASSUME NEW o \in Objects PROVE ReadyClaim(o)' /\ PassClaim(o)'
    <2>1. work'[o].pc = "idle"
        BY <1>1, IdleFields
    <2>2. PassClaim(o)'
        BY <2>1 DEF PassClaim, At
    <2>3. ReadyClaim(o)'
        <3>1. SUFFICES ASSUME Due(o)', IsReadyToUse(crs[o]), crs[o].spec.sourced, user.there
                       PROVE  user.pw = seen'
            BY <1>1, <2>1 DEF ReadyClaim, At
        <3>2. lost' = {} /\ ~meddled' /\ seen' # Absent /\ Alone(o)
            BY <1>1, <3>1 DEF Due, Alone
        <3>3. CanMiss(o)
            BY <3>1, CachedSpec DEF CanMiss
        <3>4. ~watch /\ toTrigger = {} /\ seen = source
            BY <1>1, <3>2, <3>3, MissedFacts
        <3>5. Due(o)
            BY <1>1, <3>2, <3>4 DEF Due
        <3>6. ~(At(o, "reset") /\ work[o].retry)
            <4>1. "half made" \in HalfMade(o)
                BY <3>1 DEF HalfMade
            <4> QED BY <1>1, <3>2, <4>1
        <3> QED BY <1>1, <3>1, <3>4, <3>5, <3>6 DEF ClaimInv, ReadyClaim
    <2> QED BY <2>2, <2>3
<1> QED BY <1>2 DEF ClaimInv

LEMMA WatchClaims ==
    ASSUME TypeOK, CopiesInv, ClaimInv, SyncCache \/ AivenProgress
    PROVE  ClaimInv'
<1>1. /\ UNCHANGED <<setup, crs, work, seen, watch, toTrigger, lost, meddled>>
      /\ UserKept
    BY SyncCacheMoves, AivenProgressMoves DEF watcher, history, objects, aiven, UserKept
<1> QED BY <1>1, ClaimsStay

LEMMA UserCreatesClaims ==
    ASSUME TypeOK, CopiesInv, ClaimInv, NEW o \in Objects, UserCreates(o)
    PROVE  ClaimInv'
<1>1. EditStays /\ edits' = edits + 1 /\ o \in setup.objects /\ ~Exists(crs[o])
    BY UserCreatesMoves
<1>2. PICK s \in Specs : Writes(o, Fresh(edits', s))
    BY UserCreatesMoves
<1>3. edits \in Nat /\ edits' \in Nat
    <2>1. edits \in Nat
        BY DEF TypeOK
    <2> QED BY <1>1, <2>1
<1> DEFINE d == Fresh(edits', s)
<1>4. d \in Records /\ d.uid = edits' /\ ~IsReadyToUse(d)
    BY <1>3, FreshFields
<1>5. crs'[o] = d
    <2> HIDE DEF d
    <2> QED BY <1>2, <1>4, WritesOne DEF d
<1> HIDE DEF d
<1>6. ReadyClaim(o)'
    BY <1>4, <1>5 DEF ReadyClaim
<1>7. PassClaim(o)'
    <2>1. CASE At(o, "idle")
        BY <1>1, <2>1 DEF PassClaim, At, EditStays
    <2>2. CASE ~At(o, "idle")
        <3>1. Me(o).uid <= edits /\ Me(o).uid \in Nat
            BY <2>2, WorkTypes, RecordTypes DEF CopiesInv, Copied, SameObject, Me
        <3>2. Me(o).uid # d.uid
            BY <1>1, <1>3, <1>4, <3>1
        <3> QED BY <1>1, <1>5, <3>2 DEF PassClaim, IsCurrent, Me, EditStays
    <2> QED BY <2>1, <2>2
<1> QED BY <1>1, <1>6, <1>7, ClaimsOne DEF EditStays

LEMMA UserEditsClaims ==
    ASSUME TypeOK, CopiesInv, ClaimInv, NEW o \in Objects, UserEditsSpec(o)
    PROVE  ClaimInv'
<1> DEFINE d == crs'[o]
<1>1. /\ EditStays /\ edits' = edits + 1 /\ Exists(crs[o])
      /\ Newer(d, crs[o]) /\ d.gen = crs[o].gen + 1
      /\ d.processed = crs[o].processed
    BY UserEditsMoves
<1>2. crs[o].processed <= crs[o].gen /\ crs[o].processed \in Nat /\ crs[o].gen \in Nat
    BY WorkTypes, RecordTypes
<1>3. crs'[o] = d
    OBVIOUS
<1> HIDE DEF d
<1>4. ~IsReadyToUse(d)
    BY <1>1, <1>2 DEF IsReadyToUse
<1>5. ReadyClaim(o)' /\ PassClaim(o)'
    BY <1>1, <1>3, <1>4, NewerClaims DEF EditStays
<1>6. o \in setup.objects
    BY <1>1 DEF CopiesInv, Outside
<1> QED BY <1>1, <1>5, <1>6, ClaimsOne DEF EditStays

LEMMA UserDeletesClaims ==
    ASSUME TypeOK, CopiesInv, ClaimInv, NEW o \in Objects, UserDeletes(o)
    PROVE  ClaimInv'
<1> DEFINE d == crs'[o]
<1>1. /\ EditStays /\ edits' = edits + 1 /\ Exists(crs[o])
      /\ \/ Writes(o, NoObject)
         \/ /\ Newer(d, crs[o]) /\ d.gen = crs[o].gen + 1
            /\ d.processed = crs[o].processed
    BY UserDeletesMoves
<1>2. crs[o].processed <= crs[o].gen /\ crs[o].processed \in Nat /\ crs[o].gen \in Nat
    BY WorkTypes, RecordTypes
<1>3. crs'[o] = d /\ (Writes(o, NoObject) => d = NoObject)
    BY WritesOne, NoObjectFields
<1> HIDE DEF d
<1>4. ~IsReadyToUse(d)
    BY <1>1, <1>2, <1>3, NoObjectFields DEF IsReadyToUse
<1>5. ReadyClaim(o)' /\ PassClaim(o)'
    <2>1. CASE d = NoObject
        BY <1>3, <1>4, <2>1, NoObjectFields DEF ReadyClaim, PassClaim, IsCurrent, Exists
    <2>2. CASE Newer(d, crs[o])
        BY <1>1, <1>3, <1>4, <2>2, NewerClaims DEF EditStays
    <2> QED BY <1>1, <1>3, <2>1, <2>2
<1>6. o \in setup.objects
    BY <1>1 DEF CopiesInv, Outside
<1> QED BY <1>1, <1>5, <1>6, ClaimsOne DEF EditStays

LEMMA OthersClaims ==
    ASSUME TypeOK, CopiesInv, ClaimInv,
           UserChangesSource \/ OthersChangePassword \/ OthersDeleteUser
    PROVE  ClaimInv'
<1>1. CASE UserChangesSource \/ OthersDeleteUser
    <2>1. EditStays /\ UNCHANGED <<crs, lost, meddled>> /\ UserKept
        BY <1>1, UserChangesSourceMoves, OthersDeleteUserMoves, NoUserFields DEF aiven, UserKept
    <2> QED BY <2>1, ClaimsStay DEF EditStays, watcher
<1>2. CASE OthersChangePassword
    <2>1. meddled'
        BY <1>2, OthersChangePasswordMoves
    <2> QED BY <2>1 DEF ClaimInv, ReadyClaim, PassClaim, Due
<1> QED BY <1>1, <1>2

LEMMA ClaimStep ==
    ASSUME TypeOK, CopiesInv, ClaimInv, [Next]_vars
    PROVE  ClaimInv'
<1>1. ASSUME NEW o \in Objects, Reconcile(o)
      PROVE  ClaimInv'
    BY <1>1, BeginClaims, HoldClaims, ObserveClaims, CreateClaims, UpdateClaims, ResetClaims,
       FetchClaims, PublishClaims, PersistClaims, AnnotateClaims, DeleteClaims, RemoveClaims DEF Reconcile
<1>2. ASSUME Others
      PROVE  ClaimInv'
    BY <1>2, UserCreatesClaims, UserEditsClaims, UserDeletesClaims, OthersClaims DEF Others
<1>3. ASSUME WatchSecret \/ Crash \/ SyncCache \/ SyncSource \/ AivenProgress
      PROVE  ClaimInv'
    BY <1>3, TriggerClaims, CrashClaims, WatchClaims, SyncSourceClaims, FindDependentsClaims
       DEF WatchSecret
<1>4. ASSUME UNCHANGED vars
      PROVE  ClaimInv'
    <2>1. /\ UNCHANGED <<setup, crs, work, seen, watch, toTrigger, lost, meddled>>
          /\ UserKept
        BY <1>4 DEF vars, objects, watcher, aiven, history, UserKept
    <2> QED BY <2>1, ClaimsStay
<1> QED BY <1>1, <1>2, <1>3, <1>4 DEF Next

LEMMA InitClaims ==
    ASSUME Init
    PROVE  ClaimInv
<1>1. \A o \in Objects : crs[o] = NoObject /\ work[o].pc = "idle"
    BY IdleFields DEF Init
<1> QED BY <1>1, NoObjectFields DEF ClaimInv, ReadyClaim, PassClaim, At

\* The copies of an object, who is left to delete the user and what a pass is
\* about to claim of its password, in every state.
THEOREM UsersInvCorrect == Spec => [](TypeOK /\ UsersInv)
<1>1. Init => TypeOK /\ UsersInv
    BY InitCopies, InitKept, InitClaims DEF UsersInv
<1>2. TypeOK /\ UsersInv /\ [Next]_vars => (TypeOK /\ UsersInv)'
    BY CopiesStep, KeptStep, ClaimStep DEF UsersInv
<1> QED BY <1>1, <1>2, PTL DEF Spec

\* A password put in the source Secret is not forgotten: when the watch has gone
\* quiet, an object that has the user to itself and counts as up to date has set
\* it at Aiven, but for the ways to miss it that the history names.
THEOREM RotationCorrect == Spec => []RotationIsNotForgotten
<1>1. TypeOK /\ UsersInv => RotationIsNotForgotten
    <2>1. SUFFICES ASSUME UsersInv, NEW o \in Objects, Alone(o), Quiet(o), IsReadyToUse(crs[o]),
                          crs[o].spec.sourced, source # Absent, user.there, lost = {}, ~meddled
                   PROVE  user.pw = source
        BY DEF RotationIsNotForgotten
    <2>2. ReadyClaim(o) /\ Due(o) /\ ~At(o, "reset")
        BY <2>1 DEF UsersInv, ClaimInv, Quiet, Due, At
    <2> QED BY <2>1, <2>2 DEF ReadyClaim, Quiet
<1> QED BY <1>1, UsersInvCorrect, PTL
=============================================================================

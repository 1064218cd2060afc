--------------------------- MODULE RemoteIdentity ---------------------------
(***************************************************************************)
(* Resources that Aiven names: VPCs, ACL entries, integrations, endpoints, *)
(* ClickHouse users, upgrade steps.  Their kinds of controllers/ keep the  *)
(* identifier in status.id, which is saved after the resource was made and *)
(* read from a cache; a resource whose identifier is not known can only be *)
(* found again by what it contains, if the kind does that at all.          *)
(*                                                                         *)
(* One object and the entries at Aiven it may be about, among them those   *)
(* of other clients.  The reconciler around it is ManagedReconciler's;     *)
(* annotations, generations and conditions are left to that module, and so *)
(* is the object let go of because its API token is invalid: a call to     *)
(* Aiven that fails here fails for another reason.                         *)
(***************************************************************************)
EXTENDS Integers, FiniteSets, FiniteSetsExt

CONSTANTS
    Specs,      \* what the object can describe: the identifying fields
    NoSpec,     \* the spec of no object
    Kinds,      \* the kinds to look at
    MaxEdits,   \* bound on the steps of users and of other Aiven clients
    MaxFaults,  \* bound on failed calls and on crashes of the operator
    MaxStale    \* bound on passes that start from an outdated copy

Traits == {"looksUp",     \* Observe searches by content if it knows no ID
           "byID",        \* if it knows one, Observe asks for that entry only
           "forgets",     \* and drops the ID of an entry that is gone
           "unique",      \* Aiven refuses a second entry with the same content
           "replaces",    \* a new spec is a new entry: the old one is removed first
           "findsToDelete", \* Delete searches by content if it knows no ID
           "staged"}      \* Delete only starts the deletion at Aiven

ProjectVPC             == {"looksUp", "byID", "unique", "staged"}
ServiceIntegration     == {"looksUp", "byID", "forgets"}
EndpointIntegration    == {"byID", "forgets"}   \* without a source service
IntegrationEndpoint    == {"looksUp", "byID", "forgets", "unique"}
KafkaNativeACL         == {"looksUp"}
KafkaSchemaRegistryACL == {"looksUp"}
KafkaACL               == {"looksUp", "replaces", "findsToDelete"}
ClickhouseUser         == {"looksUp", "unique"}
\* Delete of a step asks by content whatever ID is saved, and so would remove an
\* entry of the same content that another client has put in its place.
UpgradePipelineStep    == {"looksUp", "forgets", "unique", "findsToDelete"}

\* Every kind can find its entry again, by ID or by content; one that replaces
\* entries looks for them by content only, and keeps the ID of what it replaces.
ASSUME KindsAssumption ==
    /\ Kinds \subseteq SUBSET Traits
    /\ \A k \in Kinds : /\ k \cap {"looksUp", "byID"} # {}
                        /\ "replaces" \in k => k \cap {"byID", "forgets"} = {}
ASSUME SpecsAssumption == NoSpec \notin Specs
ASSUME BoundAssumption == {MaxEdits, MaxFaults, MaxStale} \subseteq Nat

VARIABLES
    kind,     \* the traits of the kind
    cr,       \* the object in the API server
    cache,    \* the informer's copy of it
    queued,   \* the key is in the workqueue
    pc,       \* where the worker is
    obj,      \* the copy it read, with the ID it has found
    entries,  \* the entries at Aiven
    lastId,   \* the latest identifier Aiven gave
    edits,    \* steps of users and other clients so far
    faults,   \* failed calls and crashes so far
    stale,    \* passes from an outdated copy so far
    mine,     \* history: the identifiers of the entries the operator made
    unsaved,  \* history: those of them not saved in the status of a live object
    troubled, \* history: there has been one that was not saved at once
    meddled   \* history: what other clients have done, of "add" and "remove"

aiven   == <<entries, lastId>>
worker  == <<pc, obj>>
history == <<mine, unsaved, troubled, meddled>>
vars    == <<kind, cr, cache, queued, pc, obj, entries, lastId, edits, faults, stale,
             history>>

----------------------------------------------------------------------------
(* Values.  Uid 0 is no object, id 0 is no identifier.                     *)

Entries == [id: Nat, spec: Specs, deleting: BOOLEAN]
Objects == [uid: Nat, rv: Nat, spec: Specs \cup {NoSpec}, deleting: BOOLEAN,
            finalizer: BOOLEAN, id: Nat]
Fresh(uid, s) == [uid |-> uid, rv |-> 1, spec |-> s, deleting |-> FALSE,
                  finalizer |-> FALSE, id |-> 0]
NoObject   == Fresh(0, NoSpec)
Exists(o)  == o.uid # 0
IsCurrent(o) == Exists(o) /\ o.uid = cr.uid /\ o.rv = cr.rv
Write(o)   == [o EXCEPT !.rv = @ + 1]

InUse        == {e \in entries : ~e.deleting}
WithID(id)   == {e \in entries : e.id = id}
\* Mutant: entries are not compared.
MatchingAny(s) == entries
Matching(s)  == {e \in entries : e.spec = s}
IDsOf(E)     == {e.id : e \in E}

\* Aiven gives a new identifier.  Mutant: the latest one.
LatestId == lastId
NewId    == lastId + 1

Init ==
    /\ kind \in Kinds
    /\ cr = NoObject
    /\ cache = NoObject
    /\ queued = FALSE
    /\ pc = "idle"
    /\ obj = NoObject
    /\ entries = {}
    /\ lastId = 0
    /\ edits = 0
    /\ faults = 0
    /\ stale = 0
    /\ mine = {}
    /\ unsaved = {}
    /\ troubled = FALSE
    /\ meddled = {}

----------------------------------------------------------------------------
(* The worker                                                              *)

Fault ==
    /\ faults < MaxFaults
    /\ faults' = faults + 1

\* Mutant: the requeue is lost.
ReturnOnly(requeue) ==
    /\ pc' = "idle"
    /\ obj' = NoObject
    /\ UNCHANGED queued

\* Reconcile returns: to be called again after an error or to poll.
Return(requeue) ==
    /\ pc' = "idle"
    /\ obj' = NoObject
    /\ queued' = (queued \/ requeue)

Goto(p, o) ==
    /\ pc' = p
    /\ obj' = o
    /\ UNCHANGED queued

Begin ==
    /\ pc = "idle"
    /\ queued
    /\ queued' = FALSE
    /\ IF cache = cr THEN UNCHANGED stale ELSE stale < MaxStale /\ stale' = stale + 1
    /\ IF Exists(cache) /\ (cache.deleting => cache.finalizer)
       THEN /\ pc' = IF cache.deleting THEN "delete" ELSE "finalizer"
            /\ obj' = cache
       ELSE UNCHANGED worker
    /\ troubled' = (troubled \/ unsaved # {})
    /\ UNCHANGED <<kind, cr, cache, aiven, edits, faults, mine, unsaved, meddled>>

\* ensureFinalizer, on the object as the cache has it by now.
EnsureFinalizer ==
    /\ pc = "finalizer"
    /\ UNCHANGED unsaved
    /\ \/ obj.finalizer /\ Goto("observe", obj) /\ UNCHANGED cr
       \/ /\ ~obj.finalizer
          /\ IsCurrent(cache)
          /\ cr' = IF cache.finalizer THEN cr ELSE Write([cache EXCEPT !.finalizer = TRUE])
          /\ Goto("observe", cr')
       \/ ~obj.finalizer /\ ~IsCurrent(cache) /\ Return(TRUE) /\ UNCHANGED cr
    /\ UNCHANGED <<kind, stale, cache, aiven, edits, faults, mine, troubled, meddled>>

\* Of several entries with the same content a list gives the first, KafkaACL
\* takes the last; taken in the order of their identifiers.
Pick(E) == LET ids == IDsOf(E)
           IN {e \in E : e.id = IF "replaces" \in kind THEN Max(ids) ELSE Min(ids)}

\* Mutant: an entry is known by its ID only.
FoundByID == WithID(obj.id)

\* The entry the object is about, as far as Observe can tell: found by its ID,
\* or by content, one in use before one being torn down.
Found ==
    IF "byID" \in kind /\ obj.id # 0 THEN WithID(obj.id)
    ELSE IF "looksUp" \notin kind THEN {}
    ELSE IF Matching(obj.spec) \cap InUse # {} THEN Pick(Matching(obj.spec) \cap InUse)
    ELSE Matching(obj.spec)

\* A VPC being torn down is not adopted, but one that has the ID is observed.
Adoptable == {e \in Found : e.deleting => obj.id = e.id}

\* Observe.  An entry that is not there is made; a VPC that is being torn down
\* is waited for; KafkaACL replaces the entry of the ID it knew.
Observe ==
    /\ pc = "observe"
    /\ UNCHANGED unsaved
    /\ \/ /\ \E e \in Adoptable : Goto("status", [obj EXCEPT !.id = e.id])
          /\ UNCHANGED faults
       \/ /\ Found # {} /\ Adoptable = {}
          /\ Return(TRUE)
          /\ UNCHANGED faults
       \/ /\ Found = {}
          /\ Goto(IF "replaces" \in kind THEN "remove" ELSE "add",
                  IF "forgets" \in kind THEN [obj EXCEPT !.id = 0] ELSE obj)
          /\ UNCHANGED faults
       \/ Fault /\ Return(TRUE)
    /\ UNCHANGED <<kind, stale, cr, cache, aiven, edits, mine, troubled, meddled>>

\* The entry that Delete, and KafkaACL before it adds another, removes.
Removable ==
    IF obj.id # 0 THEN WithID(obj.id)
    ELSE IF "findsToDelete" \notin kind THEN {}
    ELSE Pick(Matching(obj.spec))

Gone(E) ==
    entries' = IF "staged" \in kind
               THEN (entries \ E) \cup {[e EXCEPT !.deleting = TRUE] : e \in E}
               ELSE entries \ E

\* Mutant: a new ACL is added and the old one forgotten.
AddOnly ==
    /\ pc = "remove"
    /\ Goto("add", obj)
    /\ UNCHANGED <<kind, stale, cr, cache, aiven, edits, faults, mine, unsaved, troubled, meddled>>

\* KafkaACL.applyACL, first half: deleteACL; that there is none is no error.
RemoveOld ==
    /\ pc = "remove"
    /\ \/ /\ Removable = {}
          /\ Goto("add", obj)
          /\ UNCHANGED <<entries, unsaved, faults>>
       \/ \E e \in Removable :
             /\ Gone({e})
             /\ unsaved' = unsaved \ {e.id}
             /\ \/ Goto("add", obj) /\ UNCHANGED faults
                \/ Fault /\ Return(TRUE)
       \/ Fault /\ Return(TRUE) /\ UNCHANGED <<entries, unsaved>>
    /\ UNCHANGED <<kind, stale, cr, cache, lastId, edits, mine, troubled, meddled>>

\* Create.  The entry is made and its ID put in the copy; or made, and the
\* answer, or for KafkaACL the list that tells the ID, lost; or refused.  The
\* status is saved all the same.
Add ==
    /\ pc = "add"
    /\ \/ /\ "unique" \in kind => Matching(obj.spec) = {}
          /\ lastId' = NewId
          /\ entries' = entries \cup {[id |-> lastId', spec |-> obj.spec, deleting |-> FALSE]}
          /\ mine' = mine \cup {lastId'}
          /\ unsaved' = unsaved \cup {lastId'}
          /\ \/ Goto("status", [obj EXCEPT !.id = lastId']) /\ UNCHANGED faults
             \/ Fault /\ Goto("status", obj)
             \/ Fault /\ "replaces" \in kind /\ Goto("status", [obj EXCEPT !.id = 0])
       \/ /\ "unique" \in kind /\ Matching(obj.spec) # {}
          /\ Goto("status", obj)
          /\ UNCHANGED <<aiven, mine, unsaved, faults>>
       \/ Fault /\ Goto("status", obj) /\ UNCHANGED <<aiven, mine, unsaved>>
    /\ UNCHANGED <<kind, stale, cr, cache, edits, troubled, meddled>>

\* persistReconcileState, and the end of the pass.
PersistStatus ==
    /\ pc = "status"
    /\ \/ /\ IsCurrent(obj)
          /\ cr' = IF obj.id = cr.id THEN cr ELSE Write([cr EXCEPT !.id = obj.id])
          /\ unsaved' = IF cr.deleting THEN unsaved ELSE unsaved \ {obj.id}
          /\ UNCHANGED faults
       \/ ~IsCurrent(obj) /\ UNCHANGED <<cr, unsaved, faults>>
       \/ Fault /\ UNCHANGED <<cr, unsaved>>
    /\ Return(TRUE)
    /\ UNCHANGED <<kind, stale, cache, aiven, edits, mine, troubled, meddled>>

\* Delete: what has no known ID, or is not there, needs no deletion.
Delete ==
    /\ pc = "delete"
    /\ \/ /\ \A e \in Removable : e.deleting
          /\ Goto("unfinalize", obj)
          /\ UNCHANGED <<entries, unsaved, faults>>
       \/ \E e \in Removable :
             /\ ~e.deleting
             /\ Gone({e})
             /\ unsaved' = unsaved \ {e.id}
             /\ \/ /\ IF "staged" \in kind THEN Return(TRUE) ELSE Goto("unfinalize", obj)
                   /\ UNCHANGED faults
                \/ Fault /\ Return(TRUE)
       \/ Fault /\ Return(TRUE) /\ UNCHANGED <<entries, unsaved>>
    /\ UNCHANGED <<kind, stale, cr, cache, lastId, edits, mine, troubled, meddled>>

\* removeFinalizer, on the object as the cache has it by now.
RemoveFinalizer ==
    /\ pc = "unfinalize"
    /\ UNCHANGED unsaved
    /\ \/ ~Exists(cache) /\ Return(FALSE) /\ UNCHANGED <<cr, faults>>
       \/ /\ IsCurrent(cache)
          /\ cr' = IF ~cr.finalizer THEN cr
                   ELSE IF cr.deleting THEN NoObject
                   ELSE Write([cr EXCEPT !.finalizer = FALSE])
          /\ Return(FALSE)
          /\ UNCHANGED faults
       \/ Exists(cache) /\ ~IsCurrent(cache) /\ Return(TRUE) /\ UNCHANGED <<cr, faults>>
       \/ Fault /\ Return(TRUE) /\ UNCHANGED cr
    /\ UNCHANGED <<kind, stale, cache, aiven, edits, mine, troubled, meddled>>

\* The manager stops and starts again, and lists every object.
Crash ==
    /\ Fault
    /\ UNCHANGED unsaved
    /\ Return(Exists(cr))
    /\ cache' = cr
    /\ UNCHANGED <<kind, stale, cr, aiven, edits, mine, troubled, meddled>>

----------------------------------------------------------------------------
(* The cluster, its users, other clients and Aiven                         *)

SyncCache ==
    /\ cache # cr
    /\ cache' = cr
    /\ queued' = TRUE
    /\ UNCHANGED <<kind, stale, cr, worker, aiven, edits, faults, history>>

AivenProgress ==
    /\ \E e \in entries : e.deleting /\ entries' = entries \ {e}
    /\ UNCHANGED <<kind, stale, cr, cache, queued, worker, lastId, edits, faults, history>>

Edit ==
    /\ edits < MaxEdits
    /\ edits' = edits + 1

UserCreates(s) ==
    /\ Edit
    /\ ~Exists(cr)
    /\ cr' = Fresh(edits', s)
    /\ UNCHANGED <<kind, stale, cache, queued, worker, aiven, faults, history>>

\* The CRDs of the other kinds refuse to change the identifying fields.
UserEdits(s) ==
    /\ Edit
    /\ "replaces" \in kind
    /\ Exists(cr) /\ ~cr.deleting
    /\ s # cr.spec
    /\ cr' = Write([cr EXCEPT !.spec = s])
    /\ UNCHANGED <<kind, stale, cache, queued, worker, aiven, faults, history>>

\* Something else in the object changes: a label, a part of the spec that does
\* not identify the entry.
UserTouches ==
    /\ Edit
    /\ Exists(cr) /\ ~cr.deleting
    /\ cr' = Write(cr)
    /\ UNCHANGED <<kind, stale, cache, queued, worker, aiven, faults, history>>

UserDeletes ==
    /\ Edit
    /\ Exists(cr) /\ ~cr.deleting
    /\ cr' = IF cr.finalizer THEN Write([cr EXCEPT !.deleting = TRUE]) ELSE NoObject
    /\ UNCHANGED <<kind, stale, cache, queued, worker, aiven, faults, history>>

OthersAdd(s) ==
    /\ Edit
    /\ "unique" \in kind => Matching(s) = {}
    /\ lastId' = NewId
    /\ entries' = entries \cup {[id |-> lastId', spec |-> s, deleting |-> FALSE]}
    /\ meddled' = meddled \cup {"add"}
    /\ UNCHANGED <<kind, stale, cr, cache, queued, worker, faults, mine, unsaved, troubled>>

OthersRemove ==
    /\ Edit
    /\ \E e \in entries : entries' = entries \ {e}
    /\ meddled' = meddled \cup {"remove"}
    /\ UNCHANGED <<kind, stale, cr, cache, queued, worker, lastId, faults, mine, unsaved, troubled>>

----------------------------------------------------------------------------
Reconcile == \/ Begin \/ EnsureFinalizer \/ Observe \/ RemoveOld \/ Add
             \/ PersistStatus \/ Delete \/ RemoveFinalizer

Others == \/ \E s \in Specs : UserCreates(s) \/ UserEdits(s) \/ OthersAdd(s)
          \/ UserTouches \/ UserDeletes \/ OthersRemove

Next == Reconcile \/ Crash \/ SyncCache \/ AivenProgress \/ Others

Spec == Init /\ [][Next]_vars

\* The worker runs while its key is queued, watches deliver, Aiven finishes.
FairSpec == Spec /\ WF_vars(Reconcile) /\ WF_vars(SyncCache) /\ WF_vars(AivenProgress)

----------------------------------------------------------------------------
(* Properties                                                              *)

TypeOK ==
    /\ kind \in Kinds
    /\ cr \in Objects /\ cache \in Objects /\ obj \in Objects
    /\ queued \in BOOLEAN
    /\ pc \in {"idle", "finalizer", "observe", "remove", "add", "status", "delete", "unfinalize"}
    /\ entries \subseteq Entries /\ lastId \in Nat
    /\ {edits, faults, stale} \subseteq Nat
    /\ mine \subseteq 1 .. lastId /\ unsaved \subseteq mine
    /\ troubled \in BOOLEAN /\ meddled \subseteq {"add", "remove"}

\* What the operator made and Aiven still has.
MineInUse == {e \in InUse : e.id \in mine}

\* Deleting an object deletes what was made for it.  Only an entry whose ID was
\* never saved may stay, for any kind that deletes by ID; an ACL that was
\* replaced may also be one saved earlier, once any was not saved at once; and
\* nobody vouches for entries another client has doubled.
LeavesNothing ==
    ~Exists(cr) /\ pc = "idle" /\ "add" \notin meddled =>
        \/ IDsOf(MineInUse) \subseteq unsaved
        \/ "replaces" \in kind /\ troubled

\* A kind that looks its entry up makes no second one, whatever answers and
\* status writes were lost and however old the copy was that it started from.
\* (A kind that asks for the ID it knows does not look, when that is gone, for
\* the entry it may have made in its place.)
NoDuplicates ==
    /\ "looksUp" \in kind
    /\ "add" \notin meddled
    /\ "byID" \in kind => "remove" \notin meddled
    => \A e, f \in MineInUse : e.spec = f.spec => e = f

\* The saved ID names an entry with the content of the object, never that of
\* an earlier incarnation.  (KafkaACL may be between two contents.)
SavedIsRight ==
    Exists(cr) /\ "replaces" \notin kind =>
        \A e \in WithID(cr.id) : e.spec = cr.spec

\* Nothing more to do: no object; or the saved ID names an entry in use with
\* its content.
Settled ==
    \/ ~Exists(cr)
    \/ ~cr.deleting /\ \E e \in WithID(cr.id) : e.spec = cr.spec /\ ~e.deleting

\* A VPC's ID is kept when its entry is gone, and asked for again: if the next
\* ID is not saved, the VPC made in its place is never adopted.
KeepsDanglingID == {"byID", "unique"} \subseteq kind /\ "forgets" \notin kind

\* Once left alone, every object settles, whatever was lost before.
Settles == <>[](~Settled => KeepsDanglingID /\ "remove" \in meddled)
=============================================================================

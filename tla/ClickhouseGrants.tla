-------------------------- MODULE ClickhouseGrants --------------------------
(***************************************************************************)
(* The ClickhouseGrant objects of one ClickHouse service, reconciled by    *)
(* controllers/clickhousegrant_controller.go: what each of them lists is   *)
(* granted and revoked one statement at a time, in a service that they     *)
(* share and that is never read back.  All the operator knows of the past  *)
(* is the list it saved in status.state.                                   *)
(*                                                                         *)
(* The reconciler around it is ManagedReconciler's; kept here is what      *)
(* grants depend on: one worker for all objects, a cache fed by one watch  *)
(* (so it lags, but shows the objects as of one moment), writes refused    *)
(* when the copy is not current, and the status and the annotation saved   *)
(* one after the other.  The finalizer is there from the start: nothing is *)
(* granted without it.  A grant is a member of Privileges, whoever         *)
(* receives it; the order of the statements is left open.                  *)
(***************************************************************************)
EXTENDS Naturals, FiniteSets

CONSTANTS
    Objects,      \* the names of the ClickhouseGrant objects
    NoOne,        \* no name
    Privileges,   \* what can be granted: a privilege or role, to a grantee
    Lists,        \* the lists of grants users can put in .spec
    MaxEdits,     \* bound on the steps of users
    MaxFaults     \* bound on failed calls and on crashes of the operator

ASSUME NoOneAssumption == NoOne \notin Objects
ASSUME ListsAssumption == Lists \subseteq SUBSET Privileges
ASSUME BoundAssumption == MaxEdits \in Nat /\ MaxFaults \in Nat

VARIABLES
    crs,        \* the objects in the API server
    cache,      \* the informer's copies of them
    queued,     \* the names in the workqueue
    pc,         \* where the worker is
    me,         \* the object it works on
    obj,        \* the copy it read, with the status it has computed
    held,       \* the privileges granted in ClickHouse
    there,      \* those whose grantee and database exist
    edits,      \* steps of users so far
    faults,     \* failed calls and crashes so far
    contested,  \* history: listed by two objects, or meddled with in ClickHouse
    unrecorded, \* history: granted by a pass whose status was not saved, or
                \* recorded but no longer listed when the object was deleted
    replayed    \* history: revoked by a pass on an outdated copy, to be granted again

worker  == <<pc, me, obj>>
history == <<contested, unrecorded, replayed>>
vars    == <<crs, cache, queued, pc, me, obj, held, there, edits, faults, history>>

----------------------------------------------------------------------------
(* Values.  Uid 0 is no object; processed 0 is no processedGeneration.     *)

Records == [uid: Nat, rv: Nat, gen: Nat, spec: SUBSET Privileges, deleting: BOOLEAN,
            state: SUBSET Privileges, processed: Nat]
Fresh(uid, list) == [uid |-> uid, rv |-> 1, gen |-> 1, spec |-> list, deleting |-> FALSE,
                     state |-> {}, processed |-> 0]
NoObject  == Fresh(0, {})
Exists(o) == o.uid # 0

hasLatestGeneration(o) == o.processed = o.gen
wasEverApplied(o)      == o.processed # 0

IsCurrent(o) == Exists(o) /\ o.uid = crs[me].uid /\ o.rv = crs[me].rv
Write(o)     == [o EXCEPT !.rv = @ + 1]
Regenerate(o) == [o EXCEPT !.rv = @ + 1, !.gen = @ + 1]

\* What the operator has granted or will revoke on account of an object.
Listed(o)      == o.spec \cup o.state
ListedBut(g)   == UNION {Listed(crs[h]) : h \in Objects \ {g}}
AllListed      == UNION {Listed(crs[h]) : h \in Objects}

Init ==
    /\ crs = [g \in Objects |-> NoObject]
    /\ cache = crs
    /\ queued = {}
    /\ pc = "idle"
    /\ me = NoOne
    /\ obj = NoObject
    /\ held = {}
    /\ there = Privileges
    /\ edits = 0
    /\ faults = 0
    /\ contested = {}
    /\ unrecorded = {}
    /\ replayed = {}

----------------------------------------------------------------------------
(* The worker                                                              *)

Fault ==
    /\ faults < MaxFaults
    /\ faults' = faults + 1

\* Mutant: the requeue is lost.
ReturnOnly(requeue) ==
    /\ pc' = "idle"
    /\ me' = NoOne
    /\ obj' = NoObject
    /\ UNCHANGED queued

\* Reconcile returns; an error, a precondition or a poll requeues the object.
Return(requeue) ==
    /\ pc' = "idle"
    /\ me' = NoOne
    /\ obj' = NoObject
    /\ queued' = IF requeue THEN queued \cup {me} ELSE queued

Goto(p, o) ==
    /\ pc' = p
    /\ obj' = o
    /\ UNCHANGED <<me, queued>>

Begin(g) ==
    /\ pc = "idle"
    /\ g \in queued
    /\ queued' = queued \ {g}
    /\ IF Exists(cache[g])
       THEN /\ pc' = IF cache[g].deleting THEN "delete" ELSE "observe"
            /\ me' = g
            /\ obj' = cache[g]
       ELSE UNCHANGED worker
    /\ UNCHANGED <<crs, cache, held, there, edits, faults, history>>

\* checkPreconditions: every grantee and every database of the spec is there.
checkPreconditions(o) == o.spec \subseteq there

\* An object processed at its generation is up to date: ClickHouse is not asked.
Observe ==
    /\ pc = "observe"
    /\ \/ /\ wasEverApplied(obj)
          /\ hasLatestGeneration(obj)
          /\ Return(TRUE)
          /\ UNCHANGED faults
       \/ /\ ~hasLatestGeneration(obj)
          /\ IF checkPreconditions(obj) THEN Goto("revoke", obj) ELSE Return(TRUE)
          /\ UNCHANGED faults
       \/ Fault /\ Return(TRUE)
    /\ UNCHANGED <<crs, cache, held, there, edits, history>>

\* executeStatements revokes the privileges of list, or fails for some of them;
\* that a grantee or a database is gone is no failure.
Revoke(list) ==
    \E done \in SUBSET list :
        /\ held' = held \ done
        /\ unrecorded' = unrecorded \ done
        /\ replayed' = IF IsCurrent(obj) THEN replayed ELSE replayed \cup done
        /\ done # list => Fault
        /\ done = list => UNCHANGED faults

\* Mutant: what is listed now is revoked, not what was applied before.
RevokeListed ==
    /\ pc = "revoke"
    /\ Revoke(obj.spec)
    /\ IF held' = held \ obj.spec THEN Goto("grant", obj) ELSE Return(TRUE)
    /\ UNCHANGED <<crs, cache, there, edits, contested>>

\* applyGrants, first half: revoke what the status says was granted.
RevokeState ==
    /\ pc = "revoke"
    /\ Revoke(obj.state)
    /\ IF faults' = faults THEN Goto("grant", obj) ELSE Return(TRUE)
    /\ UNCHANGED <<crs, cache, there, edits, contested>>

\* Mutant: the generation before the last one is recorded.
AppliedBefore(o) == [o EXCEPT !.state = o.spec, !.processed = o.gen - 2]

\* The status and the annotation after a success.
Applied(o) == [o EXCEPT !.state = o.spec, !.processed = o.gen]

\* Mutant: some statements may fail unnoticed.
GrantAtBest ==
    /\ pc = "grant"
    /\ \E done \in SUBSET obj.spec :
          /\ held' = held \cup done
          /\ unrecorded' = unrecorded \cup done
          /\ replayed' = replayed \ done
    /\ Goto("status", Applied(obj))
    /\ UNCHANGED <<crs, cache, faults, there, edits, contested>>

\* applyGrants, second half: grantSpecGrants executes every statement, and one
\* failure fails the pass, whose other statements stand.
Grant ==
    /\ pc = "grant"
    /\ \E done \in SUBSET obj.spec :
          /\ held' = held \cup done
          /\ unrecorded' = unrecorded \cup done
          /\ replayed' = replayed \ done
          /\ IF done = obj.spec
             THEN /\ Goto("status", Applied(obj))
                  /\ UNCHANGED faults
             ELSE /\ IF checkPreconditions(obj) THEN Fault ELSE UNCHANGED faults
                  /\ Return(TRUE)
    /\ UNCHANGED <<crs, cache, there, edits, contested>>

\* persistReconcileState, first half.
PersistStatus ==
    /\ pc = "status"
    /\ \/ /\ IsCurrent(obj)
          /\ crs' = [crs EXCEPT ![me] = Write([@ EXCEPT !.state = obj.state])]
          /\ Goto("annotate", [obj EXCEPT !.rv = crs'[me].rv])
          /\ unrecorded' = unrecorded \ obj.state
          /\ UNCHANGED faults
       \/ ~IsCurrent(obj) /\ Return(TRUE) /\ UNCHANGED <<crs, unrecorded, faults>>
       \/ Fault /\ Return(TRUE) /\ UNCHANGED <<crs, unrecorded>>
    /\ UNCHANGED <<cache, held, there, edits, contested, replayed>>

\* persistReconcileState, second half.
Annotate ==
    /\ pc = "annotate"
    /\ \/ /\ IsCurrent(obj)
          /\ crs' = [crs EXCEPT ![me] = Write([@ EXCEPT !.processed = obj.processed])]
          /\ UNCHANGED faults
       \/ ~IsCurrent(obj) /\ UNCHANGED <<crs, faults>>
       \/ Fault /\ UNCHANGED crs
    /\ Return(TRUE)
    /\ UNCHANGED <<cache, held, there, edits, history>>

\* Delete revokes what the spec lists; removeFinalizer then lets the object go.
Delete ==
    /\ pc = "delete"
    /\ Revoke(obj.spec)
    /\ IF faults' = faults THEN Goto("unfinalize", obj) ELSE Return(TRUE)
    /\ UNCHANGED <<crs, cache, there, edits, contested>>

\* removeFinalizer: on the object as the cache has it by now; a new incarnation,
\* which no pass has looked at yet, is left as it is.
RemoveFinalizer ==
    LET current == cache[me] = crs[me]
    IN /\ pc = "unfinalize"
       /\ \/ /\ current
             /\ IF crs[me].deleting
                THEN /\ crs' = [crs EXCEPT ![me] = NoObject]
                     /\ unrecorded' = unrecorded \cup (held \cap (crs[me].state \ crs[me].spec))
                ELSE UNCHANGED <<crs, unrecorded>>
             /\ Return(FALSE)
             /\ UNCHANGED faults
          \/ /\ ~current
             /\ Return(Exists(cache[me]))
             /\ UNCHANGED <<crs, unrecorded, faults>>
          \/ Fault /\ Return(TRUE) /\ UNCHANGED <<crs, unrecorded>>
       /\ UNCHANGED <<cache, held, there, edits, contested, replayed>>

\* The manager stops and starts again, and lists every object.
Crash ==
    /\ Fault
    /\ pc' = "idle"
    /\ me' = NoOne
    /\ obj' = NoObject
    /\ cache' = crs
    /\ queued' = {g \in Objects : Exists(crs[g])}
    /\ UNCHANGED <<crs, held, there, edits, history>>

----------------------------------------------------------------------------
(* The cluster, its users and ClickHouse                                   *)

\* Watch events reach the informer, which enqueues what they are about.
SyncCache ==
    /\ cache # crs
    /\ cache' = crs
    /\ queued' = queued \cup {g \in Objects : cache[g] # crs[g]}
    /\ UNCHANGED <<crs, worker, held, there, edits, faults, history>>

Edit ==
    /\ edits < MaxEdits
    /\ edits' = edits + 1

UserCreates(g, list) ==
    /\ Edit
    /\ ~Exists(crs[g])
    /\ crs' = [crs EXCEPT ![g] = Fresh(edits', list)]
    /\ contested' = contested \cup (list \cap (ListedBut(g) \cup Listed(obj)))
    /\ UNCHANGED <<cache, queued, worker, held, there, faults, unrecorded, replayed>>

UserEdits(g, list) ==
    /\ Edit
    /\ Exists(crs[g]) /\ ~crs[g].deleting
    /\ list # crs[g].spec
    /\ crs' = [crs EXCEPT ![g] = Regenerate([@ EXCEPT !.spec = list])]
    /\ contested' = contested \cup
           (list \cap (ListedBut(g) \cup (IF me = g THEN {} ELSE Listed(obj))))
    /\ UNCHANGED <<cache, queued, worker, held, there, faults, unrecorded, replayed>>

UserDeletes(g) ==
    /\ Edit
    /\ Exists(crs[g]) /\ ~crs[g].deleting
    /\ crs' = [crs EXCEPT ![g] = Regenerate([@ EXCEPT !.deleting = TRUE])]
    /\ UNCHANGED <<cache, queued, worker, held, there, faults, history>>

\* A grantee is dropped, with its grants, or a database, without them.
Drop(p) ==
    /\ Edit
    /\ p \in there
    /\ there' = there \ {p}
    /\ held' \in {held, held \ {p}}
    /\ contested' = contested \cup {p}
    /\ UNCHANGED <<crs, cache, queued, worker, faults, unrecorded, replayed>>

\* It is created (again).
Appear(p) ==
    /\ p \notin there
    /\ there' = there \cup {p}
    /\ UNCHANGED <<crs, cache, queued, worker, held, edits, faults, history>>

----------------------------------------------------------------------------
Reconcile == \/ \E g \in Objects : Begin(g)
             \/ Observe \/ RevokeState \/ Grant \/ PersistStatus \/ Annotate
             \/ Delete \/ RemoveFinalizer

Users == \/ \E g \in Objects, list \in Lists : UserCreates(g, list) \/ UserEdits(g, list)
         \/ \E g \in Objects : UserDeletes(g)
         \/ \E p \in Privileges : Drop(p) \/ Appear(p)

Next == Reconcile \/ Crash \/ SyncCache \/ Users

Spec == Init /\ [][Next]_vars

\* The worker takes every queued object in turn, and watches deliver.
Fairness == /\ WF_vars(Reconcile)
            /\ \A g \in Objects : SF_vars(Begin(g))
            /\ WF_vars(SyncCache)

FairSpec == Spec /\ Fairness

----------------------------------------------------------------------------
(* Properties                                                              *)

TypeOK ==
    /\ crs \in [Objects -> Records] /\ cache \in [Objects -> Records]
    /\ queued \subseteq Objects /\ me \in Objects \cup {NoOne} /\ obj \in Records
    /\ pc \in {"idle", "observe", "revoke", "grant", "status", "annotate", "delete", "unfinalize"}
    /\ held \subseteq Privileges /\ there \subseteq Privileges
    /\ contested \subseteq Privileges /\ unrecorded \subseteq Privileges
    /\ replayed \subseteq Privileges
    /\ edits \in Nat /\ faults \in Nat

Ready(o) == Exists(o) /\ ~o.deleting /\ hasLatestGeneration(o)

\* Applications start when their ClickhouseGrant is ready: it then holds all it
\* lists, whatever failed before.  Excepted is what another object lists as well
\* or somebody meddled with, and what a pass that read the object before it was
\* annotated has revoked (for good, if granting it again fails: the next pass
\* finds the object up to date).
ReadyIsGranted ==
    \A g \in Objects :
        Ready(crs[g]) => crs[g].spec \subseteq held \cup contested \cup replayed

\* "Privileges not in the manifest are revoked": for all that is granted some
\* object answers, in its spec or its status, unless the pass that granted it
\* could not save its status or the object was deleted before an edit was
\* applied.  No other order of edits, deletions and retries leaves any behind.
GrantsAreRecorded ==
    held \subseteq AllListed \cup unrecorded

\* The same sentence with nothing excepted.
ManifestIsComplete ==
    (\A g \in Objects : Exists(crs[g]) => Ready(crs[g]))
        => held \subseteq UNION {crs[g].spec : g \in Objects}

\* Once what they list exists, all objects become ready or go away.
Settles ==
    <>[](there = Privileges) => <>[](\A g \in Objects : Exists(crs[g]) => Ready(crs[g]))
=============================================================================

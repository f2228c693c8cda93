--------------------------- MODULE ConditionsPass ---------------------------
(***************************************************************************)
(* The life of one resource's conditions across reconcile passes: what a   *)
(* controller loads, stages, ends and writes back, interleaved with writes *)
(* of other clients, failures of any call and crashes of the controller.   *)
(* The shape is common to the controllers that stage conditions (migplan,  *)
(* migmigration, migcluster, migstorage, mighook, miganalytic, dvmp); the  *)
(* steps are mapped to migmigration, and to migplan where only a plan has  *)
(* them (closing).                                                         *)
(***************************************************************************)
EXTENDS Conditions, Naturals

CONSTANTS
    Catalog,       \* the conditions the controller may set
    ClosedDrops,   \* the types a plan deletes when it is closed
    MaxFaults      \* bound on failures, crashes and foreign writes

\* Ready, ReconcileFailed and Closed are only set by the steps of their name.
ASSUME CatalogAssumption ==
    /\ \A c \in Catalog :
          /\ c = Cond(c.type, c.category, c.durable)
          /\ c.category \in Categories
          /\ c.durable \in BOOLEAN
          /\ c.type \notin {"Ready", "ReconcileFailed", "Closed"}
    /\ ClosedDrops \subseteq TypesOf(Catalog)
    /\ MaxFaults \in Nat

ClosedCondition == Cond("Closed", Advisory, FALSE)

Conds == Catalog \cup {ReadyCondition, ReconcileFailedCondition, ClosedCondition}
Types == TypesOf(Conds)

VARIABLES
    stored,   \* the conditions on the API server
    mem,      \* the collection the pass works on
    pc,       \* where the pass is
    stale,    \* the resource was written by someone else since the Get
    faults,   \* failures so far
    touched,  \* types set or re-staged by this pass and not deleted since
    deleted,  \* types deleted by this pass and not set since
    early     \* this pass failed before it began staging

vars == <<stored, mem, pc, stale, faults, touched, deleted, early>>

PCs == {"idle", "loaded", "closing", "staging", "ended", "failed"}

TypeOK ==
    /\ stored \subseteq Conds
    /\ mem \in Collections(Conds)
    /\ pc \in PCs
    /\ stale \in BOOLEAN
    /\ faults \in 0..MaxFaults
    /\ touched \subseteq Types
    /\ deleted \subseteq Types
    /\ early \in BOOLEAN

Init ==
    /\ stored = {}
    /\ mem = Loaded({})
    /\ pc = "idle"
    /\ stale = FALSE
    /\ faults = 0
    /\ touched = {}
    /\ deleted = {}
    /\ early = FALSE

Fault == faults < MaxFaults /\ faults' = faults + 1

\* The pass is over and forgets everything it had in memory.
Leave ==
    /\ pc' = "idle"
    /\ mem' = Loaded({})
    /\ stale' = FALSE
    /\ touched' = {}
    /\ deleted' = {}
    /\ early' = FALSE

-----------------------------------------------------------------------------
(* The pass *)

Get ==
    /\ pc = "idle"
    /\ pc' = "loaded"
    /\ mem' = Loaded(stored)
    /\ UNCHANGED <<stored, stale, faults, touched, deleted, early>>

BeginStaging ==
    /\ pc = "loaded"
    /\ pc' = "staging"
    /\ mem' = BeginStagingConditions(mem)
    /\ UNCHANGED <<stored, stale, faults, touched, deleted, early>>

Set(c) ==
    /\ pc = "staging"
    /\ mem' = SetCondition(mem, c)
    /\ touched' = touched \cup {c.type}
    /\ deleted' = deleted \ {c.type}
    /\ UNCHANGED <<stored, pc, stale, faults, early>>

Stage(t) ==
    /\ pc = "staging"
    /\ t \in TypesOf(mem.list)
    /\ mem' = StageCondition(mem, {t})
    /\ touched' = touched \cup {t}
    /\ deleted' = deleted \ {t}
    /\ UNCHANGED <<stored, pc, stale, faults, early>>

Delete(t) ==
    /\ pc = "staging"
    /\ mem' = DeleteCondition(mem, {t})
    /\ touched' = touched \ {t}
    /\ deleted' = deleted \cup {t}
    /\ UNCHANGED <<stored, pc, stale, faults, early>>

\* `wanted' stands for what the controller asks of a ready resource besides
\* the absence of blockers: not completed, storage ensured, PVs discovered.
Finish(wanted) ==
    /\ pc = "staging"
    /\ pc' = "ended"
    /\ mem' = EndStagingConditions(
                  SetReady(mem, wanted /\ ~HasBlockerCondition(mem)))
    /\ UNCHANGED <<stored, stale, faults, touched, deleted, early>>

\* The write succeeds unless the resource changed since it was read.
Update ==
    /\ pc \in {"ended", "failed"}
    /\ stored' = IF stale THEN stored ELSE mem.list
    /\ Leave
    /\ UNCHANGED faults

-----------------------------------------------------------------------------
(* Closing a plan, done before any staging *)

CloseStart ==
    /\ pc = "loaded"
    /\ ~HasCondition(mem, "Closed")
    /\ ~stale
    /\ pc' = "closing"
    /\ mem' = SetReady(mem, FALSE)
    /\ stored' = mem'.list
    /\ UNCHANGED <<stale, faults, touched, deleted, early>>

CloseDone ==
    /\ pc = "closing"
    /\ ~stale
    /\ stored' = SetCondition(DeleteCondition(mem, ClosedDrops),
                              ClosedCondition).list
    /\ Leave
    /\ UNCHANGED faults

\* Either write meets a newer version of the plan: the pass ends.
CloseConflict ==
    /\ pc = "closing" \/ (pc = "loaded" /\ ~HasCondition(mem, "Closed"))
    /\ stale
    /\ Leave
    /\ UNCHANGED <<stored, faults>>

-----------------------------------------------------------------------------
(* What goes wrong *)

\* A call of the pass fails with an error that is not a conflict: the
\* deferred handler replaces what was staged and will write the resource.
Fail ==
    /\ pc \in {"loaded", "closing", "staging", "ended"}
    /\ Fault
    /\ pc' = "failed"
    /\ early' = (pc \in {"loaded", "closing"})
    /\ mem' = SetReconcileFailed(mem)
    /\ UNCHANGED <<stored, stale, touched, deleted>>

\* The write is applied but its answer is lost, so the pass fails and its
\* second write meets a newer resource version.
UpdateAnswerLost ==
    /\ pc = "ended"
    /\ ~stale
    /\ Fault
    /\ stored' = mem.list
    /\ stale' = TRUE
    /\ pc' = "failed"
    /\ mem' = SetReconcileFailed(mem)
    /\ UNCHANGED <<touched, deleted, early>>

\* A conflict, a crash of the controller or a failed write: nothing is saved.
Abandon ==
    /\ pc # "idle"
    /\ Fault
    /\ Leave
    /\ UNCHANGED stored

\* A user edits the spec or a label while the pass runs.
ForeignEdit ==
    /\ pc # "idle"
    /\ ~stale
    /\ Fault
    /\ stale' = TRUE
    /\ UNCHANGED <<stored, mem, pc, touched, deleted, early>>

\* Another resource's reconcile deletes a condition of this one: the removal
\* of a final migration clears HasFinalMigration on the others.
ForeignDelete(t) ==
    /\ pc = "idle"
    /\ t \in TypesOf(stored)
    /\ Fault
    /\ stored' = DeleteCondition(Loaded(stored), {t}).list
    /\ UNCHANGED <<mem, pc, stale, touched, deleted, early>>

-----------------------------------------------------------------------------
Pass ==
    \/ Get
    \/ BeginStaging
    \/ \E c \in Catalog : Set(c)
    \/ \E t \in TypesOf(Catalog) : Stage(t) \/ Delete(t)
    \/ \E wanted \in BOOLEAN : Finish(wanted)
    \/ Update
    \/ CloseStart
    \/ CloseDone
    \/ CloseConflict

Environment ==
    \/ Fail
    \/ UpdateAnswerLost
    \/ Abandon
    \/ ForeignEdit
    \/ \E t \in TypesOf(Catalog) : ForeignDelete(t)

Next == Pass \/ Environment

Spec == Init /\ [][Next]_vars

-----------------------------------------------------------------------------
(* Properties *)

\* A resource is never stored Ready together with a condition that blocks
\* it, whichever of the pass's writes (SetReady, SetReconcileFailed, closing)
\* stored it and whatever failed in between.
ReadyExcludesBlockers ==
    "Ready" \in TypesOf(stored) =>
        \A c \in stored : c.category \notin {Critical, Error}

\* A pass that began staging never loses a durable condition it did not
\* delete itself, even when it fails, loses the answer of its write or is
\* retried over a resource someone else has written.
DurableKeptByStagedPass ==
    [][\A c \in stored :
          c.durable /\ c.type \notin TypesOf(stored') =>
              \/ pc = "idle"
              \/ pc = "closing" /\ c.type \in ClosedDrops
              \/ c.type \in deleted
              \/ early]_vars

\* A condition that is neither durable nor set or re-staged by the pass is
\* gone once the pass has written the resource.
UnstagedDisappears ==
    [][pc = "ended" /\ stored' # stored =>
          \A c \in stored' :
              \/ c.durable
              \/ c.type \in touched
              \/ c = ReadyCondition]_vars

\* docs/devguide.md:176-177: a durable condition is never un-staged, it must
\* be explicitly deleted using DeleteCondition().  The code breaks it when a
\* pass fails before it begins staging: SetReconcileFailed then ends a
\* staging that was never begun.
DurableOnlyDeleted ==
    [][\A c \in stored :
          c.durable /\ c.type \notin TypesOf(stored') =>
              \/ pc = "idle"
              \/ pc = "closing" /\ c.type \in ClosedDrops
              \/ c.type \in deleted]_vars
=============================================================================

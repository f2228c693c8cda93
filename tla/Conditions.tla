----------------------------- MODULE Conditions -----------------------------
(***************************************************************************)
(* The managed collection of status conditions every custom resource of    *)
(* the controller carries (pkg/apis/migration/v1alpha1/condition.go), as   *)
(* pure operators.                                                         *)
(*                                                                         *)
(* A condition is a record [type, category, durable].  Its status is       *)
(* always True here: the two places that store a False status are          *)
(* informational conditions nothing reads.  Reason, message, items and     *)
(* timestamps are left out.                                                *)
(*                                                                         *)
(* The collection is [list, staged, staging].  The list is kept as a set   *)
(* because SetCondition never stores a type twice and no method depends on *)
(* the order; `staged' is the set of types whose private staged flag is    *)
(* up.  Neither `staged' nor `staging' is serialised, so a collection read *)
(* back from the API server has both cleared.                              *)
(***************************************************************************)

Critical == "Critical"
Error    == "Error"
Warn     == "Warn"
Required == "Required"
Advisory == "Advisory"

Categories == {Critical, Error, Warn, Required, Advisory}

TypesOf(list) == {c.type : c \in list}

Cond(type, category, durable) ==
    [type |-> type, category |-> category, durable |-> durable]

ReadyCondition           == Cond("Ready", Required, FALSE)
ReconcileFailedCondition == Cond("ReconcileFailed", Critical, FALSE)

\* What a client.Get leaves in memory.
Loaded(list) == [list |-> list, staged |-> {}, staging |-> FALSE]

BeginStagingKeepsAll(r) ==   \* mutant: nothing is un-staged
    [r EXCEPT !.staging = TRUE, !.staged = TypesOf(r.list)]

BeginStagingDropsAll(r) ==   \* mutant: durability is forgotten
    [r EXCEPT !.staging = TRUE, !.staged = {}]

BeginStagingConditions(r) ==
    [r EXCEPT !.staging = TRUE,
              !.staged  = {c.type : c \in {d \in r.list : d.durable}}]

EndStagingConditions(r) ==
    [r EXCEPT !.staging = FALSE,
              !.list    = {c \in r.list : c.type \in r.staged}]

SetCondition(r, c) ==
    [r EXCEPT !.list   = {d \in r.list : d.type # c.type} \cup {c},
              !.staged = @ \cup {c.type}]

StageCondition(r, types) ==
    [r EXCEPT !.staged = @ \cup (types \cap TypesOf(r.list))]

\* While staging the conditions are only un-staged; EndStaging removes them.
DeleteCondition(r, types) ==
    [r EXCEPT !.staged = @ \ types,
              !.list   = IF r.staging THEN @ ELSE {c \in @ : c.type \notin types}]

\* The conditions the search methods that honour staging can see.
Visible(r) == {c \in r.list : r.staging => c.type \in r.staged}

HasCondition(r, type)        == type \in TypesOf(Visible(r))
HasAnyCondition(r, types)    == types \cap TypesOf(Visible(r)) # {}
HasConditionCategory(r, cat) == \E c \in Visible(r) : c.category \in cat
HasBlockerCondition(r)       == HasConditionCategory(r, {Critical, Error})
IsReady(r)                   == HasCondition(r, "Ready")

\* Looks at every condition, the un-staged ones too.
FindConditionByCategory(r, cat) == {c \in r.list : c.category = cat}

SetReadyForGood(r, ready) ==   \* mutant: Ready is made durable
    IF ready THEN SetCondition(r, Cond("Ready", Required, TRUE))
             ELSE DeleteCondition(r, {"Ready"})

SetReady(r, ready) ==
    IF ready THEN SetCondition(r, ReadyCondition)
             ELSE DeleteCondition(r, {"Ready"})

SetReconcileFailedReady(r) ==   \* mutant: Ready survives
    EndStagingConditions(SetCondition(r, ReconcileFailedCondition))

SetReconcileFailed(r) ==
    EndStagingConditions(
        SetCondition(DeleteCondition(r, {"Ready"}), ReconcileFailedCondition))

\* The collections a program can hold over a catalogue of conditions.
Collections(catalogue) ==
    [list : SUBSET catalogue, staged : SUBSET TypesOf(catalogue), staging : BOOLEAN]
=============================================================================

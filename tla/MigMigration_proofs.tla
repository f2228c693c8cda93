------------------------- MODULE MigMigration_proofs -------------------------
EXTENDS MigMigration, Itineraries_proofs, FiniteSetTheorems

AllConds == MigrationConditions \cup {Rejected}

UniqueTypes(list) == \A c, d \in list : c.type = d.type => c = d

Successes == {"Succeeded", "SucceededWithWarnings"}
CancelTypes == {"Canceling", "Canceled"}

-----------------------------------------------------------------------------
(* The invariant: what a status says, on the server or about to be written. *)
(* `status' has the phase, the itinerary and the errors, `list' the         *)
(* conditions.                                                              *)

\* Exactly one verdict, and only at the end.
OneEnd(status, list) ==
    /\ status.phase = "Completed" =>
          /\ \E v \in Verdicts :
                /\ v \in TypesOf(list)
                /\ \A u \in Verdicts : u \in TypesOf(list) => u = v
          /\ "Running" \notin TypesOf(list)
    /\ \A v \in Successes : v \in TypesOf(list) => status.phase = "Completed"
    /\ Rejected \in list => status.phase = "Completed"

WarningsTold(list) ==
    /\ "SucceededWithWarnings" \in TypesOf(list) => \E c \in list : c.category = Warn
    /\ "Succeeded" \in TypesOf(list) => \A c \in list : c.category # Warn

\* The condition Failed is the record of the errors; only a pass that fails
\* before it reads the conditions loses it.
FailureTold(status, list) ==
    /\ "Failed" \in TypesOf(list) => status.errors
    /\ status.errors /\ "early" \notin FaultKinds => "Failed" \in TypesOf(list)

\* A warning that lasts one pass is not there when the verdict is found, unless
\* this very pass saw it.
BlockedTold(status, list) ==
    "Blocked" \in TypesOf(list) =>
        \/ status.phase = "Completed"
        \/ status.phase \in VolumeWaits /\ ~status.errors

\* Without warnings by a handler only stage migrations have any.
Unwarned(m, list) ==
    "warn" \notin FaultKinds /\ ~SpecOf[m].stage => \A c \in list : c.category # Warn

\* The phase is one of the itinerary, and only the end belongs to Failed.
OnItinerary(status) ==
    /\ status.phase = "unset" => status.itinerary = "unset"
    /\ status.phase \notin {"unset", "Completed"} =>
          /\ status.itinerary \in ItineraryNames \ {"Failed"}
          /\ status.errors \/ status.phase \in PhasesOf(ItineraryNamed(status.itinerary))

CancelTold(status, list) ==
    /\ CancelTypes \cap TypesOf(list) # {} => status.canceled
    /\ status.itinerary = "Cancel" => status.canceled

Told(m, status, list) ==
    /\ UniqueTypes(list)
    /\ OneEnd(status, list)
    /\ WarningsTold(list)
    /\ FailureTold(status, list)
    /\ BlockedTold(status, list)
    /\ Unwarned(m, list)
    /\ OnItinerary(status)
    /\ CancelTold(status, list)

AllTold == \A m \in Migrations : Told(m, cr[m], cr[m].conds)

Begun(m) == cr[m].phase # "unset" => Created(m)

\* What the pass is about to write of a migration that is not over.
Writing ==
    pass # NoPass =>
        /\ pass.on \in Pending
        /\ Told(pass.on, pass.status, pass.conds.list)
        /\ ~pass.conds.staging
        /\ \A c \in pass.conds.list : c.type \in pass.conds.staged
        /\ pass.status.stamp = cr[pass.on].stamp
        /\ pass.status.canceled => cr[pass.on].canceled
        /\ cr[pass.on].errors => pass.status.errors
        /\ pass.status.phase = "unset" => cr[pass.on].phase = "unset"
        /\ pass.status.phase = "Completed" =>
              cr[pass.on].phase # "unset" \/ pass.status.errors

IInv ==
    /\ TypeOK
    /\ AllTold
    /\ \A m \in Migrations : Begun(m)
    /\ Writing

\* Final migrations

Undone == \E r \in Migrations : SpecOf[r].rollback /\ Has(r, "Succeeded")

Good(m) == Final(m) /\ Completed(m) /\ ~cr[m].errors /\ ~cr[m].canceled

NoSecondInv ==
    "warn" \notin FaultKinds =>
        /\ \A m, n \in Migrations : m # n /\ Good(m) /\ Good(n) => Undone
        /\ pass # NoPass /\ Final(pass.on) /\ pass.status.phase = "Completed"
           /\ ~pass.status.errors
           => \A n \in Migrations \ {pass.on} : Good(n) => Undone

\* Queue

Underway(status) == status.phase \notin {"unset", "Completed"}

Turns ==
    ~SameSecond /\ ~LateStages =>
        /\ \A m, n \in Migrations : Created(m) /\ Created(n) /\ m # n => cr[m].stamp # cr[n].stamp
        /\ \A m, n \in Pending : SpecOf[m].stage /\ ~SpecOf[n].stage => cr[m].stamp < cr[n].stamp
        /\ \A m \in Migrations : Underway(cr[m]) => m \in Heads
        /\ pass # NoPass /\ Underway(pass.status) => pass.on \in Heads

AtRestart(status) ==
    status.phase = "UnQuiesceSrcApplications" /\ status.itinerary = "Rollback"
        => world.dst = "none"

Restarts ==
    ~SameSecond /\ ~LateStages =>
        /\ \A m \in Migrations : AtRestart(cr[m])
        /\ pass # NoPass => AtRestart(pass.status)
-----------------------------------------------------------------------------
(* The conditions of a migration *)

\* A type names one condition of the catalogue.
LEMMA TheFacts ==
    ASSUME NEW type \in ConditionTypes
    PROVE  /\ TheCondition(type) \in MigrationConditions
           /\ TheCondition(type) \in AllConds
           /\ TheCondition(type).type = type
BY DEF ConditionTypes, TypesOf, TheCondition, AllConds

\* What the proofs need to know of the catalogue: which conditions are
\* warnings, which survive a pass that does not stage them.
LEMMA CatalogFacts ==
    /\ \A c \in AllConds :
          /\ c.type = "Failed" => c = Rejected \/ c.durable
          /\ c.type \in Successes \cup {"Failed"} => c.category # Warn
          /\ c.category = Warn <=> c.type \in {"StageNoOp", "PartialFailure", "Blocked"}
          /\ c.type \in {"StageNoOp", "PartialFailure"} => c.durable
          /\ c.type \in {"Running", "Blocked"} => ~c.durable
    /\ Rejected \in AllConds
    /\ Rejected.type = "Failed"
    /\ ~Rejected.durable
    /\ Rejected.category = Critical
BY DEF AllConds, MigrationConditions, Rejected, Cond, ReadyCondition, ReconcileFailedCondition,
       Successes, Warn, Critical, Required, Advisory

\* The condition types the controller uses, and the conditions of some.
LEMMA TypeFacts ==
    /\ {"Ready", "ReconcileFailed", "Running", "Succeeded", "SucceededWithWarnings",
        "Failed", "Canceling", "Canceled", "StagePodsCreated", "RegistriesHealthy",
        "RegistriesUnhealthy", "PlanNotReady", "HasFinalMigration", "Postponed",
        "StageNoOp", "PartialFailure", "Blocked"} \subseteq ConditionTypes
    /\ TheCondition("Ready") = ReadyCondition
    /\ TheCondition("ReconcileFailed") = ReconcileFailedCondition
    /\ TheCondition("Failed") # Rejected
    /\ TheCondition("HasFinalMigration").category = Critical
BY DEF ConditionTypes, TypesOf, TheCondition, MigrationConditions, Rejected, Cond,
       ReadyCondition, ReconcileFailedCondition, Required, Critical, Advisory, Warn

-----------------------------------------------------------------------------
(* What the methods of condition.go make of a collection *)

\* The types of a list are those of its conditions.
LEMMA TypesAre ==
    ASSUME NEW list, NEW t
    PROVE  t \in TypesOf(list) <=> \E c \in list : c.type = t
BY DEF TypesOf

\* The list of a collection is of the catalogue.
LEMMA CollectionFacts ==
    ASSUME NEW r \in Collections(AllConds)
    PROVE  r.list \in SUBSET AllConds /\ r.staging \in BOOLEAN
BY DEF Collections

\* SetCondition replaces the type in the list and stages it.
LEMMA SetFacts ==
    ASSUME NEW r \in Collections(AllConds), NEW c \in AllConds
    PROVE  /\ SetCondition(r, c) \in Collections(AllConds)
           /\ SetCondition(r, c).list = {d \in r.list : d.type # c.type} \cup {c}
           /\ SetCondition(r, c).staged = r.staged \cup {c.type}
           /\ SetCondition(r, c).staging = r.staging
BY DEF SetCondition, Collections, TypesOf

\* So does setting a condition of the catalogue by its type.
LEMMA WithFacts ==
    ASSUME NEW r \in Collections(AllConds), NEW type \in ConditionTypes
    PROVE  /\ With(r, type) \in Collections(AllConds)
           /\ With(r, type).list = {d \in r.list : d.type # type} \cup {TheCondition(type)}
           /\ With(r, type).staged = r.staged \cup {type}
           /\ With(r, type).staging = r.staging
BY SetFacts, TheFacts DEF With

\* DeleteCondition un-stages the types, and leaves the list while staging.
LEMMA DeleteFacts ==
    ASSUME NEW r \in Collections(AllConds), NEW types
    PROVE  /\ DeleteCondition(r, types) \in Collections(AllConds)
           /\ DeleteCondition(r, types).list \subseteq r.list
           /\ r.staging => DeleteCondition(r, types).list = r.list
           /\ \A c \in r.list : c \notin DeleteCondition(r, types).list => c.type \in types
           /\ DeleteCondition(r, types).staged = r.staged \ types
           /\ DeleteCondition(r, types).staging = r.staging
<1>1. CASE r.staging
  BY <1>1 DEF DeleteCondition, Collections
<1>2. CASE ~r.staging
  BY <1>2 DEF DeleteCondition, Collections
<1> QED BY <1>1, <1>2

\* StageCondition leaves the list, and stages no more than it is told.
LEMMA StageFacts ==
    ASSUME NEW r \in Collections(AllConds), NEW types
    PROVE  /\ StageCondition(r, types) \in Collections(AllConds)
           /\ StageCondition(r, types).list = r.list
           /\ StageCondition(r, types).staging = r.staging
           /\ r.staged \subseteq StageCondition(r, types).staged
           /\ StageCondition(r, types).staged \subseteq r.staged \cup types
BY DEF StageCondition, Collections, TypesOf

\* A collection read back has its list and nothing staged.
LEMMA LoadedFacts ==
    ASSUME NEW list \in SUBSET AllConds
    PROVE  /\ Loaded(list) \in Collections(AllConds)
           /\ Loaded(list).list = list
           /\ Loaded(list).staged = {}
           /\ ~Loaded(list).staging
BY DEF Loaded, Collections

\* Staging begins with the durable conditions staged.
LEMMA BeginFacts ==
    ASSUME NEW r \in Collections(AllConds)
    PROVE  /\ BeginStagingConditions(r) \in Collections(AllConds)
           /\ BeginStagingConditions(r).list = r.list
           /\ BeginStagingConditions(r).staging
           /\ \A t : t \in BeginStagingConditions(r).staged <=>
                        \E c \in r.list : c.durable /\ c.type = t
BY DEF BeginStagingConditions, Collections, TypesOf

\* The conditions a pass will keep when it ends.
Kept(r) == {c \in r.list : c.type \in r.staged}

\* Staging ends with the list of what was kept.
LEMMA EndFacts ==
    ASSUME NEW r \in Collections(AllConds)
    PROVE  /\ EndStagingConditions(r) \in Collections(AllConds)
           /\ EndStagingConditions(r).list = Kept(r)
           /\ EndStagingConditions(r).staged = r.staged
           /\ ~EndStagingConditions(r).staging
BY DEF EndStagingConditions, Collections, Kept

\* What is left of a collection at the end of a pass: everything in the list
\* is staged.
Ended(r) ==
    /\ r \in Collections(AllConds)
    /\ ~r.staging
    /\ \A c \in r.list : c.type \in r.staged

Without(list, types) == {c \in list : c.type \notin types}

\* SetReconcileFailed leaves what was kept, with ReconcileFailed instead of Ready.
LEMMA ReconcileFailedFacts ==
    ASSUME NEW r \in Collections(AllConds)
    PROVE  /\ Ended(SetReconcileFailed(r))
           /\ SetReconcileFailed(r).list =
                 Without(Kept(r), {"Ready", "ReconcileFailed"}) \cup {ReconcileFailedCondition}
<1>1. PICK d : d = DeleteCondition(r, {"Ready"})
  OBVIOUS
<1>2. /\ d \in Collections(AllConds)
      /\ d.list \subseteq r.list
      /\ \A c \in r.list : c \notin d.list => c.type = "Ready"
      /\ d.staged = r.staged \ {"Ready"}
  BY <1>1, DeleteFacts
<1>3. /\ "ReconcileFailed" \in ConditionTypes
      /\ ReconcileFailedCondition \in AllConds
      /\ ReconcileFailedCondition.type = "ReconcileFailed"
  BY TypeFacts, TheFacts
<1>4. PICK s : s = SetCondition(d, ReconcileFailedCondition)
  OBVIOUS
<1>5. /\ s \in Collections(AllConds)
      /\ s.list = {c \in d.list : c.type # "ReconcileFailed"} \cup {ReconcileFailedCondition}
      /\ s.staged = d.staged \cup {"ReconcileFailed"}
  BY <1>2, <1>3, <1>4, SetFacts
<1>6. SetReconcileFailed(r) = EndStagingConditions(s)
  BY <1>1, <1>4 DEF SetReconcileFailed
<1>7. Kept(s) = Without(Kept(r), {"Ready", "ReconcileFailed"}) \cup {ReconcileFailedCondition}
  BY <1>2, <1>3, <1>5 DEF Kept, Without
<1>8. Ended(EndStagingConditions(s))
  BY <1>5, EndFacts DEF Ended, Kept
<1> QED BY <1>5, <1>6, <1>7, <1>8, EndFacts

\* The regular end of a pass leaves what was kept, with Ready or without.
LEMMA ReadyFacts ==
    ASSUME NEW r \in Collections(AllConds), NEW status
    PROVE  /\ Ended(ReadyAndEnded(status, r))
           /\ \/ ReadyAndEnded(status, r).list = Without(Kept(r), {"Ready"})
              \/ ReadyAndEnded(status, r).list =
                    Without(Kept(r), {"Ready"}) \cup {ReadyCondition}
<1>1. PICK ready : ready = (status.phase # "Completed" /\ ~HasBlockerCondition(r))
  OBVIOUS
<1>2. PICK s : s = SetReady(r, ready)
  OBVIOUS
<1>3. ReadyCondition \in AllConds /\ ReadyCondition.type = "Ready"
  BY TypeFacts, TheFacts
<1>4. CASE ready
  <2>1. /\ s \in Collections(AllConds)
        /\ s.list = {c \in r.list : c.type # "Ready"} \cup {ReadyCondition}
        /\ s.staged = r.staged \cup {"Ready"}
    BY <1>2, <1>3, <1>4, SetFacts DEF SetReady
  <2>2. Kept(s) = Without(Kept(r), {"Ready"}) \cup {ReadyCondition}
    BY <1>3, <2>1 DEF Kept, Without
  <2>3. Ended(EndStagingConditions(s)) /\ EndStagingConditions(s).list = Kept(s)
    BY <2>1, EndFacts DEF Ended, Kept
  <2> QED BY <1>1, <1>2, <2>2, <2>3 DEF ReadyAndEnded
<1>5. CASE ~ready
  <2>1. /\ s \in Collections(AllConds)
        /\ s.list \subseteq r.list
        /\ \A c \in r.list : c \notin s.list => c.type = "Ready"
        /\ s.staged = r.staged \ {"Ready"}
    BY <1>2, <1>5, DeleteFacts DEF SetReady
  <2>2. Kept(s) = Without(Kept(r), {"Ready"})
    BY <2>1 DEF Kept, Without
  <2>3. Ended(EndStagingConditions(s)) /\ EndStagingConditions(s).list = Kept(s)
    BY <2>1, EndFacts DEF Ended, Kept
  <2> QED BY <1>1, <1>2, <2>2, <2>3 DEF ReadyAndEnded
<1> QED BY <1>4, <1>5

-----------------------------------------------------------------------------
(* What a status says does not depend on Ready and ReconcileFailed *)

Plain == {"Ready", "ReconcileFailed"}

\* Two lists that differ in these conditions only.
Alike(list, other) ==
    /\ UniqueTypes(other)
    /\ \A c \in AllConds : c.type \notin Plain => (c \in other <=> c \in list)

\* What is told of a list is told of one alike.
LEMMA AlikeTold ==
    ASSUME NEW m \in Migrations, NEW status, NEW list \in SUBSET AllConds,
           NEW other \in SUBSET AllConds, Told(m, status, list), Alike(list, other)
    PROVE  Told(m, status, other)
<1>1. \A t : t \notin Plain => (t \in TypesOf(other) <=> t \in TypesOf(list))
  BY TypesAre DEF Alike
<1>2. \A c \in AllConds : c.category = Warn => c.type \notin Plain
  BY CatalogFacts DEF Plain
<1>3. (\E c \in other : c.category = Warn) <=> (\E c \in list : c.category = Warn)
  BY <1>2 DEF Alike
<1>4. Rejected \in other => Rejected \in list
  BY CatalogFacts DEF Alike, Plain
<1>5. \A v \in Verdicts \cup Successes \cup {"Running", "Blocked"} \cup CancelTypes :
         v \in TypesOf(other) <=> v \in TypesOf(list)
  BY <1>1 DEF Verdicts, Successes, CancelTypes, Plain
<1>6. UniqueTypes(other)
  BY DEF Alike
<1>7. OneEnd(status, other)
  BY <1>4, <1>5 DEF Told, OneEnd
<1>8. WarningsTold(other)
  BY <1>3, <1>5 DEF Told, WarningsTold, Successes
<1>9. FailureTold(status, other)
  BY <1>5 DEF Told, FailureTold, Verdicts
<1>10. BlockedTold(status, other)
  BY <1>5 DEF Told, BlockedTold
<1>11. Unwarned(m, other)
  BY <1>3 DEF Told, Unwarned
<1>12. CancelTold(status, other)
  BY <1>5 DEF Told, CancelTold
<1> QED BY <1>6, <1>7, <1>8, <1>9, <1>10, <1>11, <1>12 DEF Told

\* The end of a pass, by Ready or by ReconcileFailed, tells what the pass kept.
LEMMA EndsTold ==
    ASSUME NEW m \in Migrations, NEW status, NEW r \in Collections(AllConds),
           Told(m, status, Kept(r))
    PROVE  /\ Told(m, status, ReadyAndEnded(status, r).list)
           /\ Told(m, status, SetReconcileFailed(r).list)
<1>1. Kept(r) \in SUBSET AllConds
  BY CollectionFacts DEF Kept
<1>2. /\ ReadyCondition \in AllConds /\ ReadyCondition.type = "Ready"
      /\ ReconcileFailedCondition \in AllConds
      /\ ReconcileFailedCondition.type = "ReconcileFailed"
  BY TypeFacts, TheFacts
<1>3. UniqueTypes(Kept(r))
  BY DEF Told
<1>4. PICK list : list = ReadyAndEnded(status, r).list
  OBVIOUS
<1>5. \/ list = Without(Kept(r), {"Ready"})
      \/ list = Without(Kept(r), {"Ready"}) \cup {ReadyCondition}
  BY <1>4, ReadyFacts
<1>6. list \in SUBSET AllConds /\ Alike(Kept(r), list)
  BY <1>1, <1>2, <1>3, <1>5 DEF Alike, Plain, Without, UniqueTypes
<1>7. PICK other : other = SetReconcileFailed(r).list
  OBVIOUS
<1>8. other = Without(Kept(r), {"Ready", "ReconcileFailed"}) \cup {ReconcileFailedCondition}
  BY <1>7, ReconcileFailedFacts
<1>9. other \in SUBSET AllConds /\ Alike(Kept(r), other)
  BY <1>1, <1>2, <1>3, <1>8 DEF Alike, Plain, Without, UniqueTypes
<1> QED BY <1>1, <1>4, <1>6, <1>7, <1>9, AlikeTold

-----------------------------------------------------------------------------
(* The conditions in memory during a pass *)

Lasting == {"Failed", "StageNoOp", "PartialFailure"}

\* What holds of them from BeginStagingConditions on: no success is among
\* them, and the failure and the warnings that last are staged.
Held(m, r) ==
    /\ r \in Collections(AllConds)
    /\ r.staging
    /\ UniqueTypes(r.list)
    /\ Successes \cap TypesOf(r.list) = {}
    /\ Lasting \cap TypesOf(r.list) \subseteq r.staged
    /\ cr[m].errors /\ "early" \notin FaultKinds => "Failed" \in TypesOf(r.list)
    /\ Unwarned(m, r.list)
    /\ CancelTypes \cap TypesOf(r.list) # {} => cr[m].canceled

\* Before the phase is run a failure is one that was stored, and a warning of
\* one pass is what the last pass left.
Fresh(m, r) ==
    /\ Held(m, r)
    /\ "Blocked" \notin r.staged
    /\ "Running" \notin r.staged
    /\ "Failed" \in TypesOf(r.list) => cr[m].errors
    /\ Rejected \notin r.list
    /\ "Blocked" \in TypesOf(r.list) => cr[m].phase \in VolumeWaits /\ ~cr[m].errors

\* Setting a condition keeps the collection, but for a success, a cancel that was
\* not asked for and a warning that nobody gave.
LEMMA HeldSet ==
    ASSUME NEW m \in Migrations, NEW r, Held(m, r), NEW c \in AllConds,
           c.type \notin Successes,
           c.type \in CancelTypes => cr[m].canceled,
           c.category = Warn => "warn" \in FaultKinds \/ SpecOf[m].stage
    PROVE  Held(m, SetCondition(r, c))
<1>1. PICK w : w = SetCondition(r, c)
  OBVIOUS
<1>2. /\ w \in Collections(AllConds)
      /\ w.list = {d \in r.list : d.type # c.type} \cup {c}
      /\ w.staged = r.staged \cup {c.type}
      /\ w.staging
  BY <1>1, SetFacts DEF Held
<1>3. \A t : t \in TypesOf(w.list) <=> t \in TypesOf(r.list) \/ t = c.type
  BY <1>2, TypesAre
<1>4. UniqueTypes(w.list)
  BY <1>2 DEF Held, UniqueTypes
<1>5. Unwarned(m, w.list)
  BY <1>2 DEF Held, Unwarned
<1>6. Lasting \cap TypesOf(w.list) \subseteq w.staged
  BY <1>2, <1>3 DEF Held
<1> QED BY <1>1, <1>2, <1>3, <1>4, <1>5, <1>6 DEF Held

\* The same by the type of the condition.
LEMMA HeldWith ==
    ASSUME NEW m \in Migrations, NEW r, Held(m, r), NEW type \in ConditionTypes,
           type \notin Successes,
           type \in CancelTypes => cr[m].canceled,
           TheCondition(type).category = Warn => "warn" \in FaultKinds \/ SpecOf[m].stage
    PROVE  Held(m, With(r, type))
BY HeldSet, TheFacts DEF With

\* Deleting other conditions than the lasting ones keeps the collection.
LEMMA HeldDelete ==
    ASSUME NEW m \in Migrations, NEW r, Held(m, r), NEW types, types \cap Lasting = {}
    PROVE  Held(m, DeleteCondition(r, types))
<1>1. /\ DeleteCondition(r, types) \in Collections(AllConds)
      /\ DeleteCondition(r, types).list = r.list
      /\ DeleteCondition(r, types).staged = r.staged \ types
      /\ DeleteCondition(r, types).staging = r.staging
  BY DeleteFacts DEF Held
<1> QED BY <1>1 DEF Held

\* Staging again what is in the list keeps it.
LEMMA HeldStage ==
    ASSUME NEW m \in Migrations, NEW r, Held(m, r), NEW types
    PROVE  Held(m, StageCondition(r, types))
<1>1. /\ StageCondition(r, types) \in Collections(AllConds)
      /\ StageCondition(r, types).list = r.list
      /\ r.staged \subseteq StageCondition(r, types).staged
      /\ StageCondition(r, types).staging = r.staging
  BY StageFacts DEF Held
<1> QED BY <1>1 DEF Held

Neutral == {"PlanNotReady", "HasFinalMigration", "RegistriesHealthy", "RegistriesUnhealthy",
            "Postponed"}

\* What validation sets leaves a fresh collection fresh.
LEMMA FreshWith ==
    ASSUME NEW m \in Migrations, NEW r, Fresh(m, r), NEW type \in Neutral
    PROVE  Fresh(m, With(r, type))
<1>1. /\ type \in ConditionTypes
      /\ type \notin Successes
      /\ type \notin CancelTypes \cup {"Failed", "Blocked", "Running"}
      /\ type # "Failed" /\ type # "Blocked" /\ type # "Running"
  BY TypeFacts DEF Neutral, Successes, CancelTypes
<1>2. TheCondition(type).category # Warn /\ TheCondition(type) # Rejected
  BY <1>1, TheFacts, CatalogFacts DEF Neutral
<1>3. Held(m, With(r, type))
  BY <1>1, <1>2, HeldWith DEF Fresh
<1>4. /\ With(r, type).list = {d \in r.list : d.type # type} \cup {TheCondition(type)}
      /\ With(r, type).staged = r.staged \cup {type}
      /\ TheCondition(type).type = type
  BY <1>1, WithFacts, TheFacts DEF Fresh, Held
<1>5. \A t : t \in TypesOf(With(r, type).list) <=> t \in TypesOf(r.list) \/ t = type
  BY <1>4, TypesAre
<1> QED BY <1>1, <1>2, <1>3, <1>4, <1>5 DEF Fresh

\* So does what it deletes.
LEMMA FreshDelete ==
    ASSUME NEW m \in Migrations, NEW r, Fresh(m, r), NEW types, types \cap Lasting = {}
    PROVE  Fresh(m, DeleteCondition(r, types))
<1>1. Held(m, DeleteCondition(r, types))
  BY HeldDelete DEF Fresh
<1>2. /\ DeleteCondition(r, types).list = r.list
      /\ DeleteCondition(r, types).staged = r.staged \ types
  BY DeleteFacts DEF Fresh, Held
<1> QED BY <1>1, <1>2 DEF Fresh

\* A pass of a migration that is not over begins with what was stored.
LEMMA BeginsFresh ==
    ASSUME NEW m \in Migrations, cr[m] \in Statuses, Told(m, cr[m], cr[m].conds), ~Completed(m)
    PROVE  Fresh(m, BeginStagingConditions(Loaded(cr[m].conds)))
<1>1. PICK list : list = cr[m].conds
  OBVIOUS
<1>2. list \in SUBSET AllConds
  BY <1>1 DEF Statuses, AllConds
<1>3. PICK r : r = BeginStagingConditions(Loaded(list))
  OBVIOUS
<1>4. /\ r \in Collections(AllConds)
      /\ r.list = list
      /\ r.staging
      /\ \A t : t \in r.staged <=> \E c \in list : c.durable /\ c.type = t
  BY <1>2, <1>3, LoadedFacts, BeginFacts
<1>5. Rejected \notin list
  BY <1>1 DEF Told, OneEnd, Completed
<1>6. \A c \in list : c.type \in Lasting => c.durable
  BY <1>2, <1>5, CatalogFacts DEF Lasting
<1>7. Lasting \cap TypesOf(list) \subseteq r.staged
  BY <1>4, <1>6, TypesAre
<1>8. Successes \cap TypesOf(list) = {}
  BY <1>1 DEF Told, OneEnd, Completed
<1>9. /\ "Failed" \in TypesOf(list) => cr[m].errors
      /\ cr[m].errors /\ "early" \notin FaultKinds => "Failed" \in TypesOf(list)
  BY <1>1 DEF Told, FailureTold
<1>10. CancelTypes \cap TypesOf(list) # {} => cr[m].canceled
  BY <1>1 DEF Told, CancelTold
<1>11. "Blocked" \in TypesOf(list) => cr[m].phase \in VolumeWaits /\ ~cr[m].errors
  BY <1>1 DEF Told, BlockedTold, Completed
<1>12. "Blocked" \notin r.staged /\ "Running" \notin r.staged
  BY <1>2, <1>4, CatalogFacts
<1>13. UniqueTypes(list) /\ Unwarned(m, list)
  BY <1>1 DEF Told
<1>14. Held(m, r)
  BY <1>4, <1>7, <1>8, <1>9, <1>10, <1>13 DEF Held
<1> QED BY <1>1, <1>3, <1>4, <1>5, <1>9, <1>11, <1>12, <1>14 DEF Fresh

-----------------------------------------------------------------------------
(* Validation *)

\* What the passes need to know of a migration that is not over.
MayPass(m) ==
    /\ m \in Migrations
    /\ cr \in [Migrations -> Statuses]
    /\ Told(m, cr[m], cr[m].conds)
    /\ ~Completed(m)

\* A migration that validation has failed for good.
Barred(m, r) ==
    /\ Held(m, r)
    /\ "Running" \notin r.staged
    /\ Rejected \in r.list

\* What else validation sets does not lift the bar.
LEMMA BarredWith ==
    ASSUME NEW m \in Migrations, NEW r, Barred(m, r), NEW type \in Neutral
    PROVE  Barred(m, With(r, type))
<1>1. /\ type \in ConditionTypes
      /\ type \notin Successes
      /\ type \notin CancelTypes
      /\ type # "Failed" /\ type # "Running"
  BY TypeFacts DEF Neutral, Successes, CancelTypes
<1>2. TheCondition(type).category # Warn
  BY <1>1, TheFacts, CatalogFacts DEF Neutral
<1>3. Held(m, With(r, type))
  BY <1>1, <1>2, HeldWith DEF Barred
<1>4. /\ With(r, type).list = {d \in r.list : d.type # type} \cup {TheCondition(type)}
      /\ With(r, type).staged = r.staged \cup {type}
  BY <1>1, WithFacts DEF Barred, Held
<1> QED BY <1>1, <1>3, <1>4, CatalogFacts DEF Barred

\* Nor does what it deletes.
LEMMA BarredDelete ==
    ASSUME NEW m \in Migrations, NEW r, Barred(m, r), NEW types, types \cap Lasting = {}
    PROVE  Barred(m, DeleteCondition(r, types))
<1>1. Held(m, DeleteCondition(r, types))
  BY HeldDelete DEF Barred
<1>2. /\ DeleteCondition(r, types).list = r.list
      /\ DeleteCondition(r, types).staged = r.staged \ types
  BY DeleteFacts DEF Barred, Held
<1> QED BY <1>1, <1>2 DEF Barred

\* The condition that rejects a migration bars it.
LEMMA RejectedBars ==
    ASSUME NEW m \in Migrations, NEW r, Fresh(m, r)
    PROVE  Barred(m, SetCondition(r, Rejected))
<1>1. Held(m, SetCondition(r, Rejected))
  BY HeldSet, CatalogFacts DEF Fresh, Successes, CancelTypes, Warn, Critical
<1>2. /\ Rejected \in SetCondition(r, Rejected).list
      /\ SetCondition(r, Rejected).staged = r.staged \cup {"Failed"}
  BY SetFacts, CatalogFacts DEF Fresh, Held
<1> QED BY <1>1, <1>2 DEF Fresh, Barred

\* A barred migration is blocked, and its failure is kept.
LEMMA BarredBlocks ==
    ASSUME NEW m \in Migrations, NEW r, Barred(m, r)
    PROVE  /\ HasBlockerCondition(r)
           /\ "Failed" \in TypesOf(Kept(r))
<1>1. "Failed" \in TypesOf(r.list)
  BY CatalogFacts, TypesAre DEF Barred
<1>2. "Failed" \in r.staged
  BY <1>1 DEF Barred, Held, Lasting
<1>3. Rejected \in Visible(r) /\ Rejected \in Kept(r)
  BY <1>2, CatalogFacts DEF Barred, Visible, Kept
<1> QED BY <1>3, CatalogFacts, TypesAre DEF HasBlockerCondition, HasConditionCategory

\* The look at the registries leaves a collection fresh, or barred.
LEMMA RegistriesFresh ==
    ASSUME NEW m \in Migrations, NEW r, NEW healthy
    PROVE  /\ Fresh(m, r) => Fresh(m, ValidateRegistries(r, healthy))
           /\ Barred(m, r) => Barred(m, ValidateRegistries(r, healthy))
<1>1. /\ {"RegistriesUnhealthy"} \cap Lasting = {}
      /\ {"RegistriesHealthy"} \cap Lasting = {}
      /\ "RegistriesHealthy" \in Neutral /\ "RegistriesUnhealthy" \in Neutral
  BY DEF Lasting, Neutral
<1>2. CASE ~HasAnyCondition(r, {"RegistriesHealthy", "RegistriesUnhealthy"})
  BY <1>2 DEF ValidateRegistries
<1>3. CASE HasAnyCondition(r, {"RegistriesHealthy", "RegistriesUnhealthy"}) /\ healthy
  <2>1. ValidateRegistries(r, healthy) =
           With(DeleteCondition(r, {"RegistriesUnhealthy"}), "RegistriesHealthy")
    BY <1>3 DEF ValidateRegistries
  <2> QED BY <1>1, <2>1, FreshDelete, FreshWith, BarredDelete, BarredWith
<1>4. CASE HasAnyCondition(r, {"RegistriesHealthy", "RegistriesUnhealthy"}) /\ ~healthy
  <2>1. ValidateRegistries(r, healthy) =
           With(DeleteCondition(r, {"RegistriesHealthy"}), "RegistriesUnhealthy")
    BY <1>4 DEF ValidateRegistries
  <2> QED BY <1>1, <2>1, FreshDelete, FreshWith, BarredDelete, BarredWith
<1> QED BY <1>2, <1>3, <1>4

\* Validation leaves the conditions of a migration that it does not reject as
\* they were stored, but for what it looked at itself.
LEMMA ValidatedFacts ==
    ASSUME NEW m, MayPass(m), NEW notReady, NEW found, NEW healthy
    PROVE  /\ ~RejectedType(m) => Fresh(m, Validated(m, notReady, found, healthy))
           /\ RejectedType(m) => Barred(m, Validated(m, notReady, found, healthy))
<1>1. m \in Migrations
  BY DEF MayPass
<1>2. PICK begun : begun = BeginStagingConditions(Loaded(cr[m].conds))
  OBVIOUS
<1>3. Fresh(m, begun)
  BY <1>2, BeginsFresh DEF MayPass
<1>4. PICK a : a = ValidatePlan(begun, notReady)
  OBVIOUS
<1>5. Fresh(m, a)
  BY <1>1, <1>3, <1>4, FreshWith DEF ValidatePlan, Neutral
<1>6. PICK b : b = ValidateTypeConds(a, m)
  OBVIOUS
<1>7. (~RejectedType(m) => Fresh(m, b)) /\ (RejectedType(m) => Barred(m, b))
  BY <1>1, <1>5, <1>6, RejectedBars DEF ValidateTypeConds
<1>8. PICK c : c = ValidateFinal(b, m, found)
  OBVIOUS
<1>9. (~RejectedType(m) => Fresh(m, c)) /\ (RejectedType(m) => Barred(m, c))
  BY <1>1, <1>7, <1>8, FreshWith, BarredWith DEF ValidateFinal, Neutral
<1>10. Validated(m, notReady, found, healthy) = ValidateRegistries(c, healthy)
  BY <1>2, <1>4, <1>6, <1>8 DEF Validated
<1> QED BY <1>1, <1>9, <1>10, RegistriesFresh

\* Nothing bars a migration that is run or postponed.
LEMMA ClearFacts ==
    ASSUME NEW m, MayPass(m), NEW v \in Clear(m)
    PROVE  ~RejectedType(m) /\ Fresh(m, v) /\ ~HasBlockerCondition(v)
<1>1. PICK found : v = Validated(m, FALSE, found, "Registries" \in world.helpers)
  BY DEF Clear
<1>2. ~HasBlockerCondition(v)
  BY DEF Clear
<1> QED BY <1>1, <1>2, ValidatedFacts, BarredBlocks DEF MayPass

-----------------------------------------------------------------------------
(* Passes that do not run the migration *)

\* What a pass may leave to be written of a migration that is not over.
Sound(m, status, conds) ==
    /\ status \in Statuses
    /\ Ended(conds)
    /\ Told(m, status, conds.list)
    /\ status.stamp = cr[m].stamp
    /\ status.canceled = cr[m].canceled
    /\ cr[m].errors => status.errors
    /\ status.phase = "unset" => cr[m].phase = "unset"
    /\ status.phase = "Completed" => cr[m].phase # "unset" \/ status.errors

\* What is kept are the conditions of the staged types.
LEMMA KeptFacts ==
    ASSUME NEW r \in Collections(AllConds), UniqueTypes(r.list)
    PROVE  /\ Kept(r) \in SUBSET AllConds
           /\ UniqueTypes(Kept(r))
           /\ \A t : t \in TypesOf(Kept(r)) <=> t \in TypesOf(r.list) /\ t \in r.staged
BY CollectionFacts, TypesAre DEF Kept, UniqueTypes

\* A pass that does not run the migration tells what was told before, but for
\* the warning of one pass.
LEMMA KeptTold ==
    ASSUME NEW m, MayPass(m), NEW r, Fresh(m, r)
    PROVE  Told(m, cr[m], Kept(r))
<1>1. /\ UniqueTypes(Kept(r))
      /\ \A t : t \in TypesOf(Kept(r)) <=> t \in TypesOf(r.list) /\ t \in r.staged
      /\ Kept(r) \subseteq r.list
  BY KeptFacts DEF Fresh, Held, Kept
<1>2. cr[m].phase # "Completed" /\ Successes \cap TypesOf(Kept(r)) = {}
  BY <1>1 DEF MayPass, Completed, Fresh, Held
<1>3. OneEnd(cr[m], Kept(r))
  BY <1>1, <1>2 DEF OneEnd, Fresh
<1>4. WarningsTold(Kept(r))
  BY <1>2 DEF WarningsTold, Successes
<1>5. FailureTold(cr[m], Kept(r))
  BY <1>1 DEF FailureTold, Fresh, Held, Lasting
<1>6. BlockedTold(cr[m], Kept(r))
  BY <1>1 DEF BlockedTold, Fresh
<1>7. Unwarned(m, Kept(r))
  BY <1>1 DEF Unwarned, Fresh, Held
<1>8. OnItinerary(cr[m]) /\ CancelTold(cr[m], Kept(r))
  BY <1>1 DEF MayPass, Told, CancelTold, Fresh, Held
<1> QED BY <1>1, <1>3, <1>4, <1>5, <1>6, <1>7, <1>8 DEF Told

\* The phases of every itinerary are phases a status can have.
LEMMA PhasesFacts ==
    /\ "Completed" \in Phases
    /\ "unset" \in Phases
    /\ \A name \in ItineraryNames : PhasesOf(ItineraryNamed(name)) \subseteq Phases
<1>1. "Completed" \in PhasesOf(FailedItinerary)
  BY FailedListed DEF Listed, PhasesOf
<1>2. ASSUME NEW name \in ItineraryNames
       PROVE  PhasesOf(ItineraryNamed(name)) \subseteq Phases
  <2>1. PhasesOf(ItineraryNamed(name)) \in {PhasesOf(ItineraryNamed(n)) : n \in ItineraryNames}
    OBVIOUS
  <2> QED BY <2>1 DEF Phases
<1>3. "Failed" \in ItineraryNames
  BY DEF ItineraryNames
<1>4. "unset" \in Phases
  BY DEF Phases
<1> QED BY <1>1, <1>2, <1>3, <1>4, NamedFacts

\* A pass that only validates leaves a sound status, whichever way it ends.
LEMMA QuietSound ==
    ASSUME NEW m, MayPass(m), NEW r, Fresh(m, r)
    PROVE  /\ Sound(m, cr[m], ReadyAndEnded(cr[m], r))
           /\ Sound(m, cr[m], SetReconcileFailed(r))
<1>1. m \in Migrations /\ r \in Collections(AllConds) /\ cr[m] \in Statuses
  BY DEF MayPass, Fresh, Held
<1>2. Told(m, cr[m], Kept(r))
  BY KeptTold
<1> QED BY <1>1, <1>2, EndsTold, ReadyFacts, ReconcileFailedFacts DEF Sound, MayPass, Completed

\* A pass that fails before it begins staging keeps nothing; in this way only
\* can a failure be forgotten.
LEMMA EarlySound ==
    ASSUME NEW m, MayPass(m), "early" \in FaultKinds
    PROVE  Sound(m, cr[m], SetReconcileFailed(Loaded(cr[m].conds)))
<1>1. m \in Migrations /\ cr[m] \in Statuses /\ cr[m].phase # "Completed"
  BY DEF MayPass, Completed
<1>2. PICK r : r = Loaded(cr[m].conds)
  OBVIOUS
<1>3. r \in Collections(AllConds) /\ r.staged = {}
  BY <1>1, <1>2, LoadedFacts DEF Statuses, AllConds
<1>4. Kept(r) = {} /\ TypesOf(Kept(r)) = {}
  BY <1>3 DEF Kept, TypesOf
<1>5. Told(m, cr[m], Kept(r))
  <2>1. OneEnd(cr[m], Kept(r)) /\ WarningsTold(Kept(r))
    BY <1>1, <1>4 DEF OneEnd, WarningsTold
  <2>2. FailureTold(cr[m], Kept(r)) /\ BlockedTold(cr[m], Kept(r)) /\ Unwarned(m, Kept(r))
    BY <1>4 DEF FailureTold, BlockedTold, Unwarned
  <2>3. OnItinerary(cr[m]) /\ CancelTold(cr[m], Kept(r)) /\ UniqueTypes(Kept(r))
    BY <1>4 DEF MayPass, Told, CancelTold, UniqueTypes
  <2> QED BY <2>1, <2>2, <2>3 DEF Told
<1> QED BY <1>1, <1>2, <1>3, <1>5, EndsTold, ReconcileFailedFacts DEF Sound

\* A rejected migration is over and says that it has failed.
LEMMA BarredSound ==
    ASSUME NEW m, MayPass(m), NEW r, Barred(m, r), NEW status,
           status = [cr[m] EXCEPT !.phase = "Completed", !.errors = TRUE]
    PROVE  /\ Sound(m, status, ReadyAndEnded(status, r))
           /\ Sound(m, status, SetReconcileFailed(r))
<1>1. m \in Migrations /\ r \in Collections(AllConds) /\ cr[m] \in Statuses
  BY DEF MayPass, Barred, Held
<1>2. /\ status \in Statuses
      /\ status.phase = "Completed"
      /\ status.errors
      /\ status.stamp = cr[m].stamp
      /\ status.canceled = cr[m].canceled
      /\ status.itinerary = cr[m].itinerary
  BY <1>1, PhasesFacts DEF Statuses
<1>3. /\ UniqueTypes(Kept(r))
      /\ \A t : t \in TypesOf(Kept(r)) <=> t \in TypesOf(r.list) /\ t \in r.staged
      /\ Kept(r) \subseteq r.list
  BY <1>1, KeptFacts DEF Barred, Held, Kept
<1>4. "Failed" \in TypesOf(Kept(r)) /\ Successes \cap TypesOf(Kept(r)) = {}
  BY <1>1, <1>3, BarredBlocks DEF Barred, Held
<1>5. OneEnd(status, Kept(r))
  BY <1>2, <1>3, <1>4 DEF OneEnd, Verdicts, Successes, Barred
<1>6. WarningsTold(Kept(r))
  BY <1>4 DEF WarningsTold, Successes
<1>7. FailureTold(status, Kept(r)) /\ BlockedTold(status, Kept(r)) /\ OnItinerary(status)
  BY <1>2, <1>4 DEF FailureTold, BlockedTold, OnItinerary
<1>8. Unwarned(m, Kept(r))
  BY <1>3 DEF Unwarned, Barred, Held
<1>9. CancelTold(status, Kept(r))
  BY <1>2, <1>3 DEF MayPass, Told, CancelTold, Barred, Held
<1>10. Told(m, status, Kept(r))
  BY <1>3, <1>5, <1>6, <1>7, <1>8, <1>9 DEF Told
<1> QED BY <1>1, <1>2, <1>10, EndsTold, ReadyFacts, ReconcileFailedFacts DEF Sound

\* Whatever validation found, what it leaves is sound.
LEMMA ValidatedSound ==
    ASSUME NEW m, MayPass(m), NEW notReady, NEW found, NEW healthy, NEW r,
           r = Validated(m, notReady, found, healthy), NEW status,
           status = ValidateType(cr[m], m)
    PROVE  /\ Sound(m, status, ReadyAndEnded(status, r))
           /\ Sound(m, status, SetReconcileFailed(r))
<1>1. CASE RejectedType(m)
  BY <1>1, ValidatedFacts, BarredSound DEF ValidateType
<1>2. CASE ~RejectedType(m)
  BY <1>2, ValidatedFacts, QuietSound DEF ValidateType
<1> QED BY <1>1, <1>2

-----------------------------------------------------------------------------
(* The phase a pass runs and the one after it *)

\* A condition that is seen is in the list.
LEMMA SeenIsListed ==
    ASSUME NEW r, NEW type
    PROVE  HasCondition(r, type) => type \in TypesOf(r.list)
BY TypesAre DEF HasCondition, Visible

\* Which itinerary a pass runs, and that the phase is one of it.
LEMMA PhaseFacts ==
    ASSUME NEW m, MayPass(m), NEW v, Fresh(m, v), NEW itinerary,
           itinerary = ItineraryOf(m, v), NEW p, p = PhaseOf(m, itinerary)
    PROVE  /\ itinerary \in ItineraryNames
           /\ itinerary = "Failed" <=> cr[m].errors
           /\ itinerary = "Cancel" => cr[m].canceled
           /\ p \in PhasesOf(ItineraryNamed(itinerary))
           /\ p # "unset" /\ p # "Completed"
           /\ itinerary = "Failed" => p = "MigrationFailed"
           /\ p \in CancelTypes => cr[m].canceled
           /\ p = cr[m].phase \/ p = FirstPhase(itinerary)
           /\ cr[m].phase = "unset" => p = FirstPhase(itinerary)
<1>1. cr[m] \in Statuses /\ OnItinerary(cr[m]) /\ cr[m].phase # "Completed"
  BY DEF MayPass, Told, Completed
<1>2. HasCondition(v, "Failed") => cr[m].errors
  BY SeenIsListed DEF Fresh
<1>3. HasAnyCondition(v, {"Canceled", "Canceling"}) => cr[m].canceled
  <2> SUFFICES ASSUME HasAnyCondition(v, {"Canceled", "Canceling"})
               PROVE  cr[m].canceled
    OBVIOUS
  <2>1. PICK t \in {"Canceled", "Canceling"} : t \in TypesOf(Visible(v))
    BY DEF HasAnyCondition
  <2>2. t \in TypesOf(v.list)
    BY <2>1, TypesAre DEF Visible
  <2>3. CancelTypes \cap TypesOf(v.list) # {}
    BY <2>1, <2>2 DEF CancelTypes
  <2> QED BY <2>3 DEF Fresh, Held
<1>4. /\ itinerary \in ItineraryNames
      /\ itinerary = "Failed" <=> cr[m].errors
      /\ itinerary = "Cancel" => cr[m].canceled
  BY <1>1, <1>2, <1>3 DEF ItineraryOf, ChooseItinerary, ItineraryNames, Statuses
<1>5. CASE cr[m].itinerary = itinerary
  <2>1. p = cr[m].phase
    BY <1>5 DEF PhaseOf
  <2>2. itinerary # "unset"
    BY <1>4 DEF ItineraryNames
  <2>3. p # "unset" /\ p # "Completed" /\ itinerary # "Failed"
    BY <1>1, <1>5, <2>1, <2>2 DEF OnItinerary
  <2>4. p \in PhasesOf(ItineraryNamed(itinerary))
    BY <1>1, <1>4, <1>5, <2>1, <2>3 DEF OnItinerary
  <2>5. p \in CancelTypes => cr[m].canceled
    BY <1>4, <2>4, CancelPhases DEF CancelTypes
  <2> QED BY <1>4, <2>1, <2>3, <2>4, <2>5
<1>6. CASE cr[m].itinerary # itinerary
  <2>1. p = FirstPhase(itinerary)
    BY <1>6 DEF PhaseOf
  <2>2. p \in PhasesOf(ItineraryNamed(itinerary))
    BY <1>4, <2>1, FirstIsPhase
  <2>3. p # "unset" /\ p # "Completed" /\ (itinerary = "Failed" => p = "MigrationFailed")
    BY <1>4, <2>1, FirstPhases DEF ItineraryNames
  <2>4. p \in CancelTypes => cr[m].canceled
    BY <1>4, <2>2, CancelPhases DEF CancelTypes
  <2> QED BY <1>4, <2>1, <2>2, <2>3, <2>4
<1> QED BY <1>5, <1>6

\* The next phase is one of the itinerary; a failed migration is over at once,
\* the others not before they have done what their first phase is for or what
\* follows the volumes.
LEMMA NextFacts ==
    ASSUME NEW m, NEW itinerary \in ItineraryNames, NEW p, NEW conds, NEW next,
           next = NextOf(m, itinerary, p, conds),
           p \in PhasesOf(ItineraryNamed(itinerary)),
           itinerary = "Failed" <=> p = "MigrationFailed"
    PROVE  /\ itinerary = "Failed" => next = "Completed"
           /\ itinerary # "Failed" => next \in PhasesOf(ItineraryNamed(itinerary))
           /\ next \in Phases /\ next # "unset"
           /\ itinerary # "Failed" /\ (p = FirstPhase(itinerary) \/ p \in VolumeWaits)
                 => next # "Completed"
           /\ p = "Verification" => next = "Completed"
<1>1. PICK flags : flags = FlagsOf(plan, SpecOf[m], HasCondition(conds, "StagePodsCreated"))
  OBVIOUS
<1>2. CASE itinerary = "Failed"
  <2>1. next = "Completed" /\ p = "MigrationFailed"
    BY <1>2 DEF NextOf
  <2> QED BY <1>2, <2>1, PhasesFacts
<1>3. CASE itinerary # "Failed"
  <2>1. PICK from : from = IF p = "Canceling" /\ SpecOf[m].rollback
                             THEN "EnsureAnnotationsDeleted" ELSE p
    OBVIOUS
  <2>2. next = NextPhase(ItineraryNamed(itinerary), from, flags)
    BY <1>1, <1>3, <2>1 DEF NextOf
  <2>3. next \in PhasesOf(ItineraryNamed(itinerary)) /\ next # "unset" /\ next \in Phases
    BY <2>2, NextIsPhase, PhasesFacts
  <2>4. p = FirstPhase(itinerary) => next # "Completed"
    <3>1. CASE itinerary = "Cancel"
      BY <2>1, <2>2, <3>1, FirstPhases, NamedFacts, NotOverAfterFirst
    <3>2. CASE itinerary \in {"Stage", "Final", "Rollback"}
      BY <2>1, <2>2, <3>2, FirstPhases, NamedFacts, NotOverAfterFirst
    <3> QED BY <1>3, <3>1, <3>2 DEF ItineraryNames
  <2>5. p \in VolumeWaits => next # "Completed"
    <3>1. p \in VolumeWaits => from = p
      BY <2>1 DEF VolumeWaits
    <3> QED BY <2>2, <3>1, NotOverAfterVolumes DEF VolumeWaits
  <2>6. p = "Verification" => next = "Completed"
    BY <2>1, <2>2, OverAfterVerification
  <2> QED BY <1>3, <2>3, <2>4, <2>5, <2>6
<1> QED BY <1>2, <1>3

-----------------------------------------------------------------------------
(* What the handlers leave *)

\* The conditions while and after the handler runs: as they were found, but
\* for warnings and for what it recorded of its own work.
Tame(m, r) ==
    /\ Held(m, r)
    /\ "Failed" \in TypesOf(r.list) => cr[m].errors
    /\ Rejected \notin r.list
    /\ "Blocked" \in TypesOf(r.list) =>
          "Blocked" \in r.staged \/ (cr[m].phase \in VolumeWaits /\ ~cr[m].errors)

\* A fresh collection is tame, and has no warning of this pass.
LEMMA FreshIsTame ==
    ASSUME NEW m, NEW r, Fresh(m, r)
    PROVE  Tame(m, r) /\ "Blocked" \notin r.staged
BY DEF Fresh, Tame

\* Setting a condition that is no verdict keeps a collection tame, under the same
\* provisos as above.
LEMMA TameWith ==
    ASSUME NEW m \in Migrations, NEW r, Tame(m, r), NEW type \in ConditionTypes,
           type \notin Successes \cup {"Failed"},
           type \in CancelTypes => cr[m].canceled,
           TheCondition(type).category = Warn => "warn" \in FaultKinds \/ SpecOf[m].stage
    PROVE  /\ Tame(m, With(r, type))
           /\ With(r, type).staged = r.staged \cup {type}
<1>1. Held(m, With(r, type))
  BY HeldWith DEF Tame
<1>2. /\ With(r, type).list = {d \in r.list : d.type # type} \cup {TheCondition(type)}
      /\ With(r, type).staged = r.staged \cup {type}
      /\ TheCondition(type).type = type
  BY WithFacts, TheFacts DEF Tame, Held
<1>3. \A t : t \in TypesOf(With(r, type).list) <=> t \in TypesOf(r.list) \/ t = type
  BY <1>2, TypesAre
<1>4. TheCondition(type) # Rejected
  BY <1>2, CatalogFacts
<1> QED BY <1>1, <1>2, <1>3, <1>4 DEF Tame

\* So does deleting one that is neither lasting nor a warning of one pass.
LEMMA TameDelete ==
    ASSUME NEW m \in Migrations, NEW r, Tame(m, r), NEW types,
           types \cap (Lasting \cup {"Blocked"}) = {}
    PROVE  /\ Tame(m, DeleteCondition(r, types))
           /\ DeleteCondition(r, types).staged = r.staged \ types
<1>1. Held(m, DeleteCondition(r, types))
  BY HeldDelete DEF Tame
<1>2. /\ DeleteCondition(r, types).list = r.list
      /\ DeleteCondition(r, types).staged = r.staged \ types
  BY DeleteFacts DEF Tame, Held
<1> QED BY <1>1, <1>2 DEF Tame

\* So does staging one again.
LEMMA TameStage ==
    ASSUME NEW m \in Migrations, NEW r, Tame(m, r), NEW types
    PROVE  /\ Tame(m, StageCondition(r, types))
           /\ StageCondition(r, types).staged \subseteq r.staged \cup types
<1>1. Held(m, StageCondition(r, types))
  BY HeldStage DEF Tame
<1>2. /\ StageCondition(r, types).list = r.list
      /\ r.staged \subseteq StageCondition(r, types).staged
      /\ StageCondition(r, types).staged \subseteq r.staged \cup types
  BY StageFacts DEF Tame, Held
<1> QED BY <1>1, <1>2 DEF Tame

\* What a handler records keeps the collection tame and no warning of one pass
\* comes of it.
LEMMA RecordsTame ==
    ASSUME NEW m \in Migrations, NEW r, Tame(m, r), NEW p, NEW w,
           p \in CancelTypes => cr[m].canceled
    PROVE  /\ Tame(m, CondsAfter(p, r, w))
           /\ "Blocked" \in CondsAfter(p, r, w).staged => "Blocked" \in r.staged
<1>1. /\ \A type \in {"RegistriesHealthy", "StagePodsCreated", "Canceling", "Canceled"} :
            /\ type \in ConditionTypes
            /\ type \notin Successes \cup {"Failed"}
            /\ type # "Blocked"
            /\ TheCondition(type).category # Warn
  BY TypeFacts, TheFacts, CatalogFacts DEF Successes
<1>2. /\ {"RegistriesHealthy", "RegistriesUnhealthy"} \cap (Lasting \cup {"Blocked"}) = {}
      /\ {"StagePodsCreated"} \cap (Lasting \cup {"Blocked"}) = {}
      /\ {"Canceling"} \cap (Lasting \cup {"Blocked"}) = {}
  BY DEF Lasting
<1>3. CASE p = "WaitForRegistriesReady"
  <2>1. CondsAfter(p, r, w) = With(r, "RegistriesHealthy")
    BY <1>3 DEF CondsAfter
  <2> QED BY <1>1, <2>1, TameWith DEF CancelTypes
<1>4. CASE p = "DeleteRegistries"
  <2>1. CondsAfter(p, r, w) = DeleteCondition(r, {"RegistriesHealthy", "RegistriesUnhealthy"})
    BY <1>4 DEF CondsAfter
  <2> QED BY <1>2, <2>1, TameDelete
<1>5. CASE p \in {"EnsureStagePodsFromRunning", "EnsureStagePodsFromTemplates",
                  "EnsureStagePodsFromOrphanedPVCs"}
  <2>1. CondsAfter(p, r, w) \in {r, With(r, "StagePodsCreated")}
    BY <1>5 DEF CondsAfter
  <2> QED BY <1>1, <2>1, TameWith DEF CancelTypes
<1>6. CASE p \in {"EnsureStagePodsTerminated", "WaitForStaleStagePodsTerminated"}
  <2>1. CondsAfter(p, r, w) = DeleteCondition(r, {"StagePodsCreated"})
    BY <1>6 DEF CondsAfter
  <2> QED BY <1>2, <2>1, TameDelete
<1>7. CASE p = "Canceling"
  <2>1. CondsAfter(p, r, w) = With(r, "Canceling")
    BY <1>7 DEF CondsAfter
  <2> QED BY <1>1, <1>7, <2>1, TameWith DEF CancelTypes
<1>8. CASE p = "Canceled"
  <2>1. CondsAfter(p, r, w) = With(DeleteCondition(r, {"Canceling"}), "Canceled")
    BY <1>8 DEF CondsAfter
  <2>2. /\ Tame(m, DeleteCondition(r, {"Canceling"}))
        /\ DeleteCondition(r, {"Canceling"}).staged = r.staged \ {"Canceling"}
    BY <1>2, TameDelete
  <2> QED BY <1>1, <1>8, <2>1, <2>2, TameWith DEF CancelTypes
<1>9. CASE p \notin {"WaitForRegistriesReady", "DeleteRegistries", "EnsureStagePodsFromRunning",
                     "EnsureStagePodsFromTemplates", "EnsureStagePodsFromOrphanedPVCs",
                     "EnsureStagePodsTerminated", "WaitForStaleStagePodsTerminated",
                     "Canceling", "Canceled"}
  <2>1. CondsAfter(p, r, w) = r
    BY <1>9 DEF CondsAfter
  <2> QED BY <2>1
<1> QED BY <1>3, <1>4, <1>5, <1>6, <1>7, <1>8, <1>9

\* So does next(), after what the handler recorded.
LEMMA NextTame ==
    ASSUME NEW m \in Migrations, NEW r, Tame(m, r), NEW p, NEW w,
           p \in CancelTypes => cr[m].canceled
    PROVE  /\ Tame(m, CondsNext(p, r, w))
           /\ "Blocked" \in CondsNext(p, r, w).staged => "Blocked" \in r.staged
<1>1. /\ Tame(m, CondsAfter(p, r, w))
      /\ "Blocked" \in CondsAfter(p, r, w).staged => "Blocked" \in r.staged
  BY RecordsTame
<1>2. CASE p = "MigrationFailed"
  BY <1>1, <1>2 DEF CondsNext
<1>3. CASE p # "MigrationFailed"
  <2>1. CondsNext(p, r, w) = StageCondition(CondsAfter(p, r, w), {"Running"})
    BY <1>3 DEF CondsNext
  <2>2. "Blocked" \notin {"Running"}
    OBVIOUS
  <2> QED BY <1>1, <2>1, <2>2, TameStage
<1> QED BY <1>2, <1>3

-----------------------------------------------------------------------------
(* The world the handlers leave *)

\* What a handler leaves of the clusters is a world of the model.
LEMMA WorldsTyped ==
    ASSUME NEW m \in Migrations, NEW p, world \in Worlds, NEW w,
           w \in {world} \cup PartlyQuiesced(p) \cup WorldsAfter(m, p)
    PROVE  w \in Worlds
<1>1. CASE w = world
  BY <1>1
<1>2. CASE w \in PartlyQuiesced(p)
  <2>1. w = [world EXCEPT !.src = "partial"]
    BY <1>2 DEF PartlyQuiesced
  <2> QED BY <2>1 DEF Worlds
<1>3. CASE w \in WorldsAfter(m, p)
  <2>1. /\ w = [src |-> w.src, dst |-> w.dst, helpers |-> w.helpers, objects |-> w.objects]
        /\ w.src = SrcAfter(p)
        /\ w.dst = DstAfter(p)
        /\ w.helpers \in HelpersAfter(m, p)
        /\ w.objects \in ObjectsAfter(m, p)
    BY <1>3 DEF WorldsAfter
  <2>2. SrcAfter(p) \in {"up", "partial", "down"}
    BY DEF SrcAfter, Worlds
  <2>3. DstAfter(p) \in {"none", "present", "quiesced", "deleting"}
    BY DEF DstAfter, Worlds
  <2>4. \A h \in HelpersAfter(m, p) :
           h \in {world.helpers, world.helpers \cup {"StagePods"},
                  world.helpers \cup {"Registries"}, world.helpers \ {"Registries"},
                  world.helpers \cup {"Annotations"}, world.helpers \ {"Annotations"},
                  world.helpers \ {"StagePods"}}
    BY DEF HelpersAfter
  <2>5. w.helpers \in SUBSET {"Registries", "StagePods", "Annotations"}
    BY <2>1, <2>4 DEF Worlds
  <2>6. MakesObject(p) \subseteq ObjectKinds
    BY DEF MakesObject, ObjectKinds
  <2>7. {m} \X MakesObject(p) \subseteq Migrations \X ObjectKinds
    BY <2>6
  <2>8. \A o \in ObjectsAfter(m, p) :
           o \subseteq world.objects \/ o = world.objects \cup ({m} \X MakesObject(p))
    BY DEF ObjectsAfter
  <2>9. w.objects \in SUBSET (Migrations \X ObjectKinds)
    BY <2>1, <2>7, <2>8 DEF Worlds
  <2> QED BY <2>1, <2>2, <2>3, <2>5, <2>9 DEF Worlds
<1> QED BY <1>1, <1>2, <1>3

\* The handler of a failed migration leaves the clusters alone.
LEMMA FailedWorld ==
    ASSUME NEW m \in Migrations, world \in Worlds, NEW w,
           w \in {world} \cup PartlyQuiesced("MigrationFailed")
                 \cup WorldsAfter(m, "MigrationFailed")
    PROVE  w = world
<1>1. PartlyQuiesced("MigrationFailed") = {}
  BY DEF PartlyQuiesced
<1>2. /\ SrcAfter("MigrationFailed") = world.src
      /\ DstAfter("MigrationFailed") = world.dst
      /\ HelpersAfter(m, "MigrationFailed") = {world.helpers}
  BY DEF SrcAfter, DstAfter, HelpersAfter
<1>3. MakesObject("MigrationFailed") = {}
  BY DEF MakesObject
<1>4. {m} \X MakesObject("MigrationFailed") = {}
  BY <1>3
<1>5. ObjectsAfter(m, "MigrationFailed") = {world.objects}
  BY <1>4 DEF ObjectsAfter
<1>6. ASSUME w \in WorldsAfter(m, "MigrationFailed")
       PROVE  w = world
  <2>1. w \in [src : {world.src}, dst : {world.dst}, helpers : {world.helpers},
               objects : {world.objects}]
    BY <1>2, <1>5, <1>6 DEF WorldsAfter
  <2> QED BY <2>1 DEF Worlds
<1> QED BY <1>1, <1>6

-----------------------------------------------------------------------------
(* The outcomes of a handler *)

\* How an outcome relates to the phase `p', to what the clusters were and to
\* the conditions the handler was given.
Bounded(m, p, o) ==
    /\ Tame(m, o.conds)
    /\ o.world \in {world} \cup PartlyQuiesced(p) \cup WorldsAfter(m, p)
    /\ o.result \in {"done", "wait", "fail", "error", "conflict"}
    /\ o.result = "wait" => p \in Waiting /\ o.world = world
    /\ o.result = "fail" => p \in DOMAIN FailsTo /\ o.to = FailsTo[p] /\ o.world = world
    /\ o.result = "done" => o.world \in WorldsAfter(m, p)
    /\ "Blocked" \in o.conds.staged =>
          \/ o.result = "wait" /\ p \in VolumeWaits
          \/ o.result = "done" /\ p = "Verification"

\* The warning that a stage migration has nothing to do keeps the collection tame.
LEMMA StageNoOpFresh ==
    ASSUME NEW m \in Migrations, NEW r, Fresh(m, r)
    PROVE  /\ Tame(m, StageNoOp(m, r))
           /\ "Blocked" \notin StageNoOp(m, r).staged
<1>1. Tame(m, r) /\ "Blocked" \notin r.staged
  BY FreshIsTame
<1>2. "StageNoOp" \in ConditionTypes /\ "StageNoOp" \notin Successes \cup {"Failed"}
  BY TypeFacts DEF Successes
<1>3. StageNoOp(m, r) = r \/ (SpecOf[m].stage /\ StageNoOp(m, r) = With(r, "StageNoOp"))
  BY DEF StageNoOp
<1> QED BY <1>1, <1>2, <1>3, TameWith DEF CancelTypes

\* An outcome of a handler that is done is bounded.
LEMMA DoneBounded ==
    ASSUME NEW m \in Migrations, NEW r, Tame(m, r), NEW p,
           p \in CancelTypes => cr[m].canceled,
           "Blocked" \in r.staged => p = "Verification",
           NEW o \in Done(m, p, r)
    PROVE  Bounded(m, p, o)
<1>1. PICK w \in WorldsAfter(m, p) : o = Outcome("done", CondsNext(p, r, w), w, "unset")
  BY DEF Done
<1>2. /\ o.result = "done" /\ o.world = w
      /\ o.conds = CondsNext(p, r, w)
  BY <1>1 DEF Outcome
<1> QED BY <1>2, NextTame DEF Bounded

\* So is one where nothing goes wrong.
LEMMA RegularBounded ==
    ASSUME NEW m \in Migrations, NEW r, Tame(m, r), "Blocked" \notin r.staged, NEW p,
           p \in CancelTypes => cr[m].canceled,
           NEW o \in Regular(m, p, r)
    PROVE  Bounded(m, p, o)
<1>1. CASE o = Outcome("error", r, world, "unset")
  BY <1>1 DEF Outcome, Bounded
<1>2. CASE o \in Done(m, p, r)
  BY <1>2, DoneBounded
<1>3. CASE p \in Waiting /\ o = Outcome("wait", IF p \in VolumeWaits
                                        THEN DeleteCondition(r, {"Blocked"}) ELSE r,
                          world, "unset")
  <2>1. o.result = "wait" /\ o.world = world
    BY <1>3 DEF Outcome
  <2>2. CASE p \in VolumeWaits
    <3>1. o.conds = DeleteCondition(r, {"Blocked"})
      BY <1>3, <2>2 DEF Outcome
    <3>2. /\ o.conds.list = r.list
          /\ o.conds.staged = r.staged \ {"Blocked"}
          /\ Held(m, o.conds)
      BY <3>1, DeleteFacts, HeldDelete DEF Tame, Held, Lasting
    <3>3. Tame(m, o.conds) /\ "Blocked" \notin o.conds.staged
      BY <3>2 DEF Tame
    <3> QED BY <1>3, <2>1, <3>3 DEF Bounded
  <2>3. CASE p \notin VolumeWaits
    <3>1. o.conds = r
      BY <1>3, <2>3 DEF Outcome
    <3> QED BY <1>3, <2>1, <3>1 DEF Bounded
  <2> QED BY <2>2, <2>3
<1> QED BY <1>1, <1>2, <1>3 DEF Regular

\* So is one with a warning.
LEMMA WarnedBounded ==
    ASSUME NEW m \in Migrations, NEW r, Tame(m, r), "Blocked" \notin r.staged, NEW p,
           p \in CancelTypes => cr[m].canceled, "warn" \in FaultKinds,
           NEW o \in Warned(m, p, r)
    PROVE  Bounded(m, p, o)
<1>1. /\ "PartialFailure" \in ConditionTypes /\ "Blocked" \in ConditionTypes
      /\ "PartialFailure" \notin Successes \cup {"Failed"} \cup CancelTypes
      /\ "Blocked" \notin Successes \cup {"Failed"} \cup CancelTypes
  BY TypeFacts DEF Successes, CancelTypes
<1>2. /\ Tame(m, With(r, "PartialFailure"))
      /\ "Blocked" \notin With(r, "PartialFailure").staged
  BY <1>1, TameWith
<1>3. Tame(m, With(r, "Blocked"))
  BY <1>1, TameWith
<1>4. CASE o \in Done(m, p, With(r, "PartialFailure"))
  BY <1>2, <1>4, DoneBounded
<1>5. CASE p \in VolumeWaits /\ o = Outcome("wait", With(r, "Blocked"), world, "unset")
  <2>1. o.result = "wait" /\ o.world = world /\ o.conds = With(r, "Blocked")
    BY <1>5 DEF Outcome
  <2>2. p \in Waiting
    BY <1>5 DEF VolumeWaits, Waiting
  <2> QED BY <1>3, <1>5, <2>1, <2>2 DEF Bounded
<1>6. CASE p = "Verification" /\ o \in Done(m, p, With(r, "Blocked"))
  BY <1>3, <1>6, DoneBounded
<1> QED BY <1>4, <1>5, <1>6 DEF Warned

\* So is one with an error or a conflict.
LEMMA FailingBounded ==
    ASSUME NEW m \in Migrations, NEW r, Tame(m, r), "Blocked" \notin r.staged, NEW p,
           p \in CancelTypes => cr[m].canceled, NEW result \in {"error", "conflict"},
           NEW o \in Failing(result, m, p, r)
    PROVE  Bounded(m, p, o)
<1>1. CASE \E w \in {world} \cup PartlyQuiesced(p) : o = Outcome(result, r, w, "unset")
  BY <1>1 DEF Outcome, Bounded
<1>2. CASE \E w \in WorldsAfter(m, p) : o = Outcome(result, CondsNext(p, r, w), w, "unset")
  <2>1. PICK w \in WorldsAfter(m, p) : o = Outcome(result, CondsNext(p, r, w), w, "unset")
    BY <1>2
  <2>2. o.result = result /\ o.world = w /\ o.conds = CondsNext(p, r, w)
    BY <2>1 DEF Outcome
  <2> QED BY <2>2, NextTame DEF Bounded
<1> QED BY <1>1, <1>2 DEF Failing

\* Whatever happens in a handler, its outcome is bounded.
LEMMA OutcomeFacts ==
    ASSUME NEW m \in Migrations, NEW r, Tame(m, r), "Blocked" \notin r.staged, NEW p,
           p \in CancelTypes => cr[m].canceled,
           NEW fault \in {"none", "warn", "error", "conflict", "fail"},
           fault = "warn" => "warn" \in FaultKinds,
           NEW o \in Outcomes(m, p, r, fault)
    PROVE  Bounded(m, p, o)
<1>1. CASE fault = "none"
  BY <1>1, RegularBounded DEF Outcomes
<1>2. CASE fault = "warn"
  BY <1>2, WarnedBounded DEF Outcomes
<1>3. CASE fault = "error"
  BY <1>3, FailingBounded DEF Outcomes
<1>4. CASE fault = "conflict"
  BY <1>4, FailingBounded DEF Outcomes
<1>5. CASE fault = "fail"
  <2>1. p \in DOMAIN FailsTo /\ o = Outcome("fail", r, world, FailsTo[p])
    BY <1>5 DEF Outcomes
  <2> QED BY <2>1 DEF Outcome, Bounded
<1> QED BY <1>1, <1>2, <1>3, <1>4, <1>5

-----------------------------------------------------------------------------
(* What a pass that runs a phase leaves *)

\* A failure is recorded in the conditions, and the conditions are not those
\* of a rejected migration.
Recorded(m, status, r) ==
    /\ Held(m, r)
    /\ Rejected \notin r.list
    /\ status.canceled = cr[m].canceled
    /\ "Failed" \in TypesOf(r.list) => status.errors
    /\ status.errors /\ "early" \notin FaultKinds => "Failed" \in TypesOf(r.list)

\* Setting Failed records the failure, and stages it.
LEMMA RecordedFails ==
    ASSUME NEW m \in Migrations, NEW r, Tame(m, r), NEW status, status.errors,
           status.canceled = cr[m].canceled
    PROVE  /\ Recorded(m, status, With(r, "Failed"))
           /\ With(r, "Failed").staged = r.staged \cup {"Failed"}
           /\ With(r, "Failed").list = {d \in r.list : d.type # "Failed"} \cup {TheCondition("Failed")}
<1>1. /\ "Failed" \in ConditionTypes
      /\ "Failed" \notin Successes \cup CancelTypes
      /\ TheCondition("Failed").category # Warn
      /\ TheCondition("Failed") # Rejected
  BY TypeFacts, TheFacts, CatalogFacts DEF Successes, CancelTypes
<1>2. Held(m, With(r, "Failed"))
  BY <1>1, HeldWith DEF Tame
<1>3. /\ With(r, "Failed").list = {d \in r.list : d.type # "Failed"} \cup {TheCondition("Failed")}
      /\ With(r, "Failed").staged = r.staged \cup {"Failed"}
      /\ TheCondition("Failed").type = "Failed"
  BY <1>1, WithFacts, TheFacts DEF Tame, Held
<1>4. "Failed" \in TypesOf(With(r, "Failed").list)
  BY <1>3, TypesAre
<1>5. Rejected \notin With(r, "Failed").list
  BY <1>1, <1>3, CatalogFacts
<1> QED BY <1>2, <1>3, <1>4, <1>5 DEF Recorded

\* Setting Running leaves it recorded.
LEMMA RecordedRuns ==
    ASSUME NEW m \in Migrations, NEW r, NEW status, Recorded(m, status, r)
    PROVE  /\ Recorded(m, status, With(r, "Running"))
           /\ With(r, "Running").staged = r.staged \cup {"Running"}
<1>1. /\ "Running" \in ConditionTypes
      /\ "Running" \notin Successes \cup CancelTypes
      /\ TheCondition("Running").category # Warn
      /\ TheCondition("Running") # Rejected
  BY TypeFacts, TheFacts, CatalogFacts DEF Successes, CancelTypes
<1>2. Held(m, With(r, "Running"))
  BY <1>1, HeldWith DEF Recorded
<1>3. /\ With(r, "Running").list = {d \in r.list : d.type # "Running"} \cup {TheCondition("Running")}
      /\ With(r, "Running").staged = r.staged \cup {"Running"}
      /\ TheCondition("Running").type = "Running"
  BY <1>1, WithFacts, TheFacts DEF Recorded, Held
<1>4. \A t : t \in TypesOf(With(r, "Running").list) <=> t \in TypesOf(r.list) \/ t = "Running"
  BY <1>3, TypesAre
<1> QED BY <1>1, <1>2, <1>3, <1>4 DEF Recorded

\* A migration that is not over has no verdict; the warning of one pass is
\* kept only while the volumes are migrated.
LEMMA OpenTold ==
    ASSUME NEW m \in Migrations, NEW r, NEW status, Recorded(m, status, r),
           status.phase # "Completed", OnItinerary(status),
           status.itinerary = "Cancel" => status.canceled,
           "Blocked" \in r.staged => status.phase \in VolumeWaits /\ ~status.errors
    PROVE  Told(m, status, Kept(r))
<1>1. /\ UniqueTypes(Kept(r))
      /\ \A t : t \in TypesOf(Kept(r)) <=> t \in TypesOf(r.list) /\ t \in r.staged
      /\ Kept(r) \subseteq r.list
  BY KeptFacts DEF Recorded, Held, Kept
<1>2. Successes \cap TypesOf(Kept(r)) = {}
  BY <1>1 DEF Recorded, Held
<1>3. OneEnd(status, Kept(r))
  BY <1>1, <1>2 DEF OneEnd, Recorded
<1>4. WarningsTold(Kept(r))
  BY <1>2 DEF WarningsTold, Successes
<1>5. FailureTold(status, Kept(r))
  BY <1>1 DEF FailureTold, Recorded, Held, Lasting
<1>6. BlockedTold(status, Kept(r))
  BY <1>1 DEF BlockedTold
<1>7. Unwarned(m, Kept(r))
  BY <1>1 DEF Unwarned, Recorded, Held
<1>8. CancelTold(status, Kept(r))
  BY <1>1 DEF CancelTold, Recorded, Held
<1> QED BY <1>1, <1>3, <1>4, <1>5, <1>6, <1>7, <1>8 DEF Told

\* The verdict on a migration that is over is the only one, and a success
\* tells of warnings exactly when the migration keeps one.
LEMMA ClosedTold ==
    ASSUME NEW m \in Migrations, NEW r, NEW status, Recorded(m, status, r),
           status.phase = "Completed", status.itinerary = "Cancel" => status.canceled,
           "Blocked" \in TypesOf(r.list) => "Blocked" \in r.staged,
           NEW v, v = Verdict(DeleteCondition(r, {"Running"}))
    PROVE  /\ v \in Collections(AllConds)
           /\ Told(m, status, Kept(v))
<1>1. PICK d : d = DeleteCondition(r, {"Running"})
  OBVIOUS
<1>2. /\ Held(m, d)
      /\ d.list = r.list
      /\ d.staged = r.staged \ {"Running"}
  BY <1>1, HeldDelete, DeleteFacts DEF Recorded, Held, Lasting
<1>3. Recorded(m, status, d)
  BY <1>2 DEF Recorded
<1>4. \A c \in d.list : c.category = Warn => c.type \in d.staged
  <2>1. \A c \in d.list : c.category = Warn => c.type \in {"StageNoOp", "PartialFailure", "Blocked"}
    BY <1>2, CatalogFacts, CollectionFacts DEF Held
  <2>2. \A c \in d.list : c.type \in TypesOf(d.list)
    BY TypesAre
  <2> QED BY <1>2, <2>1, <2>2 DEF Held, Lasting
<1>5. OnItinerary(status)
  BY DEF OnItinerary
<1>6. CASE "Failed" \in TypesOf(d.list)
  <2>1. v = d
    BY <1>1, <1>6 DEF Verdict
  <2>2. /\ UniqueTypes(Kept(d))
        /\ \A t : t \in TypesOf(Kept(d)) <=> t \in TypesOf(d.list) /\ t \in d.staged
        /\ Kept(d) \subseteq d.list
    BY <1>2, KeptFacts DEF Held, Kept
  <2>3. "Failed" \in TypesOf(Kept(d)) /\ Successes \cap TypesOf(Kept(d)) = {}
    BY <1>2, <1>6, <2>2 DEF Held, Lasting
  <2>4. OneEnd(status, Kept(d))
    BY <1>2, <2>2, <2>3 DEF OneEnd, Verdicts, Successes
  <2>5. WarningsTold(Kept(d))
    BY <2>3 DEF WarningsTold, Successes
  <2>6. FailureTold(status, Kept(d)) /\ BlockedTold(status, Kept(d))
    BY <1>3, <2>2, <2>3 DEF FailureTold, BlockedTold, Recorded
  <2>7. Unwarned(m, Kept(d)) /\ CancelTold(status, Kept(d))
    BY <1>3, <2>2 DEF Unwarned, CancelTold, Recorded, Held
  <2> QED BY <1>2, <1>5, <2>1, <2>2, <2>4, <2>5, <2>6, <2>7 DEF Told, Held
<1>7. CASE "Failed" \notin TypesOf(d.list)
  <2>1. PICK type \in Successes :
           /\ v = With(d, type)
           /\ type = "Succeeded" => \A c \in d.list : c.category # Warn
           /\ type = "SucceededWithWarnings" => \E c \in d.list : c.category = Warn
    BY <1>1, <1>7 DEF Verdict, Successes, FindConditionByCategory
  <2>2. type \in ConditionTypes /\ type # "Failed" /\ type # "Running" /\ type # "Blocked"
    BY TypeFacts DEF Successes
  <2>3. /\ v \in Collections(AllConds)
        /\ v.list = {c \in d.list : c.type # type} \cup {TheCondition(type)}
        /\ v.staged = d.staged \cup {type}
        /\ TheCondition(type).type = type
        /\ TheCondition(type) \in AllConds
        /\ TheCondition(type).category # Warn
        /\ TheCondition(type) # Rejected
    BY <1>2, <2>1, <2>2, WithFacts, TheFacts, CatalogFacts DEF Held
  <2>4. UniqueTypes(v.list)
    BY <1>2, <2>3 DEF UniqueTypes, Held
  <2>5. \A t : t \in TypesOf(v.list) <=> t \in TypesOf(d.list) \/ t = type
    BY <2>3, TypesAre
  <2>6. /\ UniqueTypes(Kept(v))
        /\ \A t : t \in TypesOf(Kept(v)) <=> t \in TypesOf(v.list) /\ t \in v.staged
        /\ Kept(v) \subseteq v.list
    BY <2>3, <2>4, KeptFacts DEF Kept
  <2>7. type \in TypesOf(Kept(v)) /\ \A u \in Verdicts : u \in TypesOf(Kept(v)) => u = type
    BY <1>2, <1>7, <2>1, <2>3, <2>5, <2>6 DEF Held, Successes, Verdicts
  <2>8. OneEnd(status, Kept(v))
    BY <1>3, <2>2, <2>3, <2>6, <2>7, <1>2, <2>5 DEF OneEnd, Verdicts, Successes, Recorded
  <2>9. WarningsTold(Kept(v))
    <3>1. CASE type = "Succeeded"
      <4>1. \A c \in Kept(v) : c.category # Warn
        BY <2>1, <2>3, <2>6, <3>1
      <4>2. "SucceededWithWarnings" \notin TypesOf(Kept(v))
        BY <2>7, <3>1 DEF Verdicts
      <4> QED BY <4>1, <4>2 DEF WarningsTold
    <3>2. CASE type = "SucceededWithWarnings"
      <4>1. PICK c \in d.list : c.category = Warn
        BY <2>1, <3>2
      <4>2. c \in AllConds
        BY <1>2, CollectionFacts DEF Held
      <4>3. c.type # type
        BY <4>1, <4>2, <3>2, CatalogFacts DEF Successes
      <4>4. c \in Kept(v)
        BY <1>4, <2>3, <4>1, <4>3 DEF Kept
      <4>5. "Succeeded" \notin TypesOf(Kept(v))
        BY <2>7, <3>2 DEF Verdicts
      <4> QED BY <4>1, <4>4, <4>5 DEF WarningsTold
    <3> QED BY <3>1, <3>2 DEF Successes
  <2>10. FailureTold(status, Kept(v)) /\ BlockedTold(status, Kept(v))
    BY <1>3, <1>7, <2>2, <2>5, <2>6 DEF FailureTold, BlockedTold, Recorded
  <2>11. Unwarned(m, Kept(v))
    BY <1>3, <2>3, <2>6 DEF Unwarned, Recorded, Held
  <2>12. CancelTold(status, Kept(v))
    BY <1>3, <2>5, <2>6 DEF CancelTold, Recorded, Held, CancelTypes, Successes
  <2> QED BY <1>5, <2>3, <2>6, <2>8, <2>9, <2>10, <2>11, <2>12 DEF Told
<1> QED BY <1>6, <1>7

\* The phases a failing handler sends a migration to.
LEMMA FailsFacts ==
    ASSUME NEW p \in DOMAIN FailsTo
    PROVE  /\ FailsTo[p] \in Phases
           /\ FailsTo[p] # "unset" /\ FailsTo[p] # "Completed"
           /\ p # "MigrationFailed"
           /\ FailsTo[p] \notin VolumeWaits
           /\ FailsTo[p] # "UnQuiesceSrcApplications"
<1>1. "Failed" \in ItineraryNames
  BY DEF ItineraryNames
<1>2. "MigrationFailed" \in Phases
  BY <1>1, FirstIsPhase, FirstPhases, PhasesFacts
<1>3. FailsTo[p] \in
         {"InitialBackupFailed", "StageBackupFailed", "StageRestoreFailed",
          "FinalRestoreFailed", "SourceStagePodsFailed", "WaitForRegistriesReady",
          "MigrationFailed"}
  BY DEF FailsTo
<1>4. p # "MigrationFailed"
  BY DEF FailsTo
<1>5. FailsTo[p] \in Phases
  BY <1>2, <1>3 DEF Phases
<1> QED BY <1>3, <1>4, <1>5 DEF VolumeWaits

\* The status a pass makes of an outcome.
LEMMA StatusFacts ==
    ASSUME NEW m, MayPass(m), NEW v, Fresh(m, v), NEW itinerary,
           itinerary = ItineraryOf(m, v), NEW p, p = PhaseOf(m, itinerary),
           NEW o, Bounded(m, p, o), NEW status, status = ResultStatus(m, itinerary, p, o)
    PROVE  /\ status \in Statuses
           /\ status.stamp = cr[m].stamp
           /\ status.canceled = cr[m].canceled
           /\ cr[m].errors => status.errors
           /\ status.phase = "unset" => cr[m].phase = "unset"
           /\ status.phase = "Completed" =>
                 /\ o.result = "done"
                 /\ cr[m].phase # "unset" \/ status.errors
                 /\ cr[m].phase \in VolumeWaits => cr[m].errors
           /\ OnItinerary(status)
           /\ status.itinerary = "Cancel" => status.canceled
           /\ "Blocked" \in o.conds.staged =>
                 status.phase = "Completed" \/ (status.phase \in VolumeWaits /\ ~status.errors)
           /\ o.result \in {"done", "wait", "conflict"} => status.errors = cr[m].errors
           /\ o.result \in {"fail", "error"} => status.errors
           /\ o.result \in {"error", "conflict"} => status.phase = cr[m].phase
<1>1. /\ m \in Migrations /\ cr[m] \in Statuses
      /\ cr[m].phase # "Completed"
      /\ OnItinerary(cr[m])
      /\ cr[m].itinerary = "Cancel" => cr[m].canceled
  BY DEF MayPass, Completed, Told, CancelTold
<1>2. /\ itinerary \in ItineraryNames
      /\ itinerary = "Failed" <=> cr[m].errors
      /\ itinerary = "Cancel" => cr[m].canceled
      /\ p \in PhasesOf(ItineraryNamed(itinerary))
      /\ p # "unset" /\ p # "Completed"
      /\ itinerary = "Failed" => p = "MigrationFailed"
      /\ p = cr[m].phase \/ p = FirstPhase(itinerary)
      /\ cr[m].phase = "unset" => p = FirstPhase(itinerary)
  BY PhaseFacts
<1>3. p \in Phases
  BY <1>2, PhasesFacts
<1>4. CASE o.result = "error"
  <2>1. status = [cr[m] EXCEPT !.errors = TRUE]
    BY <1>4 DEF ResultStatus
  <2>2. /\ status \in Statuses
        /\ status.stamp = cr[m].stamp /\ status.phase = cr[m].phase
        /\ status.itinerary = cr[m].itinerary /\ status.errors
        /\ status.canceled = cr[m].canceled
    BY <1>1, <2>1 DEF Statuses
  <2>3. OnItinerary(status)
    BY <1>1, <2>2 DEF OnItinerary
  <2>4. "Blocked" \notin o.conds.staged
    BY <1>4 DEF Bounded
  <2> QED BY <1>1, <1>4, <2>2, <2>3, <2>4
<1>5. CASE o.result = "conflict"
  <2>1. status = cr[m]
    BY <1>5 DEF ResultStatus
  <2>2. "Blocked" \notin o.conds.staged
    BY <1>5 DEF Bounded
  <2> QED BY <1>1, <1>5, <2>1, <2>2
<1>6. CASE o.result = "fail"
  <2>1. /\ p \in DOMAIN FailsTo /\ o.to = FailsTo[p]
        /\ "Blocked" \notin o.conds.staged
    BY <1>6 DEF Bounded
  <2>2. status = [cr[m] EXCEPT !.itinerary = itinerary, !.errors = TRUE, !.phase = FailsTo[p]]
    BY <1>1, <1>6, <2>1 DEF ResultStatus, Statuses
  <2>3. FailsTo[p] \in Phases /\ FailsTo[p] # "unset" /\ FailsTo[p] # "Completed"
        /\ itinerary # "Failed"
    BY <1>2, <2>1, FailsFacts
  <2>4. /\ status \in Statuses
        /\ status.stamp = cr[m].stamp /\ status.phase = FailsTo[p]
        /\ status.itinerary = itinerary /\ status.errors
        /\ status.canceled = cr[m].canceled
    BY <1>1, <1>2, <2>2, <2>3 DEF Statuses
  <2>5. OnItinerary(status)
    BY <1>2, <2>3, <2>4 DEF OnItinerary
  <2> QED BY <1>2, <1>6, <2>1, <2>3, <2>4, <2>5
<1>7. CASE o.result = "wait"
  <2>1. itinerary # "Failed" /\ ~cr[m].errors
    BY <1>2, <1>7 DEF Bounded, Waiting
  <2>2. status = [cr[m] EXCEPT !.itinerary = itinerary, !.errors = cr[m].errors, !.phase = p]
    BY <1>1, <1>7 DEF ResultStatus, Statuses
  <2>3. /\ status \in Statuses
        /\ status.errors = cr[m].errors /\ status.phase = p
        /\ status.stamp = cr[m].stamp
        /\ status.itinerary = itinerary
        /\ status.canceled = cr[m].canceled
    BY <1>1, <1>2, <1>3, <2>2 DEF Statuses
  <2>4. OnItinerary(status)
    BY <1>2, <2>1, <2>3 DEF OnItinerary
  <2>5. "Blocked" \in o.conds.staged => p \in VolumeWaits
    BY <1>7 DEF Bounded
  <2> QED BY <1>2, <1>7, <2>1, <2>2, <2>3, <2>4, <2>5
<1>8. CASE o.result = "done"
  <2>1. PICK next : next = NextOf(m, itinerary, p, o.conds)
    OBVIOUS
  <2>2. status = [cr[m] EXCEPT !.itinerary = itinerary, !.errors = cr[m].errors,
                               !.phase = next]
    BY <1>1, <1>8, <2>1 DEF ResultStatus, Statuses
  <2>3. itinerary = "Failed" <=> p = "MigrationFailed"
    BY <1>2, OnlyFailedFails
  <2>4. /\ itinerary = "Failed" => next = "Completed"
        /\ itinerary # "Failed" => next \in PhasesOf(ItineraryNamed(itinerary))
        /\ next \in Phases /\ next # "unset"
        /\ itinerary # "Failed" /\ (p = FirstPhase(itinerary) \/ p \in VolumeWaits)
              => next # "Completed"
        /\ p = "Verification" => next = "Completed"
    BY <1>2, <2>1, <2>3, NextFacts
  <2>5. /\ status \in Statuses
        /\ status.errors = cr[m].errors /\ status.phase = next
        /\ status.stamp = cr[m].stamp
        /\ status.itinerary = itinerary
        /\ status.canceled = cr[m].canceled
    BY <1>1, <1>2, <2>2, <2>4 DEF Statuses
  <2>6. OnItinerary(status)
    BY <1>2, <2>2, <2>4, <2>5 DEF OnItinerary
  <2>7. "Blocked" \in o.conds.staged => p = "Verification"
    BY <1>8 DEF Bounded
  <2>8. next = "Completed" =>
           /\ cr[m].phase # "unset" \/ cr[m].errors
           /\ cr[m].phase \in VolumeWaits => cr[m].errors
    BY <1>2, <2>4
  <2> QED BY <1>2, <1>8, <2>2, <2>4, <2>5, <2>6, <2>7, <2>8
<1> QED BY <1>4, <1>5, <1>6, <1>7, <1>8 DEF Bounded

\* Running a phase leaves a status that tells the truth.
LEMMA RunSound ==
    ASSUME NEW m, MayPass(m), NEW v, Fresh(m, v), NEW itinerary,
           itinerary = ItineraryOf(m, v), NEW p, p = PhaseOf(m, itinerary),
           NEW o, Bounded(m, p, o), NEW status, status = ResultStatus(m, itinerary, p, o)
    PROVE  Sound(m, status, ReadyAndEnded(status, ResultConds(status, o)))
<1>1. /\ status \in Statuses
      /\ status.stamp = cr[m].stamp
      /\ status.canceled = cr[m].canceled
      /\ cr[m].errors => status.errors
      /\ status.phase = "unset" => cr[m].phase = "unset"
      /\ status.phase = "Completed" =>
            /\ o.result = "done"
            /\ cr[m].phase # "unset" \/ status.errors
            /\ cr[m].phase \in VolumeWaits => cr[m].errors
      /\ OnItinerary(status)
      /\ status.itinerary = "Cancel" => status.canceled
      /\ "Blocked" \in o.conds.staged =>
            status.phase = "Completed" \/ (status.phase \in VolumeWaits /\ ~status.errors)
      /\ o.result \in {"done", "wait", "conflict"} => status.errors = cr[m].errors
      /\ o.result \in {"fail", "error"} => status.errors
      /\ o.result \in {"error", "conflict"} => status.phase = cr[m].phase
  BY StatusFacts
<1>2. m \in Migrations /\ cr[m].phase # "Completed" /\ Tame(m, o.conds)
  BY DEF MayPass, Completed, Bounded
<1>3. PICK r : r = ResultConds(status, o)
  OBVIOUS
<1>4. o.result \notin {"fail", "error"} => Recorded(m, status, o.conds)
  BY <1>1, <1>2 DEF Bounded, Tame, Held, Recorded
<1>5. r \in Collections(AllConds) /\ Told(m, status, Kept(r))
  <2>1. CASE o.result = "error"
    <3>1. r = With(o.conds, "Failed")
      BY <1>3, <2>1 DEF ResultConds
    <3>2. Recorded(m, status, r) /\ r.staged = o.conds.staged \cup {"Failed"}
      BY <1>1, <1>2, <2>1, <3>1, RecordedFails
    <3> QED BY <1>1, <1>2, <2>1, <3>2, OpenTold DEF Recorded, Held
  <2>2. CASE o.result = "conflict"
    <3>1. r = o.conds
      BY <1>3, <2>2 DEF ResultConds
    <3> QED BY <1>1, <1>2, <1>4, <2>2, <3>1, OpenTold DEF Recorded, Held
  <2>3. CASE o.result = "fail"
    <3>1. r = With(With(o.conds, "Failed"), "Running") /\ status.phase # "Completed"
      BY <1>1, <1>3, <2>3 DEF ResultConds
    <3>2. /\ Recorded(m, status, r)
          /\ r.staged = o.conds.staged \cup {"Failed", "Running"}
      BY <1>1, <1>2, <2>3, <3>1, RecordedFails, RecordedRuns
    <3> QED BY <1>1, <1>2, <3>1, <3>2, OpenTold DEF Recorded, Held
  <2>4. CASE o.result \in {"wait", "done"} /\ status.phase # "Completed"
    <3>1. r = With(o.conds, "Running")
      BY <1>3, <2>4 DEF ResultConds
    <3>2. Recorded(m, status, r) /\ r.staged = o.conds.staged \cup {"Running"}
      BY <1>2, <1>4, <2>4, <3>1, RecordedRuns
    <3> QED BY <1>1, <1>2, <2>4, <3>2, OpenTold DEF Recorded, Held
  <2>5. CASE o.result = "done" /\ status.phase = "Completed"
    <3>1. r = Verdict(DeleteCondition(o.conds, {"Running"}))
      BY <1>3, <2>5 DEF ResultConds
    <3>2. "Blocked" \in TypesOf(o.conds.list) => "Blocked" \in o.conds.staged
      BY <1>1, <1>2, <2>5 DEF Tame
    <3> QED BY <1>1, <1>2, <1>4, <2>5, <3>1, <3>2, ClosedTold
  <2> QED BY <1>1, <2>1, <2>2, <2>3, <2>4, <2>5 DEF Bounded
<1>6. Told(m, status, ReadyAndEnded(status, r).list)
  BY <1>2, <1>5, EndsTold
<1>7. Ended(ReadyAndEnded(status, r))
  BY <1>5, ReadyFacts
<1> QED BY <1>1, <1>3, <1>6, <1>7 DEF Sound

-----------------------------------------------------------------------------
(* Timestamps and faults *)

\* A function from a finite set to the numbers has an upper bound.
LEMMA BoundExists ==
    ASSUME NEW S, IsFiniteSet(S), NEW f \in [S -> Nat]
    PROVE  \E b \in Nat : \A x \in S : f[x] <= b
<1> DEFINE HasBound(T) == \E b \in Nat : \A x \in T : f[x] <= b
           Sizes == {Cardinality(T) : T \in {T \in SUBSET S : ~HasBound(T)}}
<1>1. Sizes \in SUBSET Nat
  BY FS_Subset, FS_CardinalityType
<1>2. ASSUME NEW n \in Sizes
       PROVE  \E k \in Sizes : k < n
  <2>1. PICK T \in SUBSET S : ~HasBound(T) /\ n = Cardinality(T)
    BY <1>2
  <2>2. IsFiniteSet(T) /\ n \in Nat
    BY <1>1, FS_Subset
  <2>3. PICK x \in T : TRUE
    <3>1. 0 \in Nat
      OBVIOUS
    <3> QED BY <2>1, <3>1
  <2>4. PICK U : U = T \ {x}
    OBVIOUS
  <2>5. Cardinality(U) = Cardinality(T) - 1
    BY <2>2, <2>3, <2>4, FS_RemoveElement
  <2>6. ~HasBound(U)
    <3> SUFFICES ASSUME HasBound(U) PROVE HasBound(T)
      BY <2>1
    <3>1. PICK b \in Nat : \A y \in U : f[y] <= b
      OBVIOUS
    <3>2. PICK c : c = IF f[x] <= b THEN b ELSE f[x]
      OBVIOUS
    <3>3. f[x] \in Nat
      BY <2>3
    <3>4. c \in Nat /\ b <= c /\ f[x] <= c
      BY <3>2, <3>3
    <3>5. ASSUME NEW y \in T PROVE f[y] <= c
      <4>1. f[y] \in Nat
        OBVIOUS
      <4>2. y = x \/ y \in U
        BY <2>4
      <4> QED BY <3>1, <3>4, <4>1, <4>2
    <3> QED BY <3>4, <3>5
  <2>7. Cardinality(U) \in Sizes
    BY <2>4, <2>6
  <2>8. Cardinality(U) < n
    BY <2>1, <2>2, <2>5
  <2> QED BY <2>7, <2>8
<1>3. Sizes = {}
  <2> SUFFICES ASSUME Sizes # {} PROVE FALSE
    OBVIOUS
  <2>1. PICK n \in Sizes : \A k \in Sizes : n <= k
    BY <1>1, Least
  <2>2. PICK k \in Sizes : k < n
    BY <1>2
  <2>3. n <= k /\ n \in Nat /\ k \in Nat
    BY <1>1, <2>1
  <2> QED BY <2>2, <2>3
<1>4. HasBound(S)
  BY <1>3
<1> QED BY <1>4

\* Latest is the newest timestamp.
LEMMA LatestFacts ==
    ASSUME cr \in [Migrations -> Statuses], NEW m \in Migrations
    PROVE  Latest \in Nat /\ \A n \in Migrations : cr[n].stamp <= Latest
<1>1. PICK stamps : stamps = {cr[n].stamp : n \in Migrations}
  OBVIOUS
<1>2. \A n \in Migrations : cr[n].stamp \in Nat
  BY DEF Statuses
<1>3. PICK f : f = [n \in Migrations |-> cr[n].stamp]
  OBVIOUS
<1>4. f \in [Migrations -> Nat] /\ \A n \in Migrations : f[n] = cr[n].stamp
  BY <1>2, <1>3
<1>5. IsFiniteSet(Migrations)
  BY MigMigrationAssumption
<1>6. PICK bounds : bounds = {b \in Nat : \A n \in Migrations : cr[n].stamp <= b}
  OBVIOUS
<1>7. PICK b \in bounds : \A c \in bounds : b <= c
  <2>1. PICK b \in Nat : \A n \in Migrations : f[n] <= b
    BY <1>4, <1>5, BoundExists
  <2>2. b \in bounds
    BY <1>4, <1>6, <2>1
  <2> QED BY <1>6, <2>2, Least
<1>8. \E n \in Migrations : cr[n].stamp = b
  <2> SUFFICES ASSUME \A n \in Migrations : cr[n].stamp # b
               PROVE  FALSE
    OBVIOUS
  <2>1. b \in Nat /\ \A n \in Migrations : cr[n].stamp < b
    BY <1>2, <1>6, <1>7
  <2>2. b > 0
    BY <1>2, <2>1
  <2>3. b - 1 \in bounds
    BY <1>2, <1>6, <2>1, <2>2
  <2> QED BY <1>7, <2>1, <2>3
<1>9. b \in stamps /\ \A s \in stamps : b >= s
  BY <1>1, <1>2, <1>6, <1>7, <1>8
<1>10. Max(stamps) \in stamps /\ \A s \in stamps : Max(stamps) >= s
  BY <1>9 DEF Max
<1> QED BY <1>1, <1>2, <1>10 DEF Latest

\* A fault counts against the bound.
LEMMA SpendFacts ==
    ASSUME faults \in 0..MaxFaults, NEW kinds, Spend(kinds)
    PROVE  faults' \in 0..MaxFaults /\ kinds \subseteq FaultKinds
<1>1. kinds \in SUBSET AllFaults
  BY MigMigrationAssumption DEF Spend
<1>2. \A S, x : IsFiniteSet(S) => IsFiniteSet(S \cup {x})
  BY FS_AddElement
<1>3. IsFiniteSet(AllFaults)
  <2>1. IsFiniteSet({} \cup {"early"} \cup {"late"} \cup {"planNotReady"})
    BY <1>2, FS_EmptySet
  <2>2. IsFiniteSet({"early", "late", "planNotReady"} \cup {"registry"} \cup {"error"}
                    \cup {"conflict"})
    <3>1. IsFiniteSet({"early", "late", "planNotReady"})
      BY <2>1
    <3> QED BY <1>2, <3>1
  <2>3. IsFiniteSet({"early", "late", "planNotReady", "registry", "error", "conflict"}
                    \cup {"fail"} \cup {"warn"} \cup {"save"} \cup {"lost"})
    <3>1. IsFiniteSet({"early", "late", "planNotReady", "registry", "error", "conflict"})
      BY <2>2
    <3> QED BY <1>2, <3>1
  <2> QED BY <2>3 DEF AllFaults
<1>4. Cardinality(kinds) \in Nat
  BY <1>1, <1>3, FS_Subset, FS_CardinalityType
<1>5. MaxFaults \in Nat
  BY MigMigrationAssumption
<1> QED BY <1>4, <1>5 DEF Spend

-----------------------------------------------------------------------------
(* The steps keep the invariant *)

\* The invariant gives a pass what it needs to know.
LEMMA MayPassFacts ==
    ASSUME IInv, NEW m \in Pending
    PROVE  MayPass(m) /\ Created(m)
BY DEF IInv, TypeOK, AllTold, MayPass, Pending

\* A pass ends soundly.
LEMMA FinishKeeps ==
    ASSUME IInv, pass = NoPass, NEW m \in Pending, NEW status, NEW conds,
           Sound(m, status, conds), NEW w \in Worlds, Finish(m, status, conds, w),
           faults' \in 0..MaxFaults
    PROVE  IInv'
<1>1. /\ cr' = cr /\ plan' = plan /\ world' \in Worlds
      /\ pass' = [on |-> m, status |-> status, conds |-> conds, stale |-> FALSE]
  BY DEF Finish
<1>2. m \in Migrations
  BY DEF Pending
<1>3. /\ status \in Statuses
      /\ conds \in Collections(AllConds)
      /\ ~conds.staging
      /\ \A c \in conds.list : c.type \in conds.staged
      /\ Told(m, status, conds.list)
  BY DEF Sound, Ended
<1>4. /\ pass'.on = m /\ pass'.status = status /\ pass'.conds = conds
      /\ pass'.stale = FALSE
  BY <1>1
<1>5. TypeOK'
  BY <1>1, <1>2, <1>3 DEF IInv, TypeOK, AllConds
<1>6. AllTold'
  BY <1>1 DEF IInv, AllTold
<1>7. \A n \in Migrations : Begun(n)'
  BY <1>1 DEF IInv, Begun, Created
<1>8. Pending' = Pending
  BY <1>1 DEF Pending, Created, Completed
<1>9. Writing'
  BY <1>1, <1>3, <1>4, <1>8 DEF Writing, Sound
<1> QED BY <1>5, <1>6, <1>7, <1>9 DEF IInv

\* A pass that fails before it begins staging keeps the invariant.
LEMMA FailEarlyKeeps ==
    ASSUME IInv, pass = NoPass, NEW m \in Pending, FailEarly(m)
    PROVE  IInv'
<1>1. MayPass(m) /\ world \in Worlds /\ faults \in 0..MaxFaults
  BY MayPassFacts DEF IInv, TypeOK
<1>2. faults' \in 0..MaxFaults /\ "early" \in FaultKinds
  BY <1>1, SpendFacts DEF FailEarly
<1> QED BY <1>1, <1>2, EarlySound, FinishKeeps DEF FailEarly

\* So does one that fails after it.
LEMMA FailLateKeeps ==
    ASSUME IInv, pass = NoPass, NEW m \in Pending, FailLate(m)
    PROVE  IInv'
<1>1. MayPass(m) /\ world \in Worlds /\ faults \in 0..MaxFaults
  BY MayPassFacts DEF IInv, TypeOK
<1>2. faults' \in 0..MaxFaults
  BY <1>1, SpendFacts DEF FailLate
<1>3. CASE Finish(m, cr[m],
                  SetReconcileFailed(BeginStagingConditions(Loaded(cr[m].conds))), world)
  <2>1. Fresh(m, BeginStagingConditions(Loaded(cr[m].conds)))
    BY <1>1, BeginsFresh DEF MayPass
  <2> QED BY <1>1, <1>2, <1>3, <2>1, QuietSound, FinishKeeps
<1>4. CASE \E found \in FinalMigrationFound(m) :
              Finish(m, ValidateType(cr[m], m),
                     SetReconcileFailed(
                         Validated(m, FALSE, found, "Registries" \in world.helpers)),
                     world)
  BY <1>1, <1>2, <1>4, ValidatedSound, FinishKeeps
<1> QED BY <1>3, <1>4 DEF FailLate

\* So does one that finds a blocker.
LEMMA RefuseKeeps ==
    ASSUME IInv, pass = NoPass, NEW m \in Pending, Refuse(m)
    PROVE  IInv'
<1>1. MayPass(m) /\ world \in Worlds /\ faults \in 0..MaxFaults
  BY MayPassFacts DEF IInv, TypeOK
<1>20. PICK notReady \in BOOLEAN, unhealthy \in BOOLEAN, found \in FinalMigrationFound(m) :
         \E r, status :
             /\ r = Validated(m, notReady, found, "Registries" \in world.helpers /\ ~unhealthy)
             /\ status = ValidateType(cr[m], m)
             /\ Spend({k \in {"planNotReady"} : notReady} \cup {k \in {"registry"} : unhealthy})
             /\ Finish(m, status, ReadyAndEnded(status, r), world)
  BY DEF Refuse
<1>2. PICK r, status :
         /\ r = Validated(m, notReady, found, "Registries" \in world.helpers /\ ~unhealthy)
         /\ status = ValidateType(cr[m], m)
         /\ Spend({k \in {"planNotReady"} : notReady} \cup {k \in {"registry"} : unhealthy})
         /\ Finish(m, status, ReadyAndEnded(status, r), world)
  BY <1>20
<1>3. faults' \in 0..MaxFaults
  BY <1>1, <1>2, SpendFacts
<1>4. Sound(m, status, ReadyAndEnded(status, r))
  BY <1>1, <1>2, ValidatedSound
<1> QED BY <1>1, <1>2, <1>3, <1>4, FinishKeeps

\* So does one of a migration that has to wait for its turn.
LEMMA PostponeKeeps ==
    ASSUME IInv, pass = NoPass, NEW m \in Pending, Postpone(m)
    PROVE  IInv'
<1>1. MayPass(m) /\ world \in Worlds /\ faults \in 0..MaxFaults /\ m \in Migrations
  BY MayPassFacts DEF IInv, TypeOK, Pending
<1>2. PICK r \in Clear(m) :
         Finish(m, cr[m], ReadyAndEnded(cr[m], With(r, "Postponed")), world)
  BY DEF Postpone
<1>3. Fresh(m, With(r, "Postponed"))
  BY <1>1, ClearFacts, FreshWith DEF Neutral
<1>4. faults' \in 0..MaxFaults
  BY <1>1 DEF Postpone
<1> QED BY <1>1, <1>2, <1>3, <1>4, QuietSound, FinishKeeps

\* What a run is: a phase of an itinerary, an outcome of its handler, and the
\* status made of it.
Ran(m, v, itinerary, p, fault, o, status) ==
    /\ v \in Clear(m)
    /\ itinerary = ItineraryOf(m, v)
    /\ p = PhaseOf(m, itinerary)
    /\ fault \in {"none", "warn", "error", "conflict", "fail"}
    /\ o \in Outcomes(m, p, StageNoOp(m, v), fault)
    /\ status = ResultStatus(m, itinerary, p, o)
    /\ Spend({fault} \ {"none"})
    /\ Finish(m, status, ReadyAndEnded(status, ResultConds(status, o)), o.world)

\* A run is a phase, an outcome and a status.
LEMMA RunIs ==
    ASSUME NEW m, Run(m)
    PROVE  \E v, itinerary, p, fault, o, status : Ran(m, v, itinerary, p, fault, o, status)
BY DEF Run, Ran

\* The conditions a run begins with are fresh, and its outcome is bounded.
LEMMA RanFacts ==
    ASSUME IInv, NEW m \in Pending, NEW v, NEW itinerary, NEW p, NEW fault, NEW o, NEW status,
           Ran(m, v, itinerary, p, fault, o, status)
    PROVE  /\ MayPass(m)
           /\ m \in Migrations
           /\ Fresh(m, v) /\ ~HasBlockerCondition(v)
           /\ Bounded(m, p, o)
           /\ faults' \in 0..MaxFaults
           /\ o.world \in Worlds
<1>1. MayPass(m) /\ world \in Worlds /\ faults \in 0..MaxFaults /\ m \in Migrations
  BY MayPassFacts DEF IInv, TypeOK, Pending
<1>2. Fresh(m, v) /\ ~HasBlockerCondition(v)
  BY <1>1, ClearFacts DEF Ran
<1>3. faults' \in 0..MaxFaults /\ {fault} \ {"none"} \subseteq FaultKinds
  BY <1>1, SpendFacts DEF Ran
<1>4. p \in CancelTypes => cr[m].canceled
  BY <1>1, <1>2, PhaseFacts DEF Ran
<1>5. Tame(m, StageNoOp(m, v)) /\ "Blocked" \notin StageNoOp(m, v).staged
  BY <1>1, <1>2, StageNoOpFresh
<1>6. Bounded(m, p, o)
  BY <1>1, <1>3, <1>4, <1>5, OutcomeFacts DEF Ran
<1>7. o.world \in Worlds
  BY <1>1, <1>6, WorldsTyped DEF Bounded
<1> QED BY <1>1, <1>2, <1>3, <1>6, <1>7

\* A pass that runs a phase keeps the invariant.
LEMMA RunKeeps ==
    ASSUME IInv, pass = NoPass, NEW m \in Pending, Run(m)
    PROVE  IInv'
<1>1. PICK v, itinerary, p, fault, o, status : Ran(m, v, itinerary, p, fault, o, status)
  BY RunIs
<1>2. /\ MayPass(m) /\ Fresh(m, v) /\ Bounded(m, p, o)
      /\ faults' \in 0..MaxFaults /\ o.world \in Worlds
  BY <1>1, RanFacts
<1>3. Sound(m, status, ReadyAndEnded(status, ResultConds(status, o)))
  BY <1>1, <1>2, RunSound DEF Ran
<1> QED BY <1>1, <1>2, <1>3, FinishKeeps DEF Ran

\* What is told of a status depends on four fields, and may be told of one
\* that was canceled since.
LEMMA SameTold ==
    ASSUME NEW m, NEW status, NEW list, Told(m, status, list), NEW other,
           other.phase = status.phase, other.itinerary = status.itinerary,
           other.errors = status.errors, status.canceled => other.canceled
    PROVE  Told(m, other, list)
<1>1. OneEnd(other, list) /\ FailureTold(other, list) /\ BlockedTold(other, list)
  BY DEF Told, OneEnd, FailureTold, BlockedTold
<1>2. OnItinerary(other) /\ CancelTold(other, list)
  BY DEF Told, OnItinerary, CancelTold
<1> QED BY <1>1, <1>2 DEF Told

\* The creation of a migration keeps the invariant.
LEMMA CreateKeeps ==
    ASSUME IInv, NEW m \in Migrations, Create(m)
    PROVE  IInv'
<1>1. cr \in [Migrations -> Statuses] /\ cr[m].stamp = 0
  <2>1. cr \in [Migrations -> Statuses] /\ cr[m].stamp \in Nat
    BY DEF IInv, TypeOK, Statuses
  <2>2. ~(cr[m].stamp > 0)
    BY DEF Create, Created
  <2> QED BY <2>1, <2>2
<1>2. PICK stamp \in {Latest + 1} \cup (IF SameSecond /\ Latest > 0 THEN {Latest} ELSE {}) :
         cr' = [cr EXCEPT ![m].stamp = stamp]
  BY DEF Create
<1>3. stamp \in Nat /\ stamp > 0
  <2>1. Latest \in Nat
    BY <1>1, LatestFacts
  <2>2. stamp = Latest + 1 \/ (stamp = Latest /\ Latest > 0)
    OBVIOUS
  <2> QED BY <2>1, <2>2
<1>4. /\ cr' \in [Migrations -> Statuses]
      /\ \A n \in Migrations \ {m} : cr'[n] = cr[n]
      /\ cr'[m].stamp = stamp
      /\ cr'[m].phase = cr[m].phase /\ cr'[m].itinerary = cr[m].itinerary
      /\ cr'[m].errors = cr[m].errors /\ cr'[m].canceled = cr[m].canceled
      /\ cr'[m].conds = cr[m].conds
  BY <1>1, <1>2, <1>3 DEF Statuses
<1>5. pass' = pass /\ world' = world /\ faults' = faults /\ plan' = plan
  BY DEF Create
<1>6. TypeOK'
  BY <1>4, <1>5 DEF IInv, TypeOK
<1>7. AllTold'
  <2> SUFFICES ASSUME NEW n \in Migrations
               PROVE  Told(n, cr'[n], cr'[n].conds)
    BY DEF AllTold
  <2>1. Told(n, cr[n], cr[n].conds)
    BY DEF IInv, AllTold
  <2> QED BY <1>4, <2>1, SameTold
<1>8. \A n \in Migrations : Begun(n)'
  BY <1>3, <1>4 DEF IInv, Begun, Created
<1>9. Writing'
  <2> SUFFICES ASSUME pass # NoPass
               PROVE  Writing'
    BY <1>5 DEF Writing
  <2>1. pass.on \in Pending /\ pass.on # m
    BY <1>1 DEF IInv, Writing, Pending, Created
  <2>2. cr'[pass.on] = cr[pass.on] /\ pass.on \in Pending'
    BY <1>4, <2>1 DEF Pending, Created, Completed
  <2> QED BY <1>5, <2>2 DEF IInv, Writing
<1> QED BY <1>6, <1>7, <1>8, <1>9 DEF IInv

\* So does a cancel, in the middle of a pass too.
LEMMA CancelKeeps ==
    ASSUME IInv, NEW m \in Migrations, Cancel(m)
    PROVE  IInv'
<1>1. cr \in [Migrations -> Statuses] /\ cr' = [cr EXCEPT ![m].canceled = TRUE]
  BY DEF IInv, TypeOK, Cancel
<1>2. /\ cr' \in [Migrations -> Statuses]
      /\ \A n \in Migrations \ {m} : cr'[n] = cr[n]
      /\ cr'[m].canceled
      /\ cr'[m].phase = cr[m].phase /\ cr'[m].itinerary = cr[m].itinerary
      /\ cr'[m].errors = cr[m].errors /\ cr'[m].stamp = cr[m].stamp
      /\ cr'[m].conds = cr[m].conds
  BY <1>1 DEF Statuses
<1>3. world' = world /\ faults' = faults /\ plan' = plan
  BY DEF Cancel
<1>4. CASE pass = NoPass
  <2>1. pass.on # m
    BY <1>4, MigMigrationAssumption DEF NoPass
  <2> QED
    <3>1. pass' = NoPass
      BY <1>4, <2>1 DEF Cancel
    <3>2. TypeOK'
      BY <1>2, <1>3, <3>1 DEF IInv, TypeOK
    <3>3. AllTold'
      <4> SUFFICES ASSUME NEW n \in Migrations
                   PROVE  Told(n, cr'[n], cr'[n].conds)
        BY DEF AllTold
      <4>1. Told(n, cr[n], cr[n].conds)
        BY DEF IInv, AllTold
      <4> QED BY <1>2, <4>1, SameTold
    <3>4. \A n \in Migrations : Begun(n)'
      BY <1>2 DEF IInv, Begun, Created
    <3> QED BY <3>1, <3>2, <3>3, <3>4 DEF IInv, Writing
<1>5. CASE pass # NoPass
  <2>1. PICK stale \in BOOLEAN :
           pass' = [on |-> pass.on, status |-> pass.status, conds |-> pass.conds, stale |-> stale]
    <3>1. pass = [on |-> pass.on, status |-> pass.status, conds |-> pass.conds,
                  stale |-> pass.stale] /\ pass.stale \in BOOLEAN
      BY <1>5 DEF IInv, TypeOK
    <3>2. CASE pass.on = m
      <4>1. pass' = [pass EXCEPT !.stale = TRUE]
        BY <3>2 DEF Cancel
      <4> QED BY <3>1, <4>1
    <3>3. CASE pass.on # m
      <4>1. pass' = pass
        BY <3>3 DEF Cancel
      <4> QED BY <3>1, <4>1
    <3> QED BY <3>2, <3>3
  <2>2. /\ pass.on \in Migrations /\ pass.status \in Statuses
        /\ pass.conds \in Collections(AllConds)
    BY <1>5 DEF IInv, TypeOK, AllConds
  <2>3. TypeOK'
    BY <1>2, <1>3, <2>1, <2>2 DEF IInv, TypeOK, AllConds
  <2>4. AllTold'
    <3> SUFFICES ASSUME NEW n \in Migrations
                 PROVE  Told(n, cr'[n], cr'[n].conds)
      BY DEF AllTold
    <3>1. Told(n, cr[n], cr[n].conds)
      BY DEF IInv, AllTold
    <3> QED BY <1>2, <3>1, SameTold
  <2>5. \A n \in Migrations : Begun(n)'
    BY <1>2 DEF IInv, Begun, Created
  <2>6. Pending' = Pending
    BY <1>2 DEF Pending, Created, Completed
  <2>7. Writing'
    <3>1. pass'.on = pass.on /\ pass'.status = pass.status /\ pass'.conds = pass.conds
      BY <2>1
    <3>2. /\ cr[pass.on].canceled => cr'[pass.on].canceled
          /\ cr'[pass.on].phase = cr[pass.on].phase
          /\ cr'[pass.on].errors = cr[pass.on].errors
          /\ cr'[pass.on].stamp = cr[pass.on].stamp
      BY <1>2, <2>2
    <3> QED BY <1>5, <2>6, <3>1, <3>2 DEF IInv, Writing
  <2> QED BY <2>3, <2>4, <2>5, <2>7 DEF IInv
<1> QED BY <1>4, <1>5

\* So does the write of a pass, or the conflict it meets.
LEMMA SaveKeeps ==
    ASSUME IInv, Save
    PROVE  IInv'
<1>1. /\ pass # NoPass /\ pass' = NoPass
      /\ world' = world /\ faults' = faults /\ plan' = plan
  BY DEF Save
<1>2. CASE pass.stale
  <2>1. cr' = cr
    BY <1>2 DEF Save
  <2> QED BY <1>1, <2>1 DEF IInv, TypeOK, AllTold, Begun, Created, Writing
<1>3. CASE ~pass.stale
  <2>1. PICK m : m = pass.on
    OBVIOUS
  <2>2. /\ cr \in [Migrations -> Statuses] /\ m \in Migrations /\ pass.status \in Statuses
        /\ pass.conds \in Collections(AllConds)
    BY <1>1, <2>1 DEF IInv, TypeOK, AllConds
  <2>3. /\ m \in Pending /\ Told(m, pass.status, pass.conds.list)
        /\ pass.status.stamp = cr[m].stamp
        /\ pass.status.canceled => cr[m].canceled
    BY <1>1, <2>1 DEF IInv, Writing
  <2>4. PICK list : list = pass.conds.list
    OBVIOUS
  <2>5. list \in SUBSET (MigrationConditions \cup {Rejected})
    BY <2>2, <2>4, CollectionFacts DEF AllConds
  <2>6. /\ Written \in Statuses
        /\ Written.phase = pass.status.phase /\ Written.itinerary = pass.status.itinerary
        /\ Written.errors = pass.status.errors /\ Written.stamp = pass.status.stamp
        /\ Written.canceled = cr[m].canceled
        /\ Written.conds = list
    BY <2>1, <2>2, <2>4, <2>5 DEF Written, Statuses
  <2>7. cr' = [cr EXCEPT ![m] = Written]
    BY <1>3, <2>1 DEF Save
  <2>8. /\ cr' \in [Migrations -> Statuses]
        /\ cr'[m] = Written
        /\ \A n \in Migrations \ {m} : cr'[n] = cr[n]
    BY <2>2, <2>6, <2>7
  <2>9. Told(m, Written, Written.conds)
    BY <2>3, <2>4, <2>6, SameTold
  <2>10. AllTold'
    BY <2>8, <2>9 DEF IInv, AllTold
  <2>11. \A n \in Migrations : Begun(n)'
    BY <2>3, <2>6, <2>8 DEF IInv, Begun, Created, Pending
  <2> QED BY <1>1, <2>8, <2>10, <2>11 DEF IInv, TypeOK, Writing
<1> QED BY <1>2, <1>3

\* So does a write that fails and is repeated with ReconcileFailed.
LEMMA SaveFailsKeeps ==
    ASSUME IInv, SaveFails
    PROVE  IInv'
<1>1. /\ pass # NoPass /\ pass' = [pass EXCEPT !.conds = SetReconcileFailed(@)]
      /\ cr' = cr /\ world' = world /\ plan' = plan
      /\ faults' \in 0..MaxFaults
  BY SpendFacts DEF SaveFails, IInv, TypeOK
<1>2. /\ pass.on \in Migrations /\ pass.status \in Statuses
      /\ pass.conds \in Collections(AllConds) /\ pass.stale \in BOOLEAN
      /\ pass = [on |-> pass.on, status |-> pass.status, conds |-> pass.conds,
                 stale |-> pass.stale]
  BY <1>1 DEF IInv, TypeOK, AllConds
<1>3. PICK conds : conds = SetReconcileFailed(pass.conds)
  OBVIOUS
<1>4. pass' = [on |-> pass.on, status |-> pass.status, conds |-> conds, stale |-> pass.stale]
  BY <1>1, <1>2, <1>3
<1>5. Ended(conds)
  BY <1>2, <1>3, ReconcileFailedFacts
<1>6. Kept(pass.conds) = pass.conds.list
  BY <1>1 DEF IInv, Writing, Kept
<1>7. Told(pass.on, pass.status, conds.list)
  BY <1>1, <1>2, <1>3, <1>6, EndsTold DEF IInv, Writing
<1>8. /\ pass'.on = pass.on /\ pass'.status = pass.status /\ pass'.conds = conds
  BY <1>4
<1>9. TypeOK'
  BY <1>1, <1>2, <1>4, <1>5 DEF IInv, TypeOK, Ended, AllConds
<1>10. Pending' = Pending
  BY <1>1 DEF Pending, Created, Completed
<1>11. Writing'
  BY <1>1, <1>5, <1>7, <1>8, <1>10 DEF IInv, Writing, Ended
<1>12. AllTold' /\ \A n \in Migrations : Begun(n)'
  BY <1>1 DEF IInv, AllTold, Begun, Created
<1> QED BY <1>9, <1>11, <1>12 DEF IInv

\* So does a pass whose write is lost.
LEMMA LostKeeps ==
    ASSUME IInv, Lost
    PROVE  IInv'
<1>1. /\ pass' = NoPass /\ cr' = cr /\ world' = world /\ plan' = plan
      /\ faults' \in 0..MaxFaults
  BY SpendFacts DEF Lost, IInv, TypeOK
<1> QED BY <1>1 DEF IInv, TypeOK, AllTold, Begun, Created, Writing

\* The model starts with statuses that tell nothing.
LEMMA IInvInit == Init => IInv
<1> SUFFICES ASSUME Init PROVE IInv
  OBVIOUS
<1>1. "unset" \in Phases
  BY PhasesFacts
<1>2. Absent \in Statuses
  BY <1>1 DEF Absent, Statuses
<1>3. cr = [m \in Migrations |-> Absent] /\ pass = NoPass
  BY DEF Init
<1>4. world \in Worlds
  BY DEF Init, Worlds
<1>5. MaxFaults \in Nat
  BY MigMigrationAssumption
<1>6. TypeOK
  BY <1>2, <1>3, <1>4, <1>5 DEF TypeOK, Init
<1>7. ASSUME NEW m \in Migrations
       PROVE  Told(m, Absent, {})
  <2>1. TypesOf({}) = {}
    BY DEF TypesOf
  <2>2. OneEnd(Absent, {}) /\ WarningsTold({}) /\ FailureTold(Absent, {})
    BY <2>1 DEF OneEnd, WarningsTold, FailureTold, Absent
  <2>3. BlockedTold(Absent, {}) /\ Unwarned(m, {}) /\ UniqueTypes({})
    BY <2>1 DEF BlockedTold, Unwarned, UniqueTypes
  <2>4. OnItinerary(Absent) /\ CancelTold(Absent, {})
    BY <2>1 DEF OnItinerary, CancelTold, Absent
  <2> QED BY <2>2, <2>3, <2>4 DEF Told
<1>8. AllTold /\ \A m \in Migrations : Begun(m)
  BY <1>3, <1>7 DEF AllTold, Begun, Absent
<1> QED BY <1>3, <1>6, <1>8 DEF IInv, Writing

\* Every step keeps the invariant.
LEMMA IInvNext == IInv /\ [Next]_vars => IInv'
<1> SUFFICES ASSUME IInv, [Next]_vars PROVE IInv'
  OBVIOUS
<1>1. ASSUME NEW m \in Migrations, StartPass(m)
      PROVE  IInv'
  <2>1. pass = NoPass /\ m \in Pending
    BY <1>1 DEF StartPass
  <2> QED BY <1>1, <2>1, FailEarlyKeeps, FailLateKeeps, RefuseKeeps, PostponeKeeps, RunKeeps
          DEF StartPass
<1>2. CASE UNCHANGED vars
  BY <1>2 DEF vars, IInv, TypeOK, AllTold, Begun, Created, Writing, Pending, Completed
<1> QED BY <1>1, <1>2, CreateKeeps, CancelKeeps, SaveKeeps, SaveFailsKeeps, LostKeeps DEF Next

\* The invariant holds in every state.
LEMMA IInvHolds == Spec => []IInv
BY IInvInit, IInvNext, PTL DEF Spec

-----------------------------------------------------------------------------
(* Verdicts *)

\* Every status a migration can have, and every write under way, is of its type.
THEOREM TypeCorrect == Spec => []TypeOK
<1>1. IInv => TypeOK
  BY DEF IInv
<1> QED BY <1>1, IInvHolds, PTL

\* The invariant says that verdicts are true.
LEMMA VerdictIsTrue == IInv => TrueVerdict
<1> SUFFICES ASSUME IInv, NEW m \in Migrations
             PROVE  /\ Completed(m) => /\ \E v \in Verdicts : Has(m, v) /\ \A u \in Verdicts : Has(m, u) => u = v
                                       /\ ~Has(m, "Running")
                    /\ Has(m, "Succeeded") \/ Has(m, "SucceededWithWarnings") => Completed(m)
                    /\ Has(m, "SucceededWithWarnings") => {c \in cr[m].conds : c.category = Warn} # {}
                    /\ Has(m, "Succeeded") => {c \in cr[m].conds : c.category = Warn} = {}
  BY DEF TrueVerdict, OneVerdict, WarningsShown
<1>1. OneEnd(cr[m], cr[m].conds) /\ WarningsTold(cr[m].conds)
  BY DEF IInv, AllTold, Told
<1> QED BY <1>1 DEF OneEnd, WarningsTold, Has, Completed, Successes

\* Whatever fails, is lost, retried or canceled on the way: a migration has one
\* verdict exactly when it is over, and a success tells of warnings exactly
\* when one is left to see (migrate.go:84-112).
THEOREM VerdictsTrue == Spec => []TrueVerdict
BY VerdictIsTrue, IInvHolds, PTL

\* As long as no pass fails before it begins staging the conditions, the
\* verdict is honest too: a migration with errors is never a success.
THEOREM VerdictsHonest ==
    ASSUME "early" \notin FaultKinds
    PROVE  Spec => []HonestVerdict
<1>1. IInv => ErrorsNeverSucceed
  <2> SUFFICES ASSUME IInv, NEW m \in Migrations, Completed(m), cr[m].errors
               PROVE  ~Has(m, "Succeeded") /\ ~Has(m, "SucceededWithWarnings")
    BY DEF ErrorsNeverSucceed
  <2>1. OneEnd(cr[m], cr[m].conds) /\ FailureTold(cr[m], cr[m].conds)
    BY DEF IInv, AllTold, Told
  <2>2. Has(m, "Failed") /\ \A u \in Verdicts : Has(m, u) => u = "Failed"
    BY <2>1 DEF OneEnd, FailureTold, Has, Completed, Verdicts
  <2> QED BY <2>2 DEF Verdicts
<1>2. IInv => HonestVerdict
  BY <1>1, VerdictIsTrue DEF HonestVerdict
<1> QED BY <1>2, IInvHolds, PTL

-----------------------------------------------------------------------------
(* Final migrations *)

\* A final migration that was found is a blocker, whatever else validation
\* looks at.
LEMMA FoundBlocks ==
    ASSUME NEW m, MayPass(m), ~SpecOf[m].rollback, NEW healthy
    PROVE  HasBlockerCondition(Validated(m, FALSE, TRUE, healthy))
<1>1. CASE RejectedType(m)
  BY <1>1, ValidatedFacts, BarredBlocks DEF MayPass
<1>2. CASE ~RejectedType(m)
  <2> DEFINE Bars(r) == /\ r \in Collections(AllConds)
                        /\ r.staging
                        /\ TheCondition("HasFinalMigration") \in r.list
                        /\ "HasFinalMigration" \in r.staged
  <2>1. PICK begun : begun = BeginStagingConditions(Loaded(cr[m].conds))
    OBVIOUS
  <2>2. begun \in Collections(AllConds) /\ begun.staging
    BY <2>1, BeginsFresh DEF MayPass, Fresh, Held
  <2>3. /\ {"HasFinalMigration", "RegistriesHealthy", "RegistriesUnhealthy"} \subseteq ConditionTypes
        /\ TheCondition("HasFinalMigration").category = Critical
        /\ TheCondition("HasFinalMigration").type = "HasFinalMigration"
    BY TypeFacts, TheFacts
  <2>4. PICK r : r = With(begun, "HasFinalMigration")
    OBVIOUS
  <2>5. Bars(r)
    BY SMTT(60), <2>2, <2>3, <2>4, WithFacts
  <2>6. PICK v : v = ValidateRegistries(r, healthy)
    OBVIOUS
  <2>7. Validated(m, FALSE, TRUE, healthy) = v
    BY <1>2, <2>1, <2>4, <2>6
       DEF Validated, ValidatePlan, ValidateTypeConds, ValidateFinal
  <2>8. Bars(v)
    <3>1. ASSUME NEW gone \in {"RegistriesHealthy", "RegistriesUnhealthy"},
                 NEW type \in {"RegistriesHealthy", "RegistriesUnhealthy"}
          PROVE  Bars(With(DeleteCondition(r, {gone}), type))
      <4>1. PICK d : d = DeleteCondition(r, {gone})
        OBVIOUS
      <4>2. Bars(d)
        BY <2>5, <4>1, DeleteFacts
      <4>3. type \in ConditionTypes /\ type # "HasFinalMigration"
        BY <2>3
      <4>4. /\ With(d, type) \in Collections(AllConds)
            /\ With(d, type).list = {c \in d.list : c.type # type} \cup {TheCondition(type)}
            /\ With(d, type).staged = d.staged \cup {type}
            /\ With(d, type).staging = d.staging
        BY <4>2, <4>3, WithFacts
      <4> QED BY <2>3, <4>1, <4>2, <4>3, <4>4
    <3>2. \/ v = r
          \/ v = With(DeleteCondition(r, {"RegistriesUnhealthy"}), "RegistriesHealthy")
          \/ v = With(DeleteCondition(r, {"RegistriesHealthy"}), "RegistriesUnhealthy")
      BY <2>6 DEF ValidateRegistries
    <3> QED BY <2>5, <3>1, <3>2
  <2>9. TheCondition("HasFinalMigration") \in Visible(v)
    BY <2>3, <2>8 DEF Visible
  <2> QED BY <2>3, <2>7, <2>9 DEF HasBlockerCondition, HasConditionCategory
<1> QED BY <1>1, <1>2

\* A final migration that ended well, without a warning, has the condition
\* that the others look for.
LEMMA GoodSucceeded ==
    ASSUME IInv, "warn" \notin FaultKinds, NEW n \in Migrations, Good(n)
    PROVE  Has(n, "Succeeded") /\ Created(n)
<1>1. /\ OneEnd(cr[n], cr[n].conds) /\ WarningsTold(cr[n].conds)
      /\ FailureTold(cr[n], cr[n].conds) /\ Unwarned(n, cr[n].conds)
      /\ Begun(n)
  BY DEF IInv, AllTold, Told
<1>2. cr[n].phase = "Completed" /\ ~cr[n].errors /\ ~SpecOf[n].stage
  BY DEF Good, Final, Completed
<1>3. "Failed" \notin TypesOf(cr[n].conds)
  BY <1>1, <1>2 DEF FailureTold
<1>4. "SucceededWithWarnings" \notin TypesOf(cr[n].conds)
  BY <1>1, <1>2 DEF WarningsTold, Unwarned
<1>5. Has(n, "Succeeded")
  BY <1>1, <1>2, <1>3, <1>4 DEF OneEnd, Verdicts, Has
<1> QED BY <1>1, <1>2, <1>5 DEF Begun

\* A final migration is run only while every other one that ended well has
\* been rolled back.
LEMMA ClearUndone ==
    ASSUME IInv, "warn" \notin FaultKinds, NEW m \in Pending, Final(m), NEW v \in Clear(m),
           NEW n \in Migrations \ {m}, Good(n)
    PROVE  Undone
<1>1. MayPass(m) /\ ~SpecOf[m].rollback
  BY MayPassFacts DEF Final
<1>2. PICK found \in FinalMigrationFound(m) :
         v = Validated(m, FALSE, found, "Registries" \in world.helpers)
  BY DEF Clear
<1>3. ~HasBlockerCondition(v)
  BY DEF Clear
<1>4. ~found
  <2>1. found \in BOOLEAN
    BY DEF FinalMigrationFound
  <2> QED BY <1>1, <1>2, <1>3, <2>1, FoundBlocks
<1>5. \A k \in Finished(m) : \E r \in UndoneBy(m) : cr[r].stamp >= cr[k].stamp
  BY <1>2, <1>4 DEF FinalMigrationFound
<1>6. n \in Finished(m)
  <2>1. Has(n, "Succeeded") /\ Created(n)
    BY GoodSucceeded
  <2>2. n \in Considered(m) /\ n \notin UndoneBy(m)
    BY <2>1 DEF Considered, UndoneBy, Good, Final
  <2> QED BY <2>1, <2>2 DEF Finished
<1>7. PICK r \in UndoneBy(m) : TRUE
  BY <1>5, <1>6
<1> QED BY <1>7 DEF Undone, UndoneBy, Considered

\* How a pass leaves the migrations: it ends well only by running.
LEMMA PassesEnd ==
    ASSUME IInv, pass = NoPass, NEW m \in Pending, StartPass(m)
    PROVE  /\ cr' = cr /\ plan' = plan /\ pass' # NoPass
           /\ pass'.on = m
           /\ \/ world' = world /\ pass'.status = cr[m]
              \/ /\ world' = world /\ pass'.status.phase = "Completed"
                 /\ pass'.status.errors
              \/ \E v, itinerary, p, fault, o, status :
                    /\ Ran(m, v, itinerary, p, fault, o, status)
                    /\ FALSE \in PostponedBy(m)
                    /\ world' = o.world /\ pass'.status = status
<1>1. m \in Migrations /\ cr[m] \in Statuses
  BY DEF Pending, IInv, TypeOK
<1>2. ASSUME NEW status, NEW conds, NEW w, Finish(m, status, conds, w)
      PROVE  /\ cr' = cr /\ plan' = plan /\ pass' # NoPass
             /\ pass'.on = m /\ pass'.status = status /\ world' = w
  <2>1. pass' = [on |-> m, status |-> status, conds |-> conds, stale |-> FALSE]
    BY <1>2 DEF Finish
  <2>2. pass'.on = m /\ pass'.status = status
    BY <2>1
  <2>3. pass' # NoPass
    <3>1. NoPass.on = "none"
      BY DEF NoPass
    <3> QED BY <1>1, <2>2, <3>1, MigMigrationAssumption
  <2> QED BY <1>2, <2>2, <2>3 DEF Finish
<1>3. \/ ValidateType(cr[m], m) = cr[m]
      \/ ValidateType(cr[m], m).phase = "Completed" /\ ValidateType(cr[m], m).errors
  <2>1. [cr[m] EXCEPT !.phase = "Completed", !.errors = TRUE].phase = "Completed"
        /\ [cr[m] EXCEPT !.phase = "Completed", !.errors = TRUE].errors
    BY <1>1 DEF Statuses
  <2> QED BY <2>1 DEF ValidateType
<1>4. CASE FailEarly(m)
  BY <1>2, <1>4 DEF FailEarly
<1>5. CASE FailLate(m)
  <2>1. PICK conds : \/ Finish(m, cr[m], conds, world)
                     \/ Finish(m, ValidateType(cr[m], m), conds, world)
    BY <1>5 DEF FailLate
  <2> QED BY <1>2, <1>3, <2>1
<1>6. CASE Refuse(m)
  <2>1. PICK conds : Finish(m, ValidateType(cr[m], m), conds, world)
    BY <1>6 DEF Refuse
  <2> QED BY <1>2, <1>3, <2>1
<1>7. CASE Postpone(m)
  <2>1. PICK conds : Finish(m, cr[m], conds, world)
    BY <1>7 DEF Postpone
  <2> QED BY <1>2, <2>1
<1>8. CASE Run(m)
  <2>1. PICK v, itinerary, p, fault, o, status : Ran(m, v, itinerary, p, fault, o, status)
    BY <1>8, RunIs
  <2>2. FALSE \in PostponedBy(m)
    BY <1>8 DEF Run
  <2>3. Finish(m, status, ReadyAndEnded(status, ResultConds(status, o)), o.world)
    BY <2>1 DEF Ran
  <2>4. /\ cr' = cr /\ plan' = plan /\ pass' # NoPass
        /\ pass'.on = m /\ pass'.status = status /\ world' = o.world
    BY <1>2, <2>3
  <2> QED BY <2>1, <2>2, <2>4
<1> QED BY <1>4, <1>5, <1>6, <1>7, <1>8 DEF StartPass

\* What the write of a pass does to the migrations.
LEMMA SaveFacts ==
    ASSUME IInv, Save
    PROVE  /\ pass # NoPass /\ pass' = NoPass /\ world' = world
           /\ pass.on \in Pending
           /\ pass.on \in Migrations
           /\ \/ cr' = cr
              \/ /\ \A n \in Migrations \ {pass.on} : cr'[n] = cr[n]
                 /\ cr'[pass.on].phase = pass.status.phase
                 /\ cr'[pass.on].itinerary = pass.status.itinerary
                 /\ cr'[pass.on].errors = pass.status.errors
                 /\ cr'[pass.on].stamp = cr[pass.on].stamp
                 /\ cr'[pass.on].conds = pass.conds.list
<1>1. pass # NoPass /\ pass' = NoPass /\ world' = world
  BY DEF Save
<1>2. /\ cr \in [Migrations -> Statuses] /\ pass.on \in Migrations
      /\ pass.on \in Pending /\ pass.status \in Statuses
      /\ pass.status.stamp = cr[pass.on].stamp
  BY <1>1 DEF IInv, TypeOK, Writing
<1>3. CASE pass.stale
  BY <1>1, <1>2, <1>3 DEF Save
<1>4. CASE ~pass.stale
  <2>1. /\ Written.phase = pass.status.phase /\ Written.itinerary = pass.status.itinerary
        /\ Written.errors = pass.status.errors /\ Written.stamp = pass.status.stamp
        /\ Written.conds = pass.conds.list
    BY <1>2 DEF Written, Statuses
  <2>2. cr' = [cr EXCEPT ![pass.on] = Written]
    BY <1>4 DEF Save
  <2>3. /\ cr'[pass.on] = Written
        /\ \A n \in Migrations \ {pass.on} : cr'[n] = cr[n]
    BY <1>2, <2>2
  <2> QED BY <1>1, <1>2, <2>1, <2>3
<1> QED BY <1>3, <1>4

\* What users do to them.
LEMMA UserFacts ==
    ASSUME IInv, NEW m \in Migrations, Create(m) \/ Cancel(m)
    PROVE  /\ world' = world
           /\ pass # NoPass <=> pass' # NoPass
           /\ pass' # NoPass => pass'.on = pass.on /\ pass'.status = pass.status
           /\ \A n \in Migrations :
                 /\ cr'[n].phase = cr[n].phase /\ cr'[n].itinerary = cr[n].itinerary
                 /\ cr'[n].errors = cr[n].errors
                 /\ cr'[n].conds = cr[n].conds
                 /\ cr[n].canceled => cr'[n].canceled
                 /\ n # m \/ Cancel(m) => cr'[n].stamp = cr[n].stamp
<1>1. cr \in [Migrations -> Statuses]
  BY DEF IInv, TypeOK
<1>2. CASE Create(m)
  <2>1. PICK stamp : cr' = [cr EXCEPT ![m].stamp = stamp]
    BY <1>2 DEF Create
  <2>2. pass' = pass /\ world' = world
    BY <1>2 DEF Create
  <2>3. \A n \in Migrations :
           /\ cr'[n].phase = cr[n].phase /\ cr'[n].itinerary = cr[n].itinerary
           /\ cr'[n].errors = cr[n].errors
           /\ cr'[n].conds = cr[n].conds
           /\ cr[n].canceled = cr'[n].canceled
           /\ n # m => cr'[n].stamp = cr[n].stamp
    BY <1>1, <2>1 DEF Statuses
  <2>4. ASSUME Cancel(m) PROVE FALSE
    BY <1>2, <2>4 DEF Create, Cancel
  <2> QED BY <2>2, <2>3, <2>4
<1>3. CASE Cancel(m)
  <2>1. cr' = [cr EXCEPT ![m].canceled = TRUE] /\ world' = world
    BY <1>3 DEF Cancel
  <2>2. \A n \in Migrations :
           /\ cr'[n].phase = cr[n].phase /\ cr'[n].itinerary = cr[n].itinerary
           /\ cr'[n].errors = cr[n].errors
           /\ cr'[n].conds = cr[n].conds
           /\ cr[n].canceled => cr'[n].canceled
           /\ cr'[n].stamp = cr[n].stamp
    BY <1>1, <2>1 DEF Statuses
  <2>3. CASE pass = NoPass
    <3>1. pass.on # m
      BY <2>3, MigMigrationAssumption DEF NoPass
    <3> QED BY <1>3, <2>1, <2>2, <2>3, <3>1 DEF Cancel
  <2>4. CASE pass # NoPass /\ pass.on = m
    <3>1. /\ pass' = [pass EXCEPT !.stale = TRUE]
          /\ pass = [on |-> pass.on, status |-> pass.status, conds |-> pass.conds,
                     stale |-> pass.stale]
      BY <1>3, <2>4 DEF Cancel, IInv, TypeOK
    <3>2. pass'.on = pass.on /\ pass'.status = pass.status
      BY <3>1
    <3>3. pass' # NoPass
      BY <2>4, <3>2, MigMigrationAssumption DEF NoPass
    <3> QED BY <2>1, <2>2, <2>4, <3>2, <3>3
  <2>5. CASE pass # NoPass /\ pass.on # m
    BY <1>3, <2>1, <2>2, <2>5 DEF Cancel
  <2> QED BY <2>3, <2>4, <2>5
<1> QED BY <1>2, <1>3

\* The write that fails leaves the status that was to be written.
LEMMA SaveFailsFacts ==
    ASSUME IInv, SaveFails
    PROVE  /\ cr' = cr /\ world' = world
           /\ pass # NoPass
           /\ pass'.on = pass.on /\ pass'.status = pass.status
<1>1. /\ pass' = [pass EXCEPT !.conds = SetReconcileFailed(@)]
      /\ pass = [on |-> pass.on, status |-> pass.status, conds |-> pass.conds,
                 stale |-> pass.stale]
      /\ cr' = cr /\ world' = world /\ pass # NoPass
  BY DEF SaveFails, IInv, TypeOK
<1>2. pass'.on = pass.on /\ pass'.status = pass.status
  BY <1>1
<1> QED BY <1>1, <1>2

\* In the beginning no migration has ended.
LEMMA NoSecondInit == Init => NoSecondInv
BY DEF Init, NoSecondInv, Good, Completed, Absent

\* Every step keeps one final migration, unless it was undone.
LEMMA NoSecondNext == IInv /\ NoSecondInv /\ [Next]_vars => NoSecondInv'
<1> SUFFICES ASSUME IInv, NoSecondInv, [Next]_vars, "warn" \notin FaultKinds
             PROVE  NoSecondInv'
  BY DEF NoSecondInv
<1>1. ASSUME NEW m \in Migrations, Create(m) \/ Cancel(m)
      PROVE  NoSecondInv'
  <2>1. \A n \in Migrations : (Good(n)' => Good(n)) /\ (Has(n, "Succeeded") => Has(n, "Succeeded")')
    BY <1>1, UserFacts DEF Good, Completed, Has
  <2>2. Undone => Undone'
    BY <2>1 DEF Undone
  <2>3. pass # NoPass => pass.on \in Migrations
    BY DEF IInv, TypeOK
  <2>4. pass' # NoPass => pass # NoPass /\ pass'.on = pass.on /\ pass'.status = pass.status
    BY <1>1, UserFacts
  <2> QED BY <2>1, <2>2, <2>3, <2>4 DEF NoSecondInv
<1>2. ASSUME NEW m \in Migrations, StartPass(m)
      PROVE  NoSecondInv'
  <2>1. m \in Pending /\ pass = NoPass
    BY <1>2 DEF StartPass
  <2>2. /\ cr' = cr /\ pass'.on = m
        /\ \/ pass'.status = cr[m]
           \/ pass'.status.errors
           \/ \E v : v \in Clear(m)
    BY ZenonT(60), <1>2, <2>1, PassesEnd DEF Ran
  <2>3. cr[m].phase # "Completed"
    BY <2>1 DEF Pending, Completed
  <2>4. \A n \in Migrations : Good(n)' <=> Good(n)
    BY <2>2 DEF Good, Completed
  <2>5. Undone <=> Undone'
    BY <2>2 DEF Undone, Has
  <2>6. ASSUME Final(m), pass'.status.phase = "Completed", ~pass'.status.errors,
               NEW n \in Migrations \ {m}, Good(n)
        PROVE  Undone
    <3>1. PICK v : v \in Clear(m)
      BY <2>2, <2>3, <2>6
    <3> QED BY <2>1, <2>6, <3>1, ClearUndone
  <2> QED BY <2>2, <2>4, <2>5, <2>6 DEF NoSecondInv
<1>3. CASE Save
  <2>1. PICK on : on = pass.on
    OBVIOUS
  <2>2. /\ pass # NoPass /\ pass' = NoPass
        /\ on \in Pending /\ on \in Migrations
        /\ \/ cr' = cr
           \/ /\ \A n \in Migrations \ {on} : cr'[n] = cr[n]
              /\ cr'[on].phase = pass.status.phase
              /\ cr'[on].errors = pass.status.errors
    BY <1>3, <2>1, SaveFacts
  <2>3. CASE cr' = cr
    BY <2>2, <2>3 DEF NoSecondInv, Good, Completed, Undone, Has
  <2>4. CASE /\ \A n \in Migrations \ {on} : cr'[n] = cr[n]
             /\ cr'[on].phase = pass.status.phase
             /\ cr'[on].errors = pass.status.errors
    <3>1. \A n \in Migrations \ {on} :
             (Good(n)' <=> Good(n)) /\ (Has(n, "Succeeded")' <=> Has(n, "Succeeded"))
      BY <2>4 DEF Good, Completed, Has
    <3>2. ~Has(on, "Succeeded")
      <4>1. cr[on].phase # "Completed" /\ OneEnd(cr[on], cr[on].conds)
        BY <2>2 DEF Pending, Completed, IInv, AllTold, Told
      <4> QED BY <4>1 DEF OneEnd, Successes, Has
    <3>3. Undone => Undone'
      BY <3>1, <3>2 DEF Undone
    <3>4. Good(on)' => Final(on) /\ pass.status.phase = "Completed" /\ ~pass.status.errors
      BY <2>4 DEF Good, Completed
    <3>5. Good(on)' => \A n \in Migrations \ {on} : Good(n) => Undone
      BY <2>1, <2>2, <3>4 DEF NoSecondInv
    <3>6. ASSUME NEW m \in Migrations, NEW n \in Migrations, m # n, Good(m)', Good(n)'
          PROVE  Undone
      <4>1. CASE m = on
        <5>1. Good(on)' /\ n \in Migrations \ {on} /\ Good(n)
          BY <3>1, <3>6, <4>1
        <5> QED BY <3>5, <5>1
      <4>2. CASE n = on
        <5>1. Good(on)' /\ m \in Migrations \ {on} /\ Good(m)
          BY <3>1, <3>6, <4>2
        <5> QED BY <3>5, <5>1
      <4>3. CASE m # on /\ n # on
        BY <3>1, <3>6, <4>3 DEF NoSecondInv
      <4> QED BY <4>1, <4>2, <4>3
    <3> QED BY <2>2, <3>3, <3>6 DEF NoSecondInv
  <2> QED BY <2>2, <2>3, <2>4
<1>4. CASE SaveFails
  BY <1>4, SaveFailsFacts DEF NoSecondInv, Good, Completed, Undone, Has
<1>5. CASE Lost
  <2>1. pass' = NoPass /\ cr' = cr
    BY <1>5 DEF Lost
  <2> QED BY <2>1 DEF NoSecondInv, Good, Completed, Undone, Has
<1>6. CASE UNCHANGED vars
  BY <1>6 DEF vars, NoSecondInv, Good, Completed, Undone, Has
<1> QED BY <1>1, <1>2, <1>3, <1>4, <1>5, <1>6 DEF Next

\* However the migrations of a plan are created, canceled and retried: where
\* handlers raise no warnings, of two final migrations that ended without
\* errors one was rolled back (validation.go:289-378).
THEOREM NoSecond ==
    ASSUME "warn" \notin FaultKinds
    PROVE  Spec => []NoSecondFinal
<1>1. NoSecondInv => NoSecondFinal
  BY DEF NoSecondInv, NoSecondFinal, Good, Undone
<1>2. Spec => []NoSecondInv
  BY NoSecondInit, NoSecondNext, IInvHolds, PTL DEF Spec
<1> QED BY <1>1, <1>2, PTL

-----------------------------------------------------------------------------
(* Failed migrations *)

\* Only a pass that runs a phase touches the clusters.
LEMMA WorldSteps ==
    ASSUME IInv, [Next]_vars, world' # world
    PROVE  /\ pass = NoPass
           /\ pass'.on \in Pending
           /\ \E v, itinerary, p, fault, o, status :
                 /\ Ran(pass'.on, v, itinerary, p, fault, o, status)
                 /\ FALSE \in PostponedBy(pass'.on)
                 /\ world' = o.world
<1>1. PICK m \in Migrations : StartPass(m)
  BY UserFacts, SaveFacts, SaveFailsFacts DEF Next, Lost, vars
<1>2. m \in Pending /\ pass = NoPass
  BY <1>1 DEF StartPass
<1>3. pass'.on = m
  BY <1>1, <1>2, PassesEnd
<1>4. \E v, itinerary, p, fault, o, status :
         /\ Ran(m, v, itinerary, p, fault, o, status)
         /\ FALSE \in PostponedBy(m)
         /\ world' = o.world
  BY <1>1, <1>2, PassesEnd
<1> QED BY <1>2, <1>3, <1>4

\* A migration with errors goes by the itinerary Failed and leaves the clusters
\* alone.
LEMMA ErrorsStop ==
    ASSUME IInv, [Next]_vars
    PROVE  [world' # world => ~cr[pass'.on].errors]_vars
<1> SUFFICES ASSUME world' # world, cr[pass'.on].errors
             PROVE  FALSE
  OBVIOUS
<1>1. PICK m : m = pass'.on
  OBVIOUS
<1>2. /\ m \in Pending
      /\ \E v, itinerary, p, fault, o, status :
            Ran(m, v, itinerary, p, fault, o, status) /\ world' = o.world
  BY <1>1, WorldSteps
<1>3. PICK v, itinerary, p, fault, o, status :
         Ran(m, v, itinerary, p, fault, o, status) /\ world' = o.world
  BY <1>2
<1>4. MayPass(m) /\ m \in Migrations /\ Fresh(m, v) /\ Bounded(m, p, o) /\ world \in Worlds
  BY <1>2, <1>3, RanFacts DEF IInv, TypeOK
<1>5. p = "MigrationFailed"
  BY <1>1, <1>3, <1>4, PhaseFacts DEF Ran
<1>6. o.world = world
  BY <1>4, <1>5, FailedWorld DEF Bounded
<1> QED BY <1>3, <1>6

\* From the moment the errors of a migration are stored no step of it changes
\* anything on the clusters (migrate.go:84-112, task.go:196-206).
THEOREM FailedStops == Spec => FailedTouchesNothing
<1>1. IInv /\ [Next]_vars => [world' # world => ~cr[pass'.on].errors]_vars
  BY ErrorsStop
<1> QED BY <1>1, IInvHolds, PTL DEF Spec, FailedTouchesNothing

-----------------------------------------------------------------------------
(* The queue *)

\* Timestamps decide who is at the head.
LEMMA TurnsInit == Init => Turns
BY DEF Init, Turns, Created, Pending, Underway, Absent

\* There is one head of the queue.
LEMMA HeadIsAlone ==
    ASSUME Turns, ~SameSecond, ~LateStages, IInv, NEW m \in Heads, NEW n \in Heads
    PROVE  m = n
<1>1. /\ m \in Pending /\ n \in Pending /\ ~Before(m, n) /\ ~Before(n, m)
  BY DEF Heads
<1>2. m \in Migrations /\ n \in Migrations /\ Created(m) /\ Created(n)
  BY <1>1 DEF Pending
<1>3. cr[m].stamp \in Nat /\ cr[n].stamp \in Nat
  BY <1>2 DEF IInv, TypeOK, Statuses
<1>4. SpecOf[m].stage \in BOOLEAN /\ SpecOf[n].stage \in BOOLEAN
  BY <1>2, MigMigrationAssumption DEF SpecFields
<1>5. SpecOf[m].stage = SpecOf[n].stage
  BY <1>1, <1>4 DEF Before
<1>6. cr[m].stamp = cr[n].stamp
  BY <1>1, <1>3, <1>5 DEF Before
<1> QED BY <1>2, <1>6 DEF Turns

\* A migration that runs while another one is at the head does not run.
LEMMA RunsAtHead ==
    ASSUME NEW m, FALSE \in PostponedBy(m)
    PROVE  m \in Heads
BY DEF PostponedBy

\* A migration that is under way stays at the head until it is over.
LEMMA TurnsNext == IInv /\ Turns /\ [Next]_vars => Turns'
<1> SUFFICES ASSUME IInv, Turns, [Next]_vars, ~SameSecond, ~LateStages
             PROVE  Turns'
  BY DEF Turns
<1>0. /\ cr \in [Migrations -> Statuses]
      /\ \A n \in Migrations : cr[n].stamp \in Nat
      /\ \A n \in Migrations : SpecOf[n].stage \in BOOLEAN
      /\ \A n \in Heads : n \in Pending /\ n \in Migrations /\ Created(n)
      /\ pass # NoPass => pass.on \in Pending /\ pass.on \in Migrations
  BY MigMigrationAssumption DEF IInv, TypeOK, Statuses, Heads, Pending, Writing, SpecFields
<1>1. ASSUME NEW m \in Migrations, Create(m)
      PROVE  Turns'
  <2>1. /\ Latest \in Nat /\ \A n \in Migrations : cr[n].stamp <= Latest
        /\ cr' = [cr EXCEPT ![m].stamp = Latest + 1]
        /\ SpecOf[m].stage => \A n \in Pending : SpecOf[n].stage
        /\ ~Created(m)
        /\ pass' = pass
    BY <1>0, <1>1, LatestFacts DEF Create
  <2>2. /\ \A n \in Migrations : n # m => cr'[n].stamp = cr[n].stamp
        /\ cr'[m].stamp = Latest + 1
        /\ \A n \in Migrations : cr'[n].phase = cr[n].phase
    BY <1>0, <2>1 DEF Statuses
  <2>3. /\ \A n \in Migrations : n # m => (Created(n)' <=> Created(n))
        /\ \A n \in Migrations : Completed(n)' <=> Completed(n)
        /\ Pending' \subseteq Pending \cup {m}
        /\ Pending \subseteq Pending'
        /\ m \notin Pending
    BY <2>1, <2>2 DEF Created, Completed, Pending
  <2>4. \A n \in Migrations : n # m => cr'[n].stamp < cr'[m].stamp
    BY <1>0, <2>1, <2>2
  <2>5. Heads \subseteq Heads'
    <3> SUFFICES ASSUME NEW k \in Heads
                 PROVE  k \in Pending' /\ \A n \in Pending' : ~Before(n, k)'
      BY DEF Heads
    <3>1. k \in Pending /\ k \in Pending' /\ k # m /\ k \in Migrations
      BY <1>0, <2>3
    <3>2. ~Before(m, k)'
      <4>1. ~(cr'[m].stamp < cr'[k].stamp)
        BY <1>0, <2>1, <2>2, <3>1
      <4>2. ~(SpecOf[m].stage /\ ~SpecOf[k].stage)
        BY <2>1, <3>1
      <4> QED BY <4>1, <4>2 DEF Before
    <3>3. ASSUME NEW n \in Pending', n # m
          PROVE  ~Before(n, k)'
      <4>1. n \in Pending /\ n \in Migrations
        BY <2>3, <3>3 DEF Pending
      <4>2. ~Before(n, k)
        BY <4>1 DEF Heads
      <4> QED BY <2>2, <3>1, <3>3, <4>1, <4>2 DEF Before
    <3> QED BY <3>1, <3>2, <3>3
  <2>6. ASSUME NEW n \in Migrations, NEW k \in Migrations, Created(n)', Created(k)', n # k
        PROVE  cr'[n].stamp # cr'[k].stamp
    <3>1. CASE n # m /\ k # m
      BY <2>2, <2>3, <2>6, <3>1 DEF Turns
    <3>2. CASE n = m \/ k = m
      <4>1. cr'[n].stamp < cr'[k].stamp \/ cr'[k].stamp < cr'[n].stamp
        BY <2>4, <2>6, <3>2
      <4>2. cr'[n].stamp \in Nat /\ cr'[k].stamp \in Nat
        BY <1>0, <2>1, <2>2
      <4> QED BY <4>1, <4>2
    <3> QED BY <3>1, <3>2
  <2>7. ASSUME NEW n \in Pending', NEW k \in Pending', SpecOf[n].stage, ~SpecOf[k].stage
        PROVE  cr'[n].stamp < cr'[k].stamp
    <3>1. n \in Migrations /\ k \in Migrations /\ n # k
      BY <2>7 DEF Pending
    <3>2. CASE n = m
      <4>1. k \in Pending
        BY <2>3, <3>1, <3>2
      <4> QED BY <2>1, <2>7, <3>2, <4>1
    <3>3. CASE k = m
      BY <2>4, <3>1, <3>3
    <3>4. CASE n # m /\ k # m
      <4>1. n \in Pending /\ k \in Pending
        BY <2>3, <3>4
      <4> QED BY <2>2, <2>7, <3>1, <3>4, <4>1 DEF Turns
    <3> QED BY <3>2, <3>3, <3>4
  <2>8. \A n \in Migrations : Underway(cr'[n]) => Underway(cr[n])
    BY <2>2 DEF Underway
  <2> QED BY <2>1, <2>5, <2>6, <2>7, <2>8 DEF Turns
\* A step that keeps the timestamps and completes migrations at most keeps the
\* heads that are not over.
<1>2. ASSUME \A n \in Migrations : cr'[n].stamp = cr[n].stamp,
             Pending' \subseteq Pending
      PROVE  /\ \A n, k \in Migrations : Created(n)' /\ Created(k)' /\ n # k
                                           => cr'[n].stamp # cr'[k].stamp
             /\ \A n, k \in Pending' : SpecOf[n].stage /\ ~SpecOf[k].stage
                                         => cr'[n].stamp < cr'[k].stamp
             /\ \A k \in Heads : k \in Pending' => k \in Heads'
  <2>1. \A n \in Migrations : Created(n)' <=> Created(n)
    BY <1>2 DEF Created
  <2>2. \A n \in Pending : n \in Migrations
    BY DEF Pending
  <2>3. ASSUME NEW k \in Heads, k \in Pending'
        PROVE  k \in Heads'
    <3>1. ASSUME NEW n \in Pending' PROVE ~Before(n, k)'
      <4>1. n \in Pending /\ n \in Migrations /\ k \in Migrations
        BY <1>0, <1>2, <2>2
      <4>2. ~Before(n, k)
        BY <4>1 DEF Heads
      <4> QED BY <1>2, <4>1, <4>2 DEF Before
    <3> QED BY <2>3, <3>1 DEF Heads
  <2> QED BY <1>2, <2>1, <2>2, <2>3 DEF Turns
<1>3. ASSUME NEW m \in Migrations, Cancel(m)
      PROVE  Turns'
  <2>1. /\ \A n \in Migrations : cr'[n].stamp = cr[n].stamp /\ cr'[n].phase = cr[n].phase
        /\ pass' # NoPass => /\ pass # NoPass
                             /\ pass'.on = pass.on /\ pass'.status = pass.status
    BY <1>3, UserFacts
  <2>2. Pending' = Pending
    BY <2>1 DEF Pending, Created, Completed
  <2>3. \A n \in Migrations : Underway(cr'[n]) <=> Underway(cr[n])
    BY <2>1 DEF Underway
  <2>4. \A k \in Heads : k \in Heads'
    BY <1>0, <1>2, <2>1, <2>2
  <2> QED BY <1>2, <2>1, <2>2, <2>3, <2>4 DEF Turns
<1>4. ASSUME NEW m \in Migrations, StartPass(m)
      PROVE  Turns'
  <2>1. m \in Pending /\ pass = NoPass
    BY <1>4 DEF StartPass
  <2>2. /\ cr' = cr /\ pass'.on = m
        /\ \/ pass'.status = cr[m]
           \/ pass'.status.phase = "Completed"
           \/ m \in Heads
    BY <1>4, <2>1, PassesEnd, RunsAtHead
  <2>3. Underway(pass'.status) => m \in Heads
    BY <1>4, <2>2 DEF Turns, Underway
  <2> QED BY <2>2, <2>3 DEF Turns, Heads, Pending, Before, Created, Completed
<1>5. CASE Save
  <2>1. PICK on : on = pass.on
    OBVIOUS
  <2>2. /\ pass # NoPass /\ pass' = NoPass
        /\ on \in Pending /\ on \in Migrations
        /\ \/ cr' = cr
           \/ /\ \A n \in Migrations \ {on} : cr'[n] = cr[n]
              /\ cr'[on].phase = pass.status.phase
              /\ cr'[on].stamp = cr[on].stamp
    BY <1>5, <2>1, SaveFacts
  <2>3. CASE cr' = cr
    BY <2>2, <2>3 DEF Turns, Heads, Pending, Before, Created, Completed
  <2>4. CASE /\ \A n \in Migrations \ {on} : cr'[n] = cr[n]
             /\ cr'[on].phase = pass.status.phase
             /\ cr'[on].stamp = cr[on].stamp
    <3>1. \A n \in Migrations : cr'[n].stamp = cr[n].stamp
      BY <2>4
    <3>2. Pending' \subseteq Pending
      BY <2>2, <2>4 DEF Pending, Created, Completed
    <3>3. ASSUME NEW k \in Migrations, Underway(cr'[k])
          PROVE  k \in Heads'
      <4>1. k \in Heads
        <5>1. CASE k = on
          BY <2>1, <2>2, <2>4, <3>3, <5>1 DEF Turns, Underway
        <5>2. CASE k # on
          BY <2>4, <3>3, <5>2 DEF Turns
        <5> QED BY <5>1, <5>2
      <4>2. k \in Pending'
        <5>1. Created(k)
          BY <1>0, <4>1
        <5> QED BY <3>1, <3>3, <5>1 DEF Underway, Pending, Created, Completed
      <4> QED BY <1>2, <3>1, <3>2, <4>1, <4>2
    <3> QED BY <1>2, <2>2, <3>1, <3>2, <3>3 DEF Turns
  <2> QED BY <2>2, <2>3, <2>4
<1>6. CASE SaveFails
  BY <1>6, SaveFailsFacts DEF Turns, Heads, Pending, Before, Created, Completed
<1>7. CASE Lost
  <2>1. pass' = NoPass /\ cr' = cr
    BY <1>7 DEF Lost
  <2> QED BY <2>1 DEF Turns, Heads, Pending, Before, Created, Completed
<1>8. CASE UNCHANGED vars
  BY <1>8 DEF vars, Turns, Heads, Pending, Before, Created, Completed
<1> QED BY <1>1, <1>3, <1>4, <1>5, <1>6, <1>7, <1>8 DEF Next

-----------------------------------------------------------------------------
(* The applications on the source *)

\* In the beginning no rollback is under way.
LEMMA RestartsInit == Init => Restarts
BY DEF Init, Restarts, AtRestart, Absent, NoPass

\* The phases a migration comes to by an itinerary that it was not on.
LEMMA FirstsAre ==
    ASSUME NEW name \in ItineraryNames
    PROVE  FirstPhase(name) \in {"Created", "Canceling", "MigrationFailed", "Rollback"}
BY FirstPhases DEF ItineraryNames

\* What the handlers of these phases, and of the restart, leave of the target.
LEMMA TargetLeft ==
    ASSUME NEW m, world \in Worlds,
           NEW p \in {"Created", "Canceling", "MigrationFailed", "Rollback",
                      "UnQuiesceSrcApplications"},
           NEW w \in {world} \cup PartlyQuiesced(p) \cup WorldsAfter(m, p)
    PROVE  w.dst = world.dst
<1>1. DstAfter(p) = world.dst
  BY DEF DstAfter
<1>2. CASE w \in PartlyQuiesced(p)
  <2>1. w = [world EXCEPT !.src = "partial"]
    BY <1>2 DEF PartlyQuiesced
  <2> QED BY <2>1 DEF Worlds
<1>3. CASE w \in WorldsAfter(m, p)
  BY <1>1, <1>3 DEF WorldsAfter
<1> QED BY <1>2, <1>3

\* A rollback that is to start the source again has found the target clean,
\* and keeps it so whatever happens to its next pass.
LEMMA RanRestarts ==
    ASSUME IInv, NEW m \in Pending, AtRestart(cr[m]),
           NEW v, NEW itinerary, NEW p, NEW fault, NEW o, NEW status,
           Ran(m, v, itinerary, p, fault, o, status), world' = o.world
    PROVE  /\ AtRestart(cr[m])'
           /\ cr' = cr => AtRestart(status)'
<1>1. /\ MayPass(m) /\ m \in Migrations /\ Fresh(m, v) /\ Bounded(m, p, o)
      /\ world \in Worlds /\ cr[m] \in Statuses /\ cr' = cr
  BY RanFacts DEF IInv, TypeOK, Ran, Finish
<1>2. itinerary \in ItineraryNames /\ p \in PhasesOf(ItineraryNamed(itinerary))
  BY <1>1, PhaseFacts DEF Ran
<1>3. ASSUME cr[m].phase = "UnQuiesceSrcApplications", cr[m].itinerary = "Rollback"
      PROVE  world'.dst = "none"
  <2>1. p \in {"Created", "Canceling", "MigrationFailed", "Rollback", "UnQuiesceSrcApplications"}
    BY <1>2, <1>3, FirstsAre DEF Ran, PhaseOf
  <2>2. o.world.dst = world.dst
    BY <1>1, <2>1, TargetLeft DEF Bounded
  <2> QED BY <1>3, <2>2 DEF AtRestart
<1>4. ASSUME status.phase = "UnQuiesceSrcApplications", status.itinerary = "Rollback"
      PROVE  world'.dst = "none"
  <2>1. CASE o.result = "error"
    <3>1. status = [cr[m] EXCEPT !.errors = TRUE]
      BY <2>1 DEF Ran, ResultStatus
    <3>2. status.phase = cr[m].phase /\ status.itinerary = cr[m].itinerary
      BY <1>1, <3>1 DEF Statuses
    <3> QED BY <1>3, <1>4, <3>2
  <2>2. CASE o.result = "conflict"
    <3>1. status = cr[m]
      BY <2>2 DEF Ran, ResultStatus
    <3> QED BY <1>3, <1>4, <3>1
  <2>3. CASE o.result = "fail"
    <3>1. p \in DOMAIN FailsTo
      BY <1>1, <2>3 DEF Bounded
    <3>2. status = [cr[m] EXCEPT !.itinerary = itinerary, !.errors = TRUE, !.phase = FailsTo[p]]
      BY <1>1, <2>3 DEF Ran, ResultStatus, Bounded, Statuses
    <3>3. status.phase = FailsTo[p]
      BY <1>1, <3>2 DEF Statuses
    <3> QED BY <1>4, <3>1, <3>3, FailsFacts
  <2>4. CASE o.result = "wait"
    <3>1. status = [cr[m] EXCEPT !.itinerary = itinerary, !.errors = cr[m].errors, !.phase = p]
      BY <1>1, <2>4 DEF Ran, ResultStatus, Statuses
    <3>2. status.phase = p
      BY <1>1, <3>1 DEF Statuses
    <3>3. p \in Waiting
      BY <1>1, <2>4 DEF Bounded
    <3> QED BY <1>4, <3>2, <3>3 DEF Waiting
  <2>5. CASE o.result = "done"
    <3>1. PICK next : next = NextOf(m, itinerary, p, o.conds)
      OBVIOUS
    <3>2. status = [cr[m] EXCEPT !.itinerary = itinerary, !.errors = cr[m].errors, !.phase = next]
      BY <1>1, <2>5, <3>1 DEF Ran, ResultStatus, Statuses
    <3>3. status.phase = next /\ status.itinerary = itinerary
      BY <1>1, <3>2 DEF Statuses
    <3>4. PICK from, flags : /\ next = NextPhase(ItineraryNamed(itinerary), from, flags)
                             /\ from = p \/ from = "EnsureAnnotationsDeleted"
      <4>1. next # "Completed"
        BY <1>4, <3>3
      <4> QED BY <3>1, <4>1 DEF NextOf
    <3>5. p = "EnsureMigratedDeleted"
      BY <1>2, <1>4, <3>3, <3>4, SourceRestarts
    <3>6. o.world \in WorldsAfter(m, p) /\ DstAfter(p) = "none"
      BY <1>1, <2>5, <3>5 DEF Bounded, DstAfter
    <3> QED BY <3>6 DEF WorldsAfter
  <2> QED BY <1>1, <2>1, <2>2, <2>3, <2>4, <2>5 DEF Bounded
<1> QED BY <1>1, <1>3, <1>4 DEF AtRestart

\* The target stays clean while a rollback is about to start the source, since no
\* other migration runs meanwhile.
LEMMA RestartsNext == IInv /\ Turns /\ Restarts /\ [Next]_vars => Restarts'
<1> SUFFICES ASSUME IInv, Turns, Restarts, [Next]_vars, ~SameSecond, ~LateStages
             PROVE  Restarts'
  BY DEF Restarts
<1>1. ASSUME NEW m \in Migrations, Create(m) \/ Cancel(m)
      PROVE  Restarts'
  <2>1. /\ \A n \in Migrations :
              cr'[n].phase = cr[n].phase /\ cr'[n].itinerary = cr[n].itinerary
        /\ world' = world
        /\ pass' # NoPass => pass # NoPass /\ pass'.status = pass.status
    BY <1>1, UserFacts
  <2> QED BY <2>1 DEF Restarts, AtRestart
<1>2. ASSUME NEW m \in Migrations, StartPass(m)
      PROVE  Restarts'
  <2>1. m \in Pending /\ pass = NoPass
    BY <1>2 DEF StartPass
  <2>2. /\ cr' = cr
        /\ \/ world' = world /\ pass'.status = cr[m]
           \/ world' = world /\ pass'.status.phase = "Completed"
           \/ \E v, itinerary, p, fault, o, status :
                 /\ Ran(m, v, itinerary, p, fault, o, status)
                 /\ FALSE \in PostponedBy(m)
                 /\ world' = o.world /\ pass'.status = status
    BY <1>2, <2>1, PassesEnd
  <2>3. CASE world' = world /\ pass'.status = cr[m]
    BY <1>2, <2>2, <2>3 DEF Restarts, AtRestart
  <2>4. CASE world' = world /\ pass'.status.phase = "Completed"
    BY <2>2, <2>4 DEF Restarts, AtRestart
  <2>5. CASE \E v, itinerary, p, fault, o, status :
                /\ Ran(m, v, itinerary, p, fault, o, status)
                /\ FALSE \in PostponedBy(m)
                /\ world' = o.world /\ pass'.status = status
    <3>1. PICK v, itinerary, p, fault, o, status :
             /\ Ran(m, v, itinerary, p, fault, o, status)
             /\ FALSE \in PostponedBy(m)
             /\ world' = o.world /\ pass'.status = status
      BY <2>5
    <3>2. AtRestart(cr[m])
      BY <1>2 DEF Restarts
    <3>3. AtRestart(cr[m])' /\ AtRestart(status)'
      BY <2>1, <2>2, <3>1, <3>2, RanRestarts
    <3>4. ASSUME NEW k \in Migrations, k # m
          PROVE  AtRestart(cr[k])'
      <4>1. SUFFICES ASSUME cr[k].phase = "UnQuiesceSrcApplications"
                     PROVE  FALSE
        BY <2>2 DEF AtRestart
      <4>2. k \in Heads /\ m \in Heads
        BY <3>1, <3>4, <4>1, RunsAtHead DEF Turns, Underway
      <4> QED BY <3>4, <4>2, HeadIsAlone
    <3> QED BY <3>3, <3>4, <3>1 DEF Restarts, AtRestart
  <2> QED BY <2>2, <2>3, <2>4, <2>5
<1>3. CASE Save
  <2>1. PICK on : on = pass.on
    OBVIOUS
  <2>2. /\ pass # NoPass /\ pass' = NoPass /\ world' = world
        /\ on \in Migrations
        /\ \/ cr' = cr
           \/ /\ \A n \in Migrations \ {on} : cr'[n] = cr[n]
              /\ cr'[on].phase = pass.status.phase
              /\ cr'[on].itinerary = pass.status.itinerary
    BY <1>3, <2>1, SaveFacts
  <2>3. ASSUME NEW n \in Migrations
        PROVE  AtRestart(cr[n])'
    <3>1. AtRestart(cr[n]) /\ AtRestart(pass.status)
      BY <2>2 DEF Restarts
    <3> QED BY <2>2, <3>1 DEF AtRestart
  <2> QED BY <2>2, <2>3 DEF Restarts
<1>4. CASE SaveFails
  BY <1>4, SaveFailsFacts DEF Restarts, AtRestart
<1>5. CASE Lost
  <2>1. pass' = NoPass /\ cr' = cr /\ world' = world
    BY <1>5 DEF Lost
  <2> QED BY <2>1 DEF Restarts, AtRestart
<1>6. CASE UNCHANGED vars
  BY <1>6 DEF vars, Restarts, AtRestart
<1> QED BY <1>1, <1>2, <1>3, <1>4, <1>5, <1>6 DEF Next

\* The step that starts the source again finds the target clean, or belongs to
\* a migration that the user canceled.
LEMMA RestartIsSafe ==
    ASSUME IInv, Turns, Restarts, [Next]_vars, ~SameSecond, ~LateStages,
           world.src # "up", world'.src = "up"
    PROVE  world.dst = "none" \/ cr[pass'.on].canceled
<1>1. PICK m : m = pass'.on
  OBVIOUS
<1>2. world' # world
  OBVIOUS
<1>3. m \in Pending
  BY <1>1, <1>2, WorldSteps
<1>4. PICK v, itinerary, p, fault, o, status :
         Ran(m, v, itinerary, p, fault, o, status) /\ world' = o.world
  BY <1>1, <1>2, WorldSteps
<1>5. MayPass(m) /\ m \in Migrations /\ Fresh(m, v) /\ Bounded(m, p, o) /\ world \in Worlds
  BY <1>3, <1>4, RanFacts DEF IInv, TypeOK
<1>6. /\ itinerary \in ItineraryNames /\ p \in PhasesOf(ItineraryNamed(itinerary))
      /\ itinerary = "Cancel" => cr[m].canceled
  BY <1>4, <1>5, PhaseFacts DEF Ran
<1>7. p = "UnQuiesceSrcApplications"
  <2>1. o.world \notin {world}
    BY <1>2, <1>4
  <2>2. o.world \notin PartlyQuiesced(p)
    <3>1. [world EXCEPT !.src = "partial"].src = "partial"
      BY <1>5 DEF Worlds
    <3> QED BY <1>4, <3>1 DEF PartlyQuiesced
  <2>3. o.world \in WorldsAfter(m, p)
    BY <1>5, <2>1, <2>2 DEF Bounded
  <2>4. SrcAfter(p) = "up"
    BY <1>4, <2>3 DEF WorldsAfter
  <2> QED BY <2>4 DEF SrcAfter
<1>8. itinerary \in {"Cancel", "Rollback"}
  BY <1>6, <1>7, SourcePhases
<1>9. CASE itinerary = "Cancel"
  BY <1>1, <1>6, <1>9
<1>10. CASE itinerary = "Rollback"
  <2>1. cr[m].itinerary = "Rollback" /\ cr[m].phase = p
    BY <1>4, <1>7, <1>10, FirstPhases DEF Ran, PhaseOf
  <2> QED BY <1>5, <1>7, <2>1 DEF Restarts, AtRestart
<1> QED BY <1>8, <1>9, <1>10

\* Where no two migrations share a creation time and stage migrations are not
\* created behind running ones, which is what the serial queue rests on: a
\* failed migration leaves the clusters alone, and the source is started again
\* only over a target that is clean, or where the user canceled.
THEOREM ClustersAreSafe ==
    ASSUME ~SameSecond, ~LateStages
    PROVE  Spec => ClustersSafe
<1>1. IInv /\ Turns /\ Restarts /\ [Next]_vars =>
         [world.src # "up" /\ world'.src = "up" =>
             \/ world.dst = "none"
             \/ cr[pass'.on].canceled
             \/ Has(pass'.on, "Canceling")]_vars
  BY RestartIsSafe
<1>2. Spec => []Turns
  BY TurnsInit, TurnsNext, IInvHolds, PTL DEF Spec
<1>3. Spec => []Restarts
  BY <1>2, RestartsInit, RestartsNext, IInvHolds, PTL DEF Spec
<1>4. Spec => RestartsSafely
  BY <1>1, <1>2, <1>3, IInvHolds, PTL DEF Spec, RestartsSafely
<1> QED BY <1>4, FailedStops DEF ClustersSafe

-----------------------------------------------------------------------------
(* What a canceled migration leaves behind *)

\* The plan has the flag for the migration; the flags of FlagFor do not depend
\* on whether there are stage pods.
Asks(m, flag) == flag \in FlagsOf(plan, SpecOf[m], FALSE)

\* A migration comes to a phase that leaves something to clean up only under
\* its flag.
Due(m, status) ==
    ~status.errors /\ status.phase \in DOMAIN FlagFor => Asks(m, FlagFor[status.phase])

\* What there is to clean up is there only under the flag of the phase of a
\* cancel that does it.
Provided(m) ==
    /\ <<m, "DVM">> \in world.objects => Asks(m, "DirectVolume")
    /\ <<m, "DIM">> \in world.objects => Asks(m, "DirectImage")
    /\ "Annotations" \in world.helpers /\ ~SpecOf[m].rollback /\ ~RejectedType(m)
          => Asks(m, "HasStageBackup")

PlanFits ==
    /\ \A m \in Migrations : Due(m, cr[m]) /\ Provided(m)
    /\ pass # NoPass => Due(pass.on, pass.status)

\* What phase `q' of a cancel cleans up is gone.
Gone(m, q) ==
    /\ q = "DeleteBackups" => /\ <<m, "InitialBackup">> \notin world.objects
                              /\ <<m, "StageBackup">> \notin world.objects
    /\ q = "DeleteRestores" => /\ <<m, "StageRestore">> \notin world.objects
                               /\ <<m, "FinalRestore">> \notin world.objects
    /\ q = "DeleteRegistries" => "Registries" \notin world.helpers
    /\ q = "DeleteDirectVolumeMigrationResources" => <<m, "DVM">> \notin world.objects
    /\ q = "DeleteDirectImageMigrationResources" => <<m, "DIM">> \notin world.objects
    /\ q = "EnsureAnnotationsDeleted" =>
          SpecOf[m].keepAnnotations \/ "Annotations" \notin world.helpers
    /\ q = "UnQuiesceSrcApplications" => world.src = "up"

\* The phases of the cancel that a migration has behind it have done their work.
Cleaning(m, status) ==
    status.itinerary = "Cancel" /\ ~status.errors /\ ~SpecOf[m].rollback =>
        \A q \in PhasesOf(CancelItinerary) :
            Precedes(CancelItinerary, q, status.phase) => Gone(m, q)

\* A canceled migration ends by canceling.
EndsCanceled(status) ==
    status.phase = "Completed" /\ ~status.errors /\ status.canceled
        => status.itinerary = "Cancel"

Cleans ==
    ~SameSecond /\ ~LateStages =>
        /\ \A m \in Migrations : Underway(cr[m]) => Cleaning(m, cr[m])
        /\ pass # NoPass =>
              /\ Cleaning(pass.on, pass.status)
              /\ EndsCanceled(pass.status)
              /\ Has(pass.on, "Canceled") => pass.status.canceled

\* The flags of a plan.
LEMMA FlagsAre ==
    ASSUME NEW p, NEW spec, NEW stagePods
    PROVE  /\ "DirectVolume" \in FlagsOf(p, spec, stagePods) <=>
                 (~p.indirectVolume /\ p.directClaims) \/ "DirectVolume" \in p.hooks
           /\ "DirectImage" \in FlagsOf(p, spec, stagePods) <=>
                 ~p.indirectImage \/ "DirectImage" \in p.hooks
           /\ "HasStageBackup" \in FlagsOf(p, spec, stagePods) <=>
                 HasStageBackup(p, spec) \/ "HasStageBackup" \in p.hooks
BY DEF FlagsOf

\* The flags of FlagFor are those of the plan, stage pods or not.
LEMMA AskedBy ==
    ASSUME NEW m, NEW stagePods, NEW q \in DOMAIN FlagFor
    PROVE  /\ FlagFor[q] \in {"DirectVolume", "DirectImage", "HasStageBackup"}
           /\ FlagFor[q] \in FlagsOf(plan, SpecOf[m], stagePods) => Asks(m, FlagFor[q])
<1>1. FlagFor[q] \in {"DirectVolume", "DirectImage", "HasStageBackup"}
  BY DEF FlagFor
<1>2. /\ "DirectVolume" \in FlagsOf(plan, SpecOf[m], stagePods) => Asks(m, "DirectVolume")
      /\ "DirectImage" \in FlagsOf(plan, SpecOf[m], stagePods) => Asks(m, "DirectImage")
      /\ "HasStageBackup" \in FlagsOf(plan, SpecOf[m], stagePods) => Asks(m, "HasStageBackup")
  BY FlagsAre DEF Asks
<1> QED BY <1>1, <1>2

\* If one migration of a plan makes a stage backup, so do all that are neither
\* rejected nor rollbacks: within one cluster that maps namespaces to
\* themselves only state migrations run, and they make none.
LEMMA AllBackUp ==
    ASSUME NEW m \in Migrations, NEW n \in Migrations, Asks(m, "HasStageBackup"),
           ~RejectedType(m), ~RejectedType(n), ~SpecOf[n].rollback
    PROVE  Asks(n, "HasStageBackup")
<1>1. HasStageBackup(plan, SpecOf[m]) \/ "HasStageBackup" \in plan.hooks
  BY FlagsAre DEF Asks
<1>2. CASE "HasStageBackup" \in plan.hooks
  BY <1>2, FlagsAre DEF Asks
<1>3. CASE HasStageBackup(plan, SpecOf[m])
  <2>1. ~(plan.intraCluster /\ plan.sameNamespaces)
    BY <1>3 DEF HasStageBackup, IsStorageConversion, RejectedType
  <2>2. HasStageBackup(plan, SpecOf[n])
    BY <1>3, <2>1 DEF HasStageBackup, IsStorageConversion
  <2> QED BY <2>2, FlagsAre DEF Asks
<1> QED BY <1>1, <1>2, <1>3

\* A handler leaves nothing new on the clusters but what its phase is for.
LEMMA WorldLeft ==
    ASSUME NEW m, NEW p, world \in Worlds,
           NEW w \in {world} \cup PartlyQuiesced(p) \cup WorldsAfter(m, p)
    PROVE  /\ \A n, kind : <<n, kind>> \in w.objects =>
                 <<n, kind>> \in world.objects \/ (n = m /\ kind \in MakesObject(p))
           /\ "Annotations" \in w.helpers =>
                 "Annotations" \in world.helpers \/ p = "AnnotateResources"
           /\ "Registries" \in w.helpers =>
                 "Registries" \in world.helpers \/ p = "CreateRegistries"
           /\ w.src # "up" => world.src # "up"
                              \/ p \in {"QuiesceSourceApplications", "UnQuiesceSrcApplications"}
<1>1. CASE w = world
  BY <1>1
<1>2. CASE w \in PartlyQuiesced(p)
  <2>1. /\ w = [world EXCEPT !.src = "partial"]
        /\ p \in {"QuiesceSourceApplications", "UnQuiesceSrcApplications"}
    BY <1>2 DEF PartlyQuiesced
  <2>2. w.objects = world.objects /\ w.helpers = world.helpers
    BY <2>1 DEF Worlds
  <2> QED BY <2>1, <2>2
<1>3. CASE w \in WorldsAfter(m, p)
  <2>1. /\ w.src = SrcAfter(p)
        /\ w.helpers \in HelpersAfter(m, p)
        /\ w.objects \in ObjectsAfter(m, p)
    BY <1>3 DEF WorldsAfter
  <2>2. w.objects \subseteq world.objects \/ w.objects = world.objects \cup ({m} \X MakesObject(p))
    BY <2>1 DEF ObjectsAfter
  <2>3. \A n, kind : <<n, kind>> \in w.objects =>
           <<n, kind>> \in world.objects \/ (n = m /\ kind \in MakesObject(p))
    BY <2>2
  <2>4. "Annotations" \in w.helpers =>
           "Annotations" \in world.helpers \/ p = "AnnotateResources"
    BY <2>1 DEF HelpersAfter
  <2>5. "Registries" \in w.helpers =>
           "Registries" \in world.helpers \/ p = "CreateRegistries"
    BY <2>1 DEF HelpersAfter
  <2>6. w.src # "up" => world.src # "up"
                        \/ p \in {"QuiesceSourceApplications", "UnQuiesceSrcApplications"}
    BY <2>1 DEF SrcAfter
  <2> QED BY <2>3, <2>4, <2>5, <2>6
<1> QED BY <1>1, <1>2, <1>3

\* The phases of a cancel make nothing, and only one of them touches the source.
LEMMA CancelMakesNothing ==
    ASSUME NEW p, p \in PhasesOf(CancelItinerary)
    PROVE  /\ MakesObject(p) = {}
           /\ p \notin {"AnnotateResources", "CreateRegistries", "QuiesceSourceApplications"}
<1>1. PICK i \in 1..12 : CancelItinerary[i].name = p
  BY CancelNames DEF PhasesOf
<1>2. p \in {"Canceling", "DeleteBackups", "DeleteRestores", "DeleteRegistries",
             "DeleteHookJobs", "DeleteDirectVolumeMigrationResources",
             "DeleteDirectImageMigrationResources", "EnsureStagePodsDeleted",
             "EnsureAnnotationsDeleted", "UnQuiesceSrcApplications", "Canceled",
             "Completed"}
  BY <1>1, CancelNames
<1>3. MakesObject(p) = {}
  BY <1>2 DEF MakesObject
<1> QED BY <1>2, <1>3

\* What has been cleaned up stays so whatever the other phases of the cancel do.
LEMMA GoneStays ==
    ASSUME NEW m, NEW p, p \in PhasesOf(CancelItinerary), NEW q, q # p, Gone(m, q),
           world \in Worlds, world' \in {world} \cup PartlyQuiesced(p) \cup WorldsAfter(m, p)
    PROVE  Gone(m, q)'
<1>1. PICK w : w = world'
  OBVIOUS
<1>2. /\ MakesObject(p) = {}
      /\ p \notin {"AnnotateResources", "CreateRegistries", "QuiesceSourceApplications"}
  BY CancelMakesNothing
<1>3. /\ \A n, kind : <<n, kind>> \in w.objects => <<n, kind>> \in world.objects
      /\ "Annotations" \in w.helpers => "Annotations" \in world.helpers
      /\ "Registries" \in w.helpers => "Registries" \in world.helpers
      /\ w.src # "up" => world.src # "up" \/ p = "UnQuiesceSrcApplications"
  BY <1>1, <1>2, WorldLeft
<1> QED BY <1>1, <1>3 DEF Gone

\* A phase of the cancel that is done has cleaned up.
LEMMA GoneDone ==
    ASSUME NEW m \in Migrations, NEW p, world' \in WorldsAfter(m, p)
    PROVE  Gone(m, p)'
<1>1. /\ world'.src = SrcAfter(p)
      /\ world'.helpers \in HelpersAfter(m, p)
      /\ world'.objects \in ObjectsAfter(m, p)
  BY DEF WorldsAfter
<1>2. CASE p = "DeleteBackups"
  <2>1. world'.objects = world.objects \ Backups
    BY <1>1, <1>2 DEF ObjectsAfter
  <2>2. <<m, "InitialBackup">> \in Backups /\ <<m, "StageBackup">> \in Backups
    BY DEF Backups
  <2> QED BY <1>2, <2>1, <2>2 DEF Gone
<1>3. CASE p = "DeleteRestores"
  <2>1. world'.objects = world.objects \ Restores
    BY <1>1, <1>3 DEF ObjectsAfter
  <2>2. <<m, "StageRestore">> \in Restores /\ <<m, "FinalRestore">> \in Restores
    BY DEF Restores
  <2> QED BY <1>3, <2>1, <2>2 DEF Gone
<1>4. CASE p = "DeleteRegistries"
  <2>1. world'.helpers = world.helpers \ {"Registries"}
    BY <1>1, <1>4 DEF HelpersAfter
  <2> QED BY <1>4, <2>1 DEF Gone
<1>5. CASE p = "DeleteDirectVolumeMigrationResources"
  <2>1. world'.objects = world.objects \ {<<m, "DVM">>}
    BY <1>1, <1>5 DEF ObjectsAfter
  <2> QED BY <1>5, <2>1 DEF Gone
<1>6. CASE p = "DeleteDirectImageMigrationResources"
  <2>1. world'.objects = world.objects \ {<<m, "DIM">>}
    BY <1>1, <1>6 DEF ObjectsAfter
  <2> QED BY <1>6, <2>1 DEF Gone
<1>7. CASE p = "EnsureAnnotationsDeleted"
  <2>1. CASE SpecOf[m].keepAnnotations
    BY <1>7, <2>1 DEF Gone
  <2>2. CASE ~SpecOf[m].keepAnnotations
    <3>1. world'.helpers = world.helpers \ {"Annotations"}
      BY <1>1, <1>7, <2>2 DEF HelpersAfter
    <3> QED BY <1>7, <3>1 DEF Gone
  <2> QED BY <2>1, <2>2
<1>8. CASE p = "UnQuiesceSrcApplications"
  <2>1. world'.src = "up"
    BY <1>1, <1>8 DEF SrcAfter
  <2> QED BY <1>8, <2>1 DEF Gone
<1> QED BY <1>2, <1>3, <1>4, <1>5, <1>6, <1>7, <1>8 DEF Gone
\* What a phase leaves to clean up it leaves under its flag.
LEMMA RanProvided ==
    ASSUME IInv, NEW m \in Pending, Due(m, cr[m]), NEW k \in Migrations, Provided(k),
           NEW v, NEW itinerary, NEW p, NEW fault, NEW o, NEW status,
           Ran(m, v, itinerary, p, fault, o, status), world' = o.world
    PROVE  Provided(k)'
<1>1. /\ MayPass(m) /\ m \in Migrations /\ Fresh(m, v) /\ Bounded(m, p, o)
      /\ world \in Worlds /\ plan' = plan /\ v \in Clear(m)
  BY RanFacts DEF IInv, TypeOK, Ran, Finish
<1>2. /\ itinerary \in ItineraryNames
      /\ itinerary = "Failed" <=> cr[m].errors
      /\ itinerary = "Failed" => p = "MigrationFailed"
      /\ p = cr[m].phase \/ p = FirstPhase(itinerary)
  BY <1>1, PhaseFacts DEF Ran
<1>3. ~RejectedType(m)
  BY <1>1, ClearFacts
<1>4. p \in DOMAIN FlagFor => Asks(m, FlagFor[p])
  <2> SUFFICES ASSUME p \in DOMAIN FlagFor
               PROVE  Asks(m, FlagFor[p])
    OBVIOUS
  <2>1. p \notin {"Created", "Canceling", "MigrationFailed", "Rollback"}
    BY DEF FlagFor
  <2>2. p = cr[m].phase /\ ~cr[m].errors
    BY <1>2, <2>1, FirstsAre
  <2> QED BY <2>2 DEF Due
<1>5. PICK w \in {world} \cup PartlyQuiesced(p) \cup WorldsAfter(m, p) : w = world'
  BY <1>1 DEF Bounded
<1>6. /\ \A n, kind : <<n, kind>> \in w.objects =>
            <<n, kind>> \in world.objects \/ (n = m /\ kind \in MakesObject(p))
      /\ "Annotations" \in w.helpers =>
            "Annotations" \in world.helpers \/ p = "AnnotateResources"
  BY <1>1, WorldLeft
<1>7. \A flag : Asks(k, flag)' <=> Asks(k, flag)
  BY <1>1 DEF Asks
<1>8. RejectedType(k)' <=> RejectedType(k)
  BY <1>1 DEF RejectedType
<1>9. ASSUME <<k, "DVM">> \in w.objects
      PROVE  Asks(k, "DirectVolume")
  <2>1. CASE <<k, "DVM">> \in world.objects
    BY <2>1 DEF Provided
  <2>2. CASE k = m /\ "DVM" \in MakesObject(p)
    <3>1. p \in {"CreateDirectVolumeMigrationStage", "CreateDirectVolumeMigrationFinal",
                 "CreateDirectVolumeMigrationRollback"}
      BY <2>2 DEF MakesObject
    <3>2. p \in DOMAIN FlagFor /\ FlagFor[p] = "DirectVolume"
      BY <3>1 DEF FlagFor
    <3> QED BY <1>4, <2>2, <3>2
  <2> QED BY <1>6, <1>9, <2>1, <2>2
<1>10. ASSUME <<k, "DIM">> \in w.objects
       PROVE  Asks(k, "DirectImage")
  <2>1. CASE <<k, "DIM">> \in world.objects
    BY <2>1 DEF Provided
  <2>2. CASE k = m /\ "DIM" \in MakesObject(p)
    <3>1. p = "CreateDirectImageMigration"
      BY <2>2 DEF MakesObject
    <3>2. p \in DOMAIN FlagFor /\ FlagFor[p] = "DirectImage"
      BY <3>1 DEF FlagFor
    <3> QED BY <1>4, <2>2, <3>2
  <2> QED BY <1>6, <1>10, <2>1, <2>2
<1>11. ASSUME "Annotations" \in w.helpers, ~SpecOf[k].rollback, ~RejectedType(k)
       PROVE  Asks(k, "HasStageBackup")
  <2>1. CASE "Annotations" \in world.helpers
    BY <1>11, <2>1 DEF Provided
  <2>2. CASE p = "AnnotateResources"
    <3>1. p \in DOMAIN FlagFor /\ FlagFor[p] = "HasStageBackup"
      BY <2>2 DEF FlagFor
    <3> QED BY <1>1, <1>3, <1>4, <1>11, <3>1, AllBackUp
  <2> QED BY <1>6, <1>11, <2>1, <2>2
<1> QED BY <1>5, <1>7, <1>8, <1>9, <1>10, <1>11 DEF Provided

\* A phase is come to under its flag.
LEMMA RanDue ==
    ASSUME IInv, NEW m \in Pending, Due(m, cr[m]),
           NEW v, NEW itinerary, NEW p, NEW fault, NEW o, NEW status,
           Ran(m, v, itinerary, p, fault, o, status)
    PROVE  Due(m, status)
<1>1. /\ MayPass(m) /\ m \in Migrations /\ Fresh(m, v) /\ Bounded(m, p, o)
      /\ cr[m] \in Statuses /\ status = ResultStatus(m, itinerary, p, o)
  BY RanFacts DEF IInv, TypeOK, Ran
<1>2. itinerary \in ItineraryNames
  BY <1>1, PhaseFacts DEF Ran
<1>3. CASE o.result \in {"error", "fail"}
  BY <1>1, <1>3, StatusFacts DEF Due, Ran
<1>4. CASE o.result = "conflict"
  BY <1>1, <1>4 DEF ResultStatus
<1>5. CASE o.result = "wait"
  <2>1. status = [cr[m] EXCEPT !.itinerary = itinerary, !.errors = cr[m].errors, !.phase = p]
    BY <1>1, <1>5 DEF ResultStatus, Statuses
  <2>2. /\ status.phase = p /\ status.errors = cr[m].errors
        /\ p = cr[m].phase \/ p = FirstPhase(itinerary)
    BY <1>1, <2>1, PhaseFacts DEF Statuses, Ran
  <2>3. p \in {"Created", "Canceling", "MigrationFailed", "Rollback"} => p \notin DOMAIN FlagFor
    BY DEF FlagFor
  <2> QED BY <1>2, <2>2, <2>3, FirstsAre DEF Due
<1>6. CASE o.result = "done"
  <2>1. PICK next : next = NextOf(m, itinerary, p, o.conds)
    OBVIOUS
  <2>2. status = [cr[m] EXCEPT !.itinerary = itinerary, !.errors = cr[m].errors, !.phase = next]
    BY <1>1, <1>6, <2>1 DEF ResultStatus, Statuses
  <2>3. status.phase = next
    BY <1>1, <2>2 DEF Statuses
  <2>4. ASSUME next \in DOMAIN FlagFor
        PROVE  Asks(m, FlagFor[next])
    <3>1. next # "Completed"
      BY <2>4 DEF FlagFor
    <3>2. PICK from, stagePods :
             next = NextPhase(ItineraryNamed(itinerary), from,
                              FlagsOf(plan, SpecOf[m], stagePods))
      BY <2>1, <3>1 DEF NextOf
    <3>3. FlagFor[next] \in FlagsOf(plan, SpecOf[m], stagePods)
      BY <1>2, <2>4, <3>2, NextAsked
    <3> QED BY <2>4, <3>3, AskedBy
  <2> QED BY <2>3, <2>4 DEF Due
<1> QED BY <1>1, <1>3, <1>4, <1>5, <1>6 DEF Bounded

\* Nothing has been made at first, and no migration has a phase.
LEMMA PlanFitsInit == Init => PlanFits
BY DEF Init, PlanFits, Due, Provided, Absent, NoPass, FlagFor

\* The flags of the plan do not change, so what is there stays under its flag.
LEMMA PlanFitsNext == IInv /\ PlanFits /\ [Next]_vars => PlanFits'
<1> SUFFICES ASSUME IInv, PlanFits, [Next]_vars
             PROVE  PlanFits'
  OBVIOUS
<1>1. ASSUME plan' = plan, world' = world, NEW m \in Migrations
      PROVE  Provided(m)'
  BY <1>1 DEF PlanFits, Provided, Asks, RejectedType
<1>2. ASSUME plan' = plan, NEW m, NEW status, Due(m, status)
      PROVE  Due(m, status)'
  BY <1>2 DEF Due, Asks
<1>3. ASSUME plan' = plan,
             \A n \in Migrations : cr'[n].phase = cr[n].phase /\ cr'[n].errors = cr[n].errors,
             NEW m \in Migrations
      PROVE  Due(m, cr[m])'
  BY <1>3 DEF PlanFits, Due, Asks
<1>4. ASSUME NEW m \in Migrations, Create(m) \/ Cancel(m)
      PROVE  PlanFits'
  <2>1. /\ world' = world /\ plan' = plan
        /\ pass' # NoPass => pass # NoPass /\ pass'.on = pass.on /\ pass'.status = pass.status
        /\ \A n \in Migrations : cr'[n].phase = cr[n].phase /\ cr'[n].errors = cr[n].errors
    BY <1>4, UserFacts DEF Create, Cancel
  <2>2. pass' # NoPass => Due(pass'.on, pass'.status)
    BY <2>1 DEF PlanFits
  <2> QED BY <1>1, <1>3, <2>1, <2>2 DEF PlanFits, Due, Asks
<1>5. ASSUME NEW m \in Migrations, StartPass(m)
      PROVE  PlanFits'
  <2>1. m \in Pending /\ pass = NoPass
    BY <1>5 DEF StartPass
  <2>2. /\ cr' = cr /\ plan' = plan /\ pass'.on = m
        /\ \/ world' = world /\ pass'.status = cr[m]
           \/ world' = world /\ pass'.status.phase = "Completed"
           \/ \E v, itinerary, p, fault, o, status :
                 /\ Ran(m, v, itinerary, p, fault, o, status)
                 /\ world' = o.world /\ pass'.status = status
    BY <1>5, <2>1, PassesEnd
  <2>3. \A n \in Migrations : Due(n, cr[n])'
    BY <1>3, <2>2
  <2>4. CASE /\ world' = world
             /\ pass'.status = cr[m] \/ pass'.status.phase = "Completed"
    <3>1. Due(m, pass'.status)
      BY <2>4 DEF PlanFits, Due, FlagFor
    <3>2. \A n \in Migrations : Provided(n)'
      BY <1>1, <2>2, <2>4
    <3> QED BY <2>2, <2>3, <3>1, <3>2 DEF PlanFits, Due, Asks
  <2>5. CASE \E v, itinerary, p, fault, o, status :
                /\ Ran(m, v, itinerary, p, fault, o, status)
                /\ world' = o.world /\ pass'.status = status
    <3>1. PICK v, itinerary, p, fault, o, status :
             /\ Ran(m, v, itinerary, p, fault, o, status)
             /\ world' = o.world /\ pass'.status = status
      BY <2>5
    <3>2. Due(m, cr[m])
      BY <1>5 DEF PlanFits
    <3>3. Due(m, pass'.status)
      BY <2>1, <3>1, <3>2, RanDue
    <3>4. \A n \in Migrations : Provided(n)'
      BY <2>1, <3>1, <3>2, RanProvided DEF PlanFits
    <3> QED BY <2>2, <2>3, <3>3, <3>4 DEF PlanFits, Due, Asks
  <2> QED BY <2>2, <2>4, <2>5
<1>6. CASE Save
  <2>1. PICK on : on = pass.on
    OBVIOUS
  <2>2. /\ pass # NoPass /\ pass' = NoPass /\ world' = world /\ plan' = plan
        /\ on \in Migrations
        /\ \/ cr' = cr
           \/ /\ \A n \in Migrations \ {on} : cr'[n] = cr[n]
              /\ cr'[on].phase = pass.status.phase
              /\ cr'[on].errors = pass.status.errors
    BY <1>6, <2>1, SaveFacts DEF Save
  <2>3. ASSUME NEW n \in Migrations
        PROVE  Due(n, cr[n])'
    <3>1. Due(n, cr[n]) /\ Due(on, pass.status)
      BY <2>1, <2>2 DEF PlanFits
    <3> QED BY <2>2, <3>1 DEF Due, Asks
  <2> QED BY <1>1, <2>2, <2>3 DEF PlanFits
<1>7. CASE SaveFails
  <2>1. /\ plan' = plan /\ cr' = cr /\ world' = world /\ pass # NoPass
        /\ pass'.on = pass.on /\ pass'.status = pass.status
    BY <1>7, SaveFailsFacts DEF SaveFails
  <2>2. Due(pass'.on, pass'.status)
    BY <2>1 DEF PlanFits
  <2> QED BY <1>1, <1>3, <2>1, <2>2 DEF PlanFits, Due, Asks
<1>8. CASE Lost
  <2>1. pass' = NoPass /\ cr' = cr /\ world' = world /\ plan' = plan
    BY <1>8 DEF Lost
  <2> QED BY <1>1, <1>3, <2>1 DEF PlanFits
<1>9. CASE UNCHANGED vars
  <2>1. pass' = pass /\ cr' = cr /\ world' = world /\ plan' = plan
    BY <1>9 DEF vars
  <2>2. pass # NoPass => Due(pass.on, pass.status)
    BY DEF PlanFits
  <2> QED BY <1>1, <1>3, <2>1, <2>2 DEF PlanFits, Due, Asks
<1> QED BY <1>4, <1>5, <1>6, <1>7, <1>8, <1>9 DEF Next
\* The request to cancel that a pass has read is the one it found.
LEMMA CanceledKept ==
    ASSUME IInv, pass = NoPass, NEW m \in Pending, StartPass(m)
    PROVE  pass'.status.canceled = cr[m].canceled
<1>1. m \in Migrations /\ cr[m] \in Statuses
  BY DEF Pending, IInv, TypeOK
<1>2. ASSUME NEW status, NEW conds, NEW w, Finish(m, status, conds, w)
      PROVE  pass'.status = status
  <2>1. pass' = [on |-> m, status |-> status, conds |-> conds, stale |-> FALSE]
    BY <1>2 DEF Finish
  <2> QED BY <2>1
<1>3. ValidateType(cr[m], m).canceled = cr[m].canceled
  BY <1>1 DEF ValidateType, Statuses
<1>4. CASE FailEarly(m)
  BY <1>2, <1>4 DEF FailEarly
<1>5. CASE FailLate(m)
  BY <1>2, <1>3, <1>5 DEF FailLate
<1>6. CASE Refuse(m)
  <2>1. PICK conds : Finish(m, ValidateType(cr[m], m), conds, world)
    BY <1>6 DEF Refuse
  <2> QED BY <1>2, <1>3, <2>1
<1>7. CASE Postpone(m)
  BY <1>2, <1>7 DEF Postpone
<1>8. CASE Run(m)
  <2>1. PICK v, itinerary, p, fault, o, status : Ran(m, v, itinerary, p, fault, o, status)
    BY <1>8, RunIs
  <2>2. pass'.status = status
    BY <1>2, <2>1 DEF Ran
  <2>3. status.canceled = cr[m].canceled
    BY <2>1, RanFacts, StatusFacts DEF Ran
  <2> QED BY <2>2, <2>3
<1> QED BY <1>4, <1>5, <1>6, <1>7, <1>8 DEF StartPass

\* A canceled migration that has not failed goes by the itinerary of a cancel.
LEMMA CancelChosen ==
    ASSUME NEW m, MayPass(m), NEW v, Fresh(m, v), cr[m].canceled, ~cr[m].errors
    PROVE  ItineraryOf(m, v) = "Cancel"
<1>1. ~HasCondition(v, "Failed")
  BY SeenIsListed DEF Fresh
<1> QED BY <1>1 DEF ItineraryOf, ChooseItinerary

\* Where a phase of a cancel leads: everything behind the next one was behind
\* this one, is this one, or was not there to be cleaned up.
LEMMA CancelBehind ==
    ASSUME NEW m \in Migrations, ~SpecOf[m].rollback, ~RejectedType(m), Provided(m),
           NEW p, p \in PhasesOf(CancelItinerary), NEW conds,
           NEW q, Precedes(CancelItinerary, q, NextOf(m, "Cancel", p, conds))
    PROVE  q = p \/ Precedes(CancelItinerary, q, p) \/ Gone(m, q)
<1>1. PICK flags : flags = FlagsOf(plan, SpecOf[m], HasCondition(conds, "StagePodsCreated"))
  OBVIOUS
<1>2. p # "MigrationFailed"
  BY CancelListed DEF Avoids, PhasesOf
<1>3. NextOf(m, "Cancel", p, conds) = NextPhase(CancelItinerary, p, flags)
  BY <1>1, <1>2, NamedFacts DEF NextOf
<1>4. q = p \/ Precedes(CancelItinerary, q, p) \/ Skipped(CancelItinerary, q, flags)
  BY <1>3, CancelListed, CancelOnce, NextBehind
<1>5. CASE Skipped(CancelItinerary, q, flags)
  <2>1. \/ q = "DeleteDirectVolumeMigrationResources" /\ "DirectVolume" \notin flags
        \/ q = "DeleteDirectImageMigrationResources" /\ "DirectImage" \notin flags
        \/ q = "EnsureStagePodsDeleted"
        \/ q = "EnsureAnnotationsDeleted" /\ "HasStageBackup" \notin flags
    BY <1>5, CancelSkips
  <2>2. /\ Asks(m, "DirectVolume") => "DirectVolume" \in flags
        /\ Asks(m, "DirectImage") => "DirectImage" \in flags
        /\ Asks(m, "HasStageBackup") => "HasStageBackup" \in flags
    BY <1>1, FlagsAre DEF Asks
  <2>3. Gone(m, q)
    BY <2>1, <2>2 DEF Gone, Provided
  <2> QED BY <2>3
<1> QED BY <1>4, <1>5

\* A pass of a migration that cancels keeps what the phases behind it have
\* done, and brings it on when its own is done.
LEMMA RanCleans ==
    ASSUME IInv, NEW m \in Pending, Provided(m), Underway(cr[m]) => Cleaning(m, cr[m]),
           NEW v, NEW itinerary, NEW p, NEW fault, NEW o, NEW status,
           Ran(m, v, itinerary, p, fault, o, status), world' = o.world
    PROVE  /\ Underway(cr[m]) => Cleaning(m, cr[m])'
           /\ cr' = cr => Cleaning(m, status)'
           /\ EndsCanceled(status)
<1>1. /\ MayPass(m) /\ m \in Migrations /\ Fresh(m, v) /\ Bounded(m, p, o)
      /\ world \in Worlds /\ cr[m] \in Statuses /\ cr' = cr /\ v \in Clear(m)
      /\ itinerary = ItineraryOf(m, v) /\ status = ResultStatus(m, itinerary, p, o)
      /\ p = PhaseOf(m, itinerary)
  BY RanFacts DEF IInv, TypeOK, Ran, Finish
<1>2. /\ itinerary \in ItineraryNames /\ p \in PhasesOf(ItineraryNamed(itinerary))
      /\ itinerary = "Failed" <=> cr[m].errors
      /\ p = cr[m].phase \/ p = FirstPhase(itinerary)
      /\ cr[m].phase = "unset" => p = FirstPhase(itinerary)
      /\ p # "Completed"
  BY <1>1, PhaseFacts
<1>3. /\ cr[m].itinerary = "Cancel" => cr[m].canceled
      /\ cr[m].canceled /\ ~cr[m].errors => itinerary = "Cancel"
      /\ cr[m].phase = "unset" => cr[m].itinerary = "unset"
      /\ cr[m].phase # "Completed"
  BY <1>1, CancelChosen DEF MayPass, Told, CancelTold, OnItinerary, Completed
<1>4. ~RejectedType(m)
  BY <1>1, ClearFacts
<1>5. world' \in {world} \cup PartlyQuiesced(p) \cup WorldsAfter(m, p)
  BY <1>1 DEF Bounded
<1>6. ASSUME cr[m].itinerary = "Cancel", ~cr[m].errors
      PROVE  /\ itinerary = "Cancel" /\ p = cr[m].phase
             /\ p \in PhasesOf(CancelItinerary)
             /\ Underway(cr[m])
  <2>1. itinerary = "Cancel"
    BY <1>3, <1>6
  <2>2. p = cr[m].phase
    BY <1>1, <1>6, <2>1 DEF PhaseOf
  <2>3. cr[m].phase # "unset"
    BY <1>3, <1>6
  <2> QED BY <1>2, <1>3, <2>1, <2>2, <2>3, NamedFacts DEF Underway
<1>7. ASSUME NEW q, p \in PhasesOf(CancelItinerary), Precedes(CancelItinerary, q, p)
      PROVE  q # p
  <2>1. PICK i \in 1..12, j \in 1..12 :
           i < j /\ CancelItinerary[i].name = q /\ CancelItinerary[j].name = p
    BY <1>7, CancelNames DEF Precedes
  <2>2. i # j
    BY <2>1
  <2> QED BY <2>1, <2>2, CancelOnce
<1>8. ASSUME cr[m].itinerary = "Cancel", ~cr[m].errors, ~SpecOf[m].rollback,
             NEW q \in PhasesOf(CancelItinerary), Precedes(CancelItinerary, q, cr[m].phase)
      PROVE  Gone(m, q) /\ Gone(m, q)'
  <2>1. p = cr[m].phase /\ p \in PhasesOf(CancelItinerary) /\ Underway(cr[m])
    BY <1>6, <1>8
  <2>2. q # p
    BY <1>7, <1>8, <2>1
  <2>3. Gone(m, q)
    BY <1>8, <2>1 DEF Cleaning
  <2> QED BY <1>1, <1>5, <2>1, <2>2, <2>3, GoneStays
<1>9. Cleaning(m, cr[m])'
  BY <1>1, <1>8 DEF Cleaning
<1>10. ASSUME status.itinerary = "Cancel", ~status.errors, ~SpecOf[m].rollback,
              NEW q \in PhasesOf(CancelItinerary), Precedes(CancelItinerary, q, status.phase)
       PROVE  Gone(m, q)'
  <2>1. CASE o.result \in {"error", "fail"}
    BY <1>1, <1>10, <2>1, StatusFacts
  <2>2. CASE o.result = "conflict"
    <3>1. status = cr[m]
      BY <1>1, <2>2 DEF ResultStatus
    <3> QED BY <1>8, <1>10, <3>1
  <2>3. CASE o.result = "wait"
    <3>1. status = [cr[m] EXCEPT !.itinerary = itinerary, !.errors = cr[m].errors, !.phase = p]
      BY <1>1, <2>3 DEF ResultStatus, Statuses
    <3>2. /\ status.phase = p /\ status.errors = cr[m].errors
          /\ status.itinerary = itinerary
      BY <1>1, <3>1 DEF Statuses
    <3>3. CASE cr[m].itinerary = "Cancel"
      BY <1>6, <1>8, <1>10, <3>2, <3>3
    <3>4. CASE cr[m].itinerary # "Cancel"
      <4>1. p = "Canceling"
        BY <1>1, <1>10, <3>2, <3>4, FirstPhases DEF PhaseOf
      <4>2. p \in Waiting
        BY <1>1, <2>3 DEF Bounded
      <4> QED BY <4>1, <4>2 DEF Waiting
    <3> QED BY <3>3, <3>4
  <2>4. CASE o.result = "done"
    <3>1. PICK next : next = NextOf(m, itinerary, p, o.conds)
      OBVIOUS
    <3>2. status = [cr[m] EXCEPT !.itinerary = itinerary, !.errors = cr[m].errors, !.phase = next]
      BY <1>1, <2>4, <3>1 DEF ResultStatus, Statuses
    <3>3. /\ status.phase = next /\ status.errors = cr[m].errors
          /\ status.itinerary = itinerary
      BY <1>1, <3>2 DEF Statuses
    <3>4. itinerary = "Cancel" /\ p \in PhasesOf(CancelItinerary) /\ ~cr[m].errors
      BY <1>2, <1>10, <3>3, NamedFacts
    <3>5. q = p \/ Precedes(CancelItinerary, q, p) \/ Gone(m, q)
      BY <1>1, <1>4, <1>10, <3>1, <3>3, <3>4, CancelBehind
    <3>6. CASE q = p
      <4>1. world' \in WorldsAfter(m, p)
        BY <1>1, <2>4 DEF Bounded
      <4> QED BY <1>1, <3>6, <4>1, GoneDone
    <3>7. CASE q # p /\ Gone(m, q)
      BY <1>1, <1>5, <3>4, <3>7, GoneStays
    <3>8. CASE Precedes(CancelItinerary, q, p)
      <4>1. CASE cr[m].itinerary = "Cancel"
        BY <1>6, <1>8, <1>10, <3>4, <3>8, <4>1
      <4>2. CASE cr[m].itinerary # "Cancel"
        <5>1. p = "Canceling"
          BY <1>1, <3>4, <4>2, FirstPhases DEF PhaseOf
        <5>2. PICK i \in 1..12, j \in 1..12 : i < j /\ CancelItinerary[j].name = "Canceling"
          BY <3>8, <5>1, CancelNames DEF Precedes
        <5>3. j = 1
          BY <5>2, CancelNames, CancelOnce, 1 \in 1..12
        <5> QED BY <5>2, <5>3
      <4> QED BY <4>1, <4>2
    <3> QED BY <3>5, <3>6, <3>7, <3>8
  <2> QED BY <1>1, <2>1, <2>2, <2>3, <2>4 DEF Bounded
<1>11. EndsCanceled(status)
  <2> SUFFICES ASSUME status.phase = "Completed", ~status.errors, status.canceled
               PROVE  status.itinerary = "Cancel"
    BY DEF EndsCanceled
  <2>1. o.result = "done" /\ cr[m].canceled /\ status.errors = cr[m].errors
    BY <1>1, StatusFacts
  <2>2. itinerary = "Cancel"
    BY <1>3, <2>1
  <2>3. PICK next : status = [cr[m] EXCEPT !.itinerary = itinerary, !.errors = cr[m].errors,
                                           !.phase = next]
    BY <1>1, <2>1 DEF ResultStatus, Statuses
  <2> QED BY <1>1, <2>2, <2>3 DEF Statuses
<1> QED BY <1>1, <1>9, <1>10, <1>11 DEF Cleaning

\* No migration is under way at first.
LEMMA CleansInit == Init => Cleans
BY DEF Init, Cleans, Underway, Absent, NoPass

\* No other migration runs while one cancels, so what it has cleaned up stays so.
LEMMA CleansNext == IInv /\ Turns /\ PlanFits /\ Cleans /\ [Next]_vars => Cleans'
<1> SUFFICES ASSUME IInv, Turns, PlanFits, Cleans, [Next]_vars, ~SameSecond, ~LateStages
             PROVE  Cleans'
  BY DEF Cleans
<1>1. ASSUME world' = world, NEW m, NEW status, Cleaning(m, status)
      PROVE  Cleaning(m, status)'
  BY <1>1 DEF Cleaning, Gone
<1>2. ASSUME NEW m \in Migrations, Create(m) \/ Cancel(m)
      PROVE  Cleans'
  <2>1. /\ world' = world
        /\ pass' # NoPass => pass # NoPass /\ pass'.on = pass.on /\ pass'.status = pass.status
        /\ \A n \in Migrations : /\ cr'[n].phase = cr[n].phase
                                 /\ cr'[n].itinerary = cr[n].itinerary
                                 /\ cr'[n].errors = cr[n].errors
                                 /\ cr'[n].conds = cr[n].conds
    BY <1>2, UserFacts
  <2>2. ASSUME NEW n \in Migrations, Underway(cr'[n])
        PROVE  Cleaning(n, cr[n])'
    BY <2>1, <2>2 DEF Cleans, Cleaning, Gone, Underway
  <2>3. ASSUME pass' # NoPass
        PROVE  /\ Cleaning(pass.on, pass.status) /\ EndsCanceled(pass.status)
               /\ Has(pass.on, "Canceled") => pass.status.canceled
               /\ pass.on \in Migrations
    BY <2>1, <2>3 DEF Cleans, IInv, Writing, Pending
  <2>4. ASSUME pass' # NoPass
        PROVE  /\ Cleaning(pass.on, pass.status)'
               /\ Has(pass.on, "Canceled")' => pass'.status.canceled
    BY <2>1, <2>3, <2>4 DEF Cleaning, Gone, Has
  <2>5. pass' # NoPass => EndsCanceled(pass'.status)
    BY <2>1, <2>3
  <2> QED BY <2>2, <2>4, <2>5 DEF Cleans
<1>3. ASSUME NEW m \in Migrations, StartPass(m)
      PROVE  Cleans'
  <2>1. m \in Pending /\ pass = NoPass
    BY <1>3 DEF StartPass
  <2>2. /\ cr' = cr /\ pass'.on = m /\ pass' # NoPass
        /\ \/ world' = world /\ pass'.status = cr[m]
           \/ world' = world /\ pass'.status.phase = "Completed" /\ pass'.status.errors
           \/ \E v, itinerary, p, fault, o, status :
                 /\ Ran(m, v, itinerary, p, fault, o, status)
                 /\ FALSE \in PostponedBy(m)
                 /\ world' = o.world /\ pass'.status = status
    BY <1>3, <2>1, PassesEnd
  <2>3. /\ Told(m, cr[m], cr[m].conds) /\ ~Completed(m)
        /\ Has(m, "Canceled") => cr[m].canceled
    BY <2>1, MayPassFacts DEF MayPass, Told, CancelTold, CancelTypes, Has
  <2>4. pass'.status.canceled = cr[m].canceled
    BY <1>3, <2>1, CanceledKept
  <2>5. Has(m, "Canceled")' => pass'.status.canceled
    BY <2>2, <2>3, <2>4 DEF Has
  <2>6. CASE world' = world /\ pass'.status = cr[m]
    <3>1. Cleaning(m, cr[m])
      <4>1. cr[m].phase = "unset" => cr[m].itinerary # "Cancel"
        BY <2>3 DEF Told, OnItinerary
      <4> QED BY <1>3, <2>3, <4>1 DEF Cleans, Underway, Cleaning, Completed
    <3>2. EndsCanceled(cr[m])
      BY <2>3 DEF EndsCanceled, Completed
    <3> QED BY <1>1, <2>2, <2>5, <2>6, <3>1, <3>2 DEF Cleans
  <2>7. CASE world' = world /\ pass'.status.phase = "Completed" /\ pass'.status.errors
    <3>1. Cleaning(m, pass'.status) /\ EndsCanceled(pass'.status)
      BY <2>7 DEF Cleaning, EndsCanceled
    <3>2. \A n \in Migrations : Underway(cr[n]) => Cleaning(n, cr[n])'
      BY <2>2, <2>7 DEF Cleans, Cleaning, Gone
    <3> QED BY <2>2, <2>5, <2>7, <3>1, <3>2 DEF Cleans, Cleaning, Gone
  <2>8. CASE \E v, itinerary, p, fault, o, status :
                /\ Ran(m, v, itinerary, p, fault, o, status)
                /\ FALSE \in PostponedBy(m)
                /\ world' = o.world /\ pass'.status = status
    <3>1. PICK v, itinerary, p, fault, o, status :
             /\ Ran(m, v, itinerary, p, fault, o, status)
             /\ FALSE \in PostponedBy(m)
             /\ world' = o.world /\ pass'.status = status
      BY <2>8
    <3>2. Provided(m) /\ (Underway(cr[m]) => Cleaning(m, cr[m]))
      BY <1>3 DEF PlanFits, Cleans
    <3>3. /\ Underway(cr[m]) => Cleaning(m, cr[m])'
          /\ Cleaning(m, status)'
          /\ EndsCanceled(status)
      BY <2>1, <2>2, <3>1, <3>2, RanCleans
    <3>4. ASSUME NEW k \in Migrations, k # m
          PROVE  ~Underway(cr[k])
      <4>1. SUFFICES ASSUME Underway(cr[k])
                     PROVE  FALSE
        OBVIOUS
      <4>2. k \in Heads /\ m \in Heads
        BY <3>1, <3>4, <4>1, RunsAtHead DEF Turns
      <4> QED BY <3>4, <4>2, HeadIsAlone
    <3> QED BY <2>2, <2>5, <3>1, <3>3, <3>4 DEF Cleans, Cleaning, Gone
  <2> QED BY <2>2, <2>6, <2>7, <2>8
<1>4. CASE Save
  <2>1. PICK on : on = pass.on
    OBVIOUS
  <2>2. /\ pass # NoPass /\ pass' = NoPass /\ world' = world
        /\ on \in Migrations
        /\ \/ cr' = cr
           \/ /\ \A n \in Migrations \ {on} : cr'[n] = cr[n]
              /\ cr'[on].phase = pass.status.phase
              /\ cr'[on].itinerary = pass.status.itinerary
              /\ cr'[on].errors = pass.status.errors
    BY <1>4, <2>1, SaveFacts
  <2>3. ASSUME NEW n \in Migrations, Underway(cr'[n])
        PROVE  Cleaning(n, cr[n])'
    <3>1. (Underway(cr[n]) => Cleaning(n, cr[n])) /\ Cleaning(on, pass.status)
      BY <2>1, <2>2 DEF Cleans
    <3> QED BY <2>2, <2>3, <3>1 DEF Cleaning, Gone
  <2> QED BY <2>2, <2>3 DEF Cleans
<1>5. CASE SaveFails
  <2>1. /\ cr' = cr /\ world' = world /\ pass # NoPass
        /\ pass'.on = pass.on /\ pass'.status = pass.status
    BY <1>5, SaveFailsFacts
  <2>2. /\ Cleaning(pass'.on, pass'.status) /\ EndsCanceled(pass'.status)
        /\ "Canceled" \in TypesOf(cr[pass'.on].conds) => pass'.status.canceled
    BY <2>1 DEF Cleans, Has
  <2>3. \A n \in Migrations : Underway(cr[n]) => Cleaning(n, cr[n])'
    BY <1>1, <2>1 DEF Cleans
  <2> QED BY <2>1, <2>2, <2>3 DEF Cleans, Cleaning, Gone, Has
<1>6. CASE Lost
  <2>1. pass' = NoPass /\ cr' = cr /\ world' = world
    BY <1>6 DEF Lost
  <2> QED BY <1>1, <2>1 DEF Cleans
<1>7. CASE UNCHANGED vars
  BY <1>7 DEF vars, Cleans, Cleaning, Gone, Has
<1> QED BY <1>2, <1>3, <1>4, <1>5, <1>6, <1>7 DEF Next

\* What is left when a migration that cancels is over.
LEMMA CancelEnds ==
    ASSUME IInv, Cleans, [Next]_vars, ~SameSecond, ~LateStages, NEW m \in Migrations,
           ~Completed(m), cr'[m].phase = "Completed",
           Has(m, "Canceled") \/ "Canceled" \in TypesOf(cr'[m].conds),
           ~cr'[m].errors, ~SpecOf[m].rollback
    PROVE  /\ world.objects \cap ({m} \X ObjectKinds) = {}
           /\ "Registries" \notin world.helpers
           /\ "Annotations" \in world.helpers => SpecOf[m].keepAnnotations
           /\ world.src = "up"
<1>1. Save
  <2>1. cr'[m].phase # cr[m].phase
    BY DEF Completed
  <2>2. ~(\E n \in Migrations : Create(n) \/ Cancel(n))
    BY <2>1, UserFacts
  <2>3. ASSUME NEW n \in Migrations, StartPass(n) PROVE FALSE
    <3>1. n \in Pending /\ pass = NoPass
      BY <2>3 DEF StartPass
    <3> QED BY <2>1, <2>3, <3>1, PassesEnd
  <2> QED BY <2>1, <2>2, <2>3 DEF Next, SaveFails, Lost, vars
<1>2. /\ pass # NoPass /\ m = pass.on
      /\ pass.status.phase = "Completed" /\ ~pass.status.errors
      /\ cr'[m].conds = pass.conds.list
  <2>1. PICK on : on = pass.on
    OBVIOUS
  <2>2. /\ pass # NoPass
        /\ \/ cr' = cr
           \/ /\ \A n \in Migrations \ {on} : cr'[n] = cr[n]
              /\ cr'[on].phase = pass.status.phase
              /\ cr'[on].errors = pass.status.errors
              /\ cr'[on].conds = pass.conds.list
    BY <1>1, <2>1, SaveFacts
  <2> QED BY <2>1, <2>2 DEF Completed
<1>3. pass.status.canceled
  <2>1. "Canceled" \in TypesOf(pass.conds.list) => pass.status.canceled
    BY <1>2 DEF IInv, Writing, Told, CancelTold, CancelTypes
  <2> QED BY <1>2, <2>1 DEF Cleans
<1>4. pass.status.itinerary = "Cancel" /\ Cleaning(m, pass.status)
  BY <1>2, <1>3 DEF Cleans, EndsCanceled
<1>5. ASSUME NEW i \in 1..11
      PROVE  Gone(m, CancelItinerary[i].name)
  <2>1. Precedes(CancelItinerary, CancelItinerary[i].name, "Completed")
    BY <1>5, CancelNames, 12 \in 1..12, i \in 1..12, i < 12 DEF Precedes
  <2>2. CancelItinerary[i].name \in PhasesOf(CancelItinerary)
    BY CancelNames, i \in 1..12 DEF PhasesOf
  <2> QED BY <1>2, <1>4, <2>1, <2>2 DEF Cleaning
<1>6. /\ Gone(m, "DeleteBackups") /\ Gone(m, "DeleteRestores") /\ Gone(m, "DeleteRegistries")
      /\ Gone(m, "DeleteDirectVolumeMigrationResources")
      /\ Gone(m, "DeleteDirectImageMigrationResources")
      /\ Gone(m, "EnsureAnnotationsDeleted") /\ Gone(m, "UnQuiesceSrcApplications")
  BY <1>5, CancelNames
<1>7. \A kind \in ObjectKinds : <<m, kind>> \notin world.objects
  BY <1>6 DEF Gone, ObjectKinds
<1> QED BY <1>6, <1>7 DEF Gone

\* Under the same provisos, a canceled migration that ends without having failed
\* leaves nothing behind (task.go:265-281): every phase of the cancel that its
\* flags leave out had nothing to clean up.
THEOREM CancelIsClean ==
    ASSUME ~SameSecond, ~LateStages
    PROVE  Spec => CancelCleansUp
<1>1. ASSUME IInv, Cleans, [Next]_vars
      PROVE  [\A m \in Migrations :
                 /\ ~Completed(m) /\ cr'[m].phase = "Completed"
                 /\ Has(m, "Canceled") \/ "Canceled" \in TypesOf(cr'[m].conds)
                 /\ ~cr'[m].errors /\ ~SpecOf[m].rollback
                 => /\ world.objects \cap ({m} \X ObjectKinds) = {}
                    /\ "Registries" \notin world.helpers
                    /\ "Annotations" \in world.helpers => SpecOf[m].keepAnnotations
                    /\ world.src = "up"]_vars
  BY <1>1, CancelEnds
<1>2. Spec => []Turns
  BY TurnsInit, TurnsNext, IInvHolds, PTL DEF Spec
<1>3. Spec => []PlanFits
  BY PlanFitsInit, PlanFitsNext, IInvHolds, PTL DEF Spec
<1>4. Spec => []Cleans
  BY <1>2, <1>3, CleansInit, CleansNext, IInvHolds, PTL DEF Spec
<1> QED BY <1>1, <1>4, IInvHolds, PTL DEF Spec, CancelCleansUp

-----------------------------------------------------------------------------
(* The migrations of a plan implement the serial queue *)

\* The queue starts empty.
LEMMA QueueInit == Init => Queue!Init
<1> SUFFICES ASSUME Init PROVE Queue!Init
  OBVIOUS
<1>1. \A m \in Migrations : ~Created(m)
  BY DEF Init, Created, Absent
<1> QED BY <1>1 DEF Life, Queue!Init

\* Users create migrations, and cancel them without effect on the queue.
LEMMA UserSteps ==
    ASSUME IInv, NEW m \in Migrations, Create(m) \/ Cancel(m)
    PROVE  Queue!Create(m) \/ Life' = Life
<1>1. /\ \A n \in Migrations :
            /\ cr'[n].phase = cr[n].phase
            /\ cr'[n].conds = cr[n].conds
            /\ n # m \/ Cancel(m) => cr'[n].stamp = cr[n].stamp
      /\ cr \in [Migrations -> Statuses]
  BY UserFacts DEF IInv, TypeOK
<1>2. CASE Cancel(m)
  BY <1>1, <1>2 DEF Life, Created, Completed, Has, Running
<1>3. CASE Create(m)
  <2>1. ~Created(m) /\ cr[m].phase = "unset"
    BY <1>3 DEF Create, IInv, Begun
  <2>2. Created(m)'
    <3>1. PICK stamp \in {Latest + 1} \cup (IF SameSecond /\ Latest > 0 THEN {Latest} ELSE {}) :
             cr' = [cr EXCEPT ![m].stamp = stamp]
      BY <1>3 DEF Create
    <3>2. cr'[m].stamp = stamp
      BY <1>1, <3>1 DEF Statuses
    <3>3. Latest \in Nat
      BY <1>1, LatestFacts
    <3> QED BY <3>1, <3>2, <3>3 DEF Created
  <2>3. Life[m] = "absent" /\ Life'[m] = "pending"
    BY <1>1, <2>1, <2>2 DEF Life, Completed, Running
  <2>4. \A n \in Migrations \ {m} : Life'[n] = Life[n]
    BY <1>1 DEF Life, Created, Completed, Has, Running
  <2>5. Life' = [Life EXCEPT ![m] = "pending"]
    BY <2>3, <2>4 DEF Life
  <2> QED BY <2>3, <2>5 DEF Queue!Create
<1> QED BY <1>2, <1>3

\* The write of a pass begins a migration, ends it, refuses it before it began
\* or leaves it where it is.
LEMMA SaveSteps ==
    ASSUME IInv, Turns, ~SameSecond, ~LateStages, "early" \notin FaultKinds, Save
    PROVE  Queue!Next \/ Life' = Life
<1>1. PICK m : m = pass.on
  OBVIOUS
<1>2. /\ pass # NoPass
      /\ m \in Pending /\ m \in Migrations
      /\ \/ cr' = cr
         \/ /\ \A n \in Migrations \ {m} : cr'[n] = cr[n]
            /\ cr'[m].phase = pass.status.phase
            /\ cr'[m].errors = pass.status.errors
            /\ cr'[m].stamp = cr[m].stamp
  BY <1>1, SaveFacts
<1>3. CASE cr' = cr
  BY <1>3 DEF Life, Created, Completed, Has, Running
<1>4. CASE /\ \A n \in Migrations \ {m} : cr'[n] = cr[n]
           /\ cr'[m].phase = pass.status.phase
           /\ cr'[m].errors = pass.status.errors
           /\ cr'[m].stamp = cr[m].stamp
  <2>1. \A n \in Migrations \ {m} : Life'[n] = Life[n]
    BY <1>4 DEF Life, Created, Completed, Has, Running
  <2>2. /\ Created(m) /\ ~Completed(m) /\ Created(m)'
        /\ Life[m] = IF Running(m) THEN "running" ELSE "pending"
    BY <1>2, <1>4 DEF Pending, Life, Created
  <2>3. PICK to : to = Life'[m]
    OBVIOUS
  <2>4. Life' = [Life EXCEPT ![m] = to]
    BY <1>2, <2>1, <2>3 DEF Life
  <2>5. CASE pass.status.phase = "Completed"
    <3>1. to \in {"failed", "succeeded"}
      BY <1>2, <1>4, <2>2, <2>3, <2>5 DEF Life, Completed
    <3>2. CASE Running(m)
      <4>1. Queue!End(m, to)
        BY <2>2, <2>4, <3>2 DEF Queue!End
      <4> QED BY <1>2, <3>1, <4>1 DEF Queue!Next, Queue!Verdicts
    <3>3. CASE ~Running(m)
      <4>1. cr[m].phase = "unset"
        BY <2>2, <3>3 DEF Running, Completed
      <4>2. cr'[m].errors
        BY <1>1, <1>2, <1>4, <2>5, <4>1 DEF IInv, Writing
      <4>3. FailureTold(cr'[m], cr'[m].conds)
        <5>1. IInv'
          BY SaveKeeps
        <5>2. AllTold'
          BY <5>1 DEF IInv
        <5> QED BY <1>2, <5>2 DEF AllTold, Told
      <4>4. Has(m, "Failed")'
        BY <4>2, <4>3 DEF FailureTold, Has
      <4>5. to = "failed"
        BY <1>2, <1>4, <2>2, <2>3, <2>5, <4>4 DEF Life, Completed
      <4>6. Queue!Refuse(m)
        BY <2>2, <2>4, <3>3, <4>5 DEF Queue!Refuse
      <4> QED BY <1>2, <4>6 DEF Queue!Next
    <3> QED BY <3>2, <3>3
  <2>6. CASE pass.status.phase = "unset"
    <3>1. cr[m].phase = "unset"
      BY <1>1, <1>2, <2>6 DEF IInv, Writing
    <3>2. Life'[m] = Life[m]
      BY <1>2, <1>4, <2>2, <2>6, <3>1 DEF Life, Running, Completed
    <3> QED BY <1>2, <2>1, <3>2 DEF Life
  <2>7. CASE Underway(pass.status)
    <3>1. to = "running"
      BY <1>2, <1>4, <2>2, <2>3, <2>7 DEF Life, Completed, Running, Underway
    <3>2. CASE Running(m)
      <4>1. Life'[m] = Life[m]
        BY <2>2, <2>3, <3>1, <3>2
      <4> QED BY <1>2, <2>1, <4>1 DEF Life
    <3>3. CASE ~Running(m)
      <4>1. m \in Heads
        BY <1>1, <1>2, <2>7 DEF Turns
      <4>2. ASSUME NEW n \in Migrations, Life[n] = "running"
            PROVE  FALSE
        <5>1. Running(n)
          BY <4>2 DEF Life
        <5>2. n \in Heads
          BY <5>1 DEF Turns, Underway, Running
        <5> QED BY <3>3, <4>1, <5>1, <5>2, HeadIsAlone
      <4>3. Queue!Begin(m)
        BY <2>2, <2>4, <3>1, <3>3, <4>2 DEF Queue!Begin
      <4> QED BY <1>2, <4>3 DEF Queue!Next
    <3> QED BY <3>2, <3>3
  <2> QED BY <2>5, <2>6, <2>7 DEF Underway
<1> QED BY <1>2, <1>3, <1>4

\* Every step is one of the queue or leaves it as it is.
LEMMA QueueNext ==
    ASSUME IInv, Turns, [Next]_vars, ~SameSecond, ~LateStages, "early" \notin FaultKinds
    PROVE  [Queue!Next]_Queue!vars
<1>1. cr' = cr => Life' = Life
  BY DEF Life, Created, Completed, Has, Running
<1>2. ASSUME NEW m \in Migrations, Create(m) \/ Cancel(m)
      PROVE  Queue!Next \/ Life' = Life
  BY <1>2, UserSteps DEF Queue!Next
<1>3. ASSUME NEW m \in Migrations, StartPass(m)
      PROVE  Life' = Life
  <2>1. m \in Pending /\ pass = NoPass
    BY <1>3 DEF StartPass
  <2> QED BY <1>1, <1>3, <2>1, PassesEnd
<1>4. CASE Save
  BY <1>4, SaveSteps DEF Queue!vars
<1>5. CASE SaveFails \/ Lost \/ UNCHANGED vars
  BY <1>1, <1>5, SaveFailsFacts DEF Lost, vars, Queue!vars
<1> QED BY <1>2, <1>3, <1>4, <1>5 DEF Next, Queue!vars

\* With the same proviso, and as long as no pass fails before it begins staging
\* the conditions, the controller implements the queue's promise: migrations
\* run one after the other, and no verdict is ever revised.
THEOREM QueueIsSerial ==
    ASSUME ~SameSecond, ~LateStages, "early" \notin FaultKinds
    PROVE  Spec => SerialQueue
<1>1. IInv /\ Turns /\ [Next]_vars => [Queue!Next]_Queue!vars
  BY QueueNext
<1>2. Spec => []Turns
  BY TurnsInit, TurnsNext, IInvHolds, PTL DEF Spec
<1> QED BY <1>1, <1>2, QueueInit, IInvHolds, PTL DEF Spec, SerialQueue, Queue!Spec
=============================================================================

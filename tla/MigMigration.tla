---------------------------- MODULE MigMigration ----------------------------
(***************************************************************************)
(* The migrations of one plan, run by the migmigration controller          *)
(* (pkg/controller/migmigration): the reconcile pass with its validation,  *)
(* its serial queue and its phase handlers, the users who create and       *)
(* cancel migrations, and what the handlers do to the two clusters.        *)
(*                                                                         *)
(* The controller runs one pass at a time (one worker).  StartPass is the  *)
(* pass up to its write: nothing but the spec of a migration changes under *)
(* it, so the only other moment that matters is the write of the status,   *)
(* a step of its own (Save, SaveFails, Lost).                              *)
(***************************************************************************)
EXTENDS Conditions, Itineraries, FiniteSets

CONSTANTS
    Migrations,   \* the migrations users may create for the plan
    Plans,        \* the plans to run them for: facts about a plan, see Itineraries
    MaxCreated,   \* bound on how many of them are created
    SpecOf,       \* the spec each migration is created with
    Cancelable,   \* the migrations a user may cancel
    LateStages,   \* may a stage migration be created while another one runs
    SameSecond,   \* may two migrations have the same creation timestamp
    FaultKinds,   \* what may go wrong
    MaxFaults     \* bound on how often

AllFaults ==
    {"early", "late", "planNotReady", "registry", "error", "conflict", "fail",
     "warn", "save", "lost"}

SpecFields ==
    {"stage", "migrateState", "rollback", "quiescePods", "verify", "keepAnnotations"}

\* A spec with two of stage, migrateState and rollback is refused by
\* validateMigrationType for good and never reaches a phase.
ASSUME MigMigrationAssumption ==
    /\ \A m \in Migrations :
          /\ SpecOf[m] \in [SpecFields -> BOOLEAN]
          /\ ~(SpecOf[m].stage /\ (SpecOf[m].migrateState \/ SpecOf[m].rollback))
          /\ ~(SpecOf[m].migrateState /\ SpecOf[m].rollback)
    /\ IsFiniteSet(Migrations)
    /\ "none" \notin Migrations
    /\ Cancelable \subseteq Migrations
    /\ LateStages \in BOOLEAN
    /\ SameSecond \in BOOLEAN
    /\ FaultKinds \subseteq AllFaults
    /\ {MaxCreated, MaxFaults} \subseteq Nat

VARIABLES
    cr,      \* the migrations on the API server
    pass,    \* the pass that has not yet written its status, or NoPass
    world,   \* the two clusters and the objects a migration creates
    faults,  \* how much has gone wrong
    plan     \* the plan, which does not change

vars == <<cr, pass, world, faults, plan>>

NoPass == [on |-> "none"]

\* The status of a migration no pass has touched; "unset" is the empty string.
Absent == [stamp |-> 0, phase |-> "unset", itinerary |-> "unset",
           errors |-> FALSE, canceled |-> FALSE, conds |-> {}]

MigrationConditions ==
    { ReadyCondition, ReconcileFailedCondition,
      Cond("Running", Advisory, FALSE),
      Cond("Succeeded", Advisory, TRUE),
      Cond("SucceededWithWarnings", Advisory, TRUE),
      Cond("Failed", Advisory, TRUE),
      Cond("Canceling", Advisory, TRUE),
      Cond("Canceled", Advisory, TRUE),
      Cond("StagePodsCreated", Advisory, TRUE),
      Cond("RegistriesHealthy", Required, TRUE),
      Cond("RegistriesUnhealthy", Critical, TRUE),
      Cond("PlanNotReady", Critical, FALSE),
      Cond("HasFinalMigration", Critical, FALSE),
      Cond("Postponed", Critical, FALSE),
      Cond("StageNoOp", Warn, TRUE),
      Cond("PartialFailure", Warn, TRUE),     \* the handlers' durable warnings
      Cond("Blocked", Warn, FALSE) }          \* DVM blocked, unhealthy namespaces

Rejected == Cond("Failed", Critical, FALSE)   \* set by validateMigrationType

ConditionTypes == TypesOf(MigrationConditions)
TheCondition(type) == CHOOSE c \in MigrationConditions : c.type = type
With(r, type) == SetCondition(r, TheCondition(type))

ObjectKinds == {"InitialBackup", "StageBackup", "StageRestore", "FinalRestore",
                "DVM", "DIM"}
Backups  == Migrations \X {"InitialBackup", "StageBackup"}
Restores == Migrations \X {"StageRestore", "FinalRestore"}

Worlds ==
    [ src : {"up", "partial", "down"},        \* the applications on the source
      dst : {"none", "present", "quiesced", "deleting"},    \* and on the target
      helpers : SUBSET {"Registries", "StagePods", "Annotations"},
      objects : SUBSET (Migrations \X ObjectKinds) ]

Phases ==
    {"unset", "InitialBackupFailed", "StageBackupFailed", "StageRestoreFailed",
     "FinalRestoreFailed", "SourceStagePodsFailed", "WaitForRegistriesReady"}
    \cup UNION {PhasesOf(ItineraryNamed(name)) : name \in ItineraryNames}

Statuses ==
    [ stamp : Nat, phase : Phases,
      itinerary : ItineraryNames \cup {"unset"}, errors : BOOLEAN,
      canceled : BOOLEAN, conds : SUBSET (MigrationConditions \cup {Rejected}) ]

TypeOK ==
    /\ cr \in [Migrations -> Statuses]
    /\ world \in Worlds
    /\ faults \in 0..MaxFaults
    /\ plan \in Plans
    /\ pass # NoPass =>
          pass \in [ on : Migrations, status : Statuses,
                     conds : Collections(MigrationConditions \cup {Rejected}),
                     stale : BOOLEAN ]

Init ==
    /\ cr = [m \in Migrations |-> Absent]
    /\ pass = NoPass
    /\ world = [src |-> "up", dst |-> "none", helpers |-> {}, objects |-> {}]
    /\ faults = 0
    /\ plan \in Plans

Created(m)   == cr[m].stamp > 0
Completed(m) == cr[m].phase = "Completed"
Has(m, type) == type \in TypesOf(cr[m].conds)
Final(m)     == ~SpecOf[m].stage /\ ~SpecOf[m].migrateState /\ ~SpecOf[m].rollback
Pending      == {m \in Migrations : Created(m) /\ ~Completed(m)}

\* What goes wrong in a step counts against the bound.
Spend(kinds) ==
    /\ kinds \subseteq FaultKinds
    /\ faults + Cardinality(kinds) <= MaxFaults
    /\ faults' = faults + Cardinality(kinds)

-----------------------------------------------------------------------------
(* Users *)

Latest == Max({cr[m].stamp : m \in Migrations})

Create(m) ==
    /\ ~Created(m)
    /\ Cardinality({n \in Migrations : Created(n)}) < MaxCreated
    /\ SpecOf[m].stage /\ ~LateStages => \A n \in Pending : SpecOf[n].stage
    /\ \E stamp \in {Latest + 1} \cup (IF SameSecond /\ Latest > 0 THEN {Latest} ELSE {}) :
          cr' = [cr EXCEPT ![m].stamp = stamp]
    /\ UNCHANGED <<pass, world, faults, plan>>

\* The write of a pass of `m' that is under way will meet a conflict.
Cancel(m) ==
    /\ m \in Cancelable
    /\ Created(m)
    /\ ~cr[m].canceled
    /\ cr' = [cr EXCEPT ![m].canceled = TRUE]
    /\ pass' = IF pass.on = m THEN [pass EXCEPT !.stale = TRUE] ELSE pass
    /\ UNCHANGED <<world, faults, plan>>

-----------------------------------------------------------------------------
(* Validation and queue *)

\* Another migration that validateFinalMigration looks at: not a stage or a
\* state migration, and not one the user canceled.
Considered(m) ==
    {n \in Migrations \ {m} :
        Created(n) /\ ~SpecOf[n].stage /\ ~SpecOf[n].migrateState /\ ~cr[n].canceled}

UndoneByAny(m) == {n \in Considered(m) : SpecOf[n].rollback}   \* mutant

UndoneBy(m) == {n \in Considered(m) : SpecOf[n].rollback /\ Has(n, "Succeeded")}

Finished(m) ==
    {n \in Considered(m) \ UndoneBy(m) :
        \/ Has(n, "Succeeded")
        \/ SpecOf[m].stage /\ (Has(n, "Running") \/ Has(n, "Failed"))}

\* Whether one is found before a successful rollback, newest first.  Of two
\* with the same timestamp either may come first.
FinalMigrationFound(m) ==
    {found \in BOOLEAN :
        IF found
          THEN \E n \in Finished(m) : \A r \in UndoneBy(m) : cr[r].stamp <= cr[n].stamp
          ELSE \A n \in Finished(m) : \E r \in UndoneBy(m) : cr[r].stamp >= cr[n].stamp}

ValidatePlan(r, notReady) == IF notReady THEN With(r, "PlanNotReady") ELSE r

ValidateFinal(r, m, found) ==
    IF found /\ ~SpecOf[m].rollback THEN With(r, "HasFinalMigration") ELSE r

\* Once the registries were found healthy or not, every pass looks again.
ValidateRegistries(r, healthy) ==
    IF ~HasAnyCondition(r, {"RegistriesHealthy", "RegistriesUnhealthy"}) THEN r
    ELSE IF healthy
      THEN With(DeleteCondition(r, {"RegistriesUnhealthy"}), "RegistriesHealthy")
      ELSE With(DeleteCondition(r, {"RegistriesHealthy"}), "RegistriesUnhealthy")

\* A stage or final migration within one cluster that maps a namespace to
\* itself is failed and completed on the spot.
RejectedType(m) ==
    /\ plan.intraCluster /\ plan.sameNamespaces
    /\ ~SpecOf[m].migrateState /\ ~SpecOf[m].rollback

ValidateType(status, m) ==
    IF RejectedType(m) THEN [status EXCEPT !.phase = "Completed", !.errors = TRUE]
                       ELSE status

ValidateTypeConds(r, m) == IF RejectedType(m) THEN SetCondition(r, Rejected) ELSE r

Validated(m, notReady, found, healthy) ==
    LET begun == BeginStagingConditions(Loaded(cr[m].conds))
    IN  ValidateRegistries(
            ValidateFinal(
                ValidateTypeConds(ValidatePlan(begun, notReady), m), m, found),
            healthy)

BeforeNewestFirst(m, n) ==   \* mutant
    \/ SpecOf[m].stage /\ ~SpecOf[n].stage
    \/ SpecOf[m].stage = SpecOf[n].stage /\ cr[m].stamp > cr[n].stamp

\* Stage migrations first, then the others, each by creation time.
Before(m, n) ==
    \/ SpecOf[m].stage /\ ~SpecOf[n].stage
    \/ SpecOf[m].stage = SpecOf[n].stage /\ cr[m].stamp < cr[n].stamp

HeadsOfAll ==   \* mutant: completed migrations keep their place
    {m \in Migrations : Created(m) /\ \A n \in Migrations : Created(n) => ~Before(n, m)}

Heads == {m \in Pending : \A n \in Pending : ~Before(n, m)}

\* Whether a pass of `m' is postponed; with equal timestamps either may be.
PostponedBy(m) ==
    {postponed \in BOOLEAN : IF postponed THEN Heads # {m} ELSE m \in Heads}

-----------------------------------------------------------------------------
(* Handlers.  A handler ends with a record [result, conds, world, to]:       *)
(*   done      it called next()                                             *)
(*   wait      the phase is not over                                        *)
(*   fail      it called fail(to) and returned no error                     *)
(*   error, conflict   it returned an error                                 *)

Waiting ==   \* phases that poll something
    {"StartRefresh", "WaitForRefresh", "CreateRegistries", "WaitForRegistriesReady",
     "WaitForDirectImageMigrationToComplete", "EnsureCloudSecretPropagated",
     "PreBackupHooks", "InitialBackupCreated", "AnnotateResources",
     "StagePodsCreated", "WaitForResticReady", "WaitForVeleroReady",
     "EnsureSrcQuiesced", "EnsureDestQuiesced",
     "WaitForDirectVolumeMigrationToComplete",
     "WaitForDirectVolumeMigrationRollbackToComplete",
     "StageBackupCreated", "EnsureStageBackupReplicated", "PostBackupHooks",
     "PreRestoreHooks", "StageRestoreCreated", "EnsureStagePodsTerminated",
     "WaitForStaleStagePodsTerminated", "EnsureInitialBackupReplicated",
     "FinalRestoreCreated", "PostRestoreHooks", "Verification",
     "EnsureMigratedDeleted"}

VolumeWaits ==
    {"WaitForDirectVolumeMigrationToComplete",
     "WaitForDirectVolumeMigrationRollbackToComplete"}

\* Phases whose object may complete with a partial failure.
Warnable ==
    {"InitialBackupCreated", "StageBackupCreated", "StageRestoreCreated",
     "FinalRestoreCreated", "WaitForDirectImageMigrationToComplete"} \cup VolumeWaits

\* Where a handler sends the migration when the work it waits for has failed.
FailsTo ==
    [ InitialBackupCreated   |-> "InitialBackupFailed",
      StageBackupCreated     |-> "StageBackupFailed",
      StageRestoreCreated    |-> "StageRestoreFailed",
      FinalRestoreCreated    |-> "FinalRestoreFailed",
      StagePodsCreated       |-> "SourceStagePodsFailed",
      WaitForRegistriesReady |-> "WaitForRegistriesReady",
      SwapPVCReferences      |-> "MigrationFailed" ]

\* The object without which a handler returns "not found".
Needs(p) ==
    IF p \in {"InitialBackupCreated", "EnsureInitialBackupReplicated",
              "EnsureFinalRestore"} THEN {"InitialBackup"}
    ELSE IF p \in {"StageBackupCreated", "EnsureStageBackupReplicated",
                   "EnsureStageRestore"} THEN {"StageBackup"}
    ELSE IF p = "StageRestoreCreated" THEN {"StageRestore"}
    ELSE IF p = "FinalRestoreCreated" THEN {"FinalRestore"}
    ELSE IF p = "WaitForDirectImageMigrationToComplete" THEN {"DIM"}
    ELSE {}

Missing(m, p) == \E kind \in Needs(p) : <<m, kind>> \notin world.objects

\* What must hold on the clusters for a waiting phase to end.  A missing
\* DirectVolumeMigration does not keep a migration waiting.
MayEnd(p) ==
    /\ p = "WaitForRegistriesReady" => "Registries" \in world.helpers
    /\ p = "EnsureSrcQuiesced" => world.src = "down"
    /\ p = "EnsureDestQuiesced" => world.dst # "present"
    /\ p = "EnsureMigratedDeleted" => world.dst \in {"none", "deleting"}
    /\ p \in {"EnsureStagePodsTerminated", "WaitForStaleStagePodsTerminated"} =>
           "StagePods" \notin world.helpers

MakesObject(p) ==
    IF p = "EnsureInitialBackup" THEN {"InitialBackup"}
    ELSE IF p = "EnsureStageBackup" THEN {"StageBackup"}
    ELSE IF p = "EnsureStageRestore" THEN {"StageRestore"}
    ELSE IF p = "EnsureFinalRestore" THEN {"FinalRestore"}
    ELSE IF p = "CreateDirectImageMigration" THEN {"DIM"}
    ELSE IF p \in {"CreateDirectVolumeMigrationStage", "CreateDirectVolumeMigrationFinal",
                   "CreateDirectVolumeMigrationRollback"} THEN {"DVM"}
    ELSE {}

\* Backups and restores of migrations that are not running any more; only the
\* unfinished ones of them are deleted as stale.
StaleObjects ==
    world.objects \cap {o \in Backups \cup Restores : o[1] \notin Pending}

ObjectsAfter(m, p) ==
    IF p = "CleanStaleVeleroCRs"
      THEN {world.objects \ gone : gone \in SUBSET StaleObjects}
    ELSE {CASE p = "DeleteBackups"  -> world.objects \ Backups
            [] p = "DeleteRestores" -> world.objects \ Restores
            [] p = "DeleteDirectVolumeMigrationResources" ->
                   world.objects \ {<<m, "DVM">>}
            [] p = "DeleteDirectImageMigrationResources" ->
                   world.objects \ {<<m, "DIM">>}
            [] OTHER -> world.objects \cup ({m} \X MakesObject(p))}

HelpersAfter(m, p) ==
    IF p \in {"EnsureStagePodsFromRunning", "EnsureStagePodsFromTemplates",
              "EnsureStagePodsFromOrphanedPVCs"}
      THEN {world.helpers, world.helpers \cup {"StagePods"}}   \* if any are needed
    ELSE {CASE p = "CreateRegistries"  -> world.helpers \cup {"Registries"}
            [] p = "DeleteRegistries"  -> world.helpers \ {"Registries"}
            [] p = "AnnotateResources" -> world.helpers \cup {"Annotations"}
            [] p \in {"EnsureAnnotationsDeleted", "CleanStaleAnnotations"}
               /\ ~SpecOf[m].keepAnnotations -> world.helpers \ {"Annotations"}
            [] p \in {"EnsureStagePodsDeleted", "CleanStaleStagePods"} ->
                   world.helpers \ {"StagePods"}
            [] OTHER -> world.helpers}

SrcAfter(p) ==
    CASE p = "QuiesceSourceApplications" -> "down"
      [] p = "UnQuiesceSrcApplications"  -> "up"
      [] OTHER -> world.src

DstAfter(p) ==
    CASE p = "EnsureFinalRestore" -> "present"
      [] p = "UnQuiesceDestApplications" /\ world.dst = "quiesced" -> "present"
      [] p = "QuiesceDestinationApplications" /\ world.dst = "present" -> "quiesced"
      [] p = "DeleteMigrated" /\ world.dst # "none" -> "deleting"
      [] p = "EnsureMigratedDeleted" -> "none"
      [] OTHER -> world.dst

WorldsAfter(m, p) ==
    [src : {SrcAfter(p)}, dst : {DstAfter(p)},
     helpers : HelpersAfter(m, p), objects : ObjectsAfter(m, p)]

PartlyQuiesced(p) ==
    IF p \in {"QuiesceSourceApplications", "UnQuiesceSrcApplications"}
      THEN {[world EXCEPT !.src = "partial"]} ELSE {}

CondsAfter(p, r, w) ==
    CASE p = "WaitForRegistriesReady" -> With(r, "RegistriesHealthy")
      [] p = "DeleteRegistries" ->
             DeleteCondition(r, {"RegistriesHealthy", "RegistriesUnhealthy"})
      [] p \in {"EnsureStagePodsFromRunning", "EnsureStagePodsFromTemplates",
                "EnsureStagePodsFromOrphanedPVCs"} ->
             IF "StagePods" \in w.helpers THEN With(r, "StagePodsCreated") ELSE r
      [] p \in {"EnsureStagePodsTerminated", "WaitForStaleStagePodsTerminated"} ->
             DeleteCondition(r, {"StagePodsCreated"})
      [] p = "Canceling" -> With(r, "Canceling")
      [] p = "Canceled"  -> With(DeleteCondition(r, {"Canceling"}), "Canceled")
      [] OTHER -> r

Outcome(result, conds, w, to) ==
    [result |-> result, conds |-> conds, world |-> w, to |-> to]

\* next() re-stages the condition Running; MigrationFailed does not call it.
CondsNext(p, r, w) ==
    IF p = "MigrationFailed" THEN CondsAfter(p, r, w)
    ELSE StageCondition(CondsAfter(p, r, w), {"Running"})

\* The handler of phase `p', having nothing to wait for or to complain of.
Done(m, p, r) ==
    {Outcome("done", CondsNext(p, r, w), w, "unset") : w \in WorldsAfter(m, p)}

\* The outcomes that are nobody's fault.
Regular(m, p, r) ==
    IF Missing(m, p) THEN {Outcome("error", r, world, "unset")}
    ELSE (IF MayEnd(p) THEN Done(m, p, r) ELSE {}) \cup
         (IF p \notin Waiting \/ (p \in VolumeWaits /\ <<m, "DVM">> \notin world.objects)
            THEN {}
            ELSE {Outcome("wait", IF p \in VolumeWaits
                                    THEN DeleteCondition(r, {"Blocked"}) ELSE r,
                          world, "unset")})

\* An error comes before, in the middle of or after the handler's work, and
\* after it next() has re-staged the condition Running.
Failing(result, m, p, r) ==
    {Outcome(result, r, w, "unset") : w \in {world} \cup PartlyQuiesced(p)} \cup
    {Outcome(result, CondsNext(p, r, w), w, "unset") : w \in WorldsAfter(m, p)}

\* The phases whose handler writes to an API server, and so can conflict.
Writes(m, p) ==
    \/ WorldsAfter(m, p) # {world}
    \/ p \in {"RestartVelero", "RestartRestic", "CleanStaleResticCRs", "StartRefresh",
              "UnQuiesceDestApplications", "SwapPVCReferences", "DeleteMigrated"}

Warned(m, p, r) ==
    IF Missing(m, p) THEN {}
    ELSE IF p \in VolumeWaits /\ <<m, "DVM">> \notin world.objects THEN {}
    ELSE IF p \in Warnable THEN Done(m, p, With(r, "PartialFailure")) \cup
           {Outcome("wait", With(r, "Blocked"), world, "unset") : x \in {p} \cap VolumeWaits}
    ELSE IF p = "Verification" THEN Done(m, p, With(r, "Blocked"))
    ELSE {}

Outcomes(m, p, r, fault) ==
    CASE fault = "none"     -> Regular(m, p, r)
      [] fault = "warn"     -> Warned(m, p, r)
      [] fault = "error"    -> Failing("error", m, p, r)
      [] fault = "conflict" -> IF Writes(m, p) THEN Failing("conflict", m, p, r) ELSE {}
      [] fault = "fail"     -> IF p \in DOMAIN FailsTo /\ ~Missing(m, p)
                                 THEN {Outcome("fail", r, world, FailsTo[p])} ELSE {}

-----------------------------------------------------------------------------
(* The pass *)

\* The end of a pass, but for its write.
Finish(m, status, conds, w) ==
    /\ pass' = [on |-> m, status |-> status, conds |-> conds, stale |-> FALSE]
    /\ world' = w
    /\ UNCHANGED <<cr, plan>>

ReadyAndEnded(status, r) ==
    EndStagingConditions(
        SetReady(r, status.phase # "Completed" /\ ~HasBlockerCondition(r)))

FailEarly(m) ==   \* setting the owner reference fails
    /\ Spend({"early"})
    /\ Finish(m, cr[m], SetReconcileFailed(Loaded(cr[m].conds)), world)

FailLate(m) ==    \* the first call of validation fails, or one after it
    /\ Spend({"late"})
    /\ \/ Finish(m, cr[m],
                 SetReconcileFailed(BeginStagingConditions(Loaded(cr[m].conds))), world)
       \/ \E found \in FinalMigrationFound(m) :
             Finish(m, ValidateType(cr[m], m),
                    SetReconcileFailed(
                        Validated(m, FALSE, found, "Registries" \in world.helpers)),
                    world)

Refuse(m) ==      \* a blocker keeps the migration from running
    \E notReady, unhealthy \in BOOLEAN, found \in FinalMigrationFound(m) :
        LET r == Validated(m, notReady, found, "Registries" \in world.helpers /\ ~unhealthy)
            status == ValidateType(cr[m], m)
        IN  /\ unhealthy => /\ "Registries" \in world.helpers
                            /\ Has(m, "RegistriesHealthy") \/ Has(m, "RegistriesUnhealthy")
            /\ HasBlockerCondition(r)
            /\ Spend({k \in {"planNotReady"} : notReady} \cup {k \in {"registry"} : unhealthy})
            /\ Finish(m, status, ReadyAndEnded(status, r), world)

\* The validated conditions of a pass that nothing blocks.
Clear(m) ==
    {r \in {Validated(m, FALSE, found, "Registries" \in world.helpers) :
              found \in FinalMigrationFound(m)} : ~HasBlockerCondition(r)}

Postpone(m) ==
    /\ TRUE \in PostponedBy(m)
    /\ \E r \in Clear(m) :
          Finish(m, cr[m], ReadyAndEnded(cr[m], With(r, "Postponed")), world)
    /\ UNCHANGED faults

ItineraryOf(m, r) ==
    ChooseItinerary(cr[m].errors \/ HasCondition(r, "Failed"),
                    cr[m].canceled \/ HasAnyCondition(r, {"Canceled", "Canceling"}),
                    SpecOf[m])

PhaseOf(m, itinerary) ==
    IF cr[m].itinerary = itinerary THEN cr[m].phase ELSE FirstPhase(itinerary)

StageNoOp(m, r) ==
    IF SpecOf[m].stage /\ ~HasCondition(r, "StageNoOp") /\ ~plan.anyPVs /\ ~plan.imageStreams
      THEN With(r, "StageNoOp") ELSE r

NextOfSkips(m, itinerary, p, conds) ==   \* mutant: every cancel is a rollback's
    IF p = "MigrationFailed" THEN "Completed"
    ELSE NextPhase(ItineraryNamed(itinerary),
                   IF p = "Canceling" THEN "EnsureAnnotationsDeleted" ELSE p,
                   FlagsOf(plan, SpecOf[m], HasCondition(conds, "StagePodsCreated")))

\* A canceled rollback continues after EnsureAnnotationsDeleted.
NextOf(m, itinerary, p, conds) ==
    IF p = "MigrationFailed" THEN "Completed"
    ELSE NextPhase(ItineraryNamed(itinerary),
                   IF p = "Canceling" /\ SpecOf[m].rollback
                     THEN "EnsureAnnotationsDeleted" ELSE p,
                   FlagsOf(plan, SpecOf[m], HasCondition(conds, "StagePodsCreated")))

\* The warnings counted are all of the list, the un-staged ones too.
Verdict(r) ==
    IF "Failed" \in TypesOf(r.list) THEN r
    ELSE IF FindConditionByCategory(r, Warn) = {} THEN With(r, "Succeeded")
    ELSE With(r, "SucceededWithWarnings")

\* What migrate() makes of an outcome.
ResultStatus(m, itinerary, p, o) ==
    CASE o.result = "error"    -> [cr[m] EXCEPT !.errors = TRUE]
      [] o.result = "conflict" -> cr[m]
      [] OTHER -> [cr[m] EXCEPT
             !.itinerary = itinerary,
             !.errors = @ \/ o.result = "fail",
             !.phase = CASE o.result = "fail" -> o.to
                         [] o.result = "wait" -> p
                         [] o.result = "done" -> NextOf(m, itinerary, p, o.conds)]

ResultCondsRunning(status, o) ==   \* mutant: Running stays
    CASE o.result = "error"    -> With(o.conds, "Failed")
      [] o.result = "conflict" -> o.conds
      [] OTHER ->
           LET r == IF o.result = "fail" THEN With(o.conds, "Failed") ELSE o.conds
           IN  IF status.phase = "Completed" THEN Verdict(r) ELSE With(r, "Running")

ResultConds(status, o) ==
    CASE o.result = "error"    -> With(o.conds, "Failed")
      [] o.result = "conflict" -> o.conds
      [] OTHER ->
           LET r == IF o.result = "fail" THEN With(o.conds, "Failed") ELSE o.conds
           IN  IF status.phase = "Completed" THEN Verdict(DeleteCondition(r, {"Running"}))
               ELSE With(r, "Running")

Run(m) ==
    /\ FALSE \in PostponedBy(m)
    /\ \E v \in Clear(m), fault \in {"none", "warn", "error", "conflict", "fail"} :
          LET itinerary == ItineraryOf(m, v)
              p == PhaseOf(m, itinerary)
          IN  \E o \in Outcomes(m, p, StageNoOp(m, v), fault) :
                 LET status == ResultStatus(m, itinerary, p, o)
                 IN  /\ Spend({fault} \ {"none"})
                     /\ Finish(m, status,
                               ReadyAndEnded(status, ResultConds(status, o)), o.world)

StartPass(m) ==
    /\ pass = NoPass
    /\ m \in Pending
    /\ \/ FailEarly(m)
       \/ FailLate(m)
       \/ Refuse(m)
       \/ Postpone(m)
       \/ Run(m)

Written == [pass.status EXCEPT !.conds = pass.conds.list,
                               !.canceled = cr[pass.on].canceled]

\* The write meets a conflict, and nothing is saved, if the migration was
\* edited since it was read.
Save ==
    /\ pass # NoPass
    /\ cr' = IF pass.stale THEN cr ELSE [cr EXCEPT ![pass.on] = Written]
    /\ pass' = NoPass
    /\ UNCHANGED <<world, faults, plan>>

\* The write fails otherwise: the same status is written a second time, with
\* ReconcileFailed among the conditions.
SaveFails ==
    /\ pass # NoPass
    /\ ~pass.stale
    /\ ~HasCondition(pass.conds, "ReconcileFailed")
    /\ Spend({"save"})
    /\ pass' = [pass EXCEPT !.conds = SetReconcileFailed(@)]
    /\ UNCHANGED <<cr, world, plan>>

\* The controller dies before the write, or the write fails for good.
Lost ==
    /\ pass # NoPass
    /\ Spend({"lost"})
    /\ pass' = NoPass
    /\ UNCHANGED <<cr, world, plan>>

Next ==
    \/ \E m \in Migrations : Create(m) \/ Cancel(m) \/ StartPass(m)
    \/ Save
    \/ SaveFails
    \/ Lost

Spec == Init /\ [][Next]_vars

\* A pass of `m' starts, and one that brings it to another phase.
Passes(m) == pass = NoPass /\ pass' # NoPass /\ pass'.on = m
Moves(m)  == Passes(m) /\ pass'.status.phase # cr[m].phase

MayMove(m) ==
    /\ pass = NoPass
    /\ m \in Pending
    /\ FALSE \in PostponedBy(m)
    /\ \E v \in Clear(m) :
          \E o \in Regular(m, PhaseOf(m, ItineraryOf(m, v)), v) : o.result = "done"

\* Every pass asks to be requeued, so each pending migration gets its turn
\* again and again; and what a phase waits for happens in the end.  Both are
\* strong fairness, of StartPass(m) and of Run(m) when it is done, with the condition
\* that enables them spelled out.
Fairness ==
    /\ WF_vars(Save)
    /\ \A m \in Migrations :
          /\ []<>(pass = NoPass /\ m \in Pending) => []<><<Passes(m)>>_vars
          /\ []<>MayMove(m) => []<><<Moves(m)>>_vars

FairSpec == Spec /\ Fairness

-----------------------------------------------------------------------------
(* Properties *)

Verdicts == {"Succeeded", "SucceededWithWarnings", "Failed"}

\* A migration has one verdict, and has it exactly when it is completed:
\* whatever was lost, retried, canceled or failed on the way, it never ends
\* with two or with none, and never still looks running to the others.
OneVerdict ==
    \A m \in Migrations :
        /\ Completed(m) => /\ \E v \in Verdicts : Has(m, v) /\ \A u \in Verdicts : Has(m, u) => u = v
                           /\ ~Has(m, "Running")
        /\ Has(m, "Succeeded") \/ Has(m, "SucceededWithWarnings") => Completed(m)

\* The verdict tells of warnings exactly when one can be seen on the
\* migration, although it counts conditions the end of the pass removes.
WarningsShown ==
    \A m \in Migrations :
        LET warnings == {c \in cr[m].conds : c.category = Warn}
        IN  /\ Has(m, "SucceededWithWarnings") => warnings # {}
            /\ Has(m, "Succeeded") => warnings = {}

\* A verdict can be relied on: there is one, and it tells of warnings.
TrueVerdict == OneVerdict /\ WarningsShown

\* A migration with errors is never reported as successful (migrate.go:101,
\* "The migration has completed successfully.").
ErrorsNeverSucceed ==
    \A m \in Migrations :
        Completed(m) /\ cr[m].errors =>
            ~Has(m, "Succeeded") /\ ~Has(m, "SucceededWithWarnings")

\* What a migration reports at its end is true: one verdict, which tells of
\* warnings and is no success when there were errors (migrate.go:84-112).
HonestVerdict == TrueVerdict /\ ErrorsNeverSucceed

\* From the moment its failure is recorded a migration does nothing more to
\* the clusters: what is quiesced stays quiesced and what was created stays
\* for a later migration, or a rollback, to clean up.
FailedTouchesNothing ==
    [][world' # world => ~cr[pass'.on].errors]_vars

\* The applications on the source are started again only when the migrated
\* ones are gone from the target, except where the user canceled.
RestartsSafely ==
    [][world.src # "up" /\ world'.src = "up" =>
          \/ world.dst = "none"
          \/ cr[pass'.on].canceled
          \/ Has(pass'.on, "Canceling")]_vars

\* No step of a migration that has failed, or of a rollback that is not over
\* with the target, touches the applications.
ClustersSafe == FailedTouchesNothing /\ RestartsSafely

\* When a canceled stage or final migration completes without having failed,
\* none of its backups, restores and direct migrations are left, the
\* registries are gone, and the annotations unless they are to be kept, and
\* the source is running again.
CancelCleansUp ==
    [][\A m \in Migrations :
          /\ ~Completed(m) /\ cr'[m].phase = "Completed"
          /\ Has(m, "Canceled") \/ "Canceled" \in TypesOf(cr'[m].conds)
          /\ ~cr'[m].errors /\ ~SpecOf[m].rollback
          => /\ world.objects \cap ({m} \X ObjectKinds) = {}
             /\ "Registries" \notin world.helpers
             /\ "Annotations" \in world.helpers => SpecOf[m].keepAnnotations
             /\ world.src = "up"]_vars

\* Two final migrations of a plan succeed only if a rollback succeeded too.
\* validation.go:289-295 says of final migrations: "A final migratoin has
\* successfully completed" blocks them.
NoSecondFinal ==
    \A m, n \in Migrations :
        /\ m # n /\ Final(m) /\ Final(n)
        /\ Completed(m) /\ ~cr[m].errors /\ ~cr[m].canceled
        /\ Completed(n) /\ ~cr[n].errors /\ ~cr[n].canceled
        => \E r \in Migrations : SpecOf[r].rollback /\ Has(r, "Succeeded")

Running(m) == cr[m].phase \notin {"unset", "Completed"}

\* migmigration_controller.go:254: "Ensure that migrations run serially".
AtMostOneRunning ==
    \A m, n \in Migrations : Running(m) /\ Running(n) => m = n

Life ==
    [m \in Migrations |->
        IF ~Created(m) THEN "absent"
        ELSE IF Completed(m) THEN IF Has(m, "Failed") THEN "failed" ELSE "succeeded"
        ELSE IF Running(m) THEN "running" ELSE "pending"]

Queue == INSTANCE SerialMigrations WITH life <- Life

\* The controller implements the queue's promise: one migration at a time
\* from its first phase to its verdict, no verdict ever revised, no completed
\* migration ever reopened.
SerialQueue == Queue!Spec

\* Every migration completes, unless one is refused for good because of a
\* final migration, which holds up those behind it: with such a one nothing is
\* said of any.
Progress ==
    \A m \in Migrations :
        Created(m) ~> Completed(m) \/ \E n \in Migrations : Has(n, "HasFinalMigration")

\* migmigration_types.go:49: canceled "can be used on-demand to cancel the
\* running migration".
CancelTakesEffect ==
    \A m \in Migrations : Running(m) /\ cr[m].canceled ~> Completed(m)

\* validation.go:346: "Allow perform Rollback on finished Plan."
RollbackAllowed ==
    \A m \in Migrations : SpecOf[m].rollback /\ Created(m) ~> Completed(m)
=============================================================================

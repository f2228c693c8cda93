----------------------------- MODULE Itineraries -----------------------------
(***************************************************************************)
(* The itineraries of a migration (pkg/controller/migmigration/task.go):   *)
(* which phases each one lists, under which flags a phase is included, and *)
(* how the next phase is found.                                            *)
(*                                                                         *)
(* An itinerary is a sequence of [name, all, any]: the phase is included   *)
(* when every flag of `all' holds and, if `any' is not empty, some flag of *)
(* it does.  High level steps of the pipeline are left out.                *)
(***************************************************************************)
EXTENDS Naturals, Sequences, FiniteSetsExt

Always(name)       == [name |-> name, all |-> {},  any |-> {}]
When(name, flags)  == [name |-> name, all |-> flags, any |-> {}]
WhenAny(name, flags) == [name |-> name, all |-> {},  any |-> flags]

Registries  == {"IndirectImage", "EnableImage", "HasISs"}
Images      == {"DirectImage", "EnableImage"}
Volumes     == {"DirectVolume", "EnableVolume"}
IndirectPVs == {"HasPVs", "IndirectVolume"}
Conversion  == {"StorageConversion", "Quiesce"}

StageItinerary == <<
    Always("Created"),
    Always("Started"),
    Always("StartRefresh"),
    Always("WaitForRefresh"),
    Always("CleanStaleAnnotations"),
    Always("CleanStaleResticCRs"),
    Always("CleanStaleVeleroCRs"),
    Always("RestartVelero"),
    Always("CleanStaleStagePods"),
    Always("WaitForStaleStagePodsTerminated"),
    When("CreateRegistries", Registries),
    When("CreateDirectImageMigration", Images),
    When("QuiesceSourceApplications", {"Quiesce"}),
    When("EnsureSrcQuiesced", {"Quiesce"}),
    When("CreateDirectVolumeMigrationStage", Volumes),
    When("EnsureStagePodsFromRunning", IndirectPVs),
    When("EnsureStagePodsFromTemplates", IndirectPVs),
    When("EnsureStagePodsFromOrphanedPVCs", IndirectPVs),
    When("StagePodsCreated", {"HasStagePods"}),
    When("RestartRestic", {"HasStagePods"}),
    When("AnnotateResources", {"HasStageBackup"}),
    Always("WaitForVeleroReady"),
    When("WaitForResticReady", {"HasPVs", "HasStagePods"}),
    When("WaitForRegistriesReady", Registries),
    WhenAny("EnsureCloudSecretPropagated", {"HasStageBackup"}),
    When("EnsureStageBackup", {"HasStageBackup"}),
    When("StageBackupCreated", {"HasStageBackup"}),
    When("EnsureStageBackupReplicated", {"HasStageBackup"}),
    When("EnsureStageRestore", {"HasStageBackup"}),
    When("StageRestoreCreated", {"HasStageBackup"}),
    When("WaitForDirectImageMigrationToComplete", Images),
    When("WaitForDirectVolumeMigrationToComplete", Volumes),
    When("SwapPVCReferences", Conversion),
    Always("DeleteRegistries"),
    When("EnsureStagePodsDeleted", {"HasStagePods"}),
    When("EnsureStagePodsTerminated", {"HasStagePods"}),
    When("EnsureAnnotationsDeleted", {"HasStageBackup"}),
    Always("Completed") >>

FinalBackup == <<
    Always("Created"),
    Always("Started"),
    Always("StartRefresh"),
    Always("WaitForRefresh"),
    Always("CleanStaleAnnotations"),
    Always("CleanStaleResticCRs"),
    Always("CleanStaleVeleroCRs"),
    Always("RestartVelero"),
    Always("CleanStaleStagePods"),
    Always("WaitForStaleStagePodsTerminated"),
    When("CreateRegistries", Registries),
    Always("WaitForVeleroReady"),
    When("WaitForRegistriesReady", Registries),
    Always("EnsureCloudSecretPropagated"),
    When("PreBackupHooks", {"HasPreBackupHooks"}),
    When("CreateDirectImageMigration", Images),
    When("CreateDirectVolumeMigrationStage", Volumes),
    Always("EnsureInitialBackup"),
    Always("InitialBackupCreated"),
    When("QuiesceSourceApplications", {"Quiesce"}),
    When("EnsureSrcQuiesced", {"Quiesce"}) >>

FinalVolumes == <<
    When("EnsureStagePodsFromRunning", IndirectPVs),
    When("EnsureStagePodsFromTemplates", IndirectPVs),
    When("EnsureStagePodsFromOrphanedPVCs", IndirectPVs),
    When("StagePodsCreated", {"HasStagePods"}),
    When("RestartRestic", {"HasStagePods"}),
    When("AnnotateResources", {"HasStageBackup"}),
    WhenAny("WaitForResticReady", {"HasPVs", "HasStagePods"}),
    When("CreateDirectVolumeMigrationFinal", Volumes),
    When("EnsureStageBackup", {"HasStageBackup"}),
    When("StageBackupCreated", {"HasStageBackup"}),
    When("EnsureStageBackupReplicated", {"HasStageBackup"}),
    When("EnsureStageRestore", {"HasStageBackup"}),
    When("StageRestoreCreated", {"HasStageBackup"}),
    When("EnsureStagePodsDeleted", {"HasStagePods"}),
    When("EnsureStagePodsTerminated", {"HasStagePods"}),
    When("EnsureAnnotationsDeleted", {"HasStageBackup"}),
    When("WaitForDirectImageMigrationToComplete", Images),
    When("WaitForDirectVolumeMigrationToComplete", Volumes),
    When("PostBackupHooks", {"HasPostBackupHooks"}),
    When("PreRestoreHooks", {"HasPreRestoreHooks"}) >>

FinalRestore == <<
    Always("EnsureInitialBackupReplicated"),
    Always("EnsureFinalRestore"),
    Always("FinalRestoreCreated"),
    Always("UnQuiesceDestApplications"),
    When("PostRestoreHooks", {"HasPostRestoreHooks"}),
    When("SwapPVCReferences", Conversion),
    Always("DeleteRegistries"),
    When("Verification", {"HasVerify"}),
    Always("Completed") >>

\* mutant: the applications are restored before their volumes
FinalItineraryRestoresFirst == FinalBackup \o FinalRestore \o FinalVolumes

FinalItinerary == FinalBackup \o FinalVolumes \o FinalRestore

CancelItinerary == <<
    Always("Canceling"),
    Always("DeleteBackups"),
    Always("DeleteRestores"),
    Always("DeleteRegistries"),
    Always("DeleteHookJobs"),
    When("DeleteDirectVolumeMigrationResources", {"DirectVolume"}),
    When("DeleteDirectImageMigrationResources", {"DirectImage"}),
    When("EnsureStagePodsDeleted", {"HasStagePods"}),
    When("EnsureAnnotationsDeleted", {"HasStageBackup"}),
    Always("UnQuiesceSrcApplications"),
    Always("Canceled"),
    Always("Completed") >>

FailedItinerary == <<
    Always("MigrationFailed"),
    Always("DeleteRegistries"),
    When("EnsureAnnotationsDeleted", {"HasStageBackup"}),
    Always("Completed") >>

RollbackTarget == <<
    Always("DeleteBackups"),
    Always("DeleteRestores"),
    Always("DeleteRegistries"),
    Always("EnsureStagePodsDeleted"),
    WhenAny("EnsureAnnotationsDeleted", {"HasPVs", "HasISs"}),
    When("QuiesceDestinationApplications", Volumes),
    When("EnsureDestQuiesced", Volumes),
    When("SwapPVCReferences", {"StorageConversion"}),
    When("CreateDirectVolumeMigrationRollback", Volumes \cup {"LiveVmMigration"}),
    When("WaitForDirectVolumeMigrationRollbackToComplete",
         Volumes \cup {"LiveVmMigration"}),
    Always("DeleteMigrated"),
    Always("EnsureMigratedDeleted") >>

RollbackSource == << Always("UnQuiesceSrcApplications") >>

\* mutant: the source is started before the target is cleaned
RollbackItinerarySourceFirst ==
    << Always("Rollback") >> \o RollbackSource \o RollbackTarget
    \o << Always("Completed") >>

RollbackItinerary ==
    << Always("Rollback") >> \o RollbackTarget \o RollbackSource
    \o << Always("Completed") >>

ItineraryNames == {"Stage", "Final", "Cancel", "Failed", "Rollback"}

ItineraryNamed(name) ==
    CASE name = "Stage"    -> StageItinerary
      [] name = "Final"    -> FinalItinerary
      [] name = "Cancel"   -> CancelItinerary
      [] name = "Failed"   -> FailedItinerary
      [] name = "Rollback" -> RollbackItinerary

PhasesOf(itinerary) == {itinerary[i].name : i \in DOMAIN itinerary}
FirstPhase(name)    == ItineraryNamed(name)[1].name

-----------------------------------------------------------------------------
(* Flags.  `plan' is a record of facts about the plan and its clusters,     *)
(* `spec' the spec of the migration, `stagePods' whether the migration has  *)
(* the StagePodsCreated condition.                                          *)

IsStorageConversion(plan, spec) ==
    plan.intraCluster /\ (spec.migrateState \/ spec.rollback) /\ plan.sameNamespaces

ImagesEnabled(plan, spec) ==
    ~(plan.imagesDisabled \/ spec.migrateState \/ plan.stateType \/ plan.intraCluster)

HasStageBackup(plan, spec) ==
    /\ ~IsStorageConversion(plan, spec)
    /\ \/ plan.imageStreams /\ plan.indirectImage
       \/ plan.anyPVs /\ plan.indirectVolume
       \/ plan.moveOrSnapshotPVs

FlagsOf(plan, spec, stagePods) ==
    LET Flag(name, holds) == IF holds THEN {name} ELSE {}
    IN  UNION {
            Flag("HasPVs", plan.anyPVs),
            Flag("HasISs", plan.imageStreams),
            Flag("DirectImage", ~plan.indirectImage),
            Flag("IndirectImage", plan.indirectImage),
            Flag("EnableImage", ImagesEnabled(plan, spec)),
            Flag("DirectVolume", ~plan.indirectVolume /\ plan.directClaims),
            Flag("IndirectVolume", plan.indirectVolume),
            Flag("EnableVolume", ~plan.volumesDisabled),
            Flag("LiveVmMigration", plan.liveMigrate),
            Flag("StorageConversion", IsStorageConversion(plan, spec)),
            Flag("HasStageBackup", HasStageBackup(plan, spec)),
            Flag("HasStagePods", stagePods),
            Flag("Quiesce", spec.quiescePods),
            Flag("HasVerify", spec.verify),
            plan.hooks }

Included(phase, flags) ==
    /\ phase.all \subseteq flags
    /\ phase.any = {} \/ phase.any \cap flags # {}

AheadOfNext(itinerary, name, flags) ==   \* mutant: off by one
    {n \in DOMAIN itinerary :
        /\ \E i \in DOMAIN itinerary : i + 1 < n /\ itinerary[i].name = name
        /\ Included(itinerary[n], flags)}

\* The included positions that some earlier position of `name' precedes, that
\* is, the ones after its first occurrence.
Ahead(itinerary, name, flags) ==
    {n \in DOMAIN itinerary :
        /\ \E i \in DOMAIN itinerary : i < n /\ itinerary[i].name = name
        /\ Included(itinerary[n], flags)}

\* Skips to the first included phase; a phase the itinerary does not list,
\* or the end of the list, leads to Completed.
NextPhase(itinerary, name, flags) ==
    LET ahead == Ahead(itinerary, name, flags)
    IN  IF ahead = {} THEN "Completed" ELSE itinerary[Min(ahead)].name

\* The itinerary a pass runs: failure first, then cancel, rollback, stage.
ChooseItinerary(failed, canceled, spec) ==
    IF failed THEN "Failed"
    ELSE IF canceled THEN "Cancel"
    ELSE IF spec.rollback THEN "Rollback"
    ELSE IF spec.stage \/ spec.migrateState THEN "Stage"
    ELSE "Final"
=============================================================================

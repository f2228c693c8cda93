---------------------------- MODULE ItineraryWalk ----------------------------
(***************************************************************************)
(* One migration walked through its itinerary, phase by phase, for every   *)
(* plan and spec: which phases run before which, and what a cancel at any  *)
(* point still cleans up.  The handlers are reduced to what they create or *)
(* remove; waiting, errors and the queue of migrations are in MigMigration.*)
(***************************************************************************)
EXTENDS Itineraries

CONSTANTS
    Plans,   \* the facts about the plan to walk with
    Specs    \* the migration specs to walk with

ASSUME WalkAssumption ==
    Specs \subseteq [stage : BOOLEAN, rollback : BOOLEAN, migrateState : BOOLEAN,
                     quiescePods : BOOLEAN, verify : BOOLEAN, canceled : BOOLEAN]

VARIABLES
    plan,        \* fixed for a walk
    spec,        \* changes only when the user cancels
    itinerary,   \* name of the itinerary of the last pass, "" before the first
    phase,       \* the phase the next pass runs, "" before the first
    stagePods,   \* the condition StagePodsCreated
    seen         \* phases whose handler has run to its end

vars == <<plan, spec, itinerary, phase, stagePods, seen>>

AllPhases ==
    UNION {PhasesOf(ItineraryNamed(name)) : name \in ItineraryNames}

TypeOK ==
    /\ plan \in Plans
    /\ \E s \in Specs : \E c \in BOOLEAN : spec = [s EXCEPT !.canceled = c]
    /\ itinerary \in ItineraryNames \cup {""}
    /\ phase \in AllPhases \cup {""}
    /\ stagePods \in BOOLEAN
    /\ seen \subseteq AllPhases

Init ==
    /\ plan \in Plans
    /\ spec \in Specs
    /\ itinerary = ""
    /\ phase = ""
    /\ stagePods = FALSE
    /\ seen = {}

\* The itinerary and phase a pass runs: Task.init.  A walk never fails.
Chosen == ChooseItinerary(FALSE, spec.canceled \/ "Canceling" \in seen, spec)
Running == IF itinerary # Chosen THEN FirstPhase(Chosen) ELSE phase

CreatesStagePods ==
    {"EnsureStagePodsFromRunning", "EnsureStagePodsFromTemplates",
     "EnsureStagePodsFromOrphanedPVCs"}

\* Whether the condition StagePodsCreated holds after the handler of `p'.
StagePodsAfter(p) ==
    IF p \in CreatesStagePods THEN {stagePods, TRUE}
    ELSE IF p \in {"WaitForStaleStagePodsTerminated", "EnsureStagePodsTerminated"}
         THEN {FALSE}
    ELSE {stagePods}

NextFromSkips(p, pods) ==   \* mutant: every cancel is a rollback's
    LET from == IF p = "Canceling" THEN "EnsureAnnotationsDeleted" ELSE p
    IN  NextPhase(ItineraryNamed(Chosen), from, FlagsOf(plan, spec, pods))

\* Canceling a rollback continues after EnsureAnnotationsDeleted.
NextFrom(p, pods) ==
    LET from == IF p = "Canceling" /\ spec.rollback
                  THEN "EnsureAnnotationsDeleted" ELSE p
    IN  NextPhase(ItineraryNamed(Chosen), from, FlagsOf(plan, spec, pods))

RunPhase ==
    /\ phase # "Completed"
    /\ \E pods \in StagePodsAfter(Running) :
          /\ stagePods' = pods
          /\ phase' = NextFrom(Running, pods)
    /\ itinerary' = Chosen
    /\ seen' = seen \cup {Running}
    /\ UNCHANGED <<plan, spec>>

Cancel ==
    /\ phase # "Completed"
    /\ ~spec.canceled
    /\ spec' = [spec EXCEPT !.canceled = TRUE]
    /\ UNCHANGED <<plan, itinerary, phase, stagePods, seen>>

Next == RunPhase \/ Cancel

Spec == Init /\ [][Next]_vars

-----------------------------------------------------------------------------
(* Properties *)

\* A phase that waits for an object or a state runs only after the phase that
\* starts it, whatever the flags: the handlers answer a missing Backup,
\* Restore or DirectImageMigration with an error that fails the migration,
\* and wait forever for a registry nobody deploys.
WaitsHaveStarters ==
    LET starter ==
          [ InitialBackupCreated |-> "EnsureInitialBackup",
            EnsureInitialBackupReplicated |-> "EnsureInitialBackup",
            StageBackupCreated |-> "EnsureStageBackup",
            EnsureStageBackupReplicated |-> "EnsureStageBackup",
            StageRestoreCreated |-> "EnsureStageRestore",
            FinalRestoreCreated |-> "EnsureFinalRestore",
            WaitForRegistriesReady |-> "CreateRegistries",
            WaitForDirectImageMigrationToComplete |-> "CreateDirectImageMigration",
            EnsureSrcQuiesced |-> "QuiesceSourceApplications",
            EnsureDestQuiesced |-> "QuiesceDestinationApplications",
            EnsureMigratedDeleted |-> "DeleteMigrated" ]
    IN  \A wait \in DOMAIN starter \cap seen : starter[wait] \in seen

\* What a migration creates on the clusters for its own use is removed by the
\* time it completes, whether it ran to the end or was canceled at any point.
Leftover(made, removed) == made \in seen /\ removed \notin seen

NothingLeftBehind ==
    phase = "Completed" =>
        /\ ~Leftover("CreateRegistries", "DeleteRegistries")
        /\ ~Leftover("AnnotateResources", "EnsureAnnotationsDeleted")
        /\ stagePods => "EnsureStagePodsDeleted" \in seen
        /\ "Canceling" \in seen /\ ~spec.rollback =>
             /\ ~Leftover("CreateDirectImageMigration",
                          "DeleteDirectImageMigrationResources")
             /\ \A made \in {"CreateDirectVolumeMigrationStage",
                             "CreateDirectVolumeMigrationFinal"} :
                   ~Leftover(made, "DeleteDirectVolumeMigrationResources")

\* The target gets the restored applications only when all volume data has
\* been copied: the volumes' restore and their direct migration have finished
\* before the final restore starts, in every combination of flags.
DataBeforeFinalRestore ==
    "EnsureFinalRestore" \in seen =>
        /\ "EnsureStageBackup" \in seen => "StageRestoreCreated" \in seen
        /\ "CreateDirectVolumeMigrationStage" \in seen =>
              "WaitForDirectVolumeMigrationToComplete" \in seen
        /\ "CreateDirectImageMigration" \in seen =>
              "WaitForDirectImageMigrationToComplete" \in seen
=============================================================================

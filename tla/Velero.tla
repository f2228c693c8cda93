--------------------------------- MODULE Velero ---------------------------------
(***************************************************************************)
(* What a migration asks of the helpers it shares with others: Velero and  *)
(* Restic of both clusters, the image registries, and the jobs of its      *)
(* hooks (pkg/controller/migmigration/backup.go, restore.go, pod.go,       *)
(* registry.go, hooks.go and verify.go).                                   *)
(*                                                                         *)
(* What earlier migrations left behind is removed first, and Velero is     *)
(* restarted when it was at work on it.  Then backups and restores are     *)
(* asked for and waited for.                                               *)
(***************************************************************************)
EXTENDS Itineraries, SequencesExt

CONSTANTS
    Setups,       \* the plan, and what there is at first, see TypeOK
    FaultKinds,   \* what may go wrong
    MaxRuns       \* bound on the migrations of the plan

Clusters == {"src", "dst"}
HookPhases == {"PreBackup", "PostBackup", "PreRestore", "PostRestore"}
Workers == {"backup", "restore"}

\* The Velero CRs: the migration of each, and its kind.
NoLabel == 0        \* made by somebody else
Gone == 8           \* of a migration that is not there any more
Elsewhere == 9      \* of a migration of another plan, which is running
Backups == {"initial", "stage"}
Restores == {"stageRestore", "finalRestore"}
Of(worker) == IF worker = "backup" THEN Backups ELSE Restores
Owners == {NoLabel, Gone, Elsewhere} \cup 1..MaxRuns
CRs == Owners \X (Backups \cup Restores)
CRPhases == {"New", "InProgress", "Completed", "PartiallyFailed", "Failed"}

\* vols, images, verify   the plan copies volumes with Restic, copies images by way
\*                        of the registries, verifies the applications
\* restic   the Restic pods have to be restarted
\* hooks    the phases with a hook
\* crs, copies, busy      the Velero CRs, the Restic CRs and what Velero is at
\* registry               the registry that is there
\* maxFaults              bound on how much goes wrong
ASSUME VeleroAssumption ==
    /\ \A s \in Setups :
          /\ {s.vols, s.images, s.verify, s.restic} \subseteq BOOLEAN
          /\ s.hooks \subseteq HookPhases /\ s.maxFaults \in Nat
          /\ \A c \in Clusters : \A k \in DOMAIN s.crs[c] : k \in CRs
    /\ FaultKinds \subseteq {"error", "lost", "cancel", "partial", "fail", "hook", "pull", "app"}
    /\ MaxRuns \in Nat

VARIABLES
    setup,    \* the plan and its clusters
    objs,     \* what there is in the clusters
    run,      \* the migration
    runs,     \* how many migrations have started
    faults    \* how much has gone wrong

vars == <<setup, objs, run, runs, faults>>

-----------------------------------------------------------------------------
(* State *)

\* A registry: its secret, its deployment with the pod, and its service.  The other
\* two have the name of the secret, which is another each time one is made.
\* of    the migration whose labels the deployment has, 0 if it has the name of
\*       another secret than the one there is
\* svc   a service of that name, or of another
NoRegistry == [secret |-> "none", dep |-> "none", of |-> 0, pod |-> "none", svc |-> "none"]

Idle == run.phase = "Completed"
Uid == runs
Mine(kind) == <<Uid, kind>>
Nobody == <<NoLabel, "none">>

Verdicts == {"", "canceled", "failed"}
RunKinds == {"none", "stage", "final", "rollback"}

ModelledPhases ==
    {"CleanStaleResticCRs", "CleanStaleVeleroCRs", "RestartVelero", "WaitForVeleroReady",
     "CreateRegistries", "WaitForRegistriesReady", "RestartRestic", "WaitForResticReady",
     "EnsureCloudSecretPropagated", "PreBackupHooks", "PostBackupHooks", "PreRestoreHooks",
     "PostRestoreHooks", "EnsureInitialBackup", "InitialBackupCreated",
     "EnsureInitialBackupReplicated", "EnsureStageBackup", "StageBackupCreated",
     "EnsureStageBackupReplicated", "EnsureStageRestore", "StageRestoreCreated",
     "EnsureFinalRestore", "FinalRestoreCreated", "Verification", "DeleteRegistries",
     "DeleteBackups", "DeleteRestores", "DeleteHookJobs", "Completed"}

\* TypeOK: each worker of Velero is at a CR of its own kind, if at any; a registry
\* has a pod as long as it is deployed.
TypeOK ==
    /\ setup \in Setups
    /\ \A c \in Clusters :
          /\ DOMAIN objs.crs[c] \subseteq CRs
          /\ \A k \in DOMAIN objs.crs[c] : objs.crs[c][k] \in CRPhases
          /\ DOMAIN objs.copies[c] \subseteq CRs
          /\ \A k \in DOMAIN objs.copies[c] : objs.copies[c][k] \in {"New", "Done"}
          /\ \A w \in Workers : objs.busy[c][w] \in {Nobody} \cup (Owners \X Of(w))
          /\ {objs.velero[c], objs.restic[c]} \subseteq {"up", "going", "none"}
          /\ objs.registry[c] \in
                [ secret : {"none", "old", "good"}, dep : {"none", "up", "going"},
                  of : {0, Gone} \cup 1..MaxRuns, svc : {"none", "other", "fits"},
                  pod : {"none", "starting", "ready", "pullfail"} ]
          /\ objs.registry[c].dep = "none" <=> objs.registry[c].pod = "none"
    /\ DOMAIN objs.jobs \subseteq (1..MaxRuns) \X HookPhases
    /\ \A j \in DOMAIN objs.jobs : objs.jobs[j] \in {"running", "done", "failed", "going"}
    /\ objs.doomed \subseteq CRs /\ objs.app \in {"none", "starting", "ready", "unready"}
    /\ run \in [ kind : RunKinds, phase : ModelledPhases, verdict : Verdicts, cancel : BOOLEAN,
                 stale : SUBSET Clusters, healthy : BOOLEAN, warned : BOOLEAN,
                 spared : BOOLEAN, adrift : BOOLEAN ]
    /\ runs \in 0..MaxRuns /\ faults \in 0..setup.maxFaults

\* stale    StaleSrcVeleroCRsDeleted, StaleDestVeleroCRsDeleted
\* healthy  RegistriesHealthy or RegistriesUnhealthy, since the registries are checked
\* warned   a durable warning
\* spared   a job of a hook could not be deleted
\* adrift   Velero was at a deleted CR when it started, or when one of its passes was cut
NoRun ==
    [kind |-> "none", phase |-> "Completed", verdict |-> "", cancel |-> FALSE,
     stale |-> {}, healthy |-> FALSE, warned |-> FALSE, spared |-> FALSE,
     adrift |-> FALSE]

None == [k \in {} |-> "New"]

Init ==
    /\ setup \in Setups
    /\ objs = [crs |-> setup.crs, copies |-> setup.copies, busy |-> setup.busy,
               velero |-> [c \in Clusters |-> "up"], restic |-> [c \in Clusters |-> "up"],
               registry |-> [c \in Clusters |-> setup.registry],
               jobs |-> None, doomed |-> {}, app |-> "none"]
    /\ run = NoRun /\ runs = 0 /\ faults = 0

Spend(k) == k \in FaultKinds /\ faults < setup.maxFaults /\ faults' = faults + 1

-----------------------------------------------------------------------------
(* The plan *)

PlanFacts ==
    [ intraCluster |-> FALSE, sameNamespaces |-> FALSE, imagesDisabled |-> FALSE,
      volumesDisabled |-> FALSE, stateType |-> FALSE, liveMigrate |-> FALSE,
      imageStreams |-> setup.images, indirectImage |-> TRUE, indirectVolume |-> TRUE,
      directClaims |-> FALSE, anyPVs |-> setup.vols, moveOrSnapshotPVs |-> FALSE,
      hooks |-> {CASE h = "PreBackup"   -> "HasPreBackupHooks"
                   [] h = "PostBackup"  -> "HasPostBackupHooks"
                   [] h = "PreRestore"  -> "HasPreRestoreHooks"
                   [] h = "PostRestore" -> "HasPostRestoreHooks" : h \in setup.hooks} ]

SpecOf(r) ==
    [ migrateState |-> FALSE, rollback |-> r.kind = "rollback", stage |-> r.kind = "stage",
      quiescePods |-> FALSE, verify |-> setup.verify ]

ItineraryOf(r) == ChooseItinerary(r.verdict = "failed", r.verdict = "canceled", SpecOf(r))

\* The next phase of those that are modelled.  There are stage pods when there are
\* volumes.
After(r, phase) ==
    NextPhase(SelectSeq(ItineraryNamed(ItineraryOf(r)),
                        LAMBDA p : p.name \in ModelledPhases \/ p.name = phase),
              phase, FlagsOf(PlanFacts, SpecOf(r), setup.vols))

-----------------------------------------------------------------------------
(* What earlier migrations have left *)

Without(f, k) == [x \in DOMAIN f \ {k} |-> f[x]]

\* The course of one call for each member of a sequence, as the worlds there are
\* after each.
Each(s, items, Call(_, _)) ==
    FoldLeft(LAMBDA t, x : Append(t, Call(Last(t), x)), s, items)

NoneIsRunning(owner) == FALSE   \* mutant: the phase of the migration is not looked at

\* migrationUIDisRunning: it has not completed.
MigrationUIDisRunning(owner) == owner = Elsewhere \/ (owner = Uid /\ ~Idle)

Pending(phase) == phase \in {"New", "InProgress"}

\* deleteStaleBackupsOnCluster, deleteStaleRestoresOnCluster: what has no label is
\* not ours.
StaleCRs(o, c, kinds) ==
    {k \in DOMAIN o.crs[c] : /\ k[2] \in kinds /\ Pending(o.crs[c][k])
                             /\ k[1] # NoLabel /\ ~MigrationUIDisRunning(k[1])}

StaleOn(o, c) == SetToSeq(StaleCRs(o, c, Backups)) \o SetToSeq(StaleCRs(o, c, Restores))

\* deleteStaleVeleroCRs
StaleVeleroCRsDeleted(o) ==
    LET Deleted(s, c) == Each(s, StaleOn(Last(s), c),
                              LAMBDA w, k : [w EXCEPT !.crs[c] = Without(@, k)])
    IN  Deleted(Deleted(<<o>>, "src"), "dst")

StaleInNoCluster(o) == {}   \* mutant: Velero goes on with what was deleted

\* Where something was in progress, and Velero has to be restarted.
StaleIn(o) ==
    {c \in Clusters : \E k \in StaleCRs(o, c, Backups \cup Restores) :
                          o.crs[c][k] = "InProgress"}

\* deleteStalePVBsOnCluster, deleteStalePVRsOnCluster: the label is looked for as
\* well, but a CR without one is not skipped.
StaleCopies(o, c) ==
    {k \in DOMAIN o.copies[c] : o.copies[c][k] = "New" /\ ~MigrationUIDisRunning(k[1])}

\* It is an error when the backup or restore is not found.
Orphaned(o, c) == {k \in StaleCopies(o, c) : k \notin DOMAIN o.crs[c]}

\* deleteStaleResticCRs
StaleResticCRsDeleted(o) ==
    LET Deleted(s, c) == Each(s, SetToSeq(StaleCopies(Last(s), c) \ Orphaned(Last(s), c)),
                              LAMBDA w, k : [w EXCEPT !.copies[c] = Without(@, k)])
    IN  Deleted(Deleted(<<o>>, "src"), "dst")

\* deleteVeleroPodsForCluster: the pods that run
VeleroPodsDeleted(o) ==
    Each(<<o>>, SetToSeq({c \in run.stale : o.velero[c] = "up"}),
         LAMBDA w, c : [w EXCEPT !.velero[c] = "going"])

\* haveVeleroPodsStarted: nothing is waited for when nothing was deleted.
VeleroPodsStarted(o) == run.stale = {} \/ \A c \in Clusters : o.velero[c] = "up"

\* restartResticPods, haveResticPodsStarted, of the source
ResticPodsDeleted(o) ==
    IF setup.restic /\ o.restic["src"] = "up" THEN <<o, [o EXCEPT !.restic["src"] = "going"]>>
    ELSE <<o>>
ResticPodsStarted(o) == setup.restic => o.restic["src"] = "up"

\* veleroPodCredSecretPropagated: looks into the pods there are.
CredSecretPropagated(o) == \A c \in Clusters : o.velero[c] # "none"

-----------------------------------------------------------------------------
(* The registries *)

\* deleteImageRegistryDeploymentForClient: in the foreground
DeploymentDeleted(reg) == [reg EXCEPT !.dep = IF @ = "up" THEN "going" ELSE @]

\* ensureRegistrySecret: when it was not there or has changed, the registry has to
\* be deployed again.
SecretEnsured(reg) ==
    CASE reg.secret = "good" -> <<reg>>
      [] reg.secret = "old"  -> <<reg, DeploymentDeleted(reg),
                                  [DeploymentDeleted(reg) EXCEPT !.secret = "good"]>>
      [] reg.secret = "none" -> <<reg, DeploymentDeleted(reg),
                                  [DeploymentDeleted(reg) EXCEPT !.secret = "good", !.of = 0,
                                     !.svc = IF @ = "none" THEN @ ELSE "other"]>>

\* ensureRegistryDeployment: one that has other labels, though it may be going, is
\* updated, which the API refuses since its selector would change.
DeploymentRefused(reg) == reg.dep # "none" /\ reg.of # Uid
DeploymentEnsured(reg) ==
    IF reg.dep = "none" THEN [reg EXCEPT !.dep = "up", !.of = Uid, !.pod = "starting"] ELSE reg

\* ensureRegistryService: one of another name is deleted, and made again.
ServiceEnsured(reg) ==
    CASE reg.svc = "fits"  -> <<>>
      [] reg.svc = "none"  -> <<[reg EXCEPT !.svc = "fits"]>>
      [] reg.svc = "other" -> <<[reg EXCEPT !.svc = "none"], [reg EXCEPT !.svc = "fits"]>>

\* ensureMigRegistries, of a cluster and of both
RegistryEnsured(reg) ==
    LET secret == SecretEnsured(reg)
        dep == DeploymentEnsured(Last(secret))
    IN  IF DeploymentRefused(Last(secret)) THEN secret
        ELSE Append(secret, dep) \o ServiceEnsured(dep)

RegistriesEnsured(o) ==
    LET On(w, c) == LET course == RegistryEnsured(w.registry[c])
                    IN  [n \in DOMAIN course |-> [w EXCEPT !.registry[c] = course[n]]]
        onSrc == On(o, "src")
    IN  IF DeploymentRefused(Last(onSrc).registry["src"]) THEN onSrc
        ELSE onSrc \o On(Last(onSrc), "dst")

RegistriesRefused(o) ==
    \E c \in Clusters : DeploymentRefused(Last(RegistriesEnsured(o)).registry[c])

\* Before it deletes the service the code logs the name of the secret, and panics
\* when an earlier pass has deleted that.
LogsNilSecret(o, c) == o.registry[c].secret = "none" /\ o.registry[c].svc # "none"

\* deleteImageRegistryResourcesForClient: secret, deployment, service
RegistriesDeleted(o) ==
    LET On(w, c) ==
            LET bare == [w EXCEPT !.registry[c].secret = "none"]
                down == [bare EXCEPT !.registry[c] = DeploymentDeleted(@)]
            IN  <<bare, down>> \o (IF LogsNilSecret(w, c) THEN <<>>
                                   ELSE <<[down EXCEPT !.registry[c].svc = "none"]>>)
        onSrc == <<o>> \o On(o, "src")
    IN  IF \A c \in Clusters : o.registry[c] = NoRegistry THEN <<o>>
        ELSE IF LogsNilSecret(o, "src") THEN onSrc ELSE onSrc \o On(Last(onSrc), "dst")

\* ensureRegistryHealth
RegistriesHealthy(o) == \A c \in Clusters : o.registry[c].pod = "ready"

\* getAnnotations: a backup or a restore is made only where the registry is.
RegistryUsable(o, c) ==
    setup.images => o.registry[c].svc # "none" /\ o.registry[c].dep = "up"

-----------------------------------------------------------------------------
(* Backups, restores and hooks *)

\* ensureInitialBackup, ensureStageBackup, ensureStageRestore, ensureFinalRestore:
\* one that is there already is kept.
Asked(o, c, kind) ==
    IF Mine(kind) \in DOMAIN o.crs[c] THEN <<o>>
    ELSE <<o, [o EXCEPT !.crs[c] = (Mine(kind) :> "New") @@ @]>>

\* The CR that a phase makes or waits for, and its cluster.
CRof(phase) ==
    CASE phase \in {"EnsureInitialBackup", "InitialBackupCreated"} -> <<"src", "initial">>
      [] phase \in {"EnsureStageBackup", "StageBackupCreated"}     -> <<"src", "stage">>
      [] phase \in {"EnsureStageRestore", "StageRestoreCreated"}   -> <<"dst", "stageRestore">>
      [] phase \in {"EnsureFinalRestore", "FinalRestoreCreated"}   -> <<"dst", "finalRestore">>

Asking == {"EnsureInitialBackup", "EnsureStageBackup", "EnsureStageRestore", "EnsureFinalRestore"}
Waiting == {"InitialBackupCreated", "StageBackupCreated", "StageRestoreCreated",
            "FinalRestoreCreated"}

CRPhase(o, phase) ==
    LET c == CRof(phase)[1]
        k == Mine(CRof(phase)[2])
    IN  IF k \in DOMAIN o.crs[c] THEN o.crs[c][k] ELSE "none"

HasCompletedFully(o, phase) == CRPhase(o, phase) = "Completed"   \* mutant: partial is not seen

\* hasBackupCompleted, hasRestoreCompleted
HasCompleted(o, phase) == CRPhase(o, phase) \in {"Completed", "PartiallyFailed", "Failed"}

BackupOf(restore) == IF restore = "stageRestore" THEN "stage" ELSE "initial"

\* isBackupReplicated
IsBackupReplicated(o, kind) == Mine(kind) \in DOMAIN o.crs["dst"]

\* deleteCorrelatedBackups: requests, for the backups of the plan
OfPlan(k) == k[1] \in 1..MaxRuns \cup {Gone}
CorrelatedBackupsDeleted(o) ==
    Each(<<o>>, SetToSeq({k \in DOMAIN o.crs["src"] : OfPlan(k) /\ k[2] \in Backups}),
         LAMBDA w, k : [w EXCEPT !.doomed = @ \cup {k}])

\* deleteCorrelatedRestores
CorrelatedRestoresDeleted(o) ==
    Each(<<o>>, SetToSeq({k \in DOMAIN o.crs["dst"] : OfPlan(k) /\ k[2] \in Restores}),
         LAMBDA w, k : [w EXCEPT !.crs["dst"] = Without(@, k)])

HookOf(phase) ==
    CASE phase = "PreBackupHooks"   -> "PreBackup"
      [] phase = "PostBackupHooks"  -> "PostBackup"
      [] phase = "PreRestoreHooks"  -> "PreRestore"
      [] phase = "PostRestoreHooks" -> "PostRestore"
Hooking == {"PreBackupHooks", "PostBackupHooks", "PreRestoreHooks", "PostRestoreHooks"}

Job(o, h) == IF Mine(h) \in DOMAIN o.jobs THEN o.jobs[Mine(h)] ELSE "none"

\* ensureJob: it is found again by its labels.
JobEnsured(o, h) ==
    IF Job(o, h) # "none" THEN <<o>>
    ELSE <<o, [o EXCEPT !.jobs = (Mine(h) :> "running") @@ @]>>

JobStarted(o, h) == Job(o, h) \in {"running", "done"}   \* mutant: not waited for
JobDone(o, h) == Job(o, h) = "done"

\* stopHookJobs
HookJobsStopped(o) ==
    Each(<<o>>, SetToSeq({h \in setup.hooks : Job(o, h) \notin {"none", "going"}}),
         LAMBDA w, h : [w EXCEPT !.jobs[Mine(h)] = "going"])

-----------------------------------------------------------------------------
(* The handlers of the phases *)

\* What the handler of a phase does to the clusters.
Course(phase) ==
    CASE phase = "CleanStaleResticCRs" -> StaleResticCRsDeleted(objs)
      [] phase = "CleanStaleVeleroCRs" -> StaleVeleroCRsDeleted(objs)
      [] phase = "RestartVelero"       -> VeleroPodsDeleted(objs)
      [] phase = "RestartRestic"       -> ResticPodsDeleted(objs)
      [] phase = "CreateRegistries"    -> RegistriesEnsured(objs)
      [] phase = "DeleteRegistries"    -> RegistriesDeleted(objs)
      [] phase = "DeleteBackups"       -> CorrelatedBackupsDeleted(objs)
      [] phase = "DeleteRestores"      -> CorrelatedRestoresDeleted(objs)
      [] phase = "DeleteHookJobs"      -> HookJobsStopped(objs)
      [] phase \in Hooking             -> JobEnsured(objs, HookOf(phase))
      [] phase \in Asking              -> Asked(objs, CRof(phase)[1], CRof(phase)[2])
      [] OTHER                         -> <<objs>>

\* When it goes on to the next phase.
Done(phase) ==
    CASE phase = "WaitForVeleroReady"            -> VeleroPodsStarted(objs)
      [] phase = "WaitForResticReady"            -> ResticPodsStarted(objs)
      [] phase = "WaitForRegistriesReady"        -> RegistriesHealthy(objs)
      [] phase = "EnsureCloudSecretPropagated"   -> CredSecretPropagated(objs)
      [] phase = "EnsureInitialBackupReplicated" -> IsBackupReplicated(objs, "initial")
      [] phase = "EnsureStageBackupReplicated"   -> IsBackupReplicated(objs, "stage")
      [] phase = "Verification"                  -> objs.app # "starting"
      [] phase = "DeleteRegistries"              -> \A c \in Clusters : ~LogsNilSecret(objs, c)
      [] phase \in Hooking                       -> JobDone(objs, HookOf(phase))
      [] phase \in Waiting                       -> HasCompleted(objs, phase)
      [] OTHER                                   -> TRUE

\* A handler that finds out that the migration has failed.
Refused(phase) ==
    \/ phase = "CleanStaleResticCRs" /\ \E c \in Clusters : Orphaned(objs, c) # {}
    \/ phase = "CreateRegistries" /\ RegistriesRefused(objs)
    \/ phase = "WaitForRegistriesReady" /\ \E c \in Clusters : objs.registry[c].pod = "pullfail"
    \/ phase \in Asking /\ ~RegistryUsable(objs, CRof(phase)[1]) /\ CRPhase(objs, phase) = "none"
    \/ phase \in Asking /\ CRof(phase)[2] \in Restores
           /\ Mine(BackupOf(CRof(phase)[2])) \notin DOMAIN objs.crs["src"]
    \/ phase \in Waiting /\ CRPhase(objs, phase) \in {"none", "Failed"}
    \/ phase \in Hooking /\ Job(objs, HookOf(phase)) = "failed"

\* Of these some calls have been made before that.
FailingHalfway == {"CleanStaleResticCRs", "CreateRegistries"}

\* setInitialBackupPartialFailureWarning and the others, reportHealthCondition
Warns(phase) ==
    \/ phase \in Waiting /\ CRPhase(objs, phase) = "PartiallyFailed"
    \/ phase = "Verification" /\ objs.app = "unready"

\* The registries are validated before every pass, once they have been healthy.
Blocked == run.healthy /\ ~RegistriesHealthy(objs)

Canceling == run.cancel /\ run.verdict = ""
Handling(phase) == run.phase = phase /\ ~Idle /\ ~Canceling /\ ~Blocked

Advanced(r, phase) == [r EXCEPT !.phase = After(r, phase)]
Failed(r) == [r EXCEPT !.verdict = "failed", !.phase = "Completed"]

\* A worker of Velero is at a CR that was deleted.
Ghosts(o) ==
    \E c \in Clusters, w \in Workers : o.busy[c][w] \notin DOMAIN o.crs[c] \cup {Nobody}

Handle(phase) ==
    /\ Handling(phase) /\ ~Refused(phase)
    /\ Done(phase) \/ Last(Course(phase)) # objs
    /\ objs' = Last(Course(phase))
    /\ run' = IF ~Done(phase) THEN run
              ELSE Advanced([run EXCEPT
                       !.stale = CASE phase = "CleanStaleVeleroCRs" -> @ \cup StaleIn(objs)
                                   [] phase = "WaitForVeleroReady"  -> {}
                                   [] OTHER                         -> @,
                       !.healthy = CASE phase = "WaitForRegistriesReady" -> TRUE
                                     [] phase \in {"DeleteRegistries", "CreateRegistries"} -> FALSE
                                     [] OTHER -> @,
                       !.warned = @ \/ Warns(phase)], phase)
    /\ UNCHANGED <<setup, runs, faults>>

HandleRefused(phase) ==
    /\ Handling(phase) /\ Refused(phase)
    /\ run' = Failed(run)
    /\ objs' = IF phase \in FailingHalfway THEN Last(Course(phase)) ELSE objs
    /\ UNCHANGED <<setup, runs, faults>>

\* After some of the calls the controller stops, or the status cannot be written
\* after all of them: the phase is repeated, and what the pass has recorded is lost.
\* A call that fails ends the migration, but for the deletion of a job.
Cut(phase, kind) ==
    /\ Handling(phase) /\ (Refused(phase) => phase \in FailingHalfway) /\ Spend(kind)
    /\ \E n \in 1..Len(Course(phase)) :
          /\ kind = "lost" => n > 1
          /\ kind = "error" => n < Len(Course(phase)) /\ phase # "DeleteHookJobs"
          /\ objs' = Course(phase)[n]
          /\ run' = IF kind = "error" THEN Failed(run)
                    ELSE [run EXCEPT !.adrift = @ \/ Ghosts(Course(phase)[n])]
    /\ UNCHANGED <<setup, runs>>

JobsSpared ==
    /\ Handling("DeleteHookJobs") /\ Len(HookJobsStopped(objs)) > 1 /\ Spend("error")
    /\ run' = Advanced([run EXCEPT !.spared = TRUE], "DeleteHookJobs")
    /\ UNCHANGED <<setup, objs, runs>>

\* Task.init, at the start of a pass
TurnToCancel ==
    /\ Canceling /\ ~Idle /\ ~Blocked
    /\ run' = Advanced([run EXCEPT !.verdict = "canceled"], "Canceling")
    /\ UNCHANGED <<setup, objs, runs, faults>>

Pass ==
    \/ TurnToCancel
    \/ \E phase \in ModelledPhases : Handle(phase) \/ HandleRefused(phase)

Trouble ==
    \/ \E phase \in ModelledPhases, kind \in {"lost", "error"} : Cut(phase, kind)
    \/ JobsSpared

-----------------------------------------------------------------------------
(* Velero: one worker for backups and one for restores, each of which takes    *)
(* one CR at a time and stays with it when it is deleted.                      *)

Copying(k) == k[2] \in {"stage", "stageRestore"}

VeleroTakes(c, w) ==
    /\ objs.velero[c] = "up" /\ objs.busy[c][w] = Nobody
    /\ \E k \in DOMAIN objs.crs[c] :
          /\ k[2] \in Of(w) /\ objs.crs[c][k] = "New"
          /\ IF w = "restore" /\ <<k[1], BackupOf(k[2])>> \notin DOMAIN objs.crs["dst"]
             THEN objs' = [objs EXCEPT !.crs[c][k] = "Failed"]
             ELSE objs' = [objs EXCEPT !.crs[c][k] = "InProgress", !.busy[c][w] = k,
                             !.copies[c] = IF Copying(k) THEN (k :> "New") @@ @ ELSE @]
    /\ UNCHANGED <<setup, run, runs, faults>>

\* Restic CRs that were deleted are waited for until a timeout.
VeleroEnds(c, w) ==
    LET k == objs.busy[c][w]
        Ends(phase) ==
            objs' = [objs EXCEPT !.busy[c][w] = Nobody,
                       !.app = IF k[2] = "finalRestore" /\ setup.verify THEN "starting" ELSE @,
                       !.crs[c] = IF k \in DOMAIN @ THEN [@ EXCEPT ![k] = phase] ELSE @]
    IN  /\ objs.velero[c] = "up" /\ k # Nobody
        /\ k \in DOMAIN objs.copies[c] => objs.copies[c][k] = "Done"
        /\ \/ /\ Ends(IF Copying(k) /\ k \notin DOMAIN objs.copies[c] THEN "PartiallyFailed"
                      ELSE "Completed")
              /\ UNCHANGED faults
           \/ k[1] = Uid /\ Spend("partial") /\ Ends("PartiallyFailed")
           \/ k[1] = Uid /\ Spend("fail") /\ Ends("Failed")
        /\ UNCHANGED <<setup, run, runs>>

VeleroSyncs(k) ==
    /\ objs.velero["dst"] = "up" /\ k \in DOMAIN objs.crs["src"] \ DOMAIN objs.crs["dst"]
    /\ k[1] = Uid /\ objs.crs["src"][k] \in {"Completed", "PartiallyFailed"}
    /\ objs' = [objs EXCEPT !.crs["dst"] = (k :> objs.crs["src"][k]) @@ @]
    /\ UNCHANGED <<setup, run, runs, faults>>

\* A backup in progress is not deleted on request.
VeleroDeletes(k) ==
    /\ k \in objs.doomed /\ objs.velero["src"] = "up"
    /\ objs' = IF k \in DOMAIN objs.crs["src"] /\ objs.crs["src"][k] = "InProgress"
               THEN [objs EXCEPT !.doomed = @ \ {k}]
               ELSE [objs EXCEPT !.doomed = @ \ {k}, !.crs["src"] = Without(@, k),
                       !.crs["dst"] = Without(@, k)]
    /\ UNCHANGED <<setup, run, runs, faults>>

PodOf(which, c) ==
    /\ objs' = CASE objs[which][c] = "going" -> [objs EXCEPT ![which][c] = "none",
                        !.busy[c] = IF which = "velero" THEN [w \in Workers |-> Nobody] ELSE @]
                 [] objs[which][c] = "none"  -> [objs EXCEPT ![which][c] = "up"]
                 [] OTHER                    -> objs
    /\ objs' # objs
    /\ UNCHANGED <<setup, run, runs, faults>>

ResticCopies(c) ==
    /\ objs.restic[c] = "up"
    /\ \E k \in DOMAIN objs.copies[c] :
          objs.copies[c][k] = "New" /\ objs' = [objs EXCEPT !.copies[c][k] = "Done"]
    /\ UNCHANGED <<setup, run, runs, faults>>

\* A Restic CR is removed after its backup or restore.
Collects(c) ==
    /\ \E k \in DOMAIN objs.copies[c] \ DOMAIN objs.crs[c] :
          objs' = [objs EXCEPT !.copies[c] = Without(@, k)]
    /\ UNCHANGED <<setup, run, runs, faults>>

-----------------------------------------------------------------------------
(* Registries, jobs, the application and the user *)

RegistryStarts(c) ==
    /\ objs.registry[c].pod = "starting" /\ objs.registry[c].dep = "up"
    /\ \/ objs' = [objs EXCEPT !.registry[c].pod = "ready"] /\ UNCHANGED faults
       \/ Spend("pull") /\ objs' = [objs EXCEPT !.registry[c].pod = "pullfail"]
    /\ UNCHANGED <<setup, run, runs>>

RegistryGoes(c) ==
    /\ objs.registry[c].dep = "going"
    /\ objs' = [objs EXCEPT !.registry[c] = [@ EXCEPT !.dep = "none", !.of = 0, !.pod = "none"]]
    /\ UNCHANGED <<setup, run, runs, faults>>

JobMoves(j) ==
    /\ j \in DOMAIN objs.jobs
    /\ \/ /\ objs.jobs[j] = "running" /\ objs' = [objs EXCEPT !.jobs[j] = "done"]
          /\ UNCHANGED faults
       \/ objs.jobs[j] = "running" /\ Spend("hook") /\ objs' = [objs EXCEPT !.jobs[j] = "failed"]
       \/ /\ objs.jobs[j] = "going" /\ objs' = [objs EXCEPT !.jobs = Without(@, j)]
          /\ UNCHANGED faults
    /\ UNCHANGED <<setup, run, runs>>

AppStarts ==
    /\ objs.app = "starting"
    /\ \/ objs' = [objs EXCEPT !.app = "ready"] /\ UNCHANGED faults
       \/ Spend("app") /\ objs' = [objs EXCEPT !.app = "unready"]
    /\ UNCHANGED <<setup, run, runs>>

\* After a final migration the plan is closed for all but a rollback.
Start(kind) ==
    /\ Idle /\ runs < MaxRuns
    /\ run.kind = "final" /\ run.verdict = "" => kind = "rollback"
    /\ runs = 0 => kind # "rollback"
    /\ run' = LET r == [NoRun EXCEPT !.kind = kind, !.adrift = Ghosts(objs)]
              IN  Advanced(r, IF kind = "rollback" THEN "Rollback" ELSE "Created")
    /\ runs' = runs + 1
    /\ UNCHANGED <<setup, objs, faults>>

Cancel ==
    /\ ~Idle /\ ~run.cancel /\ run.kind # "rollback" /\ Spend("cancel")
    /\ run' = [run EXCEPT !.cancel = TRUE]
    /\ UNCHANGED <<setup, objs, runs>>

Keys == (1..MaxRuns) \X Backups

Helpers ==
    \/ \E c \in Clusters, w \in Workers : VeleroTakes(c, w) \/ VeleroEnds(c, w)
    \/ \E k \in Keys : VeleroSyncs(k)
    \/ \E k \in objs.doomed : VeleroDeletes(k)
    \/ \E c \in Clusters : \/ \E which \in {"velero", "restic"} : PodOf(which, c)
                           \/ ResticCopies(c) \/ Collects(c)
                           \/ RegistryStarts(c) \/ RegistryGoes(c)
    \/ \E j \in (1..MaxRuns) \X HookPhases : JobMoves(j)
    \/ AppStarts

User == (\E kind \in RunKinds \ {"none"} : Start(kind)) \/ Cancel

Next == Pass \/ Trouble \/ Helpers \/ User

Spec == Init /\ [][Next]_vars

\* WF_vars(Pass), its ENABLED written out: a pass changes something.
PassMoves ==
    /\ ~Idle /\ ~Blocked
    /\ \/ Canceling
       \/ Refused(run.phase) \/ Done(run.phase) \/ Last(Course(run.phase)) # objs
FairPasses == []<>~PassMoves \/ []<><<Pass>>_vars

FairSpec ==
    /\ Spec /\ FairPasses /\ WF_vars(AppStarts)
    /\ \A c \in Clusters, w \in Workers : WF_vars(VeleroTakes(c, w)) /\ WF_vars(VeleroEnds(c, w))
    /\ \A k \in Keys : WF_vars(VeleroSyncs(k))
    /\ \A c \in Clusters : WF_vars(RegistryStarts(c)) /\ WF_vars(ResticCopies(c))
    /\ \A c \in Clusters, which \in {"velero", "restic"} : WF_vars(PodOf(which, c))
    /\ \A j \in (1..MaxRuns) \X HookPhases : WF_vars(JobMoves(j))

-----------------------------------------------------------------------------
(* Properties *)

\* The phases of a migration from which on Velero has to be free for it.
Using ==
    Asking \cup Waiting \cup {"EnsureInitialBackupReplicated", "EnsureStageBackupReplicated"}

\* While a migration makes backups and restores Velero and Restic have nothing else
\* to do on either cluster than what belongs to a migration that is running or to
\* somebody else: nothing is queued, and no worker is busy with a CR that was
\* deleted.  It takes a worker that was not at a deleted CR when the migration
\* started, and a pass that deletes CRs and is not cut, see the README.
QueueEmpty ==
    run.phase \in Using /\ ~run.adrift =>
        \A c \in Clusters :
            /\ ~Ghosts(objs)
            /\ \A k \in DOMAIN objs.crs[c] :
                  Pending(objs.crs[c][k]) => k[1] \in {NoLabel, Elsewhere, Uid}
            /\ \A k \in DOMAIN objs.copies[c] \cap DOMAIN objs.crs[c] :
                  objs.copies[c][k] = "New" => k[1] \in {NoLabel, Elsewhere, Uid}

\* No step takes a backup, a restore or a Restic CR away from a migration of another
\* plan that is running, nor a backup or a restore from somebody else.
RunningKept ==
    [][\A c \in Clusters :
          /\ \A k \in DOMAIN objs.crs[c] :
                k[1] \in {NoLabel, Elsewhere} => k \in DOMAIN objs'.crs[c]
          /\ \A k \in DOMAIN objs.copies[c] : k[1] = Elsewhere => k \in DOMAIN objs'.copies[c]]_vars

\* A restore of a migration that was not canceled finds its backup on the
\* destination.
RestoreFindsBackup ==
    ~(run.cancel /\ run.verdict # "") /\ run.kind # "rollback" =>
        \A kind \in Restores :
            Mine(kind) \in DOMAIN objs.crs["dst"] =>
                Mine(BackupOf(kind)) \in DOMAIN objs.crs["dst"]

\* ensureMigRegistries: "Ensure the migration registries on both source and dest
\* clusters have been created", so that the migration can wait for them: none that it
\* waits for is one that an earlier migration has left and that is going.
RegistriesThere ==
    run.phase = "WaitForRegistriesReady" =>
        \A c \in Clusters : objs.registry[c].dep = "up" /\ objs.registry[c].svc = "fits"

\* A migration gets what it asks of its helpers: Velero is free and finds the backups,
\* and the registries are there.
VeleroServes == QueueEmpty /\ RestoreFindsBackup /\ RegistriesThere

\* The hooks are over before what comes after them begins, however passes are cut
\* and repeated: before the backup, between the copy and the restore.
HooksInOrder ==
    run.verdict = "" /\ run.kind = "final" =>
        /\ Mine("initial") \in DOMAIN objs.crs["src"] /\ "PreBackup" \in setup.hooks =>
              Job(objs, "PreBackup") = "done"
        /\ Mine("finalRestore") \in DOMAIN objs.crs["dst"] =>
              \A h \in setup.hooks \cap {"PostBackup", "PreRestore"} : Job(objs, h) = "done"
        /\ Job(objs, "PreRestore") # "none" /\ "PostBackup" \in setup.hooks =>
              Job(objs, "PostBackup") = "done"
        /\ Idle => \A h \in setup.hooks : Job(objs, h) = "done"

\* Nothing of a canceled migration runs on when it has completed: no job of a hook
\* whose deletion did not fail, and no registry.
CancelStops ==
    Idle /\ run.verdict = "canceled" =>
        /\ ~run.spared => \A h \in HookPhases : Job(objs, h) # "running"
        /\ \A c \in Clusters : objs.registry[c].dep # "up"

\* The jobs of hooks run when they should and no longer.
JobsInOrder == HooksInOrder /\ CancelStops

\* A migration has deleted its registries without recording it, and misses them before
\* every pass; or it has deleted a secret and not the service, and every later pass
\* panics, see LogsNilSecret.
Unregistered ==
    \/ run.healthy /\ \E c \in Clusters : objs.registry[c].dep # "up"
    \/ run.phase = "DeleteRegistries" /\ \E c \in Clusters : LogsNilSecret(objs, c)

\* A migration that has started ends, but for two known cases.
Ends == ~Idle ~> (Idle \/ Unregistered)
===============================================================================

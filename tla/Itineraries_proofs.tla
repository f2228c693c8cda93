------------------------- MODULE Itineraries_proofs -------------------------
(***************************************************************************)
(* Lemmas about the itineraries and about how the next phase is found, for *)
(* every combination of flags: the phase after one that is listed is       *)
(* listed, and it is not Completed as long as a phase without flags lies   *)
(* ahead.                                                                  *)
(***************************************************************************)
EXTENDS Itineraries, WellFoundedInduction, TLAPS

NatLess == {pair \in Nat \X Nat : pair[1] < pair[2]}

\* No number has an infinite descent below it.
LEMMA NatLessIsWellFounded == IsWellFoundedOn(NatLess, Nat)
BY NatLessThanWellFounded DEF OpToRel, NatLess

\* A set of numbers that is not empty has a least one.
LEMMA Least ==
    ASSUME NEW S \in SUBSET Nat, S # {}
    PROVE  \E x \in S : \A y \in S : x <= y
<1>1. PICK x \in S : \A y \in S : <<y, x>> \notin NatLess
  BY NatLessIsWellFounded, WFMin
<1>2. ASSUME NEW y \in S PROVE x <= y
  <2>1. x \in Nat /\ y \in Nat
    OBVIOUS
  <2>2. <<y, x>> \in Nat \X Nat
    BY <2>1
  <2>3. <<y, x>>[1] = y /\ <<y, x>>[2] = x
    OBVIOUS
  <2>4. ~(y < x)
    BY <1>1, <2>2, <2>3 DEF NatLess
  <2> QED BY <2>1, <2>4
<1> QED BY <1>2

\* Min is that one.
LEMMA MinFacts ==
    ASSUME NEW S \in SUBSET Nat, S # {}
    PROVE  Min(S) \in S /\ \A y \in S : Min(S) <= y
BY Least DEF Min

-----------------------------------------------------------------------------
(* The lists *)

\* An itinerary of `n' phases, of which Completed is the last and no other.
Listed(itinerary, n) ==
    /\ n \in Nat
    /\ DOMAIN itinerary = 1..n
    /\ n > 0
    /\ itinerary[n].name = "Completed"
    /\ \A i \in 1..n : i # n => itinerary[i].name \notin {"unset", "Completed"}

\* An itinerary without these phases.
Avoids(itinerary, names) == \A i \in DOMAIN itinerary : itinerary[i].name \notin names

\* A phase that no flag leaves out (task.go:1453-1526).
Unconditional(phase) == phase.all = {} /\ phase.any = {}

\* The stage itinerary, phase by phase.
LEMMA StageNames ==
    /\ DOMAIN StageItinerary = 1..38
    /\ StageItinerary[1].name = "Created"
    /\ StageItinerary[2].name = "Started"
    /\ StageItinerary[3].name = "StartRefresh"
    /\ StageItinerary[4].name = "WaitForRefresh"
    /\ StageItinerary[5].name = "CleanStaleAnnotations"
    /\ StageItinerary[6].name = "CleanStaleResticCRs"
    /\ StageItinerary[7].name = "CleanStaleVeleroCRs"
    /\ StageItinerary[8].name = "RestartVelero"
    /\ StageItinerary[9].name = "CleanStaleStagePods"
    /\ StageItinerary[10].name = "WaitForStaleStagePodsTerminated"
    /\ StageItinerary[11].name = "CreateRegistries"
    /\ StageItinerary[12].name = "CreateDirectImageMigration"
    /\ StageItinerary[13].name = "QuiesceSourceApplications"
    /\ StageItinerary[14].name = "EnsureSrcQuiesced"
    /\ StageItinerary[15].name = "CreateDirectVolumeMigrationStage"
    /\ StageItinerary[16].name = "EnsureStagePodsFromRunning"
    /\ StageItinerary[17].name = "EnsureStagePodsFromTemplates"
    /\ StageItinerary[18].name = "EnsureStagePodsFromOrphanedPVCs"
    /\ StageItinerary[19].name = "StagePodsCreated"
    /\ StageItinerary[20].name = "RestartRestic"
    /\ StageItinerary[21].name = "AnnotateResources"
    /\ StageItinerary[22].name = "WaitForVeleroReady"
    /\ StageItinerary[23].name = "WaitForResticReady"
    /\ StageItinerary[24].name = "WaitForRegistriesReady"
    /\ StageItinerary[25].name = "EnsureCloudSecretPropagated"
    /\ StageItinerary[26].name = "EnsureStageBackup"
    /\ StageItinerary[27].name = "StageBackupCreated"
    /\ StageItinerary[28].name = "EnsureStageBackupReplicated"
    /\ StageItinerary[29].name = "EnsureStageRestore"
    /\ StageItinerary[30].name = "StageRestoreCreated"
    /\ StageItinerary[31].name = "WaitForDirectImageMigrationToComplete"
    /\ StageItinerary[32].name = "WaitForDirectVolumeMigrationToComplete"
    /\ StageItinerary[33].name = "SwapPVCReferences"
    /\ StageItinerary[34].name = "DeleteRegistries"
    /\ StageItinerary[35].name = "EnsureStagePodsDeleted"
    /\ StageItinerary[36].name = "EnsureStagePodsTerminated"
    /\ StageItinerary[37].name = "EnsureAnnotationsDeleted"
    /\ StageItinerary[38].name = "Completed"
<1>0. DOMAIN StageItinerary = 1..38
  BY DEF StageItinerary, Always, When, WhenAny
<1>1. /\ StageItinerary[1].name = "Created"
      /\ StageItinerary[2].name = "Started"
      /\ StageItinerary[3].name = "StartRefresh"
      /\ StageItinerary[4].name = "WaitForRefresh"
      /\ StageItinerary[5].name = "CleanStaleAnnotations"
      /\ StageItinerary[6].name = "CleanStaleResticCRs"
      /\ StageItinerary[7].name = "CleanStaleVeleroCRs"
      /\ StageItinerary[8].name = "RestartVelero"
      /\ StageItinerary[9].name = "CleanStaleStagePods"
      /\ StageItinerary[10].name = "WaitForStaleStagePodsTerminated"
  BY DEF StageItinerary, Always, When, WhenAny
<1>2. /\ StageItinerary[11].name = "CreateRegistries"
      /\ StageItinerary[12].name = "CreateDirectImageMigration"
      /\ StageItinerary[13].name = "QuiesceSourceApplications"
      /\ StageItinerary[14].name = "EnsureSrcQuiesced"
      /\ StageItinerary[15].name = "CreateDirectVolumeMigrationStage"
      /\ StageItinerary[16].name = "EnsureStagePodsFromRunning"
      /\ StageItinerary[17].name = "EnsureStagePodsFromTemplates"
      /\ StageItinerary[18].name = "EnsureStagePodsFromOrphanedPVCs"
      /\ StageItinerary[19].name = "StagePodsCreated"
      /\ StageItinerary[20].name = "RestartRestic"
  BY DEF StageItinerary, Always, When, WhenAny
<1>3. /\ StageItinerary[21].name = "AnnotateResources"
      /\ StageItinerary[22].name = "WaitForVeleroReady"
      /\ StageItinerary[23].name = "WaitForResticReady"
      /\ StageItinerary[24].name = "WaitForRegistriesReady"
      /\ StageItinerary[25].name = "EnsureCloudSecretPropagated"
      /\ StageItinerary[26].name = "EnsureStageBackup"
      /\ StageItinerary[27].name = "StageBackupCreated"
      /\ StageItinerary[28].name = "EnsureStageBackupReplicated"
      /\ StageItinerary[29].name = "EnsureStageRestore"
      /\ StageItinerary[30].name = "StageRestoreCreated"
  BY DEF StageItinerary, Always, When, WhenAny
<1>4. /\ StageItinerary[31].name = "WaitForDirectImageMigrationToComplete"
      /\ StageItinerary[32].name = "WaitForDirectVolumeMigrationToComplete"
      /\ StageItinerary[33].name = "SwapPVCReferences"
      /\ StageItinerary[34].name = "DeleteRegistries"
      /\ StageItinerary[35].name = "EnsureStagePodsDeleted"
      /\ StageItinerary[36].name = "EnsureStagePodsTerminated"
      /\ StageItinerary[37].name = "EnsureAnnotationsDeleted"
      /\ StageItinerary[38].name = "Completed"
  BY DEF StageItinerary, Always, When, WhenAny
<1> QED BY <1>0, <1>1, <1>2, <1>3, <1>4, Zenon

\* It ends in Completed and nowhere else, and has none of these phases.
LEMMA StageListed ==
    /\ Listed(StageItinerary, 38)
    /\ Avoids(StageItinerary, {"WaitForDirectVolumeMigrationRollbackToComplete",
                               "UnQuiesceSrcApplications",
                               "Verification",
                               "Canceling",
                               "Canceled",
                               "MigrationFailed"})
<1>1. ASSUME NEW i \in 1..38, i # 38
       PROVE  StageItinerary[i].name \notin {"unset",
                                             "Completed",
                                             "WaitForDirectVolumeMigrationRollbackToComplete",
                                             "UnQuiesceSrcApplications",
                                             "Verification",
                                             "Canceling",
                                             "Canceled",
                                             "MigrationFailed"}
  <2>1. CASE i \in {1, 2, 3, 4, 5, 6, 7, 8, 9, 10}
    BY StageNames, <2>1, ZenonT(60)
  <2>2. CASE i \in {11, 12, 13, 14, 15, 16, 17, 18, 19, 20}
    BY StageNames, <2>2, ZenonT(60)
  <2>3. CASE i \in {21, 22, 23, 24, 25, 26, 27, 28, 29, 30}
    BY StageNames, <2>3, ZenonT(60)
  <2>4. CASE i \in {31, 32, 33, 34, 35, 36, 37}
    BY StageNames, <2>4, ZenonT(60)
  <2> QED BY <1>1, <2>1, <2>2, <2>3, <2>4
<1>2. Listed(StageItinerary, 38)
  BY StageNames, <1>1 DEF Listed
<1> QED BY StageNames, <1>1, <1>2 DEF Avoids

\* The final itinerary, phase by phase.
LEMMA FinalNames ==
    /\ DOMAIN FinalItinerary = 1..50
    /\ FinalItinerary[1].name = "Created"
    /\ FinalItinerary[2].name = "Started"
    /\ FinalItinerary[3].name = "StartRefresh"
    /\ FinalItinerary[4].name = "WaitForRefresh"
    /\ FinalItinerary[5].name = "CleanStaleAnnotations"
    /\ FinalItinerary[6].name = "CleanStaleResticCRs"
    /\ FinalItinerary[7].name = "CleanStaleVeleroCRs"
    /\ FinalItinerary[8].name = "RestartVelero"
    /\ FinalItinerary[9].name = "CleanStaleStagePods"
    /\ FinalItinerary[10].name = "WaitForStaleStagePodsTerminated"
    /\ FinalItinerary[11].name = "CreateRegistries"
    /\ FinalItinerary[12].name = "WaitForVeleroReady"
    /\ FinalItinerary[13].name = "WaitForRegistriesReady"
    /\ FinalItinerary[14].name = "EnsureCloudSecretPropagated"
    /\ FinalItinerary[15].name = "PreBackupHooks"
    /\ FinalItinerary[16].name = "CreateDirectImageMigration"
    /\ FinalItinerary[17].name = "CreateDirectVolumeMigrationStage"
    /\ FinalItinerary[18].name = "EnsureInitialBackup"
    /\ FinalItinerary[19].name = "InitialBackupCreated"
    /\ FinalItinerary[20].name = "QuiesceSourceApplications"
    /\ FinalItinerary[21].name = "EnsureSrcQuiesced"
    /\ FinalItinerary[22].name = "EnsureStagePodsFromRunning"
    /\ FinalItinerary[23].name = "EnsureStagePodsFromTemplates"
    /\ FinalItinerary[24].name = "EnsureStagePodsFromOrphanedPVCs"
    /\ FinalItinerary[25].name = "StagePodsCreated"
    /\ FinalItinerary[26].name = "RestartRestic"
    /\ FinalItinerary[27].name = "AnnotateResources"
    /\ FinalItinerary[28].name = "WaitForResticReady"
    /\ FinalItinerary[29].name = "CreateDirectVolumeMigrationFinal"
    /\ FinalItinerary[30].name = "EnsureStageBackup"
    /\ FinalItinerary[31].name = "StageBackupCreated"
    /\ FinalItinerary[32].name = "EnsureStageBackupReplicated"
    /\ FinalItinerary[33].name = "EnsureStageRestore"
    /\ FinalItinerary[34].name = "StageRestoreCreated"
    /\ FinalItinerary[35].name = "EnsureStagePodsDeleted"
    /\ FinalItinerary[36].name = "EnsureStagePodsTerminated"
    /\ FinalItinerary[37].name = "EnsureAnnotationsDeleted"
    /\ FinalItinerary[38].name = "WaitForDirectImageMigrationToComplete"
    /\ FinalItinerary[39].name = "WaitForDirectVolumeMigrationToComplete"
    /\ FinalItinerary[40].name = "PostBackupHooks"
    /\ FinalItinerary[41].name = "PreRestoreHooks"
    /\ FinalItinerary[42].name = "EnsureInitialBackupReplicated"
    /\ FinalItinerary[43].name = "EnsureFinalRestore"
    /\ FinalItinerary[44].name = "FinalRestoreCreated"
    /\ FinalItinerary[45].name = "UnQuiesceDestApplications"
    /\ FinalItinerary[46].name = "PostRestoreHooks"
    /\ FinalItinerary[47].name = "SwapPVCReferences"
    /\ FinalItinerary[48].name = "DeleteRegistries"
    /\ FinalItinerary[49].name = "Verification"
    /\ FinalItinerary[50].name = "Completed"
<1>0. DOMAIN FinalItinerary = 1..50
  BY DEF FinalItinerary, FinalBackup, FinalVolumes, FinalRestore,
         Always, When, WhenAny
<1>1. /\ FinalItinerary[1].name = "Created"
      /\ FinalItinerary[2].name = "Started"
      /\ FinalItinerary[3].name = "StartRefresh"
      /\ FinalItinerary[4].name = "WaitForRefresh"
      /\ FinalItinerary[5].name = "CleanStaleAnnotations"
      /\ FinalItinerary[6].name = "CleanStaleResticCRs"
      /\ FinalItinerary[7].name = "CleanStaleVeleroCRs"
      /\ FinalItinerary[8].name = "RestartVelero"
      /\ FinalItinerary[9].name = "CleanStaleStagePods"
      /\ FinalItinerary[10].name = "WaitForStaleStagePodsTerminated"
  BY DEF FinalItinerary, FinalBackup, FinalVolumes, FinalRestore,
         Always, When, WhenAny
<1>2. /\ FinalItinerary[11].name = "CreateRegistries"
      /\ FinalItinerary[12].name = "WaitForVeleroReady"
      /\ FinalItinerary[13].name = "WaitForRegistriesReady"
      /\ FinalItinerary[14].name = "EnsureCloudSecretPropagated"
      /\ FinalItinerary[15].name = "PreBackupHooks"
      /\ FinalItinerary[16].name = "CreateDirectImageMigration"
      /\ FinalItinerary[17].name = "CreateDirectVolumeMigrationStage"
      /\ FinalItinerary[18].name = "EnsureInitialBackup"
      /\ FinalItinerary[19].name = "InitialBackupCreated"
      /\ FinalItinerary[20].name = "QuiesceSourceApplications"
  BY DEF FinalItinerary, FinalBackup, FinalVolumes, FinalRestore,
         Always, When, WhenAny
<1>3. /\ FinalItinerary[21].name = "EnsureSrcQuiesced"
      /\ FinalItinerary[22].name = "EnsureStagePodsFromRunning"
      /\ FinalItinerary[23].name = "EnsureStagePodsFromTemplates"
      /\ FinalItinerary[24].name = "EnsureStagePodsFromOrphanedPVCs"
      /\ FinalItinerary[25].name = "StagePodsCreated"
      /\ FinalItinerary[26].name = "RestartRestic"
      /\ FinalItinerary[27].name = "AnnotateResources"
      /\ FinalItinerary[28].name = "WaitForResticReady"
      /\ FinalItinerary[29].name = "CreateDirectVolumeMigrationFinal"
      /\ FinalItinerary[30].name = "EnsureStageBackup"
  BY DEF FinalItinerary, FinalBackup, FinalVolumes, FinalRestore,
         Always, When, WhenAny
<1>4. /\ FinalItinerary[31].name = "StageBackupCreated"
      /\ FinalItinerary[32].name = "EnsureStageBackupReplicated"
      /\ FinalItinerary[33].name = "EnsureStageRestore"
      /\ FinalItinerary[34].name = "StageRestoreCreated"
      /\ FinalItinerary[35].name = "EnsureStagePodsDeleted"
      /\ FinalItinerary[36].name = "EnsureStagePodsTerminated"
      /\ FinalItinerary[37].name = "EnsureAnnotationsDeleted"
      /\ FinalItinerary[38].name = "WaitForDirectImageMigrationToComplete"
      /\ FinalItinerary[39].name = "WaitForDirectVolumeMigrationToComplete"
      /\ FinalItinerary[40].name = "PostBackupHooks"
  BY DEF FinalItinerary, FinalBackup, FinalVolumes, FinalRestore,
         Always, When, WhenAny
<1>5. /\ FinalItinerary[41].name = "PreRestoreHooks"
      /\ FinalItinerary[42].name = "EnsureInitialBackupReplicated"
      /\ FinalItinerary[43].name = "EnsureFinalRestore"
      /\ FinalItinerary[44].name = "FinalRestoreCreated"
      /\ FinalItinerary[45].name = "UnQuiesceDestApplications"
      /\ FinalItinerary[46].name = "PostRestoreHooks"
      /\ FinalItinerary[47].name = "SwapPVCReferences"
      /\ FinalItinerary[48].name = "DeleteRegistries"
      /\ FinalItinerary[49].name = "Verification"
      /\ FinalItinerary[50].name = "Completed"
  BY DEF FinalItinerary, FinalBackup, FinalVolumes, FinalRestore,
         Always, When, WhenAny
<1> QED BY <1>0, <1>1, <1>2, <1>3, <1>4, <1>5, ZenonT(60)

\* It ends in Completed and nowhere else, and has none of these phases.
LEMMA FinalListed ==
    /\ Listed(FinalItinerary, 50)
    /\ Avoids(FinalItinerary, {"WaitForDirectVolumeMigrationRollbackToComplete",
                               "UnQuiesceSrcApplications",
                               "Canceling",
                               "Canceled",
                               "MigrationFailed"})
    /\ \A i \in 1..50 : FinalItinerary[i].name = "Verification" => i = 49
<1>1. ASSUME NEW i \in 1..50, i # 50
       PROVE  /\ FinalItinerary[i].name \notin {"unset",
                                                "Completed",
                                                "WaitForDirectVolumeMigrationRollbackToComplete",
                                                "UnQuiesceSrcApplications",
                                                "Canceling",
                                                "Canceled",
                                                "MigrationFailed"}
              /\ FinalItinerary[i].name = "Verification" => i = 49
  <2>1. CASE i \in {1, 2, 3, 4, 5, 6, 7, 8, 9, 10}
    BY FinalNames, <2>1, ZenonT(60)
  <2>2. CASE i \in {11, 12, 13, 14, 15, 16, 17, 18, 19, 20}
    BY FinalNames, <2>2, ZenonT(60)
  <2>3. CASE i \in {21, 22, 23, 24, 25, 26, 27, 28, 29, 30}
    BY FinalNames, <2>3, ZenonT(60)
  <2>4. CASE i \in {31, 32, 33, 34, 35, 36, 37, 38, 39, 40}
    BY FinalNames, <2>4, ZenonT(60)
  <2>5. CASE i \in {41, 42, 43, 44, 45, 46, 47, 48, 49}
    BY FinalNames, <2>5, ZenonT(60)
  <2> QED BY <1>1, <2>1, <2>2, <2>3, <2>4, <2>5
<1>2. Listed(FinalItinerary, 50)
  BY FinalNames, <1>1 DEF Listed
<1> QED BY FinalNames, <1>1, <1>2 DEF Avoids

\* The cancel itinerary, phase by phase.
LEMMA CancelNames ==
    /\ DOMAIN CancelItinerary = 1..12
    /\ CancelItinerary[1].name = "Canceling"
    /\ CancelItinerary[2].name = "DeleteBackups"
    /\ CancelItinerary[3].name = "DeleteRestores"
    /\ CancelItinerary[4].name = "DeleteRegistries"
    /\ CancelItinerary[5].name = "DeleteHookJobs"
    /\ CancelItinerary[6].name = "DeleteDirectVolumeMigrationResources"
    /\ CancelItinerary[7].name = "DeleteDirectImageMigrationResources"
    /\ CancelItinerary[8].name = "EnsureStagePodsDeleted"
    /\ CancelItinerary[9].name = "EnsureAnnotationsDeleted"
    /\ CancelItinerary[10].name = "UnQuiesceSrcApplications"
    /\ CancelItinerary[11].name = "Canceled"
    /\ CancelItinerary[12].name = "Completed"
<1>0. DOMAIN CancelItinerary = 1..12
  BY DEF CancelItinerary, Always, When, WhenAny
<1>1. /\ CancelItinerary[1].name = "Canceling"
      /\ CancelItinerary[2].name = "DeleteBackups"
      /\ CancelItinerary[3].name = "DeleteRestores"
      /\ CancelItinerary[4].name = "DeleteRegistries"
      /\ CancelItinerary[5].name = "DeleteHookJobs"
      /\ CancelItinerary[6].name = "DeleteDirectVolumeMigrationResources"
      /\ CancelItinerary[7].name = "DeleteDirectImageMigrationResources"
      /\ CancelItinerary[8].name = "EnsureStagePodsDeleted"
      /\ CancelItinerary[9].name = "EnsureAnnotationsDeleted"
      /\ CancelItinerary[10].name = "UnQuiesceSrcApplications"
  BY DEF CancelItinerary, Always, When, WhenAny
<1>2. /\ CancelItinerary[11].name = "Canceled"
      /\ CancelItinerary[12].name = "Completed"
  BY DEF CancelItinerary, Always, When, WhenAny
<1> QED BY <1>0, <1>1, <1>2, Zenon

\* It ends in Completed and nowhere else, and has none of these phases.
LEMMA CancelListed ==
    /\ Listed(CancelItinerary, 12)
    /\ Avoids(CancelItinerary, {"WaitForDirectVolumeMigrationToComplete",
                                "WaitForDirectVolumeMigrationRollbackToComplete",
                                "Verification",
                                "MigrationFailed"})
<1>1. ASSUME NEW i \in 1..12, i # 12
       PROVE  CancelItinerary[i].name \notin {"unset",
                                              "Completed",
                                              "WaitForDirectVolumeMigrationToComplete",
                                              "WaitForDirectVolumeMigrationRollbackToComplete",
                                              "Verification",
                                              "MigrationFailed"}
  <2>1. CASE i \in {1, 2, 3, 4, 5, 6, 7, 8, 9, 10}
    BY CancelNames, <2>1, ZenonT(60)
  <2>2. CASE i \in {11}
    BY CancelNames, <2>2, ZenonT(60)
  <2> QED BY <1>1, <2>1, <2>2
<1>2. Listed(CancelItinerary, 12)
  BY CancelNames, <1>1 DEF Listed
<1> QED BY CancelNames, <1>1, <1>2 DEF Avoids

\* The failed itinerary, phase by phase.
LEMMA FailedNames ==
    /\ DOMAIN FailedItinerary = 1..4
    /\ FailedItinerary[1].name = "MigrationFailed"
    /\ FailedItinerary[2].name = "DeleteRegistries"
    /\ FailedItinerary[3].name = "EnsureAnnotationsDeleted"
    /\ FailedItinerary[4].name = "Completed"
<1>0. DOMAIN FailedItinerary = 1..4
  BY DEF FailedItinerary, Always, When, WhenAny
<1>1. /\ FailedItinerary[1].name = "MigrationFailed"
      /\ FailedItinerary[2].name = "DeleteRegistries"
      /\ FailedItinerary[3].name = "EnsureAnnotationsDeleted"
      /\ FailedItinerary[4].name = "Completed"
  BY DEF FailedItinerary, Always, When, WhenAny
<1> QED BY <1>0, <1>1, Zenon

\* It ends in Completed and nowhere else, and has none of these phases.
LEMMA FailedListed ==
    /\ Listed(FailedItinerary, 4)
    /\ Avoids(FailedItinerary, {"WaitForDirectVolumeMigrationToComplete",
                                "WaitForDirectVolumeMigrationRollbackToComplete",
                                "UnQuiesceSrcApplications",
                                "Verification",
                                "Canceling",
                                "Canceled"})
<1>1. ASSUME NEW i \in 1..4, i # 4
       PROVE  FailedItinerary[i].name \notin {"unset",
                                              "Completed",
                                              "WaitForDirectVolumeMigrationToComplete",
                                              "WaitForDirectVolumeMigrationRollbackToComplete",
                                              "UnQuiesceSrcApplications",
                                              "Verification",
                                              "Canceling",
                                              "Canceled"}
  <2>1. CASE i \in {1, 2, 3}
    BY FailedNames, <2>1, ZenonT(60)
  <2> QED BY <1>1, <2>1
<1>2. Listed(FailedItinerary, 4)
  BY FailedNames, <1>1 DEF Listed
<1> QED BY FailedNames, <1>1, <1>2 DEF Avoids

\* The rollback itinerary, phase by phase.
LEMMA RollbackNames ==
    /\ DOMAIN RollbackItinerary = 1..15
    /\ RollbackItinerary[1].name = "Rollback"
    /\ RollbackItinerary[2].name = "DeleteBackups"
    /\ RollbackItinerary[3].name = "DeleteRestores"
    /\ RollbackItinerary[4].name = "DeleteRegistries"
    /\ RollbackItinerary[5].name = "EnsureStagePodsDeleted"
    /\ RollbackItinerary[6].name = "EnsureAnnotationsDeleted"
    /\ RollbackItinerary[7].name = "QuiesceDestinationApplications"
    /\ RollbackItinerary[8].name = "EnsureDestQuiesced"
    /\ RollbackItinerary[9].name = "SwapPVCReferences"
    /\ RollbackItinerary[10].name = "CreateDirectVolumeMigrationRollback"
    /\ RollbackItinerary[11].name = "WaitForDirectVolumeMigrationRollbackToComplete"
    /\ RollbackItinerary[12].name = "DeleteMigrated"
    /\ RollbackItinerary[13].name = "EnsureMigratedDeleted"
    /\ RollbackItinerary[14].name = "UnQuiesceSrcApplications"
    /\ RollbackItinerary[15].name = "Completed"
<1>0. DOMAIN RollbackItinerary = 1..15
  BY DEF RollbackItinerary, RollbackTarget, RollbackSource, Always, When, WhenAny
<1>1. /\ RollbackItinerary[1].name = "Rollback"
      /\ RollbackItinerary[2].name = "DeleteBackups"
      /\ RollbackItinerary[3].name = "DeleteRestores"
      /\ RollbackItinerary[4].name = "DeleteRegistries"
      /\ RollbackItinerary[5].name = "EnsureStagePodsDeleted"
      /\ RollbackItinerary[6].name = "EnsureAnnotationsDeleted"
      /\ RollbackItinerary[7].name = "QuiesceDestinationApplications"
      /\ RollbackItinerary[8].name = "EnsureDestQuiesced"
      /\ RollbackItinerary[9].name = "SwapPVCReferences"
      /\ RollbackItinerary[10].name = "CreateDirectVolumeMigrationRollback"
  BY DEF RollbackItinerary, RollbackTarget, RollbackSource, Always, When, WhenAny
<1>2. /\ RollbackItinerary[11].name = "WaitForDirectVolumeMigrationRollbackToComplete"
      /\ RollbackItinerary[12].name = "DeleteMigrated"
      /\ RollbackItinerary[13].name = "EnsureMigratedDeleted"
      /\ RollbackItinerary[14].name = "UnQuiesceSrcApplications"
      /\ RollbackItinerary[15].name = "Completed"
  BY DEF RollbackItinerary, RollbackTarget, RollbackSource, Always, When, WhenAny
<1> QED BY <1>0, <1>1, <1>2, Zenon

\* It ends in Completed and nowhere else, and has none of these phases.
LEMMA RollbackListed ==
    /\ Listed(RollbackItinerary, 15)
    /\ Avoids(RollbackItinerary, {"WaitForDirectVolumeMigrationToComplete",
                                  "Verification",
                                  "Canceling",
                                  "Canceled",
                                  "MigrationFailed"})
    /\ \A i \in 1..15 : RollbackItinerary[i].name = "UnQuiesceSrcApplications" => i = 14
<1>1. ASSUME NEW i \in 1..15, i # 15
       PROVE  /\ RollbackItinerary[i].name \notin {"unset",
                                                   "Completed",
                                                   "WaitForDirectVolumeMigrationToComplete",
                                                   "Verification",
                                                   "Canceling",
                                                   "Canceled",
                                                   "MigrationFailed"}
              /\ RollbackItinerary[i].name = "UnQuiesceSrcApplications" => i = 14
  <2>1. CASE i \in {1, 2, 3, 4, 5, 6, 7, 8, 9, 10}
    BY RollbackNames, <2>1, ZenonT(60)
  <2>2. CASE i \in {11, 12, 13, 14}
    BY RollbackNames, <2>2, ZenonT(60)
  <2> QED BY <1>1, <2>1, <2>2
<1>2. Listed(RollbackItinerary, 15)
  BY RollbackNames, <1>1 DEF Listed
<1> QED BY RollbackNames, <1>1, <1>2 DEF Avoids

-----------------------------------------------------------------------------
(* The next phase *)

\* The next phase is Completed or the first of those ahead.
LEMMA NextAhead ==
    ASSUME NEW itinerary, NEW n, Listed(itinerary, n), NEW p, NEW flags
    PROVE  \/ /\ NextPhase(itinerary, p, flags) = "Completed"
              /\ Ahead(itinerary, p, flags) = {}
           \/ \E k \in Ahead(itinerary, p, flags) :
                 /\ NextPhase(itinerary, p, flags) = itinerary[k].name
                 /\ \A j \in Ahead(itinerary, p, flags) : k <= j
<1>1. PICK ahead : ahead = Ahead(itinerary, p, flags)
  OBVIOUS
<1>2. ahead \in SUBSET Nat
  BY <1>1 DEF Ahead, Listed
<1>3. CASE ahead = {}
  BY <1>1, <1>3 DEF NextPhase
<1>4. CASE ahead # {}
  <2>1. Min(ahead) \in ahead /\ \A j \in ahead : Min(ahead) <= j
    BY <1>2, <1>4, MinFacts
  <2>2. NextPhase(itinerary, p, flags) = itinerary[Min(ahead)].name
    BY <1>1, <1>4 DEF NextPhase
  <2> QED BY <1>1, <2>1, <2>2
<1> QED BY <1>3, <1>4

\* The next phase is one of the itinerary.
LEMMA NextListed ==
    ASSUME NEW itinerary, NEW n, Listed(itinerary, n), NEW p, NEW flags
    PROVE  /\ NextPhase(itinerary, p, flags) \in PhasesOf(itinerary)
           /\ NextPhase(itinerary, p, flags) # "unset"
<1>1. n \in 1..n /\ itinerary[n].name = "Completed"
  BY DEF Listed
<1>2. CASE NextPhase(itinerary, p, flags) = "Completed"
  BY <1>1, <1>2 DEF PhasesOf, Listed
<1>3. CASE \E k \in Ahead(itinerary, p, flags) :
              NextPhase(itinerary, p, flags) = itinerary[k].name
  BY <1>3 DEF PhasesOf, Listed, Ahead
<1> QED BY <1>2, <1>3, NextAhead

\* A migration is not over while a phase without flags lies ahead.
LEMMA NotOver ==
    ASSUME NEW itinerary, NEW n, Listed(itinerary, n), NEW p, NEW flags,
           NEW i \in 1..n, NEW k \in 1..n, i < k, k < n,
           itinerary[i].name = p, Unconditional(itinerary[k])
    PROVE  NextPhase(itinerary, p, flags) # "Completed"
<1>1. k \in Ahead(itinerary, p, flags)
  BY DEF Ahead, Listed, Included, Unconditional
<1>2. PICK j \in Ahead(itinerary, p, flags) :
         /\ NextPhase(itinerary, p, flags) = itinerary[j].name
         /\ j <= k
  BY <1>1, NextAhead
<1>3. j \in 1..n /\ j # n
  BY <1>2 DEF Ahead, Listed
<1> QED BY <1>2, <1>3 DEF Listed

\* What comes right before a phase without flags is the only phase that leads
\* beyond it.
LEMMA OnlyFrom ==
    ASSUME NEW itinerary, NEW n, Listed(itinerary, n), NEW p, NEW flags,
           NEW k \in 1..n, k + 1 < n, Unconditional(itinerary[k]),
           \A j \in 1..n : itinerary[j].name = itinerary[k + 1].name => j = k + 1,
           NextPhase(itinerary, p, flags) = itinerary[k + 1].name
    PROVE  p = itinerary[k].name
<1>1. k \in Nat /\ n \in Nat /\ k + 1 \in 1..n
  BY DEF Listed
<1>2. itinerary[k + 1].name # "Completed"
  BY <1>1 DEF Listed
<1>3. PICK j \in Ahead(itinerary, p, flags) :
         /\ NextPhase(itinerary, p, flags) = itinerary[j].name
         /\ \A l \in Ahead(itinerary, p, flags) : j <= l
  BY <1>2, NextAhead
<1>4. j = k + 1
  BY <1>3 DEF Ahead, Listed
<1>5. k \notin Ahead(itinerary, p, flags)
  BY <1>1, <1>3, <1>4
<1>6. PICK i \in 1..n : i < k + 1 /\ itinerary[i].name = p
  BY <1>3, <1>4 DEF Ahead, Listed
<1>7. ~(i < k)
  BY <1>5, <1>6 DEF Ahead, Listed, Included, Unconditional
<1> QED BY <1>1, <1>6, <1>7
-----------------------------------------------------------------------------
(* Places in the lists that the migrations depend on *)

\* The itinerary that goes by each name.
LEMMA NamedFacts ==
    /\ ItineraryNamed("Stage") = StageItinerary
    /\ ItineraryNamed("Final") = FinalItinerary
    /\ ItineraryNamed("Cancel") = CancelItinerary
    /\ ItineraryNamed("Failed") = FailedItinerary
    /\ ItineraryNamed("Rollback") = RollbackItinerary
BY DEF ItineraryNamed

\* Every itinerary ends in Completed and nowhere else.
LEMMA AllListed ==
    ASSUME NEW name \in ItineraryNames
    PROVE  \E n : Listed(ItineraryNamed(name), n)
BY NamedFacts, StageListed, FinalListed, CancelListed, FailedListed, RollbackListed
   DEF ItineraryNames

\* Whatever the flags, the next phase is one of the itinerary.
LEMMA NextIsPhase ==
    ASSUME NEW name \in ItineraryNames, NEW p, NEW flags
    PROVE  /\ NextPhase(ItineraryNamed(name), p, flags)
                  \in PhasesOf(ItineraryNamed(name))
           /\ NextPhase(ItineraryNamed(name), p, flags) # "unset"
<1>1. PICK n : Listed(ItineraryNamed(name), n)
  BY AllListed
<1> QED BY <1>1, NextListed

\* The phases of an itinerary are the names of its entries.
LEMMA PhasesAreSet ==
    ASSUME NEW name \in ItineraryNames
    PROVE  "unset" \notin PhasesOf(ItineraryNamed(name))
<1>1. PICK n : Listed(ItineraryNamed(name), n)
  BY AllListed
<1> QED BY <1>1 DEF Listed, PhasesOf

\* How each itinerary begins.
LEMMA FirstPhases ==
    /\ FirstPhase("Stage") = "Created"
    /\ FirstPhase("Final") = "Created"
    /\ FirstPhase("Cancel") = "Canceling"
    /\ FirstPhase("Failed") = "MigrationFailed"
    /\ FirstPhase("Rollback") = "Rollback"
<1>1. StageItinerary[1].name = "Created"
  BY DEF StageItinerary, Always, When, WhenAny
<1>2. FinalItinerary[1].name = "Created"
  BY DEF FinalItinerary, FinalBackup, FinalVolumes, FinalRestore, Always, When, WhenAny
<1>3. CancelItinerary[1].name = "Canceling"
  BY DEF CancelItinerary, Always, When, WhenAny
<1>4. FailedItinerary[1].name = "MigrationFailed"
  BY DEF FailedItinerary, Always, When, WhenAny
<1>5. RollbackItinerary[1].name = "Rollback"
  BY DEF RollbackItinerary, RollbackTarget, RollbackSource, Always, When, WhenAny
<1> QED BY <1>1, <1>2, <1>3, <1>4, <1>5, NamedFacts DEF FirstPhase

\* The first phase of an itinerary is one of it.
LEMMA FirstIsPhase ==
    ASSUME NEW name \in ItineraryNames
    PROVE  FirstPhase(name) \in PhasesOf(ItineraryNamed(name))
<1>1. PICK n : Listed(ItineraryNamed(name), n)
  BY AllListed
<1>2. 1 \in 1..n
  BY <1>1 DEF Listed
<1> QED BY <1>1, <1>2 DEF FirstPhase, PhasesOf, Listed

\* No migration is over after the first phase of its itinerary, nor after the
\* phase at which a canceled rollback goes on.
LEMMA NotOverAfterFirst ==
    ASSUME NEW flags
    PROVE  /\ NextPhase(StageItinerary, "Created", flags) # "Completed"
           /\ NextPhase(FinalItinerary, "Created", flags) # "Completed"
           /\ NextPhase(CancelItinerary, "Canceling", flags) # "Completed"
           /\ NextPhase(CancelItinerary, "EnsureAnnotationsDeleted", flags) # "Completed"
           /\ NextPhase(RollbackItinerary, "Rollback", flags) # "Completed"
<1>1. StageItinerary[1].name = "Created" /\ Unconditional(StageItinerary[2])
  BY DEF StageItinerary, Always, When, WhenAny, Unconditional
<1>2. FinalItinerary[1].name = "Created" /\ Unconditional(FinalItinerary[2])
  BY DEF FinalItinerary, FinalBackup, FinalVolumes, FinalRestore,
         Always, When, WhenAny, Unconditional
<1>3. /\ CancelItinerary[1].name = "Canceling"
      /\ CancelItinerary[9].name = "EnsureAnnotationsDeleted"
      /\ Unconditional(CancelItinerary[10])
  BY DEF CancelItinerary, Always, When, WhenAny, Unconditional
<1>4. RollbackItinerary[1].name = "Rollback" /\ Unconditional(RollbackItinerary[2])
  BY DEF RollbackItinerary, RollbackTarget, RollbackSource,
         Always, When, WhenAny, Unconditional
<1>5. NextPhase(StageItinerary, "Created", flags) # "Completed"
  BY <1>1, StageListed, NotOver, 1 \in 1..38, 2 \in 1..38
<1>6. NextPhase(FinalItinerary, "Created", flags) # "Completed"
  BY <1>2, FinalListed, NotOver, 1 \in 1..50, 2 \in 1..50
<1>7. NextPhase(CancelItinerary, "Canceling", flags) # "Completed"
  BY <1>3, CancelListed, NotOver, 1 \in 1..12, 10 \in 1..12
<1>8. NextPhase(CancelItinerary, "EnsureAnnotationsDeleted", flags) # "Completed"
  BY <1>3, CancelListed, NotOver, 9 \in 1..12, 10 \in 1..12
<1>9. NextPhase(RollbackItinerary, "Rollback", flags) # "Completed"
  BY <1>4, RollbackListed, NotOver, 1 \in 1..15, 2 \in 1..15
<1> QED BY <1>5, <1>6, <1>7, <1>8, <1>9

\* No migration is over after it has waited for its volumes: the registries
\* are still to be deleted, the restore to be made or the target to be removed.
LEMMA NotOverAfterVolumes ==
    ASSUME NEW name \in ItineraryNames, NEW flags, NEW p,
           p \in PhasesOf(ItineraryNamed(name)),
           p \in {"WaitForDirectVolumeMigrationToComplete",
                  "WaitForDirectVolumeMigrationRollbackToComplete"}
    PROVE  NextPhase(ItineraryNamed(name), p, flags) # "Completed"
<1>1. CASE name = "Stage"
  <2>1. /\ StageItinerary[32].name = "WaitForDirectVolumeMigrationToComplete"
        /\ Unconditional(StageItinerary[34])
    BY DEF StageItinerary, Always, When, WhenAny, Unconditional
  <2>2. p = "WaitForDirectVolumeMigrationToComplete"
    BY <1>1, NamedFacts, StageListed DEF Avoids, PhasesOf
  <2> QED BY <1>1, <2>1, <2>2, NamedFacts, StageListed, NotOver, 32 \in 1..38, 34 \in 1..38
<1>2. CASE name = "Final"
  <2>1. /\ FinalItinerary[39].name = "WaitForDirectVolumeMigrationToComplete"
        /\ Unconditional(FinalItinerary[42])
    BY DEF FinalItinerary, FinalBackup, FinalVolumes, FinalRestore,
           Always, When, WhenAny, Unconditional
  <2>2. p = "WaitForDirectVolumeMigrationToComplete"
    BY <1>2, NamedFacts, FinalListed DEF Avoids, PhasesOf
  <2> QED BY <1>2, <2>1, <2>2, NamedFacts, FinalListed, NotOver, 39 \in 1..50, 42 \in 1..50
<1>3. CASE name = "Rollback"
  <2>1. /\ RollbackItinerary[11].name = "WaitForDirectVolumeMigrationRollbackToComplete"
        /\ Unconditional(RollbackItinerary[12])
    BY DEF RollbackItinerary, RollbackTarget, RollbackSource,
           Always, When, WhenAny, Unconditional
  <2>2. p = "WaitForDirectVolumeMigrationRollbackToComplete"
    BY <1>3, NamedFacts, RollbackListed DEF Avoids, PhasesOf
  <2> QED BY <1>3, <2>1, <2>2, NamedFacts, RollbackListed, NotOver, 11 \in 1..15, 12 \in 1..15
<1>4. CASE name \in {"Cancel", "Failed"}
  BY <1>4, NamedFacts, CancelListed, FailedListed DEF Avoids, PhasesOf
<1> QED BY <1>1, <1>2, <1>3, <1>4 DEF ItineraryNames

\* The phases Canceling and Canceled are those of one itinerary.
LEMMA CancelPhases ==
    ASSUME NEW name \in ItineraryNames, NEW p \in {"Canceling", "Canceled"},
           p \in PhasesOf(ItineraryNamed(name))
    PROVE  name = "Cancel"
BY NamedFacts, StageListed, FinalListed, FailedListed, RollbackListed
   DEF Avoids, PhasesOf, ItineraryNames

\* Only the itinerary of a failed migration has the phase MigrationFailed.
LEMMA OnlyFailedFails ==
    ASSUME NEW name \in ItineraryNames,
           "MigrationFailed" \in PhasesOf(ItineraryNamed(name))
    PROVE  name = "Failed"
BY NamedFacts, StageListed, FinalListed, CancelListed, RollbackListed
   DEF Avoids, PhasesOf, ItineraryNames

\* A final migration is over when it has been verified.
LEMMA OverAfterVerification ==
    ASSUME NEW name \in ItineraryNames, NEW flags,
           "Verification" \in PhasesOf(ItineraryNamed(name))
    PROVE  NextPhase(ItineraryNamed(name), "Verification", flags) = "Completed"
<1>1. name = "Final"
  BY NamedFacts, StageListed, CancelListed, FailedListed, RollbackListed
     DEF Avoids, PhasesOf, ItineraryNames
<1>2. ASSUME NEW k \in Ahead(FinalItinerary, "Verification", flags)
      PROVE  FinalItinerary[k].name = "Completed"
  <2>1. PICK i \in 1..50 : i < k /\ FinalItinerary[i].name = "Verification"
    BY <1>2, FinalListed DEF Ahead, Listed
  <2>2. k \in 1..50 /\ i = 49
    BY <1>2, <2>1, FinalListed DEF Ahead, Listed
  <2>3. k = 50
    BY <2>1, <2>2
  <2> QED BY <2>3, FinalListed DEF Listed
<1> QED BY <1>1, <1>2, NamedFacts, FinalListed, NextAhead

\* Only a migration that cancels or rolls back starts the source again.
LEMMA SourcePhases ==
    ASSUME NEW name \in ItineraryNames,
           "UnQuiesceSrcApplications" \in PhasesOf(ItineraryNamed(name))
    PROVE  name \in {"Cancel", "Rollback"}
BY NamedFacts, StageListed, FinalListed, FailedListed DEF Avoids, PhasesOf, ItineraryNames

\* A rollback does it right after the target has been found clean.
LEMMA SourceRestarts ==
    ASSUME NEW name \in ItineraryNames, NEW p, NEW flags,
           NextPhase(ItineraryNamed(name), p, flags) = "UnQuiesceSrcApplications"
    PROVE  \/ name = "Cancel"
           \/ name = "Rollback" /\ p = "EnsureMigratedDeleted"
<1>1. "UnQuiesceSrcApplications" \in PhasesOf(ItineraryNamed(name))
  BY NextIsPhase
<1>2. name \in {"Cancel", "Rollback"}
  BY <1>1, SourcePhases
<1>3. CASE name = "Rollback"
  <2>1. /\ RollbackItinerary[13].name = "EnsureMigratedDeleted"
        /\ RollbackItinerary[13 + 1].name = "UnQuiesceSrcApplications"
        /\ Unconditional(RollbackItinerary[13])
    BY DEF RollbackItinerary, RollbackTarget, RollbackSource,
           Always, When, WhenAny, Unconditional
  <2>2. \A j \in 1..15 : RollbackItinerary[j].name = RollbackItinerary[13 + 1].name
                            => j = 13 + 1
    BY <2>1, RollbackListed
  <2>3. NextPhase(RollbackItinerary, p, flags) = RollbackItinerary[13 + 1].name
    BY <1>3, <2>1, NamedFacts
  <2>4. p = RollbackItinerary[13].name
    BY <2>1, <2>2, <2>3, RollbackListed, OnlyFrom, 13 \in 1..15, 13 + 1 < 15
  <2> QED BY <1>3, <2>1, <2>4
<1> QED BY <1>2, <1>3
-----------------------------------------------------------------------------
(* What lies behind a phase, and which flags lead to it *)

\* The itinerary lists `q' before `p'.
Precedes(itinerary, q, p) ==
    \E i, j \in DOMAIN itinerary :
        i < j /\ itinerary[i].name = q /\ itinerary[j].name = p

Skipped(itinerary, q, flags) ==
    \E i \in DOMAIN itinerary : itinerary[i].name = q /\ ~Included(itinerary[i], flags)

\* What lies behind the next phase lay behind this one, is this one, or has
\* been left out by the flags.
LEMMA NextBehind ==
    ASSUME NEW itinerary, NEW n, Listed(itinerary, n),
           \A i, j \in 1..n : itinerary[i].name = itinerary[j].name => i = j,
           NEW p, p \in PhasesOf(itinerary), NEW flags,
           NEW q, Precedes(itinerary, q, NextPhase(itinerary, p, flags))
    PROVE  q = p \/ Precedes(itinerary, q, p) \/ Skipped(itinerary, q, flags)
<1>1. n \in Nat /\ DOMAIN itinerary = 1..n
  BY DEF Listed
<1>2. PICK a \in 1..n : itinerary[a].name = p
  BY <1>1 DEF PhasesOf
<1>3. PICK i \in 1..n, j \in 1..n :
         i < j /\ itinerary[i].name = q /\ itinerary[j].name = NextPhase(itinerary, p, flags)
  BY <1>1 DEF Precedes
<1>4. CASE i <= a
  <2>1. i = a \/ i < a
    BY <1>1, <1>4
  <2> QED BY <1>1, <1>2, <1>3, <2>1 DEF Precedes
<1>5. CASE ~(i <= a)
  <2>1. a < i
    BY <1>1, <1>5
  <2>2. i \notin Ahead(itinerary, p, flags)
    <3>1. CASE Ahead(itinerary, p, flags) = {}
      BY <3>1
    <3>2. CASE \E k \in Ahead(itinerary, p, flags) :
                  /\ NextPhase(itinerary, p, flags) = itinerary[k].name
                  /\ \A l \in Ahead(itinerary, p, flags) : k <= l
      <4>1. PICK k \in Ahead(itinerary, p, flags) :
               /\ NextPhase(itinerary, p, flags) = itinerary[k].name
               /\ \A l \in Ahead(itinerary, p, flags) : k <= l
        BY <3>2
      <4>2. k \in 1..n
        BY <1>1 DEF Ahead
      <4>3. k = j
        BY <1>3, <4>1, <4>2
      <4>4. ~(k <= i)
        BY <1>1, <1>3, <4>3
      <4> QED BY <4>1, <4>4
    <3> QED BY <3>1, <3>2, NextAhead
  <2>3. ~Included(itinerary[i], flags)
    BY <1>1, <1>2, <2>1, <2>2 DEF Ahead
  <2> QED BY <1>1, <1>3, <2>3 DEF Skipped
<1> QED BY <1>4, <1>5

\* No phase of the cancel itinerary is listed twice.
LEMMA CancelOnce ==
    \A i, j \in 1..12 : CancelItinerary[i].name = CancelItinerary[j].name => i = j
<1> SUFFICES ASSUME NEW i \in 1..12, NEW j \in 1..12,
                    CancelItinerary[i].name = CancelItinerary[j].name
             PROVE  i = j
  OBVIOUS
<1> QED BY CancelNames, SMTT(60)

\* The phases a cancel may leave out, and the flags they are left out without.
LEMMA CancelSkips ==
    ASSUME NEW flags, NEW q, Skipped(CancelItinerary, q, flags)
    PROVE  \/ q = "DeleteDirectVolumeMigrationResources" /\ "DirectVolume" \notin flags
           \/ q = "DeleteDirectImageMigrationResources" /\ "DirectImage" \notin flags
           \/ q = "EnsureStagePodsDeleted"
           \/ q = "EnsureAnnotationsDeleted" /\ "HasStageBackup" \notin flags
<1>1. PICK i \in 1..12 : CancelItinerary[i].name = q /\ ~Included(CancelItinerary[i], flags)
  BY CancelNames DEF Skipped
<1>2. /\ Unconditional(CancelItinerary[1]) /\ Unconditional(CancelItinerary[2])
      /\ Unconditional(CancelItinerary[3]) /\ Unconditional(CancelItinerary[4])
      /\ Unconditional(CancelItinerary[5]) /\ Unconditional(CancelItinerary[10])
  BY DEF CancelItinerary, Always, When, Unconditional
<1>3. /\ Unconditional(CancelItinerary[11]) /\ Unconditional(CancelItinerary[12])
      /\ CancelItinerary[6].all = {"DirectVolume"} /\ CancelItinerary[6].any = {}
      /\ CancelItinerary[7].all = {"DirectImage"} /\ CancelItinerary[7].any = {}
      /\ CancelItinerary[9].all = {"HasStageBackup"} /\ CancelItinerary[9].any = {}
  BY DEF CancelItinerary, Always, When, Unconditional
<1>4. ~Unconditional(CancelItinerary[i])
  BY <1>1 DEF Included, Unconditional
<1>5. i \in {6, 7, 8, 9}
  BY <1>2, <1>3, <1>4
<1>6. CASE i = 6
  BY <1>1, <1>3, <1>6, CancelNames DEF Included
<1>7. CASE i = 7
  BY <1>1, <1>3, <1>7, CancelNames DEF Included
<1>8. CASE i = 8
  BY <1>1, <1>8, CancelNames
<1>9. CASE i = 9
  BY <1>1, <1>3, <1>9, CancelNames DEF Included
<1> QED BY <1>5, <1>6, <1>7, <1>8, <1>9

\* The flag without which a phase that leaves something to clean up is skipped.
FlagFor ==
    [ AnnotateResources                   |-> "HasStageBackup",
      CreateDirectImageMigration          |-> "DirectImage",
      CreateDirectVolumeMigrationStage    |-> "DirectVolume",
      CreateDirectVolumeMigrationFinal    |-> "DirectVolume",
      CreateDirectVolumeMigrationRollback |-> "DirectVolume" ]

\* Every one of the entries of such a phase asks for its flag.
Asking(itinerary) ==
    \A i \in DOMAIN itinerary :
        itinerary[i].name \in DOMAIN FlagFor => FlagFor[itinerary[i].name] \in itinerary[i].all

\* So it is in every itinerary.
LEMMA AllAsk ==
    ASSUME NEW name \in ItineraryNames
    PROVE  Asking(ItineraryNamed(name))
<1>1. Asking(StageItinerary)
  <2>1. /\ StageItinerary[12].all = Images /\ StageItinerary[15].all = Volumes
        /\ StageItinerary[21].all = {"HasStageBackup"}
    BY DEF StageItinerary, Always, When, WhenAny
  <2>2. ASSUME NEW i \in 1..38, i \notin {12, 15, 21}
        PROVE  StageItinerary[i].name \notin DOMAIN FlagFor
    <3>1. CASE i \in {1, 2, 3, 4, 5, 6, 7, 8, 9, 10}
      BY StageNames, <3>1, ZenonT(60) DEF FlagFor
    <3>2. CASE i \in {11, 13, 14, 16, 17, 18, 19, 20}
      BY StageNames, <3>2, ZenonT(60) DEF FlagFor
    <3>3. CASE i \in {22, 23, 24, 25, 26, 27, 28, 29, 30}
      BY StageNames, <3>3, ZenonT(60) DEF FlagFor
    <3>4. CASE i \in {31, 32, 33, 34, 35, 36, 37, 38}
      BY StageNames, <3>4, ZenonT(60) DEF FlagFor
    <3> QED BY <2>2, <3>1, <3>2, <3>3, <3>4
  <2>3. /\ StageItinerary[12].name = "CreateDirectImageMigration"
        /\ StageItinerary[15].name = "CreateDirectVolumeMigrationStage"
        /\ StageItinerary[21].name = "AnnotateResources"
        /\ DOMAIN StageItinerary = 1..38
    BY StageNames
  <2> QED BY <2>1, <2>2, <2>3 DEF Asking, FlagFor, Images, Volumes
<1>2. Asking(FinalItinerary)
  <2>1. /\ FinalItinerary[16].all = Images /\ FinalItinerary[17].all = Volumes
        /\ FinalItinerary[27].all = {"HasStageBackup"} /\ FinalItinerary[29].all = Volumes
    BY DEF FinalItinerary, FinalBackup, FinalVolumes, FinalRestore, Always, When, WhenAny
  <2>2. ASSUME NEW i \in 1..50, i \notin {16, 17, 27, 29}
        PROVE  FinalItinerary[i].name \notin DOMAIN FlagFor
    <3>1. CASE i \in {1, 2, 3, 4, 5, 6, 7, 8, 9, 10}
      BY FinalNames, <3>1, ZenonT(60) DEF FlagFor
    <3>2. CASE i \in {11, 12, 13, 14, 15, 18, 19, 20}
      BY FinalNames, <3>2, ZenonT(60) DEF FlagFor
    <3>3. CASE i \in {21, 22, 23, 24, 25, 26, 28, 30}
      BY FinalNames, <3>3, ZenonT(60) DEF FlagFor
    <3>4. CASE i \in {31, 32, 33, 34, 35, 36, 37, 38, 39, 40}
      BY FinalNames, <3>4, ZenonT(60) DEF FlagFor
    <3>5. CASE i \in {41, 42, 43, 44, 45, 46, 47, 48, 49, 50}
      BY FinalNames, <3>5, ZenonT(60) DEF FlagFor
    <3> QED BY <2>2, <3>1, <3>2, <3>3, <3>4, <3>5
  <2>3. /\ FinalItinerary[16].name = "CreateDirectImageMigration"
        /\ FinalItinerary[17].name = "CreateDirectVolumeMigrationStage"
        /\ FinalItinerary[27].name = "AnnotateResources"
        /\ FinalItinerary[29].name = "CreateDirectVolumeMigrationFinal"
        /\ DOMAIN FinalItinerary = 1..50
    BY FinalNames
  <2> QED BY <2>1, <2>2, <2>3 DEF Asking, FlagFor, Images, Volumes
<1>3. Asking(CancelItinerary)
  <2>1. ASSUME NEW i \in 1..12
        PROVE  CancelItinerary[i].name \notin DOMAIN FlagFor
    <3>1. CASE i \in {1, 2, 3, 4, 5, 6}
      BY CancelNames, <3>1, ZenonT(60) DEF FlagFor
    <3>2. CASE i \in {7, 8, 9, 10, 11, 12}
      BY CancelNames, <3>2, ZenonT(60) DEF FlagFor
    <3> QED BY <2>1, <3>1, <3>2
  <2> QED BY <2>1, CancelNames DEF Asking
<1>4. Asking(FailedItinerary)
  <2>1. ASSUME NEW i \in {1, 2, 3, 4}
        PROVE  FailedItinerary[i].name \notin DOMAIN FlagFor
    BY FailedNames, ZenonT(60) DEF FlagFor
  <2>2. \A i \in DOMAIN FailedItinerary : i \in {1, 2, 3, 4}
    BY FailedNames
  <2> QED BY <2>1, <2>2 DEF Asking
<1>5. Asking(RollbackItinerary)
  <2>1. RollbackItinerary[10].all = Volumes \cup {"LiveVmMigration"}
    BY DEF RollbackItinerary, RollbackTarget, RollbackSource, Always, When, WhenAny
  <2>2. ASSUME NEW i \in 1..15, i # 10
        PROVE  RollbackItinerary[i].name \notin DOMAIN FlagFor
    <3>1. CASE i \in {1, 2, 3, 4, 5, 6, 7, 8, 9}
      BY RollbackNames, <3>1, ZenonT(60) DEF FlagFor
    <3>2. CASE i \in {11, 12, 13, 14, 15}
      BY RollbackNames, <3>2, ZenonT(60) DEF FlagFor
    <3> QED BY <2>2, <3>1, <3>2
  <2>3. /\ RollbackItinerary[10].name = "CreateDirectVolumeMigrationRollback"
        /\ DOMAIN RollbackItinerary = 1..15
    BY RollbackNames
  <2> QED BY <2>1, <2>2, <2>3 DEF Asking, FlagFor, Volumes
<1> QED BY <1>1, <1>2, <1>3, <1>4, <1>5, NamedFacts DEF ItineraryNames

\* Whichever phase is left, one that leaves something to clean up is come to
\* only under its flag.
LEMMA NextAsked ==
    ASSUME NEW name \in ItineraryNames, NEW p, NEW flags, NEW q \in DOMAIN FlagFor,
           NextPhase(ItineraryNamed(name), p, flags) = q
    PROVE  FlagFor[q] \in flags
<1>1. PICK n : Listed(ItineraryNamed(name), n)
  BY AllListed
<1>2. q # "Completed"
  BY DEF FlagFor
<1>3. PICK k \in Ahead(ItineraryNamed(name), p, flags) : ItineraryNamed(name)[k].name = q
  BY <1>1, <1>2, NextAhead
<1>4. k \in DOMAIN ItineraryNamed(name) /\ ItineraryNamed(name)[k].all \subseteq flags
  BY DEF Ahead, Included
<1> QED BY <1>3, <1>4, AllAsk DEF Asking
=============================================================================

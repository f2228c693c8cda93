------------------------- MODULE ItineraryWalk_proofs -------------------------
(***************************************************************************)
(* What holds of the phases a migration goes through, for every plan and   *)
(* spec: a phase is reached only after all the included ones before it,    *)
(* and so what waits has been started, the data has come before the final  *)
(* restore, and nothing is left behind.                                    *)
(***************************************************************************)
EXTENDS ItineraryWalk, Itineraries_proofs

\* The itinerary of a migration that nobody cancels.
Forward == ChooseItinerary(FALSE, FALSE, spec)

Flags(pods) == FlagsOf(plan, spec, pods)

\* A pass has come to the phase `p' of a list: the flags `high' include it,
\* and what the flags `low' include before it is in S.
Reached(list, p, S, low, high) ==
    \E i \in DOMAIN list :
        /\ list[i].name = p
        /\ Included(list[i], high)
        /\ \A j \in DOMAIN list :
              j < i /\ Included(list[j], low) => list[j].name \in S

\* What a walk is at.
Position ==
    /\ itinerary \in {"", Forward, "Cancel"}
    /\ itinerary = "" => phase = "" /\ seen = {} /\ ~stagePods
    /\ itinerary # "" => phase \in PhasesOf(ItineraryNamed(itinerary))
    /\ itinerary = "Cancel" => spec.canceled
    /\ "Canceling" \in seen => itinerary = "Cancel"
    /\ stagePods => ~spec.rollback

\* A phase that is over is one of a cancel, or was reached by way of all those
\* before it that need no stage pods.
History ==
    \A p \in seen :
        \/ p \in PhasesOf(CancelItinerary)
        \/ Reached(ItineraryNamed(Forward), p, seen, Flags(FALSE), Flags(TRUE))

\* The next phase is reached by way of all those before it that the flags of
\* now include, but for a canceled rollback, which leaves some out.
Present ==
    itinerary = Forward \/ (itinerary = "Cancel" /\ ~spec.rollback) =>
        Reached(ItineraryNamed(itinerary), phase, seen, Flags(stagePods), Flags(TRUE))

IInv == TypeOK /\ Position /\ History /\ Present

-----------------------------------------------------------------------------
(* Lists *)

\* More flags include more.
LEMMA IncludedMore ==
    ASSUME NEW f, NEW low, NEW high, low \subseteq high, Included(f, low)
    PROVE  Included(f, high)
BY DEF Included

\* A phase that is reached stays reached when more is over, or less is asked.
LEMMA ReachedMore ==
    ASSUME NEW list, NEW p, NEW S, NEW T, NEW low, NEW less, NEW high,
           S \subseteq T, less \subseteq low, Reached(list, p, S, low, high)
    PROVE  Reached(list, p, T, less, high)
<1>1. PICK i \in DOMAIN list :
         /\ list[i].name = p
         /\ Included(list[i], high)
         /\ \A j \in DOMAIN list : j < i /\ Included(list[j], low) => list[j].name \in S
  BY DEF Reached
<1>2. \A j \in DOMAIN list : j < i /\ Included(list[j], less) => list[j].name \in T
  BY <1>1, IncludedMore
<1> QED BY <1>1, <1>2 DEF Reached

\* The first phase of a list is reached, if no flag leaves it out.
LEMMA ReachedFirst ==
    ASSUME NEW list, NEW n, Listed(list, n), Unconditional(list[1]),
           NEW S, NEW low, NEW high
    PROVE  Reached(list, list[1].name, S, low, high)
<1>1. 1 \in DOMAIN list /\ \A j \in DOMAIN list : ~(j < 1)
  BY DEF Listed
<1>2. Included(list[1], high)
  BY DEF Included, Unconditional
<1> QED BY <1>1, <1>2 DEF Reached

\* From a phase that is reached the next one is.
LEMMA ReachedNext ==
    ASSUME NEW list, NEW n, Listed(list, n), Unconditional(list[n]),
           NEW p, p # "Completed", NEW S, NEW flags, NEW high, flags \subseteq high,
           Reached(list, p, S, flags, high)
    PROVE  Reached(list, NextPhase(list, p, flags), S \cup {p}, flags, high)
<1>1. PICK i \in DOMAIN list :
         /\ list[i].name = p
         /\ \A j \in DOMAIN list : j < i /\ Included(list[j], flags) => list[j].name \in S
  BY DEF Reached
<1>2. /\ n \in Nat /\ DOMAIN list = 1..n /\ n \in 1..n /\ i \in 1..n /\ i < n
      /\ Included(list[n], flags)
  BY <1>1 DEF Listed, Included, Unconditional
<1>3. n \in Ahead(list, p, flags)
  BY <1>1, <1>2 DEF Ahead
<1>4. PICK k \in Ahead(list, p, flags) :
         /\ NextPhase(list, p, flags) = list[k].name
         /\ \A j \in Ahead(list, p, flags) : k <= j
  BY <1>3, NextAhead
<1>5. k \in 1..n /\ Included(list[k], flags)
  BY <1>2, <1>4 DEF Ahead
<1>6. ASSUME NEW j \in 1..n, j < k, Included(list[j], flags)
      PROVE  list[j].name \in S \cup {p}
  <2>1. j \notin Ahead(list, p, flags)
    BY <1>2, <1>4, <1>5, <1>6
  <2>2. ~(i < j)
    BY <1>1, <1>2, <1>6, <2>1 DEF Ahead
  <2> QED BY <1>1, <1>2, <1>6, <2>2
<1>7. Included(list[k], high)
  BY <1>5, IncludedMore
<1> QED BY <1>2, <1>4, <1>5, <1>6, <1>7 DEF Reached

\* Whatever comes before a phase that makes stage pods depends on none.
PodsLater(list) ==
    \A i, j \in DOMAIN list :
        list[i].name \in CreatesStagePods /\ j < i =>
            "HasStagePods" \notin list[j].all \cup list[j].any

\* So it has been reached with the stage pods it makes, too.
LEMMA ReachedPods ==
    ASSUME NEW list, PodsLater(list), NEW p \in CreatesStagePods, NEW S,
           NEW low, NEW high, Reached(list, p, S, low, high)
    PROVE  Reached(list, p, S, low \cup {"HasStagePods"}, high)
<1>1. PICK i \in DOMAIN list :
         /\ list[i].name = p
         /\ Included(list[i], high)
         /\ \A j \in DOMAIN list : j < i /\ Included(list[j], low) => list[j].name \in S
  BY DEF Reached
<1>2. ASSUME NEW j \in DOMAIN list, j < i, Included(list[j], low \cup {"HasStagePods"})
      PROVE  list[j].name \in S
  <2>1. "HasStagePods" \notin list[j].all /\ "HasStagePods" \notin list[j].any
    BY <1>1, <1>2 DEF PodsLater
  <2>2. Included(list[j], low)
    BY <1>2, <2>1 DEF Included
  <2> QED BY <1>1, <1>2, <2>2
<1> QED BY <1>1, <1>2 DEF Reached

-----------------------------------------------------------------------------
(* Flags *)

\* The condition StagePodsCreated adds one flag.
LEMMA PodFlags ==
    /\ Flags(TRUE) = Flags(FALSE) \cup {"HasStagePods"}
    /\ Flags(FALSE) \subseteq Flags(TRUE)
<1> DEFINE F(name, holds) == IF holds THEN {name} ELSE {}
           Others == {F("HasPVs", plan.anyPVs), F("HasISs", plan.imageStreams),
                      F("DirectImage", ~plan.indirectImage),
                      F("IndirectImage", plan.indirectImage),
                      F("EnableImage", ImagesEnabled(plan, spec)),
                      F("DirectVolume", ~plan.indirectVolume /\ plan.directClaims),
                      F("IndirectVolume", plan.indirectVolume),
                      F("EnableVolume", ~plan.volumesDisabled),
                      F("LiveVmMigration", plan.liveMigrate),
                      F("StorageConversion", IsStorageConversion(plan, spec)),
                      F("HasStageBackup", HasStageBackup(plan, spec)),
                      F("Quiesce", spec.quiescePods), F("HasVerify", spec.verify),
                      plan.hooks}
<1>1. \A T, l, x : x \in UNION (T \cup {l}) <=> x \in UNION T \/ x \in l
  BY Zenon
<1>2. \A a, b, c, d, e, f, g, h, i, j, k, l, m, n, o :
        {a, b, c, d, e, f, g, h, i, j, k, l, m, n, o} =
            {a, b, c, d, e, f, g, h, i, j, k, m, n, o} \cup {l}
  BY SMTT(30)
<1>3. ASSUME NEW pods
      PROVE  Flags(pods) = UNION (Others \cup {F("HasStagePods", pods)})
  <2>1. Flags(pods) = UNION {F("HasPVs", plan.anyPVs), F("HasISs", plan.imageStreams),
                      F("DirectImage", ~plan.indirectImage),
                      F("IndirectImage", plan.indirectImage),
                      F("EnableImage", ImagesEnabled(plan, spec)),
                      F("DirectVolume", ~plan.indirectVolume /\ plan.directClaims),
                      F("IndirectVolume", plan.indirectVolume),
                      F("EnableVolume", ~plan.volumesDisabled),
                      F("LiveVmMigration", plan.liveMigrate),
                      F("StorageConversion", IsStorageConversion(plan, spec)),
                      F("HasStageBackup", HasStageBackup(plan, spec)),
                      F("HasStagePods", pods),
                      F("Quiesce", spec.quiescePods), F("HasVerify", spec.verify),
                      plan.hooks}
    BY Zenon DEF Flags, FlagsOf
  <2> HIDE DEF F
  <2> QED BY <1>2, <2>1, SMTT(30)
<1>4. /\ F("HasStagePods", TRUE) = {"HasStagePods"}
      /\ F("HasStagePods", FALSE) = {}
  OBVIOUS
<1> HIDE DEF F, Others
<1>5. PICK U : U = UNION Others
  OBVIOUS
<1>6. PICK T : T = Flags(TRUE)
  OBVIOUS
<1>7. PICK S : S = Flags(FALSE)
  OBVIOUS
<1>8. \A x : x \in T <=> x \in U \/ x \in {"HasStagePods"}
  BY <1>1, <1>3, <1>4, <1>5, <1>6, Zenon
<1>9. \A x : x \in S <=> x \in U \/ x \in {}
  BY <1>1, <1>3, <1>4, <1>5, <1>7, Zenon
<1>10. T = S \cup {"HasStagePods"} /\ S \subseteq T
  BY <1>8, <1>9
<1> QED BY <1>6, <1>7, <1>10

\* A phase that does not ask for stage pods is included with them or without.
LEMMA IncludedSurely ==
    ASSUME NEW f, "HasStagePods" \notin f.all, "HasStagePods" \notin f.any,
           Included(f, Flags(TRUE))
    PROVE  Included(f, Flags(FALSE))
BY PodFlags DEF Included

\* A cancel changes no flag and not the itinerary it leaves.
LEMMA CancelKeepsFlags ==
    ASSUME DOMAIN spec = {"stage", "rollback", "migrateState", "quiescePods",
                          "verify", "canceled"},
           spec' = [spec EXCEPT !.canceled = TRUE], plan' = plan
    PROVE  /\ Forward' = Forward
           /\ spec'.rollback = spec.rollback
           /\ Flags(TRUE)' = Flags(TRUE)
           /\ Flags(FALSE)' = Flags(FALSE)
<1>1. /\ spec'.rollback = spec.rollback /\ spec'.stage = spec.stage
      /\ spec'.migrateState = spec.migrateState
      /\ spec'.quiescePods = spec.quiescePods /\ spec'.verify = spec.verify
  OBVIOUS
<1>2. Forward' = Forward
  BY <1>1 DEF Forward, ChooseItinerary
<1>3. /\ IsStorageConversion(plan', spec') = IsStorageConversion(plan, spec)
      /\ ImagesEnabled(plan', spec') = ImagesEnabled(plan, spec)
  BY <1>1 DEF IsStorageConversion, ImagesEnabled
<1>4. HasStageBackup(plan', spec') = HasStageBackup(plan, spec)
  BY <1>3 DEF HasStageBackup
<1>5. FlagsOf(plan', spec', TRUE) = FlagsOf(plan, spec, TRUE)
  BY <1>1, <1>3, <1>4, SMTT(30) DEF FlagsOf
<1>6. FlagsOf(plan', spec', FALSE) = FlagsOf(plan, spec, FALSE)
  BY <1>1, <1>3, <1>4, SMTT(30) DEF FlagsOf
<1> QED BY <1>1, <1>2, <1>5, <1>6 DEF Flags

-----------------------------------------------------------------------------
(* What the lists say *)

\* Each phase `p' of the list comes after one of that name, which is included
\* whenever all of the flags hold.
Follows(list, p, name, flags) ==
    \A i \in DOMAIN list : list[i].name = p =>
        \E j \in DOMAIN list :
            j < i /\ list[j].name = name /\ list[j].all = flags /\ list[j].any = {}

\* A phase of that name is left out unless all of the flags hold.
Asks(list, name, flags) ==
    \A i \in DOMAIN list : list[i].name = name => list[i].all = flags

\* What a phase follows has run when the phase is reached.
LEMMA ReachedFollows ==
    ASSUME NEW list, NEW p, NEW S, NEW low, NEW high, Reached(list, p, S, low, high),
           NEW name, NEW flags, Follows(list, p, name, flags), flags \subseteq low
    PROVE  name \in S
<1>1. PICK i \in DOMAIN list :
         /\ list[i].name = p
         /\ \A j \in DOMAIN list : j < i /\ Included(list[j], low) => list[j].name \in S
  BY DEF Reached
<1>2. PICK j \in DOMAIN list :
         j < i /\ list[j].name = name /\ list[j].all = flags /\ list[j].any = {}
  BY <1>1 DEF Follows
<1> QED BY <1>1, <1>2 DEF Included

\* The same of a phase that asks for one flag, and of one that asks for none.
LEMMA ReachedFollowsOne ==
    ASSUME NEW list, NEW p, NEW S, NEW low, NEW high, Reached(list, p, S, low, high),
           NEW name
    PROVE  /\ \A flag \in low : Follows(list, p, name, {flag}) => name \in S
           /\ Follows(list, p, name, {}) => name \in S
<1>1. ASSUME NEW flag \in low, Follows(list, p, name, {flag}) PROVE name \in S
  <2>1. PICK flags : flags = {flag}
    OBVIOUS
  <2>2. Follows(list, p, name, flags) /\ flags \subseteq low
    BY <1>1, <2>1
  <2> QED BY <2>2, ReachedFollows
<1>2. ASSUME Follows(list, p, name, {}) PROVE name \in S
  <2>1. PICK flags : flags = {}
    OBVIOUS
  <2>2. Follows(list, p, name, flags) /\ flags \subseteq low
    BY <1>2, <2>1
  <2> QED BY <2>2, ReachedFollows
<1> QED BY <1>1, <1>2

\* What a phase asks for holds when it is reached.
LEMMA ReachedAsks ==
    ASSUME NEW list, NEW p, NEW S, NEW low, NEW high, Reached(list, p, S, low, high),
           NEW flags, Asks(list, p, flags)
    PROVE  flags \subseteq high
BY DEF Reached, Asks, Included

\* Where a phase is, if it is in the list at all.
Place(list, p, k) == \A i \in DOMAIN list : list[i].name = p => i = k

\* A place in a list, with its phase and the flags it asks for.
Row(list, k, name, flags) ==
    list[k].name = name /\ list[k].all = flags /\ list[k].any = {}

\* A phase whose place is known follows what is before its place.
LEMMA FollowsAt ==
    ASSUME NEW list, NEW n, DOMAIN list = 1..n,
           NEW p, NEW k \in Nat, Place(list, p, k),
           NEW j \in 1..n, j < k, NEW name, NEW flags, Row(list, j, name, flags)
    PROVE  Follows(list, p, name, flags)
BY DEF Follows, Place, Row

\* It asks for what its place says.
LEMMA AsksAt ==
    ASSUME NEW list, NEW p, NEW k, Place(list, p, k), NEW flags, Row(list, k, p, flags)
    PROVE  Asks(list, p, flags)
BY DEF Asks, Place, Row

\* A list that does not have a phase says nothing of it.
LEMMA SaysNothing ==
    ASSUME NEW list, NEW names, Avoids(list, names), NEW p \in names,
           NEW name, NEW flags
    PROVE  Follows(list, p, name, flags) /\ Asks(list, p, flags)
BY DEF Follows, Asks, Avoids

\* A phase that waits comes after the one that starts it, and asks for the same.
Starts(list, starter, wait, flags) ==
    Follows(list, wait, starter, flags) /\ Asks(list, wait, flags)

StartsBefore(list) ==
    /\ Starts(list, "EnsureInitialBackup", "InitialBackupCreated", {})
    /\ Starts(list, "EnsureInitialBackup", "EnsureInitialBackupReplicated", {})
    /\ Starts(list, "EnsureStageBackup", "StageBackupCreated", {"HasStageBackup"})
    /\ Starts(list, "EnsureStageBackup", "EnsureStageBackupReplicated", {"HasStageBackup"})
    /\ Starts(list, "EnsureStageRestore", "StageRestoreCreated", {"HasStageBackup"})
    /\ Starts(list, "EnsureFinalRestore", "FinalRestoreCreated", {})
    /\ Starts(list, "CreateRegistries", "WaitForRegistriesReady", Registries)
    /\ Starts(list, "CreateDirectImageMigration", "WaitForDirectImageMigrationToComplete",
              Images)
    /\ Starts(list, "QuiesceSourceApplications", "EnsureSrcQuiesced", {"Quiesce"})
    /\ Starts(list, "QuiesceDestinationApplications", "EnsureDestQuiesced", Volumes)
    /\ Starts(list, "DeleteMigrated", "EnsureMigratedDeleted", {})

\* The data has come before the final restore.
DataBefore(list) ==
    /\ Follows(list, "EnsureFinalRestore", "StageRestoreCreated", {"HasStageBackup"})
    /\ Follows(list, "EnsureFinalRestore", "WaitForDirectVolumeMigrationToComplete", Volumes)
    /\ Follows(list, "EnsureFinalRestore", "WaitForDirectImageMigrationToComplete", Images)

\* What a migration makes asks for these flags.
Makes(list) ==
    /\ Asks(list, "EnsureStageBackup", {"HasStageBackup"})
    /\ Asks(list, "AnnotateResources", {"HasStageBackup"})
    /\ Asks(list, "CreateDirectImageMigration", Images)
    /\ Asks(list, "CreateDirectVolumeMigrationStage", Volumes)
    /\ Asks(list, "CreateDirectVolumeMigrationFinal", Volumes)

\* And what is on the clusters is removed before the end.
Removes(list) ==
    /\ Follows(list, "Completed", "DeleteRegistries", {})
    /\ Follows(list, "Completed", "EnsureStagePodsDeleted", {"HasStagePods"})
    /\ Follows(list, "Completed", "EnsureAnnotationsDeleted", {"HasStageBackup"})


\* Where the phases that matter are in the stage itinerary.
LEMMA StagePlaces ==
    /\ Place(StageItinerary, "CreateRegistries", 11)
    /\ Place(StageItinerary, "CreateDirectImageMigration", 12)
    /\ Place(StageItinerary, "EnsureSrcQuiesced", 14)
    /\ Place(StageItinerary, "CreateDirectVolumeMigrationStage", 15)
    /\ Place(StageItinerary, "EnsureStagePodsFromRunning", 16)
    /\ Place(StageItinerary, "EnsureStagePodsFromTemplates", 17)
    /\ Place(StageItinerary, "EnsureStagePodsFromOrphanedPVCs", 18)
    /\ Place(StageItinerary, "AnnotateResources", 21)
    /\ Place(StageItinerary, "WaitForRegistriesReady", 24)
    /\ Place(StageItinerary, "EnsureStageBackup", 26)
    /\ Place(StageItinerary, "StageBackupCreated", 27)
    /\ Place(StageItinerary, "EnsureStageBackupReplicated", 28)
    /\ Place(StageItinerary, "StageRestoreCreated", 30)
    /\ Place(StageItinerary, "WaitForDirectImageMigrationToComplete", 31)
    /\ Place(StageItinerary, "Completed", 38)
    /\ Avoids(StageItinerary, {"InitialBackupCreated",
                               "EnsureInitialBackupReplicated",
                               "FinalRestoreCreated",
                               "EnsureDestQuiesced",
                               "EnsureMigratedDeleted",
                               "CreateDirectVolumeMigrationFinal",
                               "EnsureFinalRestore"})
<1>1. ASSUME NEW i \in 1..38
      PROVE  /\ StageItinerary[i].name = "CreateRegistries" => i = 11
             /\ StageItinerary[i].name = "CreateDirectImageMigration" => i = 12
             /\ StageItinerary[i].name = "EnsureSrcQuiesced" => i = 14
             /\ StageItinerary[i].name = "CreateDirectVolumeMigrationStage" => i = 15
             /\ StageItinerary[i].name = "EnsureStagePodsFromRunning" => i = 16
             /\ StageItinerary[i].name = "EnsureStagePodsFromTemplates" => i = 17
             /\ StageItinerary[i].name = "EnsureStagePodsFromOrphanedPVCs" => i = 18
             /\ StageItinerary[i].name = "AnnotateResources" => i = 21
             /\ StageItinerary[i].name = "WaitForRegistriesReady" => i = 24
             /\ StageItinerary[i].name = "EnsureStageBackup" => i = 26
             /\ StageItinerary[i].name = "StageBackupCreated" => i = 27
             /\ StageItinerary[i].name = "EnsureStageBackupReplicated" => i = 28
             /\ StageItinerary[i].name = "StageRestoreCreated" => i = 30
             /\ StageItinerary[i].name = "WaitForDirectImageMigrationToComplete" => i = 31
             /\ StageItinerary[i].name \notin {"InitialBackupCreated",
                                               "EnsureInitialBackupReplicated",
                                               "FinalRestoreCreated",
                                               "EnsureDestQuiesced",
                                               "EnsureMigratedDeleted",
                                               "CreateDirectVolumeMigrationFinal",
                                               "EnsureFinalRestore"}
  <2>1. CASE i \in {1, 2, 3, 4, 5, 6, 7, 8, 9, 10}
    BY StageNames, <2>1, ZenonT(60)
  <2>2. CASE i \in {11, 12, 13, 14, 15, 16, 17, 18, 19, 20}
    BY StageNames, <2>2, ZenonT(60)
  <2>3. CASE i \in {21, 22, 23, 24, 25, 26, 27, 28, 29, 30}
    BY StageNames, <2>3, ZenonT(60)
  <2>4. CASE i \in {31, 32, 33, 34, 35, 36, 37, 38}
    BY StageNames, <2>4, ZenonT(60)
  <2> QED BY <1>1, <2>1, <2>2, <2>3, <2>4
<1>2. DOMAIN StageItinerary = 1..38 /\ Place(StageItinerary, "Completed", 38)
  BY StageListed DEF Listed, Place
<1> QED BY <1>1, <1>2, Zenon DEF Place, Avoids

\* Where the phases that matter are in the final itinerary.
LEMMA FinalPlaces ==
    /\ Place(FinalItinerary, "CreateRegistries", 11)
    /\ Place(FinalItinerary, "WaitForRegistriesReady", 13)
    /\ Place(FinalItinerary, "CreateDirectImageMigration", 16)
    /\ Place(FinalItinerary, "CreateDirectVolumeMigrationStage", 17)
    /\ Place(FinalItinerary, "InitialBackupCreated", 19)
    /\ Place(FinalItinerary, "EnsureSrcQuiesced", 21)
    /\ Place(FinalItinerary, "EnsureStagePodsFromRunning", 22)
    /\ Place(FinalItinerary, "EnsureStagePodsFromTemplates", 23)
    /\ Place(FinalItinerary, "EnsureStagePodsFromOrphanedPVCs", 24)
    /\ Place(FinalItinerary, "AnnotateResources", 27)
    /\ Place(FinalItinerary, "CreateDirectVolumeMigrationFinal", 29)
    /\ Place(FinalItinerary, "EnsureStageBackup", 30)
    /\ Place(FinalItinerary, "StageBackupCreated", 31)
    /\ Place(FinalItinerary, "EnsureStageBackupReplicated", 32)
    /\ Place(FinalItinerary, "StageRestoreCreated", 34)
    /\ Place(FinalItinerary, "WaitForDirectImageMigrationToComplete", 38)
    /\ Place(FinalItinerary, "EnsureInitialBackupReplicated", 42)
    /\ Place(FinalItinerary, "EnsureFinalRestore", 43)
    /\ Place(FinalItinerary, "FinalRestoreCreated", 44)
    /\ Place(FinalItinerary, "Completed", 50)
    /\ Avoids(FinalItinerary, {"EnsureDestQuiesced",
                               "EnsureMigratedDeleted"})
<1>1. ASSUME NEW i \in 1..50
      PROVE  /\ FinalItinerary[i].name = "CreateRegistries" => i = 11
             /\ FinalItinerary[i].name = "WaitForRegistriesReady" => i = 13
             /\ FinalItinerary[i].name = "CreateDirectImageMigration" => i = 16
             /\ FinalItinerary[i].name = "CreateDirectVolumeMigrationStage" => i = 17
             /\ FinalItinerary[i].name = "InitialBackupCreated" => i = 19
             /\ FinalItinerary[i].name = "EnsureSrcQuiesced" => i = 21
             /\ FinalItinerary[i].name = "EnsureStagePodsFromRunning" => i = 22
             /\ FinalItinerary[i].name = "EnsureStagePodsFromTemplates" => i = 23
             /\ FinalItinerary[i].name = "EnsureStagePodsFromOrphanedPVCs" => i = 24
             /\ FinalItinerary[i].name = "AnnotateResources" => i = 27
             /\ FinalItinerary[i].name = "CreateDirectVolumeMigrationFinal" => i = 29
             /\ FinalItinerary[i].name = "EnsureStageBackup" => i = 30
             /\ FinalItinerary[i].name = "StageBackupCreated" => i = 31
             /\ FinalItinerary[i].name = "EnsureStageBackupReplicated" => i = 32
             /\ FinalItinerary[i].name = "StageRestoreCreated" => i = 34
             /\ FinalItinerary[i].name = "WaitForDirectImageMigrationToComplete" => i = 38
             /\ FinalItinerary[i].name = "EnsureInitialBackupReplicated" => i = 42
             /\ FinalItinerary[i].name = "EnsureFinalRestore" => i = 43
             /\ FinalItinerary[i].name = "FinalRestoreCreated" => i = 44
             /\ FinalItinerary[i].name \notin {"EnsureDestQuiesced",
                                               "EnsureMigratedDeleted"}
  <2>1. CASE i \in {1, 2, 3, 4, 5}
    BY FinalNames, <2>1, ZenonT(120)
  <2>2. CASE i \in {6, 7, 8, 9, 10}
    BY FinalNames, <2>2, ZenonT(120)
  <2>3. CASE i \in {11, 12, 13, 14, 15}
    BY FinalNames, <2>3, ZenonT(120)
  <2>4. CASE i \in {16, 17, 18, 19, 20}
    BY FinalNames, <2>4, ZenonT(120)
  <2>5. CASE i \in {21, 22, 23, 24, 25}
    BY FinalNames, <2>5, ZenonT(120)
  <2>6. CASE i \in {26, 27, 28, 29, 30}
    BY FinalNames, <2>6, ZenonT(120)
  <2>7. CASE i \in {31, 32, 33, 34, 35}
    BY FinalNames, <2>7, ZenonT(120)
  <2>8. CASE i \in {36, 37, 38, 39, 40}
    BY FinalNames, <2>8, ZenonT(120)
  <2>9. CASE i \in {41, 42, 43, 44, 45}
    BY FinalNames, <2>9, ZenonT(120)
  <2>10. CASE i \in {46, 47, 48, 49, 50}
    BY FinalNames, <2>10, ZenonT(120)
  <2> QED BY <1>1, <2>1, <2>2, <2>3, <2>4, <2>5, <2>6, <2>7, <2>8, <2>9, <2>10
<1>2. DOMAIN FinalItinerary = 1..50 /\ Place(FinalItinerary, "Completed", 50)
  BY FinalListed DEF Listed, Place
<1> QED BY <1>1, <1>2, Zenon DEF Place, Avoids

\* Where the phases that matter are in the rollback itinerary.
LEMMA RollbackPlaces ==
    /\ Place(RollbackItinerary, "EnsureDestQuiesced", 8)
    /\ Place(RollbackItinerary, "EnsureMigratedDeleted", 13)
    /\ Place(RollbackItinerary, "Completed", 15)
    /\ Avoids(RollbackItinerary, {"InitialBackupCreated",
                                  "EnsureInitialBackupReplicated",
                                  "StageBackupCreated",
                                  "EnsureStageBackupReplicated",
                                  "StageRestoreCreated",
                                  "FinalRestoreCreated",
                                  "WaitForRegistriesReady",
                                  "WaitForDirectImageMigrationToComplete",
                                  "EnsureSrcQuiesced",
                                  "CreateRegistries",
                                  "AnnotateResources",
                                  "CreateDirectImageMigration",
                                  "CreateDirectVolumeMigrationStage",
                                  "CreateDirectVolumeMigrationFinal",
                                  "EnsureStageBackup",
                                  "EnsureFinalRestore",
                                  "EnsureStagePodsFromRunning",
                                  "EnsureStagePodsFromTemplates",
                                  "EnsureStagePodsFromOrphanedPVCs"})
<1>1. ASSUME NEW i \in 1..15
      PROVE  /\ RollbackItinerary[i].name = "EnsureDestQuiesced" => i = 8
             /\ RollbackItinerary[i].name = "EnsureMigratedDeleted" => i = 13
             /\ RollbackItinerary[i].name \notin {"InitialBackupCreated",
                                                  "EnsureInitialBackupReplicated",
                                                  "StageBackupCreated",
                                                  "EnsureStageBackupReplicated",
                                                  "StageRestoreCreated",
                                                  "FinalRestoreCreated",
                                                  "WaitForRegistriesReady",
                                                  "WaitForDirectImageMigrationToComplete",
                                                  "EnsureSrcQuiesced",
                                                  "CreateRegistries",
                                                  "AnnotateResources",
                                                  "CreateDirectImageMigration",
                                                  "CreateDirectVolumeMigrationStage",
                                                  "CreateDirectVolumeMigrationFinal",
                                                  "EnsureStageBackup",
                                                  "EnsureFinalRestore",
                                                  "EnsureStagePodsFromRunning",
                                                  "EnsureStagePodsFromTemplates",
                                                  "EnsureStagePodsFromOrphanedPVCs"}
  <2>1. CASE i \in {1, 2, 3, 4, 5, 6, 7, 8, 9, 10}
    BY RollbackNames, <2>1, ZenonT(60)
  <2>2. CASE i \in {11, 12, 13, 14, 15}
    BY RollbackNames, <2>2, ZenonT(60)
  <2> QED BY <1>1, <2>1, <2>2
<1>2. DOMAIN RollbackItinerary = 1..15 /\ Place(RollbackItinerary, "Completed", 15)
  BY RollbackListed DEF Listed, Place
<1> QED BY <1>1, <1>2, Zenon DEF Place, Avoids

\* Where the phases that matter are in the cancel itinerary.
LEMMA CancelPlaces ==
    /\ Place(CancelItinerary, "Completed", 12)
    /\ Avoids(CancelItinerary, {"InitialBackupCreated",
                                "EnsureInitialBackupReplicated",
                                "StageBackupCreated",
                                "EnsureStageBackupReplicated",
                                "StageRestoreCreated",
                                "FinalRestoreCreated",
                                "WaitForRegistriesReady",
                                "WaitForDirectImageMigrationToComplete",
                                "EnsureSrcQuiesced",
                                "EnsureDestQuiesced",
                                "EnsureMigratedDeleted",
                                "CreateRegistries",
                                "AnnotateResources",
                                "CreateDirectImageMigration",
                                "CreateDirectVolumeMigrationStage",
                                "CreateDirectVolumeMigrationFinal",
                                "EnsureStageBackup",
                                "EnsureFinalRestore",
                                "EnsureStagePodsFromRunning",
                                "EnsureStagePodsFromTemplates",
                                "EnsureStagePodsFromOrphanedPVCs"})
<1>1. ASSUME NEW i \in 1..12
      PROVE  /\ CancelItinerary[i].name \notin {"InitialBackupCreated",
                                                "EnsureInitialBackupReplicated",
                                                "StageBackupCreated",
                                                "EnsureStageBackupReplicated",
                                                "StageRestoreCreated",
                                                "FinalRestoreCreated",
                                                "WaitForRegistriesReady",
                                                "WaitForDirectImageMigrationToComplete",
                                                "EnsureSrcQuiesced",
                                                "EnsureDestQuiesced",
                                                "EnsureMigratedDeleted",
                                                "CreateRegistries",
                                                "AnnotateResources",
                                                "CreateDirectImageMigration",
                                                "CreateDirectVolumeMigrationStage",
                                                "CreateDirectVolumeMigrationFinal",
                                                "EnsureStageBackup",
                                                "EnsureFinalRestore",
                                                "EnsureStagePodsFromRunning",
                                                "EnsureStagePodsFromTemplates",
                                                "EnsureStagePodsFromOrphanedPVCs"}
  <2>1. CASE i \in {1, 2, 3, 4, 5, 6, 7, 8, 9, 10}
    BY CancelNames, <2>1, ZenonT(60)
  <2>2. CASE i \in {11, 12}
    BY CancelNames, <2>2, ZenonT(60)
  <2> QED BY <1>1, <2>1, <2>2
<1>2. DOMAIN CancelItinerary = 1..12 /\ Place(CancelItinerary, "Completed", 12)
  BY CancelListed DEF Listed, Place
<1> QED BY <1>1, <1>2, Zenon DEF Place, Avoids

\* What the stage itinerary says of all this.
LEMMA StageSays ==
    /\ StartsBefore(StageItinerary)
    /\ DataBefore(StageItinerary)
    /\ Makes(StageItinerary)
    /\ Removes(StageItinerary)
    /\ PodsLater(StageItinerary)
    /\ Unconditional(StageItinerary[1]) /\ Unconditional(StageItinerary[38])
<1>1. DOMAIN StageItinerary = 1..38
  BY StageNames
<1>2. /\ Row(StageItinerary, 1, "Created", {})
      /\ Row(StageItinerary, 2, "Started", {})
      /\ Row(StageItinerary, 3, "StartRefresh", {})
      /\ Row(StageItinerary, 4, "WaitForRefresh", {})
      /\ Row(StageItinerary, 5, "CleanStaleAnnotations", {})
  BY SMTT(30) DEF Row, StageItinerary, Always, When, WhenAny
<1>3. /\ Row(StageItinerary, 6, "CleanStaleResticCRs", {})
      /\ Row(StageItinerary, 7, "CleanStaleVeleroCRs", {})
      /\ Row(StageItinerary, 8, "RestartVelero", {})
      /\ Row(StageItinerary, 9, "CleanStaleStagePods", {})
      /\ Row(StageItinerary, 10, "WaitForStaleStagePodsTerminated", {})
  BY SMTT(30) DEF Row, StageItinerary, Always, When, WhenAny
<1>4. /\ Row(StageItinerary, 11, "CreateRegistries", Registries)
      /\ Row(StageItinerary, 12, "CreateDirectImageMigration", Images)
      /\ Row(StageItinerary, 13, "QuiesceSourceApplications", {"Quiesce"})
      /\ Row(StageItinerary, 14, "EnsureSrcQuiesced", {"Quiesce"})
      /\ Row(StageItinerary, 15, "CreateDirectVolumeMigrationStage", Volumes)
  BY SMTT(30) DEF Row, StageItinerary, Always, When, WhenAny
<1>5. /\ Row(StageItinerary, 16, "EnsureStagePodsFromRunning", IndirectPVs)
      /\ Row(StageItinerary, 17, "EnsureStagePodsFromTemplates", IndirectPVs)
      /\ Row(StageItinerary, 21, "AnnotateResources", {"HasStageBackup"})
      /\ Row(StageItinerary, 24, "WaitForRegistriesReady", Registries)
      /\ Row(StageItinerary, 26, "EnsureStageBackup", {"HasStageBackup"})
  BY SMTT(30) DEF Row, StageItinerary, Always, When, WhenAny
<1>6. /\ Row(StageItinerary, 27, "StageBackupCreated", {"HasStageBackup"})
      /\ Row(StageItinerary, 28, "EnsureStageBackupReplicated", {"HasStageBackup"})
      /\ Row(StageItinerary, 29, "EnsureStageRestore", {"HasStageBackup"})
      /\ Row(StageItinerary, 30, "StageRestoreCreated", {"HasStageBackup"})
      /\ Row(StageItinerary, 31, "WaitForDirectImageMigrationToComplete", Images)
  BY SMTT(30) DEF Row, StageItinerary, Always, When, WhenAny
<1>7. /\ Row(StageItinerary, 34, "DeleteRegistries", {})
      /\ Row(StageItinerary, 35, "EnsureStagePodsDeleted", {"HasStagePods"})
      /\ Row(StageItinerary, 37, "EnsureAnnotationsDeleted", {"HasStageBackup"})
  BY SMTT(30) DEF Row, StageItinerary, Always, When, WhenAny
<1>8. StartsBefore(StageItinerary)
  <2>1. Starts(StageItinerary, "EnsureInitialBackup", "InitialBackupCreated", {})
    BY StagePlaces, SaysNothing DEF Starts
  <2>2. Starts(StageItinerary, "EnsureInitialBackup", "EnsureInitialBackupReplicated", {})
    BY StagePlaces, SaysNothing DEF Starts
  <2>3. Starts(StageItinerary, "EnsureStageBackup", "StageBackupCreated", {"HasStageBackup"})
    <3>1. Follows(StageItinerary, "StageBackupCreated", "EnsureStageBackup", {"HasStageBackup"})
      BY <1>1, <1>5, StagePlaces, FollowsAt, 26 \in 1..38, 27 \in Nat, 26 < 27, Zenon
    <3>2. Asks(StageItinerary, "StageBackupCreated", {"HasStageBackup"})
      BY <1>6, StagePlaces, AsksAt, Zenon
    <3> QED BY <3>1, <3>2 DEF Starts
  <2>4. Starts(StageItinerary, "EnsureStageBackup", "EnsureStageBackupReplicated", {"HasStageBackup"})
    <3>1. Follows(StageItinerary, "EnsureStageBackupReplicated", "EnsureStageBackup", {"HasStageBackup"})
      BY <1>1, <1>5, StagePlaces, FollowsAt, 26 \in 1..38, 28 \in Nat, 26 < 28, Zenon
    <3>2. Asks(StageItinerary, "EnsureStageBackupReplicated", {"HasStageBackup"})
      BY <1>6, StagePlaces, AsksAt, Zenon
    <3> QED BY <3>1, <3>2 DEF Starts
  <2>5. Starts(StageItinerary, "EnsureStageRestore", "StageRestoreCreated", {"HasStageBackup"})
    <3>1. Follows(StageItinerary, "StageRestoreCreated", "EnsureStageRestore", {"HasStageBackup"})
      BY <1>1, <1>6, StagePlaces, FollowsAt, 29 \in 1..38, 30 \in Nat, 29 < 30, Zenon
    <3>2. Asks(StageItinerary, "StageRestoreCreated", {"HasStageBackup"})
      BY <1>6, StagePlaces, AsksAt, Zenon
    <3> QED BY <3>1, <3>2 DEF Starts
  <2>6. Starts(StageItinerary, "EnsureFinalRestore", "FinalRestoreCreated", {})
    BY StagePlaces, SaysNothing DEF Starts
  <2>7. Starts(StageItinerary, "CreateRegistries", "WaitForRegistriesReady", Registries)
    <3>1. Follows(StageItinerary, "WaitForRegistriesReady", "CreateRegistries", Registries)
      BY <1>1, <1>4, StagePlaces, FollowsAt, 11 \in 1..38, 24 \in Nat, 11 < 24, Zenon
    <3>2. Asks(StageItinerary, "WaitForRegistriesReady", Registries)
      BY <1>5, StagePlaces, AsksAt, Zenon
    <3> QED BY <3>1, <3>2 DEF Starts
  <2>8. Starts(StageItinerary, "CreateDirectImageMigration", "WaitForDirectImageMigrationToComplete", Images)
    <3>1. Follows(StageItinerary, "WaitForDirectImageMigrationToComplete", "CreateDirectImageMigration", Images)
      BY <1>1, <1>4, StagePlaces, FollowsAt, 12 \in 1..38, 31 \in Nat, 12 < 31, Zenon
    <3>2. Asks(StageItinerary, "WaitForDirectImageMigrationToComplete", Images)
      BY <1>6, StagePlaces, AsksAt, Zenon
    <3> QED BY <3>1, <3>2 DEF Starts
  <2>9. Starts(StageItinerary, "QuiesceSourceApplications", "EnsureSrcQuiesced", {"Quiesce"})
    <3>1. Follows(StageItinerary, "EnsureSrcQuiesced", "QuiesceSourceApplications", {"Quiesce"})
      BY <1>1, <1>4, StagePlaces, FollowsAt, 13 \in 1..38, 14 \in Nat, 13 < 14, Zenon
    <3>2. Asks(StageItinerary, "EnsureSrcQuiesced", {"Quiesce"})
      BY <1>4, StagePlaces, AsksAt, Zenon
    <3> QED BY <3>1, <3>2 DEF Starts
  <2>10. Starts(StageItinerary, "QuiesceDestinationApplications", "EnsureDestQuiesced", Volumes)
    BY StagePlaces, SaysNothing DEF Starts
  <2>11. Starts(StageItinerary, "DeleteMigrated", "EnsureMigratedDeleted", {})
    BY StagePlaces, SaysNothing DEF Starts
  <2> QED BY <2>1, <2>2, <2>3, <2>4, <2>5, <2>6, <2>7, <2>8, <2>9, <2>10, <2>11 DEF StartsBefore
<1>9. DataBefore(StageItinerary)
  BY StagePlaces, SaysNothing DEF DataBefore
<1>10. Makes(StageItinerary)
  <2>1. Asks(StageItinerary, "EnsureStageBackup", {"HasStageBackup"})
    BY <1>5, StagePlaces, AsksAt, Zenon
  <2>2. Asks(StageItinerary, "AnnotateResources", {"HasStageBackup"})
    BY <1>5, StagePlaces, AsksAt, Zenon
  <2>3. Asks(StageItinerary, "CreateDirectImageMigration", Images)
    BY <1>4, StagePlaces, AsksAt, Zenon
  <2>4. Asks(StageItinerary, "CreateDirectVolumeMigrationStage", Volumes)
    BY <1>4, StagePlaces, AsksAt, Zenon
  <2>5. Asks(StageItinerary, "CreateDirectVolumeMigrationFinal", Volumes)
    BY StagePlaces, SaysNothing
  <2> QED BY <2>1, <2>2, <2>3, <2>4, <2>5 DEF Makes
<1>11. Removes(StageItinerary)
  <2>1. Follows(StageItinerary, "Completed", "DeleteRegistries", {})
    BY <1>1, <1>7, StagePlaces, FollowsAt, 34 \in 1..38, 38 \in Nat, 34 < 38, Zenon
  <2>2. Follows(StageItinerary, "Completed", "EnsureStagePodsDeleted", {"HasStagePods"})
    BY <1>1, <1>7, StagePlaces, FollowsAt, 35 \in 1..38, 38 \in Nat, 35 < 38, Zenon
  <2>3. Follows(StageItinerary, "Completed", "EnsureAnnotationsDeleted", {"HasStageBackup"})
    BY <1>1, <1>7, StagePlaces, FollowsAt, 37 \in 1..38, 38 \in Nat, 37 < 38, Zenon
  <2> QED BY <2>1, <2>2, <2>3 DEF Removes
<1>12. PodsLater(StageItinerary)
  <2>1. ASSUME NEW j \in 1..17
        PROVE  "HasStagePods" \notin StageItinerary[j].all \cup StageItinerary[j].any
    <3>1. CASE j \in {1, 2, 3, 4, 5, 6, 7, 8, 9, 10}
      BY <1>2, <1>3, <3>1 DEF Row, Registries, Images, Volumes, IndirectPVs
    <3>2. CASE j \in {11, 12, 13, 14, 15, 16, 17}
      BY <1>4, <1>5, <3>2 DEF Row, Registries, Images, Volumes, IndirectPVs
    <3> QED BY <3>1, <3>2
  <2>2. \A i \in 1..38 : StageItinerary[i].name \in CreatesStagePods => i <= 18
    BY <1>1, StagePlaces DEF Place, CreatesStagePods
  <2> QED BY <1>1, <2>1, <2>2 DEF PodsLater
<1>13. Unconditional(StageItinerary[1]) /\ Unconditional(StageItinerary[38])
  BY DEF StageItinerary, Always, When, WhenAny, Unconditional
<1> QED BY <1>8, <1>9, <1>10, <1>11, <1>12, <1>13

\* What the final itinerary says of all this.
LEMMA FinalSays ==
    /\ StartsBefore(FinalItinerary)
    /\ DataBefore(FinalItinerary)
    /\ Makes(FinalItinerary)
    /\ Removes(FinalItinerary)
    /\ PodsLater(FinalItinerary)
    /\ Unconditional(FinalItinerary[1]) /\ Unconditional(FinalItinerary[50])
<1>1. DOMAIN FinalItinerary = 1..50
  BY FinalNames
<1>2. /\ Row(FinalItinerary, 1, "Created", {})
      /\ Row(FinalItinerary, 2, "Started", {})
      /\ Row(FinalItinerary, 3, "StartRefresh", {})
      /\ Row(FinalItinerary, 4, "WaitForRefresh", {})
      /\ Row(FinalItinerary, 5, "CleanStaleAnnotations", {})
  BY SMTT(30) DEF Row, FinalItinerary, FinalBackup, FinalVolumes, FinalRestore, Always, When, WhenAny
<1>3. /\ Row(FinalItinerary, 6, "CleanStaleResticCRs", {})
      /\ Row(FinalItinerary, 7, "CleanStaleVeleroCRs", {})
      /\ Row(FinalItinerary, 8, "RestartVelero", {})
      /\ Row(FinalItinerary, 9, "CleanStaleStagePods", {})
      /\ Row(FinalItinerary, 10, "WaitForStaleStagePodsTerminated", {})
  BY SMTT(30) DEF Row, FinalItinerary, FinalBackup, FinalVolumes, FinalRestore, Always, When, WhenAny
<1>4. /\ Row(FinalItinerary, 11, "CreateRegistries", Registries)
      /\ Row(FinalItinerary, 12, "WaitForVeleroReady", {})
      /\ Row(FinalItinerary, 13, "WaitForRegistriesReady", Registries)
      /\ Row(FinalItinerary, 14, "EnsureCloudSecretPropagated", {})
      /\ Row(FinalItinerary, 15, "PreBackupHooks", {"HasPreBackupHooks"})
  BY SMTT(30) DEF Row, FinalItinerary, FinalBackup, FinalVolumes, FinalRestore, Always, When, WhenAny
<1>5. /\ Row(FinalItinerary, 16, "CreateDirectImageMigration", Images)
      /\ Row(FinalItinerary, 17, "CreateDirectVolumeMigrationStage", Volumes)
      /\ Row(FinalItinerary, 18, "EnsureInitialBackup", {})
      /\ Row(FinalItinerary, 19, "InitialBackupCreated", {})
      /\ Row(FinalItinerary, 20, "QuiesceSourceApplications", {"Quiesce"})
  BY SMTT(30) DEF Row, FinalItinerary, FinalBackup, FinalVolumes, FinalRestore, Always, When, WhenAny
<1>6. /\ Row(FinalItinerary, 21, "EnsureSrcQuiesced", {"Quiesce"})
      /\ Row(FinalItinerary, 22, "EnsureStagePodsFromRunning", IndirectPVs)
      /\ Row(FinalItinerary, 23, "EnsureStagePodsFromTemplates", IndirectPVs)
      /\ Row(FinalItinerary, 27, "AnnotateResources", {"HasStageBackup"})
      /\ Row(FinalItinerary, 29, "CreateDirectVolumeMigrationFinal", Volumes)
  BY SMTT(30) DEF Row, FinalItinerary, FinalBackup, FinalVolumes, FinalRestore, Always, When, WhenAny
<1>7. /\ Row(FinalItinerary, 30, "EnsureStageBackup", {"HasStageBackup"})
      /\ Row(FinalItinerary, 31, "StageBackupCreated", {"HasStageBackup"})
      /\ Row(FinalItinerary, 32, "EnsureStageBackupReplicated", {"HasStageBackup"})
      /\ Row(FinalItinerary, 33, "EnsureStageRestore", {"HasStageBackup"})
      /\ Row(FinalItinerary, 34, "StageRestoreCreated", {"HasStageBackup"})
  BY SMTT(30) DEF Row, FinalItinerary, FinalBackup, FinalVolumes, FinalRestore, Always, When, WhenAny
<1>8. /\ Row(FinalItinerary, 35, "EnsureStagePodsDeleted", {"HasStagePods"})
      /\ Row(FinalItinerary, 37, "EnsureAnnotationsDeleted", {"HasStageBackup"})
      /\ Row(FinalItinerary, 38, "WaitForDirectImageMigrationToComplete", Images)
      /\ Row(FinalItinerary, 39, "WaitForDirectVolumeMigrationToComplete", Volumes)
      /\ Row(FinalItinerary, 42, "EnsureInitialBackupReplicated", {})
  BY SMTT(30) DEF Row, FinalItinerary, FinalBackup, FinalVolumes, FinalRestore, Always, When, WhenAny
<1>9. /\ Row(FinalItinerary, 43, "EnsureFinalRestore", {})
      /\ Row(FinalItinerary, 44, "FinalRestoreCreated", {})
      /\ Row(FinalItinerary, 48, "DeleteRegistries", {})
  BY SMTT(30) DEF Row, FinalItinerary, FinalBackup, FinalVolumes, FinalRestore, Always, When, WhenAny
<1>10. StartsBefore(FinalItinerary)
  <2>1. Starts(FinalItinerary, "EnsureInitialBackup", "InitialBackupCreated", {})
    <3>1. Follows(FinalItinerary, "InitialBackupCreated", "EnsureInitialBackup", {})
      BY <1>1, <1>5, FinalPlaces, FollowsAt, 18 \in 1..50, 19 \in Nat, 18 < 19, Zenon
    <3>2. Asks(FinalItinerary, "InitialBackupCreated", {})
      BY <1>5, FinalPlaces, AsksAt, Zenon
    <3> QED BY <3>1, <3>2 DEF Starts
  <2>2. Starts(FinalItinerary, "EnsureInitialBackup", "EnsureInitialBackupReplicated", {})
    <3>1. Follows(FinalItinerary, "EnsureInitialBackupReplicated", "EnsureInitialBackup", {})
      BY <1>1, <1>5, FinalPlaces, FollowsAt, 18 \in 1..50, 42 \in Nat, 18 < 42, Zenon
    <3>2. Asks(FinalItinerary, "EnsureInitialBackupReplicated", {})
      BY <1>8, FinalPlaces, AsksAt, Zenon
    <3> QED BY <3>1, <3>2 DEF Starts
  <2>3. Starts(FinalItinerary, "EnsureStageBackup", "StageBackupCreated", {"HasStageBackup"})
    <3>1. Follows(FinalItinerary, "StageBackupCreated", "EnsureStageBackup", {"HasStageBackup"})
      BY <1>1, <1>7, FinalPlaces, FollowsAt, 30 \in 1..50, 31 \in Nat, 30 < 31, Zenon
    <3>2. Asks(FinalItinerary, "StageBackupCreated", {"HasStageBackup"})
      BY <1>7, FinalPlaces, AsksAt, Zenon
    <3> QED BY <3>1, <3>2 DEF Starts
  <2>4. Starts(FinalItinerary, "EnsureStageBackup", "EnsureStageBackupReplicated", {"HasStageBackup"})
    <3>1. Follows(FinalItinerary, "EnsureStageBackupReplicated", "EnsureStageBackup", {"HasStageBackup"})
      BY <1>1, <1>7, FinalPlaces, FollowsAt, 30 \in 1..50, 32 \in Nat, 30 < 32, Zenon
    <3>2. Asks(FinalItinerary, "EnsureStageBackupReplicated", {"HasStageBackup"})
      BY <1>7, FinalPlaces, AsksAt, Zenon
    <3> QED BY <3>1, <3>2 DEF Starts
  <2>5. Starts(FinalItinerary, "EnsureStageRestore", "StageRestoreCreated", {"HasStageBackup"})
    <3>1. Follows(FinalItinerary, "StageRestoreCreated", "EnsureStageRestore", {"HasStageBackup"})
      BY <1>1, <1>7, FinalPlaces, FollowsAt, 33 \in 1..50, 34 \in Nat, 33 < 34, Zenon
    <3>2. Asks(FinalItinerary, "StageRestoreCreated", {"HasStageBackup"})
      BY <1>7, FinalPlaces, AsksAt, Zenon
    <3> QED BY <3>1, <3>2 DEF Starts
  <2>6. Starts(FinalItinerary, "EnsureFinalRestore", "FinalRestoreCreated", {})
    <3>1. Follows(FinalItinerary, "FinalRestoreCreated", "EnsureFinalRestore", {})
      BY <1>1, <1>9, FinalPlaces, FollowsAt, 43 \in 1..50, 44 \in Nat, 43 < 44, Zenon
    <3>2. Asks(FinalItinerary, "FinalRestoreCreated", {})
      BY <1>9, FinalPlaces, AsksAt, Zenon
    <3> QED BY <3>1, <3>2 DEF Starts
  <2>7. Starts(FinalItinerary, "CreateRegistries", "WaitForRegistriesReady", Registries)
    <3>1. Follows(FinalItinerary, "WaitForRegistriesReady", "CreateRegistries", Registries)
      BY <1>1, <1>4, FinalPlaces, FollowsAt, 11 \in 1..50, 13 \in Nat, 11 < 13, Zenon
    <3>2. Asks(FinalItinerary, "WaitForRegistriesReady", Registries)
      BY <1>4, FinalPlaces, AsksAt, Zenon
    <3> QED BY <3>1, <3>2 DEF Starts
  <2>8. Starts(FinalItinerary, "CreateDirectImageMigration", "WaitForDirectImageMigrationToComplete", Images)
    <3>1. Follows(FinalItinerary, "WaitForDirectImageMigrationToComplete", "CreateDirectImageMigration", Images)
      BY <1>1, <1>5, FinalPlaces, FollowsAt, 16 \in 1..50, 38 \in Nat, 16 < 38, Zenon
    <3>2. Asks(FinalItinerary, "WaitForDirectImageMigrationToComplete", Images)
      BY <1>8, FinalPlaces, AsksAt, Zenon
    <3> QED BY <3>1, <3>2 DEF Starts
  <2>9. Starts(FinalItinerary, "QuiesceSourceApplications", "EnsureSrcQuiesced", {"Quiesce"})
    <3>1. Follows(FinalItinerary, "EnsureSrcQuiesced", "QuiesceSourceApplications", {"Quiesce"})
      BY <1>1, <1>5, FinalPlaces, FollowsAt, 20 \in 1..50, 21 \in Nat, 20 < 21, Zenon
    <3>2. Asks(FinalItinerary, "EnsureSrcQuiesced", {"Quiesce"})
      BY <1>6, FinalPlaces, AsksAt, Zenon
    <3> QED BY <3>1, <3>2 DEF Starts
  <2>10. Starts(FinalItinerary, "QuiesceDestinationApplications", "EnsureDestQuiesced", Volumes)
    BY FinalPlaces, SaysNothing DEF Starts
  <2>11. Starts(FinalItinerary, "DeleteMigrated", "EnsureMigratedDeleted", {})
    BY FinalPlaces, SaysNothing DEF Starts
  <2> QED BY <2>1, <2>2, <2>3, <2>4, <2>5, <2>6, <2>7, <2>8, <2>9, <2>10, <2>11 DEF StartsBefore
<1>11. DataBefore(FinalItinerary)
  <2>1. Follows(FinalItinerary, "EnsureFinalRestore", "StageRestoreCreated", {"HasStageBackup"})
    BY <1>1, <1>7, FinalPlaces, FollowsAt, 34 \in 1..50, 43 \in Nat, 34 < 43, Zenon
  <2>2. Follows(FinalItinerary, "EnsureFinalRestore", "WaitForDirectVolumeMigrationToComplete", Volumes)
    BY <1>1, <1>8, FinalPlaces, FollowsAt, 39 \in 1..50, 43 \in Nat, 39 < 43, Zenon
  <2>3. Follows(FinalItinerary, "EnsureFinalRestore", "WaitForDirectImageMigrationToComplete", Images)
    BY <1>1, <1>8, FinalPlaces, FollowsAt, 38 \in 1..50, 43 \in Nat, 38 < 43, Zenon
  <2> QED BY <2>1, <2>2, <2>3 DEF DataBefore
<1>12. Makes(FinalItinerary)
  <2>1. Asks(FinalItinerary, "EnsureStageBackup", {"HasStageBackup"})
    BY <1>7, FinalPlaces, AsksAt, Zenon
  <2>2. Asks(FinalItinerary, "AnnotateResources", {"HasStageBackup"})
    BY <1>6, FinalPlaces, AsksAt, Zenon
  <2>3. Asks(FinalItinerary, "CreateDirectImageMigration", Images)
    BY <1>5, FinalPlaces, AsksAt, Zenon
  <2>4. Asks(FinalItinerary, "CreateDirectVolumeMigrationStage", Volumes)
    BY <1>5, FinalPlaces, AsksAt, Zenon
  <2>5. Asks(FinalItinerary, "CreateDirectVolumeMigrationFinal", Volumes)
    BY <1>6, FinalPlaces, AsksAt, Zenon
  <2> QED BY <2>1, <2>2, <2>3, <2>4, <2>5 DEF Makes
<1>13. Removes(FinalItinerary)
  <2>1. Follows(FinalItinerary, "Completed", "DeleteRegistries", {})
    BY <1>1, <1>9, FinalPlaces, FollowsAt, 48 \in 1..50, 50 \in Nat, 48 < 50, Zenon
  <2>2. Follows(FinalItinerary, "Completed", "EnsureStagePodsDeleted", {"HasStagePods"})
    BY <1>1, <1>8, FinalPlaces, FollowsAt, 35 \in 1..50, 50 \in Nat, 35 < 50, Zenon
  <2>3. Follows(FinalItinerary, "Completed", "EnsureAnnotationsDeleted", {"HasStageBackup"})
    BY <1>1, <1>8, FinalPlaces, FollowsAt, 37 \in 1..50, 50 \in Nat, 37 < 50, Zenon
  <2> QED BY <2>1, <2>2, <2>3 DEF Removes
<1>14. PodsLater(FinalItinerary)
  <2>1. ASSUME NEW j \in 1..23
        PROVE  "HasStagePods" \notin FinalItinerary[j].all \cup FinalItinerary[j].any
    <3>1. CASE j \in {1, 2, 3, 4, 5, 6, 7, 8, 9, 10}
      BY <1>2, <1>3, <3>1 DEF Row, Registries, Images, Volumes, IndirectPVs
    <3>2. CASE j \in {11, 12, 13, 14, 15, 16, 17, 18, 19, 20}
      BY <1>4, <1>5, <3>2 DEF Row, Registries, Images, Volumes, IndirectPVs
    <3>3. CASE j \in {21, 22, 23}
      BY <1>6, <3>3 DEF Row, Registries, Images, Volumes, IndirectPVs
    <3> QED BY <3>1, <3>2, <3>3
  <2>2. \A i \in 1..50 : FinalItinerary[i].name \in CreatesStagePods => i <= 24
    BY <1>1, FinalPlaces DEF Place, CreatesStagePods
  <2> QED BY <1>1, <2>1, <2>2 DEF PodsLater
<1>15. Unconditional(FinalItinerary[1]) /\ Unconditional(FinalItinerary[50])
  BY DEF FinalItinerary, FinalBackup, FinalVolumes, FinalRestore, Always, When, WhenAny, Unconditional
<1> QED BY <1>10, <1>11, <1>12, <1>13, <1>14, <1>15

\* What the rollback itinerary says of all this.
LEMMA RollbackSays ==
    /\ StartsBefore(RollbackItinerary)
    /\ DataBefore(RollbackItinerary)
    /\ Makes(RollbackItinerary)
    /\ \A i \in DOMAIN RollbackItinerary : RollbackItinerary[i].name \notin CreatesStagePods
    /\ Unconditional(RollbackItinerary[1]) /\ Unconditional(RollbackItinerary[15])
<1>1. DOMAIN RollbackItinerary = 1..15
  BY RollbackNames
<1>2. /\ Row(RollbackItinerary, 7, "QuiesceDestinationApplications", Volumes)
      /\ Row(RollbackItinerary, 8, "EnsureDestQuiesced", Volumes)
      /\ Row(RollbackItinerary, 12, "DeleteMigrated", {})
      /\ Row(RollbackItinerary, 13, "EnsureMigratedDeleted", {})
  BY SMTT(30) DEF Row, RollbackItinerary, RollbackTarget, RollbackSource, Always, When, WhenAny
<1>3. StartsBefore(RollbackItinerary)
  <2>1. Starts(RollbackItinerary, "EnsureInitialBackup", "InitialBackupCreated", {})
    BY RollbackPlaces, SaysNothing DEF Starts
  <2>2. Starts(RollbackItinerary, "EnsureInitialBackup", "EnsureInitialBackupReplicated", {})
    BY RollbackPlaces, SaysNothing DEF Starts
  <2>3. Starts(RollbackItinerary, "EnsureStageBackup", "StageBackupCreated", {"HasStageBackup"})
    BY RollbackPlaces, SaysNothing DEF Starts
  <2>4. Starts(RollbackItinerary, "EnsureStageBackup", "EnsureStageBackupReplicated", {"HasStageBackup"})
    BY RollbackPlaces, SaysNothing DEF Starts
  <2>5. Starts(RollbackItinerary, "EnsureStageRestore", "StageRestoreCreated", {"HasStageBackup"})
    BY RollbackPlaces, SaysNothing DEF Starts
  <2>6. Starts(RollbackItinerary, "EnsureFinalRestore", "FinalRestoreCreated", {})
    BY RollbackPlaces, SaysNothing DEF Starts
  <2>7. Starts(RollbackItinerary, "CreateRegistries", "WaitForRegistriesReady", Registries)
    BY RollbackPlaces, SaysNothing DEF Starts
  <2>8. Starts(RollbackItinerary, "CreateDirectImageMigration", "WaitForDirectImageMigrationToComplete", Images)
    BY RollbackPlaces, SaysNothing DEF Starts
  <2>9. Starts(RollbackItinerary, "QuiesceSourceApplications", "EnsureSrcQuiesced", {"Quiesce"})
    BY RollbackPlaces, SaysNothing DEF Starts
  <2>10. Starts(RollbackItinerary, "QuiesceDestinationApplications", "EnsureDestQuiesced", Volumes)
    <3>1. Follows(RollbackItinerary, "EnsureDestQuiesced", "QuiesceDestinationApplications", Volumes)
      BY <1>1, <1>2, RollbackPlaces, FollowsAt, 7 \in 1..15, 8 \in Nat, 7 < 8, Zenon
    <3>2. Asks(RollbackItinerary, "EnsureDestQuiesced", Volumes)
      BY <1>2, RollbackPlaces, AsksAt, Zenon
    <3> QED BY <3>1, <3>2 DEF Starts
  <2>11. Starts(RollbackItinerary, "DeleteMigrated", "EnsureMigratedDeleted", {})
    <3>1. Follows(RollbackItinerary, "EnsureMigratedDeleted", "DeleteMigrated", {})
      BY <1>1, <1>2, RollbackPlaces, FollowsAt, 12 \in 1..15, 13 \in Nat, 12 < 13, Zenon
    <3>2. Asks(RollbackItinerary, "EnsureMigratedDeleted", {})
      BY <1>2, RollbackPlaces, AsksAt, Zenon
    <3> QED BY <3>1, <3>2 DEF Starts
  <2> QED BY <2>1, <2>2, <2>3, <2>4, <2>5, <2>6, <2>7, <2>8, <2>9, <2>10, <2>11 DEF StartsBefore
<1>4. DataBefore(RollbackItinerary)
  BY RollbackPlaces, SaysNothing DEF DataBefore
<1>5. Makes(RollbackItinerary)
  BY RollbackPlaces, SaysNothing DEF Makes
<1>6. \A i \in DOMAIN RollbackItinerary : RollbackItinerary[i].name \notin CreatesStagePods
  BY RollbackPlaces DEF Avoids, CreatesStagePods
<1>7. Unconditional(RollbackItinerary[1]) /\ Unconditional(RollbackItinerary[15])
  BY DEF RollbackItinerary, RollbackTarget, RollbackSource, Always, When, WhenAny, Unconditional
<1> QED BY <1>3, <1>4, <1>5, <1>6, <1>7

\* What the cancel itinerary says of all this.
LEMMA CancelSays ==
    /\ Removes(CancelItinerary)
    /\ Follows(CancelItinerary, "Completed", "DeleteDirectVolumeMigrationResources", {"DirectVolume"})
    /\ Follows(CancelItinerary, "Completed", "DeleteDirectImageMigrationResources", {"DirectImage"})
    /\ \A i \in DOMAIN CancelItinerary : CancelItinerary[i].name \notin CreatesStagePods
    /\ Unconditional(CancelItinerary[1]) /\ Unconditional(CancelItinerary[12])
<1>1. DOMAIN CancelItinerary = 1..12
  BY CancelNames
<1>2. /\ Row(CancelItinerary, 4, "DeleteRegistries", {})
      /\ Row(CancelItinerary, 6, "DeleteDirectVolumeMigrationResources", {"DirectVolume"})
      /\ Row(CancelItinerary, 7, "DeleteDirectImageMigrationResources", {"DirectImage"})
      /\ Row(CancelItinerary, 8, "EnsureStagePodsDeleted", {"HasStagePods"})
      /\ Row(CancelItinerary, 9, "EnsureAnnotationsDeleted", {"HasStageBackup"})
  BY SMTT(30) DEF Row, CancelItinerary, Always, When, WhenAny
<1>3. /\ Removes(CancelItinerary)
      /\ Follows(CancelItinerary, "Completed", "DeleteDirectVolumeMigrationResources", {"DirectVolume"})
      /\ Follows(CancelItinerary, "Completed", "DeleteDirectImageMigrationResources", {"DirectImage"})
  <2>1. Follows(CancelItinerary, "Completed", "DeleteRegistries", {})
    BY <1>1, <1>2, CancelPlaces, FollowsAt, 4 \in 1..12, 12 \in Nat, 4 < 12, Zenon
  <2>2. Follows(CancelItinerary, "Completed", "EnsureStagePodsDeleted", {"HasStagePods"})
    BY <1>1, <1>2, CancelPlaces, FollowsAt, 8 \in 1..12, 12 \in Nat, 8 < 12, Zenon
  <2>3. Follows(CancelItinerary, "Completed", "EnsureAnnotationsDeleted", {"HasStageBackup"})
    BY <1>1, <1>2, CancelPlaces, FollowsAt, 9 \in 1..12, 12 \in Nat, 9 < 12, Zenon
  <2>4. Follows(CancelItinerary, "Completed", "DeleteDirectVolumeMigrationResources", {"DirectVolume"})
    BY <1>1, <1>2, CancelPlaces, FollowsAt, 6 \in 1..12, 12 \in Nat, 6 < 12, Zenon
  <2>5. Follows(CancelItinerary, "Completed", "DeleteDirectImageMigrationResources", {"DirectImage"})
    BY <1>1, <1>2, CancelPlaces, FollowsAt, 7 \in 1..12, 12 \in Nat, 7 < 12, Zenon
  <2> QED BY <2>1, <2>2, <2>3, <2>4, <2>5 DEF Removes
<1>4. \A i \in DOMAIN CancelItinerary : CancelItinerary[i].name \notin CreatesStagePods
  BY CancelPlaces DEF Avoids, CreatesStagePods
<1>5. Unconditional(CancelItinerary[1]) /\ Unconditional(CancelItinerary[12])
  BY DEF CancelItinerary, Always, When, WhenAny, Unconditional
<1> QED BY <1>3, <1>4, <1>5

-----------------------------------------------------------------------------
(* The walk *)

ForwardNames == {"Stage", "Final", "Rollback"}
WalkNames == ForwardNames \cup {"Cancel"}

\* What the itineraries say that a migration which nobody cancels goes through.
LEMMA ForwardSays ==
    ASSUME NEW name \in ForwardNames
    PROVE  /\ StartsBefore(ItineraryNamed(name))
           /\ DataBefore(ItineraryNamed(name))
           /\ Makes(ItineraryNamed(name))
BY NamedFacts, StageSays, FinalSays, RollbackSays DEF ForwardNames

\* Every itinerary begins and ends with a phase that is always included.
LEMMA WalkListed ==
    ASSUME NEW name \in WalkNames
    PROVE  \E n : /\ Listed(ItineraryNamed(name), n)
                  /\ Unconditional(ItineraryNamed(name)[1])
                  /\ Unconditional(ItineraryNamed(name)[n])
BY NamedFacts, StageSays, FinalSays, RollbackSays, CancelSays,
   StageListed, FinalListed, RollbackListed, CancelListed, Zenon
   DEF WalkNames, ForwardNames

\* Only a stage or a final migration makes stage pods, before anything that
\* depends on them.
LEMMA PodsSaid ==
    ASSUME NEW name \in WalkNames, NEW p \in CreatesStagePods,
           p \in PhasesOf(ItineraryNamed(name))
    PROVE  name \in {"Stage", "Final"} /\ PodsLater(ItineraryNamed(name))
BY NamedFacts, StageSays, FinalSays, RollbackSays, CancelSays
   DEF WalkNames, ForwardNames, PhasesOf

\* The spec of a walk has its fields.
LEMMA SpecFields ==
    ASSUME TypeOK
    PROVE  /\ DOMAIN spec = {"stage", "rollback", "migrateState", "quiescePods",
                             "verify", "canceled"}
           /\ spec.rollback \in BOOLEAN /\ spec.canceled \in BOOLEAN
<1>1. PICK s \in Specs, c \in BOOLEAN : spec = [s EXCEPT !.canceled = c]
  BY DEF TypeOK
<1>2. s \in [stage : BOOLEAN, rollback : BOOLEAN, migrateState : BOOLEAN,
             quiescePods : BOOLEAN, verify : BOOLEAN, canceled : BOOLEAN]
  BY WalkAssumption
<1> QED BY <1>1, <1>2

\* What a migration goes through that nobody cancels.
LEMMA ForwardFacts ==
    /\ Forward \in ForwardNames
    /\ Forward = "Rollback" <=> spec.rollback
BY DEF Forward, ChooseItinerary, ForwardNames

\* A pass goes on with that itinerary or with that of a cancel.
LEMMA ChosenFacts ==
    ASSUME IInv
    PROVE  /\ Chosen \in WalkNames
           /\ spec.canceled => Chosen = "Cancel"
           /\ ~spec.canceled => Chosen = Forward
<1>1. "Canceling" \in seen => spec.canceled
  BY DEF IInv, Position
<1>2. Chosen = IF spec.canceled THEN "Cancel" ELSE Forward
  BY <1>1 DEF Chosen, Forward, ChooseItinerary
<1> QED BY <1>2, ForwardFacts DEF WalkNames

\* The phase a pass runs is one of its itinerary, and reached.
LEMMA RunningFacts ==
    ASSUME IInv, phase # "Completed"
    PROVE  /\ Running \in PhasesOf(ItineraryNamed(Chosen))
           /\ Running # "Completed"
           /\ Chosen = Forward \/ (Chosen = "Cancel" /\ ~spec.rollback) =>
                 Reached(ItineraryNamed(Chosen), Running, seen,
                         Flags(stagePods), Flags(TRUE))
<1>1. Chosen \in WalkNames /\ Chosen \in ItineraryNames
  BY ChosenFacts DEF WalkNames, ForwardNames, ItineraryNames
<1>2. CASE itinerary = Chosen
  <2>1. Running = phase
    BY <1>2 DEF Running
  <2>2. itinerary # ""
    BY <1>1, <1>2 DEF ItineraryNames
  <2> QED BY <1>2, <2>1, <2>2 DEF IInv, Position, Present
<1>3. CASE itinerary # Chosen
  <2>1. Running = FirstPhase(Chosen)
    BY <1>3 DEF Running
  <2>2. Running # "Completed"
    BY <1>1, <2>1, FirstPhases DEF WalkNames, ForwardNames
  <2>3. Running \in PhasesOf(ItineraryNamed(Chosen))
    BY <1>1, <2>1, FirstIsPhase
  <2>4. PICK n : Listed(ItineraryNamed(Chosen), n) /\ Unconditional(ItineraryNamed(Chosen)[1])
    BY <1>1, WalkListed
  <2>5. Reached(ItineraryNamed(Chosen), Running, seen, Flags(stagePods), Flags(TRUE))
    BY <2>1, <2>4, ReachedFirst DEF FirstPhase
  <2> QED BY <2>2, <2>3, <2>5
<1> QED BY <1>2, <1>3

\* The flags of now are among those of a walk with stage pods.
LEMMA FlagsBetween ==
    ASSUME NEW pods \in BOOLEAN
    PROVE  Flags(FALSE) \subseteq Flags(pods) /\ Flags(pods) \subseteq Flags(TRUE)
<1>1. CASE pods = TRUE
  BY <1>1, PodFlags, Zenon
<1>2. CASE pods = FALSE
  BY <1>2, PodFlags, Zenon
<1> QED BY <1>1, <1>2

\* What the phase a pass runs does to the stage pods does not undo its being
\* reached, and only stage and final migrations make any.
LEMMA PodsAfter ==
    ASSUME IInv, phase # "Completed", NEW pods, pods \in StagePodsAfter(Running)
    PROVE  /\ pods \in BOOLEAN
           /\ pods => ~spec.rollback
           /\ Chosen = Forward \/ (Chosen = "Cancel" /\ ~spec.rollback) =>
                 Reached(ItineraryNamed(Chosen), Running, seen, Flags(pods), Flags(TRUE))
<1>1. stagePods \in BOOLEAN /\ (stagePods => ~spec.rollback)
  BY DEF IInv, TypeOK, Position
<1>2. \/ pods = stagePods
      \/ pods = FALSE
      \/ pods = TRUE /\ stagePods = FALSE /\ Running \in CreatesStagePods
  BY <1>1 DEF StagePodsAfter
<1>3. CASE pods = stagePods
  BY <1>1, <1>3, RunningFacts
<1>4. CASE pods = FALSE
  <2>1. Flags(FALSE) \subseteq Flags(stagePods)
    BY <1>1, FlagsBetween
  <2>2. Reached(ItineraryNamed(Chosen), Running, seen, Flags(stagePods), Flags(TRUE)) =>
        Reached(ItineraryNamed(Chosen), Running, seen, Flags(FALSE), Flags(TRUE))
    BY <2>1, ReachedMore
  <2> QED BY <1>4, <2>2, RunningFacts
<1>5. CASE pods = TRUE /\ stagePods = FALSE /\ Running \in CreatesStagePods
  <2>1. Chosen \in {"Stage", "Final"} /\ PodsLater(ItineraryNamed(Chosen))
    BY <1>5, ChosenFacts, RunningFacts, PodsSaid
  <2>2. ~spec.rollback
    BY <2>1, ChosenFacts, ForwardFacts
  <2>3. Chosen = Forward
    BY <2>1, ChosenFacts, SpecFields DEF IInv
  <2>4. Reached(ItineraryNamed(Chosen), Running, seen, Flags(FALSE), Flags(TRUE))
    BY <1>5, <2>3, RunningFacts
  <2>5. Reached(ItineraryNamed(Chosen), Running, seen,
                Flags(FALSE) \cup {"HasStagePods"}, Flags(TRUE))
    BY <1>5, <2>1, <2>4, ReachedPods
  <2>6. Reached(ItineraryNamed(Chosen), Running, seen, Flags(TRUE), Flags(TRUE))
    BY <2>5, PodFlags
  <2> QED BY <1>5, <2>2, <2>6
<1> QED BY <1>2, <1>3, <1>4, <1>5

\* The phase after it is one of the itinerary, and reached.
LEMMA NextFromFacts ==
    ASSUME IInv, phase # "Completed", NEW pods, pods \in StagePodsAfter(Running)
    PROVE  /\ NextFrom(Running, pods) \in PhasesOf(ItineraryNamed(Chosen))
           /\ Chosen = Forward \/ (Chosen = "Cancel" /\ ~spec.rollback) =>
                 Reached(ItineraryNamed(Chosen), NextFrom(Running, pods),
                         seen \cup {Running}, Flags(pods), Flags(TRUE))
<1>1. Chosen \in WalkNames /\ Chosen \in ItineraryNames
  BY ChosenFacts DEF WalkNames, ForwardNames, ItineraryNames
<1>2. PICK from :
         /\ from = IF Running = "Canceling" /\ spec.rollback
                     THEN "EnsureAnnotationsDeleted" ELSE Running
         /\ NextFrom(Running, pods) = NextPhase(ItineraryNamed(Chosen), from, Flags(pods))
  BY Zenon DEF NextFrom, Flags
<1>3. NextFrom(Running, pods) \in PhasesOf(ItineraryNamed(Chosen))
  BY <1>1, <1>2, NextIsPhase
<1>4. ASSUME Chosen = Forward \/ (Chosen = "Cancel" /\ ~spec.rollback)
      PROVE  Reached(ItineraryNamed(Chosen), NextFrom(Running, pods),
                     seen \cup {Running}, Flags(pods), Flags(TRUE))
  <2>1. Running = "Canceling" => Chosen = "Cancel"
    BY <1>1, RunningFacts, CancelPhases
  <2>2. Chosen = Forward => Chosen # "Cancel"
    BY ForwardFacts DEF ForwardNames
  <2>3. from = Running
    BY <1>2, <1>4, <2>1, <2>2
  <2>4. PICK n : Listed(ItineraryNamed(Chosen), n) /\ Unconditional(ItineraryNamed(Chosen)[n])
    BY <1>1, WalkListed
  <2>5. Flags(pods) \subseteq Flags(TRUE)
    BY PodsAfter, FlagsBetween
  <2> QED BY <1>2, <1>4, <2>3, <2>4, <2>5, RunningFacts, PodsAfter, ReachedNext
<1> QED BY <1>3, <1>4

\* The strengthening holds when a migration is made.
LEMMA InitIInv == Init => IInv
<1> SUFFICES ASSUME Init PROVE IInv
  OBVIOUS
<1>1. TypeOK
  <2>1. spec \in [stage : BOOLEAN, rollback : BOOLEAN, migrateState : BOOLEAN,
                  quiescePods : BOOLEAN, verify : BOOLEAN, canceled : BOOLEAN]
    BY WalkAssumption DEF Init
  <2>2. spec.canceled \in BOOLEAN /\ spec = [spec EXCEPT !.canceled = spec.canceled]
    BY <2>1
  <2> QED BY <2>2 DEF Init, TypeOK
<1>2. Forward # "" /\ itinerary = ""
  BY ForwardFacts DEF Init, ForwardNames
<1> QED BY <1>1, <1>2 DEF Init, IInv, Position, History, Present

\* A pass runs a phase.
LEMMA RunPhaseIInv ==
    ASSUME IInv, RunPhase
    PROVE  IInv'
<1>1. PICK pods \in StagePodsAfter(Running) :
         /\ stagePods' = pods
         /\ phase' = NextFrom(Running, pods)
  BY DEF RunPhase
<1>2. /\ phase # "Completed" /\ itinerary' = Chosen /\ seen' = seen \cup {Running}
      /\ plan' = plan /\ spec' = spec
  BY DEF RunPhase
<1>3. /\ Forward' = Forward
      /\ Flags(FALSE)' = Flags(FALSE) /\ Flags(TRUE)' = Flags(TRUE)
      /\ Flags(stagePods)' = Flags(pods)
  BY <1>1, <1>2, Zenon DEF Forward, Flags
<1>4. /\ Chosen \in WalkNames /\ Chosen \in ItineraryNames /\ Chosen # ""
      /\ spec.canceled => Chosen = "Cancel"
      /\ ~spec.canceled => Chosen = Forward /\ Chosen # "Cancel"
  BY ChosenFacts, ForwardFacts DEF WalkNames, ForwardNames, ItineraryNames
<1>5. \A p \in PhasesOf(ItineraryNamed(Chosen)) : p \in AllPhases
  BY <1>4 DEF AllPhases
<1>6. TypeOK'
  BY <1>1, <1>2, <1>4, <1>5, NextFromFacts, RunningFacts, PodsAfter DEF IInv, TypeOK
<1>7. Position'
  <2>1. "Canceling" \in seen' => Chosen = "Cancel"
    BY <1>2, <1>4, RunningFacts, CancelPhases DEF IInv, Position
  <2>2. Chosen \in {"", Forward, "Cancel"} /\ (Chosen = "Cancel" => spec.canceled)
    BY <1>4
  <2>3. phase' \in PhasesOf(ItineraryNamed(Chosen)) /\ (stagePods' => ~spec.rollback)
    BY <1>1, <1>2, NextFromFacts, PodsAfter
  <2> QED BY <1>2, <1>3, <1>4, <2>1, <2>2, <2>3 DEF Position
<1>8. History'
  <2>1. ASSUME NEW p \in seen, p \notin PhasesOf(CancelItinerary)
        PROVE  Reached(ItineraryNamed(Forward), p, seen', Flags(FALSE), Flags(TRUE))
    <3>1. Reached(ItineraryNamed(Forward), p, seen, Flags(FALSE), Flags(TRUE))
      BY <2>1 DEF IInv, History
    <3> QED BY <1>2, <3>1, ReachedMore
  <2>2. ASSUME Running \notin PhasesOf(CancelItinerary)
        PROVE  Reached(ItineraryNamed(Forward), Running, seen', Flags(FALSE), Flags(TRUE))
    <3>1. Chosen = Forward
      BY <1>2, <1>4, <2>2, RunningFacts, NamedFacts, SpecFields DEF IInv
    <3>2. Reached(ItineraryNamed(Forward), Running, seen, Flags(stagePods), Flags(TRUE))
      BY <1>2, <3>1, RunningFacts
    <3>3. Flags(FALSE) \subseteq Flags(stagePods)
      BY FlagsBetween DEF IInv, TypeOK
    <3> QED BY <1>2, <3>2, <3>3, ReachedMore
  <2> QED BY <1>2, <1>3, <2>1, <2>2 DEF History
<1>9. Present'
  BY <1>1, <1>2, <1>3, NextFromFacts DEF Present
<1> QED BY <1>6, <1>7, <1>8, <1>9 DEF IInv

\* The user cancels: what has been reached stays reached.
LEMMA CancelIInv ==
    ASSUME IInv, Cancel
    PROVE  IInv'
<1>1. /\ spec' = [spec EXCEPT !.canceled = TRUE]
      /\ plan' = plan /\ itinerary' = itinerary /\ phase' = phase
      /\ stagePods' = stagePods /\ seen' = seen
  BY DEF Cancel
<1>2. /\ Forward' = Forward /\ spec'.rollback = spec.rollback
      /\ Flags(FALSE)' = Flags(FALSE) /\ Flags(TRUE)' = Flags(TRUE)
  BY <1>1, SpecFields, CancelKeepsFlags DEF IInv
<1>3. Flags(stagePods)' = Flags(stagePods)
  <2>1. CASE stagePods = TRUE
    BY <1>1, <1>2, <2>1, Zenon DEF Flags
  <2>2. CASE stagePods = FALSE
    BY <1>1, <1>2, <2>2, Zenon DEF Flags
  <2> QED BY <2>1, <2>2 DEF IInv, TypeOK
<1>4. spec'.canceled = TRUE
  BY <1>1, SpecFields DEF IInv
<1>5. TypeOK'
  <2>1. PICK s \in Specs, c \in BOOLEAN : spec = [s EXCEPT !.canceled = c]
    BY DEF IInv, TypeOK
  <2>2. spec' = [s EXCEPT !.canceled = TRUE]
    BY <1>1, <2>1
  <2> QED BY <1>1, <2>2 DEF IInv, TypeOK
<1>6. Position'
  BY <1>1, <1>2, <1>4 DEF IInv, Position
<1>7. History'
  BY <1>1, <1>2 DEF IInv, History
<1>8. Present'
  BY <1>1, <1>2, <1>3 DEF IInv, Present
<1> QED BY <1>5, <1>6, <1>7, <1>8 DEF IInv

\* Nothing happens.
LEMMA StutterIInv ==
    ASSUME IInv, UNCHANGED vars
    PROVE  IInv'
<1>1. /\ plan' = plan /\ spec' = spec /\ itinerary' = itinerary /\ phase' = phase
      /\ stagePods' = stagePods /\ seen' = seen
  BY DEF vars
<1>2. Forward' = Forward /\ Flags(FALSE)' = Flags(FALSE) /\ Flags(TRUE)' = Flags(TRUE)
      /\ Flags(stagePods)' = Flags(stagePods)
  BY <1>1, Zenon DEF Forward, Flags
<1> QED BY <1>1, <1>2 DEF IInv, TypeOK, Position, History, Present

\* Whatever the plan and the spec, a migration reaches its phases by way of all
\* those before them, and its state has its type.
THEOREM WalkInvariant == Spec => []IInv
<1>1. IInv /\ [Next]_vars => IInv'
  BY RunPhaseIInv, CancelIInv, StutterIInv DEF Next
<1> QED BY <1>1, InitIInv, PTL DEF Spec

-----------------------------------------------------------------------------
(* What follows *)

\* No phase that waits or makes something is one of a cancel.
LEMMA NotOfCancel ==
    ASSUME NEW p \in {"InitialBackupCreated", "EnsureInitialBackupReplicated",
                      "StageBackupCreated", "EnsureStageBackupReplicated",
                      "StageRestoreCreated", "FinalRestoreCreated",
                      "WaitForRegistriesReady", "WaitForDirectImageMigrationToComplete",
                      "EnsureSrcQuiesced", "EnsureDestQuiesced", "EnsureMigratedDeleted",
                      "CreateRegistries", "AnnotateResources", "CreateDirectImageMigration",
                      "CreateDirectVolumeMigrationStage", "CreateDirectVolumeMigrationFinal",
                      "EnsureStageBackup", "EnsureFinalRestore"}
    PROVE  p \notin PhasesOf(CancelItinerary)
BY CancelPlaces DEF Avoids, PhasesOf

\* Such a phase that is over was reached, and what it asks for holds.
LEMMA SeenAsks ==
    ASSUME IInv, NEW p \in seen, p \notin PhasesOf(CancelItinerary),
           NEW flags, Asks(ItineraryNamed(Forward), p, flags), "HasStagePods" \notin flags
    PROVE  /\ Reached(ItineraryNamed(Forward), p, seen, Flags(FALSE), Flags(TRUE))
           /\ flags \subseteq Flags(FALSE)
<1>1. Reached(ItineraryNamed(Forward), p, seen, Flags(FALSE), Flags(TRUE))
  BY DEF IInv, History
<1>2. flags \subseteq Flags(TRUE)
  BY <1>1, ReachedAsks
<1> QED BY <1>1, <1>2, PodFlags

\* What waits has been started.
LEMMA Started ==
    ASSUME IInv, NEW wait \in seen, wait \notin PhasesOf(CancelItinerary),
           NEW starter, NEW flags, "HasStagePods" \notin flags,
           Starts(ItineraryNamed(Forward), starter, wait, flags)
    PROVE  starter \in seen
BY SeenAsks, ReachedFollows DEF Starts

\* Whatever the flags, a phase that waits runs only after the one that starts
\* what it waits for.
LEMMA AllStarted == IInv => WaitsHaveStarters
<1> SUFFICES ASSUME IInv PROVE WaitsHaveStarters
  OBVIOUS
<1>1. StartsBefore(ItineraryNamed(Forward))
  BY ForwardFacts, ForwardSays
<1>2. "InitialBackupCreated" \in seen => "EnsureInitialBackup" \in seen
  BY <1>1, NotOfCancel, Started DEF StartsBefore
<1>3. "EnsureInitialBackupReplicated" \in seen => "EnsureInitialBackup" \in seen
  BY <1>1, NotOfCancel, Started DEF StartsBefore
<1>4. "StageBackupCreated" \in seen => "EnsureStageBackup" \in seen
  BY <1>1, NotOfCancel, Started DEF StartsBefore
<1>5. "EnsureStageBackupReplicated" \in seen => "EnsureStageBackup" \in seen
  BY <1>1, NotOfCancel, Started DEF StartsBefore
<1>6. "StageRestoreCreated" \in seen => "EnsureStageRestore" \in seen
  BY <1>1, NotOfCancel, Started DEF StartsBefore
<1>7. "FinalRestoreCreated" \in seen => "EnsureFinalRestore" \in seen
  BY <1>1, NotOfCancel, Started DEF StartsBefore
<1>8. "WaitForRegistriesReady" \in seen => "CreateRegistries" \in seen
  BY <1>1, NotOfCancel, Started DEF StartsBefore, Registries
<1>9. "WaitForDirectImageMigrationToComplete" \in seen =>
          "CreateDirectImageMigration" \in seen
  BY <1>1, NotOfCancel, Started DEF StartsBefore, Images
<1>10. "EnsureSrcQuiesced" \in seen => "QuiesceSourceApplications" \in seen
  BY <1>1, NotOfCancel, Started DEF StartsBefore
<1>11. "EnsureDestQuiesced" \in seen => "QuiesceDestinationApplications" \in seen
  BY <1>1, NotOfCancel, Started DEF StartsBefore, Volumes
<1>12. "EnsureMigratedDeleted" \in seen => "DeleteMigrated" \in seen
  BY <1>1, NotOfCancel, Started DEF StartsBefore
<1> QED BY <1>2, <1>3, <1>4, <1>5, <1>6, <1>7, <1>8, <1>9, <1>10, <1>11, <1>12
        DEF WaitsHaveStarters

\* For every plan and spec, no phase waits for what nobody has started.
THEOREM WaitsStarted == Spec => []WaitsHaveStarters
BY WalkInvariant, AllStarted, PTL

\* All volume data and images have come before the final restore starts.
LEMMA DataFirst == IInv => DataBeforeFinalRestore
<1> SUFFICES ASSUME IInv, "EnsureFinalRestore" \in seen PROVE DataBeforeFinalRestore
  BY DEF DataBeforeFinalRestore
<1> DEFINE list == ItineraryNamed(Forward)
<1>1. DataBefore(list) /\ Makes(list)
  BY ForwardFacts, ForwardSays
<1>2. Reached(list, "EnsureFinalRestore", seen, Flags(FALSE), Flags(TRUE))
  BY NotOfCancel DEF IInv, History
<1> HIDE DEF list
<1>3. ASSUME "EnsureStageBackup" \in seen PROVE "StageRestoreCreated" \in seen
  <2>1. {"HasStageBackup"} \subseteq Flags(FALSE)
    BY <1>1, <1>3, NotOfCancel, SeenAsks DEF Makes, list
  <2> QED BY <1>1, <1>2, <2>1, ReachedFollowsOne DEF DataBefore
<1>4. ASSUME "CreateDirectVolumeMigrationStage" \in seen
      PROVE  "WaitForDirectVolumeMigrationToComplete" \in seen
  <2>1. Volumes \subseteq Flags(FALSE)
    BY <1>1, <1>4, NotOfCancel, SeenAsks DEF Makes, list, Volumes
  <2> QED BY <1>1, <1>2, <2>1, ReachedFollows DEF DataBefore
<1>5. ASSUME "CreateDirectImageMigration" \in seen
      PROVE  "WaitForDirectImageMigrationToComplete" \in seen
  <2>1. Images \subseteq Flags(FALSE)
    BY <1>1, <1>5, NotOfCancel, SeenAsks DEF Makes, list, Images
  <2> QED BY <1>1, <1>2, <2>1, ReachedFollows DEF DataBefore
<1> QED BY <1>3, <1>4, <1>5 DEF DataBeforeFinalRestore

\* For every plan and spec, the applications are restored after their data.
THEOREM DataComesFirst == Spec => []DataBeforeFinalRestore
BY WalkInvariant, DataFirst, PTL

\* At the end of a stage or final migration, or of one that was canceled, all
\* that is always removed has been, and what the flags ask for.
LEMMA EndReached ==
    ASSUME IInv, phase = "Completed", ~spec.rollback
    PROVE  /\ itinerary \in {Forward, "Cancel"}
           /\ Reached(ItineraryNamed(itinerary), "Completed", seen,
                      Flags(stagePods), Flags(TRUE))
           /\ Removes(ItineraryNamed(itinerary))
<1>1. itinerary \in {Forward, "Cancel"}
  BY DEF IInv, Position
<1>2. Reached(ItineraryNamed(itinerary), "Completed", seen, Flags(stagePods), Flags(TRUE))
  BY <1>1 DEF IInv, Present
<1>3. itinerary \in {"Stage", "Final", "Cancel"}
  BY <1>1, ForwardFacts DEF ForwardNames
<1>4. Removes(ItineraryNamed(itinerary))
  BY <1>3, NamedFacts, StageSays, FinalSays, CancelSays
<1> QED BY <1>1, <1>2, <1>4

\* A migration that is over has removed what it made for its own use.
LEMMA AllRemoved == IInv => NothingLeftBehind
<1> SUFFICES ASSUME IInv, phase = "Completed" PROVE NothingLeftBehind
  BY DEF NothingLeftBehind
<1>1. /\ Makes(ItineraryNamed(Forward))
      /\ Flags(FALSE) \subseteq Flags(stagePods)
      /\ stagePods \in BOOLEAN /\ spec.rollback \in BOOLEAN
  BY ForwardFacts, ForwardSays, FlagsBetween, SpecFields DEF IInv, TypeOK
<1>2. CASE spec.rollback
  <2>1. ItineraryNamed(Forward) = RollbackItinerary
    BY <1>2, ForwardFacts, NamedFacts
  <2>2. ASSUME NEW p \in {"CreateRegistries", "AnnotateResources"} PROVE p \notin seen
    <3>1. p \notin PhasesOf(CancelItinerary)
      BY NotOfCancel
    <3>2. ~Reached(RollbackItinerary, p, seen, Flags(FALSE), Flags(TRUE))
      BY RollbackPlaces DEF Reached, Avoids
    <3> QED BY <2>1, <3>1, <3>2 DEF IInv, History
  <2>3. ~stagePods
    BY <1>2 DEF IInv, Position
  <2> QED BY <1>2, <2>2, <2>3 DEF NothingLeftBehind, Leftover
<1>3. CASE ~spec.rollback
  <2> DEFINE list == ItineraryNamed(itinerary)
  <2>1. /\ Reached(list, "Completed", seen, Flags(stagePods), Flags(TRUE))
        /\ Removes(list)
    BY <1>3, EndReached
  <2> HIDE DEF list
  <2>2. "DeleteRegistries" \in seen
    BY <2>1, ReachedFollowsOne DEF Removes
  <2>3. ASSUME "AnnotateResources" \in seen PROVE "EnsureAnnotationsDeleted" \in seen
    <3>1. {"HasStageBackup"} \subseteq Flags(FALSE)
      BY <1>1, <2>3, NotOfCancel, SeenAsks DEF Makes
    <3>2. {"HasStageBackup"} \subseteq Flags(stagePods)
      BY <1>1, <3>1
    <3> QED BY <2>1, <3>2, ReachedFollowsOne DEF Removes
  <2>4. ASSUME stagePods PROVE "EnsureStagePodsDeleted" \in seen
    <3>1. stagePods = TRUE
      BY <1>1, <2>4
    <3>2. {"HasStagePods"} \subseteq Flags(TRUE)
      BY PodFlags
    <3>3. {"HasStagePods"} \subseteq Flags(stagePods)
      BY <3>1, <3>2, Zenon
    <3> QED BY <2>1, <3>3, ReachedFollowsOne DEF Removes
  <2>5. ASSUME "Canceling" \in seen
        PROVE  /\ Follows(list, "Completed", "DeleteDirectVolumeMigrationResources",
                          {"DirectVolume"})
               /\ Follows(list, "Completed", "DeleteDirectImageMigrationResources",
                          {"DirectImage"})
    BY <2>5, CancelSays, NamedFacts DEF IInv, Position, list
  <2>6. ASSUME "Canceling" \in seen, "CreateDirectImageMigration" \in seen
        PROVE  "DeleteDirectImageMigrationResources" \in seen
    <3>1. Images \subseteq Flags(FALSE)
      BY <1>1, <2>6, NotOfCancel, SeenAsks DEF Makes, Images
    <3>2. {"DirectImage"} \subseteq Flags(stagePods)
      BY <1>1, <3>1 DEF Images
    <3> QED BY <2>1, <2>5, <2>6, <3>2, ReachedFollowsOne
  <2>7. ASSUME "Canceling" \in seen,
               NEW made \in {"CreateDirectVolumeMigrationStage",
                             "CreateDirectVolumeMigrationFinal"},
               made \in seen
        PROVE  "DeleteDirectVolumeMigrationResources" \in seen
    <3>1. Volumes \subseteq Flags(FALSE)
      BY <1>1, <2>7, NotOfCancel, SeenAsks DEF Makes, Volumes
    <3>2. {"DirectVolume"} \subseteq Flags(stagePods)
      BY <1>1, <3>1 DEF Volumes
    <3> QED BY <2>1, <2>5, <2>7, <3>2, ReachedFollowsOne
  <2> QED BY <1>3, <2>2, <2>3, <2>4, <2>6, <2>7 DEF NothingLeftBehind, Leftover
<1> QED BY <1>1, <1>2, <1>3

\* For every plan and spec, and whenever the user cancels, a migration that is
\* over leaves nothing behind.
THEOREM NothingStays == Spec => []NothingLeftBehind
BY WalkInvariant, AllRemoved, PTL
=============================================================================

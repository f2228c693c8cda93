-------------------------------- MODULE MigPlan --------------------------------
(***************************************************************************)
(* The plan controller (pkg/controller/migplan): a pass reads the plan,    *)
(* validates what it refers to, discovers the volumes of its namespaces,   *)
(* makes the storage locations of Velero on both clusters and says whether *)
(* the plan is ready.  A plan with a running migration, or one that has    *)
(* been migrated, is suspended: its discovery is not repeated but kept.    *)
(*                                                                         *)
(* The API calls of a pass are grouped into the steps of its course;       *)
(* between two steps the user, the migrations and the clusters may move,   *)
(* and the pass may fail or be lost at any of them.                        *)
(***************************************************************************)
EXTENDS Naturals, SequencesExt

CONSTANTS
    Volumes,      \* persistent volumes with their claims
    Setups,       \* a plan and what may change around it, see SetupsAssumption
    Randoms,      \* what rand.String(4) may give
    MaxEdits,     \* bound on the edits of the user
    MaxChanges,   \* bound on the changes of the clusters
    MaxFaults,    \* bound on failing and lost passes
    MaxMigs,      \* bound on the migrations
    MaxSpent      \* bound on all of these together

Sides == {"Source", "Destination"}
Actions == {"skip", "copy", "move"}
VolumeKinds == {"plain", "sts", "temp", "made", "other"}
Disks == {"host", "nfs", "gluster", "csi"}
MigKinds == {"stage", "final", "state", "rollback"}
Types == {"none", "namespace", "state", "conversion"}
StorageStates == {"unset", "missing", "notready", "ok"}
ClusterStates == StorageStates \cup {"noregistry"}
Moods == [bound : BOOLEAN, pods : {"none", "pending", "running"}]
StorageClasses == {"same", "ceph", "default"}   \* of the destination, see DestClasses
Selections ==   \* a class that is not there, a mode the class does not have, no such method
    [action : Actions, class : StorageClasses \cup {"", "gone"}, mode : {"", "rare", "bad"},
     method : {"", "filesystem", "block", "snapshot", "none"}]

\* A selection: the action, the storage class, the access mode, the copy method.
Selection(action, class, mode, method) ==
    [action |-> action, class |-> class, mode |-> mode, method |-> method]

\* intra    both references name the same cluster
\* mapped   the namespaces with another name on the destination
\* ns       the namespaces of the plan at first; the others may be added
\* vols     of each volume: its namespace, what its claim is, its disk
\* choices  the selections a user may make
\* flaws    the facts that may go wrong (and right again)
\* states   the states of a cluster or of the storage that may come and go
\* moods    the states of a volume that may come and go
\* rival    what another plan may come to list
\* migs     the kinds of migration that may be created
\* opts     the switches of the plan and of the controller
ASSUME SetupsAssumption ==
    /\ Randoms \subseteq Nat \ {0}
    /\ {MaxEdits, MaxChanges, MaxFaults, MaxMigs, MaxSpent} \subseteq Nat
    /\ \A s \in Setups :
          /\ DOMAIN s = {"intra", "mapped", "ns", "vols", "choices", "flaws", "states",
                         "moods", "rival", "migs", "opts"}
          /\ \A v \in DOMAIN s.vols :
                s.vols[v] \in [ns : STRING, kind : VolumeKinds, disk : Disks]
          /\ DOMAIN s.vols \subseteq Volumes
          /\ s.intra \in BOOLEAN /\ s.mapped \subseteq STRING /\ s.ns \subseteq STRING
          /\ s.choices \subseteq Selections
          /\ s.states \subseteq ClusterStates /\ s.moods \subseteq Moods
          /\ s.migs \subseteq MigKinds
          /\ s.opts \subseteq {"indirectImages", "indirectVolumes", "live", "resize", "resizing",
                               "twoProviders", "hostDestination", "noClaims"}

VARIABLES
    setup,
    spec,      \* of the stored plan
    status,    \* of the stored plan
    world,     \* the clusters, the other resources, the migrations
    pass,      \* the pass under way, with its copy of the plan
    due,       \* the plan is in the queue
    quiet,     \* nothing has changed since the last complete pass began
    missed,    \* something no watch reports has changed since
    ghost,     \* what the properties remember
    spent      \* how much has happened

vars == <<setup, spec, status, world, pass, due, quiet, missed, ghost, spent>>

-----------------------------------------------------------------------------
(* Conditions.  Only the types count: a condition is critical, an error, or  *)
(* says something.  While a pass runs, `conds' are its staged conditions and *)
(* `prev' those it has read (see Conditions).                                *)

InvalidRef == [Source |-> "InvalidSourceClusterRef", Destination |-> "InvalidDestinationClusterRef"]
NotReady == [Source |-> "SourceClusterNotReady", Destination |-> "DestinationClusterNotReady"]
NoRegistry == [Source |-> "SourceClusterNoRegistryPath",
               Destination |-> "DestinationClusterNoRegistryPath"]
BadProxy == [Source |-> "SourceClusterProxySecretMisconfigured",
             Destination |-> "DestinationClusterProxySecretMisconfigured"]
NsDuplicate == [Source |-> "DuplicateNamespaceOnSourceCluster",
                Destination |-> "DuplicateNamespaceOnDestinationCluster"]
NsNotFound == [Source |-> "NamespaceNotFoundOnSourceCluster",
               Destination |-> "NamespaceNotFoundOnDestinationCluster"]
OfSides(f) == {f[s] : s \in Sides}

CriticalConditions ==
    (UNION {OfSides(f) : f \in {InvalidRef, NotReady, NoRegistry, BadProxy, NsDuplicate, NsNotFound}})
    \cup {"InvalidStorageRef", "StorageNotReady", "NamespaceListEmpty", "NamespaceLimitExceeded",
          "NamespaceNotDNSCompliant", "IntraClusterMigration", "InvalidResourceList",
          "InvalidHookRef", "InvalidHookSAName", "InvalidHookNSName", "HookNotReady",
          "HookPhaseUnknown", "HookPhaseDuplicate", "StorageClassConversionUnavailable",
          "ReconcileFailed"}
ErrorConditions ==
    {"PlanConflict", "PvInvalidAction", "PvInvalidStorageClass", "PvInvalidAccessMode",
     "PvNoCopyMethodSelection", "PvInvalidCopyMethod", "PvNameConflict",
     "NfsAccessCannotBeValidated"}
DurableConditions == {"NamespacesHaveNodeSelectors", "PvCapacityAdjustmentRequired"}

HasAny(p, types) == p.conds \cap types # {}
With(p, types) == [p EXCEPT !.conds = @ \cup types]
Without(p, types) == [p EXCEPT !.conds = @ \ types]
Stage(p, types) == With(p, types \cap p.prev)
Raise(p, type, when) == IF when THEN With(p, {type}) ELSE p

Suspended(p) == "Suspended" \in p.conds
HasCritical(conds) == conds \cap CriticalConditions # {}   \* mutant: errors do not block
HasBlocker(conds) == conds \cap (CriticalConditions \cup ErrorConditions) # {}

-----------------------------------------------------------------------------
(* State *)

Vols == DOMAIN setup.vols
Opt(o) == o \in setup.opts
Flaw(f) == f \in world.flaws

\* The name of a claim on the destination: the claim's own or one the user
\* gave, and the suffixes of a storage conversion, 0 for none: `inner' stands
\* before the name of a StatefulSet and the ordinal, `tail' at the end.
SourceName == [base |-> "source", inner |-> 0, tail |-> 0]
UserName == [SourceName EXCEPT !.base = "user"]

\* An entry of the plan's list of volumes.
Entry(sel, target, actions) ==
    [sel |-> sel, target |-> target, actions |-> actions, confirmed |-> FALSE, proposed |-> 0]

NoPass == [at |-> "none"]

NoPvs == [v \in {} |-> SourceName]

\* Kinds of change, each with its bound.
Bound == [edit |-> MaxEdits, change |-> MaxChanges, fault |-> MaxFaults, mig |-> MaxMigs]
Spend(kind) == /\ spent[kind] < Bound[kind]
               /\ MapThenSumSet(LAMBDA k : spent[k], DOMAIN spent) < MaxSpent
               /\ spent' = [spent EXCEPT ![kind] = @ + 1]

\* A change of the world or of the plan: what a pass has seen is out of date.
Disturb(enqueue) ==
    /\ quiet' = FALSE
    /\ due' = (due \/ enqueue)
    /\ missed' = (missed \/ ~enqueue)

Init ==
    /\ setup \in Setups
    /\ spec = [ns |-> setup.ns, refresh |-> FALSE, closed |-> FALSE, pvs |-> NoPvs]
    /\ status = [conds |-> {}, type |-> "none", sticky |-> FALSE, suffix |-> 0,
                 reconciled |-> FALSE, classes |-> {}]
    /\ world = [cluster |-> [s \in Sides |-> "ok"], storage |-> "ok", version |-> 1,
                flaws |-> {}, rival |-> "none", migs |-> <<>>,
                vols |-> [v \in Vols |-> [bound |-> TRUE, pods |-> "running"]],
                held |-> [s \in Sides |-> [bsl |-> 0, vsl |-> 0, secret |-> 0]],
                analytic |-> [state |-> "none", refresh |-> FALSE, late |-> FALSE, size |-> 1]]
    /\ pass = NoPass
    /\ due = TRUE /\ quiet = FALSE /\ missed = FALSE
    /\ ghost = [chosen |-> NoPvs, unreached |-> {}, reopened |-> FALSE]
    /\ spent = [k \in DOMAIN Bound |-> 0]

-----------------------------------------------------------------------------
(* What a plan refers to *)

Reachable(s) == world.cluster[s] \in {"noregistry", "ok"}
Resolved(s) == world.cluster[s] \notin {"unset", "missing"}

ValidateCluster(p, s) ==
    LET verdict == [unset |-> {InvalidRef[s]}, missing |-> {InvalidRef[s]},
                    notready |-> {NotReady[s]}, ok |-> {},
                    noregistry |-> IF Opt("indirectImages") THEN {} ELSE {NoRegistry[s]}]
    IN With(p, verdict[world.cluster[s]])

\* A plan for a part of the application needs no registry.
SetMigrationType(p, type, sticky) ==
    [p EXCEPT !.type = type, !.sticky = sticky,
              !.conds = IF type \in {"state", "conversion"} THEN @ \ OfSides(NoRegistry) ELSE @]

Mapped(p) == p.spec.ns \cap setup.mapped
Conversion(p) == p.type = "conversion"

TypeFromPlan(p) ==
    IF setup.intra
    THEN IF Mapped(p) = {} THEN SetMigrationType(p, "conversion", FALSE)
         ELSE IF Mapped(p) = p.spec.ns THEN SetMigrationType(p, "state", FALSE)
         ELSE With(p, {"IntraClusterMigration"})
    ELSE IF \E v \in DOMAIN p.spec.pvs : p.spec.pvs[v].target # SourceName
         THEN SetMigrationType(p, "state", FALSE) ELSE p

RolledBack(m) == m.kind = "rollback" /\ m.phase = "succeeded"

\* The migrations a plan has had decide what it may be used for; a rollback
\* that is the last of them sets it free.
ValidatePossibleMigrationTypes(p) ==
    LET migs == world.migs
        states == {i \in DOMAIN migs : migs[i].kind = "state"}
        storage == setup.intra /\ Mapped(p) = {} IN
    IF Opt("indirectImages") \/ Opt("indirectVolumes")
    THEN Raise(SetMigrationType(p, "namespace", FALSE), "IntraClusterMigration",
               setup.intra /\ Opt("indirectVolumes"))
    ELSE IF migs = <<>> THEN TypeFromPlan(p)
    ELSE IF RolledBack(Last(migs)) THEN TypeFromPlan(SetMigrationType(p, "none", FALSE))
    ELSE IF states # {} THEN SetMigrationType(p, IF storage THEN "conversion" ELSE "state", TRUE)
    ELSE TypeFromPlan(SetMigrationType(p, "namespace", TRUE))

ValidateStorage(p) ==
    LET verdict == [unset |-> {"InvalidStorageRef"}, missing |-> {"InvalidStorageRef"},
                    notready |-> {"StorageNotReady"}, ok |-> {}]
    IN IF Conversion(p) THEN p ELSE With(p, verdict[world.storage])

\* A route needs a short namespace unless the user names the subdomain.
NamespaceTooLong(p) ==
    Flaw("nsLong") /\ ~HasAny(p, {InvalidRef["Destination"]}) /\ ~Opt("indirectVolumes")

FilePermissionConflict == Reachable("Source") /\ Flaw("permissions")

ValidateNamespaces(p) ==
    IF p.spec.ns = {} THEN With(p, {"NamespaceListEmpty"})
    ELSE IF Flaw("nsLimit") THEN With(p, {"NamespaceLimitExceeded"})
    ELSE IF NamespaceTooLong(p) THEN With(p, {"NamespaceLengthExceeded"})
    ELSE Raise(p, "NamespacePermissions", FilePermissionConflict)

ValidatePodProperties(p) ==
    IF Suspended(p) \/ HasAny(p, {"NamespaceLimitExceeded"}) THEN Stage(p, {"PodLimitExceeded"})
    ELSE IF ~Reachable("Source") THEN p
    ELSE LET q == Raise(p, "PodLimitExceeded", Flaw("podLimit"))
         IN IF Flaw("nodeSelectors") THEN With(q, {"NamespacesHaveNodeSelectors"})
                                     ELSE Without(q, {"NamespacesHaveNodeSelectors"})

ValidateSourceNamespaces(p) ==
    IF Suspended(p) \/ HasAny(p, {"NamespaceLimitExceeded"}) THEN Stage(p, {NsNotFound["Source"]})
    ELSE IF Flaw("nsDuplicate") THEN With(p, {NsDuplicate["Source"]})
    ELSE Raise(p, NsNotFound["Source"], Reachable("Source") /\ Flaw("nsMissing"))

ValidateDestinationNamespaces(p) ==
    IF Suspended(p) THEN p
    ELSE IF Flaw("nsDuplicate") THEN With(p, {NsDuplicate["Destination"]})
    ELSE IF Flaw("nsBadName") THEN With(p, {"NamespaceNotDNSCompliant"})
    ELSE Raise(p, NsNotFound["Destination"], Reachable("Destination") /\ Flaw("veleroMissing"))

ValidateRequiredNamespaces(p) == ValidateDestinationNamespaces(ValidateSourceNamespaces(p))

\* Plans conflict that share a cluster and list a namespace in the same words:
\* the same namespace with another mapping goes unnoticed.
HasConflict == world.rival = "same"

ValidateConflict(p) == Raise(p, "PlanConflict", HasConflict)

ValidateProxySecret(p, s) ==
    IF Suspended(p) \/ HasAny(p, {InvalidRef[s], NotReady[s]}) THEN p
    ELSE Raise(p, BadProxy[s], Flaw("proxy"))

ValidateRegistryProxySecrets(p) ==
    ValidateProxySecret(ValidateProxySecret(p, "Source"), "Destination")

ValidatePodHealth(p) ==
    IF Suspended(p) THEN Stage(p, {"SourcePodsNotHealthy"})
    ELSE Raise(p, "SourcePodsNotHealthy", Reachable("Source") /\ Flaw("unhealthy"))

\* The first hook that is missing, not ready or of no phase ends the search.
ValidateHooks(p) ==
    IF Flaw("hookMissing") THEN With(p, {"InvalidHookRef"})
    ELSE LET q == Raise(Raise(p, "InvalidHookSAName", Flaw("hookAccount")),
                        "InvalidHookNSName", Flaw("hookNamespace"))
         IN IF Flaw("hookNotReady") THEN With(q, {"HookNotReady"})
            ELSE IF Flaw("hookPhase") THEN With(q, {"HookPhaseUnknown"})
            ELSE Raise(q, "HookPhaseDuplicate", Flaw("hookTwice"))

ValidateIncludedResources(p) ==
    Raise(p, "InvalidResourceList", Reachable("Source") /\ Flaw("resources"))

ClustersReady(p) == ~HasAny(p, OfSides(InvalidRef) \cup OfSides(NotReady))

\* Only looked at again when the plan has been edited.
CompareGVK(p) ==
    IF p.reconciled \/ ~ClustersReady(p) THEN Stage(p, {"GVKsIncompatible"})
    ELSE Raise(p, "GVKsIncompatible", Flaw("gvk"))

ValidateOperatorVersions(p) ==
    Raise(p, "ClusterVersionMismatch", ~HasAny(p, OfSides(InvalidRef)) /\ Flaw("versions"))

\* For moving running virtual machines: on each cluster one KubeVirt, new
\* enough, with the features turned on.  None of it blocks the plan.
KubeVirtProblem ==
    IF Flaw("kubevirtMissing") THEN {"KubeVirtNotInstalled"}
    ELSE IF Flaw("kubevirtOld") THEN {"KubeVirtVersionNotSupported"}
    ELSE IF Flaw("kubevirtOff") THEN {"KubeVirtStorageLiveMigrationNotEnabled"}
    ELSE {}

ValidateLiveMigrationPossible(p) ==
    IF \E s \in Sides : Reachable(s) THEN With(p, KubeVirtProblem) ELSE p

\* When a cluster cannot be found validation ends with an error, see Fails.
Validate(p) ==
    LET c == ValidateCluster(ValidateCluster(p, "Source"), "Destination")
        n == ValidateNamespaces(ValidateStorage(ValidatePossibleMigrationTypes(c)))
        r == ValidateConflict(ValidateRequiredNamespaces(ValidatePodProperties(n)))
        h == ValidateHooks(ValidatePodHealth(ValidateRegistryProxySecrets(r)))
        g == ValidateOperatorVersions(CompareGVK(ValidateIncludedResources(h)))
    IN IF ~\A s \in Sides : Resolved(s) THEN c
       ELSE IF Opt("live") THEN ValidateLiveMigrationPossible(g) ELSE g

-----------------------------------------------------------------------------
(* The volumes of the plan *)

\* Storage classes of the destination: of the provisioner of the source, of
\* Ceph, and the default one.
DestClasses ==
    StorageClasses \ {c \in StorageClasses :
        Flaw([same |-> "noSame", ceph |-> "noCeph", default |-> "noDefault"][c])}

SupportedActions(v) ==
    LET disk == setup.vols[v].disk
    IN {"skip"} \cup (IF disk = "host" THEN {} ELSE {"copy"})
                \cup (IF disk = "nfs" THEN {"move"} ELSE {})

WantedClass(v) == IF setup.vols[v].disk \in {"nfs", "gluster"} THEN "ceph" ELSE "same"

DestStorageClass(v) ==
    IF WantedClass(v) \in DestClasses THEN WantedClass(v)
    ELSE IF "default" \in DestClasses THEN "default" ELSE ""

CephMissing(v) ==
    /\ setup.vols[v].disk = "gluster" /\ ~setup.intra
    /\ DestStorageClass(v) = "default"

DefaultSelection(v) ==
    Selection(IF "copy" \in SupportedActions(v) THEN "copy" ELSE "skip",
              DestStorageClass(v), "", "filesystem")

OwnedBySet(v, podPhases) ==
    setup.vols[v].kind = "sts" /\ world.vols[v].pods \in podPhases

\* The name a claim gets on the destination.  A storage conversion replaces
\* the suffix of an earlier one; the claims of a StatefulSet keep its name and
\* the ordinal at the end.
MappedName(p, v, podPhases) ==
    LET old == IF v \in DOMAIN p.spec.pvs THEN p.spec.pvs[v].target ELSE SourceName
        trimmed == [old EXCEPT !.tail = 0]
    IN IF ~Conversion(p) THEN old
       ELSE IF OwnedBySet(v, podPhases) /\ old.base = "source"
            THEN [trimmed EXCEPT !.inner = p.suffix]
            ELSE [trimmed EXCEPT !.tail = p.suffix]

\* The persistent volumes are found by the name their claim would get when all
\* pods are looked at, the claims only look at the running ones.
NameInPvMap(p, v) == MappedName(p, v, {"pending", "running"})
NameOfClaim(p, v) == MappedName(p, v, {"running"})

ClaimListed(p, v) ==   \* mutant: what a migration has made is listed
    setup.vols[v].kind = "other" /\ Conversion(p)

ClaimSkipped(p, v) ==
    \/ setup.vols[v].kind \in {"temp", "made"}
    \/ setup.vols[v].kind = "other" /\ Conversion(p)

Claims(p) == {v \in Vols : setup.vols[v].ns \in p.spec.ns /\ ~ClaimSkipped(p, v)}

Found(p) ==
    {v \in Claims(p) : world.vols[v].bound /\ NameOfClaim(p, v) = NameInPvMap(p, v)}

UpdatePvAll(old, pv) == pv   \* mutant: the selection of the user is overwritten

\* What the user has selected and confirmed stays; where only one action is
\* left, it is selected.
UpdatePv(old, pv) ==
    [old EXCEPT !.target = pv.target, !.actions = pv.actions,
                !.sel.action = IF Cardinality(pv.actions) = 1 THEN CHOOSE a \in pv.actions : TRUE
                               ELSE @]

AddPv(pvs, v, pv) == IF v \in DOMAIN pvs THEN UpdatePv(pvs[v], pv) ELSE pv

DiscoveredPv(p, v) == Entry(DefaultSelection(v), NameOfClaim(p, v), SupportedActions(v))

\* What is left of the list when staging ends: what has been added meanwhile.
StagedPvs(p) == [v \in Found(p) |-> AddPv(p.spec.pvs, v, DiscoveredPv(p, v))]

KeptWhileSuspended ==
    {"PvsDiscovered", "PvNoSupportedAction", "PvNoStorageClassSelection",
     "PvWarnAccessModeUnavailable", "PvWarnCopyMethodSnapshot", "PvWarnNoCephAvailable",
     "PvLimitExceeded"}

NoDiscoveryWith ==
    OfSides(InvalidRef) \cup OfSides(NotReady)
    \cup {NsNotFound["Source"], "NamespaceLimitExceeded", "NamespaceListEmpty"}

UpdatePvs(p) ==
    LET q == [p EXCEPT !.classes = DestClasses]
        listed == [With(q, {"PvsDiscovered"}) EXCEPT !.spec.pvs = StagedPvs(q)]
        warned == {v \in Found(q) : CephMissing(v) /\ listed.spec.pvs[v].sel.action # "move"}
    IN IF Suspended(p) THEN Stage(p, KeptWhileSuspended)
       ELSE IF HasAny(p, NoDiscoveryWith) \/ \E s \in Sides : ~Reachable(s) THEN p
       ELSE IF Opt("noClaims") THEN [With(q, {"PvsDiscovered"}) EXCEPT !.spec.pvs = NoPvs]
       ELSE Raise(Raise(listed, "PvWarnNoCephAvailable", warned # {}),
                  "PvLimitExceeded", Flaw("pvLimit"))

\* The failed volume may no longer be moved.
WithoutMove(pv) == [pv EXCEPT !.actions = @ \ {"move"}]

\* NFS volumes that are to be moved must be reachable from the destination,
\* which is tried from a pod of Velero there.
NfsValidation(p) ==
    LET tried == {v \in DOMAIN p.spec.pvs :
                    setup.vols[v].disk = "nfs" /\ p.spec.pvs[v].sel.action # "copy"}
        failed == IF Flaw("nfsDown") THEN tried ELSE {}
        checked == [p EXCEPT !.spec.pvs = [v \in DOMAIN @ |->
                      IF v \in failed THEN WithoutMove(@[v]) ELSE @[v]]]
    IN IF "PvsDiscovered" \notin p.conds THEN p
       ELSE IF Suspended(p) THEN Stage(p, {"NfsNotAccessible"})
       ELSE IF ~Opt("hostDestination") /\ Flaw("noVeleroPod")
            THEN With(p, {"NfsAccessCannotBeValidated"})
       ELSE Raise(checked, "NfsNotAccessible", failed # {})

-----------------------------------------------------------------------------
(* Selections *)

BadAction(pv) == pv.sel.action \notin pv.actions
Copied(pv) == ~BadAction(pv) /\ pv.sel.action = "copy"

\* What is wrong with the selection of one volume, given the storage classes
\* discovered; only of a copy is more than the action looked at.
PvProblems(p, pv) ==
    (IF BadAction(pv) THEN {"PvInvalidAction"} ELSE {})
    \cup (IF ~Copied(pv) THEN {} ELSE
            (IF pv.sel.class = "" THEN {"PvNoStorageClassSelection"}
             ELSE IF pv.sel.class \notin p.classes THEN {"PvInvalidStorageClass"}
             ELSE IF pv.sel.mode = "bad" THEN {"PvInvalidAccessMode"}
             ELSE IF pv.sel.mode = "rare" THEN {"PvWarnAccessModeUnavailable"} ELSE {})
            \cup (IF pv.sel.method = "" THEN {"PvNoCopyMethodSelection"}
                  ELSE IF pv.sel.method \notin {"filesystem", "block", "snapshot"}
                       THEN {"PvInvalidCopyMethod"}
                  ELSE IF pv.sel.method = "snapshot" THEN {"PvWarnCopyMethodSnapshot"} ELSE {})
            \cup (IF Conversion(p) /\ pv.target = SourceName THEN {"PvNameConflict"} ELSE {}))

ConversionProblems(p) ==
    IF /\ Conversion(p)
       /\ \/ \A v \in DOMAIN p.spec.pvs :
               ~BadAction(p.spec.pvs[v]) /\ p.spec.pvs[v].sel.action = "skip"
          \/ Cardinality(p.classes) < 2
    THEN {"StorageClassConversionUnavailable"} ELSE {}

ValidatePvSelections(p) ==
    IF Suspended(p) THEN p
    ELSE With(p, (UNION {PvProblems(p, p.spec.pvs[v]) : v \in DOMAIN p.spec.pvs})
                 \cup ConversionProblems(p))

-----------------------------------------------------------------------------
(* Storage locations and the analysis of volumes *)

UpToDate == [bsl |-> world.version, vsl |-> world.version, secret |-> world.version]

\* What a cluster may hold when the calls for it are cut short.
PartlyEnsured(held) ==
    { held, [held EXCEPT !.bsl = world.version],
      [held EXCEPT !.bsl = world.version, !.vsl = world.version], UpToDate }

StorageFound == world.storage \in {"ok", "notready"}

Ensures(p) == p.conds \cap CriticalConditions = {} /\ ~Suspended(p)

EnsureStorage(p) ==
    IF ~Ensures(p) THEN Stage(p, {"StorageEnsured"})
    ELSE Raise(p, "StorageEnsured", StorageFound /\ \A s \in Sides : Reachable(s))

Ensured(p) ==
    IF Ensures(p) /\ StorageFound
    THEN [s \in Sides |-> IF Reachable(s) THEN UpToDate ELSE world.held[s]]
    ELSE world.held

\* The plan asks for an analysis when it is new, edited or to be refreshed.
EnsureMigAnalytics(p) ==
    IF world.analytic.state = "none" THEN [world.analytic EXCEPT !.state = "busy"]
    ELSE [world.analytic EXCEPT !.refresh = @ \/ p.spec.refresh \/ ~p.reconciled]

AnalyticReady == world.analytic.state = "ready" /\ ~world.analytic.refresh
AnalyticGivenUp == ~AnalyticReady /\ (world.analytic.state = "failed" \/ world.analytic.late)

\* A smaller proposal than the last takes the confirmation back, although the
\* comment speaks of a greater one.
Proposed(pv) ==
    [pv EXCEPT !.confirmed = @ /\ pv.proposed <= world.analytic.size,
               !.proposed = world.analytic.size]
ProcessProposed(p) ==
    [p EXCEPT !.spec.pvs = [v \in DOMAIN @ |-> Proposed(@[v])]]

GeneratePVResizeConditions(p) ==
    IF world.analytic.size > 1 /\ DOMAIN p.spec.pvs # {}
    THEN With(Without(p, {"PvUsageAnalysisFailed"}), {"PvCapacityAdjustmentRequired"})
    ELSE Without(p, {"PvUsageAnalysisFailed", "PvCapacityAdjustmentRequired"})

CheckAnalytics(p) ==
    IF ~Opt("resize") THEN p
    ELSE IF AnalyticReady THEN GeneratePVResizeConditions(ProcessProposed(p))
    ELSE With(Without(p, {"PvCapacityAdjustmentRequired"}), {"PvUsageAnalysisFailed"})

-----------------------------------------------------------------------------
(* The pass *)

\* The newest migration that runs or has succeeded decides, a stage migration
\* only while it runs.
Decisive(m) ==
    m.phase = "running" \/ (m.phase = "succeeded" /\ m.kind # "stage")

SuspendedBy(migs) ==
    LET hits == {i \in DOMAIN migs : Decisive(migs[i])}
    IN hits # {} /\ ~RolledBack(migs[CHOOSE i \in hits : \A j \in hits : j <= i])

\* A refresh lifts the suspension for one pass.
PlanSuspended(s) == SuspendedBy(world.migs) /\ ~s.refresh

Requeued == due \/ ("PlanConflict" \in status.conds /\ ~spec.closed)

\* The suffix of the plan is made once.
Suffixed(suffix) ==
    IF status.suffix = 0 THEN suffix \in Randoms ELSE suffix = status.suffix

BeginStaging(at, suffix) ==
    [at |-> at, spec |-> spec, prev |-> status.conds,
     conds |-> (status.conds \cap DurableConditions)
               \cup (IF PlanSuspended(spec) THEN {"Suspended"} ELSE {}),
     type |-> IF status.sticky THEN status.type ELSE "none", sticky |-> status.sticky,
     suffix |-> suffix, reconciled |-> status.reconciled, classes |-> status.classes,
     quiet |-> TRUE, missed |-> FALSE, stale |-> FALSE]

StatusOf(p, conds, reconciled) ==
    [conds |-> conds, type |-> p.type, sticky |-> p.sticky, suffix |-> p.suffix,
     reconciled |-> reconciled, classes |-> p.classes]

Begin ==
    /\ pass.at = "none" /\ Requeued
    /\ ~spec.closed
    /\ \E suffix \in Randoms :
          /\ Suffixed(suffix)
          /\ pass' = BeginStaging("validate", suffix)
    /\ due' = FALSE
    /\ UNCHANGED <<setup, spec, status, world, quiet, missed, ghost, spent>>

Goes(p, at) == pass' = [p EXCEPT !.at = at]

StepValidate ==
    /\ pass.at = "validate" /\ \A s \in Sides : Resolved(s)
    /\ Goes(Validate(pass), "discover")
    /\ world' = IF Opt("resize") THEN [world EXCEPT !.analytic = EnsureMigAnalytics(pass)] ELSE world
    /\ UNCHANGED <<setup, spec, status, due, quiet, missed, ghost, spent>>

StepDiscover ==
    /\ pass.at = "discover"
    /\ Goes(ValidatePvSelections(NfsValidation(UpdatePvs(pass))), "store")
    /\ UNCHANGED <<setup, spec, status, world, due, quiet, missed, ghost, spent>>

StepStore ==
    /\ pass.at = "store"
    /\ world' = [world EXCEPT !.held = Ensured(pass)]
    /\ Goes(EnsureStorage(pass), "finish")
    /\ UNCHANGED <<setup, spec, status, due, quiet, missed, ghost, spent>>

Required(p) == {"PvsDiscovered"} \cup (IF Conversion(p) THEN {} ELSE {"StorageEnsured"})

ReadyCond(p) ==
    IF Required(p) \subseteq p.conds /\ ~HasBlocker(p.conds) THEN {"Ready"} ELSE {}

\* What the user has chosen is remembered as long as the volume is listed.
StillChosen(pvs) == [v \in DOMAIN ghost.chosen \cap DOMAIN pvs |-> ghost.chosen[v]]

CommitKeepsRefresh(p) ==   \* mutant: the refresh is not taken back
    IF p.stale
    THEN /\ due' = TRUE
         /\ UNCHANGED <<spec, status, quiet, missed, ghost>>
    ELSE /\ spec' = p.spec
         /\ status' = StatusOf(p, p.conds \cup ReadyCond(p), TRUE)
         /\ due' = (due \/ spec' # spec)
         /\ quiet' = p.quiet /\ missed' = p.missed
         /\ ghost' = [ghost EXCEPT !.chosen = StillChosen(p.spec.pvs)]

\* The update of the plan, refused when somebody else has written it.
Commit(p) ==
    IF p.stale
    THEN /\ due' = TRUE
         /\ UNCHANGED <<spec, status, quiet, missed, ghost>>
    ELSE /\ spec' = [p.spec EXCEPT !.refresh = FALSE]
         /\ status' = StatusOf(p, p.conds \cup ReadyCond(p), TRUE)
         /\ due' = (due \/ spec' # spec)
         /\ quiet' = p.quiet /\ missed' = p.missed
         /\ ghost' = [ghost EXCEPT !.chosen = StillChosen(p.spec.pvs)]

StepFinish ==
    /\ pass.at = "finish"
    /\ Opt("resize") => AnalyticReady \/ AnalyticGivenUp
    /\ Commit(CheckAnalytics(pass))
    /\ pass' = NoPass
    /\ UNCHANGED <<setup, world, spent>>

\* Without the analysis the pass is dropped, nothing of it is written.
StepNotAnalyzed ==
    /\ pass.at = "finish" /\ Opt("resize") /\ ~AnalyticReady /\ ~AnalyticGivenUp
    /\ pass' = NoPass /\ due' = TRUE
    /\ UNCHANGED <<setup, spec, status, world, quiet, missed, ghost, spent>>

\* The plan is told of the error with what the pass has made of it so far;
\* what has not been staged by then is gone.
WriteFailure(p) ==
    IF p.stale THEN UNCHANGED <<spec, status, ghost>>
    ELSE /\ spec' = p.spec
         /\ status' = StatusOf(p, (p.conds \ {"Ready"}) \cup {"ReconcileFailed"},
                               p.reconciled /\ p.spec = spec)
         /\ ghost' = [ghost EXCEPT !.chosen = StillChosen(p.spec.pvs)]

\* A reference that leads nowhere is an error of every pass.
StepUnresolved ==
    /\ pass.at = "validate" /\ \E s \in Sides : ~Resolved(s)
    /\ WriteFailure(Validate(pass))
    /\ pass' = NoPass /\ due' = TRUE
    /\ UNCHANGED <<setup, world, quiet, missed, spent>>

\* A call to the API server or to a cluster fails.
Error ==
    /\ pass.at \in {"validate", "discover", "store"}
    /\ Spend("fault")
    /\ WriteFailure(pass)
    /\ IF pass.at = "store" /\ Ensures(pass) /\ StorageFound
       THEN \E s \in {t \in Sides : Reachable(t)} : \E h \in PartlyEnsured(world.held[s]) :
               world' = [world EXCEPT !.held[s] = h]
       ELSE UNCHANGED world
    /\ pass' = NoPass /\ due' = TRUE
    /\ UNCHANGED <<setup, quiet, missed>>

\* The controller restarts: every plan is queued.
Crash ==
    /\ pass.at # "none"
    /\ Spend("fault")
    /\ pass' = NoPass /\ due' = TRUE
    /\ UNCHANGED <<setup, spec, status, world, quiet, missed, ghost>>

-----------------------------------------------------------------------------
(* Closing *)

\* A closed plan is told that it is not ready, then cleaned up; one that is
\* marked as closed is left alone.
BeginClosed ==
    /\ pass.at = "none" /\ Requeued /\ spec.closed
    /\ due' = FALSE
    /\ IF "Closed" \in status.conds THEN UNCHANGED <<status, pass>>
       ELSE /\ status' = [status EXCEPT !.conds = @ \ {"Ready"}, !.reconciled = TRUE]
            /\ pass' = [BeginStaging("closing", status.suffix)
                          EXCEPT !.conds = status'.conds, !.reconciled = TRUE,
                                 !.type = status.type]
    /\ UNCHANGED <<setup, spec, world, quiet, missed, ghost, spent>>

Nothing == [bsl |-> 0, vsl |-> 0, secret |-> 0]

DeleteSource ==   \* mutant: the destination is forgotten
    [world.held EXCEPT !["Source"] = IF Reachable("Source") THEN Nothing ELSE @]

\* What is deleted on the clusters that are ready.
DeleteResources == [s \in Sides |-> IF Reachable(s) THEN Nothing ELSE world.held[s]]

EnsureClosed ==
    /\ pass.at = "closing"
    /\ world' = [world EXCEPT !.held = DeleteResources]
    /\ IF pass.stale THEN due' = TRUE /\ UNCHANGED <<status, ghost>>
       ELSE /\ status' = StatusOf(pass, (pass.conds \ {"StorageEnsured", "Suspended"})
                                          \cup {"Closed"}, TRUE)
            /\ ghost' = [ghost EXCEPT !.unreached = {s \in Sides : ~Reachable(s)},
                                      !.reopened = FALSE]
            /\ UNCHANGED due
    /\ pass' = NoPass
    /\ UNCHANGED <<setup, spec, quiet, missed, spent>>

\* An error of closing finds no staged conditions, the durable ones included.
CloseError ==
    /\ pass.at = "closing"
    /\ Spend("fault")
    /\ \E S \in SUBSET {s \in Sides : Reachable(s)} :
          world' = [world EXCEPT !.held = [s \in Sides |-> IF s \in S THEN Nothing ELSE @[s]]]
    /\ status' = IF pass.stale THEN status
                 ELSE [status EXCEPT !.conds = {"ReconcileFailed"}, !.type = "none",
                                     !.sticky = FALSE]
    /\ pass' = NoPass /\ due' = TRUE
    /\ UNCHANGED <<setup, spec, quiet, missed, ghost>>

-----------------------------------------------------------------------------
(* The world around a pass *)

Seen(enqueue, edit) ==
    pass' = IF pass.at = "none" THEN pass
            ELSE [pass EXCEPT !.quiet = FALSE, !.missed = @ \/ ~enqueue, !.stale = @ \/ edit]

\* An edit of the plan: the pass under way will be refused.
Edited ==
    /\ Spend("edit") /\ Disturb(TRUE) /\ Seen(TRUE, TRUE)
    /\ status' = [status EXCEPT !.reconciled = FALSE]
    /\ UNCHANGED <<setup, world>>

EditRefresh ==
    /\ ~spec.refresh /\ ~spec.closed
    /\ spec' = [spec EXCEPT !.refresh = TRUE]
    /\ Edited /\ UNCHANGED ghost

EditSelection ==
    /\ \E v \in DOMAIN spec.pvs, c \in setup.choices :
          /\ c # spec.pvs[v].sel
          /\ spec' = [spec EXCEPT !.pvs[v].sel = c]
          /\ ghost' = [ghost EXCEPT !.chosen =
                                   [w \in {v} \cup DOMAIN @ |-> IF w = v THEN c ELSE @[w]]]
    /\ Edited

\* A name of one's own; a storage conversion has names of its own.
EditName ==
    /\ status.type # "conversion" /\ setup.choices # {}
    /\ \E v \in DOMAIN spec.pvs :
          /\ spec.pvs[v].target = SourceName
          /\ spec' = [spec EXCEPT !.pvs[v].target = UserName]
    /\ Edited /\ UNCHANGED ghost

EditConfirm ==
    /\ Opt("resize")
    /\ \E v \in DOMAIN spec.pvs :
          /\ ~spec.pvs[v].confirmed /\ spec.pvs[v].proposed > 0
          /\ spec' = [spec EXCEPT !.pvs[v].confirmed = TRUE]
    /\ Edited /\ UNCHANGED ghost

EditNamespaces ==
    /\ \E v \in Vols : setup.vols[v].ns \notin spec.ns
    /\ spec' = [spec EXCEPT !.ns = {setup.vols[v].ns : v \in Vols}]
    /\ Edited /\ UNCHANGED ghost

EditClosed ==
    /\ spec' = [spec EXCEPT !.closed = ~@]
    /\ ghost' = [ghost EXCEPT !.reopened = @ \/ spec.closed]
    /\ Edited

Changed(enqueue, edit) ==
    /\ Spend("change") /\ Disturb(enqueue) /\ Seen(enqueue, edit)
    /\ UNCHANGED <<setup, spec, status, ghost>>

\* Clusters and storage are watched.
ChangeCluster ==
    /\ \E s \in Sides, st \in setup.states :
          /\ (world.cluster[s] = "ok") # (st = "ok")
          /\ world' = [world EXCEPT !.cluster = IF setup.intra THEN [t \in Sides |-> st]
                                                ELSE [@ EXCEPT ![s] = st]]
    /\ Changed(TRUE, FALSE)

ChangeStorage ==
    /\ \/ \E st \in setup.states \ {"noregistry"} :
             /\ (world.storage = "ok") # (st = "ok")
             /\ world' = [world EXCEPT !.storage = st]
       \/ /\ "ok" \in setup.states /\ world.version < 2
          /\ world' = [world EXCEPT !.version = @ + 1]
    /\ Changed(TRUE, FALSE)

\* Of the plan itself, and of what it refers to; the rest of the clusters is
\* not watched.
PlanFlaws == {"nsLimit", "nsLong", "nsDuplicate", "nsBadName", "hookAccount", "hookNamespace",
              "hookPhase", "hookTwice", "resources"}
WatchedFlaws == PlanFlaws \cup {"hookMissing", "hookNotReady", "versions"}

ChangeFlaw ==
    \E f \in setup.flaws :
        /\ world' = [world EXCEPT !.flaws = (@ \ {f}) \cup ({f} \ @)]
        /\ Changed(f \in WatchedFlaws, f \in PlanFlaws)

ChangeVolume ==
    /\ \E v \in Vols, mood \in setup.moods :
          /\ mood # world.vols[v]
          /\ mood.pods # "running" => setup.vols[v].kind = "sts"
          /\ world' = [world EXCEPT !.vols[v] = mood]
    /\ Changed(FALSE, FALSE)

ChangeRival ==
    /\ \E r \in setup.rival : r # world.rival /\ world' = [world EXCEPT !.rival = r]
    /\ Changed(FALSE, FALSE)

\* A migration starts and goes on only while the plan is ready.
PlanReady == "Ready" \in status.conds

CreateMigration ==
    /\ Spend("mig")
    /\ \E k \in setup.migs :
          world' = [world EXCEPT !.migs = Append(@, [kind |-> k, phase |-> "new"])]
    /\ Disturb(FALSE) /\ Seen(FALSE, FALSE)
    /\ UNCHANGED <<setup, spec, status, ghost>>

RunMigration ==
    /\ PlanReady
    /\ \A i \in DOMAIN world.migs : world.migs[i].phase # "running"
    /\ \E i \in DOMAIN world.migs :
          /\ world.migs[i].phase = "new"
          /\ world' = [world EXCEPT !.migs[i].phase = "running"]
    /\ Disturb(TRUE) /\ Seen(TRUE, FALSE)
    /\ UNCHANGED <<setup, spec, status, ghost, spent>>

EndMigration ==
    /\ PlanReady
    /\ \E i \in DOMAIN world.migs, phase \in {"succeeded", "failed"} :
          /\ world.migs[i].phase = "running"
          /\ world' = [world EXCEPT !.migs[i].phase = phase]
    /\ Disturb(TRUE) /\ Seen(TRUE, FALSE)
    /\ UNCHANGED <<setup, spec, status, ghost, spent>>

Analyzing == world.analytic.state = "busy" \/ world.analytic.refresh

\* The analytic controller, external to this module.
Analyze ==
    /\ Analyzing
    /\ \E size \in 0..2 :
          world' = [world EXCEPT !.analytic = [state |-> "ready", refresh |-> FALSE,
                                               late |-> FALSE, size |-> size]]
    /\ UNCHANGED <<setup, spec, status, pass, due, quiet, missed, ghost, spent>>

AnalyzeFails ==
    /\ Analyzing /\ Spend("fault")
    /\ world' = [world EXCEPT !.analytic.state = "failed"]
    /\ UNCHANGED <<setup, spec, status, pass, due, quiet, missed, ghost>>

AnalyzeLate ==
    /\ Analyzing /\ ~world.analytic.late
    /\ world' = [world EXCEPT !.analytic.late = TRUE]
    /\ UNCHANGED <<setup, spec, status, pass, due, quiet, missed, ghost, spent>>

Course ==
    Begin \/ StepValidate \/ StepUnresolved \/ StepDiscover \/ StepStore \/ StepFinish
    \/ StepNotAnalyzed \/ BeginClosed \/ EnsureClosed

Next ==
    \/ Course \/ Error \/ CloseError \/ Crash
    \/ EditRefresh \/ EditSelection \/ EditName \/ EditConfirm \/ EditNamespaces \/ EditClosed
    \/ ChangeCluster \/ ChangeStorage \/ ChangeFlaw \/ ChangeVolume \/ ChangeRival
    \/ CreateMigration \/ RunMigration \/ EndMigration
    \/ Analyze \/ AnalyzeFails \/ AnalyzeLate

Spec == Init /\ [][Next]_vars

\* Course is enabled exactly then.
Moves == pass.at # "none" \/ Requeued

\* The queue hands the plan to the worker, weakly fair, and an analysis ends
\* or is late.
FairSpec == /\ Spec
            /\ []<>~Moves \/ []<><<Course>>_vars
            /\ WF_vars(AnalyzeLate)

-----------------------------------------------------------------------------
(* Properties *)

PvRecords ==
    [sel : Selections,
     target : [base : {"source", "user"}, inner : {0} \cup Randoms, tail : {0} \cup Randoms],
     actions : SUBSET Actions, confirmed : BOOLEAN, proposed : 0..2]

\* TypeOK: the types of the variables; a plan is not ready and failed at once.
TypeOK ==
    /\ spec.ns \subseteq {setup.vols[v].ns : v \in Vols}
    /\ spec.refresh \in BOOLEAN /\ spec.closed \in BOOLEAN
    /\ DOMAIN spec.pvs \subseteq Vols
    /\ \A v \in DOMAIN spec.pvs : spec.pvs[v] \in PvRecords
    /\ status.type \in Types /\ status.sticky \in BOOLEAN /\ status.reconciled \in BOOLEAN
    /\ status.suffix \in {0} \cup Randoms
    /\ {"Ready", "ReconcileFailed"} \subseteq status.conds => FALSE
    /\ pass.at \in {"none", "validate", "discover", "store", "finish", "closing"}
    /\ \A i \in DOMAIN world.migs : world.migs[i].kind \in MigKinds
    /\ \A s \in Sides, k \in {"bsl", "vsl", "secret"} : world.held[s][k] \in 0..2

\* Facts that forbid a migration, told without the order the code looks at
\* them.  A plan for a part of the application needs no registry, a storage
\* conversion no storage.
Partial == status.type \in {"state", "conversion"}

BlockingFlaws ==
    {"nsLimit", "nsMissing", "veleroMissing", "nsDuplicate", "nsBadName", "proxy", "resources",
     "hookMissing", "hookAccount", "hookNamespace", "hookNotReady", "hookPhase", "hookTwice"}

Chosen(pv) == pv.sel.action = "copy"

Blocked ==
    \/ \E s \in Sides : world.cluster[s] \in {"unset", "missing", "notready"}
    \/ ~Opt("indirectImages") /\ ~Partial /\ \E s \in Sides : world.cluster[s] = "noregistry"
    \/ status.type # "conversion" /\ world.storage # "ok"
    \/ world.flaws \cap BlockingFlaws # {} \/ spec.ns = {}
    \/ world.rival = "same"
    \/ \E v \in DOMAIN spec.pvs :
          LET pv == spec.pvs[v] IN
          \/ pv.sel.action \notin SupportedActions(v)
          \/ pv.sel.action = "move" /\ setup.vols[v].disk = "nfs" /\ Flaw("nfsDown")
                                    /\ ~Flaw("noVeleroPod")
          \/ Chosen(pv) /\ pv.sel.class # "" /\ pv.sel.class \notin DestClasses
          \/ Chosen(pv) /\ pv.sel.class # "" /\ pv.sel.mode = "bad"
          \/ Chosen(pv) /\ pv.sel.method \notin {"filesystem", "block", "snapshot"}
    \/ Flaw("noVeleroPod") /\ ~Opt("hostDestination")
    \/ setup.intra /\ Opt("indirectVolumes")
    \/ /\ setup.intra /\ ~Opt("indirectImages")
       /\ spec.ns \cap setup.mapped \notin {{}, spec.ns}
       /\ status.type # "state"
    \/ /\ status.type = "conversion"
       /\ \/ Cardinality(DestClasses) < 2
          \/ \A v \in DOMAIN spec.pvs : spec.pvs[v].sel.action = "skip"

StoredSuspended == "Suspended" \in status.conds

\* ReadyIsJustified: when nothing has changed since the pass that called the
\* plan ready began, nothing forbids a migration, and both clusters hold the
\* storage locations and credentials as the storage is now (migplan_controller
\* .go:331-341).  A suspended plan is not looked at that closely.
ReadyIsJustified ==
    quiet /\ PlanReady /\ ~StoredSuspended =>
        /\ ~Blocked
        /\ status.type # "conversion" =>
              \A s \in Sides, k \in {"bsl", "vsl", "secret"} : world.held[s][k] = world.version

\* A claim of a StatefulSet whose pod has not started has one name where the
\* volumes are looked up and another where the claims are: it is left out.
Unnamed(v) ==
    /\ status.type = "conversion" /\ setup.vols[v].kind = "sts"
    /\ world.vols[v].pods = "pending"
    /\ v \in DOMAIN spec.pvs => spec.pvs[v].target.base = "source"

\* VolumesListed: the list of a ready plan names the volumes bound in its
\* namespaces, no others and none of those a migration has made itself
\* (pvlist.go:103-183).
VolumesListed ==
    quiet /\ PlanReady /\ ~StoredSuspended /\ ~Opt("noClaims") =>
        DOMAIN spec.pvs =
            {v \in Vols : /\ setup.vols[v].ns \in spec.ns /\ world.vols[v].bound
                          /\ setup.vols[v].kind \notin {"temp", "made"}
                          /\ ~(setup.vols[v].kind = "other" /\ status.type = "conversion")
                          /\ ~Unnamed(v)}

\* ChoicesKept: what the user selects for a volume stays selected as long as
\* the volume is listed, through passes that had begun before, fail or are
\* lost (migplan_types.go:943-955).
ChoicesKept ==
    \A v \in DOMAIN ghost.chosen \cap DOMAIN spec.pvs :
        spec.pvs[v].sel = ghost.chosen[v]
        \/ (Cardinality(spec.pvs[v].actions) = 1 /\ spec.pvs[v].sel.action \in spec.pvs[v].actions)

\* NamesKept: the name a storage conversion has given to a claim, by which a
\* later migration finds the copy, never changes while the volume is listed
\* and its pods stay (pvlist.go:249-285).
NamesKept ==
    \A v \in DOMAIN spec.pvs \cap DOMAIN spec'.pvs :
        \/ setup.vols[v].kind = "sts"
        \/ spec.pvs[v].target.tail = 0
        \/ spec'.pvs[v].target = spec.pvs[v].target

\* WorkKept: what the user chose and what the plan named survive every pass.
WorkKept == [][ChoicesKept' /\ NamesKept]_vars

\* ClosedIsClean: a plan marked as closed is not ready and has left nothing on
\* a cluster, except on one that was not ready when it was closed, which is
\* not visited again (migplan_controller.go:390-419).  A plan that is opened
\* and closed again may keep its mark while a pass in between makes its storage
\* locations, which are then never deleted (migplan_controller.go:374-377).
ClosedIsClean ==
    "Closed" \in status.conds /\ spec.closed /\ ~ghost.reopened =>
        /\ ~PlanReady
        /\ \A s \in Sides \ ghost.unreached : world.held[s] = Nothing

\* CleanUpEnsured: once a closed plan is marked and at rest, what it made on the
\* clusters that could be reached is deleted: "Detect that a plan is been closed
\* and ensure all its referenced resources have been cleaned up"
\* (migplan_controller.go:366-367).
CleanUpEnsured ==
    "Closed" \in status.conds /\ spec.closed /\ pass.at = "none" /\ ~Requeued =>
        \A s \in Sides \ ghost.unreached : world.held[s] = Nothing

\* A suspended plan that has lost what discovery found, by a failing pass or
\* by a refresh that found a cluster down: it stays not ready, and the
\* migration that suspends it does not go on, until somebody refreshes it.
Stranded == StoredSuspended /\ ~(Required(status) \subseteq status.conds)

\* A plan that is new, edited or to be refreshed has its volumes analyzed again
\* by every pass, and the pass is dropped unless an analysis ends during it.
AnalyzedAgain == Opt("resize") /\ (spec.refresh \/ ~status.reconciled)

\* Settles: a plan that nothing forbids becomes ready, and its refresh is
\* served, unless something has changed that no watch reports, the plan is
\* stranded, or it waits for an analysis over and over.
Settles ==
    []<>(\/ pass.at = "none" /\ ~due /\ PlanReady /\ ~spec.refresh
         \/ Blocked \/ missed \/ spec.closed \/ Stranded \/ AnalyzedAgain)
=============================================================================

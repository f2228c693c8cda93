------------------------------ MODULE MigPlan_proofs ------------------------------
(***************************************************************************)
(* What is proved of MigPlan: a ready plan is justified and lists its      *)
(* volumes, work is kept, a closed plan is clean.                          *)
(***************************************************************************)
EXTENDS MigPlan, FiniteSetTheorems, TLAPS

Blockers == CriticalConditions \cup ErrorConditions

\* The conditions that validation neither sets nor takes away.
Reserved == {"Suspended", "PvsDiscovered", "StorageEnsured", "Ready", "Closed"}

\* The conditions a pass may take back.
Shed == {"NamespacesHaveNodeSelectors", "PvUsageAnalysisFailed", "PvCapacityAdjustmentRequired"}

\* The others, which only say something.
Notes ==
    {"NamespaceLengthExceeded", "NamespacePermissions", "PodLimitExceeded",
     "NamespacesHaveNodeSelectors", "SourcePodsNotHealthy", "GVKsIncompatible",
     "ClusterVersionMismatch", "KubeVirtNotInstalled", "KubeVirtVersionNotSupported",
     "KubeVirtStorageLiveMigrationNotEnabled", "PvNoSupportedAction",
     "PvNoStorageClassSelection", "PvWarnAccessModeUnavailable", "PvWarnCopyMethodSnapshot",
     "PvWarnNoCephAvailable", "PvLimitExceeded", "NfsNotAccessible", "PvUsageAnalysisFailed",
     "PvCapacityAdjustmentRequired"}

CondTypes == Blockers \cup Reserved \cup Notes

\* What a validation may set.
Sayable == Blockers \cup Notes

-----------------------------------------------------------------------------
(* The invariant *)

PvMaps == UNION {[S -> PvRecords] : S \in SUBSET Vols}

Specs == [ns : SUBSET STRING, refresh : BOOLEAN, closed : BOOLEAN, pvs : PvMaps]

Statuses ==
    [conds : SUBSET CondTypes, type : Types, sticky : BOOLEAN, suffix : {0} \cup Randoms,
     reconciled : BOOLEAN, classes : SUBSET StorageClasses]

Passes ==
    [at : {"validate", "discover", "store", "finish", "closing"}, spec : Specs,
     prev : SUBSET CondTypes, conds : SUBSET CondTypes, type : Types, sticky : BOOLEAN,
     suffix : {0} \cup Randoms, reconciled : BOOLEAN, classes : SUBSET StorageClasses,
     quiet : BOOLEAN, missed : BOOLEAN, stale : BOOLEAN]

Worlds ==
    [cluster : [Sides -> ClusterStates], storage : StorageStates, version : Nat,
     flaws : SUBSET setup.flaws, rival : {"none"} \cup setup.rival,
     migs : Seq([kind : MigKinds, phase : {"new", "running", "succeeded", "failed"}]),
     vols : [Vols -> Moods], held : [Sides -> [bsl : Nat, vsl : Nat, secret : Nat]],
     analytic : [state : {"none", "busy", "ready", "failed"}, refresh : BOOLEAN,
                 late : BOOLEAN, size : 0..2]]

Typed ==
    /\ setup \in Setups
    /\ spec \in Specs
    /\ status \in Statuses
    /\ world \in Worlds
    /\ pass = NoPass \/ pass \in Passes
    /\ quiet \in BOOLEAN
    /\ ghost.chosen \in UNION {[S -> Selections] : S \in SUBSET Vols}
    /\ ghost \in [chosen : {ghost.chosen}, unreached : SUBSET Sides, reopened : BOOLEAN]

\* What validation has found in order, of a plan of this type with these namespaces.
Sound(type, ns) ==
    /\ \A s \in Sides : Reachable(s)
    /\ Opt("indirectImages") \/ type \in {"state", "conversion"}
       \/ \A s \in Sides : world.cluster[s] # "noregistry"
    /\ type = "conversion" \/ world.storage = "ok"
    /\ world.flaws \cap BlockingFlaws = {}
    /\ ns # {}
    /\ world.rival # "same"
    /\ ~(setup.intra /\ Opt("indirectVolumes"))
    /\ setup.intra /\ ~Opt("indirectImages") /\ ns \cap setup.mapped \notin {{}, ns} =>
          type = "state"

\* A volume that may be migrated as it was selected.
Good(v, pv) ==
    /\ pv.sel.action \in SupportedActions(v)
    /\ pv.sel.action = "move" /\ setup.vols[v].disk = "nfs" /\ Flaw("nfsDown")
          => Flaw("noVeleroPod")
    /\ pv.sel.action = "copy" =>
          /\ pv.sel.class # "" => pv.sel.class \in DestClasses /\ pv.sel.mode # "bad"
          /\ pv.sel.method \in {"filesystem", "block", "snapshot"}

\* The volumes a plan lists, given the names its list has for them.
Due(type, ns, pvs) ==
    {v \in Vols : /\ setup.vols[v].ns \in ns /\ world.vols[v].bound
                  /\ setup.vols[v].kind \notin {"temp", "made"}
                  /\ ~(setup.vols[v].kind = "other" /\ type = "conversion")
                  /\ ~(/\ type = "conversion" /\ setup.vols[v].kind = "sts"
                       /\ world.vols[v].pods = "pending"
                       /\ v \in DOMAIN pvs => pvs[v].target.base = "source")}

\* What the discovery of volumes has found in order.
Listing(type, ns, pvs) ==
    /\ \A v \in DOMAIN pvs : Good(v, pvs[v])
    /\ Flaw("noVeleroPod") => Opt("hostDestination")
    /\ type = "conversion" =>
          /\ ~(Cardinality(DestClasses) < 2)
          /\ \E v \in DOMAIN pvs : pvs[v].sel.action # "skip"
    /\ ~Opt("noClaims") => DOMAIN pvs = Due(type, ns, pvs)

Stocked == \A s \in Sides, k \in {"bsl", "vsl", "secret"} : world.held[s][k] = world.version

\* A pass that nothing has disturbed, of a plan that is not suspended.
Fresh == pass # NoPass /\ pass.at # "closing" /\ pass.quiet /\ ~Suspended(pass)
         /\ ~HasBlocker(pass.conds)

Passing ==
    Fresh =>
        /\ pass.at \in {"discover", "store", "finish"} => Sound(pass.type, pass.spec.ns)
        /\ pass.at \in {"store", "finish"} /\ "PvsDiscovered" \in pass.conds =>
              Listing(pass.type, pass.spec.ns, pass.spec.pvs)
        /\ pass.at = "finish" /\ "StorageEnsured" \in pass.conds => Stocked

\* What a pass may not find among its conditions yet.
Staging ==
    pass # NoPass =>
        /\ pass.at \in {"validate", "discover"} => "PvsDiscovered" \notin pass.conds
        /\ pass.at \in {"validate", "discover", "store"} => "StorageEnsured" \notin pass.conds
        /\ "Ready" \notin pass.conds /\ "Closed" \notin pass.conds
        /\ pass.at # "closing" => pass.suffix \in Randoms

Justified ==
    quiet /\ PlanReady /\ ~StoredSuspended =>
        /\ Sound(status.type, spec.ns)
        /\ Listing(status.type, spec.ns, spec.pvs)
        /\ status.type # "conversion" => Stocked

Closing ==
    /\ pass # NoPass /\ pass.at = "closing" =>
          /\ "Ready" \notin status.conds /\ "Closed" \notin status.conds
          /\ ~pass.stale => spec.closed
    /\ pass # NoPass /\ pass.at # "closing" /\ spec.closed => pass.stale
    /\ "Closed" \in status.conds => "Ready" \notin status.conds
    /\ "Closed" \in status.conds /\ ~ghost.reopened =>
          /\ spec.closed /\ pass = NoPass
          /\ \A s \in Sides \ ghost.unreached : world.held[s] = Nothing

\* What the user selected is what is stored, and what an undisturbed pass has.
Forced(pv) == Cardinality(pv.actions) = 1 /\ pv.sel.action \in pv.actions
Kept(pvs) ==
    /\ DOMAIN ghost.chosen \subseteq DOMAIN spec.pvs
    /\ \A v \in DOMAIN ghost.chosen \cap DOMAIN pvs :
          pvs[v].sel = ghost.chosen[v] \/ Forced(pvs[v])
Offered(pvs) ==
    \A v \in DOMAIN pvs :
        pvs[v].actions \in {SupportedActions(v), SupportedActions(v) \ {"move"}}
Tails(pvs, suffix) == \A v \in DOMAIN pvs : pvs[v].target.tail \in {0, suffix}
SameNames(pvs) ==
    \A v \in DOMAIN spec.pvs \cap DOMAIN pvs :
        \/ setup.vols[v].kind = "sts"
        \/ spec.pvs[v].target.tail = 0
        \/ pvs[v].target = spec.pvs[v].target

Working ==
    /\ Kept(spec.pvs) /\ Offered(spec.pvs) /\ Tails(spec.pvs, status.suffix)
    /\ pass # NoPass =>
          /\ Offered(pass.spec.pvs) /\ Tails(pass.spec.pvs, pass.suffix)
          /\ pass.suffix = status.suffix \/ (status.suffix = 0 /\ pass.at # "closing")
          /\ ~pass.stale /\ pass.at \in {"validate", "discover", "closing"} => pass.spec = spec
          /\ ~pass.stale => Kept(pass.spec.pvs) /\ SameNames(pass.spec.pvs)

IInv == Typed /\ Passing /\ Staging /\ Justified /\ Closing /\ Working

-----------------------------------------------------------------------------
(* Conditions *)

\* Every side has its own type of condition.
LEMMA SideFacts ==
    /\ Sides = {"Source", "Destination"}
    /\ InvalidRef["Source"] = "InvalidSourceClusterRef"
    /\ InvalidRef["Destination"] = "InvalidDestinationClusterRef"
    /\ NotReady["Source"] = "SourceClusterNotReady"
    /\ NotReady["Destination"] = "DestinationClusterNotReady"
    /\ NoRegistry["Source"] = "SourceClusterNoRegistryPath"
    /\ NoRegistry["Destination"] = "DestinationClusterNoRegistryPath"
    /\ BadProxy["Source"] = "SourceClusterProxySecretMisconfigured"
    /\ BadProxy["Destination"] = "DestinationClusterProxySecretMisconfigured"
    /\ NsDuplicate["Source"] = "DuplicateNamespaceOnSourceCluster"
    /\ NsDuplicate["Destination"] = "DuplicateNamespaceOnDestinationCluster"
    /\ NsNotFound["Source"] = "NamespaceNotFoundOnSourceCluster"
    /\ NsNotFound["Destination"] = "NamespaceNotFoundOnDestinationCluster"
BY DEF Sides, InvalidRef, NotReady, NoRegistry, BadProxy, NsDuplicate, NsNotFound

SideTypes ==
    {"InvalidSourceClusterRef", "InvalidDestinationClusterRef", "SourceClusterNotReady",
     "DestinationClusterNotReady", "SourceClusterNoRegistryPath",
     "DestinationClusterNoRegistryPath", "SourceClusterProxySecretMisconfigured",
     "DestinationClusterProxySecretMisconfigured", "DuplicateNamespaceOnSourceCluster",
     "DuplicateNamespaceOnDestinationCluster", "NamespaceNotFoundOnSourceCluster",
     "NamespaceNotFoundOnDestinationCluster"}

PlanTypes ==
    {"InvalidStorageRef", "StorageNotReady", "NamespaceListEmpty", "NamespaceLimitExceeded",
     "NamespaceNotDNSCompliant", "IntraClusterMigration", "InvalidResourceList",
     "InvalidHookRef", "InvalidHookSAName", "InvalidHookNSName", "HookNotReady",
     "HookPhaseUnknown", "HookPhaseDuplicate", "StorageClassConversionUnavailable",
     "ReconcileFailed"}

\* What OfSides makes of the six, and so the critical conditions.
LEMMA CriticalFacts == CriticalConditions = SideTypes \cup PlanTypes
<1>1. \A f : OfSides(f) = {f["Source"], f["Destination"]}
  BY DEF OfSides, Sides
<1>2. \A f, g, h, i, j, k :
        UNION {OfSides(x) : x \in {f, g, h, i, j, k}} =
            OfSides(f) \cup OfSides(g) \cup OfSides(h) \cup OfSides(i) \cup OfSides(j) \cup OfSides(k)
  BY ZenonT(60)
<1>3. UNION {OfSides(f) : f \in {InvalidRef, NotReady, NoRegistry, BadProxy, NsDuplicate, NsNotFound}}
        = SideTypes
  BY <1>1, <1>2, SideFacts DEF SideTypes
<1> QED BY <1>3 DEF CriticalConditions, PlanTypes

\* Blockers are never taken back, and validation sets the rest.
LEMMA BlockerFacts ==
    /\ Blockers = SideTypes \cup PlanTypes \cup ErrorConditions
    /\ Blockers \cap Shed = {} /\ Blockers \cap Reserved = {}
<1>1. Blockers = SideTypes \cup PlanTypes \cup ErrorConditions
  BY CriticalFacts DEF Blockers
<1>2. \A c \in SideTypes : c \notin Shed /\ c \notin Reserved
  BY DEF SideTypes, Shed, Reserved
<1>3. \A c \in PlanTypes : c \notin Shed /\ c \notin Reserved
  BY DEF PlanTypes, Shed, Reserved
<1>4. \A c \in ErrorConditions : c \notin Shed /\ c \notin Reserved
  BY DEF ErrorConditions, Shed, Reserved
<1> QED BY <1>1, <1>2, <1>3, <1>4

\* Nothing that blocks is among the conditions.
Free(conds) == conds \cap Blockers = {}

\* Free says the same as the code's check for what blocks.
LEMMA FreeFacts ==
    ASSUME NEW conds
    PROVE  /\ HasBlocker(conds) <=> ~Free(conds)
           /\ HasCritical(conds) => ~Free(conds)
BY DEF HasBlocker, HasCritical, Free, Blockers

\* q is p with more conditions, but for those a pass may take back.
Adds(p, q) ==
    /\ q \in Passes
    /\ q.at = p.at /\ q.spec = p.spec /\ q.prev = p.prev /\ q.type = p.type
    /\ q.sticky = p.sticky /\ q.suffix = p.suffix /\ q.reconciled = p.reconciled
    /\ q.classes = p.classes /\ q.quiet = p.quiet /\ q.missed = p.missed /\ q.stale = p.stale
    /\ p.conds \ Shed \subseteq q.conds
    /\ q.conds \cap Reserved = p.conds \cap Reserved

\* What adds conditions and blocks nothing had nothing that blocks before.
LEMMA AddsFree == ASSUME NEW p, NEW q, Adds(p, q), Free(q.conds) PROVE Free(p.conds)
BY BlockerFacts DEF Adds, Free

\* Adding twice is adding.
LEMMA AddsTrans ==
    ASSUME NEW p, NEW q, NEW r, Adds(p, q), Adds(q, r)
    PROVE  Adds(p, r)
<1>1. Shed \cap Reserved = {} BY DEF Shed, Reserved
<1> QED BY <1>1 DEF Adds

\* The conditions are those a validation may set and the reserved ones.
LEMMA SayableFacts ==
    /\ CondTypes = Sayable \cup Reserved
    /\ Sayable \cap Reserved = {} /\ Shed \cap Reserved = {}
    /\ Blockers \subseteq Sayable /\ Notes \subseteq Sayable
<1>1. Notes \cap Reserved = {} BY DEF Notes, Reserved
<1>2. Shed \cap Reserved = {} BY DEF Shed, Reserved
<1> QED BY <1>1, <1>2, BlockerFacts DEF CondTypes, Sayable

\* Setting the conditions only.
LEMMA CondsOnly ==
    ASSUME NEW p \in Passes, NEW C \in SUBSET CondTypes
    PROVE  LET q == [p EXCEPT !.conds = C]
           IN  /\ q \in Passes
               /\ q.at = p.at /\ q.spec = p.spec /\ q.prev = p.prev /\ q.type = p.type
               /\ q.sticky = p.sticky /\ q.suffix = p.suffix /\ q.reconciled = p.reconciled
               /\ q.classes = p.classes /\ q.quiet = p.quiet /\ q.missed = p.missed
               /\ q.stale = p.stale /\ q.conds = C
BY DEF Passes

\* A pass adds nothing to itself.
LEMMA SelfAdds == ASSUME NEW p \in Passes PROVE Adds(p, p)
BY DEF Adds

\* The ways the code has to set conditions all add: SetCondition,
LEMMA WithAdds ==
    ASSUME NEW p \in Passes, NEW T \in SUBSET Sayable
    PROVE  Adds(p, With(p, T)) /\ With(p, T).conds = p.conds \cup T
<1>1. p.conds \cup T \in SUBSET CondTypes BY SayableFacts DEF Passes
<1>2. With(p, T) = [p EXCEPT !.conds = p.conds \cup T] BY DEF With
<1>3. T \cap Reserved = {} BY SayableFacts
<1> QED BY <1>1, <1>2, <1>3, CondsOnly DEF Adds

\* DeleteCondition of those a pass may take back,
LEMMA WithoutAdds ==
    ASSUME NEW p \in Passes, NEW T \in SUBSET Shed
    PROVE  Adds(p, Without(p, T)) /\ Without(p, T).conds = p.conds \ T
<1>1. p.conds \ T \in SUBSET CondTypes BY DEF Passes
<1>2. Without(p, T) = [p EXCEPT !.conds = p.conds \ T] BY DEF Without
<1> QED BY <1>1, <1>2, SayableFacts, CondsOnly DEF Adds

\* StageCondition, which keeps what the plan had,
LEMMA StageAdds ==
    ASSUME NEW p \in Passes, NEW T \in SUBSET Sayable
    PROVE  Adds(p, Stage(p, T))
<1>1. T \cap p.prev \in SUBSET Sayable OBVIOUS
<1> QED BY <1>1, WithAdds DEF Stage

\* and a condition set when something is wrong.
LEMMA RaiseAdds ==
    ASSUME NEW p \in Passes, NEW type \in Sayable, NEW when
    PROVE  Adds(p, Raise(p, type, when)) /\ (when => type \in Raise(p, type, when).conds)
<1>1. {type} \in SUBSET Sayable OBVIOUS
<1> QED BY <1>1, WithAdds, SelfAdds DEF Raise

-----------------------------------------------------------------------------
(* Validation: what is wrong with the plan leaves a blocker.                 *)

\* What is said of a side blocks the plan.
LEMMA NameFacts ==
    ASSUME NEW s \in Sides
    PROVE  LET N == {InvalidRef[s], NotReady[s], NoRegistry[s], BadProxy[s], NsDuplicate[s],
                     NsNotFound[s]}
           IN  N \subseteq Sayable /\ N \cap Reserved = {} /\ N \subseteq Blockers
<1> DEFINE N == {InvalidRef[s], NotReady[s], NoRegistry[s], BadProxy[s], NsDuplicate[s],
                 NsNotFound[s]}
<1>1. N \subseteq SideTypes
  <2>1. CASE s = "Source" BY <2>1, SideFacts DEF SideTypes
  <2>2. CASE s = "Destination" BY <2>2, SideFacts DEF SideTypes
  <2> QED BY <2>1, <2>2 DEF Sides
<1> HIDE DEF N
<1>2. N \subseteq Sayable /\ N \cap Reserved = {} /\ N \subseteq Blockers
  BY <1>1, BlockerFacts, SayableFacts
<1> QED BY <1>2 DEF N

\* The state of a cluster that is no cluster to work with.
LEMMA ClusterAdds ==
    ASSUME NEW p \in Passes, NEW s \in Sides, world.cluster[s] \in ClusterStates
    PROVE  LET q == ValidateCluster(p, s) IN
           /\ Adds(p, q)
           /\ world.cluster[s] \in {"unset", "missing"} => InvalidRef[s] \in q.conds
           /\ world.cluster[s] = "notready" => NotReady[s] \in q.conds
           /\ world.cluster[s] = "noregistry" /\ ~Opt("indirectImages") => NoRegistry[s] \in q.conds
<1>1. PICK T : T = [unset |-> {InvalidRef[s]}, missing |-> {InvalidRef[s]},
                    notready |-> {NotReady[s]}, ok |-> {},
                    noregistry |-> IF Opt("indirectImages") THEN {} ELSE {NoRegistry[s]}][world.cluster[s]]
  OBVIOUS
<1>2. ValidateCluster(p, s) = With(p, T) BY <1>1 DEF ValidateCluster
<1>3. /\ world.cluster[s] \in {"unset", "missing"} => T = {InvalidRef[s]}
      /\ world.cluster[s] = "notready" => T = {NotReady[s]}
      /\ world.cluster[s] = "ok" => T = {}
      /\ world.cluster[s] = "noregistry" => T = IF Opt("indirectImages") THEN {} ELSE {NoRegistry[s]}
  <2>1. PICK c : c = world.cluster[s] OBVIOUS
  <2>2. c = "unset" => T = {InvalidRef[s]} BY <1>1, <2>1
  <2>3. c = "missing" => T = {InvalidRef[s]} BY <1>1, <2>1
  <2>4. c = "notready" => T = {NotReady[s]} BY <1>1, <2>1
  <2>5. c = "ok" => T = {} BY <1>1, <2>1
  <2>6. c = "noregistry" => T = IF Opt("indirectImages") THEN {} ELSE {NoRegistry[s]} BY <1>1, <2>1
  <2> QED BY <2>1, <2>2, <2>3, <2>4, <2>5, <2>6
<1>4. world.cluster[s] \in {"unset", "missing", "notready", "ok", "noregistry"}
  BY DEF ClusterStates, StorageStates
<1>5. {InvalidRef[s], NotReady[s], NoRegistry[s]} \subseteq Sayable
  BY NameFacts
<1>6. T \in SUBSET Sayable
  BY <1>3, <1>4, <1>5
<1> QED BY <1>2, <1>3, <1>6, WithAdds

\* t is c with another type; only a partial plan loses a condition.
Retypes(c, t) ==
    /\ t \in Passes
    /\ t.at = c.at /\ t.spec = c.spec /\ t.prev = c.prev
    /\ t.suffix = c.suffix /\ t.reconciled = c.reconciled
    /\ t.classes = c.classes /\ t.quiet = c.quiet /\ t.missed = c.missed /\ t.stale = c.stale
    /\ c.conds \ OfSides(NoRegistry) \subseteq t.conds
    /\ t.type \notin {"state", "conversion"} => c.conds \subseteq t.conds
    /\ t.conds \cap Reserved = c.conds \cap Reserved

\* The conditions about registries are neither reserved nor of another kind.
LEMMA RegistryFacts ==
    /\ OfSides(NoRegistry) = {"SourceClusterNoRegistryPath", "DestinationClusterNoRegistryPath"}
    /\ OfSides(NoRegistry) \cap Reserved = {}
<1>1. OfSides(NoRegistry) = {NoRegistry["Source"], NoRegistry["Destination"]}
  BY DEF OfSides, Sides
<1> QED BY <1>1, SideFacts DEF Reserved

\* Setting the type takes back at most the conditions about registries.
LEMMA SetTypeFacts ==
    ASSUME NEW p \in Passes, NEW type \in Types, NEW sticky \in BOOLEAN
    PROVE  LET q == SetMigrationType(p, type, sticky) IN
           /\ Retypes(p, q) /\ q.type = type
           /\ type \notin {"state", "conversion"} => q.conds = p.conds
<1>1. PICK C : C = IF type \in {"state", "conversion"} THEN p.conds \ OfSides(NoRegistry)
                                                       ELSE p.conds
  OBVIOUS
<1>2. C \in SUBSET CondTypes BY <1>1 DEF Passes
<1>3. SetMigrationType(p, type, sticky) = [p EXCEPT !.type = type, !.sticky = sticky, !.conds = C]
  <2>1. CASE type \in {"state", "conversion"} BY <1>1, <2>1 DEF SetMigrationType
  <2>2. CASE type \notin {"state", "conversion"} BY <1>1, <2>2 DEF SetMigrationType
  <2> QED BY <2>1, <2>2
<1>4. PICK q : q = [p EXCEPT !.type = type, !.sticky = sticky, !.conds = C] OBVIOUS
<1>5. /\ q \in Passes /\ q.type = type /\ q.conds = C
      /\ q.at = p.at /\ q.spec = p.spec /\ q.prev = p.prev
      /\ q.suffix = p.suffix /\ q.reconciled = p.reconciled
      /\ q.classes = p.classes /\ q.quiet = p.quiet /\ q.missed = p.missed /\ q.stale = p.stale
  BY <1>2, <1>4 DEF Passes
<1>6. Retypes(p, q) BY <1>1, <1>5, RegistryFacts DEF Retypes
<1> QED BY <1>1, <1>3, <1>4, <1>5, <1>6

\* The condition about one cluster blocks.
LEMMA IntraFact == {"IntraClusterMigration"} \in SUBSET Sayable
BY BlockerFacts, SayableFacts DEF PlanTypes

\* More conditions after the type has been set.
LEMMA WithRetypes ==
    ASSUME NEW c \in Passes, NEW t, Retypes(c, t), NEW T \in SUBSET Sayable
    PROVE  Retypes(c, With(t, T))
<1>1. Adds(t, With(t, T)) /\ With(t, T).conds = t.conds \cup T
  BY WithAdds DEF Retypes
<1>2. t.conds \cap Reserved = c.conds \cap Reserved /\ T \cap Reserved = {}
  BY SayableFacts DEF Retypes
<1> QED BY <1>1, <1>2 DEF Retypes, Adds

\* A mixed plan on one cluster is told so.
LEMMA TypeFromPlanFacts ==
    ASSUME NEW p \in Passes
    PROVE  LET q == TypeFromPlan(p) IN
           /\ Retypes(p, q)
           /\ setup.intra /\ Mapped(p) \notin {{}, p.spec.ns} =>
                 "IntraClusterMigration" \in q.conds
<1>1. Retypes(p, p) BY DEF Retypes
<1>2. {"IntraClusterMigration"} \in SUBSET Sayable BY IntraFact
<1>3. /\ Retypes(p, With(p, {"IntraClusterMigration"}))
      /\ "IntraClusterMigration" \in With(p, {"IntraClusterMigration"}).conds
  BY <1>1, <1>2, WithRetypes, WithAdds
<1>4. /\ Retypes(p, SetMigrationType(p, "conversion", FALSE))
      /\ Retypes(p, SetMigrationType(p, "state", FALSE))
  BY SetTypeFacts DEF Types
<1> QED BY <1>1, <1>3, <1>4 DEF TypeFromPlan

\* A type set twice.
LEMMA RetypesTrans ==
    ASSUME NEW p, NEW q, NEW r, Retypes(p, q), q.conds = p.conds, Retypes(q, r)
    PROVE  Retypes(p, r)
BY DEF Retypes

\* The type a plan gets, and what is said when there is none for it.
LEMMA PossibleTypesFacts ==
    ASSUME NEW p \in Passes
    PROVE  LET q == ValidatePossibleMigrationTypes(p) IN
           /\ Retypes(p, q)
           /\ setup.intra /\ Opt("indirectVolumes") => "IntraClusterMigration" \in q.conds
           /\ setup.intra /\ ~Opt("indirectImages") /\ Mapped(p) \notin {{}, p.spec.ns} =>
                 "IntraClusterMigration" \in q.conds \/ q.type = "state"
<1> DEFINE storage == setup.intra /\ Mapped(p) = {}
<1> DEFINE q == ValidatePossibleMigrationTypes(p)
<1> DEFINE none == SetMigrationType(p, "none", FALSE)
<1> DEFINE whole == SetMigrationType(p, "namespace", TRUE)
<1> DEFINE plain == SetMigrationType(p, "namespace", FALSE)
<1>0. {"none", "namespace", "state", "conversion"} = Types BY DEF Types
<1>1. CASE Opt("indirectImages") \/ Opt("indirectVolumes")
  <2>1. q = Raise(plain, "IntraClusterMigration", setup.intra /\ Opt("indirectVolumes"))
    BY <1>1 DEF ValidatePossibleMigrationTypes
  <2>2. Retypes(p, plain) BY <1>0, SetTypeFacts
  <2>3. {"IntraClusterMigration"} \in SUBSET Sayable BY IntraFact
  <2> HIDE DEF plain, q
  <2>4. CASE setup.intra /\ Opt("indirectVolumes")
    <3>1. q = With(plain, {"IntraClusterMigration"}) BY <2>1, <2>4 DEF Raise
    <3>2. plain \in Passes BY <2>2 DEF Retypes
    <3>3. Retypes(p, q) /\ "IntraClusterMigration" \in q.conds
      <4>2. Retypes(p, q) BY <3>1, <2>2, <2>3, WithRetypes
      <4>3. q.conds = plain.conds \cup {"IntraClusterMigration"} BY <3>1, <3>2, <2>3, WithAdds
      <4> QED BY <4>2, <4>3
    <3> QED BY <3>3 DEF q
  <2>5. CASE ~(setup.intra /\ Opt("indirectVolumes"))
    <3>1. q = plain BY <2>1, <2>5 DEF Raise
    <3> QED BY <3>1, <2>2, <1>1, <2>5 DEF q
  <2> QED BY <2>4, <2>5
<1>2. CASE ~(Opt("indirectImages") \/ Opt("indirectVolumes")) /\ world.migs = <<>>
  <2>1. q = TypeFromPlan(p) BY <1>2 DEF ValidatePossibleMigrationTypes
  <2> QED BY <2>1, <1>2, TypeFromPlanFacts
<1>3. CASE /\ ~(Opt("indirectImages") \/ Opt("indirectVolumes")) /\ world.migs # <<>>
           /\ RolledBack(Last(world.migs))
  <2>1. q = TypeFromPlan(none) BY <1>3 DEF ValidatePossibleMigrationTypes
  <2>2. Retypes(p, none) /\ none.conds = p.conds BY <1>0, SetTypeFacts
  <2>3. none \in Passes /\ none.spec = p.spec /\ Mapped(none) = Mapped(p)
    BY <2>2 DEF Retypes, Mapped
  <2> HIDE DEF none
  <2>4. /\ Retypes(none, q)
        /\ setup.intra /\ Mapped(p) \notin {{}, p.spec.ns} => "IntraClusterMigration" \in q.conds
    BY <2>1, <2>3, TypeFromPlanFacts
  <2> QED BY <2>2, <2>4, <1>3, RetypesTrans
<1>4. CASE /\ ~(Opt("indirectImages") \/ Opt("indirectVolumes")) /\ world.migs # <<>>
           /\ ~RolledBack(Last(world.migs)) /\ {i \in DOMAIN world.migs : world.migs[i].kind = "state"} # {}
  <2>1. q = SetMigrationType(p, IF storage THEN "conversion" ELSE "state", TRUE)
    BY <1>4 DEF ValidatePossibleMigrationTypes
  <2>2. Retypes(p, q) /\ q.type = IF storage THEN "conversion" ELSE "state"
    <3>1. (IF storage THEN "conversion" ELSE "state") \in Types BY <1>0
    <3> QED BY <2>1, <3>1, SetTypeFacts
  <2> QED BY <2>2, <1>4
<1>5. CASE /\ ~(Opt("indirectImages") \/ Opt("indirectVolumes")) /\ world.migs # <<>>
           /\ ~RolledBack(Last(world.migs)) /\ {i \in DOMAIN world.migs : world.migs[i].kind = "state"} = {}
  <2>1. q = TypeFromPlan(whole) BY <1>5 DEF ValidatePossibleMigrationTypes
  <2>2. Retypes(p, whole) /\ whole.conds = p.conds BY <1>0, SetTypeFacts
  <2>3. whole \in Passes /\ whole.spec = p.spec /\ Mapped(whole) = Mapped(p)
    BY <2>2 DEF Retypes, Mapped
  <2> HIDE DEF whole
  <2>4. /\ Retypes(whole, q)
        /\ setup.intra /\ Mapped(p) \notin {{}, p.spec.ns} => "IntraClusterMigration" \in q.conds
    BY <2>1, <2>3, TypeFromPlanFacts
  <2> QED BY <2>2, <2>4, <1>5, RetypesTrans
<1> QED BY <1>1, <1>2, <1>3, <1>4, <1>5

\* What the conditions of the plan block.
LEMMA PlanBlocks ==
    /\ PlanTypes \subseteq Blockers /\ PlanTypes \subseteq Sayable
    /\ ErrorConditions \subseteq Blockers /\ ErrorConditions \subseteq Sayable
BY BlockerFacts, SayableFacts

\* The storage: a plan that moves data outside its cluster needs one that is ready.
LEMMA StorageAdds ==
    ASSUME NEW p \in Passes, world.storage \in StorageStates
    PROVE  LET q == ValidateStorage(p) IN
           /\ Adds(p, q)
           /\ Free(q.conds) => p.type = "conversion" \/ world.storage = "ok"
<1>1. CASE Conversion(p)
  <2>1. ValidateStorage(p) = p BY <1>1 DEF ValidateStorage
  <2> QED BY <1>1, <2>1, SelfAdds DEF Conversion
<1>2. CASE ~Conversion(p)
  <2>1. PICK T : T = [unset |-> {"InvalidStorageRef"}, missing |-> {"InvalidStorageRef"},
                      notready |-> {"StorageNotReady"}, ok |-> {}][world.storage]
    OBVIOUS
  <2>2. ValidateStorage(p) = With(p, T) BY <1>2, <2>1 DEF ValidateStorage
  <2>3. world.storage \in {"unset", "missing", "notready", "ok"} BY DEF StorageStates
  <2>4. /\ world.storage \in {"unset", "missing"} => T = {"InvalidStorageRef"}
        /\ world.storage = "notready" => T = {"StorageNotReady"}
        /\ world.storage = "ok" => T = {}
    BY <2>1
  <2>5. "InvalidStorageRef" \in PlanTypes /\ "StorageNotReady" \in PlanTypes BY DEF PlanTypes
  <2>6. T \in SUBSET Sayable BY <2>3, <2>4, <2>5, PlanBlocks
  <2>7. Adds(p, With(p, T)) /\ With(p, T).conds = p.conds \cup T BY <2>6, WithAdds
  <2> QED BY <2>2, <2>3, <2>4, <2>5, <2>7, PlanBlocks DEF Free
<1> QED BY <1>1, <1>2

\* The list of namespaces: not empty, not too long.
LEMMA NamespacesAdds ==
    ASSUME NEW p \in Passes
    PROVE  LET q == ValidateNamespaces(p) IN
           Adds(p, q) /\ (Free(q.conds) => p.spec.ns # {} /\ ~Flaw("nsLimit"))
<1>1. {"NamespaceListEmpty", "NamespaceLimitExceeded"} \subseteq PlanTypes BY DEF PlanTypes
<1>2. {"NamespaceLengthExceeded", "NamespacePermissions"} \subseteq Notes BY DEF Notes
<1>3. {"NamespaceListEmpty", "NamespaceLimitExceeded", "NamespaceLengthExceeded",
       "NamespacePermissions"} \subseteq Sayable
  BY <1>1, <1>2, PlanBlocks, SayableFacts
<1>4. CASE p.spec.ns = {}
  <2>1. ValidateNamespaces(p) = With(p, {"NamespaceListEmpty"})
    BY <1>4 DEF ValidateNamespaces
  <2>2. /\ Adds(p, With(p, {"NamespaceListEmpty"}))
        /\ "NamespaceListEmpty" \in With(p, {"NamespaceListEmpty"}).conds
    BY <1>3, WithAdds
  <2> QED BY <2>1, <2>2, <1>1, PlanBlocks DEF Free
<1>5. CASE p.spec.ns # {} /\ Flaw("nsLimit")
  <2>1. ValidateNamespaces(p) = With(p, {"NamespaceLimitExceeded"})
    BY <1>5 DEF ValidateNamespaces
  <2>2. /\ Adds(p, With(p, {"NamespaceLimitExceeded"}))
        /\ "NamespaceLimitExceeded" \in With(p, {"NamespaceLimitExceeded"}).conds
    BY <1>3, WithAdds
  <2> QED BY <2>1, <2>2, <1>1, PlanBlocks DEF Free
<1>6. CASE p.spec.ns # {} /\ ~Flaw("nsLimit")
  <2>1. ValidateNamespaces(p) \in
          {With(p, {"NamespaceLengthExceeded"}),
           Raise(p, "NamespacePermissions", FilePermissionConflict)}
    BY <1>6 DEF ValidateNamespaces
  <2>2. Adds(p, With(p, {"NamespaceLengthExceeded"})) BY <1>3, WithAdds
  <2>3. Adds(p, Raise(p, "NamespacePermissions", FilePermissionConflict)) BY <1>3, RaiseAdds
  <2> QED BY <2>1, <2>2, <2>3, <1>6
<1> QED BY <1>4, <1>5, <1>6

\* The limit of pods, and the node selectors that may be taken back.
LEMMA PodPropertiesAdds ==
    ASSUME NEW p \in Passes
    PROVE  Adds(p, ValidatePodProperties(p))
<1>1. {"PodLimitExceeded", "NamespacesHaveNodeSelectors"} \subseteq Sayable
  BY SayableFacts DEF Notes
<1>2. {"NamespacesHaveNodeSelectors"} \subseteq Shed BY DEF Shed
<1> DEFINE q == Raise(p, "PodLimitExceeded", Flaw("podLimit"))
<1>3. Adds(p, Stage(p, {"PodLimitExceeded"})) BY <1>1, StageAdds
<1>4. Adds(p, p) BY SelfAdds
<1>5. Adds(p, q) BY <1>1, RaiseAdds
<1>6. q \in Passes BY <1>5 DEF Adds
<1>7. ValidatePodProperties(p) \in
        {Stage(p, {"PodLimitExceeded"}), p, With(q, {"NamespacesHaveNodeSelectors"}),
         Without(q, {"NamespacesHaveNodeSelectors"})}
  BY DEF ValidatePodProperties
<1> HIDE DEF q
<1>8. Adds(q, With(q, {"NamespacesHaveNodeSelectors"})) BY <1>1, <1>6, WithAdds
<1>9. Adds(q, Without(q, {"NamespacesHaveNodeSelectors"})) BY <1>2, <1>6, WithoutAdds
<1> QED BY <1>3, <1>4, <1>5, <1>7, <1>8, <1>9, AddsTrans

\* The namespaces on the source: none twice, none missing.
LEMMA SourceNamespacesAdds ==
    ASSUME NEW p \in Passes
    PROVE  LET q == ValidateSourceNamespaces(p) IN
           /\ Adds(p, q)
           /\ ~Suspended(p) /\ Free(q.conds) /\ Reachable("Source") =>
                 ~Flaw("nsDuplicate") /\ ~Flaw("nsMissing")
<1>1. /\ {NsNotFound["Source"], NsDuplicate["Source"]} \subseteq Sayable
      /\ {NsNotFound["Source"], NsDuplicate["Source"]} \subseteq Blockers
  BY NameFacts DEF Sides
<1>2. "NamespaceLimitExceeded" \in Blockers BY PlanBlocks DEF PlanTypes
<1>3. Adds(p, Stage(p, {NsNotFound["Source"]})) BY <1>1, StageAdds
<1>4. CASE Suspended(p) \/ HasAny(p, {"NamespaceLimitExceeded"})
  <2>1. ValidateSourceNamespaces(p) = Stage(p, {NsNotFound["Source"]})
    BY <1>4 DEF ValidateSourceNamespaces
  <2>2. Suspended(p) \/ ~Free(p.conds) BY <1>2, <1>4 DEF HasAny, Free
  <2>3. Free(Stage(p, {NsNotFound["Source"]}).conds) => Free(p.conds) BY <1>3, AddsFree
  <2> QED BY <1>3, <2>1, <2>2, <2>3
<1>5. CASE ~(Suspended(p) \/ HasAny(p, {"NamespaceLimitExceeded"})) /\ Flaw("nsDuplicate")
  <2>1. ValidateSourceNamespaces(p) = With(p, {NsDuplicate["Source"]})
    BY <1>5 DEF ValidateSourceNamespaces
  <2>2. /\ Adds(p, With(p, {NsDuplicate["Source"]}))
        /\ NsDuplicate["Source"] \in With(p, {NsDuplicate["Source"]}).conds
    BY <1>1, WithAdds
  <2> QED BY <2>1, <2>2, <1>1 DEF Free
<1>6. CASE ~(Suspended(p) \/ HasAny(p, {"NamespaceLimitExceeded"})) /\ ~Flaw("nsDuplicate")
  <2>1. ValidateSourceNamespaces(p) =
          Raise(p, NsNotFound["Source"], Reachable("Source") /\ Flaw("nsMissing"))
    BY <1>6 DEF ValidateSourceNamespaces
  <2>2. /\ Adds(p, ValidateSourceNamespaces(p))
        /\ Reachable("Source") /\ Flaw("nsMissing") =>
              NsNotFound["Source"] \in ValidateSourceNamespaces(p).conds
    BY <1>1, <2>1, RaiseAdds
  <2> QED BY <2>2, <1>1, <1>6 DEF Free
<1> QED BY <1>4, <1>5, <1>6

\* The namespaces on the destination: names that are legal, Velero there.
LEMMA DestinationNamespacesAdds ==
    ASSUME NEW p \in Passes
    PROVE  LET q == ValidateDestinationNamespaces(p) IN
           /\ Adds(p, q)
           /\ ~Suspended(p) /\ Free(q.conds) /\ Reachable("Destination") =>
                 ~Flaw("nsBadName") /\ ~Flaw("veleroMissing")
<1>1. /\ {NsNotFound["Destination"], NsDuplicate["Destination"]} \subseteq Sayable
      /\ {NsNotFound["Destination"], NsDuplicate["Destination"]} \subseteq Blockers
  BY NameFacts DEF Sides
<1>2. "NamespaceNotDNSCompliant" \in Blockers /\ "NamespaceNotDNSCompliant" \in Sayable
  BY PlanBlocks DEF PlanTypes
<1>3. CASE Suspended(p)
  BY <1>3, SelfAdds DEF ValidateDestinationNamespaces
<1>4. CASE ~Suspended(p) /\ Flaw("nsDuplicate")
  <2>1. ValidateDestinationNamespaces(p) = With(p, {NsDuplicate["Destination"]})
    BY <1>4 DEF ValidateDestinationNamespaces
  <2>2. /\ Adds(p, With(p, {NsDuplicate["Destination"]}))
        /\ NsDuplicate["Destination"] \in With(p, {NsDuplicate["Destination"]}).conds
    BY <1>1, WithAdds
  <2> QED BY <2>1, <2>2, <1>1 DEF Free
<1>5. CASE ~Suspended(p) /\ ~Flaw("nsDuplicate") /\ Flaw("nsBadName")
  <2>1. ValidateDestinationNamespaces(p) = With(p, {"NamespaceNotDNSCompliant"})
    BY <1>5 DEF ValidateDestinationNamespaces
  <2>2. /\ Adds(p, With(p, {"NamespaceNotDNSCompliant"}))
        /\ "NamespaceNotDNSCompliant" \in With(p, {"NamespaceNotDNSCompliant"}).conds
    BY <1>2, WithAdds
  <2> QED BY <2>1, <2>2, <1>2 DEF Free
<1>6. CASE ~Suspended(p) /\ ~Flaw("nsDuplicate") /\ ~Flaw("nsBadName")
  <2>1. ValidateDestinationNamespaces(p) =
          Raise(p, NsNotFound["Destination"], Reachable("Destination") /\ Flaw("veleroMissing"))
    BY <1>6 DEF ValidateDestinationNamespaces
  <2>2. /\ Adds(p, ValidateDestinationNamespaces(p))
        /\ Reachable("Destination") /\ Flaw("veleroMissing") =>
              NsNotFound["Destination"] \in ValidateDestinationNamespaces(p).conds
    BY <1>1, <2>1, RaiseAdds
  <2> QED BY <2>2, <1>1, <1>6 DEF Free
<1> QED BY <1>3, <1>4, <1>5, <1>6

\* No other plan lists a namespace in the same words.
LEMMA ConflictAdds ==
    ASSUME NEW p \in Passes
    PROVE  LET q == ValidateConflict(p) IN
           Adds(p, q) /\ (Free(q.conds) => world.rival # "same")
<1>1. "PlanConflict" \in Blockers /\ "PlanConflict" \in Sayable
  BY PlanBlocks DEF ErrorConditions
<1> QED BY <1>1, RaiseAdds DEF ValidateConflict, HasConflict, Free

\* The proxy secret of the registry of a cluster that is ready.
LEMMA ProxyAdds ==
    ASSUME NEW p \in Passes, NEW s \in Sides
    PROVE  LET q == ValidateProxySecret(p, s) IN
           Adds(p, q) /\ (~Suspended(p) /\ Free(q.conds) => ~Flaw("proxy"))
<1>1. /\ {InvalidRef[s], NotReady[s], BadProxy[s]} \subseteq Sayable
      /\ {InvalidRef[s], NotReady[s], BadProxy[s]} \subseteq Blockers
  BY NameFacts
<1>2. CASE Suspended(p) \/ HasAny(p, {InvalidRef[s], NotReady[s]})
  <2>1. ValidateProxySecret(p, s) = p BY <1>2 DEF ValidateProxySecret
  <2>2. Suspended(p) \/ ~Free(p.conds) BY <1>1, <1>2 DEF HasAny, Free
  <2> QED BY <2>1, <2>2, SelfAdds
<1>3. CASE ~(Suspended(p) \/ HasAny(p, {InvalidRef[s], NotReady[s]}))
  <2>1. ValidateProxySecret(p, s) = Raise(p, BadProxy[s], Flaw("proxy"))
    BY <1>3 DEF ValidateProxySecret
  <2>2. /\ Adds(p, ValidateProxySecret(p, s))
        /\ Flaw("proxy") => BadProxy[s] \in ValidateProxySecret(p, s).conds
    BY <1>1, <2>1, RaiseAdds
  <2> QED BY <2>2, <1>1 DEF Free
<1> QED BY <1>2, <1>3

\* The health of pods only warns.
LEMMA PodHealthAdds ==
    ASSUME NEW p \in Passes PROVE Adds(p, ValidatePodHealth(p))
<1>1. "SourcePodsNotHealthy" \in Sayable BY SayableFacts DEF Notes
<1>2. {"SourcePodsNotHealthy"} \in SUBSET Sayable BY <1>1
<1> QED BY <1>1, <1>2, StageAdds, RaiseAdds DEF ValidatePodHealth

\* The hooks of a plan: all of them are in order.
HookFlaws == {"hookMissing", "hookAccount", "hookNamespace", "hookNotReady", "hookPhase", "hookTwice"}

\* The hooks: there, ready, in a known phase, one for a phase.
LEMMA HooksAdds ==
    ASSUME NEW p \in Passes
    PROVE  LET q == ValidateHooks(p) IN
           Adds(p, q) /\ (Free(q.conds) => \A f \in HookFlaws : ~Flaw(f))
<1> DEFINE b == Raise(p, "InvalidHookSAName", Flaw("hookAccount"))
<1> DEFINE r == Raise(b, "InvalidHookNSName", Flaw("hookNamespace"))
<1> DEFINE q == ValidateHooks(p)
<1>0. {"InvalidHookRef", "InvalidHookSAName", "InvalidHookNSName", "HookNotReady",
       "HookPhaseUnknown", "HookPhaseDuplicate"} \subseteq PlanTypes
  BY DEF PlanTypes
<1>1. /\ {"InvalidHookRef", "InvalidHookSAName", "InvalidHookNSName", "HookNotReady",
          "HookPhaseUnknown", "HookPhaseDuplicate"} \subseteq Sayable
      /\ {"InvalidHookRef", "InvalidHookSAName", "InvalidHookNSName", "HookNotReady",
          "HookPhaseUnknown", "HookPhaseDuplicate"} \subseteq Blockers
  BY <1>0, PlanBlocks
<1>2. CASE Flaw("hookMissing")
  <2>1. q = With(p, {"InvalidHookRef"}) BY <1>2 DEF ValidateHooks
  <2>2. Adds(p, q) /\ "InvalidHookRef" \in q.conds BY <1>1, <2>1, WithAdds
  <2> QED BY <1>1, <2>2 DEF Free
<1>3. CASE ~Flaw("hookMissing")
  <2>1. Adds(p, b) /\ (Flaw("hookAccount") => "InvalidHookSAName" \in b.conds)
    BY <1>1, RaiseAdds
  <2>2. b \in Passes BY <2>1 DEF Adds
  <2>3. Adds(b, r) /\ (Flaw("hookNamespace") => "InvalidHookNSName" \in r.conds)
    BY <1>1, <2>2, RaiseAdds
  <2>4. r \in Passes BY <2>3 DEF Adds
  <2>5. q = IF Flaw("hookNotReady") THEN With(r, {"HookNotReady"})
            ELSE IF Flaw("hookPhase") THEN With(r, {"HookPhaseUnknown"})
            ELSE Raise(r, "HookPhaseDuplicate", Flaw("hookTwice"))
    BY <1>3 DEF ValidateHooks
  <2> HIDE DEF q, b, r
  <2>6. /\ Adds(r, q)
        /\ Free(q.conds) => ~Flaw("hookNotReady") /\ ~Flaw("hookPhase") /\ ~Flaw("hookTwice")
    <3>1. /\ Adds(r, With(r, {"HookNotReady"}))
          /\ "HookNotReady" \in With(r, {"HookNotReady"}).conds
      BY <1>1, <2>4, WithAdds
    <3>2. /\ Adds(r, With(r, {"HookPhaseUnknown"}))
          /\ "HookPhaseUnknown" \in With(r, {"HookPhaseUnknown"}).conds
      BY <1>1, <2>4, WithAdds
    <3>3. /\ Adds(r, Raise(r, "HookPhaseDuplicate", Flaw("hookTwice")))
          /\ Flaw("hookTwice") =>
                "HookPhaseDuplicate" \in Raise(r, "HookPhaseDuplicate", Flaw("hookTwice")).conds
      BY <1>1, <2>4, RaiseAdds
    <3> QED BY <1>1, <2>5, <3>1, <3>2, <3>3 DEF Free
  <2>7. Free(q.conds) => ~Flaw("hookNamespace")
    BY <1>1, <2>3, <2>6, AddsFree DEF Free
  <2>8. Free(q.conds) => ~Flaw("hookAccount")
    BY <1>1, <2>1, <2>3, <2>6, AddsFree DEF Free
  <2>9. Adds(p, q) BY <2>1, <2>3, <2>6, AddsTrans
  <2>10. Adds(p, q) /\ (Free(q.conds) => \A f \in HookFlaws : ~Flaw(f))
    BY <1>3, <2>6, <2>7, <2>8, <2>9 DEF HookFlaws
  <2> QED BY <2>10 DEF q
<1> QED BY <1>2, <1>3

\* The list of resources names kinds that are there.
LEMMA ResourcesAdds ==
    ASSUME NEW p \in Passes
    PROVE  LET q == ValidateIncludedResources(p) IN
           Adds(p, q) /\ (Free(q.conds) /\ Reachable("Source") => ~Flaw("resources"))
<1>1. "InvalidResourceList" \in Blockers /\ "InvalidResourceList" \in Sayable
  BY PlanBlocks DEF PlanTypes
<1> QED BY <1>1, RaiseAdds DEF ValidateIncludedResources, Free

\* The comparison of kinds only warns,
LEMMA GVKAdds == ASSUME NEW p \in Passes PROVE Adds(p, CompareGVK(p))
<1>1. "GVKsIncompatible" \in Sayable BY SayableFacts DEF Notes
<1>2. {"GVKsIncompatible"} \in SUBSET Sayable BY <1>1
<1> QED BY <1>1, <1>2, StageAdds, RaiseAdds DEF CompareGVK

\* so does that of the operator's versions,
LEMMA VersionsAdds == ASSUME NEW p \in Passes PROVE Adds(p, ValidateOperatorVersions(p))
<1>1. "ClusterVersionMismatch" \in Sayable BY SayableFacts DEF Notes
<1> QED BY <1>1, RaiseAdds DEF ValidateOperatorVersions

\* and that of the virtual machines.
LEMMA LiveAdds == ASSUME NEW p \in Passes PROVE Adds(p, ValidateLiveMigrationPossible(p))
<1>1. KubeVirtProblem \in SUBSET Sayable
  BY SayableFacts DEF KubeVirtProblem, Notes
<1> QED BY <1>1, WithAdds, SelfAdds DEF ValidateLiveMigrationPossible

\* q is what a validation makes of p: more conditions, and another type.
Judges(p, q) ==
    /\ q \in Passes
    /\ q.at = p.at /\ q.spec = p.spec /\ q.prev = p.prev /\ q.suffix = p.suffix
    /\ q.reconciled = p.reconciled /\ q.classes = p.classes /\ q.quiet = p.quiet
    /\ q.missed = p.missed /\ q.stale = p.stale
    /\ q.conds \cap Reserved = p.conds \cap Reserved

\* A validation may add more.
LEMMA AddsJudges ==
    ASSUME NEW p, NEW q, NEW r, Judges(p, q), Adds(q, r)
    PROVE  Judges(p, r)
BY DEF Adds, Judges

\* Neither cluster is missing, not ready, or without a registry it needs.
LEMMA ClustersSound ==
    ASSUME NEW p \in Passes, \A s \in Sides : world.cluster[s] \in ClusterStates
    PROVE  LET c == ValidateCluster(ValidateCluster(p, "Source"), "Destination")
               t == ValidatePossibleMigrationTypes(c)
           IN  /\ Judges(p, c) /\ Judges(p, t)
               /\ Free(t.conds) =>
                     /\ \A s \in Sides : Reachable(s)
                     /\ Opt("indirectImages") \/ t.type \in {"state", "conversion"}
                        \/ \A s \in Sides : world.cluster[s] # "noregistry"
                     /\ ~(setup.intra /\ Opt("indirectVolumes"))
                     /\ setup.intra /\ ~Opt("indirectImages")
                        /\ p.spec.ns \cap setup.mapped \notin {{}, p.spec.ns} => t.type = "state"
<1>1. PICK b : b = ValidateCluster(p, "Source") OBVIOUS
<1>2. PICK c : c = ValidateCluster(b, "Destination") OBVIOUS
<1>3. PICK t : t = ValidatePossibleMigrationTypes(c) OBVIOUS
<1>4. Sides = {"Source", "Destination"} BY DEF Sides
<1>5. /\ Adds(p, b)
      /\ world.cluster["Source"] \in {"unset", "missing"} => InvalidRef["Source"] \in b.conds
      /\ world.cluster["Source"] = "notready" => NotReady["Source"] \in b.conds
      /\ world.cluster["Source"] = "noregistry" /\ ~Opt("indirectImages") =>
            NoRegistry["Source"] \in b.conds
  BY <1>1, <1>4, ClusterAdds
<1>6. b \in Passes BY <1>5 DEF Adds
<1>7. /\ Adds(b, c)
      /\ world.cluster["Destination"] \in {"unset", "missing"} => InvalidRef["Destination"] \in c.conds
      /\ world.cluster["Destination"] = "notready" => NotReady["Destination"] \in c.conds
      /\ world.cluster["Destination"] = "noregistry" /\ ~Opt("indirectImages") =>
            NoRegistry["Destination"] \in c.conds
  BY <1>2, <1>4, <1>6, ClusterAdds
<1>8. Adds(p, c) /\ c \in Passes BY <1>5, <1>7, AddsTrans DEF Adds
<1>9. /\ Retypes(c, t)
      /\ setup.intra /\ Opt("indirectVolumes") => "IntraClusterMigration" \in t.conds
      /\ setup.intra /\ ~Opt("indirectImages") /\ Mapped(c) \notin {{}, c.spec.ns} =>
            "IntraClusterMigration" \in t.conds \/ t.type = "state"
  BY <1>3, <1>8, PossibleTypesFacts
<1>10. Judges(p, c) BY <1>8 DEF Adds, Judges
<1>11. Judges(p, t) BY <1>8, <1>9 DEF Adds, Retypes, Judges
<1>12. ASSUME Free(t.conds)
       PROVE  /\ \A s \in Sides : Reachable(s)
              /\ Opt("indirectImages") \/ t.type \in {"state", "conversion"}
                 \/ \A s \in Sides : world.cluster[s] # "noregistry"
              /\ ~(setup.intra /\ Opt("indirectVolumes"))
              /\ setup.intra /\ ~Opt("indirectImages")
                 /\ p.spec.ns \cap setup.mapped \notin {{}, p.spec.ns} => t.type = "state"
  <2>1. b.conds \ Shed \subseteq c.conds /\ c.conds \ OfSides(NoRegistry) \subseteq t.conds
    BY <1>7, <1>9 DEF Adds, Retypes
  <2>2. /\ InvalidRef["Source"] \in Blockers \ OfSides(NoRegistry)
        /\ NotReady["Source"] \in Blockers \ OfSides(NoRegistry)
        /\ InvalidRef["Destination"] \in Blockers \ OfSides(NoRegistry)
        /\ NotReady["Destination"] \in Blockers \ OfSides(NoRegistry)
        /\ NoRegistry["Source"] \in Blockers /\ NoRegistry["Destination"] \in Blockers
    <3>1. /\ \A s \in Sides : {InvalidRef[s], NotReady[s], NoRegistry[s]} \subseteq Blockers
          /\ "Source" \in Sides /\ "Destination" \in Sides
      BY <1>4, NameFacts
    <3>2. /\ InvalidRef["Source"] \notin OfSides(NoRegistry)
          /\ NotReady["Source"] \notin OfSides(NoRegistry)
          /\ InvalidRef["Destination"] \notin OfSides(NoRegistry)
          /\ NotReady["Destination"] \notin OfSides(NoRegistry)
      BY SideFacts, RegistryFacts
    <3> QED BY <3>1, <3>2
  <2>3. Blockers \cap Shed = {} BY BlockerFacts
  <2>4. world.cluster["Source"] \notin {"unset", "missing", "notready"}
    BY <1>5, <1>12, <2>1, <2>2, <2>3 DEF Free
  <2>5. world.cluster["Destination"] \notin {"unset", "missing", "notready"}
    BY <1>7, <1>12, <2>1, <2>2 DEF Free
  <2>6. \A s \in Sides : Reachable(s)
    BY <1>4, <2>4, <2>5 DEF Reachable, ClusterStates, StorageStates
  <2>7. ASSUME ~Opt("indirectImages"), t.type \notin {"state", "conversion"}
        PROVE  \A s \in Sides : world.cluster[s] # "noregistry"
    <3>1. c.conds \subseteq t.conds BY <1>9, <2>7 DEF Retypes
    <3> QED BY <1>4, <1>5, <1>7, <1>12, <2>1, <2>2, <2>3, <2>7, <3>1 DEF Free
  <2>8. "IntraClusterMigration" \notin t.conds
    BY <1>12, PlanBlocks DEF Free, PlanTypes
  <2>9. Mapped(c) = p.spec.ns \cap setup.mapped /\ c.spec = p.spec
    BY <1>10 DEF Mapped, Judges
  <2> QED BY <1>9, <2>6, <2>7, <2>8, <2>9
<1> QED BY <1>1, <1>2, <1>3, <1>10, <1>11, <1>12

\* Validation forbids whatever forbids a migration.
LEMMA ValidateFacts ==
    ASSUME Typed, NEW p \in Passes
    PROVE  /\ Judges(p, Validate(p))
           /\ (\A s \in Sides : Resolved(s)) /\ ~Suspended(p) /\ Free(Validate(p).conds) =>
                 Sound(Validate(p).type, p.spec.ns)
<1>1. PICK c : c = ValidateCluster(ValidateCluster(p, "Source"), "Destination") OBVIOUS
<1>2. PICK t : t = ValidatePossibleMigrationTypes(c) OBVIOUS
<1>3. PICK u : u = ValidateStorage(t) OBVIOUS
<1>4. PICK n : n = ValidateNamespaces(u) OBVIOUS
<1>5. PICK d : d = ValidatePodProperties(n) OBVIOUS
<1>6. PICK e : e = ValidateSourceNamespaces(d) OBVIOUS
<1>7. PICK f : f = ValidateDestinationNamespaces(e) OBVIOUS
<1>8. PICK r : r = ValidateConflict(f) OBVIOUS
<1>9. PICK x : x = ValidateProxySecret(r, "Source") OBVIOUS
<1>10. PICK y : y = ValidateProxySecret(x, "Destination") OBVIOUS
<1>11. PICK z : z = ValidatePodHealth(y) OBVIOUS
<1>12. PICK h : h = ValidateHooks(z) OBVIOUS
<1>13. PICK i : i = ValidateIncludedResources(h) OBVIOUS
<1>14. PICK j : j = CompareGVK(i) OBVIOUS
<1>15. PICK g : g = ValidateOperatorVersions(j) OBVIOUS
<1>16. PICK l : l = ValidateLiveMigrationPossible(g) OBVIOUS
<1>17. Validate(p) = IF ~\A s \in Sides : Resolved(s) THEN c ELSE IF Opt("live") THEN l ELSE g
  BY <1>1, <1>2, <1>3, <1>4, <1>5, <1>6, <1>7, <1>8, <1>9, <1>10, <1>11, <1>12, <1>13, <1>14,
     <1>15, <1>16 DEF Validate, ValidateRequiredNamespaces, ValidateRegistryProxySecrets
<1>18. /\ \A s \in Sides : world.cluster[s] \in ClusterStates
       /\ world.storage \in StorageStates /\ world.flaws \in SUBSET setup.flaws
  BY DEF Typed, Worlds
<1>19. /\ Judges(p, c) /\ Judges(p, t)
       /\ Free(t.conds) =>
             /\ \A s \in Sides : Reachable(s)
             /\ Opt("indirectImages") \/ t.type \in {"state", "conversion"}
                \/ \A s \in Sides : world.cluster[s] # "noregistry"
             /\ ~(setup.intra /\ Opt("indirectVolumes"))
             /\ setup.intra /\ ~Opt("indirectImages")
                /\ p.spec.ns \cap setup.mapped \notin {{}, p.spec.ns} => t.type = "state"
  BY <1>1, <1>2, <1>18, ClustersSound
<1>20. t \in Passes /\ t.spec = p.spec /\ (Suspended(t) <=> Suspended(p))
  BY <1>19 DEF Judges, Suspended, Reserved
<1>21. Adds(t, u) /\ (Free(u.conds) => t.type = "conversion" \/ world.storage = "ok")
  BY <1>3, <1>18, <1>20, StorageAdds
<1>22. u \in Passes /\ u.spec = p.spec BY <1>20, <1>21 DEF Adds
<1>23. Adds(u, n) /\ (Free(n.conds) => u.spec.ns # {} /\ ~Flaw("nsLimit"))
  BY <1>4, <1>22, NamespacesAdds
<1>24. n \in Passes BY <1>23 DEF Adds
<1>25. Adds(n, d) BY <1>5, <1>24, PodPropertiesAdds
<1>26. Adds(t, d) BY <1>21, <1>23, <1>25, AddsTrans
<1>27. d \in Passes /\ (Suspended(d) <=> Suspended(p))
  BY <1>20, <1>26 DEF Adds, Suspended, Reserved
<1>28. /\ Adds(d, e)
       /\ ~Suspended(d) /\ Free(e.conds) /\ Reachable("Source") =>
             ~Flaw("nsDuplicate") /\ ~Flaw("nsMissing")
  BY <1>6, <1>27, SourceNamespacesAdds
<1>29. e \in Passes /\ (Suspended(e) <=> Suspended(p))
  BY <1>27, <1>28 DEF Adds, Suspended, Reserved
<1>30. /\ Adds(e, f)
       /\ ~Suspended(e) /\ Free(f.conds) /\ Reachable("Destination") =>
             ~Flaw("nsBadName") /\ ~Flaw("veleroMissing")
  BY <1>7, <1>29, DestinationNamespacesAdds
<1>31. f \in Passes BY <1>30 DEF Adds
<1>32. Adds(f, r) /\ (Free(r.conds) => world.rival # "same") BY <1>8, <1>31, ConflictAdds
<1>33. Adds(t, r) BY <1>26, <1>28, <1>30, <1>32, AddsTrans
<1>34. r \in Passes /\ (Suspended(r) <=> Suspended(p))
  BY <1>20, <1>33 DEF Adds, Suspended, Reserved
<1>35. Adds(r, x) /\ (~Suspended(r) /\ Free(x.conds) => ~Flaw("proxy"))
  BY <1>9, <1>34, ProxyAdds DEF Sides
<1>36. x \in Passes BY <1>35 DEF Adds
<1>37. Adds(x, y) BY <1>10, <1>36, ProxyAdds DEF Sides
<1>38. y \in Passes BY <1>37 DEF Adds
<1>39. Adds(y, z) /\ z \in Passes BY <1>11, <1>38, PodHealthAdds DEF Adds
<1>40. Adds(z, h) /\ (Free(h.conds) => \A k \in HookFlaws : ~Flaw(k)) BY <1>12, <1>39, HooksAdds
<1>41. h \in Passes BY <1>40 DEF Adds
<1>42. Adds(h, i) /\ (Free(i.conds) /\ Reachable("Source") => ~Flaw("resources"))
  BY <1>13, <1>41, ResourcesAdds
<1>43. i \in Passes BY <1>42 DEF Adds
<1>44. Adds(i, j) /\ j \in Passes BY <1>14, <1>43, GVKAdds DEF Adds
<1>45. Adds(j, g) /\ g \in Passes BY <1>15, <1>44, VersionsAdds DEF Adds
<1>46. Adds(g, l) BY <1>16, <1>45, LiveAdds
<1>47. Adds(i, g) BY <1>44, <1>45, AddsTrans
<1>48. Adds(h, g) BY <1>42, <1>47, AddsTrans
<1>49. Adds(x, g) BY <1>37, <1>39, <1>40, <1>48, AddsTrans
<1>50. Adds(r, g) BY <1>35, <1>49, AddsTrans
<1>51. Adds(t, g) BY <1>33, <1>50, AddsTrans
<1>52. Adds(t, l) BY <1>46, <1>51, AddsTrans
<1>53. Judges(p, Validate(p))
  <2>1. Judges(p, g) /\ Judges(p, l) BY <1>19, <1>51, <1>52, AddsJudges
  <2> QED BY <1>17, <1>19, <2>1
<1>54. ASSUME \A s \in Sides : Resolved(s), ~Suspended(p), Free(Validate(p).conds)
       PROVE  Sound(Validate(p).type, p.spec.ns)
  <2>1. Validate(p) = g \/ Validate(p) = l BY <1>17, <1>54
  <2>2. Free(g.conds) BY <1>46, <1>54, <2>1, AddsFree
  <2>3. Validate(p).type = t.type BY <1>51, <1>52, <2>1 DEF Adds
  <2>4. /\ Free(h.conds) /\ Free(i.conds) /\ Free(x.conds) /\ Free(r.conds) /\ Free(t.conds)
    BY <2>2, <1>47, <1>48, <1>49, <1>50, <1>51, AddsFree
  <2>5. Free(f.conds) BY <2>4, <1>32, AddsFree
  <2>6. Free(e.conds) BY <2>5, <1>30, AddsFree
  <2>7. Free(d.conds) BY <2>6, <1>28, AddsFree
  <2>8. Free(n.conds) BY <2>7, <1>25, AddsFree
  <2>9. Free(u.conds) BY <2>8, <1>23, AddsFree
  <2>10. Reachable("Source") /\ Reachable("Destination") /\ \A s \in Sides : Reachable(s)
    BY <1>19, <2>4 DEF Sides
  <2>11. p.spec.ns # {} BY <1>22, <1>23, <2>8
  <2>12. world.flaws \cap BlockingFlaws = {}
    <3>1. /\ ~Flaw("nsLimit") /\ ~Flaw("nsMissing") /\ ~Flaw("veleroMissing")
          /\ ~Flaw("nsDuplicate") /\ ~Flaw("nsBadName") /\ ~Flaw("proxy") /\ ~Flaw("resources")
      BY <1>23, <1>27, <1>28, <1>29, <1>30, <1>34, <1>35, <1>42, <1>54, <2>4, <2>5, <2>6, <2>8, <2>10
    <3>2. /\ ~Flaw("hookMissing") /\ ~Flaw("hookAccount") /\ ~Flaw("hookNamespace")
          /\ ~Flaw("hookNotReady") /\ ~Flaw("hookPhase") /\ ~Flaw("hookTwice")
      BY <1>40, <2>4 DEF HookFlaws
    <3> QED BY <3>1, <3>2 DEF Flaw, BlockingFlaws
  <2> QED BY <1>19, <1>21, <1>32, <2>3, <2>4, <2>9, <2>10, <2>11, <2>12 DEF Sound
<1> QED BY <1>53, <1>54

-----------------------------------------------------------------------------
(* The volumes                                                               *)

\* What SetupsAssumption says of the setup at hand.
LEMMA SetupFacts ==
    ASSUME setup \in Setups
    PROVE  /\ Randoms \subseteq Nat \ {0}
           /\ \A v \in Vols : setup.vols[v].kind \in VolumeKinds /\ setup.vols[v].disk \in Disks
           /\ setup.choices \subseteq Selections /\ setup.states \subseteq ClusterStates
           /\ setup.moods \subseteq Moods /\ setup.migs \subseteq MigKinds
           /\ setup.ns \subseteq STRING /\ \A v \in Vols : setup.vols[v].ns \in STRING
<1>1. \A v \in Vols : setup.vols[v] \in [ns : STRING, kind : VolumeKinds, disk : Disks]
  BY SetupsAssumption DEF Vols
<1>2. /\ Randoms \subseteq Nat \ {0} /\ setup.ns \subseteq STRING
      /\ setup.choices \subseteq Selections /\ setup.states \subseteq ClusterStates
      /\ setup.moods \subseteq Moods /\ setup.migs \subseteq MigKinds
  BY SetupsAssumption
<1> QED BY <1>1, <1>2

\* Only a volume of the host has a single action.
LEMMA SingleAction ==
    ASSUME setup \in Setups, NEW v \in Vols,
           NEW A, A = SupportedActions(v) \/ A = SupportedActions(v) \ {"move"}
    PROVE  /\ A \subseteq Actions /\ IsFiniteSet(A)
           /\ Cardinality(A) = 1 <=> setup.vols[v].disk = "host"
<1>1. setup.vols[v].disk \in {"host", "nfs", "gluster", "csi"}
  BY SetupFacts DEF Disks
<1>2. CASE setup.vols[v].disk = "host"
  <2>1. A = {"skip"} BY <1>2 DEF SupportedActions
  <2> QED BY <1>2, <2>1, FS_Singleton DEF Actions
<1>3. CASE setup.vols[v].disk # "host"
  <2>1. A \in SUBSET {"skip", "copy", "move"} /\ "skip" \in A /\ "copy" \in A
    BY <1>1, <1>3 DEF SupportedActions
  <2>2. IsFiniteSet({"skip", "copy", "move"})
    <3>1. IsFiniteSet({"skip"} \cup {"copy"}) BY FS_Singleton, FS_AddElement
    <3>2. IsFiniteSet(({"skip"} \cup {"copy"}) \cup {"move"}) BY <3>1, FS_AddElement
    <3>3. {"skip", "copy", "move"} = ({"skip"} \cup {"copy"}) \cup {"move"} OBVIOUS
    <3> QED BY <3>2, <3>3
  <2>3. IsFiniteSet(A) BY <2>1, <2>2, FS_Subset
  <2>4. Cardinality(A) # 1
    <3>1. SUFFICES ASSUME Cardinality(A) = 1 PROVE FALSE OBVIOUS
    <3>2. PICK x : A = {x} BY <2>3, <3>1, FS_Singleton
    <3> QED BY <2>1, <3>2
  <2> QED BY <1>3, <2>1, <2>3, <2>4 DEF Actions
<1> QED BY <1>2, <1>3

\* What discovery makes of a volume that is listed already.
LEMMA UpdatePvFacts ==
    ASSUME NEW old \in PvRecords, NEW pv \in PvRecords
    PROVE  LET r == UpdatePv(old, pv) IN
           /\ r \in PvRecords /\ r.target = pv.target /\ r.actions = pv.actions
           /\ IF Cardinality(pv.actions) = 1 THEN r.sel.action \in pv.actions ELSE r.sel = old.sel
<1>1. PICK a : a = IF Cardinality(pv.actions) = 1 THEN CHOOSE x \in pv.actions : TRUE
                   ELSE old.sel.action
  OBVIOUS
<1>2. UpdatePv(old, pv) = [old EXCEPT !.target = pv.target, !.actions = pv.actions, !.sel.action = a]
  <2>1. CASE Cardinality(pv.actions) = 1 BY <1>1, <2>1 DEF UpdatePv
  <2>2. CASE Cardinality(pv.actions) # 1 BY <1>1, <2>2 DEF UpdatePv
  <2> QED BY <2>1, <2>2
<1>3. Cardinality(pv.actions) = 1 => a \in pv.actions
  <2>1. SUFFICES ASSUME Cardinality(pv.actions) = 1 PROVE a \in pv.actions OBVIOUS
  <2>2. pv.actions # {} BY <2>1, FS_EmptySet
  <2> QED BY <1>1, <2>1, <2>2
<1>4. old.sel \in Selections /\ old.sel.action \in Actions /\ pv.actions \in SUBSET Actions
      /\ pv.target \in [base : {"source", "user"}, inner : {0} \cup Randoms, tail : {0} \cup Randoms]
  BY DEF PvRecords, Selections
<1>5. a \in Actions BY <1>1, <1>3, <1>4
<1>6. PICK s : s = [old.sel EXCEPT !.action = a] OBVIOUS
<1>7. s \in Selections /\ s.action = a /\ (a = old.sel.action => s = old.sel)
  BY <1>4, <1>5, <1>6 DEF Selections
<1>8. UpdatePv(old, pv) = [old EXCEPT !.target = pv.target, !.actions = pv.actions, !.sel = s]
  BY <1>2, <1>6
<1>9. PICK r : r = [old EXCEPT !.target = pv.target, !.actions = pv.actions, !.sel = s] OBVIOUS
<1>10. r \in PvRecords /\ r.target = pv.target /\ r.actions = pv.actions /\ r.sel = s
  BY <1>4, <1>7, <1>9 DEF PvRecords
<1> QED BY <1>1, <1>3, <1>7, <1>8, <1>9, <1>10

\* A name of a claim, and when the two ways to make it agree.
LEMMA NameFacts2 ==
    ASSUME Typed, NEW p \in Passes, p.suffix \in Randoms, NEW v \in Vols,
           Tails(p.spec.pvs, p.suffix)
    PROVE  LET n == NameOfClaim(p, v)
               old == IF v \in DOMAIN p.spec.pvs THEN p.spec.pvs[v].target ELSE SourceName
           IN  /\ n \in [base : {"source", "user"}, inner : {0} \cup Randoms, tail : {0} \cup Randoms]
               /\ n.tail \in {0, p.suffix} /\ n.base = old.base
               /\ setup.vols[v].kind # "sts" /\ old.tail # 0 => n = old
               /\ n = NameInPvMap(p, v) <=>
                    ~(/\ p.type = "conversion" /\ setup.vols[v].kind = "sts"
                      /\ world.vols[v].pods = "pending" /\ old.base = "source")
<1> DEFINE Targets == [base : {"source", "user"}, inner : {0} \cup Randoms, tail : {0} \cup Randoms]
<1>1. PICK old : old = IF v \in DOMAIN p.spec.pvs THEN p.spec.pvs[v].target ELSE SourceName
  OBVIOUS
<1>2. \A w \in DOMAIN p.spec.pvs : p.spec.pvs[w] \in PvRecords
  BY DEF Passes, Specs, PvMaps
<1>3. old \in Targets /\ old.tail \in {0, p.suffix}
  <2>1. SourceName = [base |-> "source", inner |-> 0, tail |-> 0] BY DEF SourceName
  <2>2. CASE v \in DOMAIN p.spec.pvs BY <1>1, <1>2, <2>2 DEF PvRecords, Tails
  <2>3. CASE v \notin DOMAIN p.spec.pvs BY <1>1, <2>1, <2>3
  <2> QED BY <2>2, <2>3
<1>4. PICK i, t : i = [[old EXCEPT !.tail = 0] EXCEPT !.inner = p.suffix]
                  /\ t = [[old EXCEPT !.tail = 0] EXCEPT !.tail = p.suffix]
  OBVIOUS
<1>5. /\ i \in Targets /\ i.base = old.base /\ i.tail = 0
      /\ t \in Targets /\ t.base = old.base /\ t.tail = p.suffix
      /\ t = [old EXCEPT !.tail = p.suffix]
  BY <1>3, <1>4
<1>6. old.tail = p.suffix => t = old BY <1>3, <1>5
<1>7. \A phases : MappedName(p, v, phases) =
        IF ~Conversion(p) THEN old
        ELSE IF OwnedBySet(v, phases) /\ old.base = "source" THEN i ELSE t
  BY <1>1, <1>4 DEF MappedName
<1>8. i # t BY <1>5, SetupFacts DEF Typed
<1>9. world.vols[v].pods \in {"none", "pending", "running"}
  BY DEF Typed, Worlds, Moods
<1>10. /\ OwnedBySet(v, {"running"}) <=>
            setup.vols[v].kind = "sts" /\ world.vols[v].pods = "running"
       /\ OwnedBySet(v, {"pending", "running"}) <=>
            setup.vols[v].kind = "sts" /\ world.vols[v].pods \in {"pending", "running"}
  BY DEF OwnedBySet
<1>11. /\ NameOfClaim(p, v) = IF ~Conversion(p) THEN old
            ELSE IF OwnedBySet(v, {"running"}) /\ old.base = "source" THEN i ELSE t
       /\ NameInPvMap(p, v) = IF ~Conversion(p) THEN old
            ELSE IF OwnedBySet(v, {"pending", "running"}) /\ old.base = "source" THEN i ELSE t
  BY <1>7 DEF NameOfClaim, NameInPvMap
<1>12. NameOfClaim(p, v) \in {old, i, t} BY <1>11
<1>13. /\ NameOfClaim(p, v) \in Targets /\ NameOfClaim(p, v).tail \in {0, p.suffix}
       /\ NameOfClaim(p, v).base = old.base
  BY <1>3, <1>5, <1>12
<1>14. setup.vols[v].kind # "sts" /\ old.tail # 0 => NameOfClaim(p, v) = old
  BY <1>3, <1>6, <1>10, <1>11
<1>15. NameOfClaim(p, v) = NameInPvMap(p, v) <=>
        ~(/\ p.type = "conversion" /\ setup.vols[v].kind = "sts"
          /\ world.vols[v].pods = "pending" /\ old.base = "source")
  BY <1>8, <1>9, <1>10, <1>11 DEF Conversion
<1> QED BY <1>1, <1>13, <1>14, <1>15

\* A pass with another list.
LEMMA ListOnly ==
    ASSUME NEW p \in Passes, NEW P \in PvMaps
    PROVE  LET q == [p EXCEPT !.spec.pvs = P]
           IN  /\ q \in Passes
               /\ q.at = p.at /\ q.prev = p.prev /\ q.type = p.type /\ q.conds = p.conds
               /\ q.sticky = p.sticky /\ q.suffix = p.suffix /\ q.reconciled = p.reconciled
               /\ q.classes = p.classes /\ q.quiet = p.quiet /\ q.missed = p.missed
               /\ q.stale = p.stale
               /\ q.spec.pvs = P /\ q.spec.ns = p.spec.ns /\ q.spec.refresh = p.spec.refresh
               /\ q.spec.closed = p.spec.closed
<1>1. PICK s : s = [p.spec EXCEPT !.pvs = P] OBVIOUS
<1>2. p.spec \in Specs BY DEF Passes
<1>3. /\ s \in Specs /\ s.pvs = P /\ s.ns = p.spec.ns /\ s.refresh = p.spec.refresh
      /\ s.closed = p.spec.closed
  BY <1>1, <1>2 DEF Specs
<1>4. [p EXCEPT !.spec.pvs = P] = [p EXCEPT !.spec = s] BY <1>1
<1>5. PICK q : q = [p EXCEPT !.spec = s] OBVIOUS
<1>6. /\ q \in Passes
      /\ q.at = p.at /\ q.prev = p.prev /\ q.type = p.type /\ q.conds = p.conds
      /\ q.sticky = p.sticky /\ q.suffix = p.suffix /\ q.reconciled = p.reconciled
      /\ q.classes = p.classes /\ q.quiet = p.quiet /\ q.missed = p.missed
      /\ q.stale = p.stale /\ q.spec = s
  BY <1>3, <1>5 DEF Passes
<1> QED BY <1>3, <1>4, <1>5, <1>6

\* A pass with other storage classes.
LEMMA ClassesOnly ==
    ASSUME NEW p \in Passes, NEW K \in SUBSET StorageClasses
    PROVE  LET q == [p EXCEPT !.classes = K]
           IN  /\ q \in Passes
               /\ q.at = p.at /\ q.spec = p.spec /\ q.prev = p.prev /\ q.type = p.type
               /\ q.sticky = p.sticky /\ q.suffix = p.suffix /\ q.reconciled = p.reconciled
               /\ q.classes = K /\ q.quiet = p.quiet /\ q.missed = p.missed
               /\ q.stale = p.stale /\ q.conds = p.conds
BY DEF Passes

\* The list discovery makes of a pass that has validated.
LEMMA StagedFacts ==
    ASSUME Typed, NEW p \in Passes, p.suffix \in Randoms,
           Offered(p.spec.pvs), Tails(p.spec.pvs, p.suffix)
    PROVE  LET pvs == StagedPvs(p) IN
           /\ pvs \in [Found(p) -> PvRecords] /\ Found(p) \in SUBSET Vols
           /\ \A v \in Found(p) : /\ pvs[v].actions = SupportedActions(v)
                                  /\ pvs[v].target = NameOfClaim(p, v)
           /\ \A v \in Found(p) \cap DOMAIN p.spec.pvs :
                 pvs[v].sel = p.spec.pvs[v].sel
                 \/ (setup.vols[v].disk = "host" /\ pvs[v].sel.action \in SupportedActions(v))
<1> DEFINE Targets == [base : {"source", "user"}, inner : {0} \cup Randoms, tail : {0} \cup Randoms]
<1> DEFINE R(v) == AddPv(p.spec.pvs, v, DiscoveredPv(p, v))
<1>1. Found(p) \in SUBSET Vols BY DEF Found, Claims
<1>2. setup \in Setups BY DEF Typed
<1>3. \A v \in DOMAIN p.spec.pvs : p.spec.pvs[v] \in PvRecords
  BY DEF Passes, Specs, PvMaps
<1>4. ASSUME NEW v \in Vols
      PROVE  /\ DiscoveredPv(p, v) \in PvRecords
             /\ DiscoveredPv(p, v).actions = SupportedActions(v)
             /\ DiscoveredPv(p, v).target = NameOfClaim(p, v)
  <2>1. PICK n : n = NameOfClaim(p, v) OBVIOUS
  <2>2. n \in Targets BY <1>2, <2>1, NameFacts2
  <2>3. PICK A : A = SupportedActions(v) OBVIOUS
  <2>4. A \subseteq Actions BY <1>2, <2>3, SingleAction
  <2>5. PICK c : c = DestStorageClass(v) OBVIOUS
  <2>6. c \in StorageClasses \cup {""}
    BY <2>5 DEF DestStorageClass, WantedClass, StorageClasses
  <2>7. PICK s : s = DefaultSelection(v) OBVIOUS
  <2>8. s \in Selections
    <3>1. s = [action |-> IF "copy" \in SupportedActions(v) THEN "copy" ELSE "skip",
               class |-> c, mode |-> "", method |-> "filesystem"]
      BY <2>5, <2>7 DEF DefaultSelection, Selection
    <3>2. (IF "copy" \in SupportedActions(v) THEN "copy" ELSE "skip") \in Actions BY DEF Actions
    <3> QED BY <2>6, <3>1, <3>2 DEF Selections
  <2>9. DiscoveredPv(p, v) = [sel |-> s, target |-> n, actions |-> A, confirmed |-> FALSE,
                              proposed |-> 0]
    BY <2>1, <2>3, <2>7 DEF DiscoveredPv, Entry
  <2> QED BY <2>1, <2>2, <2>3, <2>4, <2>8, <2>9 DEF PvRecords
<1>5. ASSUME NEW v \in Vols
      PROVE  /\ R(v) \in PvRecords /\ R(v).actions = SupportedActions(v)
             /\ R(v).target = NameOfClaim(p, v)
             /\ v \in DOMAIN p.spec.pvs =>
                   R(v).sel = p.spec.pvs[v].sel
                   \/ (setup.vols[v].disk = "host" /\ R(v).sel.action \in SupportedActions(v))
  <2>1. PICK d : d = DiscoveredPv(p, v) OBVIOUS
  <2>2. d \in PvRecords /\ d.actions = SupportedActions(v) /\ d.target = NameOfClaim(p, v)
    BY <1>4, <2>1
  <2>3. CASE v \notin DOMAIN p.spec.pvs
    <3>1. R(v) = d BY <2>1, <2>3 DEF AddPv
    <3> QED BY <2>2, <2>3, <3>1
  <2>4. CASE v \in DOMAIN p.spec.pvs
    <3>1. R(v) = UpdatePv(p.spec.pvs[v], d) BY <2>1, <2>4 DEF AddPv
    <3>2. /\ R(v) \in PvRecords /\ R(v).target = d.target /\ R(v).actions = d.actions
          /\ IF Cardinality(d.actions) = 1 THEN R(v).sel.action \in d.actions
                                           ELSE R(v).sel = p.spec.pvs[v].sel
      BY <1>3, <2>2, <2>4, <3>1, UpdatePvFacts
    <3>3. Cardinality(d.actions) = 1 <=> setup.vols[v].disk = "host"
      BY <1>2, <2>2, SingleAction
    <3>4. R(v).actions = SupportedActions(v) /\ R(v).target = NameOfClaim(p, v) BY <2>2, <3>2
    <3>5. R(v).sel = p.spec.pvs[v].sel
          \/ (setup.vols[v].disk = "host" /\ R(v).sel.action \in SupportedActions(v))
      BY <2>2, <3>2, <3>3
    <3> HIDE DEF R
    <3> QED BY <3>2, <3>4, <3>5
  <2> QED BY <2>3, <2>4
<1> HIDE DEF R
<1>6. StagedPvs(p) = [v \in Found(p) |-> R(v)] BY DEF StagedPvs, R
<1> QED BY <1>1, <1>5, <1>6

\* What the list of a pass keeps of the stored one.
Lists(p) ==
    /\ Offered(p.spec.pvs) /\ Tails(p.spec.pvs, p.suffix)
    /\ ~p.stale => Kept(p.spec.pvs) /\ SameNames(p.spec.pvs)

\* Discovery keeps what was chosen and what was named.
LEMMA StagedLists ==
    ASSUME Typed, NEW p \in Passes, p.suffix \in Randoms, Lists(p), ~p.stale => p.spec = spec
    PROVE  LET pvs == StagedPvs(p) IN
           /\ Offered(pvs) /\ Tails(pvs, p.suffix)
           /\ ~p.stale => Kept(pvs) /\ SameNames(pvs)
<1>1. PICK pvs : pvs = StagedPvs(p) OBVIOUS
<1>2. /\ pvs \in [Found(p) -> PvRecords] /\ Found(p) \in SUBSET Vols
      /\ \A v \in Found(p) : /\ pvs[v].actions = SupportedActions(v)
                             /\ pvs[v].target = NameOfClaim(p, v)
      /\ \A v \in Found(p) \cap DOMAIN p.spec.pvs :
            pvs[v].sel = p.spec.pvs[v].sel
            \/ (setup.vols[v].disk = "host" /\ pvs[v].sel.action \in SupportedActions(v))
  BY <1>1, StagedFacts DEF Lists
<1>3. Offered(pvs) BY <1>2 DEF Offered
<1>4. \A v \in Found(p) :
        /\ pvs[v].target.tail \in {0, p.suffix}
        /\ setup.vols[v].kind # "sts" /\ v \in DOMAIN p.spec.pvs
           /\ p.spec.pvs[v].target.tail # 0 => pvs[v].target = p.spec.pvs[v].target
  BY <1>2, NameFacts2 DEF Lists
<1>5. Tails(pvs, p.suffix) BY <1>2, <1>4 DEF Tails
<1>6. ASSUME ~p.stale PROVE Kept(pvs)
  <2>1. DOMAIN ghost.chosen \subseteq DOMAIN spec.pvs /\ p.spec = spec
    BY <1>6 DEF Lists, Kept
  <2>2. ASSUME NEW v \in DOMAIN ghost.chosen \cap DOMAIN pvs
        PROVE  pvs[v].sel = ghost.chosen[v] \/ Forced(pvs[v])
    <3>1. v \in Found(p) \cap DOMAIN p.spec.pvs /\ v \in Vols BY <1>2, <2>1, <2>2
    <3>2. p.spec.pvs[v].sel = ghost.chosen[v] \/ Forced(p.spec.pvs[v])
      BY <1>6, <2>2, <3>1 DEF Lists, Kept
    <3>3. p.spec.pvs[v].actions \in {SupportedActions(v), SupportedActions(v) \ {"move"}}
      BY <3>1 DEF Lists, Offered
    <3>4. setup \in Setups BY DEF Typed
    <3>5. /\ Cardinality(p.spec.pvs[v].actions) = 1 <=> setup.vols[v].disk = "host"
          /\ Cardinality(pvs[v].actions) = 1 <=> setup.vols[v].disk = "host"
      BY <1>2, <3>1, <3>3, <3>4, SingleAction
    <3>6. CASE setup.vols[v].disk = "host"
      <4>1. SupportedActions(v) = {"skip"} BY <3>6 DEF SupportedActions
      <4>2. p.spec.pvs[v].actions = {"skip"} /\ pvs[v].actions = {"skip"}
        BY <1>2, <3>1, <3>3, <4>1
      <4>3. pvs[v].sel = p.spec.pvs[v].sel \/ pvs[v].sel.action \in pvs[v].actions
        BY <1>2, <3>1
      <4> QED BY <3>2, <3>5, <3>6, <4>2, <4>3 DEF Forced
    <3>7. CASE setup.vols[v].disk # "host"
      BY <1>2, <3>1, <3>2, <3>5, <3>7 DEF Forced
    <3> QED BY <3>6, <3>7
  <2> QED BY <2>1, <2>2 DEF Kept
<1>7. ASSUME ~p.stale PROVE SameNames(pvs)
  <2>1. p.spec = spec /\ DOMAIN pvs = Found(p) BY <1>2, <1>7
  <2> QED BY <1>4, <2>1 DEF SameNames
<1> QED BY <1>1, <1>3, <1>5, <1>6, <1>7

\* q is what discovery makes of p: another list, and more conditions.
Finds(p, q) ==
    /\ q \in Passes
    /\ q.at = p.at /\ q.prev = p.prev /\ q.type = p.type /\ q.sticky = p.sticky
    /\ q.suffix = p.suffix /\ q.reconciled = p.reconciled /\ q.quiet = p.quiet
    /\ q.missed = p.missed /\ q.stale = p.stale
    /\ q.spec.ns = p.spec.ns /\ q.spec.refresh = p.spec.refresh /\ q.spec.closed = p.spec.closed
    /\ p.conds \subseteq q.conds
    /\ q.conds \cap (Reserved \ {"PvsDiscovered"}) = p.conds \cap (Reserved \ {"PvsDiscovered"})

\* Finding twice is finding.
LEMMA FindsTrans ==
    ASSUME NEW p, NEW q, NEW r, Finds(p, q), Finds(q, r) PROVE Finds(p, r)
BY DEF Finds

\* Discovery sets conditions.
LEMMA WithFinds ==
    ASSUME NEW p \in Passes, NEW T \in SUBSET (Sayable \cup {"PvsDiscovered"})
    PROVE  LET q == With(p, T) IN
           /\ Finds(p, q) /\ q.conds = p.conds \cup T /\ q.spec = p.spec /\ q.classes = p.classes
<1>1. "PvsDiscovered" \in Reserved BY DEF Reserved
<1>2. p.conds \cup T \in SUBSET CondTypes BY <1>1, SayableFacts DEF Passes
<1>3. With(p, T) = [p EXCEPT !.conds = p.conds \cup T] BY DEF With
<1>4. T \cap (Reserved \ {"PvsDiscovered"}) = {} BY SayableFacts
<1> QED BY <1>2, <1>3, <1>4, CondsOnly DEF Finds

\* A pass with the same list keeps it.
LEMMA SameLists ==
    ASSUME NEW p, NEW q, Lists(p), q.spec.pvs = p.spec.pvs, q.suffix = p.suffix, q.stale = p.stale
    PROVE  Lists(q)
BY DEF Lists

\* Discovery lists what is due, or nothing is said of it.
LEMMA UpdatePvsFacts ==
    ASSUME Typed, NEW p \in Passes, p.suffix \in Randoms, Lists(p), ~p.stale => p.spec = spec,
           "PvsDiscovered" \notin p.conds
    PROVE  LET q == UpdatePvs(p) IN
           /\ Finds(p, q) /\ Lists(q)
           /\ ~Suspended(p) /\ "PvsDiscovered" \in q.conds =>
                 /\ q.classes = DestClasses
                 /\ ~Opt("noClaims") => DOMAIN q.spec.pvs = Due(p.type, p.spec.ns, q.spec.pvs)
<1> DEFINE Goal(q) ==
        /\ Finds(p, q) /\ Lists(q)
        /\ ~Suspended(p) /\ "PvsDiscovered" \in q.conds =>
              /\ q.classes = DestClasses
              /\ ~Opt("noClaims") => DOMAIN q.spec.pvs = Due(p.type, p.spec.ns, q.spec.pvs)
<1>1. PICK c : c = [p EXCEPT !.classes = DestClasses] OBVIOUS
<1>2. PICK w : w = With(c, {"PvsDiscovered"}) OBVIOUS
<1>3. PICK P : P = StagedPvs(c) OBVIOUS
<1>4. PICK l : l = [w EXCEPT !.spec.pvs = P] OBVIOUS
<1>5. PICK e : e = [w EXCEPT !.spec.pvs = NoPvs] OBVIOUS
<1>6. \E b1, b2 : UpdatePvs(p) =
          IF Suspended(p) THEN Stage(p, KeptWhileSuspended)
          ELSE IF HasAny(p, NoDiscoveryWith) \/ \E s \in Sides : ~Reachable(s) THEN p
          ELSE IF Opt("noClaims") THEN e
          ELSE Raise(Raise(l, "PvWarnNoCephAvailable", b1), "PvLimitExceeded", b2)
  BY <1>1, <1>2, <1>3, <1>4, <1>5 DEF UpdatePvs
<1>7. /\ c \in Passes /\ c.classes = DestClasses /\ Finds(p, c) /\ c.spec = p.spec
      /\ c.suffix = p.suffix /\ c.stale = p.stale /\ c.type = p.type
  <2>1. DestClasses \in SUBSET StorageClasses BY DEF DestClasses
  <2> QED BY <1>1, <2>1, ClassesOnly DEF Finds
<1>8. /\ Finds(p, w) /\ w \in Passes /\ w.spec = p.spec /\ w.classes = DestClasses
      /\ "PvsDiscovered" \in w.conds
  <2>1. /\ Finds(c, w) /\ w.conds = c.conds \cup {"PvsDiscovered"} /\ w.spec = c.spec
        /\ w.classes = c.classes
    BY <1>2, <1>7, WithFinds
  <2> QED BY <1>7, <2>1, FindsTrans DEF Finds
<1>9. Lists(c) BY <1>7, SameLists
<1>10. /\ P \in [Found(c) -> PvRecords] /\ Found(c) \in SUBSET Vols
       /\ \A v \in Found(c) : P[v].target = NameOfClaim(c, v)
  BY <1>3, <1>7, <1>9, StagedFacts DEF Lists
<1>11. /\ Offered(P) /\ Tails(P, p.suffix)
       /\ ~p.stale => Kept(P) /\ SameNames(P)
  BY <1>3, <1>7, <1>9, StagedLists
<1>12. /\ P \in PvMaps /\ NoPvs \in PvMaps
  <2>1. Vols \subseteq Volumes BY SetupsAssumption DEF Typed, Vols
  <2>2. NoPvs \in [{} -> PvRecords] BY DEF NoPvs
  <2>3. {} \in SUBSET Vols OBVIOUS
  <2> QED BY <1>10, <2>2, <2>3 DEF PvMaps
<1>13. Due(p.type, p.spec.ns, P) = Found(c)
  <2>1. ASSUME NEW v \in Vols PROVE v \in Due(p.type, p.spec.ns, P) <=> v \in Found(c)
    <3>1. PICK n : n = NameOfClaim(c, v) OBVIOUS
    <3>2. PICK old : old = IF v \in DOMAIN c.spec.pvs THEN c.spec.pvs[v].target ELSE SourceName
      OBVIOUS
    <3>3. /\ n.base = old.base
          /\ n = NameInPvMap(c, v) <=>
               ~(/\ p.type = "conversion" /\ setup.vols[v].kind = "sts"
                 /\ world.vols[v].pods = "pending" /\ old.base = "source")
      BY <1>7, <1>9, <3>1, <3>2, NameFacts2 DEF Lists
    <3>4. v \in Claims(c) <=>
            /\ setup.vols[v].ns \in p.spec.ns /\ setup.vols[v].kind \notin {"temp", "made"}
            /\ ~(setup.vols[v].kind = "other" /\ p.type = "conversion")
      BY <1>7 DEF Claims, ClaimSkipped, Conversion
    <3>5. v \in Found(c) <=> v \in Claims(c) /\ world.vols[v].bound /\ n = NameInPvMap(c, v)
      BY <3>1 DEF Found, Claims
    <3>6. DOMAIN P = Found(c) /\ (v \in Found(c) => P[v].target.base = old.base)
      BY <1>10, <3>1, <3>3
    <3>7. v \in Due(p.type, p.spec.ns, P) <=>
            /\ v \in Claims(c) /\ world.vols[v].bound
            /\ ~(/\ p.type = "conversion" /\ setup.vols[v].kind = "sts"
                 /\ world.vols[v].pods = "pending"
                 /\ v \in DOMAIN P => P[v].target.base = "source")
      BY <3>4 DEF Due
    <3>8. CASE v \in Found(c) BY <3>3, <3>5, <3>6, <3>7, <3>8
    <3>9. CASE v \notin Found(c) BY <3>3, <3>5, <3>6, <3>7, <3>9
    <3> QED BY <3>8, <3>9
  <2> QED BY <2>1, <1>10 DEF Due
<1>14. /\ Finds(p, l) /\ l \in Passes /\ l.spec.pvs = P /\ l.classes = DestClasses /\ Lists(l)
  <2>1. /\ l \in Passes /\ l.spec.pvs = P /\ l.classes = DestClasses
        /\ l.suffix = w.suffix /\ l.stale = w.stale
        /\ Finds(w, l)
    BY <1>4, <1>8, <1>12, ListOnly DEF Finds
  <2>2. Lists(l) BY <1>8, <1>11, <2>1 DEF Lists, Finds
  <2> QED BY <1>8, <2>1, <2>2, FindsTrans
<1>15. /\ Finds(p, e) /\ e.classes = DestClasses /\ Lists(e)
  <2>1. /\ e \in Passes /\ e.spec.pvs = NoPvs /\ e.classes = DestClasses
        /\ e.suffix = w.suffix /\ e.stale = w.stale
        /\ Finds(w, e)
    BY <1>5, <1>8, <1>12, ListOnly DEF Finds
  <2>2. DOMAIN NoPvs = {} BY DEF NoPvs
  <2>3. Lists(e)
    <3>1. e.stale = p.stale BY <1>8, <2>1 DEF Finds
    <3>2. Offered(NoPvs) /\ Tails(NoPvs, e.suffix) /\ SameNames(NoPvs)
      BY <2>2 DEF Offered, Tails, SameNames
    <3>3. ~p.stale => Kept(NoPvs) BY <2>2 DEF Lists, Kept
    <3> QED BY <2>1, <3>1, <3>2, <3>3 DEF Lists
  <2> QED BY <1>8, <2>1, <2>3, FindsTrans
<1>16. ASSUME Suspended(p) PROVE Goal(Stage(p, KeptWhileSuspended))
  <2>1. KeptWhileSuspended \subseteq Sayable \cup {"PvsDiscovered"}
    BY SayableFacts DEF KeptWhileSuspended, Notes
  <2>2. KeptWhileSuspended \cap p.prev \in SUBSET (Sayable \cup {"PvsDiscovered"}) BY <2>1
  <2>3. PICK q : q = Stage(p, KeptWhileSuspended) OBVIOUS
  <2>4. Finds(p, q) /\ q.spec = p.spec BY <2>2, <2>3, WithFinds DEF Stage
  <2>5. Lists(q) BY <2>4, SameLists DEF Finds
  <2> QED BY <1>16, <2>3, <2>4, <2>5
<1>17. Goal(p) BY DEF Finds
<1>18. Opt("noClaims") => Goal(e) BY <1>15
<1>19. \A b1, b2 : Goal(Raise(Raise(l, "PvWarnNoCephAvailable", b1), "PvLimitExceeded", b2))
  <2>1. TAKE b1, b2
  <2>2. PICK r : r = Raise(l, "PvWarnNoCephAvailable", b1) OBVIOUS
  <2>3. PICK q : q = Raise(r, "PvLimitExceeded", b2) OBVIOUS
  <2>4. "PvWarnNoCephAvailable" \in Sayable /\ "PvLimitExceeded" \in Sayable
    BY SayableFacts DEF Notes
  <2>5. Adds(l, r) BY <1>14, <2>2, <2>4, RaiseAdds
  <2>6. r \in Passes BY <2>5 DEF Adds
  <2>7. Adds(r, q) BY <2>3, <2>4, <2>6, RaiseAdds
  <2>8. Adds(l, q) BY <2>5, <2>7, AddsTrans
  <2>9. l.conds \subseteq q.conds
    <3>1. r = l \/ r.conds = l.conds \cup {"PvWarnNoCephAvailable"}
      BY <1>14, <2>2, <2>4, WithAdds DEF Raise
    <3>2. q = r \/ q.conds = r.conds \cup {"PvLimitExceeded"}
      BY <2>3, <2>4, <2>6, WithAdds DEF Raise
    <3> QED BY <3>1, <3>2
  <2>10. Finds(l, q) BY <2>8, <2>9 DEF Adds, Finds
  <2>11. Finds(p, q) BY <1>14, <2>10, FindsTrans
  <2>12. q.spec.pvs = P /\ q.classes = DestClasses /\ Lists(q)
    BY <1>14, <2>8, SameLists DEF Adds
  <2>13. DOMAIN P = Found(c) BY <1>10
  <2>14. Goal(q) BY <1>13, <2>11, <2>12, <2>13
  <2> QED BY <2>2, <2>3, <2>14
<1> HIDE DEF Goal
<1>20. Goal(UpdatePvs(p)) BY <1>6, <1>16, <1>17, <1>18, <1>19
<1> QED BY <1>20 DEF Goal

\* What the try of the NFS volumes leaves.
LEMMA NfsFacts ==
    ASSUME Typed, NEW p \in Passes, Lists(p)
    PROVE  LET q == NfsValidation(p) IN
           /\ Finds(p, q) /\ Lists(q) /\ q.classes = p.classes
           /\ DOMAIN q.spec.pvs = DOMAIN p.spec.pvs
           /\ \A v \in DOMAIN p.spec.pvs : q.spec.pvs[v].target = p.spec.pvs[v].target
           /\ ~Suspended(p) /\ "PvsDiscovered" \in p.conds /\ Free(q.conds) =>
                 /\ Flaw("noVeleroPod") => Opt("hostDestination")
                 /\ \A v \in DOMAIN q.spec.pvs :
                       Flaw("nfsDown") /\ setup.vols[v].disk = "nfs"
                       /\ q.spec.pvs[v].sel.action = "move" =>
                          "move" \notin q.spec.pvs[v].actions
<1> DEFINE Goal(q) ==
        /\ Finds(p, q) /\ Lists(q) /\ q.classes = p.classes
        /\ DOMAIN q.spec.pvs = DOMAIN p.spec.pvs
        /\ \A v \in DOMAIN p.spec.pvs : q.spec.pvs[v].target = p.spec.pvs[v].target
        /\ ~Suspended(p) /\ "PvsDiscovered" \in p.conds /\ Free(q.conds) =>
              /\ Flaw("noVeleroPod") => Opt("hostDestination")
              /\ \A v \in DOMAIN q.spec.pvs :
                    Flaw("nfsDown") /\ setup.vols[v].disk = "nfs"
                    /\ q.spec.pvs[v].sel.action = "move" =>
                       "move" \notin q.spec.pvs[v].actions
<1>1. PICK X : X = IF Flaw("nfsDown")
                   THEN {v \in DOMAIN p.spec.pvs :
                           setup.vols[v].disk = "nfs" /\ p.spec.pvs[v].sel.action # "copy"}
                   ELSE {}
  OBVIOUS
<1>2. PICK P : P = [v \in DOMAIN p.spec.pvs |->
                      IF v \in X THEN WithoutMove(p.spec.pvs[v]) ELSE p.spec.pvs[v]]
  OBVIOUS
<1>3. PICK k : k = [p EXCEPT !.spec.pvs = P] OBVIOUS
<1>4. NfsValidation(p) =
        IF "PvsDiscovered" \notin p.conds THEN p
        ELSE IF Suspended(p) THEN Stage(p, {"NfsNotAccessible"})
        ELSE IF ~Opt("hostDestination") /\ Flaw("noVeleroPod")
             THEN With(p, {"NfsAccessCannotBeValidated"})
        ELSE Raise(k, "NfsNotAccessible", X # {})
  BY <1>1, <1>2, <1>3 DEF NfsValidation
<1>5. p.spec.pvs \in PvMaps BY DEF Passes, Specs
<1>6. PICK S \in SUBSET Vols : p.spec.pvs \in [S -> PvRecords] BY <1>5 DEF PvMaps
<1>7. \A v \in DOMAIN p.spec.pvs : p.spec.pvs[v] \in PvRecords BY <1>6
<1>8. ASSUME NEW v \in DOMAIN p.spec.pvs
      PROVE  /\ P[v] \in PvRecords /\ P[v].target = p.spec.pvs[v].target
             /\ P[v].sel = p.spec.pvs[v].sel
             /\ P[v].actions = IF v \in X THEN p.spec.pvs[v].actions \ {"move"}
                                          ELSE p.spec.pvs[v].actions
  <2>1. PICK o : o = p.spec.pvs[v] OBVIOUS
  <2>2. o \in PvRecords BY <1>7, <2>1
  <2>3. CASE v \in X
    <3>1. P[v] = [o EXCEPT !.actions = o.actions \ {"move"}] BY <1>2, <2>1, <2>3 DEF WithoutMove
    <3>2. o.actions \ {"move"} \in SUBSET Actions BY <2>2 DEF PvRecords
    <3> QED BY <2>1, <2>2, <2>3, <3>1, <3>2 DEF PvRecords
  <2>4. CASE v \notin X BY <1>2, <2>1, <2>2, <2>4
  <2> QED BY <2>3, <2>4
<1>9. DOMAIN P = DOMAIN p.spec.pvs /\ P \in [S -> PvRecords] BY <1>2, <1>6, <1>8
<1>10. P \in PvMaps BY <1>9 DEF PvMaps
<1>11. /\ k \in Passes /\ k.spec.pvs = P /\ k.classes = p.classes /\ k.suffix = p.suffix
       /\ k.stale = p.stale /\ k.conds = p.conds /\ Finds(p, k)
  BY <1>3, <1>10, ListOnly DEF Finds
<1>12. \A v \in X : v \in DOMAIN p.spec.pvs /\ setup.vols[v].disk = "nfs"
  BY <1>1
<1>13. Offered(P)
  BY <1>8, <1>9, <1>12 DEF Lists, Offered
<1>14. Tails(P, k.suffix)
  BY <1>8, <1>9, <1>11 DEF Lists, Tails
<1>15. SameNames(p.spec.pvs) => SameNames(P)
  BY <1>8, <1>9 DEF SameNames
<1>16. Kept(p.spec.pvs) => Kept(P)
  <2>1. ASSUME NEW v \in DOMAIN P, Forced(p.spec.pvs[v]) PROVE v \notin X
    <3>1. SUFFICES ASSUME v \in X PROVE FALSE OBVIOUS
    <3>2. v \in Vols /\ setup.vols[v].disk = "nfs" /\ v \in DOMAIN p.spec.pvs
      BY <1>6, <1>9, <1>12, <3>1
    <3>3. p.spec.pvs[v].actions \in {SupportedActions(v), SupportedActions(v) \ {"move"}}
      BY <3>2 DEF Lists, Offered
    <3>4. setup \in Setups BY DEF Typed
    <3>5. Cardinality(p.spec.pvs[v].actions) # 1 BY <3>2, <3>3, <3>4, SingleAction
    <3> QED BY <2>1, <3>5 DEF Forced
  <2>2. ASSUME NEW v \in DOMAIN P, Forced(p.spec.pvs[v]) PROVE Forced(P[v])
    <3>1. P[v].sel = p.spec.pvs[v].sel /\ P[v].actions = p.spec.pvs[v].actions
      BY <1>8, <1>9, <2>1, <2>2
    <3> QED BY <2>2, <3>1 DEF Forced
  <2>3. \A v \in DOMAIN P : P[v].sel = p.spec.pvs[v].sel BY <1>8, <1>9
  <2> QED BY <1>9, <2>2, <2>3 DEF Kept
<1>17. Lists(k) BY <1>11, <1>13, <1>14, <1>15, <1>16 DEF Lists
<1>18. ASSUME NEW T \in SUBSET Sayable, NEW q, q = With(p, T)
       PROVE  Finds(p, q) /\ Lists(q) /\ q.classes = p.classes /\ q.spec = p.spec
              /\ q.conds = p.conds \cup T
  <2>1. T \in SUBSET (Sayable \cup {"PvsDiscovered"}) OBVIOUS
  <2>2. Finds(p, q) /\ q.classes = p.classes /\ q.spec = p.spec /\ q.conds = p.conds \cup T
    BY <1>18, <2>1, WithFinds
  <2>3. q.suffix = p.suffix /\ q.stale = p.stale BY <2>2 DEF Finds
  <2> QED BY <2>2, <2>3, SameLists
<1>19. "NfsNotAccessible" \in Sayable BY SayableFacts DEF Notes
<1>20. "PvsDiscovered" \notin p.conds => Goal(p) BY DEF Finds
<1>21. Suspended(p) => Goal(Stage(p, {"NfsNotAccessible"}))
  <2>1. {"NfsNotAccessible"} \cap p.prev \in SUBSET Sayable BY <1>19
  <2>2. PICK q : q = With(p, {"NfsNotAccessible"} \cap p.prev) OBVIOUS
  <2>3. Finds(p, q) /\ Lists(q) /\ q.classes = p.classes /\ q.spec = p.spec
    BY <1>18, <2>1, <2>2
  <2> QED BY <2>2, <2>3 DEF Stage
<1>22. Goal(With(p, {"NfsAccessCannotBeValidated"}))
  <2>1. "NfsAccessCannotBeValidated" \in ErrorConditions BY DEF ErrorConditions
  <2>2. {"NfsAccessCannotBeValidated"} \in SUBSET Sayable BY <2>1, PlanBlocks
  <2>3. PICK q : q = With(p, {"NfsAccessCannotBeValidated"}) OBVIOUS
  <2>4. /\ Finds(p, q) /\ Lists(q) /\ q.classes = p.classes /\ q.spec = p.spec
        /\ q.conds = p.conds \cup {"NfsAccessCannotBeValidated"}
    BY <1>18, <2>2, <2>3
  <2>5. ~Free(q.conds) BY <2>1, <2>4, PlanBlocks DEF Free
  <2> QED BY <2>3, <2>4, <2>5
<1>23. ~(~Opt("hostDestination") /\ Flaw("noVeleroPod")) =>
          Goal(Raise(k, "NfsNotAccessible", X # {}))
  <2>1. PICK q : q = Raise(k, "NfsNotAccessible", X # {}) OBVIOUS
  <2>2. q = k \/ q = With(k, {"NfsNotAccessible"}) BY <2>1 DEF Raise
  <2>3. {"NfsNotAccessible"} \in SUBSET (Sayable \cup {"PvsDiscovered"}) BY <1>19
  <2>4. Finds(k, q) /\ q.spec = k.spec /\ q.classes = k.classes
    BY <1>11, <2>2, <2>3, WithFinds DEF Finds
  <2>5. Finds(p, q) BY <1>11, <2>4, FindsTrans
  <2>6. q.suffix = k.suffix /\ q.stale = k.stale BY <2>4 DEF Finds
  <2>7. Lists(q) BY <1>17, <2>4, <2>6, SameLists
  <2>8. q.spec.pvs = P BY <1>11, <2>4
  <2>9. ASSUME NEW v \in DOMAIN P, Flaw("nfsDown"), setup.vols[v].disk = "nfs",
               P[v].sel.action = "move"
        PROVE  "move" \notin P[v].actions
    <3>1. v \in X BY <1>1, <1>8, <1>9, <2>9
    <3> QED BY <1>8, <1>9, <3>1
  <2>10. \A v \in DOMAIN p.spec.pvs : P[v].target = p.spec.pvs[v].target BY <1>8
  <2>11. ~(~Opt("hostDestination") /\ Flaw("noVeleroPod")) => Goal(q)
    BY <1>9, <1>11, <2>4, <2>5, <2>7, <2>8, <2>9, <2>10
  <2> HIDE DEF Goal
  <2> QED BY <2>1, <2>11
<1> HIDE DEF Goal
<1>24. Goal(NfsValidation(p)) BY <1>4, <1>20, <1>21, <1>22, <1>23
<1> QED BY <1>24 DEF Goal

\* A selection in order, or something that blocks the plan.
LEMMA ProblemsFacts ==
    ASSUME NEW p \in Passes, NEW pv \in PvRecords
    PROVE  /\ PvProblems(p, pv) \subseteq Sayable
           /\ PvProblems(p, pv) \cap Blockers = {} =>
                 /\ ~BadAction(pv)
                 /\ pv.sel.action = "copy" =>
                       /\ pv.sel.class # "" => pv.sel.class \in p.classes /\ pv.sel.mode # "bad"
                       /\ pv.sel.method \in {"filesystem", "block", "snapshot"}
<1>1. {"PvInvalidAction", "PvInvalidStorageClass", "PvInvalidAccessMode", "PvNameConflict",
       "PvNoCopyMethodSelection", "PvInvalidCopyMethod"} \subseteq ErrorConditions
  BY DEF ErrorConditions
<1>2. {"PvNoStorageClassSelection", "PvWarnAccessModeUnavailable", "PvWarnCopyMethodSnapshot"}
        \subseteq Notes
  BY DEF Notes
<1>3. PICK A : A = IF BadAction(pv) THEN {"PvInvalidAction"} ELSE {} OBVIOUS
<1>4. PICK C : C = IF pv.sel.class = "" THEN {"PvNoStorageClassSelection"}
                   ELSE IF pv.sel.class \notin p.classes THEN {"PvInvalidStorageClass"}
                   ELSE IF pv.sel.mode = "bad" THEN {"PvInvalidAccessMode"}
                   ELSE IF pv.sel.mode = "rare" THEN {"PvWarnAccessModeUnavailable"} ELSE {}
  OBVIOUS
<1>5. PICK M : M = IF pv.sel.method = "" THEN {"PvNoCopyMethodSelection"}
                   ELSE IF pv.sel.method \notin {"filesystem", "block", "snapshot"}
                        THEN {"PvInvalidCopyMethod"}
                   ELSE IF pv.sel.method = "snapshot" THEN {"PvWarnCopyMethodSnapshot"} ELSE {}
  OBVIOUS
<1>6. PICK N : N = IF Conversion(p) /\ pv.target = SourceName THEN {"PvNameConflict"} ELSE {}
  OBVIOUS
<1>7. PvProblems(p, pv) = A \cup (IF ~Copied(pv) THEN {} ELSE C \cup M \cup N)
  BY <1>3, <1>4, <1>5, <1>6, Zenon DEF PvProblems
<1>8. /\ A \subseteq Sayable /\ C \subseteq Sayable /\ M \subseteq Sayable /\ N \subseteq Sayable
  <2>1. A \subseteq ErrorConditions /\ N \subseteq ErrorConditions BY <1>1, <1>3, <1>6
  <2>2. C \subseteq ErrorConditions \cup Notes BY <1>1, <1>2, <1>4
  <2>3. M \subseteq ErrorConditions \cup Notes BY <1>1, <1>2, <1>5
  <2> QED BY <2>1, <2>2, <2>3, PlanBlocks, SayableFacts
<1>9. ASSUME PvProblems(p, pv) \cap Blockers = {}
      PROVE  /\ ~BadAction(pv)
             /\ pv.sel.action = "copy" =>
                   /\ pv.sel.class # "" => pv.sel.class \in p.classes /\ pv.sel.mode # "bad"
                   /\ pv.sel.method \in {"filesystem", "block", "snapshot"}
  <2>1. PvProblems(p, pv) \cap ErrorConditions = {} BY <1>9, PlanBlocks
  <2>2. ~BadAction(pv) BY <1>1, <1>3, <1>7, <2>1
  <2>3. ASSUME pv.sel.action = "copy"
        PROVE  /\ pv.sel.class # "" => pv.sel.class \in p.classes /\ pv.sel.mode # "bad"
               /\ pv.sel.method \in {"filesystem", "block", "snapshot"}
    <3>1. PvProblems(p, pv) = A \cup (C \cup M \cup N) BY <1>7, <2>2, <2>3 DEF Copied
    <3>2. C \cap ErrorConditions = {} /\ M \cap ErrorConditions = {} BY <2>1, <3>1
    <3>3. pv.sel.class # "" => pv.sel.class \in p.classes /\ pv.sel.mode # "bad"
      BY <1>1, <1>4, <3>2
    <3>4. pv.sel.method \in {"filesystem", "block", "snapshot"} BY <1>1, <1>5, <3>2
    <3> QED BY <3>3, <3>4
  <2> QED BY <2>2, <2>3
<1> QED BY <1>7, <1>8, <1>9

\* The check of the selections only adds conditions, and finds what is wrong.
LEMMA SelectionsFacts ==
    ASSUME NEW p \in Passes
    PROVE  LET q == ValidatePvSelections(p) IN
           /\ Finds(p, q) /\ q.spec = p.spec
           /\ ~Suspended(p) /\ Free(q.conds) =>
                 /\ \A v \in DOMAIN p.spec.pvs :
                       LET pv == p.spec.pvs[v] IN
                       /\ ~BadAction(pv)
                       /\ pv.sel.action = "copy" =>
                             /\ pv.sel.class # "" => pv.sel.class \in p.classes /\ pv.sel.mode # "bad"
                             /\ pv.sel.method \in {"filesystem", "block", "snapshot"}
                 /\ p.type = "conversion" =>
                       /\ ~(Cardinality(p.classes) < 2)
                       /\ \E v \in DOMAIN p.spec.pvs : p.spec.pvs[v].sel.action # "skip"
<1>1. PICK U : U = UNION {PvProblems(p, p.spec.pvs[v]) : v \in DOMAIN p.spec.pvs} OBVIOUS
<1>2. PICK K : K = ConversionProblems(p) OBVIOUS
<1>3. ValidatePvSelections(p) = IF Suspended(p) THEN p ELSE With(p, U \cup K)
  BY <1>1, <1>2 DEF ValidatePvSelections
<1>4. \A v \in DOMAIN p.spec.pvs : p.spec.pvs[v] \in PvRecords BY DEF Passes, Specs, PvMaps
<1>5. U \subseteq Sayable
  <2>1. \A v \in DOMAIN p.spec.pvs : PvProblems(p, p.spec.pvs[v]) \subseteq Sayable
    BY <1>4, ProblemsFacts
  <2> QED BY <1>1, <2>1
<1>6. "StorageClassConversionUnavailable" \in PlanTypes BY DEF PlanTypes
<1>7. K \subseteq Sayable BY <1>2, <1>6, PlanBlocks DEF ConversionProblems
<1>8. CASE Suspended(p) BY <1>3, <1>8 DEF Finds
<1>9. CASE ~Suspended(p)
  <2>1. PICK q : q = With(p, U \cup K) OBVIOUS
  <2>2. Finds(p, q) /\ q.conds = p.conds \cup (U \cup K) /\ q.spec = p.spec
    BY <1>5, <1>7, <2>1, WithFinds
  <2>3. ASSUME Free(q.conds), NEW v \in DOMAIN p.spec.pvs
        PROVE  /\ ~BadAction(p.spec.pvs[v])
               /\ p.spec.pvs[v].sel.action = "copy" =>
                     /\ p.spec.pvs[v].sel.class # "" =>
                           p.spec.pvs[v].sel.class \in p.classes /\ p.spec.pvs[v].sel.mode # "bad"
                     /\ p.spec.pvs[v].sel.method \in {"filesystem", "block", "snapshot"}
    <3>1. PvProblems(p, p.spec.pvs[v]) \subseteq U BY <1>1
    <3>2. PvProblems(p, p.spec.pvs[v]) \cap Blockers = {} BY <2>2, <2>3, <3>1 DEF Free
    <3> QED BY <1>4, <3>2, ProblemsFacts
  <2>4. ASSUME Free(q.conds), p.type = "conversion"
        PROVE  /\ ~(Cardinality(p.classes) < 2)
               /\ \E v \in DOMAIN p.spec.pvs : p.spec.pvs[v].sel.action # "skip"
    <3>1. "StorageClassConversionUnavailable" \notin K BY <1>6, <2>2, <2>4, PlanBlocks DEF Free
    <3>2. \A v \in DOMAIN p.spec.pvs : ~BadAction(p.spec.pvs[v]) BY <2>3, <2>4
    <3>3. ~(\/ \A v \in DOMAIN p.spec.pvs :
                 ~BadAction(p.spec.pvs[v]) /\ p.spec.pvs[v].sel.action = "skip"
            \/ Cardinality(p.classes) < 2)
      BY <1>2, <2>4, <3>1 DEF ConversionProblems, Conversion
    <3> QED BY <3>2, <3>3
  <2> QED BY <1>3, <1>9, <2>1, <2>2, <2>3, <2>4
<1> QED BY <1>8, <1>9

\* Nothing but the discovery says that the volumes are discovered.
LEMMA NfsPvs ==
    ASSUME NEW p \in Passes, "PvsDiscovered" \in NfsValidation(p).conds
    PROVE  "PvsDiscovered" \in p.conds
<1>1. CASE "PvsDiscovered" \in p.conds BY <1>1
<1>2. CASE "PvsDiscovered" \notin p.conds
  <2>1. NfsValidation(p) = p BY <1>2 DEF NfsValidation
  <2> QED BY <2>1
<1> QED BY <1>1, <1>2

\* It does not say that the volumes are discovered.
LEMMA SelectionsPvs ==
    ASSUME NEW p \in Passes, "PvsDiscovered" \in ValidatePvSelections(p).conds
    PROVE  "PvsDiscovered" \in p.conds
<1>1. PICK U : U = UNION {PvProblems(p, p.spec.pvs[v]) : v \in DOMAIN p.spec.pvs} OBVIOUS
<1>2. PICK K : K = ConversionProblems(p) OBVIOUS
<1>3. ValidatePvSelections(p) = IF Suspended(p) THEN p ELSE With(p, U \cup K)
  BY <1>1, <1>2 DEF ValidatePvSelections
<1>4. \A v \in DOMAIN p.spec.pvs : p.spec.pvs[v] \in PvRecords BY DEF Passes, Specs, PvMaps
<1>5. U \cup K \in SUBSET Sayable
  <2>1. \A v \in DOMAIN p.spec.pvs : PvProblems(p, p.spec.pvs[v]) \subseteq Sayable
    BY <1>4, ProblemsFacts
  <2>2. "StorageClassConversionUnavailable" \in PlanTypes BY DEF PlanTypes
  <2>3. K \subseteq Sayable BY <1>2, <2>2, PlanBlocks DEF ConversionProblems
  <2> QED BY <1>1, <2>1, <2>3
<1>6. Adds(p, With(p, U \cup K)) BY <1>5, WithAdds
<1> QED BY <1>3, <1>6 DEF Adds, Reserved

\* What a pass has discovered when it goes on to the storage.
LEMMA DiscoverFacts ==
    ASSUME Typed, NEW p \in Passes, p.suffix \in Randoms, Lists(p), ~p.stale => p.spec = spec,
           "PvsDiscovered" \notin p.conds
    PROVE  LET q == ValidatePvSelections(NfsValidation(UpdatePvs(p))) IN
           /\ Finds(p, q) /\ Lists(q)
           /\ ~Suspended(p) /\ "PvsDiscovered" \in q.conds /\ Free(q.conds) =>
                 Listing(p.type, p.spec.ns, q.spec.pvs)
<1>1. PICK u : u = UpdatePvs(p) OBVIOUS
<1>2. PICK n : n = NfsValidation(u) OBVIOUS
<1>3. PICK q : q = ValidatePvSelections(n) OBVIOUS
<1>4. /\ Finds(p, u) /\ Lists(u)
      /\ ~Suspended(p) /\ "PvsDiscovered" \in u.conds =>
            /\ u.classes = DestClasses
            /\ ~Opt("noClaims") => DOMAIN u.spec.pvs = Due(p.type, p.spec.ns, u.spec.pvs)
  BY <1>1, UpdatePvsFacts
<1>5. u \in Passes BY <1>4 DEF Finds
<1>6. /\ Finds(u, n) /\ Lists(n) /\ n.classes = u.classes
      /\ DOMAIN n.spec.pvs = DOMAIN u.spec.pvs
      /\ \A v \in DOMAIN u.spec.pvs : n.spec.pvs[v].target = u.spec.pvs[v].target
      /\ ~Suspended(u) /\ "PvsDiscovered" \in u.conds /\ Free(n.conds) =>
            /\ Flaw("noVeleroPod") => Opt("hostDestination")
            /\ \A v \in DOMAIN n.spec.pvs :
                  Flaw("nfsDown") /\ setup.vols[v].disk = "nfs"
                  /\ n.spec.pvs[v].sel.action = "move" =>
                     "move" \notin n.spec.pvs[v].actions
  BY <1>2, <1>4, <1>5, NfsFacts
<1>7. n \in Passes BY <1>6 DEF Finds
<1>8. /\ Finds(n, q) /\ q.spec = n.spec
      /\ ~Suspended(n) /\ Free(q.conds) =>
            /\ \A v \in DOMAIN n.spec.pvs :
                  LET pv == n.spec.pvs[v] IN
                  /\ ~BadAction(pv)
                  /\ pv.sel.action = "copy" =>
                        /\ pv.sel.class # "" => pv.sel.class \in n.classes /\ pv.sel.mode # "bad"
                        /\ pv.sel.method \in {"filesystem", "block", "snapshot"}
            /\ n.type = "conversion" =>
                  /\ ~(Cardinality(n.classes) < 2)
                  /\ \E v \in DOMAIN n.spec.pvs : n.spec.pvs[v].sel.action # "skip"
  BY <1>3, <1>7, SelectionsFacts
<1>9. Finds(p, n) /\ Finds(p, q) BY <1>4, <1>6, <1>8, FindsTrans
<1>10. Lists(q)
  <2>1. q.suffix = n.suffix /\ q.stale = n.stale BY <1>8 DEF Finds
  <2> QED BY <1>6, <1>8, <2>1, SameLists
<1>11. ASSUME ~Suspended(p), "PvsDiscovered" \in q.conds, Free(q.conds)
       PROVE  Listing(p.type, p.spec.ns, q.spec.pvs)
  <2>1. /\ Suspended(u) <=> Suspended(p)
        /\ Suspended(n) <=> Suspended(p)
    BY <1>4, <1>9 DEF Finds, Suspended, Reserved
  <2>2. n.conds \subseteq q.conds /\ Free(n.conds) BY <1>8, <1>11 DEF Finds, Free
  <2>3. "PvsDiscovered" \in u.conds
    <3>1. "PvsDiscovered" \in n.conds
      BY <1>3, <1>8, <1>11, <2>1, SelectionsPvs, <1>7
    <3> QED BY <1>2, <1>5, <3>1, NfsPvs
  <2>4. n.type = p.type BY <1>9 DEF Finds
  <2>5. q.spec.pvs = n.spec.pvs BY <1>8
  <2>6. ASSUME NEW v \in DOMAIN n.spec.pvs PROVE Good(v, n.spec.pvs[v])
    <3>1. PICK pv : pv = n.spec.pvs[v] OBVIOUS
    <3>2. /\ pv.sel.action \in pv.actions
          /\ pv.sel.action = "copy" =>
                /\ pv.sel.class # "" => pv.sel.class \in DestClasses /\ pv.sel.mode # "bad"
                /\ pv.sel.method \in {"filesystem", "block", "snapshot"}
      BY <1>4, <1>6, <1>8, <1>11, <2>1, <2>3, <3>1 DEF BadAction
    <3>3. pv.actions \subseteq SupportedActions(v)
      BY <1>6, <3>1 DEF Lists, Offered
    <3>4. ~(pv.sel.action = "move" /\ setup.vols[v].disk = "nfs" /\ Flaw("nfsDown"))
      BY <1>6, <1>11, <2>1, <2>2, <2>3, <3>1, <3>2
    <3> QED BY <3>1, <3>2, <3>3, <3>4 DEF Good
  <2>7. Flaw("noVeleroPod") => Opt("hostDestination")
    BY <1>6, <1>11, <2>1, <2>2, <2>3
  <2>8. p.type = "conversion" =>
          /\ ~(Cardinality(DestClasses) < 2)
          /\ \E v \in DOMAIN n.spec.pvs : n.spec.pvs[v].sel.action # "skip"
    BY <1>4, <1>6, <1>8, <1>11, <2>1, <2>3, <2>4
  <2>9. Due(p.type, p.spec.ns, n.spec.pvs) = Due(p.type, p.spec.ns, u.spec.pvs)
    BY <1>6 DEF Due
  <2>10. ~Opt("noClaims") => DOMAIN n.spec.pvs = Due(p.type, p.spec.ns, n.spec.pvs)
    BY <1>4, <1>6, <1>11, <2>3, <2>9
  <2> QED BY <2>5, <2>6, <2>7, <2>8, <2>10 DEF Listing
<1> QED BY <1>1, <1>2, <1>3, <1>9, <1>10, <1>11

-----------------------------------------------------------------------------
(* Steps                                                                     *)

\* What the clusters, the storage and the flaws are, decides.
LEMMA WorldSame ==
    ASSUME setup' = setup, world'.cluster = world.cluster, world'.storage = world.storage,
           world'.flaws = world.flaws, world'.rival = world.rival, world'.vols = world.vols
    PROVE  /\ \A type, ns : Sound(type, ns)' <=> Sound(type, ns)
           /\ \A type, ns, pvs : Listing(type, ns, pvs)' <=> Listing(type, ns, pvs)
           /\ \A pvs : Offered(pvs)' <=> Offered(pvs)
<1>1. \A o : Opt(o)' <=> Opt(o) BY DEF Opt
<1>2. \A f : Flaw(f)' <=> Flaw(f) BY DEF Flaw
<1>3. \A s : Reachable(s)' <=> Reachable(s) BY DEF Reachable
<1>4. DestClasses' = DestClasses BY <1>2 DEF DestClasses
<1>5. \A v : SupportedActions(v)' = SupportedActions(v) BY DEF SupportedActions
<1>6. \A type, ns, pvs : Due(type, ns, pvs)' = Due(type, ns, pvs) BY DEF Due, Vols
<1>7. \A v, pv : Good(v, pv)' <=> Good(v, pv)
  BY <1>2, <1>4, <1>5 DEF Good
<1>8. \A type, ns : Sound(type, ns)' <=> Sound(type, ns)
  BY <1>1, <1>3 DEF Sound
<1>9. \A type, ns, pvs : Listing(type, ns, pvs)' <=> Listing(type, ns, pvs)
  BY <1>1, <1>2, <1>4, <1>6, <1>7 DEF Listing
<1>10. \A pvs : Offered(pvs)' <=> Offered(pvs) BY <1>5 DEF Offered
<1> QED BY <1>8, <1>9, <1>10

\* The sets of states are those of the plan.
LEMMA SetsSame ==
    ASSUME setup' = setup
    PROVE  /\ Worlds' = Worlds /\ Specs' = Specs /\ Passes' = Passes /\ Statuses' = Statuses
           /\ Vols' = Vols
BY DEF Worlds, Specs, Passes, Statuses, Vols, PvMaps, PvRecords

\* The lists of a pass are told apart by what is stored.
LEMMA KeptSame ==
    ASSUME setup' = setup, DOMAIN spec'.pvs = DOMAIN spec.pvs, ghost'.chosen = ghost.chosen,
           \A v \in DOMAIN spec.pvs : spec'.pvs[v].target = spec.pvs[v].target
    PROVE  \A pvs : (Kept(pvs)' <=> Kept(pvs)) /\ (SameNames(pvs)' <=> SameNames(pvs))
<1>1. \A pvs : Kept(pvs)' <=> Kept(pvs) BY DEF Kept, Forced
<1>2. \A pvs : SameNames(pvs)' <=> SameNames(pvs) BY DEF SameNames
<1> QED BY <1>1, <1>2

\* No pass under way is told from one under way by where it is.
LEMMA PassIs ==
    ASSUME Typed
    PROVE  /\ NoPass.at = "none"
           /\ pass.at # "none" <=> pass # NoPass
           /\ pass # NoPass => pass \in Passes
           /\ \A p \in Passes : p # NoPass
<1>1. NoPass.at = "none" BY DEF NoPass
<1>2. \A p \in Passes : p.at # "none" BY DEF Passes
<1> QED BY <1>1, <1>2 DEF Typed

\* What the world and the user do without writing the plan: the pass under
\* way and the last verdict are no longer about what there is.
LEMMA Disturbed ==
    ASSUME IInv, setup' = setup, spec' = spec, status' = status, ghost' = ghost, quiet' = FALSE,
           NEW enqueue \in BOOLEAN, NEW edit \in BOOLEAN, Seen(enqueue, edit),
           world' \in Worlds, world'.held = world.held
    PROVE  IInv'
<1> USE DEF IInv
<1>1. /\ pass = NoPass => pass' = NoPass
      /\ pass # NoPass => /\ pass' \in Passes /\ pass' # NoPass
                          /\ pass'.at = pass.at /\ pass'.spec = pass.spec
                          /\ pass'.conds = pass.conds /\ pass'.suffix = pass.suffix
                          /\ pass'.quiet = FALSE /\ pass.stale \in BOOLEAN
                          /\ pass'.stale = (pass.stale \/ edit)
  <2>1. CASE pass = NoPass BY <2>1, PassIs DEF Seen
  <2>2. CASE pass # NoPass
    <3>1. pass \in Passes /\ pass.at # "none" BY <2>2, PassIs
    <3>2. pass' = [pass EXCEPT !.quiet = FALSE, !.missed = pass.missed \/ ~enqueue,
                               !.stale = pass.stale \/ edit]
      BY <3>1 DEF Seen
    <3>3. /\ pass' \in Passes
          /\ pass'.at = pass.at /\ pass'.spec = pass.spec
          /\ pass'.conds = pass.conds /\ pass'.suffix = pass.suffix
          /\ pass'.quiet = FALSE /\ pass.stale \in BOOLEAN
          /\ pass'.stale = (pass.stale \/ edit)
      BY <3>1, <3>2 DEF Passes
    <3> QED BY <2>2, <3>3, PassIs
  <2> QED BY <2>1, <2>2
<1>2. Typed' BY <1>1, SetsSame DEF Typed
<1>3. Passing' BY <1>1 DEF Passing, Fresh
<1>4. Staging' BY <1>1 DEF Staging
<1>5. Justified' BY DEF Justified
<1>6. Closing' BY <1>1 DEF Closing, Nothing
<1>7. Working'
  <2>1. \A pvs : Offered(pvs)' <=> Offered(pvs) BY DEF Offered, SupportedActions
  <2>2. \A pvs : (Kept(pvs)' <=> Kept(pvs)) /\ (SameNames(pvs)' <=> SameNames(pvs))
    BY KeptSame
  <2>3. \A pvs, suffix : Tails(pvs, suffix)' <=> Tails(pvs, suffix) BY DEF Tails
  <2> QED BY <1>1, <2>1, <2>2, <2>3 DEF Working
<1> QED BY <1>2, <1>3, <1>4, <1>5, <1>6, <1>7

\* An analysis is no matter of the verdict.
LEMMA Analyzed ==
    ASSUME IInv, setup' = setup, spec' = spec, status' = status, ghost' = ghost, quiet' = quiet,
           pass' = pass, NEW a \in [state : {"none", "busy", "ready", "failed"}, refresh : BOOLEAN,
                                    late : BOOLEAN, size : 0..2],
           world' = [world EXCEPT !.analytic = a]
    PROVE  IInv'
<1> USE DEF IInv
<1>1. /\ world' \in Worlds
      /\ world'.cluster = world.cluster /\ world'.storage = world.storage
      /\ world'.flaws = world.flaws /\ world'.rival = world.rival /\ world'.vols = world.vols
      /\ world'.held = world.held /\ world'.version = world.version
  BY DEF Typed, Worlds
<1>2. /\ \A type, ns : Sound(type, ns)' <=> Sound(type, ns)
      /\ \A type, ns, pvs : Listing(type, ns, pvs)' <=> Listing(type, ns, pvs)
      /\ \A pvs : Offered(pvs)' <=> Offered(pvs)
  BY <1>1, WorldSame
<1>3. Typed' BY <1>1, SetsSame DEF Typed
<1>4. Stocked' <=> Stocked BY <1>1 DEF Stocked
<1>5. Passing' BY <1>2, <1>4 DEF Passing, Fresh
<1>6. Staging' BY DEF Staging
<1>7. Justified' BY <1>2, <1>4 DEF Justified, PlanReady, StoredSuspended
<1>8. Closing' BY <1>1 DEF Closing, Nothing
<1>9. Working'
  <2>1. \A pvs : (Kept(pvs)' <=> Kept(pvs)) /\ (SameNames(pvs)' <=> SameNames(pvs))
    BY KeptSame
  <2>2. \A pvs, suffix : Tails(pvs, suffix)' <=> Tails(pvs, suffix) BY DEF Tails
  <2> QED BY <1>2, <2>1, <2>2 DEF Working
<1> QED BY <1>3, <1>5, <1>6, <1>7, <1>8, <1>9

\* The analyses run, fail and are late.
LEMMA AnalyzeSteps ==
    ASSUME IInv, Analyze \/ AnalyzeFails \/ AnalyzeLate
    PROVE  IInv'
<1> DEFINE Analytics == [state : {"none", "busy", "ready", "failed"}, refresh : BOOLEAN,
                         late : BOOLEAN, size : 0..2]
<1>0. world \in Worlds /\ world.analytic \in Analytics BY DEF IInv, Typed, Worlds
<1>1. CASE Analyze
  <2>1. PICK size \in 0..2 :
          world' = [world EXCEPT !.analytic = [state |-> "ready", refresh |-> FALSE,
                                               late |-> FALSE, size |-> size]]
    BY <1>1 DEF Analyze
  <2>2. PICK a : a = [state |-> "ready", refresh |-> FALSE, late |-> FALSE, size |-> size] OBVIOUS
  <2>3. a \in Analytics BY <2>2
  <2> QED BY <1>1, <2>1, <2>2, <2>3, Analyzed DEF Analyze
<1>2. CASE AnalyzeFails
  <2>1. PICK a : a = [world.analytic EXCEPT !.state = "failed"] OBVIOUS
  <2>2. a \in Analytics BY <1>0, <2>1
  <2>3. world' = [world EXCEPT !.analytic = a] BY <1>2, <2>1 DEF AnalyzeFails
  <2> QED BY <1>2, <2>2, <2>3, Analyzed DEF AnalyzeFails
<1>3. CASE AnalyzeLate
  <2>1. PICK a : a = [world.analytic EXCEPT !.late = TRUE] OBVIOUS
  <2>2. a \in Analytics BY <1>0, <2>1
  <2>3. world' = [world EXCEPT !.analytic = a] BY <1>3, <2>1 DEF AnalyzeLate
  <2> QED BY <1>3, <2>2, <2>3, Analyzed DEF AnalyzeLate
<1> QED BY <1>1, <1>2, <1>3

\* The clusters, the storage, what the plan refers to and the volumes change.
LEMMA ChangeSteps ==
    ASSUME IInv, \/ ChangeCluster \/ ChangeStorage \/ ChangeFlaw \/ ChangeVolume \/ ChangeRival
    PROVE  IInv'
<1>0. world \in Worlds /\ setup \in Setups BY DEF IInv, Typed
<1>1. ASSUME NEW enqueue \in BOOLEAN, NEW edit \in BOOLEAN, Changed(enqueue, edit),
             world' \in Worlds, world'.held = world.held
      PROVE  IInv'
  BY <1>1, Disturbed DEF Changed, Disturb
<1>2. CASE ChangeCluster
  <2>1. PICK s \in Sides, st \in setup.states :
          world' = [world EXCEPT !.cluster = IF setup.intra THEN [t \in Sides |-> st]
                                                ELSE [@ EXCEPT ![s] = st]]
    BY <1>2 DEF ChangeCluster
  <2>2. PICK c : c = IF setup.intra THEN [t \in Sides |-> st] ELSE [world.cluster EXCEPT ![s] = st]
    OBVIOUS
  <2>3. c \in [Sides -> ClusterStates]
    <3>1. st \in ClusterStates BY <1>0, SetupFacts
    <3> QED BY <1>0, <2>2, <3>1 DEF Worlds
  <2>4. world' = [world EXCEPT !.cluster = c] BY <2>1, <2>2
  <2>5. world' \in Worlds /\ world'.held = world.held BY <1>0, <2>3, <2>4 DEF Worlds
  <2> QED BY <1>1, <1>2, <2>5 DEF ChangeCluster
<1>3. CASE ChangeStorage
  <2>1. \/ \E st \in setup.states \ {"noregistry"} : world' = [world EXCEPT !.storage = st]
        \/ world' = [world EXCEPT !.version = world.version + 1]
    BY <1>3 DEF ChangeStorage
  <2>2. setup.states \ {"noregistry"} \subseteq StorageStates
    BY <1>0, SetupFacts DEF ClusterStates
  <2>3. world' \in Worlds /\ world'.held = world.held
    <3>1. CASE \E st \in setup.states \ {"noregistry"} : world' = [world EXCEPT !.storage = st]
      BY <1>0, <2>2, <3>1 DEF Worlds
    <3>2. CASE world' = [world EXCEPT !.version = world.version + 1]
      <4>1. world.version + 1 \in Nat BY <1>0 DEF Worlds
      <4> QED BY <1>0, <3>2, <4>1 DEF Worlds
    <3> QED BY <2>1, <3>1, <3>2
  <2> QED BY <1>1, <1>3, <2>3 DEF ChangeStorage
<1>4. CASE ChangeFlaw
  <2>1. PICK f \in setup.flaws :
          /\ world' = [world EXCEPT !.flaws = (@ \ {f}) \cup ({f} \ @)]
          /\ Changed(f \in WatchedFlaws, f \in PlanFlaws)
    BY <1>4 DEF ChangeFlaw
  <2>2. PICK F : F = (world.flaws \ {f}) \cup ({f} \ world.flaws) OBVIOUS
  <2>3. F \in SUBSET setup.flaws BY <1>0, <2>2 DEF Worlds
  <2>4. world' = [world EXCEPT !.flaws = F] BY <2>1, <2>2
  <2>5. world' \in Worlds /\ world'.held = world.held BY <1>0, <2>3, <2>4 DEF Worlds
  <2>6. (f \in WatchedFlaws) \in BOOLEAN /\ (f \in PlanFlaws) \in BOOLEAN OBVIOUS
  <2> QED BY <1>1, <2>1, <2>5, <2>6
<1>5. CASE ChangeVolume
  <2>1. PICK v \in Vols, mood \in setup.moods : world' = [world EXCEPT !.vols[v] = mood]
    BY <1>5 DEF ChangeVolume
  <2>2. PICK V : V = [world.vols EXCEPT ![v] = mood] OBVIOUS
  <2>3. mood \in Moods BY <1>0, SetupFacts
  <2>4. V \in [Vols -> Moods] BY <1>0, <2>2, <2>3 DEF Worlds
  <2>5. world' = [world EXCEPT !.vols = V] BY <2>1, <2>2
  <2>6. world' \in Worlds /\ world'.held = world.held BY <1>0, <2>4, <2>5 DEF Worlds
  <2> QED BY <1>1, <1>5, <2>6 DEF ChangeVolume
<1>6. CASE ChangeRival
  <2>1. PICK r \in setup.rival : world' = [world EXCEPT !.rival = r] BY <1>6 DEF ChangeRival
  <2>2. world' \in Worlds /\ world'.held = world.held BY <1>0, <2>1 DEF Worlds
  <2> QED BY <1>1, <1>6, <2>2 DEF ChangeRival
<1> QED BY <1>2, <1>3, <1>4, <1>5, <1>6

\* Migrations are created, start and end.
LEMMA MigrationSteps ==
    ASSUME IInv, CreateMigration \/ RunMigration \/ EndMigration
    PROVE  IInv'
<1> DEFINE Migs == [kind : MigKinds, phase : {"new", "running", "succeeded", "failed"}]
<1>0. world \in Worlds /\ setup \in Setups /\ world.migs \in Seq(Migs)
  BY DEF IInv, Typed, Worlds
<1>1. ASSUME NEW m \in Seq(Migs), world' = [world EXCEPT !.migs = m]
      PROVE  world' \in Worlds /\ world'.held = world.held
  BY <1>0, <1>1 DEF Worlds
<1>2. ASSUME NEW i \in DOMAIN world.migs, NEW phase \in {"new", "running", "succeeded", "failed"},
             world' = [world EXCEPT !.migs[i].phase = phase]
      PROVE  world' \in Worlds /\ world'.held = world.held
  <2>1. PICK r : r = [world.migs[i] EXCEPT !.phase = phase] OBVIOUS
  <2>2. PICK m : m = [world.migs EXCEPT ![i] = r] OBVIOUS
  <2>3. world.migs[i] \in Migs
    <3> HIDE DEF Migs
    <3> QED BY <1>0
  <2>4. r \in Migs BY <2>1, <2>3
  <2> HIDE DEF Migs
  <2>5. m \in Seq(Migs) BY <1>0, <2>2, <2>4
  <2>6. world' = [world EXCEPT !.migs = m] BY <1>2, <2>1, <2>2
  <2> QED BY <1>1, <2>5, <2>6
<1>3. CASE CreateMigration
  <2>1. PICK k \in setup.migs :
          world' = [world EXCEPT !.migs = Append(@, [kind |-> k, phase |-> "new"])]
    BY <1>3 DEF CreateMigration
  <2>2. PICK r : r = [kind |-> k, phase |-> "new"] OBVIOUS
  <2>3. k \in MigKinds BY <1>0, SetupFacts
  <2>4. r \in Migs BY <2>2, <2>3
  <2>5. Append(world.migs, r) \in Seq(Migs) BY <1>0, <2>4
  <2>6. world' = [world EXCEPT !.migs = Append(world.migs, r)] BY <2>1, <2>2
  <2>7. world' \in Worlds /\ world'.held = world.held BY <1>1, <2>5, <2>6
  <2> QED BY <1>3, <2>7, Disturbed DEF CreateMigration, Disturb
<1>4. CASE RunMigration
  <2>1. world' \in Worlds /\ world'.held = world.held BY <1>2, <1>4 DEF RunMigration
  <2> QED BY <1>4, <2>1, Disturbed DEF RunMigration, Disturb
<1>5. CASE EndMigration
  <2>1. world' \in Worlds /\ world'.held = world.held BY <1>2, <1>5 DEF EndMigration
  <2> QED BY <1>5, <2>1, Disturbed DEF EndMigration, Disturb
<1> QED BY <1>3, <1>4, <1>5

\* The edits of the user: the pass under way will be refused.
LEMMA EditKeeps ==
    ASSUME IInv, Edited, NEW C \in UNION {[S -> Selections] : S \in SUBSET Vols},
           NEW reopened \in BOOLEAN,
           spec' \in Specs, ghost' = [ghost EXCEPT !.chosen = C, !.reopened = reopened],
           "Closed" \in status.conds /\ ~reopened => spec'.closed /\ ~ghost.reopened,
           DOMAIN C \subseteq DOMAIN spec'.pvs, DOMAIN spec'.pvs = DOMAIN spec.pvs,
           \A v \in DOMAIN C : spec'.pvs[v].sel = C[v] \/ Forced(spec'.pvs[v]),
           \A v \in DOMAIN spec.pvs :
              /\ spec'.pvs[v].actions = spec.pvs[v].actions
              /\ spec'.pvs[v].target.tail = spec.pvs[v].target.tail
    PROVE  IInv'
<1> USE DEF IInv
<1>0. /\ setup' = setup /\ world' = world /\ quiet' = FALSE
      /\ status' = [status EXCEPT !.reconciled = FALSE] /\ Seen(TRUE, TRUE)
  BY DEF Edited, Disturb
<1>1. /\ pass = NoPass => pass' = NoPass
      /\ pass # NoPass => /\ pass' \in Passes /\ pass' # NoPass
                          /\ pass'.at = pass.at /\ pass'.spec = pass.spec
                          /\ pass'.conds = pass.conds /\ pass'.suffix = pass.suffix
                          /\ pass'.quiet = FALSE /\ pass'.stale = TRUE
  <2>1. CASE pass = NoPass BY <1>0, <2>1, PassIs DEF Seen
  <2>2. CASE pass # NoPass
    <3>1. pass \in Passes /\ pass.at # "none" BY <2>2, PassIs
    <3>2. pass' = [pass EXCEPT !.quiet = FALSE, !.missed = pass.missed \/ ~TRUE,
                               !.stale = pass.stale \/ TRUE]
      BY <1>0, <3>1 DEF Seen
    <3>3. /\ pass' \in Passes
          /\ pass'.at = pass.at /\ pass'.spec = pass.spec
          /\ pass'.conds = pass.conds /\ pass'.suffix = pass.suffix
          /\ pass'.quiet = FALSE /\ pass'.stale = TRUE
      BY <3>1, <3>2 DEF Passes
    <3> QED BY <2>2, <3>3, PassIs
  <2> QED BY <2>1, <2>2
<1>2. /\ status' \in Statuses /\ status'.conds = status.conds /\ status'.suffix = status.suffix
  BY <1>0 DEF Typed, Statuses
<1>3. /\ ghost'.chosen = C /\ ghost'.reopened = reopened /\ ghost'.unreached = ghost.unreached
      /\ ghost' \in [chosen : {C}, unreached : SUBSET Sides, reopened : BOOLEAN]
  BY DEF Typed
<1>4. Typed' BY <1>0, <1>1, <1>2, <1>3, SetsSame DEF Typed
<1>5. Passing' BY <1>1 DEF Passing, Fresh
<1>6. Staging' BY <1>1 DEF Staging
<1>7. Justified' BY <1>0 DEF Justified
<1>8. Closing' BY <1>0, <1>1, <1>2, <1>3 DEF Closing, Nothing
<1>9. Working'
  <2>1. \A pvs : Offered(pvs)' <=> Offered(pvs) BY <1>0 DEF Offered, SupportedActions
  <2>2. \A pvs, suffix : Tails(pvs, suffix)' <=> Tails(pvs, suffix) BY DEF Tails
  <2>3. Kept(spec.pvs)' BY <1>3 DEF Kept, Forced
  <2>4. Offered(spec'.pvs) BY DEF Working, Offered
  <2>5. Tails(spec'.pvs, status'.suffix) BY <1>2 DEF Working, Tails
  <2> QED BY <1>1, <1>2, <2>1, <2>2, <2>3, <2>4, <2>5 DEF Working
<1> QED BY <1>4, <1>5, <1>6, <1>7, <1>8, <1>9

\* Only the part of the plan that is no list changes.
LEMMA EditRest ==
    ASSUME IInv, Edited, NEW reopened \in BOOLEAN, spec' \in Specs, spec'.pvs = spec.pvs,
           ghost' = [ghost EXCEPT !.reopened = reopened],
           "Closed" \in status.conds /\ ~reopened => spec'.closed /\ ~ghost.reopened
    PROVE  IInv'
<1>1. /\ ghost.chosen \in UNION {[S -> Selections] : S \in SUBSET Vols}
      /\ ghost' = [ghost EXCEPT !.chosen = ghost.chosen, !.reopened = reopened]
  BY DEF IInv, Typed
<1>2. /\ DOMAIN ghost.chosen \subseteq DOMAIN spec.pvs
      /\ \A v \in DOMAIN ghost.chosen : spec.pvs[v].sel = ghost.chosen[v] \/ Forced(spec.pvs[v])
  BY DEF IInv, Working, Kept
<1> QED BY <1>1, <1>2, EditKeeps

\* One entry of the list changes.
LEMMA OneEntry ==
    ASSUME spec \in Specs, NEW v \in DOMAIN spec.pvs, NEW e \in PvRecords, NEW S \in SUBSET Vols,
           spec.pvs \in [S -> PvRecords], spec' = [spec EXCEPT !.pvs[v] = e]
    PROVE  /\ spec' \in Specs /\ spec'.closed = spec.closed
           /\ DOMAIN spec'.pvs = DOMAIN spec.pvs /\ spec'.pvs[v] = e
           /\ \A w \in DOMAIN spec.pvs : w # v => spec'.pvs[w] = spec.pvs[w]
<1>1. PICK P : P = [spec.pvs EXCEPT ![v] = e] OBVIOUS
<1>2. P \in [S -> PvRecords] BY <1>1
<1>3. P \in PvMaps BY <1>2 DEF PvMaps
<1>4. spec' = [spec EXCEPT !.pvs = P] BY <1>1
<1>5. spec' \in Specs /\ spec'.pvs = P /\ spec'.closed = spec.closed BY <1>3, <1>4 DEF Specs
<1>6. DOMAIN P = DOMAIN spec.pvs /\ P[v] = e BY <1>1
<1>7. \A w \in DOMAIN spec.pvs : w # v => P[w] = spec.pvs[w] BY <1>1
<1> QED BY <1>5, <1>6, <1>7

\* The user edits the plan in any way.
LEMMA EditSteps ==
    ASSUME IInv, \/ EditRefresh \/ EditSelection \/ EditName \/ EditConfirm \/ EditNamespaces
                 \/ EditClosed
    PROVE  IInv'
<1>0. /\ spec \in Specs /\ setup \in Setups
      /\ ghost \in [chosen : {ghost.chosen}, unreached : SUBSET Sides, reopened : BOOLEAN]
      /\ ghost.chosen \in UNION {[S -> Selections] : S \in SUBSET Vols}
      /\ "Closed" \in status.conds /\ ~ghost.reopened => spec.closed
      /\ DOMAIN ghost.chosen \subseteq DOMAIN spec.pvs
      /\ \A v \in DOMAIN ghost.chosen : spec.pvs[v].sel = ghost.chosen[v] \/ Forced(spec.pvs[v])
  BY DEF IInv, Typed, Closing, Working, Kept
<1>1. PICK S \in SUBSET Vols : spec.pvs \in [S -> PvRecords] BY <1>0 DEF Specs, PvMaps
<1>2. /\ ghost.reopened \in BOOLEAN /\ ghost = [ghost EXCEPT !.reopened = ghost.reopened]
      /\ ghost = [ghost EXCEPT !.chosen = ghost.chosen, !.reopened = ghost.reopened]
  BY <1>0
<1>3. CASE EditRefresh
  <2>1. spec' \in Specs /\ spec'.pvs = spec.pvs /\ spec'.closed = spec.closed
    BY <1>0, <1>3 DEF EditRefresh, Specs
  <2> QED BY <1>0, <1>2, <1>3, <2>1, EditRest DEF EditRefresh
<1>4. CASE EditNamespaces
  <2>1. PICK N : N = {setup.vols[v].ns : v \in Vols} OBVIOUS
  <2>2. N \in SUBSET STRING BY <1>0, <2>1, SetupFacts
  <2>3. spec' = [spec EXCEPT !.ns = N] BY <1>4, <2>1 DEF EditNamespaces
  <2>4. spec' \in Specs /\ spec'.pvs = spec.pvs /\ spec'.closed = spec.closed
    BY <1>0, <2>2, <2>3 DEF Specs
  <2> QED BY <1>0, <1>2, <1>4, <2>4, EditRest DEF EditNamespaces
<1>5. CASE EditClosed
  <2>1. spec' \in Specs /\ spec'.pvs = spec.pvs /\ spec'.closed = ~spec.closed
    BY <1>0, <1>5 DEF EditClosed, Specs
  <2>2. ghost' = [ghost EXCEPT !.reopened = ghost.reopened \/ spec.closed]
    BY <1>5 DEF EditClosed
  <2>3. (ghost.reopened \/ spec.closed) \in BOOLEAN OBVIOUS
  <2> QED BY <1>0, <1>5, <2>1, <2>2, <2>3, EditRest DEF EditClosed
<1>6. CASE EditSelection
  <2>1. PICK v \in DOMAIN spec.pvs, c \in setup.choices :
          /\ spec' = [spec EXCEPT !.pvs[v].sel = c]
          /\ ghost' = [ghost EXCEPT !.chosen =
                                   [w \in {v} \cup DOMAIN @ |-> IF w = v THEN c ELSE @[w]]]
    BY <1>6 DEF EditSelection
  <2>2. PICK e : e = [spec.pvs[v] EXCEPT !.sel = c] OBVIOUS
  <2>3. spec.pvs[v] \in PvRecords /\ c \in Selections /\ v \in Vols BY <1>0, <1>1, SetupFacts
  <2>4. /\ e \in PvRecords /\ e.sel = c /\ e.actions = spec.pvs[v].actions
        /\ e.target = spec.pvs[v].target
    BY <2>2, <2>3 DEF PvRecords
  <2>5. spec' = [spec EXCEPT !.pvs[v] = e] BY <2>1, <2>2
  <2>6. /\ spec' \in Specs /\ spec'.closed = spec.closed
        /\ DOMAIN spec'.pvs = DOMAIN spec.pvs /\ spec'.pvs[v] = e
        /\ \A w \in DOMAIN spec.pvs : w # v => spec'.pvs[w] = spec.pvs[w]
    BY <1>0, <1>1, <2>4, <2>5, OneEntry
  <2>7. PICK C : C = [w \in {v} \cup DOMAIN ghost.chosen |-> IF w = v THEN c ELSE ghost.chosen[w]]
    OBVIOUS
  <2>8. /\ DOMAIN C = {v} \cup DOMAIN ghost.chosen /\ C[v] = c
        /\ \A w \in DOMAIN ghost.chosen : w # v => C[w] = ghost.chosen[w]
        /\ C \in [DOMAIN C -> Selections]
    <3>1. PICK T \in SUBSET Vols : ghost.chosen \in [T -> Selections] BY <1>0
    <3> QED BY <2>3, <2>7, <3>1
  <2>9. C \in UNION {[T -> Selections] : T \in SUBSET Vols}
    <3>1. DOMAIN C \in SUBSET Vols BY <1>0, <1>1, <2>3, <2>8
    <3> QED BY <2>8, <3>1
  <2>10. ghost' = [ghost EXCEPT !.chosen = C, !.reopened = ghost.reopened]
    BY <1>0, <2>1, <2>7
  <2>11. ASSUME NEW w \in DOMAIN C PROVE spec'.pvs[w].sel = C[w] \/ Forced(spec'.pvs[w])
    BY <1>0, <2>4, <2>6, <2>8
  <2>12. \A w \in DOMAIN spec.pvs :
            /\ spec'.pvs[w].actions = spec.pvs[w].actions
            /\ spec'.pvs[w].target.tail = spec.pvs[w].target.tail
    BY <2>4, <2>6
  <2>13. DOMAIN C \subseteq DOMAIN spec'.pvs BY <1>0, <2>6, <2>8
  <2> QED BY <1>0, <1>2, <1>6, <2>6, <2>9, <2>10, <2>11, <2>12, <2>13, EditKeeps DEF EditSelection
<1>7. ASSUME NEW v \in DOMAIN spec.pvs, NEW e \in PvRecords, spec' = [spec EXCEPT !.pvs[v] = e],
             e.sel = spec.pvs[v].sel, e.actions = spec.pvs[v].actions,
             e.target.tail = spec.pvs[v].target.tail, Edited, ghost' = ghost
      PROVE  IInv'
  <2>1. /\ spec' \in Specs /\ spec'.closed = spec.closed
        /\ DOMAIN spec'.pvs = DOMAIN spec.pvs /\ spec'.pvs[v] = e
        /\ \A w \in DOMAIN spec.pvs : w # v => spec'.pvs[w] = spec.pvs[w]
    BY <1>0, <1>1, <1>7, OneEntry
  <2>2. ASSUME NEW w \in DOMAIN ghost.chosen
        PROVE  spec'.pvs[w].sel = ghost.chosen[w] \/ Forced(spec'.pvs[w])
    BY <1>0, <1>7, <2>1 DEF Forced
  <2>3. \A w \in DOMAIN spec.pvs :
            /\ spec'.pvs[w].actions = spec.pvs[w].actions
            /\ spec'.pvs[w].target.tail = spec.pvs[w].target.tail
    BY <1>7, <2>1
  <2>4. DOMAIN ghost.chosen \subseteq DOMAIN spec'.pvs BY <1>0, <2>1
  <2>5. ghost' = [ghost EXCEPT !.chosen = ghost.chosen, !.reopened = ghost.reopened]
    BY <1>2, <1>7
  <2>6. "Closed" \in status.conds /\ ~ghost.reopened => spec'.closed /\ ~ghost.reopened
    BY <1>0, <2>1
  <2>7. Edited BY <1>7
  <2>8. PICK C : C = ghost.chosen OBVIOUS
  <2>9. PICK b : b = ghost.reopened OBVIOUS
  <2>10. /\ C \in UNION {[T -> Selections] : T \in SUBSET Vols} /\ b \in BOOLEAN
         /\ ghost' = [ghost EXCEPT !.chosen = C, !.reopened = b]
         /\ "Closed" \in status.conds /\ ~b => spec'.closed /\ ~ghost.reopened
         /\ DOMAIN C \subseteq DOMAIN spec'.pvs
         /\ \A w \in DOMAIN C : spec'.pvs[w].sel = C[w] \/ Forced(spec'.pvs[w])
    BY <1>0, <1>2, <2>2, <2>4, <2>5, <2>6, <2>8, <2>9
  <2> QED BY <2>1, <2>3, <2>7, <2>10, EditKeeps
<1>8. CASE EditName
  <2>1. PICK v \in DOMAIN spec.pvs :
          spec.pvs[v].target = SourceName /\ spec' = [spec EXCEPT !.pvs[v].target = UserName]
    BY <1>8 DEF EditName
  <2>2. PICK e : e = [spec.pvs[v] EXCEPT !.target = UserName] OBVIOUS
  <2>3. spec.pvs[v] \in PvRecords BY <1>1
  <2>4. /\ UserName \in [base : {"source", "user"}, inner : {0} \cup Randoms, tail : {0} \cup Randoms]
        /\ UserName.tail = SourceName.tail
    BY DEF UserName, SourceName
  <2>5. /\ e \in PvRecords /\ e.sel = spec.pvs[v].sel /\ e.actions = spec.pvs[v].actions
        /\ e.target = UserName
    BY <2>2, <2>3, <2>4 DEF PvRecords
  <2>6. spec' = [spec EXCEPT !.pvs[v] = e] BY <2>1, <2>2
  <2> QED BY <1>7, <1>8, <2>1, <2>4, <2>5, <2>6 DEF EditName
<1>9. CASE EditConfirm
  <2>1. PICK v \in DOMAIN spec.pvs : spec' = [spec EXCEPT !.pvs[v].confirmed = TRUE]
    BY <1>9 DEF EditConfirm
  <2>2. PICK e : e = [spec.pvs[v] EXCEPT !.confirmed = TRUE] OBVIOUS
  <2>3. spec.pvs[v] \in PvRecords BY <1>1
  <2>4. /\ e \in PvRecords /\ e.sel = spec.pvs[v].sel /\ e.actions = spec.pvs[v].actions
        /\ e.target = spec.pvs[v].target
    BY <2>2, <2>3 DEF PvRecords
  <2>5. spec' = [spec EXCEPT !.pvs[v] = e] BY <2>1, <2>2
  <2> QED BY <1>7, <1>9, <2>4, <2>5 DEF EditConfirm
<1> QED BY <1>3, <1>4, <1>5, <1>6, <1>8, <1>9

\* A pass that ends without writing the plan.
LEMMA Dropped ==
    ASSUME IInv, setup' = setup, spec' = spec, status' = status, world' = world, ghost' = ghost,
           quiet' = quiet, pass' = NoPass
    PROVE  IInv'
<1> USE DEF IInv
<1>1. NoPass' = NoPass BY DEF NoPass
<1>2. /\ \A type, ns : Sound(type, ns)' <=> Sound(type, ns)
      /\ \A type, ns, pvs : Listing(type, ns, pvs)' <=> Listing(type, ns, pvs)
      /\ \A pvs : Offered(pvs)' <=> Offered(pvs)
  BY WorldSame
<1>3. Typed' BY <1>1, SetsSame DEF Typed
<1>4. Passing' BY <1>1 DEF Passing, Fresh
<1>5. Staging' BY <1>1 DEF Staging
<1>6. Justified' BY <1>2 DEF Justified, PlanReady, StoredSuspended, Stocked
<1>7. Closing' BY <1>1 DEF Closing, Nothing
<1>8. Working'
  <2>1. \A pvs : (Kept(pvs)' <=> Kept(pvs)) /\ (SameNames(pvs)' <=> SameNames(pvs))
    BY KeptSame
  <2>2. \A pvs, suffix : Tails(pvs, suffix)' <=> Tails(pvs, suffix) BY DEF Tails
  <2> QED BY <1>1, <1>2, <2>1, <2>2 DEF Working
<1> QED BY <1>3, <1>4, <1>5, <1>6, <1>7, <1>8

\* What the plan and its verdict are when a pass begins or goes on.
LEMMA Onward ==
    ASSUME IInv, setup' = setup, spec' = spec, status' = status, ghost' = ghost, quiet' = quiet,
           world' \in Worlds, world'.cluster = world.cluster, world'.storage = world.storage,
           world'.flaws = world.flaws, world'.rival = world.rival, world'.vols = world.vols,
           Stocked => Stocked',
           pass' \in Passes, pass'.at # "closing",
           "Closed" \in status.conds => ghost.reopened,
           Passing', Staging', spec.closed => pass'.stale,
           Lists(pass'), pass'.suffix = status.suffix \/ status.suffix = 0,
           ~pass'.stale /\ pass'.at \in {"validate", "discover"} => pass'.spec = spec
    PROVE  IInv'
<1> USE DEF IInv
<1>1. /\ \A type, ns : Sound(type, ns)' <=> Sound(type, ns)
      /\ \A type, ns, pvs : Listing(type, ns, pvs)' <=> Listing(type, ns, pvs)
      /\ \A pvs : Offered(pvs)' <=> Offered(pvs)
  BY WorldSame
<1>2. pass' # NoPass' /\ NoPass' = NoPass BY PassIs DEF NoPass
<1>3. Typed' BY SetsSame DEF Typed
<1>4. Justified' BY <1>1 DEF Justified, PlanReady, StoredSuspended
<1>5. Closing' BY <1>2 DEF Closing
<1>6. Working'
  <2>1. \A pvs : (Kept(pvs)' <=> Kept(pvs)) /\ (SameNames(pvs)' <=> SameNames(pvs))
    BY KeptSame
  <2>2. \A pvs, suffix : Tails(pvs, suffix)' <=> Tails(pvs, suffix) BY DEF Tails
  <2>3. Kept(spec.pvs)' /\ Offered(spec.pvs)' /\ Tails(spec.pvs, status.suffix)'
    BY <1>1, <2>1, <2>2 DEF Working
  <2>4. /\ Offered(pass.spec.pvs)' /\ Tails(pass.spec.pvs, pass.suffix)'
        /\ ~pass'.stale => Kept(pass.spec.pvs)' /\ SameNames(pass.spec.pvs)'
    BY <1>1, <2>1, <2>2 DEF Lists
  <2> QED BY <1>2, <2>3, <2>4 DEF Working
<1> QED BY <1>3, <1>4, <1>5, <1>6

\* The conditions that stay from pass to pass are not reserved.
LEMMA DurableFacts ==
    DurableConditions \subseteq CondTypes /\ DurableConditions \cap Reserved = {}
<1>1. DurableConditions \subseteq Notes BY DEF DurableConditions, Notes
<1> QED BY <1>1, SayableFacts

\* A pass begins with what is stored.
LEMMA StagingFacts ==
    ASSUME Typed, NEW at \in {"validate", "discover", "store", "finish", "closing"},
           NEW suffix \in {0} \cup Randoms
    PROVE  LET p == BeginStaging(at, suffix) IN
           /\ p \in Passes /\ p.at = at /\ p.spec = spec /\ p.suffix = suffix
           /\ ~p.stale /\ p.conds \cap Reserved \subseteq {"Suspended"}
<1>1. PICK C : C = (status.conds \cap DurableConditions)
                   \cup (IF PlanSuspended(spec) THEN {"Suspended"} ELSE {})
  OBVIOUS
<1>2. "Suspended" \in Reserved BY DEF Reserved
<1>3. C \in SUBSET CondTypes /\ C \cap Reserved \subseteq {"Suspended"}
  BY <1>1, <1>2, DurableFacts, SayableFacts
<1>4. PICK type : type = IF status.sticky THEN status.type ELSE "none" OBVIOUS
<1>5. type \in Types BY <1>4 DEF Typed, Statuses, Types
<1>6. BeginStaging(at, suffix) =
        [at |-> at, spec |-> spec, prev |-> status.conds, conds |-> C, type |-> type,
         sticky |-> status.sticky, suffix |-> suffix, reconciled |-> status.reconciled,
         classes |-> status.classes, quiet |-> TRUE, missed |-> FALSE, stale |-> FALSE]
  BY <1>1, <1>4 DEF BeginStaging
<1>7. /\ status.conds \in SUBSET CondTypes /\ status.sticky \in BOOLEAN
      /\ status.reconciled \in BOOLEAN /\ status.classes \in SUBSET StorageClasses
      /\ spec \in Specs
  BY DEF Typed, Statuses
<1> QED BY <1>3, <1>5, <1>6, <1>7 DEF Passes

\* A pass begins on a plan that is not closed.
LEMMA BeginStep ==
    ASSUME IInv, Begin
    PROVE  IInv'
<1> USE DEF IInv
<1>1. PICK suffix \in Randoms : Suffixed(suffix) /\ pass' = BeginStaging("validate", suffix)
  BY DEF Begin
<1>2. /\ pass' \in Passes /\ pass'.at = "validate" /\ pass'.spec = spec /\ pass'.suffix = suffix
      /\ ~pass'.stale /\ pass'.conds \cap Reserved \subseteq {"Suspended"}
  BY <1>1, StagingFacts
<1>3. /\ setup' = setup /\ spec' = spec /\ status' = status /\ world' = world
      /\ ghost' = ghost /\ quiet' = quiet /\ ~spec.closed
  BY DEF Begin
<1>4. world' \in Worlds /\ (Stocked => Stocked') BY <1>3 DEF Typed, Stocked
<1>5. suffix = status.suffix \/ status.suffix = 0 BY <1>1 DEF Suffixed
<1>6. Lists(pass')
  <2>1. Tails(spec.pvs, suffix) BY <1>5 DEF Working, Tails
  <2>2. SameNames(spec.pvs) BY DEF SameNames
  <2> QED BY <1>2, <2>1, <2>2 DEF Lists, Working
<1>7. Passing' BY <1>2 DEF Passing
<1>8. Staging'
  <2>1. "PvsDiscovered" \in Reserved /\ "StorageEnsured" \in Reserved /\ "Ready" \in Reserved
        /\ "Closed" \in Reserved
    BY DEF Reserved
  <2>2. /\ "PvsDiscovered" \notin pass'.conds /\ "StorageEnsured" \notin pass'.conds
        /\ "Ready" \notin pass'.conds /\ "Closed" \notin pass'.conds
    BY <1>2, <2>1
  <2> QED BY <1>2, <2>2 DEF Staging
<1>9. "Closed" \in status.conds => ghost.reopened BY <1>3 DEF Closing
<1> QED BY <1>2, <1>3, <1>4, <1>5, <1>6, <1>7, <1>8, <1>9, Onward

\* A pass under way, before it is written.
LEMMA UnderWay ==
    ASSUME IInv, pass.at \in {"validate", "discover", "store", "finish"}
    PROVE  /\ pass \in Passes /\ pass # NoPass /\ Lists(pass) /\ pass.suffix \in Randoms
           /\ spec.closed => pass.stale
           /\ "Closed" \in status.conds => ghost.reopened
           /\ pass.suffix = status.suffix \/ status.suffix = 0
           /\ ~pass.stale /\ pass.at \in {"validate", "discover"} => pass.spec = spec
           /\ "Ready" \notin pass.conds /\ "Closed" \notin pass.conds
           /\ pass.at \in {"validate", "discover"} => "PvsDiscovered" \notin pass.conds
           /\ pass.at \in {"validate", "discover", "store"} => "StorageEnsured" \notin pass.conds
           /\ pass.stale \in BOOLEAN /\ pass.quiet \in BOOLEAN
<1> USE DEF IInv
<1>1. pass # NoPass /\ pass \in Passes /\ pass.at # "closing" BY PassIs
<1>2. /\ "Closed" \in status.conds => ghost.reopened
      /\ spec.closed => pass.stale
  BY <1>1 DEF Closing
<1>3. Lists(pass) BY <1>1 DEF Lists, Working
<1>4. pass.stale \in BOOLEAN /\ pass.quiet \in BOOLEAN BY <1>1 DEF Passes
<1> QED BY <1>1, <1>2, <1>3, <1>4 DEF Staging, Working

\* A pass that goes on to its next step.
LEMMA AtOnly ==
    ASSUME NEW p \in Passes, NEW at \in {"validate", "discover", "store", "finish", "closing"},
           NEW q, q = [p EXCEPT !.at = at]
    PROVE  /\ q \in Passes /\ q.at = at
           /\ q.spec = p.spec /\ q.prev = p.prev /\ q.type = p.type /\ q.conds = p.conds
           /\ q.sticky = p.sticky /\ q.suffix = p.suffix /\ q.reconciled = p.reconciled
           /\ q.classes = p.classes /\ q.quiet = p.quiet /\ q.missed = p.missed
           /\ q.stale = p.stale
BY DEF Passes

\* The condition that a pass sets and validation does not.
LEMMA ReservedFacts ==
    ASSUME NEW p, NEW q, q.conds \cap Reserved = p.conds \cap Reserved
    PROVE  /\ Suspended(q) <=> Suspended(p)
           /\ \A c \in {"PvsDiscovered", "StorageEnsured", "Ready", "Closed"} :
                 c \in q.conds <=> c \in p.conds
BY DEF Suspended, Reserved

\* A pass validates what the plan refers to.
LEMMA ValidateStep ==
    ASSUME IInv, StepValidate
    PROVE  IInv'
<1> USE DEF IInv
<1>1. /\ pass.at = "validate" /\ \A s \in Sides : Resolved(s)
      /\ pass' = [Validate(pass) EXCEPT !.at = "discover"]
      /\ setup' = setup /\ spec' = spec /\ status' = status /\ ghost' = ghost /\ quiet' = quiet
  BY DEF StepValidate, Goes
<1>2. /\ pass \in Passes /\ Lists(pass) /\ pass.suffix \in Randoms
      /\ spec.closed => pass.stale
      /\ "Closed" \in status.conds => ghost.reopened
      /\ pass.suffix = status.suffix \/ status.suffix = 0
      /\ ~pass.stale => pass.spec = spec
      /\ "Ready" \notin pass.conds /\ "Closed" \notin pass.conds
      /\ "PvsDiscovered" \notin pass.conds /\ "StorageEnsured" \notin pass.conds
  BY <1>1, UnderWay
<1>3. /\ Judges(pass, Validate(pass))
      /\ ~Suspended(pass) /\ Free(Validate(pass).conds) => Sound(Validate(pass).type, pass.spec.ns)
  BY <1>1, <1>2, ValidateFacts
<1>4. PICK q : q = Validate(pass) OBVIOUS
<1>5. /\ pass' \in Passes /\ pass'.at = "discover" /\ pass'.spec = pass.spec
      /\ pass'.suffix = pass.suffix /\ pass'.stale = pass.stale /\ pass'.conds = q.conds
      /\ pass'.type = q.type /\ q.conds \cap Reserved = pass.conds \cap Reserved
  <2>1. /\ q \in Passes /\ q.spec = pass.spec /\ q.suffix = pass.suffix /\ q.stale = pass.stale
        /\ q.conds \cap Reserved = pass.conds \cap Reserved
    BY <1>3, <1>4 DEF Judges
  <2>2. PICK r : r = pass' OBVIOUS
  <2>3. r = [q EXCEPT !.at = "discover"] BY <1>1, <1>4, <2>2
  <2>4. r \in Passes /\ r.at = "discover" /\ r.spec = q.spec /\ r.suffix = q.suffix
        /\ r.stale = q.stale /\ r.conds = q.conds /\ r.type = q.type
    BY <2>1, <2>3, AtOnly
  <2> QED BY <2>1, <2>2, <2>4
<1>6. /\ world' \in Worlds /\ (Stocked => Stocked')
      /\ world'.cluster = world.cluster /\ world'.storage = world.storage
      /\ world'.flaws = world.flaws /\ world'.rival = world.rival /\ world'.vols = world.vols
  <2>1. world \in Worlds BY DEF Typed
  <2>2. CASE world' = world BY <2>1, <2>2 DEF Stocked
  <2>3. CASE world' = [world EXCEPT !.analytic = EnsureMigAnalytics(pass)]
    <3>1. PICK a : a = EnsureMigAnalytics(pass) OBVIOUS
    <3>2. world.analytic \in [state : {"none", "busy", "ready", "failed"}, refresh : BOOLEAN,
                              late : BOOLEAN, size : 0..2]
      BY <2>1 DEF Worlds
    <3>3. a \in [state : {"none", "busy", "ready", "failed"}, refresh : BOOLEAN,
                 late : BOOLEAN, size : 0..2]
      <4>1. CASE world.analytic.state = "none"
        <5>1. a = [world.analytic EXCEPT !.state = "busy"] BY <3>1, <4>1 DEF EnsureMigAnalytics
        <5> QED BY <3>2, <5>1
      <4>2. CASE world.analytic.state # "none"
        <5>1. PICK b : b = (world.analytic.refresh \/ pass.spec.refresh \/ ~pass.reconciled)
          OBVIOUS
        <5>2. b \in BOOLEAN BY <5>1
        <5>3. a = [world.analytic EXCEPT !.refresh = b]
          BY <3>1, <4>2, <5>1 DEF EnsureMigAnalytics
        <5> QED BY <3>2, <5>2, <5>3
      <4> QED BY <4>1, <4>2
    <3>4. world' = [world EXCEPT !.analytic = a] BY <2>3, <3>1
    <3>5. world' \in Worlds BY <2>1, <3>3, <3>4 DEF Worlds
    <3>6. /\ world'.cluster = world.cluster /\ world'.storage = world.storage
          /\ world'.flaws = world.flaws /\ world'.rival = world.rival /\ world'.vols = world.vols
          /\ world'.held = world.held /\ world'.version = world.version
      BY <2>1, <3>4 DEF Worlds
    <3> QED BY <3>5, <3>6 DEF Stocked
  <2> QED BY <2>2, <2>3 DEF StepValidate
<1>7. Lists(pass') BY <1>2, <1>5, SameLists
<1>8. Passing'
  <2>1. \A type, ns : Sound(type, ns)' <=> Sound(type, ns) BY <1>1, <1>6, WorldSame
  <2>2. ASSUME Fresh' PROVE Sound(pass.type, pass.spec.ns)'
    <3>1. ~Suspended(pass') /\ ~HasBlocker(pass'.conds) BY <2>2 DEF Fresh
    <3>2. Free(q.conds) BY <1>5, <3>1, FreeFacts
    <3>3. ~Suspended(pass) BY <1>5, <3>1 DEF Suspended, Reserved
    <3>4. Sound(q.type, pass.spec.ns) BY <1>3, <1>4, <3>2, <3>3
    <3> QED BY <1>5, <2>1, <3>4
  <2> QED BY <1>5, <2>2 DEF Passing
<1>9. Staging' BY <1>2, <1>5, ReservedFacts DEF Staging
<1> QED BY <1>1, <1>2, <1>5, <1>6, <1>7, <1>8, <1>9, Onward

\* A pass discovers the volumes and checks the selections.
LEMMA DiscoverStep ==
    ASSUME IInv, StepDiscover
    PROVE  IInv'
<1> USE DEF IInv
<1>1. /\ pass.at = "discover"
      /\ pass' = [ValidatePvSelections(NfsValidation(UpdatePvs(pass))) EXCEPT !.at = "store"]
      /\ setup' = setup /\ spec' = spec /\ status' = status /\ ghost' = ghost /\ quiet' = quiet
      /\ world' = world
  BY DEF StepDiscover, Goes
<1>2. /\ pass \in Passes /\ pass # NoPass /\ Lists(pass) /\ pass.suffix \in Randoms
      /\ spec.closed => pass.stale
      /\ "Closed" \in status.conds => ghost.reopened
      /\ pass.suffix = status.suffix \/ status.suffix = 0
      /\ ~pass.stale => pass.spec = spec
      /\ "Ready" \notin pass.conds /\ "Closed" \notin pass.conds
      /\ "PvsDiscovered" \notin pass.conds /\ "StorageEnsured" \notin pass.conds
  BY <1>1, UnderWay
<1>3. PICK q : q = ValidatePvSelections(NfsValidation(UpdatePvs(pass))) OBVIOUS
<1>4. /\ Finds(pass, q) /\ Lists(q)
      /\ ~Suspended(pass) /\ "PvsDiscovered" \in q.conds /\ Free(q.conds) =>
            Listing(pass.type, pass.spec.ns, q.spec.pvs)
  BY <1>2, <1>3, DiscoverFacts
<1>5. /\ pass' \in Passes /\ pass'.at = "store" /\ pass'.spec = q.spec /\ pass'.type = pass.type
      /\ pass'.spec.ns = pass.spec.ns /\ pass'.quiet = pass.quiet
      /\ pass'.suffix = pass.suffix /\ pass'.stale = pass.stale /\ pass'.conds = q.conds
  <2>1. /\ q \in Passes /\ q.type = pass.type /\ q.spec.ns = pass.spec.ns
        /\ q.quiet = pass.quiet /\ q.suffix = pass.suffix /\ q.stale = pass.stale
    BY <1>4 DEF Finds
  <2>2. PICK r : r = pass' OBVIOUS
  <2>3. r = [q EXCEPT !.at = "store"] BY <1>1, <1>3, <2>2
  <2>4. r \in Passes /\ r.at = "store" /\ r.spec = q.spec /\ r.suffix = q.suffix
        /\ r.stale = q.stale /\ r.conds = q.conds /\ r.type = q.type /\ r.quiet = q.quiet
    BY <2>1, <2>3, AtOnly
  <2> QED BY <2>1, <2>2, <2>4
<1>6. world' \in Worlds /\ (Stocked => Stocked') BY <1>1 DEF Typed, Stocked
<1>7. Lists(pass')
  <2>1. q.suffix = pass.suffix /\ q.stale = pass.stale BY <1>4 DEF Finds
  <2> QED BY <1>4, <1>5, <2>1, SameLists
<1>8. /\ Suspended(q) <=> Suspended(pass)
      /\ "Ready" \notin q.conds /\ "Closed" \notin q.conds /\ "StorageEnsured" \notin q.conds
      /\ pass.conds \subseteq q.conds
  BY <1>2, <1>4 DEF Finds, Suspended, Reserved
<1>9. Passing'
  <2>1. /\ \A type, ns : Sound(type, ns)' <=> Sound(type, ns)
        /\ \A type, ns, pvs : Listing(type, ns, pvs)' <=> Listing(type, ns, pvs)
    BY <1>1, WorldSame
  <2>2. ASSUME Fresh'
        PROVE  /\ Sound(pass.type, pass.spec.ns)'
               /\ "PvsDiscovered" \in pass'.conds => Listing(pass.type, pass.spec.ns, pass.spec.pvs)'
    <3>1. ~Suspended(pass') /\ ~HasBlocker(pass'.conds) /\ pass'.quiet BY <2>2 DEF Fresh
    <3>2. Free(q.conds) BY <1>5, <3>1, FreeFacts
    <3>3. ~Suspended(pass) BY <1>5, <1>8, <3>1 DEF Suspended
    <3>4. Free(pass.conds) BY <1>8, <3>2 DEF Free
    <3>5. Fresh BY <1>1, <1>2, <1>5, <3>1, <3>3, <3>4, FreeFacts DEF Fresh
    <3>6. Sound(pass.type, pass.spec.ns) BY <1>1, <3>5 DEF Passing
    <3>7. "PvsDiscovered" \in q.conds => Listing(pass.type, pass.spec.ns, q.spec.pvs)
      BY <1>4, <3>2, <3>3
    <3> QED BY <1>5, <2>1, <3>6, <3>7
  <2> QED BY <1>5, <2>2 DEF Passing
<1>10. Staging' BY <1>2, <1>5, <1>8 DEF Staging
<1> QED BY <1>1, <1>2, <1>5, <1>6, <1>7, <1>9, <1>10, Onward

\* The storage locations are made on both clusters or nothing is said of them.
LEMMA StoreFacts ==
    ASSUME NEW p \in Passes, "StorageEnsured" \notin p.conds
    PROVE  LET q == EnsureStorage(p) IN
           /\ q \in Passes /\ p.conds \subseteq q.conds
           /\ q.at = p.at /\ q.spec = p.spec /\ q.prev = p.prev /\ q.type = p.type
           /\ q.sticky = p.sticky /\ q.suffix = p.suffix /\ q.reconciled = p.reconciled
           /\ q.classes = p.classes /\ q.quiet = p.quiet /\ q.missed = p.missed
           /\ q.stale = p.stale
           /\ q.conds \subseteq p.conds \cup {"StorageEnsured"}
           /\ "StorageEnsured" \in q.conds /\ Ensures(p) =>
                 StorageFound /\ \A s \in Sides : Reachable(s)
<1>1. "StorageEnsured" \in CondTypes BY SayableFacts DEF Reserved
<1>2. PICK T : T = IF ~Ensures(p) THEN {"StorageEnsured"} \cap p.prev
                   ELSE IF StorageFound /\ \A s \in Sides : Reachable(s)
                        THEN {"StorageEnsured"} ELSE {}
  OBVIOUS
<1>3. p.conds \cup T \in SUBSET CondTypes BY <1>1, <1>2 DEF Passes
<1>4. EnsureStorage(p) = [p EXCEPT !.conds = p.conds \cup T]
  <2>1. CASE ~Ensures(p) BY <1>2, <2>1 DEF EnsureStorage, Stage, With
  <2>2. CASE Ensures(p) /\ StorageFound /\ \A s \in Sides : Reachable(s)
    BY <1>2, <2>2 DEF EnsureStorage, Raise, With
  <2>3. CASE Ensures(p) /\ ~(StorageFound /\ \A s \in Sides : Reachable(s))
    <3>1. EnsureStorage(p) = p /\ T = {} BY <1>2, <2>3 DEF EnsureStorage, Raise
    <3>2. p = [p EXCEPT !.conds = p.conds] BY DEF Passes
    <3>3. p.conds \cup T = p.conds BY <3>1
    <3> QED BY <3>1, <3>2, <3>3
  <2> QED BY <2>1, <2>2, <2>3
<1>5. PICK C : C = p.conds \cup T OBVIOUS
<1>6. /\ C \in SUBSET CondTypes /\ p.conds \subseteq C /\ C \subseteq p.conds \cup {"StorageEnsured"}
      /\ "StorageEnsured" \in C /\ Ensures(p) => StorageFound /\ \A s \in Sides : Reachable(s)
  BY <1>2, <1>3, <1>5
<1>7. EnsureStorage(p) = [p EXCEPT !.conds = C] BY <1>4, <1>5
<1> QED BY <1>6, <1>7, CondsOnly

\* A pass makes the storage locations.
LEMMA StoreStep ==
    ASSUME IInv, StepStore
    PROVE  IInv'
<1> USE DEF IInv
<1>1. /\ pass.at = "store" /\ world' = [world EXCEPT !.held = Ensured(pass)]
      /\ pass' = [EnsureStorage(pass) EXCEPT !.at = "finish"]
      /\ setup' = setup /\ spec' = spec /\ status' = status /\ ghost' = ghost /\ quiet' = quiet
  BY DEF StepStore, Goes
<1>2. /\ pass \in Passes /\ pass # NoPass /\ Lists(pass) /\ pass.suffix \in Randoms
      /\ spec.closed => pass.stale
      /\ "Closed" \in status.conds => ghost.reopened
      /\ pass.suffix = status.suffix \/ status.suffix = 0
      /\ "Ready" \notin pass.conds /\ "Closed" \notin pass.conds
      /\ "StorageEnsured" \notin pass.conds
  BY <1>1, UnderWay
<1>3. PICK q : q = EnsureStorage(pass) OBVIOUS
<1>4. /\ q \in Passes /\ pass.conds \subseteq q.conds
      /\ q.spec = pass.spec /\ q.type = pass.type /\ q.suffix = pass.suffix
      /\ q.quiet = pass.quiet /\ q.stale = pass.stale
      /\ q.conds \subseteq pass.conds \cup {"StorageEnsured"}
      /\ "StorageEnsured" \in q.conds /\ Ensures(pass) =>
            StorageFound /\ \A s \in Sides : Reachable(s)
  BY <1>2, <1>3, StoreFacts
<1>5. /\ pass' \in Passes /\ pass'.at = "finish" /\ pass'.spec = pass.spec
      /\ pass'.type = pass.type /\ pass'.quiet = pass.quiet
      /\ pass'.suffix = pass.suffix /\ pass'.stale = pass.stale /\ pass'.conds = q.conds
  <2>1. PICK r : r = pass' OBVIOUS
  <2>2. r = [q EXCEPT !.at = "finish"] BY <1>1, <1>3, <2>1
  <2>3. r \in Passes /\ r.at = "finish" /\ r.spec = q.spec /\ r.suffix = q.suffix
        /\ r.stale = q.stale /\ r.conds = q.conds /\ r.type = q.type /\ r.quiet = q.quiet
    BY <1>4, <2>2, AtOnly
  <2> QED BY <1>4, <2>1, <2>3
<1>6. PICK H : H = Ensured(pass) OBVIOUS
<1>7. world \in Worlds /\ world.version \in Nat /\ world.held \in [Sides -> [bsl : Nat, vsl : Nat, secret : Nat]]
  BY DEF Typed, Worlds
<1>8. UpToDate \in [bsl : Nat, vsl : Nat, secret : Nat] BY <1>7 DEF UpToDate
<1>9. /\ H \in [Sides -> [bsl : Nat, vsl : Nat, secret : Nat]]
      /\ \A s \in Sides : H[s] = UpToDate \/ H[s] = world.held[s]
      /\ Ensures(pass) /\ StorageFound => \A s \in Sides : Reachable(s) => H[s] = UpToDate
  <2>1. CASE Ensures(pass) /\ StorageFound
    <3>1. H = [s \in Sides |-> IF Reachable(s) THEN UpToDate ELSE world.held[s]]
      BY <1>6, <2>1 DEF Ensured
    <3> QED BY <1>7, <1>8, <3>1
  <2>2. CASE ~(Ensures(pass) /\ StorageFound)
    <3>1. H = world.held BY <1>6, <2>2 DEF Ensured
    <3> QED BY <1>7, <2>2, <3>1
  <2> QED BY <2>1, <2>2
<1>10. /\ world' \in Worlds /\ world'.held = H /\ world'.version = world.version
       /\ world'.cluster = world.cluster /\ world'.storage = world.storage
       /\ world'.flaws = world.flaws /\ world'.rival = world.rival /\ world'.vols = world.vols
  BY <1>1, <1>6, <1>7, <1>9 DEF Worlds
<1>11. \A k \in {"bsl", "vsl", "secret"} : UpToDate[k] = world.version BY DEF UpToDate
<1>12. Stocked => Stocked' BY <1>9, <1>10, <1>11 DEF Stocked
<1>13. Lists(pass') BY <1>2, <1>5, SameLists
<1>14. Passing'
  <2>1. /\ \A type, ns : Sound(type, ns)' <=> Sound(type, ns)
        /\ \A type, ns, pvs : Listing(type, ns, pvs)' <=> Listing(type, ns, pvs)
    BY <1>1, <1>10, WorldSame
  <2>2. ASSUME Fresh'
        PROVE  /\ Sound(pass.type, pass.spec.ns)'
               /\ "PvsDiscovered" \in pass'.conds => Listing(pass.type, pass.spec.ns, pass.spec.pvs)'
               /\ "StorageEnsured" \in pass'.conds => Stocked'
    <3>1. ~Suspended(pass') /\ ~HasBlocker(pass'.conds) /\ pass'.quiet BY <2>2 DEF Fresh
    <3>2. Free(q.conds) BY <1>5, <3>1, FreeFacts
    <3>3. ~Suspended(pass) BY <1>4, <1>5, <3>1 DEF Suspended
    <3>4. Free(pass.conds) BY <1>4, <3>2 DEF Free
    <3>5. Fresh BY <1>1, <1>2, <1>5, <3>1, <3>3, <3>4, FreeFacts DEF Fresh
    <3>6. /\ Sound(pass.type, pass.spec.ns)
          /\ "PvsDiscovered" \in pass.conds => Listing(pass.type, pass.spec.ns, pass.spec.pvs)
      BY <1>1, <3>5 DEF Passing
    <3>7. "PvsDiscovered" \in q.conds => "PvsDiscovered" \in pass.conds BY <1>4
    <3>8. Ensures(pass) BY <3>3, <3>4, FreeFacts DEF Ensures, HasCritical
    <3>9. "StorageEnsured" \in q.conds => Stocked'
      BY <1>4, <1>9, <1>10, <1>11, <3>8 DEF Stocked
    <3> QED BY <1>5, <2>1, <3>6, <3>7, <3>9
  <2> QED BY <1>5, <2>2 DEF Passing
<1>15. Staging' BY <1>2, <1>4, <1>5 DEF Staging
<1> QED BY <1>1, <1>2, <1>5, <1>10, <1>12, <1>13, <1>14, <1>15, Onward

\* Nothing that the invariant speaks of changes.
LEMMA Idle ==
    ASSUME IInv, UNCHANGED <<setup, spec, status, world, pass, quiet, ghost>>
    PROVE  IInv'
<1>1. world \in Worlds BY DEF IInv, Typed
<1>2. PICK a : a = world.analytic OBVIOUS
<1>3. a \in [state : {"none", "busy", "ready", "failed"}, refresh : BOOLEAN,
             late : BOOLEAN, size : 0..2]
  BY <1>1, <1>2 DEF Worlds
<1>4. world' = [world EXCEPT !.analytic = a] BY <1>1, <1>2 DEF Worlds
<1> QED BY <1>3, <1>4, Analyzed

\* A pass that ends without writing the plan but has worked on the clusters.
LEMMA Abandoned ==
    ASSUME IInv, setup' = setup, spec' = spec, status' = status, ghost' = ghost, quiet' = quiet,
           world' \in Worlds, world'.cluster = world.cluster, world'.storage = world.storage,
           world'.flaws = world.flaws, world'.rival = world.rival, world'.vols = world.vols,
           PlanReady /\ Stocked => Stocked', pass' = NoPass,
           "Closed" \in status.conds => ghost.reopened
    PROVE  IInv'
<1> USE DEF IInv
<1>1. NoPass' = NoPass BY DEF NoPass
<1>2. /\ \A type, ns : Sound(type, ns)' <=> Sound(type, ns)
      /\ \A type, ns, pvs : Listing(type, ns, pvs)' <=> Listing(type, ns, pvs)
      /\ \A pvs : Offered(pvs)' <=> Offered(pvs)
  BY WorldSame
<1>3. Typed' BY <1>1, SetsSame DEF Typed
<1>4. Passing' BY <1>1 DEF Passing, Fresh
<1>5. Staging' BY <1>1 DEF Staging
<1>6. Justified' BY <1>2 DEF Justified, PlanReady, StoredSuspended
<1>7. Closing' BY <1>1 DEF Closing, Nothing
<1>8. Working'
  <2>1. \A pvs : (Kept(pvs)' <=> Kept(pvs)) /\ (SameNames(pvs)' <=> SameNames(pvs))
    BY KeptSame
  <2>2. \A pvs, suffix : Tails(pvs, suffix)' <=> Tails(pvs, suffix) BY DEF Tails
  <2> QED BY <1>1, <1>2, <2>1, <2>2 DEF Working
<1> QED BY <1>3, <1>4, <1>5, <1>6, <1>7, <1>8

\* The choices for the volumes that stay listed.
LEMMA StillChosenFacts ==
    ASSUME Typed, NEW pvs
    PROVE  LET C == StillChosen(pvs) IN
           /\ C \in UNION {[S -> Selections] : S \in SUBSET Vols}
           /\ DOMAIN C = DOMAIN ghost.chosen \cap DOMAIN pvs
           /\ \A v \in DOMAIN C : C[v] = ghost.chosen[v]
<1>1. PICK S \in SUBSET Vols : ghost.chosen \in [S -> Selections] BY DEF Typed
<1>2. PICK D : D = DOMAIN ghost.chosen \cap DOMAIN pvs OBVIOUS
<1>3. D \in SUBSET Vols BY <1>1, <1>2
<1>4. PICK C : C = [v \in D |-> ghost.chosen[v]] OBVIOUS
<1>5. StillChosen(pvs) = C BY <1>2, <1>4 DEF StillChosen
<1>6. C \in [D -> Selections] BY <1>1, <1>2, <1>4
<1>7. DOMAIN C = D /\ \A v \in DOMAIN C : C[v] = ghost.chosen[v] BY <1>4
<1> QED BY <1>2, <1>3, <1>5, <1>6, <1>7

\* A pass that writes the plan.
LEMMA Written ==
    ASSUME IInv, NEW p \in Passes, Lists(p), ~p.stale,
           NEW s \in Specs, s.pvs = p.spec.pvs, NEW C \in SUBSET CondTypes, "Closed" \notin C,
           NEW r \in BOOLEAN, setup' = setup, spec' = s, status' = StatusOf(p, C, r),
           ghost' = [ghost EXCEPT !.chosen = StillChosen(p.spec.pvs)],
           world' \in Worlds, quiet' \in BOOLEAN, pass' = NoPass, Justified'
    PROVE  IInv'
<1> USE DEF IInv
<1>1. NoPass' = NoPass BY DEF NoPass
<1>2. PICK K : K = StillChosen(p.spec.pvs) OBVIOUS
<1>3. /\ K \in UNION {[S -> Selections] : S \in SUBSET Vols}
      /\ DOMAIN K = DOMAIN ghost.chosen \cap DOMAIN p.spec.pvs
      /\ \A v \in DOMAIN K : K[v] = ghost.chosen[v]
  BY <1>2, StillChosenFacts
<1>4. /\ ghost'.chosen = K /\ ghost'.unreached = ghost.unreached
      /\ ghost'.reopened = ghost.reopened
      /\ ghost' \in [chosen : {K}, unreached : SUBSET Sides, reopened : BOOLEAN]
  BY <1>2 DEF Typed
<1>5. status' \in Statuses /\ status'.conds = C /\ status'.suffix = p.suffix
  BY DEF StatusOf, Passes, Statuses
<1>6. Typed' BY <1>1, <1>3, <1>4, <1>5, SetsSame DEF Typed
<1>7. Passing' BY <1>1 DEF Passing, Fresh
<1>8. Staging' BY <1>1 DEF Staging
<1>9. Closing' BY <1>1, <1>5 DEF Closing
<1>10. Working'
  <2>1. \A pvs : Offered(pvs)' <=> Offered(pvs) BY DEF Offered, SupportedActions
  <2>2. \A pvs, suffix : Tails(pvs, suffix)' <=> Tails(pvs, suffix) BY DEF Tails
  <2>3. Offered(spec'.pvs) /\ Tails(spec'.pvs, status'.suffix) BY <1>5 DEF Lists
  <2>4. Kept(spec.pvs)'
    <3>1. \A v \in DOMAIN ghost.chosen \cap DOMAIN p.spec.pvs :
             p.spec.pvs[v].sel = ghost.chosen[v] \/ Forced(p.spec.pvs[v])
      BY DEF Lists, Kept
    <3> QED BY <1>3, <1>4, <3>1 DEF Kept, Forced
  <2> QED BY <1>1, <2>1, <2>2, <2>3, <2>4 DEF Working
<1> QED BY <1>6, <1>7, <1>8, <1>9, <1>10

\* A pass that fails tells the plan so.
LEMMA Failed ==
    ASSUME IInv, pass.at \in {"validate", "discover", "store"},
           NEW p \in Passes, Lists(p), p.stale = pass.stale,
           "Closed" \notin p.conds, WriteFailure(p),
           setup' = setup, quiet' = quiet, pass' = NoPass,
           world' \in Worlds, world'.cluster = world.cluster, world'.storage = world.storage,
           world'.flaws = world.flaws, world'.rival = world.rival, world'.vols = world.vols,
           Stocked => Stocked'
    PROVE  IInv'
<1>1. CASE p.stale
  <2>1. "Closed" \in status.conds => ghost.reopened BY UnderWay
  <2> QED BY <1>1, <2>1, Abandoned DEF WriteFailure
<1>2. CASE ~p.stale
  <2>1. PICK C : C = (p.conds \ {"Ready"}) \cup {"ReconcileFailed"} OBVIOUS
  <2>2. PICK r : r = (p.reconciled /\ p.spec = spec) OBVIOUS
  <2>3. "ReconcileFailed" \in CondTypes BY DEF CondTypes, Blockers, CriticalConditions
  <2>4. C \in SUBSET CondTypes /\ "Closed" \notin C /\ "Ready" \notin C
    BY <2>1, <2>3 DEF Passes
  <2>5. r \in BOOLEAN BY <2>2
  <2>6. spec' = p.spec /\ status' = StatusOf(p, C, r)
        /\ ghost' = [ghost EXCEPT !.chosen = StillChosen(p.spec.pvs)]
    BY <1>2, <2>1, <2>2 DEF WriteFailure
  <2>7. p.spec \in Specs BY DEF Passes
  <2>8. Justified' BY <2>4, <2>6 DEF Justified, PlanReady, StatusOf
  <2>9. quiet' \in BOOLEAN BY DEF IInv, Typed
  <2> QED BY <1>2, <2>4, <2>5, <2>6, <2>7, <2>8, <2>9, Written
<1> QED BY <1>1, <1>2

\* A cluster that is not there ends the pass with an error.
LEMMA UnresolvedStep ==
    ASSUME IInv, StepUnresolved
    PROVE  IInv'
<1>1. /\ pass.at = "validate" /\ WriteFailure(Validate(pass)) /\ pass' = NoPass
      /\ setup' = setup /\ world' = world /\ quiet' = quiet
  BY DEF StepUnresolved
<1>2. pass \in Passes /\ Lists(pass) /\ "Closed" \notin pass.conds BY <1>1, UnderWay
<1>3. PICK p : p = Validate(pass) OBVIOUS
<1>4. Judges(pass, p) BY <1>2, <1>3, ValidateFacts DEF IInv
<1>5. /\ p \in Passes /\ p.stale = pass.stale /\ p.suffix = pass.suffix /\ p.spec = pass.spec
      /\ p.conds \cap Reserved = pass.conds \cap Reserved
  BY <1>4 DEF Judges
<1>6. "Closed" \notin p.conds BY <1>2, <1>5, ReservedFacts
<1>7. Lists(p) BY <1>2, <1>5, SameLists
<1>8. world' \in Worlds /\ (Stocked => Stocked') BY <1>1 DEF IInv, Typed, Stocked
<1>9. WriteFailure(p) BY <1>1, <1>3
<1> QED BY <1>1, <1>5, <1>6, <1>7, <1>8, <1>9, Failed

\* A call fails, and some of the storage locations may have been made.
LEMMA ErrorStep ==
    ASSUME IInv, Error
    PROVE  IInv'
<1>1. /\ pass.at \in {"validate", "discover", "store"} /\ WriteFailure(pass)
      /\ pass' = NoPass /\ setup' = setup /\ quiet' = quiet
  BY DEF Error
<1>2. pass \in Passes /\ Lists(pass) /\ "Closed" \notin pass.conds BY <1>1, UnderWay
<1>3. /\ world' \in Worlds /\ (Stocked => Stocked')
      /\ world'.cluster = world.cluster /\ world'.storage = world.storage
      /\ world'.flaws = world.flaws /\ world'.rival = world.rival /\ world'.vols = world.vols
  <2>1. /\ world \in Worlds /\ world.version \in Nat
        /\ world.held \in [Sides -> [bsl : Nat, vsl : Nat, secret : Nat]]
    BY DEF IInv, Typed, Worlds
  <2>2. CASE world' = world BY <2>1, <2>2 DEF Stocked
  <2>3. CASE \E s \in Sides : \E h \in PartlyEnsured(world.held[s]) :
                world' = [world EXCEPT !.held[s] = h]
    <3>0. PICK s \in Sides : \E h \in PartlyEnsured(world.held[s]) :
             world' = [world EXCEPT !.held[s] = h]
      BY <2>3
    <3>1. PICK h \in PartlyEnsured(world.held[s]) : world' = [world EXCEPT !.held[s] = h]
      BY <3>0
    <3>2. PICK o : o = world.held[s] OBVIOUS
    <3>3. o \in [bsl : Nat, vsl : Nat, secret : Nat] BY <2>1, <3>2
    <3>4. /\ h \in [bsl : Nat, vsl : Nat, secret : Nat]
          /\ \A k \in {"bsl", "vsl", "secret"} : h[k] = o[k] \/ h[k] = world.version
      <4>1. PICK n \in Nat : n = world.version BY <2>1
      <4>2. h \in { o, [o EXCEPT !.bsl = n], [o EXCEPT !.bsl = n, !.vsl = n],
                    [bsl |-> n, vsl |-> n, secret |-> n] }
        BY <3>1, <3>2, <4>1 DEF PartlyEnsured, UpToDate
      <4>3. CASE h = o BY <3>3, <4>3
      <4>4. CASE h = [o EXCEPT !.bsl = n] BY <3>3, <4>1, <4>4
      <4>5. CASE h = [o EXCEPT !.bsl = n, !.vsl = n] BY <3>3, <4>1, <4>5
      <4>6. CASE h = [bsl |-> n, vsl |-> n, secret |-> n] BY <4>1, <4>6
      <4> QED BY <4>2, <4>3, <4>4, <4>5, <4>6
    <3>5. PICK H : H = [world.held EXCEPT ![s] = h] OBVIOUS
    <3>6. /\ H \in [Sides -> [bsl : Nat, vsl : Nat, secret : Nat]]
          /\ \A t \in Sides : H[t] = IF t = s THEN h ELSE world.held[t]
      BY <2>1, <3>4, <3>5
    <3>7. world' = [world EXCEPT !.held = H] BY <3>1, <3>5
    <3>8. /\ world' \in Worlds /\ world'.held = H /\ world'.version = world.version
          /\ world'.cluster = world.cluster /\ world'.storage = world.storage
          /\ world'.flaws = world.flaws /\ world'.rival = world.rival
          /\ world'.vols = world.vols
      BY <2>1, <3>6, <3>7 DEF Worlds
    <3>9. Stocked => Stocked' BY <3>2, <3>4, <3>6, <3>8 DEF Stocked
    <3> QED BY <3>8, <3>9
  <2> QED BY <2>2, <2>3 DEF Error
<1>4. pass.stale = pass.stale OBVIOUS
<1> QED BY <1>1, <1>2, <1>3, <1>4, Failed

\* What the analysis of the volumes changes of a pass.
LEMMA ProposedFacts ==
    ASSUME Typed, NEW p \in Passes
    PROVE  LET q == ProcessProposed(p) IN
           /\ q \in Passes /\ q.conds = p.conds /\ q.type = p.type /\ q.suffix = p.suffix
           /\ q.quiet = p.quiet /\ q.stale = p.stale /\ q.spec.ns = p.spec.ns
           /\ DOMAIN q.spec.pvs = DOMAIN p.spec.pvs
           /\ \A v \in DOMAIN p.spec.pvs : /\ q.spec.pvs[v].sel = p.spec.pvs[v].sel
                                           /\ q.spec.pvs[v].target = p.spec.pvs[v].target
                                           /\ q.spec.pvs[v].actions = p.spec.pvs[v].actions
<1>1. PICK S \in SUBSET Vols : p.spec.pvs \in [S -> PvRecords] BY DEF Passes, Specs, PvMaps
<1>2. PICK n \in 0..2 : n = world.analytic.size BY DEF Typed, Worlds
<1>3. PICK P : P = [v \in DOMAIN p.spec.pvs |-> Proposed(p.spec.pvs[v])] OBVIOUS
<1>4. ASSUME NEW e \in PvRecords
      PROVE  /\ Proposed(e) \in PvRecords /\ Proposed(e).sel = e.sel
             /\ Proposed(e).target = e.target /\ Proposed(e).actions = e.actions
  <2>1. PICK b \in BOOLEAN : b = (e.confirmed /\ e.proposed <= n) OBVIOUS
  <2>2. Proposed(e) = [e EXCEPT !.confirmed = b, !.proposed = n] BY <1>2, <2>1 DEF Proposed
  <2> QED BY <2>1, <2>2 DEF PvRecords
<1>5. P \in [S -> PvRecords] BY <1>1, <1>3, <1>4
<1>6. P \in PvMaps BY <1>5 DEF PvMaps
<1>7. ProcessProposed(p) = [p EXCEPT !.spec.pvs = P] BY <1>3 DEF ProcessProposed
<1>8. /\ DOMAIN P = DOMAIN p.spec.pvs
      /\ \A v \in DOMAIN p.spec.pvs : /\ P[v].sel = p.spec.pvs[v].sel
                                      /\ P[v].target = p.spec.pvs[v].target
                                      /\ P[v].actions = p.spec.pvs[v].actions
  BY <1>1, <1>3, <1>4
<1> QED BY <1>6, <1>7, <1>8, ListOnly

\* q is p after the analysis: only what a pass may take back has gone.
Weighs(p, q) ==
    /\ q \in Passes /\ q.type = p.type /\ q.suffix = p.suffix /\ q.quiet = p.quiet
    /\ q.stale = p.stale /\ q.spec.ns = p.spec.ns
    /\ p.conds \ Shed \subseteq q.conds
    /\ q.conds \cap Reserved = p.conds \cap Reserved
    /\ DOMAIN q.spec.pvs = DOMAIN p.spec.pvs
    /\ \A v \in DOMAIN p.spec.pvs : /\ q.spec.pvs[v].sel = p.spec.pvs[v].sel
                                    /\ q.spec.pvs[v].target = p.spec.pvs[v].target
                                    /\ q.spec.pvs[v].actions = p.spec.pvs[v].actions

\* The analysis changes sizes and takes back only its own conditions.
LEMMA AnalyticsFacts ==
    ASSUME Typed, NEW p \in Passes
    PROVE  Weighs(p, CheckAnalytics(p))
<1>1. /\ {"PvUsageAnalysisFailed"} \in SUBSET Shed /\ {"PvUsageAnalysisFailed"} \in SUBSET Sayable
      /\ {"PvCapacityAdjustmentRequired"} \in SUBSET Shed
      /\ {"PvCapacityAdjustmentRequired"} \in SUBSET Sayable
      /\ {"PvUsageAnalysisFailed", "PvCapacityAdjustmentRequired"} \in SUBSET Shed
  BY DEF Shed, Sayable, Notes
<1>2. ASSUME NEW m \in Passes, m.conds = p.conds, m.type = p.type, m.suffix = p.suffix,
             m.quiet = p.quiet, m.stale = p.stale, m.spec.ns = p.spec.ns,
             DOMAIN m.spec.pvs = DOMAIN p.spec.pvs,
             \A v \in DOMAIN p.spec.pvs : /\ m.spec.pvs[v].sel = p.spec.pvs[v].sel
                                          /\ m.spec.pvs[v].target = p.spec.pvs[v].target
                                          /\ m.spec.pvs[v].actions = p.spec.pvs[v].actions,
             NEW q, Adds(m, q)
      PROVE  Weighs(p, q)
  BY <1>2 DEF Adds, Weighs
<1>3. CASE ~Opt("resize")
  <2>1. CheckAnalytics(p) = p BY <1>3 DEF CheckAnalytics
  <2> QED BY <1>2, <2>1, SelfAdds
<1>4. CASE Opt("resize") /\ AnalyticReady
  <2>1. PICK m : m = ProcessProposed(p) OBVIOUS
  <2>2. /\ m \in Passes /\ m.conds = p.conds /\ m.type = p.type /\ m.suffix = p.suffix
        /\ m.quiet = p.quiet /\ m.stale = p.stale /\ m.spec.ns = p.spec.ns
        /\ DOMAIN m.spec.pvs = DOMAIN p.spec.pvs
        /\ \A v \in DOMAIN p.spec.pvs : /\ m.spec.pvs[v].sel = p.spec.pvs[v].sel
                                        /\ m.spec.pvs[v].target = p.spec.pvs[v].target
                                        /\ m.spec.pvs[v].actions = p.spec.pvs[v].actions
    BY <2>1, ProposedFacts
  <2>3. Adds(m, GeneratePVResizeConditions(m))
    <3>1. CASE world.analytic.size > 1 /\ DOMAIN m.spec.pvs # {}
      <4>1. PICK w : w = Without(m, {"PvUsageAnalysisFailed"}) OBVIOUS
      <4>2. Adds(m, w) BY <1>1, <2>2, <4>1, WithoutAdds
      <4>3. w \in Passes BY <4>2 DEF Adds
      <4>4. Adds(w, With(w, {"PvCapacityAdjustmentRequired"})) BY <1>1, <4>3, WithAdds
      <4>5. GeneratePVResizeConditions(m) = With(w, {"PvCapacityAdjustmentRequired"})
        BY <3>1, <4>1 DEF GeneratePVResizeConditions
      <4> QED BY <4>2, <4>4, <4>5, AddsTrans
    <3>2. CASE ~(world.analytic.size > 1 /\ DOMAIN m.spec.pvs # {})
      <4>1. GeneratePVResizeConditions(m) =
               Without(m, {"PvUsageAnalysisFailed", "PvCapacityAdjustmentRequired"})
        BY <3>2 DEF GeneratePVResizeConditions
      <4> QED BY <1>1, <2>2, <4>1, WithoutAdds
    <3> QED BY <3>1, <3>2
  <2>4. CheckAnalytics(p) = GeneratePVResizeConditions(m) BY <1>4, <2>1 DEF CheckAnalytics
  <2> QED BY <1>2, <2>2, <2>3, <2>4
<1>5. CASE Opt("resize") /\ ~AnalyticReady
  <2>1. PICK w : w = Without(p, {"PvCapacityAdjustmentRequired"}) OBVIOUS
  <2>2. Adds(p, w) BY <1>1, <2>1, WithoutAdds
  <2>3. w \in Passes BY <2>2 DEF Adds
  <2>4. Adds(w, With(w, {"PvUsageAnalysisFailed"})) BY <1>1, <2>3, WithAdds
  <2>5. CheckAnalytics(p) = With(w, {"PvUsageAnalysisFailed"})
    BY <1>5, <2>1 DEF CheckAnalytics
  <2>6. Adds(p, CheckAnalytics(p)) BY <2>2, <2>4, <2>5, AddsTrans
  <2> QED BY <1>2, <2>6
<1> QED BY <1>3, <1>4, <1>5

\* The lists of the pass mean the same after the analysis.
LEMMA WeighsLists ==
    ASSUME NEW p, NEW q, Weighs(p, q), Lists(p)
    PROVE  Lists(q)
<1>1. Offered(q.spec.pvs) BY DEF Weighs, Lists, Offered
<1>2. Tails(q.spec.pvs, q.suffix) BY DEF Weighs, Lists, Tails
<1>3. ASSUME Kept(p.spec.pvs) PROVE Kept(q.spec.pvs) BY <1>3 DEF Weighs, Kept, Forced
<1>4. ASSUME SameNames(p.spec.pvs) PROVE SameNames(q.spec.pvs) BY <1>4 DEF Weighs, SameNames
<1> QED BY <1>1, <1>2, <1>3, <1>4 DEF Weighs, Lists

\* What was listed in order still is.
LEMMA WeighsListing ==
    ASSUME NEW p, NEW q, Weighs(p, q), NEW type, NEW ns, Listing(type, ns, p.spec.pvs)
    PROVE  Listing(type, ns, q.spec.pvs)
<1>1. Due(type, ns, q.spec.pvs) = Due(type, ns, p.spec.pvs) BY DEF Weighs, Due
<1>2. \A v \in DOMAIN p.spec.pvs : Good(v, q.spec.pvs[v]) <=> Good(v, p.spec.pvs[v])
  BY DEF Weighs, Good
<1>3. DOMAIN q.spec.pvs = DOMAIN p.spec.pvs
      /\ \A v \in DOMAIN p.spec.pvs : q.spec.pvs[v].sel = p.spec.pvs[v].sel
  BY DEF Weighs
<1> QED BY <1>1, <1>2, <1>3 DEF Listing

\* A pass is complete: what it has found is written, and the plan is ready or not.
LEMMA FinishStep ==
    ASSUME IInv, StepFinish
    PROVE  IInv'
<1>1. /\ pass.at = "finish" /\ Commit(CheckAnalytics(pass)) /\ pass' = NoPass
      /\ setup' = setup /\ world' = world
  BY DEF StepFinish
<1>2. /\ pass \in Passes /\ pass # NoPass /\ Lists(pass)
      /\ "Closed" \notin pass.conds /\ "Ready" \notin pass.conds
      /\ pass.quiet \in BOOLEAN
  BY <1>1, UnderWay
<1>3. PICK q : q = CheckAnalytics(pass) OBVIOUS
<1>4. Weighs(pass, q) BY <1>2, <1>3, AnalyticsFacts DEF IInv
<1>5. /\ q \in Passes /\ q.type = pass.type /\ q.quiet = pass.quiet /\ q.stale = pass.stale
      /\ q.spec.ns = pass.spec.ns /\ pass.conds \ Shed \subseteq q.conds
      /\ q.conds \cap Reserved = pass.conds \cap Reserved
  BY <1>4 DEF Weighs
<1>6. Lists(q) BY <1>2, <1>4, WeighsLists
<1>7. CASE q.stale
  <2>1. spec' = spec /\ status' = status /\ quiet' = quiet /\ ghost' = ghost
    BY <1>1, <1>3, <1>7 DEF Commit
  <2> QED BY <1>1, <2>1, Dropped
<1>8. CASE ~q.stale
  <2>1. PICK s : s = [q.spec EXCEPT !.refresh = FALSE] OBVIOUS
  <2>2. q.spec \in Specs BY <1>5 DEF Passes
  <2>3. s \in Specs /\ s.pvs = q.spec.pvs /\ s.ns = q.spec.ns BY <2>1, <2>2 DEF Specs
  <2>4. PICK C : C = q.conds \cup ReadyCond(q) OBVIOUS
  <2>5. "Ready" \in CondTypes BY DEF CondTypes, Reserved
  <2>6. q.conds \in SUBSET CondTypes BY <1>5 DEF Passes
  <2>7. ReadyCond(q) \subseteq {"Ready"} BY DEF ReadyCond
  <2>8. C \in SUBSET CondTypes BY <2>4, <2>5, <2>6, <2>7
  <2>9. "Closed" \notin q.conds /\ "Ready" \notin q.conds /\ (Suspended(q) <=> Suspended(pass))
    BY <1>2, <1>5, ReservedFacts
  <2>10. "Closed" \notin C BY <2>4, <2>7, <2>9
  <2>11. /\ spec' = s /\ status' = StatusOf(q, C, TRUE) /\ quiet' = q.quiet
         /\ ghost' = [ghost EXCEPT !.chosen = StillChosen(q.spec.pvs)]
    BY <1>1, <1>3, <1>8, <2>1, <2>4 DEF Commit
  <2>12. status'.conds = C /\ status'.type = q.type BY <2>11 DEF StatusOf
  <2>13. Justified'
    <3>1. SUFFICES ASSUME quiet', "Ready" \in C, "Suspended" \notin C
                   PROVE  /\ Sound(q.type, q.spec.ns)'
                          /\ Listing(q.type, q.spec.ns, q.spec.pvs)'
                          /\ q.type # "conversion" => Stocked'
      BY <2>3, <2>11, <2>12 DEF Justified, PlanReady, StoredSuspended
    <3>2. Required(q) \subseteq q.conds /\ ~HasBlocker(q.conds)
      BY <2>4, <2>9, <3>1 DEF ReadyCond
    <3>3. ~Suspended(pass) BY <2>4, <2>9, <3>1 DEF Suspended
    <3>4. Free(pass.conds) BY <1>5, <3>2, FreeFacts, BlockerFacts DEF Free
    <3>5. Fresh BY <1>1, <1>2, <1>5, <2>11, <3>1, <3>3, <3>4, FreeFacts DEF Fresh
    <3>6. /\ "PvsDiscovered" \in pass.conds
          /\ q.type # "conversion" => "StorageEnsured" \in pass.conds
      <4>1. /\ "PvsDiscovered" \in q.conds
            /\ q.type # "conversion" => "StorageEnsured" \in q.conds
        BY <3>2 DEF Required, Conversion
      <4> QED BY <1>5, <4>1, ReservedFacts
    <3>7. /\ Sound(pass.type, pass.spec.ns) /\ Listing(pass.type, pass.spec.ns, pass.spec.pvs)
          /\ q.type # "conversion" => Stocked
      BY <1>1, <3>5, <3>6 DEF IInv, Passing
    <3>8. Listing(q.type, q.spec.ns, q.spec.pvs) BY <1>4, <1>5, <3>7, WeighsListing
    <3>9. /\ \A type, ns : Sound(type, ns)' <=> Sound(type, ns)
          /\ \A type, ns, pvs : Listing(type, ns, pvs)' <=> Listing(type, ns, pvs)
          /\ Stocked' <=> Stocked
      BY <1>1, WorldSame DEF Stocked
    <3> QED BY <1>5, <3>7, <3>8, <3>9
  <2>14. world' \in Worlds /\ quiet' \in BOOLEAN BY <1>1, <1>2, <1>5, <2>11 DEF IInv, Typed
  <2> QED BY <1>1, <1>5, <1>6, <1>8, <2>3, <2>8, <2>10, <2>11, <2>13, <2>14, Written
<1> QED BY <1>7, <1>8

\* A closed plan is told that it is not ready.
LEMMA BeginClosedStep ==
    ASSUME IInv, BeginClosed
    PROVE  IInv'
<1> USE DEF IInv
<1>1. /\ pass.at = "none" /\ spec.closed /\ setup' = setup /\ spec' = spec /\ world' = world
      /\ quiet' = quiet /\ ghost' = ghost
  BY DEF BeginClosed
<1>2. CASE "Closed" \in status.conds
  <2>1. status' = status /\ pass' = pass BY <1>2 DEF BeginClosed
  <2> QED BY <1>1, <2>1, Idle
<1>3. CASE "Closed" \notin status.conds
  <2>1. PICK C : C = status.conds \ {"Ready"} OBVIOUS
  <2>2. PICK b : b = BeginStaging("closing", status.suffix) OBVIOUS
  <2>3. /\ status' = [status EXCEPT !.conds = C, !.reconciled = TRUE]
        /\ pass' = [b EXCEPT !.conds = status'.conds, !.reconciled = TRUE, !.type = status.type]
    BY <1>3, <2>1, <2>2 DEF BeginClosed
  <2>4. /\ status \in Statuses /\ status.conds \in SUBSET CondTypes /\ status.type \in Types
        /\ status.suffix \in {0} \cup Randoms
    BY DEF Typed, Statuses
  <2>5. C \in SUBSET CondTypes /\ "Ready" \notin C /\ "Closed" \notin C BY <1>3, <2>1, <2>4
  <2>6. /\ status' \in Statuses /\ status'.conds = C /\ status'.suffix = status.suffix
    BY <2>3, <2>4, <2>5 DEF Statuses
  <2>7. b \in Passes /\ b.at = "closing" /\ b.spec = spec /\ b.suffix = status.suffix /\ ~b.stale
    BY <2>2, <2>4, StagingFacts
  <2>8. /\ pass' \in Passes /\ pass'.at = "closing" /\ pass'.spec = spec
        /\ pass'.suffix = status.suffix /\ ~pass'.stale /\ pass'.conds = C
    <3>1. PICK r : r = pass' OBVIOUS
    <3>2. r = [b EXCEPT !.conds = C, !.reconciled = TRUE, !.type = status.type]
      BY <2>3, <2>6, <3>1
    <3>3. /\ r \in Passes /\ r.at = "closing" /\ r.spec = spec
          /\ r.suffix = status.suffix /\ ~r.stale /\ r.conds = C
      BY <2>4, <2>5, <2>7, <3>2 DEF Passes
    <3> QED BY <3>1, <3>3
  <2>9. Typed' BY <1>1, <2>6, <2>8, SetsSame DEF Typed
  <2>10. Passing' BY <2>8 DEF Passing, Fresh
  <2>11. Staging' BY <2>5, <2>8 DEF Staging
  <2>12. Justified' BY <2>5, <2>6 DEF Justified, PlanReady
  <2>13. Closing' BY <1>1, <2>5, <2>6, <2>8 DEF Closing
  <2>14. Working'
    <3>1. \A pvs : Offered(pvs)' <=> Offered(pvs) BY <1>1 DEF Offered, SupportedActions
    <3>2. \A pvs : (Kept(pvs)' <=> Kept(pvs)) /\ (SameNames(pvs)' <=> SameNames(pvs))
      BY <1>1, KeptSame
    <3>3. \A pvs, suffix : Tails(pvs, suffix)' <=> Tails(pvs, suffix) BY DEF Tails
    <3>4. SameNames(spec.pvs) BY DEF SameNames
    <3>5. Kept(spec.pvs) /\ Offered(spec.pvs) /\ Tails(spec.pvs, status.suffix) BY DEF Working
    <3>6. Kept(spec.pvs)' /\ Offered(spec.pvs)' /\ Tails(spec.pvs, status.suffix)'
          /\ SameNames(spec.pvs)'
      BY <1>1, <2>6, <3>1, <3>2, <3>3, <3>4, <3>5
    <3>7. /\ Offered(pass.spec.pvs)' /\ Tails(pass.spec.pvs, pass.suffix)'
          /\ Kept(pass.spec.pvs)' /\ SameNames(pass.spec.pvs)'
          /\ pass'.suffix = status'.suffix /\ pass'.spec = spec'
      BY <1>1, <2>6, <2>8, <3>1, <3>2, <3>3, <3>4, <3>5
    <3> QED BY <3>6, <3>7 DEF Working
  <2> QED BY <2>9, <2>10, <2>11, <2>12, <2>13, <2>14
<1> QED BY <1>2, <1>3

\* What a closing pass has written by itself: the plan is not ready.
LEMMA ClosingFacts ==
    ASSUME IInv, pass.at = "closing"
    PROVE  /\ pass \in Passes /\ pass # NoPass
           /\ ~PlanReady /\ "Closed" \notin status.conds
           /\ "Ready" \notin pass.conds /\ pass.suffix = status.suffix
           /\ ~pass.stale => spec.closed
<1>1. pass # NoPass /\ pass \in Passes BY PassIs DEF IInv
<1> QED BY <1>1 DEF IInv, Closing, Staging, Working, PlanReady

\* The resources on the clusters change, and nothing else of the world.
LEMMA HeldOnly ==
    ASSUME world \in Worlds, NEW H \in [Sides -> [bsl : Nat, vsl : Nat, secret : Nat]],
           world' = [world EXCEPT !.held = H], setup' = setup
    PROVE  /\ world' \in Worlds /\ world'.held = H
           /\ world'.cluster = world.cluster /\ world'.storage = world.storage
           /\ world'.flaws = world.flaws /\ world'.rival = world.rival
           /\ world'.vols = world.vols
BY DEF Worlds

\* The plan is marked as closed, or its error is written.
LEMMA ClosedStatus ==
    ASSUME IInv, pass.at = "closing", ~pass.stale, setup' = setup, spec' = spec, quiet' = quiet,
           world' \in Worlds, pass' = NoPass, status' \in Statuses,
           status'.suffix = status.suffix, "Ready" \notin status'.conds,
           ghost'.chosen = ghost.chosen,
           ghost' \in [chosen : {ghost.chosen}, unreached : SUBSET Sides, reopened : BOOLEAN],
           "Closed" \in status'.conds =>
              \A s \in Sides \ ghost'.unreached : world'.held[s] = Nothing
    PROVE  IInv'
<1> USE DEF IInv
<1>1. NoPass' = NoPass /\ Nothing' = Nothing BY DEF NoPass, Nothing
<1>2. Typed' BY <1>1, SetsSame DEF Typed
<1>3. Passing' BY <1>1 DEF Passing, Fresh
<1>4. Staging' BY <1>1 DEF Staging
<1>5. Justified' BY DEF Justified, PlanReady
<1>6. spec'.closed BY ClosingFacts
<1>7. Closing' BY <1>1, <1>6 DEF Closing
<1>8. Working'
  <2>1. \A pvs : Offered(pvs)' <=> Offered(pvs) BY DEF Offered, SupportedActions
  <2>2. \A pvs : (Kept(pvs)' <=> Kept(pvs)) /\ (SameNames(pvs)' <=> SameNames(pvs))
    BY KeptSame
  <2>3. \A pvs, suffix : Tails(pvs, suffix)' <=> Tails(pvs, suffix) BY DEF Tails
  <2> QED BY <1>1, <2>1, <2>2, <2>3 DEF Working
<1> QED BY <1>2, <1>3, <1>4, <1>5, <1>7, <1>8

\* The plan is cleaned up and marked as closed.
LEMMA ClosedStep ==
    ASSUME IInv, EnsureClosed
    PROVE  IInv'
<1>1. /\ pass.at = "closing" /\ world' = [world EXCEPT !.held = DeleteResources]
      /\ pass' = NoPass /\ setup' = setup /\ spec' = spec /\ quiet' = quiet
  BY DEF EnsureClosed
<1>2. /\ world \in Worlds /\ world.held \in [Sides -> [bsl : Nat, vsl : Nat, secret : Nat]]
      /\ status \in Statuses /\ status.suffix \in {0} \cup Randoms
  BY DEF IInv, Typed, Worlds, Statuses
<1>3. PICK H : H = DeleteResources OBVIOUS
<1>4. /\ H \in [Sides -> [bsl : Nat, vsl : Nat, secret : Nat]]
      /\ \A s \in Sides : Reachable(s) => H[s] = Nothing
  BY <1>2, <1>3 DEF DeleteResources, Nothing
<1>5. /\ world' \in Worlds /\ world'.held = H
      /\ world'.cluster = world.cluster /\ world'.storage = world.storage
      /\ world'.flaws = world.flaws /\ world'.rival = world.rival
      /\ world'.vols = world.vols
  BY <1>1, <1>2, <1>3, <1>4, HeldOnly
<1>6. /\ pass \in Passes /\ ~PlanReady /\ "Closed" \notin status.conds
      /\ "Ready" \notin pass.conds /\ pass.suffix = status.suffix
  BY <1>1, ClosingFacts
<1>7. CASE pass.stale
  <2>1. status' = status /\ ghost' = ghost BY <1>7 DEF EnsureClosed
  <2> QED BY <1>1, <1>5, <1>6, <2>1, Abandoned
<1>8. CASE ~pass.stale
  <2>1. PICK C : C = (pass.conds \ {"StorageEnsured", "Suspended"}) \cup {"Closed"} OBVIOUS
  <2>2. PICK U : U = {s \in Sides : ~Reachable(s)} OBVIOUS
  <2>3. status' = StatusOf(pass, C, TRUE)
        /\ ghost' = [ghost EXCEPT !.unreached = U, !.reopened = FALSE]
    BY <1>8, <2>1, <2>2 DEF EnsureClosed
  <2>4. "Closed" \in CondTypes BY DEF CondTypes, Reserved
  <2>5. C \in SUBSET CondTypes /\ "Ready" \notin C BY <1>6, <2>1, <2>4 DEF Passes
  <2>6. status' \in Statuses /\ status'.conds = C /\ status'.suffix = status.suffix
    BY <1>6, <2>3, <2>5 DEF StatusOf, Passes, Statuses
  <2>7. U \in SUBSET Sides /\ \A s \in Sides \ U : H[s] = Nothing BY <1>4, <2>2
  <2>8. /\ ghost'.chosen = ghost.chosen /\ ghost'.unreached = U
        /\ ghost' \in [chosen : {ghost.chosen}, unreached : SUBSET Sides, reopened : BOOLEAN]
    BY <2>3, <2>7 DEF IInv, Typed
  <2> QED BY <1>1, <1>5, <1>8, <2>5, <2>6, <2>7, <2>8, ClosedStatus
<1> QED BY <1>7, <1>8

\* The cleaning up fails half way.
LEMMA CloseErrorStep ==
    ASSUME IInv, CloseError
    PROVE  IInv'
<1>1. /\ pass.at = "closing" /\ pass' = NoPass /\ setup' = setup /\ spec' = spec
      /\ quiet' = quiet /\ ghost' = ghost
  BY DEF CloseError
<1>2. /\ world \in Worlds /\ world.held \in [Sides -> [bsl : Nat, vsl : Nat, secret : Nat]]
      /\ status \in Statuses
  BY DEF IInv, Typed, Worlds
<1>3. PICK S \in SUBSET Sides :
        world' = [world EXCEPT !.held = [s \in Sides |-> IF s \in S THEN Nothing
                                                         ELSE world.held[s]]]
  BY DEF CloseError
<1>4. PICK H : H = [s \in Sides |-> IF s \in S THEN Nothing ELSE world.held[s]] OBVIOUS
<1>5. H \in [Sides -> [bsl : Nat, vsl : Nat, secret : Nat]] BY <1>2, <1>4 DEF Nothing
<1>6. /\ world' \in Worlds
      /\ world'.cluster = world.cluster /\ world'.storage = world.storage
      /\ world'.flaws = world.flaws /\ world'.rival = world.rival
      /\ world'.vols = world.vols
  BY <1>1, <1>2, <1>3, <1>4, <1>5, HeldOnly
<1>7. ~PlanReady /\ "Closed" \notin status.conds BY <1>1, ClosingFacts
<1>8. CASE pass.stale
  <2>1. status' = status BY <1>8 DEF CloseError
  <2> QED BY <1>1, <1>6, <1>7, <2>1, Abandoned
<1>9. CASE ~pass.stale
  <2>1. status' = [status EXCEPT !.conds = {"ReconcileFailed"}, !.type = "none",
                                 !.sticky = FALSE]
    BY <1>9 DEF CloseError
  <2>2. {"ReconcileFailed"} \in SUBSET CondTypes BY DEF CondTypes, Blockers, CriticalConditions
  <2>3. "none" \in Types BY DEF Types
  <2>4. /\ status' \in Statuses /\ status'.conds = {"ReconcileFailed"}
        /\ status'.suffix = status.suffix
    BY <1>2, <2>1, <2>2, <2>3 DEF Statuses
  <2>5. /\ ghost'.chosen = ghost.chosen
        /\ ghost' \in [chosen : {ghost.chosen}, unreached : SUBSET Sides, reopened : BOOLEAN]
    BY <1>1 DEF IInv, Typed
  <2> QED BY <1>1, <1>6, <1>9, <2>4, <2>5, ClosedStatus
<1> QED BY <1>8, <1>9

-----------------------------------------------------------------------------
(* The theorems                                                              *)

\* An empty list is a list of volumes, and of selections.
LEMMA EmptyList ==
    /\ NoPvs \in [{} -> PvRecords] /\ NoPvs \in [{} -> Selections] /\ DOMAIN NoPvs = {}
    /\ NoPvs \in PvMaps /\ NoPvs \in UNION {[S -> Selections] : S \in SUBSET Vols}
<1>1. NoPvs \in [{} -> PvRecords] /\ NoPvs \in [{} -> Selections] /\ DOMAIN NoPvs = {}
  BY DEF NoPvs
<1>2. {} \in SUBSET Vols OBVIOUS
<1> QED BY <1>1, <1>2 DEF PvMaps

\* The invariant holds of a new plan.
LEMMA IInvInit == Init => IInv
<1> SUFFICES ASSUME Init PROVE IInv OBVIOUS
<1>1. setup \in Setups /\ pass = NoPass /\ quiet = FALSE BY DEF Init
<1>2. setup.ns \subseteq STRING BY <1>1, SetupFacts
<1>3. spec \in Specs /\ spec.pvs = NoPvs /\ DOMAIN spec.pvs = {}
  <2>1. spec = [ns |-> setup.ns, refresh |-> FALSE, closed |-> FALSE, pvs |-> NoPvs] BY DEF Init
  <2> QED BY <1>2, <2>1, EmptyList DEF Specs
<1>4. status \in Statuses /\ status.conds = {}
  <2>1. status = [conds |-> {}, type |-> "none", sticky |-> FALSE, suffix |-> 0,
                  reconciled |-> FALSE, classes |-> {}]
    BY DEF Init
  <2>2. "none" \in Types BY DEF Types
  <2> QED BY <2>1, <2>2 DEF Statuses
<1>5. world \in Worlds
  <2>1. PICK cs : cs = [s \in Sides |-> "ok"] OBVIOUS
  <2>2. PICK vs : vs = [v \in Vols |-> [bound |-> TRUE, pods |-> "running"]] OBVIOUS
  <2>3. PICK hs : hs = [s \in Sides |-> [bsl |-> 0, vsl |-> 0, secret |-> 0]] OBVIOUS
  <2>4. PICK a : a = [state |-> "none", refresh |-> FALSE, late |-> FALSE, size |-> 1] OBVIOUS
  <2>5. world = [cluster |-> cs, storage |-> "ok", version |-> 1, flaws |-> {},
                 rival |-> "none", migs |-> <<>>, vols |-> vs, held |-> hs, analytic |-> a]
    BY <2>1, <2>2, <2>3, <2>4 DEF Init
  <2>6. cs \in [Sides -> ClusterStates] BY <2>1 DEF ClusterStates, StorageStates
  <2>7. vs \in [Vols -> Moods] BY <2>2 DEF Moods
  <2>8. hs \in [Sides -> [bsl : Nat, vsl : Nat, secret : Nat]] BY <2>3
  <2>9. a \in [state : {"none", "busy", "ready", "failed"}, refresh : BOOLEAN,
               late : BOOLEAN, size : 0..2]
    BY <2>4
  <2>10. "ok" \in StorageStates BY DEF StorageStates
  <2>11. <<>> \in Seq([kind : MigKinds, phase : {"new", "running", "succeeded", "failed"}])
    OBVIOUS
  <2> QED BY <2>5, <2>6, <2>7, <2>8, <2>9, <2>10, <2>11 DEF Worlds
<1>6. /\ ghost.chosen = NoPvs
      /\ ghost \in [chosen : {ghost.chosen}, unreached : SUBSET Sides, reopened : BOOLEAN]
  BY DEF Init
<1>7. Typed BY <1>1, <1>3, <1>4, <1>5, <1>6, EmptyList DEF Typed
<1>8. Passing BY <1>1 DEF Passing, Fresh
<1>9. Staging BY <1>1 DEF Staging
<1>10. Justified BY <1>1 DEF Justified
<1>11. Closing BY <1>1, <1>4 DEF Closing
<1>12. Working BY <1>1, <1>3, <1>6, EmptyList DEF Working, Kept, Offered, Tails
<1> QED BY <1>7, <1>8, <1>9, <1>10, <1>11, <1>12 DEF IInv

\* Every step keeps the invariant.
LEMMA IInvNext == IInv /\ [Next]_vars => IInv'
<1> SUFFICES ASSUME IInv, [Next]_vars PROVE IInv' OBVIOUS
<1>1. CASE Begin BY <1>1, BeginStep
<1>2. CASE StepValidate BY <1>2, ValidateStep
<1>3. CASE StepUnresolved BY <1>3, UnresolvedStep
<1>4. CASE StepDiscover BY <1>4, DiscoverStep
<1>5. CASE StepStore BY <1>5, StoreStep
<1>6. CASE StepFinish BY <1>6, FinishStep
<1>7. CASE StepNotAnalyzed BY <1>7, Dropped DEF StepNotAnalyzed
<1>8. CASE BeginClosed BY <1>8, BeginClosedStep
<1>9. CASE EnsureClosed BY <1>9, ClosedStep
<1>10. CASE Error BY <1>10, ErrorStep
<1>11. CASE CloseError BY <1>11, CloseErrorStep
<1>12. CASE Crash BY <1>12, Dropped DEF Crash
<1>13. CASE EditRefresh \/ EditSelection \/ EditName \/ EditConfirm \/ EditNamespaces
            \/ EditClosed
  BY <1>13, EditSteps
<1>14. CASE ChangeCluster \/ ChangeStorage \/ ChangeFlaw \/ ChangeVolume \/ ChangeRival
  BY <1>14, ChangeSteps
<1>15. CASE CreateMigration \/ RunMigration \/ EndMigration BY <1>15, MigrationSteps
<1>16. CASE Analyze \/ AnalyzeFails \/ AnalyzeLate BY <1>16, AnalyzeSteps
<1>17. CASE UNCHANGED vars BY <1>17, Idle DEF vars
<1> QED
  BY <1>1, <1>2, <1>3, <1>4, <1>5, <1>6, <1>7, <1>8, <1>9, <1>10, <1>11, <1>12, <1>13, <1>14,
     <1>15, <1>16, <1>17
  DEF Next, Course

\* The invariant holds of every plan, whatever changes around it.
THEOREM PlanInvariant == Spec => []IInv
BY IInvInit, IInvNext, PTL DEF Spec

\* What the invariant says of a ready plan is what a user may rely on.
LEMMA JustifiedReady == IInv => ReadyIsJustified
<1> SUFFICES ASSUME IInv, quiet, PlanReady, ~StoredSuspended
             PROVE  /\ ~Blocked
                    /\ status.type # "conversion" =>
                          \A s \in Sides, k \in {"bsl", "vsl", "secret"} :
                             world.held[s][k] = world.version
  BY DEF ReadyIsJustified
<1>1. /\ Sound(status.type, spec.ns) /\ Listing(status.type, spec.ns, spec.pvs)
      /\ status.type # "conversion" => Stocked
  BY DEF IInv, Justified
<1>2. \A s \in Sides : world.cluster[s] \notin {"unset", "missing", "notready"}
  BY <1>1 DEF Sound, Reachable
<1>3. /\ ~(~Opt("indirectImages") /\ ~Partial /\ \E s \in Sides : world.cluster[s] = "noregistry")
      /\ ~(status.type # "conversion" /\ world.storage # "ok")
      /\ world.flaws \cap BlockingFlaws = {} /\ spec.ns # {}
      /\ world.rival # "same"
      /\ ~(setup.intra /\ Opt("indirectVolumes"))
      /\ ~(/\ setup.intra /\ ~Opt("indirectImages")
           /\ spec.ns \cap setup.mapped \notin {{}, spec.ns}
           /\ status.type # "state")
  BY <1>1 DEF Sound, Partial
<1>4. \A v \in DOMAIN spec.pvs : Good(v, spec.pvs[v]) BY <1>1 DEF Listing
<1>5. ASSUME NEW v \in DOMAIN spec.pvs
      PROVE  /\ spec.pvs[v].sel.action \in SupportedActions(v)
             /\ ~(/\ spec.pvs[v].sel.action = "move" /\ setup.vols[v].disk = "nfs"
                  /\ Flaw("nfsDown") /\ ~Flaw("noVeleroPod"))
             /\ Chosen(spec.pvs[v]) =>
                   /\ spec.pvs[v].sel.class # "" => spec.pvs[v].sel.class \in DestClasses
                                                    /\ spec.pvs[v].sel.mode # "bad"
                   /\ spec.pvs[v].sel.method \in {"filesystem", "block", "snapshot"}
  BY <1>4 DEF Good, Chosen
<1>6. /\ ~(Flaw("noVeleroPod") /\ ~Opt("hostDestination"))
      /\ status.type = "conversion" =>
            /\ ~(Cardinality(DestClasses) < 2)
            /\ ~(\A v \in DOMAIN spec.pvs : spec.pvs[v].sel.action = "skip")
  BY <1>1 DEF Listing
<1>7. ~Blocked BY <1>2, <1>3, <1>5, <1>6 DEF Blocked
<1> QED BY <1>1, <1>7 DEF Stocked

\* A plan that is ready, seen by a pass that nothing has disturbed, may be
\* migrated: nothing forbids it, and the storage locations are made.
THEOREM PlansJustified == Spec => []ReadyIsJustified
BY PlanInvariant, JustifiedReady, PTL

\* The list of the invariant is the one the code promises.
LEMMA ListedVolumes == IInv => VolumesListed
<1> SUFFICES ASSUME IInv, quiet, PlanReady, ~StoredSuspended, ~Opt("noClaims")
             PROVE  DOMAIN spec.pvs =
                        {v \in Vols : /\ setup.vols[v].ns \in spec.ns /\ world.vols[v].bound
                                      /\ setup.vols[v].kind \notin {"temp", "made"}
                                      /\ ~(/\ setup.vols[v].kind = "other"
                                           /\ status.type = "conversion")
                                      /\ ~Unnamed(v)}
  BY DEF VolumesListed
<1>1. DOMAIN spec.pvs = Due(status.type, spec.ns, spec.pvs) BY DEF IInv, Justified, Listing
<1>2. \A v : Unnamed(v) <=> /\ status.type = "conversion" /\ setup.vols[v].kind = "sts"
                            /\ world.vols[v].pods = "pending"
                            /\ v \in DOMAIN spec.pvs => spec.pvs[v].target.base = "source"
  BY DEF Unnamed
<1> QED BY <1>1, <1>2 DEF Due

\* The list of a ready plan names the volumes of its namespaces and no others.
THEOREM VolumesKnown == Spec => []VolumesListed
BY PlanInvariant, ListedVolumes, PTL

\* A plan that is marked as closed has left nothing where it could go, unless
\* it has been opened and closed again.
THEOREM ClosedClean == Spec => []ClosedIsClean
<1>1. IInv => ClosedIsClean BY DEF IInv, Closing, ClosedIsClean, PlanReady
<1> QED BY <1>1, PlanInvariant, PTL

\* A commit or a failure writes the list of a pass that knows the stored one.
LEMMA WrittenNames ==
    ASSUME IInv, NEW p, Lists(p), ~p.stale, spec'.pvs = p.spec.pvs
    PROVE  NamesKept
BY DEF Lists, SameNames, NamesKept

\* A list that is not touched keeps its names.
LEMMA SameListNames == ASSUME spec'.pvs = spec.pvs PROVE NamesKept
BY DEF NamesKept

\* So does a failure.
LEMMA FailureNames ==
    ASSUME IInv, NEW p, Lists(p), WriteFailure(p)
    PROVE  NamesKept
<1>1. CASE p.stale BY <1>1, SameListNames DEF WriteFailure
<1>2. CASE ~p.stale
  <2>1. spec' = p.spec BY <1>2 DEF WriteFailure
  <2> QED BY <1>2, <2>1, WrittenNames
<1> QED BY <1>1, <1>2

\* No step takes from a claim the name that a storage conversion gave it.
LEMMA NamesStep ==
    ASSUME IInv, [Next]_vars
    PROVE  NamesKept
<1>1. CASE StepFinish
  <2>1. pass.at = "finish" /\ Commit(CheckAnalytics(pass)) BY <1>1 DEF StepFinish
  <2>2. pass \in Passes /\ Lists(pass) BY <2>1, UnderWay
  <2>3. PICK q : q = CheckAnalytics(pass) OBVIOUS
  <2>4. Weighs(pass, q) BY <2>2, <2>3, AnalyticsFacts DEF IInv
  <2>5. Lists(q) BY <2>2, <2>4, WeighsLists
  <2>6. CASE q.stale BY <2>1, <2>3, <2>6, SameListNames DEF Commit
  <2>7. CASE ~q.stale
    <3>1. q.spec \in Specs BY <2>4 DEF Weighs, Passes
    <3>2. spec' = [q.spec EXCEPT !.refresh = FALSE] BY <2>1, <2>3, <2>7 DEF Commit
    <3>3. spec'.pvs = q.spec.pvs BY <3>1, <3>2 DEF Specs
    <3> QED BY <2>5, <2>7, <3>3, WrittenNames
  <2> QED BY <2>6, <2>7
<1>2. CASE StepUnresolved
  <2>1. pass.at = "validate" /\ WriteFailure(Validate(pass)) BY <1>2 DEF StepUnresolved
  <2>2. pass \in Passes /\ Lists(pass) BY <2>1, UnderWay
  <2>3. PICK p : p = Validate(pass) OBVIOUS
  <2>4. Judges(pass, p) BY <2>2, <2>3, ValidateFacts DEF IInv
  <2>5. Lists(p) BY <2>2, <2>4, SameLists DEF Judges
  <2> QED BY <2>1, <2>3, <2>5, FailureNames
<1>3. CASE Error
  <2>1. pass.at \in {"validate", "discover", "store"} /\ WriteFailure(pass) BY <1>3 DEF Error
  <2>2. Lists(pass) BY <2>1, UnderWay
  <2> QED BY <2>1, <2>2, FailureNames
<1>4. CASE \/ EditRefresh \/ EditSelection \/ EditName \/ EditConfirm
            \/ EditNamespaces \/ EditClosed
  <2>1. spec \in Specs BY DEF IInv, Typed
  <2>2. PICK S \in SUBSET Vols : spec.pvs \in [S -> PvRecords] BY <2>1 DEF Specs, PvMaps
  <2>3. CASE EditRefresh \/ EditNamespaces \/ EditClosed
    <3>1. spec'.pvs = spec.pvs
      BY <2>1, <2>3 DEF EditRefresh, EditNamespaces, EditClosed, Specs
    <3> QED BY <3>1, SameListNames
  <2>4. CASE EditSelection
    <3>1. PICK v \in DOMAIN spec.pvs, c \in setup.choices : spec' = [spec EXCEPT !.pvs[v].sel = c]
      BY <2>4 DEF EditSelection
    <3>2. PICK P : P = [spec.pvs EXCEPT ![v].sel = c] OBVIOUS
    <3>3. spec' = [spec EXCEPT !.pvs = P] BY <3>1, <3>2
    <3>4. spec'.pvs = P BY <2>1, <3>3 DEF Specs
    <3>5. \A w \in DOMAIN spec.pvs : P[w].target = spec.pvs[w].target
      BY <2>2, <3>2 DEF PvRecords
    <3> QED BY <3>4, <3>5 DEF NamesKept
  <2>5. CASE EditConfirm
    <3>1. PICK v \in DOMAIN spec.pvs : spec' = [spec EXCEPT !.pvs[v].confirmed = TRUE]
      BY <2>5 DEF EditConfirm
    <3>2. PICK P : P = [spec.pvs EXCEPT ![v].confirmed = TRUE] OBVIOUS
    <3>3. spec' = [spec EXCEPT !.pvs = P] BY <3>1, <3>2
    <3>4. spec'.pvs = P BY <2>1, <3>3 DEF Specs
    <3>5. \A w \in DOMAIN spec.pvs : P[w].target = spec.pvs[w].target
      BY <2>2, <3>2 DEF PvRecords
    <3> QED BY <3>4, <3>5 DEF NamesKept
  <2>6. CASE EditName
    <3>1. PICK v \in DOMAIN spec.pvs :
             /\ spec.pvs[v].target = SourceName
             /\ spec' = [spec EXCEPT !.pvs[v].target = UserName]
      BY <2>6 DEF EditName
    <3>2. PICK n : n = UserName OBVIOUS
    <3>3. PICK P : P = [spec.pvs EXCEPT ![v].target = n] OBVIOUS
    <3>4. spec' = [spec EXCEPT !.pvs = P] BY <3>1, <3>2, <3>3
    <3>5. spec'.pvs = P BY <2>1, <3>4 DEF Specs
    <3>6. \A w \in DOMAIN spec.pvs : w # v => P[w].target = spec.pvs[w].target
      BY <2>2, <3>3
    <3>7. spec.pvs[v].target.tail = 0 BY <3>1 DEF SourceName
    <3> QED BY <3>5, <3>6, <3>7 DEF NamesKept
  <2> QED BY <1>4, <2>3, <2>4, <2>5, <2>6
<1>5. CASE spec' = spec BY <1>5, SameListNames
<1> QED BY <1>1, <1>2, <1>3, <1>4, <1>5
  DEF Next, Course, vars, Begin, StepValidate, StepDiscover, StepStore, StepNotAnalyzed,
      BeginClosed, EnsureClosed, CloseError, Crash, EditRefresh, EditSelection, EditName,
      EditConfirm, EditNamespaces, EditClosed, ChangeCluster, ChangeStorage, ChangeFlaw,
      ChangeVolume, ChangeRival, Changed, CreateMigration, RunMigration, EndMigration, Analyze,
      AnalyzeFails, AnalyzeLate

\* The invariant keeps the choices, in any state.
LEMMA ChoicesHold ==
    ASSUME IInv'
    PROVE  ChoicesKept'
BY DEF IInv, Working, Kept, Forced, ChoicesKept

\* What the user has chosen and what the plan has named survive every pass,
\* those included that began before, fail or are lost.
THEOREM WorkIsKept == Spec => WorkKept
<1>1. IInv /\ IInv' /\ [Next]_vars => [ChoicesKept' /\ NamesKept]_vars
  BY ChoicesHold, NamesStep
<1> QED BY <1>1, PlanInvariant, PTL DEF Spec, WorkKept
=============================================================================

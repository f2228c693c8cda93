------------------------------- MODULE StagePods -------------------------------
(***************************************************************************)
(* How a migration of the indirect kind gets its volumes into the stage    *)
(* backup (pkg/controller/migmigration/stage.go and annotation.go): pods   *)
(* that mount them are found or made, everything that belongs to the       *)
(* backup is labelled, Velero copies what is labelled, and the pods and    *)
(* the labels are taken away again.                                        *)
(*                                                                         *)
(* A pass may be cut after any of its API calls.                           *)
(***************************************************************************)
EXTENDS Itineraries, SequencesExt

CONSTANTS
    Ids,          \* names for pods, those made on the way included
    Setups,       \* the application and the plan, see TypeOK
    PerPass,      \* AnnotationsPerReconcile
    FaultKinds,   \* what may go wrong
    MaxFaults,    \* bound on how often
    MaxRuns       \* bound on the migrations

Clusters == {"src", "dst"}
Methods == {"filesystem", "block", "snapshot", "move", "skip"}

\* An application: the namespace and the name of its pod, the volumes the pod
\* mounts, those of them the template of its controller mentions (the claim
\* templates of a StatefulSet are not mentioned), whether it has a controller,
\* and whether it runs.
App(ns, name, vols, template, managed, up) ==
    [ns |-> ns, name |-> name, vols |-> vols, template |-> template,
     managed |-> managed, up |-> up]

\* apps     the applications, in the order they are listed
\* vols     the namespace of each volume, and what the plan does with it
\* images   the plan moves image streams, of which each namespace has one
ASSUME StagePodsAssumption ==
    /\ Ids \subseteq Nat \ {0}
    /\ \A s \in Setups :
          /\ DOMAIN s = {"apps", "vols", "images"}
          /\ s.images \in BOOLEAN
          /\ DOMAIN s.apps \subseteq Ids /\ DOMAIN s.vols \subseteq Nat
          /\ \A v \in DOMAIN s.vols : s.vols[v] \in [ns : Nat, method : Methods]
          /\ \A i \in DOMAIN s.apps :
                /\ \A v \in s.apps[i].vols : s.vols[v].ns = s.apps[i].ns
                /\ s.apps[i].template \subseteq s.apps[i].vols
                /\ s.apps[i].managed \/ s.apps[i].template = {}
    /\ FaultKinds \subseteq {"error", "conflict", "crash", "cancel", "list", "restart", "pod",
                             "velero"}
    /\ {PerPass, MaxFaults, MaxRuns} \subseteq Nat

VARIABLES
    setup,    \* the application and the plan, which do not change
    objs,     \* the pods, volumes, claims, namespaces, ... of the clusters
    down,     \* the applications are scaled down
    run,      \* the migration
    backup,   \* what the stage backup of this migration holds
    runs,     \* how many migrations have started
    faults    \* how much has gone wrong

vars == <<setup, objs, down, run, backup, runs, faults>>

-----------------------------------------------------------------------------
(* State *)

Vols == DOMAIN setup.vols
Apps == DOMAIN setup.apps
Namespaces == {setup.vols[v].ns : v \in Vols} \cup {setup.apps[i].ns : i \in Apps}

\* app     its application, 0 for a stage pod
\* mig     the labels of a migration and of a stage pod
\* inc     the label IncludedInStageBackup
\* sa      the application whose service account it has, or 0
\* restic  the annotation for Restic: absent, or the volumes it lists
Pod(app, vols, sa, phase, mig) ==
    [app |-> app, vols |-> vols, sa |-> sa, phase |-> phase, mig |-> mig, inc |-> mig,
     restic |-> {}]

\* Labels of a migration on each of a set, 0 for none.
Bare(S) == [x \in S |-> 0]

RunKinds == {"none", "stage", "final", "rollback"}
Verdicts == {"", "canceled", "failed"}

ModelledPhases ==
    {"CleanStaleAnnotations", "CleanStaleStagePods", "WaitForStaleStagePodsTerminated",
     "QuiesceSourceApplications", "EnsureSrcQuiesced",
     "EnsureStagePodsFromRunning", "EnsureStagePodsFromTemplates",
     "EnsureStagePodsFromOrphanedPVCs", "StagePodsCreated", "AnnotateResources",
     "EnsureStageBackup", "StageBackupCreated", "EnsureStageRestore", "StageRestoreCreated",
     "EnsureStagePodsDeleted", "EnsureStagePodsTerminated", "EnsureAnnotationsDeleted",
     "UnQuiesceSrcApplications", "Completed"}

PodsOf(m) ==
    \A i \in DOMAIN m :
        m[i] \in [ app : Apps \cup {0}, sa : Apps \cup {0}, vols : SUBSET Vols,
                   mig : 0..MaxRuns, inc : 0..MaxRuns,
                   phase : {"pending", "running", "failed", "going"},
                   restic : SUBSET SUBSET Vols ]

\* TypeOK: a pod has its Restic annotation once.
TypeOK ==
    /\ setup \in Setups /\ down \in BOOLEAN
    /\ \A c \in Clusters :
          /\ DOMAIN objs.pods[c] \subseteq Ids /\ PodsOf(objs.pods[c])
          /\ \A i \in DOMAIN objs.pods[c] : Cardinality(objs.pods[c][i].restic) <= 1
          /\ objs.pv[c] \in [Vols -> 0..MaxRuns] /\ objs.pvc[c] \in [Vols -> 0..MaxRuns]
          /\ objs.ns[c] \in [Namespaces -> 0..MaxRuns]
          /\ objs.is[c] \in [Namespaces -> 0..MaxRuns]
          /\ objs.sa[c] \in [Apps -> 0..MaxRuns]
    /\ run \in [ kind : RunKinds, phase : ModelledPhases, verdict : Verdicts, quiesce : BOOLEAN,
                 cancel : BOOLEAN, stagePods : BOOLEAN, unrecorded : BOOLEAN, torn : BOOLEAN,
                 hit : SUBSET FaultKinds,
                 backup : {"none", "new", "done", "failed"},
                 restore : {"none", "new", "done", "failed"} ]
    /\ backup.vols \subseteq Vols /\ PodsOf(backup.pods)
    /\ runs \in 0..MaxRuns /\ faults \in 0..MaxFaults

NoBackup == [vols |-> {}, pods |-> [i \in {} |-> i]]

\* unrecorded  it was canceled with stage pods it does not know of
\* torn        a pass was cut between a PV and its PVC
\* hit         what has gone wrong
NoRun ==
    [kind |-> "none", phase |-> "Completed", verdict |-> "", quiesce |-> FALSE,
     cancel |-> FALSE, stagePods |-> FALSE, unrecorded |-> FALSE, torn |-> FALSE,
     hit |-> {}, backup |-> "none", restore |-> "none"]

Init ==
    /\ setup \in Setups
    /\ objs = LET running == {i \in Apps : setup.apps[i].up}
                  both(S) == [c \in Clusters |-> Bare(S)]
              IN  [pods |-> [c \in Clusters |->
                                IF c = "dst" THEN [i \in {} |-> i]
                                ELSE [i \in running |->
                                        Pod(i, setup.apps[i].vols, i, "running", 0)]],
                   pv |-> both(Vols), pvc |-> both(Vols), ns |-> both(Namespaces),
                   is |-> both(Namespaces), sa |-> both(Apps)]
    /\ down = FALSE /\ run = NoRun /\ backup = NoBackup /\ runs = 0 /\ faults = 0

Spend(k) == k \in FaultKinds /\ faults < MaxFaults /\ faults' = faults + 1
Idle == run.phase = "Completed"
Uid == runs

-----------------------------------------------------------------------------
(* The plan *)

MethodOf(v) == setup.vols[v].method

\* getStagePVs
StagedPVs == {v \in Vols : MethodOf(v) # "skip"}

\* The volumes that need a pod.
CopiedByPod(vols) == {v \in vols : MethodOf(v) \in {"filesystem", "block"}}

\* getResticVolumes
ResticVolumes(vols) == {v \in vols : MethodOf(v) = "filesystem"}

PlanFacts ==
    [ intraCluster |-> FALSE, sameNamespaces |-> FALSE, imagesDisabled |-> FALSE,
      volumesDisabled |-> FALSE, stateType |-> FALSE, liveMigrate |-> FALSE,
      imageStreams |-> setup.images, indirectImage |-> TRUE, indirectVolume |-> TRUE,
      directClaims |-> FALSE, anyPVs |-> StagedPVs # {},
      moveOrSnapshotPVs |-> \E v \in Vols : MethodOf(v) \in {"move", "snapshot"},
      hooks |-> {} ]

SpecOf(r) ==
    [ migrateState |-> FALSE, rollback |-> r.kind = "rollback", stage |-> r.kind = "stage",
      quiescePods |-> r.quiesce, verify |-> FALSE ]

ItineraryOf(r) == ChooseItinerary(r.verdict = "failed", r.verdict = "canceled", SpecOf(r))

\* The next phase of those that are modelled.
After(r, phase) ==
    NextPhase(SelectSeq(ItineraryNamed(ItineraryOf(r)),
                        LAMBDA p : p.name \in ModelledPhases \/ p.name = phase),
              phase, FlagsOf(PlanFacts, SpecOf(r), r.stagePods))

-----------------------------------------------------------------------------
(* The calls of an operation, as the clusters o that are there after each   *)
(* of them, o itself at the head.                                           *)

\* The course of one call for each member of a sequence.
Each(o, items, Call(_, _)) ==
    FoldLeft(LAMBDA s, x : Append(s, Call(Last(s), x)), <<o>>, items)

Sorted(S) == SetToSortSeq(S, <)
PodIds(o, c, Test(_)) == Sorted({i \in DOMAIN o.pods[c] : Test(o.pods[c][i])})
Spare(o) == Ids \ UNION {DOMAIN o.pods[c] : c \in Clusters}

\* stagePodLabels
ListStagePods(o, c) ==
    {i \in DOMAIN o.pods[c] : o.pods[c][i].mig = Uid /\ o.pods[c][i].inc = Uid}

NameOf(o, i) == IF o.pods["src"][i].app = 0 THEN 100 + i ELSE setup.apps[o.pods["src"][i].app].name

Labelled(pod) == [pod EXCEPT !.mig = Uid, !.inc = Uid]

\* GetApplicationPodsWithStageLabels: what runs and mounts a volume to copy.
ApplicationPods(o) ==
    {i \in DOMAIN o.pods["src"] :
        /\ o.pods["src"][i].phase \in {"running"}
        /\ CopiedByPod(o.pods["src"][i].vols) # {}}

\* updateApplicationPodWithStageLabel: the pods that are labelled already are
\* known by their names.
FromRunning(o) ==
    LET known == {NameOf(o, i) : i \in ListStagePods(o, "src")}
    IN  Each(o, Sorted({i \in ApplicationPods(o) : NameOf(o, i) \notin known}),
             LAMBDA w, i : [w EXCEPT !.pods["src"][i] = Labelled(@)])

\* A pod asked for: its volumes, and the service account it has.
Want(vols, sa) == [vols |-> vols, sa |-> sa]

\* volumesContained, contains
Covers(list, want) == \E there \in list : want.vols \subseteq there.vols

\* merge
Merge(list, want) == IF Covers(Range(list), want) THEN list ELSE Append(list, want)

\* BuildStagePods: a pod for each of a list, with its volumes to copy.
BuildStagePods(list) ==
    LET filtered == [n \in DOMAIN list |-> [list[n] EXCEPT !.vols = CopiedByPod(@)]]
    IN  FoldLeft(Merge, <<>>, SelectSeq(filtered, LAMBDA want : want.vols # {}))

\* listStagePods
Existing(o) ==
    LET ids == Sorted(ListStagePods(o, "src"))
    IN  Range(BuildStagePods([n \in DOMAIN ids |-> o.pods["src"][ids[n]]]))

\* Those that no pod of this migration stands for already.
Missing(o, list) ==
    LET there == Existing(o) IN SelectSeq(list, LAMBDA want : ~Covers(there, want))

\* createStagePods
CreateStagePods(o, list) ==
    Each(o, Missing(o, list),
         LAMBDA w, want : [w EXCEPT !.pods["src"] =
                             (Min(Spare(w)) :> Pod(0, want.vols, want.sa, "pending", Uid)) @@ @])

\* ListTemplatePods
TemplatePods ==
    [i \in Apps |-> Want(setup.apps[i].template, i)]

FromTemplates(o) == CreateStagePods(o, BuildStagePods(TemplatePods))

\* A claim no pod of this migration mounts gets a pod of its own, without a
\* service account.
OrphanedPVCs(o) ==
    LET mounted == UNION {there.vols : there \in Existing(o)}
        orphans == Sorted(Vols \ mounted)
    IN  BuildStagePods([n \in DOMAIN orphans |-> Want({orphans[n]}, 0)])

FromOrphanedPVCs(o) == CreateStagePods(o, OrphanedPVCs(o))

\* stagePodReport
ReportPods(o, c) == {o.pods[c][i] : i \in {j \in DOMAIN o.pods[c] : o.pods[c][j].mig = Uid}}
StagePodsFailedNever(o) == FALSE   \* mutant: a pod that fails is not noticed
StagePodsFailed(o) == \E p \in ReportPods(o, "src") : p.phase = "failed"
StagePodsStarted(o) == \A p \in ReportPods(o, "src") : p.phase \in {"running", "going"}

-----------------------------------------------------------------------------
(* Annotating *)

Item(kind, x) == [kind |-> kind, x |-> x]
Items(kind, S) == [n \in 1..Cardinality(S) |-> Item(kind, Sorted(S)[n])]

\* annotatePods: those without an annotation
PodsToDo(o) == {i \in DOMAIN o.pods["src"] :
                  o.pods["src"][i].mig = Uid /\ o.pods["src"][i].restic = {}}

\* annotatePVs: a volume is known to be done by its PV.
PVsToDo(o) == {v \in StagedPVs : o.pv["src"][v] # Uid}

\* labelNamespaces, labelServiceAccounts, labelImageStreams: the service accounts
\* are those of the pods that this same pass has annotated.
NamespacesToDo(o) == {n \in Namespaces : o.ns["src"][n] # Uid}
AccountsToDo(o) == {a \in {o.pods["src"][i].sa : i \in PodsToDo(o)} \ {0} : o.sa["src"][a] # Uid}
ImageStreamsToDo(o) == {n \in Namespaces : setup.images /\ o.is["src"][n] # Uid}

\* What there is to do, in the order it is done.
AnnotationItems(o) ==
    Items("ns", NamespacesToDo(o)) \o Items("pod", PodsToDo(o)) \o Items("pv", PVsToDo(o))
    \o Items("sa", AccountsToDo(o)) \o Items("is", ImageStreamsToDo(o))

\* The calls for an item.  A volume takes two, one for the PV, then one for the PVC.
CallsFor(o, item) ==
    LET x == item.x
    IN  CASE item.kind = "ns"  -> <<[o EXCEPT !.ns["src"][x] = Uid]>>
          [] item.kind = "pod" ->
               <<[o EXCEPT !.pods["src"][x].restic = {ResticVolumes(o.pods["src"][x].vols)}]>>
          [] item.kind = "pv"  -> <<[o EXCEPT !.pv["src"][x] = Uid],
                                    [o EXCEPT !.pv["src"][x] = Uid, !.pvc["src"][x] = Uid]>>
          [] item.kind = "sa"  -> <<[o EXCEPT !.sa["src"][x] = Uid]>>
          [] item.kind = "is"  -> <<[o EXCEPT !.is["src"][x] = Uid]>>

AnnotatedAtOnce(o) == TRUE   \* mutant: a pass that stops at the limit is the last

\* A pass ends with the first item over the limit.
AllAnnotated(o) == Len(AnnotationItems(o)) <= PerPass

Annotate(o) ==
    LET items == AnnotationItems(o)
    IN  FoldLeft(LAMBDA s, item : s \o CallsFor(Last(s), item), <<o>>,
                 SubSeq(items, 1, Min({PerPass + 1, Len(items)})))

-----------------------------------------------------------------------------
(* Taking away *)

Unlabelled(pod) == [pod EXCEPT !.mig = 0, !.inc = 0]

\* A pod of an application loses its labels, a stage pod is deleted.
DeleteOrUnlabel(o, i) ==
    [o EXCEPT !.pods["src"][i] = IF @.app # 0 THEN Unlabelled(@)
                                 ELSE [@ EXCEPT !.phase = "going"]]
DeleteOnDestination(o, i) == [o EXCEPT !.pods["dst"][i].phase = "going"]

\* ensureStagePodsDeleted: those of every migration
StagePodsDeleted(o) ==
    LET onSrc == Each(o, PodIds(o, "src", LAMBDA p : p.mig # 0), DeleteOrUnlabel)
    IN  onSrc \o Tail(Each(Last(onSrc), PodIds(o, "dst", LAMBDA p : p.mig # 0),
                           DeleteOnDestination))

StagePodsTerminatedOnSource(o) ==   \* mutant: the destination is not looked at
    \A i \in DOMAIN o.pods["src"] : o.pods["src"][i].mig = 0

\* ensureStagePodsTerminated
StagePodsTerminated(o) ==
    \A c \in Clusters : \A i \in DOMAIN o.pods[c] :
        o.pods[c][i].mig = 0 \/ o.pods[c][i].phase = "failed"

\* What has a label of any migration, or the one of this migration.
OfAny(label) == Sorted({x \in DOMAIN label : label[x] # 0})
OfThis(label) == Sorted({x \in DOMAIN label : label[x] = Uid})

HasAnnotations(p) == p.phase # "going" /\ (p.restic # {} \/ p.inc # 0)

\* Claims, pods and namespaces are cleaned of any migration, the others of this one.
PVCsCleaned(o, c) == Each(o, OfAny(o.pvc[c]), LAMBDA w, v : [w EXCEPT !.pvc[c][v] = 0])
PVsCleaned(o, c)  == Each(o, OfThis(o.pv[c]), LAMBDA w, v : [w EXCEPT !.pv[c][v] = 0])
PodsCleaned(o, c) ==
    Each(o, PodIds(o, c, HasAnnotations),
         LAMBDA w, i : [w EXCEPT !.pods[c][i].restic = {}, !.pods[c][i].inc = 0])
NamespacesCleaned(o, c) == Each(o, OfAny(o.ns[c]), LAMBDA w, n : [w EXCEPT !.ns[c][n] = 0])
AccountsCleaned(o, c) == Each(o, OfThis(o.sa[c]), LAMBDA w, a : [w EXCEPT !.sa[c][a] = 0])
ImageStreamsCleaned(o, c) == Each(o, OfThis(o.is[c]), LAMBDA w, n : [w EXCEPT !.is[c][n] = 0])

Then(course, Clean(_, _), c) == course \o Tail(Clean(Last(course), c))

AnnotationsDeletedOn(o, c) ==
    Then(Then(Then(Then(Then(PVCsCleaned(o, c), PVsCleaned, c), PodsCleaned, c),
                   NamespacesCleaned, c), AccountsCleaned, c), ImageStreamsCleaned, c)

AnnotationsDeletedOnSource(o) ==   \* mutant: one cluster only
    AnnotationsDeletedOn(o, "src")

AnnotationsDeleted(o) ==
    LET onSrc == AnnotationsDeletedOn(o, "src")
    IN  onSrc \o Tail(AnnotationsDeletedOn(Last(onSrc), "dst"))

-----------------------------------------------------------------------------
(* The handlers of the phases *)

\* What the handler of a phase does to the clusters.
Course(phase) ==
    CASE phase \in {"CleanStaleAnnotations", "EnsureAnnotationsDeleted"} ->
                                                     AnnotationsDeleted(objs)
      [] phase \in {"CleanStaleStagePods", "EnsureStagePodsDeleted"} ->
                                                     StagePodsDeleted(objs)
      [] phase = "EnsureStagePodsFromRunning"       -> FromRunning(objs)
      [] phase = "EnsureStagePodsFromTemplates"     -> FromTemplates(objs)
      [] phase = "EnsureStagePodsFromOrphanedPVCs"  -> FromOrphanedPVCs(objs)
      [] phase = "AnnotateResources"                -> Annotate(objs)
      [] OTHER                                      -> <<objs>>

\* When it goes on to the next phase.
Done(phase) ==
    CASE phase \in {"WaitForStaleStagePodsTerminated", "EnsureStagePodsTerminated"} ->
                                        StagePodsTerminated(objs)
      [] phase = "EnsureSrcQuiesced" ->
            \A i \in DOMAIN objs.pods["src"] :
                LET a == objs.pods["src"][i].app IN a # 0 => ~setup.apps[a].managed
      [] phase = "StagePodsCreated"    -> StagePodsStarted(objs)
      [] phase = "AnnotateResources"   -> AllAnnotated(objs)
      [] phase = "StageBackupCreated"  -> run.backup = "done"
      [] phase = "StageRestoreCreated" -> run.restore = "done"
      [] OTHER                         -> TRUE

\* A handler that finds out that the migration has failed.
Refused(phase) ==
    \/ phase = "StagePodsCreated" /\ StagePodsFailed(objs)
    \/ phase = "StageBackupCreated" /\ run.backup = "failed"
    \/ phase = "StageRestoreCreated" /\ run.restore = "failed"

CreatesStagePods(phase) ==
    phase \in {"EnsureStagePodsFromRunning", "EnsureStagePodsFromTemplates",
               "EnsureStagePodsFromOrphanedPVCs"}

\* StagePodsCreated is set when there are pods of this migration, those found
\* there included, and deleted when they have terminated.
StagePodsFlag(phase, o) ==
    CASE CreatesStagePods(phase) -> run.stagePods \/ (Course(phase) # <<o>> \/ Existing(o) # {})
      [] phase \in {"WaitForStaleStagePodsTerminated", "EnsureStagePodsTerminated"} -> FALSE
      [] OTHER -> run.stagePods

Scaled(phase) ==
    CASE phase = "QuiesceSourceApplications" -> TRUE
      [] phase = "UnQuiesceSrcApplications"  -> FALSE
      [] OTHER                               -> down

\* There are names for all the pods that a handler makes.
Room(phase) ==
    LET list == CASE phase = "EnsureStagePodsFromTemplates"    -> BuildStagePods(TemplatePods)
                  [] phase = "EnsureStagePodsFromOrphanedPVCs" -> OrphanedPVCs(objs)
                  [] OTHER                                     -> <<>>
    IN  Cardinality(Spare(objs)) >= Len(Missing(objs, list))

Canceling == run.cancel /\ run.verdict = ""
Handling(phase) ==
    /\ run.phase = phase /\ ~Idle /\ ~Canceling
    /\ Room(phase)

Advanced(r, phase) == [r EXCEPT !.phase = After(r, phase)]
Failed(r) == [r EXCEPT !.verdict = "failed", !.phase = "Completed"]

Handle(phase) ==
    /\ Handling(phase) /\ ~Refused(phase)
    /\ Done(phase) \/ Len(Course(phase)) > 1
    /\ objs' = Last(Course(phase))
    /\ down' = Scaled(phase)
    /\ run' = IF Done(phase)
              THEN Advanced([run EXCEPT
                      !.stagePods = StagePodsFlag(phase, objs),
                      !.backup = IF phase = "EnsureStageBackup" THEN "new" ELSE @,
                      !.restore = IF phase = "EnsureStageRestore" THEN "new" ELSE @], phase)
              ELSE run
    /\ UNCHANGED <<setup, backup, runs, faults>>

HandleRefused(phase) ==
    /\ Handling(phase) /\ Refused(phase)
    /\ run' = Failed(run)
    /\ UNCHANGED <<setup, objs, down, backup, runs, faults>>

Torn(o) == \E v \in StagedPVs : o.pv["src"][v] = Uid /\ o.pvc["src"][v] # Uid
Hit(kind) == [run EXCEPT !.hit = @ \cup {kind}]

\* An update meets a conflict, or the controller stops, after some of the calls:
\* the phase is repeated.  A call that fails otherwise ends the migration.
Cut(phase, kind) ==
    /\ Handling(phase) /\ ~Refused(phase) /\ Spend(kind)
    /\ \E n \in 1..Len(Course(phase)) :
          LET o == Course(phase)[n]
          IN  /\ kind \in {"conflict", "error"} => n < Len(Course(phase))
              /\ kind = "crash" => n > 1
              /\ objs' = o
              /\ run' = IF kind = "error" THEN Failed(Hit(kind))
                        ELSE [Hit(kind) EXCEPT !.torn = @ \/ (phase = "AnnotateResources" /\ Torn(o))]
    /\ UNCHANGED <<setup, down, backup, runs>>

\* ensureStagePodsFromOrphanedPVCs takes a list that fails for an empty one.
ListFails(phase) ==
    /\ phase = "EnsureStagePodsFromOrphanedPVCs" /\ Handling(phase) /\ Spend("list")
    /\ run' = Advanced(Hit("list"), phase)
    /\ UNCHANGED <<setup, objs, down, backup, runs>>

\* Task.init, at the start of a pass
TurnToCancel ==
    /\ Canceling /\ ~Idle
    /\ run' = LET r == [run EXCEPT !.verdict = "canceled",
                           !.unrecorded = ~run.stagePods /\ (\E i \in DOMAIN objs.pods["src"] :
                                             objs.pods["src"][i].mig # 0)]
              IN  Advanced(r, "Canceling")
    /\ UNCHANGED <<setup, objs, down, backup, runs, faults>>

Pass ==
    \/ TurnToCancel
    \/ \E phase \in ModelledPhases : Handle(phase) \/ HandleRefused(phase)

Trouble ==
    \E phase \in ModelledPhases :
        \/ \E kind \in {"conflict", "crash", "error"} : Cut(phase, kind)
        \/ ListFails(phase)

-----------------------------------------------------------------------------
(* Velero *)

\* A volume is in the backup with its PV and PVC; its files are there when Restic
\* finds a pod that lists it.
InBackup(v) ==
    /\ objs.pv["src"][v] = Uid /\ objs.pvc["src"][v] = Uid
    /\ MethodOf(v) = "filesystem" =>
          \E i \in DOMAIN objs.pods["src"] :
              LET p == objs.pods["src"][i]
              IN  p.inc = Uid /\ p.phase = "running" /\ \E list \in p.restic : v \in list

VeleroBackup ==
    /\ run.backup = "new" /\ run.phase = "StageBackupCreated"
    /\ \/ /\ backup' = [vols |-> {v \in StagedPVs : InBackup(v)},
                        pods |-> LET ids == {i \in DOMAIN objs.pods["src"] :
                                                objs.pods["src"][i].inc = Uid}
                                 IN  [i \in ids |-> objs.pods["src"][i]]]
          /\ run' = [run EXCEPT !.backup = "done"] /\ UNCHANGED faults
       \/ Spend("velero") /\ run' = [Hit("velero") EXCEPT !.backup = "failed"] /\ UNCHANGED backup
    /\ UNCHANGED <<setup, objs, down, runs>>

\* What is restored has the labels it had.
VeleroRestore ==
    /\ run.restore = "new" /\ run.phase = "StageRestoreCreated"
    /\ \/ /\ objs' = LET labels(f) == [f EXCEPT !["dst"] =
                                         [x \in DOMAIN f["src"] |->
                                             IF f["src"][x] = Uid THEN Uid ELSE f["dst"][x]]]
                     IN  [objs EXCEPT !.pvc = labels(@), !.ns = labels(@), !.sa = labels(@),
                                      !.is = labels(@),
                                      !.pv["dst"] = [v \in Vols |->
                                          IF MethodOf(v) = "filesystem" THEN @[v]
                                          ELSE objs.pv["src"][v]],
                                      !.pods["dst"] = @ @@ backup.pods]
          /\ run' = [run EXCEPT !.restore = "done"] /\ UNCHANGED faults
       \/ Spend("velero") /\ run' = [Hit("velero") EXCEPT !.restore = "failed"] /\ UNCHANGED objs
    /\ UNCHANGED <<setup, down, backup, runs>>

-----------------------------------------------------------------------------
(* The user and the clusters *)

\* After a final migration the plan is closed for all but a rollback.
Start(kind, quiesce) ==
    /\ Idle /\ runs < MaxRuns
    /\ run.kind = "final" /\ run.verdict = "" => kind = "rollback"
    /\ runs = 0 => kind # "rollback"
    /\ kind = "rollback" => ~quiesce
    /\ run' = LET r == [NoRun EXCEPT !.kind = kind, !.quiesce = quiesce]
              IN  Advanced(r, IF kind = "rollback" THEN "Rollback" ELSE "Created")
    /\ runs' = runs + 1 /\ backup' = NoBackup
    /\ UNCHANGED <<setup, objs, down, faults>>

Cancel ==
    /\ ~Idle /\ ~run.cancel /\ run.kind # "rollback" /\ Spend("cancel")
    /\ run' = [Hit("cancel") EXCEPT !.cancel = TRUE]
    /\ UNCHANGED <<setup, objs, down, backup, runs>>

WithoutPod(c, i) == [objs EXCEPT !.pods[c] = [j \in DOMAIN @ \ {i} |-> @[j]]]

PodStarts(i) ==
    /\ i \in DOMAIN objs.pods["src"] /\ objs.pods["src"][i].phase = "pending"
    /\ \/ objs' = [objs EXCEPT !.pods["src"][i].phase = "running"] /\ UNCHANGED <<run, faults>>
       \/ /\ Spend("pod") /\ run' = Hit("pod")
          /\ objs' = [objs EXCEPT !.pods["src"][i].phase = "failed"]
    /\ UNCHANGED <<setup, down, backup, runs>>

PodGoes(c, i) ==
    /\ i \in DOMAIN objs.pods[c] /\ objs.pods[c][i].phase = "going"
    /\ objs' = WithoutPod(c, i)
    /\ UNCHANGED <<setup, down, run, backup, runs, faults>>

AppOf(i) == objs.pods["src"][i].app

\* The pod of an application that is scaled down goes.
AppStops(i) ==
    /\ down /\ i \in DOMAIN objs.pods["src"] /\ AppOf(i) # 0 /\ setup.apps[AppOf(i)].managed
    /\ objs' = WithoutPod("src", i)
    /\ UNCHANGED <<setup, down, run, backup, runs, faults>>

\* The pod of an application is lost, and made again without labels.
AppRestarts(i) ==
    /\ i \in DOMAIN objs.pods["src"] /\ AppOf(i) # 0 /\ setup.apps[AppOf(i)].managed
    /\ Spend("restart") /\ run' = Hit("restart")
    /\ objs' = WithoutPod("src", i)
    /\ UNCHANGED <<setup, down, backup, runs>>

AppStarts(a) ==
    /\ ~down /\ setup.apps[a].up /\ setup.apps[a].managed
    /\ ~\E i \in DOMAIN objs.pods["src"] : AppOf(i) = a
    /\ Spare(objs) # {}
    /\ objs' = [objs EXCEPT !.pods["src"] =
                  (Min(Spare(objs)) :> Pod(a, setup.apps[a].vols, a, "running", 0)) @@ @]
    /\ UNCHANGED <<setup, down, run, backup, runs, faults>>

World ==
    \/ \E kind \in RunKinds \ {"none"}, quiesce \in BOOLEAN : Start(kind, quiesce)
    \/ Cancel
    \/ \E i \in Ids : PodStarts(i) \/ AppStops(i) \/ AppRestarts(i)
    \/ \E i \in Ids, c \in Clusters : PodGoes(c, i)
    \/ \E a \in Apps : AppStarts(a)

Next == Pass \/ Trouble \/ VeleroBackup \/ VeleroRestore \/ World

Spec == Init /\ [][Next]_vars

\* WF_vars(Pass), its ENABLED written out: a pass changes something.
PassMoves ==
    /\ ~Idle
    /\ \/ Canceling
       \/ /\ Handling(run.phase)
          /\ Refused(run.phase) \/ Done(run.phase) \/ Len(Course(run.phase)) > 1
FairPasses == []<>~PassMoves \/ []<><<Pass>>_vars

FairSpec ==
    /\ Spec /\ FairPasses /\ WF_vars(VeleroBackup) /\ WF_vars(VeleroRestore)
    /\ \A i \in Ids : WF_vars(PodStarts(i)) /\ WF_vars(AppStops(i))
    /\ \A i \in Ids, c \in Clusters : WF_vars(PodGoes(c, i))

-----------------------------------------------------------------------------
(* Properties *)

\* A stage or final migration that has succeeded has copied every volume of the
\* plan.  Three things are known to lose one, see the README: a list of claims
\* that fails, the pod of an application that restarts after it was labelled, and
\* a pass that is cut between a PV and its PVC.
BackupComplete ==
    /\ Idle /\ run.kind \in {"stage", "final"} /\ run.verdict = ""
    /\ ~run.torn /\ run.hit \cap {"list", "restart"} = {}
    => backup.vols = StagedPVs

\* A volume is mounted by one stage pod at most, however often the passes that
\* make them are cut and repeated.
OneStagePod ==
    \A i, j \in DOMAIN objs.pods["src"] :
        LET p == objs.pods["src"][i]
            q == objs.pods["src"][j]
        IN  i # j /\ p.app = 0 /\ q.app = 0 /\ p.mig = q.mig => ~(p.vols \subseteq q.vols)

\* While pods are looked for and volumes are copied no pod carries the labels of
\* an earlier migration, on either cluster: Velero would take it along.
FreshPods ==
    CreatesStagePods(run.phase) \/ run.phase \in {"StagePodsCreated", "AnnotateResources",
            "EnsureStageBackup", "StageBackupCreated", "EnsureStageRestore"} =>
        \A c \in Clusters : \A i \in DOMAIN objs.pods[c] :
            objs.pods[c][i].mig \in {0, Uid} \/ objs.pods[c][i].phase = "failed"

\* The stage pods are this migration's own, one for each volume.
StagePodsFit == OneStagePod /\ FreshPods

\* A migration that has succeeded, or was canceled and knew of its stage pods, has
\* left nothing of its own on either cluster: no label, no annotation, no stage pod
\* that is not on its way out.
NothingLeft ==
    Idle /\ run.kind # "none" /\ run.verdict # "failed" /\ ~run.unrecorded =>
        \A c \in Clusters :
            /\ \A i \in DOMAIN objs.pods[c] :
                  LET p == objs.pods[c][i]
                  IN  p.phase = "going" \/ (p.mig # Uid /\ p.inc # Uid /\ p.restic = {})
            /\ \A label \in {objs.pv[c], objs.pvc[c], objs.ns[c], objs.sa[c], objs.is[c]} :
                  \A x \in DOMAIN label : label[x] # Uid

\* When Velero is asked for the stage backup the service account of every pod in
\* it is in it too.
AccountsFollow ==
    run.phase = "StageBackupCreated" /\ run.backup = "new" =>
        \A i \in ListStagePods(objs, "src") :
            LET a == objs.pods["src"][i].sa IN a # 0 => objs.sa["src"][a] = Uid

\* A migration that has started ends: the pods it waits for start or fail, and
\* those it has deleted, on either cluster, go.
Ends == ~Idle ~> Idle
===============================================================================

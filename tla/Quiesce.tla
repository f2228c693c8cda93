-------------------------------- MODULE Quiesce --------------------------------
(***************************************************************************)
(* What the migrations of one plan do to the workloads                     *)
(* (pkg/controller/migmigration/quiesce.go, storage.go, rollback.go): they *)
(* are scaled down before the last copy of their volumes, scaled up again  *)
(* on a cancel, a rollback or after their restore, and when a plan moves   *)
(* volumes to another storage class their references are swapped.          *)
(*                                                                         *)
(* A pass of a phase lists and updates the workloads kind by kind.  Each   *)
(* kind is a step, so that the clusters move between the kinds, and may be *)
(* cut after any of its API calls.                                         *)
(***************************************************************************)
EXTENDS Integers, SequencesExt, FiniteSetsExt

CONSTANTS
    Ids,          \* names for the objects, those made on the way included
    Setups,       \* the workloads and the plan, see TypeOK
    FaultKinds,   \* what may go wrong
    MaxFaults,    \* bound on how often
    MaxRuns       \* bound on the migrations

Kinds == {"cron", "dc", "deployment", "sts", "rs", "ds", "job", "vm"}
Claims == {"copy", "skip"}     \* a volume the plan copies, one it skips
MaxScale == 2

\* scale   replicas, parallelism; 0 for a suspended CronJob, a stopped VM and
\*         a DaemonSet with the node selector of the quiesce
App(kind, claims, scale, paused) ==
    [kind |-> kind, claims |-> claims, scale |-> scale, paused |-> paused]

\* apps     the workloads of the source namespace
\* same     a storage conversion: source and target are one namespace
\* shared   another plan has the namespace too
\* renamed  the target volumes have other names
\* live     the plan migrates virtual machines live
\* noted    the StatefulSets have annotations of their own
\* Some workload has a volume the plan copies: a namespace without any is left out.
ASSUME QuiesceAssumption ==
    /\ Ids \subseteq Nat \ {0}
    /\ IsFiniteSet(Ids)
    /\ \A s \in Setups :
          /\ DOMAIN s = {"apps", "same", "shared", "renamed", "live", "noted"}
          /\ {s.same, s.shared, s.renamed, s.live, s.noted} \subseteq BOOLEAN
          /\ s.same => s.renamed
          /\ DOMAIN s.apps \subseteq Ids
          /\ \E i \in DOMAIN s.apps : "copy" \in s.apps[i].claims
          /\ \A i \in DOMAIN s.apps :
                s.apps[i] \in [kind : Kinds, claims : SUBSET Claims, scale : 0..MaxScale,
                               paused : BOOLEAN]
    /\ FaultKinds \subseteq {"error", "conflict", "crash", "cancel", "list", "user"}
    /\ {MaxFaults, MaxRuns} \subseteq Nat

VARIABLES
    setup,    \* the workloads and the plan at the start, which do not change
    obj,      \* the workload objects of each cluster
    pods,     \* whether the pods of an object run
    run,      \* the migration
    backup,   \* the objects the initial backup holds
    targets,  \* whether the target volumes are there
    want,     \* the scale the user last asked for
    runs,     \* how many migrations have started
    faults    \* how much has gone wrong

vars == <<setup, obj, pods, run, backup, targets, want, runs, faults>>

-----------------------------------------------------------------------------
(* State *)

Clusters == {"src", "dst"}
Dst == IF setup.same THEN "src" ELSE "dst"

RunKinds == {"none", "final", "state", "rollback"}
Verdicts == {"", "canceled", "failed"}

\* saved, savedPaused   the annotations: empty, or the one value they hold
\* ref       the volumes it refers to: 0 the source, 1 the target, 2 names of nothing
\* mark      a StatefulSet whose claim templates were renamed
\* stands    the StatefulSet a temporary one stands in for, or 0
\* of        the workload it descends from
\* own       labelled with the plan, for it was restored by it
Objects ==
    [ kind : Kinds, claims : SUBSET Claims, scale : 0..MaxScale, paused : BOOLEAN,
      saved : SUBSET (0..MaxScale), savedPaused : SUBSET BOOLEAN,
      ref : 0..2, mark : BOOLEAN, stands : Ids \cup {0}, of : Ids, own : BOOLEAN ]

Object(app, i) ==
    [ kind |-> app.kind, claims |-> app.claims, scale |-> app.scale, paused |-> app.paused,
      saved |-> {}, savedPaused |-> {}, ref |-> 0, mark |-> FALSE, stands |-> 0, of |-> i,
      own |-> FALSE ]

\* The phases of the itineraries that touch workloads.
Flow(kind, verdict) ==
    CASE verdict = "canceled"   -> <<"UnquiesceSrc", "Completed">>
      [] verdict = "failed"     -> <<"Completed">>
      [] kind = "final"         -> <<"Backup", "QuiesceSrc", "EnsureSrcQuiesced", "Copy",
                                     "Restore", "UnquiesceDst", "Completed">>
      [] kind = "state"         -> <<"QuiesceSrc", "EnsureSrcQuiesced", "Copy", "Swap",
                                     "Completed">>
      [] kind = "rollback" /\ setup.same ->
            <<"QuiesceDst", "EnsureDstQuiesced", "Swap", "DeleteMigrated",
              "EnsureMigratedDeleted", "UnquiesceSrc", "Completed">>
      [] OTHER -> <<"QuiesceDst", "EnsureDstQuiesced", "DeleteMigrated",
                    "EnsureMigratedDeleted", "UnquiesceSrc", "Completed">>

FlowPhases ==
    {"Backup", "QuiesceSrc", "EnsureSrcQuiesced", "Copy", "Restore", "UnquiesceDst", "Swap",
     "QuiesceDst", "EnsureDstQuiesced", "DeleteMigrated", "EnsureMigratedDeleted",
     "UnquiesceSrc", "Completed"}

\* TypeOK: the scale that is kept for a workload is one it has had.
TypeOK ==
    /\ setup \in Setups
    /\ DOMAIN obj = Clusters
    /\ \A c \in Clusters :
          /\ DOMAIN obj[c] \subseteq Ids
          /\ \A i \in DOMAIN obj[c] :
                /\ obj[c][i] \in Objects
                /\ Cardinality(obj[c][i].saved) <= 1 /\ Cardinality(obj[c][i].savedPaused) <= 1
    /\ pods \in [Clusters -> [Ids -> {"none", "up", "going"}]]
    /\ run \in [ kind : RunKinds, phase : FlowPhases, at : 1..9, bad : BOOLEAN,
                 missed : SUBSET Kinds, cancel : BOOLEAN, verdict : Verdicts ]
    /\ DOMAIN backup \subseteq Ids /\ targets \in BOOLEAN
    /\ want \in [DOMAIN setup.apps -> [scale : 0..MaxScale, paused : BOOLEAN]]
    /\ runs \in 0..MaxRuns /\ faults \in 0..MaxFaults

Init ==
    /\ setup \in Setups
    /\ obj = [c \in Clusters |->
                IF c = "src" THEN [i \in DOMAIN setup.apps |-> Object(setup.apps[i], i)]
                ELSE [i \in {} |-> i]]
    /\ pods = [c \in Clusters |-> [i \in Ids |->
                IF /\ c = "src" /\ i \in DOMAIN setup.apps
                   /\ setup.apps[i].scale > 0 /\ setup.apps[i].kind # "cron"
                THEN "up" ELSE "none"]]
    /\ run = [kind |-> "none", phase |-> "Completed", at |-> 1, bad |-> FALSE,
              missed |-> {}, cancel |-> FALSE, verdict |-> ""]
    /\ backup = [i \in {} |-> i] /\ targets = FALSE
    /\ want = [i \in DOMAIN setup.apps |->
                [scale |-> setup.apps[i].scale, paused |-> setup.apps[i].paused]]
    /\ runs = 0 /\ faults = 0

Spend(k) == k \in FaultKinds /\ faults < MaxFaults /\ faults' = faults + 1

-----------------------------------------------------------------------------
(* Which workloads *)

\* getSelectedPVCs has the target names in a rollback, whatever the cluster.
Mounts(o) ==
    /\ "copy" \in o.claims
    /\ ~setup.renamed \/ o.ref = IF run.kind = "rollback" THEN 1 ELSE 0

\* checkMultiplePlans: with one plan for the namespace all are chosen.
Chosen(o) == ~setup.shared \/ Mounts(o)

\* unQuiesceStatefulSets looks at the volumes of the template, where the claims
\* of a StatefulSet are not.
ChosenByVolumes(o) == ~setup.shared

IsOfKind(m, k) == {i \in DOMAIN m : m[i].kind = k}
Spare(m) == Ids \ DOMAIN m
The(s) == CHOOSE x \in s : TRUE

\* isVMActive: it has a pod; seen are the machines whose list of pods does not
\* fail, for the error is ignored and the machine taken for one that is off.
IsVMActive(seen, c, i) == i \in seen /\ pods[c][i] # "none"

-----------------------------------------------------------------------------
(* The calls an operation makes for an object i, as the maps m of objects   *)
(* that are there after each of them; m itself is not among them.           *)

One(m, i, o) == <<[m EXCEPT ![i] = o]>>

Lowered(o) == [o EXCEPT !.saved = {o.scale}, !.scale = 0]
Back(o) == IF o.scale = 0 THEN The(o.saved) ELSE o.scale
Raised(o) == [o EXCEPT !.scale = Back(o), !.saved = {}]

QuiesceDeploymentConfig(m, i) ==
    IF Chosen(m[i]) /\ m[i].scale # 0
    THEN One(m, i, [Lowered(m[i]) EXCEPT !.savedPaused = {m[i].paused}, !.paused = FALSE])
    ELSE <<>>


QuiesceDeployment(m, i) ==
    IF Chosen(m[i]) /\ m[i].scale # 0
    THEN One(m, i, [Lowered(m[i]) EXCEPT !.savedPaused = {m[i].paused}, !.paused = FALSE])
    ELSE <<>>

QuiesceStatefulSet(m, i) ==
    IF Chosen(m[i]) /\ m[i].scale # 0 THEN One(m, i, Lowered(m[i])) ELSE <<>>

QuiesceReplicaSetOfOne(m, i) ==   \* mutant: the volumes are not looked at
    IF ~setup.shared /\ m[i].scale # 0 THEN One(m, i, Lowered(m[i])) ELSE <<>>

QuiesceReplicaSet(m, i) ==
    IF Chosen(m[i]) /\ m[i].scale # 0 THEN One(m, i, Lowered(m[i])) ELSE <<>>

QuiesceDaemonSet(m, i) ==
    IF Chosen(m[i]) /\ m[i].scale # 0 THEN One(m, i, Lowered(m[i])) ELSE <<>>

\* The test for a suspended CronJob compares pointers and is never true.
QuiesceCronJob(m, i) ==
    IF Chosen(m[i]) THEN One(m, i, [m[i] EXCEPT !.saved = {1}, !.scale = 0]) ELSE <<>>

\* Nor is the one for a Job of no parallelism.
QuiesceJob(m, i) == IF Chosen(m[i]) THEN One(m, i, Lowered(m[i])) ELSE <<>>

\* A mark to start it again, then the call that stops it.
QuiesceVirtualMachine(seen, c, m, i) ==
    IF IsVMActive(seen, c, i) /\ Mounts(m[i])
    THEN LET marked == [m[i] EXCEPT !.saved = {1}]
         IN  One(m, i, marked) \o One(m, i, [marked EXCEPT !.scale = 0])
    ELSE <<>>

\* The replicas, and in an update of its own whether it is paused.
UnquiesceDeploymentConfig(m, i) ==
    IF Chosen(m[i]) /\ m[i].saved # {}
    THEN LET up == Raised(m[i])
             p  == IF up.savedPaused = {} THEN up.paused ELSE The(up.savedPaused)
         IN  One(m, i, up) \o One(m, i, [up EXCEPT !.paused = p, !.savedPaused = {}])
    ELSE <<>>

UnquiesceDeployment(m, i) ==
    IF Chosen(m[i]) /\ m[i].saved # {}
    THEN LET up == Raised(m[i])
             p  == IF up.savedPaused = {} THEN up.paused ELSE The(up.savedPaused)
         IN  One(m, i, [up EXCEPT !.paused = p, !.savedPaused = {}])
    ELSE <<>>

UnquiesceStatefulSet(m, i) ==
    IF ChosenByVolumes(m[i]) /\ m[i].saved # {} THEN One(m, i, Raised(m[i])) ELSE <<>>

UnquiesceReplicaSet(m, i) ==
    IF Chosen(m[i]) /\ m[i].saved # {} THEN One(m, i, Raised(m[i])) ELSE <<>>

UnquiesceDaemonSet(m, i) ==
    IF Chosen(m[i]) /\ m[i].saved # {} /\ m[i].scale = 0 THEN One(m, i, Raised(m[i]))
    ELSE <<>>

UnquiesceCronJob(m, i) ==
    IF Chosen(m[i]) /\ m[i].saved # {}
    THEN One(m, i, [m[i] EXCEPT !.saved = {}, !.scale = 1]) ELSE <<>>

UnquiesceJob(m, i) ==
    IF Chosen(m[i]) /\ m[i].saved # {} THEN One(m, i, Raised(m[i])) ELSE <<>>

\* startVM: the marks go, then the machine is started.
StartVM(m, i) ==
    LET unmarked == [m[i] EXCEPT !.saved = {}]
    IN  One(m, i, unmarked) \o One(m, i, [unmarked EXCEPT !.scale = 1])

UnquiesceVirtualMachine(seen, c, m, i) ==
    IF ~IsVMActive(seen, c, i) /\ m[i].saved # {} /\ Mounts(m[i]) THEN StartVM(m, i) ELSE <<>>

-----------------------------------------------------------------------------
(* Swapping the references *)

\* getPVCNameMapping and updatePVCRef
Mapped(o) == "copy" \in o.claims /\ o.ref = IF run.kind = "rollback" THEN 1 ELSE 0
Swapped(o) == IF Mapped(o) THEN [o EXCEPT !.ref = 1 - @] ELSE o

\* The annotations stay.
SwapDeployment(m, i) ==
    LET o == Swapped(m[i])
    IN  One(m, i, [o EXCEPT !.scale = IF o.saved = {} THEN @ ELSE The(o.saved),
                            !.paused = IF o.saved = {} \/ o.savedPaused = {} THEN @
                                       ELSE The(o.savedPaused)])

SwapDeploymentConfig(m, i) ==
    LET o == Swapped(m[i])
    IN  One(m, i, [o EXCEPT !.scale = IF o.saved = {} THEN @ ELSE The(o.saved),
                            !.paused = IF o.saved = {} \/ o.savedPaused = {} THEN @
                                       ELSE The(o.savedPaused)])

SwapReplicaSet(m, i) ==
    LET o == Swapped(m[i])
    IN  One(m, i, [o EXCEPT !.scale = IF o.saved = {} THEN @ ELSE The(o.saved)])

SwapDaemonSet(m, i) ==
    LET o == Swapped(m[i])
    IN  One(m, i, IF o.saved # {} /\ o.scale = 0 THEN Raised(o) ELSE o)

\* A new Job; the old one stays as it is.
SwapJob(m, i) ==
    LET o == Swapped(m[i])
    IN  <<(Min(Spare(m)) :> IF o.saved = {} THEN o ELSE Raised(o)) @@ m>>

SwapCronJob(m, i) ==
    LET o == Swapped(m[i])
    IN  One(m, i, IF o.saved = {} THEN o ELSE [o EXCEPT !.saved = {}, !.scale = 1])

\* The names of the claim templates get the suffix of the plan, or lose it in
\* a rollback.
Renamed(o) ==
    IF run.kind # "rollback" THEN [o EXCEPT !.ref = Min({2, @ + 1}), !.mark = TRUE]
    ELSE IF o.mark THEN [o EXCEPT !.ref = Max({0, @ - 1}), !.mark = FALSE] ELSE o

HasStandIn(m, i) == \E j \in DOMAIN m : m[j].stands = i

\* A set that was at 0 when the others were scaled down need not have any.
HasAnnotations(o) == setup.noted \/ o.saved # {} \/ o.mark \/ o.stands # 0

SwapStatefulSetBare(m, i) ==   \* mutant: the set is deleted before there is another
    IF HasStandIn(m, i) \/ ~HasAnnotations(m[i]) THEN <<>>
    ELSE LET j == Min(Spare(m))
             temp == [m[i] EXCEPT !.scale = 0, !.stands = i]
             up == IF m[i].saved = {} THEN m[i] ELSE Raised(m[i])
             without == [k \in DOMAIN m \ {i} |-> m[k]]
         IN  <<without, (j :> temp) @@ without, (j :> temp) @@ [m EXCEPT ![i] = Renamed(up)],
               [m EXCEPT ![i] = Renamed(up)]>>

\* A set without annotations is left as it is.  For another there is a temporary set,
\* then the set is deleted and made again, and the temporary one deleted.
SwapStatefulSet(m, i) ==
    IF HasStandIn(m, i) \/ ~HasAnnotations(m[i]) THEN <<>>
    ELSE LET j == Min(Spare(m))
             temp == [m[i] EXCEPT !.scale = 0, !.stands = i]
             up == IF m[i].saved = {} THEN m[i] ELSE Raised(m[i])
             both == (j :> temp) @@ m
         IN  <<both, [k \in DOMAIN both \ {i} |-> both[k]], [both EXCEPT ![i] = Renamed(up)],
               [m EXCEPT ![i] = Renamed(up)]>>

\* A call that meets a conflict is not repeated, see SwapLosesMachine.
SwapVirtualMachine(seen, c, m, i) ==
    IF IsVMActive(seen, c, i) \/ ~Mapped(m[i]) THEN <<>>
    ELSE LET swapped == [m EXCEPT ![i] = Swapped(@)]
         IN  <<swapped>> \o (IF m[i].saved = {} THEN <<>> ELSE StartVM(swapped, i))

\* What fails though every call succeeds.
SwapRefused(m, i) ==
    /\ m[i].kind = "sts" /\ HasAnnotations(m[i])
    /\ HasStandIn(m, i) \/ (run.kind = "rollback" /\ m[i].stands # 0)

-----------------------------------------------------------------------------
(* A step of a pass *)

QuiesceOrderCronLast ==   \* mutant: a CronJob is suspended after the Jobs were stopped
    <<"job", "dc", "deployment", "sts", "rs", "ds", "vm", "cron">>

QuiesceOrder == <<"cron", "dc", "deployment", "sts", "rs", "ds", "job", "vm">>

\* swapPVCReferences
SwapOrder == <<"deployment", "dc", "rs", "ds", "job", "cron", "sts", "vm">>

OpOf(phase) ==
    CASE phase \in {"QuiesceSrc", "QuiesceDst"}     -> "quiesce"
      [] phase \in {"UnquiesceSrc", "UnquiesceDst"} -> "unquiesce"
      [] phase = "Swap"                             -> "swap"
      [] OTHER                                      -> ""

ClusterOf(phase) ==
    IF phase \in {"QuiesceDst", "EnsureDstQuiesced", "UnquiesceDst", "Swap", "Restore",
                  "DeleteMigrated", "EnsureMigratedDeleted"}
    THEN Dst ELSE "src"

QuiesceCalls(seen, c, m, i) ==
    CASE m[i].kind = "cron"       -> QuiesceCronJob(m, i)
      [] m[i].kind = "dc"         -> QuiesceDeploymentConfig(m, i)
      [] m[i].kind = "deployment" -> QuiesceDeployment(m, i)
      [] m[i].kind = "sts"        -> QuiesceStatefulSet(m, i)
      [] m[i].kind = "rs"         -> QuiesceReplicaSet(m, i)
      [] m[i].kind = "ds"         -> QuiesceDaemonSet(m, i)
      [] m[i].kind = "job"        -> QuiesceJob(m, i)
      [] m[i].kind = "vm"         -> QuiesceVirtualMachine(seen, c, m, i)

UnquiesceCalls(seen, c, m, i) ==
    CASE m[i].kind = "cron"       -> UnquiesceCronJob(m, i)
      [] m[i].kind = "dc"         -> UnquiesceDeploymentConfig(m, i)
      [] m[i].kind = "deployment" -> UnquiesceDeployment(m, i)
      [] m[i].kind = "sts"        -> UnquiesceStatefulSet(m, i)
      [] m[i].kind = "rs"         -> UnquiesceReplicaSet(m, i)
      [] m[i].kind = "ds"         -> UnquiesceDaemonSet(m, i)
      [] m[i].kind = "job"        -> UnquiesceJob(m, i)
      [] m[i].kind = "vm"         -> UnquiesceVirtualMachine(seen, c, m, i)

SwapCalls(seen, c, m, i) ==
    CASE m[i].kind = "cron"       -> SwapCronJob(m, i)
      [] m[i].kind = "dc"         -> SwapDeploymentConfig(m, i)
      [] m[i].kind = "deployment" -> SwapDeployment(m, i)
      [] m[i].kind = "sts"        -> SwapStatefulSet(m, i)
      [] m[i].kind = "rs"         -> SwapReplicaSet(m, i)
      [] m[i].kind = "ds"         -> SwapDaemonSet(m, i)
      [] m[i].kind = "job"        -> SwapJob(m, i)
      [] m[i].kind = "vm"         -> SwapVirtualMachine(seen, c, m, i)

Calls(op, seen, c, m, i) ==
    CASE op = "quiesce"   -> QuiesceCalls(seen, c, m, i)
      [] op = "unquiesce" -> UnquiesceCalls(seen, c, m, i)
      [] op = "swap"      -> SwapCalls(seen, c, m, i)

Order(op) == IF op = "swap" THEN SwapOrder ELSE QuiesceOrder

\* Where a pass that is at a kind finds the next one with objects.
Stop(op, c, at) ==
    LET there == {n \in at..8 :
                    /\ IsOfKind(obj[c], Order(op)[n]) # {}
                    /\ ~(Order(op)[n] = "vm" /\ setup.live /\ op # "swap")}
    IN  IF there = {} THEN 9 ELSE Min(there)

\* The maps that follow one another while a kind is handled.
CourseSeen(op, seen, c, at) ==
    FoldLeft(LAMBDA s, i : s \o Calls(op, seen, c, Last(s), i), <<obj[c]>>,
             SetToSortSeq(IsOfKind(obj[c], Order(op)[at]), <))
Course(op, c, at) == CourseSeen(op, Ids, c, at)

\* When a call for one object has not succeeded Swap goes on with the next, but
\* after an error with a virtual machine.
CourseWithout(c, at, bad, n, on) ==
    FoldLeft(LAMBDA m, i : LET s == <<m>> \o SwapCalls(Ids, c, m, i)
                           IN  CASE i = bad           -> s[Min({n, Len(s)})]
                                 [] i > bad /\ ~on    -> m
                                 [] OTHER             -> Last(s),
             obj[c], SetToSortSeq(IsOfKind(obj[c], Order("swap")[at]), <))

Roam(phase, verdict) ==
    [run EXCEPT !.phase = phase, !.at = 1, !.bad = FALSE, !.verdict = verdict]

NextPhase ==
    LET flow == Flow(run.kind, run.verdict)
        n == CHOOSE k \in DOMAIN flow : flow[k] = run.phase
    IN  flow[n + 1]

Advance == run' = Roam(NextPhase, run.verdict)
Fail == run' = Roam("Completed", "failed")

\* The bound on the objects leaves room for what Swap makes.
Room(c, k) ==
    k \in {"job", "sts"} => Cardinality(Spare(obj[c])) >= Cardinality(IsOfKind(obj[c], k))

Handling(op, c, at) ==
    /\ run.phase # "Completed" /\ OpOf(run.phase) = op
    /\ c = ClusterOf(run.phase) /\ at = Stop(op, c, run.at)

\* A kind is handled.
HandleKind(op, c, at) ==
    /\ Handling(op, c, at) /\ at < 9
    /\ op = "swap" => Room(c, SwapOrder[at])
    /\ obj' = [obj EXCEPT ![c] = Last(Course(op, c, at))]
    /\ run' = [run EXCEPT !.at = at + 1,
                          !.bad = @ \/ (op = "swap" /\ \E i \in IsOfKind(obj[c], Order(op)[at]) :
                                                          SwapRefused(obj[c], i))]
    /\ UNCHANGED <<setup, pods, backup, targets, want, runs, faults>>

\* All are handled: the next phase, or a failure with the reasons of Swap.
HandleEnd(op, c) ==
    /\ Handling(op, c, 9)
    /\ IF run.bad THEN Fail ELSE Advance
    /\ UNCHANGED <<setup, obj, pods, backup, targets, want, runs, faults>>

\* An API call fails; of quiesce and unquiesce this ends the pass.
HandleFails(op, c, at) ==
    /\ Handling(op, c, at) /\ at < 9
    /\ IF op # "swap"
       THEN \E n \in 1..(Len(Course(op, c, at)) - 1) :
              /\ obj' = [obj EXCEPT ![c] = Course(op, c, at)[n]]
              /\ \/ Spend("error") /\ Fail
                 \/ Spend("conflict") /\ run' = Roam(run.phase, run.verdict)
       ELSE /\ Room(c, SwapOrder[at])
            /\ \E i \in IsOfKind(obj[c], Order(op)[at]), n \in 1..4 :
                 obj' = [obj EXCEPT ![c] = CourseWithout(c, at, i, n, SwapOrder[at] # "vm")]
            /\ Spend("error")
            /\ run' = [run EXCEPT !.at = at + 1, !.bad = TRUE]
    /\ UNCHANGED <<setup, pods, backup, targets, want, runs>>

\* swapPVCReferences: a list that fails is logged, and the kind is left alone.
ListFails(c, at) ==
    /\ Handling("swap", c, at) /\ at < 9
    /\ Spend("list")
    /\ run' = [run EXCEPT !.at = at + 1, !.missed = @ \cup {SwapOrder[at]}]
    /\ UNCHANGED <<setup, obj, pods, backup, targets, want, runs>>

\* isVMActive does not see the pod of a machine.
PodsUnread(op, c, at) ==
    /\ Handling(op, c, at) /\ at < 9 /\ Order(op)[at] = "vm"
    /\ Spend("list")
    /\ \E i \in IsOfKind(obj[c], "vm") :
          /\ pods[c][i] # "none"
          /\ obj' = [obj EXCEPT ![c] = Last(CourseSeen(op, Ids \ {i}, c, at))]
    /\ run' = [run EXCEPT !.at = at + 1, !.missed = @ \cup {"vm"}]
    /\ UNCHANGED <<setup, pods, backup, targets, want, runs>>

\* The loop of swapVirtualMachinePVCRefs: a machine whose update conflicts three
\* times is given up, and one whose start conflicts has its references already
\* when it is read again, so that there is nothing left to do.  Neither is a
\* failure.
SwapLosesMachine(c, at) ==
    /\ Handling("swap", c, at) /\ at < 9 /\ SwapOrder[at] = "vm"
    /\ Spend("conflict")
    /\ \E i \in IsOfKind(obj[c], "vm") :
          \E n \in 1..Len(SwapCalls(Ids, c, obj[c], i)) :
             obj' = [obj EXCEPT ![c] = CourseWithout(c, at, i, n, TRUE)]
    /\ run' = [run EXCEPT !.at = at + 1, !.missed = @ \cup {"vm"}]
    /\ UNCHANGED <<setup, pods, backup, targets, want, runs>>

\* The controller stops, or its write of the phase is lost.
Crash(op, c, at) ==
    /\ Handling(op, c, at) /\ at < 9
    /\ op = "swap" => Room(c, SwapOrder[at])
    /\ Spend("crash")
    /\ \E n \in 1..Len(Course(op, c, at)) : obj' = [obj EXCEPT ![c] = Course(op, c, at)[n]]
    /\ run' = Roam(run.phase, run.verdict)
    /\ UNCHANGED <<setup, pods, backup, targets, want, runs>>

Handle ==
    \E op \in {"quiesce", "unquiesce", "swap"}, c \in Clusters :
        \/ \E at \in 1..8 : HandleKind(op, c, at)
        \/ HandleEnd(op, c)

Trouble ==
    \E op \in {"quiesce", "unquiesce", "swap"}, c \in Clusters, at \in 1..8 :
        \/ HandleFails(op, c, at)
        \/ Crash(op, c, at)
        \/ PodsUnread(op, c, at)
        \/ op = "swap" /\ (ListFails(c, at) \/ SwapLosesMachine(c, at))

-----------------------------------------------------------------------------
(* The other phases *)

\* ensureQuiescedPodsTerminated: a pod with a volume that is not selected is
\* taken for another application.
EnsureQuiescedPodsTerminated(c) ==
    \A i \in DOMAIN obj[c] :
        \/ pods[c][i] = "none"
        \/ \E v \in obj[c][i].claims : ~(v = "copy" /\ Mounts(obj[c][i]))
        \/ obj[c][i].kind = "vm" /\ setup.live

EnsureQuiesced ==
    /\ run.phase \in {"EnsureSrcQuiesced", "EnsureDstQuiesced"}
    /\ EnsureQuiescedPodsTerminated(ClusterOf(run.phase))
    /\ Advance
    /\ UNCHANGED <<setup, obj, pods, backup, targets, want, runs, faults>>

TakeBackup ==
    /\ run.phase = "Backup"
    /\ backup' = obj["src"]
    /\ Advance
    /\ UNCHANGED <<setup, obj, pods, targets, want, runs, faults>>

\* The volumes are copied, which ends some time.
CopyEnds ==
    /\ run.phase = "Copy"
    /\ targets' = TRUE
    /\ Advance
    /\ UNCHANGED <<setup, obj, pods, backup, want, runs, faults>>

\* Velero leaves alone what is there.
Restore ==
    /\ run.phase = "Restore"
    /\ obj' = [obj EXCEPT !["dst"] =
                 @ @@ [i \in DOMAIN backup |->
                         [backup[i] EXCEPT !.own = TRUE, !.ref = IF setup.renamed THEN 1 ELSE @]]]
    /\ Advance
    /\ UNCHANGED <<setup, pods, backup, targets, want, runs, faults>>

\* deleteMigrated: what carries the label of the plan, the volumes too.
DeleteMigrated ==
    /\ run.phase = "DeleteMigrated"
    /\ obj' = [obj EXCEPT ![Dst] =
                 [i \in {j \in DOMAIN obj[Dst] : ~obj[Dst][j].own} |-> obj[Dst][i]]]
    /\ targets' = FALSE
    /\ Advance
    /\ UNCHANGED <<setup, pods, backup, want, runs, faults>>

\* Labelled pods are counted too.
EnsureMigratedDeleted ==
    /\ run.phase = "EnsureMigratedDeleted"
    /\ \A i \in Ids \ DOMAIN obj[Dst] : pods[Dst][i] = "none"
    /\ Advance
    /\ UNCHANGED <<setup, obj, pods, backup, targets, want, runs, faults>>

\* Task.init, at the start of a pass
TurnToCancel ==
    /\ run.cancel /\ run.verdict = "" /\ run.phase # "Completed" /\ run.at = 1
    /\ run' = Roam("UnquiesceSrc", "canceled")
    /\ UNCHANGED <<setup, obj, pods, backup, targets, want, runs, faults>>

Canceling == run.cancel /\ run.verdict = "" /\ run.at = 1

Pass ==
    \/ TurnToCancel
    \/ ~Canceling /\ \/ Handle
                     \/ EnsureQuiesced \/ TakeBackup \/ CopyEnds \/ Restore
                     \/ DeleteMigrated \/ EnsureMigratedDeleted

-----------------------------------------------------------------------------
(* The user and the clusters *)

Idle == run.phase = "Completed"

\* After a success the plan is closed for all but a rollback.  A machine that is
\* starting has no pod yet and would pass for one that is off, see IsVMActive: a
\* migration is taken to start when the machines have started.
Start(kind) ==
    /\ Idle /\ runs < MaxRuns
    /\ kind \in (IF setup.same THEN {"state", "rollback"} ELSE {"final", "rollback"})
    /\ run.verdict = "" /\ run.kind \in {"final", "state"} => kind = "rollback"
    /\ runs > 0 \/ kind # "rollback"
    /\ \A c \in Clusters : \A i \in IsOfKind(obj[c], "vm") :
          obj[c][i].scale > 0 => pods[c][i] = "up"
    /\ run' = [kind |-> kind, phase |-> Flow(kind, "")[1], at |-> 1, bad |-> FALSE,
               missed |-> {}, cancel |-> FALSE, verdict |-> ""]
    /\ runs' = runs + 1
    /\ UNCHANGED <<setup, obj, pods, backup, targets, want, faults>>

Cancel ==
    /\ ~Idle /\ ~run.cancel /\ Spend("cancel")
    /\ run' = [run EXCEPT !.cancel = TRUE]
    /\ UNCHANGED <<setup, obj, pods, backup, targets, want, runs>>

\* Between migrations, and not after a restore, the user scales a workload without
\* annotation: Swap leaves one on Deployments, DeploymentConfigs and ReplicaSets,
\* and a later rollback puts its value back.
Scale(i, n) ==
    /\ Idle /\ DOMAIN obj["dst"] = {} /\ i \in DOMAIN setup.apps /\ i \in DOMAIN obj["src"]
    /\ obj["src"][i].kind \notin {"cron", "ds", "vm", "job"} /\ n # obj["src"][i].scale
    /\ obj["src"][i].saved = {}
    /\ Spend("user")
    /\ obj' = [obj EXCEPT !["src"][i].scale = n]
    /\ want' = [want EXCEPT ![i].scale = n]
    /\ UNCHANGED <<setup, pods, run, backup, targets, runs>>

Wanted(c, i) == i \in DOMAIN obj[c] /\ obj[c][i].kind # "cron" /\ obj[c][i].scale > 0

PodStarts(c, i) ==
    /\ Wanted(c, i) /\ pods[c][i] = "none"
    /\ ~("copy" \in obj[c][i].claims /\ obj[c][i].ref = 1 /\ ~targets)
    /\ pods' = [pods EXCEPT ![c][i] = "up"]
    /\ UNCHANGED <<setup, obj, run, backup, targets, want, runs, faults>>

PodStops(c, i) ==
    /\ ~Wanted(c, i) /\ pods[c][i] # "none"
    /\ pods' = [pods EXCEPT ![c][i] = IF @ = "up" THEN "going" ELSE "none"]
    /\ UNCHANGED <<setup, obj, run, backup, targets, want, runs, faults>>

\* A CronJob that is not suspended makes a Job.
Fire(c, i) ==
    /\ i \in DOMAIN obj[c] /\ obj[c][i].kind = "cron" /\ obj[c][i].scale > 0
    /\ ~\E j \in DOMAIN obj[c] : obj[c][j].kind = "job" /\ obj[c][j].of = i
    /\ Spare(obj[c]) # {} /\ pods[c][Min(Spare(obj[c]))] = "none"
    /\ obj' = [obj EXCEPT ![c] =
                 (Min(Spare(@)) :> [@[i] EXCEPT !.kind = "job", !.scale = 1, !.saved = {}]) @@ @]
    /\ UNCHANGED <<setup, pods, run, backup, targets, want, runs, faults>>

World ==
    \/ \E kind \in RunKinds : Start(kind)
    \/ Cancel
    \/ \E i \in Ids, n \in 0..MaxScale : Scale(i, n)
    \/ \E c \in Clusters, i \in Ids : PodStarts(c, i) \/ PodStops(c, i) \/ Fire(c, i)

Next == Pass \/ Trouble \/ World

Spec == Init /\ [][Next]_vars
FairSpec ==
    /\ Spec /\ WF_vars(Pass)
    /\ \A c \in Clusters, i \in Ids : WF_vars(PodStops(c, i))

-----------------------------------------------------------------------------
(* Properties *)

\* While the volumes are copied for the last time nothing writes to them: no pod
\* that mounts one is left, and no CronJob is about to make one.  Pods with a
\* second volume that is not copied are the known exception, see
\* EnsureQuiescedPodsTerminated.
Quiet ==
    run.phase = "Copy" =>
        \A i \in DOMAIN obj["src"] :
            LET o == obj["src"][i]
                writes == /\ o.claims = {"copy"} /\ (setup.renamed => o.ref = 0)
                          /\ ~(o.kind = "vm" /\ setup.live)
            IN  writes => pods["src"][i] = "none" /\ o.scale = 0

Family(c, i) == {j \in DOMAIN obj[c] : obj[c][j].of = i /\ obj[c][j].kind = setup.apps[i].kind}

\* The kinds whose return survives any fault.  The others lose their scale when a
\* pass repeats or breaks between two calls.
Sturdy == {"deployment", "rs", "ds"}

\* A StatefulSet that was scaled down in a namespace it shares with another plan:
\* only Swap brings it back, see ChosenByVolumes.
NeverRaised(i) ==
    /\ setup.shared /\ setup.apps[i].kind = "sts" /\ "copy" \in setup.apps[i].claims
    /\ ~(setup.same /\ run.verdict = "")


\* At every moment a StatefulSet exists, by itself or as the temporary one that
\* stands in for it while it is made again.
SetsKept ==
    \A i \in DOMAIN setup.apps :
        setup.apps[i].kind = "sts" =>
            \E j \in DOMAIN obj["src"] : j = i \/ obj["src"][j].stands = i

\* The pods of a plan never write to two copies of a volume at a time.  After a
\* fault StatefulSets, whose claims a repeated pass renames twice, and Jobs, whose
\* old object Swap leaves behind, are excepted.
OneCopy ==
    \A i, j \in {k \in DOMAIN obj["src"] :
                   obj["src"][k].kind \notin {"sts", "job"} \/ faults = 0} :
        /\ "copy" \in obj["src"][i].claims \cap obj["src"][j].claims
        /\ pods["src"][i] = "up" /\ pods["src"][j] = "up"
        => {obj["src"][i].ref, obj["src"][j].ref} # {0, 1}

\* When a storage conversion succeeds, every workload with a copied volume refers
\* to its copy.  Excepted are a kind whose list has failed, or machines that were given
\* up, which Swap leaves alone; a StatefulSet at 0 without annotations; and after a
\* fault all StatefulSets, see OneCopy.
ReferencesFollow ==
    Idle /\ run.kind = "state" /\ run.verdict = "" =>
        \A i \in DOMAIN setup.apps :
            /\ "copy" \in setup.apps[i].claims /\ i \in DOMAIN obj["src"]
            /\ setup.apps[i].kind \notin run.missed
            /\ setup.apps[i].kind = "sts" =>
                  faults = 0 /\ (setup.noted \/ want[i].scale > 0)
            => \E j \in Family("src", i) : obj["src"][j].ref = 1

\* A storage conversion loses no set, lets no two copies be written, and succeeds
\* only with every workload on its copy.
ConversionSafe == SetsKept /\ OneCopy /\ ReferencesFollow

\* The bound on the objects has stopped the model in Swap.
Cramped ==
    run.phase = "Swap" /\ LET at == Stop("swap", Dst, run.at)
                          IN  at < 9 /\ ~Room(Dst, SwapOrder[at])

\* EnsureSrcQuiesced or EnsureDstQuiesced waits for pods that the quiesce before
\* has left alone: those of a workload without volumes, which with another plan in
\* the namespace is not scaled down, of a virtual machine without volumes, which never
\* is, and of a machine whose pod was not seen.
AwaitedForEver ==
    /\ run.phase \in {"EnsureSrcQuiesced", "EnsureDstQuiesced"}
    /\ LET c == ClusterOf(run.phase)
       IN  \E i \in DOMAIN obj[c] :
              /\ pods[c][i] = "up"
              /\ \/ obj[c][i].claims = {} /\ (setup.shared \/ obj[c][i].kind = "vm")
                 \/ obj[c][i].kind = "vm" /\ "vm" \in run.missed

\* A migration that has started ends: but for the three cases of AwaitedForEver
\* EnsureSrcQuiesced and EnsureDstQuiesced wait for no pod that the quiesce before
\* them has left alone.
Ends == ~Idle ~> Idle \/ Cramped \/ AwaitedForEver
===============================================================================

------------------------- MODULE DirectVolumeMigration -------------------------
(***************************************************************************)
(* One DirectVolumeMigration (pkg/controller/directvolumemigration): its   *)
(* reconcile pass with the itinerary, the rsync operations and the live    *)
(* storage migrations of virtual machines; the controller that reports the *)
(* progress of a volume (pkg/controller/directvolumemigrationprogress);    *)
(* and the clusters, where the pods of rsync run and KubeVirt migrates.    *)
(*                                                                         *)
(* A pass is one step.  What it reads while it runs is taken from one      *)
(* moment, except for the progress reports, which it reads twice.  Its     *)
(* write may be lost, its effects on the clusters stay.                    *)
(***************************************************************************)
EXTENDS Integers, FiniteSets, SequencesExt, FiniteSetsExt

CONSTANTS
    PVCs,         \* the volumes of the DVM
    Plans,        \* what it is run for, see Facts
    Limit,        \* the backoff limit: attempts at one rsync operation
    FaultKinds    \* what may go wrong

AllFaults ==
    {"error", "conflict", "lost", "pod", "pods", "label", "timeouts", "evict",
     "blocked", "vm", "list", "stop", "start", "delete"}

Namespaces == 1..2                       \* in the order of their names
Modes == {"Stage", "CutOver", "Rollback"}

\* kind   the volume mode: a file system, or a block device or disk of a VM
\* vm     whether a virtual machine uses the volume, and whether it runs
\* live   liveMigrate of the plan and so of the DVM
\* faults what may go wrong, and max the bound on how often
Facts ==
    [ kind : [PVCs -> {"fs", "block"}], ns : [PVCs -> Namespaces],
      vm : [PVCs -> {"none", "off", "on"}], mode : Modes, live : BOOLEAN,
      faults : SUBSET FaultKinds, max : Nat ]

ASSUME DVMAssumption ==
    /\ IsFiniteSet(PVCs)
    /\ Plans \subseteq Facts
    /\ Limit \in Nat \ {0}
    /\ FaultKinds \subseteq AllFaults

VARIABLES
    plan,      \* what the DVM is run for, which does not change
    dvm,       \* the DVM on the API server
    pods,      \* the rsync client pods of each volume, oldest first
    dvmp,      \* the DirectVolumeMigrationProgress of each volume
    infra,     \* endpoints and transports of each namespace
    servers,   \* rsync server pods of each namespace
    vms,       \* the virtual machine of each volume
    copied,    \* the volumes whose data reached the target under this DVM
    faults,    \* how much has gone wrong
    unread,    \* the lists of pods that fail in the next pass, see Reads
    missed     \* the lists of pods that have failed

lists == <<unread, missed>>
vars == <<plan, dvm, pods, dvmp, infra, servers, vms, copied, faults, lists>>
clusters == <<pods, infra, servers, vms, copied>>

-----------------------------------------------------------------------------
(* Itineraries *)

VolumeMigration ==
    <<"Created", "Started", "Prepare", "CleanStaleRsyncResources",
      "WaitForStaleRsyncResourcesTerminated", "VerifyVMs",
      "CreateDestinationNamespaces", "DestinationNamespacesCreated",
      "CreateDestinationPVCs", "DeleteStaleVirtualMachineInstanceMigrations",
      "CreateRsyncRoute", "EnsureRsyncRouteAdmitted", "CreateRsyncConfig",
      "CreateStunnelConfig", "CreatePVProgressCRs", "CreateRsyncTransferPods",
      "WaitForRsyncTransferPodsRunning", "RunRsyncOperations",
      "DeleteRsyncResources", "WaitForRsyncResourcesTerminated",
      "CleanupStaleVirtHandlerPods", "Completed">>

VolumeMigrationFailed == <<"MigrationFailed", "Completed">>

VolumeMigrationRollback ==
    <<"Created", "Started", "Prepare", "CleanStaleRsyncResources",
      "DeleteStaleVirtualMachineInstanceMigrations",
      "WaitForStaleRsyncResourcesTerminated", "RunRsyncOperations",
      "CleanupStaleVirtHandlerPods", "Completed">>

ItineraryNames ==
    {"VolumeMigration", "VolumeMigrationFailed", "VolumeMigrationRollback"}

StepsOfUnwaited(name) ==   \* mutant: stale resources are not waited for
    CASE name = "VolumeMigration" ->
           SelectSeq(VolumeMigration, LAMBDA p : p # "WaitForStaleRsyncResourcesTerminated")
      [] name = "VolumeMigrationFailed" -> VolumeMigrationFailed
      [] name = "VolumeMigrationRollback" -> VolumeMigrationRollback

StepsOf(name) ==
    CASE name = "VolumeMigration" -> VolumeMigration
      [] name = "VolumeMigrationFailed" -> VolumeMigrationFailed
      [] name = "VolumeMigrationRollback" -> VolumeMigrationRollback

ElementsOf(s) == {s[i] : i \in DOMAIN s}
DVMPhases == {""} \cup UNION {ElementsOf(StepsOf(name)) : name \in ItineraryNames}

ItineraryOf(d) ==
    IF d.failed # "" THEN "VolumeMigrationFailed"
    ELSE IF plan.mode = "Rollback" THEN "VolumeMigrationRollback"
    ELSE "VolumeMigration"

PhaseOf(d) ==
    IF d.itinerary = ItineraryOf(d) THEN d.phase ELSE StepsOf(ItineraryOf(d))[1]

NextPhase(name, p) ==
    LET s == StepsOf(name)
        later == {i \in DOMAIN s : i > 1 /\ s[i - 1] = p}
    IN  IF later = {} THEN "Completed" ELSE s[CHOOSE i \in later : TRUE]

-----------------------------------------------------------------------------
(* State *)

PodPhases == {"Pending", "Running", "Succeeded", "Failed"}
Terminal  == {"Succeeded", "Failed"}
Sides     == {"source", "target"}

\* own      created by this DVM, not by an earlier one
\* seen     in the history of the progress report
\* going    deleted, and not yet gone
Pod(attempt, own) ==
    [attempt |-> attempt, phase |-> "Pending", own |-> own, seen |-> FALSE, going |-> FALSE]

Reports ==   \* where the status of the DVM lists a volume
    {"", "running", "failed", "successful", "pending", "unknown", "skipped",
     "liveRunning", "liveFailed", "liveSuccessful", "livePending"}

NoServer == [state |-> "none", vols |-> {}]

DVMs ==
    [ there : {"yes", "deleting", "gone"}, finalizer : BOOLEAN,
      phase : DVMPhases, itinerary : ItineraryNames \cup {""},
      failed : {"", "Warn", "Critical"}, network : BOOLEAN, succeeded : BOOLEAN,
      ops : [PVCs -> [attempt : 0..Limit, result : {""} \cup Terminal]],
      report : [PVCs -> Reports] ]
ClientPods ==
    [ attempt : 1..Limit, phase : PodPhases, own : BOOLEAN, seen : BOOLEAN, going : BOOLEAN ]
Infras == [ endpoint : {"none", "made", "admitted"}, transport : BOOLEAN, targets : BOOLEAN ]
Servers == [ state : {"none", "pending", "running", "going"}, vols : SUBSET PVCs ]

\* at       the volume in the specification of the virtual machine
\* on       the volume it runs on, "" when it is stopped
\* stale    the volume of a finished virt-launcher pod
Machines ==
    [ at : Sides, on : Sides \cup {""}, stale : SUBSET Sides,
      migration : {"none", "pending", "refused", "running", "succeeded", "failed"} ]

\* What a pass asks getRunningVmVolumeMap for: the servers to make, the clients
\* that are not left to a machine, whether a client is offline, the progress
\* reports to make, the client of a machine that was started, the volumes to
\* report, their migrations, the machines to move and those that failed, and
\* the machines to bring back.  For a client it is asked again each time.
OfClients == {"filter", "client"}
Reads == OfClients \cup
    {"servers", "offline", "reports", "names", "vmims", "start", "verdict", "cancel"}

TypeOK ==
    /\ plan \in Plans
    /\ dvm \in DVMs
    /\ pods \in [PVCs -> Seq(ClientPods)]
    /\ dvmp \in [PVCs -> {"none", ""} \cup PodPhases]
    /\ infra \in [Namespaces -> Infras]
    /\ servers \in [Namespaces -> [{"fs", "block"} -> Servers]]
    /\ vms \in [PVCs -> Machines]
    /\ copied \subseteq PVCs
    /\ faults \in 0..plan.max
    /\ unread \subseteq missed /\ missed \subseteq Reads \X PVCs

\* A rollback finds the virtual machines on the volumes that the migration
\* before it moved them to.  A volume may have a pod left over from that one.
Init ==
    /\ plan \in Plans
    /\ dvm = [ there |-> "yes", finalizer |-> FALSE, phase |-> "", itinerary |-> "",
               failed |-> "", network |-> FALSE, succeeded |-> FALSE,
               ops |-> [p \in PVCs |-> [attempt |-> 0, result |-> ""]],
               report |-> [p \in PVCs |-> ""] ]
    /\ \E left \in SUBSET PVCs :
          pods = [p \in PVCs |->
                    IF p \in left THEN <<[Pod(1, FALSE) EXCEPT !.phase = "Succeeded"]>>
                    ELSE <<>>]
    /\ dvmp = [p \in PVCs |-> "none"]
    /\ infra = [n \in Namespaces |-> [ endpoint |-> "none", transport |-> FALSE,
                                       targets |-> plan.mode = "Rollback" ]]
    /\ servers = [n \in Namespaces |-> [k \in {"fs", "block"} |-> NoServer]]
    /\ vms = [p \in PVCs |->
                LET at == IF plan.mode = "Rollback" THEN "target" ELSE "source"
                IN  [ at |-> at, on |-> IF plan.vm[p] = "on" THEN at ELSE "",
                      stale |-> {},
                      migration |-> IF plan.mode = "Rollback" THEN "succeeded" ELSE "none" ]]
    /\ copied = {}
    /\ faults = 0
    /\ unread = {} /\ missed = {}

Spend(kind) ==
    /\ kind \in plan.faults
    /\ faults < plan.max
    /\ faults' = faults + 1

-----------------------------------------------------------------------------
(* What a pass reads.  w is the world as the pass finds it or leaves it;   *)
(* missed is only carried along.                                           *)

World == [ pods |-> pods, dvmp |-> dvmp, infra |-> infra, servers |-> servers,
           vms |-> vms, dvm |-> dvm, unread |-> unread, missed |-> missed ]

Used == {plan.ns[p] : p \in PVCs}
Live(s) == {s[i] : i \in DOMAIN s}

\* getRunningVmVolumeMap: a virt-launcher pod, running or not, mounts it.  When
\* the list of the pods fails nobody is told, and nothing looks mounted.
InUse(w, read, p, volume) ==
    /\ <<read, p>> \notin w.unread
    /\ volume = w.vms[p].on \/ volume \in w.vms[p].stale

\* filterRunningVMs: the volume is left to the migration of its machine.
LeftToVM(w, read, p) == plan.live /\ InUse(w, read, p, "source")

Listed(w, n) == {k \in {"fs", "block"} : w.servers[n][k].state # "none"}

ServersRunningForAll(w, volumes, last) ==   \* mutant: and mount what is left to machines
    \A n \in Used : \A k \in Listed(w, n) :
        /\ w.servers[n][k].state # "pending"
        /\ {p \in PVCs : plan.ns[p] = n} \subseteq w.servers[n][k].vols

\* areRsyncTransferPodsRunning.  The selector does not ask for the app, so the
\* servers of both kinds are listed; each of them has to mount the volumes.
\* last is the namespace the map of volumes yields last.
ServersRunning(w, volumes, last) ==
    LET offline == \E p \in PVCs : ~InUse(w, "offline", p, "source")
        all(Holds(_)) == \A n \in Used : \A k \in Listed(w, n) : Holds(w.servers[n][k])
    IN  /\ all(LAMBDA server : server.state # "pending")
        /\ \/ ~offline
           \/ /\ Listed(w, last) # {}
              /\ all(LAMBDA server : volumes \subseteq server.vols)

\* updateRsyncProgressStatus
RsyncReport(w, p) ==
    IF w.dvmp[p] = "none" THEN ""
    ELSE IF w.dvmp[p] = "Running" THEN "running"
    ELSE IF w.dvm.ops[p].result = "Failed" THEN "failed"
    ELSE IF w.dvmp[p] = "Succeeded" THEN "successful"
    ELSE IF w.dvmp[p] = "Pending" THEN "pending"
    ELSE IF w.dvmp[p] = "" THEN "unknown"
    ELSE "running"

\* updateVolumeLiveMigrationProgressStatus
LiveReport(w, p) ==
    LET vm == w.vms[p]
        seen == <<"vmims", p>> \notin w.unread
    IN  IF seen /\ vm.migration = "succeeded" THEN "liveSuccessful"
        ELSE IF seen /\ vm.migration = "running" THEN "liveRunning"
        ELSE IF vm.on = "" THEN ""
        ELSE IF vm.migration = "refused" \/ (seen /\ vm.migration = "failed") THEN "liveFailed"
        ELSE "livePending"

\* RsyncPodProgressTask.Run: the newest pod that is not in the history yet
\* gives the phase; a pod that ended is labelled and joins the history.
ProgressWithout(w, p, unlabelled) ==
    LET ps == w.pods[p]
        read == {i \in DOMAIN ps : ~ps[i].seen /\ i \notin unlabelled}
    IN  [ phase |-> IF read = {} THEN w.dvmp[p] ELSE ps[Max(read)].phase,
          pods |-> [i \in DOMAIN ps |->
                      [ps[i] EXCEPT !.seen = @ \/ (i \in read /\ ps[i].phase \in Terminal)]] ]
Progress(w, p) ==
    IF w.dvmp[p] = "none" THEN [phase |-> "none", pods |-> w.pods[p]]
    ELSE ProgressWithout(w, p, {})

Reported == {"failed", "successful", "skipped", "liveFailed", "liveSuccessful"}

-----------------------------------------------------------------------------
(* What a pass does to the clusters *)

Fade(s, Gone(_)) == [i \in DOMAIN s |-> IF Gone(s[i]) THEN [s[i] EXCEPT !.going = TRUE] ELSE s[i]]

\* findAndDeleteNsResources: the pods whose owner matches are deleted and go when
\* the kubelet lets them, the rest is gone at once.
DeleteListed(w, owners) ==
    [w EXCEPT
        !.pods = [p \in PVCs |-> Fade(w.pods[p], LAMBDA pod : pod.own \in owners)],
        !.servers = [n \in Namespaces |-> [k \in {"fs", "block"} |->
            IF k \in Listed(w, n) THEN [w.servers[n][k] EXCEPT !.state = "going"] ELSE NoServer]],
        !.infra = [n \in Namespaces |->
            [w.infra[n] EXCEPT !.endpoint = "none", !.transport = FALSE]]]

\* deleteRsyncResources goes by the app label, whoever made the pods.
DeleteRsyncResources(w) == DeleteListed(w, BOOLEAN)

NothingListedButServers(w, all) ==   \* mutant: asks for the clients only
    /\ \A p \in PVCs : \A pod \in Live(w.pods[p]) : ~(all \/ pod.own)
    /\ \A n \in Used : w.infra[n].endpoint = "none" /\ ~w.infra[n].transport

\* areRsyncNsResourcesDeleted, for all pods or those of this DVM.
NothingListed(w, all) ==
    /\ \A p \in PVCs : \A pod \in Live(w.pods[p]) : ~(all \/ pod.own)
    /\ \A n \in Used : Listed(w, n) = {} /\ w.infra[n].endpoint = "none" /\ ~w.infra[n].transport

CreateDestinationPVCs(w) ==
    [w EXCEPT !.infra = [n \in Namespaces |-> [w.infra[n] EXCEPT !.targets = @ \/ n \in Used]]]

DeleteStaleVMIMs(w) ==
    [w EXCEPT !.vms = [p \in PVCs |->
        [w.vms[p] EXCEPT !.migration = IF @ = "succeeded" THEN "none" ELSE @]]]

EnsureRsyncEndpoints(w) ==
    [w EXCEPT !.infra = [n \in Namespaces |->
        IF n \in Used /\ w.infra[n].endpoint = "none"
        THEN [w.infra[n] EXCEPT !.endpoint = "made"] ELSE w.infra[n]]]

AreRsyncRoutesAdmitted(w) == \A n \in Used : w.infra[n].endpoint = "admitted"

EnsureStunnelTransport(w) ==
    [w EXCEPT !.infra = [n \in Namespaces |-> [w.infra[n] EXCEPT !.transport = @ \/ n \in Used]]]

CleanupStaleVirtLauncherPods(w) ==
    [w EXCEPT !.vms = [p \in PVCs |-> [w.vms[p] EXCEPT !.stale = {}]]]

\* createPVProgressCR
CreateReports(w) ==
    [w EXCEPT !.dvmp = [p \in PVCs |->
        IF w.dvmp[p] = "none" /\ ~LeftToVM(w, "reports", p) THEN "" ELSE w.dvmp[p]]]

WithServer(w, kind, vols) ==
    [w EXCEPT !.servers = [n \in Namespaces |->
        LET wanted == {p \in vols : plan.ns[p] = n}
        IN  IF wanted # {} /\ w.servers[n][kind].state = "none"
            THEN [w.servers[n] EXCEPT ![kind] = [state |-> "pending", vols |-> wanted]]
            ELSE w.servers[n]]]

Completed(w) == {p \in PVCs : w.dvm.report[p] = "successful"}

EnsureFilesystemServer(w) == WithServer(w, "fs", {p \in PVCs : plan.kind[p] = "fs"})

\* filterCompletedPairs and filterRunningVMs
ForBlockRsync(w, read) ==
    {p \in PVCs : plan.kind[p] = "block" /\ p \notin Completed(w) /\ ~LeftToVM(w, read, p)}

EnsureBlockServer(w) == WithServer(w, "block", ForBlockRsync(w, "servers"))

\* findAndDeleteCompletedRsyncClientPods: the client of a block volume goes
\* once its progress is reported.
Sweep(w) ==
    LET swept == {p \in PVCs : /\ plan.kind[p] = "block"
                               /\ \E pod \in Live(w.pods[p]) : pod.own /\ pod.phase = "Succeeded"}
        seen == [w EXCEPT !.dvm.report = [p \in PVCs |->
                    IF p \in swept /\ RsyncReport(w, p) # "" THEN RsyncReport(w, p)
                    ELSE w.dvm.report[p]]]
    IN  [seen EXCEPT !.pods = [p \in PVCs |->
            IF p \in swept /\ w.dvmp[p] \in {"none", "Succeeded"}
            THEN Fade(w.pods[p], LAMBDA pod : pod.own /\ pod.phase = "Succeeded")
            ELSE w.pods[p]]]

\* deleteOfflineMigrationServerPod and getCompletedBlockRsyncPvSet
ServerDone == {"successful", "failed", "liveRunning", "liveFailed", "liveSuccessful", "livePending"}
DeleteDoneServers(w) ==
    [w EXCEPT !.servers = [n \in Namespaces |->
        IF /\ w.servers[n]["block"].state \in {"pending", "running"}
           /\ \A p \in w.servers[n]["block"].vols : w.dvm.report[p] \in ServerDone
        THEN [w.servers[n] EXCEPT !["block"].state = "going"] ELSE w.servers[n]]]

Client(attempt) == Pod(attempt, TRUE)

Wanted(w, p) == plan.kind[p] = "fs" \/ p \in ForBlockRsync(w, "filter")
MayStart(w, p, last) == plan.kind[p] = "fs" \/ ServersRunning(w, {p}, last)
Retried(pod) == pod.phase = "Failed" /\ pod.attempt < Limit

\* The branches of createRsyncTransferClients for a volume: there is no pod,
\* the latest one failed and is replaced, or it is judged.  broken is when the
\* pod cannot be created.
StartClient(w, p, broken, last) ==
    LET fresh == [w EXCEPT !.dvm.ops[p].attempt = 0]
        reported == IF plan.kind[p] = "block" THEN CreateReports(fresh) ELSE fresh
    IN  CASE ~(Wanted(w, p) /\ MayStart(w, p, last)) -> fresh
          [] Wanted(w, p) /\ MayStart(w, p, last) /\ broken -> reported
          [] OTHER -> [reported EXCEPT !.pods[p] = <<Client(1)>>]

RetryClient(w, p, broken) ==
    LET old == Last(w.pods[p])
        noted == [w EXCEPT !.dvm.ops[p].attempt = old.attempt]
        left == Fade(w.pods[p], LAMBDA pod : pod = old)
    IN  CASE Wanted(w, p) /\ broken -> noted
          [] Wanted(w, p) /\ ~broken ->
               [noted EXCEPT !.pods[p] = Append(left, Client(old.attempt + 1))]
          [] OTHER -> [noted EXCEPT !.pods[p] = left]

\* cancelOfflineMigration: the virtual machine runs again.
Cancellable(pod) == (pod.phase = "Running" /\ ~pod.going) \/ pod.phase = "Succeeded"
CancelClient(w, p) ==
    IF \E pod \in Live(w.pods[p]) : Cancellable(pod)
    THEN [w EXCEPT !.dvmp[p] = "none",
                   !.pods[p] = [i \in DOMAIN w.pods[p] |->
                       [Fade(w.pods[p], Cancellable)[i] EXCEPT !.seen = FALSE]]]
    ELSE w

JudgeClient(w, p) ==
    LET pod == Last(w.pods[p])
        kept == IF /\ plan.kind[p] = "block" /\ p \notin Completed(w)
                   /\ plan.mode = "CutOver" /\ InUse(w, "client", p, "source")
                THEN CancelClient(w, p) ELSE w
    IN  [kept EXCEPT !.dvm.ops[p] =
            [ attempt |-> pod.attempt,
              result |-> IF pod.phase \in Terminal THEN pod.phase ELSE "" ]]

RsyncClient(w, p, broken, last) ==
    CASE w.dvm.ops[p].result # "" -> w
      [] w.dvm.ops[p].result = "" /\ w.pods[p] = <<>> -> StartClient(w, p, broken, last)
      [] w.dvm.ops[p].result = "" /\ w.pods[p] # <<>> ->
            IF Retried(Last(w.pods[p])) THEN RetryClient(w, p, broken) ELSE JudgeClient(w, p)

\* The volumes do not disturb one another.
RsyncClients(w, broken, last) ==
    LET after == [p \in PVCs |-> RsyncClient(w, p, p \in broken, last)]
    IN  [w EXCEPT !.pods = [p \in PVCs |-> after[p].pods[p]],
                  !.dvm.ops = [p \in PVCs |-> after[p].dvm.ops[p]],
                  !.dvmp = [p \in PVCs |->
                      IF \E q \in PVCs : after[q].dvmp[p] # w.dvmp[p]
                      THEN after[CHOOSE q \in PVCs : after[q].dvmp[p] # w.dvmp[p]].dvmp[p]
                      ELSE w.dvmp[p]]]

\* AllCompleted of the list of statuses that createRsyncTransferClients made
\* of w: an operation that was only started counts.
AllCompleted(w, broken, last) ==
    \A p \in PVCs :
        \/ w.dvm.ops[p].result # ""
        \/ w.pods[p] = <<>> /\ ~(p \in broken /\ Wanted(w, p) /\ MayStart(w, p, last))
        \/ /\ w.pods[p] # <<>>
           /\ Last(w.pods[p]).phase \in Terminal
           /\ ~Retried(Last(w.pods[p]))

\* hasAllProgressReportingCompleted: the skipped volumes are forgotten with
\* every namespace but the last one.
ReportOf(w, p, last) ==
    LET skipped == IF plan.ns[p] = last THEN "skipped" ELSE ""
        left == LeftToVM(w, "names", p)
    IN  CASE left /\ plan.mode = "Stage"  -> skipped
          [] left /\ plan.mode # "Stage"  -> LiveReport(w, p)
          [] ~left /\ plan.mode = "Rollback" -> skipped
          [] OTHER -> RsyncReport(w, p)

Report(w, last) == [w EXCEPT !.dvm.report = [p \in PVCs |-> ReportOf(w, p, last)]]
AllReportingCompleted(w) == \A p \in PVCs : w.dvm.report[p] \in Reported

\* updateVM, and what KubeVirt makes of it: a running machine migrates to the
\* volume of its specification; going back aborts the migration.
UpdateVM(vm, to) ==
    CASE vm.at = to -> vm
      [] vm.at # to /\ vm.on = "" -> [vm EXCEPT !.at = to]
      [] vm.at # to /\ vm.on \notin {"", to} -> [vm EXCEPT !.at = to, !.migration = "pending"]
      [] vm.at # to /\ vm.on = to ->
           [vm EXCEPT !.at = to, !.migration = IF @ = "running" THEN "failed" ELSE "none"]

From == IF plan.mode = "Rollback" THEN "target" ELSE "source"
To   == IF plan.mode = "Rollback" THEN "source" ELSE "target"

StartLiveMigrationsAtOnce(w) ==   \* mutant: the servers are not looked at
    [w EXCEPT !.vms = [p \in PVCs |->
        IF plan.live /\ plan.mode # "Stage" /\ InUse(w, "start", p, From)
        THEN UpdateVM(w.vms[p], To) ELSE w.vms[p]]]

\* startLiveMigrations: not while an rsync server mounts the volume.
StartLiveMigrations(w) ==
    LET offline(p) == p \in w.servers[plan.ns[p]]["block"].vols
    IN  [w EXCEPT !.vms = [p \in PVCs |->
            IF plan.live /\ plan.mode # "Stage" /\ InUse(w, "start", p, From) /\ ~offline(p)
            THEN UpdateVM(w.vms[p], To) ELSE w.vms[p]]]

\* processMigrationOperationStatus
AnyMigrationFailed(w) ==
    /\ plan.live /\ plan.mode # "Stage"
    /\ \E p \in PVCs : /\ InUse(w, "verdict", p, "source")
                     /\ w.vms[p].migration \in {"refused", "failed"}

-----------------------------------------------------------------------------
(* The phases.  A handler leaves a world and says how the pass goes on.    *)

Left(w, how) == [world |-> w, how |-> how]
Done(w) == {Left(w, "next")}
IfDone(w, cond) == {Left(w, IF cond THEN "next" ELSE "stay")}

\* reportAdvancedRsyncErrorHeuristics asks the progress reports in some order
\* and stops at the first that is missing or has not failed as the network does.
NetworkVerdicts(w) ==
    {"error" : p \in {q \in PVCs : w.dvmp[q] = "none"}}
    \cup {"other" : p \in {q \in PVCs : w.dvmp[q] # "none"}}
    \cup (IF \A p \in PVCs : w.dvmp[p] = "Failed" THEN {"timeouts"} \cap plan.faults ELSE {})

\* The progress controller reconciles some of the reports meanwhile.
Refresh(w, some) ==
    [w EXCEPT !.dvmp = [p \in PVCs |-> IF p \in some THEN Progress(w, p).phase ELSE w.dvmp[p]],
              !.pods = [p \in PVCs |-> IF p \in some THEN Progress(w, p).pods ELSE w.pods[p]]]
Refreshed(w) ==
    UNION { {Refresh(v, some) : some \in SUBSET {p \in PVCs : Progress(v, p).phase # v.dvmp[p]}}
            : v \in {w} }

\* The end of runRsyncOperations on w, rsynced telling AllCompleted.
Judge(w, rsynced) ==
    LET failing == rsynced /\ plan.mode # "Rollback"
                   /\ \E p \in PVCs : w.dvm.ops[p].result = "Failed"
        how(verdict) ==
            CASE verdict = "error" -> "critical"
              [] verdict # "error" /\ ~(rsynced /\ AllReportingCompleted(w)) -> "stay"
              [] OTHER -> IF failing \/ AnyMigrationFailed(w) THEN "critical" ELSE "next"
    IN  IF failing
        THEN UNION { {Left([v EXCEPT !.dvm.network = @ \/ verdict = "timeouts"], how(verdict))
                        : verdict \in NetworkVerdicts(v)} : v \in Refreshed(w) }
        ELSE {Left(w, how("other"))}

\* runRsyncOperations.  The progress reports are read after the pods, and
\* again when an operation failed; they may have moved on in between.
Serve(w) ==
    DeleteDoneServers(IF plan.live /\ plan.mode = "CutOver" THEN EnsureBlockServer(w) ELSE w)

RunRsyncOperations ==
    LET Broken == IF "pods" \in plan.faults THEN SUBSET PVCs ELSE {{}}
    IN  IF plan.mode = "Rollback"
        THEN UNION { Judge(StartLiveMigrations(Report(w, last)), TRUE)
                        : w \in Refreshed(Sweep(World)), last \in Used }
        ELSE UNION { UNION { Judge(w, AllCompleted(served, broken, last)) :
                        w \in {StartLiveMigrations(Report(r, last)) :
                                  r \in Refreshed(RsyncClients(served, broken, last))} }
                     : served \in {Serve(Sweep(World))}, broken \in Broken, last \in Used }

Handler(phase) ==
    CASE phase \in {"CleanStaleRsyncResources", "DeleteRsyncResources"} ->
           Done(DeleteRsyncResources(World))
      [] phase \in {"WaitForStaleRsyncResourcesTerminated", "WaitForRsyncResourcesTerminated"} ->
           IfDone(World, NothingListed(World, TRUE))
      [] phase = "CreateDestinationPVCs" ->
           Done(CreateDestinationPVCs(World))
      [] phase = "DeleteStaleVirtualMachineInstanceMigrations" ->
           Done(DeleteStaleVMIMs(World))
      [] phase = "CreateRsyncRoute" -> Done(EnsureRsyncEndpoints(World))
      [] phase = "EnsureRsyncRouteAdmitted" -> IfDone(World, AreRsyncRoutesAdmitted(World))
      [] phase = "CreateStunnelConfig" -> Done(EnsureStunnelTransport(World))
      [] phase = "CreatePVProgressCRs" -> Done(CreateReports(World))
      [] phase = "CreateRsyncTransferPods" ->
           Done(EnsureBlockServer(EnsureFilesystemServer(World)))
      [] phase = "WaitForRsyncTransferPodsRunning" ->
           UNION {IfDone(World, ServersRunning(World, {}, last)) : last \in Used}
      [] phase = "RunRsyncOperations" -> RunRsyncOperations
      [] phase = "CleanupStaleVirtHandlerPods" ->
           Done(CleanupStaleVirtLauncherPods(World))
      [] OTHER -> Done(World)

-----------------------------------------------------------------------------
(* The reconcile pass *)

Blocked == dvm.failed = "Critical" \/ dvm.network

\* What a pass leaves on the clusters, and the DVM as d.
Effects(w) ==
    /\ pods' = w.pods
    /\ dvmp' = w.dvmp
    /\ infra' = w.infra
    /\ servers' = w.servers
    /\ vms' = w.vms
    /\ unread' = {}
    /\ UNCHANGED <<plan, copied, missed>>

\* The status migrate writes for a handler that went on as how.
Result(d, how) ==
    LET phase == CASE how = "next" -> NextPhase(ItineraryOf(dvm), PhaseOf(dvm))
                   [] how = "stay" -> PhaseOf(dvm)
                   [] how \in {"warn", "critical"} -> "MigrationFailed"
    IN  [d EXCEPT !.finalizer = TRUE, !.phase = phase, !.itinerary = ItineraryOf(dvm),
                  !.failed = CASE how = "critical" -> "Critical"
                               [] how = "warn" -> "Warn"
                               [] OTHER -> @,
                  !.succeeded = @ \/ (phase = "Completed" /\ d.failed = "")]

Migrating == dvm.there = "yes" /\ dvm.phase # "Completed" /\ ~Blocked

Pass ==
    /\ Migrating
    /\ \E r \in Handler(PhaseOf(dvm)) :
          Effects(r.world) /\ dvm' = Result(r.world.dvm, r.how)
    /\ UNCHANGED faults

\* The update of the DVM conflicts or fails.
PassLost ==
    /\ Migrating
    /\ Spend("lost")
    /\ \E r \in Handler(PhaseOf(dvm)) : Effects(r.world)
    /\ UNCHANGED dvm

\* A handler may fail before or after what it does.
Partial == {World} \cup {r.world : r \in Handler(PhaseOf(dvm))}

PassFails ==
    /\ Migrating
    /\ Spend("error")
    /\ \E w \in Partial :
          /\ Effects(w)
          /\ dvm' = Result(w.dvm, IF PhaseOf(dvm) \in {"RunRsyncOperations", "VerifyVMs"}
                                  THEN "critical" ELSE "warn")

PassConflicts ==
    /\ Migrating
    /\ PhaseOf(dvm) \notin {"RunRsyncOperations", "VerifyVMs"}
    /\ Spend("conflict")
    /\ \E w \in Partial : Effects(w) /\ dvm' = [w.dvm EXCEPT !.finalizer = TRUE]

\* A cluster is not ready, or the DVM is blocked: it only gets its finalizer.
PassBlocked ==
    /\ dvm.there = "yes" /\ dvm.phase # "Completed"
    /\ \/ Blocked /\ UNCHANGED faults
       \/ Spend("blocked")
    /\ dvm' = [dvm EXCEPT !.finalizer = TRUE]
    /\ UNCHANGED <<plan, clusters, dvmp, lists>>

\* cancelLiveMigrations
CancelLive(w) ==
    IF plan.live /\ plan.mode = "CutOver"
    THEN [w EXCEPT !.vms = [p \in PVCs |->
            IF InUse(w, "cancel", p, "source")
            THEN UpdateVM(w.vms[p], "source") ELSE w.vms[p]]]
    ELSE w

LiveCancelled(w) ==
    plan.live /\ plan.mode = "CutOver" =>
        \A p \in PVCs : InUse(w, "cancel", p, "source") => w.vms[p].migration \in {"none", "succeeded"}

\* by the UID label of this DVM
Ours == {TRUE}

\* The DVM is gone once its finalizer is, and its progress reports with it.
Vanish ==
    /\ dvm' = [dvm EXCEPT !.there = "gone", !.finalizer = FALSE]
    /\ dvmp' = [p \in PVCs |-> "none"]

Cleanup ==
    /\ dvm.there = "deleting"
    /\ LET w == DeleteListed(CancelLive(World), Ours)
       IN  /\ pods' = w.pods /\ infra' = w.infra /\ servers' = w.servers /\ vms' = w.vms
           /\ IF LiveCancelled(w) /\ NothingListed(w, FALSE) THEN Vanish
              ELSE UNCHANGED <<dvm, dvmp>>
    /\ unread' = {}
    /\ UNCHANGED <<plan, copied, faults, missed>>

\* The lists a pass makes in its phase.
ReadsOfPass ==
    CASE PhaseOf(dvm) = "CreatePVProgressCRs" -> {"reports"}
      [] PhaseOf(dvm) = "CreateRsyncTransferPods" -> {"servers"}
      [] PhaseOf(dvm) = "WaitForRsyncTransferPodsRunning" -> {"offline"}
      [] PhaseOf(dvm) = "RunRsyncOperations" -> Reads \ {"cancel"}
      [] OTHER -> {}

\* One of them will fail, for the namespace of p or only for p.
ListFails(p) ==
    /\ \E q \in PVCs : plan.ns[q] = plan.ns[p] /\ (vms[q].on # "" \/ vms[q].stale # {})
    /\ Spend("list")
    /\ \E read \in (IF Migrating THEN ReadsOfPass ELSE {})
                    \cup (IF dvm.there = "deleting" THEN {"cancel"} ELSE {}) :
          LET hit == {q \in PVCs : IF read \in OfClients THEN q = p ELSE plan.ns[q] = plan.ns[p]}
          IN  /\ unread' = unread \cup ({read} \X hit)
              /\ missed' = missed \cup ({read} \X hit)
    /\ UNCHANGED <<plan, dvm, dvmp, clusters>>

-----------------------------------------------------------------------------
(* The rest of the world *)

Delete ==
    /\ dvm.there = "yes"
    /\ Spend("delete")
    /\ IF dvm.finalizer THEN dvm' = [dvm EXCEPT !.there = "deleting"] /\ UNCHANGED dvmp ELSE Vanish
    /\ UNCHANGED <<plan, clusters, lists>>

ReportProgress(p) ==
    /\ dvmp[p] # "none"
    /\ dvmp' = [dvmp EXCEPT ![p] = Progress(World, p).phase]
    /\ pods' = [pods EXCEPT ![p] = Progress(World, p).pods]
    /\ UNCHANGED <<plan, dvm, infra, servers, vms, copied, faults, lists>>

\* addDVMPDoneLabel fails: the pod is passed over this time.
ReportUnlabelled(p) ==
    /\ dvmp[p] # "none"
    /\ Spend("label")
    /\ \E i \in DOMAIN pods[p] :
          /\ pods[p][i].phase \in Terminal
          /\ dvmp' = [dvmp EXCEPT ![p] = ProgressWithout(World, p, {i}).phase]
          /\ pods' = [pods EXCEPT ![p] = ProgressWithout(World, p, {i}).pods]
    /\ UNCHANGED <<plan, dvm, infra, servers, vms, copied, lists>>

Served(p) ==
    LET server == servers[plan.ns[p]][plan.kind[p]]
    IN  server.state = "running" /\ p \in server.vols /\ infra[plan.ns[p]].transport

SetPod(p, i, phase) == pods' = [pods EXCEPT ![p][i].phase = phase]

PodRuns(p) ==
    /\ \E i \in DOMAIN pods[p] :
          pods[p][i].phase = "Pending" /\ ~pods[p][i].going /\ SetPod(p, i, "Running")
    /\ UNCHANGED <<plan, dvm, dvmp, infra, servers, vms, copied, faults, lists>>

PodEnds(p) ==
    /\ \E i \in DOMAIN pods[p] :
          /\ pods[p][i].phase = "Running" /\ ~pods[p][i].going
          /\ \/ Served(p) /\ SetPod(p, i, "Succeeded") /\ UNCHANGED faults
                /\ copied' = IF pods[p][i].own THEN copied \cup {p} ELSE copied
             \/ ~Served(p) /\ SetPod(p, i, "Failed") /\ UNCHANGED <<faults, copied>>
             \/ Spend("pod") /\ SetPod(p, i, "Failed") /\ UNCHANGED copied
    /\ UNCHANGED <<plan, dvm, dvmp, infra, servers, vms, lists>>

PodGone(p) ==
    /\ \E i \in DOMAIN pods[p] :
          /\ \/ pods[p][i].going /\ UNCHANGED faults
             \/ ~pods[p][i].going /\ Spend("evict")
          /\ pods' = [pods EXCEPT ![p] = RemoveAt(@, i)]
    /\ UNCHANGED <<plan, dvm, dvmp, infra, servers, vms, copied, lists>>

ServerMoves(n, k) ==
    /\ servers[n][k].state \in {"pending", "going"}
    /\ servers[n][k].state = "pending" => infra[n].targets
    /\ servers' = [servers EXCEPT ![n][k] =
          IF @.state = "pending" THEN [@ EXCEPT !.state = "running"] ELSE NoServer]
    /\ UNCHANGED <<plan, dvm, dvmp, pods, infra, vms, copied, faults, lists>>

Admit(n) ==
    /\ infra[n].endpoint = "made"
    /\ infra' = [infra EXCEPT ![n].endpoint = "admitted"]
    /\ UNCHANGED <<plan, dvm, dvmp, pods, servers, vms, copied, faults, lists>>

\* KubeVirt migrates a running machine to the volume of its specification.
KubeVirt(p) ==
    LET vm == vms[p] IN
    /\ \/ /\ vm.migration = "pending"
          /\ \/ vms' = [vms EXCEPT ![p].migration = "running"] /\ UNCHANGED faults
             \/ vms' = [vms EXCEPT ![p].migration = "refused"] /\ Spend("vm")
          /\ UNCHANGED copied
       \/ /\ vm.migration = "running"
          /\ \/ /\ vms' = [vms EXCEPT ![p].on = vm.at, ![p].stale = @ \cup {vm.on},
                                      ![p].migration = "succeeded"]
                /\ copied' = IF vm.at = "target" THEN copied \cup {p} ELSE copied
                /\ UNCHANGED faults
             \/ /\ vms' = [vms EXCEPT ![p].migration = "failed"]
                /\ Spend("vm")
                /\ UNCHANGED copied
    /\ UNCHANGED <<plan, dvm, dvmp, pods, infra, servers, lists>>

\* A user stops a machine: its pods go, a migration under way fails.  KubeVirt
\* does not start a machine whose migration was cut off.
StopVM(p) ==
    /\ vms[p].on # ""
    /\ Spend("stop")
    /\ vms' = [vms EXCEPT ![p].on = "", ![p].stale = {},
                          ![p].migration = IF @ \in {"none", "succeeded"} THEN @ ELSE "failed"]
    /\ UNCHANGED <<plan, dvm, dvmp, pods, infra, servers, copied, lists>>

StartVM(p) ==
    /\ plan.vm[p] # "none" /\ vms[p].on = "" /\ vms[p].migration # "failed"
    /\ Spend("start")
    /\ vms' = [vms EXCEPT ![p].on = vms[p].at]
    /\ UNCHANGED <<plan, dvm, dvmp, pods, infra, servers, copied, lists>>

Controllers == \/ Pass \/ PassLost \/ PassFails \/ PassConflicts \/ PassBlocked \/ Cleanup
               \/ \E p \in PVCs : ReportProgress(p) \/ ReportUnlabelled(p)

Clusters ==
    \/ \E p \in PVCs : PodRuns(p) \/ PodEnds(p) \/ PodGone(p) \/ KubeVirt(p) \/ ListFails(p)
    \/ \E n \in Namespaces : Admit(n) \/ \E k \in {"fs", "block"} : ServerMoves(n, k)

Users == Delete \/ \E p \in PVCs : StopVM(p) \/ StartVM(p)

Next == Controllers \/ Clusters \/ Users

Spec == Init /\ [][Next]_vars

\* WF_vars(Pass) and WF_vars(ReportProgress(p)), with ENABLED written out: a
\* pass in a phase that does not wait changes the phase, another one if some
\* outcome of its handler changes something.  Only passes write a DVM that is
\* not being deleted.
Waits ==
    {"WaitForStaleRsyncResourcesTerminated", "WaitForRsyncResourcesTerminated",
     "EnsureRsyncRouteAdmitted", "WaitForRsyncTransferPodsRunning", "RunRsyncOperations"}
PassMoves ==
    /\ Migrating
    /\ PhaseOf(dvm) \in Waits /\ unread = {} =>
          \E r \in Handler(PhaseOf(dvm)) :
             Result(r.world.dvm, r.how) # dvm \/ [r.world EXCEPT !.dvm = dvm] # World
Passes ==
    /\ UNCHANGED <<copied, faults>>
    /\ IF dvm' # dvm THEN dvm.there = "yes" ELSE World' # World /\ Pass
FairPasses == []<><<Passes>>_vars \/ []<>~PassMoves

ReportMoves(p) ==
    /\ dvmp[p] # "none"
    /\ dvmp[p] # Progress(World, p).phase \/ pods[p] # Progress(World, p).pods
FairReport(p) == []<><<ReportProgress(p)>>_vars \/ []<>~ReportMoves(p)

\* The work queue runs a pass again until it has nothing to do; pods, routes
\* and migrations move on by themselves.
FairSpec ==
    /\ Spec
    /\ FairPasses /\ WF_vars(Cleanup)
    /\ \A p \in PVCs : FairReport(p) /\ WF_vars(PodRuns(p)) /\ WF_vars(PodEnds(p))
                       /\ WF_vars(PodGone(p)) /\ WF_vars(KubeVirt(p))
    /\ \A n \in Namespaces : WF_vars(Admit(n))
                       /\ \A k \in {"fs", "block"} : WF_vars(ServerMoves(n, k))

-----------------------------------------------------------------------------
(* Properties *)

\* A DVM that reports success has moved every volume, by rsync or with its
\* virtual machine, or it was a stage run and says that it skipped the volume
\* (migrate sets Succeeded from the phase alone, rsync.go decides the phase
\* from pods, reports and operations that are read one after the other).
\* Excepted is a machine whose failed migration was not seen because the list of
\* its pods failed unnoticed when the migrations were judged.
SuccessMeansCopied ==
    dvm.succeeded /\ plan.mode # "Rollback" =>
        \A p \in PVCs : \/ p \in copied
                        \/ plan.mode = "Stage" /\ dvm.report[p] = "skipped"
                        \/ <<"verdict", p>> \in missed

\* When the finalizer lets the DVM go, none of the pods, servers, endpoints
\* and transports it made are left on the clusters
\* (directvolumemigration_controller.go, the branch of DeletionTimestamp).
FinalizerGuards ==
    dvm.there = "gone" =>
        /\ \A p \in PVCs : \A pod \in Live(pods[p]) : ~pod.own
        /\ \A n \in Namespaces : /\ infra[n].endpoint = "none" /\ ~infra[n].transport
                                 /\ Listed(World, n) = {}

\* No two of them write a target volume: an rsync server that mounts it and a
\* virtual machine that migrates to it or runs on it (currentOfflineMigration
\* and filterRunningVMs, which ask at different moments of a pass).  Excepted are
\* a machine that was stopped after it had moved, see MovedOnce, and one that
\* was not seen when the servers were made because the list of its pods failed
\* unnoticed; one that any other list misses makes no difference.
OneWriter ==
    \A p \in PVCs :
        p \in servers[plan.ns[p]]["block"].vols /\ <<"servers", p>> \notin missed =>
            /\ vms[p].migration # "running"
            /\ vms[p].on = "target" => "stop" \in plan.faults /\ p \in copied

\* A virtual machine that a successful DVM moved stays where it is, also when
\* the DVM is deleted, which moves back what still uses the source
\* (cancelLiveMigrations goes by virt-launcher pods, running or not).  One that
\* was missed when the success was decided may still be on its way.
SuccessIsKept ==
    dvm.succeeded /\ plan.mode = "CutOver" =>
        \A p \in PVCs : vms[p].at = "target" =>
            \/ vms'[p].at = "target"
            \/ {<<"names", p>>, <<"verdict", p>>} \cap missed # {}

\* A success is true and lasts: what it says was moved has been moved, and
\* stays with its machine whatever happens to the DVM later.
SuccessHolds == [][SuccessMeansCopied' /\ SuccessIsKept]_vars

\* A DVM deleted before it succeeded leaves no machine on its target volume, but
\* for one that has moved and whose old virt-launcher pod is gone, by which
\* cancelLiveMigrations goes: the machine was stopped, or the DVM had come to
\* its last phase or failed there.  And for one that cancelLiveMigrations missed
\* because the list of its pods failed unnoticed.
CancelBringsBack ==
    dvm.there = "gone" /\ ~dvm.succeeded /\ plan.mode = "CutOver" =>
        \A p \in PVCs : vms[p].on = "target" =>
            /\ p \in copied
            /\ \/ "stop" \in plan.faults
               \/ <<"cancel", p>> \in missed
               \/ dvm.failed = "Warn" \/ dvm.phase = "CleanupStaleVirtHandlerPods"

\* A DVM that is gone has left nothing behind, on the clusters or in a machine.
GoneIsClean == FinalizerGuards /\ CancelBringsBack

\* A volume that moved with its virtual machine is not copied by rsync as well:
\* what runs on the target is newer than the source (filterCompletedPairs,
\* "Return only PVCPairs that are NOT completed yet").
MovedOnce ==
    [][\A p \in PVCs : p \in copied /\ vms[p].at = "target" =>
           Len(pods'[p]) <= Len(pods[p])]_vars

\* A DVM completes, or fails, or is deleted; a deleted one is gone at last.
\* Three cases never end: a stage run whose virtual machine is stopped after
\* the rsync servers were made, as only a cut-over makes servers later; a client
\* pod that is gone before its end was reported; the deletion of a DVM with a
\* live migration that failed or was refused, which liveMigrationsCompleted waits
\* to succeed.
Ended == dvm.phase = "Completed" \/ dvm.failed = "Critical"
Unserved ==
    plan.mode = "Stage" /\ \E p \in PVCs : plan.vm[p] = "on" /\ vms[p].on = ""
Unreported ==
    \E p \in PVCs : dvm.ops[p].result # "" /\ pods[p] = <<>> /\ dvmp[p] \notin Terminal
MigrationStuck == \E p \in PVCs : vms[p].migration \in {"failed", "refused"}
Ends == /\ dvm.there = "yes" ~> (Ended \/ dvm.there # "yes" \/ Unserved \/ Unreported)
        /\ dvm.there = "deleting" ~> (dvm.there = "gone" \/ MigrationStuck)
=============================================================================

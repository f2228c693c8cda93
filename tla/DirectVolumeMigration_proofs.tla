------------------------- MODULE DirectVolumeMigration_proofs -------------------------
(***************************************************************************)
(* What holds of a DirectVolumeMigration for any volumes, plans, backoff   *)
(* limit and number of faults: who writes a volume, that success means     *)
(* what it says, and that a DVM that is gone is clean.                     *)
(***************************************************************************)
EXTENDS DirectVolumeMigration, WellFoundedInduction, SequenceTheorems, TLAPS

(* The invariant is stated of a world `w', the copied volumes `C' and the  *)
(* plan `P', so that the lemmas apply to every world in the course of a    *)
(* pass.                                                                   *)

Progresses == {"none", ""} \cup PodPhases

Unsettled == {"pending", "running", "refused"}

\* A machine that does not run is not being migrated.
Engines == {v \in Machines : v.on = "" => v.migration \notin Unsettled}

\* The lists of pods that fail in a pass are among those that have failed.
Worlds ==
    {w \in [ pods : [PVCs -> Seq(ClientPods)], dvmp : [PVCs -> Progresses],
             infra : [Namespaces -> Infras],
             servers : [Namespaces -> [{"fs", "block"} -> Servers]],
             vms : [PVCs -> Engines], dvm : DVMs,
             unread : SUBSET (Reads \X PVCs), missed : SUBSET (Reads \X PVCs) ] :
        w.unread \subseteq w.missed}

\* None of these lists of the pods of p has failed.
Heard(w, reads, p) == \A read \in reads : <<read, p>> \notin w.missed

\* What became of its machine was seen when the success was decided.
Followed(w, p) == Heard(w, {"names", "verdict"}, p)

Forth(P) == P.mode # "Rollback"
Stops(P) == "stop" \in P.faults

\* Only pods of this DVM.
Own(s) == \A i \in DOMAIN s : s[i].own

\* The pods of a volume and the phase in its report: a report is made when the
\* pods of earlier DVMs are gone, and success is true.
PodsFit(s, progress, p, C) ==
    /\ \A i \in DOMAIN s : s[i].own /\ s[i].phase = "Succeeded" => p \in C
    /\ progress # "none" => Own(s)
    /\ progress = "Succeeded" => p \in C

\* A machine under a DVM that moves data forth.
MachineFit(v, p, C, P) ==
    /\ v.on = "" => v.stale = {}
    /\ v.migration \in Unsettled => v.on # v.at
    /\ v.on \notin {"", v.at} => v.migration \notin {"none", "succeeded"}
    /\ v.migration = "succeeded" => p \in C
    /\ v.at = "target" /\ v.migration \in {"none", "succeeded"} => p \in C
    /\ v.on = "target" => p \in C
    /\ ~P.live \/ P.mode = "Stage" =>
          v.migration = "none" /\ v.at = "source" /\ v.on # "target" /\ v.stale = {}
    /\ v.on = "" /\ ~Stops(P) => v.at = "source"

\* Nobody has asked it to move.
Untouched(v) == v.at = "source" => v.migration = "none" /\ v.on # "target" /\ v.stale = {}

\* It is asked to move, and has not.
Torn(v) == v.at = "target" /\ v.on = "source"

\* The last phase has been entered, or the DVM failed.
Swept(d) == d.failed = "Warn" \/ d.phase \in {"CleanupStaleVirtHandlerPods", "Completed"}

\* A machine on its target has its old virt-launcher pod on the source still.
Launched(v, d, P) == v.on = "target" => Stops(P) \/ "source" \in v.stale \/ Swept(d)

\* All the data has been moved.
Moved(d) ==
    \/ d.succeeded
    \/ /\ d.failed = ""
       /\ d.phase \in {"DeleteRsyncResources", "WaitForRsyncResourcesTerminated",
                       "CleanupStaleVirtHandlerPods", "Completed"}

MachinesFit(w, C, P) ==
    Forth(P) =>
        \A p \in PVCs :
            /\ MachineFit(w.vms[p], p, C, P)
            /\ w.dvm.there = "yes" \/ (w.dvm.succeeded /\ Followed(w, p)) => Untouched(w.vms[p])
            /\ Launched(w.vms[p], w.dvm, P)
            /\ Moved(w.dvm) /\ Followed(w, p) => ~Torn(w.vms[p])
            /\ w.dvm.succeeded /\ Followed(w, p) => w.vms[p].stale = {}

\* A machine whose volume an rsync server mounts.
Aside(v, P) ==
    /\ Forth(P)
    /\ v.migration \notin Unsettled
    /\ v.at = "target" => v.on # "source" /\ "source" \notin v.stale
    /\ v.on = "target" => Stops(P)

UsedBy(P) == {P.ns[p] : p \in PVCs}

ServersFit(w, P) ==
    /\ \A n \in Namespaces \ UsedBy(P) : \A k \in {"fs", "block"} : w.servers[n][k].state = "none"
    /\ \A p \in PVCs :
          p \in w.servers[P.ns[p]]["block"].vols /\ Heard(w, {"servers"}, p) => Aside(w.vms[p], P)

Itinerary(P) == IF P.mode = "Rollback" THEN "VolumeMigrationRollback" ELSE "VolumeMigration"

\* The phases after WaitForStaleRsyncResourcesTerminated.
Late ==
    {"VerifyVMs", "CreateDestinationNamespaces", "DestinationNamespacesCreated",
     "CreateDestinationPVCs", "DeleteStaleVirtualMachineInstanceMigrations",
     "CreateRsyncRoute", "EnsureRsyncRouteAdmitted", "CreateRsyncConfig",
     "CreateStunnelConfig", "CreatePVProgressCRs", "CreateRsyncTransferPods",
     "WaitForRsyncTransferPodsRunning", "RunRsyncOperations",
     "DeleteRsyncResources", "WaitForRsyncResourcesTerminated",
     "CleanupStaleVirtHandlerPods", "Completed"}

\* The phase, the itinerary and the verdict go together.
StatusFit(d, P) ==
    /\ d.itinerary = "" <=> d.phase = ""
    /\ d.failed = "" /\ d.itinerary # "" =>
          d.itinerary = Itinerary(P) /\ d.phase \in ElementsOf(StepsOf(d.itinerary))
    /\ d.failed # "" => d.phase \in {"MigrationFailed", "Completed"}
    /\ d.phase = "Completed" => d.succeeded \/ d.failed = "Warn"
    /\ d.succeeded => d.phase = "Completed" /\ d.failed = ""

Told(p, w, d, C, P) ==
    Heard(w, {"verdict"}, p) => p \in C \/ (P.mode = "Stage" /\ d.report[p] = "skipped")

PhasesFit(w, C, P) ==
    /\ Forth(P) /\ w.dvm.failed = "" /\ w.dvm.phase \in Late => \A p \in PVCs : Own(w.pods[p])
    /\ Forth(P) /\ Moved(w.dvm) => \A p \in PVCs : Told(p, w, w.dvm, C, P)

\* Nothing of the DVM is left on the clusters.
Clear(w) ==
    /\ \A p \in PVCs : \A i \in DOMAIN w.pods[p] : ~w.pods[p][i].own
    /\ \A n \in Namespaces : /\ w.infra[n].endpoint = "none" /\ ~w.infra[n].transport
                             /\ \A k \in {"fs", "block"} : w.servers[n][k].state = "none"

AtSource(v) == v.at = "source" /\ v.on # "target"

CleanFit(w, P) ==
    /\ w.dvm.there = "yes" /\ ~w.dvm.finalizer =>
          /\ w.dvm.phase = "" /\ w.dvm.itinerary = "" /\ w.dvm.failed = "" /\ ~w.dvm.succeeded
          /\ Clear(w)
          /\ Forth(P) => \A p \in PVCs : AtSource(w.vms[p])
    /\ w.dvm.there = "gone" => Clear(w)
    /\ /\ w.dvm.there = "gone" /\ P.mode = "CutOver" /\ ~w.dvm.succeeded
       /\ ~Stops(P) /\ ~Swept(w.dvm)
       => \A p \in PVCs : Heard(w, {"cancel"}, p) => AtSource(w.vms[p])

Sound(w, C, P) ==
    /\ w \in Worlds /\ C \subseteq PVCs
    /\ \A p \in PVCs : PodsFit(w.pods[p], w.dvmp[p], p, C)
    /\ MachinesFit(w, C, P)
    /\ ServersFit(w, P)
    /\ StatusFit(w.dvm, P)
    /\ PhasesFit(w, C, P)
    /\ CleanFit(w, P)

IInv ==
    /\ plan \in Plans
    /\ faults \in 0..plan.max
    /\ Sound(World, copied, plan)

-----------------------------------------------------------------------------
(* Sequences *)

\* Pairs of numbers, the smaller one first.
More == {pair \in Nat \X Nat : pair[1] < pair[2]}

\* A set of indices that is not empty has a greatest one (Max picks it).
LEMMA Greatest ==
    ASSUME NEW n \in Nat, NEW S \in SUBSET (1..n), S # {}
    PROVE  Max(S) \in S
<1> DEFINE gaps == {n - x : x \in S}
<1>1. gaps \in SUBSET Nat /\ gaps # {}
  <2>1. \A x \in S : n - x \in Nat
    OBVIOUS
  <2>2. PICK x \in S : TRUE
    OBVIOUS
  <2> QED BY <2>1, <2>2
<1>2. IsWellFoundedOn(More, Nat)
  BY NatLessThanWellFounded DEF OpToRel, More
<1> HIDE DEF gaps
<1>3. PICK g \in gaps : \A h \in gaps : <<h, g>> \notin More
  BY <1>1, <1>2, WFMin
<1>4. ASSUME NEW h \in gaps PROVE h >= g
  <2>1. <<h, g>> \in Nat \X Nat /\ h \in Nat /\ g \in Nat
    BY <1>1
  <2>2. <<h, g>>[1] = h /\ <<h, g>>[2] = g
    OBVIOUS
  <2>3. ~(h < g)
    BY <1>3, <2>1, <2>2 DEF More
  <2> QED BY <2>1, <2>3
<1>5. PICK x \in S : g = n - x
  BY <1>3 DEF gaps
<1>6. \A y \in S : n - y \in gaps
  BY DEF gaps
<1>7. \A y \in S : x >= y
  BY <1>4, <1>5, <1>6
<1> QED BY <1>7 DEF Max

\* What maps a list of pods gives a list of pods.
LEMMA Mapped ==
    ASSUME NEW S, NEW T, NEW s \in Seq(S), NEW t, t = [i \in DOMAIN s |-> t[i]],
           \A i \in DOMAIN s : t[i] \in T
    PROVE  t \in Seq(T)
<1>1. Len(s) \in Nat /\ DOMAIN s = 1..Len(s)
  BY LenProperties
<1> QED BY <1>1

\* What is appended to a list is its last element, the rest stays.
LEMMA Appended ==
    ASSUME NEW S, NEW s \in Seq(S), NEW e \in S
    PROVE  /\ Append(s, e) \in Seq(S)
           /\ \A i \in DOMAIN Append(s, e) :
                 Append(s, e)[i] = e \/ (i \in DOMAIN s /\ Append(s, e)[i] = s[i])
OBVIOUS

\* What is left of a list when an element is removed was in it before.
LEMMA Removed ==
    ASSUME NEW S, NEW s \in Seq(S), NEW i \in DOMAIN s
    PROVE  /\ RemoveAt(s, i) \in Seq(S)
           /\ \A j \in DOMAIN RemoveAt(s, i) : \E k \in DOMAIN s : RemoveAt(s, i)[j] = s[k]
<1> DEFINE front == SubSeq(s, 1, i - 1)
           back == SubSeq(s, i + 1, Len(s))
<1>1. Len(s) \in Nat /\ DOMAIN s = 1..Len(s) /\ i \in 1..Len(s)
  BY LenProperties
<1>2. /\ front \in Seq(S) /\ Len(front) = i - 1
      /\ \A j \in 1..(i - 1) : front[j] = s[j]
  BY <1>1
<1>3. /\ back \in Seq(S) /\ Len(back) = Len(s) - i
      /\ \A j \in 1..(Len(s) - i) : back[j] = s[i + j]
  BY <1>1
<1>4. RemoveAt(s, i) = front \o back
  BY DEF RemoveAt
<1> HIDE DEF front, back
<1>5. /\ front \o back \in Seq(S)
      /\ \A j \in DOMAIN (front \o back) :
            (front \o back)[j] = IF j <= Len(front) THEN front[j] ELSE back[j - Len(front)]
      /\ DOMAIN (front \o back) = 1..(Len(front) + Len(back))
  BY <1>2, <1>3, ConcatProperties, LenProperties
<1>6. ASSUME NEW j \in DOMAIN (front \o back)
      PROVE  \E k \in DOMAIN s : (front \o back)[j] = s[k]
  <2>1. CASE j <= Len(front)
    <3>1. j \in 1..(i - 1) /\ j \in DOMAIN s
      BY <1>1, <1>2, <1>3, <1>5, <2>1
    <3> QED BY <1>2, <1>5, <2>1, <3>1
  <2>2. CASE ~(j <= Len(front))
    <3>1. /\ Len(s) \in Nat /\ i \in 1..Len(s) /\ Len(front) = i - 1
          /\ j \in 1..((i - 1) + (Len(s) - i)) /\ ~(j <= i - 1)
      BY <1>1, <1>2, <1>3, <1>5, <2>2
    <3>2. j - Len(front) \in 1..(Len(s) - i) /\ i + (j - Len(front)) \in 1..Len(s)
      BY <3>1
    <3> QED BY <1>1, <1>3, <1>5, <2>2, <3>2
  <2> QED BY <2>1, <2>2
<1> QED BY <1>4, <1>5, <1>6

\* The last element of a list that is not empty is an element of it.
LEMMA LastIn ==
    ASSUME NEW S, NEW s \in Seq(S), s # <<>>
    PROVE  Len(s) \in DOMAIN s /\ Last(s) = s[Len(s)] /\ Last(s) \in S
<1>1. Len(s) \in Nat \ {0} /\ DOMAIN s = 1..Len(s)
  BY EmptySeq, LenProperties
<1> QED BY <1>1 DEF Last

-----------------------------------------------------------------------------
(* Itineraries *)

\* The phases after RunRsyncOperations.
After ==
    {"DeleteRsyncResources", "WaitForRsyncResourcesTerminated",
     "CleanupStaleVirtHandlerPods", "Completed"}

\* What the phase `q' that follows `p' says of it.
Follows(p, q) ==
    /\ q # ""
    /\ q \in Late => p \in Late \/ p = "WaitForStaleRsyncResourcesTerminated"
    /\ q \in After => p \in After \/ p = "RunRsyncOperations"
    /\ q = "Completed" <=> p = "CleanupStaleVirtHandlerPods"

\* The way forth, row by row.
LEMMA ForthRows ==
    /\ DOMAIN VolumeMigration = 1..22
    /\ VolumeMigration[1] = "Created"
    /\ VolumeMigration[2] = "Started"
    /\ VolumeMigration[3] = "Prepare"
    /\ VolumeMigration[4] = "CleanStaleRsyncResources"
    /\ VolumeMigration[5] = "WaitForStaleRsyncResourcesTerminated"
    /\ VolumeMigration[6] = "VerifyVMs"
    /\ VolumeMigration[7] = "CreateDestinationNamespaces"
    /\ VolumeMigration[8] = "DestinationNamespacesCreated"
    /\ VolumeMigration[9] = "CreateDestinationPVCs"
    /\ VolumeMigration[10] = "DeleteStaleVirtualMachineInstanceMigrations"
    /\ VolumeMigration[11] = "CreateRsyncRoute"
    /\ VolumeMigration[12] = "EnsureRsyncRouteAdmitted"
    /\ VolumeMigration[13] = "CreateRsyncConfig"
    /\ VolumeMigration[14] = "CreateStunnelConfig"
    /\ VolumeMigration[15] = "CreatePVProgressCRs"
    /\ VolumeMigration[16] = "CreateRsyncTransferPods"
    /\ VolumeMigration[17] = "WaitForRsyncTransferPodsRunning"
    /\ VolumeMigration[18] = "RunRsyncOperations"
    /\ VolumeMigration[19] = "DeleteRsyncResources"
    /\ VolumeMigration[20] = "WaitForRsyncResourcesTerminated"
    /\ VolumeMigration[21] = "CleanupStaleVirtHandlerPods"
    /\ VolumeMigration[22] = "Completed"
BY SMTT(60) DEF VolumeMigration

\* Every phase of the way forth has the phase before it that it needs.
LEMMA ForthFollows ==
    ASSUME NEW i \in 2..22
    PROVE  Follows(VolumeMigration[i - 1], VolumeMigration[i])
<1>1. /\ Follows("Created", "Started")
      /\ Follows("Started", "Prepare")
      /\ Follows("Prepare", "CleanStaleRsyncResources")
      /\ Follows("CleanStaleRsyncResources", "WaitForStaleRsyncResourcesTerminated")
      /\ Follows("WaitForStaleRsyncResourcesTerminated", "VerifyVMs")
  BY DEF Follows, Late, After
<1>2. /\ Follows("VerifyVMs", "CreateDestinationNamespaces")
      /\ Follows("CreateDestinationNamespaces", "DestinationNamespacesCreated")
      /\ Follows("DestinationNamespacesCreated", "CreateDestinationPVCs")
      /\ Follows("CreateDestinationPVCs", "DeleteStaleVirtualMachineInstanceMigrations")
      /\ Follows("DeleteStaleVirtualMachineInstanceMigrations", "CreateRsyncRoute")
  BY DEF Follows, Late, After
<1>3. /\ Follows("CreateRsyncRoute", "EnsureRsyncRouteAdmitted")
      /\ Follows("EnsureRsyncRouteAdmitted", "CreateRsyncConfig")
      /\ Follows("CreateRsyncConfig", "CreateStunnelConfig")
      /\ Follows("CreateStunnelConfig", "CreatePVProgressCRs")
      /\ Follows("CreatePVProgressCRs", "CreateRsyncTransferPods")
  BY DEF Follows, Late, After
<1>4. /\ Follows("CreateRsyncTransferPods", "WaitForRsyncTransferPodsRunning")
      /\ Follows("WaitForRsyncTransferPodsRunning", "RunRsyncOperations")
      /\ Follows("RunRsyncOperations", "DeleteRsyncResources")
      /\ Follows("DeleteRsyncResources", "WaitForRsyncResourcesTerminated")
      /\ Follows("WaitForRsyncResourcesTerminated", "CleanupStaleVirtHandlerPods")
      /\ Follows("CleanupStaleVirtHandlerPods", "Completed")
  BY DEF Follows, Late, After
<1>5. CASE i \in 2..6
  BY <1>1, <1>5, ForthRows
<1>6. CASE i \in 7..11
  BY <1>2, <1>6, ForthRows
<1>7. CASE i \in 12..16
  BY <1>3, <1>7, ForthRows
<1>8. CASE i \in 17..22
  BY <1>4, <1>8, ForthRows
<1> QED BY <1>5, <1>6, <1>7, <1>8

\* The way back, row by row.
LEMMA BackRows ==
    /\ DOMAIN VolumeMigrationRollback = 1..9
    /\ VolumeMigrationRollback[1] = "Created"
    /\ VolumeMigrationRollback[2] = "Started"
    /\ VolumeMigrationRollback[3] = "Prepare"
    /\ VolumeMigrationRollback[4] = "CleanStaleRsyncResources"
    /\ VolumeMigrationRollback[5] = "DeleteStaleVirtualMachineInstanceMigrations"
    /\ VolumeMigrationRollback[6] = "WaitForStaleRsyncResourcesTerminated"
    /\ VolumeMigrationRollback[7] = "RunRsyncOperations"
    /\ VolumeMigrationRollback[8] = "CleanupStaleVirtHandlerPods"
    /\ VolumeMigrationRollback[9] = "Completed"
BY SMTT(60) DEF VolumeMigrationRollback

\* The same of a way back, where no pods are made.
FollowsBack(p, q) ==
    /\ q # ""
    /\ q = "Completed" <=> p = "CleanupStaleVirtHandlerPods"
    /\ p # "CreatePVProgressCRs" /\ p # "CreateRsyncTransferPods"

\* The same of the way back.
LEMMA BackFollows ==
    ASSUME NEW i \in 2..9
    PROVE  FollowsBack(VolumeMigrationRollback[i - 1], VolumeMigrationRollback[i])
<1>1. /\ FollowsBack("Created", "Started")
      /\ FollowsBack("Started", "Prepare")
      /\ FollowsBack("Prepare", "CleanStaleRsyncResources")
      /\ FollowsBack("CleanStaleRsyncResources", "DeleteStaleVirtualMachineInstanceMigrations")
  BY DEF FollowsBack
<1>2. /\ FollowsBack("DeleteStaleVirtualMachineInstanceMigrations",
                     "WaitForStaleRsyncResourcesTerminated")
      /\ FollowsBack("WaitForStaleRsyncResourcesTerminated", "RunRsyncOperations")
      /\ FollowsBack("RunRsyncOperations", "CleanupStaleVirtHandlerPods")
      /\ FollowsBack("CleanupStaleVirtHandlerPods", "Completed")
  BY DEF FollowsBack
<1>3. CASE i \in 2..5
  BY <1>1, <1>3, BackRows
<1>4. CASE i \in 6..9
  BY <1>2, <1>4, BackRows
<1> QED BY <1>3, <1>4

\* The next phase is one that follows in the list.
LEMMA NextInList ==
    ASSUME NEW name, NEW n \in Nat, DOMAIN StepsOf(name) = 1..n,
           StepsOf(name)[n] = "Completed",
           NEW p \in ElementsOf(StepsOf(name)), p # "Completed"
    PROVE  \E i \in 2..n : StepsOf(name)[i - 1] = p /\ NextPhase(name, p) = StepsOf(name)[i]
<1> DEFINE s == StepsOf(name)
           later == {i \in DOMAIN s : i > 1 /\ s[i - 1] = p}
<1>1. PICK j \in 1..n : s[j] = p
  BY DEF ElementsOf
<1>2. j + 1 \in 1..n /\ j + 1 > 1 /\ (j + 1) - 1 = j
  BY <1>1
<1>3. j + 1 \in later
  BY <1>1, <1>2
<1>4. NextPhase(name, p) = s[CHOOSE i \in later : TRUE]
  BY <1>3 DEF NextPhase
<1>5. (CHOOSE i \in later : TRUE) \in later
  BY <1>3
<1>6. \A i \in later : i \in 2..n /\ s[i - 1] = p
  OBVIOUS
<1> HIDE DEF later
<1> QED BY <1>4, <1>5, <1>6

\* The lists go by their names.
LEMMA StepsRows ==
    /\ StepsOf("VolumeMigration") = VolumeMigration
    /\ StepsOf("VolumeMigrationRollback") = VolumeMigrationRollback
    /\ StepsOf("VolumeMigrationFailed") = VolumeMigrationFailed
BY DEF StepsOf

\* What follows a phase of the way forth.
LEMMA NextForth ==
    ASSUME NEW p \in ElementsOf(VolumeMigration), p # "Completed"
    PROVE  /\ NextPhase("VolumeMigration", p) \in ElementsOf(VolumeMigration)
           /\ Follows(p, NextPhase("VolumeMigration", p))
<1>1. PICK i \in 2..22 :
         /\ VolumeMigration[i - 1] = p
         /\ NextPhase("VolumeMigration", p) = VolumeMigration[i]
  <2> DEFINE s == StepsOf("VolumeMigration")
  <2>1. /\ DOMAIN s = 1..22 /\ 22 \in Nat /\ s[22] = "Completed" /\ s = VolumeMigration
        /\ p \in ElementsOf(s)
    BY ForthRows, StepsRows
  <2> QED BY <2>1, NextInList
<1> QED BY <1>1, ForthRows, ForthFollows DEF ElementsOf

\* What follows a phase of the way back.
LEMMA NextBack ==
    ASSUME NEW p \in ElementsOf(VolumeMigrationRollback), p # "Completed"
    PROVE  /\ NextPhase("VolumeMigrationRollback", p) \in ElementsOf(VolumeMigrationRollback)
           /\ FollowsBack(p, NextPhase("VolumeMigrationRollback", p))
<1>1. PICK i \in 2..9 :
         /\ VolumeMigrationRollback[i - 1] = p
         /\ NextPhase("VolumeMigrationRollback", p) = VolumeMigrationRollback[i]
  <2> DEFINE s == StepsOf("VolumeMigrationRollback")
  <2>1. /\ DOMAIN s = 1..9 /\ 9 \in Nat /\ s[9] = "Completed" /\ s = VolumeMigrationRollback
        /\ p \in ElementsOf(s)
    BY BackRows, StepsRows
  <2> QED BY <2>1, NextInList
<1> QED BY <1>1, BackRows, BackFollows DEF ElementsOf

\* A DVM that failed is completed next.
LEMMA NextFailed ==
    NextPhase("VolumeMigrationFailed", "MigrationFailed") = "Completed"
<1>1. /\ DOMAIN VolumeMigrationFailed = 1..2
      /\ VolumeMigrationFailed[1] = "MigrationFailed"
      /\ VolumeMigrationFailed[2] = "Completed"
  BY DEF VolumeMigrationFailed
<1>2. "MigrationFailed" \in ElementsOf(VolumeMigrationFailed)
  BY <1>1 DEF ElementsOf
<1>3. PICK i \in 2..2 : NextPhase("VolumeMigrationFailed", "MigrationFailed") =
                           VolumeMigrationFailed[i]
  <2> DEFINE s == StepsOf("VolumeMigrationFailed")
  <2>1. /\ DOMAIN s = 1..2 /\ 2 \in Nat /\ s[2] = "Completed" /\ s = VolumeMigrationFailed
        /\ "MigrationFailed" \in ElementsOf(s)
    BY <1>1, <1>2, StepsRows
  <2> QED BY <2>1, NextInList
<1> QED BY <1>1, <1>3

\* The phases of the lists are phases of the DVM.
LEMMA PhasesTyped ==
    /\ ElementsOf(VolumeMigration) \subseteq DVMPhases
    /\ ElementsOf(VolumeMigrationRollback) \subseteq DVMPhases
    /\ {"", "Created", "MigrationFailed", "Completed"} \subseteq DVMPhases
<1>1. {"VolumeMigration", "VolumeMigrationRollback", "VolumeMigrationFailed"}
         \subseteq ItineraryNames
  BY DEF ItineraryNames
<1>2. \A name \in ItineraryNames : ElementsOf(StepsOf(name)) \subseteq DVMPhases
  BY DEF DVMPhases
<1>3. "Created" \in ElementsOf(VolumeMigration)
  BY ForthRows DEF ElementsOf
<1>4. /\ "MigrationFailed" \in ElementsOf(VolumeMigrationFailed)
      /\ "Completed" \in ElementsOf(VolumeMigrationFailed)
  BY DEF ElementsOf, VolumeMigrationFailed
<1>5. "" \in DVMPhases
  BY DEF DVMPhases
<1> QED BY <1>1, <1>2, <1>3, <1>4, <1>5, StepsRows

-----------------------------------------------------------------------------
(* The worlds in the course of a pass *)

\* The invariant of a world while the DVM is there.
Fit(w, C, P) ==
    /\ w \in Worlds
    /\ \A p \in PVCs : PodsFit(w.pods[p], w.dvmp[p], p, C)
    /\ Forth(P) => \A p \in PVCs : /\ MachineFit(w.vms[p], p, C, P)
                                   /\ Untouched(w.vms[p])
                                   /\ Launched(w.vms[p], w.dvm, P)
    /\ ServersFit(w, P)

\* A handler writes no more of the status than the operations, the reports
\* and the network's verdict.
SameStatus(d, e) ==
    /\ e.there = d.there /\ e.finalizer = d.finalizer /\ e.phase = d.phase
    /\ e.itinerary = d.itinerary /\ e.failed = d.failed /\ e.succeeded = d.succeeded

OwnPods(w) == \A p \in PVCs : Own(w.pods[p])

Onward(w, v, C, P) ==
    /\ Fit(v, C, P)
    /\ SameStatus(w.dvm, v.dvm) /\ v.missed = w.missed
    /\ OwnPods(w) => OwnPods(v)

\* Steps within a pass add up.
LEMMA OnwardOn ==
    ASSUME NEW w, NEW v, NEW u, NEW C, NEW P, Onward(w, v, C, P), Onward(v, u, C, P)
    PROVE  Onward(w, u, C, P)
BY DEF Onward, SameStatus

\* A world that is left alone goes onward.
LEMMA OnwardStay ==
    ASSUME NEW w, NEW C, NEW P, Fit(w, C, P)
    PROVE  Onward(w, w, C, P)
BY DEF Onward, SameStatus

\* What changes pods and reports of the progress only.
LEMMA PodsOnward ==
    ASSUME NEW w, NEW v \in Worlds, NEW C, NEW P, Fit(w, C, P),
           v.vms = w.vms, v.servers = w.servers, v.missed = w.missed, SameStatus(w.dvm, v.dvm),
           \A p \in PVCs : PodsFit(v.pods[p], v.dvmp[p], p, C),
           OwnPods(w) => OwnPods(v)
    PROVE  Onward(w, v, C, P)
<1>1. \A p \in PVCs : Launched(w.vms[p], w.dvm, P) => Launched(v.vms[p], v.dvm, P)
  BY DEF Launched, Swept, SameStatus
<1>2. ServersFit(w, P) => ServersFit(v, P)
  BY DEF ServersFit, Heard
<1> QED BY <1>1, <1>2 DEF Onward, Fit

\* What changes the servers only.
LEMMA ServersOnward ==
    ASSUME NEW w, NEW v \in Worlds, NEW C, NEW P, Fit(w, C, P),
           v.pods = w.pods, v.dvmp = w.dvmp, v.vms = w.vms, v.dvm = w.dvm, v.missed = w.missed,
           ServersFit(v, P)
    PROVE  Onward(w, v, C, P)
BY DEF Onward, Fit, SameStatus, OwnPods

\* What changes the machines only.
LEMMA MachinesOnward ==
    ASSUME NEW w, NEW v \in Worlds, NEW C, NEW P, Fit(w, C, P),
           v.pods = w.pods, v.dvmp = w.dvmp, v.servers = w.servers, v.dvm = w.dvm,
           v.missed = w.missed,
           Forth(P) => \A p \in PVCs : /\ MachineFit(v.vms[p], p, C, P)
                                       /\ Untouched(v.vms[p])
                                       /\ Launched(v.vms[p], v.dvm, P),
           ServersFit(v, P)
    PROVE  Onward(w, v, C, P)
BY DEF Onward, Fit, SameStatus, OwnPods

-----------------------------------------------------------------------------
(* Pods *)

\* The same pods, but for marks.
Alike(s, t) ==
    /\ t \in Seq(ClientPods)
    /\ DOMAIN t = DOMAIN s
    /\ \A i \in DOMAIN s : t[i].own = s[i].own /\ t[i].phase = s[i].phase

\* A pod that is marked is a pod of the same owner in the same phase.
LEMMA MarkedPods ==
    /\ \A e \in ClientPods : /\ [e EXCEPT !.going = TRUE] \in ClientPods
                            /\ [e EXCEPT !.going = TRUE].own = e.own
                            /\ [e EXCEPT !.going = TRUE].phase = e.phase
    /\ \A e \in ClientPods : \A b \in BOOLEAN :
                            /\ [e EXCEPT !.seen = b] \in ClientPods
                            /\ [e EXCEPT !.seen = b].own = e.own
                            /\ [e EXCEPT !.seen = b].phase = e.phase
BY DEF ClientPods

\* A list of marked pods is alike.
LEMMA AlikePods ==
    ASSUME NEW s \in Seq(ClientPods), NEW t \in [DOMAIN s -> ClientPods],
           \A i \in DOMAIN s : t[i].own = s[i].own /\ t[i].phase = s[i].phase
    PROVE  Alike(s, t)
<1>1. Len(s) \in Nat /\ DOMAIN s = 1..Len(s)
  BY LenProperties
<1>2. t \in Seq(ClientPods)
  BY <1>1
<1> QED BY <1>2 DEF Alike

\* Deleting some of them leaves them there for a while.
LEMMA FadedPods ==
    ASSUME NEW s \in Seq(ClientPods), NEW G,
           NEW t, t = [i \in DOMAIN s |-> IF i \in G THEN [s[i] EXCEPT !.going = TRUE] ELSE s[i]]
    PROVE  Alike(s, t)
<1>1. \A i \in DOMAIN s : s[i] \in ClientPods
  BY LenProperties
<1>2. \A i \in DOMAIN s :
         /\ t[i] \in ClientPods
         /\ t[i].own = s[i].own /\ t[i].phase = s[i].phase
  BY <1>1, MarkedPods
<1>3. t \in [DOMAIN s -> ClientPods]
  BY <1>2
<1> QED BY <1>2, <1>3, AlikePods

\* What is alike fits as well.
LEMMA AlikeFits ==
    ASSUME NEW s, NEW t, Alike(s, t)
    PROVE  /\ \A m, p, C : PodsFit(s, m, p, C) => PodsFit(t, m, p, C)
           /\ Own(s) => Own(t)
BY DEF Alike, PodsFit, Own

\* The fields of a world.
LEMMA WorldFields ==
    ASSUME NEW w \in Worlds
    PROVE  /\ w.pods \in [PVCs -> Seq(ClientPods)] /\ w.dvmp \in [PVCs -> Progresses]
           /\ w.infra \in [Namespaces -> Infras]
           /\ w.servers \in [Namespaces -> [{"fs", "block"} -> Servers]]
           /\ w.vms \in [PVCs -> Engines] /\ w.dvm \in DVMs
           /\ w.unread \subseteq w.missed /\ w.missed \in SUBSET (Reads \X PVCs)
BY DEF Worlds

\* A world with another value of a field is a world.
LEMMA WorldMade ==
    ASSUME NEW w \in Worlds
    PROVE  /\ \A s \in [PVCs -> Seq(ClientPods)] : [w EXCEPT !.pods = s] \in Worlds
           /\ \A m \in [PVCs -> Progresses] : [w EXCEPT !.dvmp = m] \in Worlds
           /\ \A i \in [Namespaces -> Infras] : [w EXCEPT !.infra = i] \in Worlds
           /\ \A s \in [Namespaces -> [{"fs", "block"} -> Servers]] :
                 [w EXCEPT !.servers = s] \in Worlds
           /\ \A v \in [PVCs -> Engines] : [w EXCEPT !.vms = v] \in Worlds
           /\ \A d \in DVMs : [w EXCEPT !.dvm = d] \in Worlds
BY DEF Worlds

\* Only the state of a server changes, or it is none.
LEMMA ServersLess ==
    ASSUME NEW w, NEW v, NEW P \in Facts, ServersFit(w, P), v.vms = w.vms, v.missed = w.missed,
           \A n \in Namespaces : \A k \in {"fs", "block"} :
              \/ v.servers[n][k].vols \subseteq w.servers[n][k].vols
                    /\ (w.servers[n][k].state = "none" => v.servers[n][k].state = "none")
              \/ v.servers[n][k] = NoServer
    PROVE  ServersFit(v, P)
<1>1. NoServer.vols = {} /\ NoServer.state = "none"
  BY DEF NoServer
<1>2. \A p \in PVCs : P.ns[p] \in Namespaces
  BY DEF Facts
<1> QED BY <1>1, <1>2 DEF ServersFit, Heard

\* What is deleted is marked, or gone at once.
Deleted(w, v) ==
    /\ v \in Worlds
    /\ v.dvm = w.dvm /\ v.vms = w.vms /\ v.dvmp = w.dvmp
    /\ v.unread = w.unread /\ v.missed = w.missed
    /\ \A p \in PVCs : Alike(w.pods[p], v.pods[p])
    /\ \A n \in Namespaces : /\ v.infra[n].endpoint = "none" /\ ~v.infra[n].transport
                             /\ \A k \in {"fs", "block"} :
                                  \/ /\ v.servers[n][k].vols = w.servers[n][k].vols
                                     /\ w.servers[n][k].state # "none"
                                  \/ v.servers[n][k] = NoServer

\* findAndDeleteNsResources marks the pods and empties the namespaces.
LEMMA DeleteListedIs ==
    ASSUME NEW w \in Worlds, NEW owners
    PROVE  Deleted(w, DeleteListed(w, owners))
<1> DEFINE v == DeleteListed(w, owners)
<1>1. /\ v.dvm = w.dvm /\ v.vms = w.vms /\ v.dvmp = w.dvmp
      /\ v.unread = w.unread /\ v.missed = w.missed
  BY DEF DeleteListed, Worlds
<1>2. \A p \in PVCs : v.pods[p] = Fade(w.pods[p], LAMBDA pod : pod.own \in owners)
  BY DEF DeleteListed, Worlds
<1>3. \A n \in Namespaces : \A k \in {"fs", "block"} : v.servers[n][k] =
            IF k \in Listed(w, n) THEN [w.servers[n][k] EXCEPT !.state = "going"] ELSE NoServer
  BY DEF DeleteListed, Worlds
<1>4. v.infra = [n \in Namespaces |->
            [w.infra[n] EXCEPT !.endpoint = "none", !.transport = FALSE]]
  BY DEF DeleteListed, Worlds
<1>5. ASSUME NEW p \in PVCs
      PROVE  Alike(w.pods[p], v.pods[p])
  <2>1. w.pods[p] \in Seq(ClientPods)
    BY WorldFields
  <2> DEFINE s == w.pods[p]
             G == {i \in DOMAIN s : s[i].own \in owners}
  <2>2. v.pods[p] = [i \in DOMAIN s |->
            IF s[i].own \in owners THEN [s[i] EXCEPT !.going = TRUE] ELSE s[i]]
    BY <1>2 DEF Fade
  <2> HIDE DEF v
  <2>3. v.pods[p] = [i \in DOMAIN s |->
            IF i \in G THEN [s[i] EXCEPT !.going = TRUE] ELSE s[i]]
    BY <2>2
  <2> HIDE DEF s, G
  <2> QED BY <2>1, <2>3, FadedPods DEF s
<1>6. ASSUME NEW n \in Namespaces, NEW k \in {"fs", "block"}
      PROVE  /\ v.servers[n][k] \in Servers
             /\ \/ /\ v.servers[n][k].vols = w.servers[n][k].vols
                   /\ w.servers[n][k].state # "none"
                \/ v.servers[n][k] = NoServer
  <2>1. w.servers[n][k] \in Servers
    BY WorldFields
  <2>2. v.servers[n][k] =
            IF w.servers[n][k].state # "none" THEN [w.servers[n][k] EXCEPT !.state = "going"]
            ELSE NoServer
    <3>1. k \in Listed(w, n) <=> w.servers[n][k].state # "none"
      BY DEF Listed
    <3> QED BY <1>3, <3>1
  <2>3. NoServer \in Servers
    BY DEF NoServer, Servers
  <2> HIDE DEF v
  <2> QED BY <2>1, <2>2, <2>3 DEF Servers
<1>7. \A n \in Namespaces : v.infra[n] \in Infras
  <2>1. \A n \in Namespaces : w.infra[n] \in Infras
    BY WorldFields
  <2>2. \A i \in Infras : [i EXCEPT !.endpoint = "none", !.transport = FALSE] \in Infras
    BY DEF Infras
  <2> QED BY <1>4, <2>1, <2>2
<1>8. v \in Worlds
  BY <1>1, <1>5, <1>6, <1>7 DEF Worlds, Alike, DeleteListed
<1>9. \A n \in Namespaces : v.infra[n].endpoint = "none" /\ ~v.infra[n].transport
  <2>1. \A n \in Namespaces : w.infra[n] \in Infras
    BY WorldFields
  <2>2. \A i \in Infras : /\ [i EXCEPT !.endpoint = "none", !.transport = FALSE].endpoint = "none"
                          /\ ~[i EXCEPT !.endpoint = "none", !.transport = FALSE].transport
    BY DEF Infras
  <2>3. ASSUME NEW n \in Namespaces
        PROVE  v.infra[n].endpoint = "none" /\ ~v.infra[n].transport
    <3>1. v.infra[n] = [w.infra[n] EXCEPT !.endpoint = "none", !.transport = FALSE]
      BY <1>4
    <3>2. PICK i \in Infras : i = w.infra[n]
      BY <2>1
    <3> HIDE DEF v
    <3> QED BY <2>2, <3>1, <3>2
  <2> QED BY <2>3
<1> HIDE DEF v
<1>10. Deleted(w, v)
  BY <1>1, <1>5, <1>6, <1>8, <1>9 DEF Deleted
<1> QED BY <1>10 DEF v

\* It makes no server.
LEMMA DeletedServers ==
    ASSUME NEW w, NEW v, NEW P \in Facts, Deleted(w, v), ServersFit(w, P)
    PROVE  ServersFit(v, P)
<1>1. v.vms = w.vms /\ v.missed = w.missed
  BY DEF Deleted
<1>2. \A n \in Namespaces : \A k \in {"fs", "block"} :
         \/ v.servers[n][k].vols \subseteq w.servers[n][k].vols
               /\ (w.servers[n][k].state = "none" => v.servers[n][k].state = "none")
         \/ v.servers[n][k] = NoServer
  BY DEF Deleted
<1> QED BY <1>1, <1>2, ServersLess

\* A pass may delete what it likes.
LEMMA DeleteListedKeeps ==
    ASSUME NEW w, NEW C, NEW P \in Facts, NEW owners, Fit(w, C, P)
    PROVE  /\ Onward(w, DeleteListed(w, owners), C, P)
           /\ DeleteListed(w, owners).dvm = w.dvm /\ DeleteListed(w, owners).vms = w.vms
<1>1. PICK v : v = DeleteListed(w, owners)
  OBVIOUS
<1>2. Deleted(w, v)
  BY <1>1, DeleteListedIs DEF Fit
<1>3. ServersFit(v, P)
  BY <1>2, DeletedServers DEF Fit
<1>4. \A p \in PVCs : PodsFit(v.pods[p], v.dvmp[p], p, C)
  <2> TAKE p \in PVCs
  <2>1. PodsFit(w.pods[p], v.dvmp[p], p, C)
    BY <1>2 DEF Fit, Deleted
  <2> QED BY <1>2, <2>1, AlikeFits DEF Deleted
<1>5. OwnPods(w) => OwnPods(v)
  BY <1>2, AlikeFits DEF OwnPods, Deleted
<1>6. Onward(w, v, C, P)
  BY <1>2, <1>3, <1>4, <1>5 DEF Onward, Fit, SameStatus, Deleted
<1> QED BY <1>1, <1>2, <1>6 DEF Deleted

-----------------------------------------------------------------------------
(* What the phases before rsync do *)

\* The status and where the machines are stay.
Quiet(w, v) ==
    /\ v.dvm = w.dvm
    /\ \A p \in PVCs : v.vms[p].at = w.vms[p].at /\ v.vms[p].on = w.vms[p].on

Placid(w, v, C, P) == Onward(w, v, C, P) /\ Quiet(w, v)

\* What changes the infrastructure only.
LEMMA InfraPlacid ==
    ASSUME NEW w, NEW C, NEW P, NEW i \in [Namespaces -> Infras], Fit(w, C, P)
    PROVE  Placid(w, [w EXCEPT !.infra = i], C, P)
<1> DEFINE v == [w EXCEPT !.infra = i]
<1>1. w \in Worlds
  BY DEF Fit
<1>2. v \in Worlds
  BY <1>1, WorldMade
<1>3. /\ v.pods = w.pods /\ v.dvmp = w.dvmp /\ v.vms = w.vms /\ v.dvm = w.dvm
      /\ v.servers = w.servers /\ v.missed = w.missed
  BY <1>1 DEF Worlds
<1> HIDE DEF v
<1>4. ServersFit(v, P)
  BY <1>3 DEF Fit, ServersFit, Heard
<1>5. Onward(w, v, C, P)
  BY <1>2, <1>3, <1>4, ServersOnward
<1> QED BY <1>3, <1>5 DEF Placid, Quiet, v

\* Its values.
LEMMA InfraTyped ==
    ASSUME NEW i \in Infras
    PROVE  /\ \A b \in BOOLEAN : /\ [i EXCEPT !.targets = b] \in Infras
                                 /\ [i EXCEPT !.transport = b] \in Infras
           /\ [i EXCEPT !.endpoint = "made"] \in Infras
           /\ i.targets \in BOOLEAN /\ i.transport \in BOOLEAN
BY DEF Infras

\* The phases that make the volumes, the endpoints and the transports.
LEMMA EndpointsPlacid ==
    ASSUME NEW w, NEW C, NEW P, Fit(w, C, P)
    PROVE  /\ Placid(w, CreateDestinationPVCs(w), C, P)
           /\ Placid(w, EnsureRsyncEndpoints(w), C, P)
           /\ Placid(w, EnsureStunnelTransport(w), C, P)
<1>1. \A n \in Namespaces : w.infra[n] \in Infras
  BY WorldFields DEF Fit
<1> DEFINE a == [n \in Namespaces |-> [w.infra[n] EXCEPT !.targets = @ \/ n \in Used]]
           b == [n \in Namespaces |-> IF n \in Used /\ w.infra[n].endpoint = "none"
                                      THEN [w.infra[n] EXCEPT !.endpoint = "made"] ELSE w.infra[n]]
           c == [n \in Namespaces |-> [w.infra[n] EXCEPT !.transport = @ \/ n \in Used]]
<1>2. a \in [Namespaces -> Infras]
  BY <1>1, InfraTyped
<1>3. b \in [Namespaces -> Infras]
  BY <1>1, InfraTyped
<1>4. c \in [Namespaces -> Infras]
  BY <1>1, InfraTyped
<1>5. /\ CreateDestinationPVCs(w) = [w EXCEPT !.infra = a]
      /\ EnsureRsyncEndpoints(w) = [w EXCEPT !.infra = b]
      /\ EnsureStunnelTransport(w) = [w EXCEPT !.infra = c]
  BY DEF CreateDestinationPVCs, EnsureRsyncEndpoints, EnsureStunnelTransport
<1> HIDE DEF a, b, c
<1> QED BY <1>2, <1>3, <1>4, <1>5, InfraPlacid

\* Machines that stay where they are.
LEMMA MachinesPlacid ==
    ASSUME NEW w, NEW C, NEW P \in Facts, NEW m \in [PVCs -> Engines], Fit(w, C, P),
           \A p \in PVCs :
              /\ m[p].at = w.vms[p].at /\ m[p].on = w.vms[p].on
              /\ Forth(P) => /\ MachineFit(m[p], p, C, P)
                             /\ Untouched(m[p])
                             /\ Launched(m[p], w.dvm, P)
              /\ Aside(w.vms[p], P) => Aside(m[p], P)
    PROVE  Placid(w, [w EXCEPT !.vms = m], C, P)
<1> DEFINE v == [w EXCEPT !.vms = m]
<1>1. w \in Worlds
  BY DEF Fit
<1>2. v \in Worlds
  BY <1>1, WorldMade
<1>3. /\ v.pods = w.pods /\ v.dvmp = w.dvmp /\ v.vms = m /\ v.dvm = w.dvm
      /\ v.servers = w.servers /\ v.missed = w.missed
  BY <1>1 DEF Worlds
<1> HIDE DEF v
<1>4. ServersFit(v, P)
  BY <1>3 DEF Fit, ServersFit, Heard
<1>5. Forth(P) => \A p \in PVCs : /\ MachineFit(v.vms[p], p, C, P)
                                  /\ Untouched(v.vms[p])
                                  /\ Launched(v.vms[p], v.dvm, P)
  BY <1>3
<1>6. Onward(w, v, C, P)
  BY <1>2, <1>3, <1>4, <1>5, MachinesOnward
<1> QED BY <1>3, <1>6 DEF Placid, Quiet, v

\* Migrations of an earlier DVM are deleted when they have succeeded.
LEMMA StalePlacid ==
    ASSUME NEW w, NEW C, NEW P \in Facts, Fit(w, C, P)
    PROVE  Placid(w, DeleteStaleVMIMs(w), C, P)
<1> DEFINE m == [p \in PVCs |->
                   [w.vms[p] EXCEPT !.migration = IF @ = "succeeded" THEN "none" ELSE @]]
<1>1. \A p \in PVCs : w.vms[p] \in Engines
  BY WorldFields DEF Fit
<1>2. ASSUME NEW v \in Engines, NEW u, NEW p \in PVCs,
             u = [v EXCEPT !.migration = IF @ = "succeeded" THEN "none" ELSE @]
      PROVE  /\ u \in Engines
             /\ u.at = v.at /\ u.on = v.on
             /\ MachineFit(v, p, C, P) => MachineFit(u, p, C, P)
             /\ Untouched(v) => Untouched(u)
             /\ Launched(v, w.dvm, P) => Launched(u, w.dvm, P)
             /\ Aside(v, P) => Aside(u, P)
  <2>1. /\ u \in Engines
        /\ u.at = v.at /\ u.on = v.on /\ u.stale = v.stale
        /\ u.migration = v.migration \/ (u.migration = "none" /\ v.migration = "succeeded")
    BY <1>2 DEF Engines, Machines, Unsettled
  <2> QED BY <2>1 DEF MachineFit, Untouched, Launched, Aside, Unsettled
<1>3. m \in [PVCs -> Engines]
  BY <1>1, <1>2
<1>4. DeleteStaleVMIMs(w) = [w EXCEPT !.vms = m]
  BY DEF DeleteStaleVMIMs
<1>5. \A p \in PVCs : m[p] = [w.vms[p] EXCEPT !.migration = IF @ = "succeeded" THEN "none" ELSE @]
  OBVIOUS
<1> HIDE DEF m
<1>6. \A p \in PVCs :
              /\ m[p].at = w.vms[p].at /\ m[p].on = w.vms[p].on
              /\ Forth(P) => /\ MachineFit(m[p], p, C, P)
                             /\ Untouched(m[p])
                             /\ Launched(m[p], w.dvm, P)
              /\ Aside(w.vms[p], P) => Aside(m[p], P)
  BY <1>1, <1>2, <1>5 DEF Fit
<1> QED BY <1>3, <1>4, <1>6, MachinesPlacid

\* In the last phase.
LEMMA CleanupPlacid ==
    ASSUME NEW w, NEW C, NEW P \in Facts, Fit(w, C, P), Swept(w.dvm)
    PROVE  /\ Placid(w, CleanupStaleVirtLauncherPods(w), C, P)
           /\ \A p \in PVCs : CleanupStaleVirtLauncherPods(w).vms[p].stale = {}
<1> DEFINE m == [p \in PVCs |-> [w.vms[p] EXCEPT !.stale = {}]]
<1>1. \A p \in PVCs : w.vms[p] \in Engines
  BY WorldFields DEF Fit
<1>2. ASSUME NEW v \in Engines, NEW u, NEW p \in PVCs, u = [v EXCEPT !.stale = {}]
      PROVE  /\ u \in Engines /\ u.stale = {}
             /\ u.at = v.at /\ u.on = v.on
             /\ MachineFit(v, p, C, P) => MachineFit(u, p, C, P)
             /\ Untouched(v) => Untouched(u)
             /\ Launched(u, w.dvm, P)
             /\ Aside(v, P) => Aside(u, P)
  <2>1. /\ u \in Engines
        /\ u.at = v.at /\ u.on = v.on /\ u.stale = {} /\ u.migration = v.migration
    BY <1>2 DEF Engines, Machines, Unsettled
  <2> QED BY <2>1 DEF MachineFit, Untouched, Launched, Aside
<1>3. m \in [PVCs -> Engines]
  BY <1>1, <1>2
<1>4. CleanupStaleVirtLauncherPods(w) = [w EXCEPT !.vms = m]
  BY DEF CleanupStaleVirtLauncherPods
<1>5. \A p \in PVCs : m[p] = [w.vms[p] EXCEPT !.stale = {}]
  OBVIOUS
<1> HIDE DEF m
<1>6. ASSUME NEW p \in PVCs
      PROVE   /\ m[p].at = w.vms[p].at /\ m[p].on = w.vms[p].on
              /\ Forth(P) => /\ MachineFit(m[p], p, C, P)
                             /\ Untouched(m[p])
                             /\ Launched(m[p], w.dvm, P)
              /\ Aside(w.vms[p], P) => Aside(m[p], P)
  <2>1. w.vms[p] \in Engines /\ m[p] = [w.vms[p] EXCEPT !.stale = {}]
    BY <1>1, <1>5
  <2>2. Forth(P) => MachineFit(w.vms[p], p, C, P) /\ Untouched(w.vms[p])
    BY DEF Fit
  <2> QED BY <1>2, <2>1, <2>2
<1>7. Placid(w, [w EXCEPT !.vms = m], C, P)
  BY <1>3, <1>6, MachinesPlacid
<1>8. [w EXCEPT !.vms = m].vms = m
  BY DEF Fit, Worlds
<1>9. \A p \in PVCs : m[p].stale = {}
  BY <1>1, <1>2, <1>5
<1> QED BY <1>4, <1>7, <1>8, <1>9

-----------------------------------------------------------------------------
(* Reports of the progress and servers *)

\* The progress reports that are made have no phase yet.
LEMMA ReportsTyped ==
    ASSUME NEW w \in Worlds
    PROVE  /\ CreateReports(w) \in Worlds
           /\ CreateReports(w).pods = w.pods /\ CreateReports(w).vms = w.vms
           /\ CreateReports(w).servers = w.servers /\ CreateReports(w).dvm = w.dvm
           /\ CreateReports(w).missed = w.missed
           /\ \A p \in PVCs : \/ CreateReports(w).dvmp[p] = w.dvmp[p]
                              \/ CreateReports(w).dvmp[p] = ""
<1> DEFINE m == [p \in PVCs |->
                  IF w.dvmp[p] = "none" /\ ~LeftToVM(w, "reports", p) THEN "" ELSE w.dvmp[p]]
<1>1. m \in [PVCs -> Progresses]
  BY WorldFields DEF Progresses
<1>2. CreateReports(w) = [w EXCEPT !.dvmp = m]
  BY DEF CreateReports
<1>3. \A p \in PVCs : m[p] = w.dvmp[p] \/ m[p] = ""
  OBVIOUS
<1> HIDE DEF m
<1>4. [w EXCEPT !.dvmp = m] \in Worlds
  BY <1>1, WorldMade
<1>5. [w EXCEPT !.dvmp = m].dvmp = m
  BY DEF Worlds
<1>6. /\ [w EXCEPT !.dvmp = m].pods = w.pods /\ [w EXCEPT !.dvmp = m].vms = w.vms
      /\ [w EXCEPT !.dvmp = m].servers = w.servers /\ [w EXCEPT !.dvmp = m].dvm = w.dvm
      /\ [w EXCEPT !.dvmp = m].missed = w.missed
  BY DEF Worlds
<1> QED BY <1>2, <1>3, <1>4, <1>5, <1>6

\* Reports are made when the pods are this DVM's.
LEMMA ReportsPlacid ==
    ASSUME NEW w, NEW C, NEW P, Fit(w, C, P), OwnPods(w)
    PROVE  Placid(w, CreateReports(w), C, P)
<1> DEFINE v == CreateReports(w)
<1>1. /\ v \in Worlds /\ v.pods = w.pods /\ v.vms = w.vms
      /\ v.servers = w.servers /\ v.dvm = w.dvm /\ v.missed = w.missed
      /\ \A p \in PVCs : v.dvmp[p] = w.dvmp[p] \/ v.dvmp[p] = ""
  BY ReportsTyped DEF Fit
<1> HIDE DEF v
<1>2. \A p \in PVCs : PodsFit(v.pods[p], v.dvmp[p], p, C)
  BY <1>1 DEF Fit, PodsFit, OwnPods
<1>3. Onward(w, v, C, P)
  BY <1>1, <1>2, PodsOnward DEF SameStatus, OwnPods
<1> QED BY <1>1, <1>3 DEF Placid, Quiet, v

\* What WithServer makes of the servers.
LEMMA WithServerFacts ==
    ASSUME NEW w \in Worlds, NEW kind \in {"fs", "block"}, NEW vols \in SUBSET PVCs
    PROVE  LET v == WithServer(w, kind, vols)
           IN  /\ v \in Worlds
               /\ v.pods = w.pods /\ v.dvmp = w.dvmp /\ v.vms = w.vms /\ v.dvm = w.dvm
               /\ v.missed = w.missed
               /\ \A n \in Namespaces : \A k \in {"fs", "block"} :
                     \/ v.servers[n][k] = w.servers[n][k]
                     \/ /\ k = kind
                        /\ v.servers[n][k].vols \subseteq vols
                        /\ v.servers[n][k].vols = {p \in vols : plan.ns[p] = n}
                        /\ v.servers[n][k].vols # {}
<1> DEFINE wanted(n) == {p \in vols : plan.ns[p] = n}
           s == [n \in Namespaces |->
                  IF wanted(n) # {} /\ w.servers[n][kind].state = "none"
                  THEN [w.servers[n] EXCEPT ![kind] = [state |-> "pending", vols |-> wanted(n)]]
                  ELSE w.servers[n]]
<1>1. WithServer(w, kind, vols) = [w EXCEPT !.servers = s]
  BY DEF WithServer
<1>2. \A n \in Namespaces : w.servers[n] \in [{"fs", "block"} -> Servers]
  BY WorldFields
<1>3. \A n : wanted(n) \in SUBSET PVCs
  OBVIOUS
<1>4. \A n \in Namespaces :
         s[n] = IF wanted(n) # {} /\ w.servers[n][kind].state = "none"
                THEN [w.servers[n] EXCEPT ![kind] = [state |-> "pending", vols |-> wanted(n)]]
                ELSE w.servers[n]
  OBVIOUS
<1>5. \A n : [state |-> "pending", vols |-> wanted(n)] \in Servers
  BY <1>3 DEF Servers
<1>6. \A n : [state |-> "pending", vols |-> wanted(n)].vols = wanted(n) /\ wanted(n) \subseteq vols
  OBVIOUS
<1>7. s \in [Namespaces -> [{"fs", "block"} -> Servers]]
  <2>1. \A n \in Namespaces : s[n] \in [{"fs", "block"} -> Servers]
    <3> HIDE DEF s, wanted
    <3>1. \A f \in [{"fs", "block"} -> Servers] : \A e \in Servers :
             [f EXCEPT ![kind] = e] \in [{"fs", "block"} -> Servers]
      OBVIOUS
    <3> TAKE n \in Namespaces
    <3>2. PICK e : e = [state |-> "pending", vols |-> wanted(n)]
      OBVIOUS
    <3>3. e \in Servers
      BY <1>5, <3>2
    <3>4. s[n] = w.servers[n] \/ s[n] = [w.servers[n] EXCEPT ![kind] = e]
      BY <1>4, <3>2
    <3> QED BY <1>2, <3>1, <3>3, <3>4
  <2> HIDE DEF wanted
  <2> QED BY <2>1
<1>8. ASSUME NEW n \in Namespaces, NEW k \in {"fs", "block"}
      PROVE  \/ s[n][k] = w.servers[n][k]
             \/ k = kind /\ wanted(n) # {} /\ s[n][k] = [state |-> "pending", vols |-> wanted(n)]
  <2> HIDE DEF s, wanted
  <2> QED BY <1>2, <1>4
<1> HIDE DEF s
<1>9. [w EXCEPT !.servers = s] \in Worlds
  BY <1>7, WorldMade
<1>10. [w EXCEPT !.servers = s].servers = s
  BY DEF Worlds
<1>11. /\ [w EXCEPT !.servers = s].pods = w.pods /\ [w EXCEPT !.servers = s].vms = w.vms
       /\ [w EXCEPT !.servers = s].dvmp = w.dvmp /\ [w EXCEPT !.servers = s].dvm = w.dvm
       /\ [w EXCEPT !.servers = s].missed = w.missed
  BY DEF Worlds
<1>12. ASSUME NEW n \in Namespaces, NEW k \in {"fs", "block"}
       PROVE  \/ s[n][k] = w.servers[n][k]
              \/ /\ k = kind
                 /\ s[n][k].vols \subseteq vols
                 /\ s[n][k].vols = wanted(n)
                 /\ s[n][k].vols # {}
  <2>1. PICK u : u = wanted(n)
    OBVIOUS
  <2>2. u \subseteq vols
    BY <2>1
  <2> HIDE DEF wanted
  <2>3. [state |-> "pending", vols |-> u].vols = u
    OBVIOUS
  <2>4. \/ s[n][k] = w.servers[n][k]
        \/ k = kind /\ u # {} /\ s[n][k] = [state |-> "pending", vols |-> u]
    BY <1>8, <2>1
  <2> QED BY <2>1, <2>2, <2>3, <2>4
<1> QED BY <1>1, <1>9, <1>10, <1>11, <1>12

\* A server may be made for volumes whose machines are aside.
LEMMA WithServerPlacid ==
    ASSUME NEW w, NEW C, NEW kind \in {"fs", "block"}, NEW vols \in SUBSET PVCs,
           plan \in Facts, Fit(w, C, plan),
           kind = "block" =>
              \A p \in vols : Heard(w, {"servers"}, p) => Aside(w.vms[p], plan)
    PROVE  Placid(w, WithServer(w, kind, vols), C, plan)
<1> DEFINE v == WithServer(w, kind, vols)
<1>1. /\ v \in Worlds /\ v.missed = w.missed
      /\ v.pods = w.pods /\ v.dvmp = w.dvmp /\ v.vms = w.vms /\ v.dvm = w.dvm
  BY WithServerFacts DEF Fit
<1>2. \A n \in Namespaces : \A k \in {"fs", "block"} :
         \/ v.servers[n][k] = w.servers[n][k]
         \/ /\ k = kind
            /\ v.servers[n][k].vols \subseteq vols
            /\ \E p \in vols : plan.ns[p] = n
  BY WithServerFacts DEF Fit
<1> HIDE DEF v
<1>3. \A p \in PVCs : plan.ns[p] \in Namespaces
  BY DEF Facts
<1>4. ServersFit(v, plan)
  <2>1. ASSUME NEW n \in Namespaces \ UsedBy(plan), NEW k \in {"fs", "block"}
        PROVE  v.servers[n][k].state = "none"
    BY <1>2, <2>1 DEF UsedBy, Fit, ServersFit
  <2>2. ASSUME NEW p \in PVCs, p \in v.servers[plan.ns[p]]["block"].vols,
               Heard(v, {"servers"}, p)
        PROVE  Aside(v.vms[p], plan)
    <3>1. CASE v.servers[plan.ns[p]]["block"] = w.servers[plan.ns[p]]["block"]
      BY <1>1, <2>2, <3>1 DEF Fit, ServersFit, Heard
    <3>2. CASE kind = "block" /\ v.servers[plan.ns[p]]["block"].vols \subseteq vols
      BY <1>1, <2>2, <3>2 DEF Heard
    <3> QED BY <1>2, <1>3, <3>1, <3>2
  <2> QED BY <2>1, <2>2 DEF ServersFit
<1>5. Onward(w, v, C, plan)
  BY <1>1, <1>4, ServersOnward DEF Fit
<1> QED BY <1>1, <1>5 DEF Placid, Quiet, v

\* An rsync server mounts no volume that is left to a machine.
LEMMA LeftAside ==
    ASSUME NEW w, NEW C, plan \in Facts, Fit(w, C, plan), Forth(plan), ~Swept(w.dvm),
           NEW p \in PVCs, NEW read, ~LeftToVM(w, read, p), Heard(w, {read}, p)
    PROVE  Aside(w.vms[p], plan)
<1> DEFINE v == w.vms[p]
<1>1. /\ MachineFit(v, p, C, plan) /\ Untouched(v) /\ Launched(v, w.dvm, plan)
      /\ v \in Engines
  BY WorldFields DEF Fit
<1>2. plan.live => v.on # "source" /\ "source" \notin v.stale
  BY WorldFields DEF LeftToVM, InUse, Heard, Fit
<1> HIDE DEF v
<1>3. ASSUME plan.live PROVE Aside(v, plan)
  BY <1>1, <1>2, <1>3
  DEF Aside, MachineFit, Untouched, Launched, Unsettled, Sides, Engines, Machines
<1>4. ASSUME ~plan.live PROVE Aside(v, plan)
  BY <1>1, <1>4 DEF Aside, MachineFit, Unsettled
<1> QED BY <1>3, <1>4 DEF v

\* The servers are made so, of both kinds.
LEMMA EnsureServersPlacid ==
    ASSUME NEW w, NEW C, plan \in Facts, Fit(w, C, plan), Forth(plan), ~Swept(w.dvm)
    PROVE  /\ Placid(w, EnsureFilesystemServer(w), C, plan)
           /\ Placid(w, EnsureBlockServer(w), C, plan)
<1>1. /\ {p \in PVCs : plan.kind[p] = "fs"} \in SUBSET PVCs /\ "fs" \in {"fs", "block"}
      /\ ForBlockRsync(w, "servers") \in SUBSET PVCs /\ "block" \in {"fs", "block"} /\ "fs" # "block"
  BY DEF ForBlockRsync
<1>2. \A p \in ForBlockRsync(w, "servers") : Heard(w, {"servers"}, p) => Aside(w.vms[p], plan)
  BY LeftAside DEF ForBlockRsync
<1>3. Placid(w, EnsureFilesystemServer(w), C, plan)
  BY <1>1, WithServerPlacid DEF EnsureFilesystemServer
<1>4. Placid(w, EnsureBlockServer(w), C, plan)
  BY <1>1, <1>2, WithServerPlacid DEF EnsureBlockServer
<1> QED BY <1>3, <1>4

-----------------------------------------------------------------------------
(* What RunRsyncOperations does, one thing after the other *)

\* Reports, operations and the network's verdict are set apart from the status.
LEMMA StatusTyped ==
    ASSUME NEW d \in DVMs
    PROVE  /\ \A r \in [PVCs -> Reports] :
                 /\ [d EXCEPT !.report = r] \in DVMs
                 /\ [d EXCEPT !.report = r].report = r
                 /\ [d EXCEPT !.report = r].ops = d.ops
                 /\ SameStatus(d, [d EXCEPT !.report = r])
           /\ \A o \in [PVCs -> [attempt : 0..Limit, result : {""} \cup Terminal]] :
                 /\ [d EXCEPT !.ops = o] \in DVMs
                 /\ [d EXCEPT !.ops = o].ops = o
                 /\ [d EXCEPT !.ops = o].report = d.report
                 /\ SameStatus(d, [d EXCEPT !.ops = o])
           /\ \A b \in BOOLEAN :
                 /\ [d EXCEPT !.network = b] \in DVMs
                 /\ [d EXCEPT !.network = b].ops = d.ops
                 /\ [d EXCEPT !.network = b].report = d.report
                 /\ SameStatus(d, [d EXCEPT !.network = b])
BY DEF DVMs, SameStatus

\* The reports are values the status may hold.
LEMMA ReportsIn ==
    ASSUME NEW w, NEW p
    PROVE  /\ RsyncReport(w, p) \in Reports
           /\ LiveReport(w, p) \in Reports
           /\ \A last : ReportOf(w, p, last) \in Reports
<1>1. RsyncReport(w, p) \in Reports
  BY DEF RsyncReport, Reports
<1>2. LiveReport(w, p) \in Reports
  BY DEF LiveReport, Reports
<1>3. "skipped" \in Reports /\ "" \in Reports
  BY DEF Reports
<1> QED BY <1>1, <1>2, <1>3 DEF ReportOf

\* The completed clients are swept away.
LEMMA SweepKeeps ==
    ASSUME NEW w, NEW C, NEW P, Fit(w, C, P)
    PROVE  Onward(w, Sweep(w), C, P) /\ Sweep(w).vms = w.vms
<1> DEFINE swept == {p \in PVCs : /\ plan.kind[p] = "block"
                               /\ \E pod \in Live(w.pods[p]) : pod.own /\ pod.phase = "Succeeded"}
           r == [p \in PVCs |-> IF p \in swept /\ RsyncReport(w, p) # "" THEN RsyncReport(w, p)
                                ELSE w.dvm.report[p]]
           s == [p \in PVCs |->
            IF p \in swept /\ w.dvmp[p] \in {"none", "Succeeded"}
            THEN Fade(w.pods[p], LAMBDA pod : pod.own /\ pod.phase = "Succeeded")
            ELSE w.pods[p]]
           e == [w.dvm EXCEPT !.report = r]
           v == [[w EXCEPT !.dvm = e] EXCEPT !.pods = s]
<1>1. Sweep(w) = v
  BY DEF Sweep
<1>2. w \in Worlds /\ w.dvm \in DVMs /\ \A p \in PVCs : w.dvm.report[p] \in Reports
  BY WorldFields DEF Fit, DVMs
<1>3. r \in [PVCs -> Reports]
  BY <1>2, ReportsIn
<1>4. ASSUME NEW p \in PVCs
      PROVE  Alike(w.pods[p], s[p])
  <2>1. w.pods[p] \in Seq(ClientPods)
    BY <1>2, WorldFields
  <2> DEFINE a == w.pods[p]
             G == IF p \in swept /\ w.dvmp[p] \in {"none", "Succeeded"}
                  THEN {i \in DOMAIN a : a[i].own /\ a[i].phase = "Succeeded"} ELSE {}
  <2>2. CASE p \in swept /\ w.dvmp[p] \in {"none", "Succeeded"}
    <3>1. s[p] = Fade(w.pods[p], LAMBDA pod : pod.own /\ pod.phase = "Succeeded")
      BY <2>2
    <3>2. s[p] = [i \in DOMAIN a |-> IF a[i].own /\ a[i].phase = "Succeeded"
                                     THEN [a[i] EXCEPT !.going = TRUE] ELSE a[i]]
      BY <3>1 DEF Fade
    <3>3. G = {i \in DOMAIN a : a[i].own /\ a[i].phase = "Succeeded"}
      BY <2>2
    <3> HIDE DEF s, G, swept
    <3>4. s[p] = [i \in DOMAIN a |-> IF i \in G THEN [a[i] EXCEPT !.going = TRUE] ELSE a[i]]
      BY <3>2, <3>3
    <3> HIDE DEF a
    <3> QED BY <2>1, <3>4, FadedPods DEF a
  <2>3. CASE ~(p \in swept /\ w.dvmp[p] \in {"none", "Succeeded"})
    <3>1. s[p] = a
      BY <2>3
    <3> HIDE DEF s, swept
    <3> QED BY <2>1, <3>1 DEF Alike
  <2> QED BY <2>2, <2>3
<1>5. s \in [PVCs -> Seq(ClientPods)]
  <2>1. \A p \in PVCs : s[p] \in Seq(ClientPods)
    <3> HIDE DEF s
    <3> QED BY <1>4 DEF Alike
  <2>2. s = [p \in PVCs |-> s[p]]
    OBVIOUS
  <2> HIDE DEF s
  <2> QED BY <2>1, <2>2
<1> HIDE DEF s, r
<1>6. e \in DVMs /\ SameStatus(w.dvm, e)
  BY <1>2, <1>3, StatusTyped
<1> HIDE DEF e
<1>7. v \in Worlds
  BY <1>2, <1>5, <1>6, WorldMade
<1>8. /\ v.vms = w.vms /\ v.servers = w.servers /\ v.dvmp = w.dvmp /\ v.pods = s /\ v.dvm = e
      /\ v.missed = w.missed
  BY <1>2 DEF Worlds
<1> HIDE DEF v
<1>9. \A p \in PVCs : PodsFit(v.pods[p], v.dvmp[p], p, C)
  <2> TAKE p \in PVCs
  <2>1. PodsFit(w.pods[p], w.dvmp[p], p, C)
    BY DEF Fit
  <2> QED BY <1>4, <1>8, <2>1, AlikeFits
<1>10. OwnPods(w) => OwnPods(v)
  BY <1>4, <1>8, AlikeFits DEF OwnPods
<1>11. Onward(w, v, C, P)
  BY <1>6, <1>7, <1>8, <1>9, <1>10, PodsOnward
<1> QED BY <1>1, <1>8, <1>11

\* A server whose volumes are done is deleted.
LEMMA DoneServersKeep ==
    ASSUME NEW w, NEW C, NEW P \in Facts, Fit(w, C, P)
    PROVE  Placid(w, DeleteDoneServers(w), C, P)
<1> DEFINE done(n) == /\ w.servers[n]["block"].state \in {"pending", "running"}
                      /\ \A p \in w.servers[n]["block"].vols : w.dvm.report[p] \in ServerDone
           s == [n \in Namespaces |->
                    IF done(n) THEN [w.servers[n] EXCEPT !["block"].state = "going"]
                    ELSE w.servers[n]]
           v == [w EXCEPT !.servers = s]
<1>1. DeleteDoneServers(w) = v
  BY DEF DeleteDoneServers
<1>2. w \in Worlds
  BY DEF Fit
<1>3. ASSUME NEW n \in Namespaces
      PROVE  /\ s[n] \in [{"fs", "block"} -> Servers]
             /\ \A k \in {"fs", "block"} :
                   /\ s[n][k].vols = w.servers[n][k].vols
                   /\ w.servers[n][k].state = "none" => s[n][k].state = "none"
  <2>1. w.servers[n] \in [{"fs", "block"} -> Servers]
    BY <1>2, WorldFields
  <2>2. \/ s[n] = w.servers[n]
        \/ /\ w.servers[n]["block"].state # "none"
           /\ s[n] = [w.servers[n] EXCEPT !["block"].state = "going"]
    OBVIOUS
  <2> HIDE DEF s
  <2> QED BY <2>1, <2>2 DEF Servers
<1>4. s \in [Namespaces -> [{"fs", "block"} -> Servers]]
  BY <1>3
<1> HIDE DEF s
<1>5. v \in Worlds
  BY <1>2, <1>4, WorldMade
<1>6. /\ v.vms = w.vms /\ v.servers = s /\ v.dvmp = w.dvmp /\ v.pods = w.pods /\ v.dvm = w.dvm
      /\ v.missed = w.missed
  BY <1>2 DEF Worlds
<1> HIDE DEF v
<1>7. ServersFit(v, P)
  <2>1. ServersFit(w, P) /\ v.vms = w.vms /\ v.missed = w.missed
    BY <1>6 DEF Fit
  <2>2. \A n \in Namespaces : \A k \in {"fs", "block"} :
           \/ v.servers[n][k].vols \subseteq w.servers[n][k].vols
                 /\ (w.servers[n][k].state = "none" => v.servers[n][k].state = "none")
           \/ v.servers[n][k] = NoServer
    BY <1>3, <1>6
  <2> QED BY <2>1, <2>2, ServersLess
<1>8. Onward(w, v, C, P)
  BY <1>5, <1>6, <1>7, ServersOnward
<1> QED BY <1>1, <1>6, <1>8 DEF Placid, Quiet

-----------------------------------------------------------------------------
(* The client of a volume *)

\* What may happen to the clients: they are this DVM's, and what succeeded has
\* copied; reports of the progress are made or deleted.
ClientsFit(w, v, C) ==
    /\ v \in Worlds
    /\ \A q \in PVCs : Own(v.pods[q]) /\ PodsFit(v.pods[q], "none", q, C)
    /\ \A q \in PVCs : v.dvmp[q] \in {w.dvmp[q], "", "none"}

\* The steps of a client add up.
LEMMA ClientsOn ==
    ASSUME NEW w, NEW v, NEW u, NEW C, ClientsFit(w, v, C), ClientsFit(v, u, C)
    PROVE  ClientsFit(w, u, C)
BY DEF ClientsFit

\* A world with pods of this DVM only is one to start from.
LEMMA ClientsStay ==
    ASSUME NEW w, NEW C, NEW P, Fit(w, C, P), OwnPods(w)
    PROVE  ClientsFit(w, w, C)
BY DEF ClientsFit, Fit, OwnPods, PodsFit

\* What is noted of an operation leaves its pods.
LEMMA OpsSet ==
    ASSUME NEW w, NEW C, ClientsFit(w, w, C), NEW p \in PVCs
    PROVE  /\ \A a \in 0..Limit : /\ ClientsFit(w, [w EXCEPT !.dvm.ops[p].attempt = a], C)
                                  /\ [w EXCEPT !.dvm.ops[p].attempt = a].pods = w.pods
           /\ \A o \in [attempt : 0..Limit, result : {""} \cup Terminal] :
                 /\ ClientsFit(w, [w EXCEPT !.dvm.ops[p] = o], C)
                 /\ [w EXCEPT !.dvm.ops[p] = o].pods = w.pods
<1>1. w \in Worlds /\ w.dvm \in DVMs
  BY WorldFields DEF ClientsFit
<1>2. w.dvm.ops \in [PVCs -> [attempt : 0..Limit, result : {""} \cup Terminal]]
  BY <1>1 DEF DVMs
<1>3. ASSUME NEW o \in [attempt : 0..Limit, result : {""} \cup Terminal]
      PROVE  /\ ClientsFit(w, [w EXCEPT !.dvm.ops[p] = o], C)
             /\ [w EXCEPT !.dvm.ops[p] = o].pods = w.pods
  <2> DEFINE f == [w.dvm.ops EXCEPT ![p] = o]
             e == [w.dvm EXCEPT !.ops = f]
             v == [w EXCEPT !.dvm = e]
  <2>1. f \in [PVCs -> [attempt : 0..Limit, result : {""} \cup Terminal]]
    BY <1>2
  <2>2. [w EXCEPT !.dvm.ops[p] = o] = v
    OBVIOUS
  <2> HIDE DEF f
  <2>3. e \in DVMs
    BY <1>1, <2>1, StatusTyped
  <2> HIDE DEF e
  <2>4. v \in Worlds /\ v.pods = w.pods /\ v.dvmp = w.dvmp
    BY <1>1, <2>3 DEF Worlds
  <2> HIDE DEF v
  <2> QED BY <2>2, <2>4 DEF ClientsFit
<1>4. ASSUME NEW a \in 0..Limit
      PROVE  /\ ClientsFit(w, [w EXCEPT !.dvm.ops[p].attempt = a], C)
             /\ [w EXCEPT !.dvm.ops[p].attempt = a].pods = w.pods
  <2> DEFINE o == [w.dvm.ops[p] EXCEPT !.attempt = a]
  <2>1. o \in [attempt : 0..Limit, result : {""} \cup Terminal]
    BY <1>2
  <2>2. [w EXCEPT !.dvm.ops[p].attempt = a] = [w EXCEPT !.dvm.ops[p] = o]
    OBVIOUS
  <2> HIDE DEF o
  <2>3. /\ ClientsFit(w, [w EXCEPT !.dvm.ops[p] = o], C)
        /\ [w EXCEPT !.dvm.ops[p] = o].pods = w.pods
    BY <1>3, <2>1
  <2> QED BY <2>2, <2>3, Zenon
<1> QED BY <1>3, <1>4

\* The pods of a volume may become others that fit.
LEMMA PodsSet ==
    ASSUME NEW w, NEW C, ClientsFit(w, w, C), NEW p \in PVCs, NEW s \in Seq(ClientPods),
           Own(s), PodsFit(s, "none", p, C)
    PROVE  ClientsFit(w, [w EXCEPT !.pods[p] = s], C)
<1> DEFINE f == [w.pods EXCEPT ![p] = s]
           v == [w EXCEPT !.pods = f]
<1>1. w \in Worlds /\ w.pods \in [PVCs -> Seq(ClientPods)]
  BY WorldFields DEF ClientsFit
<1>2. /\ f \in [PVCs -> Seq(ClientPods)] /\ f[p] = s
      /\ \A q \in PVCs : q # p => f[q] = w.pods[q]
  BY <1>1
<1>3. [w EXCEPT !.pods[p] = s] = v
  OBVIOUS
<1> HIDE DEF f
<1>4. v \in Worlds /\ v.pods = f /\ v.dvmp = w.dvmp
  BY <1>1, <1>2 DEF Worlds
<1> HIDE DEF v
<1> QED BY <1>2, <1>3, <1>4 DEF ClientsFit

\* A client that is started is a pod of this DVM.
LEMMA ClientTyped ==
    ASSUME NEW a \in 1..Limit
    PROVE  Client(a) \in ClientPods /\ Client(a).own /\ Client(a).phase = "Pending"
BY DEF Client, Pod, ClientPods, PodPhases

\* A first client is started.
LEMMA StartKeeps ==
    ASSUME NEW w, NEW C, ClientsFit(w, w, C), NEW p \in PVCs, NEW broken, NEW last
    PROVE  ClientsFit(w, StartClient(w, p, broken, last), C)
<1> DEFINE fresh == [w EXCEPT !.dvm.ops[p].attempt = 0]
           reported == IF plan.kind[p] = "block" THEN CreateReports(fresh) ELSE fresh
<1>1. Limit \in Nat \ {0} /\ 0 \in 0..Limit /\ 1 \in 1..Limit
  BY DVMAssumption
<1>2. ClientsFit(w, fresh, C)
  BY <1>1, OpsSet
<1> HIDE DEF fresh
<1>3. ClientsFit(fresh, CreateReports(fresh), C)
  <2>1. fresh \in Worlds
    BY <1>2 DEF ClientsFit
  <2> QED BY <1>2, <2>1, ReportsTyped DEF ClientsFit
<1>4. ClientsFit(fresh, fresh, C)
  BY <1>2 DEF ClientsFit
<1>5. ClientsFit(w, reported, C) /\ ClientsFit(reported, reported, C)
  <2>1. ClientsFit(fresh, reported, C)
    BY <1>3, <1>4
  <2> HIDE DEF reported
  <2> QED BY <1>2, <2>1, ClientsOn DEF ClientsFit
<1>6. StartClient(w, p, broken, last) \in
         {fresh, reported, [reported EXCEPT !.pods[p] = <<Client(1)>>]}
  BY DEF StartClient, fresh
<1> HIDE DEF reported
<1>7. ClientsFit(w, [reported EXCEPT !.pods[p] = <<Client(1)>>], C)
  <2>1. Client(1) \in ClientPods /\ Client(1).own /\ Client(1).phase = "Pending"
    BY <1>1, ClientTyped
  <2>2. PICK c : c = Client(1)
    OBVIOUS
  <2>3. <<c>> \in Seq(ClientPods) /\ Own(<<c>>) /\ PodsFit(<<c>>, "none", p, C)
    BY <2>1, <2>2 DEF Own, PodsFit
  <2>4. ClientsFit(reported, [reported EXCEPT !.pods[p] = <<c>>], C)
    BY <1>5, <2>3, PodsSet
  <2> QED BY <1>5, <2>2, <2>4, ClientsOn
<1> QED BY <1>2, <1>5, <1>6, <1>7

\* A list with some of its pods deleted is the DVM's still.
LEMMA AlikeOwn ==
    ASSUME NEW s, NEW t, Alike(s, t), NEW p, NEW C, Own(s), PodsFit(s, "none", p, C)
    PROVE  t \in Seq(ClientPods) /\ Own(t) /\ PodsFit(t, "none", p, C)
BY AlikeFits DEF Alike

\* A client that failed is replaced.
LEMMA RetryKeeps ==
    ASSUME NEW w, NEW C, ClientsFit(w, w, C), NEW p \in PVCs, NEW broken,
           w.pods[p] # <<>>, Retried(Last(w.pods[p]))
    PROVE  ClientsFit(w, RetryClient(w, p, broken), C)
<1> DEFINE s == w.pods[p]
           old == Last(s)
           noted == [w EXCEPT !.dvm.ops[p].attempt = old.attempt]
           left == Fade(s, LAMBDA pod : pod = old)
<1>1. s \in Seq(ClientPods) /\ Own(s) /\ PodsFit(s, "none", p, C)
  BY WorldFields DEF ClientsFit
<1>2. old \in ClientPods
  BY <1>1, LastIn
<1>3. /\ old.attempt \in 1..Limit /\ old.attempt \in 0..Limit /\ old.attempt + 1 \in 1..Limit
  BY <1>2, DVMAssumption DEF Retried, ClientPods
<1>4. Alike(s, left)
  <2> DEFINE G == {i \in DOMAIN s : s[i] = old}
  <2>1. left = [i \in DOMAIN s |-> IF s[i] = old THEN [s[i] EXCEPT !.going = TRUE] ELSE s[i]]
    BY DEF Fade
  <2> HIDE DEF left, old
  <2>2. left = [i \in DOMAIN s |-> IF i \in G THEN [s[i] EXCEPT !.going = TRUE] ELSE s[i]]
    BY <2>1
  <2> HIDE DEF G, s
  <2> QED BY <1>1, <2>2, FadedPods
<1>5. RetryClient(w, p, broken) \in
          {noted, [noted EXCEPT !.pods[p] = left],
           [noted EXCEPT !.pods[p] = Append(left, Client(old.attempt + 1))]}
  BY DEF RetryClient
<1>6. ClientsFit(w, noted, C)
  BY <1>3, OpsSet
<1> HIDE DEF noted, left
<1>7. ClientsFit(noted, noted, C)
  BY <1>6 DEF ClientsFit
<1>8. left \in Seq(ClientPods) /\ Own(left) /\ PodsFit(left, "none", p, C)
  BY <1>1, <1>4, AlikeOwn
<1>9. ClientsFit(w, [noted EXCEPT !.pods[p] = left], C)
  BY <1>6, <1>7, <1>8, PodsSet, ClientsOn
<1>10. PICK c : c = Client(old.attempt + 1)
  OBVIOUS
<1>11. c \in ClientPods /\ c.own /\ c.phase = "Pending"
  BY <1>3, <1>10, ClientTyped
<1>12. /\ Append(left, c) \in Seq(ClientPods)
       /\ Own(Append(left, c)) /\ PodsFit(Append(left, c), "none", p, C)
  <2>1. /\ Append(left, c) \in Seq(ClientPods)
        /\ \A i \in DOMAIN Append(left, c) :
              Append(left, c)[i] = c \/ (i \in DOMAIN left /\ Append(left, c)[i] = left[i])
    BY <1>8, <1>11, Appended
  <2>2. PICK t : t = Append(left, c)
    OBVIOUS
  <2> QED BY <1>8, <1>11, <2>1, <2>2 DEF Own, PodsFit
<1>13. ClientsFit(w, [noted EXCEPT !.pods[p] = Append(left, c)], C)
  BY <1>6, <1>7, <1>12, PodsSet, ClientsOn
<1> QED BY <1>5, <1>6, <1>9, <1>10, <1>13

\* A client whose machine runs again is cancelled.
LEMMA CancelKeeps ==
    ASSUME NEW w, NEW C, ClientsFit(w, w, C), NEW p \in PVCs
    PROVE  ClientsFit(w, CancelClient(w, p), C)
<1> DEFINE s == w.pods[p]
           left == Fade(s, Cancellable)
           t == [i \in DOMAIN s |-> [left[i] EXCEPT !.seen = FALSE]]
           u == [w EXCEPT !.dvmp[p] = "none"]
<1>1. s \in Seq(ClientPods) /\ Own(s) /\ PodsFit(s, "none", p, C) /\ w \in Worlds
  BY WorldFields DEF ClientsFit
<1>2. \/ CancelClient(w, p) = w
      \/ CancelClient(w, p) = [u EXCEPT !.pods[p] = t]
  BY DEF CancelClient
<1>3. Alike(s, left)
  <2> DEFINE G == {i \in DOMAIN s : Cancellable(s[i])}
  <2>1. left = [i \in DOMAIN s |-> IF Cancellable(s[i]) THEN [s[i] EXCEPT !.going = TRUE] ELSE s[i]]
    BY DEF Fade
  <2> HIDE DEF left
  <2>2. left = [i \in DOMAIN s |-> IF i \in G THEN [s[i] EXCEPT !.going = TRUE] ELSE s[i]]
    BY <2>1
  <2> HIDE DEF G, s
  <2> QED BY <1>1, <2>2, FadedPods
<1> HIDE DEF left
<1>4. Alike(s, t)
  <2>1. \A i \in DOMAIN s :
           left[i] \in ClientPods /\ left[i].own = s[i].own /\ left[i].phase = s[i].phase
    BY <1>3, LenProperties DEF Alike
  <2>2. \A i \in DOMAIN s :
           t[i] \in ClientPods /\ t[i].own = s[i].own /\ t[i].phase = s[i].phase
    <3>1. ASSUME NEW i \in DOMAIN s, NEW e \in ClientPods, e = left[i]
          PROVE  t[i] \in ClientPods /\ t[i].own = e.own /\ t[i].phase = e.phase
      <4>1. t[i] = [e EXCEPT !.seen = FALSE]
        BY <3>1
      <4> HIDE DEF t, s
      <4> QED BY <4>1, MarkedPods
    <3> HIDE DEF t, s
    <3> QED BY <2>1, <3>1
  <2>3. t \in [DOMAIN s -> ClientPods]
    BY <2>2
  <2> HIDE DEF t, s
  <2> QED BY <1>1, <2>2, <2>3, AlikePods
<1>5. t \in Seq(ClientPods) /\ Own(t) /\ PodsFit(t, "none", p, C)
  <2> HIDE DEF t, s
  <2> QED BY <1>1, <1>4, AlikeOwn
<1> HIDE DEF t
<1>6. ClientsFit(w, u, C)
  <2> DEFINE m == [w.dvmp EXCEPT ![p] = "none"]
             v == [w EXCEPT !.dvmp = m]
  <2>1. w.dvmp \in [PVCs -> Progresses]
    BY <1>1, WorldFields
  <2>2. m \in [PVCs -> Progresses] /\ \A q \in PVCs : m[q] \in {w.dvmp[q], "none"}
    BY <2>1 DEF Progresses
  <2>3. u = v
    OBVIOUS
  <2> HIDE DEF m
  <2>4. v \in Worlds /\ v.dvmp = m /\ v.pods = w.pods
    BY <1>1, <2>2 DEF Worlds
  <2> HIDE DEF u, v
  <2> QED BY <2>2, <2>3, <2>4 DEF ClientsFit
<1> HIDE DEF u
<1>7. ClientsFit(u, u, C)
  BY <1>6 DEF ClientsFit
<1>8. ClientsFit(w, [u EXCEPT !.pods[p] = t], C)
  BY <1>5, <1>6, <1>7, PodsSet, ClientsOn
<1> QED BY <1>2, <1>8

\* A client is judged by its phase.
LEMMA JudgeClientKeeps ==
    ASSUME NEW w, NEW C, ClientsFit(w, w, C), NEW p \in PVCs, w.pods[p] # <<>>
    PROVE  ClientsFit(w, JudgeClient(w, p), C)
<1> DEFINE pod == Last(w.pods[p])
           o == [ attempt |-> pod.attempt,
                  result |-> IF pod.phase \in Terminal THEN pod.phase ELSE "" ]
<1>1. w.pods[p] \in Seq(ClientPods)
  BY WorldFields DEF ClientsFit
<1>2. pod \in ClientPods
  BY <1>1, LastIn
<1> HIDE DEF pod
<1>3. pod.attempt \in 0..Limit
  BY <1>2, DVMAssumption DEF ClientPods
<1>4. o \in [attempt : 0..Limit, result : {""} \cup Terminal]
  BY <1>3
<1>5. \/ JudgeClient(w, p) = [w EXCEPT !.dvm.ops[p] = o]
      \/ JudgeClient(w, p) = [CancelClient(w, p) EXCEPT !.dvm.ops[p] = o]
  BY DEF JudgeClient, pod
<1> HIDE DEF o
<1>6. PICK u : u = CancelClient(w, p)
  OBVIOUS
<1>7. ClientsFit(w, u, C) /\ ClientsFit(u, u, C)
  BY <1>6, CancelKeeps DEF ClientsFit
<1>8. ClientsFit(w, [u EXCEPT !.dvm.ops[p] = o], C)
  BY <1>4, <1>7, OpsSet, ClientsOn
<1>9. ClientsFit(w, [w EXCEPT !.dvm.ops[p] = o], C)
  BY <1>4, OpsSet
<1> QED BY <1>5, <1>6, <1>8, <1>9

\* The client of a volume takes one of these branches.
LEMMA ClientKeeps ==
    ASSUME NEW w, NEW C, ClientsFit(w, w, C), NEW p \in PVCs, NEW broken, NEW last
    PROVE  ClientsFit(w, RsyncClient(w, p, broken, last), C)
<1>1. CASE w.dvm.ops[p].result # ""
  BY <1>1 DEF RsyncClient
<1>2. CASE w.dvm.ops[p].result = "" /\ w.pods[p] = <<>>
  BY <1>2, StartKeeps DEF RsyncClient
<1>3. CASE w.dvm.ops[p].result = "" /\ w.pods[p] # <<>>
  BY <1>3, RetryKeeps, JudgeClientKeeps DEF RsyncClient
<1> QED BY <1>1, <1>2, <1>3

\* So do the clients of all volumes at once.
LEMMA ClientsKeep ==
    ASSUME NEW w, NEW C, NEW P, Fit(w, C, P), OwnPods(w), NEW broken, NEW last
    PROVE  LET v == RsyncClients(w, broken, last)
           IN  Onward(w, v, C, P) /\ v.vms = w.vms /\ OwnPods(v)
<1> DEFINE after == [p \in PVCs |-> RsyncClient(w, p, p \in broken, last)]
           s == [p \in PVCs |-> after[p].pods[p]]
           o == [p \in PVCs |-> after[p].dvm.ops[p]]
           m == [p \in PVCs |->
                      IF \E q \in PVCs : after[q].dvmp[p] # w.dvmp[p]
                      THEN after[CHOOSE q \in PVCs : after[q].dvmp[p] # w.dvmp[p]].dvmp[p]
                      ELSE w.dvmp[p]]
           e == [w.dvm EXCEPT !.ops = o]
           v == [[[w EXCEPT !.pods = s] EXCEPT !.dvm = e] EXCEPT !.dvmp = m]
<1>1. w \in Worlds /\ w.dvm \in DVMs /\ ClientsFit(w, w, C)
  BY WorldFields, ClientsStay DEF Fit
<1>2. \A p \in PVCs : ClientsFit(w, after[p], C)
  <2> TAKE p \in PVCs
  <2>1. after[p] = RsyncClient(w, p, p \in broken, last)
    OBVIOUS
  <2> QED BY <1>1, <2>1, ClientKeeps
<1>3. RsyncClients(w, broken, last) = v
  BY DEF RsyncClients
<1> HIDE DEF after
<1>4. \A q \in PVCs : after[q] \in Worlds
  BY <1>2 DEF ClientsFit
<1>5. s \in [PVCs -> Seq(ClientPods)]
      /\ \A p \in PVCs : Own(s[p]) /\ PodsFit(s[p], "none", p, C)
  <2>1. \A p \in PVCs : s[p] \in Seq(ClientPods) /\ Own(s[p]) /\ PodsFit(s[p], "none", p, C)
    BY <1>2, <1>4, WorldFields DEF ClientsFit
  <2> QED BY <2>1
<1>6. o \in [PVCs -> [attempt : 0..Limit, result : {""} \cup Terminal]]
  <2>1. \A q \in PVCs : after[q].dvm.ops \in
           [PVCs -> [attempt : 0..Limit, result : {""} \cup Terminal]]
    BY <1>4, WorldFields DEF DVMs
  <2> QED BY <2>1
<1>7. \A p \in PVCs : m[p] \in {w.dvmp[p], "", "none"}
  <2> TAKE p \in PVCs
  <2>1. CASE \E q \in PVCs : after[q].dvmp[p] # w.dvmp[p]
    <3>1. PICK q \in PVCs : m[p] = after[q].dvmp[p]
      BY <2>1
    <3> QED BY <1>2, <3>1 DEF ClientsFit
  <2>2. CASE ~\E q \in PVCs : after[q].dvmp[p] # w.dvmp[p]
    BY <2>2
  <2> QED BY <2>1, <2>2
<1>8. m \in [PVCs -> Progresses]
  <2>1. \A p \in PVCs : m[p] \in Progresses
    BY <1>1, <1>7, WorldFields DEF Progresses
  <2>2. m = [p \in PVCs |-> m[p]]
    OBVIOUS
  <2> HIDE DEF m
  <2> QED BY <2>1, <2>2
<1> HIDE DEF s, o, m
<1>9. e \in DVMs /\ SameStatus(w.dvm, e)
  BY <1>1, <1>6, StatusTyped
<1> HIDE DEF e
<1>10. v \in Worlds
  BY <1>1, <1>5, <1>8, <1>9 DEF Worlds
<1>11. /\ v.pods = s /\ v.dvmp = m /\ v.dvm = e /\ v.vms = w.vms /\ v.servers = w.servers
       /\ v.missed = w.missed
  BY <1>1 DEF Worlds
<1> HIDE DEF v
<1>12. \A p \in PVCs : PodsFit(v.pods[p], v.dvmp[p], p, C)
  <2> TAKE p \in PVCs
  <2>1. w.dvmp[p] = "Succeeded" => p \in C
    BY DEF Fit, PodsFit
  <2> QED BY <1>5, <1>7, <1>11, <2>1 DEF PodsFit
<1>13. OwnPods(v)
  BY <1>5, <1>11 DEF OwnPods
<1>14. Onward(w, v, C, P)
  BY <1>9, <1>10, <1>11, <1>12, <1>13, PodsOnward
<1> QED BY <1>3, <1>11, <1>13, <1>14

-----------------------------------------------------------------------------
(* Reports and live migrations *)

\* What a progress report says next.
LEMMA ProgressFits ==
    ASSUME NEW w \in Worlds, NEW p \in PVCs, NEW C, NEW unlabelled,
           PodsFit(w.pods[p], w.dvmp[p], p, C), w.dvmp[p] # "none"
    PROVE  LET r == ProgressWithout(w, p, unlabelled)
           IN  /\ Alike(w.pods[p], r.pods) /\ r.phase \in Progresses
               /\ PodsFit(r.pods, r.phase, p, C)
<1> DEFINE ps == w.pods[p]
           read == {i \in DOMAIN ps : ~ps[i].seen /\ i \notin unlabelled}
           phase == IF read = {} THEN w.dvmp[p] ELSE ps[Max(read)].phase
           t == [i \in DOMAIN ps |->
                      [ps[i] EXCEPT !.seen = @ \/ (i \in read /\ ps[i].phase \in Terminal)]]
<1>1. ps \in Seq(ClientPods) /\ w.dvmp[p] \in Progresses
  BY WorldFields
<1>2. \A i \in DOMAIN ps : ps[i] \in ClientPods
  BY <1>1, LenProperties
<1>3. ASSUME read # {} PROVE Max(read) \in DOMAIN ps
  <2>1. Len(ps) \in Nat /\ DOMAIN ps = 1..Len(ps)
    BY <1>1, LenProperties
  <2>2. read \in SUBSET (1..Len(ps))
    BY <2>1
  <2>3. \A i \in read : i \in DOMAIN ps
    OBVIOUS
  <2> HIDE DEF read, ps
  <2> QED BY <1>3, <2>1, <2>2, <2>3, Greatest
<1>4. \A i \in DOMAIN ps :
         t[i] \in ClientPods /\ t[i].own = ps[i].own /\ t[i].phase = ps[i].phase
  <2> TAKE i \in DOMAIN ps
  <2>1. PICK b \in BOOLEAN : b = (ps[i].seen \/ (i \in read /\ ps[i].phase \in Terminal))
    OBVIOUS
  <2>2. t[i] = [ps[i] EXCEPT !.seen = b]
    BY <2>1
  <2> HIDE DEF t, ps
  <2> QED BY <1>2, <2>2, MarkedPods
<1>5. t \in [DOMAIN ps -> ClientPods]
  BY <1>4
<1>6. ProgressWithout(w, p, unlabelled) = [phase |-> phase, pods |-> t]
  BY DEF ProgressWithout
<1>7. Own(ps)
  BY DEF PodsFit
<1>8. phase \in Progresses /\ (phase = "Succeeded" => p \in C)
  <2>1. CASE read = {}
    BY <1>1, <2>1 DEF PodsFit
  <2>2. CASE read # {}
    <3>1. PICK k \in DOMAIN ps : k = Max(read)
      BY <1>3, <2>2
    <3>2. phase = ps[k].phase
      BY <2>2, <3>1
    <3>3. ps[k].phase \in PodPhases /\ ps[k].own
      BY <1>2, <1>7 DEF ClientPods, Own
    <3>4. ps[k].own /\ ps[k].phase = "Succeeded" => p \in C
      BY DEF PodsFit
    <3> HIDE DEF phase, ps
    <3> QED BY <3>2, <3>3, <3>4 DEF Progresses
  <2> QED BY <2>1, <2>2
<1> HIDE DEF t, phase
<1>9. Alike(ps, t)
  BY <1>1, <1>4, <1>5, AlikePods
<1>10. PodsFit(t, phase, p, C)
  <2>1. PodsFit(ps, w.dvmp[p], p, C)
    OBVIOUS
  <2> HIDE DEF ps
  <2>2. PodsFit(t, w.dvmp[p], p, C) /\ Own(t)
    BY <1>7, <1>9, <2>1, AlikeFits
  <2> QED BY <1>8, <2>2 DEF PodsFit
<1> QED BY <1>6, <1>8, <1>9, <1>10

\* The progress controller reports meanwhile.
LEMMA RefreshKeeps ==
    ASSUME NEW w, NEW C, NEW P, Fit(w, C, P), NEW some
    PROVE  /\ Onward(w, Refresh(w, some), C, P)
           /\ Refresh(w, some).vms = w.vms /\ Refresh(w, some).dvm = w.dvm
           /\ Refresh(w, some).servers = w.servers
<1> DEFINE m == [p \in PVCs |-> IF p \in some THEN Progress(w, p).phase ELSE w.dvmp[p]]
           s == [p \in PVCs |-> IF p \in some THEN Progress(w, p).pods ELSE w.pods[p]]
           v == [[w EXCEPT !.dvmp = m] EXCEPT !.pods = s]
<1>1. Refresh(w, some) = v
  BY DEF Refresh
<1>2. w \in Worlds
  BY DEF Fit
<1>3. ASSUME NEW p \in PVCs
      PROVE  /\ m[p] \in Progresses
             /\ Alike(w.pods[p], s[p])
             /\ PodsFit(s[p], m[p], p, C)
  <2>1. /\ w.pods[p] \in Seq(ClientPods) /\ w.dvmp[p] \in Progresses
        /\ PodsFit(w.pods[p], w.dvmp[p], p, C)
    BY <1>2, WorldFields DEF Fit
  <2>2. Alike(w.pods[p], w.pods[p])
    BY <2>1 DEF Alike
  <2>3. CASE p \in some /\ w.dvmp[p] # "none"
    <3>1. m[p] = ProgressWithout(w, p, {}).phase /\ s[p] = ProgressWithout(w, p, {}).pods
      BY <2>3 DEF Progress
    <3> HIDE DEF m, s
    <3> QED BY <1>2, <2>1, <2>3, <3>1, ProgressFits
  <2>4. CASE ~(p \in some /\ w.dvmp[p] # "none")
    <3>1. m[p] = w.dvmp[p] /\ s[p] = w.pods[p]
      BY <2>4 DEF Progress
    <3> HIDE DEF m, s
    <3> QED BY <2>1, <2>2, <3>1
  <2> QED BY <2>3, <2>4
<1>4. m \in [PVCs -> Progresses]
  <2>1. m = [p \in PVCs |-> m[p]]
    OBVIOUS
  <2> HIDE DEF m
  <2> QED BY <1>3, <2>1
<1>5. s \in [PVCs -> Seq(ClientPods)]
  <2>1. s = [p \in PVCs |-> s[p]]
    OBVIOUS
  <2> HIDE DEF s
  <2> QED BY <1>3, <2>1 DEF Alike
<1> HIDE DEF m, s
<1>6. v \in Worlds
  BY <1>2, <1>4, <1>5 DEF Worlds
<1>7. /\ v.pods = s /\ v.dvmp = m /\ v.vms = w.vms /\ v.dvm = w.dvm /\ v.servers = w.servers
      /\ v.missed = w.missed
  BY <1>2 DEF Worlds
<1> HIDE DEF v
<1>8. OwnPods(w) => OwnPods(v)
  BY <1>3, <1>7, AlikeFits DEF OwnPods
<1>9. Onward(w, v, C, P)
  BY <1>3, <1>6, <1>7, <1>8, PodsOnward DEF SameStatus
<1> QED BY <1>1, <1>7, <1>9

\* The status lists the volumes.
LEMMA ReportKeeps ==
    ASSUME NEW w, NEW C, NEW P, Fit(w, C, P), NEW last
    PROVE  /\ Onward(w, Report(w, last), C, P)
           /\ Report(w, last).vms = w.vms /\ Report(w, last).dvm.ops = w.dvm.ops
           /\ Report(w, last).servers = w.servers
           /\ \A p \in PVCs : Report(w, last).dvm.report[p] = ReportOf(w, p, last)
<1> DEFINE r == [p \in PVCs |-> ReportOf(w, p, last)]
           e == [w.dvm EXCEPT !.report = r]
           v == [w EXCEPT !.dvm = e]
<1>1. Report(w, last) = v
  BY DEF Report
<1>2. w \in Worlds /\ w.dvm \in DVMs
  BY WorldFields DEF Fit
<1>3. r \in [PVCs -> Reports] /\ \A p \in PVCs : r[p] = ReportOf(w, p, last)
  BY ReportsIn
<1> HIDE DEF r
<1>4. e \in DVMs /\ SameStatus(w.dvm, e) /\ e.report = r /\ e.ops = w.dvm.ops
  BY <1>2, <1>3, StatusTyped
<1> HIDE DEF e
<1>5. v \in Worlds
  BY <1>2, <1>4, WorldMade
<1>6. /\ v.pods = w.pods /\ v.dvmp = w.dvmp /\ v.vms = w.vms /\ v.dvm = e /\ v.servers = w.servers
      /\ v.missed = w.missed
  BY <1>2 DEF Worlds
<1> HIDE DEF v
<1>7. Onward(w, v, C, P)
  BY <1>4, <1>5, <1>6, PodsOnward DEF OwnPods, Fit
<1> QED BY <1>1, <1>3, <1>4, <1>6, <1>7

\* Where a machine is sent.
LEMMA UpdateFacts ==
    ASSUME NEW v \in Engines, NEW to \in Sides
    PROVE  LET u == UpdateVM(v, to)
           IN  /\ u \in Engines /\ u.on = v.on /\ u.stale = v.stale /\ u.at = to
               /\ v.at = to => u = v
               /\ v.at # to /\ v.on = "" => u.migration = v.migration
               /\ v.at # to /\ v.on \notin {"", to} => u.migration = "pending"
               /\ v.at # to /\ v.on = to => u.migration \in {"failed", "none"}
<1>1. v.on \in Sides \cup {""} /\ to # ""
  BY DEF Sides, Engines, Machines, Unsettled
<1>2. CASE v.at = to
  BY <1>1, <1>2 DEF UpdateVM
<1>3. CASE v.at # to /\ v.on = ""
  <2>1. UpdateVM(v, to) = [v EXCEPT !.at = to]
    BY <1>1, <1>3 DEF UpdateVM
  <2> QED BY <1>1, <1>3, <2>1 DEF Engines, Machines, Unsettled
<1>4. CASE v.at # to /\ v.on \notin {"", to}
  <2>1. UpdateVM(v, to) = [[v EXCEPT !.at = to] EXCEPT !.migration = "pending"]
    BY <1>4 DEF UpdateVM
  <2> QED BY <1>1, <1>4, <2>1 DEF Engines, Machines, Unsettled
<1>5. CASE v.at # to /\ v.on = to
  <2>1. PICK m \in {"failed", "none"} :
           UpdateVM(v, to) = [[v EXCEPT !.at = to] EXCEPT !.migration = m]
    BY <1>1, <1>5 DEF UpdateVM
  <2> QED BY <1>1, <1>5, <2>1 DEF Engines, Machines, Unsettled
<1> QED BY <1>2, <1>3, <1>4, <1>5

\* What starting the live migrations does to a machine.
Launching(v, u, P) ==
    \/ u = v
    \/ /\ P.live /\ P.mode # "Stage"
       /\ v.at # u.at /\ u.on = v.on /\ u.stale = v.stale
       /\ Forth(P) => u.at = "target" /\ (v.on = "source" => u.migration = "pending")

\* Machines are sent to their targets while no server mounts them.
LEMMA StartLiveKeeps ==
    ASSUME NEW w, NEW C, plan \in Facts, Fit(w, C, plan)
    PROVE  /\ Onward(w, StartLiveMigrations(w), C, plan)
           /\ StartLiveMigrations(w).dvm = w.dvm
           /\ \A p \in PVCs : Launching(w.vms[p], StartLiveMigrations(w).vms[p], plan)
<1> DEFINE sent(p) == /\ plan.live /\ plan.mode # "Stage" /\ InUse(w, "start", p, From)
                      /\ ~(p \in w.servers[plan.ns[p]]["block"].vols)
           m == [p \in PVCs |-> IF sent(p) THEN UpdateVM(w.vms[p], To) ELSE w.vms[p]]
           v == [w EXCEPT !.vms = m]
<1>1. StartLiveMigrations(w) = v
  BY DEF StartLiveMigrations
<1>2. w \in Worlds /\ \A p \in PVCs : w.vms[p] \in Engines
  BY WorldFields DEF Fit
<1>3. To \in Sides /\ (Forth(plan) => To = "target" /\ From = "source")
  BY DEF To, From, Sides, Forth
<1>4. ASSUME NEW p \in PVCs
      PROVE  /\ m[p] \in Engines
             /\ Launching(w.vms[p], m[p], plan)
             /\ m[p] = w.vms[p] \/ p \notin w.servers[plan.ns[p]]["block"].vols
             /\ Forth(plan) => /\ MachineFit(m[p], p, C, plan)
                               /\ Untouched(m[p])
                               /\ Launched(m[p], w.dvm, plan)
  <2> DEFINE a == w.vms[p]
             u == UpdateVM(a, To)
  <2>1. /\ a \in Engines
        /\ Forth(plan) => /\ MachineFit(a, p, C, plan) /\ Untouched(a)
                          /\ Launched(a, w.dvm, plan)
    BY <1>2 DEF Fit
  <2>2. CASE ~sent(p) \/ u = a
    <3>1. m[p] = a
      BY <2>2
    <3> HIDE DEF m, a, u, sent
    <3>2. Launching(a, m[p], plan)
      BY <3>1 DEF Launching
    <3> QED BY <2>1, <3>1, <3>2 DEF a
  <2>3. CASE sent(p) /\ u # a
    <3>1. m[p] = u
      BY <2>3
    <3>2. /\ u \in Engines /\ u.on = a.on /\ u.stale = a.stale /\ u.at = To
          /\ a.at # To
          /\ a.on \notin {"", To} => u.migration = "pending"
      BY <1>3, <2>1, <2>3, UpdateFacts
    <3>3. Forth(plan) => a.on = "source" \/ "source" \in a.stale
      BY <1>3, <2>3 DEF InUse
    <3>4. p \notin w.servers[plan.ns[p]]["block"].vols /\ plan.live /\ plan.mode # "Stage"
      BY <2>3
    <3>5. a.at \in Sides /\ a.on \in Sides \cup {""}
      BY <2>1 DEF Engines, Machines, Unsettled
    <3> HIDE DEF m, a, u, sent
    <3>6. ASSUME Forth(plan)
          PROVE  /\ a.at = "source" /\ a.migration = "none" /\ a.on = "source" /\ a.stale = {}
                 /\ u.at = "target" /\ u.migration = "pending" /\ u.on = "source"
      BY <1>3, <2>1, <3>2, <3>3, <3>5, <3>6 DEF Untouched, Sides
    <3>7. Launching(a, u, plan)
      BY <3>2, <3>4, <3>6 DEF Launching
    <3>8. ASSUME Forth(plan)
          PROVE  MachineFit(u, p, C, plan) /\ Untouched(u) /\ Launched(u, w.dvm, plan)
      BY <3>4, <3>6, <3>8 DEF MachineFit, Untouched, Launched, Unsettled
    <3> QED BY <3>1, <3>2, <3>4, <3>7, <3>8 DEF a
  <2> QED BY <2>2, <2>3
<1>5. m \in [PVCs -> Engines]
  <2>1. m = [p \in PVCs |-> m[p]]
    OBVIOUS
  <2> HIDE DEF m
  <2> QED BY <1>4, <2>1
<1> HIDE DEF m
<1>6. v \in Worlds
  BY <1>2, <1>5, WorldMade
<1>7. /\ v.pods = w.pods /\ v.dvmp = w.dvmp /\ v.vms = m /\ v.dvm = w.dvm /\ v.servers = w.servers
      /\ v.missed = w.missed
  BY <1>2 DEF Worlds
<1> HIDE DEF v
<1>8. ServersFit(v, plan)
  <2>1. ServersFit(w, plan)
    BY DEF Fit
  <2> QED BY <1>4, <1>7, <2>1 DEF ServersFit, Heard
<1>9. Onward(w, v, C, plan)
  BY <1>4, <1>6, <1>7, <1>8, MachinesOnward
<1> QED BY <1>1, <1>4, <1>7, <1>9

\* The end of the phase.
Settled(w, rsynced) ==
    /\ rsynced /\ AllReportingCompleted(w) /\ ~AnyMigrationFailed(w)
    /\ Forth(plan) => \A p \in PVCs : w.dvm.ops[p].result # "Failed"

\* The end of runRsyncOperations, and that it goes on when all is settled.
LEMMA JudgeKeeps ==
    ASSUME NEW w, NEW C, plan \in Facts, Fit(w, C, plan), NEW rsynced, NEW r \in Judge(w, rsynced)
    PROVE  /\ Onward(w, r.world, C, plan)
           /\ r.how \in {"next", "stay", "critical"}
           /\ r.how = "next" => r.world = w /\ Settled(w, rsynced)
<1> DEFINE failing == rsynced /\ plan.mode # "Rollback"
                   /\ \E p \in PVCs : w.dvm.ops[p].result = "Failed"
           how(verdict) ==
            CASE verdict = "error" -> "critical"
              [] verdict # "error" /\ ~(rsynced /\ AllReportingCompleted(w)) -> "stay"
              [] OTHER -> IF failing \/ AnyMigrationFailed(w) THEN "critical" ELSE "next"
<1>1. CASE failing
  <2>1. PICK v \in Refreshed(w) : \E verdict \in NetworkVerdicts(v) :
           r = Left([v EXCEPT !.dvm.network = @ \/ verdict = "timeouts"], how(verdict))
    BY <1>1 DEF Judge
  <2>2. PICK verdict \in NetworkVerdicts(v) :
           r = Left([v EXCEPT !.dvm.network = @ \/ verdict = "timeouts"], how(verdict))
    BY <2>1
  <2>3. how(verdict) \in {"stay", "critical"}
    BY <1>1
  <2>4. PICK some : v = Refresh(w, some)
    BY DEF Refreshed
  <2>5. Onward(w, v, C, plan)
    BY <2>4, RefreshKeeps
  <2>6. v \in Worlds /\ v.dvm \in DVMs /\ v.dvm.network \in BOOLEAN
    BY <2>5, WorldFields DEF Onward, Fit, DVMs
  <2>7. PICK b \in BOOLEAN : b = (v.dvm.network \/ verdict = "timeouts")
    BY <2>6
  <2>8. PICK e : e = [v.dvm EXCEPT !.network = b]
    OBVIOUS
  <2>9. [v EXCEPT !.dvm.network = @ \/ verdict = "timeouts"] = [v EXCEPT !.dvm = e]
    BY <2>7, <2>8
  <2>10. PICK u : u = [v EXCEPT !.dvm = e]
    OBVIOUS
  <2>11. e \in DVMs /\ SameStatus(v.dvm, e)
    BY <2>6, <2>8, StatusTyped
  <2>12. /\ u \in Worlds /\ u.pods = v.pods /\ u.dvmp = v.dvmp /\ u.vms = v.vms
         /\ u.servers = v.servers /\ u.dvm = e /\ u.missed = v.missed
    BY <2>6, <2>10, <2>11 DEF Worlds
  <2>13. Onward(v, u, C, plan)
    BY <2>5, <2>11, <2>12, PodsOnward DEF Onward, OwnPods, Fit
  <2>14. r.world = u /\ r.how = how(verdict)
    BY <2>2, <2>9, <2>10 DEF Left
  <2> HIDE DEF how
  <2> QED BY <2>3, <2>5, <2>13, <2>14, OnwardOn
<1>2. CASE ~failing
  <2>1. r = Left(w, how("other"))
    BY <1>2 DEF Judge
  <2>2. /\ how("other") \in {"next", "stay", "critical"}
        /\ how("other") = "next" => rsynced /\ AllReportingCompleted(w) /\ ~AnyMigrationFailed(w)
    BY <1>2
  <2>3. r.world = w /\ r.how = how("other")
    BY <2>1 DEF Left
  <2> HIDE DEF how
  <2>4. Onward(w, w, C, plan)
    BY OnwardStay
  <2> QED BY <1>2, <2>2, <2>3, <2>4 DEF Settled, Forth
<1> QED BY <1>1, <1>2

\* The data of a volume has been moved, with its machine if it has one.
Landed(p, w, d, C, P) ==
    Told(p, w, d, C, P) /\ (Followed(w, p) => ~Torn(w.vms[p]))

\* What has settled has moved all the data.
LEMMA SettledMoved ==
    ASSUME NEW w, NEW C, plan \in Facts, Fit(w, C, plan), Forth(plan), NEW last, NEW rsynced,
           Settled(StartLiveMigrations(Report(w, last)), rsynced), NEW p \in PVCs
    PROVE  LET y == StartLiveMigrations(Report(w, last)) IN Landed(p, y, y.dvm, C, plan)
<1> DEFINE x == Report(w, last)
           y == StartLiveMigrations(x)
           v == w.vms[p]
           u == y.vms[p]
           report == ReportOf(w, p, last)
<1>1. /\ Fit(x, C, plan) /\ x.vms = w.vms /\ x.dvm.ops = w.dvm.ops
      /\ x.dvm.report[p] = report /\ x.missed = w.missed
  BY ReportKeeps DEF Onward
<1> HIDE DEF x
<1>2. /\ y.dvm = x.dvm /\ Launching(x.vms[p], y.vms[p], plan)
      /\ y.missed = w.missed /\ y.unread \subseteq y.missed
  BY <1>1, StartLiveKeeps, WorldFields DEF Onward, Fit
<1> HIDE DEF y
<1>3. Settled(y, rsynced)
  BY DEF x, y
<1>4. /\ y.dvm.report[p] = report /\ report \in Reported
      /\ w.dvm.ops[p].result # "Failed"
      /\ Launching(v, u, plan)
  BY <1>1, <1>2, <1>3 DEF Settled, AllReportingCompleted
<1>5. /\ MachineFit(v, p, C, plan) /\ Untouched(v) /\ v \in Engines
      /\ PodsFit(w.pods[p], w.dvmp[p], p, C)
  BY WorldFields DEF Fit
<1>6. plan.mode \in {"Stage", "CutOver"}
  BY DEF Facts, Modes, Forth
<1>7. CASE LeftToVM(w, "names", p) /\ plan.mode = "Stage"
  <2>1. report = "skipped"
    BY <1>4, <1>7 DEF ReportOf, Reported
  <2>2. u = v /\ v.at = "source"
    BY <1>4, <1>5, <1>7 DEF Launching, MachineFit
  <2> HIDE DEF report, u, v
  <2> QED BY <1>4, <1>7, <2>1, <2>2 DEF Landed, Told, Torn, x, y, u
<1>8. CASE LeftToVM(w, "names", p) /\ plan.mode = "CutOver"
  <2>1. report = LiveReport(w, p)
    BY <1>8 DEF ReportOf
  <2>2. plan.live /\ (v.on = "source" \/ "source" \in v.stale)
    BY <1>8 DEF LeftToVM, InUse
  <2>3. CASE v.migration = "succeeded"
    <3> HIDE DEF v, u
    <3>1. p \in C /\ v.at = "target" /\ v.on \in {"", "target"}
      BY <1>5, <2>3 DEF MachineFit, Untouched, Sides, Engines, Machines, Unsettled
    <3>2. ~Torn(u)
      BY <1>4, <3>1 DEF Launching, Torn
    <3> QED BY <3>1, <3>2 DEF Landed, Told, x, y, u
  <2>4. CASE v.migration # "succeeded"
    <3>1. v.migration \in {"failed", "refused"}
      BY <1>4, <2>1, <2>4 DEF LiveReport, Reported
    <3> HIDE DEF v, u
    <3>2. u = v
      BY <1>4, <1>5, <3>1, <1>6 DEF Launching, Untouched, Sides, Engines, Machines, Unsettled
    <3>3. ASSUME Heard(y, {"verdict"}, p) PROVE FALSE
      <4>1. InUse(y, "verdict", p, "source") /\ u.migration \in {"failed", "refused"}
        BY <1>2, <2>2, <3>1, <3>2, <3>3 DEF InUse, Heard, u, v
      <4>2. AnyMigrationFailed(y)
        BY <1>8, <2>2, <4>1 DEF AnyMigrationFailed, u
      <4> QED BY <1>3, <4>2 DEF Settled
    <3> QED BY <3>3 DEF Landed, Told, Followed, Heard, x, y
  <2> QED BY <2>3, <2>4
<1>9. CASE ~LeftToVM(w, "names", p)
  <2>1. report = RsyncReport(w, p)
    BY <1>6, <1>9 DEF ReportOf
  <2>2. w.dvmp[p] = "Succeeded"
    BY <1>4, <2>1 DEF RsyncReport, Reported
  <2>3. p \in C
    BY <1>5, <2>2 DEF PodsFit
  <2>4. Heard(y, {"names"}, p) => ~plan.live \/ v.on # "source"
    BY <1>2, <1>9, WorldFields DEF LeftToVM, InUse, Heard, Fit
  <2> HIDE DEF v, u
  <2>5. Heard(y, {"names"}, p) => ~Torn(u)
    BY <1>4, <1>5, <2>4 DEF Launching, Torn, MachineFit
  <2> QED BY <2>3, <2>5 DEF Landed, Told, Followed, Heard, x, y, u
<1> QED BY <1>6, <1>7, <1>8, <1>9

\* A world that RunRsyncOperations may leave, and how the pass goes on.
Outcome(w, r, C, P) ==
    /\ Onward(w, r.world, C, P)
    /\ r.how \in {"next", "stay", "critical"}
    /\ r.how = "next" /\ Forth(P) =>
          \A p \in PVCs : Landed(p, r.world, r.world.dvm, C, P)

\* Its end, from a world with the reports of the progress.
LEMMA EndsWell ==
    ASSUME NEW w, NEW C, plan \in Facts, Fit(w, C, plan), NEW last, NEW rsynced,
           NEW r \in Judge(StartLiveMigrations(Report(w, last)), rsynced)
    PROVE  Outcome(w, r, C, plan)
<1> DEFINE x == Report(w, last)
           y == StartLiveMigrations(x)
<1>1. Onward(w, x, C, plan)
  BY ReportKeeps
<1>2. Fit(x, C, plan)
  BY <1>1 DEF Onward
<1>3. Onward(x, y, C, plan)
  BY <1>2, StartLiveKeeps
<1>4. Fit(y, C, plan)
  BY <1>3 DEF Onward
<1>5. /\ Onward(y, r.world, C, plan) /\ r.how \in {"next", "stay", "critical"}
      /\ r.how = "next" => r.world = y /\ Settled(y, rsynced)
  BY <1>4, JudgeKeeps
<1>6. Onward(w, r.world, C, plan)
  BY <1>1, <1>3, <1>5, OnwardOn
<1>7. ASSUME r.how = "next", Forth(plan), NEW p \in PVCs
      PROVE  Landed(p, r.world, r.world.dvm, C, plan)
  BY <1>5, <1>7, SettledMoved
<1> QED BY <1>5, <1>6, <1>7 DEF Outcome

\* An outcome is one of every world before.
LEMMA OutcomeOn ==
    ASSUME NEW w, NEW v, NEW r, NEW C, NEW P, Onward(w, v, C, P), Outcome(v, r, C, P)
    PROVE  Outcome(w, r, C, P)
BY OnwardOn DEF Outcome

\* Rsync runs when the pods are this DVM's, which a way back need not ask.
LEMMA RsyncKeeps ==
    ASSUME NEW C, plan \in Facts, Fit(World, C, plan), ~Swept(World.dvm),
           Forth(plan) => OwnPods(World), NEW r \in RunRsyncOperations
    PROVE  Outcome(World, r, C, plan)
<1> DEFINE a == Sweep(World)
<1>1. Onward(World, a, C, plan) /\ Fit(a, C, plan)
  BY SweepKeeps DEF Onward
<1>2. CASE plan.mode = "Rollback"
  <2>1. PICK w \in Refreshed(a) :
           \E last : r \in Judge(StartLiveMigrations(Report(w, last)), TRUE)
    <3> DEFINE A == Refreshed(a)
               J(w, last) == Judge(StartLiveMigrations(Report(w, last)), TRUE)
    <3>1. PICK S : S = RunRsyncOperations
      OBVIOUS
    <3>2. S = UNION {J(w, last) : w \in A, last \in Used}
      BY <1>2, <3>1 DEF RunRsyncOperations
    <3> HIDE DEF A, J
    <3>3. \E w \in A : \E last : r \in J(w, last)
      BY <3>1, <3>2
    <3> QED BY <3>3 DEF A, J
  <2>2. PICK some : w = Refresh(a, some)
    BY <2>1 DEF Refreshed
  <2>3. Onward(a, w, C, plan) /\ Fit(w, C, plan)
    BY <1>1, <2>2, RefreshKeeps DEF Onward
  <2>4. PICK last : r \in Judge(StartLiveMigrations(Report(w, last)), TRUE)
    BY <2>1
  <2>5. Outcome(w, r, C, plan)
    BY <2>3, <2>4, EndsWell
  <2> QED BY <1>1, <2>3, <2>5, OutcomeOn
<1>3. CASE Forth(plan)
  <2> DEFINE b == Serve(a)
  <2>1. PICK broken, last : \E w \in {StartLiveMigrations(Report(x, last)) :
                                      x \in Refreshed(RsyncClients(b, broken, last))} :
           r \in Judge(w, AllCompleted(b, broken, last))
    BY <1>3 DEF RunRsyncOperations, Forth
  <2>2. PICK x \in Refreshed(RsyncClients(b, broken, last)) :
           r \in Judge(StartLiveMigrations(Report(x, last)), AllCompleted(b, broken, last))
    BY <2>1
  <2>3. Onward(a, b, C, plan) /\ Fit(b, C, plan) /\ OwnPods(b)
    <3>1. ~Swept(a.dvm) /\ OwnPods(a)
      BY <1>1, <1>3 DEF Onward, SameStatus, Swept
    <3>2. PICK c : c = IF plan.live /\ plan.mode = "CutOver" THEN EnsureBlockServer(a) ELSE a
      OBVIOUS
    <3>3. Onward(a, c, C, plan)
      BY <1>1, <1>3, <3>1, <3>2, OnwardStay, EnsureServersPlacid DEF Placid
    <3>4. Onward(c, DeleteDoneServers(c), C, plan)
      BY <3>3, DoneServersKeep DEF Onward, Placid
    <3>5. b = DeleteDoneServers(c)
      BY <3>2 DEF Serve
    <3>6. Onward(a, b, C, plan)
      BY <3>3, <3>4, <3>5, OnwardOn
    <3> QED BY <3>1, <3>6 DEF Onward
  <2>4. PICK c : c = RsyncClients(b, broken, last)
    OBVIOUS
  <2>5. Onward(b, c, C, plan) /\ Fit(c, C, plan)
    BY <2>3, <2>4, ClientsKeep DEF Onward
  <2>6. PICK some : x = Refresh(c, some)
    BY <2>2, <2>4 DEF Refreshed
  <2>7. Onward(c, x, C, plan) /\ Fit(x, C, plan)
    BY <2>5, <2>6, RefreshKeeps DEF Onward
  <2>8. Outcome(x, r, C, plan)
    BY <2>2, <2>7, EndsWell
  <2> HIDE DEF a, b
  <2> QED BY <1>1, <2>3, <2>5, <2>7, <2>8, OutcomeOn
<1> QED BY <1>2, <1>3 DEF Forth

-----------------------------------------------------------------------------
(* The handlers *)

\* The fields of the world are the variables.
LEMMA WorldIs ==
    /\ World.pods = pods /\ World.dvmp = dvmp /\ World.infra = infra
    /\ World.servers = servers /\ World.vms = vms /\ World.dvm = dvm
    /\ World.unread = unread /\ World.missed = missed
BY DEF World

\* Where a pass may find the DVM: at the start, in its itinerary, or failed.
AtStart == dvm.phase = "" /\ dvm.failed = "" /\ PhaseOf(dvm) = "Created"

InList ==
    /\ dvm.failed = "" /\ PhaseOf(dvm) = dvm.phase /\ dvm.phase # "Completed"
    /\ dvm.phase \in ElementsOf(StepsOf(Itinerary(plan)))

HasFailed ==
    /\ dvm.failed = "Warn" /\ PhaseOf(dvm) = "MigrationFailed"
    /\ ItineraryOf(dvm) = "VolumeMigrationFailed"

\* A pass finds the DVM at the start, in its itinerary or failed, and not succeeded.
LEMMA Where ==
    ASSUME Sound(World, copied, plan), Migrating
    PROVE  /\ AtStart \/ InList \/ HasFailed
           /\ ~HasFailed => ItineraryOf(dvm) = Itinerary(plan)
           /\ ~dvm.finalizer => AtStart
           /\ dvm \in DVMs /\ dvm.there = "yes" /\ ~dvm.succeeded
<1>1. dvm \in DVMs
  BY WorldIs, WorldFields DEF Sound
<1>2. StatusFit(dvm, plan) /\ CleanFit(World, plan)
  BY WorldIs DEF Sound
<1>3. dvm.failed \in {"", "Warn"} /\ dvm.phase # "Completed" /\ dvm.there = "yes"
  BY <1>1 DEF Migrating, Blocked, DVMs
<1>4. ~dvm.succeeded
  BY <1>2, <1>3 DEF StatusFit
<1>5. dvm.failed = "" => ItineraryOf(dvm) = Itinerary(plan)
  BY DEF ItineraryOf, Itinerary
<1>6. StepsOf(Itinerary(plan))[1] = "Created" /\ Itinerary(plan) # ""
  BY StepsRows, ForthRows, BackRows DEF Itinerary
<1>7. CASE dvm.phase = ""
  <2>1. dvm.failed = "" /\ dvm.itinerary = ""
    BY <1>2, <1>7 DEF StatusFit
  <2>2. PhaseOf(dvm) = "Created"
    BY <1>5, <1>6, <2>1 DEF PhaseOf
  <2> QED BY <1>1, <1>3, <1>4, <1>5, <1>7, <2>1, <2>2 DEF AtStart, HasFailed
<1>8. CASE dvm.phase # "" /\ dvm.failed = ""
  <2>1. /\ dvm.itinerary = Itinerary(plan)
        /\ dvm.phase \in ElementsOf(StepsOf(Itinerary(plan)))
    BY <1>2, <1>8 DEF StatusFit
  <2>2. PhaseOf(dvm) = dvm.phase
    BY <1>5, <1>8, <2>1 DEF PhaseOf
  <2>3. dvm.finalizer
    BY <1>2, <1>3, <1>8, WorldIs DEF CleanFit
  <2> QED BY <1>1, <1>3, <1>4, <1>5, <1>8, <2>1, <2>2, <2>3 DEF InList, HasFailed
<1>9. CASE dvm.failed = "Warn"
  <2>1. dvm.phase = "MigrationFailed"
    BY <1>2, <1>3, <1>9 DEF StatusFit
  <2>2. ItineraryOf(dvm) = "VolumeMigrationFailed"
    BY <1>9 DEF ItineraryOf
  <2>3. StepsOf("VolumeMigrationFailed")[1] = "MigrationFailed"
    BY StepsRows DEF VolumeMigrationFailed
  <2>4. PhaseOf(dvm) = "MigrationFailed"
    BY <2>1, <2>2, <2>3 DEF PhaseOf
  <2>5. dvm.finalizer
    BY <1>2, <1>3, <2>1, WorldIs DEF CleanFit
  <2> QED BY <1>1, <1>3, <1>4, <1>9, <2>2, <2>4, <2>5 DEF HasFailed
<1> QED BY <1>3, <1>7, <1>8, <1>9

\* It finds the world fit.
LEMMA WorldFit ==
    ASSUME Sound(World, copied, plan), dvm.there = "yes"
    PROVE  Fit(World, copied, plan)
BY WorldIs DEF Sound, Fit, MachinesFit

\* What a handler may do in a phase.
Handled(r, phase) ==
    /\ Onward(World, r.world, copied, plan)
    /\ r.how \in {"next", "stay", "critical"}
    /\ phase = "WaitForStaleRsyncResourcesTerminated" /\ r.how = "next" => OwnPods(r.world)
    /\ phase = "RunRsyncOperations" /\ r.how = "next" /\ Forth(plan) =>
          \A p \in PVCs : Landed(p, r.world, r.world.dvm, copied, plan)
    /\ phase # "RunRsyncOperations" => Quiet(World, r.world) /\ r.how # "critical"
    /\ phase = "CleanupStaleVirtHandlerPods" => \A p \in PVCs : r.world.vms[p].stale = {}
    /\ phase \in {"Created", "MigrationFailed"} => r.world = World

\* One that goes on at once.
LEMMA DoneHandled ==
    ASSUME NEW w, Placid(World, w, copied, plan), NEW r \in Done(w), NEW phase,
           phase \notin {"Created", "MigrationFailed", "RunRsyncOperations",
                         "CleanupStaleVirtHandlerPods", "WaitForStaleRsyncResourcesTerminated"}
    PROVE  Handled(r, phase)
<1>1. r.world = w /\ r.how = "next"
  BY DEF Done, Left
<1> QED BY <1>1 DEF Handled, Placid

\* One that waits.
LEMMA WaitHandled ==
    ASSUME Fit(World, copied, plan), NEW cond, NEW r \in IfDone(World, cond), NEW phase,
           phase \notin {"RunRsyncOperations", "CleanupStaleVirtHandlerPods"},
           phase = "WaitForStaleRsyncResourcesTerminated" /\ cond => OwnPods(World)
    PROVE  Handled(r, phase)
<1>1. r.world = World /\ r.how \in {"next", "stay"} /\ (r.how = "next" => cond)
  BY DEF IfDone, Left
<1>2. Onward(World, World, copied, plan) /\ Quiet(World, World)
  BY OnwardStay DEF Quiet
<1> QED BY <1>1, <1>2 DEF Handled

\* Quiet steps add up.
LEMMA PlacidOn ==
    ASSUME NEW w, NEW v, NEW u, NEW C, NEW P, Placid(w, v, C, P), Placid(v, u, C, P)
    PROVE  Placid(w, u, C, P)
BY OnwardOn DEF Placid, Quiet

\* Every handler, in the phase a pass finds, keeps what it is to keep.
LEMMA HandlerKeeps ==
    ASSUME Sound(World, copied, plan), plan \in Facts, Migrating,
           NEW r \in Handler(PhaseOf(dvm))
    PROVE  Handled(r, PhaseOf(dvm))
<1>1. AtStart \/ InList \/ HasFailed
  BY Where
<1>2. Fit(World, copied, plan)
  BY WorldFit, Where
<1> DEFINE phase == PhaseOf(dvm)
<1>3. ASSUME Forth(plan), phase \in Late PROVE OwnPods(World)
  <2>1. InList
    BY <1>1, <1>3 DEF AtStart, HasFailed, Late
  <2> QED BY <1>3, <2>1, WorldIs DEF InList, Sound, PhasesFit, OwnPods
<1>4. ASSUME phase \notin {"MigrationFailed", "CleanupStaleVirtHandlerPods"} PROVE ~Swept(dvm)
  BY <1>1, <1>4 DEF Swept, AtStart, InList, HasFailed
<1>5. ASSUME phase \in {"CreatePVProgressCRs", "CreateRsyncTransferPods"} PROVE Forth(plan)
  <2>1. InList
    BY <1>1, <1>5 DEF AtStart, HasFailed
  <2>2. ASSUME ~Forth(plan) PROVE FALSE
    <3>1. Itinerary(plan) = "VolumeMigrationRollback"
      BY <2>2 DEF Itinerary, Forth
    <3>2. dvm.phase \in ElementsOf(VolumeMigrationRollback)
      BY <2>1, <3>1, StepsRows DEF InList
    <3> QED BY <1>5, <2>1, <3>2, NextBack DEF InList, FollowsBack
  <2> QED BY <2>2
<1>6. CASE phase \in {"CleanStaleRsyncResources", "DeleteRsyncResources"}
  <2>1. Placid(World, DeleteRsyncResources(World), copied, plan)
    BY <1>2, DeleteListedKeeps DEF DeleteRsyncResources, Placid, Quiet
  <2> QED BY <1>6, <2>1, DoneHandled DEF Handler
<1>7. CASE phase \in {"WaitForStaleRsyncResourcesTerminated", "WaitForRsyncResourcesTerminated"}
  <2>1. NothingListed(World, TRUE) => OwnPods(World)
    BY DEF NothingListed, OwnPods, Own, Live
  <2>2. PICK cond : cond = NothingListed(World, TRUE)
    OBVIOUS
  <2>3. r \in IfDone(World, cond)
    BY <1>7, <2>2 DEF Handler
  <2>4. /\ phase \notin {"RunRsyncOperations", "CleanupStaleVirtHandlerPods"}
        /\ phase = "WaitForStaleRsyncResourcesTerminated" /\ cond => OwnPods(World)
    BY <1>7, <2>1, <2>2
  <2> QED BY <1>2, <2>3, <2>4, WaitHandled
<1>8. CASE phase = "CreateDestinationPVCs"
  BY <1>2, <1>8, EndpointsPlacid, DoneHandled DEF Handler
<1>9. CASE phase = "DeleteStaleVirtualMachineInstanceMigrations"
  BY <1>2, <1>9, StalePlacid, DoneHandled DEF Handler
<1>10. CASE phase = "CreateRsyncRoute"
  BY <1>2, <1>10, EndpointsPlacid, DoneHandled DEF Handler
<1>11. CASE phase = "EnsureRsyncRouteAdmitted"
  BY <1>2, <1>11, WaitHandled DEF Handler
<1>12. CASE phase = "CreateStunnelConfig"
  BY <1>2, <1>12, EndpointsPlacid, DoneHandled DEF Handler
<1>13. CASE phase = "CreatePVProgressCRs"
  <2>1. OwnPods(World)
    BY <1>3, <1>5, <1>13 DEF Late
  <2> QED BY <1>2, <1>13, <2>1, ReportsPlacid, DoneHandled DEF Handler
<1>14. CASE phase = "CreateRsyncTransferPods"
  <2>1. Forth(plan) /\ ~Swept(World.dvm)
    BY <1>4, <1>5, <1>14, WorldIs
  <2>2. PICK w : w = EnsureFilesystemServer(World)
    OBVIOUS
  <2>3. Placid(World, w, copied, plan)
    BY <1>2, <2>1, <2>2, EnsureServersPlacid
  <2>4. Fit(w, copied, plan) /\ ~Swept(w.dvm)
    BY <2>1, <2>3 DEF Placid, Onward, Quiet
  <2>5. Placid(World, EnsureBlockServer(w), copied, plan)
    BY <2>1, <2>3, <2>4, EnsureServersPlacid, PlacidOn
  <2> QED BY <1>14, <2>2, <2>5, DoneHandled DEF Handler
<1>15. CASE phase = "WaitForRsyncTransferPodsRunning"
  <2>1. PICK last : r \in IfDone(World, ServersRunning(World, {}, last))
    BY <1>15 DEF Handler
  <2> QED BY <1>2, <1>15, <2>1, WaitHandled
<1>16. CASE phase = "RunRsyncOperations"
  <2>1. r \in RunRsyncOperations
    BY <1>16 DEF Handler
  <2>2. ~Swept(World.dvm) /\ (Forth(plan) => OwnPods(World))
    BY <1>3, <1>4, <1>16, WorldIs DEF Late
  <2>3. Outcome(World, r, copied, plan)
    BY <1>2, <2>1, <2>2, RsyncKeeps
  <2> QED BY <1>16, <2>3 DEF Handled, Outcome
<1>17. CASE phase = "CleanupStaleVirtHandlerPods"
  <2>1. Swept(World.dvm)
    BY <1>1, <1>17, WorldIs DEF Swept, AtStart, InList, HasFailed
  <2>2. r \in Done(CleanupStaleVirtLauncherPods(World))
    BY <1>17 DEF Handler
  <2>3. r.world = CleanupStaleVirtLauncherPods(World) /\ r.how = "next"
    BY <2>2 DEF Done, Left
  <2> QED BY <1>2, <1>17, <2>1, <2>3, CleanupPlacid DEF Handled, Placid
<1>18. CASE phase \notin {"CleanStaleRsyncResources", "DeleteRsyncResources",
          "WaitForStaleRsyncResourcesTerminated", "WaitForRsyncResourcesTerminated",
          "CreateDestinationPVCs", "DeleteStaleVirtualMachineInstanceMigrations",
          "CreateRsyncRoute", "EnsureRsyncRouteAdmitted", "CreateStunnelConfig",
          "CreatePVProgressCRs", "CreateRsyncTransferPods", "WaitForRsyncTransferPodsRunning",
          "RunRsyncOperations", "CleanupStaleVirtHandlerPods"}
  <2>1. r \in Done(World)
    BY <1>18 DEF Handler
  <2>2. r.world = World /\ r.how = "next"
    BY <2>1 DEF Done, Left
  <2>3. Onward(World, World, copied, plan) /\ Quiet(World, World)
    BY <1>2, OnwardStay DEF Quiet
  <2> QED BY <1>18, <2>2, <2>3 DEF Handled
<1> QED BY <1>6, <1>7, <1>8, <1>9, <1>10, <1>11, <1>12, <1>13, <1>14, <1>15, <1>16, <1>17, <1>18

-----------------------------------------------------------------------------
(* What a pass writes *)

\* The world `u' is `v' with the DVM `e'.
Written(u, v, e) ==
    /\ u.pods = v.pods /\ u.dvmp = v.dvmp /\ u.infra = v.infra
    /\ u.servers = v.servers /\ u.vms = v.vms /\ u.missed = v.missed /\ u.dvm = e

\* A DVM that may be written with the world `v'.
Writable(v, e) ==
    /\ e \in DVMs /\ e.there = "yes" /\ e.finalizer /\ StatusFit(e, plan)
    /\ Swept(dvm) => Swept(e)
    /\ Forth(plan) /\ Moved(e) => \A p \in PVCs : Landed(p, v, e, copied, plan)
    /\ Forth(plan) /\ e.succeeded => \A p \in PVCs : v.vms[p].stale = {}
    /\ Forth(plan) /\ e.failed = "" /\ e.phase \in Late => OwnPods(v)

\* Such a DVM written with such a world is sound.
LEMMA WritesSound ==
    ASSUME copied \subseteq PVCs, NEW v, Onward(World, v, copied, plan), NEW e, Writable(v, e),
           NEW u \in Worlds, Written(u, v, e)
    PROVE  Sound(u, copied, plan)
<1>1. Fit(v, copied, plan) /\ SameStatus(dvm, v.dvm)
  BY WorldIs DEF Onward
<1>2. \A p \in PVCs : PodsFit(u.pods[p], u.dvmp[p], p, copied)
  BY <1>1 DEF Fit, Written
<1>3. ASSUME Forth(plan), NEW p \in PVCs
      PROVE  /\ MachineFit(u.vms[p], p, copied, plan)
             /\ Untouched(u.vms[p])
             /\ Launched(u.vms[p], u.dvm, plan)
             /\ Moved(u.dvm) /\ Followed(u, p) => ~Torn(u.vms[p])
             /\ u.dvm.succeeded => u.vms[p].stale = {}
  <2>1. Swept(v.dvm) => Swept(e)
    BY <1>1 DEF Writable, SameStatus, Swept
  <2>2. /\ MachineFit(v.vms[p], p, copied, plan) /\ Untouched(v.vms[p])
        /\ Launched(v.vms[p], v.dvm, plan)
    BY <1>1, <1>3 DEF Fit
  <2>3. Launched(v.vms[p], e, plan)
    BY <2>1, <2>2 DEF Launched
  <2> QED BY <1>3, <2>2, <2>3 DEF Written, Writable, Landed, Followed, Heard
<1>4. MachinesFit(u, copied, plan)
  BY <1>3 DEF MachinesFit
<1>5. ServersFit(u, plan)
  BY <1>1 DEF Fit, Written, ServersFit, Heard
<1>6. StatusFit(u.dvm, plan) /\ PhasesFit(u, copied, plan)
  BY DEF Written, Writable, PhasesFit, OwnPods, Landed, Told, Heard
<1>7. CleanFit(u, plan)
  BY DEF Written, Writable, CleanFit
<1> QED BY <1>2, <1>4, <1>5, <1>6, <1>7 DEF Sound

\* The DVM `e' is `d' after a pass that went on as `how'.
Recorded(e, d, how, phase) ==
    /\ e \in DVMs /\ e.finalizer /\ e.phase = phase
    /\ e.there = d.there /\ e.itinerary = ItineraryOf(dvm) /\ e.report = d.report
    /\ e.failed = IF how = "critical" THEN "Critical"
                  ELSE IF how = "warn" THEN "Warn" ELSE d.failed
    /\ e.succeeded <=> d.succeeded \/ (phase = "Completed" /\ d.failed = "")

\* The DVM after a pass.
LEMMA ResultIs ==
    ASSUME NEW d \in DVMs, NEW how \in {"next", "stay", "warn", "critical"},
           dvm \in DVMs, ItineraryOf(dvm) \in ItineraryNames,
           NEW phase \in DVMPhases,
           how = "next" => phase = NextPhase(ItineraryOf(dvm), PhaseOf(dvm)),
           how = "stay" => phase = PhaseOf(dvm),
           how \in {"warn", "critical"} => phase = "MigrationFailed"
    PROVE  Recorded(Result(d, how), d, how, phase)
<1> DEFINE failed == IF how = "critical" THEN "Critical"
                     ELSE IF how = "warn" THEN "Warn" ELSE d.failed
           b == d.succeeded \/ (phase = "Completed" /\ d.failed = "")
<1>1. d.failed \in {"", "Warn", "Critical"} /\ d.succeeded \in BOOLEAN
  BY DEF DVMs
<1>2. PICK f \in {"", "Warn", "Critical"} : f = failed
  BY <1>1
<1>3. PICK c \in BOOLEAN : c = b
  BY <1>1
<1>4. PICK i \in ItineraryNames \cup {""} : i = ItineraryOf(dvm)
  OBVIOUS
<1>5. Result(d, how) =
        [[[[[d EXCEPT !.finalizer = TRUE] EXCEPT !.phase = phase] EXCEPT !.itinerary = i]
              EXCEPT !.failed = f] EXCEPT !.succeeded = c]
  BY <1>2, <1>3, <1>4 DEF Result
<1>6. PICK e : e = [[[[[d EXCEPT !.finalizer = TRUE] EXCEPT !.phase = phase] EXCEPT !.itinerary = i]
              EXCEPT !.failed = f] EXCEPT !.succeeded = c]
  OBVIOUS
<1>7. /\ e \in DVMs /\ e.finalizer = TRUE /\ e.phase = phase
      /\ e.there = d.there /\ e.itinerary = i /\ e.report = d.report
      /\ e.failed = f /\ e.succeeded = c
  BY <1>6 DEF DVMs
<1>8. Recorded(e, d, how, phase)
  BY <1>2, <1>3, <1>4, <1>7 DEF Recorded
<1> QED BY <1>5, <1>6, <1>8


\* A DVM that fails.
LEMMA FailedWritable ==
    ASSUME NEW v, NEW e \in DVMs, e.there = "yes", e.finalizer, e.itinerary # "",
           e.failed # "", e.phase \in {"MigrationFailed", "Completed"}, ~e.succeeded,
           e.phase = "Completed" \/ Swept(dvm) => e.failed = "Warn"
    PROVE  Writable(v, e)
<1>1. StatusFit(e, plan)
  BY DEF StatusFit
<1>2. Swept(dvm) => Swept(e)
  BY DEF Swept
<1>3. ~Moved(e)
  BY DEF Moved
<1> QED BY <1>1, <1>2, <1>3 DEF Writable

\* One that keeps its status.
LEMMA KeptWritable ==
    ASSUME Sound(World, copied, plan), dvm.there = "yes", dvm.phase # "Completed",
           NEW v, Onward(World, v, copied, plan),
           \/ dvm.failed = "" /\ dvm.phase = "RunRsyncOperations"
           \/ \A p \in PVCs : v.vms[p].at = World.vms[p].at /\ v.vms[p].on = World.vms[p].on,
           NEW e \in DVMs, e.finalizer, SameStatus([dvm EXCEPT !.finalizer = e.finalizer], e),
           e.report = dvm.report
    PROVE  Writable(v, e)
<1>1. dvm \in DVMs
  BY WorldIs, WorldFields DEF Sound
<1>2. /\ e.there = "yes" /\ e.phase = dvm.phase /\ e.itinerary = dvm.itinerary
      /\ e.failed = dvm.failed /\ e.succeeded = dvm.succeeded
  BY <1>1 DEF SameStatus, DVMs
<1>3. StatusFit(dvm, plan) /\ ~dvm.succeeded
  BY WorldIs DEF Sound, StatusFit
<1>4. StatusFit(e, plan)
  BY <1>2, <1>3 DEF StatusFit
<1>5. Swept(dvm) => Swept(e)
  BY <1>2 DEF Swept
<1>6. ASSUME Forth(plan), Moved(e), NEW p \in PVCs
      PROVE  Landed(p, v, e, copied, plan)
  <2>1. Moved(dvm) /\ dvm.phase # "RunRsyncOperations"
    BY <1>2, <1>3, <1>6 DEF Moved
  <2>2. Landed(p, World, dvm, copied, plan)
    BY <1>6, <2>1, WorldIs DEF Sound, PhasesFit, MachinesFit, Landed
  <2>3. v.missed = World.missed
    BY DEF Onward
  <2> QED BY <2>1, <2>2, <2>3 DEF Landed, Told, Torn, Followed, Heard
<1>7. ASSUME Forth(plan), e.failed = "", e.phase \in Late PROVE OwnPods(v)
  <2>1. OwnPods(World)
    BY <1>2, <1>7, WorldIs DEF Sound, PhasesFit, OwnPods
  <2> QED BY <2>1 DEF Onward
<1> QED BY <1>2, <1>3, <1>4, <1>5, <1>6, <1>7 DEF Writable

\* What a phase goes on to, forth or back.
LEMMA NextIn ==
    ASSUME NEW p \in ElementsOf(StepsOf(Itinerary(plan))), p # "Completed"
    PROVE  LET q == NextPhase(Itinerary(plan), p)
           IN  /\ q \in ElementsOf(StepsOf(Itinerary(plan))) /\ q # ""
               /\ q = "Completed" <=> p = "CleanupStaleVirtHandlerPods"
               /\ Forth(plan) => Follows(p, q)
<1>1. CASE Forth(plan)
  <2>1. Itinerary(plan) = "VolumeMigration"
    BY <1>1 DEF Itinerary, Forth
  <2>2. p \in ElementsOf(VolumeMigration)
    BY <2>1, StepsRows
  <2>3. /\ NextPhase("VolumeMigration", p) \in ElementsOf(VolumeMigration)
        /\ Follows(p, NextPhase("VolumeMigration", p))
    BY <2>2, NextForth
  <2> QED BY <2>1, <2>3, StepsRows DEF Follows
<1>2. CASE ~Forth(plan)
  <2>1. Itinerary(plan) = "VolumeMigrationRollback"
    BY <1>2 DEF Itinerary, Forth
  <2>2. p \in ElementsOf(VolumeMigrationRollback)
    BY <2>1, StepsRows
  <2>3. /\ NextPhase("VolumeMigrationRollback", p) \in ElementsOf(VolumeMigrationRollback)
        /\ FollowsBack(p, NextPhase("VolumeMigrationRollback", p))
    BY <2>2, NextBack
  <2> QED BY <1>2, <2>1, <2>3, StepsRows DEF FollowsBack
<1> QED BY <1>1, <1>2

\* The phase of a pass is one of the itinerary, but for a DVM that failed.
LEMMA PhaseIn ==
    ASSUME AtStart \/ InList
    PROVE  /\ PhaseOf(dvm) \in ElementsOf(StepsOf(Itinerary(plan)))
           /\ PhaseOf(dvm) \notin {"", "Completed"} /\ dvm.failed = ""
<1>1. "Created" \in ElementsOf(VolumeMigration) /\ "Created" \in ElementsOf(VolumeMigrationRollback)
  BY ForthRows, BackRows DEF ElementsOf
<1>2. "Created" \in ElementsOf(StepsOf(Itinerary(plan)))
  BY <1>1, StepsRows DEF Itinerary
<1>3. "" \notin ElementsOf(StepsOf(Itinerary(plan)))
  <2>1. "" \notin ElementsOf(VolumeMigration) /\ "" \notin ElementsOf(VolumeMigrationRollback)
    <3>1. \A i \in 2..22 : VolumeMigration[i] # ""
      BY ForthFollows DEF Follows
    <3>2. \A i \in 2..9 : VolumeMigrationRollback[i] # ""
      BY BackFollows DEF FollowsBack
    <3>3. 1..22 = {1} \cup 2..22 /\ 1..9 = {1} \cup 2..9
      OBVIOUS
    <3>4. VolumeMigration[1] # "" /\ VolumeMigrationRollback[1] # ""
      BY ForthRows, BackRows
    <3> QED BY <3>1, <3>2, <3>3, <3>4, ForthRows, BackRows DEF ElementsOf
  <2> QED BY <2>1, StepsRows DEF Itinerary
<1>4. PhaseOf(dvm) \in ElementsOf(StepsOf(Itinerary(plan))) /\ PhaseOf(dvm) # "Completed"
  BY <1>2 DEF AtStart, InList
<1> QED BY <1>3, <1>4 DEF AtStart, InList

\* A pass that goes on, stays or fails.
LEMMA PassWritable ==
    ASSUME Sound(World, copied, plan), plan \in Facts, Migrating,
           NEW r, Handled(r, PhaseOf(dvm))
    PROVE  Writable(r.world, Result(r.world.dvm, r.how))
<1> DEFINE v == r.world
           d == r.world.dvm
           how == r.how
           e == Result(d, how)
           phase == IF how = "next" THEN NextPhase(ItineraryOf(dvm), PhaseOf(dvm))
                    ELSE IF how = "stay" THEN PhaseOf(dvm) ELSE "MigrationFailed"
<1>1. /\ AtStart \/ InList \/ HasFailed
      /\ ~HasFailed => ItineraryOf(dvm) = Itinerary(plan)
      /\ dvm \in DVMs /\ dvm.there = "yes" /\ ~dvm.succeeded
  BY Where
<1>2. /\ Onward(World, v, copied, plan) /\ how \in {"next", "stay", "critical"}
      /\ PhaseOf(dvm) # "RunRsyncOperations" => Quiet(World, v) /\ how # "critical"
  BY DEF Handled
<1>3. d \in DVMs /\ SameStatus(dvm, d) /\ Fit(v, copied, plan)
  BY <1>2, WorldIs, WorldFields DEF Onward, Fit
<1>4. ItineraryOf(dvm) \in ItineraryNames
  BY DEF ItineraryOf, ItineraryNames
<1>5. ASSUME AtStart \/ InList
      PROVE  /\ PhaseOf(dvm) \in ElementsOf(StepsOf(Itinerary(plan)))
             /\ PhaseOf(dvm) \notin {"", "Completed"} /\ dvm.failed = ""
             /\ ItineraryOf(dvm) = Itinerary(plan)
             /\ ~HasFailed
  BY <1>1, <1>5, PhaseIn DEF HasFailed
<1>6. ElementsOf(StepsOf(Itinerary(plan))) \subseteq DVMPhases
  BY PhasesTyped, StepsRows DEF Itinerary
<1>7. phase \in DVMPhases
  <2>1. CASE AtStart \/ InList
    BY <1>5, <1>6, <2>1, NextIn, PhasesTyped
  <2>2. CASE HasFailed
    BY <2>2, NextFailed, PhasesTyped DEF HasFailed
  <2> QED BY <1>1, <2>1, <2>2
<1>8. /\ e \in DVMs /\ e.finalizer /\ e.phase = phase
      /\ e.there = "yes" /\ e.itinerary = ItineraryOf(dvm) /\ e.report = d.report
      /\ e.failed = IF how = "critical" THEN "Critical" ELSE dvm.failed
      /\ e.succeeded <=> phase = "Completed" /\ dvm.failed = ""
  <2> HIDE DEF d, how
  <2>1. how \in {"next", "stay", "warn", "critical"}
    BY <1>2
  <2>2. PICK q \in DVMPhases : q = phase
    BY <1>7
  <2>3. /\ how = "next" => q = NextPhase(ItineraryOf(dvm), PhaseOf(dvm))
        /\ how = "stay" => q = PhaseOf(dvm)
        /\ how \in {"warn", "critical"} => q = "MigrationFailed"
    BY <2>2
  <2>4. Recorded(e, d, how, q)
    BY <1>1, <1>3, <1>4, <2>1, <2>3, ResultIs
  <2> HIDE DEF e
  <2> QED BY <1>1, <1>2, <1>3, <2>2, <2>4 DEF SameStatus, Recorded
<1> HIDE DEF e
<1>9. CASE HasFailed
  <2>1. /\ ItineraryOf(dvm) = "VolumeMigrationFailed" /\ PhaseOf(dvm) = "MigrationFailed"
        /\ dvm.failed = "Warn"
    BY <1>9 DEF HasFailed
  <2>2. how \in {"next", "stay"}
    BY <1>2, <2>1
  <2>3. phase \in {"Completed", "MigrationFailed"}
    BY <2>1, <2>2, NextFailed
  <2> HIDE DEF phase, how, v
  <2>4. e.failed = "Warn" /\ ~e.succeeded /\ e.phase \in {"MigrationFailed", "Completed"}
        /\ e.itinerary # ""
    BY <1>8, <2>1, <2>2, <2>3
  <2>5. Writable(v, e)
    BY <1>8, <2>4, FailedWritable
  <2> QED BY <2>5 DEF e, v, how
<1>10. CASE ~HasFailed /\ how = "critical"
  <2>1. /\ PhaseOf(dvm) = "RunRsyncOperations" /\ InList
    BY <1>1, <1>2, <1>10 DEF AtStart
  <2>2. ~Swept(dvm)
    BY <2>1 DEF Swept, InList
  <2>3. phase = "MigrationFailed"
    BY <1>10
  <2> HIDE DEF phase, how, v
  <2>4. e.failed = "Critical" /\ ~e.succeeded /\ e.phase = "MigrationFailed" /\ e.itinerary # ""
    BY <1>4, <1>8, <1>10, <2>3 DEF ItineraryNames
  <2>5. Writable(v, e)
    BY <1>8, <2>2, <2>4, FailedWritable
  <2> QED BY <2>5 DEF e, v, how
<1>11. CASE ~HasFailed /\ how # "critical"
  <2>1. /\ PhaseOf(dvm) \in ElementsOf(StepsOf(Itinerary(plan)))
        /\ PhaseOf(dvm) \notin {"", "Completed"} /\ dvm.failed = ""
        /\ ItineraryOf(dvm) = Itinerary(plan)
        /\ Itinerary(plan) # ""
    BY <1>1, <1>5, <1>11 DEF Itinerary
  <2>2. /\ phase \in ElementsOf(StepsOf(Itinerary(plan))) /\ phase # ""
        /\ phase = "Completed" => how = "next" /\ PhaseOf(dvm) = "CleanupStaleVirtHandlerPods"
        /\ Forth(plan) => phase = PhaseOf(dvm) \/ (how = "next" /\ Follows(PhaseOf(dvm), phase))
    BY <1>2, <1>11, <2>1, NextIn
  <2>3. Swept(dvm) => PhaseOf(dvm) = "CleanupStaleVirtHandlerPods"
    BY <1>1, <1>11, <2>1 DEF Swept, AtStart, InList
  <2>4. Swept(dvm) => phase \in {"CleanupStaleVirtHandlerPods", "Completed"}
    <3>1. ASSUME PhaseOf(dvm) = "CleanupStaleVirtHandlerPods", how = "next"
          PROVE  phase = "Completed"
      BY <2>1, <3>1, NextIn
    <3> QED BY <1>2, <1>11, <2>3, <3>1
  <2>5. ASSUME Forth(plan), phase \in After, NEW p \in PVCs
        PROVE  Landed(p, v, d, copied, plan)
    <3>1. CASE PhaseOf(dvm) = "RunRsyncOperations"
      <4>1. how = "next"
        BY <2>2, <2>5, <3>1 DEF After
      <4> QED BY <2>5, <3>1, <4>1 DEF Handled
    <3>2. CASE PhaseOf(dvm) # "RunRsyncOperations"
      <4>1. PhaseOf(dvm) \in After
        BY <2>2, <2>5, <3>2 DEF Follows
      <4>2. dvm.phase \in After
        BY <1>1, <1>11, <4>1 DEF AtStart, InList, After
      <4>3. Moved(World.dvm)
        BY <2>1, <4>2, WorldIs DEF Moved, After
      <4>4. Landed(p, World, World.dvm, copied, plan)
        BY <2>5, <4>3 DEF Sound, PhasesFit, MachinesFit, Landed
      <4>5. /\ d = World.dvm /\ v.vms[p].at = World.vms[p].at /\ v.vms[p].on = World.vms[p].on
            /\ v.missed = World.missed
        BY <1>2, <3>2 DEF Quiet, Onward
      <4> QED BY <4>4, <4>5 DEF Landed, Told, Torn, Followed, Heard
    <3> QED BY <3>1, <3>2
  <2>6. ASSUME phase = "Completed" PROVE \A p \in PVCs : v.vms[p].stale = {}
    BY <2>2, <2>6 DEF Handled
  <2>7. ASSUME Forth(plan), phase \in Late PROVE OwnPods(v)
    <3>1. CASE PhaseOf(dvm) \in Late
      <4>1. dvm.phase \in Late
        BY <1>1, <1>11, <3>1 DEF AtStart, InList, Late
      <4>2. OwnPods(World)
        BY <2>1, <2>7, <4>1, WorldIs DEF Sound, PhasesFit, OwnPods
      <4> QED BY <1>2, <4>2 DEF Onward
    <3>2. CASE PhaseOf(dvm) \notin Late
      <4>1. how = "next" /\ PhaseOf(dvm) = "WaitForStaleRsyncResourcesTerminated"
        BY <2>2, <2>7, <3>2 DEF Follows
      <4> QED BY <4>1 DEF Handled
    <3> QED BY <3>1, <3>2
  <2> HIDE DEF phase, how, v, d
  <2>8. /\ e.phase = phase /\ e.itinerary = Itinerary(plan) /\ e.failed = ""
        /\ e.succeeded <=> phase = "Completed"
    BY <1>8, <1>11, <2>1
  <2>9. StatusFit(e, plan)
    BY <2>1, <2>2, <2>8 DEF StatusFit
  <2>10. Swept(dvm) => Swept(e)
    BY <2>4, <2>8 DEF Swept
  <2>11. ASSUME Forth(plan), Moved(e), NEW p \in PVCs
         PROVE  Landed(p, v, e, copied, plan)
    <3>1. phase \in After
      BY <2>8, <2>11 DEF Moved, After
    <3>2. Landed(p, v, d, copied, plan)
      BY <2>5, <2>11, <3>1
    <3> QED BY <1>8, <3>2 DEF Landed, Told
  <2>12. Writable(v, e)
    BY <1>8, <2>6, <2>7, <2>8, <2>9, <2>10, <2>11 DEF Writable
  <2> QED BY <2>12 DEF e, v, how, d
<1> QED BY <1>9, <1>10, <1>11

\* A pass whose handler fails, or the DVM's cluster.
LEMMA ErrorWritable ==
    ASSUME Sound(World, copied, plan), plan \in Facts, Migrating,
           NEW v, Onward(World, v, copied, plan), NEW how \in {"warn", "critical"},
           how = "critical" => PhaseOf(dvm) \in {"RunRsyncOperations", "VerifyVMs"}
    PROVE  Writable(v, Result(v.dvm, how))
<1> DEFINE d == v.dvm
           e == Result(d, how)
<1>1. /\ AtStart \/ InList \/ HasFailed
      /\ dvm \in DVMs /\ dvm.there = "yes" /\ ~dvm.succeeded
  BY Where
<1>2. d \in DVMs /\ SameStatus(dvm, d)
  BY WorldIs, WorldFields DEF Onward, Fit
<1>3. ItineraryOf(dvm) \in ItineraryNames /\ "" \notin ItineraryNames
  BY DEF ItineraryOf, ItineraryNames
<1> HIDE DEF d
<1>4. Recorded(e, d, how, "MigrationFailed")
  <2>1. PICK phase \in DVMPhases : phase = "MigrationFailed"
    BY PhasesTyped
  <2> QED BY <1>1, <1>2, <1>3, <2>1, ResultIs
<1> HIDE DEF e
<1>5. Swept(dvm) => how = "warn"
  BY <1>1 DEF Swept, AtStart, InList, HasFailed
<1>6. e.there = "yes" /\ ~e.succeeded /\ e.itinerary # "" /\ e.failed # ""
      /\ (Swept(dvm) => e.failed = "Warn")
  BY <1>1, <1>2, <1>3, <1>4, <1>5 DEF SameStatus, Recorded
<1>7. Writable(v, e)
  BY <1>4, <1>6, FailedWritable DEF Recorded
<1> QED BY <1>7 DEF e, d

-----------------------------------------------------------------------------
(* The steps of the controllers *)

\* What the lists of pods tell may be known, and more of them may have failed.
LEMMA ListsSound ==
    ASSUME NEW w, NEW u \in Worlds, NEW C, NEW P, Sound(w, C, P),
           u.pods = w.pods, u.dvmp = w.dvmp, u.infra = w.infra,
           u.servers = w.servers, u.vms = w.vms, u.dvm = w.dvm, w.missed \subseteq u.missed
    PROVE  Sound(u, C, P)
<1>1. \A reads, p : Heard(u, reads, p) => Heard(w, reads, p)
  BY DEF Heard
<1>2. MachinesFit(u, C, P)
  BY <1>1 DEF Sound, MachinesFit, Followed
<1>3. ServersFit(u, P)
  BY <1>1 DEF Sound, ServersFit
<1>4. PhasesFit(u, C, P)
  BY <1>1 DEF Sound, PhasesFit, Told
<1>5. CleanFit(u, P)
  BY <1>1 DEF Sound, CleanFit, Clear
<1> QED BY <1>2, <1>3, <1>4, <1>5 DEF Sound

\* The same of the step that writes them.
LEMMA EffectsSound ==
    ASSUME copied \subseteq PVCs, NEW w, Onward(World, w, copied, plan), Effects(w),
           Writable(w, dvm')
    PROVE  Sound(World, copied, plan)'
<1>1. w \in Worlds /\ dvm' \in DVMs
  BY DEF Onward, Fit, Writable
<1>2. PICK e : e = dvm'
  OBVIOUS
<1>3. PICK u : u = [ pods |-> w.pods, dvmp |-> w.dvmp, infra |-> w.infra,
                     servers |-> w.servers, vms |-> w.vms, dvm |-> e,
                     unread |-> {}, missed |-> w.missed ]
  OBVIOUS
<1>4. Written(u, w, e)
  BY <1>3 DEF Written
<1>5. u \in Worlds
  BY <1>1, <1>2, <1>3, WorldFields DEF Worlds
<1>6. Sound(u, copied, plan)
  BY <1>2, <1>4, <1>5, WritesSound
<1>7. w.missed = missed
  BY WorldIs DEF Onward
<1>8. World' = u /\ copied' = copied /\ plan' = plan
  BY <1>2, <1>3, <1>7 DEF Effects, World
<1> QED BY <1>6, <1>8

\* A pass that is written.
LEMMA PassKeeps ==
    ASSUME Sound(World, copied, plan), plan \in Facts, Pass
    PROVE  Sound(World, copied, plan)'
<1>1. PICK r \in Handler(PhaseOf(dvm)) : Effects(r.world) /\ dvm' = Result(r.world.dvm, r.how)
  BY DEF Pass
<1>2. Handled(r, PhaseOf(dvm))
  BY HandlerKeeps DEF Pass
<1>3. Writable(r.world, Result(r.world.dvm, r.how))
  BY <1>2, PassWritable DEF Pass
<1> QED BY <1>1, <1>2, <1>3, EffectsSound DEF Handled, Sound

\* What a handler leaves on the clusters is the same for a DVM that is written
\* without what it did.
LEMMA StatusStays ==
    ASSUME Sound(World, copied, plan), plan \in Facts, Migrating,
           NEW r, Handled(r, PhaseOf(dvm))
    PROVE  \/ dvm.failed = "" /\ dvm.phase = "RunRsyncOperations"
           \/ \A p \in PVCs : /\ r.world.vms[p].at = World.vms[p].at
                              /\ r.world.vms[p].on = World.vms[p].on
<1>1. CASE PhaseOf(dvm) = "RunRsyncOperations"
  BY <1>1, Where DEF AtStart, InList, HasFailed
<1>2. CASE PhaseOf(dvm) # "RunRsyncOperations"
  BY <1>2 DEF Handled, Quiet
<1> QED BY <1>1, <1>2

\* A pass whose write is lost: the clusters went on, the DVM did not.
LEMMA PassLostKeeps ==
    ASSUME Sound(World, copied, plan), plan \in Facts, PassLost
    PROVE  Sound(World, copied, plan)'
<1>1. PICK r \in Handler(PhaseOf(dvm)) : Effects(r.world) /\ dvm' = dvm
  BY DEF PassLost
<1>2. Handled(r, PhaseOf(dvm)) /\ Onward(World, r.world, copied, plan)
  BY HandlerKeeps DEF PassLost, Handled
<1>3. CASE dvm.finalizer
  <2>1. dvm \in DVMs /\ dvm.there = "yes" /\ dvm.phase # "Completed"
    BY Where DEF PassLost, Migrating
  <2>2. SameStatus([dvm EXCEPT !.finalizer = dvm.finalizer], dvm)
    BY <2>1 DEF SameStatus, DVMs
  <2>3. Writable(r.world, dvm)
    BY <1>2, <1>3, <2>1, <2>2, StatusStays, KeptWritable DEF PassLost
  <2> QED BY <1>1, <1>2, <2>3, EffectsSound DEF Sound
<1>4. CASE ~dvm.finalizer
  <2>1. PhaseOf(dvm) = "Created"
    BY <1>4, Where DEF PassLost, AtStart
  <2>2. r.world = World
    BY <1>2, <2>1 DEF Handled
  <2>3. PICK u : u = [World EXCEPT !.unread = {}]
    OBVIOUS
  <2>4. /\ u.pods = World.pods /\ u.dvmp = World.dvmp /\ u.infra = World.infra
        /\ u.servers = World.servers /\ u.vms = World.vms /\ u.dvm = World.dvm
        /\ u.missed = World.missed /\ u \in Worlds
    BY <2>3 DEF Sound, Worlds, World
  <2>5. Sound(u, copied, plan)
    BY <2>4, ListsSound
  <2>6. World' = u /\ copied' = copied /\ plan' = plan
    BY <1>1, <2>2, <2>3 DEF World, Effects
  <2> QED BY <2>5, <2>6
<1> QED BY <1>3, <1>4

\* A handler that failed has done nothing, or all.
LEMMA PartialOnward ==
    ASSUME Sound(World, copied, plan), plan \in Facts, Migrating, NEW w \in Partial
    PROVE  /\ Onward(World, w, copied, plan)
           /\ \/ dvm.failed = "" /\ dvm.phase = "RunRsyncOperations"
              \/ \A p \in PVCs : /\ w.vms[p].at = World.vms[p].at
                                 /\ w.vms[p].on = World.vms[p].on
           /\ PhaseOf(dvm) # "RunRsyncOperations" => w.dvm = dvm
<1>1. CASE w = World
  BY <1>1, WorldFit, Where, OnwardStay, WorldIs
<1>2. CASE \E r \in Handler(PhaseOf(dvm)) : w = r.world
  <2>1. PICK r \in Handler(PhaseOf(dvm)) : w = r.world
    BY <1>2
  <2>2. Handled(r, PhaseOf(dvm))
    BY HandlerKeeps
  <2> QED BY <2>1, <2>2, StatusStays, WorldIs DEF Handled, Quiet
<1> QED BY <1>1, <1>2 DEF Partial

\* A pass whose handler fails.
LEMMA PassFailsKeeps ==
    ASSUME Sound(World, copied, plan), plan \in Facts, PassFails
    PROVE  Sound(World, copied, plan)'
<1> DEFINE how == IF PhaseOf(dvm) \in {"RunRsyncOperations", "VerifyVMs"}
                  THEN "critical" ELSE "warn"
<1>1. PICK w \in Partial : Effects(w) /\ dvm' = Result(w.dvm, how)
  BY DEF PassFails
<1>2. Onward(World, w, copied, plan)
  BY PartialOnward DEF PassFails
<1>3. /\ how \in {"warn", "critical"}
      /\ how = "critical" => PhaseOf(dvm) \in {"RunRsyncOperations", "VerifyVMs"}
  OBVIOUS
<1> HIDE DEF how
<1>4. Writable(w, Result(w.dvm, how))
  BY <1>2, <1>3, ErrorWritable DEF PassFails
<1> QED BY <1>1, <1>2, <1>4, EffectsSound DEF Sound

\* A DVM that gets its finalizer is the same otherwise.
LEMMA FinalizerSet ==
    ASSUME dvm \in DVMs
    PROVE  LET e == [dvm EXCEPT !.finalizer = TRUE]
           IN  /\ e \in DVMs /\ e.finalizer /\ e.report = dvm.report
               /\ SameStatus([dvm EXCEPT !.finalizer = e.finalizer], e)
BY DEF DVMs, SameStatus

\* A pass that meets a conflict keeps the status and sets the finalizer.
LEMMA PassConflictsKeeps ==
    ASSUME Sound(World, copied, plan), plan \in Facts, PassConflicts
    PROVE  Sound(World, copied, plan)'
<1>1. PICK w \in Partial : Effects(w) /\ dvm' = [w.dvm EXCEPT !.finalizer = TRUE]
  BY DEF PassConflicts
<1>2. /\ Onward(World, w, copied, plan) /\ w.dvm = dvm
      /\ \/ dvm.failed = "" /\ dvm.phase = "RunRsyncOperations"
         \/ \A p \in PVCs : w.vms[p].at = World.vms[p].at /\ w.vms[p].on = World.vms[p].on
  BY PartialOnward DEF PassConflicts
<1>3. dvm \in DVMs /\ dvm.there = "yes" /\ dvm.phase # "Completed"
  BY Where DEF PassConflicts, Migrating
<1>4. PICK e : e = [dvm EXCEPT !.finalizer = TRUE]
  OBVIOUS
<1>5. /\ e \in DVMs /\ e.finalizer /\ e.report = dvm.report
      /\ SameStatus([dvm EXCEPT !.finalizer = e.finalizer], e)
  BY <1>3, <1>4, FinalizerSet
<1>6. Writable(w, e)
  BY <1>2, <1>3, <1>5, KeptWritable
<1> QED BY <1>1, <1>2, <1>4, <1>6, EffectsSound DEF Sound

\* A pass that is blocked sets the finalizer.
LEMMA PassBlockedKeeps ==
    ASSUME Sound(World, copied, plan), plan \in Facts, PassBlocked
    PROVE  Sound(World, copied, plan)'
<1>1. /\ dvm \in DVMs /\ dvm.there = "yes" /\ dvm.phase # "Completed"
      /\ Fit(World, copied, plan)
  BY WorldIs, WorldFields, WorldFit DEF Sound, PassBlocked
<1>2. PICK e : e = [dvm EXCEPT !.finalizer = TRUE]
  OBVIOUS
<1>3. /\ e \in DVMs /\ e.finalizer /\ e.report = dvm.report
      /\ SameStatus([dvm EXCEPT !.finalizer = e.finalizer], e)
  BY <1>1, <1>2, FinalizerSet
<1>4. Writable(World, e)
  BY <1>1, <1>3, OnwardStay, KeptWritable
<1>5. PICK u : u = [World EXCEPT !.dvm = e]
  OBVIOUS
<1>6. u \in Worlds /\ Written(u, World, e)
  <2>1. Written(u, World, e)
    BY <1>5 DEF World, Written
  <2>2. World \in Worlds
    BY DEF Sound
  <2> QED BY <1>3, <1>5, <2>1, <2>2, WorldMade
<1>7. Sound(u, copied, plan)
  BY <1>1, <1>4, <1>6, OnwardStay, WritesSound DEF Sound
<1>8. World' = u /\ copied' = copied /\ plan' = plan
  BY <1>2, <1>5 DEF PassBlocked, clusters, lists, World
<1> QED BY <1>7, <1>8

-----------------------------------------------------------------------------
(* The steps of the rest *)

\* Data that reached the target stays there.
LEMMA CopiedGrows ==
    ASSUME NEW w, NEW C, NEW P, Sound(w, C, P), NEW D, C \subseteq D, D \subseteq PVCs
    PROVE  Sound(w, D, P)
<1>1. \A p \in PVCs : PodsFit(w.pods[p], w.dvmp[p], p, D)
  BY DEF Sound, PodsFit
<1>2. \A p \in PVCs : MachineFit(w.vms[p], p, C, P) => MachineFit(w.vms[p], p, D, P)
  BY DEF MachineFit
<1>3. MachinesFit(w, D, P)
  BY <1>2 DEF Sound, MachinesFit
<1>4. PhasesFit(w, D, P)
  BY DEF Sound, PhasesFit, Told
<1> QED BY <1>1, <1>3, <1>4 DEF Sound

\* The pods of a volume change, and the phase in its report.
PodsChanged(w, u, p, s, m) ==
    /\ u.pods = [w.pods EXCEPT ![p] = s] /\ u.dvmp = [w.dvmp EXCEPT ![p] = m]
    /\ u.infra = w.infra /\ u.servers = w.servers /\ u.vms = w.vms /\ u.dvm = w.dvm
    /\ u.unread = w.unread /\ u.missed = w.missed
    /\ u = [ pods |-> u.pods, dvmp |-> u.dvmp, infra |-> u.infra,
             servers |-> u.servers, vms |-> u.vms, dvm |-> u.dvm,
             unread |-> u.unread, missed |-> u.missed ]

\* A change to pods of the same owners, in phases that are true.
LEMMA PodsSound ==
    ASSUME NEW w, NEW C, NEW P, Sound(w, C, P), NEW p \in PVCs,
           NEW s \in Seq(ClientPods), NEW m \in Progresses, PodsFit(s, m, p, C),
           \A i \in DOMAIN s : \E j \in DOMAIN w.pods[p] : s[i].own = w.pods[p][j].own,
           NEW u, PodsChanged(w, u, p, s, m)
    PROVE  Sound(u, C, P)
<1>1. /\ w.pods \in [PVCs -> Seq(ClientPods)] /\ w.dvmp \in [PVCs -> Progresses]
      /\ w \in Worlds
  BY WorldFields DEF Sound
<1>2. u.pods \in [PVCs -> Seq(ClientPods)] /\ u.dvmp \in [PVCs -> Progresses]
  BY <1>1 DEF PodsChanged
<1>3. u \in Worlds
  BY <1>1, <1>2, WorldFields DEF Worlds, PodsChanged
<1>4. ASSUME NEW q \in PVCs
      PROVE  /\ PodsFit(u.pods[q], u.dvmp[q], q, C)
             /\ Own(w.pods[q]) => Own(u.pods[q])
             /\ (\A i \in DOMAIN w.pods[q] : ~w.pods[q][i].own) =>
                   \A i \in DOMAIN u.pods[q] : ~u.pods[q][i].own
  <2>1. CASE q = p
    <3>1. u.pods[q] = s /\ u.dvmp[q] = m
      BY <1>1, <2>1 DEF PodsChanged
    <3> QED BY <2>1, <3>1 DEF Own
  <2>2. CASE q # p
    <3>1. u.pods[q] = w.pods[q] /\ u.dvmp[q] = w.dvmp[q]
      BY <1>1, <2>2 DEF PodsChanged
    <3> QED BY <3>1 DEF Sound
  <2> QED BY <2>1, <2>2
<1>5. Clear(w) => Clear(u)
  BY <1>4 DEF Clear, PodsChanged
<1>6. MachinesFit(u, C, P) /\ ServersFit(u, P) /\ StatusFit(u.dvm, P)
  BY DEF Sound, MachinesFit, ServersFit, Followed, Heard, PodsChanged
<1>7. PhasesFit(u, C, P)
  BY <1>4 DEF Sound, PhasesFit, Told, Heard, PodsChanged
<1>8. CleanFit(u, P)
  BY <1>5 DEF Sound, CleanFit, Heard, PodsChanged
<1> QED BY <1>3, <1>4, <1>6, <1>7, <1>8 DEF Sound, PodsChanged

\* A machine changes from `v' to `t' in a way that the invariant allows.
Moves(v, t, p, d, C, P) ==
    /\ MachineFit(t, p, C, P)
    /\ Untouched(v) /\ (d.there = "yes" \/ (~Torn(v) /\ v.stale = {})) => Untouched(t)
    /\ Launched(t, d, P)
    /\ ~Torn(v) => ~Torn(t)
    /\ Untouched(v) /\ ~Torn(v) /\ v.stale = {} => t.stale = {}
    /\ Aside(v, P) => Aside(t, P)
    /\ AtSource(v) => AtSource(t)

\* One that is let alone is such a machine.
LEMMA MovesStay ==
    ASSUME NEW w, NEW C, NEW P, Sound(w, C, P), Forth(P), NEW p \in PVCs
    PROVE  Moves(w.vms[p], w.vms[p], p, w.dvm, C, P)
BY DEF Sound, MachinesFit, Moves

\* The machines change, to `ms'.
MachinesChanged(w, u, ms) ==
    /\ u.vms = ms
    /\ u.pods = w.pods /\ u.dvmp = w.dvmp /\ u.infra = w.infra /\ u.servers = w.servers
    /\ u.dvm = w.dvm
    /\ u.unread = w.unread /\ u.missed = w.missed
    /\ u = [ pods |-> u.pods, dvmp |-> u.dvmp, infra |-> u.infra,
             servers |-> u.servers, vms |-> u.vms, dvm |-> u.dvm,
             unread |-> u.unread, missed |-> u.missed ]

\* A change of the machines to such ones.
LEMMA MachinesSound ==
    ASSUME NEW w, NEW C, NEW P, Sound(w, C, P), NEW ms \in [PVCs -> Engines],
           Forth(P) => \A p \in PVCs : Moves(w.vms[p], ms[p], p, w.dvm, C, P),
           NEW u, MachinesChanged(w, u, ms)
    PROVE  Sound(u, C, P)
<1>1. u \in Worlds
  BY WorldFields DEF Sound, Worlds, MachinesChanged
<1>2. MachinesFit(u, C, P)
  <2>1. ASSUME Forth(P), NEW p \in PVCs
        PROVE  /\ MachineFit(u.vms[p], p, C, P)
               /\ u.dvm.there = "yes" \/ (u.dvm.succeeded /\ Followed(u, p)) => Untouched(u.vms[p])
               /\ Launched(u.vms[p], u.dvm, P)
               /\ Moved(u.dvm) /\ Followed(u, p) => ~Torn(u.vms[p])
               /\ u.dvm.succeeded /\ Followed(u, p) => u.vms[p].stale = {}
    <3>1. /\ Moves(w.vms[p], u.vms[p], p, u.dvm, C, P)
          /\ u.dvm.there = "yes" \/ (u.dvm.succeeded /\ Followed(u, p)) => Untouched(w.vms[p])
          /\ Moved(u.dvm) /\ Followed(u, p) => ~Torn(w.vms[p])
          /\ u.dvm.succeeded /\ Followed(u, p) => w.vms[p].stale = {}
      BY <2>1 DEF Sound, MachinesFit, MachinesChanged, Followed, Heard
    <3>2. u.dvm.succeeded => Moved(u.dvm)
      BY DEF Moved
    <3> QED BY <3>1, <3>2 DEF Moves
  <2> QED BY <2>1 DEF MachinesFit
<1>3. ServersFit(u, P)
  <2>1. \A p \in PVCs : Aside(w.vms[p], P) => Aside(u.vms[p], P)
    BY DEF Aside, Moves, MachinesChanged
  <2> QED BY <2>1 DEF Sound, ServersFit, Heard, MachinesChanged
<1>4. CleanFit(u, P)
  <2>1. Forth(P) => \A p \in PVCs : AtSource(w.vms[p]) => AtSource(u.vms[p])
    BY DEF Moves, MachinesChanged
  <2>2. Clear(w) => Clear(u)
    BY DEF Clear, MachinesChanged
  <2>3. P.mode = "CutOver" => Forth(P)
    BY DEF Forth
  <2> QED BY <2>1, <2>2, <2>3 DEF Sound, CleanFit, Heard, MachinesChanged
<1>5. PhasesFit(u, C, P)
  BY DEF Sound, PhasesFit, Told, Heard, MachinesChanged
<1> QED BY <1>1, <1>2, <1>3, <1>4, <1>5 DEF Sound, MachinesChanged

\* The world after a step, field by field.
LEMMA WorldNext ==
    /\ World'.pods = pods' /\ World'.dvmp = dvmp' /\ World'.infra = infra'
    /\ World'.servers = servers' /\ World'.vms = vms' /\ World'.dvm = dvm'
    /\ World'.unread = unread' /\ World'.missed = missed'
    /\ World' = [ pods |-> World'.pods, dvmp |-> World'.dvmp, infra |-> World'.infra,
                  servers |-> World'.servers, vms |-> World'.vms, dvm |-> World'.dvm,
                  unread |-> World'.unread, missed |-> World'.missed ]
BY DEF World

\* The progress controller reports on a volume.
LEMMA ReportSound ==
    ASSUME Sound(World, copied, plan), NEW p \in PVCs, dvmp[p] # "none", NEW unlabelled,
           dvmp' = [dvmp EXCEPT ![p] = ProgressWithout(World, p, unlabelled).phase],
           pods' = [pods EXCEPT ![p] = ProgressWithout(World, p, unlabelled).pods],
           UNCHANGED <<plan, dvm, infra, servers, vms, copied, unread, missed>>
    PROVE  Sound(World, copied, plan)'
<1>1. PICK r : r = ProgressWithout(World, p, unlabelled)
  OBVIOUS
<1>2. World \in Worlds /\ PodsFit(World.pods[p], World.dvmp[p], p, copied)
  BY DEF Sound
<1>3. /\ Alike(World.pods[p], r.pods) /\ r.phase \in Progresses
      /\ PodsFit(r.pods, r.phase, p, copied)
  BY <1>1, <1>2, WorldIs, ProgressFits
<1>4. /\ r.pods \in Seq(ClientPods)
      /\ \A i \in DOMAIN r.pods :
            \E j \in DOMAIN World.pods[p] : r.pods[i].own = World.pods[p][j].own
  BY <1>3 DEF Alike
<1>5. PICK u : u = World'
  OBVIOUS
<1>6. PodsChanged(World, u, p, r.pods, r.phase)
  BY <1>1, <1>5, WorldIs, WorldNext DEF PodsChanged
<1>7. Sound(u, copied, plan)
  BY <1>3, <1>4, <1>6, PodsSound
<1>8. World' = u /\ copied' = copied /\ plan' = plan
  BY <1>5
<1> QED BY <1>7, <1>8

\* The progress controller reports on all pods.
LEMMA ReportProgressKeeps ==
    ASSUME Sound(World, copied, plan), NEW p \in PVCs, ReportProgress(p)
    PROVE  Sound(World, copied, plan)'
<1>1. Progress(World, p) = ProgressWithout(World, p, {})
  BY WorldIs DEF ReportProgress, Progress
<1> QED BY <1>1, ReportSound DEF ReportProgress, lists

\* It passes over a pod that it could not label.
LEMMA ReportUnlabelledKeeps ==
    ASSUME Sound(World, copied, plan), NEW p \in PVCs, ReportUnlabelled(p)
    PROVE  Sound(World, copied, plan)'
BY ReportSound DEF ReportUnlabelled, lists

\* The pods of a volume change on its cluster, to some that the invariant
\* allows when `D' is what reached the target.
PodsMove(p, D) ==
    \E s \in Seq(ClientPods) :
       /\ pods' = [pods EXCEPT ![p] = s]
       /\ PodsFit(s, dvmp[p], p, D)
       /\ \A j \in DOMAIN s : \E k \in DOMAIN pods[p] : s[j].own = pods[p][k].own

\* Such a change of the pods of one volume, as data reaches the target.
LEMMA ClusterPodsSound ==
    ASSUME Sound(World, copied, plan), NEW p \in PVCs,
           copied' \in SUBSET PVCs, copied \subseteq copied', PodsMove(p, copied'),
           UNCHANGED <<plan, dvm, dvmp, infra, servers, vms, unread, missed>>
    PROVE  Sound(World, copied, plan)'
<1>1. PICK D : D = copied'
  OBVIOUS
<1>2. Sound(World, D, plan)
  BY <1>1, CopiedGrows
<1>3. PICK s \in Seq(ClientPods) :
         /\ pods' = [pods EXCEPT ![p] = s]
         /\ PodsFit(s, dvmp[p], p, D)
         /\ \A j \in DOMAIN s : \E k \in DOMAIN pods[p] : s[j].own = pods[p][k].own
  BY <1>1 DEF PodsMove
<1>4. dvmp \in [PVCs -> Progresses] /\ dvmp = [dvmp EXCEPT ![p] = dvmp[p]]
  BY WorldIs, WorldFields DEF Sound
<1>5. dvmp[p] \in Progresses
  BY <1>4
<1>6. PICK u : u = World'
  OBVIOUS
<1>7. PodsChanged(World, u, p, s, dvmp[p])
  BY <1>4, <1>6, <1>3, WorldIs, WorldNext DEF PodsChanged
<1>8. /\ PodsFit(s, dvmp[p], p, D)
      /\ \A i \in DOMAIN s : \E j \in DOMAIN World.pods[p] : s[i].own = World.pods[p][j].own
  BY <1>3, WorldIs
<1>9. Sound(u, D, plan)
  BY <1>2, <1>5, <1>7, <1>8, PodsSound
<1>10. World' = u /\ copied' = D /\ plan' = plan
  BY <1>1, <1>6
<1> QED BY <1>9, <1>10

\* A pod enters a phase; it says that it succeeded when the data is there.
LEMMA SetPodFits ==
    ASSUME Sound(World, copied, plan), NEW p \in PVCs, NEW i \in DOMAIN pods[p],
           NEW phase \in PodPhases, SetPod(p, i, phase),
           NEW D, copied \subseteq D, phase = "Succeeded" /\ pods[p][i].own => p \in D
    PROVE  PodsMove(p, D)
<1> DEFINE s == pods[p]
           t == [s EXCEPT ![i].phase = phase]
<1>1. pods \in [PVCs -> Seq(ClientPods)] /\ PodsFit(s, dvmp[p], p, copied)
  BY WorldIs, WorldFields DEF Sound
<1>2. s \in Seq(ClientPods) /\ Len(s) \in Nat /\ DOMAIN s = 1..Len(s)
  BY <1>1, LenProperties
<1>3. \A j \in DOMAIN s : s[j] \in ClientPods
  BY <1>2
<1>4. pods' = [pods EXCEPT ![p] = t]
  BY <1>1 DEF SetPod
<1> HIDE DEF s
<1>5. s[i] \in ClientPods
  BY <1>3 DEF s
<1>6. PICK e : e = [s[i] EXCEPT !.phase = phase]
  OBVIOUS
<1>7. e \in ClientPods /\ e.own = s[i].own /\ e.phase = phase
  BY <1>5, <1>6 DEF ClientPods
<1>8. DOMAIN t = DOMAIN s /\ \A j \in DOMAIN s : t[j] = IF j = i THEN e ELSE s[j]
  BY <1>2, <1>6 DEF s
<1>9. t = [j \in DOMAIN s |-> t[j]] /\ \A j \in DOMAIN s : t[j] \in ClientPods
  BY <1>2, <1>3, <1>7, <1>8
<1>10. t \in Seq(ClientPods)
  BY <1>2, <1>9, Mapped
<1>11. \A j \in DOMAIN t : t[j].own = s[j].own
  BY <1>7, <1>8
<1>12. PodsFit(t, dvmp[p], p, D)
  BY <1>1, <1>7, <1>8, <1>11 DEF PodsFit, Own, s
<1>13. \A j \in DOMAIN t : \E k \in DOMAIN s : t[j].own = s[k].own
  BY <1>8, <1>11
<1> QED BY <1>4, <1>10, <1>12, <1>13 DEF s, PodsMove

\* A pod runs.
LEMMA PodRunsKeeps ==
    ASSUME Sound(World, copied, plan), NEW p \in PVCs, PodRuns(p)
    PROVE  Sound(World, copied, plan)'
<1>1. PICK i \in DOMAIN pods[p] : SetPod(p, i, "Running")
  BY DEF PodRuns
<1>2. "Running" \in PodPhases
  BY DEF PodPhases
<1>3. PodsMove(p, copied)
  BY <1>1, <1>2, SetPodFits
<1> QED BY <1>3, ClusterPodsSound DEF PodRuns, lists, Sound

\* A pod ends: one that succeeds has moved the data.
LEMMA PodEndsKeeps ==
    ASSUME Sound(World, copied, plan), NEW p \in PVCs, PodEnds(p)
    PROVE  Sound(World, copied, plan)'
<1>1. PICK i \in DOMAIN pods[p] : PodEnds(p)!1!(i)
  BY DEF PodEnds
<1>2. copied \subseteq PVCs /\ copied' \in SUBSET PVCs /\ copied \subseteq copied'
  BY <1>1 DEF Sound
<1>3. PICK phase \in {"Succeeded", "Failed"} :
         SetPod(p, i, phase) /\ (phase = "Succeeded" /\ pods[p][i].own => p \in copied')
  BY <1>1
<1>4. phase \in PodPhases
  BY DEF PodPhases
<1>5. PodsMove(p, copied')
  BY <1>2, <1>3, <1>4, SetPodFits
<1> QED BY <1>2, <1>5, ClusterPodsSound DEF PodEnds, lists

\* A pod goes.
LEMMA PodGoneKeeps ==
    ASSUME Sound(World, copied, plan), NEW p \in PVCs, PodGone(p)
    PROVE  Sound(World, copied, plan)'
<1>1. PICK i \in DOMAIN pods[p] : pods' = [pods EXCEPT ![p] = RemoveAt(@, i)]
  BY DEF PodGone
<1>2. /\ pods \in [PVCs -> Seq(ClientPods)] /\ PodsFit(pods[p], dvmp[p], p, copied)
      /\ copied \subseteq PVCs
  BY WorldIs, WorldFields DEF Sound
<1>3. pods[p] \in Seq(ClientPods)
  BY <1>2
<1>4. PICK s : s = RemoveAt(pods[p], i)
  OBVIOUS
<1>5. /\ s \in Seq(ClientPods)
      /\ \A j \in DOMAIN s : \E k \in DOMAIN pods[p] : s[j] = pods[p][k]
  BY <1>3, <1>4, Removed
<1>6. PodsFit(s, dvmp[p], p, copied)
  BY <1>2, <1>5 DEF PodsFit, Own
<1>7. pods' = [pods EXCEPT ![p] = s]
  BY <1>1, <1>4
<1>8. PodsMove(p, copied)
  BY <1>5, <1>6, <1>7 DEF PodsMove
<1>9. copied' = copied /\ UNCHANGED <<plan, dvm, dvmp, infra, servers, vms, unread, missed>>
  BY DEF PodGone, lists
<1>10. PodsMove(p, copied')
  BY <1>8, <1>9
<1> QED BY <1>2, <1>9, <1>10, ClusterPodsSound

\* A machine may be stopped, if a fault says so.
LEMMA StopMoves ==
    ASSUME NEW v \in Engines, NEW t, NEW p \in PVCs, NEW d, NEW C, NEW P,
           MachineFit(v, p, C, P), Stops(P),
           t = [v EXCEPT !.on = "", !.stale = {},
                         !.migration = IF @ \in {"none", "succeeded"} THEN @ ELSE "failed"]
    PROVE  t \in Engines /\ Moves(v, t, p, d, C, P)
<1>1. /\ t \in Engines /\ t.at = v.at /\ t.on = "" /\ t.stale = {}
      /\ IF v.migration \in {"none", "succeeded"} THEN t.migration = v.migration
         ELSE t.migration = "failed"
  BY DEF Engines, Machines, Unsettled
<1>2. MachineFit(t, p, C, P)
  BY <1>1 DEF MachineFit, Unsettled
<1> QED BY <1>1, <1>2 DEF Moves, Untouched, Launched, Torn, Aside, AtSource, Unsettled

\* It starts where it is to be.
LEMMA StartMoves ==
    ASSUME NEW v \in Engines, NEW t, NEW p \in PVCs, NEW d, NEW C, NEW P,
           MachineFit(v, p, C, P), v.on = "", v.migration # "failed",
           t = [v EXCEPT !.on = v.at]
    PROVE  t \in Engines /\ Moves(v, t, p, d, C, P)
<1>1. /\ t \in Engines /\ t.at = v.at /\ t.on = v.at /\ t.stale = v.stale
      /\ t.migration = v.migration
  BY DEF Engines, Machines, Unsettled
<1>2. /\ v.migration \in {"none", "succeeded"} /\ v.stale = {}
      /\ v.at = "target" => Stops(P)
      /\ v.at \in {"source", "target"}
  BY DEF MachineFit, Unsettled, Sides, Engines, Machines
<1>3. MachineFit(t, p, C, P)
  BY <1>1, <1>2 DEF MachineFit, Unsettled
<1> QED BY <1>1, <1>2, <1>3 DEF Moves, Untouched, Launched, Torn, Aside, AtSource, Unsettled

\* Its migration runs, is refused or fails.
LEMMA RunMoves ==
    ASSUME NEW v \in Engines, NEW t, NEW p \in PVCs, NEW d, NEW C, NEW P,
           MachineFit(v, p, C, P), Launched(v, d, P), v.migration \in Unsettled,
           NEW m \in {"running", "refused", "failed"}, t = [v EXCEPT !.migration = m]
    PROVE  t \in Engines /\ Moves(v, t, p, d, C, P)
<1>1. /\ t \in Engines /\ t.at = v.at /\ t.on = v.on /\ t.stale = v.stale
      /\ t.migration = m
  BY DEF Engines, Machines, Unsettled
<1>2. /\ v.on # "" /\ v.on # v.at /\ v.migration \notin {"none", "succeeded", "failed"}
      /\ v.at \in {"source", "target"} /\ v.on \in {"source", "target"}
      /\ v.on = "target" => p \in C
  BY DEF MachineFit, Unsettled, Sides, Engines, Machines
<1>3. MachineFit(t, p, C, P)
  BY <1>1, <1>2 DEF MachineFit, Unsettled
<1> QED BY <1>1, <1>2, <1>3 DEF Moves, Untouched, Launched, Torn, Aside, AtSource

\* Its migration succeeds: it runs on the other volume, and its data is there.
LEMMA EndMoves ==
    ASSUME NEW v \in Engines, NEW t, NEW p \in PVCs, NEW d, NEW C, NEW P,
           MachineFit(v, p, C, P), v.migration = "running", v.at = "target" => p \in C,
           t = [v EXCEPT !.on = v.at, !.stale = @ \cup {v.on}, !.migration = "succeeded"]
    PROVE  t \in Engines /\ Moves(v, t, p, d, C, P)
<1>1. /\ v.on # "" /\ v.on # v.at
      /\ v.at \in {"source", "target"} /\ v.on \in {"source", "target"}
      /\ v.on = "target" => p \in C
  BY DEF MachineFit, Unsettled, Sides, Engines, Machines
<1>2. /\ t \in Engines /\ t.at = v.at /\ t.on = v.at /\ t.stale = v.stale \cup {v.on}
      /\ t.migration = "succeeded"
  BY <1>1 DEF Sides, Engines, Machines, Unsettled
<1>3. MachineFit(t, p, C, P)
  BY <1>1, <1>2 DEF MachineFit, Unsettled
<1> QED BY <1>1, <1>2, <1>3 DEF Moves, Untouched, Launched, Torn, Aside, AtSource, Unsettled

\* What the invariant says of the machine of a volume.
LEMMA MachineNow ==
    ASSUME Sound(World, copied, plan), NEW p \in PVCs
    PROVE  /\ vms[p] \in Engines /\ copied \in SUBSET PVCs
           /\ vms \in [PVCs -> Engines]
           /\ Forth(plan) => MachineFit(vms[p], p, copied, plan) /\ Launched(vms[p], dvm, plan)
BY WorldIs, WorldFields DEF Sound, MachinesFit

\* A step of the machine of a volume.
LEMMA MachineStep ==
    ASSUME Sound(World, copied, plan), NEW p \in PVCs, NEW t \in Engines,
           vms' = [vms EXCEPT ![p] = t],
           copied' \in SUBSET PVCs, copied \subseteq copied',
           Forth(plan) => Moves(vms[p], t, p, dvm, copied', plan),
           UNCHANGED <<plan, dvm, dvmp, pods, infra, servers, unread, missed>>
    PROVE  Sound(World, copied, plan)'
<1>1. PICK D : D = copied'
  OBVIOUS
<1>2. Sound(World, D, plan)
  BY <1>1, CopiedGrows
<1>3. PICK u : u = World'
  OBVIOUS
<1>4. PICK ms : ms = [vms EXCEPT ![p] = t]
  OBVIOUS
<1>5. /\ ms \in [PVCs -> Engines] /\ ms[p] = t
      /\ \A q \in PVCs \ {p} : ms[q] = World.vms[q]
  BY <1>4, MachineNow, WorldIs
<1>6. MachinesChanged(World, u, ms)
  BY <1>3, <1>4, WorldIs, WorldNext DEF MachinesChanged
<1>7. ASSUME Forth(plan), NEW q \in PVCs
      PROVE  Moves(World.vms[q], ms[q], q, World.dvm, D, plan)
  <2>1. CASE q = p
    BY <1>1, <1>5, <1>7, <2>1, WorldIs
  <2>2. CASE q # p
    BY <1>2, <1>5, <1>7, <2>2, MovesStay
  <2> QED BY <2>1, <2>2
<1>8. Sound(u, D, plan)
  BY <1>2, <1>5, <1>6, <1>7, MachinesSound
<1>9. World' = u /\ copied' = D /\ plan' = plan
  BY <1>1, <1>3
<1> QED BY <1>8, <1>9

\* A user stops a machine.
LEMMA StopVMKeeps ==
    ASSUME Sound(World, copied, plan), NEW p \in PVCs, StopVM(p)
    PROVE  Sound(World, copied, plan)'
<1>1. PICK t : t = [vms[p] EXCEPT !.on = "", !.stale = {},
                      !.migration = IF @ \in {"none", "succeeded"} THEN @ ELSE "failed"]
  OBVIOUS
<1>2. vms' = [vms EXCEPT ![p] = t]
  BY <1>1, MachineNow DEF StopVM
<1>3. Stops(plan)
  BY DEF StopVM, Spend, Stops
<1>4. t \in Engines
  BY <1>1, MachineNow DEF Engines, Machines, Unsettled
<1>5. Forth(plan) => Moves(vms[p], t, p, dvm, copied, plan)
  BY <1>1, <1>3, MachineNow, StopMoves
<1>6. copied' = copied /\ UNCHANGED <<plan, dvm, dvmp, pods, infra, servers, unread, missed>>
  BY DEF StopVM, lists
<1>7. Forth(plan) => Moves(vms[p], t, p, dvm, copied', plan)
  BY <1>5, <1>6
<1> QED BY <1>2, <1>4, <1>6, <1>7, MachineNow, MachineStep

\* A user starts a machine.
LEMMA StartVMKeeps ==
    ASSUME Sound(World, copied, plan), NEW p \in PVCs, StartVM(p)
    PROVE  Sound(World, copied, plan)'
<1>1. PICK t : t = [vms[p] EXCEPT !.on = vms[p].at]
  OBVIOUS
<1>2. vms' = [vms EXCEPT ![p] = t]
  BY <1>1, MachineNow DEF StartVM
<1>3. vms[p].on = "" /\ vms[p].migration # "failed"
  BY DEF StartVM
<1>4. t \in Engines
  BY <1>1, MachineNow DEF Engines, Machines, Sides, Unsettled
<1>5. Forth(plan) => Moves(vms[p], t, p, dvm, copied, plan)
  BY <1>1, <1>3, MachineNow, StartMoves
<1>6. copied' = copied /\ UNCHANGED <<plan, dvm, dvmp, pods, infra, servers, unread, missed>>
  BY DEF StartVM, lists
<1>7. Forth(plan) => Moves(vms[p], t, p, dvm, copied', plan)
  BY <1>5, <1>6
<1> QED BY <1>2, <1>4, <1>6, <1>7, MachineNow, MachineStep

\* KubeVirt starts, refuses, ends or fails a migration.
LEMMA KubeVirtKeeps ==
    ASSUME Sound(World, copied, plan), NEW p \in PVCs, KubeVirt(p)
    PROVE  Sound(World, copied, plan)'
<1>1. UNCHANGED <<plan, dvm, dvmp, pods, infra, servers, unread, missed>>
  BY DEF KubeVirt, lists
<1>2. CASE \E m \in {"running", "refused", "failed"} :
              /\ vms[p].migration \in Unsettled
              /\ vms' = [vms EXCEPT ![p].migration = m] /\ UNCHANGED copied
  <2>1. PICK m \in {"running", "refused", "failed"} :
              /\ vms[p].migration \in Unsettled
              /\ vms' = [vms EXCEPT ![p].migration = m] /\ UNCHANGED copied
    BY <1>2
  <2>2. PICK t : t = [vms[p] EXCEPT !.migration = m]
    OBVIOUS
  <2>3. vms' = [vms EXCEPT ![p] = t]
    BY <2>1, <2>2, MachineNow
  <2>4. t \in Engines
    BY <2>1, <2>2, MachineNow DEF Engines, Machines, Unsettled
  <2>5. Forth(plan) => Moves(vms[p], t, p, dvm, copied, plan)
    BY <2>1, <2>2, MachineNow, RunMoves
  <2>6. Forth(plan) => Moves(vms[p], t, p, dvm, copied', plan)
    BY <2>1, <2>5
  <2> QED BY <1>1, <2>1, <2>3, <2>4, <2>6, MachineNow, MachineStep
<1>3. CASE /\ vms[p].migration = "running"
           /\ vms' = [vms EXCEPT ![p].on = vms[p].at, ![p].stale = @ \cup {vms[p].on},
                                 ![p].migration = "succeeded"]
           /\ copied' = IF vms[p].at = "target" THEN copied \cup {p} ELSE copied
  <2>1. PICK t : t = [vms[p] EXCEPT !.on = vms[p].at, !.stale = @ \cup {vms[p].on},
                                    !.migration = "succeeded"]
    OBVIOUS
  <2>2. vms' = [vms EXCEPT ![p] = t]
    BY <1>3, <2>1, MachineNow
  <2>3. copied \in SUBSET PVCs /\ copied' \in SUBSET PVCs /\ copied \subseteq copied'
        /\ (vms[p].at = "target" => p \in copied')
    BY <1>3, MachineNow
  <2>4. PICK D : D = copied'
    OBVIOUS
  <2>5. Forth(plan) => MachineFit(vms[p], p, D, plan)
    BY <2>3, <2>4, MachineNow DEF MachineFit
  <2>6. Forth(plan) => t \in Engines /\ Moves(vms[p], t, p, dvm, D, plan)
    BY <1>3, <2>1, <2>3, <2>4, <2>5, MachineNow, EndMoves
  <2>7. t \in Engines
    <3>1. vms[p].on # ""
      BY <1>3, MachineNow DEF Engines, Unsettled
    <3> QED BY <2>1, <3>1, MachineNow DEF Engines, Machines, Sides, Unsettled
  <2>8. Forth(plan) => Moves(vms[p], t, p, dvm, copied', plan)
    BY <2>4, <2>6
  <2> QED BY <1>1, <2>2, <2>3, <2>7, <2>8, MachineStep
<1>4. CASE vms[p].migration = "pending"
  BY <1>2, <1>4 DEF KubeVirt, Unsettled
<1>5. CASE vms[p].migration = "running"
  BY <1>2, <1>3, <1>5 DEF KubeVirt, Unsettled
<1> QED BY <1>4, <1>5 DEF KubeVirt

\* What changes the servers or the infrastructure only.
LEMMA ServersSound ==
    ASSUME Sound(World, copied, plan),
           servers' \in [Namespaces -> [{"fs", "block"} -> Servers]],
           infra' \in [Namespaces -> Infras],
           ServersFit(World', plan),
           Clear(World) => Clear(World'),
           UNCHANGED <<plan, dvm, dvmp, pods, vms, copied, unread, missed>>
    PROVE  Sound(World, copied, plan)'
<1>1. PICK u : u = World'
  OBVIOUS
<1>2. /\ u.pods = World.pods /\ u.dvmp = World.dvmp /\ u.vms = World.vms /\ u.dvm = World.dvm
      /\ u.servers = servers' /\ u.infra = infra'
      /\ u.unread = World.unread /\ u.missed = World.missed
      /\ u = [ pods |-> u.pods, dvmp |-> u.dvmp, infra |-> u.infra,
               servers |-> u.servers, vms |-> u.vms, dvm |-> u.dvm,
               unread |-> u.unread, missed |-> u.missed ]
  BY <1>1, WorldIs, WorldNext
<1>3. u \in Worlds
  BY <1>2, WorldFields DEF Sound, Worlds
<1>4. ServersFit(u, plan)
  BY <1>1
<1>5. Clear(World) => Clear(u)
  BY <1>1
<1>6. MachinesFit(u, copied, plan)
  BY <1>2 DEF Sound, MachinesFit, Followed, Heard
<1>7. PhasesFit(u, copied, plan)
  BY <1>2 DEF Sound, PhasesFit, Told, Heard
<1>8. CleanFit(u, plan)
  BY <1>2, <1>5 DEF Sound, CleanFit, Heard
<1>9. Sound(u, copied, plan)
  BY <1>2, <1>3, <1>4, <1>6, <1>7, <1>8 DEF Sound
<1>10. World' = u /\ copied' = copied /\ plan' = plan
  BY <1>1
<1> QED BY <1>9, <1>10

\* A server runs, or is gone.
LEMMA ServerMovesKeeps ==
    ASSUME Sound(World, copied, plan), plan \in Facts,
           NEW n \in Namespaces, NEW k \in {"fs", "block"}, ServerMoves(n, k)
    PROVE  Sound(World, copied, plan)'
<1>1. /\ servers \in [Namespaces -> [{"fs", "block"} -> Servers]]
      /\ infra \in [Namespaces -> Infras] /\ ServersFit(World, plan)
  BY WorldIs, WorldFields DEF Sound
<1>2. PICK t : t = IF servers[n][k].state = "pending"
                   THEN [servers[n][k] EXCEPT !.state = "running"] ELSE NoServer
  OBVIOUS
<1>3. servers' = [servers EXCEPT ![n][k] = t]
  BY <1>1, <1>2 DEF ServerMoves
<1>4. servers[n][k] \in Servers /\ servers[n][k].state # "none"
  BY <1>1 DEF ServerMoves
<1>5. t \in Servers /\ (t.vols = servers[n][k].vols \/ t = NoServer)
  BY <1>2, <1>4 DEF Servers, NoServer
<1>6. servers' \in [Namespaces -> [{"fs", "block"} -> Servers]]
  BY <1>1, <1>3, <1>5
<1>7. \A m \in Namespaces : \A l \in {"fs", "block"} :
         servers'[m][l] = IF m = n /\ l = k THEN t ELSE servers[m][l]
  BY <1>1, <1>3
<1>8. \A m \in Namespaces : \A l \in {"fs", "block"} :
         \/ servers'[m][l].vols \subseteq servers[m][l].vols
               /\ (servers[m][l].state = "none" => servers'[m][l].state = "none")
         \/ servers'[m][l] = NoServer
  BY <1>4, <1>5, <1>7
<1>9. ServersFit(World', plan)
  <2>1. PICK v : v = World'
    OBVIOUS
  <2>2. /\ v.servers = servers' /\ v.vms = World.vms /\ v.missed = World.missed
    BY <2>1, WorldIs, WorldNext DEF ServerMoves, lists
  <2>3. ServersFit(v, plan)
    BY <1>1, <1>8, <2>2, WorldIs, ServersLess
  <2> QED BY <2>1, <2>3
<1>10. ~Clear(World)
  BY <1>4, WorldIs DEF Clear
<1> QED BY <1>1, <1>6, <1>9, <1>10, ServersSound DEF ServerMoves, lists

\* A route is admitted.
LEMMA AdmitKeeps ==
    ASSUME Sound(World, copied, plan), NEW n \in Namespaces, Admit(n)
    PROVE  Sound(World, copied, plan)'
<1>1. /\ servers \in [Namespaces -> [{"fs", "block"} -> Servers]]
      /\ infra \in [Namespaces -> Infras] /\ ServersFit(World, plan)
  BY WorldIs, WorldFields DEF Sound
<1>2. PICK i : i = [infra[n] EXCEPT !.endpoint = "admitted"]
  OBVIOUS
<1>3. i \in Infras /\ infra' = [infra EXCEPT ![n] = i]
  BY <1>1, <1>2 DEF Admit, Infras
<1>4. infra' \in [Namespaces -> Infras]
  BY <1>1, <1>3
<1>5. ~Clear(World)
  BY WorldIs DEF Clear, Admit
<1>6. ServersFit(World', plan)
  <2>1. PICK v : v = World'
    OBVIOUS
  <2>2. /\ v.servers = World.servers /\ v.vms = World.vms /\ v.missed = World.missed
    BY <2>1, WorldIs, WorldNext DEF Admit, lists
  <2>3. ServersFit(v, plan)
    BY <1>1, <2>2 DEF ServersFit, Heard
  <2> QED BY <2>1, <2>3
<1> QED BY <1>1, <1>4, <1>5, <1>6, ServersSound DEF Admit, lists

\* A list of pods fails, or will: less is claimed of what it was asked for.
LEMMA ListFailsKeeps ==
    ASSUME Sound(World, copied, plan), NEW p \in PVCs, ListFails(p)
    PROVE  Sound(World, copied, plan)'
<1>1. UNCHANGED <<plan, dvm, dvmp, pods, infra, servers, vms, copied>>
  BY DEF ListFails, clusters
<1>2. PICK lost \in SUBSET (Reads \X PVCs) :
         unread' = unread \cup lost /\ missed' = missed \cup lost
  <2>1. PICK read \in (IF Migrating THEN ReadsOfPass ELSE {})
                      \cup (IF dvm.there = "deleting" THEN {"cancel"} ELSE {}) :
          LET hit == {q \in PVCs : IF read \in OfClients THEN q = p ELSE plan.ns[q] = plan.ns[p]}
          IN  /\ unread' = unread \cup ({read} \X hit)
              /\ missed' = missed \cup ({read} \X hit)
    BY DEF ListFails
  <2>2. read \in Reads
    BY <2>1 DEF ReadsOfPass, Reads
  <2>3. PICK hit \in SUBSET PVCs : /\ unread' = unread \cup ({read} \X hit)
                                  /\ missed' = missed \cup ({read} \X hit)
    BY <2>1
  <2>4. {read} \X hit \in SUBSET (Reads \X PVCs)
    BY <2>2
  <2> QED BY <2>3, <2>4
<1>3. PICK u : u = World'
  OBVIOUS
<1>4. /\ u.pods = World.pods /\ u.dvmp = World.dvmp /\ u.infra = World.infra
      /\ u.servers = World.servers /\ u.vms = World.vms /\ u.dvm = World.dvm
      /\ u.unread = World.unread \cup lost /\ u.missed = World.missed \cup lost
      /\ u = [ pods |-> u.pods, dvmp |-> u.dvmp, infra |-> u.infra,
               servers |-> u.servers, vms |-> u.vms, dvm |-> u.dvm,
               unread |-> u.unread, missed |-> u.missed ]
  BY <1>1, <1>2, <1>3, WorldIs, WorldNext
<1>5. World \in Worlds
  BY DEF Sound
<1>6. /\ u.unread \in SUBSET (Reads \X PVCs) /\ u.missed \in SUBSET (Reads \X PVCs)
      /\ u.unread \subseteq u.missed
  BY <1>4, <1>5, WorldFields
<1>7. u \in Worlds
  BY <1>4, <1>5, <1>6, WorldFields DEF Worlds
<1>8. Sound(u, copied, plan)
  BY <1>4, <1>7, ListsSound
<1> QED BY <1>1, <1>3, <1>8

-----------------------------------------------------------------------------
(* The end of the DVM *)

\* The DVM as `e', with the progress reports `m' and the lists `l' still to fail:
\* it is being deleted, or gone.
LEMMA LeavesSound ==
    ASSUME NEW w, NEW C, NEW P, Sound(w, C, P), NEW e \in DVMs,
           e.phase = w.dvm.phase, e.itinerary = w.dvm.itinerary, e.failed = w.dvm.failed,
           e.succeeded = w.dvm.succeeded, e.report = w.dvm.report,
           \/ e.there = "deleting"
           \/ /\ e.there = "gone" /\ Clear(w)
              /\ P.mode = "CutOver" /\ ~e.succeeded /\ ~Stops(P) /\ ~Swept(e) =>
                    \A p \in PVCs : Heard(w, {"cancel"}, p) => AtSource(w.vms[p]),
           NEW m \in [PVCs -> Progresses], m = w.dvmp \/ \A p \in PVCs : m[p] = "none",
           NEW l \in SUBSET w.unread,
           NEW u, u = [ pods |-> w.pods, dvmp |-> m, infra |-> w.infra,
                        servers |-> w.servers, vms |-> w.vms, dvm |-> e,
                        unread |-> l, missed |-> w.missed ]
    PROVE  Sound(u, C, P)
<1>1. /\ u.pods = w.pods /\ u.dvmp = m /\ u.infra = w.infra /\ u.servers = w.servers
      /\ u.vms = w.vms /\ u.dvm = e /\ u.unread = l /\ u.missed = w.missed
  OBVIOUS
<1>2. u \in Worlds
  BY WorldFields DEF Sound, Worlds
<1>3. \A p \in PVCs : PodsFit(u.pods[p], u.dvmp[p], p, C)
  BY <1>1 DEF Sound, PodsFit
<1>4. (Moved(e) <=> Moved(w.dvm)) /\ (Swept(e) <=> Swept(w.dvm))
  BY DEF Moved, Swept
<1>5. MachinesFit(u, C, P)
  BY <1>1, <1>4 DEF Sound, MachinesFit, Launched, Followed, Heard
<1>6. StatusFit(u.dvm, P)
  BY <1>1 DEF Sound, StatusFit
<1>7. PhasesFit(u, C, P)
  BY <1>1, <1>4 DEF Sound, PhasesFit, Told, Heard
<1>8. CleanFit(u, P)
  BY <1>1 DEF CleanFit, Clear, Heard
<1>9. ServersFit(u, P)
  BY <1>1 DEF Sound, ServersFit, Heard
<1> QED BY <1>2, <1>3, <1>5, <1>6, <1>7, <1>8, <1>9 DEF Sound

\* A user deletes the DVM: without a finalizer it has touched nothing.
LEMMA DeleteKeeps ==
    ASSUME Sound(World, copied, plan), Delete
    PROVE  Sound(World, copied, plan)'
<1>1. dvm \in DVMs /\ dvmp \in [PVCs -> Progresses] /\ CleanFit(World, plan)
  BY WorldIs, WorldFields DEF Sound
<1>2. World' = [ pods |-> World.pods, dvmp |-> dvmp', infra |-> World.infra,
                 servers |-> World.servers, vms |-> World.vms, dvm |-> dvm',
                 unread |-> World.unread, missed |-> World.missed ]
  BY WorldIs DEF World, Delete, clusters, lists
<1>3. PICK e : e = dvm'
  OBVIOUS
<1>4. PICK m : m = dvmp'
  OBVIOUS
<1>5. PICK u : u = World'
  OBVIOUS
<1>6. u = [ pods |-> World.pods, dvmp |-> m, infra |-> World.infra,
            servers |-> World.servers, vms |-> World.vms, dvm |-> e,
            unread |-> World.unread, missed |-> World.missed ]
  BY <1>2, <1>3, <1>4, <1>5
<1>7. CASE dvm.finalizer
  <2>1. e = [dvm EXCEPT !.there = "deleting"] /\ m = dvmp
    BY <1>3, <1>4, <1>7 DEF Delete
  <2>2. /\ e \in DVMs /\ e.there = "deleting"
        /\ e.phase = World.dvm.phase /\ e.itinerary = World.dvm.itinerary
        /\ e.failed = World.dvm.failed /\ e.succeeded = World.dvm.succeeded
        /\ e.report = World.dvm.report
    BY <1>1, <2>1, WorldIs DEF DVMs
  <2>3. m \in [PVCs -> Progresses] /\ m = World.dvmp
    BY <1>1, <2>1, WorldIs
  <2>4. Sound(u, copied, plan)
    BY <1>6, <2>2, <2>3, LeavesSound
  <2> QED BY <1>5, <2>4 DEF Delete, clusters
<1>8. CASE ~dvm.finalizer
  <2>1. e = [dvm EXCEPT !.there = "gone", !.finalizer = FALSE] /\ m = [p \in PVCs |-> "none"]
    BY <1>3, <1>4, <1>8 DEF Delete, Vanish
  <2>2. /\ e \in DVMs /\ e.there = "gone"
        /\ e.phase = World.dvm.phase /\ e.itinerary = World.dvm.itinerary
        /\ e.failed = World.dvm.failed /\ e.succeeded = World.dvm.succeeded
        /\ e.report = World.dvm.report
    BY <1>1, <2>1, WorldIs DEF DVMs
  <2>3. m \in [PVCs -> Progresses] /\ \A p \in PVCs : m[p] = "none"
    BY <2>1 DEF Progresses
  <2>4. Clear(World) /\ (plan.mode = "CutOver" => \A p \in PVCs : AtSource(World.vms[p]))
    BY <1>1, <1>8, WorldIs DEF CleanFit, Delete, Forth
  <2>5. Sound(u, copied, plan)
    BY <1>6, <2>2, <2>3, <2>4, LeavesSound
  <2> QED BY <1>5, <2>5 DEF Delete, clusters
<1> QED BY <1>7, <1>8

\* A machine is brought back to its source, while the DVM is being deleted.
LEMMA BackMoves ==
    ASSUME NEW w, NEW C, NEW P, Sound(w, C, P), Forth(P), P.live, P.mode = "CutOver",
           w.dvm.there = "deleting", NEW p \in PVCs, InUse(w, "cancel", p, "source")
    PROVE  Moves(w.vms[p], UpdateVM(w.vms[p], "source"), p, w.dvm, C, P)
<1>1. PICK v : v = w.vms[p]
  OBVIOUS
<1>2. /\ v \in Engines /\ MachineFit(v, p, C, P) /\ Launched(v, w.dvm, P)
      /\ v.on = "source" \/ "source" \in v.stale
  BY <1>1, WorldFields DEF Sound, MachinesFit, InUse
<1>3. CASE v.at = "source"
  <2>1. UpdateVM(v, "source") = v
    BY <1>2, <1>3, UpdateFacts DEF Sides
  <2> QED BY <1>1, <2>1, MovesStay
<1>4. CASE v.at # "source"
  <2>1. PICK t : t = UpdateVM(v, "source")
    OBVIOUS
  <2>2. /\ t \in Engines /\ t.on = v.on /\ t.stale = v.stale /\ t.at = "source"
        /\ v.on = "target" => t.migration = "pending"
        /\ v.on = "source" => t.migration \in {"failed", "none"}
    BY <1>2, <1>4, <2>1, UpdateFacts DEF Sides
  <2>3. v.on \in {"source", "target"} /\ v.at = "target"
    BY <1>2, <1>4 DEF MachineFit, Engines, Machines, Sides
  <2>4. MachineFit(t, p, C, P)
    BY <1>2, <2>2, <2>3 DEF MachineFit, Unsettled
  <2>5. Launched(t, w.dvm, P)
    BY <1>2, <2>2 DEF Launched
  <2>6. Moves(v, t, p, w.dvm, C, P)
    BY <1>2, <2>2, <2>3, <2>4, <2>5 DEF Moves, Torn, Aside, AtSource
  <2> QED BY <1>1, <2>1, <2>6
<1> QED BY <1>3, <1>4

\* cancelLiveMigrations brings back every machine with a pod on its source.
LEMMA CancelLiveSound ==
    ASSUME Sound(World, copied, plan), dvm.there = "deleting"
    PROVE  LET w == CancelLive(World)
           IN  /\ Sound(w, copied, plan)
               /\ w.dvm = dvm /\ w.dvmp = dvmp
               /\ w.unread = unread /\ w.missed = missed
               /\ plan.live /\ plan.mode = "CutOver" => \A p \in PVCs :
                     InUse(w, "cancel", p, "source") => w.vms[p].at = "source"
<1> DEFINE w == CancelLive(World)
           ms == [p \in PVCs |->
                    IF InUse(World, "cancel", p, "source") THEN UpdateVM(World.vms[p], "source")
                    ELSE World.vms[p]]
<1>1. CASE ~(plan.live /\ plan.mode = "CutOver")
  <2>1. w = World
    BY <1>1 DEF CancelLive
  <2> QED BY <1>1, <2>1, WorldIs
<1>2. CASE plan.live /\ plan.mode = "CutOver"
  <2>1. w = [World EXCEPT !.vms = ms]
    BY <1>2 DEF CancelLive
  <2>2. \A p \in PVCs : World.vms[p] \in Engines
    BY WorldFields DEF Sound
  <2>3. \A p \in PVCs : InUse(World, "cancel", p, "source") =>
           /\ UpdateVM(World.vms[p], "source") \in Engines
           /\ UpdateVM(World.vms[p], "source").at = "source"
           /\ UpdateVM(World.vms[p], "source").on = World.vms[p].on
           /\ UpdateVM(World.vms[p], "source").stale = World.vms[p].stale
    BY <2>2, UpdateFacts DEF Sides
  <2>4. ms \in [PVCs -> Engines]
    BY <2>2, <2>3
  <2>5. \A p \in PVCs : Moves(World.vms[p], ms[p], p, World.dvm, copied, plan)
    <3>1. Forth(plan)
      BY <1>2 DEF Forth
    <3> QED BY <1>2, <3>1, BackMoves, MovesStay, WorldIs
  <2>6. \A p \in PVCs : InUse([World EXCEPT !.vms = ms], "cancel", p, "source") => ms[p].at = "source"
    <3>1. /\ [World EXCEPT !.vms = ms].vms = ms
          /\ [World EXCEPT !.vms = ms].unread = World.unread
      BY DEF World
    <3>2. \A p \in PVCs : ms[p].on = World.vms[p].on /\ ms[p].stale = World.vms[p].stale
      BY <2>3
    <3>3. \A p \in PVCs : InUse(World, "cancel", p, "source") => ms[p].at = "source"
      BY <2>3
    <3> HIDE DEF ms
    <3> QED BY <3>1, <3>2, <3>3 DEF InUse
  <2> HIDE DEF ms
  <2>7. MachinesChanged(World, [World EXCEPT !.vms = ms], ms)
    BY DEF World, MachinesChanged
  <2>8. Sound([World EXCEPT !.vms = ms], copied, plan)
    BY <2>4, <2>5, <2>7, MachinesSound
  <2>9. /\ [World EXCEPT !.vms = ms].dvm = dvm /\ [World EXCEPT !.vms = ms].dvmp = dvmp
        /\ [World EXCEPT !.vms = ms].vms = ms
        /\ [World EXCEPT !.vms = ms].unread = unread
        /\ [World EXCEPT !.vms = ms].missed = missed
    BY DEF World
  <2> QED BY <2>1, <2>6, <2>8, <2>9
<1> QED BY <1>1, <1>2

\* What is deleted while the DVM is.
LEMMA DeletedSound ==
    ASSUME NEW w, NEW v, NEW C, NEW P \in Facts, Sound(w, C, P), Deleted(w, v),
           w.dvm.there = "deleting"
    PROVE  Sound(v, C, P)
<1>1. v.dvm = w.dvm /\ v.vms = w.vms /\ v.dvmp = w.dvmp /\ v.missed = w.missed
  BY DEF Deleted
<1>2. ASSUME NEW p \in PVCs
      PROVE  PodsFit(v.pods[p], v.dvmp[p], p, C) /\ (Own(w.pods[p]) => Own(v.pods[p]))
  <2>1. PodsFit(w.pods[p], v.dvmp[p], p, C)
    BY <1>1 DEF Sound
  <2> QED BY <2>1, AlikeFits DEF Deleted
<1>3. ServersFit(v, P)
  BY DeletedServers DEF Sound
<1>4. MachinesFit(v, C, P)
  BY <1>1 DEF Sound, MachinesFit, Followed, Heard
<1>5. PhasesFit(v, C, P)
  BY <1>1, <1>2 DEF Sound, PhasesFit, Told, Heard
<1>6. CleanFit(v, P)
  BY <1>1 DEF CleanFit
<1> QED BY <1>1, <1>2, <1>3, <1>4, <1>5, <1>6 DEF Sound, Deleted

\* When nothing is listed, the DVM left nothing in the namespaces it used, nor
\* in the other ones.
LEMMA NothingLeft ==
    ASSUME NEW w, NEW v, NEW C, Sound(v, C, plan), Deleted(w, v), NothingListed(v, FALSE)
    PROVE  Clear(v)
<1>1. \A p \in PVCs : \A i \in DOMAIN v.pods[p] : ~v.pods[p][i].own
  BY DEF NothingListed, Live
<1>2. \A n \in Namespaces : v.infra[n].endpoint = "none" /\ ~v.infra[n].transport
  BY DEF Deleted
<1>3. ASSUME NEW n \in Namespaces, NEW k \in {"fs", "block"}
      PROVE  v.servers[n][k].state = "none"
  <2>1. CASE n \in Used
    BY <2>1 DEF NothingListed, Listed
  <2>2. CASE n \notin Used
    BY <2>2 DEF Sound, ServersFit, Used, UsedBy
  <2> QED BY <2>1, <2>2
<1> QED BY <1>1, <1>2, <1>3 DEF Clear

\* When the live migrations are cancelled, the machines whose pods were listed
\* are at their sources.
LEMMA AllBack ==
    ASSUME NEW v, NEW C, Sound(v, C, plan), LiveCancelled(v), plan.mode = "CutOver",
           plan.live => \A p \in PVCs : InUse(v, "cancel", p, "source") => v.vms[p].at = "source",
           ~v.dvm.succeeded, ~Stops(plan), ~Swept(v.dvm), NEW p \in PVCs, Heard(v, {"cancel"}, p)
    PROVE  AtSource(v.vms[p])
<1>1. PICK t : t = v.vms[p]
  OBVIOUS
<1>2. /\ t \in Engines /\ MachineFit(t, p, C, plan)
      /\ t.on = "target" => "source" \in t.stale
      /\ <<"cancel", p>> \notin v.unread
  BY <1>1, WorldFields DEF Sound, MachinesFit, Forth, Launched, Heard
<1>3. CASE ~plan.live
  BY <1>1, <1>2, <1>3 DEF MachineFit, AtSource
<1>4. CASE plan.live /\ InUse(v, "cancel", p, "source")
  <2>1. t.at = "source" /\ t.migration \in {"none", "succeeded"}
    BY <1>1, <1>4 DEF LiveCancelled
  <2> QED BY <1>1, <1>2, <2>1 DEF MachineFit, AtSource
<1>5. CASE plan.live /\ ~InUse(v, "cancel", p, "source")
  <2>1. t.on = ""
    BY <1>1, <1>2, <1>5 DEF InUse, Engines, Machines, Sides
  <2> QED BY <1>1, <1>2, <2>1 DEF MachineFit, AtSource
<1> QED BY <1>3, <1>4, <1>5

\* The deletion of the DVM, which lets it go when nothing is left.
LEMMA CleanupKeeps ==
    ASSUME Sound(World, copied, plan), plan \in Facts, Cleanup
    PROVE  Sound(World, copied, plan)'
<1>1. PICK w : w = CancelLive(World)
  OBVIOUS
<1>2. PICK v : v = DeleteListed(w, Ours)
  OBVIOUS
<1>3. dvm.there = "deleting"
  BY DEF Cleanup
<1>4. /\ Sound(w, copied, plan)
      /\ w.dvm = dvm /\ w.dvmp = dvmp /\ w.unread = unread /\ w.missed = missed
      /\ plan.live /\ plan.mode = "CutOver" => \A p \in PVCs :
            InUse(w, "cancel", p, "source") => w.vms[p].at = "source"
  BY <1>1, <1>3, CancelLiveSound
<1>5. Deleted(w, v)
  BY <1>2, <1>4, DeleteListedIs DEF Sound
<1>6. Sound(v, copied, plan)
  BY <1>3, <1>4, <1>5, DeletedSound
<1>7. /\ v.dvm = dvm /\ v.dvmp = dvmp /\ v.vms = w.vms
      /\ v.unread = w.unread /\ v.missed = missed
  BY <1>4, <1>5 DEF Deleted
<1>8. /\ pods' = v.pods /\ infra' = v.infra /\ servers' = v.servers /\ vms' = v.vms
      /\ IF LiveCancelled(v) /\ NothingListed(v, FALSE) THEN Vanish ELSE UNCHANGED <<dvm, dvmp>>
      /\ unread' = {} /\ UNCHANGED <<plan, copied, missed>>
  BY <1>1, <1>2 DEF Cleanup
<1>9. PICK e : e = dvm'
  OBVIOUS
<1>10. PICK m : m = dvmp'
  OBVIOUS
<1>11. PICK u : u = World'
  OBVIOUS
<1>12. u = [ pods |-> v.pods, dvmp |-> m, infra |-> v.infra,
             servers |-> v.servers, vms |-> v.vms, dvm |-> e,
             unread |-> {}, missed |-> v.missed ]
  BY <1>7, <1>8, <1>9, <1>10, <1>11 DEF World
<1>13. v.dvm \in DVMs /\ v.dvmp \in [PVCs -> Progresses]
  BY <1>6, WorldFields DEF Sound
<1>14. CASE LiveCancelled(v) /\ NothingListed(v, FALSE)
  <2>1. e = [v.dvm EXCEPT !.there = "gone", !.finalizer = FALSE] /\ m = [p \in PVCs |-> "none"]
    BY <1>7, <1>8, <1>9, <1>10, <1>14 DEF Vanish
  <2>2. /\ e \in DVMs /\ e.there = "gone"
        /\ e.phase = v.dvm.phase /\ e.itinerary = v.dvm.itinerary
        /\ e.failed = v.dvm.failed /\ e.succeeded = v.dvm.succeeded
        /\ e.report = v.dvm.report
    BY <1>13, <2>1 DEF DVMs
  <2>3. m \in [PVCs -> Progresses] /\ \A p \in PVCs : m[p] = "none"
    BY <2>1 DEF Progresses
  <2>4. Clear(v)
    BY <1>5, <1>6, <1>14, NothingLeft
  <2>5. Swept(e) <=> Swept(v.dvm)
    BY <2>2 DEF Swept
  <2>6. plan.live /\ plan.mode = "CutOver" => \A p \in PVCs :
           InUse(v, "cancel", p, "source") => v.vms[p].at = "source"
    BY <1>4, <1>7 DEF InUse
  <2>7. plan.mode = "CutOver" /\ ~e.succeeded /\ ~Stops(plan) /\ ~Swept(e) =>
           \A p \in PVCs : Heard(v, {"cancel"}, p) => AtSource(v.vms[p])
    BY <1>6, <1>14, <2>2, <2>5, <2>6, AllBack
  <2>8. Sound(u, copied, plan)
    BY <1>6, <1>12, <2>2, <2>3, <2>4, <2>7, LeavesSound
  <2> QED BY <1>8, <1>11, <2>8
<1>15. CASE ~(LiveCancelled(v) /\ NothingListed(v, FALSE))
  <2>1. e = v.dvm /\ m = v.dvmp
    BY <1>7, <1>8, <1>9, <1>10, <1>15
  <2>2. e.there = "deleting"
    BY <1>3, <1>7, <2>1
  <2>3. Sound(u, copied, plan)
    BY <1>6, <1>12, <1>13, <2>1, <2>2, LeavesSound
  <2> QED BY <1>8, <1>11, <2>3
<1> QED BY <1>14, <1>15

-----------------------------------------------------------------------------
(* The invariant *)

\* The invariant holds at the start.
LEMMA InitIInv == Init => IInv
<1> SUFFICES ASSUME Init PROVE IInv
  OBVIOUS
<1>1. plan \in Plans /\ plan \in Facts /\ copied = {} /\ faults = 0 /\ plan.max \in Nat
  BY DVMAssumption DEF Init, Facts
<1>2. /\ dvm.there = "yes" /\ ~dvm.finalizer /\ dvm.phase = "" /\ dvm.itinerary = ""
      /\ dvm.failed = "" /\ ~dvm.succeeded
      /\ unread = {} /\ missed = {}
  BY DEF Init
<1>3. dvm \in DVMs
  <2>1. "" \in DVMPhases
    BY DEF DVMPhases
  <2>2. Limit \in Nat \ {0} /\ 0 \in 0..Limit
    BY DVMAssumption
  <2>3. [p \in PVCs |-> [attempt |-> 0, result |-> ""]] \in
           [PVCs -> [attempt : 0..Limit, result : {""} \cup Terminal]]
    BY <2>2
  <2>4. [p \in PVCs |-> ""] \in [PVCs -> Reports]
    BY DEF Reports
  <2> QED BY <2>1, <2>3, <2>4 DEF Init, DVMs
<1>4. \A p \in PVCs : /\ pods[p] \in Seq(ClientPods)
                      /\ \A i \in DOMAIN pods[p] : ~pods[p][i].own
                      /\ dvmp[p] = "none"
  <2>1. PICK e : e = [Pod(1, FALSE) EXCEPT !.phase = "Succeeded"]
    OBVIOUS
  <2>2. Limit \in Nat \ {0} /\ 1 \in 1..Limit
    BY DVMAssumption
  <2>3. e \in ClientPods /\ ~e.own
    BY <2>1, <2>2 DEF Pod, ClientPods, PodPhases
  <2>4. <<e>> \in Seq(ClientPods) /\ \A i \in DOMAIN <<e>> : <<e>>[i] = e
    BY <2>3
  <2>5. <<>> \in Seq(ClientPods) /\ DOMAIN <<>> = {}
    OBVIOUS
  <2>6. \A p \in PVCs : pods[p] = <<e>> \/ pods[p] = <<>>
    BY <2>1 DEF Init
  <2>7. \A p \in PVCs : dvmp[p] = "none"
    BY DEF Init
  <2> QED BY <2>3, <2>4, <2>5, <2>6, <2>7
<1>5. pods \in [PVCs -> Seq(ClientPods)] /\ dvmp \in [PVCs -> Progresses]
  <2>1. pods = [p \in PVCs |-> pods[p]] /\ dvmp = [p \in PVCs |-> dvmp[p]]
    BY DEF Init
  <2> QED BY <1>4, <2>1 DEF Progresses
<1>6. /\ infra \in [Namespaces -> Infras]
      /\ \A n \in Namespaces : infra[n].endpoint = "none" /\ ~infra[n].transport
  BY DEF Init, Infras
<1>7. /\ servers \in [Namespaces -> [{"fs", "block"} -> Servers]]
      /\ \A n \in Namespaces : \A k \in {"fs", "block"} :
            servers[n][k].state = "none" /\ servers[n][k].vols = {}
  BY DEF Init, Servers, NoServer
<1>8. /\ vms \in [PVCs -> Engines]
      /\ Forth(plan) => \A p \in PVCs :
            /\ vms[p].at = "source" /\ vms[p].on \in {"", "source"} /\ vms[p].stale = {}
            /\ vms[p].migration = "none"
  <2>1. \A p \in PVCs :
           /\ vms[p] = [at |-> vms[p].at, on |-> vms[p].on, stale |-> {},
                        migration |-> vms[p].migration]
           /\ vms[p].at \in {"source", "target"} /\ vms[p].on \in {"", vms[p].at}
           /\ vms[p].migration \in {"none", "succeeded"} /\ vms[p].stale = {}
           /\ Forth(plan) => vms[p].at = "source" /\ vms[p].migration = "none"
    BY DEF Init, Forth
  <2>2. ASSUME NEW p \in PVCs PROVE vms[p] \in Engines
    <3>1. PICK v : v = vms[p]
      OBVIOUS
    <3>2. PICK at \in {"source", "target"}, on \in {"", "source", "target"},
               m \in {"none", "succeeded"} :
             v = [at |-> at, on |-> on, stale |-> {}, migration |-> m]
      <4>1. vms[p].on \in {"", "source", "target"}
        BY <2>1
      <4> QED BY <2>1, <3>1, <4>1
    <3>3. {} \in SUBSET Sides /\ at \in Sides /\ on \in Sides \cup {""}
      BY DEF Sides
    <3>4. v \in Machines /\ v.migration \in {"none", "succeeded"}
      BY <3>2, <3>3 DEF Machines
    <3> QED BY <3>1, <3>2, <3>4 DEF Engines, Unsettled
  <2>3. vms = [p \in PVCs |-> vms[p]]
    BY DEF Init
  <2> QED BY <2>1, <2>2, <2>3
<1>9. World \in Worlds
  BY <1>2, <1>3, <1>5, <1>6, <1>7, <1>8 DEF World, Worlds
<1>10. \A p \in PVCs : PodsFit(World.pods[p], World.dvmp[p], p, copied)
  BY <1>4, WorldIs DEF PodsFit
<1>11. MachinesFit(World, copied, plan)
  <2>1. ~Moved(dvm) /\ ~dvm.succeeded
    BY <1>2 DEF Moved
  <2>2. Forth(plan) => \A p \in PVCs : /\ MachineFit(vms[p], p, copied, plan)
                                       /\ Untouched(vms[p])
                                       /\ Launched(vms[p], dvm, plan)
    BY <1>8 DEF MachineFit, Untouched, Launched, Unsettled
  <2> QED BY <2>1, <2>2, WorldIs DEF MachinesFit
<1>12. ServersFit(World, plan)
  <2>1. \A p \in PVCs : plan.ns[p] \in Namespaces
    BY <1>1 DEF Facts
  <2> QED BY <1>7, <2>1, WorldIs DEF ServersFit
<1>13. StatusFit(World.dvm, plan)
  BY <1>2, WorldIs DEF StatusFit
<1>14. PhasesFit(World, copied, plan)
  BY <1>2, WorldIs DEF PhasesFit, Moved, Late
<1>15. CleanFit(World, plan)
  <2>1. Clear(World)
    BY <1>4, <1>6, <1>7, WorldIs DEF Clear
  <2> QED BY <1>2, <1>8, <2>1, WorldIs DEF CleanFit, AtSource
<1> QED BY <1>1, <1>9, <1>10, <1>11, <1>12, <1>13, <1>14, <1>15 DEF IInv, Sound

\* Every action keeps the worlds sound.
LEMMA StepKeeps ==
    ASSUME Sound(World, copied, plan), plan \in Facts, Next
    PROVE  Sound(World, copied, plan)'
<1>1. CASE Controllers
  BY <1>1, PassKeeps, PassLostKeeps, PassFailsKeeps, PassConflictsKeeps, PassBlockedKeeps,
     CleanupKeeps, ReportProgressKeeps, ReportUnlabelledKeeps DEF Controllers
<1>2. CASE Clusters
  BY <1>2, PodRunsKeeps, PodEndsKeeps, PodGoneKeeps, KubeVirtKeeps, AdmitKeeps,
     ServerMovesKeeps, ListFailsKeeps DEF Clusters
<1>3. CASE Users
  BY <1>3, DeleteKeeps, StopVMKeeps, StartVMKeeps DEF Users
<1> QED BY <1>1, <1>2, <1>3 DEF Next

\* A step leaves the plan, and counts what goes wrong within the bound.
LEMMA FaultsCount ==
    ASSUME Next
    PROVE  plan' = plan /\ (faults' = faults \/ (faults < plan.max /\ faults' = faults + 1))
<1>1. CASE Controllers
  BY <1>1 DEF Controllers, Pass, PassLost, PassFails, PassConflicts, PassBlocked, Cleanup,
     ReportProgress, ReportUnlabelled, Effects, Spend
<1>2. CASE Clusters
  BY <1>2 DEF Clusters, PodRuns, PodEnds, PodGone, KubeVirt, ListFails, Admit, ServerMoves, Spend
<1>3. CASE Users
  BY <1>3 DEF Users, Delete, StopVM, StartVM, Spend
<1> QED BY <1>1, <1>2, <1>3 DEF Next

\* Every step keeps the invariant.
LEMMA NextIInv == IInv /\ [Next]_vars => IInv'
<1> SUFFICES ASSUME IInv, [Next]_vars PROVE IInv'
  OBVIOUS
<1>1. plan \in Facts /\ plan.max \in Nat
  BY DVMAssumption DEF IInv, Facts
<1>2. CASE Next
  <2>1. Sound(World, copied, plan)'
    BY <1>1, <1>2, StepKeeps DEF IInv
  <2>2. plan' \in Plans /\ faults' \in 0..plan'.max
    BY <1>1, <1>2, FaultsCount DEF IInv
  <2> QED BY <2>1, <2>2 DEF IInv
<1>3. CASE UNCHANGED vars
  <2>1. World' = World /\ copied' = copied /\ plan' = plan /\ faults' = faults
    BY <1>3 DEF vars, lists, World
  <2> QED BY <2>1 DEF IInv
<1> QED BY <1>2, <1>3

\* Every state of a behaviour satisfies the invariant.
THEOREM Invariance == Spec => []IInv
<1> QED BY InitIInv, NextIInv, PTL DEF Spec

\* The variables have their types: whatever the handlers, the clusters and the
\* users do, the DVM, the pods, the reports, the servers and the machines are
\* ones that the controller may meet, and no more goes wrong than the plan says.
THEOREM TypeCorrect == Spec => []TypeOK
<1>1. IInv => TypeOK
  BY WorldIs, WorldFields DEF IInv, Sound, TypeOK, Progresses, Engines
<1> QED BY <1>1, Invariance, PTL

\* No rsync server mounts a target volume that a machine runs on or migrates to,
\* for any volumes and plans, but for a machine that was stopped after it had
\* moved, or was not seen when the servers were made because the list of its pods
\* failed unnoticed (currentOfflineMigration and filterRunningVMs ask the
\* clusters at different moments of a pass).
THEOREM OneWriterHolds == Spec => []OneWriter
<1>1. IInv => OneWriter
  <2> SUFFICES ASSUME IInv, NEW p \in PVCs,
                      p \in servers[plan.ns[p]]["block"].vols, <<"servers", p>> \notin missed
               PROVE  /\ vms[p].migration # "running"
                      /\ vms[p].on = "target" => "stop" \in plan.faults /\ p \in copied
    BY DEF OneWriter
  <2>1. Aside(vms[p], plan)
    BY WorldIs DEF IInv, Sound, ServersFit, Heard
  <2>2. MachineFit(vms[p], p, copied, plan)
    BY <2>1, WorldIs DEF IInv, Sound, MachinesFit, Aside
  <2> QED BY <2>1, <2>2 DEF Aside, MachineFit, Unsettled, Stops
<1> QED BY <1>1, Invariance, PTL

\* A DVM that is gone has left no pods, servers, endpoints or transports, and
\* no machine on its target volume before it succeeded, but for one that was
\* stopped, whose old virt-launcher pod was cleaned up after it had moved, or
\* that cancelLiveMigrations missed because the list of its pods failed unnoticed
\* (the branch of DeletionTimestamp in directvolumemigration_controller.go).
THEOREM GoneLeavesNothing == Spec => []GoneIsClean
<1>1. IInv => GoneIsClean
  <2> SUFFICES ASSUME IInv, dvm.there = "gone" PROVE GoneIsClean
    BY DEF GoneIsClean, FinalizerGuards, CancelBringsBack
  <2>1. Clear(World) /\ CleanFit(World, plan) /\ StatusFit(dvm, plan)
    BY WorldIs DEF IInv, Sound, CleanFit
  <2>2. FinalizerGuards
    BY <2>1, WorldIs DEF FinalizerGuards, Clear, Live, Listed
  <2>3. ASSUME ~dvm.succeeded, plan.mode = "CutOver", NEW p \in PVCs, vms[p].on = "target"
        PROVE  /\ p \in copied
               /\ \/ "stop" \in plan.faults
                  \/ <<"cancel", p>> \in missed
                  \/ dvm.failed = "Warn" \/ dvm.phase = "CleanupStaleVirtHandlerPods"
    <3>1. Forth(plan)
      BY <2>3 DEF Forth
    <3>2. MachineFit(vms[p], p, copied, plan)
      BY <3>1, WorldIs DEF IInv, Sound, MachinesFit
    <3>3. Stops(plan) \/ Swept(dvm) \/ <<"cancel", p>> \in missed
      BY <2>1, <2>3, WorldIs DEF CleanFit, AtSource, Heard
    <3>4. dvm.phase = "Completed" => dvm.failed = "Warn"
      BY <2>1, <2>3 DEF StatusFit
    <3> QED BY <2>3, <3>2, <3>3, <3>4 DEF MachineFit, Stops, Swept
  <2> QED BY <2>2, <2>3 DEF GoneIsClean, CancelBringsBack
<1> QED BY <1>1, Invariance, PTL

\* A machine that a successful DVM moved, and whose move it followed, is not moved
\* back by any step.
LEMMA NotMovedBack ==
    ASSUME IInv, Next
    PROVE  SuccessIsKept
<1> SUFFICES ASSUME dvm.succeeded, plan.mode = "CutOver", NEW p \in PVCs, vms[p].at = "target",
                    {<<"names", p>>, <<"verdict", p>>} \cap missed = {}
             PROVE  vms'[p].at = "target"
  BY DEF SuccessIsKept
<1>1. Sound(World, copied, plan)
  BY DEF IInv
<1>2. vms \in [PVCs -> Engines] /\ ~Torn(vms[p]) /\ vms[p].stale = {}
  <2>1. Followed(World, p)
    BY WorldIs DEF Followed, Heard
  <2> QED BY <1>1, <2>1, WorldIs, WorldFields DEF Sound, MachinesFit, Moved, Forth
<1>3. ~Migrating
  BY <1>1, Where
<1>4. CASE UNCHANGED vms
  BY <1>4
<1>5. CASE Cleanup
  <2>1. PICK w : w = CancelLive(World)
    OBVIOUS
  <2>2. Sound(w, copied, plan)
    BY <1>1, <1>5, <2>1, CancelLiveSound DEF Cleanup
  <2>3. vms' = DeleteListed(w, Ours).vms
    BY <1>5, <2>1 DEF Cleanup
  <2>4. vms' = w.vms
    BY <2>2, <2>3, DeleteListedIs DEF Sound, Deleted
  <2>5. ~InUse(World, "cancel", p, "source")
    BY <1>2, WorldIs DEF InUse, Torn
  <2>6. w.vms[p] = vms[p]
    BY <2>1, <2>5 DEF CancelLive, World
  <2> QED BY <2>4, <2>6
<1>6. CASE \E q \in PVCs : KubeVirt(q) \/ StopVM(q) \/ StartVM(q)
  <2>1. PICK q \in PVCs : KubeVirt(q) \/ StopVM(q) \/ StartVM(q)
    BY <1>6
  <2>2. PICK m : m = vms
    OBVIOUS
  <2>3. m \in [PVCs -> Machines]
    BY <1>2, <2>2 DEF Engines
  <2>4. ASSUME NEW t, vms' = [vms EXCEPT ![q] = t], t.at = vms[q].at
        PROVE  vms'[p].at = "target"
    BY <1>2, <2>4
  <2>5. CASE KubeVirt(q)
    <3>1. vms[q] \in Machines
      BY <2>2, <2>3
    <3>2. ASSUME NEW s, vms' = [vms EXCEPT ![q].migration = s]
          PROVE  vms'[p].at = "target"
      <4>1. PICK t : t = [vms[q] EXCEPT !.migration = s]
        OBVIOUS
      <4>2. t.at = vms[q].at
        BY <3>1, <4>1 DEF Machines
      <4>3. vms' = [vms EXCEPT ![q] = t]
        BY <1>2, <3>2, <4>1
      <4> QED BY <2>4, <4>2, <4>3
    <3>3. ASSUME vms' = [vms EXCEPT ![q].on = vms[q].at, ![q].stale = @ \cup {vms[q].on},
                                    ![q].migration = "succeeded"]
          PROVE  vms'[p].at = "target"
      <4>1. PICK t : t = [vms[q] EXCEPT !.on = vms[q].at, !.stale = @ \cup {vms[q].on},
                                        !.migration = "succeeded"]
        OBVIOUS
      <4>2. t.at = vms[q].at
        BY <3>1, <4>1 DEF Machines
      <4>3. vms' = [vms EXCEPT ![q] = t]
        BY <1>2, <3>3, <4>1
      <4> QED BY <2>4, <4>2, <4>3
    <3> QED BY <2>5, <3>2, <3>3 DEF KubeVirt
  <2>6. CASE StopVM(q)
    <3>1. \E l, s : vms' = [vms EXCEPT ![q] = [@ EXCEPT !.on = "", !.stale = l,
                                                        !.migration = s]]
      BY <1>2, <2>6 DEF StopVM
    <3>2. vms[q] \in Machines
      BY <2>2, <2>3
    <3>3. \A l, s : [vms[q] EXCEPT !.on = "", !.stale = l, !.migration = s].at = vms[q].at
      BY <3>2 DEF Machines
    <3> QED BY <2>4, <3>1, <3>3
  <2>7. CASE StartVM(q)
    <3>1. vms' = [vms EXCEPT ![q] = [@ EXCEPT !.on = vms[q].at]]
      BY <1>2, <2>7 DEF StartVM
    <3>2. vms[q] \in Machines
      BY <2>2, <2>3
    <3>3. [vms[q] EXCEPT !.on = vms[q].at].at = vms[q].at
      BY <3>2 DEF Machines
    <3> QED BY <2>4, <3>1, <3>3
  <2> QED BY <2>1, <2>5, <2>6, <2>7
<1>7. CASE Controllers
  BY <1>3, <1>4, <1>5, <1>7 DEF Controllers, Pass, PassLost, PassFails, PassConflicts,
     PassBlocked, ReportProgress, ReportUnlabelled, clusters
<1>8. CASE Clusters
  BY <1>4, <1>6, <1>8 DEF Clusters, PodRuns, PodEnds, PodGone, ListFails, Admit, ServerMoves,
     clusters
<1>9. CASE Users
  BY <1>4, <1>6, <1>9 DEF Users, Delete, clusters
<1> QED BY <1>7, <1>8, <1>9 DEF Next

\* A success is true and lasts: what a DVM that succeeded says was moved has
\* reached the target, and no later step takes a machine that moved back to its
\* source, the deletion of the DVM included (migrate sets Succeeded from the
\* phase alone; cancelLiveMigrations goes by virt-launcher pods).  Excepted is a
\* machine that was missed when the success was decided, because the list of its
\* pods failed unnoticed.
THEOREM SuccessIsTrue == Spec => SuccessHolds
<1>1. IInv => SuccessMeansCopied
  BY WorldIs DEF IInv, Sound, PhasesFit, Moved, Told, Heard, Forth, SuccessMeansCopied
<1>2. IInv /\ IInv' /\ [Next]_vars => [SuccessMeansCopied' /\ SuccessIsKept]_vars
  <2>1. IInv' => SuccessMeansCopied'
    BY <1>1, PTL
  <2> QED BY <2>1, NotMovedBack
<1> QED BY <1>2, Invariance, PTL DEF Spec, SuccessHolds
=============================================================================

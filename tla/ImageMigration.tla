---------------------------- MODULE ImageMigration ----------------------------
(***************************************************************************)
(* The direct migration of images: a migration (pkg/controller/            *)
(* migmigration/directimagemigration.go) makes a DirectImageMigration      *)
(* (dim), whose controller (directimagemigration) lists the image streams  *)
(* of the namespaces and makes a DirectImageStreamMigration (dism) for     *)
(* each, whose controller (directimagestreammigration) copies the images   *)
(* from one registry to the other.                                         *)
(*                                                                         *)
(* A pass of a controller is one action, or is cut after any of its calls. *)
(* The controllers read from a cache, in which a dim or a dism appears     *)
(* some time after it has been made: a migration may make more than one    *)
(* dim, and a dim more than one dism for an image stream.                  *)
(***************************************************************************)
EXTENDS Naturals, SequencesExt

CONSTANTS
    Streams,      \* the names of image streams, with their namespaces
    Setups,       \* see SetupsAssumption
    MaxChanges,   \* bound on what the user and the clusters change
    MaxFaults,    \* bound on passes that are cut or fail
    MaxSpent      \* bound on both together

Sides == {"Source", "Destination"}
Changes == {"stream", "dism", "dim", "namespace", "source", "cluster", "cancel", "again"}
NamespaceStates == {"absent", "present", "terminating"}

\* mapping  of each namespace of the plan, its name on the destination
\* home     the namespace of each image stream
\* there    the image streams that exist at first
\* picked   those the label selector of the plan picks
\* dest     the namespaces of the destination at first
\* changes  what may change; "again": the pass that makes the dim may be repeated
ASSUME SetupsAssumption ==
    /\ IsFiniteSet(Streams) /\ {MaxChanges, MaxFaults, MaxSpent} \subseteq Nat
    /\ \A s \in Setups :
          /\ DOMAIN s = {"mapping", "home", "there", "picked", "dest", "changes"}
          /\ DOMAIN s.home = Streams /\ s.there \subseteq Streams /\ s.picked \subseteq Streams
          /\ \A n \in Streams : s.home[n] \in DOMAIN s.mapping
          /\ s.dest \in [{s.mapping[n] : n \in DOMAIN s.mapping} -> NamespaceStates]
          /\ s.changes \subseteq Changes

VARIABLES
    setup,
    parent,   \* the migration: its phase here, whether it warns, the dim it waited for
    dims,     \* the DirectImageMigrations, in the order they were made
    disms,    \* the DirectImageStreamMigrations, in the order they were made
    world,    \* image streams, namespaces, clusters
    images,   \* what the registry of the destination holds
    queued,   \* the dims in the queue of their controller
    touched,  \* the image streams that changes reached, for the properties
    spent

vars == <<setup, parent, dims, disms, world, images, queued, touched, spent>>

-----------------------------------------------------------------------------
(* Itineraries.  Both controllers walk a list of phases without flags; one   *)
(* that has failed goes on with the list for failures.                       *)

DimItinerary ==
    <<"Created", "Started", "Prepare", "CreateDestinationNamespaces", "ListImageStreams",
      "CreateDirectImageStreamMigrations", "WaitingForDirectImageStreamMigrationsToComplete",
      "Completed">>
DismItinerary == <<"Created", "Started", "Prepare", "MigrateImageStream", "Completed">>
FailedItinerary == <<"MigrationFailed", "Completed">>

Waiting == "WaitingForDirectImageStreamMigrationsToComplete"

AfterStays(itinerary, phase) ==   \* mutant: a phase that is not found is kept
    LET places == {i \in 1..(Len(itinerary) - 1) : itinerary[i] = phase}
    IN IF places = {} THEN phase ELSE itinerary[(CHOOSE i \in places : TRUE) + 1]

\* A phase the itinerary does not have is followed by Completed.
After(itinerary, phase) ==
    LET places == {i \in 1..(Len(itinerary) - 1) : itinerary[i] = phase}
    IN IF places = {} THEN "Completed" ELSE itinerary[(CHOOSE i \in places : TRUE) + 1]

-----------------------------------------------------------------------------
(* State *)

Target(s) == setup.mapping[setup.home[s]]
Namespaces == {setup.mapping[n] : n \in DOMAIN setup.mapping}

\* `seen' once the cache shows it.  `listed' is kept for the properties: all
\* that was listed.
Dim == [exists |-> TRUE, seen |-> FALSE, phase |-> "Created", itinerary |-> "",
        errors |-> FALSE, failed |-> FALSE, succeeded |-> FALSE, new |-> {},
        successful |-> {}, deleted |-> {}, bad |-> {}, notFound |-> {},
        ref |-> [s \in Streams |-> 0], listed |-> {}]

\* The dism a dim makes for an image stream; its labels hold the uids of both.
Dism(k, s) == [of |-> k, stream |-> s, uid |-> world.uid[s], dest |-> Target(s),
               phase |-> "Created", errors |-> FALSE, seen |-> FALSE, kept |-> TRUE]

Bound == [change |-> MaxChanges, fault |-> MaxFaults]
Spend(kind) == /\ spent[kind] < Bound[kind]
               /\ spent.change + spent.fault < MaxSpent
               /\ spent' = [spent EXCEPT ![kind] = @ + 1]

Init ==
    /\ setup \in Setups
    /\ parent = [phase |-> "create", warned |-> FALSE, of |-> 0]
    /\ dims = <<>> /\ disms = <<>>
    /\ world = [uid |-> [s \in Streams |-> IF s \in setup.there THEN 1 ELSE 0],
                source |-> DOMAIN setup.mapping,
                dest |-> setup.dest, cluster |-> [s \in Sides |-> "ok"]]
    /\ images = {} /\ queued = {} /\ touched = {}
    /\ spent = [k \in DOMAIN Bound |-> 0]

-----------------------------------------------------------------------------
(* Validation, the same for both controllers as far as clusters go *)

ClusterProblems(side) ==
    [ok |-> {}, missing |-> {"InvalidClusterRef"}, notready |-> {"ClusterNotReady"},
     noregistry |-> {"MissingClusterRegistryPath"}][world.cluster[side]]

NamespaceProblems ==
    IF world.cluster["Source"] \in {"ok", "noregistry"} /\ ~(DOMAIN setup.mapping \subseteq world.source)
    THEN {"NamespaceNotFoundOnSourceCluster"} ELSE {}

DimProblems == NamespaceProblems \cup UNION {ClusterProblems(s) : s \in Sides}

DestNamespaceProblems(d) ==
    IF world.cluster["Destination"] \in {"ok", "noregistry"} /\ world.dest[d.dest] = "absent"
    THEN {"NamespaceNotFoundOnDestinationCluster"} ELSE {}

DismProblems(d) == DestNamespaceProblems(d) \cup UNION {ClusterProblems(s) : s \in Sides}

\* An image stream that is gone is an error of the pass, of which nothing is
\* written; the condition for it cannot be reached.
StreamGone(d) == world.uid[d.stream] = 0

-----------------------------------------------------------------------------
(* The DirectImageMigrations *)

\* The phase a pass handles: the first of an itinerary that has just changed.
DimItineraryOf(m) == IF m.errors \/ m.failed THEN "Failed" ELSE "PVC"
Steps(name) == IF name = "Failed" THEN FailedItinerary ELSE DimItinerary
Handled(m) ==
    LET name == DimItineraryOf(m)
    IN [m EXCEPT !.itinerary = name,
                 !.phase = IF m.itinerary = name THEN @ ELSE Steps(name)[1]]

Advanced(m) ==
    LET phase == After(Steps(m.itinerary), m.phase)
    IN [m EXCEPT !.phase = phase,
                 !.succeeded = @ \/ (phase = "Completed" /\ ~m.failed)]

\* The phase that comes after a failure is remembered under the old itinerary:
\* the next pass starts that for failures.
Failed(m) == [m EXCEPT !.errors = TRUE, !.failed = TRUE]

\* A pass whose phase is `phase' and that finds nothing in its way.
DimTurn(k, phase) ==
    /\ dims[k].exists /\ k \in queued /\ dims[k].phase # "Completed"
    /\ DimProblems = {}
    /\ Handled(dims[k]).phase = phase

Writes(k, m) == dims' = [dims EXCEPT ![k] = m]

DimAdvances(k) ==
    /\ \E phase \in {"Created", "Started", "Prepare", "MigrationFailed"} : DimTurn(k, phase)
    /\ Writes(k, Advanced(Handled(dims[k])))
    /\ queued' = IF dims'[k].phase = "Completed" THEN queued \ {k} ELSE queued
    /\ UNCHANGED <<setup, parent, disms, world, images, touched, spent>>

\* A namespace that is found is taken, one that is being deleted included:
\* the test for that comes too late.
NamespacesToCreate == {n \in Namespaces : world.dest[n] = "absent"}

EnsureDestinationNamespaces(k) ==
    /\ DimTurn(k, "CreateDestinationNamespaces")
    /\ world' = [world EXCEPT !.dest = [n \in DOMAIN @ |->
                    IF n \in NamespacesToCreate THEN "present" ELSE @[n]]]
    /\ Writes(k, Advanced(Handled(dims[k])))
    /\ UNCHANGED <<setup, parent, disms, images, queued, touched, spent>>

CutNamespaces(k) ==
    /\ DimTurn(k, "CreateDestinationNamespaces")
    /\ Spend("fault")
    /\ \E N \in SUBSET NamespacesToCreate :
          world' = [world EXCEPT !.dest = [n \in DOMAIN @ |-> IF n \in N THEN "present" ELSE @[n]]]
    /\ UNCHANGED dims \/ Writes(k, Failed(dims[k]))
    /\ UNCHANGED <<setup, parent, disms, images, queued, touched>>

ImageStreams == {s \in setup.picked : world.uid[s] # 0}

ListImageStreams(k) ==
    /\ DimTurn(k, "ListImageStreams")
    /\ Writes(k, [Advanced(Handled(dims[k])) EXCEPT !.new = ImageStreams, !.listed = ImageStreams])
    /\ UNCHANGED <<setup, parent, disms, world, images, queued, touched, spent>>

CutList(k) ==
    /\ DimTurn(k, "ListImageStreams")
    /\ Spend("fault")
    /\ UNCHANGED dims \/ Writes(k, Failed(dims[k]))
    /\ UNCHANGED <<setup, parent, disms, world, images, queued, touched>>

\* An image stream gets a dism unless the cache shows one with its uid.
Creates(k, s) ==
    /\ world.uid[s] # 0
    /\ \A i \in DOMAIN disms :
          disms[i].seen /\ disms[i].kept /\ disms[i].of = k =>
              disms[i].uid # world.uid[s] \/ disms[i].stream # s

DismsToCreate(k) == {s \in dims[k].new : dims[k].ref[s] = 0 /\ Creates(k, s)}

\* The first n of a list are made.  A dism that was found is not noted: the
\* image stream is left without a reference.
Created(k, list, n) ==
    disms \o [i \in 1..n |-> Dism(k, list[i])]
Noted(m, list, n) ==
    [m EXCEPT !.notFound = {s \in m.new : m.ref[s] = 0 /\ world.uid[s] = 0},
              !.ref = [s \in Streams |->
                  IF \E i \in 1..n : list[i] = s
                  THEN Len(disms) + (CHOOSE i \in 1..n : list[i] = s) ELSE @[s]]]

CreateDirectImageStreamMigrations(k) ==
    /\ DimTurn(k, "CreateDirectImageStreamMigrations")
    /\ \E list \in SetToSeqs(DismsToCreate(k)) :
          /\ disms' = Created(k, list, Cardinality(DismsToCreate(k)))
          /\ Writes(k, Advanced(Noted(Handled(dims[k]), list, Cardinality(DismsToCreate(k)))))
    /\ UNCHANGED <<setup, parent, world, images, queued, touched, spent>>

CutCreate(k) ==
    /\ DimTurn(k, "CreateDirectImageStreamMigrations")
    /\ Spend("fault")
    /\ \E list \in SetToSeqs(DismsToCreate(k)), n \in 0..Cardinality(DismsToCreate(k)) :
          /\ disms' = Created(k, list, n)
          /\ UNCHANGED dims \/ Writes(k, Failed(Noted(dims[k], list, n)))
    /\ UNCHANGED <<setup, parent, world, images, queued, touched>>

\* A reference that is not there is used all the same: the controller panics.
Panics(k) == \E s \in dims[k].new : s \notin dims[k].notFound /\ dims[k].ref[s] = 0

DismOf(k, s) == disms[dims[k].ref[s]]
Retrieved(k, s) == DismOf(k, s).kept /\ DismOf(k, s).seen
HasCompleted(k, s) == Retrieved(k, s) /\ DismOf(k, s).phase = "Completed"

CheckedForgets(k, m, unread) ==   \* mutant: one that cannot be read is forgotten
    LET found == {s \in m.new : s \notin m.notFound /\ Retrieved(k, s) /\ s \notin unread}
        done == {s \in found : HasCompleted(k, s)}
    IN [m EXCEPT !.successful = @ \cup {s \in done : ~DismOf(k, s).errors},
                 !.bad = @ \cup {s \in done : DismOf(k, s).errors},
                 !.deleted = @ \cup m.notFound,
                 !.new = found \ done]

\* The image streams are sorted by what became of them; a dism that cannot be
\* read has failed.
Checked(k, m, unread) ==
    LET found == m.new \ m.notFound
        lost == {s \in found : ~Retrieved(k, s) \/ s \in unread}
        done == {s \in found \ lost : HasCompleted(k, s)}
    IN [m EXCEPT !.successful = @ \cup {s \in done : ~DismOf(k, s).errors},
                 !.bad = @ \cup lost \cup {s \in done : DismOf(k, s).errors},
                 !.deleted = @ \cup (m.new \cap m.notFound),
                 !.new = found \ (lost \cup done)]

\* Waiting is left to the events of the disms.
Judged(m) ==
    IF m.new # {} THEN m
    ELSE IF m.bad # {} THEN [Failed(m) EXCEPT !.phase = "MigrationFailed"]
    ELSE Advanced(m)

CheckDISMCompletion(k) ==
    /\ DimTurn(k, Waiting)
    /\ ~Panics(k)
    /\ Writes(k, Judged(Checked(k, Handled(dims[k]), {})))
    /\ queued' = IF dims'[k].phase = "MigrationFailed" THEN queued ELSE queued \ {k}
    /\ UNCHANGED <<setup, parent, disms, world, images, touched, spent>>

\* Some cannot be read, or the status is not written.
CutCheck(k) ==
    /\ DimTurn(k, Waiting)
    /\ ~Panics(k)
    /\ Spend("fault")
    /\ \/ \E S \in (SUBSET dims[k].new) \ {{}} :
             Writes(k, Judged(Checked(k, Handled(dims[k]), S)))
       \/ UNCHANGED dims
    /\ UNCHANGED <<setup, parent, disms, world, images, queued, touched>>

-----------------------------------------------------------------------------
(* The DirectImageStreamMigrations *)

\* The event of a change reaches both controllers: that of the dim queues it.
OwnerQueued(i) == queued' = queued \cup {k \in {disms[i].of} : dims[k].exists}

Sync(i) ==
    /\ disms[i].kept /\ ~disms[i].seen
    /\ disms' = [disms EXCEPT ![i].seen = TRUE]
    /\ OwnerQueued(i)
    /\ UNCHANGED <<setup, parent, dims, world, images, touched, spent>>

DismTurn(i, phase) ==
    /\ disms[i].kept /\ disms[i].seen /\ disms[i].phase = phase
    /\ DismProblems(disms[i]) = {} /\ ~StreamGone(disms[i])

DismAdvances(i) ==
    /\ \E phase \in {"Created", "Started", "Prepare"} :
          /\ DismTurn(i, phase)
          /\ disms' = [disms EXCEPT ![i].phase = After(DismItinerary, phase)]
    /\ OwnerQueued(i)
    /\ UNCHANGED <<setup, parent, dims, world, images, touched, spent>>

Copied(d) == images \cup {<<d.stream, d.dest>>}

CopySucceedsUnread(d, errors) ==   \* mutant: the error of the copy is not kept
    [d EXCEPT !.phase = After(DismItinerary, "MigrateImageStream")]

\* A copy that fails ends the dism at once, for the phase of a failure is not
\* in its itinerary.
MigrateResult(d, errors) ==
    [d EXCEPT !.errors = errors,
              !.phase = After(DismItinerary, IF errors THEN "MigrationFailed" ELSE d.phase)]

MigrateImageStream(i) ==
    /\ DismTurn(i, "MigrateImageStream")
    /\ images' = Copied(disms[i])
    /\ disms' = [disms EXCEPT ![i] = MigrateResult(@, FALSE)]
    /\ OwnerQueued(i)
    /\ UNCHANGED <<setup, parent, dims, world, touched, spent>>

\* The copy fails, or the images are copied and the status is not written.
CutMigrate(i) ==
    /\ DismTurn(i, "MigrateImageStream")
    /\ Spend("fault")
    /\ \/ /\ disms' = [disms EXCEPT ![i] = MigrateResult(@, TRUE)]
          /\ OwnerQueued(i)
          /\ UNCHANGED images
       \/ images' = Copied(disms[i]) /\ UNCHANGED <<disms, queued>>
    /\ UNCHANGED <<setup, parent, dims, world, touched>>

-----------------------------------------------------------------------------
(* The migration *)

\* Those the cache shows: the list of them is in no order, its first is taken.
Shown == {k \in DOMAIN dims : dims[k].exists /\ dims[k].seen}

\* Found again by its labels when the pass is repeated, once the cache shows it:
\* before that another one is made.
CreateDirectImageMigration ==
    /\ parent.phase = "create"
    /\ dims' = IF Shown = {} THEN Append(dims, Dim) ELSE dims
    /\ \/ parent' = [parent EXCEPT !.phase = "wait"] /\ UNCHANGED spent
       \/ "again" \in setup.changes /\ Spend("fault") /\ UNCHANGED parent
    /\ UNCHANGED <<setup, disms, world, images, queued, touched>>

SyncDim(k) ==
    /\ dims[k].exists /\ ~dims[k].seen
    /\ Writes(k, [dims[k] EXCEPT !.seen = TRUE])
    /\ queued' = queued \cup {k}
    /\ UNCHANGED <<setup, parent, disms, world, images, touched, spent>>

\* The migration goes on, with a warning when there were errors.
Warns(m) == m.errors

\* One the cache does not show yet fails the migration like one that has gone.
WaitForDirectImageMigration ==
    /\ parent.phase = "wait"
    /\ \/ /\ Shown = {}
          /\ parent' = [parent EXCEPT !.phase = "failed"]
       \/ \E k \in Shown :
             /\ dims[k].phase = "Completed"
             /\ parent' = [phase |-> "done", warned |-> Warns(dims[k]), of |-> k]
    /\ UNCHANGED <<setup, dims, disms, world, images, queued, touched, spent>>

Gone(k) == /\ Writes(k, [dims[k] EXCEPT !.exists = FALSE])
           /\ queued' = queued \ {k}

\* One of them is deleted.
DeleteDirectImageMigration ==
    /\ parent.phase = "cancel"
    /\ \/ Shown = {} /\ UNCHANGED <<dims, queued>>
       \/ \E k \in Shown : Gone(k)
    /\ \/ parent' = [parent EXCEPT !.phase = "cancelled"] /\ UNCHANGED spent
       \/ Spend("fault") /\ UNCHANGED parent
    /\ UNCHANGED <<setup, disms, world, images, touched>>

-----------------------------------------------------------------------------
(* What happens around *)

MayChange(kind) == kind \in setup.changes /\ Spend("change")

Cancel ==
    /\ parent.phase = "wait" /\ MayChange("cancel")
    /\ parent' = [parent EXCEPT !.phase = "cancel"]
    /\ UNCHANGED <<setup, dims, disms, world, images, queued, touched>>

\* An image stream is deleted, or made (again).
ChangeStream ==
    /\ MayChange("stream")
    /\ \E s \in setup.picked :
          /\ setup.home[s] \in world.source
          /\ world' = [world EXCEPT !.uid[s] = IF @ = 0 THEN spent["change"] + 2 ELSE 0]
          /\ touched' = touched \cup {s}
    /\ UNCHANGED <<setup, parent, dims, disms, images, queued>>

DeleteDism ==
    /\ MayChange("dism")
    /\ \E i \in DOMAIN disms :
          /\ disms[i].kept
          /\ disms' = [disms EXCEPT ![i].kept = FALSE]
          /\ OwnerQueued(i)
    /\ UNCHANGED <<setup, parent, dims, world, images, touched>>

\* Not before the migration waits for it.
DeleteDim ==
    /\ parent.phase # "create" /\ MayChange("dim")
    /\ \E k \in DOMAIN dims : dims[k].exists /\ Gone(k)
    /\ UNCHANGED <<setup, parent, disms, world, images, touched>>

StreamsTo(n) == {s \in Streams : Target(s) = n}

DeleteNamespace ==
    /\ MayChange("namespace")
    /\ \E n \in Namespaces :
          /\ world.dest[n] = "present"
          /\ world' = [world EXCEPT !.dest[n] = "terminating"]
          /\ touched' = touched \cup StreamsTo(n)
    /\ UNCHANGED <<setup, parent, dims, disms, images, queued>>

\* The namespace goes, and the images in it.
NamespaceGone ==
    /\ \E n \in Namespaces :
          /\ world.dest[n] = "terminating"
          /\ world' = [world EXCEPT !.dest[n] = "absent"]
          /\ images' = {m \in images : m[2] # n}
    /\ UNCHANGED <<setup, parent, dims, disms, queued, touched, spent>>

DeleteSourceNamespace ==
    /\ MayChange("source")
    /\ \E n \in world.source :
          LET gone == {s \in Streams : setup.home[s] = n} IN
          /\ world' = [world EXCEPT !.source = @ \ {n},
                                    !.uid = [s \in Streams |-> IF s \in gone THEN 0 ELSE @[s]]]
          /\ touched' = touched \cup gone
    /\ UNCHANGED <<setup, parent, dims, disms, images, queued>>

\* Both controllers watch the clusters.
ChangeCluster ==
    /\ MayChange("cluster")
    /\ \E side \in Sides, st \in {"ok", "missing", "notready", "noregistry"} :
          /\ (world.cluster[side] = "ok") # (st = "ok")
          /\ world' = [world EXCEPT !.cluster[side] = st]
    /\ queued' = queued \cup Shown
    /\ UNCHANGED <<setup, parent, dims, disms, images, touched>>

\* The controllers are restarted: everything is queued.
Restart ==
    /\ Shown \ queued # {} /\ Spend("fault")
    /\ queued' = queued \cup Shown
    /\ UNCHANGED <<setup, parent, dims, disms, world, images, touched>>

\* What belonged to a dim goes after it.
Collect(i) ==
    /\ disms[i].kept /\ ~dims[disms[i].of].exists
    /\ disms' = [disms EXCEPT ![i].kept = FALSE]
    /\ UNCHANGED <<setup, parent, dims, world, images, queued, touched, spent>>

DimPass(k) ==
    \/ DimAdvances(k) \/ EnsureDestinationNamespaces(k) \/ ListImageStreams(k)
    \/ CreateDirectImageStreamMigrations(k) \/ CheckDISMCompletion(k)
DimCut(k) == CutNamespaces(k) \/ CutList(k) \/ CutCreate(k) \/ CutCheck(k)

Progress ==
    \/ NamespaceGone
    \/ CreateDirectImageMigration \/ WaitForDirectImageMigration \/ DeleteDirectImageMigration
    \/ \E k \in DOMAIN dims : SyncDim(k) \/ DimPass(k)
    \/ \E i \in DOMAIN disms :
          Sync(i) \/ DismAdvances(i) \/ MigrateImageStream(i) \/ Collect(i)

Next ==
    \/ Progress \/ Restart
    \/ \E k \in DOMAIN dims : DimCut(k)
    \/ \E i \in DOMAIN disms : CutMigrate(i)
    \/ Cancel \/ ChangeStream \/ DeleteDism \/ DeleteDim \/ DeleteNamespace
    \/ DeleteSourceNamespace \/ ChangeCluster

Spec == Init /\ [][Next]_vars

\* The queues hand out what is in them, the cache follows and what is deleted
\* goes: as every step uses up something, fairness to all of them together is
\* fairness to each.
FairSpec == Spec /\ WF_vars(Progress)

-----------------------------------------------------------------------------
(* Properties *)

\* TypeOK: the types of the variables.
TypeOK ==
    /\ parent.phase \in {"create", "wait", "done", "failed", "cancel", "cancelled"}
    /\ parent.warned \in BOOLEAN /\ parent.of \in 0..Len(dims)
    /\ \A k \in DOMAIN dims :
          /\ dims[k].phase \in ToSet(DimItinerary) \cup {"MigrationFailed"}
          /\ dims[k].itinerary \in {"", "PVC", "Failed"}
          /\ \A s \in Streams : dims[k].ref[s] \in 0..Len(disms)
    /\ \A i \in DOMAIN disms :
          /\ disms[i].of \in DOMAIN dims
          /\ disms[i].phase \in ToSet(DismItinerary)
          /\ disms[i].stream \in setup.picked
          /\ disms[i].uid # 0
    /\ \A n \in Namespaces : world.dest[n] \in NamespaceStates
    /\ images \subseteq Streams \X Namespaces
    /\ queued \subseteq DOMAIN dims

\* Accounted: every image stream that was listed is in one of the lists of the
\* dim, and in no other, however often passes are repeated and whatever is
\* deleted meanwhile (imagestream.go:166-208).
Accounted(m) ==
    m.phase \in {"CreateDirectImageStreamMigrations", Waiting} \/ m.succeeded =>
        /\ m.new \cup m.successful \cup m.deleted \cup m.bad = m.listed
        /\ Cardinality(m.new) + Cardinality(m.successful) + Cardinality(m.deleted)
             + Cardinality(m.bad) = Cardinality(m.listed)

\* OneVerdict: a dim that has completed has succeeded or has errors, not both,
\* and one that is not over has not succeeded (migrate.go:67-80).
OneVerdict(m) ==
    /\ m.phase = "Completed" => m.succeeded # m.errors
    /\ m.succeeded => m.phase = "Completed" /\ m.bad = {}

\* AllAccounted: the lists of each dim are complete, and so is its verdict.
AllAccounted == \A k \in DOMAIN dims : Accounted(dims[k]) /\ OneVerdict(dims[k])

\* A namespace that was being deleted when the migration began may take the
\* images with it.
Doomed(s) == setup.dest[Target(s)] = "terminating"

\* SuccessMeansCopied: when the migration goes on without a warning, each image
\* stream of the plan that nobody has touched meanwhile is in the registry of
\* the destination, in the namespace its own is mapped to (task.go:489-517).
SuccessMeansCopied ==
    parent.phase = "done" /\ ~parent.warned =>
        \A s \in setup.picked \cap setup.there :
            s \in touched \/ Doomed(s) \/ <<s, Target(s)>> \in images

\* A dism made in a pass whose status was not written, while the cache did not
\* show it: another is made for the image stream, this one runs on unnoticed.
Stray(i) == \A s \in Streams : dims[disms[i].of].ref[s] # i

\* A dism of another dim, made by a pass that was repeated while the cache did
\* not show the first: the migration waits for one of them only.
OfAnother(i) == disms[i].of # parent.of

\* QuietAfter: when the migration has gone on without a warning nothing copies
\* images any more but for these two, so that what it restores next is not
\* overtaken.
QuietAfter ==
    parent.phase = "done" /\ ~parent.warned =>
        \A i \in DOMAIN disms :
            disms[i].kept => disms[i].phase = "Completed" \/ Stray(i) \/ OfAnother(i)

\* Done: when the migration has gone on without a warning the images are there,
\* and nothing still copies but for strays and another dim's.
Done == SuccessMeansCopied /\ QuietAfter

\* The ways a migration waits for good: for a cluster or a namespace, for a
\* dism whose image stream or namespace has gone, which says nothing of it, or
\* for a controller that panics in every pass.
Hangs ==
    \/ DimProblems # {}
    \/ \E k \in DOMAIN dims : dims[k].exists /\ dims[k].phase = Waiting /\ Panics(k)
    \/ \E i \in DOMAIN disms :
          /\ disms[i].kept /\ disms[i].phase # "Completed"
          /\ StreamGone(disms[i]) \/ DismProblems(disms[i]) # {}

\* Ends: the migration does not wait for the images for ever, but for these.
Ends == []<>(parent.phase \in {"done", "failed", "cancelled"} \/ Hangs)
===============================================================================

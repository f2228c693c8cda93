------------------------------- MODULE Discovery -------------------------------
(***************************************************************************)
(* The inventory of a cluster (pkg/controller/discovery): a data source    *)
(* lists the collections of the cluster one after the other and brings the *)
(* rows of the database up to date, while the informers of its manager     *)
(* already put what they see into its event channel; what is not older     *)
(* than the lists is applied to the rows afterwards.  A data source that   *)
(* is replaced leaves a goroutine that empties its channel.                *)
(*                                                                         *)
(* Each collection has one object here, which may be deleted and made      *)
(* again under its name.  Versions count the changes of the cluster.       *)
(***************************************************************************)
EXTENDS Naturals, SequencesExt

CONSTANTS
    Collections,   \* in the order in which they are reconciled
    Capacity,      \* of the event channel
    FaultKinds,    \* what may go wrong
    MaxFaults,     \* bound on how often
    MaxChanges,    \* bound on the changes of the objects
    MaxTurns,      \* bound on the changes of the MigCluster
    MaxSpent       \* bound on all of these together

Kinds == ToSet(Collections)

ASSUME DiscoveryAssumption ==
    /\ Collections \in Seq(Kinds)
    /\ IsInjective(Collections)
    /\ Capacity \in Nat \ {0}
    /\ FaultKinds \subseteq {"start", "list", "busy", "gap", "crash", "secret"}
    /\ {MaxFaults, MaxChanges, MaxTurns, MaxSpent} \subseteq Nat

VARIABLES
    hist,      \* the objects of the cluster after each change
    cluster,   \* the MigCluster, and the queue of its controller
    db,        \* the rows: of the cluster, and of its objects
    ds,        \* the data source of the container
    drains,    \* the channels of stopped data sources that are still being emptied
    off,       \* why a row may differ, for the properties
    spent

vars == <<hist, cluster, db, ds, drains, off, spent>>

-----------------------------------------------------------------------------
(* State *)

\* uid is the version with which the object was made.
Object(uid, ver) == [uid |-> uid, ver |-> ver]
Nothing == Object(0, 0)
Objects == {Nothing} \cup {Object(u, v) : u, v \in 1..(MaxChanges + 1)}
Now == hist[Len(hist)]

Event(kind, op, object) == [kind |-> kind, op |-> op, object |-> object]
Events == [kind : Kinds, op : {"create", "update", "delete"}, object : Objects \ {Nothing}]

\* pruned    the rows have been looked through since the process started
\* barred    rows of a MigCluster that is gone are left until the process starts again:
\*           it had no data source, was made anew too soon, or deleting them failed
\* ignored   the last pass found no valid secret, and asked for no other pass
\* gen       the MigCluster the data source is for, by UID
\* at        the collection that is reconciled
\* stored    its rows, once it has been listed
\* listed    the moment at which each collection was listed
\* informer  the moment each informer has come to, 0 before it has started
NoSource ==
    [state |-> "none", gen |-> 0, at |-> 1, stored |-> {}, threshold |-> 0, manager |-> FALSE,
     listed |-> [k \in Kinds |-> 0], informer |-> [k \in Kinds |-> 0], channel |-> <<>>]

Reasons == {"overtaken", "unseen", "replaced", "stale", "lost"}

\* TypeOK: a channel holds no more than it may.
TypeOK ==
    /\ hist \in Seq([Kinds -> Objects]) /\ Len(hist) \in 1..(MaxChanges + 1)
    /\ cluster \in [gen : 0..MaxTurns + 1, made : 1..MaxTurns + 1, queued : BOOLEAN,
                    pruned : BOOLEAN, barred : BOOLEAN, ignored : BOOLEAN]
    /\ db \in [cluster : 0..MaxTurns + 1, rows : [Kinds -> Objects]]
    /\ ds.state \in {"none", "starting", "running", "failed"}
    /\ ds.at \in 1..(Len(Collections) + 1) /\ ds.threshold <= Len(hist)
    /\ ds.listed \in [Kinds -> 0..Len(hist)] /\ ds.informer \in [Kinds -> 0..Len(hist)]
    /\ ds.channel \in Seq(Events) /\ Len(ds.channel) <= Capacity
    /\ off \in [Kinds -> SUBSET Reasons]

Init ==
    /\ hist \in {<<[k \in Kinds |-> IF k \in some THEN Object(1, 1) ELSE Nothing]>> :
                    some \in SUBSET Kinds}
    /\ cluster = [gen |-> 1, made |-> 1, queued |-> TRUE, pruned |-> FALSE, barred |-> FALSE,
                  ignored |-> FALSE]
    /\ db = [cluster |-> 0, rows |-> [k \in Kinds |-> Nothing]]
    /\ ds = NoSource
    /\ drains = <<>>
    /\ off = [k \in Kinds |-> {}]
    /\ spent = [change |-> 0, turn |-> 0, fault |-> 0]

Bound == [change |-> MaxChanges, turn |-> MaxTurns, fault |-> MaxFaults]
Spend(what) ==
    /\ spent[what] < Bound[what]
    /\ spent.change + spent.turn + spent.fault < MaxSpent
    /\ spent' = [spent EXCEPT ![what] = @ + 1]
Fault(kind) == kind \in FaultKinds /\ Spend("fault")

-----------------------------------------------------------------------------
(* The database.  A statement on a row gives the row it leaves, or nothing    *)
(* when it is an error.  Rows are found by cluster and UID; the name of an    *)
(* object is unique in its cluster.                                           *)

Updated(row, object) == IF row.uid = object.uid THEN {object} ELSE {}

\* A row that violates a constraint is updated instead.
Inserted(row, object) == IF row = Nothing THEN {object} ELSE Updated(row, object)

Deleted(row, object) == IF row.uid = object.uid THEN Nothing ELSE row

\* The rows of objects go with the row of their cluster.
Purged(gen) ==
    IF db.cluster # gen THEN db ELSE [cluster |-> 0, rows |-> [k \in Kinds |-> Nothing]]

-----------------------------------------------------------------------------
(* Applying events *)

AppliesAny(event, threshold) == TRUE   \* mutant: no threshold

Applies(event, threshold) == event.op = "delete" \/ event.object.ver > threshold

\* ModelEvent.Apply.  The rows of another MigCluster are gone, and cannot be
\* made without its own.
AfterEvent(gen, event, threshold) ==
    LET row == db.rows[event.kind]
    IN  IF gen # db.cluster \/ ~Applies(event, threshold) THEN {row}
        ELSE IF event.op = "create" THEN Inserted(row, event.object)
        ELSE IF event.op = "update" THEN Updated(row, event.object)
        ELSE {Deleted(row, event.object)}

WriteRow(kind, rows) ==
    db' = IF rows = {} THEN db ELSE [db EXCEPT !.rows[kind] = CHOOSE row \in rows : TRUE]

\* applyEvents.  An error is logged, and the event is lost.
Apply ==
    /\ ds.state = "running" /\ ds.channel # <<>>
    /\ LET event == Head(ds.channel)
           late  == ~Applies(event, ds.threshold) /\ event.object.ver > ds.listed[event.kind]
       IN  \/ /\ WriteRow(event.kind, AfterEvent(ds.gen, event, ds.threshold))
              /\ off' = IF late THEN [off EXCEPT ![event.kind] = @ \cup {"overtaken"}] ELSE off
              /\ UNCHANGED spent
           \/ /\ Fault("busy")
              /\ off' = [off EXCEPT ![event.kind] = @ \cup {"lost"}]
              /\ UNCHANGED db
    /\ ds' = [ds EXCEPT !.channel = Tail(@)]
    /\ UNCHANGED <<hist, cluster, drains>>

\* What was in the channel when it was closed is applied all the same.
Drain(i) ==
    /\ i \in DOMAIN drains
    /\ LET old   == drains[i]
           event == Head(old.channel)
           rows  == AfterEvent(old.gen, event, old.threshold)
       IN  /\ WriteRow(event.kind, rows)
           /\ off' = IF db' # db /\ ds.listed[event.kind] > 0
                     THEN [off EXCEPT ![event.kind] = @ \cup {"stale"}] ELSE off
           /\ drains' = IF Len(old.channel) = 1 THEN RemoveAt(drains, i)
                        ELSE [drains EXCEPT ![i].channel = Tail(@)]
    /\ UNCHANGED <<hist, cluster, ds, spent>>

-----------------------------------------------------------------------------
(* Informers.  They send into the channel and wait while it is full. *)

Between(kind, old, new) ==
    IF old = new THEN <<>>
    ELSE IF old = Nothing THEN <<Event(kind, "create", new)>>
    ELSE IF new = Nothing THEN <<Event(kind, "delete", old)>>
    ELSE <<Event(kind, "update", new)>>

Send(kind, to, events) ==
    /\ Len(ds.channel) + Len(events) <= Capacity
    /\ ds' = [ds EXCEPT !.informer[kind] = to, !.channel = @ \o events]

\* The informer goes on from `old' to what there is now, and knows nothing of an
\* object that was in the list of the collection between the two.
Unseen(kind, old) ==
    IF /\ ds.listed[kind] > 0
       /\ hist[ds.listed[kind]][kind].uid \notin {0, old.uid, Now[kind].uid}
    THEN {"unseen"} ELSE {}

\* The first list
InformerStarts(kind) ==
    /\ ds.manager /\ ds.informer[kind] = 0
    /\ Send(kind, Len(hist), Between(kind, Nothing, Now[kind]))
    /\ off' = [off EXCEPT ![kind] = @ \cup Unseen(kind, Nothing)]
    /\ UNCHANGED <<hist, cluster, db, drains, spent>>

Pending(kind) ==
    {i \in (ds.informer[kind] + 1)..Len(hist) : hist[i][kind] # hist[ds.informer[kind]][kind]}
Told(kind) == ds.informer[kind] > 0 /\ Pending(kind) = {}

InformerTells(kind) ==
    /\ ds.manager /\ ds.informer[kind] > 0
    /\ \E to \in Pending(kind) :
          /\ \A i \in Pending(kind) : to <= i
          /\ Send(kind, to, Between(kind, hist[to - 1][kind], hist[to][kind]))
    /\ UNCHANGED <<hist, cluster, db, drains, off, spent>>

\* After a broken watch the informer lists again: what happened meanwhile is one
\* event at most, an update when the object has been replaced.
InformerLists(kind) ==
    /\ ds.manager /\ ds.informer[kind] > 0 /\ Cardinality(Pending(kind)) > 1
    /\ Fault("gap")
    /\ LET old == hist[ds.informer[kind]][kind]
       IN  /\ Send(kind, Len(hist), Between(kind, old, Now[kind]))
           /\ off' = [off EXCEPT ![kind] = @ \cup Unseen(kind, old) \cup
                        IF Nothing \notin {old, Now[kind]} /\ old.uid # Now[kind].uid
                        THEN {"replaced"} ELSE {}]
    /\ UNCHANGED <<hist, cluster, db, drains>>

-----------------------------------------------------------------------------
(* The controller of MigClusters, and the start of a data source *)

\* The rows of a MigCluster that is gone are deleted; when that fails nobody is told.
Purge(gen) ==
    \/ db' = Purged(gen) /\ UNCHANGED spent
    \/ db.cluster = gen /\ Fault("busy") /\ UNCHANGED db

\* Part of the first pass, for whichever MigCluster it is.
Prune ==
    /\ cluster.queued /\ ~cluster.pruned
    /\ IF db.cluster \notin {0, cluster.gen} THEN Purge(db.cluster) ELSE UNCHANGED <<db, spent>>
    /\ cluster' = [cluster EXCEPT !.pruned = TRUE, !.barred = db'.cluster \notin {0, cluster.gen}]
    /\ UNCHANGED <<hist, ds, drains, off>>

\* The manager is stopped and the channel closed.
Stopped ==
    IF ds.state = "running" /\ ds.channel # <<>>
    THEN Append(drains, [gen |-> ds.gen, threshold |-> ds.threshold, channel |-> ds.channel])
    ELSE drains

Awake == cluster.queued /\ cluster.pruned /\ ds.state # "starting"

\* Container.Delete.  It deletes no rows when there is no data source yet.
ReconcileGone ==
    /\ Awake /\ cluster.gen = 0
    /\ IF ds.state # "none" THEN Purge(ds.gen) ELSE UNCHANGED <<db, spent>>
    /\ cluster' = [cluster EXCEPT !.queued = FALSE, !.ignored = FALSE, !.barred = db'.cluster # 0]
    /\ drains' = Stopped /\ ds' = NoSource
    /\ UNCHANGED <<hist, off>>

\* The secret is not valid, or could not be read: the pass ends, and nothing watches
\* the secret.  The data source goes on as it is.
ReconcileInvalid ==
    /\ Awake /\ cluster.gen # 0
    /\ Fault("secret")
    /\ cluster' = [cluster EXCEPT !.queued = FALSE, !.ignored = TRUE]
    /\ UNCHANGED <<hist, db, ds, drains, off>>

\* Container.Add up to the start of the manager.  Every collection will be listed.
ReconcileAdd ==
    /\ Awake /\ cluster.gen # 0
    /\ drains' = Stopped
    /\ LET new == [NoSource EXCEPT !.gen = cluster.gen]
       IN  \/ /\ db.cluster \in {0, cluster.gen}
              /\ db' = [db EXCEPT !.cluster = cluster.gen]
              /\ \/ /\ ds' = [new EXCEPT !.state = "starting", !.manager = TRUE]
                    /\ cluster' = [cluster EXCEPT !.queued = FALSE, !.ignored = FALSE]
                    /\ UNCHANGED spent
                 \/ /\ ds' = [new EXCEPT !.state = "failed"]
                    /\ Fault("start")
                    /\ cluster' = [cluster EXCEPT !.ignored = FALSE]
           \/ /\ db.cluster \notin {0, cluster.gen}
              /\ ds' = [new EXCEPT !.state = "failed"]
              /\ cluster' = [cluster EXCEPT !.barred = TRUE, !.ignored = FALSE]
              /\ UNCHANGED <<db, spent>>
    /\ off' = [k \in Kinds |-> {}]
    /\ UNCHANGED hist

Starting(listed) ==
    /\ ds.state = "starting" /\ ds.at <= Len(Collections)
    /\ (ds.stored # {}) = listed

\* GetStored, GetDiscovered and HasDiscovered
List ==
    /\ Starting(FALSE)
    /\ LET kind == Collections[ds.at]
       IN  ds' = [ds EXCEPT !.stored = {db.rows[kind]}, !.listed[kind] = Len(hist),
                            !.threshold = IF Now[kind].ver > @ THEN Now[kind].ver ELSE @]
    /\ UNCHANGED <<hist, cluster, db, drains, off, spent>>

ReconciledKeeping(row, stored, found) ==   \* mutant: what is not found is kept
    IF found = Nothing THEN {row}
    ELSE IF stored.uid # found.uid THEN Inserted(row, found)
    ELSE IF stored.ver # found.ver THEN Updated(row, found) ELSE {row}

\* SimpleReconciler: delete, add, update
Reconciled(row, stored, found) ==
    LET left == IF stored.uid # found.uid THEN Deleted(row, stored) ELSE row
    IN  IF found = Nothing THEN {left}
        ELSE IF stored.uid # found.uid THEN Inserted(left, found)
        ELSE IF stored.ver # found.ver THEN Updated(left, found)
        ELSE {left}

RetryNever == cluster   \* mutant: a data source that failed is left alone
Retry == [cluster EXCEPT !.queued = TRUE]

StartFails ==
    /\ ds' = [ds EXCEPT !.state = "failed"]
    /\ cluster' = Retry
    /\ UNCHANGED <<hist, db, drains, off>>

\* applyEvents begins after the last collection.
Commit ==
    /\ Starting(TRUE)
    /\ LET kind == Collections[ds.at]
           rows == Reconciled(db.rows[kind], CHOOSE row \in ds.stored : TRUE,
                              hist[ds.listed[kind]][kind])
       IN  IF rows = {} THEN StartFails /\ UNCHANGED spent
           ELSE /\ WriteRow(kind, rows)
                /\ ds' = [ds EXCEPT !.at = @ + 1, !.stored = {},
                             !.state = IF ds.at = Len(Collections) THEN "running" ELSE @]
                /\ UNCHANGED <<hist, cluster, drains, off, spent>>

CollectionFails ==
    /\ ds.state = "starting" /\ Fault("list") /\ StartFails

-----------------------------------------------------------------------------
(* The rest of the world *)

Change(kind) ==
    /\ Spend("change")
    /\ LET old == Now[kind]
           ver == Len(hist) + 1
       IN  \E new \in IF old = Nothing THEN {Object(ver, ver)}
                      ELSE {Nothing, Object(old.uid, ver)} :
              hist' = Append(hist, [Now EXCEPT ![kind] = new])
    /\ UNCHANGED <<cluster, db, ds, drains, off>>

\* The user edits, deletes or creates the MigCluster.
Turn ==
    /\ Spend("turn")
    /\ cluster' \in
          IF cluster.gen = 0
          THEN {[cluster EXCEPT !.gen = cluster.made + 1, !.made = @ + 1, !.queued = TRUE]}
          ELSE {[cluster EXCEPT !.gen = g, !.queued = TRUE] : g \in {0, cluster.gen}}
    /\ UNCHANGED <<hist, db, ds, drains, off>>

\* The process starts again.
Crash ==
    /\ Fault("crash")
    /\ cluster' = [cluster EXCEPT !.queued = cluster.gen # 0, !.pruned = FALSE,
                                   !.ignored = FALSE]
    /\ ds' = NoSource /\ drains' = <<>>
    /\ UNCHANGED <<hist, db, off>>

Sources ==
    \/ Prune \/ ReconcileGone \/ ReconcileAdd \/ List \/ Commit \/ Apply
    \/ \E i \in DOMAIN drains : Drain(i)

Informers == \E kind \in Kinds : InformerStarts(kind) \/ InformerTells(kind)

Progress == Sources \/ Informers
World ==
    \/ \E kind \in Kinds : Change(kind) \/ InformerLists(kind)
    \/ CollectionFails \/ ReconcileInvalid \/ Turn \/ Crash

Next == Progress \/ World
Spec == Init /\ [][Next]_vars

-----------------------------------------------------------------------------
(* Properties *)

\* Failures, changes and breaks are bounded, and every step of Progress but that
\* of a barred cluster uses something up; a failed start is tried again after ten
\* seconds.
FairSpec == Spec /\ WF_vars(Progress)

\* Everything there is to tell has been told and applied.
Quiet ==
    /\ cluster.pruned /\ ~cluster.queued
    /\ cluster.gen # 0 =>
          ds.state = "running" /\ ds.channel = <<>> /\ \A k \in Kinds : Told(k)

\* The inventory is what the cluster holds, whatever the informers saw before, while
\* and after the collections were listed, and of a cluster that is gone nothing is
\* left.  Five things are known to break the rows of a cluster that is there, see the
\* README: an event that came after the list of its collection and is not newer than
\* that of another; an object deleted between the list and that of the informer; one
\* replaced while the watch was broken; what the channel of a stopped data source
\* still held; a statement that fails.  The rows of one that is gone stay when it had
\* no data source or deleting them failed (`barred'), or until there is a valid secret
\* when it was made anew before the controller looked (`ignored').
Faithful ==
    Quiet =>
        IF cluster.gen = 0
        THEN cluster.barred \/ db = [cluster |-> 0, rows |-> [k \in Kinds |-> Nothing]]
        ELSE \/ cluster.ignored /\ ds.gen # cluster.gen
             \/ /\ db.cluster = cluster.gen
                /\ \A k \in Kinds : db.rows[k] = Now[k] \/ off[k] # {}

\* While one data source runs, no row is put back to an earlier version by an event
\* that was queued before its collection was listed.
NeverBack ==
    [][ds.state = "running" /\ ds'.state = "running" /\ drains' = drains =>
          \A k \in Kinds :
             off[k] = {} /\ db'.rows[k].uid = db.rows[k].uid
                => db'.rows[k].ver >= db.rows[k].ver]_vars

\* No MigCluster has been queued since the process started.
Idle == ~cluster.pruned /\ ~cluster.queued

\* The inventory keeps catching up: no full channel, failed start or stopped data
\* source holds it up for good.  Excepted are a MigCluster whose rows were not deleted
\* when it was, or that was made anew before the controller looked (`barred'); one whose
\* secret was not valid, or could not be read, when the controller looked last; and
\* rows of one that was deleted while the process was down, when no other is queued.
CatchesUp == []<>((Quiet /\ drains = <<>>) \/ cluster.barred \/ cluster.ignored \/ Idle)
================================================================================

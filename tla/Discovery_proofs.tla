--------------------------- MODULE Discovery_proofs ---------------------------
(***************************************************************************)
(* Proofs of NeverBack and Faithful, for any collections, any capacity of  *)
(* the channel and any number of changes and faults.                       *)
(*                                                                         *)
(* NeverBack.  A row is no newer than the threshold or than any event that *)
(* is still to come (Fits): the threshold covers what was listed, and the  *)
(* informers send versions in their order (Ordered), as the versions of    *)
(* the cluster only grow (Grows).                                          *)
(*                                                                         *)
(* Faithful.  For each collection there are moments of the cluster's       *)
(* history between the events of the channel (Story): what the informer    *)
(* saw of its object goes from each to the next by the event between them, *)
(* or not at all (Tells); the row of a collection that is done shows the   *)
(* first of them, or the later one at which it was listed (Row); the last  *)
(* is the moment the informer has come to.  So when the channel is empty   *)
(* and nothing is left to tell, the row shows what there is now.           *)
(***************************************************************************)
EXTENDS Discovery, NaturalsInduction, SequenceTheorems, TLAPS

Obj == {o \in [uid : Nat, ver : Nat] : o.uid = 0 <=> o.ver = 0}
Ev == [kind : Kinds, op : {"create", "update", "delete"}, object : Obj]
Source ==
    [state : {"none", "starting", "running", "failed"}, gen : Nat, at : Nat \ {0},
     stored : SUBSET Obj, threshold : Nat, manager : BOOLEAN,
     listed : [Kinds -> Nat], informer : [Kinds -> Nat], channel : Seq(Ev)]
Draining == [gen : Nat, threshold : Nat, channel : Seq(Ev) \ {<<>>}]

MigClusters == [gen : Nat, made : Nat, queued : BOOLEAN, pruned : BOOLEAN, barred : BOOLEAN,
                ignored : BOOLEAN]
Typed ==
    /\ hist \in Seq([Kinds -> Obj]) /\ Len(hist) > 0
    /\ cluster \in MigClusters
    /\ db \in [cluster : Nat, rows : [Kinds -> Obj]]
    /\ ds \in Source
    /\ \A k \in Kinds : ds.listed[k] <= Len(hist) /\ ds.informer[k] <= Len(hist)
    /\ drains \in Seq(Draining)
    /\ off \in [Kinds -> SUBSET Reasons]

\* What has changed since a moment is newer than that moment, or is gone.
Grows ==
    \A k \in Kinds : \A j \in DOMAIN hist :
        /\ hist[j][k].ver <= j
        /\ \A i \in DOMAIN hist : i <= j =>
              \/ hist[j][k] = hist[i][k] \/ hist[j][k] = Nothing
              \/ hist[j][k].ver > i

Upsert(e, k) == e.kind = k /\ e.op # "delete"

\* What is in the channel is no newer than what the informer has come to, and in
\* the order of its versions.
Ordered ==
    \A k \in Kinds : \A i \in DOMAIN ds.channel : Upsert(ds.channel[i], k) =>
        /\ ds.channel[i].object.ver <= ds.informer[k]
        /\ \A j \in DOMAIN ds.channel : i < j /\ Upsert(ds.channel[j], k) =>
              ds.channel[i].object.ver < ds.channel[j].object.ver

\* The row of a collection is not newer than what may still be applied to it.
Fits(k) ==
    \/ db.rows[k].ver <= ds.threshold
    \/ /\ db.rows[k].ver <= ds.informer[k]
       /\ \A i \in DOMAIN ds.channel :
             Upsert(ds.channel[i], k) => db.rows[k].ver <= ds.channel[i].object.ver

Active == ds.state \in {"starting", "running"}

\* A data source that is at work finds the rows looked through.
Order ==
    /\ ds.state # "none" => cluster.pruned
    /\ ds.state = "running" => ds.at > Len(Collections)
    /\ ds.state = "starting" /\ ds.stored # {} => ds.at <= Len(Collections)

Committed ==
    Active => \A i \in DOMAIN Collections : i < ds.at =>
        /\ ds.listed[Collections[i]] > 0
        /\ off[Collections[i]] = {} => Fits(Collections[i])

\* What was read from the rows is still there.
Reading ==
    ds.state = "starting" /\ ds.stored # {} =>
        /\ ds.listed[Collections[ds.at]] > 0
        /\ \E row \in ds.stored : ds.stored = {row}
        /\ off[Collections[ds.at]] = {} => ds.stored = {db.rows[Collections[ds.at]]}

Threshold ==
    Active => \A k \in Kinds :
        ds.listed[k] > 0 => hist[ds.listed[k]][k].ver <= ds.threshold

IInv == Typed /\ Grows /\ Ordered /\ Order /\ Committed /\ Reading /\ Threshold

-----------------------------------------------------------------------------
(* Lemmas about the operators *)

\* Kinds are the members of Collections, a sequence.
LEMMA KindsFacts ==
    /\ Collections \in Seq(Kinds)
    /\ \A k \in Kinds : \E i \in DOMAIN Collections : Collections[i] = k
    /\ \A i \in DOMAIN Collections : Collections[i] \in Kinds
BY DiscoveryAssumption DEF DiscoveryAssumption, Kinds, ToSet

\* Nothing is an object without UID and version.
LEMMA NothingIs == Nothing \in Obj /\ Nothing.uid = 0 /\ Nothing.ver = 0
                   /\ \A o \in Obj : o.uid = 0 => o = Nothing
BY DEF Nothing, Object, Obj

\* An event leaves the row, empties it, or puts its own version there, which is
\* newer than the threshold; a row that was there then had the same UID.
LEMMA AfterEventFacts ==
    ASSUME NEW gen, NEW e \in Ev, NEW t \in Nat, Typed, NEW r \in AfterEvent(gen, e, t)
    PROVE  /\ r \in Obj
           /\ \/ r = db.rows[e.kind] \/ r = Nothing
              \/ r = e.object /\ Upsert(e, e.kind) /\ e.object.ver > t
<1> e.kind \in Kinds /\ e.object \in Obj /\ e.op \in {"create", "update", "delete"}
  BY DEF Ev
<1> db.rows[e.kind] \in Obj BY DEF Typed
<1> Nothing \in Obj BY NothingIs
<1>1. CASE gen # db.cluster \/ ~Applies(e, t)
  <2> r = db.rows[e.kind] BY <1>1 DEF AfterEvent
  <2> QED OBVIOUS
<1>2. CASE gen = db.cluster /\ Applies(e, t)
  <2>1. CASE e.op = "create"
    <3> r \in Inserted(db.rows[e.kind], e.object) BY <1>2, <2>1 DEF AfterEvent
    <3> r = e.object BY DEF Inserted, Updated
    <3> e.object.ver > t BY <1>2, <2>1 DEF Applies
    <3> QED BY <2>1 DEF Upsert
  <2>2. CASE e.op = "update"
    <3> r \in Updated(db.rows[e.kind], e.object) BY <1>2, <2>2 DEF AfterEvent
    <3> r = e.object BY DEF Updated
    <3> e.object.ver > t BY <1>2, <2>2 DEF Applies
    <3> QED BY <2>2 DEF Upsert
  <2>3. CASE e.op = "delete"
    <3> r = Deleted(db.rows[e.kind], e.object) BY <1>2, <2>3 DEF AfterEvent
    <3> QED BY DEF Deleted
  <2> QED BY <2>1, <2>2, <2>3
<1> QED BY <1>1, <1>2

\* WriteRow changes the row of its collection only.
LEMMA WriteRowFacts ==
    ASSUME Typed, NEW kind \in Kinds, NEW rows \in SUBSET Obj, WriteRow(kind, rows)
    PROVE  /\ db' \in [cluster : Nat, rows : [Kinds -> Obj]]
           /\ db'.cluster = db.cluster
           /\ \A k \in Kinds : k # kind => db'.rows[k] = db.rows[k]
           /\ db'.rows[kind] = db.rows[kind] \/ db'.rows[kind] \in rows
<1>1. CASE rows = {} BY <1>1 DEF WriteRow, Typed
<1>2. CASE rows # {}
  <2> DEFINE row == CHOOSE row \in rows : TRUE
  <2> row \in rows BY <1>2
  <2> HIDE DEF row
  <2> db' = [db EXCEPT !.rows[kind] = row] BY <1>2 DEF WriteRow, row
  <2> QED BY DEF Typed
<1> QED BY <1>1, <1>2

\* Between tells of the new object, unless it is the old one or gone.
LEMMA BetweenFacts ==
    ASSUME NEW k \in Kinds, NEW old \in Obj, NEW new \in Obj
    PROVE  \/ Between(k, old, new) = <<>>
           \/ \E e \in Ev : /\ Between(k, old, new) = <<e>>
                            /\ e.kind = k
                            /\ Upsert(e, k) => e.object = new /\ new # old /\ new # Nothing
<1>1. CASE old = new BY <1>1 DEF Between
<1>2. CASE old # new /\ old = Nothing
  BY <1>2 DEF Between, Event, Ev, Upsert
<1>3. CASE old # new /\ old # Nothing /\ new = Nothing
  BY <1>3 DEF Between, Event, Ev, Upsert
<1>4. CASE old # new /\ old # Nothing /\ new # Nothing
  BY <1>4 DEF Between, Event, Ev, Upsert
<1> QED BY <1>1, <1>2, <1>3, <1>4

\* What is in a channel, and its versions.
LEMMA ChannelFacts ==
    ASSUME Typed
    PROVE  /\ ds.channel \in Seq(Ev)
           /\ \A i \in DOMAIN ds.channel : ds.channel[i] \in Ev /\ ds.channel[i].object.ver \in Nat
           /\ ds.informer \in [Kinds -> Nat] /\ ds.listed \in [Kinds -> Nat]
           /\ ds.threshold \in Nat
           /\ \A k \in Kinds : db.rows[k] \in Obj /\ db.rows[k].ver \in Nat
<1>1. ds.channel \in Seq(Ev) /\ ds.informer \in [Kinds -> Nat]
      /\ ds.listed \in [Kinds -> Nat] /\ ds.threshold \in Nat
  BY DEF Typed, Source
<1>2. \A i \in DOMAIN ds.channel : ds.channel[i] \in Ev BY <1>1
<1>3. \A e \in Ev : e.object.ver \in Nat BY DEF Ev, Obj
<1>4. \A k \in Kinds : db.rows[k] \in Obj BY DEF Typed
<1> QED BY <1>1, <1>2, <1>3, <1>4 DEF Obj

-----------------------------------------------------------------------------
(* The invariant *)

\* A send of an informer that goes on to what is newer keeps the invariant.
LEMMA SendKeeps ==
    ASSUME IInv, NEW kind \in Kinds, NEW to \in Nat, to <= Len(hist),
           ds.informer[kind] <= to, NEW old \in Obj, NEW new \in Obj,
           new = old \/ new = Nothing \/ (new.ver > ds.informer[kind] /\ new.ver <= to),
           Send(kind, to, Between(kind, old, new)),
           UNCHANGED <<hist, cluster, db, drains>>,
           off' \in [Kinds -> SUBSET Reasons], \A k \in Kinds : off[k] \subseteq off'[k]
    PROVE  IInv'
<1> DEFINE events == Between(kind, old, new)
<1>0. Typed /\ Ordered BY DEF IInv
<1>1. events \in Seq(Ev)
  <2>1. CASE events = <<>> BY <2>1
  <2>2. CASE \E e \in Ev : events = <<e>> BY <2>2
  <2> HIDE DEF events
  <2> QED BY <2>1, <2>2, BetweenFacts DEF events
<1> ds \in Source /\ ds.channel \in Seq(Ev) /\ ds.informer \in [Kinds -> Nat]
  BY <1>0 DEF Typed, Source
<1>2. ds' = [ds EXCEPT !.informer[kind] = to, !.channel = @ \o events]
  BY DEF Send
<1> HIDE DEF events
<1>3. /\ ds'.state = ds.state /\ ds'.gen = ds.gen /\ ds'.at = ds.at /\ ds'.stored = ds.stored
      /\ ds'.threshold = ds.threshold /\ ds'.manager = ds.manager /\ ds'.listed = ds.listed
      /\ ds'.informer = [ds.informer EXCEPT ![kind] = to]
      /\ ds'.channel = ds.channel \o events
  BY <1>2 DEF Source
<1>4. ds.channel \o events \in Seq(Ev)
  BY <1>1, ConcatProperties
<1>5. ds' \in Source
  BY <1>2, <1>4 DEF Source
<1>6. \A k \in Kinds : ds.informer[k] <= ds'.informer[k]
  BY <1>3
<1>7. Typed'
  BY <1>0, <1>3, <1>5 DEF Typed
<1>8. ASSUME events = <<>>
      PROVE  Ordered' /\ \A k \in Kinds : Fits(k) => Fits(k)'
  <2> ds'.channel = ds.channel BY <1>3, <1>8, ConcatEmptySeq
  <2> \A k \in Kinds : ds'.informer[k] \in Nat BY <1>3
  <2>1. Ordered' BY <1>0, <1>6, ChannelFacts DEF Ordered
  <2>2. ASSUME NEW k \in Kinds, Fits(k) PROVE Fits(k)'
    <3> db.rows[k].ver \in Nat /\ ds.informer[k] \in Nat BY <1>0, ChannelFacts
    <3> ds.informer[k] <= ds'.informer[k] BY <1>6
    <3> db' = db /\ ds'.threshold = ds.threshold BY <1>3
    <3> QED BY <2>2 DEF Fits
  <2> QED BY <2>1, <2>2
<1>9. ASSUME NEW e \in Ev, events = <<e>>, e.kind = kind,
             Upsert(e, kind) => e.object = new /\ new # old /\ new # Nothing
      PROVE  Ordered' /\ \A k \in Kinds : Fits(k) => Fits(k)'
  <2> DEFINE n == Len(ds.channel)
  <2>1. /\ Len(ds'.channel) = n + 1 /\ DOMAIN ds'.channel = 1..(n + 1)
        /\ \A i \in 1..n : ds'.channel[i] = ds.channel[i]
        /\ ds'.channel[n + 1] = e
        /\ DOMAIN ds.channel = 1..n /\ n \in Nat
    BY <1>3, <1>9
  <2>2. Upsert(e, kind) => e.object.ver > ds.informer[kind] /\ e.object.ver <= to
    BY <1>9
  <2>3. e.object.ver \in Nat /\ \A i \in 1..n : ds.channel[i].object.ver \in Nat
    BY <1>0, <2>1, ChannelFacts DEF Ev, Obj
  <2>4. Ordered'
    <3> SUFFICES ASSUME NEW k \in Kinds, NEW i \in DOMAIN ds'.channel,
                        Upsert(ds'.channel[i], k)
                 PROVE  /\ ds'.channel[i].object.ver <= ds'.informer[k]
                        /\ \A j \in DOMAIN ds'.channel : i < j /\ Upsert(ds'.channel[j], k) =>
                              ds'.channel[i].object.ver < ds'.channel[j].object.ver
      BY DEF Ordered
    <3> ds.informer[k] \in Nat /\ ds'.informer[k] \in Nat BY <1>3
    <3>1. CASE i = n + 1
      <4> k = kind BY <3>1, <2>1, <1>9 DEF Upsert
      <4> ds'.informer[k] = to BY <1>3
      <4> QED BY <3>1, <2>1, <2>2
    <3>2. CASE i \in 1..n
      <4>1. Upsert(ds.channel[i], k) /\ ds.channel[i].object.ver <= ds.informer[k]
        BY <3>2, <2>1, <1>0 DEF Ordered
      <4>2. ASSUME NEW j \in DOMAIN ds'.channel, i < j, Upsert(ds'.channel[j], k)
            PROVE  ds'.channel[i].object.ver < ds'.channel[j].object.ver
        <5>1. CASE j = n + 1
          <6> k = kind BY <4>2, <5>1, <2>1, <1>9 DEF Upsert
          <6> Upsert(e, kind) BY <4>2, <5>1, <2>1
          <6> ds'.channel[j].object.ver = e.object.ver BY <5>1, <2>1
          <6> ds'.channel[i].object.ver = ds.channel[i].object.ver BY <3>2, <2>1
          <6> QED BY <3>2, <4>1, <2>2, <2>3
        <5>2. CASE j \in 1..n
          BY <3>2, <4>1, <4>2, <5>2, <2>1, <1>0 DEF Ordered
        <5> QED BY <5>1, <5>2, <2>1
      <4>3. ds'.channel[i].object.ver <= ds'.informer[k]
        <5> ds'.channel[i].object.ver = ds.channel[i].object.ver BY <3>2, <2>1
        <5> ds.channel[i].object.ver \in Nat BY <3>2, <2>3
        <5> QED BY <4>1, <1>6
      <4> QED BY <4>2, <4>3
    <3> QED BY <3>1, <3>2, <2>1
  <2>5. ASSUME NEW k \in Kinds, Fits(k) PROVE Fits(k)'
    <3> db.rows[k].ver \in Nat /\ ds.informer[k] \in Nat /\ ds'.informer[k] \in Nat
      BY <1>0, <1>3 DEF Typed, Obj
    <3>1. CASE db.rows[k].ver <= ds.threshold BY <3>1, <1>3 DEF Fits
    <3>2. CASE /\ db.rows[k].ver <= ds.informer[k]
               /\ \A i \in DOMAIN ds.channel :
                     Upsert(ds.channel[i], k) => db.rows[k].ver <= ds.channel[i].object.ver
      <4>1. db.rows[k].ver <= ds'.informer[k] BY <3>2, <1>6
      <4>2. ASSUME NEW i \in DOMAIN ds'.channel, Upsert(ds'.channel[i], k)
            PROVE  db.rows[k].ver <= ds'.channel[i].object.ver
        <5>1. CASE i = n + 1
          <6> k = kind BY <4>2, <5>1, <2>1, <1>9 DEF Upsert
          <6> QED BY <3>2, <4>2, <5>1, <2>1, <2>2, <2>3
        <5>2. CASE i \in 1..n BY <3>2, <4>2, <5>2, <2>1
        <5> QED BY <5>1, <5>2, <2>1
      <4> QED BY <4>1, <4>2 DEF Fits
    <3> QED BY <2>5, <3>1, <3>2 DEF Fits
  <2> QED BY <2>4, <2>5
<1>10. Ordered' /\ \A k \in Kinds : Fits(k) => Fits(k)'
  BY <1>8, <1>9, BetweenFacts DEF events
<1>11. Grows' BY DEF IInv, Grows
<1>12. Order' BY <1>3 DEF IInv, Order
<1>13. Committed'
  BY <1>3, <1>10, KindsFacts DEF IInv, Committed, Active
<1>14. Reading'
  <2> SUFFICES ASSUME ds.state = "starting", ds.stored # {}
               PROVE  Reading'
    BY <1>3 DEF Reading
  <2> ds.at \in DOMAIN Collections
    BY KindsFacts DEF IInv, Order, Source
  <2> QED BY <1>3, KindsFacts DEF IInv, Reading
<1>15. Threshold' BY <1>3 DEF IInv, Threshold, Active
<1> QED BY <1>7, <1>10, <1>11, <1>12, <1>13, <1>14, <1>15 DEF IInv
-----------------------------------------------------------------------------
(* Initial states *)

\* The model starts with nothing told, nothing committed and empty tables.
LEMMA IInvInit == Init => IInv
<1> SUFFICES ASSUME Init PROVE IInv OBVIOUS
<1>1. PICK some \in SUBSET Kinds :
        hist = <<[k \in Kinds |-> IF k \in some THEN Object(1, 1) ELSE Nothing]>>
  BY DEF Init
<1>2. Object(1, 1) \in Obj BY DEF Object, Obj
<1>3. hist \in Seq([Kinds -> Obj]) /\ Len(hist) = 1 /\ DOMAIN hist = {1}
      /\ hist[1] = [k \in Kinds |-> IF k \in some THEN Object(1, 1) ELSE Nothing]
  BY <1>1, <1>2, NothingIs
<1>4. NoSource \in Source BY DEF NoSource, Source
<1>5. Typed
  BY <1>3, <1>4, NothingIs DEF Init, Typed, MigClusters, NoSource
<1>6. Grows
  BY <1>3, NothingIs DEF Grows, Object
<1>7. Ordered /\ Order /\ Committed /\ Reading /\ Threshold
  BY DEF Init, NoSource, Ordered, Order, Committed, Reading, Threshold, Active
<1> QED BY <1>5, <1>6, <1>7 DEF IInv

-----------------------------------------------------------------------------
(* Steps of the data source *)

\* A data source that has stopped, or has just been made, has nothing to show.
LEMMA FreshSource ==
    ASSUME IInv, Typed', Grows', Order', ds'.channel = <<>>, ~Active' \/ ds'.at = 1,
           ds'.stored = {}, \A k \in Kinds : ds'.listed[k] = 0
    PROVE  IInv'
<1>1. Ordered' BY DEF Ordered
<1>2. Committed' BY KindsFacts DEF Committed
<1>3. Reading' BY DEF Reading
<1>4. Threshold' BY DEF Threshold
<1> QED BY <1>1, <1>2, <1>3, <1>4 DEF IInv

\* Applying the next event keeps the rows no newer than the events after it.
LEMMA ApplyKeeps == IInv /\ Apply => IInv'
<1> SUFFICES ASSUME IInv, Apply PROVE IInv' OBVIOUS
<1> DEFINE event == Head(ds.channel)
           n     == Len(ds.channel)
<1>0. Typed /\ Ordered BY DEF IInv
<1>1. ds.state = "running" /\ ds.channel # <<>> /\ ds \in Source BY <1>0 DEF Apply, Typed
<1>2. ds' = [ds EXCEPT !.channel = Tail(@)] /\ UNCHANGED <<hist, cluster, drains>>
  BY DEF Apply
<1>3. /\ ds.channel \in Seq(Ev) /\ event \in Ev /\ Tail(ds.channel) \in Seq(Ev)
      /\ n \in Nat \ {0} /\ DOMAIN ds.channel = 1..n /\ event = ds.channel[1]
      /\ DOMAIN Tail(ds.channel) = 1..(n - 1)
      /\ \A i \in 1..(n - 1) : Tail(ds.channel)[i] = ds.channel[i + 1]
  BY <1>0, <1>1, ChannelFacts, HeadTailProperties
<1>4. /\ ds'.state = ds.state /\ ds'.at = ds.at /\ ds'.stored = ds.stored
      /\ ds'.threshold = ds.threshold /\ ds'.listed = ds.listed
      /\ ds'.informer = ds.informer /\ ds'.channel = Tail(ds.channel) /\ ds' \in Source
  BY <1>1, <1>2, <1>3 DEF Source
<1>5. event.kind \in Kinds /\ ds.gen \in Nat /\ ds.threshold \in Nat
  BY <1>1, <1>3 DEF Ev, Source
<1> HIDE DEF event
<1>6. /\ off' \in [Kinds -> SUBSET Reasons] /\ \A k \in Kinds : off[k] \subseteq off'[k]
      /\ \/ WriteRow(event.kind, AfterEvent(ds.gen, event, ds.threshold))
         \/ db' = db
  <2>1. \/ /\ WriteRow(event.kind, AfterEvent(ds.gen, event, ds.threshold))
           /\ off' \in {off, [off EXCEPT ![event.kind] = @ \cup {"overtaken"}]}
        \/ /\ off' = [off EXCEPT ![event.kind] = @ \cup {"lost"}]
           /\ db' = db
    BY DEF Apply, event
  <2>2. off \in [Kinds -> SUBSET Reasons] /\ {"lost", "overtaken"} \subseteq Reasons
    BY <1>0 DEF Typed, Reasons
  <2> QED BY <2>1, <2>2, <1>5
<1>7. /\ db' \in [cluster : Nat, rows : [Kinds -> Obj]]
      /\ \A k \in Kinds : \/ db'.rows[k] = db.rows[k]
                          \/ db'.rows[k] = Nothing
                          \/ db'.rows[k] = event.object /\ Upsert(event, k)
  <2>1. AfterEvent(ds.gen, event, ds.threshold) \in SUBSET Obj
    BY <1>0, <1>3, <1>5, AfterEventFacts
  <2>2. CASE WriteRow(event.kind, AfterEvent(ds.gen, event, ds.threshold))
    <3>1. /\ db' \in [cluster : Nat, rows : [Kinds -> Obj]]
          /\ \A k \in Kinds : k # event.kind => db'.rows[k] = db.rows[k]
          /\ \/ db'.rows[event.kind] = db.rows[event.kind]
             \/ db'.rows[event.kind] \in AfterEvent(ds.gen, event, ds.threshold)
      BY <1>0, <1>5, <2>1, <2>2, WriteRowFacts
    <3> QED BY <1>0, <1>3, <1>5, <3>1, AfterEventFacts
  <2>3. CASE db' = db BY <1>0, <2>3 DEF Typed
  <2> QED BY <1>6, <2>2, <2>3
<1>8. Typed'
  BY <1>0, <1>2, <1>4, <1>6, <1>7 DEF Typed
<1>9. Ordered'
  <2> SUFFICES ASSUME NEW k \in Kinds, NEW i \in DOMAIN ds'.channel, Upsert(ds'.channel[i], k)
               PROVE  /\ ds'.channel[i].object.ver <= ds'.informer[k]
                      /\ \A j \in DOMAIN ds'.channel : i < j /\ Upsert(ds'.channel[j], k) =>
                            ds'.channel[i].object.ver < ds'.channel[j].object.ver
    BY DEF Ordered
  <2>1. /\ i \in 1..(n - 1) /\ ds'.channel[i] = ds.channel[i + 1]
        /\ \A j \in DOMAIN ds'.channel : /\ j \in 1..(n - 1) /\ j + 1 \in DOMAIN ds.channel
                                         /\ ds'.channel[j] = ds.channel[j + 1]
    BY <1>3, <1>4
  <2>2. i + 1 \in DOMAIN ds.channel /\ Upsert(ds.channel[i + 1], k) BY <2>1
  <2>3. \A j \in DOMAIN ds'.channel : i < j => i + 1 < j + 1 BY <1>3, <2>1
  <2> QED BY <2>1, <2>2, <2>3, <1>0, <1>4 DEF Ordered
<1>10. ASSUME NEW k \in Kinds, Fits(k) PROVE Fits(k)'
  <2>1. ds.informer[k] \in Nat /\ db.rows[k].ver \in Nat /\ ds.threshold \in Nat
    BY <1>0, ChannelFacts
  <2>2. CASE db'.rows[k] = db.rows[k]
    <3>1. CASE db.rows[k].ver <= ds.threshold BY <2>2, <3>1, <1>4 DEF Fits
    <3>2. CASE /\ db.rows[k].ver <= ds.informer[k]
               /\ \A i \in DOMAIN ds.channel :
                     Upsert(ds.channel[i], k) => db.rows[k].ver <= ds.channel[i].object.ver
      BY <2>2, <3>2, <1>3, <1>4 DEF Fits
    <3> QED BY <1>10, <3>1, <3>2 DEF Fits
  <2>3. CASE db'.rows[k] = Nothing
    BY <2>1, <2>3, <1>4, NothingIs DEF Fits
  <2>4. CASE db'.rows[k] = event.object /\ Upsert(event, k)
    <3>1. event.object.ver <= ds.informer[k]
      BY <2>4, <1>0, <1>3 DEF Ordered
    <3>2. ASSUME NEW i \in 1..(n - 1), Upsert(ds.channel[i + 1], k)
          PROVE  event.object.ver <= ds.channel[i + 1].object.ver
      <4> i + 1 \in 1..n /\ 1 < i + 1 /\ 1 \in 1..n BY <1>3
      <4> event.object.ver < ds.channel[i + 1].object.ver
        BY <2>4, <3>2, <1>0, <1>3 DEF Ordered
      <4> event.object.ver \in Nat /\ ds.channel[i + 1].object.ver \in Nat
        BY <1>0, <1>3, ChannelFacts
      <4> QED OBVIOUS
    <3> QED BY <2>4, <3>1, <3>2, <1>3, <1>4 DEF Fits
  <2> QED BY <2>2, <2>3, <2>4, <1>7
<1>11. Grows' BY <1>2 DEF IInv, Grows
<1>12. Order' BY <1>2, <1>4 DEF IInv, Order
<1>13. Committed'
  BY <1>4, <1>6, <1>10, KindsFacts DEF IInv, Committed, Active
<1>14. Reading' BY <1>1, <1>4 DEF Reading
<1>15. Threshold' BY <1>2, <1>4 DEF IInv, Threshold, Active
<1> QED BY <1>8, <1>9, <1>11, <1>12, <1>13, <1>14, <1>15 DEF IInv

\* A step that leaves the data source alone, and the rows it has listed unless
\* it says so.
LEMMA AsideKeeps ==
    ASSUME IInv, Typed', Order', UNCHANGED <<hist, ds>>, \A k \in Kinds : off[k] \subseteq off'[k],
           Active => \A k \in Kinds :
              db'.rows[k] = db.rows[k] \/ ds.listed[k] = 0 \/ off'[k] # {}
    PROVE  IInv'
<1>1. Grows' /\ Ordered' /\ Threshold' BY DEF IInv, Grows, Ordered, Threshold, Active
<1>2. ASSUME NEW k \in Kinds, Active, ds.listed[k] > 0, off[k] = {} => Fits(k)
      PROVE  off'[k] = {} => Fits(k)'
  <2>1. ds.listed[k] # 0
    <3> ds.listed[k] \in Nat BY ChannelFacts DEF IInv
    <3> QED BY <1>2
  <2> SUFFICES ASSUME off'[k] = {} PROVE Fits(k)' OBVIOUS
  <2>2. off[k] = {} /\ db'.rows[k] = db.rows[k] BY <1>2, <2>1
  <2> QED BY <2>2, <1>2 DEF Fits
<1>3. Committed'
  <2> SUFFICES ASSUME Active, NEW i \in DOMAIN Collections, i < ds.at
               PROVE  /\ ds.listed[Collections[i]] > 0
                      /\ off'[Collections[i]] = {} => Fits(Collections[i])'
    BY DEF Committed, Active
  <2> QED BY <1>2, KindsFacts DEF IInv, Committed
<1>4. Reading'
  <2> SUFFICES ASSUME ds.state = "starting", ds.stored # {} PROVE Reading' BY DEF Reading
  <2>1. ds.at \in DOMAIN Collections /\ Active
    BY SMTT(60), KindsFacts DEF IInv, Order, Typed, Source, Active
  <2>2. PICK k \in Kinds : k = Collections[ds.at] BY <2>1, KindsFacts
  <2>3. /\ ds.listed[k] > 0 /\ \E row \in ds.stored : ds.stored = {row}
        /\ off[k] = {} => ds.stored = {db.rows[k]}
    BY <2>2 DEF IInv, Reading
  <2>4. ds.listed[k] # 0
    <3> ds.listed[k] \in Nat BY ChannelFacts DEF IInv
    <3> QED BY <2>3
  <2>5. off'[k] = {} => ds.stored = {db'.rows[k]} BY <2>1, <2>3, <2>4
  <2> QED BY <2>2, <2>3, <2>5 DEF Reading
<1> QED BY <1>1, <1>3, <1>4 DEF IInv

\* One channel fewer is emptied, or one event fewer is in it.
LEMMA DrainFacts ==
    ASSUME Typed, NEW i, Drain(i)
    PROVE  /\ drains' \in Seq(Draining) /\ drains' # drains
           /\ drains[i].gen \in Nat /\ drains[i].threshold \in Nat
           /\ Head(drains[i].channel) \in Ev
<1>1. drains \in Seq(Draining) /\ i \in DOMAIN drains /\ i \in 1..Len(drains)
  BY DEF Drain, Typed
<1>2. PICK old \in Draining : old = drains[i] BY <1>1
<1>3. /\ old.channel \in Seq(Ev) /\ old.channel # <<>> /\ old.gen \in Nat
      /\ old.threshold \in Nat
  BY DEF Draining
<1>4. /\ Head(old.channel) \in Ev /\ Tail(old.channel) \in Seq(Ev)
      /\ Len(Tail(old.channel)) = Len(old.channel) - 1 /\ Len(old.channel) \in Nat
  BY <1>3, HeadTailProperties
<1>5. CASE Len(old.channel) = 1
  <2>1. drains' = RemoveAt(drains, i) BY <1>2, <1>5 DEF Drain
  <2> DEFINE a == SubSeq(drains, 1, i - 1)
             b == SubSeq(drains, i + 1, Len(drains))
  <2>2. Len(drains) \in Nat /\ \A j \in 1..Len(drains) : drains[j] \in Draining BY <1>1
  <2>3. a \in Seq(Draining) /\ Len(a) = i - 1
    <3> \A j \in 1..(i - 1) : drains[j] \in Draining BY <1>1, <2>2
    <3> QED BY <1>1, <2>2, SubSeqProperties
  <2>4. b \in Seq(Draining) /\ Len(b) = Len(drains) - i
    <3> \A j \in (i + 1)..Len(drains) : drains[j] \in Draining BY <1>1, <2>2
    <3> QED BY <1>1, <2>2, SubSeqProperties
  <2> HIDE DEF a, b
  <2>5. a \o b \in Seq(Draining) /\ Len(a \o b) = Len(a) + Len(b)
    BY <2>3, <2>4, ConcatProperties
  <2>6. drains' = a \o b BY <2>1 DEF RemoveAt, a, b
  <2>7. Len(drains') # Len(drains) BY <1>1, <2>2, <2>3, <2>4, <2>5, <2>6
  <2> QED BY <1>2, <1>3, <1>4, <2>5, <2>6, <2>7
<1>6. CASE Len(old.channel) # 1
  <2>1. drains' = [drains EXCEPT ![i].channel = Tail(@)] BY <1>2, <1>6 DEF Drain
  <2>2. PICK d : d = [old EXCEPT !.channel = Tail(@)] OBVIOUS
  <2>3. drains' = [drains EXCEPT ![i] = d] BY <1>2, <2>1, <2>2
  <2>4. Tail(old.channel) # <<>> /\ Tail(old.channel) # old.channel
    <3>1. Len(Tail(old.channel)) # 0 /\ Len(Tail(old.channel)) # Len(old.channel)
      BY <1>4, <1>6
    <3>2. Len(<<>>) = 0 OBVIOUS
    <3>3. Tail(old.channel) # old.channel BY <3>1
    <3>4. Tail(old.channel) # <<>> BY <3>1, <3>2, Zenon
    <3> QED BY <3>3, <3>4
  <2>5. d \in Draining /\ d # old BY <1>3, <1>4, <2>2, <2>4 DEF Draining
  <2>6. drains' \in Seq(Draining) /\ drains'[i] = d BY <1>1, <2>3, <2>5
  <2> QED BY <1>2, <1>3, <1>4, <2>5, <2>6
<1> QED BY <1>5, <1>6

\* Draining the events of a restarted watch keeps the invariant.
LEMMA DrainKeeps ==
    ASSUME IInv, NEW i, Drain(i)
    PROVE  IInv'
<1>0. Typed BY DEF IInv
<1>1. PICK gen, threshold, event :
         /\ gen = drains[i].gen /\ threshold = drains[i].threshold
         /\ event = Head(drains[i].channel)
  OBVIOUS
<1>2. drains' \in Seq(Draining) /\ event \in Ev /\ threshold \in Nat
  BY <1>0, <1>1, DrainFacts
<1>3. event.kind \in Kinds BY <1>2 DEF Ev
<1>4. AfterEvent(gen, event, threshold) \in SUBSET Obj
  BY <1>0, <1>2, AfterEventFacts
<1>5. WriteRow(event.kind, AfterEvent(gen, event, threshold))
  BY <1>1 DEF Drain
<1>6. /\ db' \in [cluster : Nat, rows : [Kinds -> Obj]]
      /\ \A k \in Kinds : k # event.kind => db'.rows[k] = db.rows[k]
  BY <1>0, <1>3, <1>4, <1>5, WriteRowFacts
<1>7. off' = IF db' # db /\ ds.listed[event.kind] > 0
             THEN [off EXCEPT ![event.kind] = @ \cup {"stale"}] ELSE off
  BY <1>1 DEF Drain
<1>8. off \in [Kinds -> SUBSET Reasons] /\ "stale" \in Reasons BY <1>0 DEF Typed, Reasons
<1>9. /\ off' \in [Kinds -> SUBSET Reasons] /\ \A k \in Kinds : off[k] \subseteq off'[k]
      /\ db' # db /\ ds.listed[event.kind] > 0 => off'[event.kind] # {}
  BY <1>3, <1>7, <1>8
<1>10. UNCHANGED <<hist, cluster, ds, spent>> BY DEF Drain
<1>11. Typed' BY <1>0, <1>2, <1>6, <1>9, <1>10 DEF Typed
<1>12. Order' BY <1>10 DEF IInv, Order
<1>13. ds.listed[event.kind] \in Nat BY <1>0, <1>3, ChannelFacts
<1>14. \A k \in Kinds : db'.rows[k] = db.rows[k] \/ ds.listed[k] = 0 \/ off'[k] # {}
  BY <1>3, <1>6, <1>9, <1>13
<1> QED BY <1>9, <1>10, <1>11, <1>12, <1>14, AsideKeeps

\* Informers go on along the history of the cluster.
LEMMA InformerKeeps ==
    ASSUME IInv, NEW kind \in Kinds,
           InformerStarts(kind) \/ InformerTells(kind) \/ InformerLists(kind)
    PROVE  IInv'
<1>0. Typed /\ Grows BY DEF IInv
<1>1. /\ hist \in Seq([Kinds -> Obj]) /\ DOMAIN hist = 1..Len(hist) /\ Len(hist) \in Nat \ {0}
      /\ ds.informer[kind] \in Nat /\ ds.informer[kind] <= Len(hist)
      /\ off \in [Kinds -> SUBSET Reasons]
  BY <1>0 DEF Typed, Source
<1>2. \A i \in 1..Len(hist) : hist[i][kind] \in Obj /\ hist[i][kind].ver <= i
  BY <1>0, <1>1 DEF Grows
<1>3. Len(hist) \in 1..Len(hist) /\ Now[kind] = hist[Len(hist)][kind] BY <1>1 DEF Now
<1>4. Unseen(kind, Nothing) \subseteq Reasons /\ \A o : Unseen(kind, o) \subseteq Reasons
  BY DEF Unseen, Reasons
<1>5. CASE InformerStarts(kind)
  <2>1. /\ ds.informer[kind] = 0 /\ UNCHANGED <<hist, cluster, db, drains>>
        /\ Send(kind, Len(hist), Between(kind, Nothing, Now[kind]))
        /\ off' = [off EXCEPT ![kind] = @ \cup Unseen(kind, Nothing)]
    BY <1>5 DEF InformerStarts
  <2>2. Now[kind] \in Obj /\ Now[kind].ver <= Len(hist) BY <1>2, <1>3
  <2>3. Now[kind] = Nothing \/ (Now[kind].ver > 0 /\ Now[kind].ver <= Len(hist))
    <3>1. Now[kind].ver \in Nat /\ Now[kind].uid \in Nat
          /\ (Now[kind].uid = 0 <=> Now[kind].ver = 0)
      BY <2>2 DEF Obj
    <3> QED BY <2>2, <3>1, NothingIs
  <2>4. off' \in [Kinds -> SUBSET Reasons] /\ \A k \in Kinds : off[k] \subseteq off'[k]
    BY <1>1, <1>4, <2>1
  <2> QED BY <1>1, <2>1, <2>2, <2>3, <2>4, NothingIs, SendKeeps
<1>6. CASE InformerTells(kind)
  <2>1. PICK to \in Pending(kind) : Send(kind, to, Between(kind, hist[to - 1][kind], hist[to][kind]))
    BY <1>6 DEF InformerTells
  <2>2. ds.informer[kind] > 0 /\ UNCHANGED <<hist, cluster, db, drains, off>>
    BY <1>6 DEF InformerTells
  <2>3. /\ to \in Nat /\ ds.informer[kind] + 1 <= to /\ to <= Len(hist)
        /\ hist[to][kind] # hist[ds.informer[kind]][kind]
    BY <1>1, <2>1 DEF Pending
  <2>4. /\ to \in 1..Len(hist) /\ to - 1 \in 1..Len(hist)
        /\ ds.informer[kind] \in 1..Len(hist) /\ ds.informer[kind] <= to
    BY <1>1, <2>2, <2>3
  <2>5. hist[to][kind] = Nothing \/ hist[to][kind].ver > ds.informer[kind]
    BY <1>0, <1>1, <2>3, <2>4 DEF Grows
  <2>6. /\ hist[to][kind] \in Obj /\ hist[to - 1][kind] \in Obj
        /\ hist[to][kind].ver <= to
    BY <1>2, <2>4
  <2> QED BY <1>1, <2>1, <2>2, <2>3, <2>4, <2>5, <2>6, SendKeeps
<1>7. CASE InformerLists(kind)
  <2>1. PICK old : old = hist[ds.informer[kind]][kind] OBVIOUS
  <2>2. /\ ds.informer[kind] > 0 /\ UNCHANGED <<hist, cluster, db, drains>>
        /\ Send(kind, Len(hist), Between(kind, old, Now[kind]))
    BY <1>7, <2>1 DEF InformerLists
  <2>3. \E S \in SUBSET Reasons : off' = [off EXCEPT ![kind] = @ \cup S]
    <3> DEFINE S == Unseen(kind, old) \cup
                      IF Nothing \notin {old, Now[kind]} /\ old.uid # Now[kind].uid
                      THEN {"replaced"} ELSE {}
    <3>1. S \in SUBSET Reasons BY <1>4 DEF Reasons
    <3>2. off' = [off EXCEPT ![kind] = @ \cup S] BY <1>1, <1>7, <2>1 DEF InformerLists
    <3> QED BY <3>1, <3>2
  <2>4. off' \in [Kinds -> SUBSET Reasons] /\ \A k \in Kinds : off[k] \subseteq off'[k]
    BY <1>1, <2>3
  <2>5. ds.informer[kind] \in 1..Len(hist) BY <1>1, <2>2
  <2>6. /\ old \in Obj /\ Now[kind] \in Obj /\ Now[kind].ver <= Len(hist)
        /\ Now[kind] = old \/ Now[kind] = Nothing \/ Now[kind].ver > ds.informer[kind]
    BY <1>0, <1>1, <1>2, <1>3, <2>1, <2>5 DEF Grows
  <2>7. Len(hist) \in Nat /\ Len(hist) <= Len(hist) BY <1>1
  <2>8. Now[kind] = old \/ Now[kind] = Nothing
        \/ (Now[kind].ver > ds.informer[kind] /\ Now[kind].ver <= Len(hist))
    BY <2>6
  <2> QED BY <1>1, <2>2, <2>4, <2>6, <2>7, <2>8, SendKeeps
<1> QED BY <1>5, <1>6, <1>7

\* The rows of another cluster go.
LEMMA PurgedFacts ==
    ASSUME Typed, NEW gen
    PROVE  Purged(gen) \in [cluster : Nat, rows : [Kinds -> Obj]]
BY NothingIs DEF Purged, Typed

\* A purge that fails has done nothing.
LEMMA PurgeFacts ==
    ASSUME Typed, NEW gen, Purge(gen)
    PROVE  db' \in [cluster : Nat, rows : [Kinds -> Obj]]
BY PurgedFacts DEF Purge, Typed

\* The pruning at the start purges the rows of another generation.
LEMMA PruneKeeps == IInv /\ Prune => IInv'
<1> SUFFICES ASSUME IInv, Prune PROVE IInv' OBVIOUS
<1>0. Typed BY DEF IInv
<1>1. ~Active BY DEF Prune, IInv, Order, Active
<1>2. UNCHANGED <<hist, ds, drains, off>>
      /\ cluster' = [cluster EXCEPT !.pruned = TRUE,
                                    !.barred = db'.cluster \notin {0, cluster.gen}]
  BY DEF Prune
<1>3. db' \in [cluster : Nat, rows : [Kinds -> Obj]]
  BY <1>0, PurgeFacts DEF Prune, Typed
<1>4. cluster' \in MigClusters /\ cluster'.pruned BY <1>0, <1>2 DEF Typed, MigClusters
<1>5. Typed' /\ Order' BY <1>0, <1>2, <1>3, <1>4 DEF IInv, Order, Typed
<1> QED BY <1>1, <1>2, <1>5, AsideKeeps

\* A data source that is stopped leaves the events of its channel to be drained.
LEMMA StoppedFacts ==
    ASSUME Typed
    PROVE  Stopped \in Seq(Draining)
<1>1. drains \in Seq(Draining) /\ ds \in Source BY DEF Typed
<1>2. CASE ds.state = "running" /\ ds.channel # <<>>
  <2>1. PICK d : d = [gen |-> ds.gen, threshold |-> ds.threshold, channel |-> ds.channel]
    OBVIOUS
  <2>2. d \in Draining BY <1>1, <1>2, <2>1 DEF Draining, Source
  <2> QED BY <1>1, <1>2, <2>1, <2>2, AppendProperties DEF Stopped
<1> QED BY <1>1, <1>2 DEF Stopped

\* The reconcile that finds no cluster stops the data source and purges its rows.
LEMMA GoneKeeps == IInv /\ ReconcileGone => IInv'
<1> SUFFICES ASSUME IInv, ReconcileGone PROVE IInv' OBVIOUS
<1>0. Typed BY DEF IInv
<1>1. ds' = NoSource /\ UNCHANGED <<hist, off>> BY DEF ReconcileGone
<1>2. /\ ds'.state = "none" /\ ds'.channel = <<>> /\ ds'.stored = {} /\ ds' \in Source
      /\ \A k \in Kinds : ds'.listed[k] = 0 /\ ds'.informer[k] = 0
  BY <1>1 DEF NoSource, Source
<1>3. db' \in [cluster : Nat, rows : [Kinds -> Obj]]
  BY <1>0, PurgeFacts DEF ReconcileGone, Typed
<1>4. drains' \in Seq(Draining) BY <1>0, StoppedFacts DEF ReconcileGone
<1>5. cluster' \in MigClusters
  BY <1>0 DEF ReconcileGone, Typed, MigClusters
<1>6. Typed' BY <1>0, <1>1, <1>2, <1>3, <1>4, <1>5 DEF Typed
<1>7. Grows' BY <1>1 DEF IInv, Grows
<1>8. Order' /\ ~Active' BY <1>2 DEF Order, Active
<1> QED BY <1>2, <1>6, <1>7, <1>8, FreshSource

\* The reconcile that starts a data source for the cluster keeps the invariant.
LEMMA AddKeeps == IInv /\ ReconcileAdd => IInv'
<1> SUFFICES ASSUME IInv, ReconcileAdd PROVE IInv' OBVIOUS
<1>0. Typed BY DEF IInv
<1>1. UNCHANGED hist /\ off' = [k \in Kinds |-> {}] /\ drains' = Stopped /\ cluster.pruned
  BY DEF ReconcileAdd, Awake
<1>2. PICK new : new = [NoSource EXCEPT !.gen = cluster.gen] OBVIOUS
<1>3. ds' \in {[new EXCEPT !.state = "starting", !.manager = TRUE], [new EXCEPT !.state = "failed"]}
  BY <1>2 DEF ReconcileAdd
<1>4. cluster.gen \in Nat BY <1>0 DEF Typed, MigClusters
<1>5. /\ ds'.state \in {"starting", "failed"} /\ ds'.channel = <<>> /\ ds'.stored = {}
      /\ ds'.at = 1 /\ ds' \in Source
      /\ \A k \in Kinds : ds'.listed[k] = 0 /\ ds'.informer[k] = 0
  <2>1. NoSource \in Source /\ NoSource.at = 1 /\ NoSource.channel = <<>>
        /\ NoSource.stored = {}
        /\ \A k \in Kinds : NoSource.listed[k] = 0 /\ NoSource.informer[k] = 0
    BY DEF NoSource, Source
  <2>2. new \in Source /\ new.at = 1 /\ new.channel = <<>> /\ new.stored = {}
        /\ \A k \in Kinds : new.listed[k] = 0 /\ new.informer[k] = 0
    BY <1>2, <1>4, <2>1 DEF Source
  <2>3. CASE ds' = [new EXCEPT !.state = "starting", !.manager = TRUE]
    BY <2>2, <2>3 DEF Source
  <2>4. CASE ds' = [new EXCEPT !.state = "failed"]
    BY <2>2, <2>4 DEF Source
  <2> QED BY <1>3, <2>3, <2>4
<1>6. db' \in [cluster : Nat, rows : [Kinds -> Obj]]
  BY <1>0, <1>4 DEF ReconcileAdd, Typed
<1>7. drains' \in Seq(Draining) BY <1>0, <1>1, StoppedFacts
<1>8. /\ cluster' \in MigClusters
      /\ cluster'.pruned = cluster.pruned
  BY <1>0 DEF ReconcileAdd, Typed, MigClusters
<1>9. off' \in [Kinds -> SUBSET Reasons] BY <1>1
<1>10. Typed' BY <1>0, <1>1, <1>5, <1>6, <1>7, <1>8, <1>9 DEF Typed
<1>11. Grows' BY <1>1 DEF IInv, Grows
<1>12. Order' BY <1>1, <1>5, <1>8 DEF Order
<1> QED BY <1>5, <1>10, <1>11, <1>12, FreshSource

\* A crash loses the threads and keeps what was committed.
LEMMA CrashKeeps == IInv /\ Crash => IInv'
<1> SUFFICES ASSUME IInv, Crash PROVE IInv' OBVIOUS
<1>0. Typed BY DEF IInv
<1>1. ds' = NoSource /\ drains' = <<>> /\ UNCHANGED <<hist, db, off>> BY DEF Crash
<1>2. /\ ds'.state = "none" /\ ds'.channel = <<>> /\ ds'.stored = {} /\ ds' \in Source
      /\ \A k \in Kinds : ds'.listed[k] = 0 /\ ds'.informer[k] = 0
  BY <1>1 DEF NoSource, Source
<1>3. cluster' \in MigClusters
  BY <1>0 DEF Crash, Typed, MigClusters
<1>4. Typed' BY <1>0, <1>1, <1>2, <1>3 DEF Typed
<1>5. Grows' BY <1>1 DEF IInv, Grows
<1>6. Order' /\ ~Active' BY <1>2 DEF Order, Active
<1> QED BY <1>2, <1>4, <1>5, <1>6, FreshSource

\* No collection comes twice.
LEMMA Distinct ==
    ASSUME NEW i \in DOMAIN Collections, NEW j \in DOMAIN Collections, i # j
    PROVE  Collections[i] # Collections[j]
BY DiscoveryAssumption DEF DiscoveryAssumption, IsInjective

\* The threshold covers the collection that is listed.
LEMMA ListKeeps == IInv /\ List => IInv'
<1> SUFFICES ASSUME IInv, List PROVE IInv' OBVIOUS
<1>0. Typed /\ ds \in Source BY DEF IInv, Typed
<1>1. UNCHANGED <<hist, cluster, db, drains, off, spent>> BY DEF List
<1>2. ds.state = "starting" /\ ds.at \in DOMAIN Collections /\ ds.at <= Len(Collections)
  BY <1>0, KindsFacts DEF List, Starting, Source
<1>3. PICK kind \in Kinds : kind = Collections[ds.at] BY <1>2, KindsFacts
<1>4. PICK t : t = IF Now[kind].ver > ds.threshold THEN Now[kind].ver ELSE ds.threshold
  OBVIOUS
<1>5. ds' = [ds EXCEPT !.stored = {db.rows[kind]}, !.listed[kind] = Len(hist), !.threshold = t]
  BY <1>0, <1>3, <1>4 DEF List, Source
<1>6. /\ hist \in Seq([Kinds -> Obj]) /\ Len(hist) \in Nat \ {0} /\ Len(hist) \in DOMAIN hist
      /\ Now[kind] = hist[Len(hist)][kind] /\ Now[kind] \in Obj /\ Now[kind].ver \in Nat
  BY <1>0 DEF Typed, Now, Obj
<1>7. ds.threshold \in Nat /\ db.rows[kind] \in Obj /\ ds.listed \in [Kinds -> Nat]
      /\ ds.informer \in [Kinds -> Nat]
  BY <1>0, ChannelFacts
<1>8. t \in Nat /\ ds.threshold <= t /\ Now[kind].ver <= t BY <1>4, <1>6, <1>7
<1>9. /\ ds'.state = ds.state /\ ds'.at = ds.at /\ ds'.stored = {db.rows[kind]}
      /\ ds'.threshold = t /\ ds'.informer = ds.informer /\ ds'.channel = ds.channel
      /\ ds'.listed = [ds.listed EXCEPT ![kind] = Len(hist)]
  BY <1>0, <1>5 DEF Source
<1>10. ds' \in Source BY <1>0, <1>5, <1>6, <1>7, <1>8 DEF Source
<1>11. \A k \in Kinds : k # kind => ds'.listed[k] = ds.listed[k]
  BY <1>7, <1>9
<1>12. ds'.listed[kind] = Len(hist) BY <1>7, <1>9
<1>13. Typed'
  <2>1. \A k \in Kinds : ds'.listed[k] <= Len(hist) /\ ds'.informer[k] <= Len(hist)
    BY <1>0, <1>6, <1>9, <1>11, <1>12 DEF Typed
  <2> QED BY <1>0, <1>1, <1>10, <2>1 DEF Typed
<1>14. Grows' BY <1>1 DEF IInv, Grows
<1>15. Ordered' BY <1>9 DEF IInv, Ordered
<1>16. Order' BY <1>1, <1>2, <1>9 DEF IInv, Order
<1>17. ASSUME NEW k \in Kinds, Fits(k) PROVE Fits(k)'
  <2>1. db.rows[k].ver \in Nat BY <1>0, ChannelFacts
  <2> QED BY <2>1, <1>1, <1>7, <1>8, <1>9, <1>17 DEF Fits
<1>18. Committed'
  <2> SUFFICES ASSUME NEW i \in DOMAIN Collections, i < ds.at
               PROVE  /\ ds'.listed[Collections[i]] > 0
                      /\ off[Collections[i]] = {} => Fits(Collections[i])'
    BY <1>1, <1>9 DEF Committed
  <2>1. PICK k \in Kinds : k = Collections[i] BY KindsFacts
  <2>2. ds.listed[k] > 0 /\ (off[k] = {} => Fits(k))
    BY <1>2, <2>1 DEF IInv, Committed, Active
  <2> QED BY <1>6, <1>11, <1>12, <1>17, <2>1, <2>2
<1>19. Reading' BY <1>1, <1>3, <1>6, <1>7, <1>9, <1>12 DEF Reading
<1>20. Threshold'
  <2> SUFFICES ASSUME NEW k \in Kinds, ds'.listed[k] > 0
               PROVE  hist[ds'.listed[k]][k].ver <= t
    BY <1>1, <1>9 DEF Threshold
  <2>1. CASE k = kind BY <2>1, <1>6, <1>8, <1>12
  <2>2. CASE k # kind
    <3>1. ds.listed[k] > 0 /\ ds'.listed[k] = ds.listed[k] BY <2>2, <1>11
    <3>2. hist[ds.listed[k]][k].ver <= ds.threshold
      BY <1>2, <3>1 DEF IInv, Threshold, Active
    <3>3. ds.listed[k] \in DOMAIN hist
      <4> ds.listed[k] \in Nat /\ ds.listed[k] <= Len(hist) BY <1>0, <1>7 DEF Typed
      <4> QED BY <3>1, <1>6
    <3>4. hist[ds.listed[k]][k] \in Obj BY <3>3, <1>6
    <3>5. hist[ds.listed[k]][k].ver \in Nat BY <3>4 DEF Obj
    <3> QED BY <3>1, <3>2, <3>5, <1>7, <1>8
  <2> QED BY <2>1, <2>2
<1> QED BY <1>13, <1>14, <1>15, <1>16, <1>18, <1>19, <1>20 DEF IInv

\* What is written of an object that was read is an object, no newer than the list.
LEMMA ReconciledFacts ==
    ASSUME NEW row \in Obj, NEW stored \in Obj, NEW found \in Obj,
           NEW r \in Reconciled(row, stored, found)
    PROVE  /\ r \in Obj
           /\ row = stored => r.ver <= found.ver
<1> DEFINE left == IF stored.uid # found.uid THEN Deleted(row, stored) ELSE row
<1>0. /\ row.ver \in Nat /\ found.ver \in Nat /\ stored.ver \in Nat
      /\ \A o \in Obj : o.uid = 0 <=> o = Nothing
  BY NothingIs DEF Obj
<1>1. left \in Obj BY NothingIs DEF Deleted
<1>2. row = stored => left = IF stored.uid # found.uid THEN Nothing ELSE row BY DEF Deleted
<1> HIDE DEF left
<1>3. CASE found = Nothing
  <2>1. r = left BY <1>3 DEF Reconciled, left
  <2>2. row = stored => left = Nothing BY <1>0, <1>2, <1>3, NothingIs
  <2> QED BY <2>1, <2>2, <1>0, <1>1, NothingIs
<1>4. CASE found # Nothing /\ stored.uid # found.uid
  <2>1. r \in Inserted(left, found) BY <1>4 DEF Reconciled, left
  <2>2. r = found BY <2>1 DEF Inserted, Updated
  <2> QED BY <2>2, <1>0
<1>5. CASE found # Nothing /\ stored.uid = found.uid /\ stored.ver # found.ver
  <2>1. r \in Updated(left, found) BY <1>5 DEF Reconciled, left
  <2>2. r = found BY <2>1 DEF Updated
  <2> QED BY <2>2, <1>0
<1>6. CASE found # Nothing /\ stored.uid = found.uid /\ stored.ver = found.ver
  <2>1. r = left BY <1>6 DEF Reconciled, left
  <2> QED BY <2>1, <1>0, <1>1, <1>2, <1>6
<1> QED BY <1>3, <1>4, <1>5, <1>6

\* A start that fails leaves a data source that does nothing.
LEMMA FailsKeeps ==
    ASSUME IInv, StartFails, ds.state = "starting"
    PROVE  IInv'
<1>0. Typed /\ ds \in Source BY DEF IInv, Typed
<1>1. ds' = [ds EXCEPT !.state = "failed"] /\ UNCHANGED <<hist, db, drains, off>>
      /\ cluster' = [cluster EXCEPT !.queued = TRUE]
  BY DEF StartFails, Retry
<1>2. /\ ds'.state = "failed" /\ ds' \in Source /\ ds'.listed = ds.listed
      /\ ds'.informer = ds.informer /\ ds'.channel = ds.channel
  BY <1>0, <1>1 DEF Source
<1>3. Typed' BY <1>0, <1>1, <1>2 DEF Typed, MigClusters
<1>4. Grows' /\ Ordered' BY <1>1, <1>2 DEF IInv, Grows, Ordered
<1>5. cluster'.pruned = cluster.pruned BY <1>0, <1>1 DEF Typed
<1>6. Order' BY <1>2, <1>5 DEF IInv, Order
<1>7. Committed' /\ Reading' /\ Threshold' BY <1>2 DEF Committed, Reading, Threshold, Active
<1> QED BY <1>3, <1>4, <1>6, <1>7 DEF IInv

\* A collection that has been reconciled is covered by the threshold.
LEMMA CommitKeeps == IInv /\ Commit => IInv'
<1> SUFFICES ASSUME IInv, Commit PROVE IInv' OBVIOUS
<1>0. Typed /\ ds \in Source BY DEF IInv, Typed
<1>1. ds.state = "starting" /\ ds.at \in DOMAIN Collections /\ ds.at <= Len(Collections)
      /\ ds.stored # {} /\ DOMAIN Collections = 1..Len(Collections)
  BY <1>0, KindsFacts DEF Commit, Starting, Source
<1>2. PICK kind \in Kinds : kind = Collections[ds.at] BY <1>1, KindsFacts
<1>3. PICK stored \in ds.stored : ds.stored = {stored} /\ ds.listed[kind] > 0
                                 /\ (off[kind] = {} => stored = db.rows[kind])
  BY <1>1, <1>2 DEF IInv, Reading
<1>4. (CHOOSE row \in ds.stored : TRUE) = stored BY <1>3
<1>5. PICK found : found = hist[ds.listed[kind]][kind] OBVIOUS
<1>6. PICK rows : rows = Reconciled(db.rows[kind], stored, found) OBVIOUS
<1>7. CASE rows = {}
  <2>1. StartFails BY <1>2, <1>4, <1>5, <1>6, <1>7 DEF Commit
  <2> QED BY <2>1, <1>1, FailsKeeps
<1>8. CASE rows # {}
  <2>1. /\ WriteRow(kind, rows) /\ UNCHANGED <<hist, cluster, drains, off, spent>>
        /\ ds' = [ds EXCEPT !.at = @ + 1, !.stored = {},
                            !.state = IF ds.at = Len(Collections) THEN "running" ELSE @]
    BY <1>2, <1>4, <1>5, <1>6, <1>8 DEF Commit
  <2>2. /\ ds'.at = ds.at + 1 /\ ds'.stored = {} /\ ds'.threshold = ds.threshold
        /\ ds'.listed = ds.listed /\ ds'.informer = ds.informer /\ ds'.channel = ds.channel
        /\ ds'.state \in {"starting", "running"} /\ ds' \in Source
        /\ ds'.state = "running" => ds.at = Len(Collections)
    <3>1. PICK state : state = IF ds.at = Len(Collections) THEN "running" ELSE ds.state
      OBVIOUS
    <3>2. state \in {"starting", "running"} /\ (state = "running" => ds.at = Len(Collections))
      BY <1>1, <3>1
    <3>3. ds' = [ds EXCEPT !.at = ds.at + 1, !.stored = {}, !.state = state]
      BY <1>0, <2>1, <3>1 DEF Source
    <3>4. ds.at + 1 \in Nat \ {0} /\ state \in {"none", "starting", "running", "failed"}
      BY <1>0, <3>2 DEF Source
    <3>5. ds' \in Source BY <1>0, <3>3, <3>4 DEF Source
    <3>6. /\ ds'.at = ds.at + 1 /\ ds'.stored = {} /\ ds'.threshold = ds.threshold
          /\ ds'.listed = ds.listed /\ ds'.informer = ds.informer
          /\ ds'.channel = ds.channel /\ ds'.state = state
      BY <1>0, <3>3 DEF Source
    <3> QED BY <3>2, <3>5, <3>6
  <2>3. stored \in Obj /\ db.rows[kind] \in Obj /\ ds.listed[kind] \in DOMAIN hist
        /\ found \in Obj
    <3>1. ds.listed[kind] \in Nat /\ ds.listed[kind] <= Len(hist)
          /\ hist \in Seq([Kinds -> Obj])
      BY <1>0, ChannelFacts DEF Typed
    <3>2. ds.listed[kind] \in DOMAIN hist BY <1>3, <3>1
    <3>3. stored \in Obj BY <1>0, <1>3 DEF Source
    <3> QED BY <1>0, <1>5, <3>1, <3>2, <3>3, ChannelFacts
  <2>4. rows \in SUBSET Obj BY <1>6, <2>3, ReconciledFacts
  <2>5. /\ db' \in [cluster : Nat, rows : [Kinds -> Obj]]
        /\ \A k \in Kinds : k # kind => db'.rows[k] = db.rows[k]
    BY <1>0, <2>1, <2>4, WriteRowFacts
  <2>6. db'.rows[kind] \in rows
    <3> DEFINE row == CHOOSE row \in rows : TRUE
    <3>1. row \in rows BY <1>8
    <3>2. db' = [db EXCEPT !.rows[kind] = row] BY <1>8, <2>1 DEF WriteRow
    <3> HIDE DEF row
    <3> QED BY <1>0, <3>1, <3>2 DEF Typed
  <2>7. found.ver <= ds.threshold
    BY <1>1, <1>3, <1>5 DEF IInv, Threshold, Active
  <2>8. off[kind] = {} => db'.rows[kind].ver <= ds.threshold
    <3> SUFFICES ASSUME off[kind] = {} PROVE db'.rows[kind].ver <= ds.threshold OBVIOUS
    <3>1. db'.rows[kind].ver <= found.ver
      BY <1>3, <1>6, <2>3, <2>6, ReconciledFacts
    <3>2. /\ db'.rows[kind].ver \in Nat /\ found.ver \in Nat /\ ds.threshold \in Nat
      BY <1>0, <2>3, <2>4, <2>6, ChannelFacts DEF Obj
    <3> QED BY <2>7, <3>1, <3>2
  <2>9. Typed' BY <1>0, <2>1, <2>2, <2>5 DEF Typed
  <2>10. Grows' /\ Ordered' BY <2>1, <2>2 DEF IInv, Grows, Ordered
  <2>11. Order' BY <1>1, <2>1, <2>2, <1>0 DEF IInv, Order, Source
  <2>12. ASSUME NEW i \in DOMAIN Collections, i < ds.at + 1
         PROVE  /\ ds.listed[Collections[i]] > 0
                /\ off[Collections[i]] = {} => Fits(Collections[i])'
    <3>1. CASE i = ds.at
      <4>1. Collections[i] = kind BY <3>1, <1>2
      <4>2. off[kind] = {} => Fits(kind)' BY <2>2, <2>8 DEF Fits
      <4> QED BY <4>1, <4>2, <1>3
    <3>2. CASE i # ds.at
      <4>1. i < ds.at BY <1>1, <2>12, <3>2
      <4>2. PICK k \in Kinds : k = Collections[i] BY KindsFacts
      <4>3. k # kind BY <3>2, <4>2, <1>1, <1>2, Distinct
      <4>4. ds.listed[k] > 0 /\ (off[k] = {} => Fits(k))
        BY <1>1, <4>1, <4>2 DEF IInv, Committed, Active
      <4>5. Fits(k) => Fits(k)' BY <2>2, <2>5, <4>3 DEF Fits
      <4> QED BY <4>2, <4>4, <4>5
    <3> QED BY <3>1, <3>2
  <2>13. Committed' BY <2>1, <2>2, <2>12 DEF Committed
  <2>14. Reading' BY <2>2 DEF Reading
  <2>15. Threshold' BY <1>1, <2>1, <2>2 DEF IInv, Threshold, Active
  <2> QED BY <2>9, <2>10, <2>11, <2>13, <2>14, <2>15 DEF IInv
<1> QED BY <1>7, <1>8

-----------------------------------------------------------------------------
(* The rest of the world *)

\* A change is newer than all that there was.
LEMMA ChangeKeeps ==
    ASSUME IInv, NEW kind \in Kinds, Change(kind)
    PROVE  IInv'
<1>0. Typed /\ ds \in Source BY DEF IInv, Typed
<1>1. UNCHANGED <<cluster, db, ds, drains, off>> BY DEF Change
<1>2. PICK n : n = Len(hist) OBVIOUS
<1>3. /\ hist \in Seq([Kinds -> Obj]) /\ n \in Nat \ {0} /\ DOMAIN hist = 1..n
      /\ n \in DOMAIN hist /\ Now = hist[n] /\ Now \in [Kinds -> Obj]
      /\ \A i \in 1..n : \A k \in Kinds : hist[i][k] \in Obj /\ hist[i][k].ver \in Nat
  <2>1. hist \in Seq([Kinds -> Obj]) /\ n \in Nat \ {0} /\ DOMAIN hist = 1..n
    BY <1>0, <1>2 DEF Typed
  <2>2. \A i \in 1..n : hist[i] \in [Kinds -> Obj] BY <2>1
  <2>3. n \in 1..n /\ Now = hist[n] BY <1>2, <2>1 DEF Now
  <2>4. \A o \in Obj : o.ver \in Nat BY DEF Obj
  <2> QED BY <2>1, <2>2, <2>3, <2>4
<1>4. PICK new \in Obj : /\ hist' = Append(hist, [Now EXCEPT ![kind] = new])
                         /\ new = Nothing \/ new.ver = n + 1
  <2>1. PICK new \in IF Now[kind] = Nothing THEN {Object(n + 1, n + 1)}
                     ELSE {Nothing, Object(Now[kind].uid, n + 1)} :
           hist' = Append(hist, [Now EXCEPT ![kind] = new])
    BY <1>2 DEF Change
  <2>2. Object(n + 1, n + 1) \in Obj /\ Object(n + 1, n + 1).ver = n + 1
    BY <1>3 DEF Object, Obj
  <2>3. Now[kind] # Nothing =>
           /\ Object(Now[kind].uid, n + 1) \in Obj /\ Object(Now[kind].uid, n + 1).ver = n + 1
    <3>1. Now[kind] \in Obj BY <1>3
    <3>2. Now[kind] # Nothing => Now[kind].uid \in Nat \ {0} BY <3>1, NothingIs DEF Obj
    <3> QED BY <1>3, <3>2 DEF Object, Obj
  <2> QED BY <2>1, <2>2, <2>3, NothingIs
<1>15. PICK next : next = [Now EXCEPT ![kind] = new] OBVIOUS
<1>5. /\ next \in [Kinds -> Obj] /\ next[kind] = new
      /\ \A k \in Kinds \ {kind} : next[k] = hist[n][k]
  BY <1>3, <1>15
<1>6. /\ hist' \in Seq([Kinds -> Obj]) /\ Len(hist') = n + 1 /\ DOMAIN hist' = 1..(n + 1)
      /\ \A i \in 1..n : hist'[i] = hist[i]
      /\ hist'[n + 1] = next
  BY <1>2, <1>3, <1>4, <1>5, <1>15, AppendProperties
<1>7. \A k \in Kinds : /\ ds.listed[k] \in Nat /\ ds.listed[k] <= n
                       /\ ds.informer[k] \in Nat /\ ds.informer[k] <= n
  BY <1>0, <1>2 DEF Typed, Source
<1>8. Typed'
  <2>1. Len(hist') > 0 /\ \A k \in Kinds : /\ ds.listed[k] <= Len(hist')
                                           /\ ds.informer[k] <= Len(hist')
    BY <1>3, <1>6, <1>7
  <2> QED BY <1>0, <1>1, <1>6, <2>1 DEF Typed
<1>9. ASSUME NEW k \in Kinds, NEW j \in 1..n
      PROVE  /\ hist[j][k].ver <= j
             /\ \A i \in 1..n : i <= j =>
                   hist[j][k] = hist[i][k] \/ hist[j][k] = Nothing \/ hist[j][k].ver > i
  BY <1>3 DEF IInv, Grows
<1>10. ASSUME NEW k \in Kinds
       PROVE  /\ next[k].ver <= n + 1
              /\ \A i \in 1..n : next[k] = hist[i][k] \/ next[k] = Nothing \/ next[k].ver > i
  <2>1. CASE k = kind
    <3>1. next[k] = Nothing \/ next[k].ver = n + 1 BY <2>1, <1>4, <1>5
    <3> QED BY <3>1, <1>3, NothingIs
  <2>2. CASE k # kind
    <3>1. next[k] = hist[n][k] /\ n \in 1..n BY <2>2, <1>3, <1>5
    <3>2. hist[n][k].ver <= n /\ hist[n][k].ver \in Nat BY <3>1, <1>3, <1>9
    <3> QED BY <3>1, <3>2, <1>3, <1>9
  <2> QED BY <2>1, <2>2
<1>11. Grows'
  <2> SUFFICES ASSUME NEW k \in Kinds, NEW j \in 1..(n + 1)
               PROVE  /\ hist'[j][k].ver <= j
                      /\ \A i \in 1..(n + 1) : i <= j =>
                            \/ hist'[j][k] = hist'[i][k] \/ hist'[j][k] = Nothing
                            \/ hist'[j][k].ver > i
    BY <1>6 DEF Grows
  <2>1. CASE j \in 1..n
    <3>1. \A i \in 1..(n + 1) : i <= j => i \in 1..n BY <2>1, <1>3
    <3> QED BY <2>1, <3>1, <1>6, <1>9
  <2>2. CASE j = n + 1
    <3>1. \A i \in 1..(n + 1) : i \in 1..n \/ i = n + 1 BY <1>3
    <3> QED BY <2>2, <3>1, <1>6, <1>10
  <2> QED BY <2>1, <2>2, <1>3
<1>12. Ordered' /\ Order' /\ Reading'
  BY <1>1 DEF IInv, Ordered, Order, Reading
<1>13. Committed' BY <1>1 DEF IInv, Committed, Active, Fits
<1>14. Threshold'
  <2> SUFFICES ASSUME Active, NEW k \in Kinds, ds.listed[k] > 0
               PROVE  hist'[ds.listed[k]][k].ver <= ds.threshold
    BY <1>1 DEF Threshold, Active
  <2>1. ds.listed[k] \in 1..n BY <1>3, <1>7
  <2>2. hist[ds.listed[k]][k].ver <= ds.threshold BY DEF IInv, Threshold
  <2> QED BY <2>1, <2>2, <1>6
<1> QED BY <1>8, <1>11, <1>12, <1>13, <1>14 DEF IInv

\* A pass that ends with an invalid secret.
LEMMA InvalidKeeps == IInv /\ ReconcileInvalid => IInv'
<1> SUFFICES ASSUME IInv, ReconcileInvalid PROVE IInv' OBVIOUS
<1>1. UNCHANGED <<hist, db, ds, drains, off>>
      /\ cluster' = [cluster EXCEPT !.queued = FALSE, !.ignored = TRUE]
  BY DEF ReconcileInvalid
<1>2. cluster' \in MigClusters /\ cluster'.pruned = cluster.pruned
  BY <1>1 DEF IInv, Typed, MigClusters
<1>3. Typed' /\ Order' BY <1>1, <1>2 DEF IInv, Order, Typed
<1> QED BY <1>1, <1>3, AsideKeeps

\* The MigCluster may be made, deleted or queued again.
LEMMA TurnKeeps == IInv /\ Turn => IInv'
<1> SUFFICES ASSUME IInv, Turn PROVE IInv' OBVIOUS
<1>0. Typed BY DEF IInv
<1>1. UNCHANGED <<hist, db, ds, drains, off>> BY DEF Turn
<1>2. /\ cluster' \in MigClusters
      /\ cluster'.pruned = cluster.pruned
  <2>1. cluster \in MigClusters
    BY <1>0 DEF Typed
  <2>2. \/ cluster' = [cluster EXCEPT !.gen = cluster.made + 1, !.made = @ + 1, !.queued = TRUE]
        \/ \E g \in {0, cluster.gen} : cluster' = [cluster EXCEPT !.gen = g, !.queued = TRUE]
    BY DEF Turn
  <2>3. CASE cluster' = [cluster EXCEPT !.gen = cluster.made + 1, !.made = @ + 1, !.queued = TRUE]
    <3> cluster.made + 1 \in Nat BY <2>1 DEF MigClusters
    <3> QED BY <2>1, <2>3 DEF MigClusters
  <2>4. CASE \E g \in {0, cluster.gen} : cluster' = [cluster EXCEPT !.gen = g, !.queued = TRUE]
    <3>1. PICK g \in {0, cluster.gen} : cluster' = [cluster EXCEPT !.gen = g, !.queued = TRUE]
      BY <2>4
    <3> g \in Nat BY <2>1 DEF MigClusters
    <3> QED BY <2>1, <3>1 DEF MigClusters
  <2> QED BY <2>2, <2>3, <2>4
<1>3. Typed' BY <1>0, <1>1, <1>2 DEF Typed, MigClusters
<1>4. Order' BY <1>1, <1>2 DEF IInv, Order
<1> QED BY <1>1, <1>3, <1>4, AsideKeeps

-----------------------------------------------------------------------------
(* The invariant, and what it says of a step *)

\* Every step keeps the invariant.
LEMMA IInvNext == IInv /\ [Next]_vars => IInv'
<1> SUFFICES ASSUME IInv, [Next]_vars PROVE IInv' OBVIOUS
<1>1. CASE Sources
  BY <1>1, PruneKeeps, GoneKeeps, AddKeeps, ListKeeps, CommitKeeps, ApplyKeeps, DrainKeeps
     DEF Sources
<1>2. CASE Informers BY <1>2, InformerKeeps DEF Informers
<1>3. CASE \E kind \in Kinds : Change(kind) \/ InformerLists(kind)
  BY <1>3, ChangeKeeps, InformerKeeps
<1>4. CASE CollectionFails BY <1>4, FailsKeeps DEF CollectionFails
<1>5. CASE ReconcileInvalid \/ Turn \/ Crash BY <1>5, InvalidKeeps, TurnKeeps, CrashKeeps
<1>6. CASE UNCHANGED vars
  <2>1. UNCHANGED <<hist, cluster, db, ds, drains, off>> BY <1>6 DEF vars
  <2>2. Typed' /\ Order' BY <2>1 DEF IInv, Typed, Order
  <2> QED BY <2>1, <2>2, AsideKeeps
<1> QED BY <1>1, <1>2, <1>3, <1>4, <1>5, <1>6 DEF Next, Progress, World

\* The invariant holds in every state.
LEMMA IInvHolds == Spec => []IInv
<1> QED BY IInvInit, IInvNext, PTL DEF Spec

\* A row changes while a data source runs only when one of its events is applied.
LEMMA OnlyApply ==
    ASSUME IInv, [Next]_vars, ds.state = "running", ds'.state = "running", drains' = drains,
           ~Apply
    PROVE  db' = db
<1>1. CASE Sources
  <2>1. ~Prune BY DEF Prune, IInv, Order
  <2>2. ~ReconcileGone BY DEF ReconcileGone, NoSource
  <2>3. ~ReconcileAdd
    <3> SUFFICES ASSUME ReconcileAdd PROVE FALSE OBVIOUS
    <3>1. PICK new : new = [NoSource EXCEPT !.gen = cluster.gen] OBVIOUS
    <3>2. \/ ds' = [new EXCEPT !.state = "starting", !.manager = TRUE]
          \/ ds' = [new EXCEPT !.state = "failed"]
      BY <3>1 DEF ReconcileAdd
    <3>3. ds'.state \in {"starting", "failed"} BY <3>1, <3>2 DEF NoSource
    <3> QED BY <3>3
  <2>4. ~List /\ ~Commit BY DEF List, Commit, Starting
  <2>5. \A i : ~Drain(i) BY DrainFacts DEF IInv
  <2> QED BY <1>1, <2>1, <2>2, <2>3, <2>4, <2>5 DEF Sources
<1>2. CASE Informers BY <1>2 DEF Informers, InformerStarts, InformerTells
<1>3. CASE World
  BY <1>3 DEF World, Change, InformerLists, CollectionFails, StartFails, ReconcileInvalid, Turn, Crash
<1>4. CASE UNCHANGED vars BY <1>4 DEF vars
<1> QED BY <1>1, <1>2, <1>3, <1>4 DEF Next, Progress

\* RowsNeverBack: while a data source runs, none of its events puts a row back to
\* an earlier version, whatever was queued before, while or after the
\* collections were listed (model/model.go, container/datasource.go: the
\* threshold of applyEvents); excepted are the rows that off says may differ.
THEOREM RowsNeverBack == Spec => NeverBack
<1>1. IInv /\ [Next]_vars =>
         (ds.state = "running" /\ ds'.state = "running" /\ drains' = drains =>
            \A k \in Kinds : off[k] = {} /\ db'.rows[k].uid = db.rows[k].uid
                               => db'.rows[k].ver >= db.rows[k].ver)
  <2> SUFFICES ASSUME IInv, [Next]_vars, ds.state = "running", ds'.state = "running",
                      drains' = drains, NEW k \in Kinds, off[k] = {},
                      db'.rows[k].uid = db.rows[k].uid
               PROVE  db'.rows[k].ver >= db.rows[k].ver
    OBVIOUS
  <2>0. Typed /\ db.rows[k] \in Obj /\ db.rows[k].ver \in Nat /\ ds.threshold \in Nat
        /\ ds.channel \in Seq(Ev) /\ ds.gen \in Nat
    BY ChannelFacts DEF IInv, Typed, Source
  <2>1. CASE ~Apply
    <3> db' = db BY <2>1, OnlyApply
    <3> QED BY <2>0
  <2>2. CASE Apply
    <3>1. PICK event : event = Head(ds.channel) OBVIOUS
    <3>2. event \in Ev /\ event = ds.channel[1] /\ 1 \in DOMAIN ds.channel
      BY <2>0, <2>2, <3>1, HeadTailProperties DEF Apply
    <3>3. event.kind \in Kinds BY <3>2 DEF Ev
    <3>4. AfterEvent(ds.gen, event, ds.threshold) \in SUBSET Obj
      BY <2>0, <3>2, AfterEventFacts
    <3>5. db' = db \/ WriteRow(event.kind, AfterEvent(ds.gen, event, ds.threshold))
      BY <2>2, <3>1 DEF Apply
    <3>6. CASE db'.rows[k] = db.rows[k] BY <3>6, <2>0
    <3>7. CASE db'.rows[k] # db.rows[k]
      <4>1. k = event.kind /\ db'.rows[k] \in AfterEvent(ds.gen, event, ds.threshold)
        BY <2>0, <3>3, <3>4, <3>5, <3>7, WriteRowFacts
      <4>2. \/ db'.rows[k] = Nothing
            \/ db'.rows[k] = event.object /\ Upsert(event, k) /\ event.object.ver > ds.threshold
        BY <2>0, <3>2, <3>7, <4>1, AfterEventFacts
      <4>3. CASE db'.rows[k] = Nothing
        <5> db.rows[k].uid = 0 BY <4>3, NothingIs
        <5> QED BY <4>3, <3>7, <2>0, NothingIs
      <4>4. CASE /\ db'.rows[k] = event.object /\ Upsert(event, k)
                 /\ event.object.ver > ds.threshold
        <5>1. Fits(k)
          <6>1. PICK i \in DOMAIN Collections : Collections[i] = k BY KindsFacts
          <6>2. i < ds.at
            <7> ds.at \in Nat /\ ds.at > Len(Collections) BY DEF IInv, Order, Typed, Source
            <7> QED BY KindsFacts
          <6> QED BY <6>1, <6>2 DEF IInv, Committed, Active
        <5>2. event.object.ver \in Nat BY <2>0, <3>2, ChannelFacts
        <5>3. db.rows[k].ver <= event.object.ver
          BY <2>0, <3>2, <4>4, <5>1, <5>2 DEF Fits
        <5> QED BY <4>4, <5>2, <5>3, <2>0
      <4> QED BY <4>2, <4>3, <4>4
    <3> QED BY <3>6, <3>7
  <2> QED BY <2>1, <2>2
<1> QED BY <1>1, IInvHolds, PTL DEF Spec, NeverBack

-----------------------------------------------------------------------------
(* The stories of the channel *)

\* The object as of moment t; before the first moment there is none.
View(k, t) == IF t = 0 THEN Nothing ELSE hist[t][k]

\* An object has one version from a change to the next, one UID as long as it is
\* there, and is made where there was none.
Lives ==
    \A k \in Kinds : \A j \in DOMAIN hist :
        LET o == hist[j][k] IN
        \/ o = Nothing
        \/ /\ o.uid \in 1..o.ver /\ o.ver \in 1..j
           /\ \A m \in o.ver..j : hist[m][k] = o
           /\ \A m \in o.uid..j : hist[m][k].uid = o.uid
           /\ o.uid > 1 => hist[o.uid - 1][k] = Nothing

\* An informer goes from one moment to another and misses nothing that matters.
Jump(k, a, b) ==
    /\ a <= b
    /\ View(k, a) # Nothing /\ View(k, b) # Nothing => View(k, a).uid = View(k, b).uid
    /\ a <= ds.listed[k] /\ ds.listed[k] < b /\ ds.listed[k] > 0 =>
          View(k, ds.listed[k]).uid \in {0, View(k, a).uid, View(k, b).uid}
Silent(k, a, b) == Jump(k, a, b) /\ View(k, a) = View(k, b)
Loud(k, a, b, e) ==
    Jump(k, a, b) /\ View(k, a) # View(k, b) /\ <<e>> = Between(k, View(k, a), View(k, b))

\* The moments between the events of the channel, as its informer saw them.
Tells(k, when) ==
    LET n == Len(ds.channel) IN
    /\ when \in [0..(n + 1) -> 0..Len(hist)]
    /\ when[n + 1] = ds.informer[k]
    /\ Silent(k, when[n], when[n + 1])
    /\ \A i \in 1..n : IF ds.channel[i].kind = k
                       THEN Loud(k, when[i - 1], when[i], ds.channel[i])
                       ELSE Silent(k, when[i - 1], when[i])

\* A row is as the informer saw the object at moment a, or as it was listed.
Shows(k, row, a) ==
    LET found == View(k, ds.listed[k]) IN
    IF a > ds.listed[k] THEN row = View(k, a)
    ELSE row = found \/ (found = Nothing /\ row = View(k, a) /\ row.ver > ds.threshold)
Row(k, a) == Shows(k, db.rows[k], a)

Done(k) == Active /\ \E i \in DOMAIN Collections : i < ds.at /\ Collections[i] = k

\* The events of the channel lead from what the row shows to what the informer
\* has come to, and none of them counts before the lists are complete.
Story(k) ==
    off[k] = {} =>
        \E when \in [0..(Len(ds.channel) + 1) -> 0..Len(hist)] :
            /\ Tells(k, when)
            /\ ds.state # "running" => when[0] = 0
            /\ Done(k) => Row(k, when[0])

\* The rows are those of the MigCluster the data source is for.
Tie ==
    /\ Active => /\ db.cluster = ds.gen
                 /\ ~cluster.queued /\ ~cluster.ignored => ds.gen = cluster.gen
    /\ db.cluster = 0 => \A k \in Kinds : db.rows[k] = Nothing
    /\ cluster.gen = 0 /\ ~cluster.queued /\ cluster.pruned => cluster.barred \/ db.cluster = 0
    /\ \A i \in DOMAIN drains : drains[i].gen # 0
    /\ ds.state # "none" => ds.gen # 0
    /\ ds.state = "none" => ds = NoSource

Stories == \A k \in Kinds : Story(k)
FInv == Lives /\ Tie /\ Stories

-----------------------------------------------------------------------------
(* What an informer may see *)

\* There is an object, or none, at every moment.
LEMMA ViewIs ==
    ASSUME Typed, NEW k \in Kinds
    PROVE  /\ Len(hist) \in Nat \ {0} /\ DOMAIN hist = 1..Len(hist)
           /\ View(k, 0) = Nothing
           /\ \A t \in 1..Len(hist) : View(k, t) = hist[t][k]
           /\ \A t \in 0..Len(hist) : View(k, t) \in Obj
           /\ View(k, Len(hist)) = Now[k]
           /\ ds.listed[k] \in 0..Len(hist) /\ ds.informer[k] \in 0..Len(hist)
<1>1. hist \in Seq([Kinds -> Obj]) /\ Len(hist) \in Nat \ {0} /\ DOMAIN hist = 1..Len(hist)
  BY DEF Typed
<1>2. \A t \in 1..Len(hist) : hist[t][k] \in Obj BY <1>1
<1>3. View(k, 0) = Nothing BY DEF View
<1>4. \A t \in 1..Len(hist) : View(k, t) = hist[t][k] BY DEF View
<1>5. \A t \in 0..Len(hist) : t = 0 \/ t \in 1..Len(hist) BY <1>1
<1>6. \A t \in 0..Len(hist) : View(k, t) \in Obj BY <1>2, <1>3, <1>4, <1>5, NothingIs
<1>7. View(k, Len(hist)) = Now[k] BY <1>1 DEF View, Now
<1>8. ds.listed[k] \in 0..Len(hist) /\ ds.informer[k] \in 0..Len(hist)
  BY <1>1, ChannelFacts DEF Typed
<1> QED BY <1>1, <1>3, <1>4, <1>6, <1>7, <1>8

\* What a later moment shows is what an earlier one showed, or newer.
LEMMA LivesFacts ==
    ASSUME Typed, Lives, NEW k \in Kinds, NEW b \in 0..Len(hist), NEW a \in 0..b
    PROVE  /\ View(k, a) \in Obj /\ View(k, b) \in Obj
           /\ View(k, b).uid <= View(k, b).ver /\ View(k, b).ver <= b
           /\ View(k, b) # Nothing /\ View(k, b).ver <= a => View(k, a) = View(k, b)
           /\ View(k, b) # Nothing /\ View(k, b).uid <= a => View(k, a).uid = View(k, b).uid
           /\ b > 0 /\ View(k, b) # Nothing /\ View(k, b).uid = b /\ b > 1
                 => View(k, b - 1) = Nothing
<1>1. /\ Len(hist) \in Nat \ {0} /\ DOMAIN hist = 1..Len(hist)
      /\ View(k, 0) = Nothing /\ \A t \in 1..Len(hist) : View(k, t) = hist[t][k]
      /\ \A t \in 0..Len(hist) : View(k, t) \in Obj
  BY ViewIs
<1>2. a \in Nat /\ b \in Nat /\ a <= b /\ a \in 0..Len(hist) BY <1>1
<1>3. View(k, a) \in Obj /\ View(k, b) \in Obj BY <1>1, <1>2
<1>4. CASE View(k, b) = Nothing BY <1>2, <1>3, <1>4, NothingIs
<1>5. CASE View(k, b) # Nothing
  <2>1. b \in 1..Len(hist) /\ b - 1 \in 0..Len(hist) BY <1>1, <1>2, <1>5
  <2>2. PICK o \in Obj : o = hist[b][k] /\ o = View(k, b) BY <1>1, <1>3, <2>1
  <2>3. /\ o.uid \in 1..o.ver /\ o.ver \in 1..b
        /\ \A m \in o.ver..b : hist[m][k] = o
        /\ \A m \in o.uid..b : hist[m][k].uid = o.uid
        /\ o.uid > 1 => hist[o.uid - 1][k] = Nothing
    BY <1>1, <1>5, <2>1, <2>2 DEF Lives
  <2>4. o.uid \in Nat \ {0} /\ o.ver \in Nat \ {0} /\ o.uid <= o.ver /\ o.ver <= b
    BY <1>2, <2>2, <2>3 DEF Obj
  <2>5. o.ver <= a => View(k, a) = o
    <3> SUFFICES ASSUME o.ver <= a PROVE View(k, a) = o OBVIOUS
    <3> a \in 1..Len(hist) /\ a \in o.ver..b BY <1>2, <2>4
    <3> QED BY <1>1, <2>3
  <2>6. o.uid <= a => View(k, a).uid = o.uid
    <3> SUFFICES ASSUME o.uid <= a PROVE View(k, a).uid = o.uid OBVIOUS
    <3> a \in 1..Len(hist) /\ a \in o.uid..b BY <1>2, <2>4
    <3> QED BY <1>1, <2>3
  <2>7. o.uid = b /\ b > 1 => View(k, b - 1) = Nothing
    <3> SUFFICES ASSUME o.uid = b, b > 1 PROVE View(k, b - 1) = Nothing OBVIOUS
    <3> b - 1 \in 1..Len(hist) BY <1>1, <2>1
    <3> QED BY <1>1, <2>3
  <2> QED BY <1>3, <2>2, <2>4, <2>5, <2>6, <2>7
<1> QED BY <1>4, <1>5

\* Of two moments the later one shows the newer version; an object that is there at
\* both was there all the time.
LEMMA LivesOrder ==
    ASSUME Typed, Lives, NEW k \in Kinds, NEW b \in 0..Len(hist), NEW a \in 0..b,
           View(k, a) # Nothing, View(k, b) # Nothing
    PROVE  /\ View(k, a).ver <= View(k, b).ver
           /\ View(k, a).uid = View(k, b).uid =>
                 \A c \in a..b : View(k, c).uid = View(k, a).uid
<1>1. a \in Nat /\ b \in Nat /\ a <= b /\ a \in 0..Len(hist) /\ a \in 0..a BY ViewIs
<1>2. /\ View(k, a) \in Obj /\ View(k, b) \in Obj
      /\ View(k, b).uid <= View(k, b).ver /\ View(k, b).ver <= b
      /\ View(k, b).ver <= a => View(k, a) = View(k, b)
  BY LivesFacts
<1>3. View(k, a).uid <= View(k, a).ver /\ View(k, a).ver <= a BY <1>1, LivesFacts
<1>4. \A o \in Obj : o.uid \in Nat /\ o.ver \in Nat BY DEF Obj
<1>5. View(k, a).ver <= View(k, b).ver BY <1>1, <1>2, <1>3, <1>4
<1>6. ASSUME View(k, a).uid = View(k, b).uid, NEW c \in a..b
      PROVE  View(k, c).uid = View(k, a).uid
  <2>1. c \in 0..b /\ View(k, b).uid <= c BY <1>1, <1>2, <1>3, <1>4, <1>6
  <2>2. View(k, c).uid = View(k, b).uid BY <2>1, LivesFacts
  <2> QED BY <1>6, <2>2
<1> QED BY <1>5, <1>6

\* Nothing happens between a moment and itself.
LEMMA SilentAlone ==
    ASSUME Typed, NEW k \in Kinds, NEW a \in 0..Len(hist)
    PROVE  Silent(k, a, a)
<1> a \in Nat /\ ds.listed[k] \in Nat BY ViewIs
<1> QED BY DEF Silent, Jump

\* A silent step adds nothing to the one after it.
LEMMA SilentThen ==
    ASSUME Typed, NEW k \in Kinds, NEW a \in 0..Len(hist), NEW b \in 0..Len(hist),
           NEW c \in 0..Len(hist), Silent(k, a, b), Jump(k, b, c)
    PROVE  Jump(k, a, c)
<1>1. a \in Nat /\ b \in Nat /\ c \in Nat /\ ds.listed[k] \in Nat BY ViewIs
<1>2. a <= b /\ b <= c /\ View(k, a) = View(k, b) BY DEF Silent, Jump
<1>3. View(k, a) # Nothing /\ View(k, c) # Nothing => View(k, a).uid = View(k, c).uid
  BY <1>2 DEF Jump
<1>4. ASSUME a <= ds.listed[k], ds.listed[k] < c, ds.listed[k] > 0
      PROVE  View(k, ds.listed[k]).uid \in {0, View(k, a).uid, View(k, c).uid}
  <2>1. CASE ds.listed[k] < b BY <1>2, <1>4, <2>1 DEF Silent, Jump
  <2>2. CASE b <= ds.listed[k] BY <1>2, <1>4, <2>2 DEF Jump
  <2> QED BY <1>1, <2>1, <2>2
<1> QED BY <1>1, <1>2, <1>3, <1>4 DEF Jump

\* The row after an event of its collection has been applied to it.
Applied(row, e, threshold) ==
    IF ~Applies(e, threshold) THEN row
    ELSE IF e.op = "delete" THEN Deleted(row, e.object)
    ELSE IF (e.op = "create" /\ row = Nothing) \/ row.uid = e.object.uid THEN e.object
    ELSE row

\* What WriteRow makes of the rows is what an event does to its own row.
LEMMA AppliedRow ==
    ASSUME Typed, NEW e \in Ev, db.cluster = ds.gen,
           WriteRow(e.kind, AfterEvent(ds.gen, e, ds.threshold))
    PROVE  /\ db'.rows[e.kind] = Applied(db.rows[e.kind], e, ds.threshold)
           /\ db'.cluster = db.cluster
           /\ \A k \in Kinds : k # e.kind => db'.rows[k] = db.rows[k]
<1>0. e.kind \in Kinds /\ e.op \in {"create", "update", "delete"} /\ ds.threshold \in Nat
  BY ChannelFacts DEF Ev
<1>1. PICK row : row = db.rows[e.kind] OBVIOUS
<1>2. PICK rows : rows = AfterEvent(ds.gen, e, ds.threshold) OBVIOUS
<1>3. AfterEvent(ds.gen, e, ds.threshold) \in SUBSET Obj BY <1>0, AfterEventFacts
<1>4. \/ rows = {} /\ Applied(row, e, ds.threshold) = row
      \/ rows = {Applied(row, e, ds.threshold)}
  <2>1. CASE ~Applies(e, ds.threshold)
    BY <2>1, <1>1, <1>2 DEF AfterEvent, Applied
  <2>2. CASE Applies(e, ds.threshold) /\ e.op = "create"
    BY <2>2, <1>1, <1>2 DEF AfterEvent, Applied, Inserted, Updated
  <2>3. CASE Applies(e, ds.threshold) /\ e.op = "update"
    BY <2>3, <1>1, <1>2 DEF AfterEvent, Applied, Updated
  <2>4. CASE Applies(e, ds.threshold) /\ e.op = "delete"
    BY <2>4, <1>1, <1>2 DEF AfterEvent, Applied
  <2> QED BY <1>0, <2>1, <2>2, <2>3, <2>4
<1>5. /\ db'.cluster = db.cluster
      /\ \A k \in Kinds : k # e.kind => db'.rows[k] = db.rows[k]
  BY <1>0, <1>3, WriteRowFacts
<1>6. CASE rows = {} /\ Applied(row, e, ds.threshold) = row
  <2>1. db' = db BY <1>2, <1>6 DEF WriteRow
  <2> QED BY <2>1, <1>1, <1>5, <1>6
<1>7. CASE rows = {Applied(row, e, ds.threshold)}
  <2>1. PICK new : new = Applied(row, e, ds.threshold) OBVIOUS
  <2>2. (CHOOSE r \in {new} : TRUE) = new OBVIOUS
  <2>3. db' = [db EXCEPT !.rows[e.kind] = new] BY <1>2, <1>7, <2>1, <2>2 DEF WriteRow
  <2>4. db'.rows[e.kind] = new BY <1>0, <2>3 DEF Typed
  <2> QED BY <1>1, <1>5, <2>1, <2>4
<1> QED BY <1>4, <1>6, <1>7

\* What is known of the row and of the list when a collection is done.
Known(k) ==
    /\ Typed /\ Lives
    /\ ds.listed[k] > 0 /\ View(k, ds.listed[k]).ver <= ds.threshold

\* A row that showed a moment shows every later one at which nothing has happened.
LEMMA RowCarried ==
    ASSUME NEW k \in Kinds, Known(k), NEW a \in 0..Len(hist), NEW b \in 0..Len(hist),
           Row(k, a), Silent(k, a, b)
    PROVE  Row(k, b)
<1> DEFINE l == ds.listed[k]
<1>0. Typed /\ Lives /\ l > 0 BY DEF Known
<1>1. a \in Nat /\ b \in Nat /\ l \in Nat /\ l \in 0..Len(hist) BY <1>0, ViewIs
<1>2. a <= b /\ View(k, a) = View(k, b) BY DEF Silent, Jump
<1>3. PICK v : v = View(k, b) OBVIOUS
<1>4. PICK found : found = View(k, l) OBVIOUS
<1>5. v \in Obj /\ found \in Obj BY <1>0, <1>1, <1>3, <1>4, ViewIs
<1>6. \A o \in Obj : o.uid \in Nat /\ o.ver \in Nat /\ (o = Nothing <=> o.uid = 0)
  BY NothingIs DEF Obj
<1>7. CASE b <= l \/ a > l BY <1>1, <1>2, <1>7 DEF Row, Shows
<1>8. CASE a <= l /\ l < b
  <2>1. db.rows[k] = found \/ (found = Nothing /\ db.rows[k] = v)
    BY <1>1, <1>2, <1>3, <1>4, <1>8 DEF Row, Shows
  <2>2. found.uid \in {0, v.uid}
    BY <1>0, <1>2, <1>3, <1>4, <1>8 DEF Silent, Jump
  <2>3. v # Nothing => v.uid <= a /\ v.ver <= a
    <3>1. a \in 0..a /\ a \in 0..Len(hist) BY <1>1
    <3>2. v.uid <= v.ver /\ v.ver <= a BY <1>0, <1>2, <1>3, <3>1, LivesFacts
    <3> QED BY <1>1, <1>5, <1>6, <3>2
  <2>4. l \in 0..b BY <1>1, <1>8
  <2>5. v # Nothing => found = v
    <3> SUFFICES ASSUME v # Nothing PROVE found = v OBVIOUS
    <3>1. v.ver <= l BY <1>1, <1>5, <1>6, <1>8, <2>3
    <3> QED BY <1>0, <1>3, <1>4, <2>4, <3>1, LivesFacts
  <2>6. v = Nothing => found = v BY <1>5, <1>6, <2>2
  <2>7. db.rows[k] = v BY <2>1, <2>5, <2>6
  <2> QED BY <1>3, <1>8, <2>7 DEF Row, Shows
<1> QED BY <1>1, <1>7, <1>8

\* A loud step is one event, of an object made, gone or newer.
LEMMA LoudIs ==
    ASSUME Typed, NEW k \in Kinds, NEW a \in 0..Len(hist), NEW b \in 0..Len(hist),
           NEW e, Loud(k, a, b, e)
    PROVE  LET old == View(k, a)
               new == View(k, b)
           IN  /\ old # new
               /\ \/ old = Nothing /\ new # Nothing /\ e.op = "create" /\ e.object = new
                  \/ old # Nothing /\ new = Nothing /\ e.op = "delete" /\ e.object = old
                  \/ /\ old # Nothing /\ new # Nothing /\ old.uid = new.uid
                     /\ e.op = "update" /\ e.object = new
<1>1. PICK old : old = View(k, a) OBVIOUS
<1>2. PICK new : new = View(k, b) OBVIOUS
<1>3. old # new /\ <<e>> = Between(k, old, new) BY <1>1, <1>2 DEF Loud
<1>4. old # Nothing /\ new # Nothing => old.uid = new.uid BY <1>1, <1>2 DEF Loud, Jump
<1>5. CASE old = Nothing BY <1>1, <1>2, <1>3, <1>5 DEF Between, Event
<1>6. CASE old # Nothing /\ new = Nothing BY <1>1, <1>2, <1>3, <1>6 DEF Between, Event
<1>7. CASE old # Nothing /\ new # Nothing
  BY <1>1, <1>2, <1>3, <1>4, <1>7 DEF Between, Event
<1> QED BY <1>5, <1>6, <1>7

\* A row that showed the moment before an event shows the moment after it, once
\* the event has been applied, unless the event is one that came too late.
LEMMA RowApplied ==
    ASSUME NEW k \in Kinds, Known(k), NEW a \in 0..Len(hist), NEW b \in 0..Len(hist),
           NEW e \in Ev, Row(k, a), Loud(k, a, b, e),
           ~(~Applies(e, ds.threshold) /\ e.object.ver > ds.listed[k])
    PROVE  Shows(k, Applied(db.rows[k], e, ds.threshold), b)
<1>0. Typed /\ Lives /\ ds.listed[k] > 0 BY DEF Known
<1>1. PICK l : l = ds.listed[k] OBVIOUS
<1>2. PICK t : t = ds.threshold OBVIOUS
<1>3. PICK old : old = View(k, a) OBVIOUS
<1>4. PICK new : new = View(k, b) OBVIOUS
<1>5. PICK found : found = View(k, l) OBVIOUS
<1>6. PICK was : was = db.rows[k] OBVIOUS
<1>7. PICK row : row = Applied(was, e, t) OBVIOUS
<1>8. /\ a \in Nat /\ b \in Nat /\ l \in Nat /\ l \in 0..Len(hist) /\ t \in Nat
      /\ old \in Obj /\ new \in Obj /\ found \in Obj /\ l > 0
  BY <1>0, <1>1, <1>2, <1>3, <1>4, <1>5, ViewIs, ChannelFacts
<1>9. \A o \in Obj : o.uid \in Nat /\ o.ver \in Nat /\ (o = Nothing <=> o.uid = 0)
  BY NothingIs DEF Obj
<1>10. found.ver <= t BY <1>1, <1>2, <1>5 DEF Known
<1>11. a <= b
       /\ (a <= l /\ l < b => found.uid \in {0, old.uid, new.uid})
  BY <1>0, <1>1, <1>3, <1>4, <1>5 DEF Loud, Jump
<1>12. IF a > l THEN was = old
       ELSE was = found \/ (found = Nothing /\ was = old /\ was.ver > t)
  BY <1>1, <1>2, <1>3, <1>5, <1>6 DEF Row, Shows
<1>13. old # new
       /\ \/ old = Nothing /\ new # Nothing /\ e.op = "create" /\ e.object = new
          \/ old # Nothing /\ new = Nothing /\ e.op = "delete" /\ e.object = old
          \/ /\ old # Nothing /\ new # Nothing /\ old.uid = new.uid
             /\ e.op = "update" /\ e.object = new
  BY <1>0, <1>3, <1>4, LoudIs
<1>14. e.op = "delete" \/ e.object.ver > t \/ e.object.ver <= l
  <2>1. e.object.ver \in Nat BY DEF Ev, Obj
  <2> QED BY <2>1, <1>1, <1>2, <1>8 DEF Applies
<1>15. row = IF ~(e.op = "delete" \/ e.object.ver > t) THEN was
             ELSE IF e.op = "delete" THEN IF was.uid = e.object.uid THEN Nothing ELSE was
             ELSE IF (e.op = "create" /\ was = Nothing) \/ was.uid = e.object.uid THEN e.object
             ELSE was
  BY <1>7 DEF Applied, Applies, Deleted
<1> DEFINE Goal == IF b > l THEN row = new
                   ELSE row = found \/ (found = Nothing /\ row = new /\ row.ver > t)
<1> SUFFICES Goal BY <1>1, <1>2, <1>4, <1>5, <1>6, <1>7 DEF Shows
<1>16. ASSUME new # Nothing, l < b, new.ver <= l PROVE found = new
  <2> l \in 0..b BY <1>8, <1>16
  <2> QED BY <1>0, <1>4, <1>5, <1>16, LivesFacts
<1>17. ASSUME new # Nothing, new.ver <= a PROVE old = new
  <2> a \in 0..b BY <1>8, <1>11
  <2> QED BY <1>0, <1>3, <1>4, <1>17, LivesFacts
<1>18. new # Nothing => new.ver <= b
  <2> b \in 0..b BY <1>8
  <2> QED BY <1>0, <1>4, LivesFacts
<1>19. ASSUME old # Nothing, new # Nothing PROVE old.ver <= new.ver
  <2> a \in 0..b BY <1>8, <1>11
  <2> QED BY <1>0, <1>3, <1>4, <1>19, LivesOrder
<1>20. ASSUME old # Nothing, new # Nothing, old.uid = new.uid, a <= l, l <= b
       PROVE  found.uid = old.uid
  <2> a \in 0..b /\ l \in a..b BY <1>8, <1>11, <1>20
  <2> QED BY <1>0, <1>3, <1>4, <1>5, <1>20, LivesOrder
<1>21. ASSUME b <= l, found # Nothing, new # Nothing PROVE new.ver <= found.ver
  <2> b \in 0..l BY <1>8, <1>21
  <2> QED BY <1>0, <1>4, <1>5, <1>8, <1>21, LivesOrder
<1>22. ASSUME b <= l, found # Nothing, old # Nothing, found.uid = old.uid
       PROVE  new.uid = old.uid
  <2> a \in 0..l /\ b \in a..l BY <1>8, <1>11, <1>22
  <2> QED BY <1>0, <1>3, <1>4, <1>5, <1>8, <1>22, LivesOrder
<1>23. CASE old = Nothing /\ new # Nothing /\ e.op = "create" /\ e.object = new
  <2>1. CASE b <= l
    BY <2>1, <1>8, <1>9, <1>10, <1>11, <1>12, <1>15, <1>21, <1>23, SMTT(30)
  <2>2. CASE a <= l /\ l < b
    BY <2>2, <1>8, <1>9, <1>10, <1>11, <1>12, <1>14, <1>15, <1>16, <1>23, SMTT(30)
  <2>3. CASE a > l
    BY <2>3, <1>8, <1>9, <1>11, <1>12, <1>13, <1>14, <1>15, <1>17, <1>23, SMTT(30)
  <2> QED BY <1>8, <2>1, <2>2, <2>3
<1>24. CASE old # Nothing /\ new = Nothing /\ e.op = "delete" /\ e.object = old
  <2>1. CASE b <= l
    BY <2>1, <1>8, <1>9, <1>11, <1>12, <1>15, <1>22, <1>24, SMTT(30)
  <2>2. CASE a <= l /\ l < b
    BY <2>2, <1>8, <1>9, <1>11, <1>12, <1>15, <1>24, SMTT(30)
  <2>3. CASE a > l
    BY <2>3, <1>8, <1>9, <1>11, <1>12, <1>15, <1>24, SMTT(30)
  <2> QED BY <1>8, <2>1, <2>2, <2>3
<1>25. CASE /\ old # Nothing /\ new # Nothing /\ old.uid = new.uid
            /\ e.op = "update" /\ e.object = new
  <2>1. CASE b <= l
    BY <2>1, <1>8, <1>9, <1>10, <1>11, <1>12, <1>15, <1>19, <1>21, <1>25, SMTT(30)
  <2>2. CASE a <= l /\ l < b
    BY <2>2, <1>8, <1>9, <1>11, <1>12, <1>14, <1>15, <1>16, <1>20, <1>25, SMTT(30)
  <2>3. CASE a > l
    BY <2>3, <1>8, <1>9, <1>11, <1>12, <1>13, <1>14, <1>15, <1>17, <1>25, SMTT(30)
  <2> QED BY <1>8, <2>1, <2>2, <2>3
<1> QED BY <1>13, <1>23, <1>24, <1>25

-----------------------------------------------------------------------------
(* What the channel tells *)

\* What has been stays; a collection is listed at the last moment.
Kept(k) ==
    /\ Len(hist) <= Len(hist')
    /\ \A t \in 0..Len(hist) : View(k, t)' = View(k, t)
    /\ ds'.listed[k] \in {ds.listed[k], Len(hist)}

\* Steps of an informer stay what they are.
LEMMA StepKept ==
    ASSUME Typed, NEW k \in Kinds, Kept(k), NEW a \in 0..Len(hist), NEW b \in 0..Len(hist)
    PROVE  /\ Jump(k, a, b) => Jump(k, a, b)'
           /\ Silent(k, a, b) => Silent(k, a, b)'
           /\ \A e : Loud(k, a, b, e) => Loud(k, a, b, e)'
<1>1. /\ Len(hist) \in Nat /\ a \in Nat /\ b \in Nat /\ b <= Len(hist)
      /\ ds.listed[k] \in 0..Len(hist)
  BY ViewIs
<1>2. View(k, a)' = View(k, a) /\ View(k, b)' = View(k, b) BY DEF Kept
<1>3. ASSUME Jump(k, a, b) PROVE Jump(k, a, b)'
  <2>1. a <= b /\ (View(k, a)' # Nothing /\ View(k, b)' # Nothing
                      => View(k, a)'.uid = View(k, b)'.uid)
    BY <1>2, <1>3 DEF Jump
  <2>2. CASE ds'.listed[k] = Len(hist)
    <3> ~(ds'.listed[k] < b) BY <1>1, <2>2
    <3> QED BY <2>1 DEF Jump
  <2>3. CASE ds'.listed[k] = ds.listed[k]
    <3>1. PICK l \in 0..Len(hist) : l = ds.listed[k] /\ l = ds'.listed[k] BY <1>1, <2>3
    <3>2. View(k, l)' = View(k, l) BY DEF Kept
    <3>3. a <= l /\ l < b /\ l > 0 =>
             View(k, l)'.uid \in {0, View(k, a)'.uid, View(k, b)'.uid}
      BY <1>2, <1>3, <3>1, <3>2 DEF Jump
    <3>4. View(k, ds.listed[k])' = View(k, l)' BY <3>1 DEF View
    <3> QED BY <2>1, <3>1, <3>3, <3>4 DEF Jump
  <2> QED BY <2>2, <2>3 DEF Kept
<1>4. Silent(k, a, b) => Silent(k, a, b)' BY <1>2, <1>3 DEF Silent
<1>5. ASSUME NEW e, Loud(k, a, b, e) PROVE Loud(k, a, b, e)'
  <2>1. View(k, a) # View(k, b) /\ <<e>> = Between(k, View(k, a), View(k, b))
    BY <1>5 DEF Loud
  <2>2. Jump(k, a, b)' BY <1>3, <1>5 DEF Loud
  <2>3. View(k, a)' # View(k, b)' /\ <<e>> = Between(k, View(k, a)', View(k, b)')
    BY <1>2, <2>1
  <2> QED BY <2>2, <2>3 DEF Loud
<1> QED BY <1>3, <1>4, <1>5

\* What an informer has told stays told.
LEMMA TellsKept ==
    ASSUME Typed, NEW k \in Kinds, Kept(k), ds'.channel = ds.channel, Len(hist') \in Nat,
           ds'.informer[k] = ds.informer[k], NEW when, Tells(k, when)
    PROVE  Tells(k, when)'
<1>1. PICK n : n = Len(ds.channel) OBVIOUS
<1>2. n \in Nat /\ Len(hist) \in Nat BY <1>1, ChannelFacts, ViewIs
<1>3. /\ when \in [0..(n + 1) -> 0..Len(hist)] /\ when[n + 1] = ds.informer[k]
      /\ Silent(k, when[n], when[n + 1])
      /\ \A i \in 1..n : IF ds.channel[i].kind = k
                         THEN Loud(k, when[i - 1], when[i], ds.channel[i])
                         ELSE Silent(k, when[i - 1], when[i])
  BY <1>1 DEF Tells
<1>4. \A i \in 0..(n + 1) : when[i] \in 0..Len(hist) BY <1>3
<1>5. when \in [0..(n + 1) -> 0..Len(hist')]
  <2> 0..Len(hist) \subseteq 0..Len(hist') BY <1>2 DEF Kept
  <2> QED BY <1>3
<1>6. Silent(k, when[n], when[n + 1])'
  <2> n \in 0..(n + 1) /\ n + 1 \in 0..(n + 1) BY <1>2
  <2> QED BY <1>3, <1>4, StepKept
<1>7. ASSUME NEW i \in 1..n
      PROVE  (IF ds.channel[i].kind = k
              THEN Loud(k, when[i - 1], when[i], ds.channel[i])
              ELSE Silent(k, when[i - 1], when[i]))'
  <2>1. i - 1 \in 0..(n + 1) /\ i \in 0..(n + 1) BY <1>2
  <2>2. when[i - 1] \in 0..Len(hist) /\ when[i] \in 0..Len(hist) BY <1>4, <2>1
  <2>3. PICK e : e = ds.channel[i] /\ e = ds'.channel[i] OBVIOUS
  <2>4. CASE e.kind = k
    <3>1. Loud(k, when[i - 1], when[i], e) BY <1>3, <2>3, <2>4
    <3>2. Loud(k, when[i - 1], when[i], e)' BY <2>2, <3>1, StepKept
    <3>3. Loud(k, when[i - 1], when[i], ds.channel[i])' BY <2>3, <3>2 DEF Loud
    <3> QED BY <2>3, <2>4, <3>3
  <2>5. CASE e.kind # k
    <3>1. Silent(k, when[i - 1], when[i]) BY <1>3, <2>3, <2>5
    <3> QED BY <2>2, <2>3, <2>5, <3>1, StepKept
  <2> QED BY <2>4, <2>5
<1>8. Len(ds.channel)' = n /\ ds'.informer[k] = when[n + 1] BY <1>1, <1>3
<1> QED BY <1>5, <1>6, <1>7, <1>8 DEF Tells

\* A step aside of the channel of a collection keeps its story.
LEMMA StoryKept ==
    ASSUME IInv, Typed', NEW k \in Kinds, Kept(k), Story(k),
           ds'.channel = ds.channel, ds'.informer[k] = ds.informer[k],
           ds'.listed[k] = ds.listed[k], ds'.threshold = ds.threshold,
           ds'.state = ds.state, ds'.at = ds.at, off[k] \subseteq off'[k],
           Active => db'.rows[k] = db.rows[k] \/ ds.listed[k] = 0 \/ off'[k] # {}
    PROVE  Story(k)'
<1> SUFFICES ASSUME off'[k] = {}
             PROVE  \E when \in [0..(Len(ds.channel) + 1) -> 0..Len(hist)]' :
                       /\ Tells(k, when)'
                       /\ ds'.state # "running" => when[0] = 0
                       /\ Done(k)' => Row(k, when[0])'
  BY DEF Story
<1>0. Typed BY DEF IInv
<1>1. PICK when \in [0..(Len(ds.channel) + 1) -> 0..Len(hist)] :
         /\ Tells(k, when)
         /\ ds.state # "running" => when[0] = 0
         /\ Done(k) => Row(k, when[0])
  BY DEF Story
<1>2. Len(hist') \in Nat BY DEF Typed
<1>3. Tells(k, when)' BY <1>0, <1>1, <1>2, TellsKept
<1>4. when \in [0..(Len(ds.channel) + 1) -> 0..Len(hist)]' BY <1>3 DEF Tells
<1>5. PICK a \in 0..Len(hist) : a = when[0]
  <2>1. Len(ds.channel) \in Nat BY <1>0, ChannelFacts
  <2>2. 0 \in 0..(Len(ds.channel) + 1) BY <2>1
  <2> QED BY <1>1, <2>2
<1>6. ASSUME Done(k)' PROVE Row(k, a)'
  <2>1. Done(k) BY <1>6 DEF Done, Active
  <2>2. ds.listed[k] # 0
    <3>1. ds.listed[k] > 0 /\ ds.listed[k] \in Nat
      BY <1>0, <2>1, ViewIs DEF IInv, Committed, Done
    <3> QED BY <3>1
  <2>3. db'.rows[k] = db.rows[k] BY <2>1, <2>2 DEF Done
  <2>4. PICK l \in 0..Len(hist) : l = ds.listed[k] /\ l = ds'.listed[k] BY <1>0, ViewIs
  <2>5. View(k, l)' = View(k, l) /\ View(k, a)' = View(k, a) BY DEF Kept
  <2>6. View(k, ds.listed[k])' = View(k, l)' BY <2>4 DEF View
  <2>7. Row(k, a) BY <1>1, <1>5, <2>1
  <2> QED BY <2>3, <2>4, <2>5, <2>6, <2>7 DEF Row, Shows
<1>7. Done(k)' => Row(k, when[0])' BY <1>5, <1>6 DEF Row, Shows, View
<1> QED BY <1>1, <1>3, <1>4, <1>7

\* While the collections are listed, a row that is done is as it was listed.
LEMMA RowEarly ==
    ASSUME Typed, NEW k \in Kinds, Story(k), ds.state = "starting", off[k] = {}, Done(k)
    PROVE  db.rows[k] = View(k, ds.listed[k])
<1>1. Row(k, 0) BY DEF Story
<1>2. View(k, 0) = Nothing /\ Nothing.ver = 0 /\ ds.listed[k] \in Nat /\ ds.threshold \in Nat
  BY ViewIs, NothingIs, ChannelFacts
<1> QED BY <1>1, <1>2 DEF Row, Shows

\* A step of the lists keeps the story, if the rows that are done are as listed.
LEMMA StoryEarly ==
    ASSUME Typed, Typed', NEW k \in Kinds, Kept(k), Story(k), ds.state = "starting",
           ds'.channel = ds.channel, ds'.informer[k] = ds.informer[k], off' = off,
           Done(k)' /\ off[k] = {} => db'.rows[k] = View(k, ds.listed[k])'
    PROVE  Story(k)'
<1> SUFFICES ASSUME off'[k] = {}
             PROVE  \E when \in [0..(Len(ds.channel) + 1) -> 0..Len(hist)]' :
                       /\ Tells(k, when)'
                       /\ ds'.state # "running" => when[0] = 0
                       /\ Done(k)' => Row(k, when[0])'
  BY DEF Story
<1>1. PICK when \in [0..(Len(ds.channel) + 1) -> 0..Len(hist)] :
         Tells(k, when) /\ when[0] = 0
  BY DEF Story
<1>2. Len(hist') \in Nat BY DEF Typed
<1>3. Tells(k, when)' BY <1>1, <1>2, TellsKept
<1>4. when \in [0..(Len(ds.channel) + 1) -> 0..Len(hist)]' BY <1>3 DEF Tells
<1>5. Done(k)' => Row(k, 0)'
  <2>1. ds'.listed[k] \in Nat BY ChannelFacts DEF Typed, Source
  <2> QED BY <2>1 DEF Row, Shows
<1>6. Done(k)' => Row(k, when[0])' BY <1>1, <1>5
<1> QED BY <1>1, <1>3, <1>4, <1>6

\* A data source that has just been made, or is none, has nothing to tell.
LEMMA StoryFresh ==
    ASSUME Typed', NEW k \in Kinds, ds'.channel = <<>>, ds'.informer[k] = 0, ~Done(k)'
    PROVE  Story(k)'
<1> DEFINE when == [i \in 0..1 |-> 0]
<1>1. Len(hist') \in Nat BY DEF Typed
<1>2. when \in [0..1 -> 0..Len(hist')] /\ when[0] = 0 /\ when[1] = 0 BY <1>1
<1>3. Silent(k, 0, 0)'
  <2>1. ds'.listed[k] \in Nat BY DEF Typed, Source
  <2> QED BY <2>1 DEF Silent, Jump
<1> HIDE DEF when
<1>4. Len(ds.channel)' = 0 /\ Len(ds.channel)' + 1 = 1 BY SMT
<1>5. Tells(k, when)' BY <1>2, <1>3, <1>4 DEF Tells
<1> QED BY <1>2, <1>4, <1>5 DEF Story

-----------------------------------------------------------------------------
(* What the informers send *)

\* An informer that goes on and sends nothing has nothing more to tell.
LEMMA TellsSilent ==
    ASSUME Typed, NEW k \in Kinds, Kept(k), ds'.channel = ds.channel, Len(hist') \in Nat,
           NEW when, Tells(k, when), NEW last \in 0..Len(hist), ds'.informer[k] = last,
           Silent(k, ds.informer[k], last)
    PROVE  \E w : Tells(k, w)' /\ w[0] = when[0]
<1>1. PICK n : n = Len(ds.channel) OBVIOUS
<1>2. n \in Nat /\ Len(hist) \in Nat BY <1>1, ChannelFacts, ViewIs
<1>3. /\ when \in [0..(n + 1) -> 0..Len(hist)] /\ when[n + 1] = ds.informer[k]
      /\ Silent(k, when[n], when[n + 1])
      /\ \A i \in 1..n : IF ds.channel[i].kind = k
                         THEN Loud(k, when[i - 1], when[i], ds.channel[i])
                         ELSE Silent(k, when[i - 1], when[i])
  BY <1>1 DEF Tells
<1>4. \A i \in 0..(n + 1) : when[i] \in 0..Len(hist) BY <1>3
<1> DEFINE w == [i \in 0..(n + 1) |-> IF i = n + 1 THEN last ELSE when[i]]
<1>5. /\ w \in [0..(n + 1) -> 0..Len(hist)] /\ w[n + 1] = last /\ w[0] = when[0]
      /\ \A i \in 0..n : w[i] = when[i]
  <2> \A i \in 0..n : i # n + 1 /\ i \in 0..(n + 1) BY <1>2
  <2> 0 \in 0..n /\ n + 1 \in 0..(n + 1) BY <1>2
  <2> QED BY <1>4
<1> HIDE DEF w
<1>6. w \in [0..(n + 1) -> 0..Len(hist')]
  <2> 0..Len(hist) \subseteq 0..Len(hist') BY <1>2 DEF Kept
  <2> QED BY <1>5
<1>7. Silent(k, w[n], w[n + 1])'
  <2>1. n \in 0..(n + 1) /\ n \in 0..n /\ n + 1 \in 0..(n + 1) BY <1>2
  <2>2. PICK a \in 0..Len(hist) : a = when[n] BY <1>4, <2>1
  <2>3. PICK b \in 0..Len(hist) : b = ds.informer[k] /\ b = when[n + 1]
    BY <1>3, <1>4, <2>1
  <2>4. Silent(k, a, b) /\ Silent(k, b, last) BY <1>3, <2>2, <2>3
  <2>5. Jump(k, a, last) BY <2>4, SilentThen DEF Silent
  <2>6. Silent(k, a, last) BY <2>4, <2>5 DEF Silent
  <2>7. Silent(k, a, last)' BY <2>6, StepKept
  <2> QED BY <1>5, <2>1, <2>2, <2>7
<1>8. ASSUME NEW i \in 1..n
      PROVE  (IF ds.channel[i].kind = k
              THEN Loud(k, w[i - 1], w[i], ds.channel[i])
              ELSE Silent(k, w[i - 1], w[i]))'
  <2>1. i - 1 \in 0..n /\ i \in 0..n /\ i - 1 \in 0..(n + 1) /\ i \in 0..(n + 1) BY <1>2
  <2>2. PICK a \in 0..Len(hist) : a = when[i - 1] /\ a = w[i - 1] BY <1>4, <1>5, <2>1
  <2>3. PICK b \in 0..Len(hist) : b = when[i] /\ b = w[i] BY <1>4, <1>5, <2>1
  <2>4. PICK e : e = ds.channel[i] /\ e = ds'.channel[i] OBVIOUS
  <2>5. CASE e.kind = k
    <3>1. Loud(k, a, b, e) BY <1>3, <2>2, <2>3, <2>4, <2>5
    <3>2. Loud(k, a, b, e)' BY <3>1, StepKept
    <3>3. Loud(k, a, b, ds.channel[i])' BY <2>4, <3>2 DEF Loud
    <3> QED BY <2>2, <2>3, <2>4, <2>5, <3>3
  <2>6. CASE e.kind # k
    <3>1. Silent(k, a, b) BY <1>3, <2>2, <2>3, <2>4, <2>6
    <3>2. Silent(k, a, b)' BY <3>1, StepKept
    <3> QED BY <2>2, <2>3, <2>4, <2>6, <3>2
  <2> QED BY <2>5, <2>6
<1>9. Len(ds.channel)' = n /\ ds'.informer[k] = w[n + 1] BY <1>1, <1>5
<1>10. Tells(k, w)' BY <1>6, <1>7, <1>8, <1>9 DEF Tells
<1> QED BY <1>5, <1>10

\* An event that is sent goes behind the others.
LEMMA TellsLoud ==
    ASSUME Typed, NEW k \in Kinds, Kept(k), Len(hist') \in Nat, NEW e \in Ev,
           ds'.channel = ds.channel \o <<e>>,
           NEW when, Tells(k, when), NEW last \in 0..Len(hist), ds'.informer[k] = last,
           IF e.kind = k THEN Loud(k, ds.informer[k], last, e) ELSE last = ds.informer[k]
    PROVE  \E w : Tells(k, w)' /\ w[0] = when[0]
<1>1. PICK n : n = Len(ds.channel) OBVIOUS
<1>2. n \in Nat /\ Len(hist) \in Nat /\ ds.channel \in Seq(Ev) BY <1>1, ChannelFacts, ViewIs
<1>3. /\ when \in [0..(n + 1) -> 0..Len(hist)] /\ when[n + 1] = ds.informer[k]
      /\ Silent(k, when[n], when[n + 1])
      /\ \A i \in 1..n : IF ds.channel[i].kind = k
                         THEN Loud(k, when[i - 1], when[i], ds.channel[i])
                         ELSE Silent(k, when[i - 1], when[i])
  BY <1>1 DEF Tells
<1>4. \A i \in 0..(n + 1) : when[i] \in 0..Len(hist) BY <1>3
<1> DEFINE w == [i \in 0..(n + 2) |-> IF i <= n THEN when[i] ELSE last]
<1>5. /\ w \in [0..(n + 2) -> 0..Len(hist)] /\ w[n + 1] = last /\ w[n + 2] = last
      /\ w[0] = when[0] /\ \A i \in 0..n : w[i] = when[i]
  <2>1. \A i \in 0..(n + 2) : i <= n => i \in 0..(n + 1) BY <1>2
  <2>2. \A i \in 0..n : i <= n /\ i \in 0..(n + 2) BY <1>2
  <2>3. 0 \in 0..n /\ n + 1 \in 0..(n + 2) /\ n + 2 \in 0..(n + 2) /\ ~(n + 1 <= n)
        /\ ~(n + 2 <= n)
    BY <1>2
  <2> QED BY <1>4, <2>1, <2>2, <2>3
<1> HIDE DEF w
<1>6. w \in [0..(n + 2) -> 0..Len(hist')]
  <2> 0..Len(hist) \subseteq 0..Len(hist') BY <1>2 DEF Kept
  <2> QED BY <1>5
<1>7. /\ Len(ds.channel)' = n + 1 /\ ds'.channel[n + 1] = e
      /\ \A i \in 1..n : ds'.channel[i] = ds.channel[i]
  BY <1>1, <1>2
<1>8. Silent(k, w[n + 1], w[n + 2])'
  <2>1. Silent(k, last, last) BY SilentAlone
  <2>2. Silent(k, last, last)' BY <2>1, StepKept
  <2> QED BY <1>5, <2>2
<1>9. (IF e.kind = k THEN Loud(k, w[n], w[n + 1], e) ELSE Silent(k, w[n], w[n + 1]))'
  <2>1. n \in 0..(n + 1) /\ n \in 0..n /\ n + 1 \in 0..(n + 1) BY <1>2
  <2>2. PICK a \in 0..Len(hist) : a = when[n] /\ a = w[n] BY <1>4, <1>5, <2>1
  <2>3. PICK b \in 0..Len(hist) : b = ds.informer[k] /\ b = when[n + 1]
    BY <1>3, <1>4, <2>1
  <2>4. Silent(k, a, b) BY <1>3, <2>2, <2>3
  <2>5. CASE e.kind = k
    <3>1. Loud(k, b, last, e) BY <2>3, <2>5
    <3>2. Jump(k, a, last) BY <2>4, <3>1, SilentThen DEF Loud
    <3>3. Loud(k, a, last, e) BY <2>4, <3>1, <3>2 DEF Loud, Silent
    <3>4. Loud(k, a, last, e)' BY <3>3, StepKept
    <3> QED BY <1>5, <2>2, <2>5, <3>4
  <2>6. CASE e.kind # k
    <3>1. Silent(k, a, last) BY <2>3, <2>4, <2>6
    <3>2. Silent(k, a, last)' BY <3>1, StepKept
    <3> QED BY <1>5, <2>2, <2>6, <3>2
  <2> QED BY <2>5, <2>6
<1>10. ASSUME NEW i \in 1..(n + 1)
       PROVE  (IF ds.channel[i].kind = k
               THEN Loud(k, w[i - 1], w[i], ds.channel[i])
               ELSE Silent(k, w[i - 1], w[i]))'
  <2>1. CASE i = n + 1
    <3>1. i - 1 = n BY <1>2, <2>1
    <3>2. CASE e.kind = k
      <4>1. PICK a, b : a = w[n] /\ b = w[n + 1] /\ a = w[i - 1] /\ b = w[i]
        BY <2>1, <3>1
      <4>2. Loud(k, a, b, e)' BY <1>9, <3>2, <4>1
      <4>3. Loud(k, a, b, ds.channel[i])' BY <1>7, <2>1, <4>2 DEF Loud
      <4> QED BY <1>7, <2>1, <3>2, <4>1, <4>3
    <3>3. CASE e.kind # k BY <1>7, <1>9, <2>1, <3>1, <3>3
    <3> QED BY <3>2, <3>3
  <2>2. CASE i \in 1..n
    <3>1. i - 1 \in 0..n /\ i \in 0..n /\ i - 1 \in 0..(n + 1) /\ i \in 0..(n + 1)
      BY <1>2, <2>2
    <3>2. PICK a \in 0..Len(hist) : a = when[i - 1] /\ a = w[i - 1] BY <1>4, <1>5, <3>1
    <3>3. PICK b \in 0..Len(hist) : b = when[i] /\ b = w[i] BY <1>4, <1>5, <3>1
    <3>4. PICK d : d = ds.channel[i] /\ d = ds'.channel[i] BY <1>7, <2>2
    <3>5. CASE d.kind = k
      <4>1. Loud(k, a, b, d) BY <1>3, <2>2, <3>2, <3>3, <3>4, <3>5
      <4>2. Loud(k, a, b, d)' BY <4>1, StepKept
      <4>3. Loud(k, a, b, ds.channel[i])' BY <3>4, <4>2 DEF Loud
      <4> QED BY <3>2, <3>3, <3>4, <3>5, <4>3
    <3>6. CASE d.kind # k
      <4>1. Silent(k, a, b) BY <1>3, <2>2, <3>2, <3>3, <3>4, <3>6
      <4>2. Silent(k, a, b)' BY <4>1, StepKept
      <4> QED BY <3>2, <3>3, <3>4, <3>6, <4>2
    <3> QED BY <3>5, <3>6
  <2>3. i = n + 1 \/ i \in 1..n BY <1>2
  <2> QED BY <2>1, <2>2, <2>3, Zenon
<1>11. PICK m : m = n + 1 OBVIOUS
<1>12. Len(ds.channel)' = m /\ m + 1 = n + 2 BY <1>2, <1>7, <1>11
<1>13. w \in [0..(m + 1) -> 0..Len(hist')] /\ ds'.informer[k] = w[m + 1]
  BY <1>5, <1>6, <1>12
<1>14. Silent(k, w[m], w[m + 1])' BY <1>8, <1>11, <1>12
<1>15. \A i \in 1..m : (IF ds.channel[i].kind = k
                      THEN Loud(k, w[i - 1], w[i], ds.channel[i])
                      ELSE Silent(k, w[i - 1], w[i]))'
  BY <1>10, <1>11
<1>16. Tells(k, w)' BY <1>12, <1>13, <1>14, <1>15 DEF Tells
<1> QED BY <1>5, <1>16

Retold(k) == \A when : Tells(k, when) => \E w : Tells(k, w)' /\ w[0] = when[0]

\* A collection whose informer goes on keeps its story.
LEMMA StoryTold ==
    ASSUME Typed', NEW k \in Kinds, Story(k), UNCHANGED <<hist, db>>,
           ds'.state = ds.state, ds'.at = ds.at, ds'.listed = ds.listed,
           ds'.threshold = ds.threshold, off[k] \subseteq off'[k],
           off'[k] = {} => Retold(k)
    PROVE  Story(k)'
<1> SUFFICES ASSUME off'[k] = {}
             PROVE  \E when \in [0..(Len(ds.channel) + 1) -> 0..Len(hist)]' :
                       /\ Tells(k, when)'
                       /\ ds'.state # "running" => when[0] = 0
                       /\ Done(k)' => Row(k, when[0])'
  BY DEF Story
<1>1. PICK when \in [0..(Len(ds.channel) + 1) -> 0..Len(hist)] :
         /\ Tells(k, when)
         /\ ds.state # "running" => when[0] = 0
         /\ Done(k) => Row(k, when[0])
  BY DEF Story
<1>2. PICK w : Tells(k, w)' /\ w[0] = when[0] BY <1>1 DEF Retold
<1>3. w \in [0..(Len(ds.channel) + 1) -> 0..Len(hist)]' BY <1>2 DEF Tells
<1>4. ds'.state # "running" => w[0] = 0 BY <1>1, <1>2
<1>5. PICK a : a = when[0] OBVIOUS
<1>6. Done(k)' => Row(k, a)'
  <2>1. Done(k)' => Row(k, a) BY <1>1, <1>5 DEF Done, Active
  <2>2. Row(k, a) => Row(k, a)' BY DEF Row, Shows, View
  <2> QED BY <2>1, <2>2
<1>7. Done(k)' => Row(k, w[0])' BY <1>2, <1>5, <1>6
<1> QED BY <1>2, <1>3, <1>4, <1>7

\* Between is one event of its collection, or none.
LEMMA BetweenIs ==
    ASSUME NEW k \in Kinds, NEW old \in Obj, NEW new \in Obj
    PROVE  /\ old = new => Between(k, old, new) = <<>>
           /\ old # new => \E e \in Ev : e.kind = k /\ Between(k, old, new) = <<e>>
<1>1. CASE old = new BY <1>1 DEF Between
<1>2. CASE old # new /\ old = Nothing BY <1>2 DEF Between, Event, Ev
<1>3. CASE old # new /\ old # Nothing /\ new = Nothing BY <1>3 DEF Between, Event, Ev
<1>4. CASE old # new /\ old # Nothing /\ new # Nothing BY <1>4 DEF Between, Event, Ev
<1> QED BY <1>1, <1>2, <1>3, <1>4

\* An informer that goes on to a moment, and sends what it sees there, keeps the
\* stories, unless off names what it has missed.
LEMMA SendStory ==
    ASSUME Typed, Typed', Stories, NEW kind \in Kinds, NEW to \in 0..Len(hist),
           Send(kind, to, Between(kind, View(kind, ds.informer[kind]), View(kind, to))),
           UNCHANGED <<hist, cluster, db, drains>>, \A k \in Kinds : off[k] \subseteq off'[k],
           off'[kind] = {} => Jump(kind, ds.informer[kind], to)
    PROVE  Stories'
<1> DEFINE inf == ds.informer[kind]
<1>0. /\ inf \in 0..Len(hist) /\ View(kind, inf) \in Obj /\ View(kind, to) \in Obj
      /\ Len(hist') \in Nat
  BY ViewIs DEF Typed
<1>1. PICK events : events = Between(kind, View(kind, inf), View(kind, to)) OBVIOUS
<1>2. ds \in Source /\ ds.informer \in [Kinds -> Nat] /\ ds.channel \in Seq(Ev)
  BY DEF Typed, Source
<1>3. ds' = [ds EXCEPT !.informer[kind] = to, !.channel = @ \o events]
  BY <1>1 DEF Send
<1>4. /\ ds'.state = ds.state /\ ds'.at = ds.at /\ ds'.threshold = ds.threshold
      /\ ds'.listed = ds.listed /\ ds'.channel = ds.channel \o events
      /\ ds'.informer = [ds.informer EXCEPT ![kind] = to]
  BY <1>2, <1>3 DEF Source
<1>5. ds'.informer[kind] = to /\ \A k \in Kinds : k # kind => ds'.informer[k] = ds.informer[k]
  BY <1>2, <1>4
<1>6. ASSUME NEW k \in Kinds PROVE Kept(k)
  <2>1. Len(hist) <= Len(hist') BY <1>0
  <2>2. \A t \in 0..Len(hist) : View(k, t)' = View(k, t) BY DEF View
  <2> QED BY <1>4, <2>1, <2>2 DEF Kept
<1>7. ASSUME NEW k \in Kinds, off'[k] = {}, NEW when, Tells(k, when)
      PROVE  \E w : Tells(k, w)' /\ w[0] = when[0]
  <2>0. Kept(k) /\ ds.informer[k] \in 0..Len(hist) BY <1>6, ViewIs
  <2>1. CASE View(kind, inf) = View(kind, to)
    <3>1. events = <<>> BY <1>0, <1>1, <2>1, BetweenIs
    <3>2. ds'.channel = ds.channel BY <1>2, <1>4, <3>1, ConcatEmptySeq
    <3>3. CASE k = kind
      <4>1. Silent(k, ds.informer[k], to) BY <1>7, <2>1, <3>3 DEF Silent
      <4>2. ds'.informer[k] = to BY <1>5, <3>3
      <4> QED BY <1>0, <1>7, <2>0, <3>2, <4>1, <4>2, TellsSilent
    <3>4. CASE k # kind
      <4>1. ds'.informer[k] = ds.informer[k] BY <1>5, <3>4
      <4>2. Tells(k, when)' BY <1>0, <1>7, <2>0, <3>2, <4>1, TellsKept
      <4> QED BY <4>2
    <3> QED BY <3>3, <3>4
  <2>2. CASE View(kind, inf) # View(kind, to)
    <3>1. PICK e \in Ev : e.kind = kind /\ events = <<e>> BY <1>0, <1>1, <2>2, BetweenIs
    <3>2. ds'.channel = ds.channel \o <<e>> BY <1>4, <3>1
    <3>3. CASE k = kind
      <4>1. <<e>> = Between(k, View(k, ds.informer[k]), View(k, to)) BY <1>1, <3>1, <3>3
      <4>2. Loud(k, ds.informer[k], to, e) BY <1>7, <2>2, <3>3, <4>1 DEF Loud
      <4>3. ds'.informer[k] = to /\ e.kind = k BY <1>5, <3>1, <3>3
      <4> QED BY <1>0, <1>7, <2>0, <3>2, <4>2, <4>3, TellsLoud
    <3>4. CASE k # kind
      <4>1. PICK last \in 0..Len(hist) : last = ds.informer[k] BY <2>0
      <4>2. ds'.informer[k] = last /\ e.kind # k BY <1>5, <3>1, <3>4, <4>1
      <4> QED BY <1>0, <1>7, <2>0, <3>2, <4>1, <4>2, TellsLoud
    <3> QED BY <3>3, <3>4
  <2> QED BY <2>1, <2>2
<1>8. ASSUME NEW k \in Kinds PROVE Story(k)'
  <2>1. off'[k] = {} => Retold(k) BY <1>7 DEF Retold
  <2>2. Story(k) BY DEF Stories
  <2> QED BY <1>4, <2>1, <2>2, StoryTold
<1> QED BY <1>8 DEF Stories

\* What an informer sees when it has come to the end of the history.
LEMMA SeenAll ==
    ASSUME Typed, NEW kind \in Kinds, NEW old, old = View(kind, ds.informer[kind]),
           Unseen(kind, old) = {},
           old # Nothing /\ Now[kind] # Nothing => old.uid = Now[kind].uid
    PROVE  Jump(kind, ds.informer[kind], Len(hist))
<1>1. /\ Len(hist) \in Nat \ {0} /\ View(kind, Len(hist)) = Now[kind]
      /\ ds.informer[kind] \in 0..Len(hist) /\ ds.listed[kind] \in 0..Len(hist)
      /\ \A t \in 1..Len(hist) : View(kind, t) = hist[t][kind]
  BY ViewIs
<1>2. ds.listed[kind] > 0 =>
         View(kind, ds.listed[kind]).uid \in {0, old.uid, Now[kind].uid}
  <2> SUFFICES ASSUME ds.listed[kind] > 0
               PROVE  View(kind, ds.listed[kind]).uid \in {0, old.uid, Now[kind].uid}
    OBVIOUS
  <2>1. View(kind, ds.listed[kind]) = hist[ds.listed[kind]][kind] BY <1>1
  <2>2. hist[ds.listed[kind]][kind].uid \in {0, old.uid, Now[kind].uid} BY DEF Unseen
  <2> QED BY <2>1, <2>2
<1> QED BY <1>1, <1>2 DEF Jump

\* The informers keep the stories.
LEMMA InformerStory ==
    ASSUME IInv, IInv', Lives, Stories, NEW kind \in Kinds,
           InformerStarts(kind) \/ InformerTells(kind) \/ InformerLists(kind)
    PROVE  Stories'
<1>0. Typed /\ Typed' /\ off \in [Kinds -> SUBSET Reasons] BY DEF IInv, Typed
<1>1. /\ Len(hist) \in Nat \ {0} /\ View(kind, 0) = Nothing /\ View(kind, Len(hist)) = Now[kind]
      /\ \A t \in 1..Len(hist) : View(kind, t) = hist[t][kind]
      /\ ds.informer[kind] \in 0..Len(hist) /\ ds.listed[kind] \in 0..Len(hist)
  BY <1>0, ViewIs
<1>2. PICK end \in 0..Len(hist) : end = Len(hist) BY <1>1
<1>3. CASE InformerStarts(kind)
  <2>1. /\ ds.informer[kind] = 0 /\ UNCHANGED <<hist, cluster, db, drains>>
        /\ Send(kind, Len(hist), Between(kind, Nothing, Now[kind]))
        /\ off' = [off EXCEPT ![kind] = @ \cup Unseen(kind, Nothing)]
    BY <1>3 DEF InformerStarts
  <2>2. Send(kind, end, Between(kind, View(kind, ds.informer[kind]), View(kind, end)))
    BY <1>1, <1>2, <2>1
  <2>3. \A k \in Kinds : off[k] \subseteq off'[k] BY <1>0, <2>1
  <2>4. off'[kind] = {} => Jump(kind, ds.informer[kind], end)
    <3> SUFFICES ASSUME off'[kind] = {} PROVE Jump(kind, ds.informer[kind], end) OBVIOUS
    <3>1. Unseen(kind, Nothing) = {} BY <1>0, <2>1
    <3>2. Nothing = View(kind, ds.informer[kind]) BY <1>1, <2>1
    <3> QED BY <1>0, <1>2, <3>1, <3>2, SeenAll
  <2> QED BY <1>0, <2>1, <2>2, <2>3, <2>4, SendStory
<1>4. CASE InformerTells(kind)
  <2>1. PICK to \in Pending(kind) :
           /\ \A i \in Pending(kind) : to <= i
           /\ Send(kind, to, Between(kind, hist[to - 1][kind], hist[to][kind]))
    BY <1>4 DEF InformerTells
  <2>2. ds.informer[kind] > 0 /\ UNCHANGED <<hist, cluster, db, drains, off>>
    BY <1>4 DEF InformerTells
  <2>3. PICK inf \in 1..Len(hist) : inf = ds.informer[kind] BY <1>1, <2>2
  <2>4. /\ to \in Nat /\ inf + 1 <= to /\ to <= Len(hist) /\ to \in 0..Len(hist)
        /\ to \in 1..Len(hist) /\ to - 1 \in 1..Len(hist) /\ inf <= to - 1
        /\ \A i \in inf..(to - 1) : i \in 1..Len(hist)
    <3>1. to \in (inf + 1)..Len(hist) BY <2>1, <2>3 DEF Pending
    <3> QED BY <1>1, <2>3, <3>1
  <2>5. ASSUME NEW i \in inf..(to - 1) PROVE View(kind, i) = View(kind, inf)
    <3>1. i \in 1..Len(hist) /\ ~(to <= i) /\ i \in Nat BY <1>1, <2>4
    <3>2. i \notin Pending(kind) BY <2>1, <3>1
    <3>3. CASE i = inf BY <3>3
    <3>4. CASE i # inf
      <4>1. i \in (inf + 1)..Len(hist) BY <1>1, <2>4, <3>1, <3>4
      <4>2. hist[i][kind] = hist[inf][kind] BY <2>3, <3>2, <4>1 DEF Pending
      <4> QED BY <1>1, <2>4, <3>1, <4>2
    <3> QED BY <3>3, <3>4
  <2>6. to - 1 \in inf..(to - 1) /\ inf \in Nat BY <2>4, <1>1
  <2>7. View(kind, to - 1) = View(kind, inf) BY <2>5, <2>6
  <2>8. Send(kind, to, Between(kind, View(kind, ds.informer[kind]), View(kind, to)))
    BY <1>1, <2>1, <2>3, <2>4, <2>7
  <2>9. View(kind, inf) # Nothing /\ View(kind, to) # Nothing =>
           View(kind, inf).uid = View(kind, to).uid
    <3> SUFFICES ASSUME View(kind, inf) # Nothing, View(kind, to) # Nothing
                 PROVE  View(kind, inf).uid = View(kind, to).uid
      OBVIOUS
    <3>1. PICK new \in Obj : new = View(kind, to) BY <1>0, <2>4, ViewIs
    <3>2. to - 1 \in 0..to BY <2>4
    <3>3. /\ new.uid <= new.ver /\ new.ver <= to
          /\ new.uid <= to - 1 => View(kind, to - 1).uid = new.uid
          /\ new.uid = to /\ to > 1 => View(kind, to - 1) = Nothing
      BY <1>0, <2>4, <3>1, <3>2, LivesFacts
    <3>4. new.uid \in Nat /\ new.ver \in Nat BY <3>1 DEF Obj
    <3>5. new.uid # to BY <2>3, <2>4, <2>7, <3>3
    <3>6. new.uid <= to - 1 BY <2>4, <3>3, <3>4, <3>5
    <3> QED BY <2>7, <3>1, <3>3, <3>6
  <2>10. ASSUME inf <= ds.listed[kind], ds.listed[kind] < to
         PROVE  View(kind, ds.listed[kind]) = View(kind, inf)
    <3>1. ds.listed[kind] \in inf..(to - 1) BY <1>1, <2>4, <2>6, <2>10
    <3> QED BY <2>5, <3>1
  <2>11. Jump(kind, ds.informer[kind], to)
    <3>1. inf <= to BY <2>4, <2>6
    <3> QED BY <2>3, <2>9, <2>10, <3>1 DEF Jump
  <2> QED BY <1>0, <2>2, <2>4, <2>8, <2>11, SendStory
<1>5. CASE InformerLists(kind)
  <2>1. PICK old : old = hist[ds.informer[kind]][kind] OBVIOUS
  <2>2. /\ ds.informer[kind] > 0 /\ UNCHANGED <<hist, cluster, db, drains>>
        /\ Send(kind, Len(hist), Between(kind, old, Now[kind]))
        /\ off' = [off EXCEPT ![kind] = @ \cup Unseen(kind, old) \cup
                     IF Nothing \notin {old, Now[kind]} /\ old.uid # Now[kind].uid
                     THEN {"replaced"} ELSE {}]
    BY <1>5, <2>1 DEF InformerLists
  <2>3. ds.informer[kind] \in 1..Len(hist) BY <1>1, <2>2
  <2>4. old = View(kind, ds.informer[kind]) BY <1>1, <2>1, <2>3
  <2>5. Send(kind, end, Between(kind, View(kind, ds.informer[kind]), View(kind, end)))
    BY <1>1, <1>2, <2>2, <2>4
  <2>6. PICK more : more = IF Nothing \notin {old, Now[kind]} /\ old.uid # Now[kind].uid
                           THEN {"replaced"} ELSE {}
    OBVIOUS
  <2>7. off' = [off EXCEPT ![kind] = @ \cup Unseen(kind, old) \cup more] BY <2>2, <2>6
  <2>8. \A k \in Kinds : off[k] \subseteq off'[k] BY <1>0, <2>7
  <2>9. off'[kind] = {} => Jump(kind, ds.informer[kind], end)
    <3> SUFFICES ASSUME off'[kind] = {} PROVE Jump(kind, ds.informer[kind], end) OBVIOUS
    <3>1. Unseen(kind, old) = {} /\ more = {} BY <1>0, <2>7
    <3>2. old # Nothing /\ Now[kind] # Nothing => old.uid = Now[kind].uid BY <2>6, <3>1
    <3> QED BY <1>0, <1>2, <2>4, <3>1, <3>2, SeenAll
  <2> QED BY <1>0, <2>2, <2>5, <2>8, <2>9, SendStory
<1> QED BY <1>3, <1>4, <1>5

-----------------------------------------------------------------------------
(* What is applied *)

\* When the first event has been taken from the channel the story goes on after it.
LEMMA TellsRest ==
    ASSUME Typed, NEW k \in Kinds, Kept(k), Len(hist') \in Nat, ds.channel # <<>>,
           ds'.channel = Tail(ds.channel), ds'.informer[k] = ds.informer[k],
           NEW when, Tells(k, when)
    PROVE  \E w : Tells(k, w)' /\ w[0] = when[1]
<1>1. PICK n : n = Len(ds.channel) OBVIOUS
<1>2. /\ n \in Nat \ {0} /\ Len(hist) \in Nat /\ Len(ds.channel)' = n - 1
      /\ \A i \in 1..(n - 1) : ds'.channel[i] = ds.channel[i + 1]
  <2>1. ds.channel \in Seq(Ev) /\ Len(hist) \in Nat BY ChannelFacts, ViewIs
  <2> QED BY <1>1, <2>1, HeadTailProperties
<1>3. /\ when \in [0..(n + 1) -> 0..Len(hist)] /\ when[n + 1] = ds.informer[k]
      /\ Silent(k, when[n], when[n + 1])
      /\ \A i \in 1..n : IF ds.channel[i].kind = k
                         THEN Loud(k, when[i - 1], when[i], ds.channel[i])
                         ELSE Silent(k, when[i - 1], when[i])
  BY <1>1 DEF Tells
<1>4. \A i \in 0..(n + 1) : when[i] \in 0..Len(hist) BY <1>3
<1> DEFINE w == [i \in 0..n |-> when[i + 1]]
<1>5. /\ w \in [0..n -> 0..Len(hist)] /\ w[n] = when[n + 1] /\ w[n - 1] = when[n]
      /\ w[0] = when[1] /\ \A i \in 0..n : w[i] = when[i + 1]
  <2>1. \A i \in 0..n : i + 1 \in 0..(n + 1) BY <1>2
  <2>2. 0 \in 0..n /\ n \in 0..n /\ n - 1 \in 0..n /\ n - 1 + 1 = n BY <1>2
  <2> QED BY <1>4, <2>1, <2>2
<1> HIDE DEF w
<1>6. PICK m : m = n - 1 OBVIOUS
<1>7. m + 1 = n /\ m \in Nat /\ Len(ds.channel)' = m BY <1>2, <1>6
<1>8. w \in [0..(m + 1) -> 0..Len(hist')] /\ ds'.informer[k] = w[m + 1]
  <2> 0..Len(hist) \subseteq 0..Len(hist') BY <1>2 DEF Kept
  <2> QED BY <1>3, <1>5, <1>7
<1>9. Silent(k, w[m], w[m + 1])'
  <2>1. n \in 0..(n + 1) /\ n + 1 \in 0..(n + 1) BY <1>2
  <2>2. PICK a \in 0..Len(hist) : a = when[n] /\ a = w[m] BY <1>4, <1>5, <1>6, <2>1
  <2>3. PICK b \in 0..Len(hist) : b = when[n + 1] /\ b = w[m + 1]
    BY <1>4, <1>5, <1>7, <2>1
  <2>4. Silent(k, a, b) BY <1>3, <2>2, <2>3
  <2>5. Silent(k, a, b)' BY <2>4, StepKept
  <2> QED BY <2>2, <2>3, <2>5
<1>10. ASSUME NEW i \in 1..m
       PROVE  (IF ds.channel[i].kind = k
               THEN Loud(k, w[i - 1], w[i], ds.channel[i])
               ELSE Silent(k, w[i - 1], w[i]))'
  <2>1. /\ i \in 1..(n - 1) /\ i - 1 \in 0..n /\ i \in 0..n /\ i - 1 + 1 = i
        /\ i \in 0..(n + 1) /\ i + 1 \in 0..(n + 1) /\ i + 1 \in 1..n /\ i + 1 - 1 = i
    BY <1>2, <1>6
  <2>2. PICK a \in 0..Len(hist) : a = when[i] /\ a = w[i - 1] BY <1>4, <1>5, <2>1
  <2>3. PICK b \in 0..Len(hist) : b = when[i + 1] /\ b = w[i] BY <1>4, <1>5, <2>1
  <2>4. PICK e : e = ds.channel[i + 1] /\ e = ds'.channel[i] BY <1>2, <2>1
  <2>5. IF e.kind = k THEN Loud(k, a, b, e) ELSE Silent(k, a, b)
    <3>1. IF ds.channel[i + 1].kind = k
          THEN Loud(k, when[i + 1 - 1], when[i + 1], ds.channel[i + 1])
          ELSE Silent(k, when[i + 1 - 1], when[i + 1])
      BY <1>3, <2>1
    <3> QED BY <2>1, <2>2, <2>3, <2>4, <3>1
  <2>6. CASE e.kind = k
    <3>1. Loud(k, a, b, e)' BY <2>5, <2>6, StepKept
    <3>2. Loud(k, a, b, ds.channel[i])' BY <2>4, <3>1 DEF Loud
    <3> QED BY <2>2, <2>3, <2>4, <2>6, <3>2
  <2>7. CASE e.kind # k
    <3>1. Silent(k, a, b)' BY <2>5, <2>7, StepKept
    <3> QED BY <2>2, <2>3, <2>4, <2>7, <3>1
  <2> QED BY <2>6, <2>7
<1>11. Tells(k, w)' BY <1>7, <1>8, <1>9, <1>10 DEF Tells
<1> QED BY <1>5, <1>11

\* A collection that is done has been listed, and the threshold covers its list.
LEMMA DoneKnown ==
    ASSUME IInv, Lives, NEW k \in Kinds, Done(k)
    PROVE  Known(k)
<1>1. ds.listed[k] > 0 /\ Active BY DEF IInv, Committed, Done
<1>2. ds.listed[k] \in 1..Len(hist) /\ \A t \in 1..Len(hist) : View(k, t) = hist[t][k]
  <2>1. Typed BY DEF IInv
  <2>2. ds.listed[k] \in 0..Len(hist) /\ Len(hist) \in Nat BY <2>1, ViewIs
  <2> QED BY <1>1, <2>1, <2>2, ViewIs
<1>3. hist[ds.listed[k]][k].ver <= ds.threshold BY <1>1 DEF IInv, Threshold
<1> QED BY <1>1, <1>2, <1>3 DEF Known, IInv

\* Applying the next event keeps the stories.
LEMMA ApplyStory ==
    ASSUME IInv, IInv', FInv, Apply
    PROVE  Stories'
<1>0. Typed /\ Typed' /\ Lives /\ Tie /\ Stories /\ off \in [Kinds -> SUBSET Reasons]
  BY DEF IInv, FInv, Typed
<1>1. PICK e : e = Head(ds.channel) OBVIOUS
<1>2. /\ ds.state = "running" /\ ds.channel # <<>> /\ ds \in Source /\ ds.channel \in Seq(Ev)
      /\ UNCHANGED <<hist, cluster, drains>>
  BY <1>0, ChannelFacts DEF Apply, Typed
<1>3. e \in Ev /\ e = ds.channel[1] /\ 1 \in 1..Len(ds.channel) /\ Tail(ds.channel) \in Seq(Ev)
  BY <1>1, <1>2, HeadTailProperties
<1>4. /\ ds'.state = ds.state /\ ds'.at = ds.at /\ ds'.threshold = ds.threshold
      /\ ds'.listed = ds.listed /\ ds'.informer = ds.informer
      /\ ds'.channel = Tail(ds.channel)
  <2> ds' = [ds EXCEPT !.channel = Tail(@)] BY DEF Apply
  <2> QED BY <1>2 DEF Source
<1>5. e.kind \in Kinds /\ db.cluster = ds.gen BY <1>0, <1>2, <1>3 DEF Ev, Tie, Active
<1>6. PICK late : late = (~Applies(e, ds.threshold) /\ e.object.ver > ds.listed[e.kind])
  OBVIOUS
<1>7. \/ /\ WriteRow(e.kind, AfterEvent(ds.gen, e, ds.threshold))
         /\ off' = IF late THEN [off EXCEPT ![e.kind] = @ \cup {"overtaken"}] ELSE off
      \/ off' = [off EXCEPT ![e.kind] = @ \cup {"lost"}] /\ db' = db
  BY <1>1, <1>6 DEF Apply
<1>8. \A k \in Kinds : off[k] \subseteq off'[k] BY <1>0, <1>5, <1>7
<1>9. ASSUME NEW k \in Kinds, k # e.kind PROVE db'.rows[k] = db.rows[k]
  <2>1. CASE WriteRow(e.kind, AfterEvent(ds.gen, e, ds.threshold))
    BY <1>0, <1>3, <1>5, <1>9, <2>1, AppliedRow
  <2>2. CASE db' = db BY <2>2
  <2> QED BY <1>7, <2>1, <2>2
<1>10. off'[e.kind] = {} =>
          /\ db'.rows[e.kind] = Applied(db.rows[e.kind], e, ds.threshold)
          /\ ~(~Applies(e, ds.threshold) /\ e.object.ver > ds.listed[e.kind])
  <2> SUFFICES ASSUME off'[e.kind] = {}
               PROVE  /\ db'.rows[e.kind] = Applied(db.rows[e.kind], e, ds.threshold)
                      /\ ~late
    BY <1>6
  <2>1. WriteRow(e.kind, AfterEvent(ds.gen, e, ds.threshold)) /\ ~late
    BY <1>0, <1>5, <1>7
  <2> QED BY <1>0, <1>3, <1>5, <2>1, AppliedRow
<1>11. ASSUME NEW k \in Kinds PROVE Story(k)'
  <2> SUFFICES ASSUME off'[k] = {}
               PROVE  \E when \in [0..(Len(ds.channel) + 1) -> 0..Len(hist)]' :
                         /\ Tells(k, when)'
                         /\ ds'.state # "running" => when[0] = 0
                         /\ Done(k)' => Row(k, when[0])'
    BY DEF Story
  <2>1. off[k] = {} /\ Story(k) BY <1>0, <1>8 DEF Stories
  <2>2. PICK when \in [0..(Len(ds.channel) + 1) -> 0..Len(hist)] :
           Tells(k, when) /\ (Done(k) => Row(k, when[0]))
    BY <2>1 DEF Story
  <2>3. Kept(k)
    <3>1. Len(hist) \in Nat BY <1>0, ViewIs
    <3>2. \A t \in 0..Len(hist) : View(k, t)' = View(k, t) BY <1>2 DEF View
    <3> QED BY <1>2, <1>4, <3>1, <3>2 DEF Kept
  <2>4. Len(hist') \in Nat BY <1>0 DEF Typed
  <2>5. PICK w : Tells(k, w)' /\ w[0] = when[1]
    BY <1>0, <1>2, <1>4, <2>2, <2>3, <2>4, TellsRest
  <2>6. w \in [0..(Len(ds.channel) + 1) -> 0..Len(hist)]' BY <2>5 DEF Tells
  <2>7. PICK n : n = Len(ds.channel) OBVIOUS
  <2>8. n \in Nat \ {0} /\ 0 \in 0..(n + 1) /\ 1 \in 0..(n + 1) /\ 1 \in 1..n
    BY <1>2, <1>3, <2>7
  <2>9. PICK a \in 0..Len(hist) : a = when[0] BY <2>2, <2>7, <2>8
  <2>10. PICK b \in 0..Len(hist) : b = when[1] BY <2>2, <2>7, <2>8
  <2>11. IF e.kind = k THEN Loud(k, a, b, e) ELSE Silent(k, a, b)
    <3>1. \A i \in 1..n : IF ds.channel[i].kind = k
                          THEN Loud(k, when[i - 1], when[i], ds.channel[i])
                          ELSE Silent(k, when[i - 1], when[i])
      BY <2>2, <2>7 DEF Tells
    <3>2. IF ds.channel[1].kind = k THEN Loud(k, when[1 - 1], when[1], ds.channel[1])
          ELSE Silent(k, when[1 - 1], when[1])
      BY <2>8, <3>1
    <3> QED BY <1>3, <2>9, <2>10, <3>2
  <2>12. ASSUME Done(k) PROVE Shows(k, db'.rows[k], b)
    <3>1. Known(k) /\ Row(k, a) BY <1>0, <2>2, <2>9, <2>12, DoneKnown
    <3>2. CASE e.kind = k
      <4>1. Loud(k, a, b, e) BY <2>11, <3>2
      <4>2. /\ db'.rows[k] = Applied(db.rows[k], e, ds.threshold)
            /\ ~(~Applies(e, ds.threshold) /\ e.object.ver > ds.listed[k])
        BY <1>10, <3>2
      <4>3. Shows(k, Applied(db.rows[k], e, ds.threshold), b)
        BY <1>3, <3>1, <4>1, <4>2, RowApplied
      <4> QED BY <4>2, <4>3
    <3>3. CASE e.kind # k
      <4>1. Row(k, b) BY <2>11, <3>1, <3>3, RowCarried
      <4> QED BY <1>9, <3>3, <4>1 DEF Row
    <3> QED BY <3>2, <3>3
  <2>13. Done(k)' => Row(k, b)'
    <3>1. Done(k)' => Done(k) BY <1>4 DEF Done, Active
    <3>2. Shows(k, db'.rows[k], b) => Row(k, b)' BY <1>2, <1>4 DEF Row, Shows, View
    <3> QED BY <2>12, <3>1, <3>2
  <2>14. Done(k)' => Row(k, w[0])' BY <2>5, <2>10, <2>13
  <2> QED BY <1>2, <1>4, <2>5, <2>6, <2>14
<1> QED BY <1>11 DEF Stories

-----------------------------------------------------------------------------
(* The other steps *)

\* A change makes an object where there was none, or its next version.
LEMMA ChangeLives ==
    ASSUME Typed, Lives, NEW kind \in Kinds, Change(kind)
    PROVE  Lives' /\ \A k \in Kinds : Kept(k)
<1>1. PICK n : n = Len(hist) OBVIOUS
<1>2. /\ n \in Nat \ {0} /\ DOMAIN hist = 1..n /\ n \in 1..n /\ Now = hist[n]
      /\ hist \in Seq([Kinds -> Obj]) /\ Now \in [Kinds -> Obj]
      /\ \A i \in 1..n : \A k \in Kinds : hist[i][k] \in Obj
  <2>1. hist \in Seq([Kinds -> Obj]) /\ n \in Nat \ {0} /\ DOMAIN hist = 1..n
    BY <1>1 DEF Typed
  <2>2. \A i \in 1..n : hist[i] \in [Kinds -> Obj] BY <2>1
  <2>3. n \in 1..n /\ Now = hist[n] BY <1>1, <2>1 DEF Now
  <2> QED BY <2>1, <2>2, <2>3
<1>3. PICK old \in Obj : old = hist[n][kind] BY <1>2
<1>4. PICK new : /\ hist' = Append(hist, [Now EXCEPT ![kind] = new])
                 /\ \/ old = Nothing /\ new = Object(n + 1, n + 1)
                    \/ old # Nothing /\ new = Nothing
                    \/ old # Nothing /\ new = Object(old.uid, n + 1)
  BY <1>1, <1>2, <1>3 DEF Change
<1>5. PICK next : next = [Now EXCEPT ![kind] = new] OBVIOUS
<1>6. /\ next[kind] = new
      /\ \A k \in Kinds : k # kind => next[k] = hist[n][k]
  BY <1>2, <1>5
<1>7. /\ Len(hist') = n + 1 /\ DOMAIN hist' = 1..(n + 1)
      /\ \A i \in 1..n : hist'[i] = hist[i]
      /\ hist'[n + 1] = next
  BY <1>1, <1>2, <1>4, <1>5
<1>8. ASSUME NEW k \in Kinds PROVE Kept(k)
  <2>1. ASSUME NEW t \in 0..Len(hist) PROVE View(k, t)' = View(k, t)
    <3>1. CASE t = 0 BY <3>1 DEF View
    <3>2. CASE t \in 1..n BY <3>2, <1>7 DEF View
    <3> QED BY <1>1, <1>2, <3>1, <3>2
  <2> QED BY <1>1, <1>2, <1>7, <2>1 DEF Kept, Change
<1>9. ASSUME NEW k \in Kinds, NEW j \in 1..n, NEW o, o = hist[j][k], o # Nothing
      PROVE  /\ o.uid \in 1..o.ver /\ o.ver \in 1..j
             /\ \A m \in o.ver..j : hist[m][k] = o
             /\ \A m \in o.uid..j : hist[m][k].uid = o.uid
             /\ o.uid > 1 => hist[o.uid - 1][k] = Nothing
  BY <1>2, <1>9 DEF Lives
<1>10. ASSUME NEW o \in Obj, o # Nothing PROVE o.uid \in Nat \ {0} /\ o.ver \in Nat \ {0}
  BY <1>10, NothingIs DEF Obj
<1> DEFINE Right(k, j, o) ==
      \/ o = Nothing
      \/ /\ o.uid \in 1..o.ver /\ o.ver \in 1..j
         /\ \A m \in o.ver..j : hist'[m][k] = o
         /\ \A m \in o.uid..j : hist'[m][k].uid = o.uid
         /\ o.uid > 1 => hist'[o.uid - 1][k] = Nothing
<1>11. ASSUME NEW k \in Kinds, NEW j \in 1..n PROVE Right(k, j, hist'[j][k])
  <2>1. PICK o \in Obj : o = hist[j][k] /\ o = hist'[j][k] BY <1>2, <1>7
  <2>2. SUFFICES ASSUME o # Nothing PROVE Right(k, j, o) BY <2>1
  <2>3. /\ o.uid \in 1..o.ver /\ o.ver \in 1..j
        /\ \A m \in o.ver..j : hist[m][k] = o
        /\ \A m \in o.uid..j : hist[m][k].uid = o.uid
        /\ o.uid > 1 => hist[o.uid - 1][k] = Nothing
    <3>1. j \in DOMAIN hist /\ o = hist[j][k] BY <1>2, <2>1
    <3> QED BY <2>2, <3>1 DEF Lives
  <2>4. o.uid \in Nat \ {0} /\ o.ver \in Nat \ {0} /\ o.uid <= o.ver /\ o.ver <= j
    BY <1>2, <1>10, <2>2, <2>3
  <2>5. /\ \A m \in o.ver..j : m \in 1..n
        /\ \A m \in o.uid..j : m \in 1..n
        /\ o.uid > 1 => o.uid - 1 \in 1..n
    BY <1>2, <2>4
  <2> QED BY <1>7, <2>3, <2>5
<1>12. ASSUME NEW k \in Kinds PROVE Right(k, n + 1, next[k])
  <2>1. PICK was \in Obj : was = hist[n][k] BY <1>2
  <2>2. was # Nothing =>
           /\ was.uid \in 1..was.ver /\ was.ver \in 1..n
           /\ \A m \in was.ver..n : hist[m][k] = was
           /\ \A m \in was.uid..n : hist[m][k].uid = was.uid
           /\ was.uid > 1 => hist[was.uid - 1][k] = Nothing
    BY <1>2, <1>9, <2>1
  <2>3. was # Nothing => /\ was.uid \in Nat \ {0} /\ was.ver \in Nat \ {0}
                         /\ was.uid <= was.ver /\ was.ver <= n
    BY <1>2, <1>10, <2>2
  <2>4. hist'[n + 1][k] = next[k] BY <1>7
  <2>5. was # Nothing =>
           /\ \A m \in was.uid..n : m \in 1..n /\ hist'[m][k].uid = was.uid
           /\ \A m \in was.ver..n : m \in 1..n /\ hist'[m][k] = was
           /\ was.uid > 1 => hist'[was.uid - 1][k] = Nothing
    <3>1. was # Nothing => /\ \A m \in was.uid..n : m \in 1..n
                           /\ \A m \in was.ver..n : m \in 1..n
                           /\ was.uid > 1 => was.uid - 1 \in 1..n
      BY <1>2, <2>3
    <3> QED BY <1>7, <2>2, <3>1
  <2>6. CASE k # kind
    <3>1. next[k] = was BY <1>6, <2>1, <2>6
    <3>2. SUFFICES ASSUME was # Nothing PROVE Right(k, n + 1, was) BY <3>1
    <3>3. /\ \A m \in was.ver..(n + 1) : m \in was.ver..n \/ m = n + 1
          /\ \A m \in was.uid..(n + 1) : m \in was.uid..n \/ m = n + 1
      BY <1>2, <2>3, <3>2
    <3>4. was.uid \in 1..was.ver /\ was.ver \in 1..(n + 1) BY <1>2, <2>3, <3>2
    <3> QED BY <2>4, <2>5, <3>1, <3>2, <3>3, <3>4
  <2>7. CASE k = kind
    <3>1. old = was /\ next[k] = new BY <1>3, <1>6, <2>1, <2>7
    <3>2. CASE new = Nothing BY <3>1, <3>2
    <3>3. CASE old = Nothing /\ new = Object(n + 1, n + 1)
      <4>1. new.uid = n + 1 /\ new.ver = n + 1 BY <3>3 DEF Object
      <4>2. \A m \in (n + 1)..(n + 1) : m = n + 1 BY <1>2
      <4>3. hist'[n + 1 - 1][k] = Nothing
        <5> n + 1 - 1 = n BY <1>2
        <5> QED BY <1>2, <1>7, <2>1, <3>1, <3>3
      <4>4. new.uid \in 1..new.ver /\ new.ver \in 1..(n + 1) BY <1>2, <4>1
      <4>5. hist'[n + 1][k] = new BY <2>4, <3>1
      <4>6. /\ \A m \in new.ver..(n + 1) : hist'[m][k] = new
            /\ \A m \in new.uid..(n + 1) : hist'[m][k].uid = new.uid
        BY <4>1, <4>2, <4>5
      <4>7. hist'[new.uid - 1][k] = Nothing
        <5> new.uid - 1 = n + 1 - 1 BY <1>2, <4>1
        <5> QED BY <4>3
      <4> QED BY <3>1, <4>4, <4>6, <4>7
    <3>4. CASE old # Nothing /\ new = Object(old.uid, n + 1)
      <4>1. new.uid = was.uid /\ new.ver = n + 1 BY <3>1, <3>4 DEF Object
      <4>2. was # Nothing BY <3>1, <3>4
      <4>3. /\ \A m \in (n + 1)..(n + 1) : m = n + 1
            /\ \A m \in was.uid..(n + 1) : m \in was.uid..n \/ m = n + 1
        BY <1>2, <2>3, <4>2
      <4>4. was.uid \in 1..(n + 1) /\ n + 1 \in 1..(n + 1) BY <1>2, <2>3, <4>2
      <4> QED BY <2>4, <2>5, <3>1, <4>1, <4>2, <4>3, <4>4
    <3> QED BY <1>4, <3>2, <3>3, <3>4
  <2> QED BY <2>6, <2>7
<1>13. Lives'
  <2>1. ASSUME NEW k \in Kinds, NEW j \in 1..(n + 1) PROVE Right(k, j, hist'[j][k])
    <3>1. j \in 1..n \/ j = n + 1 BY <1>2
    <3> HIDE DEF Right
    <3> QED BY <1>7, <1>11, <1>12, <3>1
  <2> QED BY <1>7, <2>1 DEF Lives
<1> QED BY <1>8, <1>13

\* As long as the history is left alone an object lives as it did.
LEMMA LivesKept == ASSUME Lives, UNCHANGED hist PROVE Lives'
BY DEF Lives

\* Steps that leave the MigCluster and the kind of data source alone keep the tie.
LEMMA TieKept ==
    ASSUME Tie, UNCHANGED <<cluster, drains>>, ds'.gen = ds.gen,
           db'.cluster = db.cluster, db.cluster = 0 => db' = db, Active' => Active,
           ds.state = "none" => ds' = ds, ds'.state = "none" => ds.state = "none"
    PROVE  Tie'
<1>1. Active' => /\ db'.cluster = ds'.gen
                 /\ ~cluster'.queued /\ ~cluster'.ignored => ds'.gen = cluster'.gen
  BY DEF Tie
<1>2. db'.cluster = 0 => \A k \in Kinds : db'.rows[k] = Nothing BY DEF Tie
<1>3. cluster'.gen = 0 /\ ~cluster'.queued /\ cluster'.pruned =>
         cluster'.barred \/ db'.cluster = 0
  BY DEF Tie
<1>4. \A i \in DOMAIN drains' : drains'[i].gen # 0 BY DEF Tie
<1>5. ds'.state # "none" => ds'.gen # 0 BY DEF Tie
<1>6. ds'.state = "none" => ds' = NoSource BY DEF Tie
<1> QED BY <1>1, <1>2, <1>3, <1>4, <1>5, <1>6 DEF Tie

\* The informers send for a data source that is there.
LEMMA InformerTie ==
    ASSUME Typed, Tie, NEW kind \in Kinds,
           InformerStarts(kind) \/ InformerTells(kind) \/ InformerLists(kind)
    PROVE  Tie'
<1>1. /\ UNCHANGED <<hist, cluster, db, drains>> /\ ds.manager /\ ds \in Source
      /\ \E to, events : Send(kind, to, events)
  BY DEF InformerStarts, InformerTells, InformerLists, Typed
<1>2. PICK to, events : Send(kind, to, events) BY <1>1
<1>3. ds'.gen = ds.gen /\ ds'.state = ds.state
  <2> ds' = [ds EXCEPT !.informer[kind] = to, !.channel = @ \o events] BY <1>2 DEF Send
  <2> QED BY <1>1 DEF Source
<1>4. ds.state # "none" BY <1>1 DEF Tie, NoSource
<1> QED BY <1>1, <1>3, <1>4, TieKept DEF Active

\* An event is applied to the rows of the data source.
LEMMA ApplyTie == ASSUME IInv, Tie, Apply PROVE Tie'
<1>0. Typed BY DEF IInv
<1>1. PICK e : e = Head(ds.channel) OBVIOUS
<1>2. /\ ds.state = "running" /\ ds.channel # <<>> /\ ds \in Source /\ ds.channel \in Seq(Ev)
      /\ UNCHANGED <<hist, cluster, drains>> /\ ds.threshold \in Nat
  BY <1>0, ChannelFacts DEF Apply, Typed
<1>3. e \in Ev /\ e.kind \in Kinds
  <2>1. e \in Ev BY <1>1, <1>2, HeadTailProperties
  <2> QED BY <2>1 DEF Ev
<1>4. ds'.gen = ds.gen /\ ds'.state = ds.state
  <2> ds' = [ds EXCEPT !.channel = Tail(@)] BY DEF Apply
  <2> QED BY <1>2 DEF Source
<1>5. WriteRow(e.kind, AfterEvent(ds.gen, e, ds.threshold)) \/ db' = db
  BY <1>1 DEF Apply
<1>6. AfterEvent(ds.gen, e, ds.threshold) \in SUBSET Obj BY <1>0, <1>2, <1>3, AfterEventFacts
<1>7. db'.cluster = db.cluster BY <1>0, <1>3, <1>5, <1>6, WriteRowFacts
<1>8. db.cluster # 0 BY <1>2 DEF Tie, Active
<1> QED BY <1>2, <1>4, <1>7, <1>8, TieKept DEF Active

\* Steps that leave the data source alone, and the rows it has listed unless off
\* says so.
LEMMA AsideStory ==
    ASSUME IInv, Typed', Stories, UNCHANGED <<hist, ds>>, \A k \in Kinds : off[k] \subseteq off'[k],
           Active => \A k \in Kinds :
              db'.rows[k] = db.rows[k] \/ ds.listed[k] = 0 \/ off'[k] # {}
    PROVE  Stories'
<1>1. ASSUME NEW k \in Kinds PROVE Story(k)'
  <2>1. Kept(k)
    <3>1. Len(hist) \in Nat BY ViewIs DEF IInv
    <3>2. \A t \in 0..Len(hist) : View(k, t)' = View(k, t) BY DEF View
    <3> QED BY <3>1, <3>2 DEF Kept
  <2>2. Story(k) BY DEF Stories
  <2> QED BY <2>1, <2>2, StoryKept
<1> QED BY <1>1 DEF Stories

\* What is left of a stopped data source is of its MigCluster, if of one at all.
LEMMA DrainTie ==
    ASSUME Typed, Tie, NEW i, Drain(i)
    PROVE  Tie' /\ drains' \in Seq(Draining)
<1>1. PICK gen, threshold, e :
         /\ gen = drains[i].gen /\ threshold = drains[i].threshold
         /\ e = Head(drains[i].channel)
  OBVIOUS
<1>2. drains' \in Seq(Draining) /\ e \in Ev /\ threshold \in Nat BY <1>1, DrainFacts
<1>3. /\ e.kind \in Kinds /\ AfterEvent(gen, e, threshold) \in SUBSET Obj
      /\ WriteRow(e.kind, AfterEvent(gen, e, threshold)) /\ i \in DOMAIN drains
  BY <1>1, <1>2, AfterEventFacts DEF Drain, Ev
<1>4. UNCHANGED <<hist, cluster, ds>> /\ gen # 0 BY <1>1, <1>3 DEF Drain, Tie
<1>5. db'.cluster = db.cluster BY <1>3, WriteRowFacts
<1>6. db.cluster = 0 => db' = db
  <2> SUFFICES ASSUME db.cluster = 0 PROVE db' = db OBVIOUS
  <2>1. PICK row : row = db.rows[e.kind] OBVIOUS
  <2>2. AfterEvent(gen, e, threshold) = {row} BY <1>4, <2>1 DEF AfterEvent
  <2>3. (CHOOSE r \in {row} : TRUE) = row /\ {row} # {} OBVIOUS
  <2>4. db' = [db EXCEPT !.rows[e.kind] = row] BY <1>3, <2>2, <2>3 DEF WriteRow
  <2> QED BY <1>3, <2>1, <2>4 DEF Typed
<1>7. \A j \in DOMAIN drains' : drains'[j].gen # 0
  <2>0. /\ drains \in Seq(Draining) /\ i \in 1..Len(drains) /\ Len(drains) \in Nat
        /\ \A j \in 1..Len(drains) : drains[j].gen # 0
    BY <1>3 DEF Typed, Tie
  <2>1. CASE drains' = RemoveAt(drains, i)
    <3>1. \A j \in DOMAIN drains' : \E m \in 1..Len(drains) : drains'[j] = drains[m]
      <4> DEFINE a == SubSeq(drains, 1, i - 1)
                 b == SubSeq(drains, i + 1, Len(drains))
      <4>1. /\ Len(a) = i - 1 /\ a \in Seq(Draining)
            /\ \A j \in 1..(i - 1) : a[j] = drains[j]
        <5> \A j \in 1..(i - 1) : drains[j] \in Draining BY <2>0
        <5> QED BY <2>0, SubSeqProperties
      <4>2. /\ Len(b) = Len(drains) - i /\ b \in Seq(Draining)
            /\ \A j \in 1..(Len(drains) - i) : b[j] = drains[i + j]
        <5>1. \A j \in (i + 1)..Len(drains) : drains[j] \in Draining BY <2>0
        <5>2. \A j \in 1..(Len(drains) - i) : i + 1 + j - 1 = i + j BY <2>0
        <5> QED BY <2>0, <5>1, <5>2, SubSeqProperties
      <4> HIDE DEF a, b
      <4>3. /\ DOMAIN (a \o b) = 1..(Len(a) + Len(b))
            /\ \A j \in 1..(Len(a) + Len(b)) :
                  (a \o b)[j] = IF j <= Len(a) THEN a[j] ELSE b[j - Len(a)]
        <5>1. Len(a \o b) = Len(a) + Len(b) /\ a \o b \in Seq(Draining)
          BY <4>1, <4>2, ConcatProperties
        <5>2. DOMAIN (a \o b) = 1..(Len(a) + Len(b)) BY <5>1
        <5> QED BY <4>1, <4>2, <5>2, ConcatProperties
      <4>4. drains' = a \o b BY <2>1 DEF RemoveAt, a, b
      <4>5. ASSUME NEW j \in DOMAIN drains'
            PROVE  \E m \in 1..Len(drains) : drains'[j] = drains[m]
        <5>0. j \in 1..(Len(a) + Len(b)) /\ j \in 1..(Len(drains) - 1) BY <2>0, <4>1, <4>2, <4>3, <4>4
        <5>1. CASE j <= Len(a)
          <6>1. drains'[j] = a[j] /\ j \in 1..(i - 1) BY <2>0, <4>1, <4>3, <4>4, <5>0, <5>1
          <6>2. drains'[j] = drains[j] /\ j \in 1..Len(drains) BY <2>0, <4>1, <6>1
          <6> QED BY <6>2
        <5>2. CASE ~(j <= Len(a))
          <6>1. drains'[j] = b[j - Len(a)] BY <4>3, <4>4, <5>0, <5>2
          <6>2. j - Len(a) \in 1..(Len(drains) - i) /\ i + (j - Len(a)) = j + 1
                /\ j + 1 \in 1..Len(drains)
            BY <2>0, <4>1, <5>0, <5>2
          <6>3. drains'[j] = drains[j + 1] BY <4>2, <6>1, <6>2
          <6> QED BY <6>2, <6>3
        <5> QED BY <5>1, <5>2
      <4> QED BY <4>5
    <3> QED BY <2>0, <3>1
  <2>2. CASE drains' = [drains EXCEPT ![i].channel = Tail(@)]
    <3>1. PICK d : d = [drains[i] EXCEPT !.channel = Tail(@)] OBVIOUS
    <3>2. drains' = [drains EXCEPT ![i] = d] BY <2>2, <3>1
    <3>3. drains[i] \in Draining BY <2>0
    <3>4. d.gen # 0 BY <2>0, <3>1, <3>3 DEF Draining
    <3> QED BY <2>0, <3>2, <3>4
  <2> QED BY <2>1, <2>2 DEF Drain
<1>8. Tie' BY <1>4, <1>5, <1>6, <1>7 DEF Tie, Active
<1> QED BY <1>2, <1>8

\* What is purged has no rows.
LEMMA PurgedIs ==
    ASSUME Typed, Tie, NEW gen, Purge(gen)
    PROVE  db'.cluster = 0 => \A k \in Kinds : db'.rows[k] = Nothing
BY DEF Purge, Purged, Tie, Typed

\* The pruning at the start finds no data source.
LEMMA PruneTie == ASSUME IInv, Tie, Prune PROVE Tie'
<1>0. Typed /\ ds.state = "none" BY DEF IInv, Order, Prune
<1>1. /\ UNCHANGED <<ds, drains>>
      /\ cluster' = [cluster EXCEPT !.pruned = TRUE,
                                    !.barred = db'.cluster \notin {0, cluster.gen}]
      /\ Purge(db.cluster) \/ db' = db
  BY DEF Prune
<1>2. cluster'.gen = cluster.gen /\ cluster'.barred = (db'.cluster \notin {0, cluster.gen})
  BY <1>0, <1>1 DEF Typed, MigClusters
<1>4. db'.cluster = 0 => \A k \in Kinds : db'.rows[k] = Nothing
  BY <1>0, <1>1, PurgedIs DEF Tie
<1>5. cluster'.gen = 0 => cluster'.barred \/ db'.cluster = 0 BY <1>2
<1>6. ~Active' BY <1>0, <1>1 DEF Active
<1> QED BY <1>0, <1>1, <1>4, <1>5, <1>6 DEF Tie

\* A stopped data source hands its channel on with the MigCluster it was for.
LEMMA StoppedTie ==
    ASSUME Typed, Tie
    PROVE  \A i \in DOMAIN Stopped : Stopped[i].gen # 0
<1>1. drains \in Seq(Draining) /\ \A i \in DOMAIN drains : drains[i].gen # 0 BY DEF Typed, Tie
<1>2. CASE ds.state = "running" /\ ds.channel # <<>>
  <2>1. PICK d : d = [gen |-> ds.gen, threshold |-> ds.threshold, channel |-> ds.channel]
    OBVIOUS
  <2>2. d.gen # 0 BY <1>2, <2>1 DEF Tie
  <2>3. Stopped = Append(drains, d) BY <1>2, <2>1 DEF Stopped
  <2> QED BY <1>1, <2>2, <2>3
<1>3. CASE ~(ds.state = "running" /\ ds.channel # <<>>) BY <1>1, <1>3 DEF Stopped
<1> QED BY <1>2, <1>3

\* The reconcile that finds no MigCluster leaves no data source.
LEMMA GoneTie == ASSUME Typed, Tie, ReconcileGone PROVE Tie'
<1>1. /\ ds' = NoSource /\ drains' = Stopped /\ cluster.gen = 0
      /\ cluster' = [cluster EXCEPT !.queued = FALSE, !.ignored = FALSE,
                                    !.barred = db'.cluster # 0]
      /\ Purge(ds.gen) \/ db' = db
  BY DEF ReconcileGone
<1>2. ds'.state = "none" /\ ~Active' BY <1>1 DEF NoSource, Active
<1>3. db'.cluster = 0 => \A k \in Kinds : db'.rows[k] = Nothing
  BY <1>1, PurgedIs DEF Tie
<1>4. cluster'.barred = (db'.cluster # 0) BY <1>1 DEF Typed, MigClusters
<1>5. \A i \in DOMAIN drains' : drains'[i].gen # 0 BY <1>1, StoppedTie
<1> QED BY <1>1, <1>2, <1>3, <1>4, <1>5 DEF Tie

\* The reconcile that starts a data source starts it for the MigCluster it has read.
LEMMA AddTie == ASSUME Typed, Tie, ReconcileAdd PROVE Tie' /\ ds'.state # "none"
<1>1. PICK new : new = [NoSource EXCEPT !.gen = cluster.gen] OBVIOUS
<1>2. /\ drains' = Stopped /\ cluster.gen # 0
      /\ \/ /\ db.cluster \in {0, cluster.gen}
            /\ db' = [db EXCEPT !.cluster = cluster.gen]
            /\ \/ /\ ds' = [new EXCEPT !.state = "starting", !.manager = TRUE]
                  /\ cluster' = [cluster EXCEPT !.queued = FALSE, !.ignored = FALSE]
               \/ /\ ds' = [new EXCEPT !.state = "failed"]
                  /\ cluster' = [cluster EXCEPT !.ignored = FALSE]
         \/ /\ ds' = [new EXCEPT !.state = "failed"]
            /\ cluster' = [cluster EXCEPT !.barred = TRUE, !.ignored = FALSE] /\ db' = db
  BY <1>1 DEF ReconcileAdd
<1>3. /\ ds'.gen = cluster.gen /\ ds'.state \in {"starting", "failed"}
      /\ ds'.state = "starting" => /\ db' = [db EXCEPT !.cluster = cluster.gen]
                                   /\ cluster' = [cluster EXCEPT !.queued = FALSE,
                                                                 !.ignored = FALSE]
  <2>1. NoSource \in Source /\ cluster.gen \in Nat BY DEF NoSource, Source, Typed, MigClusters
  <2>2. new \in Source /\ new.gen = cluster.gen BY <1>1, <2>1 DEF Source
  <2> QED BY <1>2, <2>2 DEF Source
<1>4. cluster'.gen = cluster.gen BY <1>2 DEF Typed, MigClusters
<1>5. db'.cluster = 0 => \A k \in Kinds : db'.rows[k] = Nothing
  BY <1>2 DEF Tie, Typed
<1>6. \A i \in DOMAIN drains' : drains'[i].gen # 0 BY <1>2, StoppedTie
<1>7. Active' => db'.cluster = ds'.gen
  BY <1>3 DEF Active, Typed
<1> QED BY <1>2, <1>3, <1>4, <1>5, <1>6, <1>7 DEF Tie

\* After a crash there is no data source, and the rows are looked through again.
LEMMA CrashTie == ASSUME Typed, Tie, Crash PROVE Tie'
<1>1. /\ ds' = NoSource /\ drains' = <<>> /\ db' = db
      /\ cluster' = [cluster EXCEPT !.queued = (cluster.gen # 0), !.pruned = FALSE,
                                    !.ignored = FALSE]
  BY DEF Crash
<1>2. ds'.state = "none" /\ ~Active' BY <1>1 DEF NoSource, Active
<1>3. ~cluster'.pruned BY <1>1 DEF Typed, MigClusters
<1> QED BY <1>1, <1>2, <1>3 DEF Tie

\* A MigCluster that changes is looked at again.
LEMMA TurnTie == ASSUME Typed, Tie, Turn PROVE Tie'
<1>1. UNCHANGED <<db, ds, drains>> BY DEF Turn
<1>2. cluster'.queued = TRUE
  BY DEF Turn, Typed, MigClusters
<1> QED BY <1>1, <1>2 DEF Tie, Active

\* A pass that ends with an invalid secret leaves the data source there is.
LEMMA InvalidTie == ASSUME Typed, Tie, ReconcileInvalid PROVE Tie'
<1>1. UNCHANGED <<db, ds, drains>> /\ cluster.gen # 0
      /\ cluster' = [cluster EXCEPT !.queued = FALSE, !.ignored = TRUE]
  BY DEF ReconcileInvalid
<1>2. cluster'.ignored /\ cluster'.gen = cluster.gen BY <1>1 DEF Typed, MigClusters
<1> QED BY <1>1, <1>2 DEF Tie, Active

\* A start that fails is tried again.
LEMMA FailsTie == ASSUME Typed, Tie, StartFails, ds.state = "starting" PROVE Tie'
<1>1. /\ ds' = [ds EXCEPT !.state = "failed"] /\ UNCHANGED <<db, drains>>
      /\ cluster' = [cluster EXCEPT !.queued = TRUE] /\ ds \in Source
  BY DEF StartFails, Retry, Typed
<1>2. ds'.state = "failed" /\ ds'.gen = ds.gen BY <1>1 DEF Source
<1>3. cluster'.queued = TRUE BY <1>1 DEF Typed, MigClusters
<1>4. ~Active' BY <1>2 DEF Active
<1> QED BY <1>1, <1>2, <1>3, <1>4 DEF Tie

\* A data source that has just been made, or is none, has no stories to keep.
LEMMA FreshStory ==
    ASSUME Typed', ds'.channel = <<>>, \A k \in Kinds : ds'.informer[k] = 0,
           ds'.at = 1
    PROVE  Stories'
<1>1. ASSUME NEW k \in Kinds PROVE Story(k)'
  <2>1. ~Done(k)' BY KindsFacts DEF Done
  <2> QED BY <2>1, StoryFresh
<1> QED BY <1>1 DEF Stories

\* A start that fails has told nothing that counts.
LEMMA FailsStory ==
    ASSUME IInv, IInv', Stories, StartFails, ds.state = "starting"
    PROVE  Stories'
<1>0. Typed /\ Typed' BY DEF IInv
<1>1. /\ ds' = [ds EXCEPT !.state = "failed"] /\ UNCHANGED <<hist, db, off>> /\ ds \in Source
  BY <1>0 DEF StartFails, Typed
<1>2. /\ ds'.state = "failed" /\ ds'.channel = ds.channel /\ ds'.informer = ds.informer
      /\ ds'.listed = ds.listed
  BY <1>1 DEF Source
<1>3. ASSUME NEW k \in Kinds PROVE Story(k)'
  <2>1. Kept(k)
    <3>1. Len(hist) \in Nat BY <1>0, ViewIs
    <3>2. \A t \in 0..Len(hist) : View(k, t)' = View(k, t) BY <1>1 DEF View
    <3> QED BY <1>1, <1>2, <3>1, <3>2 DEF Kept
  <2>2. ~Done(k)' BY <1>2 DEF Done, Active
  <2>3. Story(k) BY DEF Stories
  <2> QED BY <1>0, <1>1, <1>2, <2>1, <2>2, <2>3, StoryEarly
<1> QED BY <1>3 DEF Stories

\* A row that is as it was read is brought to what was found.
LEMMA ReconciledIs ==
    ASSUME NEW row \in Obj, NEW found \in Obj
    PROVE  Reconciled(row, row, found) = {found}
<1>1. Nothing \in Obj /\ Nothing.uid = 0 /\ \A o \in Obj : o.uid = 0 => o = Nothing
  BY NothingIs
<1>2. CASE row.uid # found.uid
  BY <1>1, <1>2 DEF Reconciled, Deleted, Inserted
<1>3. CASE row.uid = found.uid /\ found = Nothing
  <2>1. row = Nothing BY <1>1, <1>3
  <2> QED BY <1>3, <2>1 DEF Reconciled
<1>4. CASE row.uid = found.uid /\ found # Nothing /\ row.ver # found.ver
  BY <1>4 DEF Reconciled, Updated
<1>5. CASE row.uid = found.uid /\ found # Nothing /\ row.ver = found.ver
  <2>1. row = found BY <1>5 DEF Obj
  <2> QED BY <1>5, <2>1 DEF Reconciled
<1> QED BY <1>2, <1>3, <1>4, <1>5

\* Listing a collection leaves the rows of those that are done.
LEMMA ListStory ==
    ASSUME IInv, IInv', FInv, List
    PROVE  Stories' /\ Tie'
<1>0. Typed /\ Typed' /\ ds \in Source /\ Tie /\ Stories BY DEF IInv, FInv, Typed
<1>1. UNCHANGED <<hist, cluster, db, drains, off>> BY DEF List
<1>2. ds.state = "starting" /\ ds.at \in DOMAIN Collections
  BY <1>0, KindsFacts DEF List, Starting, Source
<1>3. PICK kind \in Kinds : kind = Collections[ds.at] BY <1>2, KindsFacts
<1>4. PICK t : ds' = [ds EXCEPT !.stored = {db.rows[kind]}, !.listed[kind] = Len(hist),
                                !.threshold = t]
  BY <1>0, <1>3 DEF List, Source
<1>5. /\ ds'.state = ds.state /\ ds'.at = ds.at /\ ds'.gen = ds.gen /\ ds'.channel = ds.channel
      /\ ds'.informer = ds.informer /\ ds'.listed = [ds.listed EXCEPT ![kind] = Len(hist)]
  BY <1>0, <1>4 DEF Source
<1>6. /\ \A k \in Kinds : k # kind => ds'.listed[k] = ds.listed[k]
      /\ ds'.listed[kind] = Len(hist)
  BY <1>0, <1>5 DEF Source
<1>7. ASSUME NEW k \in Kinds PROVE Story(k)'
  <2>1. Kept(k)
    <3>1. Len(hist) \in Nat BY <1>0, ViewIs
    <3>2. \A i \in 0..Len(hist) : View(k, i)' = View(k, i) BY <1>1 DEF View
    <3> QED BY <1>1, <1>6, <3>1, <3>2 DEF Kept
  <2>2. ASSUME Done(k)', off[k] = {} PROVE db'.rows[k] = View(k, ds.listed[k])'
    <3>1. Done(k) BY <1>5, <2>2 DEF Done, Active
    <3>2. k # kind
      <4>1. PICK i \in DOMAIN Collections : i < ds.at /\ Collections[i] = k BY <3>1 DEF Done
      <4>2. i # ds.at BY <1>0, <4>1 DEF Source
      <4> QED BY <1>2, <1>3, <4>1, <4>2, Distinct
    <3>3. db.rows[k] = View(k, ds.listed[k])
      BY <1>0, <1>2, <2>2, <3>1, RowEarly DEF Stories
    <3>4. View(k, ds.listed[k])' = View(k, ds.listed[k]) BY <1>1, <1>6, <3>2 DEF View
    <3> QED BY <1>1, <3>3, <3>4
  <2>3. Story(k) BY <1>0 DEF Stories
  <2> QED BY <1>0, <1>1, <1>2, <1>5, <2>1, <2>2, <2>3, StoryEarly
<1>8. Tie'
  <2>1. Active' => Active BY <1>5 DEF Active
  <2> QED BY <1>0, <1>1, <1>2, <1>5, <2>1, TieKept
<1> QED BY <1>7, <1>8 DEF Stories

\* A collection that is committed has the rows that were listed.
LEMMA CommitStory ==
    ASSUME IInv, IInv', FInv, Commit
    PROVE  Stories' /\ Tie' /\ UNCHANGED hist
<1>0. Typed /\ Typed' /\ ds \in Source /\ Tie /\ Stories BY DEF IInv, FInv, Typed
<1>1. ds.state = "starting" /\ ds.at \in DOMAIN Collections /\ ds.stored # {}
      /\ ds.at \in Nat
  BY <1>0, KindsFacts DEF Commit, Starting, Source
<1>2. PICK kind \in Kinds : kind = Collections[ds.at] BY <1>1, KindsFacts
<1>3. PICK stored \in ds.stored : ds.stored = {stored} /\ ds.listed[kind] > 0
                                 /\ (off[kind] = {} => stored = db.rows[kind])
  BY <1>1, <1>2 DEF IInv, Reading
<1>4. (CHOOSE row \in ds.stored : TRUE) = stored BY <1>3
<1>5. PICK found : found = hist[ds.listed[kind]][kind] OBVIOUS
<1>6. PICK rows : rows = Reconciled(db.rows[kind], stored, found) OBVIOUS
<1>7. CASE rows = {}
  <2>1. StartFails BY <1>2, <1>4, <1>5, <1>6, <1>7 DEF Commit
  <2> QED BY <1>0, <1>1, <2>1, FailsStory, FailsTie DEF StartFails
<1>8. CASE rows # {}
  <2>1. /\ WriteRow(kind, rows) /\ UNCHANGED <<hist, cluster, drains, off, spent>>
        /\ ds' = [ds EXCEPT !.at = @ + 1, !.stored = {},
                            !.state = IF ds.at = Len(Collections) THEN "running" ELSE @]
    BY <1>2, <1>4, <1>5, <1>6, <1>8 DEF Commit
  <2>2. /\ ds'.at = ds.at + 1 /\ ds'.listed = ds.listed /\ ds'.informer = ds.informer
        /\ ds'.channel = ds.channel /\ ds'.gen = ds.gen /\ ds'.state \in {"starting", "running"}
    <3>1. PICK state \in {"starting", "running"} :
             state = IF ds.at = Len(Collections) THEN "running" ELSE ds.state
      BY <1>1
    <3>2. ds' = [ds EXCEPT !.at = ds.at + 1, !.stored = {}, !.state = state]
      BY <1>0, <2>1, <3>1 DEF Source
    <3> QED BY <1>0, <3>1, <3>2 DEF Source
  <2>3. /\ stored \in Obj /\ db.rows[kind] \in Obj /\ found \in Obj
        /\ found = View(kind, ds.listed[kind])
    <3>1. ds.listed[kind] \in 0..Len(hist) /\ Len(hist) \in Nat BY <1>0, ViewIs
    <3>2. ds.listed[kind] \in 1..Len(hist) BY <1>3, <3>1
    <3>3. found = View(kind, ds.listed[kind]) BY <1>0, <1>5, <3>2, ViewIs
    <3>4. found \in Obj BY <1>0, <3>1, <3>3, ViewIs
    <3>5. stored \in Obj BY <1>0, <1>3 DEF Source
    <3> QED BY <1>0, <3>3, <3>4, <3>5, ChannelFacts
  <2>4. rows \in SUBSET Obj BY <1>6, <2>3, ReconciledFacts
  <2>5. /\ db'.cluster = db.cluster
        /\ \A k \in Kinds : k # kind => db'.rows[k] = db.rows[k]
    BY <1>0, <2>1, <2>4, WriteRowFacts
  <2>6. off[kind] = {} => db'.rows[kind] = found
    <3> SUFFICES ASSUME off[kind] = {} PROVE db'.rows[kind] = found OBVIOUS
    <3>1. rows = {found} BY <1>3, <1>6, <2>3, ReconciledIs
    <3>2. (CHOOSE row \in {found} : TRUE) = found OBVIOUS
    <3>3. db' = [db EXCEPT !.rows[kind] = found] BY <2>1, <3>1, <3>2 DEF WriteRow
    <3> QED BY <1>0, <3>3 DEF Typed
  <2>7. ASSUME NEW k \in Kinds PROVE Story(k)'
    <3>1. Kept(k)
      <4>1. Len(hist) \in Nat BY <1>0, ViewIs
      <4>2. \A t \in 0..Len(hist) : View(k, t)' = View(k, t) BY <2>1 DEF View
      <4> QED BY <2>1, <2>2, <4>1, <4>2 DEF Kept
    <3>2. ASSUME Done(k)', off[k] = {} PROVE db'.rows[k] = View(k, ds.listed[k])'
      <4>1. View(k, ds.listed[k])' = View(k, ds.listed[k]) BY <2>1, <2>2 DEF View
      <4>2. CASE k = kind BY <2>3, <2>6, <3>2, <4>1, <4>2
      <4>3. CASE k # kind
        <5>1. PICK i \in DOMAIN Collections : i < ds.at + 1 /\ Collections[i] = k
          BY <2>2, <3>2 DEF Done
        <5>2. i # ds.at BY <1>2, <4>3, <5>1
        <5>3. i < ds.at
          <6> i \in Nat BY KindsFacts
          <6> QED BY <1>1, <5>1, <5>2
        <5>4. Done(k) BY <1>1, <5>1, <5>3 DEF Done, Active
        <5>5. db.rows[k] = View(k, ds.listed[k])
          BY <1>0, <1>1, <3>2, <5>4, RowEarly DEF Stories
        <5> QED BY <2>5, <4>1, <4>3, <5>5
      <4> QED BY <4>2, <4>3
    <3>3. Story(k) BY <1>0 DEF Stories
    <3> QED BY <1>0, <1>1, <2>1, <2>2, <3>1, <3>2, <3>3, StoryEarly
  <2>8. Tie'
    <3>1. db.cluster # 0 BY <1>0, <1>1 DEF Tie, Active
    <3>2. Active BY <1>1 DEF Active
    <3> QED BY <1>0, <1>1, <2>1, <2>2, <2>5, <3>1, <3>2, TieKept
  <2> QED BY <2>1, <2>7, <2>8 DEF Stories
<1> QED BY <1>7, <1>8

-----------------------------------------------------------------------------
(* The stories hold, and what they come to *)

\* There are no stories at first.
LEMMA FInvInit == Init => FInv
<1> SUFFICES ASSUME Init PROVE FInv OBVIOUS
<1>0. Typed BY IInvInit DEF IInv
<1>1. PICK some \in SUBSET Kinds :
        hist = <<[k \in Kinds |-> IF k \in some THEN Object(1, 1) ELSE Nothing]>>
  BY DEF Init
<1>2. DOMAIN hist = {1} /\ hist[1] = [k \in Kinds |-> IF k \in some THEN Object(1, 1) ELSE Nothing]
  BY <1>1
<1>3. Lives
  <2> SUFFICES ASSUME NEW k \in Kinds, hist[1][k] # Nothing
               PROVE  LET o == hist[1][k] IN
                      /\ o.uid \in 1..o.ver /\ o.ver \in 1..1
                      /\ \A m \in o.ver..1 : hist[m][k] = o
                      /\ \A m \in o.uid..1 : hist[m][k].uid = o.uid
                      /\ o.uid > 1 => hist[o.uid - 1][k] = Nothing
    BY <1>2 DEF Lives
  <2>1. hist[1][k] = Object(1, 1) BY <1>2
  <2>2. PICK o : o = hist[1][k] /\ o.uid = 1 /\ o.ver = 1 BY <2>1 DEF Object
  <2>3. \A m \in 1..1 : m = 1 OBVIOUS
  <2> QED BY <2>2, <2>3
<1>4. /\ ds = NoSource /\ drains = <<>> /\ cluster.queued = TRUE
      /\ ds.state = "none" /\ db.rows = [k \in Kinds |-> Nothing]
  BY DEF Init, NoSource
<1>5. Tie BY <1>4 DEF Tie, Active
<1>6. ASSUME NEW k \in Kinds PROVE Story(k)
  <2> DEFINE when == [i \in 0..1 |-> 0]
  <2>1. ds.channel = <<>> /\ ds.informer[k] = 0 /\ ~Done(k)
    BY <1>4 DEF NoSource, Done, Active
  <2>2. Len(hist) \in Nat /\ 0 \in 0..Len(hist) /\ Len(ds.channel) = 0 BY <1>0, <2>1, ViewIs
  <2>3. when \in [0..1 -> 0..Len(hist)] /\ when[0] = 0 /\ when[1] = 0 BY <2>2
  <2>4. Silent(k, 0, 0) BY <1>0, <2>2, SilentAlone
  <2> HIDE DEF when
  <2>5. Tells(k, when) BY <2>1, <2>2, <2>3, <2>4 DEF Tells
  <2> QED BY <2>1, <2>2, <2>3, <2>5 DEF Story
<1> QED BY <1>3, <1>5, <1>6 DEF FInv, Stories

\* Every step keeps the stories.
LEMMA FInvNext == IInv /\ FInv /\ [Next]_vars => FInv'
<1> SUFFICES ASSUME IInv, FInv, [Next]_vars PROVE FInv' OBVIOUS
<1>0. /\ IInv' /\ Typed /\ Typed' /\ Lives /\ Tie /\ Stories
      /\ off \in [Kinds -> SUBSET Reasons]
  BY IInvNext DEF IInv, FInv, Typed
<1> SUFFICES Lives' /\ Tie' /\ Stories' BY DEF FInv
<1>1. CASE Prune
  <2>1. UNCHANGED <<hist, ds, off>> /\ ~Active BY <1>1 DEF Prune, IInv, Order, Active
  <2> QED BY <1>0, <1>1, <2>1, LivesKept, PruneTie, AsideStory
<1>2. CASE ReconcileGone
  <2>1. UNCHANGED hist /\ ds' = NoSource BY <1>2 DEF ReconcileGone
  <2>2. ds'.channel = <<>> /\ ds'.at = 1 /\ \A k \in Kinds : ds'.informer[k] = 0
    BY <2>1 DEF NoSource
  <2> QED BY <1>0, <1>2, <2>1, <2>2, LivesKept, GoneTie, FreshStory
<1>3. CASE ReconcileAdd
  <2>1. PICK new : new = [NoSource EXCEPT !.gen = cluster.gen] OBVIOUS
  <2>2. /\ UNCHANGED hist
        /\ ds' \in {[new EXCEPT !.state = "starting", !.manager = TRUE],
                    [new EXCEPT !.state = "failed"]}
    BY <1>3, <2>1 DEF ReconcileAdd
  <2>3. ds'.channel = <<>> /\ ds'.at = 1 /\ \A k \in Kinds : ds'.informer[k] = 0
    <3>1. /\ NoSource \in Source /\ NoSource.at = 1 /\ NoSource.channel = <<>>
          /\ \A k \in Kinds : NoSource.informer[k] = 0
      BY DEF NoSource, Source
    <3>2. cluster.gen \in Nat BY <1>0 DEF Typed, MigClusters
    <3>3. /\ new \in Source /\ new.at = 1 /\ new.channel = <<>>
          /\ \A k \in Kinds : new.informer[k] = 0
      BY <2>1, <3>1, <3>2 DEF Source
    <3>4. CASE ds' = [new EXCEPT !.state = "starting", !.manager = TRUE]
      BY <3>3, <3>4 DEF Source
    <3>5. CASE ds' = [new EXCEPT !.state = "failed"] BY <3>3, <3>5 DEF Source
    <3> QED BY <2>2, <3>4, <3>5
  <2> QED BY <1>0, <1>3, <2>2, <2>3, LivesKept, AddTie, FreshStory
<1>4. CASE List
  <2>1. UNCHANGED hist BY <1>4 DEF List
  <2> QED BY <1>0, <1>4, <2>1, LivesKept, ListStory
<1>5. CASE Commit BY <1>0, <1>5, LivesKept, CommitStory
<1>6. CASE Apply
  <2>1. UNCHANGED hist BY <1>6 DEF Apply
  <2> QED BY <1>0, <1>6, <2>1, LivesKept, ApplyTie, ApplyStory
<1>7. ASSUME NEW i \in DOMAIN drains, Drain(i) PROVE Lives' /\ Tie' /\ Stories'
  <2>1. PICK gen, threshold, e :
           /\ gen = drains[i].gen /\ threshold = drains[i].threshold
           /\ e = Head(drains[i].channel)
    OBVIOUS
  <2>2. e \in Ev /\ threshold \in Nat BY <1>0, <1>7, <2>1, DrainFacts
  <2>3. e.kind \in Kinds BY <2>2 DEF Ev
  <2>4. AfterEvent(gen, e, threshold) \in SUBSET Obj BY <1>0, <2>2, AfterEventFacts
  <2>5. WriteRow(e.kind, AfterEvent(gen, e, threshold)) BY <1>7, <2>1 DEF Drain
  <2>6. \A k \in Kinds : k # e.kind => db'.rows[k] = db.rows[k]
    BY <1>0, <2>3, <2>4, <2>5, WriteRowFacts
  <2>7. /\ off' = IF db' # db /\ ds.listed[e.kind] > 0
                  THEN [off EXCEPT ![e.kind] = @ \cup {"stale"}] ELSE off
        /\ UNCHANGED <<hist, cluster, ds>>
    BY <1>7, <2>1 DEF Drain
  <2>8. /\ \A k \in Kinds : off[k] \subseteq off'[k]
        /\ db' # db /\ ds.listed[e.kind] > 0 => off'[e.kind] # {}
    BY <1>0, <2>3, <2>7
  <2>9. ds.listed[e.kind] \in Nat BY <1>0, <2>3, ChannelFacts
  <2>10. \A k \in Kinds : db'.rows[k] = db.rows[k] \/ ds.listed[k] = 0 \/ off'[k] # {}
    BY <2>3, <2>6, <2>8, <2>9
  <2> QED BY <1>0, <1>7, <2>7, <2>8, <2>10, LivesKept, DrainTie, AsideStory
<1>8. ASSUME NEW kind \in Kinds,
             InformerStarts(kind) \/ InformerTells(kind) \/ InformerLists(kind)
      PROVE  Lives' /\ Tie' /\ Stories'
  <2>1. UNCHANGED hist BY <1>8 DEF InformerStarts, InformerTells, InformerLists
  <2> QED BY <1>0, <1>8, <2>1, LivesKept, InformerTie, InformerStory
<1>9. ASSUME NEW kind \in Kinds, Change(kind) PROVE Lives' /\ Tie' /\ Stories'
  <2>1. UNCHANGED <<cluster, db, ds, drains, off>> BY <1>9 DEF Change
  <2>2. Lives' /\ \A k \in Kinds : Kept(k) BY <1>0, <1>9, ChangeLives
  <2>3. Tie' BY <1>0, <2>1 DEF Tie, Active
  <2>4. ASSUME NEW k \in Kinds PROVE Story(k)'
    <3>1. Kept(k) /\ Story(k) BY <1>0, <2>2 DEF Stories
    <3> QED BY <1>0, <2>1, <3>1, StoryKept
  <2> QED BY <2>2, <2>3, <2>4 DEF Stories
<1>10. CASE CollectionFails
  <2>1. StartFails /\ ds.state = "starting" /\ UNCHANGED hist
    BY <1>10 DEF CollectionFails, StartFails
  <2> QED BY <1>0, <2>1, LivesKept, FailsTie, FailsStory
<1>11. CASE Turn
  <2>1. UNCHANGED <<hist, db, ds, drains, off>> BY <1>11 DEF Turn
  <2> QED BY <1>0, <1>11, <2>1, LivesKept, TurnTie, AsideStory
<1>17. CASE ReconcileInvalid
  <2>1. UNCHANGED <<hist, db, ds, drains, off>> BY <1>17 DEF ReconcileInvalid
  <2> QED BY <1>0, <1>17, <2>1, LivesKept, InvalidTie, AsideStory
<1>12. CASE Crash
  <2>1. UNCHANGED hist /\ ds' = NoSource BY <1>12 DEF Crash
  <2>2. ds'.channel = <<>> /\ ds'.at = 1 /\ \A k \in Kinds : ds'.informer[k] = 0
    BY <2>1 DEF NoSource
  <2> QED BY <1>0, <1>12, <2>1, <2>2, LivesKept, CrashTie, FreshStory
<1>13. CASE UNCHANGED vars
  <2>1. UNCHANGED <<hist, cluster, db, ds, drains, off>> BY <1>13 DEF vars
  <2>2. Tie' BY <1>0, <2>1 DEF Tie, Active
  <2> QED BY <1>0, <2>1, <2>2, LivesKept, AsideStory
<1>14. CASE Sources BY <1>1, <1>2, <1>3, <1>4, <1>5, <1>6, <1>7, <1>14 DEF Sources
<1>15. CASE Informers BY <1>8, <1>15 DEF Informers
<1>16. CASE World BY <1>8, <1>9, <1>10, <1>11, <1>12, <1>16, <1>17 DEF World
<1> QED BY <1>13, <1>14, <1>15, <1>16 DEF Next, Progress

\* When there is nothing left to tell or to apply the rows are those of the cluster.
LEMMA FaithfulThen == IInv /\ FInv => Faithful
<1> SUFFICES ASSUME IInv, FInv, Quiet PROVE Faithful BY DEF Faithful
<1>0. Typed /\ Lives /\ Tie /\ Stories BY DEF IInv, FInv
<1>1. cluster.pruned /\ ~cluster.queued
      /\ (cluster.gen # 0 =>
             ds.state = "running" /\ ds.channel = <<>> /\ \A k \in Kinds : Told(k))
  BY DEF Quiet
<1>2. CASE cluster.gen = 0
  <2>1. cluster.barred \/ db.cluster = 0 BY <1>0, <1>1, <1>2 DEF Tie
  <2>2. db.cluster = 0 => db = [cluster |-> 0, rows |-> [k \in Kinds |-> Nothing]]
    <3> SUFFICES ASSUME db.cluster = 0
                 PROVE  db = [cluster |-> 0, rows |-> [k \in Kinds |-> Nothing]]
      OBVIOUS
    <3>1. db \in [cluster : Nat, rows : [Kinds -> Obj]] BY <1>0 DEF Typed
    <3>2. \A k \in Kinds : db.rows[k] = Nothing BY <1>0 DEF Tie
    <3>3. db.rows = [k \in Kinds |-> Nothing] BY <3>1, <3>2
    <3> QED BY <3>1, <3>3
  <2> QED BY <1>2, <2>1, <2>2 DEF Faithful
<1>3. CASE cluster.gen # 0
  <2>1. (cluster.ignored /\ ds.gen # cluster.gen) \/ db.cluster = cluster.gen
    BY <1>0, <1>1, <1>3 DEF Tie, Active
  <2>2. ASSUME NEW k \in Kinds, off[k] = {} PROVE db.rows[k] = Now[k]
    <3>1. Story(k) /\ Len(ds.channel) = 0 BY <1>0, <1>1, <1>3 DEF Stories
    <3>2. PICK when \in [0..1 -> 0..Len(hist)] : Tells(k, when) /\ (Done(k) => Row(k, when[0]))
      BY <2>2, <3>1 DEF Story
    <3>3. Done(k)
      <4>1. PICK i \in DOMAIN Collections : Collections[i] = k BY KindsFacts
      <4>2. i < ds.at
        <5> ds.at \in Nat /\ ds.at > Len(Collections)
          BY <1>1, <1>3 DEF IInv, Order, Typed, Source
        <5> QED BY KindsFacts
      <4> QED BY <1>1, <1>3, <4>1, <4>2 DEF Done, Active
    <3>4. PICK a \in 0..Len(hist) : a = when[0] BY <3>2
    <3>5. PICK inf \in 0..Len(hist) : inf = ds.informer[k] BY <1>0, ViewIs
    <3>6. Silent(k, a, inf) BY <3>1, <3>2, <3>4, <3>5 DEF Tells
    <3>7. Row(k, inf) BY <1>0, <3>2, <3>3, <3>4, <3>6, DoneKnown, RowCarried
    <3>8. /\ Len(hist) \in Nat \ {0} /\ View(k, Len(hist)) = Now[k]
          /\ \A t \in 1..Len(hist) : View(k, t) = hist[t][k]
          /\ ds.listed[k] \in 0..Len(hist)
      BY <1>0, ViewIs
    <3>9. inf > 0 /\ Pending(k) = {} BY <1>1, <1>3, <3>5 DEF Told
    <3>10. ASSUME NEW t \in inf..Len(hist) PROVE View(k, t) = View(k, inf)
      <4>1. t \in 1..Len(hist) /\ inf \in 1..Len(hist) BY <3>8, <3>9
      <4>2. CASE t = inf BY <4>2
      <4>3. CASE t # inf
        <5>1. t \in (inf + 1)..Len(hist) BY <3>8, <4>1, <4>3
        <5>2. hist[t][k] = hist[inf][k] BY <3>5, <3>9, <5>1 DEF Pending
        <5> QED BY <3>8, <4>1, <5>2
      <4> QED BY <4>2, <4>3
    <3>11. Len(hist) \in inf..Len(hist) BY <3>8
    <3>12. Now[k] = View(k, inf) BY <3>8, <3>10, <3>11
    <3>13. CASE inf > ds.listed[k] BY <3>7, <3>12, <3>13 DEF Row, Shows
    <3>14. CASE ~(inf > ds.listed[k])
      <4>1. ds.listed[k] \in inf..Len(hist) BY <3>8, <3>14
      <4>2. View(k, ds.listed[k]) = View(k, inf) BY <3>10, <4>1
      <4> QED BY <3>7, <3>12, <3>14, <4>2 DEF Row, Shows
    <3> QED BY <3>13, <3>14
  <2>3. \A k \in Kinds : db.rows[k] = Now[k] \/ off[k] # {} BY <2>2
  <2> QED BY <1>3, <2>1, <2>3 DEF Faithful
<1> QED BY <1>2, <1>3

\* RowsFaithful: when every event has been told and applied the rows of a cluster
\* are its objects, whatever was changed, restarted, broken or stopped before
\* (pkg/controller/discovery: DataSource.Start, applyEvents and the reconcilers of the
\* collections), but for the rows that off says may differ, each for one of five known
\* reasons.  Of a cluster that is gone there are none, but for those a deletion that
\* failed (ds.go:144, container.go:130) or that found no data source has left.
THEOREM RowsFaithful == Spec => []Faithful
<1>1. Init => IInv /\ FInv BY IInvInit, FInvInit
<1>2. (IInv /\ FInv) /\ [Next]_vars => (IInv /\ FInv)' BY IInvNext, FInvNext
<1>3. IInv /\ FInv => Faithful BY FaithfulThen
<1> QED BY <1>1, <1>2, <1>3, PTL DEF Spec
================================================================================

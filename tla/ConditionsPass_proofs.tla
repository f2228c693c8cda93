------------------------ MODULE ConditionsPass_proofs ------------------------
(***************************************************************************)
(* Proofs about ConditionsPass, for every catalogue of conditions and any  *)
(* number of faults.  ReadyExcludesBlockers and the two action properties  *)
(* follow from one inductive invariant, IInv: what the collection in       *)
(* memory holds at each place of the pass, compared with what is stored.   *)
(***************************************************************************)
EXTENDS ConditionsPass, TLAPS

UniqueTypes(list) == \A c, d \in list : c.type = d.type => c = d

NoReady(list) == \A c \in list : c.type # "Ready"

Unblocked(list) ==
    (\E c \in list : c.type = "Ready") =>
        \A c \in list : c.category \notin {Critical, Error}

\* A durable condition on the server is staged in memory or was deleted.
DurableStaged ==
    \A c \in stored : c.durable =>
        \/ c.type \in deleted
        \/ c.type \in mem.staged /\ \E d \in mem.list : d.type = c.type

DurableHeld ==
    \A c \in stored : c.durable =>
        \/ early
        \/ c.type \in deleted
        \/ \E d \in mem.list : d.type = c.type

\* What is staged is durable or was touched by the pass.
StagedTouched ==
    \A c \in mem.list : c.type \in mem.staged => c.durable \/ c.type \in touched

HeldTouched ==
    \A c \in mem.list : c.durable \/ c.type \in touched \/ c = ReadyCondition

AtLoaded ==
    pc = "loaded" => ~mem.staging /\ (~stale => mem.list = stored)
AtClosing ==
    pc = "closing" => ~mem.staging /\ NoReady(mem.list) /\ (~stale => mem.list = stored)
AtStaging ==
    pc = "staging" => mem.staging /\ StagedTouched /\ (~stale => DurableStaged)
AtEnded ==
    pc = "ended" =>
        ~mem.staging /\ Unblocked(mem.list) /\ HeldTouched /\ (~stale => DurableStaged)
AtFailed ==
    pc = "failed" => NoReady(mem.list) /\ (~stale => DurableHeld)

IInv ==
    /\ TypeOK
    /\ UniqueTypes(stored)
    /\ UniqueTypes(mem.list)
    /\ Unblocked(stored)
    /\ AtLoaded
    /\ AtClosing
    /\ AtStaging
    /\ AtEnded
    /\ AtFailed

-----------------------------------------------------------------------------
(* The catalogue *)

\* The conditions the steps set themselves are in the catalogue, and the type
\* Ready belongs to one condition, which is neither durable nor a blocker.
LEMMA CatalogFacts ==
    /\ ReadyCondition \in Conds
    /\ ReconcileFailedCondition \in Conds
    /\ ClosedCondition \in Conds
    /\ ReadyCondition.type = "Ready"
    /\ ReconcileFailedCondition.type = "ReconcileFailed"
    /\ ClosedCondition.type = "Closed"
    /\ ReadyCondition.category \notin {Critical, Error}
    /\ \A c \in Conds : c.type = "Ready" => c = ReadyCondition /\ ~c.durable
    /\ \A c \in Conds : c.type = "Closed" => ~c.durable
    /\ \A c \in Catalog : c \in Conds /\ c.type # "Ready"
    /\ \A c \in Conds : c.type \in Types
    /\ ClosedDrops \subseteq Types
BY CatalogAssumption
   DEF CatalogAssumption, Conds, Types, TypesOf, Cond, ReadyCondition,
       ReconcileFailedCondition, ClosedCondition, Required, Critical, Error, Advisory

-----------------------------------------------------------------------------
(* What each method makes of a collection (condition.go) *)

\* A collection read back has its list and nothing staged.
LEMMA LoadedFacts ==
    ASSUME NEW list \in SUBSET Conds
    PROVE  /\ Loaded(list) \in Collections(Conds)
           /\ Loaded(list).list = list
           /\ Loaded(list).staged = {}
           /\ ~Loaded(list).staging
BY DEF Loaded, Collections

\* Staging begins with the durable conditions staged.
LEMMA BeginFacts ==
    ASSUME NEW r \in Collections(Conds)
    PROVE  /\ BeginStagingConditions(r) \in Collections(Conds)
           /\ BeginStagingConditions(r).list = r.list
           /\ BeginStagingConditions(r).staging
           /\ \A t : t \in BeginStagingConditions(r).staged <=>
                        \E c \in r.list : c.durable /\ c.type = t
BY CatalogFacts DEF BeginStagingConditions, Collections, TypesOf, Types

\* Staging ends with the staged conditions left in the list.
LEMMA EndFacts ==
    ASSUME NEW r \in Collections(Conds)
    PROVE  /\ EndStagingConditions(r) \in Collections(Conds)
           /\ EndStagingConditions(r).list = {c \in r.list : c.type \in r.staged}
           /\ EndStagingConditions(r).staged = r.staged
           /\ ~EndStagingConditions(r).staging
BY DEF EndStagingConditions, Collections

\* SetCondition replaces the type in the list and stages it.
LEMMA SetFacts ==
    ASSUME NEW r \in Collections(Conds), NEW c \in Conds
    PROVE  /\ SetCondition(r, c) \in Collections(Conds)
           /\ SetCondition(r, c).list = {d \in r.list : d.type # c.type} \cup {c}
           /\ SetCondition(r, c).staged = r.staged \cup {c.type}
           /\ SetCondition(r, c).staging = r.staging
BY CatalogFacts DEF SetCondition, Collections, Types

\* StageCondition leaves the list and stages types of it.
LEMMA StageFacts ==
    ASSUME NEW r \in Collections(Conds), NEW types
    PROVE  /\ StageCondition(r, types) \in Collections(Conds)
           /\ StageCondition(r, types).list = r.list
           /\ StageCondition(r, types).staging = r.staging
           /\ \A t : t \in StageCondition(r, types).staged <=>
                        \/ t \in r.staged
                        \/ t \in types /\ \E c \in r.list : c.type = t
BY CatalogFacts DEF StageCondition, Collections, TypesOf, Types

\* DeleteCondition un-stages the types, and leaves the list while staging.
LEMMA DeleteFacts ==
    ASSUME NEW r \in Collections(Conds), NEW types
    PROVE  /\ DeleteCondition(r, types) \in Collections(Conds)
           /\ DeleteCondition(r, types).list =
                 IF r.staging THEN r.list ELSE {c \in r.list : c.type \notin types}
           /\ DeleteCondition(r, types).staged = r.staged \ types
           /\ DeleteCondition(r, types).staging = r.staging
BY DEF DeleteCondition, Collections

\* SetReconcileFailed leaves ReconcileFailed and what was staged, but Ready.
LEMMA ReconcileFailedFacts ==
    ASSUME NEW r \in Collections(Conds)
    PROVE  /\ SetReconcileFailed(r) \in Collections(Conds)
           /\ \A c : c \in SetReconcileFailed(r).list <=>
                        \/ c = ReconcileFailedCondition
                        \/ /\ c \in r.list
                           /\ c.type \in r.staged
                           /\ c.type \notin {"Ready", "ReconcileFailed"}
<1> DEFINE d == DeleteCondition(r, {"Ready"})
           e == SetCondition(d, ReconcileFailedCondition)
<1>1. d \in Collections(Conds)
      /\ d.staged = r.staged \ {"Ready"}
      /\ d.list = IF r.staging THEN r.list ELSE {c \in r.list : c.type \notin {"Ready"}}
  BY DeleteFacts
<1>2. /\ ReconcileFailedCondition \in Conds
      /\ ReconcileFailedCondition.type = "ReconcileFailed"
  BY CatalogFacts
<1> HIDE DEF d
<1>3. /\ e \in Collections(Conds)
      /\ e.list = {c \in d.list : c.type # ReconcileFailedCondition.type}
                  \cup {ReconcileFailedCondition}
      /\ e.staged = d.staged \cup {ReconcileFailedCondition.type}
  BY <1>1, <1>2, SetFacts
<1>4. /\ EndStagingConditions(e) \in Collections(Conds)
      /\ EndStagingConditions(e).list = {c \in e.list : c.type \in e.staged}
  BY <1>3, EndFacts
<1>5. SetReconcileFailed(r) = EndStagingConditions(e)
  BY DEF SetReconcileFailed, d
<1> HIDE DEF e
<1> QED
  BY <1>1, <1>2, <1>3, <1>4, <1>5

\* What Finish leaves in memory: Ready only without blockers, otherwise what
\* was staged, and nothing staged is lost.
LEMMA FinishFacts ==
    ASSUME NEW r \in Collections(Conds), r.staging, UniqueTypes(r.list),
           NEW wanted \in BOOLEAN,
           NEW f, f = EndStagingConditions(
                          SetReady(r, wanted /\ ~HasBlockerCondition(r)))
    PROVE  /\ f \in Collections(Conds)
           /\ ~f.staging
           /\ UniqueTypes(f.list)
           /\ Unblocked(f.list)
           /\ \A c \in f.list :
                 c = ReadyCondition \/ (c \in r.list /\ c.type \in r.staged)
           /\ \A c \in r.list : c.type \in r.staged /\ c.type # "Ready" =>
                 c \in f.list /\ c.type \in f.staged
<1> DEFINE ready == wanted /\ ~HasBlockerCondition(r)
           s == SetReady(r, ready)
<1>1. /\ ReadyCondition \in Conds
      /\ ReadyCondition.type = "Ready"
      /\ ReadyCondition.category \notin {Critical, Error}
  BY CatalogFacts
<1>2. CASE ready
  <2>1. s = SetCondition(r, ReadyCondition)
    BY <1>2 DEF SetReady
  <2>2. /\ s \in Collections(Conds)
        /\ s.list = {d \in r.list : d.type # "Ready"} \cup {ReadyCondition}
        /\ s.staged = r.staged \cup {"Ready"}
    BY <2>1, <1>1, SetFacts
  <2>3. \A c \in r.list : c.type \in r.staged => c.category \notin {Critical, Error}
    BY <1>2 DEF HasBlockerCondition, HasConditionCategory, Visible
  <2> HIDE DEF s
  <2>4. /\ f \in Collections(Conds)
        /\ f.list = {c \in s.list : c.type \in s.staged}
        /\ f.staged = s.staged
        /\ ~f.staging
    BY <2>2, EndFacts DEF s
  <2>5. UniqueTypes(f.list)
    BY <2>2, <2>4, <1>1 DEF UniqueTypes
  <2>6. Unblocked(f.list)
    BY <2>2, <2>3, <2>4, <1>1 DEF Unblocked
  <2> QED
    BY <2>2, <2>4, <2>5, <2>6
<1>3. CASE ~ready
  <2>1. s = DeleteCondition(r, {"Ready"})
    BY <1>3 DEF SetReady
  <2>2. /\ s \in Collections(Conds)
        /\ s.list = r.list
        /\ s.staged = r.staged \ {"Ready"}
    <3>1. /\ DeleteCondition(r, {"Ready"}) \in Collections(Conds)
          /\ DeleteCondition(r, {"Ready"}).list = r.list
          /\ DeleteCondition(r, {"Ready"}).staged = r.staged \ {"Ready"}
      BY DeleteFacts
    <3> QED
      BY <2>1, <3>1
  <2> HIDE DEF s
  <2>3. /\ f \in Collections(Conds)
        /\ f.list = {c \in s.list : c.type \in s.staged}
        /\ f.staged = s.staged
        /\ ~f.staging
    BY <2>2, EndFacts DEF s
  <2>4. UniqueTypes(f.list)
    BY <2>2, <2>3 DEF UniqueTypes
  <2>5. Unblocked(f.list)
    BY <2>2, <2>3 DEF Unblocked
  <2> QED
    BY <2>2, <2>3, <2>4, <2>5
<1> QED
  BY <1>2, <1>3

-----------------------------------------------------------------------------
(* The inductive invariant *)

\* The pass holds nothing between two passes, so only what concerns the
\* stored conditions is left to show after a step that leaves.
LEMMA LeaveFacts ==
    ASSUME Leave,
           stored' \in SUBSET Conds, faults' \in 0..MaxFaults,
           UniqueTypes(stored'), Unblocked(stored')
    PROVE  IInv'
<1>1. /\ Loaded({}) \in Collections(Conds)
      /\ Loaded({}).list = {}
  BY LoadedFacts
<1>2. TypeOK'
  BY <1>1 DEF TypeOK, Leave, PCs
<1>3. UniqueTypes(mem.list)'
  BY <1>1 DEF Leave, UniqueTypes
<1> QED
  BY <1>2, <1>3
     DEF Leave, IInv, AtLoaded, AtClosing, AtStaging, AtEnded, AtFailed

\* The controller starts with an invariant state.
THEOREM IInvInit == Init => IInv
<1> SUFFICES ASSUME Init PROVE IInv
  OBVIOUS
<1>1. /\ Loaded({}) \in Collections(Conds)
      /\ Loaded({}).list = {}
  BY LoadedFacts
<1>2. MaxFaults \in Nat /\ 0 \in 0..MaxFaults
  BY CatalogAssumption DEF CatalogAssumption
<1>3. TypeOK
  BY <1>1, <1>2 DEF Init, TypeOK, PCs
<1> QED
  BY <1>1, <1>3
     DEF Init, IInv, UniqueTypes, Unblocked, AtLoaded, AtClosing, AtStaging,
         AtEnded, AtFailed

\* No step of the pass, of another client or of a failure breaks it.
THEOREM IInvNext == IInv /\ [Next]_vars => IInv'
<1> SUFFICES ASSUME IInv, [Next]_vars PROVE IInv'
  OBVIOUS
<1>1. /\ mem \in Collections(Conds)
      /\ stored \in SUBSET Conds
      /\ faults \in 0..MaxFaults
      /\ touched \in SUBSET Types
      /\ deleted \in SUBSET Types
      /\ mem.list \in SUBSET Conds
      /\ pc \in PCs
      /\ stale \in BOOLEAN
      /\ early \in BOOLEAN
  BY DEF IInv, TypeOK, Collections
<1>2. /\ \A c \in Conds : c.type = "Ready" => c = ReadyCondition /\ ~c.durable
      /\ \A c \in Conds : c.type = "Closed" => ~c.durable
      /\ \A c \in Catalog : c \in Conds /\ c.type # "Ready" /\ c.type \in Types
      /\ ReconcileFailedCondition \in Conds
      /\ ReconcileFailedCondition.type = "ReconcileFailed"
      /\ ClosedCondition \in Conds
      /\ ClosedCondition.type = "Closed"
  BY CatalogFacts
<1>3. Fault => faults' \in 0..MaxFaults
  BY <1>1, CatalogAssumption DEF Fault, CatalogAssumption
<1>4. NoReady(mem.list) => Unblocked(mem.list)
  BY DEF NoReady, Unblocked
<1>5. CASE Get
  <2>1. /\ Loaded(stored) \in Collections(Conds)
        /\ Loaded(stored).list = stored
        /\ ~Loaded(stored).staging
    BY <1>1, LoadedFacts
  <2>2. TypeOK'
    BY <1>1, <1>5, <2>1 DEF Get, TypeOK, PCs
  <2>3. AtLoaded'
    BY <1>5, <2>1 DEF Get, AtLoaded
  <2> QED
    BY <1>5, <2>1, <2>2, <2>3
       DEF Get, IInv, AtClosing, AtStaging, AtEnded, AtFailed
<1>6. CASE BeginStaging
  <2>1. /\ mem' \in Collections(Conds)
        /\ mem'.list = mem.list
        /\ mem'.staging
        /\ \A t : t \in mem'.staged <=> \E c \in mem.list : c.durable /\ c.type = t
    BY <1>1, <1>6, BeginFacts DEF BeginStaging
  <2>2. TypeOK'
    BY <1>1, <1>6, <2>1 DEF BeginStaging, TypeOK, PCs
  <2>3. StagedTouched'
    BY <1>6, <2>1 DEF BeginStaging, StagedTouched, IInv, UniqueTypes
  <2>4. ~stale' => DurableStaged'
    BY <1>6, <2>1 DEF BeginStaging, DurableStaged, IInv, AtLoaded
  <2>5. AtStaging'
    BY <2>1, <2>3, <2>4 DEF AtStaging
  <2> QED
    BY <1>6, <2>1, <2>2, <2>5
       DEF BeginStaging, IInv, AtLoaded, AtClosing, AtEnded, AtFailed
<1>7. ASSUME NEW c \in Catalog, Set(c) PROVE IInv'
  <2>1. /\ mem' \in Collections(Conds)
        /\ mem'.list = {d \in mem.list : d.type # c.type} \cup {c}
        /\ mem'.staged = mem.staged \cup {c.type}
        /\ mem'.staging = mem.staging
    BY <1>1, <1>2, <1>7, SetFacts DEF Set
  <2>2. TypeOK'
    BY <1>1, <1>2, <1>7, <2>1 DEF Set, TypeOK, PCs
  <2>3. UniqueTypes(mem.list)'
    BY <2>1 DEF IInv, UniqueTypes
  <2>4. AtStaging'
    BY <1>7, <2>1 DEF Set, IInv, AtStaging, StagedTouched, DurableStaged
  <2> QED
    BY <1>7, <2>2, <2>3, <2>4
       DEF Set, IInv, AtLoaded, AtClosing, AtEnded, AtFailed
<1>8. ASSUME NEW t \in TypesOf(Catalog), Stage(t) PROVE IInv'
  <2>1. /\ mem' \in Collections(Conds)
        /\ mem'.list = mem.list
        /\ mem'.staging = mem.staging
        /\ \A u : u \in mem'.staged <=>
              u \in mem.staged \/ (u \in {t} /\ \E c \in mem.list : c.type = u)
    BY <1>1, <1>8, StageFacts DEF Stage
  <2>2. t \in Types
    BY <1>2 DEF TypesOf
  <2>3. TypeOK'
    BY <1>1, <1>8, <2>1, <2>2 DEF Stage, TypeOK, PCs
  <2>4. AtStaging'
    BY ZenonT(60), <1>8, <2>1 DEF Stage, IInv, AtStaging, StagedTouched, DurableStaged, TypesOf
  <2> QED
    BY <1>8, <2>1, <2>3, <2>4
       DEF Stage, IInv, AtLoaded, AtClosing, AtEnded, AtFailed
<1>9. ASSUME NEW t \in TypesOf(Catalog), Delete(t) PROVE IInv'
  <2>1. /\ mem' \in Collections(Conds)
        /\ mem'.list = mem.list
        /\ mem'.staged = mem.staged \ {t}
        /\ mem'.staging = mem.staging
    <3>1. mem' = DeleteCondition(mem, {t}) /\ mem.staging
      BY <1>9 DEF Delete, IInv, AtStaging
    <3> QED
      BY <1>1, <3>1, DeleteFacts
  <2>2. t \in Types
    BY <1>2 DEF TypesOf
  <2>3. TypeOK'
    BY <1>1, <1>9, <2>1, <2>2 DEF Delete, TypeOK, PCs
  <2>4. AtStaging'
    BY <1>9, <2>1 DEF Delete, IInv, AtStaging, StagedTouched, DurableStaged
  <2> QED
    BY <1>9, <2>1, <2>3, <2>4
       DEF Delete, IInv, AtLoaded, AtClosing, AtEnded, AtFailed
<1>10. ASSUME NEW wanted \in BOOLEAN, Finish(wanted) PROVE IInv'
  <2>1. /\ mem' \in Collections(Conds)
        /\ ~mem'.staging
        /\ UniqueTypes(mem'.list)
        /\ Unblocked(mem'.list)
        /\ \A c \in mem'.list :
              c = ReadyCondition \/ (c \in mem.list /\ c.type \in mem.staged)
        /\ \A c \in mem.list : c.type \in mem.staged /\ c.type # "Ready" =>
              c \in mem'.list /\ c.type \in mem'.staged
    <3>1. mem.staging /\ UniqueTypes(mem.list)
      BY <1>10 DEF Finish, IInv, AtStaging
    <3> QED
      BY <1>1, <1>10, <3>1, FinishFacts DEF Finish
  <2>2. TypeOK'
    BY <1>1, <1>10, <2>1 DEF Finish, TypeOK, PCs
  <2>3. HeldTouched'
    BY <1>10, <2>1 DEF Finish, IInv, AtStaging, StagedTouched, HeldTouched
  <2>4. ~stale' => DurableStaged'
    BY <1>1, <1>2, <1>10, <2>1 DEF Finish, IInv, AtStaging, DurableStaged
  <2>5. AtEnded'
    BY <2>1, <2>3, <2>4 DEF AtEnded
  <2> QED
    BY <1>10, <2>1, <2>2, <2>5
       DEF Finish, IInv, AtLoaded, AtClosing, AtStaging, AtFailed
<1>11. CASE Update
  <2>1. Unblocked(mem.list)
    BY <1>4, <1>11 DEF Update, IInv, AtEnded, AtFailed
  <2>2. /\ stored' \in SUBSET Conds
        /\ UniqueTypes(stored')
        /\ Unblocked(stored')
    BY <1>1, <1>11, <2>1 DEF Update, IInv
  <2> QED
    BY <1>1, <1>11, <2>2, LeaveFacts DEF Update
<1>12. CASE CloseStart
  <2>1. /\ mem' \in Collections(Conds)
        /\ mem'.list = {c \in mem.list : c.type \notin {"Ready"}}
        /\ ~mem'.staging
        /\ stored' = mem'.list
    <3>1. mem' = DeleteCondition(mem, {"Ready"}) /\ ~mem.staging
      BY <1>12 DEF CloseStart, SetReady, IInv, AtLoaded
    <3>2. /\ DeleteCondition(mem, {"Ready"}) \in Collections(Conds)
          /\ DeleteCondition(mem, {"Ready"}).list =
                {c \in mem.list : c.type \notin {"Ready"}}
          /\ ~DeleteCondition(mem, {"Ready"}).staging
      BY ZenonT(60), <1>1, <3>1, DeleteFacts
    <3>3. stored' = mem'.list
      BY <1>12 DEF CloseStart
    <3> QED
      BY <3>1, <3>2, <3>3
  <2>2. TypeOK'
    BY <1>1, <1>12, <2>1 DEF CloseStart, TypeOK, PCs
  <2>3. UniqueTypes(mem.list)' /\ UniqueTypes(stored)' /\ Unblocked(stored)'
    BY <2>1 DEF IInv, UniqueTypes, Unblocked
  <2>4. AtClosing'
    BY <2>1 DEF AtClosing, NoReady
  <2> QED
    BY <1>12, <2>2, <2>3, <2>4
       DEF CloseStart, IInv, AtLoaded, AtStaging, AtEnded, AtFailed
<1>13. CASE CloseDone
  <2> DEFINE r == DeleteCondition(mem, ClosedDrops)
  <2>1. /\ r \in Collections(Conds)
        /\ r.list = {c \in mem.list : c.type \notin ClosedDrops}
    BY <1>1, <1>13, DeleteFacts DEF CloseDone, IInv, AtClosing
  <2>2. stored' = SetCondition(r, ClosedCondition).list
    BY <1>13 DEF CloseDone
  <2> HIDE DEF r
  <2>3. stored' = {d \in r.list : d.type # ClosedCondition.type} \cup {ClosedCondition}
    BY <1>2, <2>1, <2>2, SetFacts
  <2>4. stored' \in SUBSET Conds
    BY <1>1, <1>2, <2>1, <2>3
  <2>5. UniqueTypes(stored')
    BY <2>1, <2>3 DEF IInv, UniqueTypes
  <2>6. NoReady(stored')
    BY <1>2, <1>13, <2>1, <2>3 DEF CloseDone, IInv, AtClosing, NoReady
  <2>7. Unblocked(stored')
    BY <2>6 DEF NoReady, Unblocked
  <2> QED
    BY <1>1, <1>13, <2>4, <2>5, <2>7, LeaveFacts DEF CloseDone
<1>14. CASE CloseConflict
  BY <1>1, <1>14, LeaveFacts DEF CloseConflict, IInv
<1>15. ASSUME mem' = SetReconcileFailed(mem)
       PROVE  /\ mem' \in Collections(Conds)
              /\ UniqueTypes(mem'.list)
              /\ NoReady(mem'.list)
  <2>1. /\ mem' \in Collections(Conds)
        /\ \A c : c \in mem'.list <=>
              \/ c = ReconcileFailedCondition
              \/ /\ c \in mem.list
                 /\ c.type \in mem.staged
                 /\ c.type \notin {"Ready", "ReconcileFailed"}
    BY <1>1, <1>15, ReconcileFailedFacts
  <2> QED
    BY <1>2, <2>1 DEF IInv, UniqueTypes, NoReady
<1>16. CASE Fail
  <2>1. /\ mem' \in Collections(Conds)
        /\ UniqueTypes(mem'.list)
        /\ NoReady(mem'.list)
    BY <1>15, <1>16 DEF Fail
  <2>2. TypeOK'
    BY <1>1, <1>3, <1>16, <2>1 DEF Fail, TypeOK, PCs
  <2>3. ASSUME ~stale', pc \in {"staging", "ended"} PROVE DurableHeld'
    <3>1. DurableStaged
      BY <1>16, <2>3 DEF Fail, IInv, AtStaging, AtEnded
    <3>2. \A c : c \in mem'.list <=>
              \/ c = ReconcileFailedCondition
              \/ /\ c \in mem.list
                 /\ c.type \in mem.staged
                 /\ c.type \notin {"Ready", "ReconcileFailed"}
      BY <1>1, <1>16, ReconcileFailedFacts DEF Fail
    <3> QED
      BY <1>1, <1>2, <1>16, <3>1, <3>2 DEF Fail, DurableStaged, DurableHeld
  <2>4. AtFailed'
    BY <1>16, <2>1, <2>3 DEF Fail, AtFailed, DurableHeld
  <2> QED
    BY <1>16, <2>1, <2>2, <2>4
       DEF Fail, IInv, AtLoaded, AtClosing, AtStaging, AtEnded
<1>17. CASE UpdateAnswerLost
  <2>1. /\ mem' \in Collections(Conds)
        /\ UniqueTypes(mem'.list)
        /\ NoReady(mem'.list)
    BY <1>15, <1>17 DEF UpdateAnswerLost
  <2>2. TypeOK'
    BY <1>1, <1>3, <1>17, <2>1 DEF UpdateAnswerLost, TypeOK, PCs
  <2>3. UniqueTypes(stored)' /\ Unblocked(stored)'
    BY <1>17 DEF UpdateAnswerLost, IInv, AtEnded
  <2> QED
    BY <1>17, <2>1, <2>2, <2>3
       DEF UpdateAnswerLost, IInv, AtLoaded, AtClosing, AtStaging, AtEnded, AtFailed
<1>18. CASE Abandon
  BY <1>1, <1>3, <1>18, LeaveFacts DEF Abandon, IInv
<1>19. CASE ForeignEdit
  <2>1. TypeOK'
    BY <1>1, <1>3, <1>19 DEF ForeignEdit, TypeOK
  <2>2. AtStaging' /\ AtEnded'
    BY <1>19 DEF ForeignEdit, IInv, AtStaging, AtEnded, StagedTouched, HeldTouched
  <2> QED
    BY <1>19, <2>1, <2>2
       DEF ForeignEdit, IInv, AtLoaded, AtClosing, AtFailed
<1>20. ASSUME NEW t \in TypesOf(Catalog), ForeignDelete(t) PROVE IInv'
  <2>1. /\ Loaded(stored) \in Collections(Conds)
        /\ Loaded(stored).list = stored
        /\ ~Loaded(stored).staging
    BY <1>1, LoadedFacts
  <2>2. stored' = {c \in stored : c.type \notin {t}}
    <3>1. DeleteCondition(Loaded(stored), {t}).list =
             {c \in Loaded(stored).list : c.type \notin {t}}
      BY <2>1, DeleteFacts
    <3> QED
      BY <1>20, <2>1, <3>1 DEF ForeignDelete
  <2>3. TypeOK'
    BY <1>1, <1>3, <1>20, <2>2 DEF ForeignDelete, TypeOK
  <2>4. UniqueTypes(stored)' /\ Unblocked(stored)'
    BY <2>2 DEF IInv, UniqueTypes, Unblocked
  <2> QED
    BY <1>20, <2>3, <2>4
       DEF ForeignDelete, IInv, AtLoaded, AtClosing, AtStaging, AtEnded, AtFailed
<1>21. CASE UNCHANGED vars
  BY <1>21
     DEF vars, IInv, TypeOK, UniqueTypes, Unblocked, AtLoaded, AtClosing, AtStaging,
         AtEnded, AtFailed, NoReady, StagedTouched, HeldTouched, DurableStaged,
         DurableHeld
<1> QED
  BY <1>5, <1>6, <1>7, <1>8, <1>9, <1>10, <1>11, <1>12, <1>13, <1>14, <1>16,
     <1>17, <1>18, <1>19, <1>20, <1>21
     DEF Next, Pass, Environment

\* IInv holds in every reachable state.
THEOREM IInvHolds == Spec => []IInv
BY IInvInit, IInvNext, PTL DEF Spec

-----------------------------------------------------------------------------
(* The properties *)

\* The variables keep their types.
THEOREM TypeCorrect == Spec => []TypeOK
<1>1. IInv => TypeOK
  BY DEF IInv
<1> QED
  BY <1>1, IInvHolds, PTL

\* condition.go: no sequence of passes, failures, lost answers and foreign
\* writes stores Ready next to a Critical or an Error condition.
THEOREM ReadySafe == Spec => []ReadyExcludesBlockers
<1>1. IInv => ReadyExcludesBlockers
  BY DEF IInv, Unblocked, ReadyExcludesBlockers, TypesOf
<1> QED
  BY <1>1, IInvHolds, PTL

\* condition.go: once staging has begun, a durable condition leaves the
\* server only by the DeleteCondition of the pass that writes.
THEOREM DurableKept == Spec => DurableKeptByStagedPass
<1> DEFINE Kept(c) ==
        \/ pc = "idle"
        \/ pc = "closing" /\ c.type \in ClosedDrops
        \/ c.type \in deleted
        \/ early
<1>1. ASSUME IInv, Next,
             NEW c \in stored, c.durable, c.type \notin TypesOf(stored')
      PROVE  Kept(c)
  <2>1. /\ mem \in Collections(Conds)
        /\ mem.list \in SUBSET Conds
        /\ stored \in SUBSET Conds
        /\ c.type # "Ready"
        /\ c.type # "Closed"
        /\ ClosedCondition \in Conds
        /\ ClosedCondition.type = "Closed"
    BY <1>1, CatalogFacts DEF IInv, TypeOK, Collections
  <2>2. \A d \in stored' : d.type # c.type
    BY <1>1 DEF TypesOf
  <2>3. stored' # stored
    BY <2>2
  <2>4. CASE Update
    <3>1. ~stale /\ stored' = mem.list /\ pc \in {"ended", "failed"}
      BY <2>3, <2>4 DEF Update
    <3> QED
      BY <1>1, <2>2, <3>1 DEF IInv, AtEnded, AtFailed, DurableStaged, DurableHeld
  <2>5. CASE UpdateAnswerLost
    <3>1. ~stale /\ stored' = mem.list /\ pc = "ended"
      BY <2>5 DEF UpdateAnswerLost
    <3> QED
      BY <1>1, <2>2, <3>1 DEF IInv, AtEnded, DurableStaged
  <2>6. CASE CloseStart
    <3>1. mem' = DeleteCondition(mem, {"Ready"}) /\ ~mem.staging /\ stored' = mem'.list
      BY <1>1, <2>6 DEF CloseStart, SetReady, IInv, AtLoaded
    <3>2. DeleteCondition(mem, {"Ready"}).list =
             {d \in mem.list : d.type \notin {"Ready"}}
      BY <2>1, <3>1, DeleteFacts
    <3>3. mem.list = stored
      BY <1>1, <2>6 DEF CloseStart, IInv, AtLoaded
    <3>4. c \in stored'
      BY <1>1, <2>1, <3>1, <3>2, <3>3
    <3> QED
      BY <2>2, <3>4
  <2>7. CASE CloseDone
    <3> DEFINE r == DeleteCondition(mem, ClosedDrops)
    <3>1. pc = "closing" /\ ~mem.staging /\ mem.list = stored
      BY <1>1, <2>7 DEF CloseDone, IInv, AtClosing
    <3>2. /\ r \in Collections(Conds)
          /\ r.list = {d \in mem.list : d.type \notin ClosedDrops}
      BY <2>1, <3>1, DeleteFacts
    <3>3. stored' = SetCondition(r, ClosedCondition).list
      BY <2>7 DEF CloseDone
    <3> HIDE DEF r
    <3>4. stored' = {d \in r.list : d.type # ClosedCondition.type} \cup {ClosedCondition}
      BY <2>1, <3>2, <3>3, SetFacts
    <3>5. c.type \in ClosedDrops
      BY <1>1, <2>1, <2>2, <3>1, <3>2, <3>4
    <3> QED
      BY <3>1, <3>5
  <2>8. CASE \E t \in TypesOf(Catalog) : ForeignDelete(t)
    BY <2>8 DEF ForeignDelete
  <2>9. CASE \/ Get \/ BeginStaging \/ CloseConflict \/ Fail \/ Abandon \/ ForeignEdit
             \/ \E d \in Catalog : Set(d)
             \/ \E t \in TypesOf(Catalog) : Stage(t) \/ Delete(t)
             \/ \E wanted \in BOOLEAN : Finish(wanted)
    BY <2>3, <2>9
       DEF Get, BeginStaging, CloseConflict, Fail, Abandon, ForeignEdit, Set, Stage,
           Delete, Finish
  <2> QED
    BY <1>1, <2>4, <2>5, <2>6, <2>7, <2>8, <2>9 DEF Next, Pass, Environment
<1>2. IInv /\ [Next]_vars =>
        [\A c \in stored : c.durable /\ c.type \notin TypesOf(stored') => Kept(c)]_vars
  BY <1>1
<1> QED
  BY <1>2, IInvHolds, PTL DEF Spec, DurableKeptByStagedPass

\* condition.go: what a pass writes after EndStaging is durable, Ready, or
\* was set or re-staged by that pass.
THEOREM Unstaged == Spec => UnstagedDisappears
<1>1. ASSUME IInv, Next, pc = "ended", stored' # stored, NEW c \in stored'
      PROVE  c.durable \/ c.type \in touched \/ c = ReadyCondition
  <2>1. stored' = mem.list
    BY <1>1
       DEF Next, Pass, Environment, Get, BeginStaging, Set, Stage, Delete, Finish,
           Update, CloseStart, CloseDone, CloseConflict, Fail, UpdateAnswerLost,
           Abandon, ForeignEdit, ForeignDelete
  <2> QED
    BY <1>1, <2>1 DEF IInv, AtEnded, HeldTouched
<1>2. IInv /\ [Next]_vars =>
        [pc = "ended" /\ stored' # stored =>
           \A c \in stored' :
              \/ c.durable
              \/ c.type \in touched
              \/ c = ReadyCondition]_vars
  BY <1>1
<1> QED
  BY <1>2, IInvHolds, PTL DEF Spec, UnstagedDisappears
=============================================================================

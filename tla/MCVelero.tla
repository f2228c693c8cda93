-------------------------------- MODULE MCVelero --------------------------------
(* Plans with volumes and CRs of others, with hooks, and with images.          *)
EXTENDS Velero

CRsOf(src, dst) == [c \in Clusters |-> IF c = "src" THEN src ELSE dst]
Busy(src, dst) ==
    [c \in Clusters |-> IF c = "src" THEN [backup |-> src, restore |-> Nobody]
                        ELSE [backup |-> Nobody, restore |-> dst]]

Setup(vols, images, hooks, crs, copies, busy, registry, restic, maxFaults) ==
    [vols |-> vols, images |-> images, verify |-> hooks # {}, restic |-> restic,
     hooks |-> hooks, crs |-> crs, copies |-> copies, busy |-> busy, registry |-> registry,
     maxFaults |-> maxFaults]

Clean == CRsOf(None, None)
Rest == Busy(Nobody, Nobody)
LeftRegistry ==
    [secret |-> "good", dep |-> "up", of |-> Gone, pod |-> "ready", svc |-> "fits"]
OldRegistry == [LeftRegistry EXCEPT !.secret = "old"]
Left(kind) == <<Gone, kind>>
Theirs(kind) == <<Elsewhere, kind>>
Foreign(kind) == <<NoLabel, kind>>

MCSetups ==
    { Setup(TRUE, FALSE, {},
            CRsOf((Left("initial") :> "InProgress") @@ (Foreign("initial") :> "InProgress"),
                  Left("finalRestore") :> "New"),
            Clean, Busy(Left("initial"), Nobody), NoRegistry, TRUE, 1),
      Setup(TRUE, FALSE, {},
            CRsOf((Theirs("stage") :> "InProgress") @@ (Left("stage") :> "InProgress"),
                  Left("finalRestore") :> "InProgress"),
            CRsOf((Theirs("stage") :> "New") @@ (Left("stage") :> "New"), None),
            Busy(Theirs("stage"), Left("finalRestore")), NoRegistry, FALSE, 1),
      Setup(FALSE, FALSE, HookPhases, Clean, Clean, Rest, NoRegistry, FALSE, 2),
      Setup(FALSE, TRUE, {}, Clean, Clean, Rest, NoRegistry, FALSE, 1),
      Setup(FALSE, TRUE, {}, Clean, Clean, Rest, LeftRegistry, FALSE, 1),
      Setup(FALSE, TRUE, {}, Clean, Clean, Rest, OldRegistry, FALSE, 1) }
===============================================================================

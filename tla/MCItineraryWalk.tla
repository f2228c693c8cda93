--------------------------- MODULE MCItineraryWalk ---------------------------
(* Plans and specs to walk with: every combination of the facts that the    *)
(* flags of the itineraries tell apart.                                     *)
EXTENDS ItineraryWalk

AllHooks == {"HasPreBackupHooks", "HasPostBackupHooks",
             "HasPreRestoreHooks", "HasPostRestoreHooks"}

\* A plan of a state type, an intra-cluster plan and a plan with images
\* disabled switch off the same flag, and hooks meet no other flag, so each of
\* these varies with another fact instead of on its own.
MCPlans ==
    {p \in [anyPVs : BOOLEAN, moveOrSnapshotPVs : BOOLEAN, directClaims : BOOLEAN,
            imageStreams : BOOLEAN, indirectImage : BOOLEAN,
            indirectVolume : BOOLEAN, imagesDisabled : BOOLEAN,
            volumesDisabled : BOOLEAN, intraCluster : BOOLEAN,
            sameNamespaces : BOOLEAN, stateType : BOOLEAN,
            liveMigrate : BOOLEAN, hooks : {{}, AllHooks}] :
        /\ p.moveOrSnapshotPVs \/ p.directClaims => p.anyPVs
        /\ p.sameNamespaces => p.intraCluster
        /\ p.liveMigrate => p.directClaims
        /\ p.stateType = p.sameNamespaces
        /\ p.imagesDisabled => p.imageStreams /\ ~p.intraCluster
        /\ p.volumesDisabled = (p.anyPVs /\ p.hooks # {} /\ ~p.liveMigrate)
        /\ (p.hooks # {}) = p.imagesDisabled}

MCSpecs ==
    {[stage |-> kind = "stage", rollback |-> kind = "rollback",
      migrateState |-> kind = "state", quiescePods |-> quiesce,
      verify |-> quiesce, canceled |-> FALSE] :
        kind \in {"stage", "final", "rollback", "state"}, quiesce \in BOOLEAN}
=============================================================================

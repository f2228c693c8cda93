--------------------------- MODULE MCMigMigration ---------------------------
(* Instances of MigMigration for TLC: final migrations f1 and f2, a stage    *)
(* migration s and a rollback r, of plans that differ in how they copy       *)
(* images and volumes.                                                       *)
EXTENDS MigMigration

MCSpec(kind, quiesce) ==
    [stage |-> kind = "stage", rollback |-> kind = "rollback", migrateState |-> FALSE,
     quiescePods |-> quiesce, verify |-> quiesce, keepAnnotations |-> FALSE]

MCSpecOf ==
    [f1 |-> MCSpec("final", TRUE), f2 |-> MCSpec("final", TRUE),
     s |-> MCSpec("stage", FALSE),
     r |-> [MCSpec("rollback", FALSE) EXCEPT !.keepAnnotations = TRUE]]

MCPlanWith(indirectImage, indirectVolume, anyPVs, images) ==
    [anyPVs |-> anyPVs, moveOrSnapshotPVs |-> FALSE,
     directClaims |-> anyPVs, imageStreams |-> images,
     indirectImage |-> indirectImage, indirectVolume |-> indirectVolume,
     imagesDisabled |-> FALSE, volumesDisabled |-> FALSE, intraCluster |-> FALSE,
     sameNamespaces |-> FALSE, stateType |-> FALSE, liveMigrate |-> FALSE,
     hooks |-> {}]

\* Registries, a stage backup of the images, a direct volume migration.
MCMixed == {MCPlanWith(TRUE, FALSE, TRUE, TRUE)}
\* Direct image and volume migrations.
MCDirect == {MCPlanWith(FALSE, FALSE, TRUE, TRUE)}
\* Nothing but a backup and a restore.
MCBare == {MCPlanWith(TRUE, TRUE, FALSE, FALSE)}

\* Both, and one within one cluster that maps every namespace to itself, of
\* which final and stage migrations are rejected.
MCAll ==
    MCMixed \cup MCBare
    \cup {[p EXCEPT !.intraCluster = TRUE, !.sameNamespaces = TRUE] : p \in MCBare}
=============================================================================

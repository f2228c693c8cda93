-------------------------- MODULE MCConditionsPass --------------------------
(* Instance of ConditionsPass for TLC: one condition of every combination   *)
(* of durability and blocking that the controllers set.                     *)
EXTENDS ConditionsPass

MCCatalog == {
    Cond("Failed", Advisory, TRUE),
    Cond("Running", Advisory, FALSE),
    Cond("RegistriesUnhealthy", Critical, TRUE),
    Cond("Postponed", Critical, FALSE)}

MCClosedDrops == {"Running"}
=============================================================================

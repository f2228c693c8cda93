-------------------------- MODULE SerialMigrations --------------------------
(***************************************************************************)
(* What the queue of a plan promises (comment at                           *)
(* pkg/controller/migmigration/migmigration_controller.go:254): migrations *)
(* run one after the other, each ends once and with one verdict, and a     *)
(* migration that is refused never ran.                                    *)
(***************************************************************************)
CONSTANT Migrations

VARIABLE life   \* where each migration is in its life

vars == <<life>>

Verdicts == {"succeeded", "failed"}

TypeOK == life \in [Migrations -> {"absent", "pending", "running"} \cup Verdicts]

Init == life = [m \in Migrations |-> "absent"]

Create(m) ==
    /\ life[m] = "absent"
    /\ life' = [life EXCEPT ![m] = "pending"]

Begin(m) ==
    /\ life[m] = "pending"
    /\ \A n \in Migrations : life[n] # "running"
    /\ life' = [life EXCEPT ![m] = "running"]

End(m, verdict) ==
    /\ life[m] = "running"
    /\ life' = [life EXCEPT ![m] = verdict]

\* A migration that fails before its first phase is over.
Refuse(m) ==
    /\ life[m] = "pending"
    /\ life' = [life EXCEPT ![m] = "failed"]

Next ==
    \E m \in Migrations :
        \/ Create(m)
        \/ Begin(m)
        \/ \E verdict \in Verdicts : End(m, verdict)
        \/ Refuse(m)

Spec == Init /\ [][Next]_vars

\* No two migrations of the plan run at the same time.
RunsAlone ==
    \A m, n \in Migrations : life[m] = "running" /\ life[n] = "running" => m = n
=============================================================================

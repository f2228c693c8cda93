-------------------- MODULE MCDirectVolumeMigration --------------------
(* Instances of DirectVolumeMigration: layouts of two volumes. *)
EXTENDS DirectVolumeMigration

Layout(kind, vm, mode, kinds) ==
    [ kind |-> [p \in PVCs |-> kind], ns |-> [p \in PVCs |-> 1],
      vm |-> vm, mode |-> mode, live |-> kind = "block", faults |-> kinds \cap FaultKinds,
      max |-> 1 ]

\* More may go wrong.
Often(layout, max) == [layout EXCEPT !.max = max]

Some == CHOOSE p \in PVCs : TRUE
Vms(one, others) == [p \in PVCs |-> IF p = Some THEN one ELSE others]

\* File systems in two namespaces; block volumes, one with a virtual machine
\* that runs and the other without one or with one that is off; the way back
\* of a migration.  The first has many states, so that less goes wrong there.
PlansOf ==
    { [Layout("fs", Vms("none", "none"), "CutOver",
              {"error", "lost", "pod", "label", "evict", "delete"}) EXCEPT
         !.ns = [p \in PVCs |-> IF p = Some THEN 1 ELSE 2]],
      Layout("block", Vms("on", "none"), "CutOver", FaultKinds),
      Layout("block", Vms("off", "on"), "CutOver", {"lost", "vm", "list", "stop", "start", "delete"}),
      Often(Layout("block", Vms("on", "none"), "CutOver", {"stop", "start", "delete"}), 2),
      Often(Layout("block", Vms("on", "none"), "CutOver", {"error", "vm", "list", "delete"}), 2),
      Layout("block", Vms("on", "none"), "Stage", FaultKinds),
      Layout("block", Vms("on", "none"), "Rollback", FaultKinds) }
=======================================================================

------------------------------- MODULE MCMigPlan -------------------------------
(* Plans of each type, and what may change around them. *)
EXTENDS MigPlan

Vol(ns, kind, disk) == [ns |-> ns, kind |-> kind, disk |-> disk]
Mood(bound, pods) == [bound |-> bound, pods |-> pods]

Plain ==
    [ intra |-> FALSE, mapped |-> {}, ns |-> {"ns1"}, vols |-> <<Vol("ns1", "plain", "csi")>>,
      choices |-> {}, flaws |-> {}, states |-> {}, moods |-> {}, rival |-> {}, migs |-> {},
      opts |-> {} ]

\* Every fact that may go wrong, one at a time or two together.
Flawed(flaws, opts) == [Plain EXCEPT !.flaws = flaws, !.opts = opts]

MCSetups ==
    { Flawed({"nsLimit", "nsMissing", "veleroMissing", "nsDuplicate", "nsBadName", "nsLong",
              "podLimit", "unhealthy", "nodeSelectors"}, {}),
      Flawed({"proxy", "resources", "hookMissing", "hookAccount", "hookNamespace",
              "hookNotReady", "hookPhase", "hookTwice"}, {"indirectImages"}),
      Flawed({"versions", "gvk", "kubevirtMissing", "kubevirtOld", "kubevirtOff", "permissions",
              "pvLimit"}, {"live", "hostDestination"}),
      \* clusters, storage, another plan, a migration
      [Plain EXCEPT !.states = {"ok", "unset", "missing", "notready", "noregistry"},
                    !.rival = {"none", "same", "remapped"}],
      [Plain EXCEPT !.states = {"ok", "notready"}, !.migs = {"stage", "final", "rollback"}],
      \* volumes to select for, to move and to copy to other classes
      [Plain EXCEPT !.vols = <<Vol("ns1", "plain", "nfs"), Vol("ns2", "other", "gluster"),
                               Vol("ns1", "temp", "csi")>>,
                    !.choices = {Selection("move", "", "", "filesystem"),
                                 Selection("copy", "same", "rare", "block")},
                    !.flaws = {"nfsDown", "noVeleroPod", "noCeph", "noSame"}],
      [Plain EXCEPT !.vols = <<Vol("ns1", "plain", "csi"), Vol("ns1", "plain", "host")>>,
                    !.choices = {Selection("copy", "gone", "", "snapshot"),
                                 Selection("copy", "same", "bad", ""),
                                 Selection("move", "same", "", "none")},
                    !.moods = {Mood(TRUE, "running"), Mood(FALSE, "running")},
                    !.migs = {"state"}],
      \* a storage conversion
      [Plain EXCEPT !.intra = TRUE,
                    !.vols = <<Vol("ns1", "plain", "csi"), Vol("ns1", "sts", "csi"),
                               Vol("ns1", "made", "csi"), Vol("ns1", "other", "csi")>>,
                    !.choices = {Selection("skip", "", "", "filesystem")},
                    !.moods = {Mood(TRUE, "running"), Mood(TRUE, "pending"), Mood(TRUE, "none")},
                    !.flaws = {"noCeph", "noDefault"}, !.migs = {"state", "rollback"}],
      \* a copy within the cluster to other namespaces
      [Plain EXCEPT !.intra = TRUE, !.mapped = {"ns1"}, !.states = {"ok", "notready"},
                    !.vols = <<Vol("ns1", "plain", "csi"), Vol("ns2", "plain", "csi")>>],
      [Plain EXCEPT !.intra = TRUE, !.opts = {"indirectVolumes"}, !.flaws = {"nsLong"}],
      \* the sizes of volumes are analyzed
      [Plain EXCEPT !.opts = {"resize"}, !.states = {"ok", "notready"}],
      [Plain EXCEPT !.opts = {"noClaims"}, !.states = {"ok", "notready"}] }
===============================================================================

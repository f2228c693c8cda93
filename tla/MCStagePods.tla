------------------------------ MODULE MCStagePods ------------------------------
(* Applications with running pods, with templates only, and claims without     *)
(* either; volumes for each copy method.                                       *)
EXTENDS StagePods

Vol(ns, method) == [ns |-> ns, method |-> method]
Setup(apps, vols, images) == [apps |-> apps, vols |-> vols, images |-> images]

MCSetups ==
    { Setup(<<App(1, 1, {1}, {1}, TRUE, TRUE), App(1, 2, {2}, {}, TRUE, TRUE)>>,
            <<Vol(1, "filesystem"), Vol(1, "filesystem")>>, FALSE),
      Setup(<<App(1, 1, {1}, {1}, TRUE, TRUE), App(2, 1, {2}, {}, FALSE, TRUE)>>,
            <<Vol(1, "filesystem"), Vol(2, "filesystem")>>, FALSE),
      Setup(<<App(1, 1, {1, 2}, {1, 2}, TRUE, FALSE), App(1, 2, {1}, {1}, TRUE, FALSE)>>,
            <<Vol(1, "filesystem"), Vol(1, "skip"), Vol(1, "snapshot")>>, TRUE) }
===============================================================================

------------------------------- MODULE MCQuiesce -------------------------------
(* Workloads of each kind, in pairs, with the plans that treat them apart. *)
EXTENDS Quiesce

Plan(apps, same, shared) ==
    [apps |-> apps, same |-> same, shared |-> shared, renamed |-> same, live |-> FALSE,
     noted |-> FALSE]

C == {"copy"}
MCSetups ==
    { Plan(<<App("deployment", C, 1, TRUE), App("cron", C, 1, FALSE)>>, FALSE, FALSE),
      Plan(<<App("rs", C, 2, FALSE), App("job", C, 1, FALSE)>>, FALSE, TRUE),
      Plan(<<App("ds", C, 1, FALSE), App("dc", {}, 1, TRUE)>>, FALSE, FALSE),
      Plan(<<App("vm", C, 1, FALSE), App("deployment", {"copy", "skip"}, 0, FALSE)>>, FALSE, TRUE),
      Plan(<<App("deployment", C, 2, FALSE), App("sts", C, 1, FALSE)>>, TRUE, FALSE),
      Plan(<<App("job", C, 1, FALSE), App("ds", C, 1, FALSE)>>, TRUE, FALSE),
      Plan(<<App("vm", C, 1, FALSE), App("rs", C, 1, FALSE)>>, TRUE, TRUE),
      Plan(<<App("dc", C, 1, FALSE), App("cron", C, 1, FALSE)>>, TRUE, FALSE),
      \* sets that are shared, that were down, and that have annotations
      Plan(<<App("sts", C, 1, FALSE), App("rs", C, 1, FALSE)>>, FALSE, TRUE),
      Plan(<<App("sts", C, 0, FALSE), App("vm", C, 1, FALSE)>>, TRUE, TRUE),
      [Plan(<<App("sts", C, 0, FALSE)>>, TRUE, FALSE) EXCEPT !.noted = TRUE],
      \* workloads without volumes
      Plan(<<App("ds", C, 1, FALSE), App("deployment", {}, 1, FALSE)>>, FALSE, TRUE),
      Plan(<<App("vm", {}, 1, FALSE), App("rs", C, 1, FALSE)>>, FALSE, FALSE),
      \* machines that follow one another
      Plan(<<App("vm", C, 1, FALSE), App("vm", C, 1, FALSE)>>, TRUE, FALSE) }
===============================================================================

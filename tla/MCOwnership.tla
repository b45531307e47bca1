----------------------------- MODULE MCOwnership -----------------------------
(* Small instances of Ownership: a few requests of a chosen list on a device,  *)
(* two projects of two organizations and one or two projects of later.         *)
EXTENDS Ownership, TLC

CONSTANTS p1, p2, p3, o1, o2

Ask1(op, p, o, staff, clean) ==
    [op |-> op, project |-> p, org |-> o, staff |-> staff, clean |-> clean]

\* The requests that claim and release.
OnDevice ==
    {Ask1("claim", p1, None, FALSE, FALSE), Ask1("claim", p2, None, TRUE, FALSE),
     Ask1("claim", p3, None, FALSE, FALSE), Ask1("assign", p1, None, FALSE, FALSE),
     Ask1("assign", None, None, FALSE, FALSE),
     Ask1("semiclaim", None, o1, TRUE, FALSE),
     Ask1("unclaim", None, None, FALSE, TRUE),
     Ask1("unclaim", None, None, FALSE, FALSE),
     Ask1("unclaim", None, None, TRUE, TRUE),
     Ask1("reset", None, None, FALSE, TRUE),
     Ask1("upload", None, None, FALSE, FALSE),
     Ask1("report", None, None, FALSE, FALSE)}
\* The requests on the projects: the last one is deleted, its gid is free.
OnProjects ==
    {Ask1("create", p3, o1, FALSE, FALSE), Ask1("give", p1, o2, FALSE, FALSE),
     Ask1("delete", p2, None, FALSE, FALSE), Ask1("delete", p2, None, TRUE, FALSE)}
All == OnDevice \cup OnProjects

Projects == (p1 :> [gid |-> 1, org |-> o1]) @@ (p2 :> [gid |-> 2, org |-> o2])
              @@ (p3 :> [gid |-> 0, org |-> None])

Symmetry == Permutations(Job)
=============================================================================

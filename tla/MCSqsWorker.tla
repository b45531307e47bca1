----------------------------- MODULE MCSqsWorker -----------------------------
(* Instances of SqsWorker for model checking. *)
EXTENDS SqsWorker, TLC

CONSTANTS t1, k1, k2, w1, w2

Workers == {w1, w2}

\* A kill message for each worker, and an ordinary task.
FleetKills == {k1, k2}
FleetTasks == {t1} \cup FleetKills

\* An ordinary task and one kill message.
OneKill == {k1}
MixedTasks == {t1, k1}

\* The workers are interchangeable, and so are the kill messages.
FleetSymmetry == Permutations(Workers) \cup Permutations(FleetKills)
=============================================================================

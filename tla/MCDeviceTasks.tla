---------------------------- MODULE MCDeviceTasks ----------------------------
(* Instances of DeviceTasks for model checking. *)
EXTENDS DeviceTasks, TLC

CONSTANTS j1, j2, p, q, x, y

TwoJobs == {j1, j2}
TwoProjects == {p, q}
TwoItems == {x, y}
OneItem == {x}
NoItem == {}
\* Jobs are interchangeable; x may be archived at the start.
JobSymmetry == Permutations(TwoJobs)

\* Views: states that differ only in what no guard and no property looks at any
\* more have the same behaviours.  Of a request that is over that is all but the
\* block that it was to delete; a task in the queue will read the rows again.
Over == {j \in Job : pc[j] = "over"}
Requests ==
    [j \in Job |->
       CASE pc[j] = "over" -> <<"over", IF job[j].op = "delete" THEN blk[j] ELSE 0>>
         [] pc[j] = "queued" -> <<"queued", job[j], blk[j]>>
         [] OTHER -> <<pc[j], job[j], blk[j], read[j]>>]

\* What EventuallyFree and the steps depend on.
LiveView == <<dev, streams, place, row, cloned, Requests, stuck, faults>>

\* What the safety properties and the steps depend on.
Takers == {j \in Job : job[j].op \in {"archive", "reset"}} \ Over
SafetyView ==
    <<dev, streams, place, row, cloned, Requests, [j \in Takers |-> base[j]],
      met = {}, met \ Over, ended \ Over, late, cut, old \cap Readers,
      unmarked \ Over, rerouted \ Over, strayed, faults>>
=============================================================================

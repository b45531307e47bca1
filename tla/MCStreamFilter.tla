--------------------------- MODULE MCStreamFilter ---------------------------
(* Instances of StreamFilter for model checking. *)
EXTENDS StreamFilter

CONSTANTS s1, s2, w1, w2

OneStream == {s1}
TwoStreams == {s1, s2}
OneWorker == {w1}
TwoWorkers == {w1, w2}
TwoStates == {1, 2}
High == [operator |-> "gt", threshold |-> 0]
Low == [operator |-> "le", threshold |-> 0]
HighOnly == {{High}}
TwoTriggers == {High, Low}

\* An alarm: any state to 2 above the threshold, from 2 to 1 below it.
Alarm == [states |-> {1, 2},
          trans |-> [p \in {<<2, 1>>, <<Star, 2>>} |->
                       IF p = <<2, 1>> THEN {Low} ELSE {High}]]
\* A filter of one state that fires on everything once.
Once == [states |-> {1}, trans |-> [p \in {<<Star, 1>>} |-> {}]]

\* A project filter, and stream s1 with or without one of its own.
Both == {[k \in Key |-> CASE k = s1 -> Once [] k = Project -> Alarm
                          [] OTHER -> NoDef]}
ProjectAlarm == {[k \in Key |-> IF k = Project THEN Alarm ELSE NoDef]}
HighThenLow == {<<1, 0>>}
HighThenLowOrEvent == {<<1, 0>>, <<Event>>}
WorkerSymmetry == Permutations(TwoWorkers)
=============================================================================

-------------------------- MODULE MCReportProcessing --------------------------
(* Instances of ReportProcessing for model checking. *)
EXTENDS ReportProcessing, TLC

CONSTANTS a, b, w1, w2

\* The reports of a user streamer.  Report b has the last reading of a again and
\* one more, of a disabled stream; reading 2 is a reboot, and reading 3 completes
\* an encoded event.
TwoReports == {a, b}
Lowest == [r \in TwoReports |-> IF r = a THEN 1 ELSE 3]
Highest == [r \in TwoReports |-> IF r = a THEN 3 ELSE 4]
DisabledIds == {4}
EncodedIds == {3}
RebootIds == {2}

TwoWorkers == {w1, w2}
Symmetric2 == Permutations(TwoWorkers)
=============================================================================

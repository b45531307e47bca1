------------------------------ MODULE ReportLog ------------------------------
(***************************************************************************)
(* What the processing of reports promises to the readers of one streamer: *)
(* a log of readings and a mark.  A report adds the readings above the     *)
(* mark that are to be kept, all of them at once; if any of its enabled    *)
(* readings is above the mark, the mark then moves to the end of the       *)
(* report, which is served (filters, forwarding) at most once, and only    *)
(* when the mark has passed it.  A report that was added and did not move  *)
(* the mark may be added again.  All this holds as long as reports are     *)
(* processed one at a time, and of the rest only that no reading is ever   *)
(* taken out of the log.  ReportProcessing implements this module.         *)
(***************************************************************************)
EXTENDS Naturals

CONSTANTS
    Report,     \* the reports of the streamer
    Lo, Hi,     \* the first and the last id of each
    Disabled,   \* ids that are passed over
    Removed     \* ids that move the mark and are not kept

VARIABLES
    log,        \* log[i]: copies of reading i
    mark,       \* readings up to here are not looked at again
    served,     \* served[r]: how often report r was passed on
    exclusive   \* reports have been processed one at a time so far

logVars == <<log, mark, served, exclusive>>

Reading == UNION {Lo[r]..Hi[r] : r \in Report}

\* The enabled readings that r brings, and those of them to be kept.
Fresh(r) == {i \in Lo[r]..Hi[r] : i > mark} \ Disabled
Kept(r) == Fresh(r) \ Removed

Init ==
    /\ log = [i \in Reading |-> 0]
    /\ mark = 0
    /\ served = [r \in Report |-> 0]
    /\ exclusive = TRUE

Add(r) ==
    /\ exclusive
    /\ log' = [i \in Reading |-> IF i \in Kept(r) THEN log[i] + 1 ELSE log[i]]
    /\ UNCHANGED <<mark, served, exclusive>>

Advance(r) ==
    /\ exclusive
    /\ Fresh(r) # {} /\ \A i \in Kept(r) : log[i] > 0
    /\ mark' = Hi[r]
    /\ UNCHANGED <<log, served, exclusive>>

Serve(r) ==
    /\ exclusive
    /\ served[r] = 0 /\ Hi[r] <= mark
    /\ served' = [served EXCEPT ![r] = 1]
    /\ UNCHANGED <<log, mark, exclusive>>

\* Two reports begin to overlap ...
Overlap ==
    /\ exclusive' = FALSE
    /\ UNCHANGED <<log, mark, served>>

\* ... and from then on readings can be added twice and the mark can go back.
Disorder ==
    /\ ~exclusive /\ UNCHANGED exclusive
    /\ \A i \in Reading : log'[i] >= log[i]

Next ==
    \/ \E r \in Report : Add(r) \/ Advance(r) \/ Serve(r)
    \/ Overlap \/ Disorder

Spec == Init /\ [][Next]_logVars
=============================================================================

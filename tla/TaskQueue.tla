------------------------------ MODULE TaskQueue ------------------------------
(***************************************************************************)
(* What the background task service promises to the code that schedules    *)
(* work: a task that was submitted stays queued until one attempt at it    *)
(* has settled it (success, or an error that is not retried).  Attempts    *)
(* may be repeated, may overlap and may even follow the removal of the     *)
(* task (at-least-once delivery).  SqsWorker implements this module.       *)
(***************************************************************************)

CONSTANT Task   \* the background tasks

VARIABLES
    queued,     \* tasks submitted and not yet dropped
    gone,       \* tasks dropped from the queue
    attempted,  \* tasks at which some attempt has ended
    settled     \* tasks that some attempt has settled

tqVars == <<queued, gone, attempted, settled>>

Init ==
    /\ queued = {}
    /\ gone = {}
    /\ attempted = {}
    /\ settled = {}

\* Somebody schedules t.
Submit(t) ==
    /\ t \notin queued \cup gone
    /\ queued' = queued \cup {t}
    /\ UNCHANGED <<gone, attempted, settled>>

\* An attempt at t ends and may settle it; late duplicates are allowed.
Attempt(t) ==
    /\ t \in queued \cup gone
    /\ attempted' = attempted \cup {t}
    /\ settled' \in {settled, settled \cup {t}}
    /\ UNCHANGED <<queued, gone>>

\* t is dropped, which only a settled task may be.
Drop(t) ==
    /\ t \in queued \cap settled
    /\ queued' = queued \ {t}
    /\ gone' = gone \cup {t}
    /\ UNCHANGED <<attempted, settled>>

Next == \E t \in Task : Submit(t) \/ Attempt(t) \/ Drop(t)

Spec == Init /\ [][Next]_tqVars
=============================================================================

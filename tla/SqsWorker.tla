------------------------------ MODULE SqsWorker ------------------------------
(***************************************************************************)
(* The background worker service of apps/sqsworker: Action._schedule puts  *)
(* a message on an SQS queue and registers an ActionPID in the cache; a    *)
(* fleet of Worker processes receives one message at a time, executes the  *)
(* action it names and then deletes the message or changes its visibility, *)
(* depending on the exception the action ended with.  A message that is    *)
(* neither deleted nor seen again by its worker becomes visible when its   *)
(* visibility timeout runs out, so attempts at one task may overlap.       *)
(***************************************************************************)
EXTENDS Naturals, FiniteSets

CONSTANTS
    Task,     \* the messages (one per call of Action._schedule)
    Kill,     \* those that name WorkerShutDownAction
    Worker,   \* the worker processes of the fleet
    NoTask,   \* not a task: the job of a worker that has none
    NoWorker, \* not a worker: the holder of a message never received
    MaxCrash  \* bound on the process crashes of a behaviour

ASSUME SqsAssumption ==
    /\ Kill \subseteq Task
    /\ NoTask \notin Task
    /\ NoWorker \notin Worker
    /\ MaxCrash \in Nat

VARIABLES
    msg,        \* msg[t]: where the SQS message of t is
    holder,     \* holder[t]: the worker with the newest receipt handle of t
    pid,        \* the tasks with an ActionPID entry in the cache
    starting,   \* sent, but the caller has not run pid.start() yet
    pc,         \* pc[w]: where worker w is in run() and process_task()
    job,        \* job[w]: the task worker w is processing
    result,     \* result[w]: how the action of job[w] ended
    attempted,  \* the tasks at which some attempt has ended (history)
    settled,    \* the tasks that some attempt has settled (history)
    ended,      \* the workers whose process has ended at least once (history)
    crashes     \* process crashes so far (bounded by MaxCrash)

queueVars  == <<msg, holder>>
pidVars    == <<pid, starting>>
workerVars == <<pc, job, result>>
historyVars == <<attempted, settled>>
vars == <<queueVars, pidVars, workerVars, historyVars, ended, crashes>>

(***************************************************************************)
(* Outcomes of process_task, one for all the branches that do the same:    *)
(* "done" stands for success and for WorkerActionHardError,                *)
(* WorkerAbortSilently, any other exception and a failure of get_action    *)
(* (the class cannot be loaded, as when one worker runs a release that     *)
(* lacks it), which are logged differently and all delete the message.     *)
(***************************************************************************)
FinalOutcome == {"done", "internal", "halt"}
RetryOutcome == {"soft", "database"}
Outcome == FinalOutcome \cup RetryOutcome

\* Mutant: an exception class that no branch of process_task handles.
OutcomesOfUnhandled(t) == {"unhandled"}

\* What executing t can end with: WorkerShutDownAction always raises
\* HaltAndCatchFire, and any other action may end in every other way.
OutcomesOf(t) ==
    IF t \in Kill THEN {"halt"} ELSE {"done", "internal"} \cup RetryOutcome

MsgState == {"unsent", "delayed", "visible", "inflight", "deleted"}
WorkerState == {"down", "idle", "got", "ended", "cleared", "halted"}

Busy(w) == pc[w] \in {"got", "ended", "cleared"}

Init ==
    /\ msg = [t \in Task |-> "unsent"]
    /\ holder = [t \in Task |-> NoWorker]
    /\ pid = {}
    /\ starting = {}
    /\ pc = [w \in Worker |-> "down"]
    /\ job = [w \in Worker |-> NoTask]
    /\ result = [w \in Worker |-> "none"]
    /\ attempted = {}
    /\ settled = {}
    /\ ended = {}
    /\ crashes = 0

-----------------------------------------------------------------------------
(***************************************************************************)
(* The scheduling side: Action._schedule, in a web or worker process.      *)
(***************************************************************************)

\* sqs_queue.send_message, with or without DelaySeconds.
SendMessage(t) ==
    /\ msg[t] = "unsent"
    /\ \E s \in {"visible", "delayed"} : msg' = [msg EXCEPT ![t] = s]
    /\ starting' = starting \cup {t}
    /\ UNCHANGED <<holder, pid, workerVars, historyVars, ended, crashes>>

\* pid.start(), which runs after send_message has returned.
StartPid(t) ==
    /\ t \in starting
    /\ starting' = starting \ {t}
    /\ pid' = pid \cup {t}
    /\ UNCHANGED <<queueVars, workerVars, historyVars, ended, crashes>>

\* The calling process dies between the two.
CallerDies(t) ==
    /\ t \in starting
    /\ crashes < MaxCrash
    /\ crashes' = crashes + 1
    /\ starting' = starting \ {t}
    /\ UNCHANGED <<queueVars, pid, workerVars, historyVars, ended>>

\* The 24 hour timeout of a cache entry.
ExpirePid(t) ==
    /\ t \in pid
    /\ pid' = pid \ {t}
    /\ UNCHANGED <<queueVars, starting, workerVars, historyVars, ended, crashes>>

-----------------------------------------------------------------------------
(***************************************************************************)
(* SQS itself (external): time makes a hidden message visible.             *)
(***************************************************************************)

BecomeVisible(t) ==
    /\ msg[t] \in {"delayed", "inflight"}
    /\ msg' = [msg EXCEPT ![t] = "visible"]
    /\ UNCHANGED <<holder, pidVars, workerVars, historyVars, ended, crashes>>

\* DeleteMessage.  With an older receipt handle SQS answers success but may
\* leave the message in the queue.
DeleteMessage(w, t) ==
    \/ msg' = [msg EXCEPT ![t] = "deleted"]
    \/ /\ holder[t] # w
       /\ UNCHANGED msg

\* ChangeMessageVisibility succeeds on a message in flight (the message
\* stays hidden) ...
CanChangeVisibility(t) == msg[t] = "inflight"

\* ... and is an error on a message that is visible again or gone, or when
\* the handle is not the newest.
CannotChangeVisibility(w, t) == msg[t] # "inflight" \/ holder[t] # w

-----------------------------------------------------------------------------
(***************************************************************************)
(* The worker process.                                                     *)
(***************************************************************************)

\* Worker w goes to a control point, with the task and the outcome it holds.
Become(w, state, task, res) ==
    /\ pc' = [pc EXCEPT ![w] = state]
    /\ job' = [job EXCEPT ![w] = task]
    /\ result' = [result EXCEPT ![w] = res]
    /\ ended' = IF state = "down" THEN ended \cup {w} ELSE ended

\* Mutant: the process is started once and never restarted.
StartWorkerOnce(w) ==
    /\ pc[w] = "down" /\ w \notin ended
    /\ Become(w, "idle", NoTask, "none")
    /\ UNCHANGED <<queueVars, pidVars, historyVars, crashes>>

\* supervisord starts the process (autorestart); Worker.run enters its loop.
StartWorker(w) ==
    /\ pc[w] = "down"
    /\ Become(w, "idle", NoTask, "none")
    /\ UNCHANGED <<queueVars, pidVars, historyVars, crashes>>

\* Mutant: the message is deleted as soon as it has been received.
ReceiveAndDelete(w, t) ==
    /\ pc[w] = "idle"
    /\ msg[t] = "visible"
    /\ msg' = [msg EXCEPT ![t] = "deleted"]
    /\ holder' = [holder EXCEPT ![t] = w]
    /\ Become(w, "got", t, "none")
    /\ UNCHANGED <<pidVars, historyVars, crashes>>

\* queue.receive_messages(MaxNumberOfMessages=1) returns t.
ReceiveMessage(w, t) ==
    /\ pc[w] = "idle"
    /\ msg[t] = "visible"
    /\ msg' = [msg EXCEPT ![t] = "inflight"]
    /\ holder' = [holder EXCEPT ![t] = w]
    /\ Become(w, "got", t, "none")
    /\ UNCHANGED <<pidVars, historyVars, crashes>>

\* get_action and call_action: the action runs to its end o.
ExecuteAction(w) ==
    /\ pc[w] = "got"
    /\ \E o \in OutcomesOf(job[w]) :
          /\ Become(w, "ended", job[w], o)
          /\ settled' = IF o \in FinalOutcome THEN settled \cup {job[w]}
                                             ELSE settled
    /\ attempted' = attempted \cup {job[w]}
    /\ UNCHANGED <<queueVars, pidVars, crashes>>

\* ActionPID.delete, the first half of delete_sqs_message and of
\* reschedule_sqs_message.
ClearPid(w) ==
    /\ pc[w] = "ended"
    /\ pid' = pid \ {job[w]}
    /\ Become(w, "cleared", job[w], result[w])
    /\ UNCHANGED <<queueVars, starting, historyVars, crashes>>

\* Mutant: the shutdown handler returns to the loop instead of sleeping.
AfterDeleteNoSleep(o) == IF o = "internal" THEN "down" ELSE "idle"

\* Where the except branch leaves the worker: back in the loop, after
\* stop(), or in the sleeps of _shutdown_procedure.
AfterDelete(o) ==
    IF o = "internal" THEN "down" ELSE IF o = "halt" THEN "halted" ELSE "idle"

\* Mutant: the message is deleted whatever the outcome (a "finally" clause).
DeleteAlways(w) ==
    /\ pc[w] = "cleared"
    /\ DeleteMessage(w, job[w])
    /\ Become(w, AfterDelete(result[w]), NoTask, "none")
    /\ UNCHANGED <<holder, pidVars, historyVars, crashes>>

\* message.delete(), the second half of delete_sqs_message.
Delete(w) ==
    /\ pc[w] = "cleared"
    /\ result[w] \in FinalOutcome
    /\ DeleteMessage(w, job[w])
    /\ Become(w, AfterDelete(result[w]), NoTask, "none")
    /\ UNCHANGED <<holder, pidVars, historyVars, crashes>>

\* change_sqs_message_visibility, the second half of reschedule_sqs_message:
\* a database error makes the process exit afterwards, and an error of SQS
\* is re-raised through process_task and run.
Reschedule(w) ==
    /\ pc[w] = "cleared"
    /\ result[w] \in RetryOutcome
    /\ \/ /\ CanChangeVisibility(job[w])
          /\ result[w] = "soft"
          /\ Become(w, "idle", NoTask, "none")
       \/ /\ CanChangeVisibility(job[w])
          /\ result[w] = "database"
          /\ Become(w, "down", NoTask, "none")
       \/ /\ CannotChangeVisibility(w, job[w])
          /\ Become(w, "down", NoTask, "none")
    /\ UNCHANGED <<queueVars, pidVars, historyVars, crashes>>

\* The three 30 minute sleeps end without anybody killing the worker.
AbortShutdown(w) ==
    /\ pc[w] = "halted"
    /\ Become(w, "down", NoTask, "none")
    /\ UNCHANGED <<queueVars, pidVars, historyVars, crashes>>

\* The process is killed (deployment, memory) wherever it is.
Crash(w) ==
    /\ pc[w] # "down"
    /\ crashes < MaxCrash
    /\ crashes' = crashes + 1
    /\ Become(w, "down", NoTask, "none")
    /\ UNCHANGED <<queueVars, pidVars, historyVars>>

-----------------------------------------------------------------------------
Next ==
    \/ \E t \in Task :
          \/ SendMessage(t)
          \/ StartPid(t)
          \/ CallerDies(t)
          \/ ExpirePid(t)
          \/ BecomeVisible(t)
          \/ \E w \in Worker : ReceiveMessage(w, t)
    \/ \E w \in Worker :
          \/ StartWorker(w)
          \/ ExecuteAction(w)
          \/ ClearPid(w)
          \/ Delete(w)
          \/ Reschedule(w)
          \/ AbortShutdown(w)
          \/ Crash(w)

Spec == Init /\ [][Next]_vars

\* What a worker that is not waiting for a message does next.
GoOn(w) == StartWorker(w) \/ ExecuteAction(w) \/ ClearPid(w) \/ Delete(w)
             \/ Reschedule(w) \/ AbortShutdown(w)

\* A worker that has a message goes on with it, supervisord restarts what
\* stopped, visibility timeouts run out, and SQS does not pass a message over
\* for ever.
Fairness ==
    /\ \A w \in Worker : WF_vars(GoOn(w))
    /\ \A t \in Task :
          /\ WF_vars(BecomeVisible(t))
          /\ SF_vars(\E w \in Worker : ReceiveMessage(w, t))

FairSpec == Spec /\ Fairness

-----------------------------------------------------------------------------
(***************************************************************************)
(* Properties.                                                             *)
(***************************************************************************)

\* Every variable keeps to its range: messages, receipts, cache entries and
\* the program counters of the workers.
TypeOK ==
    /\ msg \in [Task -> MsgState]
    /\ holder \in [Task -> Worker \cup {NoWorker}]
    /\ pid \subseteq Task
    /\ starting \subseteq Task
    /\ pc \in [Worker -> WorkerState]
    /\ job \in [Worker -> Task \cup {NoTask}]
    /\ result \in [Worker -> Outcome \cup {"none"}]
    /\ attempted \subseteq Task
    /\ settled \subseteq Task
    /\ ended \subseteq Worker
    /\ crashes \in 0..MaxCrash

\* A message leaves the queue only when some attempt at its task ended with
\* an outcome the worker treats as final; a soft error, a database error or
\* a crash at any point never loses the task (the contract stated by the
\* docstrings of WorkerActionHardError and WorkerActionSoftError).
NoTaskLost ==
    \A t \in Task : msg[t] = "deleted" => t \in settled

\* The implementation of the abstract task queue.
Queue == INSTANCE TaskQueue WITH
    queued <- {t \in Task : msg[t] \in {"delayed", "visible", "inflight"}},
    gone   <- {t \in Task : msg[t] = "deleted"}

\* The workers implement the at-least-once queue that the schedulers rely on.
ImplementsTaskQueue == Queue!Spec

\* A worker that is sleeping in the shutdown procedure has consumed a kill
\* message of its own: as long as no process has ended, the halted workers
\* are at least as many as the consumed kill messages, which is what lets one
\* message per worker stop the whole fleet before a deployment.
KillsStopDistinctWorkers ==
    ended = {}
        => Cardinality({k \in Kill : msg[k] = "deleted"})
             <= Cardinality({w \in Worker : pc[w] = "halted"})

\* The docstring of ActionPID says the cache keeps track of the scheduled SQS
\* messages: no entry is left for a message that has been deleted.
PidTracksScheduled == \A t \in pid : msg[t] # "deleted"

\* Every task that was handed to SQS is eventually attempted, whatever
\* crashes, redeliveries, retries of other tasks and shutdowns happen.
EveryTaskAttempted ==
    \A t \in Task : msg[t] # "unsent" ~> t \in attempted

=============================================================================

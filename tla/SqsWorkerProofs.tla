--------------------------- MODULE SqsWorkerProofs ---------------------------
(***************************************************************************)
(* Theorems about SqsWorker for every set of tasks and workers.            *)
(***************************************************************************)
EXTENDS SqsWorker, FiniteSetTheorems, TLAPS

\* What a worker remembers of its job is real: it has a task while it is
\* busy, and an outcome it is about to act on is in the history.
JobInv ==
    \A w \in Worker :
        /\ Busy(w) => job[w] \in Task /\ msg[job[w]] # "unsent"
        /\ pc[w] \in {"ended", "cleared"} =>
              /\ result[w] \in OutcomesOf(job[w])
              /\ result[w] \in FinalOutcome => job[w] \in settled

\* The inductive invariant.
IInv == TypeOK /\ JobInv /\ NoTaskLost

USE DEF queueVars, pidVars, workerVars, historyVars

LEMMA OutcomesOfInOutcome ==
    ASSUME NEW t
    PROVE  OutcomesOf(t) \subseteq Outcome
BY DEF OutcomesOf, Outcome, FinalOutcome, RetryOutcome

LEMMA InitIInv == Init => IInv
BY SqsAssumption DEF Init, IInv, TypeOK, JobInv, NoTaskLost, Busy,
                     MsgState, WorkerState

\* Moving a worker to a control point keeps the types of its variables.
LEMMA BecomeTypes ==
    ASSUME TypeOK, NEW w \in Worker, NEW s \in WorkerState,
           NEW t \in Task \cup {NoTask}, NEW o \in Outcome \cup {"none"},
           Become(w, s, t, o)
    PROVE  /\ pc' \in [Worker -> WorkerState]
           /\ job' \in [Worker -> Task \cup {NoTask}]
           /\ result' \in [Worker -> Outcome \cup {"none"}]
           /\ ended' \subseteq Worker
           /\ pc'[w] = s /\ job'[w] = t /\ result'[w] = o
           /\ \A v \in Worker \ {w} :
                 pc'[v] = pc[v] /\ job'[v] = job[v] /\ result'[v] = result[v]
BY DEF TypeOK, Become

LEMMA TypeStep == IInv /\ [Next]_vars => TypeOK'
<1> SUFFICES ASSUME IInv, [Next]_vars PROVE TypeOK'
    OBVIOUS
<1> USE SqsAssumption DEF IInv
<1>1. ASSUME NEW t \in Task, SendMessage(t) PROVE TypeOK'
    BY <1>1 DEF SendMessage, TypeOK, MsgState
<1>2. ASSUME NEW t \in Task, StartPid(t) PROVE TypeOK'
    BY <1>2 DEF StartPid, TypeOK
<1>3. ASSUME NEW t \in Task, CallerDies(t) PROVE TypeOK'
    BY <1>3 DEF CallerDies, TypeOK
<1>4. ASSUME NEW t \in Task, ExpirePid(t) PROVE TypeOK'
    BY <1>4 DEF ExpirePid, TypeOK
<1>5. ASSUME NEW t \in Task, BecomeVisible(t) PROVE TypeOK'
    BY <1>5 DEF BecomeVisible, TypeOK, MsgState
<1>6. ASSUME NEW t \in Task, NEW w \in Worker, ReceiveMessage(w, t) PROVE TypeOK'
    <2>1. Become(w, "got", t, "none") /\ "got" \in WorkerState
        BY <1>6 DEF ReceiveMessage, WorkerState
    <2>2. QED
        BY <1>6, <2>1, BecomeTypes DEF ReceiveMessage, TypeOK, MsgState
<1>7. ASSUME NEW w \in Worker, StartWorker(w) PROVE TypeOK'
    <2>1. Become(w, "idle", NoTask, "none") /\ "idle" \in WorkerState
        BY <1>7 DEF StartWorker, WorkerState
    <2>2. QED
        BY <1>7, <2>1, BecomeTypes DEF StartWorker, TypeOK
<1>8. ASSUME NEW w \in Worker, ExecuteAction(w) PROVE TypeOK'
    <2>1. job[w] \in Task
        BY <1>8 DEF ExecuteAction, JobInv, Busy
    <2>2. PICK o \in OutcomesOf(job[w]) : 
              /\ Become(w, "ended", job[w], o)
              /\ settled' = IF o \in FinalOutcome THEN settled \cup {job[w]}
                                                  ELSE settled
        BY <1>8 DEF ExecuteAction
    <2>3. o \in Outcome /\ "ended" \in WorkerState
        BY OutcomesOfInOutcome DEF WorkerState
    <2>4. QED
        BY <1>8, <2>1, <2>2, <2>3, BecomeTypes DEF ExecuteAction, TypeOK
<1>9. ASSUME NEW w \in Worker, ClearPid(w) PROVE TypeOK'
    <2>1. /\ Become(w, "cleared", job[w], result[w])
          /\ "cleared" \in WorkerState
          /\ job[w] \in Task \cup {NoTask}
          /\ result[w] \in Outcome \cup {"none"}
        BY <1>9 DEF ClearPid, WorkerState, TypeOK
    <2>2. QED
        BY <1>9, <2>1, BecomeTypes DEF ClearPid, TypeOK
<1>10. ASSUME NEW w \in Worker, Delete(w) PROVE TypeOK'
    <2>1. /\ Become(w, AfterDelete(result[w]), NoTask, "none")
          /\ AfterDelete(result[w]) \in WorkerState
        BY <1>10 DEF Delete, AfterDelete, WorkerState
    <2>2. job[w] \in Task
        BY <1>10 DEF Delete, JobInv, Busy
    <2>3. msg' \in [Task -> MsgState]
        BY <1>10, <2>2 DEF Delete, DeleteMessage, TypeOK, MsgState
    <2>4. QED
        BY <1>10, <2>1, <2>3, BecomeTypes DEF Delete, TypeOK
<1>11. ASSUME NEW w \in Worker, Reschedule(w) PROVE TypeOK'
    <2>1. PICK s \in {"idle", "down"} : Become(w, s, NoTask, "none")
        BY <1>11 DEF Reschedule
    <2>2. s \in WorkerState
        BY DEF WorkerState
    <2>3. QED
        BY <1>11, <2>1, <2>2, BecomeTypes DEF Reschedule, TypeOK
<1>12. ASSUME NEW w \in Worker, AbortShutdown(w) PROVE TypeOK'
    <2>1. Become(w, "down", NoTask, "none") /\ "down" \in WorkerState
        BY <1>12 DEF AbortShutdown, WorkerState
    <2>2. QED
        BY <1>12, <2>1, BecomeTypes DEF AbortShutdown, TypeOK
<1>13. ASSUME NEW w \in Worker, Crash(w) PROVE TypeOK'
    <2>1. Become(w, "down", NoTask, "none") /\ "down" \in WorkerState
        BY <1>13 DEF Crash, WorkerState
    <2>2. QED
        BY <1>13, <2>1, BecomeTypes DEF Crash, TypeOK
<1>14. CASE UNCHANGED vars
    BY <1>14 DEF vars, TypeOK
<1>15. QED
    BY <1>1, <1>2, <1>3, <1>4, <1>5, <1>6, <1>7, <1>8, <1>9, <1>10, <1>11,
       <1>12, <1>13, <1>14 DEF Next

\* What a step of the queue or of the cache leaves alone.
LEMMA QueueStepKeepsJobs ==
    ASSUME IInv, UNCHANGED <<pc, job, result, settled>>,
           msg' \in [Task -> MsgState],
           \A t \in Task : msg[t] # "unsent" => msg'[t] # "unsent"
    PROVE  JobInv'
BY DEF IInv, JobInv, Busy

\* A step of worker w that keeps the histories growing need only be checked
\* for w itself.
LEMMA WorkerStepKeepsOthers ==
    ASSUME IInv, NEW w \in Worker, NEW s \in WorkerState,
           NEW t \in Task \cup {NoTask}, NEW o \in Outcome \cup {"none"},
           Become(w, s, t, o),
           settled \subseteq settled',
           \A u \in Task : msg[u] # "unsent" => msg'[u] # "unsent",
           s \in {"got", "ended", "cleared"} => t \in Task /\ msg'[t] # "unsent",
           s \in {"ended", "cleared"} =>
               o \in OutcomesOf(t) /\ (o \in FinalOutcome => t \in settled')
    PROVE  JobInv'
<1>1. /\ pc'[w] = s /\ job'[w] = t /\ result'[w] = o
      /\ \A v \in Worker \ {w} :
             pc'[v] = pc[v] /\ job'[v] = job[v] /\ result'[v] = result[v]
    BY BecomeTypes DEF IInv
<1> SUFFICES ASSUME NEW v \in Worker
             PROVE  /\ Busy(v)' => job'[v] \in Task /\ msg'[job'[v]] # "unsent"
                    /\ pc'[v] \in {"ended", "cleared"} =>
                          /\ result'[v] \in OutcomesOf(job'[v])
                          /\ result'[v] \in FinalOutcome => job'[v] \in settled'
    BY DEF JobInv, OutcomesOf, FinalOutcome, RetryOutcome
<1>2. CASE v = w
    BY <1>1, <1>2 DEF Busy
<1>3. CASE v # w
    BY <1>1, <1>3 DEF Busy, IInv, JobInv
<1>4. QED
    BY <1>2, <1>3

LEMMA JobStep == IInv /\ [Next]_vars => JobInv'
<1> SUFFICES ASSUME IInv, [Next]_vars PROVE JobInv'
    OBVIOUS
<1> USE SqsAssumption
<1>0. TypeOK /\ TypeOK'
    BY TypeStep DEF IInv
<1>1. ASSUME NEW t \in Task, SendMessage(t) PROVE JobInv'
    BY <1>0, <1>1, QueueStepKeepsJobs DEF SendMessage, TypeOK
<1>2. ASSUME NEW t \in Task,
             StartPid(t) \/ CallerDies(t) \/ ExpirePid(t)
      PROVE JobInv'
    BY <1>0, <1>2, QueueStepKeepsJobs DEF StartPid, CallerDies, ExpirePid, TypeOK
<1>3. ASSUME NEW t \in Task, BecomeVisible(t) PROVE JobInv'
    BY <1>0, <1>3, QueueStepKeepsJobs DEF BecomeVisible, TypeOK
<1>4. ASSUME NEW t \in Task, NEW w \in Worker, ReceiveMessage(w, t) PROVE JobInv'
    <2>1. /\ Become(w, "got", t, "none") /\ "got" \in WorkerState
          /\ settled' = settled
          /\ \A u \in Task : msg[u] # "unsent" => msg'[u] # "unsent"
          /\ msg'[t] # "unsent"
        BY <1>0, <1>4 DEF ReceiveMessage, WorkerState, TypeOK
    <2>2. QED
        BY <2>1, WorkerStepKeepsOthers
<1>5. ASSUME NEW w \in Worker, ExecuteAction(w) PROVE JobInv'
    <2>1. job[w] \in Task /\ msg[job[w]] # "unsent" /\ msg' = msg
        BY <1>5 DEF ExecuteAction, IInv, JobInv, Busy
    <2>2. PICK o \in OutcomesOf(job[w]) :
              /\ Become(w, "ended", job[w], o)
              /\ settled' = IF o \in FinalOutcome THEN settled \cup {job[w]}
                                                  ELSE settled
        BY <1>5 DEF ExecuteAction
    <2>3. o \in Outcome /\ "ended" \in WorkerState
        BY OutcomesOfInOutcome DEF WorkerState
    <2>4. settled \subseteq settled' /\ (o \in FinalOutcome => job[w] \in settled')
        BY <2>2
    <2>5. QED
        BY <2>1, <2>2, <2>3, <2>4, WorkerStepKeepsOthers
<1>6. ASSUME NEW w \in Worker, ClearPid(w) PROVE JobInv'
    <2>1. /\ Become(w, "cleared", job[w], result[w]) /\ "cleared" \in WorkerState
          /\ msg' = msg /\ settled' = settled
          /\ job[w] \in Task /\ msg[job[w]] # "unsent"
          /\ result[w] \in OutcomesOf(job[w])
          /\ result[w] \in FinalOutcome => job[w] \in settled
        BY <1>6 DEF ClearPid, WorkerState, IInv, JobInv, Busy
    <2>2. result[w] \in Outcome
        BY <2>1, OutcomesOfInOutcome
    <2>3. QED
        BY <2>1, <2>2, WorkerStepKeepsOthers
<1>7. ASSUME NEW w \in Worker, Delete(w) PROVE JobInv'
    <2>1. /\ Become(w, AfterDelete(result[w]), NoTask, "none")
          /\ AfterDelete(result[w]) \in {"down", "halted", "idle"}
          /\ settled' = settled
        BY <1>7 DEF Delete, AfterDelete
    <2>2. \A u \in Task : msg[u] # "unsent" => msg'[u] # "unsent"
        BY <1>0, <1>7 DEF Delete, DeleteMessage, TypeOK
    <2>3. QED
        BY <2>1, <2>2, WorkerStepKeepsOthers DEF WorkerState
<1>8. ASSUME NEW w \in Worker,
             StartWorker(w) \/ Reschedule(w) \/ AbortShutdown(w) \/ Crash(w)
      PROVE JobInv'
    <2>1. PICK s \in {"idle", "down"} : Become(w, s, NoTask, "none")
        BY <1>8 DEF StartWorker, Reschedule, AbortShutdown, Crash
    <2>2. settled' = settled /\ msg' = msg
        BY <1>8 DEF StartWorker, Reschedule, AbortShutdown, Crash
    <2>3. QED
        BY <2>1, <2>2, WorkerStepKeepsOthers DEF WorkerState
<1>9. CASE UNCHANGED vars
    BY <1>9 DEF vars, IInv, JobInv, Busy
<1>10. QED
    BY <1>1, <1>2, <1>3, <1>4, <1>5, <1>6, <1>7, <1>8, <1>9 DEF Next

\* Only Delete drops a message, and only with a final outcome in the history.
LEMMA DeletedWasSettled ==
    ASSUME IInv, [Next]_vars
    PROVE  /\ settled \subseteq settled'
           /\ \A t \in Task :
                 msg'[t] = "deleted" => msg[t] = "deleted" \/ t \in settled
<1>1. ASSUME NEW t \in Task,
             \/ SendMessage(t) \/ StartPid(t) \/ CallerDies(t) \/ ExpirePid(t)
             \/ BecomeVisible(t) \/ (\E w \in Worker : ReceiveMessage(w, t))
      PROVE  /\ settled' = settled
             /\ \A u \in Task : msg'[u] = "deleted" => msg[u] = "deleted"
    BY <1>1 DEF SendMessage, StartPid, CallerDies, ExpirePid, BecomeVisible,
                ReceiveMessage, IInv, TypeOK
<1>2. ASSUME NEW w \in Worker,
             \/ StartWorker(w) \/ ExecuteAction(w) \/ ClearPid(w)
             \/ Reschedule(w) \/ AbortShutdown(w) \/ Crash(w)
      PROVE  settled \subseteq settled' /\ msg' = msg
    BY <1>2 DEF StartWorker, ExecuteAction, ClearPid, Reschedule,
                AbortShutdown, Crash
<1>3. ASSUME NEW w \in Worker, Delete(w)
      PROVE  /\ settled' = settled
             /\ \A u \in Task :
                   msg'[u] = "deleted" => msg[u] = "deleted" \/ u \in settled
    <2>1. job[w] \in settled
        BY <1>3 DEF Delete, IInv, JobInv
    <2>2. QED
        BY <1>3, <2>1 DEF Delete, DeleteMessage, IInv, TypeOK
<1>4. CASE UNCHANGED vars
    BY <1>4 DEF vars
<1>5. QED
    BY <1>1, <1>2, <1>3, <1>4 DEF Next

LEMMA InvariantStep == IInv /\ [Next]_vars => IInv'
BY TypeStep, JobStep, DeletedWasSettled DEF IInv, NoTaskLost

LEMMA Invariance == Spec => []IInv
BY InitIInv, InvariantStep, PTL DEF Spec

\* The variables of the worker service keep to their types.
THEOREM TypeCorrect == Spec => []TypeOK
BY Invariance, PTL DEF IInv

\* delete_sqs_message never drops a task that no attempt has settled.
THEOREM TaskSafety == Spec => []NoTaskLost
BY Invariance, PTL DEF IInv

-----------------------------------------------------------------------------
(***************************************************************************)
(* Kill messages and the workers they stop.  Before the first process ends *)
(* every kill message that has left the queue has a sleeping worker of its *)
(* own: a step that deletes one puts its worker to sleep.                  *)
(***************************************************************************)

Consumed == {k \in Kill : msg[k] = "deleted"}
Sleeping == {w \in Worker : pc[w] = "halted"}
KillInv ==
    ended = {} => /\ IsFiniteSet(Consumed) /\ IsFiniteSet(Sleeping)
                  /\ Cardinality(Consumed) <= Cardinality(Sleeping)

LEMMA SameCounts ==
    ASSUME KillInv, ended' = {} => ended = {}, Consumed' = Consumed, Sleeping' = Sleeping
    PROVE  KillInv'
BY DEF KillInv

\* A message that is not deleted stays out of Consumed, a worker that neither
\* falls asleep nor wakes up out of Sleeping.
LEMMA ConsumedSame ==
    ASSUME \A k \in Kill : msg'[k] = "deleted" <=> msg[k] = "deleted"
    PROVE  Consumed' = Consumed
BY DEF Consumed

LEMMA SleepingSame ==
    ASSUME \A w \in Worker : pc'[w] = "halted" <=> pc[w] = "halted"
    PROVE  Sleeping' = Sleeping
BY DEF Sleeping

\* Going down, from anywhere, makes a worker one that has ended.
LEMMA DownEnds ==
    ASSUME NEW w \in Worker, Become(w, "down", NoTask, "none")
    PROVE  KillInv'
<1>1. w \in ended'
    BY DEF Become
<1> QED
    BY <1>1 DEF KillInv

LEMMA GoesOn ==
    ASSUME TypeOK, KillInv, NEW w \in Worker, NEW s \in WorkerState \ {"halted"},
           NEW t \in Task \cup {NoTask}, NEW o \in Outcome \cup {"none"},
           Become(w, s, t, o), pc[w] # "halted",
           \A k \in Kill : msg'[k] = "deleted" <=> msg[k] = "deleted"
    PROVE  KillInv'
<1>1. pc'[w] = s /\ \A v \in Worker \ {w} : pc'[v] = pc[v]
    BY DEF Become, TypeOK
<1>2. Sleeping' = Sleeping
    BY <1>1, SleepingSame
<1>3. ended' = {} => ended = {}
    BY DEF Become
<1> QED
    BY <1>2, <1>3, ConsumedSame, SameCounts

LEMMA KillStep == IInv /\ KillInv /\ [Next]_vars => KillInv'
<1> SUFFICES ASSUME IInv, KillInv, [Next]_vars PROVE KillInv'
    OBVIOUS
<1>0. TypeOK /\ JobInv /\ \A k \in Kill : k \in Task
    BY SqsAssumption DEF IInv
<1>1. ASSUME NEW t \in Task,
             \/ SendMessage(t) \/ StartPid(t) \/ CallerDies(t) \/ ExpirePid(t)
             \/ BecomeVisible(t)
      PROVE  KillInv'
    <2>1. pc' = pc /\ ended' = ended
        BY <1>1 DEF SendMessage, StartPid, CallerDies, ExpirePid, BecomeVisible
    <2>2. \A k \in Kill : msg'[k] = "deleted" <=> msg[k] = "deleted"
        BY <1>0, <1>1 DEF SendMessage, StartPid, CallerDies, ExpirePid,
                          BecomeVisible, TypeOK
    <2> QED
        BY <2>1, <2>2, ConsumedSame, SleepingSame, SameCounts
<1>2. ASSUME NEW w \in Worker, NEW t \in Task, ReceiveMessage(w, t) PROVE KillInv'
    <2>1. \A k \in Kill : msg'[k] = "deleted" <=> msg[k] = "deleted"
        BY <1>0, <1>2 DEF ReceiveMessage, TypeOK
    <2>2. Become(w, "got", t, "none") /\ pc[w] # "halted"
        BY <1>2 DEF ReceiveMessage
    <2> QED
        BY <1>0, <2>1, <2>2, GoesOn DEF WorkerState
<1>3. ASSUME NEW w \in Worker, StartWorker(w) PROVE KillInv'
    <2>1. Become(w, "idle", NoTask, "none") /\ pc[w] # "halted" /\ msg' = msg
        BY <1>3 DEF StartWorker
    <2> QED
        BY <1>0, <2>1, GoesOn DEF WorkerState
<1>4. ASSUME NEW w \in Worker, ExecuteAction(w) PROVE KillInv'
    <2>1. PICK o \in OutcomesOf(job[w]) : Become(w, "ended", job[w], o)
        BY <1>4 DEF ExecuteAction
    <2>2. o \in Outcome /\ job[w] \in Task /\ pc[w] # "halted" /\ msg' = msg
        BY <1>0, <1>4, OutcomesOfInOutcome DEF ExecuteAction, JobInv, Busy
    <2> QED
        BY <1>0, <2>1, <2>2, GoesOn DEF WorkerState
<1>5. ASSUME NEW w \in Worker, ClearPid(w) PROVE KillInv'
    <2>1. /\ Become(w, "cleared", job[w], result[w]) /\ pc[w] # "halted"
          /\ msg' = msg /\ job[w] \in Task /\ result[w] \in Outcome \cup {"none"}
        BY <1>0, <1>5 DEF ClearPid, JobInv, Busy, TypeOK
    <2> QED
        BY <1>0, <2>1, GoesOn DEF WorkerState
<1>6. ASSUME NEW w \in Worker, Delete(w) PROVE KillInv'
    <2>1. /\ job[w] \in Task /\ result[w] \in OutcomesOf(job[w])
          /\ Become(w, AfterDelete(result[w]), NoTask, "none")
          /\ pc[w] = "cleared"
          /\ msg' = [msg EXCEPT ![job[w]] = "deleted"] \/ msg' = msg
        BY <1>0, <1>6 DEF Delete, DeleteMessage, JobInv, Busy
    <2>2. CASE result[w] = "internal"
        BY <2>1, <2>2, DownEnds DEF AfterDelete
    <2>3. CASE result[w] = "halt"
        <3>1. /\ pc'[w] = "halted" /\ \A v \in Worker \ {w} : pc'[v] = pc[v]
              /\ ended' = ended
            BY <1>0, <2>1, <2>3 DEF Become, AfterDelete, TypeOK
        <3>2. Sleeping' = Sleeping \cup {w} /\ w \notin Sleeping
            BY <2>1, <3>1 DEF Sleeping
        <3>3. Consumed' = Consumed \/ Consumed' = Consumed \cup {job[w]}
            BY <1>0, <2>1 DEF Consumed, TypeOK
        <3> SUFFICES ASSUME ended' = {}
                     PROVE  /\ IsFiniteSet(Consumed') /\ IsFiniteSet(Sleeping')
                            /\ Cardinality(Consumed') <= Cardinality(Sleeping')
            BY DEF KillInv
        <3>4. /\ IsFiniteSet(Consumed) /\ IsFiniteSet(Sleeping)
              /\ Cardinality(Consumed) <= Cardinality(Sleeping)
            BY <3>1 DEF KillInv
        <3>5. /\ IsFiniteSet(Sleeping')
              /\ Cardinality(Sleeping') = Cardinality(Sleeping) + 1
            BY <3>2, <3>4, FS_AddElement
        <3>6. /\ IsFiniteSet(Consumed')
              /\ Cardinality(Consumed') <= Cardinality(Consumed) + 1
            <4>1. Cardinality(Consumed) \in Nat
                BY <3>4, FS_CardinalityType
            <4>2. CASE Consumed' = Consumed
                BY <3>4, <4>1, <4>2
            <4>3. CASE Consumed' = Consumed \cup {job[w]}
                <5>1. /\ IsFiniteSet(Consumed \cup {job[w]})
                      /\ Cardinality(Consumed \cup {job[w]}) =
                           IF job[w] \in Consumed THEN Cardinality(Consumed)
                           ELSE Cardinality(Consumed) + 1
                    BY <3>4, FS_AddElement
                <5> QED
                    BY <4>1, <4>3, <5>1
            <4> QED
                BY <3>3, <4>2, <4>3
        <3>7. Cardinality(Consumed) \in Nat /\ Cardinality(Sleeping) \in Nat
              /\ Cardinality(Consumed') \in Nat
            BY <3>4, <3>6, FS_CardinalityType
        <3> QED
            BY <3>4, <3>5, <3>6, <3>7
    <2>4. CASE result[w] \notin {"internal", "halt"}
        <3>1. job[w] \notin Kill
            BY <2>1, <2>4, SqsAssumption DEF OutcomesOf
        <3>2. \A k \in Kill : msg'[k] = msg[k]
            BY <1>0, <2>1, <3>1 DEF TypeOK
        <3>3. Become(w, "idle", NoTask, "none")
            BY <2>1, <2>4 DEF AfterDelete
        <3> QED
            BY <1>0, <2>1, <3>2, <3>3, GoesOn DEF WorkerState
    <2> QED
        BY <2>2, <2>3, <2>4
<1>7. ASSUME NEW w \in Worker, Reschedule(w) PROVE KillInv'
    <2>1. /\ Become(w, "idle", NoTask, "none") \/ Become(w, "down", NoTask, "none")
          /\ pc[w] # "halted" /\ msg' = msg
        BY <1>7 DEF Reschedule
    <2> QED
        BY <1>0, <2>1, GoesOn, DownEnds DEF WorkerState
<1>8. ASSUME NEW w \in Worker, AbortShutdown(w) \/ Crash(w) PROVE KillInv'
    BY <1>8, DownEnds DEF AbortShutdown, Crash
<1>9. CASE UNCHANGED vars
    BY <1>9, SameCounts DEF vars, Consumed, Sleeping
<1> QED
    BY <1>1, <1>2, <1>3, <1>4, <1>5, <1>6, <1>7, <1>8, <1>9 DEF Next

\* _shutdown_procedure: until a process ends, the kill messages that were
\* consumed are no more than the workers that sleep, so one message for each
\* worker stops them all.
THEOREM KillsDistinct == Spec => []KillsStopDistinctWorkers
<1>1. Init => KillInv
    <2> SUFFICES ASSUME Init PROVE KillInv
        OBVIOUS
    <2>1. Consumed = {} /\ Sleeping = {}
        BY SqsAssumption DEF Init, Consumed, Sleeping
    <2> QED
        BY <2>1, FS_EmptySet DEF KillInv
<1>2. KillInv => KillsStopDistinctWorkers
    BY DEF KillInv, KillsStopDistinctWorkers, Consumed, Sleeping
<1> QED
    BY <1>1, <1>2, KillStep, Invariance, PTL DEF Spec

-----------------------------------------------------------------------------
(***************************************************************************)
(* SqsWorker implements TaskQueue: sending is Submit, the end of an action *)
(* is Attempt, deleting the message is Drop, and nothing else is seen.     *)
(***************************************************************************)

QueuedTasks == {t \in Task : msg[t] \in {"delayed", "visible", "inflight"}}
GoneTasks == {t \in Task : msg[t] = "deleted"}
QueueUnchanged ==
    QueuedTasks' = QueuedTasks /\ GoneTasks' = GoneTasks
    /\ UNCHANGED <<attempted, settled>>

LEMMA SendIsSubmit ==
    ASSUME TypeOK, NEW t \in Task, SendMessage(t)
    PROVE  Queue!Submit(t)
<1>1. PICK s \in {"visible", "delayed"} : msg' = [msg EXCEPT ![t] = s]
    BY DEF SendMessage
<1>2. t \notin QueuedTasks \cup GoneTasks
    BY DEF SendMessage, QueuedTasks, GoneTasks
<1>3. QueuedTasks' = QueuedTasks \cup {t} /\ GoneTasks' = GoneTasks
    <2>1. \A u \in Task : msg'[u] = IF u = t THEN s ELSE msg[u]
        BY <1>1 DEF TypeOK
    <2>2. msg[t] = "unsent" /\ s # "deleted"
        BY DEF SendMessage
    <2>3. QED
        BY <2>1, <2>2 DEF QueuedTasks, GoneTasks
<1>4. QED
    BY <1>2, <1>3 DEF Queue!Submit, SendMessage, QueuedTasks, GoneTasks

LEMMA ExecuteIsAttempt ==
    ASSUME IInv, NEW w \in Worker, ExecuteAction(w)
    PROVE  \E t \in Task : Queue!Attempt(t)
<1>1. job[w] \in Task /\ msg[job[w]] # "unsent"
    BY DEF ExecuteAction, IInv, JobInv, Busy
<1>2. job[w] \in QueuedTasks \cup GoneTasks
    BY <1>1 DEF QueuedTasks, GoneTasks, IInv, TypeOK, MsgState
<1>3. /\ attempted' = attempted \cup {job[w]}
      /\ settled' \in {settled, settled \cup {job[w]}}
      /\ msg' = msg
    BY DEF ExecuteAction
<1>4. QED
    BY <1>1, <1>2, <1>3 DEF Queue!Attempt, QueuedTasks, GoneTasks

LEMMA DeleteIsDrop ==
    ASSUME IInv, NEW w \in Worker, Delete(w)
    PROVE  QueueUnchanged \/ (\E t \in Task : Queue!Drop(t))
<1>1. job[w] \in Task /\ msg[job[w]] # "unsent" /\ job[w] \in settled
    BY DEF Delete, IInv, JobInv, Busy
<1>2. UNCHANGED <<attempted, settled>>
    BY DEF Delete
<1>3. CASE msg' = msg
    BY <1>2, <1>3 DEF QueueUnchanged, QueuedTasks, GoneTasks
<1>4. CASE msg' = [msg EXCEPT ![job[w]] = "deleted"] /\ msg[job[w]] = "deleted"
    <2>1. \A u \in Task : msg'[u] = msg[u]
        BY <1>4 DEF IInv, TypeOK
    <2>2. QED
        BY <1>2, <2>1 DEF QueueUnchanged, QueuedTasks, GoneTasks
<1>5. CASE msg' = [msg EXCEPT ![job[w]] = "deleted"] /\ msg[job[w]] # "deleted"
    <2>1. \A u \in Task : msg'[u] = IF u = job[w] THEN "deleted" ELSE msg[u]
        BY <1>5 DEF IInv, TypeOK
    <2>2. job[w] \in QueuedTasks
        BY <1>1, <1>5 DEF QueuedTasks, IInv, TypeOK, MsgState
    <2>3. QueuedTasks' = QueuedTasks \ {job[w]}
        BY <2>1 DEF QueuedTasks
    <2>4. GoneTasks' = GoneTasks \cup {job[w]}
        BY <1>1, <2>1 DEF GoneTasks
    <2>5. QED
        BY <1>1, <1>2, <2>2, <2>3, <2>4 DEF Queue!Drop, QueuedTasks, GoneTasks
<1>6. QED
    BY <1>3, <1>4, <1>5 DEF Delete, DeleteMessage

LEMMA OtherStepsUnseen ==
    ASSUME TypeOK, UNCHANGED <<attempted, settled>>,
           \A u \in Task :
              \/ msg'[u] = msg[u]
              \/ msg[u] \in {"delayed", "visible", "inflight"}
                 /\ msg'[u] \in {"visible", "inflight"}
    PROVE  QueueUnchanged
BY DEF QueueUnchanged, QueuedTasks, GoneTasks

\* Whatever the scheduler, the workers, SQS and crashes do, a client sees the
\* at-least-once queue of TaskQueue.
THEOREM WorkersImplementTaskQueue == Spec => ImplementsTaskQueue
<1>1. Init => Queue!Init
    BY DEF Init, Queue!Init
<1>2. IInv /\ [Next]_vars => [Queue!Next]_(Queue!tqVars)
    <2> SUFFICES ASSUME IInv, [Next]_vars
                 PROVE  Queue!Next \/ UNCHANGED Queue!tqVars
        OBVIOUS
    <2>0. TypeOK /\ (QueueUnchanged => UNCHANGED Queue!tqVars)
        BY DEF IInv, QueueUnchanged, QueuedTasks, GoneTasks, Queue!tqVars
    <2>1. ASSUME NEW t \in Task, SendMessage(t) PROVE Queue!Next
        BY <2>0, <2>1, SendIsSubmit DEF Queue!Next
    <2>2. ASSUME NEW w \in Worker, ExecuteAction(w) PROVE Queue!Next
        BY <2>2, ExecuteIsAttempt DEF Queue!Next
    <2>3. ASSUME NEW w \in Worker, Delete(w)
          PROVE  Queue!Next \/ UNCHANGED Queue!tqVars
        <3>1. QueueUnchanged \/ (\E t \in Task : Queue!Drop(t))
            BY <2>3, DeleteIsDrop
        <3>2. CASE QueueUnchanged
            BY <2>0, <3>2
        <3>3. CASE \E t \in Task : Queue!Drop(t)
            BY <3>3 DEF Queue!Next
        <3>4. QED
            BY <3>1, <3>2, <3>3
    <2>4. ASSUME NEW t \in Task,
                 \/ StartPid(t) \/ CallerDies(t) \/ ExpirePid(t)
                 \/ BecomeVisible(t) \/ (\E w \in Worker : ReceiveMessage(w, t))
          PROVE  UNCHANGED Queue!tqVars
        <3>1. UNCHANGED <<attempted, settled>>
            BY <2>4 DEF StartPid, CallerDies, ExpirePid, BecomeVisible,
                        ReceiveMessage
        <3>2. \A u \in Task :
                 \/ msg'[u] = msg[u]
                 \/ msg[u] \in {"delayed", "visible", "inflight"}
                    /\ msg'[u] \in {"visible", "inflight"}
            BY <2>0, <2>4 DEF StartPid, CallerDies, ExpirePid, BecomeVisible,
                              ReceiveMessage, TypeOK
        <3>3. QED
            BY <2>0, <3>1, <3>2, OtherStepsUnseen
    <2>5. ASSUME NEW w \in Worker,
                 \/ StartWorker(w) \/ ClearPid(w) \/ Reschedule(w)
                 \/ AbortShutdown(w) \/ Crash(w)
          PROVE  UNCHANGED Queue!tqVars
        <3>1. UNCHANGED <<attempted, settled, msg>>
            BY <2>5 DEF StartWorker, ClearPid, Reschedule, AbortShutdown, Crash
        <3>2. QED
            BY <2>0, <3>1, OtherStepsUnseen
    <2>6. CASE UNCHANGED vars
        BY <2>6 DEF vars, Queue!tqVars
    <2>7. QED
        BY <2>1, <2>2, <2>3, <2>4, <2>5, <2>6 DEF Next
<1>3. QED
    BY <1>1, <1>2, Invariance, PTL DEF Spec, ImplementsTaskQueue, Queue!Spec
=============================================================================

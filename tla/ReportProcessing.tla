--------------------------- MODULE ReportProcessing ---------------------------
(***************************************************************************)
(* Processing of the reports of one streamer by the background workers     *)
(* (apps/streamer/worker): every uploaded report has a task on the SQS     *)
(* queue; a worker that gets the task takes the streamer's key in the      *)
(* Redis cache (WorkerThrotle), stores the readings that are newer than    *)
(* Streamer.last_id, updates the Streamer and StreamerReport records, runs *)
(* the follow-up work (filters, E2 events, forwarding) and releases the    *)
(* key.  A worker that finds the key taken schedules the report again.     *)
(*                                                                         *)
(* The queue is used through the contract proved in SqsWorker: a task is   *)
(* delivered until some attempt has settled it, attempts can overlap, and  *)
(* a late delete may or may not remove a redelivered message.              *)
(***************************************************************************)
EXTENDS Naturals, FiniteSets

CONSTANTS
    Report,     \* the reports of the streamer
    Lo, Hi,     \* footer['lowest_id'], footer['highest_id'] of each report
    Disabled,   \* ids of readings whose stream is disabled
    Encoded,    \* ids of readings that complete an encoded event
    Reboot,     \* ids of readings that report a reboot of the device
    System,     \* the streamer's selector is SYSTEM
    Worker,
    GiveUp,     \* attempts after which the key is removed (200 in the code)
    NoReport,
    MaxFault,   \* bound on errors of process() and worker crashes
    MaxTimeout  \* bound on redeliveries of a message being processed

ASSUME ReportAssumption ==
    /\ NoReport \notin Report
    /\ Lo \in [Report -> Nat \ {0}]
    /\ Hi \in [Report -> Nat \ {0}]
    /\ GiveUp \in Nat \ {0}
    /\ \A r \in Report : Lo[r] <= Hi[r]
    /\ System \in BOOLEAN
    /\ MaxFault \in Nat
    /\ MaxTimeout \in Nat

VARIABLES
    uploaded,   \* reports whose task was sent
    msgs,       \* msgs[r]: messages of r that no worker is processing
    key,        \* value of the streamer's throttle key (0: no key)
    lastId,     \* Streamer.last_id
    actual,     \* actual[r]: StreamerReport.actual_first_id/actual_last_id
    stored,     \* stored[i]: copies of reading i in the StreamData table
    evented,    \* evented[i]: events built from reading i
    followed,   \* followed[r]: times the follow-up work of r was done
    failed,     \* reports dropped with an error
    handled,    \* reports processed to the end (history)
    pc, rep,    \* control point and report of each worker
    mine,       \* mine[w]: the StreamerReport record as worker w read it
    att,        \* att[w]: the value of the key worker w read
    snap,       \* snap[w]: Streamer.last_id as worker w read it
    held,       \* held[w]: the message of w was not redelivered meanwhile
    verdict,    \* verdict[w]: how the action of w ends
    raced,      \* a key was set over the key of another worker (history)
    gaveUp,     \* a key was removed after GiveUp attempts (history)
    torn,       \* readings were stored and last_id was not updated (history)
    peak,       \* the highest value that last_id has had (history)
    shared,     \* reports that two workers had at the same time (history)
    faults, timeouts

queueVars  == <<uploaded, msgs>>
tableVars  == <<lastId, actual, stored, evented, followed>>
endVars    == <<failed, handled>>
workerVars == <<pc, rep, mine, att, snap, held, verdict>>
causeVars  == <<raced, gaveUp, torn, peak, shared>>
boundVars  == <<faults, timeouts>>
vars == <<queueVars, key, tableVars, endVars, workerVars, causeVars, boundVars>>

\* The incremental ids of the readings of r.
Ids(r) == Lo[r]..Hi[r]
AllIds == UNION {Ids(r) : r \in Report}

\* actual_first_id and actual_last_id are null until the report is recorded.
Unrecorded == [first |-> 0, last |-> 0, done |-> FALSE]
\* They are both 0 for a report without a reading to store.
NothingNew == [first |-> 0, last |-> 0, done |-> TRUE]

\* The control points between begin_process() and end_process().
Inside(w) == pc[w] \in {"read", "commit", "events", "record", "follow", "unlock"}

Init ==
    /\ uploaded = {}
    /\ msgs = [r \in Report |-> 0]
    /\ key = 0
    /\ lastId = 0
    /\ actual = [r \in Report |-> Unrecorded]
    /\ stored = [i \in AllIds |-> 0]
    /\ evented = [i \in AllIds |-> 0]
    /\ followed = [r \in Report |-> 0]
    /\ failed = {}
    /\ handled = {}
    /\ pc = [w \in Worker |-> "idle"]
    /\ rep = [w \in Worker |-> NoReport]
    /\ mine = [w \in Worker |-> Unrecorded]
    /\ att = [w \in Worker |-> 0]
    /\ snap = [w \in Worker |-> 0]
    /\ held = [w \in Worker |-> FALSE]
    /\ verdict = [w \in Worker |-> "ok"]
    /\ raced = FALSE
    /\ gaveUp = FALSE
    /\ torn = FALSE
    /\ peak = 0
    /\ shared = {}
    /\ faults = 0
    /\ timeouts = 0

Goto(w, l) == pc' = [pc EXCEPT ![w] = l]

-----------------------------------------------------------------------------
(***************************************************************************)
(* The queue.                                                              *)
(***************************************************************************)

\* ProcessReportBaseAction.schedule, the last step of an upload: the row of the
\* report, with no range yet, and its file are stored before.  An upload that
\* ends before this step leaves a report that no worker ever hears of.
Schedule(r) ==
    /\ r \notin uploaded
    /\ uploaded' = uploaded \cup {r}
    /\ msgs' = [msgs EXCEPT ![r] = @ + 1]
    /\ UNCHANGED <<key, tableVars, endVars, workerVars, causeVars, boundVars>>

\* A worker receives a message of r; execute() reads the file, its metadata
\* and the StreamerReport record.
Receive(w, r) ==
    /\ pc[w] = "idle"
    /\ msgs[r] > 0
    /\ msgs' = [msgs EXCEPT ![r] = @ - 1]
    /\ rep' = [rep EXCEPT ![w] = r]
    /\ mine' = [mine EXCEPT ![w] = actual[r]]
    /\ held' = [held EXCEPT ![w] = TRUE]
    /\ shared' = IF \E v \in Worker \ {w} : rep[v] = r
                 THEN shared \cup {r} ELSE shared
    /\ Goto(w, "get")
    /\ UNCHANGED <<uploaded, key, tableVars, endVars, att, snap, verdict,
                   raced, gaveUp, torn, peak, boundVars>>

\* The file, its metadata or the StreamerReport cannot be read: hard error.
CannotFetch(w) ==
    /\ pc[w] = "get"
    /\ faults < MaxFault
    /\ faults' = faults + 1
    /\ verdict' = [verdict EXCEPT ![w] = "hard"]
    /\ Goto(w, "finish")
    /\ UNCHANGED <<queueVars, key, tableVars, endVars, rep, mine, att, snap, held,
                   causeVars, timeouts>>

\* The visibility timeout of the message w is processing runs out.
Timeout(w) ==
    /\ held[w]
    /\ timeouts < MaxTimeout
    /\ timeouts' = timeouts + 1
    /\ held' = [held EXCEPT ![w] = FALSE]
    /\ msgs' = [msgs EXCEPT ![rep[w]] = @ + 1]
    /\ UNCHANGED <<uploaded, key, tableVars, endVars, pc, rep, mine, att, snap, verdict,
                   causeVars, faults>>

-----------------------------------------------------------------------------
(***************************************************************************)
(* WorkerThrotle.begin_process: three separate cache operations.           *)
(***************************************************************************)

\* self.attempts = cache.get(self.key, 0)
ReadKey(w) ==
    /\ pc[w] = "get"
    /\ att' = [att EXCEPT ![w] = key]
    /\ Goto(w, IF key = 0 THEN "set" ELSE "incr")
    /\ UNCHANGED <<queueVars, key, tableVars, endVars, rep, mine, snap, held, verdict,
                   causeVars, boundVars>>

\* cache.set(self.key, 1, 18000); process() begins.
SetKey(w) ==
    /\ pc[w] = "set"
    /\ key' = 1
    /\ Goto(w, "read")
    /\ raced' = (raced \/ key # 0)
    /\ UNCHANGED <<queueVars, tableVars, endVars, rep, mine, att, snap, held, verdict,
                   gaveUp, torn, peak, shared, boundVars>>

\* cache.incr(self.key, 1) fails when the key has gone since it was read, and
\* the failure becomes a WorkerActionHardError.  After GiveUp attempts the
\* key is removed, whoever owns it.
IncrKey(w) ==
    /\ pc[w] = "incr"
    /\ \/ /\ key = 0
          /\ verdict' = [verdict EXCEPT ![w] = "hard"]
          /\ Goto(w, "finish")
          /\ UNCHANGED key
       \/ /\ key > 0
          /\ key' = key + 1
          /\ Goto(w, IF att[w] >= GiveUp THEN "giveup" ELSE "resched")
          /\ UNCHANGED verdict
    /\ UNCHANGED <<queueVars, tableVars, endVars, rep, mine, att, snap, held,
                   causeVars, boundVars>>

GiveUpKey(w) ==
    /\ pc[w] = "giveup"
    /\ key' = 0
    /\ gaveUp' = TRUE
    /\ Goto(w, "resched")
    /\ UNCHANGED <<queueVars, tableVars, endVars, rep, mine, att, snap, held, verdict,
                   raced, torn, peak, shared, boundVars>>

\* Mutant: the report is not scheduled again.
RescheduleNothing(w) ==
    /\ pc[w] = "resched"
    /\ verdict' = [verdict EXCEPT ![w] = "busy"]
    /\ Goto(w, "finish")
    /\ UNCHANGED <<queueVars, key, tableVars, endVars, rep, mine, att, snap, held,
                   causeVars, boundVars>>

\* Mutant: the key is removed whether the worker owns it or not.
RescheduleAndUnlock(w) ==
    /\ pc[w] = "resched"
    /\ key' = 0
    /\ msgs' = [msgs EXCEPT ![rep[w]] = @ + 1]
    /\ verdict' = [verdict EXCEPT ![w] = "busy"]
    /\ Goto(w, "finish")
    /\ UNCHANGED <<uploaded, tableVars, endVars, rep, mine, att, snap, held,
                   causeVars, boundVars>>

\* The key was taken: schedule(args=arguments, delay_seconds=120).
Reschedule(w) ==
    /\ pc[w] = "resched"
    /\ msgs' = [msgs EXCEPT ![rep[w]] = @ + 1]
    /\ verdict' = [verdict EXCEPT ![w] = "busy"]
    /\ Goto(w, "finish")
    /\ UNCHANGED <<uploaded, key, tableVars, endVars, rep, mine, att, snap, held,
                   causeVars, boundVars>>

\* The 5 hour expiry of a key whose owner died without removing it.  (The code
\* assumes that "the process should finish before that".)
ExpireKey ==
    /\ key > 0
    /\ \A w \in Worker : ~Inside(w)
    /\ key' = 0
    /\ UNCHANGED <<queueVars, tableVars, endVars, workerVars, causeVars, boundVars>>

-----------------------------------------------------------------------------
(***************************************************************************)
(* process()                                                               *)
(***************************************************************************)

\* Mutants: one reading too many, one too few.
NewIdsFromLast(w) == {i \in Ids(rep[w]) : i >= snap[w]}
NewIdsAfterNext(w) == {i \in Ids(rep[w]) : i > snap[w] + 1}

\* Readings newer than the last_id that was read; the others are skipped.
NewIds(w) == {i \in Ids(rep[w]) : i > snap[w]}
\* Those of enabled streams are counted.
Entries(w) == NewIds(w) \ Disabled

\* Reboots are on all streamers of a device, and only the system streamer keeps
\* them.  The others take them out after they were counted.
Removed == IF System THEN {} ELSE Reboot
Kept(w) == Entries(w) \ Removed
NotKept == Disabled \cup Removed

\* Mutant: the row is saved without the range it had.
ReadReportAnew(w) ==
    /\ pc[w] = "read"
    /\ actual' = [actual EXCEPT ![rep[w]] = Unrecorded]
    /\ snap' = [snap EXCEPT ![w] = lastId]
    /\ Goto(w, "commit")
    /\ UNCHANGED <<queueVars, key, lastId, stored, evented, followed, endVars,
                   rep, mine, att, held, verdict, causeVars, boundVars>>

\* _initialize_from_device_streamer saves the whole StreamerReport row as it
\* was read in execute(), and loads the Streamer; _read_stream_data and
\* _post_read_stream_data work in memory.
ReadReport(w) ==
    /\ pc[w] = "read"
    /\ actual' = [actual EXCEPT ![rep[w]] = mine[w]]
    /\ snap' = [snap EXCEPT ![w] = lastId]
    /\ Goto(w, "commit")
    /\ UNCHANGED <<queueVars, key, lastId, stored, evented, followed, endVars,
                   rep, mine, att, held, verdict, causeVars, boundVars>>

\* One more row for each of the readings in S.
AddRows(table, S) == [i \in AllIds |-> IF i \in S THEN table[i] + 1 ELSE table[i]]

\* _commit_stream_data: one bulk_create.
CommitData(w) ==
    /\ pc[w] = "commit"
    /\ stored' = AddRows(stored, Kept(w))
    /\ Goto(w, "events")
    /\ UNCHANGED <<queueVars, key, lastId, actual, evented, followed, endVars,
                   rep, mine, att, snap, held, verdict, causeVars, boundVars>>

\* _process_encoded_stream_data and _commit_stream_event_data: another one.
CommitEvents(w) ==
    /\ pc[w] = "events"
    /\ evented' = AddRows(evented, Kept(w) \cap Encoded)
    /\ Goto(w, "record")
    /\ UNCHANGED <<queueVars, key, lastId, actual, stored, followed, endVars,
                   rep, mine, att, snap, held, verdict, causeVars, boundVars>>

\* The range of the report that was new, with the readings that are not kept.
NewRange(w) ==
    [first |-> IF Lo[rep[w]] > snap[w] THEN Lo[rep[w]] ELSE snap[w] + 1,
     last |-> Hi[rep[w]], done |-> TRUE]

\* Streamer.last_id is moved to the last reading of the report.
Advance(w) ==
    /\ lastId' = Hi[rep[w]]
    /\ peak' = IF Hi[rep[w]] > peak THEN Hi[rep[w]] ELSE peak

\* Mutant: the records may be updated before the readings are stored.
RecordReportEarly(w) ==
    /\ pc[w] \in {"commit", "events", "record"}
    /\ \/ /\ Entries(w) # {}
          /\ actual' = [actual EXCEPT ![rep[w]] = NewRange(w)]
          /\ Advance(w)
          /\ Goto(w, "follow")
       \/ /\ Entries(w) = {}
          /\ actual' = [actual EXCEPT ![rep[w]] = NothingNew]
          /\ Goto(w, "unlock")
          /\ UNCHANGED <<lastId, peak>>
    /\ UNCHANGED <<queueVars, key, stored, evented, followed, endVars, rep, mine,
                   att, snap, held, verdict, raced, gaveUp, torn, shared, boundVars>>

\* Mutant: self._count is not looked at.
RecordReportAlways(w) ==
    /\ pc[w] = "record"
    /\ actual' = [actual EXCEPT ![rep[w]] = NewRange(w)]
    /\ Advance(w)
    /\ Goto(w, "follow")
    /\ UNCHANGED <<queueVars, key, stored, evented, followed, endVars, rep, mine,
                   att, snap, held, verdict, raced, gaveUp, torn, shared, boundVars>>

\* _update_streamer_and_streamer_report: one transaction.  A report without
\* any reading to store leaves last_id alone and is recorded with zeros, unless
\* the record the worker read already had a range.
RecordReport(w) ==
    /\ pc[w] = "record"
    /\ \/ /\ Entries(w) # {}
          /\ actual' = [actual EXCEPT ![rep[w]] = NewRange(w)]
          /\ Advance(w)
          /\ Goto(w, "follow")
       \/ /\ Entries(w) = {} /\ ~mine[w].done
          /\ actual' = [actual EXCEPT ![rep[w]] = NothingNew]
          /\ Goto(w, "unlock")
          /\ UNCHANGED <<lastId, peak>>
       \/ /\ Entries(w) = {} /\ mine[w].done
          /\ Goto(w, "unlock")
          /\ UNCHANGED <<actual, lastId, peak>>
    /\ UNCHANGED <<queueVars, key, stored, evented, followed, endVars, rep, mine,
                   att, snap, held, verdict, raced, gaveUp, torn, shared, boundVars>>

\* Filters, E2 events and forwarding (or the chopped report fix-up).
FollowUp(w) ==
    /\ pc[w] = "follow"
    /\ followed' = [followed EXCEPT ![rep[w]] = @ + 1]
    /\ Goto(w, "unlock")
    /\ UNCHANGED <<queueVars, key, lastId, actual, stored, evented, endVars, rep, mine,
                   att, snap, held, verdict, causeVars, boundVars>>

\* The readings of w are in the table and Streamer.last_id is not updated yet.
Unsaved(w) == pc[w] \in {"events", "record"} /\ Kept(w) # {}

\* process() raises: a database error keeps the message, anything else drops
\* it; the finally clause runs either way.
RaiseError(w) ==
    /\ pc[w] \in {"read", "commit", "events", "record", "follow"}
    /\ faults < MaxFault
    /\ faults' = faults + 1
    /\ \E v \in {"hard", "database"} : verdict' = [verdict EXCEPT ![w] = v]
    /\ torn' = (torn \/ Unsaved(w))
    /\ Goto(w, "unlock")
    /\ UNCHANGED <<queueVars, key, tableVars, endVars, rep, mine, att, snap, held,
                   raced, gaveUp, peak, shared, timeouts>>

\* end_process(): cache.delete, whatever the key holds now.
EndProcess(w) ==
    /\ pc[w] = "unlock"
    /\ key' = 0
    /\ handled' = IF verdict[w] = "ok" THEN handled \cup {rep[w]} ELSE handled
    /\ Goto(w, "finish")
    /\ UNCHANGED <<queueVars, tableVars, failed, rep, mine, att, snap, held, verdict,
                   causeVars, boundVars>>

-----------------------------------------------------------------------------
\* Mutant: the report of the last action is kept.
LeaveKeepsReport(w) ==
    /\ Goto(w, "idle")
    /\ mine' = [mine EXCEPT ![w] = Unrecorded]
    /\ att' = [att EXCEPT ![w] = 0]
    /\ snap' = [snap EXCEPT ![w] = 0]
    /\ verdict' = [verdict EXCEPT ![w] = "ok"]
    /\ UNCHANGED rep

\* The worker of w waits for the next message; its Action object is gone.
Leave(w) ==
    /\ Goto(w, "idle")
    /\ rep' = [rep EXCEPT ![w] = NoReport]
    /\ mine' = [mine EXCEPT ![w] = Unrecorded]
    /\ att' = [att EXCEPT ![w] = 0]
    /\ snap' = [snap EXCEPT ![w] = 0]
    /\ verdict' = [verdict EXCEPT ![w] = "ok"]

\* The worker deletes the message, or gives it back after a database error; a
\* message that was redelivered meanwhile may survive the delete, or not, even
\* when another worker has it already.
Finish(w) ==
    /\ pc[w] = "finish"
    /\ \/ /\ verdict[w] = "database"
          /\ msgs' = IF held[w] THEN [msgs EXCEPT ![rep[w]] = @ + 1] ELSE msgs
          /\ held' = [held EXCEPT ![w] = FALSE]
       \/ /\ verdict[w] # "database"
          /\ held' = [held EXCEPT ![w] = FALSE]
          /\ UNCHANGED msgs
       \/ /\ verdict[w] # "database" /\ ~held[w] /\ msgs[rep[w]] > 0
          /\ msgs' = [msgs EXCEPT ![rep[w]] = @ - 1]
          /\ UNCHANGED held
       \/ /\ verdict[w] # "database" /\ ~held[w]
          /\ \E v \in Worker \ {w} :
                /\ held[v] /\ rep[v] = rep[w]
                /\ held' = [held EXCEPT ![v] = FALSE]
          /\ UNCHANGED msgs
    /\ failed' = IF verdict[w] = "hard" THEN failed \cup {rep[w]} ELSE failed
    /\ Leave(w)
    /\ UNCHANGED <<uploaded, key, tableVars, handled, causeVars, boundVars>>

\* The process is killed: the key stays, the message comes back.
Crash(w) ==
    /\ pc[w] # "idle"
    /\ faults < MaxFault
    /\ faults' = faults + 1
    /\ msgs' = IF held[w] THEN [msgs EXCEPT ![rep[w]] = @ + 1] ELSE msgs
    /\ torn' = (torn \/ Unsaved(w))
    /\ held' = [held EXCEPT ![w] = FALSE]
    /\ Leave(w)
    /\ UNCHANGED <<uploaded, key, tableVars, endVars, raced, gaveUp, peak, shared, timeouts>>

-----------------------------------------------------------------------------
Step(w) ==
    \/ ReadKey(w) \/ SetKey(w) \/ IncrKey(w) \/ GiveUpKey(w) \/ Reschedule(w)
    \/ ReadReport(w) \/ CommitData(w) \/ CommitEvents(w) \/ RecordReport(w) \/ FollowUp(w)
    \/ EndProcess(w) \/ Finish(w)

Next ==
    \/ \E r \in Report : Schedule(r)
    \/ ExpireKey
    \/ \E w \in Worker :
          \/ \E r \in Report : Receive(w, r)
          \/ Step(w)
          \/ Timeout(w)
          \/ CannotFetch(w)
          \/ RaiseError(w)
          \/ Crash(w)

Spec == Init /\ [][Next]_vars

\* Workers go on, the queue passes over no report for ever, keys expire.
Fairness ==
    /\ \A w \in Worker : WF_vars(Step(w))
    /\ \A r \in Report : SF_vars(\E w \in Worker : Receive(w, r))
    /\ WF_vars(ExpireKey)

FairSpec == Spec /\ Fairness

-----------------------------------------------------------------------------
Labels == {"idle", "get", "set", "incr", "giveup", "resched", "read", "commit",
           "events", "record", "follow", "unlock", "finish"}
Record == [first : Nat, last : Nat, done : BOOLEAN]

\* Types, and that a worker has a report exactly when it is not idle.
TypeOK ==
    /\ uploaded \subseteq Report
    /\ msgs \in [Report -> Nat]
    /\ key \in Nat
    /\ lastId \in Nat
    /\ actual \in [Report -> Record]
    /\ stored \in [AllIds -> Nat]
    /\ evented \in [AllIds -> Nat]
    /\ followed \in [Report -> Nat]
    /\ failed \subseteq Report
    /\ handled \subseteq Report
    /\ pc \in [Worker -> Labels]
    /\ rep \in [Worker -> Report \cup {NoReport}]
    /\ mine \in [Worker -> Record]
    /\ att \in [Worker -> Nat]
    /\ snap \in [Worker -> Nat]
    /\ held \in [Worker -> BOOLEAN]
    /\ verdict \in [Worker -> {"ok", "busy", "hard", "database"}]
    /\ raced \in BOOLEAN /\ gaveUp \in BOOLEAN /\ torn \in BOOLEAN
    /\ peak \in Nat
    /\ shared \subseteq Report
    /\ faults \in 0..MaxFault
    /\ timeouts \in 0..MaxTimeout
    /\ \A w \in Worker :
          /\ rep[w] = NoReport <=> pc[w] = "idle"
          /\ held[w] => pc[w] # "idle"

\* The cache key excludes: two workers are never inside process() for the
\* streamer unless a key was set over a key (get and set are two operations) or
\* was removed by a worker that gave up (base_action.py 346-361).
ThrottleExcludes ==
    (\E v, w \in Worker : v # w /\ Inside(v) /\ Inside(w)) => raced \/ gaveUp

\* A reading is stored once, and its event built once, however often the report
\* is delivered, unless the throttle failed or an attempt ended between the
\* commit of the readings and the update of Streamer.last_id.
DuplicateHasCause ==
    (\E i \in AllIds : stored[i] > 1 \/ evented[i] > 1) => raced \/ gaveUp \/ torn

\* Filters, E2 updates and forwarding are done at most once for a report, even
\* if the readings were stored twice, unless the throttle failed.
FollowUpOnce ==
    (\E r \in Report : followed[r] > 1) => raced \/ gaveUp

\* A StreamerReport never claims a reading that the database should have and has
\* not: the enabled readings of the range it records are stored, whatever fails
\* between the two.  The range of a report of a user streamer also covers its
\* reboots, which are not stored.
DataBeforeRecord ==
    \A r \in Report : \A i \in Ids(r) \ NotKept :
        actual[r].first <= i /\ i <= actual[r].last => stored[i] > 0

\* A report is never forgotten: until it was processed to the end or dropped with
\* an error, a message for it is queued or in the hands of a worker.
ReportNotForgotten ==
    \A r \in uploaded :
        \/ r \in handled \cup failed
        \/ msgs[r] > 0
        \/ \E w \in Worker : rep[w] = r

\* An enabled reading of a processed report is stored, unless it is a reboot on a
\* user streamer or last_id had passed a report that begins after it.  Beside
\* the removal of reboots, which is meant, only reports out of order lose
\* readings, whatever the throttle and the faults do.
MissingOnlyIfOvertaken ==
    \A r \in handled : \A i \in Ids(r) \ NotKept :
        stored[i] = 0 => \E q \in Report \ {r} : Lo[q] > i /\ Hi[q] <= peak

\* Streamer.last_id, below which readings are skipped, never goes back while the
\* throttle works.
LastIdGrows == [][lastId' >= lastId \/ raced \/ gaveUp]_vars

\* A recorded range is never erased by another attempt at the report, after an
\* error, a crash or a redelivery, although each attempt saves the row that it
\* read before it waited for the throttle.  The exception: two workers had the
\* report at the same time, as when it is delivered again during an attempt.
RangeKept ==
    [][\A r \in Report : actual[r].done /\ ~actual'[r].done => r \in shared]_vars

\* Every uploaded report is in the end processed, or dropped with an error.
EveryReportSettled ==
    \A r \in Report : r \in uploaded ~> r \in handled \cup failed

\* The readings of a streamer are a log to which reports are added one at a time,
\* as long as no key was set over a key and nobody gave up waiting.
Log == INSTANCE ReportLog WITH
    log <- stored, mark <- lastId, served <- followed,
    exclusive <- ~(raced \/ gaveUp)

\* The four commits of an attempt, whatever fails between them and however often
\* they are repeated, implement the log: what is stored, how far last_id goes
\* and what is passed on to filters and forwarding belong together.
ImplementsReportLog == Log!Spec

\* The comment of base_action.py 346: a streamer is never processed in parallel.
NeverInParallel ==
    \A v, w \in Worker : Inside(v) /\ Inside(w) => v = w

\* The comment of worker_throtle.py 35: a failed attempt only increments the
\* count; the report is not dropped when nothing failed.
WaitingNeverDrops == faults = 0 => failed = {}
=============================================================================

# TLA+ models of IOTile Cloud

IOTile Cloud (`src/server`) is a Django service. Devices record readings; a
phone or gateway uploads them as *reports*; background workers put the readings
into the database, run filters on them and forward them. Operators claim, move,
reset and archive devices. Almost everything that takes time is a *task*: a
message on an SQS queue that names a Python class, executed by one of a fleet of
worker processes that share a database and a Redis cache and nothing else.

The hard behaviour is there. A task can be executed twice or by two workers at
once, can stop after any statement and start over, and its only protection
against other tasks is a key in the cache or a column of a row that it saved
earlier. The models below are about that. All paths are under
`src/server/apps/` unless they start with `src/`.

## 1. The system

### Components, state, operations

| Component | State it keeps | Operations that change it |
| --- | --- | --- |
| `sqsworker` | SQS messages, `ActionPID` entries and counters in the cache | schedule an action; receive, execute, delete, reschedule; shut down |
| `streamer` (upload) | `Streamer` (`last_id`), `StreamerReport`, files in S3 | upload a report, change the streamer's engine, reprocess |
| `streamer/worker` | throttle key in the cache; `StreamData`, `StreamEventData`, `Streamer.last_id`, the range of a `StreamerReport`, `DeviceStatus` | process a report; fix up a cut-off, delayed or rebooted one |
| `streamer/report` | same tables | the worker of the first report format |
| `physicaldevice` | `Device` (state `N0`, `N1`, `B0`; project), `DeviceStatus` | claim, unclaim, reset, trim, move, upgrade, edit |
| `datablock` | `DataBlock`, its streams and their readings | archive, delete an archive |
| `stream`, `streamdata`, `streamevent`, `streamtimeseries` | `StreamId`, `StreamVariable`, readings | rows created by the above; queries |
| `streamfilter` | filters in the database and the cache; current state per stream in Redis | define, edit, reset a state machine; run new readings through it |
| `ota` | `DeploymentRequest`, `DeploymentAction`, `DeviceVersionAttribute`; the template and sensor graph of `Device` | schedule, release, complete a deployment; tell of an attempt; record a version, confirm an attempt; select devices |
| `report` | `GeneratedUserReport`, report configurations | schedule, generate, complete |
| `streamalias` | taps: which stream an alias follows from when | edit; read |
| `org` | `Org`, `OrgMembership` (role, permissions), verified domains | create, register, edit a member |
| `invitation` | pending invitations | send, send again, accept, sign up with, delete |
| `project` | `Project` (gid, slug, organization) | create, give to another organization, delete |
| `staff` | none of its own | claim, semi-claim, unclaim a device through a form |
| `fleet`, `authentication`, `property`, `configattribute`, notes, locations, templates, files, widgets, mail | rows | one-row edits, lookups |

`PROJECT.json` lists every component with its files, including the ones that
are left out.

### How they interact

* **Scheduling.** `Action.schedule` sends an SQS message and then writes an
  `ActionPID` entry. The caller is a web request or another task.
* **Execution.** A `Worker` receives one message, instantiates the class and
  calls `execute`. The exception it ends with decides what happens to the
  message: none, `WorkerActionHardError` and all unknown exceptions delete it;
  `WorkerActionSoftError` and database errors leave it in the queue.
* **Exclusion.** Reports of one streamer exclude each other with a cache key
  (`WorkerThrotle`). Device operations exclude each other with the state `B0`
  in the `Device` row, which the API looks at and the forms of the web site do
  not. Uploads of readings never look at it.
* **Shared rows.** Code reads a row, computes, and calls `save()`, which writes
  every column as it was read. Two pieces of code that do so for the same row
  overwrite each other.
* **Names.** A reading belongs to a stream by *slug*, a string with the project
  or the block in it. Moving a device or archiving it rewrites the slugs of
  its readings; an upload in progress has computed its slug before. The slug of
  a project comes from its gid, and the gid of a deleted project is used again.
* **The cache as a store.** Definitions of filters are read through the cache;
  the current state of a stream is *only* in the cache.
* **Inside a report.** The worker that processes a report also updates the
  `Device` row and the deployments (`ota`), and runs the new readings through
  the filters of their streams (`streamfilter`).

### What makes each component correct, and where it is hard

* *Worker service*: no task is lost, whatever crashes and whenever a message
  comes back; every task is attempted; a kill message stops one worker each.
  Hard: redelivery during execution, old receipt handles, errors while the
  message is being put back.
* *Report processing*: a reading is stored once, its event once, filters and
  forwarding run once; a report's record never claims what is not stored;
  `last_id` only grows; no report is forgotten. Hard: three separate cache
  operations, four separate commits, a crash between any two.
* *Device life cycle*: a device is busy while something works on it and becomes
  free again; readings stay reachable through the device or its archive;
  archives are not touched by what comes later. Hard: tasks that start over
  after part of their work is committed, rows saved whole, ids reused.
* *Filters*: the state that is stored is the one whose actions ran; a user is
  notified once per transition; a filter that is being edited is never used
  half-edited. Hard: lookup, actions and the write of the state are separate
  steps, edits are several statements, nothing is locked.
* *Members and invitations*: an organization keeps an owner, a person who was
  disabled stays out, an invitation is used once, permissions are those of the
  role that is shown. Hard: checks before whole-row saves, three ways to join.
* *Ownership*: the organization of a device is that of its project; an unclaim
  leaves nothing behind; nobody sees readings made for another organization.
  Hard: forms that save a row again after their task, tasks that name a device or
  a project and not the claim they were asked to end, gids used again.
* *Deployments*: the device row follows the version that the device reported,
  a version confirms one attempt, a rule selects what it says. Hard: errors
  between the statements, two streamers of a device, rows saved as read.
* *Generated reports*: each ends completed or in error. *Aliases*: a time
  interval belongs to one tap.

`PROJECT.json` lists the hazards of the code at their lines, each with the
properties that would catch it going wrong or the reason why none does yet.

## 2. The models

Each component has a module with its variables and actions, an `MC` module that
gives the constants small values and a `.cfg` per run, and a `Proofs` module with
its theorems.

### TaskQueue, SqsWorker

`TaskQueue` is the abstract contract that the rest of the system relies on: a
submitted task stays queued until an attempt has *settled* it; attempts may
repeat, overlap and come late. `SqsWorker` is the service.

| Model | Code |
| --- | --- |
| `SendMessage`, `StartPid`, `CallerDies` | `Action._schedule` (`sqsworker/action.py`): the message is sent, then `pid.start()` runs; the caller may die in between |
| `ReceiveMessage`, `ExecuteAction` | `Worker.run` and `process_task` (`sqsworker/workerhelper.py`); `OutcomesOf` are the `except` branches, those that only log differently taken together |
| `ClearPid`, `Delete` | the two halves of `delete_sqs_message` |
| `ClearPid`, `Reschedule` | the two halves of `reschedule_sqs_message`; an SQS error there ends the process |
| `AfterDelete`, `AbortShutdown` | `_shutdown_procedure`: sleep three times 30 minutes, then stop |
| `StartWorker` | `supervisord.conf`, `autorestart=true` |
| `BecomeVisible`, `DeleteMessage`, `CanChangeVisibility` | SQS, as the code uses it (external) |
| `Crash`, `ExpirePid` | a process killed anywhere; the 24 hours of a cache entry |

`attempted`, `settled` and `ended` are history variables.

### ReportLog, ReportProcessing

`ReportLog` is the abstract promise to the readers of a streamer's data: a log of
readings and a mark. A report adds its readings above the mark, the mark moves over
stored readings, and a report is passed on once and only after that; all of it
for as long as reports are processed one at a time (`exclusive`), and of the
rest only that no reading is taken out. `ReportProcessing` is the code, for the
reports of one streamer. A report is an interval of reading ids `Lo..Hi`;
intervals may overlap, as devices send unacknowledged readings again. Readings of
disabled streams are passed over. The reboots (`Reboot`) of a user streamer are
counted, so that `last_id` and the range move over them, and then taken out
before the rest is stored (`Removed`, `Kept`; `process_report.py:299`); the
system streamer of the device keeps its own copy.

| Model | Code |
| --- | --- |
| `Schedule`, `Receive`, `CannotFetch` | the last step of the upload (`streamer/tasks.py`), after the row and the file are stored; the beginning of `ProcessReportBaseAction.execute` |
| `ReadKey`, `SetKey`, `IncrKey`, `GiveUpKey` | `WorkerThrotle.begin_process`, one action per cache operation |
| `Reschedule` | the report is sent as a new message with a delay |
| `ReadReport` | `_initialize_from_device_streamer`, which also saves the `StreamerReport` row read before the throttle |
| `CommitData`, `CommitEvents`, `RecordReport`, `FollowUp` | the four commits of `process()` (`v2_bin/process_report.py`) |
| `RaiseError`, `EndProcess`, `Finish` | the error branches, the `finally` clause, and what the worker does with the message |
| `Timeout`, `Crash`, `ExpireKey` | redelivery, a killed worker, the 5 hours of the key |

The queue is used through the contract of `TaskQueue`. `raced`, `gaveUp` and
`torn` are history variables that record the only three causes by which the
protection fails; the properties say that there is no fourth. `peak` is the
highest value that `last_id` ever had: two workers inside can move it back.
`shared` has the reports that two workers had at one time.

### DeviceTasks

Archive, reset, move and delete-archive requests on one device, from the
handler that reads the row to the last statement of the task, with edits of the
row and uploads of readings meanwhile.

| Model | Code |
| --- | --- |
| `Ask` | the handlers: API views (which refuse a busy device) and web forms (which do not) of `physicaldevice` and `datablock` |
| `CreateBlock`, `MarkBusy`, `Send` | `DataBlock` saved with the next id; `set_state('B0')`, `save()`; the task scheduled |
| `Start`, `HardError` | the beginning of each `execute` |
| `Clone`, `Migrate`, `Complete` | `datablock/worker/archive_device_data.py` |
| `Clear` | `physicaldevice/worker/device_data_reset.py` |
| `MoveRow`, `Shift`, `Rename` | `physicaldevice/worker/device_move.py` |
| `Erase`, `Unlist` | `datablock/worker/datablock_delete.py` |
| `Notify`, `Finish`, `Ack`, `Retry` | the mail, the final `save()`, the end of the message; the task starting over after any statement |
| `Edited`, `SaveEdit` | `perform_update` (PATCH), which may set the state and the project and looks at busy as little as the edit form does |
| `BeginUpload`, `SaveUpload`, `EndUpload` | a report worker reads the device (and so the slug); saves the row it read, with a first `last_known_id` (`base_action.py:170`) or a new version (`ota/utils/streamer.py:158`); commits |
| `Save`, `SaveOutside` | the whole row is written; a job's own save, or one by an edit or a report |

A `save()` writes the whole row *as it was read* (`read[j]`, or `Uploading(d)`
for a report). The device has one variable, so a stream is known by its project or
its block; `place` says where each reading is. The state `N` stands for `N0` and
`N1`, which differ in the column `active` alone. The first report format saves the
row once more after the commit (`v1_bin/process_report.py:149`); the save of another
reading of that report stands for it. `met`, `ended`, `late`, `cut`, `stuck`,
`old`, `unmarked`, `rerouted`, `strayed` and `base` are history variables that name
the exceptions of the properties exactly: `old` has those who have not read the row
since its project changed, `unmarked` and `rerouted` the jobs under which an edit
or a report changed the state or the project.

### StreamFilter

The streams of one project with one variable, and the filters they may use: one
of their own each, or that of the project. A definition has states, transitions
and their triggers; what an action *does* (mail, SMS, Slack, a derived reading)
is left out.

| Model | Code |
| --- | --- |
| `GetOwn`, `GetProject`, `Find`, `Read`, `Fill`, `FillEmpty` | `_cached_serialized_filter_for_slug_elements` (`streamfilter/cache_utils.py`): two cache lookups, the query, the serializer's queries, the write of the entry |
| `Expire` | the timeout of a cache entry |
| `Decide`, `Pass`, `Act`, `SetState` | `FilterHelper.process_filter` (`streamfilter/process.py`), per transition; `RightState`, `Triggered`, `Evaluate`, `First` are its conditions and the order of the query |
| `Fail` | an action, Redis or the process fails; the caller does not repeat it |
| `Request`, `Execute`, `Clear` | the API and the forms that edit filters, states, transitions and triggers; `Requests` gives the statements of each request (`Rewriting`: the triggers of a transition are deleted and written again), `Changed` what one does, cascades included; `Clear` is the page that deletes a filter transition by transition |
| `Uncache`, `Forget` | the reset: the entry, then the current states |

`entered` remembers whose entry actions ran last, `whole` which definitions some
edit left complete, `disturbed` and `raced` the exceptions of the properties.

### Roles, Membership

`Roles` has the tables of `org/roles.py`; `Membership` one organization, its
members, and the invitations to it. A handler reads rows, checks, and saves
whole rows in a later step; handlers run in parallel.

| Model | Code |
| --- | --- |
| `CreateOrg` | `APIOrgViewSet.perform_create`: the organization, then `register_user` |
| `Edit`, `Update` | `OrgMembershipEditView` with the checks of `OrgMembershipForm` (`Choices`, `Clean`) |
| `Register`, `Insert` | `APIOrgViewSet.register` |
| `JoinRead`, `JoinWrite` | `Org.register_user`, in the transaction of whoever calls it; `Refused` is when a unique key undoes it |
| `ConfirmEmail` | `process_domain_on_email_confirmed`, with the role that the domain gives (`DomainRoles`) |
| `Send`, `Resend`/`Resent`, `DeleteInvite` | the invitation API and forms |
| `Accept`/`Accepted`, `SignUp` | `InvitationAcceptView`; `check_for_new_user_invitations` with the invitation kept in the session of the browser |
| `SwitchAccount`, `Fail` | staff disable an account; a handler stops half-way |

### Ownership

Who owns one device, the projects it may be claimed in, and the readings and
generated reports made meanwhile. A job is one request and the task it sends.

| Model | Code |
| --- | --- |
| `Ask` (`Allowed`, `Saves`, `First`) | the handlers: `physicaldevice/api_views.py`, `staff/views.py`, `project/api_views.py`, `project/views.py`; `Allowed` is what each checks first |
| `Save`, `CreateStreams` | `device_claim`, `device_semiclaim`, `perform_update` (also with no project), and a report that saves the row it read |
| `SavePage` | `super().form_valid(form)` at the end of the staff pages, which saves the row once more |
| `Start`, `ClearStreams`, `DropReports`, `Release`, `EraseData` | `DeviceUnClaimAction` and `device_unclaim`; the reset task shares the first steps |
| `Insert`, `Give`, `Destroy` | a project is created (`Project.save` takes the next gid), given, deleted by the API |
| `Find`, `Strip`, `RemoveProject` | `ProjectDeleteAction` |
| `Ack`, `Retry` | the end of a task, or a new attempt from the start |

`DeviceTasks` has the busy state, the archives and where readings move inside one
organization; `Ownership` has what changes hands. Both model the reset, each
with the part of it that its properties need.

### Ota

The version readings in the reports of a device, the worker that handles them,
and the people, phones and gateways who work on the deployment meanwhile.

| Model | Code |
| --- | --- |
| `Begin` | the attempt reads the `Device` row (`_get_device_and_streamer`) |
| `Look`, `Insert`, `Update`, `Pick`, `Confirm`, `Assume`, `Create` | `DeploymentActionStreamerHelper.complete_action` (`ota/utils/streamer.py`), one action per query that others can come between |
| `Drop` | an unknown tag: `WorkerInternalError`, and the report is gone |
| `Finish`, `Fail`, `Refused`, `Redeliver` | the end of `process()`, an error, a row that cannot be saved, the visibility timeout |
| `AddRequest`, `DeleteRequest`, `Post`, `DeleteAction` | the deployment API |
| `OpenRequest`/`SaveRequest`, `OpenAction`/`SaveAction`, `OpenDevice`/`SavePatch` | forms and API calls that read a row and save it whole |
| `Decode`, `Serves` | the version in a 32-bit reading; the template or sensor graph for it |
| `RowType`, `Compares`, `Selects`, `Affected` | `DeviceSelectionRule.q` and `_filter_by_criteria` (`ota/utils/selection.py`) |

`behind` and `lost` record which columns a whole-row save put back; `cut`,
`late` and `settled` are history variables as well.

## 3. What the runs check

| Run | Question | Properties |
| --- | --- | --- |
| `sqs_safety` | Can crashes, redeliveries and error branches lose a task, and does one kill message per worker put the whole fleet to sleep? | `TypeOK`, `NoTaskLost`, `KillsStopDistinctWorkers`, `ImplementsTaskQueue` (refinement of `TaskQueue`) |
| `sqs_fleet` | Is every task attempted, while others stop the workers with errors and kill messages? | `EveryTaskAttempted` |
| `reports_safety` | What do the throttle and `last_id` protect, and how can that fail? | `TypeOK`, `ThrottleExcludes`, `DuplicateHasCause`, `FollowUpOnce`, `DataBeforeRecord`, `ReportNotForgotten`, `MissingOnlyIfOvertaken`, `LastIdGrows`, `RangeKept`, `ImplementsReportLog` (refinement of `ReportLog`) |
| `reports_live` | Can a report wait for ever? | `EveryReportSettled` |
| `reports_parallel` | Is a streamer never processed in parallel? *It can be* | `NeverInParallel` |
| `device_safety` | What do busy, archives and stream ids keep through retries, overlaps and uploads? | `TypeOK`, `BusyWhileWorking`, `WorkTaken`, `ReadingsReachable`, `MoveSticks`, `ArchivedStays` |
| `device_live` | Does a busy device become free? | `EventuallyFree` |
| `filter_safety` | Do the stored state, the actions that ran and the definition that is used belong together while filters are edited and workers overlap? | `TypeOK`, `EnteredIsStored`, `NotifiedOnce`, `OnlyWholeDefinitions` |
| `filter_priority` | Does a stream's own filter go before that of its project? *Not when that is in the cache* | `OwnFilterFirst` |
| `membership` | Who can lose the last owner, use an invitation twice, bring back a disabled member, or get rights the role does not show? | `TypeOK`, `OwnerRemains`, `InvitationUsedOnce`, `DisabledStaysOut`, `PermissionsFollowRole` |
| `ownership` | Do the device row, the projects and the readings stay with one organization? | `TypeOK`, `RowsAgree`, `NoForeignReadings`, `UnclaimLeavesNothing` |
| `ota` | Does the device row follow what the device reported, is an attempt confirmed once, and do rules select what they say? | `TypeOK`, `DeviceFollowsVersion`, `ConfirmedOnce`, `RulesCompareVersions` |

The properties name the exceptions under which the code gives up a guarantee, as
history variables that are set at the very step that causes it. They are the
result of checking: without each of them TLC finds a violation, with them none.

Two runs end in a violation: a disagreement between the code and what a comment
or docstring of the repository says. `PROJECT.json` quotes the line under
"findings".

* **Two workers process one streamer** (`worker_throtle.py:27`): the key is
  read and set in two operations.
* **A stream's own filter is ignored** (`streamfilter/cache_utils.py:51`): once
  another stream has put the project's filter into the cache it is used for all
  streams of that variable, own filter or not.

More of them are stated in the modules without a run (section 7).

### Bounds, and why they are enough

* *Two workers, an ordinary task and a kill message for each worker, one crash*
  (`sqs_safety`; 3,066,564 states). Attempts at one task overlap with two
  workers; messages do not interact except through a worker; the counting
  argument needs as many kill messages as workers. The ordinary task ends in
  every way there is, so it also stops workers, by internal and database errors.
  Timeouts are unbounded.
* *Two workers, an ordinary task and a kill message, one crash* (`sqs_fleet`;
  487,854 states). One message can keep both workers busy, asleep or restarting
  while the other one waits.
* *Two workers, two reports of a user streamer with ids 1..3 and 3..4, one error
  or crash, one redelivery, give-up after two attempts* (`reports_safety`;
  1,246,758 states). Id 2 is a reboot, id 3 is in both reports and completes an
  event, id 4 is of a disabled stream, so the second report can have something
  new, nothing new, or nothing enabled. The code gives up after 200 attempts; two
  lets both sides of the limit happen. `reports_live` has the same workers and
  reports and no redelivery during an attempt; the message of a failed or killed
  attempt does come back (128,876 states).
* *Two requests, two projects, two readings of which one is archived, two block
  ids, one fault* (`device_safety`; about 2.6 million states). Every pair of requests
  occurs, with all their options, and the report of the new reading may save the
  row it read at any moment; one fault is enough to repeat a task after each of
  its statements. `device_live` has one reading, for the report (928,192
  states). Both look at states through a view, which leaves out what no guard and
  no property of the run reads any more (the rows that a finished request or a
  task in the queue had read, the options of a finished one, histories): states
  that differ in those alone have the same behaviours. `complete`, which no guard
  reads, is left out too.
* *Two workers, one stream and the filter of its project, one edit of any kind,
  one failure; an event, or a reading above and one below the threshold*
  (`filter_safety`; 1,744,604 states). One edit has up to four statements, and
  two workers overlap with it and with each other. `filter_priority` needs two
  streams, one worker and no edit.
* *Three people, one of them with an address in the verified domain, one
  invitation, two handlers, four requests, one handler that stops half-way*
  (`membership`; 832,808 states). Two requests set the stage, two overlap. The
  edits ask for the roles of owner and administrator; invitations carry any role;
  the domain gives that of owner or of a member.
* *Three requests out of sixteen kinds, three projects of two organizations,
  three gids, one failed attempt* (`ownership`; 3,440,428 states). Two projects
  exist at first, and the third takes the gid of the last one if that was
  deleted.
* *Two reports of two streamers with up to four version readings, two workers,
  one form, one deployment request and two attempts, two requests of users, one
  failure or redelivery* (`ota`; 1,275,464 states). Either one report has
  two OS updates and the other a device without tags, an unknown tag and timestamps
  in the wrong order, or one streamer tells of the OS and the other of the
  application; the rules to look at are every operator with version 2.1, which the devices
  meet from both sides in either number, and three rules that match nothing or
  go by the tag.

Workers, jobs and handlers that are interchangeable are permuted in the safety
runs. Deadlock is checked in the filter runs only, where readings always arrive;
elsewhere the system rests when all tasks and requests are done and all faults
used up, as it should. That it does not rest too early is what the liveness
properties say.

### Fairness

* `SqsWorker.Fairness`: a worker that has a message goes on (weak); supervisord
  restarts a process that ended (weak; `autorestart=true`); visibility timeouts
  run out (weak; SQS); a message that is visible again and again is received by
  some worker (strong: idle workers poll without end, and SQS does not starve a
  message). Crashes have none, and are bounded.
* `ReportProcessing.Fairness`: workers step (weak), reports in the queue are
  received (strong, as above), the key expires (weak; it is set with a timeout).
  Timeouts and uploads have none.
* `DeviceTasks.Fairness`: a handler goes on to send its task and a task that is
  queued or runs makes a step (weak), which is what `sqs_fleet` shows of the
  service below. No request has to be made.

The request handlers of the other modules promise nothing about progress: a
request that fails is not repeated, so they have no fairness and no liveness
property.

## 4. What is proved

TLAPS checks the theorems for every value of the constants: any number of
workers, tasks, reports, jobs, people, projects, streams and readings, and any
bounds. Every invariant and every action property of every passing run is stated
by one of them, and both refinements; TLC checks the same formulas on the small
instances above. Each proof that a step preserves an invariant has one step per
action of `Next`.

### Assumptions

The theorems rest on the assumptions that the modules state by name and TLC
evaluates in each run, and on nothing else:

* All of them: markers such as `NoTask`, `None` or `NoRow` are no members of the
  sets they are added to, and bounds are natural numbers.
* `SqsAssumption`: kill messages are tasks.
* `ReportAssumption`: a report is an interval `Lo[r] <= Hi[r]` of positive ids; the
  streamer is a system streamer or not.
* `DeviceAssumption`: the device begins in one of the projects; the readings
  archived at the start are readings.
* `FilterAssumption`: states are numbers, a request asks for triggers out of a
  finite set, and the filters at the start are definitions.
* `MembershipAssumption`, `NoRowAssumption`: staff, the members of the domain and
  the accounts at the start are people; requests ask for roles, and domains give
  them.
* `OtaAssumption`: uploads are sequences of version readings; a form is not a
  worker.
* `OwnershipAssumption`: a request has the project and the organization that its
  operation takes (the URL or the serializer asks for them); staff have pages for
  claim, semi-claim, unclaim and delete only; a project in the table has an
  organization, as it is not one of the templates. The last is what tells a
  project that was deleted from one that never existed (`Fresh`).

### SqsWorkerProofs

`TypeCorrect`, `TaskSafety` (`NoTaskLost`), `KillsDistinct`
(`KillsStopDistinctWorkers`) and `WorkersImplementTaskQueue`.

`NoTaskLost` is not inductive: the worker that is about to delete must hold a
settled task. `JobInv` says what a worker at each control point holds (a task,
and once it has ended with a final outcome, a settled one). The refinement
follows step by step: `SendMessage` is `Submit`, `ExecuteAction` is `Attempt`,
`Delete` is `Drop` when SQS removes the message, and everything else leaves the
mapped variables alone.

For the kill messages, `KillInv` counts: as long as no process has ended, the
kill messages that are deleted are no more than the workers asleep, and both sets
are finite, whether or not there are finitely many workers. A step that deletes
one (`Delete`) puts its worker to sleep in the same step; nothing but the end of
a process wakes one up.

### ReportProcessingProofs

`Exclusion`, `StoredOnce`, `FollowedOnce`, `RecordedIsStored`, `LastIdMonotone`
and `TypeCorrect`, from one inductive invariant with these parts: as long as
nothing raced and nobody gave up, there is one worker inside and the key exists
(`KeyInv`); therefore `last_id` is still what that worker read (`SnapInv`);
therefore what it is about to store, follow up and record is new (`StoredInv`,
`FollowInv`). `DataInv` holds without any such condition: what a row in the table
*or in a worker's hands* claims is stored, since rows are saved as they were
read. A range says nothing of disabled readings and, on a user streamer, of
reboots (`NotKept`): the code moves the range and `last_id` over both without
storing them, which is meant (the docstring of `_post_read_stream_data`), and
`RecordedIsStored` is about all others.

`ReportsImplementLog` shows the refinement of `ReportLog` from the same
invariant: while nothing raced, a worker inside sees the mark of the log
(`FreshEntries`), so `CommitData` is `Add`, `RecordReport` is `Advance` or
nothing, and `FollowUp` is `Serve` (`CommitIsAdd`, `RecordIsAdvance`,
`FollowIsServe`); the step that races or gives up is `Overlap`, and after it rows
still only come in (`TableGrows`).

`NotForgotten` (`ReportNotForgotten`) has an argument by counting. A throttled
attempt sends the report again *and then* deletes a message, which may by now be
the one it sent. `CountInv`: of an uploaded report that is not settled, the
messages in the queue and those that attempts hold are more than the
messages that throttled attempts have still to delete. `VerdictInv` supplies
what an attempt that ends owes.

`OnlyOvertaken` (`MissingOnlyIfOvertaken`) rests on `SkipInv`: every enabled
reading up to `last_id`, or up to any value of it that a worker has read, is
stored or begins before a report that `last_id` has been past. The proof
showed that the property has to speak of the highest `last_id` there ever was
(`peak`): after a race `last_id` can go back, and with three reports a reading
is missing then although `last_id` is below the report that overtook it, a
case that two reports are too few for. `RangesKept` (`RangeKept`) rests on
`SharedInv`: a worker whose copy of the row lacks a range that the table has was
not alone with the report, so an attempt that follows another one, after an error,
a crash or a redelivery, has read what that one recorded.

### DeviceTasksProofs

`StaysBusy` (`BusyWhileWorking`), `ProjectSticks` (`MoveSticks`),
`ArchivesKept` (`ArchivedStays`), `TakenCompletely` (`WorkTaken`),
`AlwaysReachable` (`ReadingsReachable`) and `TypeCorrect`.

A job that is alone on the device knows it (`Alone`: jobs that are open together
are in `met`). As long as no edit and no report changes the row under it, the row
it holds still has the project of the table (`RowHeld`) and, in every attempt,
the state `B0` (`BusyHeld`). The two conditions are apart: a change of the state
leaves the project alone and the other way round. `ProjectSticks` rests on
`RowKnown`, which is about everybody and needs no exception: whoever is not in `old`
holds the project of the table. `ArchivesKept` needs none of that: it is a
property of each statement on slugs, and `OpOfPoint` and `BlockOfPoint` say which
statement can be next.

`TakenInv` follows the readings that an archive or a reset is to take: they stay
stored where it looks for them until it has taken them, and after that they are
not on the device, in each attempt anew. It needs `RowInv`, that nothing but a
delete task for its slug removes the row of the archive or the stream it was
given. `ReachInv` says the same of all readings and of the device's streams
while no jobs overlap, in four parts: the project of the row has a stream or a
move is about to make it (`DevReach`), the source of a move has its stream still
(`SrcReach`), and readings are under a stream, between the statements of a move
(`ShiftReach`) and else (`ItemReach`). The first two stop once an edit or a report
has `strayed` the project; the last two hold on, but for the uploads that begin after
that, which is why `ReadingsReachable` excuses those readings only.

### StreamFilterProofs

`EnteredStored` (`EnteredIsStored`), `WholeOnly` (`OnlyWholeDefinitions`),
`ToldOnce` (`NotifiedOnce`) and `TypeCorrect`.

The invariant tells three stories. What a worker has read at each place
(`JobsInv`). The editor: the statements that are left fit the filter as it is
(`PlanInv`), a filter that nobody is editing is whole and so is what the cache
has of it (`WholeInv`), and a lookup that no edit overlapped holds a whole
definition (`ReadInv`). The transitions: on a stream that is not `disturbed` one
worker acts at a time, and the stored state differs from the entered one only
while that worker is about to store it (`TransInv`). The type of the
definitions needs lemmas of its own: what each statement of an edit makes of one,
and which statements a request has (its triggers come in the order that
`SetToSeq` chooses, which the proof does not look at).

### MembershipProofs

`OwnerAlways` (`OwnerRemains`), `OneJoin` (`InvitationUsedOnce`), `RoleShown`
(`PermissionsFollowRole`), `OnlyEditsEnable` (`DisabledStaysOut`) and
`TypeCorrect`.

Whole-row saves make the rows in the hands of the handlers part of each
invariant. `JobInv` and `RowInv` say what they are; `SnapInv` that one read by
`register_user` is the row in the table unless somebody crossed it; `InviteInv`
that an invitation is either unused or accepted in the table *and in every copy*
(`Spent`), unless it is `torn`; `OwnerInv` that an edit about to be saved leaves
an owner, as long as no other save came between its check and it. `PhaseInv`
covers the time between the row of the organization and that of its first owner.

### OwnershipProofs

`AlwaysAgree` (`RowsAgree`), `NothingForeign` (`NoForeignReadings`),
`LeavesNothing` (`UnclaimLeavesNothing`) and `TypeCorrect`.

A project gets its gid and organization in one step and only `given` ones change
it (`OrgInv`, `CreateInv`, `GiveInv`); so every row of the device in the table or
in somebody's hands agrees with its project (`RowsInv`). `MetInv` says that a job
knows who was open together with it; from it, a reading whose upload nobody
overlapped belongs to a stream of a project of its owner for as long as it is
stored (`UploadInv`, `KeptInv`), and an unclaim has done its part for good at
each of its steps (`LeaveInv`). A gid that is used again after its project was
deleted is covered: a stored reading has its stream in a project that still
exists. That two projects never have one gid *at once* cannot be proved, as it is
false when they are created together; that is the exception of
`NoForeignReadings`, and so the proof needs nothing of how the next gid is found.

### OtaProofs

`SettledOnce` (`ConfirmedOnce`), `DeviceFollows` (`DeviceFollowsVersion`),
`RulesAreVersions` (`RulesCompareVersions`) and `TypeCorrect`.

`FreshInv` and `RestInv` say which columns of a row in somebody's hands are as in
the database: all but those in `behind`. The versions recorded are those that
the reports carry (`ToldInv`); the key of the table therefore keeps two
attempts from handling one reading, and `OnceInv` says that of all who are past
it. `FollowInv`: the last version of a part is in the row, or a worker is about
to put it there, or was `cut` off before; and everybody who is about to put
another there holds a row that is behind. The proof corrected `cut`: it has to
name the very readings whose update was cut off after their version was recorded,
not the part. `RulesAreVersions` needs no history: it is a property of `Selects`, for
every rule and device, from `Decode` being a pair of numbers.

## 5. What is only model-checked

The liveness properties (`EveryTaskAttempted`, `EveryReportSettled`,
`EventuallyFree`): they rest on fairness, thus on ENABLED, which is out of the
prover's reach. TLC checks them in `sqs_fleet`, `reports_live` and `device_live`.
The two runs that end in a violation are counterexamples, not claims.

## 6. What is not modelled, and plan

Left out for good: formatting, templates, the web application, queries, one-row
edits, external services other than as the code sees them. The models also leave
out what a reading *is* (values, timestamps), except for filters and
versions, the properties, notes and locations that follow a device's readings
into a block, and time. `ReportProcessing` and `DeviceTasks` have no
permissions; `Membership` has them, of one organization. `Streamer` rows are
changed by reports only.

Parts of modelled components that are left out:

* `sqsworker`: the counters per worker (`WorkerUUID`), statistics, the log.
* `streamer/worker`: the V1 and JSON engines, the timestamps that reboots correct,
  the chopped-report fix-up, reprocessing, `DeviceStatus`; and the firehose, to
  which a setting sends the readings in place of the table
  (`base_action.py:291-292`): nothing can be said of what is stored there.
* `physicaldevice`: trim, upgrade, `DeviceStatus`.
* `ota`: version rows written by staff through the API, the note of an update,
  scripts, fleets. A version row that staff write is not followed by the device
  row, so it would be one more exception of `DeviceFollowsVersion`.
* `org`: API keys, search, messages. `project`: cloning from a template.
* `report`: everything but the rows. The worker that generates them runs outside
  this repository.

Hazards seen and not listed in `PROJECT.json`, which keeps those of the modelled
steps: a worker leaves the shutdown after 90 minutes
(`sqsworker/workerhelper.py:138`); an error after `last_id` was saved, so that the
retry finds nothing new and the follow-up never runs
(`v2_bin/process_report.py:405`); `DeviceStatus.last_known_id` from a row read
before the transaction (`process_report.py:340`); the upload that saves the whole
`Streamer` row after an engine change (`streamer/tasks.py:164`).

Done of the first plan: the filters, the deployments, claims and unclaims,
invitations, the abstract log of reports. Next, most important first:

1. Abstract specifications: a device with exclusive operations that `DeviceTasks`
   implements when jobs do not overlap; a state machine without a cache that
   `StreamFilter` implements; each with its refinement proved like the two of
   `SqsWorker` and `ReportProcessing`.
2. `ReportFixups`: the timestamps of cut-off, delayed and rebooted reports, with
   `ReportProcessing`; more than one streamer and `DeviceStatus`.
3. Pure functions checked against a reference definition: `StreamAlias` taps,
   the data mask, lookup of configuration attributes.
4. Trim and the life cycle of a generated report.

A component keeps one run for safety and, where something is promised to
happen, one for liveness, so that the whole set stays small enough to be run on
every change.

## 7. Disagreements and observations

### Stated in the modules, refuted by TLC, without a run

These definitions state what a comment, docstring or form of the repository
says. To see the counterexample, put the definition into the `INVARIANTS` or
`PROPERTIES` of the component's safety configuration, in place of the others.

* `SqsWorker.PidTracksScheduled` (`sqsworker/action.py:83`): a finished task shows
  as pending; the entry is written after the message is sent, and a fast worker
  clears it first.
* `ReportProcessing.WaitingNeverDrops` (`worker_throtle.py:40`): a waiting report
  is dropped; the owner removes the key between the other's read and its
  increment, the increment raises, and the error is one that deletes the message.
* `DeviceTasks.BusyWhenScheduled` (`physicaldevice/tasks.py:67`): a scheduled reset
  waits on a free device; the web forms do not look at the state, and the first
  task to end frees it.
* `DeviceTasks.MoveTakesData` (`device_move.py:153`): a retried move leaves the
  data behind; the new project is saved first and is the source of the next
  attempt.
* `DeviceTasks.DeletesOwnBlock` (`datablock_delete.py:122`): a retried delete takes
  a newer archive; the mail fails after the deletion, the id is used again, the
  task starts over.
* `Membership.OrgHasOwner` (`org/forms.py:124`, "organization must have an
  owner"): an owner who accepts an invitation to a lesser role, or confirms an
  address of the domain, is downgraded without the check of the form.
* `Ownership.ErasesPreviousReadings` (`physicaldevice/api_views.py:288`): an
  unclaim erases its readings last, after the device is free; readings of the
  next claim go with them (`claim_utils.py:131`).
* `Ota.RulesAreAnded` (`ota/models.py:149`, `ota/api_views.py:146`): an OS term and
  an application term are looked for in one version row, which is of one type;
  and an application term alone matches nothing, as the type it asks for is not
  the one rows have (`selection.py:50-59`).
* `Ota.RecordsUpdated` (`process_report.py:275`, "update all required records"):
  an attempt that ends right after it recorded the version leaves the device row
  as it was; the retry takes the version for no change.

### Seen while modelling

Tasks and reports:

* `src/docs/aws-infrastructure.md:50` says a worker that got a kill message
  "enters an infinite loop"; `sqsworker/workerhelper.py:126-138` leaves it after
  90 minutes, and supervisord starts the worker again (`AbortShutdown`).
* Whoever saves the Device row undoes what others saved since he read it: a report
  that began before a request marked the device makes it free again while the task
  runs, one that began before the last save of the task makes it busy again for
  good, and one that began before a move puts the old project back
  (`ota/utils/streamer.py:158`; `SaveUpload`). A PATCH does so on purpose:
  `DeviceUserSerializer` leaves `state` and `project` writable, and
  `perform_update` looks neither at busy nor for the streams of the new project,
  so that later readings have none (`physicaldevice/api_views.py:175-196`;
  `SaveEdit`). The properties of `DeviceTasks` name these cases.
* `streamer/tasks.py` stores the row and the file of a report before it sends the
  task: an upload that dies in between leaves a report that waits for nobody
  (`Schedule`).
* `utils/aws/sqs.py:111` sets the visibility timeout to 123 seconds whatever its
  caller asked for.
* `streamer/models.py:46` says `last_id` is the largest id committed;
  `RecordReport` sets it to the end of the report, which may be of a disabled
  stream and not stored.
* `datablock/models.py:80`: `original_device_slug` discards the result of
  `replace` and returns the block's slug.
* `archive_device_data.py:217`: the `save()` at the end of an archive inserts a
  block again that was deleted while the task ran (`Complete`).
* `streamdata/helpers.py:184` uses a name, `event`, that is not defined.
* The upload of events runs the filters before it checks write access and before
  it saves (`streamevent` API views).

Filters:

* The signal handlers of the models delete a cache key without the prefix
  `filter:`, so that edits never clear an entry; only a reset does.
* A lookup that reads the states of a filter before an edit and its transitions
  after it caches a transition to an unknown state; the assertion at
  `streamfilter/process.py:92` then fails for as long as the entry lives.
* `StreamFilterTrigger.evaluate` passes a dictionary to `evaluate_trigger`, which
  reads attributes.

Organizations:

* `org/roles.py:32` says members can claim devices; role `m1` has
  `can_claim_devices` false.
* `APIOrgViewSet.invite` sets `sent_on` and `sent_by` of an invitation that is
  sent again and does not save them (`org/api_views.py:345-347`).
* Nothing that accepts an invitation looks at its expiry.
* `register_user` leaves `is_org_admin` of an existing row as it was
  (`Registered`).

Ownership and projects:

* The semi-claim page does not return after "already claimed"
  (`staff/views.py:651-659`); the unclaim page saves the row again after it sent
  the task.
* The delete task of a project that is retried after a mail failure acts on a new
  project with the same slug; two projects that are created at once get the same
  gid, and every delete of one of them then ends in `MultipleObjectsReturned`,
  which deletes the message.
* A reset whose task finds the device unclaimed ends in a hard error and leaves
  the device busy.

Generated reports (not modelled):

* `report_generator._process_datablock_source` catches `Device.DoesNotExist` where
  a `DataBlock` is looked up; `_reschedule` does not send again for summary
  reports; a schedule creates the row before it publishes.

Deployments:

* An unknown tag drops the whole report after the version was recorded
  (`ota/utils/streamer.py:125`).
* An error at the insert of the version is logged and the attempt goes on
  (`ota/utils/streamer.py:96`): the readings are stored, so no later attempt
  records the version, and the device row keeps the one before.
* A staff form or an API call that saves an action or a request as it was read
  resets `device_confirmation`, or inserts a row again that was deleted
  (`Confirm`, `SaveAction`, `SaveRequest`).
* PUT and PATCH of a deployment request through the API do not ask for
  `can_manage_ota`, which its forms do.

--------------------------------- MODULE Ota ---------------------------------
(***************************************************************************)
(* Deployments and the versions a device reports (apps/ota).               *)
(*                                                                         *)
(* A report may carry readings that say which OS or application the device *)
(* has.  The worker that processes the report records the version, changes *)
(* the Device row, and confirms the attempt of a phone or gateway that was *)
(* waiting for it, or assumes one (DeploymentActionStreamerHelper), all    *)
(* before it stores the readings: an attempt that fails is executed again  *)
(* from the start.  Reports of two streamers of the device are processed   *)
(* in parallel, while people edit the device, the deployment requests and  *)
(* the actions.  Whole rows are saved, as they were read.                  *)
(***************************************************************************)
EXTENDS Integers, Sequences

CONSTANTS
    Report,     \* reports, each of a streamer of its own
    Uploads,    \* what the reports may carry: a set of functions on Report
    Worker,     \* workers of the streamer queue
    Form,       \* handlers of requests that read a row and save it
    Request,    \* ids of deployment requests
    FirstRequest, \* the rows that a request may have at first
    Action,     \* ids of deployment actions
    Catalogue,  \* the versions that have a template (os) or sensor graph (app)
    Rules,      \* selection rules to look at
    None, NoRow, Deleted,
    MaxAsk,     \* bound on the requests of users
    MaxFault    \* bound on failed attempts and redelivered messages

Part == {"os", "app"}
RequestRow == [covers : BOOLEAN, released : BOOLEAN, completed : BOOLEAN]
Tags == 1048576
Version == [tag : 0..(Tags - 1), major : 0..63, minor : 0..63]

\* A reading of a version: its stream, its value, its time.
Datum == [type : Part, value : Nat, at : Nat]
Op == {"eq", "lt", "lte", "gt", "gte", "tag"}
Rule == [part : Part \cup {"hw"}, op : Op, tag : Int, major : Int, minor : Int]

ASSUME OtaAssumption ==
    /\ Uploads \subseteq [Report -> Seq(Datum)]
    /\ Rules \subseteq Rule
    /\ FirstRequest \subseteq RequestRow \cup {NoRow}
    /\ Catalogue \in [Part -> SUBSET Version]
    /\ None \notin Version /\ NoRow \notin Report
    /\ {NoRow, Deleted} \cap (Request \cup RequestRow) = {}
    /\ Worker \cap Form = {}
    /\ MaxAsk \in Nat /\ MaxFault \in Nat

VARIABLES
    content,    \* content[r]: the version readings of report r, in order
    queue,      \* reports whose task can be received
    status,     \* status[r]: "sent", "stored" or "dropped"
    versions,   \* the DeviceVersionAttribute rows of the device
    device,     \* the Device row: template, sensor graph, and the rest of it
    request,    \* the DeploymentRequest rows
    action,     \* the DeploymentAction rows
    worker,     \* worker[w]: the attempt that w executes
    form,       \* form[f]: the row that a handler has read and will save
    asks, faults,
    behind,     \* history: behind[h], the columns saved by others since h read
    lost,       \* history: columns overwritten with an older value
    cut,        \* history: readings whose update was cut off after the version row
    late,       \* history: parts with a version as old as an earlier one
    patched,    \* history: an edit of the rest of the row was saved
    settled     \* history: settled[x], the actions that reading x settled

rows == <<versions, device, request, action>>
bounds == <<asks, faults>>
excuses == <<behind, lost, cut, late, patched>>
vars == <<content, queue, status, rows, worker, form, bounds, excuses, settled>>

Column == Part \cup {"rest"}
DeviceRow == [os : Version \cup {None}, app : Version \cup {None}, rest : BOOLEAN]
ActionRow == [of : Request, success : BOOLEAN, confirmed : BOOLEAN]
Factory == [os |-> None, app |-> None, rest |-> FALSE]

\* What a worker and a handler of a request remember.
Job == [at : {"idle", "read", "insert", "update", "pick", "confirm", "assume", "create"},
        report : Report \cup {NoRow}, next : Nat \ {0}, copy : DeviceRow,
        on : Action \cup Request \cup {NoRow}, held : ActionRow \cup {NoRow}]
RequestForm == {"release", "withdraw", "complete", "edit"}
Sheet == [at : RequestForm \cup {"closed", "attempt", "device"},
          on : Action \cup Request \cup {NoRow},
          row : RequestRow \cup ActionRow \cup DeviceRow \cup {NoRow}]
Idle == [at |-> "idle", report |-> NoRow, next |-> 1, copy |-> Factory,
         on |-> NoRow, held |-> NoRow]
Closed == [at |-> "closed", on |-> NoRow, row |-> NoRow]
Holder == Worker \cup Form
\* The readings: a report and a position in it.
Ids == Report \X UNION {DOMAIN u[r] : r \in Report, u \in Uploads}
Stands(row) == row \notin {NoRow, Deleted}

Init ==
    /\ content \in Uploads
    /\ queue = Report
    /\ status = [r \in Report |-> "sent"]
    /\ versions = {}
    /\ device = Factory
    /\ request \in [Request -> FirstRequest]
    /\ action = [k \in Action |-> NoRow]
    /\ worker = [w \in Worker |-> Idle]
    /\ form = [f \in Form |-> Closed]
    /\ asks = 0 /\ faults = 0
    /\ behind = [h \in Holder |-> {}]
    /\ lost = {} /\ cut = {} /\ late = {} /\ patched = FALSE
    /\ settled = [x \in Ids |-> 0]
-----------------------------------------------------------------------------
(* Versions. *)

\* A reading has a tag in 20 bits, then the minor and the major version in 6
\* (Tags is 2^20); a mutant takes a bit too many for the minor one.
DecodeWide(value) ==
    [tag |-> value % Tags, minor |-> (value \div Tags) % 128,
     major |-> (value \div (Tags * 64)) % 64]
Decode(value) ==
    [tag |-> value % Tags, minor |-> (value \div Tags) % 64,
     major |-> (value \div (Tags * 64)) % 64]

\* What devices send that were made before there were tags.
Untagged(t) == [tag |-> IF t = "os" THEN 1024 ELSE 0, major |-> 0, minor |-> 0]

\* The template or sensor graph for version v: the exact one, or one of the same
\* tag (the code takes the last of them by a version number of its own).
Serves(t, v) ==
    LET same == {c \in Catalogue[t] : c.tag = v.tag}
    IN  IF v \in same THEN v
        ELSE IF same = {} THEN None ELSE CHOOSE c \in same : TRUE

\* The rows of part t that may be the last by their timestamps, which tie.
Rows(t) == {v \in versions : v.type = t}
Newest(t) == {v \in Rows(t) : \A u \in Rows(t) : u.at <= v.at}

\* The reading that worker w has reached, its number, and its version.
Left(w) == worker[w].next <= Len(content[worker[w].report])
Reading(w) == content[worker[w].report][worker[w].next]
Id(w) == <<worker[w].report, worker[w].next>>
Told(w) == Decode(Reading(w).value)
-----------------------------------------------------------------------------
(* Saving the Device row. *)

\* The copy that holder h saves, with the column c that it changes.  Others that
\* have read the row are now behind, with all that h changes, meant or not.
SaveDevice(h, row, c) ==
    /\ device' = row
    /\ behind' = [g \in Holder |-> IF g = h THEN {}
                                   ELSE behind[g] \cup {c} \cup behind[h]]
    /\ lost' = (lost \ {c}) \cup behind[h]

\* Holder h reads the row.
ReadDevice(h) == behind' = [behind EXCEPT ![h] = {}]
-----------------------------------------------------------------------------
(* The worker.  An attempt reads the Device row once, when it begins. *)

Become(w, j) == worker' = [worker EXCEPT ![w] = j]
Goto(w, l) == Become(w, [worker[w] EXCEPT !.at = l])
Skip(w) == Become(w, [worker[w] EXCEPT !.at = "read", !.next = @ + 1,
                                       !.on = NoRow, !.held = NoRow])

Begin(w, r) ==
    /\ worker[w].at = "idle" /\ r \in queue
    /\ queue' = queue \ {r}
    /\ Become(w, [Idle EXCEPT !.at = "read", !.report = r, !.copy = device])
    /\ ReadDevice(w)
    /\ UNCHANGED <<content, status, rows, form, bounds, lost, cut, late, patched, settled>>

\* complete_action reads the last version of this type: no change, no action.
Ignore(w, last) ==
    \/ Told(w) = Untagged(Reading(w).type)
    \/ last # NoRow /\ last.what = Told(w)
Look(w) ==
    /\ worker[w].at = "read" /\ Left(w)
    /\ LET t == Reading(w).type IN
       \E last \in IF Rows(t) = {} THEN {NoRow} ELSE Newest(t) :
         IF Ignore(w, last) THEN Skip(w) ELSE Goto(w, "insert")
    /\ UNCHANGED <<content, queue, status, rows, form, bounds, excuses, settled>>

\* The row that is inserted, unless the table has one with the same key; a
\* mutant has a table without the key.
Key(v) == <<v.type, v.what, v.id>>
InsertedAlways(v) == TRUE
Inserted(v) == \A u \in versions : Key(u) # Key(v)
Insert(w) ==
    LET x == Reading(w)
        v == [type |-> x.type, what |-> Told(w), id |-> Id(w), at |-> x.at]
    IN  /\ worker[w].at = "insert"
        /\ \/ /\ Inserted(v)
              /\ versions' = versions \cup {v}
              /\ late' = IF \A u \in Rows(x.type) : u.at < x.at
                         THEN late \ {x.type} ELSE late \cup {x.type}
              /\ Goto(w, "update") /\ UNCHANGED faults
           \* The key or the database refuses: the error is logged, the attempt goes on.
           \/ /\ \/ ~Inserted(v) /\ UNCHANGED faults
                 \/ faults < MaxFault /\ faults' = faults + 1
              /\ Skip(w) /\ UNCHANGED <<versions, late>>
        /\ UNCHANGED <<content, queue, status, device, request, action, form, asks,
                       behind, lost, cut, patched, settled>>

\* The copy with its new template or sensor graph, and a mutant that takes the
\* one for the other.
WithSwapped(copy, t, c) == [copy EXCEPT ![IF t = "os" THEN "app" ELSE "os"] = c]
With(copy, t, c) == [copy EXCEPT ![t] = c]
Update(w) ==
    LET t == Reading(w).type
        c == Serves(t, Told(w))
        row == With(worker[w].copy, t, c)
    IN  /\ worker[w].at = "update" /\ c # None
        /\ SaveDevice(w, row, t)
        /\ Become(w, [worker[w] EXCEPT !.at = "pick", !.copy = row])
        /\ UNCHANGED <<content, queue, status, versions, request, action, form, bounds,
                       cut, late, patched, settled>>

\* Nothing is known of the tag: the error deletes the task, and the report with it.
Drop(w) ==
    LET r == worker[w].report
    IN  /\ worker[w].at = "update" /\ Serves(Reading(w).type, Told(w)) = None
        /\ status' = [status EXCEPT ![r] = "dropped"]
        /\ queue' = queue \ {r}
        /\ cut' = cut \cup {Id(w)}
        /\ Become(w, Idle)
        /\ UNCHANGED <<content, rows, form, bounds, behind, lost, late, patched, settled>>

\* The last successful attempt that waits for a confirmation (phones and
\* gateways set its time, so any of them may be the last).
Waiting == {k \in Action : Stands(action[k]) /\ action[k].success /\ ~action[k].confirmed}
Pick(w) ==
    /\ worker[w].at = "pick"
    /\ \/ \E k \in Waiting :
            Become(w, [worker[w] EXCEPT !.at = "confirm", !.on = k, !.held = action[k]])
       \/ Waiting = {} /\ Goto(w, "assume")
    /\ UNCHANGED <<content, queue, status, rows, form, bounds, excuses, settled>>

\* The deployments that a device may follow.
Deployments ==
    {d \in Request : /\ Stands(request[d])
                     /\ request[d].covers /\ request[d].released /\ ~request[d].completed}
Assume(w) ==
    /\ worker[w].at = "assume"
    /\ \/ \E d \in Deployments : Become(w, [worker[w] EXCEPT !.at = "create", !.on = d])
       \/ Deployments = {} /\ Skip(w)
    /\ UNCHANGED <<content, queue, status, rows, form, bounds, excuses, settled>>

Settle(w) == settled' = [settled EXCEPT ![Id(w)] = @ + 1]
Confirm(w) ==
    LET k == worker[w].on
        held == worker[w].held
    IN  /\ worker[w].at = "confirm"
        \* A row that was deleted is inserted again, with its request only.
        /\ Stands(request[held.of])
        /\ action' = [action EXCEPT ![k] = [held EXCEPT !.confirmed = TRUE]]
        /\ Settle(w)
        /\ Skip(w)
        /\ UNCHANGED <<content, queue, status, versions, device, request, form, bounds, excuses>>

\* An error that the code catches leaves the action out.
Create(w) ==
    LET d == worker[w].on
    IN  /\ worker[w].at = "create"
        /\ IF Stands(request[d])
           THEN \E k \in Action :
                  /\ action[k] = NoRow
                  /\ action' = [action EXCEPT ![k] =
                                 [of |-> d, success |-> TRUE, confirmed |-> TRUE]]
                  /\ Settle(w)
           ELSE UNCHANGED <<action, settled>>
        /\ Skip(w)
        /\ UNCHANGED <<content, queue, status, versions, device, request, form, bounds, excuses>>

\* The readings are stored and the task is deleted.
Finish(w) ==
    LET r == worker[w].report
    IN  /\ worker[w].at = "read" /\ ~Left(w)
        /\ status' = [status EXCEPT ![r] = "stored"]
        /\ queue' = queue \ {r}
        /\ Become(w, Idle)
        /\ UNCHANGED <<content, rows, form, bounds, excuses, settled>>

\* A database error or a crash: the task is received again.
Abandon(w) ==
    /\ queue' = queue \cup {worker[w].report}
    /\ cut' = IF worker[w].at = "update" THEN cut \cup {Id(w)} ELSE cut
    /\ Become(w, Idle)
    /\ UNCHANGED <<content, status, rows, form, asks, behind, lost, late, patched, settled>>
Fail(w) ==
    /\ worker[w].at # "idle"
    /\ faults < MaxFault /\ faults' = faults + 1
    /\ Abandon(w)
\* The request of a deleted action is gone, too: saving it is an error.
Refused(w) ==
    /\ worker[w].at = "confirm" /\ ~Stands(request[worker[w].held.of])
    /\ Abandon(w)
    /\ UNCHANGED faults

\* A task that takes too long is visible again, and a second worker gets past
\* the throttle (NeverInParallel of ReportProcessing).
Redeliver(r) ==
    /\ \E w \in Worker : worker[w].report = r
    /\ r \notin queue
    /\ faults < MaxFault /\ faults' = faults + 1
    /\ queue' = queue \cup {r}
    /\ UNCHANGED <<content, status, rows, worker, form, asks, excuses, settled>>
-----------------------------------------------------------------------------
(* The requests of users, phones and gateways. *)

Ask == asks < MaxAsk /\ asks' = asks + 1

AddRequest(d, covers) ==
    /\ request[d] = NoRow
    /\ Ask
    /\ request' = [request EXCEPT ![d] =
                    [covers |-> covers, released |-> FALSE, completed |-> FALSE]]
    /\ UNCHANGED <<content, queue, status, versions, device, action, worker, form,
                   faults, excuses, settled>>

\* The actions of a request are deleted with it.
DeleteRequest(d) ==
    /\ Stands(request[d])
    /\ Ask
    /\ request' = [request EXCEPT ![d] = Deleted]
    /\ action' = [k \in Action |-> IF Stands(action[k]) /\ action[k].of = d
                                   THEN Deleted ELSE action[k]]
    /\ UNCHANGED <<content, queue, status, versions, device, worker, form, faults,
                   excuses, settled>>

\* An agent tells of an attempt.
Post(k, d, success) ==
    /\ action[k] = NoRow /\ Stands(request[d])
    /\ Ask
    /\ action' = [action EXCEPT ![k] =
                   [of |-> d, success |-> success, confirmed |-> FALSE]]
    /\ UNCHANGED <<content, queue, status, versions, device, request, worker, form,
                   faults, excuses, settled>>

DeleteAction(k) ==
    /\ Stands(action[k])
    /\ Ask
    /\ action' = [action EXCEPT ![k] = Deleted]
    /\ UNCHANGED <<content, queue, status, versions, device, request, worker, form,
                   faults, excuses, settled>>

\* A handler reads the row that its form is about.
Open(f, what, on, row) ==
    /\ form[f].at = "closed"
    /\ Ask
    /\ form' = [form EXCEPT ![f] = [at |-> what, on |-> on, row |-> row]]
    /\ UNCHANGED <<content, queue, status, rows, worker, faults, lost, cut, late,
                   patched, settled>>
OpenRequest(f, what, d) ==
    Stands(request[d]) /\ Open(f, what, d, request[d]) /\ UNCHANGED behind
OpenAction(f, k) ==
    Stands(action[k]) /\ Open(f, "attempt", k, action[k]) /\ UNCHANGED behind
OpenDevice(f) == Open(f, "device", NoRow, device) /\ ReadDevice(f)

Close(f) == form' = [form EXCEPT ![f] = Closed]

\* What the forms change: the release date is set or cleared, a request is
\* completed, or its script, fleet or criteria are edited.
FormResult(what, row) ==
    CASE what = "release" -> [row EXCEPT !.released = TRUE]
      [] what = "withdraw" -> [row EXCEPT !.released = FALSE]
      [] what = "complete" -> [row EXCEPT !.completed = TRUE]
      [] what = "edit" -> row

\* Django inserts a row again that was deleted since it was read.
SaveRequest(f) ==
    /\ form[f].at \in RequestForm
    /\ request' = [request EXCEPT ![form[f].on] = FormResult(form[f].at, form[f].row)]
    /\ Close(f)
    /\ UNCHANGED <<content, queue, status, versions, device, action, worker, bounds,
                   excuses, settled>>

\* Staff edit an attempt; device_confirmation is read-only, and saved as read.
\* With its request deleted the row cannot come back, and saving is an error.
SaveAction(f) ==
    /\ form[f].at = "attempt"
    /\ \/ /\ Stands(request[form[f].row.of])
          /\ \E success \in BOOLEAN :
               action' = [action EXCEPT ![form[f].on] =
                           [form[f].row EXCEPT !.success = success]]
       \/ ~Stands(request[form[f].row.of]) /\ UNCHANGED action
    /\ Close(f)
    /\ UNCHANGED <<content, queue, status, versions, device, request, worker, bounds,
                   excuses, settled>>

\* The Device row is edited (a PATCH of the API; see Ownership).
SavePatch(f) ==
    /\ form[f].at = "device"
    /\ SaveDevice(f, [form[f].row EXCEPT !.rest = TRUE], "rest")
    /\ patched' = TRUE
    /\ Close(f)
    /\ UNCHANGED <<content, queue, status, versions, request, action, worker, bounds,
                   cut, late, settled>>
-----------------------------------------------------------------------------
(* Selection: which devices a deployment request is for. *)

\* The rows of applications have the type app, the rules look for sg.
RowType(t) == IF t = "os" THEN "os" ELSE "sg"
\* Mutant: the minor versions are compared alone.
ComparesMinor(op, v, m, n) ==
    CASE op = "eq" -> v.major = m /\ v.minor = n
      [] op = "lt" -> v.minor < n
      [] op = "lte" -> v.minor <= n
      [] op = "gt" -> v.minor > n
      [] op = "gte" -> v.minor >= n
\* The versions that an operator of DeviceSelectionRule.q takes.
Compares(op, v, m, n) ==
    CASE op = "eq" -> v.major = m /\ v.minor = n
      [] op = "lt" -> (v.major = m /\ v.minor < n) \/ v.major < m
      [] op = "lte" -> (v.major = m /\ v.minor <= n) \/ v.major < m
      [] op = "gt" -> (v.major = m /\ v.minor > n) \/ v.major > m
      [] op = "gte" -> (v.major = m /\ v.minor >= n) \/ v.major > m
\* A rule on the hardware asks nothing.
Selects(rule, row) ==
    \/ rule.part = "hw"
    \/ /\ row.type = RowType(rule.part)
       /\ IF rule.op = "tag" THEN row.what.tag = rule.tag
          ELSE Compares(rule.op, row.what, rule.major, rule.minor)

\* All rules must hold of one and the same row.
Affected(rules) == \E row \in versions : \A rule \in rules : Selects(rule, row)
-----------------------------------------------------------------------------
Next ==
    \/ \E w \in Worker :
         \/ \E r \in Report : Begin(w, r)
         \/ Look(w) \/ Insert(w) \/ Update(w) \/ Drop(w)
         \/ Pick(w) \/ Assume(w) \/ Confirm(w) \/ Create(w)
         \/ Finish(w) \/ Fail(w) \/ Refused(w)
    \/ \E r \in Report : Redeliver(r)
    \/ \E d \in Request : DeleteRequest(d) \/ \E covers \in BOOLEAN : AddRequest(d, covers)
    \/ \E k \in Action : DeleteAction(k)
    \/ \E k \in Action, d \in Request, success \in BOOLEAN : Post(k, d, success)
    \/ \E f \in Form :
         \/ \E d \in Request, what \in RequestForm : OpenRequest(f, what, d)
         \/ \E k \in Action : OpenAction(f, k)
         \/ OpenDevice(f)
         \/ SaveRequest(f) \/ SaveAction(f) \/ SavePatch(f)

Spec == Init /\ [][Next]_vars
-----------------------------------------------------------------------------
(* Properties. *)

\* The type invariant.
TypeOK ==
    /\ content \in Uploads
    /\ queue \subseteq Report
    /\ status \in [Report -> {"sent", "stored", "dropped"}]
    /\ versions \subseteq [type : Part, what : Version, id : Ids, at : Nat]
    /\ device \in DeviceRow
    /\ request \in [Request -> RequestRow \cup {NoRow, Deleted}]
    /\ action \in [Action -> ActionRow \cup {NoRow, Deleted}]
    /\ worker \in [Worker -> Job]
    /\ \A w \in Worker :
         /\ worker[w].at = "idle" <=> worker[w].report = NoRow
         /\ worker[w].at \notin {"idle", "read"} => Left(w)
         /\ worker[w].at = "confirm" => worker[w].on \in Action /\ worker[w].held \in ActionRow
         /\ worker[w].at = "create" => worker[w].on \in Request
    /\ form \in [Form -> Sheet]
    /\ \A f \in Form :
         /\ form[f].at \in RequestForm => form[f].on \in Request /\ form[f].row \in RequestRow
         /\ form[f].at = "attempt" => form[f].on \in Action /\ form[f].row \in ActionRow
         /\ form[f].at = "device" => form[f].row \in DeviceRow
    /\ asks \in 0..MaxAsk /\ faults \in 0..MaxFault
    /\ behind \in [Holder -> SUBSET Column]
    /\ lost \subseteq Column /\ cut \subseteq Ids /\ late \subseteq Part
    /\ patched \in BOOLEAN
    /\ settled \in [Ids -> Nat]

\* Part t of the Device row is the one of the last version of t.
Current(t) == \A v \in Newest(t) : device[t] = Serves(t, v.what)
Updating(t) == \E w \in Worker : worker[w].at = "update" /\ Reading(w).type = t
CutOff(t) == \E v \in Newest(t) : v.id \in cut

\* The Device row follows the versions that the device reported, and keeps what
\* others wrote, through retries, a message delivered twice and two streamers at
\* once: unless somebody who had read the row before saved it, the update to the
\* last version was cut off right after the version was recorded, or the timestamps
\* are out of order.
DeviceFollowsVersion ==
    /\ \A t \in Part \ (lost \cup late) : Current(t) \/ Updating(t) \/ CutOff(t)
    /\ "rest" \notin lost /\ patched => device.rest

\* A version reading settles one action at most, however often its report is
\* processed: the key of the version rows is what stops the second time.
ConfirmedOnce == \A x \in Ids : settled[x] <= 1

\* A rule on the OS version selects the devices that have (or had) such a
\* version, in the order of versions, the major number first.
Older(a, b) == a.major < b.major \/ (a.major = b.major /\ a.minor < b.minor)
Meant(rule, v) ==
    CASE rule.op = "eq" -> ~Older(v, rule) /\ ~Older(rule, v)
      [] rule.op = "lt" -> Older(v, rule)
      [] rule.op = "lte" -> ~Older(rule, v)
      [] rule.op = "gt" -> Older(rule, v)
      [] rule.op = "gte" -> ~Older(v, rule)
      [] rule.op = "tag" -> v.tag = rule.tag
RulesCompareVersions ==
    \A rule \in Rules : rule.part = "os" =>
        (Affected({rule}) <=> \E v \in Rows("os") : Meant(rule, v.what))

\* All terms of a selection are ANDed: a device whose last OS version meets one
\* and whose last application version meets the other is affected
\* (ota/models.py 149, ota/api_views.py 146).  Refuted by TLC.
RulesAreAnded ==
    \A a, b \in Rules :
        /\ a.part = "os" /\ b.part = "app"
        /\ \E v \in Newest("os") : Meant(a, v.what)
        /\ \E v \in Newest("app") : Meant(b, v.what)
        => Affected({a, b})

\* When all reports are stored, all records are up to date: "Use helper to decode
\* data value and update all required records" (process_report.py 275).  Refuted
\* by TLC: the retry takes the recorded version for no change.
RecordsUpdated ==
    (\A r \in Report : status[r] = "stored") =>
        \A t \in Part \ (lost \cup late) : Current(t) \/ Updating(t)
=============================================================================

------------------------------ MODULE Ownership ------------------------------
(***************************************************************************)
(* Who owns a device (apps/physicaldevice claim and unclaim, the staff     *)
(* pages) and the projects it is claimed in (apps/project): claims by the  *)
(* API and by staff, semi-claims, edits of the row, unclaim and reset      *)
(* tasks, projects that are created, given to another organization and     *)
(* deleted, with the readings and generated reports that follow.           *)
(*                                                                         *)
(* A job is one request with the task it sends.  A handler reads the       *)
(* Device row and saves it whole; a page of the staff site saves its form  *)
(* once more when it is done.  A task names the device or the project by   *)
(* its slug, never the claim it was asked to end, and an attempt that      *)
(* fails is executed again from the start (TaskQueue).                     *)
(*                                                                         *)
(* A project's slug is its gid, and a stream's slug has the gid of its     *)
(* project; readings are known by the stream slug alone.                   *)
(***************************************************************************)
EXTENDS Naturals

CONSTANTS
    Job,        \* requests
    Project,    \* project rows, those of later projects included
    Org,        \* organizations
    None,       \* a null column
    Asked,      \* the requests that are asked for: a subset of Request
    Table,      \* the project rows at first
    Home,       \* the projects in which the device may be claimed at first
    MaxGid,     \* bound on gids
    MaxFault    \* bound on attempts of tasks that fail

Op == {"claim", "semiclaim", "edit", "assign", "unclaim", "reset", "upload",
       "report", "create", "give", "delete"}

\* staff: by staff (a page of the staff site, or DELETE of the API); clean: with
\* clean_streams, or a full reset.
Request == [op : Op, project : Project \cup {None}, org : Org \cup {None},
            staff : BOOLEAN, clean : BOOLEAN]

\* A request has what its operation needs, only some operations have a page of
\* the staff site or are open to staff, and a project in the table, which is not
\* a template, has an organization.
ASSUME OwnershipAssumption ==
    /\ Asked \subseteq Request
    /\ \A r \in Asked :
         /\ r.op \in {"claim", "create", "give", "delete"} => r.project \in Project
         /\ r.op \in {"create", "give"} => r.org \in Org
         /\ r.staff => r.op \in {"claim", "semiclaim", "unclaim", "delete"}
    /\ None \notin Project \cup Org /\ "old" \notin Job
    /\ Table \in [Project -> [gid : 0..MaxGid, org : Org \cup {None}]]
    /\ \A p \in Project : Table[p].gid # 0 => Table[p].org \in Org
    /\ Home \subseteq {p \in Project : Table[p].gid # 0}
    /\ MaxGid \in Nat \ {0}
    /\ MaxFault \in Nat

VARIABLES
    project,    \* project[p]: gid (0: no row) and organization
    dev,        \* the Device row: project, organization, busy
    streams,    \* projects for which the device has its StreamId
    place,      \* place[x]: the gid in the slug of reading x, 0 if not stored
    reports,    \* jobs whose GeneratedUserReport row exists
    pc,         \* pc[j]: how far request j is
    req,        \* req[j]: what request j asks for
    mem,        \* mem[j]: what the code of job j has read or will save
    pages,      \* staff pages that have still to save their form
    owner,      \* history: owner[x], whose project reading x was read for
    again,      \* history: jobs whose task is executed again
    met,        \* history: met[j], the jobs that were open together with j
    given,      \* history: projects that changed their organization
    faults      \* failed attempts so far

jobs == <<req, mem>>
history == <<owner, again, met, given, faults>>
vars == <<project, dev, streams, place, reports, pc, jobs, pages, history>>

\* A reading of an upload has the name of the upload; Old was there before.
Old == "old"
Reading == Job \cup {Old}

Gid == 0..MaxGid
Row == [project : Project \cup {None}, org : Org \cup {None}, busy : BOOLEAN]
NoRow == [project |-> None, org |-> None, busy |-> FALSE]
\* save: the row that the handler saves; held: the row that the task has read;
\* gid: the gid that was read; target: the project that a delete task has found.
Memory == [save : Row, held : Row, gid : Gid, target : Project \cup {None}]
Blank == [save |-> NoRow, held |-> NoRow, gid |-> 0, target |-> None]
Exists(p) == p # None /\ project[p].gid # 0
\* A project that was deleted keeps its organization in the model: the ids of
\* projects are never used again, their gids are.
Fresh(p) == project[p].gid = 0 /\ project[p].org = None

Working == {"started", "cleared", "dropped", "released", "erased", "stripped",
            "removed"}
Open(j) == pc[j] \notin {"idle", "over"}

\* The device has never been claimed, is claimed, or was and its streams were
\* kept when it was released.
Init ==
    /\ project = Table
    /\ \E p \in Home \cup {None} :
        /\ streams = {p} \ {None}
        /\ place = [x \in Reading |-> IF x = Old /\ p # None
                                      THEN Table[p].gid ELSE 0]
        /\ owner = [x \in Reading |-> IF x = Old /\ p # None
                                      THEN Table[p].org ELSE None]
        /\ dev \in {NoRow} \cup
             {[NoRow EXCEPT !.project = q, !.org = Table[q].org] : q \in streams}
    /\ reports = {}
    /\ pc = [j \in Job |-> "idle"]
    /\ req = [j \in Job |-> [op |-> "edit", project |-> None, org |-> None,
                             staff |-> FALSE, clean |-> FALSE]]
    /\ mem = [j \in Job |-> Blank]
    /\ pages = {}
    /\ again = {} /\ met = [j \in Job |-> {}] /\ given = {} /\ faults = 0

Goto(j, l) == pc' = [pc EXCEPT ![j] = l]
\* A job that is over, page included, forgets what it knew.
Forget(j) == mem' = [mem EXCEPT ![j] = Blank]
End(j) ==
    /\ Goto(j, "over")
    /\ IF j \in pages THEN UNCHANGED mem ELSE Forget(j)
-----------------------------------------------------------------------------
(* The request handlers. *)

\* What a handler checks first.  The API resets no busy device, the form of the
\* web site does; a PATCH may take the project away.
Allowed(r) ==
    /\ r.op \in {"claim", "give", "delete"} => Exists(r.project)
    /\ r.op = "assign" => r.project = None \/ Exists(r.project)
    /\ r.op = "claim" /\ ~r.staff => dev.project = None
    /\ r.op = "unclaim" /\ ~r.staff => dev.project # None /\ ~dev.busy
    /\ r.op = "reset" => dev.org # None
    /\ r.op = "upload" => dev.project \in streams
    /\ r.op = "report" => dev.org # None
    /\ r.op = "create" => Fresh(r.project)

\* The Device row that the handler of request r saves, if r claims the device or
\* not, and a mutant that takes the project for the organization.  The pages of
\* the staff site save the row as it was read when they refuse.
OrgOf(p) == IF p = None THEN None ELSE project[p].org
Claims(r) == r.op = "assign" \/ (r.op = "claim" /\ dev.project = None)
SavesWrong(r) ==
    IF Claims(r) THEN [dev EXCEPT !.project = r.project, !.org = r.project]
    ELSE dev
Saves(r) ==
    IF Claims(r) THEN [dev EXCEPT !.project = r.project, !.org = OrgOf(r.project)]
    ELSE IF r.op = "semiclaim" /\ dev.org = None THEN [dev EXCEPT !.org = r.org]
    ELSE IF r.op = "reset" THEN [dev EXCEPT !.busy = TRUE]
    ELSE dev

NextGid == 1 + CHOOSE n \in Gid : /\ \A p \in Project : project[p].gid <= n
                                  /\ n = 0 \/ \E p \in Project : project[p].gid = n

\* What a request reads of the project: the gid in its slug, or the next one.
GidRead(r) ==
    CASE r.op = "create"                -> NextGid
      [] r.op = "upload"                -> project[dev.project].gid
      [] r.op \in {"give", "delete"}    -> project[r.project].gid
      [] OTHER                          -> 0

\* Where the request goes on: a task that needs no mark is sent at once.
First(r) ==
    IF r.op = "unclaim" \/ (r.op = "delete" /\ ~r.staff) THEN "queued"
    ELSE IF r.op = "claim" /\ ~Claims(r) THEN "over" ELSE "asked"

Ask(j, r) ==
    /\ pc[j] = "idle" /\ Allowed(r)
    /\ \A k \in Job : r.op = "create" /\ Open(k) /\ req[k].op = "create"
                        => req[k].project # r.project
    /\ GidRead(r) \in Gid
    /\ Goto(j, First(r))
    /\ req' = [req EXCEPT ![j] = r]
    /\ mem' = [mem EXCEPT ![j] = [Blank EXCEPT !.save = Saves(r), !.gid = GidRead(r)]]
    /\ pages' = IF r.staff /\ r.op # "delete" THEN pages \cup {j} ELSE pages
    /\ owner' = IF r.op = "upload"
                THEN [owner EXCEPT ![j] = project[dev.project].org] ELSE owner
    /\ met' = LET open == {k \in Job : Open(k) \/ k \in pages} IN
              [k \in Job |-> IF k = j THEN open
                             ELSE IF k \in open THEN met[k] \cup {j} ELSE met[k]]
    /\ UNCHANGED <<project, dev, streams, place, reports, again, given, faults>>

\* A row whose project has been deleted cannot be saved.
CanSave(r) == r.project = None \/ Exists(r.project)

Saving == {"claim", "assign", "semiclaim", "edit", "reset", "upload"}

\* device.save() of the handlers, and of a report, which may do so before it is
\* committed (SaveUpload of DeviceTasks).
Save(j) ==
    /\ pc[j] = "asked"
    /\ req[j].op \in Saving /\ CanSave(mem[j].save)
    /\ dev' = mem[j].save
    /\ \/ req[j].op = "claim" /\ Goto(j, "claimed") /\ UNCHANGED mem
       \/ req[j].op = "reset" /\ Goto(j, "queued") /\ UNCHANGED mem
       \/ req[j].op = "upload" /\ UNCHANGED <<pc, mem>>
       \/ req[j].op \notin {"claim", "reset", "upload"} /\ End(j)
    /\ UNCHANGED <<project, streams, place, reports, req, pages, history>>

\* create_streams_from_sensorgraph.
CreateStreams(j) ==
    /\ pc[j] = "claimed" /\ Exists(mem[j].save.project)
    /\ streams' = streams \cup {mem[j].save.project}
    /\ End(j)
    /\ UNCHANGED <<project, dev, place, reports, req, pages, history>>

\* The handler ends in an error: what it refers to has been deleted.  (A report
\* is read again, as a later one.)
Fail(j) ==
    /\ \/ pc[j] = "asked" /\ req[j].op \in Saving /\ ~CanSave(mem[j].save)
       \/ pc[j] = "claimed" /\ ~Exists(mem[j].save.project)
    /\ Goto(j, "over") /\ Forget(j)
    /\ pages' = pages \ {j}
    /\ UNCHANGED <<project, dev, streams, place, reports, req, history>>

\* super().form_valid(form) of a staff page: the Device row is saved once more,
\* as the page has it, whatever the task that it sent has done by then.
SavePage(j) ==
    /\ j \in pages /\ pc[j] \notin {"asked", "claimed"}
    /\ dev' = IF CanSave(mem[j].save) THEN mem[j].save ELSE dev
    /\ pages' = pages \ {j}
    /\ IF pc[j] = "over" THEN Forget(j) ELSE UNCHANGED mem
    /\ UNCHANGED <<project, streams, place, reports, pc, req, history>>

\* A report that was read before is committed; a generated report is listed.
Commit(j) ==
    /\ pc[j] = "asked" /\ req[j].op \in {"upload", "report"}
    /\ IF req[j].op = "upload"
       THEN place' = [place EXCEPT ![j] = mem[j].gid] /\ UNCHANGED reports
       ELSE reports' = reports \cup {j} /\ UNCHANGED place
    /\ End(j)
    /\ UNCHANGED <<project, dev, streams, req, pages, history>>
-----------------------------------------------------------------------------
(* The projects. *)

Write(p, r) == project' = [project EXCEPT ![p] = r]

\* Project.save() of a new project, with the gid that was free before.
Insert(j) ==
    /\ pc[j] = "asked" /\ req[j].op = "create"
    /\ Write(req[j].project, [gid |-> mem[j].gid, org |-> req[j].org])
    /\ End(j)
    /\ UNCHANGED <<dev, streams, place, reports, req, pages, history>>

\* A PATCH of the organization saves the row of the project only, and inserts
\* it again when it was deleted meanwhile.
Give(j) ==
    /\ pc[j] = "asked" /\ req[j].op = "give"
    /\ Write(req[j].project, [gid |-> mem[j].gid, org |-> req[j].org])
    /\ given' = given \cup {req[j].project}
    /\ End(j)
    /\ UNCHANGED <<dev, streams, place, reports, req, pages, owner, again, met, faults>>

\* The row of project p goes: devices lose their project (SET_NULL) and keep
\* the organization, StreamIds go (CASCADE) and take their readings with them.
Erased(S) == place' = [x \in Reading |-> IF place[x] \in S THEN 0 ELSE place[x]]
Gone(p) == [gid |-> 0, org |-> project[p].org]
\* Mutant: the readings stay.
RemoveKeeping(p) ==
    /\ Write(p, Gone(p))
    /\ dev' = IF dev.project = p THEN [dev EXCEPT !.project = None] ELSE dev
    /\ streams' = streams \ {p} /\ UNCHANGED place
Remove(p) ==
    /\ Write(p, Gone(p))
    /\ dev' = IF dev.project = p THEN [dev EXCEPT !.project = None] ELSE dev
    /\ streams' = streams \ {p}
    /\ Erased(IF p \in streams THEN {project[p].gid} ELSE {})

\* DELETE of the API, which staff may use: at once, devices or not.
Destroy(j) ==
    /\ pc[j] = "asked" /\ req[j].op = "delete"
    /\ IF Exists(req[j].project) THEN Remove(req[j].project)
       ELSE UNCHANGED <<project, dev, streams, place>>
    /\ End(j)
    /\ UNCHANGED <<reports, req, pages, history>>
-----------------------------------------------------------------------------
(* The tasks. *)

\* execute() of the unclaim and the reset reads the device; a device without
\* project is not reset: a hard error, and the device stays as it was marked.
Start(j) ==
    /\ pc[j] = "queued" /\ req[j].op \in {"unclaim", "reset"}
    /\ IF req[j].op = "reset" /\ None \in {dev.project, dev.org}
       THEN End(j)
       ELSE Goto(j, "started") /\ mem' = [mem EXCEPT ![j].held = dev]
    /\ UNCHANGED <<project, dev, streams, place, reports, req, pages, history>>

GidsOf(S) == {project[p].gid : p \in S} \ {0}

\* With clean_streams, the device's StreamIds and the readings under them; a
\* reset clears the readings only; a full one those without StreamId, too.
Cleared(j) ==
    IF req[j].op = "unclaim" /\ ~req[j].clean THEN {}
    ELSE GidsOf(streams \cup IF req[j].op = "reset" /\ req[j].clean
                             THEN {mem[j].held.project} ELSE {})
\* Mutant: the StreamIds stay.
ClearData(j) ==
    /\ pc[j] = "started"
    /\ Erased(Cleared(j)) /\ UNCHANGED streams
    /\ Goto(j, "cleared")
    /\ UNCHANGED <<project, dev, reports, jobs, pages, history>>
ClearStreams(j) ==
    /\ pc[j] = "started"
    /\ Erased(Cleared(j))
    /\ streams' = IF req[j].op = "unclaim" /\ req[j].clean THEN {} ELSE streams
    /\ Goto(j, "cleared")
    /\ UNCHANGED <<project, dev, reports, jobs, pages, history>>

\* GeneratedUserReport.objects.filter(source_ref=device.slug).delete()
DropReports(j) ==
    /\ pc[j] = "cleared"
    /\ reports' = {}
    /\ Goto(j, "dropped")
    /\ UNCHANGED <<project, dev, streams, place, jobs, pages, history>>

\* The last save of the task: the row it read, released or free again; and a
\* mutant that leaves the organization.
FinalOrg(j) == IF req[j].op = "unclaim"
               THEN [mem[j].held EXCEPT !.project = None]
               ELSE [mem[j].held EXCEPT !.busy = FALSE]
Final(j) == IF req[j].op = "unclaim"
            THEN [mem[j].held EXCEPT !.project = None, !.org = None]
            ELSE [mem[j].held EXCEPT !.busy = FALSE]
Release(j) ==
    /\ pc[j] = "dropped" /\ CanSave(Final(j))
    /\ dev' = Final(j)
    /\ Goto(j, "released")
    /\ UNCHANGED <<project, streams, place, reports, jobs, pages, history>>

\* "Delete data last": every reading of the device, whoever it belongs to now.
EraseData(j) ==
    /\ pc[j] = "released"
    /\ IF req[j].op = "unclaim" /\ req[j].clean THEN Erased(Gid \ {0})
       ELSE UNCHANGED place
    /\ Goto(j, "erased")
    /\ UNCHANGED <<project, dev, streams, reports, jobs, pages, history>>

\* execute() of the project task finds the one project with that slug.  With
\* none or two of them the error deletes the message.
Named(g) == {p \in Project : project[p].gid = g}
Find(j) ==
    /\ pc[j] = "queued" /\ req[j].op = "delete"
    /\ \/ (\A p \in Project : Named(mem[j].gid) # {p}) /\ End(j)
       \/ \E p \in Project :
            /\ Named(mem[j].gid) = {p}
            /\ mem' = [mem EXCEPT ![j].target = p]
            /\ Goto(j, IF dev.project = p THEN "removed" ELSE "started")
    /\ UNCHANGED <<project, dev, streams, place, reports, req, pages, history>>

\* _delete_data: variables and StreamIds with their readings, then the project.
Strip(j) ==
    /\ pc[j] = "started"
    /\ streams' = streams \ {mem[j].target}
    /\ Erased(IF mem[j].target \in streams THEN {project[mem[j].target].gid} ELSE {})
    /\ Goto(j, "stripped")
    /\ UNCHANGED <<project, dev, reports, jobs, pages, history>>
RemoveProject(j) ==
    /\ pc[j] = "stripped"
    /\ Remove(mem[j].target)
    /\ Goto(j, "removed")
    /\ UNCHANGED <<reports, jobs, pages, history>>

\* The task is done, mails included; the message is deleted.
Ack(j) ==
    /\ pc[j] \in {"erased", "removed"}
    /\ End(j)
    /\ UNCHANGED <<project, dev, streams, place, reports, req, pages, history>>

\* An attempt ends before that, by an error (a mail, the database) or with its
\* worker; one that cannot save its row always does.
Retry(j) ==
    /\ pc[j] \in Working
    /\ \/ faults < MaxFault /\ faults' = faults + 1
       \/ pc[j] = "dropped" /\ ~CanSave(Final(j)) /\ UNCHANGED faults
    /\ again' = again \cup {j}
    /\ Goto(j, "queued")
    /\ UNCHANGED <<project, dev, streams, place, reports, jobs, pages, owner, met, given>>
-----------------------------------------------------------------------------
Unclaim(j) == \/ ClearStreams(j) \/ DropReports(j) \/ Release(j) \/ EraseData(j)
Delete(j) == Find(j) \/ Strip(j) \/ RemoveProject(j)

Next ==
    \E j \in Job :
        \/ \E r \in Asked : Ask(j, r)
        \/ Save(j) \/ CreateStreams(j) \/ Fail(j) \/ SavePage(j) \/ Commit(j)
        \/ Insert(j) \/ Give(j) \/ Destroy(j)
        \/ Start(j)
        \/ req[j].op \in {"unclaim", "reset"} /\ Unclaim(j)
        \/ req[j].op = "delete" /\ Delete(j)
        \/ Ack(j) \/ Retry(j)

Spec == Init /\ [][Next]_vars
-----------------------------------------------------------------------------
(* Properties. *)

\* The type invariant.
TypeOK ==
    /\ project \in [Project -> [gid : Gid, org : Org \cup {None}]]
    /\ dev \in Row
    /\ streams \subseteq Project
    /\ place \in [Reading -> Gid]
    /\ reports \subseteq Job
    /\ pc \in [Job -> {"idle", "asked", "claimed", "queued", "over"} \cup Working]
    /\ req \in [Job -> Request]
    /\ mem \in [Job -> Memory]
    /\ pages \subseteq Job
    /\ owner \in [Reading -> Org \cup {None}]
    /\ again \subseteq Job /\ met \in [Job -> SUBSET Job]
    /\ given \subseteq Project
    /\ faults \in 0..MaxFault

\* An unclaim of the API with clean_streams that is done has left nothing: no
\* claim, no StreamId, no reading and no generated report, however often its
\* task was repeated, if nobody else worked on the device (the docstring,
\* physicaldevice/api_views.py 283).
UnclaimLeavesNothing ==
    [][\A j \in Job :
         /\ Ack(j) /\ req[j].op = "unclaim" /\ req[j].clean /\ ~req[j].staff
         /\ \A k \in met[j] : req[k].op \in {"create", "give", "delete"}
         => /\ dev.project = None /\ dev.org = None
            /\ streams = {} /\ reports = {}
            /\ \A x \in Reading : place[x] = 0]_vars

\* The Device row and the projects agree.  The organization of a claimed device
\* is that of its project, until the project is given away; a device without
\* project has an organization only by a semi-claim or because its project was
\* deleted.  Whole rows are saved late by many, so none may save half a claim.
RowsAgree ==
    /\ dev.project # None =>
         /\ Exists(dev.project)
         /\ dev.project \in given \/ dev.org = project[dev.project].org
    /\ dev.project = None /\ dev.org # None =>
         \E j \in Job : pc[j] # "idle" /\ req[j].op \in {"semiclaim", "delete"}

\* A reading that was read for a project of one organization is not listed
\* under the device in a project of another one, although gids are used again:
\* unless requests overlapped its upload, the project was given away, or two
\* projects were created with one gid.
Listed(x) == {p \in streams : place[x] # 0 /\ project[p].gid = place[x]}
NoForeignReadings ==
    \A x \in Reading : \A p \in Listed(x) :
        \/ project[p].org = owner[x]
        \/ x # Old /\ met[x] # {}
        \/ p \in given \/ Named(place[x]) # {p}

\* An unclaim erases the readings of the claim that it ends, never those of the
\* organization that has claimed the device since ("the previous Stream Data
\* for the Device will be cleaned", physicaldevice/api_views.py 288).  Refuted
\* by TLC.
ErasesPreviousReadings ==
    [][\A j, k \in Job :
         EraseData(j) /\ req[k].op = "upload"
           /\ mem[j].held.project # None
           /\ dev.org \notin {None, mem[j].held.org} /\ owner[k] = dev.org
           => place'[k] = place[k]]_vars
=============================================================================

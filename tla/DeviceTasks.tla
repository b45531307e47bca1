----------------------------- MODULE DeviceTasks -----------------------------
(***************************************************************************)
(* The long operations on a device: archive its data into a DataBlock      *)
(* (apps/datablock), reset it or move it to another project                *)
(* (apps/physicaldevice), and delete a DataBlock.  A request handler reads *)
(* the Device row, writes it back with state B0 (busy) and sends a task; a *)
(* worker reads the row again, changes the data in several statements,     *)
(* mails the user and writes the row back.  Rows are saved whole: a save   *)
(* also writes the other columns as they were read.  So do the other       *)
(* writers of the Device row: the PATCH of the API and the edit form, and  *)
(* the worker that processes a report.                                     *)
(*                                                                         *)
(* A job is one request, with its task if it has one.  The queue is used   *)
(* through the contract of TaskQueue: a task whose attempt ends in a       *)
(* retried error or with its worker is executed again, from the start.     *)
(*                                                                         *)
(* The device has one variable, so a stream slug is known by its project   *)
(* or, in an archive, by its block.                                        *)
(***************************************************************************)
EXTENDS Naturals, FiniteSets

CONSTANTS
    Job,        \* requests
    Project,    \* the projects of the device's organization
    Home,       \* the project in which the device was claimed
    Item,       \* the readings of the device
    Archived,   \* the readings that block 1 holds at the start
    NoRow,      \* no DataBlock row
    OldRow,     \* the row of a block that was there at the start
    MaxBlock,   \* bound on block ids
    MaxFault    \* bound on mail errors, crashes, hard errors, dead handlers

ASSUME DeviceAssumption ==
    /\ Home \in Project
    /\ Archived \subseteq Item
    /\ NoRow # OldRow /\ {NoRow, OldRow} \cap Job = {}
    /\ Job \cap Item = {}
    /\ MaxBlock \in Nat \ {0}
    /\ MaxFault \in Nat

VARIABLES
    dev,        \* the Device row: state and project
    streams,    \* the projects under which the device has its StreamId
    place,      \* where each reading is stored
    row,        \* row[b]: the DataBlock row with id b, named by its creator
    cloned,     \* blocks whose row has its StreamId
    complete,   \* blocks whose row has completed_on
    pc,         \* pc[j]: how far request j is
    job,        \* job[j]: what request j asks for
    blk,        \* blk[j]: the block slug in the arguments of task j
    read,       \* read[j]: the rows as the running code of j holds them
    base,       \* history: base[j], the readings j was asked to take
    met,        \* history: device jobs that overlapped another one
    ended,      \* history: device jobs that have saved their final state
    late,       \* history: readings whose upload a move overtook, or that
                \* began after the project had been changed from outside
    cut,        \* history: a move was cut between the row and the streams
    stuck,      \* history: jobs and readings that left the device busy for
                \* good
    old,        \* history: jobs and readings that have not read the Device
                \* row since its project changed
    unmarked,   \* history: jobs under which the state was changed from
                \* outside
    rerouted,   \* history: jobs under which the project was changed from
                \* outside
    strayed,    \* history: the project was changed from outside
    faults      \* faults so far

outside == <<unmarked, rerouted, strayed>>
vars == <<dev, streams, place, row, cloned, complete, pc, job, blk, read,
          base, met, ended, late, cut, stuck, old, outside, faults>>

\* N stands for N0 and N1, which differ in the column active only.
Dev == [state : {"N", "B0"}, project : Project]
BlockId == 1..MaxBlock
Row == Job \cup {NoRow, OldRow}

\* Where a reading can be.  Uploading(d): a worker has read the Device row d
\* and has not committed the reading yet.
OnDevice(p) == <<"device", p>>
InBlock(b) == <<"block", b>>
Uploading(d) == <<"upload", d>>
Absent == <<"absent", Home>>
Gone == <<"gone", Home>>
Place == ({"device"} \X Project) \cup ({"upload"} \X Dev)
           \cup ({"block"} \X BlockId) \cup {Absent, Gone}

\* What can be asked for.  dst: the new project; all: full (reset), move_data
\* (move) or whether the project is among the edited fields; after: the final
\* state, "keep" an on_complete or an edit that has none; api: the request
\* comes through an endpoint of the API that refuses busy devices.  An edit
\* with neither field stands for the form and for every other save of a label
\* or a location.
Request ==
    [op : {"archive"}, api : BOOLEAN, after : {"N", "keep"},
     all : {TRUE}, dst : {Home}, blk : {0}]
      \cup [op : {"reset"}, api : BOOLEAN, after : {"N"},
            all : BOOLEAN, dst : {Home}, blk : {0}]
      \cup [op : {"move"}, api : {FALSE}, after : {"N"},
            all : BOOLEAN, dst : Project, blk : {0}]
      \cup [op : {"delete"}, api : {FALSE}, after : {"keep"},
            all : {TRUE}, dst : {Home}, blk : BlockId]
      \cup [op : {"edit"}, api : {FALSE}, after : {"N", "B0", "keep"},
            all : {TRUE}, dst : Project, blk : {0}]
      \cup [op : {"edit"}, api : {FALSE}, after : {"N", "B0", "keep"},
            all : {FALSE}, dst : {Home}, blk : {0}]

NoRequest == [op |-> "none", after |-> "keep", all |-> FALSE, dst |-> Home,
              row |-> NoRow]

Handling == {"asked", "blocked", "marked"}
Working == {"started", "cloned", "migrated", "completed", "cleared", "moved",
            "shifted", "renamed", "erased", "unlisted", "notified", "finished"}

Open(j) == pc[j] \notin {"idle", "over"}
OnTheDevice(j) == job[j].op \in {"archive", "reset", "move"}

Init ==
    /\ dev = [state |-> "N", project |-> Home]
    /\ streams = {Home}
    /\ place = [x \in Item |-> IF x \in Archived THEN InBlock(1) ELSE Absent]
    /\ row = [b \in BlockId |->
                IF b = 1 /\ Archived # {} THEN OldRow ELSE NoRow]
    /\ cloned = {b \in BlockId : row[b] = OldRow}
    /\ complete = cloned
    /\ pc = [j \in Job |-> "idle"]
    /\ job = [j \in Job |-> NoRequest]
    /\ blk = [j \in Job |-> 0]
    /\ read = [j \in Job |-> [dev |-> dev, row |-> NoRow]]
    /\ base = [j \in Job |-> {}]
    /\ met = {} /\ ended = {} /\ late = {} /\ cut = FALSE /\ stuck = {}
    /\ old = {} /\ unmarked = {} /\ rerouted = {} /\ strayed = FALSE
    /\ faults = 0

Goto(j, l) == pc' = [pc EXCEPT ![j] = l]

\* Those that may hold the row.
Readers == {j \in Job : Open(j)}
             \cup {x \in Item : \E d \in Dev : place[x] = Uploading(d)}

\* device.save() by w, a job or the worker that uploads a reading.
Save(w, d) ==
    /\ dev' = d
    /\ old' = IF d.project # dev.project THEN Readers \ {w} ELSE old

\* The same by a writer that is not a device job: what it does to the jobs
\* that are at work.
SaveOutside(w, d) ==
    LET under == {k \in Job : /\ OnTheDevice(k)
                              /\ pc[k] \in {"marked", "queued"} \cup Working}
    IN  /\ Save(w, d)
        /\ unmarked' = IF d.state # dev.state
                       THEN unmarked \cup under ELSE unmarked
        /\ rerouted' = IF d.project # dev.project
                       THEN rerouted \cup under ELSE rerouted
        /\ strayed' = (strayed \/ d.project # dev.project)
        /\ stuck' = IF d.state = "B0" /\ dev.state # "B0"
                    THEN stuck \cup {w} ELSE stuck

-----------------------------------------------------------------------------
(* The request handlers. *)

\* The handler of request r reads the Device row, and the API refuses a busy
\* device.  The forms of the web site do not look at the state.
Ask(j, r) ==
    /\ pc[j] = "idle"
    /\ r.api => dev.state # "B0"
    /\ r.op = "move" => r.dst # dev.project
    /\ r.op = "delete" => row[r.blk] # NoRow
    /\ job' = [job EXCEPT ![j] =
                [op |-> r.op, after |-> r.after, all |-> r.all, dst |-> r.dst,
                 row |-> IF r.op = "delete" THEN row[r.blk] ELSE NoRow]]
    /\ blk' = [blk EXCEPT ![j] = r.blk]
    /\ read' = [read EXCEPT ![j] = [dev |-> dev, row |-> NoRow]]
    /\ Goto(j, "asked")
    /\ LET rivals == {k \in Job : Open(k) /\ OnTheDevice(k)}
       IN  met' = IF r.op \in {"delete", "edit"} \/ rivals = {}
                  THEN met ELSE met \cup rivals \cup {j}
    /\ old' = old \ {j}
    /\ UNCHANGED <<dev, streams, place, row, cloned, complete, base, ended,
                   late, cut, stuck, outside, faults>>

\* get_block_id: one more than the last block that still exists.
IsNewBlockId(b) ==
    /\ \A c \in BlockId : row[c] # NoRow => c < b
    /\ b > 1 => row[b - 1] # NoRow

\* The block is saved before the device is marked.  Of two handlers with the
\* same id the database refuses one, whose request ends there: Die.
CreateBlock(j) ==
    /\ pc[j] = "asked" /\ job[j].op = "archive"
    /\ \E b \in BlockId :
        /\ IsNewBlockId(b)
        /\ row' = [row EXCEPT ![b] = j]
        /\ blk' = [blk EXCEPT ![j] = b]
    /\ Goto(j, "blocked")
    /\ UNCHANGED <<dev, streams, place, cloned, complete, job, read, base,
                   met, ended, late, cut, stuck, old, outside, faults>>

\* The readings that operation o on a device of project p is about.
InScope(o, p) ==
    {x \in Item : \E q \in streams : /\ place[x] = OnDevice(q)
                                     /\ o = "reset" \/ q = p}

\* Mutant: the state is set but the row is not saved.
MarkBusyUnsaved(j) ==
    /\ \/ pc[j] = "blocked"
       \/ pc[j] = "asked" /\ job[j].op \in {"reset", "move"}
    /\ base' = [base EXCEPT ![j] = InScope(job[j].op, read[j].dev.project)]
    /\ Goto(j, "marked")
    /\ UNCHANGED <<dev, streams, place, row, cloned, complete, job, blk, read,
                   met, ended, late, cut, stuck, old, outside, faults>>

\* device.set_state('B0'); device.save(): the row of Ask, with a new state.
MarkBusy(j) ==
    /\ \/ pc[j] = "blocked"
       \/ pc[j] = "asked" /\ job[j].op \in {"reset", "move"}
    /\ Save(j, [read[j].dev EXCEPT !.state = "B0"])
    /\ base' = [base EXCEPT ![j] = InScope(job[j].op, read[j].dev.project)]
    /\ Goto(j, "marked")
    /\ UNCHANGED <<streams, place, row, cloned, complete, job, blk, read, met,
                   ended, late, cut, stuck, outside, faults>>

\* The task is sent; deleting a block has no other step.
Send(j) ==
    /\ pc[j] = "marked" \/ (pc[j] = "asked" /\ job[j].op = "delete")
    /\ Goto(j, "queued")
    /\ UNCHANGED <<dev, streams, place, row, cloned, complete, job, blk, read,
                   base, met, ended, late, cut, stuck, old, outside, faults>>

\* The row of Ask with the edited fields.
Edited(j) ==
    [state |-> IF job[j].after = "keep" THEN read[j].dev.state ELSE job[j].after,
     project |-> IF job[j].all THEN job[j].dst ELSE read[j].dev.project]

\* serializer.save() or self.object.save(), which end an edit.
SaveEdit(j) ==
    /\ pc[j] = "asked" /\ job[j].op = "edit"
    /\ SaveOutside(j, Edited(j))
    /\ Goto(j, "over")
    /\ UNCHANGED <<streams, place, row, cloned, complete, job, blk, read, base,
                   met, ended, late, cut, faults>>

\* The handler ends early: its process dies, the database or SQS refuses.
Die(j) ==
    /\ faults < MaxFault /\ faults' = faults + 1
    /\ pc[j] \in Handling
    /\ stuck' = IF pc[j] = "marked" THEN stuck \cup {j} ELSE stuck
    /\ Goto(j, "over")
    /\ UNCHANGED <<dev, streams, place, row, cloned, complete, job, blk, read,
                   base, met, ended, late, cut, old, outside>>
-----------------------------------------------------------------------------
(* The workers. *)

\* execute() reads the block, by its slug, and the device.
Start(j) ==
    /\ pc[j] = "queued"
    /\ blk[j] # 0 => row[blk[j]] # NoRow
    /\ read' = [read EXCEPT ![j] =
                [dev |-> dev,
                 row |-> IF blk[j] = 0 THEN NoRow ELSE row[blk[j]]]]
    /\ old' = old \ {j}
    /\ Goto(j, "started")
    /\ UNCHANGED <<dev, streams, place, row, cloned, complete, job, blk, base,
                   met, ended, late, cut, stuck, outside, faults>>

\* A hard error: the block is not there any more, or (a fault) the user, the
\* project or the organization is not.  The message is deleted.
HardError(j) ==
    /\ pc[j] = "queued"
    /\ \/ blk[j] # 0 /\ row[blk[j]] = NoRow /\ UNCHANGED faults
       \/ faults < MaxFault /\ faults' = faults + 1
    /\ stuck' = IF OnTheDevice(j) THEN stuck \cup {j} ELSE stuck
    /\ Goto(j, "over")
    /\ UNCHANGED <<dev, streams, place, row, cloned, complete, job, blk, read,
                   base, met, ended, late, cut, old, outside>>

\* The DataBlock row that j read is still there.
HasRow(j) == row[blk[j]] = read[j].row

\* _clone_streams: the device's StreamIds of its project, for the block.  A
\* block that was deleted meanwhile cannot be referred to: Retry.
Clone(j) ==
    /\ pc[j] = "started" /\ job[j].op = "archive"
    /\ HasRow(j)
    /\ cloned' = IF read[j].dev.project \in streams
                 THEN cloned \cup {blk[j]} ELSE cloned
    /\ Goto(j, "cloned")
    /\ UNCHANGED <<dev, streams, place, row, complete, job, blk, read, base,
                   met, ended, late, cut, stuck, old, outside, faults>>

\* The readings a statement on the stream slugs in S changes become to.
Rewrite(S, to) ==
    place' = [x \in Item |-> IF place[x] \in S THEN to ELSE place[x]]

\* _migrate_stream_data and _migrate_stream_events, for the block's streams.
Migrate(j) ==
    /\ pc[j] = "cloned"
    /\ Rewrite(IF HasRow(j) /\ blk[j] \in cloned
               THEN {OnDevice(read[j].dev.project)} ELSE {}, InBlock(blk[j]))
    /\ Goto(j, "migrated")
    /\ UNCHANGED <<dev, streams, row, cloned, complete, job, blk, read, base,
                   met, ended, late, cut, stuck, old, outside, faults>>

\* block.save() with completed_on.  Django inserts a row that has vanished
\* again; if another archive has taken the id, the database refuses: Retry.
Complete(j) ==
    /\ pc[j] = "migrated"
    /\ row[blk[j]] \in {read[j].row, NoRow}
    /\ row' = [row EXCEPT ![blk[j]] = read[j].row]
    /\ complete' = complete \cup {blk[j]}
    /\ Goto(j, "completed")
    /\ UNCHANGED <<dev, streams, place, cloned, job, blk, read, base,
                   met, ended, late, cut, stuck, old, outside, faults>>

\* Mutant: only the streams of the current project are cleared.
ClearCurrent(j) ==
    /\ pc[j] = "started" /\ job[j].op = "reset"
    /\ Rewrite({OnDevice(read[j].dev.project)}, Gone)
    /\ Goto(j, "cleared")
    /\ UNCHANGED <<dev, streams, row, cloned, complete, job, blk, read, base,
                   met, ended, late, cut, stuck, old, outside, faults>>

\* Mutant: the archives' streams are not filtered out (block__isnull=True).
ClearAll(j) ==
    /\ pc[j] = "started" /\ job[j].op = "reset"
    /\ Rewrite({OnDevice(p) : p \in streams} \cup {InBlock(b) : b \in cloned},
               Gone)
    /\ Goto(j, "cleared")
    /\ UNCHANGED <<dev, streams, row, cloned, complete, job, blk, read, base,
                   met, ended, late, cut, stuck, old, outside, faults>>

\* _clear_stream_data: the readings of all the device's StreamIds and, in a
\* full reset, those of its project that have none.
Clear(j) ==
    /\ pc[j] = "started" /\ job[j].op = "reset"
    /\ Rewrite({OnDevice(p) : p \in streams} \cup
               (IF job[j].all THEN {OnDevice(read[j].dev.project)} ELSE {}),
               Gone)
    /\ Goto(j, "cleared")
    /\ UNCHANGED <<dev, streams, row, cloned, complete, job, blk, read, base,
                   met, ended, late, cut, stuck, old, outside, faults>>

\* The first step of a move saves the Device row with the new project; the
\* row it replaces was read by Start and names the source.
MoveRow(j) ==
    /\ pc[j] = "started" /\ job[j].op = "move"
    /\ Save(j, [read[j].dev EXCEPT !.project = job[j].dst])
    /\ Goto(j, "moved")
    /\ UNCHANGED <<streams, place, row, cloned, complete, job, blk, read, base,
                   met, ended, late, cut, stuck, outside, faults>>

\* _move_stream_data: the readings of the StreamIds of the source project.  An
\* upload that read the old row goes on writing under the old slug.
Shift(j) ==
    /\ pc[j] = "moved"
    /\ Rewrite(IF job[j].all /\ read[j].dev.project \in streams
               THEN {OnDevice(read[j].dev.project)} ELSE {},
               OnDevice(job[j].dst))
    /\ late' = late \cup
         {x \in Item : \E d \in Dev : /\ place[x] = Uploading(d)
                                      /\ d.project = read[j].dev.project}
    /\ Goto(j, "shifted")
    /\ UNCHANGED <<dev, streams, row, cloned, complete, job, blk, read, base,
                   met, ended, cut, stuck, old, outside, faults>>

\* Mutant: the streams are moved whether or not the data was.
RenameAlways(j) ==
    LET src == read[j].dev.project
        dst == job[j].dst
    IN  /\ pc[j] = "shifted"
        /\ streams' = IF src \in streams /\ dst \notin streams
                      THEN (streams \ {src}) \cup {dst} ELSE streams \cup {dst}
        /\ Goto(j, "renamed")
        /\ UNCHANGED <<dev, place, row, cloned, complete, job, blk, read, base,
                       met, ended, late, cut, stuck, old, outside, faults>>

\* _move_stream_ids gives the StreamId of the source the slug of the
\* destination, unless there is one; without the data, the destination gets
\* StreamIds of its own.
Rename(j) ==
    LET src == read[j].dev.project
        dst == job[j].dst
    IN  /\ pc[j] = "shifted"
        /\ streams' = CASE ~job[j].all -> streams \cup {dst}
                        [] job[j].all /\ src \in streams /\ dst \notin streams ->
                             (streams \ {src}) \cup {dst}
                        [] OTHER -> streams
        /\ Goto(j, "renamed")
        /\ UNCHANGED <<dev, place, row, cloned, complete, job, blk, read, base,
                       met, ended, late, cut, stuck, old, outside, faults>>

\* The readings of block b, if it is the row that j read and has its stream.
Erased(j) ==
    IF HasRow(j) /\ blk[j] \in cloned THEN {InBlock(blk[j])} ELSE {}

\* _delete_records deletes the data of the block's streams, then the streams.
Erase(j) ==
    /\ pc[j] = "started" /\ job[j].op = "delete"
    /\ Rewrite(Erased(j), Gone)
    /\ cloned' = IF HasRow(j) THEN cloned \ {blk[j]} ELSE cloned
    /\ Goto(j, "erased")
    /\ UNCHANGED <<dev, streams, row, complete, job, blk, read, base, met,
                   ended, late, cut, stuck, old, outside, faults>>

\* Then it deletes the block, and with it any stream it was given meanwhile
\* and the data of that stream.
Unlist(j) ==
    /\ pc[j] = "erased"
    /\ Rewrite(Erased(j), Gone)
    /\ cloned' = IF HasRow(j) THEN cloned \ {blk[j]} ELSE cloned
    /\ complete' = IF HasRow(j) THEN complete \ {blk[j]} ELSE complete
    /\ row' = IF HasRow(j) THEN [row EXCEPT ![blk[j]] = NoRow] ELSE row
    /\ Goto(j, "unlisted")
    /\ UNCHANGED <<dev, streams, job, blk, read, base, met, ended, late, cut,
                   stuck, old, outside, faults>>

\* The mail that reports the end of the task.
Notify(j) ==
    /\ pc[j] \in {"completed", "cleared", "renamed", "unlisted"}
    /\ Goto(j, "notified")
    /\ UNCHANGED <<dev, streams, place, row, cloned, complete, job, blk, read,
                   base, met, ended, late, cut, stuck, old, outside, faults>>

\* The row that the task holds in memory at its end; that of a move has the
\* new project.
Held(j) ==
    IF job[j].op = "move" THEN [read[j].dev EXCEPT !.project = job[j].dst]
                          ELSE read[j].dev

\* Mutant: the row is saved as it was when the task started.
FinishStale(j) ==
    /\ pc[j] = "notified"
    /\ Save(j, IF OnTheDevice(j)
               THEN [read[j].dev EXCEPT !.state =
                       IF job[j].after = "keep" THEN @ ELSE job[j].after]
               ELSE dev)
    /\ ended' = ended \cup {j}
    /\ stuck' = stuck
    /\ Goto(j, "finished")
    /\ UNCHANGED <<streams, place, row, cloned, complete, job, blk, read, base,
                   met, late, cut, outside, faults>>

\* Mutant: the state is copied without looking whether there is one.
FinishCopy(j) ==
    /\ pc[j] = "notified"
    /\ Save(j, IF OnTheDevice(j)
               THEN [Held(j) EXCEPT !.state = job[j].after] ELSE dev)
    /\ ended' = ended \cup {j}
    /\ stuck' = stuck
    /\ Goto(j, "finished")
    /\ UNCHANGED <<streams, place, row, cloned, complete, job, blk, read, base,
                   met, late, cut, outside, faults>>

\* The final set_state and save(); an on_complete without a state saves the
\* state that was read.
Finish(j) ==
    /\ pc[j] = "notified"
    /\ Save(j, IF OnTheDevice(j)
               THEN [Held(j) EXCEPT !.state =
                       IF job[j].after = "keep" THEN @ ELSE job[j].after]
               ELSE dev)
    /\ ended' = ended \cup {j}
    /\ stuck' = IF OnTheDevice(j) /\ job[j].after = "keep"
                THEN stuck \cup {j} ELSE stuck
    /\ Goto(j, "finished")
    /\ UNCHANGED <<streams, place, row, cloned, complete, job, blk, read, base,
                   met, late, cut, outside, faults>>

\* The worker deletes the message.
Ack(j) ==
    /\ pc[j] = "finished"
    /\ Goto(j, "over")
    /\ UNCHANGED <<dev, streams, place, row, cloned, complete, job, blk, read,
                   base, met, ended, late, cut, stuck, old, outside, faults>>

\* The database refuses the next statement of j.
Refused(j) ==
    \/ pc[j] = "started" /\ job[j].op = "archive" /\ ~HasRow(j)
    \/ pc[j] = "migrated" /\ row[blk[j]] \notin {read[j].row, NoRow}

\* Mutant: an attempt that fails drops its task.
RetryNever(j) ==
    /\ pc[j] \in Working
    /\ \/ Refused(j) /\ UNCHANGED faults
       \/ faults < MaxFault /\ faults' = faults + 1
    /\ Goto(j, "over")
    /\ cut' = (cut \/ pc[j] \in {"moved", "shifted"})
    /\ UNCHANGED <<dev, streams, place, row, cloned, complete, job, blk, read,
                   base, met, ended, late, stuck, old, outside>>

\* The attempt ends early: the mail or a statement fails, or the worker dies.
\* The message becomes visible again and the task starts over.
Retry(j) ==
    /\ pc[j] \in Working
    /\ \/ Refused(j) /\ UNCHANGED faults
       \/ faults < MaxFault /\ faults' = faults + 1
    /\ Goto(j, "queued")
    /\ cut' = (cut \/ pc[j] \in {"moved", "shifted"})
    /\ UNCHANGED <<dev, streams, place, row, cloned, complete, job, blk, read,
                   base, met, ended, late, stuck, old, outside>>
-----------------------------------------------------------------------------
(* Uploads, which do not look at the state of the device. *)

\* A worker that processes a report reads the Device row: the slug of the
\* stream is known from here on.
BeginUpload(x) ==
    /\ place[x] = Absent
    /\ place' = [place EXCEPT ![x] = Uploading(dev)]
    /\ old' = old \ {x}
    /\ late' = IF strayed THEN late \cup {x} ELSE late
    /\ UNCHANGED <<dev, streams, row, cloned, complete, pc, job, blk, read,
                   base, met, ended, cut, stuck, outside, faults>>

\* Before it commits the readings it may save the row it has read: with a
\* first last_known_id or a new firmware version.
SaveUpload(x) ==
    \E d \in Dev :
        /\ place[x] = Uploading(d)
        /\ SaveOutside(x, d)
        /\ UNCHANGED <<streams, place, row, cloned, complete, pc, job, blk,
                       read, base, met, ended, late, cut, faults>>

\* It commits the reading.
EndUpload(x) ==
    \E d \in Dev :
        /\ place[x] = Uploading(d)
        /\ place' = [place EXCEPT ![x] = OnDevice(d.project)]
        /\ UNCHANGED <<dev, streams, row, cloned, complete, pc, job, blk,
                       read, base, met, ended, late, cut, stuck, old, outside,
                       faults>>
-----------------------------------------------------------------------------
Handler(j) == (\E r \in Request : Ask(j, r)) \/ CreateBlock(j) \/ MarkBusy(j)
                \/ Send(j) \/ SaveEdit(j) \/ Die(j)

Archive(j) == Clone(j) \/ Migrate(j) \/ Complete(j)
Reset(j) == Clear(j)
Move(j) == MoveRow(j) \/ Shift(j) \/ Rename(j)
Delete(j) == Erase(j) \/ Unlist(j)
Execute(j) == Start(j) \/ HardError(j) \/ Archive(j) \/ Reset(j) \/ Move(j)
                \/ Delete(j) \/ Notify(j) \/ Finish(j) \/ Ack(j) \/ Retry(j)
Upload(x) == BeginUpload(x) \/ SaveUpload(x) \/ EndUpload(x)

Next == (\E j \in Job : Handler(j) \/ Execute(j)) \/ (\E x \in Item : Upload(x))

Spec == Init /\ [][Next]_vars

\* A handler that runs goes on to send its task, and the queue and its workers
\* execute the tasks they hold (sqs_live).  Nobody has to ask for anything.
Fairness ==
    \A j \in Job :
        /\ WF_vars(CreateBlock(j) \/ MarkBusy(j) \/ Send(j))
        /\ WF_vars(Execute(j))

FairSpec == Spec /\ Fairness
-----------------------------------------------------------------------------
(* Properties. *)

TypeOK ==
    /\ dev \in Dev
    /\ streams \subseteq Project
    /\ place \in [Item -> Place]
    /\ row \in [BlockId -> Row]
    /\ cloned \subseteq BlockId /\ complete \subseteq BlockId
    /\ pc \in [Job -> {"idle", "queued", "over"} \cup Handling \cup Working]
    /\ job \in [Job -> [op : {"none", "archive", "reset", "move", "delete",
                              "edit"},
                        after : {"N", "B0", "keep"}, all : BOOLEAN,
                        dst : Project, row : Row]]
    /\ blk \in [Job -> BlockId \cup {0}]
    /\ read \in [Job -> [dev : Dev, row : Row]]
    /\ base \in [Job -> SUBSET Item]
    /\ met \subseteq Job /\ ended \subseteq Job
    /\ stuck \subseteq Job \cup Item /\ old \subseteq Job \cup Item
    /\ unmarked \subseteq Job /\ rerouted \subseteq Job
    /\ late \subseteq Item /\ cut \in BOOLEAN /\ strayed \in BOOLEAN
    /\ faults \in 0..MaxFault

\* From the moment a request has marked the device until its task saves the
\* final state, through every retry, the device shows as busy, and a request
\* of the API is refused.  Unless another device job ran at the same time, or
\* an edit or a report changed the state under the job: edits of the state and
\* rows read before the mark do that, no other save.
BusyWhileWorking ==
    \A j \in Job :
        (/\ OnTheDevice(j) /\ j \notin met \cup unmarked \cup ended
         /\ pc[j] \in {"marked", "queued"} \cup Working) => dev.state = "B0"

\* A block that some request asked to delete.
Condemned(b) == \E k \in Job : job[k].op = "delete" /\ blk[k] = b

\* An archive or a reset that got past its data statements has left none of
\* the readings it was asked for on the device: they are in the block or
\* deleted, whatever failed and was retried, and whatever was uploaded
\* meanwhile.  Unless another device job overlapped, an edit or a report
\* changed the project under the job, or the block was deleted.
WorkTaken ==
    \A j \in Job :
        (/\ job[j].op \in {"archive", "reset"} /\ j \notin met \cup rerouted
         /\ ~Condemned(blk[j])
         /\ pc[j] \in {"migrated", "completed", "cleared", "notified",
                       "finished"})
        => \A x \in base[j], p \in Project : place[x] # OnDevice(p)

\* Every reading stored for the device is under one of its StreamIds, where
\* the next archive or reset finds it.  The exceptions: overlapping jobs, a
\* move cut before it renamed the streams, uploads that a move overtook, and
\* uploads that began after an edit or a report had changed the project.
ReadingsReachable ==
    \A x \in Item, p \in Project :
        place[x] = OnDevice(p) =>
            p \in streams \/ met # {} \/ cut \/ x \in late
              \/ \E j \in Job : pc[j] \in {"moved", "shifted"}

\* The project of the device changes by the first step of a move, by an edit
\* of the project, or by a save of a row that was read before its last change:
\* no task, however often it is retried, no edit and no report puts an old
\* project back after it has read the row again.
MoveSticks ==
    [][dev'.project # dev.project =>
         \/ \E j \in Job : pc[j] = "started" /\ pc'[j] = "moved"
         \/ \E j \in Job : job[j].op = "edit" /\ job[j].all /\ pc'[j] # pc[j]
         \/ \E j \in Job \cap old : pc'[j] # pc[j]
         \/ \E x \in Item \cap old : place[x] = Uploading(dev')]_vars

\* Archived readings leave their block only in a delete task for its slug:
\* no archive, reset or move that comes later takes them along.
ArchivedStays ==
    [][\A x \in Item, b \in BlockId :
         place[x] = InBlock(b) /\ place'[x] # place[x] =>
            \E k \in Job : /\ job[k].op = "delete" /\ blk[k] = b
                           /\ pc'[k] # pc[k]]_vars

\* The device does not stay busy, unless a job left it so for good: its
\* handler died after the mark, its task ended in a hard error, or an archive
\* had an on_complete without a state.  Or a free device was made busy by an
\* edit of the state or by a row that was read while it was busy.
EventuallyFree == [](dev.state = "B0" => <>(dev.state # "B0" \/ stuck # {}))

\* What the model field says of the state (apps/physicaldevice/models.py 125:
\* "Busy when an archive or reset was scheduled"): the device is busy while
\* such a task is in the queue or executes for the first time.
BusyWhenScheduled ==
    \A j \in Job :
        (/\ job[j].op \in {"archive", "reset"} /\ j \notin ended
         /\ pc[j] \in {"queued", "started"}) => dev.state = "B0"

\* What the docstring of DeviceMoveAction says (device_move.py 23-30: "If
\* selected, update all data with new project, variable and stream slugs"):
\* a move with its data, alone on the device, leaves none of it behind.
MoveTakesData ==
    \A j \in Job :
        (job[j].op = "move" /\ job[j].all /\ j \notin met /\ pc[j] = "finished")
        => \A x \in base[j] : place[x] \in {OnDevice(job[j].dst), Gone}

\* What the form asks the user (apps/datablock/views.py 208: "Are you sure you
\* want to delete the archive with Block ID ... and title ..."): the task
\* deletes the readings of that archive and of no other.
DeletesOwnBlock ==
    [][\A j \in Job, x \in Item :
         (/\ pc[j] = "started" /\ pc'[j] = "erased"
          /\ place'[x] = Gone /\ place[x] # Gone)
         => read[j].row = job[j].row]_vars
=============================================================================

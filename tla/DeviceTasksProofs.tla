-------------------------- MODULE DeviceTasksProofs --------------------------
(***************************************************************************)
(* Proofs about DeviceTasks, for any requests, projects, readings and      *)
(* bounds.                                                                 *)
(***************************************************************************)
EXTENDS DeviceTasks, TLAPS

USE DEF outside

\* The program points at which only one of the operations can be.
OpOfPoint ==
    \A j \in Job :
        /\ pc[j] \in {"blocked", "cloned", "migrated", "completed"} =>
             job[j].op = "archive"
        /\ pc[j] = "cleared" => job[j].op = "reset"
        /\ pc[j] \in {"moved", "shifted", "renamed"} => job[j].op = "move"
        /\ pc[j] \in {"erased", "unlisted"} => job[j].op = "delete"
        /\ pc[j] = "marked" => OnTheDevice(j)

\* A task that works on a block has its id.
BlockOfPoint ==
    \A j \in Job :
        /\ job[j].op = "delete" => blk[j] \in BlockId
        /\ pc[j] \in {"blocked", "marked", "queued"} \cup Working =>
             (job[j].op = "archive" => blk[j] \in BlockId)

\* Device jobs that are under way together know it.
Alone ==
    \A j, k \in Job :
        (/\ j # k
         /\ Open(j) /\ OnTheDevice(j) /\ Open(k) /\ OnTheDevice(k)) => j \in met

\* What j holds of the project: that of the row, until a move changes it to
\* its destination.
AtRead(j) ==
    \/ pc[j] \in {"started", "cloned", "migrated", "completed", "cleared",
                  "erased", "unlisted"}
    \/ pc[j] = "notified" /\ job[j].op # "move"
AtMoved(j) ==
    \/ pc[j] \in {"moved", "shifted", "renamed"}
    \/ pc[j] = "notified" /\ job[j].op = "move"

\* What a job alone on the device, under which nobody else changes the
\* project, holds is the project of the row.
Holds(j) ==
    OnTheDevice(j) =>
        /\ ~strayed /\ pc[j] \in Handling => read[j].dev.project = dev.project
        /\ j \notin rerouted =>
              /\ AtRead(j)  => read[j].dev.project = dev.project
              /\ AtMoved(j) => dev.project = job[j].dst

RowHeld == \A j \in Job \ met : Holds(j)

\* So does everyone who has read the row since its project changed.
Known(j) ==
    /\ pc[j] \in Handling \/ AtRead(j) => read[j].dev.project = dev.project
    /\ AtMoved(j) => dev.project = job[j].dst

RowKnown ==
    /\ \A j \in Job \ old : Known(j)
    /\ \A x \in Item \ old, d \in Dev :
          place[x] = Uploading(d) => d.project = dev.project

\* Nobody changes the project under a job without straying it.
StrayInv == rerouted # {} => strayed

\* A job alone on the device, under which nobody else changes the state, finds
\* it busy in every attempt.
BusyHeld ==
    \A j \in Job \ (met \cup unmarked \cup ended) :
        OnTheDevice(j) =>
            /\ pc[j] \in {"marked", "queued"} \cup Working => dev.state = "B0"
            /\ pc[j] \in Working => read[j].dev.state = "B0"

IInv ==
    /\ TypeOK /\ OpOfPoint /\ BlockOfPoint /\ Alone
    /\ RowHeld /\ RowKnown /\ StrayInv /\ BusyHeld

\* A save of the row keeps the types.
LEMMA SaveType ==
    ASSUME TypeOK, NEW w \in Job \cup Item, NEW d \in Dev, Save(w, d)
    PROVE  dev' \in Dev /\ old' \subseteq Job \cup Item
BY DEF Save, Readers, TypeOK

LEMMA SaveOutsideType ==
    ASSUME TypeOK, NEW w \in Job \cup Item, NEW d \in Dev, SaveOutside(w, d)
    PROVE  /\ dev' \in Dev /\ old' \subseteq Job \cup Item
           /\ unmarked' \subseteq Job /\ rerouted' \subseteq Job
           /\ strayed' \in BOOLEAN /\ stuck' \subseteq Job \cup Item
<1>1. Save(w, d)
    BY DEF SaveOutside
<1>2. dev' \in Dev /\ old' \subseteq Job \cup Item
    BY <1>1, SaveType
<1>3. unmarked' \subseteq Job /\ rerouted' \subseteq Job
    BY DEF SaveOutside, TypeOK
<1>4. strayed' \in BOOLEAN
    BY DEF SaveOutside, TypeOK
<1>5. stuck' \subseteq Job \cup Item
    BY DEF SaveOutside, TypeOK
<1> QED
    BY <1>2, <1>3, <1>4, <1>5

\* Every step keeps the types.
LEMMA TypeStep == IInv /\ [Next]_vars => TypeOK'
<1> SUFFICES ASSUME IInv, [Next]_vars PROVE TypeOK'
    OBVIOUS
<1> USE DeviceAssumption DEF IInv, TypeOK, Handling, Working, Dev, Row,
   BlockId, Place, OnDevice, InBlock, Uploading, Absent, Gone
<1>1. ASSUME NEW j \in Job, NEW r \in Request, Ask(j, r) PROVE TypeOK'
    <2>1. /\ r.op \in {"archive", "reset", "move", "delete", "edit"}
          /\ r.after \in {"N", "B0", "keep"}
          /\ r.all \in BOOLEAN /\ r.dst \in Project
          /\ r.blk \in BlockId \cup {0}
          /\ r.op = "delete" => r.blk \in BlockId
        BY DEF Request
    <2>2. (IF r.op = "delete" THEN row[r.blk] ELSE NoRow) \in Row
        BY <2>1
    <2>3. job' \in [Job -> [op : {"none", "archive", "reset", "move", "delete",
                              "edit"},
                        after : {"N", "B0", "keep"}, all : BOOLEAN,
                        dst : Project, row : Row]]
        BY <1>1, <2>1, <2>2 DEF Ask
    <2>4. /\ blk' \in [Job -> BlockId \cup {0}]
          /\ read' \in [Job -> [dev : Dev, row : Row]]
          /\ pc' \in [Job -> {"idle", "queued", "over"} \cup Handling
                                \cup Working]
          /\ met' \subseteq Job
        BY <1>1, <2>1 DEF Ask, Goto
    <2> QED
        BY <1>1, <2>3, <2>4 DEF Ask
<1>2. ASSUME NEW j \in Job, CreateBlock(j) PROVE TypeOK'
    BY <1>2 DEF CreateBlock, Goto, IsNewBlockId
<1>3. ASSUME NEW j \in Job, MarkBusy(j) PROVE TypeOK'
    <2>1. [read[j].dev EXCEPT !.state = "B0"] \in Dev
        OBVIOUS
    <2>2. dev' \in Dev /\ old' \subseteq Job \cup Item
        BY <1>3, <2>1, SaveType DEF MarkBusy
    <2> QED
        BY <1>3, <2>2 DEF MarkBusy, Goto, InScope
<1>4. ASSUME NEW j \in Job, Send(j) PROVE TypeOK'
    BY <1>4 DEF Send, Goto
<1>5. ASSUME NEW j \in Job, Die(j) PROVE TypeOK'
    BY <1>5 DEF Die, Goto
<1>6. ASSUME NEW j \in Job, Start(j) PROVE TypeOK'
    BY <1>6 DEF Start, Goto
<1>7. ASSUME NEW j \in Job, HardError(j) PROVE TypeOK'
    BY <1>7 DEF HardError, Goto
<1>8. ASSUME NEW j \in Job, Clone(j) PROVE TypeOK'
    BY <1>8, ZenonT(60) DEF Clone, Goto, HasRow, BlockOfPoint
<1>9. ASSUME NEW j \in Job, Migrate(j) PROVE TypeOK'
    BY <1>9 DEF Migrate, Goto, Rewrite, HasRow
<1>10. ASSUME NEW j \in Job, Complete(j) PROVE TypeOK'
    <2>1. blk[j] \in BlockId /\ read[j].row \in Row
        BY <1>10 DEF Complete, OpOfPoint, BlockOfPoint
    <2>2. row' \in [BlockId -> Row] /\ complete' \subseteq BlockId
        BY <1>10, <2>1 DEF Complete
    <2>3. pc' \in [Job -> {"idle", "queued", "over"} \cup Handling
                            \cup Working]
        BY <1>10 DEF Complete, Goto
    <2> QED
        BY <1>10, <2>2, <2>3 DEF Complete
<1>11. ASSUME NEW j \in Job, Clear(j) PROVE TypeOK'
    BY <1>11 DEF Clear, Goto, Rewrite
<1>12. ASSUME NEW j \in Job, MoveRow(j) PROVE TypeOK'
    <2>1. [read[j].dev EXCEPT !.project = job[j].dst] \in Dev
        OBVIOUS
    <2>2. dev' \in Dev /\ old' \subseteq Job \cup Item
        BY <1>12, <2>1, SaveType DEF MoveRow
    <2> QED
        BY <1>12, <2>2 DEF MoveRow, Goto
<1>13. ASSUME NEW j \in Job, Shift(j) PROVE TypeOK'
    BY <1>13 DEF Shift, Goto, Rewrite
<1>14. ASSUME NEW j \in Job, Rename(j) PROVE TypeOK'
    BY <1>14 DEF Rename, Goto
<1>15. ASSUME NEW j \in Job, Erase(j) PROVE TypeOK'
    BY <1>15 DEF Erase, Goto, Rewrite, Erased, HasRow
<1>16. ASSUME NEW j \in Job, Unlist(j) PROVE TypeOK'
    BY <1>16 DEF Unlist, Goto, Rewrite, Erased, HasRow
<1>17. ASSUME NEW j \in Job, Notify(j) PROVE TypeOK'
    BY <1>17 DEF Notify, Goto
<1>18. ASSUME NEW j \in Job, Finish(j) PROVE TypeOK'
    <2> DEFINE d == IF OnTheDevice(j)
                    THEN [Held(j) EXCEPT !.state =
                            IF job[j].after = "keep" THEN @ ELSE job[j].after]
                    ELSE dev
    <2>1. d \in Dev
        BY DEF Held
    <2>2. dev' \in Dev /\ old' \subseteq Job \cup Item
        BY <1>18, <2>1, SaveType DEF Finish
    <2> QED
        BY <1>18, <2>2 DEF Finish, Goto
<1>19. ASSUME NEW j \in Job, Ack(j) PROVE TypeOK'
    BY <1>19 DEF Ack, Goto
<1>20. ASSUME NEW j \in Job, Retry(j) PROVE TypeOK'
    BY <1>20 DEF Retry, Goto, Refused, HasRow
<1>21. ASSUME NEW x \in Item, BeginUpload(x) PROVE TypeOK'
    BY <1>21 DEF BeginUpload
<1>22. ASSUME NEW x \in Item, EndUpload(x) PROVE TypeOK'
    BY <1>22 DEF EndUpload
<1>24. ASSUME NEW j \in Job, SaveEdit(j) PROVE TypeOK'
    <2>1. Edited(j) \in Dev
        BY DEF Edited
    <2>2. SaveOutside(j, Edited(j))
        BY <1>24 DEF SaveEdit
    <2>3. /\ dev' \in Dev /\ old' \subseteq Job \cup Item
          /\ unmarked' \subseteq Job /\ rerouted' \subseteq Job
          /\ strayed' \in BOOLEAN /\ stuck' \subseteq Job \cup Item
        BY <2>1, <2>2, SaveOutsideType
    <2> QED
        BY <1>24, <2>3 DEF SaveEdit, Goto
<1>25. ASSUME NEW x \in Item, SaveUpload(x) PROVE TypeOK'
    <2>1. PICK d \in Dev : SaveOutside(x, d)
        BY <1>25 DEF SaveUpload
    <2>2. /\ dev' \in Dev /\ old' \subseteq Job \cup Item
          /\ unmarked' \subseteq Job /\ rerouted' \subseteq Job
          /\ strayed' \in BOOLEAN /\ stuck' \subseteq Job \cup Item
        BY <2>1, SaveOutsideType
    <2> QED
        BY <1>25, <2>2 DEF SaveUpload
<1>23. CASE UNCHANGED vars
    BY <1>23 DEF vars
<1> QED
    BY <1>1, <1>2, <1>3, <1>4, <1>5, <1>6, <1>7, <1>8, <1>9, <1>10, <1>11,
       <1>12, <1>13, <1>14, <1>15, <1>16, <1>17, <1>18, <1>19, <1>20, <1>21,
       <1>22, <1>23, <1>24, <1>25 DEF Next, Handler, Execute, Archive, Reset, Move,
       Delete, Upload

\* Every step keeps the program points of the operations apart.
LEMMA OpStep == IInv /\ [Next]_vars => OpOfPoint'
<1> SUFFICES ASSUME IInv, [Next]_vars PROVE OpOfPoint'
    OBVIOUS
<1> USE DeviceAssumption DEF IInv, TypeOK, Handling, Working, OpOfPoint,
   OnTheDevice
<1>1. ASSUME NEW j \in Job, NEW r \in Request, Ask(j, r) PROVE OpOfPoint'
    BY <1>1 DEF Ask, Goto, Request
<1>2. ASSUME NEW j \in Job, CreateBlock(j) PROVE OpOfPoint'
    BY <1>2 DEF CreateBlock, Goto, IsNewBlockId
<1>3. ASSUME NEW j \in Job, MarkBusy(j) PROVE OpOfPoint'
    BY <1>3 DEF MarkBusy, Save, Goto, InScope
<1>4. ASSUME NEW j \in Job, Send(j) PROVE OpOfPoint'
    BY <1>4 DEF Send, Goto
<1>5. ASSUME NEW j \in Job, Die(j) PROVE OpOfPoint'
    BY <1>5 DEF Die, Goto
<1>6. ASSUME NEW j \in Job, Start(j) PROVE OpOfPoint'
    BY <1>6 DEF Start, Goto
<1>7. ASSUME NEW j \in Job, HardError(j) PROVE OpOfPoint'
    BY <1>7 DEF HardError, Goto
<1>8. ASSUME NEW j \in Job, Clone(j) PROVE OpOfPoint'
    BY <1>8 DEF Clone, Goto, HasRow
<1>9. ASSUME NEW j \in Job, Migrate(j) PROVE OpOfPoint'
    BY <1>9 DEF Migrate, Goto, Rewrite, HasRow
<1>10. ASSUME NEW j \in Job, Complete(j) PROVE OpOfPoint'
    BY <1>10 DEF Complete, Goto
<1>11. ASSUME NEW j \in Job, Clear(j) PROVE OpOfPoint'
    BY <1>11 DEF Clear, Goto, Rewrite
<1>12. ASSUME NEW j \in Job, MoveRow(j) PROVE OpOfPoint'
    BY <1>12 DEF MoveRow, Save, Goto
<1>13. ASSUME NEW j \in Job, Shift(j) PROVE OpOfPoint'
    BY <1>13 DEF Shift, Goto, Rewrite
<1>14. ASSUME NEW j \in Job, Rename(j) PROVE OpOfPoint'
    BY <1>14 DEF Rename, Goto
<1>15. ASSUME NEW j \in Job, Erase(j) PROVE OpOfPoint'
    BY <1>15 DEF Erase, Goto, Rewrite, Erased, HasRow
<1>16. ASSUME NEW j \in Job, Unlist(j) PROVE OpOfPoint'
    BY <1>16 DEF Unlist, Goto, Rewrite, Erased, HasRow
<1>17. ASSUME NEW j \in Job, Notify(j) PROVE OpOfPoint'
    BY <1>17 DEF Notify, Goto
<1>18. ASSUME NEW j \in Job, Finish(j) PROVE OpOfPoint'
    BY <1>18 DEF Finish, Save, Goto, Held
<1>19. ASSUME NEW j \in Job, Ack(j) PROVE OpOfPoint'
    BY <1>19 DEF Ack, Goto
<1>20. ASSUME NEW j \in Job, Retry(j) PROVE OpOfPoint'
    BY <1>20 DEF Retry, Goto, Refused, HasRow
<1>21. ASSUME NEW x \in Item, BeginUpload(x) PROVE OpOfPoint'
    BY <1>21 DEF BeginUpload
<1>22. ASSUME NEW x \in Item, EndUpload(x) PROVE OpOfPoint'
    BY <1>22 DEF EndUpload
<1>24. ASSUME NEW j \in Job, SaveEdit(j) PROVE OpOfPoint'
    BY <1>24 DEF SaveEdit, SaveOutside, Save, Goto
<1>25. ASSUME NEW x \in Item, SaveUpload(x) PROVE OpOfPoint'
    BY <1>25 DEF SaveUpload, SaveOutside, Save
<1>23. CASE UNCHANGED vars
    BY <1>23 DEF vars
<1> QED
    BY <1>1, <1>2, <1>3, <1>4, <1>5, <1>6, <1>7, <1>8, <1>9, <1>10, <1>11,
       <1>12, <1>13, <1>14, <1>15, <1>16, <1>17, <1>18, <1>19, <1>20, <1>21,
       <1>22, <1>23, <1>24, <1>25 DEF Next, Handler, Execute, Archive, Reset, Move,
       Delete, Upload

\* Every step keeps the block ids of the tasks.
LEMMA BlockStep == IInv /\ [Next]_vars => BlockOfPoint'
<1> SUFFICES ASSUME IInv, [Next]_vars PROVE BlockOfPoint'
    OBVIOUS
<1> USE DeviceAssumption DEF IInv, TypeOK, Handling, Working, OpOfPoint,
   BlockOfPoint, OnTheDevice
<1>1. ASSUME NEW j \in Job, NEW r \in Request, Ask(j, r) PROVE BlockOfPoint'
    <2>1. /\ job' = [job EXCEPT ![j] = job'[j]] /\ job'[j].op = r.op
          /\ blk' = [blk EXCEPT ![j] = r.blk]
          /\ pc' = [pc EXCEPT ![j] = "asked"]
        BY <1>1 DEF Ask, Goto
    <2>2. r.op = "delete" => r.blk \in BlockId
        BY DEF Request
    <2> QED
        BY <2>1, <2>2
<1>2. ASSUME NEW j \in Job, CreateBlock(j) PROVE BlockOfPoint'
    BY <1>2 DEF CreateBlock, Goto, IsNewBlockId
<1>3. ASSUME NEW j \in Job, MarkBusy(j) PROVE BlockOfPoint'
    BY <1>3 DEF MarkBusy, Save, Goto, InScope
<1>4. ASSUME NEW j \in Job, Send(j) PROVE BlockOfPoint'
    BY <1>4 DEF Send, Goto
<1>5. ASSUME NEW j \in Job, Die(j) PROVE BlockOfPoint'
    BY <1>5 DEF Die, Goto
<1>6. ASSUME NEW j \in Job, Start(j) PROVE BlockOfPoint'
    BY <1>6 DEF Start, Goto
<1>7. ASSUME NEW j \in Job, HardError(j) PROVE BlockOfPoint'
    BY <1>7 DEF HardError, Goto
<1>8. ASSUME NEW j \in Job, Clone(j) PROVE BlockOfPoint'
    BY <1>8 DEF Clone, Goto, HasRow
<1>9. ASSUME NEW j \in Job, Migrate(j) PROVE BlockOfPoint'
    BY <1>9 DEF Migrate, Goto, Rewrite, HasRow
<1>10. ASSUME NEW j \in Job, Complete(j) PROVE BlockOfPoint'
    BY <1>10 DEF Complete, Goto
<1>11. ASSUME NEW j \in Job, Clear(j) PROVE BlockOfPoint'
    BY <1>11 DEF Clear, Goto, Rewrite
<1>12. ASSUME NEW j \in Job, MoveRow(j) PROVE BlockOfPoint'
    BY <1>12 DEF MoveRow, Save, Goto
<1>13. ASSUME NEW j \in Job, Shift(j) PROVE BlockOfPoint'
    BY <1>13 DEF Shift, Goto, Rewrite
<1>14. ASSUME NEW j \in Job, Rename(j) PROVE BlockOfPoint'
    BY <1>14 DEF Rename, Goto
<1>15. ASSUME NEW j \in Job, Erase(j) PROVE BlockOfPoint'
    BY <1>15 DEF Erase, Goto, Rewrite, Erased, HasRow
<1>16. ASSUME NEW j \in Job, Unlist(j) PROVE BlockOfPoint'
    BY <1>16 DEF Unlist, Goto, Rewrite, Erased, HasRow
<1>17. ASSUME NEW j \in Job, Notify(j) PROVE BlockOfPoint'
    BY <1>17 DEF Notify, Goto
<1>18. ASSUME NEW j \in Job, Finish(j) PROVE BlockOfPoint'
    BY <1>18 DEF Finish, Save, Goto, Held
<1>19. ASSUME NEW j \in Job, Ack(j) PROVE BlockOfPoint'
    BY <1>19 DEF Ack, Goto
<1>20. ASSUME NEW j \in Job, Retry(j) PROVE BlockOfPoint'
    BY <1>20 DEF Retry, Goto, Refused, HasRow
<1>21. ASSUME NEW x \in Item, BeginUpload(x) PROVE BlockOfPoint'
    BY <1>21 DEF BeginUpload
<1>22. ASSUME NEW x \in Item, EndUpload(x) PROVE BlockOfPoint'
    BY <1>22 DEF EndUpload
<1>24. ASSUME NEW j \in Job, SaveEdit(j) PROVE BlockOfPoint'
    BY <1>24 DEF SaveEdit, SaveOutside, Save, Goto
<1>25. ASSUME NEW x \in Item, SaveUpload(x) PROVE BlockOfPoint'
    BY <1>25 DEF SaveUpload, SaveOutside, Save
<1>23. CASE UNCHANGED vars
    BY <1>23 DEF vars
<1> QED
    BY <1>1, <1>2, <1>3, <1>4, <1>5, <1>6, <1>7, <1>8, <1>9, <1>10, <1>11,
       <1>12, <1>13, <1>14, <1>15, <1>16, <1>17, <1>18, <1>19, <1>20, <1>21,
       <1>22, <1>23, <1>24, <1>25 DEF Next, Handler, Execute, Archive, Reset, Move,
       Delete, Upload

\* Every step keeps account of the device jobs that overlap.
LEMMA AloneStep == IInv /\ [Next]_vars => Alone'
<1> SUFFICES ASSUME IInv, [Next]_vars PROVE Alone'
    OBVIOUS
<1> USE DeviceAssumption DEF IInv, TypeOK, Handling, Working, Alone, Open,
   OnTheDevice
<1>1. ASSUME NEW j \in Job, NEW r \in Request, Ask(j, r) PROVE Alone'
    BY <1>1 DEF Ask, Goto, Request
<1>2. ASSUME NEW j \in Job, CreateBlock(j) PROVE Alone'
    BY <1>2 DEF CreateBlock, Goto, IsNewBlockId
<1>3. ASSUME NEW j \in Job, MarkBusy(j) PROVE Alone'
    BY <1>3 DEF MarkBusy, Save, Goto, InScope
<1>4. ASSUME NEW j \in Job, Send(j) PROVE Alone'
    BY <1>4 DEF Send, Goto
<1>5. ASSUME NEW j \in Job, Die(j) PROVE Alone'
    BY <1>5 DEF Die, Goto
<1>6. ASSUME NEW j \in Job, Start(j) PROVE Alone'
    BY <1>6 DEF Start, Goto
<1>7. ASSUME NEW j \in Job, HardError(j) PROVE Alone'
    BY <1>7 DEF HardError, Goto
<1>8. ASSUME NEW j \in Job, Clone(j) PROVE Alone'
    BY <1>8 DEF Clone, Goto, HasRow
<1>9. ASSUME NEW j \in Job, Migrate(j) PROVE Alone'
    BY <1>9 DEF Migrate, Goto, Rewrite, HasRow
<1>10. ASSUME NEW j \in Job, Complete(j) PROVE Alone'
    BY <1>10 DEF Complete, Goto
<1>11. ASSUME NEW j \in Job, Clear(j) PROVE Alone'
    BY <1>11 DEF Clear, Goto, Rewrite
<1>12. ASSUME NEW j \in Job, MoveRow(j) PROVE Alone'
    BY <1>12 DEF MoveRow, Save, Goto
<1>13. ASSUME NEW j \in Job, Shift(j) PROVE Alone'
    BY <1>13 DEF Shift, Goto, Rewrite
<1>14. ASSUME NEW j \in Job, Rename(j) PROVE Alone'
    BY <1>14 DEF Rename, Goto
<1>15. ASSUME NEW j \in Job, Erase(j) PROVE Alone'
    BY <1>15 DEF Erase, Goto, Rewrite, Erased, HasRow
<1>16. ASSUME NEW j \in Job, Unlist(j) PROVE Alone'
    BY <1>16 DEF Unlist, Goto, Rewrite, Erased, HasRow
<1>17. ASSUME NEW j \in Job, Notify(j) PROVE Alone'
    BY <1>17 DEF Notify, Goto
<1>18. ASSUME NEW j \in Job, Finish(j) PROVE Alone'
    BY <1>18 DEF Finish, Save, Goto, Held
<1>19. ASSUME NEW j \in Job, Ack(j) PROVE Alone'
    BY <1>19 DEF Ack, Goto
<1>20. ASSUME NEW j \in Job, Retry(j) PROVE Alone'
    BY <1>20 DEF Retry, Goto, Refused, HasRow
<1>21. ASSUME NEW x \in Item, BeginUpload(x) PROVE Alone'
    BY <1>21 DEF BeginUpload
<1>22. ASSUME NEW x \in Item, EndUpload(x) PROVE Alone'
    BY <1>22 DEF EndUpload
<1>24. ASSUME NEW j \in Job, SaveEdit(j) PROVE Alone'
    BY <1>24 DEF SaveEdit, SaveOutside, Save, Goto
<1>25. ASSUME NEW x \in Item, SaveUpload(x) PROVE Alone'
    BY <1>25 DEF SaveUpload, SaveOutside, Save
<1>23. CASE UNCHANGED vars
    BY <1>23 DEF vars
<1> QED
    BY <1>1, <1>2, <1>3, <1>4, <1>5, <1>6, <1>7, <1>8, <1>9, <1>10, <1>11,
       <1>12, <1>13, <1>14, <1>15, <1>16, <1>17, <1>18, <1>19, <1>20, <1>21,
       <1>22, <1>23, <1>24, <1>25 DEF Next, Handler, Execute, Archive, Reset, Move,
       Delete, Upload

\* Two jobs that are open on the device have met.
LEMMA TwoMeet ==
    ASSUME Alone, NEW j \in Job, NEW k \in Job, k # j,
           Open(j), Open(k), OnTheDevice(j), OnTheDevice(k)
    PROVE  k \in met
BY DEF Alone

\* What a save from outside leaves a job with.
LEMMA HoldsOutside ==
    ASSUME IInv, NEW w, NEW d, SaveOutside(w, d), NEW k \in Job \ met,
           job' = job, read' = read, OnTheDevice(k) => pc'[k] = pc[k]
    PROVE  Holds(k)'
<1> SUFFICES ASSUME OnTheDevice(k) PROVE Holds(k)'
    BY DEF Holds, OnTheDevice
<1>1. Holds(k) /\ pc'[k] = pc[k]
    BY DEF IInv, RowHeld
<1>2. CASE d.project = dev.project
    <2>1. dev'.project = dev.project /\ rerouted' = rerouted /\ strayed' = strayed
        BY <1>2 DEF SaveOutside, Save, IInv, TypeOK
    <2> QED
        BY <1>1, <2>1 DEF Holds, AtRead, AtMoved, OnTheDevice
<1>3. CASE d.project # dev.project
    <2>1. strayed'
        BY <1>3 DEF SaveOutside
    <2>2. AtRead(k) \/ AtMoved(k) => k \in rerouted'
        BY <1>3 DEF SaveOutside, AtRead, AtMoved, Working, OnTheDevice
    <2> QED
        BY <1>1, <2>1, <2>2 DEF Holds, AtRead, AtMoved, OnTheDevice
<1> QED
    BY <1>2, <1>3

\* Every step keeps the project in the memory of a job that is alone.
LEMMA RowStep == IInv /\ [Next]_vars => RowHeld'
<1> SUFFICES ASSUME IInv, [Next]_vars PROVE RowHeld'
    OBVIOUS
<1> USE DeviceAssumption DEF IInv, TypeOK, Handling, Working, Dev,
   OpOfPoint, Alone, Open, OnTheDevice, RowHeld, Holds, AtRead, AtMoved, StrayInv
<1>1. ASSUME NEW j \in Job, NEW r \in Request, Ask(j, r) PROVE RowHeld'
    BY <1>1 DEF Ask, Goto, Request
<1>2. ASSUME NEW j \in Job, CreateBlock(j) PROVE RowHeld'
    BY <1>2 DEF CreateBlock, Goto
<1>3. ASSUME NEW j \in Job, MarkBusy(j) PROVE RowHeld'
    <2>1. /\ OnTheDevice(j) /\ Open(j) /\ pc' = [pc EXCEPT ![j] = "marked"]
          /\ job' = job /\ met' = met /\ read' = read /\ UNCHANGED outside
        BY <1>3 DEF MarkBusy, Goto
    <2>2. ASSUME NEW k \in Job \ met', k # j PROVE ~OnTheDevice(k)' \/ ~Open(k)'
        BY <2>1, <2>2, TwoMeet
    <2>3. ASSUME NEW k \in Job \ met', k # j
          PROVE  Holds(k)'
        BY <2>2, <2>3
    <2>4. j \notin met => Holds(j)'
        BY <1>3, <2>1 DEF MarkBusy, Save
    <2> QED
        BY <2>1, <2>3, <2>4 DEF RowHeld
<1>4. ASSUME NEW j \in Job, Send(j) PROVE RowHeld'
    BY <1>4 DEF Send, Goto
<1>5. ASSUME NEW j \in Job, Die(j) PROVE RowHeld'
    BY <1>5 DEF Die, Goto
<1>6. ASSUME NEW j \in Job, Start(j) PROVE RowHeld'
    BY <1>6 DEF Start, Goto
<1>7. ASSUME NEW j \in Job, HardError(j) PROVE RowHeld'
    BY <1>7 DEF HardError, Goto
<1>8. ASSUME NEW j \in Job, Clone(j) PROVE RowHeld'
    BY <1>8 DEF Clone, Goto
<1>9. ASSUME NEW j \in Job, Migrate(j) PROVE RowHeld'
    BY <1>9 DEF Migrate, Goto
<1>10. ASSUME NEW j \in Job, Complete(j) PROVE RowHeld'
    BY <1>10 DEF Complete, Goto
<1>11. ASSUME NEW j \in Job, Clear(j) PROVE RowHeld'
    BY <1>11 DEF Clear, Goto
<1>12. ASSUME NEW j \in Job, MoveRow(j) PROVE RowHeld'
    <2>1. /\ OnTheDevice(j) /\ Open(j) /\ pc' = [pc EXCEPT ![j] = "moved"]
          /\ job' = job /\ met' = met /\ read' = read /\ UNCHANGED outside
        BY <1>12 DEF MoveRow, Goto
    <2>2. ASSUME NEW k \in Job \ met', k # j PROVE ~OnTheDevice(k)' \/ ~Open(k)'
        BY <2>1, <2>2, TwoMeet
    <2>3. ASSUME NEW k \in Job \ met', k # j
          PROVE  Holds(k)'
        BY <2>2, <2>3
    <2>4. j \notin met => Holds(j)'
        BY <1>12, <2>1 DEF MoveRow, Save
    <2> QED
        BY <2>1, <2>3, <2>4 DEF RowHeld
<1>13. ASSUME NEW j \in Job, Shift(j) PROVE RowHeld'
    BY <1>13 DEF Shift, Goto
<1>14. ASSUME NEW j \in Job, Rename(j) PROVE RowHeld'
    BY <1>14 DEF Rename, Goto
<1>15. ASSUME NEW j \in Job, Erase(j) PROVE RowHeld'
    BY <1>15 DEF Erase, Goto
<1>16. ASSUME NEW j \in Job, Unlist(j) PROVE RowHeld'
    BY <1>16 DEF Unlist, Goto
<1>17. ASSUME NEW j \in Job, Notify(j) PROVE RowHeld'
    BY <1>17 DEF Notify, Goto
<1>18. ASSUME NEW j \in Job, Finish(j) PROVE RowHeld'
    <2>1. /\ pc[j] = "notified" /\ pc' = [pc EXCEPT ![j] = "finished"]
          /\ job' = job /\ met' = met /\ read' = read /\ UNCHANGED outside
          /\ ~OnTheDevice(j) => dev' = dev
        BY <1>18 DEF Finish, Save, Goto
    <2>2. CASE ~OnTheDevice(j)
        BY <2>1, <2>2
    <2>3. CASE OnTheDevice(j)
        <3>1. ASSUME NEW k \in Job \ met', k # j PROVE ~OnTheDevice(k)' \/ ~Open(k)'
            BY SMTT(30), <2>1, <2>3, <3>1, TwoMeet
        <3>2. ASSUME NEW k \in Job \ met', k # j PROVE Holds(k)'
            BY <3>1, <3>2
        <3>3. Holds(j)'
            BY <2>1
        <3> QED
            BY <3>2, <3>3
    <2> QED
        BY <2>2, <2>3
<1>19. ASSUME NEW j \in Job, Ack(j) PROVE RowHeld'
    BY <1>19 DEF Ack, Goto
<1>20. ASSUME NEW j \in Job, Retry(j) PROVE RowHeld'
    BY <1>20 DEF Retry, Goto
<1>21. ASSUME NEW x \in Item, BeginUpload(x) PROVE RowHeld'
    BY <1>21 DEF BeginUpload
<1>22. ASSUME NEW x \in Item, EndUpload(x) PROVE RowHeld'
    BY <1>22 DEF EndUpload
<1>24. ASSUME NEW j \in Job, SaveEdit(j) PROVE RowHeld'
    <2>1. /\ pc' = [pc EXCEPT ![j] = "over"] /\ job' = job /\ met' = met
          /\ read' = read /\ ~OnTheDevice(j)
        BY <1>24 DEF SaveEdit, Goto
    <2>2. SaveOutside(j, Edited(j))
        BY <1>24 DEF SaveEdit
    <2>3. \A k \in Job : OnTheDevice(k) => k # j /\ pc'[k] = pc[k]
        BY <2>1
    <2> QED
        BY <2>1, <2>2, <2>3, HoldsOutside, SMTT(30)
<1>25. ASSUME NEW x \in Item, SaveUpload(x) PROVE RowHeld'
    <2>1. /\ pc' = pc /\ job' = job /\ met' = met /\ read' = read
        BY <1>25 DEF SaveUpload
    <2>2. PICK d \in Dev : SaveOutside(x, d)
        BY <1>25 DEF SaveUpload
    <2> QED
        BY <2>1, <2>2, HoldsOutside, SMTT(30)
<1>23. CASE UNCHANGED vars
    BY <1>23 DEF vars
<1> QED
    BY <1>1, <1>2, <1>3, <1>4, <1>5, <1>6, <1>7, <1>8, <1>9, <1>10, <1>11,
       <1>12, <1>13, <1>14, <1>15, <1>16, <1>17, <1>18, <1>19, <1>20, <1>21,
       <1>22, <1>23, <1>24, <1>25 DEF Next, Handler, Execute, Archive, Reset,
       Move, Delete, Upload

\* A change of the project leaves everyone else with an old row.
LEMMA KnownStep == IInv /\ [Next]_vars => RowKnown'
<1> SUFFICES ASSUME IInv, [Next]_vars PROVE RowKnown'
    OBVIOUS
<1> USE DeviceAssumption DEF IInv, TypeOK, Handling, Working, Dev,
   OpOfPoint, Open, OnTheDevice, RowKnown, Known, AtRead, AtMoved
<1>1. ASSUME NEW j \in Job, NEW r \in Request, Ask(j, r) PROVE RowKnown'
    BY <1>1 DEF Ask, Goto, Request
<1>2. ASSUME NEW j \in Job, CreateBlock(j) PROVE RowKnown'
    BY <1>2 DEF CreateBlock, Goto
<1>3. ASSUME NEW j \in Job, MarkBusy(j) PROVE RowKnown'
    BY <1>3 DEF MarkBusy, Save, Readers, Goto
<1>4. ASSUME NEW j \in Job, Send(j) PROVE RowKnown'
    BY <1>4 DEF Send, Goto
<1>5. ASSUME NEW j \in Job, Die(j) PROVE RowKnown'
    BY <1>5 DEF Die, Goto
<1>6. ASSUME NEW j \in Job, Start(j) PROVE RowKnown'
    BY <1>6 DEF Start, Goto
<1>7. ASSUME NEW j \in Job, HardError(j) PROVE RowKnown'
    BY <1>7 DEF HardError, Goto
<1>8. ASSUME NEW j \in Job, Clone(j) PROVE RowKnown'
    BY <1>8 DEF Clone, Goto
<1>9. ASSUME NEW j \in Job, Migrate(j) PROVE RowKnown'
    <2>1. \A x \in Item, d \in Dev : place'[x] = Uploading(d) => place[x] = Uploading(d)
        BY <1>9 DEF Migrate, Rewrite, OnDevice, InBlock, Uploading
    <2> QED
        BY <1>9, <2>1 DEF Migrate, Goto
<1>10. ASSUME NEW j \in Job, Complete(j) PROVE RowKnown'
    BY <1>10 DEF Complete, Goto
<1>11. ASSUME NEW j \in Job, Clear(j) PROVE RowKnown'
    <2>1. \A x \in Item, d \in Dev : place'[x] = Uploading(d) => place[x] = Uploading(d)
        BY <1>11 DEF Clear, Rewrite, OnDevice, Gone, Uploading
    <2> QED
        BY <1>11, <2>1 DEF Clear, Goto
<1>12. ASSUME NEW j \in Job, MoveRow(j) PROVE RowKnown'
    BY <1>12 DEF MoveRow, Save, Readers, Goto
<1>13. ASSUME NEW j \in Job, Shift(j) PROVE RowKnown'
    <2>1. \A x \in Item, d \in Dev : place'[x] = Uploading(d) => place[x] = Uploading(d)
        BY <1>13 DEF Shift, Rewrite, OnDevice, Uploading
    <2> QED
        BY <1>13, <2>1 DEF Shift, Goto
<1>14. ASSUME NEW j \in Job, Rename(j) PROVE RowKnown'
    BY <1>14 DEF Rename, Goto
<1>15. ASSUME NEW j \in Job, Erase(j) PROVE RowKnown'
    <2>1. \A x \in Item, d \in Dev : place'[x] = Uploading(d) => place[x] = Uploading(d)
        BY <1>15 DEF Erase, Rewrite, Gone, Uploading
    <2> QED
        BY <1>15, <2>1 DEF Erase, Goto
<1>16. ASSUME NEW j \in Job, Unlist(j) PROVE RowKnown'
    <2>1. \A x \in Item, d \in Dev : place'[x] = Uploading(d) => place[x] = Uploading(d)
        BY <1>16 DEF Unlist, Rewrite, Gone, Uploading
    <2> QED
        BY <1>16, <2>1 DEF Unlist, Goto
<1>17. ASSUME NEW j \in Job, Notify(j) PROVE RowKnown'
    BY <1>17 DEF Notify, Goto
<1>18. ASSUME NEW j \in Job, Finish(j) PROVE RowKnown'
    BY <1>18 DEF Finish, Save, Readers, Goto, Held
<1>19. ASSUME NEW j \in Job, Ack(j) PROVE RowKnown'
    BY <1>19 DEF Ack, Goto
<1>20. ASSUME NEW j \in Job, Retry(j) PROVE RowKnown'
    BY <1>20 DEF Retry, Goto
<1>21. ASSUME NEW x \in Item, BeginUpload(x) PROVE RowKnown'
    <2>1. /\ place' = [place EXCEPT ![x] = Uploading(dev)]
          /\ old' = old \ {x} /\ UNCHANGED <<dev, pc, job, read>>
        BY <1>21 DEF BeginUpload
    <2>2. x \notin Job
        BY DeviceAssumption
    <2>3. \A d \in Dev : Uploading(dev) = Uploading(d) => d = dev
        BY DEF Uploading
    <2> QED
        BY <2>1, <2>2, <2>3
<1>22. ASSUME NEW x \in Item, EndUpload(x) PROVE RowKnown'
    <2>1. PICK d \in Dev : place' = [place EXCEPT ![x] = OnDevice(d.project)]
        BY <1>22 DEF EndUpload
    <2>2. \A e \in Dev : OnDevice(d.project) # Uploading(e)
        BY DEF OnDevice, Uploading
    <2>3. UNCHANGED <<dev, pc, job, read, old>>
        BY <1>22 DEF EndUpload
    <2> QED
        BY <2>1, <2>2, <2>3
<1>24. ASSUME NEW j \in Job, SaveEdit(j) PROVE RowKnown'
    BY <1>24 DEF SaveEdit, SaveOutside, Save, Readers, Goto, Edited
<1>25. ASSUME NEW x \in Item, SaveUpload(x) PROVE RowKnown'
    <2>1. PICK d \in Dev : place[x] = Uploading(d) /\ SaveOutside(x, d)
        BY <1>25 DEF SaveUpload
    <2>2. UNCHANGED <<place, pc, job, read>>
        BY <1>25 DEF SaveUpload
    <2>3. CASE d.project = dev.project
        <3>1. dev'.project = dev.project /\ old' = old
            BY <2>1, <2>3 DEF SaveOutside, Save
        <3> QED
            BY <2>2, <3>1
    <2>4. CASE d.project # dev.project
        <3>1. dev' = d /\ old' = Readers \ {x}
            BY <2>1, <2>4 DEF SaveOutside, Save
        <3>2. \A e \in Dev : place[x] = Uploading(e) => e = d
            BY <2>1 DEF Uploading
        <3>3. ASSUME NEW k \in Job \ old' PROVE ~Open(k)
            BY <3>1, <3>3, DeviceAssumption DEF Readers
        <3>4. ASSUME NEW y \in Item \ old', NEW e \in Dev, place[y] = Uploading(e)
              PROVE  y = x
            BY <3>1, <3>4, DeviceAssumption DEF Readers
        <3>5. \A k \in Job \ old' : Known(k)'
            BY <2>2, <3>3
        <3>6. ASSUME NEW y \in Item \ old', NEW e \in Dev, place'[y] = Uploading(e)
              PROVE  e.project = dev'.project
            BY <2>2, <3>1, <3>2, <3>4, <3>6
        <3> QED
            BY <3>5, <3>6 DEF RowKnown
    <2> QED
        BY <2>3, <2>4
<1>23. CASE UNCHANGED vars
    BY <1>23 DEF vars
<1> QED
    BY <1>1, <1>2, <1>3, <1>4, <1>5, <1>6, <1>7, <1>8, <1>9, <1>10, <1>11,
       <1>12, <1>13, <1>14, <1>15, <1>16, <1>17, <1>18, <1>19, <1>20, <1>21,
       <1>22, <1>23, <1>24, <1>25 DEF Next, Handler, Execute, Archive, Reset,
       Move, Delete, Upload

\* Every step that reroutes a job strays.
LEMMA StrayStep == IInv /\ [Next]_vars => StrayInv'
<1> SUFFICES ASSUME IInv, [Next]_vars PROVE StrayInv'
    OBVIOUS
<1>1. ASSUME NEW w, NEW d, SaveOutside(w, d) PROVE StrayInv'
    BY <1>1 DEF SaveOutside, IInv, StrayInv
<1>2. ASSUME UNCHANGED <<rerouted, strayed>> PROVE StrayInv'
    BY <1>2 DEF IInv, StrayInv
<1>3. \/ \E w, d : SaveOutside(w, d)
      \/ UNCHANGED <<rerouted, strayed>>
    BY ZenonT(60) DEF Next, Handler, Execute, Archive, Reset, Move, Delete, Upload, vars,
       Ask, CreateBlock, MarkBusy, Send, SaveEdit, Die, Start, HardError, Clone,
       Migrate, Complete, Clear, MoveRow, Shift, Rename, Erase, Unlist, Notify,
       Finish, Ack, Retry, BeginUpload, SaveUpload, EndUpload
<1> QED
    BY <1>1, <1>2, <1>3

\* Every step keeps the device busy for a job that is alone.
LEMMA BusyStep == IInv /\ [Next]_vars => BusyHeld'
<1> SUFFICES ASSUME IInv, [Next]_vars PROVE BusyHeld'
    OBVIOUS
<1> USE DeviceAssumption DEF IInv, TypeOK, Handling, Working, Dev,
   OpOfPoint, Alone, Open, OnTheDevice, BusyHeld
<1>1. ASSUME NEW j \in Job, NEW r \in Request, Ask(j, r) PROVE BusyHeld'
    BY <1>1 DEF Ask, Goto, Request
<1>2. ASSUME NEW j \in Job, CreateBlock(j) PROVE BusyHeld'
    BY <1>2 DEF CreateBlock, Goto, IsNewBlockId
<1>3. ASSUME NEW j \in Job, MarkBusy(j) PROVE BusyHeld'
    BY <1>3 DEF MarkBusy, Save, Goto, InScope
<1>4. ASSUME NEW j \in Job, Send(j) PROVE BusyHeld'
    BY <1>4 DEF Send, Goto
<1>5. ASSUME NEW j \in Job, Die(j) PROVE BusyHeld'
    BY <1>5 DEF Die, Goto
<1>6. ASSUME NEW j \in Job, Start(j) PROVE BusyHeld'
    BY <1>6 DEF Start, Goto
<1>7. ASSUME NEW j \in Job, HardError(j) PROVE BusyHeld'
    BY <1>7 DEF HardError, Goto
<1>8. ASSUME NEW j \in Job, Clone(j) PROVE BusyHeld'
    BY <1>8 DEF Clone, Goto, HasRow
<1>9. ASSUME NEW j \in Job, Migrate(j) PROVE BusyHeld'
    BY <1>9 DEF Migrate, Goto, Rewrite, HasRow
<1>10. ASSUME NEW j \in Job, Complete(j) PROVE BusyHeld'
    BY <1>10 DEF Complete, Goto
<1>11. ASSUME NEW j \in Job, Clear(j) PROVE BusyHeld'
    BY <1>11 DEF Clear, Goto, Rewrite
<1>12. ASSUME NEW j \in Job, MoveRow(j) PROVE BusyHeld'
    <2>1. OnTheDevice(j) /\ Open(j)
        BY <1>12 DEF MoveRow, Save
    <2>2. \A k \in Job \ met : k # j /\ OnTheDevice(k) => ~Open(k)
        BY <2>1
    <2>3. ASSUME j \notin met \cup unmarked \cup ended PROVE dev'.state = "B0"
        BY <1>12, <2>1, <2>3 DEF MoveRow, Save
    <2>4. /\ pc' = [pc EXCEPT ![j] = "moved"] /\ met' = met /\ job' = job
          /\ ended' = ended /\ unmarked' = unmarked /\ read' = read
        BY <1>12 DEF MoveRow, Save, Goto
    <2>5. ASSUME NEW k \in Job \ (met \cup unmarked \cup ended), k # j,
                 OnTheDevice(k)
          PROVE  pc'[k] \notin {"marked", "queued"} \cup Working
        BY <2>2, <2>4, <2>5, SMTT(30)
    <2>6. j \notin met \cup unmarked \cup ended => read[j].dev.state = "B0"
        BY <1>12, <2>1 DEF MoveRow, Save
    <2> QED
        BY <2>3, <2>4, <2>5, <2>6
<1>13. ASSUME NEW j \in Job, Shift(j) PROVE BusyHeld'
    BY <1>13 DEF Shift, Goto, Rewrite
<1>14. ASSUME NEW j \in Job, Rename(j) PROVE BusyHeld'
    BY <1>14 DEF Rename, Goto
<1>15. ASSUME NEW j \in Job, Erase(j) PROVE BusyHeld'
    BY <1>15 DEF Erase, Goto, Rewrite, Erased, HasRow
<1>16. ASSUME NEW j \in Job, Unlist(j) PROVE BusyHeld'
    BY <1>16 DEF Unlist, Goto, Rewrite, Erased, HasRow
<1>17. ASSUME NEW j \in Job, Notify(j) PROVE BusyHeld'
    BY <1>17 DEF Notify, Goto
<1>18. ASSUME NEW j \in Job, Finish(j) PROVE BusyHeld'
    <2>1. CASE OnTheDevice(j)
        <3>1. \A k \in Job \ met : k # j /\ OnTheDevice(k) => ~Open(k)
            BY <1>18, <2>1 DEF Finish, Save
        <3>2. /\ pc' = [pc EXCEPT ![j] = "finished"] /\ met' = met
              /\ job' = job /\ ended' = ended \cup {j} /\ read' = read
            BY <1>18 DEF Finish, Save, Goto
        <3>3. ASSUME NEW k \in Job \ (met' \cup unmarked' \cup ended'),
                     OnTheDevice(k)'
              PROVE  pc'[k] \notin {"marked", "queued"} \cup Working
            <4>1. k # j /\ k \notin met
                BY <3>2, <3>3
            <4>2. OnTheDevice(k) /\ pc'[k] = pc[k]
                BY <3>2, <3>3, <4>1
            <4> QED
                BY <3>1, <4>1, <4>2
        <3> QED
            BY <3>3
    <2>2. CASE ~OnTheDevice(j)
        BY <1>18, <2>2 DEF Finish, Save, Goto
    <2> QED
        BY <2>1, <2>2
<1>19. ASSUME NEW j \in Job, Ack(j) PROVE BusyHeld'
    BY <1>19 DEF Ack, Goto
<1>20. ASSUME NEW j \in Job, Retry(j) PROVE BusyHeld'
    BY <1>20 DEF Retry, Goto, Refused, HasRow
<1>21. ASSUME NEW x \in Item, BeginUpload(x) PROVE BusyHeld'
    BY <1>21 DEF BeginUpload
<1>22. ASSUME NEW x \in Item, EndUpload(x) PROVE BusyHeld'
    BY <1>22 DEF EndUpload
<1>24. ASSUME NEW j \in Job, SaveEdit(j) PROVE BusyHeld'
    BY <1>24 DEF SaveEdit, SaveOutside, Save, Goto
<1>25. ASSUME NEW x \in Item, SaveUpload(x) PROVE BusyHeld'
    BY <1>25 DEF SaveUpload, SaveOutside, Save
<1>23. CASE UNCHANGED vars
    BY <1>23 DEF vars
<1> QED
    BY <1>1, <1>2, <1>3, <1>4, <1>5, <1>6, <1>7, <1>8, <1>9, <1>10, <1>11,
       <1>12, <1>13, <1>14, <1>15, <1>16, <1>17, <1>18, <1>19, <1>20, <1>21,
       <1>22, <1>23, <1>24, <1>25 DEF Next, Handler, Execute, Archive, Reset, Move,
       Delete, Upload

\* The strengthened invariant holds at the start.
LEMMA InitInv == Init => IInv
<1> SUFFICES ASSUME Init PROVE IInv
    OBVIOUS
<1> USE DeviceAssumption DEF Init
<1>1. TypeOK
    <2>1. /\ dev \in Dev /\ streams \subseteq Project
          /\ row \in [BlockId -> Row]
          /\ cloned \subseteq BlockId /\ complete \subseteq BlockId
        BY DEF Dev, BlockId, Row
    <2>2. place \in [Item -> Place]
        <3>1. Absent \in Place /\ (Archived # {} => InBlock(1) \in Place)
            BY DEF Place, Absent, InBlock, BlockId
        <3> QED
            BY <3>1
    <2>3. /\ pc \in [Job -> {"idle", "queued", "over"} \cup Handling
                             \cup Working]
          /\ job \in [Job -> [op : {"none", "archive", "reset", "move", "delete",
                              "edit"},
                        after : {"N", "B0", "keep"}, all : BOOLEAN,
                        dst : Project, row : Row]]
          /\ blk \in [Job -> BlockId \cup {0}]
          /\ read \in [Job -> [dev : Dev, row : Row]]
          /\ base \in [Job -> SUBSET Item]
        BY <2>1 DEF NoRequest, Row
    <2>4. /\ met \subseteq Job /\ ended \subseteq Job
          /\ stuck \subseteq Job \cup Item /\ old \subseteq Job \cup Item
          /\ unmarked \subseteq Job /\ rerouted \subseteq Job
          /\ late \subseteq Item /\ cut \in BOOLEAN /\ strayed \in BOOLEAN
        OBVIOUS
    <2>5. faults \in 0..MaxFault
        OBVIOUS
    <2> QED
        BY <2>1, <2>2, <2>3, <2>4, <2>5 DEF TypeOK
<1>2. \A j \in Job : pc[j] = "idle" /\ job[j].op = "none"
    BY DEF NoRequest
<1>3. \A x \in Item, d \in Dev : place[x] # Uploading(d)
    BY DEF Uploading, InBlock, Absent
<1>4. OpOfPoint /\ BlockOfPoint /\ Alone /\ BusyHeld
    BY <1>2 DEF OpOfPoint, BlockOfPoint, Alone, BusyHeld, Open, OnTheDevice,
       Handling, Working
<1>5. RowHeld /\ RowKnown /\ StrayInv
    BY <1>2, <1>3 DEF RowHeld, Holds, RowKnown, Known, StrayInv, AtRead,
       AtMoved, OnTheDevice, Handling
<1> QED
    BY <1>1, <1>4, <1>5 DEF IInv

\* Every step keeps the strengthened invariant.
LEMMA StepInv == IInv /\ [Next]_vars => IInv'
BY TypeStep, OpStep, BlockStep, AloneStep, RowStep, KnownStep, StrayStep,
   BusyStep DEF IInv

\* The strengthened invariant holds in every reachable state.
LEMMA Invariance == Spec => []IInv
BY InitInv, StepInv, PTL DEF Spec

\* The variables keep to their types: no step saves a state that is none, or
\* refers to a block id out of range.
THEOREM TypeCorrect == Spec => []TypeOK
<1>1. IInv => TypeOK
    BY DEF IInv
<1> QED
    BY Invariance, <1>1, PTL

\* A device shows as busy from the mark of a request to the end of its task,
\* through every retry, unless another device job runs at the same time or the
\* state is changed under it by an edit or by a report that saves the row.
THEOREM StaysBusy == Spec => []BusyWhileWorking
<1>1. IInv => BusyWhileWorking
    BY DEF IInv, BusyHeld, BusyWhileWorking
<1> QED
    BY Invariance, <1>1, PTL

\* Whoever has read the row since its project changed puts that project back.
LEMMA ProjectStep ==
    ASSUME IInv, Next
    PROVE  (dev'.project # dev.project =>
         \/ \E j \in Job : pc[j] = "started" /\ pc'[j] = "moved"
         \/ \E j \in Job : job[j].op = "edit" /\ job[j].all /\ pc'[j] # pc[j]
         \/ \E j \in Job \cap old : pc'[j] # pc[j]
         \/ \E x \in Item \cap old : place[x] = Uploading(dev'))
<1> DEFINE Goal == (dev'.project # dev.project =>
         \/ \E j \in Job : pc[j] = "started" /\ pc'[j] = "moved"
         \/ \E j \in Job : job[j].op = "edit" /\ job[j].all /\ pc'[j] # pc[j]
         \/ \E j \in Job \cap old : pc'[j] # pc[j]
         \/ \E x \in Item \cap old : place[x] = Uploading(dev'))
<1> SUFFICES Goal
    OBVIOUS
<1>0. \A j \in Job \ old : Known(j)
    BY DEF IInv, RowKnown
<1>1. ASSUME NEW j \in Job, MarkBusy(j) PROVE Goal
    <2>1. pc[j] \in Handling /\ pc'[j] # pc[j]
        BY <1>1 DEF MarkBusy, Goto, IInv, TypeOK, Handling
    <2>2. j \notin old => read[j].dev.project = dev.project
        BY <1>0, <2>1 DEF Known
    <2>3. dev'.project = read[j].dev.project
        BY <1>1 DEF MarkBusy, Save, IInv, TypeOK, Dev
    <2> QED
        BY <2>1, <2>2, <2>3
<1>2. ASSUME NEW j \in Job, MoveRow(j) PROVE Goal
    <2>1. pc[j] = "started" /\ pc'[j] = "moved"
        BY <1>2 DEF MoveRow, Goto, IInv, TypeOK
    <2> QED
        BY <2>1
<1>3. ASSUME NEW j \in Job, Finish(j) PROVE Goal
    <2>0. pc[j] = "notified" /\ pc'[j] # pc[j]
        BY <1>3 DEF Finish, Goto, IInv, TypeOK
    <2>1. CASE job[j].op = "move"
        <3>1. dev'.project = job[j].dst
            BY <1>3, <2>1 DEF Finish, Save, Held, OnTheDevice, IInv, TypeOK, Dev
        <3>2. j \notin old => dev.project = job[j].dst
            BY <1>0, <2>0, <2>1 DEF Known, AtMoved
        <3> QED
            BY <2>0, <3>1, <3>2
    <2>2. CASE OnTheDevice(j) /\ job[j].op # "move"
        <3>1. dev'.project = read[j].dev.project
            BY <1>3, <2>2 DEF Finish, Save, Held, IInv, TypeOK, Dev
        <3>2. j \notin old => read[j].dev.project = dev.project
            BY <1>0, <2>0, <2>2 DEF Known, AtRead
        <3> QED
            BY <2>0, <3>1, <3>2
    <2>3. CASE ~OnTheDevice(j)
        BY <1>3, <2>3 DEF Finish, Save
    <2> QED
        BY <2>1, <2>2, <2>3 DEF OnTheDevice
<1>4. ASSUME NEW j \in Job, SaveEdit(j) PROVE Goal
    <2>1. pc[j] = "asked" /\ job[j].op = "edit" /\ pc'[j] # pc[j]
        BY <1>4 DEF SaveEdit, Goto, IInv, TypeOK
    <2>2. CASE job[j].all
        BY <2>1, <2>2
    <2>3. CASE ~job[j].all
        <3>1. dev'.project = read[j].dev.project
            BY <1>4, <2>3 DEF SaveEdit, SaveOutside, Save, Edited
        <3>2. j \notin old => read[j].dev.project = dev.project
            BY <1>0, <2>1 DEF Known, Handling
        <3> QED
            BY <2>1, <3>1, <3>2
    <2> QED
        BY <2>2, <2>3
<1>5. ASSUME NEW x \in Item, SaveUpload(x) PROVE Goal
    <2>1. dev' \in Dev /\ place[x] = Uploading(dev')
        BY <1>5 DEF SaveUpload, SaveOutside, Save
    <2>2. x \notin old => dev'.project = dev.project
        BY <2>1 DEF IInv, RowKnown
    <2> QED
        BY <2>1, <2>2
<1>6. ASSUME NEW j \in Job,
             \/ \E r \in Request : Ask(j, r)
             \/ CreateBlock(j) \/ Send(j) \/ Die(j) \/ Start(j) \/
                HardError(j) \/ Clone(j) \/ Migrate(j) \/ Complete(j) \/
                Clear(j) \/ Shift(j) \/ Rename(j) \/ Erase(j) \/ Unlist(j)
                \/ Notify(j) \/ Ack(j) \/ Retry(j)
      PROVE  Goal
    <2>1. dev' = dev
        BY <1>6 DEF Ask, CreateBlock, Send, Die, Start, HardError, Clone,
           Migrate, Complete, Clear, Shift, Rename, Erase, Unlist, Notify,
           Ack, Retry
    <2> QED
        BY <2>1
<1>7. ASSUME NEW x \in Item, BeginUpload(x) \/ EndUpload(x) PROVE Goal
    <2>1. dev' = dev
        BY <1>7 DEF BeginUpload, EndUpload
    <2> QED
        BY <2>1
<1> QED
    BY <1>1, <1>2, <1>3, <1>4, <1>5, <1>6, <1>7 DEF Next, Handler, Execute,
       Archive, Reset, Move, Delete, Upload

\* Only a delete task takes readings out of a block.
LEMMA ArchiveStep ==
    ASSUME IInv, Next
    PROVE  (\A x \in Item, b \in BlockId :
             place[x] = InBlock(b) /\ place'[x] # place[x] =>
                \E k \in Job : /\ job[k].op = "delete" /\ blk[k] = b
                               /\ pc'[k] # pc[k])
<1> DEFINE Goal == (\A x \in Item, b \in BlockId :
             place[x] = InBlock(b) /\ place'[x] # place[x] =>
                \E k \in Job : /\ job[k].op = "delete" /\ blk[k] = b
                               /\ pc'[k] # pc[k])
<1> SUFFICES Goal
    OBVIOUS
<1>1. ASSUME NEW j \in Job, Migrate(j) PROVE Goal
    BY <1>1 DEF Migrate, Rewrite, OnDevice, InBlock
<1>2. ASSUME NEW j \in Job, Clear(j) PROVE Goal
    BY <1>2 DEF Clear, Rewrite, OnDevice, InBlock
<1>3. ASSUME NEW j \in Job, Shift(j) PROVE Goal
    BY <1>3 DEF Shift, Rewrite, OnDevice, InBlock
<1>4. ASSUME NEW j \in Job, Erase(j) PROVE Goal
    <2>1. job[j].op = "delete" /\ pc'[j] # pc[j]
        BY <1>4 DEF Erase, Goto, IInv, TypeOK, OpOfPoint
    <2>2. \A x \in Item : place'[x] # place[x] => place[x] = InBlock(blk[j])
        BY <1>4 DEF Erase, Rewrite, Erased
    <2>3. \A b, c : InBlock(b) = InBlock(c) => b = c
        BY DEF InBlock
    <2> QED
        BY <2>1, <2>2, <2>3
<1>5. ASSUME NEW j \in Job, Unlist(j) PROVE Goal
    <2>1. job[j].op = "delete" /\ pc'[j] # pc[j]
        BY <1>5 DEF Unlist, Goto, IInv, TypeOK, OpOfPoint
    <2>2. \A x \in Item : place'[x] # place[x] => place[x] = InBlock(blk[j])
        BY <1>5 DEF Unlist, Rewrite, Erased
    <2>3. \A b, c : InBlock(b) = InBlock(c) => b = c
        BY DEF InBlock
    <2> QED
        BY <2>1, <2>2, <2>3
<1>6. ASSUME NEW x \in Item, BeginUpload(x) PROVE Goal
    <2>1. \A y \in Item, b \in BlockId :
             place[y] = InBlock(b) => place'[y] = place[y]
        BY <1>6 DEF BeginUpload, InBlock, Absent, IInv, TypeOK
    <2> QED
        BY <2>1
<1>7. ASSUME NEW x \in Item, EndUpload(x) PROVE Goal
    <2>1. \A y \in Item, b \in BlockId :
             place[y] = InBlock(b) => place'[y] = place[y]
        BY <1>7 DEF EndUpload, InBlock, Uploading, IInv, TypeOK
    <2> QED
        BY <2>1
<1>8. ASSUME NEW j \in Job,
             \/ \E r \in Request : Ask(j, r)
             \/ CreateBlock(j) \/ MarkBusy(j) \/ Send(j) \/ Die(j) \/
                Start(j) \/ HardError(j) \/ Clone(j) \/ Complete(j) \/
                MoveRow(j) \/ Rename(j) \/ Notify(j) \/ Finish(j) \/
                Ack(j) \/ Retry(j) \/ SaveEdit(j)
      PROVE  Goal
    <2>1. place' = place
        BY <1>8 DEF Ask, CreateBlock, MarkBusy, Send, Die, Start, HardError,
           Clone, Complete, MoveRow, Rename, Notify, Finish, Ack, Retry,
           SaveEdit
    <2> QED
        BY <2>1
<1>9. ASSUME NEW x \in Item, SaveUpload(x) PROVE Goal
    <2>1. place' = place
        BY <1>9 DEF SaveUpload
    <2> QED
        BY <2>1
<1> QED
    BY <1>1, <1>2, <1>3, <1>4, <1>5, <1>6, <1>7, <1>8, <1>9 DEF Next, Handler,
       Execute, Archive, Reset, Move, Delete, Upload

\* The project of the device changes by the first step of a move, by an edit of
\* the project, or by a save of a row read before its last change: whoever has
\* read the row again, task, edit or report, puts no old project back.
THEOREM ProjectSticks == Spec => MoveSticks
<1>1. IInv /\ [Next]_vars => [dev'.project # dev.project =>
         \/ \E j \in Job : pc[j] = "started" /\ pc'[j] = "moved"
         \/ \E j \in Job : job[j].op = "edit" /\ job[j].all /\ pc'[j] # pc[j]
         \/ \E j \in Job \cap old : pc'[j] # pc[j]
         \/ \E x \in Item \cap old : place[x] = Uploading(dev')]_vars
    BY ProjectStep DEF vars
<1> QED
    BY Invariance, <1>1, PTL DEF Spec, MoveSticks

\* Whatever archives, resets and moves come later, and however often they are
\* retried, a reading leaves its block only in a delete task for that block.
THEOREM ArchivesKept == Spec => ArchivedStays
<1>1. IInv /\ [Next]_vars => [\A x \in Item, b \in BlockId :
             place[x] = InBlock(b) /\ place'[x] # place[x] =>
                \E k \in Job : /\ job[k].op = "delete" /\ blk[k] = b
                               /\ pc'[k] # pc[k]]_vars
    BY ArchiveStep DEF vars
<1> QED
    BY Invariance, <1>1, PTL DEF Spec, ArchivedStays

-----------------------------------------------------------------------------
(***************************************************************************)
(* An archive or a reset takes what it was asked for.                      *)
(***************************************************************************)

\* Nothing is asked for before Ask.
FreshInv == \A j \in Job : pc[j] = "idle" => job[j].op = "none"

Busy == {"marked", "queued"} \cup Working
Done == {"migrated", "completed", "cleared", "notified", "finished"}

\* Nothing but a delete task for its slug takes the row of an archive away, or
\* the stream that it was given.
RowInv ==
    \A j \in Job :
        (job[j].op = "archive" /\ ~Condemned(blk[j]) /\ pc[j] \in {"blocked"} \cup Busy) =>
            /\ row[blk[j]] = j
            /\ pc[j] \in Working => read[j].row = j
            /\ pc[j] = "cloned" /\ j \notin met /\ read[j].dev.project \in streams =>
                  blk[j] \in cloned

\* The readings that j is to take are stored: on the device, where j looks for
\* them, until they are taken.
TakenInv ==
    \A j \in Job \ (met \cup rerouted) :
        (job[j].op \in {"archive", "reset"} /\ pc[j] \in Busy) =>
            \A x \in base[j] :
                /\ place[x] # Absent
                /\ \A d \in Dev : place[x] # Uploading(d)
                /\ \A p \in Project :
                      place[x] = OnDevice(p) =>
                            /\ p \in streams
                            /\ job[j].op = "archive" => p = dev.project
                            /\ ~(pc[j] \in Done /\ ~Condemned(blk[j]))

-----------------------------------------------------------------------------
(***************************************************************************)
(* The readings of a device are under its streams.                         *)
(***************************************************************************)

\* A move has saved the new project and not renamed the streams.
Moving(j) == pc[j] \in {"moved", "shifted"}

\* A reading is, or is about to be, stored under project p.
Under(x, p) ==
    place[x] = OnDevice(p) \/ \E d \in Dev : place[x] = Uploading(d) /\ d.project = p

\* The project of the device and the source of a move have a stream, unless
\* the project was changed from outside.
DevReach == ~strayed => dev.project \in streams \/ \E j \in Job : Moving(j)
SrcReach == \A j \in Job : Moving(j) /\ ~strayed => read[j].dev.project \in streams

\* What is still under the source of a move that has shifted the data is late.
ShiftReach ==
    \A j \in Job :
        pc[j] = "shifted" /\ job[j].all /\ read[j].dev.project # job[j].dst =>
            \A x \in Item : Under(x, read[j].dev.project) => x \in late

\* What is stored under a project without a stream is there for a move under
\* way that will give it one, or came late.
ItemReach ==
    \A x \in Item, p \in Project :
        Under(x, p) =>
            \/ p \in streams \/ x \in late
            \/ \E j \in Job : /\ Moving(j) /\ p = job[j].dst
                              /\ read[j].dev.project \in streams

\* All of this as long as jobs do not overlap and no move is cut.
ReachInv ==
    met = {} /\ ~cut => DevReach /\ SrcReach /\ ShiftReach /\ ItemReach

-----------------------------------------------------------------------------
(* The steps. *)

\* A request that is idle has not been asked for.
LEMMA FreshStep == IInv /\ FreshInv /\ [Next]_vars => FreshInv'
<1> SUFFICES ASSUME IInv /\ FreshInv, [Next]_vars PROVE FreshInv'
    OBVIOUS
<1> USE DEF IInv, TypeOK, FreshInv, Handling, Working, Request
<1>1. ASSUME NEW j \in Job, NEW r \in Request, Ask(j, r) PROVE FreshInv'
    BY <1>1 DEF Ask, Goto
<1>2. ASSUME NEW j \in Job, CreateBlock(j) PROVE FreshInv'
    BY <1>2 DEF CreateBlock, Goto
<1>3. ASSUME NEW j \in Job, MarkBusy(j) PROVE FreshInv'
    BY <1>3 DEF MarkBusy, Save, Goto
<1>4. ASSUME NEW j \in Job, Send(j) PROVE FreshInv'
    BY <1>4 DEF Send, Goto
<1>5. ASSUME NEW j \in Job, Die(j) PROVE FreshInv'
    BY <1>5 DEF Die, Goto
<1>6. ASSUME NEW j \in Job, Start(j) PROVE FreshInv'
    BY <1>6 DEF Start, Goto
<1>7. ASSUME NEW j \in Job, HardError(j) PROVE FreshInv'
    BY <1>7 DEF HardError, Goto
<1>8. ASSUME NEW j \in Job, Clone(j) PROVE FreshInv'
    BY <1>8 DEF Clone, Goto
<1>9. ASSUME NEW j \in Job, Migrate(j) PROVE FreshInv'
    BY <1>9 DEF Migrate, Goto
<1>10. ASSUME NEW j \in Job, Complete(j) PROVE FreshInv'
    BY <1>10 DEF Complete, Goto
<1>11. ASSUME NEW j \in Job, Clear(j) PROVE FreshInv'
    BY <1>11 DEF Clear, Goto
<1>12. ASSUME NEW j \in Job, MoveRow(j) PROVE FreshInv'
    BY <1>12 DEF MoveRow, Save, Goto
<1>13. ASSUME NEW j \in Job, Shift(j) PROVE FreshInv'
    BY <1>13 DEF Shift, Goto
<1>14. ASSUME NEW j \in Job, Rename(j) PROVE FreshInv'
    BY <1>14 DEF Rename, Goto
<1>15. ASSUME NEW j \in Job, Erase(j) PROVE FreshInv'
    BY <1>15 DEF Erase, Goto
<1>16. ASSUME NEW j \in Job, Unlist(j) PROVE FreshInv'
    BY <1>16 DEF Unlist, Goto
<1>17. ASSUME NEW j \in Job, Notify(j) PROVE FreshInv'
    BY <1>17 DEF Notify, Goto
<1>18. ASSUME NEW j \in Job, Finish(j) PROVE FreshInv'
    BY <1>18 DEF Finish, Save, Goto
<1>19. ASSUME NEW j \in Job, Ack(j) PROVE FreshInv'
    BY <1>19 DEF Ack, Goto
<1>20. ASSUME NEW j \in Job, Retry(j) PROVE FreshInv'
    BY <1>20 DEF Retry, Goto
<1>21. ASSUME NEW x \in Item, BeginUpload(x) PROVE FreshInv'
    BY <1>21 DEF BeginUpload
<1>22. ASSUME NEW x \in Item, EndUpload(x) PROVE FreshInv'
    BY <1>22 DEF EndUpload
<1>24. ASSUME NEW j \in Job, SaveEdit(j) PROVE FreshInv'
    BY <1>24 DEF SaveEdit, SaveOutside, Save, Goto
<1>25. ASSUME NEW x \in Item, SaveUpload(x) PROVE FreshInv'
    BY <1>25 DEF SaveUpload, SaveOutside, Save
<1>23. CASE UNCHANGED vars
    BY <1>23 DEF vars
<1> HIDE DEF IInv, TypeOK, FreshInv, Handling, Working, Request
<1> QED
    BY <1>1, <1>2, <1>3, <1>4, <1>5, <1>6, <1>7, <1>8, <1>9, <1>10, <1>11, <1>12,
       <1>13, <1>14, <1>15, <1>16, <1>17, <1>18, <1>19, <1>20, <1>21, <1>22,
       <1>23, <1>24, <1>25 DEF Next, Handler, Execute, Archive, Reset, Move, Delete, Upload

\* A block that was asked to be deleted stays condemned.
LEMMA CondemnedStays ==
    ASSUME IInv, FreshInv, [Next]_vars, NEW b, Condemned(b) PROVE Condemned(b)'
<1>1. PICK k \in Job : job[k].op = "delete" /\ blk[k] = b
    BY DEF Condemned
<1>2. pc[k] # "idle" /\ pc[k] # "blocked" /\ job[k].op # "archive"
    BY <1>1 DEF FreshInv, IInv, OpOfPoint
<1>3. job'[k] = job[k] /\ blk'[k] = blk[k]
    <2>1. ASSUME NEW j \in Job, NEW r \in Request, Ask(j, r)
          PROVE  job'[k] = job[k] /\ blk'[k] = blk[k]
        BY <1>2, <2>1 DEF Ask, IInv, TypeOK
    <2>2. ASSUME NEW j \in Job, CreateBlock(j)
          PROVE  job'[k] = job[k] /\ blk'[k] = blk[k]
        BY <1>2, <2>2 DEF CreateBlock, IInv, TypeOK
    <2>3. \/ \E j \in Job, r \in Request : Ask(j, r)
          \/ \E j \in Job : CreateBlock(j)
          \/ job' = job /\ blk' = blk
        BY ZenonT(60) DEF Next, Handler, Execute, Archive, Reset, Move, Delete, Upload, MarkBusy,
           Send, Die, Start, HardError, Clone, Migrate, Complete, Clear, MoveRow, Shift,
           Rename, Erase, Unlist, Notify, Finish, Ack, Retry, BeginUpload, EndUpload,
           SaveEdit, SaveUpload, vars
    <2> QED
        BY <2>1, <2>2, <2>3
<1> QED
    BY <1>1, <1>3 DEF Condemned

\* The row of an archive is its own until a delete task for its slug.
LEMMA OwnRowStep == IInv /\ FreshInv /\ RowInv /\ [Next]_vars => RowInv'
<1> SUFFICES ASSUME IInv /\ FreshInv /\ RowInv, [Next]_vars PROVE RowInv'
    OBVIOUS
<1> USE DeviceAssumption
<1>0. \A b : Condemned(b) => Condemned(b)'
    BY CondemnedStays
<1> USE <1>0 DEF IInv, TypeOK, OpOfPoint, BlockOfPoint, Alone, RowInv, Busy, Handling, Working
<1>1. ASSUME NEW j \in Job, NEW r \in Request, Ask(j, r) PROVE RowInv'
    BY <1>1 DEF Ask, Goto
<1>2. ASSUME NEW j \in Job, CreateBlock(j) PROVE RowInv'
    <2> SUFFICES ASSUME NEW k \in Job, job'[k].op = "archive", ~Condemned(blk[k])',
                        pc'[k] \in {"blocked"} \cup Busy
        PROVE  /\ row'[blk'[k]] = k
               /\ pc'[k] \in Working => read'[k].row = k
               /\ pc'[k] = "cloned" /\ k \notin met' /\ read'[k].dev.project \in streams' =>
                     blk'[k] \in cloned'
        BY Zenon DEF RowInv
    <2>1. PICK b \in BlockId : /\ IsNewBlockId(b) /\ row' = [row EXCEPT ![b] = j]
                               /\ blk' = [blk EXCEPT ![j] = b]
        BY <1>2 DEF CreateBlock
    <2>2. /\ pc' = [pc EXCEPT ![j] = "blocked"] /\ job' = job /\ read' = read /\ met' = met
          /\ streams' = streams /\ cloned' = cloned
        BY <1>2 DEF CreateBlock, Goto
    <2>3. row[b] = NoRow
        BY <2>1 DEF IsNewBlockId, BlockId
    <2>4. CASE k = j
        BY <2>1, <2>2, <2>4
    <2>5. CASE k # j
        <3>1. pc'[k] = pc[k] /\ blk'[k] = blk[k] /\ job'[k] = job[k]
            BY <2>1, <2>2, <2>5
        <3>2. /\ row[blk[k]] = k /\ blk[k] \in BlockId
              /\ pc[k] \in Working => read[k].row = k
              /\ pc[k] = "cloned" /\ k \notin met /\ read[k].dev.project \in streams =>
                    blk[k] \in cloned
            BY <3>1 DEF RowInv
        <3>3. blk[k] # b
            BY <2>3, <3>2
        <3> QED
            BY <2>1, <2>2, <3>1, <3>2, <3>3
    <2> QED
        BY <2>4, <2>5
<1>3. ASSUME NEW j \in Job, MarkBusy(j) PROVE RowInv'
    BY <1>3 DEF MarkBusy, Save, Goto, HasRow, Refused, Erased, IsNewBlockId,
       OnTheDevice, Open, Held
<1>4. ASSUME NEW j \in Job, Send(j) PROVE RowInv'
    BY <1>4 DEF Send, Goto
<1>5. ASSUME NEW j \in Job, Die(j) PROVE RowInv'
    BY <1>5 DEF Die, Goto
<1>6. ASSUME NEW j \in Job, Start(j) PROVE RowInv'
    <2> SUFFICES ASSUME NEW k \in Job, job'[k].op = "archive", ~Condemned(blk[k])',
                        pc'[k] \in {"blocked"} \cup Busy
        PROVE  /\ row'[blk'[k]] = k
               /\ pc'[k] \in Working => read'[k].row = k
               /\ pc'[k] = "cloned" /\ k \notin met' /\ read'[k].dev.project \in streams' =>
                     blk'[k] \in cloned'
        BY Zenon DEF RowInv
    <2>1. /\ pc' = [pc EXCEPT ![j] = "started"] /\ job' = job /\ met' = met /\ blk' = blk
          /\ streams' = streams /\ cloned' = cloned /\ row' = row /\ pc[j] = "queued"
          /\ read' = [read EXCEPT ![j] = read'[j]]
          /\ read'[j].row = IF blk[j] = 0 THEN NoRow ELSE row[blk[j]]
        BY <1>6 DEF Start, Goto
    <2>2. row[blk[k]] = k /\ blk[k] \in BlockId
        BY <2>1 DEF RowInv
    <2>3. blk[k] # 0
        BY <2>2 DEF BlockId
    <2>4. k # j => pc'[k] = pc[k] /\ read'[k] = read[k]
        BY <2>1
    <2> QED
        BY <2>1, <2>2, <2>3, <2>4
<1>7. ASSUME NEW j \in Job, HardError(j) PROVE RowInv'
    BY <1>7 DEF HardError, Goto, HasRow, Refused, Erased, IsNewBlockId,
       OnTheDevice, Open, Held
<1>8. ASSUME NEW j \in Job, Clone(j) PROVE RowInv'
    BY <1>8 DEF Clone, Goto, HasRow, Refused, Erased, IsNewBlockId,
       OnTheDevice, Open, Held
<1>9. ASSUME NEW j \in Job, Migrate(j) PROVE RowInv'
    BY <1>9 DEF Migrate, Goto, HasRow, Refused, Erased, IsNewBlockId,
       OnTheDevice, Open, Held
<1>10. ASSUME NEW j \in Job, Complete(j) PROVE RowInv'
    BY <1>10 DEF Complete, Goto, HasRow, Refused, Erased, IsNewBlockId,
       OnTheDevice, Open, Held
<1>11. ASSUME NEW j \in Job, Clear(j) PROVE RowInv'
    BY <1>11 DEF Clear, Goto
<1>12. ASSUME NEW j \in Job, MoveRow(j) PROVE RowInv'
    BY <1>12 DEF MoveRow, Save, Goto
<1>13. ASSUME NEW j \in Job, Shift(j) PROVE RowInv'
    BY <1>13 DEF Shift, Goto
<1>14. ASSUME NEW j \in Job, Rename(j) PROVE RowInv'
    <2> SUFFICES ASSUME NEW k \in Job, job'[k].op = "archive", ~Condemned(blk[k])',
                        pc'[k] \in {"blocked"} \cup Busy
        PROVE  /\ row'[blk'[k]] = k
               /\ pc'[k] \in Working => read'[k].row = k
               /\ pc'[k] = "cloned" /\ k \notin met' /\ read'[k].dev.project \in streams' =>
                     blk'[k] \in cloned'
        BY Zenon DEF RowInv
    <2>1. /\ pc' = [pc EXCEPT ![j] = "renamed"] /\ job' = job /\ met' = met /\ blk' = blk
          /\ cloned' = cloned /\ row' = row /\ read' = read /\ pc[j] = "shifted"
        BY <1>14 DEF Rename, Goto
    <2>2. k # j /\ pc'[k] = pc[k] /\ job[j].op = "move"
        BY <2>1
    <2>3. pc[k] = "cloned" => k \in met
        BY <2>1, <2>2 DEF Alone, Open, OnTheDevice
    <2> QED
        BY <2>1, <2>2, <2>3
<1>15. ASSUME NEW j \in Job, Erase(j) PROVE RowInv'
    <2> SUFFICES ASSUME NEW k \in Job, job'[k].op = "archive", ~Condemned(blk[k])',
                        pc'[k] \in {"blocked"} \cup Busy
        PROVE  /\ row'[blk'[k]] = k
               /\ pc'[k] \in Working => read'[k].row = k
               /\ pc'[k] = "cloned" /\ k \notin met' /\ read'[k].dev.project \in streams' =>
                     blk'[k] \in cloned'
        BY Zenon DEF RowInv
    <2>1. /\ pc' = [pc EXCEPT ![j] = "erased"] /\ job' = job /\ met' = met /\ blk' = blk
          /\ streams' = streams /\ read' = read /\ job[j].op = "delete"
        BY <1>15 DEF Erase, Goto
    <2>2. /\ cloned' = cloned \/ cloned' = cloned \ {blk[j]}
          /\ row' = row \/ row' = [row EXCEPT ![blk[j]] = NoRow]
        BY <1>15 DEF Erase
    <2>3. k # j /\ pc'[k] = pc[k]
        BY <2>1
    <2>4. Condemned(blk[j])
        BY <2>1 DEF Condemned
    <2>5. blk[k] # blk[j] /\ ~Condemned(blk[k])
        <3>1. blk'[k] = blk[k] /\ blk'[j] = blk[j]
            BY <2>1
        <3>2. Condemned(blk[k]) => Condemned(blk[k])'
            BY <1>0, <3>1
        <3> QED
            BY <2>4, <3>1, <3>2
    <2>6. /\ row[blk[k]] = k /\ blk[k] \in BlockId
          /\ pc[k] \in Working => read[k].row = k
          /\ pc[k] = "cloned" /\ k \notin met /\ read[k].dev.project \in streams =>
                blk[k] \in cloned
        BY <2>1, <2>3, <2>5 DEF RowInv
    <2> QED
        BY <2>1, <2>2, <2>3, <2>5, <2>6
<1>16. ASSUME NEW j \in Job, Unlist(j) PROVE RowInv'
    <2> SUFFICES ASSUME NEW k \in Job, job'[k].op = "archive", ~Condemned(blk[k])',
                        pc'[k] \in {"blocked"} \cup Busy
        PROVE  /\ row'[blk'[k]] = k
               /\ pc'[k] \in Working => read'[k].row = k
               /\ pc'[k] = "cloned" /\ k \notin met' /\ read'[k].dev.project \in streams' =>
                     blk'[k] \in cloned'
        BY Zenon DEF RowInv
    <2>1. /\ pc' = [pc EXCEPT ![j] = "unlisted"] /\ job' = job /\ met' = met /\ blk' = blk
          /\ streams' = streams /\ read' = read /\ job[j].op = "delete"
        BY <1>16 DEF Unlist, Goto
    <2>2. /\ cloned' = cloned \/ cloned' = cloned \ {blk[j]}
          /\ row' = row \/ row' = [row EXCEPT ![blk[j]] = NoRow]
        BY <1>16 DEF Unlist
    <2>3. k # j /\ pc'[k] = pc[k]
        BY <2>1
    <2>4. Condemned(blk[j])
        BY <2>1 DEF Condemned
    <2>5. blk[k] # blk[j] /\ ~Condemned(blk[k])
        <3>1. blk'[k] = blk[k] /\ blk'[j] = blk[j]
            BY <2>1
        <3>2. Condemned(blk[k]) => Condemned(blk[k])'
            BY <1>0, <3>1
        <3> QED
            BY <2>4, <3>1, <3>2
    <2>6. /\ row[blk[k]] = k /\ blk[k] \in BlockId
          /\ pc[k] \in Working => read[k].row = k
          /\ pc[k] = "cloned" /\ k \notin met /\ read[k].dev.project \in streams =>
                blk[k] \in cloned
        BY <2>1, <2>3, <2>5 DEF RowInv
    <2> QED
        BY <2>1, <2>2, <2>3, <2>5, <2>6
<1>17. ASSUME NEW j \in Job, Notify(j) PROVE RowInv'
    BY <1>17 DEF Notify, Goto
<1>18. ASSUME NEW j \in Job, Finish(j) PROVE RowInv'
    BY <1>18 DEF Finish, Save, Goto, HasRow, Refused, Erased, IsNewBlockId,
       OnTheDevice, Open, Held
<1>19. ASSUME NEW j \in Job, Ack(j) PROVE RowInv'
    BY <1>19 DEF Ack, Goto
<1>20. ASSUME NEW j \in Job, Retry(j) PROVE RowInv'
    BY <1>20 DEF Retry, Goto, HasRow, Refused, Erased, IsNewBlockId,
       OnTheDevice, Open, Held
<1>21. ASSUME NEW x \in Item, BeginUpload(x) PROVE RowInv'
    BY <1>21 DEF BeginUpload
<1>22. ASSUME NEW x \in Item, EndUpload(x) PROVE RowInv'
    BY <1>22 DEF EndUpload
<1>24. ASSUME NEW j \in Job, SaveEdit(j) PROVE RowInv'
    BY <1>24 DEF SaveEdit, SaveOutside, Save, Goto
<1>25. ASSUME NEW x \in Item, SaveUpload(x) PROVE RowInv'
    BY <1>25 DEF SaveUpload, SaveOutside, Save
<1>23. CASE UNCHANGED vars
    BY <1>23 DEF vars, Condemned
<1> QED
    BY <1>1, <1>2, <1>3, <1>4, <1>5, <1>6, <1>7, <1>8, <1>9, <1>10, <1>11, <1>12,
       <1>13, <1>14, <1>15, <1>16, <1>17, <1>18, <1>19, <1>20, <1>21, <1>22,
       <1>23, <1>24, <1>25 DEF Next, Handler, Execute, Archive, Reset, Move, Delete, Upload

\* A save from outside takes nothing back, unless it reroutes the job.
LEMMA TakenOutside ==
    ASSUME TakenInv, NEW w, NEW d, SaveOutside(w, d),
           UNCHANGED <<job, blk, base, met, streams, place>>,
           \A k \in Job : job[k].op \in {"archive", "reset"} => pc'[k] = pc[k]
    PROVE  TakenInv'
<1> SUFFICES ASSUME NEW k \in Job \ (met' \cup rerouted'),
                    job'[k].op \in {"archive", "reset"}, pc'[k] \in Busy,
                    NEW y \in base'[k]
    PROVE  /\ place'[y] # Absent
           /\ \A e \in Dev : place'[y] # Uploading(e)
           /\ \A p \in Project :
                 place'[y] = OnDevice(p) =>
                       /\ p \in streams'
                       /\ job'[k].op = "archive" => p = dev'.project
                       /\ ~(pc'[k] \in Done /\ ~Condemned(blk[k])')
    BY Zenon DEF TakenInv
<1>1. pc'[k] = pc[k] /\ k \notin met /\ job[k].op \in {"archive", "reset"}
    OBVIOUS
<1>2. k \notin rerouted /\ dev'.project = dev.project
    BY <1>1 DEF SaveOutside, Save, Busy, OnTheDevice
<1>3. /\ place[y] # Absent
      /\ \A e \in Dev : place[y] # Uploading(e)
      /\ \A p \in Project :
            place[y] = OnDevice(p) =>
                  /\ p \in streams
                  /\ job[k].op = "archive" => p = dev.project
                  /\ ~(pc[k] \in Done /\ ~Condemned(blk[k]))
    BY <1>1, <1>2 DEF TakenInv
<1>4. Condemned(blk[k])' <=> Condemned(blk[k])
    BY DEF Condemned
<1> QED
    BY <1>1, <1>2, <1>3, <1>4

\* What an archive or a reset has taken does not come back, and the rest stays
\* where it looks for it.
LEMMA TakenStep == IInv /\ FreshInv /\ RowInv /\ TakenInv /\ [Next]_vars => TakenInv'
<1> SUFFICES ASSUME IInv /\ FreshInv /\ RowInv /\ TakenInv, [Next]_vars PROVE TakenInv'
    OBVIOUS
<1> USE DeviceAssumption
<1>0. \A b : Condemned(b) => Condemned(b)'
    BY CondemnedStays
<1> USE <1>0 DEF IInv, TypeOK, OpOfPoint, BlockOfPoint, Alone, RowHeld, RowInv, TakenInv, Busy, Done,
   Handling, Working, OnTheDevice, Open
<1>1. ASSUME NEW j \in Job, NEW r \in Request, Ask(j, r) PROVE TakenInv'
    BY <1>1 DEF Ask, Goto
<1>2. ASSUME NEW j \in Job, CreateBlock(j) PROVE TakenInv'
    BY <1>2 DEF CreateBlock, Goto
<1>3. ASSUME NEW j \in Job, MarkBusy(j) PROVE TakenInv'
    <2> SUFFICES ASSUME NEW k \in Job \ (met' \cup rerouted'), job'[k].op \in {"archive", "reset"},
                        pc'[k] \in Busy, NEW y \in base'[k]
        PROVE  /\ place'[y] # Absent
               /\ \A d \in Dev : place'[y] # Uploading(d)
               /\ \A p \in Project :
                     place'[y] = OnDevice(p) =>
                           /\ p \in streams'
                           /\ job'[k].op = "archive" => p = dev'.project
                           /\ ~(pc'[k] \in Done /\ ~Condemned(blk[k])')
        BY Zenon DEF TakenInv
    <2>1. /\ pc' = [pc EXCEPT ![j] = "marked"] /\ Open(j) /\ OnTheDevice(j)
          /\ base' = [base EXCEPT ![j] = InScope(job[j].op, read[j].dev.project)]
          /\ dev'.project = read[j].dev.project
          /\ UNCHANGED <<job, blk, met, streams, place, outside>>
        BY <1>3 DEF MarkBusy, Save, Goto, Dev
    <2>2. k = j
        BY SMTT(30), <2>1, TwoMeet
    <2>3. y \in InScope(job[j].op, read[j].dev.project) /\ pc'[k] \notin Done
        BY <2>1, <2>2
    <2>4. PICK q \in streams : /\ place[y] = OnDevice(q)
                               /\ job[j].op = "reset" \/ q = read[j].dev.project
        BY <2>3 DEF InScope
    <2>5. /\ OnDevice(q) # Absent
          /\ \A d \in Dev : OnDevice(q) # Uploading(d)
          /\ \A p \in Project : OnDevice(q) = OnDevice(p) => p = q
        BY DEF OnDevice, Absent, Uploading
    <2> QED
        BY <2>1, <2>2, <2>3, <2>4, <2>5
<1>4. ASSUME NEW j \in Job, Send(j) PROVE TakenInv'
    BY <1>4 DEF Send, Goto
<1>5. ASSUME NEW j \in Job, Die(j) PROVE TakenInv'
    BY <1>5 DEF Die, Goto
<1>6. ASSUME NEW j \in Job, Start(j) PROVE TakenInv'
    BY <1>6 DEF Start, Goto, HasRow, Refused, Erased, Held, InScope,
       Rewrite, OnDevice, InBlock, Uploading, Absent, Gone
<1>7. ASSUME NEW j \in Job, HardError(j) PROVE TakenInv'
    BY <1>7 DEF HardError, Goto, HasRow, Refused, Erased, Held, InScope,
       Rewrite, OnDevice, InBlock, Uploading, Absent, Gone
<1>8. ASSUME NEW j \in Job, Clone(j) PROVE TakenInv'
    BY <1>8 DEF Clone, Goto
<1>9. ASSUME NEW j \in Job, Migrate(j) PROVE TakenInv'
    <2> SUFFICES ASSUME NEW k \in Job \ (met' \cup rerouted'), job'[k].op \in {"archive", "reset"},
                        pc'[k] \in Busy, NEW y \in base'[k]
        PROVE  /\ place'[y] # Absent
               /\ \A d \in Dev : place'[y] # Uploading(d)
               /\ \A p \in Project :
                     place'[y] = OnDevice(p) =>
                           /\ p \in streams'
                           /\ job'[k].op = "archive" => p = dev'.project
                           /\ ~(pc'[k] \in Done /\ ~Condemned(blk[k])')
        BY Zenon DEF TakenInv
    <2>1. /\ pc' = [pc EXCEPT ![j] = "migrated"] /\ pc[j] = "cloned" /\ job' = job
          /\ UNCHANGED outside
          /\ blk' = blk /\ base' = base /\ met' = met /\ streams' = streams /\ dev' = dev
          /\ job[j].op = "archive"
          /\ place' = [z \in Item |->
                IF place[z] \in (IF HasRow(j) /\ blk[j] \in cloned
                                 THEN {OnDevice(read[j].dev.project)} ELSE {})
                THEN InBlock(blk[j]) ELSE place[z]]
        BY <1>9 DEF Migrate, Goto, Rewrite
    <2>2. k = j
        BY <2>1, SMTT(30) DEF Alone, Open, OnTheDevice
    <2>3. /\ place[y] # Absent /\ y \in Item
          /\ \A d \in Dev : place[y] # Uploading(d)
          /\ \A p \in Project :
                place[y] = OnDevice(p) =>
                      /\ p \in streams
                      /\ job[k].op = "archive" => p = dev.project
                      /\ ~(pc[k] \in Done /\ ~Condemned(blk[k]))
        BY <2>1, <2>2 DEF TakenInv
    <2>4. read[j].dev.project = dev.project
        BY <2>1, <2>2 DEF RowHeld, Holds, AtRead, OnTheDevice
    <2>5. ~Condemned(blk[k])' => ~Condemned(blk[k])
        BY <1>0, <2>1
    <2>6. ASSUME NEW p \in Project, place[y] = OnDevice(p), ~Condemned(blk[k])
          PROVE  place'[y] = InBlock(blk[j])
        <3>1. row[blk[j]] = j /\ read[j].row = j
            BY <2>1, <2>2, <2>6 DEF RowInv
        <3>2. p = read[j].dev.project /\ p \in streams
            BY <2>1, <2>2, <2>3, <2>4, <2>6
        <3>3. HasRow(j) /\ blk[j] \in cloned
            BY <2>1, <2>2, <2>6, <3>1, <3>2 DEF RowInv, HasRow
        <3> QED
            BY <2>1, <2>3, <2>6, <3>2, <3>3
    <2>7. place'[y] = place[y] \/ place'[y] = InBlock(blk[j])
        BY <2>1, <2>3
    <2>8. /\ \A p \in Project : InBlock(blk[j]) # OnDevice(p)
          /\ \A d \in Dev : InBlock(blk[j]) # Uploading(d)
        BY DEF OnDevice, InBlock, Uploading
    <2>9. InBlock(blk[j]) # Absent
        BY DEF InBlock, Absent
    <2>10. job'[k] = job[k] /\ dev' = dev /\ streams' = streams
        BY <2>1
    <2> QED
        BY <2>3, <2>5, <2>6, <2>7, <2>8, <2>9, <2>10
<1>10. ASSUME NEW j \in Job, Complete(j) PROVE TakenInv'
    BY <1>10 DEF Complete, Goto, HasRow, Refused, Erased, Held, InScope,
       Rewrite, OnDevice, InBlock, Uploading, Absent, Gone
<1>11. ASSUME NEW j \in Job, Clear(j) PROVE TakenInv'
    <2> SUFFICES ASSUME NEW k \in Job \ (met' \cup rerouted'), job'[k].op \in {"archive", "reset"},
                        pc'[k] \in Busy, NEW y \in base'[k]
        PROVE  /\ place'[y] # Absent
               /\ \A d \in Dev : place'[y] # Uploading(d)
               /\ \A p \in Project :
                     place'[y] = OnDevice(p) =>
                           /\ p \in streams'
                           /\ job'[k].op = "archive" => p = dev'.project
                           /\ ~(pc'[k] \in Done /\ ~Condemned(blk[k])')
        BY Zenon DEF TakenInv
    <2>1. /\ pc' = [pc EXCEPT ![j] = "cleared"] /\ pc[j] = "started" /\ job' = job
          /\ UNCHANGED outside /\ blk' = blk /\ base' = base /\ met' = met /\ streams' = streams /\ dev' = dev
          /\ job[j].op = "reset"
        BY <1>11 DEF Clear, Goto
    <2>2. k = j
        BY <2>1, SMTT(30) DEF Alone, Open, OnTheDevice
    <2>3. /\ place[y] # Absent /\ y \in Item
          /\ \A d \in Dev : place[y] # Uploading(d)
          /\ \A p \in Project :
                place[y] = OnDevice(p) =>
                      /\ p \in streams
                      /\ job[k].op = "archive" => p = dev.project
                      /\ ~(pc[k] \in Done /\ ~Condemned(blk[k]))
        BY <2>1, <2>2 DEF TakenInv
    <2>4. /\ place[y] \in {OnDevice(p) : p \in streams} => place'[y] = Gone
          /\ place'[y] = place[y] \/ place'[y] = Gone
        BY <1>11, <2>3 DEF Clear, Rewrite
    <2>5. /\ \A p \in Project : Gone # OnDevice(p)
          /\ \A d \in Dev : Gone # Uploading(d)
        BY DEF OnDevice, Gone, Uploading
    <2>6. Gone # Absent
        BY DEF Gone, Absent
    <2>7. job'[k].op = "reset"
        BY <2>1, <2>2
    <2>8. \A p \in Project : place'[y] # OnDevice(p)
        BY <2>3, <2>4, <2>5
    <2> QED
        BY <2>3, <2>4, <2>5, <2>6, <2>8
<1>12. ASSUME NEW j \in Job, MoveRow(j) PROVE TakenInv'
    <2> SUFFICES ASSUME NEW k \in Job \ (met' \cup rerouted'), job'[k].op \in {"archive", "reset"},
                        pc'[k] \in Busy
        PROVE  FALSE
        BY Zenon DEF TakenInv
    <2>1. /\ pc' = [pc EXCEPT ![j] = "moved"] /\ pc[j] = "started" /\ job' = job /\ met' = met
          /\ job[j].op = "move"
        BY <1>12 DEF MoveRow, Save, Goto
    <2>2. /\ k \in Job /\ k \notin met /\ k # j
          /\ Open(j) /\ Open(k) /\ OnTheDevice(j) /\ OnTheDevice(k)
        BY <2>1
    <2> QED
        BY <2>2, TwoMeet
<1>13. ASSUME NEW j \in Job, Shift(j) PROVE TakenInv'
    <2> SUFFICES ASSUME NEW k \in Job \ (met' \cup rerouted'), job'[k].op \in {"archive", "reset"},
                        pc'[k] \in Busy
        PROVE  FALSE
        BY Zenon DEF TakenInv
    <2>1. /\ pc' = [pc EXCEPT ![j] = "shifted"] /\ pc[j] = "moved" /\ job' = job /\ met' = met
          /\ job[j].op = "move"
        BY <1>13 DEF Shift, Goto
    <2>2. /\ k \in Job /\ k \notin met /\ k # j
          /\ Open(j) /\ Open(k) /\ OnTheDevice(j) /\ OnTheDevice(k)
        BY <2>1
    <2> QED
        BY <2>2, TwoMeet
<1>14. ASSUME NEW j \in Job, Rename(j) PROVE TakenInv'
    <2> SUFFICES ASSUME NEW k \in Job \ (met' \cup rerouted'), job'[k].op \in {"archive", "reset"},
                        pc'[k] \in Busy
        PROVE  FALSE
        BY Zenon DEF TakenInv
    <2>1. /\ pc' = [pc EXCEPT ![j] = "renamed"] /\ pc[j] = "shifted" /\ job' = job /\ met' = met
          /\ job[j].op = "move"
        BY <1>14 DEF Rename, Goto
    <2>2. /\ k \in Job /\ k \notin met /\ k # j
          /\ Open(j) /\ Open(k) /\ OnTheDevice(j) /\ OnTheDevice(k)
        BY <2>1
    <2> QED
        BY <2>2, TwoMeet
<1>15. ASSUME NEW j \in Job, Erase(j) PROVE TakenInv'
    <2> SUFFICES ASSUME NEW k \in Job \ (met' \cup rerouted'), job'[k].op \in {"archive", "reset"},
                        pc'[k] \in Busy, NEW y \in base'[k]
        PROVE  /\ place'[y] # Absent
               /\ \A d \in Dev : place'[y] # Uploading(d)
               /\ \A p \in Project :
                     place'[y] = OnDevice(p) =>
                           /\ p \in streams'
                           /\ job'[k].op = "archive" => p = dev'.project
                           /\ ~(pc'[k] \in Done /\ ~Condemned(blk[k])')
        BY Zenon DEF TakenInv
    <2>1. /\ pc' = [pc EXCEPT ![j] = "erased"] /\ job' = job
          /\ UNCHANGED outside /\ blk' = blk /\ base' = base /\ met' = met /\ streams' = streams /\ dev' = dev
          /\ job[j].op = "delete"
          /\ place' = [z \in Item |-> IF place[z] \in Erased(j) THEN Gone ELSE place[z]]
        BY <1>15 DEF Erase, Goto, Rewrite
    <2>2. k # j /\ pc'[k] = pc[k]
        BY <2>1
    <2>3. /\ place[y] # Absent /\ y \in Item
          /\ \A d \in Dev : place[y] # Uploading(d)
          /\ \A p \in Project :
                place[y] = OnDevice(p) =>
                      /\ p \in streams
                      /\ job[k].op = "archive" => p = dev.project
                      /\ ~(pc[k] \in Done /\ ~Condemned(blk[k]))
        BY <2>1, <2>2 DEF TakenInv
    <2>4. place'[y] = place[y] \/ place'[y] = Gone
        BY <2>1, <2>3
    <2>5. /\ \A p \in Project : Gone # OnDevice(p)
          /\ \A d \in Dev : Gone # Uploading(d)
        BY DEF OnDevice, Gone, Uploading
    <2>6. Gone # Absent
        BY DEF Gone, Absent
    <2>7. ~Condemned(blk[k])' => ~Condemned(blk[k])
        BY <1>0, <2>1
    <2> QED
        BY <2>1, <2>2, <2>3, <2>4, <2>5, <2>6, <2>7
<1>16. ASSUME NEW j \in Job, Unlist(j) PROVE TakenInv'
    <2> SUFFICES ASSUME NEW k \in Job \ (met' \cup rerouted'), job'[k].op \in {"archive", "reset"},
                        pc'[k] \in Busy, NEW y \in base'[k]
        PROVE  /\ place'[y] # Absent
               /\ \A d \in Dev : place'[y] # Uploading(d)
               /\ \A p \in Project :
                     place'[y] = OnDevice(p) =>
                           /\ p \in streams'
                           /\ job'[k].op = "archive" => p = dev'.project
                           /\ ~(pc'[k] \in Done /\ ~Condemned(blk[k])')
        BY Zenon DEF TakenInv
    <2>1. /\ pc' = [pc EXCEPT ![j] = "unlisted"] /\ job' = job
          /\ UNCHANGED outside /\ blk' = blk /\ base' = base /\ met' = met /\ streams' = streams /\ dev' = dev
          /\ job[j].op = "delete"
          /\ place' = [z \in Item |-> IF place[z] \in Erased(j) THEN Gone ELSE place[z]]
        BY <1>16 DEF Unlist, Goto, Rewrite
    <2>2. k # j /\ pc'[k] = pc[k]
        BY <2>1
    <2>3. /\ place[y] # Absent /\ y \in Item
          /\ \A d \in Dev : place[y] # Uploading(d)
          /\ \A p \in Project :
                place[y] = OnDevice(p) =>
                      /\ p \in streams
                      /\ job[k].op = "archive" => p = dev.project
                      /\ ~(pc[k] \in Done /\ ~Condemned(blk[k]))
        BY <2>1, <2>2 DEF TakenInv
    <2>4. place'[y] = place[y] \/ place'[y] = Gone
        BY <2>1, <2>3
    <2>5. /\ \A p \in Project : Gone # OnDevice(p)
          /\ \A d \in Dev : Gone # Uploading(d)
        BY DEF OnDevice, Gone, Uploading
    <2>6. Gone # Absent
        BY DEF Gone, Absent
    <2>7. ~Condemned(blk[k])' => ~Condemned(blk[k])
        BY <1>0, <2>1
    <2> QED
        BY <2>1, <2>2, <2>3, <2>4, <2>5, <2>6, <2>7
<1>17. ASSUME NEW j \in Job, Notify(j) PROVE TakenInv'
    BY <1>17 DEF Notify, Goto
<1>18. ASSUME NEW j \in Job, Finish(j) PROVE TakenInv'
    <2> SUFFICES ASSUME NEW k \in Job \ (met' \cup rerouted'), job'[k].op \in {"archive", "reset"},
                        pc'[k] \in Busy, NEW y \in base'[k]
        PROVE  /\ place'[y] # Absent
               /\ \A d \in Dev : place'[y] # Uploading(d)
               /\ \A p \in Project :
                     place'[y] = OnDevice(p) =>
                           /\ p \in streams'
                           /\ job'[k].op = "archive" => p = dev'.project
                           /\ ~(pc'[k] \in Done /\ ~Condemned(blk[k])')
        BY Zenon DEF TakenInv
    <2>1. /\ pc' = [pc EXCEPT ![j] = "finished"] /\ pc[j] = "notified" /\ job' = job
          /\ UNCHANGED outside /\ blk' = blk /\ base' = base /\ met' = met /\ streams' = streams /\ place' = place
        BY <1>18 DEF Finish, Save, Goto
    <2>2. /\ place[y] # Absent /\ y \in Item
          /\ \A d \in Dev : place[y] # Uploading(d)
          /\ \A p \in Project :
                place[y] = OnDevice(p) =>
                      /\ p \in streams
                      /\ job[k].op = "archive" => p = dev.project
                      /\ ~(pc[k] \in Done /\ ~Condemned(blk[k]))
        BY <2>1 DEF TakenInv
    <2>3. dev'.project = dev.project
        <3>1. CASE ~OnTheDevice(j)
            BY <1>18, <3>1 DEF Finish, Save
        <3>2. CASE OnTheDevice(j)
            <4>1. k = j
                BY <2>1, <3>2, SMTT(30) DEF Alone, Open, OnTheDevice
            <4>2. read[j].dev.project = dev.project /\ Held(j) = read[j].dev
                BY <2>1, <4>1 DEF RowHeld, Holds, AtRead, OnTheDevice, Held
            <4>3. dev' = [read[j].dev EXCEPT !.state =
                            IF job[j].after = "keep" THEN @ ELSE job[j].after]
                BY <1>18, <3>2, <4>2 DEF Finish, Save
            <4> QED
                BY <4>2, <4>3 DEF Dev
        <3> QED
            BY <3>1, <3>2
    <2>4. pc'[k] \in Done => pc[k] \in Done
        BY <2>1
    <2>5. ~Condemned(blk[k])' => ~Condemned(blk[k])
        BY <1>0, <2>1
    <2>6. job'[k] = job[k]
        BY <2>1
    <2> QED
        BY <2>1, <2>2, <2>3, <2>4, <2>5, <2>6
<1>19. ASSUME NEW j \in Job, Ack(j) PROVE TakenInv'
    BY <1>19 DEF Ack, Goto
<1>20. ASSUME NEW j \in Job, Retry(j) PROVE TakenInv'
    BY <1>20 DEF Retry, Goto, HasRow, Refused, Erased, Held, InScope,
       Rewrite, OnDevice, InBlock, Uploading, Absent, Gone
<1>21. ASSUME NEW x \in Item, BeginUpload(x) PROVE TakenInv'
    <2> SUFFICES ASSUME NEW k \in Job \ (met' \cup rerouted'), job'[k].op \in {"archive", "reset"},
                        pc'[k] \in Busy, NEW y \in base'[k]
        PROVE  /\ place'[y] # Absent
               /\ \A d \in Dev : place'[y] # Uploading(d)
               /\ \A p \in Project :
                     place'[y] = OnDevice(p) =>
                           /\ p \in streams'
                           /\ job'[k].op = "archive" => p = dev'.project
                           /\ ~(pc'[k] \in Done /\ ~Condemned(blk[k])')
        BY Zenon DEF TakenInv
    <2>1. /\ place[x] = Absent /\ place' = [place EXCEPT ![x] = Uploading(dev)]
          /\ UNCHANGED <<pc, job, blk, base, met, streams, dev, rerouted>>
        BY <1>21 DEF BeginUpload
    <2>2. /\ place[y] # Absent /\ y \in Item
          /\ \A d \in Dev : place[y] # Uploading(d)
          /\ \A p \in Project :
                place[y] = OnDevice(p) =>
                      /\ p \in streams
                      /\ job[k].op = "archive" => p = dev.project
                      /\ ~(pc[k] \in Done /\ ~Condemned(blk[k]))
        BY <2>1 DEF TakenInv
    <2>3. place'[y] = place[y]
        BY <2>1, <2>2
    <2>4. ~Condemned(blk[k])' => ~Condemned(blk[k])
        BY <1>0, <2>1
    <2> QED
        BY <2>1, <2>2, <2>3, <2>4
<1>22. ASSUME NEW x \in Item, EndUpload(x) PROVE TakenInv'
    <2> SUFFICES ASSUME NEW k \in Job \ (met' \cup rerouted'), job'[k].op \in {"archive", "reset"},
                        pc'[k] \in Busy, NEW y \in base'[k]
        PROVE  /\ place'[y] # Absent
               /\ \A d \in Dev : place'[y] # Uploading(d)
               /\ \A p \in Project :
                     place'[y] = OnDevice(p) =>
                           /\ p \in streams'
                           /\ job'[k].op = "archive" => p = dev'.project
                           /\ ~(pc'[k] \in Done /\ ~Condemned(blk[k])')
        BY Zenon DEF TakenInv
    <2>1. PICK v \in Dev : /\ place[x] = Uploading(v)
                           /\ place' = [place EXCEPT ![x] = OnDevice(v.project)]
        BY <1>22 DEF EndUpload
    <2>2. /\ pc' = pc /\ job' = job /\ blk' = blk /\ base' = base /\ met' = met
          /\ streams' = streams /\ dev' = dev /\ UNCHANGED outside
        BY <1>22 DEF EndUpload
    <2>3. /\ place[y] # Absent /\ y \in Item
          /\ \A d \in Dev : place[y] # Uploading(d)
          /\ \A p \in Project :
                place[y] = OnDevice(p) =>
                      /\ p \in streams
                      /\ job[k].op = "archive" => p = dev.project
                      /\ ~(pc[k] \in Done /\ ~Condemned(blk[k]))
        BY <2>2 DEF TakenInv
    <2>4. y # x
        BY <2>1, <2>3
    <2>5. place'[y] = place[y]
        BY <2>1, <2>4
    <2>6. ~Condemned(blk[k])' => ~Condemned(blk[k])
        BY <1>0, <2>2
    <2> QED
        BY <2>2, <2>3, <2>5, <2>6
<1>24. ASSUME NEW j \in Job, SaveEdit(j) PROVE TakenInv'
    <2>1. /\ pc' = [pc EXCEPT ![j] = "over"] /\ job[j].op = "edit"
          /\ UNCHANGED <<job, blk, base, met, streams, place>>
        BY <1>24 DEF SaveEdit, Goto
    <2>2. SaveOutside(j, Edited(j))
        BY <1>24 DEF SaveEdit
    <2>3. \A k \in Job : job[k].op \in {"archive", "reset"} => pc'[k] = pc[k]
        BY <2>1
    <2> QED
        BY <2>1, <2>2, <2>3, TakenOutside
<1>25. ASSUME NEW x \in Item, SaveUpload(x) PROVE TakenInv'
    <2>1. UNCHANGED <<pc, job, blk, base, met, streams, place>>
        BY <1>25 DEF SaveUpload
    <2>2. PICK d \in Dev : SaveOutside(x, d)
        BY <1>25 DEF SaveUpload
    <2> QED
        BY <2>1, <2>2, TakenOutside
<1>23. CASE UNCHANGED vars
    BY <1>23 DEF vars, Condemned
<1> QED
    BY <1>1, <1>2, <1>3, <1>4, <1>5, <1>6, <1>7, <1>8, <1>9, <1>10, <1>11, <1>12,
       <1>13, <1>14, <1>15, <1>16, <1>17, <1>18, <1>19, <1>20, <1>21, <1>22,
       <1>23, <1>24, <1>25 DEF Next, Handler, Execute, Archive, Reset, Move, Delete, Upload

\* A step that moves no reading, stream, project or move keeps them together.
LEMMA QuietReach ==
    ASSUME ReachInv, met' = {} => met = {}, ~cut' => ~cut,
           dev'.project = dev.project, streams' = streams, place' = place,
           late' = late, strayed' = strayed,
           \A j \in Job : /\ pc'[j] \in {"moved", "shifted"} <=> Moving(j)
                          /\ Moving(j) => /\ pc'[j] = pc[j] /\ job'[j] = job[j]
                                          /\ read'[j] = read[j]
    PROVE  ReachInv'
<1>1. \A j \in Job : Moving(j)' <=> Moving(j)
    BY DEF Moving
<1>2. \A x \in Item : \A p : Under(x, p)' <=> Under(x, p)
    BY DEF Under
<1> SUFFICES ASSUME DevReach, SrcReach, ShiftReach, ItemReach
             PROVE  DevReach' /\ SrcReach' /\ ShiftReach' /\ ItemReach'
    BY DEF ReachInv
<1>3. DevReach' /\ SrcReach'
    BY <1>1 DEF DevReach, SrcReach
<1>4. ShiftReach'
    <2> SUFFICES ASSUME NEW j \in Job, pc'[j] = "shifted", job'[j].all,
                        read'[j].dev.project # job'[j].dst, NEW x \in Item,
                        Under(x, read[j].dev.project)'
                 PROVE  x \in late'
        BY DEF ShiftReach
    <2>1. pc[j] = "shifted" /\ job'[j] = job[j] /\ read'[j] = read[j]
        BY DEF Moving
    <2>2. Under(x, read[j].dev.project)
        BY <2>1 DEF Under
    <2> QED
        BY <2>1, <2>2 DEF ShiftReach
<1>5. ItemReach'
    BY <1>1, <1>2 DEF ItemReach
<1> QED
    BY <1>3, <1>4, <1>5

\* So does one that takes readings off the device.
LEMMA TakeReach ==
    ASSUME TypeOK, ReachInv, met' = met, cut' = cut, dev' = dev,
           streams' = streams, late' = late, strayed' = strayed, job' = job, read' = read,
           NEW S, NEW to, Rewrite(S, to),
           \A p \in Project : to # OnDevice(p), \A d \in Dev : to # Uploading(d),
           \A j \in Job : /\ pc'[j] \in {"moved", "shifted"} <=> Moving(j)
                          /\ Moving(j) => pc'[j] = pc[j]
    PROVE  ReachInv'
<1>1. \A j \in Job : Moving(j)' <=> Moving(j)
    BY DEF Moving
<1>2. \A x \in Item, p \in Project : Under(x, p)' => Under(x, p)
    BY DEF Under, Rewrite
<1> SUFFICES ASSUME DevReach, SrcReach, ShiftReach, ItemReach
             PROVE  DevReach' /\ SrcReach' /\ ShiftReach' /\ ItemReach'
    BY DEF ReachInv
<1>3. DevReach' /\ SrcReach'
    BY <1>1 DEF DevReach, SrcReach
<1>4. ShiftReach'
    <2> SUFFICES ASSUME NEW j \in Job, pc'[j] = "shifted", job'[j].all,
                        read'[j].dev.project # job'[j].dst, NEW x \in Item,
                        Under(x, read[j].dev.project)'
                 PROVE  x \in late'
        BY DEF ShiftReach
    <2>1. pc[j] = "shifted"
        BY DEF Moving
    <2>2. read[j].dev.project \in Project
        BY DEF TypeOK, Dev
    <2>3. Under(x, read[j].dev.project)
        BY <1>2, <2>2 DEF Under
    <2> QED
        BY <2>1, <2>3 DEF ShiftReach
<1>5. ItemReach'
    BY <1>1, <1>2 DEF ItemReach
<1> QED
    BY <1>3, <1>4, <1>5

\* Nor does the project of the device matter any more once it has strayed.
LEMMA StrayReach ==
    ASSUME ReachInv, met' = met, cut' = cut, strayed', streams' = streams,
           place' = place, late' = late, job' = job, read' = read,
           \A j \in Job : /\ pc'[j] \in {"moved", "shifted"} <=> Moving(j)
                          /\ Moving(j) => pc'[j] = pc[j]
    PROVE  ReachInv'
<1>1. \A j \in Job : Moving(j)' <=> Moving(j)
    BY DEF Moving
<1>2. \A x \in Item : \A p : Under(x, p)' <=> Under(x, p)
    BY DEF Under
<1> SUFFICES ASSUME ShiftReach, ItemReach
             PROVE  DevReach' /\ SrcReach' /\ ShiftReach' /\ ItemReach'
    BY DEF ReachInv
<1>3. DevReach' /\ SrcReach'
    BY DEF DevReach, SrcReach
<1>4. ShiftReach'
    BY <1>2 DEF ShiftReach, Moving, Under
<1>5. ItemReach'
    BY <1>1, <1>2 DEF ItemReach
<1> QED
    BY <1>3, <1>4, <1>5

\* Readings and streams stay together.
LEMMA ReachStep == IInv /\ ReachInv /\ [Next]_vars => ReachInv'
<1> SUFFICES ASSUME IInv /\ ReachInv, [Next]_vars PROVE ReachInv'
    OBVIOUS
<1> USE DeviceAssumption
<1>0. ASSUME met = {}, ~strayed, NEW j \in Job, OnTheDevice(j)
      PROVE  /\ pc[j] \in Handling \/ AtRead(j) => read[j].dev.project = dev.project
             /\ AtMoved(j) => dev.project = job[j].dst
    BY <1>0 DEF IInv, RowHeld, StrayInv, Holds
<1>a. ASSUME met = {}, NEW j \in Job, NEW k \in Job, Open(j), Open(k),
             OnTheDevice(j), OnTheDevice(k)
      PROVE  j = k
    BY <1>a, TwoMeet DEF IInv
<1>1. ASSUME NEW j \in Job, NEW r \in Request, Ask(j, r) PROVE ReachInv'
    BY <1>1, QuietReach DEF Ask, Goto, Moving, IInv, TypeOK
<1>2. ASSUME NEW j \in Job, CreateBlock(j) PROVE ReachInv'
    BY <1>2, QuietReach DEF CreateBlock, Goto, Moving, IInv, TypeOK, OpOfPoint, Handling, Working
<1>3. ASSUME NEW j \in Job, MarkBusy(j) PROVE ReachInv'
    <2>1. /\ pc' = [pc EXCEPT ![j] = "marked"] /\ pc[j] \in Handling /\ OnTheDevice(j)
          /\ dev'.project = read[j].dev.project
          /\ UNCHANGED <<streams, place, late, strayed, met, cut, job, read>>
        BY <1>3 DEF MarkBusy, Save, Goto, Handling, OnTheDevice, IInv, TypeOK,
           OpOfPoint, Dev
    <2>2. CASE strayed
        BY <2>1, <2>2, StrayReach DEF Moving, Handling, IInv, TypeOK
    <2>3. CASE ~strayed
        <3>1. met = {} => dev'.project = dev.project
            BY <1>0, <2>1, <2>3
        <3>2. CASE met # {}
            BY <2>1, <3>2 DEF ReachInv
        <3>3. CASE dev'.project = dev.project
            BY <2>1, <3>3, QuietReach DEF Moving, Handling, IInv, TypeOK
        <3> QED
            BY <3>1, <3>2, <3>3
    <2> QED
        BY <2>2, <2>3
<1>4. ASSUME NEW j \in Job, Send(j) PROVE ReachInv'
    BY <1>4, QuietReach DEF Send, Goto, Moving, IInv, TypeOK, OpOfPoint, Handling, Working
<1>5. ASSUME NEW j \in Job, Die(j) PROVE ReachInv'
    BY <1>5, QuietReach DEF Die, Goto, Moving, IInv, TypeOK, OpOfPoint, Handling, Working
<1>6. ASSUME NEW j \in Job, Start(j) PROVE ReachInv'
    BY <1>6, QuietReach DEF Start, Goto, Moving, IInv, TypeOK, OpOfPoint, Handling, Working
<1>7. ASSUME NEW j \in Job, HardError(j) PROVE ReachInv'
    BY <1>7, QuietReach DEF HardError, Goto, Moving, IInv, TypeOK, OpOfPoint, Handling, Working
<1>8. ASSUME NEW j \in Job, Clone(j) PROVE ReachInv'
    BY <1>8, QuietReach DEF Clone, Goto, Moving, IInv, TypeOK, OpOfPoint, Handling, Working
<1>9. ASSUME NEW j \in Job, Migrate(j) PROVE ReachInv'
    <2> DEFINE S == IF HasRow(j) /\ blk[j] \in cloned THEN {OnDevice(read[j].dev.project)} ELSE {}
    <2>1. /\ \A p \in Project : InBlock(blk[j]) # OnDevice(p)
          /\ \A d \in Dev : InBlock(blk[j]) # Uploading(d)
        BY DEF InBlock, OnDevice, Uploading
    <2>2. Rewrite(S, InBlock(blk[j]))
        BY <1>9 DEF Migrate
    <2>3. UNCHANGED <<met, cut, dev, streams, late, strayed, job, read>>
        BY <1>9 DEF Migrate
    <2>4. \A k \in Job : /\ pc'[k] \in {"moved", "shifted"} <=> Moving(k)
                         /\ Moving(k) => pc'[k] = pc[k]
        BY <1>9 DEF Migrate, Goto, Moving, IInv, TypeOK
    <2> HIDE DEF S
    <2> QED
        BY <2>1, <2>2, <2>3, <2>4, TakeReach DEF IInv
<1>10. ASSUME NEW j \in Job, Complete(j) PROVE ReachInv'
    BY <1>10, QuietReach DEF Complete, Goto, Moving, IInv, TypeOK, OpOfPoint, Handling, Working
<1>11. ASSUME NEW j \in Job, Clear(j) PROVE ReachInv'
    <2> DEFINE S == {OnDevice(p) : p \in streams} \cup
               (IF job[j].all THEN {OnDevice(read[j].dev.project)} ELSE {})
    <2>1. /\ \A p \in Project : Gone # OnDevice(p)
          /\ \A d \in Dev : Gone # Uploading(d)
        BY DEF Gone, OnDevice, Uploading
    <2>2. Rewrite(S, Gone)
        BY <1>11 DEF Clear
    <2>3. UNCHANGED <<met, cut, dev, streams, late, strayed, job, read>>
        BY <1>11 DEF Clear
    <2>4. \A k \in Job : /\ pc'[k] \in {"moved", "shifted"} <=> Moving(k)
                         /\ Moving(k) => pc'[k] = pc[k]
        BY <1>11 DEF Clear, Goto, Moving, IInv, TypeOK
    <2> HIDE DEF S
    <2> QED
        BY <2>1, <2>2, <2>3, <2>4, TakeReach DEF IInv
<1>12. ASSUME NEW j \in Job, MoveRow(j) PROVE ReachInv'
    <2> SUFFICES ASSUME met' = {}, ~cut'
                 PROVE  DevReach' /\ SrcReach' /\ ShiftReach' /\ ItemReach'
        BY DEF ReachInv
    <2>1. /\ pc' = [pc EXCEPT ![j] = "moved"] /\ pc[j] = "started"
          /\ job[j].op = "move" /\ OnTheDevice(j) /\ Open(j) /\ AtRead(j)
          /\ UNCHANGED <<streams, place, late, strayed, met, cut, job, read>>
        BY <1>12 DEF MoveRow, Save, Goto, OnTheDevice, Open, AtRead
    <2>2. DevReach /\ SrcReach /\ ShiftReach /\ ItemReach
        BY <2>1 DEF ReachInv
    <2>3. \A k \in Job : ~Moving(k)
        BY <1>a, <2>1 DEF Moving, Open, OnTheDevice, IInv, OpOfPoint
    <2>4. \A k \in Job : Moving(k)' <=> k = j
        BY <2>1, <2>3 DEF Moving, IInv, TypeOK
    <2>5. \A y \in Item, p \in Project : Under(y, p)' <=> Under(y, p)
        BY <2>1 DEF Under
    <2>6. DevReach'
        BY <2>4 DEF DevReach
    <2>7. SrcReach'
        <3> SUFFICES ASSUME ~strayed PROVE read[j].dev.project \in streams
            BY <2>1, <2>4 DEF SrcReach
        <3>1. read[j].dev.project = dev.project
            BY <1>0, <2>1
        <3> QED
            BY <2>2, <2>3, <3>1 DEF DevReach
    <2>8. ShiftReach'
        BY <2>1, <2>3 DEF ShiftReach, Moving, IInv, TypeOK
    <2>9. ItemReach'
        BY <2>1, <2>2, <2>3, <2>5 DEF ItemReach
    <2> QED
        BY <2>6, <2>7, <2>8, <2>9
<1>13. ASSUME NEW j \in Job, Shift(j) PROVE ReachInv'
    <2> SUFFICES ASSUME met' = {}, ~cut'
                 PROVE  DevReach' /\ SrcReach' /\ ShiftReach' /\ ItemReach'
        BY DEF ReachInv
    <2> DEFINE src == read[j].dev.project
               dst == job[j].dst
    <2>1. /\ pc' = [pc EXCEPT ![j] = "shifted"] /\ pc[j] = "moved"
          /\ OnTheDevice(j) /\ Open(j)
          /\ UNCHANGED <<dev, streams, strayed, met, cut, job, read>>
        BY <1>13 DEF Shift, Goto, OnTheDevice, Open, IInv, OpOfPoint
    <2>2. DevReach /\ SrcReach /\ ShiftReach /\ ItemReach
        BY <2>1 DEF ReachInv
    <2>3. \A k \in Job : Moving(k) <=> k = j
        BY <1>a, <2>1 DEF Moving, Open, OnTheDevice, IInv, OpOfPoint
    <2>4. \A k \in Job : Moving(k)' <=> k = j
        BY <2>1, <2>3 DEF Moving, IInv, TypeOK
    <2>5. late \subseteq late' /\ src \in Project /\ dst \in Project
        BY <1>13 DEF Shift, IInv, TypeOK, Dev
    <2>6. ASSUME NEW y \in Item, place'[y] # place[y]
          PROVE  /\ job[j].all /\ src \in streams
                 /\ place[y] = OnDevice(src) /\ place'[y] = OnDevice(dst)
        BY <1>13, <2>6 DEF Shift, Rewrite
    <2>7. DevReach' /\ SrcReach'
        BY <2>1, <2>2, <2>3, <2>4 DEF DevReach, SrcReach
    <2>8. \A p, q \in Project : OnDevice(p) = OnDevice(q) => p = q
        BY DEF OnDevice
    <2>9. \A p \in Project, d \in Dev : OnDevice(p) # Uploading(d)
        BY DEF OnDevice, Uploading
    <2>10. ShiftReach'
        <3> SUFFICES ASSUME job[j].all, src # dst, NEW y \in Item,
                            Under(y, src)'
                     PROVE  y \in late'
            BY <2>1, <2>3, <2>4 DEF ShiftReach, Moving, Under, IInv, TypeOK
        <3>0. \/ place'[y] = OnDevice(src)
              \/ \E d \in Dev : place'[y] = Uploading(d) /\ d.project = src
            BY <2>1 DEF Under
        <3>1. place'[y] = place[y]
            BY <2>5, <2>6, <2>8, <2>9, <3>0
        <3>2. CASE \E d \in Dev : place[y] = Uploading(d) /\ d.project = src
            BY <1>13, <3>2 DEF Shift
        <3>3. CASE place[y] = OnDevice(src)
            <4>1. src \notin streams
                BY <1>13, <3>1, <3>3, <2>5, <2>8 DEF Shift, Rewrite
            <4>2. Under(y, src)
                BY <3>3 DEF Under
            <4> QED
                BY <2>2, <2>3, <2>5, <4>1, <4>2 DEF ItemReach
        <3> QED
            BY <3>0, <3>1, <3>2, <3>3
    <2>11. ItemReach'
        <3> SUFFICES ASSUME NEW y \in Item, NEW p \in Project, Under(y, p)'
                     PROVE  \/ p \in streams \/ y \in late'
                            \/ p = dst /\ src \in streams
            BY <2>1, <2>4 DEF ItemReach
        <3>1. CASE place'[y] = place[y]
            <4>1. Under(y, p)
                BY <3>1 DEF Under
            <4> QED
                BY <2>2, <2>3, <2>5, <4>1 DEF ItemReach
        <3>2. CASE place'[y] # place[y]
            BY <2>5, <2>6, <2>8, <2>9, <3>2 DEF Under
        <3> QED
            BY <3>1, <3>2
    <2> QED
        BY <2>7, <2>10, <2>11
<1>14. ASSUME NEW j \in Job, Rename(j) PROVE ReachInv'
    <2> SUFFICES ASSUME met' = {}, ~cut'
                 PROVE  DevReach' /\ SrcReach' /\ ShiftReach' /\ ItemReach'
        BY DEF ReachInv
    <2> DEFINE src == read[j].dev.project
               dst == job[j].dst
    <2>1. /\ pc' = [pc EXCEPT ![j] = "renamed"] /\ pc[j] = "shifted"
          /\ OnTheDevice(j) /\ Open(j) /\ AtMoved(j)
          /\ UNCHANGED <<dev, place, late, strayed, met, cut, job, read>>
        BY <1>14 DEF Rename, Goto, OnTheDevice, Open, AtMoved, IInv, OpOfPoint
    <2>2. DevReach /\ SrcReach /\ ShiftReach /\ ItemReach
        BY <2>1 DEF ReachInv
    <2>3. \A k \in Job : Moving(k) <=> k = j
        BY <1>a, <2>1 DEF Moving, Open, OnTheDevice, IInv, OpOfPoint
    <2>4. \A k \in Job : ~Moving(k)'
        BY <2>1, <2>3 DEF Moving, IInv, TypeOK
    <2>5. src \in Project /\ dst \in Project
        BY DEF IInv, TypeOK, Dev
    <2>6. /\ src \in streams => dst \in streams'
          /\ \A p \in streams : p \in streams' \/ (p = src /\ job[j].all /\ p # dst)
        BY <1>14 DEF Rename
    <2>7. DevReach'
        <3> SUFFICES ASSUME ~strayed PROVE dev.project \in streams'
            BY <2>1 DEF DevReach
        <3>1. src \in streams /\ dev.project = dst
            BY <1>0, <2>1, <2>2, <2>3 DEF SrcReach
        <3> QED
            BY <2>6, <3>1
    <2>8. SrcReach' /\ ShiftReach'
        BY <2>4 DEF SrcReach, ShiftReach, Moving
    <2>9. ItemReach'
        <3> SUFFICES ASSUME NEW y \in Item, NEW p \in Project, Under(y, p),
                            y \notin late
                     PROVE  p \in streams'
            BY <2>1 DEF ItemReach, Under
        <3>1. p \in streams \/ (p = dst /\ src \in streams)
            BY <2>2, <2>3 DEF ItemReach
        <3>2. ASSUME p = src, job[j].all, p # dst PROVE FALSE
            BY <2>1, <2>2, <3>2 DEF ShiftReach
        <3> QED
            BY <2>6, <3>1, <3>2
    <2> QED
        BY <2>7, <2>8, <2>9
<1>15. ASSUME NEW j \in Job, Erase(j) PROVE ReachInv'
    <2> DEFINE S == Erased(j)
    <2>1. /\ \A p \in Project : Gone # OnDevice(p)
          /\ \A d \in Dev : Gone # Uploading(d)
        BY DEF Gone, OnDevice, Uploading
    <2>2. Rewrite(S, Gone)
        BY <1>15 DEF Erase
    <2>3. UNCHANGED <<met, cut, dev, streams, late, strayed, job, read>>
        BY <1>15 DEF Erase
    <2>4. \A k \in Job : /\ pc'[k] \in {"moved", "shifted"} <=> Moving(k)
                         /\ Moving(k) => pc'[k] = pc[k]
        BY <1>15 DEF Erase, Goto, Moving, IInv, TypeOK
    <2> HIDE DEF S
    <2> QED
        BY <2>1, <2>2, <2>3, <2>4, TakeReach DEF IInv
<1>16. ASSUME NEW j \in Job, Unlist(j) PROVE ReachInv'
    <2> DEFINE S == Erased(j)
    <2>1. /\ \A p \in Project : Gone # OnDevice(p)
          /\ \A d \in Dev : Gone # Uploading(d)
        BY DEF Gone, OnDevice, Uploading
    <2>2. Rewrite(S, Gone)
        BY <1>16 DEF Unlist
    <2>3. UNCHANGED <<met, cut, dev, streams, late, strayed, job, read>>
        BY <1>16 DEF Unlist
    <2>4. \A k \in Job : /\ pc'[k] \in {"moved", "shifted"} <=> Moving(k)
                         /\ Moving(k) => pc'[k] = pc[k]
        BY <1>16 DEF Unlist, Goto, Moving, IInv, TypeOK
    <2> HIDE DEF S
    <2> QED
        BY <2>1, <2>2, <2>3, <2>4, TakeReach DEF IInv
<1>17. ASSUME NEW j \in Job, Notify(j) PROVE ReachInv'
    BY <1>17, QuietReach DEF Notify, Goto, Moving, IInv, TypeOK, OpOfPoint, Handling, Working
<1>18. ASSUME NEW j \in Job, Finish(j) PROVE ReachInv'
    <2>1. /\ pc' = [pc EXCEPT ![j] = "finished"] /\ pc[j] = "notified"
          /\ UNCHANGED <<streams, place, late, strayed, met, cut, job, read>>
        BY <1>18 DEF Finish, Goto
    <2>2. \A k \in Job : /\ pc'[k] \in {"moved", "shifted"} <=> Moving(k)
                         /\ Moving(k) => pc'[k] = pc[k]
        BY <2>1 DEF Moving, IInv, TypeOK
    <2>3. CASE strayed
        BY <2>1, <2>2, <2>3, StrayReach
    <2>4. CASE met # {}
        BY <2>1, <2>4 DEF ReachInv
    <2>5. CASE ~strayed /\ met = {}
        <3>1. dev'.project = dev.project
            <4>1. CASE ~OnTheDevice(j)
                BY <1>18, <4>1 DEF Finish, Save
            <4>2. CASE job[j].op = "move"
                <5>1. dev.project = job[j].dst
                    BY <1>0, <2>1, <2>5, <4>2 DEF AtMoved, OnTheDevice
                <5> QED
                    BY <1>18, <4>2, <5>1 DEF Finish, Save, Held, OnTheDevice, IInv,
                       TypeOK, Dev
            <4>3. CASE OnTheDevice(j) /\ job[j].op # "move"
                <5>1. read[j].dev.project = dev.project
                    BY <1>0, <2>1, <2>5, <4>3 DEF AtRead
                <5> QED
                    BY <1>18, <4>3, <5>1 DEF Finish, Save, Held, IInv, TypeOK, Dev
            <4> QED
                BY <4>1, <4>2, <4>3
        <3> QED
            BY <2>1, <2>2, <3>1, QuietReach
    <2> QED
        BY <2>3, <2>4, <2>5
<1>19. ASSUME NEW j \in Job, Ack(j) PROVE ReachInv'
    BY <1>19, QuietReach DEF Ack, Goto, Moving, IInv, TypeOK, OpOfPoint, Handling, Working
<1>20. ASSUME NEW j \in Job, Retry(j) PROVE ReachInv'
    <2>1. /\ (cut' = (cut \/ pc[j] \in {"moved", "shifted"}))
          /\ pc' = [pc EXCEPT ![j] = "queued"]
          /\ UNCHANGED <<met, dev, streams, place, late, strayed, job, read>>
        BY <1>20 DEF Retry, Goto
    <2>2. CASE cut'
        BY <2>2 DEF ReachInv
    <2>3. CASE ~cut'
        <3>1. ~cut /\ ~Moving(j)
            BY <2>1, <2>3, Zenon DEF Moving
        <3>2. \A k \in Job : /\ pc'[k] \in {"moved", "shifted"} <=> Moving(k)
                             /\ Moving(k) => pc'[k] = pc[k]
            BY <2>1, <3>1 DEF Moving, IInv, TypeOK
        <3> QED
            BY <2>1, <3>1, <3>2, QuietReach
    <2> QED
        BY <2>2, <2>3
<1>21. ASSUME NEW x \in Item, BeginUpload(x) PROVE ReachInv'
    <2> SUFFICES ASSUME met' = {}, ~cut'
                 PROVE  DevReach' /\ SrcReach' /\ ShiftReach' /\ ItemReach'
        BY DEF ReachInv
    <2>1. /\ place' = [place EXCEPT ![x] = Uploading(dev)]
          /\ late' = IF strayed THEN late \cup {x} ELSE late
          /\ UNCHANGED <<dev, streams, strayed, met, cut, pc, job, read>>
        BY <1>21 DEF BeginUpload
    <2>2. DevReach /\ SrcReach /\ ShiftReach /\ ItemReach
        BY <2>1 DEF ReachInv
    <2>3. DevReach' /\ SrcReach'
        BY <2>1, <2>2 DEF DevReach, SrcReach, Moving
    <2>4. \A y \in Item, p \in Project : y # x => (Under(y, p)' <=> Under(y, p))
        BY <2>1 DEF Under
    <2>5. \A p \in Project : Under(x, p)' => p = dev.project
        BY <2>1 DEF Under, OnDevice, Uploading, IInv, TypeOK
    <2>6. ASSUME ~strayed
          PROVE  \/ dev.project \in streams
                 \/ \E k \in Job : /\ Moving(k) /\ dev.project = job[k].dst
                                   /\ read[k].dev.project \in streams
        <3>1. ASSUME NEW k \in Job, Moving(k)
              PROVE  dev.project = job[k].dst /\ read[k].dev.project \in streams
            <4>1. OnTheDevice(k) /\ AtMoved(k)
                BY <3>1 DEF Moving, AtMoved, OnTheDevice, IInv, OpOfPoint
            <4> QED
                BY <1>0, <2>1, <2>2, <2>6, <3>1, <4>1 DEF SrcReach
        <3> QED
            BY <2>2, <2>6, <3>1 DEF DevReach
    <2>7. ItemReach'
        <3> SUFFICES ASSUME NEW y \in Item, NEW p \in Project, Under(y, p)',
                            y \notin late'
                     PROVE  \/ p \in streams
                            \/ \E k \in Job : /\ Moving(k) /\ p = job[k].dst
                                              /\ read[k].dev.project \in streams
            BY <2>1 DEF ItemReach, Moving
        <3>1. CASE y # x
            BY <2>1, <2>2, <2>4, <3>1 DEF ItemReach
        <3>2. CASE y = x
            BY <2>1, <2>5, <2>6, <3>2
        <3> QED
            BY <3>1, <3>2
    <2>8. ShiftReach'
        <3> SUFFICES ASSUME NEW k \in Job, pc[k] = "shifted", job[k].all,
                            read[k].dev.project # job[k].dst, NEW y \in Item,
                            Under(y, read[k].dev.project)', y \notin late'
                     PROVE  FALSE
            BY <2>1 DEF ShiftReach, Under
        <3>1. read[k].dev.project \in Project /\ OnTheDevice(k) /\ AtMoved(k)
            BY DEF IInv, TypeOK, Dev, OpOfPoint, OnTheDevice, AtMoved
        <3>2. CASE y # x
            BY <2>1, <2>2, <2>4, <3>1, <3>2 DEF ShiftReach
        <3>3. CASE y = x
            <4>1. ~strayed /\ read[k].dev.project = dev.project
                BY <2>1, <2>5, <3>1, <3>3
            <4> QED
                BY <1>0, <2>1, <3>1, <4>1
        <3> QED
            BY <3>2, <3>3
    <2> QED
        BY <2>3, <2>7, <2>8
<1>22. ASSUME NEW x \in Item, EndUpload(x) PROVE ReachInv'
    <2> SUFFICES ASSUME met' = {}, ~cut'
                 PROVE  DevReach' /\ SrcReach' /\ ShiftReach' /\ ItemReach'
        BY DEF ReachInv
    <2>1. /\ \E d \in Dev : /\ place[x] = Uploading(d)
                            /\ place' = [place EXCEPT ![x] = OnDevice(d.project)]
          /\ UNCHANGED <<dev, streams, late, strayed, met, cut, pc, job, read>>
        BY <1>22 DEF EndUpload
    <2>2. DevReach /\ SrcReach /\ ShiftReach /\ ItemReach
        BY <2>1 DEF ReachInv
    <2>3. DevReach' /\ SrcReach'
        BY <2>1, <2>2 DEF DevReach, SrcReach, Moving
    <2>4. \A y \in Item, p \in Project : Under(y, p)' => Under(y, p)
        BY <2>1 DEF Under, OnDevice, Uploading, IInv, TypeOK
    <2>5. ItemReach'
        BY <2>1, <2>2, <2>4 DEF ItemReach, Moving
    <2>6. ShiftReach'
        <3> SUFFICES ASSUME NEW k \in Job, pc[k] = "shifted", job[k].all,
                            read[k].dev.project # job[k].dst, NEW y \in Item,
                            Under(y, read[k].dev.project)'
                     PROVE  y \in late
            BY <2>1 DEF ShiftReach, Under
        <3>1. read[k].dev.project \in Project
            BY DEF IInv, TypeOK, Dev
        <3>2. Under(y, read[k].dev.project)
            <4>1. \A p \in Project : Under(y, p)' => Under(y, p)
                BY <2>4
            <4>2. read' = read
                BY <2>1
            <4> QED
                BY <3>1, <4>1, <4>2 DEF Under
        <3> QED
            BY <2>2, <3>2 DEF ShiftReach
    <2> QED
        BY <2>3, <2>5, <2>6
<1>24. ASSUME NEW j \in Job, SaveEdit(j) PROVE ReachInv'
    <2>1. /\ \A k \in Job : /\ pc'[k] \in {"moved", "shifted"} <=> Moving(k)
                            /\ Moving(k) => pc'[k] = pc[k]
          /\ UNCHANGED <<streams, place, late, met, cut, job, read>>
        BY <1>24 DEF SaveEdit, Goto, Moving, IInv, TypeOK
    <2>2. strayed' \/ (strayed' = strayed /\ dev'.project = dev.project)
        BY <1>24 DEF SaveEdit, SaveOutside, Save, IInv, TypeOK
    <2> QED
        BY <2>1, <2>2, StrayReach, QuietReach
<1>25. ASSUME NEW x \in Item, SaveUpload(x) PROVE ReachInv'
    <2>1. /\ \A k \in Job : /\ pc'[k] \in {"moved", "shifted"} <=> Moving(k)
                            /\ Moving(k) => pc'[k] = pc[k]
          /\ UNCHANGED <<streams, place, late, met, cut, job, read>>
        BY <1>25 DEF SaveUpload, Moving
    <2>2. strayed' \/ (strayed' = strayed /\ dev'.project = dev.project)
        BY <1>25 DEF SaveUpload, SaveOutside, Save, IInv, TypeOK
    <2> QED
        BY <2>1, <2>2, StrayReach, QuietReach
<1>23. CASE UNCHANGED vars
    BY <1>23, QuietReach DEF vars, Moving
<1> QED
    BY <1>1, <1>2, <1>3, <1>4, <1>5, <1>6, <1>7, <1>8, <1>9, <1>10, <1>11, <1>12,
       <1>13, <1>14, <1>15, <1>16, <1>17, <1>18, <1>19, <1>20, <1>21, <1>22,
       <1>23, <1>24, <1>25 DEF Next, Handler, Execute, Archive, Reset, Move, Delete, Upload

LEMMA InitTaken == Init => FreshInv /\ RowInv /\ TakenInv /\ ReachInv
<1> SUFFICES ASSUME Init PROVE FreshInv /\ RowInv /\ TakenInv /\ ReachInv
    OBVIOUS
<1>1. /\ \A j \in Job : pc[j] = "idle" /\ job[j].op = "none"
      /\ streams = {Home} /\ dev.project = Home
    BY DEF Init, NoRequest
<1>2. \A x \in Item : \A p : ~Under(x, p)
    BY DEF Init, Under, OnDevice, Uploading, InBlock, Absent
<1> QED
    BY <1>1, <1>2 DEF FreshInv, RowInv, TakenInv, ReachInv, DevReach, SrcReach, ShiftReach,
       ItemReach, Busy, Handling, Working, Moving

\* Whatever fails and is repeated, and whatever is uploaded meanwhile, an archive or
\* a reset that got past its data statements has left nothing of what it was asked
\* for on the device, unless jobs overlapped, its block was deleted, or an edit or
\* a report changed the project under it.
THEOREM TakenCompletely == Spec => []WorkTaken
<1>1. Init => IInv /\ FreshInv /\ RowInv /\ TakenInv
    BY InitInv, InitTaken
<1>2. IInv /\ FreshInv /\ RowInv /\ TakenInv /\ [Next]_vars =>
         IInv' /\ FreshInv' /\ RowInv' /\ TakenInv'
    BY StepInv, FreshStep, OwnRowStep, TakenStep
<1>3. IInv /\ TakenInv => WorkTaken
    <2> SUFFICES ASSUME IInv, TakenInv, NEW j \in Job, job[j].op \in {"archive", "reset"},
                        j \notin met \cup rerouted, ~Condemned(blk[j]), pc[j] \in Done,
                        NEW x \in base[j], NEW p \in Project, place[x] = OnDevice(p)
                 PROVE  FALSE
        BY DEF WorkTaken, Done
    <2>1. pc[j] \in Busy
        BY DEF Done, Busy, Working
    <2> QED
        BY <2>1 DEF TakenInv
<1> QED
    BY <1>1, <1>2, <1>3, PTL DEF Spec

\* Every reading stored for the device is under one of its streams, unless jobs
\* overlapped, a move was cut or is under way, or the reading came late: a move
\* overtook it, or it began after an edit or a report had changed the project.
THEOREM AlwaysReachable == Spec => []ReadingsReachable
<1>1. Init => IInv /\ ReachInv
    BY InitInv, InitTaken
<1>2. IInv /\ ReachInv /\ [Next]_vars => IInv' /\ ReachInv'
    BY StepInv, ReachStep
<1>3. IInv /\ ReachInv => ReadingsReachable
    BY DEF IInv, TypeOK, ReachInv, ItemReach, Under, Moving, ReadingsReachable
<1> QED
    BY <1>1, <1>2, <1>3, PTL DEF Spec
=============================================================================

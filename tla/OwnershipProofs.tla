--------------------------- MODULE OwnershipProofs ---------------------------
(***************************************************************************)
(* Proofs about Ownership: the Device row agrees with the projects, no     *)
(* reading is listed under another organization, and an unclaim leaves     *)
(* nothing.                                                                *)
(*                                                                         *)
(* The invariant: projects are created once and keep their gid and, unless *)
(* they are given away, their organization (OrgInv, CreateInv, GiveInv),   *)
(* so that every row of the device that somebody has read and will save is *)
(* as right as the one in the table (RowsInv); a job knows who was open    *)
(* together with it (MetInv), so that a reading that nobody overlapped     *)
(* belongs to a stream of its project as long as it is stored (UploadInv,  *)
(* KeptInv), and an unclaim that nobody overlapped has done its part for   *)
(* good at each of its steps (LeaveInv).                                   *)
(***************************************************************************)
EXTENDS Ownership, TLAPS

\* Every project row has an organization, also after it has gone.
OrgInv == \A p \in Project : project[p].gid # 0 => project[p].org # None

\* The operation of a job fits how far it is.
PhaseInv ==
    \A j \in Job :
        /\ pc[j] = "claimed" => req[j].op = "claim"
        /\ pc[j] \in {"cleared", "dropped", "released", "erased"} =>
              req[j].op \in {"unclaim", "reset"}
        /\ pc[j] \in {"stripped", "removed"} => req[j].op = "delete"
        /\ pc[j] \in {"started", "queued"} => req[j].op \in {"unclaim", "reset", "delete"}
        /\ pc[j] = "idle" => place[j] = 0
        /\ pc[j] # "idle" => req[j] \in Asked
        /\ j \in pages => pc[j] # "idle" /\ req[j].staff /\ req[j].op # "delete"

\* A task that deletes a project has found it.
TargetInv == \A j \in Job : pc[j] \in {"started", "stripped"} /\ req[j].op = "delete" =>
                              mem[j].target \in Project

\* A project that is to be created has never existed, and is created once.
CreateInv ==
    \A j \in Job : pc[j] = "asked" /\ req[j].op = "create" =>
        /\ Fresh(req[j].project)
        /\ \A k \in Job \ {j} : pc[k] = "asked" /\ req[k].op = "create" =>
              req[k].project # req[j].project

\* A project that is given away has existed, and keeps its gid.
GiveInv ==
    \A j \in Job : pc[j] = "asked" /\ req[j].op = "give" =>
        /\ mem[j].gid # 0
        /\ ~Fresh(req[j].project)
        /\ project[req[j].project].gid \in {0, mem[j].gid}
        /\ \A k \in Job : pc[k] = "asked" /\ req[k].op = "give"
              /\ req[k].project = req[j].project => mem[k].gid = mem[j].gid

\* Streams are in projects that exist; so is a claim.
StreamsInv == \A p \in streams : project[p].gid # 0

\* A row of the device that is saved or may be saved.
RowOK(s) ==
    /\ s.project # None =>
          /\ project[s.project].org # None
          /\ s.project \in given \/ s.org = project[s.project].org
    /\ s.project = None /\ s.org # None =>
          \E j \in Job : pc[j] # "idle" /\ req[j].op \in {"semiclaim", "delete"}
RowsInv ==
    /\ RowOK(dev)
    /\ \A j \in Job : RowOK(mem[j].save) /\ RowOK(mem[j].held)
ClaimInv == dev.project # None => Exists(dev.project)

\* Jobs that are open together, pages included, have met.
MetInv ==
    \A j \in Job :
        /\ Open(j) => \A k \in Job \ {j} : Open(k) \/ k \in pages => k \in met[j]
        /\ \A k \in met[j] : pc[k] # "idle"

\* A stored reading, and an upload that will store one, has its stream.
KeptFor(x, g) ==
    \E p \in streams : project[p].gid = g /\ (p \in given \/ project[p].org = owner[x])
UploadInv ==
    \A j \in Job : pc[j] = "asked" /\ req[j].op = "upload" /\ met[j] = {} =>
        KeptFor(j, mem[j].gid)
KeptInv ==
    \A x \in Reading : place[x] # 0 =>
        \/ x # Old /\ met[x] # {}
        \/ KeptFor(x, place[x])

\* What an unclaim that nobody else interferes with has done so far.
Alone(j) ==
    /\ req[j].op = "unclaim" /\ req[j].clean /\ ~req[j].staff
    /\ \A k \in met[j] : req[k].op \in {"create", "give", "delete"}
Leaves(j) ==
    Alone(j) =>
        /\ pc[j] \in {"cleared", "dropped", "released", "erased"} => streams = {}
        /\ pc[j] \in {"dropped", "released", "erased"} => reports = {}
        /\ pc[j] \in {"released", "erased"} => dev.project = None /\ dev.org = None
        /\ pc[j] = "erased" => \A x \in Reading : place[x] = 0
LeaveInv == \A j \in Job : Leaves(j)

IInv ==
    /\ TypeOK /\ PhaseInv /\ TargetInv /\ OrgInv /\ CreateInv /\ GiveInv /\ StreamsInv
    /\ ClaimInv /\ RowsInv /\ MetInv /\ UploadInv /\ KeptInv /\ LeaveInv

-----------------------------------------------------------------------------
(* The steps. *)

\* The types in three parts.
RowsOK ==
    /\ project \in [Project -> [gid : Gid, org : Org \cup {None}]]
    /\ dev \in Row
    /\ streams \subseteq Project
    /\ place \in [Reading -> Gid]
    /\ reports \subseteq Job
JobsOK ==
    /\ pc \in [Job -> {"idle", "asked", "claimed", "queued", "over"} \cup Working]
    /\ req \in [Job -> Request]
    /\ mem \in [Job -> Memory]
    /\ pages \subseteq Job
HistoryOK ==
    /\ owner \in [Reading -> Org \cup {None}]
    /\ again \subseteq Job /\ met \in [Job -> SUBSET Job]
    /\ given \subseteq Project
    /\ faults \in 0..MaxFault

LEMMA Distinct ==
    /\ None \notin Project /\ None \notin Org
    /\ Old \notin Job /\ Job \subseteq Reading
    /\ MaxGid \in Nat \ {0} /\ MaxFault \in Nat
BY OwnershipAssumption DEF Old, Reading

LEMMA RequestType ==
    ASSUME NEW r \in Asked
    PROVE  /\ r \in Request
           /\ r.op \in {"claim", "create", "give", "delete"} => r.project \in Project
           /\ r.op \in {"create", "give"} => r.org \in Org
           /\ r.staff => r.op \in {"claim", "semiclaim", "unclaim", "delete"}
BY OwnershipAssumption

LEMMA SavesType ==
    ASSUME TypeOK, NEW r \in Asked, Allowed(r) PROVE Saves(r) \in Row
<1>1. r \in Request /\ dev \in Row
    BY RequestType DEF TypeOK
<1>2. r.project \in Project \cup {None} /\ OrgOf(r.project) \in Org \cup {None}
    BY <1>1 DEF Request, OrgOf, TypeOK
<1>3. r.org \in Org \cup {None}
    BY <1>1 DEF Request
<1> QED
    BY <1>1, <1>2, <1>3 DEF Saves, Claims, Row

LEMMA FinalType ==
    ASSUME TypeOK, NEW j \in Job PROVE Final(j) \in Row
<1>1. mem[j].held \in Row
    BY DEF TypeOK, Memory
<1> QED
    BY <1>1 DEF Final, Row

LEMMA BlankType == Blank \in Memory
BY OwnershipAssumption DEF Blank, Memory, NoRow, Row, Gid

LEMMA GidType == 0 \in Gid
BY Distinct DEF Gid

LEMMA ForgetType ==
    ASSUME TypeOK, NEW j \in Job, Forget(j) PROVE mem' \in [Job -> Memory]
BY BlankType DEF TypeOK, Forget

LEMMA EndType ==
    ASSUME TypeOK, NEW j \in Job, End(j)
    PROVE  /\ pc' = [pc EXCEPT ![j] = "over"]
           /\ pc' \in [Job -> {"idle", "asked", "claimed", "queued", "over"} \cup Working]
           /\ mem' \in [Job -> Memory]
           /\ \A k \in Job : mem'[k] = mem[k] \/ (k = j /\ mem'[k] = Blank)
<1>1. pc' = [pc EXCEPT ![j] = "over"]
    BY DEF End, Goto
<1>2. mem' \in [Job -> Memory]
    BY ForgetType DEF End, TypeOK
<1>3. \A k \in Job : mem'[k] = mem[k] \/ (k = j /\ mem'[k] = Blank)
    <2>1. CASE j \in pages
        BY <2>1 DEF End
    <2>2. CASE j \notin pages
        BY <2>2 DEF End, Forget, TypeOK
    <2> QED
        BY <2>1, <2>2
<1> QED
    BY <1>1, <1>2, <1>3 DEF TypeOK

LEMMA ErasedType ==
    ASSUME TypeOK, NEW S, Erased(S)
    PROVE  /\ place' \in [Reading -> Gid]
           /\ \A x \in Reading : place'[x] = IF place[x] \in S THEN 0 ELSE place[x]
BY GidType DEF TypeOK, Erased

\* A project is removed.
LEMMA RemoveType ==
    ASSUME TypeOK, NEW p \in Project, Remove(p)
    PROVE  /\ RowsOK' <=> reports' \subseteq Job
           /\ project' = [project EXCEPT ![p] = [gid |-> 0, org |-> project[p].org]]
           /\ dev' = IF dev.project = p THEN [dev EXCEPT !.project = None] ELSE dev
           /\ streams' = streams \ {p}
           /\ \A x \in Reading :
                 place'[x] = IF p \in streams /\ place[x] = project[p].gid THEN 0 ELSE place[x]
<1>1. project[p].org \in Org \cup {None} /\ dev \in Row /\ 0 \in Gid
    BY GidType DEF TypeOK
<1>2. project' = [project EXCEPT ![p] = [gid |-> 0, org |-> project[p].org]]
    BY DEF Remove, Write, Gone
<1>3. project' \in [Project -> [gid : Gid, org : Org \cup {None}]]
    BY <1>1, <1>2 DEF TypeOK
<1>4. dev' = (IF dev.project = p THEN [dev EXCEPT !.project = None] ELSE dev) /\ dev' \in Row
    BY <1>1 DEF Remove, Row
<1>5. streams' = streams \ {p} /\ streams' \subseteq Project
    BY DEF Remove, TypeOK
<1>6. Erased(IF p \in streams THEN {project[p].gid} ELSE {})
    BY DEF Remove
<1>7. /\ place' \in [Reading -> Gid]
      /\ \A x \in Reading :
            place'[x] = IF p \in streams /\ place[x] = project[p].gid THEN 0 ELSE place[x]
    <2>1. CASE p \in streams
        BY <1>6, <2>1, ErasedType
    <2>2. CASE p \notin streams
        BY <1>6, <2>2, ErasedType
    <2> QED
        BY <2>1, <2>2
<1> QED
    BY <1>2, <1>3, <1>4, <1>5, <1>7 DEF RowsOK

\* The rows have their types.
LEMMA RowsTypes == TypeOK /\ TargetInv /\ [Next]_vars => RowsOK'
<1> SUFFICES ASSUME TypeOK /\ TargetInv, [Next]_vars PROVE RowsOK'
    OBVIOUS
<1>1. ASSUME NEW j \in Job, NEW r \in Asked, Ask(j, r) PROVE RowsOK'
    BY <1>1 DEF Ask, RowsOK, TypeOK
<1>2. ASSUME NEW j \in Job, Save(j) PROVE RowsOK'
    BY <1>2 DEF Save, Memory, RowsOK, TypeOK
<1>3. ASSUME NEW j \in Job, CreateStreams(j) PROVE RowsOK'
    <2>1. mem[j].save.project \in Project
        BY <1>3 DEF CreateStreams, Exists, Memory, Row, TypeOK
    <2> QED
        BY <1>3, <2>1 DEF CreateStreams, RowsOK, TypeOK
<1>4. ASSUME NEW j \in Job, Fail(j) PROVE RowsOK'
    BY <1>4 DEF Fail, RowsOK, TypeOK
<1>5. ASSUME NEW j \in Job, SavePage(j) PROVE RowsOK'
    BY <1>5 DEF SavePage, Memory, RowsOK, TypeOK
<1>6. ASSUME NEW j \in Job, Commit(j) PROVE RowsOK'
    <2>1. mem[j].gid \in Gid
        BY DEF Memory, TypeOK
    <2> QED
        BY <1>6, <2>1, Distinct DEF Commit, RowsOK, TypeOK
<1>7. ASSUME NEW j \in Job, Insert(j) PROVE RowsOK'
    <2>1. mem[j].gid \in Gid /\ req[j].org \in Org \cup {None}
        BY DEF Memory, Request, TypeOK
    <2> QED
        BY <1>7, <2>1 DEF Insert, Write, RowsOK, TypeOK
<1>8. ASSUME NEW j \in Job, Give(j) PROVE RowsOK'
    <2>1. mem[j].gid \in Gid /\ req[j].org \in Org \cup {None}
        BY DEF Memory, Request, TypeOK
    <2> QED
        BY <1>8, <2>1 DEF Give, Write, RowsOK, TypeOK
<1>9. ASSUME NEW j \in Job, Destroy(j) PROVE RowsOK'
    <2>1. CASE Exists(req[j].project)
        <3>1. req[j].project \in Project
            BY <2>1 DEF Exists, Request, TypeOK
        <3> QED
            BY <1>9, <2>1, <3>1, RemoveType DEF Destroy, TypeOK
    <2>2. CASE ~Exists(req[j].project)
        BY <1>9, <2>2 DEF Destroy, RowsOK, TypeOK
    <2> QED
        BY <2>1, <2>2
<1>10. ASSUME NEW j \in Job, Start(j) PROVE RowsOK'
    BY <1>10 DEF Start, RowsOK, TypeOK
<1>11. ASSUME NEW j \in Job, req[j].op \in {"unclaim", "reset"}, ClearStreams(j) PROVE RowsOK'
    BY <1>11, ErasedType DEF ClearStreams, RowsOK, TypeOK
<1>12. ASSUME NEW j \in Job, req[j].op \in {"unclaim", "reset"}, DropReports(j) PROVE RowsOK'
    BY <1>12 DEF DropReports, RowsOK, TypeOK
<1>13. ASSUME NEW j \in Job, req[j].op \in {"unclaim", "reset"}, Release(j) PROVE RowsOK'
    BY <1>13, FinalType DEF Release, RowsOK, TypeOK
<1>14. ASSUME NEW j \in Job, req[j].op \in {"unclaim", "reset"}, EraseData(j) PROVE RowsOK'
    BY <1>14, ErasedType DEF EraseData, RowsOK, TypeOK
<1>15. ASSUME NEW j \in Job, req[j].op = "delete", Find(j) PROVE RowsOK'
    BY <1>15 DEF Find, RowsOK, TypeOK
<1>16. ASSUME NEW j \in Job, req[j].op = "delete", Strip(j) PROVE RowsOK'
    BY <1>16, ErasedType DEF Strip, RowsOK, TypeOK
<1>17. ASSUME NEW j \in Job, req[j].op = "delete", RemoveProject(j) PROVE RowsOK'
    <2>1. mem[j].target \in Project
        BY <1>17 DEF RemoveProject, TargetInv
    <2> QED
        BY <1>17, <2>1, RemoveType DEF RemoveProject, TypeOK
<1>18. ASSUME NEW j \in Job, Ack(j) PROVE RowsOK'
    BY <1>18 DEF Ack, RowsOK, TypeOK
<1>19. ASSUME NEW j \in Job, Retry(j) PROVE RowsOK'
    BY <1>19 DEF Retry, RowsOK, TypeOK
<1>20. CASE UNCHANGED vars
    BY <1>20 DEF TypeOK, RowsOK, vars, jobs, history
<1> QED
    BY <1>1, <1>2, <1>3, <1>4, <1>5, <1>6, <1>7, <1>8, <1>9, <1>10, <1>11, <1>12,
       <1>13, <1>14, <1>15, <1>16, <1>17, <1>18, <1>19, <1>20 DEF Next, Unclaim,
       Delete

\* The jobs have their types.
LEMMA JobsTypes == TypeOK /\ [Next]_vars => JobsOK'
<1> SUFFICES ASSUME TypeOK, [Next]_vars PROVE JobsOK'
    OBVIOUS
<1>1. ASSUME NEW j \in Job, NEW r \in Asked, Ask(j, r) PROVE JobsOK'
    <2>1. Saves(r) \in Row /\ GidRead(r) \in Gid /\ r \in Request
        BY <1>1, SavesType, RequestType DEF Ask
    <2>2. [Blank EXCEPT !.save = Saves(r), !.gid = GidRead(r)] \in Memory
        BY <2>1, BlankType DEF Memory
    <2>3. mem' \in [Job -> Memory] /\ req' \in [Job -> Request]
        BY <1>1, <2>1, <2>2 DEF Ask, TypeOK
    <2>4. pages' \subseteq Job
        BY <1>1 DEF Ask, TypeOK
    <2>5. pc' \in [Job -> {"idle", "asked", "claimed", "queued", "over"} \cup Working]
        BY <1>1 DEF Ask, First, Goto, TypeOK
    <2> QED
        BY <2>3, <2>4, <2>5 DEF JobsOK
<1>2. ASSUME NEW j \in Job, Save(j) PROVE JobsOK'
    <2>1. CASE End(j)
        BY <1>2, <2>1, EndType DEF Save, JobsOK, TypeOK
    <2>2. CASE ~End(j)
        BY <1>2, <2>2 DEF Save, Goto, JobsOK, TypeOK
    <2> QED
        BY <2>1, <2>2
<1>3. ASSUME NEW j \in Job, CreateStreams(j) PROVE JobsOK'
    BY <1>3, EndType DEF CreateStreams, JobsOK, TypeOK
<1>4. ASSUME NEW j \in Job, Fail(j) PROVE JobsOK'
    BY <1>4, ForgetType DEF Fail, Goto, JobsOK, TypeOK
<1>5. ASSUME NEW j \in Job, SavePage(j) PROVE JobsOK'
    BY <1>5, ForgetType DEF SavePage, JobsOK, TypeOK
<1>6. ASSUME NEW j \in Job, Commit(j) PROVE JobsOK'
    BY <1>6, EndType DEF Commit, JobsOK, TypeOK
<1>7. ASSUME NEW j \in Job, Insert(j) PROVE JobsOK'
    BY <1>7, EndType DEF Insert, JobsOK, TypeOK
<1>8. ASSUME NEW j \in Job, Give(j) PROVE JobsOK'
    BY <1>8, EndType DEF Give, JobsOK, TypeOK
<1>9. ASSUME NEW j \in Job, Destroy(j) PROVE JobsOK'
    BY <1>9, EndType DEF Destroy, JobsOK, TypeOK
<1>10. ASSUME NEW j \in Job, Start(j) PROVE JobsOK'
    <2>1. CASE End(j)
        BY <1>10, <2>1, EndType DEF Start, JobsOK, TypeOK
    <2>2. CASE Goto(j, "started") /\ mem' = [mem EXCEPT ![j].held = dev]
        <3>1. mem' \in [Job -> Memory]
            BY <2>2, ZenonT(60) DEF Memory, TypeOK
        <3> QED
            BY <1>10, <2>2, <3>1 DEF Start, Goto, Working, JobsOK, TypeOK
    <2> QED
        BY <1>10, <2>1, <2>2 DEF Start
<1>11. ASSUME NEW j \in Job, req[j].op \in {"unclaim", "reset"}, ClearStreams(j) PROVE JobsOK'
    BY <1>11 DEF ClearStreams, Goto, Working, jobs, JobsOK, TypeOK
<1>12. ASSUME NEW j \in Job, req[j].op \in {"unclaim", "reset"}, DropReports(j) PROVE JobsOK'
    BY <1>12 DEF DropReports, Goto, Working, jobs, JobsOK, TypeOK
<1>13. ASSUME NEW j \in Job, req[j].op \in {"unclaim", "reset"}, Release(j) PROVE JobsOK'
    BY <1>13 DEF Release, Goto, Working, jobs, JobsOK, TypeOK
<1>14. ASSUME NEW j \in Job, req[j].op \in {"unclaim", "reset"}, EraseData(j) PROVE JobsOK'
    BY <1>14 DEF EraseData, Goto, Working, jobs, JobsOK, TypeOK
<1>15. ASSUME NEW j \in Job, req[j].op = "delete", Find(j) PROVE JobsOK'
    <2>1. CASE End(j)
        BY <1>15, <2>1, EndType DEF Find, JobsOK, TypeOK
    <2>2. ASSUME NEW p \in Project, mem' = [mem EXCEPT ![j].target = p],
                 Goto(j, IF dev.project = p THEN "removed" ELSE "started")
          PROVE  JobsOK'
        <3>1. mem' \in [Job -> Memory]
            BY <2>2, SMTT(30) DEF Memory, TypeOK
        <3> QED
            BY <1>15, <2>2, <3>1 DEF Find, Goto, Working, JobsOK, TypeOK
    <2> QED
        BY <1>15, <2>1, <2>2 DEF Find
<1>16. ASSUME NEW j \in Job, req[j].op = "delete", Strip(j) PROVE JobsOK'
    BY <1>16 DEF Strip, Goto, Working, jobs, JobsOK, TypeOK
<1>17. ASSUME NEW j \in Job, req[j].op = "delete", RemoveProject(j) PROVE JobsOK'
    BY <1>17 DEF RemoveProject, Goto, Working, jobs, JobsOK, TypeOK
<1>18. ASSUME NEW j \in Job, Ack(j) PROVE JobsOK'
    BY <1>18, EndType DEF Ack, JobsOK, TypeOK
<1>19. ASSUME NEW j \in Job, Retry(j) PROVE JobsOK'
    BY <1>19 DEF Retry, Goto, Working, jobs, JobsOK, TypeOK
<1>20. CASE UNCHANGED vars
    BY <1>20 DEF TypeOK, JobsOK, vars, jobs, history
<1> QED
    BY <1>1, <1>2, <1>3, <1>4, <1>5, <1>6, <1>7, <1>8, <1>9, <1>10, <1>11, <1>12,
       <1>13, <1>14, <1>15, <1>16, <1>17, <1>18, <1>19, <1>20 DEF Next, Unclaim,
       Delete

\* The histories have their types.
LEMMA HistoryTypes == TypeOK /\ PhaseInv /\ [Next]_vars => HistoryOK'
<1> SUFFICES ASSUME TypeOK /\ PhaseInv, [Next]_vars PROVE HistoryOK'
    OBVIOUS
<1>1. ASSUME NEW j \in Job, NEW r \in Asked, Ask(j, r) PROVE HistoryOK'
    <2>1. owner' \in [Reading -> Org \cup {None}]
        BY <1>1, Distinct DEF Ask, Allowed, TypeOK
    <2>2. met' \in [Job -> SUBSET Job]
        BY <1>1 DEF Ask, TypeOK
    <2> QED
        BY <1>1, <2>1, <2>2 DEF Ask, HistoryOK, TypeOK
<1>2. ASSUME NEW j \in Job, Save(j) PROVE HistoryOK'
    BY <1>2 DEF Save, history, HistoryOK, TypeOK
<1>3. ASSUME NEW j \in Job, CreateStreams(j) PROVE HistoryOK'
    BY <1>3 DEF CreateStreams, history, HistoryOK, TypeOK
<1>4. ASSUME NEW j \in Job, Fail(j) PROVE HistoryOK'
    BY <1>4 DEF Fail, history, HistoryOK, TypeOK
<1>5. ASSUME NEW j \in Job, SavePage(j) PROVE HistoryOK'
    BY <1>5 DEF SavePage, history, HistoryOK, TypeOK
<1>6. ASSUME NEW j \in Job, Commit(j) PROVE HistoryOK'
    BY <1>6 DEF Commit, history, HistoryOK, TypeOK
<1>7. ASSUME NEW j \in Job, Insert(j) PROVE HistoryOK'
    BY <1>7 DEF Insert, history, HistoryOK, TypeOK
<1>8. ASSUME NEW j \in Job, Give(j) PROVE HistoryOK'
    <2>1. req[j].project \in Project
        BY <1>8, RequestType DEF Give, PhaseInv
    <2> QED
        BY <1>8, <2>1 DEF Give, HistoryOK, TypeOK
<1>9. ASSUME NEW j \in Job, Destroy(j) PROVE HistoryOK'
    BY <1>9 DEF Destroy, history, HistoryOK, TypeOK
<1>10. ASSUME NEW j \in Job, Start(j) PROVE HistoryOK'
    BY <1>10 DEF Start, history, HistoryOK, TypeOK
<1>11. ASSUME NEW j \in Job, req[j].op \in {"unclaim", "reset"}, ClearStreams(j) PROVE HistoryOK'
    BY <1>11 DEF ClearStreams, history, HistoryOK, TypeOK
<1>12. ASSUME NEW j \in Job, req[j].op \in {"unclaim", "reset"}, DropReports(j) PROVE HistoryOK'
    BY <1>12 DEF DropReports, history, HistoryOK, TypeOK
<1>13. ASSUME NEW j \in Job, req[j].op \in {"unclaim", "reset"}, Release(j) PROVE HistoryOK'
    BY <1>13 DEF Release, history, HistoryOK, TypeOK
<1>14. ASSUME NEW j \in Job, req[j].op \in {"unclaim", "reset"}, EraseData(j) PROVE HistoryOK'
    BY <1>14 DEF EraseData, history, HistoryOK, TypeOK
<1>15. ASSUME NEW j \in Job, req[j].op = "delete", Find(j) PROVE HistoryOK'
    BY <1>15 DEF Find, history, HistoryOK, TypeOK
<1>16. ASSUME NEW j \in Job, req[j].op = "delete", Strip(j) PROVE HistoryOK'
    BY <1>16 DEF Strip, history, HistoryOK, TypeOK
<1>17. ASSUME NEW j \in Job, req[j].op = "delete", RemoveProject(j) PROVE HistoryOK'
    BY <1>17 DEF RemoveProject, history, HistoryOK, TypeOK
<1>18. ASSUME NEW j \in Job, Ack(j) PROVE HistoryOK'
    BY <1>18 DEF Ack, history, HistoryOK, TypeOK
<1>19. ASSUME NEW j \in Job, Retry(j) PROVE HistoryOK'
    <2>1. faults' \in 0..MaxFault
        BY <1>19, Distinct DEF Retry, TypeOK
    <2> QED
        BY <1>19, <2>1 DEF Retry, HistoryOK, TypeOK
<1>20. CASE UNCHANGED vars
    BY <1>20 DEF TypeOK, HistoryOK, vars, jobs, history
<1> QED
    BY <1>1, <1>2, <1>3, <1>4, <1>5, <1>6, <1>7, <1>8, <1>9, <1>10, <1>11, <1>12,
       <1>13, <1>14, <1>15, <1>16, <1>17, <1>18, <1>19, <1>20 DEF Next, Unclaim,
       Delete

\* How far a job is fits what it does.
LEMMA PhaseStep == TypeOK /\ TargetInv /\ PhaseInv /\ [Next]_vars => PhaseInv'
<1> SUFFICES ASSUME TypeOK /\ TargetInv /\ PhaseInv, [Next]_vars PROVE PhaseInv'
    OBVIOUS
<1>1. ASSUME NEW j \in Job, NEW r \in Asked, Ask(j, r) PROVE PhaseInv'
    <2>1. /\ pc' = [pc EXCEPT ![j] = First(r)] /\ pc[j] = "idle" /\ place' = place
          /\ req' = [req EXCEPT ![j] = r]
          /\ pages' = IF r.staff /\ r.op # "delete" THEN pages \cup {j} ELSE pages
        BY <1>1 DEF Ask, Goto
    <2>2. /\ First(r) \in {"queued", "asked", "over"}
          /\ First(r) = "queued" => r.op \in {"unclaim", "delete"}
        BY DEF First
    <2> QED
        BY <2>1, <2>2 DEF PhaseInv, TypeOK
<1>2. ASSUME NEW j \in Job, Save(j) PROVE PhaseInv'
    BY <1>2, EndType DEF Save, Goto, PhaseInv, TypeOK
<1>3. ASSUME NEW j \in Job, CreateStreams(j) PROVE PhaseInv'
    BY <1>3, EndType DEF CreateStreams, history, PhaseInv, TypeOK
<1>4. ASSUME NEW j \in Job, Fail(j) PROVE PhaseInv'
    BY <1>4 DEF Fail, Goto, history, PhaseInv, TypeOK
<1>5. ASSUME NEW j \in Job, SavePage(j) PROVE PhaseInv'
    BY <1>5 DEF SavePage, Goto, history, PhaseInv, TypeOK
<1>6. ASSUME NEW j \in Job, Commit(j) PROVE PhaseInv'
    BY <1>6, EndType, Distinct DEF Commit, history, PhaseInv, TypeOK
<1>7. ASSUME NEW j \in Job, Insert(j) PROVE PhaseInv'
    BY <1>7, EndType DEF Insert, history, PhaseInv, TypeOK
<1>8. ASSUME NEW j \in Job, Give(j) PROVE PhaseInv'
    BY <1>8, EndType DEF Give, history, PhaseInv, TypeOK
<1>9. ASSUME NEW j \in Job, Destroy(j) PROVE PhaseInv'
    <2>1. \A x \in Reading : place[x] = 0 => place'[x] = 0
        <3>1. CASE Exists(req[j].project)
            <4>1. req[j].project \in Project
                BY <3>1 DEF Exists, Request, TypeOK
            <4> QED
                BY <1>9, <3>1, <4>1, RemoveType DEF Destroy, TypeOK
        <3>2. CASE ~Exists(req[j].project)
            BY <1>9, <3>2 DEF Destroy
        <3> QED
            BY <3>1, <3>2
    <2> QED
        BY <1>9, <2>1, EndType, Distinct DEF Destroy, PhaseInv, TypeOK
<1>10. ASSUME NEW j \in Job, Start(j) PROVE PhaseInv'
    BY <1>10, EndType DEF Start, Goto, PhaseInv, TypeOK
<1>11. ASSUME NEW j \in Job, req[j].op \in {"unclaim", "reset"}, ClearStreams(j) PROVE PhaseInv'
    BY <1>11, ErasedType, Distinct DEF ClearStreams, Goto, Working, jobs, PhaseInv, TypeOK
<1>12. ASSUME NEW j \in Job, req[j].op \in {"unclaim", "reset"}, DropReports(j) PROVE PhaseInv'
    BY <1>12 DEF DropReports, Goto, Working, jobs, PhaseInv, TypeOK
<1>13. ASSUME NEW j \in Job, req[j].op \in {"unclaim", "reset"}, Release(j) PROVE PhaseInv'
    BY <1>13 DEF Release, Goto, Working, jobs, PhaseInv, TypeOK
<1>14. ASSUME NEW j \in Job, req[j].op \in {"unclaim", "reset"}, EraseData(j) PROVE PhaseInv'
    BY <1>14, ErasedType, Distinct DEF EraseData, Goto, Working, jobs, PhaseInv, TypeOK
<1>15. ASSUME NEW j \in Job, req[j].op = "delete", Find(j) PROVE PhaseInv'
    BY <1>15, EndType DEF Find, Goto, PhaseInv, TypeOK
<1>16. ASSUME NEW j \in Job, req[j].op = "delete", Strip(j) PROVE PhaseInv'
    BY <1>16, ErasedType, Distinct DEF Strip, Goto, Working, jobs, PhaseInv, TypeOK
<1>17. ASSUME NEW j \in Job, req[j].op = "delete", RemoveProject(j) PROVE PhaseInv'
    BY <1>17, RemoveType, Distinct DEF RemoveProject, TargetInv, Goto, jobs, PhaseInv, TypeOK
<1>18. ASSUME NEW j \in Job, Ack(j) PROVE PhaseInv'
    BY <1>18, EndType DEF Ack, history, PhaseInv, TypeOK
<1>19. ASSUME NEW j \in Job, Retry(j) PROVE PhaseInv'
    BY <1>19 DEF Retry, Goto, Working, jobs, PhaseInv, TypeOK
<1>20. CASE UNCHANGED vars
    BY <1>20 DEF TypeOK, PhaseInv, vars, jobs, history
<1> QED
    BY <1>1, <1>2, <1>3, <1>4, <1>5, <1>6, <1>7, <1>8, <1>9, <1>10, <1>11, <1>12,
       <1>13, <1>14, <1>15, <1>16, <1>17, <1>18, <1>19, <1>20 DEF Next, Unclaim,
       Delete

\* A task that deletes a project has found it.
LEMMA TargetStep == TypeOK /\ PhaseInv /\ TargetInv /\ [Next]_vars => TargetInv'
<1> SUFFICES ASSUME TypeOK /\ PhaseInv /\ TargetInv, [Next]_vars PROVE TargetInv'
    OBVIOUS
<1>1. ASSUME NEW j \in Job, NEW r \in Asked, Ask(j, r) PROVE TargetInv'
    BY <1>1 DEF Ask, Goto, First, TargetInv, PhaseInv, TypeOK
<1>2. ASSUME NEW j \in Job, Save(j) PROVE TargetInv'
    BY <1>2, EndType DEF Save, Goto, TargetInv, PhaseInv, TypeOK
<1>3. ASSUME NEW j \in Job, CreateStreams(j) PROVE TargetInv'
    BY <1>3, EndType DEF CreateStreams, Goto, TargetInv, PhaseInv, TypeOK
<1>4. ASSUME NEW j \in Job, Fail(j) PROVE TargetInv'
    BY <1>4 DEF Fail, Goto, Forget, TargetInv, PhaseInv, TypeOK
<1>5. ASSUME NEW j \in Job, SavePage(j) PROVE TargetInv'
    BY <1>5 DEF SavePage, Goto, Forget, TargetInv, PhaseInv, TypeOK
<1>6. ASSUME NEW j \in Job, Commit(j) PROVE TargetInv'
    BY <1>6, EndType DEF Commit, Goto, TargetInv, PhaseInv, TypeOK
<1>7. ASSUME NEW j \in Job, Insert(j) PROVE TargetInv'
    BY <1>7, EndType DEF Insert, Goto, TargetInv, PhaseInv, TypeOK
<1>8. ASSUME NEW j \in Job, Give(j) PROVE TargetInv'
    BY <1>8, EndType DEF Give, Goto, TargetInv, PhaseInv, TypeOK
<1>9. ASSUME NEW j \in Job, Destroy(j) PROVE TargetInv'
    BY <1>9, EndType DEF Destroy, Goto, TargetInv, PhaseInv, TypeOK
<1>10. ASSUME NEW j \in Job, Start(j) PROVE TargetInv'
    BY <1>10, EndType DEF Start, Goto, TargetInv, PhaseInv, TypeOK
<1>11. ASSUME NEW j \in Job, req[j].op \in {"unclaim", "reset"}, ClearStreams(j) PROVE TargetInv'
    BY <1>11 DEF ClearStreams, Goto, jobs, TargetInv, PhaseInv, TypeOK
<1>12. ASSUME NEW j \in Job, req[j].op \in {"unclaim", "reset"}, DropReports(j) PROVE TargetInv'
    BY <1>12 DEF DropReports, Goto, jobs, TargetInv, PhaseInv, TypeOK
<1>13. ASSUME NEW j \in Job, req[j].op \in {"unclaim", "reset"}, Release(j) PROVE TargetInv'
    BY <1>13 DEF Release, Goto, jobs, TargetInv, PhaseInv, TypeOK
<1>14. ASSUME NEW j \in Job, req[j].op \in {"unclaim", "reset"}, EraseData(j) PROVE TargetInv'
    BY <1>14 DEF EraseData, Goto, jobs, TargetInv, PhaseInv, TypeOK
<1>15. ASSUME NEW j \in Job, req[j].op = "delete", Find(j) PROVE TargetInv'
    <2>1. CASE End(j)
        BY <1>15, <2>1, EndType DEF Find, TargetInv, TypeOK
    <2>2. ASSUME NEW p \in Project, mem' = [mem EXCEPT ![j].target = p],
                 Goto(j, IF dev.project = p THEN "removed" ELSE "started")
          PROVE  TargetInv'
        <3>1. \A k \in Job : mem'[k].target = IF k = j THEN p ELSE mem[k].target
            BY <2>2 DEF Memory, TypeOK
        <3>2. \A k \in Job \ {j} : pc'[k] = pc[k]
            BY <2>2 DEF Goto, TypeOK
        <3> QED
            BY <1>15, <2>2, <3>1, <3>2 DEF Find, TargetInv
    <2> QED
        BY <1>15, <2>1, <2>2 DEF Find
<1>16. ASSUME NEW j \in Job, req[j].op = "delete", Strip(j) PROVE TargetInv'
    BY <1>16 DEF Strip, Goto, jobs, TargetInv, PhaseInv, TypeOK
<1>17. ASSUME NEW j \in Job, req[j].op = "delete", RemoveProject(j) PROVE TargetInv'
    BY <1>17 DEF RemoveProject, Goto, jobs, TargetInv, PhaseInv, TypeOK
<1>18. ASSUME NEW j \in Job, Ack(j) PROVE TargetInv'
    BY <1>18, EndType DEF Ack, Goto, TargetInv, PhaseInv, TypeOK
<1>19. ASSUME NEW j \in Job, Retry(j) PROVE TargetInv'
    BY <1>19 DEF Retry, Goto, jobs, TargetInv, PhaseInv, TypeOK
<1>20. CASE UNCHANGED vars
    BY <1>20 DEF TypeOK, TargetInv, vars, jobs, history
<1> QED
    BY <1>1, <1>2, <1>3, <1>4, <1>5, <1>6, <1>7, <1>8, <1>9, <1>10, <1>11, <1>12,
       <1>13, <1>14, <1>15, <1>16, <1>17, <1>18, <1>19, <1>20 DEF Next, Unclaim,
       Delete

\* What is left of the jobs when job j ends or goes on.
LEMMA AskType ==
    ASSUME TypeOK, NEW j \in Job, NEW r \in Asked, Ask(j, r)
    PROVE  /\ Allowed(r) /\ pc[j] = "idle"
           /\ pc' = [pc EXCEPT ![j] = First(r)]
           /\ First(r) \in {"queued", "asked", "over"}
           /\ First(r) = "queued" => r.op \in {"unclaim", "delete"}
           /\ req' = [req EXCEPT ![j] = r]
           /\ \A k \in Job \ {j} : mem'[k] = mem[k] /\ pc'[k] = pc[k] /\ req'[k] = req[k]
           /\ mem'[j].save = Saves(r) /\ mem'[j].gid = GidRead(r)
           /\ mem'[j].held = NoRow /\ mem'[j].target = None
           /\ pc'[j] = First(r) /\ req'[j] = r
           /\ project' = project /\ dev' = dev /\ streams' = streams /\ place' = place
           /\ reports' = reports /\ given' = given
<1>1. mem' = [mem EXCEPT ![j] = [Blank EXCEPT !.save = Saves(r), !.gid = GidRead(r)]]
    BY DEF Ask
<1>2. mem'[j] = [Blank EXCEPT !.save = Saves(r), !.gid = GidRead(r)]
    BY <1>1 DEF TypeOK
<1>3. /\ mem'[j].save = Saves(r) /\ mem'[j].gid = GidRead(r)
      /\ mem'[j].held = NoRow /\ mem'[j].target = None
    BY <1>2 DEF Blank
<1>4. \A k \in Job \ {j} : mem'[k] = mem[k]
    BY <1>1 DEF TypeOK
<1>5. /\ First(r) \in {"queued", "asked", "over"}
      /\ First(r) = "queued" => r.op \in {"unclaim", "delete"}
    BY DEF First
<1>6. /\ pc' = [pc EXCEPT ![j] = First(r)] /\ req' = [req EXCEPT ![j] = r]
      /\ Allowed(r) /\ pc[j] = "idle"
      /\ project' = project /\ dev' = dev /\ streams' = streams /\ place' = place
      /\ reports' = reports /\ given' = given
    BY DEF Ask, Goto
<1>7. pc'[j] = First(r) /\ req'[j] = r /\ \A k \in Job \ {j} : pc'[k] = pc[k] /\ req'[k] = req[k]
    BY <1>6 DEF TypeOK
<1> QED
    BY <1>3, <1>4, <1>5, <1>6, <1>7

\* A project has an organization.
LEMMA OrgStep == TypeOK /\ TargetInv /\ PhaseInv /\ OrgInv /\ [Next]_vars => OrgInv'
<1> SUFFICES ASSUME TypeOK /\ TargetInv /\ PhaseInv /\ OrgInv, [Next]_vars PROVE OrgInv'
    OBVIOUS
<1>1. ASSUME NEW j \in Job, NEW r \in Asked, Ask(j, r) PROVE OrgInv'
    BY <1>1 DEF Ask, OrgInv, TypeOK
<1>2. ASSUME NEW j \in Job, Save(j) PROVE OrgInv'
    BY <1>2 DEF Save, OrgInv, TypeOK
<1>3. ASSUME NEW j \in Job, CreateStreams(j) PROVE OrgInv'
    BY <1>3 DEF CreateStreams, OrgInv, TypeOK
<1>4. ASSUME NEW j \in Job, Fail(j) PROVE OrgInv'
    BY <1>4 DEF Fail, OrgInv, TypeOK
<1>5. ASSUME NEW j \in Job, SavePage(j) PROVE OrgInv'
    BY <1>5 DEF SavePage, OrgInv, TypeOK
<1>6. ASSUME NEW j \in Job, Commit(j) PROVE OrgInv'
    BY <1>6 DEF Commit, OrgInv, TypeOK
<1>7. ASSUME NEW j \in Job, Insert(j) PROVE OrgInv'
    <2>1. req[j].project \in Project /\ req[j].org # None
        BY <1>7, RequestType, Distinct DEF Insert, PhaseInv
    <2> QED
        BY <1>7, <2>1 DEF Insert, Write, OrgInv, TypeOK
<1>8. ASSUME NEW j \in Job, Give(j) PROVE OrgInv'
    <2>1. req[j].project \in Project /\ req[j].org # None
        BY <1>8, RequestType, Distinct DEF Give, PhaseInv
    <2> QED
        BY <1>8, <2>1 DEF Give, Write, OrgInv, TypeOK
<1>9. ASSUME NEW j \in Job, Destroy(j) PROVE OrgInv'
    <2>1. CASE Exists(req[j].project)
        <3>1. req[j].project \in Project
            BY <2>1 DEF Exists, Request, TypeOK
        <3>2. Remove(req[j].project)
            BY <1>9, <2>1 DEF Destroy
        <3> QED
            BY <3>1, <3>2, RemoveType DEF OrgInv, TypeOK
    <2>2. CASE ~Exists(req[j].project)
        BY <1>9, <2>2 DEF Destroy, OrgInv, TypeOK
    <2> QED
        BY <2>1, <2>2
<1>10. ASSUME NEW j \in Job, Start(j) PROVE OrgInv'
    BY <1>10 DEF Start, OrgInv, TypeOK
<1>11. ASSUME NEW j \in Job, req[j].op \in {"unclaim", "reset"}, ClearStreams(j) PROVE OrgInv'
    BY <1>11 DEF ClearStreams, OrgInv, TypeOK
<1>12. ASSUME NEW j \in Job, req[j].op \in {"unclaim", "reset"}, DropReports(j) PROVE OrgInv'
    BY <1>12 DEF DropReports, OrgInv, TypeOK
<1>13. ASSUME NEW j \in Job, req[j].op \in {"unclaim", "reset"}, Release(j) PROVE OrgInv'
    BY <1>13 DEF Release, OrgInv, TypeOK
<1>14. ASSUME NEW j \in Job, req[j].op \in {"unclaim", "reset"}, EraseData(j) PROVE OrgInv'
    BY <1>14 DEF EraseData, OrgInv, TypeOK
<1>15. ASSUME NEW j \in Job, req[j].op = "delete", Find(j) PROVE OrgInv'
    BY <1>15 DEF Find, OrgInv, TypeOK
<1>16. ASSUME NEW j \in Job, req[j].op = "delete", Strip(j) PROVE OrgInv'
    BY <1>16 DEF Strip, OrgInv, TypeOK
<1>17. ASSUME NEW j \in Job, req[j].op = "delete", RemoveProject(j) PROVE OrgInv'
    <2>1. mem[j].target \in Project /\ Remove(mem[j].target)
        BY <1>17 DEF RemoveProject, TargetInv
    <2> QED
        BY <2>1, RemoveType DEF OrgInv, TypeOK
<1>18. ASSUME NEW j \in Job, Ack(j) PROVE OrgInv'
    BY <1>18 DEF Ack, OrgInv, TypeOK
<1>19. ASSUME NEW j \in Job, Retry(j) PROVE OrgInv'
    BY <1>19 DEF Retry, OrgInv, TypeOK
<1>20. CASE UNCHANGED vars
    BY <1>20 DEF TypeOK, OrgInv, vars, jobs, history
<1> QED
    BY <1>1, <1>2, <1>3, <1>4, <1>5, <1>6, <1>7, <1>8, <1>9, <1>10, <1>11, <1>12,
       <1>13, <1>14, <1>15, <1>16, <1>17, <1>18, <1>19, <1>20 DEF Next, Unclaim,
       Delete

\* A stream is in a project that exists.
LEMMA StreamsStep == TypeOK /\ TargetInv /\ PhaseInv /\ CreateInv /\ GiveInv /\ StreamsInv
        /\ [Next]_vars => StreamsInv'
<1> SUFFICES ASSUME TypeOK /\ TargetInv /\ PhaseInv /\ CreateInv /\ GiveInv /\ StreamsInv,
        [Next]_vars PROVE StreamsInv'
    OBVIOUS
<1>1. ASSUME NEW j \in Job, NEW r \in Asked, Ask(j, r) PROVE StreamsInv'
    BY <1>1 DEF Ask, StreamsInv, TypeOK
<1>2. ASSUME NEW j \in Job, Save(j) PROVE StreamsInv'
    BY <1>2 DEF Save, StreamsInv, TypeOK
<1>3. ASSUME NEW j \in Job, CreateStreams(j) PROVE StreamsInv'
    BY <1>3 DEF CreateStreams, Exists, StreamsInv, TypeOK
<1>4. ASSUME NEW j \in Job, Fail(j) PROVE StreamsInv'
    BY <1>4 DEF Fail, StreamsInv, TypeOK
<1>5. ASSUME NEW j \in Job, SavePage(j) PROVE StreamsInv'
    BY <1>5 DEF SavePage, StreamsInv, TypeOK
<1>6. ASSUME NEW j \in Job, Commit(j) PROVE StreamsInv'
    BY <1>6 DEF Commit, StreamsInv, TypeOK
<1>7. ASSUME NEW j \in Job, Insert(j) PROVE StreamsInv'
    <2>1. req[j].project \in Project /\ project[req[j].project].gid = 0
        BY <1>7, RequestType DEF Insert, PhaseInv, CreateInv, Fresh
    <2> QED
        BY <1>7, <2>1 DEF Insert, Write, StreamsInv, TypeOK
<1>8. ASSUME NEW j \in Job, Give(j) PROVE StreamsInv'
    <2>1. req[j].project \in Project /\ mem[j].gid # 0
        BY <1>8, RequestType DEF Give, PhaseInv, GiveInv
    <2> QED
        BY <1>8, <2>1 DEF Give, Write, StreamsInv, TypeOK
<1>9. ASSUME NEW j \in Job, Destroy(j) PROVE StreamsInv'
    <2>1. CASE Exists(req[j].project)
        <3>1. req[j].project \in Project
            BY <2>1 DEF Exists, Request, TypeOK
        <3>2. Remove(req[j].project)
            BY <1>9, <2>1 DEF Destroy
        <3> QED
            BY <3>1, <3>2, RemoveType DEF StreamsInv, TypeOK
    <2>2. CASE ~Exists(req[j].project)
        BY <1>9, <2>2 DEF Destroy, StreamsInv, TypeOK
    <2> QED
        BY <2>1, <2>2
<1>10. ASSUME NEW j \in Job, Start(j) PROVE StreamsInv'
    BY <1>10 DEF Start, StreamsInv, TypeOK
<1>11. ASSUME NEW j \in Job, req[j].op \in {"unclaim", "reset"}, ClearStreams(j) PROVE StreamsInv'
    BY <1>11 DEF ClearStreams, StreamsInv, TypeOK
<1>12. ASSUME NEW j \in Job, req[j].op \in {"unclaim", "reset"}, DropReports(j) PROVE StreamsInv'
    BY <1>12 DEF DropReports, StreamsInv, TypeOK
<1>13. ASSUME NEW j \in Job, req[j].op \in {"unclaim", "reset"}, Release(j) PROVE StreamsInv'
    BY <1>13 DEF Release, StreamsInv, TypeOK
<1>14. ASSUME NEW j \in Job, req[j].op \in {"unclaim", "reset"}, EraseData(j) PROVE StreamsInv'
    BY <1>14 DEF EraseData, StreamsInv, TypeOK
<1>15. ASSUME NEW j \in Job, req[j].op = "delete", Find(j) PROVE StreamsInv'
    BY <1>15 DEF Find, StreamsInv, TypeOK
<1>16. ASSUME NEW j \in Job, req[j].op = "delete", Strip(j) PROVE StreamsInv'
    BY <1>16 DEF Strip, StreamsInv, TypeOK
<1>17. ASSUME NEW j \in Job, req[j].op = "delete", RemoveProject(j) PROVE StreamsInv'
    <2>1. mem[j].target \in Project /\ Remove(mem[j].target)
        BY <1>17 DEF RemoveProject, TargetInv
    <2> QED
        BY <2>1, RemoveType DEF StreamsInv, TypeOK
<1>18. ASSUME NEW j \in Job, Ack(j) PROVE StreamsInv'
    BY <1>18 DEF Ack, StreamsInv, TypeOK
<1>19. ASSUME NEW j \in Job, Retry(j) PROVE StreamsInv'
    BY <1>19 DEF Retry, StreamsInv, TypeOK
<1>20. CASE UNCHANGED vars
    BY <1>20 DEF TypeOK, StreamsInv, vars, jobs, history
<1> QED
    BY <1>1, <1>2, <1>3, <1>4, <1>5, <1>6, <1>7, <1>8, <1>9, <1>10, <1>11, <1>12,
       <1>13, <1>14, <1>15, <1>16, <1>17, <1>18, <1>19, <1>20 DEF Next, Unclaim,
       Delete

\* A claimed device is claimed in a project that exists.
LEMMA ClaimStep == TypeOK /\ TargetInv /\ PhaseInv /\ CreateInv /\ GiveInv /\ ClaimInv
        /\ [Next]_vars => ClaimInv'
<1> SUFFICES ASSUME TypeOK /\ TargetInv /\ PhaseInv /\ CreateInv /\ GiveInv /\ ClaimInv,
        [Next]_vars PROVE ClaimInv'
    OBVIOUS
<1>1. ASSUME NEW j \in Job, NEW r \in Asked, Ask(j, r) PROVE ClaimInv'
    BY <1>1 DEF Ask, ClaimInv, Exists, TypeOK
<1>2. ASSUME NEW j \in Job, Save(j) PROVE ClaimInv'
    BY <1>2 DEF Save, CanSave, ClaimInv, Exists
<1>3. ASSUME NEW j \in Job, CreateStreams(j) PROVE ClaimInv'
    BY <1>3 DEF CreateStreams, ClaimInv, Exists, TypeOK
<1>4. ASSUME NEW j \in Job, Fail(j) PROVE ClaimInv'
    BY <1>4 DEF Fail, ClaimInv, Exists, TypeOK
<1>5. ASSUME NEW j \in Job, SavePage(j) PROVE ClaimInv'
    BY <1>5 DEF SavePage, CanSave, ClaimInv, Exists
<1>6. ASSUME NEW j \in Job, Commit(j) PROVE ClaimInv'
    BY <1>6 DEF Commit, ClaimInv, Exists, TypeOK
<1>7. ASSUME NEW j \in Job, Insert(j) PROVE ClaimInv'
    <2>1. req[j].project \in Project /\ project[req[j].project].gid = 0
        BY <1>7, RequestType DEF Insert, PhaseInv, CreateInv, Fresh
    <2>2. dev.project \in Project \cup {None}
        BY DEF TypeOK, Row
    <2> QED
        BY <1>7, <2>1, <2>2 DEF Insert, Write, ClaimInv, Exists, TypeOK
<1>8. ASSUME NEW j \in Job, Give(j) PROVE ClaimInv'
    <2>1. req[j].project \in Project /\ mem[j].gid # 0
        BY <1>8, RequestType DEF Give, PhaseInv, GiveInv
    <2>2. dev.project \in Project \cup {None}
        BY DEF TypeOK, Row
    <2> QED
        BY <1>8, <2>1, <2>2 DEF Give, Write, ClaimInv, Exists, TypeOK
<1>9. ASSUME NEW j \in Job, Destroy(j) PROVE ClaimInv'
    <2>1. CASE Exists(req[j].project)
        <3>1. req[j].project \in Project
            BY <2>1 DEF Exists, Request, TypeOK
        <3>2. Remove(req[j].project)
            BY <1>9, <2>1 DEF Destroy
        <3> QED
            BY <3>1, <3>2, RemoveType DEF ClaimInv, Exists, Row, TypeOK
    <2>2. CASE ~Exists(req[j].project)
        BY <1>9, <2>2 DEF Destroy, ClaimInv, Exists, Row, TypeOK
    <2> QED
        BY <2>1, <2>2
<1>10. ASSUME NEW j \in Job, Start(j) PROVE ClaimInv'
    BY <1>10 DEF Start, ClaimInv, Exists, TypeOK
<1>11. ASSUME NEW j \in Job, req[j].op \in {"unclaim", "reset"}, ClearStreams(j) PROVE ClaimInv'
    BY <1>11 DEF ClearStreams, ClaimInv, Exists, TypeOK
<1>12. ASSUME NEW j \in Job, req[j].op \in {"unclaim", "reset"}, DropReports(j) PROVE ClaimInv'
    BY <1>12 DEF DropReports, ClaimInv, Exists, TypeOK
<1>13. ASSUME NEW j \in Job, req[j].op \in {"unclaim", "reset"}, Release(j) PROVE ClaimInv'
    BY <1>13 DEF Release, CanSave, ClaimInv, Exists
<1>14. ASSUME NEW j \in Job, req[j].op \in {"unclaim", "reset"}, EraseData(j) PROVE ClaimInv'
    BY <1>14 DEF EraseData, ClaimInv, Exists, TypeOK
<1>15. ASSUME NEW j \in Job, req[j].op = "delete", Find(j) PROVE ClaimInv'
    BY <1>15 DEF Find, ClaimInv, Exists, TypeOK
<1>16. ASSUME NEW j \in Job, req[j].op = "delete", Strip(j) PROVE ClaimInv'
    BY <1>16 DEF Strip, ClaimInv, Exists, TypeOK
<1>17. ASSUME NEW j \in Job, req[j].op = "delete", RemoveProject(j) PROVE ClaimInv'
    <2>1. mem[j].target \in Project /\ Remove(mem[j].target)
        BY <1>17 DEF RemoveProject, TargetInv
    <2> QED
        BY <2>1, RemoveType DEF ClaimInv, Exists, Row, TypeOK
<1>18. ASSUME NEW j \in Job, Ack(j) PROVE ClaimInv'
    BY <1>18 DEF Ack, ClaimInv, Exists, TypeOK
<1>19. ASSUME NEW j \in Job, Retry(j) PROVE ClaimInv'
    BY <1>19 DEF Retry, ClaimInv, Exists, TypeOK
<1>20. CASE UNCHANGED vars
    BY <1>20 DEF TypeOK, ClaimInv, Exists, vars, jobs, history
<1> QED
    BY <1>1, <1>2, <1>3, <1>4, <1>5, <1>6, <1>7, <1>8, <1>9, <1>10, <1>11, <1>12,
       <1>13, <1>14, <1>15, <1>16, <1>17, <1>18, <1>19, <1>20 DEF Next, Unclaim,
       Delete

\* A project is created once, and was none before.
LEMMA CreateStep == TypeOK /\ TargetInv /\ PhaseInv /\ GiveInv /\ CreateInv
        /\ [Next]_vars => CreateInv'
<1> SUFFICES ASSUME TypeOK /\ TargetInv /\ PhaseInv /\ GiveInv /\ CreateInv,
        [Next]_vars PROVE CreateInv'
    OBVIOUS
<1>1. ASSUME NEW j \in Job, NEW r \in Asked, Ask(j, r) PROVE CreateInv'
    <2>1. r.op = "create" => Fresh(r.project)
        BY <1>1, AskType DEF Allowed
    <2>2. \A k \in Job : r.op = "create" /\ pc[k] = "asked" /\ req[k].op = "create"
                            => req[k].project # r.project
        BY <1>1 DEF Ask, Open
    <2> QED
        BY <1>1, <2>1, <2>2, AskType, SMTT(30) DEF CreateInv, Fresh, TypeOK
<1>2. ASSUME NEW j \in Job, Save(j) PROVE CreateInv'
    BY <1>2, EndType DEF Save, Goto, CreateInv, Fresh, TypeOK
<1>3. ASSUME NEW j \in Job, CreateStreams(j) PROVE CreateInv'
    BY <1>3, EndType DEF CreateStreams, Goto, CreateInv, Fresh, TypeOK
<1>4. ASSUME NEW j \in Job, Fail(j) PROVE CreateInv'
    BY <1>4 DEF Fail, Goto, Forget, CreateInv, Fresh, TypeOK
<1>5. ASSUME NEW j \in Job, SavePage(j) PROVE CreateInv'
    BY <1>5 DEF SavePage, Goto, Forget, CreateInv, Fresh, TypeOK
<1>6. ASSUME NEW j \in Job, Commit(j) PROVE CreateInv'
    BY <1>6, EndType DEF Commit, Goto, CreateInv, Fresh, TypeOK
<1>7. ASSUME NEW j \in Job, Insert(j) PROVE CreateInv'
    <2>1. req[j].project \in Project
        BY <1>7, RequestType DEF Insert, PhaseInv
    <2> QED
        BY <1>7, <2>1, EndType DEF Insert, Write, CreateInv, Fresh, TypeOK
<1>8. ASSUME NEW j \in Job, Give(j) PROVE CreateInv'
    <2>1. req[j].project \in Project /\ ~Fresh(req[j].project)
        BY <1>8, RequestType DEF Give, PhaseInv, GiveInv
    <2> QED
        BY <1>8, <2>1, EndType DEF Give, Write, CreateInv, Fresh, TypeOK
<1>9. ASSUME NEW j \in Job, Destroy(j) PROVE CreateInv'
    <2>1. \A p \in Project : Fresh(p) => Fresh(p)'
        <3>1. CASE Exists(req[j].project)
            <4>1. req[j].project \in Project
                BY <3>1 DEF Exists, Request, TypeOK
            <4> QED
                BY <1>9, <3>1, <4>1, RemoveType, SMTT(30) DEF Destroy, Fresh, TypeOK
        <3>2. CASE ~Exists(req[j].project)
            BY <1>9, <3>2 DEF Destroy, Fresh
        <3> QED
            BY <3>1, <3>2
    <2>2. \A k \in Job : pc[k] = "asked" /\ req[k].op = "create" => req[k].project \in Project
        BY RequestType DEF PhaseInv
    <2> QED
        BY <1>9, <2>1, <2>2, EndType DEF Destroy, CreateInv, TypeOK
<1>10. ASSUME NEW j \in Job, Start(j) PROVE CreateInv'
    BY <1>10, EndType DEF Start, Goto, CreateInv, Fresh, TypeOK
<1>11. ASSUME NEW j \in Job, req[j].op \in {"unclaim", "reset"}, ClearStreams(j) PROVE CreateInv'
    BY <1>11 DEF ClearStreams, Goto, jobs, CreateInv, Fresh, TypeOK
<1>12. ASSUME NEW j \in Job, req[j].op \in {"unclaim", "reset"}, DropReports(j) PROVE CreateInv'
    BY <1>12 DEF DropReports, Goto, jobs, CreateInv, Fresh, TypeOK
<1>13. ASSUME NEW j \in Job, req[j].op \in {"unclaim", "reset"}, Release(j) PROVE CreateInv'
    BY <1>13 DEF Release, Goto, jobs, CreateInv, Fresh, TypeOK
<1>14. ASSUME NEW j \in Job, req[j].op \in {"unclaim", "reset"}, EraseData(j) PROVE CreateInv'
    BY <1>14 DEF EraseData, Goto, jobs, CreateInv, Fresh, TypeOK
<1>15. ASSUME NEW j \in Job, req[j].op = "delete", Find(j) PROVE CreateInv'
    BY <1>15, EndType DEF Find, Goto, CreateInv, Fresh, TypeOK
<1>16. ASSUME NEW j \in Job, req[j].op = "delete", Strip(j) PROVE CreateInv'
    BY <1>16 DEF Strip, Goto, jobs, CreateInv, Fresh, TypeOK
<1>17. ASSUME NEW j \in Job, req[j].op = "delete", RemoveProject(j) PROVE CreateInv'
    <2>1. mem[j].target \in Project /\ Remove(mem[j].target)
        BY <1>17 DEF RemoveProject, TargetInv
    <2>2. \A p \in Project : Fresh(p) => Fresh(p)'
        BY <2>1, RemoveType DEF Fresh, TypeOK
    <2>3. \A k \in Job : pc[k] = "asked" /\ req[k].op = "create" => req[k].project \in Project
        BY RequestType DEF PhaseInv
    <2> QED
        BY <1>17, <2>2, <2>3 DEF RemoveProject, jobs, Goto, CreateInv, TypeOK
<1>18. ASSUME NEW j \in Job, Ack(j) PROVE CreateInv'
    BY <1>18, EndType DEF Ack, Goto, CreateInv, Fresh, TypeOK
<1>19. ASSUME NEW j \in Job, Retry(j) PROVE CreateInv'
    BY <1>19 DEF Retry, Goto, jobs, CreateInv, Fresh, TypeOK
<1>20. CASE UNCHANGED vars
    BY <1>20 DEF TypeOK, CreateInv, Fresh, jobs, vars, jobs, history
<1> QED
    BY <1>1, <1>2, <1>3, <1>4, <1>5, <1>6, <1>7, <1>8, <1>9, <1>10, <1>11, <1>12,
       <1>13, <1>14, <1>15, <1>16, <1>17, <1>18, <1>19, <1>20 DEF Next, Unclaim,
       Delete

\* A project that is given away keeps its gid.
LEMMA GiveStep == TypeOK /\ TargetInv /\ PhaseInv /\ OrgInv /\ CreateInv /\ GiveInv
        /\ [Next]_vars => GiveInv'
<1> SUFFICES ASSUME TypeOK /\ TargetInv /\ PhaseInv /\ OrgInv /\ CreateInv /\ GiveInv,
        [Next]_vars PROVE GiveInv'
    OBVIOUS
<1>1. ASSUME NEW j \in Job, NEW r \in Asked, Ask(j, r) PROVE GiveInv'
    <2>1. r.op = "give" => /\ project[r.project].gid # 0 /\ ~Fresh(r.project)
                           /\ GidRead(r) = project[r.project].gid
        BY <1>1, AskType DEF Allowed, Exists, Fresh, GidRead
    <2> QED
        BY <1>1, <2>1, AskType, SMTT(30) DEF GiveInv, Fresh, TypeOK
<1>2. ASSUME NEW j \in Job, Save(j) PROVE GiveInv'
    BY <1>2, EndType DEF Save, Goto, GiveInv, Fresh, TypeOK
<1>3. ASSUME NEW j \in Job, CreateStreams(j) PROVE GiveInv'
    BY <1>3, EndType DEF CreateStreams, Goto, GiveInv, Fresh, TypeOK
<1>4. ASSUME NEW j \in Job, Fail(j) PROVE GiveInv'
    BY <1>4 DEF Fail, Goto, Forget, GiveInv, Fresh, TypeOK
<1>5. ASSUME NEW j \in Job, SavePage(j) PROVE GiveInv'
    BY <1>5 DEF SavePage, Goto, Forget, GiveInv, Fresh, TypeOK
<1>6. ASSUME NEW j \in Job, Commit(j) PROVE GiveInv'
    BY <1>6, EndType DEF Commit, Goto, GiveInv, Fresh, TypeOK
<1>7. ASSUME NEW j \in Job, Insert(j) PROVE GiveInv'
    <2>1. req[j].project \in Project /\ Fresh(req[j].project)
        BY <1>7, RequestType DEF Insert, PhaseInv, CreateInv
    <2>2. \A k \in Job : pc[k] = "asked" /\ req[k].op = "give" =>
             req[k].project \in Project \ {req[j].project}
        BY <2>1, RequestType DEF PhaseInv, GiveInv
    <2> QED
        BY <1>7, <2>1, <2>2, EndType, SMTT(30) DEF Insert, Write, GiveInv, Fresh, TypeOK
<1>8. ASSUME NEW j \in Job, Give(j) PROVE GiveInv'
    <2>1. \A k \in Job : pc[k] = "asked" /\ req[k].op = "give" => req[k].project \in Project
        BY RequestType DEF PhaseInv
    <2> QED
        BY <1>8, <2>1, EndType DEF Give, Write, GiveInv, Fresh, TypeOK
<1>9. ASSUME NEW j \in Job, Destroy(j) PROVE GiveInv'
    <2>2. \A p \in Project : /\ ~Fresh(p) => ~Fresh(p)'
                             /\ project'[p].gid \in {0, project[p].gid}
        <3>1. CASE Exists(req[j].project)
            <4>1. req[j].project \in Project
                BY <3>1 DEF Exists, Request, TypeOK
            <4> QED
                BY <1>9, <3>1, <4>1, RemoveType DEF Destroy, Fresh, OrgInv, TypeOK
        <3>2. CASE ~Exists(req[j].project)
            BY <1>9, <3>2 DEF Destroy, Fresh
        <3> QED
            BY <3>1, <3>2
    <2>3. \A k \in Job : pc[k] = "asked" /\ req[k].op = "give" => req[k].project \in Project
        BY RequestType DEF PhaseInv
    <2> QED
        BY <1>9, <2>2, <2>3, EndType DEF Destroy, GiveInv, TypeOK
<1>10. ASSUME NEW j \in Job, Start(j) PROVE GiveInv'
    BY <1>10, EndType, SMTT(30) DEF Start, Goto, GiveInv, Fresh, TypeOK
<1>11. ASSUME NEW j \in Job, req[j].op \in {"unclaim", "reset"}, ClearStreams(j) PROVE GiveInv'
    BY <1>11 DEF ClearStreams, Goto, jobs, GiveInv, Fresh, TypeOK
<1>12. ASSUME NEW j \in Job, req[j].op \in {"unclaim", "reset"}, DropReports(j) PROVE GiveInv'
    BY <1>12 DEF DropReports, Goto, jobs, GiveInv, Fresh, TypeOK
<1>13. ASSUME NEW j \in Job, req[j].op \in {"unclaim", "reset"}, Release(j) PROVE GiveInv'
    BY <1>13 DEF Release, Goto, jobs, GiveInv, Fresh, TypeOK
<1>14. ASSUME NEW j \in Job, req[j].op \in {"unclaim", "reset"}, EraseData(j) PROVE GiveInv'
    BY <1>14 DEF EraseData, Goto, jobs, GiveInv, Fresh, TypeOK
<1>15. ASSUME NEW j \in Job, req[j].op = "delete", Find(j) PROVE GiveInv'
    BY <1>15, EndType DEF Find, Goto, GiveInv, Fresh, TypeOK
<1>16. ASSUME NEW j \in Job, req[j].op = "delete", Strip(j) PROVE GiveInv'
    BY <1>16 DEF Strip, Goto, jobs, GiveInv, Fresh, TypeOK
<1>17. ASSUME NEW j \in Job, req[j].op = "delete", RemoveProject(j) PROVE GiveInv'
    <2>1. mem[j].target \in Project /\ Remove(mem[j].target)
        BY <1>17 DEF RemoveProject, TargetInv
    <2>2. \A p \in Project : /\ ~Fresh(p) => ~Fresh(p)'
                             /\ project'[p].gid \in {0, project[p].gid}
        BY <2>1, RemoveType DEF Fresh, OrgInv, TypeOK
    <2>3. \A k \in Job : pc[k] = "asked" /\ req[k].op = "give" => req[k].project \in Project
        BY RequestType DEF PhaseInv
    <2> QED
        BY <1>17, <2>2, <2>3 DEF RemoveProject, jobs, Goto, GiveInv, TypeOK
<1>18. ASSUME NEW j \in Job, Ack(j) PROVE GiveInv'
    BY <1>18, EndType DEF Ack, Goto, GiveInv, Fresh, TypeOK
<1>19. ASSUME NEW j \in Job, Retry(j) PROVE GiveInv'
    BY <1>19 DEF Retry, Goto, jobs, GiveInv, Fresh, TypeOK
<1>20. CASE UNCHANGED vars
    BY <1>20 DEF TypeOK, GiveInv, Fresh, jobs, vars, jobs, history
<1> QED
    BY <1>1, <1>2, <1>3, <1>4, <1>5, <1>6, <1>7, <1>8, <1>9, <1>10, <1>11, <1>12,
       <1>13, <1>14, <1>15, <1>16, <1>17, <1>18, <1>19, <1>20 DEF Next, Unclaim,
       Delete

\* A row that is right stays right, if jobs that have begun stay what they are,
\* and a project keeps its organization unless it is given away.
GoodNow(s) ==
    /\ s.project # None =>
          /\ project'[s.project].org # None
          /\ s.project \in given' \/ s.org = project'[s.project].org
    /\ s.project = None /\ s.org # None =>
          \E j \in Job : pc'[j] # "idle" /\ req'[j].op \in {"semiclaim", "delete"}
RowsKept == \A s \in Row : RowOK(s) => GoodNow(s)
JobsGoOn == \A k \in Job : pc[k] # "idle" => pc'[k] # "idle" /\ req'[k] = req[k]
OrgsKept ==
    /\ given \subseteq given'
    /\ \A p \in Project : project[p].org # None =>
          /\ project'[p].org # None
          /\ project'[p].org = project[p].org \/ p \in given'

LEMMA RowFrame == ASSUME JobsGoOn, OrgsKept PROVE RowsKept
<1> SUFFICES ASSUME NEW s \in Row, RowOK(s) PROVE GoodNow(s)
    BY DEF RowsKept
<1>1. s.project # None => s.project \in Project
    BY DEF Row
<1>2. s.project # None =>
          /\ project'[s.project].org # None
          /\ s.project \in given' \/ s.org = project'[s.project].org
    BY <1>1 DEF OrgsKept, RowOK
<1>3. ASSUME s.project = None, s.org # None
      PROVE  \E j \in Job : pc'[j] # "idle" /\ req'[j].op \in {"semiclaim", "delete"}
    <2>1. PICK j \in Job : pc[j] # "idle" /\ req[j].op \in {"semiclaim", "delete"}
        BY <1>3 DEF RowOK
    <2> QED
        BY <2>1 DEF JobsGoOn
<1> QED
    BY <1>2, <1>3 DEF GoodNow

\* Rows that are right stay right.
LEMMA RowsKeptStep == TypeOK /\ TargetInv /\ PhaseInv /\ CreateInv
        /\ [Next]_vars => RowsKept
<1> SUFFICES ASSUME TypeOK /\ TargetInv /\ PhaseInv /\ CreateInv, [Next]_vars PROVE RowsKept
    OBVIOUS
<1>1. ASSUME NEW j \in Job, NEW r \in Asked, Ask(j, r) PROVE RowsKept
    <2>1. OrgsKept
        BY <1>1 DEF Ask, OrgsKept
    <2>2. JobsGoOn
        BY <1>1, AskType DEF JobsGoOn
    <2> QED
        BY <2>1, <2>2, RowFrame
<1>2. ASSUME NEW j \in Job, Save(j) PROVE RowsKept
    <2>1. OrgsKept
        BY <1>2 DEF Save, history, OrgsKept
    <2>2. JobsGoOn
        BY <1>2, EndType DEF Save, Goto, jobs, JobsGoOn, TypeOK
    <2> QED
        BY <2>1, <2>2, RowFrame
<1>3. ASSUME NEW j \in Job, CreateStreams(j) PROVE RowsKept
    <2>1. OrgsKept
        BY <1>3 DEF CreateStreams, history, OrgsKept
    <2>2. JobsGoOn
        BY <1>3, EndType DEF CreateStreams, Goto, jobs, JobsGoOn, TypeOK
    <2> QED
        BY <2>1, <2>2, RowFrame
<1>4. ASSUME NEW j \in Job, Fail(j) PROVE RowsKept
    <2>1. OrgsKept
        BY <1>4 DEF Fail, history, OrgsKept
    <2>2. JobsGoOn
        BY <1>4, EndType DEF Fail, Goto, jobs, JobsGoOn, TypeOK
    <2> QED
        BY <2>1, <2>2, RowFrame
<1>5. ASSUME NEW j \in Job, SavePage(j) PROVE RowsKept
    <2>1. OrgsKept
        BY <1>5 DEF SavePage, history, OrgsKept
    <2>2. JobsGoOn
        BY <1>5, EndType DEF SavePage, Goto, jobs, JobsGoOn, TypeOK
    <2> QED
        BY <2>1, <2>2, RowFrame
<1>6. ASSUME NEW j \in Job, Commit(j) PROVE RowsKept
    <2>1. OrgsKept
        BY <1>6 DEF Commit, history, OrgsKept
    <2>2. JobsGoOn
        BY <1>6, EndType DEF Commit, Goto, jobs, JobsGoOn, TypeOK
    <2> QED
        BY <2>1, <2>2, RowFrame
<1>7. ASSUME NEW j \in Job, Insert(j) PROVE RowsKept
    <2>1. OrgsKept
        <3>1. req[j].project \in Project /\ project[req[j].project].org = None
            BY <1>7, RequestType DEF Insert, PhaseInv, CreateInv, Fresh
        <3> QED
            BY <1>7, <3>1 DEF Insert, Write, history, OrgsKept, TypeOK
    <2>2. JobsGoOn
        BY <1>7, EndType DEF Insert, JobsGoOn, TypeOK
    <2> QED
        BY <2>1, <2>2, RowFrame
<1>8. ASSUME NEW j \in Job, Give(j) PROVE RowsKept
    <2>1. OrgsKept
        <3>1. req[j].project \in Project /\ req[j].org # None
            BY <1>8, RequestType, Distinct DEF Give, PhaseInv
        <3> QED
            BY <1>8, <3>1 DEF Give, Write, OrgsKept, TypeOK
    <2>2. JobsGoOn
        BY <1>8, EndType DEF Give, JobsGoOn, TypeOK
    <2> QED
        BY <2>1, <2>2, RowFrame
<1>9. ASSUME NEW j \in Job, Destroy(j) PROVE RowsKept
    <2>1. OrgsKept
        <3>1. CASE Exists(req[j].project)
            <4>1. req[j].project \in Project
                BY <3>1 DEF Exists, Request, TypeOK
            <4>2. Remove(req[j].project) /\ given' = given
                BY <1>9, <3>1 DEF Destroy, history
            <4> QED
                BY <4>1, <4>2, RemoveType DEF OrgsKept, TypeOK
        <3>2. CASE ~Exists(req[j].project)
            BY <1>9, <3>2 DEF Destroy, history, OrgsKept, TypeOK
        <3> QED
            BY <3>1, <3>2
    <2>2. JobsGoOn
        BY <1>9, EndType DEF Destroy, JobsGoOn, TypeOK
    <2> QED
        BY <2>1, <2>2, RowFrame
<1>10. ASSUME NEW j \in Job, Start(j) PROVE RowsKept
    <2>1. OrgsKept
        BY <1>10 DEF Start, history, OrgsKept
    <2>2. JobsGoOn
        BY <1>10, EndType DEF Start, Goto, jobs, JobsGoOn, TypeOK
    <2> QED
        BY <2>1, <2>2, RowFrame
<1>11. ASSUME NEW j \in Job, req[j].op \in {"unclaim", "reset"}, ClearStreams(j) PROVE RowsKept
    <2>1. OrgsKept
        BY <1>11 DEF ClearStreams, history, OrgsKept
    <2>2. JobsGoOn
        BY <1>11, EndType DEF ClearStreams, Goto, jobs, JobsGoOn, TypeOK
    <2> QED
        BY <2>1, <2>2, RowFrame
<1>12. ASSUME NEW j \in Job, req[j].op \in {"unclaim", "reset"}, DropReports(j) PROVE RowsKept
    <2>1. OrgsKept
        BY <1>12 DEF DropReports, history, OrgsKept
    <2>2. JobsGoOn
        BY <1>12, EndType DEF DropReports, Goto, jobs, JobsGoOn, TypeOK
    <2> QED
        BY <2>1, <2>2, RowFrame
<1>13. ASSUME NEW j \in Job, req[j].op \in {"unclaim", "reset"}, Release(j) PROVE RowsKept
    <2>1. OrgsKept
        BY <1>13 DEF Release, history, OrgsKept
    <2>2. JobsGoOn
        BY <1>13, EndType DEF Release, Goto, jobs, JobsGoOn, TypeOK
    <2> QED
        BY <2>1, <2>2, RowFrame
<1>14. ASSUME NEW j \in Job, req[j].op \in {"unclaim", "reset"}, EraseData(j) PROVE RowsKept
    <2>1. OrgsKept
        BY <1>14 DEF EraseData, history, OrgsKept
    <2>2. JobsGoOn
        BY <1>14, EndType DEF EraseData, Goto, jobs, JobsGoOn, TypeOK
    <2> QED
        BY <2>1, <2>2, RowFrame
<1>15. ASSUME NEW j \in Job, req[j].op = "delete", Find(j) PROVE RowsKept
    <2>1. OrgsKept
        BY <1>15 DEF Find, history, OrgsKept
    <2>2. JobsGoOn
        BY <1>15, EndType DEF Find, Goto, jobs, JobsGoOn, TypeOK
    <2> QED
        BY <2>1, <2>2, RowFrame
<1>16. ASSUME NEW j \in Job, req[j].op = "delete", Strip(j) PROVE RowsKept
    <2>1. OrgsKept
        BY <1>16 DEF Strip, history, OrgsKept
    <2>2. JobsGoOn
        BY <1>16, EndType DEF Strip, Goto, jobs, JobsGoOn, TypeOK
    <2> QED
        BY <2>1, <2>2, RowFrame
<1>17. ASSUME NEW j \in Job, req[j].op = "delete", RemoveProject(j) PROVE RowsKept
    <2>1. OrgsKept
        <3>1. mem[j].target \in Project /\ Remove(mem[j].target) /\ given' = given
            BY <1>17 DEF RemoveProject, TargetInv, history
        <3> QED
            BY <3>1, RemoveType DEF OrgsKept, TypeOK
    <2>2. JobsGoOn
        BY <1>17 DEF RemoveProject, Goto, jobs, JobsGoOn, TypeOK
    <2> QED
        BY <2>1, <2>2, RowFrame
<1>18. ASSUME NEW j \in Job, Ack(j) PROVE RowsKept
    <2>1. OrgsKept
        BY <1>18 DEF Ack, history, OrgsKept
    <2>2. JobsGoOn
        BY <1>18, EndType DEF Ack, Goto, jobs, JobsGoOn, TypeOK
    <2> QED
        BY <2>1, <2>2, RowFrame
<1>19. ASSUME NEW j \in Job, Retry(j) PROVE RowsKept
    <2>1. OrgsKept
        BY <1>19 DEF Retry, history, OrgsKept
    <2>2. JobsGoOn
        BY <1>19, EndType DEF Retry, Goto, jobs, JobsGoOn, TypeOK
    <2> QED
        BY <2>1, <2>2, RowFrame
<1>20. CASE UNCHANGED vars
    BY <1>20, RowFrame DEF vars, jobs, history, JobsGoOn, OrgsKept
<1> QED
    BY <1>1, <1>2, <1>3, <1>4, <1>5, <1>6, <1>7, <1>8, <1>9, <1>10, <1>11, <1>12,
       <1>13, <1>14, <1>15, <1>16, <1>17, <1>18, <1>19, <1>20 DEF Next, Unclaim,
       Delete

LEMMA RowsFinish ==
    ASSUME TypeOK, RowsInv, RowsKept, dev' = dev \/ GoodNow(dev'),
           \A k \in Job : \/ mem'[k] = mem[k]
                          \/ GoodNow(mem'[k].save) /\ GoodNow(mem'[k].held)
    PROVE  RowsInv'
<1>1. GoodNow(dev')
    BY DEF RowsInv, RowsKept, TypeOK
<1>2. \A k \in Job : GoodNow(mem'[k].save) /\ GoodNow(mem'[k].held)
    <2> SUFFICES ASSUME NEW k \in Job, mem'[k] = mem[k]
                 PROVE  GoodNow(mem'[k].save) /\ GoodNow(mem'[k].held)
        OBVIOUS
    <2>1. mem[k].save \in Row /\ mem[k].held \in Row
        BY DEF TypeOK, Memory
    <2>2. RowOK(mem[k].save) /\ RowOK(mem[k].held)
        BY DEF RowsInv
    <2> QED
        BY <2>1, <2>2 DEF RowsKept
<1> QED
    BY <1>1, <1>2 DEF RowsInv, RowOK, GoodNow

LEMMA BlankGood == GoodNow(Blank.save) /\ GoodNow(Blank.held)
BY DEF GoodNow, Blank, NoRow

\* The handler of a request saves a row that is right.
LEMMA SavesGood ==
    ASSUME TypeOK, OrgInv, RowsInv, RowsKept,
           NEW j \in Job, NEW r \in Asked, Ask(j, r)
    PROVE  GoodNow(Saves(r))
<1>1. /\ Allowed(r) /\ project' = project /\ given' = given
      /\ pc'[j] = First(r) /\ req'[j] = r /\ First(r) \in {"queued", "asked", "over"}
    BY AskType
<1>2. dev \in Row /\ GoodNow(dev) /\ RowOK(dev)
    BY DEF TypeOK, RowsInv, RowsKept
<1>3. CASE Claims(r)
    <2>1. CASE r.project = None
        <3>1. Saves(r).project = None /\ Saves(r).org = None
            BY <1>2, <1>3, <2>1 DEF Saves, OrgOf, Row
        <3> QED
            BY <3>1 DEF GoodNow
    <2>2. CASE r.project # None
        <3>1. r.project \in Project /\ project[r.project].org # None
            BY <1>1, <1>3, <2>2, RequestType DEF Claims, Allowed, Exists, OrgInv, Request
        <3>2. /\ Saves(r).project = r.project
              /\ Saves(r).org = project[r.project].org
            BY <1>2, <1>3, <2>2 DEF Saves, OrgOf, Row
        <3> QED
            BY <1>1, <3>1, <3>2, Distinct DEF GoodNow
    <2> QED
        BY <2>1, <2>2
<1>4. CASE ~Claims(r) /\ r.op = "semiclaim" /\ dev.org = None
    <2>1. Saves(r).project = dev.project
        BY <1>2, <1>4 DEF Saves, Row
    <2>2. dev.project # None =>
             project[dev.project].org # None /\ dev.project \in given
        BY <1>2, <1>4 DEF RowOK
    <2>3. pc'[j] # "idle" /\ req'[j].op = "semiclaim"
        BY <1>1, <1>4
    <2> QED
        BY <1>1, <2>1, <2>2, <2>3 DEF GoodNow
<1>5. CASE ~Claims(r) /\ ~(r.op = "semiclaim" /\ dev.org = None)
    <2>1. Saves(r).project = dev.project /\ Saves(r).org = dev.org
        BY <1>2, <1>5 DEF Saves, Row
    <2> QED
        BY <1>2, <2>1 DEF GoodNow
<1> QED
    BY <1>3, <1>4, <1>5

\* The last save of a task is right.
LEMMA FinalGood ==
    ASSUME TypeOK, RowsInv, RowsKept, NEW j \in Job PROVE GoodNow(Final(j))
<1>1. mem[j].held \in Row /\ GoodNow(mem[j].held)
    BY DEF TypeOK, Memory, RowsInv, RowsKept
<1>2. CASE req[j].op = "unclaim"
    BY <1>1, <1>2 DEF Final, Row, GoodNow
<1>3. CASE req[j].op # "unclaim"
    <2>1. Final(j).project = mem[j].held.project /\ Final(j).org = mem[j].held.org
        BY <1>1, <1>3 DEF Final, Row
    <2> QED
        BY <1>1, <2>1 DEF GoodNow
<1> QED
    BY <1>2, <1>3

\* A removed project takes itself out of the row.
LEMMA RemoveGood ==
    ASSUME TypeOK, RowsInv, RowsKept, NEW j \in Job, NEW p \in Project, Remove(p),
           pc'[j] # "idle", req'[j].op = "delete"
    PROVE  dev' = dev \/ GoodNow(dev')
<1>1. dev' = (IF dev.project = p THEN [dev EXCEPT !.project = None] ELSE dev) /\ dev \in Row
    BY RemoveType DEF TypeOK
<1>2. CASE dev.project = p
    <2>1. dev'.project = None
        BY <1>1, <1>2 DEF Row
    <2> QED
        BY <2>1 DEF GoodNow
<1> QED
    BY <1>1, <1>2

\* The rows that are saved or may be saved are right.
LEMMA RowsStep == TypeOK /\ TargetInv /\ PhaseInv /\ OrgInv /\ RowsInv /\ RowsKept
        /\ [Next]_vars => RowsInv'
<1> SUFFICES ASSUME TypeOK /\ TargetInv /\ PhaseInv /\ OrgInv /\ RowsInv /\ RowsKept,
        [Next]_vars PROVE RowsInv'
    OBVIOUS
<1>1. ASSUME NEW j \in Job, NEW r \in Asked, Ask(j, r) PROVE RowsInv'
    <2>1. GoodNow(Saves(r)) /\ GoodNow(NoRow)
        BY <1>1, SavesGood DEF GoodNow, NoRow
    <2> QED
        BY <1>1, <2>1, AskType, RowsFinish
<1>2. ASSUME NEW j \in Job, Save(j) PROVE RowsInv'
    <2>1. GoodNow(mem[j].save)
        BY DEF TypeOK, Memory, RowsInv, RowsKept
    <2>2. \A k \in Job : mem'[k] = mem[k] \/ (k = j /\ mem'[k] = Blank)
        BY <1>2, EndType DEF Save
    <2> QED
        BY <1>2, <2>1, <2>2, BlankGood, RowsFinish DEF Save
<1>3. ASSUME NEW j \in Job, CreateStreams(j) PROVE RowsInv'
    BY <1>3, EndType, BlankGood, RowsFinish DEF CreateStreams
<1>4. ASSUME NEW j \in Job, Fail(j) PROVE RowsInv'
    BY <1>4, BlankGood, RowsFinish DEF Fail, Forget, TypeOK
<1>5. ASSUME NEW j \in Job, SavePage(j) PROVE RowsInv'
    <2>1. GoodNow(mem[j].save)
        BY DEF TypeOK, Memory, RowsInv, RowsKept
    <2>2. \A k \in Job : mem'[k] = mem[k] \/ (k = j /\ mem'[k] = Blank)
        BY <1>5 DEF SavePage, Forget, TypeOK
    <2> QED
        BY <1>5, <2>1, <2>2, BlankGood, RowsFinish DEF SavePage
<1>6. ASSUME NEW j \in Job, Commit(j) PROVE RowsInv'
    BY <1>6, EndType, BlankGood, RowsFinish DEF Commit
<1>7. ASSUME NEW j \in Job, Insert(j) PROVE RowsInv'
    BY <1>7, EndType, BlankGood, RowsFinish DEF Insert
<1>8. ASSUME NEW j \in Job, Give(j) PROVE RowsInv'
    BY <1>8, EndType, BlankGood, RowsFinish DEF Give
<1>9. ASSUME NEW j \in Job, Destroy(j) PROVE RowsInv'
    <2>1. dev' = dev \/ GoodNow(dev')
        <3>1. CASE Exists(req[j].project)
            <4>1. req[j].project \in Project
                BY <3>1 DEF Exists, Request, TypeOK
            <4>2. pc'[j] # "idle" /\ req'[j].op = "delete"
                BY <1>9, EndType DEF Destroy, TypeOK
            <4> QED
                BY <1>9, <3>1, <4>1, <4>2, RemoveGood DEF Destroy
        <3>2. CASE ~Exists(req[j].project)
            BY <1>9, <3>2 DEF Destroy
        <3> QED
            BY <3>1, <3>2
    <2> QED
        BY <1>9, <2>1, EndType, BlankGood, RowsFinish DEF Destroy
<1>10. ASSUME NEW j \in Job, Start(j) PROVE RowsInv'
    <2>1. GoodNow(dev) /\ GoodNow(mem[j].save)
        BY DEF TypeOK, Memory, RowsInv, RowsKept
    <2>2. \A k \in Job : \/ mem'[k] = mem[k] \/ mem'[k] = Blank
                         \/ mem'[k].save = mem[k].save /\ mem'[k].held = dev /\ k = j
        BY <1>10, EndType DEF Start, TypeOK, Memory
    <2> QED
        BY <1>10, <2>1, <2>2, BlankGood, RowsFinish DEF Start
<1>11. ASSUME NEW j \in Job, req[j].op \in {"unclaim", "reset"}, ClearStreams(j) PROVE RowsInv'
    BY <1>11, RowsFinish DEF ClearStreams, jobs
<1>12. ASSUME NEW j \in Job, req[j].op \in {"unclaim", "reset"}, DropReports(j) PROVE RowsInv'
    BY <1>12, RowsFinish DEF DropReports, jobs
<1>13. ASSUME NEW j \in Job, req[j].op \in {"unclaim", "reset"}, Release(j) PROVE RowsInv'
    BY <1>13, FinalGood, RowsFinish DEF Release, jobs
<1>14. ASSUME NEW j \in Job, req[j].op \in {"unclaim", "reset"}, EraseData(j) PROVE RowsInv'
    BY <1>14, RowsFinish DEF EraseData, jobs
<1>15. ASSUME NEW j \in Job, req[j].op = "delete", Find(j) PROVE RowsInv'
    <2>1. GoodNow(mem[j].save) /\ GoodNow(mem[j].held)
        BY DEF TypeOK, Memory, RowsInv, RowsKept
    <2>2. \A k \in Job : \/ mem'[k] = mem[k] \/ mem'[k] = Blank
                         \/ mem'[k].save = mem[k].save /\ mem'[k].held = mem[k].held /\ k = j
        BY <1>15, EndType DEF Find, TypeOK, Memory
    <2> QED
        BY <1>15, <2>1, <2>2, BlankGood, RowsFinish DEF Find
<1>16. ASSUME NEW j \in Job, req[j].op = "delete", Strip(j) PROVE RowsInv'
    BY <1>16, RowsFinish DEF Strip, jobs
<1>17. ASSUME NEW j \in Job, req[j].op = "delete", RemoveProject(j) PROVE RowsInv'
    <2>1. mem[j].target \in Project /\ Remove(mem[j].target)
        BY <1>17 DEF RemoveProject, TargetInv
    <2>2. pc'[j] # "idle" /\ req'[j].op = "delete"
        BY <1>17 DEF RemoveProject, Goto, jobs, TypeOK
    <2> QED
        BY <1>17, <2>1, <2>2, RemoveGood, RowsFinish DEF RemoveProject, jobs
<1>18. ASSUME NEW j \in Job, Ack(j) PROVE RowsInv'
    BY <1>18, EndType, BlankGood, RowsFinish DEF Ack
<1>19. ASSUME NEW j \in Job, Retry(j) PROVE RowsInv'
    BY <1>19, RowsFinish DEF Retry, jobs
<1>20. CASE UNCHANGED vars
    BY <1>20, RowsFinish DEF vars, jobs
<1> QED
    BY <1>1, <1>2, <1>3, <1>4, <1>5, <1>6, <1>7, <1>8, <1>9, <1>10, <1>11, <1>12,
       <1>13, <1>14, <1>15, <1>16, <1>17, <1>18, <1>19, <1>20 DEF Next, Unclaim,
       Delete

\* The jobs that were open together know each other, if none is opened and none
\* is begun.
LEMMA MetFrame ==
    ASSUME MetInv, met' = met, pages' \subseteq pages, JobsGoOn,
           \A k \in Job : Open(k)' => Open(k), TypeOK
    PROVE  MetInv'
BY DEF MetInv, JobsGoOn, TypeOK

\* A job that stays as it is has saved the Device row.
Stays(j) ==
    /\ pc'[j] = pc[j] /\ mem'[j] = mem[j]
    /\ streams' = streams /\ project' = project /\ given' = given

\* Who acts is open or has a page to save; what the others are stays.
Acts(j) ==
    /\ Open(j) \/ j \in pages
    /\ \A k \in Job \ {j} : pc'[k] = pc[k] /\ mem'[k] = mem[k]
    /\ pc'[j] # "asked" \/ Stays(j)
    /\ pc'[j] # "idle"
    /\ Open(j)' => Open(j)
    /\ req' = req /\ met' = met /\ owner' = owner /\ pages' \subseteq pages
ActorMoves == (\E j \in Job, r \in Asked : Ask(j, r)) \/ (\E j \in Job : Acts(j)) \/ UNCHANGED vars
\* What a job does after its request has been read.
Works(j) ==
    \/ Save(j) \/ CreateStreams(j) \/ Fail(j) \/ SavePage(j) \/ Commit(j)
    \/ Insert(j) \/ Give(j) \/ Destroy(j) \/ Start(j)
    \/ req[j].op \in {"unclaim", "reset"} /\ Unclaim(j)
    \/ req[j].op = "delete" /\ Delete(j)
    \/ Ack(j) \/ Retry(j)

\* Whoever works has begun, and leaves the others as they are.
LEMMA StepActs ==
    ASSUME TypeOK, PhaseInv, NEW j \in Job, Works(j) PROVE Acts(j)
<1>1. CASE Save(j)
    <2>1. Open(j)
        BY <1>1 DEF Save, Open
    <2>2. CASE End(j)
        BY <1>1, <2>1, <2>2, EndType DEF Save, Acts, Open, history, TypeOK
    <2>3. ASSUME NEW l \in {"claimed", "queued"}, Goto(j, l), mem' = mem
          PROVE  Acts(j)
        BY <1>1, <2>1, <2>3 DEF Save, Goto, Acts, Open, history, TypeOK
    <2>4. CASE pc' = pc /\ mem' = mem
        BY <1>1, <2>1, <2>4 DEF Save, Acts, Stays, Open, history, TypeOK
    <2> QED
        BY <1>1, <2>2, <2>3, <2>4 DEF Save
<1>2. CASE CreateStreams(j)
    <2>1. Open(j)
        BY <1>2 DEF CreateStreams, Open
    <2> QED
        BY <1>2, <2>1, EndType DEF CreateStreams, Acts, Open, history, TypeOK
<1>3. CASE Fail(j)
    <2>1. Open(j)
        BY <1>3 DEF Fail, Open
    <2> QED
        BY <1>3, <2>1 DEF Fail, Goto, Forget, Acts, Open, history, TypeOK
<1>4. CASE SavePage(j)
    <2>1. pc[j] # "asked" /\ pc[j] # "idle" /\ j \in pages
        BY <1>4 DEF SavePage, PhaseInv
    <2> QED
        BY <1>4, <2>1 DEF SavePage, Forget, Acts, Open, history, TypeOK
<1>5. CASE Commit(j)
    <2>1. Open(j)
        BY <1>5 DEF Commit, Open
    <2> QED
        BY <1>5, <2>1, EndType DEF Commit, Acts, Open, history, TypeOK
<1>6. CASE Insert(j)
    <2>1. Open(j)
        BY <1>6 DEF Insert, Open
    <2> QED
        BY <1>6, <2>1, EndType DEF Insert, Acts, Open, history, TypeOK
<1>7. CASE Give(j)
    <2>1. Open(j)
        BY <1>7 DEF Give, Open
    <2> QED
        BY <1>7, <2>1, EndType DEF Give, Acts, Open, history, TypeOK
<1>8. CASE Destroy(j)
    <2>1. Open(j)
        BY <1>8 DEF Destroy, Open
    <2> QED
        BY <1>8, <2>1, EndType DEF Destroy, Acts, Open, history, TypeOK
<1>9. CASE Start(j)
    <2>1. Open(j)
        BY <1>9 DEF Start, Open
    <2>2. CASE End(j)
        BY <1>9, <2>1, <2>2, EndType DEF Start, Acts, Open, history, TypeOK
    <2>3. CASE Goto(j, "started") /\ mem' = [mem EXCEPT ![j].held = dev]
        BY <1>9, <2>1, <2>3 DEF Start, Goto, Acts, Open, history, TypeOK
    <2> QED
        BY <1>9, <2>2, <2>3 DEF Start
<1>10. CASE ClearStreams(j)
    <2>1. Open(j)
        BY <1>10 DEF ClearStreams, Open, Working
    <2> QED
        BY <1>10, <2>1 DEF ClearStreams, Goto, jobs, Acts, Open, history, TypeOK
<1>11. CASE DropReports(j)
    <2>1. Open(j)
        BY <1>11 DEF DropReports, Open, Working
    <2> QED
        BY <1>11, <2>1 DEF DropReports, Goto, jobs, Acts, Open, history, TypeOK
<1>12. CASE Release(j)
    <2>1. Open(j)
        BY <1>12 DEF Release, Open, Working
    <2> QED
        BY <1>12, <2>1 DEF Release, Goto, jobs, Acts, Open, history, TypeOK
<1>13. CASE EraseData(j)
    <2>1. Open(j)
        BY <1>13 DEF EraseData, Open, Working
    <2> QED
        BY <1>13, <2>1 DEF EraseData, Goto, jobs, Acts, Open, history, TypeOK
<1>14. CASE Find(j)
    <2>1. Open(j)
        BY <1>14 DEF Find, Open
    <2>2. CASE End(j)
        BY <1>14, <2>1, <2>2, EndType DEF Find, Acts, Open, history, TypeOK
    <2>3. ASSUME NEW p \in Project, mem' = [mem EXCEPT ![j].target = p],
                 Goto(j, IF dev.project = p THEN "removed" ELSE "started")
          PROVE  Acts(j)
        BY <1>14, <2>1, <2>3 DEF Find, Goto, Acts, Open, history, TypeOK
    <2> QED
        BY <1>14, <2>2, <2>3 DEF Find
<1>15. CASE Strip(j)
    <2>1. Open(j)
        BY <1>15 DEF Strip, Open, Working
    <2> QED
        BY <1>15, <2>1 DEF Strip, Goto, jobs, Acts, Open, history, TypeOK
<1>16. CASE RemoveProject(j)
    <2>1. Open(j)
        BY <1>16 DEF RemoveProject, Open, Working
    <2> QED
        BY <1>16, <2>1 DEF RemoveProject, Goto, jobs, Acts, Open, history, TypeOK
<1>17. CASE Ack(j)
    <2>1. Open(j)
        BY <1>17 DEF Ack, Open
    <2> QED
        BY <1>17, <2>1, EndType DEF Ack, Acts, Open, history, TypeOK
<1>18. CASE Retry(j)
    <2>1. Open(j)
        BY <1>18 DEF Retry, Open, Working
    <2> QED
        BY <1>18, <2>1 DEF Retry, Goto, jobs, Acts, Open, history, TypeOK
<1> QED
    BY <1>1, <1>2, <1>3, <1>4, <1>5, <1>6, <1>7, <1>8, <1>9, <1>10, <1>11,
       <1>12, <1>13, <1>14, <1>15, <1>16, <1>17, <1>18 DEF Works, Unclaim,
       Delete

LEMMA ActorStep == TypeOK /\ PhaseInv /\ [Next]_vars => ActorMoves
<1> SUFFICES ASSUME TypeOK, PhaseInv, [Next]_vars PROVE ActorMoves
    OBVIOUS
<1>1. CASE UNCHANGED vars
    BY <1>1 DEF ActorMoves
<1>2. ASSUME NEW j \in Job, Works(j) PROVE ActorMoves
    BY <1>2, StepActs DEF ActorMoves
<1>3. ASSUME NEW j \in Job, NEW r \in Asked, Ask(j, r) PROVE ActorMoves
    BY <1>3 DEF ActorMoves
<1> QED
    BY <1>1, <1>2, <1>3 DEF Next, Works

\* The jobs that were open together know each other.
LEMMA MetStep == TypeOK /\ PhaseInv /\ MetInv /\ [Next]_vars => MetInv'
<1> SUFFICES ASSUME TypeOK, PhaseInv, MetInv, [Next]_vars PROVE MetInv'
    OBVIOUS
<1>1. ASSUME NEW j \in Job, NEW r \in Asked, Ask(j, r) PROVE MetInv'
    <2> DEFINE open == {k \in Job : Open(k) \/ k \in pages}
    <2>1. /\ pc' = [pc EXCEPT ![j] = First(r)] /\ First(r) # "idle" /\ pc[j] = "idle"
          /\ pages' \subseteq pages \cup {j}
          /\ j \notin pages
        BY <1>1, AskType, ZenonT(60) DEF Ask, PhaseInv
    <2>2. met' = [k \in Job |-> IF k = j THEN open
                                ELSE IF k \in open THEN met[k] \cup {j} ELSE met[k]]
        BY <1>1 DEF Ask
    <2>3. \A k \in open : k # j /\ pc[k] # "idle"
        BY <2>1 DEF Open, PhaseInv
    <2>4. \A k \in Job \ {j} : pc'[k] = pc[k]
        BY <2>1 DEF TypeOK
    <2>5. pc'[j] # "idle"
        BY <2>1 DEF TypeOK
    <2>6. ASSUME NEW i \in Job, NEW k \in Job \ {i}, Open(i)', Open(k)' \/ k \in pages'
          PROVE  k \in met'[i]
        <3>1. CASE i = j
            <4>1. k \in open
                BY <2>1, <2>4, <2>6, <3>1 DEF Open
            <4> QED
                BY <2>2, <3>1, <4>1
        <3>2. CASE i # j
            <4>1. Open(i) /\ i \in open
                BY <2>4, <2>6, <3>2 DEF Open
            <4>2. CASE k = j
                BY <2>2, <3>2, <4>1, <4>2
            <4>3. CASE k # j
                <5>1. Open(k) \/ k \in pages
                    BY <2>1, <2>4, <2>6, <4>3 DEF Open
                <5>2. k \in met[i]
                    BY <2>6, <4>1, <5>1 DEF MetInv
                <5> QED
                    BY <2>2, <3>2, <4>1, <5>2
            <4> QED
                BY <4>2, <4>3
        <3> QED
            BY <3>1, <3>2
    <2>7. ASSUME NEW i \in Job, NEW k \in met'[i] PROVE pc'[k] # "idle"
        <3>1. k \in open \/ k = j \/ k \in met[i]
            BY <2>2, <2>7
        <3>2. k \in Job
            BY <3>1 DEF TypeOK
        <3>3. CASE k = j
            BY <2>5, <3>3
        <3>4. CASE k # j
            BY <2>3, <2>4, <3>1, <3>2, <3>4 DEF MetInv
        <3> QED
            BY <3>3, <3>4
    <2> QED
        BY <2>6, <2>7 DEF MetInv
<1>2. ASSUME NEW j \in Job, Acts(j) PROVE MetInv'
    <2>1. met' = met /\ pages' \subseteq pages /\ JobsGoOn
        BY <1>2 DEF Acts, JobsGoOn
    <2>2. \A k \in Job : Open(k)' => Open(k)
        BY <1>2 DEF Acts, Open
    <2> QED
        BY <2>1, <2>2, MetFrame
<1>3. CASE UNCHANGED vars
    BY <1>3 DEF vars, history, MetInv, Open
<1> QED
    BY <1>1, <1>2, <1>3, ActorStep DEF ActorMoves

\* An upload that nobody overlapped finds what it has read.
LEMMA UploadStep == TypeOK /\ PhaseInv /\ MetInv /\ UploadInv /\ [Next]_vars => UploadInv'
<1> SUFFICES ASSUME TypeOK, PhaseInv, MetInv, UploadInv, [Next]_vars PROVE UploadInv'
    OBVIOUS
<1>1. ASSUME NEW j \in Job, NEW r \in Asked, Ask(j, r) PROVE UploadInv'
    <2> SUFFICES ASSUME NEW k \in Job, pc'[k] = "asked", req'[k].op = "upload", met'[k] = {}
                 PROVE  KeptFor(k, mem[k].gid)'
        BY DEF UploadInv
    <2>1. k = j
        <3> SUFFICES ASSUME k # j PROVE FALSE
            OBVIOUS
        <3>1. pc[k] = "asked"
            BY <1>1, AskType
        <3>2. j \in met'[k]
            BY <1>1, <3>1 DEF Ask, Open
        <3> QED
            BY <3>2
    <2>2. r.op = "upload" /\ mem'[k].gid = GidRead(r) /\ dev.project \in streams
        BY <1>1, <2>1, AskType DEF Allowed
    <2>3. GidRead(r) = project[dev.project].gid
        BY <2>2 DEF GidRead
    <2>4. owner'[k] = project[dev.project].org
        BY <1>1, <2>1, <2>2, Distinct DEF Ask, TypeOK
    <2>5. streams' = streams /\ project' = project
        BY <1>1 DEF Ask
    <2> QED
        BY <2>2, <2>3, <2>4, <2>5 DEF KeptFor
<1>2. ASSUME NEW j \in Job, Acts(j) PROVE UploadInv'
    <2> SUFFICES ASSUME NEW k \in Job, pc'[k] = "asked", req'[k].op = "upload", met'[k] = {}
                 PROVE  KeptFor(k, mem[k].gid)'
        BY DEF UploadInv
    <2>1. pc[k] = "asked" /\ met[k] = {} /\ req[k].op = "upload" /\ owner' = owner
        BY <1>2 DEF Acts, Stays
    <2>2. k = j
        BY <1>2, <2>1 DEF Acts, MetInv, Open
    <2>3. Stays(k) /\ KeptFor(k, mem[k].gid)
        BY <1>2, <2>1, <2>2 DEF Acts, UploadInv
    <2> QED
        BY <2>1, <2>3 DEF Stays, KeptFor
<1>3. CASE UNCHANGED vars
    BY <1>3 DEF vars, jobs, history, UploadInv, KeptFor
<1> QED
    BY <1>1, <1>2, <1>3, ActorStep DEF ActorMoves

\* A project with a stream keeps what readings know of it.
StaysFor(p) ==
    /\ p \in streams' /\ project'[p].gid = project[p].gid
    /\ project'[p].org = project[p].org \/ p \in given'
    /\ given \subseteq given'

LEMMA KeptFrame ==
    ASSUME NEW x \in Reading, NEW g, KeptFor(x, g), owner'[x] = owner[x],
           \A p \in streams : project[p].gid = g => StaysFor(p)
    PROVE  \E p \in streams' : project'[p].gid = g
                                  /\ (p \in given' \/ project'[p].org = owner'[x])
<1>1. PICK p \in streams : project[p].gid = g /\ (p \in given \/ project[p].org = owner[x])
    BY DEF KeptFor
<1>2. StaysFor(p)
    BY <1>1
<1> QED
    BY <1>1, <1>2 DEF StaysFor

\* It is enough that the readings that are still stored keep their project.
LEMMA KeptFinish ==
    ASSUME TypeOK, KeptInv, owner' = owner, met' = met,
           \A x \in Reading : place'[x] # 0 =>
              /\ place'[x] = place[x]
              /\ \A p \in streams : project[p].gid = place[x] => StaysFor(p)
    PROVE  KeptInv'
<1> SUFFICES ASSUME NEW x \in Reading, place'[x] # 0, ~(x # Old /\ met'[x] # {})
             PROVE  KeptFor(x, place[x])'
    BY DEF KeptInv
<1>1. KeptFor(x, place[x]) /\ place'[x] = place[x]
    BY DEF KeptInv
<1>2. \A p \in streams : project[p].gid = place[x] => StaysFor(p)
    OBVIOUS
<1>3. owner'[x] = owner[x]
    OBVIOUS
<1>4. \E p \in streams' : project'[p].gid = place[x]
                             /\ (p \in given' \/ project'[p].org = owner'[x])
    BY <1>1, <1>2, <1>3, KeptFrame
<1> QED
    BY <1>1, <1>4 DEF KeptFor

\* A removed project takes its readings with it.
LEMMA RemoveKept ==
    ASSUME TypeOK, KeptInv, NEW p \in Project, Remove(p),
           owner' = owner, met' = met, given' = given
    PROVE  KeptInv'
<1>1. /\ streams' = streams \ {p}
      /\ project' = [project EXCEPT ![p] = [gid |-> 0, org |-> project[p].org]]
      /\ \A x \in Reading :
            place'[x] = IF p \in streams /\ place[x] = project[p].gid THEN 0 ELSE place[x]
    BY RemoveType
<1>2. \A q \in streams \ {p} : StaysFor(q)
    BY <1>1 DEF StaysFor, TypeOK
<1>3. ASSUME NEW x \in Reading, place'[x] # 0
      PROVE  /\ place'[x] = place[x]
             /\ \A q \in streams : project[q].gid = place[x] => StaysFor(q)
    <2>1. place'[x] = place[x] /\ (p \in streams => place[x] # project[p].gid)
        BY <1>1, <1>3
    <2> QED
        BY <1>2, <2>1
<1> QED
    BY <1>3, KeptFinish

\* A stored reading has its project, or one with its gid, still.
LEMMA KeptStep == TypeOK /\ TargetInv /\ PhaseInv /\ CreateInv /\ GiveInv /\ StreamsInv
                /\ UploadInv /\ KeptInv /\ [Next]_vars => KeptInv'
<1> SUFFICES ASSUME TypeOK /\ TargetInv /\ PhaseInv /\ CreateInv /\ GiveInv /\ StreamsInv
                /\ UploadInv /\ KeptInv, [Next]_vars PROVE KeptInv'
    OBVIOUS
<1>1. ASSUME NEW j \in Job, NEW r \in Asked, Ask(j, r) PROVE KeptInv'
    <2>1. /\ place[j] = 0 /\ j # Old
          /\ place' = place /\ streams' = streams /\ project' = project /\ given' = given
        BY <1>1, Distinct DEF Ask, PhaseInv
    <2>2. \A x \in Reading \ {j} : owner'[x] = owner[x]
        BY <1>1 DEF Ask, TypeOK
    <2>3. \A k \in Job \ {j} : met[k] \subseteq met'[k]
        BY <1>1 DEF Ask
    <2> SUFFICES ASSUME NEW x \in Reading, place'[x] # 0, ~(x # Old /\ met'[x] # {})
                 PROVE  KeptFor(x, place[x])'
        BY DEF KeptInv
    <2>4. x # j
        BY <2>1
    <2>5. KeptFor(x, place[x])
        BY <2>1, <2>3, <2>4 DEF KeptInv, Reading
    <2> QED
        BY <2>1, <2>2, <2>4, <2>5 DEF KeptFor
<1>2. ASSUME NEW j \in Job, Save(j) PROVE KeptInv'
    <2>1. place' = place /\ owner' = owner /\ met' = met
        BY <1>2 DEF Save, jobs, history
    <2>2. \A p \in streams : StaysFor(p)
        BY <1>2 DEF Save, jobs, history, StaysFor
    <2> QED
        BY <2>1, <2>2, KeptFinish
<1>3. ASSUME NEW j \in Job, CreateStreams(j) PROVE KeptInv'
    <2>1. place' = place /\ owner' = owner /\ met' = met
        BY <1>3 DEF CreateStreams, jobs, history
    <2>2. \A p \in streams : StaysFor(p)
        BY <1>3 DEF CreateStreams, jobs, history, StaysFor
    <2> QED
        BY <2>1, <2>2, KeptFinish
<1>4. ASSUME NEW j \in Job, Fail(j) PROVE KeptInv'
    <2>1. place' = place /\ owner' = owner /\ met' = met
        BY <1>4 DEF Fail, jobs, history
    <2>2. \A p \in streams : StaysFor(p)
        BY <1>4 DEF Fail, jobs, history, StaysFor
    <2> QED
        BY <2>1, <2>2, KeptFinish
<1>5. ASSUME NEW j \in Job, SavePage(j) PROVE KeptInv'
    <2>1. place' = place /\ owner' = owner /\ met' = met
        BY <1>5 DEF SavePage, jobs, history
    <2>2. \A p \in streams : StaysFor(p)
        BY <1>5 DEF SavePage, jobs, history, StaysFor
    <2> QED
        BY <2>1, <2>2, KeptFinish
<1>6. ASSUME NEW j \in Job, Commit(j) PROVE KeptInv'
    <2>1. /\ streams' = streams /\ project' = project /\ given' = given
          /\ owner' = owner /\ met' = met
        BY <1>6 DEF Commit, history
    <2>2. CASE place' = place
        BY <2>1, <2>2 DEF KeptInv, KeptFor
    <2>3. CASE req[j].op = "upload" /\ place' = [place EXCEPT ![j] = mem[j].gid]
        <3>1. met[j] = {} => KeptFor(j, mem[j].gid)
            BY <1>6, <2>3 DEF Commit, UploadInv
        <3>2. j # Old /\ j \in Reading
            BY Distinct
        <3>3. \A x \in Reading : place'[x] = IF x = j THEN mem[j].gid ELSE place[x]
            BY <2>3 DEF TypeOK
        <3>4. \A x \in Reading, g \in Gid : KeptFor(x, g)' <=> KeptFor(x, g)
            BY <2>1 DEF KeptFor
        <3>5. ASSUME NEW x \in Reading, place'[x] # 0, ~(x # Old /\ met[x] # {})
              PROVE  KeptFor(x, place'[x])
            <4>1. CASE x = j
                BY <3>1, <3>2, <3>3, <3>5, <4>1
            <4>2. CASE x # j
                BY <3>3, <3>5, <4>2 DEF KeptInv
            <4> QED
                BY <4>1, <4>2
        <3> QED
            BY <2>1, <3>5 DEF KeptInv, KeptFor
    <2> QED
        BY <1>6, <2>2, <2>3 DEF Commit
<1>7. ASSUME NEW j \in Job, Insert(j) PROVE KeptInv'
    <2>1. place' = place /\ owner' = owner /\ met' = met /\ given' = given /\ streams' = streams
        BY <1>7 DEF Insert, history
    <2>2. req[j].project \in Project \ streams
        BY <1>7, RequestType DEF Insert, PhaseInv, CreateInv, Fresh, StreamsInv
    <2>3. \A p \in streams : StaysFor(p)
        BY <1>7, <2>1, <2>2 DEF Insert, Write, StaysFor, TypeOK
    <2> QED
        BY <2>1, <2>3, KeptFinish
<1>8. ASSUME NEW j \in Job, Give(j) PROVE KeptInv'
    <2>1. place' = place /\ owner' = owner /\ met' = met /\ streams' = streams
        BY <1>8 DEF Give
    <2>2. req[j].project \in Project
        BY <1>8, RequestType DEF Give, PhaseInv
    <2>3. req[j].project \in streams => project[req[j].project].gid = mem[j].gid
        BY <1>8 DEF Give, GiveInv, StreamsInv
    <2>4. \A p \in streams : StaysFor(p)
        BY <1>8, <2>1, <2>2, <2>3 DEF Give, Write, StaysFor, TypeOK
    <2> QED
        BY <2>1, <2>4, KeptFinish
<1>9. ASSUME NEW j \in Job, Destroy(j) PROVE KeptInv'
    <2>1. owner' = owner /\ met' = met /\ given' = given
        BY <1>9 DEF Destroy, history
    <2>2. CASE Exists(req[j].project)
        <3>1. req[j].project \in Project
            BY <2>2 DEF Exists, Request, TypeOK
        <3> QED
            BY <1>9, <2>1, <2>2, <3>1, RemoveKept DEF Destroy
    <2>3. CASE ~Exists(req[j].project)
        BY <1>9, <2>1, <2>3 DEF Destroy, KeptInv, KeptFor
    <2> QED
        BY <2>2, <2>3
<1>10. ASSUME NEW j \in Job, Start(j) PROVE KeptInv'
    <2>1. place' = place /\ owner' = owner /\ met' = met
        BY <1>10 DEF Start, jobs, history
    <2>2. \A p \in streams : StaysFor(p)
        BY <1>10 DEF Start, jobs, history, StaysFor
    <2> QED
        BY <2>1, <2>2, KeptFinish
<1>11. ASSUME NEW j \in Job, req[j].op \in {"unclaim", "reset"}, ClearStreams(j) PROVE KeptInv'
    <2>1. owner' = owner /\ met' = met /\ given' = given /\ project' = project
        BY <1>11 DEF ClearStreams, history
    <2>2. \A x \in Reading : place'[x] = IF place[x] \in Cleared(j) THEN 0 ELSE place[x]
        BY <1>11, ErasedType DEF ClearStreams
    <2>3. CASE req[j].op = "unclaim" /\ req[j].clean
        <3>1. \A p \in streams : project[p].gid # 0 => project[p].gid \in Cleared(j)
            BY <2>3 DEF Cleared, GidsOf
        <3> QED
            BY <2>1, <2>2, <3>1, KeptFinish
    <2>4. CASE ~(req[j].op = "unclaim" /\ req[j].clean)
        <3>1. streams' = streams
            BY <1>11, <2>4 DEF ClearStreams
        <3>2. \A p \in streams : StaysFor(p)
            BY <2>1, <3>1 DEF StaysFor
        <3> QED
            BY <2>1, <2>2, <3>2, KeptFinish
    <2> QED
        BY <2>3, <2>4
<1>12. ASSUME NEW j \in Job, req[j].op \in {"unclaim", "reset"}, DropReports(j) PROVE KeptInv'
    <2>1. place' = place /\ owner' = owner /\ met' = met
        BY <1>12 DEF DropReports, jobs, history
    <2>2. \A p \in streams : StaysFor(p)
        BY <1>12 DEF DropReports, jobs, history, StaysFor
    <2> QED
        BY <2>1, <2>2, KeptFinish
<1>13. ASSUME NEW j \in Job, req[j].op \in {"unclaim", "reset"}, Release(j) PROVE KeptInv'
    <2>1. place' = place /\ owner' = owner /\ met' = met
        BY <1>13 DEF Release, jobs, history
    <2>2. \A p \in streams : StaysFor(p)
        BY <1>13 DEF Release, jobs, history, StaysFor
    <2> QED
        BY <2>1, <2>2, KeptFinish
<1>14. ASSUME NEW j \in Job, req[j].op \in {"unclaim", "reset"}, EraseData(j) PROVE KeptInv'
    <2>1. owner' = owner /\ met' = met /\ given' = given /\ project' = project /\ streams' = streams
        BY <1>14 DEF EraseData, history
    <2>2. \A x \in Reading : place'[x] # 0 => place'[x] = place[x]
        BY <1>14, ErasedType DEF EraseData
    <2>3. \A p \in streams : StaysFor(p)
        BY <2>1 DEF StaysFor
    <2> QED
        BY <2>1, <2>2, <2>3, KeptFinish
<1>15. ASSUME NEW j \in Job, req[j].op = "delete", Find(j) PROVE KeptInv'
    <2>1. place' = place /\ owner' = owner /\ met' = met
        BY <1>15 DEF Find, jobs, history
    <2>2. \A p \in streams : StaysFor(p)
        BY <1>15 DEF Find, jobs, history, StaysFor
    <2> QED
        BY <2>1, <2>2, KeptFinish
<1>16. ASSUME NEW j \in Job, req[j].op = "delete", Strip(j) PROVE KeptInv'
    <2>1. owner' = owner /\ met' = met /\ given' = given /\ project' = project
          /\ streams' = streams \ {mem[j].target}
        BY <1>16 DEF Strip, history
    <2>2. ASSUME NEW x \in Reading, place'[x] # 0
          PROVE  /\ place'[x] = place[x]
                 /\ mem[j].target \in streams => place[x] # project[mem[j].target].gid
        BY <1>16, <2>2, ErasedType DEF Strip
    <2>3. \A p \in streams \ {mem[j].target} : StaysFor(p)
        BY <2>1 DEF StaysFor
    <2> QED
        BY <2>1, <2>2, <2>3, KeptFinish
<1>17. ASSUME NEW j \in Job, req[j].op = "delete", RemoveProject(j) PROVE KeptInv'
    <2>1. owner' = owner /\ met' = met /\ given' = given
        BY <1>17 DEF RemoveProject, history
    <2>2. mem[j].target \in Project /\ Remove(mem[j].target)
        BY <1>17 DEF RemoveProject, TargetInv
    <2> QED
        BY <2>1, <2>2, RemoveKept
<1>18. ASSUME NEW j \in Job, Ack(j) PROVE KeptInv'
    <2>1. place' = place /\ owner' = owner /\ met' = met
        BY <1>18 DEF Ack, jobs, history
    <2>2. \A p \in streams : StaysFor(p)
        BY <1>18 DEF Ack, jobs, history, StaysFor
    <2> QED
        BY <2>1, <2>2, KeptFinish
<1>19. ASSUME NEW j \in Job, Retry(j) PROVE KeptInv'
    <2>1. place' = place /\ owner' = owner /\ met' = met
        BY <1>19 DEF Retry, jobs, history
    <2>2. \A p \in streams : StaysFor(p)
        BY <1>19 DEF Retry, jobs, history, StaysFor
    <2> QED
        BY <2>1, <2>2, KeptFinish
<1>20. CASE UNCHANGED vars
    <2>1. place' = place /\ owner' = owner /\ met' = met
        BY <1>20 DEF vars, jobs, history
    <2>2. \A p \in streams : StaysFor(p)
        BY <1>20 DEF vars, jobs, history, StaysFor
    <2> QED
        BY <2>1, <2>2, KeptFinish
<1> QED
    BY <1>1, <1>2, <1>3, <1>4, <1>5, <1>6, <1>7, <1>8, <1>9, <1>10, <1>11, <1>12,
       <1>13, <1>14, <1>15, <1>16, <1>17, <1>18, <1>19, <1>20 DEF Next, Unclaim,
       Delete

\* A step of a job that works on the projects takes nothing of this back.
Quiet ==
    /\ streams' \subseteq streams /\ reports' \subseteq reports
    /\ dev.project = None /\ dev.org = None => dev'.project = None /\ dev'.org = None
    /\ \A x \in Reading : place[x] = 0 => place'[x] = 0
OnProject == {"create", "give", "delete"}

\* So has the step of another job that was open together with the unclaim; it
\* remains to see the steps of the unclaim itself.
LEMMA LeaveFrame ==
    ASSUME TypeOK, PhaseInv, MetInv, LeaveInv, NEW k \in Job, Acts(k),
           req[k].op \in OnProject => Quiet, Leaves(k)'
    PROVE  LeaveInv'
<1> SUFFICES ASSUME NEW j \in Job, j # k PROVE Leaves(j)'
    BY DEF LeaveInv
<1>1. pc'[j] = pc[j] /\ req' = req /\ met' = met /\ (Open(k) \/ k \in pages)
    BY DEF Acts
<1>2. CASE Open(j) /\ Alone(j)
    <2>1. k \in met[j]
        BY <1>1, <1>2 DEF MetInv
    <2>2. Quiet
        BY <1>2, <2>1 DEF Alone, OnProject
    <2>3. Leaves(j)
        BY DEF LeaveInv
    <2> QED
        BY <1>1, <1>2, <2>2, <2>3 DEF Leaves, Quiet, TypeOK
<1>3. CASE ~(Open(j) /\ Alone(j))
    BY <1>1, <1>3 DEF Open, Alone, Leaves
<1> QED
    BY <1>2, <1>3

\* An unclaim that nobody interferes with leaves nothing.
LEMMA LeaveStep == TypeOK /\ TargetInv /\ PhaseInv /\ MetInv /\ LeaveInv
        /\ [Next]_vars => LeaveInv'
<1> SUFFICES ASSUME TypeOK /\ TargetInv /\ PhaseInv /\ MetInv /\ LeaveInv,
        [Next]_vars PROVE LeaveInv'
    OBVIOUS
<1>1. ASSUME NEW j \in Job, NEW r \in Asked, Ask(j, r) PROVE LeaveInv'
    <2>1. /\ streams' = streams /\ reports' = reports /\ dev' = dev /\ place' = place
          /\ pc[j] = "idle" /\ pc'[j] \in {"queued", "asked", "over"}
          /\ \A k \in Job \ {j} : pc'[k] = pc[k] /\ req'[k] = req[k]
        BY <1>1, AskType
    <2>2. \A k \in Job \ {j} : met[k] \subseteq met'[k]
        BY <1>1 DEF Ask
    <2> SUFFICES ASSUME NEW k \in Job, k # j PROVE Leaves(k)'
        BY <2>1 DEF LeaveInv, Leaves
    <2>3. Alone(k)' => Alone(k)
        <3>1. \A i \in met[k] : i \in Job \ {j}
            BY <2>1 DEF MetInv, TypeOK
        <3> QED
            BY <2>1, <2>2, <3>1 DEF Alone
    <2> QED
        BY <2>1, <2>3 DEF LeaveInv, Leaves
<1>2. ASSUME NEW j \in Job, Save(j) PROVE LeaveInv'
    <2>1. Acts(j)
        BY <1>2, StepActs DEF Works
    <2>2. req[j].op \in OnProject => Quiet
        BY <1>2 DEF Save, Saving, OnProject
    <2>3. Leaves(j)'
        <3>1. pc'[j] \in {"over", "claimed", "queued", "asked"}
            BY <1>2, EndType DEF Save, Goto, TypeOK
        <3> QED
            BY <3>1 DEF Leaves
    <2> QED
        BY <2>1, <2>2, <2>3, LeaveFrame
<1>3. ASSUME NEW j \in Job, CreateStreams(j) PROVE LeaveInv'
    <2>1. Acts(j)
        BY <1>3, StepActs DEF Works
    <2>2. req[j].op \in OnProject => Quiet
        BY <1>3 DEF CreateStreams, PhaseInv, OnProject
    <2>3. Leaves(j)'
        BY <1>3, EndType DEF CreateStreams, Leaves, TypeOK
    <2> QED
        BY <2>1, <2>2, <2>3, LeaveFrame
<1>4. ASSUME NEW j \in Job, Fail(j) PROVE LeaveInv'
    <2>1. Acts(j)
        BY <1>4, StepActs DEF Works
    <2>2. req[j].op \in OnProject => Quiet
        BY <1>4 DEF Fail, PhaseInv, Saving, OnProject
    <2>3. Leaves(j)'
        BY <1>4 DEF Fail, Goto, Leaves, TypeOK
    <2> QED
        BY <2>1, <2>2, <2>3, LeaveFrame
<1>5. ASSUME NEW j \in Job, SavePage(j) PROVE LeaveInv'
    <2>1. Acts(j)
        BY <1>5, StepActs DEF Works
    <2>2. req[j].op \in OnProject => Quiet
        BY <1>5, RequestType DEF SavePage, PhaseInv, OnProject
    <2>3. Leaves(j)'
        BY <1>5 DEF SavePage, PhaseInv, history, Leaves, Alone
    <2> QED
        BY <2>1, <2>2, <2>3, LeaveFrame
<1>6. ASSUME NEW j \in Job, Commit(j) PROVE LeaveInv'
    <2>1. Acts(j)
        BY <1>6, StepActs DEF Works
    <2>2. req[j].op \in OnProject => Quiet
        BY <1>6 DEF Commit, OnProject
    <2>3. Leaves(j)'
        BY <1>6, EndType DEF Commit, Leaves, TypeOK
    <2> QED
        BY <2>1, <2>2, <2>3, LeaveFrame
<1>7. ASSUME NEW j \in Job, Insert(j) PROVE LeaveInv'
    <2>1. Acts(j)
        BY <1>7, StepActs DEF Works
    <2>2. req[j].op \in OnProject => Quiet
        BY <1>7 DEF Insert, Quiet
    <2>3. Leaves(j)'
        BY <1>7, EndType DEF Insert, Leaves, TypeOK
    <2> QED
        BY <2>1, <2>2, <2>3, LeaveFrame
<1>8. ASSUME NEW j \in Job, Give(j) PROVE LeaveInv'
    <2>1. Acts(j)
        BY <1>8, StepActs DEF Works
    <2>2. req[j].op \in OnProject => Quiet
        BY <1>8 DEF Give, Quiet
    <2>3. Leaves(j)'
        BY <1>8, EndType DEF Give, Leaves, TypeOK
    <2> QED
        BY <2>1, <2>2, <2>3, LeaveFrame
<1>9. ASSUME NEW j \in Job, Destroy(j) PROVE LeaveInv'
    <2>1. Acts(j)
        BY <1>9, StepActs DEF Works
    <2>2. req[j].op \in OnProject => Quiet
        <3>1. CASE Exists(req[j].project)
            <4>1. req[j].project \in Project
                BY <3>1 DEF Exists, Request, TypeOK
            <4> QED
                BY <1>9, <3>1, <4>1, RemoveType DEF Destroy, Quiet, Row, TypeOK
        <3>2. CASE ~Exists(req[j].project)
            BY <1>9, <3>2 DEF Destroy, Quiet
        <3> QED
            BY <3>1, <3>2
    <2>3. Leaves(j)'
        BY <1>9, EndType DEF Destroy, Leaves, TypeOK
    <2> QED
        BY <2>1, <2>2, <2>3, LeaveFrame
<1>10. ASSUME NEW j \in Job, Start(j) PROVE LeaveInv'
    <2>1. Acts(j)
        BY <1>10, StepActs DEF Works
    <2>2. req[j].op \in OnProject => Quiet
        BY <1>10 DEF Start, OnProject
    <2>3. Leaves(j)'
        <3>1. pc'[j] \in {"over", "started"}
            BY <1>10, EndType DEF Start, Goto, TypeOK
        <3> QED
            BY <3>1 DEF Leaves
    <2> QED
        BY <2>1, <2>2, <2>3, LeaveFrame
<1>11. ASSUME NEW j \in Job, req[j].op \in {"unclaim", "reset"}, ClearStreams(j) PROVE LeaveInv'
    <2>1. Acts(j)
        BY <1>11, StepActs DEF Works, Unclaim
    <2>2. req[j].op \in OnProject => Quiet
        BY <1>11 DEF OnProject
    <2>3. Leaves(j)'
        BY <1>11 DEF ClearStreams, Goto, jobs, Leaves, Alone, TypeOK
    <2> QED
        BY <2>1, <2>2, <2>3, LeaveFrame
<1>12. ASSUME NEW j \in Job, req[j].op \in {"unclaim", "reset"}, DropReports(j) PROVE LeaveInv'
    <2>1. Acts(j)
        BY <1>12, StepActs DEF Works, Unclaim
    <2>2. req[j].op \in OnProject => Quiet
        BY <1>12 DEF OnProject
    <2>3. Leaves(j)'
        BY <1>12 DEF DropReports, Goto, jobs, history, LeaveInv, Leaves, Alone, TypeOK
    <2> QED
        BY <2>1, <2>2, <2>3, LeaveFrame
<1>13. ASSUME NEW j \in Job, req[j].op \in {"unclaim", "reset"}, Release(j) PROVE LeaveInv'
    <2>1. Acts(j)
        BY <1>13, StepActs DEF Works, Unclaim
    <2>2. req[j].op \in OnProject => Quiet
        BY <1>13 DEF OnProject
    <2>3. Leaves(j)'
        <3>1. req[j].op = "unclaim" => Final(j).project = None /\ Final(j).org = None
            BY DEF Final, TypeOK, Memory, Row
        <3> QED
            BY <1>13, <3>1 DEF Release, Goto, jobs, history, LeaveInv, Leaves, Alone, TypeOK
    <2> QED
        BY <2>1, <2>2, <2>3, LeaveFrame
<1>14. ASSUME NEW j \in Job, req[j].op \in {"unclaim", "reset"}, EraseData(j) PROVE LeaveInv'
    <2>1. Acts(j)
        BY <1>14, StepActs DEF Works, Unclaim
    <2>2. req[j].op \in OnProject => Quiet
        BY <1>14 DEF OnProject
    <2>3. Leaves(j)'
        <3>1. req[j].op = "unclaim" /\ req[j].clean => \A x \in Reading : place'[x] = 0
            BY <1>14, ErasedType DEF EraseData, TypeOK
        <3> QED
            BY <1>14, <3>1 DEF EraseData, Goto, jobs, history, LeaveInv, Leaves, Alone, TypeOK
    <2> QED
        BY <2>1, <2>2, <2>3, LeaveFrame
<1>15. ASSUME NEW j \in Job, req[j].op = "delete", Find(j) PROVE LeaveInv'
    <2>1. Acts(j)
        BY <1>15, StepActs DEF Works, Delete
    <2>2. req[j].op \in OnProject => Quiet
        BY <1>15 DEF Find, Quiet
    <2>3. Leaves(j)'
        <3>1. pc'[j] \in {"over", "started", "removed"}
            BY <1>15, EndType DEF Find, Goto, TypeOK
        <3> QED
            BY <3>1 DEF Leaves
    <2> QED
        BY <2>1, <2>2, <2>3, LeaveFrame
<1>16. ASSUME NEW j \in Job, req[j].op = "delete", Strip(j) PROVE LeaveInv'
    <2>1. Acts(j)
        BY <1>16, StepActs DEF Works, Delete
    <2>2. req[j].op \in OnProject => Quiet
        BY <1>16, ErasedType DEF Strip, Quiet
    <2>3. Leaves(j)'
        BY <1>16 DEF Strip, Goto, Leaves, TypeOK
    <2> QED
        BY <2>1, <2>2, <2>3, LeaveFrame
<1>17. ASSUME NEW j \in Job, req[j].op = "delete", RemoveProject(j) PROVE LeaveInv'
    <2>1. Acts(j)
        BY <1>17, StepActs DEF Works, Delete
    <2>2. req[j].op \in OnProject => Quiet
        <3>1. mem[j].target \in Project /\ Remove(mem[j].target)
            BY <1>17 DEF RemoveProject, TargetInv
        <3> QED
            BY <1>17, <3>1, RemoveType DEF RemoveProject, Quiet, Row, TypeOK
    <2>3. Leaves(j)'
        BY <1>17 DEF RemoveProject, Goto, Leaves, TypeOK
    <2> QED
        BY <2>1, <2>2, <2>3, LeaveFrame
<1>18. ASSUME NEW j \in Job, Ack(j) PROVE LeaveInv'
    <2>1. Acts(j)
        BY <1>18, StepActs DEF Works
    <2>2. req[j].op \in OnProject => Quiet
        BY <1>18 DEF Ack, Quiet
    <2>3. Leaves(j)'
        BY <1>18, EndType DEF Ack, Leaves, TypeOK
    <2> QED
        BY <2>1, <2>2, <2>3, LeaveFrame
<1>19. ASSUME NEW j \in Job, Retry(j) PROVE LeaveInv'
    <2>1. Acts(j)
        BY <1>19, StepActs DEF Works
    <2>2. req[j].op \in OnProject => Quiet
        BY <1>19 DEF Retry, Quiet
    <2>3. Leaves(j)'
        BY <1>19 DEF Retry, Goto, Leaves, TypeOK
    <2> QED
        BY <2>1, <2>2, <2>3, LeaveFrame
<1>20. CASE UNCHANGED vars
    BY <1>20 DEF vars, jobs, history, LeaveInv, Leaves, Alone
<1> QED
    BY <1>1, <1>2, <1>3, <1>4, <1>5, <1>6, <1>7, <1>8, <1>9, <1>10, <1>11, <1>12,
       <1>13, <1>14, <1>15, <1>16, <1>17, <1>18, <1>19, <1>20 DEF Next, Unclaim,
       Delete

LEMMA InitType == Init => TypeOK
<1> SUFFICES ASSUME Init PROVE TypeOK
    OBVIOUS
<1>1. PICK p \in Home \cup {None} :
         /\ streams = {p} \ {None}
         /\ place = [x \in Reading |-> IF x = Old /\ p # None
                                       THEN Table[p].gid ELSE 0]
         /\ owner = [x \in Reading |-> IF x = Old /\ p # None
                                       THEN Table[p].org ELSE None]
         /\ dev \in {NoRow} \cup
              {[NoRow EXCEPT !.project = q, !.org = Table[q].org] : q \in streams}
    BY DEF Init
<1>2. project \in [Project -> [gid : Gid, org : Org \cup {None}]]
    BY OwnershipAssumption DEF Init, Gid
<1>3. /\ p # None => p \in Project /\ Table[p].gid \in Gid /\ Table[p].org \in Org \cup {None}
      /\ streams \subseteq Project
    BY <1>1, OwnershipAssumption DEF Gid
<1>4. \A q \in streams : Table[q].org \in Org \cup {None}
    BY <1>1, <1>3
<1>5. NoRow \in Row /\ dev \in Row
    <2>1. NoRow \in Row
        BY DEF NoRow, Row
    <2>2. ASSUME NEW q \in streams, dev = [NoRow EXCEPT !.project = q, !.org = Table[q].org]
          PROVE  dev \in Row
        <3>1. dev = [project |-> q, org |-> Table[q].org, busy |-> FALSE]
            BY <2>2 DEF NoRow
        <3> QED
            BY <1>3, <1>4, <3>1 DEF Row
    <2> QED
        BY <1>1, <2>1, <2>2
<1>6. place \in [Reading -> Gid] /\ owner \in [Reading -> Org \cup {None}]
    BY <1>1, <1>3, GidType
<1>7. req \in [Job -> Request]
    BY DEF Init, Request, Op
<1>8. mem \in [Job -> Memory]
    BY BlankType DEF Init
<1>9. /\ reports = {} /\ pc = [j \in Job |-> "idle"] /\ pages = {} /\ again = {}
      /\ met = [j \in Job |-> {}] /\ given = {} /\ faults = 0
    BY DEF Init
<1>10. 0 \in 0..MaxFault
    BY Distinct
<1> QED
    BY <1>2, <1>3, <1>5, <1>6, <1>7, <1>8, <1>9, <1>10 DEF TypeOK

LEMMA InitIInv == Init => IInv
<1> SUFFICES ASSUME Init PROVE IInv
    OBVIOUS
<1>1. TypeOK
    BY InitType
<1>2. PICK p \in Home \cup {None} :
         /\ streams = {p} \ {None}
         /\ place = [x \in Reading |-> IF x = Old /\ p # None
                                       THEN Table[p].gid ELSE 0]
         /\ owner = [x \in Reading |-> IF x = Old /\ p # None
                                       THEN Table[p].org ELSE None]
         /\ dev \in {NoRow} \cup
              {[NoRow EXCEPT !.project = q, !.org = Table[q].org] : q \in streams}
    BY DEF Init
<1>3. /\ \A j \in Job : pc[j] = "idle" /\ mem[j] = Blank
      /\ project = Table /\ pages = {} /\ met = [j \in Job |-> {}]
    BY DEF Init
<1>4. \A q \in streams : /\ q \in Project /\ q # None /\ project[q].gid # 0
                         /\ project[q].org = Table[q].org /\ project[q].org # None
    <2> SUFFICES ASSUME NEW q \in streams
                 PROVE  /\ q \in Project /\ q # None /\ project[q].gid # 0
                        /\ project[q].org = Table[q].org /\ project[q].org # None
        OBVIOUS
    <2>1. q = p /\ q \in Home
        BY <1>2
    <2>2. q \in Project /\ Table[q].gid # 0 /\ Table[q].org \in Org
        BY <2>1, OwnershipAssumption
    <2> QED
        BY <1>3, <2>2, Distinct
<1>5. OrgInv /\ StreamsInv
    BY <1>3, <1>4, OwnershipAssumption DEF OrgInv, StreamsInv
<1>6. PhaseInv
    BY <1>2, <1>3, Distinct DEF PhaseInv
<1>7. TargetInv /\ CreateInv /\ GiveInv /\ UploadInv /\ MetInv
    BY <1>3 DEF TargetInv, CreateInv, GiveInv, UploadInv, MetInv, Open
<1>8. ASSUME dev = NoRow PROVE ClaimInv /\ RowsInv
    <2>1. RowOK(NoRow)
        BY DEF RowOK, NoRow
    <2>3. \A j \in Job : mem[j].save = NoRow /\ mem[j].held = NoRow
        <3>1. Blank.save = NoRow /\ Blank.held = NoRow
            BY DEF Blank
        <3>2. \A j \in Job : mem[j] = Blank
            BY <1>3
        <3> QED
            BY <3>1, <3>2
    <2>2. ClaimInv
        BY <1>8 DEF ClaimInv, NoRow
    <2> QED
        BY <1>8, <2>1, <2>2, <2>3 DEF RowsInv
<1>9. ASSUME NEW q \in streams, dev = [NoRow EXCEPT !.project = q, !.org = Table[q].org]
      PROVE  ClaimInv /\ RowsInv
    <2>1. dev.project = q /\ dev.org = Table[q].org
        BY <1>9 DEF NoRow
    <2> QED
        BY <1>3, <1>4, <2>1 DEF ClaimInv, Exists, RowsInv, RowOK, NoRow, Blank
<1>10. KeptInv
    <2> SUFFICES ASSUME NEW x \in Reading, place[x] # 0 PROVE KeptFor(x, place[x])
        BY DEF KeptInv
    <2>1. x = Old /\ p # None /\ p \in streams
        BY <1>2
    <2>2. place[x] = Table[p].gid /\ owner[x] = Table[p].org
        BY <1>2, <2>1
    <2> QED
        BY <1>3, <2>1, <2>2 DEF KeptFor
<1>11. LeaveInv
    BY <1>3 DEF LeaveInv, Leaves
<1> QED
    BY <1>1, <1>2, <1>5, <1>6, <1>7, <1>8, <1>9, <1>10, <1>11 DEF IInv

LEMMA StepIInv == IInv /\ [Next]_vars => IInv'
<1> SUFFICES ASSUME IInv, [Next]_vars PROVE IInv'
    OBVIOUS
<1>1. TypeOK'
    BY RowsTypes, JobsTypes, HistoryTypes DEF IInv, TypeOK, RowsOK, JobsOK, HistoryOK
<1>2. PhaseInv' /\ TargetInv' /\ OrgInv' /\ CreateInv' /\ GiveInv' /\ StreamsInv' /\ ClaimInv'
    BY PhaseStep, TargetStep, OrgStep, CreateStep, GiveStep, StreamsStep, ClaimStep DEF IInv
<1>3. RowsInv'
    BY RowsKeptStep, RowsStep DEF IInv
<1>4. MetInv' /\ UploadInv' /\ KeptInv' /\ LeaveInv'
    BY MetStep, UploadStep, KeptStep, LeaveStep DEF IInv
<1> QED
    BY <1>1, <1>2, <1>3, <1>4 DEF IInv

\* The inductive invariant holds in every reachable state.
THEOREM Inductive == Spec => []IInv
<1> QED
    BY InitIInv, StepIInv, PTL DEF Spec

\* The rows, the streams, the readings and the jobs are what they are declared to
\* be.
THEOREM TypeCorrect == Spec => []TypeOK
<1>1. IInv => TypeOK
    BY DEF IInv
<1> QED
    BY <1>1, Inductive, PTL

\* The Device row and the projects agree, whatever is saved late: nobody saves
\* half a claim.
THEOREM AlwaysAgree == Spec => []RowsAgree
<1>1. IInv => RowsAgree
    BY DEF IInv, ClaimInv, RowsInv, RowOK, RowsAgree
<1> QED
    BY <1>1, Inductive, PTL

\* No reading is listed in a project of another organization than the one it was
\* read for, although gids are used again, but for the cases of the property.
THEOREM NothingForeign == Spec => []NoForeignReadings
<1>1. ASSUME IInv PROVE NoForeignReadings
    <2> SUFFICES ASSUME NEW x \in Reading, NEW p \in streams, place[x] # 0,
                        project[p].gid = place[x], p \in Project,
                        ~(x # Old /\ met[x] # {}), Named(place[x]) = {p}
                 PROVE  project[p].org = owner[x] \/ p \in given
        BY <1>1 DEF IInv, TypeOK, NoForeignReadings, Listed
    <2>1. PICK q \in streams : /\ project[q].gid = place[x]
                               /\ q \in given \/ project[q].org = owner[x]
        BY <1>1 DEF IInv, KeptInv, KeptFor
    <2>2. q \in Named(place[x])
        BY <1>1, <2>1 DEF IInv, TypeOK, Named
    <2> QED
        BY <2>1, <2>2
<1> QED
    BY <1>1, Inductive, PTL

\* An unclaim that is done has left no claim, no StreamId, no reading and no
\* report, however often its task was repeated.
THEOREM LeavesNothing == Spec => UnclaimLeavesNothing
<1>1. IInv /\ [Next]_vars =>
         [\A j \in Job :
            /\ Ack(j) /\ req[j].op = "unclaim" /\ req[j].clean /\ ~req[j].staff
            /\ \A k \in met[j] : req[k].op \in {"create", "give", "delete"}
            => /\ dev.project = None /\ dev.org = None
               /\ streams = {} /\ reports = {}
               /\ \A x \in Reading : place[x] = 0]_vars
    <2> SUFFICES ASSUME IInv, NEW j \in Job, Ack(j), Alone(j)
                 PROVE  /\ dev.project = None /\ dev.org = None
                        /\ streams = {} /\ reports = {}
                        /\ \A x \in Reading : place[x] = 0
        BY DEF Alone
    <2>1. pc[j] = "erased"
        BY DEF Ack, Alone, IInv, PhaseInv
    <2>2. Leaves(j)
        BY DEF IInv, LeaveInv
    <2> QED
        BY <2>1, <2>2 DEF Leaves
<1> QED
    BY <1>1, Inductive, PTL DEF Spec, UnclaimLeavesNothing
=============================================================================

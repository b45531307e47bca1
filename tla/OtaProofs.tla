------------------------------ MODULE OtaProofs ------------------------------
(***************************************************************************)
(* Proofs about Ota: the Device row follows the versions that the device   *)
(* reports, no reading settles two actions, and the selection rules        *)
(* compare versions as versions.                                           *)
(*                                                                         *)
(* The invariant: who holds the Device row holds what is in the database,  *)
(* but for the columns that the history says others have saved since       *)
(* (FreshInv); the versions recorded are those that the reports carry      *)
(* (ToldInv), so that their key keeps two attempts from handling one       *)
(* reading (OnceInv); and the last version of a part is in the row, unless *)
(* somebody is about to put it there or was cut off, and then everybody    *)
(* who is about to put an older one there holds a row that is behind       *)
(* (FollowInv).                                                            *)
(***************************************************************************)
EXTENDS Ota, TLAPS

\* The columns of a copy that nobody has saved since it was read are current.
FreshInv ==
    /\ \A w \in Worker : worker[w].at # "idle" =>
         \A c \in Column \ behind[w] : worker[w].copy[c] = device[c]
    /\ \A f \in Form : form[f].at = "device" =>
         \A c \in Column \ behind[f] : form[f].row[c] = device[c]

\* Edits of the rest of the row are kept, but for the ones known to be lost.
RestInv == patched => device.rest \/ "rest" \in lost

\* A version row is what its reading says.
Datum1(x) == content[x[1]][x[2]]
ToldInv == \A v \in versions : /\ v.type = Datum1(v.id).type
                               /\ v.what = Decode(Datum1(v.id).value)

\* A worker that has recorded a version and has yet to settle its reading is the
\* only one, and the reading settles nothing twice.
Past == {"update", "pick", "confirm", "assume", "create"}
Recorded(x) == \E v \in versions : v.id = x
OnceInv ==
    /\ \A w \in Worker : worker[w].at \in Past =>
         Recorded(Id(w)) /\ settled[Id(w)] = 0
    /\ \A w, u \in Worker :
         worker[w].at \in Past /\ worker[u].at \in Past /\ Id(w) = Id(u) => w = u
    /\ \A x \in Ids : settled[x] <= 1 /\ (settled[x] > 0 => Recorded(x))

\* The last version of a part is about to be saved, was cut off, or is saved; then
\* a worker with another version of that part is behind.
Pending(x) == \E w \in Worker : worker[w].at = "update" /\ Id(w) = x
Saved(t, v) ==
    /\ t \in lost \/ device[t] = Serves(t, v.what)
    /\ \A w \in Worker : worker[w].at = "update" /\ Reading(w).type = t => t \in behind[w]
FollowInv ==
    \A t \in Part \ late : \A v \in Newest(t) : Pending(v.id) \/ v.id \in cut \/ Saved(t, v)

IInv == TypeOK /\ FreshInv /\ RestInv /\ ToldInv /\ OnceInv /\ FollowInv

-----------------------------------------------------------------------------
(* The steps. *)

LEMMA DecodeType == ASSUME NEW n \in Nat PROVE Decode(n) \in Version
<1>1. Tags \in Nat \ {0} /\ Tags * 64 \in Nat \ {0}
    BY SMT DEF Tags
<1>2. \A m, k \in Nat : k > 0 => m % k \in 0..(k - 1) /\ m \div k \in Nat
    BY SMT
<1>3. n % Tags \in 0..(Tags - 1) /\ n \div Tags \in Nat /\ n \div (Tags * 64) \in Nat
    BY <1>1, <1>2
<1>4. \A m \in Nat : m % 64 \in 0..63
    BY SMT
<1> QED
    BY <1>3, <1>4 DEF Decode, Version

LEMMA Bounds == MaxAsk \in Nat /\ MaxFault \in Nat
BY OtaAssumption

LEMMA ServesType ==
    ASSUME NEW t \in Part, NEW v PROVE Serves(t, v) \in Version \cup {None}
<1> DEFINE same == {c \in Catalogue[t] : c.tag = v.tag}
<1>1. same \subseteq Version
    BY OtaAssumption
<1>2. CASE v \in same
    BY <1>1, <1>2 DEF Serves
<1>3. CASE v \notin same /\ same = {}
    BY <1>3 DEF Serves
<1>4. CASE v \notin same /\ same # {}
    <2>1. PICK b : b \in same
        BY <1>4
    <2>2. (CHOOSE c \in same : TRUE) \in same
        BY <2>1
    <2> QED
        BY <1>1, <1>4, <2>2 DEF Serves
<1> QED
    BY <1>2, <1>3, <1>4

\* The type invariant in three parts; what holds of the job of a worker, and of
\* the sheet of a form.
JobOK(j) ==
    /\ j.at = "idle" <=> j.report = NoRow
    /\ j.at \notin {"idle", "read"} => j.next <= Len(content[j.report])
    /\ j.at = "confirm" => j.on \in Action /\ j.held \in ActionRow
    /\ j.at = "create" => j.on \in Request
Workers == worker \in [Worker -> Job] /\ \A w \in Worker : JobOK(worker[w])

SheetOK(x) ==
    /\ x.at \in RequestForm => x.on \in Request /\ x.row \in RequestRow
    /\ x.at = "attempt" => x.on \in Action /\ x.row \in ActionRow
    /\ x.at = "device" => x.row \in DeviceRow
Forms == form \in [Form -> Sheet] /\ \A f \in Form : SheetOK(form[f])

Tables ==
    /\ content \in Uploads
    /\ queue \subseteq Report
    /\ status \in [Report -> {"sent", "stored", "dropped"}]
    /\ versions \subseteq [type : Part, what : Version, id : Ids, at : Nat]
    /\ device \in DeviceRow
    /\ request \in [Request -> RequestRow \cup {NoRow, Deleted}]
    /\ action \in [Action -> ActionRow \cup {NoRow, Deleted}]
Histories ==
    /\ asks \in 0..MaxAsk /\ faults \in 0..MaxFault
    /\ behind \in [Holder -> SUBSET Column]
    /\ lost \subseteq Column /\ cut \subseteq Ids /\ late \subseteq Part
    /\ patched \in BOOLEAN
    /\ settled \in [Ids -> Nat]

LEMMA TypeParts == TypeOK <=> Tables /\ Histories /\ Workers /\ Forms
BY DEF TypeOK, Tables, Histories, Workers, Forms, JobOK, SheetOK, Left

LEMMA TypePartsNext == TypeOK' <=> Tables' /\ Histories' /\ Workers' /\ Forms'
BY DEF TypeOK, Tables, Histories, Workers, Forms, JobOK, SheetOK, Left

LEMMA IdsMember ==
    ASSUME NEW r \in Report, NEW u \in Uploads, NEW i \in DOMAIN u[r]
    PROVE  <<r, i>> \in Ids
BY DEF Ids

\* The reading that a worker has reached.
LEMMA ReadingType ==
    ASSUME Tables, Workers, NEW w \in Worker, worker[w].at # "idle", Left(w)
    PROVE  Reading(w) \in Datum /\ Told(w) \in Version /\ Id(w) \in Ids
<1>1. worker[w].report \in Report /\ worker[w].next \in Nat \ {0}
    BY DEF Workers, JobOK, Job
<1>2. content[worker[w].report] \in Seq(Datum)
    BY <1>1, OtaAssumption DEF Tables
<1>3. worker[w].next \in DOMAIN content[worker[w].report]
    BY <1>1, <1>2 DEF Left
<1>4. Reading(w) \in Datum
    BY <1>2, <1>3 DEF Reading
<1>5. Told(w) \in Version
    BY <1>4, DecodeType DEF Told, Datum
<1>6. Id(w) \in Ids
    BY <1>1, <1>3, IdsMember DEF Id, Tables
<1> QED
    BY <1>4, <1>5, <1>6

LEMMA Busy ==
    ASSUME Tables, Workers, NEW w \in Worker, worker[w].at \notin {"idle", "read"}
    PROVE  /\ Left(w) /\ Reading(w) \in Datum
           /\ Told(w) \in Version /\ Id(w) \in Ids
<1>1. Left(w)
    BY DEF Workers, JobOK, Left
<1> QED
    BY <1>1, ReadingType

LEMMA IdleType == Idle \in Job /\ Idle.at = "idle" /\ Idle.report = NoRow
BY DEF Idle, Job, Factory, DeviceRow

LEMMA ClosedType == Closed \in Sheet /\ Closed.at = "closed"
BY DEF Closed, Sheet

LEMMA InitType == Init => TypeOK
<1> SUFFICES ASSUME Init PROVE TypeOK
    OBVIOUS
<1>1. Tables
    BY OtaAssumption DEF Init, Tables, Factory, DeviceRow
<1>2. Histories
    <2>1. settled \in [Ids -> Nat] /\ behind \in [Holder -> SUBSET Column]
        BY DEF Init
    <2>2. asks \in 0..MaxAsk /\ faults \in 0..MaxFault
        BY Bounds DEF Init
    <2>3. lost \subseteq Column /\ cut \subseteq Ids /\ late \subseteq Part /\ patched \in BOOLEAN
        BY DEF Init
    <2> QED
        BY <2>1, <2>2, <2>3 DEF Histories
<1>3. Workers
    BY IdleType DEF Init, Workers, JobOK
<1>4. Forms
    BY ClosedType DEF Init, Forms, SheetOK, RequestForm
<1> QED
    BY <1>1, <1>2, <1>3, <1>4, TypeParts

\* What keeps the workers' part: nothing changes it, or one job does.
LEMMA WorkersKept ==
    ASSUME Workers, UNCHANGED <<worker, content>>
    PROVE  Workers'
BY DEF Workers, JobOK

LEMMA WorkersMove ==
    ASSUME Workers, NEW w \in Worker, NEW j \in Job, JobOK(j), Become(w, j),
           content' = content
    PROVE  Workers'
BY DEF Workers, JobOK, Become

LEMMA SkipMove ==
    ASSUME Workers, NEW w \in Worker, worker[w].at # "idle", Skip(w), content' = content
    PROVE  Workers'
<1> DEFINE j == [worker[w] EXCEPT !.at = "read", !.next = @ + 1, !.on = NoRow, !.held = NoRow]
<1>0. worker[w] \in Job /\ worker[w].next + 1 \in Nat \ {0}
    BY DEF Workers, Job
<1>1. j \in Job /\ j.at = "read" /\ j.report = worker[w].report
    BY <1>0 DEF Job
<1>2. JobOK(j)
    BY <1>1 DEF Workers, JobOK
<1> HIDE DEF j
<1>3. Become(w, j)
    BY DEF Skip, j
<1> QED
    BY <1>1, <1>2, <1>3, WorkersMove

LEMMA GotoMove ==
    ASSUME Workers, NEW w \in Worker, Left(w), worker[w].at # "idle",
           NEW l \in {"insert", "update", "assume"}, Goto(w, l), content' = content
    PROVE  Workers'
<1> DEFINE j == [worker[w] EXCEPT !.at = l]
<1>1. /\ j \in Job /\ j.at = l
      /\ j.report = worker[w].report /\ j.next = worker[w].next
    BY DEF Workers, Job
<1>2. JobOK(j)
    BY <1>1 DEF Workers, JobOK, Left
<1> HIDE DEF j
<1>3. Become(w, j)
    BY DEF Goto, j
<1> QED
    BY <1>1, <1>2, <1>3, WorkersMove

LEMMA IdleMove ==
    ASSUME Workers, NEW w \in Worker, Become(w, Idle), content' = content
    PROVE  Workers'
<1>1. JobOK(Idle)
    BY IdleType DEF JobOK
<1> QED
    BY <1>1, IdleType, WorkersMove

\* The jobs of the workers keep their types.
LEMMA WorkersStep == TypeOK /\ [Next]_vars => Workers'
<1> SUFFICES ASSUME TypeOK, [Next]_vars PROVE Workers'
    OBVIOUS
<1>0. Tables /\ Histories /\ Workers /\ Forms
    BY TypeParts
<1>1. ASSUME NEW w \in Worker, NEW r \in Report, Begin(w, r) PROVE Workers'
    <2> DEFINE j == [Idle EXCEPT !.at = "read", !.report = r, !.copy = device]
    <2>1. j \in Job /\ j.at = "read" /\ j.report = r
        BY <1>1, <1>0, IdleType DEF Job, Tables
    <2>2. JobOK(j)
        BY <1>1, <1>0, <2>1, OtaAssumption DEF JobOK
    <2> HIDE DEF j
    <2>3. Become(w, j) /\ content' = content
        BY <1>1 DEF Begin, j
    <2> QED
        BY <1>0, <2>1, <2>2, <2>3, WorkersMove
<1>2. ASSUME NEW w \in Worker, Look(w) PROVE Workers'
    <2>1. \/ Skip(w)
          \/ \E l \in {"insert", "update", "assume"} : Goto(w, l)
        BY <1>2 DEF Look
    <2> QED
        BY <1>2, <1>0, <2>1, SkipMove, GotoMove DEF Look
<1>3. ASSUME NEW w \in Worker, Insert(w) PROVE Workers'
    <2>1. \/ Skip(w)
          \/ \E l \in {"insert", "update", "assume"} : Goto(w, l)
        BY <1>3 DEF Insert
    <2> QED
        BY <1>3, <1>0, <2>1, SkipMove, GotoMove, Busy DEF Insert
<1>4. ASSUME NEW w \in Worker, Update(w) PROVE Workers'
    <2> DEFINE t == Reading(w).type
               c == Serves(t, Told(w))
               row == With(worker[w].copy, t, c)
               j == [worker[w] EXCEPT !.at = "pick", !.copy = row]
    <2>1. t \in Part /\ c \in Version \cup {None} /\ Left(w)
        BY <1>4, <1>0, Busy, ServesType DEF Update, Datum
    <2>2. row \in DeviceRow
        BY <1>0, <2>1, ZenonT(40) DEF Workers, Job, DeviceRow, With, Part
    <2> HIDE DEF t, c, row
    <2>3. /\ j \in Job /\ j.at = "pick"
          /\ j.report = worker[w].report /\ j.next = worker[w].next
        BY <1>0, <2>2 DEF Workers, Job
    <2>4. JobOK(j)
        BY <1>4, <1>0, <2>1, <2>3 DEF Workers, JobOK, Left, Update
    <2> HIDE DEF j
    <2>5. Become(w, j) /\ content' = content
        BY <1>4 DEF Update, j, row, c, t
    <2> QED
        BY <1>0, <2>3, <2>4, <2>5, WorkersMove
<1>5. ASSUME NEW w \in Worker, Drop(w) PROVE Workers'
    BY <1>5, <1>0, IdleMove DEF Drop
<1>6. ASSUME NEW w \in Worker, Pick(w) PROVE Workers'
    <2>0. Left(w)
        BY <1>6, <1>0, Busy DEF Pick
    <2>1. CASE Goto(w, "assume")
        BY <1>6, <1>0, <2>0, <2>1, GotoMove DEF Pick
    <2>2. ASSUME NEW k \in Waiting,
                 Become(w, [worker[w] EXCEPT !.at = "confirm", !.on = k, !.held = action[k]])
          PROVE  Workers'
        <3> DEFINE j == [worker[w] EXCEPT !.at = "confirm", !.on = k, !.held = action[k]]
        <3>1. k \in Action /\ action[k] \in ActionRow
            BY <1>0, <2>2 DEF Waiting, Stands, Tables
        <3>2. /\ j \in Job /\ j.at = "confirm" /\ j.on = k /\ j.held = action[k]
              /\ j.report = worker[w].report /\ j.next = worker[w].next
            BY <1>0, <3>1 DEF Workers, Job
        <3>3. JobOK(j)
            BY <1>6, <1>0, <2>0, <3>1, <3>2 DEF Workers, JobOK, Left, Pick
        <3> HIDE DEF j
        <3>4. Become(w, j) /\ content' = content
            BY <1>6, <2>2 DEF Pick, j
        <3> QED
            BY <1>0, <3>2, <3>3, <3>4, WorkersMove
    <2> QED
        BY <1>6, <2>1, <2>2 DEF Pick
<1>7. ASSUME NEW w \in Worker, Assume(w) PROVE Workers'
    <2>0. Left(w)
        BY <1>7, <1>0, Busy DEF Assume
    <2>1. CASE Skip(w)
        BY <1>7, <1>0, <2>1, SkipMove DEF Assume
    <2>2. ASSUME NEW d \in Deployments,
                 Become(w, [worker[w] EXCEPT !.at = "create", !.on = d])
          PROVE  Workers'
        <3> DEFINE j == [worker[w] EXCEPT !.at = "create", !.on = d]
        <3>1. d \in Request
            BY <2>2 DEF Deployments
        <3>2. /\ j \in Job /\ j.at = "create" /\ j.on = d
              /\ j.report = worker[w].report /\ j.next = worker[w].next
            BY <1>0, <3>1 DEF Workers, Job
        <3>3. JobOK(j)
            BY <1>7, <1>0, <2>0, <3>1, <3>2 DEF Workers, JobOK, Left, Assume
        <3> HIDE DEF j
        <3>4. Become(w, j) /\ content' = content
            BY <1>7, <2>2 DEF Assume, j
        <3> QED
            BY <1>0, <3>2, <3>3, <3>4, WorkersMove
    <2> QED
        BY <1>7, <2>1, <2>2 DEF Assume
<1>8. ASSUME NEW w \in Worker, Confirm(w) PROVE Workers'
    BY <1>8, <1>0, SkipMove DEF Confirm
<1>9. ASSUME NEW w \in Worker, Create(w) PROVE Workers'
    BY <1>9, <1>0, SkipMove DEF Create
<1>10. ASSUME NEW w \in Worker, Finish(w) PROVE Workers'
    BY <1>10, <1>0, IdleMove DEF Finish
<1>11. ASSUME NEW w \in Worker, Fail(w) PROVE Workers'
    BY <1>11, <1>0, IdleMove DEF Fail, Abandon
<1>12. ASSUME NEW w \in Worker, Refused(w) PROVE Workers'
    BY <1>12, <1>0, IdleMove DEF Refused, Abandon
<1>13. ASSUME NEW r \in Report, Redeliver(r) PROVE Workers'
    BY <1>13, <1>0, WorkersKept DEF Redeliver
<1>14. ASSUME NEW d \in Request, NEW covers \in BOOLEAN, AddRequest(d, covers) PROVE Workers'
    BY <1>14, <1>0, WorkersKept DEF AddRequest
<1>15. ASSUME NEW d \in Request, DeleteRequest(d) PROVE Workers'
    BY <1>15, <1>0, WorkersKept DEF DeleteRequest
<1>16. ASSUME NEW k \in Action, DeleteAction(k) PROVE Workers'
    BY <1>16, <1>0, WorkersKept DEF DeleteAction
<1>17. ASSUME NEW k \in Action, NEW d \in Request, NEW success \in BOOLEAN,
             Post(k, d, success) PROVE Workers'
    BY <1>17, <1>0, WorkersKept DEF Post
<1>18. ASSUME NEW f \in Form, NEW d \in Request, NEW what \in RequestForm,
             OpenRequest(f, what, d) PROVE Workers'
    BY <1>18, <1>0, WorkersKept DEF OpenRequest, Open
<1>19. ASSUME NEW f \in Form, NEW k \in Action, OpenAction(f, k) PROVE Workers'
    BY <1>19, <1>0, WorkersKept DEF OpenAction, Open
<1>20. ASSUME NEW f \in Form, OpenDevice(f) PROVE Workers'
    BY <1>20, <1>0, WorkersKept DEF OpenDevice, Open
<1>21. ASSUME NEW f \in Form, SaveRequest(f) PROVE Workers'
    BY <1>21, <1>0, WorkersKept DEF SaveRequest
<1>22. ASSUME NEW f \in Form, SaveAction(f) PROVE Workers'
    BY <1>22, <1>0, WorkersKept DEF SaveAction
<1>23. ASSUME NEW f \in Form, SavePatch(f) PROVE Workers'
    BY <1>23, <1>0, WorkersKept DEF SavePatch
<1>24. CASE UNCHANGED vars
    BY <1>24, <1>0, WorkersKept DEF vars
<1> QED
    BY <1>1, <1>2, <1>3, <1>4, <1>5, <1>6, <1>7, <1>8, <1>9, <1>10, <1>11, <1>12,
       <1>13, <1>14, <1>15, <1>16, <1>17, <1>18, <1>19, <1>20, <1>21, <1>22,
       <1>23, <1>24 DEF Next

LEMMA FormsKept ==
    ASSUME Forms, UNCHANGED form
    PROVE  Forms'
BY DEF Forms, SheetOK

LEMMA FormsMove ==
    ASSUME Forms, NEW f \in Form, NEW x \in Sheet, SheetOK(x),
           form' = [form EXCEPT ![f] = x]
    PROVE  Forms'
BY DEF Forms, SheetOK

LEMMA FormsClose ==
    ASSUME Forms, NEW f \in Form, Close(f)
    PROVE  Forms'
<1>1. SheetOK(Closed)
    BY ClosedType DEF SheetOK, RequestForm
<1> QED
    BY <1>1, ClosedType, FormsMove DEF Close

\* The sheets of the forms keep theirs.
LEMMA FormsStep == TypeOK /\ [Next]_vars => Forms'
<1> SUFFICES ASSUME TypeOK, [Next]_vars PROVE Forms'
    OBVIOUS
<1>0. Tables /\ Histories /\ Workers /\ Forms
    BY TypeParts
<1>1. ASSUME NEW w \in Worker, NEW r \in Report, Begin(w, r) PROVE Forms'
    BY <1>1, <1>0, FormsKept DEF Begin
<1>2. ASSUME NEW w \in Worker, Look(w) PROVE Forms'
    BY <1>2, <1>0, FormsKept DEF Look
<1>3. ASSUME NEW w \in Worker, Insert(w) PROVE Forms'
    BY <1>3, <1>0, FormsKept DEF Insert
<1>4. ASSUME NEW w \in Worker, Update(w) PROVE Forms'
    BY <1>4, <1>0, FormsKept DEF Update
<1>5. ASSUME NEW w \in Worker, Drop(w) PROVE Forms'
    BY <1>5, <1>0, FormsKept DEF Drop
<1>6. ASSUME NEW w \in Worker, Pick(w) PROVE Forms'
    BY <1>6, <1>0, FormsKept DEF Pick
<1>7. ASSUME NEW w \in Worker, Assume(w) PROVE Forms'
    BY <1>7, <1>0, FormsKept DEF Assume
<1>8. ASSUME NEW w \in Worker, Confirm(w) PROVE Forms'
    BY <1>8, <1>0, FormsKept DEF Confirm
<1>9. ASSUME NEW w \in Worker, Create(w) PROVE Forms'
    BY <1>9, <1>0, FormsKept DEF Create
<1>10. ASSUME NEW w \in Worker, Finish(w) PROVE Forms'
    BY <1>10, <1>0, FormsKept DEF Finish
<1>11. ASSUME NEW w \in Worker, Fail(w) PROVE Forms'
    BY <1>11, <1>0, FormsKept DEF Fail, Abandon
<1>12. ASSUME NEW w \in Worker, Refused(w) PROVE Forms'
    BY <1>12, <1>0, FormsKept DEF Refused, Abandon
<1>13. ASSUME NEW r \in Report, Redeliver(r) PROVE Forms'
    BY <1>13, <1>0, FormsKept DEF Redeliver
<1>14. ASSUME NEW d \in Request, NEW covers \in BOOLEAN, AddRequest(d, covers) PROVE Forms'
    BY <1>14, <1>0, FormsKept DEF AddRequest
<1>15. ASSUME NEW d \in Request, DeleteRequest(d) PROVE Forms'
    BY <1>15, <1>0, FormsKept DEF DeleteRequest
<1>16. ASSUME NEW k \in Action, DeleteAction(k) PROVE Forms'
    BY <1>16, <1>0, FormsKept DEF DeleteAction
<1>17. ASSUME NEW k \in Action, NEW d \in Request, NEW success \in BOOLEAN,
             Post(k, d, success) PROVE Forms'
    BY <1>17, <1>0, FormsKept DEF Post
<1>18. ASSUME NEW f \in Form, NEW d \in Request, NEW what \in RequestForm,
             OpenRequest(f, what, d) PROVE Forms'
    <2> DEFINE x == [at |-> what, on |-> d, row |-> request[d]]
    <2>1. d \in Request /\ request[d] \in RequestRow
        BY <1>18, <1>0 DEF OpenRequest, Stands, Tables
    <2>2. x \in Sheet /\ SheetOK(x)
        BY <2>1 DEF Sheet, SheetOK, RequestForm
    <2>3. form' = [form EXCEPT ![f] = x]
        BY <1>18 DEF OpenRequest, Open
    <2> HIDE DEF x
    <2> QED
        BY <1>0, <2>2, <2>3, FormsMove
<1>19. ASSUME NEW f \in Form, NEW k \in Action, OpenAction(f, k) PROVE Forms'
    <2> DEFINE x == [at |-> "attempt", on |-> k, row |-> action[k]]
    <2>1. k \in Action /\ action[k] \in ActionRow
        BY <1>19, <1>0 DEF OpenAction, Stands, Tables
    <2>2. x \in Sheet /\ SheetOK(x)
        BY <2>1 DEF Sheet, SheetOK, RequestForm
    <2>3. form' = [form EXCEPT ![f] = x]
        BY <1>19 DEF OpenAction, Open
    <2> HIDE DEF x
    <2> QED
        BY <1>0, <2>2, <2>3, FormsMove
<1>20. ASSUME NEW f \in Form, OpenDevice(f) PROVE Forms'
    <2> DEFINE x == [at |-> "device", on |-> NoRow, row |-> device]
    <2>1. device \in DeviceRow
        BY <1>20, <1>0 DEF OpenDevice, Stands, Tables
    <2>2. x \in Sheet /\ SheetOK(x)
        BY <2>1 DEF Sheet, SheetOK, RequestForm
    <2>3. form' = [form EXCEPT ![f] = x]
        BY <1>20 DEF OpenDevice, Open
    <2> HIDE DEF x
    <2> QED
        BY <1>0, <2>2, <2>3, FormsMove
<1>21. ASSUME NEW f \in Form, SaveRequest(f) PROVE Forms'
    BY <1>21, <1>0, FormsClose DEF SaveRequest
<1>22. ASSUME NEW f \in Form, SaveAction(f) PROVE Forms'
    BY <1>22, <1>0, FormsClose DEF SaveAction
<1>23. ASSUME NEW f \in Form, SavePatch(f) PROVE Forms'
    BY <1>23, <1>0, FormsClose DEF SavePatch
<1>24. CASE UNCHANGED vars
    BY <1>24, <1>0, FormsKept DEF vars
<1> QED
    BY <1>1, <1>2, <1>3, <1>4, <1>5, <1>6, <1>7, <1>8, <1>9, <1>10, <1>11, <1>12,
       <1>13, <1>14, <1>15, <1>16, <1>17, <1>18, <1>19, <1>20, <1>21, <1>22,
       <1>23, <1>24 DEF Next

\* The tables keep theirs.
LEMMA TablesStep == TypeOK /\ [Next]_vars => Tables'
<1> SUFFICES ASSUME TypeOK, [Next]_vars PROVE Tables'
    OBVIOUS
<1>0. Tables /\ Histories /\ Workers /\ Forms
    BY TypeParts
<1>1. ASSUME NEW w \in Worker, NEW r \in Report, Begin(w, r) PROVE Tables'
    BY <1>1, <1>0 DEF Begin, Tables, rows
<1>2. ASSUME NEW w \in Worker, Look(w) PROVE Tables'
    BY <1>2, <1>0 DEF Look, Tables, rows
<1>3. ASSUME NEW w \in Worker, Insert(w) PROVE Tables'
    <2> DEFINE x == Reading(w)
               v == [type |-> x.type, what |-> Told(w), id |-> Id(w), at |-> x.at]
    <2>1. v \in [type : Part, what : Version, id : Ids, at : Nat]
        BY <1>3, <1>0, Busy DEF Insert, Datum
    <2>2. versions' \subseteq versions \cup {v}
        BY <1>3 DEF Insert
    <2> QED
        BY <1>3, <1>0, <2>1, <2>2 DEF Insert, Tables
<1>4. ASSUME NEW w \in Worker, Update(w) PROVE Tables'
    <2> DEFINE t == Reading(w).type
               c == Serves(t, Told(w))
               row == With(worker[w].copy, t, c)
    <2>1. t \in Part /\ c \in Version \cup {None}
        BY <1>4, <1>0, Busy, ServesType DEF Update, Datum
    <2>2. row \in DeviceRow
        BY <1>0, <2>1, ZenonT(40) DEF Workers, Job, DeviceRow, With, Part
    <2>3. device' = row
        BY <1>4 DEF Update, SaveDevice
    <2> QED
        BY <1>4, <1>0, <2>2, <2>3 DEF Update, Tables
<1>5. ASSUME NEW w \in Worker, Drop(w) PROVE Tables'
    <2>1. worker[w].report \in Report
        BY <1>5, <1>0 DEF Drop, Workers, JobOK, Job
    <2> QED
        BY <1>5, <1>0, <2>1 DEF Drop, Tables, rows
<1>6. ASSUME NEW w \in Worker, Pick(w) PROVE Tables'
    BY <1>6, <1>0 DEF Pick, Tables, rows
<1>7. ASSUME NEW w \in Worker, Assume(w) PROVE Tables'
    BY <1>7, <1>0 DEF Assume, Tables, rows
<1>8. ASSUME NEW w \in Worker, Confirm(w) PROVE Tables'
    <2>1. worker[w].on \in Action /\ worker[w].held \in ActionRow
        BY <1>8, <1>0 DEF Confirm, Workers, JobOK
    <2>2. [worker[w].held EXCEPT !.confirmed = TRUE] \in ActionRow
        BY <2>1 DEF ActionRow
    <2> QED
        BY <1>8, <1>0, <2>1, <2>2 DEF Confirm, Tables
<1>9. ASSUME NEW w \in Worker, Create(w) PROVE Tables'
    <2>1. worker[w].on \in Request
        BY <1>9, <1>0 DEF Create, Workers, JobOK
    <2>2. [of |-> worker[w].on, success |-> TRUE, confirmed |-> TRUE] \in ActionRow
        BY <2>1 DEF ActionRow
    <2>3. action' \in [Action -> ActionRow \cup {NoRow, Deleted}]
        BY <1>9, <1>0, <2>2 DEF Create, Tables
    <2> QED
        BY <1>9, <1>0, <2>3 DEF Create, Tables
<1>10. ASSUME NEW w \in Worker, Finish(w) PROVE Tables'
    <2>1. worker[w].report \in Report
        BY <1>10, <1>0 DEF Finish, Workers, JobOK, Job
    <2> QED
        BY <1>10, <1>0, <2>1 DEF Finish, Tables, rows
<1>11. ASSUME NEW w \in Worker, Fail(w) PROVE Tables'
    <2>1. worker[w].report \in Report
        BY <1>11, <1>0 DEF Fail, Workers, JobOK, Job
    <2> QED
        BY <1>11, <1>0, <2>1 DEF Fail, Abandon, Tables, rows
<1>12. ASSUME NEW w \in Worker, Refused(w) PROVE Tables'
    <2>1. worker[w].report \in Report
        BY <1>12, <1>0 DEF Refused, Workers, JobOK, Job
    <2> QED
        BY <1>12, <1>0, <2>1 DEF Refused, Abandon, Tables, rows
<1>13. ASSUME NEW r \in Report, Redeliver(r) PROVE Tables'
    BY <1>13, <1>0 DEF Redeliver, Tables, rows
<1>14. ASSUME NEW d \in Request, NEW covers \in BOOLEAN, AddRequest(d, covers) PROVE Tables'
    <2>1. [covers |-> covers, released |-> FALSE, completed |-> FALSE] \in RequestRow
        BY DEF RequestRow
    <2> QED
        BY <1>14, <1>0, <2>1 DEF AddRequest, Tables
<1>15. ASSUME NEW d \in Request, DeleteRequest(d) PROVE Tables'
    BY <1>15, <1>0 DEF DeleteRequest, Tables, rows
<1>16. ASSUME NEW k \in Action, DeleteAction(k) PROVE Tables'
    BY <1>16, <1>0 DEF DeleteAction, Tables, rows
<1>17. ASSUME NEW k \in Action, NEW d \in Request, NEW success \in BOOLEAN,
             Post(k, d, success) PROVE Tables'
    <2>1. [of |-> d, success |-> success, confirmed |-> FALSE] \in ActionRow
        BY DEF ActionRow
    <2> QED
        BY <1>17, <1>0, <2>1 DEF Post, Tables
<1>18. ASSUME NEW f \in Form, NEW d \in Request, NEW what \in RequestForm,
             OpenRequest(f, what, d) PROVE Tables'
    BY <1>18, <1>0 DEF OpenRequest, Open, Tables, rows
<1>19. ASSUME NEW f \in Form, NEW k \in Action, OpenAction(f, k) PROVE Tables'
    BY <1>19, <1>0 DEF OpenAction, Open, Tables, rows
<1>20. ASSUME NEW f \in Form, OpenDevice(f) PROVE Tables'
    BY <1>20, <1>0 DEF OpenDevice, Open, Tables, rows
<1>21. ASSUME NEW f \in Form, SaveRequest(f) PROVE Tables'
    <2>1. form[f].on \in Request /\ form[f].row \in RequestRow
        BY <1>21, <1>0 DEF SaveRequest, Forms, SheetOK
    <2>2. FormResult(form[f].at, form[f].row) \in RequestRow
        BY <1>21, <2>1 DEF SaveRequest, RequestForm, FormResult, RequestRow
    <2> QED
        BY <1>21, <1>0, <2>1, <2>2 DEF SaveRequest, Tables
<1>22. ASSUME NEW f \in Form, SaveAction(f) PROVE Tables'
    <2>1. form[f].on \in Action /\ form[f].row \in ActionRow
        BY <1>22, <1>0 DEF SaveAction, Forms, SheetOK
    <2>2. \A success \in BOOLEAN : [form[f].row EXCEPT !.success = success] \in ActionRow
        BY <2>1 DEF ActionRow
    <2>3. action' \in [Action -> ActionRow \cup {NoRow, Deleted}]
        BY <1>22, <1>0, <2>1, <2>2 DEF SaveAction, Tables
    <2> QED
        BY <1>22, <1>0, <2>3 DEF SaveAction, Tables
<1>23. ASSUME NEW f \in Form, SavePatch(f) PROVE Tables'
    <2>1. form[f].row \in DeviceRow
        BY <1>23, <1>0 DEF SavePatch, Forms, SheetOK
    <2>2. [form[f].row EXCEPT !.rest = TRUE] \in DeviceRow
        BY <2>1 DEF DeviceRow
    <2>3. device' \in DeviceRow
        BY <1>23, <2>2 DEF SavePatch, SaveDevice
    <2> QED
        BY <1>23, <1>0, <2>3 DEF SavePatch, Tables
<1>24. CASE UNCHANGED vars
    BY <1>24, <1>0 DEF vars, rows, Tables
<1> QED
    BY <1>1, <1>2, <1>3, <1>4, <1>5, <1>6, <1>7, <1>8, <1>9, <1>10, <1>11, <1>12,
       <1>13, <1>14, <1>15, <1>16, <1>17, <1>18, <1>19, <1>20, <1>21, <1>22,
       <1>23, <1>24 DEF Next

\* The bounds and histories keep theirs.
LEMMA HistoriesStep == TypeOK /\ [Next]_vars => Histories'
<1> SUFFICES ASSUME TypeOK, [Next]_vars PROVE Histories'
    OBVIOUS
<1> USE Bounds
<1>0. Tables /\ Histories /\ Workers /\ Forms
    BY TypeParts
<1>1. ASSUME NEW w \in Worker, NEW r \in Report, Begin(w, r) PROVE Histories'
    BY <1>1, <1>0 DEF Begin, ReadDevice, Histories, Holder, bounds, excuses
<1>2. ASSUME NEW w \in Worker, Look(w) PROVE Histories'
    BY <1>2, <1>0 DEF Look, Histories, Holder, bounds, excuses
<1>3. ASSUME NEW w \in Worker, Insert(w) PROVE Histories'
    <2>1. Reading(w).type \in Part
        BY <1>3, <1>0, Busy DEF Insert, Datum
    <2>2. late' \subseteq Part
        BY <1>3, <1>0, <2>1 DEF Insert, Histories
    <2> QED
        BY <1>3, <1>0, <2>2, OtaAssumption DEF Insert, Histories
<1>4. ASSUME NEW w \in Worker, Update(w) PROVE Histories'
    <2>1. w \in Holder /\ Reading(w).type \in Column
        BY <1>4, <1>0, Busy DEF Update, Datum, Holder, Column
    <2>2. SaveDevice(w, With(worker[w].copy, Reading(w).type, Serves(Reading(w).type, Told(w))), Reading(w).type)
        BY <1>4 DEF Update
    <2>3. behind' \in [Holder -> SUBSET Column] /\ lost' \subseteq Column
        BY <1>0, <2>1, <2>2 DEF SaveDevice, Histories
    <2> QED
        BY <1>4, <1>0, <2>3 DEF Update, Histories, bounds
<1>5. ASSUME NEW w \in Worker, Drop(w) PROVE Histories'
    <2>1. Id(w) \in Ids
        BY <1>5, <1>0, Busy DEF Drop
    <2> QED
        BY <1>5, <1>0, <2>1 DEF Drop, Histories, bounds
<1>6. ASSUME NEW w \in Worker, Pick(w) PROVE Histories'
    BY <1>6, <1>0 DEF Pick, Histories, Holder, bounds, excuses
<1>7. ASSUME NEW w \in Worker, Assume(w) PROVE Histories'
    BY <1>7, <1>0 DEF Assume, Histories, Holder, bounds, excuses
<1>8. ASSUME NEW w \in Worker, Confirm(w) PROVE Histories'
    <2>0. worker[w].at \notin {"idle", "read"}
        BY <1>8 DEF Confirm
    <2>1. settled' \in [Ids -> Nat]
        BY <1>8, <1>0, <2>0, Busy DEF Confirm, Settle, Histories
    <2> QED
        BY <1>8, <1>0, <2>1 DEF Confirm, Histories, bounds, excuses
<1>9. ASSUME NEW w \in Worker, Create(w) PROVE Histories'
    <2>0. worker[w].at \notin {"idle", "read"}
        BY <1>9 DEF Create
    <2>1. settled' \in [Ids -> Nat]
        BY <1>9, <1>0, <2>0, Busy DEF Create, Settle, Histories
    <2> QED
        BY <1>9, <1>0, <2>1 DEF Create, Histories, bounds, excuses
<1>10. ASSUME NEW w \in Worker, Finish(w) PROVE Histories'
    BY <1>10, <1>0 DEF Finish, Histories, Holder, bounds, excuses
<1>11. ASSUME NEW w \in Worker, Fail(w) PROVE Histories'
    <2>1. worker[w].at = "update" => Id(w) \in Ids
        BY <1>0, Busy
    <2>2. cut' \subseteq Ids
        BY <1>11, <1>0, <2>1 DEF Fail, Abandon, Histories
    <2> QED
        BY <1>11, <1>0, <2>2 DEF Fail, Abandon, Histories, bounds
<1>12. ASSUME NEW w \in Worker, Refused(w) PROVE Histories'
    <2>1. worker[w].at = "update" => Id(w) \in Ids
        BY <1>0, Busy
    <2>2. cut' \subseteq Ids
        BY <1>12, <1>0, <2>1 DEF Refused, Abandon, Histories
    <2> QED
        BY <1>12, <1>0, <2>2 DEF Refused, Abandon, Histories, bounds
<1>13. ASSUME NEW r \in Report, Redeliver(r) PROVE Histories'
    BY <1>13, <1>0 DEF Redeliver, Histories, Holder, bounds, excuses
<1>14. ASSUME NEW d \in Request, NEW covers \in BOOLEAN, AddRequest(d, covers) PROVE Histories'
    BY <1>14, <1>0 DEF AddRequest, Ask, Histories, Holder, bounds, excuses
<1>15. ASSUME NEW d \in Request, DeleteRequest(d) PROVE Histories'
    BY <1>15, <1>0 DEF DeleteRequest, Ask, Histories, Holder, bounds, excuses
<1>16. ASSUME NEW k \in Action, DeleteAction(k) PROVE Histories'
    BY <1>16, <1>0 DEF DeleteAction, Ask, Histories, Holder, bounds, excuses
<1>17. ASSUME NEW k \in Action, NEW d \in Request, NEW success \in BOOLEAN,
             Post(k, d, success) PROVE Histories'
    BY <1>17, <1>0 DEF Post, Ask, Histories, Holder, bounds, excuses
<1>18. ASSUME NEW f \in Form, NEW d \in Request, NEW what \in RequestForm,
             OpenRequest(f, what, d) PROVE Histories'
    BY <1>18, <1>0 DEF OpenRequest, Open, Ask, Histories, Holder, bounds, excuses
<1>19. ASSUME NEW f \in Form, NEW k \in Action, OpenAction(f, k) PROVE Histories'
    BY <1>19, <1>0 DEF OpenAction, Open, Ask, Histories, Holder, bounds, excuses
<1>20. ASSUME NEW f \in Form, OpenDevice(f) PROVE Histories'
    BY <1>20, <1>0 DEF OpenDevice, Open, Ask, ReadDevice, Histories, Holder, bounds, excuses
<1>21. ASSUME NEW f \in Form, SaveRequest(f) PROVE Histories'
    BY <1>21, <1>0 DEF SaveRequest, Histories, Holder, bounds, excuses
<1>22. ASSUME NEW f \in Form, SaveAction(f) PROVE Histories'
    BY <1>22, <1>0 DEF SaveAction, Histories, Holder, bounds, excuses
<1>23. ASSUME NEW f \in Form, SavePatch(f) PROVE Histories'
    <2>1. f \in Holder /\ "rest" \in Column
        BY DEF Holder, Column
    <2>2. SaveDevice(f, [form[f].row EXCEPT !.rest = TRUE], "rest")
        BY <1>23 DEF SavePatch
    <2>3. behind' \in [Holder -> SUBSET Column] /\ lost' \subseteq Column
        BY <1>0, <2>1, <2>2 DEF SaveDevice, Histories
    <2> QED
        BY <1>23, <1>0, <2>3 DEF SavePatch, Histories, bounds
<1>24. CASE UNCHANGED vars
    BY <1>24, <1>0 DEF vars, bounds, excuses, Histories
<1> QED
    BY <1>1, <1>2, <1>3, <1>4, <1>5, <1>6, <1>7, <1>8, <1>9, <1>10, <1>11, <1>12,
       <1>13, <1>14, <1>15, <1>16, <1>17, <1>18, <1>19, <1>20, <1>21, <1>22,
       <1>23, <1>24 DEF Next

LEMMA TypeStep == TypeOK /\ [Next]_vars => TypeOK'
BY WorkersStep, FormsStep, TablesStep, HistoriesStep, TypePartsNext

\* TypeOK holds in every reachable state.
THEOREM TypeCorrect == Spec => []TypeOK
<1> QED
    BY InitType, TypeStep, PTL DEF Spec

\* What a step of worker w makes of the workers.
LEMMA Moved ==
    ASSUME Workers, NEW w \in Worker, NEW j, Become(w, j)
    PROVE  worker'[w] = j /\ \A u \in Worker \ {w} : worker'[u] = worker[u]
BY DEF Workers, Become

LEMMA Skipped ==
    ASSUME Workers, NEW w \in Worker, Skip(w)
    PROVE  \E j \in Job : Become(w, j) /\ j.at = "read" /\ j.copy = worker[w].copy
<1> DEFINE j == [worker[w] EXCEPT !.at = "read", !.next = @ + 1, !.on = NoRow, !.held = NoRow]
<1>0. worker[w] \in Job /\ worker[w].next + 1 \in Nat \ {0}
    BY DEF Workers, Job
<1>1. j \in Job /\ j.at = "read" /\ j.copy = worker[w].copy
    BY <1>0 DEF Job
<1> HIDE DEF j
<1>2. Become(w, j)
    BY DEF Skip, j
<1> QED
    BY <1>1, <1>2

LEMMA Went ==
    ASSUME Workers, NEW w \in Worker, NEW l, Goto(w, l)
    PROVE  \E j : /\ Become(w, j) /\ j.at = l /\ j.report = worker[w].report
                  /\ j.next = worker[w].next /\ j.copy = worker[w].copy
<1> DEFINE j == [worker[w] EXCEPT !.at = l]
<1>1. /\ j.at = l /\ j.report = worker[w].report
      /\ j.next = worker[w].next /\ j.copy = worker[w].copy
    BY DEF Workers, Job
<1> HIDE DEF j
<1>2. Become(w, j)
    BY DEF Goto, j
<1> QED
    BY <1>1, <1>2

\* A job with the same report, reading and copy, in another place.
SameReading(j, k) == j.report = k.report /\ j.next = k.next
LEMMA Moves ==
    ASSUME Tables, Workers, NEW w \in Worker
    PROVE  /\ Look(w) => \/ Skip(w)
                         \/ Goto(w, "insert")
           /\ Pick(w) => \E j : /\ Become(w, j) /\ j.at \in {"confirm", "assume"}
                                /\ SameReading(j, worker[w]) /\ j.copy = worker[w].copy
           /\ Assume(w) => \/ Skip(w)
                           \/ \E j : /\ Become(w, j) /\ j.at = "create"
                                     /\ SameReading(j, worker[w]) /\ j.copy = worker[w].copy
<1>0. worker[w] \in Job
    BY DEF Workers
<1>1. \A k \in Action :
        LET j == [worker[w] EXCEPT !.at = "confirm", !.on = k, !.held = action[k]]
        IN  j.at = "confirm" /\ SameReading(j, worker[w]) /\ j.copy = worker[w].copy
    BY <1>0 DEF Job, SameReading
<1>2. \A d \in Request :
        LET j == [worker[w] EXCEPT !.at = "create", !.on = d]
        IN  j.at = "create" /\ SameReading(j, worker[w]) /\ j.copy = worker[w].copy
    BY <1>0 DEF Job, SameReading
<1>3. Look(w) => Skip(w) \/ Goto(w, "insert")
    BY DEF Look
<1>4. ASSUME Pick(w)
      PROVE  \E j : /\ Become(w, j) /\ j.at \in {"confirm", "assume"}
                    /\ SameReading(j, worker[w]) /\ j.copy = worker[w].copy
    <2>1. CASE Goto(w, "assume")
        BY <2>1, Went DEF SameReading
    <2>2. ASSUME NEW k \in Waiting,
                 Become(w, [worker[w] EXCEPT !.at = "confirm", !.on = k, !.held = action[k]])
          PROVE  \E j : /\ Become(w, j) /\ j.at \in {"confirm", "assume"}
                        /\ SameReading(j, worker[w]) /\ j.copy = worker[w].copy
        <3>1. k \in Action
            BY DEF Waiting
        <3> QED
            BY <1>1, <2>2, <3>1
    <2> QED
        BY <1>4, <2>1, <2>2 DEF Pick
<1>5. ASSUME Assume(w)
      PROVE  \/ Skip(w)
             \/ \E j : /\ Become(w, j) /\ j.at = "create"
                       /\ SameReading(j, worker[w]) /\ j.copy = worker[w].copy
    <2>1. ASSUME NEW d \in Deployments,
                 Become(w, [worker[w] EXCEPT !.at = "create", !.on = d])
          PROVE  \E j : /\ Become(w, j) /\ j.at = "create"
                        /\ SameReading(j, worker[w]) /\ j.copy = worker[w].copy
        <3>1. d \in Request
            BY DEF Deployments
        <3> QED
            BY <1>2, <2>1, <3>1
    <2> QED
        BY <1>5, <2>1 DEF Assume
<1> QED
    BY <1>3, <1>4, <1>5

LEMMA UpdateMove ==
    ASSUME Tables, Workers, NEW w \in Worker, Update(w)
    PROVE  \E j, row : /\ Become(w, j) /\ j.at = "pick" /\ SameReading(j, worker[w])
                       /\ j.copy = row /\ row \in DeviceRow
                       /\ SaveDevice(w, row, Reading(w).type)
                       /\ row[Reading(w).type] = Serves(Reading(w).type, Told(w))
                       /\ \A c \in Column \ {Reading(w).type} : row[c] = worker[w].copy[c]
<1> DEFINE t == Reading(w).type
           c == Serves(t, Told(w))
           row == With(worker[w].copy, t, c)
           j == [worker[w] EXCEPT !.at = "pick", !.copy = row]
<1>1. t \in Part /\ c \in Version \cup {None}
    BY Busy, ServesType DEF Update, Datum
<1>2. worker[w] \in Job /\ worker[w].copy \in DeviceRow
    BY DEF Workers, Job
<1> HIDE DEF t, c
<1>3. /\ row \in DeviceRow /\ row[t] = c
      /\ \A d \in Column \ {t} : row[d] = worker[w].copy[d]
    <2>1. CASE t = "os"
        BY <1>1, <1>2, <2>1 DEF DeviceRow, With, Column, Part
    <2>2. CASE t = "app"
        BY <1>1, <1>2, <2>2 DEF DeviceRow, With, Column, Part
    <2> QED
        BY <1>1, <2>1, <2>2 DEF Part
<1> HIDE DEF row
<1>4. j.at = "pick" /\ SameReading(j, worker[w]) /\ j.copy = row
    BY <1>2 DEF Job, SameReading
<1> HIDE DEF j
<1>5. Become(w, j) /\ SaveDevice(w, row, t)
    BY DEF Update, j, row, c, t
<1>6. row[t] = Serves(t, Told(w))
    BY <1>3 DEF c
<1> QED
    BY <1>3, <1>4, <1>5, <1>6 DEF t

\* A version row is inserted for a reading at most once.
LEMMA InsertedNew ==
    ASSUME ToldInv, NEW w \in Worker, NEW v,
           v.type = Reading(w).type, v.what = Told(w), v.id = Id(w), Inserted(v)
    PROVE  ~Recorded(Id(w))
<1> SUFFICES ASSUME NEW u \in versions, u.id = Id(w) PROVE FALSE
    BY DEF Recorded
<1>1. u.type = Reading(w).type /\ u.what = Told(w)
    BY DEF ToldInv, Datum1, Id, Reading, Told
<1> QED
    BY <1>1 DEF Inserted, Key

LEMMA OnceKept ==
    ASSUME OnceInv, UNCHANGED <<worker, settled, versions>>
    PROVE  OnceInv'
BY DEF OnceInv, Recorded, Id

LEMMA OnceLeave ==
    ASSUME OnceInv, Workers, NEW w \in Worker, NEW j, j.at \notin Past, Become(w, j),
           settled' = settled, versions \subseteq versions'
    PROVE  OnceInv'
<1>1. worker'[w] = j /\ \A u \in Worker \ {w} : worker'[u] = worker[u]
    BY Moved
<1>2. \A x : Recorded(x) => Recorded(x)'
    BY DEF Recorded
<1> QED
    BY <1>1, <1>2 DEF OnceInv, Id

LEMMA OnceStay ==
    ASSUME OnceInv, Workers, NEW w \in Worker, worker[w].at \in Past,
           NEW j, SameReading(j, worker[w]), Become(w, j),
           settled' = settled, versions' = versions
    PROVE  OnceInv'
<1>1. worker'[w] = j /\ \A u \in Worker \ {w} : worker'[u] = worker[u]
    BY Moved
<1>2. \A u \in Worker : Id(u)' = Id(u) /\ (worker'[u].at \in Past => worker[u].at \in Past)
    BY <1>1 DEF Id, SameReading
<1>3. \A x : Recorded(x) = Recorded(x)'
    BY DEF Recorded
<1> QED
    BY <1>2, <1>3 DEF OnceInv

LEMMA OnceSettle ==
    ASSUME OnceInv, Workers, Histories, NEW w \in Worker, worker[w].at \in Past,
           NEW j, j.at \notin Past, Become(w, j), Settle(w),
           versions' = versions
    PROVE  OnceInv'
<1>1. worker'[w] = j /\ \A u \in Worker \ {w} : worker'[u] = worker[u]
    BY Moved
<1>2. \A x : Recorded(x) = Recorded(x)'
    BY DEF Recorded
<1>3. \A x \in Ids : settled'[x] = IF x = Id(w) THEN settled[x] + 1 ELSE settled[x]
    BY DEF Settle, Histories
<1>4. settled[Id(w)] = 0 /\ Recorded(Id(w))
    BY DEF OnceInv
<1>5. ASSUME NEW u \in Worker, worker'[u].at \in Past
      PROVE  Recorded(Id(u)) /\ settled'[Id(u)] = 0 /\ Id(u)' = Id(u) /\ worker[u].at \in Past
    <2>1. u # w /\ worker'[u] = worker[u]
        BY <1>1, <1>5
    <2>2. Id(u) # Id(w) /\ worker[u].at \in Past
        BY <1>5, <2>1 DEF OnceInv
    <2>3. settled'[Id(u)] = settled[Id(u)]
        BY <2>2 DEF Settle, Histories
    <2> QED
        BY <2>1, <2>2, <2>3 DEF OnceInv, Id
<1>6. \A x \in Ids : settled'[x] <= 1 /\ (settled'[x] > 0 => Recorded(x))
    BY <1>3, <1>4 DEF OnceInv, Histories
<1> QED
    BY <1>2, <1>5, <1>6 DEF OnceInv

\* The versions recorded stay what the reports carry.
LEMMA ToldStep == IInv /\ [Next]_vars => ToldInv'
<1> SUFFICES ASSUME IInv, [Next]_vars PROVE ToldInv'
    OBVIOUS
<1>0. TypeOK /\ ToldInv /\ Tables /\ Histories /\ Workers /\ Forms
    BY TypeParts DEF IInv
<1>1. ASSUME NEW w \in Worker, NEW r \in Report, Begin(w, r) PROVE ToldInv'
    BY <1>1, <1>0 DEF Begin, rows, ToldInv, Datum1
<1>2. ASSUME NEW w \in Worker, Look(w) PROVE ToldInv'
    BY <1>2, <1>0 DEF Look, rows, ToldInv, Datum1
<1>3. ASSUME NEW w \in Worker, Insert(w) PROVE ToldInv'
    <2>1. PICK v : /\ v.type = Reading(w).type /\ v.what = Told(w) /\ v.id = Id(w)
                   /\ versions' \subseteq versions \cup {v}
        BY <1>3 DEF Insert
    <2>2. v.type = Datum1(v.id).type /\ v.what = Decode(Datum1(v.id).value)
        BY <2>1 DEF Datum1, Id, Reading, Told
    <2>3. content' = content
        BY <1>3 DEF Insert
    <2> QED
        BY <1>0, <2>1, <2>2, <2>3 DEF ToldInv, Datum1
<1>4. ASSUME NEW w \in Worker, Update(w) PROVE ToldInv'
    BY <1>4, <1>0 DEF Update, rows, ToldInv, Datum1
<1>5. ASSUME NEW w \in Worker, Drop(w) PROVE ToldInv'
    BY <1>5, <1>0 DEF Drop, rows, ToldInv, Datum1
<1>6. ASSUME NEW w \in Worker, Pick(w) PROVE ToldInv'
    BY <1>6, <1>0 DEF Pick, rows, ToldInv, Datum1
<1>7. ASSUME NEW w \in Worker, Assume(w) PROVE ToldInv'
    BY <1>7, <1>0 DEF Assume, rows, ToldInv, Datum1
<1>8. ASSUME NEW w \in Worker, Confirm(w) PROVE ToldInv'
    BY <1>8, <1>0 DEF Confirm, rows, ToldInv, Datum1
<1>9. ASSUME NEW w \in Worker, Create(w) PROVE ToldInv'
    BY <1>9, <1>0 DEF Create, rows, ToldInv, Datum1
<1>10. ASSUME NEW w \in Worker, Finish(w) PROVE ToldInv'
    BY <1>10, <1>0 DEF Finish, rows, ToldInv, Datum1
<1>11. ASSUME NEW w \in Worker, Fail(w) PROVE ToldInv'
    BY <1>11, <1>0 DEF Fail, Abandon, rows, ToldInv, Datum1
<1>12. ASSUME NEW w \in Worker, Refused(w) PROVE ToldInv'
    BY <1>12, <1>0 DEF Refused, Abandon, rows, ToldInv, Datum1
<1>13. ASSUME NEW r \in Report, Redeliver(r) PROVE ToldInv'
    BY <1>13, <1>0 DEF Redeliver, rows, ToldInv, Datum1
<1>14. ASSUME NEW d \in Request, NEW covers \in BOOLEAN, AddRequest(d, covers) PROVE ToldInv'
    BY <1>14, <1>0 DEF AddRequest, rows, ToldInv, Datum1
<1>15. ASSUME NEW d \in Request, DeleteRequest(d) PROVE ToldInv'
    BY <1>15, <1>0 DEF DeleteRequest, rows, ToldInv, Datum1
<1>16. ASSUME NEW k \in Action, DeleteAction(k) PROVE ToldInv'
    BY <1>16, <1>0 DEF DeleteAction, rows, ToldInv, Datum1
<1>17. ASSUME NEW k \in Action, NEW d \in Request, NEW success \in BOOLEAN,
             Post(k, d, success) PROVE ToldInv'
    BY <1>17, <1>0 DEF Post, rows, ToldInv, Datum1
<1>18. ASSUME NEW f \in Form, NEW d \in Request, NEW what \in RequestForm,
             OpenRequest(f, what, d) PROVE ToldInv'
    BY <1>18, <1>0 DEF OpenRequest, Open, rows, ToldInv, Datum1
<1>19. ASSUME NEW f \in Form, NEW k \in Action, OpenAction(f, k) PROVE ToldInv'
    BY <1>19, <1>0 DEF OpenAction, Open, rows, ToldInv, Datum1
<1>20. ASSUME NEW f \in Form, OpenDevice(f) PROVE ToldInv'
    BY <1>20, <1>0 DEF OpenDevice, Open, rows, ToldInv, Datum1
<1>21. ASSUME NEW f \in Form, SaveRequest(f) PROVE ToldInv'
    BY <1>21, <1>0 DEF SaveRequest, rows, ToldInv, Datum1
<1>22. ASSUME NEW f \in Form, SaveAction(f) PROVE ToldInv'
    BY <1>22, <1>0 DEF SaveAction, rows, ToldInv, Datum1
<1>23. ASSUME NEW f \in Form, SavePatch(f) PROVE ToldInv'
    BY <1>23, <1>0 DEF SavePatch, rows, ToldInv, Datum1
<1>24. CASE UNCHANGED vars
    BY <1>24, <1>0 DEF vars, rows, ToldInv, Datum1
<1> QED
    BY <1>1, <1>2, <1>3, <1>4, <1>5, <1>6, <1>7, <1>8, <1>9, <1>10, <1>11, <1>12,
       <1>13, <1>14, <1>15, <1>16, <1>17, <1>18, <1>19, <1>20, <1>21, <1>22,
       <1>23, <1>24 DEF Next

\* A reading is recorded once, and settled once.
LEMMA OnceStep == IInv /\ [Next]_vars => OnceInv'
<1> SUFFICES ASSUME IInv, [Next]_vars PROVE OnceInv'
    OBVIOUS
<1>0. TypeOK /\ OnceInv /\ ToldInv /\ Tables /\ Histories /\ Workers /\ Forms
    BY TypeParts DEF IInv
<1>1. ASSUME NEW w \in Worker, NEW r \in Report, Begin(w, r) PROVE OnceInv'
    <2>0. [Idle EXCEPT !.at = "read", !.report = r, !.copy = device].at = "read"
        BY IdleType DEF Job
    <2>1. PICK j : Become(w, j) /\ j.at = "read"
        BY <1>1, <2>0 DEF Begin
    <2> QED
        BY <1>1, <1>0, <2>1, OnceLeave DEF Begin, rows, Past
<1>2. ASSUME NEW w \in Worker, Look(w) PROVE OnceInv'
    <2>1. \E j : Become(w, j) /\ j.at \in {"read", "insert"}
        BY <1>2, <1>0, Moves, Skipped, Went
    <2> QED
        BY <1>2, <1>0, <2>1, OnceLeave DEF Look, rows, Past
<1>3. ASSUME NEW w \in Worker, Insert(w) PROVE OnceInv'
    <2>1. CASE Skip(w)
        BY <1>3, <1>0, <2>1, Skipped, OnceLeave DEF Insert, Past
    <2>2. CASE ~Skip(w)
        <3>1. PICK v : /\ v.type = Reading(w).type /\ v.what = Told(w) /\ v.id = Id(w)
                       /\ Inserted(v) /\ versions' = versions \cup {v} /\ Goto(w, "update")
            BY <1>3, <2>2 DEF Insert
        <3>2. PICK j : Become(w, j) /\ j.at = "update" /\ SameReading(j, worker[w])
            BY <1>0, <3>1, Went DEF SameReading
        <3>3. worker'[w] = j /\ \A u \in Worker \ {w} : worker'[u] = worker[u]
            BY <1>0, <3>2, Moved
        <3>4. \A u \in Worker : Id(u)' = Id(u)
            BY <3>2, <3>3 DEF Id, SameReading
        <3>5. ~Recorded(Id(w)) /\ Id(w) \in Ids
            BY <1>3, <1>0, <3>1, InsertedNew, Busy DEF Insert
        <3>6. settled' = settled /\ settled[Id(w)] = 0
            BY <1>3, <1>0, <3>5 DEF Insert, OnceInv, Histories
        <3>7. Recorded(Id(w))' /\ \A x : Recorded(x) => Recorded(x)'
            BY <3>1, <3>4 DEF Recorded
        <3>8. \A u \in Worker \ {w} : worker[u].at \in Past => Id(u) # Id(w)
            BY <1>0, <3>5 DEF OnceInv
        <3> QED
            BY <1>0, <3>3, <3>4, <3>6, <3>7, <3>8 DEF OnceInv
    <2> QED
        BY <2>1, <2>2
<1>4. ASSUME NEW w \in Worker, Update(w) PROVE OnceInv'
    <2>1. PICK j : Become(w, j) /\ SameReading(j, worker[w])
        BY <1>4, <1>0, UpdateMove
    <2> QED
        BY <1>4, <1>0, <2>1, OnceStay DEF Update, Past
<1>5. ASSUME NEW w \in Worker, Drop(w) PROVE OnceInv'
    <2>1. Become(w, Idle) /\ settled' = settled /\ versions' = versions
        BY <1>5 DEF Drop, rows
    <2> QED
        BY <1>0, <2>1, IdleType, OnceLeave DEF Past
<1>6. ASSUME NEW w \in Worker, Pick(w) PROVE OnceInv'
    <2>1. PICK j : Become(w, j) /\ SameReading(j, worker[w])
        BY <1>6, <1>0, Moves
    <2> QED
        BY <1>6, <1>0, <2>1, OnceStay DEF Pick, rows, Past
<1>7. ASSUME NEW w \in Worker, Assume(w) PROVE OnceInv'
    <2>1. CASE Skip(w)
        BY <1>7, <1>0, <2>1, Skipped, OnceLeave DEF Assume, rows, Past
    <2>2. CASE ~Skip(w)
        <3>1. PICK j : Become(w, j) /\ SameReading(j, worker[w])
            BY <1>7, <1>0, <2>2, Moves
        <3> QED
            BY <1>7, <1>0, <3>1, OnceStay DEF Assume, rows, Past
    <2> QED
        BY <2>1, <2>2
<1>8. ASSUME NEW w \in Worker, Confirm(w) PROVE OnceInv'
    <2>1. \E j : Become(w, j) /\ j.at \notin Past
        BY <1>8, <1>0, Skipped DEF Confirm, Past
    <2> QED
        BY <1>8, <1>0, <2>1, OnceSettle DEF Confirm, Past
<1>9. ASSUME NEW w \in Worker, Create(w) PROVE OnceInv'
    <2>1. PICK j : Become(w, j) /\ j.at \notin Past
        BY <1>9, <1>0, Skipped DEF Create, Past
    <2>2. CASE Settle(w)
        BY <1>9, <1>0, <2>1, <2>2, OnceSettle DEF Create, Past
    <2>3. CASE ~Settle(w)
        <3>1. settled' = settled /\ versions' = versions
            BY <1>9, <2>3 DEF Create
        <3> QED
            BY <1>0, <2>1, <3>1, OnceLeave
    <2> QED
        BY <2>2, <2>3
<1>10. ASSUME NEW w \in Worker, Finish(w) PROVE OnceInv'
    <2>1. Become(w, Idle) /\ settled' = settled /\ versions' = versions
        BY <1>10 DEF Finish, rows
    <2> QED
        BY <1>0, <2>1, IdleType, OnceLeave DEF Past
<1>11. ASSUME NEW w \in Worker, Fail(w) PROVE OnceInv'
    <2>1. Become(w, Idle) /\ settled' = settled /\ versions' = versions
        BY <1>11 DEF Fail, Abandon, rows
    <2> QED
        BY <1>0, <2>1, IdleType, OnceLeave DEF Past
<1>12. ASSUME NEW w \in Worker, Refused(w) PROVE OnceInv'
    <2>1. Become(w, Idle) /\ settled' = settled /\ versions' = versions
        BY <1>12 DEF Refused, Abandon, rows
    <2> QED
        BY <1>0, <2>1, IdleType, OnceLeave DEF Past
<1>13. ASSUME NEW r \in Report, Redeliver(r) PROVE OnceInv'
    BY <1>13, <1>0, OnceKept DEF Redeliver, rows
<1>14. ASSUME NEW d \in Request, NEW covers \in BOOLEAN, AddRequest(d, covers) PROVE OnceInv'
    BY <1>14, <1>0, OnceKept DEF AddRequest, rows
<1>15. ASSUME NEW d \in Request, DeleteRequest(d) PROVE OnceInv'
    BY <1>15, <1>0, OnceKept DEF DeleteRequest, rows
<1>16. ASSUME NEW k \in Action, DeleteAction(k) PROVE OnceInv'
    BY <1>16, <1>0, OnceKept DEF DeleteAction, rows
<1>17. ASSUME NEW k \in Action, NEW d \in Request, NEW success \in BOOLEAN,
             Post(k, d, success) PROVE OnceInv'
    BY <1>17, <1>0, OnceKept DEF Post, rows
<1>18. ASSUME NEW f \in Form, NEW d \in Request, NEW what \in RequestForm,
             OpenRequest(f, what, d) PROVE OnceInv'
    BY <1>18, <1>0, OnceKept DEF OpenRequest, Open, rows
<1>19. ASSUME NEW f \in Form, NEW k \in Action, OpenAction(f, k) PROVE OnceInv'
    BY <1>19, <1>0, OnceKept DEF OpenAction, Open, rows
<1>20. ASSUME NEW f \in Form, OpenDevice(f) PROVE OnceInv'
    BY <1>20, <1>0, OnceKept DEF OpenDevice, Open, rows
<1>21. ASSUME NEW f \in Form, SaveRequest(f) PROVE OnceInv'
    BY <1>21, <1>0, OnceKept DEF SaveRequest, rows
<1>22. ASSUME NEW f \in Form, SaveAction(f) PROVE OnceInv'
    BY <1>22, <1>0, OnceKept DEF SaveAction, rows
<1>23. ASSUME NEW f \in Form, SavePatch(f) PROVE OnceInv'
    BY <1>23, <1>0, OnceKept DEF SavePatch, rows
<1>24. CASE UNCHANGED vars
    BY <1>24, <1>0, OnceKept DEF vars, rows
<1> QED
    BY <1>1, <1>2, <1>3, <1>4, <1>5, <1>6, <1>7, <1>8, <1>9, <1>10, <1>11, <1>12,
       <1>13, <1>14, <1>15, <1>16, <1>17, <1>18, <1>19, <1>20, <1>21, <1>22,
       <1>23, <1>24 DEF Next

LEMMA FreshKept ==
    ASSUME FreshInv, UNCHANGED <<worker, form, device, behind>>
    PROVE  FreshInv'
BY DEF FreshInv

LEMMA FreshMove ==
    ASSUME FreshInv, Workers, NEW w \in Worker, NEW j, Become(w, j),
           j.at # "idle" => worker[w].at # "idle" /\ j.copy = worker[w].copy,
           UNCHANGED <<form, device, behind>>
    PROVE  FreshInv'
<1>1. worker'[w] = j /\ \A u \in Worker \ {w} : worker'[u] = worker[u]
    BY Moved
<1> QED
    BY <1>1 DEF FreshInv

LEMMA FreshForm ==
    ASSUME FreshInv, Forms, NEW f \in Form, NEW x, x.at # "device",
           form' = [form EXCEPT ![f] = x], UNCHANGED <<worker, device, behind>>
    PROVE  FreshInv'
BY DEF FreshInv, Forms

\* Holder h saves a row whose columns but c are those of its copy: no column of
\* another copy changes without the history knowing.
LEMMA SaveFresh ==
    ASSUME Histories, NEW h \in Holder, NEW row, NEW c, NEW copy, SaveDevice(h, row, c),
           \A d \in Column \ {c} : row[d] = copy[d],
           \A d \in Column \ behind[h] : copy[d] = device[d]
    PROVE  /\ behind'[h] = {} /\ device' = row
           /\ \A g \in Holder \ {h} :
                /\ behind[g] \cup {c} \subseteq behind'[g]
                /\ \A d \in Column \ behind'[g] : device'[d] = device[d]
           /\ \A d \in Column : d \notin lost' /\ d # c => d \notin lost /\ device'[d] = device[d]
<1>1. /\ behind'[h] = {}
      /\ \A g \in Holder \ {h} : behind'[g] = behind[g] \cup {c} \cup behind[h]
    BY DEF SaveDevice
<1>2. device' = row /\ lost' = (lost \ {c}) \cup behind[h]
    BY DEF SaveDevice
<1>3. \A d \in Column : d # c /\ d \notin behind[h] => row[d] = device[d]
    OBVIOUS
<1> QED
    BY <1>1, <1>2, <1>3

\* The copies stay current in the columns that are not behind.
LEMMA FreshStep == IInv /\ [Next]_vars => FreshInv'
<1> SUFFICES ASSUME IInv, [Next]_vars PROVE FreshInv'
    OBVIOUS
<1>0. TypeOK /\ FreshInv /\ Tables /\ Histories /\ Workers /\ Forms
    BY TypeParts DEF IInv
<1>1. ASSUME NEW w \in Worker, NEW r \in Report, Begin(w, r) PROVE FreshInv'
    <2>1. /\ worker'[w].copy = device /\ behind'[w] = {} /\ device' = device /\ form' = form
          /\ \A u \in Worker \ {w} : worker'[u] = worker[u] /\ behind'[u] = behind[u]
          /\ \A f \in Form : behind'[f] = behind[f]
        BY <1>1, <1>0, OtaAssumption DEF Begin, Become, Idle, ReadDevice, Workers, Histories, Holder, rows
    <2> QED
        BY <1>0, <2>1 DEF FreshInv
<1>2. ASSUME NEW w \in Worker, Look(w) PROVE FreshInv'
    <2>1. PICK j : Become(w, j) /\ j.copy = worker[w].copy
        BY <1>2, <1>0, Moves, Skipped, Went
    <2> QED
        BY <1>2, <1>0, <2>1, FreshMove DEF Look, rows, excuses
<1>3. ASSUME NEW w \in Worker, Insert(w) PROVE FreshInv'
    <2>1. PICK j : Become(w, j) /\ j.copy = worker[w].copy
        BY <1>3, <1>0, Skipped, Went DEF Insert
    <2> QED
        BY <1>3, <1>0, <2>1, FreshMove DEF Insert
<1>4. ASSUME NEW w \in Worker, Update(w) PROVE FreshInv'
    <2>1. PICK j, row :
             /\ Become(w, j) /\ j.copy = row /\ SaveDevice(w, row, Reading(w).type)
             /\ \A c \in Column \ {Reading(w).type} : row[c] = worker[w].copy[c]
        BY <1>4, <1>0, UpdateMove
    <2>2. worker'[w] = j /\ \A u \in Worker \ {w} : worker'[u] = worker[u]
        BY <1>0, <2>1, Moved
    <2>3. w \in Holder /\ \A c \in Column \ behind[w] : worker[w].copy[c] = device[c]
        BY <1>4, <1>0 DEF Update, FreshInv, Holder
    <2>4. /\ device' = row
          /\ \A g \in Holder \ {w} :
                /\ behind[g] \subseteq behind'[g]
                /\ \A d \in Column \ behind'[g] : device'[d] = device[d]
        BY <1>0, <2>1, <2>3, SaveFresh
    <2>5. form' = form
        BY <1>4 DEF Update
    <2>6. Worker \subseteq Holder /\ Form \subseteq Holder \ {w}
        BY OtaAssumption DEF Holder
    <2>7. \A u \in Worker : worker'[u].at # "idle" =>
             \A c \in Column \ behind'[u] : worker'[u].copy[c] = device'[c]
        BY <1>0, <2>1, <2>2, <2>4, <2>6 DEF FreshInv
    <2>8. \A f \in Form : form'[f].at = "device" =>
             \A c \in Column \ behind'[f] : form'[f].row[c] = device'[c]
        BY <1>0, <2>4, <2>5, <2>6 DEF FreshInv
    <2> QED
        BY <2>7, <2>8 DEF FreshInv
<1>5. ASSUME NEW w \in Worker, Drop(w) PROVE FreshInv'
    <2>1. Become(w, Idle) /\ UNCHANGED <<form, device, behind>>
        BY <1>5 DEF Drop, rows, excuses
    <2> QED
        BY <1>0, <2>1, IdleType, FreshMove
<1>6. ASSUME NEW w \in Worker, Pick(w) PROVE FreshInv'
    <2>1. PICK j : Become(w, j) /\ j.copy = worker[w].copy
        BY <1>6, <1>0, Moves
    <2> QED
        BY <1>6, <1>0, <2>1, FreshMove DEF Pick, rows, excuses
<1>7. ASSUME NEW w \in Worker, Assume(w) PROVE FreshInv'
    <2>1. PICK j : Become(w, j) /\ j.copy = worker[w].copy
        BY <1>7, <1>0, Moves, Skipped
    <2> QED
        BY <1>7, <1>0, <2>1, FreshMove DEF Assume, rows, excuses
<1>8. ASSUME NEW w \in Worker, Confirm(w) PROVE FreshInv'
    <2>1. PICK j : Become(w, j) /\ j.copy = worker[w].copy
        BY <1>8, <1>0, Skipped DEF Confirm
    <2> QED
        BY <1>8, <1>0, <2>1, FreshMove DEF Confirm, excuses
<1>9. ASSUME NEW w \in Worker, Create(w) PROVE FreshInv'
    <2>1. PICK j : Become(w, j) /\ j.copy = worker[w].copy
        BY <1>9, <1>0, Skipped DEF Create
    <2> QED
        BY <1>9, <1>0, <2>1, FreshMove DEF Create, excuses
<1>10. ASSUME NEW w \in Worker, Finish(w) PROVE FreshInv'
    <2>1. Become(w, Idle) /\ UNCHANGED <<form, device, behind>>
        BY <1>10 DEF Finish, rows, excuses
    <2> QED
        BY <1>0, <2>1, IdleType, FreshMove
<1>11. ASSUME NEW w \in Worker, Fail(w) PROVE FreshInv'
    <2>1. Become(w, Idle) /\ UNCHANGED <<form, device, behind>>
        BY <1>11 DEF Fail, Abandon, rows, excuses
    <2> QED
        BY <1>0, <2>1, IdleType, FreshMove
<1>12. ASSUME NEW w \in Worker, Refused(w) PROVE FreshInv'
    <2>1. Become(w, Idle) /\ UNCHANGED <<form, device, behind>>
        BY <1>12 DEF Refused, Abandon, rows, excuses
    <2> QED
        BY <1>0, <2>1, IdleType, FreshMove
<1>13. ASSUME NEW r \in Report, Redeliver(r) PROVE FreshInv'
    BY <1>13, <1>0, FreshKept DEF Redeliver, rows, excuses
<1>14. ASSUME NEW d \in Request, NEW covers \in BOOLEAN, AddRequest(d, covers) PROVE FreshInv'
    BY <1>14, <1>0, FreshKept DEF AddRequest, rows, excuses
<1>15. ASSUME NEW d \in Request, DeleteRequest(d) PROVE FreshInv'
    BY <1>15, <1>0, FreshKept DEF DeleteRequest, rows, excuses
<1>16. ASSUME NEW k \in Action, DeleteAction(k) PROVE FreshInv'
    BY <1>16, <1>0, FreshKept DEF DeleteAction, rows, excuses
<1>17. ASSUME NEW k \in Action, NEW d \in Request, NEW success \in BOOLEAN,
             Post(k, d, success) PROVE FreshInv'
    BY <1>17, <1>0, FreshKept DEF Post, rows, excuses
<1>18. ASSUME NEW f \in Form, NEW d \in Request, NEW what \in RequestForm,
             OpenRequest(f, what, d) PROVE FreshInv'
    <2>1. PICK x : x.at # "device" /\ form' = [form EXCEPT ![f] = x]
        BY <1>18 DEF OpenRequest, Open, RequestForm
    <2> QED
        BY <1>18, <1>0, <2>1, FreshForm DEF OpenRequest, Open, rows
<1>19. ASSUME NEW f \in Form, NEW k \in Action, OpenAction(f, k) PROVE FreshInv'
    <2>1. PICK x : x.at # "device" /\ form' = [form EXCEPT ![f] = x]
        BY <1>19 DEF OpenAction, Open
    <2> QED
        BY <1>19, <1>0, <2>1, FreshForm DEF OpenAction, Open, rows
<1>20. ASSUME NEW f \in Form, OpenDevice(f) PROVE FreshInv'
    <2>1. /\ form'[f].row = device /\ behind'[f] = {} /\ device' = device /\ worker' = worker
          /\ \A g \in Form \ {f} : form'[g] = form[g] /\ behind'[g] = behind[g]
          /\ \A u \in Worker : behind'[u] = behind[u]
        BY <1>20, <1>0, OtaAssumption DEF OpenDevice, Open, ReadDevice, Forms, Histories, Holder, rows
    <2> QED
        BY <1>0, <2>1 DEF FreshInv
<1>21. ASSUME NEW f \in Form, SaveRequest(f) PROVE FreshInv'
    <2>1. form' = [form EXCEPT ![f] = Closed] /\ UNCHANGED <<worker, device, behind>>
        BY <1>21 DEF SaveRequest, Close, excuses
    <2> QED
        BY <1>0, <2>1, ClosedType, FreshForm
<1>22. ASSUME NEW f \in Form, SaveAction(f) PROVE FreshInv'
    <2>1. form' = [form EXCEPT ![f] = Closed] /\ UNCHANGED <<worker, device, behind>>
        BY <1>22 DEF SaveAction, Close, excuses
    <2> QED
        BY <1>0, <2>1, ClosedType, FreshForm
<1>23. ASSUME NEW f \in Form, SavePatch(f) PROVE FreshInv'
    <2>1. PICK row : /\ SaveDevice(f, row, "rest") /\ row.rest = TRUE
                     /\ \A c \in Column \ {"rest"} : row[c] = form[f].row[c]
        <3> DEFINE row == [form[f].row EXCEPT !.rest = TRUE]
        <3>1. form[f].row \in DeviceRow
            BY <1>23, <1>0 DEF SavePatch, Forms, SheetOK
        <3>2. row.rest = TRUE /\ \A c \in Column \ {"rest"} : row[c] = form[f].row[c]
            BY <3>1 DEF DeviceRow, Column, Part
        <3>3. SaveDevice(f, row, "rest")
            BY <1>23 DEF SavePatch
        <3> QED
            BY <3>2, <3>3
    <2>3. f \in Holder /\ \A c \in Column \ behind[f] : form[f].row[c] = device[c]
        BY <1>23, <1>0 DEF SavePatch, FreshInv, Holder
    <2>4. \A g \in Holder \ {f} :
             /\ behind[g] \subseteq behind'[g]
             /\ \A d \in Column \ behind'[g] : device'[d] = device[d]
        BY <1>0, <2>1, <2>3, SaveFresh
    <2>5. worker' = worker /\ form' = [form EXCEPT ![f] = Closed]
        BY <1>23 DEF SavePatch, Close
    <2>6. Worker \subseteq Holder \ {f} /\ Form \subseteq Holder
        BY OtaAssumption DEF Holder
    <2>7. \A u \in Worker : worker'[u].at # "idle" =>
             \A c \in Column \ behind'[u] : worker'[u].copy[c] = device'[c]
        BY <1>0, <2>4, <2>5, <2>6 DEF FreshInv
    <2>8. \A g \in Form : form'[g].at = "device" => g # f /\ form'[g] = form[g]
        BY <1>0, <2>5, ClosedType DEF Forms
    <2>9. \A g \in Form : form'[g].at = "device" =>
             \A c \in Column \ behind'[g] : form'[g].row[c] = device'[c]
        BY <1>0, <2>4, <2>6, <2>8 DEF FreshInv
    <2> QED
        BY <2>7, <2>9 DEF FreshInv
<1>24. CASE UNCHANGED vars
    BY <1>24, <1>0, FreshKept DEF vars, rows, excuses
<1> QED
    BY <1>1, <1>2, <1>3, <1>4, <1>5, <1>6, <1>7, <1>8, <1>9, <1>10, <1>11, <1>12,
       <1>13, <1>14, <1>15, <1>16, <1>17, <1>18, <1>19, <1>20, <1>21, <1>22,
       <1>23, <1>24 DEF Next

\* Edits of the rest are kept.
LEMMA RestStep == IInv /\ [Next]_vars => RestInv'
<1> SUFFICES ASSUME IInv, [Next]_vars PROVE RestInv'
    OBVIOUS
<1>0. TypeOK /\ RestInv /\ FreshInv /\ Tables /\ Histories /\ Workers /\ Forms
    BY TypeParts DEF IInv
<1>1. ASSUME NEW w \in Worker, NEW r \in Report, Begin(w, r) PROVE RestInv'
    BY <1>1, <1>0 DEF Begin, rows, excuses, RestInv
<1>2. ASSUME NEW w \in Worker, Look(w) PROVE RestInv'
    BY <1>2, <1>0 DEF Look, rows, excuses, RestInv
<1>3. ASSUME NEW w \in Worker, Insert(w) PROVE RestInv'
    BY <1>3, <1>0 DEF Insert, rows, excuses, RestInv
<1>4. ASSUME NEW w \in Worker, Update(w) PROVE RestInv'
    <2>1. PICK j, row :
             /\ SaveDevice(w, row, Reading(w).type)
             /\ \A c \in Column \ {Reading(w).type} : row[c] = worker[w].copy[c]
        BY <1>4, <1>0, UpdateMove
    <2>2. Reading(w).type # "rest" /\ "rest" \in Column
        BY <1>4, <1>0, Busy DEF Update, Datum, Part, Column
    <2>3. w \in Holder /\ \A c \in Column \ behind[w] : worker[w].copy[c] = device[c]
        BY <1>4, <1>0 DEF Update, FreshInv, Holder
    <2>4. "rest" \notin lost' => "rest" \notin lost /\ device'["rest"] = device["rest"]
        BY <1>0, <2>1, <2>2, <2>3, SaveFresh
    <2>5. patched' = patched
        BY <1>4 DEF Update
    <2> QED
        BY <1>0, <2>4, <2>5 DEF RestInv
<1>5. ASSUME NEW w \in Worker, Drop(w) PROVE RestInv'
    BY <1>5, <1>0 DEF Drop, rows, excuses, RestInv
<1>6. ASSUME NEW w \in Worker, Pick(w) PROVE RestInv'
    BY <1>6, <1>0 DEF Pick, rows, excuses, RestInv
<1>7. ASSUME NEW w \in Worker, Assume(w) PROVE RestInv'
    BY <1>7, <1>0 DEF Assume, rows, excuses, RestInv
<1>8. ASSUME NEW w \in Worker, Confirm(w) PROVE RestInv'
    BY <1>8, <1>0 DEF Confirm, rows, excuses, RestInv
<1>9. ASSUME NEW w \in Worker, Create(w) PROVE RestInv'
    BY <1>9, <1>0 DEF Create, rows, excuses, RestInv
<1>10. ASSUME NEW w \in Worker, Finish(w) PROVE RestInv'
    BY <1>10, <1>0 DEF Finish, rows, excuses, RestInv
<1>11. ASSUME NEW w \in Worker, Fail(w) PROVE RestInv'
    BY <1>11, <1>0 DEF Fail, Abandon, rows, excuses, RestInv
<1>12. ASSUME NEW w \in Worker, Refused(w) PROVE RestInv'
    BY <1>12, <1>0 DEF Refused, Abandon, rows, excuses, RestInv
<1>13. ASSUME NEW r \in Report, Redeliver(r) PROVE RestInv'
    BY <1>13, <1>0 DEF Redeliver, rows, excuses, RestInv
<1>14. ASSUME NEW d \in Request, NEW covers \in BOOLEAN, AddRequest(d, covers) PROVE RestInv'
    BY <1>14, <1>0 DEF AddRequest, rows, excuses, RestInv
<1>15. ASSUME NEW d \in Request, DeleteRequest(d) PROVE RestInv'
    BY <1>15, <1>0 DEF DeleteRequest, rows, excuses, RestInv
<1>16. ASSUME NEW k \in Action, DeleteAction(k) PROVE RestInv'
    BY <1>16, <1>0 DEF DeleteAction, rows, excuses, RestInv
<1>17. ASSUME NEW k \in Action, NEW d \in Request, NEW success \in BOOLEAN,
             Post(k, d, success) PROVE RestInv'
    BY <1>17, <1>0 DEF Post, rows, excuses, RestInv
<1>18. ASSUME NEW f \in Form, NEW d \in Request, NEW what \in RequestForm,
             OpenRequest(f, what, d) PROVE RestInv'
    BY <1>18, <1>0 DEF OpenRequest, Open, rows, excuses, RestInv
<1>19. ASSUME NEW f \in Form, NEW k \in Action, OpenAction(f, k) PROVE RestInv'
    BY <1>19, <1>0 DEF OpenAction, Open, rows, excuses, RestInv
<1>20. ASSUME NEW f \in Form, OpenDevice(f) PROVE RestInv'
    BY <1>20, <1>0 DEF OpenDevice, Open, rows, excuses, RestInv
<1>21. ASSUME NEW f \in Form, SaveRequest(f) PROVE RestInv'
    BY <1>21, <1>0 DEF SaveRequest, rows, excuses, RestInv
<1>22. ASSUME NEW f \in Form, SaveAction(f) PROVE RestInv'
    BY <1>22, <1>0 DEF SaveAction, rows, excuses, RestInv
<1>23. ASSUME NEW f \in Form, SavePatch(f) PROVE RestInv'
    <2>1. PICK row : /\ SaveDevice(f, row, "rest") /\ row.rest = TRUE
                     /\ \A c \in Column \ {"rest"} : row[c] = form[f].row[c]
        <3> DEFINE row == [form[f].row EXCEPT !.rest = TRUE]
        <3>1. form[f].row \in DeviceRow
            BY <1>23, <1>0 DEF SavePatch, Forms, SheetOK
        <3>2. row.rest = TRUE /\ \A c \in Column \ {"rest"} : row[c] = form[f].row[c]
            BY <3>1 DEF DeviceRow, Column, Part
        <3>3. SaveDevice(f, row, "rest")
            BY <1>23 DEF SavePatch
        <3> QED
            BY <3>2, <3>3
    <2>3. f \in Holder /\ \A c \in Column \ behind[f] : form[f].row[c] = device[c]
        BY <1>23, <1>0 DEF SavePatch, FreshInv, Holder
    <2>4. device' = row
        BY <2>1 DEF SaveDevice
    <2> QED
        BY <2>1, <2>4 DEF RestInv
<1>24. CASE UNCHANGED vars
    BY <1>24, <1>0 DEF vars, rows, excuses, RestInv
<1> QED
    BY <1>1, <1>2, <1>3, <1>4, <1>5, <1>6, <1>7, <1>8, <1>9, <1>10, <1>11, <1>12,
       <1>13, <1>14, <1>15, <1>16, <1>17, <1>18, <1>19, <1>20, <1>21, <1>22,
       <1>23, <1>24 DEF Next

\* Steps that neither add a version nor save the device.
LEMMA FollowKept ==
    ASSUME FollowInv, Workers, UNCHANGED <<content, versions, device, lost, late>>,
           cut \subseteq cut',
           \A u \in Worker : worker'[u].at = "update" <=> worker[u].at = "update",
           \A u \in Worker : worker[u].at = "update" =>
             worker'[u] = worker[u] /\ behind[u] \subseteq behind'[u]
    PROVE  FollowInv'
<1>1. \A t : Newest(t)' = Newest(t) /\ \A v : Serves(t, v)' = Serves(t, v)
    BY DEF Newest, Rows, Serves
<1>2. \A x : Pending(x) => Pending(x)'
    BY DEF Pending, Id
<1>3. \A t, v : Saved(t, v) => Saved(t, v)'
    BY <1>1 DEF Saved, Reading
<1> QED
    BY <1>1, <1>2, <1>3 DEF FollowInv

LEMMA FollowForm ==
    ASSUME FollowInv, Workers, UNCHANGED <<worker, content, versions, device, lost, late>>,
           cut \subseteq cut', \A u \in Worker : behind[u] \subseteq behind'[u]
    PROVE  FollowInv'
BY FollowKept

LEMMA FollowMove ==
    ASSUME FollowInv, Workers, UNCHANGED <<content, versions, device, lost, late>>,
           cut \subseteq cut',
           NEW w \in Worker, worker[w].at # "update", NEW j, j.at # "update", Become(w, j),
           \A u \in Worker \ {w} : behind[u] \subseteq behind'[u]
    PROVE  FollowInv'
<1>1. worker'[w] = j /\ \A u \in Worker \ {w} : worker'[u] = worker[u]
    BY Moved
<1> QED
    BY <1>1, FollowKept

\* The update of a version is cut off.
LEMMA FollowCut ==
    ASSUME FollowInv, Workers, UNCHANGED <<content, versions, device, lost, late, behind>>,
           NEW w \in Worker, Become(w, Idle),
           cut' = IF worker[w].at = "update" THEN cut \cup {Id(w)} ELSE cut
    PROVE  FollowInv'
<1>0. worker'[w] = Idle /\ \A u \in Worker \ {w} : worker'[u] = worker[u]
    BY Moved
<1>1. \A t : Newest(t)' = Newest(t) /\ \A v : Serves(t, v)' = Serves(t, v)
    BY DEF Newest, Rows, Serves
<1>2. \A x : Pending(x) => Pending(x)' \/ x \in cut'
    BY <1>0 DEF Pending, Id
<1>3. \A t, v : Saved(t, v) => Saved(t, v)'
    BY <1>0, <1>1, IdleType DEF Saved, Reading
<1> QED
    BY <1>1, <1>2, <1>3 DEF FollowInv

\* The last version of a part gets into the row.
LEMMA FollowStep == IInv /\ [Next]_vars => FollowInv'
<1> SUFFICES ASSUME IInv, [Next]_vars PROVE FollowInv'
    OBVIOUS
<1>0. TypeOK /\ FollowInv /\ FreshInv /\ ToldInv /\ Tables /\ Histories /\ Workers /\ Forms
    BY TypeParts DEF IInv
<1>1. ASSUME NEW w \in Worker, NEW r \in Report, Begin(w, r) PROVE FollowInv'
    <2>0. [Idle EXCEPT !.at = "read", !.report = r, !.copy = device].at = "read"
        BY IdleType DEF Job
    <2>1. PICK j : Become(w, j) /\ j.at = "read"
        BY <1>1, <2>0 DEF Begin
    <2>2. \A u \in Worker \ {w} : behind'[u] = behind[u]
        BY <1>1, <1>0 DEF Begin, ReadDevice, Histories, Holder
    <2>3. UNCHANGED <<content, versions, device, lost, late, cut>> /\ worker[w].at # "update"
        BY <1>1 DEF Begin, rows
    <2> QED
        BY <1>0, <2>1, <2>2, <2>3, FollowMove
<1>2. ASSUME NEW w \in Worker, Look(w) PROVE FollowInv'
    <2>1. PICK j : Become(w, j) /\ j.at # "update"
        BY <1>2, <1>0, Moves, Skipped, Went
    <2> QED
        BY <1>2, <1>0, <2>1, FollowMove DEF Look, rows, excuses
<1>3. ASSUME NEW w \in Worker, Insert(w) PROVE FollowInv'
    <2>1. CASE Skip(w)
        <3>1. PICK j : Become(w, j) /\ j.at # "update"
            BY <1>0, <2>1, Skipped
        <3>2. versions' = versions /\ late' = late
            <4>1. ~Goto(w, "update")
                BY <1>0, <2>1, <3>1, Skipped, Went, Moved
            <4> QED
                BY <1>3, <4>1 DEF Insert
        <3> QED
            BY <1>3, <1>0, <3>1, <3>2, FollowMove DEF Insert
    <2>2. CASE ~Skip(w)
        <3> DEFINE x == Reading(w)
                   v == [type |-> x.type, what |-> Told(w), id |-> Id(w), at |-> x.at]
        <3>0. /\ versions' = versions \cup {v} /\ Goto(w, "update")
              /\ late' = IF \A u \in Rows(x.type) : u.at < x.at
                         THEN late \ {x.type} ELSE late \cup {x.type}
              /\ UNCHANGED <<content, device, lost, cut, behind>>
            BY <1>3, <2>2 DEF Insert
        <3>1. PICK j : Become(w, j) /\ j.at = "update" /\ SameReading(j, worker[w])
            BY <1>0, <3>0, Went DEF SameReading
        <3>2. worker'[w] = j /\ \A u \in Worker \ {w} : worker'[u] = worker[u]
            BY <1>0, <3>1, Moved
        <3>3. \A u \in Worker : Id(u)' = Id(u) /\ Reading(u)' = Reading(u)
            BY <3>0, <3>1, <3>2 DEF Id, Reading, SameReading
        <3>4. x \in Datum
            BY <1>3, <1>0, Busy DEF Insert
        <3>5. v.type = x.type /\ v.id = Id(w) /\ v.at = x.at /\ v.at \in Nat
            BY <3>4 DEF Datum
        <3> HIDE DEF v, x
        <3>6. ASSUME NEW t \in Part \ late', t = x.type, NEW u \in Newest(t)'
              PROVE  Pending(u.id)'
            <4>1. \A q \in Rows(t) : q.at < v.at
                BY <3>0, <3>5, <3>6
            <4>2. u \in versions' /\ u.type = t /\ v \in versions' /\ v.type = t /\ v.at <= u.at
                BY <3>0, <3>5, <3>6 DEF Newest, Rows
            <4>3. u = v
                <5>1. CASE u \in versions
                    <6>1. u \in Rows(t) /\ u.at \in Nat
                        BY <1>0, <4>2, <5>1 DEF Rows, Tables
                    <6> QED
                        BY <3>5, <4>1, <4>2, <6>1
                <5> QED
                    BY <3>0, <4>2, <5>1
            <4> QED
                BY <3>1, <3>2, <3>3, <3>5, <4>3 DEF Pending
        <3>7. ASSUME NEW t \in Part \ late', t # x.type, NEW u \in Newest(t)'
              PROVE  Pending(u.id)' \/ u.id \in cut' \/ Saved(t, u)'
            <4>1. t \notin late /\ u \in Newest(t)
                BY <3>0, <3>5, <3>7 DEF Newest, Rows
            <4>2. Pending(u.id) => Pending(u.id)'
                BY <3>1, <3>2, <3>3 DEF Pending
            <4>3. Saved(t, u) => Saved(t, u)'
                <5>1. \A y \in Worker : worker'[y].at = "update" /\ Reading(y).type = t
                                         => worker[y].at = "update"
                    BY <3>2, <3>7 DEF x
                <5>2. Serves(t, u.what)' = Serves(t, u.what)
                    BY DEF Serves
                <5> QED
                    BY <3>0, <3>3, <5>1, <5>2 DEF Saved
            <4> QED
                BY <1>0, <3>0, <3>7, <4>1, <4>2, <4>3 DEF FollowInv
        <3> QED
            BY <3>6, <3>7 DEF FollowInv
    <2> QED
        BY <2>1, <2>2
<1>4. ASSUME NEW w \in Worker, Update(w) PROVE FollowInv'
    <2>1. PICK j, row :
             /\ Become(w, j) /\ j.at = "pick" /\ SaveDevice(w, row, Reading(w).type)
             /\ row[Reading(w).type] = Serves(Reading(w).type, Told(w))
             /\ \A c \in Column \ {Reading(w).type} : row[c] = worker[w].copy[c]
        BY <1>4, <1>0, UpdateMove
    <2> DEFINE t == Reading(w).type
    <2>2. worker'[w] = j /\ \A u \in Worker \ {w} : worker'[u] = worker[u]
        BY <1>0, <2>1, Moved
    <2>3. w \in Holder /\ \A c \in Column \ behind[w] : worker[w].copy[c] = device[c]
        BY <1>4, <1>0 DEF Update, FreshInv, Holder
    <2>4. /\ device' = row
          /\ \A g \in Holder \ {w} : behind[g] \cup {t} \subseteq behind'[g]
          /\ \A d \in Column : d \notin lost' /\ d # t => d \notin lost /\ device'[d] = device[d]
        BY <1>0, <2>1, <2>3, SaveFresh
    <2>5. UNCHANGED <<content, versions, late, cut>> /\ worker[w].at = "update"
        BY <1>4 DEF Update
    <2>6. \A d : Newest(d)' = Newest(d) /\ \A v : Serves(d, v)' = Serves(d, v)
        BY <2>5 DEF Newest, Rows, Serves
    <2>7. t \in Part /\ Worker \subseteq Holder
        BY <1>0, <2>5, Busy DEF Datum, Holder
    <2>8. \A u \in Worker \ {w} : Id(u)' = Id(u) /\ Reading(u)' = Reading(u)
        BY <2>2, <2>5 DEF Id, Reading
    <2>9. \A x : Pending(x) => Pending(x)' \/ x = Id(w)
        BY <2>2, <2>8 DEF Pending
    <2> HIDE DEF t
    <2>10. ASSUME NEW d \in Part \ late, NEW v \in Newest(d)
           PROVE  Pending(v.id)' \/ v.id \in cut \/ Saved(d, v)'
        <3>1. CASE d = t
            <4>1. \A u \in Worker : worker'[u].at = "update" => d \in behind'[u]
                BY <2>1, <2>2, <2>4, <2>7, <3>1
            <4>2. CASE v.id = Id(w)
                <5>1. v.what = Told(w)
                    BY <1>0, <2>10, <4>2 DEF ToldInv, Datum1, Id, Told, Reading, Newest, Rows
                <5> QED
                    BY <2>1, <2>4, <2>6, <3>1, <4>1, <5>1 DEF Saved, t
            <4>3. CASE Saved(d, v)
                <5>1. d \in behind[w]
                    BY <2>5, <3>1, <4>3 DEF Saved, t
                <5>2. d \in lost'
                    BY <2>1, <5>1 DEF SaveDevice
                <5> QED
                    BY <4>1, <5>2 DEF Saved
            <4> QED
                BY <1>0, <2>9, <2>10, <4>2, <4>3 DEF FollowInv
        <3>2. CASE d # t
            <4>0. d \in Column
                BY DEF Column
            <4>1. CASE v.id = Id(w)
                BY <1>0, <2>10, <3>2, <4>1 DEF ToldInv, Datum1, Id, Reading, Newest, Rows, t
            <4>2. CASE Saved(d, v)
                <5>1. d \in lost' \/ device'[d] = Serves(d, v.what)'
                    BY <2>4, <2>6, <3>2, <4>0, <4>2 DEF Saved
                <5>2. \A u \in Worker : worker'[u].at = "update" /\ Reading(u)'.type = d
                                         => d \in behind'[u]
                    BY <2>1, <2>2, <2>4, <2>7, <2>8, <4>2 DEF Saved
                <5> QED
                    BY <5>1, <5>2 DEF Saved
            <4> QED
                BY <1>0, <2>9, <2>10, <4>1, <4>2 DEF FollowInv
        <3> QED
            BY <3>1, <3>2
    <2> QED
        BY <2>5, <2>6, <2>10 DEF FollowInv
<1>5. ASSUME NEW w \in Worker, Drop(w) PROVE FollowInv'
    BY <1>5, <1>0, FollowCut DEF Drop, rows, excuses
<1>6. ASSUME NEW w \in Worker, Pick(w) PROVE FollowInv'
    <2>1. PICK j : Become(w, j) /\ j.at # "update"
        BY <1>6, <1>0, Moves
    <2> QED
        BY <1>6, <1>0, <2>1, FollowMove DEF Pick, rows, excuses
<1>7. ASSUME NEW w \in Worker, Assume(w) PROVE FollowInv'
    <2>1. PICK j : Become(w, j) /\ j.at # "update"
        BY <1>7, <1>0, Moves, Skipped
    <2> QED
        BY <1>7, <1>0, <2>1, FollowMove DEF Assume, rows, excuses
<1>8. ASSUME NEW w \in Worker, Confirm(w) PROVE FollowInv'
    <2>1. PICK j : Become(w, j) /\ j.at # "update"
        BY <1>8, <1>0, Skipped DEF Confirm
    <2> QED
        BY <1>8, <1>0, <2>1, FollowMove DEF Confirm, excuses
<1>9. ASSUME NEW w \in Worker, Create(w) PROVE FollowInv'
    <2>1. PICK j : Become(w, j) /\ j.at # "update"
        BY <1>9, <1>0, Skipped DEF Create
    <2> QED
        BY <1>9, <1>0, <2>1, FollowMove DEF Create, excuses
<1>10. ASSUME NEW w \in Worker, Finish(w) PROVE FollowInv'
    <2>1. PICK j : Become(w, j) /\ j.at # "update"
        BY <1>10, <1>0, IdleType DEF Finish
    <2> QED
        BY <1>10, <1>0, <2>1, FollowMove DEF Finish, rows, excuses
<1>11. ASSUME NEW w \in Worker, Fail(w) PROVE FollowInv'
    BY <1>11, <1>0, FollowCut DEF Fail, Abandon, rows, excuses
<1>12. ASSUME NEW w \in Worker, Refused(w) PROVE FollowInv'
    BY <1>12, <1>0, FollowCut DEF Refused, Abandon, rows, excuses
<1>13. ASSUME NEW r \in Report, Redeliver(r) PROVE FollowInv'
    BY <1>13, <1>0, FollowForm DEF Redeliver, rows, excuses
<1>14. ASSUME NEW d \in Request, NEW covers \in BOOLEAN, AddRequest(d, covers) PROVE FollowInv'
    BY <1>14, <1>0, FollowForm DEF AddRequest, rows, excuses
<1>15. ASSUME NEW d \in Request, DeleteRequest(d) PROVE FollowInv'
    BY <1>15, <1>0, FollowForm DEF DeleteRequest, rows, excuses
<1>16. ASSUME NEW k \in Action, DeleteAction(k) PROVE FollowInv'
    BY <1>16, <1>0, FollowForm DEF DeleteAction, rows, excuses
<1>17. ASSUME NEW k \in Action, NEW d \in Request, NEW success \in BOOLEAN,
             Post(k, d, success) PROVE FollowInv'
    BY <1>17, <1>0, FollowForm DEF Post, rows, excuses
<1>18. ASSUME NEW f \in Form, NEW d \in Request, NEW what \in RequestForm,
             OpenRequest(f, what, d) PROVE FollowInv'
    BY <1>18, <1>0, FollowForm DEF OpenRequest, Open, rows, excuses
<1>19. ASSUME NEW f \in Form, NEW k \in Action, OpenAction(f, k) PROVE FollowInv'
    BY <1>19, <1>0, FollowForm DEF OpenAction, Open, rows, excuses
<1>20. ASSUME NEW f \in Form, OpenDevice(f) PROVE FollowInv'
    <2>1. \A u \in Worker : behind'[u] = behind[u]
        BY <1>20, <1>0, OtaAssumption DEF OpenDevice, ReadDevice, Histories, Holder
    <2> QED
        BY <1>20, <1>0, <2>1, FollowForm DEF OpenDevice, Open, rows
<1>21. ASSUME NEW f \in Form, SaveRequest(f) PROVE FollowInv'
    BY <1>21, <1>0, FollowForm DEF SaveRequest, rows, excuses
<1>22. ASSUME NEW f \in Form, SaveAction(f) PROVE FollowInv'
    BY <1>22, <1>0, FollowForm DEF SaveAction, rows, excuses
<1>23. ASSUME NEW f \in Form, SavePatch(f) PROVE FollowInv'
    <2>1. PICK row : /\ SaveDevice(f, row, "rest") /\ row.rest = TRUE
                     /\ \A c \in Column \ {"rest"} : row[c] = form[f].row[c]
        <3> DEFINE row == [form[f].row EXCEPT !.rest = TRUE]
        <3>1. form[f].row \in DeviceRow
            BY <1>23, <1>0 DEF SavePatch, Forms, SheetOK
        <3>2. row.rest = TRUE /\ \A c \in Column \ {"rest"} : row[c] = form[f].row[c]
            BY <3>1 DEF DeviceRow, Column, Part
        <3>3. SaveDevice(f, row, "rest")
            BY <1>23 DEF SavePatch
        <3> QED
            BY <3>2, <3>3
    <2>3. f \in Holder /\ \A c \in Column \ behind[f] : form[f].row[c] = device[c]
        BY <1>23, <1>0 DEF SavePatch, FreshInv, Holder
    <2>4. /\ \A g \in Holder \ {f} : behind[g] \subseteq behind'[g]
          /\ \A d \in Column : d \notin lost' /\ d # "rest" => d \notin lost /\ device'[d] = device[d]
        BY <1>0, <2>1, <2>3, SaveFresh
    <2>5. UNCHANGED <<content, versions, late, cut, worker>>
        BY <1>23 DEF SavePatch
    <2>6. \A d : Newest(d)' = Newest(d) /\ \A v : Serves(d, v)' = Serves(d, v)
        BY <2>5 DEF Newest, Rows, Serves
    <2>7. Worker \subseteq Holder \ {f}
        BY OtaAssumption DEF Holder
    <2>8. \A x : Pending(x) => Pending(x)'
        BY <2>5 DEF Pending, Id
    <2>9. \A d \in Part : \A v : Saved(d, v) => Saved(d, v)'
        <3> SUFFICES ASSUME NEW d \in Part, NEW v, Saved(d, v) PROVE Saved(d, v)'
            OBVIOUS
        <3>1. d \in Column /\ d # "rest"
            BY DEF Part, Column
        <3>2. d \in lost' \/ device'[d] = Serves(d, v.what)'
            BY <2>4, <2>6, <3>1 DEF Saved
        <3>3. \A u \in Worker : worker'[u].at = "update" /\ Reading(u)'.type = d
                                 => d \in behind'[u]
            BY <2>4, <2>5, <2>7 DEF Saved, Reading
        <3> QED
            BY <3>2, <3>3 DEF Saved
    <2> QED
        BY <1>0, <2>5, <2>6, <2>8, <2>9 DEF FollowInv
<1>24. CASE UNCHANGED vars
    BY <1>24, <1>0, FollowForm DEF vars, rows, excuses
<1> QED
    BY <1>1, <1>2, <1>3, <1>4, <1>5, <1>6, <1>7, <1>8, <1>9, <1>10, <1>11, <1>12,
       <1>13, <1>14, <1>15, <1>16, <1>17, <1>18, <1>19, <1>20, <1>21, <1>22,
       <1>23, <1>24 DEF Next

LEMMA InitIInv == Init => IInv
<1> SUFFICES ASSUME Init PROVE IInv
    OBVIOUS
<1>1. TypeOK
    BY InitType
<1>2. FreshInv
    BY IdleType, ClosedType DEF Init, FreshInv
<1>3. RestInv /\ ToldInv
    BY DEF Init, RestInv, ToldInv
<1>4. OnceInv
    <2>1. \A x \in Ids : settled[x] = 0
        BY DEF Init
    <2>2. \A w \in Worker : worker[w].at \notin Past
        BY IdleType DEF Init, Past
    <2> QED
        BY <2>1, <2>2 DEF OnceInv
<1>5. FollowInv
    BY DEF Init, FollowInv, Newest, Rows
<1> QED
    BY <1>1, <1>2, <1>3, <1>4, <1>5 DEF IInv

LEMMA StepIInv == IInv /\ [Next]_vars => IInv'
BY TypeStep, ToldStep, OnceStep, FreshStep, RestStep, FollowStep DEF IInv

\* The inductive invariant holds in every reachable state.
THEOREM Inductive == Spec => []IInv
<1> QED
    BY InitIInv, StepIInv, PTL DEF Spec

\* Every reading of a version settles one action at most, whatever is delivered
\* twice, fails and is executed again, or runs in parallel.
THEOREM SettledOnce == Spec => []ConfirmedOnce
<1>1. IInv => ConfirmedOnce
    BY DEF IInv, OnceInv, ConfirmedOnce
<1> QED
    BY <1>1, Inductive, PTL

\* The Device row follows the last version of each part, and keeps the edits of
\* others, but for the stale saves, cut-off updates and timestamps of the property.
THEOREM DeviceFollows == Spec => []DeviceFollowsVersion
<1>1. ASSUME IInv PROVE DeviceFollowsVersion
    <2>1. ASSUME NEW t \in Part \ (lost \cup late)
          PROVE  Current(t) \/ Updating(t) \/ CutOff(t)
        <3>1. SUFFICES ASSUME NEW v \in Newest(t), ~(device[t] = Serves(t, v.what))
                       PROVE  Updating(t) \/ CutOff(t)
            BY DEF Current
        <3>2. Pending(v.id) \/ v.id \in cut
            BY <1>1, <2>1, <3>1 DEF IInv, FollowInv, Saved
        <3>3. CASE v.id \in cut
            BY <3>3 DEF CutOff
        <3>4. ASSUME NEW w \in Worker, worker[w].at = "update", Id(w) = v.id
              PROVE  Updating(t)
            <4>1. v \in versions /\ v.type = t
                BY DEF Newest, Rows
            <4>2. Reading(w).type = t
                BY <1>1, <3>4, <4>1 DEF IInv, ToldInv, Datum1, Id, Reading
            <4> QED
                BY <3>4, <4>2 DEF Updating
        <3> QED
            BY <3>2, <3>3, <3>4 DEF Pending
    <2>2. "rest" \notin lost /\ patched => device.rest
        BY <1>1 DEF IInv, RestInv
    <2> QED
        BY <2>1, <2>2 DEF DeviceFollowsVersion
<1> QED
    BY <1>1, Inductive, PTL

\* The five operators of a rule are those of the order of versions.
LEMMA ComparesMeant ==
    ASSUME NEW rule \in Rule, NEW v \in Version, rule.op # "tag"
    PROVE  Compares(rule.op, v, rule.major, rule.minor) <=> Meant(rule, v)
<1>1. v.major \in Int /\ v.minor \in Int /\ rule.major \in Int /\ rule.minor \in Int
    BY DEF Version, Rule
<1>2. CASE rule.op = "eq"
    BY <1>1, <1>2 DEF Compares, Meant, Older
<1>3. CASE rule.op = "lt"
    BY <1>1, <1>3 DEF Compares, Meant, Older
<1>4. CASE rule.op = "lte"
    BY <1>1, <1>4 DEF Compares, Meant, Older
<1>5. CASE rule.op = "gt"
    BY <1>1, <1>5 DEF Compares, Meant, Older
<1>6. CASE rule.op = "gte"
    BY <1>1, <1>6 DEF Compares, Meant, Older
<1> QED
    BY <1>2, <1>3, <1>4, <1>5, <1>6 DEF Rule, Op

\* A rule on the OS selects the devices with a version that it means.
THEOREM RulesAreVersions == Spec => []RulesCompareVersions
<1>1. ASSUME IInv PROVE RulesCompareVersions
    <2> SUFFICES ASSUME NEW rule \in Rules, rule.part = "os"
                 PROVE  Affected({rule}) <=> \E v \in Rows("os") : Meant(rule, v.what)
        BY DEF RulesCompareVersions
    <2>1. rule \in Rule
        BY OtaAssumption
    <2>2. ASSUME NEW row \in versions
          PROVE  Selects(rule, row) <=> row.type = "os" /\ Meant(rule, row.what)
        <3>1. row.what \in Version
            BY <1>1 DEF IInv, TypeOK
        <3>2. CASE rule.op = "tag"
            BY <3>2 DEF Selects, RowType, Meant
        <3>3. CASE rule.op # "tag"
            BY <2>1, <3>1, <3>3, ComparesMeant DEF Selects, RowType
        <3> QED
            BY <3>2, <3>3
    <2> QED
        BY <2>2 DEF Affected, Rows
<1> QED
    BY <1>1, Inductive, PTL
=============================================================================

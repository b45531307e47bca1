------------------------- MODULE ReportProcessingProofs -------------------------
(***************************************************************************)
(* Theorems about ReportProcessing: what the throttle key and              *)
(* Streamer.last_id protect, for any reports, workers and bounds.          *)
(***************************************************************************)
EXTENDS ReportProcessing, FiniteSetTheorems, TLAPS

\* While the throttle works, the one worker inside owns the key.
KeyInv ==
    ~(raced \/ gaveUp) =>
        /\ \A v, w \in Worker : Inside(v) /\ Inside(w) => v = w
        /\ \A w \in Worker : Inside(w) => key > 0

\* ... and last_id is still what it read.
SnapInv ==
    ~(raced \/ gaveUp) =>
        \A w \in Worker : pc[w] \in {"commit", "events", "record"} => snap[w] = lastId

\* ... and followed up only reports that last_id has passed.
FollowInv ==
    ~(raced \/ gaveUp) =>
        /\ \A r \in Report : followed[r] = 0 \/ (followed[r] = 1 /\ Hi[r] <= lastId)
        /\ \A w \in Worker :
              pc[w] = "follow" => followed[rep[w]] = 0 /\ Hi[rep[w]] <= lastId

\* ... and a stored reading was passed by last_id or is about to be.
StoredInv ==
    ~(raced \/ gaveUp \/ torn) =>
        \A i \in AllIds :
            /\ \/ stored[i] = 0
               \/ /\ stored[i] = 1
                  /\ \/ i <= lastId
                     \/ \E w \in Worker : pc[w] \in {"events", "record"} /\ i \in Kept(w)
            /\ \/ evented[i] = 0
               \/ /\ evented[i] = 1
                  /\ \/ i <= lastId
                     \/ \E w \in Worker : pc[w] = "record" /\ i \in Kept(w)

\* The readings of r that are to be kept, in the range of rec, are stored.
RangeStored(rec, r) ==
    \A i \in Ids(r) \ NotKept :
        rec.first <= i /\ i <= rec.last => stored[i] > 0

\* The records, those the workers hold, and what a worker is about to record.
DataInv ==
    /\ \A r \in Report : RangeStored(actual[r], r)
    /\ \A w \in Worker : pc[w] # "idle" => RangeStored(mine[w], rep[w])
    /\ \A w \in Worker :
          pc[w] \in {"events", "record"} => \A i \in Kept(w) : stored[i] > 0

IInv == TypeOK /\ KeyInv /\ SnapInv /\ FollowInv /\ StoredInv /\ DataInv

USE DEF queueVars, tableVars, endVars, workerVars, causeVars, boundVars

LEMMA InitIInv == Init => IInv
<1> SUFFICES ASSUME Init PROVE IInv
    OBVIOUS
<1> USE ReportAssumption DEF Init
<1>1. TypeOK
    <2>1. Unrecorded \in Record /\ "idle" \in Labels /\ 0 \in Nat
        BY DEF Unrecorded, Record, Labels
    <2>2. /\ uploaded \subseteq Report /\ failed \subseteq Report /\ handled \subseteq Report
          /\ key \in Nat /\ lastId \in Nat
          /\ raced \in BOOLEAN /\ gaveUp \in BOOLEAN /\ torn \in BOOLEAN /\ peak \in Nat
          /\ shared \subseteq Report
        OBVIOUS
    <2>3. faults \in 0..MaxFault /\ timeouts \in 0..MaxTimeout
        OBVIOUS
    <2>4. /\ msgs \in [Report -> Nat] /\ followed \in [Report -> Nat]
          /\ actual \in [Report -> Record]
          /\ stored \in [AllIds -> Nat] /\ evented \in [AllIds -> Nat]
        BY <2>1
    <2>5. /\ pc \in [Worker -> Labels] /\ rep \in [Worker -> Report \cup {NoReport}]
          /\ mine \in [Worker -> Record] /\ att \in [Worker -> Nat]
          /\ snap \in [Worker -> Nat] /\ held \in [Worker -> BOOLEAN]
          /\ verdict \in [Worker -> {"ok", "busy", "hard", "database"}]
        BY <2>1
    <2> QED
        BY <2>1, <2>2, <2>3, <2>4, <2>5 DEF TypeOK
<1>2. KeyInv /\ SnapInv /\ FollowInv
    BY DEF KeyInv, SnapInv, FollowInv, Inside
<1>3. StoredInv
    BY DEF StoredInv
<1>4. DataInv
    BY DEF DataInv, RangeStored, Unrecorded, Ids
<1> QED
    BY <1>1, <1>2, <1>3, <1>4 DEF IInv

\* A worker that leaves its task keeps the types of its variables.
LEMMA LeaveTypes ==
    ASSUME TypeOK, NEW w \in Worker, Leave(w)
    PROVE  /\ pc' \in [Worker -> Labels]
           /\ rep' \in [Worker -> Report \cup {NoReport}]
           /\ mine' \in [Worker -> Record]
           /\ att' \in [Worker -> Nat]
           /\ snap' \in [Worker -> Nat]
           /\ verdict' \in [Worker -> {"ok", "busy", "hard", "database"}]
           /\ pc'[w] = "idle" /\ rep'[w] = NoReport /\ snap'[w] = 0
           /\ verdict'[w] = "ok"
           /\ \A v \in Worker \ {w} :
                 /\ pc'[v] = pc[v] /\ rep'[v] = rep[v] /\ verdict'[v] = verdict[v]
                 /\ mine'[v] = mine[v] /\ snap'[v] = snap[v]
<1>1. Unrecorded \in Record /\ "idle" \in Labels
    BY DEF Unrecorded, Record, Labels
<1> QED
    BY <1>1 DEF TypeOK, Leave, Goto

LEMMA TypeStep == IInv /\ [Next]_vars => TypeOK'
<1> SUFFICES ASSUME IInv, [Next]_vars PROVE TypeOK'
    OBVIOUS
<1> USE ReportAssumption DEF IInv, TypeOK, Record, Labels
<1>1. ASSUME NEW r \in Report, Schedule(r) PROVE TypeOK'
    BY <1>1 DEF Schedule
<1>2. ASSUME ExpireKey PROVE TypeOK'
    BY <1>2 DEF ExpireKey
<1>3. ASSUME NEW w \in Worker, NEW r \in Report, Receive(w, r) PROVE TypeOK'
    BY <1>3 DEF Receive, Goto
<1>4. ASSUME NEW w \in Worker, CannotFetch(w) PROVE TypeOK'
    BY <1>4 DEF CannotFetch, Goto
<1>5. ASSUME NEW w \in Worker, Timeout(w) PROVE TypeOK'
    BY <1>5 DEF Timeout
<1>6. ASSUME NEW w \in Worker, ReadKey(w) PROVE TypeOK'
    BY <1>6 DEF ReadKey, Goto
<1>7. ASSUME NEW w \in Worker, SetKey(w) PROVE TypeOK'
    BY <1>7 DEF SetKey, Goto
<1>8. ASSUME NEW w \in Worker, IncrKey(w) PROVE TypeOK'
    <2>1. key' \in Nat /\ pc' \in [Worker -> Labels] /\ pc'[w] # "idle"
        BY <1>8, SMTT(30) DEF IncrKey, Goto
    <2> QED
        BY <1>8, <2>1 DEF IncrKey, Goto
<1>9. ASSUME NEW w \in Worker, GiveUpKey(w) PROVE TypeOK'
    BY <1>9 DEF GiveUpKey, Goto
<1>10. ASSUME NEW w \in Worker, Reschedule(w) PROVE TypeOK'
    BY <1>10 DEF Reschedule, Goto
<1>11. ASSUME NEW w \in Worker, ReadReport(w) PROVE TypeOK'
    BY <1>11 DEF ReadReport, Goto, Ids
<1>12. ASSUME NEW w \in Worker, CommitData(w) PROVE TypeOK'
    BY <1>12 DEF CommitData, Goto, AddRows
<1>13. ASSUME NEW w \in Worker, CommitEvents(w) PROVE TypeOK'
    BY <1>13 DEF CommitEvents, Goto, AddRows
<1>14. ASSUME NEW w \in Worker, RecordReport(w) PROVE TypeOK'
    <2>1. lastId' \in Nat /\ peak' \in Nat /\ actual' \in [Report -> Record]
        <3>1. Hi[rep[w]] \in Nat /\ NewRange(w) \in Record /\ NothingNew \in Record
            BY <1>14 DEF RecordReport, NewRange, NothingNew
        <3>2. \/ actual' = actual
              \/ actual' = [actual EXCEPT ![rep[w]] = NewRange(w)]
              \/ actual' = [actual EXCEPT ![rep[w]] = NothingNew]
            BY <1>14, Zenon DEF RecordReport
        <3>3. actual \in [Report -> Record] /\ lastId \in Nat /\ peak \in Nat
            OBVIOUS
        <3>4. \/ lastId' = lastId /\ peak' = peak
              \/ Advance(w)
            BY <1>14, Zenon DEF RecordReport
        <3> HIDE DEF IInv, TypeOK, Record, Labels
        <3>5. actual' \in [Report -> Record]
            BY <3>1, <3>2, <3>3
        <3>6. lastId' \in Nat /\ peak' \in Nat
            BY <3>1, <3>3, <3>4 DEF Advance
        <3> QED
            BY <3>5, <3>6
    <2>2. pc' \in [Worker -> Labels] /\ pc' = [pc EXCEPT ![w] = pc'[w]] /\ pc'[w] # "idle"
        BY <1>14, SMTT(30) DEF RecordReport, Advance, Goto
    <2> QED
        BY <1>14, <2>1, <2>2 DEF RecordReport, Advance
<1>15. ASSUME NEW w \in Worker, FollowUp(w) PROVE TypeOK'
    BY <1>15 DEF FollowUp, Goto
<1>16. ASSUME NEW w \in Worker, RaiseError(w) PROVE TypeOK'
    BY <1>16 DEF RaiseError, Goto, Unsaved
<1>17. ASSUME NEW w \in Worker, EndProcess(w) PROVE TypeOK'
    BY <1>17 DEF EndProcess, Goto
<1>18. ASSUME NEW w \in Worker, Finish(w) PROVE TypeOK'
    <2>1. msgs' \in [Report -> Nat]
        BY <1>18, SMTT(30) DEF Finish
    <2>2. held' \in [Worker -> BOOLEAN] /\ ~held'[w]
        BY <1>18 DEF Finish
    <2>3. \A v \in Worker : held'[v] => held[v]
        BY <1>18 DEF Finish
    <2>4. /\ pc' \in [Worker -> Labels] /\ rep' \in [Worker -> Report \cup {NoReport}]
          /\ mine' \in [Worker -> Record] /\ att' \in [Worker -> Nat]
          /\ snap' \in [Worker -> Nat]
          /\ verdict' \in [Worker -> {"ok", "busy", "hard", "database"}]
          /\ pc'[w] = "idle" /\ rep'[w] = NoReport
          /\ \A v \in Worker \ {w} : pc'[v] = pc[v] /\ rep'[v] = rep[v]
        BY <1>18, LeaveTypes, SMTT(30) DEF Finish
    <2>5. /\ UNCHANGED <<uploaded, key, tableVars, handled, causeVars, boundVars>>
          /\ failed' \subseteq Report
        BY <1>18 DEF Finish
    <2> QED
        BY <2>1, <2>2, <2>3, <2>4, <2>5
<1>19. ASSUME NEW w \in Worker, Crash(w) PROVE TypeOK'
    BY <1>19, LeaveTypes DEF Crash, Unsaved
<1>20. CASE UNCHANGED vars
    BY <1>20 DEF vars
<1>21. QED
    BY <1>1, <1>2, <1>3, <1>4, <1>5, <1>6, <1>7, <1>8, <1>9, <1>10, <1>11,
       <1>12, <1>13, <1>14, <1>15, <1>16, <1>17, <1>18, <1>19, <1>20 DEF
       Next, Step

LEMMA KeyStep == IInv /\ [Next]_vars => KeyInv'
<1> SUFFICES ASSUME IInv, [Next]_vars PROVE KeyInv'
    OBVIOUS
<1> USE ReportAssumption DEF IInv, TypeOK, KeyInv, Inside
<1>1. ASSUME NEW r \in Report, Schedule(r) PROVE KeyInv'
    BY <1>1 DEF Schedule
<1>2. ASSUME ExpireKey PROVE KeyInv'
    BY <1>2 DEF ExpireKey
<1>3. ASSUME NEW w \in Worker, NEW r \in Report, Receive(w, r) PROVE KeyInv'
    BY <1>3 DEF Receive, Goto
<1>4. ASSUME NEW w \in Worker, CannotFetch(w) PROVE KeyInv'
    BY <1>4 DEF CannotFetch, Goto
<1>5. ASSUME NEW w \in Worker, Timeout(w) PROVE KeyInv'
    BY <1>5 DEF Timeout
<1>6. ASSUME NEW w \in Worker, ReadKey(w) PROVE KeyInv'
    BY <1>6 DEF ReadKey, Goto
<1>7. ASSUME NEW w \in Worker, SetKey(w) PROVE KeyInv'
    <2>1. SUFFICES ASSUME ~(raced' \/ gaveUp') PROVE KeyInv'
        BY DEF KeyInv
    <2>2. \A v \in Worker : ~Inside(v)
        <3>1. ~raced /\ ~gaveUp /\ key = 0
            BY <1>7, <2>1, Zenon DEF SetKey
        <3> QED
            BY <3>1
    <2>3. key' = 1 /\ \A v \in Worker \ {w} : pc'[v] = pc[v]
        BY <1>7 DEF SetKey, Goto
    <2>4. \A v \in Worker \ {w} : ~Inside(v)'
        BY <2>2, <2>3
    <2> QED
        BY <2>3, <2>4
<1>8. ASSUME NEW w \in Worker, IncrKey(w) PROVE KeyInv'
    BY <1>8 DEF IncrKey, Goto
<1>9. ASSUME NEW w \in Worker, GiveUpKey(w) PROVE KeyInv'
    BY <1>9 DEF GiveUpKey, Goto
<1>10. ASSUME NEW w \in Worker, Reschedule(w) PROVE KeyInv'
    BY <1>10 DEF Reschedule, Goto
<1>11. ASSUME NEW w \in Worker, ReadReport(w) PROVE KeyInv'
    BY <1>11 DEF ReadReport, Goto
<1>12. ASSUME NEW w \in Worker, CommitData(w) PROVE KeyInv'
    BY <1>12 DEF CommitData, Goto
<1>13. ASSUME NEW w \in Worker, CommitEvents(w) PROVE KeyInv'
    BY <1>13 DEF CommitEvents, Goto
<1>14. ASSUME NEW w \in Worker, RecordReport(w) PROVE KeyInv'
    BY <1>14 DEF RecordReport, Advance, Goto
<1>15. ASSUME NEW w \in Worker, FollowUp(w) PROVE KeyInv'
    BY <1>15 DEF FollowUp, Goto
<1>16. ASSUME NEW w \in Worker, RaiseError(w) PROVE KeyInv'
    BY <1>16 DEF RaiseError, Goto
<1>17. ASSUME NEW w \in Worker, EndProcess(w) PROVE KeyInv'
    BY <1>17 DEF EndProcess, Goto
<1>18. ASSUME NEW w \in Worker, Finish(w) PROVE KeyInv'
    BY <1>18, LeaveTypes, SMTT(30) DEF Finish
<1>19. ASSUME NEW w \in Worker, Crash(w) PROVE KeyInv'
    BY <1>19, LeaveTypes DEF Crash
<1>20. CASE UNCHANGED vars
    BY <1>20 DEF vars
<1>21. QED
    BY <1>1, <1>2, <1>3, <1>4, <1>5, <1>6, <1>7, <1>8, <1>9, <1>10, <1>11,
       <1>12, <1>13, <1>14, <1>15, <1>16, <1>17, <1>18, <1>19, <1>20 DEF
       Next, Step

LEMMA SnapStep == IInv /\ [Next]_vars => SnapInv'
<1> SUFFICES ASSUME IInv, [Next]_vars PROVE SnapInv'
    OBVIOUS
<1> USE ReportAssumption DEF IInv, TypeOK, KeyInv, SnapInv, Inside
<1>1. ASSUME NEW r \in Report, Schedule(r) PROVE SnapInv'
    BY <1>1 DEF Schedule
<1>2. ASSUME ExpireKey PROVE SnapInv'
    BY <1>2 DEF ExpireKey
<1>3. ASSUME NEW w \in Worker, NEW r \in Report, Receive(w, r) PROVE SnapInv'
    BY <1>3 DEF Receive, Goto
<1>4. ASSUME NEW w \in Worker, CannotFetch(w) PROVE SnapInv'
    BY <1>4 DEF CannotFetch, Goto
<1>5. ASSUME NEW w \in Worker, Timeout(w) PROVE SnapInv'
    BY <1>5 DEF Timeout
<1>6. ASSUME NEW w \in Worker, ReadKey(w) PROVE SnapInv'
    BY <1>6 DEF ReadKey, Goto
<1>7. ASSUME NEW w \in Worker, SetKey(w) PROVE SnapInv'
    BY <1>7 DEF SetKey, Goto
<1>8. ASSUME NEW w \in Worker, IncrKey(w) PROVE SnapInv'
    BY <1>8 DEF IncrKey, Goto
<1>9. ASSUME NEW w \in Worker, GiveUpKey(w) PROVE SnapInv'
    BY <1>9 DEF GiveUpKey, Goto
<1>10. ASSUME NEW w \in Worker, Reschedule(w) PROVE SnapInv'
    BY <1>10 DEF Reschedule, Goto
<1>11. ASSUME NEW w \in Worker, ReadReport(w) PROVE SnapInv'
    BY <1>11 DEF ReadReport, Goto
<1>12. ASSUME NEW w \in Worker, CommitData(w) PROVE SnapInv'
    BY <1>12 DEF CommitData, Goto
<1>13. ASSUME NEW w \in Worker, CommitEvents(w) PROVE SnapInv'
    BY <1>13 DEF CommitEvents, Goto
<1>14. ASSUME NEW w \in Worker, RecordReport(w) PROVE SnapInv'
    BY <1>14 DEF RecordReport, Advance, Goto
<1>15. ASSUME NEW w \in Worker, FollowUp(w) PROVE SnapInv'
    BY <1>15 DEF FollowUp, Goto
<1>16. ASSUME NEW w \in Worker, RaiseError(w) PROVE SnapInv'
    BY <1>16 DEF RaiseError, Goto
<1>17. ASSUME NEW w \in Worker, EndProcess(w) PROVE SnapInv'
    BY <1>17 DEF EndProcess, Goto
<1>18. ASSUME NEW w \in Worker, Finish(w) PROVE SnapInv'
    BY <1>18, LeaveTypes, SMTT(30) DEF Finish
<1>19. ASSUME NEW w \in Worker, Crash(w) PROVE SnapInv'
    BY <1>19, LeaveTypes DEF Crash
<1>20. CASE UNCHANGED vars
    BY <1>20 DEF vars
<1>21. QED
    BY <1>1, <1>2, <1>3, <1>4, <1>5, <1>6, <1>7, <1>8, <1>9, <1>10, <1>11,
       <1>12, <1>13, <1>14, <1>15, <1>16, <1>17, <1>18, <1>19, <1>20 DEF
       Next, Step

LEMMA FollowStep == IInv /\ [Next]_vars => FollowInv'
<1> SUFFICES ASSUME IInv, [Next]_vars PROVE FollowInv'
    OBVIOUS
<1> USE ReportAssumption DEF IInv, TypeOK, KeyInv, SnapInv, FollowInv, Inside
<1>1. ASSUME NEW r \in Report, Schedule(r) PROVE FollowInv'
    BY <1>1 DEF Schedule
<1>2. ASSUME ExpireKey PROVE FollowInv'
    BY <1>2 DEF ExpireKey
<1>3. ASSUME NEW w \in Worker, NEW r \in Report, Receive(w, r) PROVE FollowInv'
    BY <1>3 DEF Receive, Goto
<1>4. ASSUME NEW w \in Worker, CannotFetch(w) PROVE FollowInv'
    BY <1>4 DEF CannotFetch, Goto
<1>5. ASSUME NEW w \in Worker, Timeout(w) PROVE FollowInv'
    BY <1>5 DEF Timeout
<1>6. ASSUME NEW w \in Worker, ReadKey(w) PROVE FollowInv'
    BY <1>6 DEF ReadKey, Goto
<1>7. ASSUME NEW w \in Worker, SetKey(w) PROVE FollowInv'
    BY <1>7 DEF SetKey, Goto
<1>8. ASSUME NEW w \in Worker, IncrKey(w) PROVE FollowInv'
    BY <1>8 DEF IncrKey, Goto
<1>9. ASSUME NEW w \in Worker, GiveUpKey(w) PROVE FollowInv'
    BY <1>9 DEF GiveUpKey, Goto
<1>10. ASSUME NEW w \in Worker, Reschedule(w) PROVE FollowInv'
    BY <1>10 DEF Reschedule, Goto
<1>11. ASSUME NEW w \in Worker, ReadReport(w) PROVE FollowInv'
    BY <1>11 DEF ReadReport, Goto
<1>12. ASSUME NEW w \in Worker, CommitData(w) PROVE FollowInv'
    BY <1>12 DEF CommitData, Goto
<1>13. ASSUME NEW w \in Worker, CommitEvents(w) PROVE FollowInv'
    BY <1>13 DEF CommitEvents, Goto
<1>14. ASSUME NEW w \in Worker, RecordReport(w) PROVE FollowInv'
    BY <1>14 DEF RecordReport, Advance, Goto, NewRange, NothingNew, Entries, NewIds, Ids
<1>15. ASSUME NEW w \in Worker, FollowUp(w) PROVE FollowInv'
    BY <1>15 DEF FollowUp, Goto
<1>16. ASSUME NEW w \in Worker, RaiseError(w) PROVE FollowInv'
    BY <1>16 DEF RaiseError, Goto, Unsaved
<1>17. ASSUME NEW w \in Worker, EndProcess(w) PROVE FollowInv'
    BY <1>17 DEF EndProcess, Goto
<1>18. ASSUME NEW w \in Worker, Finish(w) PROVE FollowInv'
    BY <1>18, LeaveTypes, SMTT(30) DEF Finish
<1>19. ASSUME NEW w \in Worker, Crash(w) PROVE FollowInv'
    BY <1>19, LeaveTypes DEF Crash, Unsaved
<1>20. CASE UNCHANGED vars
    BY <1>20 DEF vars
<1>21. QED
    BY <1>1, <1>2, <1>3, <1>4, <1>5, <1>6, <1>7, <1>8, <1>9, <1>10, <1>11,
       <1>12, <1>13, <1>14, <1>15, <1>16, <1>17, <1>18, <1>19, <1>20 DEF
       Next, Step

LEMMA StoredStep == IInv /\ [Next]_vars => StoredInv'
<1> SUFFICES ASSUME IInv, [Next]_vars PROVE StoredInv'
    OBVIOUS
<1> USE ReportAssumption DEF IInv, TypeOK, KeyInv, SnapInv, StoredInv, Inside, Kept, Removed, Entries, NewIds
<1>1. ASSUME NEW r \in Report, Schedule(r) PROVE StoredInv'
    BY <1>1 DEF Schedule
<1>2. ASSUME ExpireKey PROVE StoredInv'
    BY <1>2 DEF ExpireKey
<1>3. ASSUME NEW w \in Worker, NEW r \in Report, Receive(w, r) PROVE StoredInv'
    BY <1>3 DEF Receive, Goto
<1>4. ASSUME NEW w \in Worker, CannotFetch(w) PROVE StoredInv'
    BY <1>4 DEF CannotFetch, Goto
<1>5. ASSUME NEW w \in Worker, Timeout(w) PROVE StoredInv'
    BY <1>5 DEF Timeout
<1>6. ASSUME NEW w \in Worker, ReadKey(w) PROVE StoredInv'
    BY <1>6 DEF ReadKey, Goto
<1>7. ASSUME NEW w \in Worker, SetKey(w) PROVE StoredInv'
    BY <1>7 DEF SetKey, Goto
<1>8. ASSUME NEW w \in Worker, IncrKey(w) PROVE StoredInv'
    BY <1>8 DEF IncrKey, Goto
<1>9. ASSUME NEW w \in Worker, GiveUpKey(w) PROVE StoredInv'
    BY <1>9 DEF GiveUpKey, Goto
<1>10. ASSUME NEW w \in Worker, Reschedule(w) PROVE StoredInv'
    BY <1>10 DEF Reschedule, Goto
<1>11. ASSUME NEW w \in Worker, ReadReport(w) PROVE StoredInv'
    BY <1>11 DEF ReadReport, Goto
<1>12. ASSUME NEW w \in Worker, CommitData(w) PROVE StoredInv'
    <2>1. SUFFICES ASSUME ~(raced \/ gaveUp \/ torn) PROVE StoredInv'
        BY <1>12 DEF CommitData, StoredInv
    <2>2. pc[w] = "commit" /\ snap[w] = lastId /\ Inside(w)
        BY <1>12, <2>1 DEF CommitData
    <2>3. \A v \in Worker : pc[v] \in {"events", "record"} => v = w
        BY <2>1, <2>2
    <2>4. \A v \in Worker : Kept(v)' = Kept(v)
        BY <1>12 DEF CommitData, Ids
    <2>5. pc'[w] = "events" /\ \A i \in AllIds : evented'[i] = evented[i]
        BY <1>12 DEF CommitData, Goto
    <2>6. ASSUME NEW i \in AllIds, i \in Kept(w)
          PROVE  stored'[i] = 1 /\ evented'[i] = evented[i] /\ (evented[i] = 1 => i <= lastId)
        <3>1. i \in Nat /\ i > lastId
            BY <2>2, <2>6 DEF Ids, AllIds
        <3>2. stored[i] = 0
            BY <2>1, <2>2, <2>3, <3>1
        <3> QED
            BY <1>12, <2>1, <2>2, <2>3, <2>5, <2>6, <3>2 DEF CommitData, AddRows
    <2>7. ASSUME NEW i \in AllIds, i \notin Kept(w)
          PROVE  stored'[i] = stored[i] /\ (stored[i] = 1 => i <= lastId)
                                       /\ (evented[i] = 1 => i <= lastId)
        BY <1>12, <2>1, <2>2, <2>3, <2>7 DEF CommitData, AddRows
    <2>8. lastId' = lastId
        BY <1>12 DEF CommitData
    <2>9. ASSUME NEW i \in AllIds PROVE evented[i] \in {0, 1} /\ stored[i] \in {0, 1}
        BY <2>1
    <2> QED
        BY <2>4, <2>5, <2>6, <2>7, <2>8, <2>9
<1>13. ASSUME NEW w \in Worker, CommitEvents(w) PROVE StoredInv'
    <2>1. SUFFICES ASSUME ~(raced \/ gaveUp \/ torn) PROVE StoredInv'
        BY <1>13 DEF CommitEvents, StoredInv
    <2>2. pc[w] = "events" /\ snap[w] = lastId /\ Inside(w)
        BY <1>13, <2>1 DEF CommitEvents
    <2>3. \A v \in Worker : pc[v] \in {"events", "record"} => v = w
        BY <2>1, <2>2
    <2>4. \A v \in Worker : Kept(v)' = Kept(v)
        BY <1>13 DEF CommitEvents, Ids
    <2>5. pc'[w] = "record" /\ lastId' = lastId /\ stored' = stored
        BY <1>13 DEF CommitEvents, Goto
    <2>6. ASSUME NEW i \in AllIds
          PROVE  /\ stored[i] = 0 \/ (stored[i] = 1 /\ (i <= lastId \/ i \in Kept(w)))
                 /\ evented[i] = 0 \/ (evented[i] = 1 /\ i <= lastId)
        BY <2>1, <2>2, <2>3
    <2>7. ASSUME NEW i \in AllIds
          PROVE  IF i \in Kept(w) \cap Encoded THEN evented'[i] = 1
                                                   ELSE evented'[i] = evented[i]
        <3>1. i \in Kept(w) => evented[i] = 0
            BY <2>2, <2>6 DEF Ids, AllIds
        <3>2. evented' = AddRows(evented, Kept(w) \cap Encoded)
            BY <1>13 DEF CommitEvents
        <3> QED
            BY <3>1, <3>2 DEF AddRows
    <2> QED
        BY <2>4, <2>5, <2>6, <2>7
<1>14. ASSUME NEW w \in Worker, RecordReport(w) PROVE StoredInv'
    <2>1. SUFFICES ASSUME ~(raced \/ gaveUp \/ torn) PROVE StoredInv'
        BY <1>14 DEF RecordReport, StoredInv
    <2>2. pc[w] = "record" /\ snap[w] = lastId /\ Inside(w) /\ rep[w] \in Report
        BY <1>14, <2>1 DEF RecordReport, Advance
    <2>3. \A v \in Worker : pc[v] \in {"events", "record"} => v = w
        BY <2>1, <2>2
    <2>4. \A v \in Worker : Kept(v)' = Kept(v)
        BY <1>14 DEF RecordReport, Ids
    <2>5. ASSUME NEW i \in AllIds
          PROVE  /\ stored[i] = 0 \/ (stored[i] = 1 /\ (i <= lastId \/ i \in Kept(w)))
                 /\ evented[i] = 0 \/ (evented[i] = 1 /\ (i <= lastId \/ i \in Kept(w)))
        BY <2>1, <2>2, <2>3
    <2>6. ASSUME NEW i \in AllIds, i <= lastId \/ i \in Kept(w) PROVE i <= lastId'
        <3>1. i \in Nat /\ Hi[rep[w]] \in Nat /\ lastId \in Nat
            BY <2>2 DEF AllIds, Ids
        <3>2. CASE Entries(w) # {}
            <4>1. lastId' = Hi[rep[w]]
                BY <1>14, <3>2 DEF RecordReport, Advance
            <4>2. \A k \in Entries(w) : k > lastId /\ k <= Hi[rep[w]]
                BY <2>2 DEF Ids
            <4> QED
                BY <2>6, <3>1, <3>2, <4>1, <4>2 DEF Ids
        <3>3. CASE Entries(w) = {}
            BY <1>14, <2>6, <3>3 DEF RecordReport, Advance
        <3> QED
            BY <3>2, <3>3
    <2>7. stored' = stored /\ evented' = evented
        BY <1>14 DEF RecordReport, Advance
    <2> QED
        BY <2>5, <2>6, <2>7
<1>15. ASSUME NEW w \in Worker, FollowUp(w) PROVE StoredInv'
    BY <1>15 DEF FollowUp, Goto
<1>16. ASSUME NEW w \in Worker, RaiseError(w) PROVE StoredInv'
    BY <1>16 DEF RaiseError, Goto, Unsaved
<1>17. ASSUME NEW w \in Worker, EndProcess(w) PROVE StoredInv'
    BY <1>17 DEF EndProcess, Goto
<1>18. ASSUME NEW w \in Worker, Finish(w) PROVE StoredInv'
    BY <1>18, LeaveTypes, SMTT(30) DEF Finish
<1>19. ASSUME NEW w \in Worker, Crash(w) PROVE StoredInv'
    <2>1. SUFFICES ASSUME ~(raced' \/ gaveUp' \/ torn') PROVE StoredInv'
        BY DEF StoredInv
    <2>2. ~raced /\ ~gaveUp /\ ~torn /\ ~Unsaved(w)
        BY <1>19, <2>1, Zenon DEF Crash
    <2>3. /\ stored' = stored /\ evented' = evented /\ lastId' = lastId
          /\ \A v \in Worker \ {w} : pc'[v] = pc[v] /\ Kept(v)' = Kept(v)
        BY <1>19, LeaveTypes DEF Crash, Ids
    <2>4. ASSUME NEW v \in Worker, NEW i \in Kept(v), pc[v] \in {"events", "record"}
          PROVE  v # w
        BY <2>2, <2>4 DEF Unsaved
    <2> QED
        BY <2>2, <2>3, <2>4
<1>20. CASE UNCHANGED vars
    BY <1>20 DEF vars
<1>21. QED
    BY <1>1, <1>2, <1>3, <1>4, <1>5, <1>6, <1>7, <1>8, <1>9, <1>10, <1>11,
       <1>12, <1>13, <1>14, <1>15, <1>16, <1>17, <1>18, <1>19, <1>20 DEF
       Next, Step

\* Storing the readings of w keeps what the records claim.
LEMMA CommitKeepsData ==
    ASSUME NEW w \in Worker, CommitData(w), DataInv,
           pc \in [Worker -> Labels], rep \in [Worker -> Report \cup {NoReport}],
           stored \in [AllIds -> Nat],
           \A v \in Worker : rep[v] = NoReport <=> pc[v] = "idle"
    PROVE  DataInv'
<1>1. /\ pc[w] = "commit" /\ pc' = [pc EXCEPT ![w] = "events"]
      /\ actual' = actual /\ mine' = mine /\ rep' = rep /\ snap' = snap
      /\ stored' = AddRows(stored, Kept(w))
    BY DEF CommitData, Goto
<1>2. \A r \in Report : Ids(r) \subseteq AllIds
    BY DEF AllIds
<1>3. ASSUME NEW i \in AllIds
      PROVE  stored'[i] = IF i \in Kept(w) THEN stored[i] + 1 ELSE stored[i]
    BY <1>1 DEF AddRows
<1>4. ASSUME NEW i \in AllIds, stored[i] \in Nat, stored[i] > 0 PROVE stored'[i] > 0
    BY <1>3, <1>4
<1>5. ASSUME NEW i \in AllIds, i \in Kept(w) PROVE stored'[i] > 0
    BY <1>3, <1>5
<1>6. ASSUME NEW rec, NEW r \in Report, RangeStored(rec, r)
      PROVE  RangeStored(rec, r)'
    BY <1>2, <1>4, <1>6 DEF RangeStored
<1>7. \A r \in Report : RangeStored(actual[r], r)'
    BY <1>1, <1>6 DEF DataInv, RangeStored
<1>8. ASSUME NEW v \in Worker, pc'[v] # "idle"
      PROVE  RangeStored(mine[v], rep[v])'
    <2>1. RangeStored(mine[v], rep[v]) /\ rep[v] \in Report
        BY <1>1, <1>8 DEF DataInv
    <2> QED
        BY <1>1, <1>6, <2>1 DEF RangeStored
<1>9. ASSUME NEW v \in Worker, pc'[v] \in {"events", "record"}, NEW i \in Kept(v)
      PROVE  stored'[i] > 0
    <2>1. rep[v] \in Report /\ i \in AllIds
        BY <1>1, <1>2, <1>9 DEF Kept, Removed, Entries, NewIds
    <2>2. CASE v = w
        BY <1>5, <1>9, <2>1, <2>2
    <2>3. CASE v # w
        <3>1. stored[i] > 0
            BY <1>1, <1>9, <2>3 DEF DataInv
        <3> QED
            BY <1>4, <2>1, <3>1
    <2> QED
        BY <2>2, <2>3
<1>10. \A v \in Worker : Kept(v)' = Kept(v)
    BY <1>1 DEF Kept, Removed, Entries, NewIds
<1> QED
    BY <1>1, <1>7, <1>8, <1>9, <1>10 DEF DataInv

\* A worker that leaves its task keeps what the records claim.
LEMMA LeaveKeepsData ==
    ASSUME TypeOK, DataInv, NEW w \in Worker, Leave(w),
           stored' = stored, actual' = actual
    PROVE  DataInv'
<1>1. /\ pc'[w] = "idle"
      /\ \A v \in Worker \ {w} : /\ pc'[v] = pc[v] /\ rep'[v] = rep[v]
                                  /\ mine'[v] = mine[v] /\ snap'[v] = snap[v]
    BY LeaveTypes
<1>2. \A r \in Report : RangeStored(actual[r], r)'
    BY DEF DataInv, RangeStored
<1>3. ASSUME NEW v \in Worker, pc'[v] # "idle"
      PROVE  /\ RangeStored(mine[v], rep[v])'
             /\ pc'[v] \in {"events", "record"} => \A i \in Kept(v)' : stored'[i] > 0
    <2>1. v \in Worker \ {w}
        BY <1>1, <1>3
    <2>2. Kept(v)' = Kept(v)
        BY <1>1, <2>1 DEF Kept, Removed, Entries, NewIds
    <2>3. /\ RangeStored(mine[v], rep[v])
          /\ pc[v] \in {"events", "record"} => \A i \in Kept(v) : stored[i] > 0
        BY <1>1, <1>3, <2>1 DEF DataInv
    <2> QED
        BY <1>1, <2>1, <2>2, <2>3 DEF RangeStored
<1> QED
    BY <1>2, <1>3 DEF DataInv

LEMMA DataStep == IInv /\ [Next]_vars => DataInv'
<1> SUFFICES ASSUME IInv, [Next]_vars PROVE DataInv'
    OBVIOUS
<1> USE ReportAssumption DEF IInv, TypeOK, DataInv, RangeStored, Kept, Removed, Entries, NewIds
<1>1. ASSUME NEW r \in Report, Schedule(r) PROVE DataInv'
    BY <1>1 DEF Schedule
<1>2. ASSUME ExpireKey PROVE DataInv'
    BY <1>2 DEF ExpireKey
<1>3. ASSUME NEW w \in Worker, NEW r \in Report, Receive(w, r) PROVE DataInv'
    BY <1>3 DEF Receive, Goto
<1>4. ASSUME NEW w \in Worker, CannotFetch(w) PROVE DataInv'
    BY <1>4 DEF CannotFetch, Goto
<1>5. ASSUME NEW w \in Worker, Timeout(w) PROVE DataInv'
    BY <1>5 DEF Timeout
<1>6. ASSUME NEW w \in Worker, ReadKey(w) PROVE DataInv'
    BY <1>6 DEF ReadKey, Goto
<1>7. ASSUME NEW w \in Worker, SetKey(w) PROVE DataInv'
    BY <1>7 DEF SetKey, Goto
<1>8. ASSUME NEW w \in Worker, IncrKey(w) PROVE DataInv'
    BY <1>8 DEF IncrKey, Goto
<1>9. ASSUME NEW w \in Worker, GiveUpKey(w) PROVE DataInv'
    BY <1>9 DEF GiveUpKey, Goto
<1>10. ASSUME NEW w \in Worker, Reschedule(w) PROVE DataInv'
    BY <1>10 DEF Reschedule, Goto
<1>11. ASSUME NEW w \in Worker, ReadReport(w) PROVE DataInv'
    BY <1>11 DEF ReadReport, Goto
<1>12. ASSUME NEW w \in Worker, CommitData(w) PROVE DataInv'
    <2>1. /\ DataInv /\ stored \in [AllIds -> Nat] /\ pc \in [Worker -> Labels]
          /\ rep \in [Worker -> Report \cup {NoReport}]
          /\ \A v \in Worker : rep[v] = NoReport <=> pc[v] = "idle"
        BY DEF Labels
    <2> QED
        BY <1>12, <2>1, CommitKeepsData
<1>13. ASSUME NEW w \in Worker, CommitEvents(w) PROVE DataInv'
    BY <1>13 DEF CommitEvents, Goto, AddRows
<1>14. ASSUME NEW w \in Worker, RecordReport(w) PROVE DataInv'
    <2>1. pc[w] = "record" /\ rep[w] \in Report /\ snap[w] \in Nat
        BY <1>14 DEF RecordReport, Advance
    <2>2. RangeStored(NewRange(w), rep[w])
        <3>1. ASSUME NEW i \in Ids(rep[w]) \ NotKept, NewRange(w).first <= i
              PROVE  i \in Kept(w)
            BY <2>1, <3>1 DEF NewRange, Ids, NotKept
        <3> QED
            BY <2>1, <3>1
    <2>3. RangeStored(NothingNew, rep[w])
        BY <2>1 DEF NothingNew, Ids
    <2>4. \/ actual' = actual
          \/ actual' = [actual EXCEPT ![rep[w]] = NewRange(w)]
          \/ actual' = [actual EXCEPT ![rep[w]] = NothingNew]
        BY <1>14 DEF RecordReport, Advance
    <2>5. \A r \in Report : RangeStored(actual'[r], r)
        BY <2>1, <2>2, <2>3, <2>4
    <2>6. /\ stored' = stored /\ mine' = mine
          /\ \A v \in Worker : Kept(v)' = Kept(v) /\ rep'[v] = rep[v]
          /\ \A v \in Worker : pc'[v] = pc[v] \/ (v = w /\ pc'[v] \in {"follow", "unlock"})
        BY <1>14 DEF RecordReport, Advance, Goto, Ids
    <2> QED
        BY <2>1, <2>5, <2>6
<1>15. ASSUME NEW w \in Worker, FollowUp(w) PROVE DataInv'
    BY <1>15 DEF FollowUp, Goto
<1>16. ASSUME NEW w \in Worker, RaiseError(w) PROVE DataInv'
    BY <1>16 DEF RaiseError, Goto, Unsaved
<1>17. ASSUME NEW w \in Worker, EndProcess(w) PROVE DataInv'
    BY <1>17 DEF EndProcess, Goto
<1>18. ASSUME NEW w \in Worker, Finish(w) PROVE DataInv'
    BY <1>18, LeaveKeepsData DEF Finish
<1>19. ASSUME NEW w \in Worker, Crash(w) PROVE DataInv'
    BY <1>19, LeaveKeepsData DEF Crash
<1>20. CASE UNCHANGED vars
    BY <1>20 DEF vars
<1>21. QED
    BY <1>1, <1>2, <1>3, <1>4, <1>5, <1>6, <1>7, <1>8, <1>9, <1>10, <1>11,
       <1>12, <1>13, <1>14, <1>15, <1>16, <1>17, <1>18, <1>19, <1>20 DEF
       Next, Step

LEMMA StepIInv == IInv /\ [Next]_vars => IInv'
BY TypeStep, KeyStep, SnapStep, FollowStep, StoredStep, DataStep DEF IInv

LEMMA Invariance == Spec => []IInv
BY InitIInv, StepIInv, PTL DEF Spec

\* The variables of the model keep to their types, for any set of reports and
\* workers.
THEOREM TypeCorrect == Spec => []TypeOK
<1>1. IInv => TypeOK
    BY DEF IInv
<1> QED
    BY Invariance, <1>1, PTL

\* The key excludes: two workers are inside process() only after a get/set race
\* or after a worker that gave up removed the key.
THEOREM Exclusion == Spec => []ThrottleExcludes
<1>1. IInv => ThrottleExcludes
    BY DEF IInv, KeyInv, ThrottleExcludes
<1> QED
    BY Invariance, <1>1, PTL

\* Readings and their events are stored twice only after the throttle failed or
\* an attempt was cut between the commit of the readings and that of last_id.
THEOREM StoredOnce == Spec => []DuplicateHasCause
<1>1. IInv => DuplicateHasCause
    BY DEF IInv, TypeOK, StoredInv, DuplicateHasCause
<1> QED
    BY Invariance, <1>1, PTL

\* The follow-up work of a report is done at most once while the throttle works.
THEOREM FollowedOnce == Spec => []FollowUpOnce
<1>1. IInv => FollowUpOnce
    BY DEF IInv, TypeOK, FollowInv, FollowUpOnce
<1> QED
    BY Invariance, <1>1, PTL

\* Whatever fails, a StreamerReport never claims a reading that is not stored.
THEOREM RecordedIsStored == Spec => []DataBeforeRecord
<1>1. IInv => DataBeforeRecord
    BY DEF IInv, DataInv, RangeStored, DataBeforeRecord
<1> QED
    BY Invariance, <1>1, PTL

\* Streamer.last_id never goes back while the throttle works.
THEOREM LastIdMonotone == Spec => LastIdGrows
<1>1. IInv /\ [Next]_vars => [lastId' >= lastId \/ raced \/ gaveUp]_vars
    <2> SUFFICES ASSUME IInv, Next, ~raced, ~gaveUp PROVE lastId' >= lastId
        OBVIOUS
    <2> USE ReportAssumption DEF IInv, TypeOK
    <2>1. ASSUME NEW w \in Worker, RecordReport(w) PROVE lastId' >= lastId
        <3>1. snap[w] = lastId /\ rep[w] \in Report
            BY <2>1 DEF RecordReport, SnapInv
        <3>2. CASE Entries(w) # {}
            <4>1. Hi[rep[w]] > lastId
                BY <3>1, <3>2 DEF Entries, NewIds, Ids
            <4> QED
                BY <2>1, <3>1, <3>2, <4>1 DEF RecordReport, Advance
        <3>3. CASE Entries(w) = {}
            BY <2>1, <3>3 DEF RecordReport, Advance
        <3> QED
            BY <3>2, <3>3
    <2>2. CASE lastId' = lastId
        BY <2>2
    <2>3. (\E w \in Worker : RecordReport(w)) \/ lastId' = lastId
        BY ZenonT(60) DEF Next, Step, Schedule, ExpireKey, Receive, CannotFetch, Timeout, ReadKey,
               SetKey, IncrKey, GiveUpKey, Reschedule, ReadReport, CommitData,
               CommitEvents, FollowUp, RaiseError, EndProcess, Finish, Crash
    <2> QED
        BY <2>1, <2>2, <2>3
<1> QED
    BY Invariance, <1>1, PTL DEF Spec, LastIdGrows

-----------------------------------------------------------------------------
(***************************************************************************)
(* The refinement of ReportLog.                                            *)
(***************************************************************************)

\* What the log sees of the state is the same afterwards.
LogUnchanged == UNCHANGED <<stored, lastId, followed, raced, gaveUp>>

\* A worker inside process() that owns the streamer sees the mark of the log.
LEMMA FreshEntries ==
    ASSUME IInv, ~raced, ~gaveUp, NEW w \in Worker,
           pc[w] \in {"commit", "events", "record"}
    PROVE  /\ rep[w] \in Report
           /\ Log!Fresh(rep[w]) = Entries(w) /\ Log!Kept(rep[w]) = Kept(w)
<1>1. snap[w] = lastId /\ rep[w] \in Report
    BY DEF IInv, TypeOK, SnapInv
<1>2. Log!Fresh(rep[w]) = Entries(w)
    BY <1>1 DEF Log!Fresh, Entries, NewIds, Ids
<1> QED
    BY <1>1, <1>2 DEF Log!Kept, Kept

\* The readings of the log are those of the table.
LEMMA LogReadings == AllIds = Log!Reading
BY DEF AllIds, Ids, Log!Reading

\* Committing the readings adds the report to the log.
LEMMA CommitIsAdd ==
    ASSUME IInv, ~raced, ~gaveUp, NEW w \in Worker, CommitData(w)
    PROVE  Log!Add(rep[w]) /\ rep[w] \in Report
<1>1. rep[w] \in Report /\ Log!Kept(rep[w]) = Kept(w)
    BY FreshEntries DEF CommitData
<1>2. stored' = AddRows(stored, Kept(w)) /\ UNCHANGED <<lastId, followed, raced, gaveUp>>
    BY DEF CommitData
<1>3. stored' = [i \in Log!Reading |-> IF i \in Log!Kept(rep[w]) THEN stored[i] + 1
                                                                ELSE stored[i]]
    BY <1>1, <1>2, LogReadings DEF AddRows
<1> QED
    BY <1>1, <1>2, <1>3 DEF Log!Add

\* Recording the report advances the mark, if there was something to store.
LEMMA RecordIsAdvance ==
    ASSUME IInv, ~raced, ~gaveUp, NEW w \in Worker, RecordReport(w)
    PROVE  LogUnchanged \/ (Log!Advance(rep[w]) /\ rep[w] \in Report)
<1>1. /\ pc[w] = "record"
      /\ UNCHANGED <<stored, followed, raced, gaveUp>>
      /\ IF Entries(w) # {} THEN lastId' = Hi[rep[w]] ELSE lastId' = lastId
    BY DEF RecordReport, Advance
<1>2. /\ rep[w] \in Report
      /\ Log!Fresh(rep[w]) = Entries(w) /\ Log!Kept(rep[w]) = Kept(w)
    BY <1>1, FreshEntries
<1>3. \A i \in Kept(w) : stored[i] > 0
    BY <1>1 DEF IInv, DataInv
<1> QED
    BY <1>1, <1>2, <1>3 DEF Log!Advance, LogUnchanged

\* The follow-up work serves a report that the mark has passed, once.
LEMMA FollowIsServe ==
    ASSUME IInv, ~raced, ~gaveUp, NEW w \in Worker, FollowUp(w)
    PROVE  Log!Serve(rep[w]) /\ rep[w] \in Report
<1>1. /\ pc[w] = "follow" /\ rep[w] \in Report
      /\ followed[rep[w]] = 0 /\ Hi[rep[w]] <= lastId
    BY DEF FollowUp, IInv, TypeOK, FollowInv
<1>2. /\ followed' = [followed EXCEPT ![rep[w]] = @ + 1]
      /\ UNCHANGED <<stored, lastId, raced, gaveUp>>
    BY DEF FollowUp
<1>3. followed' = [followed EXCEPT ![rep[w]] = 1]
    BY <1>1, <1>2 DEF IInv, TypeOK
<1> QED
    BY <1>1, <1>2, <1>3 DEF Log!Serve

\* The steps that the log does not see, or sees as the beginning of an overlap.
LEMMA OtherSteps ==
    ASSUME [Next]_vars,
           \A w \in Worker : ~CommitData(w) /\ ~RecordReport(w) /\ ~FollowUp(w)
    PROVE  /\ UNCHANGED <<stored, lastId, followed>>
           /\ raced \/ gaveUp => raced' \/ gaveUp'
<1>1. CASE UNCHANGED vars
    BY <1>1 DEF vars
<1>2. CASE Next
    <2>1. ASSUME NEW w \in Worker, SetKey(w) \/ GiveUpKey(w)
          PROVE  UNCHANGED <<stored, lastId, followed>>
        BY <2>1 DEF SetKey, GiveUpKey
    <2>2. ASSUME NEW w \in Worker, SetKey(w)
          PROVE  raced \/ gaveUp => raced' \/ gaveUp'
        <3>1. (raced' = (raced \/ key # 0)) /\ gaveUp' = gaveUp
            BY <2>2 DEF SetKey
        <3> QED
            BY <3>1, Zenon
    <2>3. ASSUME NEW w \in Worker, GiveUpKey(w)
          PROVE  raced \/ gaveUp => raced' \/ gaveUp'
        BY <2>3, Zenon DEF GiveUpKey
    <2>4. CASE \E w \in Worker : SetKey(w) \/ GiveUpKey(w)
        BY <2>1, <2>2, <2>3, <2>4, Zenon
    <2>5. CASE \A w \in Worker : ~SetKey(w) /\ ~GiveUpKey(w)
        <3>1. LogUnchanged
            BY ZenonT(60), <1>2, <2>5 DEF LogUnchanged, Next, Step, Schedule, ExpireKey, Receive,
                   CannotFetch, Timeout, ReadKey, IncrKey, Reschedule, ReadReport,
                   CommitEvents, RaiseError, EndProcess, Finish, Crash
        <3> QED
            BY <3>1 DEF LogUnchanged
    <2> QED
        BY <2>4, <2>5, Zenon
<1> QED
    BY <1>1, <1>2

\* No step takes a reading out of the table, nor puts the throttle right again.
LEMMA TableGrows ==
    ASSUME IInv, [Next]_vars
    PROVE  /\ \A i \in AllIds : stored'[i] >= stored[i]
           /\ raced \/ gaveUp => raced' \/ gaveUp'
<1>1. stored \in [AllIds -> Nat]
    BY DEF IInv, TypeOK
<1>2. ASSUME NEW w \in Worker, CommitData(w)
      PROVE  stored' = AddRows(stored, Kept(w)) /\ UNCHANGED <<raced, gaveUp>>
    BY <1>2 DEF CommitData
<1>3. ASSUME NEW w \in Worker, RecordReport(w) \/ FollowUp(w)
      PROVE  UNCHANGED <<stored, raced, gaveUp>>
    BY <1>3 DEF RecordReport, FollowUp
<1>4. CASE \E w \in Worker : CommitData(w)
    <2>1. PICK w \in Worker : CommitData(w)
        BY <1>4
    <2>2. \A i \in AllIds : stored'[i] >= stored[i]
        BY <1>1, <1>2, <2>1 DEF AddRows
    <2> QED
        BY <1>2, <2>1, <2>2
<1>5. CASE \E w \in Worker : RecordReport(w) \/ FollowUp(w)
    BY <1>1, <1>3, <1>5
<1>6. CASE \A w \in Worker : ~CommitData(w) /\ ~RecordReport(w) /\ ~FollowUp(w)
    BY <1>1, <1>6, OtherSteps
<1> QED
    BY <1>4, <1>5, <1>6

\* The processing of reports implements the log, for any reports and workers and
\* any number of faults: readings are added above last_id, last_id advances over
\* stored readings, and follow-up work is done once and after that, for as long
\* as no key was set over a key and nobody gave up waiting.
THEOREM ReportsImplementLog == Spec => ImplementsReportLog
<1>1. Init => Log!Init
    BY LogReadings DEF Init, Log!Init
<1>2. IInv /\ [Next]_vars => [Log!Next]_(Log!logVars)
    <2> SUFFICES ASSUME IInv, [Next]_vars
                 PROVE  Log!Next \/ UNCHANGED Log!logVars
        OBVIOUS
    <2>1. LogUnchanged => UNCHANGED Log!logVars
        BY DEF LogUnchanged, Log!logVars
    <2>2. CASE raced \/ gaveUp
        <3>1. raced' \/ gaveUp'
            BY <2>2, TableGrows
        <3>2. \A i \in Log!Reading : stored'[i] >= stored[i]
            BY TableGrows, LogReadings
        <3>3. Log!Disorder
            BY <2>2, <3>1, <3>2 DEF Log!Disorder
        <3> QED
            BY <3>3 DEF Log!Next
    <2>3. CASE ~raced /\ ~gaveUp
        <3>1. ASSUME NEW w \in Worker, CommitData(w) PROVE Log!Next
            BY <2>3, <3>1, CommitIsAdd DEF Log!Next
        <3>2. ASSUME NEW w \in Worker, RecordReport(w)
              PROVE  Log!Next \/ UNCHANGED Log!logVars
            <4>1. LogUnchanged \/ (Log!Advance(rep[w]) /\ rep[w] \in Report)
                BY <2>3, <3>2, RecordIsAdvance
            <4> QED
                BY <2>1, <4>1 DEF Log!Next
        <3>3. ASSUME NEW w \in Worker, FollowUp(w) PROVE Log!Next
            BY <2>3, <3>3, FollowIsServe DEF Log!Next
        <3>4. CASE \A w \in Worker : ~CommitData(w) /\ ~RecordReport(w) /\ ~FollowUp(w)
            <4>1. UNCHANGED <<stored, lastId, followed>>
                BY <3>4, OtherSteps
            <4>2. CASE raced' \/ gaveUp'
                <5>1. Log!Overlap
                    BY <4>1, <4>2 DEF Log!Overlap
                <5> QED
                    BY <5>1 DEF Log!Next
            <4>3. CASE ~(raced' \/ gaveUp')
                BY <2>3, <4>1, <4>3 DEF Log!logVars
            <4> QED
                BY <4>2, <4>3
        <3> QED
            BY <3>1, <3>2, <3>3, <3>4
    <2> QED
        BY <2>2, <2>3
<1> QED
    BY Invariance, <1>1, <1>2, PTL DEF Spec, ImplementsReportLog, Log!Spec

-----------------------------------------------------------------------------
(***************************************************************************)
(* No report is forgotten: the messages that an attempt holds are counted  *)
(* against those that the attempts of the report may still delete.         *)
(***************************************************************************)

\* How an attempt ends is known when it leaves process().
VerdictInv ==
    \A w \in Worker :
        /\ verdict[w] = "busy" => pc[w] = "finish"
        /\ verdict[w] \in {"hard", "database"} => pc[w] \in {"unlock", "finish"}
        /\ pc[w] = "finish" /\ verdict[w] = "ok" => rep[w] \in handled

\* The workers whose message of r comes back when they die, and those that have
\* scheduled r again and will delete a message.
Carriers(r) == {w \in Worker : held[w] /\ rep[w] = r}
Debtors(r) == {w \in Worker : verdict[w] = "busy" /\ rep[w] = r}

Settled(r) == r \in handled \cup failed
Copies(r) == msgs[r] + Cardinality(Carriers(r))

\* One message of an open report remains when every debtor has deleted one.
CountInv ==
    \A r \in Report :
        /\ IsFiniteSet(Carriers(r)) /\ IsFiniteSet(Debtors(r))
        /\ ~Settled(r) =>
              Copies(r) >= Cardinality(Debtors(r)) + (IF r \in uploaded THEN 1 ELSE 0)

ForgetInv == IInv /\ VerdictInv /\ CountInv

-----------------------------------------------------------------------------
\* A reading is in the table or last_id was past a report that begins after it.
Accounted(i) == stored[i] > 0 \/ \E q \in Report : Lo[q] > i /\ Hi[q] <= peak

\* Every reading up to m that is to be kept is.
Passed(m) == \A i \in AllIds \ NotKept : i <= m => Accounted(i)

\* last_id, and each value of it that a worker has read, is such an m; so are the
\* readings of the reports whose attempts came to their end.
SkipInv ==
    /\ Passed(lastId)
    /\ \A w \in Worker : Passed(snap[w])
    /\ \A w \in Worker :
          pc[w] \in {"follow", "unlock"} /\ verdict[w] = "ok" =>
              \A i \in Ids(rep[w]) \ NotKept : Accounted(i)
    /\ \A r \in handled : \A i \in Ids(r) \ NotKept : Accounted(i)

-----------------------------------------------------------------------------
\* Two workers that have one report, and a worker whose row has fallen behind the
\* one in the database, have a report in shared.
SharedInv ==
    /\ \A v, w \in Worker :
          v # w /\ rep[v] = rep[w] /\ rep[v] # NoReport => rep[v] \in shared
    /\ \A w \in Worker :
          /\ pc[w] \in {"get", "set", "incr", "giveup", "resched", "read"}
          /\ actual[rep[w]].done /\ ~mine[w].done
          => rep[w] \in shared

-----------------------------------------------------------------------------
(* The steps. *)

\* A verdict is given where process() is left, and kept until the worker leaves.
LEMMA VerdictStep == IInv /\ VerdictInv /\ [Next]_vars => VerdictInv'
<1> SUFFICES ASSUME IInv /\ VerdictInv, [Next]_vars PROVE VerdictInv'
    OBVIOUS
<1> USE DEF IInv, TypeOK, VerdictInv
<1>1. ASSUME NEW r \in Report, Schedule(r) PROVE VerdictInv'
    BY <1>1 DEF Schedule
<1>2. ASSUME ExpireKey PROVE VerdictInv'
    BY <1>2 DEF ExpireKey
<1>3. ASSUME NEW w \in Worker, NEW r \in Report, Receive(w, r) PROVE VerdictInv'
    BY <1>3 DEF Receive, Goto
<1>4. ASSUME NEW w \in Worker, CannotFetch(w) PROVE VerdictInv'
    BY <1>4 DEF CannotFetch, Goto
<1>5. ASSUME NEW w \in Worker, Timeout(w) PROVE VerdictInv'
    BY <1>5 DEF Timeout
<1>6. ASSUME NEW w \in Worker, ReadKey(w) PROVE VerdictInv'
    BY <1>6 DEF ReadKey, Goto
<1>7. ASSUME NEW w \in Worker, SetKey(w) PROVE VerdictInv'
    BY <1>7 DEF SetKey, Goto
<1>8. ASSUME NEW w \in Worker, IncrKey(w) PROVE VerdictInv'
    BY <1>8 DEF IncrKey, Goto
<1>9. ASSUME NEW w \in Worker, GiveUpKey(w) PROVE VerdictInv'
    BY <1>9 DEF GiveUpKey, Goto
<1>10. ASSUME NEW w \in Worker, Reschedule(w) PROVE VerdictInv'
    BY <1>10 DEF Reschedule, Goto
<1>11. ASSUME NEW w \in Worker, ReadReport(w) PROVE VerdictInv'
    BY <1>11 DEF ReadReport, Goto
<1>12. ASSUME NEW w \in Worker, CommitData(w) PROVE VerdictInv'
    BY <1>12 DEF CommitData, Goto
<1>13. ASSUME NEW w \in Worker, CommitEvents(w) PROVE VerdictInv'
    BY <1>13 DEF CommitEvents, Goto
<1>14. ASSUME NEW w \in Worker, RecordReport(w) PROVE VerdictInv'
    BY <1>14 DEF RecordReport, Goto
<1>15. ASSUME NEW w \in Worker, FollowUp(w) PROVE VerdictInv'
    BY <1>15 DEF FollowUp, Goto
<1>16. ASSUME NEW w \in Worker, RaiseError(w) PROVE VerdictInv'
    BY <1>16 DEF RaiseError, Goto
<1>17. ASSUME NEW w \in Worker, EndProcess(w) PROVE VerdictInv'
    BY <1>17 DEF EndProcess, Goto
<1>18. ASSUME NEW w \in Worker, Finish(w) PROVE VerdictInv'
    <2>1. handled' = handled /\ Leave(w)
        BY <1>18 DEF Finish
    <2> QED
        BY <2>1, LeaveTypes
<1>19. ASSUME NEW w \in Worker, Crash(w) PROVE VerdictInv'
    <2>1. handled' = handled /\ Leave(w)
        BY <1>19 DEF Crash
    <2> QED
        BY <2>1, LeaveTypes
<1>20. CASE UNCHANGED vars
    BY <1>20 DEF vars
<1> HIDE DEF IInv, TypeOK, VerdictInv
<1> QED
    BY <1>1, <1>2, <1>3, <1>4, <1>5, <1>6, <1>7, <1>8, <1>9, <1>10, <1>11, <1>12,
       <1>13, <1>14, <1>15, <1>16, <1>17, <1>18, <1>19, <1>20 DEF Next, Step

\* Taking a worker out of a finite set, or putting one in.
LEMMA Taken ==
    ASSUME NEW S, IsFiniteSet(S), NEW x
    PROVE  /\ IsFiniteSet(S \ {x}) /\ Cardinality(S) \in Nat
           /\ Cardinality(S \ {x}) = IF x \in S THEN Cardinality(S) - 1 ELSE Cardinality(S)
BY FS_RemoveElement, FS_CardinalityType

LEMMA Added ==
    ASSUME NEW S, IsFiniteSet(S), NEW x
    PROVE  /\ IsFiniteSet(S \cup {x}) /\ Cardinality(S) \in Nat
           /\ Cardinality(S \cup {x}) = IF x \in S THEN Cardinality(S) ELSE Cardinality(S) + 1
BY FS_AddElement, FS_CardinalityType

\* The count of a report holds when nothing of it has changed but that it may be
\* settled or have more messages.
LEMMA CountKept ==
    ASSUME CountInv, TypeOK, NEW r \in Report,
           Carriers(r)' = Carriers(r), Debtors(r)' = Debtors(r), msgs'[r] \in Nat,
           IF r \in uploaded' THEN r \in uploaded \/ msgs'[r] >= msgs[r] + 1
                              ELSE r \notin uploaded,
           msgs'[r] >= msgs[r], Settled(r) => Settled(r)'
    PROVE  /\ IsFiniteSet(Carriers(r)') /\ IsFiniteSet(Debtors(r)')
           /\ ~Settled(r)' =>
                 Copies(r)' >= Cardinality(Debtors(r)') + (IF r \in uploaded' THEN 1 ELSE 0)
<1>1. /\ IsFiniteSet(Carriers(r)) /\ IsFiniteSet(Debtors(r))
      /\ ~Settled(r) =>
            Copies(r) >= Cardinality(Debtors(r)) + (IF r \in uploaded THEN 1 ELSE 0)
    BY DEF CountInv
<1>2. Cardinality(Carriers(r)) \in Nat /\ Cardinality(Debtors(r)) \in Nat
    BY <1>1, FS_CardinalityType
<1>3. Copies(r) = msgs[r] + Cardinality(Carriers(r))
    BY DEF Copies
<1>4. Copies(r)' = msgs'[r] + Cardinality(Carriers(r))
    BY DEF Copies
<1>5. msgs[r] \in Nat
    BY DEF TypeOK
<1> QED
    BY <1>1, <1>2, <1>3, <1>4, <1>5

\* ... and when an attempt of it has moved a message, or has taken one away and is
\* no debtor any more.
LEMMA CountMoved ==
    ASSUME CountInv, TypeOK, NEW r \in Report, NEW C, NEW D, NEW n \in Nat,
           IsFiniteSet(C), IsFiniteSet(D),
           Carriers(r)' = C, Debtors(r)' = D, msgs'[r] = n,
           n + Cardinality(C) - Cardinality(D)
               >= msgs[r] + Cardinality(Carriers(r)) - Cardinality(Debtors(r)),
           r \in uploaded' => r \in uploaded, Settled(r) => Settled(r)'
    PROVE  /\ IsFiniteSet(Carriers(r)') /\ IsFiniteSet(Debtors(r)')
           /\ ~Settled(r)' =>
                 Copies(r)' >= Cardinality(Debtors(r)') + (IF r \in uploaded' THEN 1 ELSE 0)
<1>1. /\ IsFiniteSet(Carriers(r)) /\ IsFiniteSet(Debtors(r))
      /\ ~Settled(r) =>
            Copies(r) >= Cardinality(Debtors(r)) + (IF r \in uploaded THEN 1 ELSE 0)
    BY DEF CountInv
<1>2. /\ Cardinality(Carriers(r)) \in Nat /\ Cardinality(Debtors(r)) \in Nat
      /\ Cardinality(C) \in Nat /\ Cardinality(D) \in Nat
    BY <1>1, FS_CardinalityType
<1>3. Copies(r) = msgs[r] + Cardinality(Carriers(r))
    BY DEF Copies
<1>4. Copies(r)' = n + Cardinality(C)
    BY DEF Copies
<1>5. msgs[r] \in Nat
    BY DEF TypeOK
<1> QED
    BY <1>1, <1>2, <1>3, <1>4, <1>5

\* What is left of the places of the reports when a worker leaves.
LEMMA LeaveDebtors ==
    ASSUME TypeOK, NEW w \in Worker, Leave(w), NEW r \in Report
    PROVE  Debtors(r)' = Debtors(r) \ {w}
<1>1. /\ rep'[w] = NoReport /\ verdict'[w] = "ok"
      /\ \A v \in Worker \ {w} : rep'[v] = rep[v] /\ verdict'[v] = verdict[v]
    BY LeaveTypes
<1> QED
    BY <1>1 DEF Debtors

LEMMA LeaveCarriers ==
    ASSUME TypeOK, NEW w \in Worker, Leave(w), NEW r \in Report, NEW v \in Worker,
           held' = [held EXCEPT ![v] = FALSE], v = w \/ ~held[w]
    PROVE  Carriers(r)' = Carriers(r) \ {v}
<1>1. /\ rep'[w] = NoReport /\ NoReport # r
      /\ \A u \in Worker \ {w} : rep'[u] = rep[u]
    BY LeaveTypes, ReportAssumption
<1>2. held \in [Worker -> BOOLEAN]
    BY DEF TypeOK
<1> QED
    BY <1>1, <1>2 DEF Carriers

LEMMA LeaveEmptyHanded ==
    ASSUME TypeOK, NEW w \in Worker, Leave(w), NEW r \in Report, ~held[w], held' = held
    PROVE  Carriers(r)' = Carriers(r)
<1>1. /\ rep'[w] = NoReport /\ NoReport # r
      /\ \A u \in Worker \ {w} : rep'[u] = rep[u]
    BY LeaveTypes, ReportAssumption
<1> QED
    BY <1>1 DEF Carriers

\* A worker that leaves and has put its message back, if it had one.
LEMMA BackCounts ==
    ASSUME CountInv, TypeOK, NEW w \in Worker, Leave(w), rep[w] \in Report,
           msgs' = IF held[w] THEN [msgs EXCEPT ![rep[w]] = @ + 1] ELSE msgs,
           held' = [held EXCEPT ![w] = FALSE], uploaded' = uploaded,
           \A r \in Report : Settled(r) => Settled(r)'
    PROVE  CountInv'
<1> SUFFICES ASSUME NEW r \in Report
    PROVE  /\ IsFiniteSet(Carriers(r)') /\ IsFiniteSet(Debtors(r)')
           /\ ~Settled(r)' =>
                 Copies(r)' >= Cardinality(Debtors(r)') + (IF r \in uploaded' THEN 1 ELSE 0)
    BY Zenon DEF CountInv
<1>1. /\ IsFiniteSet(Carriers(r)) /\ IsFiniteSet(Debtors(r))
      /\ msgs \in [Report -> Nat] /\ held \in [Worker -> BOOLEAN]
    BY DEF CountInv, TypeOK
<1>2. Debtors(r)' = Debtors(r) \ {w} /\ Carriers(r)' = Carriers(r) \ {w}
    BY LeaveDebtors, LeaveCarriers
<1>3. /\ IsFiniteSet(Debtors(r) \ {w}) /\ Cardinality(Debtors(r)) \in Nat
      /\ Cardinality(Debtors(r) \ {w}) \in Nat
      /\ Cardinality(Debtors(r) \ {w}) <= Cardinality(Debtors(r))
    <2>1. IsFiniteSet(Debtors(r) \ {w})
        BY <1>1, Taken
    <2>2. Cardinality(Debtors(r) \ {w}) \in Nat /\ Cardinality(Debtors(r)) \in Nat
        BY <1>1, <2>1, FS_CardinalityType
    <2>3. Cardinality(Debtors(r) \ {w}) =
             IF w \in Debtors(r) THEN Cardinality(Debtors(r)) - 1 ELSE Cardinality(Debtors(r))
        BY <1>1, Taken
    <2> QED
        BY <2>1, <2>2, <2>3
<1>4. /\ IsFiniteSet(Carriers(r) \ {w}) /\ Cardinality(Carriers(r)) \in Nat
      /\ Cardinality(Carriers(r) \ {w}) \in Nat
      /\ Cardinality(Carriers(r) \ {w}) =
            IF w \in Carriers(r) THEN Cardinality(Carriers(r)) - 1 ELSE Cardinality(Carriers(r))
    BY <1>1, Taken, FS_CardinalityType
<1>5. w \in Carriers(r) <=> held[w] /\ rep[w] = r
    BY DEF Carriers
<1>6. msgs'[r] = IF w \in Carriers(r) THEN msgs[r] + 1 ELSE msgs[r]
    BY <1>1, <1>5
<1>7. msgs[r] \in Nat /\ msgs'[r] \in Nat
    BY <1>1, <1>6
<1>8. msgs'[r] + Cardinality(Carriers(r) \ {w}) - Cardinality(Debtors(r) \ {w})
          >= msgs[r] + Cardinality(Carriers(r)) - Cardinality(Debtors(r))
    BY <1>3, <1>4, <1>6, <1>7
<1> QED
    BY <1>2, <1>3, <1>4, <1>7, <1>8, CountMoved

\* A worker whose attempt was settled or scheduled again leaves, and at most one
\* message of its report is deleted.
LEMMA DeleteCounts ==
    ASSUME CountInv, TypeOK, VerdictInv, NEW w \in Worker, Finish(w), verdict[w] # "database"
    PROVE  CountInv'
<1>1. /\ Leave(w) /\ uploaded' = uploaded /\ handled' = handled /\ pc[w] = "finish"
      /\ failed' = IF verdict[w] = "hard" THEN failed \cup {rep[w]} ELSE failed
    BY DEF Finish
<1> SUFFICES ASSUME NEW r \in Report
    PROVE  /\ IsFiniteSet(Carriers(r)') /\ IsFiniteSet(Debtors(r)')
           /\ ~Settled(r)' =>
                 Copies(r)' >= Cardinality(Debtors(r)') + (IF r \in uploaded' THEN 1 ELSE 0)
    BY Zenon DEF CountInv
<1>2. /\ IsFiniteSet(Carriers(r)) /\ IsFiniteSet(Debtors(r))
      /\ msgs \in [Report -> Nat] /\ held \in [Worker -> BOOLEAN]
      /\ rep[w] \in Report
    BY <1>1 DEF CountInv, TypeOK
<1>3. \E v \in Worker :
        \/ /\ held' = [held EXCEPT ![v] = FALSE]
           /\ msgs' = msgs /\ (v = w \/ ~held[w]) /\ rep[v] = rep[w]
        \/ /\ held' = held /\ ~held[w] /\ msgs[rep[w]] > 0
           /\ msgs' = [msgs EXCEPT ![rep[w]] = @ - 1]
    <2>1. \/ held' = [held EXCEPT ![w] = FALSE] /\ msgs' = msgs
          \/ /\ held' = held /\ ~held[w] /\ msgs[rep[w]] > 0
             /\ msgs' = [msgs EXCEPT ![rep[w]] = @ - 1]
          \/ /\ ~held[w] /\ msgs' = msgs
             /\ \E v \in Worker \ {w} :
                   held' = [held EXCEPT ![v] = FALSE] /\ rep[v] = rep[w]
        BY Zenon DEF Finish
    <2> QED
        BY <1>2, <2>1
<1>4. PICK v \in Worker :
        \/ /\ held' = [held EXCEPT ![v] = FALSE]
           /\ msgs' = msgs /\ (v = w \/ ~held[w]) /\ rep[v] = rep[w]
        \/ /\ held' = held /\ ~held[w] /\ msgs[rep[w]] > 0
           /\ msgs' = [msgs EXCEPT ![rep[w]] = @ - 1]
    BY <1>3
<1>5. Debtors(r)' = Debtors(r) \ {w}
    BY <1>1, LeaveDebtors
<1>6. Settled(r) => Settled(r)'
    BY <1>1 DEF Settled
<1>7. CASE r # rep[w]
    <2>1. Debtors(r)' = Debtors(r)
        BY <1>5, <1>7 DEF Debtors
    <2>2. Carriers(r)' = Carriers(r)
        <3>1. w \notin Carriers(r)
            BY <1>7 DEF Carriers
        <3>2. CASE held' = held /\ ~held[w]
            BY <1>1, <3>2, LeaveEmptyHanded
        <3>3. CASE /\ held' = [held EXCEPT ![v] = FALSE] /\ (v = w \/ ~held[w])
                   /\ rep[v] = rep[w]
            <4>1. v \notin Carriers(r)
                BY <1>7, <3>3 DEF Carriers
            <4>2. Carriers(r)' = Carriers(r) \ {v}
                BY <1>1, <3>3, LeaveCarriers
            <4> QED
                BY <4>1, <4>2
        <3> QED
            BY <1>4, <3>2, <3>3
    <2>3. msgs'[r] = msgs[r] /\ msgs[r] \in Nat
        BY <1>2, <1>4, <1>7
    <2> QED
        BY <1>1, <1>6, <2>1, <2>2, <2>3, CountKept
<1>8. CASE r = rep[w]
    <2>1. verdict[w] = "ok" \/ verdict[w] = "hard" \/ verdict[w] = "busy"
        BY DEF TypeOK
    <2>2. verdict[w] # "busy" => Settled(r)'
        BY <1>1, <1>8, <2>1 DEF Settled, VerdictInv
    <2>3. /\ IsFiniteSet(Debtors(r) \ {w}) /\ Cardinality(Debtors(r)) \in Nat
          /\ Cardinality(Debtors(r) \ {w}) \in Nat
          /\ verdict[w] = "busy" => Cardinality(Debtors(r) \ {w}) = Cardinality(Debtors(r)) - 1
        <3>1. verdict[w] = "busy" => w \in Debtors(r)
            BY <1>8 DEF Debtors
        <3> QED
            BY <1>2, <3>1, Taken, FS_CardinalityType
    <2>4. PICK C : /\ Carriers(r)' = C /\ IsFiniteSet(C) /\ Cardinality(C) \in Nat
                   /\ msgs'[r] \in Nat
                   /\ msgs'[r] + Cardinality(C) >= msgs[r] + Cardinality(Carriers(r)) - 1
        <3>1. msgs[r] \in Nat /\ Cardinality(Carriers(r)) \in Nat
            BY <1>2, FS_CardinalityType
        <3>2. CASE /\ held' = held /\ ~held[w] /\ msgs[rep[w]] > 0
                   /\ msgs' = [msgs EXCEPT ![rep[w]] = @ - 1]
            <4>1. Carriers(r)' = Carriers(r)
                BY <1>1, <3>2, LeaveEmptyHanded
            <4>2. msgs'[r] = msgs[r] - 1 /\ msgs'[r] \in Nat
                BY <1>2, <1>8, <3>1, <3>2
            <4>3. msgs'[r] + Cardinality(Carriers(r)) >= msgs[r] + Cardinality(Carriers(r)) - 1
                BY <3>1, <4>2
            <4> QED
                BY <1>2, <3>1, <4>1, <4>2, <4>3
        <3>3. CASE /\ held' = [held EXCEPT ![v] = FALSE]
                   /\ msgs' = msgs /\ (v = w \/ ~held[w])
            <4>1. Carriers(r)' = Carriers(r) \ {v}
                BY <1>1, <3>3, LeaveCarriers
            <4>3. /\ IsFiniteSet(Carriers(r) \ {v}) /\ Cardinality(Carriers(r) \ {v}) \in Nat
                  /\ Cardinality(Carriers(r) \ {v}) >= Cardinality(Carriers(r)) - 1
                <5>1. IsFiniteSet(Carriers(r) \ {v})
                    BY <1>2, Taken
                <5>2. Cardinality(Carriers(r) \ {v}) \in Nat
                    BY <5>1, FS_CardinalityType
                <5>3. Cardinality(Carriers(r) \ {v}) =
                        IF v \in Carriers(r) THEN Cardinality(Carriers(r)) - 1
                                             ELSE Cardinality(Carriers(r))
                    BY <1>2, Taken
                <5> QED
                    BY <3>1, <5>1, <5>2, <5>3
            <4>4. msgs'[r] + Cardinality(Carriers(r) \ {v})
                      >= msgs[r] + Cardinality(Carriers(r)) - 1
                BY <3>1, <3>3, <4>3
            <4> QED
                BY <3>1, <3>3, <4>1, <4>3, <4>4
        <3> QED
            BY <1>4, <3>2, <3>3
    <2>5. CASE verdict[w] = "busy"
        <3>1. msgs[r] \in Nat /\ Cardinality(Carriers(r)) \in Nat
            BY <1>2, FS_CardinalityType
        <3>2. msgs'[r] + Cardinality(C) - Cardinality(Debtors(r) \ {w})
                  >= msgs[r] + Cardinality(Carriers(r)) - Cardinality(Debtors(r))
            BY <2>3, <2>4, <2>5, <3>1
        <3> QED
            BY <1>1, <1>5, <1>6, <2>3, <2>4, <3>2, CountMoved
    <2>6. CASE verdict[w] # "busy"
        BY <1>5, <2>2, <2>3, <2>4, <2>6
    <2> QED
        BY <2>5, <2>6
<1> QED
    BY <1>7, <1>8

\* No step takes the last message of an open report away.
LEMMA CountStep == ForgetInv /\ [Next]_vars => CountInv'
<1> SUFFICES ASSUME ForgetInv, [Next]_vars PROVE CountInv'
    OBVIOUS
<1>0. CountInv /\ VerdictInv /\ TypeOK
    BY DEF ForgetInv, IInv
<1> USE <1>0
<1>1. ASSUME NEW r \in Report, Schedule(r) PROVE CountInv'
    <2>1. \A q \in Report : Carriers(q)' = Carriers(q) /\ Debtors(q)' = Debtors(q)
        BY <1>1 DEF Schedule, Carriers, Debtors
    <2>2. /\ \A q \in Report : Settled(q) => Settled(q)'
          /\ uploaded' = uploaded \cup {r} /\ msgs \in [Report -> Nat]
          /\ msgs' = [msgs EXCEPT ![r] = @ + 1] /\ r \notin uploaded
        BY <1>1 DEF Schedule, TypeOK, Settled
    <2>3. ASSUME NEW q \in Report
          PROVE  /\ IsFiniteSet(Carriers(q)') /\ IsFiniteSet(Debtors(q)')
                 /\ ~Settled(q)' =>
                       Copies(q)' >= Cardinality(Debtors(q)') + (IF q \in uploaded' THEN 1 ELSE 0)
        <3>1. /\ msgs'[q] \in Nat /\ msgs'[q] >= msgs[q]
              /\ IF q \in uploaded' THEN q \in uploaded \/ msgs'[q] >= msgs[q] + 1
                                    ELSE q \notin uploaded
            BY <2>2, <2>3
        <3> QED
            BY <2>1, <2>2, <3>1, CountKept
    <2> QED
        BY <2>3, Zenon DEF CountInv
<1>2. ASSUME ExpireKey PROVE CountInv'
    <2>1. \A r \in Report : Carriers(r)' = Carriers(r)
        BY <1>2 DEF ExpireKey, Carriers
    <2>2. \A r \in Report : Debtors(r)' = Debtors(r)
        BY <1>2 DEF ExpireKey, Debtors, TypeOK, VerdictInv
    <2>3. /\ \A r \in Report : msgs[r] \in Nat /\ (Settled(r) => Settled(r)')
          /\ msgs' = msgs /\ uploaded' = uploaded
        BY <1>2 DEF ExpireKey, TypeOK, Settled
    <2>4. \A r \in Report :
            /\ IsFiniteSet(Carriers(r)') /\ IsFiniteSet(Debtors(r)')
            /\ ~Settled(r)' =>
                  Copies(r)' >= Cardinality(Debtors(r)') + (IF r \in uploaded' THEN 1 ELSE 0)
        BY <1>0, <2>1, <2>2, <2>3, CountKept
    <2> QED
        BY <2>4, Zenon DEF CountInv
<1>3. ASSUME NEW w \in Worker, NEW r \in Report, Receive(w, r) PROVE CountInv'
    <2>1. /\ pc[w] = "idle" /\ ~held[w] /\ rep[w] = NoReport /\ msgs[r] > 0
          /\ msgs' = [msgs EXCEPT ![r] = @ - 1] /\ msgs \in [Report -> Nat]
          /\ rep' = [rep EXCEPT ![w] = r] /\ held' = [held EXCEPT ![w] = TRUE]
          /\ uploaded' = uploaded /\ verdict' = verdict
        BY <1>3 DEF Receive, TypeOK
    <2>2. ASSUME NEW q \in Report
          PROVE  /\ Debtors(q)' = Debtors(q)
                 /\ Carriers(q)' = IF q = r THEN Carriers(q) \cup {w} ELSE Carriers(q)
                 /\ w \notin Carriers(q)
        <3>1. verdict[w] # "busy" /\ NoReport # q
            BY <2>1, ReportAssumption DEF VerdictInv
        <3>2. Debtors(q)' = Debtors(q)
            BY <2>1, <3>1 DEF Debtors, TypeOK
        <3>3. w \notin Carriers(q)
            BY <2>1 DEF Carriers
        <3>4. CASE q = r
            BY <2>1, <3>2, <3>3, <3>4 DEF Carriers, TypeOK
        <3>5. CASE q # r
            BY <2>1, <3>1, <3>2, <3>3, <3>5 DEF Carriers, TypeOK
        <3> QED
            BY <3>4, <3>5
    <2>3. \A q \in Report : Settled(q) => Settled(q)'
        BY <1>3 DEF Receive, Settled
    <2>4. ASSUME NEW q \in Report
          PROVE  /\ IsFiniteSet(Carriers(q)') /\ IsFiniteSet(Debtors(q)')
                 /\ ~Settled(q)' =>
                       Copies(q)' >= Cardinality(Debtors(q)') + (IF q \in uploaded' THEN 1 ELSE 0)
        <3>1. IsFiniteSet(Carriers(q)) /\ IsFiniteSet(Debtors(q))
            BY <2>4 DEF CountInv
        <3>2. CASE q = r
            <4>1. /\ IsFiniteSet(Carriers(q) \cup {w}) /\ Cardinality(Carriers(q)) \in Nat
                  /\ Cardinality(Carriers(q) \cup {w}) = Cardinality(Carriers(q)) + 1
                  /\ Cardinality(Debtors(q)) \in Nat
                BY <2>2, <3>1, Added, FS_CardinalityType
            <4>2. msgs'[q] = msgs[q] - 1 /\ msgs'[q] \in Nat /\ msgs[q] \in Nat
                BY <2>1, <3>2
            <4>3. msgs'[q] + Cardinality(Carriers(q) \cup {w}) - Cardinality(Debtors(q))
                      >= msgs[q] + Cardinality(Carriers(q)) - Cardinality(Debtors(q))
                BY <4>1, <4>2
            <4> QED
                BY <2>1, <2>2, <2>3, <3>1, <3>2, <4>1, <4>2, <4>3, CountMoved
        <3>3. CASE q # r
            <4>1. msgs'[q] = msgs[q] /\ msgs[q] \in Nat
                BY <2>1, <3>3
            <4> QED
                BY <2>1, <2>2, <2>3, <3>3, <4>1, CountKept
        <3> QED
            BY <3>2, <3>3
    <2> QED
        BY <2>4, Zenon DEF CountInv
<1>4. ASSUME NEW w \in Worker, CannotFetch(w) PROVE CountInv'
    <2>1. \A r \in Report : Carriers(r)' = Carriers(r)
        BY <1>4 DEF CannotFetch, Goto, Carriers
    <2>2. \A r \in Report : Debtors(r)' = Debtors(r)
        BY <1>4 DEF CannotFetch, Goto, Debtors, TypeOK, VerdictInv
    <2>3. /\ \A r \in Report : msgs[r] \in Nat /\ (Settled(r) => Settled(r)')
          /\ msgs' = msgs /\ uploaded' = uploaded
        BY <1>4 DEF CannotFetch, Goto, TypeOK, Settled
    <2>4. \A r \in Report :
            /\ IsFiniteSet(Carriers(r)') /\ IsFiniteSet(Debtors(r)')
            /\ ~Settled(r)' =>
                  Copies(r)' >= Cardinality(Debtors(r)') + (IF r \in uploaded' THEN 1 ELSE 0)
        BY <1>0, <2>1, <2>2, <2>3, CountKept
    <2> QED
        BY <2>4, Zenon DEF CountInv
<1>5. ASSUME NEW w \in Worker, Timeout(w) PROVE CountInv'
    <2>1. /\ held[w] /\ rep[w] \in Report
          /\ msgs' = [msgs EXCEPT ![rep[w]] = @ + 1] /\ msgs \in [Report -> Nat]
          /\ rep' = rep /\ held' = [held EXCEPT ![w] = FALSE]
          /\ uploaded' = uploaded /\ verdict' = verdict
        BY <1>5 DEF Timeout, TypeOK
    <2>2. ASSUME NEW q \in Report
          PROVE  /\ Debtors(q)' = Debtors(q) /\ Carriers(q)' = Carriers(q) \ {w}
                 /\ w \in Carriers(q) <=> q = rep[w]
        BY <2>1 DEF Debtors, Carriers, TypeOK
    <2>3. \A q \in Report : Settled(q) => Settled(q)'
        BY <1>5 DEF Timeout, Settled
    <2>4. ASSUME NEW q \in Report
          PROVE  /\ IsFiniteSet(Carriers(q)') /\ IsFiniteSet(Debtors(q)')
                 /\ ~Settled(q)' =>
                       Copies(q)' >= Cardinality(Debtors(q)') + (IF q \in uploaded' THEN 1 ELSE 0)
        <3>1. IsFiniteSet(Carriers(q)) /\ IsFiniteSet(Debtors(q))
            BY <2>4 DEF CountInv
        <3>2. /\ IsFiniteSet(Carriers(q) \ {w}) /\ Cardinality(Carriers(q)) \in Nat
              /\ Cardinality(Carriers(q) \ {w}) \in Nat
              /\ Cardinality(Carriers(q) \ {w}) =
                    IF q = rep[w] THEN Cardinality(Carriers(q)) - 1 ELSE Cardinality(Carriers(q))
              /\ Cardinality(Debtors(q)) \in Nat
            BY <2>2, <3>1, Taken, FS_CardinalityType
        <3>3. /\ msgs[q] \in Nat /\ msgs'[q] \in Nat
              /\ msgs'[q] = IF q = rep[w] THEN msgs[q] + 1 ELSE msgs[q]
            BY <2>1
        <3>4. msgs'[q] + Cardinality(Carriers(q) \ {w}) - Cardinality(Debtors(q))
                  >= msgs[q] + Cardinality(Carriers(q)) - Cardinality(Debtors(q))
            BY <3>2, <3>3
        <3> QED
            BY <2>1, <2>2, <2>3, <3>1, <3>2, <3>3, <3>4, CountMoved
    <2> QED
        BY <2>4, Zenon DEF CountInv
<1>6. ASSUME NEW w \in Worker, ReadKey(w) PROVE CountInv'
    <2>1. \A r \in Report : Carriers(r)' = Carriers(r)
        BY <1>6 DEF ReadKey, Goto, Carriers
    <2>2. \A r \in Report : Debtors(r)' = Debtors(r)
        BY <1>6 DEF ReadKey, Goto, Debtors, TypeOK, VerdictInv
    <2>3. /\ \A r \in Report : msgs[r] \in Nat /\ (Settled(r) => Settled(r)')
          /\ msgs' = msgs /\ uploaded' = uploaded
        BY <1>6 DEF ReadKey, Goto, TypeOK, Settled
    <2>4. \A r \in Report :
            /\ IsFiniteSet(Carriers(r)') /\ IsFiniteSet(Debtors(r)')
            /\ ~Settled(r)' =>
                  Copies(r)' >= Cardinality(Debtors(r)') + (IF r \in uploaded' THEN 1 ELSE 0)
        BY <1>0, <2>1, <2>2, <2>3, CountKept
    <2> QED
        BY <2>4, Zenon DEF CountInv
<1>7. ASSUME NEW w \in Worker, SetKey(w) PROVE CountInv'
    <2>1. \A r \in Report : Carriers(r)' = Carriers(r)
        BY <1>7 DEF SetKey, Goto, Carriers
    <2>2. \A r \in Report : Debtors(r)' = Debtors(r)
        BY <1>7 DEF SetKey, Goto, Debtors, TypeOK, VerdictInv
    <2>3. /\ \A r \in Report : msgs[r] \in Nat /\ (Settled(r) => Settled(r)')
          /\ msgs' = msgs /\ uploaded' = uploaded
        BY <1>7 DEF SetKey, Goto, TypeOK, Settled
    <2>4. \A r \in Report :
            /\ IsFiniteSet(Carriers(r)') /\ IsFiniteSet(Debtors(r)')
            /\ ~Settled(r)' =>
                  Copies(r)' >= Cardinality(Debtors(r)') + (IF r \in uploaded' THEN 1 ELSE 0)
        BY <1>0, <2>1, <2>2, <2>3, CountKept
    <2> QED
        BY <2>4, Zenon DEF CountInv
<1>8. ASSUME NEW w \in Worker, IncrKey(w) PROVE CountInv'
    <2>1. \A r \in Report : Carriers(r)' = Carriers(r)
        BY <1>8 DEF IncrKey, Goto, Carriers
    <2>2. \A r \in Report : Debtors(r)' = Debtors(r)
        BY <1>8 DEF IncrKey, Goto, Debtors, TypeOK, VerdictInv
    <2>3. /\ \A r \in Report : msgs[r] \in Nat /\ (Settled(r) => Settled(r)')
          /\ msgs' = msgs /\ uploaded' = uploaded
        BY <1>8 DEF IncrKey, Goto, TypeOK, Settled
    <2>4. \A r \in Report :
            /\ IsFiniteSet(Carriers(r)') /\ IsFiniteSet(Debtors(r)')
            /\ ~Settled(r)' =>
                  Copies(r)' >= Cardinality(Debtors(r)') + (IF r \in uploaded' THEN 1 ELSE 0)
        BY <1>0, <2>1, <2>2, <2>3, CountKept
    <2> QED
        BY <2>4, Zenon DEF CountInv
<1>9. ASSUME NEW w \in Worker, GiveUpKey(w) PROVE CountInv'
    <2>1. \A r \in Report : Carriers(r)' = Carriers(r)
        BY <1>9 DEF GiveUpKey, Goto, Carriers
    <2>2. \A r \in Report : Debtors(r)' = Debtors(r)
        BY <1>9 DEF GiveUpKey, Goto, Debtors, TypeOK, VerdictInv
    <2>3. /\ \A r \in Report : msgs[r] \in Nat /\ (Settled(r) => Settled(r)')
          /\ msgs' = msgs /\ uploaded' = uploaded
        BY <1>9 DEF GiveUpKey, Goto, TypeOK, Settled
    <2>4. \A r \in Report :
            /\ IsFiniteSet(Carriers(r)') /\ IsFiniteSet(Debtors(r)')
            /\ ~Settled(r)' =>
                  Copies(r)' >= Cardinality(Debtors(r)') + (IF r \in uploaded' THEN 1 ELSE 0)
        BY <1>0, <2>1, <2>2, <2>3, CountKept
    <2> QED
        BY <2>4, Zenon DEF CountInv
<1>10. ASSUME NEW w \in Worker, Reschedule(w) PROVE CountInv'
    <2>1. /\ pc[w] = "resched" /\ rep[w] \in Report
          /\ msgs' = [msgs EXCEPT ![rep[w]] = @ + 1] /\ msgs \in [Report -> Nat]
          /\ rep' = rep /\ held' = held
          /\ uploaded' = uploaded /\ verdict' = [verdict EXCEPT ![w] = "busy"]
        BY <1>10 DEF Reschedule, TypeOK
    <2>2. ASSUME NEW q \in Report
          PROVE  /\ Carriers(q)' = Carriers(q)
                 /\ Debtors(q)' = IF q = rep[w] THEN Debtors(q) \cup {w} ELSE Debtors(q)
        BY <2>1 DEF Debtors, Carriers, TypeOK
    <2>3. \A q \in Report : Settled(q) => Settled(q)'
        BY <1>10 DEF Reschedule, Settled
    <2>4. ASSUME NEW q \in Report
          PROVE  /\ IsFiniteSet(Carriers(q)') /\ IsFiniteSet(Debtors(q)')
                 /\ ~Settled(q)' =>
                       Copies(q)' >= Cardinality(Debtors(q)') + (IF q \in uploaded' THEN 1 ELSE 0)
        <3>1. IsFiniteSet(Carriers(q)) /\ IsFiniteSet(Debtors(q))
            BY <2>4 DEF CountInv
        <3>2. CASE q = rep[w]
            <4>1. /\ IsFiniteSet(Debtors(q) \cup {w}) /\ Cardinality(Debtors(q)) \in Nat
                  /\ Cardinality(Debtors(q) \cup {w}) \in Nat
                  /\ Cardinality(Debtors(q) \cup {w}) <= Cardinality(Debtors(q)) + 1
                  /\ Cardinality(Carriers(q)) \in Nat
                BY <3>1, Added, FS_CardinalityType, SMTT(30)
            <4>2. msgs'[q] = msgs[q] + 1 /\ msgs'[q] \in Nat /\ msgs[q] \in Nat
                BY <2>1, <3>2
            <4>3. msgs'[q] + Cardinality(Carriers(q)) - Cardinality(Debtors(q) \cup {w})
                      >= msgs[q] + Cardinality(Carriers(q)) - Cardinality(Debtors(q))
                BY <4>1, <4>2
            <4> QED
                BY SMTT(30), <2>1, <2>2, <2>3, <3>1, <3>2, <4>1, <4>2, <4>3, CountMoved
        <3>3. CASE q # rep[w]
            <4>1. msgs'[q] = msgs[q] /\ msgs[q] \in Nat
                BY <2>1, <3>3
            <4> QED
                BY <2>1, <2>2, <2>3, <3>3, <4>1, CountKept
        <3> QED
            BY <3>2, <3>3
    <2> QED
        BY <2>4, Zenon DEF CountInv
<1>11. ASSUME NEW w \in Worker, ReadReport(w) PROVE CountInv'
    <2>1. \A r \in Report : Carriers(r)' = Carriers(r)
        BY <1>11 DEF ReadReport, Goto, Carriers
    <2>2. \A r \in Report : Debtors(r)' = Debtors(r)
        BY <1>11 DEF ReadReport, Goto, Debtors, TypeOK, VerdictInv
    <2>3. /\ \A r \in Report : msgs[r] \in Nat /\ (Settled(r) => Settled(r)')
          /\ msgs' = msgs /\ uploaded' = uploaded
        BY <1>11 DEF ReadReport, Goto, TypeOK, Settled
    <2>4. \A r \in Report :
            /\ IsFiniteSet(Carriers(r)') /\ IsFiniteSet(Debtors(r)')
            /\ ~Settled(r)' =>
                  Copies(r)' >= Cardinality(Debtors(r)') + (IF r \in uploaded' THEN 1 ELSE 0)
        BY <1>0, <2>1, <2>2, <2>3, CountKept
    <2> QED
        BY <2>4, Zenon DEF CountInv
<1>12. ASSUME NEW w \in Worker, CommitData(w) PROVE CountInv'
    <2>1. \A r \in Report : Carriers(r)' = Carriers(r)
        BY <1>12 DEF CommitData, Goto, Carriers
    <2>2. \A r \in Report : Debtors(r)' = Debtors(r)
        BY <1>12 DEF CommitData, Goto, Debtors, TypeOK, VerdictInv
    <2>3. /\ \A r \in Report : msgs[r] \in Nat /\ (Settled(r) => Settled(r)')
          /\ msgs' = msgs /\ uploaded' = uploaded
        BY <1>12 DEF CommitData, Goto, TypeOK, Settled
    <2>4. \A r \in Report :
            /\ IsFiniteSet(Carriers(r)') /\ IsFiniteSet(Debtors(r)')
            /\ ~Settled(r)' =>
                  Copies(r)' >= Cardinality(Debtors(r)') + (IF r \in uploaded' THEN 1 ELSE 0)
        BY <1>0, <2>1, <2>2, <2>3, CountKept
    <2> QED
        BY <2>4, Zenon DEF CountInv
<1>13. ASSUME NEW w \in Worker, CommitEvents(w) PROVE CountInv'
    <2>1. \A r \in Report : Carriers(r)' = Carriers(r)
        BY <1>13 DEF CommitEvents, Goto, Carriers
    <2>2. \A r \in Report : Debtors(r)' = Debtors(r)
        BY <1>13 DEF CommitEvents, Goto, Debtors, TypeOK, VerdictInv
    <2>3. /\ \A r \in Report : msgs[r] \in Nat /\ (Settled(r) => Settled(r)')
          /\ msgs' = msgs /\ uploaded' = uploaded
        BY <1>13 DEF CommitEvents, Goto, TypeOK, Settled
    <2>4. \A r \in Report :
            /\ IsFiniteSet(Carriers(r)') /\ IsFiniteSet(Debtors(r)')
            /\ ~Settled(r)' =>
                  Copies(r)' >= Cardinality(Debtors(r)') + (IF r \in uploaded' THEN 1 ELSE 0)
        BY <1>0, <2>1, <2>2, <2>3, CountKept
    <2> QED
        BY <2>4, Zenon DEF CountInv
<1>14. ASSUME NEW w \in Worker, RecordReport(w) PROVE CountInv'
    <2>1. \A r \in Report : Carriers(r)' = Carriers(r)
        BY <1>14 DEF RecordReport, Goto, Carriers
    <2>2. \A r \in Report : Debtors(r)' = Debtors(r)
        BY <1>14 DEF RecordReport, Goto, Debtors, TypeOK, VerdictInv
    <2>3. /\ \A r \in Report : msgs[r] \in Nat /\ (Settled(r) => Settled(r)')
          /\ msgs' = msgs /\ uploaded' = uploaded
        BY <1>14 DEF RecordReport, Goto, TypeOK, Settled
    <2>4. \A r \in Report :
            /\ IsFiniteSet(Carriers(r)') /\ IsFiniteSet(Debtors(r)')
            /\ ~Settled(r)' =>
                  Copies(r)' >= Cardinality(Debtors(r)') + (IF r \in uploaded' THEN 1 ELSE 0)
        BY <1>0, <2>1, <2>2, <2>3, CountKept
    <2> QED
        BY <2>4, Zenon DEF CountInv
<1>15. ASSUME NEW w \in Worker, FollowUp(w) PROVE CountInv'
    <2>1. \A r \in Report : Carriers(r)' = Carriers(r)
        BY <1>15 DEF FollowUp, Goto, Carriers
    <2>2. \A r \in Report : Debtors(r)' = Debtors(r)
        BY <1>15 DEF FollowUp, Goto, Debtors, TypeOK, VerdictInv
    <2>3. /\ \A r \in Report : msgs[r] \in Nat /\ (Settled(r) => Settled(r)')
          /\ msgs' = msgs /\ uploaded' = uploaded
        BY <1>15 DEF FollowUp, Goto, TypeOK, Settled
    <2>4. \A r \in Report :
            /\ IsFiniteSet(Carriers(r)') /\ IsFiniteSet(Debtors(r)')
            /\ ~Settled(r)' =>
                  Copies(r)' >= Cardinality(Debtors(r)') + (IF r \in uploaded' THEN 1 ELSE 0)
        BY <1>0, <2>1, <2>2, <2>3, CountKept
    <2> QED
        BY <2>4, Zenon DEF CountInv
<1>16. ASSUME NEW w \in Worker, RaiseError(w) PROVE CountInv'
    <2>1. \A r \in Report : Carriers(r)' = Carriers(r)
        BY <1>16 DEF RaiseError, Goto, Carriers
    <2>2. \A r \in Report : Debtors(r)' = Debtors(r)
        BY <1>16 DEF RaiseError, Goto, Debtors, TypeOK, VerdictInv
    <2>3. /\ \A r \in Report : msgs[r] \in Nat /\ (Settled(r) => Settled(r)')
          /\ msgs' = msgs /\ uploaded' = uploaded
        BY <1>16 DEF RaiseError, Goto, TypeOK, Settled
    <2>4. \A r \in Report :
            /\ IsFiniteSet(Carriers(r)') /\ IsFiniteSet(Debtors(r)')
            /\ ~Settled(r)' =>
                  Copies(r)' >= Cardinality(Debtors(r)') + (IF r \in uploaded' THEN 1 ELSE 0)
        BY <1>0, <2>1, <2>2, <2>3, CountKept
    <2> QED
        BY <2>4, Zenon DEF CountInv
<1>17. ASSUME NEW w \in Worker, EndProcess(w) PROVE CountInv'
    <2>1. \A r \in Report : Carriers(r)' = Carriers(r)
        BY <1>17 DEF EndProcess, Goto, Carriers
    <2>2. \A r \in Report : Debtors(r)' = Debtors(r)
        BY <1>17 DEF EndProcess, Goto, Debtors, TypeOK, VerdictInv
    <2>3. /\ \A r \in Report : msgs[r] \in Nat /\ (Settled(r) => Settled(r)')
          /\ msgs' = msgs /\ uploaded' = uploaded
        BY <1>17 DEF EndProcess, Goto, TypeOK, Settled
    <2>4. \A r \in Report :
            /\ IsFiniteSet(Carriers(r)') /\ IsFiniteSet(Debtors(r)')
            /\ ~Settled(r)' =>
                  Copies(r)' >= Cardinality(Debtors(r)') + (IF r \in uploaded' THEN 1 ELSE 0)
        BY <1>0, <2>1, <2>2, <2>3, CountKept
    <2> QED
        BY <2>4, Zenon DEF CountInv
<1>18. ASSUME NEW w \in Worker, Finish(w) PROVE CountInv'
    <2>1. CASE verdict[w] = "database"
        <3>1. /\ Leave(w) /\ uploaded' = uploaded /\ handled' = handled
              /\ failed' = IF verdict[w] = "hard" THEN failed \cup {rep[w]} ELSE failed
              /\ pc[w] = "finish"
              /\ msgs' = IF held[w] THEN [msgs EXCEPT ![rep[w]] = @ + 1] ELSE msgs
              /\ held' = [held EXCEPT ![w] = FALSE]
            BY <1>18, <2>1, Zenon DEF Finish
        <3>2. rep[w] \in Report
            BY <3>1 DEF TypeOK
        <3>3. \A r \in Report : Settled(r) => Settled(r)'
            BY <3>1 DEF Settled
        <3> QED
            BY <3>1, <3>2, <3>3, BackCounts
    <2> QED
        BY <1>18, <2>1, DeleteCounts
<1>19. ASSUME NEW w \in Worker, Crash(w) PROVE CountInv'
    <2>1. /\ Leave(w) /\ uploaded' = uploaded /\ rep[w] \in Report
          /\ msgs' = IF held[w] THEN [msgs EXCEPT ![rep[w]] = @ + 1] ELSE msgs
          /\ held' = [held EXCEPT ![w] = FALSE]
        BY <1>19 DEF Crash, TypeOK
    <2>2. \A r \in Report : Settled(r) => Settled(r)'
        BY <1>19 DEF Crash, Settled
    <2> QED
        BY <2>1, <2>2, BackCounts
<1>20. CASE UNCHANGED vars
    BY <1>20 DEF vars, CountInv, Carriers, Debtors, Copies, Settled
<1> QED
    BY <1>1, <1>2, <1>3, <1>4, <1>5, <1>6, <1>7, <1>8, <1>9, <1>10, <1>11, <1>12,
       <1>13, <1>14, <1>15, <1>16, <1>17, <1>18, <1>19, <1>20 DEF Next, Step

\* A report is never forgotten, whatever dies, times out or is delivered again: until
\* it is processed or dropped with an error, a message is queued or a worker has it.
THEOREM NotForgotten == Spec => []ReportNotForgotten
<1>1. Init => ForgetInv
    <2> SUFFICES ASSUME Init PROVE ForgetInv
        OBVIOUS
    <2>1. VerdictInv
        BY DEF Init, VerdictInv
    <2>2. \A r \in Report : Carriers(r) = {} /\ Debtors(r) = {}
        BY DEF Init, Carriers, Debtors
    <2>3. \A r \in Report : Copies(r) = 0 + 0 /\ r \notin uploaded
        BY <2>2, FS_EmptySet DEF Init, Copies
    <2>4. CountInv
        BY <2>2, <2>3, FS_EmptySet DEF CountInv
    <2> QED
        BY <2>1, <2>4, InitIInv DEF ForgetInv
<1>2. ForgetInv /\ [Next]_vars => ForgetInv'
    <2>1. ForgetInv => IInv /\ VerdictInv
        BY DEF ForgetInv
    <2> QED
        BY <2>1, StepIInv, VerdictStep, CountStep DEF ForgetInv
<1>3. ForgetInv => ReportNotForgotten
    <2> SUFFICES ASSUME ForgetInv, NEW r \in uploaded, ~Settled(r), ~(msgs[r] > 0)
                 PROVE  \E w \in Worker : rep[w] = r
        BY Zenon DEF ReportNotForgotten, Settled
    <2>1. r \in Report /\ msgs[r] = 0
        BY DEF ForgetInv, IInv, TypeOK
    <2>2. /\ IsFiniteSet(Carriers(r)) /\ IsFiniteSet(Debtors(r))
          /\ Copies(r) >= Cardinality(Debtors(r)) + 1
        BY <2>1 DEF ForgetInv, CountInv
    <2>3. Cardinality(Carriers(r)) \in Nat /\ Cardinality(Debtors(r)) \in Nat
        BY <2>2, FS_CardinalityType
    <2>4. Cardinality(Carriers(r)) # 0
        BY <2>1, <2>2, <2>3 DEF Copies
    <2>5. Carriers(r) # {}
        BY <2>4, FS_EmptySet
    <2> QED
        BY <2>5 DEF Carriers
<1> QED
    BY <1>1, <1>2, <1>3, PTL DEF Spec

\* What is accounted for stays so: the table and the highest last_id only grow.
LEMMA PeakGrows ==
    ASSUME IInv, [Next]_vars
    PROVE  peak' \in Nat /\ peak \in Nat /\ peak' >= peak
<1> USE DEF IInv, TypeOK
<1>1. ASSUME NEW w \in Worker, RecordReport(w) PROVE peak' \in Nat /\ peak' >= peak
    <2>1. rep[w] \in Report
        BY <1>1 DEF RecordReport
    <2>2. peak' = peak \/ peak' = IF Hi[rep[w]] > peak THEN Hi[rep[w]] ELSE peak
        BY <1>1 DEF RecordReport, Advance
    <2>3. Hi[rep[w]] \in Nat
        BY <2>1, ReportAssumption
    <2> QED
        BY <2>2, <2>3
<1>2. (\E w \in Worker : RecordReport(w)) \/ peak' = peak
    BY ZenonT(60) DEF Next, Step, Schedule, ExpireKey, Receive, CannotFetch, Timeout, ReadKey,
           SetKey, IncrKey, GiveUpKey, Reschedule, ReadReport, CommitData,
           CommitEvents, FollowUp, RaiseError, EndProcess, Finish, Crash, vars
<1> QED
    BY <1>1, <1>2

LEMMA AccountedStays ==
    ASSUME IInv, [Next]_vars, NEW i \in AllIds, Accounted(i)
    PROVE  Accounted(i)'
<1>1. stored'[i] >= stored[i] /\ stored'[i] \in Nat /\ stored[i] \in Nat
    BY TableGrows, TypeStep DEF IInv, TypeOK
<1>2. \A q \in Report : Hi[q] \in Nat
    BY ReportAssumption
<1> QED
    BY <1>1, <1>2, PeakGrows DEF Accounted

\* What has been accounted for so far, for a step that gives no new value to look at.
LEMMA SkipKept ==
    ASSUME IInv, SkipInv, [Next]_vars,
           lastId' = lastId,
           \A w \in Worker : \/ snap'[w] = snap[w]
                             \/ snap'[w] = lastId
                             \/ snap'[w] = 0,
           \A w \in Worker :
               pc'[w] \in {"follow", "unlock"} /\ verdict'[w] = "ok" =>
                   /\ pc[w] \in {"follow", "unlock"} /\ verdict[w] = "ok"
                   /\ rep'[w] = rep[w] /\ rep[w] \in Report,
           \A r \in handled' : \/ r \in handled
                               \/ \E w \in Worker : /\ pc[w] = "unlock" /\ verdict[w] = "ok"
                                                    /\ rep[w] = r
    PROVE  SkipInv'
<1>1. \A i \in AllIds : Accounted(i) => Accounted(i)'
    BY AccountedStays
<1>2. Passed(0)'
    BY ReportAssumption DEF Passed, AllIds, Ids
<1>3. Passed(lastId)'
    BY <1>1 DEF SkipInv, Passed
<1>4. \A w \in Worker : Passed(snap[w])'
    <2> SUFFICES ASSUME NEW w \in Worker, NEW i \in AllIds \ NotKept, i <= snap'[w]
                 PROVE  Accounted(i)'
        BY DEF Passed
    <2>1. CASE snap'[w] = snap[w]
        BY <1>1, <2>1 DEF SkipInv, Passed
    <2>2. CASE snap'[w] = lastId
        BY <1>1, <2>2 DEF SkipInv, Passed
    <2>3. CASE snap'[w] = 0
        BY <2>3, ReportAssumption DEF AllIds, Ids
    <2> QED
        BY <2>1, <2>2, <2>3
<1>5. ASSUME NEW r \in Report, \A i \in Ids(r) \ NotKept : Accounted(i)
      PROVE  \A i \in Ids(r) \ NotKept : Accounted(i)'
    BY <1>1, <1>5 DEF AllIds
<1>6. handled \subseteq Report
    BY DEF IInv, TypeOK
<1>7. \A w \in Worker : pc[w] = "unlock" => rep[w] \in Report
    BY DEF IInv, TypeOK
<1>8. \A r \in handled' : \A i \in Ids(r) \ NotKept : Accounted(i)'
    BY <1>5, <1>6, <1>7 DEF SkipInv
<1>9. \A w \in Worker :
         pc'[w] \in {"follow", "unlock"} /\ verdict'[w] = "ok" =>
             \A i \in Ids(rep'[w]) \ NotKept : Accounted(i)'
    BY <1>5 DEF SkipInv
<1> QED
    BY <1>3, <1>4, <1>8, <1>9 DEF SkipInv, Ids

\* An attempt that comes to the record step accounts for every reading up to the
\* last one of its report: it stores those after its value of last_id, and a report
\* that has other readings begins before or after its own.
LEMMA RecordAccounts ==
    ASSUME IInv, SkipInv, [Next]_vars, NEW w \in Worker, RecordReport(w)
    PROVE  SkipInv'
<1>1. /\ pc[w] = "record" /\ rep[w] \in Report /\ snap[w] \in Nat /\ peak \in Nat
      /\ snap' = snap /\ rep' = rep /\ handled' = handled /\ verdict' = verdict
      /\ pc' = [pc EXCEPT ![w] = pc'[w]] /\ lastId \in Nat
    BY DEF RecordReport, Goto, IInv, TypeOK
<1>2. Lo[rep[w]] \in Nat /\ Hi[rep[w]] \in Nat
    BY <1>1, ReportAssumption
<1>3. \A i \in AllIds : Accounted(i) => Accounted(i)'
    BY AccountedStays
<1>4. AllIds \subseteq Nat
    BY ReportAssumption DEF AllIds, Ids
<1>5. \A i \in Ids(rep[w]) \ NotKept : Accounted(i)
    <2> SUFFICES ASSUME NEW i \in Ids(rep[w]) \ NotKept PROVE Accounted(i)
        OBVIOUS
    <2>1. i \in AllIds /\ i \in Nat
        BY <1>1, <1>4 DEF AllIds
    <2>2. CASE i <= snap[w]
        BY <2>1, <2>2 DEF SkipInv, Passed
    <2>3. CASE i > snap[w]
        <3>1. i \in Kept(w)
            BY <2>3 DEF Kept, NotKept, Entries, NewIds
        <3> QED
            BY <1>1, <3>1 DEF IInv, DataInv, Accounted
    <2> QED
        BY <1>1, <2>1, <2>2, <2>3
<1>6. Passed(lastId)'
    <2>1. CASE lastId' = lastId
        BY <1>3, <2>1 DEF SkipInv, Passed
    <2>2. CASE lastId' = Hi[rep[w]] /\ peak' >= Hi[rep[w]]
        <3> SUFFICES ASSUME NEW i \in AllIds \ NotKept, i <= Hi[rep[w]]
                     PROVE  Accounted(i)'
            BY <2>2 DEF Passed
        <3>1. CASE i < Lo[rep[w]]
            BY <1>1, <2>2, <3>1 DEF Accounted
        <3>2. CASE i >= Lo[rep[w]]
            <4>1. i \in Ids(rep[w])
                <5>1. i \in Nat /\ i <= Hi[rep[w]]
                    BY <1>4
                <5> QED
                    BY <1>2, <3>2, <5>1 DEF Ids
            <4> QED
                BY <1>3, <1>5, <4>1
        <3> QED
            BY <1>2, <1>4, <3>1, <3>2
    <2>3. lastId' = lastId \/ (lastId' = Hi[rep[w]] /\ peak' >= Hi[rep[w]])
        BY <1>1, <1>2 DEF RecordReport, Advance
    <2> QED
        BY <2>1, <2>2, <2>3
<1>7. \A v \in Worker : Passed(snap[v])'
    BY <1>1, <1>3 DEF SkipInv, Passed
<1>8. ASSUME NEW r \in Report, \A i \in Ids(r) \ NotKept : Accounted(i)
      PROVE  \A i \in Ids(r) \ NotKept : Accounted(i)'
    BY <1>3, <1>8 DEF AllIds
<1>9. \A r \in handled' : \A i \in Ids(r) \ NotKept : Accounted(i)'
    <2>1. handled \subseteq Report
        BY DEF IInv, TypeOK
    <2> QED
        BY <1>1, <1>8, <2>1 DEF SkipInv
<1>10. \A v \in Worker :
          pc'[v] \in {"follow", "unlock"} /\ verdict'[v] = "ok" =>
              \A i \in Ids(rep'[v]) \ NotKept : Accounted(i)'
    <2> SUFFICES ASSUME NEW v \in Worker, pc'[v] \in {"follow", "unlock"}, verdict'[v] = "ok"
                 PROVE  \A i \in Ids(rep[v]) \ NotKept : Accounted(i)'
        BY <1>1
    <2>1. CASE v = w
        BY <1>1, <1>5, <1>8, <2>1
    <2>2. CASE v # w
        <3>1. pc[v] \in {"follow", "unlock"} /\ verdict[v] = "ok"
            BY <1>1, <2>2 DEF IInv, TypeOK
        <3>2. rep[v] \in Report
            BY <3>1 DEF IInv, TypeOK
        <3> QED
            BY <1>8, <3>1, <3>2 DEF SkipInv
    <2> QED
        BY <2>1, <2>2
<1> QED
    BY <1>6, <1>7, <1>9, <1>10 DEF SkipInv, Ids

\* Every step keeps the account of the readings.
LEMMA SkipStep == IInv /\ SkipInv /\ [Next]_vars => SkipInv'
<1> SUFFICES ASSUME IInv /\ SkipInv, [Next]_vars PROVE SkipInv'
    OBVIOUS
<1>0. IInv /\ SkipInv /\ TypeOK /\ [Next]_vars
    BY DEF IInv
<1> USE <1>0
<1>1. ASSUME NEW r \in Report, Schedule(r) PROVE SkipInv'
    <2>1. /\ lastId' = lastId
          /\ \A v \in Worker : snap'[v] = snap[v] \/ snap'[v] = lastId \/ snap'[v] = 0
        BY <1>1 DEF Schedule, TypeOK
    <2>2. \A v \in Worker :
             pc'[v] \in {"follow", "unlock"} /\ verdict'[v] = "ok" =>
                 /\ pc[v] \in {"follow", "unlock"} /\ verdict[v] = "ok"
                 /\ rep'[v] = rep[v] /\ rep[v] \in Report
        BY <1>1 DEF Schedule, TypeOK
    <2>3. \A q \in handled' : \/ q \in handled
                             \/ \E v \in Worker : /\ pc[v] = "unlock" /\ verdict[v] = "ok"
                                                  /\ rep[v] = q
        BY <1>1 DEF Schedule
    <2> QED
        BY <1>0, <2>1, <2>2, <2>3, SkipKept
<1>2. ASSUME ExpireKey PROVE SkipInv'
    <2>1. /\ lastId' = lastId
          /\ \A v \in Worker : snap'[v] = snap[v] \/ snap'[v] = lastId \/ snap'[v] = 0
        BY <1>2 DEF ExpireKey, TypeOK
    <2>2. \A v \in Worker :
             pc'[v] \in {"follow", "unlock"} /\ verdict'[v] = "ok" =>
                 /\ pc[v] \in {"follow", "unlock"} /\ verdict[v] = "ok"
                 /\ rep'[v] = rep[v] /\ rep[v] \in Report
        BY <1>2 DEF ExpireKey, TypeOK
    <2>3. \A q \in handled' : \/ q \in handled
                             \/ \E v \in Worker : /\ pc[v] = "unlock" /\ verdict[v] = "ok"
                                                  /\ rep[v] = q
        BY <1>2 DEF ExpireKey
    <2> QED
        BY <1>0, <2>1, <2>2, <2>3, SkipKept
<1>3. ASSUME NEW w \in Worker, NEW r \in Report, Receive(w, r) PROVE SkipInv'
    <2>1. /\ lastId' = lastId
          /\ \A v \in Worker : snap'[v] = snap[v] \/ snap'[v] = lastId \/ snap'[v] = 0
        BY <1>3 DEF Receive, Goto, TypeOK
    <2>2. \A v \in Worker :
             pc'[v] \in {"follow", "unlock"} /\ verdict'[v] = "ok" =>
                 /\ pc[v] \in {"follow", "unlock"} /\ verdict[v] = "ok"
                 /\ rep'[v] = rep[v] /\ rep[v] \in Report
        BY <1>3 DEF Receive, Goto, TypeOK
    <2>3. \A q \in handled' : \/ q \in handled
                             \/ \E v \in Worker : /\ pc[v] = "unlock" /\ verdict[v] = "ok"
                                                  /\ rep[v] = q
        BY <1>3 DEF Receive, Goto
    <2> QED
        BY <1>0, <2>1, <2>2, <2>3, SkipKept
<1>4. ASSUME NEW w \in Worker, CannotFetch(w) PROVE SkipInv'
    <2>1. /\ lastId' = lastId
          /\ \A v \in Worker : snap'[v] = snap[v] \/ snap'[v] = lastId \/ snap'[v] = 0
        BY <1>4 DEF CannotFetch, Goto, TypeOK
    <2>2. \A v \in Worker :
             pc'[v] \in {"follow", "unlock"} /\ verdict'[v] = "ok" =>
                 /\ pc[v] \in {"follow", "unlock"} /\ verdict[v] = "ok"
                 /\ rep'[v] = rep[v] /\ rep[v] \in Report
        BY <1>4 DEF CannotFetch, Goto, TypeOK
    <2>3. \A q \in handled' : \/ q \in handled
                             \/ \E v \in Worker : /\ pc[v] = "unlock" /\ verdict[v] = "ok"
                                                  /\ rep[v] = q
        BY <1>4 DEF CannotFetch, Goto
    <2> QED
        BY <1>0, <2>1, <2>2, <2>3, SkipKept
<1>5. ASSUME NEW w \in Worker, Timeout(w) PROVE SkipInv'
    <2>1. /\ lastId' = lastId
          /\ \A v \in Worker : snap'[v] = snap[v] \/ snap'[v] = lastId \/ snap'[v] = 0
        BY <1>5 DEF Timeout, TypeOK
    <2>2. \A v \in Worker :
             pc'[v] \in {"follow", "unlock"} /\ verdict'[v] = "ok" =>
                 /\ pc[v] \in {"follow", "unlock"} /\ verdict[v] = "ok"
                 /\ rep'[v] = rep[v] /\ rep[v] \in Report
        BY <1>5 DEF Timeout, TypeOK
    <2>3. \A q \in handled' : \/ q \in handled
                             \/ \E v \in Worker : /\ pc[v] = "unlock" /\ verdict[v] = "ok"
                                                  /\ rep[v] = q
        BY <1>5 DEF Timeout
    <2> QED
        BY <1>0, <2>1, <2>2, <2>3, SkipKept
<1>6. ASSUME NEW w \in Worker, ReadKey(w) PROVE SkipInv'
    <2>1. /\ lastId' = lastId
          /\ \A v \in Worker : snap'[v] = snap[v] \/ snap'[v] = lastId \/ snap'[v] = 0
        BY <1>6 DEF ReadKey, Goto, TypeOK
    <2>2. \A v \in Worker :
             pc'[v] \in {"follow", "unlock"} /\ verdict'[v] = "ok" =>
                 /\ pc[v] \in {"follow", "unlock"} /\ verdict[v] = "ok"
                 /\ rep'[v] = rep[v] /\ rep[v] \in Report
        BY <1>6 DEF ReadKey, Goto, TypeOK
    <2>3. \A q \in handled' : \/ q \in handled
                             \/ \E v \in Worker : /\ pc[v] = "unlock" /\ verdict[v] = "ok"
                                                  /\ rep[v] = q
        BY <1>6 DEF ReadKey, Goto
    <2> QED
        BY <1>0, <2>1, <2>2, <2>3, SkipKept
<1>7. ASSUME NEW w \in Worker, SetKey(w) PROVE SkipInv'
    <2>1. /\ lastId' = lastId
          /\ \A v \in Worker : snap'[v] = snap[v] \/ snap'[v] = lastId \/ snap'[v] = 0
        BY <1>7 DEF SetKey, Goto, TypeOK
    <2>2. \A v \in Worker :
             pc'[v] \in {"follow", "unlock"} /\ verdict'[v] = "ok" =>
                 /\ pc[v] \in {"follow", "unlock"} /\ verdict[v] = "ok"
                 /\ rep'[v] = rep[v] /\ rep[v] \in Report
        BY <1>7 DEF SetKey, Goto, TypeOK
    <2>3. \A q \in handled' : \/ q \in handled
                             \/ \E v \in Worker : /\ pc[v] = "unlock" /\ verdict[v] = "ok"
                                                  /\ rep[v] = q
        BY <1>7 DEF SetKey, Goto
    <2> QED
        BY <1>0, <2>1, <2>2, <2>3, SkipKept
<1>8. ASSUME NEW w \in Worker, IncrKey(w) PROVE SkipInv'
    <2>1. /\ lastId' = lastId
          /\ \A v \in Worker : snap'[v] = snap[v] \/ snap'[v] = lastId \/ snap'[v] = 0
        BY <1>8 DEF IncrKey, Goto, TypeOK
    <2>2. \A v \in Worker :
             pc'[v] \in {"follow", "unlock"} /\ verdict'[v] = "ok" =>
                 /\ pc[v] \in {"follow", "unlock"} /\ verdict[v] = "ok"
                 /\ rep'[v] = rep[v] /\ rep[v] \in Report
        BY <1>8 DEF IncrKey, Goto, TypeOK
    <2>3. \A q \in handled' : \/ q \in handled
                             \/ \E v \in Worker : /\ pc[v] = "unlock" /\ verdict[v] = "ok"
                                                  /\ rep[v] = q
        BY <1>8 DEF IncrKey, Goto
    <2> QED
        BY <1>0, <2>1, <2>2, <2>3, SkipKept
<1>9. ASSUME NEW w \in Worker, GiveUpKey(w) PROVE SkipInv'
    <2>1. /\ lastId' = lastId
          /\ \A v \in Worker : snap'[v] = snap[v] \/ snap'[v] = lastId \/ snap'[v] = 0
        BY <1>9 DEF GiveUpKey, Goto, TypeOK
    <2>2. \A v \in Worker :
             pc'[v] \in {"follow", "unlock"} /\ verdict'[v] = "ok" =>
                 /\ pc[v] \in {"follow", "unlock"} /\ verdict[v] = "ok"
                 /\ rep'[v] = rep[v] /\ rep[v] \in Report
        BY <1>9 DEF GiveUpKey, Goto, TypeOK
    <2>3. \A q \in handled' : \/ q \in handled
                             \/ \E v \in Worker : /\ pc[v] = "unlock" /\ verdict[v] = "ok"
                                                  /\ rep[v] = q
        BY <1>9 DEF GiveUpKey, Goto
    <2> QED
        BY <1>0, <2>1, <2>2, <2>3, SkipKept
<1>10. ASSUME NEW w \in Worker, Reschedule(w) PROVE SkipInv'
    <2>1. /\ lastId' = lastId
          /\ \A v \in Worker : snap'[v] = snap[v] \/ snap'[v] = lastId \/ snap'[v] = 0
        BY <1>10 DEF Reschedule, Goto, TypeOK
    <2>2. \A v \in Worker :
             pc'[v] \in {"follow", "unlock"} /\ verdict'[v] = "ok" =>
                 /\ pc[v] \in {"follow", "unlock"} /\ verdict[v] = "ok"
                 /\ rep'[v] = rep[v] /\ rep[v] \in Report
        BY <1>10 DEF Reschedule, Goto, TypeOK
    <2>3. \A q \in handled' : \/ q \in handled
                             \/ \E v \in Worker : /\ pc[v] = "unlock" /\ verdict[v] = "ok"
                                                  /\ rep[v] = q
        BY <1>10 DEF Reschedule, Goto
    <2> QED
        BY <1>0, <2>1, <2>2, <2>3, SkipKept
<1>11. ASSUME NEW w \in Worker, ReadReport(w) PROVE SkipInv'
    <2>1. /\ lastId' = lastId
          /\ \A v \in Worker : snap'[v] = snap[v] \/ snap'[v] = lastId \/ snap'[v] = 0
        BY <1>11 DEF ReadReport, Goto, TypeOK
    <2>2. \A v \in Worker :
             pc'[v] \in {"follow", "unlock"} /\ verdict'[v] = "ok" =>
                 /\ pc[v] \in {"follow", "unlock"} /\ verdict[v] = "ok"
                 /\ rep'[v] = rep[v] /\ rep[v] \in Report
        BY <1>11 DEF ReadReport, Goto, TypeOK
    <2>3. \A q \in handled' : \/ q \in handled
                             \/ \E v \in Worker : /\ pc[v] = "unlock" /\ verdict[v] = "ok"
                                                  /\ rep[v] = q
        BY <1>11 DEF ReadReport, Goto
    <2> QED
        BY <1>0, <2>1, <2>2, <2>3, SkipKept
<1>12. ASSUME NEW w \in Worker, CommitData(w) PROVE SkipInv'
    <2>1. /\ lastId' = lastId
          /\ \A v \in Worker : snap'[v] = snap[v] \/ snap'[v] = lastId \/ snap'[v] = 0
        BY <1>12 DEF CommitData, Goto, TypeOK
    <2>2. \A v \in Worker :
             pc'[v] \in {"follow", "unlock"} /\ verdict'[v] = "ok" =>
                 /\ pc[v] \in {"follow", "unlock"} /\ verdict[v] = "ok"
                 /\ rep'[v] = rep[v] /\ rep[v] \in Report
        BY <1>12 DEF CommitData, Goto, TypeOK
    <2>3. \A q \in handled' : \/ q \in handled
                             \/ \E v \in Worker : /\ pc[v] = "unlock" /\ verdict[v] = "ok"
                                                  /\ rep[v] = q
        BY <1>12 DEF CommitData, Goto
    <2> QED
        BY <1>0, <2>1, <2>2, <2>3, SkipKept
<1>13. ASSUME NEW w \in Worker, CommitEvents(w) PROVE SkipInv'
    <2>1. /\ lastId' = lastId
          /\ \A v \in Worker : snap'[v] = snap[v] \/ snap'[v] = lastId \/ snap'[v] = 0
        BY <1>13 DEF CommitEvents, Goto, TypeOK
    <2>2. \A v \in Worker :
             pc'[v] \in {"follow", "unlock"} /\ verdict'[v] = "ok" =>
                 /\ pc[v] \in {"follow", "unlock"} /\ verdict[v] = "ok"
                 /\ rep'[v] = rep[v] /\ rep[v] \in Report
        BY <1>13 DEF CommitEvents, Goto, TypeOK
    <2>3. \A q \in handled' : \/ q \in handled
                             \/ \E v \in Worker : /\ pc[v] = "unlock" /\ verdict[v] = "ok"
                                                  /\ rep[v] = q
        BY <1>13 DEF CommitEvents, Goto
    <2> QED
        BY <1>0, <2>1, <2>2, <2>3, SkipKept
<1>14. ASSUME NEW w \in Worker, RecordReport(w) PROVE SkipInv'
    BY <1>14, RecordAccounts
<1>15. ASSUME NEW w \in Worker, FollowUp(w) PROVE SkipInv'
    <2>1. /\ lastId' = lastId
          /\ \A v \in Worker : snap'[v] = snap[v] \/ snap'[v] = lastId \/ snap'[v] = 0
        BY <1>15 DEF FollowUp, Goto, TypeOK
    <2>2. \A v \in Worker :
             pc'[v] \in {"follow", "unlock"} /\ verdict'[v] = "ok" =>
                 /\ pc[v] \in {"follow", "unlock"} /\ verdict[v] = "ok"
                 /\ rep'[v] = rep[v] /\ rep[v] \in Report
        BY <1>15 DEF FollowUp, Goto, TypeOK
    <2>3. \A q \in handled' : \/ q \in handled
                             \/ \E v \in Worker : /\ pc[v] = "unlock" /\ verdict[v] = "ok"
                                                  /\ rep[v] = q
        BY <1>15 DEF FollowUp, Goto
    <2> QED
        BY <1>0, <2>1, <2>2, <2>3, SkipKept
<1>16. ASSUME NEW w \in Worker, RaiseError(w) PROVE SkipInv'
    <2>1. /\ lastId' = lastId
          /\ \A v \in Worker : snap'[v] = snap[v] \/ snap'[v] = lastId \/ snap'[v] = 0
        BY <1>16 DEF RaiseError, Goto, TypeOK
    <2>2. \A v \in Worker :
             pc'[v] \in {"follow", "unlock"} /\ verdict'[v] = "ok" =>
                 /\ pc[v] \in {"follow", "unlock"} /\ verdict[v] = "ok"
                 /\ rep'[v] = rep[v] /\ rep[v] \in Report
        BY <1>16 DEF RaiseError, Goto, TypeOK
    <2>3. \A q \in handled' : \/ q \in handled
                             \/ \E v \in Worker : /\ pc[v] = "unlock" /\ verdict[v] = "ok"
                                                  /\ rep[v] = q
        BY <1>16 DEF RaiseError, Goto
    <2> QED
        BY <1>0, <2>1, <2>2, <2>3, SkipKept
<1>17. ASSUME NEW w \in Worker, EndProcess(w) PROVE SkipInv'
    <2>1. /\ lastId' = lastId
          /\ \A v \in Worker : snap'[v] = snap[v] \/ snap'[v] = lastId \/ snap'[v] = 0
        BY <1>17 DEF EndProcess, Goto, TypeOK
    <2>2. \A v \in Worker :
             pc'[v] \in {"follow", "unlock"} /\ verdict'[v] = "ok" =>
                 /\ pc[v] \in {"follow", "unlock"} /\ verdict[v] = "ok"
                 /\ rep'[v] = rep[v] /\ rep[v] \in Report
        BY <1>17 DEF EndProcess, Goto, TypeOK
    <2>3. \A q \in handled' : \/ q \in handled
                             \/ \E v \in Worker : /\ pc[v] = "unlock" /\ verdict[v] = "ok"
                                                  /\ rep[v] = q
        BY <1>17 DEF EndProcess, Goto
    <2> QED
        BY <1>0, <2>1, <2>2, <2>3, SkipKept
<1>18. ASSUME NEW w \in Worker, Finish(w) PROVE SkipInv'
    <2>1. /\ lastId' = lastId
          /\ \A v \in Worker : snap'[v] = snap[v] \/ snap'[v] = lastId \/ snap'[v] = 0
        BY <1>18, LeaveTypes DEF Finish, TypeOK
    <2>2. \A v \in Worker :
             pc'[v] \in {"follow", "unlock"} /\ verdict'[v] = "ok" =>
                 /\ pc[v] \in {"follow", "unlock"} /\ verdict[v] = "ok"
                 /\ rep'[v] = rep[v] /\ rep[v] \in Report
        BY <1>18, LeaveTypes DEF Finish, TypeOK
    <2>3. \A q \in handled' : \/ q \in handled
                             \/ \E v \in Worker : /\ pc[v] = "unlock" /\ verdict[v] = "ok"
                                                  /\ rep[v] = q
        BY <1>18 DEF Finish
    <2> QED
        BY <1>0, <2>1, <2>2, <2>3, SkipKept
<1>19. ASSUME NEW w \in Worker, Crash(w) PROVE SkipInv'
    <2>1. /\ lastId' = lastId
          /\ \A v \in Worker : snap'[v] = snap[v] \/ snap'[v] = lastId \/ snap'[v] = 0
        BY <1>19, LeaveTypes DEF Crash, TypeOK
    <2>2. \A v \in Worker :
             pc'[v] \in {"follow", "unlock"} /\ verdict'[v] = "ok" =>
                 /\ pc[v] \in {"follow", "unlock"} /\ verdict[v] = "ok"
                 /\ rep'[v] = rep[v] /\ rep[v] \in Report
        BY <1>19, LeaveTypes DEF Crash, TypeOK
    <2>3. \A q \in handled' : \/ q \in handled
                             \/ \E v \in Worker : /\ pc[v] = "unlock" /\ verdict[v] = "ok"
                                                  /\ rep[v] = q
        BY <1>19 DEF Crash
    <2> QED
        BY <1>0, <2>1, <2>2, <2>3, SkipKept
<1>20. CASE UNCHANGED vars
    BY <1>20 DEF vars, SkipInv, Passed, Accounted, Ids
<1> QED
    BY <1>1, <1>2, <1>3, <1>4, <1>5, <1>6, <1>7, <1>8, <1>9, <1>10, <1>11, <1>12,
       <1>13, <1>14, <1>15, <1>16, <1>17, <1>18, <1>19, <1>20 DEF Next, Step

\* A reading that a processed report should have kept is stored, unless a report
\* that begins after it was recorded: whatever the throttle does, only reports out
\* of order lose any.
THEOREM OnlyOvertaken == Spec => []MissingOnlyIfOvertaken
<1>1. Init => IInv /\ SkipInv
    BY InitIInv, ReportAssumption, SMTT(30) DEF Init, SkipInv, Passed, AllIds, Ids
<1>2. IInv /\ SkipInv /\ [Next]_vars => IInv' /\ SkipInv'
    BY StepIInv, SkipStep
<1>3. IInv /\ SkipInv => MissingOnlyIfOvertaken
    <2> SUFFICES ASSUME IInv, SkipInv, NEW r \in handled, NEW i \in Ids(r) \ NotKept,
                        stored[i] = 0
                 PROVE  \E q \in Report \ {r} : Lo[q] > i /\ Hi[q] <= peak
        BY DEF MissingOnlyIfOvertaken
    <2>1. Accounted(i) /\ r \in Report
        BY DEF SkipInv, IInv, TypeOK
    <2>2. PICK q \in Report : Lo[q] > i /\ Hi[q] <= peak
        BY <2>1 DEF Accounted
    <2>3. q # r
        BY <2>1, <2>2, ReportAssumption DEF Ids
    <2> QED
        BY <2>2, <2>3
<1> QED
    BY <1>1, <1>2, <1>3, PTL DEF Spec

\* A report comes into two hands where the second worker receives it.
LEMMA SharedStep == IInv /\ SharedInv /\ [Next]_vars => SharedInv'
<1> SUFFICES ASSUME IInv /\ SharedInv, [Next]_vars PROVE SharedInv'
    OBVIOUS
<1> USE DEF IInv, TypeOK, SharedInv
<1>1. ASSUME NEW r \in Report, Schedule(r) PROVE SharedInv'
    BY <1>1 DEF Schedule
<1>2. ASSUME ExpireKey PROVE SharedInv'
    BY <1>2 DEF ExpireKey
<1>3. ASSUME NEW w \in Worker, NEW r \in Report, Receive(w, r) PROVE SharedInv'
    BY <1>3 DEF Receive, Goto
<1>4. ASSUME NEW w \in Worker, CannotFetch(w) PROVE SharedInv'
    BY <1>4 DEF CannotFetch, Goto
<1>5. ASSUME NEW w \in Worker, Timeout(w) PROVE SharedInv'
    BY <1>5 DEF Timeout
<1>6. ASSUME NEW w \in Worker, ReadKey(w) PROVE SharedInv'
    BY <1>6 DEF ReadKey, Goto
<1>7. ASSUME NEW w \in Worker, SetKey(w) PROVE SharedInv'
    BY <1>7 DEF SetKey, Goto
<1>8. ASSUME NEW w \in Worker, IncrKey(w) PROVE SharedInv'
    BY <1>8 DEF IncrKey, Goto
<1>9. ASSUME NEW w \in Worker, GiveUpKey(w) PROVE SharedInv'
    BY <1>9 DEF GiveUpKey, Goto
<1>10. ASSUME NEW w \in Worker, Reschedule(w) PROVE SharedInv'
    BY <1>10 DEF Reschedule, Goto
<1>11. ASSUME NEW w \in Worker, ReadReport(w) PROVE SharedInv'
    BY <1>11 DEF ReadReport, Goto
<1>12. ASSUME NEW w \in Worker, CommitData(w) PROVE SharedInv'
    BY <1>12 DEF CommitData, Goto
<1>13. ASSUME NEW w \in Worker, CommitEvents(w) PROVE SharedInv'
    BY <1>13 DEF CommitEvents, Goto
<1>14. ASSUME NEW w \in Worker, RecordReport(w) PROVE SharedInv'
    BY <1>14 DEF RecordReport, Goto, NewRange, NothingNew, Advance
<1>15. ASSUME NEW w \in Worker, FollowUp(w) PROVE SharedInv'
    BY <1>15 DEF FollowUp, Goto
<1>16. ASSUME NEW w \in Worker, RaiseError(w) PROVE SharedInv'
    BY <1>16 DEF RaiseError, Goto
<1>17. ASSUME NEW w \in Worker, EndProcess(w) PROVE SharedInv'
    BY <1>17 DEF EndProcess, Goto
<1>18. ASSUME NEW w \in Worker, Finish(w) PROVE SharedInv'
    BY <1>18, LeaveTypes DEF Finish
<1>19. ASSUME NEW w \in Worker, Crash(w) PROVE SharedInv'
    BY <1>19, LeaveTypes DEF Crash
<1>20. CASE UNCHANGED vars
    BY <1>20 DEF vars
<1> HIDE DEF IInv, TypeOK, SharedInv
<1> QED
    BY <1>1, <1>2, <1>3, <1>4, <1>5, <1>6, <1>7, <1>8, <1>9, <1>10, <1>11, <1>12,
       <1>13, <1>14, <1>15, <1>16, <1>17, <1>18, <1>19, <1>20 DEF Next, Step

\* However often a report is tried, its recorded range is not erased, unless two
\* workers had the report at the same time.
THEOREM RangesKept == Spec => RangeKept
<1>1. Init => IInv /\ SharedInv
    BY InitIInv DEF Init, SharedInv
<1>2. IInv /\ SharedInv /\ [Next]_vars => IInv' /\ SharedInv'
    BY StepIInv, SharedStep
<1>3. IInv /\ SharedInv /\ [Next]_vars =>
         [\A r \in Report : actual[r].done /\ ~actual'[r].done => r \in shared]_vars
    <2> SUFFICES ASSUME IInv, SharedInv, Next, NEW r \in Report,
                        actual[r].done, r \notin shared
                 PROVE  actual'[r].done
        BY DEF IInv, TypeOK
    <2> USE DEF IInv, TypeOK
    <2>1. ASSUME NEW w \in Worker, ReadReport(w) PROVE actual'[r].done
        <3>1. pc[w] = "read" /\ actual' = [actual EXCEPT ![rep[w]] = mine[w]]
            BY <2>1 DEF ReadReport
        <3>2. rep[w] = r => mine[w].done
            BY <3>1 DEF SharedInv
        <3> QED
            BY <3>1, <3>2
    <2>2. ASSUME NEW w \in Worker, RecordReport(w) PROVE actual'[r].done
        <3>1. \/ actual' = actual
              \/ actual' = [actual EXCEPT ![rep[w]] = NewRange(w)]
              \/ actual' = [actual EXCEPT ![rep[w]] = NothingNew]
            BY <2>2 DEF RecordReport
        <3> QED
            BY <3>1 DEF NewRange, NothingNew
    <2>3. \/ \E w \in Worker : ReadReport(w) \/ RecordReport(w)
          \/ actual' = actual
        BY ZenonT(60) DEF Next, Step, Schedule, ExpireKey, Receive, CannotFetch, Timeout, ReadKey,
               SetKey, IncrKey, GiveUpKey, Reschedule, CommitData,
               CommitEvents, FollowUp, RaiseError, EndProcess, Finish, Crash
    <2> QED
        BY <2>1, <2>2, <2>3
<1> QED
    BY <1>1, <1>2, <1>3, PTL DEF Spec, RangeKept
=============================================================================

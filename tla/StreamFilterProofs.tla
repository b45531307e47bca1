------------------------- MODULE StreamFilterProofs -------------------------
(***************************************************************************)
(* Proofs about StreamFilter: the state that is stored is the one whose    *)
(* actions ran, nobody is told twice, and what the cache holds is what an  *)
(* edit left.                                                              *)
(*                                                                         *)
(* The invariant has a part for each of three stories.  What a worker has  *)
(* read at each place (JobsInv).  The editor: a request is a list of       *)
(* statements that fits the filter (PlanInv), a definition is whole when   *)
(* nobody is editing it (WholeInv), and a lookup that no edit overlapped   *)
(* has read a whole one (ReadInv).  The transitions: of two workers in     *)
(* transitions of one stream the history knows, and a worker that is alone *)
(* finds the stream in the state in which it decided (TransInv).           *)
(***************************************************************************)
EXTENDS StreamFilter, FiniteSetTheorems, TLAPS

\* What a worker has at each place.
Deciding == {"consider", "act", "set"}
JobOK(l, j) ==
    /\ l # "idle" => j.stream \in Stream
    /\ l \in {"states", "read"} => j.key \in Key
    /\ l \notin Deciding => j.left = {}
    /\ l \in Deciding => j.data # <<>>
    /\ l \in {"act", "set"} => j.move \in (State \cup {Star}) \X State
JobsInv == \A w \in Worker : JobOK(pc[w], job[w])

Place == {"idle", "project", "find", "states", "read", "empty",
          "consider", "act", "set"}
Fine(l, j) == /\ l \in Place /\ j \in Job /\ j.left \subseteq DOMAIN j.def.trans
              /\ JobOK(l, j)
Workers == /\ pc \in [Worker -> Place] /\ job \in [Worker -> Job]
           /\ \A w \in Worker : Fine(pc[w], job[w])
Tables ==
    /\ db \in [Key -> Def \cup {NoDef}]
    /\ cache \in [Key -> Def \cup {None, Empty}]
    /\ state \in [Stream -> State \cup {None}]
    /\ entered \in [Stream -> State \cup {None}]
    /\ disturbed \subseteq Stream
    /\ raced \subseteq Key
    /\ edit \in [key : Key, todo : Seq(Stmt)]
    /\ DOMAIN whole = Key
    /\ edits \in 0..MaxEdit /\ faults \in 0..MaxFault

\* The statements that are left fit the filter: it is created only if there is
\* none and deleted last, and a reset does not change it.
Reset == {"uncache", "forget"}
Simple == {st \in Stmt : st.do \in {"addState", "dropState", "link", "unlink", "add", "drop"}}
Fits(r, d, W) ==
    /\ r # <<>> /\ d = NoDef => Len(r) = 1 /\ r[1].do = "create"
    /\ \A i \in 1..Len(r) :
         /\ d # NoDef => r[i].do # "create"
         /\ r[i].do \in {"delete", "clear"} => i = Len(r)
         /\ r[i].do \in Reset => d \in W /\ \A h \in 1..Len(r) : r[h].do \in Reset
PlanInv == Fits(edit.todo, db[edit.key], whole[edit.key])

\* What the history calls whole.
WholeInv ==
    /\ \A k \in Key : ~Editing(k) => db[k] \in whole[k]
    /\ OnlyWholeDefinitions

\* A lookup that no edit has overlapped has what is in the database.
ReadInv ==
    \A w \in Worker : pc[w] \in {"states", "read"} /\ ~job[w].old =>
        LET d == db[job[w].key]
        IN  /\ d # NoDef /\ d \in whole[job[w].key]
            /\ job[w].def.states = d.states
            /\ pc[w] = "read" => job[w].def.trans = d.trans

\* Transitions of a stream that is not disturbed run one at a time, and end in
\* the state that they were decided for.
Busy(w, s) == pc[w] \in {"act", "set"} /\ job[w].stream = s
TransInv ==
    \A s \in Stream \ disturbed :
        /\ \A v, w \in Worker : Busy(v, s) /\ Busy(w, s) => v = w
        /\ \A w \in Worker : Busy(w, s) =>
             /\ pc[w] = "set" => entered[s] = job[w].move[2]
             /\ pc[w] = "act" /\ job[w].move[1] # job[w].move[2]
                  => entered[s] # job[w].move[2]
        /\ state[s] # entered[s] => \E w \in Worker : Busy(w, s) /\ pc[w] = "set"

\* Worker w goes to one of places L.
Moves(w, L) == \E l \in L : \E j : Goto(w, l, j)

IInv == TypeOK /\ JobsInv /\ PlanInv /\ WholeInv /\ ReadInv /\ TransInv

-----------------------------------------------------------------------------
(* The steps. *)

LEMMA DefParts ==
    ASSUME NEW d \in Def
    PROVE  /\ d = [states |-> d.states, trans |-> d.trans]
           /\ d.states \in SUBSET State /\ DOMAIN d.trans \in SUBSET Pair
           /\ d.trans \in [DOMAIN d.trans -> SUBSET Trigger]
<1>1. /\ d = [states |-> d.states, trans |-> d.trans] /\ d.states \in SUBSET State
      /\ d.trans \in UNION {[P -> SUBSET Trigger] : P \in SUBSET Pair}
    BY DEF Def
<1>2. PICK P \in SUBSET Pair : d.trans \in [P -> SUBSET Trigger]
    BY <1>1, Zenon
<1> QED
    BY <1>1, <1>2

LEMMA MakeDef ==
    ASSUME NEW S \in SUBSET State, NEW P \in SUBSET Pair, NEW t \in [P -> SUBSET Trigger]
    PROVE  [states |-> S, trans |-> t] \in Def
<1>1. t \in UNION {[Q -> SUBSET Trigger] : Q \in SUBSET Pair}
    BY Zenon
<1> HIDE DEF Pair
<1> QED
    BY <1>1, Zenon DEF Def

LEMMA NewDefType == NewDef \in Def
<1>1. [p \in {} |-> {}] \in [{} -> SUBSET Trigger]
    OBVIOUS
<1> QED
    BY <1>1, MakeDef DEF NewDef

LEMMA StatesOnly ==
    ASSUME NEW S \in SUBSET State PROVE [NewDef EXCEPT !.states = S] \in Def
<1>1. [NewDef EXCEPT !.states = S] = [states |-> S, trans |-> [p \in {} |-> {}]]
    BY DEF NewDef
<1>2. [p \in {} |-> {}] \in [{} -> SUBSET Trigger]
    OBVIOUS
<1>3. [states |-> S, trans |-> [p \in {} |-> {}]] \in Def
    BY <1>2, MakeDef
<1> QED
    BY <1>1, <1>3

LEMMA IdleFine == Fine("idle", Idle) /\ Idle \in Job
<1>1. NewDef \in Def
    BY NewDefType
<1>2. /\ <<>> \in Seq(Int) /\ <<None, None>> \in (State \cup {Star, None}) \X (State \cup {None})
    OBVIOUS
<1> DEFINE M == (State \cup {Star, None}) \X (State \cup {None})
<1> HIDE DEF M
<1>3. Idle \in Job
    BY <1>1, <1>2 DEF Idle, Job, M
<1>4. Idle.left = {}
    BY DEF Idle
<1> QED
    BY <1>3, <1>4 DEF Fine, JobOK, Place, Deciding

\* What keeps the workers' part: nothing changes it, or one worker moves.
LEMMA WorkersKept ==
    ASSUME Workers, UNCHANGED <<pc, job>>
    PROVE  Workers'
BY DEF Workers, Fine, JobOK

LEMMA GotoFine ==
    ASSUME Workers, NEW w \in Worker, NEW l, NEW j, Fine(l, j), Goto(w, l, j)
    PROVE  Workers'
<1>1. l \in Place /\ j \in Job
    BY DEF Fine
<1>2. pc' \in [Worker -> Place] /\ job' \in [Worker -> Job]
    BY <1>1 DEF Workers, Goto
<1>3. \A v \in Worker : Fine(pc'[v], job'[v])
    BY DEF Workers, Goto
<1> QED
    BY <1>2, <1>3 DEF Workers, Fine, JobOK

LEMMA ConsiderFine ==
    ASSUME Workers, NEW w \in Worker, NEW j \in Job, j.stream \in Stream, Consider(w, j)
    PROVE  Workers'
<1>1. CASE j.data = <<>>
    BY <1>1, IdleFine, GotoFine DEF Consider
<1>2. CASE j.data # <<>>
    <2> DEFINE x == [j EXCEPT !.left = DOMAIN j.def.trans, !.move = <<None, None>>]
    <2>0. j.def \in Def
        BY DEF Job
    <2>1. DOMAIN j.def.trans \in SUBSET Pair
        BY <2>0, DefParts
    <2>2. /\ x \in Job /\ x.left = DOMAIN x.def.trans
          /\ x.stream = j.stream /\ x.data = j.data
        <3> DEFINE M == (State \cup {Star, None}) \X (State \cup {None})
        <3>1. <<None, None>> \in M
            OBVIOUS
        <3> HIDE DEF M
        <3> QED
            BY <2>1, <3>1 DEF Job, M
    <2> HIDE DEF x
    <2>3. Fine("consider", x)
        BY <1>2, <2>2 DEF Fine, JobOK, Place, Deciding
    <2>4. Goto(w, "consider", x)
        BY <1>2 DEF Consider, x
    <2> QED
        BY <2>3, <2>4, GotoFine
<1> QED
    BY <1>1, <1>2

LEMMA UseFine ==
    ASSUME Workers, NEW w \in Worker, NEW j \in Job, j.stream \in Stream,
           NEW d \in Def \cup {Empty}, Use(w, j, d)
    PROVE  Workers'
<1>1. CASE d = Empty
    BY <1>1, IdleFine, GotoFine DEF Use
<1>2. CASE d # Empty
    <2> DEFINE x == [j EXCEPT !.def = d, !.key = None, !.old = FALSE]
    <2>1. x \in Job /\ x.stream = j.stream
        BY <1>2 DEF Job
    <2> HIDE DEF x
    <2>2. Consider(w, x)
        BY <1>2 DEF Use, x
    <2> QED
        BY <2>1, <2>2, ConsiderFine
<1> QED
    BY <1>1, <1>2

\* Readers and writers of the place where a worker is.
LEMMA At ==
    ASSUME Workers, NEW w \in Worker
    PROVE  /\ job[w] \in Job /\ job[w].left \in SUBSET DOMAIN job[w].def.trans
           /\ pc[w] # "idle" => job[w].stream \in Stream
           /\ pc[w] \in {"states", "read"} => job[w].key \in Key
           /\ pc[w] \notin Deciding => job[w].left = {}
           /\ pc[w] \in Deciding => job[w].data # <<>> /\ Tail(job[w].data) \in Seq(Int)
           /\ pc[w] \in {"act", "set"} => job[w].move \in (State \cup {Star}) \X State
<1>1. job[w] \in Job /\ Fine(pc[w], job[w])
    BY DEF Workers
<1>2. job[w].data \in Seq(Int)
    BY <1>1 DEF Job
<1> QED
    BY <1>1, <1>2 DEF Fine, JobOK

LEMMA NextReading ==
    ASSUME Workers, NEW w \in Worker, pc[w] \in Deciding
    PROVE  LET j == [job[w] EXCEPT !.data = Tail(@)]
           IN  j \in Job /\ j.stream \in Stream /\ j.stream = job[w].stream
<1>1. /\ job[w] \in Job /\ Tail(job[w].data) \in Seq(Int)
      /\ job[w].stream \in Stream
    BY At DEF Deciding
<1> QED
    BY <1>1 DEF Job

LEMMA TypeParts == TypeOK /\ JobsInv <=> Tables /\ Workers
<1>1. TypeOK /\ JobsInv => Tables /\ Workers
    BY Zenon DEF TypeOK, JobsInv, Tables, Workers, Fine, Place
<1>2. Tables /\ Workers => TypeOK /\ JobsInv
    BY Zenon DEF TypeOK, JobsInv, Tables, Workers, Fine, Place
<1> QED
    BY <1>1, <1>2

\* The workers keep what they need at their places.
LEMMA WorkersStep == TypeOK /\ JobsInv /\ [Next]_vars => Workers'
<1> SUFFICES ASSUME TypeOK /\ JobsInv, [Next]_vars PROVE Workers'
    OBVIOUS
<1>0. Tables /\ Workers
    BY TypeParts
<1>1. ASSUME NEW w \in Worker, NEW s \in Stream, NEW b \in Batch,
             GetOwn(w, s, b) PROVE Workers'
    <2> DEFINE x == [Idle EXCEPT !.stream = s, !.data = b]
    <2>1. x \in Job /\ x.stream = s /\ x.left = {}
        <3>1. b \in Seq(Int)
            BY <1>1, FilterAssumption
        <3>2. Idle \in Job /\ Idle.left = {}
            BY IdleFine DEF Idle
        <3> QED
            BY <1>1, <3>1, <3>2 DEF Job
    <2>2. CASE cache[s] # None
        <3>1. cache[s] \in Def \cup {Empty} /\ s \in Stream
            BY <1>1, <1>0, <2>2 DEF Tables, Key
        <3> QED
            BY <1>1, <1>0, <2>1, <2>2, <3>1, UseFine DEF GetOwn
    <2>3. CASE cache[s] = None
        <3>1. Fine("project", x)
            BY <1>1, <2>1 DEF Fine, JobOK, Place, Deciding
        <3> HIDE DEF x
        <3>2. Goto(w, "project", x)
            BY <1>1, <2>3 DEF GetOwn, x
        <3> QED
            BY <1>0, <3>1, <3>2, GotoFine
    <2> QED
        BY <2>2, <2>3
<1>2. ASSUME NEW w \in Worker, GetProject(w) PROVE Workers'
    <2>1. job[w] \in Job /\ job[w].stream \in Stream /\ job[w].left = {}
        BY <1>2, <1>0, At DEF GetProject, Deciding
    <2>2. CASE cache[Project] # None
        <3>1. cache[Project] \in Def \cup {Empty}
            BY <1>0, <2>2 DEF Tables, Key
        <3> QED
            BY <1>2, <1>0, <2>1, <2>2, <3>1, UseFine DEF GetProject
    <2>3. CASE cache[Project] = None
        <3>1. Fine("find", job[w])
            BY <2>1 DEF Fine, JobOK, Place, Deciding
        <3> QED
            BY <1>2, <1>0, <2>3, <3>1, GotoFine DEF GetProject
    <2> QED
        BY <2>2, <2>3
<1>3. ASSUME NEW w \in Worker, Find(w) PROVE Workers'
    <2>1. job[w] \in Job /\ job[w].stream \in Stream /\ job[w].left = {}
        BY <1>3, <1>0, At DEF Find, Deciding
    <2> DEFINE k == Found(job[w].stream)
    <2>2. CASE k = None
        <3>1. Fine("empty", job[w])
            BY <2>1 DEF Fine, JobOK, Place, Deciding
        <3> QED
            BY <1>3, <1>0, <2>2, <3>1, GotoFine DEF Find
    <2>3. CASE k # None
        <3> DEFINE d == [NewDef EXCEPT !.states = db[k].states]
                   x == [job[w] EXCEPT !.key = k, !.old = Editing(k), !.def = d]
        <3>1. k \in Key /\ db[k] \in Def
            BY <1>0, <2>1, <2>3 DEF Found, Tables, Key
        <3>2. db[k].states \in SUBSET State
            BY <3>1, DefParts
        <3> HIDE DEF k
        <3>5. d \in Def
            BY <3>2, StatesOnly
        <3>6. Editing(k) \in BOOLEAN
            BY Zenon DEF Editing
        <3> HIDE DEF d
        <3>7. /\ x \in Job /\ x.stream = job[w].stream /\ x.key = k
              /\ x.left = {}
            BY <2>1, <3>1, <3>5, <3>6 DEF Job
        <3> HIDE DEF x
        <3>8. Fine("states", x)
            BY <2>1, <3>1, <3>7 DEF Fine, JobOK, Place, Deciding
        <3>9. Goto(w, "states", x)
            BY <1>3, <2>3 DEF Find, x, d, k
        <3> QED
            BY <1>0, <3>8, <3>9, GotoFine
    <2> QED
        BY <2>2, <2>3
<1>4. ASSUME NEW w \in Worker, Read(w) PROVE Workers'
    <2> DEFINE k == job[w].key
    <2>1. /\ job[w] \in Job /\ job[w].stream \in Stream /\ k \in Key
          /\ job[w].left = {}
        BY <1>4, <1>0, At DEF Read, Deciding
    <2>2. CASE db[k] = NoDef
        <3>1. Fine("read", job[w])
            BY <2>1 DEF Fine, JobOK, Place, Deciding
        <3> QED
            BY <1>4, <1>0, <2>2, <3>1, GotoFine DEF Read
    <2>3. CASE db[k] # NoDef
        <3> DEFINE t == db[k].trans
                   x == [job[w] EXCEPT !.def.trans = t]
        <3>1. db[k] \in Def /\ job[w].def \in Def
            BY <1>0, <2>1, <2>3 DEF Tables, Job
        <3>2. /\ DOMAIN t \in SUBSET Pair /\ t \in [DOMAIN t -> SUBSET Trigger]
              /\ job[w].def.states \in SUBSET State
              /\ job[w].def = [states |-> job[w].def.states, trans |-> job[w].def.trans]
            BY <3>1, DefParts
        <3> HIDE DEF k, t
        <3>3. [job[w].def EXCEPT !.trans = t] = [states |-> job[w].def.states, trans |-> t]
            BY <3>2
        <3>4. [job[w].def EXCEPT !.trans = t] \in Def
            BY <3>2, <3>3, MakeDef
        <3>5. x = [job[w] EXCEPT !.def = [job[w].def EXCEPT !.trans = t]]
            OBVIOUS
        <3> DEFINE d == [job[w].def EXCEPT !.trans = t]
        <3> HIDE DEF x, d
        <3>6. x = [job[w] EXCEPT !.def = d] /\ d \in Def
            BY <3>4, <3>5 DEF d
        <3>7. /\ x \in Job /\ x.stream = job[w].stream /\ x.key = job[w].key
              /\ x.left = {}
            BY <2>1, <3>6 DEF Job
        <3>8. Fine("read", x)
            BY <2>1, <3>7 DEF Fine, JobOK, Place, Deciding, k
        <3>9. Goto(w, "read", x)
            BY <1>4, <2>3 DEF Read, x, t, k
        <3> QED
            BY <1>0, <3>8, <3>9, GotoFine
    <2> QED
        BY <2>2, <2>3
<1>5. ASSUME NEW w \in Worker, Fill(w) PROVE Workers'
    <2>1. job[w] \in Job /\ job[w].stream \in Stream /\ job[w].def \in Def
        BY <1>5, <1>0, At DEF Fill, Job
    <2> QED
        BY <1>5, <1>0, <2>1, UseFine DEF Fill
<1>6. ASSUME NEW w \in Worker, FillEmpty(w) PROVE Workers'
    BY <1>6, <1>0, IdleFine, GotoFine DEF FillEmpty
<1>7. ASSUME NEW w \in Worker, Decide(w) PROVE Workers'
    <2> DEFINE d == job[w].def
               p == First(job[w].left)
    <2>1. /\ job[w] \in Job /\ job[w].stream \in Stream /\ d \in Def
          /\ job[w].left \in SUBSET DOMAIN d.trans /\ job[w].data # <<>>
        BY <1>7, <1>0, At DEF Decide, Deciding, Job
    <2> HIDE DEF p
    <2>2. CASE Goto(w, "idle", Idle)
        BY <1>0, <2>2, IdleFine, GotoFine
    <2>3. CASE Goto(w, "consider", [job[w] EXCEPT !.left = @ \ {p}])
        <3> DEFINE x == [job[w] EXCEPT !.left = @ \ {p}]
        <3>1. /\ x \in Job /\ x.left \in SUBSET DOMAIN x.def.trans
              /\ x.stream \in Stream /\ x.data # <<>>
            BY <2>1 DEF Job
        <3> HIDE DEF x
        <3>2. Fine("consider", x)
            BY <3>1 DEF Fine, JobOK, Place, Deciding
        <3> QED
            BY <1>0, <2>3, <3>2, GotoFine DEF x
    <2>4. CASE /\ p[2] \in d.states
               /\ Goto(w, "act", [job[w] EXCEPT !.move = <<Source(d, p), p[2]>>])
        <3> DEFINE m == <<Source(d, p), p[2]>>
                   x == [job[w] EXCEPT !.move = m]
        <3>1. d.states \in SUBSET State
            BY <2>1, DefParts
        <3>2. m \in (State \cup {Star}) \X State
            BY <2>4, <3>1 DEF Source
        <3>3. m \in (State \cup {Star, None}) \X (State \cup {None})
            BY <3>2
        <3> HIDE DEF m, d
        <3>4. /\ x \in Job /\ x.left = job[w].left /\ x.def = job[w].def
              /\ x.stream \in Stream /\ x.data # <<>> /\ x.move = m
            BY <2>1, <3>3 DEF Job
        <3> HIDE DEF x
        <3>5. Fine("act", x)
            BY <2>1, <3>2, <3>4 DEF Fine, JobOK, Place, Deciding, d
        <3> QED
            BY <1>0, <2>4, <3>5, GotoFine DEF x, m, d
    <2>5. \/ Goto(w, "idle", Idle)
          \/ Goto(w, "consider", [job[w] EXCEPT !.left = @ \ {p}])
          \/ /\ p[2] \in d.states
             /\ Goto(w, "act", [job[w] EXCEPT !.move = <<Source(d, p), p[2]>>])
        BY <1>7, Zenon DEF Decide, p
    <2> QED
        BY <2>2, <2>3, <2>4, <2>5
<1>8. ASSUME NEW w \in Worker, Pass(w) PROVE Workers'
    BY <1>8, <1>0, NextReading, ConsiderFine DEF Pass, Deciding
<1>9. ASSUME NEW w \in Worker, Act(w) PROVE Workers'
    <2>1. Fine("set", job[w])
        BY <1>9, <1>0, At DEF Act, Fine, JobOK, Place, Deciding
    <2> QED
        BY <1>9, <1>0, <2>1, GotoFine DEF Act
<1>10. ASSUME NEW w \in Worker, SetState(w) PROVE Workers'
    BY <1>10, <1>0, NextReading, ConsiderFine DEF SetState, Deciding
<1>11. ASSUME NEW w \in Worker, Fail(w) PROVE Workers'
    BY <1>11, <1>0, IdleFine, GotoFine DEF Fail
<1>12. ASSUME NEW k \in Key, Expire(k) PROVE Workers'
    BY <1>12, <1>0, WorkersKept DEF Expire, workVars
<1>13. ASSUME NEW k \in Key, Request(k) PROVE Workers'
    BY <1>13, <1>0, WorkersKept DEF Request, workVars
<1>14. ASSUME Clear PROVE Workers'
    BY <1>14, <1>0, WorkersKept DEF Clear, workVars
<1>15. ASSUME Execute PROVE Workers'
    <2>1. \A w \in Worker : job[w] \in Job /\ Fine(pc[w], job[w])
        BY <1>0 DEF Workers
    <2>2. \A w \in Worker : /\ [job[w] EXCEPT !.old = TRUE] \in Job
                            /\ Fine(pc[w], [job[w] EXCEPT !.old = TRUE])
        BY <2>1 DEF Job, Fine, JobOK
    <2>3. \A w \in Worker : job'[w] \in Job /\ Fine(pc[w], job'[w])
        BY <1>15, <2>1, <2>2 DEF Execute
    <2>4. /\ job' = [w \in Worker |-> job'[w]]
          /\ pc' = pc
        BY <1>15 DEF Execute
    <2>5. job' \in [Worker -> Job] /\ pc' \in [Worker -> Place]
        BY <1>0, <2>3, <2>4 DEF Workers
    <2> QED
        BY <2>3, <2>4, <2>5 DEF Workers, Fine, JobOK
<1>16. ASSUME Uncache PROVE Workers'
    BY <1>16, <1>0, WorkersKept DEF Uncache, workVars
<1>17. ASSUME Forget PROVE Workers'
    BY <1>17, <1>0, WorkersKept DEF Forget, workVars
<1>18. CASE UNCHANGED vars
    BY <1>18, <1>0, WorkersKept DEF vars, workVars
<1> QED
    BY <1>1, <1>2, <1>3, <1>4, <1>5, <1>6, <1>7, <1>8, <1>9, <1>10, <1>11, <1>12,
       <1>13, <1>14, <1>15, <1>16, <1>17, <1>18 DEF Next, Lookup, Process, Editor

\* The editor's statements and the lists of them that requests execute.
LEMMA StmtType ==
    /\ \A op \in {"create", "delete", "clear", "uncache", "forget"} : Plain(op) \in Stmt
    /\ \A op \in {"addState", "dropState"}, n \in State : OnState(op, n) \in Simple
    /\ \A op \in {"link", "unlink"}, p \in Pair : OnTrans(op, p) \in Simple
    /\ \A op \in {"add", "drop"}, p \in Pair, t \in Trigger :
         [do |-> op, on |-> p, t |-> t] \in Simple
    /\ Simple \subseteq Stmt
<1> HIDE DEF Pair
<1>1. \A op \in {"create", "delete", "clear", "uncache", "forget"} : Plain(op) \in Stmt
    BY DEF Stmt, Plain
<1>2. \A op \in {"addState", "dropState"}, n \in State : OnState(op, n) \in Simple
    BY DEF Stmt, Simple, OnState
<1>3. \A op \in {"link", "unlink"}, p \in Pair : OnTrans(op, p) \in Simple
    BY DEF Stmt, Simple, OnTrans
<1>4. \A op \in {"add", "drop"}, p \in Pair, t \in Trigger :
         [do |-> op, on |-> p, t |-> t] \in Simple
    BY DEF Stmt, Simple
<1> QED
    BY <1>1, <1>2, <1>3, <1>4 DEF Simple

\* A finite set has a sequence of its members.
LEMMA SetToSeqType ==
    ASSUME NEW S, IsFiniteSet(S) PROVE SetToSeq(S) \in Seq(S)
<1>1. Cardinality(S) \in Nat /\ ExistsBijection(1..Cardinality(S), S)
    BY FS_CardinalityType
<1>2. \E f \in [1..Cardinality(S) -> S] : IsInjective(f)
    BY <1>1 DEF ExistsBijection, Bijection, Injection
<1>3. SetToSeq(S) \in [1..Cardinality(S) -> S]
    BY <1>2, Zenon DEF SetToSeq
<1> QED
    BY <1>1, <1>3

LEMMA EachType ==
    ASSUME NEW op \in {"add", "drop"}, NEW p \in Pair, NEW T \in SUBSET Trigger
    PROVE  Each(op, p, T) \in Seq(Simple)
<1>1. SetToSeq(T) \in Seq(T)
    BY FilterAssumption, FS_Subset, SetToSeqType
<1> DEFINE q == SetToSeq(T)
<1>2. q \in Seq(T)
    BY <1>1
<1> HIDE DEF q, Pair
<1>3. Len(q) \in Nat /\ \A i \in 1..Len(q) : q[i] \in Trigger
    BY <1>2
<1>4. \A i \in 1..Len(q) : [do |-> op, on |-> p, t |-> q[i]] \in Simple
    BY <1>3, StmtType
<1>5. [i \in 1..Len(q) |-> [do |-> op, on |-> p, t |-> q[i]]] \in [1..Len(q) -> Simple]
    BY <1>4
<1> QED
    BY <1>3, <1>5 DEF Each, q

LEMMA Joined ==
    ASSUME NEW S, NEW r \in Seq(S), NEW q \in Seq(S) PROVE r \o q \in Seq(S)
OBVIOUS

LEMMA SimpleFits ==
    ASSUME NEW r \in Seq(Simple), NEW d, d # NoDef, NEW W
    PROVE  r \in Seq(Stmt) /\ Fits(r, d, W)
<1>1. \A i \in 1..Len(r) : r[i] \in Simple
    OBVIOUS
<1>2. \A i \in 1..Len(r) : r[i] \in Stmt /\ r[i].do \notin {"create", "delete", "clear"} \cup Reset
    BY <1>1 DEF Simple, Reset
<1>3. r \in Seq(Stmt)
    BY <1>2
<1> QED
    BY <1>2, <1>3 DEF Fits

LEMMA PlainFits ==
    ASSUME NEW op \in {"create", "delete", "clear"}, NEW d, NEW W,
           op = "create" <=> d = NoDef
    PROVE  <<Plain(op)>> \in Seq(Stmt) /\ Fits(<<Plain(op)>>, d, W)
<1> DEFINE st == Plain(op)
<1>1. st \in Stmt /\ st.do = op
    BY StmtType DEF Plain
<1> HIDE DEF st
<1>2. Len(<<st>>) = 1 /\ <<st>>[1] = st /\ <<st>> \in Seq(Stmt)
    BY <1>1
<1> QED
    BY <1>1, <1>2 DEF Fits, Reset, st

LEMMA ResetFits ==
    ASSUME NEW W, NEW d \in W, d # NoDef
    PROVE  LET r == <<Plain("uncache"), Plain("forget")>>
           IN  r \in Seq(Stmt) /\ Fits(r, d, W)
<1> DEFINE a == Plain("uncache")
           b == Plain("forget")
<1>1. a \in Stmt /\ b \in Stmt /\ a.do = "uncache" /\ b.do = "forget"
    BY StmtType DEF Plain
<1> HIDE DEF a, b
<1>2. /\ Len(<<a, b>>) = 2 /\ <<a, b>>[1] = a /\ <<a, b>>[2] = b
      /\ <<a, b>> \in Seq(Stmt)
    BY <1>1
<1> QED
    BY <1>1, <1>2 DEF Fits, Reset, a, b

\* Every request fits the filter that it is checked against.
LEMMA RequestFits ==
    ASSUME NEW k \in Key, db[k] \in Def \cup {NoDef}, db[k] \in whole[k],
           NEW r \in Requests(k)
    PROVE  r \in Seq(Stmt) /\ Fits(r, db[k], whole[k])
<1>1. CASE db[k] = NoDef
    <2>1. r = <<Plain("create")>>
        BY <1>1 DEF Requests
    <2> QED
        BY <1>1, <2>1, PlainFits
<1>2. CASE db[k] # NoDef
    <2> DEFINE S == db[k].states
               P == DOMAIN db[k].trans
               N == Joins(S) \ P
    <2>1. /\ S \in SUBSET State /\ P \in SUBSET Pair
          /\ \A p \in P : db[k].trans[p] \in SUBSET Trigger
        BY <1>2, DefParts
    <2>2. N \in SUBSET Pair
        BY <2>1 DEF Pair, Joins
    <2>3. /\ Asked \in SUBSET SUBSET Trigger /\ UNION Asked \in SUBSET Trigger
        BY FilterAssumption
    <2> HIDE DEF N
    <2>4. \/ \E n \in State : r = <<OnState("addState", n)>>
          \/ \E n \in S : r = <<OnState("dropState", n)>>
          \/ \E p \in N, T \in Asked : r = <<OnTrans("link", p)>> \o Each("add", p, T)
          \/ \E p \in P : r \in Unlinking(k, p)
          \/ \E p \in P, T \in Asked : r = Rewriting(k, p, T)
          \/ \E p \in P, t \in UNION Asked : r = Each("add", p, {t})
          \/ \E p \in P : \E t \in db[k].trans[p] : r = Each("drop", p, {t})
          \/ r \in Deleting
          \/ r = <<Plain("uncache"), Plain("forget")>>
        <3>1. \/ r \in OnStates(S) \/ r \in Deleting
              \/ r \in OnTransitions(k, P) \/ r \in OnTriggers(k, P)
              \/ r = <<Plain("uncache"), Plain("forget")>>
            BY <1>2 DEF Requests
        <3> HIDE DEF P
        <3>2. r \in OnStates(S) => \/ \E n \in State : r = <<OnState("addState", n)>>
                                   \/ \E n \in S : r = <<OnState("dropState", n)>>
            BY DEF OnStates
        <3>3. r \in OnTransitions(k, P) =>
                \/ \E p \in N, T \in Asked : r = <<OnTrans("link", p)>> \o Each("add", p, T)
                \/ \E p \in P : r \in Unlinking(k, p)
                \/ \E p \in P, T \in Asked : r = Rewriting(k, p, T)
            <4> DEFINE A == {<<OnTrans("link", p)>> \o Each("add", p, T) : p \in N, T \in Asked}
                       B == UNION {Unlinking(k, p) : p \in P}
                       C == {Rewriting(k, p, T) : p \in P, T \in Asked}
            <4>1. OnTransitions(k, P) = A \cup B \cup C
                BY DEF OnTransitions, N
            <4>2. r \in A => \E p \in N, T \in Asked :
                                r = <<OnTrans("link", p)>> \o Each("add", p, T)
                OBVIOUS
            <4>3. r \in B => \E p \in P : r \in Unlinking(k, p)
                OBVIOUS
            <4>4. r \in C => \E p \in P, T \in Asked : r = Rewriting(k, p, T)
                OBVIOUS
            <4> HIDE DEF A, B, C
            <4> QED
                BY <4>1, <4>2, <4>3, <4>4
        <3>4. r \in OnTriggers(k, P) =>
                \/ \E p \in P, t \in UNION Asked : r = Each("add", p, {t})
                \/ \E p \in P : \E t \in db[k].trans[p] : r = Each("drop", p, {t})
            <4> DEFINE A == {Each("add", p, {t}) : p \in P, t \in UNION Asked}
                       B == UNION {{Each("drop", p, {t}) : t \in db[k].trans[p]} : p \in P}
            <4>1. OnTriggers(k, P) = A \cup B
                BY DEF OnTriggers
            <4>2. r \in A => \E p \in P, t \in UNION Asked : r = Each("add", p, {t})
                OBVIOUS
            <4>3. r \in B => \E p \in P : \E t \in db[k].trans[p] : r = Each("drop", p, {t})
                OBVIOUS
            <4> HIDE DEF A, B
            <4> QED
                BY <4>1, <4>2, <4>3
        <3> QED
            BY <3>1, <3>2, <3>3, <3>4
    <2>5. ASSUME NEW n \in State, NEW op \in {"addState", "dropState"}
          PROVE  <<OnState(op, n)>> \in Seq(Simple)
        BY StmtType
    <2>6. ASSUME NEW p \in Pair, NEW op \in {"link", "unlink"}
          PROVE  <<OnTrans(op, p)>> \in Seq(Simple)
        BY StmtType
    <2>7. ASSUME NEW n \in State, r = <<OnState("addState", n)>> PROVE r \in Seq(Simple)
        BY <2>5, <2>7
    <2>8. ASSUME NEW n \in S, r = <<OnState("dropState", n)>> PROVE r \in Seq(Simple)
        BY <2>1, <2>5, <2>8
    <2>9. ASSUME NEW p \in N, NEW T \in Asked,
                 r = <<OnTrans("link", p)>> \o Each("add", p, T)
          PROVE  r \in Seq(Simple)
        BY <2>2, <2>3, <2>6, <2>9, EachType, Joined
    <2>10. ASSUME NEW p \in P, r \in Unlinking(k, p) PROVE r \in Seq(Simple)
        <3>1. Each("drop", p, db[k].trans[p]) \in Seq(Simple)
            BY <2>1, EachType
        <3>2. <<OnTrans("unlink", p)>> \in Seq(Simple)
            BY <2>1, <2>6
        <3> QED
            BY <2>10, <3>1, <3>2, Joined DEF Unlinking
    <2>11. ASSUME NEW p \in P, NEW T \in Asked, r = Rewriting(k, p, T)
           PROVE  r \in Seq(Simple)
        <3>1. Each("drop", p, db[k].trans[p]) \in Seq(Simple)
            BY <2>1, EachType
        <3>2. Each("add", p, T) \in Seq(Simple)
            BY <2>1, <2>3, EachType
        <3> QED
            BY <2>11, <3>1, <3>2, Joined DEF Rewriting
    <2>12. ASSUME NEW p \in P, NEW t \in UNION Asked, r = Each("add", p, {t})
           PROVE  r \in Seq(Simple)
        <3>1. p \in Pair /\ {t} \in SUBSET Trigger
            BY <2>1, <2>3
        <3> QED
            BY <2>12, <3>1, EachType
    <2>13. ASSUME NEW p \in P, NEW t \in db[k].trans[p], r = Each("drop", p, {t})
           PROVE  r \in Seq(Simple)
        <3>1. p \in Pair /\ {t} \in SUBSET Trigger
            BY <2>1
        <3> QED
            BY <2>13, <3>1, EachType
    <2>14. CASE r \in Deleting
        <3>1. r = <<Plain("delete")>> \/ r = <<Plain("clear")>>
            BY <2>14 DEF Deleting
        <3>2. CASE r = <<Plain("delete")>>
            BY <1>2, <3>2, PlainFits
        <3>3. CASE r = <<Plain("clear")>>
            BY <1>2, <3>3, PlainFits
        <3> QED
            BY <3>1, <3>2, <3>3
    <2>15. CASE r = <<Plain("uncache"), Plain("forget")>>
        BY <1>2, <2>15, ResetFits
    <2> HIDE DEF S, P
    <2>16. r \in Seq(Simple) => r \in Seq(Stmt) /\ Fits(r, db[k], whole[k])
        BY <1>2, SimpleFits
    <2> QED
        BY <2>4, <2>7, <2>8, <2>9, <2>10, <2>11, <2>12, <2>13, <2>14, <2>15, <2>16
<1> QED
    BY <1>1, <1>2

LEMMA EmptyTail ==
    ASSUME NEW S, NEW q \in Seq(S) PROVE q = <<>> <=> Len(q) = 0
OBVIOUS

LEMMA TailFits ==
    ASSUME NEW r \in Seq(Stmt), r # <<>>, NEW d, NEW W, Fits(r, d, W)
    PROVE  /\ Tail(r) \in Seq(Stmt) /\ Head(r) \in Stmt
           /\ d = NoDef => Head(r).do = "create" /\ Tail(r) = <<>>
           /\ Head(r).do \in {"create", "delete", "clear"} => Tail(r) = <<>>
           /\ Head(r).do \notin Reset =>
                \A e, V : (Tail(r) # <<>> => e # NoDef) => Fits(Tail(r), e, V)
           /\ Head(r).do \in Reset => Fits(Tail(r), d, W) /\ d \in W
<1> DEFINE n1 == Len(r)
<1>0. n1 \in Nat \ {0} /\ r \in [1..n1 -> Stmt]
    OBVIOUS
<1>1. /\ Len(r) \in Nat \ {0} /\ Head(r) = r[1] /\ Head(r) \in Stmt
      /\ Tail(r) \in Seq(Stmt) /\ Len(Tail(r)) = Len(r) - 1
      /\ \A i \in 1..Len(Tail(r)) : Tail(r)[i] = r[i + 1] /\ i + 1 \in 1..Len(r)
      /\ Tail(r) = <<>> <=> Len(r) = 1
    <2>1. /\ Len(r) \in Nat \ {0} /\ Head(r) = r[1] /\ Head(r) \in Stmt
        BY <1>0
    <2>2. Tail(r) \in Seq(Stmt)
        OBVIOUS
    <2>3. Len(Tail(r)) = Len(r) - 1
        OBVIOUS
    <2>4. \A i \in 1..Len(Tail(r)) : Tail(r)[i] = r[i + 1] /\ i + 1 \in 1..Len(r)
        BY <2>1, <2>3
    <2>5. Tail(r) = <<>> <=> Len(Tail(r)) = 0
        BY <2>2, EmptyTail
    <2> QED
        BY <2>1, <2>2, <2>3, <2>4, <2>5
<1> DEFINE q == Tail(r)
           h == Head(r)
<1> HIDE DEF q, h
<1>2. /\ Len(r) \in Nat \ {0} /\ h = r[1] /\ Len(q) = Len(r) - 1
      /\ \A i \in 1..Len(q) : q[i] = r[i + 1] /\ i + 1 \in 1..Len(r)
      /\ q = <<>> <=> Len(r) = 1
    BY <1>1 DEF q, h
<1>3. /\ d = NoDef => h.do = "create" /\ Len(r) = 1
      /\ \A i \in 1..Len(r) :
           /\ d # NoDef => r[i].do # "create"
           /\ r[i].do \in {"delete", "clear"} => i = Len(r)
           /\ r[i].do \in Reset => d \in W /\ \A n \in 1..Len(r) : r[n].do \in Reset
    BY <1>2 DEF Fits
<1>4. 1 \in 1..Len(r)
    BY <1>2
<1>5. d = NoDef => h.do = "create" /\ q = <<>>
    BY <1>2, <1>3
<1>6. h.do \in {"create", "delete", "clear"} => q = <<>>
    BY <1>2, <1>3, <1>4
<1>7. ASSUME h.do \notin Reset, NEW e, NEW V, q # <<>> => e # NoDef
      PROVE  Fits(q, e, V)
    <2>1. \A i \in 1..Len(r) : r[i].do \notin Reset
        BY <1>2, <1>3, <1>4, <1>7
    <2>2. q # <<>> => d # NoDef
        BY <1>5
    <2>3. \A i \in 1..Len(q) : q # <<>> /\ q[i].do # "create"
        <3> SUFFICES ASSUME NEW i \in 1..Len(q) PROVE q # <<>> /\ q[i].do # "create"
            OBVIOUS
        <3>1. q # <<>>
            BY <1>2
        <3> QED
            BY <1>2, <1>3, <2>2, <3>1
    <2>4. \A i \in 1..Len(q) : q[i].do \in {"delete", "clear"} => i = Len(q)
        BY <1>2, <1>3, SMTT(30)
    <2>5. \A i \in 1..Len(q) : q[i].do \notin Reset
        BY <1>2, <2>1
    <2> QED
        BY <1>7, <2>3, <2>4, <2>5 DEF Fits
<1>8. ASSUME h.do \in Reset PROVE Fits(q, d, W) /\ d \in W
    <2>1. d \in W /\ \A n \in 1..Len(r) : r[n].do \in Reset
        BY <1>2, <1>3, <1>4, <1>8
    <2>2. \A n \in 1..Len(q) : q[n].do \in Reset
        BY <1>2, <2>1
    <2>3. d # NoDef
        BY <1>5, <1>8 DEF Reset
    <2> QED
        BY <2>1, <2>2, <2>3 DEF Fits, Reset
<1> QED
    BY <1>1, <1>5, <1>6, <1>7, <1>8 DEF q, h

LEMMA ClearFits ==
    ASSUME NEW p \in Pair, NEW T \in SUBSET Trigger, NEW d, d # NoDef, NEW W
    PROVE  LET r == Each("drop", p, T) \o <<OnTrans("unlink", p), Plain("clear")>>
           IN  r \in Seq(Stmt) /\ r # <<>> /\ Fits(r, d, W)
<1> DEFINE e == Each("drop", p, T)
           a == OnTrans("unlink", p)
           c == Plain("clear")
           r == e \o <<a, c>>
<1>1. /\ e \in Seq(Simple) /\ a \in Simple /\ a.do = "unlink"
      /\ c \in Stmt /\ c.do = "clear" /\ Simple \subseteq Stmt
    BY EachType, StmtType DEF Plain, OnTrans
<1> HIDE DEF e, a, c
<1>2. /\ Len(e) \in Nat /\ \A i \in 1..Len(e) : e[i] \in Simple
      /\ e \in Seq(Stmt) /\ <<a, c>> \in Seq(Stmt)
    BY <1>1
<1>3. /\ r \in Seq(Stmt) /\ Len(r) = Len(e) + 2
      /\ \A i \in 1..Len(e) : r[i] = e[i]
      /\ r[Len(e) + 1] = a /\ r[Len(e) + 2] = c
    BY <1>2
<1> HIDE DEF r
<1>4. \A i \in 1..Len(r) : i = Len(r) \/ r[i] \in Simple
    BY <1>1, <1>2, <1>3
<1>5. r[Len(r)].do = "clear" /\ Len(r) # 0
    BY <1>1, <1>2, <1>3
<1>6. \A x \in Simple : x.do \notin {"create", "delete", "clear"} \cup Reset
    BY DEF Simple, Reset
<1>7. Fits(r, d, W)
    BY <1>4, <1>5, <1>6 DEF Fits, Reset
<1>8. r # <<>>
    BY <1>3, <1>5, EmptyTail
<1> QED
    BY <1>3, <1>7, <1>8 DEF r, e, a, c

\* A statement makes a definition of a definition.
LEMMA ChangedType ==
    ASSUME NEW d \in Def \cup {NoDef}, NEW st \in Stmt,
           st.do \notin {"clear"} \cup Reset, d = NoDef => st.do = "create"
    PROVE  /\ Changed(d, st) \in Def \cup {NoDef}
           /\ Changed(d, st) = NoDef => st.do = "delete"
<1>0. NewDef \in Def /\ NoDef \notin Def
    BY NewDefType, FilterAssumption
<1>1. CASE st.do = "create"
    BY <1>0, <1>1 DEF Changed
<1>2. CASE st.do = "delete"
    BY <1>2 DEF Changed
<1>3. CASE st.do \notin {"create", "delete"}
    <2> DEFINE t == d.trans
               on == st.on
    <2>1. d \in Def
        BY <1>3
    <2>2. /\ d = [states |-> d.states, trans |-> t]
          /\ d.states \in SUBSET State /\ DOMAIN t \in SUBSET Pair
          /\ t \in [DOMAIN t -> SUBSET Trigger]
        BY <2>1, DefParts
    <2> HIDE DEF t, Pair
    <2>3. \A Q : DOMAIN t \ Q \in SUBSET Pair /\ Without(t, Q) \in [DOMAIN t \ Q -> SUBSET Trigger]
        BY <2>2 DEF Without
    <2>4. CASE st.do = "addState"
        <3>1. on[1] \in State
            BY <2>4 DEF Stmt
        <3>2. Changed(d, st) = [d EXCEPT !.states = d.states \cup {on[1]}]
            BY <2>4 DEF Changed
        <3>3. [d EXCEPT !.states = d.states \cup {on[1]}]
                = [states |-> d.states \cup {on[1]}, trans |-> t]
            BY <2>2
        <3>4. d.states \cup {on[1]} \in SUBSET State
            BY <2>2, <3>1
        <3> QED
            BY <1>0, <2>2, <3>2, <3>3, <3>4, MakeDef
    <2>5. CASE st.do = "dropState"
        <3> DEFINE Q == {p \in DOMAIN t : on[1] \in {p[1], p[2]}}
        <3>1. Changed(d, st) = [states |-> d.states \ {on[1]}, trans |-> Without(t, Q)]
            BY <2>5, Zenon DEF Changed, t
        <3>2. d.states \ {on[1]} \in SUBSET State
            BY <2>2
        <3> DEFINE u == Without(t, Q)
        <3>3. u \in [DOMAIN t \ Q -> SUBSET Trigger] /\ DOMAIN t \ Q \in SUBSET Pair
            BY <2>3
        <3> HIDE DEF Q, u
        <3>4. [states |-> d.states \ {on[1]}, trans |-> u] \in Def
            BY <3>2, <3>3, MakeDef
        <3> QED
            BY <1>0, <3>1, <3>4 DEF u
    <2>6. CASE st.do = "link"
        <3> DEFINE u == [p \in DOMAIN t \cup {on} |-> IF p = on THEN {} ELSE t[p]]
        <3>1. on \in Pair
            BY <2>6 DEF Stmt
        <3>2. Changed(d, st) = [d EXCEPT !.trans = u]
            BY <2>6 DEF Changed, t
        <3>3. u \in [DOMAIN t \cup {on} -> SUBSET Trigger] /\ DOMAIN t \cup {on} \in SUBSET Pair
            BY <2>2, <3>1
        <3> HIDE DEF u
        <3>4. [d EXCEPT !.trans = u] = [states |-> d.states, trans |-> u]
            BY <2>2
        <3> QED
            BY <1>0, <2>2, <3>2, <3>3, <3>4, MakeDef
    <2>7. CASE st.do = "unlink"
        <3> DEFINE u == Without(t, {on})
        <3>1. Changed(d, st) = [d EXCEPT !.trans = u]
            BY <2>7 DEF Changed, t
        <3>2. u \in [DOMAIN t \ {on} -> SUBSET Trigger] /\ DOMAIN t \ {on} \in SUBSET Pair
            BY <2>3
        <3> HIDE DEF u
        <3>3. [d EXCEPT !.trans = u] = [states |-> d.states, trans |-> u]
            BY <2>2
        <3> QED
            BY <1>0, <2>2, <3>1, <3>2, <3>3, MakeDef
    <2>8. CASE st.do \in {"add", "drop"}
        <3>1. st.t \in Trigger
            BY <2>8 DEF Stmt
        <3>2. PICK u : /\ u \in [DOMAIN t -> SUBSET Trigger]
                       /\ Changed(d, st) = [d EXCEPT !.trans = u]
            <4>1. CASE st.do = "add"
                <5> DEFINE u == [t EXCEPT ![on] = @ \cup {st.t}]
                <5>1. u \in [DOMAIN t -> SUBSET Trigger]
                    BY <2>2, <3>1
                <5>2. Changed(d, st) = [d EXCEPT !.trans[on] = @ \cup {st.t}]
                    BY <4>1 DEF Changed
                <5>3. Changed(d, st) = [d EXCEPT !.trans = u]
                    BY <5>2 DEF t
                <5> QED
                    BY <5>1, <5>3
            <4>2. CASE st.do = "drop"
                <5> DEFINE u == [t EXCEPT ![on] = @ \ {st.t}]
                <5>1. u \in [DOMAIN t -> SUBSET Trigger]
                    BY <2>2, <3>1
                <5>2. Changed(d, st) = [d EXCEPT !.trans[on] = @ \ {st.t}]
                    BY <4>2 DEF Changed
                <5>3. Changed(d, st) = [d EXCEPT !.trans = u]
                    BY <5>2 DEF t
                <5> QED
                    BY <5>1, <5>3
            <4> QED
                BY <2>8, <4>1, <4>2
        <3>3. [d EXCEPT !.trans = u] = [states |-> d.states, trans |-> u]
            BY <2>2
        <3> QED
            BY <1>0, <2>2, <3>2, <3>3, MakeDef
    <2>9. st.do \in {"addState", "dropState", "link", "unlink", "add", "drop"}
        BY <1>3 DEF Stmt, Reset
    <2> QED
        BY <2>4, <2>5, <2>6, <2>7, <2>8, <2>9
<1> QED
    BY <1>1, <1>2, <1>3

\* What a statement of the editor leaves to do.
LEMMA AdvanceStep ==
    ASSUME Tables, PlanInv, edit.todo # <<>>, Advance
    PROVE  /\ edit.key \in Key /\ edit' \in [key : Key, todo : Seq(Stmt)]
           /\ edit'.key = edit.key /\ edit'.todo = Tail(edit.todo)
           /\ Statement \in Stmt
           /\ db[edit.key] = NoDef => Statement.do = "create"
           /\ Statement.do = "delete" => edit'.todo = <<>>
           /\ Statement.do \notin Reset =>
                \A e, V : (edit'.todo # <<>> => e # NoDef) => Fits(edit'.todo, e, V)
           /\ Statement.do \in Reset =>
                /\ Fits(edit'.todo, db[edit.key], whole[edit.key])
                /\ db[edit.key] \in whole[edit.key]
<1> DEFINE r == edit.todo
<1>1. /\ edit.key \in Key /\ r \in Seq(Stmt) /\ r # <<>>
      /\ Fits(r, db[edit.key], whole[edit.key])
      /\ edit = [key |-> edit.key, todo |-> r]
    BY DEF Tables, PlanInv
<1>2. edit' = [key |-> edit.key, todo |-> Tail(r)]
    BY <1>1 DEF Advance
<1>3. Tail(r) \in Seq(Stmt)
    BY <1>1, TailFits
<1> HIDE DEF r
<1>4. /\ edit' \in [key : Key, todo : Seq(Stmt)]
      /\ edit'.key = edit.key /\ edit'.todo = Tail(r)
    BY <1>1, <1>2, <1>3
<1> QED
    BY <1>1, <1>4, TailFits DEF Statement, r

LEMMA ExecuteStep ==
    ASSUME Tables, PlanInv, Execute
    PROVE  /\ edit.key \in Key /\ db[edit.key] \in Def \cup {NoDef}
           /\ edit' \in [key : Key, todo : Seq(Stmt)] /\ edit'.key = edit.key
           /\ Changed(db[edit.key], Statement) \in Def \cup {NoDef}
           /\ db'[edit.key] = Changed(db[edit.key], Statement)
           /\ Fits(edit'.todo, db'[edit.key], whole'[edit.key])
<1> DEFINE d == db[edit.key]
           c == Changed(d, Statement)
<1>1. edit.todo # <<>> /\ Advance /\ Statement.do \notin {"clear"} \cup Reset
    BY DEF Execute, Reset
<1>2. /\ edit.key \in Key /\ edit' \in [key : Key, todo : Seq(Stmt)]
      /\ edit'.key = edit.key /\ Statement \in Stmt
      /\ d = NoDef => Statement.do = "create"
      /\ Statement.do = "delete" => edit'.todo = <<>>
      /\ \A e, V : (edit'.todo # <<>> => e # NoDef) => Fits(edit'.todo, e, V)
    BY <1>1, AdvanceStep
<1>3. d \in Def \cup {NoDef}
    BY <1>2 DEF Tables
<1>4. c \in Def \cup {NoDef} /\ (c = NoDef => Statement.do = "delete")
    BY <1>1, <1>2, <1>3, ChangedType
<1>5. db'[edit.key] = c
    BY <1>2 DEF Execute, Tables
<1> HIDE DEF d, c
<1>6. edit'.todo # <<>> => c # NoDef
    BY <1>2, <1>4
<1> QED
    BY <1>2, <1>3, <1>4, <1>5, <1>6 DEF d, c

LEMMA ClearStep ==
    ASSUME Tables, PlanInv, Clear
    PROVE  /\ edit.key \in Key /\ edit.todo # <<>>
           /\ edit' \in [key : Key, todo : Seq(Stmt)] /\ edit'.key = edit.key
           /\ edit'.todo # <<>> /\ edit'.todo \in Seq(Stmt)
           /\ Fits(edit'.todo, db[edit.key], whole[edit.key])
<1> DEFINE d == db[edit.key]
           trans == d.trans
<1>1. /\ edit.key \in Key /\ edit.todo \in Seq(Stmt) /\ edit.todo # <<>>
      /\ Fits(edit.todo, d, whole[edit.key])
      /\ edit = [key |-> edit.key, todo |-> edit.todo]
      /\ Head(edit.todo).do = "clear" /\ d \in Def \cup {NoDef}
    BY DEF Tables, PlanInv, Clear, Statement
<1>2. d # NoDef
    BY <1>1, TailFits
<1>3. DOMAIN trans \in SUBSET Pair /\ \A p \in DOMAIN trans : trans[p] \in SUBSET Trigger
    BY <1>1, <1>2, DefParts
<1>4. \A r : edit' = [edit EXCEPT !.todo = r] => edit' = [key |-> edit.key, todo |-> r]
    BY <1>1
<1>5. CASE \E p \in DOMAIN trans : edit' = [edit EXCEPT !.todo =
             Each("drop", p, trans[p]) \o <<OnTrans("unlink", p), Plain("clear")>>]
    <2>1. PICK p \in DOMAIN trans : edit' = [edit EXCEPT !.todo =
             Each("drop", p, trans[p]) \o <<OnTrans("unlink", p), Plain("clear")>>]
        BY <1>5
    <2> DEFINE r == Each("drop", p, trans[p]) \o <<OnTrans("unlink", p), Plain("clear")>>
    <2>2. r \in Seq(Stmt) /\ r # <<>> /\ Fits(r, d, whole[edit.key])
        BY <1>2, <1>3, ClearFits
    <2>3. edit' = [key |-> edit.key, todo |-> r]
        BY <1>4, <2>1
    <2> HIDE DEF r
    <2> QED
        BY <1>1, <2>2, <2>3
<1>6. CASE edit' = [edit EXCEPT !.todo = <<Plain("delete")>>]
    <2> DEFINE r == <<Plain("delete")>>
    <2>1. r \in Seq(Stmt) /\ Fits(r, d, whole[edit.key])
        BY <1>2, PlainFits
    <2>2. r # <<>>
        OBVIOUS
    <2>3. edit' = [key |-> edit.key, todo |-> r]
        BY <1>4, <1>6
    <2> HIDE DEF r
    <2> QED
        BY <1>1, <2>1, <2>2, <2>3
<1>7. \/ \E p \in DOMAIN trans : edit' = [edit EXCEPT !.todo =
              Each("drop", p, trans[p]) \o <<OnTrans("unlink", p), Plain("clear")>>]
      \/ edit' = [edit EXCEPT !.todo = <<Plain("delete")>>]
    BY Zenon DEF Clear
<1> QED
    BY <1>5, <1>6, <1>7

LEMMA CountsKept == MaxEdit \in Nat /\ MaxFault \in Nat
BY FilterAssumption

LEMMA TablesKept ==
    ASSUME Tables, UNCHANGED <<db, cache, state, entered, disturbed, raced, edit, edits>>,
           DOMAIN whole' = Key, faults' \in 0..MaxFault
    PROVE  Tables'
BY DEF Tables

LEMMA StreamKey == Stream \subseteq Key /\ Project \in Key
BY DEF Key

\* The database, the cache and the history keep their types.
LEMMA TablesStep == TypeOK /\ JobsInv /\ PlanInv /\ WholeInv /\ [Next]_vars => Tables'
<1> SUFFICES ASSUME TypeOK /\ JobsInv /\ PlanInv /\ WholeInv, [Next]_vars PROVE Tables'
    OBVIOUS
<1>0. Tables /\ Workers /\ PlanInv /\ WholeInv
    BY TypeParts
<1>1. ASSUME NEW w \in Worker, NEW s \in Stream, NEW b \in Batch,
             GetOwn(w, s, b) PROVE Tables'
    BY <1>1, <1>0, TablesKept DEF GetOwn, Tables, dbVars, cacheVars, stateVars
<1>2. ASSUME NEW w \in Worker, GetProject(w) PROVE Tables'
    BY <1>2, <1>0, TablesKept DEF GetProject, Tables, dbVars, cacheVars, stateVars
<1>3. ASSUME NEW w \in Worker, Find(w) PROVE Tables'
    BY <1>3, <1>0, TablesKept DEF Find, Tables, dbVars, cacheVars, stateVars
<1>4. ASSUME NEW w \in Worker, Read(w) PROVE Tables'
    BY <1>4, <1>0, TablesKept DEF Read, Tables, dbVars, cacheVars, stateVars
<1>5. ASSUME NEW w \in Worker, Fill(w) PROVE Tables'
    <2>1. job[w].def \in Def /\ job[w].key \in Key
        BY <1>5, <1>0, At DEF Fill, Job
    <2> QED
        BY <1>5, <1>0, <2>1 DEF Fill, Tables, NoteRace, dbVars, stateVars
<1>6. ASSUME NEW w \in Worker, FillEmpty(w) PROVE Tables'
    <2>1. job[w].stream \in Key
        BY <1>6, <1>0, At, StreamKey DEF FillEmpty
    <2> QED
        BY <1>6, <1>0, <2>1 DEF FillEmpty, Tables, NoteRace, dbVars, stateVars
<1>7. ASSUME NEW w \in Worker, Decide(w) PROVE Tables'
    <2>1. job[w].stream \in Stream
        BY <1>7, <1>0, At DEF Decide
    <2>2. disturbed' \subseteq Stream
        BY <1>7, <1>0, <2>1 DEF Decide, Tables
    <2>3. UNCHANGED <<dbVars, cacheVars, state, entered, faults>>
        BY <1>7 DEF Decide
    <2> QED
        BY <1>0, <2>2, <2>3 DEF Tables, dbVars, cacheVars
<1>8. ASSUME NEW w \in Worker, Pass(w) PROVE Tables'
    BY <1>8, <1>0, TablesKept DEF Pass, Tables, dbVars, cacheVars, stateVars
<1>9. ASSUME NEW w \in Worker, Act(w) PROVE Tables'
    <2>1. job[w].stream \in Stream /\ job[w].move[2] \in State
        BY <1>9, <1>0, At DEF Act
    <2> QED
        BY <1>9, <1>0, <2>1 DEF Act, Tables, dbVars, cacheVars
<1>10. ASSUME NEW w \in Worker, SetState(w) PROVE Tables'
    <2>1. job[w].stream \in Stream /\ job[w].move[2] \in State
        BY <1>10, <1>0, At DEF SetState
    <2> QED
        BY <1>10, <1>0, <2>1 DEF SetState, Tables, dbVars, cacheVars
<1>11. ASSUME NEW w \in Worker, Fail(w) PROVE Tables'
    <2>1. job[w].stream \in Stream
        BY <1>11, <1>0, At DEF Fail
    <2>2. faults' \in 0..MaxFault
        BY <1>11, <1>0, CountsKept DEF Fail, Tables
    <2> QED
        BY <1>11, <1>0, <2>1, <2>2 DEF Fail, Tables, dbVars, cacheVars
<1>12. ASSUME NEW k \in Key, Expire(k) PROVE Tables'
    BY <1>12, <1>0 DEF Expire, Tables, NoteRace, dbVars, stateVars, workVars
<1>13. ASSUME NEW k \in Key, Request(k) PROVE Tables'
    <2>1. PICK r \in Requests(k) : r # <<>> /\ edit' = [key |-> k, todo |-> r]
        BY <1>13 DEF Request
    <2>2. db[k] \in Def \cup {NoDef} /\ db[k] \in whole[k]
        BY <1>13, <1>0 DEF Request, Tables, WholeInv, Editing
    <2>3. r \in Seq(Stmt)
        BY <2>1, <2>2, RequestFits
    <2>4. edits' \in 0..MaxEdit
        BY <1>13, <1>0, CountsKept DEF Request, Tables
    <2> QED
        BY <1>13, <1>0, <2>1, <2>3, <2>4 DEF Request, Tables, cacheVars, stateVars, workVars
<1>14. ASSUME Clear PROVE Tables'
    <2>1. edit'.todo \in Seq(Stmt) /\ edit'.key = edit.key /\ edit' \in [key : Key, todo : Seq(Stmt)]
        BY <1>14, <1>0, ClearStep
    <2> QED
        BY <1>14, <1>0, <2>1 DEF Clear, Tables, cacheVars, stateVars, workVars
<1>15. ASSUME Execute PROVE Tables'
    <2>1. /\ edit.key \in Key /\ db[edit.key] \in Def \cup {NoDef}
          /\ edit' \in [key : Key, todo : Seq(Stmt)]
          /\ Changed(db[edit.key], Statement) \in Def \cup {NoDef}
        BY <1>15, <1>0, ExecuteStep
    <2>2. db' \in [Key -> Def \cup {NoDef}]
        BY <1>15, <1>0, <2>1 DEF Execute, Tables
    <2>3. DOMAIN whole' = Key
        BY <1>15, <1>0 DEF Execute, Tables
    <2> QED
        BY <1>15, <1>0, <2>1, <2>2, <2>3 DEF Execute, Tables, cacheVars, stateVars
<1>16. ASSUME Uncache PROVE Tables'
    <2>1. edit.key \in Key /\ edit' \in [key : Key, todo : Seq(Stmt)]
        BY <1>16, <1>0, AdvanceStep DEF Uncache
    <2> QED
        BY <1>16, <1>0, <2>1 DEF Uncache, Tables, NoteRace, stateVars, workVars
<1>17. ASSUME Forget PROVE Tables'
    <2>1. edit.key \in Key /\ edit' \in [key : Key, todo : Seq(Stmt)]
        BY <1>17, <1>0, AdvanceStep DEF Forget
    <2>2. \A k \in Key : k # Project => k \in Stream
        BY DEF Key
    <2>3. disturbed' \subseteq Stream
        BY <1>17, <1>0, <2>1, <2>2 DEF Forget, Tables
    <2>4. state' \in [Stream -> State \cup {None}] /\ entered' \in [Stream -> State \cup {None}]
        BY <1>17, <1>0 DEF Forget, Tables
    <2> QED
        BY <1>17, <1>0, <2>1, <2>3, <2>4 DEF Forget, Tables, cacheVars, workVars
<1>18. CASE UNCHANGED vars
    BY <1>18, <1>0, TablesKept DEF vars, Tables, dbVars, cacheVars, stateVars, workVars
<1> QED
    BY <1>1, <1>2, <1>3, <1>4, <1>5, <1>6, <1>7, <1>8, <1>9, <1>10, <1>11, <1>12,
       <1>13, <1>14, <1>15, <1>16, <1>17, <1>18 DEF Next, Lookup, Process, Editor

\* Where a worker goes when it has found a filter or starts on a reading.
LEMMA Moved ==
    ASSUME Workers, NEW w \in Worker, NEW l, NEW j, Goto(w, l, j)
    PROVE  /\ pc'[w] = l /\ job'[w] = j
           /\ \A v \in Worker \ {w} : pc'[v] = pc[v] /\ job'[v] = job[v]
BY DEF Workers, Goto

LEMMA ConsiderMoves ==
    ASSUME NEW w, NEW j, Consider(w, j) PROVE Moves(w, {"idle", "consider"})
BY DEF Consider, Moves

LEMMA UseMoves ==
    ASSUME NEW w, NEW j, NEW d, Use(w, j, d) PROVE Moves(w, {"idle", "consider"})
BY ConsiderMoves DEF Use, Moves

LEMMA MovesTo ==
    ASSUME NEW w, NEW L, NEW l \in L, NEW j, Goto(w, l, j) PROVE Moves(w, L)
BY DEF Moves

\* The steps of a worker in the lookup and before a transition.
LEMMA Movements ==
    ASSUME NEW w \in Worker
    PROVE  /\ \A s, b : GetOwn(w, s, b) => Moves(w, {"idle", "project", "consider"})
           /\ GetProject(w) => Moves(w, {"idle", "find", "consider"})
           /\ Find(w) => Moves(w, {"empty", "states"})
           /\ Read(w) => Moves(w, {"read"})
           /\ Fill(w) => Moves(w, {"idle", "consider"})
           /\ FillEmpty(w) => Moves(w, {"idle"})
           /\ Decide(w) => Moves(w, {"idle", "consider", "act"})
           /\ Pass(w) => Moves(w, {"idle", "consider"})
           /\ Act(w) => Moves(w, {"set"})
           /\ SetState(w) => Moves(w, {"idle", "consider"})
           /\ Fail(w) => Moves(w, {"idle"})
<1>0. \A L, M : L \subseteq M => (Moves(w, L) => Moves(w, M))
    BY DEF Moves
<1>1. ASSUME NEW s, NEW b, GetOwn(w, s, b)
      PROVE  Moves(w, {"idle", "project", "consider"})
    <2>1. CASE cache[s] # None
        BY <1>0, <1>1, <2>1, UseMoves DEF GetOwn
    <2>2. CASE cache[s] = None
        BY <1>1, <2>2, MovesTo DEF GetOwn
    <2> QED
        BY <2>1, <2>2
<1>2. ASSUME GetProject(w) PROVE Moves(w, {"idle", "find", "consider"})
    <2>1. CASE cache[Project] # None
        BY <1>0, <1>2, <2>1, UseMoves DEF GetProject
    <2>2. CASE cache[Project] = None
        BY <1>2, <2>2, MovesTo DEF GetProject
    <2> QED
        BY <2>1, <2>2
<1>3. Find(w) => Moves(w, {"empty", "states"})
    BY MovesTo DEF Find
<1>4. Read(w) => Moves(w, {"read"})
    BY MovesTo DEF Read
<1>5. Fill(w) => Moves(w, {"idle", "consider"})
    BY UseMoves DEF Fill
<1>6. FillEmpty(w) => Moves(w, {"idle"})
    BY MovesTo DEF FillEmpty
<1>7. ASSUME Decide(w) PROVE Moves(w, {"idle", "consider", "act"})
    <2>1. \/ Goto(w, "idle", Idle)
          \/ \E j : Goto(w, "consider", j)
          \/ \E j : Goto(w, "act", j)
        BY <1>7, Zenon DEF Decide
    <2> QED
        BY <2>1, MovesTo
<1>8. Pass(w) => Moves(w, {"idle", "consider"})
    BY ConsiderMoves DEF Pass
<1>9. Act(w) => Moves(w, {"set"})
    BY MovesTo DEF Act
<1>10. SetState(w) => Moves(w, {"idle", "consider"})
    BY ConsiderMoves DEF SetState
<1>11. Fail(w) => Moves(w, {"idle"})
    BY MovesTo DEF Fail
<1> QED
    BY <1>1, <1>2, <1>3, <1>4, <1>5, <1>6, <1>7, <1>8, <1>9, <1>10, <1>11

LEMMA PlanKept ==
    ASSUME PlanInv, UNCHANGED dbVars PROVE PlanInv'
BY DEF PlanInv, Fits, dbVars

\* What is left of an edit fits the filter.
LEMMA PlanStep == TypeOK /\ JobsInv /\ PlanInv /\ WholeInv /\ [Next]_vars => PlanInv'
<1> SUFFICES ASSUME TypeOK /\ JobsInv /\ PlanInv /\ WholeInv, [Next]_vars PROVE PlanInv'
    OBVIOUS
<1>0. Tables /\ Workers /\ PlanInv /\ WholeInv
    BY TypeParts
<1>1. ASSUME NEW w \in Worker, NEW s \in Stream, NEW b \in Batch,
             GetOwn(w, s, b) PROVE PlanInv'
    BY <1>1, <1>0, PlanKept DEF GetOwn
<1>2. ASSUME NEW w \in Worker, GetProject(w) PROVE PlanInv'
    BY <1>2, <1>0, PlanKept DEF GetProject
<1>3. ASSUME NEW w \in Worker, Find(w) PROVE PlanInv'
    BY <1>3, <1>0, PlanKept DEF Find
<1>4. ASSUME NEW w \in Worker, Read(w) PROVE PlanInv'
    BY <1>4, <1>0, PlanKept DEF Read
<1>5. ASSUME NEW w \in Worker, Fill(w) PROVE PlanInv'
    BY <1>5, <1>0, PlanKept DEF Fill
<1>6. ASSUME NEW w \in Worker, FillEmpty(w) PROVE PlanInv'
    BY <1>6, <1>0, PlanKept DEF FillEmpty
<1>7. ASSUME NEW w \in Worker, Decide(w) PROVE PlanInv'
    BY <1>7, <1>0, PlanKept DEF Decide
<1>8. ASSUME NEW w \in Worker, Pass(w) PROVE PlanInv'
    BY <1>8, <1>0, PlanKept DEF Pass
<1>9. ASSUME NEW w \in Worker, Act(w) PROVE PlanInv'
    BY <1>9, <1>0, PlanKept DEF Act
<1>10. ASSUME NEW w \in Worker, SetState(w) PROVE PlanInv'
    BY <1>10, <1>0, PlanKept DEF SetState
<1>11. ASSUME NEW w \in Worker, Fail(w) PROVE PlanInv'
    BY <1>11, <1>0, PlanKept DEF Fail
<1>12. ASSUME NEW k \in Key, Expire(k) PROVE PlanInv'
    BY <1>12, <1>0, PlanKept DEF Expire
<1>13. ASSUME NEW k \in Key, Request(k) PROVE PlanInv'
    <2>1. PICK r \in Requests(k) : r # <<>> /\ edit' = [key |-> k, todo |-> r]
        BY <1>13 DEF Request
    <2>2. db[k] \in Def \cup {NoDef} /\ db[k] \in whole[k]
        BY <1>13, <1>0 DEF Request, Tables, WholeInv, Editing
    <2>3. Fits(r, db[k], whole[k])
        BY <2>1, <2>2, RequestFits
    <2>4. edit'.key = k /\ edit'.todo = r /\ db' = db /\ whole' = whole
        BY <1>13, <2>1 DEF Request
    <2> QED
        BY <2>3, <2>4 DEF PlanInv
<1>14. ASSUME Clear PROVE PlanInv'
    <2>1. edit'.key = edit.key /\ Fits(edit'.todo, db[edit.key], whole[edit.key])
        BY <1>14, <1>0, ClearStep
    <2>2. db' = db /\ whole' = whole
        BY <1>14 DEF Clear
    <2> QED
        BY <2>1, <2>2 DEF PlanInv
<1>15. ASSUME Execute PROVE PlanInv'
    <2>1. edit'.key = edit.key /\ Fits(edit'.todo, db'[edit.key], whole'[edit.key])
        BY <1>15, <1>0, ExecuteStep
    <2> QED
        BY <2>1 DEF PlanInv
<1>16. ASSUME Uncache PROVE PlanInv'
    <2>1. edit'.key = edit.key /\ Fits(edit'.todo, db[edit.key], whole[edit.key])
        BY <1>16, <1>0, AdvanceStep DEF Uncache, Reset
    <2>2. db' = db /\ whole' = whole
        BY <1>16 DEF Uncache
    <2> QED
        BY <2>1, <2>2 DEF PlanInv
<1>17. ASSUME Forget PROVE PlanInv'
    <2>1. edit'.key = edit.key /\ Fits(edit'.todo, db[edit.key], whole[edit.key])
        BY <1>17, <1>0, AdvanceStep DEF Forget, Reset
    <2>2. db' = db /\ whole' = whole
        BY <1>17 DEF Forget
    <2> QED
        BY <2>1, <2>2 DEF PlanInv
<1>18. CASE UNCHANGED vars
    BY <1>18, <1>0, PlanKept DEF vars
<1> QED
    BY <1>1, <1>2, <1>3, <1>4, <1>5, <1>6, <1>7, <1>8, <1>9, <1>10, <1>11, <1>12,
       <1>13, <1>14, <1>15, <1>16, <1>17, <1>18 DEF Next, Lookup, Process, Editor

LEMMA WholeKept ==
    ASSUME WholeInv, UNCHANGED <<dbVars, cacheVars>> PROVE WholeInv'
BY DEF WholeInv, OnlyWholeDefinitions, Editing, dbVars, cacheVars

\* An entry that is dropped is no definition.
LEMMA WholeDropped ==
    ASSUME WholeInv, Tables, NEW k \in Key, NEW v \in {None, Empty},
           cache' = [cache EXCEPT ![k] = v], raced \subseteq raced' \cup {k},
           whole' = whole, UNCHANGED db,
           \A h \in Key : ~Editing(h)' => db[h] \in whole[h]
    PROVE  WholeInv'
<1>1. \A h \in Key : cache'[h] = IF h = k THEN v ELSE cache[h]
    BY DEF Tables
<1>2. OnlyWholeDefinitions'
    BY <1>1 DEF WholeInv, OnlyWholeDefinitions
<1>3. \A h \in Key : ~Editing(h)' => db'[h] \in whole'[h]
    OBVIOUS
<1> QED
    BY <1>2, <1>3 DEF WholeInv, Editing

\* What nobody is editing is whole, and so is what the cache holds.
LEMMA WholeStep == TypeOK /\ JobsInv /\ PlanInv /\ WholeInv /\ ReadInv /\ [Next]_vars => WholeInv'
<1> SUFFICES ASSUME TypeOK /\ JobsInv /\ PlanInv /\ WholeInv /\ ReadInv, [Next]_vars PROVE WholeInv'
    OBVIOUS
<1>0. Tables /\ Workers /\ PlanInv /\ WholeInv /\ ReadInv
    BY TypeParts
<1>1. ASSUME NEW w \in Worker, NEW s \in Stream, NEW b \in Batch,
             GetOwn(w, s, b) PROVE WholeInv'
    BY <1>1, <1>0, WholeKept DEF GetOwn
<1>2. ASSUME NEW w \in Worker, GetProject(w) PROVE WholeInv'
    BY <1>2, <1>0, WholeKept DEF GetProject
<1>3. ASSUME NEW w \in Worker, Find(w) PROVE WholeInv'
    BY <1>3, <1>0, WholeKept DEF Find
<1>4. ASSUME NEW w \in Worker, Read(w) PROVE WholeInv'
    BY <1>4, <1>0, WholeKept DEF Read
<1>5. ASSUME NEW w \in Worker, Fill(w) PROVE WholeInv'
    <2> DEFINE k == job[w].key
    <2>1. k \in Key /\ pc[w] = "read" /\ job[w].def \in Def
        BY <1>5, <1>0, At DEF Fill, Job
    <2>2. ~job[w].old => job[w].def \in whole[k]
        <3> SUFFICES ASSUME ~job[w].old PROVE job[w].def \in whole[k]
            OBVIOUS
        <3>1. /\ db[k] # NoDef /\ db[k] \in whole[k]
              /\ job[w].def.states = db[k].states /\ job[w].def.trans = db[k].trans
            BY <1>0, <2>1 DEF ReadInv
        <3>2. db[k] \in Def
            BY <1>0, <2>1, <3>1 DEF Tables
        <3>3. /\ db[k] = [states |-> db[k].states, trans |-> db[k].trans]
              /\ job[w].def = [states |-> job[w].def.states, trans |-> job[w].def.trans]
            BY <2>1, <3>2, DefParts
        <3> QED
            BY <3>1, <3>3
    <2>3. /\ cache' = [cache EXCEPT ![k] = job[w].def]
          /\ raced' = (IF job[w].old THEN raced \cup {k} ELSE raced \ {k})
          /\ UNCHANGED dbVars
        BY <1>5 DEF Fill, NoteRace
    <2>4. \A h \in Key : cache'[h] = IF h = k THEN job[w].def ELSE cache[h]
        BY <1>0, <2>3 DEF Tables
    <2> HIDE DEF k
    <2>5. OnlyWholeDefinitions'
        BY <1>0, <2>2, <2>3, <2>4 DEF WholeInv, OnlyWholeDefinitions, dbVars
    <2> QED
        BY <1>0, <2>3, <2>5 DEF WholeInv, Editing, dbVars
<1>6. ASSUME NEW w \in Worker, FillEmpty(w) PROVE WholeInv'
    <2>1. job[w].stream \in Key
        BY <1>6, <1>0, At, StreamKey DEF FillEmpty
    <2>2. \A h \in Key : ~Editing(h)' => db[h] \in whole[h]
        BY <1>6, <1>0 DEF FillEmpty, dbVars, Editing, WholeInv
    <2> QED
        BY <1>6, <1>0, <2>1, <2>2, WholeDropped DEF FillEmpty, NoteRace, dbVars
<1>7. ASSUME NEW w \in Worker, Decide(w) PROVE WholeInv'
    BY <1>7, <1>0, WholeKept DEF Decide
<1>8. ASSUME NEW w \in Worker, Pass(w) PROVE WholeInv'
    BY <1>8, <1>0, WholeKept DEF Pass
<1>9. ASSUME NEW w \in Worker, Act(w) PROVE WholeInv'
    BY <1>9, <1>0, WholeKept DEF Act
<1>10. ASSUME NEW w \in Worker, SetState(w) PROVE WholeInv'
    BY <1>10, <1>0, WholeKept DEF SetState
<1>11. ASSUME NEW w \in Worker, Fail(w) PROVE WholeInv'
    BY <1>11, <1>0, WholeKept DEF Fail
<1>12. ASSUME NEW k \in Key, Expire(k) PROVE WholeInv'
    <2>2. \A h \in Key : ~Editing(h)' => db[h] \in whole[h]
        BY <1>12, <1>0 DEF Expire, dbVars, Editing, WholeInv
    <2> QED
        BY <1>12, <1>0, <2>2, WholeDropped DEF Expire, NoteRace, dbVars
<1>13. ASSUME NEW k \in Key, Request(k) PROVE WholeInv'
    <2>1. \A h \in Key : db[h] \in whole[h]
        BY <1>13, <1>0 DEF Request, Editing, WholeInv
    <2> QED
        BY <1>13, <1>0, <2>1 DEF Request, WholeInv, OnlyWholeDefinitions, cacheVars
<1>14. ASSUME Clear PROVE WholeInv'
    <2>1. edit'.key = edit.key /\ edit.todo # <<>> /\ edit'.todo # <<>>
        BY <1>14, <1>0, ClearStep
    <2> QED
        BY <1>14, <1>0, <2>1 DEF Clear, Editing, WholeInv, OnlyWholeDefinitions, cacheVars
<1>15. ASSUME Execute PROVE WholeInv'
    <2> DEFINE k == edit.key
    <2>1. k \in Key /\ edit'.key = k /\ edit.todo # <<>>
        BY <1>15, <1>0, ExecuteStep DEF Execute
    <2>2. \A h \in Key \ {k} : db'[h] = db[h]
        BY <1>15, <1>0, <2>1 DEF Execute, Tables
    <2>3. \A h \in Key : whole[h] \subseteq whole'[h]
        BY <1>15, <1>0, <2>1 DEF Execute, Tables
    <2>4. edit'.todo = <<>> => db'[k] \in whole'[k]
        BY <1>15, <1>0, <2>1 DEF Execute, Tables
    <2> HIDE DEF k
    <2>5. OnlyWholeDefinitions'
        BY <1>15, <1>0, <2>3 DEF Execute, WholeInv, OnlyWholeDefinitions, cacheVars
    <2>6. \A h \in Key : ~Editing(h)' => db'[h] \in whole'[h]
        <3> SUFFICES ASSUME NEW h \in Key, ~Editing(h)' PROVE db'[h] \in whole'[h]
            OBVIOUS
        <3>1. CASE h = k
            BY <2>1, <2>4, <3>1 DEF Editing, k
        <3>2. CASE h # k
            BY <1>0, <2>1, <2>2, <2>3, <3>2 DEF Editing, WholeInv, k
        <3> QED
            BY <3>1, <3>2
    <2> QED
        BY <2>5, <2>6 DEF WholeInv
<1>16. ASSUME Uncache PROVE WholeInv'
    <2>1. /\ edit.key \in Key /\ edit'.key = edit.key
          /\ db[edit.key] \in whole[edit.key]
        BY <1>16, <1>0, AdvanceStep DEF Uncache, Reset
    <2>2. \A h \in Key : ~Editing(h)' => db[h] \in whole[h]
        BY <1>16, <1>0, <2>1 DEF Editing, WholeInv
    <2> QED
        BY <1>16, <1>0, <2>1, <2>2, WholeDropped DEF Uncache, NoteRace
<1>17. ASSUME Forget PROVE WholeInv'
    <2>1. /\ edit.key \in Key /\ edit'.key = edit.key
          /\ db[edit.key] \in whole[edit.key]
        BY <1>17, <1>0, AdvanceStep DEF Forget, Reset
    <2>2. \A h \in Key : ~Editing(h)' => db[h] \in whole[h]
        BY <1>17, <1>0, <2>1 DEF Editing, WholeInv
    <2> QED
        BY <1>17, <1>0, <2>2 DEF Forget, WholeInv, OnlyWholeDefinitions, cacheVars
<1>18. CASE UNCHANGED vars
    BY <1>18, <1>0, WholeKept DEF vars
<1> QED
    BY <1>1, <1>2, <1>3, <1>4, <1>5, <1>6, <1>7, <1>8, <1>9, <1>10, <1>11, <1>12,
       <1>13, <1>14, <1>15, <1>16, <1>17, <1>18 DEF Next, Lookup, Process, Editor

LEMMA ReadKept ==
    ASSUME ReadInv, UNCHANGED <<db, whole, pc, job>> PROVE ReadInv'
BY DEF ReadInv

LEMMA ReadMoved ==
    ASSUME ReadInv, Workers, NEW w \in Worker,
           NEW L, Moves(w, L), L \cap {"states", "read"} = {}, UNCHANGED <<db, whole>>
    PROVE  ReadInv'
<1>0. PICK l \in L : \E j : Goto(w, l, j)
    BY DEF Moves
<1>1. PICK j : Goto(w, l, j)
    BY <1>0
<1>2. l \notin {"states", "read"}
    OBVIOUS
<1>3. pc'[w] = l /\ \A v \in Worker \ {w} : pc'[v] = pc[v] /\ job'[v] = job[v]
    BY <1>1, Moved
<1> QED
    BY <1>2, <1>3 DEF ReadInv

\* A lookup that no edit has overlapped has what is in the database.
LEMMA ReadStep == TypeOK /\ JobsInv /\ PlanInv /\ WholeInv /\ ReadInv /\ [Next]_vars => ReadInv'
<1> SUFFICES ASSUME TypeOK /\ JobsInv /\ PlanInv /\ WholeInv /\ ReadInv, [Next]_vars PROVE ReadInv'
    OBVIOUS
<1>0. Tables /\ Workers /\ PlanInv /\ WholeInv /\ ReadInv
    BY TypeParts
<1>1. ASSUME NEW w \in Worker, NEW s \in Stream, NEW b \in Batch,
             GetOwn(w, s, b) PROVE ReadInv'
    BY <1>1, <1>0, Movements, ReadMoved DEF GetOwn, dbVars
<1>2. ASSUME NEW w \in Worker, GetProject(w) PROVE ReadInv'
    BY <1>2, <1>0, Movements, ReadMoved DEF GetProject, dbVars
<1>3. ASSUME NEW w \in Worker, Find(w) PROVE ReadInv'
    <2> DEFINE k == Found(job[w].stream)
    <2>0. UNCHANGED <<db, whole>> /\ job[w].stream \in Stream /\ job[w] \in Job
        BY <1>3, <1>0, At DEF Find, dbVars
    <2>1. CASE k = None
        <3>1. Moves(w, {"empty"})
            BY <1>3, <2>1, MovesTo DEF Find
        <3> QED
            BY <1>0, <2>0, <3>1, ReadMoved
    <2>2. CASE k # None
        <3> DEFINE d == [NewDef EXCEPT !.states = db[k].states]
                   x == [job[w] EXCEPT !.key = k, !.old = Editing(k), !.def = d]
        <3>1. k \in Key /\ db[k] # NoDef
            BY <2>0, <2>2 DEF Found, Key
        <3>2. Goto(w, "states", x)
            BY <1>3, <2>2 DEF Find
        <3>3. d.states = db[k].states
            BY DEF NewDef
        <3> HIDE DEF k, d
        <3>4. x.key = k /\ x.def = d /\ (x.old <=> Editing(k))
            BY <2>0 DEF Job
        <3> HIDE DEF x
        <3>5. /\ pc'[w] = "states" /\ job'[w] = x
              /\ \A v \in Worker \ {w} : pc'[v] = pc[v] /\ job'[v] = job[v]
            BY <1>0, <3>2, Moved
        <3>6. ~x.old => db[k] \in whole[k]
            BY <1>0, <3>1, <3>4 DEF WholeInv
        <3> QED
            BY <1>0, <2>0, <3>1, <3>3, <3>4, <3>5, <3>6 DEF ReadInv
    <2> QED
        BY <2>1, <2>2
<1>4. ASSUME NEW w \in Worker, Read(w) PROVE ReadInv'
    <2> DEFINE k == job[w].key
               t == db[k].trans
               x == [job[w] EXCEPT !.def.trans = t]
    <2>0. /\ UNCHANGED <<db, whole>> /\ k \in Key /\ job[w] \in Job
          /\ job[w].def \in Def
        BY <1>4, <1>0, At DEF Read, dbVars, Job
    <2>1. job[w].def = [states |-> job[w].def.states, trans |-> job[w].def.trans]
        BY <2>0, DefParts
    <2>2. CASE db[k] = NoDef
        <3>1. Goto(w, "read", job[w]) /\ pc[w] = "states"
            BY <1>4, <2>2 DEF Read
        <3>2. /\ pc'[w] = "read" /\ job'[w] = job[w]
              /\ \A v \in Worker \ {w} : pc'[v] = pc[v] /\ job'[v] = job[v]
            BY <1>0, <3>1, Moved
        <3> QED
            BY <1>0, <2>0, <2>2, <3>1, <3>2 DEF ReadInv
    <2>3. CASE db[k] # NoDef
        <3>1. Goto(w, "read", x) /\ pc[w] = "states"
            BY <1>4, <2>3 DEF Read
        <3>2. /\ pc'[w] = "read" /\ job'[w] = x
              /\ \A v \in Worker \ {w} : pc'[v] = pc[v] /\ job'[v] = job[v]
            BY <1>0, <3>1, Moved
        <3> HIDE DEF k, t
        <3>3. [job[w].def EXCEPT !.trans = t] = [states |-> job[w].def.states, trans |-> t]
            BY <2>1
        <3>4. /\ x.key = job[w].key /\ x.old = job[w].old
              /\ x.def = [job[w].def EXCEPT !.trans = t]
            BY <2>0 DEF Job
        <3>5. x.def.states = job[w].def.states /\ x.def.trans = t
            BY <3>3, <3>4
        <3> HIDE DEF x
        <3>6. pc[w] = "states" /\ ~job[w].old =>
                /\ db[k] # NoDef /\ db[k] \in whole[k]
                /\ job[w].def.states = db[k].states
            BY <1>0 DEF ReadInv, k
        <3>7. pc'[w] \in {"states", "read"} /\ ~job'[w].old =>
                LET e == db'[job'[w].key]
                IN  /\ e # NoDef /\ e \in whole'[job'[w].key]
                    /\ job'[w].def.states = e.states
                    /\ pc'[w] = "read" => job'[w].def.trans = e.trans
            BY <2>0, <3>1, <3>2, <3>4, <3>5, <3>6 DEF k, t
        <3>8. \A v \in Worker \ {w} : pc'[v] \in {"states", "read"} /\ ~job'[v].old =>
                LET e == db'[job'[v].key]
                IN  /\ e # NoDef /\ e \in whole'[job'[v].key]
                    /\ job'[v].def.states = e.states
                    /\ pc'[v] = "read" => job'[v].def.trans = e.trans
            BY <1>0, <2>0, <3>2 DEF ReadInv
        <3> QED
            BY <3>7, <3>8 DEF ReadInv
    <2> QED
        BY <2>2, <2>3
<1>5. ASSUME NEW w \in Worker, Fill(w) PROVE ReadInv'
    BY <1>5, <1>0, Movements, ReadMoved DEF Fill, dbVars
<1>6. ASSUME NEW w \in Worker, FillEmpty(w) PROVE ReadInv'
    BY <1>6, <1>0, Movements, ReadMoved DEF FillEmpty, dbVars
<1>7. ASSUME NEW w \in Worker, Decide(w) PROVE ReadInv'
    BY <1>7, <1>0, Movements, ReadMoved DEF Decide, dbVars
<1>8. ASSUME NEW w \in Worker, Pass(w) PROVE ReadInv'
    BY <1>8, <1>0, Movements, ReadMoved DEF Pass, dbVars
<1>9. ASSUME NEW w \in Worker, Act(w) PROVE ReadInv'
    BY <1>9, <1>0, Movements, ReadMoved DEF Act, dbVars
<1>10. ASSUME NEW w \in Worker, SetState(w) PROVE ReadInv'
    BY <1>10, <1>0, Movements, ReadMoved DEF SetState, dbVars
<1>11. ASSUME NEW w \in Worker, Fail(w) PROVE ReadInv'
    BY <1>11, <1>0, Movements, ReadMoved DEF Fail, dbVars
<1>12. ASSUME NEW k \in Key, Expire(k) PROVE ReadInv'
    BY <1>12, <1>0, ReadKept DEF Expire, dbVars, workVars
<1>13. ASSUME NEW k \in Key, Request(k) PROVE ReadInv'
    BY <1>13, <1>0, ReadKept DEF Request, dbVars, workVars
<1>14. ASSUME Clear PROVE ReadInv'
    BY <1>14, <1>0, ReadKept DEF Clear, dbVars, workVars
<1>15. ASSUME Execute PROVE ReadInv'
    <2> DEFINE k == edit.key
    <2>1. k \in Key
        BY <1>15, <1>0, ExecuteStep
    <2>2. \A h \in Key \ {k} : db'[h] = db[h] /\ whole[h] \subseteq whole'[h]
        BY <1>15, <1>0, <2>1 DEF Execute, Tables
    <2>3. \A w \in Worker : /\ pc'[w] = pc[w]
                            /\ job'[w] = IF pc[w] \in {"states", "read"} /\ job[w].key = k
                                         THEN [job[w] EXCEPT !.old = TRUE] ELSE job[w]
        BY <1>15 DEF Execute
    <2>4. \A w \in Worker : job[w] \in Job /\ (pc[w] \in {"states", "read"} => job[w].key \in Key)
        BY <1>0, At
    <2> HIDE DEF k
    <2>5. \A w \in Worker : pc[w] \in {"states", "read"} /\ ~job'[w].old =>
            job[w].key # k /\ job'[w] = job[w]
        BY <2>3, <2>4 DEF Job
    <2> SUFFICES ASSUME NEW w \in Worker, pc'[w] \in {"states", "read"}, ~job'[w].old
                 PROVE  LET e == db'[job'[w].key]
                        IN  /\ e # NoDef /\ e \in whole'[job'[w].key]
                            /\ job'[w].def.states = e.states
                            /\ pc'[w] = "read" => job'[w].def.trans = e.trans
        BY DEF ReadInv
    <2>6. pc'[w] = pc[w] /\ job'[w] = job[w] /\ job[w].key \in Key \ {k}
        BY <2>3, <2>4, <2>5
    <2> QED
        BY <1>0, <2>2, <2>6 DEF ReadInv
<1>16. ASSUME Uncache PROVE ReadInv'
    BY <1>16, <1>0, ReadKept DEF Uncache, dbVars, workVars
<1>17. ASSUME Forget PROVE ReadInv'
    BY <1>17, <1>0, ReadKept DEF Forget, dbVars, workVars
<1>18. CASE UNCHANGED vars
    BY <1>18, <1>0, ReadKept DEF vars, dbVars, workVars
<1> QED
    BY <1>1, <1>2, <1>3, <1>4, <1>5, <1>6, <1>7, <1>8, <1>9, <1>10, <1>11, <1>12,
       <1>13, <1>14, <1>15, <1>16, <1>17, <1>18 DEF Next, Lookup, Process, Editor

\* Steps that touch neither the states nor a transition.
LEMMA TransKept ==
    ASSUME TransInv, UNCHANGED stateVars,
           \A s \in Stream, w \in Worker : Busy(w, s)' = Busy(w, s),
           \A w \in Worker : pc[w] \in {"act", "set"} =>
             pc'[w] = pc[w] /\ job'[w].move = job[w].move
    PROVE  TransInv'
<1> SUFFICES ASSUME NEW s \in Stream \ disturbed PROVE
      /\ \A v, w \in Worker : Busy(v, s)' /\ Busy(w, s)' => v = w
      /\ \A w \in Worker : Busy(w, s)' =>
           /\ pc'[w] = "set" => entered[s] = job'[w].move[2]
           /\ pc'[w] = "act" /\ job'[w].move[1] # job'[w].move[2]
                => entered[s] # job'[w].move[2]
      /\ state[s] # entered[s] => \E w \in Worker : Busy(w, s)' /\ pc'[w] = "set"
    BY Zenon DEF TransInv, stateVars
<1>1. \A w \in Worker : Busy(w, s) =>
        pc[w] \in {"act", "set"} /\ pc'[w] = pc[w] /\ job'[w].move = job[w].move
    BY DEF Busy
<1> HIDE DEF Busy
<1>2. /\ \A v, w \in Worker : Busy(v, s) /\ Busy(w, s) => v = w
      /\ \A w \in Worker : Busy(w, s) =>
           /\ pc[w] = "set" => entered[s] = job[w].move[2]
           /\ pc[w] = "act" /\ job[w].move[1] # job[w].move[2]
                => entered[s] # job[w].move[2]
      /\ state[s] # entered[s] => \E w \in Worker : Busy(w, s) /\ pc[w] = "set"
    BY DEF TransInv
<1> QED
    BY <1>1, <1>2

LEMMA TransSame ==
    ASSUME TransInv, UNCHANGED <<stateVars, pc, job>> PROVE TransInv'
<1>1. \A s \in Stream, w \in Worker : Busy(w, s)' = Busy(w, s)
    BY DEF Busy
<1> QED
    BY <1>1, TransKept

LEMMA TransMoved ==
    ASSUME TransInv, Workers, NEW w \in Worker, pc[w] \notin {"act", "set"},
           NEW L, Moves(w, L), L \cap {"act", "set"} = {}, UNCHANGED stateVars
    PROVE  TransInv'
<1>0. PICK l \in L : \E j : Goto(w, l, j)
    BY DEF Moves
<1>1. PICK j : Goto(w, l, j)
    BY <1>0
<1>2. /\ pc'[w] = l /\ l \notin {"act", "set"}
      /\ \A v \in Worker \ {w} : pc'[v] = pc[v] /\ job'[v] = job[v]
    BY <1>1, Moved
<1>3. \A s \in Stream, v \in Worker : Busy(v, s)' = Busy(v, s)
    BY <1>2 DEF Busy
<1> QED
    BY <1>2, <1>3, TransKept

\* Transitions of a stream that is not disturbed run one at a time.
LEMMA TransStep == TypeOK /\ JobsInv /\ TransInv /\ [Next]_vars => TransInv'
<1> SUFFICES ASSUME TypeOK /\ JobsInv /\ TransInv, [Next]_vars PROVE TransInv'
    OBVIOUS
<1>0. Tables /\ Workers /\ TransInv
    BY TypeParts
<1>1. ASSUME NEW w \in Worker, NEW s \in Stream, NEW b \in Batch,
             GetOwn(w, s, b) PROVE TransInv'
    BY <1>1, <1>0, Movements, TransMoved DEF GetOwn
<1>2. ASSUME NEW w \in Worker, GetProject(w) PROVE TransInv'
    BY <1>2, <1>0, Movements, TransMoved DEF GetProject
<1>3. ASSUME NEW w \in Worker, Find(w) PROVE TransInv'
    BY <1>3, <1>0, Movements, TransMoved DEF Find
<1>4. ASSUME NEW w \in Worker, Read(w) PROVE TransInv'
    BY <1>4, <1>0, Movements, TransMoved DEF Read
<1>5. ASSUME NEW w \in Worker, Fill(w) PROVE TransInv'
    BY <1>5, <1>0, Movements, TransMoved DEF Fill
<1>6. ASSUME NEW w \in Worker, FillEmpty(w) PROVE TransInv'
    BY <1>6, <1>0, Movements, TransMoved DEF FillEmpty
<1>7. ASSUME NEW w \in Worker, Decide(w) PROVE TransInv'
    <2> DEFINE t == job[w].stream
               d == job[w].def
               p == First(job[w].left)
               x == [job[w] EXCEPT !.move = <<Source(d, p), p[2]>>]
    <2>0. /\ t \in Stream /\ job[w] \in Job /\ d \in Def /\ pc[w] = "consider"
          /\ UNCHANGED <<state, entered>>
        BY <1>7, <1>0, At DEF Decide, Job
    <2>1. CASE Moves(w, {"idle", "consider"})
        <3>0. PICK l \in {"idle", "consider"} : \E j : Goto(w, l, j)
            BY <2>1 DEF Moves
        <3>1. PICK j : Goto(w, l, j)
            BY <3>0
        <3>2. pc'[w] # "act"
            BY <1>0, <3>1, Moved
        <3>3. disturbed' = disturbed
            BY <1>7, <3>2 DEF Decide
        <3> QED
            BY <1>0, <2>0, <2>1, <3>3, TransMoved DEF stateVars
    <2>2. CASE /\ Goto(w, "act", x) /\ p[2] \in d.states /\ RightState(d, p, state[t])
        <3>1. x.move = <<Source(d, p), p[2]>> /\ x.stream = t
            BY <2>0 DEF Job
        <3>2. p[2] # None
            <4>1. d.states \in SUBSET State
                BY <2>0, DefParts
            <4> QED
                BY <2>2, <4>1, FilterAssumption
        <3>3. Source(d, p) # p[2] => state[t] # p[2]
            BY <2>2, <3>2 DEF RightState
        <3> DEFINE src == Source(d, p)
                   dst == p[2]
        <3> HIDE DEF x, p, d
        <3>4. /\ pc'[w] = "act" /\ job'[w] = x
              /\ \A v \in Worker \ {w} : pc'[v] = pc[v] /\ job'[v] = job[v]
            BY <1>0, <2>2, Moved
        <3>5. disturbed' = IF InTransition(w, t) THEN disturbed \cup {t} ELSE disturbed
            BY <1>7, <3>4 DEF Decide
        <3>6. job'[w].move[1] = src /\ job'[w].move[2] = dst /\ job'[w].stream = t
            BY <3>1, <3>4
        <3>7. src # dst => state[t] # dst
            BY <3>3
        <3> HIDE DEF src, dst
        <3>8. \A s : /\ Busy(w, s)' <=> s = t
                     /\ ~Busy(w, s)
                     /\ \A v \in Worker \ {w} : Busy(v, s)' <=> Busy(v, s)
            BY <2>0, <3>4, <3>6 DEF Busy
        <3> SUFFICES ASSUME NEW s \in Stream \ disturbed' PROVE
              /\ \A v, u \in Worker : Busy(v, s)' /\ Busy(u, s)' => v = u
              /\ \A v \in Worker : Busy(v, s)' =>
                   /\ pc'[v] = "set" => entered[s] = job'[v].move[2]
                   /\ pc'[v] = "act" /\ job'[v].move[1] # job'[v].move[2]
                        => entered[s] # job'[v].move[2]
              /\ state[s] # entered[s] => \E v \in Worker : Busy(v, s)' /\ pc'[v] = "set"
            BY <2>0, Zenon DEF TransInv
        <3>9. s \notin disturbed /\ (s = t => ~InTransition(w, t))
            BY <3>5
        <3>10. /\ \A v, u \in Worker : Busy(v, s) /\ Busy(u, s) => v = u
               /\ \A v \in Worker : Busy(v, s) =>
                   /\ pc[v] = "set" => entered[s] = job[v].move[2]
                   /\ pc[v] = "act" /\ job[v].move[1] # job[v].move[2]
                        => entered[s] # job[v].move[2]
               /\ state[s] # entered[s] => \E v \in Worker : Busy(v, s) /\ pc[v] = "set"
            BY <1>0, <3>9 DEF TransInv
        <3>11. s = t => \A v \in Worker : ~Busy(v, s)
            BY <3>8, <3>9 DEF InTransition, Busy
        <3>12. s = t => state[s] = entered[s]
            BY <3>10, <3>11
        <3> HIDE DEF Busy
        <3>13. CASE s = t
            BY <3>4, <3>6, <3>7, <3>8, <3>11, <3>12, <3>13
        <3>14. CASE s # t
            BY <3>4, <3>8, <3>10, <3>14
        <3> QED
            BY <3>13, <3>14
    <2>3. \/ Moves(w, {"idle", "consider"})
          \/ Goto(w, "act", x) /\ p[2] \in d.states /\ RightState(d, p, state[t])
        <3>1. \/ Goto(w, "idle", Idle)
              \/ \E j : Goto(w, "consider", j)
              \/ Goto(w, "act", x) /\ p[2] \in d.states /\ RightState(d, p, state[t])
            BY <1>7, Zenon DEF Decide, p, d, t, x
        <3> QED
            BY <3>1, MovesTo
    <2> QED
        BY <2>1, <2>2, <2>3
<1>8. ASSUME NEW w \in Worker, Pass(w) PROVE TransInv'
    BY <1>8, <1>0, Movements, TransMoved DEF Pass
<1>9. ASSUME NEW w \in Worker, Act(w) PROVE TransInv'
    <2> DEFINE t == job[w].stream
               dst == job[w].move[2]
    <2>0. t \in Stream /\ pc[w] = "act" /\ UNCHANGED <<state, disturbed>>
        BY <1>9, <1>0, At DEF Act
    <2>1. /\ pc'[w] = "set" /\ job'[w] = job[w]
          /\ \A v \in Worker \ {w} : pc'[v] = pc[v] /\ job'[v] = job[v]
        BY <1>9, <1>0, Moved DEF Act
    <2>2. \A s \in Stream : entered'[s] = IF s = t THEN dst ELSE entered[s]
        BY <1>9, <1>0 DEF Act, Tables
    <2>3. \A s, v : v \in Worker => (Busy(v, s)' <=> Busy(v, s))
        BY <2>0, <2>1 DEF Busy
    <2>4. Busy(w, t) /\ \A s : Busy(w, s) => s = t
        BY <2>0 DEF Busy
    <2> SUFFICES ASSUME NEW s \in Stream \ disturbed PROVE
          /\ \A v, u \in Worker : Busy(v, s)' /\ Busy(u, s)' => v = u
          /\ \A v \in Worker : Busy(v, s)' =>
               /\ pc'[v] = "set" => entered'[s] = job'[v].move[2]
               /\ pc'[v] = "act" /\ job'[v].move[1] # job'[v].move[2]
                    => entered'[s] # job'[v].move[2]
          /\ state[s] # entered'[s] => \E v \in Worker : Busy(v, s)' /\ pc'[v] = "set"
        BY <2>0, Zenon DEF TransInv
    <2>5. /\ \A v, u \in Worker : Busy(v, s) /\ Busy(u, s) => v = u
          /\ \A v \in Worker : Busy(v, s) =>
               /\ pc[v] = "set" => entered[s] = job[v].move[2]
               /\ pc[v] = "act" /\ job[v].move[1] # job[v].move[2]
                    => entered[s] # job[v].move[2]
          /\ state[s] # entered[s] => \E v \in Worker : Busy(v, s) /\ pc[v] = "set"
        BY <1>0 DEF TransInv
    <2> HIDE DEF Busy
    <2>6. CASE s = t
        BY <2>1, <2>2, <2>3, <2>4, <2>5, <2>6
    <2>7. CASE s # t
        BY <2>1, <2>2, <2>3, <2>4, <2>5, <2>7
    <2> QED
        BY <2>6, <2>7
<1>10. ASSUME NEW w \in Worker, SetState(w) PROVE TransInv'
    <2> DEFINE t == job[w].stream
               dst == job[w].move[2]
    <2>0. t \in Stream /\ pc[w] = "set" /\ UNCHANGED entered
        BY <1>10, <1>0, At DEF SetState
    <2>11. PICK l \in {"idle", "consider"} : \E j : Goto(w, l, j)
        BY <1>10, Movements DEF Moves
    <2>1. PICK j : Goto(w, l, j)
        BY <2>11
    <2>2. /\ pc'[w] \notin {"act", "set"}
          /\ \A v \in Worker \ {w} : pc'[v] = pc[v] /\ job'[v] = job[v]
        BY <1>0, <2>1, Moved
    <2>3. \A s \in Stream : state'[s] = IF s = t THEN dst ELSE state[s]
        BY <1>10, <1>0 DEF SetState, Tables
    <2>4. \A s : /\ ~Busy(w, s)'
                 /\ \A v \in Worker \ {w} : Busy(v, s)' <=> Busy(v, s)
        BY <2>2 DEF Busy
    <2>5. Busy(w, t) /\ \A s : Busy(w, s) => s = t
        BY <2>0 DEF Busy
    <2>6. disturbed' = IF entered[t] = dst /\ ~InTransition(w, t)
                       THEN disturbed \ {t} ELSE disturbed
        BY <1>10 DEF SetState
    <2>7. InTransition(w, t) <=> \E v \in Worker \ {w} : Busy(v, t)
        BY DEF InTransition, Busy
    <2> SUFFICES ASSUME NEW s \in Stream \ disturbed' PROVE
          /\ \A v, u \in Worker : Busy(v, s)' /\ Busy(u, s)' => v = u
          /\ \A v \in Worker : Busy(v, s)' =>
               /\ pc'[v] = "set" => entered[s] = job'[v].move[2]
               /\ pc'[v] = "act" /\ job'[v].move[1] # job'[v].move[2]
                    => entered[s] # job'[v].move[2]
          /\ state'[s] # entered[s] => \E v \in Worker : Busy(v, s)' /\ pc'[v] = "set"
        BY <2>0, Zenon DEF TransInv
    <2> HIDE DEF Busy, InTransition
    <2>8. s \notin disturbed =>
          /\ \A v, u \in Worker : Busy(v, s) /\ Busy(u, s) => v = u
          /\ \A v \in Worker : Busy(v, s) =>
               /\ pc[v] = "set" => entered[s] = job[v].move[2]
               /\ pc[v] = "act" /\ job[v].move[1] # job[v].move[2]
                    => entered[s] # job[v].move[2]
          /\ state[s] # entered[s] => \E v \in Worker : Busy(v, s) /\ pc[v] = "set"
        BY <1>0 DEF TransInv
    <2>9. CASE s = t
        <3>1. entered[t] = dst /\ \A v \in Worker \ {w} : ~Busy(v, t)
            BY <2>0, <2>5, <2>6, <2>7, <2>8, <2>9
        <3> QED
            BY <2>3, <2>4, <2>9, <3>1
    <2>10. CASE s # t
        <3>1. s \notin disturbed
            BY <2>6, <2>10
        <3>2. \A v \in Worker : Busy(v, s)' <=> Busy(v, s)
            BY <2>4, <2>5, <2>10
        <3>3. \A v \in Worker : Busy(v, s) => v # w
            BY <2>5, <2>10
        <3> QED
            BY <2>2, <2>3, <2>8, <2>10, <3>1, <3>2, <3>3
    <2> QED
        BY <2>9, <2>10
<1>11. ASSUME NEW w \in Worker, Fail(w) PROVE TransInv'
    <2> DEFINE t == job[w].stream
    <2>0. pc[w] \in {"act", "set"} /\ UNCHANGED <<state, entered>>
          /\ disturbed' = disturbed \cup {t}
        BY <1>11 DEF Fail
    <2>2. /\ pc'[w] = "idle"
          /\ \A v \in Worker \ {w} : pc'[v] = pc[v] /\ job'[v] = job[v]
        BY <1>11, <1>0, Moved DEF Fail
    <2>4. \A s : /\ ~Busy(w, s)'
                 /\ \A v \in Worker \ {w} : Busy(v, s)' <=> Busy(v, s)
        BY <2>2 DEF Busy
    <2>5. \A s : Busy(w, s) => s = t
        BY <2>0 DEF Busy
    <2> SUFFICES ASSUME NEW s \in Stream \ disturbed' PROVE
          /\ \A v, u \in Worker : Busy(v, s)' /\ Busy(u, s)' => v = u
          /\ \A v \in Worker : Busy(v, s)' =>
               /\ pc'[v] = "set" => entered[s] = job'[v].move[2]
               /\ pc'[v] = "act" /\ job'[v].move[1] # job'[v].move[2]
                    => entered[s] # job'[v].move[2]
          /\ state[s] # entered[s] => \E v \in Worker : Busy(v, s)' /\ pc'[v] = "set"
        BY <2>0, Zenon DEF TransInv
    <2>6. s \notin disturbed /\ s # t
        BY <2>0
    <2>8. /\ \A v, u \in Worker : Busy(v, s) /\ Busy(u, s) => v = u
          /\ \A v \in Worker : Busy(v, s) =>
               /\ pc[v] = "set" => entered[s] = job[v].move[2]
               /\ pc[v] = "act" /\ job[v].move[1] # job[v].move[2]
                    => entered[s] # job[v].move[2]
          /\ state[s] # entered[s] => \E v \in Worker : Busy(v, s) /\ pc[v] = "set"
        BY <1>0, <2>6 DEF TransInv
    <2> HIDE DEF Busy
    <2>9. \A v \in Worker : Busy(v, s) => v # w
        BY <2>5, <2>6
    <2>10. \A v \in Worker : Busy(v, s)' <=> Busy(v, s)
        BY <2>4, <2>9
    <2> QED
        BY <2>2, <2>8, <2>9, <2>10
<1>12. ASSUME NEW k \in Key, Expire(k) PROVE TransInv'
    BY <1>12, <1>0, TransSame DEF Expire, workVars
<1>13. ASSUME NEW k \in Key, Request(k) PROVE TransInv'
    BY <1>13, <1>0, TransSame DEF Request, workVars
<1>14. ASSUME Clear PROVE TransInv'
    BY <1>14, <1>0, TransSame DEF Clear, workVars
<1>15. ASSUME Execute PROVE TransInv'
    <2>1. \A w \in Worker : /\ pc'[w] = pc[w] /\ job[w] \in Job
                            /\ job'[w] = IF pc[w] \in {"states", "read"} /\ job[w].key = edit.key
                                         THEN [job[w] EXCEPT !.old = TRUE] ELSE job[w]
        BY <1>15, <1>0, At DEF Execute
    <2>2. \A w \in Worker : job'[w].stream = job[w].stream /\ job'[w].move = job[w].move
        BY <2>1 DEF Job
    <2>3. \A s \in Stream, w \in Worker : Busy(w, s)' = Busy(w, s)
        BY <2>1, <2>2 DEF Busy
    <2> QED
        BY <1>15, <1>0, <2>1, <2>2, <2>3, TransKept DEF Execute
<1>16. ASSUME Uncache PROVE TransInv'
    BY <1>16, <1>0, TransSame DEF Uncache, workVars
<1>17. ASSUME Forget PROVE TransInv'
    <2> DEFINE gone == IF edit.key = Project THEN Stream ELSE {edit.key}
               setting == {job[w].stream : w \in {v \in Worker : pc[v] \in {"set"}}}
               moving == {job[w].stream : w \in {v \in Worker : pc[v] \in {"act", "set"}}}
    <2>0. pc' = pc /\ job' = job
        BY <1>17 DEF Forget, workVars
    <2>1. \A s \in Stream : /\ state'[s] = IF s \in gone THEN None ELSE state[s]
                            /\ entered'[s] = IF s \in gone THEN None ELSE entered[s]
        BY <1>17 DEF Forget
    <2>2. disturbed' = (disturbed \ (gone \ moving)) \cup (gone \cap setting)
        BY <1>17 DEF Forget
    <2>3. \A s : /\ s \in moving <=> \E w \in Worker : Busy(w, s)
                 /\ s \in setting <=> \E w \in Worker : Busy(w, s) /\ pc[w] = "set"
        BY DEF Busy
    <2>4. \A s, w : w \in Worker => (Busy(w, s)' <=> Busy(w, s))
        BY <2>0 DEF Busy
    <2>5. \A s, w : w \in Worker /\ Busy(w, s) => job[w].move[2] # None
        BY <1>0, At, FilterAssumption DEF Busy
    <2> HIDE DEF gone, moving, setting, Busy
    <2> SUFFICES ASSUME NEW s \in Stream \ disturbed' PROVE
          /\ \A v, u \in Worker : Busy(v, s)' /\ Busy(u, s)' => v = u
          /\ \A v \in Worker : Busy(v, s)' =>
               /\ pc'[v] = "set" => entered'[s] = job'[v].move[2]
               /\ pc'[v] = "act" /\ job'[v].move[1] # job'[v].move[2]
                    => entered'[s] # job'[v].move[2]
          /\ state'[s] # entered'[s] => \E v \in Worker : Busy(v, s)' /\ pc'[v] = "set"
        BY Zenon DEF TransInv
    <2>6. s \notin disturbed =>
          /\ \A v, u \in Worker : Busy(v, s) /\ Busy(u, s) => v = u
          /\ \A v \in Worker : Busy(v, s) =>
               /\ pc[v] = "set" => entered[s] = job[v].move[2]
               /\ pc[v] = "act" /\ job[v].move[1] # job[v].move[2]
                    => entered[s] # job[v].move[2]
          /\ state[s] # entered[s] => \E v \in Worker : Busy(v, s) /\ pc[v] = "set"
        BY <1>0 DEF TransInv
    <2>7. s \in disturbed => s \in gone /\ s \notin moving
        BY <2>2
    <2>8. s \in gone => s \notin setting
        BY <2>2
    <2>9. CASE s \in gone
        <3>1. \A w \in Worker : Busy(w, s) => pc[w] # "set"
            BY <2>3, <2>8, <2>9
        <3>2. \A v, w \in Worker : Busy(v, s) /\ Busy(w, s) => v = w
            BY <2>3, <2>6, <2>7
        <3>3. state'[s] = None /\ entered'[s] = None
            BY <2>1, <2>9
        <3> QED
            BY <2>0, <2>4, <2>5, <3>1, <3>2, <3>3
    <2>10. CASE s \notin gone
        <3>1. s \notin disturbed /\ state'[s] = state[s] /\ entered'[s] = entered[s]
            BY <2>1, <2>7, <2>10
        <3> QED
            BY <2>0, <2>4, <2>6, <3>1
    <2> QED
        BY <2>9, <2>10
<1>18. CASE UNCHANGED vars
    BY <1>18, <1>0, TransSame DEF vars, workVars
<1> QED
    BY <1>1, <1>2, <1>3, <1>4, <1>5, <1>6, <1>7, <1>8, <1>9, <1>10, <1>11, <1>12,
       <1>13, <1>14, <1>15, <1>16, <1>17, <1>18 DEF Next, Lookup, Process, Editor

LEMMA InitHolds == Init => IInv
<1> SUFFICES ASSUME Init PROVE IInv
    OBVIOUS
<1>1. Project \in Key /\ db \in [Key -> Def \cup {NoDef}]
    BY FilterAssumption DEF Init, Key
<1>2. Tables
    <2>1. edit \in [key : Key, todo : Seq(Stmt)]
        BY <1>1 DEF Init
    <2>2. edits \in 0..MaxEdit /\ faults \in 0..MaxFault
        BY CountsKept DEF Init
    <2> QED
        BY <1>1, <2>1, <2>2 DEF Init, Tables
<1>3. Workers
    BY IdleFine DEF Init, Workers, Place, Fine, JobOK
<1>4. TypeOK /\ JobsInv
    BY <1>2, <1>3, TypeParts
<1>5. PlanInv
    BY DEF Init, PlanInv, Fits
<1>6. WholeInv
    BY <1>1 DEF Init, WholeInv, OnlyWholeDefinitions
<1>7. ReadInv
    BY DEF Init, ReadInv
<1>8. TransInv
    BY DEF Init, TransInv, Busy
<1> QED
    BY <1>4, <1>5, <1>6, <1>7, <1>8 DEF IInv

\* The invariant holds at the start and no step breaks it.
THEOREM Inductive == Spec => []IInv
<1>1. IInv /\ [Next]_vars => IInv'
    <2> SUFFICES ASSUME IInv, [Next]_vars PROVE IInv'
        OBVIOUS
    <2>1. TypeOK /\ JobsInv /\ PlanInv /\ WholeInv /\ ReadInv /\ TransInv
        BY DEF IInv
    <2>2. Tables' /\ Workers'
        BY <2>1, TablesStep, WorkersStep
    <2>3. (TypeOK /\ JobsInv)'
        BY <2>2, TypeParts, PTL
    <2>4. PlanInv' /\ WholeInv' /\ ReadInv' /\ TransInv'
        BY <2>1, PlanStep, WholeStep, ReadStep, TransStep
    <2> QED
        BY <2>3, <2>4 DEF IInv
<1> QED
    BY <1>1, InitHolds, PTL DEF Spec

\* Every variable keeps its type: definitions stay definitions through every
\* statement of every request, and the statements of a request are ones that the
\* editor knows how to execute.
THEOREM TypeCorrect == Spec => []TypeOK
<1>1. IInv => TypeOK
    BY DEF IInv
<1> QED
    BY <1>1, Inductive, PTL

\* set_current_cached_filter_state_for_slug writes after the actions ran: except
\* in between, the stored state is the one whose entry actions ran last, however
\* many processes filter the stream's readings and whoever resets it, from a
\* completed transition on until one fails or two overlap.
THEOREM EnteredStored == Spec => []EnteredIsStored
<1>1. IInv => EnteredIsStored
    BY DEF IInv, TransInv, EnteredIsStored, Busy
<1> QED
    BY <1>1, Inductive, PTL

\* _cache_filter stores what some edit of this very filter left complete, unless
\* an edit overlapped the lookup that read it.
THEOREM WholeOnly == Spec => []OnlyWholeDefinitions
<1>1. IInv => OnlyWholeDefinitions
    BY DEF IInv, WholeInv
<1> QED
    BY <1>1, Inductive, PTL

\* _transition_should_execute keeps a stream that stays in a state from running
\* the entry actions of that state again, whatever the filter is.
THEOREM ToldOnce == Spec => NotifiedOnce
<1>1. IInv /\ [Next]_vars =>
        [\A w \in Worker :
           (/\ pc[w] = "act" /\ pc'[w] = "set"
            /\ job[w].stream \notin disturbed
            /\ job[w].move[1] # job[w].move[2])
           => entered[job[w].stream] # job[w].move[2]]_vars
    <2> SUFFICES ASSUME IInv, NEW w \in Worker, pc[w] = "act",
                        job[w].stream \notin disturbed,
                        job[w].move[1] # job[w].move[2]
                 PROVE  entered[job[w].stream] # job[w].move[2]
        OBVIOUS
    <2>1. job[w].stream \in Stream
        BY DEF IInv, JobsInv, JobOK
    <2>2. Busy(w, job[w].stream)
        BY DEF Busy
    <2> QED
        BY <2>1, <2>2 DEF IInv, TransInv
<1> QED
    BY <1>1, Inductive, PTL DEF Spec, NotifiedOnce
=============================================================================

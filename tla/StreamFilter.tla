---------------------------- MODULE StreamFilter ----------------------------
(***************************************************************************)
(* The stream filters of apps/streamfilter: state machines in the database *)
(* that every new reading of a stream is run through.  A filter belongs to *)
(* one stream or, as a wildcard, to all the streams of a project with one  *)
(* variable.  Workers and web processes look filters up through a cache    *)
(* and keep the current state of each stream in the cache only; editors    *)
(* change the definition one database statement at a time.                 *)
(*                                                                         *)
(* The model has the streams of one project and variable.  What an action  *)
(* of a state does (a mail, an SMS, a derived reading, a report) is left   *)
(* out: "entered" remembers whose entry actions have been run.             *)
(***************************************************************************)
EXTENDS Integers, SequencesExt

CONSTANTS
    Stream,     \* the streams
    Project,    \* the slug of the wildcard filter
    Worker,     \* the processes that filter readings
    State,      \* the states of filters: numbers in the order of their slugs
    Trigger,    \* the triggers: [operator, threshold]
    Asked,      \* the sets of triggers that requests carry
    Batch,      \* the sequences of readings that arrive together
    Event,      \* the reading of an event stream: it has no value
    FirstDb,    \* the definitions at the start
    None, Empty, NoDef,
    MaxEdit,    \* bound on the edits
    MaxFault    \* bound on actions that raise, errors and crashes

Key == Stream \cup {Project}
Star == 1 + CHOOSE n \in State : \A m \in State : m <= n
\* The transitions that states S may have.
Joins(S) == (S \cup {Star}) \X S
Pair == Joins(State)

\* A definition: its states, and the triggers of each transition; a transition
\* is known by its source (Star if it has none) and its destination, two states
\* of the filter.
Def == [states : SUBSET State,
        trans : UNION {[P -> SUBSET Trigger] : P \in SUBSET Pair}]
NewDef == [states |-> {}, trans |-> [p \in {} |-> {}]]

ASSUME FilterAssumption ==
    /\ Project \notin Stream
    /\ State \subseteq Nat
    /\ None \notin State
    /\ None # Empty
    /\ Asked \subseteq SUBSET Trigger /\ IsFiniteSet(Trigger)
    /\ Batch \subseteq Seq(Int) /\ Event \in Int
    /\ FirstDb \subseteq [Key -> Def \cup {NoDef}]
    /\ {None, Empty, NoDef} \cap Def = {}
    /\ MaxEdit \in Nat /\ MaxFault \in Nat

VARIABLES
    db,        \* db[k]: the filter with slug k, or NoDef
    cache,     \* cache[k]: the serialized filter, Empty, or None
    state,     \* state[s]: the current state of stream s, in the cache
    pc, job,   \* where worker w is, and what it has read
    edit,      \* the statements the editor has still to execute, on one filter
    edits, faults,
    entered,   \* the state whose entry actions ran last (history)
    disturbed, \* the streams with a failed or overlapping transition (history)
    whole,     \* the definitions that some edit left complete (history)
    raced      \* the entries read while the filter was edited (history)

dbVars == <<db, edit, edits, whole>>
cacheVars == <<cache, raced>>
stateVars == <<state, entered, disturbed>>
workVars == <<pc, job, faults>>
vars == <<dbVars, cacheVars, stateVars, workVars>>

\* What a worker remembers: the stream and its readings, the filter and
\* whether somebody edited it meanwhile, the transitions it has not looked at,
\* the state it goes to.
Job == [stream : Stream \cup {None}, data : Seq(Int), key : Key \cup {None},
        def : Def, old : BOOLEAN, left : SUBSET Pair,
        move : (State \cup {Star, None}) \X (State \cup {None})]
Idle == [stream |-> None, data |-> <<>>, key |-> None, def |-> NewDef,
         old |-> FALSE, left |-> {}, move |-> <<None, None>>]

Init ==
    /\ db \in FirstDb
    /\ cache = [k \in Key |-> None]
    /\ state = [s \in Stream |-> None]
    /\ pc = [w \in Worker |-> "idle"]
    /\ job = [w \in Worker |-> Idle]
    /\ edit = [key |-> Project, todo |-> <<>>]
    /\ edits = 0 /\ faults = 0
    /\ entered = [s \in Stream |-> None]
    /\ disturbed = {}
    /\ whole = [k \in Key |-> {db[k]}]
    /\ raced = {}
-----------------------------------------------------------------------------
(* Which transitions execute. *)

\* _evaluate: one operator and threshold on a value.
Evaluate(v, t) ==
    CASE t.operator = "bu" -> TRUE
      [] t.operator = "eq" -> v = t.threshold
      [] t.operator = "ne" -> v # t.threshold
      [] t.operator = "le" -> v <= t.threshold
      [] t.operator = "ge" -> v >= t.threshold
      [] t.operator = "lt" -> v < t.threshold
      [] t.operator = "gt" -> v > t.threshold
      [] OTHER -> FALSE

\* All the triggers of a transition hold; those of an event are not looked at.
Triggered(v, triggers) == v = Event \/ \A t \in triggers : Evaluate(v, t)

\* The source that process_filter sees: a state it does not know is none.
Source(def, p) == IF p[1] \in def.states THEN p[1] ELSE Star

\* Mutant: a transition without a source may enter the state it is in.
RightStateAlways(def, p, cur) == cur = None \/ Source(def, p) \in {cur, Star}

\* The current state allows transition p.
RightState(def, p, cur) ==
    \/ cur = None
    \/ Source(def, p) = cur
    \/ Source(def, p) = Star /\ p[2] # cur

\* Transitions are ordered by source, those without one last, and destination.
Before(p, q) == p[1] < q[1] \/ (p[1] = q[1] /\ p[2] < q[2])
First(P) == CHOOSE p \in P : \A q \in P : p = q \/ Before(p, q)
-----------------------------------------------------------------------------
(* Looking a filter up: _cached_serialized_filter_for_slug_elements. *)

Goto(w, there, what) ==
    /\ pc' = [pc EXCEPT ![w] = there]
    /\ job' = [job EXCEPT ![w] = what]

\* process_filter starts on the next reading of the batch, if there is one.
Consider(w, what) ==
    IF what.data = <<>> THEN Goto(w, "idle", Idle)
    ELSE Goto(w, "consider", [what EXCEPT !.left = DOMAIN what.def.trans,
                                          !.move = <<None, None>>])

\* What is done with the filter that was found; the lookup is over.
Use(w, what, def) ==
    IF def = Empty THEN Goto(w, "idle", Idle)
    ELSE Consider(w, [what EXCEPT !.def = def, !.key = None, !.old = FALSE])

\* Readings b of stream s arrive, and the cache has an entry for s, or has not.
GetOwn(w, s, b) ==
    LET what == [Idle EXCEPT !.stream = s, !.data = b]
    IN  /\ pc[w] = "idle"
        /\ IF cache[s] # None THEN Use(w, what, cache[s])
                              ELSE Goto(w, "project", what)
        /\ UNCHANGED <<dbVars, cacheVars, stateVars, faults>>

\* The entry of the project filter is looked at before the database.
GetProject(w) ==
    /\ pc[w] = "project"
    /\ IF cache[Project] # None THEN Use(w, job[w], cache[Project])
                                ELSE Goto(w, "find", job[w])
    /\ UNCHANGED <<dbVars, cacheVars, stateVars, faults>>

\* The slug of the filter that the database has for stream s.
Found(s) == IF db[s] # NoDef THEN s
            ELSE IF db[Project] # NoDef THEN Project ELSE None

\* An editor has executed some statements of an edit of filter k.
Editing(k) == edit.key = k /\ edit.todo # <<>>

\* StreamFilter.objects.get; the serializer reads the states.
Find(w) ==
    LET k == Found(job[w].stream)
    IN  /\ pc[w] = "find"
        /\ IF k = None THEN Goto(w, "empty", job[w])
           ELSE Goto(w, "states",
                     [job[w] EXCEPT !.key = k, !.old = Editing(k),
                        !.def = [NewDef EXCEPT !.states = db[k].states]])
        /\ UNCHANGED <<dbVars, cacheVars, stateVars, faults>>

\* It goes on to the transitions and their triggers.
Read(w) ==
    LET k == job[w].key
    IN  /\ pc[w] = "states"
        /\ Goto(w, "read", IF db[k] = NoDef THEN job[w]
                           ELSE [job[w] EXCEPT !.def.trans = db[k].trans])
        /\ UNCHANGED <<dbVars, cacheVars, stateVars, faults>>

\* Whether entry k was filled by a lookup that an edit overlapped.
NoteRace(k, old) == raced' = IF old THEN raced \cup {k} ELSE raced \ {k}

\* Mutant: a project filter is cached for the stream that asked for it.
FillStream(w) ==
    /\ pc[w] = "read"
    /\ cache' = [cache EXCEPT ![job[w].stream] = job[w].def]
    /\ NoteRace(job[w].stream, job[w].old)
    /\ Use(w, job[w], job[w].def)
    /\ UNCHANGED <<dbVars, stateVars, faults>>

\* _cache_filter writes the entry of the filter's own slug.
Fill(w) ==
    /\ pc[w] = "read"
    /\ cache' = [cache EXCEPT ![job[w].key] = job[w].def]
    /\ NoteRace(job[w].key, job[w].old)
    /\ Use(w, job[w], job[w].def)
    /\ UNCHANGED <<dbVars, stateVars, faults>>

\* There is no filter: that is cached, for the stream.
FillEmpty(w) ==
    /\ pc[w] = "empty"
    /\ cache' = [cache EXCEPT ![job[w].stream] = Empty]
    /\ NoteRace(job[w].stream, TRUE)
    /\ Goto(w, "idle", Idle)
    /\ UNCHANGED <<dbVars, stateVars, faults>>

\* The timeout of an entry, 3000 seconds or the default of an empty one.
Expire(k) ==
    /\ cache[k] # None
    /\ cache' = [cache EXCEPT ![k] = None]
    /\ NoteRace(k, FALSE)
    /\ UNCHANGED <<dbVars, stateVars, workVars>>
-----------------------------------------------------------------------------
(* Running a reading through a filter: FilterHelper.process_filter. *)

\* Somebody else is between the decision for a transition of s and its end.
InTransition(w, s) ==
    \E v \in Worker \ {w} : pc[v] \in {"act", "set"} /\ job[v].stream = s

\* The next transition: it executes or it does not; the assertion that its
\* destination is known may fail, which ends the task.
Decide(w) ==
    LET s == job[w].stream
        d == job[w].def
        p == First(job[w].left)
        fires == /\ RightState(d, p, state[s])
                 /\ Triggered(Head(job[w].data), d.trans[p])
    IN  /\ pc[w] = "consider" /\ job[w].left # {}
        /\ CASE p[2] \notin d.states -> Goto(w, "idle", Idle)
             [] p[2] \in d.states /\ ~fires ->
                  Goto(w, "consider", [job[w] EXCEPT !.left = @ \ {p}])
             [] OTHER ->
                  Goto(w, "act", [job[w] EXCEPT !.move = <<Source(d, p), p[2]>>])
        /\ disturbed' = IF pc'[w] = "act" /\ InTransition(w, s)
                        THEN disturbed \cup {s} ELSE disturbed
        /\ UNCHANGED <<dbVars, cacheVars, state, entered, faults>>

\* No transition executed for this reading.
Pass(w) ==
    /\ pc[w] = "consider" /\ job[w].left = {}
    /\ Consider(w, [job[w] EXCEPT !.data = Tail(@)])
    /\ UNCHANGED <<dbVars, cacheVars, stateVars, faults>>

\* The exit actions of the source and the entry actions of the destination.
Act(w) ==
    /\ pc[w] = "act"
    /\ entered' = [entered EXCEPT ![job[w].stream] = job[w].move[2]]
    /\ Goto(w, "set", job[w])
    /\ UNCHANGED <<dbVars, cacheVars, state, disturbed, faults>>

\* Mutant: the current state is kept only if the transition has a source.
SetStateFrom(w) ==
    LET s == job[w].stream
        dst == job[w].move[2]
    IN  /\ pc[w] = "set"
        /\ state' = [state EXCEPT ![s] = IF job[w].move[1] = Star THEN @ ELSE dst]
        /\ disturbed' = IF entered[s] = dst /\ ~InTransition(w, s)
                        THEN disturbed \ {s} ELSE disturbed
        /\ Consider(w, [job[w] EXCEPT !.data = Tail(@)])
        /\ UNCHANGED <<dbVars, cacheVars, entered, faults>>

\* Mutant: the source is written instead of the destination.
SetStateSource(w) ==
    /\ pc[w] = "set"
    /\ state' = [state EXCEPT ![job[w].stream] = job[w].move[1]]
    /\ Consider(w, [job[w] EXCEPT !.data = Tail(@)])
    /\ UNCHANGED <<dbVars, cacheVars, entered, disturbed, faults>>

\* The new current state, for ever; one transition per reading.
SetState(w) ==
    LET s == job[w].stream
        dst == job[w].move[2]
    IN  /\ pc[w] = "set"
        /\ state' = [state EXCEPT ![s] = dst]
        /\ disturbed' = IF entered[s] = dst /\ ~InTransition(w, s)
                        THEN disturbed \ {s} ELSE disturbed
        /\ Consider(w, [job[w] EXCEPT !.data = Tail(@)])
        /\ UNCHANGED <<dbVars, cacheVars, entered, faults>>

\* An action raises, Redis does, or the process dies: nobody runs the rest of
\* the batch through the filter again.
Fail(w) ==
    /\ pc[w] \in {"act", "set"}
    /\ faults < MaxFault /\ faults' = faults + 1
    /\ Goto(w, "idle", Idle)
    /\ disturbed' = disturbed \cup {job[w].stream}
    /\ UNCHANGED <<dbVars, cacheVars, state, entered>>
-----------------------------------------------------------------------------
(***************************************************************************)
(* The editor: requests of the API and of the web forms.  A request checks *)
(* the definition and then executes its statements one by one; "do" names  *)
(* the statement.                                                          *)
(***************************************************************************)

\* A statement, and the rows it is about; "clear" looks for the next transition.
Stmt ==
    [do : {"create", "delete", "clear", "uncache", "forget"},
     on : {<<None, None>>}, t : {None}]
      \cup [do : {"addState", "dropState"}, on : State \X State, t : {None}]
      \cup [do : {"link", "unlink"}, on : Pair, t : {None}]
      \cup [do : {"add", "drop"}, on : Pair, t : Trigger]
Plain(op) == [do |-> op, on |-> <<None, None>>, t |-> None]
OnState(op, n) == [do |-> op, on |-> <<n, n>>, t |-> None]
OnTrans(op, p) == [do |-> op, on |-> p, t |-> None]

\* The statements that add, or delete, triggers T of transition p, in order.
Each(op, p, T) ==
    LET q == SetToSeq(T)
    IN  [i \in 1..Len(q) |-> [do |-> op, on |-> p, t |-> q[i]]]

\* Deleting a transition deletes its triggers first, except in the API.
Unlinking(k, p) ==
    {<<OnTrans("unlink", p)>>,
     Each("drop", p, db[k].trans[p]) \o <<OnTrans("unlink", p)>>}

\* The web form deletes the transitions of a filter one after the other.
Deleting == {<<Plain("delete")>>, <<Plain("clear")>>}

\* PUT of a transition deletes its triggers and then creates those it got.
Rewriting(k, p, T) == Each("drop", p, db[k].trans[p]) \o Each("add", p, T)

\* The requests on filter k, each as the statements it executes.  Slugs, state
\* slugs and (source, destination) are unique; transitions join states of k.
OnStates(S) ==
    {<<OnState("addState", n)>> : n \in State \ S}
      \cup {<<OnState("dropState", n)>> : n \in S}

OnTransitions(k, P) ==
    {<<OnTrans("link", p)>> \o Each("add", p, T) :
       p \in Joins(db[k].states) \ P, T \in Asked}
      \cup (UNION {Unlinking(k, p) : p \in P})
      \cup {Rewriting(k, p, T) : p \in P, T \in Asked}

OnTriggers(k, P) ==
    {Each("add", p, {t}) : p \in P, t \in UNION Asked}
      \cup UNION {{Each("drop", p, {t}) : t \in db[k].trans[p]} : p \in P}

Requests(k) ==
    IF db[k] = NoDef THEN {<<Plain("create")>>}
    ELSE OnStates(db[k].states) \cup Deleting
           \cup OnTransitions(k, DOMAIN db[k].trans)
           \cup OnTriggers(k, DOMAIN db[k].trans)
           \cup {<<Plain("uncache"), Plain("forget")>>}

Request(k) ==
    /\ edit.todo = <<>>
    /\ edits < MaxEdit /\ edits' = edits + 1
    /\ \E r \in Requests(k) : r # <<>> /\ edit' = [key |-> k, todo |-> r]
    /\ UNCHANGED <<db, whole, cacheVars, stateVars, workVars>>

Without(trans, P) == [p \in DOMAIN trans \ P |-> trans[p]]

\* What a statement makes of a definition.  Deleting a state cascades to its
\* transitions, deleting a transition to its triggers.
Changed(d, st) ==
    CASE st.do = "create" -> NewDef
      [] st.do = "delete" -> NoDef
      [] st.do = "addState" -> [d EXCEPT !.states = @ \cup {st.on[1]}]
      [] st.do = "dropState" ->
           [states |-> d.states \ {st.on[1]},
            trans |-> Without(d.trans,
                        {p \in DOMAIN d.trans : st.on[1] \in {p[1], p[2]}})]
      [] st.do = "link" -> [d EXCEPT !.trans =
           [p \in DOMAIN @ \cup {st.on} |-> IF p = st.on THEN {} ELSE @[p]]]
      [] st.do = "unlink" -> [d EXCEPT !.trans = Without(@, {st.on})]
      [] st.do = "add" -> [d EXCEPT !.trans[st.on] = @ \cup {st.t}]
      [] st.do = "drop" -> [d EXCEPT !.trans[st.on] = @ \ {st.t}]

Statement == Head(edit.todo)
Advance == edit' = [edit EXCEPT !.todo = Tail(@)]

\* The next transition that the web form deletes with its triggers; after the
\* last one the filter itself is deleted.
Clear ==
    LET trans == db[edit.key].trans
    IN  /\ edit.todo # <<>> /\ Statement.do = "clear"
        /\ \/ \E p \in DOMAIN trans : edit' = [edit EXCEPT !.todo =
                Each("drop", p, trans[p]) \o <<OnTrans("unlink", p), Plain("clear")>>]
           \/ DOMAIN trans = {} /\ edit' = [edit EXCEPT !.todo = <<Plain("delete")>>]
        /\ UNCHANGED <<db, edits, whole, cacheVars, stateVars, workVars>>

\* The next statement that changes the definition.  The signal handlers of
\* the models delete a cache key that nothing is stored under.
Execute ==
    LET k == edit.key
    IN  /\ edit.todo # <<>> /\ Statement.do \notin {"clear", "uncache", "forget"}
        /\ Advance
        /\ db' = [db EXCEPT ![k] = Changed(@, Statement)]
        /\ whole' = IF edit'.todo # <<>> THEN whole
                    ELSE [whole EXCEPT ![k] = @ \cup {db'[k]}]
        /\ job' = [w \in Worker |->
                     IF pc[w] \in {"states", "read"} /\ job[w].key = k
                     THEN [job[w] EXCEPT !.old = TRUE] ELSE job[w]]
        /\ UNCHANGED <<edits, cacheVars, stateVars, pc, faults>>

\* A reset deletes the entry of the filter ...
Uncache ==
    /\ edit.todo # <<>> /\ Statement.do = "uncache"
    /\ Advance
    /\ cache' = [cache EXCEPT ![edit.key] = None]
    /\ NoteRace(edit.key, FALSE)
    /\ UNCHANGED <<db, edits, whole, stateVars, workVars>>

\* ... and then the current states of its stream, or of all the streams.
Forget ==
    LET gone == IF edit.key = Project THEN Stream ELSE {edit.key}
        at(W) == {job[w].stream : w \in {v \in Worker : pc[v] \in W}}
    IN  /\ edit.todo # <<>> /\ Statement.do = "forget"
        /\ Advance
        /\ state' = [s \in Stream |-> IF s \in gone THEN None ELSE state[s]]
        /\ entered' = [s \in Stream |-> IF s \in gone THEN None ELSE entered[s]]
        /\ disturbed' = (disturbed \ (gone \ at({"act", "set"})))
                          \cup (gone \cap at({"set"}))
        /\ UNCHANGED <<db, edits, whole, cacheVars, workVars>>
-----------------------------------------------------------------------------
Lookup(w) == \/ \E s \in Stream, b \in Batch : GetOwn(w, s, b)
             \/ GetProject(w) \/ Find(w) \/ Read(w) \/ Fill(w) \/ FillEmpty(w)
Process(w) == Decide(w) \/ Pass(w) \/ Act(w) \/ SetState(w)
Editor == (\E k \in Key : Request(k)) \/ Clear \/ Execute \/ Uncache \/ Forget

Next == \/ \E w \in Worker : Lookup(w) \/ Process(w) \/ Fail(w)
        \/ \E k \in Key : Expire(k)
        \/ Editor

Spec == Init /\ [][Next]_vars
-----------------------------------------------------------------------------
(* Properties. *)

TypeOK ==
    /\ db \in [Key -> Def \cup {NoDef}]
    /\ cache \in [Key -> Def \cup {None, Empty}]
    /\ state \in [Stream -> State \cup {None}]
    /\ entered \in [Stream -> State \cup {None}]
    /\ disturbed \subseteq Stream
    /\ raced \subseteq Key
    /\ pc \in [Worker -> {"idle", "project", "find", "states", "read", "empty",
                          "consider", "act", "set"}]
    /\ job \in [Worker -> Job]
    /\ \A w \in Worker : job[w].left \subseteq DOMAIN job[w].def.trans
    /\ edit \in [key : Key, todo : Seq(Stmt)]
    /\ DOMAIN whole = Key
    /\ edits \in 0..MaxEdit /\ faults \in 0..MaxFault

\* The state in the cache is the one whose entry actions ran last, except
\* between the actions and the write of one worker.  A transition that failed,
\* or two that overlapped, break this only until the next one that completes.
EnteredIsStored ==
    \A s \in Stream \ disturbed :
        state[s] # entered[s] =>
            \E w \in Worker : /\ pc[w] = "set" /\ job[w].stream = s
                              /\ job[w].move[2] = entered[s]

\* While a stream stays in a state, its entry actions do not run again (the
\* user gets one mail, not one for each reading past the threshold), unless a
\* transition from the state to itself says so: whatever the filter is, however
\* stale, and whoever resets it, as long as no transition failed or overlapped.
NotifiedOnce ==
    [][\A w \in Worker :
         (/\ pc[w] = "act" /\ pc'[w] = "set"
          /\ job[w].stream \notin disturbed
          /\ job[w].move[1] # job[w].move[2])
         => entered[job[w].stream] # job[w].move[2]]_vars

\* A definition in the cache is one that some edit of this very filter left
\* complete: never another filter's, never one with a trigger missing, unless
\* an edit overlapped the lookup that filled the entry.
OnlyWholeDefinitions ==
    \A k \in Key :
        (cache[k] \notin {None, Empty} /\ k \notin raced)
            => cache[k] \in whole[k]

\* What the docstring of StreamFilter says (models.py 100-102: "only one (based
\* on the following priority) is ever executed: 1.- StreamFilters with an
\* associated stream_input"): while nobody edits filters, a stream that has a
\* filter of its own is not run through that of the project.
OwnFilterFirst ==
    \A w \in Worker :
        (pc[w] = "consider" /\ edits = 0 /\ db[job[w].stream] # NoDef)
            => job[w].def = db[job[w].stream]
=============================================================================

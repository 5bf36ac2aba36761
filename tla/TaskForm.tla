------------------------------ MODULE TaskForm ------------------------------
(***************************************************************************)
(* The form that edits a task (components/task/ModifyTaskCard.vue in the   *)
(* dialog of EditTaskModalButton.vue): its fields, the rows of the table   *)
(* that it was opened over, the tasks at the server, and the worker, the   *)
(* events and the loads that go on meanwhile.                              *)
(*                                                                         *)
(* The form belongs to a place in the table, not to a task: the rows have  *)
(* no key, so that Vue patches them in their order, and a form whose row   *)
(* goes, or one above it, is given the task that takes its place.          *)
(*                                                                         *)
(* The form takes a copy of the row when it is opened and whenever it is   *)
(* given another object; an event is assigned to the object and leaves the *)
(* copy as it was.  A save sends every field.  The list of parents is not  *)
(* copied: until one is removed, form and row have the same array.         *)
(*                                                                         *)
(* name stands for the fields that the server takes as they are sent       *)
(* (worker, remainingAttempts, errorDelayInSeconds, isPaused, isSeed,      *)
(* input).  The table shows every task it has, in the order of their ids.  *)
(***************************************************************************)
EXTENDS Naturals, Sequences, FiniteSets

CONSTANTS
    Names,          \* what the user types in a text field
    Times,          \* what the user puts in runAfter: nothing or the offset of a zone
    Zone,           \* of the server's clock: utc or another
    Parents,        \* ids that the user may add as parents
    Ids,            \* of the tasks of the group, in the order of the rows
    First,          \* the tasks at first
    MaxWrites,      \* writes of the server, saves on their way to it counted (a bound)
    MaxSaves,       \* saves in flight (a bound)
    MaxLoads,       \* the user loads while fewer loads are in flight (a bound)
    FeedCap,        \* events between a handler and the page
    Gone            \* what is left of a deleted task

AllParents == Parents \cup UNION {First[i].parentIds : i \in Ids}

\* done is history: how often the task was completed.
Task == [ name : Names, isComplete : BOOLEAN, runAfter : {"never", "utc", "offset"},
          parentIds : SUBSET AllParents, done : Nat ]

Tasks == [Ids -> Task \cup {Gone}]

ASSUME FormAssumption ==
    /\ Times \subseteq {"", "offset"} /\ Zone \in {"utc", "offset"} /\ Ids \subseteq Nat
    /\ First \in [Ids -> Task] /\ \A i \in Ids : First[i].done = 0
    /\ Gone \notin Task
    /\ {MaxWrites, MaxSaves, MaxLoads} \subseteq Nat /\ FeedCap \in Nat \ {0}

VARIABLES
    stored,     \* each task at the server, or Gone
    row,        \* the object of each task in the table, or Gone
    form,       \* the fields of the form and the task that it was given
    saves,      \* calls of updateTask that the server has not handled
    results,    \* what it answered to those that it has
    wire,       \* events emitted and not yet handled
    asked,      \* loads of the table that the server has not handled
    answers,    \* what those saw that it has handled
    writes      \* how many writes the server has made, for the bound

vars == <<stored, row, form, saves, results, wire, asked, answers, writes>>

Fields == {"name", "isComplete", "runAfter"}

\* What the user can put in them; the date picker writes the offset of the zone, and its
\* button empties the field.
Values == [name |-> Names, isComplete |-> BOOLEAN, runAfter |-> Times]

Closed == [open |-> FALSE]

\* Of a save: its task, the fields sent, how often it was completed when they were copied,
\* has the user typed in the box of isComplete, and is the form that sent it still open.
Save == [ of : Ids, sent : [name : Names, isComplete : BOOLEAN, runAfter : {"", "utc", "offset"}],
          done : Nat, clicked : BOOLEAN, mine : BOOLEAN ]

Result == [ok : BOOLEAN, mine : BOOLEAN]

Event == [id : Ids, task : Task \cup {Gone}]

Form == [ open : {TRUE}, of : Ids, name : Names, isComplete : BOOLEAN,
          runAfter : {"", "utc", "offset"}, parentIds : SUBSET AllParents,
          shared : BOOLEAN, typed : SUBSET Fields, done : Nat, busy : BOOLEAN ]

TypeOK ==
    /\ stored \in Tasks /\ row \in Tasks
    /\ form \in Form \cup {Closed} /\ saves \subseteq Save /\ results \subseteq Result
    /\ wire \in Seq(Event) /\ Len(wire) <= FeedCap
    /\ asked \in Nat /\ answers \subseteq Tasks
    /\ writes \in Nat

Init ==
    /\ stored = First /\ row = First /\ form = Closed /\ saves = {} /\ results = {}
    /\ wire = <<>> /\ asked = 0 /\ answers = {} /\ writes = 0

-----------------------------------------------------------------------------
(* The form.                                                               *)

ShownAsIs(runAfter) == runAfter

\* The zero time of Go is shown as an empty field.
ShownRunAfter(runAfter) == IF runAfter = "never" THEN "" ELSE runAfter

InitFieldsButComplete(i, t, busy) ==
    [ open |-> TRUE, of |-> i, name |-> t.name, isComplete |-> FALSE,
      runAfter |-> ShownRunAfter(t.runAfter), parentIds |-> t.parentIds, shared |-> TRUE,
      typed |-> {}, done |-> t.done, busy |-> busy ]

\* Task t, of row i, is given to the form; busy is not one of its fields.
initFields(i, t, busy) ==
    [ open |-> TRUE, of |-> i, name |-> t.name, isComplete |-> t.isComplete,
      runAfter |-> ShownRunAfter(t.runAfter), parentIds |-> t.parentIds, shared |-> TRUE,
      typed |-> {}, done |-> t.done, busy |-> busy ]

OpenForm ==
    /\ ~form.open
    /\ \E i \in Ids : row[i] # Gone /\ form' = initFields(i, row[i], FALSE)
    /\ UNCHANGED <<stored, row, saves, results, wire, asked, answers, writes>>

\* The form is unmounted: what its saves are answered reaches nobody.
Abandoned(ss) == {[s EXCEPT !.mine = FALSE] : s \in ss}

Orphaned(gone) ==
    /\ saves' = IF gone THEN Abandoned(saves) ELSE saves
    /\ results' = IF gone THEN Abandoned(results) ELSE results

CloseForm ==
    /\ form.open /\ form' = Closed /\ Orphaned(TRUE)
    /\ UNCHANGED <<stored, row, wire, asked, answers, writes>>

Type(field) ==
    /\ form.open
    /\ \E value \in Values[field] :
          /\ value # form[field]
          /\ form' = [form EXCEPT ![field] = value, !.typed = @ \cup {field}]
    /\ UNCHANGED <<stored, row, saves, results, wire, asked, answers, writes>>

addParentId(p) ==
    /\ form.open
    /\ form' = [form EXCEPT !.parentIds = @ \cup {p}]
    /\ row' = IF form.shared THEN [row EXCEPT ![form.of].parentIds = @ \cup {p}] ELSE row
    /\ UNCHANGED <<stored, saves, results, wire, asked, answers, writes>>

RemoveInPlace(p) ==
    /\ form.open /\ p \in form.parentIds /\ Cardinality(form.parentIds) > 1
    /\ form' = [form EXCEPT !.parentIds = @ \ {p}]
    /\ row' = IF form.shared THEN [row EXCEPT ![form.of].parentIds = @ \ {p}] ELSE row
    /\ UNCHANGED <<stored, saves, results, wire, asked, answers, writes>>

\* The last parent cannot be removed.
removeParentId(p) ==
    /\ form.open /\ p \in form.parentIds /\ Cardinality(form.parentIds) > 1
    /\ form' = [form EXCEPT !.parentIds = @ \ {p}, !.shared = FALSE]
    /\ UNCHANGED <<stored, row, saves, results, wire, asked, answers, writes>>

MayWrite == writes + Cardinality(saves) < MaxWrites

\* The button of the form; it is disabled while busy.  The rules of validate are
\* synchronous, so that no click comes between its await and busy.
create ==
    /\ form.open /\ ~form.busy /\ Cardinality(saves) + Cardinality(results) < MaxSaves
    /\ MayWrite
    /\ form' = [form EXCEPT !.busy = TRUE]
    /\ saves' = saves \cup
           {[ of |-> form.of,
              sent |-> [name |-> form.name, isComplete |-> form.isComplete, runAfter |-> form.runAfter],
              done |-> form.done,
              clicked |-> "isComplete" \in form.typed, mine |-> TRUE ]}
    /\ UNCHANGED <<stored, row, results, wire, asked, answers, writes>>

StillBusyOnError(mine, ok) == form.busy /\ ~(mine /\ ok)

\* The finally of create.
StillBusy(mine, ok) == form.busy /\ ~mine

\* A save ends: if its form is still open, whatever task it has by now, and the answer is
\* not an error, the dialog is closed and the table loads.
Ended(mine, ok) ==
    /\ form' = IF mine /\ ok THEN Closed
               ELSE IF form.open THEN [form EXCEPT !.busy = StillBusy(mine, ok)] ELSE form
    /\ asked' = IF mine /\ ok THEN asked + 1 ELSE asked

SaveEnds(r) ==
    /\ r \in results /\ results' = results \ {r}
    /\ Ended(r.mine, r.ok)
    /\ UNCHANGED <<stored, row, saves, wire, answers, writes>>

\* It is lost by the network, before it is handled or after.
SaveFails ==
    /\ \/ \E s \in saves : saves' = saves \ {s} /\ UNCHANGED results /\ Ended(s.mine, FALSE)
       \/ \E r \in results : results' = results \ {r} /\ UNCHANGED saves /\ Ended(r.mine, FALSE)
    /\ UNCHANGED <<stored, row, wire, answers, writes>>

-----------------------------------------------------------------------------
(* The server.                                                             *)

\* A task is written and the event is emitted, unless the feed is full.
Write(i, t) ==
    /\ stored' = [stored EXCEPT ![i] = t] /\ writes' = writes + 1
    /\ wire' = IF Len(wire) < FeedCap THEN Append(wire, [id |-> i, task |-> t]) ELSE wire

\* The handler of updateTask.  It refuses a time with the zone Z, which its layout does
\* not parse; it ignores the parents, the key and the workgroup.
Accepted(s) == stored[s.of] # Gone /\ s.sent.runAfter # "utc"

\* history
Completed(t, isComplete) == IF isComplete /\ ~t.isComplete THEN t.done + 1 ELSE t.done

Updated(t, sent) ==
    [t EXCEPT !.name = sent.name, !.isComplete = sent.isComplete,
              !.runAfter = IF sent.runAfter = "" THEN "never" ELSE sent.runAfter,
              !.done = Completed(t, sent.isComplete)]

Serve(s) ==
    /\ s \in saves /\ saves' = saves \ {s}
    /\ results' = results \cup {[ok |-> Accepted(s), mine |-> s.mine]}
    /\ IF Accepted(s) THEN Write(s.of, Updated(stored[s.of], s.sent))
       ELSE UNCHANGED <<stored, wire, writes>>
    /\ UNCHANGED <<row, form, asked, answers>>

\* The worker completes the task.
WorkerCompletes(i) ==
    /\ MayWrite /\ stored[i] # Gone /\ ~stored[i].isComplete
    /\ Write(i, [stored[i] EXCEPT !.isComplete = TRUE, !.done = @ + 1])
    /\ UNCHANGED <<row, form, saves, results, asked, answers>>

\* A reset gives the task the present time.
OthersReset(i) ==
    /\ MayWrite /\ stored[i] # Gone
    /\ Write(i, [stored[i] EXCEPT !.isComplete = FALSE, !.runAfter = Zone])
    /\ UNCHANGED <<row, form, saves, results, asked, answers>>

OthersDelete(i) ==
    /\ MayWrite /\ stored[i] # Gone /\ Write(i, Gone)
    /\ UNCHANGED <<row, form, saves, results, asked, answers>>

TakeSnapshot ==
    /\ asked > 0 /\ asked' = asked - 1 /\ answers' = answers \cup {stored}
    /\ UNCHANGED <<stored, row, form, saves, results, wire, writes>>

-----------------------------------------------------------------------------
(* The table.                                                              *)

Refresh ==
    /\ asked + Cardinality(answers) < MaxLoads /\ asked' = asked + 1
    /\ UNCHANGED <<stored, row, form, saves, results, wire, answers, writes>>

\* The place of the row of task i among the rows rs.
Shown(rs) == {i \in Ids : rs[i] # Gone}

Place(rs, i) == Cardinality({j \in Shown(rs) : j <= i})

\* The rows become rs and those from the form's place on have other objects: the form
\* takes its fields from the task that has its place now, busy as it was; the last
\* place takes its dialog with it.
FormFollows(rs) ==
    LET here == {i \in Shown(rs) : Place(rs, i) = Place(row, form.of)}
    IN  IF form.open /\ here # {}
        THEN (\E i \in here : form' = initFields(i, rs[i], form.busy)) /\ Orphaned(FALSE)
        ELSE form' = Closed /\ Orphaned(TRUE)

ReinitOnEvent(e) ==
    IF form.open /\ form.of = e.id THEN initFields(e.id, e.task, form.busy) ELSE form

\* The row's object is the same and has a new array of parents.
AfterUpdate(e) == IF form.open /\ form.of = e.id THEN [form EXCEPT !.shared = FALSE] ELSE form

\* The event of a task without a row does nothing.
EventArrives ==
    /\ wire # <<>> /\ wire' = Tail(wire)
    /\ LET e == Head(wire) IN
       /\ row' = IF row[e.id] = Gone THEN row ELSE [row EXCEPT ![e.id] = e.task]
       /\ IF row[e.id] # Gone /\ e.task = Gone /\ form.open /\ e.id <= form.of
          THEN FormFollows(row')
          ELSE /\ form' = IF row[e.id] # Gone /\ e.task # Gone THEN AfterUpdate(e) ELSE form
               /\ Orphaned(FALSE)
    /\ UNCHANGED <<stored, asked, answers, writes>>

\* The answer of a load puts other objects in all rows.
LoadEnds(rs) ==
    /\ rs \in answers /\ answers' = answers \ {rs}
    /\ row' = rs /\ FormFollows(rs)
    /\ UNCHANGED <<stored, wire, asked, writes>>

\* A call of getTasks fails.
LoadFails ==
    /\ asked > 0 /\ asked' = asked - 1
    /\ UNCHANGED <<stored, row, form, saves, results, wire, answers, writes>>

-----------------------------------------------------------------------------

User ==
    \/ OpenForm
    \/ CloseForm
    \/ \E field \in Fields : Type(field)
    \/ \E p \in Parents : addParentId(p)
    \/ \E p \in AllParents : removeParentId(p)
    \/ create
    \/ Refresh

Next ==
    \/ User
    \/ \E s \in saves : Serve(s)
    \/ \E r \in results : SaveEnds(r)
    \/ SaveFails
    \/ \E i \in Ids : WorkerCompletes(i)
    \/ \E i \in Ids : OthersReset(i)
    \/ \E i \in Ids : OthersDelete(i)
    \/ TakeSnapshot
    \/ EventArrives
    \/ \E rs \in answers : LoadEnds(rs)
    \/ LoadFails

Spec == Init /\ [][Next]_vars

-----------------------------------------------------------------------------
(* Properties.                                                             *)

\* A completed task becomes incomplete, and is executed again, only by a reset, by a user
\* who clears the box, or by the save of a form that took its copy of that task before the
\* completion: a form filled from a row that shows the task complete does not undo it, and
\* no save undoes another task, whatever loads and events change under it.
OnlyOldCopiesUndo ==
    [][\A i \in Ids :
          stored[i] # Gone /\ stored'[i] # Gone /\ stored[i].isComplete /\ ~stored'[i].isComplete =>
          \/ OthersReset(i)
          \/ \E s \in saves : Serve(s) /\ s.of = i /\ (s.clicked \/ s.done < stored[i].done)]_vars

\* The event that the row of the form's task, or of one above it, is deleted.
RowGoes ==
    /\ EventArrives /\ Head(wire).task = Gone
    /\ row[Head(wire).id] # Gone /\ Head(wire).id <= form.of

\* What the user has typed is replaced, and the form given another task, only by a load of
\* the table or by the event that takes its row or one above it away: not by any other
\* event, a save that fails or another of the user's steps.
TypedIsKept ==
    [][form.open /\ form'.open =>
          \/ /\ form'.of = form.of /\ form.typed \subseteq form'.typed
             /\ \A field \in Fields : form'[field] # form[field] => field \in form'.typed
          \/ \E rs \in answers : LoadEnds(rs)
          \/ RowGoes]_vars

\* The array that the form shares with a row never costs a row a parent, whichever rows the
\* form has had: what table and graph show has at least the parents of each task.
RowKeepsParents == \A i \in Ids : row[i] # Gone => First[i].parentIds \subseteq row[i].parentIds

\* The button waits exactly while the form has a save in flight, whether that succeeds,
\* is refused or is lost, and even if the fields, or the task, were replaced meanwhile; so
\* a form never has two.
BusyWhileSaving ==
    /\ (form.open /\ form.busy) <=> \E c \in saves \cup results : c.mine
    /\ Cardinality({s \in saves : s.mine}) + Cardinality({r \in results : r.mine}) <= 1
=============================================================================

------------------------------ MODULE TaskTable ------------------------------
(***************************************************************************)
(* The table of a group's tasks, components/task/TaskTable.vue with the    *)
(* buttons of its rows.                                                    *)
(*                                                                         *)
(* Rows are objects: a load replaces them all, and what a call was asked   *)
(* for a replaced row writes to an object that nobody sees (on = FALSE).   *)
(* The answer of a load is shown whatever was asked, answered or received  *)
(* since; which tasks it leaves behind is what doubt records.              *)
(***************************************************************************)
EXTENDS TaskServer

CONSTANTS
    Queries,        \* pages of the list that the user asks for (a bound)
    MaxCalls        \* the user asks while fewer calls are in flight (a bound)

ASSUME TableAssumption == Queries \subseteq Query /\ MaxCalls \in Nat

VARIABLE table

Unmounted == [mounted |-> FALSE, rows |-> <<>>, loading |-> FALSE, query |-> All,
              loaded |-> FALSE, of |-> All]

\* query: page, page size, search text and checkbox as they are in the controls;
\* of: as they were asked for by the load whose answer is shown.
TableTypeOK ==
    /\ table.mounted \in BOOLEAN /\ table.rows \in Seq(Task)
    /\ table.loading \in BOOLEAN /\ table.loaded \in BOOLEAN
    /\ table.query \in Query /\ table.of \in Query

\* The user gives a command: a new call and what changes in it.
MayAsk == Cardinality(calls) < MaxCalls

MayCommand == MayAsk /\ events < MaxEvents

-----------------------------------------------------------------------------
(* Loading.                                                                *)

LoadTasks(query, then) ==
    [NewCall("load", "table", query, NoTask) EXCEPT !.then = then]

\* The tab of the table is opened: page and search come from the route.
TableMounted(query) ==
    [Unmounted EXCEPT !.mounted = TRUE, !.loading = TRUE, !.query = query]

\* The dialogs of delete, edit and create lie over the page until they are closed or
\* answered; what is answered to a closed one reaches nobody.
InDialog == {"delete", "save", "create"}

DialogOpen(view) == \E c \in calls : c.by = view /\ c.what \in InDialog /\ c.on

DialogsClosed(cs, view) ==
    {c \in {IF d.by = view /\ d.what \in InDialog THEN [d EXCEPT !.on = FALSE] ELSE d : d \in cs} :
        Matters(c)}

CloseTableDialog ==
    /\ DialogOpen("table") /\ calls' = DialogsClosed(calls, "table")
    /\ UNCHANGED <<stored, socket, wire, events, doubt, table>>

\* Enter in the search field, its search, clear and refresh buttons, another page or page
\* size, the checkbox.
Request(query) ==
    /\ table.mounted /\ MayAsk /\ ~DialogOpen("table")
    /\ table' = [table EXCEPT !.query = query, !.loading = TRUE]
    /\ calls' = calls \cup {LoadTasks(query, "nothing")}
    /\ UNCHANGED <<stored, socket, wire, events, doubt>>

\* pauseTask and resumeTask keep the object of the row.  The other buttons keep its
\* index: the body slot gives the rows no key, so that Vue patches them in their order,
\* and what a button gets goes to the row that has its place by then.
OfObject == {"pause", "resume"}

\* Calls cs when n rows are left and those with other objects have become new ones.
RowsReplaced(cs, n) ==
    {IF c.row # 0 /\ (c.what \in OfObject \/ c.row > n) THEN [c EXCEPT !.on = FALSE] ELSE c : c \in cs}

\* Calls cs when row k has gone and n rows are left.
RowRemoved(cs, k, n) ==
    {CASE c.what \in OfObject /\ c.row = k -> [c EXCEPT !.on = FALSE]
       [] c.what \in OfObject /\ c.row > k -> [c EXCEPT !.row = @ - 1]
       [] c.what \notin OfObject /\ c.row > n -> [c EXCEPT !.on = FALSE]
       [] OTHER -> c : c \in cs}

LoadingUnlessDone(view, c) == view.loading

\* The finally of loadTasks: no longer loading, whatever else is.
StillLoading(view, c) == view.loading /\ ~c.on

\* What a snapshot leaves in doubt: tasks with later news, and tasks in doubt of which
\* an older event is still to come.
DoubtAfterLoad(c) == c.news \cup (doubt \cap OnTheWire)

\* A load of the table ends; next are the calls that follow.
TableLoadEnds(c, ok, next) ==
    /\ c.what = "load" /\ c.by = "table" /\ Ends(c, ok)
    /\ IF c.on /\ ok
       THEN /\ table' = [table EXCEPT !.rows = c.answer, !.loaded = TRUE, !.of = c.query,
                                      !.loading = StillLoading(table, c)]
            /\ calls' = RowsReplaced(calls \ {c}, Len(c.answer)) \cup next
            /\ doubt' = DoubtAfterLoad(c)
       ELSE /\ table' = [table EXCEPT !.loading = StillLoading(table, c)]
            /\ calls' = (calls \ {c}) \cup next
            /\ UNCHANGED doubt
    /\ UNCHANGED <<stored, socket, wire, events>>

-----------------------------------------------------------------------------
(* The buttons of a row.                                                   *)

\* What the buttons of a view ask for task t, shown in a row of the table or, row 0, in
\* the dialog of the graph.
Pressed(what, view, row, t) == [NewCall(what, view, All, t) EXCEPT !.row = row]

\* resetWait and retryWait disable their buttons, also in a dialog that is opened again.
Awaits(what, view, row, t) ==
    \E c \in calls : /\ c.what = what /\ c.by = view /\ c.row = row /\ c.on
                    /\ row = 0 => c.task.id = t.id

ResetOf(t, view, row) ==
    IF Awaits("reset", view, row, t) THEN {} ELSE {Pressed("reset", view, row, t)}

\* Shown for a task whose attempts are spent; that its dialog stays open when another task
\* comes to its row is left out.
RetryOf(t, view, row) ==
    IF t.status # "spent" \/ Awaits("retry", view, row, t) THEN {} ELSE {Pressed("retry", view, row, t)}

DeleteOf(t, view, row) == {Pressed("delete", view, row, t)}

EditOf(t, view, row) == {Pressed("save", view, row, f) : f \in {g \in Forms : g.id = t.id}}

\* One of the two is shown, for a task that is not complete.
PauseOf(t, view, row) ==
    IF t.status = "done" THEN {}
    ELSE {Pressed(IF t.isPaused THEN "resume" ELSE "pause", view, row, t)}

\* Each row can add a child of its task, the view itself a task.
CreateOf(view, row) ==
    {Pressed("create", view, row, f) : f \in {g \in Forms : g.id \notin IdsOf(stored) \cup IdsGiven}}

\* The commands on task t that a view has buttons for.
Commands(t, view, row) ==
    ResetOf(t, view, row) \cup RetryOf(t, view, row) \cup DeleteOf(t, view, row)
        \cup EditOf(t, view, row) \cup PauseOf(t, view, row) \cup CreateOf(view, row)

TableCommand ==
    /\ table.mounted /\ MayCommand /\ ~DialogOpen("table")
    /\ \E c \in (UNION {Commands(table.rows[i], "table", i) : i \in DOMAIN table.rows})
                  \cup CreateOf("table", 0) :
          calls' = calls \cup {c}
    /\ UNCHANGED <<stored, socket, wire, events, doubt, table>>

\* Does row i get what is answered to c, whatever task it shows by now?
RowOf(c, i) == c.on /\ c.row = i

\* pauseTask and resumeTask write what they asked for into the row, onReset all that
\* was answered; a retry is answered by null.
Assigned(t, c) ==
    CASE c.what \in {"pause", "resume"} -> [t EXCEPT !.isPaused = c.what = "pause"]
      [] c.what = "reset"               -> c.answer[1]
      [] OTHER                          -> t

\* The tasks in doubt when row i gets what is answered to c: that of c if there was later
\* news of it, and both if the row shows another one, which is now shown no more or wrong.
DoubtAfterAnswer(c, i) ==
    IF table.rows[i].id = c.task.id THEN c.news \cap {c.task.id}
    ELSE IF Shows(c) THEN {table.rows[i].id, c.task.id} ELSE {}

\* The dialogs of delete, edit and create ask the table to load when they succeed.
ReloadsTable(c) == c.on /\ c.what \in InDialog

TableCommandEnds(c, ok) ==
    /\ c.what \in OfTask /\ c.by = "table" /\ Ends(c, ok)
    /\ IF ok /\ \E i \in DOMAIN table.rows : RowOf(c, i)
       THEN /\ \E i \in DOMAIN table.rows :
                  /\ RowOf(c, i)
                  /\ table' = [table EXCEPT !.rows[i] = Assigned(@, c),
                                            !.loading = @ \/ ReloadsTable(c)]
                  /\ doubt' = doubt \cup DoubtAfterAnswer(c, i)
       ELSE /\ table' = [table EXCEPT !.loading = @ \/ (ok /\ ReloadsTable(c))]
            /\ UNCHANGED doubt
    /\ calls' = (calls \ {c}) \cup
                (IF ok /\ ReloadsTable(c) THEN {LoadTasks(table.query, "nothing")} ELSE {})
    /\ UNCHANGED <<stored, socket, wire, events>>

-----------------------------------------------------------------------------
(* Events.                                                                 *)

FirstRow(rows, id) == SelectInSeq(rows, LAMBDA t : t.id = id)

UpdatedPushes(rows, t) == Append(rows, t)

taskUpdated(rows, t) ==
    LET i == FirstRow(rows, t.id) IN IF i = 0 THEN rows ELSE ReplaceAt(rows, i, t)

DeletedButLast(rows, t) ==
    LET i == FirstRow(rows, t.id) IN IF i = Len(rows) THEN rows ELSE RemoveAt(rows, i)

taskDeleted(rows, t) ==
    LET i == FirstRow(rows, t.id) IN IF i = 0 THEN rows ELSE RemoveAt(rows, i)

\* A created task is added when the page has room, found or not, shown or not.
taskCreated(rows, t) ==
    IF table.query.size = 0 \/ Len(rows) < table.query.size THEN Append(rows, t) ELSE rows

RowsAfter(e) ==
    CASE e.type = "update" -> taskUpdated(table.rows, e.task)
      [] e.type = "delete" -> taskDeleted(table.rows, e.task)
      [] e.type = "create" -> taskCreated(table.rows, e.task)

TableReceives(e) ==
    /\ table.mounted /\ Receive(e)
    /\ table' = [table EXCEPT !.rows = RowsAfter(e)]
    /\ LET k  == IF e.type = "delete" THEN FirstRow(table.rows, e.task.id) ELSE 0
           cs == IF k = 0 THEN calls ELSE RowRemoved(calls, k, Len(RowsAfter(e)))
       IN  calls' = WithNews(cs, {e.task.id}, e.at)
    /\ doubt' = IF e.type = "create" /\ (e.task.id \in IdsOf(table.rows) \/ RowsAfter(e) = table.rows)
                THEN doubt \cup {e.task.id} ELSE doubt
=============================================================================

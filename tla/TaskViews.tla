------------------------------ MODULE TaskViews ------------------------------
(***************************************************************************)
(* The panels of pages/TaskGroupPage.vue: one of table, graph and settings *)
(* is mounted at a time, the buttons of the group call the server and then *)
(* load what is mounted, and the events of the websocket go to it.         *)
(***************************************************************************)
EXTENDS TaskGraph

CONSTANTS
    Tabs,           \* panels that the user opens
    GroupCommands   \* buttons that the user presses (a bound)

ASSUME ViewsAssumption ==
    Tabs \subseteq {"tasks", "graph", "settings"} /\ GroupCommands \subseteq OfGroup

vars == <<stored, socket, wire, calls, events, doubt, table, graph>>

TypeOK == ServerTypeOK /\ TableTypeOK /\ GraphTypeOK

\* Before the task group is loaded no panel is mounted.
Init ==
    /\ ServerInit /\ calls = {}
    /\ table = Unmounted /\ graph = GraphUnmounted

-----------------------------------------------------------------------------
(* Panels.                                                                 *)

Shown(tab) == CASE tab = "tasks"    -> table.mounted
                [] tab = "graph"    -> graph.mounted
                [] tab = "settings" -> ~table.mounted /\ ~graph.mounted

\* A dialog lies over tabs and buttons.
NoDialog == ~DialogOpen("table") /\ graph.selected = NoNode

\* The shown panel is unmounted, and the opened one is mounted and loads.  What was
\* asked for by the old one is answered to nobody.
OpenTab(tab) ==
    /\ ~Shown(tab) /\ MayAsk /\ NoDialog
    /\ \E q \in Queries :
          /\ ~q.skip
          /\ table' = IF tab = "tasks" THEN TableMounted(q) ELSE Unmounted
          /\ calls' = {c \in {IF d.by = "page" THEN d ELSE [d EXCEPT !.on = FALSE] : d \in calls} :
                            Matters(c)}
                        \cup (CASE tab = "tasks"    -> {LoadTasks(q, "nothing")}
                                [] tab = "graph"    -> {LoadGraph("nothing")}
                                [] tab = "settings" -> {})
    /\ graph' = IF tab = "graph" THEN GraphMounted ELSE GraphUnmounted
    /\ UNCHANGED <<stored, socket, wire, events, doubt>>

-----------------------------------------------------------------------------
(* The buttons of the group.                                               *)

\* resetWait and retryWait disable their buttons until the loads have ended.
Waits(what) == \E c \in calls : what \in {c.what, c.then}

GroupCommand(what) ==
    /\ ~Shown("settings") /\ MayCommand /\ NoDialog
    /\ what \in {"resetGroup", "retryGroup"} => ~Waits(what)
    /\ calls' = calls \cup {NewCall(what, "page", All, NoTask)}
    /\ UNCHANGED <<stored, socket, wire, events, doubt, table, graph>>

\* onReset, onRetry, onPause and onResume load what is mounted when they are answered.
GroupCommandEnds(c, ok) ==
    /\ c.by = "page" /\ Ends(c, ok)
    /\ calls' = (calls \ {c}) \cup
           (IF ok /\ table.mounted THEN {LoadTasks(table.query, c.what)}
            ELSE IF ok /\ graph.mounted THEN {LoadGraph(c.what)} ELSE {})
    /\ table' = [table EXCEPT !.loading = @ \/ (ok /\ table.mounted)]
    /\ graph' = [graph EXCEPT !.loading = @ \/ (ok /\ graph.mounted)]
    /\ UNCHANGED <<stored, socket, wire, events, doubt>>

\* After the table's load, even if the table is gone, the handler loads the graph if
\* that is mounted by now.
LoadsGraphNext(c) == c.then # "nothing" /\ graph.mounted

TableLoaded(c, ok) ==
    /\ TableLoadEnds(c, ok, IF LoadsGraphNext(c) THEN {LoadGraph(c.then)} ELSE {})
    /\ graph' = [graph EXCEPT !.loading = @ \/ LoadsGraphNext(c)]

-----------------------------------------------------------------------------
(* Events.                                                                 *)

\* The handler of watchGroup passes an event on to the view that is mounted.
PageReceives ==
    \E e \in ToSet(wire) :
        \/ TableReceives(e) /\ UNCHANGED graph
        \/ GraphReceives(e)
        \/ /\ Shown("settings") /\ Receive(e)
           /\ UNCHANGED <<calls, doubt, table, graph>>

-----------------------------------------------------------------------------

ServerStep == SocketOpens \/ SocketCloses \/ OthersWrite \/ \E c \in calls : Serve(c)

TableStep ==
    \/ \E q \in Queries : Request(q)
    \/ TableCommand
    \/ CloseTableDialog
    \/ \E c \in calls, ok \in BOOLEAN : TableCommandEnds(c, ok)

GraphStep ==
    \/ \E id \in Ids : onNodeClick(id)
    \/ CloseDialog
    \/ GraphCommand

Answered ==
    \E c \in calls, ok \in BOOLEAN :
        \/ TableLoaded(c, ok)
        \/ GraphLoadEnds(c, ok, {}) /\ UNCHANGED table
        \/ GraphCommandEnds(c, ok) /\ UNCHANGED table
        \/ GroupCommandEnds(c, ok)

Next ==
    \/ ServerStep /\ UNCHANGED <<table, graph>>
    \/ TableStep /\ UNCHANGED graph
    \/ GraphStep
    \/ PeriodEnds
    \/ Answered
    \/ PageReceives
    \/ \E tab \in Tabs : OpenTab(tab)
    \/ \E what \in GroupCommands : GroupCommand(what)

Spec == Init /\ [][Next]_vars

-----------------------------------------------------------------------------
(* Properties.                                                             *)

Settled == calls = {} /\ wire = <<>>

Same(ts, us, id) == {t \in ts : t.id = id} = {t \in us : t.id = id}

\* When all calls have ended and all events were handled, a row shows its task as it
\* is stored, and a table of all tasks that has loaded has a row for each, but for tasks
\* of which an event was lost or received between the snapshot of a load (or of a
\* command) and its answer, that were created and loaded twice, or of which a row was
\* written over with another task, answered to the button that had come to its place.
TableFollows ==
    Settled /\ table.loaded =>
        \A id \in Ids \ doubt :
            LET rows == ToSet(table.rows) IN
            \/ Same(rows, ToSet(stored), id)
            \/ table.of # All /\ id \notin IdsOf(table.rows)

\* A task has more than one row only when its creation was received after a load that had
\* it, or when its reset was answered to the button of another row.
RowsAreKeyed ==
    \A i, j \in DOMAIN table.rows :
        table.rows[i].id = table.rows[j].id => i = j \/ table.rows[i].id \in doubt

\* The graph's map follows the stored tasks likewise, though no load heals it of a task
\* whose deletion it has missed.
GraphFollows ==
    Settled /\ graph.loaded =>
        \A id \in Ids \ doubt : Same(graph.tasks, ToSet(stored), id)

\* A view that shows it is loading has a load in flight, however loads, commands, errors
\* and changes of panel interleave.
SpinnerHasALoad ==
    /\ table.loading => \E c \in calls : c.what = "load" /\ c.by = "table" /\ c.on
    /\ graph.loading => \E c \in calls : c.what = "load" /\ c.by = "graph" /\ c.on

\* While what is drawn differs from the map, the throttle owes a drawing for the end of
\* its period: it drops no last change, of a burst or after a handler that threw.
DrawingIsOwed == graph.drawn # Nodes(graph.tasks) => graph.render = "pending"
=============================================================================

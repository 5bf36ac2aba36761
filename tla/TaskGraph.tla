------------------------------ MODULE TaskGraph ------------------------------
(***************************************************************************)
(* The graph of a group's tasks, components/task/TaskGraph.vue: a map of   *)
(* tasks by id that loads and events write, what is drawn of it, and the   *)
(* dialog of the node that was clicked.                                    *)
(*                                                                         *)
(* A load replaces the objects of the tasks it finds and removes none.     *)
(* The drawing has the nodes of the map as it was rendered last and the    *)
(* links between them; their colours are read from the map.  The dialog    *)
(* keeps the object that was clicked, which a load or an event may have    *)
(* taken out of the map (on = FALSE).                                      *)
(***************************************************************************)
EXTENDS TaskTable, Throttle

VARIABLE graph

NoNode == [id |-> 0, on |-> FALSE]

GraphUnmounted == [mounted |-> FALSE, tasks |-> {}, loading |-> FALSE, loaded |-> FALSE,
                   drawn |-> {}, render |-> "idle", selected |-> NoNode]

GraphMounted == [GraphUnmounted EXCEPT !.mounted = TRUE, !.loading = TRUE]

GraphTypeOK ==
    /\ graph.mounted \in BOOLEAN /\ graph.loading \in BOOLEAN /\ graph.loaded \in BOOLEAN
    /\ graph.tasks \subseteq Task
    /\ \A t, u \in graph.tasks : t.id = u.id => t = u
    /\ graph.drawn \subseteq Ids /\ graph.render \in Throttles
    /\ graph.selected \in [id : Ids \cup {0}, on : BOOLEAN]

Nodes(ts) == {t.id : t \in ts}

Put(ts, t) == {u \in ts : u.id # t.id} \cup {t}

-----------------------------------------------------------------------------
(* Drawing.                                                                *)

\* The map is ts and throttledRenderGraph is called.
Render(g, ts) ==
    [g EXCEPT !.tasks = ts,
              !.drawn = IF Leads(g.render) THEN Nodes(ts) ELSE @,
              !.render = Called(@)]

PeriodEnds ==
    /\ graph.render # "idle"
    /\ graph' = [graph EXCEPT !.drawn = IF Trails(graph.render) THEN Nodes(graph.tasks) ELSE @,
                              !.render = Expired(@)]
    /\ UNCHANGED <<serverVars, table>>

-----------------------------------------------------------------------------
(* Loading, always of all tasks.                                           *)

\* Calls cs when the objects of the tasks in ids are replaced: a pause writes to its object.
Detached(cs, ids) ==
    {IF c.by = "graph" /\ c.what \in OfObject /\ c.task.id \in ids
     THEN [c EXCEPT !.on = FALSE] ELSE c : c \in cs}

LoadGraph(then) == [NewCall("load", "graph", All, NoTask) EXCEPT !.then = then]

\* The tasks ts are put in the map one after the other, and the graph is rendered after
\* each: the first call of a burst may draw, the second is owed at the end of the period,
\* as are all that follow.
Loaded(g, ts) ==
    LET first == Render(g, Put(g.tasks, ts[1]))
        all   == {t \in g.tasks : t.id \notin IdsOf(ts)} \cup ToSet(ts)
    IN  CASE Len(ts) = 0 -> g
          [] Len(ts) = 1 -> first
          [] OTHER       -> Render(first, all)

GraphLoadEnds(c, ok, next) ==
    /\ c.what = "load" /\ c.by = "graph" /\ Ends(c, ok)
    /\ IF c.on /\ ok
       THEN LET ids == IdsOf(c.answer)
            IN  /\ graph' = [Loaded(graph, c.answer) EXCEPT
                                 !.loading = StillLoading(graph, c), !.loaded = TRUE,
                                 !.selected.on = @ /\ graph.selected.id \notin ids]
                /\ calls' = Detached(calls \ {c}, ids) \cup next
                /\ doubt' = DoubtAfterLoad(c) \cup (doubt \ ids)
       ELSE /\ graph' = [graph EXCEPT !.loading = StillLoading(graph, c)]
            /\ calls' = (calls \ {c}) \cup next
            /\ UNCHANGED doubt
    /\ UNCHANGED <<stored, socket, wire, events>>

-----------------------------------------------------------------------------
(* The dialog of a task.                                                   *)

\* A node of the drawing is clicked; nothing happens if its task has gone.
onNodeClick(id) ==
    /\ graph.selected = NoNode /\ id \in graph.drawn \cap Nodes(graph.tasks)
    /\ graph' = [graph EXCEPT !.selected = [id |-> id, on |-> TRUE]]
    /\ UNCHANGED <<serverVars, table>>

\* The buttons in the dialog go with it: nothing is done with what they get later.
ButtonsGone(cs) ==
    {IF c.by = "graph" /\ c.what \in {"reset", "retry"}
     THEN [c EXCEPT !.on = FALSE] ELSE c : c \in cs}

\* The dialogs that its buttons open lie over that of the task.
CloseDialog ==
    /\ graph.selected # NoNode
    /\ \/ DialogOpen("graph") /\ calls' = DialogsClosed(calls, "graph") /\ UNCHANGED graph
       \/ /\ ~DialogOpen("graph") /\ calls' = ButtonsGone(calls)
          /\ graph' = [graph EXCEPT !.selected = NoNode]
    /\ UNCHANGED <<stored, socket, wire, events, doubt, table>>

\* The task as the dialog shows it: any, if its object is no longer in the map.
ShownTasks ==
    {t \in IF graph.selected.on THEN graph.tasks ELSE Task : t.id = graph.selected.id}

GraphCommand ==
    /\ graph.selected # NoNode /\ MayCommand /\ ~DialogOpen("graph")
    /\ \E c \in UNION {Commands(t, "graph", 0) : t \in ShownTasks} :
          calls' = calls \cup
              {IF c.what \in {"pause", "resume"} THEN [c EXCEPT !.on = graph.selected.on] ELSE c}
    /\ UNCHANGED <<stored, socket, wire, events, doubt, table, graph>>

\* Is the object that an answer goes to in the map?  A pause keeps the object of the
\* click; onReset takes that of the dialog.
InMap(c) == c.on /\ (c.what = "reset" => graph.selected.on)

Redraws(c) == c.on /\ c.what \in {"reset", "retry"}

ReloadsGraph(c) == c.on /\ c.what \in InDialog

GraphCommandEnds(c, ok) ==
    /\ c.what \in OfTask /\ c.by = "graph" /\ Ends(c, ok)
    /\ LET ts == {IF InMap(c) /\ t.id = c.task.id THEN Assigned(t, c) ELSE t : t \in graph.tasks}
           g  == IF Redraws(c) THEN Render(graph, ts) ELSE [graph EXCEPT !.tasks = ts]
       IN  graph' = IF ~ok THEN graph ELSE [g EXCEPT !.loading = @ \/ ReloadsGraph(c)]
    /\ doubt' = IF ok /\ InMap(c) THEN doubt \cup (c.news \cap {c.task.id}) ELSE doubt
    /\ calls' = (calls \ {c}) \cup (IF ok /\ ReloadsGraph(c) THEN {LoadGraph("nothing")} ELSE {})
    /\ UNCHANGED <<stored, socket, wire, events>>

-----------------------------------------------------------------------------
(* Events.                                                                 *)

\* taskUpdated assigns to a task that must be there: it throws if it is not, and
\* neither draws nor lets the page's handler go on.
Throws(e) == e.type = "update" /\ e.task.id \notin Nodes(graph.tasks)

PutAlways(e) == Put(graph.tasks, e.task)

KeepsTheOld(e) ==
    IF e.type = "delete" THEN {t \in graph.tasks : t.id # e.task.id}
    ELSE graph.tasks \cup {e.task}

MapAfter(e) ==
    IF e.type = "delete" THEN {t \in graph.tasks : t.id # e.task.id}
    ELSE Put(graph.tasks, e.task)

GraphReceives(e) ==
    /\ graph.mounted /\ Receive(e)
    /\ graph' = IF Throws(e) THEN graph
                ELSE [Render(graph, MapAfter(e)) EXCEPT
                         !.selected.on = @ /\ (e.type = "update" \/ graph.selected.id # e.task.id)]
    /\ calls' = WithNews(IF e.type = "update" THEN calls
                         ELSE Detached(calls, {e.task.id}), {e.task.id}, e.at)
    /\ UNCHANGED <<doubt, table>>
=============================================================================

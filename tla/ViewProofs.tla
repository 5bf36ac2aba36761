----------------------------- MODULE ViewProofs ------------------------------
(***************************************************************************)
(* What the views show, for any tasks, queries, commands and number of     *)
(* calls in flight: a spinner that a load will end, and lists that follow  *)
(* the tasks of the server.                                                *)
(*                                                                         *)
(* A view is loading because it has sent a load.  Everything that happens  *)
(* to the calls in flight leaves the loads of the mounted view alone: what *)
(* is served, what the page has news of, what rows and dialogs no longer   *)
(* show.  A load ends only with the spinner.                               *)
(*                                                                         *)
(* A list follows, task by task, when the events to come will make up for  *)
(* all that it does not show.  This is an invariant for lists that are     *)
(* shown and for answers that may yet be shown (FollowInv), where what the *)
(* page should know has two sources in no order, snapshots and events.     *)
(***************************************************************************)
EXTENDS ViewTypeProofs

-----------------------------------------------------------------------------
(* Spinners.                                                               *)

\* A call has the fields of one, whatever is in them, and no row asks for a load.
IsACall(c) ==
    /\ c \in [ no     : {c.no},
               what   : {c.what},
               by     : {c.by},
               query  : {c.query},
               task   : {c.task},
               served : {c.served},
               answer : {c.answer},
               at     : {c.at},
               news   : {c.news},
               on     : {c.on},
               row    : {c.row},
               then   : {c.then} ]
    /\ c.what = "load" => c.row = 0

\* So do the views, of which one is mounted at a time.
AreViews ==
    /\ ~(table.mounted /\ graph.mounted)
    /\ table \in [ mounted : {table.mounted},
                   rows    : {table.rows},
                   loading : BOOLEAN,
                   query   : {table.query},
                   loaded  : {table.loaded},
                   of      : {table.of} ]
    /\ graph \in [ mounted  : {graph.mounted},
                   tasks    : {graph.tasks},
                   loading  : BOOLEAN,
                   loaded   : {graph.loaded},
                   drawn    : {graph.drawn},
                   render   : {graph.render},
                   selected : {graph.selected} ]

\* A load of the view whose answer will be shown.
IsALoad(c, view) == c.what = "load" /\ c.by = view /\ c.on

HasALoad(cs, view) == \E c \in cs : IsALoad(c, view)

SpinInv ==
    /\ \A c \in calls : IsACall(c)
    /\ AreViews
    /\ table.loading => HasALoad(calls, "table")
    /\ graph.loading => HasALoad(calls, "graph")

Views == {"table", "graph"}

-----------------------------------------------------------------------------
(* What happens to the calls in flight.                                    *)

\* The calls ds still have every load of a view that cs had.
Keeps(cs, ds) ==
    /\ \A d \in ds : IsACall(d)
    /\ \A view \in Views : HasALoad(cs, view) => HasALoad(ds, view)

LEMMA NewCallIsACall ==
    ASSUME NEW what, NEW by, NEW query, NEW task, NEW c, c = NewCall(what, by, query, task)
    PROVE  IsACall(c) /\ c.what = what /\ c.by = by /\ c.on /\ c.row = 0
  BY DEF NewCall, Numbered, IsACall

\* A call with a field changed.
LEMMA ChangedCall ==
    ASSUME NEW c, IsACall(c), NEW x, NEW d,
           d \in {[c EXCEPT !.on = x], [c EXCEPT !.news = x]}
    PROVE  /\ IsACall(d) /\ d.what = c.what /\ d.by = c.by
           /\ d = [c EXCEPT !.news = x] => d.on = c.on
  <1>1. CASE d = [c EXCEPT !.on = x]
    BY <1>1 DEF IsACall
  <1>2. CASE d = [c EXCEPT !.news = x]
    BY <1>2 DEF IsACall
  <1> QED
    BY <1>1, <1>2

LEMMA LoadsAreLoads ==
    ASSUME NEW query, NEW then
    PROVE  /\ IsACall(LoadTasks(query, then)) /\ IsALoad(LoadTasks(query, then), "table")
           /\ IsACall(LoadGraph(then)) /\ IsALoad(LoadGraph(then), "graph")
  <1>1. ASSUME NEW view, NEW q, NEW c, c = NewCall("load", view, q, NoTask),
               NEW d, d = [c EXCEPT !.then = then]
        PROVE  IsACall(d) /\ IsALoad(d, view)
    <2>1. IsACall(c) /\ c.what = "load" /\ c.by = view /\ c.on
      BY <1>1, NewCallIsACall
    <2>2. IsACall(d) /\ d.what = c.what /\ d.by = c.by /\ d.on = c.on
      BY <1>1, <2>1 DEF IsACall
    <2> QED
      BY <2>1, <2>2 DEF IsALoad
  <1> QED
    BY <1>1 DEF LoadTasks, LoadGraph

LEMMA NewsKeeps ==
    ASSUME NEW cs, \A c \in cs : IsACall(c), NEW ids, NEW n
    PROVE  Keeps(cs, WithNews(cs, ids, n))
  <1> DEFINE New(c) == IF c.served /\ Shows(c) /\ c.at < n
                       THEN [c EXCEPT !.news = @ \cup ids] ELSE c
  <1>1. \A c \in cs : /\ IsACall(New(c))
                      /\ \A view : IsALoad(New(c), view) <=> IsALoad(c, view)
    <2> TAKE c \in cs
    <2>1. IsACall(New(c)) /\ New(c).what = c.what /\ New(c).by = c.by /\ New(c).on = c.on
      BY ChangedCall
    <2> HIDE DEF New
    <2> QED
      BY <2>1 DEF IsALoad
  <1>2. WithNews(cs, ids, n) = {New(c) : c \in cs}
    BY DEF WithNews
  <1> HIDE DEF New
  <1> QED
    BY <1>1, <1>2 DEF Keeps, HasALoad

\* Objects and rows are taken from the commands on their tasks, not from loads.
LEMMA DetachedKeeps ==
    ASSUME NEW cs, \A c \in cs : IsACall(c), NEW ids
    PROVE  Keeps(cs, Detached(cs, ids))
  <1> DEFINE Off(c) == IF c.by = "graph" /\ c.what \in OfObject /\ c.task.id \in ids
                       THEN [c EXCEPT !.on = FALSE] ELSE c
  <1>1. \A c \in cs : IsACall(Off(c)) /\ (c.what = "load" => Off(c) = c)
    BY ChangedCall DEF OfObject
  <1>2. Detached(cs, ids) = {Off(c) : c \in cs}
    BY DEF Detached
  <1> HIDE DEF Off
  <1> QED
    BY <1>1, <1>2 DEF Keeps, HasALoad, IsALoad

LEMMA RowsReplacedKeeps ==
    ASSUME NEW cs, \A c \in cs : IsACall(c), NEW n
    PROVE  Keeps(cs, RowsReplaced(cs, n))
  <1> DEFINE Off(c) == IF c.row # 0 /\ (c.what \in OfObject \/ c.row > n)
                       THEN [c EXCEPT !.on = FALSE] ELSE c
  <1>1. \A c \in cs : IsACall(Off(c)) /\ (c.what = "load" => Off(c) = c)
    BY ChangedCall DEF IsACall
  <1>2. RowsReplaced(cs, n) = {Off(c) : c \in cs}
    BY DEF RowsReplaced
  <1> HIDE DEF Off
  <1> QED
    BY <1>1, <1>2 DEF Keeps, HasALoad, IsALoad

LEMMA RowRemovedKeeps ==
    ASSUME NEW cs, \A c \in cs : IsACall(c), NEW k, NEW n \in Nat
    PROVE  Keeps(cs, RowRemoved(cs, k, n))
  <1> DEFINE Moved(c) == CASE c.what \in OfObject /\ c.row = k -> [c EXCEPT !.on = FALSE]
                           [] c.what \in OfObject /\ c.row > k -> [c EXCEPT !.row = @ - 1]
                           [] c.what \notin OfObject /\ c.row > n -> [c EXCEPT !.on = FALSE]
                           [] OTHER -> c
  <1>1. ASSUME NEW c \in cs
        PROVE  IsACall(Moved(c)) /\ (c.what = "load" => Moved(c) = c)
    <2>1. CASE c.what = "load"
      <3>1. c.row = 0 /\ c.what \notin OfObject /\ IsACall(c)
        BY <2>1 DEF OfObject, IsACall
      <3>2. ~(c.row > n)
        BY <3>1
      <3>3. Moved(c) = c
        BY <3>1, <3>2
      <3> QED
        BY <3>1, <3>3
    <2>2. CASE c.what # "load"
      <3>1. /\ IsACall([c EXCEPT !.on = FALSE]) /\ IsACall(c)
            /\ IsACall([c EXCEPT !.row = @ - 1])
        BY <2>2 DEF IsACall
      <3> QED
        BY <2>2, <3>1
    <2> QED
      BY <2>1, <2>2
  <1>2. RowRemoved(cs, k, n) = {Moved(c) : c \in cs}
    BY DEF RowRemoved
  <1> HIDE DEF Moved
  <1> QED
    BY <1>1, <1>2 DEF Keeps, HasALoad, IsALoad

LEMMA DialogsClosedKeeps ==
    ASSUME NEW cs, \A c \in cs : IsACall(c), NEW view
    PROVE  Keeps(cs, DialogsClosed(cs, view))
  <1> DEFINE Off(d) == IF d.by = view /\ d.what \in InDialog THEN [d EXCEPT !.on = FALSE] ELSE d
  <1>1. \A c \in cs : IsACall(Off(c)) /\ (c.what = "load" => Off(c) = c)
    BY ChangedCall DEF InDialog
  <1>2. DialogsClosed(cs, view) = {c \in {Off(d) : d \in cs} : Matters(c)}
    BY DEF DialogsClosed
  <1> HIDE DEF Off
  <1> QED
    BY <1>1, <1>2 DEF Keeps, HasALoad, IsALoad, Matters

LEMMA ButtonsGoneKeeps ==
    ASSUME NEW cs, \A c \in cs : IsACall(c)
    PROVE  Keeps(cs, ButtonsGone(cs))
  <1> DEFINE Off(c) == IF c.by = "graph" /\ c.what \in {"reset", "retry"}
                       THEN [c EXCEPT !.on = FALSE] ELSE c
  <1>1. \A c \in cs : IsACall(Off(c)) /\ (c.what = "load" => Off(c) = c)
    BY ChangedCall
  <1>2. ButtonsGone(cs) = {Off(c) : c \in cs}
    BY DEF ButtonsGone
  <1> HIDE DEF Off
  <1> QED
    BY <1>1, <1>2 DEF Keeps, HasALoad, IsALoad

LEMMA KeepsIsTransitive ==
    ASSUME NEW cs, NEW ds, NEW es, Keeps(cs, ds), Keeps(ds, es)
    PROVE  Keeps(cs, es)
  BY DEF Keeps

LEMMA MoreKeeps ==
    ASSUME NEW cs, NEW ds, Keeps(cs, ds), NEW more, \A c \in more : IsACall(c)
    PROVE  Keeps(cs, ds \cup more)
  BY DEF Keeps, HasALoad

\* A call that is not a load of a view may go.
LEMMA LessKeeps ==
    ASSUME NEW cs, \A c \in cs : IsACall(c), NEW c,
           \A view \in Views : ~IsALoad(c, view)
    PROVE  Keeps(cs, cs \ {c})
  BY DEF Keeps, HasALoad

\* The commands that views have buttons for are calls.
LEMMA PressedIsACall ==
    ASSUME NEW what, what # "load", NEW view, NEW row, NEW t, NEW c, c = Pressed(what, view, row, t)
    PROVE  IsACall(c) /\ c.what # "load"
  <1>1. PICK d : d = NewCall(what, view, All, t)
    OBVIOUS
  <1>2. IsACall(d) /\ d.what = what
    BY <1>1, NewCallIsACall
  <1>3. c = [d EXCEPT !.row = row]
    BY <1>1 DEF Pressed
  <1> QED
    BY <1>2, <1>3 DEF IsACall

LEMMA CreationsAreCalls ==
    ASSUME NEW view, NEW row
    PROVE  \A c \in CreateOf(view, row) : IsACall(c) /\ c.what # "load"
  BY PressedIsACall DEF CreateOf

LEMMA CommandsAreCalls ==
    ASSUME NEW view, NEW row, NEW t
    PROVE  \A c \in Commands(t, view, row) : IsACall(c) /\ c.what # "load"
  <1>2. \A c \in ResetOf(t, view, row) : IsACall(c) /\ c.what # "load"
    BY PressedIsACall DEF ResetOf
  <1>3. \A c \in RetryOf(t, view, row) : IsACall(c) /\ c.what # "load"
    BY PressedIsACall DEF RetryOf
  <1>4. \A c \in DeleteOf(t, view, row) : IsACall(c) /\ c.what # "load"
    BY PressedIsACall DEF DeleteOf
  <1>5. \A c \in EditOf(t, view, row) : IsACall(c) /\ c.what # "load"
    BY PressedIsACall DEF EditOf
  <1>6. \A c \in PauseOf(t, view, row) : IsACall(c) /\ c.what # "load"
    <2>1. \A c \in PauseOf(t, view, row) : c = Pressed("resume", view, row, t)
                                          \/ c = Pressed("pause", view, row, t)
      BY DEF PauseOf
    <2> QED
      BY <2>1, PressedIsACall
  <1>7. \A c \in CreateOf(view, row) : IsACall(c) /\ c.what # "load"
    BY CreationsAreCalls
  <1> QED
    BY <1>2, <1>3, <1>4, <1>5, <1>6, <1>7 DEF Commands

-----------------------------------------------------------------------------
(* Every step keeps the invariant.                                         *)

\* A step that keeps the loads may leave a view loading that was, and make one
\* load for which there is a load now.
LEMMA KeepsSpinning ==
    ASSUME SpinInv, Keeps(calls, calls'), AreViews',
           table'.loading => table.loading \/ HasALoad(calls', "table"),
           graph'.loading => graph.loading \/ HasALoad(calls', "graph")
    PROVE  SpinInv'
  BY DEF SpinInv, Keeps, HasALoad, Views

\* The server serves calls and emits events; others write; the socket closes.
LEMMA ServerStepKeeps ==
    ASSUME SpinInv, ServerStep, UNCHANGED <<table, graph>>
    PROVE  SpinInv'
  <1>0. \A c \in calls : IsACall(c)
    BY DEF SpinInv
  <1>1. AreViews' /\ table' = table /\ graph' = graph
    BY DEF SpinInv, AreViews
  <1>2. CASE SocketOpens
    BY <1>0, <1>1, <1>2, KeepsSpinning DEF SocketOpens, Keeps
  <1>3. CASE SocketCloses
    <2>1. Keeps(calls, calls')
      BY <1>0, <1>3, NewsKeeps DEF SocketCloses
    <2> QED
      BY <1>1, <2>1, KeepsSpinning
  <1>4. CASE OthersWrite
    <2>1. \E es : Emit(es, calls)
      BY <1>4 DEF OthersWrite
    <2>2. Keeps(calls, calls')
      BY <1>0, <2>1, NewsKeeps DEF Emit
    <2> QED
      BY <1>1, <2>2, KeepsSpinning
  <1>5. ASSUME NEW c \in calls, Serve(c)
        PROVE  SpinInv'
    <2>1. PICK es, at, seen, done :
             /\ done \in {[c EXCEPT !.served = TRUE],
                          [c EXCEPT !.served = TRUE, !.at = at, !.answer = seen]}
             /\ Emit(es, (calls \ {c}) \cup {d \in {done} : Matters(d)})
      BY <1>5, Zenon DEF Serve
    <2>2. /\ IsACall(done)
          /\ \A view : IsALoad(done, view) <=> IsALoad(c, view)
      <3>1. IsACall(done) /\ done.what = c.what /\ done.by = c.by /\ done.on = c.on
        <4>1. CASE done = [c EXCEPT !.served = TRUE]
          BY <1>0, <4>1 DEF IsACall
        <4>2. CASE done = [c EXCEPT !.served = TRUE, !.at = at, !.answer = seen]
          BY <1>0, <4>2 DEF IsACall
        <4> QED
          BY <2>1, <4>1, <4>2
      <3> QED
        BY <3>1 DEF IsALoad
    <2> DEFINE cs == (calls \ {c}) \cup {d \in {done} : Matters(d)}
    <2>3. Keeps(calls, cs)
      BY <1>0, <2>2 DEF Keeps, HasALoad, IsALoad, Matters
    <2>4. Keeps(cs, calls')
      BY <2>1, <2>3, NewsKeeps DEF Emit, Keeps
    <2> QED
      BY <1>1, <2>3, <2>4, KeepsIsTransitive, KeepsSpinning
  <1> QED
    BY <1>2, <1>3, <1>4, <1>5 DEF ServerStep

\* The user asks for a page, gives a command or closes a dialog of the table.
LEMMA TableAsks ==
    ASSUME SpinInv, UNCHANGED graph,
           (\E q \in Queries : Request(q)) \/ TableCommand \/ CloseTableDialog
    PROVE  SpinInv'
  <1>0. /\ \A c \in calls : IsACall(c)
        /\ AreViews /\ Keeps(calls, calls)
    BY DEF SpinInv, Keeps
  <1>1. ASSUME NEW q \in Queries, Request(q)
        PROVE  SpinInv'
    <2>1. Keeps(calls, calls') /\ HasALoad(calls', "table")
      BY <1>0, <1>1, MoreKeeps, LoadsAreLoads DEF Request, HasALoad
    <2>2. AreViews' /\ graph'.loading = graph.loading
      BY <1>0, <1>1 DEF Request, AreViews
    <2> QED
      BY <2>1, <2>2, KeepsSpinning
  <1>2. CASE TableCommand
    <2>1. PICK c \in (UNION {Commands(table.rows[i], "table", i) : i \in DOMAIN table.rows})
                       \cup CreateOf("table", 0) :
             calls' = calls \cup {c}
      BY <1>2 DEF TableCommand
    <2>2. IsACall(c)
      <3>1. CASE c \in CreateOf("table", 0)
        BY <3>1, CreationsAreCalls
      <3>2. CASE c \in UNION {Commands(table.rows[i], "table", i) : i \in DOMAIN table.rows}
        <4>1. PICK i \in DOMAIN table.rows : c \in Commands(table.rows[i], "table", i)
          BY <3>2
        <4> QED
          BY <4>1, CommandsAreCalls
      <3> QED
        BY <2>1, <3>1, <3>2
    <2>3. Keeps(calls, calls')
      BY <1>0, <2>1, <2>2, MoreKeeps
    <2>4. AreViews' /\ table' = table /\ graph' = graph
      BY <1>0, <1>2 DEF TableCommand, AreViews
    <2> QED
      BY <2>3, <2>4, KeepsSpinning
  <1>3. CASE CloseTableDialog
    <2>1. Keeps(calls, calls')
      BY <1>0, <1>3, DialogsClosedKeeps DEF CloseTableDialog
    <2>2. AreViews' /\ table' = table /\ graph' = graph
      BY <1>0, <1>3 DEF CloseTableDialog, AreViews
    <2> QED
      BY <2>1, <2>2, KeepsSpinning
  <1> QED
    BY <1>1, <1>2, <1>3

\* A command of a row is answered; a dialog that succeeds makes the table load.
LEMMA TableCommandEndsKeeps ==
    ASSUME SpinInv, UNCHANGED graph, NEW c \in calls, NEW ok \in BOOLEAN, TableCommandEnds(c, ok)
    PROVE  SpinInv'
  <1>0. /\ \A d \in calls : IsACall(d)
        /\ AreViews
    BY DEF SpinInv
  <1>1. Keeps(calls, calls \ {c})
    BY <1>0, LessKeeps DEF TableCommandEnds, OfTask, IsALoad
  <1> DEFINE reloads == ok /\ ReloadsTable(c)
  <1>2. calls' = (calls \ {c}) \cup (IF reloads THEN {LoadTasks(table.query, "nothing")} ELSE {})
    BY DEF TableCommandEnds
  <1>3. Keeps(calls, calls') /\ (reloads => HasALoad(calls', "table"))
    <2> HIDE DEF reloads
    <2>1. \A d \in (IF reloads THEN {LoadTasks(table.query, "nothing")} ELSE {}) : IsACall(d)
      BY LoadsAreLoads
    <2> QED
      BY <1>1, <1>2, <2>1, MoreKeeps, LoadsAreLoads DEF HasALoad
  <1>4. AreViews' /\ graph' = graph /\ (table'.loading => table.loading \/ reloads)
    <2>1. CASE ok /\ \E i \in DOMAIN table.rows : RowOf(c, i)
      <3>1. PICK i : table' = [table EXCEPT !.rows[i] = Assigned(@, c),
                                            !.loading = @ \/ ReloadsTable(c)]
        BY <2>1, Zenon DEF TableCommandEnds
      <3> QED
        BY <1>0, <2>1, <3>1 DEF AreViews
    <2>2. CASE ~(ok /\ \E i \in DOMAIN table.rows : RowOf(c, i))
      <3>1. table' = [table EXCEPT !.loading = @ \/ reloads]
        BY <2>2 DEF TableCommandEnds
      <3> HIDE DEF reloads
      <3> QED
        BY <1>0, <3>1 DEF AreViews
    <2> QED
      BY <2>1, <2>2
  <1> HIDE DEF reloads
  <1> QED
    BY <1>3, <1>4, KeepsSpinning

\* The dialog of the graph is opened and closed, gives commands, and a period of
\* the throttle ends.
LEMMA GraphAsks ==
    ASSUME SpinInv, GraphStep \/ PeriodEnds
    PROVE  SpinInv'
  <1>0. /\ \A c \in calls : IsACall(c)
        /\ AreViews /\ Keeps(calls, calls)
    BY DEF SpinInv, Keeps
  <1>1. CASE PeriodEnds \/ \E id \in Ids : onNodeClick(id)
    <2>1. calls' = calls /\ table' = table
      BY <1>1 DEF PeriodEnds, onNodeClick, serverVars
    <2>2. AreViews' /\ graph'.loading = graph.loading
      BY <1>0, <1>1, <2>1 DEF PeriodEnds, onNodeClick, AreViews
    <2> QED
      BY <1>0, <2>1, <2>2, KeepsSpinning
  <1>2. CASE CloseDialog
    <2>1. Keeps(calls, calls')
      BY <1>0, <1>2, DialogsClosedKeeps, ButtonsGoneKeeps DEF CloseDialog
    <2>2. AreViews' /\ table' = table /\ graph'.loading = graph.loading
      BY <1>0, <1>2 DEF CloseDialog, AreViews
    <2> QED
      BY <2>1, <2>2, KeepsSpinning
  <1>3. CASE GraphCommand
    <2>1. PICK c \in UNION {Commands(t, "graph", 0) : t \in ShownTasks} :
             calls' = calls \cup
                 {IF c.what \in {"pause", "resume"} THEN [c EXCEPT !.on = graph.selected.on] ELSE c}
      BY <1>3, Zenon DEF GraphCommand
    <2>2. IsACall(c) /\ c.what # "load"
      <3>1. PICK t \in ShownTasks : c \in Commands(t, "graph", 0)
        OBVIOUS
      <3> QED
        BY <3>1, CommandsAreCalls
    <2>3. \A d \in {IF c.what \in {"pause", "resume"} THEN [c EXCEPT !.on = graph.selected.on]
                    ELSE c} : IsACall(d)
      BY <2>2, ChangedCall
    <2>4. Keeps(calls, calls')
      BY <1>0, <2>1, <2>3, MoreKeeps
    <2>5. AreViews' /\ table' = table /\ graph' = graph
      BY <1>0, <1>3 DEF GraphCommand, AreViews
    <2> QED
      BY <2>4, <2>5, KeepsSpinning
  <1> QED
    BY <1>1, <1>2, <1>3 DEF GraphStep

\* A command of the dialog is answered.
LEMMA GraphCommandEndsKeeps ==
    ASSUME SpinInv, UNCHANGED table, NEW c \in calls, NEW ok \in BOOLEAN, GraphCommandEnds(c, ok)
    PROVE  SpinInv'
  <1>0. /\ \A d \in calls : IsACall(d)
        /\ AreViews
    BY DEF SpinInv
  <1>1. Keeps(calls, calls \ {c})
    BY <1>0, LessKeeps DEF GraphCommandEnds, OfTask, IsALoad
  <1> DEFINE reloads == ok /\ ReloadsGraph(c)
  <1>2. calls' = (calls \ {c}) \cup (IF reloads THEN {LoadGraph("nothing")} ELSE {})
    BY DEF GraphCommandEnds
  <1>3. Keeps(calls, calls') /\ (reloads => HasALoad(calls', "graph"))
    <2> HIDE DEF reloads
    <2>1. \A d \in (IF reloads THEN {LoadGraph("nothing")} ELSE {}) : IsACall(d)
      BY LoadsAreLoads
    <2> QED
      BY <1>1, <1>2, <2>1, MoreKeeps, LoadsAreLoads DEF HasALoad
  <1>4. AreViews' /\ table' = table /\ (graph'.loading => graph.loading \/ reloads)
    <2> DEFINE ts == {IF InMap(c) /\ t.id = c.task.id THEN Assigned(t, c) ELSE t : t \in graph.tasks}
               g  == IF Redraws(c) THEN Render(graph, ts) ELSE [graph EXCEPT !.tasks = ts]
    <2>1. graph' = IF ~ok THEN graph ELSE [g EXCEPT !.loading = @ \/ ReloadsGraph(c)]
      BY DEF GraphCommandEnds
    <2> HIDE DEF ts
    <2>2. /\ g \in [ mounted : {graph.mounted}, tasks : {g.tasks}, loading : {graph.loading},
                     loaded : {g.loaded}, drawn : {g.drawn}, render : {g.render},
                     selected : {g.selected} ]
          /\ graph.loading \in BOOLEAN
      BY <1>0 DEF AreViews, Render
    <2> HIDE DEF g
    <2>3. CASE ok
      BY <1>0, <2>1, <2>2, <2>3 DEF AreViews
    <2>4. CASE ~ok
      BY <1>0, <2>1, <2>4 DEF AreViews
    <2> QED
      BY <2>3, <2>4
  <1> HIDE DEF reloads
  <1> QED
    BY <1>3, <1>4, KeepsSpinning

\* A load that ends takes the spinner of its view with it, unless its answer is
\* not shown; it is no load of the other view.
LEMMA EndOfLoad ==
    ASSUME NEW cs, \A d \in cs : IsACall(d), NEW c \in cs, NEW view,
           c.by # view \/ ~c.on, HasALoad(cs, view)
    PROVE  HasALoad(cs \ {c}, view)
  BY DEF HasALoad, IsALoad

\* A load of the table ends, and the button of the group that waited for it goes
\* on to the graph.
LEMMA TableLoadedKeeps ==
    ASSUME SpinInv, NEW c \in calls, NEW ok \in BOOLEAN, TableLoaded(c, ok)
    PROVE  SpinInv'
  <1>0. /\ \A d \in calls : IsACall(d)
        /\ AreViews
        /\ table.loading => HasALoad(calls, "table")
        /\ graph.loading => HasALoad(calls, "graph")
    BY DEF SpinInv
  <1> DEFINE next == IF LoadsGraphNext(c) THEN {LoadGraph(c.then)} ELSE {}
             left == calls \ {c}
             n    == Len(c.answer)
  <1>1. /\ c.by = "table"
        /\ \/ calls' = RowsReplaced(left, n) \cup next
           \/ calls' = left \cup next
    BY Zenon DEF TableLoaded, TableLoadEnds
  <1>2. \A d \in next : IsACall(d) /\ IsALoad(d, "graph")
    BY LoadsAreLoads
  <1>3. LoadsGraphNext(c) => next # {}
    OBVIOUS
  <1>4. /\ AreViews'
        /\ table'.loading => table.loading /\ ~c.on
        /\ graph'.loading => graph.loading \/ LoadsGraphNext(c)
    <2>1. /\ graph' = [graph EXCEPT !.loading = @ \/ LoadsGraphNext(c)]
          /\ \/ table' = [table EXCEPT !.rows = c.answer, !.loaded = TRUE, !.of = c.query,
                                        !.loading = StillLoading(table, c)]
             \/ table' = [table EXCEPT !.loading = StillLoading(table, c)]
      BY Zenon DEF TableLoaded, TableLoadEnds
    <2>2. /\ graph' \in [ mounted  : {graph'.mounted}, tasks : {graph'.tasks}, loading : BOOLEAN,
                          loaded : {graph'.loaded}, drawn : {graph'.drawn},
                          render : {graph'.render}, selected : {graph'.selected} ]
          /\ graph'.loading => graph.loading \/ LoadsGraphNext(c)
          /\ graph'.mounted = graph.mounted
      BY <1>0, <2>1 DEF AreViews
    <2>3. /\ table' \in [ mounted : {table'.mounted}, rows : {table'.rows}, loading : BOOLEAN,
                          query : {table'.query}, loaded : {table'.loaded}, of : {table'.of} ]
          /\ table'.loading => table.loading /\ ~c.on
          /\ table'.mounted = table.mounted
      BY <1>0, <2>1 DEF AreViews, StillLoading
    <2> QED
      BY <1>0, <2>2, <2>3 DEF AreViews
  <1> HIDE DEF next, n
  <1>5. /\ \A d \in calls' : IsACall(d)
        /\ \A view \in Views : HasALoad(left, view) => HasALoad(calls', view)
    <2>1. Keeps(left, RowsReplaced(left, n)) /\ Keeps(left, left)
      BY <1>0, RowsReplacedKeeps DEF Keeps
    <2>2. Keeps(left, calls')
      BY <1>1, <1>2, <2>1, MoreKeeps
    <2> QED
      BY <2>2 DEF Keeps
  <1>6. LoadsGraphNext(c) => HasALoad(calls', "graph")
    BY <1>1, <1>2, <1>3 DEF HasALoad
  <1>7. graph.loading => HasALoad(left, "graph")
    BY <1>0, <1>1, EndOfLoad
  <1>8. table.loading /\ ~c.on => HasALoad(left, "table")
    BY <1>0, EndOfLoad
  <1> HIDE DEF left
  <1> QED
    BY <1>4, <1>5, <1>6, <1>7, <1>8 DEF SpinInv, Views

\* What a rendering leaves alone.
LEMMA RenderShape ==
    ASSUME NEW g,
           g \in [ mounted : {g.mounted}, tasks : {g.tasks}, loading : {g.loading},
                   loaded : {g.loaded}, drawn : {g.drawn}, render : {g.render},
                   selected : {g.selected} ],
           NEW ts, NEW h, h = Render(g, ts)
    PROVE  /\ h \in [ mounted : {h.mounted}, tasks : {h.tasks}, loading : {h.loading},
                      loaded : {h.loaded}, drawn : {h.drawn}, render : {h.render},
                      selected : {h.selected} ]
           /\ h.mounted = g.mounted /\ h.loading = g.loading /\ h.loaded = g.loaded
           /\ h.selected = g.selected /\ h.tasks = ts /\ h.render = Called(g.render)
           /\ h.drawn = IF Leads(g.render) THEN Nodes(ts) ELSE g.drawn
  BY DEF Render

LEMMA LoadedShape ==
    ASSUME NEW g,
           g \in [ mounted : {g.mounted}, tasks : {g.tasks}, loading : {g.loading},
                   loaded : {g.loaded}, drawn : {g.drawn}, render : {g.render},
                   selected : {g.selected} ],
           NEW ts, NEW h, h = Loaded(g, ts)
    PROVE  /\ h \in [ mounted : {h.mounted}, tasks : {h.tasks}, loading : {h.loading},
                      loaded : {h.loaded}, drawn : {h.drawn}, render : {h.render},
                      selected : {h.selected} ]
           /\ h.mounted = g.mounted /\ h.loading = g.loading /\ h.loaded = g.loaded
           /\ h.selected = g.selected
  <1> DEFINE first == Render(g, Put(g.tasks, ts[1]))
             all == {t \in g.tasks : t.id \notin IdsOf(ts)} \cup ToSet(ts)
  <1>1. h \in {g, first, Render(first, all)}
    BY DEF Loaded
  <1>2. first \in [ mounted : {first.mounted}, tasks : {first.tasks}, loading : {first.loading},
                    loaded : {first.loaded}, drawn : {first.drawn}, render : {first.render},
                    selected : {first.selected} ]
        /\ first.mounted = g.mounted /\ first.loading = g.loading /\ first.loaded = g.loaded
        /\ first.selected = g.selected
    <2>1. \A x : x = Render(g, Put(g.tasks, ts[1])) =>
             /\ x \in [ mounted : {x.mounted}, tasks : {x.tasks}, loading : {x.loading},
                        loaded : {x.loaded}, drawn : {x.drawn}, render : {x.render},
                        selected : {x.selected} ]
             /\ x.mounted = g.mounted /\ x.loading = g.loading /\ x.loaded = g.loaded
             /\ x.selected = g.selected
      BY RenderShape
    <2> QED
      BY <2>1, Zenon
  <1> HIDE DEF first, all
  <1> QED
    BY <1>1, <1>2, RenderShape

\* A load of the graph ends.
LEMMA GraphLoadEndsKeeps ==
    ASSUME SpinInv, UNCHANGED table, NEW c \in calls, NEW ok \in BOOLEAN,
           GraphLoadEnds(c, ok, {})
    PROVE  SpinInv'
  <1>0. /\ \A d \in calls : IsACall(d)
        /\ AreViews
        /\ table.loading => HasALoad(calls, "table")
        /\ graph.loading => HasALoad(calls, "graph")
    BY DEF SpinInv
  <1> DEFINE left == calls \ {c}
  <1>1. /\ c.by = "graph"
        /\ \/ calls' = Detached(left, IdsOf(c.answer))
           \/ calls' = left
    <2>1. \A cs : cs \cup {} = cs
      OBVIOUS
    <2> QED
      BY <2>1, Zenon DEF GraphLoadEnds
  <1>2. AreViews' /\ table' = table /\ (graph'.loading => graph.loading /\ ~c.on)
    <2> DEFINE g == Loaded(graph, c.answer)
    <2>1. \/ graph' = [g EXCEPT !.loading = StillLoading(graph, c), !.loaded = TRUE,
                                !.selected.on = @ /\ graph.selected.id \notin IdsOf(c.answer)]
          \/ graph' = [graph EXCEPT !.loading = StillLoading(graph, c)]
      BY Zenon DEF GraphLoadEnds
    <2>2. g \in [ mounted : {graph.mounted}, tasks : {g.tasks}, loading : {graph.loading},
                  loaded : {g.loaded}, drawn : {g.drawn}, render : {g.render},
                  selected : {g.selected} ]
      BY <1>0, LoadedShape DEF AreViews
    <2> HIDE DEF g
    <2> QED
      BY <1>0, <2>1, <2>2 DEF AreViews, StillLoading
  <1>3. Keeps(left, calls')
    BY <1>0, <1>1, DetachedKeeps DEF Keeps
  <1>4. table.loading => HasALoad(left, "table")
    BY <1>0, <1>1, EndOfLoad
  <1>5. graph.loading /\ ~c.on => HasALoad(left, "graph")
    BY <1>0, EndOfLoad
  <1> HIDE DEF left
  <1> QED
    BY <1>2, <1>3, <1>4, <1>5 DEF SpinInv, Keeps, Views

\* A button of the group is pressed, or is answered and the mounted view loads.
LEMMA GroupCommandKeeps ==
    ASSUME SpinInv,
           \/ \E what \in GroupCommands : GroupCommand(what)
           \/ \E c \in calls, ok \in BOOLEAN : GroupCommandEnds(c, ok)
    PROVE  SpinInv'
  <1>0. /\ \A d \in calls : IsACall(d)
        /\ AreViews /\ Keeps(calls, calls)
    BY DEF SpinInv, Keeps
  <1>1. ASSUME NEW what \in GroupCommands, GroupCommand(what)
        PROVE  SpinInv'
    <2>1. Keeps(calls, calls')
      <3>1. IsACall(NewCall(what, "page", All, NoTask))
        BY NewCallIsACall
      <3> QED
        BY <1>0, <1>1, <3>1, MoreKeeps DEF GroupCommand
    <2>2. AreViews' /\ table' = table /\ graph' = graph
      BY <1>0, <1>1 DEF GroupCommand, AreViews
    <2> QED
      BY <2>1, <2>2, KeepsSpinning
  <1>2. ASSUME NEW c \in calls, NEW ok \in BOOLEAN, GroupCommandEnds(c, ok)
        PROVE  SpinInv'
    <2> DEFINE next == IF ok /\ table.mounted THEN {LoadTasks(table.query, c.what)}
                       ELSE IF ok /\ graph.mounted THEN {LoadGraph(c.what)} ELSE {}
    <2>1. /\ c.by = "page" /\ calls' = (calls \ {c}) \cup next
          /\ table' = [table EXCEPT !.loading = @ \/ (ok /\ table.mounted)]
          /\ graph' = [graph EXCEPT !.loading = @ \/ (ok /\ graph.mounted)]
      BY <1>2 DEF GroupCommandEnds
    <2>2. /\ \A d \in next : IsACall(d)
          /\ ok /\ table.mounted => HasALoad(next, "table")
          /\ ok /\ graph.mounted /\ ~table.mounted => HasALoad(next, "graph")
      BY LoadsAreLoads DEF HasALoad
    <2> HIDE DEF next
    <2>3. Keeps(calls, calls')
      BY <1>0, <2>1, <2>2, LessKeeps, MoreKeeps DEF IsALoad, Views
    <2>4. AreViews' /\ (table'.loading => table.loading \/ (ok /\ table.mounted))
                    /\ (graph'.loading => graph.loading \/ (ok /\ graph.mounted))
      BY <1>0, <2>1 DEF AreViews
    <2>5. /\ ok /\ table.mounted => HasALoad(calls', "table")
          /\ ok /\ graph.mounted => HasALoad(calls', "graph")
      BY <1>0, <2>1, <2>2 DEF AreViews, HasALoad
    <2> QED
      BY <2>3, <2>4, <2>5, KeepsSpinning
  <1> QED
    BY <1>1, <1>2

\* The page handles an event.
LEMMA PageReceivesKeeps ==
    ASSUME TypeInv, SpinInv, PageReceives
    PROVE  SpinInv'
  <1>0. /\ \A d \in calls : IsACall(d)
        /\ AreViews /\ Keeps(calls, calls)
    BY DEF SpinInv, Keeps
  <1>1. ASSUME NEW e, TableReceives(e), UNCHANGED graph
        PROVE  SpinInv'
    <2> DEFINE k  == IF e.type = "delete" THEN FirstRow(table.rows, e.task.id) ELSE 0
               n  == Len(RowsAfter(e))
               cs == IF k = 0 THEN calls ELSE RowRemoved(calls, k, n)
    <2>1. calls' = WithNews(cs, {e.task.id}, e.at)
      BY <1>1 DEF TableReceives
    <2>2. Keeps(calls, cs)
      <3>1. n \in Nat
        <4>1. e \in Event
          BY <1>1, HeadIs DEF TableReceives, Receive
        <4>2. RowsAfter(e) \in Seq(Task)
          BY <4>1, RowsAfterIs
        <4> QED
          BY <4>2
      <3> HIDE DEF k, n
      <3> QED
        BY <1>0, <3>1, RowRemovedKeeps DEF Keeps
    <2> HIDE DEF cs
    <2>3. Keeps(cs, calls')
      BY <2>1, <2>2, NewsKeeps DEF Keeps
    <2>4. Keeps(calls, calls')
      BY <2>2, <2>3, KeepsIsTransitive
    <2>5. AreViews' /\ table'.loading = table.loading /\ graph' = graph
      BY <1>0, <1>1 DEF TableReceives, AreViews
    <2> QED
      BY <2>4, <2>5, KeepsSpinning
  <1>2. ASSUME NEW e, GraphReceives(e)
        PROVE  SpinInv'
    <2> DEFINE cs == IF e.type = "update" THEN calls ELSE Detached(calls, {e.task.id})
    <2>1. calls' = WithNews(cs, {e.task.id}, e.at)
      BY <1>2 DEF GraphReceives
    <2>2. Keeps(calls, cs)
      BY <1>0, DetachedKeeps
    <2> HIDE DEF cs
    <2>3. Keeps(cs, calls')
      BY <2>1, <2>2, NewsKeeps DEF Keeps
    <2>4. Keeps(calls, calls')
      BY <2>2, <2>3, KeepsIsTransitive
    <2>5. AreViews' /\ table' = table /\ graph'.loading = graph.loading
      <3> DEFINE ts == MapAfter(e)
                 g  == Render(graph, ts)
      <3>1. /\ table' = table
            /\ \/ graph' = graph
               \/ graph' = [g EXCEPT !.selected.on =
                                 @ /\ (e.type = "update" \/ graph.selected.id # e.task.id)]
        BY <1>2 DEF GraphReceives
      <3> HIDE DEF ts
      <3>2. g \in [ mounted : {graph.mounted}, tasks : {g.tasks}, loading : {graph.loading},
                    loaded : {g.loaded}, drawn : {g.drawn}, render : {g.render},
                    selected : {g.selected} ]
        BY <1>0 DEF AreViews, Render
      <3> HIDE DEF g
      <3> QED
        BY <1>0, <3>1, <3>2 DEF AreViews
    <2> QED
      BY <2>4, <2>5, KeepsSpinning
  <1>3. CASE UNCHANGED <<calls, table, graph>>
    <2>1. AreViews' /\ calls' = calls /\ table' = table /\ graph' = graph
      BY <1>0, <1>3 DEF AreViews
    <2> QED
      BY <1>0, <2>1, KeepsSpinning
  <1> QED
    BY <1>1, <1>2, <1>3 DEF PageReceives

\* Another panel is mounted and loads.
LEMMA OpenTabKeeps ==
    ASSUME SpinInv, NEW tab \in Tabs, OpenTab(tab)
    PROVE  SpinInv'
  <1>0. \A d \in calls : IsACall(d)
    BY DEF SpinInv
  <1> DEFINE Off(d) == IF d.by = "page" THEN d ELSE [d EXCEPT !.on = FALSE]
             left   == {c \in {Off(d) : d \in calls} : Matters(c)}
  <1>1. PICK q \in Queries :
           /\ table' = IF tab = "tasks" THEN TableMounted(q) ELSE Unmounted
           /\ calls' = left \cup (CASE tab = "tasks"    -> {LoadTasks(q, "nothing")}
                                    [] tab = "graph"    -> {LoadGraph("nothing")}
                                    [] tab = "settings" -> {})
    BY DEF OpenTab
  <1>2. graph' = IF tab = "graph" THEN GraphMounted ELSE GraphUnmounted
    BY DEF OpenTab
  <1>3. \A d \in left : IsACall(d)
    <2>1. \A d \in calls : IsACall(Off(d))
      BY <1>0, ChangedCall
    <2> HIDE DEF Off
    <2> QED
      BY <2>1
  <1> HIDE DEF left
  <1>4. tab \in {"tasks", "graph", "settings"}
    BY ViewsAssumption
  <1>5. CASE tab = "tasks"
    <2>1. calls' = left \cup {LoadTasks(q, "nothing")}
      BY <1>1, <1>5
    <2>2. AreViews' /\ ~graph'.loading
      BY <1>1, <1>2, <1>5 DEF AreViews, TableMounted, Unmounted, GraphUnmounted
    <2> QED
      BY <1>3, <2>1, <2>2, LoadsAreLoads DEF SpinInv, HasALoad
  <1>6. CASE tab = "graph"
    <2>1. calls' = left \cup {LoadGraph("nothing")}
      BY <1>1, <1>6
    <2>2. AreViews' /\ ~table'.loading
      BY <1>1, <1>2, <1>6 DEF AreViews, Unmounted, GraphMounted, GraphUnmounted
    <2> QED
      BY <1>3, <2>1, <2>2, LoadsAreLoads DEF SpinInv, HasALoad
  <1>7. CASE tab = "settings"
    <2>1. calls' = left
      BY <1>1, <1>7
    <2>2. AreViews' /\ ~table'.loading /\ ~graph'.loading
      BY <1>1, <1>2, <1>7 DEF AreViews, Unmounted, GraphUnmounted
    <2> QED
      BY <1>3, <2>1, <2>2 DEF SpinInv
  <1> QED
    BY <1>4, <1>5, <1>6, <1>7

-----------------------------------------------------------------------------

\* The invariant of the spinners holds at first and after every step.
LEMMA InitSpins == Init => SpinInv
  BY DEF Init, SpinInv, AreViews, Unmounted, GraphUnmounted

LEMMA NextSpins ==
    ASSUME TypeInv, SpinInv, [Next]_vars
    PROVE  SpinInv'
  <1>1. CASE UNCHANGED vars
    BY <1>1 DEF vars, SpinInv, AreViews, HasALoad, IsALoad, IsACall
  <1>2. CASE Next
    <2>1. CASE TableStep /\ UNCHANGED graph
      BY <2>1, TableAsks, TableCommandEndsKeeps DEF TableStep
    <2>2. CASE Answered
      BY <2>2, TableLoadedKeeps, GraphLoadEndsKeeps, GraphCommandEndsKeeps, GroupCommandKeeps
         DEF Answered
    <2> QED
      BY <1>2, <2>1, <2>2, ServerStepKeeps, GraphAsks, PageReceivesKeeps, OpenTabKeeps,
         GroupCommandKeeps DEF Next
  <1> QED
    BY <1>1, <1>2

\* A view that shows it is loading has a load in flight whose answer it will show, so
\* the spinner stops when the calls have ended, in whatever order they are answered.
THEOREM SpinnersHaveLoads == Spec => []SpinnerHasALoad
  <1>1. SpinInv => SpinnerHasALoad
    BY DEF SpinInv, SpinnerHasALoad, HasALoad, IsALoad
  <1> QED
    BY <1>1, InitSpins, InitTypes, NextSpins, NextTypes, PTL DEF Spec

-----------------------------------------------------------------------------
(* Drawings.                                                               *)

Owes(g) == g.drawn # Nodes(g.tasks) => g.render = "pending"

\* A render draws at once or owes it.
LEMMA RenderOwes ==
    ASSUME NEW g \in GraphRecord, NEW ts, NEW h, h = Render(g, ts)
    PROVE  Owes(h)
  <1>1. h.tasks = ts /\ h.render = Called(g.render)
        /\ h.drawn = IF Leads(g.render) THEN Nodes(ts) ELSE g.drawn
    BY DEF Render, GraphRecord
  <1> QED
    BY <1>1 DEF Owes, Called, Leads

LEMMA LoadedOwes ==
    ASSUME NEW g \in GraphRecord, OnePerId(g.tasks), Owes(g), NEW ts \in Seq(Task), Distinct(ts),
           NEW h, h = Loaded(g, ts)
    PROVE  h \in GraphRecord /\ Owes(h)
  <1>1. h \in GraphRecord
    BY LoadedIs
  <1>2. CASE Len(ts) = 0
    BY <1>2 DEF Loaded
  <1>3. CASE Len(ts) # 0
    <2>1. PICK put, all, first : /\ put = Put(g.tasks, ts[1])
                                 /\ all = {t \in g.tasks : t.id \notin IdsOf(ts)} \cup ToSet(ts)
                                 /\ first = Render(g, put)
      OBVIOUS
    <2>2. h = first \/ h = Render(first, all)
      BY <1>3, <2>1 DEF Loaded
    <2>3. put \in SUBSET Task
      <3>1. ts[1] \in Task /\ g.tasks \in SUBSET Task
        BY <1>3, Elements DEF GraphRecord
      <3> QED
        BY <2>1, <3>1, PutIs
    <2>4. first \in GraphRecord
      BY <2>1, <2>3, RenderIs
    <2>5. PICK last : last = Render(first, all)
      OBVIOUS
    <2>6. Owes(last)
      BY <2>4, <2>5, RenderOwes
    <2>7. Owes(first)
      BY <2>1, RenderOwes
    <2> QED
      BY <1>1, <2>2, <2>5, <2>6, <2>7
  <1> QED
    BY <1>1, <1>2, <1>3

\* The drawing after the steps that call the throttle.
LEMMA DrawingSteps ==
    ASSUME TypeInv, DrawingIsOwed,
           \/ \E c \in calls, ok \in BOOLEAN : GraphLoadEnds(c, ok, {}) \/ GraphCommandEnds(c, ok)
           \/ \E e : GraphReceives(e)
           \/ PeriodEnds
    PROVE  DrawingIsOwed'
  <1>0. graph \in GraphRecord /\ OnePerId(graph.tasks) /\ Owes(graph)
    BY Known DEF ViewsInv, DrawingIsOwed, Owes
  <1> SUFFICES Owes(graph')
    BY DEF DrawingIsOwed, Owes
  <1>1. ASSUME NEW c \in calls, NEW ok \in BOOLEAN, GraphLoadEnds(c, ok, {})
        PROVE  Owes(graph')
    <2>1. PICK g : g = Loaded(graph, c.answer)
      OBVIOUS
    <2>2. \/ graph' = [g EXCEPT !.loading = StillLoading(graph, c), !.loaded = TRUE,
                                !.selected.on = @ /\ graph.selected.id \notin IdsOf(c.answer)]
          \/ graph' = [graph EXCEPT !.loading = StillLoading(graph, c)]
      BY <1>1, <2>1, Zenon DEF GraphLoadEnds
    <2>3. c.answer \in Seq(Task) /\ Distinct(c.answer)
      BY Known DEF Call, CallShape
    <2>4. g \in GraphRecord /\ Owes(g)
      BY <1>0, <2>1, <2>3, LoadedOwes
    <2> QED
      BY <1>0, <2>2, <2>4 DEF GraphRecord, Owes
  <1>2. ASSUME NEW c \in calls, NEW ok \in BOOLEAN, GraphCommandEnds(c, ok)
        PROVE  Owes(graph')
    <2>1. PICK ts, g : /\ ts = MapGiven(graph.tasks, c)
                       /\ g = IF Redraws(c) THEN Render(graph, ts) ELSE [graph EXCEPT !.tasks = ts]
      OBVIOUS
    <2>2. graph' = IF ~ok THEN graph ELSE [g EXCEPT !.loading = @ \/ ReloadsGraph(c)]
      BY <1>2, <2>1, Zenon DEF GraphCommandEnds, MapGiven
    <2>3. g.drawn # Nodes(g.tasks) => g.render = "pending"
      <3>1. CASE Redraws(c)
        BY <1>0, <2>1, <3>1, RenderOwes DEF Owes
      <3>2. CASE ~Redraws(c)
        <4>1. InMap(c) => c.what # "reset"
          BY <3>2 DEF InMap, Redraws
        <4>2. \A t \in graph.tasks : (IF InMap(c) /\ t.id = c.task.id THEN Assigned(t, c) ELSE t).id = t.id
          <5> TAKE t \in graph.tasks
          <5>1. t \in Task
            BY <1>0 DEF GraphRecord
          <5> QED
            BY <4>1, <5>1 DEF Assigned, Task
        <4>3. Nodes(ts) = Nodes(graph.tasks)
          BY <2>1, <4>2 DEF Nodes, MapGiven
        <4>4. g.tasks = ts /\ g.drawn = graph.drawn /\ g.render = graph.render
          BY <1>0, <2>1, <3>2 DEF GraphRecord
        <4> QED
          BY <1>0, <4>3, <4>4 DEF Owes
      <3> QED
        BY <3>1, <3>2
    <2>4. ok => graph'.drawn = g.drawn /\ graph'.tasks = g.tasks /\ graph'.render = g.render
      <3>1. {"drawn", "tasks", "render"} \subseteq DOMAIN g
        BY <1>0, <2>1 DEF Render, GraphRecord
      <3> QED
        BY <2>2, <3>1
    <2> QED
      BY <1>0, <2>2, <2>3, <2>4 DEF Owes
  <1>3. ASSUME NEW e, GraphReceives(e)
        PROVE  Owes(graph')
    <2>1. PICK ts, g : ts = MapAfter(e) /\ g = Render(graph, ts)
      OBVIOUS
    <2>2. graph' = IF Throws(e) THEN graph
                   ELSE [g EXCEPT !.selected.on =
                             @ /\ (e.type = "update" \/ graph.selected.id # e.task.id)]
      BY <1>3, <2>1, Zenon DEF GraphReceives
    <2>3. Owes(g)
      BY <1>0, <2>1, RenderOwes
    <2>4. ~Throws(e) => graph'.drawn = g.drawn /\ graph'.tasks = g.tasks /\ graph'.render = g.render
      <3>1. {"drawn", "tasks", "render"} \subseteq DOMAIN g
        BY <1>0, <2>1 DEF Render, GraphRecord
      <3> QED
        BY <2>2, <3>1
    <2> QED
      BY <1>0, <2>2, <2>3, <2>4 DEF Owes
  <1>4. ASSUME PeriodEnds
        PROVE  Owes(graph')
    <2>1. graph' = [graph EXCEPT !.drawn = IF Trails(graph.render) THEN Nodes(graph.tasks) ELSE @,
                                 !.render = Expired(@)]
      BY <1>4 DEF PeriodEnds
    <2>2. /\ graph'.tasks = graph.tasks
          /\ graph'.drawn = IF Trails(graph.render) THEN Nodes(graph.tasks) ELSE graph.drawn
      BY <1>0, <2>1 DEF GraphRecord
    <2> QED
      BY <1>0, <2>2 DEF Owes, Trails
  <1> QED
    BY <1>1, <1>2, <1>3, <1>4

LEMMA NextOwes == ASSUME TypeInv, DrawingIsOwed, [Next]_vars PROVE DrawingIsOwed'
  <1>0. graph \in GraphRecord
    BY Known
  <1>1. CASE UNCHANGED graph
    BY <1>1 DEF DrawingIsOwed
  <1>2. CASE UNCHANGED <<graph.drawn, graph.tasks, graph.render>>
    BY <1>2 DEF DrawingIsOwed
  <1>3. CASE ServerStep /\ UNCHANGED <<table, graph>>
    BY <1>1, <1>3
  <1>4. CASE TableStep /\ UNCHANGED graph
    BY <1>1, <1>4
  <1>5. CASE GraphStep
    <2>1. CASE \E id \in Ids : onNodeClick(id)
      BY <1>0, <1>2, <2>1 DEF onNodeClick, GraphRecord
    <2>2. CASE CloseDialog
      BY <1>0, <1>1, <1>2, <2>2 DEF CloseDialog, GraphRecord
    <2>3. CASE GraphCommand
      BY <1>1, <2>3 DEF GraphCommand
    <2> QED
      BY <1>5, <2>1, <2>2, <2>3 DEF GraphStep
  <1>6. CASE Answered
    <2>1. ASSUME NEW c \in calls, NEW ok \in BOOLEAN, TableLoaded(c, ok) \/ GroupCommandEnds(c, ok)
          PROVE  DrawingIsOwed'
      <3>1. \E b : graph' = [graph EXCEPT !.loading = @ \/ b]
        BY <2>1, Zenon DEF TableLoaded, GroupCommandEnds
      <3> QED
        BY <1>0, <1>2, <3>1 DEF GraphRecord
    <2> QED
      BY <1>6, <2>1, DrawingSteps DEF Answered
  <1>7. CASE PageReceives
    <2>1. \/ UNCHANGED graph
          \/ \E e : GraphReceives(e)
      BY <1>7, Zenon DEF PageReceives
    <2> QED
      BY <1>1, <2>1, DrawingSteps
  <1>8. CASE \E tab \in Tabs : OpenTab(tab)
    <2>1. graph' \in {GraphMounted, GraphUnmounted}
      BY <1>8 DEF OpenTab
    <2>2. /\ GraphMounted.tasks = {} /\ GraphMounted.drawn = {}
          /\ GraphUnmounted.tasks = {} /\ GraphUnmounted.drawn = {}
      BY DEF GraphMounted, GraphUnmounted
    <2>3. Nodes({}) = {}
      BY DEF Nodes
    <2> QED
      BY <2>1, <2>2, <2>3 DEF DrawingIsOwed
  <1>9. CASE \E what \in GroupCommands : GroupCommand(what)
    BY <1>1, <1>9 DEF GroupCommand
  <1>10. CASE UNCHANGED vars
    BY <1>1, <1>10 DEF vars
  <1> QED
    BY <1>3, <1>4, <1>5, <1>6, <1>7, <1>8, <1>9, <1>10, DrawingSteps DEF Next

\* What is drawn differs from the map only while the throttle owes a drawing, for any tasks,
\* events, answers and loads.
THEOREM ViewsDrawingIsOwed == Spec => []DrawingIsOwed
  <1>1. Init => DrawingIsOwed
    BY DEF Init, DrawingIsOwed, GraphUnmounted, Nodes
  <1> QED
    BY <1>1, InitTypes, NextTypes, NextOwes, PTL DEF Spec

-----------------------------------------------------------------------------
(* The invariant of lists that follow.                                     *)

\* The events of task id on wire w.
About(w, id) == {i \in DOMAIN w : w[i].task.id = id}

\* Is there an event among these after which a list has the task, or has it not, whatever it
\* had before?  An update is only shown by a list that has the task.
Renewed(w, is) == \E i \in is : w[i].type # "update"

\* The last event of a task on the wire tells what the server has of it.
LastMatches(w, ss, id) ==
    \A i \in About(w, id) :
        (\A j \in About(w, id) : j <= i)
            => Of(ss, id) = IF w[i].type = "delete" THEN {} ELSE {w[i].task}

\* A task that was deleted has no update before it is created again.
Chained(w, id) ==
    \A i \in About(w, id) :
        w[i].type = "delete" /\ (\E j \in About(w, id) : j > i)
            => \E j \in About(w, id) : j > i /\ w[j].type # "update"

\* The events of task id that the handler of call c has not seen.
Later(w, c, id) == {i \in About(w, id) : w[i].at > c.at}

\* The answer of call c, shown when the events that it has not seen are still to come, will
\* be made good by them: by a creation or a deletion; by an update, if the answer has the task
\* (or need not have it); or there are none, and the answer is what the server has.
Snapshot(w, ss, c, id) ==
    IF c.what = "load"
    THEN \/ Renewed(w, Later(w, c, id))
         \/ Later(w, c, id) # {} /\ (id \in IdsOf(c.answer) \/ c.query # All)
         \/ /\ Later(w, c, id) = {}
            /\ \/ Of(ToSet(c.answer), id) = Of(ss, id)
               \/ c.query # All /\ id \notin IdsOf(c.answer)
    ELSE Later(w, c, id) = {} /\ c.task.id = id => \A t \in Of(ss, id) : Assigned(t, c) = t

\* The events on the wire will make list ts show task id as the server has it, or not at all
\* if the list is partial.
Follows(w, ss, ts, partial, id) ==
    \/ Renewed(w, About(w, id))
    \/ About(w, id) # {} /\ (Of(ts, id) # {} \/ partial)
    \/ /\ About(w, id) = {}
       /\ \/ Of(ts, id) = Of(ss, id)
          \/ partial /\ Of(ts, id) = {}

WireInv == \A id \in Ids \ doubt : LastMatches(wire, ToSet(stored), id) /\ Chained(wire, id)

SnapshotsInv ==
    \A c \in calls : c.served /\ c.on /\ Shows(c)
        => \A id \in Ids \ c.news : Snapshot(wire, ToSet(stored), c, id)

TableInv ==
    table.loaded => \A id \in Ids \ doubt :
                       Follows(wire, ToSet(stored), ToSet(table.rows), table.of # All, id)

GraphInv ==
    graph.mounted => \A id \in Ids \ doubt :
                        Follows(wire, ToSet(stored), graph.tasks, ~graph.loaded, id)

\* The inductive invariant.
FollowInv == TypeInv /\ WireInv /\ SnapshotsInv /\ RowsAreKeyed /\ TableInv /\ GraphInv

-----------------------------------------------------------------------------
(* Lists that follow, whatever the state.                                  *)

\* The events of a task on a wire, of which one is the last.
LEMMA AboutShape ==
    ASSUME NEW w \in Seq(Event), NEW id
    PROVE  /\ Len(w) \in Nat /\ DOMAIN w = 1 .. Len(w)
           /\ \A i \in About(w, id) : /\ i \in 1 .. Len(w) /\ i \in Nat
                                      /\ w[i] \in Event /\ w[i].task.id = id
                                      /\ w[i].at \in Nat
           /\ About(w, id) # {} => \E i \in About(w, id) : \A j \in About(w, id) : j <= i
  <1>1. Len(w) \in Nat /\ DOMAIN w = 1 .. Len(w)
    OBVIOUS
  <1>2. \A i \in About(w, id) : i \in 1 .. Len(w) /\ i \in Nat /\ w[i] \in Event /\ w[i].task.id = id
    BY <1>1 DEF About
  <1>3. About(w, id) \in SUBSET (1 .. Len(w))
    BY <1>2
  <1>4. About(w, id) # {} => \E i \in About(w, id) : \A j \in About(w, id) : j <= i
    BY <1>1, <1>3, FirstAndLast
  <1> QED
    BY <1>1, <1>2, <1>4, EventShape

\* The events v are those of w but for the first.
Shifted(w, v) ==
    \A id :
        /\ \A i \in About(v, id) : i \in Nat /\ i > 0 /\ i + 1 \in About(w, id) /\ v[i] = w[i + 1]
        /\ \A j \in About(w, id) : j # 1 => /\ j - 1 \in About(v, id) /\ v[j - 1] = w[j]
                                            /\ j > 1 /\ j \in Nat
        /\ 1 \in About(w, id) <=> w[1].task.id = id

\* The page handles the first event.
LEMMA AboutTail ==
    ASSUME NEW w \in Seq(Event), w # <<>>, NEW v, v = Tail(w)
    PROVE  Shifted(w, v)
  <1> SUFFICES ASSUME NEW id
    PROVE  /\ \A i \in About(v, id) : i \in Nat /\ i > 0 /\ i + 1 \in About(w, id) /\ v[i] = w[i + 1]
           /\ \A j \in About(w, id) : j # 1 => /\ j - 1 \in About(v, id) /\ v[j - 1] = w[j]
                                               /\ j > 1 /\ j \in Nat
           /\ 1 \in About(w, id) <=> w[1].task.id = id
    BY DEF Shifted
  <1>1. /\ v \in Seq(Event) /\ Len(v) = Len(w) - 1 /\ Len(w) \in Nat /\ Len(w) >= 1
        /\ DOMAIN w = 1 .. Len(w) /\ DOMAIN v = 1 .. (Len(w) - 1)
        /\ \A i \in 1 .. (Len(w) - 1) : v[i] = w[i + 1]
    BY HeadTailProperties
  <1>2. \A i \in About(v, id) : i \in Nat /\ i > 0 /\ i + 1 \in About(w, id) /\ v[i] = w[i + 1]
    BY <1>1 DEF About
  <1>3. \A j \in About(w, id) : j # 1 => /\ j - 1 \in About(v, id) /\ v[j - 1] = w[j]
                                         /\ j > 1 /\ j \in Nat
    <2> TAKE j \in About(w, id)
    <2> HAVE j # 1
    <2>1. j \in 1 .. Len(w) /\ w[j].task.id = id
      BY <1>1 DEF About
    <2>2. j - 1 \in 1 .. (Len(w) - 1) /\ (j - 1) + 1 = j
      BY <1>1, <2>1
    <2>3. v[j - 1] = w[j]
      BY <1>1, <2>2
    <2> QED
      BY <1>1, <2>1, <2>2, <2>3 DEF About
  <1>4. 1 \in About(w, id) <=> w[1].task.id = id
    BY <1>1 DEF About
  <1> QED
    BY <1>2, <1>3, <1>4

\* Without its first event a wire still ends in what the server has.
LEMMA TailMatches ==
    ASSUME NEW w, NEW v, Shifted(w, v), NEW ss, NEW id,
           LastMatches(w, ss, id), Chained(w, id)
    PROVE  LastMatches(v, ss, id) /\ Chained(v, id)
  <1>1. LastMatches(v, ss, id)
    <2> SUFFICES ASSUME NEW i \in About(v, id), \A j \in About(v, id) : j <= i
                 PROVE  Of(ss, id) = IF v[i].type = "delete" THEN {} ELSE {v[i].task}
      BY DEF LastMatches
    <2>1. i \in Nat /\ i + 1 \in About(w, id) /\ v[i] = w[i + 1]
      BY DEF Shifted
    <2>2. \A j \in About(w, id) : j <= i + 1
      <3> TAKE j \in About(w, id)
      <3>1. CASE j = 1
        BY <2>1, <3>1
      <3>2. CASE j # 1
        <4>1. j - 1 \in About(v, id) /\ j \in Nat
          BY <3>2 DEF Shifted
        <4> QED
          BY <2>1, <4>1
      <3> QED
        BY <3>1, <3>2
    <2> QED
      BY <2>1, <2>2 DEF LastMatches
  <1>2. Chained(v, id)
    <2> SUFFICES ASSUME NEW i \in About(v, id), v[i].type = "delete",
                        NEW k \in About(v, id), k > i
                 PROVE  \E j \in About(v, id) : j > i /\ v[j].type # "update"
      BY DEF Chained
    <2>1. i \in Nat /\ i + 1 \in About(w, id) /\ v[i] = w[i + 1]
      BY DEF Shifted
    <2>2. k \in Nat /\ k + 1 \in About(w, id) /\ k + 1 > i + 1
      BY <2>1 DEF Shifted
    <2>3. PICK j \in About(w, id) : j > i + 1 /\ w[j].type # "update"
      BY <2>1, <2>2 DEF Chained
    <2>4. j # 1 \/ i + 1 < 1
      BY <2>3
    <2>5. j # 1
      BY <2>1, <2>4
    <2>6. j - 1 \in About(v, id) /\ v[j - 1] = w[j] /\ j \in Nat
      BY <2>5 DEF Shifted
    <2> QED
      BY <2>1, <2>3, <2>6
  <1> QED
    BY <1>1, <1>2

\* A snapshot is as good as it was when the first event of the wire is of another task or was
\* in the snapshot.
LEMMA TailSnapshot ==
    ASSUME NEW w, NEW v, Shifted(w, v), NEW ss, NEW id, NEW c,
           Snapshot(w, ss, c, id), ~(w[1].task.id = id /\ w[1].at > c.at)
    PROVE  Snapshot(v, ss, c, id)
  <1>1. \A i \in Later(v, c, id) : i + 1 \in Later(w, c, id) /\ v[i] = w[i + 1]
    BY DEF Shifted, Later
  <1>2. \A j \in Later(w, c, id) : j - 1 \in Later(v, c, id) /\ v[j - 1] = w[j]
    BY DEF Shifted, Later
  <1>3. Renewed(w, Later(w, c, id)) => Renewed(v, Later(v, c, id))
    BY <1>2 DEF Renewed
  <1>4. Later(v, c, id) = {} <=> Later(w, c, id) = {}
    BY <1>1, <1>2
  <1> QED
    BY <1>3, <1>4 DEF Snapshot

\* The rows or the map ts, when the first event is handled, are us.
LEMMA TailFollows ==
    ASSUME NEW w, NEW v, Shifted(w, v), NEW ss, NEW id,
           LastMatches(w, ss, id), Chained(w, id),
           NEW ts, NEW us, NEW partial \in BOOLEAN, Follows(w, ss, ts, partial, id),
           NEW e, e = w[1],
           e.task.id # id => Of(us, id) = Of(ts, id),
           e.task.id = id => \/ e.type = "delete" /\ Of(us, id) = {}
                             \/ e.type # "delete" /\ Of(us, id) = {e.task}
                             \/ e.type = "update" /\ Of(ts, id) = {} /\ Of(us, id) = {}
    PROVE  Follows(v, ss, us, partial, id)
  <1>1. CASE e.task.id # id
    <2>1. 1 \notin About(w, id)
      BY <1>1 DEF Shifted
    <2>2. Renewed(w, About(w, id)) => Renewed(v, About(v, id))
      BY <2>1 DEF Shifted, Renewed
    <2>3. About(v, id) = {} <=> About(w, id) = {}
      BY <2>1 DEF Shifted
    <2> QED
      BY <1>1, <2>2, <2>3 DEF Follows
  <1>2. CASE e.task.id = id
    <2>1. 1 \in About(w, id)
      BY <1>2 DEF Shifted
    <2>2. CASE About(v, id) = {}
      <3>1. \A j \in About(w, id) : j = 1
        BY <2>2 DEF Shifted
      <3>2. Of(ss, id) = IF e.type = "delete" THEN {} ELSE {e.task}
        BY <2>1, <3>1 DEF LastMatches
      <3>3. CASE Of(us, id) = Of(ss, id)
        BY <2>2, <3>3 DEF Follows
      <3>4. CASE e.type = "update" /\ Of(ts, id) = {} /\ Of(us, id) = {}
        <4>1. ~Renewed(w, About(w, id))
          BY <3>1, <3>4 DEF Renewed
        <4>2. partial
          BY <2>1, <3>4, <4>1 DEF Follows
        <4> QED
          BY <2>2, <3>4, <4>2 DEF Follows
      <3> QED
        BY <1>2, <3>2, <3>3, <3>4
    <2>3. CASE About(v, id) # {}
      <3>1. CASE e.type = "delete"
        <4>1. PICK i \in About(v, id) : TRUE
          BY <2>3
        <4>2. i + 1 \in About(w, id) /\ i + 1 > 1
          BY DEF Shifted
        <4>3. PICK j \in About(w, id) : j > 1 /\ w[j].type # "update"
          BY <2>1, <3>1, <4>2 DEF Chained
        <4>4. j # 1
          BY <4>3
        <4>5. j - 1 \in About(v, id) /\ v[j - 1] = w[j]
          BY <4>4 DEF Shifted
        <4> QED
          BY <4>3, <4>5 DEF Follows, Renewed
      <3>2. CASE e.type # "delete" /\ Of(us, id) # {}
        BY <2>3, <3>2 DEF Follows
      <3>3. CASE e.type = "update" /\ Of(ts, id) = {} /\ Of(us, id) = {}
        <4>1. CASE Renewed(w, About(w, id))
          <5>1. PICK j \in About(w, id) : w[j].type # "update"
            BY <4>1 DEF Renewed
          <5>2. j # 1
            BY <3>3, <5>1
          <5>3. j - 1 \in About(v, id) /\ v[j - 1] = w[j]
            BY <5>2 DEF Shifted
          <5> QED
            BY <5>1, <5>3 DEF Follows, Renewed
        <4>2. CASE ~Renewed(w, About(w, id))
          <5>1. partial
            BY <2>1, <3>3, <4>2 DEF Follows
          <5> QED
            BY <2>3, <5>1 DEF Follows
        <4> QED
          BY <4>1, <4>2
      <3> QED
        BY <1>2, <3>1, <3>2, <3>3
    <2> QED
      BY <2>2, <2>3
  <1> QED
    BY <1>1, <1>2

\* The same events of task id are in w and in v.
AsBefore(w, v, id) == About(v, id) = About(w, id) /\ \A i \in About(w, id) : v[i] = w[i]

\* One more event of task id, e, is in v, after those that are in w.
OneMore(w, v, id, e) ==
    \E p \in Nat :
        /\ About(v, id) = About(w, id) \cup {p} /\ v[p] = e
        /\ \A i \in About(w, id) : i \in Nat /\ i < p /\ v[i] = w[i]

\* The first n of the events es are appended to w.
LEMMA AboutMore ==
    ASSUME NEW w \in Seq(Event), NEW es \in Seq(Event), NEW n \in 0 .. Len(es), NEW v \in Seq(Event),
           Len(v) = Len(w) + n,
           \A i \in DOMAIN w : v[i] = w[i],
           \A i \in 1 .. n : v[Len(w) + i] = es[i],
           \A i, j \in DOMAIN es : es[i].task.id = es[j].task.id => i = j
    PROVE  /\ \A id : (\A i \in 1 .. n : es[i].task.id # id) => AsBefore(w, v, id)
           /\ \A k \in 1 .. n : OneMore(w, v, es[k].task.id, es[k])
  <1>1. /\ Len(w) \in Nat /\ DOMAIN w = 1 .. Len(w) /\ Len(es) \in Nat /\ DOMAIN es = 1 .. Len(es)
        /\ n \in Nat /\ DOMAIN v = 1 .. (Len(w) + n)
    OBVIOUS
  <1>2. \A id : \A i \in About(w, id) : i \in Nat /\ i <= Len(w) /\ i \in About(v, id) /\ v[i] = w[i]
    BY <1>1 DEF About
  <1>3. \A id : \A i \in About(v, id) :
           \/ i \in About(w, id)
           \/ \E k \in 1 .. n : i = Len(w) + k /\ es[k].task.id = id
    <2> TAKE id
    <2> TAKE i \in About(v, id)
    <2>1. i \in 1 .. (Len(w) + n) /\ v[i].task.id = id
      BY <1>1 DEF About
    <2>2. CASE i <= Len(w)
      BY <1>1, <2>1, <2>2 DEF About
    <2>3. CASE ~(i <= Len(w))
      <3>1. i - Len(w) \in 1 .. n /\ Len(w) + (i - Len(w)) = i
        BY <1>1, <2>1, <2>3
      <3> QED
        BY <2>1, <3>1
    <2> QED
      BY <2>2, <2>3
  <1>4. ASSUME NEW id, \A i \in 1 .. n : es[i].task.id # id
        PROVE  AsBefore(w, v, id)
    BY <1>2, <1>3, <1>4 DEF AsBefore
  <1>5. ASSUME NEW k \in 1 .. n
        PROVE  OneMore(w, v, es[k].task.id, es[k])
    <2>0. PICK p, id : p = Len(w) + k /\ id = es[k].task.id
      OBVIOUS
    <2>1. p \in Nat /\ v[p] = es[k] /\ p \in 1 .. (Len(w) + n) /\ k \in DOMAIN es /\ p > Len(w)
      BY <1>1, <2>0
    <2>2. p \in About(v, id)
      BY <1>1, <2>0, <2>1 DEF About
    <2>3. \A j \in 1 .. n : es[j].task.id = id => j = k
      <3> TAKE j \in 1 .. n
      <3>1. j \in DOMAIN es
        BY <1>1
      <3> QED
        BY <2>0, <2>1, <3>1
    <2>4. \A i \in About(v, id) : i \in About(w, id) \/ i = p
      <3> TAKE i \in About(v, id)
      <3>1. i \in About(w, id) \/ \E j \in 1 .. n : i = Len(w) + j /\ es[j].task.id = id
        BY <1>3
      <3> QED
        BY <2>0, <2>3, <3>1
    <2>5. \A i \in About(w, id) : i \in Nat /\ i < p /\ i \in About(v, id) /\ v[i] = w[i]
      BY <1>1, <1>2, <2>1
    <2>6. About(v, id) = About(w, id) \cup {p}
      BY <2>2, <2>4, <2>5
    <2>7. OneMore(w, v, id, es[k])
      BY <2>1, <2>5, <2>6 DEF OneMore
    <2> QED
      BY <2>0, <2>7
  <1> QED
    BY <1>4, <1>5

\* Nothing has happened to task id: everything that was so of it is.
LEMMA SameFollows ==
    ASSUME NEW w, NEW v, NEW ss, NEW rr, NEW id, AsBefore(w, v, id), Of(rr, id) = Of(ss, id)
    PROVE  /\ LastMatches(w, ss, id) => LastMatches(v, rr, id)
           /\ Chained(w, id) => Chained(v, id)
           /\ \A c : Snapshot(w, ss, c, id) => Snapshot(v, rr, c, id)
           /\ \A ts, partial : Follows(w, ss, ts, partial, id) => Follows(v, rr, ts, partial, id)
  <1>1. LastMatches(w, ss, id) => LastMatches(v, rr, id)
    BY DEF AsBefore, LastMatches
  <1>2. Chained(w, id) => Chained(v, id)
    BY DEF AsBefore, Chained
  <1>3. ASSUME NEW c, Snapshot(w, ss, c, id)
        PROVE  Snapshot(v, rr, c, id)
    <2>1. Later(v, c, id) = Later(w, c, id) /\ \A i \in Later(w, c, id) : v[i] = w[i]
      BY DEF AsBefore, Later
    <2> QED
      BY <1>3, <2>1 DEF Snapshot, Renewed
  <1>4. ASSUME NEW ts, NEW partial, Follows(w, ss, ts, partial, id)
        PROVE  Follows(v, rr, ts, partial, id)
    BY <1>4 DEF AsBefore, Follows, Renewed
  <1> QED
    BY <1>1, <1>2, <1>3, <1>4

\* The event of a task that the server had not is that of its creation.
LEMMA MoreFollows ==
    ASSUME NEW w, NEW v, NEW ss, NEW rr, NEW id, NEW e, OneMore(w, v, id, e),
           Of(rr, id) = IF e.type = "delete" THEN {} ELSE {e.task},
           Of(ss, id) = {} => e.type = "create"
    PROVE  /\ LastMatches(v, rr, id)
           /\ LastMatches(w, ss, id) /\ Chained(w, id) => Chained(v, id)
           /\ \A c : Snapshot(w, ss, c, id) /\ e.at > c.at => Snapshot(v, rr, c, id)
           /\ \A ts, partial : Follows(w, ss, ts, partial, id) => Follows(v, rr, ts, partial, id)
  <1>1. PICK p \in Nat :
           /\ About(v, id) = About(w, id) \cup {p} /\ v[p] = e
           /\ \A i \in About(w, id) : i \in Nat /\ i < p /\ v[i] = w[i]
    BY DEF OneMore
  <1>2. LastMatches(v, rr, id)
    <2> SUFFICES ASSUME NEW i \in About(v, id), \A j \in About(v, id) : j <= i
                 PROVE  Of(rr, id) = IF v[i].type = "delete" THEN {} ELSE {v[i].task}
      BY DEF LastMatches
    <2>1. i = p
      BY <1>1
    <2> QED
      BY <1>1, <2>1
  <1>3. ASSUME LastMatches(w, ss, id), Chained(w, id)
        PROVE  Chained(v, id)
    <2> SUFFICES ASSUME NEW i \in About(v, id), v[i].type = "delete",
                        NEW k \in About(v, id), k > i
                 PROVE  \E j \in About(v, id) : j > i /\ v[j].type # "update"
      BY DEF Chained
    <2>1. i \in About(w, id) /\ i \in Nat /\ i < p /\ w[i].type = "delete"
      BY <1>1
    <2>2. CASE \E j \in About(w, id) : j > i
      <3>1. PICK j \in About(w, id) : j > i /\ w[j].type # "update"
        BY <1>3, <2>1, <2>2 DEF Chained
      <3> QED
        BY <1>1, <3>1
    <2>3. CASE ~\E j \in About(w, id) : j > i
      <3>1. \A j \in About(w, id) : j <= i
        BY <1>1, <2>1, <2>3
      <3>2. Of(ss, id) = {}
        BY <1>3, <2>1, <3>1 DEF LastMatches
      <3> QED
        BY <1>1, <2>1, <3>2
    <2> QED
      BY <2>2, <2>3
  <1>4. ASSUME NEW c, Snapshot(w, ss, c, id), e.at > c.at
        PROVE  Snapshot(v, rr, c, id)
    <2>1. /\ p \in Later(v, c, id)
          /\ \A i \in Later(w, c, id) : i \in Later(v, c, id) /\ v[i] = w[i]
      BY <1>1, <1>4 DEF Later
    <2>2. CASE e.type = "create"
      BY <1>1, <2>1, <2>2 DEF Snapshot, Renewed
    <2>3. CASE e.type # "create"
      <3>1. Of(ss, id) # {}
        BY <2>3
      <3>2. CASE Of(ToSet(c.answer), id) = Of(ss, id)
        <4>1. id \in IdsOf(c.answer)
          BY <3>1, <3>2 DEF Of, ToSet, IdsOf
        <4> QED
          BY <2>1, <4>1 DEF Snapshot
      <3>3. CASE Of(ToSet(c.answer), id) # Of(ss, id)
        BY <1>4, <2>1, <3>3 DEF Snapshot, Renewed
      <3> QED
        BY <3>2, <3>3
    <2> QED
      BY <2>2, <2>3
  <1>5. ASSUME NEW ts, NEW partial, Follows(w, ss, ts, partial, id)
        PROVE  Follows(v, rr, ts, partial, id)
    <2>1. CASE e.type = "create"
      BY <1>1, <2>1 DEF Follows, Renewed
    <2>2. CASE e.type # "create"
      BY <1>1, <1>5, <2>2 DEF Follows, Renewed
    <2> QED
      BY <2>1, <2>2
  <1> QED
    BY <1>2, <1>3, <1>4, <1>5

-----------------------------------------------------------------------------
(* Answers.                                                                *)

\* A list, full or partial, is replaced by the answer of a load.
LEMMA AnswerFollows ==
    ASSUME NEW w \in Seq(Event), NEW ss, NEW id, NEW c, c.what = "load", Snapshot(w, ss, c, id),
           About(w, id) = {} \/ LastMatches(w, ss, id)
    PROVE  Follows(w, ss, ToSet(c.answer), c.query # All, id)
  <1>1. id \in IdsOf(c.answer) => Of(ToSet(c.answer), id) # {}
    BY DEF IdsOf, Of, ToSet
  <1>2. /\ Later(w, c, id) \subseteq About(w, id)
        /\ Renewed(w, Later(w, c, id)) => Renewed(w, About(w, id))
    BY DEF Later, Renewed
  <1>3. CASE About(w, id) = {}
    <2>1. Later(w, c, id) = {} /\ ~Renewed(w, Later(w, c, id))
      BY <1>2, <1>3 DEF Renewed
    <2>2. id \notin IdsOf(c.answer) => Of(ToSet(c.answer), id) = {}
      BY DEF IdsOf, Of, ToSet
    <2> QED
      BY <1>3, <2>1, <2>2 DEF Follows, Snapshot
  <1>4. CASE About(w, id) # {} /\ LastMatches(w, ss, id)
    <2>1. PICK i \in About(w, id) : \A j \in About(w, id) : j <= i
      BY <1>4, AboutShape
    <2>2. Of(ss, id) = {} => w[i].type = "delete"
      BY <1>4, <2>1 DEF LastMatches
    <2>3. Of(ss, id) = {} => Renewed(w, About(w, id))
      BY <2>1, <2>2 DEF Renewed
    <2> QED
      BY <1>1, <1>2, <1>4, <2>3 DEF Follows, Snapshot
  <1> QED
    BY <1>3, <1>4

\* The map, which a load removes nothing from, when its answer has not the task.
LEMMA AbsentFollows ==
    ASSUME NEW w \in Seq(Event), NEW ss, NEW id, NEW c, c.what = "load", Snapshot(w, ss, c, id),
           c.query = All, id \notin IdsOf(c.answer),
           LastMatches(w, ss, id),
           NEW ts, NEW partial, Follows(w, ss, ts, partial, id)
    PROVE  Follows(w, ss, ts, FALSE, id)
  <1>1. Of(ToSet(c.answer), id) = {}
    BY DEF IdsOf, Of, ToSet
  <1>2. Renewed(w, Later(w, c, id)) => Renewed(w, About(w, id))
    BY DEF Later, Renewed
  <1>3. Of(ss, id) = {} \/ Renewed(w, About(w, id))
    BY <1>1, <1>2 DEF Snapshot
  <1>4. CASE About(w, id) # {} /\ Of(ss, id) = {}
    <2>1. PICK i \in About(w, id) : \A j \in About(w, id) : j <= i
      BY <1>4, AboutShape
    <2>2. w[i].type = "delete"
      BY <1>4, <2>1 DEF LastMatches
    <2> QED
      BY <2>1, <2>2 DEF Follows, Renewed
  <1>5. CASE About(w, id) = {} /\ Of(ss, id) = {}
    BY <1>5 DEF Follows, Renewed
  <1> QED
    BY <1>3, <1>4, <1>5 DEF Follows

\* The objects of the task of a command get what was answered.
LEMMA AssignedFollows ==
    ASSUME NEW w, NEW ss, NEW c, c.what # "load", NEW id, id = c.task.id,
           Snapshot(w, ss, c, id) \/ ~Shows(c),
           NEW ts, NEW us, NEW partial, Follows(w, ss, ts, partial, id),
           Of(us, id) # {} <=> Of(ts, id) # {},
           (\A t \in Of(ts, id) : Assigned(t, c) = t) => Of(us, id) = Of(ts, id)
    PROVE  Follows(w, ss, us, partial, id)
  <1>1. CASE ~Shows(c)
    <2>1. \A t : Assigned(t, c) = t
      BY <1>1 DEF Assigned, Shows
    <2> QED
      BY <2>1 DEF Follows
  <1>2. CASE Snapshot(w, ss, c, id) /\ About(w, id) = {}
    <2>1. Later(w, c, id) = {}
      BY <1>2 DEF Later
    <2>2. \A t \in Of(ss, id) : Assigned(t, c) = t
      BY <1>2, <2>1 DEF Snapshot
    <2>3. Of(ts, id) = Of(ss, id) \/ (partial /\ Of(ts, id) = {})
      BY <1>2 DEF Follows, Renewed
    <2> QED
      BY <1>2, <2>2, <2>3 DEF Follows
  <1>3. CASE About(w, id) # {}
    BY <1>3 DEF Follows
  <1> QED
    BY <1>1, <1>2, <1>3

-----------------------------------------------------------------------------
(* The steps of the page keep what follows.                                *)

\* What FollowInv says, named for the lemmas that use a part of it.
LEMMA KnownMore ==
    ASSUME FollowInv
    PROVE  /\ TypeInv /\ wire \in Seq(Event) /\ RowsAreKeyed
           /\ \A id \in Ids \ doubt : /\ LastMatches(wire, ToSet(stored), id)
                                      /\ Chained(wire, id)
           /\ \A c \in calls : c.served /\ c.on /\ Shows(c)
                    => \A id \in Ids \ c.news : Snapshot(wire, ToSet(stored), c, id)
           /\ table.loaded => \A id \in Ids \ doubt :
                    Follows(wire, ToSet(stored), ToSet(table.rows), table.of # All, id)
           /\ graph.mounted => \A id \in Ids \ doubt :
                    Follows(wire, ToSet(stored), graph.tasks, ~graph.loaded, id)
           /\ ~(table.mounted /\ graph.mounted)
           /\ table.loaded => table.mounted
           /\ ~table.mounted => table.rows = <<>>
           /\ table.rows \in Seq(Task) /\ graph.tasks \in SUBSET Task
           /\ table.loaded \in BOOLEAN /\ graph.loaded \in BOOLEAN
  BY DEF FollowInv, TypeInv, ServerInv, ViewsInv, WireInv, SnapshotsInv, TableInv, GraphInv,
         TableRecord, GraphRecord

\* RowsAreKeyed, task by task.
LEMMA KeyedRows ==
    ASSUME NEW rows \in Seq(Task), NEW ids
    PROVE  (\A i, j \in DOMAIN rows : rows[i].id = rows[j].id => i = j \/ rows[i].id \in ids)
              <=> \A id \in Ids \ ids : Single(rows, id)
  <1>1. \A i \in DOMAIN rows : rows[i].id \in Ids
    BY TaskShape
  <1> QED
    BY <1>1 DEF Single

\* A snapshot stays good as its call ages, and when nothing happens at the server.
LEMMA AgedSnapshot ==
    ASSUME NEW c, NEW d, Aged(c, d), NEW w, NEW ss, NEW id, Snapshot(w, ss, c, id)
    PROVE  Snapshot(w, ss, d, id)
  <1>1. /\ d.what = c.what /\ d.at = c.at /\ d.answer = c.answer /\ d.query = c.query
        /\ d.task = c.task
    BY DEF Aged
  <1>2. Later(w, d, id) = Later(w, c, id) /\ \A t : Assigned(t, d) = Assigned(t, c)
    BY <1>1 DEF Later, Assigned
  <1> QED
    BY <1>1, <1>2 DEF Snapshot

LEMMA QuietSnapshots ==
    ASSUME FollowInv, AreCallsAfter(calls'), UNCHANGED <<stored, wire>>
    PROVE  SnapshotsInv'
  <1>1. ASSUME NEW d \in calls', d.served, d.on, Shows(d), NEW id \in Ids \ d.news
        PROVE  Snapshot(wire, ToSet(stored), d, id)
    <2>1. PICK c \in calls : Aged(c, d)
      BY <1>1 DEF AreCallsAfter, Fresh
    <2>2. c.served /\ c.on /\ Shows(c) /\ id \in Ids \ c.news
      BY <1>1, <2>1 DEF Aged, Shows
    <2> QED
      BY <2>1, <2>2, KnownMore, AgedSnapshot
  <1> QED
    BY <1>1 DEF SnapshotsInv

\* A step of the page keeps the invariant when its lists follow; a task leaves doubt only when
\* no event of it is on the wire.
LEMMA PageFollows ==
    ASSUME FollowInv, TypeInv', AreCallsAfter(calls'), UNCHANGED <<stored, wire>>,
           \A id \in doubt : About(wire, id) # {} => id \in doubt',
           \A id \in Ids \ doubt' : Single(table'.rows, id),
           TableInv', GraphInv'
    PROVE  FollowInv'
  <1>1. SnapshotsInv'
    BY QuietSnapshots
  <1>2. ASSUME NEW id \in Ids \ doubt'
        PROVE  LastMatches(wire, ToSet(stored), id) /\ Chained(wire, id)
    <2>1. CASE id \in doubt
      <3>1. About(wire, id) = {}
        BY <1>2, <2>1
      <3> QED
        BY <3>1 DEF LastMatches, Chained
    <2>2. CASE id \notin doubt
      BY <1>2, <2>2, KnownMore
    <2> QED
      BY <2>1, <2>2
  <1>3. WireInv'
    BY <1>2 DEF WireInv
  <1>4. table'.rows \in Seq(Task)
    BY DEF TypeInv, ViewsInv, TableRecord
  <1>5. RowsAreKeyed'
    <2>1. \A i, j \in DOMAIN table'.rows :
              table'.rows[i].id = table'.rows[j].id => i = j \/ table'.rows[i].id \in doubt'
      <3>1. PICK rows, ids : rows = table'.rows /\ ids = doubt'
        OBVIOUS
      <3> QED
        BY <1>4, <3>1, KeyedRows
    <2> QED
      BY <2>1 DEF RowsAreKeyed
  <1> QED
    BY <1>1, <1>3, <1>5 DEF FollowInv

\* A view whose list stays follows as before.
LEMMA TableSame ==
    ASSUME FollowInv, UNCHANGED <<stored, wire>>, doubt \subseteq doubt',
           table'.rows = table.rows, table'.loaded = table.loaded, table'.of = table.of
    PROVE  TableInv' /\ \A id \in Ids \ doubt' : Single(table'.rows, id)
  <1>1. \A id \in Ids \ doubt : Single(table.rows, id)
    BY KnownMore, KeyedRows DEF RowsAreKeyed
  <1> QED
    BY <1>1, KnownMore DEF TableInv

LEMMA GraphSame ==
    ASSUME FollowInv, UNCHANGED <<stored, wire>>, doubt \subseteq doubt',
           graph'.mounted = graph.mounted, graph'.tasks = graph.tasks, graph'.loaded = graph.loaded
    PROVE  GraphInv'
  BY KnownMore DEF GraphInv

\* Steps that change neither lists nor doubt.
LEMMA StepsThatShowNothing ==
    ASSUME FollowInv, TypeInv', AreCallsAfter(calls'), UNCHANGED <<stored, wire, doubt>>,
           table'.rows = table.rows, table'.loaded = table.loaded, table'.of = table.of,
           graph'.mounted = graph.mounted, graph'.tasks = graph.tasks, graph'.loaded = graph.loaded
    PROVE  FollowInv'
  BY TableSame, GraphSame, PageFollows

\* Only one of the views is there.
LEMMA NotBoth ==
    ASSUME FollowInv, TypeInv'
    PROVE  /\ table.mounted /\ graph'.mounted = graph.mounted => GraphInv'
           /\ graph.mounted /\ table'.rows = table.rows /\ table'.loaded = table.loaded
                 => TableInv' /\ \A id : Single(table'.rows, id)
  <1>1. table.mounted /\ graph'.mounted = graph.mounted => GraphInv'
    BY KnownMore DEF GraphInv
  <1>2. graph.mounted => ~table.loaded /\ table.rows = <<>>
    BY KnownMore
  <1>3. \A id : Single(<<>>, id)
    BY DEF Single
  <1> QED
    BY <1>1, <1>2, <1>3 DEF TableInv

\* The list of rows ts after an answer has replaced row i by t.
LEMMA RowsAssigned ==
    ASSUME NEW rows \in Seq(Task), NEW new \in Seq(Task), NEW i \in DOMAIN rows,
           DOMAIN new = DOMAIN rows,
           \A k \in DOMAIN rows : new[k].id = rows[k].id /\ (k # i => new[k] = rows[k])
    PROVE  /\ \A id : id # rows[i].id => Of(ToSet(new), id) = Of(ToSet(rows), id)
           /\ \A id : Of(ToSet(new), id) # {} <=> Of(ToSet(rows), id) # {}
           /\ \A id : Single(rows, id) => Single(new, id)
           /\ new[i] = rows[i] => Of(ToSet(new), rows[i].id) = Of(ToSet(rows), rows[i].id)
  <1>1. /\ \A t \in ToSet(new) : \E k \in DOMAIN rows : t = new[k]
        /\ \A t \in ToSet(rows) : \E k \in DOMAIN rows : t = rows[k]
        /\ \A k \in DOMAIN rows : new[k] \in ToSet(new) /\ rows[k] \in ToSet(rows)
    BY Elements
  <1>2. ASSUME NEW id, id # rows[i].id
        PROVE  Of(ToSet(new), id) = Of(ToSet(rows), id)
    <2>1. \A k \in DOMAIN rows : (new[k].id = id \/ rows[k].id = id) => new[k] = rows[k]
      BY <1>2
    <2>2. \A t \in ToSet(new) : t.id = id => t \in ToSet(rows)
      BY <1>1, <2>1
    <2>3. \A t \in ToSet(rows) : t.id = id => t \in ToSet(new)
      BY <1>1, <2>1
    <2> QED
      BY <2>2, <2>3 DEF Of
  <1>3. ASSUME NEW id
        PROVE  Of(ToSet(new), id) # {} <=> Of(ToSet(rows), id) # {}
    <2>1. (\E t \in ToSet(new) : t.id = id) <=> \E k \in DOMAIN rows : new[k].id = id
      BY <1>1
    <2>2. (\E t \in ToSet(rows) : t.id = id) <=> \E k \in DOMAIN rows : rows[k].id = id
      BY <1>1
    <2>3. (\E t \in ToSet(new) : t.id = id) <=> \E t \in ToSet(rows) : t.id = id
      BY <2>1, <2>2
    <2> QED
      BY <2>3 DEF Of
  <1>4. new[i] = rows[i] => Of(ToSet(new), rows[i].id) = Of(ToSet(rows), rows[i].id)
    BY <1>1 DEF Of
  <1>5. \A id : Single(rows, id) => Single(new, id)
    BY DEF Single
  <1> QED
    BY <1>2, <1>3, <1>4, <1>5

\* The list of rows ts after row i was written over with another task: all others are as
\* they were.
LEMMA RowOverwritten ==
    ASSUME NEW rows \in Seq(Task), NEW new \in Seq(Task), NEW i \in DOMAIN rows,
           DOMAIN new = DOMAIN rows, \A k \in DOMAIN rows : k # i => new[k] = rows[k],
           NEW id, id # rows[i].id, id # new[i].id
    PROVE  /\ Of(ToSet(new), id) = Of(ToSet(rows), id)
           /\ Single(rows, id) => Single(new, id)
  <1>1. \A k \in DOMAIN rows : (new[k].id = id \/ rows[k].id = id) => new[k] = rows[k]
    OBVIOUS
  <1>2. /\ \A t \in ToSet(new) : \E k \in DOMAIN rows : t = new[k]
        /\ \A t \in ToSet(rows) : \E k \in DOMAIN rows : t = rows[k]
        /\ \A k \in DOMAIN rows : new[k] \in ToSet(new) /\ rows[k] \in ToSet(rows)
    BY Elements
  <1>3. \A t \in ToSet(new) : t.id = id => t \in ToSet(rows)
    BY <1>1, <1>2
  <1>4. \A t \in ToSet(rows) : t.id = id => t \in ToSet(new)
    BY <1>1, <1>2
  <1>5. Of(ToSet(new), id) = Of(ToSet(rows), id)
    BY <1>3, <1>4 DEF Of
  <1> QED
    BY <1>1, <1>5 DEF Single

\* The answer of a command shows what the server has, or there are events to come, or the
\* two tasks that have got into each other's place are in doubt.
LEMMA TableCommandEndsFollows ==
    ASSUME FollowInv, UNCHANGED graph, NEW c \in calls, NEW ok \in BOOLEAN, TableCommandEnds(c, ok)
    PROVE  FollowInv'
  <1>1. /\ TypeInv' /\ AreCallsAfter(calls')
        /\ table'.loaded = table.loaded /\ table'.of = table.of
        /\ \/ table'.rows = table.rows /\ doubt' = doubt
           \/ c.on /\ c.served /\ \E i \in DOMAIN table.rows : RowGiven(c, i)
    BY KnownMore, TableCommandEndsTypes
  <1>2. UNCHANGED <<stored, wire>> /\ c.what \in OfTask /\ c.what # "load"
    BY DEF TableCommandEnds, OfTask
  <1>3. CASE table'.rows = table.rows /\ doubt' = doubt
    BY <1>1, <1>2, <1>3, StepsThatShowNothing
  <1>4. ASSUME c.on, c.served, doubt' = doubt \cup (c.news \cap {c.task.id}),
               NEW i \in DOMAIN table.rows,
               table.rows[i].id = c.task.id,
               table'.rows[i].id = c.task.id,
               DOMAIN table'.rows = DOMAIN table.rows,
               table'.rows[i] = Assigned(table.rows[i], c),
               \A k \in DOMAIN table.rows : k # i => table'.rows[k] = table.rows[k]
        PROVE  FollowInv'
    <2>1. table'.rows \in Seq(Task) /\ table.rows \in Seq(Task)
      BY <1>1, KnownMore DEF TypeInv, ViewsInv, TableRecord
    <2>2. PICK rows, new : rows = table.rows /\ new = table'.rows
      OBVIOUS
    <2>3. /\ \A id : id # rows[i].id => Of(ToSet(new), id) = Of(ToSet(rows), id)
          /\ \A id : Of(ToSet(new), id) # {} <=> Of(ToSet(rows), id) # {}
          /\ \A id : Single(rows, id) => Single(new, id)
          /\ new[i] = rows[i] => Of(ToSet(new), rows[i].id) = Of(ToSet(rows), rows[i].id)
      <3>1. /\ rows \in Seq(Task) /\ new \in Seq(Task) /\ i \in DOMAIN rows /\ DOMAIN new = DOMAIN rows
            /\ \A k \in DOMAIN rows : new[k].id = rows[k].id /\ (k # i => new[k] = rows[k])
        BY <1>4, <2>1, <2>2
      <3> QED
        BY <3>1, RowsAssigned
    <2>4. \A id \in Ids \ doubt' : Single(new, id)
      <3>1. \A id \in Ids \ doubt : Single(table.rows, id)
        BY KnownMore, KeyedRows DEF RowsAreKeyed
      <3> QED
        BY <1>4, <2>2, <2>3, <3>1
    <2>5. ASSUME table.loaded, NEW id \in Ids \ doubt'
          PROVE  Follows(wire, ToSet(stored), ToSet(new), table.of # All, id)
      <3>1. id \notin doubt /\ Follows(wire, ToSet(stored), ToSet(rows), table.of # All, id)
        BY <1>4, <2>2, <2>5, KnownMore
      <3>2. CASE id # c.task.id
        <4>1. Of(ToSet(new), id) = Of(ToSet(rows), id)
          BY <1>4, <2>2, <2>3, <3>2
        <4> QED
          BY <3>1, <4>1 DEF Follows
      <3>3. CASE id = c.task.id
        <4>1. id \notin c.news
          BY <1>4, <2>5, <3>3
        <4>2. Snapshot(wire, ToSet(stored), c, id) \/ ~Shows(c)
          BY <1>4, <4>1, KnownMore
        <4>3. (\A t \in Of(ToSet(rows), id) : Assigned(t, c) = t)
                 => Of(ToSet(new), id) = Of(ToSet(rows), id)
          <5>1. rows[i] \in Of(ToSet(rows), id)
            BY <1>4, <2>1, <2>2, <3>3, Elements DEF Of
          <5> QED
            BY <1>4, <2>2, <2>3, <3>3, <5>1
        <4>4. Of(ToSet(new), id) # {} <=> Of(ToSet(rows), id) # {}
          BY <2>3
        <4>5. PICK ts, us, ss, p : ts = ToSet(rows) /\ us = ToSet(new) /\ ss = ToSet(stored)
                                   /\ p = (table.of # All)
          OBVIOUS
        <4> QED
          BY <1>2, <3>1, <3>3, <4>2, <4>3, <4>4, AssignedFollows
      <3> QED
        BY <3>2, <3>3
    <2>6. TableInv'
      BY <1>1, <1>2, <2>2, <2>5 DEF TableInv
    <2>7. GraphInv'
      BY <1>2, <1>4, GraphSame
    <2> QED
      BY <1>1, <1>2, <1>4, <2>2, <2>4, <2>6, <2>7, PageFollows
  <1>5. ASSUME NEW i \in DOMAIN table.rows,
               DOMAIN table'.rows = DOMAIN table.rows,
               \A k \in DOMAIN table.rows : k # i => table'.rows[k] = table.rows[k],
               table'.rows[i].id \in {table.rows[i].id, c.task.id},
               doubt' = doubt \cup {table.rows[i].id, c.task.id}
        PROVE  FollowInv'
    <2>1. table'.rows \in Seq(Task) /\ table.rows \in Seq(Task)
      BY <1>1, KnownMore DEF TypeInv, ViewsInv, TableRecord
    <2>2. PICK rows, new : rows = table.rows /\ new = table'.rows
      OBVIOUS
    <2>3. ASSUME NEW id \in Ids \ doubt'
          PROVE  Of(ToSet(new), id) = Of(ToSet(rows), id) /\ (Single(rows, id) => Single(new, id))
      <3>1. /\ rows \in Seq(Task) /\ new \in Seq(Task) /\ i \in DOMAIN rows /\ DOMAIN new = DOMAIN rows
            /\ \A k \in DOMAIN rows : k # i => new[k] = rows[k]
        BY <1>5, <2>1, <2>2
      <3>2. id # rows[i].id /\ id # new[i].id
        BY <1>5, <2>2, <2>3
      <3> QED
        BY <3>1, <3>2, RowOverwritten
    <2>4. \A id \in Ids \ doubt' : Single(new, id)
      <3>1. \A id \in Ids \ doubt : Single(table.rows, id)
        BY KnownMore, KeyedRows DEF RowsAreKeyed
      <3> QED
        BY <1>5, <2>2, <2>3, <3>1
    <2>5. ASSUME table.loaded, NEW id \in Ids \ doubt'
          PROVE  Follows(wire, ToSet(stored), ToSet(new), table.of # All, id)
      <3>1. id \notin doubt /\ Follows(wire, ToSet(stored), ToSet(rows), table.of # All, id)
        BY <1>5, <2>2, <2>5, KnownMore
      <3> QED
        BY <2>3, <2>5, <3>1 DEF Follows
    <2>6. TableInv'
      BY <1>1, <1>2, <2>2, <2>5 DEF TableInv
    <2>7. GraphInv'
      BY <1>2, <1>5, GraphSame
    <2> QED
      BY <1>1, <1>2, <1>5, <2>2, <2>4, <2>6, <2>7, PageFollows
  <1>6. ASSUME c.on, c.served, NEW i \in DOMAIN table.rows, RowGiven(c, i)
        PROVE  FollowInv'
    BY <1>4, <1>5, <1>6 DEF RowGiven
  <1> QED
    BY <1>1, <1>3, <1>6

\* So it does in the graph.
LEMMA GraphCommandEndsFollows ==
    ASSUME FollowInv, UNCHANGED table, NEW c \in calls, NEW ok \in BOOLEAN, GraphCommandEnds(c, ok)
    PROVE  FollowInv'
  <1>1. /\ TypeInv' /\ AreCallsAfter(calls')
        /\ graph'.mounted = graph.mounted /\ graph'.loaded = graph.loaded
        /\ \/ graph'.tasks = graph.tasks /\ doubt' = doubt
           \/ /\ c.on /\ c.served /\ doubt' = doubt \cup (c.news \cap {c.task.id})
              /\ \A id : id # c.task.id => Of(graph'.tasks, id) = Of(graph.tasks, id)
              /\ Of(graph'.tasks, c.task.id) = {Assigned(t, c) : t \in Of(graph.tasks, c.task.id)}
    BY KnownMore, GraphCommandEndsTypes
  <1>2. UNCHANGED <<stored, wire>> /\ c.what \in OfTask /\ c.what # "load" /\ c.by = "graph"
    BY DEF GraphCommandEnds, OfTask
  <1>3. CASE graph'.tasks = graph.tasks /\ doubt' = doubt
    BY <1>1, <1>2, <1>3, StepsThatShowNothing
  <1>4. ASSUME c.on, c.served, doubt' = doubt \cup (c.news \cap {c.task.id}),
               \A id : id # c.task.id => Of(graph'.tasks, id) = Of(graph.tasks, id),
               Of(graph'.tasks, c.task.id) = {Assigned(t, c) : t \in Of(graph.tasks, c.task.id)}
        PROVE  FollowInv'
    <2>1. PICK ts, us : ts = graph.tasks /\ us = graph'.tasks
      OBVIOUS
    <2>2. /\ Of(us, c.task.id) # {} <=> Of(ts, c.task.id) # {}
          /\ (\A t \in Of(ts, c.task.id) : Assigned(t, c) = t)
                 => Of(us, c.task.id) = Of(ts, c.task.id)
      BY <1>4, <2>1
    <2>3. ASSUME graph.mounted, NEW id \in Ids \ doubt'
          PROVE  Follows(wire, ToSet(stored), us, ~graph.loaded, id)
      <3>1. id \notin doubt /\ Follows(wire, ToSet(stored), ts, ~graph.loaded, id)
        BY <1>4, <2>1, <2>3, KnownMore
      <3>2. CASE id # c.task.id
        <4>1. Of(us, id) = Of(ts, id)
          BY <1>4, <2>1, <3>2
        <4> QED
          BY <3>1, <4>1 DEF Follows
      <3>3. CASE id = c.task.id
        <4>1. id \notin c.news
          BY <1>4, <2>3, <3>3
        <4>2. Snapshot(wire, ToSet(stored), c, id) \/ ~Shows(c)
          BY <1>4, <4>1, KnownMore
        <4> QED
          BY <1>2, <2>2, <3>1, <3>3, <4>2, AssignedFollows
      <3> QED
        BY <3>2, <3>3
    <2>4. GraphInv'
      BY <1>1, <1>2, <2>1, <2>3 DEF GraphInv
    <2>5. TableInv' /\ \A id \in Ids \ doubt' : Single(table'.rows, id)
      BY <1>2, <1>4, TableSame
    <2> QED
      BY <1>1, <1>2, <1>4, <2>4, <2>5, PageFollows
  <1> QED
    BY <1>1, <1>3, <1>4

\* The answer of a load replaces the rows.
LEMMA TableLoadedFollows ==
    ASSUME FollowInv, NEW c \in calls, NEW ok \in BOOLEAN, TableLoaded(c, ok)
    PROVE  FollowInv'
  <1>1. /\ TypeInv' /\ AreCallsAfter(calls') /\ UNCHANGED <<stored, socket, wire, events>>
        /\ graph'.mounted = graph.mounted /\ graph'.tasks = graph.tasks
        /\ graph'.loaded = graph.loaded
        /\ \/ /\ table'.rows = table.rows /\ table'.loaded = table.loaded
              /\ table'.of = table.of /\ doubt' = doubt
           \/ /\ c.what = "load" /\ c.by = "table" /\ c.on /\ c.served
              /\ table'.rows = c.answer /\ table'.loaded /\ table'.of = c.query
              /\ doubt' = DoubtAfterLoad(c)
    BY KnownMore, TableLoadedTypes
  <1>2. CASE /\ table'.rows = table.rows /\ table'.loaded = table.loaded
             /\ table'.of = table.of /\ doubt' = doubt
    BY <1>1, <1>2, StepsThatShowNothing
  <1>3. CASE /\ c.what = "load" /\ c.by = "table" /\ c.on /\ c.served
             /\ table'.rows = c.answer /\ table'.loaded /\ table'.of = c.query
             /\ doubt' = DoubtAfterLoad(c)
    <2>1. \A id \in doubt : About(wire, id) # {} => id \in doubt'
      BY <1>3 DEF DoubtAfterLoad, OnTheWire, About
    <2>2. \A id \in Ids : Single(table'.rows, id)
      <3>1. Distinct(c.answer)
        BY Known, KnownMore DEF CallShape
      <3> QED
        BY <1>3, <3>1 DEF Single, Distinct
    <2>3. ASSUME NEW id \in Ids \ doubt'
          PROVE  Follows(wire, ToSet(stored), ToSet(c.answer), c.query # All, id)
      <3>1. id \notin c.news /\ (id \notin doubt \/ About(wire, id) = {})
        BY <1>3, <2>1, <2>3 DEF DoubtAfterLoad
      <3>2. Snapshot(wire, ToSet(stored), c, id)
        BY <1>3, <3>1, KnownMore DEF Shows
      <3>3. wire \in Seq(Event) /\ (About(wire, id) = {} \/ LastMatches(wire, ToSet(stored), id))
        BY <3>1, KnownMore
      <3> QED
        BY <1>3, <3>2, <3>3, AnswerFollows
    <2>4. TableInv'
      BY <1>1, <1>3, <2>3 DEF TableInv
    <2>5. GraphInv'
      <3>1. table.mounted
        BY <1>3, Known, KnownMore
      <3> QED
        BY <1>1, <3>1, NotBoth
    <2> QED
      BY <1>1, <2>1, <2>2, <2>4, <2>5, PageFollows
  <1> QED
    BY <1>1, <1>2, <1>3

\* The answer of a load is put into the map, task by task.
LEMMA GraphLoadEndsFollows ==
    ASSUME FollowInv, UNCHANGED table, NEW c \in calls, NEW ok \in BOOLEAN,
           GraphLoadEnds(c, ok, {})
    PROVE  FollowInv'
  <1>1. /\ TypeInv' /\ AreCallsAfter(calls') /\ UNCHANGED <<stored, socket, wire, events>>
        /\ graph'.mounted = graph.mounted
        /\ \/ graph'.tasks = graph.tasks /\ graph'.loaded = graph.loaded /\ doubt' = doubt
           \/ /\ c.what = "load" /\ c.by = "graph" /\ c.on /\ c.served
              /\ graph'.loaded
              /\ \A id : Of(graph'.tasks, id) = IF id \in IdsOf(c.answer) THEN Of(ToSet(c.answer), id)
                                                ELSE Of(graph.tasks, id)
              /\ doubt' = DoubtAfterLoad(c) \cup (doubt \ IdsOf(c.answer))
    BY KnownMore, GraphLoadEndsTypes
  <1>2. CASE graph'.tasks = graph.tasks /\ graph'.loaded = graph.loaded /\ doubt' = doubt
    BY <1>1, <1>2, StepsThatShowNothing
  <1>3. CASE /\ c.what = "load" /\ c.by = "graph" /\ c.on /\ c.served
             /\ graph'.loaded
             /\ \A id : Of(graph'.tasks, id) = IF id \in IdsOf(c.answer) THEN Of(ToSet(c.answer), id)
                                                ELSE Of(graph.tasks, id)
             /\ doubt' = DoubtAfterLoad(c) \cup (doubt \ IdsOf(c.answer))
    <2>1. \A id \in doubt : About(wire, id) # {} => id \in doubt'
      BY <1>3 DEF DoubtAfterLoad, OnTheWire, About
    <2>2. graph.mounted /\ c.query = All
      BY <1>3, Known, KnownMore DEF CallShape
    <2>3. ASSUME NEW id \in Ids \ doubt'
          PROVE  Follows(wire, ToSet(stored), graph'.tasks, FALSE, id)
      <3>1. /\ id \notin c.news /\ (id \notin doubt \/ About(wire, id) = {})
            /\ id \notin IdsOf(c.answer) => id \notin doubt
        BY <1>3, <2>1, <2>3 DEF DoubtAfterLoad
      <3>2. Snapshot(wire, ToSet(stored), c, id)
        BY <1>3, <3>1, KnownMore DEF Shows
      <3>3. wire \in Seq(Event) /\ (About(wire, id) = {} \/ LastMatches(wire, ToSet(stored), id))
        BY <3>1, KnownMore
      <3>4. CASE id \in IdsOf(c.answer)
        <4>1. Follows(wire, ToSet(stored), ToSet(c.answer), c.query # All, id)
          BY <1>3, <3>2, <3>3, AnswerFollows
        <4>2. Of(graph'.tasks, id) = Of(ToSet(c.answer), id)
          BY <1>3, <3>4
        <4> QED
          BY <2>2, <4>1, <4>2 DEF Follows
      <3>5. CASE id \notin IdsOf(c.answer)
        <4>1. /\ LastMatches(wire, ToSet(stored), id)
              /\ Follows(wire, ToSet(stored), graph.tasks, ~graph.loaded, id)
          BY <2>2, <3>1, <3>5, KnownMore
        <4>2. Follows(wire, ToSet(stored), graph.tasks, FALSE, id)
          BY <1>3, <2>2, <3>2, <3>3, <3>5, <4>1, AbsentFollows
        <4>3. Of(graph'.tasks, id) = Of(graph.tasks, id)
          BY <1>3, <3>5
        <4> QED
          BY <4>2, <4>3 DEF Follows
      <3> QED
        BY <3>4, <3>5
    <2>4. GraphInv'
      BY <1>1, <1>3, <2>3 DEF GraphInv
    <2>5. TableInv' /\ \A id : Single(table'.rows, id)
      BY <1>1, <2>2, NotBoth
    <2> QED
      BY <1>1, <2>1, <2>4, <2>5, PageFollows
  <1> QED
    BY <1>1, <1>2, <1>3

\* A view that has just been mounted shows nothing yet.
LEMMA OpenTabFollows ==
    ASSUME FollowInv, NEW tab \in Tabs, OpenTab(tab)
    PROVE  FollowInv'
  <1>1. /\ TypeInv' /\ AreCallsAfter(calls') /\ UNCHANGED <<stored, wire, events, doubt>>
        /\ table'.rows = <<>> /\ ~table'.loaded
        /\ graph'.tasks = {} /\ ~graph'.loaded
    BY KnownMore, OpenTabTypes
  <1>2. TableInv' /\ \A id : Single(table'.rows, id)
    BY <1>1 DEF TableInv, Single
  <1>3. GraphInv'
    BY <1>1 DEF GraphInv, Follows, Of
  <1> QED
    BY <1>1, <1>2, <1>3, PageFollows

\* Steps of the user and of the throttle.
LEMMA UserFollows ==
    ASSUME FollowInv,
           \/ UNCHANGED graph /\ \/ \E q \in Queries : Request(q)
                                 \/ TableCommand
                                 \/ CloseTableDialog
           \/ GraphStep \/ PeriodEnds
           \/ \E what \in GroupCommands : GroupCommand(what)
           \/ \E c \in calls, ok \in BOOLEAN : GroupCommandEnds(c, ok)
    PROVE  FollowInv'
  <1>1. ASSUME NEW q \in Queries, Request(q), UNCHANGED graph
        PROVE  FollowInv'
    <2>1. /\ TypeInv' /\ AreCallsAfter(calls')
          /\ table'.rows = table.rows /\ table'.loaded = table.loaded /\ table'.of = table.of
      BY <1>1, KnownMore, RequestTypes
    <2> QED
      BY <1>1, <2>1, StepsThatShowNothing DEF Request
  <1>2. ASSUME TableCommand, UNCHANGED graph
        PROVE  FollowInv'
    BY <1>2, KnownMore, TableCommandTypes, StepsThatShowNothing DEF TableCommand
  <1>3. ASSUME CloseTableDialog, UNCHANGED graph
        PROVE  FollowInv'
    BY <1>3, KnownMore, CloseTableDialogTypes, StepsThatShowNothing DEF CloseTableDialog
  <1>4. ASSUME (\E id \in Ids : onNodeClick(id)) \/ PeriodEnds
        PROVE  FollowInv'
    BY <1>4, KnownMore, ClickTypes, StepsThatShowNothing DEF serverVars
  <1>5. ASSUME CloseDialog
        PROVE  FollowInv'
    BY <1>5, KnownMore, CloseDialogTypes, StepsThatShowNothing
  <1>6. ASSUME GraphCommand
        PROVE  FollowInv'
    BY <1>6, KnownMore, GraphCommandTypes, StepsThatShowNothing
  <1>7. ASSUME \/ \E what \in GroupCommands : GroupCommand(what)
               \/ \E c \in calls, ok \in BOOLEAN : GroupCommandEnds(c, ok)
        PROVE  FollowInv'
    <2>1. /\ TypeInv' /\ AreCallsAfter(calls') /\ UNCHANGED <<stored, socket, wire, events, doubt>>
          /\ graph'.mounted = graph.mounted /\ graph'.tasks = graph.tasks
          /\ graph'.loaded = graph.loaded
          /\ table'.rows = table.rows /\ table'.loaded = table.loaded /\ table'.of = table.of
      BY <1>7, KnownMore, GroupTypes
    <2> QED
      BY <2>1, StepsThatShowNothing
  <1> QED
    BY <1>1, <1>2, <1>3, <1>4, <1>5, <1>6, <1>7 DEF GraphStep

-----------------------------------------------------------------------------
(* Events that the page handles.                                           *)

\* What is so of the calls and of the wire after an event of which the calls in flight
\* have been informed, or was handled when no answer to them is shown.
LEMMA ReceivedWire ==
    ASSUME FollowInv, TypeInv', wire # <<>>, wire' = Tail(wire), stored' = stored,
           NEW e, e = Head(wire), AreCallsAfter(calls'), doubt \subseteq doubt',
           \/ Informed(calls', {e.task.id}, e.at)
           \/ \A d \in calls' : d.served /\ Shows(d) => ~d.on
    PROVE  WireInv' /\ SnapshotsInv'
  <1>1. Shifted(wire, wire') /\ e = wire[1]
    BY KnownMore, AboutTail, HeadIs
  <1>2. ASSUME NEW id \in Ids \ doubt'
        PROVE  LastMatches(wire', ToSet(stored), id) /\ Chained(wire', id)
    BY <1>1, <1>2, KnownMore, TailMatches
  <1>3. WireInv'
    BY <1>2 DEF WireInv
  <1>4. ASSUME NEW d \in calls', d.served, d.on, Shows(d), NEW id \in Ids \ d.news
        PROVE  Snapshot(wire', ToSet(stored), d, id)
    <2>1. Informed(calls', {e.task.id}, e.at)
      BY <1>4
    <2>2. PICK c \in calls : /\ Aged(c, d)
                             /\ c.served /\ Shows(c) /\ c.at < e.at => {e.task.id} \subseteq d.news
      BY <2>1 DEF Informed
    <2>3. c.served /\ c.on /\ Shows(c) /\ id \in Ids \ c.news /\ c.at \in Nat /\ e.at \in Nat
      <3>1. c.at \in Nat
        BY KnownMore, Known DEF Call
      <3>2. e.at \in Nat
        BY KnownMore, HeadIs, EventShape
      <3> QED
        BY <1>4, <2>2, <3>1, <3>2 DEF Aged, Shows
    <2>4. Snapshot(wire, ToSet(stored), c, id)
      BY <2>3, KnownMore
    <2>5. ~(wire[1].task.id = id /\ wire[1].at > c.at)
      BY <1>1, <1>4, <2>2, <2>3
    <2>6. Snapshot(wire', ToSet(stored), c, id)
      BY <1>1, <2>4, <2>5, TailSnapshot
    <2> QED
      BY <2>2, <2>6, AgedSnapshot
  <1>5. SnapshotsInv'
    BY <1>4 DEF SnapshotsInv
  <1> QED
    BY <1>3, <1>5

\* What an event of task t makes of the rows, at task id.
LEMMA RowUpdated ==
    ASSUME NEW rows \in Seq(Task), NEW t \in Task, NEW new, new = taskUpdated(rows, t), NEW id,
           Single(rows, id)
    PROVE  /\ Single(new, id)
           /\ id # t.id => Of(ToSet(new), id) = Of(ToSet(rows), id)
           /\ id = t.id => Of(ToSet(new), id) = IF Of(ToSet(rows), id) # {} THEN {t} ELSE {}
  <1>1. Single(new, id) /\ SameBut(new, rows, t.id)
    BY UpdatedIs, Zenon
  <1>2. Single(rows, t.id) => Of(ToSet(new), t.id) = IF t.id \in IdsOf(rows) THEN {t} ELSE {}
    BY UpdatedIs
  <1>3. id \in IdsOf(rows) <=> Of(ToSet(rows), id) # {}
    BY Elements
  <1> QED
    BY <1>1, <1>2, <1>3 DEF SameBut

LEMMA RowDeleted ==
    ASSUME NEW rows \in Seq(Task), NEW t \in Task, NEW new, new = taskDeleted(rows, t), NEW id,
           Single(rows, id)
    PROVE  /\ Single(new, id)
           /\ id # t.id => Of(ToSet(new), id) = Of(ToSet(rows), id)
           /\ id = t.id => Of(ToSet(new), id) = {}
  <1>1. Single(rows, t.id) => Of(ToSet(new), t.id) = {}
    BY DeletedIs
  <1>2. Single(new, id) /\ SameBut(new, rows, t.id)
    BY DeletedIs, Zenon
  <1> QED
    BY <1>1, <1>2 DEF SameBut

LEMMA RowAppended ==
    ASSUME NEW rows \in Seq(Task), NEW t \in Task, NEW new, new = Append(rows, t), NEW id,
           Single(rows, id), id = t.id => id \notin IdsOf(rows)
    PROVE  /\ Single(new, id)
           /\ id # t.id => Of(ToSet(new), id) = Of(ToSet(rows), id)
           /\ id = t.id => Of(ToSet(new), id) = {t}
  <1>1. Of(ToSet(new), t.id) = Of(ToSet(rows), t.id) \cup {t}
    BY AppendIs
  <1>2. Single(new, id) /\ SameBut(new, rows, t.id)
    BY AppendIs, Zenon
  <1>3. id \in IdsOf(rows) <=> Of(ToSet(rows), id) # {}
    BY Elements
  <1> QED
    BY <1>1, <1>2, <1>3 DEF SameBut

\* What an event that has been handled makes of the rows.
LEMMA RowsReceived ==
    ASSUME FollowInv, NEW e \in Event, NEW new, new = RowsAfter(e), NEW id \in Ids \ doubt,
           e.type = "create" /\ (e.task.id \in IdsOf(table.rows) \/ new = table.rows)
              => id # e.task.id
    PROVE  /\ Single(new, id)
           /\ e.task.id # id => Of(ToSet(new), id) = Of(ToSet(table.rows), id)
           /\ e.task.id = id => \/ e.type = "delete" /\ Of(ToSet(new), id) = {}
                                \/ e.type # "delete" /\ Of(ToSet(new), id) = {e.task}
                                \/ /\ e.type = "update" /\ Of(ToSet(table.rows), id) = {}
                                   /\ Of(ToSet(new), id) = {}
  <1>0. PICK rows, t : rows = table.rows /\ t = e.task
    OBVIOUS
  <1>1. /\ e.type = "update" => new = taskUpdated(rows, t)
        /\ e.type = "delete" => new = taskDeleted(rows, t)
        /\ e.type = "create" => new \in {rows, Append(rows, t)}
        /\ e.type \in {"create", "update", "delete"} /\ t \in Task /\ rows \in Seq(Task)
    BY <1>0, KnownMore, RowsAfterIs
  <1>2. Single(rows, id)
    BY <1>0, KnownMore, KeyedRows DEF RowsAreKeyed
  <1>3. CASE e.type = "update"
    <2>1. /\ Single(new, id)
          /\ id # t.id => Of(ToSet(new), id) = Of(ToSet(rows), id)
          /\ id = t.id => Of(ToSet(new), id) = IF Of(ToSet(rows), id) # {} THEN {t} ELSE {}
      BY <1>1, <1>2, <1>3, RowUpdated
    <2> QED
      BY <1>0, <1>3, <2>1
  <1>4. CASE e.type = "delete"
    <2>1. /\ Single(new, id)
          /\ id # t.id => Of(ToSet(new), id) = Of(ToSet(rows), id)
          /\ id = t.id => Of(ToSet(new), id) = {}
      BY <1>1, <1>2, <1>4, RowDeleted
    <2> QED
      BY <1>0, <1>4, <2>1
  <1>5. CASE e.type = "create" /\ new = rows
    BY <1>0, <1>2, <1>5
  <1>6. CASE e.type = "create" /\ new = Append(rows, t)
    <2>1. id = t.id => id \notin IdsOf(rows)
      BY <1>0, <1>6
    <2>2. /\ Single(new, id)
          /\ id # t.id => Of(ToSet(new), id) = Of(ToSet(rows), id)
          /\ id = t.id => Of(ToSet(new), id) = {t}
      BY <1>1, <1>2, <1>6, <2>1, RowAppended
    <2> QED
      BY <1>0, <1>6, <2>2
  <1> QED
    BY <1>1, <1>3, <1>4, <1>5, <1>6

\* The table handles the first event: where the list and the wire agreed before, they do now.
LEMMA TableReceivesFollows ==
    ASSUME FollowInv, UNCHANGED graph, NEW e, TableReceives(e)
    PROVE  FollowInv'
  <1>1. /\ TypeInv' /\ AreCallsAfter(calls') /\ Informed(calls', {e.task.id}, e.at)
        /\ e = Head(wire) /\ wire # <<>> /\ wire' = Tail(wire) /\ e \in Event
        /\ UNCHANGED <<stored, events>>
        /\ table'.rows = RowsAfter(e) /\ table'.loaded = table.loaded /\ table'.of = table.of
        /\ doubt' = IF e.type = "create"
                       /\ (e.task.id \in IdsOf(table.rows) \/ RowsAfter(e) = table.rows)
                    THEN doubt \cup {e.task.id} ELSE doubt
        /\ table.mounted
    BY KnownMore, TableReceivesTypes DEF TableReceives
  <1>2. WireInv' /\ SnapshotsInv'
    BY <1>1, ReceivedWire
  <1>3. Shifted(wire, wire') /\ e = wire[1]
    BY <1>1, KnownMore, AboutTail, HeadIs
  <1>4. PICK new : new = RowsAfter(e)
    OBVIOUS
  <1>5. ASSUME NEW id \in Ids \ doubt'
        PROVE  /\ Single(new, id)
               /\ e.task.id # id => Of(ToSet(new), id) = Of(ToSet(table.rows), id)
               /\ e.task.id = id => \/ e.type = "delete" /\ Of(ToSet(new), id) = {}
                                    \/ e.type # "delete" /\ Of(ToSet(new), id) = {e.task}
                                    \/ /\ e.type = "update" /\ Of(ToSet(table.rows), id) = {}
                                       /\ Of(ToSet(new), id) = {}
    BY <1>1, <1>4, <1>5, RowsReceived
  <1>6. RowsAreKeyed'
    <2>1. new \in Seq(Task) /\ \A id \in Ids \ doubt' : Single(new, id)
      BY <1>1, <1>4, <1>5 DEF TypeInv, ViewsInv, TableRecord
    <2>2. \A i, j \in DOMAIN new : new[i].id = new[j].id => i = j \/ new[i].id \in doubt'
      BY <2>1, KeyedRows
    <2> QED
      BY <1>1, <1>4, <2>2 DEF RowsAreKeyed
  <1>7. ASSUME table.loaded, NEW id \in Ids \ doubt'
        PROVE  Follows(wire', ToSet(stored), ToSet(new), table.of # All, id)
    <2>1. /\ LastMatches(wire, ToSet(stored), id) /\ Chained(wire, id)
          /\ Follows(wire, ToSet(stored), ToSet(table.rows), table.of # All, id)
      BY <1>1, <1>7, KnownMore
    <2>2. PICK ts, us, p : ts = ToSet(table.rows) /\ us = ToSet(new) /\ p = (table.of # All)
      OBVIOUS
    <2> QED
      BY <1>3, <1>5, <1>7, <2>1, TailFollows
  <1>8. TableInv'
    BY <1>1, <1>4, <1>7 DEF TableInv
  <1>9. GraphInv'
    BY <1>1, NotBoth
  <1> QED
    BY <1>1, <1>2, <1>6, <1>8, <1>9 DEF FollowInv

\* So does the graph, unless the handler throws on an update of a task that it has not.
LEMMA GraphReceivesFollows ==
    ASSUME FollowInv, NEW e, GraphReceives(e)
    PROVE  FollowInv'
  <1>1. /\ TypeInv' /\ AreCallsAfter(calls') /\ Informed(calls', {e.task.id}, e.at)
        /\ e = Head(wire) /\ wire # <<>> /\ wire' = Tail(wire) /\ e \in Event
        /\ UNCHANGED <<stored, events, doubt, table>>
        /\ graph.mounted /\ graph'.mounted = graph.mounted /\ graph'.loaded = graph.loaded
        /\ graph'.tasks = IF Throws(e) THEN graph.tasks ELSE MapAfter(e)
        /\ ~Throws(e) => \A id : Of(graph'.tasks, id) =
                                    IF id # e.task.id THEN Of(graph.tasks, id)
                                    ELSE IF e.type = "delete" THEN {} ELSE {e.task}
    BY KnownMore, GraphReceivesTypes
  <1>2. WireInv' /\ SnapshotsInv'
    BY <1>1, ReceivedWire
  <1>3. Shifted(wire, wire') /\ e = wire[1]
    BY <1>1, KnownMore, AboutTail, HeadIs
  <1>4. PICK ts, us : ts = graph.tasks /\ us = graph'.tasks
    OBVIOUS
  <1>5. ASSUME NEW id
        PROVE  /\ e.task.id # id => Of(us, id) = Of(ts, id)
               /\ e.task.id = id => \/ e.type = "delete" /\ Of(us, id) = {}
                                    \/ e.type # "delete" /\ Of(us, id) = {e.task}
                                    \/ e.type = "update" /\ Of(ts, id) = {} /\ Of(us, id) = {}
    <2>1. CASE Throws(e)
      <3>1. us = ts /\ e.type = "update" /\ Of(ts, e.task.id) = {}
        BY <1>1, <1>4, <2>1 DEF Throws, Nodes, Of
      <3> QED
        BY <3>1
    <2>2. CASE ~Throws(e)
      BY <1>1, <1>4, <2>2
    <2> QED
      BY <2>1, <2>2
  <1>6. ASSUME NEW id \in Ids \ doubt
        PROVE  Follows(wire', ToSet(stored), us, ~graph.loaded, id)
    <2>1. /\ LastMatches(wire, ToSet(stored), id) /\ Chained(wire, id)
          /\ Follows(wire, ToSet(stored), ts, ~graph.loaded, id)
          /\ graph.loaded \in BOOLEAN
      BY <1>1, <1>4, <1>6, KnownMore
    <2> QED
      BY <1>3, <1>5, <2>1, TailFollows
  <1>7. GraphInv'
    BY <1>1, <1>4, <1>6 DEF GraphInv
  <1>8. RowsAreKeyed' /\ TableInv'
    BY <1>1, KnownMore DEF RowsAreKeyed, TableInv
  <1> QED
    BY <1>1, <1>2, <1>7, <1>8 DEF FollowInv

\* With no list there the event is forgotten.
LEMMA SettingsReceiveFollows ==
    ASSUME FollowInv, Shown("settings"), NEW e, Receive(e), UNCHANGED <<calls, doubt, table, graph>>
    PROVE  FollowInv'
  <1>1. /\ TypeInv' /\ AreCallsAfter(calls')
        /\ e = Head(wire) /\ wire # <<>> /\ wire' = Tail(wire) /\ UNCHANGED <<stored, events>>
    BY KnownMore, SettingsReceiveTypes DEF Receive
  <1>2. ~table.mounted /\ ~graph.mounted
    BY DEF Shown
  <1>3. \A d \in calls : d.served /\ Shows(d) => ~d.on
    <2> TAKE d \in calls
    <2> HAVE d.served /\ Shows(d)
    <2>1. d.by \in {"table", "graph", "page"} /\ (d.by = "page" => d.what \in OfGroup)
          /\ (d.on /\ d.by = "table" => table.mounted) /\ (d.on /\ d.by = "graph" => graph.mounted)
      BY Known, KnownMore DEF CallShape, Call
    <2>2. d.what \notin OfGroup
      BY DEF Shows, OfGroup
    <2> QED
      BY <1>2, <2>1, <2>2
  <1>4. WireInv' /\ SnapshotsInv'
    BY <1>1, <1>3, ReceivedWire
  <1>5. RowsAreKeyed' /\ TableInv' /\ GraphInv'
    BY <1>2, KnownMore DEF RowsAreKeyed, TableInv, GraphInv
  <1> QED
    BY <1>1, <1>4, <1>5 DEF FollowInv

-----------------------------------------------------------------------------
(* Steps of the server keep what follows.                                  *)

\* From wire w and tasks ss to wire v and tasks rr nothing of task id has happened, or there
\* is one more event of it, emitted after the first n.
Moved(w, v, ss, rr, id, n) ==
    \/ AsBefore(w, v, id) /\ Of(rr, id) = Of(ss, id)
    \/ \E e \in Event :
              /\ OneMore(w, v, id, e) /\ e.at > n
              /\ Of(rr, id) = IF e.type = "delete" THEN {} ELSE {e.task}
              /\ Of(ss, id) = {} => e.type = "create"

\* What follows the wire and the tasks still does when they have moved.
LEMMA MovedFollows ==
    ASSUME NEW w, NEW v, NEW ss, NEW rr, NEW id, NEW n \in Nat, Moved(w, v, ss, rr, id, n),
           LastMatches(w, ss, id), Chained(w, id)
    PROVE  /\ LastMatches(v, rr, id) /\ Chained(v, id)
           /\ \A ts, partial : Follows(w, ss, ts, partial, id) => Follows(v, rr, ts, partial, id)
  <1>1. CASE AsBefore(w, v, id) /\ Of(rr, id) = Of(ss, id)
    BY <1>1, SameFollows
  <1>2. ASSUME NEW e \in Event, OneMore(w, v, id, e), Of(rr, id) = IF e.type = "delete" THEN {} ELSE {e.task},
               Of(ss, id) = {} => e.type = "create"
        PROVE  /\ LastMatches(v, rr, id) /\ Chained(v, id)
               /\ \A ts, partial : Follows(w, ss, ts, partial, id) => Follows(v, rr, ts, partial, id)
    BY <1>2, MoreFollows
  <1> QED
    BY <1>1, <1>2 DEF Moved

\* So does a snapshot that was taken before.
LEMMA MovedSnapshot ==
    ASSUME NEW w, NEW v, NEW ss, NEW rr, NEW id, NEW n \in Nat, Moved(w, v, ss, rr, id, n),
           NEW c, c.at \in Nat, c.at <= n, Snapshot(w, ss, c, id)
    PROVE  Snapshot(v, rr, c, id)
  <1>1. CASE AsBefore(w, v, id) /\ Of(rr, id) = Of(ss, id)
    BY <1>1, SameFollows
  <1>2. ASSUME NEW e \in Event, OneMore(w, v, id, e), Of(rr, id) = IF e.type = "delete" THEN {} ELSE {e.task},
               Of(ss, id) = {} => e.type = "create", e.at > n
        PROVE  Snapshot(v, rr, c, id)
    <2>1. e.at > c.at
      BY <1>2, EventShape
    <2> QED
      BY <1>2, <2>1, MoreFollows
  <1> QED
    BY <1>1, <1>2 DEF Moved

\* What the answer of call c shows is what the server has, as far as the answer goes.
TellsNow(c, ss) ==
    \A id :
        IF c.what = "load"
        THEN \/ Of(ToSet(c.answer), id) = Of(ss, id)
             \/ c.query # All /\ id \notin IdsOf(c.answer)
        ELSE c.task.id = id => \A t \in Of(ss, id) : Assigned(t, c) = t

\* A snapshot taken now, of which there are no later events.
LEMMA NewSnapshot ==
    ASSUME NEW w, NEW ss, NEW c, TellsNow(c, ss), NEW d, Aged(c, d), NEW id,
           Later(w, d, id) = {}
    PROVE  Snapshot(w, ss, d, id)
  <1>1. /\ d.what = c.what /\ d.answer = c.answer /\ d.query = c.query /\ d.task = c.task
    BY DEF Aged
  <1>2. \A t : Assigned(t, d) = Assigned(t, c)
    BY <1>1 DEF Assigned
  <1> QED
    BY <1>1, <1>2 DEF Snapshot, TellsNow

\* Where the events es leave the wire and the tasks of the server, when the first n of them
\* are kept.
LEMMA EmittedMoves ==
    ASSUME TypeInv, NEW es, AreEmitted(es), NEW cs, CallsOK(cs), Emit(es, cs)
    PROVE  \E lost \in SUBSET Ids :
              /\ doubt' = doubt \cup lost
              /\ es = <<>> => lost = {}
              /\ calls' = WithNews(cs, lost, events')
              /\ events' = events + Len(es) /\ Len(es) \in Nat
              /\ \A id \in Ids \ lost :
                    Moved(wire, wire', ToSet(stored), ToSet(stored'), id, events)
  <1>1. PICK n \in 0 .. Len(es) :
              /\ stored' = After(stored, es)
              /\ events' = events + Len(es) /\ Len(es) \in Nat
              /\ wire' \in Seq(Event) /\ Len(wire') = Len(wire) + n
              /\ \A i \in DOMAIN wire : wire'[i] = wire[i]
              /\ \A i \in 1 .. n : wire'[Len(wire) + i] = es[i]
              /\ Lost(es, n) \in SUBSET Ids
              /\ doubt' = doubt \cup Lost(es, n)
              /\ calls' = WithNews(cs, Lost(es, n), events')
    BY EmitIs
  <1>2. PICK v, ss, rr, new, w :
              /\ v = wire' /\ ss = ToSet(stored) /\ rr = ToSet(stored') /\ new = stored' /\ w = wire
    OBVIOUS
  <1>3. /\ w \in Seq(Event) /\ es \in Seq(Event) /\ v \in Seq(Event) /\ events \in Nat
        /\ DOMAIN es = 1 .. Len(es)
        /\ \A i, j \in DOMAIN es : es[i].task.id = es[j].task.id => i = j
    BY <1>1, <1>2 DEF AreEmitted, TypeInv, ServerInv
  <1>4. /\ \A id : (\A i \in 1 .. n : es[i].task.id # id) => AsBefore(w, v, id)
        /\ \A k \in 1 .. n : OneMore(w, v, es[k].task.id, es[k])
    <2>1. Len(v) = Len(w) + n /\ (\A i \in DOMAIN w : v[i] = w[i])
          /\ \A i \in 1 .. n : v[Len(w) + i] = es[i]
      BY <1>1, <1>2
    <2> QED
      BY <1>3, <2>1, AboutMore
  <1>5. /\ \A id : (\A e \in ToSet(es) : e.task.id # id) => Of(rr, id) = Of(ss, id)
        /\ \A e \in ToSet(es) : Of(rr, e.task.id) = IF e.type = "delete" THEN {} ELSE {e.task}
    <2>1. stored \in Seq(Task) /\ Distinct(stored) /\ new = After(stored, es)
      BY <1>1, <1>2 DEF TypeInv, ServerInv
    <2>2. AreEmitted(es)
      OBVIOUS
    <2>3. TasksAfter(ss, es, rr)
      BY <1>2, <2>1, <2>2, AfterIs
    <2> QED
      BY <2>3 DEF TasksAfter
  <1>6. \A e \in ToSet(es) : \E i \in DOMAIN es : e = es[i]
    BY <1>3, Elements
  <1>7. ASSUME NEW id \in Ids \ Lost(es, n)
        PROVE  Moved(w, v, ss, rr, id, events)
    <2>1. CASE \A i \in 1 .. n : es[i].task.id # id
      <3>1. \A i \in DOMAIN es : es[i].task.id # id
        <4> TAKE i \in DOMAIN es
        <4>1. i \in 1 .. n \/ i \in (n + 1) .. Len(es)
          BY <1>1, <1>3
        <4> QED
          BY <1>7, <2>1, <4>1 DEF Lost
      <3>2. AsBefore(w, v, id) /\ Of(rr, id) = Of(ss, id)
        BY <1>4, <1>5, <1>6, <2>1, <3>1
      <3> QED
        BY <3>2 DEF Moved
    <2>2. ASSUME NEW k \in 1 .. n, es[k].task.id = id
          PROVE  Moved(w, v, ss, rr, id, events)
      <3>1. PICK e : e = es[k]
        OBVIOUS
      <3>2. k \in DOMAIN es /\ k \in Nat \ {0} /\ e \in Event /\ e \in ToSet(es)
        BY <1>1, <1>3, <3>1, Elements
      <3>3. e.at = events + k /\ (e.type # "create" => id \in IdsOf(stored))
        BY <2>2, <3>1, <3>2 DEF AreEmitted
      <3>4. OneMore(w, v, id, e) /\ e.at > events
        BY <1>3, <1>4, <2>2, <3>1, <3>2, <3>3
      <3>5. Of(rr, id) = IF e.type = "delete" THEN {} ELSE {e.task}
        BY <1>5, <2>2, <3>1, <3>2
      <3>6. Of(ss, id) = {} => e.type = "create"
        BY <1>2, <3>3, Elements DEF TypeInv, ServerInv
      <3> QED
        BY <3>2, <3>4, <3>5, <3>6 DEF Moved
    <2> QED
      BY <2>1, <2>2
  <1>8. es = <<>> => Lost(es, n) = {}
    BY <1>1 DEF Lost
  <1> QED
    BY <1>1, <1>2, <1>7, <1>8

\* The rows and the tasks that are in doubt, when the rows are kept.
LEMMA RowsStayKeyed ==
    ASSUME FollowInv, UNCHANGED table, doubt \subseteq doubt'
    PROVE  RowsAreKeyed'
  BY KnownMore DEF RowsAreKeyed

\* A handler, or another client, has emitted es; the calls are those that were, and one
\* whose answer tells what the server has.
LEMMA EmitFollows ==
    ASSUME FollowInv, TypeInv', UNCHANGED <<table, graph>>,
           NEW es, AreEmitted(es), NEW cs, CallsOK(cs), Emit(es, cs),
           \A c \in cs : \/ c \in calls
                         \/ c.served /\ Shows(c) => c.at = events + Len(es) /\ TellsNow(c, ToSet(stored'))
    PROVE  FollowInv'
  <1>1. PICK lost \in SUBSET Ids :
              /\ doubt' = doubt \cup lost
              /\ es = <<>> => lost = {}
              /\ calls' = WithNews(cs, lost, events')
              /\ events' = events + Len(es) /\ Len(es) \in Nat
              /\ \A id \in Ids \ lost :
                    Moved(wire, wire', ToSet(stored), ToSet(stored'), id, events)
    BY KnownMore, EmittedMoves
  <1>2. PICK w, v, ss, rr, n, m :
              /\ w = wire /\ v = wire' /\ ss = ToSet(stored) /\ rr = ToSet(stored') /\ n = events
              /\ m = events'
    OBVIOUS
  <1>3. n \in Nat /\ m \in Nat /\ v \in Seq(Event) /\ \A i \in DOMAIN v : v[i].at \in Nat /\ v[i].at <= m
    <2>1. n \in Nat /\ m \in Nat /\ v \in Seq(Event) /\ \A i \in DOMAIN v : v[i].at <= m
      BY <1>2, KnownMore DEF TypeInv, ServerInv
    <2>2. \A i \in DOMAIN v : v[i] \in Event
      BY <2>1
    <2> QED
      BY <2>1, <2>2, EventShape
  <1>4. ASSUME NEW id \in Ids \ doubt'
        PROVE  /\ LastMatches(v, rr, id) /\ Chained(v, id)
               /\ \A ts, partial : Follows(w, ss, ts, partial, id) => Follows(v, rr, ts, partial, id)
    <2>1. Moved(w, v, ss, rr, id, n) /\ LastMatches(w, ss, id) /\ Chained(w, id)
      BY <1>1, <1>2, <1>4, KnownMore
    <2> QED
      BY <1>3, <2>1, MovedFollows
  <1>5. WireInv'
    BY <1>2, <1>4 DEF WireInv
  <1>6. TableInv'
    <2> SUFFICES ASSUME table.loaded, NEW id \in Ids \ doubt'
                 PROVE  Follows(v, rr, ToSet(table.rows), table.of # All, id)
      BY <1>2 DEF TableInv
    <2>1. Follows(w, ss, ToSet(table.rows), table.of # All, id)
      BY <1>1, <1>2, KnownMore
    <2> QED
      BY <1>4, <2>1
  <1>7. GraphInv'
    <2> SUFFICES ASSUME graph.mounted, NEW id \in Ids \ doubt'
                 PROVE  Follows(v, rr, graph.tasks, ~graph.loaded, id)
      BY <1>2 DEF GraphInv
    <2>1. Follows(w, ss, graph.tasks, ~graph.loaded, id)
      BY <1>1, <1>2, KnownMore
    <2> QED
      BY <1>4, <2>1
  <1>8. RowsAreKeyed'
    BY <1>1, RowsStayKeyed
  <1>9. ASSUME NEW d \in calls', d.served, d.on, Shows(d), NEW id \in Ids \ d.news
        PROVE  Snapshot(v, rr, d, id)
    <2>1. PICK c \in cs : /\ Aged(c, d)
                          /\ IF c.served /\ Shows(c) /\ c.at < m THEN d.news = c.news \cup lost ELSE d = c
      BY <1>1, <1>2, WithNewsIs
    <2>2. c.served /\ c.on /\ Shows(c) /\ id \in Ids \ c.news /\ c \in Call /\ c.at \in Nat /\ d.at = c.at
      BY <1>9, <2>1 DEF Aged, Shows, CallsOK, Call
    <2>3. CASE c \in calls
      <3>1. c.at <= n
        BY <1>2, <2>3, KnownMore, Known DEF CallOK
      <3>2. Snapshot(w, ss, c, id)
        BY <1>2, <2>2, <2>3, KnownMore
      <3>3. id \in Ids \ lost
        <4>1. CASE es = <<>>
          BY <1>1, <4>1
        <4>2. CASE es # <<>>
          <5>1. Len(es) # 0
            BY <4>2 DEF AreEmitted
          <5>2. c.at < m
            BY <1>1, <1>2, <1>3, <2>2, <3>1, <5>1
          <5> QED
            BY <1>9, <2>1, <2>2, <5>2
        <4> QED
          BY <4>1, <4>2
      <3>4. Moved(w, v, ss, rr, id, n)
        BY <1>1, <1>2, <3>3
      <3>5. Snapshot(v, rr, c, id)
        BY <1>3, <2>2, <3>1, <3>2, <3>4, MovedSnapshot
      <3> QED
        BY <2>1, <3>5, AgedSnapshot
    <2>4. CASE c \notin calls
      <3>1. c.at = m /\ TellsNow(c, rr)
        BY <1>1, <1>2, <2>2, <2>4
      <3>2. Later(v, d, id) = {}
        <4>1. \A i \in DOMAIN v : ~(v[i].at > d.at)
          BY <1>3, <2>2, <3>1
        <4> QED
          BY <4>1 DEF Later, About
      <3> QED
        BY <2>1, <3>1, <3>2, NewSnapshot
    <2> QED
      BY <2>3, <2>4
  <1>10. SnapshotsInv'
    BY <1>2, <1>9 DEF SnapshotsInv
  <1> QED
    BY <1>5, <1>6, <1>7, <1>8, <1>10 DEF FollowInv

\* Others write, the websocket opens or closes, a call is handled.
LEMMA OthersWriteFollows ==
    ASSUME FollowInv, UNCHANGED <<table, graph>>, OthersWrite
    PROVE  FollowInv'
  <1>1. TypeInv' /\ \E e \in Event : AreEmitted(<<e>>) /\ Emit(<<e>>, calls)
    BY KnownMore, OthersWriteTypes
  <1>2. CallsOK(calls)
    BY KnownMore, Known
  <1> QED
    BY <1>1, <1>2, EmitFollows

LEMMA SocketFollows ==
    ASSUME FollowInv, UNCHANGED <<table, graph>>, SocketOpens \/ SocketCloses
    PROVE  FollowInv'
  <1>0. TypeInv' /\ CallsOK(calls)
    BY KnownMore, Known, SocketTypes
  <1>1. CASE SocketOpens
    <2>1. UNCHANGED <<stored, wire, calls, doubt>>
      BY <1>1 DEF SocketOpens
    <2>2. AreCallsAfter(calls')
      <3>1. \A d \in calls : \E c \in calls : Aged(c, d)
        BY KnownMore, Known
      <3> QED
        BY <1>0, <2>1, <3>1, OlderCalls
    <2> QED
      BY <1>0, <2>1, <2>2, StepsThatShowNothing
  <1>2. CASE SocketCloses
    <2>0. PICK m : m = events + 1
      OBVIOUS
    <2>1. PICK lost : /\ lost = IdsOf([i \in DOMAIN wire |-> wire[i].task])
                      /\ doubt' = doubt \cup lost /\ calls' = WithNews(calls, lost, m)
                      /\ wire' = <<>> /\ stored' = stored
      BY <1>2, <2>0 DEF SocketCloses
    <2>2. \A i \in DOMAIN wire : wire[i] \in Event /\ wire[i].task.id \in Ids
      BY KnownMore, EventShape
    <2>3. lost \in SUBSET Ids /\ \A i \in DOMAIN wire : wire[i].task.id \in lost
      BY <2>1, <2>2 DEF IdsOf
    <2>4. \A id \in Ids \ lost : AsBefore(wire, <<>>, id)
      BY <2>3 DEF AsBefore, About
    <2>5. PICK w, v, ss : w = wire /\ v = <<>> /\ ss = ToSet(stored)
      OBVIOUS
    <2>6. ASSUME NEW id \in Ids \ lost
          PROVE  /\ LastMatches(w, ss, id) => LastMatches(v, ss, id)
                 /\ Chained(w, id) => Chained(v, id)
                 /\ \A c : Snapshot(w, ss, c, id) => Snapshot(v, ss, c, id)
                 /\ \A ts, partial : Follows(w, ss, ts, partial, id) => Follows(v, ss, ts, partial, id)
      <3>1. AsBefore(w, v, id)
        BY <2>4, <2>5
      <3> QED
        BY <3>1, SameFollows
    <2>7. WireInv'
      BY <2>1, <2>5, <2>6, KnownMore DEF WireInv
    <2>8. TableInv'
      <3> SUFFICES ASSUME table.loaded, NEW id \in Ids \ doubt'
                   PROVE  Follows(v, ss, ToSet(table.rows), table.of # All, id)
        BY <2>1, <2>5 DEF TableInv
      <3>1. Follows(w, ss, ToSet(table.rows), table.of # All, id)
        BY <2>1, <2>5, KnownMore
      <3> QED
        BY <2>1, <2>6, <3>1
    <2>9. GraphInv'
      <3> SUFFICES ASSUME graph.mounted, NEW id \in Ids \ doubt'
                   PROVE  Follows(v, ss, graph.tasks, ~graph.loaded, id)
        BY <2>1, <2>5 DEF GraphInv
      <3>1. Follows(w, ss, graph.tasks, ~graph.loaded, id)
        BY <2>1, <2>5, KnownMore
      <3> QED
        BY <2>1, <2>6, <3>1
    <2>10. RowsAreKeyed'
      BY <2>1, RowsStayKeyed
    <2>11. ASSUME NEW d \in calls', d.served, d.on, Shows(d), NEW id \in Ids \ d.news
           PROVE  Snapshot(v, ss, d, id)
      <3>1. PICK c \in calls :
               /\ Aged(c, d)
               /\ IF c.served /\ Shows(c) /\ c.at < m THEN d.news = c.news \cup lost ELSE d = c
        <4>1. calls' = WithNews(calls, lost, m) /\ lost \in SUBSET Ids /\ CallsOK(calls) /\ d \in calls'
          BY <1>0, <2>1, <2>3
        <4> QED
          BY <4>1, WithNewsIs
      <3>2. c.served /\ c.on /\ Shows(c) /\ id \in Ids \ c.news
        BY <2>11, <3>1 DEF Aged, Shows
      <3>3. c.at < m
        <4>1. c.at \in Nat /\ events \in Nat /\ c.at <= events
          BY KnownMore, Known DEF CallOK, Call, ServerInv
        <4> QED
          BY <2>0, <4>1
      <3>4. id \notin lost
        BY <2>11, <3>1, <3>2, <3>3
      <3>5. Snapshot(w, ss, c, id)
        BY <2>5, <3>2, KnownMore
      <3>6. Snapshot(v, ss, c, id)
        BY <2>6, <3>2, <3>4, <3>5
      <3> QED
        BY <3>1, <3>6, AgedSnapshot
    <2>12. SnapshotsInv'
      BY <2>1, <2>5, <2>11 DEF SnapshotsInv
    <2> QED
      BY <1>0, <2>7, <2>8, <2>9, <2>10, <2>12 DEF FollowInv
  <1> QED
    BY <1>1, <1>2

\* A list that was asked for has the tasks of the server that it has the ids of.
LEMMA ListedTells ==
    ASSUME stored \in Seq(Task), Distinct(stored), NEW q \in Query, NEW ts, ts = Listed(q), NEW id
    PROVE  \/ Of(ToSet(ts), id) = Of(ToSet(stored), id)
           \/ q # All /\ id \notin IdsOf(ts)
  <1>1. /\ ts \in Seq(Task) /\ ToSet(ts) \subseteq ToSet(stored)
        /\ q = All => ToSet(ts) = ToSet(stored)
    BY ListedIs
  <1>2. \A t, u \in ToSet(stored) : t.id = u.id => t = u
    BY DEF Distinct, ToSet
  <1>3. id \in IdsOf(ts) => Of(ToSet(ts), id) # {}
    BY <1>1, Elements
  <1>4. CASE q = All
    BY <1>1, <1>4
  <1>5. CASE id \in IdsOf(ts)
    BY <1>1, <1>2, <1>3, <1>5 DEF Of
  <1> QED
    BY <1>4, <1>5

\* What a pause or its end has written is what is shown when it is answered.
LEMMA AssignedAgain ==
    ASSUME NEW c, c.what \in {"pause", "resume"}, NEW d, d.what = c.what,
           NEW t \in Task, NEW u, u = Changed(t, c)
    PROVE  Assigned(u, d) = u
  <1>1. u = [t EXCEPT !.isPaused = (c.what = "pause")]
    BY DEF Changed, Task
  <1>2. Assigned(u, d) = [u EXCEPT !.isPaused = (c.what = "pause")]
    BY DEF Assigned
  <1> QED
    BY <1>1, <1>2 DEF Task

\* The call that the server has handled tells what the server has then.
LEMMA DoneTells ==
    ASSUME TypeInv, NEW c \in calls, ~c.served,
           c.what \in OfTask \ {"create"} => c.task.id \in IdsOf(stored),
           NEW es, es = EventsOf(c), NEW d, d = DoneOf(c), Shows(d),
           NEW new, new = After(stored, es)
    PROVE  d.at = events + Len(es) /\ TellsNow(d, ToSet(new))
  <1>1. /\ stored \in Seq(Task) /\ Distinct(stored) /\ c \in Call /\ events \in Nat
    BY Known DEF ServerInv
  <1>2. /\ AreEmitted(es) /\ DOMAIN es = DOMAIN Written(c)
        /\ c.what = "load" => es = <<>>
        /\ c.what \in OfTask \ {"create"} 
                 => es # <<>> /\ \A e \in ToSet(es) : e.task.id = c.task.id
    BY EventsOfIs
  <1>3. TasksAfter(ToSet(stored), es, ToSet(new))
    BY <1>1, <1>2, AfterIs
  <1>4. /\ d.what = c.what /\ d.query = c.query /\ d.task = c.task
        /\ d.what = "load" => d.answer = Listed(c.query) /\ d.at = events
        /\ d.what # "load" =>
                 /\ d.at = events + Len(es) /\ DOMAIN d.answer = DOMAIN es
                 /\ \A i \in DOMAIN es : d.answer[i] = es[i].task
    BY DoneIs
  <1>5. CASE d.what = "load"
    <2>1. es = <<>> /\ Len(es) = 0 /\ d.at = events + Len(es)
      BY <1>1, <1>2, <1>4, <1>5
    <2>2. \A id : Of(ToSet(new), id) = Of(ToSet(stored), id)
      <3>1. ToSet(es) = {}
        BY <2>1 DEF ToSet
      <3> QED
        BY <1>3, <3>1 DEF TasksAfter
    <2>3. c.query \in Query
      BY <1>1 DEF Call
    <2>4. \A id : \/ Of(ToSet(d.answer), id) = Of(ToSet(stored), id)
                  \/ d.query # All /\ id \notin IdsOf(d.answer)
      <3> TAKE id
      <3>1. PICK ts, q : ts = d.answer /\ q = d.query
        OBVIOUS
      <3>2. q \in Query /\ ts = Listed(q)
        BY <1>4, <1>5, <2>3, <3>1
      <3> QED
        BY <1>1, <3>1, <3>2, ListedTells
    <2> QED
      BY <1>5, <2>1, <2>2, <2>4 DEF TellsNow
  <1>6. CASE d.what \in {"pause", "resume", "reset"}
    <2>1. /\ es # <<>> /\ \A e \in ToSet(es) : e.task.id = c.task.id
          /\ d.at = events + Len(es) /\ \A i \in DOMAIN es : d.answer[i] = es[i].task
      BY <1>2, <1>4, <1>6 DEF OfTask
    <2>2. PICK e : e = es[1]
      OBVIOUS
    <2>3. es \in Seq(Event) /\ 1 \in DOMAIN es /\ e \in ToSet(es)
      BY <1>2, <2>1, <2>2 DEF AreEmitted, ToSet
    <2>4. e.type = Emitted(c, Written(c)[1]) /\ e.task = Changed(Written(c)[1], c)
      BY <1>2, <2>2, <2>3 DEF EventsOf
    <2>5. e.type = "update"
      BY <1>4, <1>6, <2>4 DEF Emitted
    <2>6. Of(ToSet(new), c.task.id) = {e.task}
      BY <1>3, <2>1, <2>3, <2>5 DEF TasksAfter
    <2>7. Assigned(e.task, d) = e.task
      <3>1. CASE d.what = "reset"
        BY <2>1, <2>2, <2>3, <3>1 DEF Assigned
      <3>2. CASE d.what # "reset"
        <4>1. Written(c)[1] \in Task
          <5>1. Written(c) \in Seq(Task) /\ 1 \in DOMAIN Written(c)
            BY <1>2, <2>3, WrittenIs
          <5> QED
            BY <5>1
        <4>2. PICK t, u : t = Written(c)[1] /\ u = e.task
          OBVIOUS
        <4>3. c.what \in {"pause", "resume"} /\ d.what = c.what /\ t \in Task /\ u = Changed(t, c)
          BY <1>4, <1>6, <2>4, <3>2, <4>1, <4>2
        <4> QED
          BY <4>2, <4>3, AssignedAgain
      <3> QED
        BY <3>1, <3>2
    <2> QED
      BY <1>4, <1>6, <2>1, <2>6, <2>7 DEF TellsNow
  <1> QED
    BY <1>5, <1>6 DEF Shows

LEMMA ServeFollows ==
    ASSUME FollowInv, UNCHANGED <<table, graph>>, NEW c \in calls, Serve(c)
    PROVE  FollowInv'
  <1> DEFINE es == EventsOf(c)
             d == DoneOf(c)
             cs == (calls \ {c}) \cup {x \in {d} : Matters(x)}
  <1>1. /\ ~c.served
        /\ c.what \in OfTask \ {"create"} => c.task.id \in IdsOf(stored)
        /\ Emit(es, cs)
    BY ServeIs
  <1>2. TypeInv /\ TypeInv' /\ AreEmitted(es)
    BY <1>1, KnownMore, ServeTypes, EventsOfIs
  <1>3. CallsOK(cs)
    <2>1. cs \in SUBSET ((calls \ {c}) \cup {DoneOf(c)})
      OBVIOUS
    <2> HIDE DEF cs
    <2> QED
      BY <1>1, <1>2, <2>1, ServedCallsOK
  <1>4. Shows(d) => d.at = events + Len(es) /\ TellsNow(d, ToSet(stored'))
    <2>1. PICK new : new = stored'
      OBVIOUS
    <2>2. new = After(stored, es)
      BY <1>1, <2>1 DEF Emit
    <2>3. Shows(d) => d.at = events + Len(es) /\ TellsNow(d, ToSet(new))
      BY <1>1, <1>2, <2>2, DoneTells
    <2> QED
      BY <2>1, <2>3
  <1>5. \A x \in cs : x \in calls \/ x = d
    OBVIOUS
  <1> HIDE DEF es, d, cs
  <1> QED
    BY <1>1, <1>2, <1>3, <1>4, <1>5, EmitFollows

-----------------------------------------------------------------------------
(* The specification.                                                      *)

\* The invariant holds at first and after every step.
LEMMA InitFollows == Init => FollowInv
  <1> SUFFICES ASSUME Init
               PROVE  FollowInv
    OBVIOUS
  <1>1. wire = <<>> /\ calls = {} /\ table = Unmounted /\ graph = GraphUnmounted
    BY DEF Init, ServerInit
  <1>2. table.rows = <<>> /\ ~table.loaded /\ ~graph.mounted
    BY <1>1 DEF Unmounted, GraphUnmounted
  <1>3. WireInv
    BY <1>1 DEF WireInv, LastMatches, Chained, About
  <1>4. SnapshotsInv /\ RowsAreKeyed /\ TableInv /\ GraphInv
    BY <1>1, <1>2 DEF SnapshotsInv, RowsAreKeyed, TableInv, GraphInv
  <1> QED
    BY <1>3, <1>4, InitTypes DEF FollowInv

LEMMA StutterFollows == ASSUME FollowInv, UNCHANGED vars PROVE FollowInv'
  <1>1. UNCHANGED <<stored, socket, wire, calls, events, doubt, table, graph>>
    BY DEF vars
  <1>2. TypeInv' /\ CallsOK(calls) /\ \A d \in calls : \E c \in calls : Aged(c, d)
    BY KnownMore, Known, StutterTypes
  <1>3. AreCallsAfter(calls')
    BY <1>1, <1>2, OlderCalls
  <1> QED
    BY <1>1, <1>2, <1>3, StepsThatShowNothing

LEMMA NextFollows == ASSUME FollowInv, [Next]_vars PROVE FollowInv'
  <1>1. CASE UNCHANGED vars
    BY <1>1, StutterFollows
  <1>2. CASE ServerStep /\ UNCHANGED <<table, graph>>
    BY <1>2, SocketFollows, OthersWriteFollows, ServeFollows DEF ServerStep
  <1>3. CASE TableStep /\ UNCHANGED graph
    BY <1>3, UserFollows, TableCommandEndsFollows DEF TableStep
  <1>4. CASE GraphStep \/ PeriodEnds
    BY <1>4, UserFollows
  <1>5. CASE Answered
    BY <1>5, TableLoadedFollows, GraphLoadEndsFollows, GraphCommandEndsFollows, UserFollows
       DEF Answered
  <1>6. CASE PageReceives
    BY <1>6, TableReceivesFollows, GraphReceivesFollows, SettingsReceiveFollows DEF PageReceives
  <1>7. CASE \E tab \in Tabs : OpenTab(tab)
    BY <1>7, OpenTabFollows
  <1>8. CASE \E what \in GroupCommands : GroupCommand(what)
    BY <1>8, UserFollows
  <1> QED
    BY <1>1, <1>2, <1>3, <1>4, <1>5, <1>6, <1>7, <1>8 DEF Next

\* With no event to come, to follow is to show what the server has.
LEMMA SettledFollows ==
    ASSUME NEW ss, NEW ts, NEW partial, NEW id, Follows(<<>>, ss, ts, partial, id)
    PROVE  Of(ts, id) = Of(ss, id) \/ (partial /\ Of(ts, id) = {})
  <1>1. About(<<>>, id) = {}
    BY DEF About
  <1> QED
    BY <1>1 DEF Follows, Renewed

\* The invariant implies what is promised of the table and of the graph.
LEMMA FollowsTable == FollowInv => TableFollows
  <1> SUFFICES ASSUME FollowInv, wire = <<>>, table.loaded, NEW id \in Ids \ doubt
               PROVE  LET rows == ToSet(table.rows)
                      IN  \/ Same(rows, ToSet(stored), id)
                          \/ table.of # All /\ id \notin IdsOf(table.rows)
    BY DEF TableFollows, Settled
  <1>1. PICK ss, ts, partial, rows : ss = ToSet(stored) /\ ts = ToSet(table.rows)
                                     /\ partial = (table.of # All) /\ rows = table.rows
    OBVIOUS
  <1>2. Follows(<<>>, ss, ts, partial, id)
    BY <1>1, KnownMore
  <1>3. Of(ts, id) = Of(ss, id) \/ (partial /\ Of(ts, id) = {})
    BY <1>2, SettledFollows
  <1>4. Of(ts, id) = {} => id \notin IdsOf(rows)
    BY <1>1, KnownMore, Elements
  <1> QED
    BY <1>1, <1>3, <1>4 DEF Same, Of

LEMMA FollowsGraph == FollowInv => GraphFollows
  <1> SUFFICES ASSUME FollowInv, wire = <<>>, graph.loaded, NEW id \in Ids \ doubt
               PROVE  Same(graph.tasks, ToSet(stored), id)
    BY DEF GraphFollows, Settled
  <1>1. graph.mounted
    BY KnownMore DEF TypeInv, ViewsInv
  <1>2. PICK ss, ts, partial : ss = ToSet(stored) /\ ts = graph.tasks /\ partial = ~graph.loaded
    OBVIOUS
  <1>3. Follows(<<>>, ss, ts, partial, id)
    BY <1>1, <1>2, KnownMore
  <1>4. Of(ts, id) = Of(ss, id)
    BY <1>2, <1>3, SettledFollows
  <1> QED
    BY <1>2, <1>4 DEF Same, Of

\* A task has two rows of the table only when its creation was received after a load that had
\* it, or when its reset was answered to the button of another row: for any tasks, rows,
\* queries, calls in flight and size of the feed.
THEOREM ViewsRowsAreKeyed == Spec => []RowsAreKeyed
  <1>1. FollowInv => RowsAreKeyed
    BY DEF FollowInv
  <1> QED
    BY <1>1, InitFollows, NextFollows, PTL DEF Spec

\* When everything has been answered and handled, the loaded table shows each task as the server
\* has it, but for tasks in doubt, in whatever order answers and events have come.
THEOREM ViewsTableFollows == Spec => []TableFollows
  <1> QED
    BY InitFollows, NextFollows, FollowsTable, PTL DEF Spec

\* When everything has been answered and handled, the loaded graph has each task as the server
\* has it, and no other, but for tasks in doubt.
THEOREM ViewsGraphFollows == Spec => []GraphFollows
  <1> QED
    BY InitFollows, NextFollows, FollowsGraph, PTL DEF Spec
==============================================================================

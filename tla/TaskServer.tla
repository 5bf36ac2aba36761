----------------------------- MODULE TaskServer -----------------------------
(***************************************************************************)
(* What the views of a task group talk to: the tasks of the group at the   *)
(* server, the HTTP calls in flight (stores/task-store.ts and              *)
(* stores/task-group-store.ts of src/crew/crew-go-ui/src) and the          *)
(* websocket with the events of the group.                                 *)
(*                                                                         *)
(* The server is what its clients see of it; Execution and TaskFeed model  *)
(* the rest.  A handler is one step, which writes tasks and emits an event *)
(* for each; other clients and executions write at any time.  An answer    *)
(* holds what the handler saw and arrives at any later time, in any order. *)
(* Events arrive in order; one emitted while the feed is full or the       *)
(* socket is not open is lost (TaskFeed, BehindOnlyIfDropped).             *)
(*                                                                         *)
(* A task is its id, isPaused and a status: done (isComplete), spent       *)
(* (incomplete and no attempts left) or todo.                              *)
(***************************************************************************)
EXTENDS Naturals, Sequences, FiniteSets, SequencesExt

CONSTANTS
    Ids,            \* ids of tasks
    Found,          \* those whose name has the searched text in it
    Seeds,          \* those of seed tasks
    InitStored,     \* tasks of the group at first, in their order of creation
    Forms,          \* tasks that the user's forms may ask for (a bound)
    Writes,         \* tasks that others write (a bound)
    FeedCap,        \* events between a handler and the page
    MaxEvents       \* users write while fewer events were emitted (a bound)

Statuses == {"todo", "spent", "done"}

Task == [id : Ids, isPaused : BOOLEAN, status : Statuses]

IdsOf(ts) == {ts[i].id : i \in DOMAIN ts}

\* The member of I that j - 1 others precede.
Nth(I, j) == CHOOSE i \in I : Cardinality({k \in I : k <= i}) = j

\* The elements of ts that are in T, in their order.  A definition without recursion,
\* which SelectSeq has and proofs cannot use.
Only(ts, T) ==
    LET I == {i \in DOMAIN ts : ts[i] \in T}
    IN  [j \in 1 .. Cardinality(I) |-> ts[Nth(I, j)]]

ASSUME ServerAssumption ==
    /\ Found \subseteq Ids /\ Seeds \subseteq Ids /\ Forms \cup Writes \subseteq Task
    /\ InitStored \in Seq(Task) /\ Cardinality(IdsOf(InitStored)) = Len(InitStored)
    /\ FeedCap \in Nat \ {0} /\ MaxEvents \in Nat

VARIABLES
    stored,     \* tasks of the group at the server, in their order of creation
    socket,     \* the websocket: connecting, open or closed
    wire,       \* events emitted and not yet handled by the page
    calls,      \* HTTP calls in flight
    events,     \* how many events were emitted
    doubt       \* history: tasks whose last state the view may have missed

serverVars == <<stored, socket, wire, calls, events, doubt>>

-----------------------------------------------------------------------------
(* Calls and events.                                                       *)

\* A page of the list, as getTasks asks for it; size 0 stands for all.
Query == [page : Nat \ {0}, size : Nat, search : BOOLEAN, skip : BOOLEAN]

All == [page |-> 1, size |-> 0, search |-> FALSE, skip |-> FALSE]

NoTask == [id |-> 0, isPaused |-> FALSE, status |-> "todo"]

OfTask == {"pause", "resume", "reset", "retry", "delete", "save", "create"}

OfGroup == {"resetGroup", "retryGroup", "pauseGroup", "resumeGroup"}

\* A call of the stores: what for, by which view, of which page of the list or
\* with which task; once it is served, what the handler saw, after how many
\* events, and the tasks of which the page has had later news.  on: is what the
\* answer is for still shown?  row: the row of the table whose buttons asked, or whose
\* object the answer goes to; 0 for all else.  then: the button of the group that waits.
Call == [ no     : Nat,
          what   : {"load"} \cup OfTask \cup OfGroup,
          by     : {"table", "graph", "page"},
          query  : Query,
          task   : Task \cup {NoTask},
          served : BOOLEAN,
          answer : Seq(Task),
          at     : Nat,
          news   : SUBSET Ids,
          on     : BOOLEAN,
          row    : Nat,
          then   : {"nothing"} \cup OfGroup ]

\* What tells calls apart; no does so for those that ask for the same.
Key(c) == <<c.no, c.what, c.by, c.query, c.task>>

Numbered(c) ==
    [c EXCEPT !.no = CHOOSE n \in 0 .. Cardinality(calls) :
                         \A d \in calls : Key(d) # Key([c EXCEPT !.no = n])]

NewCall(what, by, query, task) ==
    Numbered([ no |-> 0, what |-> what, by |-> by, query |-> query, task |-> task,
               served |-> FALSE, answer |-> <<>>, at |-> 0, news |-> {}, on |-> TRUE,
               row |-> 0, then |-> "nothing" ])

Event == [type : {"create", "update", "delete"}, task : Task, at : Nat]

\* Is what the handler saw, or was asked to write, shown when the call ends?
Shows(c) == c.what \in {"load", "pause", "resume", "reset"}

\* Does a call still do anything?  One of a view that is gone is answered to nobody.
Matters(c) == c.on \/ c.then # "nothing" \/ (c.what # "load" /\ ~c.served)

\* Calls cs once the page has had news of ids, emitted as event number n.
WithNews(cs, ids, n) ==
    {IF c.served /\ Shows(c) /\ c.at < n THEN [c EXCEPT !.news = @ \cup ids] ELSE c : c \in cs}

ServerTypeOK ==
    /\ stored \in Seq(Task) /\ Cardinality(IdsOf(stored)) = Len(stored)
    /\ socket \in {"connecting", "open", "closed"}
    /\ wire \in Seq(Event) /\ Len(wire) <= FeedCap
    /\ calls \subseteq Call /\ \A c, d \in calls : c = d \/ Key(c) # Key(d)
    /\ events \in Nat /\ doubt \subseteq Ids

ServerInit ==
    /\ stored = InitStored /\ socket = "connecting" /\ wire = <<>>
    /\ events = 0 /\ doubt = {}

-----------------------------------------------------------------------------
(* The handlers.                                                           *)

\* GetTasksInGroup: search, filter, then one page.
Listed(q) ==
    LET hits == Only(stored, {t \in Task : /\ q.search => t.id \in Found
                                           /\ q.skip => t.status # "done"})
        size == IF q.size = 0 THEN Len(hits) ELSE q.size
    IN  SubSeq(hits, (q.page - 1) * size + 1,
                     IF q.page * size < Len(hits) THEN q.page * size ELSE Len(hits))

\* What a command makes of a task.
Changed(t, c) ==
    CASE c.what \in {"pause", "pauseGroup"}   -> [t EXCEPT !.isPaused = TRUE]
      [] c.what \in {"resume", "resumeGroup"} -> [t EXCEPT !.isPaused = FALSE]
      [] c.what \in {"reset", "resetGroup"}   -> [t EXCEPT !.status = "todo"]
      [] c.what \in {"retry", "retryGroup"}   ->
             [t EXCEPT !.status = IF @ = "spent" THEN "todo" ELSE @]
      [] c.what \in {"create", "save"}        -> c.task
      [] OTHER                                -> t

\* Tasks that a command writes, and the event that it emits for each.
Written(c) ==
    CASE c.what = "load"       -> <<>>
      [] c.what = "create"     -> <<c.task>>
      [] c.what = "retryGroup" -> Only(stored, {t \in Task : t.status # "done"})
      [] c.what \in OfGroup    -> stored
      [] OTHER                 -> Only(stored, {t \in Task : t.id = c.task.id})

Emitted(c, t) ==
    IF \/ c.what = "delete"
       \/ c.what = "resetGroup" /\ t.id \notin Seeds /\ IdsOf(stored) \cap Seeds # {}
    THEN "delete"
    ELSE IF c.what = "create" THEN "create" ELSE "update"

\* The list of tasks after events es: one for each task that is changed or deleted, or that
\* of a creation.
After(ts, es) ==
    LET about(t) == {e \in ToSet(es) : e.task.id = t.id}
        left == Only(ts, {t \in Task : \A e \in about(t) : e.type # "delete"})
        new(t) == IF about(t) = {} THEN t ELSE (CHOOSE e \in about(t) : TRUE).task
    IN  IF \E e \in ToSet(es) : e.type = "create" THEN Append(ts, es[1].task)
        ELSE [i \in DOMAIN left |-> new(left[i])]

\* A handler has written es and made the calls in flight cs: the events go to the
\* feed, which drops those that find it full.
Emit(es, cs) ==
    LET room == IF socket = "open" THEN FeedCap - Len(wire) ELSE 0
        kept == SubSeq(es, 1, IF room < Len(es) THEN room ELSE Len(es))
        lost == IdsOf([i \in 1 .. Len(es) - Len(kept) |-> es[Len(kept) + i].task])
    IN  /\ stored' = After(stored, es)
        /\ wire' = wire \o kept
        /\ events' = events + Len(es)
        /\ doubt' = doubt \cup lost
        /\ calls' = WithNews(cs, lost, events + Len(es))

\* The server handles a call.
Serve(c) ==
    LET ts == Written(c)
        es == [i \in DOMAIN ts |-> [type |-> Emitted(c, ts[i]), task |-> Changed(ts[i], c),
                                    at |-> events + i]]
    IN  /\ ~c.served
        /\ c.what \in OfTask \ {"create"} => c.task.id \in IdsOf(stored)
        /\ LET seen == IF c.what = "load" THEN Listed(c.query)
                       ELSE [i \in DOMAIN es |-> es[i].task]
               done == IF Shows(c)
                       THEN [c EXCEPT !.served = TRUE, !.at = events + Len(es), !.answer = seen]
                       ELSE [c EXCEPT !.served = TRUE]
           IN  Emit(es, (calls \ {c}) \cup {d \in {done} : Matters(d)})
        /\ UNCHANGED socket

\* Ids of tasks that are being created: nobody else gives them.
IdsGiven == {c.task.id : c \in {d \in calls : d.what = "create" /\ ~d.served}}

\* Another client or an execution creates, changes or deletes a task.
OthersWrite ==
    /\ events < MaxEvents
    /\ \/ \E t \in Writes :
             /\ t.id \notin IdsGiven /\ t \notin ToSet(stored)
             /\ Emit(<<[type |-> IF t.id \in IdsOf(stored) THEN "update" ELSE "create",
                        task |-> t, at |-> events + 1]>>, calls)
       \/ \E t \in ToSet(stored) :
             Emit(<<[type |-> "delete", task |-> t, at |-> events + 1]>>, calls)
    /\ UNCHANGED socket

\* The websocket of watchTaskGroup, which the page never opens again.
SocketOpens ==
    /\ socket = "connecting" /\ socket' = "open"
    /\ UNCHANGED <<stored, wire, calls, events, doubt>>

SocketCloses ==
    /\ socket # "closed" /\ socket' = "closed"
    /\ wire' = <<>>
    /\ LET lost == IdsOf([i \in DOMAIN wire |-> wire[i].task])
       IN  /\ doubt' = doubt \cup lost
           /\ calls' = WithNews(calls, lost, events + 1)
    /\ UNCHANGED <<stored, events>>

\* A call ends: with its answer, or with an error, of the network (served or not) or of
\* a handler that does not find the task.
Ends(c, ok) == ok => c.served

\* The page handles the first event of the wire.
Receive(e) ==
    /\ wire # <<>> /\ e = Head(wire)
    /\ wire' = Tail(wire)
    /\ UNCHANGED <<stored, socket, events>>

\* Tasks of which an event is on the wire.
OnTheWire == {wire[i].task.id : i \in DOMAIN wire}
=============================================================================

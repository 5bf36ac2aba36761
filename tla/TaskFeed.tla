------------------------------ MODULE TaskFeed ------------------------------
(***************************************************************************)
(* The event feed of a server: EmitTaskFeedEvent and                       *)
(* EmitTaskGroupFeedEvent (src/crew/task_controller.go), the goroutine     *)
(* that dispatches their events to the clients that watch a task group,    *)
(* the goroutines of a websocket and the shutdown of the HTTP server       *)
(* (src/crew/rest_api.go, lines 484-620).                                  *)
(*                                                                         *)
(* An event holds a pointer: what a client gets is the task as it is when  *)
(* the dispatcher encodes it.  A task's state is the number of its         *)
(* changes; as nothing of an event is read before it is encoded, a change  *)
(* and the emission of its event are one step.                             *)
(*                                                                         *)
(* The map of watchers is written and iterated by several goroutines with  *)
(* no mutex.  Go may notice that two of them use it at once and kill the   *)
(* process; otherwise an entry added under an iteration may or may not be  *)
(* visited by it, and one that was deleted is not.                         *)
(***************************************************************************)
EXTENDS Naturals, Sequences, FiniteSets

CONSTANTS
    Tasks,          \* what events are about: tasks, and task groups themselves
    Group,          \* task group of each
    Conns,          \* websocket connections ever made (a bound)
    Leavers,        \* those that may be closed or break (a bound)
    Readers,        \* those whose client always reads what it is sent
    Watches,        \* task group of each connection's URL
    FeedCap,        \* buffer of controller.Feed (8 in the code)
    MaxChanges,     \* changes of a task in one behaviour (a bound)
    Nobody

ASSUME FeedAssumption ==
    /\ FeedCap \in Nat \ {0} /\ MaxChanges \in Nat
    /\ DOMAIN Group = Tasks /\ DOMAIN Watches = Conns
    /\ Leavers \subseteq Conns /\ Readers \subseteq Conns
    /\ Nobody \notin Conns \cup Tasks

VARIABLES
    version,        \* state of each task: how many changes it has seen
    feed,           \* controller.Feed
    missed,         \* history: was the last event emitted for it dropped?
    dispatch,       \* the dispatching goroutine
    watchers,       \* keys of the map of watchers
    conn,           \* each connection: its goroutines, channel, socket, client
    server,         \* the goroutine of ServeRestApi
    died            \* what killed the process, if anything did

vars == <<version, feed, missed, dispatch, watchers, conn, server, died>>

States == 0 .. MaxChanges

TypeOK ==
    /\ version \in [Tasks -> States]
    /\ feed \in Seq(Tasks) /\ Len(feed) <= FeedCap
    /\ missed \in [Tasks -> BOOLEAN]
    /\ dispatch \in [ pc    : {"receive", "each", "sending"},
                      task  : Tasks \cup {Nobody},    \* the event
                      todo  : SUBSET Conns,           \* watchers to come
                      to    : Conns \cup {Nobody},    \* blocked on its channel
                      state : States ]                \* encoded in the message
    /\ watchers \in SUBSET Conns
    /\ conn \in [Conns -> [
          handler : {"none", "connecting", "waiting", "writing", "leaving", "done"},
          task    : Tasks \cup {Nobody},              \* what the handler writes
          state   : States,
          reader  : {"none", "reading", "closing", "ended"},
          channel : {"none", "open", "closed"},
          socket  : {"up", "eof", "broken", "shut"},
          shown   : [Tasks -> States] ]]              \* to the client, last
    /\ server \in [pc : {"serving", "closing", "stopped"}, todo : SUBSET Conns]
    /\ died \in {"no", "send", "close", "map"}

Idle == [pc |-> "receive", task |-> Nobody, todo |-> {}, to |-> Nobody, state |-> 0]

NoTask == [t \in Tasks |-> 0]

Init ==
    /\ version = NoTask /\ feed = <<>> /\ missed = [t \in Tasks |-> FALSE]
    /\ dispatch = Idle
    /\ watchers = {}
    /\ conn = [c \in Conns |-> [handler |-> "none", task |-> Nobody, state |-> 0,
                  reader |-> "none", channel |-> "none", socket |-> "up", shown |-> NoTask]]
    /\ server = [pc |-> "serving", todo |-> {}]
    /\ died = "no"

inShutdown == server.pc # "serving"

-----------------------------------------------------------------------------
(* The feed and its dispatcher.                                            *)

RoomForOneMore == Len(feed) <= FeedCap

HasRoom == Len(feed) < FeedCap

\* Some handler or Execute goroutine writes a task and emits its event.  A send
\* that would block takes the default branch: the event is dropped.
Emit(t) ==
    /\ version[t] < MaxChanges
    /\ version' = [version EXCEPT ![t] = @ + 1]
    /\ feed' = IF HasRoom THEN Append(feed, t) ELSE feed
    /\ missed' = [missed EXCEPT ![t] = ~HasRoom]
    /\ UNCHANGED <<dispatch, watchers, conn, server, died>>

Receive ==
    /\ dispatch.pc = "receive" /\ feed # <<>>
    /\ feed' = Tail(feed)
    /\ dispatch' = [Idle EXCEPT !.pc = "each", !.task = Head(feed), !.todo = watchers]
    /\ UNCHANGED <<version, missed, watchers, conn, server, died>>

OnlyOne(c) == {}

\* The watchers that the iteration still comes to after c.
Rest(c) == dispatch.todo \ {c}

OldCopy == IF version[dispatch.task] = 0 THEN 0 ELSE version[dispatch.task] - 1

\* The event's pointer leads to the task as it is now.
Encoded == version[dispatch.task]

\* inShutdown is looked at before the send, which may block.
Visit(c) ==
    /\ dispatch.pc = "each" /\ c \in dispatch.todo \cap watchers
    /\ dispatch' = IF Watches[c] = Group[dispatch.task] /\ ~inShutdown
                   THEN [dispatch EXCEPT !.pc = "sending", !.to = c, !.todo = Rest(c),
                                         !.state = Encoded]
                   ELSE [dispatch EXCEPT !.todo = @ \ {c}]
    /\ UNCHANGED <<version, feed, missed, watchers, conn, server, died>>

EndOfEvent ==
    /\ dispatch.pc = "each" /\ dispatch.todo \cap watchers = {}
    /\ dispatch' = Idle
    /\ UNCHANGED <<version, feed, missed, watchers, conn, server, died>>

\* The channel has no buffer: the handler must be there to take the message.
Send(c) ==
    /\ dispatch.pc = "sending" /\ dispatch.to = c
    /\ conn[c].channel = "open" /\ conn[c].handler = "waiting"
    /\ conn' = [conn EXCEPT ![c].handler = "writing", ![c].task = dispatch.task,
                            ![c].state = dispatch.state]
    /\ dispatch' = [dispatch EXCEPT !.pc = "each", !.to = Nobody, !.state = 0]
    /\ UNCHANGED <<version, feed, missed, watchers, server, died>>

\* "send on closed channel", also if it was closed while the send was blocked.
SendPanics ==
    /\ dispatch.pc = "sending" /\ conn[dispatch.to].channel = "closed"
    /\ died' = "send"
    /\ UNCHANGED <<version, feed, missed, dispatch, watchers, conn, server>>

-----------------------------------------------------------------------------
(* A websocket: its handler, its receiving goroutine and its client.       *)

\* A request passed the authentication and its task group exists.
Connect(c) ==
    /\ conn[c].handler = "none" /\ ~inShutdown
    /\ conn' = [conn EXCEPT ![c].handler = "connecting"]
    /\ UNCHANGED <<version, feed, missed, dispatch, watchers, server, died>>

\* What the client is shown from the start is what it fetched by itself.
Register(c) ==
    /\ conn[c].handler = "connecting"
    /\ watchers' = watchers \cup {c}
    /\ conn' = [conn EXCEPT ![c].handler = "waiting", ![c].channel = "open",
                            ![c].reader = "reading", ![c].shown = version]
    /\ \E new \in SUBSET {c} :
          dispatch' = IF dispatch.pc = "receive" THEN dispatch
                      ELSE [dispatch EXCEPT !.todo = @ \cup new]
    /\ \E new \in SUBSET {c} :
          server' = IF server.pc = "closing" THEN [server EXCEPT !.todo = @ \cup new] ELSE server
    /\ UNCHANGED <<version, feed, missed, died>>

LeavesOnError(c) == IF conn[c].socket = "up" THEN "waiting" ELSE "leaving"

\* An error is logged and the handler goes on with its loop.
AfterWrite(c) == "waiting"

Write(c) ==
    /\ conn[c].handler = "writing"
    /\ conn' = [conn EXCEPT
          ![c].shown = IF conn[c].socket = "up"
                       THEN [@ EXCEPT ![conn[c].task] = conn[c].state] ELSE @,
          ![c].handler = AfterWrite(c), ![c].task = Nobody, ![c].state = 0]
    /\ UNCHANGED <<version, feed, missed, dispatch, watchers, server, died>>

\* The range over the channel ends when it is closed; the socket is closed.
LeaveLoop(c) ==
    /\ conn[c].handler = "waiting" /\ conn[c].channel = "closed"
    /\ conn' = [conn EXCEPT ![c].handler = "leaving",
                            ![c].socket = IF @ = "up" THEN "shut" ELSE @]
    /\ UNCHANGED <<version, feed, missed, dispatch, watchers, server, died>>

Forget(c) ==
    /\ conn[c].handler = "leaving"
    /\ watchers' = watchers \ {c}
    /\ conn' = [conn EXCEPT ![c].handler = "done"]
    /\ UNCHANGED <<version, feed, missed, dispatch, server, died>>

\* The client closed the connection: io.EOF.
ReaderForgets(c) ==
    /\ conn[c].reader = "reading" /\ conn[c].socket = "eof"
    /\ watchers' = watchers \ {c}
    /\ conn' = [conn EXCEPT ![c].reader = "closing"]
    /\ UNCHANGED <<version, feed, missed, dispatch, server, died>>

LeftOpen(c) == conn[c].channel

Closed(c) == "closed"

\* Closing a channel that is closed already panics.
Close(c) == died' = IF conn[c].channel = "closed" THEN "close" ELSE died

ReaderCloses(c) ==
    /\ conn[c].reader = "closing"
    /\ Close(c)
    /\ conn' = [conn EXCEPT ![c].channel = Closed(c), ![c].reader = "ended"]
    /\ UNCHANGED <<version, feed, missed, dispatch, watchers, server>>

\* Any other error ends the goroutine and nothing else.
ReaderFails(c) ==
    /\ conn[c].reader = "reading" /\ conn[c].socket \in {"broken", "shut"}
    /\ conn' = [conn EXCEPT ![c].reader = "ended"]
    /\ UNCHANGED <<version, feed, missed, dispatch, watchers, server, died>>

\* The client closes the connection, or it breaks.
Disconnect(c, how) ==
    /\ c \in Leavers
    /\ conn[c].handler # "none" /\ conn[c].socket = "up"
    /\ conn' = [conn EXCEPT ![c].socket = how, ![c].shown = NoTask]
    /\ UNCHANGED <<version, feed, missed, dispatch, watchers, server, died>>

-----------------------------------------------------------------------------
(* The shutdown of the server, and the map of watchers.                    *)

\* srv.Shutdown makes ListenAndServe return; inShutdown is set.
StopServing ==
    /\ server.pc = "serving"
    /\ server' = [pc |-> "closing", todo |-> watchers]
    /\ UNCHANGED <<version, feed, missed, dispatch, watchers, conn, died>>

CloseWatcher(c) ==
    /\ server.pc = "closing" /\ c \in server.todo \cap watchers
    /\ Close(c)
    /\ conn' = [conn EXCEPT ![c].channel = "closed"]
    /\ server' = [server EXCEPT !.todo = @ \ {c}]
    /\ UNCHANGED <<version, feed, missed, dispatch, watchers>>

\* main may return from now on; what the others do until it has is modelled.
Stopped ==
    /\ server.pc = "closing" /\ server.todo \cap watchers = {}
    /\ server' = [pc |-> "stopped", todo |-> {}]
    /\ UNCHANGED <<version, feed, missed, dispatch, watchers, conn, died>>

WritesMap(c) ==
    \/ conn[c].handler \in {"connecting", "leaving"}
    \/ conn[c].reader = "reading" /\ conn[c].socket = "eof"

\* "concurrent map iteration and map write", "concurrent map writes"
MapRace ==
    /\ \/ (dispatch.pc = "each" \/ server.pc = "closing") /\ \E c \in Conns : WritesMap(c)
       \/ \E c, d \in Conns : c # d /\ WritesMap(c) /\ WritesMap(d)
    /\ died' = "map"
    /\ UNCHANGED <<version, feed, missed, dispatch, watchers, conn, server>>

-----------------------------------------------------------------------------
DispatchStep == Receive \/ EndOfEvent \/ SendPanics \/ \E c \in Conns : Visit(c) \/ Send(c)

HandlerStep(c) == Register(c) \/ Write(c) \/ LeaveLoop(c) \/ Forget(c)

ReaderStep(c) == ReaderForgets(c) \/ ReaderCloses(c) \/ ReaderFails(c)

ServerStep == Stopped \/ \E c \in Conns : CloseWatcher(c)

Step ==
    \/ \E t \in Tasks : Emit(t)
    \/ DispatchStep
    \/ \E c \in Conns : \/ Connect(c) \/ HandlerStep(c) \/ ReaderStep(c)
                        \/ Disconnect(c, "eof") \/ Disconnect(c, "broken")
    \/ StopServing \/ ServerStep
    \/ MapRace

Next == died = "no" /\ Step

Spec == Init /\ [][Next]_vars

\* A write has no deadline.  It ends when the client reads, or by an error when the
\* connection is closed or broken, if only by a timeout of TCP; a client that stays
\* connected and does not read can hold it up forever.
WriteIsOwed(c) == c \in Readers \/ conn[c].socket # "up"

HandlerIsOwed(c) == Register(c) \/ (WriteIsOwed(c) /\ Write(c)) \/ LeaveLoop(c) \/ Forget(c)

\* Goroutines that can run do run.  Clients, changes and the shutdown are not owed.
Fairness ==
    /\ WF_vars(died = "no" /\ DispatchStep)
    /\ \A c \in Conns : /\ WF_vars(died = "no" /\ HandlerIsOwed(c))
                        /\ WF_vars(died = "no" /\ ReaderStep(c))
    /\ WF_vars(died = "no" /\ ServerStep)

FairSpec == Spec /\ Fairness

-----------------------------------------------------------------------------
AtRest ==
    /\ feed = <<>> /\ dispatch.pc = "receive"
    /\ \A c \in Conns : conn[c].handler # "writing"

Follows(c, t) ==
    /\ c \in watchers /\ conn[c].handler = "waiting"
    /\ conn[c].channel = "open" /\ conn[c].socket = "up"
    /\ Watches[c] = Group[t]

\* "Watch for updates in the task group contoller and deliver them to listening
\* websockets": when the feed has come to rest, a client that is behind was
\* failed by the bounded buffer and by nothing else.
BehindOnlyIfDropped ==
    died = "no" /\ AtRest /\ ~inShutdown =>
        \A c \in Conns, t \in Tasks :
            Follows(c, t) => conn[c].shown[t] = version[t] \/ missed[t]

\* What a client is told of a task never goes back to an older state.
NeverOlder ==
    [][\A c \in Conns : conn[c].reader # "none" /\ conn'[c].socket = "up" =>
          \A t \in Tasks : conn[c].shown[t] <= conn'[c].shown[t]]_vars

SendingTo(c) == dispatch.pc = "sending" /\ dispatch.to = c /\ died = "no"

\* The client is connected and does not read, and its handler waits for it to.
DoesNotRead(c) == c \notin Readers /\ conn[c].socket = "up" /\ conn[c].handler = "writing"

\* The send of the dispatcher has no time limit, and neither has the write that the
\* handler may be in: a client holds up the feed for all the others for good if it stays
\* connected and stops reading, and in no other way, be it slow, broken or gone.
DispatcherMovesOn == \A c \in Conns : []<>~SendingTo(c) \/ <>[]DoesNotRead(c)

\* The goroutines and the watcher of a client that closed its connection end.
ClosedClientsForgotten ==
    \A c \in Leavers :
        conn[c].socket = "eof" ~>
            (c \notin watchers /\ conn[c].handler = "done") \/ died # "no"

\* "sigint caught, start graceful shutdown": the shutdown of the watchers does
\* not kill the process, neither by a message for one nor by closing it twice.
GracefulShutdown == inShutdown => died \notin {"send", "close"}
=============================================================================

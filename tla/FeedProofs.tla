----------------------------- MODULE FeedProofs -----------------------------
(***************************************************************************)
(* What the event feed promises a client that stays, for any tasks,        *)
(* clients, buffer and number of changes: no message takes it back to an   *)
(* older state, and when the feed has come to rest it has the last state   *)
(* of every task whose last event was not dropped.                         *)
(***************************************************************************)
EXTENDS TaskFeed, SequenceTheorems, TLAPS

Handlers == {"none", "connecting", "waiting", "writing", "leaving", "done"}

ConnType ==
    [ handler : Handlers,
      task    : Tasks \cup {Nobody},
      state   : States,
      reader  : {"none", "reading", "closing", "ended"},
      channel : {"none", "open", "closed"},
      socket  : {"up", "eof", "broken", "shut"},
      shown   : [Tasks -> States] ]

DispatchType ==
    [ pc    : {"receive", "each", "sending"},
      task  : Tasks \cup {Nobody},
      todo  : SUBSET Conns,
      to    : Conns \cup {Nobody},
      state : States ]

Sending(c) == dispatch.pc = "sending" /\ dispatch.to = c

Writing(c) == conn[c].handler = "writing"

\* Who is at work has something to work at.
Pointed ==
    /\ dispatch.pc # "receive" => dispatch.task \in Tasks
    /\ dispatch.pc = "sending" => dispatch.to \in Conns
    /\ \A c \in Conns : Writing(c) => conn[c].task \in Tasks

\* Nobody knows of a connection before it registers, and it does so once.
Newcomers ==
    \A c \in Conns : conn[c].handler \in {"none", "connecting"} =>
        c \notin watchers /\ conn[c].reader = "none" /\ ~Sending(c)

\* From what the client of c was shown of t, over what its handler writes and
\* what the dispatcher sends it, to the state of t: nothing gets older.
Ordered ==
    /\ \A c \in Conns, t \in Tasks : conn[c].shown[t] <= version[t]
    /\ \A c \in Conns : Writing(c) =>
          /\ conn[c].shown[conn[c].task] <= conn[c].state
          /\ conn[c].state <= version[conn[c].task]
    /\ dispatch.pc = "sending" =>
          /\ conn[dispatch.to].shown[dispatch.task] <= dispatch.state
          /\ Writing(dispatch.to) /\ conn[dispatch.to].task = dispatch.task =>
                conn[dispatch.to].state <= dispatch.state
          /\ dispatch.state <= version[dispatch.task]

\* A client that stays and is told.
Live(c) ==
    /\ c \in watchers /\ conn[c].handler \in {"waiting", "writing"}
    /\ conn[c].channel = "open" /\ conn[c].socket = "up"

InFeed(t) == \E i \in 1 .. Len(feed) : feed[i] = t

\* A message with the last state of t is on its way to c.
OnItsWay(c, t) ==
    \/ InFeed(t)
    \/ dispatch.pc # "receive" /\ dispatch.task = t /\ c \in dispatch.todo
    \/ Sending(c) /\ dispatch.task = t /\ dispatch.state = version[t]
    \/ Writing(c) /\ conn[c].task = t /\ conn[c].state = version[t]

Told ==
    ~inShutdown =>
        \A c \in Conns, t \in Tasks :
            Live(c) /\ Watches[c] = Group[t] =>
                conn[c].shown[t] = version[t] \/ missed[t] \/ OnItsWay(c, t)

FeedInv == TypeOK /\ Pointed /\ Newcomers /\ Ordered /\ Told

LEMMA Types ==
    ASSUME TypeOK
    PROVE  /\ conn \in [Conns -> ConnType] /\ dispatch \in DispatchType
           /\ version \in [Tasks -> Nat] /\ MaxChanges \in Nat
           /\ \A t \in Tasks : version[t] \in States
           /\ \A c \in Conns : conn[c] \in ConnType
           /\ \A c \in Conns : conn[c].state \in Nat
           /\ \A c \in Conns, t \in Tasks : conn[c].shown[t] \in Nat
           /\ dispatch.state \in Nat
  BY FeedAssumption DEF TypeOK, ConnType, DispatchType, Handlers, States

-----------------------------------------------------------------------------
(* Steps after which a connection is no nearer to its client.              *)

\* What connection c may do to itself and to the others then.
Withdraws(c) ==
    /\ UNCHANGED <<version, feed, missed, dispatch>>
    /\ watchers' \subseteq watchers
    /\ inShutdown => inShutdown'
    /\ \A d \in Conns : d # c => conn'[d] = conn[d]
    /\ conn'[c].handler = "writing" => conn[c].handler = "writing"
    /\ conn'[c].task = conn[c].task /\ conn'[c].state = conn[c].state
    /\ \A t \in Tasks : conn'[c].shown[t] \in {0, conn[c].shown[t]}
    /\ conn'[c].handler \in {"none", "connecting"} =>
          conn[c].handler \in {"none", "connecting"} /\ conn'[c].reader = conn[c].reader
    /\ /\ conn'[c].handler \in {"waiting", "writing"}
       /\ conn'[c].channel = "open" /\ conn'[c].socket = "up"
       /\ c \in watchers'
       => /\ conn'[c].handler = conn[c].handler /\ conn'[c].shown = conn[c].shown
          /\ conn[c].channel = "open" /\ conn[c].socket = "up"

LEMMA WithdrawKeeps ==
    ASSUME FeedInv, TypeOK', NEW c \in Conns, Withdraws(c)
    PROVE  FeedInv'
  <1>1. /\ version' = version /\ feed' = feed /\ missed' = missed /\ dispatch' = dispatch
        /\ watchers' \subseteq watchers
        /\ \A d \in Conns : d # c => conn'[d] = conn[d]
    BY DEF Withdraws
  <1>2. \A d \in Conns : Writing(d)' => Writing(d)
    BY <1>1 DEF Withdraws, Writing
  <1>3. \A d \in Conns : conn'[d].task = conn[d].task /\ conn'[d].state = conn[d].state
    BY <1>1 DEF Withdraws
  <1>4. \A d \in Conns, t \in Tasks : conn'[d].shown[t] <= conn[d].shown[t]
    <2>1. \A d \in Conns, t \in Tasks : conn'[d].shown[t] \in {0, conn[d].shown[t]}
      BY <1>1 DEF Withdraws
    <2>2. \A d \in Conns, t \in Tasks : conn[d].shown[t] \in Nat
      BY Types DEF FeedInv
    <2> QED
      BY <2>1, <2>2
  <1>5. Pointed'
    BY <1>1, <1>2, <1>3 DEF FeedInv, Pointed
  <1>6. Newcomers'
    BY <1>1 DEF FeedInv, Newcomers, Withdraws, Sending
  <1>7. Ordered'
    <2>1. \A d \in Conns, t \in Tasks :
             conn[d].shown[t] \in Nat /\ conn'[d].shown[t] \in Nat /\ version[t] \in Nat
      <3>1. \A d \in Conns, t \in Tasks : conn'[d].shown[t] \in Nat
        BY FeedAssumption DEF TypeOK, States
      <3> QED
        BY Types, <3>1 DEF FeedInv
    <2> QED
      BY <1>1, <1>2, <1>3, <1>4, <1>5, <2>1, Types DEF FeedInv, Ordered, Pointed
  <1>8. Told'
    <2> SUFFICES ASSUME ~inShutdown', NEW d \in Conns, NEW t \in Tasks, Live(d)',
                        Watches[d] = Group[t]
                 PROVE  conn'[d].shown[t] = version[t] \/ missed[t] \/ OnItsWay(d, t)'
      BY <1>1 DEF Told
    <2>1. ~inShutdown
      BY DEF Withdraws
    <2>2. Live(d) /\ conn'[d].shown = conn[d].shown /\ conn'[d].handler = conn[d].handler
      BY <1>1 DEF Live, Withdraws
    <2>3. OnItsWay(d, t)' <=> OnItsWay(d, t)
      BY <1>1, <1>3, <2>2 DEF OnItsWay, InFeed, Sending, Writing
    <2> QED
      BY <2>1, <2>2, <2>3 DEF FeedInv, Told
  <1> QED
    BY <1>5, <1>6, <1>7, <1>8 DEF FeedInv

LEMMA ConnectWithdraws ==
    ASSUME FeedInv, NEW c \in Conns, Connect(c)
    PROVE  TypeOK' /\ Withdraws(c)
  <1>1. conn[c] \in ConnType /\ conn \in [Conns -> ConnType]
    BY Types DEF FeedInv
  <1>2. conn' = [conn EXCEPT ![c] = [conn[c] EXCEPT !.handler = "connecting"]]
    BY <1>1 DEF Connect
  <1>3. [conn[c] EXCEPT !.handler = "connecting"] \in ConnType
    BY <1>1 DEF ConnType, Handlers
  <1>4. conn' \in [Conns -> ConnType]
    BY <1>1, <1>2, <1>3
  <1>5. TypeOK'
    BY <1>4 DEF FeedInv, TypeOK, Connect, ConnType, Handlers
  <1>6. Withdraws(c)
    BY <1>1, <1>2 DEF Withdraws, Connect, ConnType, inShutdown
  <1> QED
    BY <1>5, <1>6

LEMMA LeaveLoopWithdraws ==
    ASSUME FeedInv, NEW c \in Conns, LeaveLoop(c)
    PROVE  TypeOK' /\ Withdraws(c)
  <1> DEFINE how == IF conn[c].socket = "up" THEN "shut" ELSE conn[c].socket
             e == [conn[c] EXCEPT !.handler = "leaving", !.socket = how]
  <1>1. conn[c] \in ConnType /\ conn \in [Conns -> ConnType]
    BY Types DEF FeedInv
  <1>2. conn' = [conn EXCEPT ![c] = e]
    BY <1>1 DEF LeaveLoop
  <1>3. how \in {"up", "eof", "broken", "shut"}
    BY <1>1 DEF ConnType
  <1> HIDE DEF how
  <1>4. e \in ConnType /\ e.handler = "leaving" /\ e.task = conn[c].task
        /\ e.state = conn[c].state /\ e.shown = conn[c].shown
    BY <1>1, <1>3 DEF ConnType, Handlers
  <1> HIDE DEF e
  <1>5. conn' \in [Conns -> ConnType] /\ conn'[c] = e
    BY <1>1, <1>2, <1>4
  <1>6. TypeOK'
    BY <1>5 DEF FeedInv, TypeOK, LeaveLoop, ConnType, Handlers
  <1>7. Withdraws(c)
    BY <1>1, <1>2, <1>4, <1>5 DEF Withdraws, LeaveLoop, inShutdown
  <1> QED
    BY <1>6, <1>7

LEMMA ForgetWithdraws ==
    ASSUME FeedInv, NEW c \in Conns, Forget(c)
    PROVE  TypeOK' /\ Withdraws(c)
  <1> DEFINE e == [conn[c] EXCEPT !.handler = "done"]
  <1>1. conn[c] \in ConnType /\ conn \in [Conns -> ConnType]
    BY Types DEF FeedInv
  <1>2. conn' = [conn EXCEPT ![c] = e]
    BY <1>1 DEF Forget
  <1>3. e \in ConnType /\ e.handler = "done" /\ e.task = conn[c].task
        /\ e.state = conn[c].state /\ e.shown = conn[c].shown
    BY <1>1 DEF ConnType, Handlers
  <1> HIDE DEF e
  <1>4. conn' \in [Conns -> ConnType] /\ conn'[c] = e
    BY <1>1, <1>2, <1>3
  <1>5. TypeOK'
    BY <1>4 DEF FeedInv, TypeOK, Forget, ConnType, Handlers
  <1>6. Withdraws(c)
    BY <1>1, <1>2, <1>3, <1>4 DEF Withdraws, Forget, inShutdown
  <1> QED
    BY <1>5, <1>6

LEMMA ReaderWithdraws ==
    ASSUME FeedInv, NEW c \in Conns, ReaderStep(c)
    PROVE  TypeOK' /\ Withdraws(c)
  <1>1. conn[c] \in ConnType /\ conn \in [Conns -> ConnType]
    BY Types DEF FeedInv
  <1>2. PICK how \in {"closing", "ended"}, ch \in {conn[c].channel, "closed"} :
           conn' = [conn EXCEPT ![c] = [conn[c] EXCEPT !.channel = ch, !.reader = how]]
    <2>1. conn[c] = [conn[c] EXCEPT !.channel = conn[c].channel]
      BY <1>1 DEF ConnType
    <2> QED
      BY <1>1, <2>1 DEF ReaderStep, ReaderForgets, ReaderCloses, ReaderFails, Closed
  <1> DEFINE e == [conn[c] EXCEPT !.channel = ch, !.reader = how]
  <1>3. /\ e \in ConnType /\ e.handler = conn[c].handler /\ e.task = conn[c].task
        /\ e.state = conn[c].state /\ e.shown = conn[c].shown
        /\ e.socket = conn[c].socket /\ e.channel = ch
    BY <1>1 DEF ConnType, Handlers
  <1>4. conn[c].reader # "none"
    BY DEF ReaderStep, ReaderForgets, ReaderCloses, ReaderFails
  <1> HIDE DEF e
  <1>5. conn' \in [Conns -> ConnType] /\ conn'[c] = e /\ conn' = [conn EXCEPT ![c] = e]
    BY <1>1, <1>2, <1>3 DEF e
  <1>6. /\ UNCHANGED <<version, feed, missed, dispatch, server>> /\ watchers' \subseteq watchers
        /\ died' \in {died, "close"}
    BY DEF ReaderStep, ReaderForgets, ReaderCloses, ReaderFails, Close
  <1>7. TypeOK'
    BY <1>5, <1>6 DEF FeedInv, TypeOK, ConnType, Handlers
  <1>8. Withdraws(c)
    BY <1>1, <1>3, <1>4, <1>5, <1>6 DEF Withdraws, FeedInv, Newcomers, inShutdown
  <1> QED
    BY <1>7, <1>8

LEMMA DisconnectWithdraws ==
    ASSUME FeedInv, NEW c \in Conns, NEW how \in {"eof", "broken"}, Disconnect(c, how)
    PROVE  TypeOK' /\ Withdraws(c)
  <1> DEFINE e == [conn[c] EXCEPT !.socket = how, !.shown = NoTask]
  <1>1. conn[c] \in ConnType /\ conn \in [Conns -> ConnType]
    BY Types DEF FeedInv
  <1>2. conn' = [conn EXCEPT ![c] = e]
    BY <1>1 DEF Disconnect
  <1>3. NoTask \in [Tasks -> States] /\ \A t \in Tasks : NoTask[t] = 0
    BY FeedAssumption DEF NoTask, States
  <1>4. e \in ConnType /\ e.handler = conn[c].handler /\ e.task = conn[c].task
        /\ e.state = conn[c].state /\ e.shown = NoTask /\ e.socket = how
        /\ e.reader = conn[c].reader
    BY <1>1, <1>3 DEF ConnType, Handlers
  <1> HIDE DEF e
  <1>5. conn' \in [Conns -> ConnType] /\ conn'[c] = e
    BY <1>1, <1>2, <1>4
  <1>6. TypeOK'
    BY <1>5 DEF FeedInv, TypeOK, Disconnect, ConnType, Handlers
  <1>7. Withdraws(c)
    BY <1>1, <1>2, <1>3, <1>4, <1>5 DEF Withdraws, Disconnect, inShutdown
  <1> QED
    BY <1>6, <1>7

LEMMA CloseWatcherWithdraws ==
    ASSUME FeedInv, NEW c \in Conns, CloseWatcher(c)
    PROVE  TypeOK' /\ Withdraws(c)
  <1> DEFINE e == [conn[c] EXCEPT !.channel = "closed"]
  <1>1. conn[c] \in ConnType /\ conn \in [Conns -> ConnType]
    BY Types DEF FeedInv
  <1>2. conn' = [conn EXCEPT ![c] = e]
    BY <1>1 DEF CloseWatcher
  <1>3. e \in ConnType /\ e.handler = conn[c].handler /\ e.task = conn[c].task
        /\ e.state = conn[c].state /\ e.shown = conn[c].shown /\ e.channel = "closed"
        /\ e.reader = conn[c].reader
    BY <1>1 DEF ConnType, Handlers
  <1> HIDE DEF e
  <1>4. conn' \in [Conns -> ConnType] /\ conn'[c] = e
    BY <1>1, <1>2, <1>3
  <1>5. /\ server' \in [pc : {"serving", "closing", "stopped"}, todo : SUBSET Conns]
        /\ inShutdown => inShutdown'
    BY DEF FeedInv, TypeOK, CloseWatcher, inShutdown
  <1>6. TypeOK'
    BY <1>4, <1>5 DEF FeedInv, TypeOK, CloseWatcher, Close, ConnType, Handlers
  <1>7. Withdraws(c)
    BY <1>1, <1>2, <1>3, <1>4, <1>5 DEF Withdraws, CloseWatcher
  <1> QED
    BY <1>6, <1>7

-----------------------------------------------------------------------------
(* Steps that leave the connections, the dispatcher and the feed alone.    *)

LEMMA QuietKeeps ==
    ASSUME FeedInv, UNCHANGED <<version, feed, missed, dispatch, watchers, conn>>, TypeOK',
           inShutdown => inShutdown'
    PROVE  FeedInv'
  <1>1. Pointed' /\ Newcomers' /\ Ordered'
    BY DEF FeedInv, Pointed, Newcomers, Ordered, Sending, Writing
  <1>2. \A c \in Conns, t \in Tasks : Live(c)' = Live(c) /\ OnItsWay(c, t)' = OnItsWay(c, t)
    BY DEF Live, OnItsWay, InFeed, Sending, Writing
  <1>3. Told'
    BY <1>2 DEF FeedInv, Told
  <1> QED
    BY <1>1, <1>3 DEF FeedInv

LEMMA ServerKeeps ==
    ASSUME FeedInv, SendPanics \/ StopServing \/ Stopped \/ MapRace
    PROVE  FeedInv'
  <1>1. UNCHANGED <<version, feed, missed, dispatch, watchers, conn>>
    BY DEF SendPanics, StopServing, Stopped, MapRace
  <1>2. /\ server' \in [pc : {"serving", "closing", "stopped"}, todo : SUBSET Conns]
        /\ inShutdown => inShutdown'
        /\ died' \in {"no", "send", "close", "map"}
    BY DEF FeedInv, TypeOK, SendPanics, StopServing, Stopped, MapRace, inShutdown
  <1>3. TypeOK'
    BY <1>1, <1>2 DEF FeedInv, TypeOK
  <1> QED
    BY <1>1, <1>2, <1>3, QuietKeeps

-----------------------------------------------------------------------------
(* A change, and the dispatcher.                                           *)

\* A change makes everybody older; its event is in the feed or is missed.
LEMMA EmitKeeps ==
    ASSUME FeedInv, NEW t \in Tasks, Emit(t)
    PROVE  FeedInv'
  <1>1. /\ version \in [Tasks -> Nat] /\ version[t] + 1 \in States
        /\ feed \in Seq(Tasks) /\ Len(feed) \in Nat
    BY Types DEF FeedInv, TypeOK, Emit, States
  <1>2. /\ UNCHANGED <<dispatch, watchers, conn, server, died>>
        /\ version' = [version EXCEPT ![t] = @ + 1]
        /\ feed' = IF HasRoom THEN Append(feed, t) ELSE feed
        /\ missed' = [missed EXCEPT ![t] = ~HasRoom]
    BY DEF Emit
  <1>3. TypeOK'
    <2>1. version' \in [Tasks -> States]
      BY <1>1, <1>2 DEF FeedInv, TypeOK
    <2>2. feed' \in Seq(Tasks) /\ Len(feed') <= FeedCap
      BY <1>1, <1>2, FeedAssumption DEF FeedInv, TypeOK, HasRoom
    <2>3. missed' \in [Tasks -> BOOLEAN]
      BY <1>2 DEF FeedInv, TypeOK
    <2> QED
      BY <1>2, <2>1, <2>2, <2>3 DEF FeedInv, TypeOK
  <1>4. \A x \in Tasks : version[x] <= version'[x] /\ version'[x] \in Nat /\ version[x] \in Nat
    BY <1>1, <1>2
  <1>5. \A x \in Tasks : x # t => version'[x] = version[x] /\ missed'[x] = missed[x]
    BY <1>1, <1>2 DEF FeedInv, TypeOK
  <1>6. missed'[t] = ~HasRoom
    BY <1>2 DEF FeedInv, TypeOK
  <1>7. Pointed' /\ Newcomers'
    BY <1>2 DEF FeedInv, Pointed, Newcomers, Sending, Writing
  <1>8. Ordered'
    BY <1>2, <1>4, Types DEF FeedInv, Ordered, Pointed, Sending, Writing
  <1>9. (\A x \in Tasks : InFeed(x) => InFeed(x)') /\ (HasRoom => InFeed(t)')
    <2>1. CASE HasRoom
      <3>1. /\ Len(feed') = Len(feed) + 1 /\ feed'[Len(feed) + 1] = t
            /\ \A i \in 1 .. Len(feed) : feed'[i] = feed[i]
        BY <1>1, <1>2, <2>1
      <3> QED
        BY <1>1, <3>1 DEF InFeed
    <2>2. CASE ~HasRoom
      BY <1>2, <2>2 DEF InFeed
    <2> QED
      BY <2>1, <2>2
  <1>10. Told'
    <2> SUFFICES ASSUME ~inShutdown', NEW c \in Conns, NEW x \in Tasks, Live(c)',
                        Watches[c] = Group[x]
                 PROVE  conn'[c].shown[x] = version'[x] \/ missed'[x] \/ OnItsWay(c, x)'
      BY DEF Told
    <2>1. ~inShutdown /\ Live(c)
      BY <1>2 DEF inShutdown, Live
    <2>2. CASE x = t
      BY <1>6, <1>9, <2>2 DEF OnItsWay
    <2>3. CASE x # t
      <3>1. conn[c].shown[x] = version[x] \/ missed[x] \/ OnItsWay(c, x)
        BY <2>1 DEF FeedInv, Told
      <3>2. OnItsWay(c, x) => OnItsWay(c, x)'
        BY <1>2, <1>5, <1>9, <2>3 DEF OnItsWay, Sending, Writing
      <3> QED
        BY <1>2, <1>5, <2>3, <3>1, <3>2
    <2> QED
      BY <2>2, <2>3
  <1> QED
    BY <1>3, <1>7, <1>8, <1>10 DEF FeedInv

LEMMA ReceiveKeeps ==
    ASSUME FeedInv, Receive
    PROVE  FeedInv'
  <1>1. /\ feed \in Seq(Tasks) /\ feed # <<>> /\ Len(feed) \in Nat /\ feed' = Tail(feed)
        /\ dispatch.pc = "receive"
        /\ UNCHANGED <<version, missed, watchers, conn, server, died>>
    BY DEF FeedInv, TypeOK, Receive
  <1>2. Head(feed) \in Tasks /\ Head(feed) = feed[1] /\ Tail(feed) \in Seq(Tasks)
        /\ Len(Tail(feed)) = Len(feed) - 1
        /\ \A i \in 1 .. Len(feed) - 1 : Tail(feed)[i] = feed[i + 1]
    BY <1>1
  <1>3. dispatch' = [pc |-> "each", task |-> Head(feed), todo |-> watchers, to |-> Nobody,
                     state |-> 0]
    BY DEF Receive, Idle
  <1>4. dispatch' \in DispatchType
    BY <1>2, <1>3, FeedAssumption DEF FeedInv, TypeOK, DispatchType, States
  <1>5. TypeOK'
    BY <1>1, <1>2, <1>4, FeedAssumption DEF FeedInv, TypeOK, DispatchType
  <1>6. Pointed' /\ Newcomers' /\ Ordered'
    BY <1>1, <1>2, <1>3 DEF FeedInv, Pointed, Newcomers, Ordered, Sending, Writing
  <1>7. \A x : InFeed(x) => x = Head(feed) \/ InFeed(x)'
    <2> SUFFICES ASSUME NEW x, InFeed(x), x # Head(feed)
                 PROVE  InFeed(x)'
      OBVIOUS
    <2>1. PICK i \in 1 .. Len(feed) : feed[i] = x
      BY DEF InFeed
    <2>2. i - 1 \in 1 .. Len(feed) - 1 /\ (i - 1) + 1 = i
      BY <1>1, <1>2, <2>1
    <2>3. Tail(feed)[i - 1] = x
      BY <1>2, <2>1, <2>2
    <2> QED
      BY <1>1, <1>2, <2>2, <2>3 DEF InFeed
  <1>8. Told'
    <2> SUFFICES ASSUME ~inShutdown', NEW c \in Conns, NEW x \in Tasks, Live(c)',
                        Watches[c] = Group[x]
                 PROVE  conn'[c].shown[x] = version'[x] \/ missed'[x] \/ OnItsWay(c, x)'
      BY DEF Told
    <2>1. ~inShutdown /\ Live(c) /\ c \in watchers
      BY <1>1 DEF inShutdown, Live
    <2>2. conn[c].shown[x] = version[x] \/ missed[x] \/ OnItsWay(c, x)
      BY <2>1 DEF FeedInv, Told
    <2> QED
      BY <1>1, <1>3, <1>7, <2>1, <2>2 DEF OnItsWay, Sending, Writing
  <1> QED
    BY <1>5, <1>6, <1>8 DEF FeedInv

\* The iteration ends when no watcher is to come, so it owes nobody a message.
LEMMA EndOfEventKeeps ==
    ASSUME FeedInv, EndOfEvent
    PROVE  FeedInv'
  <1>1. /\ dispatch.pc = "each" /\ dispatch.todo \cap watchers = {}
        /\ dispatch' = Idle /\ Idle.pc = "receive"
        /\ UNCHANGED <<version, feed, missed, watchers, conn, server, died>>
    BY DEF EndOfEvent, Idle
  <1>2. Idle \in DispatchType
    BY FeedAssumption DEF Idle, DispatchType, States
  <1>3. TypeOK'
    BY <1>1, <1>2 DEF FeedInv, TypeOK, DispatchType
  <1>4. Pointed' /\ Newcomers' /\ Ordered'
    BY <1>1 DEF FeedInv, Pointed, Newcomers, Ordered, Sending, Writing
  <1>5. Told'
    BY <1>1 DEF FeedInv, Told, Live, OnItsWay, InFeed, Sending, Writing, inShutdown
  <1> QED
    BY <1>3, <1>4, <1>5 DEF FeedInv

\* The message is encoded when its receiver is visited: it is the last state.
LEMMA VisitKeeps ==
    ASSUME FeedInv, NEW c \in Conns, Visit(c)
    PROVE  FeedInv'
  <1> DEFINE t == dispatch.task
  <1>1. /\ dispatch.pc = "each" /\ c \in dispatch.todo /\ c \in watchers
        /\ dispatch \in DispatchType /\ t \in Tasks
        /\ UNCHANGED <<version, feed, missed, watchers, conn, server, died>>
    BY Types DEF Visit, FeedInv, Pointed
  <1>2. CASE Watches[c] = Group[t] /\ ~inShutdown
    <2>1. dispatch' = [dispatch EXCEPT !.pc = "sending", !.to = c, !.todo = Rest(c),
                                       !.state = Encoded]
      BY <1>2 DEF Visit
    <2>2. Rest(c) \in SUBSET Conns /\ Encoded \in States
      BY <1>1 DEF FeedInv, TypeOK, Rest, Encoded
    <2>3. /\ dispatch' \in DispatchType /\ dispatch'.pc = "sending" /\ dispatch'.to = c
          /\ dispatch'.task = t /\ dispatch'.todo = dispatch.todo \ {c}
          /\ dispatch'.state = version[t]
      <3>1. dispatch' \in DispatchType
        BY <1>1, <2>1, <2>2 DEF DispatchType
      <3> QED
        BY <1>1, <2>1, <3>1 DEF DispatchType, Rest, Encoded
    <2>4. TypeOK'
      BY <1>1, <2>3 DEF FeedInv, TypeOK, DispatchType
    <2>5. Pointed' /\ Newcomers'
      BY <1>1, <2>3 DEF FeedInv, Pointed, Newcomers, Sending, Writing
    <2>6. Ordered'
      BY <1>1, <2>3, Types DEF FeedInv, Ordered, Sending, Writing, Pointed
    <2>7. Told'
      BY <1>1, <2>3 DEF FeedInv, Told, Live, OnItsWay, InFeed, Sending, Writing, inShutdown
    <2> QED
      BY <2>4, <2>5, <2>6, <2>7 DEF FeedInv
  <1>3. CASE ~(Watches[c] = Group[t] /\ ~inShutdown)
    <2>1. dispatch' = [dispatch EXCEPT !.todo = @ \ {c}]
      BY <1>3 DEF Visit
    <2>2. /\ dispatch' \in DispatchType /\ dispatch'.pc = "each" /\ dispatch'.task = t
          /\ dispatch'.todo = dispatch.todo \ {c}
      BY <1>1, <2>1 DEF DispatchType
    <2>3. TypeOK'
      BY <1>1, <2>2 DEF FeedInv, TypeOK, DispatchType
    <2>4. Pointed' /\ Newcomers' /\ Ordered'
      BY <1>1, <2>2 DEF FeedInv, Pointed, Newcomers, Ordered, Sending, Writing
    <2>5. Told'
      BY <1>1, <1>3, <2>2 DEF FeedInv, Told, Live, OnItsWay, InFeed, Sending, Writing, inShutdown
    <2> QED
      BY <2>3, <2>4, <2>5 DEF FeedInv
  <1> QED
    BY <1>2, <1>3

LEMMA SendKeeps ==
    ASSUME FeedInv, NEW c \in Conns, Send(c)
    PROVE  FeedInv'
  <1> DEFINE t == dispatch.task
             e == [conn[c] EXCEPT !.handler = "writing", !.task = t, !.state = dispatch.state]
  <1>1. /\ dispatch.pc = "sending" /\ dispatch.to = c /\ conn[c].handler = "waiting"
        /\ dispatch \in DispatchType /\ t \in Tasks /\ dispatch.state \in States
        /\ conn[c] \in ConnType /\ conn \in [Conns -> ConnType]
        /\ UNCHANGED <<version, feed, missed, watchers, server, died>>
    BY Types DEF Send, FeedInv, Pointed, DispatchType
  <1>2. conn' = [conn EXCEPT ![c] = e]
    BY <1>1 DEF Send
  <1>3. /\ e \in ConnType /\ e.handler = "writing" /\ e.task = t /\ e.state = dispatch.state
        /\ e.shown = conn[c].shown /\ e.channel = conn[c].channel /\ e.socket = conn[c].socket
        /\ e.reader = conn[c].reader
    BY <1>1 DEF ConnType, Handlers
  <1>4. /\ dispatch' \in DispatchType /\ dispatch'.pc = "each" /\ dispatch'.task = t
        /\ dispatch'.todo = dispatch.todo
    <2>1. dispatch' = [dispatch EXCEPT !.pc = "each", !.to = Nobody, !.state = 0]
      BY DEF Send
    <2>2. 0 \in States
      BY FeedAssumption DEF States
    <2> QED
      BY <1>1, <2>1, <2>2 DEF DispatchType
  <1> HIDE DEF e
  <1>5. conn' \in [Conns -> ConnType] /\ conn'[c] = e /\ \A d \in Conns : d # c => conn'[d] = conn[d]
    BY <1>1, <1>2, <1>3
  <1>6. TypeOK'
    BY <1>1, <1>4, <1>5 DEF FeedInv, TypeOK, DispatchType, ConnType, Handlers
  <1>7. Pointed' /\ Newcomers'
    BY <1>1, <1>3, <1>4, <1>5 DEF FeedInv, Pointed, Newcomers, Sending, Writing
  <1>8. Ordered'
    BY <1>1, <1>3, <1>4, <1>5, Types DEF FeedInv, Ordered, Pointed, Sending, Writing
  <1>9. Told'
    <2> SUFFICES ASSUME ~inShutdown', NEW d \in Conns, NEW x \in Tasks, Live(d)',
                        Watches[d] = Group[x]
                 PROVE  conn'[d].shown[x] = version'[x] \/ missed'[x] \/ OnItsWay(d, x)'
      BY DEF Told
    <2>1. ~inShutdown /\ Live(d) /\ conn'[d].shown = conn[d].shown
      BY <1>1, <1>3, <1>5 DEF inShutdown, Live
    <2>2. conn[d].shown[x] = version[x] \/ missed[x] \/ OnItsWay(d, x)
      BY <2>1 DEF FeedInv, Told
    <2>3. OnItsWay(d, x) => OnItsWay(d, x)'
      BY <1>1, <1>3, <1>4, <1>5 DEF OnItsWay, InFeed, Sending, Writing
    <2> QED
      BY <1>1, <2>1, <2>2, <2>3
  <1> QED
    BY <1>6, <1>7, <1>8, <1>9 DEF FeedInv

-----------------------------------------------------------------------------
(* The handler of a websocket.                                             *)

\* The client starts from what it has fetched, which is the last state.
LEMMA RegisterKeeps ==
    ASSUME FeedInv, NEW c \in Conns, Register(c)
    PROVE  FeedInv'
  <1> DEFINE e == [conn[c] EXCEPT !.handler = "waiting", !.channel = "open", !.reader = "reading",
                                  !.shown = version]
  <1>1. /\ conn[c].handler = "connecting" /\ conn[c] \in ConnType /\ conn \in [Conns -> ConnType]
        /\ version \in [Tasks -> States] /\ dispatch \in DispatchType
        /\ UNCHANGED <<version, feed, missed, died>> /\ watchers' = watchers \cup {c}
        /\ conn' = [conn EXCEPT ![c] = e]
    BY Types DEF Register, FeedInv, TypeOK
  <1>2. /\ e \in ConnType /\ e.handler = "waiting" /\ e.shown = version
    BY <1>1 DEF ConnType, Handlers
  <1> HIDE DEF e
  <1>3. conn' \in [Conns -> ConnType] /\ conn'[c] = e /\ \A d \in Conns : d # c => conn'[d] = conn[d]
    BY <1>1, <1>2
  <1>4. /\ dispatch' \in DispatchType /\ dispatch'.pc = dispatch.pc
        /\ dispatch'.task = dispatch.task /\ dispatch'.to = dispatch.to
        /\ dispatch'.state = dispatch.state /\ dispatch.todo \subseteq dispatch'.todo
    <2>1. PICK new \in SUBSET {c} :
             dispatch' = IF dispatch.pc = "receive" THEN dispatch
                         ELSE [dispatch EXCEPT !.todo = @ \cup new]
      BY DEF Register
    <2>2. dispatch.todo \cup new \in SUBSET Conns
      BY <1>1 DEF DispatchType
    <2> QED
      BY <1>1, <2>1, <2>2 DEF DispatchType
  <1>5. server' \in [pc : {"serving", "closing", "stopped"}, todo : SUBSET Conns]
        /\ server'.pc = server.pc
    <2>1. PICK new \in SUBSET {c} :
             server' = IF server.pc = "closing" THEN [server EXCEPT !.todo = @ \cup new] ELSE server
      BY DEF Register
    <2>2. server \in [pc : {"serving", "closing", "stopped"}, todo : SUBSET Conns]
      BY DEF FeedInv, TypeOK
    <2>3. server.todo \cup new \in SUBSET Conns
      BY <2>2
    <2> QED
      BY <2>1, <2>2, <2>3
  <1>6. TypeOK'
    BY <1>1, <1>3, <1>4, <1>5 DEF FeedInv, TypeOK, DispatchType, ConnType, Handlers
  <1>7. ~Sending(c) /\ ~Writing(c) /\ ~Writing(c)'
    BY <1>1, <1>2, <1>3 DEF FeedInv, Newcomers, Writing
  <1>8. Pointed' /\ Newcomers'
    BY <1>1, <1>2, <1>3, <1>4 DEF FeedInv, Pointed, Newcomers, Sending, Writing
  <1>9. Ordered'
    BY <1>1, <1>2, <1>3, <1>4, <1>7, Types DEF FeedInv, Ordered, Pointed, Sending, Writing
  <1>10. Told'
    <2> SUFFICES ASSUME ~inShutdown', NEW d \in Conns, NEW x \in Tasks, Live(d)',
                        Watches[d] = Group[x]
                 PROVE  conn'[d].shown[x] = version'[x] \/ missed'[x] \/ OnItsWay(d, x)'
      BY DEF Told
    <2>1. CASE d = c
      BY <1>1, <1>2, <1>3, <2>1
    <2>2. CASE d # c
      <3>1. ~inShutdown /\ Live(d) /\ conn'[d] = conn[d]
        BY <1>1, <1>3, <1>5, <2>2 DEF inShutdown, Live
      <3>2. conn[d].shown[x] = version[x] \/ missed[x] \/ OnItsWay(d, x)
        BY <3>1 DEF FeedInv, Told
      <3>3. OnItsWay(d, x) => OnItsWay(d, x)'
        BY <1>1, <1>4, <3>1 DEF OnItsWay, InFeed, Sending, Writing
      <3> QED
        BY <1>1, <3>1, <3>2, <3>3
    <2> QED
      BY <2>1, <2>2
  <1> QED
    BY <1>6, <1>8, <1>9, <1>10 DEF FeedInv

\* What a write leaves of its connection.
LEMMA WriteEffect ==
    ASSUME FeedInv, NEW c \in Conns, Write(c)
    PROVE  /\ conn' \in [Conns -> ConnType]
           /\ \A d \in Conns : d # c => conn'[d] = conn[d]
           /\ conn'[c].handler = "waiting" /\ conn'[c].reader = conn[c].reader
           /\ conn'[c].channel = conn[c].channel /\ conn'[c].socket = conn[c].socket
           /\ \A x \in Tasks : x # conn[c].task => conn'[c].shown[x] = conn[c].shown[x]
           /\ conn'[c].shown[conn[c].task] =
                 IF conn[c].socket = "up" THEN conn[c].state ELSE conn[c].shown[conn[c].task]
  <1> DEFINE t == conn[c].task
             new == IF conn[c].socket = "up" THEN [conn[c].shown EXCEPT ![t] = conn[c].state]
                    ELSE conn[c].shown
             e == [conn[c] EXCEPT !.shown = new, !.handler = "waiting", !.task = Nobody,
                                  !.state = 0]
  <1>1. /\ conn[c] \in ConnType /\ conn \in [Conns -> ConnType] /\ t \in Tasks /\ 0 \in States
        /\ conn[c].shown \in [Tasks -> States] /\ conn[c].state \in States
    BY Types, FeedAssumption DEF FeedInv, Pointed, Write, Writing, ConnType, States
  <1>2. conn' = [conn EXCEPT ![c] = e]
    BY <1>1 DEF Write, AfterWrite
  <1>3. /\ new \in [Tasks -> States]
        /\ \A x \in Tasks : x # t => new[x] = conn[c].shown[x]
        /\ new[t] = IF conn[c].socket = "up" THEN conn[c].state ELSE conn[c].shown[t]
    BY <1>1
  <1> HIDE DEF new
  <1>4. /\ e \in ConnType /\ e.handler = "waiting" /\ e.shown = new
        /\ e.reader = conn[c].reader /\ e.channel = conn[c].channel /\ e.socket = conn[c].socket
    <2> HIDE DEF t
    <2> QED
      BY <1>1, <1>3 DEF ConnType, Handlers
  <1> HIDE DEF e
  <1> QED
    BY <1>1, <1>2, <1>3, <1>4

\* A client that has the last state is not shown another: what was written is
\* not older than what it has, nor newer than the last.
LEMMA WriteKeeps ==
    ASSUME FeedInv, NEW c \in Conns, Write(c)
    PROVE  FeedInv'
  <1> DEFINE t == conn[c].task
  <1>1. /\ conn[c].handler = "writing" /\ t \in Tasks
        /\ UNCHANGED <<version, feed, missed, dispatch, watchers, server, died>>
        /\ conn[c].shown[t] <= conn[c].state /\ conn[c].state <= version[t]
        /\ conn[c].shown[t] \in Nat /\ conn[c].state \in Nat /\ version[t] \in Nat
    BY Types DEF FeedInv, Pointed, Ordered, Write, Writing
  <1>2. /\ conn' \in [Conns -> ConnType]
        /\ \A d \in Conns : d # c => conn'[d] = conn[d]
        /\ conn'[c].handler = "waiting" /\ conn'[c].reader = conn[c].reader
        /\ conn'[c].channel = conn[c].channel /\ conn'[c].socket = conn[c].socket
        /\ \A x \in Tasks : x # t => conn'[c].shown[x] = conn[c].shown[x]
        /\ conn'[c].shown[t] = IF conn[c].socket = "up" THEN conn[c].state ELSE conn[c].shown[t]
    BY WriteEffect
  <1>3. TypeOK'
    BY <1>1, <1>2 DEF FeedInv, TypeOK, ConnType, Handlers
  <1>4. Pointed' /\ Newcomers'
    BY <1>1, <1>2 DEF FeedInv, Pointed, Newcomers, Sending, Writing
  <1>5. Ordered'
    BY <1>1, <1>2, Types DEF FeedInv, Ordered, Pointed, Sending, Writing
  <1>6. Told'
    <2> SUFFICES ASSUME ~inShutdown', NEW d \in Conns, NEW x \in Tasks, Live(d)',
                        Watches[d] = Group[x]
                 PROVE  conn'[d].shown[x] = version'[x] \/ missed'[x] \/ OnItsWay(d, x)'
      BY DEF Told
    <2>1. ~inShutdown /\ Live(d)
      BY <1>1, <1>2 DEF inShutdown, Live
    <2>2. conn[d].shown[x] = version[x] \/ missed[x] \/ OnItsWay(d, x)
      BY <2>1 DEF FeedInv, Told
    <2>3. CASE d = c /\ x = t
      <3>1. conn'[c].shown[x] = conn[c].state
        BY <1>2, <2>1, <2>3 DEF Live
      <3>2. conn[c].shown[t] = version[t] => conn[c].state = version[t]
        BY <1>1
      <3>3. OnItsWay(d, x) => OnItsWay(d, x)' \/ conn[c].state = version[t]
        BY <1>1, <2>3 DEF OnItsWay, InFeed, Sending, Writing
      <3>4. conn'[d].shown[x] = conn[c].state
        BY <2>3, <3>1
      <3> QED
        BY <1>1, <2>2, <2>3, <3>2, <3>3, <3>4
    <2>4. CASE ~(d = c /\ x = t)
      <3>1. conn'[d].shown[x] = conn[d].shown[x]
        BY <1>2, <2>4
      <3>2. OnItsWay(d, x) => OnItsWay(d, x)'
        BY <1>1, <1>2, <2>4 DEF OnItsWay, InFeed, Sending, Writing
      <3> QED
        BY <1>1, <2>2, <3>1, <3>2
    <2> QED
      BY <2>3, <2>4
  <1> QED
    BY <1>3, <1>4, <1>5, <1>6 DEF FeedInv

-----------------------------------------------------------------------------
(* Every step.                                                             *)

LEMMA InitFeed == Init => FeedInv
  <1> SUFFICES ASSUME Init PROVE FeedInv
    OBVIOUS
  <1>1. 0 \in States /\ NoTask \in [Tasks -> States] /\ \A t \in Tasks : NoTask[t] = 0
    BY FeedAssumption DEF States, NoTask
  <1>2. /\ Idle \in DispatchType /\ Idle.pc = "receive"
        /\ \A c \in Conns : /\ conn[c] \in ConnType /\ conn[c].handler = "none"
                            /\ conn[c].reader = "none" /\ conn[c].shown = NoTask
    BY <1>1 DEF Init, Idle, DispatchType, ConnType, Handlers
  <1>3. conn \in [Conns -> ConnType]
    BY <1>2 DEF Init
  <1>4. TypeOK
    BY <1>1, <1>2, <1>3, FeedAssumption DEF Init, TypeOK, DispatchType, ConnType, Handlers
  <1>5. Pointed /\ Newcomers /\ Ordered
    BY <1>1, <1>2, Types, <1>4 DEF Init, Pointed, Newcomers, Ordered, Sending, Writing
  <1>6. Told
    BY <1>2 DEF Told, Live
  <1> QED
    BY <1>4, <1>5, <1>6 DEF FeedInv

LEMMA NextFeed ==
    ASSUME FeedInv, [Next]_vars
    PROVE  FeedInv'
  <1>1. ASSUME NEW t \in Tasks, Emit(t)
        PROVE  FeedInv'
    BY <1>1, EmitKeeps
  <1>2. ASSUME NEW c \in Conns, Visit(c) \/ Send(c)
        PROVE  FeedInv'
    BY <1>2, VisitKeeps, SendKeeps
  <1>3. ASSUME NEW c \in Conns, HandlerStep(c)
        PROVE  FeedInv'
    BY <1>3, RegisterKeeps, WriteKeeps, LeaveLoopWithdraws, ForgetWithdraws, WithdrawKeeps
       DEF HandlerStep
  <1>4. ASSUME NEW c \in Conns, Connect(c) \/ ReaderStep(c) \/ CloseWatcher(c)
        PROVE  FeedInv'
    BY <1>4, ConnectWithdraws, ReaderWithdraws, CloseWatcherWithdraws, WithdrawKeeps
  <1>5. ASSUME NEW c \in Conns, Disconnect(c, "eof") \/ Disconnect(c, "broken")
        PROVE  FeedInv'
    BY <1>5, DisconnectWithdraws, WithdrawKeeps
  <1>6. CASE UNCHANGED vars
    <2>1. TypeOK'
      BY <1>6 DEF FeedInv, TypeOK, vars
    <2> QED
      BY <1>6, <2>1, QuietKeeps DEF vars, inShutdown
  <1> QED
    BY <1>1, <1>2, <1>3, <1>4, <1>5, <1>6, ReceiveKeeps, EndOfEventKeeps, ServerKeeps
       DEF Next, Step, DispatchStep, ServerStep

LEMMA FeedSafe == Spec => []FeedInv
  BY InitFeed, NextFeed, PTL DEF Spec

\* The buffer, the goroutines, the channels and the clients keep their types:
\* the feed never holds more events than its buffer.
THEOREM FeedTypeOK == Spec => []TypeOK
  <1>1. FeedInv => TypeOK
    BY DEF FeedInv
  <1> QED
    BY <1>1, FeedSafe, PTL

\* When the feed has come to rest, a client that stayed and is behind was
\* failed by the bounded buffer and by nothing else.
THEOREM OnlyDropsLeaveBehind == Spec => []BehindOnlyIfDropped
  <1>1. FeedInv => BehindOnlyIfDropped
    <2> SUFFICES ASSUME FeedInv, AtRest, ~inShutdown, NEW c \in Conns, NEW t \in Tasks,
                        Follows(c, t)
                 PROVE  conn[c].shown[t] = version[t] \/ missed[t]
      BY DEF BehindOnlyIfDropped
    <2>1. Live(c) /\ Watches[c] = Group[t]
      BY DEF Follows, Live
    <2>2. ~OnItsWay(c, t)
      BY DEF AtRest, OnItsWay, InFeed, Sending, Writing
    <2> QED
      BY <2>1, <2>2 DEF FeedInv, Told
  <1> QED
    BY <1>1, FeedSafe, PTL

\* A step that shows a client something shows it nothing older.
LEMMA NotOlderStep ==
    ASSUME FeedInv, [Next]_vars, NEW c \in Conns, conn[c].reader # "none",
           conn'[c].socket = "up", NEW t \in Tasks
    PROVE  conn[c].shown[t] <= conn'[c].shown[t]
  <1>1. conn[c].shown[t] \in Nat /\ conn[c] \in ConnType /\ conn \in [Conns -> ConnType]
    BY Types DEF FeedInv
  <1>2. ASSUME NEW d \in Conns, Register(d)
        PROVE  conn'[c].shown[t] = conn[c].shown[t]
    <2>1. d # c
      BY <1>2 DEF FeedInv, Newcomers, Register
    <2> QED
      BY <1>1, <1>2, <2>1 DEF Register
  <1>3. ASSUME NEW d \in Conns, Write(d)
        PROVE  conn[c].shown[t] <= conn'[c].shown[t]
    <2>1. CASE d # c
      <3>1. conn'[c] = conn[c]
        BY <1>3, <2>1, WriteEffect
      <3> QED
        BY <1>1, <3>1
    <2>2. CASE d = c /\ t # conn[c].task
      <3>1. conn'[c].shown[t] = conn[c].shown[t]
        BY <1>3, <2>2, WriteEffect
      <3> QED
        BY <1>1, <3>1
    <2>3. CASE d = c /\ t = conn[c].task
      <3>1. conn'[c].shown[t] = IF conn[c].socket = "up" THEN conn[c].state ELSE conn[c].shown[t]
        BY <1>3, <2>3, WriteEffect
      <3>2. conn[c].shown[t] <= conn[c].state
        BY <1>3, <2>3 DEF FeedInv, Ordered, Write, Writing
      <3> QED
        BY <1>1, <3>1, <3>2
    <2> QED
      BY <2>1, <2>2, <2>3
  <1>4. ASSUME NEW d \in Conns, Disconnect(d, "eof") \/ Disconnect(d, "broken")
        PROVE  conn'[c].shown[t] = conn[c].shown[t]
    BY <1>1, <1>4 DEF Disconnect, ConnType
  <1>5. ASSUME NEW d \in Conns, \/ Connect(d) \/ LeaveLoop(d) \/ Forget(d) \/ ReaderStep(d)
                               \/ CloseWatcher(d) \/ Send(d)
        PROVE  conn'[c].shown[t] = conn[c].shown[t]
    <2>1. CASE c # d
      BY <1>1, <1>5, <2>1 DEF Connect, LeaveLoop, Forget, ReaderStep, ReaderForgets,
                              ReaderCloses, ReaderFails, CloseWatcher, Send
    <2>2. CASE c = d
      <3>1. CASE Connect(c) \/ Forget(c) \/ CloseWatcher(c)
        BY <1>1, <3>1 DEF Connect, Forget, CloseWatcher, ConnType
      <3>2. CASE LeaveLoop(c)
        BY <1>1, <3>2 DEF LeaveLoop, ConnType
      <3>3. CASE ReaderStep(c)
        BY <1>1, <3>3 DEF ReaderStep, ReaderForgets, ReaderCloses, ReaderFails, ConnType
      <3>4. CASE Send(c)
        BY <1>1, <3>4 DEF Send, ConnType
      <3> QED
        BY <1>5, <2>2, <3>1, <3>2, <3>3, <3>4
    <2> QED
      BY <2>1, <2>2
  <1>6. ASSUME \/ UNCHANGED vars \/ (\E x \in Tasks : Emit(x)) \/ Receive \/ EndOfEvent
               \/ SendPanics \/ (\E d \in Conns : Visit(d)) \/ StopServing \/ Stopped \/ MapRace
        PROVE  conn'[c].shown[t] = conn[c].shown[t]
    BY <1>6 DEF vars, Emit, Receive, EndOfEvent, SendPanics, Visit, StopServing, Stopped, MapRace
  <1> QED
    BY <1>1, <1>2, <1>3, <1>4, <1>5, <1>6
       DEF Next, Step, DispatchStep, ServerStep, HandlerStep

\* What a client is told of a task never goes back to an older state.
THEOREM NeverTakenBack == Spec => NeverOlder
  <1>1. FeedInv /\ [Next]_vars =>
           [\A c \in Conns : conn[c].reader # "none" /\ conn'[c].socket = "up" =>
               \A t \in Tasks : conn[c].shown[t] <= conn'[c].shown[t]]_vars
    BY NotOlderStep
  <1> QED
    BY <1>1, FeedSafe, PTL DEF Spec, NeverOlder
=============================================================================

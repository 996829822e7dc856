------------------------------ MODULE AppClose ------------------------------
(***************************************************************************)
(* How the connections of an app reach the engines, and how everything is  *)
(* closed again: the app's endpoint accepts a client, its first message    *)
(* decides to which engine the connection belongs, the connection migrates *)
(* to the thread of that engine (when engines have event loops of their    *)
(* own) and becomes a remote of it; closing goes down from app to engine,  *)
(* remote, connection, protocol and stream, and the news of each end goes  *)
(* up again until the app may end its own loop.                            *)
(*                                                                         *)
(* Every thread is an event loop: it runs its queue of tasks in order      *)
(* until the queue is empty, and then any callback of its streams that is  *)
(* due.                                                                    *)
(* A connection's place is one of                                          *)
(*   accepting  the stream exists, the protocol instance is being created  *)
(*   app        in the app's list of orphan connections                    *)
(*   moving     attached to the app, in no list, with no on_closed         *)
(*   engine     attached to its engine, in no list                         *)
(*   remote     the connection of one of the engine's remotes              *)
(*                                                                         *)
(* The definitions named Bad... are not part of the specification: each is *)
(* a definition that follows with a plausible bug in it.                   *)
(***************************************************************************)
EXTENDS Naturals, Sequences, FiniteSets, SequencesExt

CONSTANTS Connections,  \* the clients that may connect, each once
          Engines,      \* the graphs that may be started, each once
          App,          \* the app's thread
          None,         \* no connection
          Modes,        \* the configurations an app may be started with
          Races         \* may clients arrive while something is closing?

ASSUME EnginesAssumption == IsFiniteSet(Engines) /\ App \notin Engines
ASSUME NoneAssumption == None \notin Connections \cup Engines
ASSUME RacesAssumption == Races \in BOOLEAN
ASSUME ModesAssumption ==
  Modes \subseteq [own : BOOLEAN, appLong : BOOLEAN, engLong : BOOLEAN,
                   endpoint : BOOLEAN, batch : BOOLEAN,
                   clients : SUBSET Connections, graphs : SUBSET Engines]

VARIABLES
  mode,    \* [own: every engine has its own loop, appLong and engLong: the
           \*  app and the engines are in long_running_mode, endpoint: the app
           \*  listens, batch: a client's first read may hold several messages,
           \*  clients and graphs: those that may come and be started]
  app,     \* [state, endpoint, deinits: calls of ten_app_on_deinit, loop]
  engine,  \* per engine [st, closing, ctx: its extension context,
           \*  inMsgs, waits: the connection it waits for, stops: stop_graphs]
  conn,    \* per connection [at, to: its engine, hop: its migration, first:
           \*  the message that moves it, rest: messages read behind it, shut
           \*  and pshut: is_closing of connection and protocol, stream, eof]
  queue,   \* the tasks of each runloop
  draining \* per runloop: are the tasks being run?  They run until none is left

vars == <<mode, app, engine, conn, queue, draining>>

Loops == {App} \cup Engines

\* A task names its function and the connection or engine it is about.
TaskFor(f, x) == [run |-> f, on |-> x]

MoveTasks == {"accepted", "clean", "cleaned", "proto_close"}
GraphTasks == {"in_msgs", "close_engine", "context_closed", "engine_closed"}
Tasks == [run : MoveTasks, on : Connections] \cup
         [run : GraphTasks, on : Engines] \cup {TaskFor("close_app", App)}

Messages == [from : Connections \cup {None}, kind : {"start", "cmd", "stop"}]

TypeOK ==
  /\ mode \in Modes
  /\ app \in [state : {"running", "closing", "closed"},
              endpoint : {"none", "open", "closing", "closed"},
              deinits : Nat, loop : {"up", "stopping", "ended"}]
  /\ engine \in [Engines ->
       [st : {"none", "up", "stopping", "stopped", "gone"}, closing : BOOLEAN,
        ctx : {"none", "up", "closing", "ended"}, inMsgs : Seq(Messages),
        waits : Connections \cup {None}, stops : 0..1]]
  /\ conn \in [Connections ->
       [at : {"none", "accepting", "app", "moving", "engine", "remote", "gone"},
        to : Engines \cup {None},
        hop : {"no", "reset", "asked", "prepared", "sent", "waited", "done"},
        first : {"start", "cmd"}, rest : BOOLEAN, shut : BOOLEAN,
        pshut : BOOLEAN, eof : BOOLEAN,
        stream : {"none", "open", "closing", "cleaning", "cleaned", "closed"}]]
  /\ queue \in [Loops -> Seq(Tasks)]
  /\ draining \in [Loops -> BOOLEAN]

-----------------------------------------------------------------------------
Init ==
  /\ mode \in Modes
  /\ app = [state |-> "running", deinits |-> 0, loop |-> "up",
            endpoint |-> IF mode.endpoint THEN "open" ELSE "none"]
  /\ engine = [e \in Engines |->
       [st |-> "none", closing |-> FALSE, ctx |-> "none", inMsgs |-> <<>>,
        waits |-> None, stops |-> 0]]
  /\ conn = [c \in Connections |->
       [at |-> "none", to |-> None, hop |-> "no", first |-> "cmd",
        rest |-> FALSE, shut |-> FALSE, pshut |-> FALSE, eof |-> FALSE,
        stream |-> "none"]]
  /\ queue = [l \in Loops |-> <<>>]
  /\ draining = [l \in Loops |-> FALSE]

-----------------------------------------------------------------------------
(* The runloops. *)

LoopOf(e) == IF mode.own THEN e ELSE App
AttachedLoop(c) == IF conn[c].at \in {"engine", "remote"} THEN LoopOf(conn[c].to) ELSE App

\* A loop that was told to stop refuses tasks.
Accepts(l) == IF l = App THEN app.loop = "up" ELSE engine[l].st = "up"
Post(q, l, t) == IF Accepts(l) THEN [q EXCEPT ![l] = Append(@, t)] ELSE q

\* The engine thread is blocked while it waits for a connection to be cleaned.
Turns(l) ==
  IF l = App THEN app.loop # "ended"
  ELSE engine[l].st \in {"up", "stopping"} /\ engine[l].waits = None

\* The loop takes its next task, or a callback while it runs none.
Task(f, l, x) == Turns(l) /\ queue[l] # <<>> /\ Head(queue[l]) = TaskFor(f, x)
Taken(l) == [queue EXCEPT ![l] = Tail(@)]

\* Once a task has run the loop runs those that are left, and new ones, before
\* it returns to its callbacks.
Drained(l) == draining' = [draining EXCEPT ![l] = queue'[l] # <<>>]
Callback(l) == Turns(l) /\ ~draining[l]

-----------------------------------------------------------------------------
(* Who is where.  k and g stand for the connections and engines of a step  *)
(* under way.                                                              *)

Orphans(k) == {c \in Connections : k[c].at = "app"}
RemotesOf(e, k) == {c \in Connections : k[c].at = "remote" /\ k[c].to = e}
Listed(g) == {e \in Engines : g[e].st \in {"up", "stopping", "stopped"}}

\* Connections without an engine are no work.
BadAppCouldClose(a, k, g) == Listed(g) = {} /\ a.endpoint \in {"none", "closed"}

AppCouldClose(a, k, g) ==
  Orphans(k) = {} /\ Listed(g) = {} /\ a.endpoint \in {"none", "closed"}

\* ten_app_proceed_to_close: with nothing left the app calls on_deinit.
Proceeds(a, k, g) ==
  IF AppCouldClose(a, k, g) THEN [a EXCEPT !.deinits = @ + 1] ELSE a

\* ten_connection_close, down to the stream, whose end is reported later.
ShutProtocol(r) ==
  IF r.pshut THEN r
  ELSE [r EXCEPT !.pshut = TRUE,
                 !.stream = IF @ = "open" THEN "closing" ELSE @]
ShutConnection(r) == IF r.shut THEN r ELSE ShutProtocol([r EXCEPT !.shut = TRUE])
Shut(k, set) == [c \in Connections |-> IF c \in set THEN ShutConnection(k[c]) ELSE k[c]]

\* ten_engine_close_async, for every engine of a set not yet asked to close.
CloseAsync(g, set) == [e \in Engines |-> IF e \in set THEN [g[e] EXCEPT !.closing = TRUE] ELSE g[e]]
ClosePosted(q, set) ==
  LET asked == {e \in set : ~engine[e].closing} IN
  IF mode.own
  THEN [l \in Loops |-> IF l \in asked /\ Accepts(l)
                        THEN Append(q[l], TaskFor("close_engine", l)) ELSE q[l]]
  ELSE [q EXCEPT ![App] = IF Accepts(App)
          THEN @ \o SetToSeq({TaskFor("close_engine", e) : e \in asked}) ELSE @]

\* An app that is closing already is closed once more.
BadAppReaps(e, k, g, q) ==
  LET g2 == [g EXCEPT ![e].st = "gone"]
      a == IF mode.appLong THEN app ELSE [app EXCEPT !.state = "closing"]
  IN /\ engine' = g2 /\ conn' = k
     /\ queue' = IF mode.appLong THEN q ELSE Post(q, App, TaskFor("close_app", App))
     /\ app' = IF a.state = "running" THEN a ELSE Proceeds(a, k, g2)

\* ten_app_check_termination_when_engine_closed: the app forgets the engine
\* and, unless it is in long_running_mode, closes as well.
AppReaps(e, k, g, q) ==
  LET closes == ~mode.appLong /\ app.state = "running"
      a == IF closes THEN [app EXCEPT !.state = "closing"] ELSE app
      g2 == [g EXCEPT ![e].st = "gone"]
  IN /\ engine' = g2
     /\ conn' = k
     /\ queue' = IF closes THEN Post(q, App, TaskFor("close_app", App)) ELSE q
     /\ app' = IF a.state = "running" THEN a ELSE Proceeds(a, k, g2)

\* ten_engine_on_close: an engine without remotes and extension context ends.
\* With a loop of its own it stops the loop, otherwise the app is told at once.
EngineProceeds(e, k, g, q) ==
  IF g[e].ctx # "none" \/ RemotesOf(e, k) # {}
  THEN engine' = g /\ conn' = k /\ queue' = q /\ UNCHANGED app
  ELSE IF mode.own
  THEN engine' = [g EXCEPT ![e].st = "stopping"] /\ conn' = k /\ queue' = q /\ UNCHANGED app
  ELSE AppReaps(e, k, g, q)

-----------------------------------------------------------------------------
(* The races.  The code is not made for a client that comes while what it   *)
(* comes to is closing, nor for a close while a connection is on its way.   *)
(* With Races = FALSE neither happens; the README says what goes wrong.     *)

OnItsWay(c) ==
  \/ conn[c].at \in {"accepting", "moving", "engine"}
  \/ conn[c].hop \in {"asked", "prepared", "sent", "waited"}

\* An engine that closes or will close.  The end of a remote ends its engine,
\* unless the engine is in long_running_mode.
Doomed(e) ==
  /\ engine[e].st # "gone"
  /\ \/ engine[e].closing \/ engine[e].stops > 0
     \/ ~mode.engLong /\ \E c \in Connections :
          /\ conn[c].to = e /\ conn[c].at \in {"engine", "remote"}
          /\ conn[c].eof \/ conn[c].pshut

AppDoomed == app.state # "running" \/ (~mode.appLong /\ \E e \in Engines : Doomed(e))

MayConnect == Races \/ ~AppDoomed
MayReach(e) == Races \/ (~AppDoomed /\ ~Doomed(e))

MayEnd(e) == Races \/ \A c \in Connections : OnItsWay(c) => mode.appLong /\ conn[c].to # e
MayEndApp == Races \/ \A c \in Connections : ~OnItsWay(c)

-----------------------------------------------------------------------------
(* Clients. *)

\* A client is accepted: the protocol instance that will read it is created by
\* the addon, whose answer comes back as a task of the app.
Connect(c) ==
  /\ c \in mode.clients /\ conn[c].at = "none"
  /\ app.endpoint = "open" /\ app.loop = "up" /\ Callback(App) /\ MayConnect
  /\ conn' = [conn EXCEPT ![c].at = "accepting"]
  /\ queue' = Post(queue, App, TaskFor("accepted", c))
  /\ UNCHANGED <<mode, app, engine, draining>>

Accepted(c) ==
  /\ Task("accepted", App, c)
  /\ conn' = [conn EXCEPT ![c].at = "app", ![c].stream = "open"]
  /\ queue' = Taken(App)
  /\ UNCHANGED <<mode, app, engine>>
  /\ Drained(App)

\* The protocol is closed at once.
BadDisconnect(c) ==
  LET l == AttachedLoop(c) IN
  /\ conn[c].stream = "open" /\ ~conn[c].eof /\ Callback(l)
  /\ conn[c].at \in {"app", "engine", "remote"} /\ conn[c].hop \in {"no", "reset", "done"}
  /\ conn[c].at = "app" \/ mode.engLong \/ MayEnd(conn[c].to)
  /\ conn' = [conn EXCEPT ![c] = ShutProtocol([@ EXCEPT !.eof = TRUE])]
  /\ UNCHANGED <<mode, app, engine, queue, draining>>

\* The client is gone.  The protocol is closed by a task of its own, behind
\* everything that was read before.
Disconnect(c) ==
  LET l == AttachedLoop(c) IN
  /\ conn[c].stream = "open" /\ ~conn[c].eof /\ Callback(l)
  /\ conn[c].at \in {"app", "engine", "remote"} /\ conn[c].hop \in {"no", "reset", "done"}
  /\ conn[c].at = "app" \/ mode.engLong \/ MayEnd(conn[c].to)
  /\ conn' = [conn EXCEPT ![c].eof = TRUE]
  /\ queue' = Post(queue, l, TaskFor("proto_close", c))
  /\ UNCHANGED <<mode, app, engine, draining>>

\* The protocol may be gone when its task runs: the task holds a reference.
ProtoClose(l, c) ==
  /\ Task("proto_close", l, c)
  /\ conn' = [conn EXCEPT ![c] = ShutProtocol(@)]
  /\ queue' = Taken(l)
  /\ UNCHANGED <<mode, app, engine>>
  /\ Drained(l)

-----------------------------------------------------------------------------
(* The first message of a connection, in the app's thread. *)

\* ten_engine_append_to_in_msgs_queue
Appended(g, e, m) == [g EXCEPT ![e].inMsgs = Append(@, m)]
InMsgsPosted(q, e) == Post(q, LoopOf(e), TaskFor("in_msgs", e))

\* A graph without loop of its own takes the connection at once: what was read
\* behind the first message is posted, then the message.  Otherwise the stream
\* stops reading and starts its way to the other thread.
Arrives(c, e, g, first, rest) ==
  IF mode.own
  THEN /\ conn' = [conn EXCEPT ![c].to = e, ![c].hop = "asked", ![c].first = first,
                               ![c].rest = rest]
       /\ engine' = g
       /\ UNCHANGED queue
  ELSE /\ conn' = [conn EXCEPT ![c].to = e, ![c].hop = "done", ![c].first = first,
                               ![c].rest = rest, ![c].at = "engine"]
       /\ engine' = Appended(g, e, [from |-> c, kind |-> first])
       /\ queue' = InMsgsPosted(Post(queue, App, TaskFor("cleaned", c)), e)

ReadsFirst(c) ==
  /\ conn[c].at = "app" /\ conn[c].hop \in {"no", "reset"} /\ conn[c].stream = "open"
  /\ ~conn[c].eof /\ Callback(App)

Reads(c, rest) == rest \in BOOLEAN /\ (rest => mode.batch)

\* start_graph, for a graph that has no engine yet, or a command to an engine.
FirstToEngine(c, e, rest) ==
  /\ ReadsFirst(c) /\ Reads(c, rest) /\ e \in mode.graphs /\ MayReach(e)
  /\ \/ engine[e].st = "none" /\ Arrives(c, e, [engine EXCEPT ![e].st = "up"], "start", rest)
     \/ e \in Listed(engine) /\ Arrives(c, e, engine, "cmd", rest)
  /\ UNCHANGED <<mode, app, draining>>

\* No graph of that name: the connection is as before its first message.  Each
\* client makes this mistake at most once.
GraphNotFound(c) ==
  /\ ReadsFirst(c) /\ conn[c].hop = "no" /\ MayConnect
  /\ conn' = [conn EXCEPT ![c].hop = "reset"]
  /\ queue' = Post(queue, App, TaskFor("cleaned", c))
  /\ UNCHANGED <<mode, app, engine, draining>>

\* ten_app_close, by any thread.
CloseRequested(q) ==
  IF app.state = "running"
  THEN app' = [app EXCEPT !.state = "closing"] /\ queue' = Post(q, App, TaskFor("close_app", App))
  ELSE queue' = q /\ UNCHANGED app

\* close_app as the first message: the connection stays with the app.
FirstClosesApp(c) ==
  /\ ReadsFirst(c) /\ MayEndApp
  /\ conn' = [conn EXCEPT ![c].hop = "done"]
  /\ CloseRequested(Post(queue, App, TaskFor("cleaned", c)))
  /\ UNCHANGED <<mode, engine, draining>>

-----------------------------------------------------------------------------
(* The migration of a stream to the loop of its engine. *)

\* The engine's end of the pipe is made,
PipeReady(e, c) ==
  /\ Callback(e) /\ conn[c].to = e /\ conn[c].hop = "asked"
  /\ conn' = [conn EXCEPT ![c].hop = "prepared"]
  /\ UNCHANGED <<mode, app, engine, queue, draining>>

\* the app's thread writes the socket of the old stream into it,
SocketSent(c) ==
  /\ Callback(App) /\ conn[c].hop = "prepared" /\ conn[c].at = "app"
  /\ conn' = [conn EXCEPT ![c].hop = "sent"]
  /\ UNCHANGED <<mode, app, engine, queue, draining>>

\* and the engine has the app clean the connection and waits for it.
StreamMigrated(e, c) ==
  /\ Callback(e) /\ conn[c].to = e /\ conn[c].hop = "sent"
  /\ conn' = [conn EXCEPT ![c].hop = "waited"]
  /\ engine' = [engine EXCEPT ![e].waits = c]
  /\ queue' = Post(queue, App, TaskFor("clean", c))
  /\ UNCHANGED <<mode, app, draining>>

\* Cleaning takes the connection off the app's list and closes the old stream,
\* whose end is now for the migration and no longer for the protocol.
Clean(c) ==
  /\ Task("clean", App, c) /\ conn[c].at = "app"
  /\ conn' = [conn EXCEPT ![c].at = "moving", ![c].stream = "cleaning"]
  /\ queue' = Taken(App)
  /\ UNCHANGED <<mode, app, engine>>
  /\ Drained(App)

StreamCleaned(c) ==
  /\ Callback(App) /\ conn[c].stream = "cleaning"
  /\ conn' = [conn EXCEPT ![c].stream = "cleaned"]
  /\ UNCHANGED <<mode, app, engine, queue, draining>>

\* The rest is posted before the first message.
BadMigrationDone(e, c) ==
  /\ engine[e].waits = c /\ conn[c].stream = "cleaned"
  /\ conn' = [conn EXCEPT ![c].at = "engine", ![c].hop = "done", ![c].stream = "open"]
  /\ engine' = [Appended(engine, e, [from |-> c, kind |-> conn[c].first]) EXCEPT ![e].waits = None]
  /\ queue' = InMsgsPosted(Post(queue, e, TaskFor("cleaned", c)), e)
  /\ UNCHANGED <<mode, app, draining>>

\* The engine takes the connection over: first its message, then what was read
\* behind it, then the new stream is read.
MigrationDone(e, c) ==
  /\ engine[e].waits = c /\ conn[c].stream = "cleaned"
  /\ conn' = [conn EXCEPT ![c].at = "engine", ![c].hop = "done", ![c].stream = "open"]
  /\ engine' = [Appended(engine, e, [from |-> c, kind |-> conn[c].first]) EXCEPT ![e].waits = None]
  /\ queue' = Post(InMsgsPosted(queue, e), e, TaskFor("cleaned", c))
  /\ UNCHANGED <<mode, app, draining>>

\* ten_protocol_on_cleaned_task: the messages kept back are handed on.
Cleaned(l, c) ==
  /\ Task("cleaned", l, c)
  /\ conn' = [conn EXCEPT ![c].rest = FALSE]
  /\ queue' = Taken(l)
  /\ UNCHANGED <<mode, app, engine>>
  /\ Drained(l)

-----------------------------------------------------------------------------
(* Engines. *)

\* A graph of the app's property file that starts by itself.
StartPredefined(e) ==
  /\ Turns(App) /\ app.state = "running"
  /\ e \in mode.graphs /\ engine[e].st = "none" /\ MayReach(e)
  /\ engine' = [engine EXCEPT ![e].st = "up",
                  ![e].inMsgs = <<[from |-> None, kind |-> "start"]>>]
  /\ queue' = [queue EXCEPT ![LoopOf(e)] = Append(@, TaskFor("in_msgs", e))]
  /\ UNCHANGED <<mode, app, conn, draining>>

\* stop_graph, from an extension, a client or another graph: one per graph.
StopGraph(e) ==
  /\ engine[e].st = "up" /\ engine[e].stops = 0
  /\ MayEnd(e) /\ (Races \/ ~engine[e].closing)
  /\ engine' = [Appended(engine, e, [from |-> None, kind |-> "stop"]) EXCEPT ![e].stops = 1]
  /\ queue' = InMsgsPosted(queue, e)
  /\ UNCHANGED <<mode, app, conn, draining>>

\* ten_engine_handle_in_msgs_sync: a connection that sent a message becomes a
\* remote of the engine; an engine that is closing handles no message.
InMsgs(l, e) ==
  LET msgs == engine[e].inMsgs
      Handled == {i \in DOMAIN msgs :
        ~engine[e].closing /\ \A j \in 1..(i - 1) : msgs[j].kind # "stop"}
      Has(kind) == \E i \in Handled : msgs[i].kind = kind
      Senders == {msgs[i].from : i \in DOMAIN msgs}
  IN /\ Task("in_msgs", l, e)
     /\ conn' = [c \in Connections |->
          IF c \in Senders /\ conn[c].at = "engine"
          THEN [conn[c] EXCEPT !.at = "remote"] ELSE conn[c]]
     /\ engine' = [CloseAsync(engine, IF Has("stop") THEN {e} ELSE {}) EXCEPT
          ![e].inMsgs = <<>>, ![e].ctx = IF Has("start") THEN "up" ELSE @]
     /\ queue' = ClosePosted(Taken(l), IF Has("stop") THEN {e} ELSE {})
     /\ UNCHANGED <<mode, app>>
     /\ Drained(l)

\* ten_engine_close_sync
CloseEngine(l, e) ==
  LET g == [engine EXCEPT ![e].ctx = IF @ = "up" THEN "closing" ELSE @]
      k == Shut(conn, RemotesOf(e, conn))
  IN /\ Task("close_engine", l, e)
     /\ EngineProceeds(e, k, g, Taken(l))
     /\ UNCHANGED mode
     /\ Drained(l)

\* The last thread of the extension context is gone, and tells the engine.
ContextEnds(e) ==
  /\ engine[e].ctx = "closing"
  /\ engine' = [engine EXCEPT ![e].ctx = "ended"]
  /\ queue' = Post(queue, LoopOf(e), TaskFor("context_closed", e))
  /\ UNCHANGED <<mode, app, conn, draining>>

ContextClosed(l, e) ==
  /\ Task("context_closed", l, e)
  /\ EngineProceeds(e, conn, [engine EXCEPT ![e].ctx = "none"], Taken(l))
  /\ UNCHANGED mode
  /\ Drained(l)

\* The engine's thread ends with its loop and tells the app, which joins it.
EngineThreadEnds(e) ==
  /\ engine[e].st = "stopping" /\ engine[e].waits = None /\ queue[e] = <<>>
  /\ engine' = [engine EXCEPT ![e].st = "stopped"]
  /\ queue' = Post(queue, App, TaskFor("engine_closed", e))
  /\ UNCHANGED <<mode, app, conn, draining>>

EngineClosed(e) ==
  /\ Task("engine_closed", App, e)
  /\ AppReaps(e, conn, engine, Taken(App))
  /\ UNCHANGED mode
  /\ Drained(App)

-----------------------------------------------------------------------------
(* The end of a stream goes up: protocol, connection, orphan or remote. *)

OrphanClosed(c) ==
  LET k == [conn EXCEPT ![c].at = "gone", ![c].stream = "closed", ![c].shut = TRUE] IN
  /\ conn[c].stream = "closing" /\ conn[c].at = "app" /\ Callback(App)
  /\ conn' = k
  /\ app' = IF app.state = "running" THEN app ELSE Proceeds(app, k, engine)
  /\ UNCHANGED <<mode, engine, queue, draining>>

\* ten_engine_on_connection_closed and ten_engine_on_remote_closed: what is not
\* yet a remote is just destroyed; a closing engine may end now, and another
\* one closes, unless it is in long_running_mode.
RemoteClosed(c) ==
  LET e == conn[c].to
      k == [conn EXCEPT ![c].at = "gone", ![c].stream = "closed", ![c].shut = TRUE]
      set == IF mode.engLong \/ conn[c].at = "engine" THEN {} ELSE {e}
  IN /\ conn[c].stream = "closing" /\ conn[c].at \in {"engine", "remote"}
     /\ Callback(LoopOf(e))
     /\ IF engine[e].closing /\ conn[c].at = "remote"
        THEN EngineProceeds(e, k, engine, queue)
        ELSE /\ conn' = k
             /\ engine' = CloseAsync(engine, set)
             /\ queue' = ClosePosted(queue, set)
             /\ UNCHANGED app
     /\ UNCHANGED <<mode, draining>>

-----------------------------------------------------------------------------
(* The app. *)

\* A signal, or close_app from an extension.
CloseApp ==
  /\ app.state = "running" /\ MayEndApp
  /\ CloseRequested(queue)
  /\ UNCHANGED <<mode, engine, conn, draining>>

\* ten_app_close_task: engines, orphans and the endpoint are told to close.
CloseAppTask ==
  /\ Task("close_app", App, App)
  /\ IF AppCouldClose(app, conn, engine)
     THEN app' = Proceeds(app, conn, engine) /\ queue' = Taken(App) /\ UNCHANGED <<engine, conn>>
     ELSE /\ engine' = CloseAsync(engine, Listed(engine))
          /\ queue' = ClosePosted(Taken(App), Listed(engine))
          /\ conn' = Shut(conn, Orphans(conn))
          /\ app' = [app EXCEPT !.endpoint = IF @ = "open" THEN "closing" ELSE @]
  /\ UNCHANGED mode
  /\ Drained(App)

\* The app takes no notice of the end of its endpoint.
BadEndpointClosed ==
  /\ app.endpoint = "closing" /\ Callback(App)
  /\ app' = [app EXCEPT !.endpoint = "closed"]
  /\ UNCHANGED <<mode, engine, conn, queue, draining>>

EndpointClosed ==
  /\ app.endpoint = "closing" /\ Callback(App)
  /\ app' = Proceeds([app EXCEPT !.endpoint = "closed"], conn, engine)
  /\ UNCHANGED <<mode, engine, conn, queue, draining>>

\* The app's on_deinit has called on_deinit_done.
DeinitDone ==
  /\ app.deinits > 0 /\ app.state = "closing" /\ Turns(App)
  /\ app' = [app EXCEPT !.state = "closed", !.loop = "stopping"]
  /\ UNCHANGED <<mode, engine, conn, queue, draining>>

AppLoopEnds ==
  /\ app.loop = "stopping" /\ queue[App] = <<>>
  /\ app' = [app EXCEPT !.loop = "ended"]
  /\ UNCHANGED <<mode, engine, conn, queue, draining>>

-----------------------------------------------------------------------------
AppTasks ==
  \/ \E c \in Connections : Accepted(c) \/ ProtoClose(App, c) \/ Clean(c) \/ Cleaned(App, c)
  \/ \E e \in Engines :
       InMsgs(App, e) \/ CloseEngine(App, e) \/ ContextClosed(App, e) \/ EngineClosed(e)
  \/ CloseAppTask

EngineTasks(e) ==
  \/ \E c \in Connections : ProtoClose(e, c) \/ Cleaned(e, c)
  \/ InMsgs(e, e) \/ CloseEngine(e, e) \/ ContextClosed(e, e)

\* What a runloop is told by the operating system.
Callbacks(c) ==
  \/ SocketSent(c) \/ StreamCleaned(c) \/ OrphanClosed(c) \/ RemoteClosed(c)
  \/ \E e \in Engines : PipeReady(e, c) \/ StreamMigrated(e, c) \/ MigrationDone(e, c)

Clients(c) ==
  \/ Connect(c) \/ Disconnect(c) \/ GraphNotFound(c) \/ FirstClosesApp(c)
  \/ \E e \in Engines, rest \in BOOLEAN : FirstToEngine(c, e, rest)

Owners == CloseApp \/ \E e \in Engines : StartPredefined(e) \/ StopGraph(e)

Ends == EndpointClosed \/ DeinitDone \/ AppLoopEnds
EngineEnds(e) == ContextEnds(e) \/ EngineThreadEnds(e)

Next ==
  \/ AppTasks \/ Ends \/ Owners
  \/ \E e \in Engines : EngineTasks(e) \/ EngineEnds(e)
  \/ \E c \in Connections : Callbacks(c) \/ Clients(c)

Spec == Init /\ [][Next]_vars

\* Loops run, sockets report their end and extensions end; nobody has to come,
\* to leave, or to close the app.
FairSpec ==
  /\ Spec
  /\ WF_vars(AppTasks) /\ WF_vars(Ends)
  /\ \A e \in Engines : WF_vars(EngineTasks(e)) /\ WF_vars(EngineEnds(e))
  /\ \A c \in Connections : WF_vars(Callbacks(c))

-----------------------------------------------------------------------------
(* What has to hold. *)

\* A task, a message and a migration never meet a connection or an engine that
\* is gone (a close of the protocol holds a reference of its own).
NothingDangles ==
  /\ \A l \in Loops : \A i \in DOMAIN queue[l] :
       LET t == queue[l][i] IN
       /\ t.run \in {"accepted", "clean", "cleaned"} => conn[t.on].at # "gone"
       /\ t.run \in GraphTasks => engine[t.on].st # "gone"
  /\ \A e \in Engines : \A i \in DOMAIN engine[e].inMsgs :
       LET c == engine[e].inMsgs[i].from IN c # None => conn[c].at # "gone"
  /\ \A c \in Connections : conn[c].hop \in {"asked", "prepared", "sent", "waited"} =>
       conn[c].at # "gone" /\ engine[conn[c].to].st \in {"up", "stopping"}

\* When the app calls on_deinit nothing of it is left, not even the connections
\* that are in no list of the app.
EndsClean ==
  app.deinits > 0 =>
    /\ \A c \in Connections : conn[c].at \in {"none", "gone"}
    /\ \A e \in Engines : engine[e].st \in {"none", "gone"}
    /\ app.endpoint # "open"

\* An app that listens calls on_deinit once: the news of the end of its engines,
\* orphans and endpoint come in any order, and only the last one finds that the
\* app could close (app/close.c:96-140).
DeinitOnce == mode.endpoint => app.deinits <= 1

\* What was read behind the first message of a connection is handed on when the
\* first one was handled, so that its graph gets the messages in order.
RestBehindFirst ==
  \A l \in Loops : queue[l] # <<>> =>
    LET t == Head(queue[l]) IN
    t.run = "cleaned" /\ conn[t.on].rest /\ conn[t.on].hop = "done" /\ ~conn[t.on].pshut
      => conn[t.on].at # "engine"

\* The app that was asked to close ends its loop, whether the clients it has stay
\* or leave, and in whatever order its engines and connections end.  With
\* Races = FALSE only: no client comes to what is closing, and no connection is
\* on its way to an engine when it, or the app, begins to close.
AppEnds == app.state = "closing" ~> app.loop = "ended"

\* on_deinit is called before the loop of the app is stopped.
DeinitBeforeStop == [][app.loop = "up" \/ app'.deinits = app.deinits]_vars

\* A connection that is about to be cleaned still belongs to the app.
CleanedWhileAttached ==
  \A i \in DOMAIN queue[App] :
    queue[App][i].run = "clean" => conn[queue[App][i].on].at = "app"
=============================================================================

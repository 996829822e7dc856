----------------------------- MODULE StartGraph -----------------------------
(***************************************************************************)
(* A graph that spreads over several apps comes up.  A client sends        *)
(* start_graph to one app; the engine there connects to the neighbour apps *)
(* of the graph and passes the command on, they do the same, and the       *)
(* results come back along the same channels.  Two neighbours may connect  *)
(* to each other at the same time: one of the two channels is a duplicate  *)
(* and is given up.                                                        *)
(*                                                                         *)
(* A channel <<a, b>> is the connection that the engine of app a makes to  *)
(* app b.  At a it is a weak remote for b until a result says otherwise;   *)
(* at b it becomes a normal remote for a when the command is taken.  An    *)
(* engine runs the tasks of its loop in order; what its sockets bring      *)
(* comes between any two of them.                                          *)
(*                                                                         *)
(* The definitions named Bad... are not part of the specification: each is *)
(* a definition that follows with a plausible bug in it.                   *)
(***************************************************************************)
EXTENDS Naturals, FiniteSets, Sequences, SequencesExt

CONSTANTS App,     \* the apps
          Root,    \* the app the client sends its start_graph to
          Client,  \* the client
          None,    \* nobody
          Graphs,  \* the graphs: records as in GraphType
          MaxMade  \* a bound on the engines an app makes for the graph

ASSUME NamesAreDistinct ==
  Root \in App /\ Client \notin App /\ None \notin App \cup {Client} \cup (App \X App)

Channels == {c \in App \X App : c[1] # c[2]}

\* next: the neighbours of an app in the order the engine finds them; uri: the
\* place of its uri in the order of ten_c_string_is_equal_or_smaller; down:
\* apps that do not listen; unknown: apps whose protocol has no addon; long:
\* the apps in long_running_mode.
GraphType == [next : [App -> Seq(App)], uri : [App -> Nat], down : SUBSET App,
              unknown : SUBSET App, long : SUBSET App]

\* Each extension of the graph tells both ends of its connections.
ASSUME GraphsSymmetric ==
  \A g \in Graphs : /\ g \in GraphType
                    /\ \A a, b \in App : /\ b \in ToSet(g.next[a]) <=> a \in ToSet(g.next[b])
                                         /\ a # b => g.uri[a] # g.uri[b]

\* ten_list_find_string keeps an app from being listed twice; none lists itself.
ASSUME NeighboursDistinct ==
  \A g \in Graphs, a \in App : /\ a \notin ToSet(g.next[a])
                              /\ \A i, j \in DOMAIN g.next[a] : g.next[a][i] = g.next[a][j] => i = j

VARIABLES
  graph,   \* the graph that is started
  engine,  \* per app, the engine of the graph, see NewEngine
  wire,    \* per channel [st, fwd, back]: its state and what is under way on it
  told,    \* the results the client was sent
  failed   \* the assertion that failed, if one did

vars == <<graph, engine, wire, told, failed>>

\* original: who sent original_start_graph_cmd_of_enabling_engine; out: the
\* neighbours with an OUT path, oks: those of them whose path has an OK result;
\* context: the extension context, requester: who sent its state_requester_cmd;
\* weak and normal: the remotes; made: the engines made so far;
\* inMsgs and tasks: the queue of commands and that of the loop.
NewEngine(state, made) ==
  [state |-> state, original |-> None, out |-> {}, oks |-> {}, context |-> "none",
   requester |-> None, weak |-> {}, normal |-> [b \in App |-> None],
   made |-> made, inMsgs |-> <<>>, tasks |-> <<>>]

Task(f, x) == [run |-> f, on |-> x]
NoTask == Task("none", None)
NextTask(e) == IF e.tasks = <<>> THEN NoTask ELSE Head(e.tasks)
Ran(e) == [e EXCEPT !.tasks = Tail(e.tasks)]
Posted(e, t) == [e EXCEPT !.tasks = Append(e.tasks, t)]

\* A command in the middle of a task: the sockets wait.
Free(e) == NextTask(e).run # "start_graph"

Idle == [st |-> "none", fwd |-> <<>>, back |-> <<>>]
Over == [st |-> "closed", fwd |-> <<>>, back |-> <<>>]

Running == failed = "none"

---------------------------------------------------------------------------
(* Remotes *)

\* Remotes that are still weak are overlooked.
BadRemoteExists(e, b) == e.normal[b] # None

\* ten_engine_check_remote_is_existed
RemoteExists(e, b) == e.normal[b] # None \/ b \in e.weak

\* ten_engine_check_remote_is_duplicated
Duplicated(a, b) == RemoteExists(engine[a], b) /\ graph.uri[b] < graph.uri[a]

\* The end of channel c that app a holds reads In and writes Out.
Out(a, c) == IF c[1] = a THEN "fwd" ELSE "back"
In(a, c) == IF c[1] = a THEN "back" ELSE "fwd"
Peer(a, c) == IF c[1] = a THEN c[2] ELSE c[1]

\* What is sent on a channel that one end has closed is lost.
Sent(w, a, c, m) ==
  IF w[c].st = "up" THEN [w EXCEPT ![c][Out(a, c)] = Append(@, m)] ELSE w

\* A result made from the start_graph of s is dispatched by engine e of app a:
\* not when the engine closes, and to nobody without a normal remote for s.
Answered(w, a, e, s, r) ==
  IF e.state # "up" \/ s = Client \/ e.normal[s] = None THEN w ELSE Sent(w, a, e.normal[s], r)
Heard(e, s, r) == IF e.state = "up" /\ s = Client THEN told \cup {r} ELSE told

\* ten_engine_close_async
Closing(e) ==
  IF e.state = "up" THEN Posted([e EXCEPT !.state = "closing"], Task("close", None)) ELSE e

\* What is left of e when a start_graph is answered with an error.
GivenUp(e) == Closing([e EXCEPT !.original = None])

---------------------------------------------------------------------------
(* Commands *)

\* The first bytes on a new channel: the app makes an engine for the graph if
\* there is none and gives it the command.
Arrive(c) ==
  LET a == c[2]
      e == IF engine[a].state \in {"none", "gone"} THEN NewEngine("up", engine[a].made + 1)
           ELSE engine[a] IN
  /\ wire[c].fwd # <<>> /\ Head(wire[c].fwd) = "start_graph"
  /\ e.made <= MaxMade
  /\ engine' = [engine EXCEPT ![a] = Posted([e EXCEPT !.inMsgs = Append(@, c[1])],
                                            Task("handle_in_msgs", None))]
  /\ wire' = [wire EXCEPT ![c].fwd = Tail(@)]
  /\ UNCHANGED <<told, failed>>

\* ten_engine_handle_in_msgs_sync: all commands of the queue, one after the other.
HandleInMsgs(a) ==
  LET e == engine[a] IN
  /\ NextTask(e).run = "handle_in_msgs"
  /\ engine' = [engine EXCEPT ![a].inMsgs = <<>>,
                  ![a].tasks = [i \in DOMAIN e.inMsgs |-> Task("start_graph", e.inMsgs[i])]
                               \o Tail(e.tasks)]
  /\ UNCHANGED <<wire, told, failed>>

\* The connection of a command that is no duplicate becomes a remote.
Linked(a, s) == IF s = Client THEN Ran(engine[a])
                ELSE [Ran(engine[a]) EXCEPT !.normal[s] = <<s, a>>]

SendDuplicate(a, s) ==
  /\ engine' = [engine EXCEPT ![a] = Ran(@)]
  /\ wire' = Sent(wire, a, <<s, a>>, "duplicate")
  /\ UNCHANGED <<told, failed>>

\* ten_engine_enable_extension_system: e, linked, has nobody left to connect to.
Enable(a, e, s) ==
  IF e.context = "none"
  THEN /\ engine' = [engine EXCEPT ![a] = [e EXCEPT !.context = "starting", !.requester = s]]
       /\ UNCHANGED <<wire, told>>
  ELSE /\ engine' = [engine EXCEPT ![a] = e]
       /\ wire' = Answered(wire, a, e, s, "ok")
       /\ told' = Heard(e, s, "ok")

\* The neighbours that have no remote yet get an OUT path and a protocol
\* instance each, up to the first whose protocol nobody knows.
Connect(a, e, s, new) ==
  LET bad == SelectInSeq(new, LAMBDA b : b \in graph.unknown)
      some == IF bad = 0 THEN new ELSE SubSeq(new, 1, bad - 1)
      asked == [e EXCEPT !.out = @ \cup ToSet(some) \cup (IF bad = 0 THEN {} ELSE {new[bad]}),
                         !.tasks = @ \o [i \in DOMAIN some |-> Task("created", some[i])]] IN
  IF bad = 0
  THEN /\ engine' = [engine EXCEPT ![a] = [asked EXCEPT !.original = s]]
       /\ UNCHANGED <<wire, told>>
  ELSE /\ engine' = [engine EXCEPT ![a] = GivenUp(asked)]
       /\ wire' = Answered(wire, a, e, s, "error")
       /\ told' = Heard(e, s, "error")

\* The k-th of the numbers I.
Nth(I, k) == CHOOSE i \in I : Cardinality({j \in I : j <= i}) = k

\* The neighbours without a remote, in the order of the list.
NewApps(a, e) ==
  LET new == {i \in DOMAIN graph.next[a] : ~RemoteExists(e, graph.next[a][i])} IN
  [k \in 1 .. Cardinality(new) |-> graph.next[a][Nth(new, k)]]

\* ten_engine_handle_cmd_start_graph, behind the check for a duplicate channel.
TakeStartGraph(a, s) ==
  LET e == Linked(a, s)
      new == NewApps(a, e) IN
  /\ failed' = IF s # Client /\ engine[a].normal[s] # None THEN "one remote"
               ELSE IF /\ e.state = "up" /\ new # <<>> /\ e.original # None
                       /\ ToSet(new) \cap graph.unknown = {} THEN "one original" ELSE failed
  /\ IF e.state # "up" THEN engine' = [engine EXCEPT ![a] = e] /\ UNCHANGED <<wire, told>>
     ELSE IF new = <<>> THEN Enable(a, e, s) ELSE Connect(a, e, s, new)

HandleStartGraph(a) ==
  LET s == NextTask(engine[a]).on IN
  /\ NextTask(engine[a]).run = "start_graph"
  /\ IF s # Client /\ Duplicated(a, s) THEN SendDuplicate(a, s) ELSE TakeStartGraph(a, s)

---------------------------------------------------------------------------
(* Channels *)

\* A channel is named by its ends: nothing of an earlier one from a to b is left.
\* (While an app makes one engine, MaxMade = 1, there is no earlier one.)
Clean(a, b) == wire[<<a, b>>] \in {Idle, Over} /\ engine[b].normal[a] # <<a, b>>

\* ten_engine_connect_to_remote_after_remote_is_created, with the engine's
\* second look for a duplicate.
Created(a) ==
  LET e == Ran(engine[a])
      b == NextTask(engine[a]).on IN
  /\ NextTask(engine[a]).run = "created"
  /\ Duplicated(a, b) \/ Clean(a, b)
  /\ IF Duplicated(a, b)
     THEN /\ engine' = [engine EXCEPT ![a] = e]
          /\ wire' = IF e.original = None THEN wire ELSE Answered(wire, a, e, e.original, "ok")
          /\ told' = IF e.original = None THEN told ELSE Heard(e, e.original, "ok")
          /\ UNCHANGED failed
     ELSE /\ engine' = [engine EXCEPT ![a] = [e EXCEPT !.weak = @ \cup {b}]]
          /\ wire' = [wire EXCEPT ![<<a, b>>].st = "connecting"]
          /\ failed' = IF b \in e.weak THEN "one weak remote" ELSE failed
          /\ UNCHANGED told

\* ten_engine_on_graph_remote_connected
Connected(c) ==
  /\ wire[c].st = "connecting" /\ c[2] \notin graph.down /\ Free(engine[c[1]])
  /\ wire' = [wire EXCEPT ![c] = [@ EXCEPT !.st = "up", !.fwd = <<"start_graph">>]]
  /\ UNCHANGED <<engine, told, failed>>

\* ten_engine_on_graph_remote_connect_error
ConnectError(c) ==
  LET a == c[1]
      e == engine[a] IN
  /\ wire[c].st = "connecting" /\ c[2] \in graph.down /\ Free(e)
  /\ engine' = [engine EXCEPT ![a] = IF e.original # None THEN GivenUp(e)
                                     ELSE [e EXCEPT !.weak = @ \ {c[2]}]]
  /\ wire' = [IF e.original = None THEN wire ELSE Answered(wire, a, e, e.original, "error")
              EXCEPT ![c].st = "closed"]
  /\ told' = IF e.original = None THEN told ELSE Heard(e, e.original, "error")
  /\ UNCHANGED failed

\* A duplicate is taken for the channel that stays.
BadSettled(e, c, r) == [e EXCEPT !.weak = @ \ {c[2]}, !.normal[c[2]] = c]

\* ten_engine_close_duplicated_remote_or_upgrade_it_to_normal
Settled(e, c, r) ==
  IF r = "duplicate" THEN [e EXCEPT !.weak = @ \ {c[2]}]
  ELSE [e EXCEPT !.weak = @ \ {c[2]}, !.normal[c[2]] = c]
HungUp(w, c) == [w EXCEPT ![c] = [st |-> "closed", fwd |-> Append(@.fwd, "eof"), back |-> <<>>]]

\* The first OK decides.
BadWithResultFirst(e, b) == [e EXCEPT !.out = {}, !.oks = {}]

\* The OUT paths when b's has a result: the last OK decides, an error at once.
WithResult(e, b) ==
  LET oks == e.oks \cup {b} IN
  IF oks = e.out THEN [e EXCEPT !.out = {}, !.oks = {}] ELSE [e EXCEPT !.oks = oks]

\* ten_engine_handle_cmd_result_for_cmd_start_graph
ReceiveOk(a, c, r) ==
  LET b == c[2]
      e == Settled(engine[a], c, r)
      w == IF r = "duplicate" THEN HungUp(wire, c) ELSE [wire EXCEPT ![c].back = Tail(@)]
      p == WithResult(e, b) IN
  IF b \notin e.out \/ p.out # {}
  THEN /\ engine' = [engine EXCEPT ![a] = IF b \in e.out THEN p ELSE e]
       /\ wire' = w /\ UNCHANGED told
  ELSE IF e.context = "none"
  THEN /\ engine' = [engine EXCEPT ![a] = [p EXCEPT !.context = "starting", !.requester = e.original]]
       /\ wire' = w /\ UNCHANGED told
  ELSE /\ engine' = [engine EXCEPT ![a] = p]
       /\ wire' = Answered(w, a, e, e.original, "ok")
       /\ told' = Heard(e, e.original, "ok")

ReceiveError(a, c) ==
  LET e == engine[a]
      w == [wire EXCEPT ![c].back = Tail(@)] IN
  IF c[2] \in e.out
  THEN /\ engine' = [engine EXCEPT ![a] = GivenUp([e EXCEPT !.out = {}, !.oks = {}])]
       /\ wire' = Answered(w, a, e, e.original, "error")
       /\ told' = Heard(e, e.original, "error")
  ELSE wire' = w /\ UNCHANGED <<engine, told>>

\* A result comes over a channel this app has made.
Receive(c) ==
  LET a == c[1]
      e == engine[a]
      r == Head(wire[c].back) IN
  /\ wire[c].back # <<>> /\ r # "eof" /\ Free(e)
  /\ failed' = IF e.state # "up" THEN failed
               ELSE IF r # "error" /\ c[2] \notin e.weak THEN "weak remote"
               ELSE IF c[2] \in e.out /\ e.original = None THEN "an original" ELSE failed
  /\ IF e.state # "up" THEN wire' = [wire EXCEPT ![c].back = Tail(@)] /\ UNCHANGED <<engine, told>>
     ELSE IF r = "error" THEN ReceiveError(a, c) ELSE ReceiveOk(a, c, r)

---------------------------------------------------------------------------
(* Getting ready, and closing *)

\* ten_engine_on_extension_thread_is_ready, of the last thread
Ready(a) ==
  LET e == engine[a] IN
  /\ e.state \in {"up", "closing"} /\ e.context = "starting" /\ Free(e)
  /\ engine' = [engine EXCEPT ![a].context = "ready", ![a].requester = None]
  /\ wire' = Answered(wire, a, e, e.requester, "ok")
  /\ told' = Heard(e, e.requester, "ok")
  /\ UNCHANGED failed

\* Commands that came to e over a channel and are still to be handled.
Unhandled(e) == ToSet(e.inMsgs) \cup {t.on : t \in {u \in ToSet(e.tasks) : u.run = "start_graph"}}

\* The other end of channel c has closed: its remote at a, if it is one, closes
\* too, and the engine with a normal one (ten_engine_on_remote_closed).
Eof(a, c) ==
  LET e == engine[a]
      b == Peer(a, c)
      isNormal == e.normal[b] = c
      isWeak == c[1] = a /\ b \in e.weak
      rest == [e EXCEPT !.normal[b] = IF isNormal THEN None ELSE @,
                        !.weak = IF isWeak THEN @ \ {b} ELSE @] IN
  /\ wire[c][In(a, c)] # <<>> /\ Head(wire[c][In(a, c)]) = "eof" /\ Free(e)
  /\ a = c[1] \/ b \notin Unhandled(e)
  /\ engine' = [engine EXCEPT ![a] = IF isNormal /\ a \notin graph.long THEN Closing(rest) ELSE rest]
  /\ wire' = [wire EXCEPT ![c] = Over]
  /\ UNCHANGED <<told, failed>>

\* The channels whose end a holds as a remote.
Held(a) == {c \in Channels : \/ c[1] = a /\ c[2] \in engine[a].weak
                             \/ a \in {c[1], c[2]} /\ engine[a].normal[Peer(a, c)] = c}

\* ten_engine_close_sync: every remote closes.
CloseEngine(a) ==
  /\ NextTask(engine[a]).run = "close"
  /\ engine' = [engine EXCEPT ![a] = [Ran(@) EXCEPT !.state = "draining", !.weak = {},
                                       !.normal = [b \in App |-> None]]]
  /\ wire' = [c \in Channels |->
                IF c \notin Held(a) THEN wire[c]
                ELSE LET w == [wire[c] EXCEPT !.st = "closed", ![In(a, c)] = <<>>] IN
                     IF wire[c].st = "up" THEN [w EXCEPT ![Out(a, c)] = Append(@, "eof")] ELSE w]
  /\ UNCHANGED <<told, failed>>

\* ten_engine_on_extension_context_closed
ContextClosed(a) ==
  /\ engine[a].state = "draining" /\ engine[a].context # "none" /\ Free(engine[a])
  /\ engine' = [engine EXCEPT ![a].context = "none"]
  /\ UNCHANGED <<wire, told, failed>>

\* ten_engine_on_close: nothing is left, and the queues go with the engine.
EngineGone(a) ==
  /\ engine[a].state = "draining" /\ engine[a].context = "none" /\ Free(engine[a])
  /\ engine[a].weak = {} /\ \A b \in App : engine[a].normal[b] = None
  /\ engine' = [engine EXCEPT ![a] = NewEngine("gone", engine[a].made)]
  /\ UNCHANGED <<wire, told, failed>>

---------------------------------------------------------------------------

\* The client's command is in the queue of the first engine.
Init ==
  /\ graph \in Graphs
  /\ engine = [a \in App |-> IF a # Root THEN NewEngine("none", 0)
                  ELSE Posted([NewEngine("up", 1) EXCEPT !.inMsgs = <<Client>>],
                              Task("handle_in_msgs", None))]
  /\ wire = [c \in Channels |-> Idle]
  /\ told = {} /\ failed = "none"

\* What the engine of a does next, of its tasks or of what comes to it.
EngineStep(a) ==
  \/ HandleInMsgs(a) \/ HandleStartGraph(a) \/ Created(a) \/ CloseEngine(a)
  \/ Ready(a) \/ ContextClosed(a) \/ EngineGone(a)

WireStep(c) ==
  \/ Arrive(c) \/ Connected(c) \/ ConnectError(c) \/ Receive(c)
  \/ \E a \in {c[1], c[2]} : Eof(a, c)

Next == /\ Running
        /\ \/ \E a \in App : EngineStep(a)
           \/ \E c \in Channels : WireStep(c)
        /\ UNCHANGED graph

Spec == Init /\ [][Next]_vars

\* Loops go on, sockets deliver.
FairSpec == /\ Spec
            /\ \A a \in App : WF_vars(Running /\ EngineStep(a) /\ UNCHANGED graph)
            /\ \A c \in Channels : WF_vars(Running /\ WireStep(c) /\ UNCHANGED graph)

---------------------------------------------------------------------------

TypeOK ==
  /\ graph \in GraphType
  /\ \A a \in App :
       LET e == engine[a] IN
       /\ e.state \in {"none", "up", "closing", "draining", "gone"}
       /\ e.original \in App \cup {Client, None} /\ e.requester \in App \cup {Client, None}
       /\ e.oks \subseteq e.out /\ e.out \subseteq App \ {a}
       /\ e.context \in {"none", "starting", "ready"}
       /\ e.weak \subseteq App \ {a}
       /\ \A b \in App : e.normal[b] \in {<<a, b>>, <<b, a>>, None}
  /\ \A c \in Channels : /\ wire[c].st \in {"none", "connecting", "up", "closed"}
                         /\ wire[c].fwd \in Seq({"start_graph", "ok", "error", "eof"})
                         /\ wire[c].back \in Seq({"ok", "error", "duplicate", "eof"})
  /\ told \subseteq {"ok", "error"}

\* The apps can all be reached.
Healthy == graph.down \cup graph.unknown = {}

Neighbours(a) == ToSet(graph.next[a])

\* Every app has its extensions running, and each two neighbours use one channel.
Built ==
  \A a \in App :
    /\ engine[a].context = "ready"
    /\ \A b \in Neighbours(a) : /\ engine[a].normal[b] # None
                                /\ engine[a].normal[b] = engine[b].normal[a]

\* No assertion fails, whatever comes first, the result of the own connection or
\* the other side's start_graph: one command at a time has the engine enabled
\* (engine/msg_interface/start_graph.c:127-128), a neighbour has one weak and
\* one normal remote at most (engine/internal/remote_interface.c:183-187 and
\* :238-241), and results come over weak remotes
\* (engine/msg_interface/cmd_result.c).
AssertionsHold == failed = "none"

\* Two start_graph commands never ask the engine to wait at the same time: "Should
\* not happen." (engine/msg_interface/start_graph.c:127-128).
OneOriginal == failed # "one original"

\* The client hears OK when the last app is ready and not before: the engine
\* returns it when all its neighbours have (engine/on_xxx.c:58-61,
\* engine/msg_interface/cmd_result.c).
OkMeansBuilt == [][told' # told /\ "ok" \in told' => Built']_vars

\* All or nothing: a graph whose apps can be reached is there in the end and
\* stays, and otherwise the client is told and no engine is left, although
\* errors are answered by engines that begin to close
\* (engine/msg_interface/start_graph.c:209-217, :221-222).
GraphSettles ==
  /\ Healthy => <>[](told = {"ok"} /\ Built)
  /\ ~Healthy => <>[](told = {"error"} /\ \A a \in App \ graph.long : engine[a].state \in {"none", "gone"})

\* Two engines that have a normal remote for each other have it for the same
\* channel, whichever of the two start_graphs and results came first: both ends
\* see that one of two channels is a duplicate (ten_engine_check_remote_is_duplicated
\* is asked before a connection begins and when a start_graph comes over one).
ChannelsAgree ==
  Running =>
    \A a, b \in App :
      /\ a # b /\ {engine[a].state, engine[b].state} \subseteq {"up", "closing"}
      /\ engine[a].normal[b] # None /\ engine[b].normal[a] # None
      => engine[a].normal[b] = engine[b].normal[a]

\* Of two channels between two apps, that from the smaller uri to the larger one
\* is kept (engine/internal/remote_interface.c:515-518).
KeptChannel ==
  \A a, b \in App :
    /\ engine[a].normal[b] # None /\ engine[b].normal[a] # None
    /\ wire[<<a, b>>].st # "none" /\ wire[<<b, a>>].st # "none"
    /\ graph.uri[a] < graph.uri[b]
    => engine[a].normal[b] = <<a, b>>
=============================================================================

--------------------------- MODULE AppCloseProofs ---------------------------
(***************************************************************************)
(* What is proved of the closing of an app, for any number of clients and  *)
(* graphs and any configuration: the types, whatever clients do (Typed);   *)
(* and, if no client arrives while what it comes to is closing and nothing *)
(* closes that a connection is on its way to (Races = FALSE, as in the     *)
(* runs), that an app that listens calls on_deinit once; that nothing is   *)
(* left when an app calls it; that no task, message or migration meets a   *)
(* connection or an engine that is gone; and, if also clients send several *)
(* messages at once only to graphs with a loop of their own, that what was *)
(* read behind a first message is handed on behind it.                     *)
(*                                                                         *)
(* The inductive invariant IInv says of each task that may be in a queue   *)
(* in which state its connection or engine is (TasksOK) and behind which   *)
(* others it is not (Ordered), how connections, engines and the app fit    *)
(* together (ConnectionOK, EngineOK, AppOK), and that nothing that closes  *)
(* is on the way of a connection (Calm).  A queue is seen through two      *)
(* relations: what is in it, and what is behind what.                      *)
(***************************************************************************)
EXTENDS AppClose, FiniteSetTheorems, TLAPS

\* Clients send several messages at once only to graphs with a loop of their own.
BatchesMigrate == \A m \in Modes : m.batch => m.own

\* t is in the queue of l.
In(q, l, t) == \E i \in 1 .. Len(q[l]) : q[l][i] = t

\* One t is behind one s.
Behind(q, l, t, s) ==
    \E i, j \in 1 .. Len(q[l]) : i < j /\ q[l][i] = s /\ q[l][j] = t

\* Every t has an s before it.
AllBehind(q, l, t, s) ==
    \A j \in 1 .. Len(q[l]) : q[l][j] = t => \E i \in 1 .. (j - 1) : q[l][i] = s

Way == {"asked", "prepared", "sent", "waited"}
Attached == {"app", "engine", "remote"}

\* Tasks that are in a queue once.
Once == {t \in Tasks : t.run \notin {"in_msgs", "cleaned"}}

Ordered(q) ==
    \A l \in Loops :
        /\ \A t \in Once : ~Behind(q, l, t, t)
        /\ \A c \in Connections :
              ~Behind(q, l, TaskFor("cleaned", c), TaskFor("clean", c))
        /\ \A e \in Engines :
              ~Behind(q, l, TaskFor("in_msgs", e), TaskFor("close_engine", e))

MoveTasksOK(l, c) ==
    /\ In(queue, l, TaskFor("accepted", c)) => l = App /\ conn[c].at = "accepting"
    /\ In(queue, l, TaskFor("clean", c)) =>
          l = App /\ conn[c].at = "app" /\ conn[c].hop = "waited"
    /\ In(queue, l, TaskFor("cleaned", c)) =>
          /\ conn[c].at \in Attached /\ l = AttachedLoop(c)
          /\ conn[c].stream = "closing" => draining[l]
    /\ In(queue, l, TaskFor("proto_close", c)) =>
          /\ conn[c].eof /\ conn[c].at \in Attached \cup {"gone"}
          /\ conn[c].at \in Attached => l = AttachedLoop(c)

GraphTasksOK(l, e) ==
    /\ In(queue, l, TaskFor("in_msgs", e)) => l = LoopOf(e) /\ engine[e].st = "up"
    /\ In(queue, l, TaskFor("close_engine", e)) =>
          /\ l = LoopOf(e) /\ engine[e].st = "up" /\ engine[e].closing
          /\ engine[e].ctx \in {"none", "up"}
    /\ In(queue, l, TaskFor("context_closed", e)) =>
          /\ l = LoopOf(e) /\ engine[e].st = "up" /\ engine[e].ctx = "ended"
    /\ In(queue, l, TaskFor("engine_closed", e)) =>
          l = App /\ mode.own /\ engine[e].st = "stopped"

\* The task that closes an app a is yet to come.  It may come after the app has
\* ended, if the app has no endpoint.
ToClose(a) ==
    /\ a.state = "closing" \/ (a.state = "closed" /\ a.endpoint = "none")
    /\ a.endpoint \in {"none", "open"}

TasksOK ==
    \A l \in Loops :
        /\ \A c \in Connections : MoveTasksOK(l, c)
        /\ \A e \in Engines : GraphTasksOK(l, e)
        /\ In(queue, l, TaskFor("close_app", App)) =>
              l = App /\ ToClose(app)

ConnectionOK(c) ==
    LET r == conn[c] IN
    /\ r.at \in {"none", "accepting"} =>
          /\ r.hop = "no" /\ r.to = None /\ r.stream = "none"
          /\ ~r.eof /\ ~r.pshut /\ ~r.shut
    /\ r.at \in Attached => r.stream \in {"open", "closing"} /\ (r.pshut <=> r.stream = "closing")
    /\ r.at = "moving" =>
          r.hop = "waited" /\ r.stream \in {"cleaning", "cleaned"} /\ ~r.pshut
    /\ r.at = "gone" => r.stream = "closed"
    /\ r.at \in {"engine", "remote"} =>
          r.hop = "done" /\ r.to \in Engines /\ engine[r.to].st = "up"
    /\ r.hop \in Way =>
          /\ r.at \in {"app", "moving"} /\ mode.own /\ r.to \in Engines /\ ~r.eof
          /\ r.at = "app" => r.stream = "open"
    /\ r.hop = "waited" => engine[r.to].waits = c
    /\ r.at = "engine" =>
          /\ \E i \in 1 .. Len(engine[r.to].inMsgs) : engine[r.to].inMsgs[i].from = c
          /\ In(queue, LoopOf(r.to), TaskFor("in_msgs", r.to))
          /\ r.stream = "closing" => draining[LoopOf(r.to)]
    /\ r.rest => mode.batch
    /\ r.at = "engine" /\ mode.own =>
          AllBehind(queue, r.to, TaskFor("cleaned", c), TaskFor("in_msgs", r.to))

\* A message of c is on the way to e.
OnTheWay(c, e) == (conn[c].hop \in Way \/ conn[c].at = "engine") /\ conn[c].to = e

\* A start_graph that is handled: no stop is before it.
HasStart(msgs) ==
    \E i \in 1 .. Len(msgs) :
        msgs[i].kind = "start" /\ \A j \in 1 .. (i - 1) : msgs[j].kind # "stop"

Pending(e) == In(queue, LoopOf(e), TaskFor("close_engine", e))

EngineOK(e) ==
    LET g == engine[e] IN
    /\ g.st = "none" => /\ ~g.closing /\ g.ctx = "none" /\ g.inMsgs = <<>>
                        /\ g.stops = 0
    /\ ~g.closing => g.st \in {"none", "up"} /\ g.ctx \in {"none", "up"}
    /\ g.st = "up" /\ ~g.closing /\ g.ctx = "none" =>
          \/ \E c \in Connections : OnTheWay(c, e) /\ conn[c].first = "start"
          \/ HasStart(g.inMsgs) /\ RemotesOf(e, conn) = {}
    /\ g.st = "up" /\ ~g.closing /\ g.ctx = "none" =>
          \/ \E c \in Connections :
                conn[c].hop \in Way /\ conn[c].to = e /\ conn[c].first = "start"
          \/ HasStart(g.inMsgs)
    /\ g.ctx = "none" /\ g.closing /\ Pending(e) => RemotesOf(e, conn) = {}
    /\ g.closing /\ In(queue, LoopOf(e), TaskFor("in_msgs", e)) => Pending(e)
    /\ g.ctx \in {"closing", "ended"} => g.st = "up"
    /\ \A i \in 1 .. Len(g.inMsgs) :
          /\ g.inMsgs[i].from # None =>
                LET r == conn[g.inMsgs[i].from] IN
                r.at = "engine" /\ r.to = e /\ r.first = g.inMsgs[i].kind
          /\ g.inMsgs[i].kind = "stop" => g.stops = 1
    /\ g.waits # None =>
          conn[g.waits].hop = "waited" /\ conn[g.waits].to = e
    /\ g.st \in {"stopping", "stopped"} => mode.own

AppOK ==
    /\ mode.endpoint => app.endpoint # "none"
    /\ app.state = "running" => app.endpoint \in {"none", "open"}
    /\ app.deinits > 0 =>
          /\ app.state # "running" /\ app.endpoint \in {"none", "closed"}
          /\ Orphans(conn) = {} /\ Listed(engine) = {}
    /\ app.endpoint # "none" => app.deinits <= 1
    /\ app.state = "closed" \/ app.loop # "up" => app.deinits > 0
    /\ ~mode.appLong /\ app.state = "running" => \A e \in Engines : engine[e].st # "gone"

Calm ==
    /\ app.state # "running" => \A c \in Connections : ~OnItsWay(c)
    /\ ~mode.appLong /\ (\E e \in Engines : Doomed(e)) =>
          \A c \in Connections : ~OnItsWay(c)
    /\ \A c \in Connections : OnItsWay(c) /\ conn[c].to \in Engines =>
          conn[c].hop \in Way \cup {"done"} /\ engine[conn[c].to].st = "up" /\ ~Doomed(conn[c].to)

IInv ==
    /\ TypeOK /\ Ordered(queue) /\ TasksOK /\ AppOK /\ Calm
    /\ \A c \in Connections : ConnectionOK(c)
    /\ \A e \in Engines : EngineOK(e)

-----------------------------------------------------------------------------
(* The queues. *)

Queues == [Loops -> Seq(Tasks)]

\* The tasks, by their functions.
LEMMA TaskKinds ==
    ASSUME NEW f, NEW x,
           \/ f \in MoveTasks /\ x \in Connections
           \/ f \in GraphTasks /\ x \in Engines
           \/ f = "close_app" /\ x = App
    PROVE  TaskFor(f, x) \in Tasks
BY DEF TaskFor, Tasks

LEMMA SameTask ==
    \A f, x, g, y : TaskFor(f, x) = TaskFor(g, y) <=> f = g /\ x = y
<1> SUFFICES ASSUME NEW f, NEW x, NEW g, NEW y, TaskFor(f, x) = TaskFor(g, y)
             PROVE  f = g /\ x = y
    OBVIOUS
<1>1. /\ TaskFor(f, x).run = f /\ TaskFor(f, x).on = x
      /\ TaskFor(g, y).run = g /\ TaskFor(g, y).on = y
    BY DEF TaskFor
<1> QED
    BY <1>1

LEMMA Appends ==
    ASSUME NEW q \in Queues, NEW l \in Loops, NEW t \in Tasks
    PROVE  LET p == [q EXCEPT ![l] = Append(@, t)] IN
           /\ p \in Queues
           /\ \A k \in Loops : \A u : In(p, k, u) <=> In(q, k, u) \/ (k = l /\ u = t)
           /\ \A k \in Loops : \A u, s :
                Behind(p, k, u, s) <=> Behind(q, k, u, s) \/ (k = l /\ u = t /\ In(q, k, s))
           /\ \A k \in Loops : \A u, s :
                AllBehind(q, k, u, s) /\ (k = l /\ u = t => In(q, k, s)) => AllBehind(p, k, u, s)
<1> DEFINE p == [q EXCEPT ![l] = Append(@, t)]
<1>1. p = [q EXCEPT ![l] = Append(q[l], t)]
  OBVIOUS
<1>2. q[l] \in Seq(Tasks)
  BY DEF Queues
<1>3. /\ p \in Queues
      /\ \A k \in Loops : k # l => p[k] = q[k]
      /\ p[l] = Append(q[l], t)
  BY <1>1, <1>2 DEF Queues
<1>4. /\ Len(p[l]) = Len(q[l]) + 1 /\ Len(q[l]) \in Nat
      /\ p[l][Len(q[l]) + 1] = t
      /\ \A i \in 1 .. Len(q[l]) : p[l][i] = q[l][i]
  BY <1>2, <1>3
<1> HIDE DEF p
<1>5. ASSUME NEW k \in Loops, NEW u
      PROVE  In(p, k, u) <=> In(q, k, u) \/ (k = l /\ u = t)
  <2>1. CASE k # l
    BY <2>1, <1>3 DEF In
  <2>2. CASE k = l
    <3>1. In(p, l, u) => In(q, l, u) \/ u = t
      BY <1>4, SMTT(30) DEF In
    <3>2. In(q, l, u) => In(p, l, u)
      BY <1>4 DEF In
    <3>3. u = t => In(p, l, u)
      BY <1>4 DEF In
    <3> QED
      BY <3>1, <3>2, <3>3, <2>2
  <2> QED
    BY <2>1, <2>2
<1>6. ASSUME NEW k \in Loops, NEW u, NEW s
      PROVE  Behind(p, k, u, s) <=> Behind(q, k, u, s) \/ (k = l /\ u = t /\ In(q, k, s))
  <2>1. CASE k # l
    BY <2>1, <1>3 DEF Behind
  <2>2. CASE k = l
    <3>1. ASSUME Behind(p, l, u, s) PROVE Behind(q, l, u, s) \/ (u = t /\ In(q, l, s))
      <4>1. PICK i, j \in 1 .. Len(p[l]) : i < j /\ p[l][i] = s /\ p[l][j] = u
        BY <3>1 DEF Behind
      <4>2. CASE j \in 1 .. Len(q[l])
        BY <4>1, <4>2, <1>4 DEF Behind
      <4>3. CASE j = Len(q[l]) + 1
        BY <4>1, <4>3, <1>4 DEF In
      <4> QED
        BY <4>1, <4>2, <4>3, <1>4
    <3>2. Behind(q, l, u, s) => Behind(p, l, u, s)
      BY <1>4 DEF Behind
    <3>3. ASSUME u = t, In(q, l, s) PROVE Behind(p, l, u, s)
      <4>1. PICK i \in 1 .. Len(q[l]) : q[l][i] = s
        BY <3>3 DEF In
      <4>2. /\ i \in 1 .. Len(p[l]) /\ Len(q[l]) + 1 \in 1 .. Len(p[l])
            /\ i < Len(q[l]) + 1 /\ p[l][i] = s /\ p[l][Len(q[l]) + 1] = u
        BY <4>1, <1>4, <3>3
      <4> QED
        BY <4>2 DEF Behind
    <3> QED
      BY <3>1, <3>2, <3>3, <2>2
  <2> QED
    BY <2>1, <2>2
<1>7. ASSUME NEW k \in Loops, NEW u, NEW s, AllBehind(q, k, u, s), k = l /\ u = t => In(q, k, s)
      PROVE  AllBehind(p, k, u, s)
  <2>1. CASE k # l
    BY <2>1, <1>3, <1>7 DEF AllBehind
  <2>2. CASE k = l
    <3> SUFFICES ASSUME NEW j \in 1 .. Len(p[l]), p[l][j] = u
                 PROVE  \E i \in 1 .. (j - 1) : p[l][i] = s
      BY <2>2 DEF AllBehind
    <3>1. CASE j \in 1 .. Len(q[l])
      <4>1. PICK i \in 1 .. (j - 1) : q[l][i] = s
        BY <3>1, <1>7, <1>4, <2>2 DEF AllBehind
      <4> QED
        BY <4>1, <3>1, <1>4
    <3>2. CASE j = Len(q[l]) + 1
      BY <3>2, <1>7, <1>4, <2>2 DEF In
    <3> QED
      BY <3>1, <3>2, <1>4
  <2> QED
    BY <2>1, <2>2
<1> QED
  BY <1>3, <1>5, <1>6, <1>7 DEF p

\* A loop that accepts tasks puts one at the end of its queue (runloop.c:613).
LEMMA Posts ==
    ASSUME NEW q \in Queues, NEW l \in Loops, NEW t \in Tasks
    PROVE  LET p == Post(q, l, t) IN
           /\ p \in Queues
           /\ \A k \in Loops : \A u : In(p, k, u) <=> In(q, k, u) \/ (Accepts(l) /\ k = l /\ u = t)
           /\ \A k \in Loops : \A u, s :
                Behind(p, k, u, s) <=>
                    Behind(q, k, u, s) \/ (Accepts(l) /\ k = l /\ u = t /\ In(q, k, s))
           /\ \A k \in Loops : \A u, s :
                AllBehind(q, k, u, s) /\ (k = l /\ u = t => In(q, k, s)) => AllBehind(p, k, u, s)
<1>1. CASE ~Accepts(l)
  BY <1>1 DEF Post
<1>2. CASE Accepts(l)
  <2> DEFINE p == [q EXCEPT ![l] = Append(@, t)]
  <2>1. Post(q, l, t) = p
    BY <1>2 DEF Post
  <2>2. /\ p \in Queues
        /\ \A k \in Loops : \A u : In(p, k, u) <=> In(q, k, u) \/ (k = l /\ u = t)
        /\ \A k \in Loops : \A u, s :
             Behind(p, k, u, s) <=> Behind(q, k, u, s) \/ (k = l /\ u = t /\ In(q, k, s))
        /\ \A k \in Loops : \A u, s :
             AllBehind(q, k, u, s) /\ (k = l /\ u = t => In(q, k, s)) => AllBehind(p, k, u, s)
    BY Appends
  <2> HIDE DEF p
  <2> QED
    BY <2>1, <2>2, <1>2
<1> QED
  BY <1>1, <1>2

\* A loop takes the first task of its queue.
LEMMA Takes ==
    ASSUME queue \in Queues, NEW l \in Loops, NEW f, NEW x, Task(f, l, x)
    PROVE  LET p == Taken(l)
               h == TaskFor(f, x) IN
           /\ p \in Queues /\ In(queue, l, h)
           /\ \A k \in Loops : k # l => p[k] = queue[k]
           /\ \A k \in Loops : \A u :
                /\ In(p, k, u) => In(queue, k, u)
                /\ In(queue, k, u) /\ (k # l \/ u # h) => In(p, k, u)
                /\ In(p, l, u) => Behind(queue, l, u, h)
           /\ \A k \in Loops : \A u, s : Behind(p, k, u, s) => Behind(queue, k, u, s)
           /\ \A k \in Loops : \A u, s :
                AllBehind(queue, k, u, s) /\ (k # l \/ s # h) => AllBehind(p, k, u, s)
<1> DEFINE p == Taken(l)
           h == TaskFor(f, x)
           q == queue[l]
<1>1. q \in Seq(Tasks) /\ q # <<>> /\ q[1] = h
  BY DEF Queues, Task
<1>2. /\ Len(q) \in Nat \ {0}
      /\ Tail(q) \in Seq(Tasks) /\ Len(Tail(q)) = Len(q) - 1
      /\ \A i \in 1 .. Len(q) - 1 : Tail(q)[i] = q[i + 1]
  BY <1>1
<1>3. /\ p \in Queues
      /\ \A k \in Loops : k # l => p[k] = queue[k]
      /\ p[l] = Tail(q)
  BY <1>2 DEF Taken, Queues
<1>4. In(queue, l, h)
  BY <1>1, <1>2 DEF In
<1> HIDE DEF p, h
<1>5. ASSUME NEW k \in Loops, NEW u
      PROVE  /\ In(p, k, u) => In(queue, k, u)
             /\ In(queue, k, u) /\ (k # l \/ u # h) => In(p, k, u)
             /\ In(p, l, u) => Behind(queue, l, u, h)
  <2>1. k # l => (In(p, k, u) <=> In(queue, k, u))
    BY <1>3 DEF In
  <2>2. ASSUME In(p, l, u) PROVE In(queue, l, u) /\ Behind(queue, l, u, h)
    <3>1. PICK i \in 1 .. Len(q) - 1 : q[i + 1] = u
      BY <2>2, <1>2, <1>3 DEF In
    <3>2. i + 1 \in 1 .. Len(q) /\ 1 \in 1 .. Len(q) /\ 1 < i + 1
      BY <1>2
    <3> QED
      BY <3>1, <3>2, <1>1 DEF In, Behind
  <2>3. ASSUME In(queue, l, u), u # h PROVE In(p, l, u)
    <3>1. PICK i \in 1 .. Len(q) : q[i] = u
      BY <2>3 DEF In
    <3>2. i - 1 \in 1 .. Len(q) - 1 /\ (i - 1) + 1 = i
      BY <3>1, <2>3, <1>1, <1>2
    <3> QED
      BY <3>1, <3>2, <1>2, <1>3 DEF In
  <2> QED
    BY <2>1, <2>2, <2>3
<1>6. ASSUME NEW k \in Loops, NEW u, NEW s, Behind(p, k, u, s) PROVE Behind(queue, k, u, s)
  <2>1. CASE k # l
    BY <2>1, <1>6, <1>3 DEF Behind
  <2>2. CASE k = l
    <3>1. PICK i, j \in 1 .. Len(q) - 1 : i < j /\ q[i + 1] = s /\ q[j + 1] = u
      BY <2>2, <1>2, <1>3, <1>6 DEF Behind
    <3>2. i + 1 \in 1 .. Len(q) /\ j + 1 \in 1 .. Len(q) /\ i + 1 < j + 1
      BY <3>1, <1>2
    <3> QED
      BY <3>1, <3>2, <2>2 DEF Behind
  <2> QED
    BY <2>1, <2>2
<1>7. ASSUME NEW k \in Loops, NEW u, NEW s, AllBehind(queue, k, u, s), k # l \/ s # h
      PROVE  AllBehind(p, k, u, s)
  <2>1. CASE k # l
    BY <2>1, <1>3, <1>7 DEF AllBehind
  <2>2. CASE k = l
    <3> SUFFICES ASSUME NEW j \in 1 .. Len(q) - 1, q[j + 1] = u
                 PROVE  \E i \in 1 .. (j - 1) : p[l][i] = s
      BY <2>2, <1>2, <1>3 DEF AllBehind
    <3>1. j + 1 \in 1 .. Len(q)
      BY <1>2
    <3>2. PICK i \in 1 .. j : q[i] = s
      BY <3>1, <2>2, <1>7, <1>2 DEF AllBehind
    <3>3. i - 1 \in 1 .. (j - 1) /\ i - 1 \in 1 .. Len(q) - 1 /\ (i - 1) + 1 = i
      BY <3>2, <2>2, <1>7, <1>1, <1>2
    <3> QED
      BY <3>2, <3>3, <1>2, <1>3
  <2> QED
    BY <2>1, <2>2
<1> QED
  BY <1>3, <1>4, <1>5, <1>6, <1>7 DEF p, h

LEMMA ShortSequences ==
    /\ Len(<<>>) = 0
    /\ \A x : Len(<<x>>) = 1 /\ <<x>>[1] = x
OBVIOUS

LEMMA EmptySequence ==
    ASSUME NEW S, NEW s \in Seq(S), \A x : ~ \E i \in 1 .. Len(s) : s[i] = x
    PROVE  s = <<>>
<1>1. \A i \in 1 .. Len(s) : FALSE
  OBVIOUS
<1>2. Len(s) \in Nat /\ 1 \notin 1 .. Len(s)
  BY <1>1
<1>3. Len(s) = 0
  BY <1>2
<1> QED
  BY <1>3

LEMMA Joined ==
    ASSUME NEW S, NEW s \in Seq(S), NEW t \in Seq(S)
    PROVE  /\ s \o t \in Seq(S)
           /\ Len(s) \in Nat /\ Len(t) \in Nat /\ Len(s \o t) = Len(s) + Len(t)
           /\ \A i \in 1 .. Len(s) : (s \o t)[i] = s[i]
           /\ \A i \in 1 .. Len(t) : (s \o t)[Len(s) + i] = t[i]
           /\ \A i \in 1 .. Len(s \o t) : i \in 1 .. Len(s) \/ i - Len(s) \in 1 .. Len(t)
           /\ s \o <<>> = s
           /\ \A x \in S : s \o <<x>> = Append(s, x)
<1>1. /\ s \o t \in Seq(S)
      /\ Len(s) \in Nat /\ Len(t) \in Nat /\ Len(s \o t) = Len(s) + Len(t)
  OBVIOUS
<1>2. \A i \in 1 .. Len(s) : (s \o t)[i] = s[i]
  OBVIOUS
<1>3. \A i \in 1 .. Len(t) : (s \o t)[Len(s) + i] = t[i]
  OBVIOUS
<1>4. s \o <<>> = s
  OBVIOUS
<1>5. \A x \in S : s \o <<x>> = Append(s, x)
  OBVIOUS
<1>6. \A i \in 1 .. Len(s \o t) : i \in 1 .. Len(s) \/ i - Len(s) \in 1 .. Len(t)
  BY <1>1
<1> QED
  BY <1>1, <1>2, <1>3, <1>4, <1>5, <1>6

\* The elements of a finite set, in some order.
LEMMA SetAsSeq ==
    ASSUME NEW S, IsFiniteSet(S)
    PROVE  LET s == SetToSeq(S) IN
           /\ s \in Seq(S)
           /\ \A x : x \in S <=> \E i \in 1 .. Len(s) : s[i] = x
           /\ \A i, j \in 1 .. Len(s) : s[i] = s[j] => i = j
<1> DEFINE n == Cardinality(S)
           s == SetToSeq(S)
<1>1. n \in Nat /\ ExistsBijection(1 .. n, S)
  BY FS_CardinalityType
<1>2. PICK f \in Bijection(1 .. n, S) : TRUE
  BY <1>1 DEF ExistsBijection
<1>3. f \in [1 .. n -> S] /\ IsInjective(f)
  BY <1>2 DEF Bijection, Injection, Surjection, IsInjective
<1>4. s \in [1 .. n -> S] /\ IsInjective(s)
  BY <1>3 DEF SetToSeq
<1> HIDE DEF s
<1>5. s \in Injection(1 .. n, S)
  BY <1>4 DEF Injection, IsInjective
<1>6. IsFiniteSet(1 .. n) /\ Cardinality(1 .. n) = n
  BY <1>1, FS_Interval
<1>7. s \in Surjection(1 .. n, S)
  BY <1>5, <1>6, FS_Injection
<1>8. s \in Seq(S) /\ Len(s) = n
  BY <1>4, <1>1
<1> QED
  BY <1>4, <1>7, <1>8 DEF Surjection, IsInjective, s

\* x is an element of s.
Holds(s, x) == \E i \in 1 .. Len(s) : s[i] = x

\* A queue with a sequence of different tasks put behind it.
LEMMA JoinedQueue ==
    ASSUME NEW S, NEW s \in Seq(S), NEW r \in Seq(S),
           \A i, j \in 1 .. Len(r) : r[i] = r[j] => i = j,
           NEW p, NEW q, NEW k, q[k] = s, p[k] = s \o r
    PROVE  /\ \A u : In(p, k, u) <=> In(q, k, u) \/ Holds(r, u)
           /\ \A u, v : Behind(p, k, u, v) =>
                \/ Behind(q, k, u, v)
                \/ Holds(r, u) /\ v # u /\ In(p, k, v)
                \/ Holds(r, u) /\ In(q, k, u)
           /\ \A u, v : AllBehind(q, k, u, v) /\ ~Holds(r, u) => AllBehind(p, k, u, v)
<1> DEFINE z == p[k]
<1>1. /\ Len(s) \in Nat /\ Len(r) \in Nat /\ Len(z) = Len(s) + Len(r)
      /\ \A i \in 1 .. Len(s) : z[i] = s[i]
      /\ \A i \in 1 .. Len(r) : z[Len(s) + i] = r[i]
      /\ \A i \in 1 .. Len(z) : i \in 1 .. Len(s) \/ i - Len(s) \in 1 .. Len(r)
  BY Joined
<1> HIDE DEF z
<1>2. \A i \in 1 .. Len(z) : i \in 1 .. Len(s) \/ (i - Len(s) \in 1 .. Len(r) /\ z[i] = r[i - Len(s)])
  <2> SUFFICES ASSUME NEW i \in 1 .. Len(z), i - Len(s) \in 1 .. Len(r)
               PROVE  z[i] = r[i - Len(s)]
    BY <1>1
  <2>1. Len(s) + (i - Len(s)) = i
    BY <1>1
  <2> QED
    BY <2>1, <1>1
<1>3. ASSUME NEW u PROVE In(p, k, u) <=> In(q, k, u) \/ Holds(r, u)
  <2>1. ASSUME In(p, k, u) PROVE In(q, k, u) \/ Holds(r, u)
    <3>1. PICK i \in 1 .. Len(z) : z[i] = u
      BY <2>1 DEF In, z
    <3> QED
      BY <3>1, <1>1, <1>2 DEF In, Holds
  <2>2. ASSUME In(q, k, u) PROVE In(p, k, u)
    <3>1. PICK i \in 1 .. Len(s) : s[i] = u
      BY <2>2 DEF In
    <3>2. i \in 1 .. Len(z) /\ z[i] = u
      BY <3>1, <1>1
    <3> QED
      BY <3>2 DEF In, z
  <2>3. ASSUME Holds(r, u) PROVE In(p, k, u)
    <3>1. PICK i \in 1 .. Len(r) : r[i] = u
      BY <2>3 DEF Holds
    <3>2. Len(s) + i \in 1 .. Len(z) /\ z[Len(s) + i] = u
      BY <3>1, <1>1
    <3> QED
      BY <3>2 DEF In, z
  <2> QED
    BY <2>1, <2>2, <2>3
<1>4. ASSUME NEW u, NEW v, Behind(p, k, u, v)
      PROVE  \/ Behind(q, k, u, v)
             \/ Holds(r, u) /\ v # u /\ In(p, k, v)
             \/ Holds(r, u) /\ In(q, k, u)
  <2>1. PICK i, j \in 1 .. Len(z) : i < j /\ z[i] = v /\ z[j] = u
    BY <1>4 DEF Behind, z
  <2>2. In(p, k, v)
    BY <2>1 DEF In, z
  <2>3. CASE j \in 1 .. Len(s)
    <3>1. i \in 1 .. Len(s) /\ z[i] = s[i] /\ z[j] = s[j]
      BY <2>1, <2>3, <1>1
    <3> QED
      BY <2>1, <2>3, <3>1 DEF Behind
  <2>4. CASE j - Len(s) \in 1 .. Len(r) /\ z[j] = r[j - Len(s)]
    <3>1. Holds(r, u)
      BY <2>1, <2>4 DEF Holds
    <3>2. ASSUME u = v PROVE In(q, k, u)
      <4>1. CASE i \in 1 .. Len(s)
        <5>1. s[i] = u
          BY <4>1, <2>1, <3>2, <1>1
        <5> QED
          BY <4>1, <5>1 DEF In
      <4>2. CASE i - Len(s) \in 1 .. Len(r) /\ z[i] = r[i - Len(s)]
        <5>1. i - Len(s) = j - Len(s)
          BY <4>2, <2>4, <2>1, <3>2
        <5> QED
          BY <5>1, <2>1, <1>1
      <4> QED
        BY <4>1, <4>2, <1>2
    <3> QED
      BY <3>1, <3>2, <2>2
  <2> QED
    BY <2>3, <2>4, <1>2
<1>5. ASSUME NEW u, NEW v, AllBehind(q, k, u, v), ~Holds(r, u)
      PROVE  AllBehind(p, k, u, v)
  <2> SUFFICES ASSUME NEW j \in 1 .. Len(z), z[j] = u
               PROVE  \E i \in 1 .. (j - 1) : z[i] = v
    BY DEF AllBehind, z
  <2>1. j \in 1 .. Len(s)
    BY <1>2, <1>5 DEF Holds
  <2>2. PICK i \in 1 .. (j - 1) : s[i] = v
    <3>1. z[j] = s[j]
      BY <2>1, <1>1
    <3>2. \A jj \in 1 .. Len(s) : s[jj] = u => \E i \in 1 .. (jj - 1) : s[i] = v
      BY <1>5 DEF AllBehind
    <3> QED
      BY <2>1, <3>1, <3>2
  <2>3. i \in 1 .. Len(s)
    BY <2>1, <1>1
  <2> QED
    BY <2>2, <2>3, <1>1
<1> QED
  BY <1>3, <1>4, <1>5

Asked(set) == {e \in set : ~engine[e].closing}

\* ten_engine_close_async posts a task for every engine that was not asked before.
LEMMA PostsCloses ==
    ASSUME NEW q \in Queues, mode \in Modes, NEW set \in SUBSET Engines,
           \A e \in Asked(set) : Accepts(LoopOf(e))
    PROVE  LET p == ClosePosted(q, set) IN
           /\ p \in Queues
           /\ \A k \in Loops : \A u :
                In(p, k, u) <=>
                    \/ In(q, k, u)
                    \/ \E e \in Asked(set) : k = LoopOf(e) /\ u = TaskFor("close_engine", e)
           /\ \A k \in Loops : \A u, s : Behind(p, k, u, s) =>
                \/ Behind(q, k, u, s)
                \/ \E e \in Asked(set) :
                     /\ k = LoopOf(e) /\ u = TaskFor("close_engine", e) /\ s # u
                     /\ In(p, k, s)
                \/ \E e \in Asked(set) :
                     k = LoopOf(e) /\ u = TaskFor("close_engine", e) /\ In(q, k, u)
           /\ \A k \in Loops : \A u, s :
                AllBehind(q, k, u, s) /\ u.run # "close_engine" => AllBehind(p, k, u, s)
<1> DEFINE p == ClosePosted(q, set)
           asked == Asked(set)
           T(e) == TaskFor("close_engine", e)
           r == IF mode.own THEN [l \in Loops |-> IF l \in asked THEN <<T(l)>> ELSE <<>>]
                ELSE [l \in Loops |-> IF l = App THEN SetToSeq({T(e) : e \in asked}) ELSE <<>>]
<1>1. asked \in SUBSET Engines /\ IsFiniteSet(asked) /\ App \notin asked
  BY EnginesAssumption, FS_Subset DEF Asked
<1>2. \A e \in Engines : T(e) \in Tasks /\ T(e).run = "close_engine"
  BY DEF TaskFor, Tasks, GraphTasks
<1>3. \A e, d \in Engines : T(e) = T(d) => e = d
  BY SameTask
<1>4. IsFiniteSet({T(e) : e \in asked})
  <2>1. [e \in asked |-> T(e)] \in Surjection(asked, {T(e) : e \in asked})
    BY DEF Surjection
  <2> QED
    BY <2>1, <1>1, FS_Surjection
<1>5. /\ r \in Queues
      /\ \A k \in Loops : \A u : (\E i \in 1 .. Len(r[k]) : r[k][i] = u) <=>
                                 \E e \in asked : k = LoopOf(e) /\ u = T(e)
      /\ \A k \in Loops : \A i, j \in 1 .. Len(r[k]) : r[k][i] = r[k][j] => i = j
  <2>1. CASE mode.own
    <3>1. ASSUME NEW k \in Loops
          PROVE  r[k] = IF k \in asked THEN <<T(k)>> ELSE <<>>
      BY <2>1
    <3>2. r \in Queues
      BY <2>1, <1>1, <1>2 DEF Queues
    <3> HIDE DEF r
    <3>3. ASSUME NEW k \in Loops, NEW u
          PROVE  /\ (\E i \in 1 .. Len(r[k]) : r[k][i] = u) <=>
                         \E e \in asked : k = LoopOf(e) /\ u = T(e)
                 /\ \A i, j \in 1 .. Len(r[k]) : r[k][i] = r[k][j] => i = j
      <4>1. \A e \in asked : LoopOf(e) = e
        BY <2>1 DEF LoopOf
      <4>2. CASE k \in asked
        <5>0. r[k] = <<T(k)>>
          BY <3>1, <4>2
        <5>1. Len(r[k]) = 1 /\ r[k][1] = T(k)
          BY <5>0, ShortSequences
        <5>2. (\E e \in asked : k = LoopOf(e) /\ u = T(e)) <=> u = T(k)
          BY <4>1, <4>2
        <5>3. \A i \in 1 .. Len(r[k]) : i = 1
          BY <5>1
        <5>4. 1 \in 1 .. Len(r[k])
          BY <5>1
        <5> QED
          BY <5>1, <5>2, <5>3, <5>4
      <4>3. CASE k \notin asked
        <5>0. r[k] = <<>>
          BY <3>1, <4>3
        <5>1. Len(r[k]) = 0
          BY <5>0, ShortSequences
        <5> QED
          BY <5>1, <4>1, <4>3
      <4> QED
        BY <4>2, <4>3
    <3> QED
      BY <3>2, <3>3
  <2>2. CASE ~mode.own
    <3> DEFINE s == SetToSeq({T(e) : e \in asked})
    <3>1. /\ s \in Seq({T(e) : e \in asked})
          /\ \A x : x \in {T(e) : e \in asked} <=> \E i \in 1 .. Len(s) : s[i] = x
          /\ \A i, j \in 1 .. Len(s) : s[i] = s[j] => i = j
      BY <1>4, SetAsSeq
    <3> HIDE DEF s
    <3>2. \A k \in Loops : r[k] = IF k = App THEN s ELSE <<>>
      BY <2>2 DEF s
    <3>3. s \in Seq(Tasks)
      BY <3>1, <1>1, <1>2
    <3>4. r \in Queues
      <4>1. r = [l \in Loops |-> IF l = App THEN s ELSE <<>>]
        BY <2>2 DEF s
      <4>2. <<>> \in Seq(Tasks)
        OBVIOUS
      <4> HIDE DEF r
      <4> QED
        BY <4>1, <4>2, <3>3 DEF Queues
    <3>5. \A e \in asked : LoopOf(e) = App
      BY <2>2 DEF LoopOf
    <3> HIDE DEF r
    <3>6. ASSUME NEW k \in Loops, NEW u
          PROVE  /\ (\E i \in 1 .. Len(r[k]) : r[k][i] = u) <=>
                         \E e \in asked : k = LoopOf(e) /\ u = T(e)
                 /\ \A i, j \in 1 .. Len(r[k]) : r[k][i] = r[k][j] => i = j
      <4>1. CASE k = App
        BY <4>1, <3>1, <3>2, <3>5
      <4>2. CASE k # App
        <5>1. Len(r[k]) = 0
          BY <3>2, <4>2
        <5> QED
          BY <5>1, <4>2, <3>5
      <4> QED
        BY <4>1, <4>2
    <3> QED
      BY <3>4, <3>6
  <2> QED
    BY <2>1, <2>2
<1>6. \A k \in Loops : p[k] = q[k] \o r[k]
  <2> SUFFICES ASSUME NEW k \in Loops PROVE p[k] = q[k] \o r[k]
    OBVIOUS
  <2>0. q[k] \in Seq(Tasks)
    BY DEF Queues
  <2>1. CASE mode.own
    <3>1. p[k] = IF k \in asked /\ Accepts(k) THEN Append(q[k], T(k)) ELSE q[k]
      BY <2>1 DEF ClosePosted, Asked
    <3>2. k \in asked => Accepts(k)
      BY <2>1 DEF LoopOf
    <3>3. r[k] = IF k \in asked THEN <<T(k)>> ELSE <<>>
      BY <2>1
    <3> HIDE DEF p, r
    <3>4. CASE k \in asked
      <4>1. T(k) \in Tasks
        BY <1>1, <1>2, <3>4
      <4>2. p[k] = Append(q[k], T(k)) /\ r[k] = <<T(k)>>
        BY <3>1, <3>2, <3>3, <3>4
      <4> QED
        BY <2>0, <4>1, <4>2, Joined
    <3>5. CASE k \notin asked
      <4>1. p[k] = q[k] /\ r[k] = <<>>
        BY <3>1, <3>3, <3>5
      <4> QED
        BY <2>0, <4>1, Joined
    <3> QED
      BY <3>4, <3>5
  <2>2. CASE ~mode.own
    <3>1. App \in Loops
      BY DEF Loops
    <3>2. p = [q EXCEPT ![App] = IF Accepts(App) THEN @ \o SetToSeq({T(e) : e \in asked}) ELSE @]
      BY <2>2 DEF ClosePosted, Asked
    <3>3. r[k] = IF k = App THEN SetToSeq({T(e) : e \in asked}) ELSE <<>>
      BY <2>2
    <3>4. CASE Accepts(App)
      <4>1. p[k] = IF k = App THEN q[k] \o SetToSeq({T(e) : e \in asked}) ELSE q[k]
        BY <3>2, <3>4 DEF Queues
      <4> HIDE DEF p, r
      <4>2. k # App => p[k] = q[k] /\ r[k] = <<>>
        BY <3>3, <4>1
      <4>3. k # App => q[k] = q[k] \o <<>>
        BY <2>0, Joined
      <4> QED
        BY <3>3, <4>1, <4>2, <4>3
    <3>5. CASE ~Accepts(App)
      <4>1. asked = {}
        BY <3>5, <2>2 DEF LoopOf
      <4>2. SetToSeq({T(e) : e \in asked}) = <<>>
        <5>1. \A x : ~ \E i \in 1 .. Len(SetToSeq({T(e) : e \in asked})) :
                          SetToSeq({T(e) : e \in asked})[i] = x
          BY <4>1, <1>4, SetAsSeq
        <5>2. SetToSeq({T(e) : e \in asked}) \in Seq({T(e) : e \in asked})
          BY <1>4, SetAsSeq
        <5> QED
          BY <5>1, <5>2, EmptySequence
      <4>3. p[k] = q[k]
        BY <3>2, <3>5 DEF Queues
      <4> HIDE DEF p, r
      <4>4. r[k] = <<>>
        BY <3>3, <4>2
      <4> QED
        BY <2>0, <4>4, <4>3, Joined
    <3> QED
      BY <3>4, <3>5
  <2> QED
    BY <2>1, <2>2
<1>7. p \in Queues
  <2>1. \A k \in Loops : q[k] \o r[k] \in Seq(Tasks)
    BY <1>5 DEF Queues
  <2>2. p = [k \in Loops |-> p[k]]
    BY DEF ClosePosted, Queues
  <2> HIDE DEF p, r
  <2> QED
    BY <1>6, <2>1, <2>2 DEF Queues
<1> HIDE DEF p, r
<1>8. ASSUME NEW k \in Loops
      PROVE  /\ \A u : In(p, k, u) <=> In(q, k, u) \/ Holds(r[k], u)
             /\ \A u, v : Behind(p, k, u, v) =>
                  \/ Behind(q, k, u, v)
                  \/ Holds(r[k], u) /\ v # u /\ In(p, k, v)
                  \/ Holds(r[k], u) /\ In(q, k, u)
             /\ \A u, v : AllBehind(q, k, u, v) /\ ~Holds(r[k], u) => AllBehind(p, k, u, v)
  <2> DEFINE s == q[k]
             z == r[k]
  <2>1. /\ s \in Seq(Tasks) /\ z \in Seq(Tasks) /\ p[k] = s \o z
        /\ \A i, j \in 1 .. Len(z) : z[i] = z[j] => i = j
    BY <1>5, <1>6 DEF Queues
  <2>2. q[k] = s
    OBVIOUS
  <2> HIDE DEF s, z
  <2>3. /\ \A u : In(p, k, u) <=> In(q, k, u) \/ Holds(z, u)
        /\ \A u, v : Behind(p, k, u, v) =>
             \/ Behind(q, k, u, v)
             \/ Holds(z, u) /\ v # u /\ In(p, k, v)
             \/ Holds(z, u) /\ In(q, k, u)
        /\ \A u, v : AllBehind(q, k, u, v) /\ ~Holds(z, u) => AllBehind(p, k, u, v)
    <3> HIDE DEF p, r
    <3> QED
      BY <2>1, <2>2, JoinedQueue
  <2> QED
    BY <2>3 DEF z
<1>9. ASSUME NEW k \in Loops, NEW u
      PROVE  In(p, k, u) <=> \/ In(q, k, u)
                             \/ \E e \in asked : k = LoopOf(e) /\ u = T(e)
  BY <1>5, <1>8 DEF Holds
<1>10. ASSUME NEW k \in Loops, NEW u, NEW s, Behind(p, k, u, s)
       PROVE  \/ Behind(q, k, u, s)
              \/ \E e \in asked : k = LoopOf(e) /\ u = T(e) /\ s # u /\ In(p, k, s)
              \/ \E e \in asked : k = LoopOf(e) /\ u = T(e) /\ In(q, k, u)
  <2>1. \/ Behind(q, k, u, s)
        \/ s # u /\ In(p, k, s) /\ Holds(r[k], u)
        \/ In(q, k, u) /\ Holds(r[k], u)
    BY <1>8, <1>10
  <2>2. (Holds(r[k], u)) <=> \E e \in asked : k = LoopOf(e) /\ u = T(e)
    BY <1>5 DEF Holds
  <2> QED
    BY <2>1, <2>2
<1>11. ASSUME NEW k \in Loops, NEW u, NEW s, AllBehind(q, k, u, s), u.run # "close_engine"
       PROVE  AllBehind(p, k, u, s)
  <2>1. ~ \E e \in asked : k = LoopOf(e) /\ u = T(e)
    BY <1>1, <1>2, <1>11
  <2>2. ~ Holds(r[k], u)
    BY <1>5, <2>1 DEF Holds
  <2> QED
    BY <1>8, <1>11, <2>2
<1> QED
  BY <1>7, <1>9, <1>10, <1>11 DEF p

\* What posting and taking keep of the order of tasks.
LEMMA OrderAdded ==
    ASSUME NEW q, Ordered(q), NEW l \in Loops, NEW f, NEW x, NEW p,
           \A k \in Loops : \A u, s :
             Behind(p, k, u, s) => Behind(q, k, u, s) \/ (k = l /\ u = TaskFor(f, x) /\ In(q, k, s)),
           f \notin {"in_msgs", "cleaned"} => ~In(q, l, TaskFor(f, x)),
           f = "cleaned" => ~In(q, l, TaskFor("clean", x)),
           f = "in_msgs" => ~In(q, l, TaskFor("close_engine", x))
    PROVE  Ordered(p)
<1>1. TaskFor(f, x).run = f
  BY DEF TaskFor
<1> SUFFICES ASSUME NEW k \in Loops
             PROVE  /\ \A t \in Once : ~Behind(p, k, t, t)
                    /\ \A c \in Connections :
                         ~Behind(p, k, TaskFor("cleaned", c), TaskFor("clean", c))
                    /\ \A e \in Engines :
                         ~Behind(p, k, TaskFor("in_msgs", e), TaskFor("close_engine", e))
  BY DEF Ordered
<1>2. ASSUME NEW t \in Once PROVE ~Behind(p, k, t, t)
  BY <1>1 DEF Ordered, Once
<1>3. ASSUME NEW c \in Connections
      PROVE  ~Behind(p, k, TaskFor("cleaned", c), TaskFor("clean", c))
  BY SameTask DEF Ordered
<1>4. ASSUME NEW e \in Engines
      PROVE  ~Behind(p, k, TaskFor("in_msgs", e), TaskFor("close_engine", e))
  BY SameTask DEF Ordered
<1> QED
  BY <1>2, <1>3, <1>4

LEMMA OrderPosted ==
    ASSUME NEW q \in Queues, Ordered(q), NEW l \in Loops, NEW f, NEW x,
           TaskFor(f, x) \in Tasks,
           f \notin {"in_msgs", "cleaned"} => ~In(q, l, TaskFor(f, x)),
           f = "cleaned" => ~In(q, l, TaskFor("clean", x)),
           f = "in_msgs" => ~In(q, l, TaskFor("close_engine", x))
    PROVE  Ordered(Post(q, l, TaskFor(f, x)))
<1> DEFINE p == Post(q, l, TaskFor(f, x))
<1>1. \A k \in Loops : \A u, s :
        Behind(p, k, u, s) => Behind(q, k, u, s) \/ (k = l /\ u = TaskFor(f, x) /\ In(q, k, s))
  BY Posts
<1> HIDE DEF p
<1> QED
  BY <1>1, OrderAdded DEF p

LEMMA OrderTaken ==
    ASSUME queue \in Queues, Ordered(queue), NEW l \in Loops, NEW f, NEW x, Task(f, l, x)
    PROVE  /\ Ordered(Taken(l))
           /\ f \notin {"in_msgs", "cleaned"} => ~In(Taken(l), l, TaskFor(f, x))
<1>1. Ordered(Taken(l))
  BY Takes DEF Ordered
<1>2. TaskFor(f, x).run = f /\ TaskFor(f, x) \in Tasks
  BY DEF TaskFor, Task, Queues
<1>3. ASSUME f \notin {"in_msgs", "cleaned"}, In(Taken(l), l, TaskFor(f, x)) PROVE FALSE
  <2>1. Behind(queue, l, TaskFor(f, x), TaskFor(f, x))
    BY <1>3, Takes
  <2> QED
    BY <2>1, <1>2, <1>3 DEF Ordered, Once
<1> QED
  BY <1>1, <1>3

LEMMA OrderCloses ==
    ASSUME NEW q \in Queues, Ordered(q), mode \in Modes, NEW set \in SUBSET Engines,
           \A e \in Asked(set) : /\ Accepts(LoopOf(e))
                                 /\ ~In(q, LoopOf(e), TaskFor("close_engine", e))
    PROVE  Ordered(ClosePosted(q, set))
<1> DEFINE p == ClosePosted(q, set)
<1>1. \A k \in Loops : \A u, s : Behind(p, k, u, s) =>
        \/ Behind(q, k, u, s)
        \/ \E e \in Asked(set) : u = TaskFor("close_engine", e) /\ s # u
  <2>1. \A k \in Loops : \A u, s : Behind(p, k, u, s) =>
                \/ Behind(q, k, u, s)
                \/ \E e \in Asked(set) :
                     /\ k = LoopOf(e) /\ u = TaskFor("close_engine", e) /\ s # u
                     /\ In(p, k, s)
                \/ \E e \in Asked(set) :
                     k = LoopOf(e) /\ u = TaskFor("close_engine", e) /\ In(q, k, u)
    BY PostsCloses
  <2> HIDE DEF p
  <2> QED
    BY <2>1
<1> HIDE DEF p
<1> QED
  BY <1>1, SameTask DEF Ordered, p

-----------------------------------------------------------------------------
(* What a step leaves alone. *)

AppType == [state : {"running", "closing", "closed"},
            endpoint : {"none", "open", "closing", "closed"},
            deinits : Nat, loop : {"up", "stopping", "ended"}]
EngineType ==
    [st : {"none", "up", "stopping", "stopped", "gone"}, closing : BOOLEAN,
     ctx : {"none", "up", "closing", "ended"}, inMsgs : Seq(Messages),
     waits : Connections \cup {None}, stops : 0..1]
ConnectionType ==
    [at : {"none", "accepting", "app", "moving", "engine", "remote", "gone"},
     to : Engines \cup {None},
     hop : {"no", "reset", "asked", "prepared", "sent", "waited", "done"},
     first : {"start", "cmd"}, rest : BOOLEAN, shut : BOOLEAN,
     pshut : BOOLEAN, eof : BOOLEAN,
     stream : {"none", "open", "closing", "cleaning", "cleaned", "closed"}]

LEMMA TypeParts ==
    TypeOK <=> /\ mode \in Modes /\ app \in AppType
               /\ engine \in [Engines -> EngineType] /\ conn \in [Connections -> ConnectionType]
               /\ queue \in Queues /\ draining \in [Loops -> BOOLEAN]
BY DEF TypeOK, AppType, EngineType, ConnectionType, Queues

\* A loop that drains its queue goes on until the queue is empty.
DrainsOn == \A l \in Loops : draining[l] /\ queue'[l] # <<>> => draining'[l]

LEMMA NotEmpty ==
    ASSUME NEW q, NEW l, NEW u, In(q, l, u), q[l] \in Seq(Tasks)
    PROVE  q[l] # <<>>
BY DEF In

LEMMA MoveTasksKept ==
    ASSUME NEW l \in Loops, NEW c \in Connections, MoveTasksOK(l, c), mode' = mode,
           conn'[c] = conn[c], queue' \in Queues, DrainsOn,
           \A f \in MoveTasks : In(queue', l, TaskFor(f, c)) => In(queue, l, TaskFor(f, c))
    PROVE  MoveTasksOK(l, c)'
<1>1. In(queue', l, TaskFor("cleaned", c)) => queue'[l] # <<>>
  BY NotEmpty DEF Queues
<1>2. AttachedLoop(c)' = AttachedLoop(c)
  BY DEF AttachedLoop, LoopOf
<1> QED
  BY <1>1, <1>2 DEF MoveTasksOK, MoveTasks, DrainsOn

LEMMA GraphTasksKept ==
    ASSUME NEW l \in Loops, NEW e \in Engines, GraphTasksOK(l, e), mode' = mode,
           engine'[e].st = engine[e].st, engine'[e].closing = engine[e].closing,
           engine'[e].ctx = engine[e].ctx,
           \A f \in GraphTasks : In(queue', l, TaskFor(f, e)) => In(queue, l, TaskFor(f, e))
    PROVE  GraphTasksOK(l, e)'
<1>1. LoopOf(e)' = LoopOf(e)
  BY DEF LoopOf
<1> QED
  BY <1>1 DEF GraphTasksOK, GraphTasks

LEMMA ConnectionKept ==
    ASSUME NEW c \in Connections, ConnectionOK(c), mode' = mode, conn'[c] = conn[c],
           LET e == conn[c].to IN
           /\ conn[c].at \in {"engine", "remote"} => engine'[e].st = "up"
           /\ conn[c].hop = "waited" => engine'[e].waits = c
           /\ conn[c].at = "engine" =>
                /\ \E i \in 1 .. Len(engine'[e].inMsgs) : engine'[e].inMsgs[i].from = c
                /\ In(queue', LoopOf(e), TaskFor("in_msgs", e))
                /\ draining[LoopOf(e)] => draining'[LoopOf(e)]
                /\ mode.own /\ AllBehind(queue, e, TaskFor("cleaned", c), TaskFor("in_msgs", e)) =>
                     AllBehind(queue', e, TaskFor("cleaned", c), TaskFor("in_msgs", e))
    PROVE  ConnectionOK(c)'
<1>1. \A e : LoopOf(e)' = LoopOf(e)
  BY DEF LoopOf
<1> QED
  BY <1>1 DEF ConnectionOK, Attached, Way

LEMMA EngineKept ==
    ASSUME NEW e \in Engines, EngineOK(e), mode' = mode, engine'[e] = engine[e],
           RemotesOf(e, conn') \subseteq RemotesOf(e, conn),
           \A c \in Connections :
             /\ OnTheWay(c, e) =>
                  /\ OnTheWay(c, e)' /\ conn'[c].first = conn[c].first
                  /\ conn[c].hop \in Way => conn'[c].hop \in Way
                  /\ conn[c].at = "engine" => conn'[c].at = "engine"
             /\ conn[c].hop = "waited" /\ conn[c].to = e => conn'[c].hop = "waited",
           engine[e].waits \in Connections \cup {None},
           \A i \in 1 .. Len(engine[e].inMsgs) : engine[e].inMsgs[i].from \in Connections \cup {None},
           engine[e].closing => (Pending(e)' <=> Pending(e)),
           engine[e].closing /\ In(queue', LoopOf(e), TaskFor("in_msgs", e)) =>
               In(queue, LoopOf(e), TaskFor("in_msgs", e))
    PROVE  EngineOK(e)'
<1>1. LoopOf(e)' = LoopOf(e)
  BY DEF LoopOf
<1> DEFINE g == engine[e]
<1>2. /\ g.st = "none" => /\ ~g.closing /\ g.ctx = "none" /\ g.inMsgs = <<>>
                          /\ g.stops = 0
      /\ ~g.closing => g.st \in {"none", "up"} /\ g.ctx \in {"none", "up"}
      /\ g.ctx \in {"closing", "ended"} => g.st = "up"
      /\ g.st \in {"stopping", "stopped"} => mode.own
  BY DEF EngineOK
<1>3. ASSUME g.st = "up" /\ ~g.closing /\ g.ctx = "none"
      PROVE  /\ \/ \E c \in Connections : OnTheWay(c, e)' /\ conn'[c].first = "start"
                \/ HasStart(g.inMsgs) /\ RemotesOf(e, conn') = {}
             /\ \/ \E c \in Connections :
                     conn'[c].hop \in Way /\ conn'[c].to = e /\ conn'[c].first = "start"
                \/ HasStart(g.inMsgs)
  <2>1. \/ \E c \in Connections : OnTheWay(c, e) /\ conn[c].first = "start"
        \/ HasStart(g.inMsgs) /\ RemotesOf(e, conn) = {}
    BY <1>3 DEF EngineOK
  <2>2. \/ \E c \in Connections :
              conn[c].hop \in Way /\ conn[c].to = e /\ conn[c].first = "start"
        \/ HasStart(g.inMsgs)
    BY <1>3 DEF EngineOK
  <2>3. ASSUME NEW c \in Connections, conn[c].hop \in Way, conn[c].to = e, conn[c].first = "start"
        PROVE  conn'[c].hop \in Way /\ conn'[c].to = e /\ conn'[c].first = "start"
    BY <2>3 DEF OnTheWay
  <2> QED
    BY <2>1, <2>2, <2>3
<1>4. g.ctx = "none" /\ g.closing /\ Pending(e)' => RemotesOf(e, conn') = {}
  BY DEF EngineOK
<1>5. g.closing /\ In(queue', LoopOf(e), TaskFor("in_msgs", e)) => Pending(e)'
  BY DEF EngineOK
<1>6. ASSUME NEW i \in 1 .. Len(g.inMsgs)
      PROVE  /\ g.inMsgs[i].from # None =>
                  LET r == conn'[g.inMsgs[i].from] IN
                  r.at = "engine" /\ r.to = e /\ r.first = g.inMsgs[i].kind
             /\ g.inMsgs[i].kind = "stop" => g.stops = 1
  <2>1. /\ g.inMsgs[i].from # None =>
                LET r == conn[g.inMsgs[i].from] IN
                r.at = "engine" /\ r.to = e /\ r.first = g.inMsgs[i].kind
        /\ g.inMsgs[i].kind = "stop" => g.stops = 1
    BY DEF EngineOK
  <2> QED
    BY <2>1 DEF OnTheWay
<1>7. g.waits # None => conn'[g.waits].hop = "waited" /\ conn'[g.waits].to = e
  <2>1. g.waits # None => conn[g.waits].hop = "waited" /\ conn[g.waits].to = e
    BY DEF EngineOK
  <2> QED
    BY <2>1 DEF OnTheWay, Way
<1> HIDE DEF g
<1>8. engine'[e] = g
  BY DEF g
<1> QED
  BY <1>1, <1>2, <1>3, <1>4, <1>5, <1>6, <1>7, <1>8 DEF EngineOK

\* From q to p nothing changes but for the tasks of c.
MovesKept(q, p, c) ==
    /\ \A l \in Loops :
          /\ \A f \in GraphTasks : \A e \in Engines :
               In(p, l, TaskFor(f, e)) <=> In(q, l, TaskFor(f, e))
          /\ \A f \in MoveTasks : \A x \in Connections : x # c /\
               In(p, l, TaskFor(f, x)) => In(q, l, TaskFor(f, x))
    /\ \A e \in Engines : \A x \in Connections : x # c /\
          AllBehind(q, e, TaskFor("cleaned", x), TaskFor("in_msgs", e)) =>
          AllBehind(p, e, TaskFor("cleaned", x), TaskFor("in_msgs", e))

OthersKept(q, p, c) ==
    /\ MovesKept(q, p, c)
    /\ \A l \in Loops :
          In(p, l, TaskFor("close_app", App)) => In(q, l, TaskFor("close_app", App))

LEMMA PostOthers ==
    ASSUME NEW q \in Queues, NEW l \in Loops, NEW f \in MoveTasks, NEW c \in Connections
    PROVE  OthersKept(q, Post(q, l, TaskFor(f, c)), c)
<1>1. TaskFor(f, c) \in Tasks
  BY TaskKinds
<1> DEFINE p == Post(q, l, TaskFor(f, c))
<1>2. /\ \A k \in Loops : \A u : In(p, k, u) <=> In(q, k, u) \/ (Accepts(l) /\ k = l /\ u = TaskFor(f, c))
      /\ \A k \in Loops : \A u, s :
            AllBehind(q, k, u, s) /\ (k = l /\ u = TaskFor(f, c) => In(q, k, s)) => AllBehind(p, k, u, s)
  BY <1>1, Posts
<1> HIDE DEF p
<1>3. f # "close_app" /\ \A g \in GraphTasks : g # f
  BY DEF GraphTasks, MoveTasks
<1> QED
  BY <1>2, <1>3, SameTask DEF OthersKept, MovesKept, Loops, p

LEMMA TakeOthers ==
    ASSUME queue \in Queues, NEW l \in Loops, NEW f \in MoveTasks, NEW c \in Connections,
           Task(f, l, c)
    PROVE  OthersKept(queue, Taken(l), c)
<1> DEFINE p == Taken(l)
<1>1. /\ \A k \in Loops : \A u :
                /\ In(p, k, u) => In(queue, k, u)
                /\ In(queue, k, u) /\ (k # l \/ u # TaskFor(f, c)) => In(p, k, u)
      /\ \A k \in Loops : \A u, s :
                AllBehind(queue, k, u, s) /\ (k # l \/ s # TaskFor(f, c)) => AllBehind(p, k, u, s)
  BY Takes
<1> HIDE DEF p
<1>2. \A g \in GraphTasks : g # f
  BY DEF GraphTasks, MoveTasks
<1>3. "in_msgs" \in GraphTasks
  BY DEF GraphTasks
<1> QED
  BY <1>1, <1>2, <1>3, SameTask DEF OthersKept, MovesKept, Loops, p

\* A step about one connection leaves the others and the engines as they are.
LEMMA OneConnection ==
    ASSUME IInv, NEW c \in Connections, mode' = mode, engine' = engine, queue' \in Queues,
           conn' \in [Connections -> ConnectionType],
           \A x \in Connections : x # c => conn'[x] = conn[x],
           DrainsOn,
           MovesKept(queue, queue', c),
           conn'[c].at = "remote" => conn[c].at = "remote" /\ conn'[c].to = conn[c].to,
           conn[c].hop \in Way \/ conn[c].at = "engine" =>
             conn'[c].to = conn[c].to /\ conn'[c].first = conn[c].first,
           conn[c].hop \in Way => conn'[c].hop \in Way,
           conn[c].at = "engine" => conn'[c].at = "engine",
           conn[c].hop = "waited" => conn'[c].hop = "waited"
    PROVE  /\ \A x \in Connections : x # c => ConnectionOK(x)'
           /\ \A e \in Engines : EngineOK(e)'
           /\ \A l \in Loops : /\ \A x \in Connections : x # c => MoveTasksOK(l, x)'
                               /\ \A e \in Engines : GraphTasksOK(l, e)'
<1>0. /\ \A e \in Engines : EngineOK(e) /\ engine[e] \in EngineType
      /\ \A x \in Connections : ConnectionOK(x)
      /\ \A l \in Loops : /\ \A x \in Connections : MoveTasksOK(l, x)
                          /\ \A e \in Engines : GraphTasksOK(l, e)
      /\ \A e \in Engines : LoopOf(e) \in Loops
  BY TypeParts DEF IInv, TasksOK, LoopOf, Loops
<1> USE DEF MovesKept
<1>1. ASSUME NEW x \in Connections, x # c PROVE ConnectionOK(x)'
  <2> DEFINE e == conn[x].to
  <2>1. conn[x].at \in {"engine", "remote"} => engine'[e].st = "up"
    BY <1>0 DEF ConnectionOK
  <2>2. conn[x].hop = "waited" => engine'[e].waits = x
    BY <1>0 DEF ConnectionOK
  <2>3. ASSUME conn[x].at = "engine"
        PROVE  /\ \E i \in 1 .. Len(engine'[e].inMsgs) : engine'[e].inMsgs[i].from = x
               /\ In(queue', LoopOf(e), TaskFor("in_msgs", e))
               /\ draining[LoopOf(e)] => draining'[LoopOf(e)]
               /\ mode.own /\ AllBehind(queue, e, TaskFor("cleaned", x), TaskFor("in_msgs", e)) =>
                    AllBehind(queue', e, TaskFor("cleaned", x), TaskFor("in_msgs", e))
    <3>1. /\ e \in Engines /\ In(queue, LoopOf(e), TaskFor("in_msgs", e))
          /\ \E i \in 1 .. Len(engine'[e].inMsgs) : engine'[e].inMsgs[i].from = x
      BY <1>0, <2>3 DEF ConnectionOK
    <3>2. In(queue', LoopOf(e), TaskFor("in_msgs", e))
      BY <1>0, <3>1 DEF GraphTasks
    <3>3. queue'[LoopOf(e)] # <<>>
      BY <1>0, <3>1, <3>2, NotEmpty DEF Queues
    <3> QED
      BY <1>0, <1>1, <3>1, <3>2, <3>3 DEF DrainsOn
  <2> HIDE DEF e
  <2> QED
    BY <1>0, <1>1, <2>1, <2>2, <2>3, ConnectionKept DEF e
<1>2. ASSUME NEW e \in Engines PROVE EngineOK(e)'
  <2>1. RemotesOf(e, conn') \subseteq RemotesOf(e, conn)
    BY DEF RemotesOf
  <2>2. ASSUME NEW x \in Connections
        PROVE  /\ OnTheWay(x, e) =>
                   /\ OnTheWay(x, e)' /\ conn'[x].first = conn[x].first
                   /\ conn[x].hop \in Way => conn'[x].hop \in Way
                   /\ conn[x].at = "engine" => conn'[x].at = "engine"
               /\ conn[x].hop = "waited" => conn'[x].hop = "waited"
    BY DEF OnTheWay
  <2>3. /\ engine[e].waits \in Connections \cup {None}
        /\ \A i \in 1 .. Len(engine[e].inMsgs) : engine[e].inMsgs[i].from \in Connections \cup {None}
    <3>1. engine[e].inMsgs \in Seq(Messages) /\ engine[e].waits \in Connections \cup {None}
      BY <1>0 DEF EngineType
    <3>2. \A i \in 1 .. Len(engine[e].inMsgs) : engine[e].inMsgs[i] \in Messages
      BY <3>1
    <3> QED
      BY <3>1, <3>2 DEF Messages
  <2>4. LoopOf(e)' = LoopOf(e)
    BY DEF LoopOf
  <2>5. Pending(e)' <=> Pending(e)
    BY <1>0, <2>4 DEF Pending, GraphTasks
  <2>6. In(queue', LoopOf(e), TaskFor("in_msgs", e)) => In(queue, LoopOf(e), TaskFor("in_msgs", e))
    BY <1>0 DEF GraphTasks
  <2> QED
    BY <1>0, <2>1, <2>2, <2>3, <2>5, <2>6, EngineKept
<1>3. ASSUME NEW l \in Loops, NEW x \in Connections, x # c PROVE MoveTasksOK(l, x)'
  BY <1>0, <1>3, MoveTasksKept
<1>4. ASSUME NEW l \in Loops, NEW e \in Engines PROVE GraphTasksOK(l, e)'
  BY <1>0, GraphTasksKept
<1> QED
  BY <1>1, <1>2, <1>3, <1>4

\* The app is as it was, and nothing new closes or is on its way.
LEMMA CalmKept ==
    ASSUME Calm, mode' = mode, app' = app, engine' = engine, NEW c \in Connections,
           \A x \in Connections : x # c => conn'[x] = conn[x],
           OnItsWay(c)' => /\ OnItsWay(c) /\ conn'[c].to = conn[c].to
                           /\ conn'[c].hop \in Way \cup {"done"} \/ conn'[c].hop = conn[c].hop,
           conn'[c].at \in {"engine", "remote"} /\ (conn'[c].eof \/ conn'[c].pshut) =>
               /\ conn[c].at \in {"engine", "remote"} /\ conn'[c].to = conn[c].to
               /\ conn[c].eof \/ conn[c].pshut
    PROVE  Calm'
<1>1. \A x \in Connections : OnItsWay(x)' => OnItsWay(x) /\ conn'[x].to = conn[x].to
  BY DEF OnItsWay
<1>2. ASSUME NEW e \in Engines, Doomed(e)' PROVE Doomed(e)
  BY <1>2 DEF Doomed
<1>3. \A x \in Connections : OnItsWay(x)' /\ conn'[x].to \in Engines => conn'[x].hop \in Way \cup {"done"}
  BY <1>1 DEF Calm
<1> QED
  BY <1>1, <1>2, <1>3 DEF Calm

LEMMA OneStepOfApp ==
    ASSUME IInv, NEW c \in Connections, mode' = mode, engine' = engine,
           app' \in AppType, AppOK',
           queue' \in Queues, Ordered(queue'), MovesKept(queue, queue', c),
           \A l \in Loops : In(queue', l, TaskFor("close_app", App)) =>
             l = App /\ ToClose(app'),
           draining' \in [Loops -> BOOLEAN], DrainsOn,
           conn' \in [Connections -> ConnectionType],
           \A x \in Connections : x # c => conn'[x] = conn[x],
           conn'[c].at = "remote" => conn[c].at = "remote" /\ conn'[c].to = conn[c].to,
           conn[c].hop \in Way \/ conn[c].at = "engine" =>
             conn'[c].to = conn[c].to /\ conn'[c].first = conn[c].first,
           conn[c].hop \in Way => conn'[c].hop \in Way,
           conn[c].at = "engine" => conn'[c].at = "engine",
           conn[c].hop = "waited" => conn'[c].hop = "waited",
           ConnectionOK(c)', \A l \in Loops : MoveTasksOK(l, c)', Calm'
    PROVE  IInv'
<1>1. /\ \A x \in Connections : x # c => ConnectionOK(x)'
      /\ \A e \in Engines : EngineOK(e)'
      /\ \A l \in Loops : /\ \A x \in Connections : x # c => MoveTasksOK(l, x)'
                          /\ \A e \in Engines : GraphTasksOK(l, e)'
  BY OneConnection
<1>2. TypeOK'
  <2>1. mode \in Modes /\ engine \in [Engines -> EngineType]
    BY TypeParts DEF IInv
  <2> QED
    BY <2>1 DEF TypeOK, AppType, EngineType, ConnectionType, Queues
<1>3. TasksOK'
  <2>1. \A l \in Loops : \A x \in Connections : MoveTasksOK(l, x)'
    BY <1>1
  <2> QED
    BY <1>1, <2>1 DEF TasksOK, Loops
<1> QED
  BY <1>1, <1>2, <1>3 DEF IInv

LEMMA OneStep ==
    ASSUME IInv, NEW c \in Connections, mode' = mode, app' = app, engine' = engine,
           queue' \in Queues, Ordered(queue'), OthersKept(queue, queue', c),
           draining' \in [Loops -> BOOLEAN], DrainsOn,
           conn' \in [Connections -> ConnectionType],
           \A x \in Connections : x # c => conn'[x] = conn[x],
           conn'[c].at = "remote" => conn[c].at = "remote" /\ conn'[c].to = conn[c].to,
           conn'[c].at = "app" => conn[c].at = "app" \/ app.deinits = 0,
           conn[c].hop \in Way \/ conn[c].at = "engine" =>
             conn'[c].to = conn[c].to /\ conn'[c].first = conn[c].first,
           conn[c].hop \in Way => conn'[c].hop \in Way,
           conn[c].at = "engine" => conn'[c].at = "engine",
           conn[c].hop = "waited" => conn'[c].hop = "waited",
           ConnectionOK(c)', \A l \in Loops : MoveTasksOK(l, c)', Calm'
    PROVE  IInv'
<1>1. AppOK' /\ app' \in AppType
  <2>1. Orphans(conn') # {} => Orphans(conn) # {} \/ app.deinits = 0
    BY DEF Orphans
  <2> QED
    BY <2>1, TypeParts DEF IInv, AppOK, TypeOK
<1>2. \A l \in Loops : In(queue', l, TaskFor("close_app", App)) =>
            l = App /\ ToClose(app')
  BY DEF IInv, TasksOK, OthersKept
<1> QED
  BY <1>1, <1>2, OneStepOfApp DEF OthersKept

-----------------------------------------------------------------------------
(* Clients come and go. *)

LEMMA ConnectStep ==
    ASSUME IInv, ~Races, NEW c \in Connections, Connect(c)
    PROVE  IInv'
<1>0. /\ TypeOK /\ queue \in Queues /\ Ordered(queue) /\ App \in Loops
      /\ TaskFor("accepted", c) \in Tasks
      /\ conn \in [Connections -> ConnectionType] /\ draining \in [Loops -> BOOLEAN]
  BY TypeParts, TaskKinds DEF IInv, Loops, MoveTasks
<1>1. /\ UNCHANGED <<mode, app, engine, draining>>
      /\ queue' = Post(queue, App, TaskFor("accepted", c))
      /\ conn[c].at = "none" /\ app.state = "running" /\ Accepts(App) /\ ~AppDoomed
      /\ conn' = [conn EXCEPT ![c].at = "accepting"]
  BY DEF Connect, MayConnect, AppDoomed, Accepts
<1>2. /\ \A x \in Connections : x # c => conn'[x] = conn[x]
      /\ conn'[c] = [conn[c] EXCEPT !.at = "accepting"] /\ conn'[c].at = "accepting"
      /\ conn[c].hop = "no" /\ conn[c].to = None
      /\ conn' \in [Connections -> ConnectionType]
  BY <1>0, <1>1 DEF ConnectionType, IInv, ConnectionOK
<1>3. /\ queue' \in Queues /\ OthersKept(queue, queue', c)
      /\ \A k \in Loops : \A u : In(queue', k, u) <=> In(queue, k, u) \/ (k = App /\ u = TaskFor("accepted", c))
  BY <1>0, <1>1, Posts, PostOthers DEF MoveTasks
<1>4. \A l \in Loops : \A f \in MoveTasks : ~In(queue, l, TaskFor(f, c))
  BY <1>1 DEF IInv, TasksOK, MoveTasksOK, MoveTasks, Attached
<1>5. Ordered(queue')
  BY <1>0, <1>1, <1>4, OrderPosted DEF MoveTasks
<1>6. \A l \in Loops : MoveTasksOK(l, c)'
  BY <1>2, <1>3, <1>4, SameTask DEF MoveTasksOK, MoveTasks
<1>7. ConnectionOK(c)'
  BY <1>0, <1>1, <1>2 DEF IInv, ConnectionOK, Attached, Way
<1>8. Calm'
  BY <1>1, <1>2, NoneAssumption DEF IInv, Calm, OnItsWay, Doomed, AppDoomed
<1> QED
  BY <1>0, <1>1, <1>2, <1>3, <1>5, <1>6, <1>7, <1>8, OneStep DEF DrainsOn, Way

\* A loop runs a task about a connection.
LEMMA RunsTask ==
    ASSUME TypeOK, Ordered(queue), NEW l \in Loops, NEW f \in MoveTasks, NEW c \in Connections,
           Task(f, l, c), queue' = Taken(l), Drained(l)
    PROVE  /\ queue' \in Queues /\ Ordered(queue') /\ OthersKept(queue, queue', c)
           /\ draining' \in [Loops -> BOOLEAN] /\ DrainsOn
           /\ In(queue, l, TaskFor(f, c))
           /\ \A k \in Loops : \A u : In(queue', k, u) => In(queue, k, u)
           /\ \A u : In(queue', l, u) => Behind(queue, l, u, TaskFor(f, c)) /\ draining'[l]
           /\ \A k \in Loops : k # l => draining'[k] = draining[k]
           /\ f # "cleaned" => ~In(queue', l, TaskFor(f, c))
           /\ \A k \in Loops : \A e \in Engines :
                AllBehind(queue, k, TaskFor("cleaned", c), TaskFor("in_msgs", e)) =>
                AllBehind(queue', k, TaskFor("cleaned", c), TaskFor("in_msgs", e))
<1>1. queue \in Queues /\ draining \in [Loops -> BOOLEAN]
  BY TypeParts
<1>2. f # "in_msgs"
  BY DEF MoveTasks
<1>3. /\ queue' \in Queues /\ Ordered(queue') /\ OthersKept(queue, queue', c)
      /\ In(queue, l, TaskFor(f, c))
      /\ \A k \in Loops : \A u : In(queue', k, u) => In(queue, k, u)
      /\ \A u : In(queue', l, u) => Behind(queue, l, u, TaskFor(f, c))
      /\ f # "cleaned" => ~In(queue', l, TaskFor(f, c))
  BY <1>1, <1>2, Takes, OrderTaken, TakeOthers
<1>4. \A k \in Loops : \A e \in Engines :
                AllBehind(queue, k, TaskFor("cleaned", c), TaskFor("in_msgs", e)) =>
                AllBehind(queue', k, TaskFor("cleaned", c), TaskFor("in_msgs", e))
  <2>1. \A k \in Loops : \A u, s :
                AllBehind(queue, k, u, s) /\ (k # l \/ s # TaskFor(f, c)) => AllBehind(queue', k, u, s)
    BY <1>1, Takes
  <2> QED
    BY <2>1, <1>2, SameTask
<1>5. draining' = [draining EXCEPT ![l] = queue'[l] # <<>>]
  BY DEF Drained
<1>6. \A u : In(queue', l, u) => draining'[l]
  <2>1. \A u : In(queue', l, u) => queue'[l] # <<>>
    BY <1>3, NotEmpty DEF Queues
  <2> QED
    BY <2>1, <1>1, <1>5
<1>7. /\ \A k \in Loops : k # l => draining'[k] = draining[k]
      /\ draining' \in [Loops -> BOOLEAN]
      /\ draining'[l] = (queue'[l] # <<>>)
  BY <1>1, <1>5
<1> QED
  BY <1>3, <1>4, <1>6, <1>7 DEF DrainsOn

LEMMA AcceptedStep ==
    ASSUME IInv, ~Races, NEW c \in Connections, Accepted(c)
    PROVE  IInv'
<1>0. /\ TypeOK /\ queue \in Queues /\ Ordered(queue) /\ App \in Loops
      /\ conn \in [Connections -> ConnectionType]
  BY TypeParts DEF IInv, Loops
<1>1. /\ UNCHANGED <<mode, app, engine>>
      /\ queue' = Taken(App) /\ Drained(App) /\ Task("accepted", App, c)
      /\ conn' = [conn EXCEPT ![c].at = "app", ![c].stream = "open"]
  BY DEF Accepted
<1>2. /\ queue' \in Queues /\ Ordered(queue') /\ OthersKept(queue, queue', c)
      /\ draining' \in [Loops -> BOOLEAN] /\ DrainsOn
      /\ In(queue, App, TaskFor("accepted", c))
      /\ \A k \in Loops : \A u : In(queue', k, u) => In(queue, k, u)
      /\ ~In(queue', App, TaskFor("accepted", c))
  BY <1>0, <1>1, RunsTask DEF MoveTasks
<1>3. conn[c].at = "accepting"
  BY <1>0, <1>2 DEF IInv, TasksOK, MoveTasksOK
<1>4. /\ conn' \in [Connections -> ConnectionType]
      /\ \A x \in Connections : x # c => conn'[x] = conn[x]
      /\ conn'[c] = [conn[c] EXCEPT !.at = "app", !.stream = "open"]
      /\ conn'[c].at = "app" /\ conn'[c].stream = "open"
  <2> DEFINE r == [conn[c] EXCEPT !.at = "app"]
  <2>1. conn' = [conn EXCEPT ![c] = [r EXCEPT !.stream = "open"]]
    BY <1>1
  <2>2. r \in ConnectionType /\ r.at = "app"
    BY <1>0 DEF ConnectionType
  <2> HIDE DEF r
  <2>3. [r EXCEPT !.stream = "open"] \in ConnectionType
    BY <2>2 DEF ConnectionType
  <2>4. [r EXCEPT !.stream = "open"].at = "app" /\ [r EXCEPT !.stream = "open"].stream = "open"
    BY <2>2 DEF ConnectionType
  <2>5. [r EXCEPT !.stream = "open"] = [conn[c] EXCEPT !.at = "app", !.stream = "open"]
    BY DEF r
  <2> QED
    BY <1>0, <2>1, <2>3, <2>4, <2>5
<1>5. app.state = "running" /\ app.deinits = 0
  BY <1>0, <1>3 DEF IInv, Calm, OnItsWay, AppOK, TypeOK
<1>6. ConnectionOK(c)'
  BY <1>0, <1>1, <1>3, <1>4 DEF IInv, ConnectionOK, Attached, Way, ConnectionType
<1>7. \A l \in Loops : MoveTasksOK(l, c)'
  BY <1>0, <1>2, <1>3, <1>4 DEF IInv, TasksOK, MoveTasksOK, Attached, ConnectionOK
<1>8. Calm'
  <2>1. conn[c].hop = "no" /\ conn'[c].hop = "no"
    BY <1>0, <1>3, <1>4 DEF IInv, ConnectionOK, ConnectionType
  <2>2. ~OnItsWay(c)'
    BY <2>1, <1>4 DEF OnItsWay
  <2> QED
    BY <1>1, <1>4, <2>2, CalmKept DEF IInv
<1> QED
  BY <1>0, <1>1, <1>2, <1>3, <1>4, <1>5, <1>6, <1>7, <1>8, OneStep DEF Way, IInv, ConnectionOK

LEMMA DisconnectStep ==
    ASSUME IInv, ~Races, NEW c \in Connections, Disconnect(c)
    PROVE  IInv'
<1> DEFINE l == AttachedLoop(c)
<1>0. /\ TypeOK /\ queue \in Queues /\ Ordered(queue) /\ ConnectionOK(c)
      /\ conn \in [Connections -> ConnectionType] /\ draining \in [Loops -> BOOLEAN]
  BY TypeParts DEF IInv
<1>1. /\ UNCHANGED <<mode, app, engine, draining>>
      /\ queue' = Post(queue, l, TaskFor("proto_close", c))
      /\ conn[c].stream = "open" /\ ~conn[c].eof
      /\ conn[c].at \in Attached /\ conn[c].hop \in {"no", "reset", "done"}
      /\ conn[c].at = "app" \/ mode.engLong \/ MayEnd(conn[c].to)
      /\ conn' = [conn EXCEPT ![c].eof = TRUE]
  BY DEF Disconnect, Attached
<1>2. l \in Loops /\ TaskFor("proto_close", c) \in Tasks
  BY <1>0, <1>1, TaskKinds DEF AttachedLoop, LoopOf, Loops, MoveTasks, ConnectionOK
<1>3. /\ conn' \in [Connections -> ConnectionType]
      /\ \A x \in Connections : x # c => conn'[x] = conn[x]
      /\ conn'[c] = [conn[c] EXCEPT !.eof = TRUE] /\ conn'[c].eof
      /\ conn'[c].at = conn[c].at /\ conn'[c].to = conn[c].to /\ conn'[c].hop = conn[c].hop
      /\ conn'[c].first = conn[c].first /\ conn'[c].stream = conn[c].stream
      /\ conn'[c].pshut = conn[c].pshut /\ conn'[c].rest = conn[c].rest
  BY <1>0, <1>1, ZenonT(40) DEF ConnectionType
<1> HIDE DEF l
<1>4. /\ queue' \in Queues /\ OthersKept(queue, queue', c)
      /\ \A k \in Loops : \A u :
           In(queue', k, u) => In(queue, k, u) \/ (k = l /\ u = TaskFor("proto_close", c))
      /\ \A k \in Loops : \A e :
                AllBehind(queue, k, TaskFor("cleaned", c), TaskFor("in_msgs", e)) =>
                AllBehind(queue', k, TaskFor("cleaned", c), TaskFor("in_msgs", e))
  <2>1. "proto_close" \in MoveTasks
    BY DEF MoveTasks
  <2> QED
    BY <1>0, <1>1, <1>2, <2>1, Posts, PostOthers, SameTask
<1>5. ~In(queue, l, TaskFor("proto_close", c))
  BY <1>1, <1>2 DEF IInv, TasksOK, MoveTasksOK
<1>6. Ordered(queue')
  BY <1>0, <1>1, <1>2, <1>5, OrderPosted
<1>7. \A k \in Loops : MoveTasksOK(k, c)'
  <2>1. l = AttachedLoop(c) /\ AttachedLoop(c)' = AttachedLoop(c)
    BY <1>1, <1>3 DEF l, AttachedLoop, LoopOf
  <2> QED
    BY <1>1, <1>3, <1>4, <2>1, SameTask DEF IInv, TasksOK, MoveTasksOK
<1>8. ConnectionOK(c)'
  <2>1. \A e : LoopOf(e)' = LoopOf(e)
    BY <1>1 DEF LoopOf
  <2>2. conn[c].at = "engine" =>
          /\ In(queue', LoopOf(conn[c].to), TaskFor("in_msgs", conn[c].to))
          /\ mode.own => AllBehind(queue', conn[c].to, TaskFor("cleaned", c), TaskFor("in_msgs", conn[c].to))
    <3>1. conn[c].at = "engine" => conn[c].to \in Engines /\ LoopOf(conn[c].to) \in Loops
      BY <1>0 DEF ConnectionOK, LoopOf, Loops
    <3>2. "in_msgs" \in GraphTasks
      BY DEF GraphTasks
    <3> QED
      BY <1>0, <1>4, <3>1, <3>2 DEF ConnectionOK, OthersKept, MovesKept, Loops
  <2> QED
    BY <1>0, <1>1, <1>3, <2>1, <2>2 DEF ConnectionOK, Attached, Way
<1>9. Calm'
  <2>1. \A x \in Connections : OnItsWay(x)' <=> OnItsWay(x)
    BY <1>3 DEF OnItsWay
  <2>2. ASSUME NEW e \in Engines, Doomed(e)'
        PROVE  Doomed(e) \/ (e = conn[c].to /\ MayEnd(e))
    BY <1>1, <1>3, <2>2 DEF Doomed
  <2> QED
    BY <1>1, <1>3, <2>1, <2>2 DEF IInv, Calm, MayEnd
<1> QED
  BY <1>0, <1>1, <1>3, <1>4, <1>6, <1>7, <1>8, <1>9, OneStep DEF Way, DrainsOn

\* The fields of a connection, and one of them set anew.
LEMMA SetAt ==
    ASSUME NEW r \in ConnectionType,
           NEW v \in {"none", "accepting", "app", "moving", "engine", "remote", "gone"}
    PROVE  LET s == [r EXCEPT !.at = v] IN
           /\ s \in ConnectionType /\ s.at = v
           /\ s.to = r.to /\ s.hop = r.hop /\ s.first = r.first /\ s.rest = r.rest
           /\ s.shut = r.shut /\ s.pshut = r.pshut /\ s.eof = r.eof /\ s.stream = r.stream
BY DEF ConnectionType

LEMMA SetHop ==
    ASSUME NEW r \in ConnectionType,
           NEW v \in {"no", "reset", "asked", "prepared", "sent", "waited", "done"}
    PROVE  LET s == [r EXCEPT !.hop = v] IN
           /\ s \in ConnectionType /\ s.hop = v
           /\ s.at = r.at /\ s.to = r.to /\ s.first = r.first /\ s.rest = r.rest
           /\ s.shut = r.shut /\ s.pshut = r.pshut /\ s.eof = r.eof /\ s.stream = r.stream
BY DEF ConnectionType

LEMMA SetStream ==
    ASSUME NEW r \in ConnectionType,
           NEW v \in {"none", "open", "closing", "cleaning", "cleaned", "closed"}
    PROVE  LET s == [r EXCEPT !.stream = v] IN
           /\ s \in ConnectionType /\ s.stream = v
           /\ s.at = r.at /\ s.to = r.to /\ s.hop = r.hop /\ s.first = r.first /\ s.rest = r.rest
           /\ s.shut = r.shut /\ s.pshut = r.pshut /\ s.eof = r.eof
BY DEF ConnectionType

LEMMA SetShut ==
    ASSUME NEW r \in ConnectionType
    PROVE  LET s == [r EXCEPT !.shut = TRUE] IN
           /\ s \in ConnectionType
           /\ s.at = r.at /\ s.to = r.to /\ s.hop = r.hop /\ s.first = r.first /\ s.rest = r.rest
           /\ s.pshut = r.pshut /\ s.eof = r.eof /\ s.stream = r.stream
BY DEF ConnectionType

LEMMA SetPshut ==
    ASSUME NEW r \in ConnectionType
    PROVE  LET s == [r EXCEPT !.pshut = TRUE] IN
           /\ s \in ConnectionType /\ s.pshut
           /\ s.at = r.at /\ s.to = r.to /\ s.hop = r.hop /\ s.first = r.first /\ s.rest = r.rest
           /\ s.shut = r.shut /\ s.eof = r.eof /\ s.stream = r.stream
BY DEF ConnectionType

\* The connection has read its first message, which is for e.
Read(r, e, first, rest) == [[[r EXCEPT !.to = e] EXCEPT !.first = first] EXCEPT !.rest = rest]

LEMMA SetTo ==
    ASSUME NEW r \in ConnectionType, NEW e \in Engines, NEW first \in {"start", "cmd"},
           NEW rest \in BOOLEAN
    PROVE  LET s == Read(r, e, first, rest) IN
           /\ s \in ConnectionType /\ s.to = e /\ s.first = first /\ s.rest = rest
           /\ s.at = r.at /\ s.hop = r.hop
           /\ s.shut = r.shut /\ s.pshut = r.pshut /\ s.eof = r.eof /\ s.stream = r.stream
<1> DEFINE a == [r EXCEPT !.to = e]
           b == [a EXCEPT !.first = first]
<1>1. /\ a \in ConnectionType /\ a.to = e
      /\ a.at = r.at /\ a.hop = r.hop /\ a.first = r.first /\ a.rest = r.rest
      /\ a.shut = r.shut /\ a.pshut = r.pshut /\ a.eof = r.eof /\ a.stream = r.stream
  BY DEF ConnectionType
<1> HIDE DEF a
<1>2. /\ b \in ConnectionType /\ b.to = e /\ b.first = first
      /\ b.at = r.at /\ b.hop = r.hop /\ b.rest = r.rest
      /\ b.shut = r.shut /\ b.pshut = r.pshut /\ b.eof = r.eof /\ b.stream = r.stream
  BY <1>1 DEF ConnectionType
<1> HIDE DEF b
<1>3. LET s == [b EXCEPT !.rest = rest] IN
      /\ s \in ConnectionType /\ s.to = e /\ s.first = first /\ s.rest = rest
      /\ s.at = r.at /\ s.hop = r.hop
      /\ s.shut = r.shut /\ s.pshut = r.pshut /\ s.eof = r.eof /\ s.stream = r.stream
  BY <1>2 DEF ConnectionType
<1> QED
  BY <1>3 DEF a, b, Read

\* ten_connection_close and ten_protocol_close.
LEMMA ShutEffect ==
    ASSUME NEW r \in ConnectionType
    PROVE  /\ \A s \in {ShutProtocol(r), ShutConnection(r)} :
                /\ s \in ConnectionType
                /\ s.at = r.at /\ s.to = r.to /\ s.hop = r.hop /\ s.first = r.first /\ s.rest = r.rest
                /\ s.eof = r.eof
                /\ s.stream = r.stream \/ (r.stream = "open" /\ s.stream = "closing" /\ s.pshut)
                /\ r.pshut => s.pshut
                /\ s.pshut => r.pshut \/ r.stream # "open" \/ s.stream = "closing"
           /\ ShutProtocol(r).pshut
<1>1. ASSUME NEW u \in ConnectionType
      PROVE  LET s == ShutProtocol(u) IN
                /\ s \in ConnectionType
                /\ s.at = u.at /\ s.to = u.to /\ s.hop = u.hop /\ s.first = u.first /\ s.rest = u.rest
                /\ s.eof = u.eof
                /\ s.stream = u.stream \/ (u.stream = "open" /\ s.stream = "closing" /\ s.pshut)
                /\ u.pshut => s.pshut
                /\ s.pshut => u.pshut \/ u.stream # "open" \/ s.stream = "closing"
                /\ s.pshut
  <2>1. CASE u.pshut
    BY <2>1 DEF ShutProtocol
  <2>2. CASE ~u.pshut
    <3> DEFINE a == [u EXCEPT !.pshut = TRUE]
               w == IF u.stream = "open" THEN "closing" ELSE u.stream
    <3>1. /\ a \in ConnectionType /\ a.pshut
          /\ a.at = u.at /\ a.to = u.to /\ a.hop = u.hop /\ a.first = u.first /\ a.rest = u.rest
          /\ a.shut = u.shut /\ a.eof = u.eof /\ a.stream = u.stream
      BY SetPshut
    <3>2. ShutProtocol(u) = [a EXCEPT !.stream = w]
      BY <2>2, <3>1 DEF ShutProtocol
    <3>3. w \in {"none", "open", "closing", "cleaning", "cleaned", "closed"}
      BY DEF ConnectionType
    <3> HIDE DEF a, w
    <3>4. LET s == [a EXCEPT !.stream = w] IN
           /\ s \in ConnectionType /\ s.stream = w
           /\ s.at = a.at /\ s.to = a.to /\ s.hop = a.hop /\ s.first = a.first /\ s.rest = a.rest
           /\ s.shut = a.shut /\ s.pshut = a.pshut /\ s.eof = a.eof
      <4>1. a \in ConnectionType
        BY <3>1
      <4> QED
        BY ONLY <4>1, <3>3, SetStream
    <3> QED
      BY <3>1, <3>2, <3>4 DEF w
  <2> QED
    BY <2>1, <2>2
<1>2. CASE r.shut
  BY <1>1, <1>2 DEF ShutConnection
<1>3. CASE ~r.shut
  <2> DEFINE a == [r EXCEPT !.shut = TRUE]
  <2>1. /\ a \in ConnectionType
        /\ a.at = r.at /\ a.to = r.to /\ a.hop = r.hop /\ a.first = r.first /\ a.rest = r.rest
        /\ a.pshut = r.pshut /\ a.eof = r.eof /\ a.stream = r.stream
    BY SetShut
  <2>2. ShutConnection(r) = ShutProtocol(a)
    BY <1>3 DEF ShutConnection
  <2> HIDE DEF a
  <2> QED
    BY <1>1, <2>1, <2>2
<1> QED
  BY <1>2, <1>3

LEMMA ProtoCloseStep ==
    ASSUME IInv, NEW l \in Loops, NEW c \in Connections, ProtoClose(l, c)
    PROVE  IInv'
<1>0. /\ TypeOK /\ queue \in Queues /\ Ordered(queue) /\ ConnectionOK(c)
      /\ conn \in [Connections -> ConnectionType]
  BY TypeParts DEF IInv
<1>1. /\ UNCHANGED <<mode, app, engine>>
      /\ queue' = Taken(l) /\ Drained(l) /\ Task("proto_close", l, c)
      /\ conn' = [conn EXCEPT ![c] = ShutProtocol(@)]
  BY DEF ProtoClose
<1>2. /\ queue' \in Queues /\ Ordered(queue') /\ OthersKept(queue, queue', c)
      /\ draining' \in [Loops -> BOOLEAN] /\ DrainsOn
      /\ In(queue, l, TaskFor("proto_close", c))
      /\ \A k \in Loops : \A u : In(queue', k, u) => In(queue, k, u)
      /\ \A u : In(queue', l, u) => draining'[l]
      /\ \A k \in Loops : \A e \in Engines :
                AllBehind(queue, k, TaskFor("cleaned", c), TaskFor("in_msgs", e)) =>
                AllBehind(queue', k, TaskFor("cleaned", c), TaskFor("in_msgs", e))
  BY <1>0, <1>1, RunsTask DEF MoveTasks
<1>3. /\ conn[c].eof /\ conn[c].at \in Attached \cup {"gone"}
      /\ conn[c].at \in Attached => l = AttachedLoop(c)
  BY <1>2 DEF IInv, TasksOK, MoveTasksOK
<1>4. /\ conn' \in [Connections -> ConnectionType]
      /\ \A x \in Connections : x # c => conn'[x] = conn[x]
      /\ conn'[c] = ShutProtocol(conn[c])
  BY <1>0, <1>1, ShutEffect
<1>5. LET r == conn[c]
          s == conn'[c] IN
      /\ s.at = r.at /\ s.to = r.to /\ s.hop = r.hop /\ s.first = r.first /\ s.rest = r.rest
      /\ s.eof = r.eof /\ s.pshut
      /\ s.stream = r.stream \/ (r.stream = "open" /\ s.stream = "closing" /\ s.pshut)
      /\ s.pshut => r.pshut \/ r.stream # "open" \/ s.stream = "closing"
  BY <1>0, <1>4, ShutEffect
<1>6. \A e : LoopOf(e)' = LoopOf(e)
  BY <1>1 DEF LoopOf
<1>7. AttachedLoop(c)' = AttachedLoop(c)
  BY <1>5, <1>6 DEF AttachedLoop
<1>8. ConnectionOK(c)'
  <2>1. conn[c].at = "engine" =>
          /\ conn[c].to \in Engines /\ l = LoopOf(conn[c].to)
          /\ In(queue', l, TaskFor("in_msgs", conn[c].to))
          /\ mode.own => AllBehind(queue', conn[c].to, TaskFor("cleaned", c), TaskFor("in_msgs", conn[c].to))
    <3>1. "in_msgs" \in GraphTasks
      BY DEF GraphTasks
    <3> QED
      BY <1>0, <1>2, <1>3, <3>1 DEF ConnectionOK, OthersKept, MovesKept, Loops, AttachedLoop, Attached
  <2> QED
    BY <1>0, <1>1, <1>2, <1>3, <1>5, <1>6, <2>1 DEF ConnectionOK, Attached, Way
<1>9. \A k \in Loops : MoveTasksOK(k, c)'
  BY <1>2, <1>3, <1>5, <1>7, <1>0 DEF IInv, TasksOK, MoveTasksOK, Attached
<1>10. Calm'
  BY <1>1, <1>3, <1>4, <1>5, CalmKept DEF IInv, OnItsWay
<1> QED
  BY <1>0, <1>1, <1>2, <1>4, <1>5, <1>8, <1>9, <1>10, OneStep

LEMMA GraphNotFoundStep ==
    ASSUME IInv, ~Races, NEW c \in Connections, GraphNotFound(c)
    PROVE  IInv'
<1>0. /\ TypeOK /\ queue \in Queues /\ Ordered(queue) /\ App \in Loops /\ ConnectionOK(c)
      /\ TaskFor("cleaned", c) \in Tasks
      /\ conn \in [Connections -> ConnectionType] /\ draining \in [Loops -> BOOLEAN]
  BY TypeParts, TaskKinds DEF IInv, Loops, MoveTasks
<1>1. /\ UNCHANGED <<mode, app, engine, draining>>
      /\ queue' = Post(queue, App, TaskFor("cleaned", c))
      /\ conn[c].at = "app" /\ conn[c].hop = "no" /\ conn[c].stream = "open" /\ ~conn[c].eof
      /\ conn' = [conn EXCEPT ![c].hop = "reset"]
  BY DEF GraphNotFound, ReadsFirst
<1>2. LET r == conn[c]
          s == conn'[c] IN
      /\ conn' \in [Connections -> ConnectionType]
      /\ \A x \in Connections : x # c => conn'[x] = conn[x]
      /\ s.at = r.at /\ s.to = r.to /\ s.hop = "reset" /\ s.first = r.first /\ s.rest = r.rest
      /\ s.shut = r.shut /\ s.pshut = r.pshut /\ s.eof = r.eof /\ s.stream = r.stream
  BY <1>0, <1>1 DEF ConnectionType
<1>3. /\ queue' \in Queues /\ OthersKept(queue, queue', c)
      /\ \A k \in Loops : \A u :
            In(queue', k, u) => In(queue, k, u) \/ (k = App /\ u = TaskFor("cleaned", c))
  BY <1>0, <1>1, Posts, PostOthers DEF MoveTasks
<1>4. \A k \in Loops : ~In(queue, k, TaskFor("clean", c)) /\ ~In(queue, k, TaskFor("accepted", c))
  BY <1>1 DEF IInv, TasksOK, MoveTasksOK
<1>5. Ordered(queue')
  BY <1>0, <1>1, <1>4, OrderPosted
<1>6. \A l \in Loops : MoveTasksOK(l, c)'
  <2>1. AttachedLoop(c) = App /\ AttachedLoop(c)' = App
    BY <1>1, <1>2 DEF AttachedLoop
  <2> QED
    BY <1>1, <1>2, <1>3, <1>4, <2>1, SameTask DEF IInv, TasksOK, MoveTasksOK, Attached
<1>7. ConnectionOK(c)'
  BY <1>0, <1>1, <1>2 DEF ConnectionOK, Attached, Way
<1>8. Calm'
  BY <1>1, <1>2, CalmKept DEF IInv, OnItsWay
<1> QED
  BY <1>0, <1>1, <1>2, <1>3, <1>5, <1>6, <1>7, <1>8, OneStep DEF DrainsOn, Way

LEMMA CleanedStep ==
    ASSUME IInv, NEW l \in Loops, NEW c \in Connections, Cleaned(l, c)
    PROVE  IInv'
<1>0. /\ TypeOK /\ queue \in Queues /\ Ordered(queue) /\ ConnectionOK(c)
      /\ conn \in [Connections -> ConnectionType]
  BY TypeParts DEF IInv
<1>1. /\ UNCHANGED <<mode, app, engine>>
      /\ queue' = Taken(l) /\ Drained(l) /\ Task("cleaned", l, c)
      /\ conn' = [conn EXCEPT ![c].rest = FALSE]
  BY DEF Cleaned
<1>2. /\ queue' \in Queues /\ Ordered(queue') /\ OthersKept(queue, queue', c)
      /\ draining' \in [Loops -> BOOLEAN] /\ DrainsOn
      /\ \A k \in Loops : \A u : In(queue', k, u) => In(queue, k, u)
      /\ \A u : In(queue', l, u) => draining'[l]
      /\ \A k \in Loops : k # l => draining'[k] = draining[k]
      /\ \A k \in Loops : \A e \in Engines :
                AllBehind(queue, k, TaskFor("cleaned", c), TaskFor("in_msgs", e)) =>
                AllBehind(queue', k, TaskFor("cleaned", c), TaskFor("in_msgs", e))
  BY <1>0, <1>1, RunsTask DEF MoveTasks
<1>3. LET r == conn[c]
          s == conn'[c] IN
      /\ conn' \in [Connections -> ConnectionType]
      /\ \A x \in Connections : x # c => conn'[x] = conn[x]
      /\ s.at = r.at /\ s.to = r.to /\ s.hop = r.hop /\ s.first = r.first /\ ~s.rest
      /\ s.shut = r.shut /\ s.pshut = r.pshut /\ s.eof = r.eof /\ s.stream = r.stream
  BY <1>0, <1>1 DEF ConnectionType
<1>4. \A e : LoopOf(e)' = LoopOf(e)
  BY <1>1 DEF LoopOf
<1>5. ConnectionOK(c)'
  <2>1. conn[c].at = "engine" =>
          LET e == conn[c].to IN
          /\ In(queue', LoopOf(e), TaskFor("in_msgs", e))
          /\ draining[LoopOf(e)] => draining'[LoopOf(e)]
          /\ mode.own => AllBehind(queue', e, TaskFor("cleaned", c), TaskFor("in_msgs", e))
    <3>1. "in_msgs" \in GraphTasks
      BY DEF GraphTasks
    <3>2. ASSUME conn[c].at = "engine"
          PROVE  /\ conn[c].to \in Engines /\ LoopOf(conn[c].to) \in Loops /\ conn[c].to \in Loops
                 /\ In(queue, LoopOf(conn[c].to), TaskFor("in_msgs", conn[c].to))
                 /\ mode.own => AllBehind(queue, conn[c].to, TaskFor("cleaned", c),
                                          TaskFor("in_msgs", conn[c].to))
      BY <1>0, <3>2 DEF ConnectionOK, Loops, LoopOf
    <3>3. conn[c].at = "engine" => In(queue', LoopOf(conn[c].to), TaskFor("in_msgs", conn[c].to))
      BY <1>2, <3>1, <3>2 DEF OthersKept, MovesKept
    <3> QED
      BY <1>2, <3>2, <3>3
  <2> QED
    BY <1>0, <1>1, <1>3, <1>4, <2>1 DEF ConnectionOK, Attached, Way
<1>6. \A k \in Loops : MoveTasksOK(k, c)'
  <2>1. AttachedLoop(c)' = AttachedLoop(c)
    BY <1>3, <1>4 DEF AttachedLoop
  <2> QED
    BY <1>2, <1>3, <2>1 DEF IInv, TasksOK, MoveTasksOK
<1>7. Calm'
  BY <1>1, <1>3, CalmKept DEF IInv, OnItsWay
<1> QED
  BY <1>0, <1>1, <1>2, <1>3, <1>5, <1>6, <1>7, OneStep

\* The steps of a migration that post nothing.
LEMMA PipeReadyStep ==
    ASSUME IInv, NEW e \in Engines, NEW c \in Connections, PipeReady(e, c) \/ SocketSent(c)
    PROVE  IInv'
<1>0. /\ TypeOK /\ queue \in Queues /\ Ordered(queue) /\ ConnectionOK(c)
      /\ conn \in [Connections -> ConnectionType] /\ draining \in [Loops -> BOOLEAN]
  BY TypeParts DEF IInv
<1>1. PICK h \in {"prepared", "sent"} :
      /\ UNCHANGED <<mode, app, engine, queue, draining>>
      /\ conn[c].hop \in {"asked", "prepared"}
      /\ conn' = [conn EXCEPT ![c].hop = h]
  BY DEF PipeReady, SocketSent
<1>2. LET r == conn[c]
          s == conn'[c] IN
      /\ conn' \in [Connections -> ConnectionType]
      /\ \A x \in Connections : x # c => conn'[x] = conn[x]
      /\ s.at = r.at /\ s.to = r.to /\ s.hop \in {"prepared", "sent"} /\ s.first = r.first /\ s.rest = r.rest
      /\ s.shut = r.shut /\ s.pshut = r.pshut /\ s.eof = r.eof /\ s.stream = r.stream
  BY <1>0, <1>1 DEF ConnectionType
<1>3. conn[c].at = "app"
  BY <1>0, <1>1 DEF ConnectionOK, Way
<1>4. ConnectionOK(c)'
  BY <1>0, <1>1, <1>2, <1>3 DEF ConnectionOK, Attached, Way
<1>5. \A l \in Loops : MoveTasksOK(l, c)'
  <2>1. AttachedLoop(c) = App /\ AttachedLoop(c)' = App
    BY <1>2, <1>3 DEF AttachedLoop
  <2> QED
    BY <1>1, <1>2, <1>3, <2>1 DEF IInv, TasksOK, MoveTasksOK
<1>6. Calm'
  BY <1>1, <1>2, <1>3, CalmKept DEF IInv, OnItsWay, Way
<1>7. OthersKept(queue, queue', c) /\ DrainsOn
  BY <1>1 DEF OthersKept, MovesKept, DrainsOn
<1> QED
  BY <1>0, <1>1, <1>2, <1>3, <1>4, <1>5, <1>6, <1>7, OneStep DEF Way

LEMMA StreamCleanedStep ==
    ASSUME IInv, NEW c \in Connections, StreamCleaned(c)
    PROVE  IInv'
<1>0. /\ TypeOK /\ queue \in Queues /\ Ordered(queue) /\ ConnectionOK(c)
      /\ conn \in [Connections -> ConnectionType] /\ draining \in [Loops -> BOOLEAN]
  BY TypeParts DEF IInv
<1>1. /\ UNCHANGED <<mode, app, engine, queue, draining>>
      /\ conn[c].stream = "cleaning"
      /\ conn' = [conn EXCEPT ![c].stream = "cleaned"]
  BY DEF StreamCleaned
<1>2. LET r == conn[c]
          s == conn'[c] IN
      /\ conn' \in [Connections -> ConnectionType]
      /\ \A x \in Connections : x # c => conn'[x] = conn[x]
      /\ s.at = r.at /\ s.to = r.to /\ s.hop = r.hop /\ s.first = r.first /\ s.rest = r.rest
      /\ s.shut = r.shut /\ s.pshut = r.pshut /\ s.eof = r.eof /\ s.stream = "cleaned"
  BY <1>0, <1>1 DEF ConnectionType
<1>3. conn[c].at = "moving"
  BY <1>0, <1>1 DEF ConnectionOK, Attached, ConnectionType
<1>4. ConnectionOK(c)'
  BY <1>0, <1>1, <1>2, <1>3 DEF ConnectionOK, Attached, Way
<1>5. \A l \in Loops : MoveTasksOK(l, c)'
  BY <1>1, <1>2, <1>3 DEF IInv, TasksOK, MoveTasksOK, Attached
<1>6. Calm'
  BY <1>1, <1>2, <1>3, CalmKept DEF IInv, OnItsWay
<1>7. OthersKept(queue, queue', c) /\ DrainsOn
  BY <1>1 DEF OthersKept, MovesKept, DrainsOn
<1> QED
  BY <1>0, <1>1, <1>2, <1>3, <1>4, <1>5, <1>6, <1>7, OneStep DEF Way

\* The app gives a connection away: nothing of it is left in the queue of the app.
LEMMA CleanStep ==
    ASSUME IInv, NEW c \in Connections, Clean(c)
    PROVE  IInv'
<1>0. /\ TypeOK /\ queue \in Queues /\ Ordered(queue) /\ App \in Loops /\ ConnectionOK(c)
      /\ conn \in [Connections -> ConnectionType]
  BY TypeParts DEF IInv, Loops
<1>1. /\ UNCHANGED <<mode, app, engine>>
      /\ queue' = Taken(App) /\ Drained(App) /\ Task("clean", App, c)
      /\ conn[c].at = "app"
      /\ conn' = [conn EXCEPT ![c].at = "moving", ![c].stream = "cleaning"]
  BY DEF Clean
<1>2. /\ queue' \in Queues /\ Ordered(queue') /\ OthersKept(queue, queue', c)
      /\ draining' \in [Loops -> BOOLEAN] /\ DrainsOn
      /\ In(queue, App, TaskFor("clean", c))
      /\ \A k \in Loops : \A u : In(queue', k, u) => In(queue, k, u)
      /\ \A u : In(queue', App, u) => Behind(queue, App, u, TaskFor("clean", c))
      /\ ~In(queue', App, TaskFor("clean", c))
  BY <1>0, <1>1, RunsTask DEF MoveTasks
<1>3. conn[c].hop = "waited" /\ conn[c].stream = "open" /\ ~conn[c].eof /\ mode.own /\ ~conn[c].pshut
  BY <1>0, <1>1, <1>2 DEF IInv, TasksOK, MoveTasksOK, ConnectionOK, Way, Attached
<1>4. LET r == conn[c]
          s == conn'[c] IN
      /\ conn' \in [Connections -> ConnectionType]
      /\ \A x \in Connections : x # c => conn'[x] = conn[x]
      /\ s.at = "moving" /\ s.to = r.to /\ s.hop = r.hop /\ s.first = r.first /\ s.rest = r.rest
      /\ s.shut = r.shut /\ s.pshut = r.pshut /\ s.eof = r.eof /\ s.stream = "cleaning"
  <2> DEFINE r == [conn[c] EXCEPT !.at = "moving"]
  <2>1. conn' = [conn EXCEPT ![c] = [r EXCEPT !.stream = "cleaning"]]
    BY <1>1
  <2>2. conn[c] \in ConnectionType
    BY <1>0
  <2>3. /\ r \in ConnectionType /\ r.at = "moving"
        /\ r.to = conn[c].to /\ r.hop = conn[c].hop /\ r.first = conn[c].first /\ r.rest = conn[c].rest
        /\ r.shut = conn[c].shut /\ r.pshut = conn[c].pshut /\ r.eof = conn[c].eof
    BY <2>2 DEF ConnectionType
  <2> HIDE DEF r
  <2>4. LET s == [r EXCEPT !.stream = "cleaning"] IN
        /\ s \in ConnectionType /\ s.stream = "cleaning"
        /\ s.at = r.at /\ s.to = r.to /\ s.hop = r.hop /\ s.first = r.first /\ s.rest = r.rest
        /\ s.shut = r.shut /\ s.pshut = r.pshut /\ s.eof = r.eof
    BY <2>3 DEF ConnectionType
  <2> QED
    BY <1>0, <2>1, <2>3, <2>4
<1>5. ConnectionOK(c)'
  BY <1>0, <1>1, <1>3, <1>4 DEF ConnectionOK, Attached, Way
<1>6. \A l \in Loops : MoveTasksOK(l, c)'
  <2>1. ~In(queue', App, TaskFor("cleaned", c))
    BY <1>0, <1>2 DEF Ordered
  <2>2. AttachedLoop(c) = App
    BY <1>1 DEF AttachedLoop
  <2> QED
    BY <1>1, <1>2, <1>3, <2>1, <2>2 DEF IInv, TasksOK, MoveTasksOK
<1>7. Calm'
  BY <1>1, <1>3, <1>4, CalmKept DEF IInv, OnItsWay
<1> QED
  BY <1>0, <1>1, <1>2, <1>3, <1>4, <1>5, <1>6, <1>7, OneStep DEF Way

-----------------------------------------------------------------------------
(* Steps of several connections, K, or engines, G. *)

\* From q to p nothing changes but for the tasks of K and of G.
TasksKept(q, p, K, G) ==
    /\ \A l \in Loops :
          /\ \A f \in GraphTasks : \A e \in Engines \ G :
               In(p, l, TaskFor(f, e)) <=> In(q, l, TaskFor(f, e))
          /\ \A f \in MoveTasks : \A x \in Connections \ K :
               In(p, l, TaskFor(f, x)) => In(q, l, TaskFor(f, x))
    /\ \A x \in Connections \ K : \A e \in Engines :
          /\ conn[x].at = "engine" /\ conn[x].to = e
          /\ AllBehind(q, e, TaskFor("cleaned", x), TaskFor("in_msgs", e))
          => AllBehind(p, e, TaskFor("cleaned", x), TaskFor("in_msgs", e))

\* A connection that is left alone still finds its engine.
StillServed(x) ==
    LET e == conn[x].to IN
    /\ conn[x].at \in {"engine", "remote"} => engine'[e].st = "up"
    /\ conn[x].hop = "waited" => engine'[e].waits = x
    /\ conn[x].at = "engine" =>
          /\ \E i \in 1 .. Len(engine'[e].inMsgs) : engine'[e].inMsgs[i].from = x
          /\ In(queue', LoopOf(e), TaskFor("in_msgs", e))

\* An engine that is left alone keeps what is on its way.
StillAwaited(x, e) ==
    /\ conn'[x].at = "remote" /\ conn'[x].to = e => conn[x].at = "remote" /\ conn[x].to = e
    /\ OnTheWay(x, e) =>
          /\ OnTheWay(x, e)' /\ conn'[x].first = conn[x].first
          /\ conn[x].hop \in Way => conn'[x].hop \in Way
          /\ conn[x].at = "engine" => conn'[x].at = "engine"
    /\ conn[x].hop = "waited" /\ conn[x].to = e => conn'[x].hop = "waited"

LEMMA MessageSenders ==
    ASSUME NEW g \in EngineType
    PROVE  /\ g.waits \in Connections \cup {None}
           /\ \A i \in 1 .. Len(g.inMsgs) :
                /\ g.inMsgs[i] \in Messages
                /\ g.inMsgs[i].from \in Connections \cup {None}
<1>1. g.inMsgs \in Seq(Messages) /\ g.waits \in Connections \cup {None}
  BY DEF EngineType
<1>2. \A i \in 1 .. Len(g.inMsgs) : g.inMsgs[i] \in Messages
  BY <1>1
<1> QED
  BY <1>1, <1>2 DEF Messages

LEMMA Others ==
    ASSUME IInv, NEW K \in SUBSET Connections, NEW G \in SUBSET Engines, mode' = mode,
           queue' \in Queues, DrainsOn, TasksKept(queue, queue', K, G),
           \A x \in Connections \ K : conn'[x] = conn[x],
           \A e \in Engines \ G : engine'[e] = engine[e],
           \A x \in Connections \ K : conn[x].to \in G => StillServed(x),
           \A x \in K : \A e \in Engines \ G : StillAwaited(x, e)
    PROVE  /\ \A x \in Connections \ K : ConnectionOK(x)'
           /\ \A e \in Engines \ G : EngineOK(e)'
           /\ \A l \in Loops : /\ \A x \in Connections \ K : MoveTasksOK(l, x)'
                               /\ \A e \in Engines \ G : GraphTasksOK(l, e)'
<1>0. /\ \A e \in Engines : EngineOK(e) /\ engine[e] \in EngineType
      /\ \A x \in Connections : ConnectionOK(x)
      /\ \A l \in Loops : /\ \A x \in Connections : MoveTasksOK(l, x)
                          /\ \A e \in Engines : GraphTasksOK(l, e)
      /\ \A e \in Engines : LoopOf(e) \in Loops
      /\ "in_msgs" \in GraphTasks /\ "close_engine" \in GraphTasks
  BY TypeParts DEF IInv, TasksOK, LoopOf, Loops, GraphTasks
<1>1. ASSUME NEW x \in Connections \ K PROVE ConnectionOK(x)'
  <2> DEFINE e == conn[x].to
  <2>1. StillServed(x)
    <3>1. CASE e \in G
      BY <3>1
    <3>2. CASE e \in Engines \ G
      BY <1>0, <3>2 DEF ConnectionOK, StillServed, TasksKept
    <3>3. CASE e \notin Engines
      BY <1>0, <3>3 DEF ConnectionOK, StillServed, Way
    <3> QED
      BY <3>1, <3>2, <3>3
  <2>2. ASSUME conn[x].at = "engine"
        PROVE  /\ draining[LoopOf(e)] => draining'[LoopOf(e)]
               /\ mode.own /\ AllBehind(queue, e, TaskFor("cleaned", x), TaskFor("in_msgs", e)) =>
                    AllBehind(queue', e, TaskFor("cleaned", x), TaskFor("in_msgs", e))
    <3>1. e \in Engines /\ LoopOf(e) \in Loops /\ In(queue', LoopOf(e), TaskFor("in_msgs", e))
      BY <1>0, <2>1, <2>2 DEF ConnectionOK, StillServed
    <3>2. queue'[LoopOf(e)] # <<>>
      BY <3>1, NotEmpty DEF Queues
    <3> QED
      BY <2>2, <3>1, <3>2 DEF DrainsOn, TasksKept
  <2> HIDE DEF e
  <2> QED
    BY <1>0, <2>1, <2>2, ConnectionKept DEF e, StillServed
<1>2. ASSUME NEW e \in Engines \ G PROVE EngineOK(e)'
  <2>0. \A x \in Connections : StillAwaited(x, e)
    <3>1. \A x \in Connections \ K : StillAwaited(x, e)
      BY DEF StillAwaited, OnTheWay
    <3> QED
      BY <3>1
  <2>1. RemotesOf(e, conn') \subseteq RemotesOf(e, conn)
    BY <2>0 DEF RemotesOf, StillAwaited
  <2>2. /\ engine[e].waits \in Connections \cup {None}
        /\ \A i \in 1 .. Len(engine[e].inMsgs) : engine[e].inMsgs[i].from \in Connections \cup {None}
    BY <1>0, MessageSenders
  <2>3. LoopOf(e)' = LoopOf(e)
    BY DEF LoopOf
  <2>4. Pending(e)' <=> Pending(e)
    BY <1>0, <2>3 DEF Pending, TasksKept
  <2>5. In(queue', LoopOf(e), TaskFor("in_msgs", e)) => In(queue, LoopOf(e), TaskFor("in_msgs", e))
    BY <1>0 DEF TasksKept
  <2> QED
    BY <1>0, <2>0, <2>1, <2>2, <2>4, <2>5, EngineKept DEF StillAwaited
<1>3. ASSUME NEW l \in Loops, NEW x \in Connections \ K PROVE MoveTasksOK(l, x)'
  BY <1>0, MoveTasksKept DEF TasksKept
<1>4. ASSUME NEW l \in Loops, NEW e \in Engines \ G PROVE GraphTasksOK(l, e)'
  BY <1>0, GraphTasksKept DEF TasksKept
<1> QED
  BY <1>1, <1>2, <1>3, <1>4

\* A step is right if it is right for what it changes.
LEMMA StepOf ==
    ASSUME IInv, NEW K \in SUBSET Connections, NEW G \in SUBSET Engines, mode' = mode,
           queue' \in Queues, Ordered(queue'), TasksKept(queue, queue', K, G),
           draining' \in [Loops -> BOOLEAN], DrainsOn,
           app' \in AppType, AppOK',
           \A l \in Loops : In(queue', l, TaskFor("close_app", App)) =>
             l = App /\ ToClose(app'),
           engine' \in [Engines -> EngineType], conn' \in [Connections -> ConnectionType],
           \A x \in Connections \ K : conn'[x] = conn[x],
           \A e \in Engines \ G : engine'[e] = engine[e],
           \A x \in Connections \ K : conn[x].to \in G => StillServed(x),
           \A x \in K : \A e \in Engines \ G : StillAwaited(x, e),
           \A x \in K : ConnectionOK(x)' /\ \A l \in Loops : MoveTasksOK(l, x)',
           \A e \in G : EngineOK(e)' /\ \A l \in Loops : GraphTasksOK(l, e)',
           Calm'
    PROVE  IInv'
<1>1. /\ \A x \in Connections \ K : ConnectionOK(x)'
      /\ \A e \in Engines \ G : EngineOK(e)'
      /\ \A l \in Loops : /\ \A x \in Connections \ K : MoveTasksOK(l, x)'
                          /\ \A e \in Engines \ G : GraphTasksOK(l, e)'
  BY Others
<1>2. TypeOK'
  <2>1. mode \in Modes
    BY TypeParts DEF IInv
  <2> QED
    BY <2>1 DEF TypeOK, AppType, EngineType, ConnectionType, Queues
<1>3. TasksOK'
  <2>1. \A l \in Loops : /\ \A x \in Connections : MoveTasksOK(l, x)'
                         /\ \A e \in Engines : GraphTasksOK(l, e)'
    BY <1>1
  <2> QED
    BY <2>1 DEF TasksOK, Loops
<1>4. (\A x \in Connections : ConnectionOK(x)') /\ (\A e \in Engines : EngineOK(e)')
  BY <1>1
<1> QED
  BY <1>2, <1>3, <1>4 DEF IInv

\* A step of one engine that leaves the connections alone.
LEMMA StepOfEngine ==
    ASSUME IInv, NEW e \in Engines, UNCHANGED <<mode, conn>>,
           queue' \in Queues, Ordered(queue'), TasksKept(queue, queue', {}, {e}),
           draining' \in [Loops -> BOOLEAN], DrainsOn,
           app' \in AppType, AppOK',
           \A l \in Loops : In(queue', l, TaskFor("close_app", App)) =>
             l = App /\ ToClose(app'),
           engine' \in [Engines -> EngineType],
           \A d \in Engines \ {e} : engine'[d] = engine[d],
           \A x \in Connections : conn[x].to = e => StillServed(x),
           EngineOK(e)', \A l \in Loops : GraphTasksOK(l, e)',
           Calm'
    PROVE  IInv'
<1> DEFINE K == {}
           G == {e}
<1>1. K \in SUBSET Connections /\ G \in SUBSET Engines /\ TasksKept(queue, queue', K, G)
  OBVIOUS
<1>2. conn' \in [Connections -> ConnectionType] /\ \A x \in Connections : conn'[x] = conn[x]
  BY TypeParts DEF IInv
<1>3. /\ \A d \in Engines \ G : engine'[d] = engine[d]
      /\ \A x \in Connections \ K : conn[x].to \in G => StillServed(x)
      /\ \A x \in K : \A d \in Engines \ G : StillAwaited(x, d)
      /\ \A x \in K : ConnectionOK(x)' /\ \A l \in Loops : MoveTasksOK(l, x)'
      /\ \A d \in G : EngineOK(d)' /\ \A l \in Loops : GraphTasksOK(l, d)'
  OBVIOUS
<1> HIDE DEF K, G
<1> QED
  BY <1>1, <1>2, <1>3, StepOf

-----------------------------------------------------------------------------
(* The app. *)

\* ten_app_proceed_to_close calls on_deinit only when nothing is left.
LEMMA ProceedsOK ==
    ASSUME NEW a \in AppType, NEW k, NEW g
    PROVE  LET p == Proceeds(a, k, g) IN
           /\ p \in AppType /\ p.state = a.state /\ p.endpoint = a.endpoint /\ p.loop = a.loop
           /\ \/ p.deinits = a.deinits
              \/ /\ p.deinits = a.deinits + 1 /\ a.endpoint \in {"none", "closed"}
                 /\ Orphans(k) = {} /\ Listed(g) = {}
           /\ ~AppCouldClose(a, k, g) => p = a
<1>1. CASE AppCouldClose(a, k, g)
  <2>1. a.endpoint \in {"none", "closed"} /\ Orphans(k) = {} /\ Listed(g) = {}
    BY <1>1 DEF AppCouldClose
  <2>2. Proceeds(a, k, g) = [a EXCEPT !.deinits = @ + 1]
    BY <1>1 DEF Proceeds
  <2>3. LET p == [a EXCEPT !.deinits = @ + 1] IN
        /\ p \in AppType /\ p.state = a.state /\ p.endpoint = a.endpoint /\ p.loop = a.loop
        /\ p.deinits = a.deinits + 1
    BY DEF AppType
  <2> QED
    BY <1>1, <2>1, <2>2, <2>3
<1>2. CASE ~AppCouldClose(a, k, g)
  BY <1>2 DEF Proceeds
<1> QED
  BY <1>1, <1>2

\* ten_app_close: the task is posted once.
LEMMA ClosesApp ==
    ASSUME TypeOK, AppOK, NEW q \in Queues, Ordered(q), CloseRequested(q),
           \A l \in Loops : In(q, l, TaskFor("close_app", App)) =>
             l = App /\ ToClose(app)
    PROVE  /\ app' \in AppType /\ app'.endpoint = app.endpoint /\ app'.deinits = app.deinits
           /\ app'.state # "running" /\ app'.loop = app.loop
           /\ app'.state = "closed" => app.state = "closed"
           /\ app.state # "running" => app' = app
           /\ queue' \in Queues /\ Ordered(queue')
           /\ \A l \in Loops : \A u : In(queue', l, u) <=>
                \/ In(q, l, u)
                \/ app.state = "running" /\ Accepts(App) /\ l = App /\ u = TaskFor("close_app", App)
           /\ \A l \in Loops : \A u, s :
                AllBehind(q, l, u, s) /\ u # TaskFor("close_app", App) => AllBehind(queue', l, u, s)
           /\ \A l \in Loops : In(queue', l, TaskFor("close_app", App)) =>
                l = App /\ ToClose(app')
<1>0. app \in AppType
  BY TypeParts
<1>1. CASE app.state # "running"
  BY <1>0, <1>1 DEF CloseRequested
<1>2. CASE app.state = "running"
  <2>1. /\ app' = [app EXCEPT !.state = "closing"]
        /\ queue' = Post(q, App, TaskFor("close_app", App))
    BY <1>2 DEF CloseRequested
  <2>2. /\ app' \in AppType /\ app'.endpoint = app.endpoint /\ app'.deinits = app.deinits
        /\ app'.state = "closing" /\ app'.loop = app.loop /\ app.endpoint \in {"none", "open"}
    BY <1>0, <1>2, <2>1 DEF AppType, AppOK
  <2>3. App \in Loops /\ TaskFor("close_app", App) \in Tasks
    BY TaskKinds DEF Loops
  <2>4. \A l \in Loops : ~In(q, l, TaskFor("close_app", App))
    BY <1>2 DEF ToClose
  <2>5. queue' \in Queues /\ Ordered(queue')
    BY <2>1, <2>3, <2>4, Posts, OrderPosted
  <2>6. /\ \A l \in Loops : \A u : In(queue', l, u) <=>
             In(q, l, u) \/ (Accepts(App) /\ l = App /\ u = TaskFor("close_app", App))
        /\ \A l \in Loops : \A u, s :
             AllBehind(q, l, u, s) /\ u # TaskFor("close_app", App) => AllBehind(queue', l, u, s)
    BY <2>1, <2>3, Posts
  <2>7. ToClose(app')
    BY <2>2 DEF ToClose
  <2> QED
    BY <1>2, <2>2, <2>4, <2>5, <2>6, <2>7
<1> QED
  BY <1>1, <1>2

LEMMA FirstClosesAppStep ==
    ASSUME IInv, ~Races, NEW c \in Connections, FirstClosesApp(c)
    PROVE  IInv'
<1> DEFINE q == Post(queue, App, TaskFor("cleaned", c))
<1>0. /\ TypeOK /\ AppOK /\ queue \in Queues /\ Ordered(queue) /\ App \in Loops /\ ConnectionOK(c)
      /\ TaskFor("cleaned", c) \in Tasks /\ "cleaned" \in MoveTasks
      /\ conn \in [Connections -> ConnectionType] /\ draining \in [Loops -> BOOLEAN]
  BY TypeParts, TaskKinds DEF IInv, Loops, MoveTasks
<1>1. /\ UNCHANGED <<mode, engine, draining>>
      /\ CloseRequested(q)
      /\ conn[c].at = "app" /\ conn[c].hop \in {"no", "reset"} /\ conn[c].stream = "open" /\ ~conn[c].eof
      /\ conn' = [conn EXCEPT ![c].hop = "done"]
      /\ \A x \in Connections : ~OnItsWay(x)
  BY DEF FirstClosesApp, ReadsFirst, MayEndApp
<1>2. LET r == conn[c]
          s == conn'[c] IN
      /\ conn' \in [Connections -> ConnectionType]
      /\ \A x \in Connections : x # c => conn'[x] = conn[x]
      /\ s.at = r.at /\ s.to = r.to /\ s.hop = "done" /\ s.first = r.first /\ s.rest = r.rest
      /\ s.shut = r.shut /\ s.pshut = r.pshut /\ s.eof = r.eof /\ s.stream = r.stream
  BY <1>0, <1>1 DEF ConnectionType
<1>3. /\ q \in Queues /\ OthersKept(queue, q, c)
      /\ \A k \in Loops : \A u :
            In(q, k, u) => In(queue, k, u) \/ (k = App /\ u = TaskFor("cleaned", c))
  BY <1>0, Posts, PostOthers
<1>4. \A k \in Loops : ~In(queue, k, TaskFor("clean", c)) /\ ~In(queue, k, TaskFor("accepted", c))
  BY <1>1 DEF IInv, TasksOK, MoveTasksOK
<1>5. Ordered(q)
  BY <1>0, <1>4, OrderPosted
<1> HIDE DEF q
<1>6. \A l \in Loops : In(q, l, TaskFor("close_app", App)) =>
             l = App /\ ToClose(app)
  BY <1>3 DEF OthersKept, IInv, TasksOK
<1>7. /\ app' \in AppType /\ app'.endpoint = app.endpoint /\ app'.deinits = app.deinits
      /\ app'.state # "running" /\ app'.loop = app.loop
      /\ app'.state = "closed" => app.state = "closed"
      /\ queue' \in Queues /\ Ordered(queue')
      /\ \A l \in Loops : \A u : u # TaskFor("close_app", App) => (In(queue', l, u) <=> In(q, l, u))
      /\ \A l \in Loops : \A u, s :
           AllBehind(q, l, u, s) /\ u # TaskFor("close_app", App) => AllBehind(queue', l, u, s)
      /\ \A l \in Loops : In(queue', l, TaskFor("close_app", App)) =>
           l = App /\ ToClose(app')
  BY <1>0, <1>1, <1>3, <1>5, <1>6, ClosesApp
<1>8. MovesKept(queue, queue', c)
  <2>1. \A f \in MoveTasks \cup GraphTasks : \A x : TaskFor(f, x) # TaskFor("close_app", App)
    BY SameTask DEF MoveTasks, GraphTasks
  <2> QED
    BY <1>0, <1>3, <1>7, <2>1 DEF OthersKept, MovesKept, Loops
<1>9. AppOK'
  <2>1. Orphans(conn') = Orphans(conn) /\ Listed(engine') = Listed(engine)
    BY <1>1, <1>2 DEF Orphans, Listed
  <2> QED
    BY <1>0, <1>1, <1>7, <2>1 DEF AppOK
<1>10. \A l \in Loops : MoveTasksOK(l, c)'
  <2>1. AttachedLoop(c) = App /\ AttachedLoop(c)' = App
    BY <1>1, <1>2 DEF AttachedLoop
  <2>2. \A l \in Loops : \A f \in MoveTasks : In(queue', l, TaskFor(f, c)) =>
          In(queue, l, TaskFor(f, c)) \/ (f = "cleaned" /\ l = App)
    BY <1>3, <1>7, SameTask DEF MoveTasks
  <2> QED
    BY <1>1, <1>2, <1>4, <2>1, <2>2 DEF IInv, TasksOK, MoveTasksOK, Attached, MoveTasks
<1>11. ConnectionOK(c)'
  BY <1>0, <1>1, <1>2 DEF ConnectionOK, Attached, Way
<1>12. Calm'
  <2>1. \A x \in Connections : ~OnItsWay(x)'
    BY <1>1, <1>2 DEF OnItsWay
  <2> QED
    BY <2>1 DEF Calm
<1> QED
  BY <1>0, <1>1, <1>2, <1>7, <1>8, <1>9, <1>10, <1>11, <1>12, OneStepOfApp DEF DrainsOn, Way

\* Nothing but the app and tasks of its own change.
LEMMA AppStep ==
    ASSUME IInv, UNCHANGED <<mode, engine, conn, draining>>, app' \in AppType, AppOK',
           queue' \in Queues, Ordered(queue'),
           \A l \in Loops : \A u : u # TaskFor("close_app", App) => (In(queue', l, u) <=> In(queue, l, u)),
           \A l \in Loops : \A u, s :
             AllBehind(queue, l, u, s) /\ u # TaskFor("close_app", App) => AllBehind(queue', l, u, s),
           \A l \in Loops : In(queue', l, TaskFor("close_app", App)) =>
             l = App /\ ToClose(app'),
           Calm'
    PROVE  IInv'
<1>1. \A f \in MoveTasks \cup GraphTasks : \A x : TaskFor(f, x) # TaskFor("close_app", App)
  BY SameTask DEF MoveTasks, GraphTasks
<1>2. TasksKept(queue, queue', {}, {})
  BY <1>1 DEF TasksKept, MoveTasks, Loops
<1>3. /\ engine' \in [Engines -> EngineType] /\ conn' \in [Connections -> ConnectionType]
      /\ draining' \in [Loops -> BOOLEAN] /\ DrainsOn
  BY TypeParts DEF IInv, DrainsOn
<1> QED
  BY <1>2, <1>3, StepOf

LEMMA CloseAppStep ==
    ASSUME IInv, ~Races, CloseApp
    PROVE  IInv'
<1>0. TypeOK /\ AppOK /\ queue \in Queues /\ Ordered(queue)
  BY TypeParts DEF IInv
<1>1. /\ UNCHANGED <<mode, engine, conn, draining>> /\ CloseRequested(queue)
      /\ \A x \in Connections : ~OnItsWay(x)
  BY DEF CloseApp, MayEndApp
<1>2. \A l \in Loops : In(queue, l, TaskFor("close_app", App)) =>
             l = App /\ ToClose(app)
  BY DEF IInv, TasksOK
<1>3. /\ app' \in AppType /\ app'.endpoint = app.endpoint /\ app'.deinits = app.deinits
      /\ app'.state # "running" /\ app'.loop = app.loop
      /\ app'.state = "closed" => app.state = "closed"
      /\ queue' \in Queues /\ Ordered(queue')
      /\ \A l \in Loops : \A u : u # TaskFor("close_app", App) => (In(queue', l, u) <=> In(queue, l, u))
      /\ \A l \in Loops : \A u, s :
           AllBehind(queue, l, u, s) /\ u # TaskFor("close_app", App) => AllBehind(queue', l, u, s)
      /\ \A l \in Loops : In(queue', l, TaskFor("close_app", App)) =>
           l = App /\ ToClose(app')
  BY <1>0, <1>1, <1>2, ClosesApp
<1>4. AppOK'
  BY <1>0, <1>1, <1>3 DEF AppOK
<1>5. Calm'
  BY <1>1 DEF Calm, OnItsWay
<1> QED
  BY <1>1, <1>3, <1>4, <1>5, AppStep

\* The stream of an orphan has ended: the app forgets the connection.
LEMMA SetGone ==
    ASSUME NEW r \in ConnectionType
    PROVE  LET s == [[[r EXCEPT !.at = "gone"] EXCEPT !.stream = "closed"] EXCEPT !.shut = TRUE] IN
           /\ s \in ConnectionType /\ s.at = "gone" /\ s.stream = "closed"
           /\ s.to = r.to /\ s.hop = r.hop /\ s.first = r.first /\ s.rest = r.rest
           /\ s.pshut = r.pshut /\ s.eof = r.eof
<1> DEFINE a == [r EXCEPT !.at = "gone"]
           b == [a EXCEPT !.stream = "closed"]
<1>1. /\ a \in ConnectionType /\ a.at = "gone"
      /\ a.to = r.to /\ a.hop = r.hop /\ a.first = r.first /\ a.rest = r.rest
      /\ a.pshut = r.pshut /\ a.eof = r.eof
  BY SetAt
<1> HIDE DEF a
<1>2. /\ b \in ConnectionType /\ b.at = "gone" /\ b.stream = "closed"
      /\ b.to = r.to /\ b.hop = r.hop /\ b.first = r.first /\ b.rest = r.rest
      /\ b.pshut = r.pshut /\ b.eof = r.eof
  BY <1>1 DEF ConnectionType
<1> HIDE DEF b
<1>3. LET s == [b EXCEPT !.shut = TRUE] IN
      /\ s \in ConnectionType /\ s.at = "gone" /\ s.stream = "closed"
      /\ s.to = r.to /\ s.hop = r.hop /\ s.first = r.first /\ s.rest = r.rest
      /\ s.pshut = r.pshut /\ s.eof = r.eof
  BY <1>2 DEF ConnectionType
<1> QED
  BY <1>3 DEF a, b

\* What the end of a stream leaves of a connection without task of its loop.
LEMMA GoneOK ==
    ASSUME IInv, NEW c \in Connections, conn[c].stream = "closing", conn[c].at \in Attached,
           ~draining[AttachedLoop(c)],
           conn' = [conn EXCEPT ![c].at = "gone", ![c].stream = "closed", ![c].shut = TRUE],
           mode' = mode,
           \A l \in Loops : \A f \in MoveTasks :
             In(queue', l, TaskFor(f, c)) => In(queue, l, TaskFor(f, c))
    PROVE  /\ conn' \in [Connections -> ConnectionType]
           /\ \A x \in Connections : x # c => conn'[x] = conn[x]
           /\ conn'[c].at = "gone" /\ conn'[c].to = conn[c].to /\ conn'[c].hop = conn[c].hop
           /\ conn'[c].eof = conn[c].eof /\ conn'[c].pshut = conn[c].pshut
           /\ conn'[c].first = conn[c].first
           /\ conn[c].hop \notin Way /\ conn[c].at # "engine" /\ conn[c].pshut
           /\ ConnectionOK(c)' /\ \A l \in Loops : MoveTasksOK(l, c)'
<1>0. /\ conn \in [Connections -> ConnectionType] /\ ConnectionOK(c)
      /\ \A l \in Loops : MoveTasksOK(l, c)
  BY TypeParts DEF IInv, TasksOK
<1>1. conn[c].hop \notin Way /\ conn[c].pshut
  BY <1>0 DEF ConnectionOK, Attached
<1>2. conn[c].at # "engine"
  BY <1>0 DEF ConnectionOK, AttachedLoop
<1>3. /\ conn' \in [Connections -> ConnectionType]
      /\ \A x \in Connections : x # c => conn'[x] = conn[x]
      /\ conn'[c].at = "gone" /\ conn'[c].stream = "closed"
      /\ conn'[c].to = conn[c].to /\ conn'[c].hop = conn[c].hop /\ conn'[c].first = conn[c].first
      /\ conn'[c].eof = conn[c].eof /\ conn'[c].pshut = conn[c].pshut /\ conn'[c].rest = conn[c].rest
  <2> DEFINE s == [[[conn[c] EXCEPT !.at = "gone"] EXCEPT !.stream = "closed"] EXCEPT !.shut = TRUE]
  <2>1. conn' = [conn EXCEPT ![c] = s]
    OBVIOUS
  <2>2. /\ s \in ConnectionType /\ s.at = "gone" /\ s.stream = "closed"
        /\ s.to = conn[c].to /\ s.hop = conn[c].hop /\ s.first = conn[c].first /\ s.rest = conn[c].rest
        /\ s.pshut = conn[c].pshut /\ s.eof = conn[c].eof
    BY <1>0, SetGone
  <2> HIDE DEF s
  <2> QED
    BY <1>0, <2>1, <2>2
<1>4. ConnectionOK(c)'
  BY <1>0, <1>1, <1>3 DEF ConnectionOK, Attached, Way
<1>5. \A l \in Loops : MoveTasksOK(l, c)'
  BY <1>0, <1>1, <1>3 DEF MoveTasksOK, MoveTasks, Attached, Way
<1> QED
  BY <1>1, <1>2, <1>3, <1>4, <1>5

LEMMA OrphanClosedStep ==
    ASSUME IInv, NEW c \in Connections, OrphanClosed(c)
    PROVE  IInv'
<1>0. /\ TypeOK /\ AppOK /\ queue \in Queues /\ Ordered(queue) /\ app \in AppType
      /\ draining \in [Loops -> BOOLEAN]
  BY TypeParts DEF IInv
<1>1. /\ UNCHANGED <<mode, engine, queue, draining>>
      /\ conn[c].stream = "closing" /\ conn[c].at = "app" /\ ~draining[App]
      /\ conn' = [conn EXCEPT ![c].at = "gone", ![c].stream = "closed", ![c].shut = TRUE]
      /\ app' = IF app.state = "running" THEN app ELSE Proceeds(app, conn', engine)
  BY DEF OrphanClosed, Callback
<1>2. /\ conn' \in [Connections -> ConnectionType]
      /\ \A x \in Connections : x # c => conn'[x] = conn[x]
      /\ conn'[c].at = "gone" /\ conn'[c].to = conn[c].to /\ conn'[c].hop = conn[c].hop
      /\ conn'[c].eof = conn[c].eof /\ conn'[c].pshut = conn[c].pshut
      /\ conn'[c].first = conn[c].first
      /\ conn[c].hop \notin Way /\ conn[c].at # "engine" /\ conn[c].pshut
      /\ ConnectionOK(c)' /\ \A l \in Loops : MoveTasksOK(l, c)'
  <2>1. AttachedLoop(c) = App
    BY <1>1 DEF AttachedLoop
  <2> QED
    BY <1>1, <2>1, GoneOK DEF Attached
<1>3. app.deinits = 0 /\ app.loop = "up"
  <2>1. c \in Orphans(conn)
    BY <1>1 DEF Orphans
  <2> QED
    BY <1>0, <2>1 DEF AppOK, AppType
<1>4. /\ app' \in AppType /\ app'.state = app.state /\ app'.endpoint = app.endpoint /\ app'.loop = app.loop
      /\ app'.deinits \in {0, 1}
      /\ app'.deinits > 0 => /\ app.state # "running" /\ app.endpoint \in {"none", "closed"}
                             /\ Orphans(conn') = {} /\ Listed(engine) = {}
  <2> DEFINE p == Proceeds(app, conn', engine)
  <2>1. /\ p \in AppType /\ p.state = app.state /\ p.endpoint = app.endpoint /\ p.loop = app.loop
        /\ p.deinits \in {0, 1}
        /\ p.deinits > 0 => app.endpoint \in {"none", "closed"} /\ Orphans(conn') = {} /\ Listed(engine) = {}
    BY <1>0, <1>3, ProceedsOK
  <2>2. app' = IF app.state = "running" THEN app ELSE p
    BY <1>1
  <2> HIDE DEF p
  <2>3. CASE app.state = "running"
    BY <1>0, <1>3, <2>2, <2>3
  <2>4. CASE app.state # "running"
    BY <2>1, <2>2, <2>4
  <2> QED
    BY <2>3, <2>4
<1>5. AppOK'
  <2>1. app.state # "closed"
    BY <1>0, <1>3 DEF AppOK
  <2>2. (app.deinits)' <= 1
    BY <1>4
  <2>3. Listed(engine') = Listed(engine) /\ mode' = mode
    BY <1>1
  <2> QED
    BY <1>0, <1>1, <1>3, <1>4, <2>1, <2>2, <2>3 DEF AppOK
<1>6. Calm'
  <2>1. \A x \in Connections : OnItsWay(x)' => OnItsWay(x) /\ conn'[x] = conn[x]
    BY <1>2 DEF OnItsWay, Way
  <2>2. \A e \in Engines : Doomed(e)' => Doomed(e)
    BY <1>1, <1>2 DEF Doomed
  <2> QED
    BY <1>1, <1>4, <2>1, <2>2 DEF IInv, Calm
<1>7. MovesKept(queue, queue', c) /\ DrainsOn
  BY <1>1 DEF MovesKept, DrainsOn
<1>8. \A l \in Loops : In(queue', l, TaskFor("close_app", App)) =>
             l = App /\ ToClose(app')
  BY <1>1, <1>4 DEF IInv, TasksOK, ToClose
<1> QED
  BY <1>0, <1>1, <1>2, <1>4, <1>5, <1>6, <1>7, <1>8, OneStepOfApp DEF Way

\* The endpoint has ended, on_deinit is done, the loop of the app ends.
LEMMA EndsStep ==
    ASSUME IInv, Ends
    PROVE  IInv'
<1>0. TypeOK /\ AppOK /\ Calm /\ queue \in Queues /\ Ordered(queue) /\ app \in AppType
  BY TypeParts DEF IInv
<1>1. UNCHANGED <<mode, engine, conn, queue, draining>>
  BY DEF Ends, EndpointClosed, DeinitDone, AppLoopEnds
<1>2. \A l \in Loops : In(queue, l, TaskFor("close_app", App)) =>
             l = App /\ ToClose(app)
  BY DEF IInv, TasksOK
<1>3. CASE EndpointClosed
  <2> DEFINE a == [app EXCEPT !.endpoint = "closed"]
  <2>1. app.endpoint = "closing" /\ app' = Proceeds(a, conn, engine)
    BY <1>3 DEF EndpointClosed
  <2>2. app.deinits = 0 /\ app.state # "running" /\ app.loop = "up"
    BY <1>0, <2>1 DEF AppOK, AppType
  <2>3. /\ a \in AppType /\ a.deinits = 0 /\ a.endpoint = "closed" /\ a.state = app.state
        /\ a.loop = app.loop
    BY <1>0, <2>2 DEF AppType
  <2> HIDE DEF a
  <2>4. /\ app' \in AppType /\ app'.state = app.state /\ app'.endpoint = "closed" /\ app'.loop = "up"
        /\ app'.deinits \in {0, 1}
        /\ app'.deinits > 0 => Orphans(conn) = {} /\ Listed(engine) = {}
    BY <2>1, <2>2, <2>3, ProceedsOK
  <2>5. AppOK'
    <3>1. app.state # "closed" /\ (app.deinits)' <= 1
      BY <1>0, <2>2, <2>4 DEF AppOK
    <3> QED
      BY <1>1, <2>2, <2>4, <3>1 DEF AppOK, Orphans, Listed
  <2>6. Calm'
    BY <1>0, <1>1, <2>4 DEF Calm, OnItsWay, Doomed
  <2> QED
    BY <1>0, <1>1, <1>2, <2>1, <2>4, <2>5, <2>6, AppStep DEF ToClose
<1>4. CASE DeinitDone \/ AppLoopEnds
  <2>1. /\ app' \in AppType /\ app'.endpoint = app.endpoint /\ app'.deinits = app.deinits
        /\ app.deinits > 0 /\ app.state # "running" /\ app'.state # "running"
        /\ app'.state = app.state \/ app'.state = "closed"
    <3>1. CASE DeinitDone
      <4> DEFINE a == [app EXCEPT !.state = "closed"]
      <4>1. app' = [a EXCEPT !.loop = "stopping"] /\ app.deinits > 0 /\ app.state = "closing"
        BY <3>1 DEF DeinitDone
      <4>2. a \in AppType /\ a.endpoint = app.endpoint /\ a.deinits = app.deinits /\ a.state = "closed"
        BY <1>0 DEF AppType
      <4> HIDE DEF a
      <4> QED
        BY <4>1, <4>2 DEF AppType
    <3>2. CASE AppLoopEnds
      BY <1>0, <3>2 DEF AppLoopEnds, AppType, AppOK
    <3> QED
      BY <1>4, <3>1, <3>2
  <2>2. AppOK' /\ app.endpoint \in {"none", "closed"}
    BY <1>0, <1>1, <2>1 DEF AppOK
  <2>3. Calm'
    BY <1>0, <1>1, <2>1 DEF Calm, OnItsWay, Doomed
  <2> QED
    BY <1>0, <1>1, <1>2, <2>1, <2>2, <2>3, AppStep DEF ToClose
<1> QED
  BY <1>3, <1>4 DEF Ends

-----------------------------------------------------------------------------
(* The fields of an engine, and one of them set anew. *)

LEMMA SetSt ==
    ASSUME NEW g \in EngineType, NEW v \in {"none", "up", "stopping", "stopped", "gone"}
    PROVE  LET s == [g EXCEPT !.st = v] IN
           /\ s \in EngineType /\ s.st = v
           /\ s.closing = g.closing /\ s.ctx = g.ctx /\ s.inMsgs = g.inMsgs
           /\ s.waits = g.waits /\ s.stops = g.stops
BY DEF EngineType

LEMMA SetCtx ==
    ASSUME NEW g \in EngineType, NEW v \in {"none", "up", "closing", "ended"}
    PROVE  LET s == [g EXCEPT !.ctx = v] IN
           /\ s \in EngineType /\ s.ctx = v
           /\ s.closing = g.closing /\ s.st = g.st /\ s.inMsgs = g.inMsgs
           /\ s.waits = g.waits /\ s.stops = g.stops
BY DEF EngineType

LEMMA SetClosing ==
    ASSUME NEW g \in EngineType
    PROVE  LET s == [g EXCEPT !.closing = TRUE] IN
           /\ s \in EngineType /\ s.closing
           /\ s.ctx = g.ctx /\ s.st = g.st /\ s.inMsgs = g.inMsgs
           /\ s.waits = g.waits /\ s.stops = g.stops
BY DEF EngineType

LEMMA SetInMsgs ==
    ASSUME NEW g \in EngineType, NEW m \in Seq(Messages)
    PROVE  LET s == [g EXCEPT !.inMsgs = m] IN
           /\ s \in EngineType /\ s.inMsgs = m
           /\ s.ctx = g.ctx /\ s.st = g.st /\ s.closing = g.closing
           /\ s.waits = g.waits /\ s.stops = g.stops
BY DEF EngineType

LEMMA SetWaits ==
    ASSUME NEW g \in EngineType, NEW c \in Connections \cup {None}
    PROVE  LET s == [g EXCEPT !.waits = c] IN
           /\ s \in EngineType /\ s.waits = c
           /\ s.ctx = g.ctx /\ s.st = g.st /\ s.closing = g.closing
           /\ s.inMsgs = g.inMsgs /\ s.stops = g.stops
BY DEF EngineType

LEMMA SetStops ==
    ASSUME NEW g \in EngineType
    PROVE  LET s == [g EXCEPT !.stops = 1] IN
           /\ s \in EngineType /\ s.stops = 1
           /\ s.ctx = g.ctx /\ s.st = g.st /\ s.closing = g.closing
           /\ s.inMsgs = g.inMsgs /\ s.waits = g.waits
BY DEF EngineType

\* A message is put behind those that wait: a start_graph is still handled.
Extends(more, msgs, m) == more = Append(msgs, m)

LEMMA MessageAppended ==
    ASSUME NEW msgs \in Seq(Messages), NEW m \in Messages, NEW more, Extends(more, msgs, m)
    PROVE  /\ more \in Seq(Messages)
           /\ \A i \in 1 .. Len(msgs) : i \in 1 .. Len(more) /\ more[i] = msgs[i]
           /\ \E i \in 1 .. Len(more) : more[i] = m
           /\ \A i \in 1 .. Len(more) : more[i] = m \/ (i \in 1 .. Len(msgs) /\ more[i] = msgs[i])
           /\ HasStart(msgs) => HasStart(more)
           /\ m.kind = "start" /\ (\A i \in 1 .. Len(msgs) : msgs[i].kind # "stop") => HasStart(more)
<1> DEFINE n == Len(msgs)
<1>1. /\ more \in Seq(Messages) /\ n \in Nat /\ Len(more) = n + 1
      /\ more[n + 1] = m /\ \A i \in 1 .. n : more[i] = msgs[i]
  BY DEF Extends
<1> HIDE DEF n
<1>2. /\ \A i \in 1 .. n : i \in 1 .. Len(more) /\ more[i] = msgs[i]
      /\ \E i \in 1 .. Len(more) : more[i] = m
      /\ \A i \in 1 .. Len(more) : more[i] = m \/ (i \in 1 .. n /\ more[i] = msgs[i])
  <2>1. n + 1 \in 1 .. Len(more)
    BY <1>1
  <2>2. \A i \in 1 .. Len(more) : i \in 1 .. n \/ i = n + 1
    BY <1>1
  <2>3. \A i \in 1 .. n : i \in 1 .. Len(more)
    BY <1>1
  <2> QED
    BY <1>1, <2>1, <2>2, <2>3
<1>3. ASSUME HasStart(msgs) PROVE HasStart(more)
  <2>1. PICK i \in 1 .. n : msgs[i].kind = "start" /\ \A j \in 1 .. (i - 1) : msgs[j].kind # "stop"
    BY <1>3 DEF HasStart, n
  <2>2. \A j \in 1 .. (i - 1) : j \in 1 .. n
    BY <1>1
  <2> QED
    BY <1>2, <1>1, <2>1, <2>2 DEF HasStart
<1>4. ASSUME m.kind = "start", \A i \in 1 .. n : msgs[i].kind # "stop" PROVE HasStart(more)
  <2>1. n + 1 \in 1 .. Len(more) /\ \A j \in 1 .. ((n + 1) - 1) : j \in 1 .. n
    BY <1>1
  <2> QED
    BY <1>1, <1>4, <2>1 DEF HasStart
<1> QED
  BY <1>1, <1>2, <1>3, <1>4 DEF n

LEMMA StartAlone ==
    ASSUME NEW x
    PROVE  LET m == [from |-> x, kind |-> "start"] IN
           /\ HasStart(<<m>>)
           /\ \A i \in 1 .. Len(<<m>>) : <<m>>[i] = m
           /\ m \in Messages => <<m>> \in Seq(Messages)
<1> DEFINE m == [from |-> x, kind |-> "start"]
           s == <<m>>
<1>1. Len(s) = 1 /\ s[1] = m
  BY ShortSequences
<1>2. m.kind = "start"
  OBVIOUS
<1>3. m \in Messages => s \in Seq(Messages)
  OBVIOUS
<1> HIDE DEF m, s
<1>4. HasStart(s)
  BY <1>1, <1>2 DEF HasStart
<1>5. \A i \in 1 .. Len(s) : s[i] = m
  BY <1>1
<1> QED
  BY <1>3, <1>4, <1>5 DEF s, m

\* Nobody is at an engine that was not started.
LEMMA NotStarted ==
    ASSUME IInv, NEW e \in Engines, engine[e].st = "none"
    PROVE  /\ ~engine[e].closing /\ engine[e].ctx = "none" /\ engine[e].inMsgs = <<>> /\ engine[e].stops = 0
           /\ \A x \in Connections : conn[x].to = e =>
                conn[x].at \notin {"engine", "remote"} /\ conn[x].hop \notin Way /\ ~OnTheWay(x, e)
           /\ \A l \in Loops : \A f \in GraphTasks : ~In(queue, l, TaskFor(f, e))
           /\ ~Doomed(e)
<1>1. EngineOK(e) /\ (\A x \in Connections : ConnectionOK(x)) /\ \A l \in Loops : GraphTasksOK(l, e)
  BY DEF IInv, TasksOK
<1>2. ~engine[e].closing /\ engine[e].ctx = "none" /\ engine[e].inMsgs = <<>> /\ engine[e].stops = 0
  BY <1>1 DEF EngineOK
<1>3. \A x \in Connections : conn[x].to = e => conn[x].at \notin {"engine", "remote"} /\ conn[x].hop \notin Way
  <2> SUFFICES ASSUME NEW x \in Connections, conn[x].to = e
               PROVE  conn[x].at \notin {"engine", "remote"} /\ conn[x].hop \notin Way
    OBVIOUS
  <2>1. conn[x].at \notin {"engine", "remote"}
    BY <1>1 DEF ConnectionOK
  <2>2. conn[x].hop \in Way => OnItsWay(x) /\ conn[x].to \in Engines
    BY DEF OnItsWay, Way
  <2>3. conn[x].hop \notin Way
    BY <2>2 DEF IInv, Calm
  <2> QED
    BY <2>1, <2>3
<1>4. ~Doomed(e)
  BY <1>2, <1>3 DEF Doomed
<1>5. \A l \in Loops : \A f \in GraphTasks : ~In(queue, l, TaskFor(f, e))
  BY <1>1 DEF GraphTasksOK, GraphTasks
<1> QED
  BY <1>2, <1>3, <1>4, <1>5 DEF OnTheWay

-----------------------------------------------------------------------------
(* Steps that start an engine or send it a message. *)

\* The tasks of other engines and of all connections stay when one of e is added.
LEMMA GraphTaskAdded ==
    ASSUME NEW q \in Queues, NEW e \in Engines, NEW f \in GraphTasks, NEW l \in Loops, NEW p,
           \A k \in Loops : \A u : In(p, k, u) => In(q, k, u) \/ (k = l /\ u = TaskFor(f, e)),
           \A k \in Loops : \A u : In(q, k, u) => In(p, k, u),
           \A k \in Loops : \A u, s :
             AllBehind(q, k, u, s) /\ u # TaskFor(f, e) => AllBehind(p, k, u, s)
    PROVE  /\ \A K \in SUBSET Connections : TasksKept(q, p, K, {e})
           /\ \A k \in Loops : In(p, k, TaskFor("close_app", App)) => In(q, k, TaskFor("close_app", App))
           /\ \A k \in Loops : \A g \in GraphTasks :
                In(p, k, TaskFor(g, e)) => In(q, k, TaskFor(g, e)) \/ (k = l /\ g = f)
<1>1. f # "close_app" /\ f # "cleaned" /\ \A g \in MoveTasks : g # f
  BY DEF GraphTasks, MoveTasks
<1>2. ASSUME NEW K \in SUBSET Connections PROVE TasksKept(q, p, K, {e})
  BY <1>1, SameTask DEF TasksKept, Loops
<1> QED
  BY <1>1, <1>2, SameTask

LEMMA StartPredefinedStep ==
    ASSUME IInv, ~Races, NEW e \in Engines, StartPredefined(e)
    PROVE  IInv'
<1> DEFINE m == [from |-> None, kind |-> "start"]
           l == LoopOf(e)
           t == TaskFor("in_msgs", e)
<1>0. /\ TypeOK /\ AppOK /\ Calm /\ queue \in Queues /\ Ordered(queue) /\ app \in AppType
      /\ engine \in [Engines -> EngineType] /\ conn \in [Connections -> ConnectionType]
      /\ draining \in [Loops -> BOOLEAN] /\ EngineOK(e)
      /\ l \in Loops /\ t \in Tasks /\ m \in Messages /\ "in_msgs" \in GraphTasks
  BY TypeParts, TaskKinds DEF IInv, LoopOf, Loops, GraphTasks, Messages
<1>1. /\ UNCHANGED <<mode, app, conn, draining>>
      /\ app.state = "running" /\ engine[e].st = "none" /\ MayReach(e)
      /\ engine' = [engine EXCEPT ![e].st = "up", ![e].inMsgs = <<m>>]
      /\ queue' = [queue EXCEPT ![l] = Append(@, t)]
  BY DEF StartPredefined
<1>2. /\ ~engine[e].closing /\ engine[e].ctx = "none" /\ engine[e].stops = 0
      /\ \A x \in Connections : conn[x].to = e =>
           conn[x].at \notin {"engine", "remote"} /\ conn[x].hop \notin Way /\ ~OnTheWay(x, e)
      /\ \A k \in Loops : \A f \in GraphTasks : ~In(queue, k, TaskFor(f, e))
  BY <1>1, NotStarted
<1>3. /\ HasStart(<<m>>) /\ <<m>> \in Seq(Messages)
      /\ \A i \in 1 .. Len(<<m>>) : <<m>>[i] = m
  BY <1>0, StartAlone
<1>4. /\ engine' \in [Engines -> EngineType]
      /\ \A d \in Engines \ {e} : engine'[d] = engine[d]
      /\ engine'[e].st = "up" /\ engine'[e].inMsgs = <<m>> /\ engine'[e].closing = engine[e].closing
      /\ engine'[e].ctx = engine[e].ctx /\ engine'[e].waits = engine[e].waits
      /\ engine'[e].stops = engine[e].stops
  <2> DEFINE g == [engine[e] EXCEPT !.st = "up"]
             h == [g EXCEPT !.inMsgs = <<m>>]
  <2>1. engine' = [engine EXCEPT ![e] = h]
    BY <1>1
  <2>2. /\ g \in EngineType /\ g.st = "up"
        /\ g.closing = engine[e].closing /\ g.ctx = engine[e].ctx
        /\ g.waits = engine[e].waits /\ g.stops = engine[e].stops
    BY <1>0, SetSt
  <2> HIDE DEF g
  <2>3. /\ h \in EngineType /\ h.inMsgs = <<m>>
        /\ h.ctx = g.ctx /\ h.st = g.st /\ h.closing = g.closing
        /\ h.waits = g.waits /\ h.stops = g.stops
    BY <1>3, <2>2, SetInMsgs
  <2> HIDE DEF h, m
  <2> QED
    BY <1>0, <2>1, <2>2, <2>3
<1>5. /\ queue' \in Queues
      /\ \A k \in Loops : \A u : In(queue', k, u) <=> In(queue, k, u) \/ (k = l /\ u = t)
      /\ \A k \in Loops : \A u, s :
           Behind(queue', k, u, s) => Behind(queue, k, u, s) \/ (k = l /\ u = t /\ In(queue, k, s))
      /\ \A k \in Loops : \A u, s : AllBehind(queue, k, u, s) /\ u # t => AllBehind(queue', k, u, s)
  <2> HIDE DEF l, t, m
  <2>1. LET p == [queue EXCEPT ![l] = Append(@, t)] IN
        /\ p \in Queues
        /\ \A k \in Loops : \A u : In(p, k, u) <=> In(queue, k, u) \/ (k = l /\ u = t)
        /\ \A k \in Loops : \A u, s :
             Behind(p, k, u, s) <=> Behind(queue, k, u, s) \/ (k = l /\ u = t /\ In(queue, k, s))
        /\ \A k \in Loops : \A u, s :
             AllBehind(queue, k, u, s) /\ (k = l /\ u = t => In(queue, k, s)) => AllBehind(p, k, u, s)
    BY <1>0, Appends
  <2> QED
    BY <1>1, <2>1
<1>6. Ordered(queue')
  <2>1. ~In(queue, l, TaskFor("close_engine", e))
    BY <1>0, <1>2 DEF GraphTasks
  <2> QED
    BY <1>0, <1>5, <2>1, OrderAdded
<1>7. /\ TasksKept(queue, queue', {}, {e})
      /\ \A k \in Loops : In(queue', k, TaskFor("close_app", App)) => In(queue, k, TaskFor("close_app", App))
      /\ \A k \in Loops : \A g \in GraphTasks :
           In(queue', k, TaskFor(g, e)) => In(queue, k, TaskFor(g, e)) \/ (k = l /\ g = "in_msgs")
  BY <1>0, <1>5, GraphTaskAdded
<1>8. LoopOf(e)' = l
  BY <1>1 DEF LoopOf
<1> HIDE DEF l, t
<1>9. \A k \in Loops : GraphTasksOK(k, e)'
  BY <1>2, <1>4, <1>7, <1>8 DEF GraphTasksOK, GraphTasks
<1>10. EngineOK(e)'
  <2>1. RemotesOf(e, conn') = {}
    BY <1>1, <1>2 DEF RemotesOf
  <2>2. \A i \in 1 .. Len(engine'[e].inMsgs) :
          engine'[e].inMsgs[i].from = None /\ engine'[e].inMsgs[i].kind = "start"
    BY <1>3, <1>4
  <2> HIDE DEF m
  <2>3. engine'[e].waits # None => conn'[engine'[e].waits].hop = "waited" /\ conn'[engine'[e].waits].to = e
    BY <1>0, <1>1, <1>4 DEF EngineOK
  <2> QED
    BY <1>2, <1>3, <1>4, <2>1, <2>2, <2>3 DEF EngineOK
<1>11. AppOK'
  <2>1. app.deinits = 0
    BY <1>0, <1>1 DEF AppOK, AppType
  <2> QED
    BY <1>0, <1>1, <1>4, <2>1 DEF AppOK
<1>12. Calm'
  <2>1. \A x \in Connections : OnItsWay(x)' <=> OnItsWay(x)
    BY <1>1 DEF OnItsWay
  <2>2. \A d \in Engines : Doomed(d)' => Doomed(d)
    BY <1>1, <1>2, <1>4 DEF Doomed
  <2>3. \A d \in Engines : engine[d].st = "up" => engine'[d].st = "up"
    BY <1>4
  <2> QED
    BY <1>0, <1>1, <2>1, <2>2, <2>3 DEF Calm
<1>13. \A x \in Connections : conn[x].to \in {e} => StillServed(x)
  BY <1>2 DEF StillServed, Way
<1>14. \A k \in Loops : In(queue', k, TaskFor("close_app", App)) =>
             k = App /\ ToClose(app')
  BY <1>1, <1>7 DEF IInv, TasksOK
<1> QED
  BY <1>0, <1>1, <1>4, <1>5, <1>6, <1>7, <1>9, <1>10, <1>11, <1>12, <1>13, <1>14, StepOfEngine DEF DrainsOn

LEMMA StopGraphStep ==
    ASSUME IInv, ~Races, NEW e \in Engines, StopGraph(e)
    PROVE  IInv'
<1> DEFINE m == [from |-> None, kind |-> "stop"]
           l == LoopOf(e)
           t == TaskFor("in_msgs", e)
<1>0. /\ TypeOK /\ AppOK /\ Calm /\ queue \in Queues /\ Ordered(queue) /\ app \in AppType
      /\ engine \in [Engines -> EngineType] /\ conn \in [Connections -> ConnectionType]
      /\ draining \in [Loops -> BOOLEAN] /\ EngineOK(e) /\ \A x \in Connections : ConnectionOK(x)
      /\ l \in Loops /\ t \in Tasks /\ m \in Messages /\ "in_msgs" \in GraphTasks
  BY TypeParts, TaskKinds DEF IInv, LoopOf, Loops, GraphTasks, Messages
<1>1. /\ UNCHANGED <<mode, app, conn, draining>>
      /\ engine[e].st = "up" /\ engine[e].stops = 0 /\ ~engine[e].closing
      /\ \A x \in Connections : OnItsWay(x) => mode.appLong /\ conn[x].to # e
      /\ engine' = [Appended(engine, e, m) EXCEPT ![e].stops = 1]
      /\ queue' = Post(queue, l, t)
  BY DEF StopGraph, MayEnd, InMsgsPosted
<1>2. \A x \in Connections : conn[x].to = e =>
        conn[x].at # "engine" /\ conn[x].hop \notin Way /\ ~OnTheWay(x, e)
  BY <1>1 DEF OnTheWay, OnItsWay, Way
<1> DEFINE msgs == engine[e].inMsgs
           more == Append(msgs, m)
<1>3. /\ more \in Seq(Messages)
      /\ \A i \in 1 .. Len(more) : more[i] = m \/ (i \in 1 .. Len(msgs) /\ more[i] = msgs[i])
      /\ HasStart(msgs) => HasStart(more)
  <2>1. msgs \in Seq(Messages)
    BY <1>0 DEF EngineType
  <2>2. Extends(more, msgs, m)
    BY DEF Extends
  <2> HIDE DEF more
  <2> QED
    BY <1>0, <2>1, <2>2, MessageAppended
<1> HIDE DEF more
<1>4. /\ engine' \in [Engines -> EngineType]
      /\ \A d \in Engines \ {e} : engine'[d] = engine[d]
      /\ engine'[e].st = "up" /\ engine'[e].inMsgs = more /\ engine'[e].closing = engine[e].closing
      /\ engine'[e].ctx = engine[e].ctx /\ engine'[e].waits = engine[e].waits
      /\ engine'[e].stops = 1
  <2> DEFINE g == [engine[e] EXCEPT !.inMsgs = more]
             h == [g EXCEPT !.stops = 1]
  <2>1. engine' = [engine EXCEPT ![e] = h]
    BY <1>0, <1>1 DEF Appended, more
  <2>2. /\ g \in EngineType /\ g.st = "up" /\ g.inMsgs = more
        /\ g.closing = engine[e].closing /\ g.ctx = engine[e].ctx
        /\ g.waits = engine[e].waits
    BY <1>0, <1>1, <1>3, SetInMsgs
  <2> HIDE DEF g
  <2>3. /\ h \in EngineType /\ h.stops = 1
        /\ h.ctx = g.ctx /\ h.st = g.st /\ h.closing = g.closing
        /\ h.inMsgs = g.inMsgs /\ h.waits = g.waits
    BY <2>2, SetStops
  <2> HIDE DEF h
  <2> QED
    BY <1>0, <2>1, <2>2, <2>3
<1>5. /\ queue' \in Queues
      /\ \A k \in Loops : \A u : In(queue', k, u) <=> In(queue, k, u) \/ (Accepts(l) /\ k = l /\ u = t)
      /\ \A k \in Loops : \A u, s : AllBehind(queue, k, u, s) /\ u # t => AllBehind(queue', k, u, s)
  BY <1>0, <1>1, Posts
<1>6. Ordered(queue')
  <2>1. ~In(queue, l, TaskFor("close_engine", e))
    BY <1>0, <1>1 DEF IInv, TasksOK, GraphTasksOK
  <2> QED
    BY <1>0, <1>1, <2>1, OrderPosted
<1>7. /\ TasksKept(queue, queue', {}, {e})
      /\ \A k \in Loops : In(queue', k, TaskFor("close_app", App)) => In(queue, k, TaskFor("close_app", App))
      /\ \A k \in Loops : \A g \in GraphTasks :
           In(queue', k, TaskFor(g, e)) => In(queue, k, TaskFor(g, e)) \/ (k = l /\ g = "in_msgs")
  <2> HIDE DEF l
  <2>1. /\ \A k \in Loops : \A u : In(queue', k, u) => In(queue, k, u) \/ (k = l /\ u = t)
        /\ \A k \in Loops : \A u : In(queue, k, u) => In(queue', k, u)
    BY <1>5
  <2>2. /\ \A K \in SUBSET Connections : TasksKept(queue, queue', K, {e})
        /\ \A k \in Loops : In(queue', k, TaskFor("close_app", App)) => In(queue, k, TaskFor("close_app", App))
        /\ \A k \in Loops : \A g \in GraphTasks :
             In(queue', k, TaskFor(g, e)) => In(queue, k, TaskFor(g, e)) \/ (k = l /\ g = "in_msgs")
    BY <1>0, <1>5, <2>1, GraphTaskAdded
  <2> QED
    BY <2>2
<1>8. LoopOf(e)' = l
  BY <1>1 DEF LoopOf
<1> HIDE DEF l, t
<1>9. \A k \in Loops : GraphTasksOK(k, e)'
  <2>1. \A k \in Loops : GraphTasksOK(k, e)
    BY DEF IInv, TasksOK
  <2> QED
    BY <1>1, <1>4, <1>7, <1>8, <2>1 DEF GraphTasksOK, GraphTasks, l
<1>10. EngineOK(e)'
  <2>1. RemotesOf(e, conn') = RemotesOf(e, conn)
    BY <1>1 DEF RemotesOf
  <2>2. ASSUME NEW i \in 1 .. Len(more)
        PROVE  /\ more[i].from # None =>
                    LET r == conn'[more[i].from] IN
                    r.at = "engine" /\ r.to = e /\ r.first = more[i].kind
    <3>1. CASE more[i] = m
      BY <3>1
    <3>2. CASE i \in 1 .. Len(msgs) /\ more[i] = msgs[i]
      <4> HIDE DEF m
      <4> QED
        BY <1>0, <1>1, <3>2 DEF EngineOK
    <3> QED
      BY <1>3, <3>1, <3>2
  <2> HIDE DEF m
  <2>3. engine[e].waits # None => conn'[engine[e].waits].hop = "waited" /\ conn'[engine[e].waits].to = e
    BY <1>0, <1>1 DEF EngineOK
  <2>4. engine[e].ctx = "none" => HasStart(msgs) /\ RemotesOf(e, conn) = {}
    BY <1>0, <1>1, <1>2 DEF EngineOK, OnTheWay
  <2>5. engine[e].ctx \in {"none", "up"}
    BY <1>0, <1>1 DEF EngineOK
  <2> QED
    BY <1>1, <1>3, <1>4, <2>1, <2>2, <2>3, <2>4, <2>5 DEF EngineOK
<1>11. AppOK'
  <2>1. Listed(engine') = Listed(engine)
    BY <1>1, <1>4 DEF Listed
  <2> QED
    BY <1>0, <1>1, <1>4, <2>1 DEF AppOK
<1>12. Calm'
  <2>1. \A x \in Connections : OnItsWay(x)' <=> OnItsWay(x)
    BY <1>1 DEF OnItsWay
  <2>2. \A d \in Engines \ {e} : Doomed(d)' => Doomed(d)
    BY <1>1, <1>4 DEF Doomed
  <2>3. \A d \in Engines : engine[d].st = "up" => engine'[d].st = "up"
    BY <1>4
  <2> QED
    BY <1>0, <1>1, <2>1, <2>2, <2>3 DEF Calm
<1>13. \A x \in Connections : conn[x].to \in {e} => StillServed(x)
  <2> SUFFICES ASSUME NEW x \in Connections, conn[x].to = e PROVE StillServed(x)
    OBVIOUS
  <2>1. engine'[e].st = "up" /\ conn[x].at # "engine"
    BY <1>2, <1>4
  <2>2. conn[x].hop # "waited"
    BY <1>2 DEF Way
  <2> QED
    BY <2>1, <2>2 DEF StillServed
<1>14. \A k \in Loops : In(queue', k, TaskFor("close_app", App)) =>
             k = App /\ ToClose(app')
  BY <1>1, <1>7 DEF IInv, TasksOK
<1> QED
  BY <1>0, <1>1, <1>4, <1>5, <1>6, <1>7, <1>9, <1>10, <1>11, <1>12, <1>13, <1>14, StepOfEngine DEF DrainsOn

-----------------------------------------------------------------------------
(* Steps of one connection and its engine. *)

LEMMA StepOfBoth ==
    ASSUME IInv, NEW c \in Connections, NEW e \in Engines, mode' = mode,
           queue' \in Queues, Ordered(queue'), TasksKept(queue, queue', {c}, {e}),
           draining' \in [Loops -> BOOLEAN], DrainsOn,
           app' = app, app.state = "running" \/ Orphans(conn') \subseteq Orphans(conn),
           \A l \in Loops : In(queue', l, TaskFor("close_app", App)) =>
             In(queue, l, TaskFor("close_app", App)),
           engine' \in [Engines -> EngineType], conn' \in [Connections -> ConnectionType],
           \A x \in Connections : x # c => conn'[x] = conn[x],
           \A d \in Engines : d # e => engine'[d] = engine[d],
           engine'[e].st = "up", engine[e].st = "up" \/ app.state = "running",
           \A x \in Connections : x # c /\ conn[x].to = e => StillServed(x),
           \A d \in Engines : d # e => StillAwaited(c, d),
           ConnectionOK(c)', \A l \in Loops : MoveTasksOK(l, c)',
           EngineOK(e)', \A l \in Loops : GraphTasksOK(l, e)',
           Calm'
    PROVE  IInv'
<1> DEFINE K == {c}
           G == {e}
<1>1. /\ K \in SUBSET Connections /\ G \in SUBSET Engines /\ TasksKept(queue, queue', K, G)
      /\ \A x \in Connections \ K : conn'[x] = conn[x]
      /\ \A d \in Engines \ G : engine'[d] = engine[d]
      /\ \A x \in Connections \ K : conn[x].to \in G => StillServed(x)
      /\ \A x \in K : \A d \in Engines \ G : StillAwaited(x, d)
      /\ \A x \in K : ConnectionOK(x)' /\ \A l \in Loops : MoveTasksOK(l, x)'
      /\ \A d \in G : EngineOK(d)' /\ \A l \in Loops : GraphTasksOK(l, d)'
  OBVIOUS
<1>2. AppOK' /\ app' \in AppType
  <2>1. AppOK /\ app \in AppType
    BY TypeParts DEF IInv
  <2>2. app.state = "running" => app.deinits = 0
    BY <2>1 DEF AppOK, AppType
  <2>3. app.state # "running" => Listed(engine') = Listed(engine)
    BY DEF Listed
  <2>4. \A d \in Engines : engine'[d].st = "gone" => engine[d].st = "gone"
    OBVIOUS
  <2> QED
    BY <2>1, <2>2, <2>3, <2>4 DEF AppOK
<1>3. \A l \in Loops : In(queue', l, TaskFor("close_app", App)) =>
             l = App /\ ToClose(app')
  BY DEF IInv, TasksOK
<1> HIDE DEF K, G
<1> QED
  BY <1>1, <1>2, <1>3, StepOf

LEMMA StreamMigratedStep ==
    ASSUME IInv, NEW e \in Engines, NEW c \in Connections, StreamMigrated(e, c)
    PROVE  IInv'
<1> DEFINE t == TaskFor("clean", c)
<1>0. /\ TypeOK /\ AppOK /\ Calm /\ queue \in Queues /\ Ordered(queue)
      /\ engine \in [Engines -> EngineType] /\ conn \in [Connections -> ConnectionType]
      /\ draining \in [Loops -> BOOLEAN] /\ EngineOK(e) /\ \A x \in Connections : ConnectionOK(x)
      /\ t \in Tasks /\ "clean" \in MoveTasks /\ App \in Loops
  BY TypeParts, TaskKinds DEF IInv, Loops, MoveTasks
<1>1. /\ UNCHANGED <<mode, app, draining>>
      /\ engine[e].waits = None /\ conn[c].to = e /\ conn[c].hop = "sent"
      /\ conn' = [conn EXCEPT ![c].hop = "waited"]
      /\ engine' = [engine EXCEPT ![e].waits = c]
      /\ queue' = Post(queue, App, t)
  BY EnginesAssumption DEF StreamMigrated, Callback, Turns
<1>2. /\ conn[c].at = "app" /\ mode.own /\ ~conn[c].eof /\ conn[c].stream = "open"
      /\ engine[e].st = "up" /\ ~Doomed(e) /\ OnItsWay(c)
  <2>1. OnItsWay(c)
    BY <1>1 DEF OnItsWay
  <2> QED
    BY <1>0, <1>1, <2>1 DEF ConnectionOK, Way, Calm
<1>3. LET r == conn[c]
          s == conn'[c] IN
      /\ conn' \in [Connections -> ConnectionType]
      /\ \A x \in Connections : x # c => conn'[x] = conn[x]
      /\ s.at = r.at /\ s.to = r.to /\ s.hop = "waited" /\ s.first = r.first /\ s.rest = r.rest
      /\ s.shut = r.shut /\ s.pshut = r.pshut /\ s.eof = r.eof /\ s.stream = r.stream
  BY <1>0, <1>1 DEF ConnectionType
<1>4. LET g == engine[e]
          h == engine'[e] IN
      /\ engine' \in [Engines -> EngineType]
      /\ \A d \in Engines : d # e => engine'[d] = engine[d]
      /\ h.waits = c /\ h.ctx = g.ctx /\ h.st = g.st /\ h.closing = g.closing
      /\ h.inMsgs = g.inMsgs /\ h.stops = g.stops
  BY <1>0, <1>1, SetWaits
<1>5. /\ queue' \in Queues /\ OthersKept(queue, queue', c)
      /\ \A k \in Loops : \A u : In(queue', k, u) => In(queue, k, u) \/ (k = App /\ u = t)
  BY <1>0, <1>1, Posts, PostOthers
<1>6. \A k \in Loops : ~In(queue, k, TaskFor("clean", c)) /\ ~In(queue, k, TaskFor("accepted", c))
  BY <1>1, <1>2 DEF IInv, TasksOK, MoveTasksOK
<1>7. Ordered(queue')
  BY <1>0, <1>1, <1>6, OrderPosted
<1>8. /\ TasksKept(queue, queue', {c}, {e})
      /\ \A l \in Loops : In(queue', l, TaskFor("close_app", App)) => In(queue, l, TaskFor("close_app", App))
      /\ \A l \in Loops : \A f \in GraphTasks : In(queue', l, TaskFor(f, e)) <=> In(queue, l, TaskFor(f, e))
  BY <1>5 DEF OthersKept, MovesKept, TasksKept
<1>9. ConnectionOK(c)'
  BY <1>0, <1>1, <1>2, <1>3, <1>4 DEF ConnectionOK, Attached, Way
<1>10. \A l \in Loops : MoveTasksOK(l, c)'
  <2>1. AttachedLoop(c) = App /\ AttachedLoop(c)' = App
    BY <1>2, <1>3 DEF AttachedLoop
  <2> QED
    BY <1>1, <1>2, <1>3, <1>5, <1>6, <2>1, SameTask DEF IInv, TasksOK, MoveTasksOK, Attached
<1>11. \A l \in Loops : GraphTasksOK(l, e)'
  BY <1>0, <1>1, <1>4, <1>8, GraphTasksKept DEF IInv, TasksOK
<1>12. EngineOK(e)'
  <2>1. RemotesOf(e, conn') = RemotesOf(e, conn)
    BY <1>3 DEF RemotesOf
  <2>2. \A x \in Connections : OnTheWay(x, e) => OnTheWay(x, e)' /\ conn'[x].first = conn[x].first
    BY <1>1, <1>3 DEF OnTheWay, Way
  <2>3. \A x \in Connections : conn[x].hop \in Way => conn'[x].hop \in Way
    BY <1>1, <1>3 DEF Way
  <2>4. LoopOf(e)' = LoopOf(e) /\ LoopOf(e) \in Loops
    BY <1>1 DEF LoopOf, Loops
  <2>5. (Pending(e)' <=> Pending(e)) /\
        (In(queue', LoopOf(e), TaskFor("in_msgs", e)) <=> In(queue, LoopOf(e), TaskFor("in_msgs", e)))
    BY <1>8, <2>4 DEF Pending, GraphTasks
  <2>6. engine[e].ctx = "none" /\ ~engine[e].closing =>
          /\ \/ \E x \in Connections : OnTheWay(x, e)' /\ conn'[x].first = "start"
             \/ HasStart(engine[e].inMsgs) /\ RemotesOf(e, conn) = {}
          /\ \/ \E x \in Connections :
                  conn'[x].hop \in Way /\ conn'[x].to = e /\ conn'[x].first = "start"
             \/ HasStart(engine[e].inMsgs)
    BY <1>0, <1>2, <1>3, <2>2, <2>3 DEF EngineOK
  <2>7. \A x : x \in Connections => conn'[x].at = conn[x].at /\ conn'[x].to = conn[x].to /\ conn'[x].first = conn[x].first
    BY <1>3
  <2>8. \A i \in 1 .. Len(engine[e].inMsgs) : engine[e].inMsgs[i].from \in Connections \cup {None}
    BY <1>0, MessageSenders
  <2>9. \A i \in 1 .. Len(engine[e].inMsgs) :
          /\ engine[e].inMsgs[i].from # None =>
                LET r == conn'[engine[e].inMsgs[i].from] IN
                r.at = "engine" /\ r.to = e /\ r.first = engine[e].inMsgs[i].kind
          /\ engine[e].inMsgs[i].kind = "stop" => engine[e].stops = 1
    BY <1>0, <2>7, <2>8 DEF EngineOK
  <2>10. ~engine[e].closing /\ engine[e].ctx \in {"none", "up"}
    BY <1>0, <1>2 DEF Doomed, EngineOK
  <2> QED
    BY <1>1, <1>2, <1>3, <1>4, <2>1, <2>6, <2>9, <2>10 DEF EngineOK
<1>13. Calm'
  <2>1. \A x \in Connections : (OnItsWay(x)' <=> OnItsWay(x)) /\ conn'[x].to = conn[x].to
    BY <1>1, <1>2, <1>3 DEF OnItsWay
  <2>2. \A d \in Engines : (Doomed(d)' <=> Doomed(d)) /\ engine'[d].st = engine[d].st
    BY <1>1, <1>3, <1>4 DEF Doomed
  <2>3. \A x \in Connections : conn'[x].hop = conn[x].hop \/ conn'[x].hop \in Way
    BY <1>3 DEF Way
  <2> QED
    BY <1>0, <1>1, <2>1, <2>2, <2>3 DEF Calm
<1>14. \A x \in Connections : x # c /\ conn[x].to = e => StillServed(x)
  <2> SUFFICES ASSUME NEW x \in Connections, x # c, conn[x].to = e PROVE StillServed(x)
    OBVIOUS
  <2>1. ConnectionOK(x)
    BY <1>0
  <2>2. conn[x].hop # "waited"
    BY <1>1, <2>1, NoneAssumption DEF ConnectionOK
  <2>3. LoopOf(e) \in Loops /\ "in_msgs" \in GraphTasks
    BY DEF LoopOf, Loops, GraphTasks
  <2> QED
    BY <1>2, <1>4, <1>8, <2>1, <2>2, <2>3 DEF StillServed, ConnectionOK
<1>15. \A d \in Engines : d # e => StillAwaited(c, d)
  BY <1>1, <1>2, <1>3 DEF StillAwaited, OnTheWay
<1>16. Orphans(conn') \subseteq Orphans(conn)
  BY <1>3 DEF Orphans
<1> HIDE DEF t
<1>17. engine'[e].st = "up" /\ engine[e].st = "up" /\ mode' = mode /\ app' = app /\ DrainsOn
       /\ draining' \in [Loops -> BOOLEAN]
  BY <1>0, <1>1, <1>2, <1>4 DEF DrainsOn
<1> QED
  BY <1>3, <1>4, <1>5, <1>7, <1>8, <1>9, <1>10, <1>11, <1>12, <1>13, <1>14, <1>15, <1>16, <1>17, StepOfBoth

\* An engine that takes a connection over gets two tasks, in either order.
LEMMA TakesOver ==
    ASSUME NEW q \in Queues, Ordered(q), NEW l \in Loops, Accepts(l),
           NEW c \in Connections, NEW e \in Engines,
           ~In(q, l, TaskFor("close_engine", e)), ~In(q, l, TaskFor("clean", c)), NEW p,
           LET m == TaskFor("in_msgs", e)
               t == TaskFor("cleaned", c) IN
           \/ p = Post(Post(q, l, m), l, t) /\ ~In(q, l, t)
           \/ p = Post(Post(q, l, t), l, m)
    PROVE  /\ p \in Queues /\ Ordered(p) /\ TasksKept(q, p, {c}, {e})
           /\ \A k \in Loops : \A u :
                In(p, k, u) <=> In(q, k, u) \/ (k = l /\ u \in {TaskFor("in_msgs", e), TaskFor("cleaned", c)})
           /\ \A k \in Loops : In(p, k, TaskFor("close_app", App)) => In(q, k, TaskFor("close_app", App))
           /\ p = Post(Post(q, l, TaskFor("in_msgs", e)), l, TaskFor("cleaned", c)) /\ ~In(q, l, TaskFor("cleaned", c)) =>
                AllBehind(p, l, TaskFor("cleaned", c), TaskFor("in_msgs", e))
<1> DEFINE m == TaskFor("in_msgs", e)
           t == TaskFor("cleaned", c)
<1>0. m \in Tasks /\ t \in Tasks /\ m # t
  BY TaskKinds, SameTask DEF GraphTasks, MoveTasks
<1>1. /\ p \in Queues /\ Ordered(p)
      /\ \A k \in Loops : \A u : In(p, k, u) <=> In(q, k, u) \/ (k = l /\ u \in {m, t})
      /\ \A k \in Loops : \A u, s : AllBehind(q, k, u, s) /\ u \notin {m, t} => AllBehind(p, k, u, s)
      /\ p = Post(Post(q, l, m), l, t) /\ ~In(q, l, t) => AllBehind(p, l, t, m)
  <2>1. ASSUME p = Post(Post(q, l, m), l, t), ~In(q, l, t)
        PROVE  /\ p \in Queues /\ Ordered(p)
               /\ \A k \in Loops : \A u : In(p, k, u) <=> In(q, k, u) \/ (k = l /\ u \in {m, t})
               /\ \A k \in Loops : \A u, s : AllBehind(q, k, u, s) /\ u \notin {m, t} => AllBehind(p, k, u, s)
               /\ AllBehind(p, l, t, m)
    <3> DEFINE z == Post(q, l, m)
    <3>1. /\ z \in Queues
          /\ \A k \in Loops : \A u : In(z, k, u) <=> In(q, k, u) \/ (k = l /\ u = m)
          /\ \A k \in Loops : \A u, s : AllBehind(q, k, u, s) /\ u # m => AllBehind(z, k, u, s)
      BY <1>0, Posts
    <3>2. Ordered(z)
      BY <1>0, OrderPosted
    <3> HIDE DEF z
    <3>3. p = Post(z, l, t)
      BY <2>1 DEF z
    <3>4. ~In(z, l, TaskFor("clean", c))
      BY <3>1, SameTask
    <3>5. Ordered(p)
      BY <1>0, <3>1, <3>2, <3>3, <3>4, OrderPosted
    <3>6. /\ p \in Queues
          /\ \A k \in Loops : \A u : In(p, k, u) <=> In(z, k, u) \/ (k = l /\ u = t)
          /\ \A k \in Loops : \A u, s :
               AllBehind(z, k, u, s) /\ (k = l /\ u = t => In(z, k, s)) => AllBehind(p, k, u, s)
      BY <1>0, <3>1, <3>3, Posts
    <3>7. ~In(z, l, t) /\ In(z, l, m)
      BY <1>0, <2>1, <3>1
    <3>8. AllBehind(z, l, t, m)
      BY <3>7 DEF AllBehind, In
    <3>9. AllBehind(p, l, t, m)
      BY <3>6, <3>7, <3>8
    <3> HIDE DEF m, t
    <3> QED
      BY <3>1, <3>5, <3>6, <3>9
  <2>2. ASSUME p = Post(Post(q, l, t), l, m)
        PROVE  /\ p \in Queues /\ Ordered(p)
               /\ \A k \in Loops : \A u : In(p, k, u) <=> In(q, k, u) \/ (k = l /\ u \in {m, t})
               /\ \A k \in Loops : \A u, s : AllBehind(q, k, u, s) /\ u \notin {m, t} => AllBehind(p, k, u, s)
    <3> DEFINE z == Post(q, l, t)
    <3>1. /\ z \in Queues
          /\ \A k \in Loops : \A u : In(z, k, u) <=> In(q, k, u) \/ (k = l /\ u = t)
          /\ \A k \in Loops : \A u, s : AllBehind(q, k, u, s) /\ u # t => AllBehind(z, k, u, s)
      BY <1>0, Posts
    <3>2. Ordered(z)
      BY <1>0, OrderPosted
    <3> HIDE DEF z
    <3>3. p = Post(z, l, m)
      BY <2>2 DEF z
    <3>4. ~In(z, l, TaskFor("close_engine", e))
      BY <3>1, SameTask
    <3>5. Ordered(p)
      BY <1>0, <3>1, <3>2, <3>3, <3>4, OrderPosted
    <3>6. /\ p \in Queues
          /\ \A k \in Loops : \A u : In(p, k, u) <=> In(z, k, u) \/ (k = l /\ u = m)
          /\ \A k \in Loops : \A u, s : AllBehind(z, k, u, s) /\ u # m => AllBehind(p, k, u, s)
      BY <1>0, <3>1, <3>3, Posts
    <3> HIDE DEF m, t
    <3> QED
      BY <3>1, <3>5, <3>6
  <2>3. (Post(Post(q, l, m), l, t) = p /\ ~In(q, l, t)) \/ p = Post(Post(q, l, t), l, m)
    OBVIOUS
  <2> HIDE DEF m, t
  <2> QED
    BY <2>1, <2>2, <2>3
<1>2. TasksKept(q, p, {c}, {e})
  <2>1. ASSUME NEW k \in Loops, NEW f \in GraphTasks, NEW d \in Engines \ {e}
        PROVE  In(p, k, TaskFor(f, d)) <=> In(q, k, TaskFor(f, d))
    <3>1. TaskFor(f, d) \notin {m, t}
      BY SameTask DEF GraphTasks
    <3> QED
      BY <1>1, <3>1
  <2>2. ASSUME NEW k \in Loops, NEW f \in MoveTasks, NEW x \in Connections \ {c},
               In(p, k, TaskFor(f, x))
        PROVE  In(q, k, TaskFor(f, x))
    <3>1. TaskFor(f, x) \notin {m, t}
      BY SameTask DEF MoveTasks
    <3> QED
      BY <1>1, <2>2, <3>1
  <2>3. ASSUME NEW x \in Connections \ {c}, NEW d \in Engines,
               AllBehind(q, d, TaskFor("cleaned", x), TaskFor("in_msgs", d))
        PROVE  AllBehind(p, d, TaskFor("cleaned", x), TaskFor("in_msgs", d))
    <3>1. TaskFor("cleaned", x) \notin {m, t} /\ d \in Loops
      BY SameTask DEF Loops
    <3> QED
      BY <1>1, <2>3, <3>1
  <2> QED
    BY <2>1, <2>2, <2>3 DEF TasksKept
<1>3. \A k \in Loops : In(p, k, TaskFor("close_app", App)) => In(q, k, TaskFor("close_app", App))
  <2>1. TaskFor("close_app", App) \notin {m, t}
    BY SameTask
  <2> QED
    BY <1>1, <2>1
<1> QED
  BY <1>1, <1>2, <1>3

\* An engine with a loop of its own accepts tasks as long as it is up.
LEMMA EngineAccepts ==
    ASSUME IInv, NEW e \in Engines, engine[e].st \in {"up", "stopping", "stopped"}
    PROVE  /\ app.deinits = 0 /\ app.loop = "up" /\ Accepts(App)
           /\ engine[e].st = "up" => Accepts(LoopOf(e))
<1>1. AppOK /\ app \in AppType
  BY TypeParts DEF IInv
<1>2. e \in Listed(engine)
  BY DEF Listed
<1>3. app.deinits = 0 /\ app.loop = "up"
  BY <1>1, <1>2 DEF AppOK, AppType
<1> QED
  BY <1>3, EnginesAssumption DEF Accepts, LoopOf

\* The messages of an engine when that of c is put behind them.
LEMMA FirstAppended ==
    ASSUME IInv, NEW e \in Engines, NEW c \in Connections, NEW m \in Messages, m.from = c, m.kind # "stop",
           conn[c].at # "engine", NEW more, Extends(more, engine[e].inMsgs, m)
    PROVE  LET msgs == engine[e].inMsgs IN
           /\ more \in Seq(Messages)
           /\ \A i \in 1 .. Len(msgs) : i \in 1 .. Len(more) /\ more[i] = msgs[i]
           /\ \E i \in 1 .. Len(more) : more[i].from = c
           /\ HasStart(msgs) => HasStart(more)
           /\ m.kind = "start" /\ engine[e].stops = 0 => HasStart(more)
           /\ \A i \in 1 .. Len(more) :
                /\ more[i].from # None =>
                     \/ more[i].from = c /\ more[i].kind = m.kind
                     \/ /\ more[i].from \in Connections \ {c}
                        /\ conn[more[i].from].at = "engine" /\ conn[more[i].from].to = e
                        /\ conn[more[i].from].first = more[i].kind
                /\ more[i].kind = "stop" => engine[e].stops = 1
<1> DEFINE msgs == engine[e].inMsgs
<1>1. engine[e] \in EngineType /\ EngineOK(e)
  BY TypeParts DEF IInv
<1>2. msgs \in Seq(Messages)
  BY <1>1 DEF EngineType
<1>3. \A i \in 1 .. Len(msgs) :
        /\ msgs[i].from \in Connections \cup {None}
        /\ msgs[i].from # None => /\ conn[msgs[i].from].at = "engine" /\ conn[msgs[i].from].to = e
                                  /\ conn[msgs[i].from].first = msgs[i].kind
        /\ msgs[i].kind = "stop" => engine[e].stops = 1
  BY <1>1, MessageSenders DEF EngineOK
<1>4. /\ more \in Seq(Messages)
      /\ \A i \in 1 .. Len(msgs) : i \in 1 .. Len(more) /\ more[i] = msgs[i]
      /\ \E i \in 1 .. Len(more) : more[i] = m
      /\ \A i \in 1 .. Len(more) : more[i] = m \/ (i \in 1 .. Len(msgs) /\ more[i] = msgs[i])
      /\ HasStart(msgs) => HasStart(more)
      /\ m.kind = "start" /\ (\A i \in 1 .. Len(msgs) : msgs[i].kind # "stop") => HasStart(more)
  BY <1>2, MessageAppended
<1>5. \E i \in 1 .. Len(more) : more[i].from = c
  BY <1>4
<1>6. m.kind = "start" /\ engine[e].stops = 0 => HasStart(more)
  BY <1>3, <1>4
<1>7. \A i \in 1 .. Len(more) :
        /\ more[i].from # None =>
             \/ more[i].from = c /\ more[i].kind = m.kind
             \/ /\ more[i].from \in Connections \ {c}
                /\ conn[more[i].from].at = "engine" /\ conn[more[i].from].to = e
                /\ conn[more[i].from].first = more[i].kind
        /\ more[i].kind = "stop" => engine[e].stops = 1
  BY <1>3, <1>4
<1> QED
  BY <1>4, <1>5, <1>6, <1>7

LEMMA MigrationDoneStep ==
    ASSUME IInv, NEW e \in Engines, NEW c \in Connections, MigrationDone(e, c)
    PROVE  IInv'
<1> DEFINE t == TaskFor("cleaned", c)
           i == TaskFor("in_msgs", e)
           m == [from |-> c, kind |-> conn[c].first]
           msgs == engine[e].inMsgs
           more == Append(msgs, m)
<1>0. /\ TypeOK /\ AppOK /\ Calm /\ queue \in Queues /\ Ordered(queue)
      /\ engine \in [Engines -> EngineType] /\ conn \in [Connections -> ConnectionType]
      /\ draining \in [Loops -> BOOLEAN] /\ EngineOK(e) /\ \A x \in Connections : ConnectionOK(x)
      /\ e \in Loops /\ c # None
  BY TypeParts, NoneAssumption DEF IInv, Loops
<1>1. /\ UNCHANGED <<mode, app, draining>>
      /\ engine[e].waits = c /\ conn[c].stream = "cleaned"
      /\ conn' = [conn EXCEPT ![c].at = "engine", ![c].hop = "done", ![c].stream = "open"]
      /\ engine' = [Appended(engine, e, m) EXCEPT ![e].waits = None]
      /\ queue' = Post(InMsgsPosted(queue, e), e, t)
  BY DEF MigrationDone
<1>2. /\ conn[c].hop = "waited" /\ conn[c].to = e /\ conn[c].at = "moving" /\ mode.own
      /\ ~conn[c].eof /\ ~conn[c].pshut
      /\ engine[e].st = "up" /\ ~Doomed(e) /\ OnItsWay(c) /\ ~engine[e].closing /\ engine[e].stops = 0
      /\ LoopOf(e) = e
  <2>1. conn[c].hop = "waited" /\ conn[c].to = e
    BY <1>0, <1>1 DEF EngineOK
  <2>2. OnItsWay(c)
    BY <2>1 DEF OnItsWay
  <2>3. engine[e].st = "up" /\ ~Doomed(e)
    BY <1>0, <2>1, <2>2 DEF Calm
  <2>4. ~engine[e].closing /\ engine[e].stops = 0
    BY <1>0, <2>3 DEF Doomed, EngineType
  <2>5. conn[c].at = "moving" /\ mode.own /\ ~conn[c].eof /\ ~conn[c].pshut
    BY <1>0, <1>1, <2>1 DEF ConnectionOK, Way
  <2> QED
    BY <2>1, <2>2, <2>3, <2>4, <2>5 DEF LoopOf
<1>3. LET r == conn[c]
          s == conn'[c] IN
      /\ conn' \in [Connections -> ConnectionType]
      /\ \A x \in Connections : x # c => conn'[x] = conn[x]
      /\ s.at = "engine" /\ s.to = r.to /\ s.hop = "done" /\ s.first = r.first /\ s.rest = r.rest
      /\ s.shut = r.shut /\ s.pshut = r.pshut /\ s.eof = r.eof /\ s.stream = "open"
  <2> DEFINE a == [conn[c] EXCEPT !.at = "engine"]
             b == [a EXCEPT !.hop = "done"]
             s == [b EXCEPT !.stream = "open"]
  <2>1. conn' = [conn EXCEPT ![c] = s]
    BY <1>1
  <2>2. /\ a \in ConnectionType /\ a.at = "engine"
        /\ a.to = conn[c].to /\ a.first = conn[c].first /\ a.rest = conn[c].rest
        /\ a.shut = conn[c].shut /\ a.pshut = conn[c].pshut /\ a.eof = conn[c].eof
    BY <1>0, SetAt
  <2> HIDE DEF a
  <2>3. /\ b \in ConnectionType /\ b.at = a.at /\ b.hop = "done"
        /\ b.to = a.to /\ b.first = a.first /\ b.rest = a.rest
        /\ b.shut = a.shut /\ b.pshut = a.pshut /\ b.eof = a.eof
    BY <2>2, SetHop
  <2> HIDE DEF b
  <2>4. /\ s \in ConnectionType /\ s.at = b.at /\ s.hop = b.hop /\ s.stream = "open"
        /\ s.to = b.to /\ s.first = b.first /\ s.rest = b.rest
        /\ s.shut = b.shut /\ s.pshut = b.pshut /\ s.eof = b.eof
    BY <2>3, SetStream
  <2> HIDE DEF s
  <2> QED
    BY <1>0, <2>1, <2>2, <2>3, <2>4
<1>4. /\ more \in Seq(Messages)
      /\ \A k \in 1 .. Len(msgs) : k \in 1 .. Len(more) /\ more[k] = msgs[k]
      /\ \E k \in 1 .. Len(more) : more[k].from = c
      /\ HasStart(msgs) => HasStart(more)
      /\ conn[c].first = "start" => HasStart(more)
      /\ \A k \in 1 .. Len(more) :
           /\ more[k].from # None =>
                \/ more[k].from = c /\ more[k].kind = conn[c].first
                \/ /\ more[k].from \in Connections \ {c}
                   /\ conn[more[k].from].at = "engine" /\ conn[more[k].from].to = e
                   /\ conn[more[k].from].first = more[k].kind
           /\ more[k].kind = "stop" => engine[e].stops = 1
  <2>1. conn[c].first \in {"start", "cmd"} /\ conn[c].at # "engine"
    BY <1>0, <1>2 DEF ConnectionType
  <2>2. m \in Messages /\ m.from = c /\ m.kind = conn[c].first
    BY <2>1 DEF Messages
  <2>3. Extends(more, engine[e].inMsgs, m)
    BY DEF Extends
  <2> HIDE DEF more, m
  <2> QED
    BY <1>2, <2>1, <2>2, <2>3, FirstAppended
<1> HIDE DEF more
<1>5. LET g == engine[e]
          h == engine'[e] IN
      /\ engine' \in [Engines -> EngineType]
      /\ \A d \in Engines : d # e => engine'[d] = engine[d]
      /\ h.waits = None /\ h.ctx = g.ctx /\ h.st = g.st /\ h.closing = g.closing
      /\ h.inMsgs = more /\ h.stops = g.stops
  <2> DEFINE g == [engine[e] EXCEPT !.inMsgs = more]
             h == [g EXCEPT !.waits = None]
  <2>1. engine' = [engine EXCEPT ![e] = h]
    BY <1>0, <1>1 DEF Appended, more
  <2>2. /\ g \in EngineType /\ g.st = engine[e].st /\ g.inMsgs = more
        /\ g.closing = engine[e].closing /\ g.ctx = engine[e].ctx
        /\ g.stops = engine[e].stops
    BY <1>0, <1>4, SetInMsgs
  <2> HIDE DEF g
  <2>3. /\ h \in EngineType /\ h.stops = g.stops
        /\ h.ctx = g.ctx /\ h.st = g.st /\ h.closing = g.closing
        /\ h.inMsgs = g.inMsgs /\ h.waits = None
    BY <2>2, SetWaits
  <2> HIDE DEF h
  <2> QED
    BY <1>0, <2>1, <2>2, <2>3
<1>6. /\ \A k \in Loops : \A f \in MoveTasks : ~In(queue, k, TaskFor(f, c))
      /\ \A k \in Loops : ~In(queue, k, TaskFor("close_engine", e))
  BY <1>2 DEF IInv, TasksOK, MoveTasksOK, GraphTasksOK, Attached, MoveTasks
<1>7. /\ queue' \in Queues /\ Ordered(queue') /\ TasksKept(queue, queue', {c}, {e})
      /\ \A k \in Loops : \A u : In(queue', k, u) <=> In(queue, k, u) \/ (k = e /\ u \in {i, t})
      /\ \A k \in Loops : In(queue', k, TaskFor("close_app", App)) => In(queue, k, TaskFor("close_app", App))
      /\ AllBehind(queue', e, t, i)
  <2>1. ~In(queue, e, t) /\ ~In(queue, e, TaskFor("clean", c)) /\ ~In(queue, e, TaskFor("close_engine", e))
    BY <1>0, <1>6 DEF MoveTasks
  <2>2. queue' = Post(Post(queue, e, i), e, t) /\ Accepts(e)
    BY <1>1, <1>2, EngineAccepts DEF InMsgsPosted
  <2>3. /\ Ordered(queue)
        /\ \/ queue' = Post(Post(queue, e, i), e, t) /\ ~In(queue, e, t)
           \/ queue' = Post(Post(queue, e, t), e, i)
    BY <1>0, <2>1, <2>2
  <2>4. LET p == queue' IN
        /\ p \in Queues /\ Ordered(p) /\ TasksKept(queue, p, {c}, {e})
        /\ \A k \in Loops : \A u :
             In(p, k, u) <=> In(queue, k, u) \/ (k = e /\ u \in {TaskFor("in_msgs", e), TaskFor("cleaned", c)})
        /\ \A k \in Loops : In(p, k, TaskFor("close_app", App)) => In(queue, k, TaskFor("close_app", App))
        /\ p = Post(Post(queue, e, TaskFor("in_msgs", e)), e, TaskFor("cleaned", c)) /\ ~In(queue, e, TaskFor("cleaned", c)) =>
             AllBehind(p, e, TaskFor("cleaned", c), TaskFor("in_msgs", e))
    BY ONLY <1>0, <2>1, <2>2, <2>3, TakesOver, SMTT(30)
  <2> QED
    BY <2>1, <2>2, <2>4
<1>8. \A d : LoopOf(d)' = LoopOf(d)
  BY <1>1 DEF LoopOf
<1>9. ConnectionOK(c)'
  <2>1. /\ \E k \in 1 .. Len(engine'[e].inMsgs) : engine'[e].inMsgs[k].from = c
        /\ engine'[e].st = "up" /\ In(queue', e, i)
    BY <1>0, <1>2, <1>4, <1>5, <1>7
  <2>2. conn[c].rest => mode.batch
    BY <1>0 DEF ConnectionOK
  <2>3. /\ conn'[c].at = "engine" /\ conn'[c].to = e /\ conn'[c].hop = "done" /\ conn'[c].stream = "open"
        /\ ~conn'[c].pshut /\ ~conn'[c].eof /\ (conn'[c].rest => mode'.batch) /\ LoopOf(e)' = e
    BY <1>1, <1>2, <1>3, <1>8, <2>2
  <2> QED
    BY <1>7, <2>1, <2>3 DEF ConnectionOK, Attached, Way
<1>10. \A l \in Loops : MoveTasksOK(l, c)'
  <2>1. AttachedLoop(c)' = e
    BY <1>2, <1>3, <1>8 DEF AttachedLoop
  <2>2. \A l \in Loops : \A f \in MoveTasks : In(queue', l, TaskFor(f, c)) => l = e /\ f = "cleaned"
    BY <1>6, <1>7, SameTask DEF MoveTasks
  <2> QED
    BY <1>3, <2>1, <2>2 DEF MoveTasksOK, Attached, MoveTasks
<1>11. \A l \in Loops : GraphTasksOK(l, e)'
  <2>1. \A l \in Loops : \A f \in GraphTasks : In(queue', l, TaskFor(f, e)) =>
          In(queue, l, TaskFor(f, e)) \/ (l = e /\ f = "in_msgs")
    BY <1>7, SameTask DEF GraphTasks
  <2>2. \A l \in Loops : GraphTasksOK(l, e)
    BY DEF IInv, TasksOK
  <2> QED
    BY <1>1, <1>2, <1>5, <1>8, <2>1, <2>2 DEF GraphTasksOK, GraphTasks
<1>12. EngineOK(e)'
  <2>1. RemotesOf(e, conn') = RemotesOf(e, conn)
    BY <1>2, <1>3 DEF RemotesOf
  <2>2. \A x \in Connections : OnTheWay(x, e) => OnTheWay(x, e)' /\ conn'[x].first = conn[x].first
    BY <1>2, <1>3 DEF OnTheWay, Way
  <2>3. engine[e].ctx = "none" =>
          /\ \/ \E x \in Connections : OnTheWay(x, e)' /\ conn'[x].first = "start"
             \/ HasStart(more) /\ RemotesOf(e, conn') = {}
          /\ \/ \E x \in Connections :
                  conn'[x].hop \in Way /\ conn'[x].to = e /\ conn'[x].first = "start"
             \/ HasStart(more)
    <3> SUFFICES ASSUME engine[e].ctx = "none"
                 PROVE  /\ \/ \E x \in Connections : OnTheWay(x, e)' /\ conn'[x].first = "start"
                           \/ HasStart(more) /\ RemotesOf(e, conn') = {}
                        /\ \/ \E x \in Connections :
                                conn'[x].hop \in Way /\ conn'[x].to = e /\ conn'[x].first = "start"
                           \/ HasStart(more)
      OBVIOUS
    <3>1. /\ \/ \E x \in Connections : OnTheWay(x, e) /\ conn[x].first = "start"
             \/ HasStart(msgs) /\ RemotesOf(e, conn) = {}
          /\ \/ \E x \in Connections :
                  conn[x].hop \in Way /\ conn[x].to = e /\ conn[x].first = "start"
             \/ HasStart(msgs)
      BY <1>0, <1>2 DEF EngineOK
    <3>2. \A x \in Connections : conn[x].hop \in Way /\ conn[x].to = e /\ conn[x].first = "start" =>
            x = c \/ (conn'[x].hop \in Way /\ conn'[x].to = e /\ conn'[x].first = "start")
      BY <1>3
    <3> QED
      BY <1>4, <2>1, <2>2, <3>1, <3>2
  <2>4. \A k \in 1 .. Len(more) :
          /\ more[k].from # None =>
                LET r == conn'[more[k].from] IN
                r.at = "engine" /\ r.to = e /\ r.first = more[k].kind
          /\ more[k].kind = "stop" => engine[e].stops = 1
    BY <1>2, <1>3, <1>4
  <2>5. engine[e].ctx \in {"none", "up"}
    BY <1>0, <1>2 DEF EngineOK
  <2> QED
    BY <1>2, <1>5, <2>3, <2>4, <2>5 DEF EngineOK
<1>13. Calm'
  <2>1. \A x \in Connections : (OnItsWay(x)' => OnItsWay(x)) /\ conn'[x].to = conn[x].to
    BY <1>2, <1>3 DEF OnItsWay
  <2>2. \A d \in Engines : (Doomed(d)' => Doomed(d)) /\ engine'[d].st = engine[d].st
    BY <1>1, <1>2, <1>3, <1>5 DEF Doomed
  <2>3. \A x \in Connections : conn'[x].hop = conn[x].hop \/ conn'[x].hop \in Way \cup {"done"}
    BY <1>3
  <2> QED
    BY <1>0, <1>1, <2>1, <2>2, <2>3 DEF Calm
<1>14. \A x \in Connections : x # c /\ conn[x].to = e => StillServed(x)
  <2> SUFFICES ASSUME NEW x \in Connections, x # c, conn[x].to = e PROVE StillServed(x)
    OBVIOUS
  <2>1. ConnectionOK(x)
    BY <1>0
  <2>2. conn[x].hop # "waited"
    BY <1>1, <2>1 DEF ConnectionOK
  <2>3. conn[x].at = "engine" =>
          /\ \E k \in 1 .. Len(more) : more[k].from = x
          /\ In(queue', e, i)
    BY <1>0, <1>2, <1>4, <1>7, <2>1 DEF ConnectionOK
  <2> QED
    BY <1>2, <1>5, <2>1, <2>2, <2>3 DEF StillServed, ConnectionOK
<1>15. \A d \in Engines : d # e => StillAwaited(c, d)
  BY <1>2, <1>3 DEF StillAwaited, OnTheWay
<1>16. Orphans(conn') \subseteq Orphans(conn)
  BY <1>3 DEF Orphans
<1> HIDE DEF t, i, m
<1>17. engine'[e].st = "up" /\ engine[e].st = "up" /\ mode' = mode /\ app' = app /\ DrainsOn
       /\ draining' \in [Loops -> BOOLEAN]
  BY <1>0, <1>1, <1>2, <1>5 DEF DrainsOn
<1> QED
  BY <1>3, <1>5, <1>7, <1>9, <1>10, <1>11, <1>12, <1>13, <1>14, <1>15, <1>16, <1>17, StepOfBoth

\* The first message of a client finds an engine that is up, or starts it.
LEMMA FirstFacts ==
    ASSUME IInv, ~Races, NEW c \in Connections, NEW e \in Engines, NEW rest \in BOOLEAN,
           FirstToEngine(c, e, rest)
    PROVE  \E first \in {"start", "cmd"} : \E g \in EngineType :
             /\ Arrives(c, e, [engine EXCEPT ![e] = g], first, rest)
             /\ g.st = "up" /\ ~g.closing /\ g.ctx \in {"none", "up"} /\ g.stops = 0
             /\ g.closing = engine[e].closing /\ g.ctx = engine[e].ctx /\ g.inMsgs = engine[e].inMsgs
             /\ g.waits = engine[e].waits /\ g.stops = engine[e].stops
             /\ engine[e].st = "up" \/ (engine[e].st = "none" /\ first = "start")
<1>0. engine \in [Engines -> EngineType] /\ EngineOK(e)
  BY TypeParts DEF IInv
<1>1. ~Doomed(e)
  BY DEF FirstToEngine, MayReach
<1>2. CASE engine[e].st = "none" /\ Arrives(c, e, [engine EXCEPT ![e].st = "up"], "start", rest)
  <2> DEFINE g == [engine[e] EXCEPT !.st = "up"]
  <2>1. /\ g \in EngineType /\ g.st = "up" /\ g.closing = engine[e].closing /\ g.ctx = engine[e].ctx
        /\ g.inMsgs = engine[e].inMsgs /\ g.waits = engine[e].waits /\ g.stops = engine[e].stops
    BY <1>0, SetSt
  <2>2. Arrives(c, e, [engine EXCEPT ![e] = g], "start", rest)
    BY <1>2
  <2>3. ~engine[e].closing /\ engine[e].ctx = "none" /\ engine[e].stops = 0
    BY <1>2, NotStarted
  <2> HIDE DEF g
  <2> QED
    BY <1>2, <2>1, <2>2, <2>3
<1>3. CASE e \in Listed(engine) /\ Arrives(c, e, engine, "cmd", rest)
  <2>1. engine[e].st \in {"up", "stopping", "stopped"} /\ ~engine[e].closing /\ engine[e].stops = 0
    BY <1>0, <1>1, <1>3 DEF Listed, Doomed, EngineType
  <2>2. engine[e].st = "up" /\ engine[e].ctx \in {"none", "up"}
    BY <1>0, <2>1 DEF EngineOK
  <2>3. engine = [engine EXCEPT ![e] = engine[e]]
    BY <1>0
  <2>4. Arrives(c, e, [engine EXCEPT ![e] = engine[e]], "cmd", rest)
    BY <1>3, <2>3
  <2> QED
    BY <1>0, <2>1, <2>2, <2>4
<1> QED
  BY <1>2, <1>3 DEF FirstToEngine

\* What the sets of those on their way and of those that close become.
LEMMA ReachCalm ==
    ASSUME IInv, ~Races, NEW c \in Connections, NEW e \in Engines, NEW rest \in BOOLEAN,
           FirstToEngine(c, e, rest), conn' \in [Connections -> ConnectionType],
           \A x \in Connections : x # c => conn'[x] = conn[x],
           \A d \in Engines : d # e => engine'[d] = engine[d],
           engine'[e].st = "up", engine'[e].closing = engine[e].closing,
           engine'[e].stops = engine[e].stops,
           conn'[c].to = e, conn'[c].hop \in Way \cup {"done"}, ~conn'[c].eof, ~conn'[c].pshut
    PROVE  Calm'
<1>0. Calm /\ \A x \in Connections : ConnectionOK(x)
  BY DEF IInv
<1>1. /\ UNCHANGED <<mode, app>>
      /\ app.state = "running" /\ ~Doomed(e)
      /\ ~mode.appLong => \A d \in Engines : ~Doomed(d)
      /\ engine[e].st \in {"none", "up", "stopping", "stopped"}
  BY DEF FirstToEngine, MayReach, AppDoomed, Listed
<1>2. \A d \in Engines : Doomed(d)' => Doomed(d)
  <2> SUFFICES ASSUME NEW d \in Engines, Doomed(d)' PROVE Doomed(d)
    OBVIOUS
  <2>1. engine[d].st # "gone"
    BY <1>1 DEF Doomed
  <2>2. \A x \in Connections :
          conn'[x].to = d /\ conn'[x].at \in {"engine", "remote"} /\ (conn'[x].eof \/ conn'[x].pshut) =>
          conn[x].to = d /\ conn[x].at \in {"engine", "remote"} /\ (conn[x].eof \/ conn[x].pshut)
    OBVIOUS
  <2>3. CASE d = e
    BY <1>1, <2>1, <2>2, <2>3 DEF Doomed
  <2>4. CASE d # e
    BY <1>1, <2>1, <2>2, <2>4 DEF Doomed
  <2> QED
    BY <2>3, <2>4
<1>3. ASSUME NEW x \in Connections, OnItsWay(x)', NEW d \in Engines, conn'[x].to = d
      PROVE  conn'[x].hop \in Way \cup {"done"} /\ engine'[d].st = "up" /\ ~Doomed(d)'
  <2>1. CASE x = c
    BY <1>1, <1>2, <1>3, <2>1
  <2>2. CASE x # c
    <3>1. OnItsWay(x) /\ conn[x].to = d
      BY <1>3, <2>2 DEF OnItsWay
    <3>2. conn[x].hop \in Way \cup {"done"} /\ engine[d].st = "up" /\ ~Doomed(d)
      BY <1>0, <3>1 DEF Calm
    <3>3. engine'[d].st = "up"
      BY <3>2
    <3> QED
      BY <1>2, <2>2, <3>2, <3>3
  <2> QED
    BY <2>1, <2>2
<1>4. (app.state = "running")' /\ (~mode.appLong => \A d \in Engines : ~Doomed(d))'
  BY <1>1, <1>2
<1> QED
  BY <1>3, <1>4 DEF Calm

\* The clients and tasks that an engine has already.
LEMMA ReachServes ==
    ASSUME IInv, NEW c \in Connections, NEW e \in Engines, engine'[e].st = "up",
           engine'[e].waits = engine[e].waits, UNCHANGED mode,
           \A m : (\E i \in 1 .. Len(engine[e].inMsgs) : engine[e].inMsgs[i] = m) =>
                   \E i \in 1 .. Len(engine'[e].inMsgs) : engine'[e].inMsgs[i] = m,
           In(queue, LoopOf(e), TaskFor("in_msgs", e)) => In(queue', LoopOf(e), TaskFor("in_msgs", e))
    PROVE  \A x \in Connections : x # c /\ conn[x].to = e => StillServed(x)
<1> SUFFICES ASSUME NEW x \in Connections, x # c, conn[x].to = e PROVE StillServed(x)
  OBVIOUS
<1>1. ConnectionOK(x)
  BY DEF IInv
<1>2. conn[x].hop = "waited" => engine'[e].waits = x
  BY <1>1 DEF ConnectionOK
<1>3. conn[x].at = "engine" =>
        /\ \E i \in 1 .. Len(engine'[e].inMsgs) : engine'[e].inMsgs[i].from = x
        /\ In(queue', LoopOf(e), TaskFor("in_msgs", e))
  <2> SUFFICES ASSUME conn[x].at = "engine"
               PROVE  /\ \E i \in 1 .. Len(engine'[e].inMsgs) : engine'[e].inMsgs[i].from = x
                      /\ In(queue', LoopOf(e), TaskFor("in_msgs", e))
    OBVIOUS
  <2>1. PICK i \in 1 .. Len(engine[e].inMsgs) : engine[e].inMsgs[i].from = x
    BY <1>1 DEF ConnectionOK
  <2>2. \E k \in 1 .. Len(engine'[e].inMsgs) : engine'[e].inMsgs[k] = engine[e].inMsgs[i]
    OBVIOUS
  <2>3. In(queue', LoopOf(e), TaskFor("in_msgs", e))
    BY <1>1 DEF ConnectionOK
  <2> QED
    BY <2>1, <2>2, <2>3
<1> QED
  BY <1>2, <1>3 DEF StillServed

\* The engine has a loop of its own: the stream starts its way to it.
LEMMA FirstMigrates ==
    ASSUME IInv, ~Races, NEW c \in Connections, NEW e \in Engines, NEW rest \in BOOLEAN,
           FirstToEngine(c, e, rest), mode.own
    PROVE  IInv'
<1>0. /\ TypeOK /\ AppOK /\ queue \in Queues /\ Ordered(queue)
      /\ engine \in [Engines -> EngineType] /\ conn \in [Connections -> ConnectionType]
      /\ draining \in [Loops -> BOOLEAN] /\ EngineOK(e) /\ ConnectionOK(c)
  BY TypeParts DEF IInv
<1>1. /\ UNCHANGED <<mode, app, draining>>
      /\ conn[c].at = "app" /\ conn[c].hop \in {"no", "reset"} /\ conn[c].stream = "open"
      /\ ~conn[c].eof /\ (rest => mode.batch) /\ app.state = "running" /\ e \in Loops
  BY DEF FirstToEngine, MayReach, AppDoomed, ReadsFirst, Reads, Loops
<1>2. PICK first \in {"start", "cmd"} : \E g \in EngineType :
             /\ Arrives(c, e, [engine EXCEPT ![e] = g], first, rest)
             /\ g.st = "up" /\ ~g.closing /\ g.ctx \in {"none", "up"} /\ g.stops = 0
             /\ g.closing = engine[e].closing /\ g.ctx = engine[e].ctx /\ g.inMsgs = engine[e].inMsgs
             /\ g.waits = engine[e].waits /\ g.stops = engine[e].stops
             /\ engine[e].st = "up" \/ (engine[e].st = "none" /\ first = "start")
  BY FirstFacts, ZenonT(40)
<1>3. PICK g \in EngineType :
             /\ Arrives(c, e, [engine EXCEPT ![e] = g], first, rest)
             /\ g.st = "up" /\ ~g.closing /\ g.ctx \in {"none", "up"} /\ g.stops = 0
             /\ g.closing = engine[e].closing /\ g.ctx = engine[e].ctx /\ g.inMsgs = engine[e].inMsgs
             /\ g.waits = engine[e].waits /\ g.stops = engine[e].stops
             /\ engine[e].st = "up" \/ (engine[e].st = "none" /\ first = "start")
  BY <1>2
<1>4. /\ engine' \in [Engines -> EngineType] /\ engine'[e] = g /\ UNCHANGED queue
      /\ \A d \in Engines : d # e => engine'[d] = engine[d]
      /\ conn' = [conn EXCEPT ![c].to = e, ![c].hop = "asked", ![c].first = first, ![c].rest = rest]
  <2>1. /\ engine' = [engine EXCEPT ![e] = g] /\ UNCHANGED queue
        /\ conn' = [conn EXCEPT ![c].to = e, ![c].hop = "asked", ![c].first = first, ![c].rest = rest]
    BY <1>3 DEF Arrives
  <2> QED
    BY <1>0, <2>1
<1>5. LET r == conn[c]
          s == conn'[c] IN
      /\ conn' \in [Connections -> ConnectionType]
      /\ \A x \in Connections : x # c => conn'[x] = conn[x]
      /\ s.at = "app" /\ s.to = e /\ s.hop = "asked" /\ s.first = first /\ s.rest = rest
      /\ s.pshut = r.pshut /\ s.eof = r.eof /\ s.stream = r.stream
  <2> DEFINE a == [conn[c] EXCEPT !.hop = "asked"]
             s == Read(a, e, first, rest)
  <2>1. conn' = [conn EXCEPT ![c] = s]
    BY <1>4 DEF Read
  <2>2. /\ a \in ConnectionType /\ a.hop = "asked" /\ a.at = "app" /\ a.stream = conn[c].stream
        /\ a.pshut = conn[c].pshut /\ a.eof = conn[c].eof
    <3>1. conn[c] \in ConnectionType /\ conn[c].at = "app"
      BY <1>0, <1>1
    <3> QED
      BY ONLY <3>1, SetHop DEF a
  <2> HIDE DEF a
  <2>3. /\ s \in ConnectionType /\ s.to = e /\ s.first = first /\ s.rest = rest
        /\ s.at = a.at /\ s.hop = a.hop
        /\ s.pshut = a.pshut /\ s.eof = a.eof /\ s.stream = a.stream
    <3>1. /\ a \in ConnectionType /\ e \in Engines /\ first \in {"start", "cmd"}
          /\ rest \in BOOLEAN
      BY <2>2
    <3> QED
      BY ONLY <3>1, SetTo
  <2> HIDE DEF s
  <2> QED
    BY <1>0, <2>1, <2>2, <2>3
<1>6. conn[c].hop \notin Way /\ conn[c].at # "engine" /\ ~conn'[c].pshut /\ ~conn'[c].eof
  BY <1>0, <1>1, <1>5 DEF Way, ConnectionOK, Attached
<1>7. ConnectionOK(c)'
  BY <1>0, <1>1, <1>3, <1>4, <1>5, <1>6 DEF ConnectionOK, Attached, Way
<1>8. \A l \in Loops : MoveTasksOK(l, c)'
  <2>1. AttachedLoop(c) = App /\ AttachedLoop(c)' = App
    BY <1>1, <1>5 DEF AttachedLoop
  <2> QED
    BY <1>1, <1>4, <1>5, <1>6, <2>1 DEF IInv, TasksOK, MoveTasksOK
<1>9. \A l \in Loops : GraphTasksOK(l, e)'
  <2>1. CASE engine[e].st = "none"
    <3>1. \A k \in Loops : \A f \in GraphTasks : ~In(queue', k, TaskFor(f, e))
      BY <1>4, <2>1, NotStarted
    <3> QED
      BY <3>1 DEF GraphTasksOK, GraphTasks
  <2>2. CASE engine[e].st = "up"
    BY <1>1, <1>3, <1>4, <2>2, GraphTasksKept DEF IInv, TasksOK
  <2> QED
    BY <1>3, <2>1, <2>2
<1>10. EngineOK(e)'
  <2>1. RemotesOf(e, conn') = RemotesOf(e, conn)
    BY <1>1, <1>5 DEF RemotesOf
  <2>2. \A x \in Connections :
          /\ OnTheWay(x, e) => x # c /\ OnTheWay(x, e)' /\ conn'[x] = conn[x]
          /\ conn[x].hop \in Way => x # c /\ conn'[x] = conn[x]
    BY <1>5, <1>6 DEF OnTheWay
  <2>3. OnTheWay(c, e)' /\ conn'[c].hop \in Way
    BY <1>5 DEF OnTheWay, Way
  <2>4. g.ctx = "none" =>
          /\ \/ \E x \in Connections : OnTheWay(x, e)' /\ conn'[x].first = "start"
             \/ HasStart(g.inMsgs) /\ RemotesOf(e, conn') = {}
          /\ \/ \E x \in Connections :
                  conn'[x].hop \in Way /\ conn'[x].to = e /\ conn'[x].first = "start"
             \/ HasStart(g.inMsgs)
    <3>1. CASE engine[e].st = "none"
      BY <1>3, <1>5, <2>3, <3>1
    <3>2. CASE engine[e].st = "up" /\ g.ctx = "none"
      <4>1. /\ \/ \E x \in Connections : OnTheWay(x, e) /\ conn[x].first = "start"
               \/ HasStart(g.inMsgs) /\ RemotesOf(e, conn) = {}
            /\ \/ \E x \in Connections :
                    conn[x].hop \in Way /\ conn[x].to = e /\ conn[x].first = "start"
               \/ HasStart(g.inMsgs)
        BY <1>0, <1>3, <3>2 DEF EngineOK
      <4>2. (\E x \in Connections : OnTheWay(x, e) /\ conn[x].first = "start") =>
            \E x \in Connections : OnTheWay(x, e)' /\ conn'[x].first = "start"
        BY <2>2
      <4>3. (\E x \in Connections : conn[x].hop \in Way /\ conn[x].to = e /\ conn[x].first = "start") =>
            \E x \in Connections : conn'[x].hop \in Way /\ conn'[x].to = e /\ conn'[x].first = "start"
        BY <2>2
      <4> QED
        BY <2>1, <4>1, <4>2, <4>3
    <3> QED
      BY <1>3, <3>1, <3>2
  <2>5. \A k \in 1 .. Len(g.inMsgs) :
          /\ g.inMsgs[k].from # None =>
                LET r == conn'[g.inMsgs[k].from] IN
                r.at = "engine" /\ r.to = e /\ r.first = g.inMsgs[k].kind
          /\ g.inMsgs[k].kind = "stop" => g.stops = 1
    <3>1. \A k \in 1 .. Len(g.inMsgs) : g.inMsgs[k].from \in Connections \cup {None}
      BY MessageSenders
    <3> QED
      BY <1>0, <1>3, <1>5, <1>6, <3>1 DEF EngineOK
  <2>6. g.waits # None => conn'[g.waits].hop = "waited" /\ conn'[g.waits].to = e
    <3>1. g.waits \in Connections \cup {None}
      BY MessageSenders
    <3> QED
      BY <1>0, <1>1, <1>3, <1>5, <3>1 DEF EngineOK
  <2>7. engine'[e] = g /\ g.st = "up" /\ ~g.closing /\ g.ctx \in {"none", "up"}
    BY <1>3, <1>4
  <2> QED
    BY ONLY <2>4, <2>5, <2>6, <2>7 DEF EngineOK
<1>11. Calm'
  <2>1. conn'[c].hop \in Way \cup {"done"}
    BY <1>5 DEF Way
  <2> QED
    BY <1>3, <1>4, <1>5, <1>6, <2>1, ReachCalm
<1>12. \A x \in Connections : x # c /\ conn[x].to = e => StillServed(x)
  BY <1>1, <1>3, <1>4, ReachServes
<1>13. \A d \in Engines : d # e => StillAwaited(c, d)
  BY <1>1, <1>5, <1>6 DEF StillAwaited, OnTheWay
<1>14. TasksKept(queue, queue', {c}, {e}) /\ DrainsOn
  BY <1>1, <1>4 DEF TasksKept, DrainsOn
<1>15. queue' \in Queues /\ Ordered(queue') /\ draining' \in [Loops -> BOOLEAN]
  BY <1>0, <1>1, <1>4
<1> QED
  BY <1>1, <1>3, <1>4, <1>5, <1>7, <1>8, <1>9, <1>10, <1>11, <1>12, <1>13, <1>14, <1>15, StepOfBoth

\* The engine runs in the app's loop: it takes the connection over at once.
LEMMA FirstAtOnce ==
    ASSUME IInv, ~Races, NEW c \in Connections, NEW e \in Engines, NEW rest \in BOOLEAN,
           FirstToEngine(c, e, rest), ~mode.own
    PROVE  IInv'
<1> DEFINE t == TaskFor("cleaned", c)
           i == TaskFor("in_msgs", e)
           msgs == engine[e].inMsgs
<1>0. /\ TypeOK /\ AppOK /\ queue \in Queues /\ Ordered(queue)
      /\ engine \in [Engines -> EngineType] /\ conn \in [Connections -> ConnectionType]
      /\ draining \in [Loops -> BOOLEAN] /\ EngineOK(e) /\ \A x \in Connections : ConnectionOK(x)
      /\ App \in Loops /\ c # None
  BY TypeParts, NoneAssumption DEF IInv, Loops
<1>1. /\ UNCHANGED <<mode, app, draining>>
      /\ conn[c].at = "app" /\ conn[c].hop \in {"no", "reset"} /\ conn[c].stream = "open"
      /\ ~conn[c].eof /\ (rest => mode.batch) /\ app.state = "running"
      /\ LoopOf(e) = App /\ LoopOf(e)' = App
  BY DEF FirstToEngine, MayReach, AppDoomed, ReadsFirst, Reads, LoopOf
<1>2. PICK first \in {"start", "cmd"} : \E g \in EngineType :
             /\ Arrives(c, e, [engine EXCEPT ![e] = g], first, rest)
             /\ g.st = "up" /\ ~g.closing /\ g.ctx \in {"none", "up"} /\ g.stops = 0
             /\ g.closing = engine[e].closing /\ g.ctx = engine[e].ctx /\ g.inMsgs = engine[e].inMsgs
             /\ g.waits = engine[e].waits /\ g.stops = engine[e].stops
             /\ engine[e].st = "up" \/ (engine[e].st = "none" /\ first = "start")
  BY FirstFacts, ZenonT(40)
<1>3. PICK g \in EngineType :
             /\ Arrives(c, e, [engine EXCEPT ![e] = g], first, rest)
             /\ g.st = "up" /\ ~g.closing /\ g.ctx \in {"none", "up"} /\ g.stops = 0
             /\ g.closing = engine[e].closing /\ g.ctx = engine[e].ctx /\ g.inMsgs = engine[e].inMsgs
             /\ g.waits = engine[e].waits /\ g.stops = engine[e].stops
             /\ engine[e].st = "up" \/ (engine[e].st = "none" /\ first = "start")
  BY <1>2
<1> DEFINE m == [from |-> c, kind |-> first]
           more == Append(msgs, m)
<1>4. /\ engine' = Appended([engine EXCEPT ![e] = g], e, m)
      /\ queue' = Post(Post(queue, App, t), App, i)
      /\ conn' = [conn EXCEPT ![c].to = e, ![c].hop = "done", ![c].first = first, ![c].rest = rest,
                              ![c].at = "engine"]
  BY <1>1, <1>3 DEF Arrives, InMsgsPosted
<1>5. LET r == conn[c]
          s == conn'[c] IN
      /\ conn' \in [Connections -> ConnectionType]
      /\ \A x \in Connections : x # c => conn'[x] = conn[x]
      /\ s.at = "engine" /\ s.to = e /\ s.hop = "done" /\ s.first = first /\ s.rest = rest
      /\ s.pshut = r.pshut /\ s.eof = r.eof /\ s.stream = r.stream
  <2> DEFINE a == [conn[c] EXCEPT !.hop = "done"]
             b == Read(a, e, first, rest)
             s == [b EXCEPT !.at = "engine"]
  <2>1. conn' = [conn EXCEPT ![c] = s]
    BY <1>4 DEF Read
  <2>2. /\ a \in ConnectionType /\ a.hop = "done" /\ a.stream = conn[c].stream
        /\ a.pshut = conn[c].pshut /\ a.eof = conn[c].eof
    <3>1. conn[c] \in ConnectionType
      BY <1>0
    <3> QED
      BY ONLY <3>1, SetHop DEF a
  <2> HIDE DEF a
  <2>3. /\ b \in ConnectionType /\ b.to = e /\ b.first = first /\ b.rest = rest /\ b.hop = a.hop
        /\ b.pshut = a.pshut /\ b.eof = a.eof /\ b.stream = a.stream
    <3>1. /\ a \in ConnectionType /\ e \in Engines /\ first \in {"start", "cmd"}
          /\ rest \in BOOLEAN
      BY <2>2
    <3> QED
      BY ONLY <3>1, SetTo
  <2> HIDE DEF b
  <2>4. /\ s \in ConnectionType /\ s.at = "engine"
        /\ s.to = b.to /\ s.first = b.first /\ s.rest = b.rest /\ s.hop = b.hop
        /\ s.pshut = b.pshut /\ s.eof = b.eof /\ s.stream = b.stream
    BY ONLY <2>3, SetAt
  <2> HIDE DEF s
  <2> QED
    BY <1>0, <2>1, <2>2, <2>3, <2>4
<1>6. conn[c].hop \notin Way /\ conn[c].at # "engine" /\ ~conn'[c].pshut /\ ~conn'[c].eof
  BY <1>0, <1>1, <1>5 DEF Way, ConnectionOK, Attached
<1>7. /\ more \in Seq(Messages)
      /\ \A k \in 1 .. Len(msgs) : k \in 1 .. Len(more) /\ more[k] = msgs[k]
      /\ \E k \in 1 .. Len(more) : more[k].from = c
      /\ HasStart(msgs) => HasStart(more)
      /\ first = "start" => HasStart(more)
      /\ \A k \in 1 .. Len(more) :
           /\ more[k].from # None =>
                \/ more[k].from = c /\ more[k].kind = first
                \/ /\ more[k].from \in Connections \ {c}
                   /\ conn[more[k].from].at = "engine" /\ conn[more[k].from].to = e
                   /\ conn[more[k].from].first = more[k].kind
           /\ more[k].kind = "stop" => engine[e].stops = 1
  <2>1. m \in Messages /\ m.from = c /\ m.kind = first /\ m.kind # "stop"
    BY DEF Messages
  <2>2. Extends(more, engine[e].inMsgs, m)
    BY DEF Extends
  <2> HIDE DEF more, m
  <2> QED
    BY <1>3, <1>6, <2>1, <2>2, FirstAppended
<1>8. LET h == engine'[e] IN
      /\ engine' \in [Engines -> EngineType]
      /\ \A d \in Engines : d # e => engine'[d] = engine[d]
      /\ h.waits = engine[e].waits /\ h.ctx = engine[e].ctx /\ h.st = "up" /\ ~h.closing
      /\ h.closing = engine[e].closing
      /\ h.inMsgs = more /\ h.stops = 0 /\ h.stops = engine[e].stops
  <2> DEFINE h == [g EXCEPT !.inMsgs = more]
  <2>1. engine' = [engine EXCEPT ![e] = h]
    BY <1>0, <1>3, <1>4 DEF Appended
  <2> HIDE DEF more
  <2>2. /\ h \in EngineType /\ h.st = g.st /\ h.inMsgs = more
        /\ h.closing = g.closing /\ h.ctx = g.ctx
        /\ h.stops = g.stops /\ h.waits = g.waits
    BY <1>7, SetInMsgs
  <2> HIDE DEF h
  <2> QED
    BY <1>0, <1>3, <2>1, <2>2
<1> HIDE DEF more, m
<1>9. \A k \in Loops :
        /\ ~In(queue, k, TaskFor("close_engine", e)) /\ ~In(queue, k, TaskFor("context_closed", e))
        /\ ~In(queue, k, TaskFor("engine_closed", e))
        /\ ~In(queue, k, TaskFor("clean", c)) /\ ~In(queue, k, TaskFor("accepted", c))
        /\ ~In(queue, k, TaskFor("proto_close", c))
  BY <1>1, <1>3 DEF IInv, TasksOK, MoveTasksOK, GraphTasksOK
<1>10. /\ queue' \in Queues /\ Ordered(queue') /\ TasksKept(queue, queue', {c}, {e})
       /\ \A k \in Loops : \A u : In(queue', k, u) <=> In(queue, k, u) \/ (k = App /\ u \in {i, t})
       /\ \A k \in Loops : In(queue', k, TaskFor("close_app", App)) => In(queue, k, TaskFor("close_app", App))
  <2>1. ~In(queue, App, TaskFor("clean", c)) /\ ~In(queue, App, TaskFor("close_engine", e))
    BY <1>0, <1>9
  <2>2. Accepts(App)
    BY <1>0, <1>1 DEF AppOK, Accepts
  <2>3. \/ queue' = Post(Post(queue, App, i), App, t) /\ ~In(queue, App, t)
        \/ queue' = Post(Post(queue, App, t), App, i)
    BY <1>4
  <2>4. LET p == queue' IN
        /\ p \in Queues /\ Ordered(p) /\ TasksKept(queue, p, {c}, {e})
        /\ \A k \in Loops : \A u :
             In(p, k, u) <=> In(queue, k, u) \/ (k = App /\ u \in {TaskFor("in_msgs", e), TaskFor("cleaned", c)})
        /\ \A k \in Loops : In(p, k, TaskFor("close_app", App)) => In(queue, k, TaskFor("close_app", App))
        /\ p = Post(Post(queue, App, TaskFor("in_msgs", e)), App, TaskFor("cleaned", c))
             /\ ~In(queue, App, TaskFor("cleaned", c)) =>
             AllBehind(p, App, TaskFor("cleaned", c), TaskFor("in_msgs", e))
    BY ONLY <1>0, <2>1, <2>2, <2>3, TakesOver
  <2> QED
    BY <2>4
<1>11. ConnectionOK(c)'
  <2>1. /\ \E k \in 1 .. Len(engine'[e].inMsgs) : engine'[e].inMsgs[k].from = c
        /\ engine'[e].st = "up" /\ In(queue', App, i)
    BY <1>0, <1>7, <1>8, <1>10
  <2>2. /\ conn'[c].at = "engine" /\ conn'[c].to = e /\ conn'[c].hop = "done" /\ conn'[c].stream = "open"
        /\ ~conn'[c].pshut /\ ~conn'[c].eof /\ (conn'[c].rest => mode'.batch) /\ ~mode'.own
    BY <1>1, <1>5, <1>6
  <2> QED
    BY <1>1, <2>1, <2>2 DEF ConnectionOK, Attached, Way
<1>12. \A l \in Loops : MoveTasksOK(l, c)'
  <2>1. AttachedLoop(c) = App /\ AttachedLoop(c)' = App
    BY <1>1, <1>5 DEF AttachedLoop
  <2>2. \A l \in Loops : /\ ~In(queue', l, TaskFor("accepted", c)) /\ ~In(queue', l, TaskFor("clean", c))
                         /\ ~In(queue', l, TaskFor("proto_close", c))
                         /\ In(queue', l, t) => In(queue, l, t) \/ l = App
    BY <1>9, <1>10, SameTask
  <2>3. \A l \in Loops : In(queue', l, t) => l = App
    BY <1>1, <2>1, <2>2 DEF IInv, TasksOK, MoveTasksOK
  <2> QED
    BY <1>1, <1>5, <2>1, <2>2, <2>3 DEF MoveTasksOK, Attached
<1>13. \A l \in Loops : GraphTasksOK(l, e)'
  <2>1. \A l \in Loops : /\ ~In(queue', l, TaskFor("close_engine", e))
                         /\ ~In(queue', l, TaskFor("context_closed", e))
                         /\ ~In(queue', l, TaskFor("engine_closed", e))
                         /\ In(queue', l, i) => In(queue, l, i) \/ l = App
    BY <1>9, <1>10, SameTask
  <2>2. \A l \in Loops : In(queue', l, i) => l = App
    BY <1>1, <2>1 DEF IInv, TasksOK, GraphTasksOK
  <2> QED
    BY <1>1, <1>8, <2>1, <2>2 DEF GraphTasksOK
<1>14. EngineOK(e)'
  <2>1. RemotesOf(e, conn') = RemotesOf(e, conn)
    BY <1>1, <1>5 DEF RemotesOf
  <2>2. \A x \in Connections :
          /\ OnTheWay(x, e) => x # c /\ OnTheWay(x, e)' /\ conn'[x] = conn[x]
          /\ conn[x].hop \in Way => x # c /\ conn'[x] = conn[x]
    BY <1>5, <1>6 DEF OnTheWay
  <2>3. OnTheWay(c, e)'
    BY <1>5 DEF OnTheWay
  <2>4. engine[e].ctx = "none" =>
          /\ \/ \E x \in Connections : OnTheWay(x, e)' /\ conn'[x].first = "start"
             \/ HasStart(more) /\ RemotesOf(e, conn') = {}
          /\ \/ \E x \in Connections :
                  conn'[x].hop \in Way /\ conn'[x].to = e /\ conn'[x].first = "start"
             \/ HasStart(more)
    <3>1. CASE engine[e].st = "none"
      BY <1>3, <1>5, <1>7, <2>3, <3>1
    <3>2. CASE engine[e].st = "up" /\ engine[e].ctx = "none"
      <4>1. /\ \/ \E x \in Connections : OnTheWay(x, e) /\ conn[x].first = "start"
               \/ HasStart(msgs) /\ RemotesOf(e, conn) = {}
            /\ \/ \E x \in Connections :
                    conn[x].hop \in Way /\ conn[x].to = e /\ conn[x].first = "start"
               \/ HasStart(msgs)
        BY <1>0, <1>3, <3>2 DEF EngineOK
      <4>2. (\E x \in Connections : OnTheWay(x, e) /\ conn[x].first = "start") =>
            \E x \in Connections : OnTheWay(x, e)' /\ conn'[x].first = "start"
        BY <2>2
      <4>3. (\E x \in Connections : conn[x].hop \in Way /\ conn[x].to = e /\ conn[x].first = "start") =>
            \E x \in Connections : conn'[x].hop \in Way /\ conn'[x].to = e /\ conn'[x].first = "start"
        BY <2>2
      <4> QED
        BY <1>7, <2>1, <4>1, <4>2, <4>3
    <3> QED
      BY <1>3, <3>1, <3>2
  <2>5. \A k \in 1 .. Len(more) :
          /\ more[k].from # None =>
                LET r == conn'[more[k].from] IN
                r.at = "engine" /\ r.to = e /\ r.first = more[k].kind
          /\ more[k].kind = "stop" => engine'[e].stops = 1
    BY <1>5, <1>7, <1>8
  <2>6. engine[e].waits # None => conn'[engine[e].waits].hop = "waited" /\ conn'[engine[e].waits].to = e
    <3>1. engine[e].waits \in Connections \cup {None}
      BY <1>0 DEF EngineType
    <3> QED
      BY <1>0, <1>1, <1>5, <3>1 DEF EngineOK
  <2>7. LET h == engine'[e] IN
        h.st = "up" /\ ~h.closing /\ h.ctx \in {"none", "up"} /\ h.ctx = engine[e].ctx
        /\ h.waits = engine[e].waits /\ h.inMsgs = more
    BY <1>3, <1>8
  <2> QED
    BY ONLY <2>4, <2>5, <2>6, <2>7 DEF EngineOK
<1>15. Calm'
  BY <1>5, <1>6, <1>8, ReachCalm
<1>16. \A x \in Connections : x # c /\ conn[x].to = e => StillServed(x)
  <2>1. \A n : (\E k \in 1 .. Len(engine[e].inMsgs) : engine[e].inMsgs[k] = n) =>
                  \E k \in 1 .. Len(engine'[e].inMsgs) : engine'[e].inMsgs[k] = n
    BY <1>7, <1>8
  <2>2. In(queue, LoopOf(e), TaskFor("in_msgs", e)) => In(queue', LoopOf(e), TaskFor("in_msgs", e))
    BY <1>0, <1>1, <1>10
  <2> QED
    BY <1>1, <1>8, <2>1, <2>2, ReachServes
<1>17. \A d \in Engines : d # e => StillAwaited(c, d)
  BY <1>1, <1>5, <1>6 DEF StillAwaited, OnTheWay
<1> HIDE DEF t, i, msgs
<1>18. /\ engine'[e].st = "up" /\ app.state = "running" /\ mode' = mode /\ app' = app /\ DrainsOn
       /\ draining' \in [Loops -> BOOLEAN]
  BY <1>0, <1>1, <1>8 DEF DrainsOn
<1> QED
  BY <1>5, <1>8, <1>10, <1>11, <1>12, <1>13, <1>14, <1>15, <1>16, <1>17, <1>18, StepOfBoth

LEMMA FirstToEngineStep ==
    ASSUME IInv, ~Races, NEW c \in Connections, NEW e \in Engines, NEW rest \in BOOLEAN,
           FirstToEngine(c, e, rest)
    PROVE  IInv'
BY FirstMigrates, FirstAtOnce

-----------------------------------------------------------------------------
(* The tasks of an engine. *)

\* A loop takes a task of the engine e.
LEMMA TakesGraphTask ==
    ASSUME TypeOK, Ordered(queue), NEW l \in Loops, NEW f \in GraphTasks, NEW e \in Engines,
           Task(f, l, e)
    PROVE  LET q == Taken(l)
               h == TaskFor(f, e) IN
           /\ q \in Queues /\ Ordered(q) /\ In(queue, l, h)
           /\ \A k \in Loops : \A u : In(q, k, u) => In(queue, k, u)
           /\ \A k \in Loops : \A u : In(queue, k, u) /\ u # h => In(q, k, u)
           /\ \A u : In(q, l, u) => Behind(queue, l, u, h)
           /\ f # "in_msgs" => ~In(q, l, h)
           /\ \A k \in Loops : \A u, s : AllBehind(queue, k, u, s) /\ (k # l \/ s # h) => AllBehind(q, k, u, s)
<1>1. queue \in Queues /\ f # "cleaned"
  BY TypeParts DEF GraphTasks
<1> QED
  BY <1>1, Takes, OrderTaken

\* The loop goes on until its queue is empty.
LEMMA DrainsNext ==
    ASSUME TypeOK, queue' \in Queues, NEW l \in Loops, Drained(l)
    PROVE  /\ draining' \in [Loops -> BOOLEAN] /\ DrainsOn
           /\ \A u : In(queue', l, u) => draining'[l]
<1>1. /\ draining \in [Loops -> BOOLEAN]
      /\ draining' = [draining EXCEPT ![l] = queue'[l] # <<>>]
  BY TypeParts DEF Drained
<1>2. /\ draining' \in [Loops -> BOOLEAN]
      /\ \A k \in Loops : k # l => draining'[k] = draining[k]
      /\ draining'[l] = (queue'[l] # <<>>)
  BY <1>1
<1>3. \A u : In(queue', l, u) => queue'[l] # <<>>
  BY NotEmpty DEF Queues
<1> QED
  BY <1>2, <1>3 DEF DrainsOn

\* Only tasks of engines of G and of the app come or go.
LEMMA GraphTasksOnly ==
    ASSUME NEW q, NEW p, NEW K \in SUBSET Connections, NEW G \in SUBSET Engines,
           \A k \in Loops : \A u :
             (\A f \in GraphTasks : \A e \in G : u # TaskFor(f, e)) /\ u # TaskFor("close_app", App) =>
             (In(p, k, u) <=> In(q, k, u)),
           \A e \in Engines \ G : \A x \in Connections :
             AllBehind(q, e, TaskFor("cleaned", x), TaskFor("in_msgs", e)) =>
             AllBehind(p, e, TaskFor("cleaned", x), TaskFor("in_msgs", e)),
           \A x \in Connections \ K : conn[x].to \in G => conn[x].at # "engine"
    PROVE  TasksKept(q, p, K, G)
<1>1. ASSUME NEW l \in Loops, NEW f \in GraphTasks, NEW e \in Engines \ G
      PROVE  In(p, l, TaskFor(f, e)) <=> In(q, l, TaskFor(f, e))
  <2>1. \A g \in GraphTasks : \A d \in G : TaskFor(f, e) # TaskFor(g, d)
    BY SameTask
  <2>2. TaskFor(f, e) # TaskFor("close_app", App)
    BY SameTask DEF GraphTasks
  <2> QED
    BY <2>1, <2>2
<1>2. ASSUME NEW l \in Loops, NEW f \in MoveTasks, NEW x \in Connections
      PROVE  In(p, l, TaskFor(f, x)) <=> In(q, l, TaskFor(f, x))
  <2>1. \A g \in GraphTasks : \A d \in G : TaskFor(f, x) # TaskFor(g, d)
    BY SameTask DEF MoveTasks, GraphTasks
  <2>2. TaskFor(f, x) # TaskFor("close_app", App)
    BY SameTask DEF MoveTasks
  <2> QED
    BY <2>1, <2>2
<1> QED
  BY <1>1, <1>2 DEF TasksKept

\* An engine that closes, or will close, has nobody on the way to it.
LEMMA NobodyComes ==
    ASSUME IInv, NEW e \in Engines, Doomed(e)
    PROVE  /\ \A x \in Connections : conn[x].to = e =>
                ~OnItsWay(x) /\ conn[x].at # "engine" /\ conn[x].hop \notin Way /\ ~OnTheWay(x, e)
           /\ engine[e].waits = None
           /\ \A i \in 1 .. Len(engine[e].inMsgs) : engine[e].inMsgs[i].from = None
           /\ ~mode.appLong => \A x \in Connections : ~OnItsWay(x)
<1>1. Calm /\ EngineOK(e)
  BY DEF IInv
<1>2. \A x \in Connections : conn[x].to = e => ~OnItsWay(x)
  BY <1>1 DEF Calm
<1>3. \A x \in Connections : conn[x].to = e =>
        conn[x].at # "engine" /\ conn[x].hop \notin Way /\ ~OnTheWay(x, e)
  BY <1>2 DEF OnItsWay, OnTheWay, Way
<1>4. engine[e] \in EngineType
  BY TypeParts DEF IInv
<1>5. engine[e].waits = None
  <2>1. engine[e].waits \in Connections \cup {None}
    BY <1>4, MessageSenders
  <2>2. engine[e].waits # None => conn[engine[e].waits].hop \in Way /\ conn[engine[e].waits].to = e
    BY <1>1 DEF EngineOK, Way
  <2> QED
    BY <1>3, <2>1, <2>2
<1>6. \A i \in 1 .. Len(engine[e].inMsgs) : engine[e].inMsgs[i].from = None
  <2> SUFFICES ASSUME NEW i \in 1 .. Len(engine[e].inMsgs), engine[e].inMsgs[i].from # None
               PROVE  FALSE
    OBVIOUS
  <2>1. engine[e].inMsgs[i].from \in Connections
    BY <1>4, MessageSenders
  <2>2. conn[engine[e].inMsgs[i].from].at = "engine" /\ conn[engine[e].inMsgs[i].from].to = e
    BY <1>1 DEF EngineOK
  <2> QED
    BY <1>3, <2>1, <2>2
<1>7. ~mode.appLong => \A x \in Connections : ~OnItsWay(x)
  BY <1>1 DEF Calm
<1> QED
  BY <1>2, <1>3, <1>5, <1>6, <1>7

\* What InMsgs does: starts and closes say which of the messages are handled.
LEMMA InMsgsFacts ==
    ASSUME IInv, NEW l \in Loops, NEW e \in Engines, InMsgs(l, e)
    PROVE  \E starts, closes \in BOOLEAN : \E set \in SUBSET {e} :
             /\ engine[e].st = "up" /\ l = LoopOf(e)
             /\ starts <=> ~engine[e].closing /\ HasStart(engine[e].inMsgs)
             /\ closes => ~engine[e].closing /\ engine[e].stops = 1
             /\ set = {e} <=> closes
             /\ conn' = [c \in Connections |->
                   IF c \in {engine[e].inMsgs[i].from : i \in DOMAIN engine[e].inMsgs} /\ conn[c].at = "engine"
                   THEN [conn[c] EXCEPT !.at = "remote"] ELSE conn[c]]
             /\ engine' = [CloseAsync(engine, set) EXCEPT
                   ![e].inMsgs = <<>>, ![e].ctx = IF starts THEN "up" ELSE @]
             /\ queue' = ClosePosted(Taken(l), set)
             /\ Task("in_msgs", l, e) /\ UNCHANGED <<mode, app>> /\ Drained(l)
<1> DEFINE msgs == engine[e].inMsgs
           Handled == {i \in DOMAIN msgs :
             ~engine[e].closing /\ \A j \in 1..(i - 1) : msgs[j].kind # "stop"}
           Has(kind) == \E i \in Handled : msgs[i].kind = kind
           set == IF Has("stop") THEN {e} ELSE {}
<1>0. queue \in Queues /\ engine[e] \in EngineType /\ EngineOK(e)
  BY TypeParts DEF IInv
<1>1. /\ conn' = [c \in Connections |->
             IF c \in {msgs[i].from : i \in DOMAIN msgs} /\ conn[c].at = "engine"
             THEN [conn[c] EXCEPT !.at = "remote"] ELSE conn[c]]
      /\ engine' = [CloseAsync(engine, set) EXCEPT
             ![e].inMsgs = <<>>, ![e].ctx = IF Has("start") THEN "up" ELSE @]
      /\ queue' = ClosePosted(Taken(l), set)
      /\ Task("in_msgs", l, e) /\ UNCHANGED <<mode, app>> /\ Drained(l)
  BY DEF InMsgs
<1>2. engine[e].st = "up" /\ l = LoopOf(e)
  <2>1. In(queue, l, TaskFor("in_msgs", e))
    BY <1>0, <1>1, Takes
  <2> QED
    BY <2>1, SMTT(30) DEF IInv, TasksOK, GraphTasksOK
<1>3. DOMAIN msgs = 1 .. Len(msgs)
  BY <1>0 DEF EngineType
<1>4. Has("start") <=> ~engine[e].closing /\ HasStart(msgs)
  BY <1>3 DEF HasStart
<1>5. Has("stop") => ~engine[e].closing /\ engine[e].stops = 1
  BY <1>0, <1>3 DEF EngineOK
<1>6. set \in SUBSET {e} /\ (set = {e} <=> Has("stop"))
  OBVIOUS
<1>7. Has("start") \in BOOLEAN /\ Has("stop") \in BOOLEAN
  OBVIOUS
<1> HIDE DEF Has, Handled, set
<1> QED
  BY <1>1, <1>2, <1>4, <1>5, <1>6, <1>7

LEMMA InMsgsStep ==
    ASSUME IInv, NEW l \in Loops, NEW e \in Engines, InMsgs(l, e)
    PROVE  IInv'
<1> DEFINE msgs == engine[e].inMsgs
           K == {x \in Connections : conn[x].at = "engine" /\ conn[x].to = e}
           G == {e}
           i == TaskFor("in_msgs", e)
           q == Taken(l)
<1>0. /\ TypeOK /\ AppOK /\ Calm /\ queue \in Queues /\ Ordered(queue) /\ mode \in Modes
      /\ engine \in [Engines -> EngineType] /\ conn \in [Connections -> ConnectionType]
      /\ EngineOK(e) /\ \A x \in Connections : ConnectionOK(x)
      /\ app \in AppType /\ i \in Tasks /\ "in_msgs" \in GraphTasks
  BY TypeParts, TaskKinds DEF IInv, GraphTasks
<1>1. PICK starts, closes \in BOOLEAN : \E set \in SUBSET {e} :
             /\ engine[e].st = "up" /\ l = LoopOf(e)
             /\ starts <=> ~engine[e].closing /\ HasStart(msgs)
             /\ closes => ~engine[e].closing /\ engine[e].stops = 1
             /\ set = {e} <=> closes
             /\ conn' = [c \in Connections |->
                   IF c \in {msgs[k].from : k \in DOMAIN msgs} /\ conn[c].at = "engine"
                   THEN [conn[c] EXCEPT !.at = "remote"] ELSE conn[c]]
             /\ engine' = [CloseAsync(engine, set) EXCEPT
                   ![e].inMsgs = <<>>, ![e].ctx = IF starts THEN "up" ELSE @]
             /\ queue' = ClosePosted(q, set)
             /\ Task("in_msgs", l, e) /\ UNCHANGED <<mode, app>> /\ Drained(l)
  BY InMsgsFacts
<1>2. PICK set \in SUBSET {e} :
             /\ engine[e].st = "up" /\ l = LoopOf(e)
             /\ starts <=> ~engine[e].closing /\ HasStart(msgs)
             /\ closes => ~engine[e].closing /\ engine[e].stops = 1
             /\ set = {e} <=> closes
             /\ conn' = [c \in Connections |->
                   IF c \in {msgs[k].from : k \in DOMAIN msgs} /\ conn[c].at = "engine"
                   THEN [conn[c] EXCEPT !.at = "remote"] ELSE conn[c]]
             /\ engine' = [CloseAsync(engine, set) EXCEPT
                   ![e].inMsgs = <<>>, ![e].ctx = IF starts THEN "up" ELSE @]
             /\ queue' = ClosePosted(q, set)
             /\ Task("in_msgs", l, e) /\ UNCHANGED <<mode, app>> /\ Drained(l)
  BY <1>1
<1>3. /\ q \in Queues /\ Ordered(q) /\ In(queue, l, i)
      /\ \A k \in Loops : \A u : In(q, k, u) => In(queue, k, u)
      /\ \A k \in Loops : \A u : In(queue, k, u) /\ u # i => In(q, k, u)
      /\ \A k \in Loops : \A u, s : AllBehind(queue, k, u, s) /\ (k # l \/ s # i) => AllBehind(q, k, u, s)
  BY <1>0, <1>2, TakesGraphTask
<1> HIDE DEF q
<1>4. closes => Doomed(e) /\ ~engine[e].closing /\ set = {e}
  BY <1>2 DEF Doomed
<1>5. engine[e].closing => Doomed(e)
  BY <1>2 DEF Doomed
<1>6. closes \/ engine[e].closing => K = {}
  BY <1>4, <1>5, NobodyComes
\* The connections.
<1>7. /\ conn' \in [Connections -> ConnectionType]
      /\ \A x \in Connections \ K : conn'[x] = conn[x]
      /\ \A x \in K : LET r == conn[x]
                          s == conn'[x] IN
           /\ s.at = "remote" /\ s.to = r.to /\ s.hop = r.hop /\ s.first = r.first /\ s.rest = r.rest
           /\ s.shut = r.shut /\ s.pshut = r.pshut /\ s.eof = r.eof /\ s.stream = r.stream
  <2>1. DOMAIN msgs = 1 .. Len(msgs)
    BY <1>0 DEF EngineType
  <2>2. ASSUME NEW x \in Connections
        PROVE  x \in K <=> x \in {msgs[k].from : k \in DOMAIN msgs} /\ conn[x].at = "engine"
    <3>1. x \in K => \E k \in 1 .. Len(msgs) : msgs[k].from = x
      BY <1>0 DEF ConnectionOK
    <3>2. (\E k \in 1 .. Len(msgs) : msgs[k].from = x) => conn[x].to = e
      BY <1>0, NoneAssumption DEF EngineOK
    <3> QED
      BY <2>1, <3>1, <3>2
  <2> HIDE DEF K, msgs
  <2>3. conn' = [x \in Connections |-> IF x \in K THEN [conn[x] EXCEPT !.at = "remote"] ELSE conn[x]]
    BY <1>2, <2>2
  <2>4. ASSUME NEW x \in Connections
        PROVE  LET r == conn[x]
                   s == [conn[x] EXCEPT !.at = "remote"] IN
               /\ s \in ConnectionType
               /\ s.at = "remote" /\ s.to = r.to /\ s.hop = r.hop /\ s.first = r.first /\ s.rest = r.rest
               /\ s.shut = r.shut /\ s.pshut = r.pshut /\ s.eof = r.eof /\ s.stream = r.stream
    BY <1>0, SetAt
  <2>5. \A x \in Connections : conn'[x] \in ConnectionType
    BY <1>0, <2>3, <2>4
  <2>6. conn' \in [Connections -> ConnectionType]
    BY <2>3, <2>5
  <2>7. K \in SUBSET Connections
    BY DEF K
  <2> QED
    BY <2>3, <2>4, <2>6, <2>7
\* The engine.
<1>8. LET g == engine[e]
          h == engine'[e] IN
      /\ engine' \in [Engines -> EngineType]
      /\ \A d \in Engines \ G : engine'[d] = engine[d]
      /\ h.st = "up" /\ h.inMsgs = <<>> /\ h.waits = g.waits /\ h.stops = g.stops
      /\ h.closing <=> g.closing \/ closes
      /\ h.ctx = IF starts THEN "up" ELSE g.ctx
  <2> DEFINE a == IF closes THEN [engine[e] EXCEPT !.closing = TRUE] ELSE engine[e]
             b == [a EXCEPT !.inMsgs = <<>>]
             v == IF starts THEN "up" ELSE b.ctx
             h == [b EXCEPT !.ctx = v]
  <2>1. /\ CloseAsync(engine, set) \in [Engines -> EngineType]
        /\ CloseAsync(engine, set)[e] = a
        /\ \A d \in Engines \ G : CloseAsync(engine, set)[d] = engine[d]
    <3>1. CASE closes
      <4>1. set = {e}
        BY <1>2, <3>1
      <4> QED
        BY <1>0, <3>1, <4>1, SetClosing DEF CloseAsync
    <3>2. CASE ~closes
      <4>1. set = {}
        BY <1>2, <3>2
      <4> QED
        BY <1>0, <3>2, <4>1 DEF CloseAsync
    <3> QED
      BY <3>1, <3>2
  <2>2. engine' = [CloseAsync(engine, set) EXCEPT ![e] = h]
    <3> DEFINE z == CloseAsync(engine, set)
               y == [z EXCEPT ![e].inMsgs = <<>>]
    <3>1. engine' = [y EXCEPT ![e].ctx = IF starts THEN "up" ELSE @]
      BY <1>2
    <3>2. z \in [Engines -> EngineType] /\ z[e] = a
      BY <2>1
    <3> HIDE DEF a, z
    <3>3. y = [z EXCEPT ![e] = b]
      BY <3>2
    <3>4. y[e] = b
      BY <3>2, <3>3
    <3>5. engine' = [y EXCEPT ![e] = h]
      BY <3>1, <3>4
    <3> HIDE DEF h, y, b
    <3> QED
      BY <3>2, <3>3, <3>5 DEF z
  <2>3. /\ a \in EngineType /\ a.st = "up" /\ a.ctx = engine[e].ctx /\ a.waits = engine[e].waits
        /\ a.stops = engine[e].stops
        /\ a.closing <=> engine[e].closing \/ closes
    <3>1. CASE closes
      BY <1>0, <1>2, <3>1, SetClosing
    <3>2. CASE ~closes
      BY <1>0, <1>2, <3>2
    <3> QED
      BY <3>1, <3>2
  <2> HIDE DEF a
  <2>4. /\ b \in EngineType /\ b.st = "up" /\ b.ctx = engine[e].ctx /\ b.waits = engine[e].waits
        /\ b.stops = engine[e].stops /\ b.inMsgs = <<>>
        /\ b.closing <=> engine[e].closing \/ closes
    <3>1. <<>> \in Seq(Messages)
      OBVIOUS
    <3> QED
      BY <2>3, <3>1, SetInMsgs
  <2> HIDE DEF b
  <2>5. v \in {"none", "up", "closing", "ended"}
    BY <2>4 DEF EngineType
  <2>6. v = IF starts THEN "up" ELSE engine[e].ctx
    BY <2>4
  <2> HIDE DEF v
  <2>7. /\ h \in EngineType /\ h.st = "up" /\ h.ctx = v /\ h.waits = engine[e].waits
        /\ h.stops = engine[e].stops /\ h.inMsgs = <<>>
        /\ h.closing <=> engine[e].closing \/ closes
    <3>1. b \in EngineType /\ v \in {"none", "up", "closing", "ended"}
      BY <2>4, <2>5
    <3>2. /\ h \in EngineType /\ h.ctx = v /\ h.st = b.st /\ h.waits = b.waits
          /\ h.stops = b.stops /\ h.inMsgs = b.inMsgs /\ h.closing = b.closing
      BY ONLY <3>1, SetCtx DEF h
    <3> HIDE DEF h
    <3> QED
      BY <2>4, <3>2
  <2> HIDE DEF h
  <2> QED
    BY <1>0, <2>1, <2>2, <2>6, <2>7
\* The tasks.
<1>9. /\ queue' \in Queues /\ Ordered(queue')
      /\ \A k \in Loops : \A u : In(queue', k, u) <=>
            In(q, k, u) \/ (closes /\ k = l /\ u = TaskFor("close_engine", e))
      /\ \A k \in Loops : \A u, s :
            AllBehind(q, k, u, s) /\ u.run # "close_engine" => AllBehind(queue', k, u, s)
  <2>1. set \in SUBSET Engines /\ (\A d : d \in Asked(set) <=> closes /\ d = e)
    BY <1>4, <1>2 DEF Asked
  <2>2. Accepts(LoopOf(e))
    BY <1>2, EngineAccepts
  <2>3. closes => ~In(q, l, TaskFor("close_engine", e))
    BY <1>2, <1>3, <1>4 DEF IInv, TasksOK, GraphTasksOK
  <2>4. \A d \in Asked(set) : /\ Accepts(LoopOf(d))
                              /\ ~In(q, LoopOf(d), TaskFor("close_engine", d))
    BY <1>2, <2>1, <2>2, <2>3
  <2>5. /\ queue' \in Queues
        /\ \A k \in Loops : \A u :
             In(queue', k, u) <=>
                 \/ In(q, k, u)
                 \/ \E d \in Asked(set) : k = LoopOf(d) /\ u = TaskFor("close_engine", d)
        /\ \A k \in Loops : \A u, s :
             AllBehind(q, k, u, s) /\ u.run # "close_engine" => AllBehind(queue', k, u, s)
    BY <1>0, <1>2, <1>3, <2>1, <2>4, PostsCloses
  <2>6. Ordered(queue')
    BY <1>0, <1>2, <1>3, <2>1, <2>4, OrderCloses
  <2> QED
    BY <1>2, <2>1, <2>5, <2>6
<1>10. /\ draining' \in [Loops -> BOOLEAN] /\ DrainsOn
       /\ \A u : In(queue', l, u) => draining'[l]
  BY <1>0, <1>2, <1>9, DrainsNext
<1>11. TasksKept(queue, queue', K, G)
  <2>1. \A k \in Loops : \A u : u # i /\ u # TaskFor("close_engine", e) =>
          (In(queue', k, u) <=> In(queue, k, u))
    BY <1>3, <1>9
  <2>2. "close_engine" \in GraphTasks
    BY DEF GraphTasks
  <2>3. \A d \in Engines \ G : \A x \in Connections :
          AllBehind(queue, d, TaskFor("cleaned", x), TaskFor("in_msgs", d)) =>
          AllBehind(queue', d, TaskFor("cleaned", x), TaskFor("in_msgs", d))
    <3>1. \A d \in Engines \ G : TaskFor("in_msgs", d) # i /\ d \in Loops
      BY SameTask DEF Loops
    <3>2. \A x : TaskFor("cleaned", x).run # "close_engine"
      BY DEF TaskFor
    <3> QED
      BY <1>3, <1>9, <3>1, <3>2
  <2>4. K \in SUBSET Connections /\ G \in SUBSET Engines
    OBVIOUS
  <2>5. \A x \in Connections \ K : conn[x].to \in G => conn[x].at # "engine"
    OBVIOUS
  <2>6. \A k \in Loops : \A u :
             (\A f \in GraphTasks : \A d \in G : u # TaskFor(f, d)) /\ u # TaskFor("close_app", App) =>
             (In(queue', k, u) <=> In(queue, k, u))
    BY <1>0, <2>1, <2>2
  <2> HIDE DEF K, G
  <2> QED
    BY <2>3, <2>4, <2>5, <2>6, GraphTasksOnly
<1>12. /\ \A k \in Loops : In(queue', k, TaskFor("close_app", App)) =>
             k = App /\ ToClose(app')
       /\ AppOK' /\ app' \in AppType
  <2>1. \A k \in Loops : In(queue', k, TaskFor("close_app", App)) => In(queue, k, TaskFor("close_app", App))
    BY <1>3, <1>9, SameTask
  <2>2. Orphans(conn') = Orphans(conn)
    BY <1>7 DEF Orphans
  <2>3. Listed(engine') = Listed(engine) /\ \A d \in Engines : engine'[d].st = engine[d].st
    BY <1>2, <1>8 DEF Listed
  <2> QED
    BY <1>0, <1>2, <2>1, <2>2, <2>3 DEF IInv, TasksOK, AppOK
<1>13. \A x \in K : ConnectionOK(x)'
  <2> SUFFICES ASSUME NEW x \in K PROVE ConnectionOK(x)'
    OBVIOUS
  <2>1. ConnectionOK(x) /\ conn[x].at = "engine" /\ conn[x].to = e
    BY <1>0
  <2>2. LET r == conn[x]
            s == conn'[x] IN
        /\ s.at = "remote" /\ s.to = e /\ s.hop = "done" /\ (s.rest => mode'.batch)
        /\ s.stream \in {"open", "closing"} /\ (s.pshut <=> s.stream = "closing")
    BY <1>2, <1>7, <2>1 DEF ConnectionOK, Attached
  <2>3. engine'[e].st = "up"
    BY <1>8
  <2> QED
    BY <2>2, <2>3 DEF ConnectionOK, Attached, Way
<1>14. \A x \in K : \A k \in Loops : MoveTasksOK(k, x)'
  <2> SUFFICES ASSUME NEW x \in K, NEW k \in Loops PROVE MoveTasksOK(k, x)'
    OBVIOUS
  <2>1. conn[x].at = "engine" /\ MoveTasksOK(k, x)
    BY DEF IInv, TasksOK
  <2>2. AttachedLoop(x)' = AttachedLoop(x)
    BY <1>2, <1>7, <2>1 DEF AttachedLoop, LoopOf
  <2>3. \A f \in MoveTasks : In(queue', k, TaskFor(f, x)) => In(queue, k, TaskFor(f, x))
    BY <1>3, <1>9, SameTask DEF MoveTasks
  <2>4. In(queue', k, TaskFor("cleaned", x)) /\ draining[k] => draining'[k]
    BY <1>9, <1>10, NotEmpty DEF DrainsOn, Queues
  <2>5. LET r == conn[x]
            s == conn'[x] IN
        s.at = "remote" /\ s.stream = r.stream /\ s.eof = r.eof
    BY <1>7
  <2> QED
    BY <2>1, <2>2, <2>3, <2>4, <2>5 DEF MoveTasksOK, MoveTasks, Attached
<1>15. \A k \in Loops : GraphTasksOK(k, e)'
  <2> SUFFICES ASSUME NEW k \in Loops PROVE GraphTasksOK(k, e)'
    OBVIOUS
  <2>1. GraphTasksOK(k, e) /\ LoopOf(e)' = LoopOf(e)
    BY <1>2 DEF IInv, TasksOK, LoopOf
  <2>2. \A f \in GraphTasks : In(queue', k, TaskFor(f, e)) =>
          In(queue, k, TaskFor(f, e)) \/ (f = "close_engine" /\ closes /\ k = l)
    BY <1>3, <1>9, SameTask DEF GraphTasks
  <2>3. engine[e].closing => engine'[e].ctx = engine[e].ctx
    BY <1>2, <1>8
  <2>4. ~engine[e].closing => engine[e].ctx \in {"none", "up"} /\ engine'[e].ctx \in {"none", "up"}
    BY <1>0, <1>8 DEF EngineOK
  <2>5. engine'[e].st = "up" /\ engine[e].st = "up" /\ (engine'[e].closing <=> engine[e].closing \/ closes)
    BY <1>2, <1>8
  <2>6. closes /\ k = l => k = LoopOf(e) /\ ~engine[e].closing
    BY <1>2
  <2> QED
    BY <2>1, <2>2, <2>3, <2>4, <2>5, <2>6 DEF GraphTasksOK, GraphTasks
<1>16. EngineOK(e)'
  <2>1. LoopOf(e)' = LoopOf(e) /\ LoopOf(e) = l
    BY <1>2 DEF LoopOf
  <2>2. ~engine'[e].closing => engine'[e].ctx \in {"none", "up"}
    BY <1>0, <1>8 DEF EngineOK
  <2>3. ~engine'[e].closing /\ engine'[e].ctx = "none" =>
          /\ \E x \in Connections : OnTheWay(x, e)' /\ conn'[x].first = "start"
          /\ \E x \in Connections :
                  conn'[x].hop \in Way /\ conn'[x].to = e /\ conn'[x].first = "start"
    <3> SUFFICES ASSUME ~engine'[e].closing, engine'[e].ctx = "none"
                 PROVE  /\ \E x \in Connections : OnTheWay(x, e)' /\ conn'[x].first = "start"
                        /\ \E x \in Connections :
                                conn'[x].hop \in Way /\ conn'[x].to = e /\ conn'[x].first = "start"
      OBVIOUS
    <3>1. ~engine[e].closing /\ engine[e].ctx = "none" /\ ~HasStart(msgs)
      BY <1>2, <1>8
    <3>2. PICK x \in Connections : conn[x].hop \in Way /\ conn[x].to = e /\ conn[x].first = "start"
      BY <1>0, <1>2, <3>1 DEF EngineOK
    <3>3. x \notin K
      BY <1>0, <3>2 DEF ConnectionOK, Way
    <3>4. conn'[x] = conn[x]
      BY <1>7, <3>3
    <3> QED
      BY <3>2, <3>4 DEF OnTheWay
  <2>4. engine'[e].ctx = "none" /\ engine'[e].closing /\ Pending(e)' => RemotesOf(e, conn') = {}
    <3> SUFFICES ASSUME engine'[e].ctx = "none", engine'[e].closing, Pending(e)'
                 PROVE  RemotesOf(e, conn') = {}
      OBVIOUS
    <3>1. K = {} /\ ~starts /\ engine[e].ctx = "none"
      BY <1>6, <1>8
    <3>2. RemotesOf(e, conn') = RemotesOf(e, conn)
      BY <1>7, <3>1 DEF RemotesOf
    <3>3. CASE engine[e].closing
      <4>1. Pending(e)
        BY <1>2, <1>3, <1>9, <2>1, <3>3 DEF Pending
      <4> QED
        BY <1>0, <3>1, <3>2, <3>3, <4>1 DEF EngineOK
    <3>4. CASE ~engine[e].closing
      <4>1. \A x \in Connections : ~OnTheWay(x, e)
        BY <1>4, <1>8, <3>4, NobodyComes DEF OnTheWay
      <4> QED
        BY <1>0, <1>2, <3>1, <3>2, <3>4, <4>1 DEF EngineOK
    <3> QED
      BY <3>3, <3>4
  <2>5. engine'[e].closing /\ In(queue', LoopOf(e), i) => Pending(e)'
    <3>1. CASE closes
      BY <1>2, <1>9, <2>1, <3>1 DEF Pending
    <3>2. CASE ~closes
      <4>1. In(queue, l, TaskFor("close_engine", e)) => In(queue', l, TaskFor("close_engine", e))
        BY <1>3, <1>9, SameTask
      <4> QED
        BY <1>0, <1>3, <1>8, <2>1, <3>2, <4>1 DEF EngineOK, Pending
    <3> QED
      BY <3>1, <3>2
  <2>6. Len(engine'[e].inMsgs) = 0
    BY <1>8
  <2>7. engine'[e].waits # None => conn'[engine'[e].waits].hop = "waited" /\ conn'[engine'[e].waits].to = e
    <3>1. engine[e].waits \in Connections \cup {None}
      BY <1>0 DEF EngineType
    <3>2. engine[e].waits # None => engine[e].waits \in Connections \ K /\ conn[engine[e].waits].hop = "waited"
                                    /\ conn[engine[e].waits].to = e
      BY <1>0, <3>1 DEF EngineOK, ConnectionOK
    <3> QED
      BY <1>7, <1>8, <3>2
  <2>8. engine'[e].st = "up"
    BY <1>8
  <2> HIDE DEF i, K
  <2> QED
    BY <2>1, <2>2, <2>3, <2>4, <2>5, <2>6, <2>7, <2>8 DEF EngineOK, i
<1>17. Calm'
  <2>1. ASSUME NEW x \in Connections, OnItsWay(x)'
        PROVE  OnItsWay(x) /\ conn'[x] = conn[x]
    <3>1. CASE x \in K
      <4>1. conn'[x].at = "remote" /\ conn'[x].hop = "done"
        BY <1>0, <1>7, <3>1 DEF ConnectionOK
      <4> QED
        BY <2>1, <4>1 DEF OnItsWay
    <3>2. CASE x \notin K
      BY <1>7, <2>1, <3>2 DEF OnItsWay
    <3> QED
      BY <3>1, <3>2
  <2>2. ASSUME NEW d \in Engines, Doomed(d)' PROVE Doomed(d)
    <3>1. \A x \in Connections :
            conn'[x].to = d /\ conn'[x].at \in {"engine", "remote"} /\ (conn'[x].eof \/ conn'[x].pshut) =>
            conn[x].to = d /\ conn[x].at \in {"engine", "remote"} /\ (conn[x].eof \/ conn[x].pshut)
      BY <1>7
    <3>2. CASE d = e
      <4>1. engine'[e].closing => Doomed(e)
        BY <1>4, <1>5, <1>8
      <4> QED
        BY <1>2, <1>8, <2>2, <3>1, <3>2, <4>1 DEF Doomed
    <3>3. CASE d # e
      BY <1>2, <1>8, <2>2, <3>1, <3>3 DEF Doomed
    <3> QED
      BY <3>2, <3>3
  <2>3. \A d \in Engines : engine'[d].st = engine[d].st
    BY <1>2, <1>8
  <2> QED
    BY <1>0, <1>2, <2>1, <2>2, <2>3 DEF Calm
<1>18. \A x \in Connections \ K : conn[x].to \in G => StillServed(x)
  <2> SUFFICES ASSUME NEW x \in Connections \ K, conn[x].to = e PROVE StillServed(x)
    OBVIOUS
  <2>1. conn[x].at # "engine" /\ ConnectionOK(x)
    BY <1>0
  <2> QED
    BY <1>8, <2>1 DEF StillServed, ConnectionOK
<1>19. \A x \in K : \A d \in Engines \ G : StillAwaited(x, d)
  BY <1>0, <1>7 DEF StillAwaited, OnTheWay, ConnectionOK
<1>20. mode' = mode /\ K \in SUBSET Connections /\ G \in SUBSET Engines
  BY <1>2
<1>21. \A d \in G : EngineOK(d)' /\ \A k \in Loops : GraphTasksOK(k, d)'
  BY <1>15, <1>16
<1>22. \A x \in K : ConnectionOK(x)' /\ \A k \in Loops : MoveTasksOK(k, x)'
  BY <1>13, <1>14
<1> HIDE DEF K, G, i, msgs
<1>23. /\ engine' \in [Engines -> EngineType] /\ conn' \in [Connections -> ConnectionType]
       /\ \A x \in Connections \ K : conn'[x] = conn[x]
       /\ \A d \in Engines \ G : engine'[d] = engine[d]
       /\ queue' \in Queues /\ Ordered(queue')
  BY <1>7, <1>8, <1>9
<1> QED
  BY <1>10, <1>11, <1>12, <1>17, <1>18, <1>19, <1>20, <1>21, <1>22, <1>23, StepOf

-----------------------------------------------------------------------------
(* Engines close. *)

\* A step of an engine that closes, and of connections K that are its remotes.
LEMMA StepOfClosing ==
    ASSUME IInv, NEW e \in Engines, NEW K \in SUBSET Connections, mode' = mode,
           engine[e].closing, engine[e].st \in {"up", "stopping", "stopped"},
           conn' \in [Connections -> ConnectionType],
           \A x \in Connections \ K : conn'[x] = conn[x],
           \A x \in K :
             /\ conn[x].at = "remote" /\ conn[x].to = e
             /\ conn'[x].at \in {"remote", "gone"} /\ conn'[x].to = e /\ conn'[x].hop = conn[x].hop
             /\ ConnectionOK(x)' /\ \A l \in Loops : MoveTasksOK(l, x)',
           engine' \in [Engines -> EngineType],
           \A d \in Engines \ {e} : engine'[d] = engine[d],
           engine'[e].closing, engine'[e].inMsgs = engine[e].inMsgs,
           engine'[e].waits = engine[e].waits, engine'[e].stops = engine[e].stops,
           \/ engine'[e].st = "up"
           \/ /\ engine'[e].st \in {"stopping", "stopped", "gone"} /\ engine'[e].ctx \notin {"closing", "ended"}
              /\ RemotesOf(e, conn') = {},
           engine'[e].st \in {"stopping", "stopped"} => mode.own,
           queue' \in Queues, Ordered(queue'), TasksKept(queue, queue', K, {e}),
           \A l \in Loops : /\ GraphTasksOK(l, e)'
                            /\ ~In(queue', l, TaskFor("in_msgs", e))
                            /\ ~In(queue', l, TaskFor("close_engine", e)),
           draining' \in [Loops -> BOOLEAN], DrainsOn,
           app' \in AppType, AppOK',
           \A l \in Loops : In(queue', l, TaskFor("close_app", App)) =>
             l = App /\ ToClose(app'),
           app'.state # "running" => app.state # "running" \/ \A x \in Connections : ~OnItsWay(x)
    PROVE  IInv'
<1> DEFINE G == {e}
           h == engine'[e]
<1>0. /\ Calm /\ EngineOK(e) /\ \A x \in Connections : ConnectionOK(x)
      /\ engine[e] \in EngineType
  BY TypeParts DEF IInv
<1>1. Doomed(e)
  BY DEF Doomed
<1>2. /\ \A x \in Connections : conn[x].to = e =>
           ~OnItsWay(x) /\ conn[x].at # "engine" /\ conn[x].hop \notin Way /\ ~OnTheWay(x, e)
      /\ h.waits = None
      /\ \A i \in 1 .. Len(h.inMsgs) : h.inMsgs[i].from = None
  BY <1>1, NobodyComes
<1>3. EngineOK(e)'
  <2>1. LoopOf(e)' = LoopOf(e) /\ LoopOf(e) \in Loops
    BY DEF LoopOf, Loops
  <2>2. ~Pending(e)' /\ ~In(queue', LoopOf(e), TaskFor("in_msgs", e))
    BY <2>1 DEF Pending
  <2>3. \A i \in 1 .. Len(h.inMsgs) : h.inMsgs[i].kind = "stop" => h.stops = 1
    BY <1>0 DEF EngineOK
  <2>4. h.ctx \in {"closing", "ended"} => h.st = "up"
    OBVIOUS
  <2>5. h.st # "none" /\ h.closing /\ (h.st \in {"stopping", "stopped"} => mode'.own)
    OBVIOUS
  <2> HIDE DEF h
  <2>6. engine'[e] = h
    BY DEF h
  <2> QED
    BY <1>2, <2>1, <2>2, <2>3, <2>4, <2>5, <2>6 DEF EngineOK
<1>4. Calm'
  <2>1. ASSUME NEW x \in Connections, OnItsWay(x)'
        PROVE  OnItsWay(x) /\ conn'[x] = conn[x]
    <3>1. CASE x \in K
      <4>1. conn'[x].at \in {"remote", "gone"} /\ conn'[x].hop = "done"
        BY <1>0, <3>1 DEF ConnectionOK
      <4> QED
        BY <2>1, <4>1 DEF OnItsWay
    <3>2. CASE x \notin K
      BY <2>1, <3>2 DEF OnItsWay
    <3> QED
      BY <3>1, <3>2
  <2>2. ASSUME NEW d \in Engines, Doomed(d)' PROVE Doomed(d)
    <3>1. CASE d = e
      BY <1>1, <3>1
    <3>2. CASE d # e
      <4>1. \A x \in Connections :
              conn'[x].to = d /\ conn'[x].at \in {"engine", "remote"} /\ (conn'[x].eof \/ conn'[x].pshut) =>
              conn[x].to = d /\ conn[x].at \in {"engine", "remote"} /\ (conn[x].eof \/ conn[x].pshut)
        BY <3>2
      <4>2. engine'[d] = engine[d]
        BY <3>2
      <4> QED
        BY <2>2, <4>1, <4>2 DEF Doomed
    <3> QED
      BY <3>1, <3>2
  <2>3. \A x \in Connections : OnItsWay(x)' => conn'[x].to # e
    BY <1>2, <2>1
  <2> QED
    BY <1>0, <2>1, <2>2, <2>3 DEF Calm
<1>5. \A x \in Connections \ K : conn[x].to \in G => StillServed(x)
  <2> SUFFICES ASSUME NEW x \in Connections \ K, conn[x].to = e PROVE StillServed(x)
    OBVIOUS
  <2>1. conn[x].at # "engine" /\ conn[x].hop # "waited"
    BY <1>2 DEF Way
  <2>2. conn[x].at = "remote" => h.st = "up"
    BY DEF RemotesOf
  <2> QED
    BY <2>1, <2>2 DEF StillServed
<1>6. \A x \in K : \A d \in Engines \ G : StillAwaited(x, d)
  BY DEF StillAwaited, OnTheWay
<1>7. /\ TasksKept(queue, queue', K, G) /\ G \in SUBSET Engines
      /\ \A d \in Engines \ G : engine'[d] = engine[d]
      /\ \A d \in G : EngineOK(d)' /\ \A l \in Loops : GraphTasksOK(l, d)'
      /\ \A x \in K : ConnectionOK(x)' /\ \A l \in Loops : MoveTasksOK(l, x)'
  BY <1>3
<1> HIDE DEF G, h
<1> QED
  BY <1>4, <1>5, <1>6, <1>7, StepOf

\* The app forgets an engine that closed, and may close itself or be done.
LEMMA Reaps ==
    ASSUME IInv, NEW e \in Engines, engine[e].closing, engine[e].st \in {"up", "stopping", "stopped"},
           NEW k, NEW g \in [Engines -> EngineType], NEW q \in Queues, Ordered(q),
           \A l \in Loops : In(q, l, TaskFor("close_app", App)) => In(queue, l, TaskFor("close_app", App)),
           AppReaps(e, k, g, q), mode' = mode
    PROVE  /\ conn' = k /\ engine' = [g EXCEPT ![e].st = "gone"]
           /\ app' \in AppType /\ AppOK'
           /\ queue' \in Queues /\ Ordered(queue')
           /\ \A l \in Loops : \A u : u # TaskFor("close_app", App) => (In(queue', l, u) <=> In(q, l, u))
           /\ \A l \in Loops : \A u, s :
                AllBehind(q, l, u, s) /\ u # TaskFor("close_app", App) => AllBehind(queue', l, u, s)
           /\ \A l \in Loops : In(queue', l, TaskFor("close_app", App)) =>
                l = App /\ ToClose(app')
           /\ app'.state # "running" => app.state # "running" \/ \A x \in Connections : ~OnItsWay(x)
<1> DEFINE closes == ~mode.appLong /\ app.state = "running"
           a == IF closes THEN [app EXCEPT !.state = "closing"] ELSE app
           g2 == [g EXCEPT ![e].st = "gone"]
           t == TaskFor("close_app", App)
<1>0. /\ AppOK /\ app \in AppType /\ t \in Tasks /\ App \in Loops
      /\ app.deinits = 0 /\ app.loop = "up"
      /\ \A l \in Loops : In(queue, l, t) => l = App /\ ToClose(app)
  BY TypeParts, TaskKinds, EngineAccepts DEF IInv, TasksOK, Loops
<1>1. /\ engine' = g2 /\ conn' = k
      /\ queue' = IF closes THEN Post(q, App, t) ELSE q
      /\ app' = IF a.state = "running" THEN a ELSE Proceeds(a, k, g2)
  BY DEF AppReaps
<1>2. ~mode.appLong => \A x \in Connections : ~OnItsWay(x)
  BY NobodyComes DEF Doomed
<1>3. CASE closes
  <2>1. /\ a \in AppType /\ a.state = "closing" /\ a.endpoint = app.endpoint
        /\ a.endpoint \in {"none", "open"} /\ a.deinits = 0 /\ a.loop = "up"
    BY <1>0, <1>3 DEF AppType, AppOK
  <2> DEFINE p == Proceeds(a, k, g2)
  <2>2. /\ app' \in AppType /\ app'.state = "closing" /\ app'.endpoint = a.endpoint
        /\ app'.loop = "up" /\ app'.deinits \in {0, 1}
        /\ app'.deinits > 0 => /\ app'.endpoint = "none"
                               /\ Orphans(k) = {} /\ Listed(g2) = {}
    <3> HIDE DEF a, g2
    <3>1. app' = p
      BY <1>1, <2>1 DEF g2
    <3> QED
      BY <2>1, <3>1, ProceedsOK
  <2> HIDE DEF a, p, g2
  <2>3. queue' = Post(q, App, t) /\ \A l \in Loops : ~In(q, l, t)
    BY <1>0, <1>1, <1>3 DEF ToClose
  <2>4. /\ queue' \in Queues
        /\ \A l \in Loops : \A u : In(queue', l, u) <=> In(q, l, u) \/ (Accepts(App) /\ l = App /\ u = t)
        /\ \A l \in Loops : \A u, s : AllBehind(q, l, u, s) /\ u # t => AllBehind(queue', l, u, s)
    BY <1>0, <2>3, Posts
  <2>5. Ordered(queue')
    BY <1>0, <2>3, OrderPosted
  <2>6. AppOK'
    BY <1>0, <1>1, <2>1, <2>2 DEF AppOK
  <2>7. \A l \in Loops : In(queue', l, t) => l = App /\ ToClose(app')
    BY <2>1, <2>2, <2>3, <2>4 DEF ToClose
  <2> HIDE DEF t
  <2> QED
    BY <1>1, <1>2, <1>3, <2>1, <2>2, <2>4, <2>5, <2>6, <2>7 DEF t, g2
<1>4. CASE ~closes
  <2>1. a = app /\ queue' = q
    BY <1>1, <1>4
  <2> HIDE DEF a, g2
  <2>2. /\ app' \in AppType /\ app'.state = app.state /\ app'.endpoint = app.endpoint /\ app'.loop = "up"
        /\ app'.deinits \in {0, 1}
        /\ app'.deinits > 0 => app.state # "running" /\ app.endpoint \in {"none", "closed"}
                               /\ Orphans(k) = {} /\ Listed(g2) = {}
    <3> DEFINE p == Proceeds(app, k, g2)
    <3>1. /\ p \in AppType /\ p.state = app.state /\ p.endpoint = app.endpoint /\ p.loop = app.loop
          /\ p.deinits \in {0, 1}
          /\ p.deinits > 0 => app.endpoint \in {"none", "closed"} /\ Orphans(k) = {} /\ Listed(g2) = {}
      BY <1>0, ProceedsOK
    <3>2. app' = IF app.state = "running" THEN app ELSE p
      BY <1>1, <2>1
    <3> HIDE DEF p
    <3>3. CASE app.state = "running"
      BY <1>0, <3>2, <3>3
    <3>4. CASE app.state # "running"
      BY <1>0, <3>1, <3>2, <3>4
    <3> QED
      BY <3>3, <3>4
  <2>3. AppOK'
    <3>1. ~mode.appLong => app.state # "running"
      BY <1>4
    <3> QED
      BY <1>0, <1>1, <2>2, <3>1 DEF AppOK
  <2>4. \A l \in Loops : In(queue', l, t) => l = App /\ ToClose(app')
    BY <1>0, <2>1, <2>2 DEF ToClose
  <2> HIDE DEF t, closes
  <2> QED
    BY <1>1, <2>1, <2>2, <2>3, <2>4 DEF t, g2
<1> QED
  BY <1>3, <1>4

\* ten_engine_on_close: the engine goes on closing, stops its loop, or is gone.
LEMMA ProceedsFacts ==
    ASSUME IInv, NEW e \in Engines, engine[e].closing, engine[e].st = "up",
           NEW k, Orphans(k) = Orphans(conn),
           NEW g \in [Engines -> EngineType], \A d \in Engines \ {e} : g[d] = engine[d], g[e].st = "up",
           NEW q \in Queues, Ordered(q),
           \A l \in Loops : In(q, l, TaskFor("close_app", App)) => In(queue, l, TaskFor("close_app", App)),
           EngineProceeds(e, k, g, q), mode' = mode
    PROVE  /\ conn' = k
           /\ engine' \in [Engines -> EngineType]
           /\ \A d \in Engines \ {e} : engine'[d] = engine[d]
           /\ LET h == engine'[e] IN
              /\ h.closing = g[e].closing /\ h.ctx = g[e].ctx /\ h.inMsgs = g[e].inMsgs
              /\ h.waits = g[e].waits /\ h.stops = g[e].stops
              /\ \/ h.st = "up"
                 \/ h.st \in {"stopping", "gone"} /\ g[e].ctx = "none" /\ RemotesOf(e, k) = {}
              /\ h.st = "stopping" => mode.own
           /\ app' \in AppType /\ AppOK'
           /\ queue' \in Queues /\ Ordered(queue')
           /\ \A l \in Loops : \A u : u # TaskFor("close_app", App) => (In(queue', l, u) <=> In(q, l, u))
           /\ \A l \in Loops : \A u, s :
                AllBehind(q, l, u, s) /\ u # TaskFor("close_app", App) => AllBehind(queue', l, u, s)
           /\ \A l \in Loops : In(queue', l, TaskFor("close_app", App)) =>
                l = App /\ ToClose(app')
           /\ app'.state # "running" => app.state # "running" \/ \A x \in Connections : ~OnItsWay(x)
<1>0. /\ AppOK /\ app \in AppType
      /\ \A l \in Loops : In(queue, l, TaskFor("close_app", App)) =>
           l = App /\ ToClose(app)
  BY TypeParts DEF IInv, TasksOK
<1>1. ASSUME NEW v \in {"stopping", "gone"}, engine' = [g EXCEPT ![e].st = v]
      PROVE  /\ engine' \in [Engines -> EngineType]
             /\ \A d \in Engines \ {e} : engine'[d] = engine[d]
             /\ LET h == engine'[e] IN
                /\ h.closing = g[e].closing /\ h.ctx = g[e].ctx /\ h.inMsgs = g[e].inMsgs
                /\ h.waits = g[e].waits /\ h.stops = g[e].stops /\ h.st = v
  <2> DEFINE h == [g[e] EXCEPT !.st = v]
  <2>1. engine' = [g EXCEPT ![e] = h]
    BY <1>1
  <2>2. /\ h \in EngineType
        /\ h.closing = g[e].closing /\ h.ctx = g[e].ctx /\ h.inMsgs = g[e].inMsgs
        /\ h.waits = g[e].waits /\ h.stops = g[e].stops /\ h.st = v
    <3>1. g[e] \in EngineType /\ v \in {"none", "up", "stopping", "stopped", "gone"}
      OBVIOUS
    <3> QED
      BY ONLY <3>1, SetSt, ZenonT(40)
  <2> HIDE DEF h
  <2> QED
    BY <2>1, <2>2
<1>2. CASE g[e].ctx # "none" \/ RemotesOf(e, k) # {}
  <2>1. engine' = g /\ conn' = k /\ queue' = q /\ app' = app
    BY <1>2 DEF EngineProceeds
  <2>2. AppOK'
    <3>1. Listed(engine') = Listed(engine)
      BY <2>1 DEF Listed
    <3> QED
      BY <1>0, <2>1, <3>1 DEF AppOK
  <2> QED
    BY <1>0, <2>1, <2>2
<1>3. CASE g[e].ctx = "none" /\ RemotesOf(e, k) = {} /\ mode.own
  <2>1. engine' = [g EXCEPT ![e].st = "stopping"] /\ conn' = k /\ queue' = q /\ app' = app
    BY <1>3 DEF EngineProceeds
  <2>2. /\ engine' \in [Engines -> EngineType]
        /\ \A d \in Engines \ {e} : engine'[d] = engine[d]
        /\ LET h == engine'[e] IN
           /\ h.closing = g[e].closing /\ h.ctx = g[e].ctx /\ h.inMsgs = g[e].inMsgs
           /\ h.waits = g[e].waits /\ h.stops = g[e].stops /\ h.st = "stopping"
    BY <1>1, <2>1
  <2>3. AppOK'
    <3>1. Listed(engine') = Listed(engine)
      BY <2>2 DEF Listed
    <3> QED
      BY <1>0, <2>1, <2>2, <3>1 DEF AppOK
  <2> QED
    BY <1>0, <1>3, <2>1, <2>2, <2>3
<1>4. CASE g[e].ctx = "none" /\ RemotesOf(e, k) = {} /\ ~mode.own
  <2>1. AppReaps(e, k, g, q)
    BY <1>4 DEF EngineProceeds
  <2>2. /\ conn' = k /\ engine' = [g EXCEPT ![e].st = "gone"]
        /\ app' \in AppType /\ AppOK'
        /\ queue' \in Queues /\ Ordered(queue')
        /\ \A l \in Loops : \A u : u # TaskFor("close_app", App) => (In(queue', l, u) <=> In(q, l, u))
        /\ \A l \in Loops : \A u, s :
             AllBehind(q, l, u, s) /\ u # TaskFor("close_app", App) => AllBehind(queue', l, u, s)
        /\ \A l \in Loops : In(queue', l, TaskFor("close_app", App)) =>
             l = App /\ ToClose(app')
        /\ app'.state # "running" => app.state # "running" \/ \A x \in Connections : ~OnItsWay(x)
    BY <2>1, Reaps
  <2>3. /\ engine' \in [Engines -> EngineType]
        /\ \A d \in Engines \ {e} : engine'[d] = engine[d]
        /\ LET h == engine'[e] IN
           /\ h.closing = g[e].closing /\ h.ctx = g[e].ctx /\ h.inMsgs = g[e].inMsgs
           /\ h.waits = g[e].waits /\ h.stops = g[e].stops /\ h.st = "gone"
    BY <1>1, <2>2
  <2> QED
    BY <1>4, <2>2, <2>3
<1> QED
  BY <1>2, <1>3, <1>4

\* The queues when a task about a closing engine has run.
LEMMA TaskOfClosing ==
    ASSUME TypeOK, Ordered(queue), NEW l \in Loops, NEW e \in Engines, NEW f \in GraphTasks, f # "in_msgs",
           Task(f, l, e), queue' \in Queues,
           \A k \in Loops : \A u : u # TaskFor("close_app", App) => (In(queue', k, u) <=> In(Taken(l), k, u)),
           \A k \in Loops : \A u, s :
             AllBehind(Taken(l), k, u, s) /\ u # TaskFor("close_app", App) => AllBehind(queue', k, u, s),
           NEW K \in SUBSET Connections, \A x \in Connections \ K : conn[x].to = e => conn[x].at # "engine"
    PROVE  /\ TasksKept(queue, queue', K, {e})
           /\ \A k \in Loops : \A g \in GraphTasks : In(queue', k, TaskFor(g, e)) =>
                /\ In(queue, k, TaskFor(g, e))
                /\ k = l => g # f /\ Behind(queue, l, TaskFor(g, e), TaskFor(f, e))
           /\ \A k \in Loops : \A g \in MoveTasks : \A x \in Connections :
                In(queue', k, TaskFor(g, x)) => In(queue, k, TaskFor(g, x))
<1> DEFINE q == Taken(l)
           h == TaskFor(f, e)
           G == {e}
<1>1. /\ \A k \in Loops : \A u : In(q, k, u) => In(queue, k, u)
      /\ \A k \in Loops : \A u : In(queue, k, u) /\ u # h => In(q, k, u)
      /\ \A u : In(q, l, u) => Behind(queue, l, u, h)
      /\ ~In(q, l, h)
      /\ \A k \in Loops : \A u, s : AllBehind(queue, k, u, s) /\ (k # l \/ s # h) => AllBehind(q, k, u, s)
  BY TakesGraphTask
<1> HIDE DEF q
<1>2. \A g \in GraphTasks \cup MoveTasks : \A x : TaskFor(g, x) # TaskFor("close_app", App)
  BY SameTask DEF GraphTasks, MoveTasks
<1>3. \A k \in Loops : \A u :
        (\A g \in GraphTasks : \A d \in G : u # TaskFor(g, d)) /\ u # TaskFor("close_app", App) =>
        (In(queue', k, u) <=> In(queue, k, u))
  BY <1>1 DEF q
<1>4. ASSUME NEW d \in Engines \ G, NEW x \in Connections,
             AllBehind(queue, d, TaskFor("cleaned", x), TaskFor("in_msgs", d))
      PROVE  AllBehind(queue', d, TaskFor("cleaned", x), TaskFor("in_msgs", d))
  <2>1. TaskFor("in_msgs", d) # h /\ d \in Loops
    BY SameTask DEF Loops
  <2>2. AllBehind(q, d, TaskFor("cleaned", x), TaskFor("in_msgs", d))
    BY <1>1, <1>4, <2>1
  <2>3. TaskFor("cleaned", x) # TaskFor("close_app", App)
    BY SameTask
  <2> QED
    BY <2>1, <2>2, <2>3 DEF q
<1>5. ASSUME NEW k \in Loops, NEW g \in GraphTasks, In(queue', k, TaskFor(g, e))
      PROVE  /\ In(queue, k, TaskFor(g, e))
             /\ k = l => g # f /\ Behind(queue, l, TaskFor(g, e), h)
  <2>1. In(q, k, TaskFor(g, e))
    BY <1>2, <1>5 DEF q
  <2> QED
    BY <1>1, <2>1
<1>6. \A k \in Loops : \A g \in MoveTasks : \A x \in Connections :
        In(queue', k, TaskFor(g, x)) => In(queue, k, TaskFor(g, x))
  BY <1>1, <1>2 DEF q
<1>7. G \in SUBSET Engines /\ \A x \in Connections \ K : conn[x].to \in G => conn[x].at # "engine"
  OBVIOUS
<1>8. TasksKept(queue, queue', K, G)
  <2> HIDE DEF G
  <2> QED
    BY <1>3, <1>4, <1>7, GraphTasksOnly
<1> QED
  BY <1>5, <1>6, <1>8

\* The extension context of an engine has ended.
LEMMA ContextClosedStep ==
    ASSUME IInv, NEW l \in Loops, NEW e \in Engines, ContextClosed(l, e)
    PROVE  IInv'
<1> DEFINE g == [engine EXCEPT ![e].ctx = "none"]
           q == Taken(l)
           K == {}
<1>0. /\ TypeOK /\ queue \in Queues /\ Ordered(queue)
      /\ engine \in [Engines -> EngineType] /\ conn \in [Connections -> ConnectionType]
      /\ EngineOK(e) /\ "context_closed" \in GraphTasks
      /\ \A k \in Loops : GraphTasksOK(k, e)
  BY TypeParts DEF IInv, GraphTasks, TasksOK
<1>1. /\ Task("context_closed", l, e) /\ EngineProceeds(e, conn, g, q) /\ mode' = mode /\ Drained(l)
  BY DEF ContextClosed
<1>2. /\ q \in Queues /\ Ordered(q) /\ In(queue, l, TaskFor("context_closed", e))
      /\ \A k \in Loops : \A u : In(q, k, u) => In(queue, k, u)
  BY <1>0, <1>1, TakesGraphTask
<1>3. l = LoopOf(e) /\ engine[e].st = "up" /\ engine[e].ctx = "ended" /\ engine[e].closing
  BY <1>0, <1>2 DEF GraphTasksOK, EngineOK
<1>4. /\ g \in [Engines -> EngineType] /\ \A d \in Engines \ {e} : g[d] = engine[d]
      /\ g[e].st = "up" /\ g[e].ctx = "none" /\ g[e].closing /\ g[e].inMsgs = engine[e].inMsgs
      /\ g[e].waits = engine[e].waits /\ g[e].stops = engine[e].stops
  <2> DEFINE h == [engine[e] EXCEPT !.ctx = "none"]
  <2>1. g = [engine EXCEPT ![e] = h]
    OBVIOUS
  <2>2. /\ h \in EngineType /\ h.ctx = "none"
        /\ h.closing = engine[e].closing /\ h.st = engine[e].st /\ h.inMsgs = engine[e].inMsgs
        /\ h.waits = engine[e].waits /\ h.stops = engine[e].stops
    BY <1>0, SetCtx
  <2> HIDE DEF h, g
  <2> QED
    BY <1>0, <1>3, <2>1, <2>2
<1> HIDE DEF g, q
<1>5. /\ conn' = conn
      /\ engine' \in [Engines -> EngineType]
      /\ \A d \in Engines \ {e} : engine'[d] = engine[d]
      /\ LET h == engine'[e] IN
         /\ h.closing = g[e].closing /\ h.ctx = g[e].ctx /\ h.inMsgs = g[e].inMsgs
         /\ h.waits = g[e].waits /\ h.stops = g[e].stops
         /\ \/ h.st = "up"
            \/ h.st \in {"stopping", "gone"} /\ g[e].ctx = "none" /\ RemotesOf(e, conn) = {}
         /\ h.st = "stopping" => mode.own
      /\ app' \in AppType /\ AppOK'
      /\ queue' \in Queues /\ Ordered(queue')
      /\ \A k \in Loops : \A u : u # TaskFor("close_app", App) => (In(queue', k, u) <=> In(q, k, u))
      /\ \A k \in Loops : \A u, s :
           AllBehind(q, k, u, s) /\ u # TaskFor("close_app", App) => AllBehind(queue', k, u, s)
      /\ \A k \in Loops : In(queue', k, TaskFor("close_app", App)) =>
           k = App /\ ToClose(app')
      /\ app'.state # "running" => app.state # "running" \/ \A x \in Connections : ~OnItsWay(x)
  BY <1>1, <1>2, <1>3, <1>4, ProceedsFacts
<1>6. \A x \in Connections : conn[x].to = e => conn[x].at # "engine"
  BY <1>3, NobodyComes DEF Doomed
<1>7. /\ TasksKept(queue, queue', K, {e})
      /\ \A k \in Loops : \A f \in GraphTasks : In(queue', k, TaskFor(f, e)) =>
           In(queue, k, TaskFor(f, e)) /\ (k = l => f # "context_closed")
  <2>1. /\ TypeOK /\ Ordered(queue) /\ "context_closed" \in GraphTasks /\ "context_closed" # "in_msgs"
        /\ Task("context_closed", l, e) /\ queue' \in Queues
        /\ \A k \in Loops : \A u : u # TaskFor("close_app", App) => (In(queue', k, u) <=> In(Taken(l), k, u))
        /\ \A k \in Loops : \A u, s :
             AllBehind(Taken(l), k, u, s) /\ u # TaskFor("close_app", App) => AllBehind(queue', k, u, s)
        /\ K \in SUBSET Connections
        /\ \A x \in Connections \ K : conn[x].to = e => conn[x].at # "engine"
    BY <1>0, <1>1, <1>5, <1>6 DEF q
  <2> HIDE DEF K
  <2>2. /\ TasksKept(queue, queue', K, {e})
        /\ \A k \in Loops : \A f \in GraphTasks : In(queue', k, TaskFor(f, e)) =>
             /\ In(queue, k, TaskFor(f, e))
             /\ k = l => f # "context_closed" /\ Behind(queue, l, TaskFor(f, e), TaskFor("context_closed", e))
    BY ONLY <2>1, l \in Loops, e \in Engines, TaskOfClosing
  <2> QED
    BY <2>2
<1>8. \A k \in Loops : \A f \in GraphTasks : ~In(queue', k, TaskFor(f, e))
  <2> SUFFICES ASSUME NEW k \in Loops, NEW f \in GraphTasks, In(queue', k, TaskFor(f, e)) PROVE FALSE
    OBVIOUS
  <2>1. In(queue, k, TaskFor(f, e)) /\ GraphTasksOK(k, e) /\ (k = l => f # "context_closed")
    BY <1>0, <1>7
  <2>2. f # "context_closed"
    BY <1>3, <2>1 DEF GraphTasksOK
  <2>3. f # "close_engine" /\ f # "engine_closed"
    BY <1>3, <2>1 DEF GraphTasksOK
  <2>4. f # "in_msgs"
    <3>1. ~Pending(e)
      BY <1>0, <1>3 DEF Pending, GraphTasksOK, LoopOf, Loops
    <3>2. f = "in_msgs" => k = LoopOf(e)
      BY <2>1 DEF GraphTasksOK
    <3> QED
      BY <1>0, <1>3, <2>1, <3>1, <3>2 DEF EngineOK
  <2> QED
    BY <2>2, <2>3, <2>4 DEF GraphTasks
<1>9. \A k \in Loops : /\ GraphTasksOK(k, e)'
                       /\ ~In(queue', k, TaskFor("in_msgs", e))
                       /\ ~In(queue', k, TaskFor("close_engine", e))
  BY <1>8 DEF GraphTasksOK, GraphTasks
<1>10. draining' \in [Loops -> BOOLEAN] /\ DrainsOn
  BY <1>0, <1>1, <1>5, DrainsNext
<1>11. /\ engine'[e].closing /\ engine'[e].inMsgs = engine[e].inMsgs
       /\ engine'[e].waits = engine[e].waits /\ engine'[e].stops = engine[e].stops
       /\ \/ engine'[e].st = "up"
          \/ /\ engine'[e].st \in {"stopping", "stopped", "gone"} /\ engine'[e].ctx \notin {"closing", "ended"}
             /\ RemotesOf(e, conn') = {}
       /\ engine'[e].st \in {"stopping", "stopped"} => mode.own
  <2>1. RemotesOf(e, conn') = RemotesOf(e, conn)
    BY <1>5
  <2> QED
    BY <1>4, <1>5, <2>1
<1>12. /\ conn' \in [Connections -> ConnectionType] /\ K \in SUBSET Connections
       /\ \A x \in Connections \ K : conn'[x] = conn[x]
       /\ \A x \in K :
             /\ conn[x].at = "remote" /\ conn[x].to = e
             /\ conn'[x].at \in {"remote", "gone"} /\ conn'[x].to = e /\ conn'[x].hop = conn[x].hop
             /\ ConnectionOK(x)' /\ \A k \in Loops : MoveTasksOK(k, x)'
  BY <1>0, <1>5
<1> HIDE DEF K
<1> QED
  BY <1>1, <1>3, <1>5, <1>7, <1>9, <1>10, <1>11, <1>12, StepOfClosing

\* The remotes of an engine are told to close: the task of the engine runs on.
LEMMA RemoteShut ==
    ASSUME IInv, NEW l \in Loops, NEW e \in Engines, l = LoopOf(e), mode' = mode,
           NEW x \in Connections, conn[x].at = "remote", conn[x].to = e,
           conn'[x] = ShutConnection(conn[x]), engine'[e].st = "up",
           \A k \in Loops : \A f \in MoveTasks :
             In(queue', k, TaskFor(f, x)) => In(queue, k, TaskFor(f, x)),
           \A u : In(queue', l, u) => draining'[l]
    PROVE  /\ conn'[x] \in ConnectionType
           /\ conn'[x].at = "remote" /\ conn'[x].to = e /\ conn'[x].hop = conn[x].hop
           /\ ConnectionOK(x)' /\ \A k \in Loops : MoveTasksOK(k, x)'
<1>0. /\ conn[x] \in ConnectionType /\ ConnectionOK(x) /\ \A k \in Loops : MoveTasksOK(k, x)
  BY TypeParts DEF IInv, TasksOK
<1>1. LET r == conn[x]
          s == conn'[x] IN
      /\ s \in ConnectionType
      /\ s.at = r.at /\ s.to = r.to /\ s.hop = r.hop /\ s.first = r.first /\ s.rest = r.rest
      /\ s.eof = r.eof
      /\ s.stream = r.stream \/ (r.stream = "open" /\ s.stream = "closing" /\ s.pshut)
      /\ r.pshut => s.pshut
      /\ s.pshut => r.pshut \/ r.stream # "open" \/ s.stream = "closing"
  <2>1. ShutConnection(conn[x]) \in {ShutProtocol(conn[x]), ShutConnection(conn[x])}
    OBVIOUS
  <2> QED
    BY <1>0, <2>1, ShutEffect
<1>2. /\ conn[x].stream \in {"open", "closing"} /\ (conn[x].pshut <=> conn[x].stream = "closing")
      /\ conn[x].hop = "done" /\ (conn[x].rest => mode.batch)
  BY <1>0 DEF ConnectionOK, Attached
<1>3. ConnectionOK(x)'
  <2>1. /\ conn'[x].at = "remote" /\ conn'[x].to = e /\ conn'[x].hop = "done"
        /\ conn'[x].stream \in {"open", "closing"}
        /\ (conn'[x].pshut <=> conn'[x].stream = "closing")
        /\ (conn'[x].rest => mode'.batch)
    BY <1>1, <1>2
  <2> QED
    BY <2>1 DEF ConnectionOK, Attached, Way
<1>4. ASSUME NEW k \in Loops PROVE MoveTasksOK(k, x)'
  <2>1. MoveTasksOK(k, x) /\ \A f \in MoveTasks : In(queue', k, TaskFor(f, x)) => In(queue, k, TaskFor(f, x))
    BY <1>0
  <2>2. AttachedLoop(x) = l /\ AttachedLoop(x)' = l
    BY <1>1 DEF AttachedLoop, LoopOf
  <2>3. ~In(queue', k, TaskFor("accepted", x)) /\ ~In(queue', k, TaskFor("clean", x))
    BY <2>1 DEF MoveTasksOK, MoveTasks
  <2>4. In(queue', k, TaskFor("cleaned", x)) => k = l /\ draining'[k]
    BY <2>1, <2>2 DEF MoveTasksOK, MoveTasks
  <2>5. In(queue', k, TaskFor("proto_close", x)) => conn[x].eof /\ k = l
    BY <2>1, <2>2 DEF MoveTasksOK, MoveTasks, Attached
  <2>6. conn'[x].at = "remote" /\ conn'[x].eof = conn[x].eof
    BY <1>1
  <2> QED
    BY <2>2, <2>3, <2>4, <2>5, <2>6 DEF MoveTasksOK, Attached
<1> QED
  BY <1>1, <1>3, <1>4

\* ten_engine_close_sync: the extension context and the remotes are told to close.
LEMMA CloseEngineStep ==
    ASSUME IInv, NEW l \in Loops, NEW e \in Engines, CloseEngine(l, e)
    PROVE  IInv'
<1> DEFINE g == [engine EXCEPT ![e].ctx = IF @ = "up" THEN "closing" ELSE @]
           q == Taken(l)
           K == RemotesOf(e, conn)
           m == Shut(conn, K)
<1>0. /\ TypeOK /\ queue \in Queues /\ Ordered(queue)
      /\ engine \in [Engines -> EngineType] /\ conn \in [Connections -> ConnectionType]
      /\ EngineOK(e) /\ "close_engine" \in GraphTasks
      /\ \A k \in Loops : GraphTasksOK(k, e)
  BY TypeParts DEF IInv, GraphTasks, TasksOK
<1>1. /\ Task("close_engine", l, e) /\ EngineProceeds(e, m, g, q) /\ mode' = mode /\ Drained(l)
  BY DEF CloseEngine
<1>2. /\ q \in Queues /\ Ordered(q) /\ In(queue, l, TaskFor("close_engine", e))
      /\ \A k \in Loops : \A u : In(q, k, u) => In(queue, k, u)
  BY <1>0, <1>1, TakesGraphTask
<1>3. l = LoopOf(e) /\ engine[e].st = "up" /\ engine[e].ctx \in {"none", "up"} /\ engine[e].closing
  BY <1>0, <1>2 DEF GraphTasksOK
<1>4. /\ g \in [Engines -> EngineType] /\ \A d \in Engines \ {e} : g[d] = engine[d]
      /\ g[e].st = "up" /\ g[e].closing /\ g[e].inMsgs = engine[e].inMsgs
      /\ g[e].waits = engine[e].waits /\ g[e].stops = engine[e].stops
  <2> DEFINE v == IF engine[e].ctx = "up" THEN "closing" ELSE engine[e].ctx
             h == [engine[e] EXCEPT !.ctx = v]
  <2>1. g = [engine EXCEPT ![e] = h]
    OBVIOUS
  <2>2. v \in {"none", "up", "closing", "ended"}
    BY <1>3
  <2> HIDE DEF v
  <2>3. /\ h \in EngineType
        /\ h.closing = engine[e].closing /\ h.st = engine[e].st /\ h.inMsgs = engine[e].inMsgs
        /\ h.waits = engine[e].waits /\ h.stops = engine[e].stops
    BY <1>0, <2>2, SetCtx, ZenonT(40)
  <2> HIDE DEF h, g
  <2> QED
    BY <1>0, <1>3, <2>1, <2>3
<1> HIDE DEF g, q
<1>5. /\ m = [x \in Connections |-> IF x \in K THEN ShutConnection(conn[x]) ELSE conn[x]]
      /\ K \in SUBSET Connections
      /\ \A x \in Connections : x \in K <=> conn[x].at = "remote" /\ conn[x].to = e
  BY DEF Shut, RemotesOf
<1>6. \A x \in Connections :
        ShutConnection(conn[x]).at = conn[x].at /\ ShutConnection(conn[x]).to = conn[x].to
        /\ ShutConnection(conn[x]) \in ConnectionType
  <2> TAKE x \in Connections
  <2>1. conn[x] \in ConnectionType
    BY <1>0
  <2>2. ShutConnection(conn[x]) \in {ShutProtocol(conn[x]), ShutConnection(conn[x])}
    OBVIOUS
  <2> QED
    BY <2>1, <2>2, ShutEffect
<1> HIDE DEF m, K
<1>7. /\ \A x \in Connections : m[x].at = conn[x].at /\ m[x].to = conn[x].to
      /\ m \in [Connections -> ConnectionType]
      /\ Orphans(m) = Orphans(conn) /\ RemotesOf(e, m) = K
  <2>1. /\ \A x \in Connections : m[x].at = conn[x].at /\ m[x].to = conn[x].to
        /\ m \in [Connections -> ConnectionType]
    BY <1>0, <1>5, <1>6
  <2>2. Orphans(m) = Orphans(conn) /\ RemotesOf(e, m) = RemotesOf(e, conn)
    BY <2>1 DEF Orphans, RemotesOf
  <2> QED
    BY <2>1, <2>2 DEF K
<1>8. /\ conn' = m
      /\ engine' \in [Engines -> EngineType]
      /\ \A d \in Engines \ {e} : engine'[d] = engine[d]
      /\ LET h == engine'[e] IN
         /\ h.closing = g[e].closing /\ h.ctx = g[e].ctx /\ h.inMsgs = g[e].inMsgs
         /\ h.waits = g[e].waits /\ h.stops = g[e].stops
         /\ \/ h.st = "up"
            \/ h.st \in {"stopping", "gone"} /\ g[e].ctx = "none" /\ RemotesOf(e, m) = {}
         /\ h.st = "stopping" => mode.own
      /\ app' \in AppType /\ AppOK'
      /\ queue' \in Queues /\ Ordered(queue')
      /\ \A k \in Loops : \A u : u # TaskFor("close_app", App) => (In(queue', k, u) <=> In(q, k, u))
      /\ \A k \in Loops : \A u, s :
           AllBehind(q, k, u, s) /\ u # TaskFor("close_app", App) => AllBehind(queue', k, u, s)
      /\ \A k \in Loops : In(queue', k, TaskFor("close_app", App)) =>
           k = App /\ ToClose(app')
      /\ app'.state # "running" => app.state # "running" \/ \A x \in Connections : ~OnItsWay(x)
  BY <1>1, <1>2, <1>3, <1>4, <1>7, ProceedsFacts
<1>9. \A x \in Connections : conn[x].to = e => conn[x].at # "engine"
  BY <1>3, NobodyComes DEF Doomed
<1>10. /\ TasksKept(queue, queue', K, {e})
       /\ \A k \in Loops : \A f \in GraphTasks : In(queue', k, TaskFor(f, e)) =>
            /\ In(queue, k, TaskFor(f, e))
            /\ k = l => f # "close_engine" /\ Behind(queue, l, TaskFor(f, e), TaskFor("close_engine", e))
       /\ \A k \in Loops : \A f \in MoveTasks : \A x \in Connections :
            In(queue', k, TaskFor(f, x)) => In(queue, k, TaskFor(f, x))
  <2>1. /\ TypeOK /\ Ordered(queue) /\ "close_engine" \in GraphTasks /\ "close_engine" # "in_msgs"
        /\ Task("close_engine", l, e) /\ queue' \in Queues
        /\ \A k \in Loops : \A u : u # TaskFor("close_app", App) => (In(queue', k, u) <=> In(Taken(l), k, u))
        /\ \A k \in Loops : \A u, s :
             AllBehind(Taken(l), k, u, s) /\ u # TaskFor("close_app", App) => AllBehind(queue', k, u, s)
        /\ K \in SUBSET Connections
        /\ \A x \in Connections \ K : conn[x].to = e => conn[x].at # "engine"
    BY <1>0, <1>1, <1>5, <1>8, <1>9 DEF q
  <2> QED
    BY ONLY <2>1, l \in Loops, e \in Engines, TaskOfClosing
<1>11. \A k \in Loops : \A f \in GraphTasks : ~In(queue', k, TaskFor(f, e))
  <2> SUFFICES ASSUME NEW k \in Loops, NEW f \in GraphTasks, In(queue', k, TaskFor(f, e)) PROVE FALSE
    OBVIOUS
  <2>1. /\ In(queue, k, TaskFor(f, e)) /\ GraphTasksOK(k, e)
        /\ k = l => f # "close_engine" /\ Behind(queue, l, TaskFor(f, e), TaskFor("close_engine", e))
    BY <1>0, <1>10
  <2>2. f # "context_closed" /\ f # "engine_closed"
    BY <1>3, <2>1 DEF GraphTasksOK
  <2>3. f \in {"close_engine", "in_msgs"} => k = l
    BY <1>3, <2>1 DEF GraphTasksOK
  <2>4. ~Behind(queue, l, TaskFor("in_msgs", e), TaskFor("close_engine", e))
    BY <1>0 DEF Ordered
  <2> QED
    BY <2>1, <2>2, <2>3, <2>4 DEF GraphTasks
<1>12. \A k \in Loops : /\ GraphTasksOK(k, e)'
                        /\ ~In(queue', k, TaskFor("in_msgs", e))
                        /\ ~In(queue', k, TaskFor("close_engine", e))
  BY <1>11 DEF GraphTasksOK, GraphTasks
<1>13. /\ draining' \in [Loops -> BOOLEAN] /\ DrainsOn
       /\ \A u : In(queue', l, u) => draining'[l]
  BY <1>0, <1>1, <1>8, DrainsNext
<1>14. /\ engine'[e].closing /\ engine'[e].inMsgs = engine[e].inMsgs
       /\ engine'[e].waits = engine[e].waits /\ engine'[e].stops = engine[e].stops
       /\ \/ engine'[e].st = "up"
          \/ /\ engine'[e].st \in {"stopping", "stopped", "gone"} /\ engine'[e].ctx \notin {"closing", "ended"}
             /\ RemotesOf(e, conn') = {}
       /\ engine'[e].st \in {"stopping", "stopped"} => mode.own
  BY <1>4, <1>8
<1>15. \A x \in K : engine'[e].st = "up"
  BY <1>7, <1>8
<1>16. ASSUME NEW x \in K
       PROVE  /\ conn[x].at = "remote" /\ conn[x].to = e
              /\ conn'[x].at = "remote" /\ conn'[x].to = e /\ conn'[x].hop = conn[x].hop
              /\ ConnectionOK(x)' /\ \A k \in Loops : MoveTasksOK(k, x)'
  <2>1. /\ x \in Connections /\ conn[x].at = "remote" /\ conn[x].to = e
        /\ conn'[x] = ShutConnection(conn[x]) /\ engine'[e].st = "up"
    BY <1>5, <1>8, <1>15
  <2>2. \A k \in Loops : \A f \in MoveTasks :
             In(queue', k, TaskFor(f, x)) => In(queue, k, TaskFor(f, x))
    BY <2>1, <1>10
  <2> QED
    BY <1>1, <1>3, <1>13, <2>1, <2>2, RemoteShut
<1>17. /\ conn' \in [Connections -> ConnectionType] /\ K \in SUBSET Connections
       /\ \A x \in Connections \ K : conn'[x] = conn[x]
       /\ \A x \in K :
             /\ conn[x].at = "remote" /\ conn[x].to = e
             /\ conn'[x].at \in {"remote", "gone"} /\ conn'[x].to = e /\ conn'[x].hop = conn[x].hop
             /\ ConnectionOK(x)' /\ \A k \in Loops : MoveTasksOK(k, x)'
  BY <1>5, <1>7, <1>8, <1>16
<1> QED
  BY <1>1, <1>3, <1>8, <1>10, <1>12, <1>13, <1>14, <1>17, StepOfClosing

\* The thread of an engine has ended and the app forgets the engine.
LEMMA EngineClosedStep ==
    ASSUME IInv, NEW e \in Engines, EngineClosed(e)
    PROVE  IInv'
<1> DEFINE q == Taken(App)
           K == {}
<1>0. /\ TypeOK /\ queue \in Queues /\ Ordered(queue) /\ App \in Loops
      /\ engine \in [Engines -> EngineType] /\ conn \in [Connections -> ConnectionType]
      /\ EngineOK(e) /\ "engine_closed" \in GraphTasks
      /\ \A k \in Loops : GraphTasksOK(k, e)
      /\ \A x \in Connections : ConnectionOK(x)
  BY TypeParts DEF IInv, GraphTasks, TasksOK, Loops
<1>1. /\ Task("engine_closed", App, e) /\ AppReaps(e, conn, engine, q) /\ mode' = mode /\ Drained(App)
  BY DEF EngineClosed
<1>2. /\ q \in Queues /\ Ordered(q) /\ In(queue, App, TaskFor("engine_closed", e))
      /\ \A k \in Loops : \A u : In(q, k, u) => In(queue, k, u)
  BY <1>0, <1>1, TakesGraphTask
<1>3. /\ mode.own /\ engine[e].st = "stopped" /\ engine[e].closing
      /\ engine[e].ctx \notin {"closing", "ended"}
  BY <1>0, <1>2 DEF GraphTasksOK, EngineOK
<1> HIDE DEF q
<1>4. /\ conn' = conn /\ engine' = [engine EXCEPT ![e].st = "gone"]
      /\ app' \in AppType /\ AppOK'
      /\ queue' \in Queues /\ Ordered(queue')
      /\ \A k \in Loops : \A u : u # TaskFor("close_app", App) => (In(queue', k, u) <=> In(q, k, u))
      /\ \A k \in Loops : \A u, s :
           AllBehind(q, k, u, s) /\ u # TaskFor("close_app", App) => AllBehind(queue', k, u, s)
      /\ \A k \in Loops : In(queue', k, TaskFor("close_app", App)) =>
           k = App /\ ToClose(app')
      /\ app'.state # "running" => app.state # "running" \/ \A x \in Connections : ~OnItsWay(x)
  BY <1>0, <1>1, <1>2, <1>3, Reaps
<1>5. /\ engine' \in [Engines -> EngineType] /\ \A d \in Engines \ {e} : engine'[d] = engine[d]
      /\ engine'[e].st = "gone" /\ engine'[e].closing /\ engine'[e].inMsgs = engine[e].inMsgs
      /\ engine'[e].ctx = engine[e].ctx
      /\ engine'[e].waits = engine[e].waits /\ engine'[e].stops = engine[e].stops
  <2> DEFINE h == [engine[e] EXCEPT !.st = "gone"]
  <2>1. engine' = [engine EXCEPT ![e] = h]
    BY <1>4
  <2>2. /\ h \in EngineType /\ h.st = "gone"
        /\ h.closing = engine[e].closing /\ h.ctx = engine[e].ctx /\ h.inMsgs = engine[e].inMsgs
        /\ h.waits = engine[e].waits /\ h.stops = engine[e].stops
    BY <1>0, SetSt
  <2> HIDE DEF h
  <2> QED
    BY <1>0, <1>3, <2>1, <2>2
<1>6. /\ \A x \in Connections : conn[x].to = e => conn[x].at # "engine"
      /\ RemotesOf(e, conn) = {}
  BY <1>0, <1>3 DEF ConnectionOK, RemotesOf
<1>7. /\ TasksKept(queue, queue', K, {e})
      /\ \A k \in Loops : \A f \in GraphTasks : In(queue', k, TaskFor(f, e)) =>
           In(queue, k, TaskFor(f, e)) /\ (k = App => f # "engine_closed")
  <2>1. /\ TypeOK /\ Ordered(queue) /\ "engine_closed" \in GraphTasks /\ "engine_closed" # "in_msgs"
        /\ App \in Loops
        /\ Task("engine_closed", App, e) /\ queue' \in Queues
        /\ \A k \in Loops : \A u : u # TaskFor("close_app", App) => (In(queue', k, u) <=> In(Taken(App), k, u))
        /\ \A k \in Loops : \A u, s :
             AllBehind(Taken(App), k, u, s) /\ u # TaskFor("close_app", App) => AllBehind(queue', k, u, s)
        /\ K \in SUBSET Connections
        /\ \A x \in Connections \ K : conn[x].to = e => conn[x].at # "engine"
    BY <1>0, <1>1, <1>4, <1>6 DEF q
  <2> HIDE DEF K
  <2>2. /\ TasksKept(queue, queue', K, {e})
        /\ \A k \in Loops : \A f \in GraphTasks : In(queue', k, TaskFor(f, e)) =>
             /\ In(queue, k, TaskFor(f, e))
             /\ k = App => f # "engine_closed" /\ Behind(queue, App, TaskFor(f, e), TaskFor("engine_closed", e))
    BY ONLY <2>1, e \in Engines, TaskOfClosing
  <2> QED
    BY <2>2
<1>8. \A k \in Loops : \A f \in GraphTasks : ~In(queue', k, TaskFor(f, e))
  BY <1>0, <1>3, <1>7 DEF GraphTasksOK, GraphTasks
<1>9. \A k \in Loops : /\ GraphTasksOK(k, e)'
                       /\ ~In(queue', k, TaskFor("in_msgs", e))
                       /\ ~In(queue', k, TaskFor("close_engine", e))
  BY <1>8 DEF GraphTasksOK, GraphTasks
<1>10. draining' \in [Loops -> BOOLEAN] /\ DrainsOn
  BY <1>0, <1>1, <1>4, DrainsNext
<1>11. /\ engine'[e].closing /\ engine'[e].inMsgs = engine[e].inMsgs
       /\ engine'[e].waits = engine[e].waits /\ engine'[e].stops = engine[e].stops
       /\ \/ engine'[e].st = "up"
          \/ /\ engine'[e].st \in {"stopping", "stopped", "gone"} /\ engine'[e].ctx \notin {"closing", "ended"}
             /\ RemotesOf(e, conn') = {}
       /\ engine'[e].st \in {"stopping", "stopped"} => mode.own
  BY <1>3, <1>4, <1>5, <1>6
<1>12. /\ conn' \in [Connections -> ConnectionType] /\ K \in SUBSET Connections
       /\ \A x \in Connections \ K : conn'[x] = conn[x]
       /\ \A x \in K :
             /\ conn[x].at = "remote" /\ conn[x].to = e
             /\ conn'[x].at \in {"remote", "gone"} /\ conn'[x].to = e /\ conn'[x].hop = conn[x].hop
             /\ ConnectionOK(x)' /\ \A k \in Loops : MoveTasksOK(k, x)'
  BY <1>0, <1>4
<1> HIDE DEF K
<1> QED
  BY <1>1, <1>3, <1>4, <1>5, <1>7, <1>9, <1>10, <1>11, <1>12, StepOfClosing

\* An engine tells its own loop, or the app, of an end.
LEMMA EngineTells ==
    ASSUME IInv, NEW e \in Engines, NEW f \in GraphTasks, NEW l \in Loops,
           UNCHANGED <<mode, app, conn, draining>>,
           engine[e].closing, engine[e].st \in {"up", "stopping"},
           engine' \in [Engines -> EngineType], \A d \in Engines \ {e} : engine'[d] = engine[d],
           engine'[e].closing, engine'[e].inMsgs = engine[e].inMsgs,
           engine'[e].waits = engine[e].waits, engine'[e].stops = engine[e].stops,
           queue' = Post(queue, l, TaskFor(f, e)),
           \A k \in Loops : \A h \in GraphTasks : ~In(queue, k, TaskFor(h, e)),
           \/ /\ f = "context_closed" /\ l = LoopOf(e)
              /\ engine'[e].st = "up" /\ engine'[e].ctx = "ended"
           \/ /\ f = "engine_closed" /\ l = App /\ mode.own
              /\ engine'[e].st = "stopped" /\ engine'[e].ctx \notin {"closing", "ended"}
              /\ RemotesOf(e, conn) = {}
    PROVE  IInv'
<1> DEFINE t == TaskFor(f, e)
           K == {}
<1>0. /\ TypeOK /\ AppOK /\ queue \in Queues /\ Ordered(queue) /\ app \in AppType
      /\ engine \in [Engines -> EngineType] /\ conn \in [Connections -> ConnectionType]
      /\ draining \in [Loops -> BOOLEAN]
      /\ t \in Tasks
  BY TypeParts, TaskKinds DEF IInv
<1>1. /\ queue' \in Queues
      /\ \A k \in Loops : \A u : In(queue', k, u) <=> In(queue, k, u) \/ (Accepts(l) /\ k = l /\ u = t)
      /\ \A k \in Loops : \A u, s : AllBehind(queue, k, u, s) /\ u # t => AllBehind(queue', k, u, s)
  BY <1>0, Posts
<1>2. Ordered(queue')
  BY <1>0, OrderPosted DEF GraphTasks
<1>3. /\ TasksKept(queue, queue', K, {e})
      /\ \A k \in Loops : In(queue', k, TaskFor("close_app", App)) => In(queue, k, TaskFor("close_app", App))
      /\ \A k \in Loops : \A g \in GraphTasks :
           In(queue', k, TaskFor(g, e)) => k = l /\ g = f
  <2>0. K \in SUBSET Connections
    OBVIOUS
  <2> HIDE DEF K
  <2>1. /\ \A k \in Loops : \A u : In(queue', k, u) => In(queue, k, u) \/ (k = l /\ u = TaskFor(f, e))
        /\ \A k \in Loops : \A u : In(queue, k, u) => In(queue', k, u)
        /\ \A k \in Loops : \A u, s :
             AllBehind(queue, k, u, s) /\ u # TaskFor(f, e) => AllBehind(queue', k, u, s)
        /\ queue \in Queues
    BY <1>0, <1>1
  <2>2. f # "close_app" /\ f # "cleaned" /\ \A g \in MoveTasks : g # f
    BY DEF GraphTasks, MoveTasks
  <2>3. TasksKept(queue, queue', K, {e})
    BY ONLY <2>0, <2>1, <2>2, SameTask DEF TasksKept, Loops
  <2>4. /\ \A k \in Loops : In(queue', k, TaskFor("close_app", App)) => In(queue, k, TaskFor("close_app", App))
        /\ \A k \in Loops : \A g \in GraphTasks :
             In(queue', k, TaskFor(g, e)) => In(queue, k, TaskFor(g, e)) \/ (k = l /\ g = f)
    BY ONLY <2>1, <2>2, SameTask
  <2> QED
    BY <2>3, <2>4
<1> HIDE DEF t
<1>4. \A k \in Loops : /\ GraphTasksOK(k, e)'
                       /\ ~In(queue', k, TaskFor("in_msgs", e))
                       /\ ~In(queue', k, TaskFor("close_engine", e))
  BY <1>3 DEF GraphTasksOK, GraphTasks, LoopOf
<1>5. DrainsOn /\ draining' \in [Loops -> BOOLEAN]
  BY <1>0 DEF DrainsOn
<1>6. app' \in AppType /\ AppOK'
  <2>1. Listed(engine') = Listed(engine)
    BY DEF Listed
  <2>2. Orphans(conn') = Orphans(conn)
    OBVIOUS
  <2>3. \A d \in Engines : engine'[d].st = "gone" => engine[d].st = "gone"
    OBVIOUS
  <2> QED
    BY <1>0, <2>1, <2>2, <2>3 DEF AppOK
<1>7. /\ \A k \in Loops : In(queue', k, TaskFor("close_app", App)) =>
           k = App /\ ToClose(app')
      /\ app'.state # "running" => app.state # "running" \/ \A x \in Connections : ~OnItsWay(x)
  BY <1>3 DEF IInv, TasksOK
<1>8. /\ conn' \in [Connections -> ConnectionType] /\ K \in SUBSET Connections
      /\ \A x \in Connections \ K : conn'[x] = conn[x]
      /\ \A x \in K :
            /\ conn[x].at = "remote" /\ conn[x].to = e
            /\ conn'[x].at \in {"remote", "gone"} /\ conn'[x].to = e /\ conn'[x].hop = conn[x].hop
            /\ ConnectionOK(x)' /\ \A k \in Loops : MoveTasksOK(k, x)'
  BY <1>0
<1>9. /\ \/ engine'[e].st = "up"
         \/ /\ engine'[e].st \in {"stopping", "stopped", "gone"} /\ engine'[e].ctx \notin {"closing", "ended"}
            /\ RemotesOf(e, conn') = {}
      /\ engine'[e].st \in {"stopping", "stopped"} => mode.own
      /\ mode' = mode
      /\ engine[e].st \in {"up", "stopping", "stopped"}
  OBVIOUS
<1> HIDE DEF K
<1> QED
  BY <1>1, <1>2, <1>3, <1>4, <1>5, <1>6, <1>7, <1>8, <1>9, StepOfClosing

\* The threads of the extensions, or the one of the engine, have ended.
LEMMA EngineEndsStep ==
    ASSUME IInv, NEW e \in Engines, EngineEnds(e)
    PROVE  IInv'
<1>0. /\ TypeOK /\ engine \in [Engines -> EngineType] /\ EngineOK(e)
      /\ \A k \in Loops : GraphTasksOK(k, e)
      /\ \A x \in Connections : ConnectionOK(x)
      /\ App \in Loops /\ LoopOf(e) \in Loops
      /\ "context_closed" \in GraphTasks /\ "engine_closed" \in GraphTasks
  BY TypeParts DEF IInv, TasksOK, Loops, LoopOf, GraphTasks
<1>1. CASE ContextEnds(e)
  <2>1. /\ engine[e].ctx = "closing"
        /\ engine' = [engine EXCEPT ![e].ctx = "ended"]
        /\ queue' = Post(queue, LoopOf(e), TaskFor("context_closed", e))
        /\ UNCHANGED <<mode, app, conn, draining>>
    BY <1>1 DEF ContextEnds
  <2>2. engine[e].st = "up" /\ engine[e].closing
    BY <1>0, <2>1 DEF EngineOK
  <2>3. \A k \in Loops : \A h \in GraphTasks : ~In(queue, k, TaskFor(h, e))
    <3>1. ~In(queue, LoopOf(e), TaskFor("in_msgs", e))
      BY <1>0, <2>1, <2>2 DEF EngineOK, Pending, GraphTasksOK
    <3> QED
      BY <1>0, <2>1, <2>2, <3>1 DEF GraphTasksOK, GraphTasks
  <2>4. /\ engine' \in [Engines -> EngineType] /\ \A d \in Engines \ {e} : engine'[d] = engine[d]
        /\ engine'[e].st = "up" /\ engine'[e].closing /\ engine'[e].inMsgs = engine[e].inMsgs
        /\ engine'[e].ctx = "ended"
        /\ engine'[e].waits = engine[e].waits /\ engine'[e].stops = engine[e].stops
    <3> DEFINE h == [engine[e] EXCEPT !.ctx = "ended"]
    <3>1. engine' = [engine EXCEPT ![e] = h]
      BY <2>1
    <3>2. /\ h \in EngineType /\ h.ctx = "ended"
          /\ h.closing = engine[e].closing /\ h.st = engine[e].st /\ h.inMsgs = engine[e].inMsgs
          /\ h.waits = engine[e].waits /\ h.stops = engine[e].stops
      BY <1>0, SetCtx
    <3> HIDE DEF h
    <3> QED
      BY <1>0, <2>2, <3>1, <3>2
  <2> QED
    BY <1>0, <2>1, <2>2, <2>3, <2>4, EngineTells
<1>2. CASE EngineThreadEnds(e)
  <2>1. /\ engine[e].st = "stopping"
        /\ engine' = [engine EXCEPT ![e].st = "stopped"]
        /\ queue' = Post(queue, App, TaskFor("engine_closed", e))
        /\ UNCHANGED <<mode, app, conn, draining>>
    BY <1>2 DEF EngineThreadEnds
  <2>2. engine[e].closing /\ mode.own /\ engine[e].ctx \notin {"closing", "ended"}
    BY <1>0, <2>1 DEF EngineOK
  <2>3. \A k \in Loops : \A h \in GraphTasks : ~In(queue, k, TaskFor(h, e))
    BY <1>0, <2>1 DEF GraphTasksOK, GraphTasks
  <2>4. /\ engine' \in [Engines -> EngineType] /\ \A d \in Engines \ {e} : engine'[d] = engine[d]
        /\ engine'[e].st = "stopped" /\ engine'[e].closing /\ engine'[e].inMsgs = engine[e].inMsgs
        /\ engine'[e].ctx = engine[e].ctx
        /\ engine'[e].waits = engine[e].waits /\ engine'[e].stops = engine[e].stops
    <3> DEFINE h == [engine[e] EXCEPT !.st = "stopped"]
    <3>1. engine' = [engine EXCEPT ![e] = h]
      BY <2>1
    <3>2. /\ h \in EngineType /\ h.st = "stopped"
          /\ h.closing = engine[e].closing /\ h.ctx = engine[e].ctx /\ h.inMsgs = engine[e].inMsgs
          /\ h.waits = engine[e].waits /\ h.stops = engine[e].stops
      BY <1>0, SetSt
    <3> HIDE DEF h
    <3> QED
      BY <1>0, <2>2, <3>1, <3>2
  <2>5. RemotesOf(e, conn) = {}
    BY <1>0, <2>1 DEF ConnectionOK, RemotesOf
  <2> QED
    BY <1>0, <2>1, <2>2, <2>3, <2>4, <2>5, EngineTells
<1> QED
  BY <1>1, <1>2 DEF EngineEnds

\* The stream of a remote has ended: what holds of the remote and its engine.
LEMMA RemoteClosedFacts ==
    ASSUME IInv, NEW c \in Connections, RemoteClosed(c)
    PROVE  LET e == conn[c].to
               k == [conn EXCEPT ![c].at = "gone", ![c].stream = "closed", ![c].shut = TRUE] IN
           /\ conn[c].at = "remote" /\ conn[c].stream = "closing" /\ conn[c].pshut
           /\ conn[c].hop = "done" /\ e \in Engines /\ engine[e].st = "up"
           /\ ~draining[AttachedLoop(c)] /\ UNCHANGED <<mode, draining>>
           /\ conn' = k
           /\ engine[e].closing => EngineProceeds(e, k, engine, queue)
           /\ ~engine[e].closing =>
                /\ engine' = CloseAsync(engine, IF mode.engLong THEN {} ELSE {e})
                /\ queue' = ClosePosted(queue, IF mode.engLong THEN {} ELSE {e})
                /\ app' = app
<1> DEFINE e == conn[c].to
           k == [conn EXCEPT ![c].at = "gone", ![c].stream = "closed", ![c].shut = TRUE]
<1>1. /\ conn[c].stream = "closing" /\ conn[c].at \in {"engine", "remote"}
      /\ ~draining[LoopOf(e)] /\ UNCHANGED <<mode, draining>>
  BY DEF RemoteClosed, Callback
<1>2. ConnectionOK(c)
  BY DEF IInv
<1>3. /\ conn[c].at = "remote" /\ conn[c].pshut /\ conn[c].hop = "done"
      /\ e \in Engines /\ engine[e].st = "up"
  BY <1>1, <1>2 DEF ConnectionOK, Attached
<1>4. AttachedLoop(c) = LoopOf(e)
  BY <1>3 DEF AttachedLoop
<1> HIDE DEF k
<1>5. /\ engine[e].closing => EngineProceeds(e, k, engine, queue)
      /\ ~engine[e].closing =>
           /\ conn' = k
           /\ engine' = CloseAsync(engine, IF mode.engLong THEN {} ELSE {e})
           /\ queue' = ClosePosted(queue, IF mode.engLong THEN {} ELSE {e})
           /\ app' = app
  <2>1. conn[c].at # "engine"
    BY <1>3
  <2> QED
    BY <1>3, <2>1 DEF RemoteClosed, k
<1>6. conn' = k
  BY <1>5 DEF EngineProceeds, AppReaps
<1> QED
  BY <1>1, <1>3, <1>4, <1>5, <1>6 DEF k

\* The remote is gone, and its engine is as before.
LEMMA RemoteOnly ==
    ASSUME IInv, NEW c \in Connections, RemoteClosed(c), engine' = engine, app' = app,
           queue' \in Queues, Ordered(queue'),
           \A l \in Loops : \A u : In(queue', l, u) <=> In(queue, l, u),
           \A l \in Loops : \A u, s :
             AllBehind(queue, l, u, s) /\ u.run # "close_engine" => AllBehind(queue', l, u, s)
    PROVE  IInv'
<1>1. /\ conn[c].at = "remote" /\ conn[c].stream = "closing"
      /\ conn[c].hop = "done" /\ ~draining[AttachedLoop(c)] /\ UNCHANGED <<mode, draining>>
      /\ conn' = [conn EXCEPT ![c].at = "gone", ![c].stream = "closed", ![c].shut = TRUE]
  BY RemoteClosedFacts
<1>2. /\ conn' \in [Connections -> ConnectionType]
      /\ \A x \in Connections : x # c => conn'[x] = conn[x]
      /\ conn'[c].at = "gone" /\ conn'[c].to = conn[c].to /\ conn'[c].hop = conn[c].hop
      /\ ConnectionOK(c)' /\ \A l \in Loops : MoveTasksOK(l, c)'
  <2>1. conn[c].at \in Attached
    BY <1>1 DEF Attached
  <2>2. \A l \in Loops : \A f \in MoveTasks :
          In(queue', l, TaskFor(f, c)) => In(queue, l, TaskFor(f, c))
    OBVIOUS
  <2> QED
    BY <1>1, <2>1, <2>2, GoneOK
<1>3. OthersKept(queue, queue', c)
  <2>1. \A x : TaskFor("cleaned", x).run # "close_engine"
    BY DEF TaskFor
  <2> QED
    BY <2>1 DEF OthersKept, MovesKept, Loops
<1>4. draining' \in [Loops -> BOOLEAN] /\ DrainsOn
  BY <1>1, TypeParts DEF IInv, DrainsOn
<1>5. Calm'
  <2>1. ~OnItsWay(c)' /\ Calm
    BY <1>1, <1>2 DEF OnItsWay, IInv
  <2> QED
    BY <1>1, <1>2, <2>1, CalmKept
<1>6. conn[c].hop \notin Way /\ conn[c].at # "engine" /\ conn[c].hop # "waited"
  BY <1>1 DEF Way
<1> QED
  BY <1>1, <1>2, <1>3, <1>4, <1>5, <1>6, OneStep, SMTT(30)

\* The last remote of an engine that closes is gone (ten_engine_on_remote_closed).
LEMMA LastRemoteClosed ==
    ASSUME IInv, NEW c \in Connections, RemoteClosed(c), NEW e \in Engines, conn[c].to = e,
           engine[e].closing, engine[e].ctx = "none"
    PROVE  IInv'
<1> DEFINE m == [conn EXCEPT ![c].at = "gone", ![c].stream = "closed", ![c].shut = TRUE]
           K == {c}
<1>0. /\ TypeOK /\ queue \in Queues /\ Ordered(queue)
      /\ engine \in [Engines -> EngineType] /\ conn \in [Connections -> ConnectionType]
      /\ draining \in [Loops -> BOOLEAN]
      /\ \A d \in Engines : EngineOK(d)
      /\ \A k \in Loops : \A d \in Engines : GraphTasksOK(k, d)
  BY TypeParts, SMTT(30) DEF IInv, TasksOK
<1>1. /\ conn[c].at = "remote" /\ conn[c].stream = "closing" /\ conn[c].hop = "done"
      /\ e \in Engines /\ engine[e].st = "up" /\ engine[e].closing /\ engine[e].ctx = "none"
      /\ ~draining[AttachedLoop(c)] /\ UNCHANGED <<mode, draining>>
      /\ conn' = m /\ EngineProceeds(e, m, engine, queue)
  BY RemoteClosedFacts
<1>2. /\ \A x \in Connections : x # c => m[x] = conn[x]
      /\ m[c].at = "gone"
  BY <1>0, <1>1
<1> HIDE DEF m
<1>3. Orphans(m) = Orphans(conn)
  BY <1>1, <1>2 DEF Orphans
<1>4. c \in RemotesOf(e, conn)
  BY <1>1 DEF RemotesOf
<1>5. \A k \in Loops : \A f \in GraphTasks : ~In(queue, k, TaskFor(f, e))
  <2> SUFFICES ASSUME NEW k \in Loops, NEW f \in GraphTasks, In(queue, k, TaskFor(f, e)) PROVE FALSE
    OBVIOUS
  <2>1. GraphTasksOK(k, e) /\ EngineOK(e)
    BY <1>0, <1>1
  <2>2. ~Pending(e)
    BY <1>1, <1>4, <2>1 DEF EngineOK
  <2>3. f \in {"in_msgs", "close_engine"} => k = LoopOf(e)
    BY <2>1 DEF GraphTasksOK
  <2>4. f \notin {"in_msgs", "close_engine"}
    BY <1>1, <2>1, <2>2, <2>3 DEF EngineOK, Pending
  <2> QED
    BY <1>1, <2>1, <2>4 DEF GraphTasksOK, GraphTasks
<1>6. \A l \in Loops : In(queue, l, TaskFor("close_app", App)) => In(queue, l, TaskFor("close_app", App))
  OBVIOUS
<1>7. /\ conn' = m
      /\ engine' \in [Engines -> EngineType]
      /\ \A d \in Engines \ {e} : engine'[d] = engine[d]
      /\ LET h == engine'[e] IN
         /\ h.closing = engine[e].closing /\ h.ctx = engine[e].ctx /\ h.inMsgs = engine[e].inMsgs
         /\ h.waits = engine[e].waits /\ h.stops = engine[e].stops
         /\ \/ h.st = "up"
            \/ h.st \in {"stopping", "gone"} /\ engine[e].ctx = "none" /\ RemotesOf(e, m) = {}
         /\ h.st = "stopping" => mode.own
      /\ app' \in AppType /\ AppOK'
      /\ queue' \in Queues /\ Ordered(queue')
      /\ \A k \in Loops : \A u : u # TaskFor("close_app", App) => (In(queue', k, u) <=> In(queue, k, u))
      /\ \A k \in Loops : \A u, s :
           AllBehind(queue, k, u, s) /\ u # TaskFor("close_app", App) => AllBehind(queue', k, u, s)
      /\ \A k \in Loops : In(queue', k, TaskFor("close_app", App)) =>
           k = App /\ ToClose(app')
      /\ app'.state # "running" => app.state # "running" \/ \A x \in Connections : ~OnItsWay(x)
  BY <1>0, <1>1, <1>3, <1>6, ProceedsFacts
<1>8. \A x \in Connections : conn[x].to = e => conn[x].at # "engine"
  BY <1>1, NobodyComes DEF Doomed
<1>9. \A f \in MoveTasks \cup GraphTasks : \A x : TaskFor(f, x) # TaskFor("close_app", App)
  BY SameTask DEF MoveTasks, GraphTasks
<1>10. TasksKept(queue, queue', K, {e})
  <2>1. \A x \in Connections \ K : conn[x].to \in {e} => conn[x].at # "engine"
    BY <1>8
  <2>2. "cleaned" \in MoveTasks
    BY DEF MoveTasks
  <2>3. \A d \in Engines \ {e} : \A x \in Connections :
          AllBehind(queue, d, TaskFor("cleaned", x), TaskFor("in_msgs", d)) =>
          AllBehind(queue', d, TaskFor("cleaned", x), TaskFor("in_msgs", d))
    BY <1>7, <1>9, <2>2 DEF Loops
  <2>4. \A k \in Loops : \A u :
          (\A f \in GraphTasks : \A d \in {e} : u # TaskFor(f, d)) /\ u # TaskFor("close_app", App) =>
          (In(queue', k, u) <=> In(queue, k, u))
    BY <1>7
  <2>5. K \in SUBSET Connections /\ {e} \in SUBSET Engines
    BY <1>1
  <2> HIDE DEF K
  <2> QED
    BY <2>1, <2>3, <2>4, <2>5, GraphTasksOnly
<1>11. /\ \A k \in Loops : \A f \in GraphTasks : ~In(queue', k, TaskFor(f, e))
       /\ \A k \in Loops : \A f \in MoveTasks : In(queue', k, TaskFor(f, c)) => In(queue, k, TaskFor(f, c))
  BY <1>5, <1>7, <1>9
<1>12. \A k \in Loops : /\ GraphTasksOK(k, e)'
                        /\ ~In(queue', k, TaskFor("in_msgs", e))
                        /\ ~In(queue', k, TaskFor("close_engine", e))
  BY <1>11 DEF GraphTasksOK, GraphTasks
<1>13. /\ conn' \in [Connections -> ConnectionType]
       /\ conn'[c].at = "gone" /\ conn'[c].to = conn[c].to /\ conn'[c].hop = conn[c].hop
       /\ ConnectionOK(c)' /\ \A l \in Loops : MoveTasksOK(l, c)'
  <2>1. conn[c].at \in Attached
    BY <1>1 DEF Attached
  <2> QED
    BY <1>1, <1>11, <2>1, GoneOK DEF m
<1>14. /\ conn' \in [Connections -> ConnectionType] /\ K \in SUBSET Connections
       /\ \A x \in Connections \ K : conn'[x] = conn[x]
       /\ \A x \in K :
             /\ conn[x].at = "remote" /\ conn[x].to = e
             /\ conn'[x].at \in {"remote", "gone"} /\ conn'[x].to = e /\ conn'[x].hop = conn[x].hop
             /\ ConnectionOK(x)' /\ \A k \in Loops : MoveTasksOK(k, x)'
  BY <1>1, <1>2, <1>7, <1>13
<1>15. /\ engine'[e].closing /\ engine'[e].inMsgs = engine[e].inMsgs
       /\ engine'[e].waits = engine[e].waits /\ engine'[e].stops = engine[e].stops
       /\ \/ engine'[e].st = "up"
          \/ /\ engine'[e].st \in {"stopping", "stopped", "gone"} /\ engine'[e].ctx \notin {"closing", "ended"}
             /\ RemotesOf(e, conn') = {}
       /\ engine'[e].st \in {"stopping", "stopped"} => mode.own
  BY <1>1, <1>7
<1>16. DrainsOn /\ draining' \in [Loops -> BOOLEAN]
  BY <1>0, <1>1 DEF DrainsOn
<1> HIDE DEF K
<1> QED
  BY <1>1, <1>7, <1>10, <1>12, <1>14, <1>15, <1>16, StepOfClosing

\* A remote is gone and takes its engine with it (ten_engine_close_async).
LEMMA RemoteClosesEngine ==
    ASSUME IInv, NEW c \in Connections, RemoteClosed(c), NEW e \in Engines, conn[c].to = e,
           ~engine[e].closing, ~mode.engLong
    PROVE  IInv'
<1> DEFINE K == {c}
           G == {e}
           t == TaskFor("close_engine", e)
<1>0. /\ TypeOK /\ AppOK /\ Calm /\ queue \in Queues /\ Ordered(queue) /\ mode \in Modes /\ app \in AppType
      /\ engine \in [Engines -> EngineType] /\ conn \in [Connections -> ConnectionType]
      /\ draining \in [Loops -> BOOLEAN]
      /\ EngineOK(e) /\ \A k \in Loops : GraphTasksOK(k, e)
      /\ LoopOf(e) \in Loops
  <2>1. LoopOf(e) \in Loops
    BY DEF LoopOf, Loops
  <2>2. \A k \in Loops : GraphTasksOK(k, e)
    BY DEF IInv, TasksOK
  <2> QED
    BY <2>1, <2>2, TypeParts DEF IInv
<1>1. /\ conn[c].at = "remote" /\ conn[c].stream = "closing" /\ conn[c].hop = "done" /\ conn[c].pshut
      /\ engine[e].st = "up"
      /\ ~draining[AttachedLoop(c)] /\ UNCHANGED <<mode, draining>>
      /\ conn' = [conn EXCEPT ![c].at = "gone", ![c].stream = "closed", ![c].shut = TRUE]
      /\ engine' = CloseAsync(engine, G) /\ queue' = ClosePosted(queue, G) /\ app' = app
  BY RemoteClosedFacts
<1>2. Doomed(e)
  BY <1>1 DEF Doomed
<1>3. /\ \A x \in Connections : conn[x].to = e =>
           ~OnItsWay(x) /\ conn[x].at # "engine" /\ conn[x].hop \notin Way /\ ~OnTheWay(x, e)
      /\ engine[e].waits = None
      /\ \A i \in 1 .. Len(engine[e].inMsgs) : engine[e].inMsgs[i].from = None
  BY <1>2, NobodyComes
<1>4. engine[e].ctx = "up"
  <2>1. c \in RemotesOf(e, conn)
    BY <1>1 DEF RemotesOf
  <2>2. ~ \E x \in Connections : OnTheWay(x, e)
    BY <1>3 DEF OnTheWay
  <2> QED
    BY <1>0, <1>1, <2>1, <2>2 DEF EngineOK
<1>5. /\ engine' \in [Engines -> EngineType] /\ \A d \in Engines \ G : engine'[d] = engine[d]
      /\ engine'[e].closing /\ engine'[e].ctx = "up" /\ engine'[e].st = "up"
      /\ engine'[e].inMsgs = engine[e].inMsgs /\ engine'[e].waits = None
      /\ engine'[e].stops = engine[e].stops
  <2> DEFINE h == [engine[e] EXCEPT !.closing = TRUE]
  <2>1. engine' = [d \in Engines |-> IF d = e THEN h ELSE engine[d]]
    BY <1>1 DEF CloseAsync
  <2>2. /\ h \in EngineType /\ h.closing
        /\ h.ctx = engine[e].ctx /\ h.st = engine[e].st /\ h.inMsgs = engine[e].inMsgs
        /\ h.waits = engine[e].waits /\ h.stops = engine[e].stops
    BY <1>0, SetClosing
  <2> HIDE DEF h
  <2> QED
    BY <1>0, <1>1, <1>3, <1>4, <2>1, <2>2
<1>6. Asked(G) = G /\ G \in SUBSET Engines /\ K \in SUBSET Connections
  BY DEF Asked
<1>7. Accepts(LoopOf(e)) /\ ~In(queue, LoopOf(e), t)
  <2>1. Accepts(LoopOf(e))
    BY <1>1, EngineAccepts
  <2> QED
    BY <1>0, <2>1 DEF GraphTasksOK
<1> HIDE DEF G
<1>8. \A d \in Asked(G) : Accepts(LoopOf(d)) /\ ~In(queue, LoopOf(d), TaskFor("close_engine", d))
  BY <1>6, <1>7 DEF G
<1>9. Ordered(queue')
  BY <1>0, <1>1, <1>6, <1>8, OrderCloses
<1>10. /\ queue' \in Queues
       /\ \A k \in Loops : \A u : In(queue', k, u) <=> In(queue, k, u) \/ (k = LoopOf(e) /\ u = t)
       /\ \A k \in Loops : \A u, s :
            AllBehind(queue, k, u, s) /\ u.run # "close_engine" => AllBehind(queue', k, u, s)
  <2>1. /\ queue' \in Queues
        /\ \A k \in Loops : \A u :
             In(queue', k, u) <=>
                 \/ In(queue, k, u)
                 \/ \E d \in Asked(G) : k = LoopOf(d) /\ u = TaskFor("close_engine", d)
        /\ \A k \in Loops : \A u, s :
             AllBehind(queue, k, u, s) /\ u.run # "close_engine" => AllBehind(queue', k, u, s)
    BY <1>0, <1>1, <1>6, <1>8, PostsCloses
  <2>2. \A k \in Loops : \A u :
          (\E d \in Asked(G) : k = LoopOf(d) /\ u = TaskFor("close_engine", d)) <=> k = LoopOf(e) /\ u = t
    BY <1>6 DEF G
  <2> QED
    BY <2>1, <2>2
<1>11. TasksKept(queue, queue', K, G)
  <2>1. \A x \in Connections \ K : conn[x].to \in G => conn[x].at # "engine"
    BY <1>3 DEF G
  <2>2. \A d \in Engines \ G : \A x \in Connections :
          AllBehind(queue, d, TaskFor("cleaned", x), TaskFor("in_msgs", d)) =>
          AllBehind(queue', d, TaskFor("cleaned", x), TaskFor("in_msgs", d))
    <3>1. \A x : TaskFor("cleaned", x).run # "close_engine"
      BY DEF TaskFor
    <3> QED
      BY <1>10, <3>1 DEF Loops
  <2>3. \A k \in Loops : \A u :
          (\A f \in GraphTasks : \A d \in G : u # TaskFor(f, d)) /\ u # TaskFor("close_app", App) =>
          (In(queue', k, u) <=> In(queue, k, u))
    BY <1>10 DEF G, GraphTasks
  <2> HIDE DEF K
  <2> QED
    BY <1>6, <2>1, <2>2, <2>3, GraphTasksOnly
<1>12. /\ \A k \in Loops : \A f \in MoveTasks : \A x : In(queue', k, TaskFor(f, x)) => In(queue, k, TaskFor(f, x))
       /\ \A k \in Loops : \A f \in GraphTasks : f # "close_engine" =>
            (In(queue', k, TaskFor(f, e)) => In(queue, k, TaskFor(f, e)))
       /\ \A k \in Loops : In(queue', k, TaskFor("close_app", App)) => In(queue, k, TaskFor("close_app", App))
       /\ \A k \in Loops : In(queue', k, t) => k = LoopOf(e)
       /\ In(queue', LoopOf(e), t)
  <2>1. /\ \A f \in MoveTasks : \A x : TaskFor(f, x) # t
        /\ \A f \in GraphTasks : f # "close_engine" => TaskFor(f, e) # t
        /\ TaskFor("close_app", App) # t
    BY SameTask DEF MoveTasks
  <2>2. \A k \in Loops : In(queue, k, t) => k = LoopOf(e)
    BY <1>0 DEF GraphTasksOK
  <2> HIDE DEF t
  <2> QED
    BY <1>0, <1>10, <2>1, <2>2
<1>13. /\ conn' \in [Connections -> ConnectionType]
       /\ \A x \in Connections : x # c => conn'[x] = conn[x]
       /\ conn'[c].at = "gone" /\ conn'[c].to = conn[c].to /\ conn'[c].hop = conn[c].hop
       /\ ConnectionOK(c)' /\ \A l \in Loops : MoveTasksOK(l, c)'
  <2>1. conn[c].at \in Attached
    BY <1>1 DEF Attached
  <2> QED
    BY <1>1, <1>12, <2>1, GoneOK
<1>14. \A k \in Loops : GraphTasksOK(k, e)'
  <2> SUFFICES ASSUME NEW k \in Loops PROVE GraphTasksOK(k, e)'
    OBVIOUS
  <2>1. LoopOf(e)' = LoopOf(e)
    BY <1>1 DEF LoopOf
  <2>2. GraphTasksOK(k, e)
    BY <1>0
  <2>3. In(queue', k, TaskFor("in_msgs", e)) => k = LoopOf(e)
    BY <1>12, <2>2 DEF GraphTasksOK, GraphTasks
  <2>4. ~In(queue', k, TaskFor("context_closed", e)) /\ ~In(queue', k, TaskFor("engine_closed", e))
    BY <1>1, <1>4, <1>12, <2>2 DEF GraphTasksOK, GraphTasks
  <2> QED
    BY <1>5, <1>12, <2>1, <2>3, <2>4 DEF GraphTasksOK
<1>15. EngineOK(e)'
  <2>1. LoopOf(e)' = LoopOf(e)
    BY <1>1 DEF LoopOf
  <2>2. Pending(e)'
    BY <1>12, <2>1 DEF Pending
  <2>3. \A i \in 1 .. Len(engine'[e].inMsgs) :
          /\ engine'[e].inMsgs[i].from = None
          /\ engine'[e].inMsgs[i].kind = "stop" => engine'[e].stops = 1
    BY <1>0, <1>3, <1>5 DEF EngineOK
  <2> QED
    BY <1>5, <2>2, <2>3 DEF EngineOK
<1>16. app' \in AppType /\ AppOK'
  <2>1. Listed(engine') = Listed(engine)
    <3>1. \A d \in Engines : engine'[d].st = engine[d].st
      BY <1>1, <1>5 DEF G
    <3> QED
      BY <3>1 DEF Listed
  <2>2. Orphans(conn') = Orphans(conn)
    BY <1>1, <1>13 DEF Orphans
  <2>3. \A d \in Engines : engine'[d].st = "gone" => engine[d].st = "gone"
    BY <1>1, <1>5 DEF G
  <2> QED
    BY <1>0, <1>1, <2>1, <2>2, <2>3 DEF AppOK
<1>17. Calm'
  <2>1. \A x \in Connections : OnItsWay(x)' => OnItsWay(x) /\ conn'[x] = conn[x]
    <3>1. ~OnItsWay(c)'
      BY <1>1, <1>13 DEF OnItsWay
    <3> QED
      BY <1>13, <3>1 DEF OnItsWay
  <2>2. \A d \in Engines : Doomed(d)' => Doomed(d)
    <3> SUFFICES ASSUME NEW d \in Engines, Doomed(d)', d # e PROVE Doomed(d)
      BY <1>2
    <3>1. engine'[d] = engine[d]
      BY <1>5 DEF G
    <3> QED
      BY <1>1, <1>13, <3>1 DEF Doomed
  <2>3. \A d \in Engines : engine'[d].st = engine[d].st
    BY <1>1, <1>5 DEF G
  <2> QED
    BY <1>0, <1>1, <2>1, <2>2, <2>3 DEF Calm
<1>18. \A x \in Connections \ K : conn[x].to \in G => StillServed(x)
  <2> SUFFICES ASSUME NEW x \in Connections \ K, conn[x].to \in G PROVE StillServed(x)
    OBVIOUS
  <2> QED
    BY <1>3, <1>5 DEF StillServed, Way, G
<1>19. \A x \in K : \A d \in Engines \ G : StillAwaited(x, d)
  BY <1>1, <1>13 DEF StillAwaited, OnTheWay, G
<1>20. /\ draining' \in [Loops -> BOOLEAN] /\ DrainsOn /\ mode' = mode
       /\ \A l \in Loops : In(queue', l, TaskFor("close_app", App)) =>
            l = App /\ ToClose(app')
  BY <1>0, <1>1, <1>12 DEF DrainsOn, IInv, TasksOK
<1>21. \A x \in K : ConnectionOK(x)' /\ \A l \in Loops : MoveTasksOK(l, x)'
  BY <1>13
<1>22. \A d \in G : EngineOK(d)' /\ \A l \in Loops : GraphTasksOK(l, d)'
  BY <1>14, <1>15 DEF G
<1>23. \A x \in Connections \ K : conn'[x] = conn[x]
  BY <1>13
<1> HIDE DEF K
<1> QED
  BY <1>5, <1>6, <1>9, <1>10, <1>11, <1>13, <1>16, <1>17, <1>18, <1>19, <1>20, <1>21, <1>22, <1>23, StepOf

LEMMA RemoteClosedStep ==
    ASSUME IInv, NEW c \in Connections, RemoteClosed(c)
    PROVE  IInv'
<1>0. /\ TypeOK /\ queue \in Queues /\ Ordered(queue) /\ mode \in Modes
      /\ engine \in [Engines -> EngineType]
  BY TypeParts, SMTT(30) DEF IInv
<1> PICK e \in Engines : conn[c].to = e
  BY RemoteClosedFacts
<1>1. CASE engine[e].closing
  <2>1. EngineProceeds(e, [conn EXCEPT ![c].at = "gone", ![c].stream = "closed", ![c].shut = TRUE], engine, queue)
    BY <1>1, RemoteClosedFacts
  <2>2. CASE engine[e].ctx = "none"
    BY <1>1, <2>2, LastRemoteClosed
  <2>3. CASE engine[e].ctx # "none"
    <3>1. engine' = engine /\ queue' = queue /\ app' = app
      BY <2>1, <2>3 DEF EngineProceeds
    <3> QED
      BY <1>0, <3>1, RemoteOnly
  <2> QED
    BY <2>2, <2>3, SMTT(30)
<1>2. CASE ~engine[e].closing /\ mode.engLong
  <2> DEFINE set == {}
  <2>1. engine' = CloseAsync(engine, set) /\ queue' = ClosePosted(queue, set) /\ app' = app
    BY <1>2, RemoteClosedFacts
  <2>2. engine' = engine
    BY <1>0, <2>1 DEF CloseAsync
  <2>3. set \in SUBSET Engines /\ \A d : d \notin Asked(set)
    BY DEF Asked
  <2> HIDE DEF set
  <2>4. Ordered(queue')
    BY <1>0, <2>1, <2>3, OrderCloses
  <2>5. /\ queue' \in Queues
        /\ \A k \in Loops : \A u :
             In(queue', k, u) <=>
                 \/ In(queue, k, u)
                 \/ \E d \in Asked(set) : k = LoopOf(d) /\ u = TaskFor("close_engine", d)
        /\ \A k \in Loops : \A u, s :
             AllBehind(queue, k, u, s) /\ u.run # "close_engine" => AllBehind(queue', k, u, s)
    BY <1>0, <2>1, <2>3, PostsCloses
  <2> QED
    BY <2>1, <2>2, <2>3, <2>4, <2>5, RemoteOnly, SMTT(30)
<1>3. CASE ~engine[e].closing /\ ~mode.engLong
  BY <1>3, RemoteClosesEngine
<1> QED
  BY <1>1, <1>2, <1>3

\* ten_app_close_task has run: what was taken and what was posted.
LEMMA CloseAppTaskFacts ==
    ASSUME IInv, CloseAppTask, ~AppCouldClose(app, conn, engine)
    PROVE  LET L == Listed(engine) IN
           /\ app.state = "closing" /\ app.endpoint \in {"none", "open"}
           /\ app.deinits = 0 /\ app.loop = "up"
           /\ \A x \in Connections :
                /\ ~OnItsWay(x) /\ conn[x].at \notin {"engine", "moving"} /\ conn[x].hop \notin Way
                /\ \A e \in Engines : ~OnTheWay(x, e)
           /\ mode' = mode /\ app' = [app EXCEPT !.endpoint = IF @ = "open" THEN "closing" ELSE @]
           /\ engine' = CloseAsync(engine, L) /\ conn' = Shut(conn, Orphans(conn))
           /\ queue' \in Queues /\ Ordered(queue')
           /\ \A k \in Loops : ~In(queue', k, TaskFor("close_app", App))
           /\ \A k \in Loops : \A u : u # TaskFor("close_app", App) =>
                (In(queue', k, u) <=>
                   \/ In(queue, k, u)
                   \/ \E d \in Asked(L) : k = LoopOf(d) /\ u = TaskFor("close_engine", d))
           /\ \A k \in Loops : \A u, s :
                AllBehind(queue, k, u, s) /\ u.run # "close_engine" /\ s # TaskFor("close_app", App) =>
                AllBehind(queue', k, u, s)
           /\ draining' \in [Loops -> BOOLEAN] /\ DrainsOn
           /\ \A u : In(queue', App, u) => draining'[App]
<1> DEFINE L == Listed(engine)
           q == Taken(App)
           h == TaskFor("close_app", App)
<1>0. /\ TypeOK /\ AppOK /\ Calm /\ queue \in Queues /\ Ordered(queue) /\ mode \in Modes /\ app \in AppType
      /\ App \in Loops /\ \A k \in Loops : In(queue, k, h) =>
                            k = App /\ ToClose(app)
  BY TypeParts DEF IInv, TasksOK, Loops
<1>1. Task("close_app", App, App) /\ mode' = mode /\ Drained(App)
  BY DEF CloseAppTask
<1>2. /\ q \in Queues /\ In(queue, App, h)
      /\ \A k \in Loops : \A u :
           /\ In(q, k, u) => In(queue, k, u)
           /\ In(queue, k, u) /\ u # h => In(q, k, u)
      /\ \A k \in Loops : \A u, s : AllBehind(queue, k, u, s) /\ s # h => AllBehind(q, k, u, s)
  BY <1>0, <1>1, Takes
<1>3. Ordered(q) /\ ~In(q, App, h)
  BY <1>0, <1>1, OrderTaken
<1>4. /\ app.state = "closing" /\ app.endpoint \in {"none", "open"}
      /\ app.deinits = 0 /\ app.loop = "up"
  <2>1. ~(app.deinits > 0)
    <3>1. app.deinits > 0 => AppCouldClose(app, conn, engine)
      BY <1>0 DEF AppOK, AppCouldClose
    <3> QED
      BY <3>1
  <2> QED
    BY <1>0, <1>2, <2>1 DEF AppOK, AppType, ToClose
<1>5. \A x \in Connections :
        /\ ~OnItsWay(x) /\ conn[x].at \notin {"engine", "moving"} /\ conn[x].hop \notin Way
        /\ \A e \in Engines : ~OnTheWay(x, e)
  BY <1>0, <1>4 DEF Calm, OnItsWay, OnTheWay, Way
<1>6. /\ app' = [app EXCEPT !.endpoint = IF @ = "open" THEN "closing" ELSE @]
      /\ engine' = CloseAsync(engine, L) /\ conn' = Shut(conn, Orphans(conn))
      /\ queue' = ClosePosted(q, L)
  BY <1>4 DEF CloseAppTask, AppCouldClose
<1>7. L \in SUBSET Engines /\ Asked(L) \in SUBSET Engines
  BY DEF Listed, Asked
<1>8. ASSUME NEW d \in Asked(L)
      PROVE  Accepts(LoopOf(d)) /\ ~In(q, LoopOf(d), TaskFor("close_engine", d))
  <2>1. d \in Engines /\ ~engine[d].closing /\ engine[d].st \in {"up", "stopping", "stopped"}
    BY DEF Asked, Listed
  <2>2. EngineOK(d) /\ LoopOf(d) \in Loops /\ \A k \in Loops : GraphTasksOK(k, d)
    BY <2>1 DEF IInv, TasksOK, LoopOf, Loops
  <2>3. engine[d].st = "up"
    BY <2>1, <2>2 DEF EngineOK
  <2> HIDE DEF q
  <2>4. Accepts(LoopOf(d))
    BY <2>1, <2>3, EngineAccepts
  <2>5. ~In(queue, LoopOf(d), TaskFor("close_engine", d))
    BY <2>1, <2>2 DEF GraphTasksOK
  <2> QED
    BY <1>2, <2>2, <2>4, <2>5
<1> HIDE DEF q, L
<1>9. Ordered(queue')
  BY <1>0, <1>2, <1>3, <1>6, <1>7, <1>8, OrderCloses
<1>10. /\ queue' \in Queues
       /\ \A k \in Loops : \A u :
            In(queue', k, u) <=>
                \/ In(q, k, u)
                \/ \E d \in Asked(L) : k = LoopOf(d) /\ u = TaskFor("close_engine", d)
       /\ \A k \in Loops : \A u, s :
            AllBehind(q, k, u, s) /\ u.run # "close_engine" => AllBehind(queue', k, u, s)
  BY <1>0, <1>2, <1>6, <1>7, <1>8, PostsCloses
<1>11. \A d : TaskFor("close_engine", d) # h
  BY SameTask
<1> HIDE DEF h
<1>12. /\ \A k \in Loops : ~In(queue', k, h)
       /\ \A k \in Loops : \A u : u # h =>
            (In(queue', k, u) <=>
               \/ In(queue, k, u)
               \/ \E d \in Asked(L) : k = LoopOf(d) /\ u = TaskFor("close_engine", d))
       /\ \A k \in Loops : \A u, s :
            AllBehind(queue, k, u, s) /\ u.run # "close_engine" /\ s # h => AllBehind(queue', k, u, s)
  <2>1. \A k \in Loops : ~In(queue', k, h)
    BY <1>0, <1>2, <1>3, <1>10, <1>11
  <2>2. \A k \in Loops : \A u : u # h => (In(q, k, u) <=> In(queue, k, u))
    BY <1>2
  <2>3. \A k \in Loops : \A u : u # h =>
            (In(queue', k, u) <=>
               \/ In(queue, k, u)
               \/ \E d \in Asked(L) : k = LoopOf(d) /\ u = TaskFor("close_engine", d))
    BY <1>10, <2>2
  <2>4. \A k \in Loops : \A u, s :
            AllBehind(queue, k, u, s) /\ u.run # "close_engine" /\ s # h => AllBehind(queue', k, u, s)
    BY <1>2, <1>10
  <2> QED
    BY <2>1, <2>3, <2>4
<1>13. /\ draining' \in [Loops -> BOOLEAN] /\ DrainsOn
       /\ \A u : In(queue', App, u) => draining'[App]
  BY <1>0, <1>1, <1>10, DrainsNext
<1> QED
  BY <1>1, <1>4, <1>5, <1>6, <1>9, <1>10, <1>12, <1>13 DEF L, h

\* There was nothing to close, in an app without an endpoint.
LEMMA NothingToClose ==
    ASSUME IInv, CloseAppTask, AppCouldClose(app, conn, engine)
    PROVE  IInv'
<1> DEFINE q == Taken(App)
           h == TaskFor("close_app", App)
<1>0. /\ TypeOK /\ AppOK /\ Calm /\ queue \in Queues /\ Ordered(queue) /\ app \in AppType
      /\ App \in Loops /\ \A k \in Loops : In(queue, k, h) => k = App /\ ToClose(app)
  BY TypeParts DEF IInv, TasksOK, Loops
<1>1. /\ Task("close_app", App, App) /\ Drained(App) /\ queue' = q
      /\ UNCHANGED <<mode, engine, conn>> /\ app' = Proceeds(app, conn, engine)
  BY DEF CloseAppTask
<1>2. /\ q \in Queues /\ In(queue, App, h)
      /\ \A k \in Loops : \A u :
           /\ In(q, k, u) => In(queue, k, u)
           /\ In(queue, k, u) /\ u # h => In(q, k, u)
      /\ \A k \in Loops : \A u, s : AllBehind(queue, k, u, s) /\ s # h => AllBehind(q, k, u, s)
  BY <1>0, <1>1, Takes
<1>3. Ordered(q) /\ ~In(q, App, h)
  BY <1>0, <1>1, OrderTaken
<1> HIDE DEF q, h
<1>4. /\ app.endpoint = "none" /\ app.state # "running"
      /\ Orphans(conn) = {} /\ Listed(engine) = {}
  BY <1>0, <1>2 DEF AppCouldClose, ToClose
<1>5. /\ app' \in AppType /\ app'.state = app.state /\ app'.endpoint = "none" /\ app'.loop = app.loop
      /\ app'.deinits >= app.deinits
  <2>1. app.deinits \in Nat
    BY <1>0 DEF AppType
  <2> QED
    BY <1>0, <1>1, <1>4, <2>1, ProceedsOK
<1>6. AppOK'
  <2>1. app.deinits \in Nat /\ app'.deinits \in Nat
    BY <1>0, <1>5 DEF AppType
  <2> QED
    BY <1>0, <1>1, <1>4, <1>5, <2>1 DEF AppOK, Orphans, Listed
<1>7. Calm'
  BY <1>0, <1>1, <1>5 DEF Calm, OnItsWay, Doomed
<1>8. draining' \in [Loops -> BOOLEAN] /\ DrainsOn
  BY <1>0, <1>1, <1>2, DrainsNext
<1>9. \A f \in MoveTasks \cup GraphTasks : \A x : TaskFor(f, x) # h
  BY SameTask DEF MoveTasks, GraphTasks, h
<1>10. TasksKept(queue, queue', {}, {})
  BY <1>1, <1>2, <1>9 DEF TasksKept, MoveTasks, GraphTasks, Loops
<1>11. /\ engine' \in [Engines -> EngineType] /\ conn' \in [Connections -> ConnectionType]
  BY <1>1, TypeParts DEF IInv
<1>12. \A k \in Loops : ~In(queue', k, TaskFor("close_app", App))
  BY <1>0, <1>1, <1>2, <1>3 DEF h
<1> QED
  BY <1>1, <1>2, <1>3, <1>5, <1>6, <1>7, <1>8, <1>10, <1>11, <1>12, StepOf

LEMMA ClosesAllStep ==
    ASSUME IInv, CloseAppTask, ~AppCouldClose(app, conn, engine)
    PROVE  IInv'
<1> DEFINE L == Listed(engine)
           O == Orphans(conn)
           h == TaskFor("close_app", App)
<1>0. /\ TypeOK /\ AppOK /\ queue \in Queues /\ Ordered(queue) /\ app \in AppType
      /\ engine \in [Engines -> EngineType] /\ conn \in [Connections -> ConnectionType]
      /\ \A e \in Engines : EngineOK(e) /\ LoopOf(e) \in Loops
      /\ \A k \in Loops : /\ \A e \in Engines : GraphTasksOK(k, e)
                          /\ \A x \in Connections : MoveTasksOK(k, x)
      /\ \A x \in Connections : ConnectionOK(x)
      /\ App \in Loops
  BY TypeParts DEF IInv, TasksOK, LoopOf, Loops
<1>1. /\ app.state = "closing" /\ app.endpoint \in {"none", "open"}
      /\ app.deinits = 0 /\ app.loop = "up"
      /\ \A x \in Connections :
           /\ ~OnItsWay(x) /\ conn[x].at \notin {"engine", "moving"} /\ conn[x].hop \notin Way
           /\ \A e \in Engines : ~OnTheWay(x, e)
      /\ mode' = mode /\ app' = [app EXCEPT !.endpoint = IF @ = "open" THEN "closing" ELSE @]
      /\ engine' = CloseAsync(engine, L) /\ conn' = Shut(conn, O)
  BY CloseAppTaskFacts
<1>2. /\ queue' \in Queues /\ Ordered(queue')
      /\ \A k \in Loops : ~In(queue', k, h)
      /\ \A k \in Loops : \A u : u # h =>
           (In(queue', k, u) <=>
              \/ In(queue, k, u)
              \/ \E d \in Asked(L) : k = LoopOf(d) /\ u = TaskFor("close_engine", d))
      /\ \A k \in Loops : \A u, s :
           AllBehind(queue, k, u, s) /\ u.run # "close_engine" /\ s # h => AllBehind(queue', k, u, s)
      /\ draining' \in [Loops -> BOOLEAN] /\ DrainsOn
      /\ \A u : In(queue', App, u) => draining'[App]
  BY CloseAppTaskFacts
<1>3. /\ L \in SUBSET Engines /\ O \in SUBSET Connections
      /\ \A e \in Engines : e \in L <=> engine[e].st \in {"up", "stopping", "stopped"}
      /\ \A e \in Engines : e \in Asked(L) <=> e \in L /\ ~engine[e].closing
      /\ \A x \in Connections : x \in O <=> conn[x].at = "app"
  BY DEF Listed, Asked, Orphans
<1> HIDE DEF L, O
<1>4. /\ app' \in AppType /\ app'.state = "closing"
      /\ app'.endpoint = IF app.endpoint = "open" THEN "closing" ELSE "none"
      /\ app'.deinits = 0 /\ app'.loop = "up"
  BY <1>0, <1>1 DEF AppType
<1>5. AppOK'
  BY <1>0, <1>1, <1>4 DEF AppOK
<1>6. /\ engine' \in [Engines -> EngineType] /\ \A d \in Engines \ L : engine'[d] = engine[d]
      /\ \A d \in Engines :
           /\ engine'[d].ctx = engine[d].ctx /\ engine'[d].st = engine[d].st
           /\ engine'[d].inMsgs = engine[d].inMsgs /\ engine'[d].waits = engine[d].waits
           /\ engine'[d].stops = engine[d].stops
      /\ \A d \in L : engine'[d].closing
  <2>1. engine' = [d \in Engines |-> IF d \in L THEN [engine[d] EXCEPT !.closing = TRUE] ELSE engine[d]]
    BY <1>1 DEF CloseAsync
  <2>2. \A d \in Engines :
          LET s == [engine[d] EXCEPT !.closing = TRUE] IN
          /\ s \in EngineType /\ s.closing
          /\ s.ctx = engine[d].ctx /\ s.st = engine[d].st /\ s.inMsgs = engine[d].inMsgs
          /\ s.waits = engine[d].waits /\ s.stops = engine[d].stops
    BY <1>0, SetClosing
  <2> QED
    BY <1>0, <1>3, <2>1, <2>2
<1>7. /\ conn' \in [Connections -> ConnectionType]
      /\ \A x \in Connections \ O : conn'[x] = conn[x]
      /\ \A x \in O :
           LET r == conn[x]
               s == conn'[x] IN
           /\ s \in ConnectionType
           /\ s.at = r.at /\ s.to = r.to /\ s.hop = r.hop /\ s.first = r.first /\ s.rest = r.rest
           /\ s.eof = r.eof
           /\ s.stream = r.stream \/ (r.stream = "open" /\ s.stream = "closing" /\ s.pshut)
           /\ r.pshut => s.pshut
           /\ s.pshut => r.pshut \/ r.stream # "open" \/ s.stream = "closing"
  <2>1. conn' = [x \in Connections |-> IF x \in O THEN ShutConnection(conn[x]) ELSE conn[x]]
    BY <1>1 DEF Shut
  <2>2. ASSUME NEW x \in Connections
        PROVE  LET r == conn[x]
                   s == ShutConnection(conn[x]) IN
               /\ s \in ConnectionType
               /\ s.at = r.at /\ s.to = r.to /\ s.hop = r.hop /\ s.first = r.first /\ s.rest = r.rest
               /\ s.eof = r.eof
               /\ s.stream = r.stream \/ (r.stream = "open" /\ s.stream = "closing" /\ s.pshut)
               /\ r.pshut => s.pshut
               /\ s.pshut => r.pshut \/ r.stream # "open" \/ s.stream = "closing"
    <3>1. conn[x] \in ConnectionType /\ ShutConnection(conn[x]) \in {ShutProtocol(conn[x]), ShutConnection(conn[x])}
      BY <1>0
    <3> QED
      BY <3>1, ShutEffect
  <2> QED
    BY <1>0, <1>3, <2>1, <2>2
<1>8. \A f \in MoveTasks \cup GraphTasks : \A x : TaskFor(f, x) # h
  BY SameTask DEF MoveTasks, GraphTasks
<1>9. /\ \A k \in Loops : \A f \in MoveTasks : \A x : In(queue', k, TaskFor(f, x)) => In(queue, k, TaskFor(f, x))
      /\ \A k \in Loops : \A f \in GraphTasks : f # "close_engine" =>
           \A e : In(queue', k, TaskFor(f, e)) => In(queue, k, TaskFor(f, e))
      /\ \A k \in Loops : \A e :
           In(queue', k, TaskFor("close_engine", e)) =>
             In(queue, k, TaskFor("close_engine", e)) \/ (e \in Asked(L) /\ k = LoopOf(e))
      /\ \A k \in Loops : \A e : In(queue, k, TaskFor("close_engine", e)) => In(queue', k, TaskFor("close_engine", e))
      /\ \A e \in Asked(L) : In(queue', LoopOf(e), TaskFor("close_engine", e))
  <2>1. /\ \A f \in MoveTasks : \A x, d : TaskFor(f, x) # TaskFor("close_engine", d)
        /\ \A f \in GraphTasks : f # "close_engine" => \A e, d : TaskFor(f, e) # TaskFor("close_engine", d)
        /\ \A e, d : TaskFor("close_engine", e) = TaskFor("close_engine", d) => e = d
        /\ "close_engine" \in GraphTasks
    BY SameTask DEF MoveTasks, GraphTasks
  <2>2. \A e \in Asked(L) : LoopOf(e) \in Loops
    BY <1>0, <1>3 DEF Asked
  <2> QED
    BY <1>2, <1>8, <2>1, <2>2
<1>10. TasksKept(queue, queue', O, L)
  <2>1. \A x \in Connections \ O : conn[x].to \in L => conn[x].at # "engine"
    BY <1>1
  <2>2. \A d \in Engines \ L : \A x \in Connections :
          AllBehind(queue, d, TaskFor("cleaned", x), TaskFor("in_msgs", d)) =>
          AllBehind(queue', d, TaskFor("cleaned", x), TaskFor("in_msgs", d))
    <3>1. \A x : TaskFor("cleaned", x).run # "close_engine"
      BY DEF TaskFor
    <3>2. \A d : TaskFor("in_msgs", d) # h
      BY <1>8 DEF GraphTasks
    <3> QED
      BY <1>2, <3>1, <3>2 DEF Loops
  <2>3. \A k \in Loops : \A u :
          (\A f \in GraphTasks : \A d \in L : u # TaskFor(f, d)) /\ u # TaskFor("close_app", App) =>
          (In(queue', k, u) <=> In(queue, k, u))
    <3>1. "close_engine" \in GraphTasks /\ \A d \in Asked(L) : d \in L
      BY DEF GraphTasks, Asked
    <3> QED
      BY <1>2, <3>1
  <2> QED
    BY <1>3, <2>1, <2>2, <2>3, GraphTasksOnly
<1> HIDE DEF h
<1>11. ASSUME NEW e \in L
       PROVE  EngineOK(e)' /\ \A k \in Loops : GraphTasksOK(k, e)'
  <2>1. /\ e \in Engines /\ EngineOK(e) /\ LoopOf(e)' = LoopOf(e) /\ LoopOf(e) \in Loops
        /\ engine[e].st \in {"up", "stopping", "stopped"}
    BY <1>0, <1>1, <1>3 DEF LoopOf
  <2>2. RemotesOf(e, conn') = RemotesOf(e, conn)
    <3>1. \A x \in Connections : conn'[x].at = conn[x].at /\ conn'[x].to = conn[x].to
      BY <1>3, <1>7
    <3> QED
      BY <3>1 DEF RemotesOf
  <2>3. ~engine[e].closing => /\ engine[e].st = "up" /\ engine[e].ctx \in {"none", "up"}
                              /\ engine[e].ctx = "none" => RemotesOf(e, conn) = {}
    BY <1>1, <2>1 DEF EngineOK
  <2>4. /\ engine[e].waits = None
        /\ \A i \in 1 .. Len(engine[e].inMsgs) : engine[e].inMsgs[i].from = None
    <3>1. /\ engine[e].waits \in Connections \cup {None}
          /\ \A i \in 1 .. Len(engine[e].inMsgs) : engine[e].inMsgs[i].from \in Connections \cup {None}
      BY <1>0, <2>1, MessageSenders
    <3> QED
      BY <1>1, <2>1, <3>1 DEF EngineOK, Way
  <2>5. Pending(e)' => Pending(e) \/ ~engine[e].closing
    BY <1>3, <1>9, <2>1 DEF Pending
  <2>6. Pending(e) \/ ~engine[e].closing => Pending(e)'
    BY <1>3, <1>9, <2>1 DEF Pending
  <2>7. In(queue', LoopOf(e), TaskFor("in_msgs", e)) => In(queue, LoopOf(e), TaskFor("in_msgs", e))
    BY <1>9, <2>1 DEF GraphTasks
  <2>8. EngineOK(e)'
    <3>1. /\ engine'[e].closing
          /\ engine'[e].ctx = engine[e].ctx /\ engine'[e].st = engine[e].st
          /\ engine'[e].inMsgs = engine[e].inMsgs /\ engine'[e].waits = engine[e].waits
          /\ engine'[e].stops = engine[e].stops /\ mode' = mode
      BY <1>1, <1>6, <2>1
    <3>2. engine[e].ctx = "none" /\ Pending(e)' => RemotesOf(e, conn) = {}
      BY <2>1, <2>3, <2>5 DEF EngineOK
    <3>3. In(queue', LoopOf(e), TaskFor("in_msgs", e)) => Pending(e)'
      BY <2>1, <2>6, <2>7 DEF EngineOK
    <3>4. engine[e].ctx \in {"closing", "ended"} => engine[e].st = "up"
      BY <2>1 DEF EngineOK
    <3>5. \A i \in 1 .. Len(engine[e].inMsgs) : engine[e].inMsgs[i].kind = "stop" => engine[e].stops = 1
      BY <2>1 DEF EngineOK
    <3>6. engine[e].st \in {"stopping", "stopped"} => mode.own
      BY <2>1 DEF EngineOK
    <3> QED
      BY <2>1, <2>2, <2>4, <3>1, <3>2, <3>3, <3>4, <3>5, <3>6 DEF EngineOK
  <2>9. ASSUME NEW k \in Loops PROVE GraphTasksOK(k, e)'
    <3>1. GraphTasksOK(k, e)
      BY <1>0, <2>1
    <3>2. In(queue', k, TaskFor("close_engine", e)) =>
             In(queue, k, TaskFor("close_engine", e)) \/ (~engine[e].closing /\ k = LoopOf(e))
      BY <1>3, <1>9, <2>1
    <3>3. \A f \in GraphTasks : f # "close_engine" =>
            (In(queue', k, TaskFor(f, e)) => In(queue, k, TaskFor(f, e)))
      BY <1>9
    <3>4. engine'[e].ctx = engine[e].ctx /\ engine'[e].st = engine[e].st /\ engine'[e].closing /\ mode' = mode
      BY <1>1, <1>6, <2>1
    <3> QED
      BY <2>1, <2>3, <3>1, <3>2, <3>3, <3>4 DEF GraphTasksOK, GraphTasks
  <2> QED
    BY <2>8, <2>9
<1>12. ASSUME NEW x \in O
       PROVE  ConnectionOK(x)' /\ \A k \in Loops : MoveTasksOK(k, x)'
  <2>1. x \in Connections /\ ConnectionOK(x) /\ conn[x].at = "app" /\ conn[x].hop \notin Way
    BY <1>0, <1>1, <1>3
  <2>2. /\ conn'[x].at = "app" /\ conn'[x].hop = conn[x].hop /\ conn'[x].rest = conn[x].rest
        /\ conn'[x].eof = conn[x].eof /\ mode' = mode
        /\ conn'[x].stream \in {"open", "closing"}
        /\ (conn'[x].pshut <=> conn'[x].stream = "closing")
    BY <1>1, <1>7, <2>1 DEF ConnectionOK, Attached
  <2>3. ConnectionOK(x)'
    BY <2>1, <2>2 DEF ConnectionOK, Attached, Way
  <2>4. ASSUME NEW k \in Loops PROVE MoveTasksOK(k, x)'
    <3>1. MoveTasksOK(k, x) /\ \A f \in MoveTasks : In(queue', k, TaskFor(f, x)) => In(queue, k, TaskFor(f, x))
      BY <1>0, <1>9, <2>1
    <3>2. AttachedLoop(x) = App /\ AttachedLoop(x)' = App
      BY <2>1, <2>2 DEF AttachedLoop
    <3>3. ~In(queue', k, TaskFor("accepted", x)) /\ ~In(queue', k, TaskFor("clean", x))
      BY <2>1, <3>1 DEF MoveTasksOK, MoveTasks, Way
    <3>4. In(queue', k, TaskFor("cleaned", x)) => k = App /\ draining'[k]
      BY <1>2, <3>1, <3>2 DEF MoveTasksOK, MoveTasks
    <3>5. In(queue', k, TaskFor("proto_close", x)) => conn[x].eof /\ k = App
      BY <2>1, <3>1, <3>2 DEF MoveTasksOK, MoveTasks, Attached
    <3> QED
      BY <2>2, <3>2, <3>3, <3>4, <3>5 DEF MoveTasksOK, Attached
  <2> QED
    BY <2>3, <2>4
<1>13. \A x \in Connections \ O : conn[x].to \in L => StillServed(x)
  <2> SUFFICES ASSUME NEW x \in Connections \ O, conn[x].to \in L PROVE StillServed(x)
    OBVIOUS
  <2>1. conn[x].at # "engine" /\ conn[x].hop # "waited"
    BY <1>1 DEF Way
  <2>2. conn[x].at \in {"engine", "remote"} => engine'[conn[x].to].st = "up"
    BY <1>0, <1>6 DEF ConnectionOK
  <2> QED
    BY <2>1, <2>2 DEF StillServed
<1>14. \A x \in O : \A e \in Engines \ L : StillAwaited(x, e)
  <2> SUFFICES ASSUME NEW x \in O, NEW e \in Engines \ L PROVE StillAwaited(x, e)
    OBVIOUS
  <2>1. conn'[x].at = "app" /\ ~OnTheWay(x, e) /\ conn[x].hop # "waited"
    BY <1>1, <1>3, <1>7 DEF Way
  <2> QED
    BY <2>1 DEF StillAwaited
<1>15. Calm'
  <2>1. \A x \in Connections : conn'[x].at = conn[x].at /\ conn'[x].hop = conn[x].hop
    BY <1>3, <1>7
  <2>2. \A x \in Connections : ~OnItsWay(x)'
    BY <1>1, <2>1 DEF OnItsWay
  <2> QED
    BY <2>2 DEF Calm
<1>16. \A k \in Loops : In(queue', k, TaskFor("close_app", App)) =>
            k = App /\ ToClose(app')
  BY <1>2 DEF h
<1> QED
  BY <1>1, <1>2, <1>3, <1>4, <1>5, <1>6, <1>7, <1>10, <1>11, <1>12, <1>13, <1>14, <1>15, <1>16, StepOf

-----------------------------------------------------------------------------
(* The types.  They hold whatever clients do and however the app is        *)
(* configured: no other part of IInv is needed.                            *)

\* A connection that an engine has, and one that an engine waits for, has an engine.
Typed ==
    /\ TypeOK
    /\ \A c \in Connections : conn[c].at \in {"engine", "remote"} => conn[c].to \in Engines
    /\ \A e \in Engines : engine[e].waits # None => conn[engine[e].waits].to \in Engines

LEMMA TypedStep ==
    ASSUME Typed, mode' = mode, app' \in AppType, engine' \in [Engines -> EngineType],
           conn' \in [Connections -> ConnectionType], queue' \in Queues,
           draining' \in [Loops -> BOOLEAN],
           \A c \in Connections :
             /\ conn[c].to \in Engines => conn'[c].to \in Engines
             /\ conn'[c].at \in {"engine", "remote"} =>
                  conn[c].at \in {"engine", "remote"} \/ conn'[c].to \in Engines,
           \A e \in Engines : engine'[e].waits # None =>
             engine'[e].waits = engine[e].waits \/ conn'[engine'[e].waits].to \in Engines
    PROVE  Typed'
<1>1. TypeOK'
  <2>1. mode' \in Modes
    BY DEF Typed, TypeOK
  <2> QED
    BY <2>1 DEF TypeOK, AppType, EngineType, ConnectionType, Queues
<1>2. \A c \in Connections : conn'[c].at \in {"engine", "remote"} => conn'[c].to \in Engines
  BY DEF Typed
<1>3. ASSUME NEW e \in Engines, engine'[e].waits # None
      PROVE  conn'[engine'[e].waits].to \in Engines
  <2>1. CASE engine'[e].waits = engine[e].waits
    <3>1. engine'[e].waits \in Connections
      BY <1>3 DEF EngineType
    <3>2. conn[engine[e].waits].to \in Engines
      BY <2>1, <1>3 DEF Typed
    <3> QED
      BY <2>1, <3>1, <3>2
  <2> QED
    BY <2>1, <1>3
<1> QED
  BY <1>1, <1>2, <1>3 DEF Typed

\* A connection that keeps its engine becomes r.
LEMMA OneTyped ==
    ASSUME Typed, UNCHANGED <<mode, app, engine>>, queue' \in Queues,
           draining' \in [Loops -> BOOLEAN],
           NEW c \in Connections, NEW r \in ConnectionType,
           conn' = [conn EXCEPT ![c] = r], r.to = conn[c].to \/ r.to \in Engines,
           r.at \in {"engine", "remote"} => conn[c].at \in {"engine", "remote"}
    PROVE  Typed'
<1>1. /\ app' \in AppType /\ engine' \in [Engines -> EngineType]
      /\ conn \in [Connections -> ConnectionType]
  BY TypeParts DEF Typed
<1>2. /\ conn' \in [Connections -> ConnectionType]
      /\ \A x \in Connections : conn'[x] = IF x = c THEN r ELSE conn[x]
  BY <1>1
<1> QED
  BY <1>1, <1>2, TypedStep

\* A loop that accepts no task gets none, whichever engines are asked to close.
LEMMA ClosesTyped ==
    ASSUME NEW q \in Queues, NEW set \in SUBSET Engines
    PROVE  ClosePosted(q, set) \in Queues
<1> DEFINE asked == {e \in set : ~engine[e].closing}
           T == {TaskFor("close_engine", e) : e \in asked}
<1>1. \A e \in Engines : TaskFor("close_engine", e) \in Tasks
  BY TaskKinds DEF GraphTasks
<1>2. App \in Loops /\ \A l \in Loops : q[l] \in Seq(Tasks)
  BY DEF Queues, Loops
<1>3. CASE mode.own
  <2> DEFINE p == [l \in Loops |-> IF l \in asked /\ Accepts(l)
                                   THEN Append(q[l], TaskFor("close_engine", l)) ELSE q[l]]
  <2>1. ASSUME NEW l \in Loops
        PROVE  (IF l \in asked /\ Accepts(l)
                THEN Append(q[l], TaskFor("close_engine", l)) ELSE q[l]) \in Seq(Tasks)
    <3>1. l \in asked => TaskFor("close_engine", l) \in Tasks
      BY <1>1
    <3>2. \A x \in Tasks : Append(q[l], x) \in Seq(Tasks)
      BY <1>2
    <3> QED
      BY <1>2, <3>1, <3>2
  <2>2. p \in [Loops -> Seq(Tasks)]
    BY <2>1
  <2>3. ClosePosted(q, set) = p
    BY <1>3 DEF ClosePosted
  <2> QED
    BY <2>2, <2>3 DEF Queues
<1>4. CASE ~mode.own
  <2>1. IsFiniteSet(asked)
    BY EnginesAssumption, FS_Subset
  <2>2. [e \in asked |-> TaskFor("close_engine", e)] \in Surjection(asked, T)
    BY DEF Surjection
  <2>3. IsFiniteSet(T) /\ T \subseteq Tasks
    BY <2>1, <2>2, <1>1, FS_Surjection
  <2> HIDE DEF T
  <2>4. SetToSeq(T) \in Seq(Tasks)
    <3>1. SetToSeq(T) \in Seq(T)
      BY <2>3, SetAsSeq
    <3> HIDE DEF asked
    <3> QED
      BY <3>1, <2>3
  <2>5. q[App] \o SetToSeq(T) \in Seq(Tasks)
    BY <2>4, <1>2
  <2>6. ClosePosted(q, set) =
          [q EXCEPT ![App] = IF Accepts(App) THEN q[App] \o SetToSeq(T) ELSE q[App]]
    BY <1>4 DEF ClosePosted, T
  <2> QED
    BY <1>2, <2>5, <2>6 DEF Queues
<1> QED
  BY <1>3, <1>4

\* ten_engine_close_async only marks the engines.
LEMMA CloseTyped ==
    ASSUME NEW g \in [Engines -> EngineType], NEW set
    PROVE  LET h == CloseAsync(g, set) IN
           h \in [Engines -> EngineType] /\ \A e \in Engines : h[e].waits = g[e].waits
<1>1. ASSUME NEW e \in Engines
      PROVE  LET v == IF e \in set THEN [g[e] EXCEPT !.closing = TRUE] ELSE g[e] IN
             v \in EngineType /\ v.waits = g[e].waits
  <2>1. g[e] \in EngineType
    OBVIOUS
  <2> QED
    BY <2>1, SetClosing
<1> QED
  BY <1>1 DEF CloseAsync

\* A set of connections is told to close.
LEMMA ShutTyped ==
    ASSUME NEW k \in [Connections -> ConnectionType], NEW set
    PROVE  LET s == Shut(k, set) IN
           /\ s \in [Connections -> ConnectionType]
           /\ \A c \in Connections : s[c].to = k[c].to /\ s[c].at = k[c].at
<1>1. ASSUME NEW c \in Connections
      PROVE  LET v == IF c \in set THEN ShutConnection(k[c]) ELSE k[c] IN
             v \in ConnectionType /\ v.to = k[c].to /\ v.at = k[c].at
  <2>1. k[c] \in ConnectionType
    OBVIOUS
  <2> QED
    BY <2>1, ShutEffect
<1> QED
  BY <1>1 DEF Shut

\* The app forgets an engine, or the engine goes on closing.
LEMMA EndTyped ==
    ASSUME TypeOK, NEW e \in Engines, NEW k \in [Connections -> ConnectionType],
           NEW g \in [Engines -> EngineType], NEW q \in Queues,
           AppReaps(e, k, g, q) \/ EngineProceeds(e, k, g, q)
    PROVE  /\ app' \in AppType /\ conn' = k /\ queue' \in Queues
           /\ engine' \in [Engines -> EngineType]
           /\ \A d \in Engines : engine'[d].waits = g[d].waits
<1>0. app \in AppType /\ App \in Loops /\ TaskFor("close_app", App) \in Tasks
  BY TypeParts, TaskKinds DEF Loops
<1>1. ASSUME NEW v \in {"stopping", "gone"}
      PROVE  LET h == [g EXCEPT ![e].st = v] IN
             h \in [Engines -> EngineType] /\ \A d \in Engines : h[d].waits = g[d].waits
  <2> DEFINE w == [g[e] EXCEPT !.st = v]
  <2>1. g[e] \in EngineType /\ v \in {"none", "up", "stopping", "stopped", "gone"}
    OBVIOUS
  <2>2. w \in EngineType /\ w.waits = g[e].waits
    BY <2>1, SetSt
  <2> HIDE DEF w
  <2>3. LET h == [g EXCEPT ![e] = w] IN
        h \in [Engines -> EngineType] /\ \A d \in Engines : h[d].waits = g[d].waits
    BY <2>2
  <2> QED
    BY <2>3 DEF w
<1>2. CASE AppReaps(e, k, g, q)
  <2> DEFINE closes == ~mode.appLong /\ app.state = "running"
             a == IF closes THEN [app EXCEPT !.state = "closing"] ELSE app
             g2 == [g EXCEPT ![e].st = "gone"]
  <2>1. /\ engine' = g2 /\ conn' = k
        /\ queue' = IF closes THEN Post(q, App, TaskFor("close_app", App)) ELSE q
        /\ app' = IF a.state = "running" THEN a ELSE Proceeds(a, k, g2)
    BY <1>2 DEF AppReaps
  <2>2. a \in AppType
    BY <1>0 DEF AppType
  <2> HIDE DEF a, g2, closes
  <2>3. app' \in AppType
    BY <2>1, <2>2, ProceedsOK
  <2>4. queue' \in Queues
    BY <1>0, <2>1, Posts
  <2> QED
    BY <1>1, <2>1, <2>3, <2>4 DEF g2
<1>3. CASE EngineProceeds(e, k, g, q)
  <2>1. \/ engine' = g /\ conn' = k /\ queue' = q /\ app' = app
        \/ engine' = [g EXCEPT ![e].st = "stopping"] /\ conn' = k /\ queue' = q /\ app' = app
        \/ AppReaps(e, k, g, q)
    BY <1>3 DEF EngineProceeds
  <2> QED
    BY <1>0, <1>1, <1>2, <2>1
<1> QED
  BY <1>2, <1>3

LEMMA ConnectionTyped ==
    ASSUME Typed, NEW c \in Connections, NEW l \in Loops,
           \/ Connect(c) \/ Accepted(c) \/ Disconnect(c) \/ ProtoClose(l, c)
           \/ GraphNotFound(c) \/ SocketSent(c) \/ Clean(c) \/ StreamCleaned(c)
           \/ Cleaned(l, c) \/ \E e \in Engines : PipeReady(e, c)
    PROVE  Typed'
<1> DEFINE r == conn[c]
<1>0. /\ TypeOK /\ queue \in Queues /\ r \in ConnectionType
      /\ draining \in [Loops -> BOOLEAN] /\ App \in Loops
      /\ \A f \in MoveTasks : TaskFor(f, c) \in Tasks
  BY TypeParts, TaskKinds DEF Typed, Loops
<1>1. AttachedLoop(c) \in Loops
  BY DEF Typed, AttachedLoop, LoopOf, Loops
<1>2. ASSUME NEW k \in Loops, NEW f \in MoveTasks, queue' = Post(queue, k, TaskFor(f, c))
      PROVE  queue' \in Queues
  BY <1>0, <1>2, Posts
<1>3. ASSUME NEW k \in Loops, NEW f, Task(f, k, c), queue' = Taken(k), Drained(k)
      PROVE  queue' \in Queues /\ draining' \in [Loops -> BOOLEAN]
  <2>1. queue' \in Queues
    BY <1>0, <1>3, Takes
  <2> QED
    BY <1>0, <1>3, <2>1, DrainsNext
<1> HIDE DEF r
<1>4. CASE Connect(c)
  <2>1. LET s == [r EXCEPT !.at = "accepting"] IN
        s \in ConnectionType /\ s.to = r.to /\ s.at = "accepting"
    BY <1>0, SetAt
  <2>2. /\ UNCHANGED <<mode, app, engine, draining>> /\ queue' \in Queues
        /\ conn' = [conn EXCEPT ![c] = [r EXCEPT !.at = "accepting"]]
    BY <1>4, <1>0, <1>2 DEF Connect, MoveTasks, r
  <2> QED
    BY <1>0, <2>1, <2>2, OneTyped DEF r
<1>5. CASE Accepted(c)
  <2> DEFINE a == [r EXCEPT !.at = "app"]
  <2>1. a \in ConnectionType /\ a.to = r.to /\ a.at = "app"
    BY <1>0, SetAt
  <2>2. /\ UNCHANGED <<mode, app, engine>> /\ queue' \in Queues
        /\ draining' \in [Loops -> BOOLEAN]
        /\ conn' = [conn EXCEPT ![c] = [a EXCEPT !.stream = "open"]]
    BY <1>5, <1>0, <1>3 DEF Accepted, r
  <2> HIDE DEF a
  <2>3. LET s == [a EXCEPT !.stream = "open"] IN
        s \in ConnectionType /\ s.to = r.to /\ s.at = "app"
    BY <2>1, SetStream
  <2> QED
    BY <1>0, <2>2, <2>3, OneTyped DEF r
<1>6. CASE Disconnect(c)
  <2>1. LET s == [r EXCEPT !.eof = TRUE] IN
        s \in ConnectionType /\ s.to = r.to /\ s.at = r.at
    BY <1>0 DEF ConnectionType
  <2>2. /\ UNCHANGED <<mode, app, engine, draining>> /\ queue' \in Queues
        /\ conn' = [conn EXCEPT ![c] = [r EXCEPT !.eof = TRUE]]
    BY <1>6, <1>1, <1>2 DEF Disconnect, MoveTasks, r
  <2> QED
    BY <1>0, <2>1, <2>2, OneTyped DEF r
<1>7. CASE ProtoClose(l, c)
  <2>1. ShutProtocol(r) \in ConnectionType /\ ShutProtocol(r).to = r.to /\ ShutProtocol(r).at = r.at
    BY <1>0, ShutEffect
  <2>2. /\ UNCHANGED <<mode, app, engine>> /\ queue' \in Queues
        /\ draining' \in [Loops -> BOOLEAN]
        /\ conn' = [conn EXCEPT ![c] = ShutProtocol(r)]
    BY <1>7, <1>3 DEF ProtoClose, r
  <2> QED
    BY <1>0, <2>1, <2>2, OneTyped DEF r
<1>8. CASE Clean(c)
  <2> DEFINE a == [r EXCEPT !.at = "moving"]
  <2>1. a \in ConnectionType /\ a.to = r.to /\ a.at = "moving"
    BY <1>0, SetAt
  <2>2. /\ UNCHANGED <<mode, app, engine>> /\ queue' \in Queues
        /\ draining' \in [Loops -> BOOLEAN]
        /\ conn' = [conn EXCEPT ![c] = [a EXCEPT !.stream = "cleaning"]]
    BY <1>8, <1>0, <1>3 DEF Clean, r
  <2> HIDE DEF a
  <2>3. LET s == [a EXCEPT !.stream = "cleaning"] IN
        s \in ConnectionType /\ s.to = r.to /\ s.at = "moving"
    BY <2>1, SetStream
  <2> QED
    BY <1>0, <2>2, <2>3, OneTyped DEF r
<1>9. CASE Cleaned(l, c)
  <2>1. LET s == [r EXCEPT !.rest = FALSE] IN
        s \in ConnectionType /\ s.to = r.to /\ s.at = r.at
    BY <1>0 DEF ConnectionType
  <2>2. /\ UNCHANGED <<mode, app, engine>> /\ queue' \in Queues
        /\ draining' \in [Loops -> BOOLEAN]
        /\ conn' = [conn EXCEPT ![c] = [r EXCEPT !.rest = FALSE]]
    BY <1>9, <1>3 DEF Cleaned, r
  <2> QED
    BY <1>0, <2>1, <2>2, OneTyped DEF r
<1>10. CASE StreamCleaned(c)
  <2>1. LET s == [r EXCEPT !.stream = "cleaned"] IN
        s \in ConnectionType /\ s.to = r.to /\ s.at = r.at
    BY <1>0, SetStream
  <2>2. /\ UNCHANGED <<mode, app, engine, draining>> /\ queue' \in Queues
        /\ conn' = [conn EXCEPT ![c] = [r EXCEPT !.stream = "cleaned"]]
    BY <1>10, <1>0 DEF StreamCleaned, r
  <2> QED
    BY <1>0, <2>1, <2>2, OneTyped DEF r
<1>11. ASSUME GraphNotFound(c) \/ SocketSent(c) \/ \E e \in Engines : PipeReady(e, c)
       PROVE  Typed'
  <2>1. PICK h \in {"reset", "sent", "prepared"} :
             conn' = [conn EXCEPT ![c] = [r EXCEPT !.hop = h]]
    BY <1>11 DEF GraphNotFound, SocketSent, PipeReady, r
  <2>2. UNCHANGED <<mode, app, engine, draining>> /\ queue' \in Queues
    BY <1>11, <1>0, <1>2 DEF GraphNotFound, SocketSent, PipeReady, MoveTasks
  <2> DEFINE s == [r EXCEPT !.hop = h]
  <2>3. s \in ConnectionType /\ s.to = r.to /\ s.at = r.at
    <3>1. h \in {"no", "reset", "asked", "prepared", "sent", "waited", "done"}
      OBVIOUS
    <3>2. r \in ConnectionType
      BY <1>0
    <3> QED
      BY ONLY <3>1, <3>2, SetHop DEF s
  <2>4. conn' = [conn EXCEPT ![c] = s]
    BY <2>1
  <2> HIDE DEF s
  <2> QED
    BY <1>0, <2>2, <2>3, <2>4, OneTyped DEF r
<1> QED
  BY <1>4, <1>5, <1>6, <1>7, <1>8, <1>9, <1>10, <1>11

\* The app is asked to close, or goes on closing.
LEMMA AppTyped ==
    ASSUME Typed, CloseApp \/ Ends
    PROVE  Typed'
<1>0. /\ app \in AppType /\ queue \in Queues /\ App \in Loops
      /\ draining \in [Loops -> BOOLEAN]
      /\ engine \in [Engines -> EngineType] /\ conn \in [Connections -> ConnectionType]
      /\ TaskFor("close_app", App) \in Tasks
  BY TypeParts, TaskKinds DEF Typed, Loops
<1>1. UNCHANGED <<mode, engine, conn, draining>>
  BY DEF CloseApp, Ends, EndpointClosed, DeinitDone, AppLoopEnds
<1>2. app' \in AppType /\ queue' \in Queues
  <2>1. CASE CloseApp
    <3>1. /\ app' = app \/ app' = [app EXCEPT !.state = "closing"]
          /\ queue' = queue \/ queue' = Post(queue, App, TaskFor("close_app", App))
      BY <2>1 DEF CloseApp, CloseRequested
    <3>2. queue' \in Queues
      BY <1>0, <3>1, Posts
    <3> QED
      BY <1>0, <3>1, <3>2 DEF AppType
  <2>2. CASE EndpointClosed
    <3> DEFINE a == [app EXCEPT !.endpoint = "closed"]
    <3>1. a \in AppType
      BY <1>0 DEF AppType
    <3>2. app' = Proceeds(a, conn, engine) /\ queue' = queue
      BY <2>2 DEF EndpointClosed
    <3> HIDE DEF a
    <3> QED
      BY <1>0, <3>1, <3>2, ProceedsOK
  <2>3. CASE DeinitDone \/ AppLoopEnds
    BY <1>0, <2>3 DEF DeinitDone, AppLoopEnds, AppType
  <2> QED
    BY <2>1, <2>2, <2>3 DEF Ends
<1> QED
  BY <1>0, <1>1, <1>2, TypedStep

\* An engine becomes w.
LEMMA EngineTyped ==
    ASSUME NEW g \in [Engines -> EngineType], NEW e \in Engines, NEW w \in EngineType,
           w.waits = g[e].waits
    PROVE  LET h == [g EXCEPT ![e] = w] IN
           h \in [Engines -> EngineType] /\ \A d \in Engines : h[d].waits = g[d].waits
OBVIOUS

\* ten_engine_append_to_in_msgs_queue
LEMMA MessageTyped ==
    ASSUME NEW g \in EngineType, NEW m \in Messages
    PROVE  LET w == [g EXCEPT !.inMsgs = Append(@, m)] IN
           w \in EngineType /\ w.waits = g.waits /\ w.st = g.st
<1>1. g.inMsgs \in Seq(Messages)
  BY DEF EngineType
<1>2. Append(g.inMsgs, m) \in Seq(Messages)
  BY <1>1
<1> QED
  BY <1>2, SetInMsgs

LEMMA OwnersTyped ==
    ASSUME Typed, NEW e \in Engines, StartPredefined(e) \/ StopGraph(e)
    PROVE  Typed'
<1>0. /\ app \in AppType /\ queue \in Queues /\ LoopOf(e) \in Loops /\ engine[e] \in EngineType
      /\ draining \in [Loops -> BOOLEAN] /\ TaskFor("in_msgs", e) \in Tasks
      /\ engine \in [Engines -> EngineType] /\ conn \in [Connections -> ConnectionType]
  BY TypeParts, TaskKinds DEF Typed, Loops, LoopOf, GraphTasks
<1>1. UNCHANGED <<mode, app, conn, draining>>
  BY DEF StartPredefined, StopGraph
<1>2. queue' \in Queues
  <2>1. CASE StartPredefined(e)
    BY <1>0, <2>1, Appends DEF StartPredefined
  <2>2. CASE StopGraph(e)
    BY <1>0, <2>2, Posts DEF StopGraph, InMsgsPosted
  <2> QED
    BY <2>1, <2>2
<1>3. PICK w \in EngineType : w.waits = engine[e].waits /\ engine' = [engine EXCEPT ![e] = w]
  <2>1. CASE StartPredefined(e)
    <3> DEFINE a == [engine[e] EXCEPT !.st = "up"]
               m == [from |-> None, kind |-> "start"]
    <3>1. a \in EngineType /\ a.waits = engine[e].waits
      BY <1>0, SetSt
    <3>2. engine' = [engine EXCEPT ![e] = [a EXCEPT !.inMsgs = <<m>>]]
      BY <2>1 DEF StartPredefined
    <3>3. <<m>> \in Seq(Messages)
      BY DEF Messages
    <3> HIDE DEF a, m
    <3>4. LET w == [a EXCEPT !.inMsgs = <<m>>] IN w \in EngineType /\ w.waits = a.waits
      BY <3>1, <3>3, SetInMsgs
    <3> QED
      BY <3>1, <3>2, <3>4
  <2>2. CASE StopGraph(e)
    <3> DEFINE m == [from |-> None, kind |-> "stop"]
               a == [engine[e] EXCEPT !.inMsgs = Append(@, m)]
    <3>1. m \in Messages
      BY DEF Messages
    <3>2. a \in EngineType /\ a.waits = engine[e].waits
      BY <1>0, <3>1, MessageTyped
    <3>3. engine' = [engine EXCEPT ![e] = [a EXCEPT !.stops = 1]]
      BY <1>0, <2>2 DEF StopGraph, Appended
    <3> HIDE DEF a
    <3>4. LET w == [a EXCEPT !.stops = 1] IN w \in EngineType /\ w.waits = a.waits
      BY <3>2, SetStops
    <3> QED
      BY <3>2, <3>3, <3>4
  <2> QED
    BY <2>1, <2>2
<1>4. engine' \in [Engines -> EngineType] /\ \A d \in Engines : engine'[d].waits = engine[d].waits
  BY <1>0, <1>3, EngineTyped
<1> QED
  BY <1>0, <1>1, <1>2, <1>4, TypedStep

\* The first message of a connection.
LEMMA FirstTyped ==
    ASSUME Typed, NEW c \in Connections,
           FirstClosesApp(c) \/ \E e \in Engines, rest \in BOOLEAN : FirstToEngine(c, e, rest)
    PROVE  Typed'
<1> DEFINE r == conn[c]
<1>0. /\ app \in AppType /\ queue \in Queues /\ r \in ConnectionType /\ App \in Loops
      /\ draining \in [Loops -> BOOLEAN]
      /\ TaskFor("cleaned", c) \in Tasks /\ TaskFor("close_app", App) \in Tasks
      /\ engine \in [Engines -> EngineType] /\ conn \in [Connections -> ConnectionType]
  BY TypeParts, TaskKinds DEF Typed, Loops, MoveTasks
<1> HIDE DEF r
<1>1. CASE FirstClosesApp(c)
  <2> DEFINE q == Post(queue, App, TaskFor("cleaned", c))
             s == [r EXCEPT !.hop = "done"]
  <2>1. q \in Queues
    BY <1>0, Posts
  <2>2. /\ UNCHANGED <<mode, engine, draining>> /\ CloseRequested(q)
        /\ conn' = [conn EXCEPT ![c] = s]
    BY <1>1 DEF FirstClosesApp, r
  <2>3. s \in ConnectionType /\ s.to = r.to /\ s.at = r.at
    BY <1>0, SetHop
  <2> HIDE DEF q, s
  <2>4. app' \in AppType
    BY <1>0, <2>2 DEF CloseRequested, AppType
  <2>5. queue' \in Queues
    BY <1>0, <2>1, <2>2, Posts DEF CloseRequested
  <2>6. /\ conn' \in [Connections -> ConnectionType]
        /\ \A x \in Connections : conn'[x].to = conn[x].to /\ conn'[x].at = conn[x].at
    BY <1>0, <2>2, <2>3 DEF r
  <2> QED
    BY <1>0, <2>2, <2>4, <2>5, <2>6, TypedStep
<1>2. ASSUME NEW e \in Engines, NEW rest \in BOOLEAN, FirstToEngine(c, e, rest)
      PROVE  Typed'
  <2>0. /\ LoopOf(e) \in Loops /\ TaskFor("in_msgs", e) \in Tasks /\ engine[e] \in EngineType
    BY <1>0, TaskKinds DEF Loops, LoopOf, GraphTasks
  <2>1. UNCHANGED <<mode, app, draining>>
    BY <1>2 DEF FirstToEngine
  <2> DEFINE up == [engine[e] EXCEPT !.st = "up"]
             started == [engine EXCEPT ![e] = up]
  <2>2. PICK g \in [Engines -> EngineType], first \in {"start", "cmd"} :
             /\ \A d \in Engines : g[d].waits = engine[d].waits
             /\ Arrives(c, e, g, first, rest)
    <3>1. Arrives(c, e, started, "start", rest) \/ Arrives(c, e, engine, "cmd", rest)
      BY <1>2 DEF FirstToEngine
    <3>2. up \in EngineType /\ up.waits = engine[e].waits
      BY <2>0, SetSt
    <3> HIDE DEF up
    <3>3. started \in [Engines -> EngineType] /\ \A d \in Engines : started[d].waits = engine[d].waits
      BY <1>0, <3>2, EngineTyped
    <3> HIDE DEF started
    <3>4. CASE Arrives(c, e, started, "start", rest)
      BY <3>3, <3>4
    <3>5. CASE Arrives(c, e, engine, "cmd", rest)
      BY <1>0, <3>5
    <3> QED
      BY <3>1, <3>4, <3>5
  <2> HIDE DEF up, started
  <2>3. g \in [Engines -> EngineType] /\ \A d \in Engines : g[d].waits = engine[d].waits
    BY <2>2
  <2>4. PICK a \in ConnectionType : conn' = [conn EXCEPT ![c] = Read(a, e, first, rest)]
    <3> DEFINE asked == [r EXCEPT !.hop = "asked"]
               done == [r EXCEPT !.hop = "done"]
               there == [done EXCEPT !.at = "engine"]
    <3>1. asked \in ConnectionType /\ done \in ConnectionType
      BY <1>0, SetHop
    <3>2. CASE mode.own
      <4>1. conn' = [conn EXCEPT ![c].to = e, ![c].hop = "asked", ![c].first = first, ![c].rest = rest]
        BY <2>2, <3>2 DEF Arrives
      <4>2. conn' = [conn EXCEPT ![c] = Read(asked, e, first, rest)]
        BY <4>1 DEF Read, r
      <4> QED
        BY <3>1, <4>2
    <3>3. CASE ~mode.own
      <4>1. conn' = [conn EXCEPT ![c].to = e, ![c].hop = "done", ![c].first = first,
                                 ![c].rest = rest, ![c].at = "engine"]
        BY <2>2, <3>3 DEF Arrives
      <4>2. conn' = [conn EXCEPT ![c] = Read(there, e, first, rest)]
        BY <4>1 DEF Read, r
      <4> HIDE DEF done
      <4>3. there \in ConnectionType
        BY <3>1, SetAt
      <4> QED
        BY <4>2, <4>3
    <3> QED
      BY <3>2, <3>3
  <2> DEFINE s == Read(a, e, first, rest)
  <2>5. conn' = [conn EXCEPT ![c] = s]
    BY <2>4
  <2>7. s \in ConnectionType /\ s.to = e
    BY <2>4, SetTo
  <2> HIDE DEF s
  <2>8. conn' \in [Connections -> ConnectionType] /\ \A x \in Connections :
          conn'[x].to = (IF x = c THEN e ELSE conn[x].to) /\ (x # c => conn'[x] = conn[x])
    BY <1>0, <2>5, <2>7
  <2>9. /\ engine' \in [Engines -> EngineType]
        /\ \A d \in Engines : engine'[d].waits = engine[d].waits
    <3> DEFINE m == [from |-> c, kind |-> first]
               w == [g[e] EXCEPT !.inMsgs = Append(@, m)]
    <3>1. m \in Messages
      BY DEF Messages
    <3>2. w \in EngineType /\ w.waits = g[e].waits
      BY <2>3, <3>1, MessageTyped
    <3>3. engine' = g \/ engine' = [g EXCEPT ![e] = w]
      BY <2>2 DEF Arrives, Appended
    <3> HIDE DEF w
    <3>4. engine' \in [Engines -> EngineType] /\ \A d \in Engines : engine'[d].waits = g[d].waits
      BY <2>3, <3>2, <3>3, EngineTyped
    <3> QED
      BY <2>3, <3>4
  <2>10. queue' \in Queues
    <3>1. Post(queue, App, TaskFor("cleaned", c)) \in Queues
      BY <1>0, Posts
    <3>2. Post(Post(queue, App, TaskFor("cleaned", c)), LoopOf(e), TaskFor("in_msgs", e)) \in Queues
      BY <2>0, <3>1, Posts
    <3> QED
      BY <1>0, <2>2, <3>2 DEF Arrives, InMsgsPosted
  <2> QED
    BY <1>0, <2>1, <2>8, <2>9, <2>10, TypedStep
<1> QED
  BY <1>1, <1>2

\* The engine waits for a connection, and takes it over.
LEMMA MigrationTyped ==
    ASSUME Typed, NEW c \in Connections, NEW e \in Engines,
           StreamMigrated(e, c) \/ MigrationDone(e, c)
    PROVE  Typed'
<1> DEFINE r == conn[c]
           g == engine[e]
<1>0. /\ app \in AppType /\ queue \in Queues /\ r \in ConnectionType /\ g \in EngineType
      /\ draining \in [Loops -> BOOLEAN] /\ App \in Loops /\ e \in Loops /\ LoopOf(e) \in Loops
      /\ TaskFor("cleaned", c) \in Tasks /\ TaskFor("clean", c) \in Tasks
      /\ TaskFor("in_msgs", e) \in Tasks
      /\ engine \in [Engines -> EngineType] /\ conn \in [Connections -> ConnectionType]
  BY TypeParts, TaskKinds DEF Typed, Loops, MoveTasks, GraphTasks, LoopOf
<1> HIDE DEF r, g
<1>1. CASE StreamMigrated(e, c)
  <2> DEFINE s == [r EXCEPT !.hop = "waited"]
             w == [g EXCEPT !.waits = c]
  <2>1. /\ UNCHANGED <<mode, app, draining>> /\ queue' = Post(queue, App, TaskFor("clean", c))
        /\ conn' = [conn EXCEPT ![c] = s] /\ engine' = [engine EXCEPT ![e] = w] /\ r.to = e
    BY <1>1 DEF StreamMigrated, r, g
  <2>2. s \in ConnectionType /\ s.to = r.to /\ s.at = r.at
    BY <1>0, SetHop
  <2>3. w \in EngineType /\ w.waits = c
    BY <1>0, SetWaits
  <2> HIDE DEF s, w
  <2>4. queue' \in Queues
    BY <1>0, <2>1, Posts
  <2>5. conn' \in [Connections -> ConnectionType] /\ \A x \in Connections :
          conn'[x].to = conn[x].to /\ conn'[x].at = conn[x].at
    BY <1>0, <2>1, <2>2 DEF r
  <2>6. engine' \in [Engines -> EngineType] /\ \A d \in Engines :
          engine'[d].waits = engine[d].waits \/ engine'[d].waits = c
    BY <1>0, <2>1, <2>3
  <2>7. conn'[c].to = e
    BY <2>1, <2>5 DEF r
  <2> QED
    BY <1>0, <2>1, <2>4, <2>5, <2>6, <2>7, TypedStep
<1>2. CASE MigrationDone(e, c)
  <2> DEFINE a == [r EXCEPT !.at = "engine"]
             b == [a EXCEPT !.hop = "done"]
             s == [b EXCEPT !.stream = "open"]
             m == [from |-> c, kind |-> r.first]
             w == [g EXCEPT !.inMsgs = Append(@, m)]
             v == [w EXCEPT !.waits = None]
  <2>1. /\ UNCHANGED <<mode, app, draining>> /\ engine[e].waits = c
        /\ queue' = Post(Post(queue, LoopOf(e), TaskFor("in_msgs", e)), e, TaskFor("cleaned", c))
        /\ conn' = [conn EXCEPT ![c] = s] /\ engine' = [engine EXCEPT ![e] = v]
    BY <1>0, <1>2 DEF MigrationDone, Appended, InMsgsPosted, r, g
  <2>2. a \in ConnectionType /\ a.to = r.to
    BY <1>0, SetAt
  <2>3. m \in Messages
    BY <1>0 DEF ConnectionType, Messages
  <2>4. w \in EngineType
    BY <1>0, <2>3, MessageTyped
  <2> HIDE DEF a, m, w
  <2>5. b \in ConnectionType /\ b.to = r.to
    BY <2>2, SetHop
  <2> HIDE DEF b
  <2>6. s \in ConnectionType /\ s.to = r.to
    BY <2>5, SetStream
  <2>7. v \in EngineType /\ v.waits = None
    BY <2>4, SetWaits
  <2> HIDE DEF s, v
  <2>8. conn[c].to \in Engines
    BY <2>1, NoneAssumption DEF Typed
  <2>9. queue' \in Queues
    <3>1. Post(queue, LoopOf(e), TaskFor("in_msgs", e)) \in Queues
      BY <1>0, Posts
    <3> QED
      BY <1>0, <2>1, <3>1, Posts
  <2>10. conn' \in [Connections -> ConnectionType] /\ \A x \in Connections :
          conn'[x].to = conn[x].to /\ (conn'[x].at = conn[x].at \/ x = c)
    BY <1>0, <2>1, <2>6 DEF r
  <2>11. engine' \in [Engines -> EngineType] /\ \A d \in Engines :
          engine'[d].waits = engine[d].waits \/ engine'[d].waits = None
    BY <1>0, <2>1, <2>7
  <2> QED
    BY <1>0, <2>1, <2>8, <2>9, <2>10, <2>11, TypedStep
<1> QED
  BY <1>1, <1>2

\* The tasks and callbacks that close engines, connections and the app.
LEMMA InMsgsTyped ==
    ASSUME Typed, NEW l \in Loops, NEW e \in Engines, InMsgs(l, e)
    PROVE  Typed'
<1>0. /\ TypeOK /\ app \in AppType /\ queue \in Queues
      /\ engine \in [Engines -> EngineType] /\ conn \in [Connections -> ConnectionType]
  BY TypeParts DEF Typed
<1> DEFINE Senders == {engine[e].inMsgs[i].from : i \in DOMAIN engine[e].inMsgs}
<1>1. \E starts \in BOOLEAN : \E set \in SUBSET {e} :
         /\ conn' = [c \in Connections |->
               IF c \in Senders /\ conn[c].at = "engine"
               THEN [conn[c] EXCEPT !.at = "remote"] ELSE conn[c]]
         /\ engine' = [CloseAsync(engine, set) EXCEPT
               ![e].inMsgs = <<>>, ![e].ctx = IF starts THEN "up" ELSE @]
         /\ queue' = ClosePosted(Taken(l), set)
         /\ Task("in_msgs", l, e) /\ UNCHANGED <<mode, app>> /\ Drained(l)
  <2> DEFINE msgs == engine[e].inMsgs
             Handled == {i \in DOMAIN msgs :
               ~engine[e].closing /\ \A j \in 1..(i - 1) : msgs[j].kind # "stop"}
             Has(kind) == \E i \in Handled : msgs[i].kind = kind
             set == IF Has("stop") THEN {e} ELSE {}
  <2>1. /\ conn' = [c \in Connections |->
               IF c \in {msgs[i].from : i \in DOMAIN msgs} /\ conn[c].at = "engine"
               THEN [conn[c] EXCEPT !.at = "remote"] ELSE conn[c]]
        /\ engine' = [CloseAsync(engine, set) EXCEPT
               ![e].inMsgs = <<>>, ![e].ctx = IF Has("start") THEN "up" ELSE @]
        /\ queue' = ClosePosted(Taken(l), set)
        /\ Task("in_msgs", l, e) /\ UNCHANGED <<mode, app>> /\ Drained(l)
    BY DEF InMsgs
  <2>2. set \in SUBSET {e} /\ Has("start") \in BOOLEAN
    OBVIOUS
  <2>3. Senders = {msgs[i].from : i \in DOMAIN msgs}
    OBVIOUS
  <2> HIDE DEF msgs, set, Handled, Has, Senders
  <2> QED
    BY <2>1, <2>2, <2>3
<1> HIDE DEF Senders
<1>2. PICK starts \in BOOLEAN : \E set \in SUBSET {e} :
         /\ conn' = [c \in Connections |->
               IF c \in Senders /\ conn[c].at = "engine"
               THEN [conn[c] EXCEPT !.at = "remote"] ELSE conn[c]]
         /\ engine' = [CloseAsync(engine, set) EXCEPT
               ![e].inMsgs = <<>>, ![e].ctx = IF starts THEN "up" ELSE @]
         /\ queue' = ClosePosted(Taken(l), set)
         /\ Task("in_msgs", l, e) /\ UNCHANGED <<mode, app>> /\ Drained(l)
  BY <1>1
<1>3. PICK set \in SUBSET {e} :
         /\ conn' = [c \in Connections |->
               IF c \in Senders /\ conn[c].at = "engine"
               THEN [conn[c] EXCEPT !.at = "remote"] ELSE conn[c]]
         /\ engine' = [CloseAsync(engine, set) EXCEPT
               ![e].inMsgs = <<>>, ![e].ctx = IF starts THEN "up" ELSE @]
         /\ queue' = ClosePosted(Taken(l), set)
         /\ Task("in_msgs", l, e) /\ UNCHANGED <<mode, app>> /\ Drained(l)
  BY <1>2
<1>4. queue' \in Queues
  <2>1. Taken(l) \in Queues
    BY <1>0, <1>3, Takes
  <2> QED
    BY <1>3, <2>1, ClosesTyped
<1>5. draining' \in [Loops -> BOOLEAN]
  BY <1>0, <1>3, <1>4, DrainsNext
<1>6. /\ conn' \in [Connections -> ConnectionType]
      /\ \A c \in Connections :
           /\ conn'[c].to = conn[c].to
           /\ conn'[c].at = conn[c].at \/ conn[c].at = "engine"
  <2>1. ASSUME NEW c \in Connections
        PROVE  LET s == IF c \in Senders /\ conn[c].at = "engine"
                        THEN [conn[c] EXCEPT !.at = "remote"] ELSE conn[c] IN
               /\ s \in ConnectionType /\ s.to = conn[c].to
               /\ s.at = conn[c].at \/ conn[c].at = "engine"
    <3>1. conn[c] \in ConnectionType
      BY <1>0
    <3> QED
      BY <3>1, SetAt
  <2> QED
    BY <1>3, <2>1
<1>7. /\ engine' \in [Engines -> EngineType]
      /\ \A d \in Engines : engine'[d].waits = engine[d].waits
  <2> DEFINE g == CloseAsync(engine, set)
             a == [g[e] EXCEPT !.inMsgs = <<>>]
             v == IF starts THEN "up" ELSE a.ctx
             w == [a EXCEPT !.ctx = v]
  <2>1. g \in [Engines -> EngineType] /\ \A d \in Engines : g[d].waits = engine[d].waits
    BY <1>0, CloseTyped
  <2>2. engine' = [g EXCEPT ![e] = w]
    BY <1>3
  <2> HIDE DEF g
  <2>3. a \in EngineType /\ a.waits = g[e].waits
    <3>1. g[e] \in EngineType /\ <<>> \in Seq(Messages)
      BY <2>1
    <3> QED
      BY <3>1, SetInMsgs
  <2> HIDE DEF a
  <2>4. w \in EngineType /\ w.waits = g[e].waits
    <3>1. v \in {"none", "up", "closing", "ended"}
      BY <2>3 DEF EngineType
    <3>2. a \in EngineType
      BY <2>3
    <3>3. w \in EngineType /\ w.waits = a.waits
      BY ONLY <3>1, <3>2, SetCtx DEF w
    <3> QED
      BY <2>3, <3>3
  <2> HIDE DEF w
  <2>5. engine' \in [Engines -> EngineType] /\ \A d \in Engines : engine'[d].waits = g[d].waits
    BY <2>1, <2>2, <2>4, EngineTyped
  <2> QED
    BY <2>1, <2>5
<1> QED
  BY <1>0, <1>3, <1>4, <1>5, <1>6, <1>7, TypedStep

LEMMA ClosingTyped ==
    ASSUME Typed, NEW l \in Loops, NEW e \in Engines,
           CloseEngine(l, e) \/ ContextClosed(l, e) \/ EngineClosed(e)
    PROVE  Typed'
<1>0. /\ TypeOK /\ queue \in Queues /\ App \in Loops /\ engine[e] \in EngineType
      /\ engine \in [Engines -> EngineType] /\ conn \in [Connections -> ConnectionType]
  BY TypeParts DEF Typed, Loops
<1>1. PICK h \in Loops, f \in GraphTasks : Task(f, h, e) /\ Drained(h) /\ mode' = mode
         /\ \/ f = "close_engine" /\ CloseEngine(h, e)
            \/ f = "context_closed" /\ ContextClosed(h, e)
            \/ f = "engine_closed" /\ EngineClosed(e) /\ h = App
  BY <1>0 DEF CloseEngine, ContextClosed, EngineClosed, GraphTasks
<1>2. Taken(h) \in Queues
  BY <1>0, <1>1, Takes
<1>3. PICK k \in [Connections -> ConnectionType], g \in [Engines -> EngineType] :
         /\ AppReaps(e, k, g, Taken(h)) \/ EngineProceeds(e, k, g, Taken(h))
         /\ \A c \in Connections : k[c].to = conn[c].to /\ k[c].at = conn[c].at
         /\ \A d \in Engines : g[d].waits = engine[d].waits
  <2>1. CASE CloseEngine(h, e)
    <3> DEFINE w == [engine[e] EXCEPT !.ctx = IF @ = "up" THEN "closing" ELSE @]
               g == [engine EXCEPT ![e] = w]
               k == Shut(conn, RemotesOf(e, conn))
    <3>1. EngineProceeds(e, k, g, Taken(h))
      BY <2>1 DEF CloseEngine
    <3>2. /\ k \in [Connections -> ConnectionType]
          /\ \A c \in Connections : k[c].to = conn[c].to /\ k[c].at = conn[c].at
      BY <1>0, ShutTyped
    <3>3. w \in EngineType /\ w.waits = engine[e].waits
      <4>1. (IF engine[e].ctx = "up" THEN "closing" ELSE engine[e].ctx)
              \in {"none", "up", "closing", "ended"}
        BY <1>0 DEF EngineType
      <4> QED
        BY <1>0, <4>1, SetCtx
    <3> HIDE DEF w, k
    <3>4. g \in [Engines -> EngineType] /\ \A d \in Engines : g[d].waits = engine[d].waits
      BY <1>0, <3>3, EngineTyped
    <3> HIDE DEF g
    <3> QED
      BY <3>1, <3>2, <3>4
  <2>2. CASE ContextClosed(h, e)
    <3> DEFINE w == [engine[e] EXCEPT !.ctx = "none"]
               g == [engine EXCEPT ![e] = w]
    <3>1. EngineProceeds(e, conn, g, Taken(h))
      BY <2>2 DEF ContextClosed
    <3>2. w \in EngineType /\ w.waits = engine[e].waits
      BY <1>0, SetCtx
    <3> HIDE DEF w
    <3>3. g \in [Engines -> EngineType] /\ \A d \in Engines : g[d].waits = engine[d].waits
      BY <1>0, <3>2, EngineTyped
    <3> HIDE DEF g
    <3> QED
      BY <1>0, <3>1, <3>3
  <2>3. CASE EngineClosed(e) /\ h = App
    <3>1. AppReaps(e, conn, engine, Taken(h))
      BY <2>3 DEF EngineClosed
    <3> QED
      BY <1>0, <3>1
  <2> QED
    BY <1>1, <2>1, <2>2, <2>3
<1>4. /\ app' \in AppType /\ conn' = k /\ queue' \in Queues
      /\ engine' \in [Engines -> EngineType]
      /\ \A d \in Engines : engine'[d].waits = g[d].waits
  BY <1>0, <1>2, <1>3, EndTyped
<1>5. draining' \in [Loops -> BOOLEAN]
  BY <1>0, <1>1, <1>4, DrainsNext
<1> QED
  BY <1>1, <1>3, <1>4, <1>5, TypedStep

LEMMA EngineEndsTyped ==
    ASSUME Typed, NEW e \in Engines, EngineEnds(e)
    PROVE  Typed'
<1>0. /\ app \in AppType /\ queue \in Queues /\ LoopOf(e) \in Loops /\ App \in Loops
      /\ draining \in [Loops -> BOOLEAN] /\ engine[e] \in EngineType
      /\ TaskFor("context_closed", e) \in Tasks /\ TaskFor("engine_closed", e) \in Tasks
      /\ engine \in [Engines -> EngineType] /\ conn \in [Connections -> ConnectionType]
  BY TypeParts, TaskKinds DEF Typed, Loops, LoopOf, GraphTasks
<1>1. UNCHANGED <<mode, app, conn, draining>>
  BY DEF EngineEnds, ContextEnds, EngineThreadEnds
<1>2. queue' \in Queues
  BY <1>0, Posts DEF EngineEnds, ContextEnds, EngineThreadEnds
<1>3. PICK w \in EngineType : w.waits = engine[e].waits /\ engine' = [engine EXCEPT ![e] = w]
  <2> DEFINE ended == [engine[e] EXCEPT !.ctx = "ended"]
             stopped == [engine[e] EXCEPT !.st = "stopped"]
  <2>1. ended \in EngineType /\ ended.waits = engine[e].waits
    BY <1>0, SetCtx
  <2>2. stopped \in EngineType /\ stopped.waits = engine[e].waits
    BY <1>0, SetSt
  <2>3. engine' = [engine EXCEPT ![e] = ended] \/ engine' = [engine EXCEPT ![e] = stopped]
    BY DEF EngineEnds, ContextEnds, EngineThreadEnds
  <2> HIDE DEF ended, stopped
  <2> QED
    BY <2>1, <2>2, <2>3
<1>4. engine' \in [Engines -> EngineType] /\ \A d \in Engines : engine'[d].waits = engine[d].waits
  BY <1>0, <1>3, EngineTyped
<1> QED
  BY <1>0, <1>1, <1>2, <1>4, TypedStep

LEMMA GoneTyped ==
    ASSUME Typed, NEW c \in Connections, OrphanClosed(c) \/ RemoteClosed(c)
    PROVE  Typed'
<1> DEFINE a == [conn[c] EXCEPT !.at = "gone"]
           b == [a EXCEPT !.stream = "closed"]
           gone == [b EXCEPT !.shut = TRUE]
           k == [conn EXCEPT ![c] = gone]
<1>0. /\ TypeOK /\ app \in AppType /\ queue \in Queues /\ draining \in [Loops -> BOOLEAN]
      /\ engine \in [Engines -> EngineType] /\ conn \in [Connections -> ConnectionType]
  BY TypeParts DEF Typed
<1>1. gone \in ConnectionType /\ gone.at = "gone" /\ gone.to = conn[c].to
  <2>1. conn[c] \in ConnectionType
    BY <1>0
  <2>2. a \in ConnectionType /\ a.at = "gone" /\ a.to = conn[c].to
    BY <2>1, SetAt
  <2> HIDE DEF a
  <2>3. b \in ConnectionType /\ b.at = "gone" /\ b.to = conn[c].to
    BY <2>2, SetStream
  <2> HIDE DEF b
  <2> QED
    BY <2>3, SetShut
<1>2. k = [conn EXCEPT ![c].at = "gone", ![c].stream = "closed", ![c].shut = TRUE]
  OBVIOUS
<1> HIDE DEF gone
<1>3. /\ k \in [Connections -> ConnectionType]
      /\ \A x \in Connections : k[x].to = conn[x].to /\ (k[x].at = conn[x].at \/ k[x].at = "gone")
  BY <1>0, <1>1
<1> HIDE DEF k
<1>4. CASE OrphanClosed(c)
  <2>1. /\ UNCHANGED <<mode, engine, queue, draining>> /\ conn' = k
        /\ app' = IF app.state = "running" THEN app ELSE Proceeds(app, k, engine)
    BY <1>2, <1>4 DEF OrphanClosed
  <2>2. app' \in AppType
    BY <1>0, <2>1, ProceedsOK
  <2> QED
    BY <1>0, <1>3, <2>1, <2>2, TypedStep
<1>5. CASE RemoteClosed(c)
  <2> DEFINE e == conn[c].to
             set == IF mode.engLong \/ conn[c].at = "engine" THEN {} ELSE {e}
  <2>1. /\ conn[c].at \in {"engine", "remote"} /\ UNCHANGED <<mode, draining>>
        /\ \/ EngineProceeds(e, k, engine, queue)
           \/ /\ conn' = k /\ app' = app
              /\ engine' = CloseAsync(engine, set) /\ queue' = ClosePosted(queue, set)
    BY <1>2, <1>5 DEF RemoteClosed
  <2>2. e \in Engines /\ set \in SUBSET Engines
    BY <2>1 DEF Typed
  <2> HIDE DEF e, set
  <2>3. /\ app' \in AppType /\ conn' = k /\ queue' \in Queues
        /\ engine' \in [Engines -> EngineType]
        /\ \A d \in Engines : engine'[d].waits = engine[d].waits
    <3>1. CASE EngineProceeds(e, k, engine, queue)
      BY <1>0, <1>3, <2>2, <3>1, EndTyped
    <3>2. CASE /\ conn' = k /\ app' = app
               /\ engine' = CloseAsync(engine, set) /\ queue' = ClosePosted(queue, set)
      BY <1>0, <2>2, <3>2, ClosesTyped, CloseTyped
    <3> QED
      BY <2>1, <3>1, <3>2
  <2> QED
    BY <1>0, <1>3, <2>1, <2>3, TypedStep
<1> QED
  BY <1>4, <1>5

LEMMA CloseAppTaskTyped ==
    ASSUME Typed, CloseAppTask
    PROVE  Typed'
<1> DEFINE q == Taken(App)
<1>0. /\ TypeOK /\ app \in AppType /\ queue \in Queues /\ App \in Loops
      /\ engine \in [Engines -> EngineType] /\ conn \in [Connections -> ConnectionType]
  BY TypeParts DEF Typed, Loops
<1>1. /\ Task("close_app", App, App) /\ Drained(App) /\ mode' = mode
      /\ \/ app' = Proceeds(app, conn, engine) /\ queue' = q /\ UNCHANGED <<engine, conn>>
         \/ /\ engine' = CloseAsync(engine, Listed(engine))
            /\ queue' = ClosePosted(q, Listed(engine))
            /\ conn' = Shut(conn, Orphans(conn))
            /\ app' = [app EXCEPT !.endpoint = IF @ = "open" THEN "closing" ELSE @]
  BY DEF CloseAppTask
<1>2. q \in Queues
  BY <1>0, <1>1, Takes
<1> HIDE DEF q
<1>3. /\ app' \in AppType /\ queue' \in Queues
      /\ engine' \in [Engines -> EngineType]
      /\ \A d \in Engines : engine'[d].waits = engine[d].waits
      /\ conn' \in [Connections -> ConnectionType]
      /\ \A c \in Connections : conn'[c].to = conn[c].to /\ conn'[c].at = conn[c].at
  <2>1. CASE app' = Proceeds(app, conn, engine) /\ queue' = q /\ UNCHANGED <<engine, conn>>
    BY <1>0, <1>2, <2>1, ProceedsOK
  <2>2. CASE /\ engine' = CloseAsync(engine, Listed(engine))
             /\ queue' = ClosePosted(q, Listed(engine))
             /\ conn' = Shut(conn, Orphans(conn))
             /\ app' = [app EXCEPT !.endpoint = IF @ = "open" THEN "closing" ELSE @]
    <3>1. app' \in AppType
      BY <1>0, <2>2 DEF AppType
    <3>2. Listed(engine) \in SUBSET Engines
      BY DEF Listed
    <3>3. queue' \in Queues
      BY <1>2, <2>2, <3>2, ClosesTyped
    <3>4. /\ engine' \in [Engines -> EngineType]
          /\ \A d \in Engines : engine'[d].waits = engine[d].waits
      BY <1>0, <2>2, CloseTyped
    <3>5. /\ conn' \in [Connections -> ConnectionType]
          /\ \A c \in Connections : conn'[c].to = conn[c].to /\ conn'[c].at = conn[c].at
      BY <1>0, <2>2, ShutTyped
    <3> QED
      BY <3>1, <3>3, <3>4, <3>5
  <2> QED
    BY <1>1, <2>1, <2>2
<1>4. draining' \in [Loops -> BOOLEAN]
  BY <1>0, <1>1, <1>3, DrainsNext
<1> QED
  BY <1>1, <1>3, <1>4, TypedStep

-----------------------------------------------------------------------------
(* The invariant. *)

LEMMA InitOK ==
    ASSUME Init
    PROVE  IInv
<1>1. /\ app \in AppType /\ app.state = "running" /\ app.deinits = 0
      /\ app.endpoint = (IF mode.endpoint THEN "open" ELSE "none")
      /\ app.loop = "up" /\ mode \in Modes
  BY DEF Init, AppType
<1>2. /\ \A e \in Engines :
           /\ engine[e].st = "none" /\ ~engine[e].closing /\ engine[e].ctx = "none"
           /\ engine[e].inMsgs = <<>> /\ engine[e].waits = None /\ engine[e].stops = 0
      /\ \A c \in Connections :
           /\ conn[c].at = "none" /\ conn[c].to = None /\ conn[c].hop = "no" /\ conn[c].first = "cmd"
           /\ ~conn[c].rest /\ ~conn[c].shut /\ ~conn[c].pshut /\ ~conn[c].eof
           /\ conn[c].stream = "none"
  BY DEF Init
<1>3. TypeOK
  <2>1. <<>> \in Seq(Messages) /\ <<>> \in Seq(Tasks)
    OBVIOUS
  <2>2. engine \in [Engines -> EngineType]
    BY <2>1 DEF Init, EngineType
  <2>3. conn \in [Connections -> ConnectionType]
    BY DEF Init, ConnectionType
  <2>4. queue \in Queues /\ draining \in [Loops -> BOOLEAN]
    BY <2>1 DEF Init, Queues
  <2> QED
    BY <1>1, <2>2, <2>3, <2>4, TypeParts
<1>4. \A l \in Loops : Len(queue[l]) = 0
  BY DEF Init
<1>5. /\ \A l \in Loops : \A u : ~In(queue, l, u)
      /\ \A l \in Loops : \A u, s : ~Behind(queue, l, u, s)
  BY <1>4 DEF In, Behind
<1>6. Ordered(queue)
  BY <1>5 DEF Ordered
<1>7. TasksOK
  BY <1>5 DEF TasksOK, MoveTasksOK, GraphTasksOK
<1>8. AppOK
  BY <1>1, <1>2 DEF AppOK
<1>9. \A c \in Connections : ConnectionOK(c)
  BY <1>2 DEF ConnectionOK, Attached, Way
<1>10. \A e \in Engines : EngineOK(e)
  <2> TAKE e \in Engines
  <2>1. Len(engine[e].inMsgs) = 0
    BY <1>2
  <2> QED
    BY <1>2, <2>1 DEF EngineOK
<1>11. Calm
  <2>1. \A c \in Connections : ~OnItsWay(c)
    BY <1>2 DEF OnItsWay
  <2> QED
    BY <2>1 DEF Calm
<1> QED
  BY <1>3, <1>6, <1>7, <1>8, <1>9, <1>10, <1>11 DEF IInv

LEMMA TypedInit ==
    ASSUME Init
    PROVE  Typed
<1>1. TypeOK
  BY InitOK DEF IInv
<1> QED
  BY <1>1 DEF Init, Typed

LEMMA TypedNext ==
    ASSUME Typed, [Next]_vars
    PROVE  Typed'
<1>0. App \in Loops /\ \A e \in Engines : e \in Loops
  BY DEF Loops
<1>1. ASSUME NEW l \in Loops, NEW c \in Connections, ProtoClose(l, c) \/ Cleaned(l, c)
      PROVE  Typed'
  BY <1>1, ConnectionTyped
<1>2. ASSUME NEW l \in Loops, NEW e \in Engines,
             InMsgs(l, e) \/ CloseEngine(l, e) \/ ContextClosed(l, e) \/ EngineClosed(e)
      PROVE  Typed'
  BY <1>2, InMsgsTyped, ClosingTyped
<1>3. CASE AppTasks
  <2>1. ASSUME NEW c \in Connections, Accepted(c) \/ Clean(c) PROVE Typed'
    BY <1>0, <2>1, ConnectionTyped
  <2> QED
    BY <1>0, <1>1, <1>2, <1>3, <2>1, CloseAppTaskTyped DEF AppTasks
<1>4. CASE Ends \/ Owners
  BY <1>4, AppTyped, OwnersTyped DEF Owners
<1>5. ASSUME NEW e \in Engines, EngineTasks(e) \/ EngineEnds(e) PROVE Typed'
  BY <1>0, <1>1, <1>2, <1>5, EngineEndsTyped DEF EngineTasks
<1>6. ASSUME NEW c \in Connections, Callbacks(c) PROVE Typed'
  <2>1. ASSUME SocketSent(c) \/ StreamCleaned(c) PROVE Typed'
    BY <1>0, <2>1, ConnectionTyped
  <2>2. ASSUME NEW e \in Engines, PipeReady(e, c) PROVE Typed'
    BY <1>0, <2>2, ConnectionTyped
  <2> QED
    BY <1>6, <2>1, <2>2, GoneTyped, MigrationTyped DEF Callbacks
<1>7. ASSUME NEW c \in Connections, Clients(c) PROVE Typed'
  <2>1. ASSUME Connect(c) \/ Disconnect(c) \/ GraphNotFound(c) PROVE Typed'
    BY <1>0, <2>1, ConnectionTyped
  <2> QED
    BY <1>7, <2>1, FirstTyped DEF Clients
<1>8. CASE UNCHANGED vars
  BY <1>8 DEF vars, Typed, TypeOK
<1> QED
  BY <1>3, <1>4, <1>5, <1>6, <1>7, <1>8 DEF Next

LEMMA NextOK ==
    ASSUME ~Races, IInv, [Next]_vars
    PROVE  IInv'
<1>0. App \in Loops /\ \A e \in Engines : e \in Loops
  BY DEF Loops
<1>1. CASE AppTasks
  <2>1. ASSUME NEW c \in Connections, Accepted(c) \/ ProtoClose(App, c) \/ Clean(c) \/ Cleaned(App, c)
        PROVE  IInv'
    BY <1>0, <2>1, AcceptedStep, ProtoCloseStep, CleanStep, CleanedStep
  <2>2. ASSUME NEW e \in Engines,
               InMsgs(App, e) \/ CloseEngine(App, e) \/ ContextClosed(App, e) \/ EngineClosed(e)
        PROVE  IInv'
    BY <1>0, <2>2, InMsgsStep, CloseEngineStep, ContextClosedStep, EngineClosedStep
  <2>3. ASSUME CloseAppTask PROVE IInv'
    BY <2>3, NothingToClose, ClosesAllStep
  <2> QED
    BY <1>1, <2>1, <2>2, <2>3 DEF AppTasks
<1>2. CASE Ends
  BY <1>2, EndsStep
<1>3. CASE Owners
  BY <1>3, CloseAppStep, StartPredefinedStep, StopGraphStep DEF Owners
<1>4. ASSUME NEW e \in Engines, EngineTasks(e) PROVE IInv'
  <2>1. ASSUME NEW c \in Connections, ProtoClose(e, c) \/ Cleaned(e, c) PROVE IInv'
    BY <1>0, <2>1, ProtoCloseStep, CleanedStep
  <2>2. ASSUME InMsgs(e, e) \/ CloseEngine(e, e) \/ ContextClosed(e, e) PROVE IInv'
    BY <1>0, <2>2, InMsgsStep, CloseEngineStep, ContextClosedStep
  <2> QED
    BY <1>4, <2>1, <2>2 DEF EngineTasks
<1>5. ASSUME NEW e \in Engines, EngineEnds(e) PROVE IInv'
  BY <1>5, EngineEndsStep
<1>6. ASSUME NEW c \in Connections, Callbacks(c) PROVE IInv'
  <2>1. ASSUME SocketSent(c) \/ StreamCleaned(c) \/ OrphanClosed(c) \/ RemoteClosed(c) PROVE IInv'
    <3>1. ASSUME SocketSent(c) PROVE IInv'
      <4>1. PICK e \in Engines : TRUE
        <5>1. conn[c].hop \in Way /\ ConnectionOK(c)
          BY <3>1 DEF SocketSent, Way, IInv
        <5> QED
          BY <5>1 DEF ConnectionOK
      <4> QED
        BY <3>1, <4>1, PipeReadyStep
    <3> QED
      BY <2>1, <3>1, StreamCleanedStep, OrphanClosedStep, RemoteClosedStep
  <2>2. ASSUME NEW e \in Engines, PipeReady(e, c) \/ StreamMigrated(e, c) \/ MigrationDone(e, c)
        PROVE  IInv'
    BY <2>2, PipeReadyStep, StreamMigratedStep, MigrationDoneStep
  <2> QED
    BY <1>6, <2>1, <2>2 DEF Callbacks
<1>7. ASSUME NEW c \in Connections, Clients(c) PROVE IInv'
  <2>1. ASSUME Connect(c) \/ Disconnect(c) \/ GraphNotFound(c) \/ FirstClosesApp(c) PROVE IInv'
    BY <2>1, ConnectStep, DisconnectStep, GraphNotFoundStep, FirstClosesAppStep
  <2>2. ASSUME NEW e \in Engines, NEW rest \in BOOLEAN, FirstToEngine(c, e, rest) PROVE IInv'
    BY <2>2, FirstToEngineStep
  <2> QED
    BY <1>7, <2>1, <2>2 DEF Clients
<1>8. CASE UNCHANGED vars
  <2>1. UNCHANGED <<mode, engine, conn, draining>> /\ app' = app /\ queue' = queue
    BY <1>8 DEF vars
  <2>2. /\ app' \in AppType /\ AppOK' /\ queue' \in Queues /\ Ordered(queue')
        /\ \A l \in Loops : In(queue', l, TaskFor("close_app", App)) =>
             l = App /\ ToClose(app')
    BY <2>1, TypeParts DEF IInv, TasksOK, AppOK
  <2>3. Calm'
    BY <2>1 DEF IInv, Calm, OnItsWay, Doomed
  <2>4. /\ \A l \in Loops : \A u : u # TaskFor("close_app", App) => (In(queue', l, u) <=> In(queue, l, u))
        /\ \A l \in Loops : \A u, s :
             AllBehind(queue, l, u, s) /\ u # TaskFor("close_app", App) => AllBehind(queue', l, u, s)
    BY <2>1
  <2> QED
    BY <2>1, <2>2, <2>3, <2>4, AppStep
<1> QED
  BY <1>1, <1>2, <1>3, <1>4, <1>5, <1>6, <1>7, <1>8 DEF Next

\* With Races = FALSE all the queues, connections, engines and the app fit
\* together.
THEOREM Invariant ==
    ASSUME ~Races
    PROVE  Spec => []IInv
<1>1. Init => IInv
  BY InitOK
<1>2. IInv /\ [Next]_vars => IInv'
  BY NextOK
<1> QED
  BY <1>1, <1>2, PTL DEF Spec

\* The state has its type, whatever clients do and however the app is configured.
\* So a task that is posted is one of those above and about a connection or a
\* graph that exists, and the end of a connection that an engine has is told to
\* that engine (ten_engine_on_connection_closed, engine/internal/migration.c:128).
THEOREM TypeCorrect == Spec => []TypeOK
<1>1. Init => Typed
  BY TypedInit
<1>2. Typed /\ [Next]_vars => Typed'
  BY TypedNext
<1>3. Typed => TypeOK
  BY DEF Typed
<1> QED
  BY <1>1, <1>2, <1>3, PTL DEF Spec

\* With Races = FALSE an app that listens calls on_deinit once, however the news
\* of the last ends come together (app/close.c:96-140).
THEOREM DeinitOnceHolds ==
    ASSUME ~Races
    PROVE  Spec => []DeinitOnce
<1>1. IInv => DeinitOnce
  BY DEF IInv, AppOK, DeinitOnce
<1> QED
  BY <1>1, Invariant, PTL

\* With Races = FALSE, when the app calls on_deinit no connection of it is left,
\* in whatever list or in none, no engine, and no open endpoint.
THEOREM EndsCleanHolds ==
    ASSUME ~Races
    PROVE  Spec => []EndsClean
<1>1. ASSUME IInv PROVE EndsClean
  <2> SUFFICES ASSUME app.deinits > 0
               PROVE  /\ \A c \in Connections : conn[c].at \in {"none", "gone"}
                      /\ \A e \in Engines : engine[e].st \in {"none", "gone"}
                      /\ app.endpoint # "open"
    BY DEF EndsClean
  <2>1. /\ app.state # "running" /\ app.endpoint \in {"none", "closed"}
        /\ Orphans(conn) = {} /\ Listed(engine) = {}
        /\ \A c \in Connections : ~OnItsWay(c)
    BY <1>1 DEF IInv, AppOK, Calm
  <2>2. /\ engine \in [Engines -> EngineType] /\ conn \in [Connections -> ConnectionType]
    BY <1>1, TypeParts DEF IInv
  <2>3. \A e \in Engines : engine[e].st \in {"none", "gone"}
    BY <2>1, <2>2 DEF Listed, EngineType
  <2>4. ASSUME NEW c \in Connections PROVE conn[c].at \in {"none", "gone"}
    <3>1. conn[c].at \notin {"accepting", "moving", "engine", "app"}
      BY <2>1 DEF OnItsWay, Orphans
    <3>2. conn[c].at # "remote"
      BY <1>1, <2>3 DEF IInv, ConnectionOK
    <3> QED
      BY <2>2, <3>1, <3>2 DEF ConnectionType
  <2> QED
    BY <2>1, <2>3, <2>4
<1> QED
  BY <1>1, Invariant, PTL

\* With Races = FALSE a task, a message or a migration never meets a connection
\* or an engine that has been destroyed: the tasks that clean a connection (app/migration.c:65,
\* connection/migration.c:119) and those of an engine hold plain pointers.
THEOREM NothingDanglesHolds ==
    ASSUME ~Races
    PROVE  Spec => []NothingDangles
<1>1. ASSUME IInv PROVE NothingDangles
  <2>1. /\ queue \in Queues /\ engine \in [Engines -> EngineType]
        /\ \A c \in Connections : ConnectionOK(c)
        /\ \A e \in Engines : EngineOK(e)
        /\ \A l \in Loops : /\ \A c \in Connections : MoveTasksOK(l, c)
                            /\ \A e \in Engines : GraphTasksOK(l, e)
    BY <1>1, TypeParts DEF IInv, TasksOK
  <2>2. ASSUME NEW l \in Loops, NEW i \in DOMAIN queue[l]
        PROVE  /\ queue[l][i].run \in {"accepted", "clean", "cleaned"} => conn[queue[l][i].on].at # "gone"
               /\ queue[l][i].run \in GraphTasks => engine[queue[l][i].on].st # "gone"
    <3> DEFINE t == queue[l][i]
    <3>1. t \in Tasks /\ i \in 1 .. Len(queue[l])
      BY <2>1 DEF Queues
    <3>2. In(queue, l, t)
      BY <3>1 DEF In
    <3> HIDE DEF t
    <3>3. CASE t.run \in MoveTasks
      <4>1. t.on \in Connections /\ t = TaskFor(t.run, t.on)
        BY <3>1, <3>3 DEF Tasks, TaskFor, MoveTasks, GraphTasks
      <4>2. MoveTasksOK(l, t.on) /\ In(queue, l, TaskFor(t.run, t.on))
        BY <2>1, <3>2, <4>1
      <4>3. t.run \in {"accepted", "clean", "cleaned"} => conn[t.on].at # "gone"
        BY <4>2 DEF MoveTasksOK, Attached
      <4> QED
        BY <3>3, <4>3 DEF MoveTasks, GraphTasks, t
    <3>4. CASE t.run \in GraphTasks
      <4>1. t.on \in Engines /\ t = TaskFor(t.run, t.on)
        BY <3>1, <3>4 DEF Tasks, TaskFor, MoveTasks, GraphTasks
      <4>2. GraphTasksOK(l, t.on) /\ In(queue, l, TaskFor(t.run, t.on))
        BY <2>1, <3>2, <4>1
      <4>3. engine[t.on].st # "gone"
        BY <3>4, <4>2 DEF GraphTasksOK, GraphTasks
      <4> QED
        BY <3>4, <4>3 DEF MoveTasks, GraphTasks, t
    <3> QED
      BY <3>3, <3>4 DEF MoveTasks, t
  <2>3. ASSUME NEW e \in Engines, NEW i \in DOMAIN engine[e].inMsgs, engine[e].inMsgs[i].from # None
        PROVE  conn[engine[e].inMsgs[i].from].at # "gone"
    <3>1. i \in 1 .. Len(engine[e].inMsgs)
      BY <2>1 DEF EngineType
    <3> QED
      BY <2>1, <2>3, <3>1 DEF EngineOK
  <2>4. ASSUME NEW c \in Connections, conn[c].hop \in {"asked", "prepared", "sent", "waited"}
        PROVE  conn[c].at # "gone" /\ engine[conn[c].to].st \in {"up", "stopping"}
    <3>1. conn[c].at # "gone" /\ conn[c].to \in Engines /\ OnItsWay(c)
      BY <2>1, <2>4 DEF ConnectionOK, Way, OnItsWay
    <3> QED
      BY <1>1, <3>1 DEF IInv, Calm
  <2> QED
    BY <2>2, <2>3, <2>4 DEF NothingDangles
<1> QED
  BY <1>1, Invariant, PTL

\* With Races = FALSE what a client sent behind its first message is handed on
\* when the first one was handled, if only clients of graphs with a loop of their
\* own send several messages at once (otherwise connection/migration.c:65 posts the rest, and only
\* then is the first message queued, app/msg_interface/common.c:38).
THEOREM RestBehindFirstHolds ==
    ASSUME ~Races, BatchesMigrate
    PROVE  Spec => []RestBehindFirst
<1>1. ASSUME IInv PROVE RestBehindFirst
  <2> SUFFICES ASSUME NEW l \in Loops, queue[l] # <<>>,
                      Head(queue[l]).run = "cleaned", conn[Head(queue[l]).on].rest,
                      conn[Head(queue[l]).on].at = "engine"
               PROVE  FALSE
    BY DEF RestBehindFirst
  <2> DEFINE t == Head(queue[l])
             c == t.on
  <2>1. /\ queue[l] \in Seq(Tasks) /\ mode \in Modes
        /\ \A x \in Connections : ConnectionOK(x) /\ MoveTasksOK(l, x)
    BY <1>1, TypeParts DEF IInv, TasksOK, Queues
  <2>2. t \in Tasks /\ 1 \in 1 .. Len(queue[l]) /\ queue[l][1] = t
    BY <2>1
  <2> HIDE DEF t
  <2>3. t.run = "cleaned"
    BY DEF t
  <2>4. c \in Connections /\ t = TaskFor("cleaned", c)
    BY <2>2, <2>3 DEF Tasks, TaskFor, MoveTasks, GraphTasks
  <2>5. conn[c].rest /\ conn[c].at = "engine"
    BY DEF t
  <2> HIDE DEF c
  <2>6. conn[c].to \in Engines /\ mode.own
    BY <2>1, <2>4, <2>5 DEF ConnectionOK, BatchesMigrate
  <2>7. AllBehind(queue, conn[c].to, TaskFor("cleaned", c), TaskFor("in_msgs", conn[c].to))
    BY <2>1, <2>4, <2>5, <2>6 DEF ConnectionOK
  <2>8. l = conn[c].to
    <3>1. In(queue, l, TaskFor("cleaned", c))
      BY <2>2, <2>4 DEF In
    <3> QED
      BY <2>1, <2>4, <2>5, <2>6, <3>1 DEF MoveTasksOK, AttachedLoop, LoopOf
  <2>9. PICK i \in 1 .. (1 - 1) : queue[l][i] = TaskFor("in_msgs", conn[c].to)
    BY <2>2, <2>4, <2>7, <2>8 DEF AllBehind
  <2> QED
    BY <2>9
<1> QED
  BY <1>1, Invariant, PTL
=============================================================================

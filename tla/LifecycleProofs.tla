-------------------------- MODULE LifecycleProofs --------------------------
(***************************************************************************)
(* What is proved of the life of a graph, for any number of threads and    *)
(* extensions and for a close at any moment: the close finds each thread   *)
(* in a state it can deal with, the count of deleted extensions is right,  *)
(* everything is taken down in order, and every extension lives the life   *)
(* that ExtensionLife describes.                                           *)
(*                                                                         *)
(* The inductive invariant IInv says which tasks can be under way in which *)
(* state of a thread (TasksOK), how far the extensions of a thread can be  *)
(* (StagesOK, ExtensionsOK, GoingOK), and what the engine knows (EngineOK).*)
(* A queue is seen through the set of its tasks, which suffices because no *)
(* task is ever in a queue twice (QueuesOK).                               *)
(***************************************************************************)
EXTENDS Lifecycle, FiniteSetTheorems, TLAPS

Elements(q) == {q[i] : i \in 1 .. Len(q)}

\* No two places of q hold the same.
NoTwice(q) == \A i, j \in 1 .. Len(q) : q[i] = q[j] => i = j

Tasks(t) == Elements(threadQueue[t])
TasksOfEngine == Elements(engineQueue)

QueuesOK ==
    /\ \A t \in Thread : NoTwice(threadQueue[t])
    /\ NoTwice(engineQueue)

\* The extensions of t have been created and are in its list.
Complete(t) == ExtOf(t) \subseteq created /\ ExtOf(t) \subseteq extensions

\* No extension of t is left.
Empty(t) == \A e \in ExtOf(t) : e \notin created

\* What a task that is under way says of its thread.
ThreadTasksOK(t) ==
    /\ "triggering_close" \in Tasks(t) =>
          contextClosing /\ t \notin isCloseTriggered
    /\ t \in isCloseTriggered => contextClosing
    /\ "handle_start_msg" \in Tasks(t) =>
          /\ threadState[t] \in {"INIT", "CLOSED"}
          /\ "group_on_init_done" \notin Tasks(t)
    /\ "group_on_init_done" \in Tasks(t) =>
          threadState[t] \in {"INIT", "CLOSED"}
    /\ FindInfoTask(t) \in TasksOfEngine =>
          /\ threadState[t] = "CREATING_EXTENSIONS" /\ Complete(t)
          /\ "start_life_cycle" \notin Tasks(t)
          /\ "stop_life_cycle" \notin Tasks(t)
    /\ "start_life_cycle" \in Tasks(t) =>
          /\ threadState[t] = "CREATING_EXTENSIONS" /\ Complete(t)
          /\ "stop_life_cycle" \notin Tasks(t)
    /\ "stop_life_cycle" \in Tasks(t) =>
          /\ threadState[t] = "CREATING_EXTENSIONS" /\ Complete(t)
          /\ t \in isCloseTriggered
    /\ "all_extensions_deleted" \in Tasks(t) =>
          threadState[t] = "PREPARE_TO_CLOSE" /\ Empty(t)
    /\ "group_on_deinit_done" \in Tasks(t) =>
          /\ threadState[t] \in {"INIT", "PREPARE_TO_CLOSE"}
          /\ t \in isCloseTriggered /\ Empty(t)
          /\ "all_extensions_deleted" \notin Tasks(t)
    /\ ThreadClosedTask(t) \in TasksOfEngine => threadState[t] = "CLOSED"

TasksOK == \A t \in Thread : ThreadTasksOK(t)

\* What the state of a thread says of the thread and of its extensions.
ThreadStagesOK(t) ==
    /\ threadState[t] = "INIT" =>
          Empty(t) /\ \A e \in ExtOf(t) : stage[e] = "new"
    /\ threadState[t] = "CREATING_EXTENSIONS" =>
          \A e \in ExtOf(t) : stage[e] = "new" /\ e \notin destroying
    /\ threadState[t] = "NORMAL" =>
          /\ t \notin isCloseTriggered /\ Complete(t)
          /\ \A e \in ExtOf(t) :
                /\ stage[e] \in {"on_configure", "on_init", "on_start"}
                /\ asked[e] \subseteq {stage[e]}
    /\ threadState[t] = "PREPARE_TO_CLOSE" =>
          /\ t \in isCloseTriggered
          /\ \A e \in ExtOf(t) :
                /\ stage[e] \in {"on_stop", "on_deinit", "destroyed"}
                /\ e \in created <=> stage[e] # "destroyed"
          /\ ~Empty(t) => ExtOf(t) \subseteq extensions
    /\ threadState[t] = "CLOSED" =>
          /\ t \in isCloseTriggered /\ Empty(t)
          /\ \A e \in ExtOf(t) : stage[e] \in {"new", "destroyed"}

StagesOK == \A t \in Thread : ThreadStagesOK(t)

\* What the state of an extension says of its last callback.
ExtensionsOK ==
    \A e \in Ext :
        /\ stage[e] = "new" => asked[e] = {} /\ state[e] = "INIT"
        /\ stage[e] = "destroyed" => asked[e] = {} /\ state[e] = "ON_DEINIT_DONE"
        /\ "on_stop" \in asked[e] => stage[e] = "on_stop"
        /\ state[e] = "ON_STOP_DONE" =>
              stage[e] = "on_stop" /\ "on_stop" \notin asked[e]
        /\ state[e] = "ON_DEINIT" => stage[e] = "on_deinit"
        /\ state[e] = "ON_DEINIT_DONE" => stage[e] \in {"on_deinit", "destroyed"}

\* Once one extension of a thread goes, all of them do.
GoingOK ==
    \A e \in Ext :
        e \in destroying \/ stage[e] = "destroyed" =>
            \A x \in ExtOf(ThreadOf[e]) :
                /\ state[x] = "ON_DEINIT_DONE"
                /\ x \in created => x \in destroying

\* The engine has counted the threads that told it that they are closed.
ClosedThreads ==
    {t \in Thread : threadState[t] = "CLOSED"
                    /\ ThreadClosedTask(t) \notin TasksOfEngine}

EngineOK ==
    /\ CloseTask \in TasksOfEngine => isClosing
    /\ cntOfClosed = Cardinality(ClosedThreads)
    /\ groups # Thread => \A t \in Thread : threadState[t] = "CLOSED"
    /\ engineClosed => groups = {} /\ isClosing

IInv ==
    /\ TypeOK
    /\ QueuesOK
    /\ TasksOK
    /\ StagesOK
    /\ ExtensionsOK
    /\ GoingOK
    /\ CountsMatch
    /\ EngineOK

-----------------------------------------------------------------------------
\* Queues.

LEMMA TaskKinds ==
    /\ CloseTask \in EngineTasks
    /\ \A t \in Thread :
          /\ {FindInfoTask(t), ThreadClosedTask(t)} \subseteq EngineTasks \ {CloseTask}
          /\ \A u \in Thread :
                /\ FindInfoTask(t) # ThreadClosedTask(u)
                /\ FindInfoTask(t) = FindInfoTask(u) => t = u
                /\ ThreadClosedTask(t) = ThreadClosedTask(u) => t = u
<1>1. /\ CloseTask.task = "close"
      /\ \A t \in Thread : /\ FindInfoTask(t).task = "find_extension_info"
                           /\ FindInfoTask(t).of = t
                           /\ ThreadClosedTask(t).task = "extension_thread_closed"
                           /\ ThreadClosedTask(t).of = t
  BY DEF CloseTask, FindInfoTask, ThreadClosedTask
<1> QED  BY <1>1 DEF EngineTasks

\* Taking the first task of a queue.
LEMMA Taken ==
    ASSUME NEW S, NEW q \in Seq(S), q # <<>>, NoTwice(q)
    PROVE  /\ Tail(q) \in Seq(S)
           /\ NoTwice(Tail(q))
           /\ Head(q) \in Elements(q)
           /\ Elements(Tail(q)) = Elements(q) \ {Head(q)}
<1>1. /\ Len(q) \in Nat \ {0} /\ Tail(q) \in Seq(S) /\ Len(Tail(q)) = Len(q) - 1
      /\ \A i \in 1 .. Len(q) - 1 : Tail(q)[i] = q[i + 1]
      /\ Head(q) = q[1]
  OBVIOUS
<1>2. NoTwice(Tail(q))
  <2> SUFFICES ASSUME NEW i \in 1 .. Len(q) - 1, NEW j \in 1 .. Len(q) - 1,
                      q[i + 1] = q[j + 1]
               PROVE  i = j
    BY <1>1 DEF NoTwice
  <2>1. i + 1 \in 1 .. Len(q) /\ j + 1 \in 1 .. Len(q)
    BY <1>1
  <2> QED  BY <2>1 DEF NoTwice
<1>3. Elements(Tail(q)) \subseteq Elements(q) \ {Head(q)}
  <2> SUFFICES ASSUME NEW i \in 1 .. Len(q) - 1
               PROVE  q[i + 1] \in Elements(q) \ {q[1]}
    BY <1>1 DEF Elements
  <2>1. i + 1 \in 1 .. Len(q) /\ 1 \in 1 .. Len(q) /\ i + 1 # 1
    BY <1>1
  <2> QED  BY <2>1 DEF Elements, NoTwice
<1>4. Elements(q) \ {Head(q)} \subseteq Elements(Tail(q))
  <2> SUFFICES ASSUME NEW i \in 1 .. Len(q), q[i] # q[1]
               PROVE  q[i] \in Elements(Tail(q))
    BY <1>1 DEF Elements
  <2>1. i - 1 \in 1 .. Len(Tail(q)) /\ Tail(q)[i - 1] = q[i]
    <3>1. i # 1 /\ Len(q) \in Nat
      BY <1>1
    <3>2. i - 1 \in 1 .. Len(q) - 1 /\ (i - 1) + 1 = i
      BY <3>1
    <3> QED  BY <1>1, <3>2
  <2> QED  BY <2>1 DEF Elements
<1>5. Head(q) \in Elements(q)
  BY <1>1 DEF Elements
<1> QED  BY <1>1, <1>2, <1>3, <1>4, <1>5

\* Adding a task at the end.
LEMMA Added ==
    ASSUME NEW S, NEW q \in Seq(S), NEW x \in S, NoTwice(q), x \notin Elements(q)
    PROVE  /\ Append(q, x) \in Seq(S)
           /\ NoTwice(Append(q, x))
           /\ Elements(Append(q, x)) = Elements(q) \cup {x}
<1>1. /\ Len(q) \in Nat /\ Append(q, x) \in Seq(S)
      /\ Len(Append(q, x)) = Len(q) + 1
      /\ \A i \in 1 .. Len(q) : Append(q, x)[i] = q[i]
      /\ Append(q, x)[Len(q) + 1] = x
  OBVIOUS
<1>2. NoTwice(Append(q, x))
  BY <1>1 DEF NoTwice, Elements
<1>3. Elements(Append(q, x)) = Elements(q) \cup {x}
  BY <1>1 DEF Elements
<1> QED  BY <1>1, <1>2, <1>3

\* A thread takes a task, and perhaps posts another to itself.
LEMMA RunTakes ==
    ASSUME TypeOK, QueuesOK, NEW t \in Thread, NEW task, Run(t, task, <<>>)
    PROVE  /\ threadState[t] # "CLOSED" /\ task \in Tasks(t)
           /\ Tasks(t)' = Tasks(t) \ {task}
           /\ \A u \in Thread : u # t => Tasks(u)' = Tasks(u)
           /\ threadQueue' \in [Thread -> Seq(ThreadTasks)]
           /\ \A u \in Thread : NoTwice(threadQueue'[u])
<1> DEFINE q == threadQueue[t]
<1>1. q \in Seq(ThreadTasks) /\ q # <<>> /\ NoTwice(q) /\ Head(q) = task
  BY DEF TypeOK, QueuesOK, Run
<1>2. Tail(q) \in Seq(ThreadTasks) /\ Tail(q) \o <<>> = Tail(q)
  BY <1>1
<1>3. threadQueue' = [threadQueue EXCEPT ![t] = Tail(q)]
  BY <1>2 DEF Run
<1> HIDE DEF q
<1> QED  BY <1>1, <1>3, Taken DEF TypeOK, QueuesOK, Run, Tasks, q

LEMMA RunPosts ==
    ASSUME TypeOK, QueuesOK, NEW t \in Thread, NEW task, NEW x \in ThreadTasks,
           Run(t, task, <<x>>), x \notin Tasks(t)
    PROVE  /\ threadState[t] # "CLOSED" /\ task \in Tasks(t)
           /\ Tasks(t)' = (Tasks(t) \ {task}) \cup {x}
           /\ \A u \in Thread : u # t => Tasks(u)' = Tasks(u)
           /\ threadQueue' \in [Thread -> Seq(ThreadTasks)]
           /\ \A u \in Thread : NoTwice(threadQueue'[u])
<1> DEFINE q == threadQueue[t]
           r == Tail(q)
<1>1. q \in Seq(ThreadTasks) /\ q # <<>> /\ NoTwice(q) /\ Head(q) = task
  BY DEF TypeOK, QueuesOK, Run
<1>2. r \in Seq(ThreadTasks) /\ r \o <<x>> = Append(r, x)
  BY <1>1
<1>3. threadQueue' = [threadQueue EXCEPT ![t] = Append(r, x)]
  BY <1>2 DEF Run
<1>4. /\ NoTwice(r) /\ Elements(r) = Elements(q) \ {task}
      /\ task \in Elements(q)
  <2> HIDE DEF q
  <2> QED  BY <1>1, Taken
<1> HIDE DEF q, r
<1>5. x \notin Elements(r)
  BY <1>4 DEF Tasks, q
<1>6. /\ Append(r, x) \in Seq(ThreadTasks) /\ NoTwice(Append(r, x))
      /\ Elements(Append(r, x)) = Elements(r) \cup {x}
  BY <1>2, <1>4, <1>5, Added
<1> QED  BY <1>3, <1>4, <1>6 DEF TypeOK, QueuesOK, Run, Tasks, q

\* Somebody else posts a task to a thread.
LEMMA PostAdds ==
    ASSUME TypeOK, QueuesOK, NEW t \in Thread, NEW x \in ThreadTasks,
           Post(t, x), x \notin Tasks(t)
    PROVE  /\ Tasks(t)' = Tasks(t) \cup {x}
           /\ \A u \in Thread : u # t => Tasks(u)' = Tasks(u)
           /\ threadQueue' \in [Thread -> Seq(ThreadTasks)]
           /\ \A u \in Thread : NoTwice(threadQueue'[u])
<1> DEFINE q == threadQueue[t]
<1>1. q \in Seq(ThreadTasks) /\ NoTwice(q) /\ x \notin Elements(q)
  BY DEF TypeOK, QueuesOK, Tasks
<1>2. threadQueue' = [threadQueue EXCEPT ![t] = Append(q, x)]
  BY DEF Post
<1> HIDE DEF q
<1>3. /\ Append(q, x) \in Seq(ThreadTasks) /\ NoTwice(Append(q, x))
      /\ Elements(Append(q, x)) = Elements(q) \cup {x}
  BY <1>1, Added
<1> QED  BY <1>2, <1>3 DEF TypeOK, QueuesOK, Tasks, q

\* The engine takes a task, or is posted one.
LEMMA EngineTakes ==
    ASSUME TypeOK, QueuesOK, NEW task, EngineRun(task)
    PROVE  /\ task \in TasksOfEngine /\ TasksOfEngine' = TasksOfEngine \ {task}
           /\ engineQueue' \in Seq(EngineTasks) /\ NoTwice(engineQueue')
BY Taken DEF TypeOK, QueuesOK, EngineRun, TasksOfEngine

LEMMA EngineGets ==
    ASSUME TypeOK, QueuesOK, NEW x \in EngineTasks, PostToEngine(x),
           x \notin TasksOfEngine
    PROVE  /\ TasksOfEngine' = TasksOfEngine \cup {x}
           /\ engineQueue' \in Seq(EngineTasks) /\ NoTwice(engineQueue')
BY Added DEF TypeOK, QueuesOK, PostToEngine, TasksOfEngine

-----------------------------------------------------------------------------
\* What a step leaves as it is.

LEMMA CountsKept ==
    ASSUME CountsMatch, cntOfDeleted' = cntOfDeleted,
           \A e \in Ext : state'[e] = "ON_DEINIT_DONE" <=> state[e] = "ON_DEINIT_DONE"
    PROVE  CountsMatch'
<1>1. ASSUME NEW t \in Thread
      PROVE  {e \in ExtOf(t) : state'[e] = "ON_DEINIT_DONE"}
                 = {e \in ExtOf(t) : state[e] = "ON_DEINIT_DONE"}
  BY DEF ExtOf
<1> QED  BY <1>1 DEF CountsMatch, ExtOf

LEMMA QueuesKept ==
    ASSUME QueuesOK, UNCHANGED <<threadQueue, engineQueue>>
    PROVE  /\ QueuesOK' /\ TasksOfEngine' = TasksOfEngine
           /\ \A t \in Thread : Tasks(t)' = Tasks(t)
BY DEF QueuesOK, Tasks, TasksOfEngine, NoTwice

\* A step of the code of an extension, or of one of its helpers.
LEMMA ExtensionOnly ==
    ASSUME IInv, UNCHANGED <<threadVars, created, extensions, engineVars>>
    PROVE  QueuesOK' /\ TasksOK' /\ EngineOK'
<1>1. /\ QueuesOK' /\ TasksOfEngine' = TasksOfEngine
      /\ \A t \in Thread : Tasks(t)' = Tasks(t)
  BY QueuesKept DEF IInv, threadVars, engineVars
<1>2. \A t \in Thread : Complete(t)' = Complete(t) /\ Empty(t)' = Empty(t)
  BY DEF Complete, Empty, ExtOf
<1>3. TasksOK'
  BY <1>1, <1>2 DEF IInv, TasksOK, ThreadTasksOK, threadVars, engineVars
<1>4. EngineOK'
  <2>1. ClosedThreads' = ClosedThreads
    BY <1>1 DEF ClosedThreads, threadVars
  <2> QED  BY <1>1, <2>1 DEF IInv, EngineOK, threadVars, engineVars
<1> QED  BY <1>1, <1>3, <1>4

\* The engine's count of closed threads.
LEMMA EngineKept ==
    ASSUME EngineOK, UNCHANGED <<isClosing, cntOfClosed, groups, engineClosed>>,
           \A t \in Thread : threadState'[t] = "CLOSED" <=> threadState[t] = "CLOSED",
           \A t \in Thread :
              ThreadClosedTask(t) \in TasksOfEngine' <=> ThreadClosedTask(t) \in TasksOfEngine,
           CloseTask \in TasksOfEngine' => CloseTask \in TasksOfEngine
    PROVE  EngineOK'
<1>1. ClosedThreads' = ClosedThreads
  BY DEF ClosedThreads
<1> QED  BY <1>1 DEF EngineOK

\* The thread's part of TasksOK and StagesOK.
LEMMA TasksKept ==
    ASSUME NEW t \in Thread, ThreadTasksOK(t), threadState'[t] = threadState[t],
           t \in isCloseTriggered' <=> t \in isCloseTriggered,
           contextClosing => contextClosing',
           Tasks(t)' \subseteq Tasks(t),
           FindInfoTask(t) \in TasksOfEngine' => FindInfoTask(t) \in TasksOfEngine,
           ThreadClosedTask(t) \in TasksOfEngine' => ThreadClosedTask(t) \in TasksOfEngine,
           \A e \in ExtOf(t) : e \in created' <=> e \in created,
           \A e \in ExtOf(t) : e \in extensions => e \in extensions'
    PROVE  ThreadTasksOK(t)'
<1>1. (Complete(t) => Complete(t)') /\ Empty(t)' = Empty(t)
  BY DEF Complete, Empty, ExtOf
<1> QED  BY <1>1 DEF ThreadTasksOK

LEMMA StagesKept ==
    ASSUME NEW t \in Thread, ThreadStagesOK(t), threadState'[t] = threadState[t],
           t \in isCloseTriggered' <=> t \in isCloseTriggered,
           \A e \in ExtOf(t) :
              /\ stage'[e] = stage[e] /\ asked'[e] \subseteq asked[e]
              /\ e \in created' <=> e \in created
              /\ e \in extensions => e \in extensions'
              /\ threadState[t] = "CREATING_EXTENSIONS" =>
                    (e \in destroying' => e \in destroying)
    PROVE  ThreadStagesOK(t)'
<1>1. (Complete(t) => Complete(t)') /\ Empty(t)' = Empty(t)
  BY DEF Complete, Empty, ExtOf
<1>2. ExtOf(t) \subseteq extensions => ExtOf(t) \subseteq extensions'
  BY DEF ExtOf
<1> QED  BY <1>1, <1>2 DEF ThreadStagesOK, ExtOf

\* A step that only moves tasks about.
LEMMA OnlyQueues ==
    ASSUME IInv, UNCHANGED <<threadState, isCloseTriggered, created, cntOfDeleted,
                             destroying, state, asked, stage>>,
           extensions \subseteq extensions'
    PROVE  StagesOK' /\ ExtensionsOK' /\ GoingOK' /\ CountsMatch'
<1>1. StagesOK'
  BY StagesKept DEF IInv, StagesOK, ExtOf
<1>2. ExtensionsOK' /\ GoingOK'
  BY DEF IInv, ExtensionsOK, GoingOK, ExtOf
<1> QED  BY <1>1, <1>2, CountsKept DEF IInv

\* An extension that is being closed gets one callback further.
LEMMA StageMoved ==
    ASSUME StagesOK, NEW e \in Ext, stage[e] = "on_stop",
           stage'[e] \in {"on_stop", "on_deinit"},
           \A x \in Ext : x # e => UNCHANGED <<asked[x], stage[x]>>,
           UNCHANGED <<threadState, isCloseTriggered, created, extensions, destroying>>
    PROVE  StagesOK'
<1>1. ASSUME NEW t \in Thread
      PROVE  ThreadStagesOK(t)'
  <2>1. CASE e \in ExtOf(t)
    <3>1. Complete(t)' = Complete(t) /\ Empty(t)' = Empty(t)
      BY DEF Complete, Empty, ExtOf
    <3> QED  BY <2>1, <3>1 DEF StagesOK, ThreadStagesOK, ExtOf
  <2>2. CASE e \notin ExtOf(t)
    BY <2>2, StagesKept DEF StagesOK, ExtOf
  <2> QED  BY <2>1, <2>2
<1> QED  BY <1>1 DEF StagesOK

\* What extensions are asked for, and what they answer.
CallsOK ==
    /\ asked \in [Ext -> SUBSET Callbacks]
    /\ stage \in [Ext -> Callbacks \cup {"new", "destroyed"}]

LEMMA Answers ==
    ASSUME NEW e \in Ext, NEW callback \in Callbacks, CallsOK, Answer(e, callback)
    PROVE  /\ CallsOK' /\ callback \in asked[e]
           /\ asked'[e] = asked[e] \ {callback} /\ stage' = stage
           /\ \A x \in Ext : x # e => asked'[x] = asked[x]
BY DEF Answer, CallsOK

LEMMA AnswersAndCalls ==
    ASSUME NEW e \in Ext, NEW callback \in Callbacks, NEW next \in Callbacks,
           CallsOK, AnswerAndCall(e, callback, next)
    PROVE  /\ CallsOK' /\ callback \in asked[e]
           /\ asked'[e] = (asked[e] \ {callback}) \cup {next} /\ stage'[e] = next
           /\ \A x \in Ext : x # e => asked'[x] = asked[x] /\ stage'[x] = stage[x]
BY DEF AnswerAndCall, CallsOK

LEMMA Calls ==
    ASSUME NEW E \in SUBSET Ext, NEW callback \in Callbacks, CallsOK,
           Call(E, callback)
    PROVE  /\ CallsOK'
           /\ \A e \in E : /\ asked'[e] = asked[e] \cup {callback}
                           /\ stage'[e] = callback
           /\ \A e \in Ext \ E : asked'[e] = asked[e] /\ stage'[e] = stage[e]
BY DEF Call, CallsOK

-----------------------------------------------------------------------------
\* What the code of an extension may call.

LEMMA OnConfigureDoneStep ==
    ASSUME NEW e \in Ext, IInv, OnConfigureDone(e)
    PROVE  IInv'
<1> USE DEF IInv
<1>1. QueuesOK' /\ TasksOK' /\ EngineOK'
  BY ExtensionOnly DEF OnConfigureDone, groupVars
<1>2. TypeOK'
  <2>1. Answer(e, "on_configure") \/ AnswerAndCall(e, "on_configure", "on_init")
    BY DEF OnConfigureDone
  <2>2. /\ \/ state' = state
           \/ state' = [state EXCEPT ![e] = "ON_CONFIGURE_DONE"]
        /\ \/ pathTimers' = pathTimers
           \/ pathTimers' = [pathTimers EXCEPT ![e] = 2]
    BY DEF OnConfigureDone
  <2>3. state' \in [Ext -> ExtensionStates] /\ pathTimers' \in [Ext -> 0 .. 2]
    <3>1. state \in [Ext -> ExtensionStates] /\ pathTimers \in [Ext -> 0 .. 2]
      BY DEF TypeOK
    <3> QED  BY <2>2, <3>1 DEF ExtensionStates
  <2>4. /\ asked' \in [Ext -> SUBSET Callbacks]
        /\ stage' \in [Ext -> Callbacks \cup {"new", "destroyed"}]
    BY <2>1, Answers, AnswersAndCalls DEF TypeOK, CallsOK, Callbacks
  <2> QED  BY <2>3, <2>4 DEF OnConfigureDone, TypeOK, threadVars, groupVars, engineVars
<1>3. /\ "on_configure" \in asked[e]
      /\ asked'[e] \subseteq (asked[e] \ {"on_configure"}) \cup {"on_init"}
      /\ \A x \in Ext : x # e => UNCHANGED <<state[x], asked[x], stage[x]>>
      /\ \/ stage'[e] = stage[e] /\ asked'[e] = asked[e] \ {"on_configure"}
         \/ /\ stage'[e] = "on_init" /\ ThreadOf[e] \notin isCloseTriggered
            /\ state[e] = "INIT"
            /\ asked'[e] = (asked[e] \ {"on_configure"}) \cup {"on_init"}
      /\ state'[e] = IF state[e] = "INIT" THEN "ON_CONFIGURE_DONE" ELSE state[e]
  BY DEF OnConfigureDone, AnswerAndCall, Answer, Closing, TypeOK
<1>4. /\ ThreadOf[e] \in Thread /\ e \in ExtOf(ThreadOf[e])
      /\ ThreadStagesOK(ThreadOf[e]) /\ threadState[ThreadOf[e]] \in ThreadStates
  BY GraphAssumption DEF ExtOf, StagesOK, TypeOK
<1>5. threadState[ThreadOf[e]] \in {"NORMAL", "PREPARE_TO_CLOSE"}
  <2>1. stage[e] \notin {"new", "destroyed"}
    BY <1>3 DEF ExtensionsOK
  <2> QED  BY <1>4, <2>1 DEF ThreadStates, ThreadStagesOK
<1>6. ThreadOf[e] \notin isCloseTriggered =>
          threadState[ThreadOf[e]] = "NORMAL" /\ stage[e] = "on_configure"
  BY <1>3, <1>4, <1>5 DEF ThreadStagesOK
<1>7. StagesOK'
  <2> SUFFICES ASSUME NEW t \in Thread
               PROVE  ThreadStagesOK(t)'
    BY DEF StagesOK
  <2>1. Complete(t)' = Complete(t) /\ Empty(t)' = Empty(t)
    BY DEF OnConfigureDone, Complete, Empty, ExtOf, groupVars
  <2>2. CASE t = ThreadOf[e]
    BY <1>3, <1>4, <1>5, <1>6, <2>1, <2>2
       DEF OnConfigureDone, StagesOK, ThreadStagesOK, ExtOf, threadVars, groupVars
  <2>3. CASE t # ThreadOf[e]
    BY <1>3, <2>3, StagesKept DEF OnConfigureDone, StagesOK, ExtOf, threadVars,
                                  groupVars
  <2> QED  BY <2>2, <2>3
<1>8. ExtensionsOK'
  BY <1>3, <1>6 DEF ExtensionsOK
<1>9. GoingOK'
  BY <1>3, <1>6 DEF OnConfigureDone, GoingOK, ExtOf, groupVars
<1>10. CountsMatch'
  BY <1>3, CountsKept DEF OnConfigureDone, groupVars
<1> QED  BY <1>1, <1>2, <1>7, <1>8, <1>9, <1>10

LEMMA OnInitDoneStep ==
    ASSUME NEW e \in Ext, IInv, OnInitDone(e)
    PROVE  IInv'
<1> USE DEF IInv
<1>1. QueuesOK' /\ TasksOK' /\ EngineOK'
  BY ExtensionOnly DEF OnInitDone, groupVars
<1>2. TypeOK'
  <2>1. Answer(e, "on_init") \/ AnswerAndCall(e, "on_init", "on_start")
    BY DEF OnInitDone
  <2>2. \/ state' = state
        \/ state' = [state EXCEPT ![e] = "ON_INIT_DONE"]
        \/ state' = [state EXCEPT ![e] = "ON_START"]
    BY DEF OnInitDone
  <2>3. state' \in [Ext -> ExtensionStates]
    <3>1. state \in [Ext -> ExtensionStates] /\ pathTimers \in [Ext -> 0 .. 2]
      BY DEF TypeOK
    <3> QED  BY <2>2, <3>1 DEF ExtensionStates
  <2>4. /\ asked' \in [Ext -> SUBSET Callbacks]
        /\ stage' \in [Ext -> Callbacks \cup {"new", "destroyed"}]
    BY <2>1, Answers, AnswersAndCalls DEF TypeOK, CallsOK, Callbacks
  <2> QED  BY <2>3, <2>4 DEF OnInitDone, TypeOK, threadVars, groupVars, engineVars
<1>3. /\ "on_init" \in asked[e]
      /\ \A x \in Ext : x # e => UNCHANGED <<state[x], asked[x], stage[x]>>
      /\ \/ stage'[e] = stage[e] /\ asked'[e] = asked[e] \ {"on_init"}
         \/ /\ stage'[e] = "on_start" /\ ThreadOf[e] \notin isCloseTriggered
            /\ state[e] = "ON_CONFIGURE_DONE"
            /\ asked'[e] = (asked[e] \ {"on_init"}) \cup {"on_start"}
      /\ \/ state'[e] = state[e]
         \/ /\ state[e] = "ON_CONFIGURE_DONE"
            /\ state'[e] \in {"ON_INIT_DONE", "ON_START"}
  BY DEF OnInitDone, AnswerAndCall, Answer, Closing, TypeOK
<1>4. /\ ThreadOf[e] \in Thread /\ e \in ExtOf(ThreadOf[e])
      /\ ThreadStagesOK(ThreadOf[e]) /\ threadState[ThreadOf[e]] \in ThreadStates
  BY GraphAssumption DEF ExtOf, StagesOK, TypeOK
<1>5. threadState[ThreadOf[e]] \in {"NORMAL", "PREPARE_TO_CLOSE"}
  <2>1. stage[e] \notin {"new", "destroyed"}
    BY <1>3 DEF ExtensionsOK
  <2> QED  BY <1>4, <2>1 DEF ThreadStates, ThreadStagesOK
<1>6. ThreadOf[e] \notin isCloseTriggered =>
          threadState[ThreadOf[e]] = "NORMAL" /\ stage[e] = "on_init"
  BY <1>3, <1>4, <1>5 DEF ThreadStagesOK
<1>7. StagesOK'
  <2> SUFFICES ASSUME NEW t \in Thread
               PROVE  ThreadStagesOK(t)'
    BY DEF StagesOK
  <2>1. Complete(t)' = Complete(t) /\ Empty(t)' = Empty(t)
    BY DEF OnInitDone, Complete, Empty, ExtOf, groupVars
  <2>2. CASE t = ThreadOf[e]
    BY <1>3, <1>4, <1>5, <1>6, <2>1, <2>2
       DEF OnInitDone, StagesOK, ThreadStagesOK, ExtOf, threadVars, groupVars
  <2>3. CASE t # ThreadOf[e]
    BY <1>3, <2>3, StagesKept DEF OnInitDone, StagesOK, ExtOf, threadVars, groupVars
  <2> QED  BY <2>2, <2>3
<1>8. ExtensionsOK'
  BY <1>3, <1>6 DEF ExtensionsOK
<1>9. GoingOK'
  BY <1>3, <1>6 DEF OnInitDone, GoingOK, ExtOf, groupVars
<1>10. CountsMatch'
  BY <1>3, CountsKept DEF OnInitDone, groupVars
<1> QED  BY <1>1, <1>2, <1>7, <1>8, <1>9, <1>10

LEMMA OnStartDoneStep ==
    ASSUME NEW e \in Ext, IInv, OnStartDone(e)
    PROVE  IInv'
<1> USE DEF IInv
<1>1. QueuesOK' /\ TasksOK' /\ EngineOK'
  BY ExtensionOnly DEF OnStartDone, groupVars
<1>2. TypeOK'
  BY DEF OnStartDone, Answer, TypeOK, threadVars, groupVars, engineVars,
         ExtensionStates
<1>3. /\ UNCHANGED stage
      /\ "on_start" \in asked[e] /\ asked'[e] = asked[e] \ {"on_start"}
      /\ \A x \in Ext : x # e => UNCHANGED <<state[x], asked[x]>>
      /\ \/ state'[e] = state[e]
         \/ state[e] = "ON_START" /\ state'[e] = "ON_START_DONE"
  BY DEF OnStartDone, Answer, TypeOK
<1>4. StagesOK'
  BY <1>3, StagesKept DEF OnStartDone, StagesOK, ExtOf, threadVars, groupVars
<1>5. ExtensionsOK'
  BY <1>3 DEF ExtensionsOK
<1>6. GoingOK'
  BY <1>3 DEF OnStartDone, GoingOK, ExtOf, groupVars
<1>7. CountsMatch'
  BY <1>3, CountsKept DEF OnStartDone, groupVars
<1> QED  BY <1>1, <1>2, <1>4, <1>5, <1>6, <1>7

LEMMA OnStopDoneStep ==
    ASSUME NEW e \in Ext, IInv, OnStopDone(e)
    PROVE  IInv'
<1> USE DEF IInv
<1>1. QueuesOK' /\ TasksOK' /\ EngineOK'
  BY ExtensionOnly DEF OnStopDone, groupVars
<1>2. Answer(e, "on_stop") \/ AnswerAndCall(e, "on_stop", "on_deinit")
  BY DEF OnStopDone
<1>3. \/ /\ Answer(e, "on_stop")
         /\ \/ state' = state
            \/ /\ state[e] = "ON_START_DONE"
               /\ state' = [state EXCEPT ![e] = "ON_STOP_DONE"]
      \/ /\ AnswerAndCall(e, "on_stop", "on_deinit")
         /\ state[e] = "ON_START_DONE"
         /\ state' = [state EXCEPT ![e] = "ON_DEINIT"]
  BY DEF OnStopDone
<1>4. CallsOK /\ state \in [Ext -> ExtensionStates] /\ "on_stop" \in Callbacks
      /\ "on_deinit" \in Callbacks
  BY DEF TypeOK, CallsOK, Callbacks
<1>5. TypeOK'
  <2>1. CallsOK'
    BY <1>2, <1>4, Answers, AnswersAndCalls
  <2>2. state' \in [Ext -> ExtensionStates]
    BY <1>3, <1>4 DEF ExtensionStates
  <2> QED  BY <2>1, <2>2
              DEF OnStopDone, TypeOK, CallsOK, threadVars, groupVars, engineVars
<1>6. /\ "on_stop" \in asked[e] /\ stage[e] = "on_stop"
      /\ \A x \in Ext : x # e => UNCHANGED <<state[x], asked[x], stage[x]>>
      /\ \/ /\ stage'[e] = stage[e] /\ asked'[e] = asked[e] \ {"on_stop"}
            /\ \/ state'[e] = state[e]
               \/ state[e] = "ON_START_DONE" /\ state'[e] = "ON_STOP_DONE"
         \/ /\ stage'[e] = "on_deinit"
            /\ asked'[e] = (asked[e] \ {"on_stop"}) \cup {"on_deinit"}
            /\ state[e] = "ON_START_DONE" /\ state'[e] = "ON_DEINIT"
  BY <1>3, <1>4, Answers, AnswersAndCalls DEF ExtensionsOK
<1>7. StagesOK'
  BY <1>6, StageMoved DEF OnStopDone, StagesOK, threadVars, groupVars
<1>8. ExtensionsOK'
  BY <1>6 DEF ExtensionsOK
<1>9. GoingOK'
  BY <1>6 DEF OnStopDone, GoingOK, ExtOf, groupVars
<1>10. CountsMatch'
  BY <1>6, CountsKept DEF OnStopDone, groupVars
<1> QED  BY <1>1, <1>5, <1>7, <1>8, <1>9, <1>10

LEMMA OnTimerClosedStep ==
    ASSUME NEW e \in Ext, IInv, OnTimerClosed(e)
    PROVE  IInv'
<1> USE DEF IInv
<1>1. QueuesOK' /\ TasksOK' /\ EngineOK'
  BY ExtensionOnly DEF OnTimerClosed, groupVars
<1>2. /\ CallsOK /\ state \in [Ext -> ExtensionStates]
      /\ pathTimers \in [Ext -> 0 .. 2] /\ "on_deinit" \in Callbacks
  BY DEF TypeOK, CallsOK, Callbacks
<1>3. \/ UNCHANGED <<asked, stage, state>>
      \/ /\ Call({e}, "on_deinit")
         /\ state' = [state EXCEPT ![e] = "ON_DEINIT"]
  BY DEF OnTimerClosed
<1>4. CallsOK'
  BY <1>2, <1>3, Calls DEF CallsOK
<1>5. state' \in [Ext -> ExtensionStates] /\ pathTimers' \in [Ext -> 0 .. 2]
  BY <1>2, <1>3 DEF OnTimerClosed, ExtensionStates
<1>6. TypeOK'
  BY <1>4, <1>5 DEF OnTimerClosed, TypeOK, CallsOK, threadVars, groupVars, engineVars
<1>7. /\ state[e] = "ON_STOP_DONE" /\ stage[e] = "on_stop"
      /\ "on_stop" \notin asked[e]
      /\ \A x \in Ext : x # e => UNCHANGED <<state[x], asked[x], stage[x]>>
      /\ \/ UNCHANGED <<stage[e], asked[e], state[e]>>
         \/ /\ stage'[e] = "on_deinit" /\ state'[e] = "ON_DEINIT"
            /\ asked'[e] = asked[e] \cup {"on_deinit"}
  <2>1. Call({e}, "on_deinit") =>
            /\ stage'[e] = "on_deinit" /\ asked'[e] = asked[e] \cup {"on_deinit"}
            /\ \A x \in Ext : x # e => asked'[x] = asked[x] /\ stage'[x] = stage[x]
    BY <1>2 DEF Call, CallsOK
  <2>2. state[e] = "ON_STOP_DONE"
    BY DEF OnTimerClosed
  <2> QED  BY <1>2, <1>3, <2>1, <2>2 DEF ExtensionsOK
<1>8. StagesOK'
  BY <1>7, StageMoved DEF OnTimerClosed, StagesOK, threadVars, groupVars
<1>9. ExtensionsOK'
  BY <1>7 DEF ExtensionsOK
<1>10. GoingOK'
  BY <1>7 DEF OnTimerClosed, GoingOK, ExtOf, groupVars
<1>11. CountsMatch'
  BY <1>7, CountsKept DEF OnTimerClosed, groupVars
<1> QED  BY <1>1, <1>6, <1>8, <1>9, <1>10, <1>11

\* An extension is done with on_deinit: all its thread's extensions are, once
\* the count says so.
LEMMA DeinitDoneStep ==
    ASSUME NEW e \in Ext, IInv, DeinitDone(e), state[e] = "ON_DEINIT",
           UNCHANGED <<threadVars, created, extensions, stage>>,
           \A x \in Ext : asked'[x] \subseteq asked[x]
    PROVE  /\ StagesOK' /\ ExtensionsOK' /\ GoingOK' /\ CountsMatch'
           /\ state' \in [Ext -> ExtensionStates]
           /\ cntOfDeleted' \in [Thread -> Nat]
           /\ destroying' \subseteq created'
<1> USE DEF IInv
<1> DEFINE t == ThreadOf[e]
           Done == {x \in ExtOf(t) : state[x] = "ON_DEINIT_DONE"}
<1>1. /\ t \in Thread /\ e \in ExtOf(t) /\ ThreadStagesOK(t) /\ threadState[t] \in ThreadStates
      /\ ExtOf(t) \subseteq Ext
  BY GraphAssumption DEF ExtOf, StagesOK, TypeOK
<1>2. /\ state \in [Ext -> ExtensionStates] /\ cntOfDeleted \in [Thread -> Nat]
      /\ destroying \subseteq created
  BY DEF TypeOK
<1>3. /\ state' = [state EXCEPT ![e] = "ON_DEINIT_DONE"]
      /\ cntOfDeleted' = [cntOfDeleted EXCEPT ![t] = @ + 1]
  BY DEF DeinitDone
<1>4. /\ state' \in [Ext -> ExtensionStates] /\ cntOfDeleted' \in [Thread -> Nat]
      /\ state'[e] = "ON_DEINIT_DONE"
      /\ \A x \in Ext : x # e => state'[x] = state[x]
      /\ cntOfDeleted'[t] = cntOfDeleted[t] + 1
      /\ \A u \in Thread : u # t => cntOfDeleted'[u] = cntOfDeleted[u]
  BY <1>1, <1>2, <1>3 DEF ExtensionStates
<1>5. /\ stage[e] = "on_deinit" /\ threadState[t] = "PREPARE_TO_CLOSE"
      /\ e \in created
  <2>1. stage[e] = "on_deinit"
    BY DEF ExtensionsOK
  <2> QED  BY <1>1, <2>1 DEF ThreadStagesOK, ThreadStates
<1>6. \A x \in ExtOf(t) : stage[x] # "destroyed" /\ x \in created /\ x \notin destroying
  <2>1. ASSUME NEW x \in ExtOf(t)
        PROVE  x \notin destroying /\ stage[x] # "destroyed"
    <3>1. x \in Ext /\ ThreadOf[x] = t
      BY DEF ExtOf
    <3> QED  BY <1>1, <3>1 DEF GoingOK
  <2> QED  BY <1>1, <1>5, <2>1 DEF ThreadStagesOK
<1>7. extensions \cap ExtOf(t) = ExtOf(t)
  BY <1>1, <1>5 DEF ThreadStagesOK, Empty
<1>8. IsFiniteSet(ExtOf(t)) /\ IsFiniteSet(Done) /\ IsFiniteSet(Done \cup {e})
      /\ e \notin Done /\ Done \cup {e} \subseteq ExtOf(t)
  <2>1. e \notin Done /\ Done \cup {e} \subseteq ExtOf(t)
    BY <1>1
  <2>2. IsFiniteSet(ExtOf(t))
    BY <1>1, GraphAssumption, FS_Subset
  <2> QED  BY <2>1, <2>2, FS_Subset
<1>9. /\ cntOfDeleted[t] = Cardinality(Done)
      /\ Cardinality(Done \cup {e}) = Cardinality(Done) + 1
  BY <1>1, <1>8, FS_AddElement DEF CountsMatch
<1>10. {x \in ExtOf(t) : state'[x] = "ON_DEINIT_DONE"} = Done \cup {e}
  BY <1>1, <1>4
<1>11. CountsMatch'
  <2>1. ASSUME NEW u \in Thread, u # t
        PROVE  {x \in ExtOf(u) : state'[x] = "ON_DEINIT_DONE"}
                   = {x \in ExtOf(u) : state[x] = "ON_DEINIT_DONE"}
    BY <1>4, <2>1 DEF ExtOf
  <2>2. ASSUME NEW u \in Thread
        PROVE  cntOfDeleted'[u] =
                   Cardinality({x \in ExtOf(u) : state'[x] = "ON_DEINIT_DONE"})
    <3>1. CASE u = t
      BY <1>4, <1>9, <1>10, <3>1
    <3>2. CASE u # t
      BY <1>4, <2>1, <3>2 DEF CountsMatch
    <3> QED  BY <3>1, <3>2
  <2> QED  BY <2>2 DEF CountsMatch, ExtOf
<1>12. \/ destroying' = destroying
       \/ /\ destroying' = destroying \cup ExtOf(t)
          /\ cntOfDeleted'[t] = Cardinality(ExtOf(t))
  BY <1>7 DEF DeinitDone
<1>13. destroying' \subseteq created'
  BY <1>2, <1>6, <1>12
<1>14. GoingOK'
  <2>1. CASE destroying' = destroying
    BY <1>4, <2>1 DEF GoingOK, ExtOf
  <2>2. CASE /\ destroying' = destroying \cup ExtOf(t)
             /\ cntOfDeleted'[t] = Cardinality(ExtOf(t))
    <3>1. Done \cup {e} = ExtOf(t)
      BY <1>4, <1>8, <1>9, <2>2, FS_Subset
    <3>2. \A x \in ExtOf(t) : state'[x] = "ON_DEINIT_DONE"
      BY <1>10, <3>1
    <3>3. ASSUME NEW x \in Ext, x \in destroying' \/ stage'[x] = "destroyed",
                 NEW y \in ExtOf(ThreadOf[x])
          PROVE  state'[y] = "ON_DEINIT_DONE" /\ (y \in created' => y \in destroying')
      <4>1. CASE ThreadOf[x] = t
        BY <2>2, <3>2, <3>3, <4>1
      <4>2. CASE ThreadOf[x] # t
        BY <1>4, <2>2, <3>3, <4>2 DEF GoingOK, ExtOf
      <4> QED  BY <4>1, <4>2
    <3> QED  BY <3>3 DEF GoingOK, ExtOf
  <2> QED  BY <1>12, <2>1, <2>2
<1>15. ExtensionsOK'
  BY <1>4, <1>5 DEF ExtensionsOK
<1>16. StagesOK'
  <2>1. ASSUME NEW u \in Thread
        PROVE  ThreadStagesOK(u)'
    <3>1. threadState[u] = "CREATING_EXTENSIONS" =>
             \A x \in ExtOf(u) : x \in destroying' => x \in destroying
      BY <1>5, <1>12 DEF ExtOf
    <3> QED  BY <3>1, StagesKept DEF StagesOK, ExtOf, threadVars
  <2> QED  BY <2>1 DEF StagesOK
<1> QED  BY <1>4, <1>11, <1>13, <1>14, <1>15, <1>16

LEMMA OnDeinitDoneStep ==
    ASSUME NEW e \in Ext, IInv, OnDeinitDone(e)
    PROVE  IInv'
<1> USE DEF IInv
<1>1. QueuesOK' /\ TasksOK' /\ EngineOK'
  BY ExtensionOnly DEF OnDeinitDone
<1>2. CallsOK /\ "on_deinit" \in Callbacks /\ Answer(e, "on_deinit")
  BY DEF TypeOK, CallsOK, Callbacks, OnDeinitDone
<1>3. /\ CallsOK' /\ stage' = stage
      /\ \A x \in Ext : asked'[x] \subseteq asked[x]
  BY <1>2, Answers
<1>4. CASE UNCHANGED <<state, cntOfDeleted, destroying>>
  <2>1. TypeOK'
    BY <1>3, <1>4 DEF OnDeinitDone, TypeOK, CallsOK, threadVars, engineVars
  <2>2. StagesOK'
    BY <1>3, <1>4, StagesKept DEF OnDeinitDone, StagesOK, ExtOf, threadVars
  <2>3. ExtensionsOK'
    BY <1>3, <1>4 DEF ExtensionsOK
  <2>4. GoingOK'
    BY <1>3, <1>4 DEF OnDeinitDone, GoingOK, ExtOf
  <2>5. CountsMatch'
    BY <1>4, CountsKept
  <2> QED  BY <1>1, <2>1, <2>2, <2>3, <2>4, <2>5
<1>5. CASE DeinitDone(e) /\ state[e] = "ON_DEINIT"
  <2>1. /\ StagesOK' /\ ExtensionsOK' /\ GoingOK' /\ CountsMatch'
        /\ state' \in [Ext -> ExtensionStates]
        /\ cntOfDeleted' \in [Thread -> Nat]
        /\ destroying' \subseteq created'
    BY <1>3, <1>5, DeinitDoneStep DEF OnDeinitDone
  <2>2. TypeOK'
    BY <1>3, <2>1 DEF OnDeinitDone, TypeOK, CallsOK, threadVars, engineVars
  <2> QED  BY <1>1, <2>1, <2>2
<1> QED  BY <1>4, <1>5 DEF OnDeinitDone

LEMMA CreateProxyStep ==
    ASSUME NEW e \in Ext, IInv, CreateProxy(e)
    PROVE  IInv'
<1> USE DEF IInv
<1>1. QueuesOK' /\ TasksOK' /\ EngineOK'
  BY ExtensionOnly DEF CreateProxy, groupVars
<1>2. TypeOK'
  <2>1. proxies \in [Ext -> 0 .. MaxProxies] /\ proxies[e] < MaxProxies
        /\ proxies' = [proxies EXCEPT ![e] = @ + 1]
    BY DEF CreateProxy, TypeOK
  <2>2. proxies' \in [Ext -> 0 .. MaxProxies]
    BY <2>1, SettingAssumption
  <2> QED  BY <2>2 DEF CreateProxy, TypeOK, threadVars, groupVars, engineVars
<1>3. StagesOK'
  BY StagesKept DEF CreateProxy, StagesOK, ExtOf, threadVars, groupVars
<1>4. ExtensionsOK'
  BY DEF CreateProxy, ExtensionsOK
<1>5. GoingOK'
  BY DEF CreateProxy, GoingOK, ExtOf, groupVars
<1>6. CountsMatch'
  BY CountsKept DEF CreateProxy, groupVars
<1> QED  BY <1>1, <1>2, <1>3, <1>4, <1>5, <1>6

LEMMA DeleteProxyStep ==
    ASSUME NEW e \in Ext, IInv, DeleteProxy(e)
    PROVE  IInv'
<1> USE DEF IInv
<1>1. QueuesOK' /\ TasksOK' /\ EngineOK'
  BY ExtensionOnly DEF DeleteProxy
<1>2. proxies' \in [Ext -> 0 .. MaxProxies]
  <2>1. proxies \in [Ext -> 0 .. MaxProxies] /\ proxies[e] > 0
        /\ proxies' = [proxies EXCEPT ![e] = @ - 1]
    BY DEF DeleteProxy, TypeOK
  <2> QED  BY <2>1, SettingAssumption
<1>3. CASE UNCHANGED <<state, cntOfDeleted, destroying>>
  <2>1. TypeOK'
    BY <1>2, <1>3 DEF DeleteProxy, TypeOK, threadVars, engineVars
  <2>2. StagesOK'
    BY <1>3, StagesKept DEF DeleteProxy, StagesOK, ExtOf, threadVars
  <2>3. ExtensionsOK'
    BY <1>3 DEF DeleteProxy, ExtensionsOK
  <2>4. GoingOK'
    BY <1>3 DEF DeleteProxy, GoingOK, ExtOf
  <2>5. CountsMatch'
    BY <1>3, CountsKept
  <2> QED  BY <1>1, <2>1, <2>2, <2>3, <2>4, <2>5
<1>4. CASE DeinitDone(e) /\ state[e] = "ON_DEINIT"
  <2>1. /\ StagesOK' /\ ExtensionsOK' /\ GoingOK' /\ CountsMatch'
        /\ state' \in [Ext -> ExtensionStates]
        /\ cntOfDeleted' \in [Thread -> Nat]
        /\ destroying' \subseteq created'
    BY <1>4, DeinitDoneStep DEF DeleteProxy
  <2>2. TypeOK'
    BY <1>2, <2>1 DEF DeleteProxy, TypeOK, threadVars, engineVars
  <2> QED  BY <1>1, <2>1, <2>2
<1> QED  BY <1>3, <1>4 DEF DeleteProxy

-----------------------------------------------------------------------------
\* The tasks of the threads.

LEMMA HandleStartMsgStep ==
    ASSUME NEW t \in Thread, IInv, HandleStartMsg(t)
    PROVE  IInv'
<1> USE DEF IInv
<1>1. ThreadTasksOK(t) /\ Run(t, "handle_start_msg", <<"group_on_init_done">>)
  BY DEF HandleStartMsg, TasksOK
<1>2. "handle_start_msg" \in Tasks(t)
  BY <1>1, Taken DEF TypeOK, QueuesOK, Run, Tasks
<1>3. "group_on_init_done" \in ThreadTasks \ Tasks(t)
  BY <1>1, <1>2 DEF ThreadTasksOK, ThreadTasks
<1>4. /\ threadState[t] # "CLOSED"
      /\ Tasks(t)' = (Tasks(t) \ {"handle_start_msg"}) \cup {"group_on_init_done"}
      /\ \A u \in Thread : u # t => Tasks(u)' = Tasks(u)
      /\ threadQueue' \in [Thread -> Seq(ThreadTasks)]
      /\ \A u \in Thread : NoTwice(threadQueue'[u])
  BY <1>1, <1>3, RunPosts
<1>5. TypeOK'
  BY <1>4 DEF HandleStartMsg, TypeOK, groupVars, extVars, engineVars
<1>6. QueuesOK' /\ TasksOfEngine' = TasksOfEngine
  BY <1>4 DEF HandleStartMsg, QueuesOK, TasksOfEngine, engineVars, NoTwice
<1>7. TasksOK'
  <2>1. ASSUME NEW u \in Thread, u # t
        PROVE  ThreadTasksOK(u)'
    BY <1>4, <1>6, <2>1, TasksKept DEF HandleStartMsg, TasksOK, groupVars, engineVars
  <2>2. ThreadTasksOK(t)'
    <3>1. Complete(t)' = Complete(t) /\ Empty(t)' = Empty(t)
      BY DEF HandleStartMsg, Complete, Empty, ExtOf, groupVars
    <3> QED  BY <1>1, <1>2, <1>4, <1>6, <3>1
                DEF HandleStartMsg, ThreadTasksOK, groupVars, engineVars
  <2> QED  BY <2>1, <2>2 DEF TasksOK
<1>8. StagesOK' /\ ExtensionsOK' /\ GoingOK' /\ CountsMatch'
  BY OnlyQueues DEF HandleStartMsg, groupVars, extVars
<1>9. EngineOK'
  BY <1>6, EngineKept DEF HandleStartMsg, engineVars
<1> QED  BY <1>5, <1>6, <1>7, <1>8, <1>9

LEMMA GroupOnInitDoneStep ==
    ASSUME NEW t \in Thread, IInv, GroupOnInitDone(t)
    PROVE  IInv'
<1> USE DEF IInv
<1>1. ThreadTasksOK(t) /\ Run(t, "group_on_init_done", <<>>)
  BY DEF GroupOnInitDone, TasksOK
<1>2. /\ threadState[t] # "CLOSED" /\ "group_on_init_done" \in Tasks(t)
      /\ Tasks(t)' = Tasks(t) \ {"group_on_init_done"}
      /\ \A u \in Thread : u # t => Tasks(u)' = Tasks(u)
      /\ threadQueue' \in [Thread -> Seq(ThreadTasks)]
      /\ \A u \in Thread : NoTwice(threadQueue'[u])
  BY <1>1, RunTakes
<1>3. /\ UNCHANGED <<isCloseTriggered, created, cntOfDeleted, destroying, state,
                     asked, pathTimers, proxies, stage, isClosing, contextClosing,
                     cntOfInitted, cntOfClosed, startGraph, groups, engineClosed>>
      /\ ThreadStagesOK(t) /\ ExtOf(t) \subseteq Ext
  BY DEF GroupOnInitDone, StagesOK, ExtOf, extVars
<1>4. threadState[t] = "INIT"
  BY <1>1, <1>2 DEF ThreadTasksOK
<1>5. CASE UNCHANGED <<threadState, extensions, engineQueue>>
  <2>1. TypeOK'
    BY <1>2, <1>3, <1>5 DEF TypeOK
  <2>2. QueuesOK' /\ TasksOfEngine' = TasksOfEngine
    BY <1>2, <1>5 DEF QueuesOK, TasksOfEngine, NoTwice
  <2>3. TasksOK'
    BY <1>2, <1>3, <1>5, <2>2, TasksKept DEF TasksOK
  <2>4. StagesOK' /\ ExtensionsOK' /\ GoingOK' /\ CountsMatch'
    BY <1>3, <1>5, OnlyQueues
  <2>5. EngineOK'
    BY <1>3, <1>5, <2>2, EngineKept
  <2> QED  BY <2>1, <2>2, <2>3, <2>4, <2>5
<1>6. CASE /\ t \notin isCloseTriggered
           /\ threadState' = [threadState EXCEPT ![t] = "CREATING_EXTENSIONS"]
           /\ \/ UNCHANGED <<extensions, engineQueue>>
              \/ ExtOf(t) = {} /\ CreateExtensionsDone(t)
  <2>1. /\ threadState' \in [Thread -> ThreadStates]
        /\ threadState'[t] = "CREATING_EXTENSIONS"
        /\ \A u \in Thread : u # t => threadState'[u] = threadState[u]
    BY <1>6 DEF TypeOK, ThreadStates
  <2>2. \/ /\ UNCHANGED engineQueue /\ TasksOfEngine' = TasksOfEngine
           /\ engineQueue' \in Seq(EngineTasks) /\ NoTwice(engineQueue')
        \/ /\ ExtOf(t) = {} /\ TasksOfEngine' = TasksOfEngine \cup {FindInfoTask(t)}
           /\ engineQueue' \in Seq(EngineTasks) /\ NoTwice(engineQueue')
    <3>1. CASE UNCHANGED <<extensions, engineQueue>>
      BY <3>1 DEF TypeOK, QueuesOK, TasksOfEngine, NoTwice
    <3>2. CASE ExtOf(t) = {} /\ CreateExtensionsDone(t)
      <4>1. FindInfoTask(t) \in EngineTasks /\ FindInfoTask(t) \notin TasksOfEngine
        BY <1>1, <1>4, TaskKinds DEF ThreadTasksOK
      <4> QED  BY <3>2, <4>1, EngineGets DEF CreateExtensionsDone
    <3> QED  BY <1>6, <3>1, <3>2
  <2>3. extensions' = extensions
    BY <1>6 DEF CreateExtensionsDone
  <2>4. TypeOK'
    BY <1>2, <1>3, <2>1, <2>2, <2>3 DEF TypeOK
  <2>5. QueuesOK'
    BY <1>2, <2>2 DEF QueuesOK, NoTwice
  <2>6. TasksOK'
    <3>1. ASSUME NEW u \in Thread, u # t
          PROVE  ThreadTasksOK(u)'
      BY <1>2, <1>3, <2>1, <2>2, <2>3, <3>1, TasksKept, TaskKinds DEF TasksOK
    <3>2. ThreadTasksOK(t)'
      <4>1. ExtOf(t) = {} => Complete(t)'
        BY DEF Complete, ExtOf
      <4> QED  BY <1>1, <1>2, <1>3, <1>4, <1>6, <2>1, <2>2, <4>1, TaskKinds
         DEF ThreadTasksOK
    <3> QED  BY <3>1, <3>2 DEF TasksOK
  <2>7. StagesOK'
    <3>1. ASSUME NEW u \in Thread, u # t
          PROVE  ThreadStagesOK(u)'
      BY <1>3, <2>1, <2>3, <3>1, StagesKept DEF StagesOK, ExtOf
    <3>2. ThreadStagesOK(t)'
      <4>1. \A e \in ExtOf(t) : stage[e] = "new" /\ e \notin destroying
        BY <1>3, <1>4 DEF ThreadStagesOK, Empty, TypeOK
      <4> QED  BY <1>3, <2>1, <4>1 DEF ThreadStagesOK, ExtOf
    <3> QED  BY <3>1, <3>2 DEF StagesOK
  <2>8. ExtensionsOK' /\ GoingOK' /\ CountsMatch'
    BY <1>3, CountsKept DEF ExtensionsOK, GoingOK, ExtOf
  <2>9. EngineOK'
    BY <1>3, <1>4, <2>1, <2>2, TaskKinds, EngineKept
  <2> QED  BY <2>4, <2>5, <2>6, <2>7, <2>8, <2>9
<1> QED  BY <1>5, <1>6 DEF GroupOnInitDone

LEMMA StartLifeCycleStep ==
    ASSUME NEW t \in Thread, IInv, StartLifeCycle(t)
    PROVE  IInv'
<1> USE DEF IInv
<1>1. ThreadTasksOK(t) /\ Run(t, "start_life_cycle", <<>>)
  BY DEF StartLifeCycle, TasksOK
<1>2. /\ threadState[t] # "CLOSED" /\ "start_life_cycle" \in Tasks(t)
      /\ Tasks(t)' = Tasks(t) \ {"start_life_cycle"}
      /\ \A u \in Thread : u # t => Tasks(u)' = Tasks(u)
      /\ threadQueue' \in [Thread -> Seq(ThreadTasks)]
      /\ \A u \in Thread : NoTwice(threadQueue'[u])
  BY <1>1, RunTakes
<1>3. /\ UNCHANGED <<isCloseTriggered, groupVars, state, pathTimers, proxies,
                     engineVars>>
      /\ ThreadStagesOK(t) /\ ExtOf(t) \subseteq Ext
  BY DEF StartLifeCycle, StagesOK, ExtOf
<1>4. threadState[t] = "CREATING_EXTENSIONS" /\ Complete(t)
  BY <1>1, <1>2 DEF ThreadTasksOK
<1>5. QueuesOK' /\ TasksOfEngine' = TasksOfEngine
  BY <1>2, <1>3 DEF QueuesOK, TasksOfEngine, engineVars, NoTwice
<1>6. CASE UNCHANGED <<threadState, asked, stage>>
  <2>1. TypeOK'
    BY <1>2, <1>3, <1>6 DEF TypeOK, groupVars, engineVars
  <2>2. TasksOK'
    BY <1>2, <1>3, <1>5, <1>6, TasksKept DEF TasksOK, groupVars, engineVars
  <2>3. StagesOK' /\ ExtensionsOK' /\ GoingOK' /\ CountsMatch'
    BY <1>3, <1>6, OnlyQueues DEF groupVars
  <2>4. EngineOK'
    BY <1>3, <1>5, <1>6, EngineKept DEF engineVars
  <2> QED  BY <1>5, <2>1, <2>2, <2>3, <2>4
<1>7. CASE /\ t \notin isCloseTriggered
           /\ threadState' = [threadState EXCEPT ![t] = "NORMAL"]
           /\ Call(extensions \cap ExtOf(t), "on_configure")
  <2>1. /\ threadState' \in [Thread -> ThreadStates]
        /\ threadState'[t] = "NORMAL"
        /\ \A u \in Thread : u # t => threadState'[u] = threadState[u]
    BY <1>7 DEF TypeOK, ThreadStates
  <2>2. /\ CallsOK'
        /\ \A e \in ExtOf(t) : /\ asked'[e] = asked[e] \cup {"on_configure"}
                               /\ stage'[e] = "on_configure"
        /\ \A e \in Ext \ ExtOf(t) : asked'[e] = asked[e] /\ stage'[e] = stage[e]
    <3>1. extensions \cap ExtOf(t) = ExtOf(t)
      BY <1>4 DEF Complete
    <3>2. CallsOK /\ "on_configure" \in Callbacks
      BY DEF TypeOK, CallsOK, Callbacks
    <3> QED  BY <1>3, <1>7, <3>1, <3>2, Calls
  <2>3. \A e \in ExtOf(t) : /\ stage[e] = "new" /\ asked[e] = {} /\ state[e] = "INIT"
                            /\ e \notin destroying
    BY <1>3, <1>4 DEF ThreadStagesOK, ExtensionsOK
  <2>4. TypeOK'
    BY <1>2, <1>3, <2>1, <2>2 DEF TypeOK, CallsOK, groupVars, engineVars
  <2>5. TasksOK'
    <3>1. ASSUME NEW u \in Thread, u # t
          PROVE  ThreadTasksOK(u)'
      BY <1>2, <1>3, <1>5, <2>1, <3>1, TasksKept DEF TasksOK, groupVars, engineVars
    <3>2. ThreadTasksOK(t)'
      BY <1>1, <1>2, <1>3, <1>4, <1>5, <1>7, <2>1
         DEF ThreadTasksOK, groupVars, engineVars
    <3> QED  BY <3>1, <3>2 DEF TasksOK
  <2>6. StagesOK'
    <3>1. ASSUME NEW u \in Thread, u # t
          PROVE  ThreadStagesOK(u)'
      BY <1>3, <2>1, <2>2, <3>1, StagesKept DEF StagesOK, ExtOf, groupVars
    <3>2. ThreadStagesOK(t)'
      <4>1. Complete(t)' /\ \A e \in ExtOf(t) : e \in ExtOf(t)'
        BY <1>3, <1>4 DEF Complete, ExtOf, groupVars
      <4>2. \A e \in ExtOf(t)' : /\ asked'[e] = {"on_configure"}
                                 /\ stage'[e] = "on_configure"
        BY <2>2, <2>3 DEF ExtOf
      <4> QED  BY <1>3, <1>7, <2>1, <4>1, <4>2 DEF ThreadStagesOK
    <3> QED  BY <3>1, <3>2 DEF StagesOK
  <2>7. ExtensionsOK' /\ GoingOK' /\ CountsMatch'
    <3>1. ExtensionsOK'
      BY <1>3, <2>2, <2>3 DEF ExtensionsOK
    <3>2. GoingOK'
      BY <1>3, <2>2, <2>3 DEF GoingOK, ExtOf, groupVars
    <3> QED  BY <1>3, <3>1, <3>2, CountsKept DEF groupVars
  <2>8. EngineOK'
    BY <1>3, <1>4, <1>5, <2>1, EngineKept DEF engineVars
  <2> QED  BY <1>5, <2>4, <2>5, <2>6, <2>7, <2>8
<1> QED  BY <1>6, <1>7 DEF StartLifeCycle

\* A thread begins to close its extensions, all of which exist and none of
\* which has been told to stop.
LEMMA StopLifeCycleOfStep ==
    ASSUME NEW t \in Thread, IInv, StopLifeCycleOf(t), t \in isCloseTriggered',
           threadState[t] \in {"CREATING_EXTENSIONS", "NORMAL"}, Complete(t),
           \A u \in Thread : u # t => (u \in isCloseTriggered' <=> u \in isCloseTriggered),
           UNCHANGED <<groupVars, state>>
    PROVE  /\ threadState' \in [Thread -> ThreadStates]
           /\ threadState'[t] = "PREPARE_TO_CLOSE"
           /\ \A u \in Thread : u # t => threadState'[u] = threadState[u]
           /\ CallsOK' /\ StagesOK' /\ ExtensionsOK' /\ GoingOK' /\ CountsMatch'
<1> USE DEF IInv
<1>1. ThreadStagesOK(t) /\ ExtOf(t) \subseteq Ext
  BY DEF StagesOK, ExtOf
<1>2. /\ threadState' \in [Thread -> ThreadStates]
      /\ threadState'[t] = "PREPARE_TO_CLOSE"
      /\ \A u \in Thread : u # t => threadState'[u] = threadState[u]
  BY DEF StopLifeCycleOf, TypeOK, ThreadStates
<1>3. /\ CallsOK'
      /\ \A e \in ExtOf(t) : /\ asked'[e] = asked[e] \cup {"on_stop"}
                             /\ stage'[e] = "on_stop"
      /\ \A e \in Ext \ ExtOf(t) : asked'[e] = asked[e] /\ stage'[e] = stage[e]
  <2>1. extensions \cap ExtOf(t) = ExtOf(t)
    BY DEF Complete
  <2>2. CallsOK /\ "on_stop" \in Callbacks
    BY DEF TypeOK, CallsOK, Callbacks
  <2>3. Call(ExtOf(t), "on_stop") /\ ExtOf(t) \in SUBSET Ext
    BY <1>1, <2>1 DEF StopLifeCycleOf
  <2> HIDE DEF IInv
  <2> QED  BY <2>2, <2>3, Calls
<1>4. \A e \in ExtOf(t) : stage[e] \in {"new", "on_configure", "on_init", "on_start"}
  BY <1>1 DEF ThreadStagesOK
<1>5. \A e \in ExtOf(t) :
         state[e] \notin {"ON_STOP_DONE", "ON_DEINIT", "ON_DEINIT_DONE"}
  BY <1>1, <1>4 DEF ExtensionsOK
<1>6. StagesOK'
  <2>1. ASSUME NEW u \in Thread, u # t
        PROVE  ThreadStagesOK(u)'
    BY <1>2, <1>3, <2>1, StagesKept DEF StagesOK, ExtOf, groupVars
  <2>2. ThreadStagesOK(t)'
    <3>1. \A e \in ExtOf(t)' : e \in created' /\ stage'[e] = "on_stop"
      BY <1>3 DEF Complete, ExtOf, groupVars
    <3>2. ExtOf(t)' \subseteq extensions'
      BY DEF Complete, ExtOf, groupVars
    <3> QED  BY <1>2, <3>1, <3>2 DEF ThreadStagesOK
  <2> QED  BY <2>1, <2>2 DEF StagesOK
<1>7. ExtensionsOK'
  BY <1>3, <1>5, <1>4 DEF ExtensionsOK
<1>8. GoingOK'
  BY <1>3 DEF GoingOK, ExtOf, groupVars
<1>9. CountsMatch'
  BY CountsKept DEF groupVars
<1> QED  BY <1>2, <1>3, <1>6, <1>7, <1>8, <1>9

LEMMA StopLifeCycleStep ==
    ASSUME NEW t \in Thread, IInv, StopLifeCycle(t)
    PROVE  IInv'
<1> USE DEF IInv
<1>1. ThreadTasksOK(t) /\ Run(t, "stop_life_cycle", <<>>) /\ StopLifeCycleOf(t)
  BY DEF StopLifeCycle, TasksOK
<1>2. /\ threadState[t] # "CLOSED" /\ "stop_life_cycle" \in Tasks(t)
      /\ Tasks(t)' = Tasks(t) \ {"stop_life_cycle"}
      /\ \A u \in Thread : u # t => Tasks(u)' = Tasks(u)
      /\ threadQueue' \in [Thread -> Seq(ThreadTasks)]
      /\ \A u \in Thread : NoTwice(threadQueue'[u])
  BY <1>1, RunTakes
<1>3. UNCHANGED <<isCloseTriggered, groupVars, state, pathTimers, proxies, engineVars>>
  BY DEF StopLifeCycle
<1>4. /\ threadState[t] = "CREATING_EXTENSIONS" /\ Complete(t)
      /\ t \in isCloseTriggered
  BY <1>1, <1>2 DEF ThreadTasksOK
<1>5. QueuesOK' /\ TasksOfEngine' = TasksOfEngine
  BY <1>2, <1>3 DEF QueuesOK, TasksOfEngine, engineVars, NoTwice
<1>6. /\ threadState' \in [Thread -> ThreadStates]
      /\ threadState'[t] = "PREPARE_TO_CLOSE"
      /\ \A u \in Thread : u # t => threadState'[u] = threadState[u]
      /\ CallsOK' /\ StagesOK' /\ ExtensionsOK' /\ GoingOK' /\ CountsMatch'
  BY <1>1, <1>3, <1>4, StopLifeCycleOfStep
<1>7. TypeOK'
  BY <1>2, <1>3, <1>6 DEF TypeOK, CallsOK, groupVars, engineVars
<1>8. TasksOK'
  <2>1. ASSUME NEW u \in Thread, u # t
        PROVE  ThreadTasksOK(u)'
    BY <1>2, <1>3, <1>5, <1>6, <2>1, TasksKept DEF TasksOK, groupVars, engineVars
  <2>2. ThreadTasksOK(t)'
    BY <1>1, <1>2, <1>3, <1>4, <1>5, <1>6 DEF ThreadTasksOK, groupVars, engineVars
  <2> QED  BY <2>1, <2>2 DEF TasksOK
<1>9. EngineOK'
  BY <1>3, <1>4, <1>5, <1>6, EngineKept DEF engineVars
<1> QED  BY <1>5, <1>6, <1>7, <1>8, <1>9

LEMMA TriggeringCloseStep ==
    ASSUME NEW t \in Thread, IInv, TriggeringClose(t)
    PROVE  IInv'
<1> USE DEF IInv
<1>1. /\ ThreadTasksOK(t) /\ ThreadStagesOK(t)
      /\ UNCHANGED <<groupVars, state, pathTimers, proxies, engineVars>>
      /\ isCloseTriggered' = isCloseTriggered \cup {t}
  BY DEF TriggeringClose, TasksOK, StagesOK
<1>2. /\ "triggering_close" \in Tasks(t) /\ threadState[t] # "CLOSED"
      /\ t \notin isCloseTriggered /\ contextClosing
  <2>1. threadQueue[t] # <<>> /\ Head(threadQueue[t]) = "triggering_close"
        /\ threadState[t] # "CLOSED"
    BY DEF TriggeringClose, Run
  <2>2. "triggering_close" \in Tasks(t)
    BY <2>1, Taken DEF TypeOK, QueuesOK, Tasks
  <2> QED  BY <1>1, <2>1, <2>2 DEF ThreadTasksOK
<1>3. threadState[t] \in {"INIT", "CREATING_EXTENSIONS", "NORMAL"}
  <2>1. threadState[t] \in ThreadStates
    BY DEF TypeOK
  <2> QED  BY <1>1, <1>2, <2>1 DEF ThreadStagesOK, ThreadStates
<1>4. /\ \/ Tasks(t)' = Tasks(t) \ {"triggering_close"}
         \/ /\ threadState[t] = "INIT"
            /\ Tasks(t)' = (Tasks(t) \ {"triggering_close"}) \cup {"group_on_deinit_done"}
      /\ \A u \in Thread : u # t => Tasks(u)' = Tasks(u)
      /\ threadQueue' \in [Thread -> Seq(ThreadTasks)]
      /\ \A u \in Thread : NoTwice(threadQueue'[u])
  <2>1. CASE threadState[t] = "INIT"
    <3>1. Run(t, "triggering_close", <<"group_on_deinit_done">>)
      BY <1>2, <2>1 DEF TriggeringClose, GroupOnDeinit
    <3>2. "group_on_deinit_done" \in ThreadTasks \ Tasks(t)
      BY <1>1, <1>2 DEF ThreadTasksOK, ThreadTasks
    <3> QED  BY <2>1, <3>1, <3>2, RunPosts
  <2>2. CASE threadState[t] # "INIT"
    <3>1. Run(t, "triggering_close", <<>>)
      BY <2>2 DEF TriggeringClose
    <3> QED  BY <3>1, RunTakes
  <2> QED  BY <2>1, <2>2
<1>5. QueuesOK' /\ TasksOfEngine' = TasksOfEngine
  BY <1>1, <1>4 DEF QueuesOK, TasksOfEngine, engineVars, NoTwice
<1>6. \A u \in Thread : u # t => (u \in isCloseTriggered' <=> u \in isCloseTriggered)
  BY <1>1
<1>7. CASE threadState[t] = "NORMAL"
  <2>1. StopLifeCycleOf(t) /\ Complete(t)
    BY <1>1, <1>2, <1>7 DEF TriggeringClose, ThreadStagesOK
  <2>2. /\ threadState' \in [Thread -> ThreadStates]
        /\ threadState'[t] = "PREPARE_TO_CLOSE"
        /\ \A u \in Thread : u # t => threadState'[u] = threadState[u]
        /\ CallsOK' /\ StagesOK' /\ ExtensionsOK' /\ GoingOK' /\ CountsMatch'
    BY <1>1, <1>6, <1>7, <2>1, StopLifeCycleOfStep
  <2>3. TypeOK'
    BY <1>1, <1>4, <2>2 DEF TypeOK, CallsOK, groupVars, engineVars
  <2>4. TasksOK'
    <3>1. ASSUME NEW u \in Thread, u # t
          PROVE  ThreadTasksOK(u)'
      BY <1>1, <1>4, <1>5, <1>6, <2>2, <3>1, TasksKept
         DEF TasksOK, groupVars, engineVars
    <3>2. ThreadTasksOK(t)'
      BY <1>1, <1>2, <1>4, <1>5, <1>7, <2>2 DEF ThreadTasksOK, groupVars, engineVars
    <3> QED  BY <3>1, <3>2 DEF TasksOK
  <2>5. EngineOK'
    BY <1>1, <1>5, <1>7, <2>2, EngineKept DEF engineVars
  <2> QED  BY <1>5, <2>2, <2>3, <2>4, <2>5
<1>8. CASE threadState[t] \in {"INIT", "CREATING_EXTENSIONS"}
  <2>1. UNCHANGED <<threadState, asked, stage>>
    BY <1>8 DEF TriggeringClose
  <2>2. TypeOK'
    BY <1>1, <1>4, <2>1 DEF TypeOK, groupVars, engineVars
  <2>3. Complete(t)' = Complete(t) /\ Empty(t)' = Empty(t)
    BY <1>1 DEF Complete, Empty, ExtOf, groupVars
  <2>4. TasksOK'
    <3>1. ASSUME NEW u \in Thread, u # t
          PROVE  ThreadTasksOK(u)'
      BY <1>1, <1>4, <1>5, <1>6, <2>1, <3>1, TasksKept
         DEF TasksOK, groupVars, engineVars
    <3>2. ThreadTasksOK(t)'
      <4>1. threadState[t] = "INIT" => Empty(t)
        BY <1>1 DEF ThreadStagesOK
      <4> QED  BY <1>1, <1>2, <1>4, <1>5, <1>8, <2>1, <2>3, <4>1
                  DEF ThreadTasksOK, groupVars, engineVars
    <3> QED  BY <3>1, <3>2 DEF TasksOK
  <2>5. StagesOK'
    <3>1. ASSUME NEW u \in Thread, u # t
          PROVE  ThreadStagesOK(u)'
      BY <1>1, <1>6, <2>1, <3>1, StagesKept DEF StagesOK, ExtOf, groupVars
    <3>2. ThreadStagesOK(t)'
      BY <1>1, <1>8, <2>1, <2>3 DEF ThreadStagesOK, ExtOf, groupVars
    <3> QED  BY <3>1, <3>2 DEF StagesOK
  <2>6. ExtensionsOK' /\ GoingOK' /\ CountsMatch'
    BY <1>1, <2>1, CountsKept DEF ExtensionsOK, GoingOK, ExtOf, groupVars
  <2>7. EngineOK'
    BY <1>1, <1>5, <2>1, EngineKept DEF engineVars
  <2> QED  BY <1>5, <2>2, <2>4, <2>5, <2>6, <2>7
<1> QED  BY <1>3, <1>7, <1>8

LEMMA AllExtensionsDeletedStep ==
    ASSUME NEW t \in Thread, IInv, AllExtensionsDeleted(t)
    PROVE  IInv'
<1> USE DEF IInv
<1>1. /\ ThreadTasksOK(t) /\ ThreadStagesOK(t)
      /\ Run(t, "all_extensions_deleted", <<"group_on_deinit_done">>)
  BY DEF AllExtensionsDeleted, GroupOnDeinit, TasksOK, StagesOK
<1>2. "all_extensions_deleted" \in Tasks(t)
  BY <1>1, Taken DEF TypeOK, QueuesOK, Run, Tasks
<1>3. /\ "group_on_deinit_done" \in ThreadTasks \ Tasks(t)
      /\ threadState[t] = "PREPARE_TO_CLOSE" /\ Empty(t) /\ t \in isCloseTriggered
  BY <1>1, <1>2 DEF ThreadTasksOK, ThreadStagesOK, ThreadTasks
<1>4. /\ Tasks(t)' = (Tasks(t) \ {"all_extensions_deleted"}) \cup {"group_on_deinit_done"}
      /\ \A u \in Thread : u # t => Tasks(u)' = Tasks(u)
      /\ threadQueue' \in [Thread -> Seq(ThreadTasks)]
      /\ \A u \in Thread : NoTwice(threadQueue'[u])
  BY <1>1, <1>3, RunPosts
<1>5. /\ UNCHANGED <<threadState, isCloseTriggered, created, cntOfDeleted,
                     destroying, extVars, engineVars>>
      /\ extensions' = extensions \ ExtOf(t)
      /\ \A e \in Ext : e \notin ExtOf(t) /\ e \in extensions => e \in extensions'
      /\ Empty(t)'
  BY <1>3 DEF AllExtensionsDeleted, Empty, ExtOf
<1>6. TypeOK'
  BY <1>4, <1>5 DEF TypeOK, extVars, engineVars
<1>7. QueuesOK' /\ TasksOfEngine' = TasksOfEngine
  BY <1>4, <1>5 DEF QueuesOK, TasksOfEngine, engineVars, NoTwice
<1>8. TasksOK'
  <2>1. ASSUME NEW u \in Thread, u # t
        PROVE  ThreadTasksOK(u)'
    BY <1>4, <1>5, <1>7, <2>1, TasksKept DEF TasksOK, ExtOf, engineVars
  <2>2. ThreadTasksOK(t)'
    BY <1>1, <1>3, <1>4, <1>5, <1>7 DEF ThreadTasksOK, engineVars
  <2> QED  BY <2>1, <2>2 DEF TasksOK
<1>9. StagesOK'
  <2>1. ASSUME NEW u \in Thread, u # t
        PROVE  ThreadStagesOK(u)'
    BY <1>5, <2>1, StagesKept DEF StagesOK, ExtOf, extVars
  <2>2. ThreadStagesOK(t)'
    BY <1>1, <1>3, <1>5 DEF ThreadStagesOK, ExtOf, extVars
  <2> QED  BY <2>1, <2>2 DEF StagesOK
<1>10. ExtensionsOK' /\ GoingOK' /\ CountsMatch'
  BY <1>5, CountsKept DEF ExtensionsOK, GoingOK, ExtOf, extVars
<1>11. EngineOK'
  BY <1>5, <1>7, EngineKept DEF engineVars
<1> QED  BY <1>6, <1>7, <1>8, <1>9, <1>10, <1>11

LEMMA GroupOnDeinitDoneStep ==
    ASSUME NEW t \in Thread, IInv, GroupOnDeinitDone(t)
    PROVE  IInv'
<1> USE DEF IInv
<1>1. /\ ThreadTasksOK(t) /\ ThreadStagesOK(t) /\ Run(t, "group_on_deinit_done", <<>>)
      /\ UNCHANGED <<isCloseTriggered, groupVars, extVars, isClosing, contextClosing,
                     cntOfInitted, cntOfClosed, startGraph, groups, engineClosed>>
  BY DEF GroupOnDeinitDone, TasksOK, StagesOK
<1>2. /\ threadState[t] # "CLOSED" /\ "group_on_deinit_done" \in Tasks(t)
      /\ Tasks(t)' = Tasks(t) \ {"group_on_deinit_done"}
      /\ \A u \in Thread : u # t => Tasks(u)' = Tasks(u)
      /\ threadQueue' \in [Thread -> Seq(ThreadTasks)]
      /\ \A u \in Thread : NoTwice(threadQueue'[u])
  BY <1>1, RunTakes
<1>3. /\ threadState[t] \in {"INIT", "PREPARE_TO_CLOSE"}
      /\ t \in isCloseTriggered /\ Empty(t)
      /\ "all_extensions_deleted" \notin Tasks(t)
      /\ ThreadClosedTask(t) \notin TasksOfEngine /\ FindInfoTask(t) \notin TasksOfEngine
  BY <1>1, <1>2 DEF ThreadTasksOK
<1>4. /\ TasksOfEngine' = TasksOfEngine \cup {ThreadClosedTask(t)}
      /\ engineQueue' \in Seq(EngineTasks) /\ NoTwice(engineQueue')
  BY <1>3, TaskKinds, EngineGets DEF GroupOnDeinitDone
<1>5. /\ threadState' \in [Thread -> ThreadStates]
      /\ threadState'[t] = "CLOSED"
      /\ \A u \in Thread : u # t => threadState'[u] = threadState[u]
  BY DEF GroupOnDeinitDone, TypeOK, ThreadStates
<1>6. TypeOK'
  BY <1>1, <1>2, <1>4, <1>5 DEF TypeOK, groupVars, extVars
<1>7. QueuesOK'
  BY <1>2, <1>4 DEF QueuesOK, NoTwice
<1>8. TasksOK'
  <2>1. ASSUME NEW u \in Thread, u # t
        PROVE  ThreadTasksOK(u)'
    BY <1>1, <1>2, <1>4, <1>5, <2>1, TaskKinds, TasksKept DEF TasksOK, groupVars
  <2>2. ThreadTasksOK(t)'
    BY <1>1, <1>2, <1>3, <1>4, <1>5, TaskKinds DEF ThreadTasksOK
  <2> QED  BY <2>1, <2>2 DEF TasksOK
<1>9. StagesOK'
  <2>1. ASSUME NEW u \in Thread, u # t
        PROVE  ThreadStagesOK(u)'
    BY <1>1, <1>5, <2>1, StagesKept DEF StagesOK, ExtOf, groupVars, extVars
  <2>2. ThreadStagesOK(t)'
    <3>1. \A e \in ExtOf(t) : stage[e] \in {"new", "destroyed"}
      BY <1>1, <1>3 DEF ThreadStagesOK, Empty
    <3>2. Empty(t)'
      BY <1>1, <1>3 DEF Empty, ExtOf, groupVars
    <3> QED  BY <1>1, <1>3, <1>5, <3>1, <3>2 DEF ThreadStagesOK, ExtOf, extVars
  <2> QED  BY <2>1, <2>2 DEF StagesOK
<1>10. ExtensionsOK' /\ GoingOK' /\ CountsMatch'
  BY <1>1, CountsKept DEF ExtensionsOK, GoingOK, ExtOf, groupVars, extVars
<1>11. EngineOK'
  <2>1. ClosedThreads' = ClosedThreads
    BY <1>2, <1>4, <1>5, TaskKinds DEF ClosedThreads
  <2> QED  BY <1>1, <1>2, <1>4, <1>5, <2>1, TaskKinds DEF EngineOK
<1> QED  BY <1>6, <1>7, <1>8, <1>9, <1>10, <1>11

-----------------------------------------------------------------------------
\* The tasks of the engine, and its close.

LEMMA EngineCloseAsyncStep ==
    ASSUME IInv, EngineCloseAsync
    PROVE  IInv'
<1> USE DEF IInv
<1>1. /\ ~isClosing /\ isClosing' = TRUE
      /\ UNCHANGED <<threadVars, groupVars, extVars, contextClosing, cntOfInitted,
                     cntOfClosed, startGraph, groups, engineClosed>>
  BY DEF EngineCloseAsync
<1>2. CloseTask \notin TasksOfEngine
  BY <1>1 DEF EngineOK
<1>3. /\ TasksOfEngine' = TasksOfEngine \cup {CloseTask}
      /\ engineQueue' \in Seq(EngineTasks) /\ NoTwice(engineQueue')
  BY <1>2, TaskKinds, EngineGets DEF EngineCloseAsync
<1>4. \A t \in Thread : Tasks(t)' = Tasks(t)
  BY <1>1 DEF Tasks, threadVars
<1>5. TypeOK'
  BY <1>1, <1>3 DEF TypeOK, threadVars, groupVars, extVars
<1>6. QueuesOK'
  BY <1>1, <1>3 DEF QueuesOK, NoTwice, threadVars
<1>7. TasksOK'
  BY <1>1, <1>3, <1>4, TaskKinds, TasksKept DEF TasksOK, threadVars, groupVars
<1>8. StagesOK' /\ ExtensionsOK' /\ GoingOK' /\ CountsMatch'
  BY <1>1, OnlyQueues DEF threadVars, groupVars, extVars
<1>9. EngineOK'
  <2>1. ClosedThreads' = ClosedThreads
    BY <1>1, <1>3, TaskKinds DEF ClosedThreads, threadVars
  <2> QED  BY <1>1, <2>1 DEF EngineOK, threadVars
<1> QED  BY <1>5, <1>6, <1>7, <1>8, <1>9

LEMMA EngineCloseStep ==
    ASSUME IInv, EngineClose
    PROVE  IInv'
<1> USE DEF IInv
<1>1. /\ UNCHANGED <<threadState, isCloseTriggered, groupVars, extVars, isClosing,
                     cntOfInitted, cntOfClosed, startGraph, groups>>
      /\ engineClosed' = (engineClosed \/ groups = {})
      /\ EngineRun(CloseTask)
  BY DEF EngineClose
<1>2. /\ CloseTask \in TasksOfEngine /\ TasksOfEngine' = TasksOfEngine \ {CloseTask}
      /\ engineQueue' \in Seq(EngineTasks) /\ NoTwice(engineQueue')
  BY <1>1, EngineTakes
<1>3. EngineOK'
  <2>1. ClosedThreads' = ClosedThreads
    BY <1>1, <1>2, TaskKinds DEF ClosedThreads
  <2> QED  BY <1>1, <1>2, <2>1 DEF EngineOK, TypeOK
<1>4. StagesOK' /\ ExtensionsOK' /\ GoingOK' /\ CountsMatch'
  BY <1>1, OnlyQueues DEF groupVars, extVars
<1>5. CASE UNCHANGED <<contextClosing, threadQueue>>
  <2>1. TypeOK'
    BY <1>1, <1>2, <1>5 DEF TypeOK, groupVars, extVars
  <2>2. QueuesOK' /\ \A t \in Thread : Tasks(t)' = Tasks(t)
    BY <1>2, <1>5 DEF QueuesOK, NoTwice, Tasks
  <2>3. TasksOK'
    BY <1>1, <1>2, <1>5, <2>2, TaskKinds, TasksKept DEF TasksOK, groupVars
  <2> QED  BY <1>3, <1>4, <2>1, <2>2, <2>3
<1>6. CASE /\ ~contextClosing /\ contextClosing' = TRUE
           /\ threadQueue' = [t \in Thread |->
                                  Append(threadQueue[t], "triggering_close")]
  <2>1. ASSUME NEW t \in Thread
        PROVE  /\ "triggering_close" \notin Tasks(t) /\ t \notin isCloseTriggered
               /\ threadQueue'[t] \in Seq(ThreadTasks) /\ NoTwice(threadQueue'[t])
               /\ Tasks(t)' = Tasks(t) \cup {"triggering_close"}
    <3>1. ThreadTasksOK(t)
      BY DEF TasksOK
    <3>2. "triggering_close" \notin Tasks(t) /\ t \notin isCloseTriggered
      BY <1>6, <3>1 DEF ThreadTasksOK
    <3>3. /\ "triggering_close" \in ThreadTasks /\ threadQueue[t] \in Seq(ThreadTasks)
          /\ NoTwice(threadQueue[t])
          /\ threadQueue'[t] = Append(threadQueue[t], "triggering_close")
      BY <1>6 DEF ThreadTasks, TypeOK, QueuesOK
    <3> QED  BY <3>2, <3>3, Added DEF Tasks
  <2>2. threadQueue' \in [Thread -> Seq(ThreadTasks)]
    BY <1>6, <2>1
  <2>3. TypeOK'
    BY <1>1, <1>2, <1>6, <2>2 DEF TypeOK, groupVars, extVars
  <2>4. QueuesOK'
    BY <1>2, <2>1 DEF QueuesOK, NoTwice
  <2>5. TasksOK'
    <3>1. ASSUME NEW t \in Thread
          PROVE  ThreadTasksOK(t)'
      <4>1. Complete(t)' = Complete(t) /\ Empty(t)' = Empty(t)
        BY <1>1 DEF Complete, Empty, ExtOf, groupVars
      <4>2. ThreadTasksOK(t)
        BY DEF TasksOK
      <4> QED  BY <1>1, <1>2, <1>6, <2>1, <4>1, <4>2 DEF ThreadTasksOK
    <3> QED  BY <3>1 DEF TasksOK
  <2> QED  BY <1>3, <1>4, <2>3, <2>4, <2>5
<1> QED  BY <1>5, <1>6 DEF EngineClose

LEMMA FindExtensionInfoStep ==
    ASSUME NEW t \in Thread, IInv, FindExtensionInfo(t)
    PROVE  IInv'
<1> USE DEF IInv
<1>1. /\ UNCHANGED <<threadState, isCloseTriggered, groupVars, extVars, isClosing,
                     contextClosing, cntOfClosed, groups, engineClosed>>
      /\ EngineRun(FindInfoTask(t)) /\ ThreadTasksOK(t)
      /\ \/ t \in isCloseTriggered /\ Post(t, "stop_life_cycle")
         \/ Post(t, "start_life_cycle")
  BY DEF FindExtensionInfo, TasksOK
<1>2. /\ FindInfoTask(t) \in TasksOfEngine
      /\ TasksOfEngine' = TasksOfEngine \ {FindInfoTask(t)}
      /\ engineQueue' \in Seq(EngineTasks) /\ NoTwice(engineQueue')
  BY <1>1, EngineTakes
<1>3. /\ threadState[t] = "CREATING_EXTENSIONS" /\ Complete(t)
      /\ {"start_life_cycle", "stop_life_cycle"} \subseteq ThreadTasks \ Tasks(t)
  BY <1>1, <1>2 DEF ThreadTasksOK, ThreadTasks
<1>4. /\ \/ t \in isCloseTriggered /\ Tasks(t)' = Tasks(t) \cup {"stop_life_cycle"}
         \/ Tasks(t)' = Tasks(t) \cup {"start_life_cycle"}
      /\ \A u \in Thread : u # t => Tasks(u)' = Tasks(u)
      /\ threadQueue' \in [Thread -> Seq(ThreadTasks)]
      /\ \A u \in Thread : NoTwice(threadQueue'[u])
  BY <1>1, <1>3, PostAdds
<1>5. cntOfInitted' \in Nat /\ startGraph' \in {"waiting", "ok"}
  BY DEF FindExtensionInfo, TypeOK
<1>6. TypeOK'
  BY <1>1, <1>2, <1>4, <1>5 DEF TypeOK, groupVars, extVars
<1>7. QueuesOK'
  BY <1>2, <1>4 DEF QueuesOK, NoTwice
<1>8. TasksOK'
  <2>1. ASSUME NEW u \in Thread, u # t
        PROVE  ThreadTasksOK(u)'
    BY <1>1, <1>2, <1>4, <2>1, TasksKept DEF TasksOK, groupVars
  <2>2. ThreadTasksOK(t)'
    <3>1. Complete(t)' = Complete(t) /\ Empty(t)' = Empty(t)
      BY <1>1 DEF Complete, Empty, ExtOf, groupVars
    <3> QED  BY <1>1, <1>2, <1>3, <1>4, <3>1 DEF ThreadTasksOK
  <2> QED  BY <2>1, <2>2 DEF TasksOK
<1>9. StagesOK' /\ ExtensionsOK' /\ GoingOK' /\ CountsMatch'
  BY <1>1, OnlyQueues DEF groupVars, extVars
<1>10. EngineOK'
  BY <1>1, <1>2, TaskKinds, EngineKept
<1> QED  BY <1>6, <1>7, <1>8, <1>9, <1>10

LEMMA OnExtensionThreadClosedStep ==
    ASSUME NEW t \in Thread, IInv, OnExtensionThreadClosed(t)
    PROVE  IInv'
<1> USE DEF IInv
<1>1. /\ UNCHANGED <<threadVars, groupVars, extVars, isClosing, contextClosing,
                     cntOfInitted, startGraph, groups, engineClosed>>
      /\ EngineRun(ThreadClosedTask(t)) /\ cntOfClosed' = cntOfClosed + 1
  BY DEF OnExtensionThreadClosed
<1>2. /\ ThreadClosedTask(t) \in TasksOfEngine
      /\ TasksOfEngine' = TasksOfEngine \ {ThreadClosedTask(t)}
      /\ engineQueue' \in Seq(EngineTasks) /\ NoTwice(engineQueue')
  BY <1>1, EngineTakes
<1>3. \A u \in Thread : Tasks(u)' = Tasks(u)
  BY <1>1 DEF Tasks, threadVars
<1>4. TypeOK'
  BY <1>1, <1>2 DEF TypeOK, threadVars, groupVars, extVars
<1>5. QueuesOK'
  BY <1>1, <1>2 DEF QueuesOK, NoTwice, threadVars
<1>6. TasksOK'
  BY <1>1, <1>2, <1>3, TasksKept DEF TasksOK, threadVars, groupVars
<1>7. StagesOK' /\ ExtensionsOK' /\ GoingOK' /\ CountsMatch'
  BY <1>1, OnlyQueues DEF threadVars, groupVars, extVars
<1>8. EngineOK'
  <2>1. threadState[t] = "CLOSED" /\ t \notin ClosedThreads
    BY <1>2 DEF TasksOK, ThreadTasksOK, ClosedThreads
  <2>2. ClosedThreads' = ClosedThreads \cup {t}
    BY <1>1, <1>2, <2>1, TaskKinds DEF ClosedThreads, threadVars
  <2>3. IsFiniteSet(ClosedThreads)
    BY GraphAssumption, FS_Subset DEF ClosedThreads
  <2>4. Cardinality(ClosedThreads') = cntOfClosed + 1
    BY <2>1, <2>2, <2>3, FS_AddElement DEF EngineOK
  <2> QED  BY <1>1, <1>2, <2>4 DEF EngineOK, threadVars
<1> QED  BY <1>4, <1>5, <1>6, <1>7, <1>8

LEMMA GroupDestroyedStep ==
    ASSUME NEW t \in Thread, IInv, GroupDestroyed(t)
    PROVE  IInv'
<1> USE DEF IInv
<1>1. /\ UNCHANGED <<threadVars, groupVars, extVars, engineQueue, isClosing,
                     contextClosing, cntOfInitted, cntOfClosed, startGraph>>
      /\ cntOfClosed = Cardinality(Thread) /\ groups' = groups \ {t}
      /\ engineClosed' = (engineClosed \/ (groups' = {} /\ isClosing))
  BY DEF GroupDestroyed
<1>2. /\ QueuesOK' /\ TasksOfEngine' = TasksOfEngine
      /\ \A u \in Thread : Tasks(u)' = Tasks(u)
  BY <1>1, QueuesKept DEF threadVars
<1>3. TypeOK'
  BY <1>1 DEF TypeOK, threadVars, groupVars, extVars
<1>4. TasksOK'
  BY <1>1, <1>2, TasksKept DEF TasksOK, threadVars, groupVars
<1>5. StagesOK' /\ ExtensionsOK' /\ GoingOK' /\ CountsMatch'
  BY <1>1, OnlyQueues DEF threadVars, groupVars, extVars
<1>6. EngineOK'
  <2>1. ClosedThreads' = ClosedThreads
    BY <1>1, <1>2 DEF ClosedThreads, threadVars
  <2>2. ClosedThreads = Thread
    <3>1. ClosedThreads \subseteq Thread
      BY DEF ClosedThreads
    <3>2. Cardinality(ClosedThreads) = Cardinality(Thread)
      BY <1>1 DEF EngineOK
    <3> QED  BY <3>1, <3>2, GraphAssumption, FS_Subset
  <2>3. \A u \in Thread : threadState'[u] = "CLOSED"
    BY <1>1, <2>2 DEF ClosedThreads, threadVars
  <2> QED  BY <1>1, <1>2, <2>1, <2>3 DEF EngineOK, TypeOK
<1> QED  BY <1>2, <1>3, <1>4, <1>5, <1>6

-----------------------------------------------------------------------------
\* What the addon of an extension answers.

LEMMA ExtensionCreatedStep ==
    ASSUME NEW e \in Ext, IInv, ExtensionCreated(e)
    PROVE  IInv'
<1> USE DEF IInv
<1> DEFINE t == ThreadOf[e]
<1>1. /\ UNCHANGED <<threadVars, cntOfDeleted, destroying, extVars, isClosing,
                     contextClosing, cntOfInitted, cntOfClosed, startGraph,
                     groups, engineClosed>>
      /\ threadState[t] = "CREATING_EXTENSIONS"
      /\ e \notin created /\ created' = created \cup {e}
      /\ extensions \subseteq extensions'
  BY DEF ExtensionCreated, CreateExtensionsDone
<1>2. /\ t \in Thread /\ e \in ExtOf(t) /\ ExtOf(t) \subseteq Ext
      /\ ThreadStagesOK(t) /\ ThreadTasksOK(t) /\ ~Complete(t)
  BY <1>1, GraphAssumption DEF ExtOf, Complete, StagesOK, TasksOK
<1>3. /\ FindInfoTask(t) \notin TasksOfEngine
      /\ \A task \in {"handle_start_msg", "group_on_init_done", "start_life_cycle",
                      "stop_life_cycle", "all_extensions_deleted",
                      "group_on_deinit_done"} : task \notin Tasks(t)
      /\ ThreadClosedTask(t) \notin TasksOfEngine
  BY <1>1, <1>2 DEF ThreadTasksOK
<1>4. \/ UNCHANGED <<extensions, engineQueue>>
      \/ /\ ExtOf(t) \subseteq created' /\ extensions' = extensions \cup ExtOf(t)
         /\ PostToEngine(FindInfoTask(t))
  BY DEF ExtensionCreated, CreateExtensionsDone
<1>5. \/ UNCHANGED <<extensions, engineQueue>> /\ TasksOfEngine' = TasksOfEngine
      \/ /\ Complete(t)' /\ extensions' \subseteq Ext
         /\ TasksOfEngine' = TasksOfEngine \cup {FindInfoTask(t)}
         /\ engineQueue' \in Seq(EngineTasks) /\ NoTwice(engineQueue')
  <2>1. CASE UNCHANGED <<extensions, engineQueue>>
    BY <2>1 DEF TasksOfEngine
  <2>2. CASE /\ ExtOf(t) \subseteq created' /\ extensions' = extensions \cup ExtOf(t)
             /\ PostToEngine(FindInfoTask(t))
    <3>1. Complete(t)' /\ extensions' \subseteq Ext
      BY <1>2, <2>2 DEF Complete, ExtOf, TypeOK
    <3> QED  BY <1>2, <1>3, <2>2, <3>1, TaskKinds, EngineGets
  <2> QED  BY <1>4, <2>1, <2>2
<1>6. /\ \A u \in Thread :
            /\ Tasks(u)' = Tasks(u)
            /\ ThreadClosedTask(u) \in TasksOfEngine' <=> ThreadClosedTask(u) \in TasksOfEngine
            /\ u # t /\ FindInfoTask(u) \in TasksOfEngine' => FindInfoTask(u) \in TasksOfEngine
      /\ CloseTask \in TasksOfEngine' => CloseTask \in TasksOfEngine
  <2>1. \A u \in Thread : Tasks(u)' = Tasks(u)
    BY <1>1 DEF Tasks, threadVars
  <2> QED  BY <1>2, <1>5, <2>1, TaskKinds
<1>7. TypeOK'
  BY <1>1, <1>5 DEF TypeOK, threadVars, extVars
<1>8. QueuesOK'
  BY <1>1, <1>5 DEF QueuesOK, NoTwice, threadVars
<1>9. TasksOK'
  <2>1. ASSUME NEW u \in Thread, u # t
        PROVE  ThreadTasksOK(u)'
    BY <1>1, <1>6, <2>1, TasksKept DEF TasksOK, ExtOf, threadVars
  <2>2. ThreadTasksOK(t)'
    BY <1>1, <1>2, <1>3, <1>5, <1>6, TaskKinds DEF ThreadTasksOK, threadVars
  <2> QED  BY <2>1, <2>2 DEF TasksOK
<1>10. StagesOK'
  <2>1. ASSUME NEW u \in Thread, u # t
        PROVE  ThreadStagesOK(u)'
    BY <1>1, <2>1, StagesKept DEF StagesOK, ExtOf, threadVars, extVars
  <2>2. ThreadStagesOK(t)'
    BY <1>1, <1>2 DEF ThreadStagesOK, ExtOf, threadVars, extVars
  <2> QED  BY <2>1, <2>2 DEF StagesOK
<1>11. ExtensionsOK'
  BY <1>1 DEF ExtensionsOK, extVars
<1>12. GoingOK'
  <2>1. ASSUME NEW x \in Ext, x \in destroying \/ stage[x] = "destroyed"
        PROVE  e \notin ExtOf(ThreadOf[x])
    <3>1. \A y \in ExtOf(ThreadOf[x]) : state[y] = "ON_DEINIT_DONE"
      BY <2>1 DEF GoingOK
    <3>2. state[e] = "INIT"
      BY <1>1, <1>2 DEF ThreadStagesOK, ExtensionsOK
    <3> QED  BY <3>1, <3>2
  <2> QED  BY <1>1, <2>1 DEF GoingOK, ExtOf, extVars
<1>13. CountsMatch'
  BY <1>1, CountsKept DEF extVars
<1>14. EngineOK'
  BY <1>1, <1>6, EngineKept DEF threadVars
<1> QED  BY <1>7, <1>8, <1>9, <1>10, <1>11, <1>12, <1>13, <1>14

LEMMA ExtensionDestroyedStep ==
    ASSUME NEW e \in Ext, IInv, ExtensionDestroyed(e)
    PROVE  IInv'
<1> USE DEF IInv
<1> DEFINE t == ThreadOf[e]
<1>1. /\ UNCHANGED <<threadState, isCloseTriggered, extensions, cntOfDeleted, state,
                     pathTimers, proxies, engineVars>>
      /\ e \in destroying /\ created' = created \ {e} /\ destroying' = destroying \ {e}
      /\ \/ UNCHANGED threadQueue
         \/ destroying' \cap ExtOf(t) = {} /\ Post(t, "all_extensions_deleted")
  BY DEF ExtensionDestroyed
<1>2. /\ CallsOK' /\ stage'[e] = "destroyed" /\ asked'[e] = {}
      /\ \A x \in Ext : x # e => stage'[x] = stage[x] /\ asked'[x] = asked[x]
  BY DEF ExtensionDestroyed, TypeOK, CallsOK
<1>3. /\ t \in Thread /\ e \in ExtOf(t) /\ ExtOf(t) \subseteq Ext
      /\ ThreadStagesOK(t) /\ ThreadTasksOK(t) /\ threadState[t] \in ThreadStates
      /\ e \in created /\ ~Empty(t)
  BY <1>1, GraphAssumption DEF ExtOf, Empty, StagesOK, TasksOK, TypeOK
<1>4. /\ \A x \in ExtOf(t) : /\ state[x] = "ON_DEINIT_DONE"
                             /\ x \in created => x \in destroying
      /\ stage[e] # "new"
  BY <1>1, <1>3 DEF GoingOK, ExtensionsOK
<1>5. threadState[t] = "PREPARE_TO_CLOSE"
  <2>1. stage[e] \in {"on_deinit", "destroyed"}
    BY <1>3, <1>4 DEF ExtensionsOK
  <2> QED  BY <1>3, <2>1 DEF ThreadStagesOK, ThreadStates
<1>6. {"all_extensions_deleted", "group_on_deinit_done"} \cap Tasks(t) = {}
  BY <1>3 DEF ThreadTasksOK
<1>7. /\ \/ Tasks(t)' = Tasks(t)
         \/ /\ Empty(t)' /\ Tasks(t)' = Tasks(t) \cup {"all_extensions_deleted"}
      /\ \A u \in Thread : u # t => Tasks(u)' = Tasks(u)
      /\ threadQueue' \in [Thread -> Seq(ThreadTasks)]
      /\ \A u \in Thread : NoTwice(threadQueue'[u])
  <2>1. CASE UNCHANGED threadQueue
    BY <2>1 DEF TypeOK, QueuesOK, Tasks
  <2>2. CASE destroying' \cap ExtOf(t) = {} /\ Post(t, "all_extensions_deleted")
    <3>1. Empty(t)'
      BY <1>1, <1>4, <2>2 DEF Empty, ExtOf
    <3> QED  BY <1>3, <1>6, <2>2, <3>1, PostAdds DEF ThreadTasks
  <2> QED  BY <1>1, <2>1, <2>2
<1>8. TypeOK'
  BY <1>1, <1>2, <1>7 DEF TypeOK, CallsOK, engineVars
<1>9. QueuesOK' /\ TasksOfEngine' = TasksOfEngine
  BY <1>1, <1>7 DEF QueuesOK, NoTwice, TasksOfEngine, engineVars
<1>10. TasksOK'
  <2>1. ASSUME NEW u \in Thread, u # t
        PROVE  ThreadTasksOK(u)'
    BY <1>1, <1>7, <1>9, <2>1, TasksKept DEF TasksOK, ExtOf, engineVars
  <2>2. ThreadTasksOK(t)'
    BY <1>1, <1>3, <1>5, <1>6, <1>7, <1>9 DEF ThreadTasksOK, engineVars
  <2> QED  BY <2>1, <2>2 DEF TasksOK
<1>11. StagesOK'
  <2>1. ASSUME NEW u \in Thread, u # t
        PROVE  ThreadStagesOK(u)'
    BY <1>1, <1>2, <2>1, StagesKept DEF StagesOK, ExtOf
  <2>2. ThreadStagesOK(t)'
    <3>1. t \in isCloseTriggered /\ ExtOf(t) \subseteq extensions
      BY <1>3, <1>5 DEF ThreadStagesOK
    <3>2. \A x \in ExtOf(t)' : /\ stage'[x] \in {"on_stop", "on_deinit", "destroyed"}
                               /\ x \in created' <=> stage'[x] # "destroyed"
      BY <1>1, <1>2, <1>3, <1>5 DEF ThreadStagesOK, ExtOf
    <3> QED  BY <1>1, <1>5, <3>1, <3>2 DEF ThreadStagesOK, ExtOf
  <2> QED  BY <2>1, <2>2 DEF StagesOK
<1>12. ExtensionsOK'
  BY <1>1, <1>2, <1>3, <1>4 DEF ExtensionsOK
<1>13. GoingOK'
  <2>1. ASSUME NEW x \in Ext, x \in destroying' \/ stage'[x] = "destroyed",
               NEW y \in ExtOf(ThreadOf[x])
        PROVE  state'[y] = "ON_DEINIT_DONE" /\ (y \in created' => y \in destroying')
    <3>1. CASE x = e
      BY <1>1, <1>4, <3>1
    <3>2. CASE x # e
      BY <1>1, <1>2, <2>1, <3>2 DEF GoingOK
    <3> QED  BY <3>1, <3>2
  <2> QED  BY <2>1 DEF GoingOK, ExtOf
<1>14. CountsMatch'
  BY <1>1, CountsKept
<1>15. EngineOK'
  BY <1>1, <1>9, EngineKept DEF engineVars
<1> QED  BY <1>8, <1>9, <1>10, <1>11, <1>12, <1>13, <1>14, <1>15

-----------------------------------------------------------------------------
\* The invariant.

LEMMA InitOK == Init => IInv
<1> SUFFICES ASSUME Init
             PROVE  IInv
  OBVIOUS
<1> USE DEF Init
<1>1. /\ \A t \in Thread : /\ threadQueue[t] \in Seq(ThreadTasks)
                           /\ NoTwice(threadQueue[t])
                           /\ Tasks(t) = {"handle_start_msg"}
      /\ engineQueue \in Seq(EngineTasks) /\ NoTwice(engineQueue) /\ TasksOfEngine = {}
  <2>1. \A t \in Thread : threadQueue[t] = <<"handle_start_msg">>
    OBVIOUS
  <2>2. "handle_start_msg" \in ThreadTasks
    BY DEF ThreadTasks
  <2>3. ASSUME NEW t \in Thread
        PROVE  /\ threadQueue[t] \in Seq(ThreadTasks) /\ NoTwice(threadQueue[t])
               /\ Tasks(t) = {"handle_start_msg"}
    BY <2>1, <2>2 DEF NoTwice, Tasks, Elements
  <2> QED  BY <2>3 DEF NoTwice, TasksOfEngine, Elements
<1>2. TypeOK
  <2>1. threadQueue \in [Thread -> Seq(ThreadTasks)]
    BY <1>1
  <2>2. /\ threadState \in [Thread -> ThreadStates] /\ cntOfDeleted \in [Thread -> Nat]
        /\ state \in [Ext -> ExtensionStates] /\ pathTimers \in [Ext -> 0 .. 2]
    BY DEF ThreadStates, ExtensionStates
  <2>3. /\ asked \in [Ext -> SUBSET Callbacks] /\ proxies \in [Ext -> 0 .. MaxProxies]
        /\ stage \in [Ext -> Callbacks \cup {"new", "destroyed"}]
    BY SettingAssumption
  <2> QED  BY <1>1, <2>1, <2>2, <2>3 DEF TypeOK
<1>3. QueuesOK
  BY <1>1 DEF QueuesOK
<1>4. TasksOK
  BY <1>1 DEF TasksOK, ThreadTasksOK
<1>5. StagesOK
  BY DEF StagesOK, ThreadStagesOK, Empty, ExtOf
<1>6. ExtensionsOK /\ GoingOK
  BY DEF ExtensionsOK, GoingOK
<1>7. CountsMatch
  <2>1. ASSUME NEW t \in Thread
        PROVE  {e \in ExtOf(t) : state[e] = "ON_DEINIT_DONE"} = {}
    BY DEF ExtOf
  <2> QED  BY <2>1, FS_EmptySet DEF CountsMatch
<1>8. EngineOK
  <2>1. ClosedThreads = {}
    BY DEF ClosedThreads
  <2> QED  BY <1>1, <2>1, FS_EmptySet DEF EngineOK
<1> QED  BY <1>2, <1>3, <1>4, <1>5, <1>6, <1>7, <1>8 DEF IInv

LEMMA NothingHappens ==
    ASSUME IInv, UNCHANGED vars
    PROVE  IInv'
<1>1. UNCHANGED <<threadVars, groupVars, extVars, engineVars>>
  BY DEF vars
<1>2. QueuesOK' /\ TasksOK' /\ EngineOK'
  BY <1>1, ExtensionOnly DEF groupVars
<1>3. StagesOK' /\ ExtensionsOK' /\ GoingOK' /\ CountsMatch'
  BY <1>1, OnlyQueues DEF threadVars, groupVars, extVars
<1>4. TypeOK'
  BY <1>1 DEF IInv, TypeOK, threadVars, groupVars, extVars, engineVars
<1> QED  BY <1>2, <1>3, <1>4 DEF IInv

LEMMA NextOK == IInv /\ [Next]_vars => IInv'
<1> SUFFICES ASSUME IInv, [Next]_vars
             PROVE  IInv'
  OBVIOUS
<1>1. ASSUME NEW t \in Thread, ThreadStep(t)
      PROVE  IInv'
  BY <1>1, HandleStartMsgStep, GroupOnInitDoneStep, StartLifeCycleStep,
     StopLifeCycleStep, TriggeringCloseStep, AllExtensionsDeletedStep,
     GroupOnDeinitDoneStep DEF ThreadStep
<1>2. ASSUME EngineStep
      PROVE  IInv'
  BY <1>2, EngineCloseStep, FindExtensionInfoStep, OnExtensionThreadClosedStep
     DEF EngineStep
<1>3. ASSUME HelperStep
      PROVE  IInv'
  BY <1>3, ExtensionCreatedStep, OnTimerClosedStep, ExtensionDestroyedStep,
     GroupDestroyedStep DEF HelperStep
<1>4. ASSUME NEW e \in Ext, ExtensionStep(e)
      PROVE  IInv'
  BY <1>4, OnConfigureDoneStep, OnInitDoneStep, OnStartDoneStep, OnStopDoneStep,
     OnDeinitDoneStep, DeleteProxyStep DEF ExtensionStep
<1> QED  BY <1>1, <1>2, <1>3, <1>4, CreateProxyStep, EngineCloseAsyncStep,
            NothingHappens DEF Next

THEOREM Invariant == Spec => []IInv
BY InitOK, NextOK, PTL DEF Spec

\* Every variable keeps its type; an extension is only destroyed while it
\* exists.
THEOREM TypeCorrect == Spec => []TypeOK
<1>1. IInv => TypeOK
  BY DEF IInv
<1> QED  BY <1>1, Invariant, PTL

\* The close finds a thread in a state it can deal with
\* (extension_thread/extension_thread.c:336-339).
THEOREM CloseExpected == Spec => []CloseIsExpected
<1>1. IInv => CloseIsExpected
  BY DEF IInv, StagesOK, ThreadStagesOK, CloseIsExpected
<1> QED  BY <1>1, Invariant, PTL

\* The count of deleted extensions is right
\* (extension/ten_env/on_xxx.c:313-317).
THEOREM CountsRight == Spec => []CountsMatch
<1>1. IInv => CountsMatch
  BY DEF IInv
<1> QED  BY <1>1, Invariant, PTL

\* The engine goes after its threads, a thread after its extensions, and an
\* extension when all of its thread are done with on_deinit
\* (extension_thread/extension_thread.c:182-184).
THEOREM ClosedInOrder == Spec => []ClosesInOrder
<1>1. ASSUME IInv
      PROVE  ClosesInOrder
  <2>1. /\ engineClosed => groups = {} /\ isClosing
        /\ groups # Thread => \A t \in Thread : threadState[t] = "CLOSED"
    BY <1>1 DEF IInv, EngineOK
  <2>2. ASSUME NEW t \in Thread, threadState[t] = "CLOSED"
        PROVE  t \in isCloseTriggered /\ created \cap ExtOf(t) = {}
    BY <1>1, <2>2 DEF IInv, StagesOK, ThreadStagesOK, Empty
  <2>3. \A e \in destroying : \A x \in ExtOf(ThreadOf[e]) : state[x] = "ON_DEINIT_DONE"
    BY <1>1 DEF IInv, GoingOK, TypeOK
  <2> QED  BY <2>1, <2>2, <2>3 DEF ClosesInOrder
<1> QED  BY <1>1, Invariant, PTL

-----------------------------------------------------------------------------
\* The lives of the extensions.

Lives == \A e \in Ext : [Life(e)!LifeNext]_(stage[e])

LEMMA LifeMoves ==
    ASSUME NEW e \in Ext,
           \/ stage[e] = "new" /\ stage'[e] = "on_configure"
           \/ stage[e] = "on_configure" /\ stage'[e] = "on_init"
           \/ stage[e] = "on_init" /\ stage'[e] = "on_start"
           \/ /\ stage[e] \in {"new", "on_configure", "on_init", "on_start"}
              /\ stage'[e] = "on_stop"
           \/ stage[e] = "on_stop" /\ stage'[e] = "on_deinit"
           \/ stage[e] = "on_deinit" /\ stage'[e] = "destroyed"
    PROVE  Life(e)!LifeNext
BY DEF Life!LifeNext, Life!Rise, Life!Fall

\* One extension moves, or all extensions of a thread do.
LEMMA OneMoves ==
    ASSUME NEW e \in Ext, Life(e)!LifeNext \/ stage'[e] = stage[e],
           \A x \in Ext : x # e => stage'[x] = stage[x]
    PROVE  Lives
BY DEF Lives

LEMMA ThreadMoves ==
    ASSUME NEW t \in Thread, NEW callback \in Callbacks, TypeOK,
           Call(extensions \cap ExtOf(t), callback),
           \A e \in ExtOf(t) :
              \/ stage[e] = "new" /\ callback = "on_configure"
              \/ /\ stage[e] \in {"new", "on_configure", "on_init", "on_start"}
                 /\ callback = "on_stop"
    PROVE  Lives
<1>1. ASSUME NEW e \in Ext, stage'[e] # stage[e]
      PROVE  Life(e)!LifeNext
  <2>1. e \in ExtOf(t) /\ stage'[e] = callback
    BY <1>1 DEF Call
  <2> QED  BY <2>1, LifeMoves
<1> QED  BY <1>1 DEF Lives

LEMMA ExtensionMoves ==
    ASSUME NEW e \in Ext, IInv, ExtensionStep(e)
    PROVE  Lives
<1> DEFINE t == ThreadOf[e]
<1>1. /\ t \in Thread /\ e \in ExtOf(t) /\ ThreadStagesOK(t) /\ threadState[t] \in ThreadStates
      /\ CallsOK /\ {"on_configure", "on_init", "on_start", "on_stop", "on_deinit"}
                        \subseteq Callbacks
  BY GraphAssumption DEF ExtOf, IInv, StagesOK, TypeOK, CallsOK, Callbacks
<1>2. ASSUME t \notin isCloseTriggered, NEW callback \in asked[e]
      PROVE  stage[e] = callback
  <2>1. stage[e] \notin {"new", "destroyed"}
    BY <1>2 DEF IInv, ExtensionsOK
  <2> QED  BY <1>1, <1>2, <2>1 DEF ThreadStagesOK, ThreadStates
<1>3. CASE OnConfigureDone(e)
  <2>1. CASE Answer(e, "on_configure")
    BY <2>1, <1>1, OneMoves DEF Answer
  <2>2. CASE AnswerAndCall(e, "on_configure", "on_init") /\ t \notin isCloseTriggered
    <3>1. /\ stage[e] = "on_configure" /\ stage'[e] = "on_init"
          /\ \A x \in Ext : x # e => stage'[x] = stage[x]
      BY <1>1, <1>2, <2>2 DEF AnswerAndCall, CallsOK
    <3> QED  BY <3>1, LifeMoves, OneMoves
  <2> QED  BY <1>3, <2>1, <2>2 DEF OnConfigureDone, Closing
<1>4. CASE OnInitDone(e)
  <2>1. CASE Answer(e, "on_init")
    BY <2>1, <1>1, OneMoves DEF Answer
  <2>2. CASE AnswerAndCall(e, "on_init", "on_start") /\ t \notin isCloseTriggered
    <3>1. /\ stage[e] = "on_init" /\ stage'[e] = "on_start"
          /\ \A x \in Ext : x # e => stage'[x] = stage[x]
      BY <1>1, <1>2, <2>2 DEF AnswerAndCall, CallsOK
    <3> QED  BY <3>1, LifeMoves, OneMoves
  <2> QED  BY <1>4, <2>1, <2>2 DEF OnInitDone, Closing
<1>5. CASE OnStopDone(e)
  <2>1. CASE Answer(e, "on_stop")
    BY <2>1, <1>1, OneMoves DEF Answer
  <2>2. CASE AnswerAndCall(e, "on_stop", "on_deinit")
    <3>1. /\ stage[e] = "on_stop" /\ stage'[e] = "on_deinit"
          /\ \A x \in Ext : x # e => stage'[x] = stage[x]
      BY <1>1, <2>2 DEF AnswerAndCall, CallsOK, IInv, ExtensionsOK
    <3> QED  BY <3>1, LifeMoves, OneMoves
  <2> QED  BY <1>5, <2>1, <2>2 DEF OnStopDone
<1>6. CASE OnStartDone(e) \/ OnDeinitDone(e) \/ DeleteProxy(e)
  <2>1. stage' = stage
    BY <1>6 DEF OnStartDone, OnDeinitDone, DeleteProxy, Answer
  <2> QED  BY <2>1 DEF Lives
<1> QED  BY <1>3, <1>4, <1>5, <1>6 DEF ExtensionStep

LEMMA HelperMoves ==
    ASSUME IInv, HelperStep
    PROVE  Lives
<1>1. ASSUME NEW e \in Ext, ExtensionCreated(e)
      PROVE  Lives
  BY <1>1 DEF ExtensionCreated, extVars, Lives
<1>2. ASSUME NEW t \in Thread, GroupDestroyed(t)
      PROVE  Lives
  BY <1>2 DEF GroupDestroyed, extVars, Lives
<1>3. ASSUME NEW e \in Ext, OnTimerClosed(e)
      PROVE  Lives
  <2>1. CASE UNCHANGED stage
    BY <2>1 DEF Lives
  <2>2. CASE Call({e}, "on_deinit")
    <3>1. /\ stage[e] = "on_stop" /\ stage'[e] = "on_deinit"
          /\ \A x \in Ext : x # e => stage'[x] = stage[x]
      BY <1>3, <2>2 DEF OnTimerClosed, IInv, ExtensionsOK, Call
    <3> QED  BY <3>1, LifeMoves, OneMoves
  <2> QED  BY <1>3, <2>1, <2>2 DEF OnTimerClosed
<1>4. ASSUME NEW e \in Ext, ExtensionDestroyed(e)
      PROVE  Lives
  <2> DEFINE t == ThreadOf[e]
  <2>1. /\ t \in Thread /\ e \in ExtOf(t) /\ ThreadStagesOK(t)
        /\ threadState[t] \in ThreadStates
        /\ e \in destroying /\ e \in created
    BY <1>4, GraphAssumption DEF ExtOf, IInv, StagesOK, TypeOK, ExtensionDestroyed
  <2>2. state[e] = "ON_DEINIT_DONE"
    BY <2>1 DEF IInv, GoingOK
  <2>3. stage[e] \in {"on_deinit", "destroyed"}
    BY <2>2 DEF IInv, ExtensionsOK
  <2>4. stage[e] = "on_deinit"
    BY <2>1, <2>3 DEF ThreadStagesOK, ThreadStates, Empty
  <2>5. stage'[e] = "destroyed" /\ \A x \in Ext : x # e => stage'[x] = stage[x]
    BY <1>4 DEF ExtensionDestroyed, IInv, TypeOK
  <2> QED  BY <2>4, <2>5, LifeMoves, OneMoves
<1> QED  BY <1>1, <1>2, <1>3, <1>4 DEF HelperStep

LEMMA TaskMoves ==
    ASSUME NEW t \in Thread, IInv, ThreadStep(t)
    PROVE  Lives
<1>1. /\ TypeOK /\ ThreadStagesOK(t) /\ ThreadTasksOK(t)
      /\ {"on_configure", "on_stop"} \subseteq Callbacks
  BY DEF IInv, StagesOK, TasksOK, Callbacks
<1>2. CASE \/ HandleStartMsg(t) \/ GroupOnInitDone(t) \/ AllExtensionsDeleted(t)
           \/ GroupOnDeinitDone(t)
  <2>1. stage' = stage
    BY <1>2 DEF HandleStartMsg, GroupOnInitDone, AllExtensionsDeleted,
                GroupOnDeinitDone, extVars
  <2> QED  BY <2>1 DEF Lives
<1>3. CASE StartLifeCycle(t)
  <2>1. "start_life_cycle" \in Tasks(t)
    BY <1>3, RunTakes DEF StartLifeCycle, IInv
  <2>2. \A e \in ExtOf(t) : stage[e] = "new"
    BY <1>1, <2>1 DEF ThreadTasksOK, ThreadStagesOK
  <2>3. stage' = stage \/ Call(extensions \cap ExtOf(t), "on_configure")
    BY <1>3 DEF StartLifeCycle
  <2> QED  BY <1>1, <2>2, <2>3, ThreadMoves DEF Lives
<1>4. CASE StopLifeCycle(t)
  <2>1. "stop_life_cycle" \in Tasks(t)
    BY <1>4, RunTakes DEF StopLifeCycle, IInv
  <2>2. \A e \in ExtOf(t) : stage[e] = "new"
    BY <1>1, <2>1 DEF ThreadTasksOK, ThreadStagesOK
  <2>3. Call(extensions \cap ExtOf(t), "on_stop")
    BY <1>4 DEF StopLifeCycle, StopLifeCycleOf
  <2> QED  BY <1>1, <2>2, <2>3, ThreadMoves
<1>5. CASE TriggeringClose(t)
  <2>1. CASE threadState[t] = "NORMAL"
    <3>1. \A e \in ExtOf(t) : stage[e] \in {"on_configure", "on_init", "on_start"}
      BY <1>1, <2>1 DEF ThreadStagesOK
    <3>2. stage' = stage \/ Call(extensions \cap ExtOf(t), "on_stop")
      BY <1>5 DEF TriggeringClose, StopLifeCycleOf
    <3> QED  BY <1>1, <3>1, <3>2, ThreadMoves DEF Lives
  <2>2. CASE threadState[t] # "NORMAL"
    BY <1>5, <2>2 DEF TriggeringClose, Lives
  <2> QED  BY <2>1, <2>2
<1> QED  BY <1>2, <1>3, <1>4, <1>5 DEF ThreadStep

LEMMA NextMoves == IInv /\ [Next]_vars => Lives
<1> SUFFICES ASSUME IInv, [Next]_vars
             PROVE  Lives
  OBVIOUS
<1>1. ASSUME EngineStep \/ EngineCloseAsync \/ UNCHANGED vars
      PROVE  Lives
  <2>1. stage' = stage
    BY <1>1 DEF EngineStep, EngineCloseAsync, EngineClose, FindExtensionInfo,
                OnExtensionThreadClosed, vars, extVars
  <2> QED  BY <2>1 DEF Lives
<1>2. ASSUME NEW e \in Ext, CreateProxy(e)
      PROVE  Lives
  BY <1>2 DEF CreateProxy, Lives
<1> QED  BY <1>1, <1>2, TaskMoves, HelperMoves, ExtensionMoves DEF Next

\* Every extension lives the life that ExtensionLife describes, whatever the
\* close meets on its way (extension/extension.c:761-850,
\* extension/ten_env/on_xxx.c:77-379, extension_thread/on_xxx.c:111-158).
THEOREM LivedInOrder == Spec => LivesInOrder
<1>1. Init => \A e \in Ext : Life(e)!LifeInit
  BY DEF Init, Life!LifeInit
<1>2. IInv /\ [Next]_vars => [\A e \in Ext : [Life(e)!LifeNext]_(stage[e])]_stage
  BY NextMoves DEF Lives
<1> QED  BY <1>1, <1>2, Invariant, PTL DEF Spec, LivesInOrder
=============================================================================

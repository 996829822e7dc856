----------------------------- MODULE Lifecycle -----------------------------
(***************************************************************************)
(* The life of one graph: the engine starts a thread for each extension    *)
(* group, the threads create their extensions and take them through their  *)
(* callbacks, and a close takes all of it down again.                      *)
(*                                                                         *)
(* Engine and extension threads tell each other things by tasks they post  *)
(* to the other's runloop, a queue; one action is one task, one call of an *)
(* on_xxx_done() by an extension, or the answer of an asynchronous helper  *)
(* (an addon, a timer, a proxy).  The groups are the builtin ones, whose   *)
(* own callbacks answer at once.                                           *)
(*                                                                         *)
(* The code of an extension calls each on_xxx_done() once, some time after *)
(* the callback, from the extension's thread.                              *)
(*                                                                         *)
(* The definitions named Bad... are not part of the specification: each is *)
(* a definition that follows with a plausible bug in it, and PROJECT.json  *)
(* says which property of which run finds that bug.                        *)
(***************************************************************************)
EXTENDS Integers, Sequences, FiniteSets

CONSTANTS
    Ext,            \* the extensions of the graph
    Thread,         \* the extension threads, one for each extension group
    ThreadOf,       \* ThreadOf[e]: the thread of e
    CloseFrom,      \* when somebody may close the engine: at "any" time, or
                    \* once start_graph is "answered"
    MaxProxies      \* bound on the ten_env_proxies of an extension

ASSUME GraphAssumption ==
    /\ IsFiniteSet(Thread) /\ Thread # {}
    /\ IsFiniteSet(Ext)
    /\ ThreadOf \in [Ext -> Thread]

ASSUME SettingAssumption ==
    /\ CloseFrom \in {"any", "answered"}
    /\ MaxProxies \in Nat

ExtensionStates ==
    {"INIT", "ON_CONFIGURE_DONE", "ON_INIT_DONE", "ON_START", "ON_START_DONE",
     "ON_STOP_DONE", "ON_DEINIT", "ON_DEINIT_DONE"}

ThreadStates ==
    {"INIT", "CREATING_EXTENSIONS", "NORMAL", "PREPARE_TO_CLOSE", "CLOSED"}

Callbacks == {"on_configure", "on_init", "on_start", "on_stop", "on_deinit"}

\* The tasks of an extension thread's runloop.
ThreadTasks ==
    {"handle_start_msg", "group_on_init_done", "start_life_cycle",
     "stop_life_cycle", "triggering_close", "all_extensions_deleted",
     "group_on_deinit_done"}

\* The tasks of the engine's runloop: its own close, and two from a thread.
CloseTask == [task |-> "close"]
FindInfoTask(t) == [task |-> "find_extension_info", of |-> t]
ThreadClosedTask(t) == [task |-> "extension_thread_closed", of |-> t]
EngineTasks == {CloseTask} \cup {FindInfoTask(t) : t \in Thread}
                           \cup {ThreadClosedTask(t) : t \in Thread}

ExtOf(t) == {e \in Ext : ThreadOf[e] = t}

VARIABLES
    threadState,        \* threadState[t]
    isCloseTriggered,   \* threads that know of the close
    threadQueue,        \* threadQueue[t]: tasks of the thread's runloop
    created,            \* extensions created so far
    extensions,         \* extensions in the list of their thread
    cntOfDeleted,       \* cntOfDeleted[t]: extensions out of the store
    destroying,         \* extensions whose destruction was asked for
    state,              \* state[e]: the extension's state
    asked,              \* asked[e]: callbacks of e without their on_xxx_done
    pathTimers,         \* pathTimers[e]: path timers that are not closed
    proxies,            \* proxies[e]: ten_env_proxies of e
    engineQueue,        \* tasks of the engine's runloop
    isClosing,          \* the engine is closing
    contextClosing,     \* its extension context is closing
    cntOfInitted,       \* threads that are ready
    cntOfClosed,        \* threads that are closed
    startGraph,         \* the start_graph command: "waiting", "ok"
    groups,             \* threads whose extension group still exists
    engineClosed,       \* the engine has closed
    stage               \* history, stage[e]: the last callback of e

threadVars == <<threadState, isCloseTriggered, threadQueue>>
groupVars == <<created, extensions, cntOfDeleted, destroying>>
extVars == <<state, asked, pathTimers, proxies, stage>>
engineVars == <<engineQueue, isClosing, contextClosing, cntOfInitted,
                cntOfClosed, startGraph, groups, engineClosed>>
vars == <<threadVars, groupVars, extVars, engineVars>>

Init ==
    /\ threadState = [t \in Thread |-> "INIT"]
    /\ isCloseTriggered = {}
    /\ threadQueue = [t \in Thread |-> <<"handle_start_msg">>]
    /\ created = {}
    /\ extensions = {}
    /\ cntOfDeleted = [t \in Thread |-> 0]
    /\ destroying = {}
    /\ state = [e \in Ext |-> "INIT"]
    /\ asked = [e \in Ext |-> {}]
    /\ pathTimers = [e \in Ext |-> 0]
    /\ proxies = [e \in Ext |-> 0]
    /\ engineQueue = <<>>
    /\ isClosing = FALSE
    /\ contextClosing = FALSE
    /\ cntOfInitted = 0
    /\ cntOfClosed = 0
    /\ startGraph = "waiting"
    /\ groups = Thread
    /\ engineClosed = FALSE
    /\ stage = [e \in Ext |-> "new"]

-----------------------------------------------------------------------------
\* Runloops and callbacks.

\* Thread t takes the given task and posts others to its own runloop.
Run(t, task, posts) ==
    /\ threadState[t] # "CLOSED"
    /\ threadQueue[t] # <<>>
    /\ Head(threadQueue[t]) = task
    /\ threadQueue' = [threadQueue EXCEPT ![t] = Tail(@) \o posts]

\* The engine takes the given task.
EngineRun(task) ==
    /\ engineQueue # <<>>
    /\ Head(engineQueue) = task
    /\ engineQueue' = Tail(engineQueue)

Post(t, task) == threadQueue' = [threadQueue EXCEPT ![t] = Append(@, task)]
PostToEngine(task) == engineQueue' = Append(engineQueue, task)

\* The callback is called on all extensions of E.
Call(E, callback) ==
    /\ asked' = [e \in Ext |-> IF e \in E THEN asked[e] \cup {callback}
                                          ELSE asked[e]]
    /\ stage' = [e \in Ext |-> IF e \in E THEN callback ELSE stage[e]]

\* The code of e calls on_xxx_done() for a callback...
Answer(e, callback) ==
    /\ callback \in asked[e]
    /\ asked' = [asked EXCEPT ![e] = @ \ {callback}]
    /\ UNCHANGED stage

\* ... which makes the runtime call the next one.
AnswerAndCall(e, callback, next) ==
    /\ callback \in asked[e]
    /\ asked' = [asked EXCEPT ![e] = (@ \ {callback}) \cup {next}]
    /\ stage' = [stage EXCEPT ![e] = next]

BadClosing(e) == FALSE

Closing(e) == ThreadOf[e] \in isCloseTriggered

-----------------------------------------------------------------------------
\* Starting the threads and creating the extensions.

HandleStartMsg(t) ==
    /\ Run(t, "handle_start_msg", <<"group_on_init_done">>)
    /\ UNCHANGED <<threadState, isCloseTriggered, groupVars, extVars,
                   engineVars>>

\* The extensions of t exist: they become the thread's list, and the engine
\* is asked for what the graph says of them.
CreateExtensionsDone(t) ==
    /\ extensions' = extensions \cup ExtOf(t)
    /\ PostToEngine(FindInfoTask(t))

\* A group with no extensions has created them already.
GroupOnInitDone(t) ==
    /\ Run(t, "group_on_init_done", <<>>)
    /\ IF t \in isCloseTriggered
       THEN UNCHANGED <<threadState, extensions, engineQueue>>
       ELSE /\ threadState' =
                   [threadState EXCEPT ![t] = "CREATING_EXTENSIONS"]
            /\ IF ExtOf(t) = {} THEN CreateExtensionsDone(t)
               ELSE UNCHANGED <<extensions, engineQueue>>
    /\ UNCHANGED <<isCloseTriggered, created, cntOfDeleted, destroying,
                   extVars, isClosing, contextClosing, cntOfInitted,
                   cntOfClosed, startGraph, groups, engineClosed>>

\* The extensions of all groups are counted together.
BadExtensionCreated(e) ==
    LET t == ThreadOf[e] IN
    /\ threadState[t] = "CREATING_EXTENSIONS"
    /\ e \notin created
    /\ created' = created \cup {e}
    /\ IF Ext \subseteq created' THEN CreateExtensionsDone(t)
       ELSE UNCHANGED <<extensions, engineQueue>>
    /\ UNCHANGED <<threadVars, cntOfDeleted, destroying, extVars, isClosing,
                   contextClosing, cntOfInitted, cntOfClosed, startGraph,
                   groups, engineClosed>>

\* The addon of e has created it; the last one completes the group.
ExtensionCreated(e) ==
    LET t == ThreadOf[e] IN
    /\ threadState[t] = "CREATING_EXTENSIONS"
    /\ e \notin created
    /\ created' = created \cup {e}
    /\ IF ExtOf(t) \subseteq created' THEN CreateExtensionsDone(t)
       ELSE UNCHANGED <<extensions, engineQueue>>
    /\ UNCHANGED <<threadVars, cntOfDeleted, destroying, extVars, isClosing,
                   contextClosing, cntOfInitted, cntOfClosed, startGraph,
                   groups, engineClosed>>

BadFindExtensionInfo(t) ==
    /\ EngineRun(FindInfoTask(t))
    /\ IF isClosing
       THEN /\ Post(t, "stop_life_cycle")
            /\ UNCHANGED <<cntOfInitted, startGraph>>
       ELSE /\ Post(t, "start_life_cycle")
            /\ cntOfInitted' = cntOfInitted + 1
            /\ startGraph' = IF cntOfInitted' = Cardinality(Thread) THEN "ok"
                             ELSE startGraph
    /\ UNCHANGED <<threadState, isCloseTriggered, groupVars, extVars,
                   isClosing, contextClosing, cntOfClosed, groups,
                   engineClosed>>

\* The engine's flag of the thread is read here, on the engine's thread.
FindExtensionInfo(t) ==
    /\ EngineRun(FindInfoTask(t))
    /\ IF t \in isCloseTriggered
       THEN /\ Post(t, "stop_life_cycle")
            /\ UNCHANGED <<cntOfInitted, startGraph>>
       ELSE /\ Post(t, "start_life_cycle")
            /\ cntOfInitted' = cntOfInitted + 1
            /\ startGraph' = IF cntOfInitted' = Cardinality(Thread) THEN "ok"
                             ELSE startGraph
    /\ UNCHANGED <<threadState, isCloseTriggered, groupVars, extVars,
                   isClosing, contextClosing, cntOfClosed, groups,
                   engineClosed>>

StartLifeCycle(t) ==
    /\ Run(t, "start_life_cycle", <<>>)
    /\ IF t \in isCloseTriggered
       THEN UNCHANGED <<threadState, asked, stage>>
       ELSE /\ threadState' = [threadState EXCEPT ![t] = "NORMAL"]
            /\ Call(extensions \cap ExtOf(t), "on_configure")
    /\ UNCHANGED <<isCloseTriggered, groupVars, state, pathTimers, proxies,
                   engineVars>>

-----------------------------------------------------------------------------
\* What the code of an extension may call.

\* on_configure_done() also creates the two path timers.
OnConfigureDone(e) ==
    /\ IF state[e] = "INIT"
       THEN /\ state' = [state EXCEPT ![e] = "ON_CONFIGURE_DONE"]
            /\ IF Closing(e)
               THEN Answer(e, "on_configure") /\ UNCHANGED pathTimers
               ELSE /\ AnswerAndCall(e, "on_configure", "on_init")
                    /\ pathTimers' = [pathTimers EXCEPT ![e] = 2]
       ELSE Answer(e, "on_configure") /\ UNCHANGED <<state, pathTimers>>
    /\ UNCHANGED <<threadVars, groupVars, proxies, engineVars>>

OnInitDone(e) ==
    /\ IF state[e] # "ON_CONFIGURE_DONE"
       THEN Answer(e, "on_init") /\ UNCHANGED state
       ELSE IF Closing(e)
       THEN /\ Answer(e, "on_init")
            /\ state' = [state EXCEPT ![e] = "ON_INIT_DONE"]
       ELSE /\ AnswerAndCall(e, "on_init", "on_start")
            /\ state' = [state EXCEPT ![e] = "ON_START"]
    /\ UNCHANGED <<threadVars, groupVars, pathTimers, proxies, engineVars>>

OnStartDone(e) ==
    /\ Answer(e, "on_start")
    /\ state' = [state EXCEPT ![e] = IF @ = "ON_START" THEN "ON_START_DONE"
                                     ELSE @]
    /\ UNCHANGED <<threadVars, groupVars, pathTimers, proxies, engineVars>>

\* The call fails in any state but ON_START_DONE, and is not made again.
OnStopDone(e) ==
    /\ IF state[e] # "ON_START_DONE"
       THEN Answer(e, "on_stop") /\ UNCHANGED state
       ELSE IF pathTimers[e] = 0
       THEN /\ AnswerAndCall(e, "on_stop", "on_deinit")
            /\ state' = [state EXCEPT ![e] = "ON_DEINIT"]
       ELSE /\ Answer(e, "on_stop")
            /\ state' = [state EXCEPT ![e] = "ON_STOP_DONE"]
    /\ UNCHANGED <<threadVars, groupVars, pathTimers, proxies, engineVars>>

\* One of the path timers has closed; the last one lets e go on.
OnTimerClosed(e) ==
    /\ state[e] = "ON_STOP_DONE"
    /\ pathTimers[e] > 0
    /\ pathTimers' = [pathTimers EXCEPT ![e] = @ - 1]
    /\ IF pathTimers[e] = 1
       THEN /\ Call({e}, "on_deinit")
            /\ state' = [state EXCEPT ![e] = "ON_DEINIT"]
       ELSE UNCHANGED <<asked, stage, state>>
    /\ UNCHANGED <<threadVars, groupVars, proxies, engineVars>>

BadDeinitDone(e) ==
    LET t == ThreadOf[e] IN
    /\ state' = [state EXCEPT ![e] = "ON_DEINIT_DONE"]
    /\ cntOfDeleted' = [cntOfDeleted EXCEPT ![t] = @ + 1]
    /\ destroying' = destroying \cup {e}

\* e leaves the store of its thread; the last one has all of them destroyed.
DeinitDone(e) ==
    LET t == ThreadOf[e] IN
    /\ state' = [state EXCEPT ![e] = "ON_DEINIT_DONE"]
    /\ cntOfDeleted' = [cntOfDeleted EXCEPT ![t] = @ + 1]
    /\ destroying' = IF cntOfDeleted'[t] = Cardinality(extensions \cap ExtOf(t))
                     THEN destroying \cup (extensions \cap ExtOf(t))
                     ELSE destroying

BadOnDeinitDone(e) ==
    /\ Answer(e, "on_deinit")
    /\ IF proxies[e] = 0 THEN DeinitDone(e)
       ELSE UNCHANGED <<state, cntOfDeleted, destroying>>
    /\ UNCHANGED <<threadVars, created, extensions, pathTimers, proxies,
                   engineVars>>

\* A proxy that is left keeps e from going on.
OnDeinitDone(e) ==
    /\ Answer(e, "on_deinit")
    /\ IF state[e] = "ON_DEINIT" /\ proxies[e] = 0
       THEN DeinitDone(e)
       ELSE UNCHANGED <<state, cntOfDeleted, destroying>>
    /\ UNCHANGED <<threadVars, created, extensions, pathTimers, proxies,
                   engineVars>>

\* The code of e makes a ten_env_proxy for another thread.
CreateProxy(e) ==
    /\ stage[e] \notin {"new", "destroyed"}
    /\ state[e] # "ON_DEINIT_DONE"
    /\ proxies[e] < MaxProxies
    /\ proxies' = [proxies EXCEPT ![e] = @ + 1]
    /\ UNCHANGED <<threadVars, groupVars, state, asked, pathTimers, stage,
                   engineVars>>

BadDeleteProxy(e) ==
    /\ proxies[e] > 0
    /\ proxies' = [proxies EXCEPT ![e] = @ - 1]
    /\ UNCHANGED <<threadVars, groupVars, state, asked, pathTimers, stage,
                   engineVars>>

\* The last thread that holds a proxy has released it: without a proxy an
\* extension in on_deinit is done.
DeleteProxy(e) ==
    /\ proxies[e] > 0
    /\ proxies' = [proxies EXCEPT ![e] = @ - 1]
    /\ IF proxies[e] = 1 /\ state[e] = "ON_DEINIT"
       THEN DeinitDone(e)
       ELSE UNCHANGED <<state, cntOfDeleted, destroying>>
    /\ UNCHANGED <<threadVars, created, extensions, asked, pathTimers, stage,
                   engineVars>>

-----------------------------------------------------------------------------
\* Closing.

MayCloseNow ==
    \/ CloseFrom = "any"
    \/ CloseFrom = "answered" /\ startGraph = "ok"

\* A stop_graph command, the app or a remote closes the engine.
EngineCloseAsync ==
    /\ MayCloseNow
    /\ ~isClosing
    /\ isClosing' = TRUE
    /\ PostToEngine(CloseTask)
    /\ UNCHANGED <<threadVars, groupVars, extVars, contextClosing,
                   cntOfInitted, cntOfClosed, startGraph, groups,
                   engineClosed>>

\* The extension context is closed once; an engine without one is done.
EngineClose ==
    /\ EngineRun(CloseTask)
    /\ engineClosed' = (engineClosed \/ groups = {})
    /\ IF groups # {} /\ ~contextClosing
       THEN /\ contextClosing' = TRUE
            /\ threadQueue' = [t \in Thread |->
                                   Append(threadQueue[t], "triggering_close")]
       ELSE UNCHANGED <<contextClosing, threadQueue>>
    /\ UNCHANGED <<threadState, isCloseTriggered, groupVars, extVars,
                   isClosing, cntOfInitted, cntOfClosed, startGraph, groups>>

\* The group's on_deinit() answers at once.
GroupOnDeinit == <<"group_on_deinit_done">>

StopLifeCycleOf(t) ==
    /\ threadState' = [threadState EXCEPT ![t] = "PREPARE_TO_CLOSE"]
    /\ Call(extensions \cap ExtOf(t), "on_stop")

TriggeringClose(t) ==
    /\ isCloseTriggered' = isCloseTriggered \cup {t}
    /\ IF t \notin isCloseTriggered /\ threadState[t] = "INIT"
       THEN Run(t, "triggering_close", GroupOnDeinit)
       ELSE Run(t, "triggering_close", <<>>)
    /\ IF t \notin isCloseTriggered /\ threadState[t] = "NORMAL"
       THEN StopLifeCycleOf(t)
       ELSE UNCHANGED <<threadState, asked, stage>>
    /\ UNCHANGED <<groupVars, state, pathTimers, proxies, engineVars>>

StopLifeCycle(t) ==
    /\ Run(t, "stop_life_cycle", <<>>)
    /\ StopLifeCycleOf(t)
    /\ UNCHANGED <<isCloseTriggered, groupVars, state, pathTimers, proxies,
                   engineVars>>

BadExtensionDestroyed(e) ==
    LET t == ThreadOf[e] IN
    /\ e \in destroying
    /\ created' = created \ {e}
    /\ stage' = [stage EXCEPT ![e] = "destroyed"]
    /\ asked' = [asked EXCEPT ![e] = {}]
    /\ IF created' \cap ExtOf(t) = {} THEN Post(t, "all_extensions_deleted")
       ELSE UNCHANGED threadQueue
    /\ UNCHANGED <<threadState, isCloseTriggered, extensions, cntOfDeleted,
                   destroying, state, pathTimers, proxies, engineVars>>

\* The addon of e has destroyed it; the last one completes the group.
ExtensionDestroyed(e) ==
    LET t == ThreadOf[e] IN
    /\ e \in destroying
    /\ created' = created \ {e}
    /\ destroying' = destroying \ {e}
    /\ stage' = [stage EXCEPT ![e] = "destroyed"]
    /\ asked' = [asked EXCEPT ![e] = {}]
    /\ IF destroying' \cap ExtOf(t) = {} THEN Post(t, "all_extensions_deleted")
       ELSE UNCHANGED threadQueue
    /\ UNCHANGED <<threadState, isCloseTriggered, extensions, cntOfDeleted,
                   state, pathTimers, proxies, engineVars>>

AllExtensionsDeleted(t) ==
    /\ Run(t, "all_extensions_deleted", GroupOnDeinit)
    /\ extensions' = extensions \ ExtOf(t)
    /\ UNCHANGED <<threadState, isCloseTriggered, created, cntOfDeleted,
                   destroying, extVars, engineVars>>

\* The runloop stops, and the thread's last act is to tell the engine.
GroupOnDeinitDone(t) ==
    /\ Run(t, "group_on_deinit_done", <<>>)
    /\ threadState' = [threadState EXCEPT ![t] = "CLOSED"]
    /\ PostToEngine(ThreadClosedTask(t))
    /\ UNCHANGED <<isCloseTriggered, groupVars, extVars, isClosing,
                   contextClosing, cntOfInitted, cntOfClosed, startGraph,
                   groups, engineClosed>>

OnExtensionThreadClosed(t) ==
    /\ EngineRun(ThreadClosedTask(t))
    /\ cntOfClosed' = cntOfClosed + 1
    /\ UNCHANGED <<threadVars, groupVars, extVars, isClosing, contextClosing,
                   cntOfInitted, startGraph, groups, engineClosed>>

\* Once all threads are gone the groups are destroyed by their addon; the
\* last one closes the context and with it an engine that is closing.
GroupDestroyed(t) ==
    /\ cntOfClosed = Cardinality(Thread)
    /\ t \in groups
    /\ groups' = groups \ {t}
    /\ engineClosed' = (engineClosed \/ (groups' = {} /\ isClosing))
    /\ UNCHANGED <<threadVars, groupVars, extVars, engineQueue, isClosing,
                   contextClosing, cntOfInitted, cntOfClosed, startGraph>>

-----------------------------------------------------------------------------
ThreadStep(t) ==
    \/ HandleStartMsg(t) \/ GroupOnInitDone(t) \/ StartLifeCycle(t)
    \/ StopLifeCycle(t) \/ TriggeringClose(t) \/ AllExtensionsDeleted(t)
    \/ GroupOnDeinitDone(t)

EngineStep ==
    \/ EngineClose
    \/ \E t \in Thread : \/ FindExtensionInfo(t)
                         \/ OnExtensionThreadClosed(t)

\* The answers of the addons and the timers.
HelperStep ==
    \/ \E e \in Ext : \/ ExtensionCreated(e)
                      \/ OnTimerClosed(e)
                      \/ ExtensionDestroyed(e)
    \/ \E t \in Thread : GroupDestroyed(t)

\* What extensions do in the end once it is their turn.
ExtensionStep(e) ==
    \/ OnConfigureDone(e) \/ OnInitDone(e) \/ OnStartDone(e)
    \/ OnStopDone(e) \/ OnDeinitDone(e) \/ DeleteProxy(e)

Next ==
    \/ \E t \in Thread : ThreadStep(t)
    \/ EngineStep
    \/ HelperStep
    \/ \E e \in Ext : ExtensionStep(e) \/ CreateProxy(e)
    \/ EngineCloseAsync

Spec == Init /\ [][Next]_vars

\* Every runloop takes its tasks in turn, the helpers answer, and so does the
\* code of the extensions, which also releases its proxies; nobody has to
\* close the engine.
FairSpec ==
    /\ Spec
    /\ \A t \in Thread : WF_vars(ThreadStep(t))
    /\ WF_vars(EngineStep)
    /\ WF_vars(\E e \in Ext : ExtensionCreated(e))
    /\ WF_vars(\E e \in Ext : OnTimerClosed(e))
    /\ WF_vars(\E e \in Ext : ExtensionDestroyed(e))
    /\ WF_vars(\E t \in Thread : GroupDestroyed(t))
    /\ \A e \in Ext :
        /\ WF_vars(OnConfigureDone(e))
        /\ WF_vars(OnInitDone(e))
        /\ WF_vars(OnStartDone(e))
        /\ WF_vars(OnStopDone(e))
        /\ WF_vars(OnDeinitDone(e))
        /\ WF_vars(DeleteProxy(e))

-----------------------------------------------------------------------------
\* Properties.

TypeOK ==
    /\ threadState \in [Thread -> ThreadStates]
    /\ isCloseTriggered \subseteq Thread
    /\ threadQueue \in [Thread -> Seq(ThreadTasks)]
    /\ created \subseteq Ext
    /\ extensions \subseteq Ext
    /\ destroying \subseteq created
    /\ cntOfDeleted \in [Thread -> Nat]
    /\ state \in [Ext -> ExtensionStates]
    /\ asked \in [Ext -> SUBSET Callbacks]
    /\ pathTimers \in [Ext -> 0 .. 2]
    /\ proxies \in [Ext -> 0 .. MaxProxies]
    /\ engineQueue \in Seq(EngineTasks)
    /\ {isClosing, contextClosing, engineClosed} \subseteq BOOLEAN
    /\ cntOfInitted \in Nat /\ cntOfClosed \in Nat
    /\ startGraph \in {"waiting", "ok"}
    /\ groups \subseteq Thread
    /\ stage \in [Ext -> Callbacks \cup {"new", "destroyed"}]

\* Every extension lives the life that ExtensionLife describes, whatever the
\* close meets on its way (extension/extension.c:761-850,
\* extension/ten_env/on_xxx.c:77-379, extension_thread/on_xxx.c:111-158).
Life(e) == INSTANCE ExtensionLife WITH stage <- stage[e]

LivesInOrder ==
    /\ \A e \in Ext : Life(e)!LifeInit
    /\ [][\A e \in Ext : [Life(e)!LifeNext]_(stage[e])]_stage

\* The close of the engine comes last: its context goes when every thread has
\* ended, a thread ends when the last of its extensions was destroyed, and an
\* extension is destroyed when all of its thread are done with on_deinit
\* ("the closing of the engine is always after the closing of the extension
\* thread", extension_thread/extension_thread.c:182-184).
ClosesInOrder ==
    /\ engineClosed => groups = {} /\ isClosing
    /\ groups # Thread => \A t \in Thread : threadState[t] = "CLOSED"
    /\ \A t \in Thread : threadState[t] = "CLOSED" =>
         /\ t \in isCloseTriggered
         /\ created \cap ExtOf(t) = {}
    /\ \A e \in destroying : \A x \in ExtOf(ThreadOf[e]) :
         state[x] = "ON_DEINIT_DONE"

\* The close reaches a thread once and in a state it can deal with: the
\* assertion in extension_thread/extension_thread.c:336-339 is out of reach.
CloseIsExpected ==
    \A t \in Thread :
        /\ threadQueue[t] # <<>>
        /\ Head(threadQueue[t]) = "triggering_close"
        /\ t \notin isCloseTriggered
        => threadState[t] \notin {"PREPARE_TO_CLOSE", "CLOSED"}

\* The count of deleted extensions, which decides when a thread may go on, is
\* the number of extensions that are through with on_deinit
\* (extension/ten_env/on_xxx.c:313-317).
CountsMatch ==
    \A t \in Thread :
        cntOfDeleted[t] =
            Cardinality({e \in ExtOf(t) : state[e] = "ON_DEINIT_DONE"})

AllStarted == \A e \in Ext : state[e] = "ON_START_DONE"

\* Without a close the graph comes up: start_graph is answered, and every
\* extension gets as far as on_start_done (engine/on_xxx.c:49-99).
ComesUp == []~isClosing => <>(startGraph = "ok" /\ AllStarted)

\* A close that finds all extensions started, when no thread knows of it yet,
\* ends, whatever else is on its way then (engine/internal/close.c:226-237).
StartedCloses == isClosing /\ isCloseTriggered = {} /\ AllStarted ~> engineClosed

\* Every close ends (engine/internal/close.c:226-237).
ClosesDown == isClosing ~> engineClosed

\* A thread that knows of the close begins to close its extensions
\* (extension_thread/extension_thread.c:325-330).
CloseGoesOn ==
    \A t \in Thread :
        t \in isCloseTriggered ~>
            threadState[t] \in {"PREPARE_TO_CLOSE", "CLOSED"}

\* An extension is told to stop in on_configure, on_init or on_start and not
\* before (docs/ten_framework/ten_packages/extension.md:35-42).
StoppedAfterConfigure ==
    [][\A e \in Ext : stage'[e] = "on_stop" => stage[e] # "new"]_vars

\* on_deinit ends when the extension says so with on_deinit_done()
\* (docs/ten_framework/ten_packages/extension.md:15-23).
DeinitEndedByExtension ==
    \A e \in Ext : state[e] = "ON_DEINIT_DONE" => "on_deinit" \notin asked[e]

\* With the answer OK to start_graph the whole graph is built up: all its
\* extensions are there (engine/on_xxx.c:58-61).
AnsweredWhenCreated ==
    [][startGraph' # startGraph => created = Ext]_vars
=============================================================================

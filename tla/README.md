# The TEN runtime in TLA+

This directory is a formal model of the core of the TEN framework runtime
(`src/core/src/ten_runtime`, written in C): how extensions of a graph exchange
commands and results, how long a command may take, how a graph comes up and is
closed, how it comes up across apps, how threads of the user reach an extension, how
clients reach a graph, and how an app with everything in it ends; and of the reader-writer lock below it all
(`src/core/src/ten_utils`). TLC checks the models on small graphs; TLAPS proves the most
important invariants for graphs of any size.

`PROJECT.json` maps each definition to the lines it models, and lists the runs,
the hazards of the code, the theorems, and for each property a plausible bug
("mutant") that the property's run finds. Paths below are relative to
`src/core/src/ten_runtime/` unless they begin with `src/`.

## 1. The system

An **app** hosts **engines**, one for each running graph. An engine has a thread
and an **extension context**, which owns one **extension thread** for each
**extension group**; the **extensions** of a group share that thread. The
engine and the extension threads share almost nothing: each has a runloop with a
queue of tasks, and they post tasks to one another. Other apps are reached
through **remotes**, **connections** and **protocols**.

User code (an extension) implements callbacks: `on_configure`, `on_init`,
`on_start`, `on_stop`, `on_deinit` and the message callbacks. It ends each
life-cycle callback by calling the matching `on_xxx_done()`, then or later. It
may send commands with or without a **result handler**, forward commands, and
return results, partial ones too.

| component | state | operations | interacts with |
|---|---|---|---|
| path table, paths, path groups (`path/`) | IN and OUT paths of an extension; groups of OUT paths with their policy; a cached result per path | add IN / OUT path, set result, determine the actual result, remove a path or a group | extension (calls) |
| extension: messages (`extension/msg_handling.c`, `extension.c`, `ten_env/internal/send.c`, `return.c`) | state, pending messages, handler contexts | send, forward, return, handle an incoming message, dispatch | its thread (calls), the engine (tasks) |
| extension: timers and closing (`extension/internal/`) | two path timers, timeout settings | expire IN / OUT paths, close timers, flush the paths | timers (callbacks) |
| extension: life cycle (`extension/ten_env/on_xxx.c`) | state | `on_configure_done` to `on_deinit_done` | its thread |
| extension thread (`extension_thread/`) | state, `is_close_triggered`, extension store, counters, queue | start, create extensions, start and stop life cycles, deliver messages, close | engine (tasks), group (calls) |
| extension group (`extension_group/`) | state, counts of extensions to create and destroy | create and destroy extensions through addons | addons (asynchronous) |
| extension context (`extension_context/`) | threads, groups, counters, `is_closing` | start threads, close them, count the closed | engine |
| engine (`engine/`) | queues, `is_closing`, `start_graph` command, remotes | dispatch, count ready threads, close | app, threads, remotes |
| app (`app/`) | engines, predefined graphs, orphan connections | route, start and close engines | engines, connections |
| connection, migration, protocol, remote | attachment, migration state, closing flags | migrate to an engine, close in order | app and engine threads |
| ten_env, ten_env_proxy | who it is attached to, proxies, lock mode | notify, acquire and release, delete | foreign threads |
| runloop, stream migration, locks (`ten_utils`) | task queues, pipes between loops, reader and writer counters | post, run, stop; hand a socket over; lock, unlock | every thread |
| timer | times, timeout | enable, stop, close | runloop |
| messages, schemas, conversions, metadata, addons, bindings | data | parse, check, convert, load | everything |

### What is hard here

* A command to several destinations has several OUT paths, a group and one
  handler context; results, streamed results, timeouts and the flush of a close
  meet there in any order.
* On one thread a message is handled inside the call that sends it, so user code
  is re-entered while the runtime iterates over its tables.
* Ids identify paths, and a command may come back to an extension it was at.
* Two independent periodic timers must remove paths in the right order, with
  arithmetic at the edge of 64 bits.
* A close may arrive in any state of any thread, and the flags it sets are read
  by other threads.
* Extensions of one thread stop at their own pace.
* A thread of the user may stop the extension's thread and act in its place; an
  extension must outlive everybody who can reach it, and nobody may wait for ever.
* A connection changes its owner and its thread while it is read, closed from
  either end, or both; its messages must keep their order.
* A close goes down through five layers and comes back as callbacks and tasks of
  several loops, in any order.
* Apps of a graph connect to each other at the same time, and one of two channels has
  to go; results and commands of two neighbours cross on the way.
* A lock of atomic counters that wrap around has to be fair to readers and writers.

The 40 places where this bites are the `hazards` of `PROJECT.json`, each with
the properties that look after it or the reason why none does yet.

## 2. What makes it correct

* **Paths**: the handler is told what the result policy promises, once complete
  (`PolicyVerdict`, `PromiseKept`); its context is neither leaked nor used after it was
  freed (`HandlerContexts`); groups and table agree (`GroupsMatchTable`); a
  result reaches the send call it belongs to (`ResultsGoHome`, but see section 6).
* **Messages**: handed over in the order of the send calls (`HandedInOrder`), but for a
  sender that is called back by its own thread in the middle of one; never to an extension
  that is gone (`NoResultForDeleted`, but see section 6); every handler is told in the end
  (`HandlersTold`), without timeouts too unless a schema refuses the result, whose IN path then
  stays (`ToldOrRefused`).
* **Close of an extension**: nobody waits in `on_deinit` (`AllHandlersCalled`),
  the tables are empty (`TablesEmptyAtDestroy`), the close ends (`ClosedDown`).
* **Timeouts**: the answer finds its IN path (`AnswerFindsWay`); no sum wraps
  around (`TimeNotLost`).
* **Life cycle**: callbacks in order (`LivesInOrder`); owners close after what
  they own (`ClosesInOrder`); counters count (`CountsMatch`); the close is
  expected where it arrives (`CloseIsExpected`); the graph comes up and a close
  ends (`ComesUp`, `StartedCloses`, `ClosesDown`).
* **A graph over several apps**: no assertion fails whatever comes first
  (`AssertionsHold`, but see `OneOriginal` in section 6); two neighbours use the same
  channel (`ChannelsAgree`); OK means that it is there (`OkMeansBuilt`); it comes up
  everywhere or nowhere (`GraphSettles`).
* **Proxies**: one thread at a time has the extension for itself
  (`LockModeExclusive`); nothing goes that is still used (`AliveWhileUsed`); no
  outer thread is kept for ever (`OuterThreadsGo`); on_deinit ends with the last
  proxy (`DeinitEnds`).
* **Connections and the app**: no task or message meets a connection or engine
  that is gone (`NothingDangles`); messages in order across a migration
  (`RestBehindFirst`); on_deinit of the app after all else (`EndsClean`) and, if it listens,
  once (`DeinitOnce`); a close ends (`AppEnds`).
* **The lock**: writers alone (`MutualExclusion`), in order (`WritersInOrder`), no
  reader overtaken twice (`PhaseFair`), everybody gets in (`EveryoneEnters`).

## 3. The modules

| module | what it is |
|---|---|
| `CmdFlow` | commands, results, paths, groups, queues, flush: the core |
| `ResultPromise` | abstract: what a handler may rely on; `CmdFlow` refines it |
| `MCCmdFlow` | small graphs |
| `CmdFlowProofs` | type correctness, the inductive invariant of the tables, what a close leaves, the refinement |
| `CmdFlowResultProofs` | results find their send calls, handlers hear what the policy promises, commands keep their order |
| `PathTimeout` | the two path timers of an extension, with a clock |
| `MCPathTimeout` | small settings |
| `PathTimeoutProofs` | the timeouts for all settings |
| `Lifecycle` | engine, threads, groups and extensions, up and down |
| `ExtensionLife` | abstract: the order of one extension's callbacks; `Lifecycle` refines it |
| `MCLifecycle` | small graphs |
| `LifecycleProofs` | the life of a graph, for any graph and a close at any moment |
| `EnvProxy` | outer threads, proxies and the lock mode of one extension |
| `MCEnvProxy` | who uses which proxy |
| `EnvProxyProofs` | the lock mode is exclusive, proxies outlive their use |
| `AppClose` | clients, connections, migration, engines and the app, up and down |
| `MCAppClose` | small apps |
| `AppCloseProofs` | the types of `AppClose`, and with `Races = FALSE` the close of an app, for any clients, graphs and configurations |
| `StartGraph` | `start_graph` across apps: remotes, duplicate channels, the error path |
| `MCStartGraph` | small graphs of apps |
| `RWLock` | abstract: a phase-fair lock; `PhaseFairLock` refines it |
| `PhaseFairLock` | the lock of `rwlock.c`, one action per atomic operation |
| `MCPhaseFairLock` | four threads |
| `PhaseFairLockProofs` | the lock for all numbers of threads, and the refinement |

Operators named `Bad...` are not part of any specification: each is the
definition below it with a plausible bug, for the mutants in `PROJECT.json`.

### CmdFlow

*State.* For each extension: the part of its life the message handling depends on
(`state`), `inPaths`, `outPaths`, `live` (handler contexts that are allocated),
`held` (commands its code has not answered), `pending` (messages before
`on_start_done`), `flush` (OUT paths whose made-up result is still to handle).
For each send call `group`. For each thread `queue` (its runloop), `direct` (the
call stack of messages still to dispatch), `active` (the extension whose
callback runs), `stopping`. For the engine `engineQueue` and `engine`.
History variables `sent`, `heard`, `told` record send calls, results that reached
their paths and what handlers were told; no guard reads them. (The context of a
message or IN path is history too.)

*Steps.* One action is one user call (`Send`, `Forward`, `ReturnResult`,
`ReturnPartial`), one message (`HandleDirect`, `DispatchLeft`, `Receive`, `ReceivePending`), one expired
path (`InPathTimeout`, `OutPathTimeout`), one engine task (`EngineDispatch`,
`EngineClose`, `CloseThreads`), or one step of the life cycle (`StartDone`, `StopDone`,
`TimersClosed`, `FlushOne`, `Deinit`, `DeinitDone`). `Emit` is the loop of a
send call over its messages (`extension/extension.c:737-743`): those for other threads go to the
engine's queue, up to the first one for an extension of the same thread. That one is handled before the loop goes on,
which is what the call inside a call amounts to: it and the rest of the loop go to the front of
`direct`, `HandleDirect` handles the message and `DispatchLeft` posts the rest when the callback is
over; meanwhile the callback may send, and what it sends to other threads is posted before that rest. The code
that made the outer call continues when `active` is it again. `HandleInMsg` is
`ten_extension_handle_in_msg`, with its drops, its wait before `on_start_done`, the
path table and the handlers. A result goes through `TakeResult`: `Answered` caches
it, `Resolve` applies the policy, `Decided` and `LeftInGroup` say which paths
go and what is left of the group, and `Deliver` is the handler that frees the context.
A result on its way out of an extension is asked by the schema of that extension before its IN path goes
(`extension/extension.c:679-685`). `ReturnTo` is a result that passes. `Refused` is one that does not: nothing is
sent and the IN path stays. User code is told and may return another result, so that its call has changed nothing; but
the runtime, which returns the result of a relay (`extension/msg_handling.c:285`) or the error for
a command that fails the schema (`extension/extension.c:1045`), does not look at the answer.

*Abstractions.* Message contents are gone; a schema check is a choice between pass and
fail (`SchemaErrors`). Message conversions are left out, so one command has one IN
path. A timeout may strike at any time (the clock is in `PathTimeout`), one path at a time.
Threads begin in NORMAL, extensions before `on_start_done`: how they got there is in
`Lifecycle`. A relay returns the result it gets without looking at it. A callback
that makes several calls is several steps. Messages from remotes are left out.
The code asserts that streamed results and several destinations do not meet
(`extension/msg_handling.c:130`), and so does `StreamingAssumption`.

### ResultPromise

Each send call with a handler is registered once, settled once, and an extension
leaves the message world only when none of its handlers waits. `CmdFlow`'s mapping is
`waiting <- live`, `settled` the contexts told of completion, `open` the
extensions not yet in `on_deinit`.

### PathTimeout

One extension that passes commands on. `info` holds the three timeouts;
`ConfigureDone` reads the `_ten` section, or not, adjusts the IN timeout
(`LeastInTimeout`, with the overflow checks of `extension/internal/metadata.c:138-153`)
and starts both timers at arbitrary phases. `Receive`, `Forward` and `Answer` make and remove
paths, `InTimer` and `OutTimer` are the periodic checks, `Tick` lets time pass.
Addition is modulo `MaxUInt + 1`, as in C. The timers are re-armed from the time the
runloop last looked at the clock, so the next check comes up to one interval after
the present one, and any time in between is possible. The extension answers
only what it was answered.

### Lifecycle

`threadQueue` and `engineQueue` are the runloops; a token in them is a task of the
code. `HandleStartMsg` ... `GroupOnDeinitDone` are the tasks of a thread,
`FindExtensionInfo`, `EngineClose`, `OnExtensionThreadClosed` those of the engine. `ExtensionCreated`,
`ExtensionDestroyed`, `OnTimerClosed` and `GroupDestroyed` are the asynchronous answers of
addons and timers; they come at any time. `OnConfigureDone` ... `OnDeinitDone` are the calls of the
extension's code, each once for its callback (`asked`), with the code's refusals: for instance
`on_stop_done()` does nothing but in ON_START_DONE. `CreateProxy` and `DeleteProxy`
are the `ten_env_proxy`s, whose last one ends `on_deinit`. `FindExtensionInfo` reads
another thread's `is_close_triggered`, at the moment it runs; a close between this and the
task it posts is an interleaving of the model. `stage` is history: the last callback.

*Abstractions.* Groups are the builtin ones, whose own callbacks answer at once and
whose creations succeed. There are no engine timers and no remotes, so a closing
engine waits for its extension context only. A callback that answers at once is a callback and a later
step: extensions of a thread do not see the difference. Loops over the extensions of a
thread are one step. Ids, names and graph data are gone.

### ExtensionLife

The order of one extension's callbacks: up one stage after the other, to
`on_stop` from anywhere on the way, then `on_deinit` and the end. That `on_stop` may come
before `on_configure` is what the code does; see section 6.

### EnvProxy

One extension, the runloop of its thread and the threads outside. `pc[o]` says where
an outer thread is: `idle`, on its way into the lock mode (`mode`: before the
`lock_mode_lock`, `lock`: before the proxy's lock, `wait`: for the extension's
thread, `told`, `in`), inside a synchronous notify (`sync`), the last to release its
proxy (`last`), or `gone`. `AcquireLockMode` is the task that blocks the extension's
thread, `Unblock` the mutex it gets back, `ReleaseLockModeTask` the task it posted for
itself before it blocked. The flag `inLockMode` is written by the extension's thread
and read by whoever holds the mutex, as in the code. `CreateProxy` gives the proxy to
all its users at once (`threadCnt`), `ReleaseProxy` counts down, and `PostDeleted`
is a step of its own, because the lock is given back before the task is posted
(`ten_env_proxy/ten_env_proxy.c:240`). `ProxyIsDeleted` ends on_deinit, whether the extension
asked for it or not.

*Abstractions.* The extension's callbacks and posted functions are one place
(`code`) in which it may create proxies and call on_deinit_done. The mutexes are not fair.
An outer thread uses one proxy, and its functions do not use other locks. `Lifecycle` has the
proxies too, as a count; their hold on on_deinit is the same.

### AppClose

Each loop has a queue of tasks and a flag `draining`: libuv calls
`task_available_callback`, which runs tasks until none is left, so a callback of
a stream never comes between two queued tasks. `conn[c].at` is the attachment
(`accepting`, `app`, `moving`, `engine`, `remote`, `gone`), `hop` the stage of the
migration, `first` and `rest` the message that decides where the connection belongs and
whether more was read behind it. `FirstToEngine`, `GraphNotFound` and `FirstClosesApp`
are the outcomes of that message in the app's thread. `PipeReady` to `MigrationDone` are the
hand-over of the socket, in which the engine's thread blocks (`waits`) until the app's thread has
cleaned the connection. `InMsgs` is the engine's queue of messages: a connection that sent one
becomes a remote. Closing: `CloseAppTask`, `CloseEngine`, `Shut` go down; `OrphanClosed`,
`RemoteClosed`, `ContextClosed`, `EngineThreadEnds`, `EngineClosed`, `EndpointClosed`
go up, each with `EngineProceeds` or `Proceeds`, which ask whether it was the last.

`mode` is chosen in `Init`: one loop for all or one for each graph, long_running_mode of app and
engines, an endpoint or none, clients, graphs.

*Abstractions.* A protocol and its stream are one record: the close of the
protocol is the close of the stream, whose end is reported later. The end of the
extension context (`ContextEnds`) is all of `Lifecycle`. The wait of the engine's
thread for the cleaned connection has a timeout of five seconds, with an assertion; the
model has no timeout. One message at a time is read from a connection that has not
migrated; messages later than that only matter to extensions and are left out.
`Races = FALSE` keeps clients from arriving where something is closing, and closes from
happening while a connection is on its way: the code does not handle them (section 6).

### StartGraph

One engine per app, for one graph, and the channels between them: `<<a, b>>` is the connection
that the engine of `a` makes to app `b`. `engine[a]` has its remotes, `weak` (by the neighbour) and
`normal` (the channel in use for each neighbour), the command it keeps while it waits for
neighbours (`original`), the one it keeps while its extensions start (`requester`), the OUT paths of the
commands it passed on (`out`, `oks`), its queue of commands and the tasks of its loop. `wire[c]`
holds what is under way on a channel, in both directions. `failed` names an assertion that failed; the
system stops there.

`HandleInMsgs` takes all commands of the queue, and the one after the other are `HandleStartGraph`: nothing comes
between them (`Free`). A command over a channel that is a duplicate by the order of uris is answered
`duplicate`; otherwise its connection becomes a normal remote, and `Connect` begins a connection to
each neighbour without remote. The remote itself is made by a later task, `Created`, which looks for a
duplicate again. `Connected` sends the command, `ConnectError` answers with an error and closes the engine
(`GivenUp`), `Receive` takes a result, makes a weak remote a normal one or closes it (`Settled`), and decides
when all have answered (`WithResult`). `Ready` is the last extension thread. `CloseEngine`, `Eof`,
`ContextClosed` and `EngineGone` take the engine down, whose remotes' ends close the engines of the neighbours.

*Abstractions.* The path of a new connection from its app to the engine is one step (`Arrive`; it is
`AppClose`'s subject), and the end of a channel is seen after the command that came over it was handled.
The remote of the client is left out: the client stays. A connect with its retries
has one outcome. The threads of an extension context are `Lifecycle`'s. The remotes of an engine that closes
end in one step (`CloseEngine`); in the code each is closed by itself, and the engine goes on with the last of them. Each app has
extensions of the graph, and no app is its own neighbour or listed twice (`NeighboursDistinct`: the list is collected with
`ten_list_find_string`). `MaxMade = 1`: an app whose engine is gone makes no second one for the same graph
(section 6 has what happens with two).

### PhaseFairLock and RWLock

Each action is one atomic operation of `rwlock.c`; a spin is an action that is not enabled.
A word of the read side is the pair the code packs into 64 bits: the
count of readers and the two bits of the writer that is present. `line` and
`overtaken` are history. `RWLock` says what the Go binding, which guards each
`ten_env` with this lock, relies on: a writer is alone and a waiting reader is overtaken by at most one.

## 4. The runs

| run | what is in it | properties |
|---|---|---|
| `FanOut` | 2 senders, 2 destinations each, two policies, shared and separate threads, both timers, close | `TypeOK HandlerContexts GroupsMatchTable PolicyVerdict TablesEmptyAtDestroy PromiseKept HandlersTold` |
| `FanOutLoop` | 2 destinations in a graph with a loop, first-OK policy, schema errors, sends before on_start_done | `ResultsGoHome PolicyVerdict HandedInOrder` |
| `ChainStream` | relay, 2 threads, streamed results, schema errors in and out, close; liveness without timeouts | `PolicyVerdict AllHandlersCalled ToldOrRefused ClosedDown` |
| `Timeout` | all settings out of four values, all phases, 2 commands | `TimeNotLost AnswerFindsWay` |
| `LifeAnyClose` | 2 groups, of two extensions and of one, a close at any time, proxies | `TypeOK ClosesInOrder CloseIsExpected CountsMatch LivesInOrder ComesUp StartedCloses` |
| `EnvProxy` | 3 outer threads, 2 of them share a proxy, 1 round in the lock mode each, stop at any time | `LockModeExclusive AliveWhileUsed OuterThreadsGo DeinitEnds` |
| `AppClose` | 2 clients and 1 graph, or 1 client and 2 graphs, in 10 modes of an app that listens; 8 modes of one without endpoint and with 2 graphs; a close from any side, `Races = FALSE` | `DeinitOnce NothingDangles EndsClean RestBehindFirst AppEnds` |
| `StartGraph` | 4 apps; a loop of three with a fourth app at the first, in all 24 orders of uris, a loop of four, a line; all reachable, one app down or its protocol unknown, long_running apps in the line | `AssertionsHold ChannelsAgree OkMeansBuilt GraphSettles` |
| `PhaseFair` | 4 threads, counters of 4 values | `MutualExclusion WritersInOrder PhaseFair EveryoneEnters` |
| `CloseAfterAnswer`, `RestLost`, `OneOriginal` | disagreements, section 6 | one each |

The type invariants of `PathTimeout`, `EnvProxy`, `AppClose`, `PhaseFairLock` and `StartGraph` are not in the runs: they
are proved for all constants (section 5).

**Bounds.** *Ids and send calls* (`MaxId`, `MaxSend`): enough for the command, its
relays and, in `FanOutLoop`, one full round with the id that a second visit needs.
In `FanOut` there is one send call, from either sender, and so one group: what meets there are the two paths of
the group, with the timers and the close. Several send calls meet in `FanOutLoop` and `ChainStream`, and
any number of them, with any number of groups, in the theorems about `CmdFlow`.
*Partial results* (`MaxPartial = 1`): the code treats every non-final result alike.
*Extensions*: three, so that there are two destinations, or sender, relay and receiver; threads are
all separate, all shared or mixed, because dispatch depends on nothing else.
`SendStates` is `Served` (up to `on_stop_done`) where a run needs extensions that stop sending in time.
*Times*: `MaxUInt = 15` and a horizon of 14 let the greatest setting, six, wrap around a sum that is
not checked; the theorems hold for every width. *Proxies*: one for each extension, since
the code asks whether there is any. *Groups*: the engine compares counters with the
number of threads; two show an early and a late one, a thread without extensions is covered by the theorems. *Outer threads*: two on
one proxy and one on another give both kinds of contention, for the mutex of the
extension's thread and for the lock of a proxy. One round and one function each suffice,
because nothing is kept from one round to the next (`ProxyInvariant` says so for any number).
*Clients and graphs*: two of either, not both, since a connection meets others only in its
engine's remotes and the app's list, and engines meet only in the app's list. *Apps*: four, so that a loop has
an app behind it, or two ways to its far side; who connects to whom depends on the order of uris, of which all are tried
for the first graph. *Engines made* (`MaxMade`): one per app. *The lock*: four threads are the
most that counters of four values allow, so every wrap-around comes as soon as it can.

**Deadlock** is checked for the lock, whose threads never stop, and not elsewhere: with bounded
sends, or a graph that was closed, the system comes to rest, and a rest that should not be is for the liveness
properties to find.

**Fairness.** `RuntimeFairness` and `FairSpec` ask each runloop to take its next task (a libuv loop does, and
a callback returns), timers that are closed to call back, and extensions
to call the `on_xxx_done()` that the documentation asks of them. `ReturningSpec` adds that a
held command is answered in the end, as every extension must; `ExpiringSpec` adds
instead that path timers run while there are paths. Nobody is obliged to send, to close, or
to create a proxy. Weak fairness suffices: a posted task stays at the head of its queue until it is run.
In `EnvProxy` user code returns, and an outer thread leaves the lock mode and releases its proxy in the
end. In `AppClose` sockets report their end and extension contexts end; no
client has to come, to leave or to send. In `StartGraph` loops go on and sockets deliver what was sent and
report their end; extensions get ready. In `PhaseFairLock` a thread
that has begun to lock goes on and leaves its section; that it yields while it spins is what
lets the others run.

## 5. The theorems

All are proved for every graph, every assignment of extensions to threads,
every policy and every bound, from the named assumptions on the constants.

* `CmdFlowProofs!TypeCorrect`: the state is well formed.
* `CmdFlowProofs!PathInvariant`, and from it `ContextsSafe` (`HandlerContexts`) and
  `GroupsSafe` (`GroupsMatchTable`). Neither property is inductive on its own: that the members of
  a group are the paths of its send call needs that two paths of a call
  have different ids (`PathsOfSender`), which needs that a new
  id is new, that is, that no command under way bears an id not yet
  issued (`IdsIssued`). Their conjunction with `TypeOK` is `IInv`. The steps are handled by one lemma per operation
  (`LaunchTables`-like lemmas for sends, `SettleTables` for results).
* `CmdFlowProofs!TablesEmpty` and `HandlersCalled`, under
  `SendsInTime` (no origin sends from the flush on): `FlushCovers` says that while
  an extension is flushed its thread does nothing else, so that every OUT
  path is among those still to flush. That a made-up result removes its path needs that an
  error decides a group under every policy, and that an id is looked up oldest first.
* `CmdFlowProofs!PromiseHolds` (`PromiseKept`, the refinement of `ResultPromise`), under
  `SendsInTime` too. The abstract state is what handlers were told, so the proof has to show that being
  told of completion and the end of a context are one event: a context lives exactly as long as a path refers to
  it, and a handler is told of completion exactly when its context is freed (`ToldInv`). A new send call then opens a
  context nobody was told about, because its number is new; a later result of the same call can tell nothing,
  because the path that would bring it is gone; and an extension leaves with no handler open, because on_deinit
  comes only after the flush (`FlushCovers`). Each action is a step of `ResultPromise` or a stutter.
* `CmdFlowResultProofs!VerdictsFollow`: in any graph and with any extensions, `PolicyVerdict` follows from `ResultsGoHome`.
  What `PolicyVerdict` says of a send call is a function of all the results heard so far, so the proof shows how one more result
  changes it, policy by policy, and that the group says the same: `Record` relates group, paths, what
  was heard and what was told (the members with a result are those heard, in the order heard). That a member gets one result
  needs that its command is under way at most once: `Tokens` follows it as a message, as the IN path the message becomes
  and as the result that takes the place of the path, through every list it can be in (`Lines`), and no more once an OK was heard.
  With streamed results, which come with one destination only, there is no group and each result tells its own.
* `CmdFlowResultProofs!ResultsHome` (`ResultsGoHome`) and with it `VerdictsHold` (`PolicyVerdict`), under `LoopFree`: some
  ranking of the extensions rises along the routes of the relays, that is, no command that is passed on comes back to a
  relay that has passed it on. Section 6 shows why this is needed; nothing is asked of timeouts, closes, threads or of
  the routes of extensions that only send. An id is used by several extensions, since a command that is passed on keeps its
  own, so that a result finds its way by the id and the extension together. `HomeInv` says that whatever is under way for an id
  towards an extension that has a path with it comes from the send call of that path (`Home`). A relay that passes a command on
  would break this if it had used that id before, so `Ahead` says that the command with an id a relay has used, if there still is
  one, is past that relay: held higher up, or sent by a relay no lower. This lasts because what relays send goes up (`Climbs`) and
  the command is in one place only (`CmdsOnce`); an id that was not generated is used by nobody (`Fresh`).
* `CmdFlowResultProofs!OrderKept` (`HandedInOrder`), for any graph. `CallsInOrder`: of the commands of a sender to an extension
  those put aside by it, then those in the runloop of its thread, then those in the engine's queue are in the order of the
  send calls, none of them is of a later send call than any behind it, and none is with a thread that has still to dispatch it
  (`NoneLeft`). Each list alone is not enough: what a step moves goes from the front of one to the end of the one before it. It also
  needs that a runloop has messages for its own extensions only (`MsgsHome`), and that a message from
  the runloop is never taken while older ones are put aside: they are put aside before on_start_done only, and the
  thread does nothing else until they are done (`PutAside`).
* `PathTimeoutProofs!TimesInRange`, `NoTimeLost`: without assumptions on the settings.
  `AnswersFindTheirWay` assumes `Punctual`: a `_ten` section, timers on time, a command passed on
  within a second, settings whose sum fits. The argument: an OUT path outlives its
  expiry by less than an interval (`CheckedInTime`), its IN path was given an interval and a second more (`ExpiresFirst`).

* `PhaseFairLockProofs!WritersAlone` (`MutualExclusion`), `WritersServedInOrder`
  (`WritersInOrder`), `TypeCorrect` and `LockIsPhaseFair` (`PhaseFair`, the refinement of `RWLock`), for any
  set of threads no larger than the counters, and an even number of tickets. The
  invariant counts: `rdIn - rdOut`, modulo the width, is the number of readers inside
  or waiting, and the part of it that a flushing writer waits for are the readers that read; the line is
  the writers from `wrOut` to `wrIn`. It is needed because the code never looks at more than one word.
* `EnvProxyProofs!LockModeIsExclusive`, `ProxiesOutliveTheirUse`, `TypeCorrect`: for any outer threads, proxies and
  bounds. The invariant says which of the lock mode's tasks can be in the runloop, who can hold
  which lock then, that a proxy's count is the number of its users, and that nothing of a proxy is queued behind its end.

* `LifecycleProofs!CloseExpected` (`CloseIsExpected`), `CountsRight` (`CountsMatch`), `ClosedInOrder`
  (`ClosesInOrder`), `TypeCorrect` and `LivedInOrder` (`LivesInOrder`, the refinement of
  `ExtensionLife`), for any threads and extensions and a close at any moment. The order in which
  things go is not inductive: that the close finds its thread in order needs that the task comes once and that
  nothing else leads to PREPARE_TO_CLOSE; that the extension destroyed first is
  not ahead of one still in on_deinit needs that the count of deleted extensions is right and that the
  list of extensions is complete; that the engine goes last needs that each thread reports its end once. `IInv` says, for each task that may be under way, in which
  state its thread is (`TasksOK`), for each state of a thread how far its extensions are (`StagesOK`,
  `ExtensionsOK`), that once one extension of a thread goes all do (`GoingOK`), and that the engine's count of closed
  threads is that of the threads whose last task it has handled (`EngineOK`). A queue is seen as
  the set of its tasks; no task is in it twice (`QueuesOK`), so that taking the head removes it from the set.

* `AppCloseProofs!TypeCorrect` (`TypeOK`), for any number of clients and graphs and any mix of
  configurations, without a hypothesis: whatever clients do while something closes, nothing takes a value it should not
  have. It needs besides (`Typed`) that a connection at an engine, or one an engine waits for, has its engine.
* `AppCloseProofs!DeinitOnceHolds` (`DeinitOnce`), `NothingDanglesHolds` (`NothingDangles`), `EndsCleanHolds` (`EndsClean`)
  and `RestBehindFirstHolds` (`RestBehindFirst`), for any number of clients and graphs and any mix of
  configurations, with and without an endpoint, under `~Races`, and the last under `BatchesMigrate` (only
  graphs with a loop of their own get several messages at once) too. Both hypotheses are needed, and so is the endpoint in
  `DeinitOnce`: section 6 shows what happens without each of them. The run `AppClose` checks the same. None of the four is
  inductive. That on_deinit finds no connection that is in no list needs that nobody is on the way
  once the app closes (`Calm`), which needs that an engine that will close, because its last remote is
  about to, counts as closing already (`Doomed`); that in turn needs that the closing of a remote is never
  forgotten, that an engine that runs without extension context is waiting for its start_graph (`EngineOK`), and that an
  engine reports its end once. `IInv` says of each task that may be in a queue where its connection and how far its
  engine is (`TasksOK`), of each place of a connection what its stream, migration and protocol can be
  (`ConnectionOK`), which messages an engine has and from whom (`EngineOK`), and what the app still waits for
  (`AppOK`). `TasksOK` alone breaks when a task is queued twice or overtakes another: `Ordered` says that in_msgs
  never comes behind close_engine, that cleaned never comes behind clean, and which tasks are in a queue once. That a stream's
  end finds no `cleaned` task of its connection rests on `draining`: the callback of a stream comes when the loop has run its tasks.
  A queue is seen through what is in it and what is behind what, so that posting and taking need one lemma each
  (`Posts`, `Takes`); a step is proved right for the connections and engines it changes (`StepOf`, `StepOfClosing`).

* `StartGraphProofs!TypeCorrect` (`TypeOK`), for any apps, graphs and number of engines an app makes: an engine waits for
  and has remotes to others only, and a remote's channel has its ends at the two apps. It needs that the neighbours an engine
  is to connect to are others, up to the tasks that make their remotes, and that no app queues a command of its own (`RemotesOK`).
* `StartGraphProofs!OtherAssertionsHold` (`OneOriginal => AssertionsHold`) and `NeighboursAgree` (`ChannelsAgree`), for any apps
  and any graph, with or without loops, apps that are down, unknown protocols and long_running apps, while each app makes one
  engine (`MaxMade = 1`; section 6 has a counterexample for two). So of the assertions in the way of a graph
  that comes up only that of `start_graph.c:127-128` depends on the graph; the run `OneOriginal` shows one that breaks
  it, the run `StartGraph` checks that others do not. The system stops at a failed assertion, so `SafeInv` speaks
  of the states before (`Running`), and in the step that breaks `OneOriginal` nothing is left to prove. Its parts:
  - of an engine (`EngineOK`): what its state says of its queues and remotes (`QueueOK`: an engine that closes begins no
    connection behind its close task), and, while it is up, that those it is about to connect to are among those it
    waits for, and have no remote yet but for the last one it looks at (`ConnectingOK`);
  - of a channel and its two ends (`WireOK`, `HoldOK`): a command is on it or queued at the other end, once, or the other end has a
    normal remote for it (`Joined`), and then the end that made it still holds it or its end is under way;
  - of the two channels that two apps may make (`SmallerOK`): once the channel from the smaller uri is taken, or its OK is
    on the way, the other app has none and begins none (`Away`). This is why there are never two remotes, and why the
    two ends agree, and it needs both looks for a duplicate: the one when the command comes and the one before a connection begins;
  - of the answers (`AnswersOK`): an app that passed a command on is told once, by what is on the wire (`Answer`), by the
    engine that is to be ready (`requester`) or by the one that waits for others (`Owes`), never two of them, and until then its remote is
    weak. An engine that waits for a neighbour whose channel was there before its own never answers that
    wait (`Skipped`), so that it owes nothing.
  A step is taken apart into changes of one engine and the channels at it (`Change`): between the app and the neighbours a
  step does not touch everything stays (`Quiet`, `Silent`), and the engine that takes a command, gives up, sends a result or
  loses a remote is one lemma each (`LinkOK`, `DownOK`, `AnsweredOK`, `LocalOK`), used by all the actions that do so.

**Model-checked only**: that OK means built and that no second original comes in the graphs of the run `StartGraph`
(both depend on the whole graph, not on two neighbours); the home of results and the verdicts where relays make a loop (that of
`FanOutLoop` does not come back to the sender, and no IN path expires); and liveness (`HandlersTold`, `ToldOrRefused`, `AppEnds`
and the like), which is out of the prover's reach.

## 6. Where code and documents disagree

Each of these is a run that TLC ends with a counterexample:

* `CloseAfterAnswer`: `on_stop_done()` is refused but in ON_START_DONE
  (`extension/ten_env/on_xxx.c:281`). An extension told to stop before that never goes on, though the stage graph at
  `extension.md:36-43` has those edges; the engine does not close.
* `RestLost`: with one loop for all, a connection is attached to its engine, and what it read
  behind its first message is posted, before the first message is queued
  (`connection/migration.c:63`, `app/msg_interface/common.c:56-60`). The rest comes to
  `ten_connection_on_msgs` when the connection is no longer the app's and not
  yet a remote's, which is asserted not to happen; the comments at
  `engine/internal/migration.c:78-81` and `connection/migration.c:112-114` ask for the opposite order. (With
  a loop for each graph the order is right: `RestBehindFirst` in `AppClose`.)

* `OneOriginal`: an app in a loop of the graph, with a further neighbour outside of it, takes `start_graph` from
  both of its neighbours in the loop before the task that makes the remote for the further one has
  run. The second command finds no remote either, begins the same connection again, and the assertion that no
  command is kept already fails (`engine/msg_interface/start_graph.c:127-128`, "Should not happen."). The app's comment at
  `app/msg_interface/start_graph.c:119-120` expects an engine to get more than one such command "in polygon graph".

The modules state further promises that TLC finds broken. They are not among the runs
because each is a rarer case of the same subjects; the constants to see them with:

* `CmdFlow`, `TablesEmptyAtDestroy`, with `PairRoute` and `SendStates = {"deinit"}`: a command sent in `on_deinit`, which
  `src/docs/ten_framework/ten_packages/extension.md:141` allows, leaves an OUT path until the
  assertion `There should be no OUT path.` (`path/path_table.c:115`).
* `CmdFlow`, `NoResultForDeleted`, with two extensions on one thread and `MayClose = TRUE`: an extension slower
  to stop than another one of its thread returns a result to it after it has left the store; the branch is
  asserted not to be reached (`extension_thread/msg_interface/common.c:81`).
* `PathTimeout`, `AnswerFindsWay`, with `Sections = {FALSE}`: without a `_ten` section the IN timeout is
  not adjusted (`extension/internal/metadata.c:312`), against the comment at lines 82-101.
* `CmdFlow`, `ResultsGoHome`, with `Pair`, `Alone2`, `PairLoopRoute`, `LastOk2`, `Relays = {extA, extB}`, `Origins = {extA}`,
  `MaxId = 2` and `MaxSend = 3`: a command that enters an extension gets a new id only if an IN path there has its id
  (`path/path_table.c:202`). One that comes back to the extension that sent it finds an OUT path only and keeps its id;
  passed on, it gives a second OUT path with that id (`ten_env/internal/send.c:91-94`), and the results of both go
  to the older one (`path/path_table.c:119-143`), so that a handler is told the result of another send call.
  The comment at `path/path_table.c:205-217`, which draws a loop, says that the new id "ensures accurate
  identification of the correct path entry in the table". The same happens when the first IN path has expired.
* `CmdFlow`, `HandlersTold`, with the constants of `ChainStream`: a relay's schema refuses the result that the runtime returns for
  it, the runtime ignores that (`extension/msg_handling.c:285`), and the sender waits for a close. The comment at
  `extension/extension.c:1063-1065` says of results: "No matter what happens, the flow of the cmd result should continue.
  Otherwise, the sender will not know what is happening, and the entire command flow will be blocked."
* `CmdFlow`, `AllHandlersCalled`, with `PairRoute` and `SendStates = {"running", "flushing"}`: a handler that
  sends a command while it is flushed is not flushed again (`extension/internal/close.c:83`).
* `Lifecycle`, `CloseGoesOn`, with `CloseFrom = "any"`: the engine has read the flag and posted
  the start task when the close arrives; the start task returns because of the flag
  (`extension_thread/on_xxx.c:117`) and nobody stops the extensions.
* `Lifecycle`, `StoppedAfterConfigure`: a close during creation calls `on_stop` of
  extensions that were never configured (`extension_thread/on_xxx.c:141`).
* `Lifecycle`, `AnsweredWhenCreated`: `start_graph` may be answered with OK when another thread has lost its
  extensions to a close already (`engine/on_xxx.c:142`).
* `Lifecycle`, `DeinitEndedByExtension`: the last proxy's release ends
  `on_deinit` without `on_deinit_done()` (`ten_env/ten_proxy.c:43`).
* `EnvProxy`, `StopReturns`, with `JoinInStop = TRUE`, `OneEach` and two outer threads: an extension that joins its
  threads in on_stop, as `src/tests/ten_runtime/smoke/outer_thread/2_threads_attempt_to_suspend_6.cc` does,
  waits for a thread that waits for the extension's thread in `ten_env_proxy_acquire_lock_mode`.
* `AppClose`, `CleanedWhileAttached`, with `Migrating` and `Races = TRUE`: a client that leaves, or an app that closes, before the
  migration's clean task has run; the task asserts that the connection is the app's (`app/migration.c:23`).
  With `Races = TRUE` `AppEnds`, `EndsClean` and `NothingDangles` fail too: a client accepted while the app closes is closed by nobody, a
  `start_graph` that comes then makes an engine that nobody closes, and a closing engine takes on a
  remote and never handles its message.
* `AppClose`, `DeinitBeforeStop`, with `Local`: an app without endpoint whose last engine closes has its
  on_deinit called by `ten_app_check_termination_when_engine_closed` and once more by the close task posted there
  (`app/close.c:187-195`), after its loop was stopped; the comment at `app/ten_env/on_xxx.c:284-300` has it before.
* `StartGraph`, `KeptChannel`, with any graph of `Started` that has a loop: of two channels the one from the larger uri to the
  smaller one is kept (`engine/internal/remote_interface.c:535`), the comment above it, at lines 515-518, says the other one.
  Both sides decide alike, so `AssertionsHold` and `GraphSettles` are not touched.
* `StartGraph`, `AssertionsHold`, with a loop, an app that is down and `MaxMade = 2`: an engine that gave up and is made anew by a
  late command connects to a neighbour which has not read the end of the old remote
  (`engine/internal/remote_interface.c:239-241`). So too, as in `OneOriginal`, when apps of a loop are in
  long_running_mode and one is down.

## 7. What is not modelled

* *Data, audio and video frames, the queue limit, message conversions*: on the plan below.
* *Connecting*: the retries of a connect, messages that wait for one, and the remote of the client in `StartGraph`; messages
  put back until the engine is ready (a stop that is put back is the same as one that comes later); what `cmd`s and data do
  between apps once the graph is up.
* *Timers of the engine, the answers to stop_graph, signals, the start-up of the app before on_configure_done*.
* *Schemas, metadata, message containers*: pure functions on data that no interleaving touches; the models take their outcomes as choices.
* *Addons, bindings, loaders*: I/O and glue. Their asynchronous answers are steps of `Lifecycle`. The Go binding
  waits for a task of the extension's thread with a read lock held that the task before it may want to
  write (`hazards`); what it is built from is modelled, its own counts are not.
* *The rest of `ten_utils`*: used through what it promises (a runloop is a queue, a mutex excludes, a flag is atomic).
* *`axis_*`*: the same code under another name.

## 8. Plan

Done: `ResultPromise`, `CmdFlow`, `PathTimeout`, `ExtensionLife`, `Lifecycle`, `RWLock`, `PhaseFairLock`,
`EnvProxy`, `AppClose`, `StartGraph`, and the proofs of section 5. What is left, in this order:

1. The connect and retry of `protocol/integrated/` and the client's remote in `StartGraph`, with a second engine of the same graph.
2. `CmdFlow` with message conversions (one command, several IN paths), data messages and the queue limit.
3. The Go binding's `ten_env` as a composition of `PhaseFairLock` and `EnvProxy`.
4. The runloop's post, run and destroy at the level of its mutex, and `ten_shared_ptr`'s counts.

Theorems to add: `OneOriginal` and `OkMeansBuilt` of `StartGraph` for graphs without a loop (an order of the
graph's nodes as a hypothesis replaces the induction over paths, as in `ResultsHome`).

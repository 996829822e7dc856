------------------------------ MODULE EnvProxy ------------------------------
(***************************************************************************)
(* Threads of the user outside the APTIMA world, and the ten_env_proxies   *)
(* through which they reach an extension of it.  An outer thread posts     *)
(* functions to the extension's thread, or takes the lock mode: it has the *)
(* extension's thread block, and uses the extension as if it were that     *)
(* thread.  An extension can not end while a proxy of its ten_env exists.  *)
(*                                                                         *)
(* One action is what a thread does between two points where it can be     *)
(* made to wait: a lock, an event or the runloop.                          *)
(*                                                                         *)
(* The definitions named Bad... are not part of the specification: each is *)
(* a definition that follows with a plausible bug in it.                   *)
(***************************************************************************)
EXTENDS Integers, Sequences, FiniteSets

CONSTANTS
    Outer,          \* the threads outside the APTIMA world
    Proxy,          \* the ten_env_proxies
    ProxyOf,        \* ProxyOf[o]: the proxy that o uses
    None,           \* no thread
    Ext,            \* the extension's thread, as the holder of a lock
    JoinInStop,     \* the extension's on_stop joins the outer threads
    MaxRounds,      \* bound on the times an outer thread takes the lock mode
    MaxNotify,      \* bound on the functions that outer threads have run
    MaxMsg          \* bound on the messages the extension receives

ASSUME UseAssumption ==
    /\ IsFiniteSet(Outer)
    /\ ProxyOf \in [Outer -> Proxy]
    /\ None \notin Outer /\ Ext \notin Outer /\ None # Ext

ASSUME BoundAssumption ==
    /\ JoinInStop \in BOOLEAN
    /\ {MaxRounds, MaxNotify, MaxMsg} \subseteq Nat

\* The outer threads that a proxy is created for.
UsersOf(p) == {o \in Outer : ProxyOf[o] = p}

\* The tasks of the extension thread's runloop: a message (one of them has
\* the extension stop), a function posted through a proxy, the two tasks of
\* the lock mode, and the end of a proxy.
MsgTask == [task |-> "msg"]
StopTask == [task |-> "stop"]
NotifyTask(p) == [task |-> "notify", proxy |-> p]
AcquireTask(o) == [task |-> "acquire_lock_mode", for |-> o]
ReleaseTask == [task |-> "release_lock_mode"]
DeletedTask(p) == [task |-> "proxy_is_deleted", proxy |-> p]

Task ==
    {MsgTask, StopTask, ReleaseTask}
        \cup {NotifyTask(p) : p \in Proxy}
        \cup {AcquireTask(o) : o \in Outer}
        \cup {DeletedTask(p) : p \in Proxy}

VARIABLES
    runloop,        \* the tasks of the extension thread
    extPc,          \* loop, code (of the extension), blocked, stopping
    extState,       \* the extension's state
    asked,          \* the extension called on_deinit_done()
    inLockMode,     \* in_lock_mode of the extension thread
    lockModeLock,   \* who holds the lock_mode_lock
    proxyList,      \* the ten_proxy_list of the ten_env
    threadCnt,      \* threadCnt[p]: the thread_cnt of p
    proxyLock,      \* proxyLock[p]: who holds the lock of p
    acquirer,       \* acquirer[p]: the acquired_lock_mode_thread of p
    pc,             \* pc[o]: what o does next
    rounds, notes, msgs     \* what was used of the bounds

extVars == <<extPc, extState, asked, inLockMode>>
proxyVars == <<proxyList, threadCnt, proxyLock, acquirer>>
boundVars == <<rounds, notes, msgs>>
vars == <<runloop, extVars, lockModeLock, proxyVars, pc, boundVars>>

ExtPlaces == {"loop", "code", "blocked", "stopping"}
ExtStates == {"ON_START_DONE", "ON_DEINIT", "ON_DEINIT_DONE"}

\* Of an outer thread: none (it has no proxy yet), idle, mode (it wants the
\* lock mode), lock (the lock of its proxy), wait (for the extension's thread),
\* told (that the thread blocks), in (the lock mode), sync (it runs a function
\* there), last (it was the last to release its proxy) and gone.
LockModePlaces == {"told", "in", "sync"}
HolderPlaces == {"lock", "wait"} \cup LockModePlaces
UserPlaces == {"idle", "mode"} \cup HolderPlaces
OuterPlaces == {"none", "last", "gone"} \cup UserPlaces

In(places) == {o \in Outer : pc[o] \in places}

Go(o, place) == pc' = [pc EXCEPT ![o] = place]

Post(task) == runloop' = Append(runloop, task)

Init ==
    /\ runloop = <<>>
    /\ extPc = "code"
    /\ extState = "ON_START_DONE"
    /\ asked = FALSE
    /\ inLockMode = FALSE
    /\ lockModeLock = None
    /\ proxyList = {}
    /\ threadCnt = [p \in Proxy |-> 0]
    /\ proxyLock = [p \in Proxy |-> None]
    /\ acquirer = [p \in Proxy |-> None]
    /\ pc = [o \in Outer |-> "none"]
    /\ rounds = [o \in Outer |-> 0]
    /\ notes = 0
    /\ msgs = 0

-----------------------------------------------------------------------------
\* The code of the extension, on its own thread.

\* ten_env_proxy_create(), and the threads that get the proxy.
CreateProxy(p) ==
    /\ extPc = "code"
    /\ extState # "ON_DEINIT_DONE"
    /\ UsersOf(p) # {}
    /\ UsersOf(p) \subseteq In({"none"})
    /\ proxyList' = proxyList \cup {p}
    /\ threadCnt' = [threadCnt EXCEPT ![p] = Cardinality(UsersOf(p))]
    /\ pc' = [o \in Outer |-> IF o \in UsersOf(p) THEN "idle" ELSE pc[o]]
    /\ UNCHANGED <<runloop, extVars, lockModeLock, proxyLock, acquirer, boundVars>>

\* The end of on_deinit() does not count while there are proxies.
OnDeinitDone ==
    /\ extPc = "code"
    /\ extState = "ON_DEINIT"
    /\ ~asked
    /\ asked' = TRUE
    /\ extState' = IF proxyList = {} THEN "ON_DEINIT_DONE" ELSE extState
    /\ UNCHANGED <<runloop, extPc, inLockMode, lockModeLock, proxyVars, pc, boundVars>>

EndOfCode ==
    /\ extPc = "code"
    /\ extPc' = "loop"
    /\ UNCHANGED <<runloop, extState, asked, inLockMode, lockModeLock, proxyVars,
                   pc, boundVars>>

\* on_stop() returns, on_stop_done() called, and on_deinit() follows.
OnStop ==
    /\ extPc = "stopping"
    /\ JoinInStop => Outer \subseteq In({"none", "gone"})
    /\ extPc' = "code"
    /\ extState' = "ON_DEINIT"
    /\ UNCHANGED <<runloop, asked, inLockMode, lockModeLock, proxyVars, pc, boundVars>>

-----------------------------------------------------------------------------
\* The tasks of the extension's thread.

Take(task) ==
    /\ extPc = "loop"
    /\ runloop # <<>>
    /\ Head(runloop) = task
    /\ runloop' = Tail(runloop)

TakeAndPost(task, next) ==
    /\ extPc = "loop"
    /\ runloop # <<>>
    /\ Head(runloop) = task
    /\ runloop' = Append(Tail(runloop), next)

\* A message for an extension that has ended is answered by its thread.
HandleMsg ==
    /\ Take(MsgTask)
    /\ extPc' = IF extState = "ON_DEINIT_DONE" THEN "loop" ELSE "code"
    /\ UNCHANGED <<extState, asked, inLockMode, lockModeLock, proxyVars, pc, boundVars>>

HandleStop ==
    /\ Take(StopTask)
    /\ extPc' = "stopping"
    /\ UNCHANGED <<extState, asked, inLockMode, lockModeLock, proxyVars, pc, boundVars>>

HandleNotify ==
    /\ \E p \in Proxy : Take(NotifyTask(p))
    /\ extPc' = "code"
    /\ UNCHANGED <<extState, asked, inLockMode, lockModeLock, proxyVars, pc, boundVars>>

\* The task that ends the lock mode is not posted.
BadAcquireLockMode(o) ==
    /\ Take(AcquireTask(o))
    /\ inLockMode' = TRUE
    /\ extPc' = "blocked"
    /\ Go(o, "told")
    /\ UNCHANGED <<extState, asked, lockModeLock, proxyVars, boundVars>>

\* The thread tells o, and blocks until the lock_mode_lock is free.
AcquireLockMode(o) ==
    /\ TakeAndPost(AcquireTask(o), ReleaseTask)
    /\ inLockMode' = TRUE
    /\ extPc' = "blocked"
    /\ Go(o, "told")
    /\ UNCHANGED <<extState, asked, lockModeLock, proxyVars, boundVars>>

Unblock ==
    /\ extPc = "blocked"
    /\ lockModeLock = None
    /\ lockModeLock' = Ext
    /\ extPc' = "loop"
    /\ UNCHANGED <<runloop, extState, asked, inLockMode, proxyVars, pc, boundVars>>

\* The thread forgets that it is no longer blocked.
BadReleaseLockModeTask ==
    /\ Take(ReleaseTask)
    /\ lockModeLock' = None
    /\ UNCHANGED <<extVars, proxyVars, pc, boundVars>>

ReleaseLockModeTask ==
    /\ Take(ReleaseTask)
    /\ inLockMode' = FALSE
    /\ lockModeLock' = None
    /\ UNCHANGED <<extPc, extState, asked, proxyVars, pc, boundVars>>

\* The end of the extension is left to the extension.
BadProxyIsDeleted(p) ==
    /\ Take(DeletedTask(p))
    /\ proxyList' = proxyList \ {p}
    /\ UNCHANGED <<extVars, lockModeLock, threadCnt, proxyLock, acquirer, pc, boundVars>>

\* The last proxy of an extension in on_deinit() ends the extension.
ProxyIsDeleted(p) ==
    /\ Take(DeletedTask(p))
    /\ proxyList' = proxyList \ {p}
    /\ extState' = IF proxyList' = {} /\ extState = "ON_DEINIT"
                     THEN "ON_DEINIT_DONE" ELSE extState
    /\ UNCHANGED <<extPc, asked, inLockMode, lockModeLock, threadCnt, proxyLock,
                   acquirer, pc, boundVars>>

-----------------------------------------------------------------------------
\* Outer threads.

\* ten_env_proxy_notify(), asynchronous.
NotifyAsync(o) ==
    /\ pc[o] \in {"idle", "in"}
    /\ notes < MaxNotify
    /\ notes' = notes + 1
    /\ Post(NotifyTask(ProxyOf[o]))
    /\ UNCHANGED <<extVars, lockModeLock, proxyVars, pc, rounds, msgs>>

\* ten_env_proxy_acquire_lock_mode()
WantLockMode(o) ==
    /\ pc[o] = "idle"
    /\ rounds[o] < MaxRounds
    /\ rounds' = [rounds EXCEPT ![o] = @ + 1]
    /\ Go(o, "mode")
    /\ UNCHANGED <<runloop, extVars, lockModeLock, proxyVars, notes, msgs>>

TakeLockModeLock(o) ==
    /\ pc[o] = "mode"
    /\ lockModeLock = None
    /\ lockModeLock' = o
    /\ Go(o, "lock")
    /\ UNCHANGED <<runloop, extVars, proxyVars, boundVars>>

\* If the extension's thread blocks already, o has the lock mode.
TakeProxyLock(o) ==
    /\ pc[o] = "lock"
    /\ proxyLock[ProxyOf[o]] = None
    /\ acquirer' = [acquirer EXCEPT ![ProxyOf[o]] = o]
    /\ IF inLockMode
       THEN /\ Go(o, "in")
            /\ UNCHANGED <<runloop, proxyLock>>
       ELSE /\ Go(o, "wait")
            /\ runloop' = <<AcquireTask(o)>> \o runloop
            /\ proxyLock' = [proxyLock EXCEPT ![ProxyOf[o]] = o]
    /\ UNCHANGED <<extVars, lockModeLock, proxyList, threadCnt, boundVars>>

Told(o) ==
    /\ pc[o] = "told"
    /\ proxyLock' = [proxyLock EXCEPT ![ProxyOf[o]] = None]
    /\ Go(o, "in")
    /\ UNCHANGED <<runloop, extVars, lockModeLock, proxyList, threadCnt, acquirer,
                   boundVars>>

\* ten_env_proxy_notify(), synchronous: only in the lock mode.
NotifySync(o) ==
    /\ pc[o] = "in"
    /\ notes < MaxNotify
    /\ notes' = notes + 1
    /\ proxyLock[ProxyOf[o]] = None
    /\ acquirer[ProxyOf[o]] = o
    /\ proxyLock' = [proxyLock EXCEPT ![ProxyOf[o]] = o]
    /\ Go(o, "sync")
    /\ UNCHANGED <<runloop, extVars, lockModeLock, proxyList, threadCnt, acquirer,
                   rounds, msgs>>

EndOfSync(o) ==
    /\ pc[o] = "sync"
    /\ proxyLock' = [proxyLock EXCEPT ![ProxyOf[o]] = None]
    /\ Go(o, "in")
    /\ UNCHANGED <<runloop, extVars, lockModeLock, proxyList, threadCnt, acquirer,
                   boundVars>>

\* ten_env_proxy_release_lock_mode()
ReleaseLockMode(o) ==
    /\ pc[o] = "in"
    /\ proxyLock[ProxyOf[o]] = None
    /\ acquirer[ProxyOf[o]] = o
    /\ lockModeLock' = None
    /\ acquirer' = [acquirer EXCEPT ![ProxyOf[o]] = None]
    /\ Go(o, "idle")
    /\ UNCHANGED <<runloop, extVars, proxyList, threadCnt, proxyLock, boundVars>>

\* ten_env_proxy_release()
ReleaseProxy(o) ==
    /\ pc[o] = "idle"
    /\ proxyLock[ProxyOf[o]] = None
    /\ threadCnt' = [threadCnt EXCEPT ![ProxyOf[o]] = @ - 1]
    /\ Go(o, IF threadCnt'[ProxyOf[o]] = 0 THEN "last" ELSE "gone")
    /\ UNCHANGED <<runloop, extVars, lockModeLock, proxyList, proxyLock, acquirer,
                   boundVars>>

\* The end of the proxy overtakes the functions posted through it.
BadPostDeleted(o) ==
    /\ pc[o] = "last"
    /\ runloop' = <<DeletedTask(ProxyOf[o])>> \o runloop
    /\ Go(o, "gone")
    /\ UNCHANGED <<extVars, lockModeLock, proxyVars, boundVars>>

\* The lock is given back before the task is posted.
PostDeleted(o) ==
    /\ pc[o] = "last"
    /\ Post(DeletedTask(ProxyOf[o]))
    /\ Go(o, "gone")
    /\ UNCHANGED <<extVars, lockModeLock, proxyVars, boundVars>>

-----------------------------------------------------------------------------
\* Other threads send messages to the extension, and once stop it.
PostMsg ==
    /\ msgs < MaxMsg
    /\ msgs' = msgs + 1
    /\ \/ Post(MsgTask)
       \/ msgs = 0 /\ Post(StopTask)
    /\ UNCHANGED <<extVars, lockModeLock, proxyVars, pc, rounds, notes>>

\* What the extension's thread does by itself.
ExtContinue ==
    \/ EndOfCode \/ OnStop
    \/ HandleMsg \/ HandleStop \/ HandleNotify
    \/ \E o \in Outer : AcquireLockMode(o)
    \/ Unblock
    \/ ReleaseLockModeTask
    \/ \E p \in Proxy : ProxyIsDeleted(p)

\* What an outer thread does that does not want more.
Continue(o) ==
    \/ TakeLockModeLock(o) \/ TakeProxyLock(o) \/ Told(o)
    \/ EndOfSync(o)
    \/ ReleaseLockMode(o)
    \/ ReleaseProxy(o) \/ PostDeleted(o)

Next ==
    \/ \E p \in Proxy : CreateProxy(p)
    \/ OnDeinitDone
    \/ ExtContinue
    \/ \E o \in Outer :
            NotifyAsync(o) \/ WantLockMode(o) \/ NotifySync(o) \/ Continue(o)
    \/ PostMsg

Spec == Init /\ [][Next]_vars

\* Code of the extension returns, an outer thread leaves the lock mode and
\* releases its proxy in the end, and threads are scheduled.  The locks are
\* not fair: that a thread gets one rests on the bounds.
FairSpec ==
    /\ Spec
    /\ WF_vars(ExtContinue)
    /\ \A o \in Outer : WF_vars(Continue(o))

-----------------------------------------------------------------------------
TypeOK ==
    /\ runloop \in Seq(Task)
    /\ extPc \in ExtPlaces
    /\ extState \in ExtStates
    /\ asked \in BOOLEAN /\ inLockMode \in BOOLEAN
    /\ lockModeLock \in Outer \cup {None, Ext}
    /\ proxyList \subseteq Proxy
    /\ threadCnt \in [Proxy -> 0 .. Cardinality(Outer)]
    /\ proxyLock \in [Proxy -> Outer \cup {None}]
    /\ acquirer \in [Proxy -> Outer \cup {None}]
    /\ pc \in [Outer -> OuterPlaces]
    /\ rounds \in [Outer -> 0 .. MaxRounds]
    /\ notes \in 0 .. MaxNotify
    /\ msgs \in 0 .. MaxMsg

\* A thread in the lock mode has the extension for itself: the extension's
\* own thread blocks, and no other outer thread is in the lock mode.
LockModeExclusive ==
    \A o \in In(LockModePlaces) :
        extPc = "blocked" /\ In(LockModePlaces) = {o}

\* The proxies that tasks of the runloop are about.
TaskProxies ==
    {p \in Proxy : \E i \in 1 .. Len(runloop) :
                       runloop[i] \in {NotifyTask(p), DeletedTask(p)}}

\* A proxy is there as long as a thread uses it and as long as a task of it
\* is in the runloop, the extension as long as a proxy is there; and no
\* thread keeps the lock mode of an extension that has ended.
AliveWhileUsed ==
    /\ {ProxyOf[o] : o \in In(UserPlaces \cup {"last"})} \subseteq proxyList
    /\ TaskProxies \subseteq proxyList
    /\ extState = "ON_DEINIT_DONE" =>
            proxyList = {} /\ lockModeLock = None /\ ~inLockMode

\* An outer thread is never kept for ever: by the extension's thread or by
\* another outer thread, when it takes the lock mode or releases its proxy.
OuterThreadsGo == \A o \in Outer : pc[o] # "none" ~> pc[o] = "gone"

\* An extension that called on_deinit_done() ends: if proxies are left, the
\* last of them sees to it.
DeinitEnds == asked ~> extState = "ON_DEINIT_DONE"

\* on_stop() of an extension that joins its outer threads there returns
\* (2_threads_attempt_to_suspend_6.cc).
StopReturns == extPc = "stopping" ~> extPc # "stopping"
=============================================================================

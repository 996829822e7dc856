--------------------------- MODULE EnvProxyProofs ---------------------------
(***************************************************************************)
(* For any number of outer threads and proxies, and any number of messages *)
(* and posted functions: the lock mode is exclusive, and neither a proxy   *)
(* nor its extension ends while it is in use.                              *)
(***************************************************************************)
EXTENDS EnvProxy, FiniteSetTheorems, TLAPS

\* The outer threads that have not released p yet.
Users(p) == UsersOf(p) \cap In(UserPlaces)

\* Who holds the lock_mode_lock, and what in_lock_mode says of it.
LockOK ==
    /\ \A o \in Outer : pc[o] \in HolderPlaces <=> lockModeLock = o
    /\ extPc = "blocked" => inLockMode
    /\ inLockMode => extPc = "blocked" \/ lockModeLock = Ext
    /\ lockModeLock = Ext => inLockMode /\ extPc # "blocked"
    /\ In(LockModePlaces) # {} => extPc = "blocked"
    /\ In({"wait"}) # {} => ~inLockMode

\* The tasks of the lock mode: a thread waits for its task, and the task that
\* ends the lock mode is in the runloop as long as the thread is in that mode.
TasksOK ==
    /\ \A i \in 1 .. Len(runloop) : \A o \in Outer :
          runloop[i] = AcquireTask(o) =>
              /\ pc[o] = "wait"
              /\ \A j \in 1 .. Len(runloop) : runloop[j] = AcquireTask(o) => i = j
    /\ \A i, j \in 1 .. Len(runloop) :
          runloop[i] = ReleaseTask /\ runloop[j] = ReleaseTask => i = j
    /\ inLockMode <=> \E i \in 1 .. Len(runloop) : runloop[i] = ReleaseTask

\* A proxy counts its users, who get it all at the same time.
CountOK ==
    /\ \A p \in Proxy : threadCnt[p] = Cardinality(Users(p))
    /\ \A o, u \in Outer :
          ProxyOf[o] = ProxyOf[u] /\ pc[o] = "none" => pc[u] = "none"

\* A proxy that is used, or that a task is about, is there.
AliveOK ==
    /\ \A o \in Outer :
          pc[o] \in UserPlaces \cup {"last"} => ProxyOf[o] \in proxyList
    /\ \A i \in 1 .. Len(runloop) : \A p \in Proxy :
          runloop[i] \in {NotifyTask(p), DeletedTask(p)} => p \in proxyList

\* The end of a proxy is the last thing that is said of it.
LastOK ==
    /\ \A i \in 1 .. Len(runloop) : \A p \in Proxy :
          runloop[i] = DeletedTask(p) =>
              /\ \A u \in Outer : ProxyOf[u] = p => pc[u] = "gone"
              /\ \A j \in 1 .. Len(runloop) :
                    runloop[j] \in {NotifyTask(p), DeletedTask(p)} => j <= i
    /\ \A o \in Outer :
          pc[o] = "last" =>
              /\ \A u \in Outer : ProxyOf[u] = ProxyOf[o] /\ u # o => pc[u] = "gone"
              /\ \A i \in 1 .. Len(runloop) : runloop[i] # DeletedTask(ProxyOf[o])

\* The lock mode ends before the proxy of the thread that took it does.
EndOK ==
    /\ extState = "ON_DEINIT_DONE" => proxyList = {}
    /\ \A k \in 1 .. Len(runloop) :
          runloop[k] = ReleaseTask =>
              \E p \in proxyList :
                  \A i \in 1 .. k - 1 : runloop[i] # DeletedTask(p)

IInv ==
    /\ TypeOK
    /\ LockOK
    /\ TasksOK
    /\ CountOK
    /\ AliveOK
    /\ LastOK
    /\ EndOK
-----------------------------------------------------------------------------
\* Tasks and queues.

\* Tasks differ when they are of different kinds or about different things.
LEMMA TaskKinds ==
    /\ {MsgTask, StopTask, ReleaseTask} \subseteq Task
    /\ ReleaseTask \notin {MsgTask, StopTask}
    /\ \A o \in Outer :
          /\ AcquireTask(o) \in Task \ {MsgTask, StopTask, ReleaseTask}
          /\ \A u \in Outer : AcquireTask(o) = AcquireTask(u) => o = u
          /\ \A p \in Proxy : AcquireTask(o) \notin {NotifyTask(p), DeletedTask(p)}
    /\ \A p \in Proxy :
          /\ NotifyTask(p) \in Task \ {MsgTask, StopTask, ReleaseTask}
          /\ DeletedTask(p) \in Task \ {MsgTask, StopTask, ReleaseTask}
          /\ \A q \in Proxy :
                /\ NotifyTask(p) # DeletedTask(q)
                /\ NotifyTask(p) = NotifyTask(q) => p = q
                /\ DeletedTask(p) = DeletedTask(q) => p = q
<1>1. /\ MsgTask.task = "msg" /\ StopTask.task = "stop"
      /\ ReleaseTask.task = "release_lock_mode"
      /\ \A q \in Proxy : /\ NotifyTask(q).task = "notify" /\ NotifyTask(q).proxy = q
                          /\ DeletedTask(q).task = "proxy_is_deleted"
                          /\ DeletedTask(q).proxy = q
      /\ \A u \in Outer : /\ AcquireTask(u).task = "acquire_lock_mode"
                          /\ AcquireTask(u).for = u
  BY DEF MsgTask, StopTask, ReleaseTask, NotifyTask, AcquireTask, DeletedTask
<1>2. ASSUME NEW o \in Outer
      PROVE  /\ AcquireTask(o) \in Task \ {MsgTask, StopTask, ReleaseTask}
             /\ \A u \in Outer : AcquireTask(o) = AcquireTask(u) => o = u
             /\ \A p \in Proxy : AcquireTask(o) \notin {NotifyTask(p), DeletedTask(p)}
  BY <1>1 DEF Task
<1>3. ASSUME NEW p \in Proxy
      PROVE  /\ NotifyTask(p) \in Task \ {MsgTask, StopTask, ReleaseTask}
             /\ DeletedTask(p) \in Task \ {MsgTask, StopTask, ReleaseTask}
             /\ \A q \in Proxy :
                   /\ NotifyTask(p) # DeletedTask(q)
                   /\ NotifyTask(p) = NotifyTask(q) => p = q
                   /\ DeletedTask(p) = DeletedTask(q) => p = q
  BY <1>1 DEF Task
<1>4. /\ {MsgTask, StopTask, ReleaseTask} \subseteq Task
      /\ ReleaseTask \notin {MsgTask, StopTask}
  BY <1>1 DEF Task
<1> QED  BY <1>2, <1>3, <1>4

LEMMA Appended ==
    ASSUME NEW T, NEW q \in Seq(T), NEW x \in T
    PROVE  /\ Append(q, x) \in Seq(T)
           /\ Len(q) \in Nat
           /\ Len(Append(q, x)) = Len(q) + 1
           /\ \A i \in 1 .. Len(q) : Append(q, x)[i] = q[i]
           /\ Append(q, x)[Len(q) + 1] = x
OBVIOUS

LEMMA Popped ==
    ASSUME NEW T, NEW q \in Seq(T), q # <<>>
    PROVE  /\ Tail(q) \in Seq(T)
           /\ Len(q) \in Nat \ {0}
           /\ Len(Tail(q)) = Len(q) - 1
           /\ \A i \in 1 .. Len(q) - 1 : Tail(q)[i] = q[i + 1]
           /\ Head(q) = q[1]
OBVIOUS

LEMMA Pushed ==
    ASSUME NEW T, NEW q \in Seq(T), NEW x \in T
    PROVE  /\ <<x>> \o q \in Seq(T)
           /\ Len(q) \in Nat
           /\ Len(<<x>> \o q) = Len(q) + 1
           /\ (<<x>> \o q)[1] = x
           /\ \A i \in 1 .. Len(q) : (<<x>> \o q)[i + 1] = q[i]
OBVIOUS

\* The counts follow the threads that use a proxy.
LEMMA CountKept ==
    ASSUME CountOK, threadCnt' = threadCnt,
           \A u \in Outer : /\ pc'[u] \in UserPlaces <=> pc[u] \in UserPlaces
                            /\ pc'[u] = "none" <=> pc[u] = "none"
    PROVE  CountOK'
<1>1. \A p \in Proxy : Users(p)' = Users(p)
  BY DEF Users, UsersOf, In
<1>2. ASSUME NEW p \in Proxy
      PROVE  threadCnt'[p] = Cardinality(Users(p)')
  BY <1>1 DEF CountOK
<1>3. \A o, u \in Outer : ProxyOf[o] = ProxyOf[u] /\ pc'[o] = "none" => pc'[u] = "none"
  BY DEF CountOK
<1> QED  BY <1>2, <1>3 DEF CountOK

LEMMA CreateProxyStep ==
    ASSUME NEW p \in Proxy, IInv, CreateProxy(p)
    PROVE  IInv'
<1> USE DEF IInv
<1>1. TypeOK'
  <2>1. Cardinality(UsersOf(p)) \in 0 .. Cardinality(Outer)
    BY UseAssumption, FS_Subset, FS_CardinalityType DEF UsersOf
  <2>2. threadCnt' \in [Proxy -> 0 .. Cardinality(Outer)]
    BY <2>1 DEF CreateProxy, TypeOK
  <2>3. pc' \in [Outer -> OuterPlaces]
    BY DEF CreateProxy, TypeOK, OuterPlaces, UserPlaces
  <2> QED
    BY <2>2, <2>3 DEF CreateProxy, TypeOK, extVars, boundVars
<1>2. LockOK'
  BY DEF CreateProxy, extVars, LockOK, In, HolderPlaces, LockModePlaces
<1>3. TasksOK'
  BY DEF CreateProxy, extVars, TasksOK, In
<1>4. CountOK'
  <2>1. \A u \in Outer : IF ProxyOf[u] = p THEN pc[u] = "none" /\ pc'[u] = "idle"
                                            ELSE pc'[u] = pc[u]
    BY DEF CreateProxy, UsersOf, In, TypeOK
  <2>2. ASSUME NEW q \in Proxy
        PROVE  threadCnt'[q] = Cardinality(Users(q)')
    <3>1. CASE q = p
      <4>1. Users(p)' = UsersOf(p)
        BY <2>1 DEF Users, UsersOf, In, UserPlaces
      <4> QED  BY <3>1, <4>1 DEF CreateProxy, TypeOK
    <3>2. CASE q # p
      <4>1. Users(q)' = Users(q)
        BY <2>1, <3>2 DEF Users, UsersOf, In
      <4> QED  BY <3>2, <4>1 DEF CreateProxy, TypeOK, CountOK
    <3> QED  BY <3>1, <3>2
  <2>3. \A o, u \in Outer : ProxyOf[o] = ProxyOf[u] /\ pc'[o] = "none" => pc'[u] = "none"
    BY <2>1 DEF CountOK
  <2> QED  BY <2>2, <2>3 DEF CountOK
<1>5. AliveOK'
  <2>1. \A u \in Outer : IF ProxyOf[u] = p THEN pc[u] = "none" /\ pc'[u] = "idle"
                                            ELSE pc'[u] = pc[u]
    BY DEF CreateProxy, UsersOf, In, TypeOK
  <2> QED  BY <2>1 DEF CreateProxy, AliveOK
<1>6. LastOK'
  <2>1. \A u \in Outer : IF ProxyOf[u] = p THEN pc[u] = "none" /\ pc'[u] = "idle"
                                            ELSE pc'[u] = pc[u]
    BY DEF CreateProxy, UsersOf, In, TypeOK
  <2>2. PICK v \in Outer : ProxyOf[v] = p
    BY DEF CreateProxy, UsersOf
  <2> QED  BY <2>1, <2>2 DEF CreateProxy, LastOK
<1>7. EndOK'
  BY DEF CreateProxy, extVars, EndOK
<1> QED  BY <1>1, <1>2, <1>3, <1>4, <1>5, <1>6, <1>7

LEMMA OnDeinitDoneStep ==
    ASSUME IInv, OnDeinitDone
    PROVE  IInv'
<1> USE DEF IInv
<1>1. TypeOK'
  BY DEF OnDeinitDone, proxyVars, boundVars, TypeOK, ExtStates
<1>2. LockOK'
  BY DEF OnDeinitDone, LockOK, In
<1>3. TasksOK'
  BY DEF OnDeinitDone, TasksOK
<1>4. CountOK'
  BY CountKept DEF OnDeinitDone, proxyVars
<1>5. AliveOK'
  BY DEF OnDeinitDone, proxyVars, AliveOK
<1>6. LastOK'
  BY DEF OnDeinitDone, LastOK
<1>7. EndOK'
  BY DEF OnDeinitDone, proxyVars, EndOK
<1> QED  BY <1>1, <1>2, <1>3, <1>4, <1>5, <1>6, <1>7

LEMMA EndOfCodeStep ==
    ASSUME IInv, EndOfCode
    PROVE  IInv'
<1> USE DEF IInv
<1>1. TypeOK'
  BY DEF EndOfCode, proxyVars, boundVars, TypeOK, ExtPlaces
<1>2. LockOK'
  BY DEF EndOfCode, LockOK, In
<1>3. TasksOK'
  BY DEF EndOfCode, TasksOK
<1>4. CountOK'
  BY CountKept DEF EndOfCode, proxyVars
<1>5. AliveOK'
  BY DEF EndOfCode, proxyVars, AliveOK
<1>6. LastOK'
  BY DEF EndOfCode, LastOK
<1>7. EndOK'
  BY DEF EndOfCode, proxyVars, EndOK
<1> QED  BY <1>1, <1>2, <1>3, <1>4, <1>5, <1>6, <1>7

LEMMA OnStopStep ==
    ASSUME IInv, OnStop
    PROVE  IInv'
<1> USE DEF IInv
<1>1. TypeOK'
  BY DEF OnStop, proxyVars, boundVars, TypeOK, ExtPlaces, ExtStates
<1>2. LockOK'
  BY DEF OnStop, LockOK, In
<1>3. TasksOK'
  BY DEF OnStop, TasksOK
<1>4. CountOK'
  BY CountKept DEF OnStop, proxyVars
<1>5. AliveOK'
  BY DEF OnStop, proxyVars, AliveOK
<1>6. LastOK'
  BY DEF OnStop, LastOK
<1>7. EndOK'
  BY DEF OnStop, proxyVars, EndOK
<1> QED  BY <1>1, <1>2, <1>3, <1>4, <1>5, <1>6, <1>7

LEMMA HandleMsgStep ==
    ASSUME IInv, HandleMsg
    PROVE  IInv'
<1> USE DEF IInv
<1>1. /\ runloop' \in Seq(Task) /\ Len(runloop) \in Nat \ {0} /\ runloop[1] = MsgTask
      /\ Len(runloop') = Len(runloop) - 1
      /\ \A i \in 1 .. Len(runloop') : runloop'[i] = runloop[i + 1]
      /\ \A i \in 2 .. Len(runloop) : runloop'[i - 1] = runloop[i]
  BY Popped DEF HandleMsg, Take, TypeOK
<1>2. TypeOK'
  BY <1>1 DEF HandleMsg, proxyVars, boundVars, TypeOK, ExtPlaces
<1>3. LockOK'
  BY <1>1 DEF HandleMsg, Take, LockOK, In
<1>4. TasksOK'
  <2>1. inLockMode' = inLockMode /\ pc' = pc
    BY DEF HandleMsg
  <2>2. inLockMode <=> \E i \in 1 .. Len(runloop') : runloop'[i] = ReleaseTask
    <3>1. ASSUME inLockMode
          PROVE  \E i \in 1 .. Len(runloop') : runloop'[i] = ReleaseTask
      <4>1. PICK k \in 1 .. Len(runloop) : runloop[k] = ReleaseTask
        BY <3>1 DEF TasksOK
      <4>2. k # 1
        BY <4>1, <1>1, TaskKinds
      <4>3. k - 1 \in 1 .. Len(runloop') /\ runloop'[k - 1] = ReleaseTask
        BY <4>1, <4>2, <1>1, TaskKinds
      <4> QED  BY <4>3
    <3>2. ASSUME NEW k \in 1 .. Len(runloop'), runloop'[k] = ReleaseTask
          PROVE  inLockMode
      <4>1. k + 1 \in 1 .. Len(runloop) /\ runloop[k + 1] = ReleaseTask
        BY <3>2, <1>1, TaskKinds
      <4> QED  BY <4>1 DEF TasksOK
    <3> QED  BY <3>1, <3>2
  <2>3. \A i, j \in 1 .. Len(runloop') :
           runloop'[i] = ReleaseTask /\ runloop'[j] = ReleaseTask => i = j
    BY <1>1, TaskKinds DEF TasksOK
  <2>4. \A i \in 1 .. Len(runloop') : \A u \in Outer :
          runloop'[i] = AcquireTask(u) =>
              /\ pc[u] = "wait"
              /\ \A j \in 1 .. Len(runloop') : runloop'[j] = AcquireTask(u) => i = j
    BY <1>1, TaskKinds DEF TasksOK
  <2> QED  BY <2>1, <2>2, <2>3, <2>4 DEF TasksOK
<1>5. CountOK'
  BY <1>1, CountKept DEF HandleMsg, proxyVars
<1>6. AliveOK'
  BY <1>1 DEF HandleMsg, proxyVars, AliveOK
<1>7. LastOK'
  BY <1>1 DEF HandleMsg, Take, LastOK
<1>8. EndOK'
  BY <1>1 DEF HandleMsg, Take, proxyVars, EndOK
<1> QED  BY <1>2, <1>3, <1>4, <1>5, <1>6, <1>7, <1>8

LEMMA HandleStopStep ==
    ASSUME IInv, HandleStop
    PROVE  IInv'
<1> USE DEF IInv
<1>1. /\ runloop' \in Seq(Task) /\ Len(runloop) \in Nat \ {0} /\ runloop[1] = StopTask
      /\ Len(runloop') = Len(runloop) - 1
      /\ \A i \in 1 .. Len(runloop') : runloop'[i] = runloop[i + 1]
      /\ \A i \in 2 .. Len(runloop) : runloop'[i - 1] = runloop[i]
  BY Popped DEF HandleStop, Take, TypeOK
<1>2. TypeOK'
  BY <1>1 DEF HandleStop, proxyVars, boundVars, TypeOK, ExtPlaces
<1>3. LockOK'
  BY <1>1 DEF HandleStop, Take, LockOK, In
<1>4. TasksOK'
  <2>1. inLockMode' = inLockMode /\ pc' = pc
    BY DEF HandleStop
  <2>2. inLockMode <=> \E i \in 1 .. Len(runloop') : runloop'[i] = ReleaseTask
    <3>1. ASSUME inLockMode
          PROVE  \E i \in 1 .. Len(runloop') : runloop'[i] = ReleaseTask
      <4>1. PICK k \in 1 .. Len(runloop) : runloop[k] = ReleaseTask
        BY <3>1 DEF TasksOK
      <4>2. k # 1
        BY <4>1, <1>1, TaskKinds
      <4>3. k - 1 \in 1 .. Len(runloop') /\ runloop'[k - 1] = ReleaseTask
        BY <4>1, <4>2, <1>1, TaskKinds
      <4> QED  BY <4>3
    <3>2. ASSUME NEW k \in 1 .. Len(runloop'), runloop'[k] = ReleaseTask
          PROVE  inLockMode
      <4>1. k + 1 \in 1 .. Len(runloop) /\ runloop[k + 1] = ReleaseTask
        BY <3>2, <1>1, TaskKinds
      <4> QED  BY <4>1 DEF TasksOK
    <3> QED  BY <3>1, <3>2
  <2>3. \A i, j \in 1 .. Len(runloop') :
           runloop'[i] = ReleaseTask /\ runloop'[j] = ReleaseTask => i = j
    BY <1>1, TaskKinds DEF TasksOK
  <2>4. \A i \in 1 .. Len(runloop') : \A u \in Outer :
          runloop'[i] = AcquireTask(u) =>
              /\ pc[u] = "wait"
              /\ \A j \in 1 .. Len(runloop') : runloop'[j] = AcquireTask(u) => i = j
    BY <1>1, TaskKinds DEF TasksOK
  <2> QED  BY <2>1, <2>2, <2>3, <2>4 DEF TasksOK
<1>5. CountOK'
  BY <1>1, CountKept DEF HandleStop, proxyVars
<1>6. AliveOK'
  BY <1>1 DEF HandleStop, proxyVars, AliveOK
<1>7. LastOK'
  BY <1>1, UseAssumption DEF HandleStop, LastOK
<1>8. EndOK'
  BY <1>1 DEF HandleStop, Take, proxyVars, EndOK
<1> QED  BY <1>2, <1>3, <1>4, <1>5, <1>6, <1>7, <1>8

LEMMA HandleNotifyStep ==
    ASSUME IInv, HandleNotify
    PROVE  IInv'
<1> USE DEF IInv
<1>1. PICK p \in Proxy : Take(NotifyTask(p))
  BY DEF HandleNotify
<1>2. /\ runloop' \in Seq(Task) /\ Len(runloop) \in Nat \ {0} /\ runloop[1] = NotifyTask(p)
      /\ Len(runloop') = Len(runloop) - 1
      /\ \A i \in 1 .. Len(runloop') : runloop'[i] = runloop[i + 1]
      /\ \A i \in 2 .. Len(runloop) : runloop'[i - 1] = runloop[i]
  BY <1>1, Popped DEF HandleNotify, Take, TypeOK
<1>3. TypeOK'
  BY <1>2 DEF HandleNotify, proxyVars, boundVars, TypeOK, ExtPlaces
<1>4. LockOK'
  BY <1>2 DEF HandleNotify, Take, LockOK, In
<1>5. TasksOK'
  <2>1. inLockMode' = inLockMode /\ pc' = pc
    BY DEF HandleNotify
  <2>2. inLockMode <=> \E i \in 1 .. Len(runloop') : runloop'[i] = ReleaseTask
    <3>1. ASSUME inLockMode
          PROVE  \E i \in 1 .. Len(runloop') : runloop'[i] = ReleaseTask
      <4>1. PICK k \in 1 .. Len(runloop) : runloop[k] = ReleaseTask
        BY <3>1 DEF TasksOK
      <4>2. k # 1
        BY <4>1, <1>2, TaskKinds
      <4>3. k - 1 \in 1 .. Len(runloop') /\ runloop'[k - 1] = ReleaseTask
        BY <4>1, <4>2, <1>2, TaskKinds
      <4> QED  BY <4>3
    <3>2. ASSUME NEW k \in 1 .. Len(runloop'), runloop'[k] = ReleaseTask
          PROVE  inLockMode
      <4>1. k + 1 \in 1 .. Len(runloop) /\ runloop[k + 1] = ReleaseTask
        BY <3>2, <1>2, TaskKinds
      <4> QED  BY <4>1 DEF TasksOK
    <3> QED  BY <3>1, <3>2
  <2>3. \A i, j \in 1 .. Len(runloop') :
           runloop'[i] = ReleaseTask /\ runloop'[j] = ReleaseTask => i = j
    BY <1>2, TaskKinds DEF TasksOK
  <2>4. \A i \in 1 .. Len(runloop') : \A u \in Outer :
          runloop'[i] = AcquireTask(u) =>
              /\ pc[u] = "wait"
              /\ \A j \in 1 .. Len(runloop') : runloop'[j] = AcquireTask(u) => i = j
    BY <1>2, TaskKinds DEF TasksOK
  <2> QED  BY <2>1, <2>2, <2>3, <2>4 DEF TasksOK
<1>6. CountOK'
  BY <1>2, CountKept DEF HandleNotify, proxyVars
<1>7. AliveOK'
  BY <1>2 DEF HandleNotify, proxyVars, AliveOK
<1>8. LastOK'
  BY <1>2 DEF HandleNotify, Take, proxyVars, LastOK
<1>9. EndOK'
  BY <1>2 DEF HandleNotify, Take, proxyVars, EndOK
<1> QED  BY <1>3, <1>4, <1>5, <1>6, <1>7, <1>8, <1>9

LEMMA AcquireLockModeStep ==
    ASSUME NEW o \in Outer, IInv, AcquireLockMode(o)
    PROVE  IInv'
<1> USE DEF IInv
<1>1. /\ runloop' \in Seq(Task) /\ Len(runloop) \in Nat \ {0} /\ Len(runloop') = Len(runloop)
      /\ runloop[1] = AcquireTask(o) /\ runloop'[Len(runloop)] = ReleaseTask
      /\ \A i \in 1 .. Len(runloop) - 1 : runloop'[i] = runloop[i + 1]
      /\ \A i \in 2 .. Len(runloop) : runloop'[i - 1] = runloop[i]
  BY TaskKinds, Popped, Appended DEF AcquireLockMode, TakeAndPost, TypeOK
<1>2. TypeOK'
  BY <1>1 DEF AcquireLockMode, Go, proxyVars, boundVars, TypeOK, ExtPlaces,
              OuterPlaces, UserPlaces, HolderPlaces, LockModePlaces
<1>3. LockOK'
  BY <1>1 DEF AcquireLockMode, Go, TypeOK, LockOK, TasksOK, In, HolderPlaces,
              LockModePlaces
<1>4. TasksOK'
  <2>1. /\ pc[o] = "wait" /\ pc' = [pc EXCEPT ![o] = "told"]
        /\ \A u \in Outer : pc'[u] = IF u = o THEN "told" ELSE pc[u]
    BY <1>1 DEF AcquireLockMode, Go, TasksOK, TypeOK
  <2>2. inLockMode' = TRUE /\ 1 \in 1 .. Len(runloop) /\ ~inLockMode
    BY <1>1, <2>1 DEF AcquireLockMode, LockOK, In
  <2>3. \A i \in 1 .. Len(runloop) : runloop[i] # ReleaseTask
    BY <2>2 DEF TasksOK
  <2>4. \A i \in 1 .. Len(runloop') : runloop'[i] = ReleaseTask <=> i = Len(runloop)
    BY <1>1, <2>3
  <2>5. \A i, j \in 1 .. Len(runloop') :
           runloop'[i] = ReleaseTask /\ runloop'[j] = ReleaseTask => i = j
    BY <2>4
  <2>6. \E i \in 1 .. Len(runloop') : runloop'[i] = ReleaseTask
    BY <1>1
  <2>7. \A i \in 1 .. Len(runloop') : \A u \in Outer :
          runloop'[i] = AcquireTask(u) =>
              /\ pc'[u] = "wait"
              /\ \A j \in 1 .. Len(runloop') : runloop'[j] = AcquireTask(u) => i = j
    <3> SUFFICES ASSUME NEW i \in 1 .. Len(runloop'), NEW u \in Outer,
                        runloop'[i] = AcquireTask(u)
                 PROVE  /\ pc'[u] = "wait"
                        /\ \A j \in 1 .. Len(runloop') : runloop'[j] = AcquireTask(u) => i = j
      OBVIOUS
    <3>1. i \in 1 .. Len(runloop) - 1 /\ runloop[i + 1] = AcquireTask(u)
      BY <1>1, TaskKinds
    <3>2. pc[u] = "wait" /\ u # o
      BY <1>1, <3>1 DEF TasksOK
    <3>3. \A j \in 1 .. Len(runloop') : runloop'[j] = AcquireTask(u) => i = j
      BY <1>1, <3>1, TaskKinds DEF TasksOK
    <3> QED  BY <2>1, <3>2, <3>3
  <2> QED  BY <2>2, <2>5, <2>6, <2>7 DEF TasksOK
<1>5. CountOK'
  <2>1. /\ pc[o] = "wait" /\ pc' = [pc EXCEPT ![o] = "told"]
        /\ \A u \in Outer : pc'[u] = IF u = o THEN "told" ELSE pc[u]
    BY <1>1 DEF AcquireLockMode, Go, TasksOK, TypeOK
  <2> QED  BY <2>1, CountKept DEF AcquireLockMode, proxyVars, UserPlaces,
                                  HolderPlaces, LockModePlaces
<1>6. AliveOK'
  <2>1. /\ pc[o] = "wait" /\ pc' = [pc EXCEPT ![o] = "told"]
        /\ \A u \in Outer : pc'[u] = IF u = o THEN "told" ELSE pc[u]
    BY <1>1 DEF AcquireLockMode, Go, TasksOK, TypeOK
  <2>2. proxyList' = proxyList
    BY DEF AcquireLockMode, proxyVars
  <2>3. \A u \in Outer : pc'[u] \in UserPlaces \cup {"last"} => ProxyOf[u] \in proxyList
    BY <2>1 DEF AliveOK, UserPlaces, HolderPlaces, LockModePlaces
  <2>4. \A i \in 1 .. Len(runloop') : \A p \in Proxy :
          runloop'[i] \in {NotifyTask(p), DeletedTask(p)} => p \in proxyList
    BY <1>1, TaskKinds DEF AliveOK
  <2> QED  BY <2>2, <2>3, <2>4 DEF AliveOK
<1>7. LastOK'
  <2>1. /\ pc[o] = "wait" /\ pc' = [pc EXCEPT ![o] = "told"]
        /\ \A u \in Outer : pc'[u] = IF u = o THEN "told" ELSE pc[u]
    BY <1>1 DEF AcquireLockMode, Go, TasksOK, TypeOK
  <2>2. \A i \in 1 .. Len(runloop') : \A p \in Proxy :
          runloop'[i] = DeletedTask(p) =>
              /\ \A u \in Outer : ProxyOf[u] = p => pc'[u] = "gone"
              /\ \A j \in 1 .. Len(runloop') :
                    runloop'[j] \in {NotifyTask(p), DeletedTask(p)} => j <= i
    <3> SUFFICES ASSUME NEW i \in 1 .. Len(runloop'), NEW p \in Proxy,
                        runloop'[i] = DeletedTask(p)
                 PROVE  /\ \A u \in Outer : ProxyOf[u] = p => pc'[u] = "gone"
                        /\ \A j \in 1 .. Len(runloop') :
                              runloop'[j] \in {NotifyTask(p), DeletedTask(p)} => j <= i
      OBVIOUS
    <3>1. i \in 1 .. Len(runloop) - 1 /\ runloop[i + 1] = DeletedTask(p)
      BY <1>1, TaskKinds
    <3>2. \A u \in Outer : ProxyOf[u] = p => pc[u] = "gone"
      BY <1>1, <3>1 DEF LastOK
    <3>3. ASSUME NEW j \in 1 .. Len(runloop'),
                 runloop'[j] \in {NotifyTask(p), DeletedTask(p)}
          PROVE  j <= i
      <4>1. /\ j \in 1 .. Len(runloop) - 1
            /\ runloop[j + 1] \in {NotifyTask(p), DeletedTask(p)}
        BY <1>1, <3>3, TaskKinds
      <4> QED  BY <1>1, <3>1, <4>1 DEF LastOK
    <3> QED  BY <2>1, <3>2, <3>3
  <2>3. \A v \in Outer :
          pc'[v] = "last" =>
              /\ \A u \in Outer : ProxyOf[u] = ProxyOf[v] /\ u # v => pc'[u] = "gone"
              /\ \A i \in 1 .. Len(runloop') : runloop'[i] # DeletedTask(ProxyOf[v])
    <3> SUFFICES ASSUME NEW v \in Outer, pc'[v] = "last"
                 PROVE  /\ \A u \in Outer : ProxyOf[u] = ProxyOf[v] /\ u # v => pc'[u] = "gone"
                        /\ \A i \in 1 .. Len(runloop') : runloop'[i] # DeletedTask(ProxyOf[v])
      OBVIOUS
    <3>1. pc[v] = "last"
      BY <2>1
    <3>2. \A u \in Outer : ProxyOf[u] = ProxyOf[v] /\ u # v => pc[u] = "gone"
      BY <3>1 DEF LastOK
    <3>3. PICK p \in Proxy : p = ProxyOf[v]
      BY UseAssumption
    <3>4. \A i \in 1 .. Len(runloop) : runloop[i] # DeletedTask(p)
      BY <3>1, <3>3 DEF LastOK
    <3>5. \A i \in 1 .. Len(runloop') : runloop'[i] # DeletedTask(p)
      BY <1>1, <3>4, TaskKinds
    <3> QED  BY <2>1, <3>2, <3>3, <3>5
  <2> QED  BY <2>2, <2>3 DEF LastOK
<1>8. EndOK'
  <2>1. /\ pc[o] = "wait" /\ pc' = [pc EXCEPT ![o] = "told"]
        /\ \A u \in Outer : pc'[u] = IF u = o THEN "told" ELSE pc[u]
    BY <1>1 DEF AcquireLockMode, Go, TasksOK, TypeOK
  <2>2. proxyList' = proxyList /\ extState' = extState
    BY DEF AcquireLockMode, proxyVars
  <2>3. PICK p \in Proxy : p = ProxyOf[o]
    BY UseAssumption
  <2>4. p \in proxyList /\ \A i \in 1 .. Len(runloop) : runloop[i] # DeletedTask(p)
    BY <2>1, <2>3 DEF AliveOK, LastOK, UserPlaces, HolderPlaces
  <2>5. \A i \in 1 .. Len(runloop') : runloop'[i] # DeletedTask(p)
    BY <1>1, <2>4, TaskKinds
  <2>6. \A k \in 1 .. Len(runloop') : \A i \in 1 .. k - 1 : runloop'[i] # DeletedTask(p)
    BY <1>1, <2>5
  <2> QED  BY <2>2, <2>4, <2>6 DEF EndOK
<1> QED  BY <1>2, <1>3, <1>4, <1>5, <1>6, <1>7, <1>8

LEMMA UnblockStep ==
    ASSUME IInv, Unblock
    PROVE  IInv'
<1> USE DEF IInv
<1>1. TypeOK'
  BY DEF Unblock, proxyVars, boundVars, TypeOK, ExtPlaces
<1>2. LockOK'
  BY UseAssumption DEF Unblock, LockOK, In, HolderPlaces
<1>3. TasksOK'
  BY DEF Unblock, TasksOK
<1>4. CountOK'
  BY CountKept DEF Unblock, proxyVars
<1>5. AliveOK'
  BY DEF Unblock, proxyVars, AliveOK
<1>6. LastOK'
  BY DEF Unblock, LastOK
<1>7. EndOK'
  BY DEF Unblock, proxyVars, EndOK
<1> QED  BY <1>1, <1>2, <1>3, <1>4, <1>5, <1>6, <1>7

LEMMA ReleaseLockModeTaskStep ==
    ASSUME IInv, ReleaseLockModeTask
    PROVE  IInv'
<1> USE DEF IInv
<1>1. /\ runloop' \in Seq(Task) /\ Len(runloop) \in Nat \ {0} /\ runloop[1] = ReleaseTask
      /\ Len(runloop') = Len(runloop) - 1
      /\ \A i \in 1 .. Len(runloop') : runloop'[i] = runloop[i + 1]
      /\ \A i \in 2 .. Len(runloop) : runloop'[i - 1] = runloop[i]
  BY Popped DEF ReleaseLockModeTask, Take, TypeOK
<1>2. TypeOK'
  BY <1>1 DEF ReleaseLockModeTask, proxyVars, boundVars, TypeOK
<1>3. LockOK'
  BY <1>1, UseAssumption DEF ReleaseLockModeTask, Take, LockOK, TasksOK, In
<1>4. TasksOK'
  BY <1>1 DEF ReleaseLockModeTask, TasksOK
<1>5. CountOK'
  BY <1>1, CountKept DEF ReleaseLockModeTask, proxyVars
<1>6. AliveOK'
  BY <1>1 DEF ReleaseLockModeTask, proxyVars, AliveOK
<1>7. LastOK'
  BY <1>1 DEF ReleaseLockModeTask, proxyVars, LastOK
<1>8. EndOK'
  BY <1>1, TaskKinds DEF ReleaseLockModeTask, boundVars, TasksOK, EndOK
<1> QED  BY <1>2, <1>3, <1>4, <1>5, <1>6, <1>7, <1>8

LEMMA ProxyIsDeletedStep ==
    ASSUME NEW p \in Proxy, IInv, ProxyIsDeleted(p)
    PROVE  IInv'
<1> USE DEF IInv
<1>1. /\ runloop' \in Seq(Task) /\ Len(runloop) \in Nat \ {0} /\ runloop[1] = DeletedTask(p)
      /\ Len(runloop') = Len(runloop) - 1
      /\ \A i \in 1 .. Len(runloop') : runloop'[i] = runloop[i + 1]
      /\ \A i \in 2 .. Len(runloop) : runloop'[i - 1] = runloop[i]
  BY Popped DEF ProxyIsDeleted, Take, TypeOK
<1>2. TypeOK'
  BY <1>1 DEF ProxyIsDeleted, boundVars, TypeOK, ExtStates
<1>3. LockOK'
  BY <1>1 DEF ProxyIsDeleted, LockOK, In
<1>4. TasksOK'
  <2>1. inLockMode' = inLockMode /\ pc' = pc
    BY DEF ProxyIsDeleted
  <2>2. inLockMode <=> \E i \in 1 .. Len(runloop') : runloop'[i] = ReleaseTask
    <3>1. ASSUME inLockMode
          PROVE  \E i \in 1 .. Len(runloop') : runloop'[i] = ReleaseTask
      <4>1. PICK k \in 1 .. Len(runloop) : runloop[k] = ReleaseTask
        BY <3>1 DEF TasksOK
      <4>2. k # 1
        BY <4>1, <1>1, TaskKinds
      <4>3. k - 1 \in 1 .. Len(runloop') /\ runloop'[k - 1] = ReleaseTask
        BY <4>1, <4>2, <1>1, TaskKinds
      <4> QED  BY <4>3
    <3>2. ASSUME NEW k \in 1 .. Len(runloop'), runloop'[k] = ReleaseTask
          PROVE  inLockMode
      <4>1. k + 1 \in 1 .. Len(runloop) /\ runloop[k + 1] = ReleaseTask
        BY <3>2, <1>1, TaskKinds
      <4> QED  BY <4>1 DEF TasksOK
    <3> QED  BY <3>1, <3>2
  <2>3. \A i, j \in 1 .. Len(runloop') :
           runloop'[i] = ReleaseTask /\ runloop'[j] = ReleaseTask => i = j
    BY <1>1, TaskKinds DEF TasksOK
  <2>4. \A i \in 1 .. Len(runloop') : \A u \in Outer :
          runloop'[i] = AcquireTask(u) =>
              /\ pc[u] = "wait"
              /\ \A j \in 1 .. Len(runloop') : runloop'[j] = AcquireTask(u) => i = j
    BY <1>1, TaskKinds DEF TasksOK
  <2> QED  BY <2>1, <2>2, <2>3, <2>4 DEF TasksOK
<1>5. CountOK'
  BY <1>1, CountKept DEF ProxyIsDeleted
<1>6. AliveOK'
  BY <1>1 DEF ProxyIsDeleted, AliveOK, LastOK, UserPlaces, HolderPlaces, LockModePlaces
<1>7. LastOK'
  BY <1>1 DEF ProxyIsDeleted, Take, LastOK
<1>8. EndOK'
  <2>1. /\ proxyList' = proxyList \ {p}
        /\ extState' = IF proxyList' = {} /\ extState = "ON_DEINIT"
                         THEN "ON_DEINIT_DONE" ELSE extState
    BY DEF ProxyIsDeleted
  <2>2. ASSUME NEW k \in 1 .. Len(runloop'), runloop'[k] = ReleaseTask
        PROVE  \E q \in proxyList' : \A i \in 1 .. k - 1 : runloop'[i] # DeletedTask(q)
    <3>1. k + 1 \in 1 .. Len(runloop) /\ runloop[k + 1] = ReleaseTask
      BY <1>1, <2>2
    <3>2. PICK q \in proxyList : \A i \in 1 .. k : runloop[i] # DeletedTask(q)
      BY <3>1 DEF EndOK
    <3>3. q # p
      BY <1>1, <3>2
    <3>4. \A i \in 1 .. k - 1 : runloop'[i] # DeletedTask(q)
      <4>1. \A i \in 1 .. k - 1 : i + 1 \in 1 .. k /\ runloop'[i] = runloop[i + 1]
        BY <1>1, <2>2
      <4> QED  BY <3>2, <4>1
    <3> QED  BY <2>1, <3>3, <3>4
  <2>3. extState' = "ON_DEINIT_DONE" => proxyList' = {}
    BY <2>1 DEF EndOK
  <2> QED  BY <2>2, <2>3 DEF EndOK
<1> QED  BY <1>2, <1>3, <1>4, <1>5, <1>6, <1>7, <1>8

LEMMA NotifyAsyncStep ==
    ASSUME NEW o \in Outer, IInv, NotifyAsync(o)
    PROVE  IInv'
<1> USE DEF IInv
<1>1. PICK p \in Proxy : p = ProxyOf[o]
  BY UseAssumption
<1>2. /\ runloop' \in Seq(Task) /\ Len(runloop) \in Nat /\ Len(runloop') = Len(runloop) + 1
      /\ runloop'[Len(runloop) + 1] = NotifyTask(p)
      /\ \A i \in 1 .. Len(runloop) : runloop'[i] = runloop[i]
  BY <1>1, TaskKinds, Appended DEF NotifyAsync, Post, TypeOK
<1>3. TypeOK'
  BY <1>1, <1>2, BoundAssumption DEF NotifyAsync, extVars, proxyVars, TypeOK
<1>4. LockOK'
  BY <1>1, <1>2 DEF NotifyAsync, extVars, LockOK, In
<1>5. TasksOK'
  BY <1>1, <1>2, TaskKinds DEF NotifyAsync, Post, extVars, TasksOK
<1>6. CountOK'
  BY <1>1, <1>2, CountKept DEF NotifyAsync, proxyVars
<1>7. AliveOK'
  BY <1>1, <1>2, TaskKinds DEF NotifyAsync, Post, proxyVars, AliveOK, UserPlaces,
                               HolderPlaces, LockModePlaces
<1>8. LastOK'
  BY <1>1, <1>2, TaskKinds, UseAssumption DEF NotifyAsync, Post, extVars, LastOK
<1>9. EndOK'
  BY <1>1, <1>2, TaskKinds DEF NotifyAsync, Post, extVars, proxyVars, EndOK
<1> QED  BY <1>3, <1>4, <1>5, <1>6, <1>7, <1>8, <1>9

LEMMA WantLockModeStep ==
    ASSUME NEW o \in Outer, IInv, WantLockMode(o)
    PROVE  IInv'
<1> USE DEF IInv
<1>1. TypeOK'
  BY BoundAssumption DEF WantLockMode, Go, extVars, proxyVars, TypeOK, ExtPlaces,
                         ExtStates, OuterPlaces, UserPlaces
<1>2. LockOK'
  BY DEF WantLockMode, Go, extVars, LockOK, In, HolderPlaces, LockModePlaces
<1>3. TasksOK'
  BY DEF WantLockMode, Go, extVars, TasksOK
<1>4. CountOK'
  BY CountKept DEF WantLockMode, Go, proxyVars, UserPlaces
<1>5. AliveOK'
  BY DEF WantLockMode, Go, proxyVars, AliveOK, UserPlaces
<1>6. LastOK'
  BY DEF WantLockMode, Go, LastOK
<1>7. EndOK'
  BY DEF WantLockMode, extVars, proxyVars, EndOK
<1> QED  BY <1>1, <1>2, <1>3, <1>4, <1>5, <1>6, <1>7

LEMMA TakeLockModeLockStep ==
    ASSUME NEW o \in Outer, IInv, TakeLockModeLock(o)
    PROVE  IInv'
<1> USE DEF IInv
<1>1. TypeOK'
  BY DEF TakeLockModeLock, Go, extVars, proxyVars, boundVars, TypeOK, OuterPlaces,
         UserPlaces, HolderPlaces
<1>2. LockOK'
  BY UseAssumption DEF TakeLockModeLock, Go, extVars, TypeOK, LockOK, In,
                       HolderPlaces, LockModePlaces
<1>3. TasksOK'
  BY UseAssumption DEF TakeLockModeLock, extVars, LockOK, TasksOK, HolderPlaces
<1>4. CountOK'
  BY CountKept DEF TakeLockModeLock, Go, proxyVars, UserPlaces, HolderPlaces
<1>5. AliveOK'
  BY DEF TakeLockModeLock, Go, proxyVars, AliveOK, UserPlaces
<1>6. LastOK'
  BY DEF TakeLockModeLock, Go, LastOK
<1>7. EndOK'
  BY DEF TakeLockModeLock, extVars, proxyVars, EndOK
<1> QED  BY <1>1, <1>2, <1>3, <1>4, <1>5, <1>6, <1>7

LEMMA TakeProxyLockStep ==
    ASSUME NEW o \in Outer, IInv, TakeProxyLock(o)
    PROVE  IInv'
<1> USE DEF IInv
<1>1. CASE ~inLockMode
  <2>1. /\ runloop' \in Seq(Task) /\ Len(runloop) \in Nat /\ Len(runloop') = Len(runloop) + 1
        /\ runloop'[1] = AcquireTask(o)
        /\ \A i \in 1 .. Len(runloop) : runloop'[i + 1] = runloop[i]
        /\ \A i \in 2 .. Len(runloop) + 1 : runloop'[i] = runloop[i - 1]
    <3>1. /\ runloop \in Seq(Task) /\ AcquireTask(o) \in Task
          /\ runloop' = <<AcquireTask(o)>> \o runloop
      BY <1>1, TaskKinds DEF TakeProxyLock, TypeOK
    <3> HIDE DEF IInv
    <3> QED  BY <3>1, Pushed
  <2>2. TypeOK'
    BY <1>1, <2>1, TaskKinds DEF TakeProxyLock, Go, extVars, boundVars, TypeOK,
                                 ExtPlaces, ExtStates, OuterPlaces, UserPlaces,
                                 HolderPlaces, LockModePlaces
  <2>3. LockOK'
    BY <1>1, <2>1 DEF TakeProxyLock, Go, extVars, TypeOK, LockOK, In, HolderPlaces,
                      LockModePlaces
  <2>4. TasksOK'
    <3>1. /\ pc[o] = "lock" /\ pc' = [pc EXCEPT ![o] = "wait"]
          /\ \A u \in Outer : pc'[u] = IF u = o THEN "wait" ELSE pc[u]
          /\ proxyList' = proxyList /\ extState' = extState /\ inLockMode' = inLockMode
      BY <1>1 DEF TakeProxyLock, Go, TypeOK, extVars
    <3>2. \A i \in 1 .. Len(runloop) : runloop[i] # AcquireTask(o) /\ runloop[i] # ReleaseTask
      BY <1>1, <3>1 DEF TasksOK
    <3>3. \A i \in 1 .. Len(runloop') : runloop'[i] # ReleaseTask
      BY <2>1, <3>2, TaskKinds
    <3>4. \A i \in 1 .. Len(runloop') : \A u \in Outer :
            runloop'[i] = AcquireTask(u) =>
                /\ pc'[u] = "wait"
                /\ \A j \in 1 .. Len(runloop') : runloop'[j] = AcquireTask(u) => i = j
      <4> SUFFICES ASSUME NEW i \in 1 .. Len(runloop'), NEW u \in Outer,
                          runloop'[i] = AcquireTask(u)
                   PROVE  /\ pc'[u] = "wait"
                          /\ \A j \in 1 .. Len(runloop') : runloop'[j] = AcquireTask(u) => i = j
        OBVIOUS
      <4>1. CASE u = o
        BY <2>1, <3>1, <3>2, <4>1
      <4>2. CASE u # o
        <5>1. i \in 2 .. Len(runloop) + 1 /\ runloop[i - 1] = AcquireTask(u)
          BY <2>1, <4>2, TaskKinds
        <5>2. pc[u] = "wait"
          BY <2>1, <5>1 DEF TasksOK
        <5>3. ASSUME NEW j \in 1 .. Len(runloop'), runloop'[j] = AcquireTask(u)
              PROVE  i = j
          <6>1. j \in 2 .. Len(runloop) + 1 /\ runloop[j - 1] = AcquireTask(u)
            BY <2>1, <4>2, <5>3, TaskKinds
          <6> QED  BY <2>1, <5>1, <6>1 DEF TasksOK
        <5> QED  BY <3>1, <4>2, <5>2, <5>3
      <4> QED  BY <4>1, <4>2
    <3> QED  BY <1>1, <3>1, <3>3, <3>4 DEF TasksOK
  <2>5. CountOK'
    BY <1>1, <2>1, CountKept DEF TakeProxyLock, Go, TypeOK, UserPlaces, HolderPlaces
  <2>6. AliveOK'
    <3>1. /\ pc[o] = "lock" /\ pc' = [pc EXCEPT ![o] = "wait"]
          /\ \A u \in Outer : pc'[u] = IF u = o THEN "wait" ELSE pc[u]
          /\ proxyList' = proxyList /\ extState' = extState /\ inLockMode' = inLockMode
      BY <1>1 DEF TakeProxyLock, Go, TypeOK, extVars
    <3>2. \A u \in Outer : pc'[u] \in UserPlaces \cup {"last"} => ProxyOf[u] \in proxyList
      BY <3>1 DEF AliveOK, UserPlaces, HolderPlaces
    <3>3. \A i \in 1 .. Len(runloop') : \A p \in Proxy :
            runloop'[i] \in {NotifyTask(p), DeletedTask(p)} => p \in proxyList
      BY <2>1, TaskKinds DEF AliveOK
    <3> QED  BY <3>1, <3>2, <3>3 DEF AliveOK
  <2>7. LastOK'
    <3>1. /\ pc[o] = "lock" /\ pc' = [pc EXCEPT ![o] = "wait"]
          /\ \A u \in Outer : pc'[u] = IF u = o THEN "wait" ELSE pc[u]
          /\ proxyList' = proxyList /\ extState' = extState /\ inLockMode' = inLockMode
      BY <1>1 DEF TakeProxyLock, Go, TypeOK, extVars
    <3>2. \A i \in 1 .. Len(runloop') : \A p \in Proxy :
            runloop'[i] = DeletedTask(p) =>
                /\ \A u \in Outer : ProxyOf[u] = p => pc'[u] = "gone"
                /\ \A j \in 1 .. Len(runloop') :
                      runloop'[j] \in {NotifyTask(p), DeletedTask(p)} => j <= i
      <4> SUFFICES ASSUME NEW i \in 1 .. Len(runloop'), NEW p \in Proxy,
                          runloop'[i] = DeletedTask(p)
                   PROVE  /\ \A u \in Outer : ProxyOf[u] = p => pc'[u] = "gone"
                          /\ \A j \in 1 .. Len(runloop') :
                                runloop'[j] \in {NotifyTask(p), DeletedTask(p)} => j <= i
        OBVIOUS
      <4>1. i - 1 \in 1 .. Len(runloop) /\ runloop[i - 1] = DeletedTask(p)
        BY <2>1, TaskKinds
      <4>2. \A u \in Outer : ProxyOf[u] = p => pc[u] = "gone"
        BY <4>1 DEF LastOK
      <4>3. \A j \in 1 .. Len(runloop) :
               runloop[j] \in {NotifyTask(p), DeletedTask(p)} => j <= i - 1
        BY <4>1 DEF LastOK
      <4>4. \A j \in 1 .. Len(runloop') :
               runloop'[j] \in {NotifyTask(p), DeletedTask(p)} => j <= i
        <5> SUFFICES ASSUME NEW j \in 1 .. Len(runloop'),
                            runloop'[j] \in {NotifyTask(p), DeletedTask(p)}
                     PROVE  j <= i
          OBVIOUS
        <5>1. /\ j - 1 \in 1 .. Len(runloop)
              /\ runloop[j - 1] \in {NotifyTask(p), DeletedTask(p)}
          BY <2>1, TaskKinds
        <5> QED  BY <4>3, <5>1
      <4> QED  BY <3>1, <4>2, <4>4
    <3>3. \A v \in Outer :
            pc'[v] = "last" =>
                /\ \A u \in Outer : ProxyOf[u] = ProxyOf[v] /\ u # v => pc'[u] = "gone"
                /\ \A i \in 1 .. Len(runloop') : runloop'[i] # DeletedTask(ProxyOf[v])
      <4> SUFFICES ASSUME NEW v \in Outer, pc'[v] = "last"
                   PROVE  /\ \A u \in Outer : ProxyOf[u] = ProxyOf[v] /\ u # v => pc'[u] = "gone"
                          /\ \A i \in 1 .. Len(runloop') : runloop'[i] # DeletedTask(ProxyOf[v])
        OBVIOUS
      <4>1. pc[v] = "last"
        BY <3>1
      <4>2. \A u \in Outer : ProxyOf[u] = ProxyOf[v] /\ u # v => pc[u] = "gone"
        BY <4>1 DEF LastOK
      <4>3. PICK p \in Proxy : p = ProxyOf[v]
        BY UseAssumption
      <4>4. \A i \in 1 .. Len(runloop') : runloop'[i] # DeletedTask(p)
        BY <2>1, <4>1, <4>3, TaskKinds DEF LastOK
      <4> QED  BY <3>1, <4>2, <4>3, <4>4
    <3> QED  BY <3>2, <3>3 DEF LastOK
  <2>8. EndOK'
    <3>1. /\ pc[o] = "lock" /\ pc' = [pc EXCEPT ![o] = "wait"]
          /\ \A u \in Outer : pc'[u] = IF u = o THEN "wait" ELSE pc[u]
          /\ proxyList' = proxyList /\ extState' = extState /\ inLockMode' = inLockMode
      BY <1>1 DEF TakeProxyLock, Go, TypeOK, extVars
    <3>2. \A i \in 1 .. Len(runloop') : runloop'[i] # ReleaseTask
      BY <1>1, <2>1, TaskKinds DEF TasksOK
    <3> QED  BY <3>1, <3>2 DEF EndOK
  <2> QED  BY <2>2, <2>3, <2>4, <2>5, <2>6, <2>7, <2>8
<1>2. CASE inLockMode
  <2>1. TypeOK'
    BY <1>2 DEF TakeProxyLock, Go, extVars, boundVars, TypeOK, OuterPlaces,
                UserPlaces, HolderPlaces, LockModePlaces
  <2>2. LockOK'
    BY <1>2, UseAssumption DEF TakeProxyLock, Go, extVars, TypeOK, LockOK, In,
                               HolderPlaces, LockModePlaces
  <2>3. TasksOK'
    BY <1>2 DEF TakeProxyLock, extVars, LockOK, TasksOK, HolderPlaces
  <2>4. CountOK'
    BY <1>2, CountKept DEF TakeProxyLock, Go, TypeOK, UserPlaces, HolderPlaces,
                           LockModePlaces
  <2>5. AliveOK'
    BY <1>2 DEF TakeProxyLock, Go, TypeOK, AliveOK, UserPlaces, HolderPlaces
  <2>6. LastOK'
    <3>1. /\ pc[o] = "lock" /\ runloop' = runloop
          /\ \A u \in Outer : pc'[u] = IF u = o THEN "in" ELSE pc[u]
      BY <1>2 DEF TakeProxyLock, Go, TypeOK
    <3> QED  BY <3>1 DEF LastOK
  <2>7. EndOK'
    BY <1>2 DEF TakeProxyLock, extVars, EndOK
  <2> QED  BY <2>1, <2>2, <2>3, <2>4, <2>5, <2>6, <2>7
<1> QED  BY <1>1, <1>2

LEMMA ToldStep ==
    ASSUME NEW o \in Outer, IInv, Told(o)
    PROVE  IInv'
<1> USE DEF IInv
<1>1. TypeOK'
  BY DEF Told, Go, extVars, boundVars, TypeOK, OuterPlaces, UserPlaces, HolderPlaces,
         LockModePlaces
<1>2. LockOK'
  BY DEF Told, Go, extVars, LockOK, In, HolderPlaces, LockModePlaces
<1>3. TasksOK'
  BY DEF Told, extVars, LockOK, TasksOK, HolderPlaces, LockModePlaces
<1>4. CountOK'
  BY CountKept DEF Told, Go, UserPlaces, HolderPlaces, LockModePlaces
<1>5. AliveOK'
  BY DEF Told, Go, AliveOK, UserPlaces, HolderPlaces, LockModePlaces
<1>6. LastOK'
  BY DEF Told, Go, LastOK
<1>7. EndOK'
  BY DEF Told, extVars, EndOK
<1> QED  BY <1>1, <1>2, <1>3, <1>4, <1>5, <1>6, <1>7

LEMMA NotifySyncStep ==
    ASSUME NEW o \in Outer, IInv, NotifySync(o)
    PROVE  IInv'
<1> USE DEF IInv
<1>1. TypeOK'
  <2>1. proxyLock' \in [Proxy -> Outer \cup {None}]
    BY UseAssumption DEF NotifySync, TypeOK
  <2>2. pc' \in [Outer -> OuterPlaces]
    BY DEF NotifySync, Go, TypeOK, OuterPlaces, UserPlaces, HolderPlaces, LockModePlaces
  <2>3. notes' \in 0 .. MaxNotify
    BY BoundAssumption DEF NotifySync, TypeOK
  <2> QED  BY <2>1, <2>2, <2>3 DEF NotifySync, TypeOK, extVars
<1>2. LockOK'
  BY DEF NotifySync, Go, extVars, LockOK, In, HolderPlaces, LockModePlaces
<1>3. TasksOK'
  BY DEF NotifySync, extVars, LockOK, TasksOK, HolderPlaces, LockModePlaces
<1>4. CountOK'
  BY CountKept DEF NotifySync, Go, UserPlaces, HolderPlaces, LockModePlaces
<1>5. AliveOK'
  BY DEF NotifySync, Go, AliveOK, UserPlaces, HolderPlaces, LockModePlaces
<1>6. LastOK'
  BY DEF NotifySync, Go, LastOK
<1>7. EndOK'
  BY DEF NotifySync, extVars, EndOK
<1> QED  BY <1>1, <1>2, <1>3, <1>4, <1>5, <1>6, <1>7

LEMMA EndOfSyncStep ==
    ASSUME NEW o \in Outer, IInv, EndOfSync(o)
    PROVE  IInv'
<1> USE DEF IInv
<1>1. TypeOK'
  BY DEF EndOfSync, Go, extVars, boundVars, TypeOK, OuterPlaces, UserPlaces,
         HolderPlaces, LockModePlaces
<1>2. LockOK'
  BY DEF EndOfSync, Go, extVars, LockOK, In, HolderPlaces, LockModePlaces
<1>3. TasksOK'
  BY DEF EndOfSync, extVars, LockOK, TasksOK, HolderPlaces, LockModePlaces
<1>4. CountOK'
  BY CountKept DEF EndOfSync, Go, UserPlaces, HolderPlaces, LockModePlaces
<1>5. AliveOK'
  BY DEF EndOfSync, Go, AliveOK, UserPlaces, HolderPlaces, LockModePlaces
<1>6. LastOK'
  BY DEF EndOfSync, Go, LastOK
<1>7. EndOK'
  BY DEF EndOfSync, extVars, EndOK
<1> QED  BY <1>1, <1>2, <1>3, <1>4, <1>5, <1>6, <1>7

LEMMA ReleaseLockModeStep ==
    ASSUME NEW o \in Outer, IInv, ReleaseLockMode(o)
    PROVE  IInv'
<1> USE DEF IInv
<1>1. TypeOK'
  BY DEF ReleaseLockMode, Go, extVars, boundVars, TypeOK, OuterPlaces, UserPlaces
<1>2. LockOK'
  BY UseAssumption DEF ReleaseLockMode, Go, extVars, TypeOK, LockOK, In, HolderPlaces,
                       LockModePlaces
<1>3. TasksOK'
  BY DEF ReleaseLockMode, extVars, LockOK, TasksOK, HolderPlaces, LockModePlaces
<1>4. CountOK'
  BY CountKept DEF ReleaseLockMode, Go, UserPlaces, HolderPlaces, LockModePlaces
<1>5. AliveOK'
  BY DEF ReleaseLockMode, Go, AliveOK, UserPlaces, HolderPlaces, LockModePlaces
<1>6. LastOK'
  BY DEF ReleaseLockMode, Go, LastOK
<1>7. EndOK'
  BY DEF ReleaseLockMode, extVars, EndOK
<1> QED  BY <1>1, <1>2, <1>3, <1>4, <1>5, <1>6, <1>7

LEMMA ReleaseProxyStep ==
    ASSUME NEW o \in Outer, IInv, ReleaseProxy(o)
    PROVE  IInv'
<1> USE DEF IInv
<1>1. TypeOK'
  <2>1. PICK p \in Proxy : p = ProxyOf[o]
    BY UseAssumption
  <2>2. o \in Users(p) /\ IsFiniteSet(Users(p))
    BY <2>1, UseAssumption, FS_Subset DEF ReleaseProxy, Users, UsersOf, In, UserPlaces
  <2>3. Cardinality(Users(p)) \in Nat \ {0}
    BY <2>2, FS_CardinalityType, FS_EmptySet
  <2>4. threadCnt[p] - 1 \in 0 .. Cardinality(Outer)
    BY <2>3, FS_CardinalityType, UseAssumption DEF TypeOK, CountOK
  <2>5. threadCnt' \in [Proxy -> 0 .. Cardinality(Outer)]
    BY <2>1, <2>4 DEF ReleaseProxy, TypeOK
  <2>6. pc' \in [Outer -> OuterPlaces]
    BY DEF ReleaseProxy, Go, TypeOK, OuterPlaces
  <2> QED
    BY <2>5, <2>6 DEF ReleaseProxy, TypeOK, extVars, boundVars
<1>2. LockOK'
  BY DEF ReleaseProxy, Go, extVars, LockOK, In, HolderPlaces, LockModePlaces
<1>3. TasksOK'
  BY DEF ReleaseProxy, Go, extVars, TasksOK
<1>4. CountOK'
  <2>1. PICK p \in Proxy : p = ProxyOf[o]
    BY UseAssumption
  <2>2. o \in Users(p) /\ IsFiniteSet(Users(p))
    BY <2>1, UseAssumption, FS_Subset DEF ReleaseProxy, Users, UsersOf, In, UserPlaces
  <2>3. /\ pc'[o] \in {"last", "gone"}
        /\ \A u \in Outer : u # o => pc'[u] = pc[u]
        /\ pc[o] = "idle"
    BY DEF ReleaseProxy, Go, TypeOK
  <2>4. ASSUME NEW q \in Proxy
        PROVE  threadCnt'[q] = Cardinality(Users(q)')
    <3>1. CASE q = p
      <4>1. Users(p)' = Users(p) \ {o}
        BY <2>1, <2>3 DEF Users, In, UserPlaces, HolderPlaces, LockModePlaces
      <4>2. Cardinality(Users(p)') = Cardinality(Users(p)) - 1
        BY <2>2, <4>1, FS_RemoveElement
      <4> QED  BY <2>1, <3>1, <4>2 DEF ReleaseProxy, TypeOK, CountOK
    <3>2. CASE q # p
      <4>1. Users(q)' = Users(q)
        BY <2>1, <2>3, <3>2 DEF Users, UsersOf, In
      <4> QED  BY <2>1, <3>2, <4>1 DEF ReleaseProxy, TypeOK, CountOK
    <3> QED  BY <3>1, <3>2
  <2>5. \A v, u \in Outer : ProxyOf[v] = ProxyOf[u] /\ pc'[v] = "none" => pc'[u] = "none"
    BY <2>3 DEF CountOK
  <2> QED  BY <2>4, <2>5 DEF CountOK
<1>5. AliveOK'
  BY DEF ReleaseProxy, Go, AliveOK, UserPlaces
<1>6. LastOK'
  <2>1. PICK p \in Proxy : p = ProxyOf[o]
    BY UseAssumption
  <2>2. /\ pc[o] = "idle"
        /\ pc'[o] = IF threadCnt'[p] = 0 THEN "last" ELSE "gone"
        /\ \A u \in Outer : u # o => pc'[u] = pc[u]
        /\ runloop' = runloop
    BY <2>1 DEF ReleaseProxy, Go, TypeOK
  <2>3. \A i \in 1 .. Len(runloop) : runloop[i] # DeletedTask(p)
    BY <2>1, <2>2 DEF LastOK
  <2>4. ASSUME threadCnt'[p] = 0
        PROVE  \A u \in Outer : ProxyOf[u] = p /\ u # o => pc[u] = "gone"
    <3>1. o \in Users(p) /\ IsFiniteSet(Users(p))
      BY <2>1, <2>2, UseAssumption, FS_Subset DEF Users, UsersOf, In, UserPlaces
    <3>2. Cardinality(Users(p)) = 1
      BY <2>1, <2>4, <3>1, FS_CardinalityType DEF ReleaseProxy, TypeOK, CountOK
    <3>3. Cardinality(Users(p) \ {o}) = 0 /\ IsFiniteSet(Users(p) \ {o})
      BY <3>1, <3>2, FS_RemoveElement
    <3>4. Users(p) \ {o} = {}
      BY <3>3, FS_EmptySet
    <3>5. \A u \in Outer : ProxyOf[u] = p /\ u # o => pc[u] \in {"none", "last", "gone"}
      BY <3>4 DEF Users, UsersOf, In, TypeOK, OuterPlaces
    <3>6. \A u \in Outer : ProxyOf[u] = p /\ u # o => pc[u] # "none" /\ pc[u] # "last"
      BY <2>1, <2>2 DEF CountOK, LastOK
    <3> QED  BY <3>5, <3>6
  <2>5. \A i \in 1 .. Len(runloop') : \A q \in Proxy :
          runloop'[i] = DeletedTask(q) =>
              /\ \A u \in Outer : ProxyOf[u] = q => pc'[u] = "gone"
              /\ \A j \in 1 .. Len(runloop') :
                    runloop'[j] \in {NotifyTask(q), DeletedTask(q)} => j <= i
    BY <2>1, <2>2, <2>3 DEF LastOK
  <2>6. \A v \in Outer :
          pc'[v] = "last" =>
              /\ \A u \in Outer : ProxyOf[u] = ProxyOf[v] /\ u # v => pc'[u] = "gone"
              /\ \A i \in 1 .. Len(runloop') : runloop'[i] # DeletedTask(ProxyOf[v])
    <3> SUFFICES ASSUME NEW v \in Outer, pc'[v] = "last"
                 PROVE  /\ \A u \in Outer : ProxyOf[u] = ProxyOf[v] /\ u # v => pc'[u] = "gone"
                        /\ \A i \in 1 .. Len(runloop') : runloop'[i] # DeletedTask(ProxyOf[v])
      OBVIOUS
    <3>1. CASE v = o
      BY <2>1, <2>2, <2>3, <2>4, <3>1
    <3>2. CASE v # o
      BY <2>1, <2>2, <3>2 DEF LastOK
    <3> QED  BY <3>1, <3>2
  <2> QED  BY <2>5, <2>6 DEF LastOK
<1>7. EndOK'
  BY DEF ReleaseProxy, extVars, EndOK
<1> QED  BY <1>1, <1>2, <1>3, <1>4, <1>5, <1>6, <1>7

LEMMA PostDeletedStep ==
    ASSUME NEW o \in Outer, IInv, PostDeleted(o)
    PROVE  IInv'
<1> USE DEF IInv
<1>1. PICK p \in Proxy : p = ProxyOf[o]
  BY UseAssumption
<1>2. /\ runloop' \in Seq(Task) /\ Len(runloop) \in Nat /\ Len(runloop') = Len(runloop) + 1
      /\ runloop'[Len(runloop) + 1] = DeletedTask(p)
      /\ \A i \in 1 .. Len(runloop) : runloop'[i] = runloop[i]
  BY <1>1, TaskKinds, Appended DEF PostDeleted, Post, TypeOK
<1>3. TypeOK'
  BY <1>1, <1>2 DEF PostDeleted, Go, extVars, proxyVars, boundVars, TypeOK, OuterPlaces
<1>4. LockOK'
  BY <1>1, <1>2 DEF PostDeleted, Go, extVars, LockOK, In, HolderPlaces, LockModePlaces
<1>5. TasksOK'
  BY <1>1, <1>2, TaskKinds DEF PostDeleted, Post, Go, extVars, TasksOK
<1>6. CountOK'
  BY <1>1, <1>2, CountKept DEF PostDeleted, Go, proxyVars, UserPlaces, HolderPlaces,
                               LockModePlaces
<1>7. AliveOK'
  BY <1>1, <1>2, TaskKinds DEF PostDeleted, Post, Go, proxyVars, AliveOK
<1>8. LastOK'
  <2>1. /\ pc[o] = "last" /\ pc'[o] = "gone"
        /\ \A u \in Outer : u # o => pc'[u] = pc[u]
        /\ \A u \in Outer : pc[u] = "gone" => pc'[u] = "gone"
    BY DEF PostDeleted, Go, TypeOK
  <2>2. \A i \in 1 .. Len(runloop) : runloop[i] # DeletedTask(p)
    BY <1>1, <2>1 DEF LastOK
  <2>3. ASSUME NEW i \in 1 .. Len(runloop'), NEW q \in Proxy,
               runloop'[i] = DeletedTask(q)
        PROVE  /\ \A u \in Outer : ProxyOf[u] = q => pc'[u] = "gone"
               /\ \A j \in 1 .. Len(runloop') :
                     runloop'[j] \in {NotifyTask(q), DeletedTask(q)} => j <= i
    <3>1. CASE i = Len(runloop) + 1
      <4>1. q = p
        BY <1>2, <2>3, <3>1, TaskKinds
      <4>2. \A u \in Outer : ProxyOf[u] = q => pc'[u] = "gone"
        BY <1>1, <2>1, <4>1 DEF LastOK
      <4> QED  BY <1>2, <3>1, <4>2
    <3>2. CASE i \in 1 .. Len(runloop)
      <4>1. runloop[i] = DeletedTask(q) /\ q # p
        BY <1>2, <2>2, <2>3, <3>2
      <4>2. \A u \in Outer : ProxyOf[u] = q => pc'[u] = "gone"
        BY <2>1, <3>2, <4>1 DEF LastOK
      <4>3. DeletedTask(p) \notin {NotifyTask(q), DeletedTask(q)}
        BY <4>1, TaskKinds
      <4>4. ASSUME NEW j \in 1 .. Len(runloop'),
                   runloop'[j] \in {NotifyTask(q), DeletedTask(q)}
            PROVE  j <= i
        <5>1. j \in 1 .. Len(runloop) /\ runloop'[j] = runloop[j]
          BY <1>2, <4>3, <4>4
        <5> QED  BY <3>2, <4>1, <4>4, <5>1 DEF LastOK
      <4> QED  BY <4>2, <4>4
    <3> QED  BY <1>2, <3>1, <3>2
  <2>4. ASSUME NEW u \in Outer, pc'[u] = "last"
        PROVE  /\ \A x \in Outer : ProxyOf[x] = ProxyOf[u] /\ x # u => pc'[x] = "gone"
               /\ \A i \in 1 .. Len(runloop') : runloop'[i] # DeletedTask(ProxyOf[u])
    <3>1. u # o /\ pc[u] = "last"
      BY <2>1, <2>4
    <3>2. ProxyOf[u] # p /\ ProxyOf[u] \in Proxy
      BY <1>1, <2>1, <3>1, UseAssumption DEF LastOK
    <3>3. DeletedTask(p) # DeletedTask(ProxyOf[u])
      BY <3>2, TaskKinds
    <3>4. \A i \in 1 .. Len(runloop') : runloop'[i] # DeletedTask(ProxyOf[u])
      BY <1>2, <3>1, <3>3 DEF LastOK
    <3>5. \A x \in Outer : ProxyOf[x] = ProxyOf[u] /\ x # u => pc'[x] = "gone"
      BY <2>1, <3>1 DEF LastOK
    <3> QED  BY <3>4, <3>5
  <2> QED  BY <2>3, <2>4 DEF LastOK
<1>9. EndOK'
  BY <1>1, <1>2, TaskKinds DEF PostDeleted, Post, extVars, proxyVars, EndOK
<1> QED  BY <1>3, <1>4, <1>5, <1>6, <1>7, <1>8, <1>9

LEMMA PostMsgStep ==
    ASSUME IInv, PostMsg
    PROVE  IInv'
<1> USE DEF IInv
<1>1. PICK x \in {MsgTask, StopTask} : Post(x)
  BY DEF PostMsg
<1>2. /\ runloop' \in Seq(Task) /\ Len(runloop) \in Nat /\ Len(runloop') = Len(runloop) + 1
      /\ runloop'[Len(runloop) + 1] = x
      /\ \A i \in 1 .. Len(runloop) : runloop'[i] = runloop[i]
  BY <1>1, TaskKinds, Appended DEF PostMsg, Post, TypeOK
<1>3. TypeOK'
  BY <1>1, <1>2, BoundAssumption DEF PostMsg, extVars, proxyVars, TypeOK
<1>4. LockOK'
  BY <1>1, <1>2 DEF PostMsg, extVars, LockOK, In
<1>5. TasksOK'
  BY <1>1, <1>2, TaskKinds DEF PostMsg, Post, extVars, TasksOK
<1>6. CountOK'
  BY <1>1, <1>2, CountKept DEF PostMsg, proxyVars
<1>7. AliveOK'
  BY <1>1, <1>2, TaskKinds DEF PostMsg, Post, proxyVars, AliveOK
<1>8. LastOK'
  BY <1>1, <1>2, TaskKinds, UseAssumption DEF PostMsg, Post, LastOK
<1>9. EndOK'
  BY <1>1, <1>2, TaskKinds DEF PostMsg, Post, extVars, proxyVars, EndOK
<1> QED  BY <1>3, <1>4, <1>5, <1>6, <1>7, <1>8, <1>9
-----------------------------------------------------------------------------
LEMMA InitOK == Init => IInv
<1> SUFFICES ASSUME Init  PROVE IInv
  OBVIOUS
<1> USE DEF Init
<1>1. IsFiniteSet(Outer) /\ Cardinality(Outer) \in Nat
  BY UseAssumption, FS_CardinalityType
<1>2. TypeOK
  <2>1. runloop \in Seq(Task) /\ extPc \in ExtPlaces /\ extState \in ExtStates
    BY DEF ExtPlaces, ExtStates
  <2>2. /\ threadCnt \in [Proxy -> 0 .. Cardinality(Outer)]
        /\ proxyLock \in [Proxy -> Outer \cup {None}]
        /\ acquirer \in [Proxy -> Outer \cup {None}]
        /\ pc \in [Outer -> OuterPlaces]
    BY <1>1 DEF OuterPlaces
  <2>3. rounds \in [Outer -> 0 .. MaxRounds] /\ notes \in 0 .. MaxNotify /\ msgs \in 0 .. MaxMsg
    BY BoundAssumption
  <2> QED  BY <2>1, <2>2, <2>3 DEF TypeOK
<1>3. \A p \in Proxy : Users(p) = {}
  BY DEF Users, In, UserPlaces, HolderPlaces, LockModePlaces
<1>4. CountOK
  BY <1>3, FS_EmptySet DEF CountOK
<1>5. LockOK
  BY UseAssumption DEF LockOK, In, HolderPlaces, LockModePlaces
<1>6. TasksOK /\ LastOK /\ EndOK
  BY DEF TasksOK, LastOK, EndOK
<1>7. AliveOK
  BY DEF AliveOK, UserPlaces, HolderPlaces, LockModePlaces
<1> QED  BY <1>2, <1>4, <1>5, <1>6, <1>7 DEF IInv

LEMMA NextOK == IInv /\ [Next]_vars => IInv'
<1> SUFFICES ASSUME IInv, [Next]_vars  PROVE IInv'
  OBVIOUS
<1>1. ASSUME NEW p \in Proxy, CreateProxy(p)  PROVE IInv'
  BY <1>1, CreateProxyStep
<1>2. CASE OnDeinitDone
  BY <1>2, OnDeinitDoneStep
<1>3. CASE ExtContinue
  <2>1. CASE EndOfCode
    BY <2>1, EndOfCodeStep
  <2>2. CASE OnStop
    BY <2>2, OnStopStep
  <2>3. CASE HandleMsg
    BY <2>3, HandleMsgStep
  <2>4. CASE HandleStop
    BY <2>4, HandleStopStep
  <2>5. CASE HandleNotify
    BY <2>5, HandleNotifyStep
  <2>6. ASSUME NEW o \in Outer, AcquireLockMode(o)  PROVE IInv'
    BY <2>6, AcquireLockModeStep
  <2>7. CASE Unblock
    BY <2>7, UnblockStep
  <2>8. CASE ReleaseLockModeTask
    BY <2>8, ReleaseLockModeTaskStep
  <2>9. ASSUME NEW p \in Proxy, ProxyIsDeleted(p)  PROVE IInv'
    BY <2>9, ProxyIsDeletedStep
  <2> QED
    BY <1>3, <2>1, <2>2, <2>3, <2>4, <2>5, <2>6, <2>7, <2>8, <2>9 DEF ExtContinue
<1>4. ASSUME NEW o \in Outer,
             NotifyAsync(o) \/ WantLockMode(o) \/ NotifySync(o) \/ Continue(o)
      PROVE  IInv'
  <2>1. CASE NotifyAsync(o)
    BY <2>1, NotifyAsyncStep
  <2>2. CASE WantLockMode(o)
    BY <2>2, WantLockModeStep
  <2>3. CASE NotifySync(o)
    BY <2>3, NotifySyncStep
  <2>4. CASE TakeLockModeLock(o)
    BY <2>4, TakeLockModeLockStep
  <2>5. CASE TakeProxyLock(o)
    BY <2>5, TakeProxyLockStep
  <2>6. CASE Told(o)
    BY <2>6, ToldStep
  <2>7. CASE EndOfSync(o)
    BY <2>7, EndOfSyncStep
  <2>8. CASE ReleaseLockMode(o)
    BY <2>8, ReleaseLockModeStep
  <2>9. CASE ReleaseProxy(o)
    BY <2>9, ReleaseProxyStep
  <2>10. CASE PostDeleted(o)
    BY <2>10, PostDeletedStep
  <2> QED
    BY <1>4, <2>1, <2>2, <2>3, <2>4, <2>5, <2>6, <2>7, <2>8, <2>9, <2>10 DEF Continue
<1>5. CASE PostMsg
  BY <1>5, PostMsgStep
<1>6. CASE UNCHANGED vars
  <2>1. /\ TypeOK' /\ LockOK'
    BY <1>6 DEF IInv, vars, extVars, proxyVars, boundVars, TypeOK, LockOK, In
  <2>2. TasksOK' /\ AliveOK' /\ LastOK' /\ EndOK'
    BY <1>6 DEF IInv, vars, extVars, proxyVars, TasksOK, AliveOK, LastOK, EndOK
  <2>3. CountOK'
    BY <1>6, CountKept DEF IInv, vars, proxyVars
  <2> QED  BY <2>1, <2>2, <2>3 DEF IInv
<1> QED  BY <1>1, <1>2, <1>3, <1>4, <1>5, <1>6 DEF Next

\* The strengthened invariant: who holds the locks, which tasks of the lock
\* mode are in the runloop, and what is still to come for a proxy.
THEOREM ProxyInvariant == Spec => []IInv
<1> QED  BY InitOK, NextOK, PTL DEF Spec

\* The state has its types; in particular a proxy's count of threads
\* (thread_cnt) is never negative nor above the number of threads.
THEOREM TypeCorrect == Spec => []TypeOK
<1>1. IInv => TypeOK
  BY DEF IInv
<1> QED  BY <1>1, ProxyInvariant, PTL

\* At most one outer thread is in the lock mode, and the extension's thread
\* blocks as long as one is.
THEOREM LockModeIsExclusive == Spec => []LockModeExclusive
<1>1. IInv => LockModeExclusive
  <2> SUFFICES ASSUME IInv, NEW o \in In(LockModePlaces)
               PROVE  extPc = "blocked" /\ In(LockModePlaces) = {o}
    BY DEF LockModeExclusive
  <2>1. extPc = "blocked"
    BY DEF IInv, LockOK
  <2>2. \A u \in In(LockModePlaces) : lockModeLock = u
    BY DEF IInv, LockOK, In, HolderPlaces
  <2> QED  BY <2>1, <2>2
<1> QED  BY <1>1, ProxyInvariant, PTL

\* No proxy ends that is used or that a task of the runloop is about, and no
\* extension ends that has a proxy or is in the lock mode.
THEOREM ProxiesOutliveTheirUse == Spec => []AliveWhileUsed
<1>1. IInv => AliveWhileUsed
  <2> SUFFICES ASSUME IInv  PROVE AliveWhileUsed
    OBVIOUS
  <2> USE DEF IInv
  <2>1. {ProxyOf[o] : o \in In(UserPlaces \cup {"last"})} \subseteq proxyList
    BY DEF AliveOK, In
  <2>2. TaskProxies \subseteq proxyList
    BY DEF AliveOK, TaskProxies
  <2>3. ASSUME proxyList = {}
        PROVE  lockModeLock = None /\ ~inLockMode
    <3>1. \A i \in 1 .. Len(runloop) : runloop[i] # ReleaseTask
      BY <2>3 DEF EndOK
    <3>2. ~inLockMode
      BY <3>1 DEF TasksOK
    <3>3. \A o \in Outer : pc[o] \notin HolderPlaces
      BY <2>3 DEF AliveOK, UserPlaces
    <3> QED  BY <3>2, <3>3 DEF LockOK, TypeOK
  <2> QED  BY <2>1, <2>2, <2>3 DEF AliveWhileUsed, EndOK
<1> QED  BY <1>1, ProxyInvariant, PTL
=============================================================================

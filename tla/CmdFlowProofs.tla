--------------------------- MODULE CmdFlowProofs ---------------------------
(***************************************************************************)
(* Theorems about CmdFlow for every graph, every policy and every bound:   *)
(* its types, the path tables with their groups and handler contexts, and  *)
(* what it keeps when extensions close.                                    *)
(***************************************************************************)
EXTENDS CmdFlow, TLAPS, WellFoundedInduction

-----------------------------------------------------------------------------
\* Sequences and messages.

\* A command with its four fields is a message, and so is a result.
LEMMA CmdIsMsg ==
    ASSUME NEW i \in Id, NEW c \in Ctx, NEW s \in Ext, NEW x \in Ext
    PROVE  Cmd(i, c, s, x) \in CmdMsg /\ Cmd(i, c, s, x) \in Msg
  BY DEF Cmd, CmdMsg, Msg

\* What the operator Result builds is a message.
LEMMA ResultIsMsg ==
    ASSUME NEW i \in Id, NEW c \in Ctx, NEW x \in Ext,
           NEW ok \in BOOLEAN, NEW final \in BOOLEAN
    PROVE  Result(i, c, x, ok, final) \in ResultMsg
           /\ Result(i, c, x, ok, final) \in Msg
  BY DEF Result, ResultMsg, Msg

\* The fields of a message have their types.
LEMMA MsgFields ==
    ASSUME NEW m \in Msg
    PROVE  /\ m.kind \in {"cmd", "result"}
           /\ m.kind # "close"
           /\ m.id \in Id /\ m.ctx \in Ctx /\ m.dst \in Ext
           /\ m.kind = "cmd" => m \in CmdMsg /\ m.src \in Ext
           /\ m.kind = "result" => m \in ResultMsg /\ m.ok \in BOOLEAN
                                                   /\ m.final \in BOOLEAN
  BY DEF Msg, CmdMsg, ResultMsg

\* Every extension runs on a thread.
LEMMA ThreadType == \A e \in Ext : ThreadOf[e] \in Thread
  BY DEF Thread

\* Removing an element leaves a sequence of the others.
LEMMA RemoveAtType ==
    ASSUME NEW S, NEW s \in Seq(S), NEW k \in 1 .. Len(s)
    PROVE  /\ RemoveAt(s, k) \in Seq(S)
           /\ Len(RemoveAt(s, k)) = Len(s) - 1
           /\ \A j \in 1 .. Len(s) - 1 :
                RemoveAt(s, k)[j] = IF j < k THEN s[j] ELSE s[j + 1]
<1> DEFINE u == SubSeq(s, 1, k - 1)
           v == SubSeq(s, k + 1, Len(s))
<1>1. u \in Seq(S) /\ Len(u) = k - 1 /\ \A j \in 1 .. k - 1 : u[j] = s[j]
  OBVIOUS
<1>2. v \in Seq(S) /\ Len(v) = Len(s) - k
  OBVIOUS
<1>3. \A j \in 1 .. Len(s) - k : v[j] = s[j + k]
  OBVIOUS
<1>4. RemoveAt(s, k) = u \o v
  BY DEF RemoveAt
<1> HIDE DEF u, v
<1>5. u \o v \in Seq(S) /\ Len(u \o v) = Len(s) - 1
  BY <1>1, <1>2, SMTT(30)
<1>6. ASSUME NEW j \in 1 .. Len(s) - 1
      PROVE  (u \o v)[j] = IF j < k THEN s[j] ELSE s[j + 1]
  <2>1. CASE j < k
    BY <1>1, <1>2, <2>1
  <2>2. CASE j >= k
    <3>1. (u \o v)[j] = v[j - (k - 1)]
      BY <1>1, <1>2, <2>2
    <3>2. v[j - (k - 1)] = s[j - (k - 1) + k]
      BY <1>3, <2>2
    <3>3. j - (k - 1) + k = j + 1 /\ ~(j < k)
      BY <2>2
    <3>4. (u \o v)[j] = s[j + 1]
      BY <3>1, <3>2, <3>3, Zenon
    <3> QED
      BY <3>3, <3>4
  <2>3. j < k \/ j >= k
    OBVIOUS
  <2> QED
    BY <2>1, <2>2, <2>3, Zenon
<1> QED
  BY <1>4, <1>5, <1>6

\* Whatever a thread dispatches, the engine's queue and the thread's own list
\* keep to the kind of messages they hold.
LEMMA EmitSeq ==
    ASSUME NEW S, engineQueue \in Seq(S), direct \in [Thread -> Seq(S)],
           NEW t \in Thread, NEW msgs \in Seq(S), NEW left \in Seq(S),
           Emit(t, msgs, left)
    PROVE  engineQueue' \in Seq(S) /\ direct' \in [Thread -> Seq(S)]
<1> DEFINE all == msgs \o left
<1>1. all \in Seq(S)
  OBVIOUS
<1>2. PICK n \in 0 .. Len(msgs) :
         /\ engineQueue' = engineQueue \o SubSeq(all, 1, n)
         /\ direct' = [direct EXCEPT ![t] = SubSeq(all, n + 1, Len(all))]
  BY DEF Emit
<1>a. n \in 0 .. Len(all)
  <2>1. Len(all) = Len(msgs) + Len(left)
    OBVIOUS
  <2>2. Len(msgs) \in Nat /\ Len(left) \in Nat
    OBVIOUS
  <2> HIDE DEF all
  <2> QED
    BY <1>2, <2>1, <2>2
<1> HIDE DEF all
<1> DEFINE u == SubSeq(all, 1, n)
           v == SubSeq(all, n + 1, Len(all))
<1>3. u \in Seq(S) /\ v \in Seq(S)
  BY <1>1, <1>a
<1>4. engineQueue' = engineQueue \o u /\ direct' = [direct EXCEPT ![t] = v]
  BY <1>2
<1> HIDE DEF u, v
<1>5. engineQueue \o u \in Seq(S)
  BY <1>3
<1> QED
  BY <1>3, <1>4, <1>5

\* Dispatching messages keeps the types of the queues and lists.
LEMMA EmitType ==
    ASSUME engineQueue \in Seq(Msg), direct \in [Thread -> Seq(Msg)],
           NEW t \in Thread, NEW msgs \in Seq(Msg), NEW left \in Seq(Msg),
           Emit(t, msgs, left)
    PROVE  engineQueue' \in Seq(Msg) /\ direct' \in [Thread -> Seq(Msg)]
  BY EmitSeq

-----------------------------------------------------------------------------
\* What the operations of a thread leave in the variables they change.

\* An empty list, a message alone and a tail are lists of messages.
LEMMA MsgLists ==
    /\ <<>> \in Seq(Msg)
    /\ \A m \in Msg : <<m>> \in Seq(Msg)
    /\ \A s \in Seq(Msg) : s # <<>> => Head(s) \in Msg /\ Tail(s) \in Seq(Msg)
  OBVIOUS

\* The fields of an OUT path have their types.
LEMMA OutPathFields ==
    ASSUME NEW p \in OutPath
    PROVE  /\ p.id \in Id /\ p.ctx \in Ctx /\ p.handler \in HandlerKinds
           /\ Reverted(p) \in Id
  BY DEF OutPath, Reverted, NoId

\* The fields of an IN path have their types.
LEMMA InPathFields ==
    ASSUME NEW p \in InPath
    PROVE  /\ p.id \in Id /\ p.ctx \in Ctx /\ p.src \in Ext
           /\ Reverted(p) \in Id
  BY DEF InPath, Reverted, NoId

\* Returning a result keeps the types.
LEMMA ReturnToType ==
    ASSUME TypeOK, NEW e \in Ext, NEW i \in Id, NEW ok \in BOOLEAN,
           NEW final \in BOOLEAN, NEW left \in Seq(Msg),
           ReturnTo(e, i, ok, final, left)
    PROVE  /\ inPaths' \in [Ext -> SUBSET InPath]
           /\ engineQueue' \in Seq(Msg)
           /\ direct' \in [Thread -> Seq(Msg)]
<1> USE DEF TypeOK
<1>1. CASE InPathsOf(e, i) = {} /\ Emit(ThreadOf[e], <<>>, left) /\ UNCHANGED inPaths
  BY <1>1, EmitType, ThreadType, MsgLists
<1>2. ASSUME NEW p \in InPathsOf(e, i),
             inPaths' = IF final THEN [inPaths EXCEPT ![e] = @ \ {p}] ELSE inPaths,
             Emit(ThreadOf[e], <<Result(Reverted(p), p.ctx, p.src, ok, final)>>,
                  left)
      PROVE  /\ inPaths' \in [Ext -> SUBSET InPath]
             /\ engineQueue' \in Seq(Msg)
             /\ direct' \in [Thread -> Seq(Msg)]
  <2>1. p \in InPath
    BY DEF InPathsOf
  <2>2. Result(Reverted(p), p.ctx, p.src, ok, final) \in Msg
    BY <2>1, InPathFields, ResultIsMsg
  <2>3. engineQueue' \in Seq(Msg) /\ direct' \in [Thread -> Seq(Msg)]
    BY <1>2, <2>2, EmitType, ThreadType, MsgLists
  <2> QED
    BY <1>2, <2>3
<1> QED
  BY <1>1, <1>2 DEF ReturnTo

\* Handing a result to a handler keeps the types.
LEMMA DeliverType ==
    ASSUME TypeOK, NEW e \in Ext, NEW p \in OutPath, NEW ok \in BOOLEAN,
           NEW final \in BOOLEAN, NEW completed \in BOOLEAN,
           NEW left \in Seq(Msg), Deliver(e, p, ok, final, completed, left)
    PROVE  /\ inPaths' \in [Ext -> SUBSET InPath]
           /\ live' \in [Ext -> SUBSET Ctx]
           /\ engineQueue' \in Seq(Msg)
           /\ direct' \in [Thread -> Seq(Msg)]
<1>1. PICK seen \in BOOLEAN :
        /\ live' = [live EXCEPT ![e] = IF completed THEN @ \ {p.ctx} ELSE @]
        /\ \/ Emit(ThreadOf[e], <<>>, left) /\ UNCHANGED inPaths
           \/ ReturnTo(e, Reverted(p), seen, final, left)
  <2>1. \A x \in {ok} \cup (IF SchemaErrors THEN {FALSE} ELSE {}) : x \in BOOLEAN
    OBVIOUS
  <2> QED
    BY <2>1 DEF Deliver, Refused
<1>2. live' \in [Ext -> SUBSET Ctx]
  BY <1>1 DEF TypeOK
<1>3. CASE Emit(ThreadOf[e], <<>>, left) /\ UNCHANGED inPaths
  BY <1>2, <1>3, EmitType, ThreadType, MsgLists DEF TypeOK
<1>4. CASE ReturnTo(e, Reverted(p), seen, final, left)
  BY <1>2, <1>4, ReturnToType, OutPathFields
<1> QED
  BY <1>1, <1>3, <1>4

-----------------------------------------------------------------------------
\* Path groups.

\* Caching the result of a member: the same members, the one answered last.
LEMMA AnsweredType ==
    ASSUME NEW m \in Seq(Member), NEW k \in DOMAIN m, NEW ok \in BOOLEAN
    PROVE  /\ Answered(m, k, ok) \in Seq(Member)
           /\ Len(Answered(m, k, ok)) = Len(m)
           /\ Len(m) \in Nat \ {0}
           /\ \A j \in 1 .. Len(m) - 1 :
                Answered(m, k, ok)[j] = IF j < k THEN m[j] ELSE m[j + 1]
           /\ Answered(m, k, ok)[Len(m)] = [id |-> m[k].id, cached |-> Status(ok)]
<1> DEFINE r == RemoveAt(m, k)
           x == [id |-> m[k].id, cached |-> Status(ok)]
<1>1. k \in 1 .. Len(m) /\ Len(m) \in Nat \ {0}
  OBVIOUS
<1>2. /\ r \in Seq(Member) /\ Len(r) = Len(m) - 1
      /\ \A j \in 1 .. Len(m) - 1 : r[j] = IF j < k THEN m[j] ELSE m[j + 1]
  BY <1>1, RemoveAtType
<1>3. x \in Member
  <2>1. m[k] \in Member
    OBVIOUS
  <2> QED
    BY <2>1 DEF Member, Status
<1>4. Answered(m, k, ok) = Append(r, x)
  BY DEF Answered
<1> HIDE DEF r, x
<1>5. Append(r, x) \in Seq(Member) /\ Len(Append(r, x)) = Len(m)
  BY <1>1, <1>2, <1>3
<1>6. Append(r, x)[Len(m)] = x
  BY <1>1, <1>2, <1>3
<1>7. \A j \in 1 .. Len(m) - 1 : Append(r, x)[j] = r[j]
  BY <1>1, <1>2, <1>3
<1>8. \A j \in 1 .. Len(m) - 1 :
        Append(r, x)[j] = IF j < k THEN m[j] ELSE m[j + 1]
  BY <1>2, <1>7, Zenon
<1> QED
  BY <1>1, <1>4, <1>5, <1>6, <1>8 DEF x

\* The group that stays behind is a sequence of members.
LEMMA LeftInGroupType ==
    ASSUME NEW policy \in Policies, NEW m \in Seq(Member), m # <<>>
    PROVE  LeftInGroup(policy, m, Resolve(policy, m)) \in Seq(Member)
<1>1. CASE policy = "each_ok_and_error"
  <2>1. Resolve(policy, m) = Len(m)
    BY <1>1 DEF Resolve
  <2>2. Len(m) \in 1 .. Len(m)
    OBVIOUS
  <2> QED
    BY <1>1, <2>1, <2>2, RemoveAtType DEF LeftInGroup
<1>2. CASE policy # "each_ok_and_error"
  BY <1>2 DEF LeftInGroup
<1> QED
  BY <1>1, <1>2

\* Taking a result keeps the types.
LEMMA TakeResultType ==
    ASSUME TypeOK, NEW e \in Ext, NEW m \in ResultMsg, NEW left \in Seq(Msg),
           TakeResult(e, m, left)
    PROVE  /\ inPaths' \in [Ext -> SUBSET InPath]
           /\ outPaths' \in [Ext -> SUBSET OutPath]
           /\ group' \in [Ctx -> Seq(Member)]
           /\ live' \in [Ext -> SUBSET Ctx]
           /\ engineQueue' \in Seq(Msg)
           /\ direct' \in [Thread -> Seq(Msg)]
<1> USE DEF TypeOK
<1>0. m.ok \in BOOLEAN /\ m.final \in BOOLEAN
  BY DEF ResultMsg
<1>1. CASE Emit(ThreadOf[e], <<>>, left) /\ UNCHANGED <<pathVars, live, histVars>>
  BY <1>1, EmitType, ThreadType, MsgLists DEF pathVars
<1>2. ASSUME NEW p \in FirstOutPath(e, m.id),
             \/ DecideSingle(e, p, m.ok, m.final, left)
             \/ KeepInGroup(e, p, m.ok, left)
             \/ DecideGroup(e, p, m.ok, left)
      PROVE  /\ inPaths' \in [Ext -> SUBSET InPath]
             /\ outPaths' \in [Ext -> SUBSET OutPath]
             /\ group' \in [Ctx -> Seq(Member)]
             /\ live' \in [Ext -> SUBSET Ctx]
             /\ engineQueue' \in Seq(Msg)
             /\ direct' \in [Thread -> Seq(Msg)]
  <2>1. p \in OutPath /\ p.ctx \in Ctx
    BY OutPathFields DEF FirstOutPath, Oldest
  <2>2. CASE DecideSingle(e, p, m.ok, m.final, left)
    <3>1. Deliver(e, p, m.ok, m.final, m.final, left)
      BY <2>2 DEF DecideSingle
    <3>2. outPaths' \in [Ext -> SUBSET OutPath] /\ group' = group
      BY <2>2 DEF DecideSingle
    <3> QED
      BY <1>0, <2>1, <3>1, <3>2, DeliverType
  <2>3. CASE KeepInGroup(e, p, m.ok, left)
    <3>1. PICK k \in DOMAIN group[p.ctx] :
             group' = [group EXCEPT ![p.ctx] = Answered(group[p.ctx], k, m.ok)]
      BY <2>3 DEF KeepInGroup
    <3>2. Answered(group[p.ctx], k, m.ok) \in Seq(Member)
      BY <1>0, <2>1, AnsweredType
    <3>3. group' \in [Ctx -> Seq(Member)]
      BY <2>1, <3>1, <3>2
    <3>4. /\ Emit(ThreadOf[e], <<>>, left)
          /\ UNCHANGED <<inPaths, outPaths, live>>
      BY <2>3 DEF KeepInGroup
    <3> QED
      BY <3>3, <3>4, EmitType, ThreadType, MsgLists
  <2>4. CASE DecideGroup(e, p, m.ok, left)
    <3> DEFINE g(k) == Answered(group[p.ctx], k, m.ok)
               w(k) == Resolve(Policy[e], g(k))
    <3>1. PICK k \in DOMAIN group[p.ctx] :
             /\ group' = [group EXCEPT ![p.ctx] =
                            LeftInGroup(Policy[e], g(k), w(k))]
             /\ \E q \in PathsOfCtx(e, p.ctx) :
                  /\ outPaths' = [outPaths EXCEPT ![e] = @ \ Decided(e, q, g(k))]
                  /\ Deliver(e, q, g(k)[w(k)].cached = "ok", TRUE,
                             LeftInGroup(Policy[e], g(k), w(k)) = <<>>, left)
      BY <2>4 DEF DecideGroup
    <3>2. g(k) \in Seq(Member) /\ g(k) # <<>>
      <4>1. group[p.ctx] \in Seq(Member)
        BY <2>1
      <4>2. /\ Answered(group[p.ctx], k, m.ok) \in Seq(Member)
            /\ Len(Answered(group[p.ctx], k, m.ok)) = Len(group[p.ctx])
            /\ Len(group[p.ctx]) \in Nat \ {0}
        BY <1>0, <4>1, AnsweredType, Zenon
      <4>3. g(k) \in Seq(Member) /\ Len(g(k)) # 0
        BY <4>2
      <4> HIDE DEF g
      <4> QED
        BY <4>3
    <3>3. Policy[e] \in Policies
      BY GraphAssumption
    <3>4. group' \in [Ctx -> Seq(Member)]
      BY <2>1, <3>1, <3>2, <3>3, LeftInGroupType
    <3>5. PICK q \in PathsOfCtx(e, p.ctx) :
             /\ outPaths' = [outPaths EXCEPT ![e] = @ \ Decided(e, q, g(k))]
             /\ Deliver(e, q, g(k)[w(k)].cached = "ok", TRUE,
                        LeftInGroup(Policy[e], g(k), w(k)) = <<>>, left)
      BY <3>1
    <3>6. q \in OutPath
      BY DEF PathsOfCtx
    <3>7. outPaths' \in [Ext -> SUBSET OutPath]
      BY <3>5
    <3>8. /\ (g(k)[w(k)].cached = "ok") \in BOOLEAN
          /\ (LeftInGroup(Policy[e], g(k), w(k)) = <<>>) \in BOOLEAN
      OBVIOUS
    <3> HIDE DEF g, w
    <3> QED
      BY <3>4, <3>5, <3>6, <3>7, <3>8, DeliverType
  <2> QED
    BY <1>2, <2>2, <2>3, <2>4
<1> QED
  BY <1>1, <1>2 DEF TakeResult

-----------------------------------------------------------------------------
\* Commands leaving and entering an extension.

\* The ids of a send call stay within the bound.
LEMMA LaunchIds ==
    ASSUME NEW i \in Id, NEW fresh \in 1 .. MaxId + 1, NEW n \in Nat,
           fresh + (n - 2) <= MaxId, NEW k \in 1 .. n
    PROVE  (IF k = 1 THEN i ELSE fresh + (k - 2)) \in Id
<1>1. CASE k = 1
  BY <1>1
<1>2. CASE k # 1
  <2>1. fresh + (k - 2) \in 1 .. MaxId
    BY <1>2, BoundAssumption
  <2> QED
    BY <1>2, <2>1 DEF Id
<1> QED
  BY <1>1, <1>2

\* A send call keeps the types.
LEMMA LaunchType ==
    ASSUME TypeOK, NEW e \in Ext, NEW i \in Id, NEW handler \in HandlerKinds,
           NEW fresh \in 1 .. MaxId + 1, Launch(e, i, handler, fresh)
    PROVE  /\ outPaths' \in [Ext -> SUBSET OutPath]
           /\ group' \in [Ctx -> Seq(Member)]
           /\ live' \in [Ext -> SUBSET Ctx]
           /\ engineQueue' \in Seq(Msg)
           /\ direct' \in [Thread -> Seq(Msg)]
           /\ nextId' \in 1 .. MaxId + 1
           /\ sent' \in Seq([by : Ext, handler : HandlerKinds])
           /\ Len(sent') <= MaxSend
<1> DEFINE dests  == Route[e]
           n      == Len(dests)
           call   == Len(sent) + 1
           pid(k) == IF k = 1 THEN i ELSE fresh + (k - 2)
           new(k) == [id |-> pid(k), orig |-> IF k = 1 THEN NoId ELSE i,
                      handler |-> handler, ctx |-> call]
           mem(k) == [id |-> pid(k), cached |-> "none"]
           msg(k) == Cmd(pid(k), call, e, dests[k])
<1>1. dests \in Seq(Ext) /\ DOMAIN dests = 1 .. n /\ n \in Nat
  BY GraphAssumption
<1>2. /\ dests # <<>>
      /\ call \in Ctx
      /\ fresh + (n - 2) <= MaxId
      /\ sent' = Append(sent, [by |-> e, handler |-> handler])
      /\ outPaths' = [outPaths EXCEPT ![e] = @ \cup {new(k) : k \in DOMAIN dests}]
      /\ group' = [group EXCEPT ![call] =
            IF n > 1 THEN [k \in DOMAIN dests |-> mem(k)] ELSE <<>>]
      /\ live' = [live EXCEPT ![e] = IF handler = "none" THEN @ ELSE @ \cup {call}]
      /\ Emit(ThreadOf[e], [k \in DOMAIN dests |-> msg(k)], direct[ThreadOf[e]])
      /\ nextId' = fresh + (n - 1)
  BY DEF Launch
<1>3. \A k \in DOMAIN dests : pid(k) \in Id /\ dests[k] \in Ext
  <2>1. ASSUME NEW k \in DOMAIN dests
        PROVE  pid(k) \in Id
    <3>1. k \in 1 .. n /\ fresh + (n - 2) <= MaxId
      BY <1>1, <1>2
    <3> QED
      BY <1>1, <3>1, LaunchIds, Zenon
  <2>2. \A k \in DOMAIN dests : dests[k] \in Ext
    BY <1>1
  <2> QED
    BY <2>1, <2>2
<1> HIDE DEF pid, dests, n, call
<1>4. \A k \in DOMAIN dests : new(k) \in OutPath
  BY <1>2, <1>3 DEF OutPath
<1>5. \A k \in DOMAIN dests : mem(k) \in Member
  BY <1>3 DEF Member
<1>6. \A k \in DOMAIN dests : msg(k) \in Msg
  BY <1>2, <1>3, CmdIsMsg
<1> HIDE DEF new, mem, msg
<1>7. outPaths' \in [Ext -> SUBSET OutPath]
  BY <1>2, <1>4 DEF TypeOK
<1>8. [k \in DOMAIN dests |-> mem(k)] \in Seq(Member)
  BY <1>1, <1>5
<1>9. group' \in [Ctx -> Seq(Member)]
  <2>1. (IF n > 1 THEN [k \in DOMAIN dests |-> mem(k)] ELSE <<>>) \in Seq(Member)
    BY <1>8
  <2> QED
    BY <1>2, <2>1 DEF TypeOK
<1>10. [k \in DOMAIN dests |-> msg(k)] \in Seq(Msg)
  BY <1>1, <1>6
<1>11. engineQueue' \in Seq(Msg) /\ direct' \in [Thread -> Seq(Msg)]
  <2>1. direct[ThreadOf[e]] \in Seq(Msg)
    BY ThreadType DEF TypeOK
  <2> QED
    BY <1>2, <1>10, <2>1, EmitType, ThreadType DEF TypeOK
<1>12. live' \in [Ext -> SUBSET Ctx]
  BY <1>2 DEF TypeOK
<1>13. nextId' \in 1 .. MaxId + 1
  <2>1. n # 0
    BY <1>1, <1>2 DEF n
  <2>2. n \in Nat /\ fresh \in 1 .. MaxId + 1 /\ MaxId \in Nat
    BY <1>1, BoundAssumption
  <2>3. nextId' = fresh + (n - 1) /\ fresh + (n - 2) <= MaxId
    BY <1>2
  <2> QED
    BY <2>1, <2>2, <2>3
<1>14. sent' \in Seq([by : Ext, handler : HandlerKinds]) /\ Len(sent') <= MaxSend
  <2>1. [by |-> e, handler |-> handler] \in [by : Ext, handler : HandlerKinds]
    OBVIOUS
  <2>2. sent' \in Seq([by : Ext, handler : HandlerKinds])
    BY <1>2, <2>1 DEF TypeOK
  <2>3. Len(sent') = call
    BY <1>2, <2>1 DEF TypeOK, call
  <2>4. call <= MaxSend
    BY <1>2, BoundAssumption DEF Ctx
  <2> QED
    BY <2>2, <2>3, <2>4
<1> QED
  BY <1>7, <1>9, <1>11, <1>12, <1>13, <1>14

\* Taking a command keeps the types.
LEMMA TakeCmdType ==
    ASSUME TypeOK, NEW e \in Ext, NEW m \in CmdMsg, NEW left \in Seq(Msg),
           TakeCmd(e, m, left)
    PROVE  /\ inPaths' \in [Ext -> SUBSET InPath]
           /\ held' \in [Ext -> SUBSET Id]
           /\ engineQueue' \in Seq(Msg)
           /\ direct' \in [Thread -> Seq(Msg)]
           /\ nextId' \in 1 .. MaxId + 1
<1> DEFINE again == InPathsOf(e, m.id) # {}
           i     == IF again THEN nextId ELSE m.id
           new   == [id |-> i, orig |-> IF again THEN m.id ELSE NoId,
                     src |-> m.src, ctx |-> m.ctx]
<1>1. m.id \in Id /\ m.ctx \in Ctx /\ m.src \in Ext
  BY DEF CmdMsg
<1>2. /\ again => nextId \in Id
      /\ nextId' = IF again THEN nextId + 1 ELSE nextId
      /\ \/ /\ inPaths' = [inPaths EXCEPT ![e] = @ \cup {new}]
            /\ held' = [held EXCEPT ![e] = @ \cup {i}] \/ UNCHANGED held
            /\ Emit(ThreadOf[e], <<>>, left)
         \/ /\ Emit(ThreadOf[e], <<Result(m.id, m.ctx, m.src, FALSE, TRUE)>>, left)
            /\ UNCHANGED <<inPaths, held>>
  BY DEF TakeCmd
<1> HIDE DEF again
<1>3. i \in Id
  BY <1>1, <1>2
<1>4. new \in InPath
  BY <1>1, <1>3 DEF InPath
<1>5. nextId' \in 1 .. MaxId + 1
  BY <1>2, BoundAssumption DEF TypeOK, Id
<1> HIDE DEF new, i
<1>6. CASE /\ inPaths' = [inPaths EXCEPT ![e] = @ \cup {new}]
           /\ held' = [held EXCEPT ![e] = @ \cup {i}] \/ UNCHANGED held
           /\ Emit(ThreadOf[e], <<>>, left)
  <2>1. inPaths' \in [Ext -> SUBSET InPath] /\ held' \in [Ext -> SUBSET Id]
    BY <1>3, <1>4, <1>6 DEF TypeOK
  <2>2. engineQueue' \in Seq(Msg) /\ direct' \in [Thread -> Seq(Msg)]
    BY <1>6, EmitType, ThreadType, MsgLists DEF TypeOK
  <2> QED
    BY <1>5, <2>1, <2>2
<1>7. CASE /\ Emit(ThreadOf[e], <<Result(m.id, m.ctx, m.src, FALSE, TRUE)>>, left)
           /\ UNCHANGED <<inPaths, held>>
  <2>1. Result(m.id, m.ctx, m.src, FALSE, TRUE) \in Msg
    BY <1>1, ResultIsMsg
  <2>2. engineQueue' \in Seq(Msg) /\ direct' \in [Thread -> Seq(Msg)]
    BY <1>7, <2>1, EmitType, ThreadType, MsgLists DEF TypeOK
  <2> QED
    BY <1>5, <1>7, <2>2 DEF TypeOK
<1> QED
  BY <1>2, <1>6, <1>7

-----------------------------------------------------------------------------
\* Handling a message.

\* Refusing a message keeps the types.
LEMMA RefuseType ==
    ASSUME TypeOK, NEW t \in Thread, NEW m \in Msg, NEW left \in Seq(Msg),
           Refuse(t, m, left)
    PROVE  engineQueue' \in Seq(Msg) /\ direct' \in [Thread -> Seq(Msg)]
<1>1. CASE m.kind = "cmd"
  <2>1. m.id \in Id /\ m.ctx \in Ctx /\ m.src \in Ext
    BY <1>1, MsgFields
  <2>2. Result(m.id, m.ctx, m.src, FALSE, TRUE) \in Msg
    BY <2>1, ResultIsMsg
  <2>3. Emit(t, <<Result(m.id, m.ctx, m.src, FALSE, TRUE)>>, left)
    BY <1>1 DEF Refuse
  <2> QED
    BY <2>2, <2>3, EmitType, MsgLists DEF TypeOK
<1>2. CASE m.kind # "cmd"
  BY <1>2, EmitType, MsgLists DEF Refuse, TypeOK
<1> QED
  BY <1>1, <1>2

\* Handling a message keeps the types.
LEMMA HandleInMsgType ==
    ASSUME TypeOK, NEW e \in Ext, NEW m \in Msg, NEW left \in Seq(Msg),
           HandleInMsg(e, m, left)
    PROVE  /\ inPaths' \in [Ext -> SUBSET InPath]
           /\ outPaths' \in [Ext -> SUBSET OutPath]
           /\ group' \in [Ctx -> Seq(Member)]
           /\ live' \in [Ext -> SUBSET Ctx]
           /\ held' \in [Ext -> SUBSET Id]
           /\ pending' \in [Ext -> Seq(CmdMsg)]
           /\ engineQueue' \in Seq(Msg)
           /\ direct' \in [Thread -> Seq(Msg)]
           /\ nextId' \in 1 .. MaxId + 1
<1>1. CASE /\ state[e] = "starting" /\ m.kind = "cmd"
           /\ pending' = [pending EXCEPT ![e] = Append(@, m)]
           /\ Emit(ThreadOf[e], <<>>, left)
           /\ UNCHANGED <<pathVars, live, held, nextId, histVars>>
  <2>1. m \in CmdMsg
    BY <1>1, MsgFields
  <2>2. pending' \in [Ext -> Seq(CmdMsg)]
    BY <1>1, <2>1 DEF TypeOK
  <2>3. engineQueue' \in Seq(Msg) /\ direct' \in [Thread -> Seq(Msg)]
    BY <1>1, EmitType, ThreadType, MsgLists DEF TypeOK
  <2> QED
    BY <1>1, <2>2, <2>3 DEF TypeOK, pathVars
<1>2. CASE /\ m.kind = "result"
           /\ TakeResult(e, m, left)
           /\ UNCHANGED <<held, pending, nextId>>
  <2>1. m \in ResultMsg
    BY <1>2, MsgFields
  <2> QED
    BY <1>2, <2>1, TakeResultType DEF TypeOK
<1>3. CASE /\ m.kind = "cmd"
           /\ TakeCmd(e, m, left)
           /\ UNCHANGED <<outPaths, group, live, pending, histVars>>
  <2>1. m \in CmdMsg
    BY <1>3, MsgFields
  <2> QED
    BY <1>3, <2>1, TakeCmdType DEF TypeOK
<1>4. CASE /\ Emit(ThreadOf[e], <<>>, left)
           /\ UNCHANGED <<pathVars, live, held, pending, nextId, histVars>>
  BY <1>4, EmitType, ThreadType, MsgLists DEF TypeOK, pathVars
<1>5. CASE /\ Refuse(ThreadOf[e], m, left)
           /\ UNCHANGED <<pathVars, live, held, pending, nextId, histVars>>
  BY <1>5, RefuseType, ThreadType DEF TypeOK, pathVars
<1> QED
  BY <1>1, <1>2, <1>3, <1>4, <1>5 DEF HandleInMsg

\* A thread runs one of the extensions or none.
LEMMA RunningType ==
    ASSUME TypeOK, NEW e \in Ext, Running(e) \/ NotRunning(e)
    PROVE  active' \in [Thread -> Ext \cup {None}]
  BY ThreadType DEF TypeOK, Running, NotRunning

-----------------------------------------------------------------------------
\* Type correctness.

\* The initial state is well typed.
LEMMA TypeInit == Init => TypeOK
<1> SUFFICES ASSUME Init PROVE TypeOK
  OBVIOUS
<1>1. /\ \A S : <<>> \in Seq(S)
      /\ Len(<<>>) = 0
  OBVIOUS
<1> QED
  BY <1>1, BoundAssumption DEF Init, TypeOK, States

\* Every step keeps the types.
LEMMA TypeStep == TypeOK /\ [Next]_vars => TypeOK'
<1> SUFFICES ASSUME TypeOK, [Next]_vars PROVE TypeOK'
  OBVIOUS
<1>1. CASE EngineDispatch
  <2>1. /\ Head(engineQueue) \in Msg /\ Tail(engineQueue) \in Seq(Msg)
        /\ Head(engineQueue).dst \in Ext
    BY <1>1, MsgLists, MsgFields DEF EngineDispatch, TypeOK
  <2>2. queue' \in [Thread -> Seq(Msg \cup {CloseTask})]
    BY <1>1, <2>1, ThreadType DEF EngineDispatch, TypeOK
  <2> QED
    BY <1>1, <2>1, <2>2 DEF EngineDispatch, TypeOK, lifeVars, pathVars, histVars
<1>2. CASE EngineClose
  BY <1>2 DEF EngineClose, TypeOK, lifeVars, pathVars, netVars, histVars
<1>3. CASE CloseThreads
  <2>1. \A t \in Thread : Append(queue[t], CloseTask) \in Seq(Msg \cup {CloseTask})
    BY DEF TypeOK
  <2>2. queue' \in [Thread -> Seq(Msg \cup {CloseTask})]
    BY <1>3, <2>1 DEF CloseThreads
  <2> QED
    BY <1>3, <2>2 DEF CloseThreads, TypeOK, lifeVars, pathVars, histVars
<1>4. ASSUME NEW t \in Thread, HandleDirect(t)
      PROVE  TypeOK'
  <2> DEFINE m == Head(direct[t])
  <2>1. m \in Msg /\ Tail(direct[t]) \in Seq(Msg)
    BY <1>4, MsgLists DEF HandleDirect, TypeOK
  <2>2. m.dst \in Ext
    BY <2>1, MsgFields
  <2>3. /\ HandleInMsg(m.dst, m, Tail(direct[t]))
        /\ Running(m.dst)
        /\ UNCHANGED <<lifeVars, queue, engine, partials, sent>>
    BY <1>4 DEF HandleDirect
  <2> HIDE DEF m
  <2> QED
    BY <2>1, <2>2, <2>3, HandleInMsgType, RunningType DEF TypeOK, lifeVars
<1>4a. ASSUME NEW t \in Thread, DispatchLeft(t)
       PROVE  TypeOK'
  <2>1. Head(direct[t]) \in Msg /\ Tail(direct[t]) \in Seq(Msg)
    BY <1>4a, MsgLists DEF DispatchLeft, TypeOK
  <2>2. engineQueue' \in Seq(Msg) /\ direct' \in [Thread -> Seq(Msg)]
    BY <1>4a, <2>1 DEF DispatchLeft, TypeOK
  <2>3. active' \in [Thread -> Ext \cup {None}]
    BY <1>4a DEF DispatchLeft, TypeOK
  <2>4. UNCHANGED <<lifeVars, pathVars, live, held, pending, queue, engine, nextId,
                    partials, sent, histVars>>
    BY <1>4a DEF DispatchLeft
  <2> QED
    BY <2>2, <2>3, <2>4 DEF lifeVars, pathVars, histVars, TypeOK
<1>5. ASSUME NEW t \in Thread, Receive(t)
      PROVE  TypeOK'
  <2> DEFINE m == Head(queue[t])
  <2>1. m \in Msg \cup {CloseTask} /\ Tail(queue[t]) \in Seq(Msg \cup {CloseTask})
    BY <1>5 DEF Receive, TypeOK
  <2>2. queue' \in [Thread -> Seq(Msg \cup {CloseTask})]
    BY <1>5, <2>1 DEF Receive, TypeOK
  <2>3. UNCHANGED <<state, flush, engine, partials, sent>>
    BY <1>5 DEF Receive
  <2>4. CASE /\ m.kind # "close"
             /\ HandleInMsg(m.dst, m, <<>>)
             /\ Running(m.dst)
             /\ UNCHANGED stopping
    <3>1. m \in Msg
      BY <2>1, <2>4 DEF CloseTask
    <3>2. m.dst \in Ext
      BY <3>1, MsgFields
    <3> HIDE DEF m
    <3> QED
      BY <2>2, <2>3, <2>4, <3>1, <3>2, MsgLists, HandleInMsgType, RunningType
      DEF TypeOK
  <2>5. CASE /\ m.kind = "close"
             /\ stopping' = stopping \cup {t}
             /\ UNCHANGED <<pathVars, live, held, pending, engineQueue, direct,
                            active, nextId, histVars>>
    BY <2>2, <2>3, <2>5 DEF TypeOK, pathVars
  <2> QED
    BY <1>5, <2>4, <2>5 DEF Receive
<1>6. ASSUME NEW e \in Ext, NEW h \in Handlers, Send(e, h)
      PROVE  TypeOK'
  <2>1. nextId \in Id /\ nextId + 1 \in 1 .. MaxId + 1 /\ h \in HandlerKinds
    BY <1>6, ActorsAssumption, BoundAssumption DEF Send, Id
  <2>2. /\ Launch(e, nextId, h, nextId + 1)
        /\ NotRunning(e)
        /\ UNCHANGED <<lifeVars, inPaths, held, pending, queue, engine, partials,
                       histVars>>
    BY <1>6 DEF Send
  <2> QED
    BY <2>1, <2>2, LaunchType, RunningType DEF TypeOK, lifeVars
<1>7. ASSUME NEW e \in Ext, NEW i \in held[e], NEW h \in Handlers, Forward(e, i, h)
      PROVE  TypeOK'
  <2>1. i \in Id /\ nextId \in 1 .. MaxId + 1 /\ h \in HandlerKinds
    BY ActorsAssumption DEF TypeOK
  <2>2. /\ Launch(e, i, h, nextId)
        /\ held' = [held EXCEPT ![e] = @ \ {i}]
        /\ NotRunning(e)
        /\ UNCHANGED <<lifeVars, inPaths, pending, queue, engine, partials, histVars>>
    BY <1>7 DEF Forward
  <2> QED
    BY <2>1, <2>2, LaunchType, RunningType DEF TypeOK, lifeVars
<1>8. ASSUME NEW e \in Ext, NEW i \in held[e], NEW ok \in BOOLEAN,
             ReturnResult(e, i, ok)
      PROVE  TypeOK'
  <2>1. i \in Id /\ direct[ThreadOf[e]] \in Seq(Msg)
    BY ThreadType DEF TypeOK
  <2>2. /\ ReturnTo(e, i, ok, TRUE, direct[ThreadOf[e]])
        /\ held' = [held EXCEPT ![e] = @ \ {i}]
        /\ NotRunning(e)
        /\ UNCHANGED <<lifeVars, outPaths, group, live, pending, queue, engine,
                       nextId, partials, sent, histVars>>
    BY <1>8 DEF ReturnResult
  <2>3. held' \in [Ext -> SUBSET Id]
    BY <2>2 DEF TypeOK
  <2>4. active' \in [Thread -> Ext \cup {None}]
    BY <2>2, RunningType DEF TypeOK
  <2>5. /\ inPaths' \in [Ext -> SUBSET InPath]
        /\ engineQueue' \in Seq(Msg)
        /\ direct' \in [Thread -> Seq(Msg)]
    BY <2>1, <2>2, ReturnToType DEF TypeOK
  <2> QED
    BY <2>2, <2>3, <2>4, <2>5 DEF TypeOK, lifeVars
<1>9. ASSUME NEW e \in Ext, NEW i \in held[e], ReturnPartial(e, i)
      PROVE  TypeOK'
  <2>1. i \in Id /\ direct[ThreadOf[e]] \in Seq(Msg)
    BY ThreadType DEF TypeOK
  <2>2. /\ ReturnTo(e, i, TRUE, FALSE, direct[ThreadOf[e]])
        /\ NotRunning(e)
        /\ UNCHANGED <<lifeVars, outPaths, group, live, held, pending, queue, engine,
                       nextId, sent, histVars>>
    BY <1>9 DEF ReturnPartial
  <2>3. partials' \in 0 .. MaxPartial
    BY <1>9, BoundAssumption DEF ReturnPartial, TypeOK
  <2> QED
    BY <2>1, <2>2, <2>3, ReturnToType, RunningType DEF TypeOK, lifeVars
<1>10. ASSUME NEW e \in Ext, ReceivePending(e)
       PROVE  TypeOK'
  <2>1. Head(pending[e]) \in CmdMsg /\ pending' \in [Ext -> Seq(CmdMsg)]
    BY <1>10 DEF ReceivePending, TypeOK
  <2>2. /\ TakeCmd(e, Head(pending[e]), <<>>)
        /\ Running(e)
        /\ UNCHANGED <<lifeVars, outPaths, group, live, queue, engine, partials,
                       sent, histVars>>
    BY <1>10 DEF ReceivePending
  <2> QED
    BY <2>1, <2>2, MsgLists, TakeCmdType, RunningType DEF TypeOK, lifeVars
<1>11. ASSUME NEW e \in Ext, NEW p \in inPaths[e], InPathTimeout(e, p)
       PROVE  TypeOK'
  BY <1>11 DEF InPathTimeout, TypeOK, lifeVars, netVars
<1>12. ASSUME NEW e \in Ext, NEW p \in outPaths[e], OutPathTimeout(e, p)
       PROVE  TypeOK'
  <2>1. MadeUpResult(e, p) \in ResultMsg
    BY OutPathFields, ResultIsMsg DEF MadeUpResult, TypeOK
  <2>2. /\ TakeResult(e, MadeUpResult(e, p), <<>>)
        /\ Running(e)
        /\ UNCHANGED <<lifeVars, held, pending, queue, engine, nextId, partials, sent>>
    BY <1>12 DEF OutPathTimeout
  <2> QED
    BY <2>1, <2>2, MsgLists, TakeResultType, RunningType DEF TypeOK, lifeVars
<1>13. ASSUME NEW e \in Ext, FlushOne(e)
       PROVE  TypeOK'
  <2>1. PICK p \in Oldest(flush[e]) :
          /\ flush' = [flush EXCEPT ![e] = @ \ {p}]
          /\ TakeResult(e, MadeUpResult(e, p), <<>>)
    BY <1>13 DEF FlushOne
  <2>2. p \in OutPath
    BY DEF Oldest, TypeOK
  <2>3. MadeUpResult(e, p) \in ResultMsg
    BY <2>2, OutPathFields, ResultIsMsg DEF MadeUpResult
  <2>4. flush' \in [Ext -> SUBSET OutPath]
    BY <2>1 DEF TypeOK
  <2>5. /\ Running(e)
        /\ UNCHANGED <<state, stopping, held, pending, queue, engine, nextId,
                       partials, sent>>
    BY <1>13 DEF FlushOne
  <2> QED
    BY <2>1, <2>3, <2>4, <2>5, MsgLists, TakeResultType, RunningType DEF TypeOK
<1>14. ASSUME NEW e \in Ext, StopDone(e) \/ DeinitDone(e)
       PROVE  TypeOK'
  BY <1>14 DEF StopDone, DeinitDone, States, TypeOK, pathVars, netVars,
               histVars
<1>15. ASSUME NEW e \in Ext, StartDone(e) \/ TimersClosed(e) \/ Deinit(e)
       PROVE  TypeOK'
  BY <1>15, RunningType DEF StartDone, TimersClosed, Deinit, States, TypeOK, pathVars, netVars,
               histVars
<1>16. CASE UNCHANGED vars
  BY <1>16 DEF vars, lifeVars, pathVars, netVars, histVars, TypeOK
<1> QED
  BY <1>1, <1>2, <1>3, <1>4, <1>4a, <1>5, <1>6, <1>7, <1>8, <1>9, <1>10, <1>11,
     <1>12, <1>13, <1>14, <1>15, <1>16 DEF Next

\* Type correctness: every path, message, group and queue is well formed, and
\* ids stay within the bound, whatever the extensions do.
THEOREM TypeCorrect == Spec => []TypeOK
<1>1. Init => TypeOK
  BY TypeInit
<1>2. TypeOK /\ [Next]_vars => TypeOK'
  BY TypeStep
<1> QED
  BY <1>1, <1>2, PTL DEF Spec

-----------------------------------------------------------------------------
\* The commands under way bear ids that were generated.

\* Results and the parts of lists are as good as before.
LEMMA IssuedLists ==
    ASSUME TypeOK
    PROVE  /\ <<>> \in Seq(IssuedMsg)
           /\ \A r \in ResultMsg : <<r>> \in Seq(IssuedMsg)
           /\ \A s \in Seq(IssuedMsg) :
                s # <<>> => Head(s) \in IssuedMsg /\ Tail(s) \in Seq(IssuedMsg)
<1>1. \A r \in ResultMsg : r \in IssuedMsg
  BY DEF ResultMsg, Msg, IssuedMsg
<1> HIDE DEF IssuedMsg
<1> QED
  BY <1>1

\* Ids are never taken back.
LEMMA IssuedGrows ==
    ASSUME TypeOK, NEW n \in Nat, nextId' = n, nextId <= n
    PROVE  /\ \A m \in IssuedMsg : m \in IssuedMsg'
           /\ \A s \in Seq(IssuedMsg) : s \in Seq(IssuedMsg')
           /\ \A s \in Seq(IssuedMsg \cup {CloseTask}) :
                s \in Seq(IssuedMsg' \cup {CloseTask})
<1>1. \A m \in Msg : m.id \in Int
  BY MsgFields DEF Id
<1>2. \A m \in IssuedMsg : m \in IssuedMsg'
  BY <1>1, BoundAssumption DEF IssuedMsg, TypeOK
<1>3. \A S, T : (\A x \in S : x \in T) => \A s \in Seq(S) : s \in Seq(T)
  OBVIOUS
<1> HIDE DEF IssuedMsg
<1> QED
  BY <1>2, <1>3

\* Returning a result uses issued ids only.
LEMMA ReturnToIssued ==
    ASSUME TypeOK, IdsIssued, NEW e \in Ext, NEW i \in Id, NEW ok \in BOOLEAN,
           NEW final \in BOOLEAN, NEW left \in Seq(IssuedMsg),
           ReturnTo(e, i, ok, final, left)
    PROVE  engineQueue' \in Seq(IssuedMsg) /\ direct' \in [Thread -> Seq(IssuedMsg)]
<1>1. CASE Emit(ThreadOf[e], <<>>, left)
  BY <1>1, EmitSeq, ThreadType, IssuedLists DEF IdsIssued
<1>2. ASSUME NEW p \in InPathsOf(e, i),
             Emit(ThreadOf[e], <<Result(Reverted(p), p.ctx, p.src, ok, final)>>,
                  left)
      PROVE  engineQueue' \in Seq(IssuedMsg) /\ direct' \in [Thread -> Seq(IssuedMsg)]
  <2>1. p \in InPath
    BY DEF InPathsOf, TypeOK
  <2>2. Result(Reverted(p), p.ctx, p.src, ok, final) \in ResultMsg
    BY <2>1, InPathFields, ResultIsMsg
  <2> QED
    BY <1>2, <2>2, EmitSeq, ThreadType, IssuedLists DEF IdsIssued
<1> QED
  BY <1>1, <1>2 DEF ReturnTo

\* Handing a result to a handler uses issued ids only.
LEMMA DeliverIssued ==
    ASSUME TypeOK, IdsIssued, NEW e \in Ext, NEW p \in OutPath, NEW ok \in BOOLEAN,
           NEW final \in BOOLEAN, NEW completed, NEW left \in Seq(IssuedMsg),
           Deliver(e, p, ok, final, completed, left)
    PROVE  engineQueue' \in Seq(IssuedMsg) /\ direct' \in [Thread -> Seq(IssuedMsg)]
<1>1. PICK seen \in BOOLEAN : \/ Emit(ThreadOf[e], <<>>, left)
                              \/ ReturnTo(e, Reverted(p), seen, final, left)
  <2>1. \A x \in {ok} \cup (IF SchemaErrors THEN {FALSE} ELSE {}) : x \in BOOLEAN
    OBVIOUS
  <2> QED
    BY <2>1 DEF Deliver, Refused
<1>2. CASE Emit(ThreadOf[e], <<>>, left)
  BY <1>2, EmitSeq, ThreadType, IssuedLists DEF IdsIssued
<1>3. CASE ReturnTo(e, Reverted(p), seen, final, left)
  BY <1>3, ReturnToIssued, OutPathFields
<1> QED
  BY <1>1, <1>2, <1>3

\* Taking a result uses issued ids only.
LEMMA TakeResultIssued ==
    ASSUME TypeOK, IdsIssued, NEW e \in Ext, NEW m \in ResultMsg,
           NEW left \in Seq(IssuedMsg), TakeResult(e, m, left)
    PROVE  engineQueue' \in Seq(IssuedMsg) /\ direct' \in [Thread -> Seq(IssuedMsg)]
<1>0. m.ok \in BOOLEAN /\ m.final \in BOOLEAN
  BY DEF ResultMsg
<1>1. CASE Emit(ThreadOf[e], <<>>, left)
  BY <1>1, EmitSeq, ThreadType, IssuedLists DEF IdsIssued
<1>2. ASSUME NEW p \in FirstOutPath(e, m.id), DecideSingle(e, p, m.ok, m.final, left)
      PROVE  engineQueue' \in Seq(IssuedMsg) /\ direct' \in [Thread -> Seq(IssuedMsg)]
  <2>1. p \in OutPath
    BY DEF FirstOutPath, Oldest, TypeOK
  <2>2. Deliver(e, p, m.ok, m.final, m.final, left)
    BY <1>2 DEF DecideSingle
  <2> QED
    BY <1>0, <2>1, <2>2, DeliverIssued
<1>3. ASSUME NEW p \in FirstOutPath(e, m.id), DecideGroup(e, p, m.ok, left)
      PROVE  engineQueue' \in Seq(IssuedMsg) /\ direct' \in [Thread -> Seq(IssuedMsg)]
  <2>1. PICK q \in PathsOfCtx(e, p.ctx) : \E ok \in BOOLEAN, done \in BOOLEAN :
           Deliver(e, q, ok, TRUE, done, left)
    BY <1>3 DEF DecideGroup
  <2>2. q \in OutPath
    BY DEF PathsOfCtx, TypeOK
  <2> QED
    BY <2>1, <2>2, DeliverIssued
<1>4. ASSUME NEW p \in FirstOutPath(e, m.id), KeepInGroup(e, p, m.ok, left)
      PROVE  engineQueue' \in Seq(IssuedMsg) /\ direct' \in [Thread -> Seq(IssuedMsg)]
  BY <1>1, <1>4 DEF KeepInGroup
<1> QED
  BY <1>1, <1>2, <1>3, <1>4 DEF TakeResult

\* A command that is taken keeps its id or is issued a new one.
LEMMA TakeCmdIssued ==
    ASSUME TypeOK, IdsIssued, NEW e \in Ext, NEW m \in CmdMsg, m \in IssuedMsg,
           NEW left \in Seq(IssuedMsg), TakeCmd(e, m, left)
    PROVE  /\ engineQueue' \in Seq(IssuedMsg)
           /\ direct' \in [Thread -> Seq(IssuedMsg)]
           /\ nextId' \in Nat /\ nextId <= nextId'
           /\ held' \in [Ext -> SUBSET (1 .. nextId' - 1)]
<1> DEFINE again == InPathsOf(e, m.id) # {}
           i     == IF again THEN nextId ELSE m.id
<1>1. m.id \in Id /\ m.id < nextId /\ m.ctx \in Ctx /\ m.src \in Ext
  BY DEF CmdMsg, IssuedMsg
<1>2. /\ nextId' = IF again THEN nextId + 1 ELSE nextId
      /\ held' = [held EXCEPT ![e] = @ \cup {i}] \/ held' = held
      /\ \/ Emit(ThreadOf[e], <<>>, left)
         \/ Emit(ThreadOf[e], <<Result(m.id, m.ctx, m.src, FALSE, TRUE)>>, left)
  BY DEF TakeCmd
<1> HIDE DEF again
<1>3. nextId' \in Nat /\ nextId <= nextId' /\ i \in 1 .. nextId' - 1
  <2>1. nextId \in Nat /\ nextId >= 1 /\ m.id \in Nat /\ m.id >= 1
    BY <1>1, BoundAssumption DEF TypeOK, Id
  <2>2. CASE again
    BY <1>2, <2>1, <2>2
  <2>3. CASE ~again
    BY <1>1, <1>2, <2>1, <2>3
  <2> QED
    BY <2>2, <2>3
<1>4. held' \in [Ext -> SUBSET (1 .. nextId' - 1)]
  <2>1. \A x \in Ext : held[x] \subseteq 1 .. nextId' - 1
    BY <1>3, BoundAssumption DEF IdsIssued, TypeOK
  <2>2. held \in [Ext -> SUBSET (1 .. nextId' - 1)]
    BY <2>1 DEF TypeOK
  <2> HIDE DEF i
  <2>3. held' = [held EXCEPT ![e] = @ \cup {i}] \/ held' = held
    BY <1>2
  <2> QED
    BY <1>3, <2>2, <2>3
<1>5. Result(m.id, m.ctx, m.src, FALSE, TRUE) \in ResultMsg
  BY <1>1, ResultIsMsg
<1>6. engineQueue' \in Seq(IssuedMsg) /\ direct' \in [Thread -> Seq(IssuedMsg)]
  BY <1>2, <1>5, EmitSeq, ThreadType, IssuedLists DEF IdsIssued
<1> QED
  BY <1>3, <1>4, <1>6

\* A send call issues the ids it uses.
LEMMA LaunchIssued ==
    ASSUME TypeOK, IdsIssued, NEW e \in Ext, NEW i \in Id,
           NEW handler \in HandlerKinds, NEW fresh \in 1 .. MaxId + 1,
           i < fresh, nextId <= fresh, Launch(e, i, handler, fresh)
    PROVE  /\ nextId' \in Nat /\ nextId <= nextId'
           /\ engineQueue' \in Seq(IssuedMsg')
           /\ direct' \in [Thread -> Seq(IssuedMsg')]
<1> DEFINE dests  == Route[e]
           n      == Len(dests)
           call   == Len(sent) + 1
           pid(k) == IF k = 1 THEN i ELSE fresh + (k - 2)
           msg(k) == Cmd(pid(k), call, e, dests[k])
<1>1. /\ dests \in Seq(Ext) /\ DOMAIN dests = 1 .. n /\ n \in Nat
      /\ dests # <<>> => n # 0
  BY GraphAssumption
<1>2. /\ dests # <<>>
      /\ call \in Ctx
      /\ fresh + (n - 2) <= MaxId
      /\ Emit(ThreadOf[e], [k \in DOMAIN dests |-> msg(k)], direct[ThreadOf[e]])
      /\ nextId' = fresh + (n - 1)
  BY DEF Launch
<1> HIDE DEF dests, n, call
<1>3. nextId' \in Nat /\ nextId <= nextId' /\ nextId \in Nat
  BY <1>1, <1>2, BoundAssumption DEF TypeOK
<1>4. ASSUME NEW k \in DOMAIN dests
      PROVE  msg(k) \in IssuedMsg'
  <2>1. k \in 1 .. n /\ fresh + (n - 2) <= MaxId
    BY <1>1, <1>2
  <2>2. pid(k) \in Id
    BY <1>1, <2>1, LaunchIds, Zenon
  <2>3. pid(k) < nextId'
    BY <1>1, <1>2, <2>1, BoundAssumption DEF Id
  <2> HIDE DEF pid
  <2>4. dests[k] \in Ext
    BY <1>1
  <2>5. msg(k) \in Msg /\ msg(k).id = pid(k)
    BY <1>2, <2>2, <2>4, CmdIsMsg DEF Cmd
  <2> QED
    BY <2>3, <2>5 DEF IssuedMsg
<1> HIDE DEF msg
<1>5. [k \in DOMAIN dests |-> msg(k)] \in Seq(IssuedMsg')
  BY <1>1, <1>4
<1>6. /\ direct[ThreadOf[e]] \in Seq(IssuedMsg')
      /\ engineQueue \in Seq(IssuedMsg')
      /\ direct \in [Thread -> Seq(IssuedMsg')]
  <2>1. \A s \in Seq(IssuedMsg) : s \in Seq(IssuedMsg')
    BY <1>3, IssuedGrows
  <2> HIDE DEF IssuedMsg
  <2> QED
    BY <2>1, ThreadType DEF IdsIssued
<1> QED
  BY <1>2, <1>3, <1>5, <1>6, EmitSeq, ThreadType

\* Refusing a message uses issued ids only.
LEMMA RefuseIssued ==
    ASSUME TypeOK, IdsIssued, NEW t \in Thread, NEW m \in Msg,
           NEW left \in Seq(IssuedMsg), Refuse(t, m, left)
    PROVE  engineQueue' \in Seq(IssuedMsg) /\ direct' \in [Thread -> Seq(IssuedMsg)]
<1>1. CASE m.kind = "cmd"
  <2>1. m.id \in Id /\ m.ctx \in Ctx /\ m.src \in Ext
    BY <1>1, MsgFields
  <2>2. Result(m.id, m.ctx, m.src, FALSE, TRUE) \in ResultMsg
    BY <2>1, ResultIsMsg
  <2>3. Emit(t, <<Result(m.id, m.ctx, m.src, FALSE, TRUE)>>, left)
    BY <1>1 DEF Refuse
  <2> QED
    BY <2>2, <2>3, EmitSeq, IssuedLists DEF IdsIssued
<1>2. CASE m.kind # "cmd"
  BY <1>2, EmitSeq, IssuedLists DEF Refuse, IdsIssued
<1> QED
  BY <1>1, <1>2

\* Handling a message leaves issued ids, before and after ids are generated.
LEMMA HandleInMsgIssued ==
    ASSUME TypeOK, IdsIssued, NEW e \in Ext, NEW m \in IssuedMsg,
           NEW left \in Seq(IssuedMsg), HandleInMsg(e, m, left)
    PROVE  /\ engineQueue' \in Seq(IssuedMsg)
           /\ direct' \in [Thread -> Seq(IssuedMsg)]
           /\ nextId' \in Nat /\ nextId <= nextId'
           /\ held' \in [Ext -> SUBSET (1 .. nextId' - 1)]
           /\ pending' \in [Ext -> Seq(IssuedMsg)]
<1>0. m \in Msg /\ nextId \in Nat
  BY BoundAssumption DEF IssuedMsg, TypeOK
<1>1. CASE /\ pending' = [pending EXCEPT ![e] = Append(@, m)]
           /\ Emit(ThreadOf[e], <<>>, left)
           /\ UNCHANGED <<held, nextId>>
  <2>1. pending' \in [Ext -> Seq(IssuedMsg)]
    BY <1>1 DEF IdsIssued
  <2>2. engineQueue' \in Seq(IssuedMsg) /\ direct' \in [Thread -> Seq(IssuedMsg)]
    BY <1>1, EmitSeq, ThreadType, IssuedLists DEF IdsIssued
  <2> QED
    BY <1>0, <1>1, <2>1, <2>2 DEF IdsIssued
<1>2. CASE /\ m.kind = "result"
           /\ TakeResult(e, m, left)
           /\ UNCHANGED <<held, pending, nextId>>
  <2>1. m \in ResultMsg
    BY <1>0, <1>2, MsgFields
  <2> QED
    BY <1>0, <1>2, <2>1, TakeResultIssued DEF IdsIssued
<1>3. CASE m.kind = "cmd" /\ TakeCmd(e, m, left) /\ UNCHANGED pending
  <2>1. m \in CmdMsg
    BY <1>0, <1>3, MsgFields
  <2> QED
    BY <1>3, <2>1, TakeCmdIssued DEF IdsIssued
<1>4. CASE /\ Emit(ThreadOf[e], <<>>, left)
           /\ UNCHANGED <<held, pending, nextId>>
  <2>1. engineQueue' \in Seq(IssuedMsg) /\ direct' \in [Thread -> Seq(IssuedMsg)]
    BY <1>4, EmitSeq, ThreadType, IssuedLists DEF IdsIssued
  <2> QED
    BY <1>0, <1>4, <2>1 DEF IdsIssued
<1>5. CASE /\ Refuse(ThreadOf[e], m, left)
           /\ UNCHANGED <<held, pending, nextId>>
  BY <1>0, <1>5, RefuseIssued, ThreadType DEF IdsIssued
<1> QED
  BY <1>1, <1>2, <1>3, <1>4, <1>5 DEF HandleInMsg

\* From the lists of a step that may have generated ids, the invariant.
LEMMA IssuedAfter ==
    ASSUME TypeOK, NEW n \in Nat, nextId' = n, nextId <= n,
           held' \in [Ext -> SUBSET (1 .. nextId' - 1)],
           pending' \in [Ext -> Seq(IssuedMsg)],
           queue' \in [Thread -> Seq(IssuedMsg \cup {CloseTask})],
           engineQueue' \in Seq(IssuedMsg) \cup Seq(IssuedMsg'),
           direct' \in [Thread -> Seq(IssuedMsg)] \cup [Thread -> Seq(IssuedMsg')]
    PROVE  IdsIssued'
<1>1. /\ \A s \in Seq(IssuedMsg) : s \in Seq(IssuedMsg')
      /\ \A s \in Seq(IssuedMsg \cup {CloseTask}) :
           s \in Seq(IssuedMsg' \cup {CloseTask})
  BY IssuedGrows
<1> DEFINE S == Seq(IssuedMsg)
           S2 == Seq(IssuedMsg')
           T == Seq(IssuedMsg \cup {CloseTask})
           T2 == Seq(IssuedMsg' \cup {CloseTask})
<1>2. /\ pending' \in [Ext -> S]
      /\ queue' \in [Thread -> T]
      /\ engineQueue' \in S \cup S2
      /\ direct' \in [Thread -> S] \cup [Thread -> S2]
      /\ \A s \in S : s \in S2
      /\ \A s \in T : s \in T2
  BY <1>1
<1>3. IdsIssued' <=> /\ held' \in [Ext -> SUBSET (1 .. nextId' - 1)]
                     /\ pending' \in [Ext -> S2]
                     /\ queue' \in [Thread -> T2]
                     /\ engineQueue' \in S2
                     /\ direct' \in [Thread -> S2]
  BY DEF IdsIssued, CloseTask
<1> HIDE DEF S, S2, T, T2
<1>4. pending' \in [Ext -> S2] /\ queue' \in [Thread -> T2]
  BY <1>2
<1>5. engineQueue' \in S2 /\ direct' \in [Thread -> S2]
  BY <1>2
<1> QED
  BY <1>3, <1>4, <1>5, Zenon

\* Initially no id is in use that was not issued.
LEMMA IssuedInit == Init => IdsIssued
<1> SUFFICES ASSUME Init PROVE IdsIssued
  OBVIOUS
<1>1. \A S : <<>> \in Seq(S)
  OBVIOUS
<1> HIDE DEF IssuedMsg
<1> QED
  BY <1>1 DEF Init, IdsIssued

\* Every step keeps ids in use within those issued.
LEMMA IssuedStep == TypeOK /\ IdsIssued /\ [Next]_vars => IdsIssued'
<1> SUFFICES ASSUME TypeOK, IdsIssued, [Next]_vars PROVE IdsIssued'
  OBVIOUS
<1> DEFINE S == Seq(IssuedMsg)
           T == Seq(IssuedMsg \cup {CloseTask})
<1>0. nextId \in Nat
  BY BoundAssumption DEF TypeOK
<1>a. /\ held \in [Ext -> SUBSET (1 .. nextId - 1)]
      /\ pending \in [Ext -> S]
      /\ queue \in [Thread -> T]
      /\ engineQueue \in S
      /\ direct \in [Thread -> S]
  BY DEF IdsIssued
<1>b. <<>> \in S
  OBVIOUS
<1>c. ASSUME UNCHANGED nextId, held' \in [Ext -> SUBSET (1 .. nextId - 1)],
             pending' \in [Ext -> S], queue' \in [Thread -> T],
             engineQueue' \in S, direct' \in [Thread -> S]
      PROVE  IdsIssued'
  BY <1>0, <1>c, IssuedAfter
<1>d. \A s \in S : s # <<>> => Head(s) \in IssuedMsg /\ Tail(s) \in S
  BY IssuedLists
<1>e. \A s \in T : s # <<>> => Head(s) \in IssuedMsg \cup {CloseTask} /\ Tail(s) \in T
  OBVIOUS
<1>f. \A s \in T : \A m \in IssuedMsg \cup {CloseTask} : Append(s, m) \in T
  OBVIOUS
<1> HIDE DEF S, T
<1>1. CASE EngineDispatch
  <2>1. Head(engineQueue) \in IssuedMsg /\ Tail(engineQueue) \in S
    BY <1>1, <1>a, <1>d DEF EngineDispatch
  <2>2. queue' \in [Thread -> T]
    BY <1>1, <1>a, <1>f, <2>1 DEF EngineDispatch
  <2> QED
    BY <1>1, <1>a, <1>c, <2>1, <2>2 DEF EngineDispatch
<1>2. CASE EngineClose
  BY <1>2, <1>a, <1>c DEF EngineClose, netVars
<1>3. CASE CloseThreads
  <2>1. queue' \in [Thread -> T]
    BY <1>3, <1>a, <1>f DEF CloseThreads
  <2> QED
    BY <1>3, <1>a, <1>c, <2>1 DEF CloseThreads
<1>4. ASSUME NEW t \in Thread, HandleDirect(t)
      PROVE  IdsIssued'
  <2> DEFINE m == Head(direct[t])
  <2>1. m \in IssuedMsg /\ Tail(direct[t]) \in S
    BY <1>4, <1>a, <1>d DEF HandleDirect
  <2>2. m.dst \in Ext
    BY <2>1, MsgFields DEF IssuedMsg
  <2>3. HandleInMsg(m.dst, m, Tail(direct[t])) /\ UNCHANGED queue
    BY <1>4 DEF HandleDirect
  <2> HIDE DEF m
  <2> QED
    BY <1>a, <2>1, <2>2, <2>3, HandleInMsgIssued, IssuedAfter DEF S, T
<1>4a. ASSUME NEW t \in Thread, DispatchLeft(t)
       PROVE  IdsIssued'
  <2>1. Head(direct[t]) \in IssuedMsg /\ Tail(direct[t]) \in S
    BY <1>4a, <1>a, <1>d DEF DispatchLeft
  <2>2. \A s \in S : \A m \in IssuedMsg : Append(s, m) \in S
    BY DEF S
  <2>3. engineQueue' \in S /\ direct' \in [Thread -> S]
    BY <1>4a, <1>a, <2>1, <2>2 DEF DispatchLeft
  <2>4. UNCHANGED <<held, pending, queue, nextId>>
    BY <1>4a DEF DispatchLeft
  <2> QED
    BY <1>a, <1>c, <2>3, <2>4
<1>5. ASSUME NEW t \in Thread, Receive(t)
      PROVE  IdsIssued'
  <2> DEFINE m == Head(queue[t])
  <2>1. m \in IssuedMsg \cup {CloseTask} /\ queue' \in [Thread -> T]
    BY <1>5, <1>a, <1>e DEF Receive
  <2>2. CASE m.kind # "close" /\ HandleInMsg(m.dst, m, <<>>)
    <3>1. m \in IssuedMsg
      BY <2>1, <2>2 DEF CloseTask
    <3>2. m.dst \in Ext
      BY <3>1, MsgFields DEF IssuedMsg
    <3> HIDE DEF m
    <3> QED
      BY <1>b, <2>1, <2>2, <3>1, <3>2, HandleInMsgIssued, IssuedAfter DEF S, T
  <2>3. CASE UNCHANGED <<held, pending, engineQueue, direct, nextId>>
    BY <1>a, <1>c, <2>1, <2>3
  <2> QED
    BY <1>5, <2>2, <2>3 DEF Receive
<1>6. ASSUME NEW e \in Ext, NEW h \in Handlers, Send(e, h)
      PROVE  IdsIssued'
  <2>1. /\ nextId \in Id /\ nextId + 1 \in 1 .. MaxId + 1 /\ h \in HandlerKinds
        /\ nextId < nextId + 1 /\ nextId <= nextId + 1
    BY <1>6, ActorsAssumption, BoundAssumption DEF Send, Id
  <2>2. Launch(e, nextId, h, nextId + 1) /\ UNCHANGED <<held, pending, queue>>
    BY <1>6 DEF Send
  <2>3. /\ nextId' \in Nat /\ nextId <= nextId'
        /\ engineQueue' \in Seq(IssuedMsg')
        /\ direct' \in [Thread -> Seq(IssuedMsg')]
    BY <2>1, <2>2, LaunchIssued
  <2>4. held' \in [Ext -> SUBSET (1 .. nextId' - 1)]
    BY <1>0, <1>a, <2>2, <2>3
  <2> QED
    BY <1>a, <2>2, <2>3, <2>4, IssuedAfter DEF S, T
<1>7. ASSUME NEW e \in Ext, NEW i \in held[e], NEW h \in Handlers, Forward(e, i, h)
      PROVE  IdsIssued'
  <2>1. /\ i \in Id /\ nextId \in 1 .. MaxId + 1 /\ h \in HandlerKinds
        /\ i < nextId
    BY <1>0, <1>a, ActorsAssumption DEF TypeOK
  <2>2. /\ Launch(e, i, h, nextId) /\ UNCHANGED <<pending, queue>>
        /\ held' = [held EXCEPT ![e] = @ \ {i}]
    BY <1>7 DEF Forward
  <2>3. /\ nextId' \in Nat /\ nextId <= nextId'
        /\ engineQueue' \in Seq(IssuedMsg')
        /\ direct' \in [Thread -> Seq(IssuedMsg')]
    BY <1>0, <2>1, <2>2, LaunchIssued
  <2>4. held' \in [Ext -> SUBSET (1 .. nextId' - 1)]
    BY <1>0, <1>a, <2>2, <2>3
  <2> QED
    BY <1>a, <2>2, <2>3, <2>4, IssuedAfter DEF S, T
<1>8. ASSUME NEW e \in Ext, NEW i \in held[e], NEW ok \in BOOLEAN,
             NEW final \in BOOLEAN,
             ReturnTo(e, i, ok, final, direct[ThreadOf[e]]),
             held' = [held EXCEPT ![e] = @ \ {i}] \/ UNCHANGED held,
             UNCHANGED <<pending, queue, nextId>>
      PROVE  IdsIssued'
  <2>1. i \in Id /\ direct[ThreadOf[e]] \in S
    BY <1>a, ThreadType DEF TypeOK
  <2>2. engineQueue' \in S /\ direct' \in [Thread -> S]
    BY <1>8, <2>1, ReturnToIssued DEF S
  <2>3. held' \in [Ext -> SUBSET (1 .. nextId - 1)]
    BY <1>8, <1>a
  <2> QED
    BY <1>8, <1>a, <1>c, <2>2, <2>3
<1>9. ASSUME NEW e \in Ext, NEW i \in held[e], NEW ok \in BOOLEAN,
             ReturnResult(e, i, ok)
      PROVE  IdsIssued'
  BY <1>8, <1>9 DEF ReturnResult
<1>10. ASSUME NEW e \in Ext, NEW i \in held[e], ReturnPartial(e, i)
       PROVE  IdsIssued'
  BY <1>8, <1>10 DEF ReturnPartial
<1>11. ASSUME NEW e \in Ext, ReceivePending(e)
       PROVE  IdsIssued'
  <2>1. /\ Head(pending[e]) \in IssuedMsg /\ pending' \in [Ext -> S]
        /\ TakeCmd(e, Head(pending[e]), <<>>) /\ UNCHANGED queue
    BY <1>11, <1>a, <1>d DEF ReceivePending
  <2>2. Head(pending[e]) \in CmdMsg
    BY <1>11 DEF ReceivePending, TypeOK
  <2> QED
    BY <1>a, <1>b, <2>1, <2>2, TakeCmdIssued, IssuedAfter DEF S, T
<1>12. ASSUME NEW e \in Ext, NEW p \in OutPath,
              TakeResult(e, MadeUpResult(e, p), <<>>),
              UNCHANGED <<held, pending, queue, nextId>>
       PROVE  IdsIssued'
  <2>1. MadeUpResult(e, p) \in ResultMsg
    BY OutPathFields, ResultIsMsg DEF MadeUpResult
  <2>2. engineQueue' \in S /\ direct' \in [Thread -> S]
    BY <1>12, <1>b, <2>1, TakeResultIssued DEF S
  <2> QED
    BY <1>12, <1>a, <1>c, <2>2
<1>13. ASSUME NEW e \in Ext, NEW p \in outPaths[e], OutPathTimeout(e, p)
       PROVE  IdsIssued'
  BY <1>12, <1>13 DEF OutPathTimeout, TypeOK
<1>14. ASSUME NEW e \in Ext, FlushOne(e)
       PROVE  IdsIssued'
  BY <1>12, <1>14 DEF FlushOne, Oldest, TypeOK
<1>15. ASSUME NEW e \in Ext,
              \/ \E p \in inPaths[e] : InPathTimeout(e, p)
              \/ StartDone(e) \/ StopDone(e) \/ TimersClosed(e)
              \/ Deinit(e) \/ DeinitDone(e)
       PROVE  IdsIssued'
  <2>1. UNCHANGED <<held, pending, queue, engineQueue, direct, nextId>>
    BY <1>15 DEF InPathTimeout, StartDone, StopDone, TimersClosed, Deinit,
                 DeinitDone, netVars
  <2> QED
    BY <1>a, <1>c, <2>1
<1>16. CASE UNCHANGED vars
  <2>1. UNCHANGED <<held, pending, queue, engineQueue, direct, nextId>>
    BY <1>16 DEF vars, netVars
  <2> QED
    BY <1>a, <1>c, <2>1
<1> QED
  BY <1>1, <1>2, <1>3, <1>4, <1>4a, <1>5, <1>6, <1>7, <1>9, <1>10, <1>11, <1>13,
     <1>14, <1>15, <1>16 DEF Next

-----------------------------------------------------------------------------
\* Path tables, groups and handler contexts.

Tables == PathsOfSender /\ HandlerContexts /\ GroupsMatchTable

\* Every path of P has its member in m, and no member is there twice.
Matches(m, P) ==
    /\ \A j, k \in DOMAIN m : m[j].id = m[k].id => j = k
    /\ {p.id : p \in P} = {m[k].id : k \in DOMAIN m}

\* The group agrees with the paths of its send call.
Agrees(m, P) == \/ m # <<>> /\ Matches(m, P)
                \/ m = <<>> /\ \A p, q \in P : p = q

\* Members and paths that match have the same ids.
LEMMA MatchesIds ==
    ASSUME NEW m, NEW P, Matches(m, P)
    PROVE  /\ \A j \in DOMAIN m : \E p \in P : p.id = m[j].id
           /\ \A p \in P : \E j \in DOMAIN m : p.id = m[j].id
<1>1. {p.id : p \in P} = {m[k].id : k \in DOMAIN m}
  BY DEF Matches
<1>2. ASSUME NEW j \in DOMAIN m
      PROVE  \E p \in P : p.id = m[j].id
  <2>1. m[j].id \in {p.id : p \in P}
    BY <1>1
  <2> QED
    BY <2>1
<1>3. ASSUME NEW p \in P
      PROVE  \E j \in DOMAIN m : p.id = m[j].id
  <2>1. p.id \in {m[k].id : k \in DOMAIN m}
    BY <1>1
  <2> QED
    BY <2>1
<1> QED
  BY <1>2, <1>3

\* GroupsMatchTable, said of each send call with the name Agrees.
LEMMA GroupsAgree ==
    GroupsMatchTable <=>
        \A e \in Ext, c \in Ctx :
            PathsOfCtx(e, c) # {} => Agrees(group[c], PathsOfCtx(e, c))
  BY DEF GroupsMatchTable, Agrees, Matches

\* Caching a result keeps the members of a group.
LEMMA AnsweredMatches ==
    ASSUME NEW m \in Seq(Member), NEW k \in DOMAIN m, NEW ok \in BOOLEAN,
           NEW P, Matches(m, P)
    PROVE  Matches(Answered(m, k, ok), P)
<1> DEFINE g == Answered(m, k, ok)
           n == Len(m)
           place(j) == IF j < k THEN j ELSE IF j < n THEN j + 1 ELSE k
<1>1. /\ g \in Seq(Member) /\ Len(g) = n /\ n \in Nat \ {0}
      /\ \A j \in 1 .. n - 1 : g[j] = IF j < k THEN m[j] ELSE m[j + 1]
      /\ g[n] = [id |-> m[k].id, cached |-> Status(ok)]
  BY AnsweredType, Zenon
<1>2. DOMAIN g = 1 .. n /\ DOMAIN m = 1 .. n /\ k \in 1 .. n /\ k \in Nat
  BY <1>1
<1> HIDE DEF g, n
<1>3. ASSUME NEW j \in 1 .. n
      PROVE  place(j) \in 1 .. n /\ g[j].id = m[place(j)].id
  <2>1. CASE j < k
    BY <1>1, <1>2, <2>1
  <2>2. CASE ~(j < k) /\ j < n
    BY <1>1, <1>2, <2>2
  <2>3. CASE ~(j < k) /\ j = n
    BY <1>1, <1>2, <2>3
  <2> QED
    BY <1>1, <1>2, <2>1, <2>2, <2>3
<1>4. \A i, j \in 1 .. n : place(i) = place(j) => i = j
  BY <1>1, <1>2
<1>5. ASSUME NEW i \in 1 .. n
      PROVE  \E j \in 1 .. n : place(j) = i
  <2>1. CASE i < k
    BY <1>1, <1>2, <2>1
  <2>2. CASE i = k
    <3>1. n \in 1 .. n /\ place(n) = k
      BY <1>1, <1>2
    <3> QED
      BY <2>2, <3>1
  <2>3. CASE i > k
    <3>1. i - 1 \in 1 .. n /\ place(i - 1) = i
      BY <1>1, <1>2, <2>3
    <3> QED
      BY <3>1
  <2> QED
    BY <1>2, <2>1, <2>2, <2>3
<1> HIDE DEF place
<1>6. \A i, j \in 1 .. n : g[i].id = g[j].id => i = j
  BY <1>2, <1>3, <1>4 DEF Matches
<1>7. {g[j].id : j \in 1 .. n} = {m[j].id : j \in 1 .. n}
  <2>1. ASSUME NEW j \in 1 .. n
        PROVE  g[j].id \in {m[i].id : i \in 1 .. n}
    BY <1>3
  <2>2. ASSUME NEW i \in 1 .. n
        PROVE  m[i].id \in {g[j].id : j \in 1 .. n}
    <3>1. PICK j \in 1 .. n : place(j) = i
      BY <1>5
    <3>2. g[j].id = m[i].id
      BY <1>3, <3>1
    <3> QED
      BY <3>2
  <2> QED
    BY <2>1, <2>2
<1>8. {p.id : p \in P} = {g[j].id : j \in 1 .. n}
  BY <1>2, <1>7 DEF Matches
<1> QED
  BY <1>2, <1>6, <1>8 DEF Matches, g

\* A step that takes some paths of one send call away, and settles its group
\* and its handler accordingly.
\* Two extensions do not share a send call, and its paths share the handler.
LEMMA SenderOfPath ==
    ASSUME PathsOfSender, NEW e \in Ext, NEW p \in outPaths[e]
    PROVE  p.ctx <= Len(sent) /\ sent[p.ctx].by = e /\ sent[p.ctx].handler = p.handler
<1>1. p.ctx <= Len(sent) /\ sent[p.ctx] = [by |-> e, handler |-> p.handler]
  BY DEF PathsOfSender
<1> QED
  BY <1>1

\* The tables stay related when paths of one send call go, and its group
\* and context with the last of them.
LEMMA SettleTables ==
    ASSUME TypeOK, Tables, NEW e \in Ext, NEW c \in Ctx,
           NEW gone \in SUBSET PathsOfCtx(e, c), NEW done \in BOOLEAN,
           NEW g2 \in Seq(Member),
           PathsOfCtx(e, c) # {},
           outPaths' = [outPaths EXCEPT ![e] = @ \ gone],
           group' = [group EXCEPT ![c] = g2],
           live' = [live EXCEPT ![e] = IF done THEN @ \ {c} ELSE @],
           done <=> PathsOfCtx(e, c) \ gone = {},
           ~done => Agrees(g2, PathsOfCtx(e, c) \ gone),
           UNCHANGED sent
    PROVE  Tables'
<1>1. \A x \in Ext : outPaths'[x] = IF x = e THEN outPaths[e] \ gone ELSE outPaths[x]
  BY DEF TypeOK
<1>2. \A p \in gone : p \in outPaths[e] /\ p.ctx = c
  BY DEF PathsOfCtx
<1>3. PathsOfSender'
  <2>1. \A x \in Ext : \A p \in outPaths'[x] : p \in outPaths[x]
    BY <1>1
  <2>2. sent' = sent
    OBVIOUS
  <2>3. PathsOfSender
    BY DEF Tables
  <2>4. ASSUME NEW x \in Ext, NEW p \in outPaths'[x]
        PROVE  /\ p.ctx <= Len(sent')
               /\ sent'[p.ctx] = [by |-> x, handler |-> p.handler]
               /\ \A q \in outPaths'[x] : q.ctx = p.ctx /\ q.id = p.id => q = p
    BY <2>1, <2>2, <2>3 DEF PathsOfSender
  <2> QED
    BY <2>4 DEF PathsOfSender
<1>4. ASSUME NEW x \in Ext, NEW d \in Ctx
      PROVE  PathsOfCtx(x, d)' = IF x = e /\ d = c THEN PathsOfCtx(e, c) \ gone
                                 ELSE PathsOfCtx(x, d)
  BY <1>1, <1>2 DEF PathsOfCtx
<1>5. \A x \in Ext : x # e => PathsOfCtx(x, c) = {}
  <2>1. PICK p \in PathsOfCtx(e, c) : TRUE
    OBVIOUS
  <2>2. sent[c].by = e
    BY <2>1, SenderOfPath DEF PathsOfCtx, Tables
  <2>3. ASSUME NEW x \in Ext, NEW q \in PathsOfCtx(x, c)
        PROVE  x = e
    BY <2>2, SenderOfPath DEF PathsOfCtx, Tables
  <2> QED
    BY <2>3
<1>6. GroupsMatchTable'
  <2>1. ASSUME NEW x \in Ext, NEW d \in Ctx, PathsOfCtx(x, d)' # {}
        PROVE  Agrees(group'[d], PathsOfCtx(x, d)')
    <3>1. CASE d = c /\ x = e
      BY <1>4, <2>1, <3>1 DEF TypeOK
    <3>2. CASE d = c /\ x # e
      BY <1>4, <1>5, <2>1, <3>2
    <3>3. CASE d # c
      <4>1. group'[d] = group[d] /\ PathsOfCtx(x, d)' = PathsOfCtx(x, d)
        BY <1>4, <3>3 DEF TypeOK
      <4> QED
        BY <2>1, <4>1, GroupsAgree DEF Tables
    <3> QED
      BY <3>1, <3>2, <3>3
  <2> QED
    BY <2>1 DEF GroupsMatchTable, Agrees, Matches
<1>7. HandlerContexts'
  <2>1. ASSUME NEW x \in Ext, NEW d \in Ctx
        PROVE  d \in live'[x] <=> \E p \in outPaths'[x] : p.handler # "none" /\ p.ctx = d
    <3>1. d \in live[x] <=> \E p \in outPaths[x] : p.handler # "none" /\ p.ctx = d
      BY DEF Tables, HandlerContexts
    <3>2. CASE x # e
      BY <1>1, <3>1, <3>2 DEF TypeOK
    <3>3. CASE x = e /\ d # c
      <4>1. d \in live'[e] <=> d \in live[e]
        BY <3>3 DEF TypeOK
      <4> QED
        BY <1>1, <1>2, <3>1, <3>3, <4>1
    <3>4. CASE x = e /\ d = c /\ done
      <4>1. d \notin live'[e]
        BY <3>4 DEF TypeOK
      <4>2. \A p \in outPaths'[e] : p.ctx # c
        BY <1>1, <3>4 DEF PathsOfCtx
      <4> QED
        BY <3>4, <4>1, <4>2
    <3>5. CASE x = e /\ d = c /\ ~done
      <4>1. d \in live'[e] <=> d \in live[e]
        BY <3>5 DEF TypeOK
      <4>2. PICK r \in PathsOfCtx(e, c) : r \notin gone
        BY <3>5
      <4>3. r \in outPaths'[e] /\ r \in outPaths[e] /\ r.ctx = c
        BY <1>1, <4>2 DEF PathsOfCtx
      <4>4. \A p \in outPaths[e] : p.ctx = c => p.handler = r.handler
        BY <4>3, SenderOfPath DEF Tables
      <4> QED
        BY <1>1, <3>1, <3>5, <4>1, <4>3, <4>4
    <3> QED
      BY <3>2, <3>3, <3>4, <3>5
  <2>2. ASSUME NEW x \in Ext
        PROVE  live'[x] \subseteq Ctx /\ \A p \in outPaths'[x] : p.ctx \in Ctx
    BY <1>1, OutPathFields DEF TypeOK
  <2> QED
    BY <2>1, <2>2 DEF HandlerContexts
<1> QED
  BY <1>3, <1>6, <1>7 DEF Tables

\* Paths and members that have each other's ids have the same ids.
LEMMA SameIds ==
    ASSUME NEW P, NEW m,
           \A r \in P : \E j \in DOMAIN m : r.id = m[j].id,
           \A j \in DOMAIN m : \E r \in P : r.id = m[j].id
    PROVE  {r.id : r \in P} = {m[j].id : j \in DOMAIN m}
<1>1. ASSUME NEW i \in {r.id : r \in P}
      PROVE  i \in {m[j].id : j \in DOMAIN m}
  <2>1. PICK r \in P : i = r.id
    BY <1>1
  <2>2. PICK j \in DOMAIN m : r.id = m[j].id
    BY <2>1
  <2> QED
    BY <2>1, <2>2
<1>2. ASSUME NEW i \in {m[j].id : j \in DOMAIN m}
      PROVE  i \in {r.id : r \in P}
  <2>1. PICK j \in DOMAIN m : i = m[j].id
    BY <1>2
  <2>2. PICK r \in P : r.id = m[j].id
    BY <2>1
  <2> QED
    BY <2>1, <2>2
<1> QED
  BY <1>1, <1>2

\* The paths of a decided group that go, and what is left of the group.
LEMMA DecidedTables ==
    ASSUME TypeOK, Tables, NEW e \in Ext, NEW c \in Ctx, NEW g \in Seq(Member),
           g # <<>>, Matches(g, PathsOfCtx(e, c)), NEW q \in PathsOfCtx(e, c),
           q.id = g[Resolve(Policy[e], g)].id
    PROVE  LET rest == LeftInGroup(Policy[e], g, Resolve(Policy[e], g))
               kept == PathsOfCtx(e, c) \ Decided(e, q, g)
           IN  /\ Decided(e, q, g) \in SUBSET PathsOfCtx(e, c)
               /\ rest \in Seq(Member)
               /\ rest = <<>> <=> kept = {}
               /\ rest # <<>> => Agrees(rest, kept)
<1> DEFINE w == Resolve(Policy[e], g)
           rest == LeftInGroup(Policy[e], g, w)
           P == PathsOfCtx(e, c)
           kept == P \ Decided(e, q, g)
           n == Len(g)
<1>0. n \in Nat \ {0} /\ DOMAIN g = 1 .. n
  OBVIOUS
<1>1. rest \in Seq(Member)
  BY GraphAssumption, LeftInGroupType
<1>2. q.ctx = c /\ q \in outPaths[e]
  BY DEF PathsOfCtx
<1>3. CASE Policy[e] # "each_ok_and_error"
  <2>1. rest = <<>>
    BY <1>3 DEF LeftInGroup
  <2>2. Decided(e, q, g) = {r \in P : \E j \in DOMAIN g : g[j].id = r.id}
    BY <1>2, <1>3 DEF Decided
  <2>3. \A r \in P : \E j \in DOMAIN g : g[j].id = r.id
    BY DEF Matches
  <2>4. Decided(e, q, g) = P
    BY <2>2, <2>3
  <2> QED
    BY <1>1, <2>1, <2>4
<1>4. CASE Policy[e] = "each_ok_and_error"
  <2>1. w = n /\ n \in 1 .. n
    BY <1>0, <1>4 DEF Resolve
  <2>2. rest = RemoveAt(g, n) /\ Decided(e, q, g) = {q}
    BY <1>4, <2>1 DEF LeftInGroup, Decided
  <2>3. /\ Len(RemoveAt(g, n)) = n - 1
        /\ \A j \in 1 .. n - 1 :
             RemoveAt(g, n)[j] = IF j < n THEN g[j] ELSE g[j + 1]
    BY <2>1, RemoveAtType, Zenon
  <2>4. rest \in Seq(Member) /\ Len(rest) = n - 1 /\ DOMAIN rest = 1 .. n - 1
    BY <1>0, <1>1, <2>2, <2>3
  <2>5. \A j \in 1 .. n - 1 : rest[j] = g[j]
    BY <1>0, <2>2, <2>3
  <2>6. q.id = g[n].id
    BY <2>1
  <2>7. kept = P \ {q}
    BY <2>2
  <2> HIDE DEF rest, kept, n, w
  <2>8. \A j \in 1 .. n - 1 : j \in 1 .. n /\ j # n
    BY <1>0
  <2>9. \A j \in 1 .. n : j # n => j \in 1 .. n - 1
    BY <1>0
  <2>10. \A i, j \in 1 .. n : g[i].id = g[j].id => i = j
    BY <1>0 DEF Matches
  <2>11. \A r \in P : r.id = q.id => r = q
    BY <1>2 DEF Tables, PathsOfSender, PathsOfCtx
  <2>12. \A j \in 1 .. n : \E r \in P : r.id = g[j].id
    BY <1>0, MatchesIds DEF n
  <2>13. \A r \in P : \E j \in 1 .. n : r.id = g[j].id
    BY <1>0, MatchesIds DEF n
  <2>14. ASSUME NEW r \in kept
         PROVE  \E j \in 1 .. n - 1 : r.id = rest[j].id
    <3>1. PICK j \in 1 .. n : r.id = g[j].id
      BY <2>7, <2>13
    <3>2. j # n
      BY <2>6, <2>7, <2>11, <3>1
    <3> QED
      BY <2>5, <2>9, <3>1, <3>2
  <2>15. ASSUME NEW j \in 1 .. n - 1
         PROVE  \E r \in kept : r.id = rest[j].id
    <3>1. PICK r \in P : r.id = g[j].id
      BY <2>8, <2>12
    <3>2. r # q
      BY <1>0, <2>6, <2>8, <2>10, <3>1
    <3> QED
      BY <2>5, <2>7, <3>1, <3>2
  <2>16. Matches(rest, kept)
    <3>1. \A i, j \in DOMAIN rest : rest[i].id = rest[j].id => i = j
      BY <2>4, <2>5, <2>8, <2>10
    <3>2. \A r \in kept : \E j \in DOMAIN rest : r.id = rest[j].id
      BY <2>4, <2>14
    <3>3. \A j \in DOMAIN rest : \E r \in kept : r.id = rest[j].id
      BY <2>4, <2>15
    <3> QED
      BY <3>1, <3>2, <3>3, SameIds DEF Matches
  <2>17. rest = <<>> <=> 1 .. n - 1 = {}
    BY <2>4
  <2>18. kept = {} <=> 1 .. n - 1 = {}
    BY <2>14, <2>15
  <2>19. Decided(e, q, g) \in SUBSET P
    BY <2>2
  <2> QED
    BY <1>1, <2>16, <2>17, <2>18, <2>19 DEF Agrees, rest, kept, w
<1> QED
  BY <1>3, <1>4

\* A step that changes no OUT path, group or context keeps the tables.
LEMMA TablesUnchanged ==
    ASSUME Tables, UNCHANGED <<outPaths, group, live, sent>>
    PROVE  Tables'
<1>1. PathsOfSender'
  BY DEF Tables, PathsOfSender
<1>2. HandlerContexts'
  BY DEF Tables, HandlerContexts
<1>3. GroupsMatchTable'
  <2>1. ASSUME NEW x \in Ext, NEW d \in Ctx, PathsOfCtx(x, d)' # {}
        PROVE  Agrees(group'[d], PathsOfCtx(x, d)')
    <3>1. PathsOfCtx(x, d)' = PathsOfCtx(x, d) /\ group'[d] = group[d]
      BY DEF PathsOfCtx
    <3>2. Agrees(group[d], PathsOfCtx(x, d))
      BY <2>1, <3>1, GroupsAgree DEF Tables
    <3> QED
      BY <3>1, <3>2
  <2> QED
    BY <2>1 DEF GroupsMatchTable, Agrees, Matches
<1> QED
  BY <1>1, <1>2, <1>3 DEF Tables

\* Whatever result an extension takes, its tables stay in order.
LEMMA TakeResultTables ==
    ASSUME TypeOK, Tables, NEW e \in Ext, NEW m \in ResultMsg, NEW left,
           TakeResult(e, m, left), UNCHANGED sent
    PROVE  Tables'
<1>0. m.ok \in BOOLEAN /\ m.final \in BOOLEAN
  BY DEF ResultMsg
<1>1. CASE UNCHANGED <<outPaths, group, live>>
  BY <1>1, TablesUnchanged
<1>2. ASSUME NEW p \in FirstOutPath(e, m.id)
      PROVE  /\ p \in outPaths[e] /\ p \in OutPath /\ p.ctx \in Ctx
             /\ p \in PathsOfCtx(e, p.ctx)
             /\ group[p.ctx] \in Seq(Member)
             /\ Agrees(group[p.ctx], PathsOfCtx(e, p.ctx))
  <2>1. p \in outPaths[e] /\ p \in OutPath
    BY DEF FirstOutPath, Oldest, TypeOK
  <2>2. p.ctx \in Ctx /\ p \in PathsOfCtx(e, p.ctx)
    BY <2>1, OutPathFields DEF PathsOfCtx
  <2> QED
    BY <2>1, <2>2, GroupsAgree DEF Tables, TypeOK
<1>3. ASSUME NEW p \in FirstOutPath(e, m.id), DecideSingle(e, p, m.ok, m.final, left)
      PROVE  Tables'
  <2> DEFINE gone == IF m.final THEN {p} ELSE {}
  <2>1. /\ group[p.ctx] = <<>>
        /\ outPaths' = [outPaths EXCEPT ![e] = @ \ gone]
        /\ group' = group
        /\ live' = [live EXCEPT ![e] = IF m.final THEN @ \ {p.ctx} ELSE @]
    BY <1>3 DEF DecideSingle, Deliver, TypeOK
  <2>2. group' = [group EXCEPT ![p.ctx] = <<>>]
    BY <1>2, <2>1 DEF TypeOK
  <2>3. PathsOfCtx(e, p.ctx) = {p}
    <3>1. \A r, q \in PathsOfCtx(e, p.ctx) : r = q
      BY <1>2, <2>1 DEF Agrees
    <3> QED
      BY <1>2, <3>1
  <2>4. gone \in SUBSET PathsOfCtx(e, p.ctx)
    BY <2>3
  <2>5. m.final <=> PathsOfCtx(e, p.ctx) \ gone = {}
    BY <1>0, <2>3
  <2>6. Agrees(<<>>, PathsOfCtx(e, p.ctx) \ gone)
    BY <2>3 DEF Agrees
  <2>7. <<>> \in Seq(Member) /\ PathsOfCtx(e, p.ctx) # {}
    BY <2>3
  <2> QED
    BY <1>0, <1>2, <2>1, <2>2, <2>4, <2>5, <2>6, <2>7, SettleTables
<1>4. ASSUME NEW p \in FirstOutPath(e, m.id), KeepInGroup(e, p, m.ok, left)
      PROVE  Tables'
  <2>1. PICK k \in DOMAIN group[p.ctx] :
           /\ group' = [group EXCEPT ![p.ctx] = Answered(group[p.ctx], k, m.ok)]
           /\ UNCHANGED <<outPaths, live>>
    BY <1>4 DEF KeepInGroup
  <2> DEFINE g == Answered(group[p.ctx], k, m.ok)
             P == PathsOfCtx(e, p.ctx)
  <2>2. group[p.ctx] # <<>> /\ Matches(group[p.ctx], P)
    <3>1. group[p.ctx] # <<>>
      BY <2>1
    <3> QED
      BY <1>2, <3>1 DEF Agrees
  <2>3. g \in Seq(Member) /\ Len(g) # 0
    <3>1. /\ Answered(group[p.ctx], k, m.ok) \in Seq(Member)
          /\ Len(Answered(group[p.ctx], k, m.ok)) = Len(group[p.ctx])
          /\ Len(group[p.ctx]) \in Nat \ {0}
      BY <1>0, <1>2, AnsweredType, Zenon
    <3> QED
      BY <3>1
  <2>4. Matches(g, P)
    BY <1>0, <1>2, <2>2, AnsweredMatches
  <2> HIDE DEF g
  <2>5. g # <<>>
    BY <2>3
  <2>6. Agrees(g, P \ {}) /\ P # {}
    BY <1>2, <2>4, <2>5 DEF Agrees
  <2>7. /\ outPaths' = [outPaths EXCEPT ![e] = @ \ {}]
        /\ live' = [live EXCEPT ![e] = IF FALSE THEN @ \ {p.ctx} ELSE @]
        /\ group' = [group EXCEPT ![p.ctx] = g]
    BY <2>1 DEF TypeOK, g
  <2> HIDE DEF P
  <2>8. {} \in SUBSET P /\ ~(P \ {} = {}) /\ FALSE \in BOOLEAN
    BY <2>6
  <2> QED
    BY <1>2, <2>3, <2>6, <2>7, <2>8, SettleTables DEF P
<1>5. ASSUME NEW p \in FirstOutPath(e, m.id), DecideGroup(e, p, m.ok, left)
      PROVE  Tables'
  <2> DEFINE g(k) == Answered(group[p.ctx], k, m.ok)
             w(k) == Resolve(Policy[e], g(k))
             rest(k) == LeftInGroup(Policy[e], g(k), w(k))
             P == PathsOfCtx(e, p.ctx)
  <2>1. PICK k \in DOMAIN group[p.ctx], q \in P :
           /\ q.id = g(k)[w(k)].id
           /\ group' = [group EXCEPT ![p.ctx] = rest(k)]
           /\ outPaths' = [outPaths EXCEPT ![e] = @ \ Decided(e, q, g(k))]
           /\ Deliver(e, q, g(k)[w(k)].cached = "ok", TRUE, rest(k) = <<>>, left)
    BY <1>5 DEF DecideGroup
  <2>2. group[p.ctx] # <<>> /\ Matches(group[p.ctx], P)
    <3>1. group[p.ctx] # <<>>
      BY <2>1
    <3> QED
      BY <1>2, <3>1 DEF Agrees
  <2>3. /\ Answered(group[p.ctx], k, m.ok) \in Seq(Member)
        /\ Len(Answered(group[p.ctx], k, m.ok)) = Len(group[p.ctx])
        /\ Len(group[p.ctx]) \in Nat \ {0}
    BY <1>0, <1>2, AnsweredType, Zenon
  <2>4. g(k) \in Seq(Member) /\ Len(g(k)) # 0
    BY <2>3
  <2>5. Matches(g(k), P)
    BY <1>0, <1>2, <2>2, AnsweredMatches
  <2>6. q.ctx = p.ctx
    BY DEF PathsOfCtx
  <2>7. live' = [live EXCEPT ![e] = IF rest(k) = <<>> THEN @ \ {p.ctx} ELSE @]
    BY <2>1, <2>6 DEF Deliver
  <2> DEFINE done == rest(k) = <<>>
  <2> HIDE DEF g
  <2>8. g(k) # <<>>
    BY <2>4
  <2>9. /\ Decided(e, q, g(k)) \in SUBSET P
        /\ rest(k) \in Seq(Member)
        /\ done <=> P \ Decided(e, q, g(k)) = {}
        /\ ~done => Agrees(rest(k), P \ Decided(e, q, g(k)))
    BY <1>2, <2>1, <2>4, <2>5, <2>8, DecidedTables
  <2>10. P # {} /\ done \in BOOLEAN
    BY <1>2
  <2> HIDE DEF rest, w
  <2> QED
    BY <1>2, <2>1, <2>7, <2>9, <2>10, SettleTables
<1> QED
  BY <1>1, <1>3, <1>4, <1>5 DEF TakeResult, pathVars

\* A send call leaves the tables in order.
LEMMA LaunchTables ==
    ASSUME TypeOK, Tables, NEW e \in Ext, NEW i \in Id,
           NEW handler \in HandlerKinds, NEW fresh \in 1 .. MaxId + 1, i < fresh,
           Launch(e, i, handler, fresh)
    PROVE  Tables'
<1> DEFINE dests  == Route[e]
           n      == Len(dests)
           call   == Len(sent) + 1
           rec    == [by |-> e, handler |-> handler]
           pid(k) == IF k = 1 THEN i ELSE fresh + (k - 2)
           new(k) == [id |-> pid(k), orig |-> IF k = 1 THEN NoId ELSE i,
                      handler |-> handler, ctx |-> call]
           mem(k) == [id |-> pid(k), cached |-> "none"]
           made   == {new(k) : k \in DOMAIN dests}
           members == IF n > 1 THEN [k \in DOMAIN dests |-> mem(k)] ELSE <<>>
<1>1. /\ dests \in Seq(Ext) /\ DOMAIN dests = 1 .. n /\ n \in Nat
      /\ dests # <<>> => n # 0
  BY GraphAssumption
<1>2. /\ dests # <<>>
      /\ call \in Ctx
      /\ fresh + (n - 2) <= MaxId
      /\ sent' = Append(sent, rec)
      /\ outPaths' = [outPaths EXCEPT ![e] = @ \cup made]
      /\ group' = [group EXCEPT ![call] = members]
      /\ live' = [live EXCEPT ![e] = IF handler = "none" THEN @ ELSE @ \cup {call}]
  BY DEF Launch
<1>3. Len(sent) \in Nat /\ \A k \in 1 .. Len(sent) : k # call
  BY DEF TypeOK
<1>4. /\ Len(sent') = call /\ sent'[call] = rec
      /\ \A k \in 1 .. Len(sent) : sent'[k] = sent[k]
  BY <1>2 DEF TypeOK
<1>5. \A k \in DOMAIN dests : pid(k) \in Id
  <2>1. ASSUME NEW k \in DOMAIN dests
        PROVE  pid(k) \in Id
    <3>1. k \in 1 .. n /\ fresh + (n - 2) <= MaxId
      BY <1>1, <1>2
    <3> QED
      BY <1>1, <3>1, LaunchIds, Zenon
  <2> QED
    BY <2>1
<1>6. \A j, k \in DOMAIN dests : pid(j) = pid(k) => j = k
  BY <1>1 DEF Id
<1> HIDE DEF pid, dests, n, rec
<1>7. \A k \in DOMAIN dests : /\ new(k).ctx = call /\ new(k).id = pid(k)
                              /\ new(k).handler = handler
  OBVIOUS
<1>8. \A j, k \in DOMAIN dests : new(j).id = new(k).id => j = k
  BY <1>6, <1>7
<1>9. \A x \in Ext : \A p \in outPaths[x] : p.ctx \in 1 .. Len(sent) /\ p.ctx # call
  <2>1. ASSUME NEW x \in Ext, NEW p \in outPaths[x]
        PROVE  p.ctx \in 1 .. Len(sent) /\ p.ctx # call
    <3>1. p.ctx \in Ctx
      BY OutPathFields DEF TypeOK
    <3>2. p.ctx <= Len(sent)
      BY SenderOfPath DEF Tables
    <3> QED
      BY <1>3, <3>1, <3>2, BoundAssumption DEF Ctx
  <2> QED
    BY <2>1
<1> HIDE DEF new, call
<1>10. ASSUME NEW x \in Ext, NEW p
       PROVE  p \in outPaths'[x] <=>
                \/ p \in outPaths[x]
                \/ x = e /\ \E k \in DOMAIN dests : p = new(k)
  BY <1>2 DEF TypeOK
<1> HIDE DEF made
<1>11. PathsOfSender'
  <2>1. ASSUME NEW x \in Ext, NEW p \in outPaths[x]
        PROVE  /\ p.ctx <= Len(sent')
               /\ sent'[p.ctx] = [by |-> x, handler |-> p.handler]
               /\ \A q \in outPaths'[x] : q.ctx = p.ctx /\ q.id = p.id => q = p
    <3>1. sent'[p.ctx] = sent[p.ctx] /\ p.ctx <= Len(sent')
      BY <1>3, <1>4, <1>9 DEF call
    <3>2. \A q \in outPaths'[x] : q.ctx = p.ctx => q \in outPaths[x]
      BY <1>7, <1>9, <1>10
    <3> QED
      BY <3>1, <3>2 DEF Tables, PathsOfSender
  <2>2. ASSUME NEW k \in DOMAIN dests
        PROVE  /\ new(k).ctx <= Len(sent')
               /\ sent'[new(k).ctx] = [by |-> e, handler |-> new(k).handler]
               /\ \A q \in outPaths'[e] : q.ctx = new(k).ctx /\ q.id = new(k).id
                                          => q = new(k)
    <3>1. new(k).ctx <= Len(sent') /\ sent'[new(k).ctx] = rec
      BY <1>3, <1>4, <1>7 DEF call
    <3>2. \A q \in outPaths'[e] : q.ctx = new(k).ctx => \E j \in DOMAIN dests : q = new(j)
      BY <1>7, <1>9, <1>10
    <3> QED
      BY <1>7, <1>8, <3>1, <3>2 DEF rec
  <2>3. ASSUME NEW x \in Ext, NEW p \in outPaths'[x]
        PROVE  /\ p.ctx <= Len(sent')
               /\ sent'[p.ctx] = [by |-> x, handler |-> p.handler]
               /\ \A q \in outPaths'[x] : q.ctx = p.ctx /\ q.id = p.id => q = p
    BY <1>10, <2>1, <2>2
  <2> QED
    BY <2>3 DEF PathsOfSender
<1>12. HandlerContexts'
  <2>1. ASSUME NEW x \in Ext, NEW d \in Ctx
        PROVE  d \in live'[x] <=> \E p \in outPaths'[x] : p.handler # "none" /\ p.ctx = d
    <3>1. d \in live[x] <=> \E p \in outPaths[x] : p.handler # "none" /\ p.ctx = d
      BY DEF Tables, HandlerContexts
    <3>2. CASE x # e
      BY <1>2, <1>10, <3>1, <3>2 DEF TypeOK
    <3>3. CASE x = e /\ handler = "none"
      <4>1. live'[e] = live[e]
        BY <1>2, <3>3 DEF TypeOK
      <4> QED
        BY <1>7, <1>10, <3>1, <3>3, <4>1
    <3>4. CASE x = e /\ handler # "none"
      <4>1. live'[e] = live[e] \cup {call}
        BY <1>2, <3>4 DEF TypeOK
      <4>2. 1 \in DOMAIN dests
        BY <1>1, <1>2
      <4> QED
        BY <1>7, <1>10, <3>1, <3>4, <4>1, <4>2
    <3> QED
      BY <3>2, <3>3, <3>4
  <2>2. ASSUME NEW x \in Ext
        PROVE  live'[x] \subseteq Ctx /\ \A p \in outPaths'[x] : p.ctx \in Ctx
    <3>1. live'[x] \subseteq Ctx
      BY <1>2 DEF TypeOK
    <3>2. \A p \in outPaths'[x] : p.ctx \in Ctx
      BY <1>2, <1>7, <1>10, OutPathFields DEF TypeOK
    <3> QED
      BY <3>1, <3>2
  <2> QED
    BY <2>1, <2>2 DEF HandlerContexts
<1>13. GroupsMatchTable'
  <2>1. ASSUME NEW x \in Ext, NEW d \in Ctx, PathsOfCtx(x, d)' # {}
        PROVE  Agrees(group'[d], PathsOfCtx(x, d)')
    <3>1. CASE d # call
      <4>1. PathsOfCtx(x, d)' = PathsOfCtx(x, d)
        BY <1>7, <1>10, <3>1 DEF PathsOfCtx
      <4>2. group'[d] = group[d]
        BY <1>2, <3>1 DEF TypeOK
      <4> QED
        BY <2>1, <4>1, <4>2, GroupsAgree DEF Tables
    <3>2. CASE d = call
      <4>1. x = e /\ PathsOfCtx(e, d)' = {new(k) : k \in DOMAIN dests}
        BY <1>7, <1>9, <1>10, <2>1, <3>2 DEF PathsOfCtx
      <4>2. group'[call] = members
        BY <1>2 DEF TypeOK
      <4>3. CASE n > 1
        <5>1. /\ members = [k \in DOMAIN dests |-> mem(k)]
              /\ DOMAIN members = DOMAIN dests /\ 1 \in DOMAIN members
          BY <1>1, <4>3
        <5>2. \A k \in DOMAIN dests : members[k].id = new(k).id
          BY <1>7, <5>1
        <5>3. members # <<>>
          BY <5>1
        <5> HIDE DEF members
        <5>4. \A j, k \in DOMAIN members : members[j].id = members[k].id => j = k
          BY <1>8, <5>1, <5>2
        <5>5. {p.id : p \in {new(k) : k \in DOMAIN dests}}
                = {members[k].id : k \in DOMAIN members}
          BY <5>1, <5>2
        <5>6. Matches(members, {new(k) : k \in DOMAIN dests})
          BY <5>4, <5>5 DEF Matches
        <5>7. Agrees(members, {new(k) : k \in DOMAIN dests})
          BY <5>3, <5>6 DEF Agrees
        <5>8. x = e /\ group'[d] = members
          BY <3>2, <4>1, <4>2
        <5> QED
          BY <4>1, <5>7, <5>8
      <4>4. CASE ~(n > 1)
        <5>1. \A j, k \in DOMAIN dests : j = k
          BY <1>1, <4>4
        <5>2. members = <<>>
          BY <4>4
        <5>3. \A p, q \in PathsOfCtx(e, d)' : p = q
          BY <4>1, <5>1
        <5> QED
          BY <3>2, <4>1, <4>2, <5>2, <5>3 DEF Agrees
      <4> QED
        BY <4>3, <4>4
    <3> QED
      BY <3>1, <3>2
  <2> QED
    BY <2>1 DEF GroupsMatchTable, Agrees, Matches
<1> QED
  BY <1>11, <1>12, <1>13 DEF Tables

\* Handling a message leaves the tables related.
LEMMA HandleInMsgTables ==
    ASSUME TypeOK, Tables, NEW e \in Ext, NEW m \in Msg, NEW left,
           HandleInMsg(e, m, left), UNCHANGED sent
    PROVE  Tables'
<1>1. CASE UNCHANGED <<outPaths, group, live>>
  BY <1>1, TablesUnchanged
<1>2. CASE m.kind = "result" /\ TakeResult(e, m, left)
  <2>1. m \in ResultMsg
    BY <1>2, MsgFields
  <2> QED
    BY <1>2, <2>1, TakeResultTables
<1> QED
  BY <1>1, <1>2 DEF HandleInMsg, pathVars

\* Initially the tables are empty and related.
LEMMA TablesInit == Init => Tables
<1> SUFFICES ASSUME Init PROVE Tables
  OBVIOUS
<1>1. PathsOfSender
  BY DEF Init, PathsOfSender
<1>2. HandlerContexts
  BY DEF Init, HandlerContexts
<1>3. GroupsMatchTable
  BY DEF Init, GroupsMatchTable, PathsOfCtx
<1> QED
  BY <1>1, <1>2, <1>3 DEF Tables

\* Every step keeps the tables related.
LEMMA TablesStep == TypeOK /\ IdsIssued /\ Tables /\ [Next]_vars => Tables'
<1> SUFFICES ASSUME TypeOK, IdsIssued, Tables, [Next]_vars PROVE Tables'
  OBVIOUS
<1>1. ASSUME NEW t \in Thread, HandleDirect(t)
      PROVE  Tables'
  <2> DEFINE m == Head(direct[t])
  <2>1. m \in Msg
    BY <1>1, MsgLists DEF HandleDirect, TypeOK
  <2>2. m.dst \in Ext
    BY <2>1, MsgFields
  <2>3. HandleInMsg(m.dst, m, Tail(direct[t])) /\ UNCHANGED sent
    BY <1>1 DEF HandleDirect
  <2> HIDE DEF m
  <2> QED
    BY <2>1, <2>2, <2>3, HandleInMsgTables
<1>2. ASSUME NEW t \in Thread, Receive(t)
      PROVE  Tables'
  <2> DEFINE m == Head(queue[t])
  <2>1. m \in Msg \cup {CloseTask} /\ UNCHANGED sent
    BY <1>2 DEF Receive, TypeOK
  <2>2. CASE m.kind # "close" /\ HandleInMsg(m.dst, m, <<>>)
    <3>1. m \in Msg
      BY <2>1, <2>2 DEF CloseTask
    <3>2. m.dst \in Ext
      BY <3>1, MsgFields
    <3> HIDE DEF m
    <3> QED
      BY <2>1, <2>2, <3>1, <3>2, HandleInMsgTables
  <2>3. CASE UNCHANGED <<pathVars, live>>
    BY <2>1, <2>3, TablesUnchanged DEF pathVars
  <2> QED
    BY <1>2, <2>2, <2>3 DEF Receive
<1>3. ASSUME NEW e \in Ext, NEW h \in Handlers, Send(e, h)
      PROVE  Tables'
  <2>1. /\ nextId \in Id /\ nextId + 1 \in 1 .. MaxId + 1 /\ h \in HandlerKinds
        /\ nextId < nextId + 1
    BY <1>3, ActorsAssumption, BoundAssumption DEF Send, Id
  <2>2. Launch(e, nextId, h, nextId + 1)
    BY <1>3 DEF Send
  <2> QED
    BY <2>1, <2>2, LaunchTables
<1>4. ASSUME NEW e \in Ext, NEW i \in held[e], NEW h \in Handlers, Forward(e, i, h)
      PROVE  Tables'
  <2>1. i \in Id /\ nextId \in 1 .. MaxId + 1 /\ h \in HandlerKinds
    BY ActorsAssumption DEF TypeOK
  <2>2. i < nextId
    BY <2>1 DEF IdsIssued
  <2>3. Launch(e, i, h, nextId)
    BY <1>4 DEF Forward
  <2> QED
    BY <2>1, <2>2, <2>3, LaunchTables
<1>5. ASSUME NEW e \in Ext, NEW p \in outPaths[e], OutPathTimeout(e, p)
      PROVE  Tables'
  <2>1. MadeUpResult(e, p) \in ResultMsg
    BY OutPathFields, ResultIsMsg DEF MadeUpResult, TypeOK
  <2> QED
    BY <1>5, <2>1, TakeResultTables DEF OutPathTimeout
<1>6. ASSUME NEW e \in Ext, FlushOne(e)
      PROVE  Tables'
  <2>1. PICK p \in OutPath : TakeResult(e, MadeUpResult(e, p), <<>>)
    BY <1>6 DEF FlushOne, Oldest, TypeOK
  <2>2. MadeUpResult(e, p) \in ResultMsg
    BY OutPathFields, ResultIsMsg DEF MadeUpResult
  <2> QED
    BY <1>6, <2>1, <2>2, TakeResultTables DEF FlushOne
<1>7. CASE \/ EngineDispatch \/ EngineClose \/ CloseThreads
           \/ \E t \in Thread : DispatchLeft(t)
           \/ UNCHANGED vars
  BY <1>7, TablesUnchanged DEF EngineDispatch, EngineClose, CloseThreads,
                               DispatchLeft, vars, pathVars
<1>8. ASSUME NEW e \in Ext,
             \/ \E i \in held[e] : \/ \E ok \in BOOLEAN : ReturnResult(e, i, ok)
                                   \/ ReturnPartial(e, i)
             \/ ReceivePending(e)
             \/ \E p \in inPaths[e] : InPathTimeout(e, p)
             \/ StartDone(e) \/ StopDone(e) \/ TimersClosed(e)
             \/ Deinit(e) \/ DeinitDone(e)
      PROVE  Tables'
  <2>1. UNCHANGED <<outPaths, group, live, sent>>
    BY <1>8 DEF ReturnResult, ReturnPartial, ReceivePending, InPathTimeout, StartDone,
                StopDone, TimersClosed, Deinit, DeinitDone, pathVars
  <2> QED
    BY <2>1, TablesUnchanged
<1> QED
  BY <1>1, <1>2, <1>3, <1>4, <1>5, <1>6, <1>7, <1>8 DEF Next

-----------------------------------------------------------------------------
IInv == TypeOK /\ PathInv

\* The inductive invariant of the tables: paths, groups, contexts and messages
\* stay related as PathInv says through every send, result, timeout and flush
\* (path/path_table.c, path/path_group.c, extension/msg_handling.c).
THEOREM PathInvariant == Spec => []IInv
<1>1. Init => IInv
  BY TypeInit, IssuedInit, TablesInit DEF IInv, PathInv, Tables
<1>2. IInv /\ [Next]_vars => IInv'
  BY TypeStep, IssuedStep, TablesStep DEF IInv, PathInv, Tables
<1> QED
  BY <1>1, <1>2, PTL DEF Spec

\* No handler context leaks and none is used after it is freed: a context is
\* allocated exactly as long as an OUT path of its send call remains.
THEOREM ContextsSafe == Spec => []HandlerContexts
<1>1. IInv => HandlerContexts
  BY DEF IInv, PathInv
<1> QED
  BY <1>1, PathInvariant, PTL

\* The members of every path group are the OUT paths of its send call, so the
\* lookups the runtime asserts to succeed do succeed.
THEOREM GroupsSafe == Spec => []GroupsMatchTable
<1>1. IInv => GroupsMatchTable
  BY DEF IInv, PathInv
<1> QED
  BY <1>1, PathInvariant, PTL

-----------------------------------------------------------------------------
\* Extensions that close.  Their tables are empty and every handler was called
\* before on_deinit, and CmdFlow implements ResultPromise, provided that their
\* code sends nothing from a handler that a flush calls, nor from on_deinit.

\* The extensions send commands only until the flush begins.
SendsInTime == SendStates \cap {"flushing", "deinit", "deleted"} = {}

-----------------------------------------------------------------------------
\* What a step of one extension leaves alone.

\* The messages a thread has for itself.
HomeMsg(t) == {m \in Msg : ThreadOf[m.dst] = t}

\* A runloop has messages for the extensions of its thread only.
MsgsHome == \A t \in Thread : queue[t] \in Seq(HomeMsg(t) \cup {CloseTask})

\* A thread that dispatches changes its own list only, and with nothing to
\* dispatch it leaves the list empty.
LEMMA EmitLocal ==
    ASSUME TypeOK, NEW t \in Thread, NEW msgs \in Seq(Msg), NEW left \in Seq(Msg),
           Emit(t, msgs, left)
    PROVE  /\ \A u \in Thread : u # t => direct'[u] = direct[u]
           /\ msgs = <<>> /\ left = <<>> => direct'[t] = <<>>
<1> DEFINE all == msgs \o left
<1>1. /\ all \in Seq(Msg) /\ Len(all) = Len(msgs) + Len(left)
      /\ msgs = <<>> /\ left = <<>> => Len(all) = 0
  OBVIOUS
<1>2. PICK n \in 0 .. Len(msgs) :
         direct' = [direct EXCEPT ![t] = SubSeq(all, n + 1, Len(all))]
  BY DEF Emit
<1> HIDE DEF all
<1> DEFINE v == SubSeq(all, n + 1, Len(all))
<1>3. /\ v \in Seq(Msg)
      /\ Len(v) = IF n + 1 <= Len(all) THEN Len(all) - (n + 1) + 1 ELSE 0
  <2>1. n \in Nat /\ Len(all) \in Nat /\ n <= Len(all)
    BY <1>1, <1>2
  <2> QED
    BY <1>1, <2>1
<1>4. direct' = [direct EXCEPT ![t] = v]
  BY <1>2 DEF v
<1>5. msgs = <<>> /\ left = <<>> => Len(v) = 0
  BY <1>1, <1>2, <1>3
<1> HIDE DEF v
<1>6. direct'[t] = v /\ \A u \in Thread : u # t => direct'[u] = direct[u]
  BY <1>4 DEF TypeOK
<1>7. msgs = <<>> /\ left = <<>> => v = <<>>
  BY <1>3, <1>5
<1> QED
  BY <1>6, <1>7

\* What the thread of e dispatches, with the IN paths of e that go.
Dispatched(e, left) ==
    /\ \A x \in Ext : x # e => inPaths'[x] = inPaths[x]
    /\ inPaths'[e] \subseteq inPaths[e]
    /\ \A u \in Thread : u # ThreadOf[e] => direct'[u] = direct[u]
    /\ inPaths[e] = {} /\ left = <<>> => direct'[ThreadOf[e]] = <<>>

\* A thread that dispatches nothing changes no other thread.
LEMMA NothingDispatched ==
    ASSUME TypeOK, NEW e \in Ext, NEW left \in Seq(Msg),
           Emit(ThreadOf[e], <<>>, left), UNCHANGED inPaths
    PROVE  Dispatched(e, left)
  BY EmitLocal, ThreadType, MsgLists DEF Dispatched

\* A result that is returned takes an IN path of its extension only.
LEMMA ReturnToLocal ==
    ASSUME TypeOK, NEW e \in Ext, NEW i \in Id, NEW ok \in BOOLEAN,
           NEW final \in BOOLEAN, NEW left \in Seq(Msg),
           ReturnTo(e, i, ok, final, left)
    PROVE  Dispatched(e, left)
<1>1. CASE Emit(ThreadOf[e], <<>>, left) /\ UNCHANGED inPaths
  BY <1>1, NothingDispatched
<1>2. ASSUME NEW p \in InPathsOf(e, i),
             inPaths' = IF final THEN [inPaths EXCEPT ![e] = @ \ {p}] ELSE inPaths,
             Emit(ThreadOf[e], <<Result(Reverted(p), p.ctx, p.src, ok, final)>>,
                  left)
      PROVE  Dispatched(e, left)
  <2>1. p \in InPath /\ p \in inPaths[e]
    BY DEF InPathsOf, TypeOK
  <2>2. Result(Reverted(p), p.ctx, p.src, ok, final) \in Msg
    BY <2>1, InPathFields, ResultIsMsg
  <2>3. /\ \A u \in Thread : u # ThreadOf[e] => direct'[u] = direct[u]
    BY <1>2, <2>2, EmitLocal, ThreadType, MsgLists
  <2>4. /\ \A x \in Ext : x # e => inPaths'[x] = inPaths[x]
        /\ inPaths'[e] \subseteq inPaths[e]
    BY <1>2 DEF TypeOK
  <2> QED
    BY <2>1, <2>3, <2>4 DEF Dispatched
<1> QED
  BY <1>1, <1>2 DEF ReturnTo

\* Handing a result to a handler dispatches on the extension's thread only.
LEMMA DeliverLocal ==
    ASSUME TypeOK, NEW e \in Ext, NEW p \in OutPath, NEW ok \in BOOLEAN,
           NEW final \in BOOLEAN, NEW completed, NEW left \in Seq(Msg),
           Deliver(e, p, ok, final, completed, left)
    PROVE  Dispatched(e, left)
<1>1. PICK seen \in BOOLEAN :
        \/ Emit(ThreadOf[e], <<>>, left) /\ UNCHANGED inPaths
        \/ ReturnTo(e, Reverted(p), seen, final, left)
  <2>1. \A x \in {ok} \cup (IF SchemaErrors THEN {FALSE} ELSE {}) : x \in BOOLEAN
    OBVIOUS
  <2> QED
    BY <2>1 DEF Deliver, Refused
<1>2. CASE Emit(ThreadOf[e], <<>>, left) /\ UNCHANGED inPaths
  BY <1>2, NothingDispatched
<1>3. CASE ReturnTo(e, Reverted(p), seen, final, left)
  BY <1>3, ReturnToLocal, OutPathFields
<1> QED
  BY <1>1, <1>2, <1>3

\* So does taking a result.
LEMMA TakeResultLocal ==
    ASSUME TypeOK, NEW e \in Ext, NEW m \in ResultMsg, NEW left \in Seq(Msg),
           TakeResult(e, m, left)
    PROVE  /\ Dispatched(e, left)
           /\ \A x \in Ext : x # e => outPaths'[x] = outPaths[x]
           /\ outPaths'[e] \subseteq outPaths[e]
<1>0. m.ok \in BOOLEAN /\ m.final \in BOOLEAN
  BY DEF ResultMsg
<1> DEFINE Goal == /\ Dispatched(e, left)
                   /\ \A x \in Ext : x # e => outPaths'[x] = outPaths[x]
                   /\ outPaths'[e] \subseteq outPaths[e]
<1>1. CASE Emit(ThreadOf[e], <<>>, left) /\ UNCHANGED <<inPaths, outPaths>>
  BY <1>1, NothingDispatched
<1>2. ASSUME NEW p \in FirstOutPath(e, m.id), DecideSingle(e, p, m.ok, m.final, left)
      PROVE  Goal
  <2>1. p \in OutPath
    BY DEF FirstOutPath, Oldest, TypeOK
  <2>2. Deliver(e, p, m.ok, m.final, m.final, left)
    BY <1>2 DEF DecideSingle
  <2>3. outPaths' = [outPaths EXCEPT ![e] = IF m.final THEN @ \ {p} ELSE @]
    BY <1>2 DEF DecideSingle
  <2>4. Dispatched(e, left)
    BY <1>0, <2>1, <2>2, DeliverLocal
  <2> QED
    BY <2>3, <2>4 DEF TypeOK
<1>3. ASSUME NEW p \in FirstOutPath(e, m.id), DecideGroup(e, p, m.ok, left)
      PROVE  Goal
  <2>1. PICK q \in PathsOfCtx(e, p.ctx) :
           /\ \E S : outPaths' = [outPaths EXCEPT ![e] = @ \ S]
           /\ \E ok \in BOOLEAN, done \in BOOLEAN : Deliver(e, q, ok, TRUE, done, left)
    BY <1>3 DEF DecideGroup
  <2>2. q \in OutPath
    BY DEF PathsOfCtx, TypeOK
  <2>3. Dispatched(e, left)
    BY <2>1, <2>2, DeliverLocal
  <2> QED
    BY <2>1, <2>3 DEF TypeOK
<1>4. ASSUME NEW p \in FirstOutPath(e, m.id), KeepInGroup(e, p, m.ok, left)
      PROVE  Goal
  BY <1>1, <1>4 DEF KeepInGroup
<1> QED
  BY <1>1, <1>2, <1>3, <1>4 DEF TakeResult, pathVars

-----------------------------------------------------------------------------
\* An error result always takes its path away.

\* A non-empty set of numbers has a least element.
LEMMA LeastNat ==
    ASSUME NEW T, T \subseteq Nat, T # {}
    PROVE  \E x \in T : \A y \in T : x <= y
<1>1. PICK x \in T : \A y \in T : ~ (<<y, x>> \in OpToRel(<, Nat))
  BY WFMin, NatLessThanWellFounded
<1>2. \A y \in T : ~(y < x)
  BY <1>1 DEF OpToRel
<1> QED
  BY <1>2

\* A group with an error is decided whatever the policy.
LEMMA ErrorDecides ==
    ASSUME NEW policy \in Policies, NEW m \in Seq(Member), NEW j \in DOMAIN m,
           m[j].cached = "error"
    PROVE  Resolve(policy, m) # 0
<1> DEFINE errors == {k \in DOMAIN m : m[k].cached = "error"}
<1>1. DOMAIN m = 1 .. Len(m) /\ Len(m) \in Nat /\ Len(m) # 0
  OBVIOUS
<1>2. CASE policy = "each_ok_and_error"
  BY <1>1, <1>2 DEF Resolve
<1>3. CASE policy # "each_ok_and_error"
  <2>1. errors # {} /\ errors \subseteq Nat
    BY <1>1
  <2>2. \E k \in errors : \A i \in errors : k <= i
    BY <2>1, LeastNat
  <2>3. Min(errors) \in errors
    BY <2>2 DEF Min
  <2>4. Resolve(policy, m) = Min(errors)
    BY <1>3, <2>1 DEF Resolve
  <2> QED
    BY <1>1, <2>3, <2>4
<1> QED
  BY <1>2, <1>3

\* The paths of an extension are ordered by send call and then by id.
Before(p, q) == \/ p.ctx < q.ctx
                \/ p.ctx = q.ctx /\ p.id <= q.id

\* An oldest path comes before all others.
LEMMA OldestFirst ==
    ASSUME NEW S, NEW p \in Oldest(S)
    PROVE  p \in S /\ \A q \in S : Before(p, q)
  BY DEF Oldest, Before

\* The made-up result of the oldest path takes that path away.
LEMMA MadeUpResultRemoves ==
    ASSUME TypeOK, Tables, NEW e \in Ext, NEW p \in OutPath,
           \A q \in outPaths[e] : Before(p, q), NEW left \in Seq(Msg),
           TakeResult(e, MadeUpResult(e, p), left)
    PROVE  p \notin outPaths'[e]
<1> DEFINE m == MadeUpResult(e, p)
<1>1. m \in ResultMsg /\ m.id = p.id /\ m.ok = FALSE /\ m.final = TRUE
  BY OutPathFields, ResultIsMsg DEF MadeUpResult, Result
<1> HIDE DEF m
<1>2. CASE p \notin outPaths[e]
  BY <1>1, <1>2, TakeResultLocal DEF m
<1>3. CASE p \in outPaths[e]
  <2>1. p \in FirstOutPath(e, p.id)
    BY <1>3 DEF FirstOutPath, Oldest, Before
  <2>2. ASSUME NEW r \in FirstOutPath(e, p.id)
        PROVE  r = p
    <3>1. r \in outPaths[e] /\ r.id = p.id
      BY DEF FirstOutPath, Oldest
    <3>2. r.ctx < p.ctx \/ r.ctx = p.ctx
      BY <1>3 DEF FirstOutPath, Oldest
    <3>3. Before(p, r) /\ r.ctx \in Int /\ p.ctx \in Int
      BY <3>1, OutPathFields DEF TypeOK, Ctx
    <3>4. r.ctx = p.ctx
      BY <3>2, <3>3 DEF Before
    <3> QED
      BY <1>3, <3>1, <3>4 DEF Tables, PathsOfSender
  <2>3. \/ DecideSingle(e, p, FALSE, TRUE, left)
        \/ KeepInGroup(e, p, FALSE, left)
        \/ DecideGroup(e, p, FALSE, left)
    <3>1. TakeResult(e, m, left) /\ FirstOutPath(e, m.id) # {}
      BY <1>1, <2>1 DEF m
    <3>2. PICK r \in FirstOutPath(e, m.id) :
             \/ DecideSingle(e, r, m.ok, m.final, left)
             \/ KeepInGroup(e, r, m.ok, left)
             \/ DecideGroup(e, r, m.ok, left)
      BY <3>1 DEF TakeResult
    <3>3. r = p
      BY <1>1, <2>2
    <3> QED
      BY <1>1, <3>2, <3>3
  <2>4. CASE DecideSingle(e, p, FALSE, TRUE, left)
    BY <2>4 DEF DecideSingle, TypeOK
  <2>5. p.ctx \in Ctx /\ group[p.ctx] \in Seq(Member) /\ Policy[e] \in Policies
    BY OutPathFields, GraphAssumption DEF TypeOK
  <2>6. ASSUME NEW k \in DOMAIN group[p.ctx], group[p.ctx][k].id = p.id
        PROVE  LET g == Answered(group[p.ctx], k, FALSE)
               IN  /\ g \in Seq(Member) /\ Len(g) \in DOMAIN g /\ Len(g) # 0
                   /\ g[Len(g)].id = p.id /\ g[Len(g)].cached = "error"
    <3> DEFINE g == Answered(group[p.ctx], k, FALSE)
               n == Len(group[p.ctx])
    <3>1. /\ g \in Seq(Member) /\ Len(g) = n /\ n \in Nat \ {0}
          /\ g[n] = [id |-> group[p.ctx][k].id, cached |-> Status(FALSE)]
      BY <2>5, AnsweredType, Zenon
    <3> HIDE DEF g
    <3>2. Len(g) \in DOMAIN g /\ Len(g) # 0
      BY <3>1
    <3>3. g[Len(g)].id = p.id /\ g[Len(g)].cached = "error"
      BY <2>6, <3>1 DEF Status
    <3> QED
      BY <3>1, <3>2, <3>3 DEF g
  <2>7. CASE KeepInGroup(e, p, FALSE, left)
    <3>1. PICK k \in DOMAIN group[p.ctx] :
             /\ group[p.ctx][k].id = p.id
             /\ Resolve(Policy[e], Answered(group[p.ctx], k, FALSE)) = 0
      BY <2>7 DEF KeepInGroup
    <3> QED
      BY <2>5, <2>6, <3>1, ErrorDecides
  <2>8. CASE DecideGroup(e, p, FALSE, left)
    <3> DEFINE g(k) == Answered(group[p.ctx], k, FALSE)
    <3>1. PICK k \in DOMAIN group[p.ctx], q \in PathsOfCtx(e, p.ctx) :
             /\ group[p.ctx][k].id = p.id
             /\ q.id = g(k)[Resolve(Policy[e], g(k))].id
             /\ outPaths' = [outPaths EXCEPT ![e] = @ \ Decided(e, q, g(k))]
      BY <2>8 DEF DecideGroup
    <3>2. /\ g(k) \in Seq(Member) /\ Len(g(k)) \in DOMAIN g(k)
          /\ g(k)[Len(g(k))].id = p.id
      BY <2>6, <3>1
    <3> HIDE DEF g
    <3>3. p \in Decided(e, q, g(k))
      <4>1. q.ctx = p.ctx /\ q \in outPaths[e]
        BY DEF PathsOfCtx
      <4>2. CASE Policy[e] = "each_ok_and_error"
        <5>1. Resolve(Policy[e], g(k)) = Len(g(k))
          BY <4>2 DEF Resolve
        <5>2. q.id = p.id
          BY <3>1, <3>2, <5>1
        <5>3. q = p
          BY <1>3, <4>1, <5>2 DEF Tables, PathsOfSender
        <5> QED
          BY <4>2, <5>3 DEF Decided
      <4>3. CASE Policy[e] # "each_ok_and_error"
        BY <1>3, <3>2, <4>1, <4>3 DEF Decided, PathsOfCtx
      <4> QED
        BY <4>2, <4>3
    <3> QED
      BY <3>1, <3>3 DEF TypeOK
  <2> QED
    BY <2>3, <2>4, <2>7, <2>8
<1> QED
  BY <1>2, <1>3

-----------------------------------------------------------------------------
\* Messages stay with the thread of their destination.

\* Taking a command changes IN paths of its extension only.
LEMMA TakeCmdLocal ==
    ASSUME TypeOK, NEW e \in Ext, NEW m \in CmdMsg, NEW left \in Seq(Msg),
           TakeCmd(e, m, left)
    PROVE  /\ \A x \in Ext : x # e => inPaths'[x] = inPaths[x]
           /\ \A u \in Thread : u # ThreadOf[e] => direct'[u] = direct[u]
<1>1. m.id \in Id /\ m.ctx \in Ctx /\ m.src \in Ext
  BY DEF CmdMsg
<1>2. Result(m.id, m.ctx, m.src, FALSE, TRUE) \in Msg
  BY <1>1, ResultIsMsg
<1>3. \A x \in Ext : x # e => inPaths'[x] = inPaths[x]
  BY DEF TakeCmd, TypeOK
<1>4. \/ Emit(ThreadOf[e], <<>>, left)
      \/ Emit(ThreadOf[e], <<Result(m.id, m.ctx, m.src, FALSE, TRUE)>>, left)
  BY DEF TakeCmd
<1> QED
  BY <1>2, <1>3, <1>4, EmitLocal, ThreadType, MsgLists

\* So does handling a message.
LEMMA HandleInMsgLocal ==
    ASSUME TypeOK, NEW e \in Ext, NEW m \in Msg, NEW left \in Seq(Msg),
           HandleInMsg(e, m, left)
    PROVE  /\ \A x \in Ext : x # e => /\ inPaths'[x] = inPaths[x]
                                      /\ outPaths'[x] = outPaths[x]
                                      /\ pending'[x] = pending[x]
           /\ \A u \in Thread : u # ThreadOf[e] => direct'[u] = direct[u]
           /\ state[e] \in {"deinit", "deleted"} => UNCHANGED <<inPaths, outPaths>>
           /\ state[e] # "starting" => UNCHANGED pending
<1>1. CASE /\ state[e] = "starting"
           /\ pending' = [pending EXCEPT ![e] = Append(@, m)]
           /\ Emit(ThreadOf[e], <<>>, left)
           /\ UNCHANGED <<pathVars, live, held, nextId, histVars>>
  BY <1>1, EmitLocal, ThreadType, MsgLists DEF pathVars, TypeOK
<1>2. CASE /\ state[e] \in {"starting", "running", "stopping", "flushing"}
           /\ m.kind = "result"
           /\ TakeResult(e, m, left)
           /\ UNCHANGED <<held, pending, nextId>>
  <2>1. m \in ResultMsg
    BY <1>2, MsgFields
  <2> QED
    BY <1>2, <2>1, TakeResultLocal DEF Dispatched
<1>3. CASE /\ state[e] \in {"running", "stopping", "flushing"} /\ m.kind = "cmd"
           /\ TakeCmd(e, m, left)
           /\ UNCHANGED <<outPaths, group, live, pending, histVars>>
  <2>1. m \in CmdMsg
    BY <1>3, MsgFields
  <2> QED
    BY <1>3, <2>1, TakeCmdLocal
<1>4. CASE /\ Emit(ThreadOf[e], <<>>, left)
           /\ UNCHANGED <<pathVars, live, held, pending, nextId, histVars>>
  BY <1>4, EmitLocal, ThreadType, MsgLists DEF pathVars
<1>5. CASE /\ Refuse(ThreadOf[e], m, left)
           /\ UNCHANGED <<pathVars, live, held, pending, nextId, histVars>>
  <2>1. CASE m.kind = "cmd"
    <3>1. m.id \in Id /\ m.ctx \in Ctx /\ m.src \in Ext
      BY <2>1, MsgFields
    <3>2. Result(m.id, m.ctx, m.src, FALSE, TRUE) \in Msg
      BY <3>1, ResultIsMsg
    <3>3. Emit(ThreadOf[e], <<Result(m.id, m.ctx, m.src, FALSE, TRUE)>>, left)
      BY <1>5, <2>1 DEF Refuse
    <3> QED
      BY <1>5, <3>2, <3>3, EmitLocal, ThreadType, MsgLists DEF pathVars
  <2>2. CASE m.kind # "cmd"
    BY <1>5, <2>2, EmitLocal, ThreadType, MsgLists DEF Refuse, pathVars
  <2> QED
    BY <2>1, <2>2
<1> QED
  BY <1>1, <1>2, <1>3, <1>4, <1>5 DEF HandleInMsg

\* A send call changes the paths of its extension only.
LEMMA LaunchLocal ==
    ASSUME TypeOK, NEW e \in Ext, NEW i \in Id, NEW handler \in HandlerKinds,
           NEW fresh \in 1 .. MaxId + 1, Launch(e, i, handler, fresh)
    PROVE  /\ \A x \in Ext : x # e => outPaths'[x] = outPaths[x]
           /\ \A u \in Thread : u # ThreadOf[e] => direct'[u] = direct[u]
<1> DEFINE dests  == Route[e]
           n      == Len(dests)
           call   == Len(sent) + 1
           pid(k) == IF k = 1 THEN i ELSE fresh + (k - 2)
           msg(k) == Cmd(pid(k), call, e, dests[k])
<1>1. dests \in Seq(Ext) /\ DOMAIN dests = 1 .. n /\ n \in Nat
  BY GraphAssumption
<1>2. /\ call \in Ctx
      /\ fresh + (n - 2) <= MaxId
      /\ Emit(ThreadOf[e], [k \in DOMAIN dests |-> msg(k)], direct[ThreadOf[e]])
  BY DEF Launch
<1>3. \A x \in Ext : x # e => outPaths'[x] = outPaths[x]
  BY DEF Launch, TypeOK
<1> HIDE DEF dests, n, call
<1>4. ASSUME NEW k \in DOMAIN dests
      PROVE  msg(k) \in Msg
  <2>1. k \in 1 .. n /\ fresh + (n - 2) <= MaxId
    BY <1>1, <1>2
  <2>2. pid(k) \in Id
    BY <1>1, <2>1, LaunchIds, Zenon
  <2>3. dests[k] \in Ext
    BY <1>1
  <2> HIDE DEF pid
  <2> QED
    BY <1>2, <2>2, <2>3, CmdIsMsg
<1> HIDE DEF msg
<1>5. [k \in DOMAIN dests |-> msg(k)] \in Seq(Msg)
  BY <1>1, <1>4
<1>6. direct[ThreadOf[e]] \in Seq(Msg)
  BY ThreadType DEF TypeOK
<1> QED
  BY <1>2, <1>3, <1>5, <1>6, EmitLocal, ThreadType

\* Initially the runloops have nothing to do.
LEMMA HomeInit == Init => MsgsHome
  BY DEF Init, MsgsHome

\* Every step keeps messages with the thread of their destination.
LEMMA HomeStep == TypeOK /\ MsgsHome /\ [Next]_vars => MsgsHome'
<1> SUFFICES ASSUME TypeOK, MsgsHome, [Next]_vars PROVE MsgsHome'
  OBVIOUS
<1> DEFINE T(t) == Seq(HomeMsg(t) \cup {CloseTask})
<1>a. \A t \in Thread : queue[t] \in T(t)
  BY DEF MsgsHome
<1>b. ASSUME \A t \in Thread : queue'[t] \in T(t)
      PROVE  MsgsHome'
  BY <1>b DEF MsgsHome, CloseTask, HomeMsg
<1>c. \A t \in Thread : \A s \in T(t) :
        /\ \A m \in HomeMsg(t) \cup {CloseTask} : Append(s, m) \in T(t)
        /\ s # <<>> => Tail(s) \in T(t)
  OBVIOUS
<1> HIDE DEF T
<1>1. CASE EngineDispatch
  <2>1. Head(engineQueue) \in Msg /\ Head(engineQueue).dst \in Ext
    BY <1>1, MsgLists, MsgFields DEF EngineDispatch, TypeOK
  <2>2. Head(engineQueue) \in HomeMsg(ThreadOf[Head(engineQueue).dst])
    BY <2>1 DEF HomeMsg
  <2>3. \A t \in Thread : queue'[t] \in T(t)
    BY <1>1, <1>a, <1>c, <2>1, <2>2, ThreadType DEF EngineDispatch, TypeOK
  <2> QED
    BY <1>b, <2>3
<1>2. CASE CloseThreads
  <2>1. \A t \in Thread : queue'[t] \in T(t)
    BY <1>2, <1>a, <1>c DEF CloseThreads
  <2> QED
    BY <1>b, <2>1
<1>3. ASSUME NEW t \in Thread, Receive(t)
      PROVE  MsgsHome'
  <2>1. \A u \in Thread : queue'[u] \in T(u)
    BY <1>3, <1>a, <1>c DEF Receive, TypeOK
  <2> QED
    BY <1>b, <2>1
<1>4. CASE UNCHANGED queue
  BY <1>4, <1>a, <1>b
<1>5. ASSUME NEW t \in Thread, HandleDirect(t) \/ DispatchLeft(t)
      PROVE  MsgsHome'
  BY <1>4, <1>5 DEF HandleDirect, DispatchLeft
<1>6. ASSUME NEW e \in Ext,
             \/ \E h \in Handlers : Send(e, h)
             \/ \E i \in held[e] : \/ \E h \in Handlers : Forward(e, i, h)
                                   \/ \E ok \in BOOLEAN : ReturnResult(e, i, ok)
                                   \/ ReturnPartial(e, i)
             \/ ReceivePending(e)
             \/ \E p \in outPaths[e] : OutPathTimeout(e, p)
             \/ FlushOne(e)
      PROVE  MsgsHome'
  BY <1>4, <1>6 DEF Send, Forward, ReturnResult, ReturnPartial, ReceivePending,
                    OutPathTimeout, FlushOne
<1>7. ASSUME NEW e \in Ext,
             \/ \E p \in inPaths[e] : InPathTimeout(e, p)
             \/ StartDone(e) \/ StopDone(e) \/ TimersClosed(e)
             \/ Deinit(e) \/ DeinitDone(e)
      PROVE  MsgsHome'
  BY <1>4, <1>7 DEF InPathTimeout, StartDone, StopDone, TimersClosed, Deinit,
                    DeinitDone, netVars
<1>8. CASE EngineClose \/ UNCHANGED vars
  BY <1>4, <1>8 DEF EngineClose, vars, netVars
<1> QED
  BY <1>1, <1>2, <1>3, <1>5, <1>6, <1>7, <1>8 DEF Next

-----------------------------------------------------------------------------
\* The flush covers every path that remains.

\* FlushCovers for one extension.
Covered(f) ==
    /\ state[f] = "flushing" =>
         /\ inPaths[f] = {} /\ outPaths[f] \subseteq flush[f]
         /\ direct[ThreadOf[f]] = <<>>
         /\ active[ThreadOf[f]] \in {f, None}
         /\ \A g \in Ext : InLoop(g) /\ ThreadOf[g] = ThreadOf[f] => g = f
    /\ state[f] \in {"deinit", "deleted"} => inPaths[f] = {} /\ outPaths[f] = {}

\* FlushCovers holds if it holds for each extension.
LEMMA CoveredAll == FlushCovers <=> \A f \in Ext : Covered(f)
  BY DEF FlushCovers, Covered

\* The same for the next state.
LEMMA CoveredAllNext == (\A f \in Ext : Covered(f)') => FlushCovers'
  BY DEF FlushCovers, Covered

\* The step changes nothing of other extensions and other threads.
LocalTo(e) ==
    /\ \A x \in Ext : x # e => /\ state'[x] = state[x]
                               /\ inPaths'[x] = inPaths[x]
                               /\ outPaths'[x] = outPaths[x]
                               /\ flush'[x] = flush[x]
                               /\ pending'[x] = pending[x]
    /\ \A u \in Thread : u # ThreadOf[e] => /\ direct'[u] = direct[u]
                                            /\ active'[u] = active[u]

\* No other extension of the thread of e is being flushed.
AloneIn(e) == \A f \in Ext : f # e /\ ThreadOf[f] = ThreadOf[e] => state[f] # "flushing"

\* When a thread is free none of its extensions is being flushed.
LEMMA FreeAlone ==
    ASSUME NEW e \in Ext, Free(ThreadOf[e])
    PROVE  AloneIn(e) /\ state[e] # "flushing"
  BY DEF Free, InLoop, AloneIn

\* When a thread is in its loop no other extension is being flushed.
LEMMA LoopAlone ==
    ASSUME FlushCovers, NEW e \in Ext, InLoop(e)
    PROVE  AloneIn(e)
  BY CoveredAll DEF Covered, AloneIn

\* When an extension runs no other of its thread is being flushed.
LEMMA RunAlone ==
    ASSUME FlushCovers, NEW e \in Ext, MayRun(e)
    PROVE  AloneIn(e)
<1>1. CASE Free(ThreadOf[e])
  BY <1>1, FreeAlone
<1>2. CASE active[ThreadOf[e]] = e
  <2>1. ASSUME NEW f \in Ext, f # e, ThreadOf[f] = ThreadOf[e], state[f] = "flushing"
        PROVE  FALSE
    <3>1. active[ThreadOf[e]] \in {f, None}
      BY <2>1, CoveredAll DEF Covered
    <3> QED
      BY <1>2, <2>1, <3>1, GraphAssumption
  <2> QED
    BY <2>1 DEF AloneIn
<1> QED
  BY <1>1, <1>2 DEF MayRun

\* When a message waits on a thread none of its extensions is being flushed.
LEMMA DirectAlone ==
    ASSUME FlushCovers, NEW e \in Ext, direct[ThreadOf[e]] # <<>>
    PROVE  AloneIn(e) /\ state[e] # "flushing"
  BY CoveredAll DEF Covered, AloneIn

\* A step of e keeps what holds of the other extensions.
LEMMA CoveredElsewhere ==
    ASSUME FlushCovers, NEW e \in Ext, LocalTo(e), AloneIn(e), NEW f \in Ext, f # e
    PROVE  Covered(f)'
<1>1. Covered(f)
  BY CoveredAll
<1>2. /\ state'[f] = state[f] /\ inPaths'[f] = inPaths[f]
      /\ outPaths'[f] = outPaths[f] /\ flush'[f] = flush[f]
  BY DEF LocalTo
<1>3. CASE ThreadOf[f] = ThreadOf[e]
  <2>1. state[f] # "flushing"
    BY <1>3 DEF AloneIn
  <2> QED
    BY <1>1, <1>2, <2>1 DEF Covered
<1>4. CASE ThreadOf[f] # ThreadOf[e]
  <2>1. direct'[ThreadOf[f]] = direct[ThreadOf[f]]
        /\ active'[ThreadOf[f]] = active[ThreadOf[f]]
    BY <1>4, ThreadType DEF LocalTo
  <2>2. ASSUME NEW g \in Ext, ThreadOf[g] = ThreadOf[f]
        PROVE  InLoop(g)' <=> InLoop(g)
    <3>1. g # e
      BY <1>4, <2>2
    <3>2. state'[g] = state[g] /\ pending'[g] = pending[g]
      BY <3>1 DEF LocalTo
    <3> QED
      BY <3>2 DEF InLoop
  <2> QED
    BY <1>1, <1>2, <2>1, <2>2 DEF Covered
<1> QED
  BY <1>3, <1>4

\* So a step of e keeps the invariant if it keeps what holds of e.
LEMMA CoveredStep ==
    ASSUME FlushCovers, NEW e \in Ext, LocalTo(e), AloneIn(e), Covered(e)'
    PROVE  FlushCovers'
  BY CoveredElsewhere, CoveredAllNext

\* A step in which e runs changes what runs on the thread of e only.
LEMMA ActiveLocal ==
    ASSUME TypeOK, NEW e \in Ext, Running(e) \/ NotRunning(e)
    PROVE  /\ \A u \in Thread : u # ThreadOf[e] => active'[u] = active[u]
           /\ active'[ThreadOf[e]] \in {e, None}
  BY ThreadType DEF TypeOK, Running, NotRunning

\* Handling a message keeps it.
LEMMA HandleInMsgCovered ==
    ASSUME TypeOK, FlushCovers, NEW e \in Ext, NEW m \in Msg, NEW left \in Seq(Msg),
           HandleInMsg(e, m, left), Running(e), UNCHANGED <<state, flush>>,
           AloneIn(e), state[e] # "flushing"
    PROVE  FlushCovers'
<1>1. LocalTo(e)
  BY HandleInMsgLocal, ActiveLocal DEF LocalTo
<1>2. Covered(e)'
  <2>1. Covered(e)
    BY CoveredAll
  <2>2. state'[e] = state[e]
    OBVIOUS
  <2>3. state[e] \in {"deinit", "deleted"} => inPaths' = inPaths /\ outPaths' = outPaths
    BY HandleInMsgLocal
  <2> QED
    BY <2>1, <2>2, <2>3 DEF Covered
<1> QED
  BY <1>1, <1>2, CoveredStep

\* A send call happens before the flush of its extension.
LEMMA LaunchCovered ==
    ASSUME TypeOK, FlushCovers, NEW e \in Ext, NEW i \in Id,
           NEW handler \in HandlerKinds, NEW fresh \in 1 .. MaxId + 1,
           Launch(e, i, handler, fresh), NotRunning(e), MayRun(e),
           state[e] \notin {"flushing", "deinit", "deleted"},
           UNCHANGED <<state, flush, inPaths, pending>>
    PROVE  FlushCovers'
<1>1. LocalTo(e)
  BY LaunchLocal, ActiveLocal DEF LocalTo
<1>2. Covered(e)'
  BY DEF Covered
<1> QED
  BY <1>1, <1>2, RunAlone, CoveredStep

\* A result that is returned late is discarded: the IN paths are gone.
LEMMA ReturnCovered ==
    ASSUME TypeOK, FlushCovers, NEW e \in Ext, NEW i \in Id, NEW ok \in BOOLEAN,
           NEW final \in BOOLEAN, ReturnTo(e, i, ok, final, direct[ThreadOf[e]]),
           NotRunning(e), MayRun(e), UNCHANGED <<state, flush, outPaths, pending>>
    PROVE  FlushCovers'
<1>1. direct[ThreadOf[e]] \in Seq(Msg)
  BY ThreadType DEF TypeOK
<1>2. Dispatched(e, direct[ThreadOf[e]])
  BY <1>1, ReturnToLocal
<1>3. LocalTo(e)
  BY <1>2, ActiveLocal DEF LocalTo, Dispatched
<1>4. Covered(e)
  BY CoveredAll
<1>5. \A g \in Ext : InLoop(g)' <=> InLoop(g)
  BY DEF InLoop
<1>6. inPaths[e] = {} => inPaths'[e] = {}
  BY <1>2 DEF Dispatched
<1>7. CASE state[e] = "flushing"
  <2>1. direct'[ThreadOf[e]] = <<>>
    BY <1>2, <1>4, <1>7 DEF Covered, Dispatched
  <2>2. active'[ThreadOf[e]] \in {e, None}
    BY ActiveLocal
  <2>3. Covered(e)'
    BY <1>4, <1>5, <1>6, <1>7, <2>1, <2>2 DEF Covered
  <2> QED
    BY <1>3, <2>3, RunAlone, CoveredStep
<1>8. CASE state[e] # "flushing"
  <2>1. Covered(e)'
    BY <1>4, <1>6, <1>8 DEF Covered
  <2> QED
    BY <1>3, <2>1, RunAlone, CoveredStep
<1> QED
  BY <1>7, <1>8

\* A made-up result takes its path away, if the path is still there.
LEMMA FlushOneCovered ==
    ASSUME TypeOK, Tables, FlushCovers, NEW e \in Ext, FlushOne(e)
    PROVE  FlushCovers'
<1>1. PICK p \in Oldest(flush[e]) :
         /\ flush' = [flush EXCEPT ![e] = @ \ {p}]
         /\ TakeResult(e, MadeUpResult(e, p), <<>>)
  BY DEF FlushOne
<1>2. p \in OutPath /\ p \in flush[e]
  BY DEF Oldest, TypeOK
<1>3. MadeUpResult(e, p) \in ResultMsg
  BY <1>2, OutPathFields, ResultIsMsg DEF MadeUpResult
<1>4. /\ state[e] = "flushing" /\ Covered(e) /\ InLoop(e)
      /\ Running(e) /\ UNCHANGED <<state, pending>>
  BY CoveredAll DEF FlushOne, InLoop
<1>5. outPaths[e] \subseteq flush[e] /\ inPaths[e] = {}
  BY <1>4 DEF Covered
<1>6. \A q \in outPaths[e] : Before(p, q)
  BY <1>5, OldestFirst
<1>7. /\ Dispatched(e, <<>>)
      /\ \A x \in Ext : x # e => outPaths'[x] = outPaths[x]
      /\ outPaths'[e] \subseteq outPaths[e]
  BY <1>1, <1>3, MsgLists, TakeResultLocal
<1>8. p \notin outPaths'[e]
  BY <1>1, <1>2, <1>6, MsgLists, MadeUpResultRemoves
<1>9. LocalTo(e)
  BY <1>1, <1>4, <1>7, ActiveLocal DEF LocalTo, Dispatched, TypeOK
<1>10. /\ inPaths'[e] = {} /\ direct'[ThreadOf[e]] = <<>>
       /\ outPaths'[e] \subseteq flush'[e]
  BY <1>1, <1>5, <1>7, <1>8 DEF Dispatched, TypeOK
<1>11. \A g \in Ext : InLoop(g)' <=> InLoop(g)
  BY <1>4 DEF InLoop
<1>12. Covered(e)'
  BY <1>4, <1>10, <1>11, ActiveLocal DEF Covered
<1> QED
  BY <1>4, <1>9, <1>12, LoopAlone, CoveredStep

\* Initially no extension is being flushed.
LEMMA FlushInit == Init => FlushCovers
  BY DEF Init, FlushCovers

\* Every step keeps FlushCovers.
LEMMA FlushStep ==
    ASSUME SendsInTime
    PROVE  TypeOK /\ Tables /\ MsgsHome /\ FlushCovers /\ [Next]_vars => FlushCovers'
<1> SUFFICES ASSUME TypeOK, Tables, MsgsHome, FlushCovers, [Next]_vars
             PROVE  FlushCovers'
  OBVIOUS
<1>1. CASE UNCHANGED <<state, inPaths, outPaths, flush, pending, direct, active>>
  <2>1. ASSUME NEW f \in Ext
        PROVE  Covered(f)'
    <3>1. \A g \in Ext : InLoop(g)' <=> InLoop(g)
      BY <1>1 DEF InLoop
    <3> QED
      BY <1>1, <3>1, CoveredAll DEF Covered
  <2> QED
    BY <2>1, CoveredAllNext
<1>2. CASE EngineDispatch \/ EngineClose \/ CloseThreads \/ UNCHANGED vars
  BY <1>1, <1>2 DEF EngineDispatch, EngineClose, CloseThreads, vars, lifeVars,
                    pathVars, netVars
<1>3. ASSUME NEW t \in Thread, HandleDirect(t)
      PROVE  FlushCovers'
  <2> DEFINE m == Head(direct[t])
  <2>1. m \in Msg /\ Tail(direct[t]) \in Seq(Msg) /\ ThreadOf[m.dst] = t
    BY <1>3, MsgLists DEF HandleDirect, TypeOK
  <2>2. m.dst \in Ext
    BY <2>1, MsgFields
  <2>3. /\ HandleInMsg(m.dst, m, Tail(direct[t])) /\ Running(m.dst)
        /\ UNCHANGED <<state, flush>> /\ direct[t] # <<>>
    BY <1>3 DEF HandleDirect, lifeVars
  <2> HIDE DEF m
  <2> QED
    BY <2>1, <2>2, <2>3, DirectAlone, HandleInMsgCovered
<1>3a. ASSUME NEW t \in Thread, DispatchLeft(t)
       PROVE  FlushCovers'
  <2>1. /\ UNCHANGED <<state, inPaths, outPaths, flush, pending>>
        /\ direct[t] # <<>>
        /\ \A u \in Thread : u # t => /\ direct'[u] = direct[u]
                                      /\ active'[u] = active[u]
    BY <1>3a DEF DispatchLeft, lifeVars, pathVars, TypeOK
  <2>2. ASSUME NEW f \in Ext
        PROVE  Covered(f)'
    <3>1. \A g \in Ext : InLoop(g)' <=> InLoop(g)
      BY <2>1 DEF InLoop
    <3>2. CASE ThreadOf[f] = t
      <4>1. state[f] # "flushing"
        BY <2>1, <3>2, DirectAlone
      <4> QED
        BY <2>1, <4>1, CoveredAll DEF Covered
    <3>3. CASE ThreadOf[f] # t
      <4>1. /\ direct'[ThreadOf[f]] = direct[ThreadOf[f]]
            /\ active'[ThreadOf[f]] = active[ThreadOf[f]]
        BY <2>1, <3>3, ThreadType
      <4> QED
        BY <2>1, <3>1, <4>1, CoveredAll DEF Covered
    <3> QED
      BY <3>2, <3>3
  <2> QED
    BY <2>2, CoveredAllNext
<1>4. ASSUME NEW t \in Thread, Receive(t)
      PROVE  FlushCovers'
  <2> DEFINE m == Head(queue[t])
  <2>1. m \in HomeMsg(t) \cup {CloseTask} /\ Free(t) /\ UNCHANGED <<state, flush>>
    <3>1. queue[t] # <<>> /\ Free(t) /\ UNCHANGED <<state, flush>>
      BY <1>4 DEF Receive
    <3>2. queue[t] \in Seq(HomeMsg(t) \cup {CloseTask})
      BY DEF MsgsHome
    <3> QED
      BY <3>1, <3>2
  <2>2. CASE m.kind # "close" /\ HandleInMsg(m.dst, m, <<>>) /\ Running(m.dst)
    <3>1. m \in Msg /\ ThreadOf[m.dst] = t
      BY <2>1, <2>2 DEF CloseTask, HomeMsg
    <3>2. m.dst \in Ext
      BY <3>1, MsgFields
    <3> HIDE DEF m
    <3> QED
      BY <2>1, <2>2, <3>1, <3>2, MsgLists, FreeAlone, HandleInMsgCovered
  <2>3. CASE UNCHANGED <<pathVars, pending, direct, active>>
    BY <1>1, <2>1, <2>3 DEF pathVars
  <2> QED
    BY <1>4, <2>2, <2>3 DEF Receive
<1>5. ASSUME NEW e \in Ext, NEW h \in Handlers, Send(e, h)
      PROVE  FlushCovers'
  <2>1. nextId \in Id /\ nextId + 1 \in 1 .. MaxId + 1 /\ h \in HandlerKinds
    BY <1>5, ActorsAssumption, BoundAssumption DEF Send, Id
  <2>2. /\ Launch(e, nextId, h, nextId + 1) /\ NotRunning(e) /\ MayRun(e)
        /\ UNCHANGED <<state, flush, inPaths, pending>>
    BY <1>5 DEF Send, lifeVars
  <2>3. state[e] \notin {"flushing", "deinit", "deleted"}
    BY <1>5 DEF Send, SendsInTime
  <2> QED
    BY <2>1, <2>2, <2>3, LaunchCovered
<1>6. ASSUME NEW e \in Ext, NEW i \in held[e], NEW h \in Handlers, Forward(e, i, h)
      PROVE  FlushCovers'
  <2>1. i \in Id /\ nextId \in 1 .. MaxId + 1 /\ h \in HandlerKinds
    BY ActorsAssumption DEF TypeOK
  <2>2. /\ Launch(e, i, h, nextId) /\ NotRunning(e) /\ MayRun(e)
        /\ UNCHANGED <<state, flush, inPaths, pending>>
    BY <1>6 DEF Forward, lifeVars
  <2>3. state[e] \notin {"flushing", "deinit", "deleted"}
    BY <1>6 DEF Forward, SendsInTime
  <2> QED
    BY <2>1, <2>2, <2>3, LaunchCovered
<1>7. ASSUME NEW e \in Ext, NEW i \in held[e], NEW ok \in BOOLEAN,
             ReturnResult(e, i, ok) \/ ReturnPartial(e, i)
      PROVE  FlushCovers'
  <2>1. i \in Id
    BY DEF TypeOK
  <2>2. /\ \E x \in BOOLEAN, y \in BOOLEAN :
             ReturnTo(e, i, x, y, direct[ThreadOf[e]])
        /\ NotRunning(e) /\ MayRun(e)
        /\ UNCHANGED <<state, flush, outPaths, pending>>
    BY <1>7 DEF ReturnResult, ReturnPartial, lifeVars
  <2> QED
    BY <2>1, <2>2, ReturnCovered
<1>8. ASSUME NEW e \in Ext, ReceivePending(e)
      PROVE  FlushCovers'
  <2>1. Head(pending[e]) \in CmdMsg /\ InLoop(e) /\ state[e] = "running"
    BY <1>8 DEF ReceivePending, TypeOK, InLoop
  <2>2. /\ TakeCmd(e, Head(pending[e]), <<>>) /\ Running(e)
        /\ UNCHANGED <<state, flush, outPaths>>
        /\ \A x \in Ext : x # e => pending'[x] = pending[x]
    BY <1>8 DEF ReceivePending, lifeVars, TypeOK
  <2>3. LocalTo(e)
    BY <2>1, <2>2, MsgLists, TakeCmdLocal, ActiveLocal DEF LocalTo
  <2>4. Covered(e)'
    BY <2>1, <2>2 DEF Covered
  <2> QED
    BY <2>1, <2>3, <2>4, LoopAlone, CoveredStep
<1>9. ASSUME NEW e \in Ext, NEW p \in outPaths[e], OutPathTimeout(e, p)
      PROVE  FlushCovers'
  <2>1. MadeUpResult(e, p) \in ResultMsg
    BY OutPathFields, ResultIsMsg DEF MadeUpResult, TypeOK
  <2>2. /\ TakeResult(e, MadeUpResult(e, p), <<>>) /\ Running(e)
        /\ UNCHANGED <<state, flush, pending>>
        /\ state[e] \in {"starting", "running", "stopping"} /\ Free(ThreadOf[e])
    BY <1>9 DEF OutPathTimeout, TimersRun, lifeVars
  <2>3. LocalTo(e)
    BY <2>1, <2>2, MsgLists, TakeResultLocal, ActiveLocal DEF LocalTo, Dispatched
  <2>4. Covered(e)'
    BY <2>2 DEF Covered
  <2> QED
    BY <2>2, <2>3, <2>4, FreeAlone, CoveredStep
<1>10. ASSUME NEW e \in Ext, NEW p \in inPaths[e], InPathTimeout(e, p)
       PROVE  FlushCovers'
  <2>1. /\ UNCHANGED <<state, flush, outPaths, pending, direct, active>>
        /\ \A x \in Ext : x # e => inPaths'[x] = inPaths[x]
        /\ state[e] \in {"starting", "running", "stopping"} /\ Free(ThreadOf[e])
    BY <1>10 DEF InPathTimeout, TimersRun, lifeVars, netVars, TypeOK
  <2>2. LocalTo(e) /\ Covered(e)'
    BY <2>1 DEF LocalTo, Covered
  <2> QED
    BY <2>1, <2>2, FreeAlone, CoveredStep
<1>11. ASSUME NEW e \in Ext, StartDone(e) \/ StopDone(e) \/ DeinitDone(e)
       PROVE  FlushCovers'
  <2>1. /\ UNCHANGED <<flush, inPaths, outPaths, pending, direct>>
        /\ UNCHANGED active \/ NotRunning(e)
        /\ \A x \in Ext : x # e => state'[x] = state[x]
        /\ Free(ThreadOf[e])
        /\ \/ state'[e] \in {"running", "stopping"}
           \/ state[e] = "deinit" /\ state'[e] = "deleted"
    BY <1>11 DEF StartDone, StopDone, DeinitDone, pathVars, netVars, TypeOK
  <2>2. LocalTo(e)
    BY <2>1, ActiveLocal DEF LocalTo
  <2>3. Covered(e)'
    BY <2>1, CoveredAll DEF Covered
  <2> QED
    BY <2>1, <2>2, <2>3, FreeAlone, CoveredStep
<1>12. ASSUME NEW e \in Ext, TimersClosed(e)
       PROVE  FlushCovers'
  <2>1. /\ UNCHANGED <<outPaths, pending, direct>> /\ NotRunning(e)
        /\ \A x \in Ext : x # e => /\ state'[x] = state[x]
                                   /\ inPaths'[x] = inPaths[x]
                                   /\ flush'[x] = flush[x]
        /\ Free(ThreadOf[e])
        /\ state'[e] = "flushing" /\ inPaths'[e] = {} /\ flush'[e] = outPaths[e]
    BY <1>12 DEF TimersClosed, netVars, TypeOK
  <2>2. LocalTo(e)
    BY <2>1, ActiveLocal DEF LocalTo
  <2>3. direct'[ThreadOf[e]] = <<>>
    BY <2>1 DEF Free
  <2>4. ASSUME NEW g \in Ext, g # e, ThreadOf[g] = ThreadOf[e]
        PROVE  ~InLoop(g)'
    <3>1. ~InLoop(g)
      BY <2>1, <2>4 DEF Free
    <3>2. state'[g] = state[g] /\ pending'[g] = pending[g]
      BY <2>1, <2>4
    <3> QED
      BY <3>1, <3>2 DEF InLoop
  <2>5. Covered(e)'
    BY <2>1, <2>3, <2>4, ActiveLocal DEF Covered
  <2> QED
    BY <2>1, <2>2, <2>5, FreeAlone, CoveredStep
<1>13. ASSUME NEW e \in Ext, FlushOne(e)
       PROVE  FlushCovers'
  BY <1>13, FlushOneCovered
<1>14. ASSUME NEW e \in Ext, Deinit(e)
       PROVE  FlushCovers'
  <2>1. /\ UNCHANGED <<flush, inPaths, outPaths, pending, direct>> /\ NotRunning(e)
        /\ \A x \in Ext : x # e => state'[x] = state[x]
        /\ state[e] = "flushing" /\ flush[e] = {} /\ state'[e] = "deinit"
    BY <1>14 DEF Deinit, pathVars, netVars, TypeOK
  <2>2. LocalTo(e)
    BY <2>1, ActiveLocal DEF LocalTo
  <2>3. Covered(e)'
    BY <2>1, CoveredAll DEF Covered
  <2>4. InLoop(e)
    BY <2>1 DEF InLoop
  <2> QED
    BY <2>2, <2>3, <2>4, LoopAlone, CoveredStep
<1> QED
  BY <1>2, <1>3, <1>3a, <1>4, <1>5, <1>6, <1>7, <1>8, <1>9, <1>10, <1>11, <1>12,
     <1>13, <1>14 DEF Next

-----------------------------------------------------------------------------
\* All of it together is inductive.
LEMMA CloseStep ==
    ASSUME SendsInTime
    PROVE  Spec => [](IInv /\ MsgsHome /\ FlushCovers)
<1>1. Init => MsgsHome /\ FlushCovers
  BY HomeInit, FlushInit
<1>2. IInv /\ MsgsHome /\ FlushCovers /\ [Next]_vars => MsgsHome' /\ FlushCovers'
  BY HomeStep, FlushStep DEF IInv, PathInv, Tables
<1> QED
  BY <1>1, <1>2, PathInvariant, PTL DEF Spec

\* An extension that is destroyed leaves no path behind, the assertion of
\* ten_path_table_check_empty (path/path_table.c:106-117): the timers' closing
\* clears the IN paths, every OUT path that is left is flushed, and the flush
\* cannot be interrupted.  It holds for extensions that send in time only.
THEOREM TablesEmpty ==
    ASSUME SendsInTime
    PROVE  Spec => []TablesEmptyAtDestroy
<1>1. FlushCovers => TablesEmptyAtDestroy
  BY DEF FlushCovers, TablesEmptyAtDestroy
<1> QED
  BY <1>1, CloseStep, PTL

\* No handler is left waiting in on_deinit (extension/internal/close.c:100),
\* because a context lives as long as a path refers to it.
THEOREM HandlersCalled ==
    ASSUME SendsInTime
    PROVE  Spec => []AllHandlersCalled
<1>1. IInv /\ FlushCovers => AllHandlersCalled
  BY DEF IInv, PathInv, HandlerContexts, FlushCovers, AllHandlersCalled
<1> QED
  BY <1>1, CloseStep, PTL

-----------------------------------------------------------------------------
\* What handlers are told.

\* What a handler is told: whose result it is, and whether it was the last one.
Telling == [id : Id, ok : BOOLEAN, completed : BOOLEAN]

\* told is well formed, and a handler that waits was not told of completion.
ToldInv == told \in [Ctx -> Seq(Telling)] /\ ToldOnce

\* The contexts told of completion, and the extensions not yet in on_deinit: what
\* the names of ResultPromise stand for.
Settled == {c \in Ctx : \E k \in DOMAIN told[c] : told[c][k].completed}
Open == [e \in Ext |-> state[e] \notin {"deinit", "deleted"}]

\* The handler of path p of e is called, or not because there is none or because it
\* is interested in the completing result only.
Tells(e, p, completed) ==
    /\ live' = [live EXCEPT ![e] = IF completed THEN @ \ {p.ctx} ELSE @]
    /\ \E x \in Telling :
         /\ x.completed = completed
         /\ told' = IF p.handler = "none" \/ (p.handler = "send_cmd" /\ ~completed)
                    THEN told ELSE [told EXCEPT ![p.ctx] = Append(@, x)]

\* Handing a result to a handler tells it once.
LEMMA DeliverTells ==
    ASSUME TypeOK, NEW e \in Ext, NEW p \in OutPath, NEW ok \in BOOLEAN,
           NEW final, NEW completed \in BOOLEAN, NEW left,
           Deliver(e, p, ok, final, completed, left)
    PROVE  Tells(e, p, completed)
<1>1. PICK seen \in BOOLEAN :
        /\ live' = [live EXCEPT ![e] = IF completed THEN @ \ {p.ctx} ELSE @]
        /\ \/ p.handler = "send_cmd" /\ ~completed /\ UNCHANGED told
           \/ /\ ~(p.handler = "send_cmd" /\ ~completed)
              /\ told' = IF p.handler = "none" THEN told
                         ELSE [told EXCEPT ![p.ctx] = Append(@,
                              [id |-> p.id, ok |-> seen, completed |-> completed])]
  <2>1. \A x \in {ok} \cup (IF SchemaErrors THEN {FALSE} ELSE {}) : x \in BOOLEAN
    OBVIOUS
  <2> QED
    BY <2>1 DEF Deliver
<1> DEFINE x == [id |-> p.id, ok |-> seen, completed |-> completed]
<1>2. x \in Telling /\ x.completed = completed
  BY OutPathFields DEF Telling
<1>3. told' = IF p.handler = "none" \/ (p.handler = "send_cmd" /\ ~completed)
             THEN told ELSE [told EXCEPT ![p.ctx] = Append(@, x)]
  BY <1>1
<1> HIDE DEF x
<1> QED
  BY <1>1, <1>2, <1>3 DEF Tells

\* A result an extension takes reaches one handler or none.
LEMMA TakeResultTells ==
    ASSUME TypeOK, NEW e \in Ext, NEW m \in ResultMsg, NEW left,
           TakeResult(e, m, left)
    PROVE  \/ UNCHANGED <<live, told>>
           \/ \E p \in outPaths[e], completed \in BOOLEAN : Tells(e, p, completed)
<1>0. m.ok \in BOOLEAN /\ m.final \in BOOLEAN
  BY DEF ResultMsg
<1>1. ASSUME NEW p \in FirstOutPath(e, m.id), DecideSingle(e, p, m.ok, m.final, left)
      PROVE  \E q \in outPaths[e], completed \in BOOLEAN : Tells(e, q, completed)
  <2>1. p \in outPaths[e] /\ p \in OutPath
    BY DEF FirstOutPath, Oldest, TypeOK
  <2> QED
    BY <1>0, <1>1, <2>1, DeliverTells DEF DecideSingle
<1>2. ASSUME NEW p \in FirstOutPath(e, m.id), DecideGroup(e, p, m.ok, left)
      PROVE  \E q \in outPaths[e], completed \in BOOLEAN : Tells(e, q, completed)
  <2>1. PICK q \in outPaths[e], ok \in BOOLEAN, completed \in BOOLEAN :
           Deliver(e, q, ok, TRUE, completed, left)
    BY <1>2 DEF DecideGroup, PathsOfCtx
  <2>2. q \in OutPath
    BY DEF TypeOK
  <2> QED
    BY <2>1, <2>2, DeliverTells
<1> QED
  BY <1>1, <1>2 DEF TakeResult, KeepInGroup, histVars

\* A step of e that calls one handler or none.
Called(e) ==
    /\ UNCHANGED sent
    /\ \/ UNCHANGED <<live, told>>
       \/ /\ state[e] \notin {"deinit", "deleted"}
          /\ UNCHANGED state
          /\ \E p \in outPaths[e], completed \in BOOLEAN : Tells(e, p, completed)

\* Appending to a sequence keeps what it has.
LEMMA AppendTelling ==
    ASSUME NEW s \in Seq(Telling), NEW x \in Telling
    PROVE  /\ Append(s, x) \in Seq(Telling)
           /\ \A k \in DOMAIN s : k \in DOMAIN Append(s, x) /\ Append(s, x)[k] = s[k]
           /\ \A k \in DOMAIN Append(s, x) :
                k \in DOMAIN s \/ Append(s, x)[k] = x
           /\ \E k \in DOMAIN Append(s, x) : Append(s, x)[k] = x
<1>1. /\ Append(s, x) \in Seq(Telling)
      /\ Len(Append(s, x)) = Len(s) + 1
      /\ \A k \in 1 .. Len(s) : Append(s, x)[k] = s[k]
      /\ Append(s, x)[Len(s) + 1] = x
  OBVIOUS
<1>2. /\ DOMAIN s = 1 .. Len(s) /\ Len(s) \in Nat
      /\ DOMAIN Append(s, x) = 1 .. Len(s) + 1
  BY <1>1
<1> QED
  BY <1>1, <1>2

\* A context was told of completion if one of the tellings says so.
Completed(c) == \E k \in DOMAIN told[c] : told[c][k].completed

\* A handler that is called was allocated until then, and its context is freed
\* exactly when it is told of completion.
LEMMA TellsOnce ==
    ASSUME TypeOK, Tables, ToldInv, NEW e \in Ext, NEW p \in outPaths[e],
           NEW completed \in BOOLEAN, Tells(e, p, completed)
    PROVE  /\ p.ctx \in Ctx /\ p.ctx <= Len(sent)
           /\ told' \in [Ctx -> Seq(Telling)]
           /\ \A c \in Ctx : c # p.ctx => told'[c] = told[c]
           /\ ~completed \/ p.handler = "none" =>
                live' = live /\ \A c \in Ctx : Completed(c)' <=> Completed(c)
           /\ completed /\ p.handler # "none" =>
                /\ p.ctx \in live[e]
                /\ live' = [live EXCEPT ![e] = @ \ {p.ctx}]
                /\ \A c \in Ctx : Completed(c)' <=> Completed(c) \/ c = p.ctx
<1>1. p \in OutPath /\ p.ctx \in Ctx
  BY OutPathFields DEF TypeOK
<1>2. PICK x \in Telling :
        /\ x.completed = completed
        /\ told' = IF p.handler = "none" \/ (p.handler = "send_cmd" /\ ~completed)
                   THEN told ELSE [told EXCEPT ![p.ctx] = Append(@, x)]
  BY DEF Tells
<1>3. p.ctx <= Len(sent)
  BY DEF Tables, PathsOfSender
<1>4. told[p.ctx] \in Seq(Telling) /\ told \in [Ctx -> Seq(Telling)]
  BY <1>1 DEF ToldInv
<1>5. /\ told' \in [Ctx -> Seq(Telling)]
      /\ \A c \in Ctx : c # p.ctx => told'[c] = told[c]
      /\ told'[p.ctx] = IF p.handler = "none" \/ (p.handler = "send_cmd" /\ ~completed)
                        THEN told[p.ctx] ELSE Append(told[p.ctx], x)
  BY <1>1, <1>2, <1>4, AppendTelling
<1>6. live[e] = {q.ctx : q \in {r \in outPaths[e] : r.handler # "none"}}
  BY DEF Tables, HandlerContexts
<1>7. CASE ~completed \/ p.handler = "none"
  <2>1. live' = live
    <3>1. CASE ~completed
      BY <3>1 DEF Tells, TypeOK
    <3>2. CASE p.handler = "none"
      <4>1. ASSUME NEW q \in outPaths[e], q.handler # "none", q.ctx = p.ctx
            PROVE  FALSE
        BY <3>2, <4>1, SenderOfPath DEF Tables
      <4>2. p.ctx \notin live[e]
        BY <1>6, <4>1
      <4> QED
        BY <4>2 DEF Tells, TypeOK
    <3> QED
      BY <1>7, <3>1, <3>2
  <2>2. Completed(p.ctx)' <=> Completed(p.ctx)
    BY <1>2, <1>4, <1>5, <1>7, AppendTelling DEF Completed
  <2>3. \A c \in Ctx : c # p.ctx => (Completed(c)' <=> Completed(c))
    BY <1>5 DEF Completed
  <2> QED
    BY <1>1, <1>3, <1>5, <1>7, <2>1, <2>2, <2>3
<1>8. CASE completed /\ p.handler # "none"
  <2>1. p.ctx \in live[e]
    BY <1>6, <1>8
  <2>2. live' = [live EXCEPT ![e] = @ \ {p.ctx}]
    BY <1>8 DEF Tells
  <2>3. Completed(p.ctx)'
    <3>1. told'[p.ctx] = Append(told[p.ctx], x)
      BY <1>5, <1>8
    <3>2. \E k \in DOMAIN Append(told[p.ctx], x) : Append(told[p.ctx], x)[k] = x
      BY <1>4, AppendTelling
    <3> QED
      BY <1>2, <1>8, <3>1, <3>2 DEF Completed
  <2>4. \A c \in Ctx : c # p.ctx => (Completed(c)' <=> Completed(c))
    BY <1>5 DEF Completed
  <2> QED
    BY <1>1, <1>3, <1>5, <1>8, <2>1, <2>2, <2>3, <2>4
<1> QED
  BY <1>7, <1>8

\* ToldOnce, said with the name Completed.
LEMMA ToldAgain ==
    ToldOnce <=> \A c \in Ctx : /\ told[c] # <<>> => c <= Len(sent)
                                /\ Completed(c) => \A e \in Ext : c \notin live[e]
  BY DEF ToldOnce, Completed

\* The same in the next state.
LEMMA ToldAgainNext ==
    ToldOnce' <=> \A c \in Ctx : /\ told'[c] # <<>> => c <= Len(sent')
                                 /\ Completed(c)' => \A e \in Ext : c \notin live'[e]
  BY DEF ToldOnce, Completed

\* Contexts of different extensions are different: each belongs to a send call.
LEMMA ContextOfSender ==
    ASSUME TypeOK, Tables, NEW e \in Ext, NEW c \in live[e]
    PROVE  c \in Ctx /\ c <= Len(sent) /\ \A x \in Ext : c \in live[x] => x = e
<1>1. \A x \in Ext : c \in live[x] => \E p \in outPaths[x] : p.ctx = c
  BY DEF Tables, HandlerContexts
<1>2. \A x \in Ext : c \in live[x] => c <= Len(sent) /\ sent[c].by = x
  BY <1>1, SenderOfPath DEF Tables
<1> QED
  BY <1>2 DEF TypeOK

\* Calling a handler keeps the record of what was told in order.
LEMMA CalledTold ==
    ASSUME TypeOK, Tables, ToldInv, NEW e \in Ext, Called(e)
    PROVE  ToldInv'
<1>1. CASE UNCHANGED <<live, told>>
  BY <1>1 DEF ToldInv, ToldOnce, Called
<1>2. ASSUME NEW p \in outPaths[e], NEW completed \in BOOLEAN, Tells(e, p, completed)
      PROVE  ToldInv'
  <2>1. /\ p.ctx \in Ctx /\ p.ctx <= Len(sent)
        /\ told' \in [Ctx -> Seq(Telling)]
        /\ \A c \in Ctx : c # p.ctx => told'[c] = told[c]
    BY <1>2, TellsOnce
  <2>2. \A c \in Ctx : told'[c] # <<>> => c <= Len(sent')
    BY <2>1 DEF ToldInv, ToldOnce, Called
  <2>3. \A c \in Ctx : Completed(c)' => \A x \in Ext : c \notin live'[x]
    <3>0. \A c \in Ctx : Completed(c) => \A x \in Ext : c \notin live[x]
      BY ToldAgain DEF ToldInv
    <3>1. CASE ~completed \/ p.handler = "none"
      <4>1. live' = live /\ \A c \in Ctx : Completed(c)' <=> Completed(c)
        BY <1>2, <3>1, TellsOnce
      <4> QED
        BY <3>0, <4>1
    <3>2. CASE completed /\ p.handler # "none"
      <4>1. /\ p.ctx \in live[e]
            /\ live' = [live EXCEPT ![e] = @ \ {p.ctx}]
            /\ \A c \in Ctx : Completed(c)' <=> Completed(c) \/ c = p.ctx
        BY <1>2, <3>2, TellsOnce
      <4>2. \A x \in Ext : live'[x] = IF x = e THEN live[e] \ {p.ctx} ELSE live[x]
        BY <4>1 DEF TypeOK
      <4>3. \A x \in Ext : p.ctx \in live[x] => x = e
        BY <4>1, ContextOfSender
      <4> QED
        BY <3>0, <4>1, <4>2, <4>3
    <3> QED
      BY <3>1, <3>2
  <2> QED
    BY <2>1, <2>2, <2>3, ToldAgainNext DEF ToldInv
<1> QED
  BY <1>1, <1>2 DEF Called

\* In the terms of ResultPromise a call to a handler settles a promise or is nothing.
LEMMA CalledSettles ==
    ASSUME TypeOK, Tables, ToldInv, NEW e \in Ext, Called(e), Open' = Open
    PROVE  \/ UNCHANGED <<live, Settled, Open>>
           \/ \E c \in Ctx : Promise!Settle(e, c)
<1>0. Settled = {c \in Ctx : Completed(c)} /\ Settled' = {c \in Ctx : Completed(c)'}
  BY DEF Settled, Completed
<1>1. CASE UNCHANGED <<live, told>>
  BY <1>1 DEF Settled
<1>2. ASSUME state[e] \notin {"deinit", "deleted"},
             NEW p \in outPaths[e], NEW completed \in BOOLEAN, Tells(e, p, completed)
      PROVE  \/ UNCHANGED <<live, Settled, Open>>
             \/ \E c \in Ctx : Promise!Settle(e, c)
  <2>1. CASE ~completed \/ p.handler = "none"
    <3>1. live' = live /\ \A c \in Ctx : Completed(c)' <=> Completed(c)
      BY <1>2, <2>1, TellsOnce
    <3> QED
      BY <1>0, <3>1
  <2>2. CASE completed /\ p.handler # "none"
    <3>1. /\ p.ctx \in live[e] /\ p.ctx \in Ctx
          /\ live' = [live EXCEPT ![e] = @ \ {p.ctx}]
          /\ \A c \in Ctx : Completed(c)' <=> Completed(c) \/ c = p.ctx
      BY <1>2, <2>2, TellsOnce
    <3>2. Settled' = Settled \cup {p.ctx}
      BY <1>0, <3>1
    <3>3. Open[e]
      BY <1>2 DEF Open
    <3>4. Promise!Settle(e, p.ctx)
      BY <3>1, <3>2, <3>3 DEF Promise!Settle, Settled, Open
    <3> QED
      BY <3>1, <3>4
  <2> QED
    BY <2>1, <2>2
<1> QED
  BY <1>1, <1>2 DEF Called

\* A send call is a promise of its own, if it has a handler.
LEMMA LaunchRegisters ==
    ASSUME TypeOK, Tables, ToldInv, NEW e \in Ext, NEW i, NEW handler \in HandlerKinds,
           NEW fresh, Launch(e, i, handler, fresh),
           state[e] \notin {"deinit", "deleted"}, UNCHANGED <<state, told>>
    PROVE  /\ ToldInv'
           /\ \/ UNCHANGED <<live, Settled, Open>>
              \/ \E c \in Ctx : Promise!Register(e, c)
<1> DEFINE c == Len(sent) + 1
<1>1. /\ c \in Ctx
      /\ live' = [live EXCEPT ![e] = IF handler = "none" THEN @ ELSE @ \cup {c}]
      /\ Len(sent') = Len(sent) + 1
  BY DEF Launch, TypeOK
<1>2. Len(sent) \in Nat /\ \A d \in Ctx : told[d] # <<>> => d <= Len(sent)
  BY DEF TypeOK, ToldInv, ToldOnce
<1> HIDE DEF c
<1>3. c = Len(sent) + 1
  BY DEF c
<1>4. told[c] = <<>> /\ ~Completed(c)
  <2>1. told[c] = <<>>
    BY <1>1, <1>2, <1>3
  <2>2. DOMAIN told[c] = {}
    BY <2>1
  <2> QED
    BY <2>1, <2>2 DEF Completed
<1>5. \A x \in Ext : c \notin live[x]
  <2>1. \A x \in Ext : c \in live[x] => c <= Len(sent)
    BY ContextOfSender
  <2> QED
    BY <1>2, <1>3, <2>1
<1>6. \A x \in Ext : live'[x] \subseteq live[x] \cup {c}
  BY <1>1 DEF TypeOK
<1>7. ToldInv'
  <2>1. \A d \in Ctx : told'[d] # <<>> => d <= Len(sent')
    BY <1>1, <1>2 DEF Ctx
  <2>2. \A d \in Ctx : Completed(d)' => \A x \in Ext : d \notin live'[x]
    BY <1>4, <1>6, ToldAgain DEF ToldInv, Completed
  <2> QED
    BY <2>1, <2>2, ToldAgainNext DEF ToldInv
<1>8. Settled' = Settled /\ Open' = Open /\ Open[e] /\ c \notin Settled
  BY <1>4 DEF Settled, Open, Completed
<1>9. CASE handler = "none"
  <2>1. live' = live
    BY <1>1, <1>9 DEF TypeOK
  <2> QED
    BY <1>7, <1>8, <2>1
<1>10. CASE handler # "none"
  <2>1. live' = [live EXCEPT ![e] = @ \cup {c}]
    BY <1>1, <1>10
  <2>2. Promise!Register(e, c)
    BY <1>5, <1>8, <2>1 DEF Promise!Register, Settled, Open
  <2> QED
    BY <1>1, <1>7, <2>2
<1> QED
  BY <1>9, <1>10

\* A message that is handled calls one handler or none.
LEMMA HandleInMsgCalls ==
    ASSUME TypeOK, NEW e \in Ext, NEW m \in Msg, NEW left, HandleInMsg(e, m, left),
           UNCHANGED <<state, sent>>
    PROVE  Called(e)
<1>1. CASE UNCHANGED <<live, told>>
  BY <1>1 DEF Called
<1>2. CASE /\ state[e] \in {"starting", "running", "stopping", "flushing"}
           /\ m.kind = "result"
           /\ TakeResult(e, m, left)
  <2>1. m \in ResultMsg
    BY <1>2, MsgFields
  <2> QED
    BY <1>2, <2>1, TakeResultTells DEF Called
<1> QED
  BY <1>1, <1>2 DEF HandleInMsg, histVars

\* What a step is in the terms of ResultPromise.
Promised ==
    /\ ToldInv'
    /\ \/ UNCHANGED <<live, Settled, Open>>
       \/ \E e \in Ext : \/ \E c \in Ctx : Promise!Register(e, c) \/ Promise!Settle(e, c)
                         \/ Promise!Leave(e)

\* A call to a handler is a step of the promise.
LEMMA CalledPromised ==
    ASSUME TypeOK, Tables, ToldInv, NEW e \in Ext, Called(e), Open' = Open
    PROVE  Promised
  BY CalledTold, CalledSettles DEF Promised

\* Nothing is told and nobody leaves.
LEMMA QuietPromised ==
    ASSUME ToldInv, UNCHANGED <<live, told, sent>>, Open' = Open
    PROVE  Promised
  BY DEF Promised, ToldInv, ToldOnce, Settled

\* The state of e moves on, not into on_deinit.
LEMMA MovesOn ==
    ASSUME TypeOK, NEW e \in Ext, NEW s,
           state' = [state EXCEPT ![e] = s],
           state[e] \in {"deinit", "deleted"} <=> s \in {"deinit", "deleted"}
    PROVE  Open' = Open
<1>1. \A x \in Ext : state'[x] = IF x = e THEN s ELSE state[x]
  BY DEF TypeOK
<1> QED
  BY <1>1 DEF Open

\* Every step of CmdFlow is a step of ResultPromise or none, if the origins send in
\* time.
LEMMA PromisedStep ==
    ASSUME SendsInTime
    PROVE  TypeOK /\ Tables /\ FlushCovers /\ ToldInv /\ [Next]_vars => Promised
<1> SUFFICES ASSUME TypeOK, Tables, FlushCovers, ToldInv, [Next]_vars PROVE Promised
  OBVIOUS
<1>0. UNCHANGED state => Open' = Open
  BY DEF Open
<1>1. ASSUME NEW t \in Thread, HandleDirect(t)
      PROVE  Promised
  <2> DEFINE m == Head(direct[t])
  <2>1. m \in Msg
    BY <1>1, MsgLists DEF HandleDirect, TypeOK
  <2>2. m.dst \in Ext
    BY <2>1, MsgFields
  <2>3. HandleInMsg(m.dst, m, Tail(direct[t])) /\ UNCHANGED <<state, sent>>
    BY <1>1 DEF HandleDirect, lifeVars
  <2> HIDE DEF m
  <2>4. Called(m.dst)
    BY <2>1, <2>2, <2>3, HandleInMsgCalls
  <2> QED
    BY <1>0, <2>2, <2>3, <2>4, CalledPromised
<1>2. ASSUME NEW t \in Thread, Receive(t)
      PROVE  Promised
  <2> DEFINE m == Head(queue[t])
  <2>1. m \in Msg \cup {CloseTask} /\ UNCHANGED <<state, sent>>
    BY <1>2 DEF Receive, TypeOK
  <2>2. CASE m.kind # "close" /\ HandleInMsg(m.dst, m, <<>>)
    <3>1. m \in Msg
      BY <2>1, <2>2 DEF CloseTask
    <3>2. m.dst \in Ext
      BY <3>1, MsgFields
    <3> HIDE DEF m
    <3>3. Called(m.dst)
      BY <2>1, <2>2, <3>1, <3>2, HandleInMsgCalls
    <3> QED
      BY <1>0, <2>1, <3>2, <3>3, CalledPromised
  <2>3. CASE UNCHANGED <<live, histVars>>
    BY <1>0, <2>1, <2>3, QuietPromised DEF histVars
  <2> QED
    BY <1>2, <2>2, <2>3 DEF Receive
<1>3. ASSUME NEW e \in Ext, NEW h \in Handlers, Send(e, h)
      PROVE  Promised
  <2>1. /\ Launch(e, nextId, h, nextId + 1) /\ h \in HandlerKinds
        /\ state[e] \notin {"deinit", "deleted"} /\ UNCHANGED <<state, told>>
    BY <1>3, ActorsAssumption DEF Send, SendsInTime, lifeVars, histVars
  <2> QED
    BY <2>1, LaunchRegisters DEF Promised
<1>4. ASSUME NEW e \in Ext, NEW i \in held[e], NEW h \in Handlers, Forward(e, i, h)
      PROVE  Promised
  <2>1. /\ Launch(e, i, h, nextId) /\ h \in HandlerKinds
        /\ state[e] \notin {"deinit", "deleted"} /\ UNCHANGED <<state, told>>
    BY <1>4, ActorsAssumption DEF Forward, SendsInTime, lifeVars, histVars
  <2> QED
    BY <2>1, LaunchRegisters DEF Promised
<1>5. ASSUME NEW e \in Ext, NEW p \in outPaths[e], OutPathTimeout(e, p)
      PROVE  Promised
  <2>1. MadeUpResult(e, p) \in ResultMsg
    BY OutPathFields, ResultIsMsg DEF MadeUpResult, TypeOK
  <2>2. Called(e) /\ UNCHANGED state
    BY <1>5, <2>1, TakeResultTells DEF OutPathTimeout, TimersRun, Called, lifeVars
  <2> QED
    BY <1>0, <2>2, CalledPromised
<1>6. ASSUME NEW e \in Ext, FlushOne(e)
      PROVE  Promised
  <2>1. PICK p \in OutPath : TakeResult(e, MadeUpResult(e, p), <<>>)
    BY <1>6 DEF FlushOne, Oldest, TypeOK
  <2>2. MadeUpResult(e, p) \in ResultMsg
    BY OutPathFields, ResultIsMsg DEF MadeUpResult
  <2>3. Called(e) /\ UNCHANGED state
    BY <1>6, <2>1, <2>2, TakeResultTells DEF FlushOne, Called
  <2> QED
    BY <1>0, <2>3, CalledPromised
<1>7. CASE \/ EngineDispatch \/ EngineClose \/ CloseThreads
           \/ \E t \in Thread : DispatchLeft(t)
           \/ UNCHANGED vars
  <2>1. UNCHANGED <<live, told, sent, state>>
    BY <1>7 DEF EngineDispatch, EngineClose, CloseThreads, DispatchLeft, vars,
                lifeVars, histVars
  <2> QED
    BY <1>0, <2>1, QuietPromised
<1>8. ASSUME NEW e \in Ext,
             \/ \E i \in held[e] : \/ \E ok \in BOOLEAN : ReturnResult(e, i, ok)
                                   \/ ReturnPartial(e, i)
             \/ ReceivePending(e)
             \/ \E p \in inPaths[e] : InPathTimeout(e, p)
      PROVE  Promised
  <2>1. UNCHANGED <<live, told, sent, state>>
    BY <1>8 DEF ReturnResult, ReturnPartial, ReceivePending, InPathTimeout, lifeVars,
                histVars
  <2> QED
    BY <1>0, <2>1, QuietPromised
<1>9. ASSUME NEW e \in Ext, StartDone(e) \/ StopDone(e) \/ TimersClosed(e) \/ DeinitDone(e)
      PROVE  Promised
  <2>1. /\ UNCHANGED <<live, told, sent>>
        /\ \E s : /\ state' = [state EXCEPT ![e] = s]
                  /\ state[e] \in {"deinit", "deleted"} <=> s \in {"deinit", "deleted"}
    BY <1>9 DEF StartDone, StopDone, TimersClosed, DeinitDone, histVars
  <2>2. PICK s : /\ state' = [state EXCEPT ![e] = s]
                 /\ state[e] \in {"deinit", "deleted"} <=> s \in {"deinit", "deleted"}
    BY <2>1
  <2>3. Open' = Open
    BY <2>2, MovesOn
  <2> QED
    BY <1>0, <2>1, <2>3, QuietPromised
<1>10. ASSUME NEW e \in Ext, Deinit(e)
       PROVE  Promised
  <2>1. /\ UNCHANGED <<live, told, sent>>
        /\ state[e] = "flushing" /\ flush[e] = {}
        /\ state' = [state EXCEPT ![e] = "deinit"]
    BY <1>10 DEF Deinit, histVars
  <2>2. live[e] = {} /\ Open[e]
    BY <2>1 DEF FlushCovers, Tables, HandlerContexts, Open
  <2>3. Settled' = Settled /\ ToldInv'
    BY <2>1 DEF Settled, ToldInv, ToldOnce
  <2>4. Open' = [Open EXCEPT ![e] = FALSE]
    <3>1. \A x \in Ext : state'[x] = IF x = e THEN "deinit" ELSE state[x]
      BY <2>1 DEF TypeOK
    <3> QED
      BY <3>1 DEF Open
  <2>5. Promise!Leave(e)
    BY <2>1, <2>2, <2>3, <2>4 DEF Promise!Leave, Settled, Open
  <2> QED
    BY <2>3, <2>5 DEF Promised
<1> QED
  BY <1>1, <1>2, <1>3, <1>4, <1>5, <1>6, <1>7, <1>8, <1>9, <1>10 DEF Next

\* A handler is told once that its command is completed, and no extension goes on to
\* on_deinit while one of its handlers waits, however results, timeouts and the
\* flush of a close meet: what ResultPromise says (extension/msg_handling.c:103-158,
\* extension/internal/close.c:29-104).  It holds for extensions that send in time.
THEOREM PromiseHolds ==
    ASSUME SendsInTime
    PROVE  Spec => PromiseKept
<1>1. Init => Promise!PromiseInit /\ ToldInv
  <2> SUFFICES ASSUME Init PROVE Promise!PromiseInit /\ ToldInv
    OBVIOUS
  <2>1. \A c \in Ctx : told[c] = <<>> /\ ~Completed(c)
    BY DEF Init, Completed
  <2>2. Settled = {} /\ Open = [e \in Ext |-> TRUE]
    BY <2>1 DEF Settled, Open, Init, Completed
  <2>3. Promise!PromiseInit
    BY <2>2 DEF Promise!PromiseInit, Settled, Open, Init
  <2>4. ToldOnce
    BY <2>1, ToldAgain
  <2> QED
    BY <2>3, <2>4 DEF ToldInv, Init
<1>2. /\ TypeOK /\ Tables /\ FlushCovers /\ ToldInv /\ [Next]_vars
      => ToldInv' /\ [Promise!PromiseNext]_(Promise!promiseVars)
  BY PromisedStep DEF Promised, Promise!PromiseNext, Promise!promiseVars, Settled, Open
<1>3. IInv => TypeOK /\ Tables
  BY DEF IInv, PathInv, Tables
<1> QED
  BY <1>1, <1>2, <1>3, CloseStep, PTL DEF Spec, PromiseKept, Promise!PromiseSpec
=============================================================================

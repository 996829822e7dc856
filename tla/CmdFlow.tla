------------------------------ MODULE CmdFlow ------------------------------
(***************************************************************************)
(* Commands and their results between the extensions of one graph: the     *)
(* path tables of the extensions, the result groups of commands with       *)
(* several destinations, the path timers, the queues between the threads   *)
(* and the flushing of the paths when an extension closes.                 *)
(*                                                                         *)
(* The extensions of a group share a thread.  A message for an extension   *)
(* of the same thread is handled at once, inside the call that sends it;   *)
(* any other goes through the engine's queue of extension messages and     *)
(* then through the runloop of the destination's thread.                   *)
(*                                                                         *)
(* A send call is named by its number, the context of its handler.  In     *)
(* messages and IN paths the context is a history field: no guard reads    *)
(* it.                                                                     *)
(*                                                                         *)
(* The definitions named Bad... are not part of the specification: each is *)
(* a definition that follows with a plausible bug in it, and PROJECT.json  *)
(* says which property of which run finds that bug.                        *)
(***************************************************************************)
EXTENDS Integers, Sequences, SequencesExt

CONSTANTS
    Ext,            \* the extensions
    ThreadOf,       \* ThreadOf[e]: the extension thread (group) of e
    Route,          \* Route[e]: where the graph sends a command leaving e
    Policy,         \* Policy[e]: the result return policy of those dests
    Origins,        \* extensions that send commands of their own
    Relays,         \* extensions that forward a command they receive
    Streamers,      \* extensions that return non-final results
    Handlers,       \* how commands are sent: "none", "send_cmd", "send_cmd_ex"
    SendStates,     \* states in which an origin's code sends commands
    SchemaErrors,   \* BOOLEAN: messages may fail the schema of the extension
                    \* they enter, and results that of the one they leave
    InTimeouts,     \* BOOLEAN: IN paths may expire
    OutTimeouts,    \* BOOLEAN: OUT paths may expire
    MayClose,       \* BOOLEAN: the engine may close
    MaxId,          \* bound on the command ids generated
    MaxSend,        \* bound on the send calls
    MaxPartial,     \* bound on the non-final results returned
    None            \* no extension

Policies == {"first_error_or_first_ok", "first_error_or_last_ok",
             "each_ok_and_error"}

HandlerKinds == {"none", "send_cmd", "send_cmd_ex"}

\* The part of the life cycle the message handling depends on: before
\* on_start_done, up to on_stop_done, while the path timers close, while the
\* remaining paths are flushed, in on_deinit, and removed from the store.
States == {"starting", "running", "stopping", "flushing", "deinit", "deleted"}

Thread == {ThreadOf[e] : e \in Ext}

ASSUME GraphAssumption ==
    /\ None \notin Ext
    /\ DOMAIN ThreadOf = Ext
    /\ Route \in [Ext -> Seq(Ext)]
    /\ Policy \in [Ext -> Policies]

ASSUME ActorsAssumption ==
    /\ Origins \subseteq Ext
    /\ Relays \subseteq Ext
    /\ Streamers \subseteq Ext
    /\ Handlers \subseteq HandlerKinds
    /\ SendStates \subseteq States
    /\ {SchemaErrors, InTimeouts, OutTimeouts, MayClose} \subseteq BOOLEAN

ASSUME BoundAssumption ==
    /\ MaxId \in Nat
    /\ MaxSend \in Nat
    /\ MaxPartial \in Nat

\* Streamed results and several destinations exclude each other: the runtime
\* stops with an assertion when they meet (extension/msg_handling.c:130).
ASSUME StreamingAssumption ==
    Streamers # {} => \A e \in Ext : Len(Route[e]) <= 1

Id == 1 .. MaxId
Ctx == 1 .. MaxSend
NoId == 0            \* an empty command id string

VARIABLES
    state,      \* state[e] \in States
    inPaths,    \* inPaths[e]: the IN paths of e
    outPaths,   \* outPaths[e]: the OUT paths of e
    group,      \* group[c]: the members of the path group of send call c
    live,       \* live[e]: the handler contexts of e that are allocated
    held,       \* held[e]: ids of the commands the code of e holds
    pending,    \* pending[e]: messages waiting for on_start_done of e
    queue,      \* queue[t]: messages posted to the runloop of thread t
    engineQueue,\* the engine's queue of messages from extensions
    direct,     \* direct[t]: messages t has still to dispatch, innermost first
    active,     \* active[t]: the extension whose callback t is running
    flush,      \* flush[e]: OUT paths whose error result is still to handle
    engine,     \* "open", "closing", or "closed": the threads were told
    stopping,   \* threads whose extensions were told to stop
    nextId,     \* the next command id to generate
    partials,   \* non-final results returned so far
    sent,       \* history: sent[c], who sent and with which handler
    heard,      \* history: heard[c], the results that reached the paths of c
    told        \* history: told[c], the results given to the handler of c

pathVars  == <<inPaths, outPaths, group>>
netVars   == <<queue, engineQueue, direct>>
lifeVars  == <<state, flush, stopping>>
histVars  == <<heard, told>>
vars == <<lifeVars, pathVars, live, held, pending, netVars, active, engine,
          nextId, partials, sent, histVars>>

-----------------------------------------------------------------------------
\* Paths, groups and messages.

\* An IN path: the id the command goes by in this extension, the id it had
\* when it left the previous one (NoId if that is the same), and its source.
InPath == [id : Id, orig : Id \cup {NoId}, src : Ext, ctx : Ctx]

\* An OUT path: one for each destination of a send call.
OutPath == [id : Id, orig : Id \cup {NoId}, handler : HandlerKinds, ctx : Ctx]

\* A member of a path group: an OUT path and its cached result.
Member == [id : Id, cached : {"none", "ok", "error"}]

CmdMsg == [kind : {"cmd"}, id : Id, ctx : Ctx, src : Ext, dst : Ext]

\* A command result: its status and whether it is the last one.
ResultMsg == [kind : {"result"}, id : Id, ctx : Ctx, dst : Ext,
              ok : BOOLEAN, final : BOOLEAN]

CloseTask == [kind |-> "close"]

Msg == CmdMsg \cup ResultMsg

Cmd(i, c, s, d) == [kind |-> "cmd", id |-> i, ctx |-> c, src |-> s, dst |-> d]

Result(i, c, d, ok, final) ==
    [kind |-> "result", id |-> i, ctx |-> c, dst |-> d, ok |-> ok,
     final |-> final]

Status(ok) == IF ok THEN "ok" ELSE "error"

\* A result takes the saved id even from a path that saved none.
BadReverted(p) == p.orig

\* The id a result takes back when it passes a path.
Reverted(p) == IF p.orig # NoId THEN p.orig ELSE p.id

InPathsOf(e, i) == {p \in inPaths[e] : p.id = i}

PathsOfCtx(e, c) == {p \in outPaths[e] : p.ctx = c}

\* The first of some OUT paths in the order of the list, which is the order
\* of the send calls and, in a send call, that of the ids.
Oldest(S) == {p \in S : \A q \in S : \/ p.ctx < q.ctx
                                     \/ p.ctx = q.ctx /\ p.id <= q.id}

FirstOutPath(e, i) == Oldest({p \in outPaths[e] : p.id = i})

\* The member keeps its place in the group.
BadAnswered(m, k, ok) == [m EXCEPT ![k].cached = Status(ok)]

\* The group with the result of member k cached: the member moves to the end.
Answered(m, k, ok) ==
    Append(RemoveAt(m, k), [id |-> m[k].id, cached |-> Status(ok)])

\* The first OK decides although other members have no result.
BadResolve(policy, m) == IF policy = "each_ok_and_error" THEN 1 ELSE Len(m)

\* The position of the member that decides a group, 0 if it is undecided.
Resolve(policy, m) ==
    LET errors == {k \in DOMAIN m : m[k].cached = "error"}
        undecided == \E k \in DOMAIN m : m[k].cached = "none"
    IN  CASE policy = "each_ok_and_error" -> Len(m)
          [] policy # "each_ok_and_error" /\ errors # {} ->
                 Min(errors)
          [] policy # "each_ok_and_error" /\ errors = {} /\ undecided -> 0
          [] policy = "first_error_or_first_ok" /\ errors = {} /\ ~undecided -> 1
          [] policy = "first_error_or_last_ok" /\ errors = {} /\ ~undecided ->
                 Len(m)

\* What a decided group leaves behind: with the each-policy only the deciding
\* member w goes, otherwise the whole group.
BadLeftInGroup(policy, m, w) == IF Len(m) > 1 THEN m ELSE <<>>

LeftInGroup(policy, m, w) ==
    IF policy = "each_ok_and_error" THEN RemoveAt(m, w) ELSE <<>>

\* The paths that go when path q decides the group m of e.
BadDecided(e, q, m) == {q}

Decided(e, q, m) ==
    IF Policy[e] = "each_ok_and_error" THEN {q}
    ELSE {r \in PathsOfCtx(e, q.ctx) : \E j \in DOMAIN m : m[j].id = r.id}

-----------------------------------------------------------------------------
Init ==
    /\ state = [e \in Ext |-> "starting"]
    /\ inPaths = [e \in Ext |-> {}]
    /\ outPaths = [e \in Ext |-> {}]
    /\ group = [c \in Ctx |-> <<>>]
    /\ live = [e \in Ext |-> {}]
    /\ held = [e \in Ext |-> {}]
    /\ pending = [e \in Ext |-> <<>>]
    /\ queue = [t \in Thread |-> <<>>]
    /\ engineQueue = <<>>
    /\ direct = [t \in Thread |-> <<>>]
    /\ active = [t \in Thread |-> None]
    /\ flush = [e \in Ext |-> {}]
    /\ engine = "open"
    /\ stopping = {}
    /\ nextId = 1
    /\ partials = 0
    /\ sent = <<>>
    /\ heard = [c \in Ctx |-> <<>>]
    /\ told = [c \in Ctx |-> <<>>]

-----------------------------------------------------------------------------
\* What the threads do next.

\* The thread may go back to its runloop before the pending messages are done.
BadInLoop(e) == state[e] = "flushing"

\* e is in the middle of a loop of the runtime over several messages: those
\* that came before on_start_done, or the made-up results of a close.
InLoop(e) == \/ state[e] = "running" /\ pending[e] # <<>>
             \/ state[e] = "flushing"

\* The thread t is back in its runloop.
Free(t) == /\ direct[t] = <<>>
           /\ \A e \in Ext : ThreadOf[e] = t => ~InLoop(e)

\* The code of e may run: from the runloop, or in a callback t is in.
\* Inside an outer call a callback takes one step here; more follow later.
MayRun(e) == \/ Free(ThreadOf[e])
             \/ active[ThreadOf[e]] = e

\* Only the extension e, or nobody, is now in a callback of its thread.
Running(e) == active' = [active EXCEPT ![ThreadOf[e]] = e]
NotRunning(e) == active' = [active EXCEPT ![ThreadOf[e]] = None]

\* Thread t dispatches msgs; what it had left to dispatch comes after them,
\* when the callback that sends msgs is over.  Messages to other threads go to
\* the engine's queue; it stops at the first one for itself, to handle it
\* before it goes on.
Emit(t, msgs, left) ==
    LET all == msgs \o left
    IN  \E n \in 0 .. Len(msgs) :
          /\ \A k \in 1 .. n : ThreadOf[all[k].dst] # t
          /\ n < Len(msgs) => ThreadOf[all[n + 1].dst] = t
          /\ engineQueue' = engineQueue \o SubSeq(all, 1, n)
          /\ direct' = [direct EXCEPT ![t] = SubSeq(all, n + 1, Len(all))]

-----------------------------------------------------------------------------
\* Commands leaving an extension.

\* e sends the command with id i: to the first destination under that id, to
\* each of the others as a clone with an id of its own, numbered from fresh.
\* All the OUT paths exist before the first message is dispatched.
Launch(e, i, handler, fresh) ==
    LET dests  == Route[e]
        c      == Len(sent) + 1
        pid(k) == IF k = 1 THEN i ELSE fresh + (k - 2)
    IN  /\ dests # <<>>
        /\ c \in Ctx
        /\ fresh + (Len(dests) - 2) <= MaxId
        /\ sent' = Append(sent, [by |-> e, handler |-> handler])
        /\ outPaths' = [outPaths EXCEPT ![e] = @ \cup
             {[id |-> pid(k), orig |-> IF k = 1 THEN NoId ELSE i,
               handler |-> handler, ctx |-> c] : k \in DOMAIN dests}]
        /\ group' = [group EXCEPT ![c] =
             IF Len(dests) > 1
               THEN [k \in DOMAIN dests |-> [id |-> pid(k), cached |-> "none"]]
               ELSE <<>>]
        /\ live' = [live EXCEPT ![e] =
             IF handler = "none" THEN @ ELSE @ \cup {c}]
        /\ Emit(ThreadOf[e], [k \in DOMAIN dests |-> Cmd(pid(k), c, e, dests[k])],
                direct[ThreadOf[e]])
        /\ nextId' = fresh + (Len(dests) - 1)

\* The code of e sends a command of its own.
Send(e, handler) ==
    /\ e \in Origins
    /\ state[e] \in SendStates
    /\ MayRun(e)
    /\ nextId \in Id
    /\ Launch(e, nextId, handler, nextId + 1)
    /\ NotRunning(e)
    /\ UNCHANGED <<lifeVars, inPaths, held, pending, queue, engine, partials,
                   histVars>>

\* The code of e passes on a command it received; its result is returned as
\* it comes, by the runtime if there is no handler.
Forward(e, i, handler) ==
    /\ e \in Relays
    /\ state[e] \in {"running", "stopping"} \cup (SendStates \cap {"flushing"})
    /\ MayRun(e)
    /\ i \in held[e]
    /\ Launch(e, i, handler, nextId)
    /\ held' = [held EXCEPT ![e] = @ \ {i}]
    /\ NotRunning(e)
    /\ UNCHANGED <<lifeVars, inPaths, pending, queue, engine, partials, histVars>>

-----------------------------------------------------------------------------
\* Results leaving an extension.

\* A result for the command i of e goes back along its IN path; without one
\* it is discarded.  The thread had left to dispatch.
ReturnTo(e, i, ok, final, left) ==
    \/ /\ InPathsOf(e, i) = {}
       /\ Emit(ThreadOf[e], <<>>, left)
       /\ UNCHANGED inPaths
    \/ \E p \in InPathsOf(e, i) :
         /\ inPaths' = IF final THEN [inPaths EXCEPT ![e] = @ \ {p}] ELSE inPaths
         /\ Emit(ThreadOf[e], <<Result(Reverted(p), p.ctx, p.src, ok, final)>>,
                 left)

\* The IN path goes before the schema is asked.
BadRefused(e, i, left) ==
    /\ SchemaErrors
    /\ InPathsOf(e, i) # {}
    /\ inPaths' = [inPaths EXCEPT ![e] = @ \ InPathsOf(e, i)]
    /\ Emit(ThreadOf[e], <<>>, left)

\* The schema of e itself refuses a result that the runtime, or a handler of
\* e, returns for the command i: nothing is sent, and the IN path stays.
Refused(e, i, left) ==
    /\ SchemaErrors
    /\ InPathsOf(e, i) # {}
    /\ Emit(ThreadOf[e], <<>>, left)
    /\ UNCHANGED inPaths

\* The code of e returns a result for a command it holds.  If the schema of e
\* refuses the result, nothing has changed: the code is told so and keeps the
\* command, for which it may return another one.
ReturnResult(e, i, ok) ==
    /\ state[e] \in {"running", "stopping", "flushing", "deinit"}
    /\ MayRun(e)
    /\ i \in held[e]
    /\ ReturnTo(e, i, ok, TRUE, direct[ThreadOf[e]])
    /\ held' = [held EXCEPT ![e] = @ \ {i}]
    /\ NotRunning(e)
    /\ UNCHANGED <<lifeVars, outPaths, group, live, pending, queue, engine,
                   nextId, partials, sent, histVars>>

ReturnPartial(e, i) ==
    /\ e \in Streamers
    /\ state[e] \in {"running", "stopping", "flushing", "deinit"}
    /\ MayRun(e)
    /\ i \in held[e]
    /\ partials < MaxPartial
    /\ partials' = partials + 1
    /\ ReturnTo(e, i, TRUE, FALSE, direct[ThreadOf[e]])
    /\ NotRunning(e)
    /\ UNCHANGED <<lifeVars, outPaths, group, live, held, pending, queue, engine,
                   nextId, sent, histVars>>

-----------------------------------------------------------------------------
\* Messages entering an extension.

\* A command that comes round a loop keeps its id.
BadTakeCmd(e, m, left) ==
    /\ inPaths' = [inPaths EXCEPT ![e] = @ \cup
         {[id |-> m.id, orig |-> NoId, src |-> m.src, ctx |-> m.ctx]}]
    /\ held' = [held EXCEPT ![e] = @ \cup {m.id}]
    /\ Emit(ThreadOf[e], <<>>, left)
    /\ UNCHANGED nextId

\* A command entering e: its IN path gets a new id when the table has a path
\* with the command's id already (the command came round a loop).  One that
\* fails the schema is answered with an error along the path just made; if the
\* schema refuses the answer as well, the path stays and nobody is told.
TakeCmd(e, m, left) ==
    LET again == InPathsOf(e, m.id) # {}
        i     == IF again THEN nextId ELSE m.id
    IN  /\ again => nextId \in Id
        /\ nextId' = IF again THEN nextId + 1 ELSE nextId
        /\ \/ /\ inPaths' = [inPaths EXCEPT ![e] = @ \cup
                  {[id |-> i, orig |-> IF again THEN m.id ELSE NoId,
                    src |-> m.src, ctx |-> m.ctx]}]
              /\ held' = [held EXCEPT ![e] = @ \cup {i}]
              /\ Emit(ThreadOf[e], <<>>, left)
           \/ /\ SchemaErrors
              /\ Emit(ThreadOf[e], <<Result(m.id, m.ctx, m.src, FALSE, TRUE)>>,
                      left)
              /\ UNCHANGED <<inPaths, held>>
           \/ /\ SchemaErrors
              /\ inPaths' = [inPaths EXCEPT ![e] = @ \cup
                  {[id |-> i, orig |-> IF again THEN m.id ELSE NoId,
                    src |-> m.src, ctx |-> m.ctx]}]
              /\ Emit(ThreadOf[e], <<>>, left)
              /\ UNCHANGED held

\* Any result frees the context of the handler.
BadDeliver(e, p, ok, final, completed, left) ==
    /\ live' = [live EXCEPT ![e] = @ \ {p.ctx}]
    /\ told' = IF p.handler = "none" \/ (p.handler = "send_cmd" /\ ~completed)
               THEN told
               ELSE [told EXCEPT ![p.ctx] = Append(@,
                        [id |-> p.id, ok |-> ok, completed |-> completed])]
    /\ ReturnTo(e, Reverted(p), ok, final, left)

\* A result, decided on path p of e, is given to the extension: to the
\* handler (that of send_cmd sees only the completing one), which frees its
\* context at completion, and back along the IN path of a forwarded command,
\* unless the schema refuses it on its way out.  A result that fails the schema
\* on its way in arrives as an error.
Deliver(e, p, ok, final, completed, left) ==
    \E seen \in {ok} \cup (IF SchemaErrors THEN {FALSE} ELSE {}) :
      /\ live' = [live EXCEPT ![e] = IF completed THEN @ \ {p.ctx} ELSE @]
      /\ \/ /\ p.handler = "send_cmd" /\ ~completed
            /\ Emit(ThreadOf[e], <<>>, left)
            /\ UNCHANGED <<inPaths, told>>
         \/ /\ ~(p.handler = "send_cmd" /\ ~completed)
            /\ told' = IF p.handler = "none" THEN told
                       ELSE [told EXCEPT ![p.ctx] = Append(@,
                                [id |-> p.id, ok |-> seen, completed |-> completed])]
            /\ \/ ReturnTo(e, Reverted(p), seen, final, left)
               \/ Refused(e, Reverted(p), left)

\* Any result completes the command.
BadDecideSingle(e, p, ok, final, left) ==
    /\ group[p.ctx] = <<>>
    /\ outPaths' = [outPaths EXCEPT ![e] = IF final THEN @ \ {p} ELSE @]
    /\ Deliver(e, p, ok, final, TRUE, left)
    /\ UNCHANGED group

\* The result of a path that belongs to no group.
DecideSingle(e, p, ok, final, left) ==
    /\ group[p.ctx] = <<>>
    /\ outPaths' = [outPaths EXCEPT ![e] = IF final THEN @ \ {p} ELSE @]
    /\ Deliver(e, p, ok, final, final, left)
    /\ UNCHANGED group

\* The result is cached in the group and the group stays undecided.
KeepInGroup(e, p, ok, left) ==
    \E k \in DOMAIN group[p.ctx] :
        /\ group[p.ctx][k].id = p.id
        /\ LET m == Answered(group[p.ctx], k, ok)
           IN  /\ Resolve(Policy[e], m) = 0
               /\ group' = [group EXCEPT ![p.ctx] = m]
        /\ Emit(ThreadOf[e], <<>>, left)
        /\ UNCHANGED <<inPaths, outPaths, live, told>>

\* The result decides the group; the command is completed when the group is
\* empty.
DecideGroup(e, p, ok, left) ==
    \E k \in DOMAIN group[p.ctx] :
        /\ group[p.ctx][k].id = p.id
        /\ LET m    == Answered(group[p.ctx], k, ok)
               w    == Resolve(Policy[e], m)
               rest == LeftInGroup(Policy[e], m, w)
           IN  /\ w # 0
               /\ group' = [group EXCEPT ![p.ctx] = rest]
               /\ \E q \in PathsOfCtx(e, p.ctx) :
                    /\ q.id = m[w].id
                    /\ outPaths' = [outPaths EXCEPT ![e] = @ \ Decided(e, q, m)]
                    /\ Deliver(e, q, m[w].cached = "ok", TRUE, rest = <<>>, left)

\* A result entering e, from the network or made up by the runtime: without
\* an OUT path it is dropped.
TakeResult(e, m, left) ==
    \/ /\ FirstOutPath(e, m.id) = {}
       /\ Emit(ThreadOf[e], <<>>, left)
       /\ UNCHANGED <<pathVars, live, histVars>>
    \/ \E p \in FirstOutPath(e, m.id) :
         /\ heard' = [heard EXCEPT ![p.ctx] = Append(@,
                        [id |-> m.id, ok |-> m.ok, final |-> m.final,
                         of |-> m.ctx])]
         /\ \/ DecideSingle(e, p, m.ok, m.final, left)
            \/ KeepInGroup(e, p, m.ok, left)
            \/ DecideGroup(e, p, m.ok, left)

\* A message for an extension that left the store: a command is answered
\* with an error.
Refuse(t, m, left) ==
    IF m.kind = "cmd"
      THEN Emit(t, <<Result(m.id, m.ctx, m.src, FALSE, TRUE)>>, left)
      ELSE Emit(t, <<>>, left)

\* The thread of e handles the message m for e, with left still to dispatch.
HandleInMsg(e, m, left) ==
    \/ /\ state[e] = "starting" /\ m.kind = "cmd"
       /\ pending' = [pending EXCEPT ![e] = Append(@, m)]
       /\ Emit(ThreadOf[e], <<>>, left)
       /\ UNCHANGED <<pathVars, live, held, nextId, histVars>>
    \/ /\ state[e] \in {"starting", "running", "stopping", "flushing"}
       /\ m.kind = "result"
       /\ TakeResult(e, m, left)
       /\ UNCHANGED <<held, pending, nextId>>
    \/ /\ state[e] \in {"running", "stopping", "flushing"} /\ m.kind = "cmd"
       /\ TakeCmd(e, m, left)
       /\ UNCHANGED <<outPaths, group, live, pending, histVars>>
    \/ /\ state[e] = "deinit"
       /\ Emit(ThreadOf[e], <<>>, left)
       /\ UNCHANGED <<pathVars, live, held, pending, nextId, histVars>>
    \/ /\ state[e] = "deleted"
       /\ Refuse(ThreadOf[e], m, left)
       /\ UNCHANGED <<pathVars, live, held, pending, nextId, histVars>>

\* A message of thread t for itself, handled inside the call that sends it.
HandleDirect(t) ==
    /\ direct[t] # <<>>
    /\ LET m == Head(direct[t])
       IN  /\ ThreadOf[m.dst] = t
           /\ HandleInMsg(m.dst, m, Tail(direct[t]))
           /\ Running(m.dst)
    /\ UNCHANGED <<lifeVars, queue, engine, partials, sent>>

\* The callback is over, and thread t goes on with a message it had left for
\* another thread.
DispatchLeft(t) ==
    /\ direct[t] # <<>>
    /\ ThreadOf[Head(direct[t]).dst] # t
    /\ engineQueue' = Append(engineQueue, Head(direct[t]))
    /\ direct' = [direct EXCEPT ![t] = Tail(@)]
    /\ active' = [active EXCEPT ![t] = None]
    /\ UNCHANGED <<lifeVars, pathVars, live, held, pending, queue, engine, nextId,
                   partials, sent, histVars>>

\* The thread t takes the next message from its runloop.
Receive(t) ==
    /\ Free(t)
    /\ queue[t] # <<>>
    /\ queue' = [queue EXCEPT ![t] = Tail(@)]
    /\ LET m == Head(queue[t])
       IN  \/ /\ m.kind # "close"
              /\ HandleInMsg(m.dst, m, <<>>)
              /\ Running(m.dst)
              /\ UNCHANGED stopping
           \/ /\ m.kind = "close"
              /\ stopping' = stopping \cup {t}
              /\ UNCHANGED <<pathVars, live, held, pending, engineQueue, direct,
                             active, nextId, histVars>>
    /\ UNCHANGED <<state, flush, engine, partials, sent>>

\* After on_start_done the thread of e works through the messages that came
\* too early before it goes back to its runloop.
ReceivePending(e) ==
    /\ state[e] = "running"
    /\ pending[e] # <<>>
    /\ direct[ThreadOf[e]] = <<>>
    /\ pending' = [pending EXCEPT ![e] = Tail(@)]
    /\ TakeCmd(e, Head(pending[e]), <<>>)
    /\ Running(e)
    /\ UNCHANGED <<lifeVars, outPaths, group, live, queue, engine, partials, sent,
                   histVars>>

\* The engine passes on a message of an extension, unless it is closing.
EngineDispatch ==
    /\ engineQueue # <<>>
    /\ engineQueue' = Tail(engineQueue)
    /\ LET m == Head(engineQueue)
       IN  queue' = IF engine # "open" THEN queue
                    ELSE [queue EXCEPT ![ThreadOf[m.dst]] = Append(@, m)]
    /\ UNCHANGED <<lifeVars, pathVars, live, held, pending, direct, active, engine,
                   nextId, partials, sent, histVars>>

-----------------------------------------------------------------------------
\* Timers, start and close.

\* The timers run from on_configure_done until they are closed.
TimersRun(e) == /\ state[e] \in {"starting", "running", "stopping"}
                /\ Free(ThreadOf[e])

\* An expired IN path is removed; nobody is told.
InPathTimeout(e, p) ==
    /\ InTimeouts
    /\ TimersRun(e)
    /\ p \in inPaths[e]
    /\ inPaths' = [inPaths EXCEPT ![e] = @ \ {p}]
    /\ UNCHANGED <<lifeVars, outPaths, group, live, held, pending, netVars, active,
                   engine, nextId, partials, sent, histVars>>

\* The made-up result carries the id the command had before.
BadMadeUpResult(e, p) == Result(Reverted(p), p.ctx, e, FALSE, TRUE)

\* The error result the runtime makes up for an OUT path.
MadeUpResult(e, p) == Result(p.id, p.ctx, e, FALSE, TRUE)

\* An expired OUT path gets an error result.
OutPathTimeout(e, p) ==
    /\ OutTimeouts
    /\ TimersRun(e)
    /\ p \in outPaths[e]
    /\ TakeResult(e, MadeUpResult(e, p), <<>>)
    /\ Running(e)
    /\ UNCHANGED <<lifeVars, held, pending, queue, engine, nextId, partials, sent>>

StartDone(e) ==
    /\ state[e] = "starting"
    /\ Free(ThreadOf[e])
    /\ state' = [state EXCEPT ![e] = "running"]
    /\ NotRunning(e)
    /\ UNCHANGED <<flush, stopping, pathVars, live, held, pending, netVars,
                   engine, nextId, partials, sent, histVars>>

\* From here on the engine drops the messages of the extensions.
EngineClose ==
    /\ MayClose
    /\ engine = "open"
    /\ engine' = "closing"
    /\ UNCHANGED <<lifeVars, pathVars, live, held, pending, netVars, active,
                   nextId, partials, sent, histVars>>

\* Only the idle threads are told.
BadCloseThreads ==
    /\ engine = "closing"
    /\ engine' = "closed"
    /\ queue' = [t \in Thread |-> IF queue[t] = <<>> THEN <<CloseTask>> ELSE queue[t]]
    /\ UNCHANGED <<lifeVars, pathVars, live, held, pending, engineQueue, direct,
                   active, nextId, partials, sent, histVars>>

\* Every extension thread is told to close, after what its runloop has.
CloseThreads ==
    /\ engine = "closing"
    /\ engine' = "closed"
    /\ queue' = [t \in Thread |-> Append(queue[t], CloseTask)]
    /\ UNCHANGED <<lifeVars, pathVars, live, held, pending, engineQueue, direct,
                   active, nextId, partials, sent, histVars>>

\* on_stop_done: the path timers begin to close.
StopDone(e) ==
    /\ ThreadOf[e] \in stopping
    /\ state[e] = "running"
    /\ Free(ThreadOf[e])
    /\ state' = [state EXCEPT ![e] = "stopping"]
    /\ UNCHANGED <<flush, stopping, pathVars, live, held, pending, netVars, active,
                   engine, nextId, partials, sent, histVars>>

\* The IN paths stay.
BadTimersClosed(e) ==
    /\ state[e] = "stopping"
    /\ Free(ThreadOf[e])
    /\ state' = [state EXCEPT ![e] = "flushing"]
    /\ flush' = [flush EXCEPT ![e] = outPaths[e]]
    /\ NotRunning(e)
    /\ UNCHANGED <<stopping, pathVars, live, held, pending, netVars, engine,
                   nextId, partials, sent, histVars>>

\* The OUT paths are not flushed.
BadTimersClosedNoFlush(e) ==
    /\ state[e] = "stopping"
    /\ Free(ThreadOf[e])
    /\ state' = [state EXCEPT ![e] = "flushing"]
    /\ inPaths' = [inPaths EXCEPT ![e] = {}]
    /\ NotRunning(e)
    /\ UNCHANGED <<flush, stopping, outPaths, group, live, held, pending, netVars,
                   engine, nextId, partials, sent, histVars>>

\* The timers are closed: the IN paths go, and an error result is made up for
\* every OUT path that remains.
TimersClosed(e) ==
    /\ state[e] = "stopping"
    /\ Free(ThreadOf[e])
    /\ state' = [state EXCEPT ![e] = "flushing"]
    /\ inPaths' = [inPaths EXCEPT ![e] = {}]
    /\ flush' = [flush EXCEPT ![e] = outPaths[e]]
    /\ NotRunning(e)
    /\ UNCHANGED <<stopping, outPaths, group, live, held, pending, netVars, engine,
                   nextId, partials, sent, histVars>>

\* The made-up results are handled one by one, oldest path first.
FlushOne(e) ==
    /\ state[e] = "flushing"
    /\ direct[ThreadOf[e]] = <<>>
    /\ \E p \in Oldest(flush[e]) :
         /\ flush' = [flush EXCEPT ![e] = @ \ {p}]
         /\ TakeResult(e, MadeUpResult(e, p), <<>>)
    /\ Running(e)
    /\ UNCHANGED <<state, stopping, held, pending, queue, engine, nextId, partials,
                   sent>>

\* Every made-up result is handled: on_deinit.
Deinit(e) ==
    /\ state[e] = "flushing"
    /\ direct[ThreadOf[e]] = <<>>
    /\ flush[e] = {}
    /\ state' = [state EXCEPT ![e] = "deinit"]
    /\ NotRunning(e)
    /\ UNCHANGED <<flush, stopping, pathVars, live, held, pending, netVars, engine,
                   nextId, partials, sent, histVars>>

\* on_deinit_done: the extension leaves the extension store.
DeinitDone(e) ==
    /\ state[e] = "deinit"
    /\ Free(ThreadOf[e])
    /\ state' = [state EXCEPT ![e] = "deleted"]
    /\ UNCHANGED <<flush, stopping, pathVars, live, held, pending, netVars, active,
                   engine, nextId, partials, sent, histVars>>

-----------------------------------------------------------------------------
Next ==
    \/ EngineDispatch
    \/ EngineClose
    \/ CloseThreads
    \/ \E t \in Thread : HandleDirect(t) \/ DispatchLeft(t) \/ Receive(t)
    \/ \E e \in Ext :
        \/ \E h \in Handlers : Send(e, h)
        \/ \E i \in held[e] :
             \/ \E h \in Handlers : Forward(e, i, h)
             \/ \E ok \in BOOLEAN : ReturnResult(e, i, ok)
             \/ ReturnPartial(e, i)
        \/ ReceivePending(e)
        \/ \E p \in inPaths[e] : InPathTimeout(e, p)
        \/ \E p \in outPaths[e] : OutPathTimeout(e, p)
        \/ StartDone(e)
        \/ StopDone(e)
        \/ TimersClosed(e)
        \/ FlushOne(e)
        \/ Deinit(e)
        \/ DeinitDone(e)

Spec == Init /\ [][Next]_vars

\* The threads work through what they have: a runloop takes its next task, a
\* loop of the runtime its next message, a timer that is closed calls back;
\* the code of an extension calls the ..._done function of each stage.
RuntimeFairness ==
    /\ WF_vars(EngineDispatch)
    /\ WF_vars(CloseThreads)
    /\ \A t \in Thread : /\ WF_vars(HandleDirect(t))
                         /\ WF_vars(DispatchLeft(t))
                         /\ WF_vars(Receive(t))
    /\ \A e \in Ext : /\ WF_vars(ReceivePending(e))
                      /\ WF_vars(StartDone(e))
                      /\ WF_vars(StopDone(e))
                      /\ WF_vars(TimersClosed(e))
                      /\ WF_vars(FlushOne(e))
                      /\ WF_vars(Deinit(e))
                      /\ WF_vars(DeinitDone(e))

\* The code of the extensions returns a result for every command it holds.
CodeFairness ==
    \A e \in Ext, i \in Id :
        WF_vars(i \in held[e] /\ \E ok \in BOOLEAN : ReturnResult(e, i, ok))

\* The OUT path timers expire.
TimerFairness ==
    \A e \in Ext : WF_vars(\E p \in outPaths[e] : OutPathTimeout(e, p))

ReturningSpec == Spec /\ RuntimeFairness /\ CodeFairness
ExpiringSpec == Spec /\ RuntimeFairness /\ TimerFairness
-----------------------------------------------------------------------------
\* Properties.

TypeOK ==
    /\ state \in [Ext -> States]
    /\ inPaths \in [Ext -> SUBSET InPath]
    /\ outPaths \in [Ext -> SUBSET OutPath]
    /\ group \in [Ctx -> Seq(Member)]
    /\ live \in [Ext -> SUBSET Ctx]
    /\ held \in [Ext -> SUBSET Id]
    /\ pending \in [Ext -> Seq(CmdMsg)]
    /\ queue \in [Thread -> Seq(Msg \cup {CloseTask})]
    /\ engineQueue \in Seq(Msg)
    /\ direct \in [Thread -> Seq(Msg)]
    /\ active \in [Thread -> Ext \cup {None}]
    /\ flush \in [Ext -> SUBSET OutPath]
    /\ engine \in {"open", "closing", "closed"}
    /\ stopping \in SUBSET Thread
    /\ nextId \in 1 .. MaxId + 1
    /\ partials \in 0 .. MaxPartial
    /\ sent \in Seq([by : Ext, handler : HandlerKinds])
    /\ Len(sent) <= MaxSend

\* A handler context is allocated exactly as long as an OUT path refers to it
\* (ten_env/internal/send.c:183-200 frees it with the completing result,
\* path/path_table.c:193-257 holds the pointer): it is neither leaked when
\* the last path goes nor used after it was freed.
HandlerContexts ==
    \A e \in Ext :
        live[e] = {p.ctx : p \in {q \in outPaths[e] : q.handler # "none"}}

\* The members of a path group are the OUT paths of its send call, each once;
\* a send call without a group has one path at most (the assertions in
\* path/path_table.c:370-418 that every member is found in the table).
GroupsMatchTable ==
    \A e \in Ext, c \in Ctx :
        PathsOfCtx(e, c) # {} =>
            \/ /\ group[c] # <<>>
               /\ \A j, k \in DOMAIN group[c] :
                    group[c][j].id = group[c][k].id => j = k
               /\ {p.id : p \in PathsOfCtx(e, c)}
                    = {group[c][k].id : k \in DOMAIN group[c]}
            \/ /\ group[c] = <<>>
               /\ \A p, q \in PathsOfCtx(e, c) : p = q

\* What the handler of a send call of e should have been told, from the
\* results that reached its paths: without a group each of them; with the
\* each-policy each of them, the last one completing; with the others the
\* first error or, if all are OK, the result that came first or last.
Expected(e, h) ==
    LET n == Len(Route[e])
        tell(k, completed) == [id |-> h[k].id, ok |-> h[k].ok,
                               completed |-> completed]
        errors == {k \in DOMAIN h : ~h[k].ok}
    IN  IF n = 1 THEN [k \in DOMAIN h |-> tell(k, h[k].final)]
        ELSE IF Policy[e] = "each_ok_and_error"
          THEN [k \in DOMAIN h |-> tell(k, k = n)]
        ELSE IF errors # {} THEN <<tell(Min(errors), TRUE)>>
        ELSE IF Len(h) < n THEN <<>>
        ELSE IF Policy[e] = "first_error_or_first_ok" THEN <<tell(1, TRUE)>>
        ELSE <<tell(Len(h), TRUE)>>

\* What a handler sees of all that there is to tell: that of send_cmd_ex all
\* of it, that of send_cmd the completing result.
Shown(handler, all) ==
    IF handler = "send_cmd_ex" THEN all
    ELSE IF Len(all) > 0 /\ all[Len(all)].completed THEN <<all[Len(all)]>>
    ELSE <<>>

\* What is told is y, or an error in its place if it fails the schema.
AsTold(x, y) == \/ x = y
                \/ SchemaErrors /\ x = [y EXCEPT !.ok = FALSE]

\* t tells the handler what of all it should see, and after the completing
\* result there is nothing to tell.
Faithful(t, handler, all) ==
    LET shown == Shown(handler, all)
    IN  /\ \A k \in DOMAIN all : all[k].completed => k = Len(all)
        /\ Len(t) = Len(shown)
        /\ \A k \in DOMAIN shown : AsTold(t[k], shown[k])

\* The handlers are told what the result return policy promises and nothing
\* else, and nothing after the completing result, however the results are
\* interleaved with timeouts and the flushing of a close
\* (path/path_group.c:133-229, path/path_table.c:475-565,
\* extension/msg_handling.c:103-158).  A result that fails the schema arrives
\* as an error, but never the other way round (extension.c:1051-1068).
PolicyVerdict ==
    \A c \in DOMAIN sent :
        sent[c].handler # "none" =>
            Faithful(told[c], sent[c].handler, Expected(sent[c].by, heard[c]))

\* When an extension is destroyed its path tables are empty, as asserted in
\* path/path_table.c:106-117 (ten_path_table_check_empty).
TablesEmptyAtDestroy ==
    \A e \in Ext :
        state[e] = "deleted" => inPaths[e] = {} /\ outPaths[e] = {}

\* No handler is left waiting when the extension enters on_deinit: "All the
\* registered result handlers have to be called" (extension/internal/close.c:100).
AllHandlersCalled ==
    \A e \in Ext : state[e] \in {"deinit", "deleted"} => live[e] = {}

\* A result reaches the path of the very send call that caused the command:
\* "ensures accurate identification of the correct path entry in the table"
\* (path/path_table.c:205-217).
ResultsGoHome ==
    \A c \in Ctx : \A k \in DOMAIN heard[c] : heard[c][k].of = c

\* No result is on its way to an extension that has left the store of its
\* thread (the assertion in extension_thread/msg_interface/common.c:81).
NoResultForDeleted ==
    \A t \in Thread :
        /\ direct[t] # <<>>
        /\ Head(direct[t]).kind = "result"
        => state[Head(direct[t]).dst] # "deleted"

\* The commands on their way to e: put aside until on_start_done, in the
\* runloop of its thread and in the engine's queue.
InTransitTo(e) ==
    {m \in Range(pending[e]) \cup Range(queue[ThreadOf[e]]) \cup Range(engineQueue) :
        m.kind = "cmd" /\ m.dst = e}

\* None of the destinations of e shares its thread.
Apart(e) == \A k \in DOMAIN Route[e] : ThreadOf[Route[e][k]] # ThreadOf[e]

\* An extension is handed the commands of a sender in the order of the send
\* calls, although those that come before on_start_done are put aside and
\* flushed later (ten_extension_flush_all_pending_msgs, on_xxx.c:212-242).  A
\* sender with a destination in its own thread may be called back before its
\* send call is over, and what it sends there overtakes the rest of the call.
HandedInOrder ==
    [][\A e \in Ext : \A p \in inPaths'[e] \ inPaths[e] :
         Apart(p.src) =>
           \A m \in InTransitTo(e) : m.src = p.src => m.ctx >= p.ctx]_vars

\* The parts of the inductive invariant that are not properties of their own.

\* The commands under way and those held bear ids that were generated.
IssuedMsg == {m \in Msg : m.kind = "cmd" => m.id < nextId}

IdsIssued ==
    /\ held \in [Ext -> SUBSET (1 .. nextId - 1)]
    /\ pending \in [Ext -> Seq(IssuedMsg)]
    /\ queue \in [Thread -> Seq(IssuedMsg \cup {CloseTask})]
    /\ engineQueue \in Seq(IssuedMsg)
    /\ direct \in [Thread -> Seq(IssuedMsg)]

\* An OUT path belongs to the send call of its extension that made it, and
\* the paths of one send call have different ids.
PathsOfSender ==
    \A e \in Ext : \A p \in outPaths[e] :
        /\ p.ctx <= Len(sent)
        /\ sent[p.ctx] = [by |-> e, handler |-> p.handler]
        /\ \A q \in outPaths[e] : q.ctx = p.ctx /\ q.id = p.id => q = p

PathInv == IdsIssued /\ PathsOfSender /\ HandlerContexts /\ GroupsMatchTable

\* While an extension is flushed its thread does nothing else, and each of its
\* paths is still to be flushed; afterwards its tables are empty.
FlushCovers ==
    \A e \in Ext :
        /\ state[e] = "flushing" =>
             /\ inPaths[e] = {} /\ outPaths[e] \subseteq flush[e]
             /\ direct[ThreadOf[e]] = <<>>
             /\ active[ThreadOf[e]] \in {e, None}
             /\ \A f \in Ext : InLoop(f) /\ ThreadOf[f] = ThreadOf[e] => f = e
        /\ state[e] \in {"deinit", "deleted"} => inPaths[e] = {} /\ outPaths[e] = {}

\* A handler that was told of completion waits no more, and only a send call
\* that was made has a handler to tell.
ToldOnce ==
    \A c \in Ctx :
        /\ told[c] # <<>> => c <= Len(sent)
        /\ \A k \in DOMAIN told[c] :
             told[c][k].completed => \A e \in Ext : c \notin live[e]

\* Extensions that stop lose nothing that was promised: see ResultPromise.
Promise == INSTANCE ResultPromise WITH
    waiting <- live,
    settled <- {c \in Ctx : \E k \in DOMAIN told[c] : told[c][k].completed},
    open <- [e \in Ext |-> state[e] \notin {"deinit", "deleted"}]

PromiseKept == Promise!PromiseSpec

\* Every handler is told, in the end, that its command is completed: by a
\* result, by the error result of a timeout or by that of a close.
HandlersTold ==
    \A e \in Ext, c \in Ctx : c \in live[e] ~> c \notin live[e]

\* The command of send call c is at an extension, or was passed on by one, that
\* has its IN path although nobody is going to return a result along it.
Unreturned[c \in Ctx] ==
    \E f \in Ext : \E p \in inPaths[f] :
        /\ p.ctx = c
        /\ LET on == {q \in outPaths[f] : Reverted(q) = p.id}
           IN  IF on = {} THEN p.id \notin held[f]
               ELSE \E q \in on : q.ctx > c /\ Unreturned[q.ctx]

\* Without any timeout, every handler is told in the end, unless the schema of
\* an extension on the way refuses the result; and then that extension still
\* has the IN path ("the path can not be removed if the schema validation
\* fails", extension/extension.c:679-682), so that a result may still be
\* returned and a timeout or a close finds it.  No result is lost otherwise.
ToldOrRefused ==
    \A e \in Ext, c \in Ctx : c \in live[e] ~> c \notin live[e] \/ Unreturned[c]

\* Once the engine closes, every extension leaves its store.
ClosedDown == engine # "open" ~> \A e \in Ext : state[e] = "deleted"
=============================================================================

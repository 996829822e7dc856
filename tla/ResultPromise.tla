--------------------------- MODULE ResultPromise ---------------------------
(***************************************************************************)
(* What the runtime promises to an extension that sends a command with a   *)
(* result handler, whatever happens underneath (several destinations,      *)
(* streamed results, path timeouts, loops in the graph, closing):          *)
(*                                                                         *)
(*   - the handler is told exactly once that the command is completed;     *)
(*   - no extension leaves the message world (its on_deinit) while one of  *)
(*     its handlers still waits ("All the registered result handlers have  *)
(*     to be called", extension/internal/close.c:100).                     *)
(*                                                                         *)
(* A promise is named by the number of the send call that made it.  This   *)
(* module knows nothing of paths, groups, queues or threads.               *)
(***************************************************************************)
EXTENDS Naturals

CONSTANTS Ext,      \* the extensions of a graph
          Ctx       \* the send calls: one result handler context for each

VARIABLES waiting,  \* waiting[e]: contexts of e not yet told of completion
          settled,  \* contexts that were told of completion
          open      \* open[e]: the handlers of e can still be called

promiseVars == <<waiting, settled, open>>

PromiseInit ==
    /\ waiting = [e \in Ext |-> {}]
    /\ settled = {}
    /\ open = [e \in Ext |-> TRUE]

\* Extension e registers a handler with a command it sends.
Register(e, c) ==
    /\ open[e]
    /\ c \notin settled
    /\ \A x \in Ext : c \notin waiting[x]
    /\ waiting' = [waiting EXCEPT ![e] = @ \cup {c}]
    /\ UNCHANGED <<settled, open>>

\* The handler of context c is told that its command is completed.
Settle(e, c) ==
    /\ open[e]
    /\ c \in waiting[e]
    /\ waiting' = [waiting EXCEPT ![e] = @ \ {c}]
    /\ settled' = settled \cup {c}
    /\ UNCHANGED open

\* Extension e enters on_deinit: nobody waits any more.
Leave(e) ==
    /\ open[e]
    /\ waiting[e] = {}
    /\ open' = [open EXCEPT ![e] = FALSE]
    /\ UNCHANGED <<waiting, settled>>

PromiseNext ==
    \E e \in Ext :
        \/ \E c \in Ctx : Register(e, c) \/ Settle(e, c)
        \/ Leave(e)

PromiseSpec == PromiseInit /\ [][PromiseNext]_promiseVars
=============================================================================

----------------------------- MODULE MCAppClose -----------------------------
(***************************************************************************)
(* Small apps for the runs of AppClose.                                    *)
(***************************************************************************)
EXTENDS AppClose

CONSTANTS c1, c2, e1, e2

Start(own, appLong, engLong, endpoint, batch, clients, graphs) ==
  [own |-> own, appLong |-> appLong, engLong |-> engLong, endpoint |-> endpoint,
   batch |-> batch, clients |-> clients, graphs |-> graphs]

\* An app that listens: two clients and one graph, or one client and two
\* graphs, with one loop for all and with a loop for each graph.  Clients send
\* several messages at once only to graphs with a loop of their own.
Listening ==
  {Start(own, appLong, engLong, TRUE, own, {c1, c2}, {e1}) :
     own \in BOOLEAN, appLong \in BOOLEAN, engLong \in BOOLEAN} \cup
  {Start(own, FALSE, FALSE, TRUE, own, {c1}, {e1, e2}) : own \in BOOLEAN}

\* Apps that do not listen, with two graphs.
NotListening ==
  {Start(own, appLong, engLong, FALSE, FALSE, {}, {e1, e2}) :
     own \in BOOLEAN, appLong \in BOOLEAN, engLong \in BOOLEAN}

Apps == Listening \cup NotListening

\* The default, one loop for all, with a client that sends what it likes.
Shared == {Start(FALSE, FALSE, FALSE, TRUE, TRUE, {c1}, {e1})}

\* A loop for each graph, so that connections migrate.
Migrating == {Start(TRUE, TRUE, TRUE, TRUE, FALSE, {c1}, {e1})}

\* An app that does not listen and is not in long_running_mode.
Local == {Start(FALSE, FALSE, FALSE, FALSE, FALSE, {}, {e1})}
=============================================================================

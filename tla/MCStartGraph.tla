---------------------------- MODULE MCStartGraph ----------------------------
(***************************************************************************)
(* Small graphs for the module StartGraph.                                 *)
(***************************************************************************)
EXTENDS StartGraph

CONSTANTS appA, appB, appC, appD

Seq4 == <<appA, appB, appC, appD>>
Orders == {q \in [1 .. 4 -> App] : \A i, j \in 1 .. 4 : i # j => q[i] # q[j]}

\* The graph with these edges, each edge a set of two apps, and uris in the
\* order of q.
GraphOf(edges, q) ==
  [next |-> [a \in App |-> SelectSeq(Seq4, LAMBDA b : {a, b} \in edges)],
   uri |-> [a \in App |-> CHOOSE i \in 1 .. 4 : q[i] = a],
   down |-> {}, unknown |-> {}, long |-> {}]

Triangle == {{appA, appB}, {appB, appC}, {appA, appC}}
Square == {{appA, appB}, {appA, appC}, {appB, appD}, {appC, appD}}
Line == {{appA, appB}, {appB, appC}, {appC, appD}}

\* A loop of three with one more app at the first one, or at another one.
AtRoot == Triangle \cup {{appA, appD}}
AtOther == Triangle \cup {{appC, appD}}

\* Uris that make each app the smallest and the largest once.
FewOrders == {Seq4, <<appB, appA, appD, appC>>, <<appC, appD, appA, appB>>, <<appD, appC, appB, appA>>}

Reachable == {GraphOf(AtRoot, q) : q \in Orders} \cup {GraphOf(Square, q) : q \in FewOrders}

\* One app that does not listen, or whose protocol has no addon.
Broken == {GraphOf(e, q) : e \in {AtRoot, Square, Line}, q \in FewOrders}
Down == {[g EXCEPT !.down = {d}] : g \in Broken, d \in App \ {appA}}
Unknown == {[g EXCEPT !.unknown = {d}] : g \in Broken, d \in App \ {appA}}

\* In a graph without a loop, apps in long_running_mode.
LongLine == {[GraphOf(Line, q) EXCEPT !.down = {d}, !.long = l] :
               q \in FewOrders, d \in App \ {appA}, l \in SUBSET App}

Started == Reachable \cup Down \cup Unknown \cup LongLine
WithTail == {GraphOf(AtOther, Seq4)}
=============================================================================

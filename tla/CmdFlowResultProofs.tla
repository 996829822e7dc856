------------------------ MODULE CmdFlowResultProofs ------------------------
(***************************************************************************)
(* What becomes of the messages of CmdFlow: the handler of every send call *)
(* is told what the result return policy promises, each result finds the   *)
(* path of its own send call, and commands are handed over in order.       *)
(*                                                                         *)
(* A command is followed from its launch: the message, the IN path it      *)
(* becomes, the result that takes the place of the path.  At any time one  *)
(* of them at most exists for each destination of a send call, so that     *)
(* every member of a path group gets one result.                           *)
(***************************************************************************)
EXTENDS CmdFlowProofs

-----------------------------------------------------------------------------
\* Where a message can be: the lists of the threads and of the engine.

\* Some message of T is in the list s, and at most one place of s has one.
Has(s, T) == \E j \in DOMAIN s : s[j] \in T
Once(s, T) == \A j, k \in DOMAIN s : s[j] \in T /\ s[k] \in T => j = k

\* Some list has a message of T, and at most one place of all lists.
Names == ({"pending"} \X Ext) \cup ({"queue", "direct"} \X Thread)
         \cup {<<"engine", None>>}

Met(L, T) == \E x \in Names : Has(L[x], T)

Sole(L, T) == /\ \A x \in Names : Once(L[x], T)
              /\ \A x, y \in Names : Has(L[x], T) /\ Has(L[y], T) => x = y

MetIn(ip, P) == \E x \in Ext : \E p \in ip[x] : p \in P

SoleIn(ip, P) == \A x, y \in Ext : \A p \in ip[x], q \in ip[y] :
                    p \in P /\ q \in P => x = y /\ p = q

Nowhere(L, ip, T, P) == ~Met(L, T) /\ ~MetIn(ip, P)

Alone(L, ip, T, P) == /\ Sole(L, T) /\ SoleIn(ip, P)
                      /\ ~(Met(L, T) /\ MetIn(ip, P))

\* The empty list has nothing.
LEMMA HasEmpty == ASSUME NEW T PROVE ~Has(<<>>, T) /\ Once(<<>>, T)
  BY DEF Has, Once

\* What a list of one message has.
LEMMA HasSingle == ASSUME NEW T, NEW m
    PROVE (Has(<<m>>, T) <=> m \in T) /\ Once(<<m>>, T)
  BY DEF Has, Once

\* What two lists in a row have.
LEMMA HasConcat ==
    ASSUME NEW S, NEW s \in Seq(S), NEW u \in Seq(S), NEW T
    PROVE  /\ Has(s \o u, T) <=> Has(s, T) \/ Has(u, T)
           /\ Once(s \o u, T) <=> /\ Once(s, T) /\ Once(u, T)
                                  /\ ~(Has(s, T) /\ Has(u, T))
<1> DEFINE v == s \o u
           a == Len(s)
           b == Len(u)
<1>1. a \in Nat /\ b \in Nat /\ DOMAIN s = 1 .. a /\ DOMAIN u = 1 .. b
      /\ DOMAIN v = 1 .. a + b
  OBVIOUS
<1>2. /\ \A j \in 1 .. a : v[j] = s[j]
      /\ \A j \in 1 .. b : v[j + a] = u[j]
  OBVIOUS
<1>3. \A j \in 1 .. a + b : j \in 1 .. a \/ (j - a \in 1 .. b /\ j = (j - a) + a)
  BY <1>1
<1>4. \A j \in 1 .. a : j \in 1 .. a + b
  BY <1>1
<1>5. \A j \in 1 .. b : j + a \in 1 .. a + b
  BY <1>1
<1>6. \A j \in 1 .. a, k \in 1 .. b : j # k + a
  BY <1>1
<1>7. \A j, k \in 1 .. b : j + a = k + a => j = k
  BY <1>1
<1> HIDE DEF v, a, b
<1>8. Has(v, T) => Has(s, T) \/ Has(u, T)
  <2>1. ASSUME NEW j \in 1 .. a + b, v[j] \in T
        PROVE  Has(s, T) \/ Has(u, T)
    <3>1. CASE j \in 1 .. a
      BY <1>1, <1>2, <2>1, <3>1, Zenon DEF Has
    <3>2. CASE j - a \in 1 .. b /\ j = (j - a) + a
      <4>1. u[j - a] = v[j]
        BY <1>2, <3>2
      <4> QED
        BY <1>1, <2>1, <3>2, <4>1, Zenon DEF Has
    <3> QED
      BY <1>3, <3>1, <3>2
  <2> QED
    BY <1>1, <2>1 DEF Has
<1>9. Has(s, T) \/ Has(u, T) => Has(v, T)
  BY <1>1, <1>2, <1>4, <1>5 DEF Has
<1>10. Once(v, T) => Once(s, T) /\ Once(u, T)
  <2>1. ASSUME Once(v, T), NEW j \in 1 .. a, NEW k \in 1 .. a,
               s[j] \in T, s[k] \in T
        PROVE  j = k
    BY <1>1, <1>2, <1>4, <2>1 DEF Once
  <2>2. ASSUME Once(v, T), NEW j \in 1 .. b, NEW k \in 1 .. b,
               u[j] \in T, u[k] \in T
        PROVE  j = k
    <3>1. v[j + a] \in T /\ v[k + a] \in T
      BY <1>2, <2>2
    <3>2. j + a = k + a
      BY <1>1, <1>5, <2>2, <3>1 DEF Once
    <3> QED
      BY <1>7, <3>2
  <2> QED
    BY <1>1, <2>1, <2>2 DEF Once
<1>11. Once(v, T) => ~(Has(s, T) /\ Has(u, T))
  BY <1>1, <1>2, <1>4, <1>5, <1>6 DEF Once, Has
<1>12. ASSUME Once(s, T), Once(u, T), ~(Has(s, T) /\ Has(u, T)),
              NEW j \in 1 .. a + b, NEW k \in 1 .. a + b, v[j] \in T, v[k] \in T
       PROVE  j = k
  <2>1. CASE j \in 1 .. a /\ k \in 1 .. a
    BY <1>1, <1>2, <1>12, <2>1 DEF Once
  <2>2. CASE j \in 1 .. a /\ k - a \in 1 .. b /\ k = (k - a) + a
    <3>1. u[k - a] \in T /\ s[j] \in T
      BY <1>2, <1>12, <2>2
    <3> QED
      BY <1>1, <1>12, <2>2, <3>1 DEF Has
  <2>3. CASE k \in 1 .. a /\ j - a \in 1 .. b /\ j = (j - a) + a
    <3>1. u[j - a] \in T /\ s[k] \in T
      BY <1>2, <1>12, <2>3
    <3> QED
      BY <1>1, <1>12, <2>3, <3>1 DEF Has
  <2>4. CASE k - a \in 1 .. b /\ k = (k - a) + a /\ j - a \in 1 .. b /\ j = (j - a) + a
    <3>1. u[j - a] \in T /\ u[k - a] \in T
      BY <1>2, <1>12, <2>4
    <3>2. j - a = k - a
      BY <1>1, <1>12, <2>4, <3>1 DEF Once
    <3> QED
      BY <2>4, <3>2
  <2> QED
    BY <1>3, <2>1, <2>2, <2>3, <2>4
<1>13. Once(s, T) /\ Once(u, T) /\ ~(Has(s, T) /\ Has(u, T)) => Once(v, T)
  BY <1>1, <1>12 DEF Once
<1> QED
  BY <1>8, <1>9, <1>10, <1>11, <1>13 DEF v

\* What a list has is its head or in its tail.
LEMMA HasHead ==
    ASSUME NEW S, NEW s \in Seq(S), s # <<>>, NEW T
    PROVE  /\ Has(s, T) <=> Head(s) \in T \/ Has(Tail(s), T)
           /\ Once(s, T) <=> Once(Tail(s), T) /\ ~(Head(s) \in T /\ Has(Tail(s), T))
<1>1. Head(s) \in S /\ Tail(s) \in Seq(S) /\ s = <<Head(s)>> \o Tail(s)
  OBVIOUS
<1>2. <<Head(s)>> \in Seq(S)
  BY <1>1
<1> DEFINE h == <<Head(s)>>
           r == Tail(s)
<1>3. /\ Has(h \o r, T) <=> Has(h, T) \/ Has(r, T)
      /\ Once(h \o r, T) <=> /\ Once(h, T) /\ Once(r, T)
                             /\ ~(Has(h, T) /\ Has(r, T))
  BY <1>1, <1>2, HasConcat, Zenon
<1>4. (Has(h, T) <=> Head(s) \in T) /\ Once(h, T)
  BY HasSingle, Zenon
<1>5. s = h \o r
  BY <1>1
<1> QED
  BY <1>3, <1>4, <1>5, Zenon

\* What a list has after a message is put at its end.
LEMMA HasAppend ==
    ASSUME NEW S, NEW s \in Seq(S), NEW m \in S, NEW T
    PROVE  /\ Has(Append(s, m), T) <=> Has(s, T) \/ m \in T
           /\ Once(Append(s, m), T) <=> Once(s, T) /\ ~(m \in T /\ Has(s, T))
<1>1. Append(s, m) = s \o <<m>> /\ <<m>> \in Seq(S)
  OBVIOUS
<1>2. /\ Has(s \o <<m>>, T) <=> Has(s, T) \/ Has(<<m>>, T)
      /\ Once(s \o <<m>>, T) <=> /\ Once(s, T) /\ Once(<<m>>, T)
                                 /\ ~(Has(s, T) /\ Has(<<m>>, T))
  BY <1>1, HasConcat, Zenon
<1>3. (Has(<<m>>, T) <=> m \in T) /\ Once(<<m>>, T)
  BY HasSingle, Zenon
<1> QED
  BY <1>1, <1>2, <1>3, Zenon

LinesOf(pe, qu, eq, di) ==
    [x \in Names |-> CASE x[1] = "pending" -> pe[x[2]]
                       [] x[1] = "queue" -> qu[x[2]]
                       [] x[1] = "direct" -> di[x[2]]
                       [] x[1] = "engine" -> eq]

\* The lists: one for each extension, two for each thread, and the engine's.
LEMMA NameCases ==
    ASSUME NEW x \in Names
    PROVE  \/ \E e \in Ext : x = <<"pending", e>>
           \/ \E t \in Thread : x = <<"queue", t>>
           \/ \E t \in Thread : x = <<"direct", t>>
           \/ x = <<"engine", None>>
  BY DEF Names

\* The list of the messages an extension has put aside.
LEMMA PendingLine ==
    ASSUME NEW pe, NEW qu, NEW eq, NEW di, NEW e \in Ext
    PROVE  /\ <<"pending", e>> \in Names
           /\ LinesOf(pe, qu, eq, di)[<<"pending", e>>] = pe[e]
  BY DEF LinesOf, Names

\* The list of the messages in the runloop of a thread.
LEMMA QueueLine ==
    ASSUME NEW pe, NEW qu, NEW eq, NEW di, NEW t \in Thread
    PROVE  /\ <<"queue", t>> \in Names
           /\ LinesOf(pe, qu, eq, di)[<<"queue", t>>] = qu[t]
  BY DEF LinesOf, Names

\* The list of the messages a thread has still to dispatch.
LEMMA DirectLine ==
    ASSUME NEW pe, NEW qu, NEW eq, NEW di, NEW t \in Thread
    PROVE  /\ <<"direct", t>> \in Names
           /\ LinesOf(pe, qu, eq, di)[<<"direct", t>>] = di[t]
  BY DEF LinesOf, Names

\* The list of the messages in the engine's queue.
LEMMA EngineLine ==
    ASSUME NEW pe, NEW qu, NEW eq, NEW di
    PROVE  /\ <<"engine", None>> \in Names
           /\ LinesOf(pe, qu, eq, di)[<<"engine", None>>] = eq
  BY DEF LinesOf, Names

\* A list is its first n messages and the others.
LEMMA SplitSeq ==
    ASSUME NEW S, NEW s \in Seq(S), NEW n \in 0 .. Len(s)
    PROVE  /\ SubSeq(s, 1, n) \in Seq(S) /\ SubSeq(s, n + 1, Len(s)) \in Seq(S)
           /\ s = SubSeq(s, 1, n) \o SubSeq(s, n + 1, Len(s))
<1> DEFINE u == SubSeq(s, 1, n)
           v == SubSeq(s, n + 1, Len(s))
           a == Len(s)
<1>1. u \in Seq(S) /\ Len(u) = n /\ \A j \in 1 .. n : u[j] = s[j]
  OBVIOUS
<1>2. v \in Seq(S) /\ Len(v) = a - n /\ \A j \in 1 .. a - n : v[j] = s[j + n]
  OBVIOUS
<1>3. a \in Nat /\ n \in Nat /\ n <= a
  OBVIOUS
<1> HIDE DEF u, v
<1>4. u \o v \in Seq(S) /\ Len(u \o v) = a
  BY <1>1, <1>2, <1>3
<1>5. ASSUME NEW j \in 1 .. a
      PROVE  (u \o v)[j] = s[j]
  <2>1. CASE j <= n
    BY <1>1, <1>2, <1>3, <2>1
  <2>2. CASE j > n
    <3>1. (u \o v)[j] = v[j - n]
      BY <1>1, <1>2, <1>3, <2>2
    <3>2. j - n \in 1 .. a - n /\ (j - n) + n = j
      BY <1>3, <2>2
    <3>3. v[j - n] = s[(j - n) + n]
      BY <1>2, <3>2
    <3> QED
      BY <3>1, <3>2, <3>3, Zenon
  <2>3. j <= n \/ j > n
    BY <1>3
  <2> QED
    BY <2>1, <2>2, <2>3, Zenon
<1>6. s = u \o v
  <2> DEFINE w == u \o v
  <2>1. w \in Seq(S) /\ Len(w) = Len(s) /\ \A j \in 1 .. Len(s) : w[j] = s[j]
    BY <1>4, <1>5, Zenon
  <2> HIDE DEF w
  <2>2. s = w
    BY <2>1
  <2> QED
    BY <2>2 DEF w
<1> QED
  BY <1>1, <1>2, <1>6 DEF u, v

\* Steps that change a single list.
LEMMA OneLine ==
    ASSUME NEW L, NEW L2, NEW x \in Names, \A z \in Names : z # x => L2[z] = L[z],
           NEW ip, NEW T, NEW P
    PROVE  /\ (Has(L2[x], T) => Has(L[x], T)) /\ (Once(L[x], T) => Once(L2[x], T))
                => /\ Alone(L, ip, T, P) => Alone(L2, ip, T, P)
                   /\ Nowhere(L, ip, T, P) => Nowhere(L2, ip, T, P)
           /\ ~Has(L2[x], T) /\ Has(L[x], T) /\ Once(L2[x], T)
                => (Alone(L, ip, T, P) => Nowhere(L2, ip, T, P))
           /\ Once(L2[x], T) => (Nowhere(L, ip, T, P) => Alone(L2, ip, T, P))
           /\ Nowhere(L, ip, T, P) => ~Has(L[x], T)
<1>1. (Has(L2[x], T) => Has(L[x], T)) => (Met(L2, T) => Met(L, T))
  BY DEF Met
<1>2. (Has(L2[x], T) => Has(L[x], T)) /\ (Once(L[x], T) => Once(L2[x], T))
        => (Sole(L, T) => Sole(L2, T))
  BY DEF Sole
<1>3. ~Has(L2[x], T) /\ Has(L[x], T) /\ Sole(L, T) => ~Met(L2, T)
  BY DEF Sole, Met
<1>4. Has(L[x], T) => Met(L, T)
  BY DEF Met
<1>5. Once(L2[x], T) /\ ~Met(L, T) => Sole(L2, T)
  <2> SUFFICES ASSUME Once(L2[x], T), ~Met(L, T)
               PROVE  Sole(L2, T)
    OBVIOUS
  <2>1. \A z \in Names : z # x => ~Has(L2[z], T)
    BY DEF Met
  <2>2. \A z \in Names : Once(L2[z], T)
    BY <2>1 DEF Once, Has
  <2> QED
    BY <2>1, <2>2 DEF Sole
<1>6. ~MetIn(ip, P) => SoleIn(ip, P)
  BY DEF MetIn, SoleIn
<1> QED
  BY <1>1, <1>2, <1>3, <1>4, <1>5, <1>6, Zenon DEF Alone, Nowhere

\* Steps that move messages from one list to another.
LEMMA TwoLines ==
    ASSUME NEW L, NEW L2, NEW x \in Names, NEW y \in Names, x # y,
           \A z \in Names : z # x /\ z # y => L2[z] = L[z],
           NEW ip, NEW T, NEW P,
           Has(L2[x], T) \/ Has(L2[y], T) <=> Has(L[x], T) \/ Has(L[y], T),
           /\ Once(L[x], T) /\ Once(L[y], T) /\ ~(Has(L[x], T) /\ Has(L[y], T))
           => /\ Once(L2[x], T) /\ Once(L2[y], T) /\ ~(Has(L2[x], T) /\ Has(L2[y], T))
    PROVE  /\ Alone(L, ip, T, P) => Alone(L2, ip, T, P)
           /\ Nowhere(L, ip, T, P) => Nowhere(L2, ip, T, P)
<1>1. Met(L2, T) => Met(L, T)
  BY DEF Met
<1>2. Sole(L, T) => Sole(L2, T)
  <2> SUFFICES ASSUME Sole(L, T) PROVE Sole(L2, T)
    OBVIOUS
  <2>1. /\ Once(L[x], T) /\ Once(L[y], T) /\ ~(Has(L[x], T) /\ Has(L[y], T))
    BY DEF Sole
  <2>2. /\ Once(L2[x], T) /\ Once(L2[y], T) /\ ~(Has(L2[x], T) /\ Has(L2[y], T))
    BY <2>1
  <2>3. \A z \in Names : Once(L2[z], T)
    BY <2>2 DEF Sole
  <2>4. ASSUME NEW z \in Names, NEW w \in Names, Has(L2[z], T), Has(L2[w], T)
        PROVE  z = w
    <3>1. CASE z \in {x, y} /\ w \in {x, y}
      BY <2>2, <2>4, <3>1
    <3>2. CASE z \in {x, y} /\ w \notin {x, y}
      BY <2>4, <3>2 DEF Sole
    <3>3. CASE z \notin {x, y} /\ w \in {x, y}
      BY <2>4, <3>3 DEF Sole
    <3>4. CASE z \notin {x, y} /\ w \notin {x, y}
      BY <2>4, <3>4 DEF Sole
    <3> QED
      BY <3>1, <3>2, <3>3, <3>4
  <2> QED
    BY <2>3, <2>4 DEF Sole
<1> QED
  BY <1>1, <1>2 DEF Alone, Nowhere

\* Steps that take IN paths away.
LEMMA FewerIn ==
    ASSUME NEW L, NEW ip, NEW ip2, \A z \in Ext : ip2[z] \subseteq ip[z],
           NEW T, NEW P
    PROVE  /\ Alone(L, ip, T, P) => Alone(L, ip2, T, P)
           /\ Nowhere(L, ip, T, P) => Nowhere(L, ip2, T, P)
  BY DEF Alone, Nowhere, SoleIn, MetIn

\* With something in hand that belongs to T or P if b, there is still at most
\* one.
Fits(L, ip, T, P, b) == Alone(L, ip, T, P) /\ (b => Nowhere(L, ip, T, P))

\* Steps that take away an IN path, of P or not.
LEMMA TakenIn ==
    ASSUME NEW L, NEW ip, NEW ip2, NEW e \in Ext, NEW p, p \in ip[e],
           \A z \in Ext : ip2[z] \subseteq ip[z], p \notin ip2[e],
           NEW T, NEW P
    PROVE  /\ Alone(L, ip, T, P) => Alone(L, ip2, T, P)
           /\ Alone(L, ip, T, P) /\ p \in P => Nowhere(L, ip2, T, P)
           /\ Nowhere(L, ip, T, P) => Nowhere(L, ip2, T, P) /\ p \notin P
<1>2. MetIn(ip2, P) => MetIn(ip, P)
  BY DEF MetIn
<1>3. p \in P => MetIn(ip, P)
  BY DEF MetIn
<1>4. p \in P /\ SoleIn(ip, P) => ~MetIn(ip2, P)
  BY DEF SoleIn, MetIn
<1>5. Alone(L, ip, T, P) => Alone(L, ip2, T, P)
  BY FewerIn
<1> QED
  BY <1>2, <1>3, <1>4, <1>5, Zenon DEF Alone, Nowhere

\* Steps that add an IN path, of P or not.
LEMMA PutIn ==
    ASSUME NEW L, NEW ip, NEW ip2, NEW e \in Ext, NEW p,
           \A z \in Ext : ip2[z] = IF z = e THEN ip[z] \cup {p} ELSE ip[z],
           NEW T, NEW P
    PROVE  /\ Fits(L, ip, T, P, p \in P) => Alone(L, ip2, T, P)
           /\ Nowhere(L, ip, T, P) /\ p \notin P => Nowhere(L, ip2, T, P)
  BY DEF Alone, Nowhere, SoleIn, MetIn, Fits

\* Steps that take the head of a list.
LEMMA TakeHead ==
    ASSUME NEW S, NEW L, NEW L2, NEW x \in Names, \A z \in Names : z # x => L2[z] = L[z],
           L[x] \in Seq(S), L[x] # <<>>, L2[x] = Tail(L[x]), NEW ip, NEW T, NEW P
    PROVE  /\ Alone(L, ip, T, P) => Fits(L2, ip, T, P, Head(L[x]) \in T)
           /\ Nowhere(L, ip, T, P) => Nowhere(L2, ip, T, P) /\ Head(L[x]) \notin T
<1>1. /\ Has(L[x], T) <=> Head(L[x]) \in T \/ Has(L2[x], T)
      /\ Once(L[x], T) <=> Once(L2[x], T) /\ ~(Head(L[x]) \in T /\ Has(L2[x], T))
  BY HasHead
<1>2. /\ (Has(L2[x], T) => Has(L[x], T)) /\ (Once(L[x], T) => Once(L2[x], T))
                => /\ Alone(L, ip, T, P) => Alone(L2, ip, T, P)
                   /\ Nowhere(L, ip, T, P) => Nowhere(L2, ip, T, P)
      /\ ~Has(L2[x], T) /\ Has(L[x], T) /\ Once(L2[x], T)
                => (Alone(L, ip, T, P) => Nowhere(L2, ip, T, P))
      /\ Nowhere(L, ip, T, P) => ~Has(L[x], T)
  BY OneLine
<1>3. Alone(L, ip, T, P) => Once(L[x], T)
  BY DEF Alone, Sole
<1> QED
  BY <1>1, <1>2, <1>3, Zenon DEF Fits

\* The lines of two states of the lists of a thread.
LEMMA OtherLines ==
    ASSUME NEW pe, NEW qu, NEW eq, NEW di, NEW eq2, NEW d2,
           NEW t \in Thread, \A s \in Thread : s # t => d2[s] = di[s]
    PROVE  /\ \A z \in Names : z # <<"direct", t>> /\ z # <<"engine", None>> =>
                 LinesOf(pe, qu, eq2, d2)[z] = LinesOf(pe, qu, eq, di)[z]
           /\ eq2 = eq =>
                \A z \in Names : z # <<"direct", t>> =>
                   LinesOf(pe, qu, eq2, d2)[z] = LinesOf(pe, qu, eq, di)[z]
<1>1. ASSUME NEW z \in Names, z # <<"direct", t>>,
             z # <<"engine", None>> \/ eq2 = eq
      PROVE  LinesOf(pe, qu, eq2, d2)[z] = LinesOf(pe, qu, eq, di)[z]
  <2>1. \A s \in Thread : z = <<"direct", s>> => d2[s] = di[s]
    BY <1>1
  <2>2. z = <<"engine", None>> => eq2 = eq
    BY <1>1
  <2>3. CASE \E e \in Ext : z = <<"pending", e>>
    BY <2>3, PendingLine
  <2>4. CASE \E s \in Thread : z = <<"queue", s>>
    BY <2>4, QueueLine
  <2>5. CASE \E s \in Thread : z = <<"direct", s>>
    BY <2>1, <2>5, DirectLine
  <2>6. CASE z = <<"engine", None>>
    BY <2>2, <2>6, EngineLine
  <2> QED
    BY <2>3, <2>4, <2>5, <2>6, NameCases
<1> QED
  BY <1>1

\* Something put into the list of a thread.
LEMMA PutDirect ==
    ASSUME NEW pe, NEW qu, NEW eq, NEW di, NEW d2,
           NEW t \in Thread, \A s \in Thread : s # t => d2[s] = di[s],
           NEW ip, NEW T, NEW P, NEW b \in BOOLEAN,
           Has(d2[t], T) <=> b \/ Has(di[t], T),
           Once(di[t], T) /\ ~(b /\ Has(di[t], T)) => Once(d2[t], T)
    PROVE  /\ Fits(LinesOf(pe, qu, eq, di), ip, T, P, b)
                => Alone(LinesOf(pe, qu, eq, d2), ip, T, P)
           /\ Nowhere(LinesOf(pe, qu, eq, di), ip, T, P) /\ ~b
                => Nowhere(LinesOf(pe, qu, eq, d2), ip, T, P)
<1> DEFINE L  == LinesOf(pe, qu, eq, di)
           L2 == LinesOf(pe, qu, eq, d2)
           d  == <<"direct", t>>
<1>1. d \in Names /\ L[d] = di[t]
  BY DirectLine
<1>2. L2[d] = d2[t]
  BY DirectLine
<1>3. \A z \in Names : z # d => L2[z] = L[z]
  BY OtherLines
<1> HIDE DEF L, L2, d
<1>4. /\ (Has(L2[d], T) => Has(L[d], T)) /\ (Once(L[d], T) => Once(L2[d], T))
              => /\ Alone(L, ip, T, P) => Alone(L2, ip, T, P)
                 /\ Nowhere(L, ip, T, P) => Nowhere(L2, ip, T, P)
      /\ Once(L2[d], T) => (Nowhere(L, ip, T, P) => Alone(L2, ip, T, P))
      /\ Nowhere(L, ip, T, P) => ~Has(L[d], T)
  BY <1>1, <1>3, OneLine
<1>5. Alone(L, ip, T, P) => Once(L[d], T)
  BY <1>1 DEF Alone, Sole
<1>6. (b => Nowhere(L, ip, T, P)) => ~(b /\ Has(di[t], T))
  BY <1>1, <1>4
<1> QED
  BY <1>1, <1>2, <1>4, <1>5, <1>6, Zenon DEF L, L2, Fits

\* Something that moves from the list of a thread to the engine's queue.
LEMMA ShiftDirect ==
    ASSUME NEW pe, NEW qu, NEW eq, NEW di, NEW eq2, NEW d2,
           NEW t \in Thread, \A s \in Thread : s # t => d2[s] = di[s],
           NEW ip, NEW T, NEW P,
           Has(d2[t], T) \/ Has(eq2, T) <=> Has(di[t], T) \/ Has(eq, T),
           /\ Once(di[t], T) /\ Once(eq, T) /\ ~(Has(di[t], T) /\ Has(eq, T))
           => /\ Once(d2[t], T) /\ Once(eq2, T) /\ ~(Has(d2[t], T) /\ Has(eq2, T))
    PROVE  /\ Alone(LinesOf(pe, qu, eq, di), ip, T, P)
                => Alone(LinesOf(pe, qu, eq2, d2), ip, T, P)
           /\ Nowhere(LinesOf(pe, qu, eq, di), ip, T, P)
                => Nowhere(LinesOf(pe, qu, eq2, d2), ip, T, P)
<1> DEFINE L  == LinesOf(pe, qu, eq, di)
           L2 == LinesOf(pe, qu, eq2, d2)
           d  == <<"direct", t>>
           q  == <<"engine", None>>
<1>1. d \in Names /\ L[d] = di[t]
  BY DirectLine
<1>2. L2[d] = d2[t]
  BY DirectLine
<1>3. q \in Names /\ L[q] = eq
  BY EngineLine
<1>4. L2[q] = eq2
  BY EngineLine
<1>5. \A z \in Names : z # d /\ z # q => L2[z] = L[z]
  BY OtherLines
<1>6. d # q
  OBVIOUS
<1> HIDE DEF L, L2, d, q
<1> QED
  BY <1>1, <1>2, <1>3, <1>4, <1>5, <1>6, TwoLines DEF L, L2

\* What a dispatch does to the lines, with left what was there before.
LEMMA EmitLines ==
    ASSUME engineQueue \in Seq(Msg), direct \in [Thread -> Seq(Msg)],
           NEW pe, NEW qu, NEW t \in Thread,
           NEW msgs \in Seq(Msg), NEW left \in Seq(Msg), Emit(t, msgs, left),
           NEW ip, NEW T, NEW P, Once(msgs, T)
    PROVE  LET L  == LinesOf(pe, qu, engineQueue, [direct EXCEPT ![t] = left])
               L2 == LinesOf(pe, qu, engineQueue', direct')
           IN  /\ Fits(L, ip, T, P, Has(msgs, T)) => Alone(L2, ip, T, P)
               /\ Nowhere(L, ip, T, P) /\ ~Has(msgs, T) => Nowhere(L2, ip, T, P)
<1> DEFINE all == msgs \o left
           di == [direct EXCEPT ![t] = left]
           dm == [direct EXCEPT ![t] = all]
<1>1. all \in Seq(Msg)
  OBVIOUS
<1>2. PICK n \in 0 .. Len(msgs) :
         /\ engineQueue' = engineQueue \o SubSeq(all, 1, n)
         /\ direct' = [direct EXCEPT ![t] = SubSeq(all, n + 1, Len(all))]
  BY DEF Emit
<1>a. n \in 0 .. Len(all)
  <2>1. Len(all) = Len(msgs) + Len(left)
    OBVIOUS
  <2>2. Len(msgs) \in Nat /\ Len(left) \in Nat
    OBVIOUS
  <2> HIDE DEF all
  <2> QED
    BY <1>2, <2>1, <2>2
<1>3. /\ Has(all, T) <=> Has(msgs, T) \/ Has(left, T)
      /\ Once(all, T) <=> /\ Once(msgs, T) /\ Once(left, T)
                          /\ ~(Has(msgs, T) /\ Has(left, T))
  BY HasConcat, Zenon
<1> HIDE DEF all
<1> DEFINE u == SubSeq(all, 1, n)
           v == SubSeq(all, n + 1, Len(all))
<1>4. u \in Seq(Msg) /\ v \in Seq(Msg) /\ all = u \o v
  BY <1>1, <1>a, SplitSeq
<1>5. engineQueue' = engineQueue \o u /\ direct' = [direct EXCEPT ![t] = v]
  BY <1>2
<1> HIDE DEF u, v
<1>6. /\ Has(all, T) <=> Has(u, T) \/ Has(v, T)
      /\ Once(all, T) <=> /\ Once(u, T) /\ Once(v, T)
                          /\ ~(Has(u, T) /\ Has(v, T))
  BY <1>4, HasConcat
<1>7. /\ Has(engineQueue', T) <=> Has(engineQueue, T) \/ Has(u, T)
      /\ Once(engineQueue', T) <=> /\ Once(engineQueue, T) /\ Once(u, T)
                          /\ ~(Has(engineQueue, T) /\ Has(u, T))
  BY <1>4, <1>5, HasConcat
<1>8. /\ di[t] = left /\ dm[t] = all /\ direct'[t] = v
      /\ \A s \in Thread : s # t => dm[s] = di[s] /\ direct'[s] = dm[s]
  BY <1>5
<1>9. Has(msgs, T) \in BOOLEAN
  BY DEF Has
<1> DEFINE eq2 == engineQueue'
           d2 == direct'
<1> HIDE DEF di, dm, eq2, d2
<1>10. /\ Fits(LinesOf(pe, qu, engineQueue, di), ip, T, P, Has(msgs, T))
           => Alone(LinesOf(pe, qu, engineQueue, dm), ip, T, P)
       /\ Nowhere(LinesOf(pe, qu, engineQueue, di), ip, T, P) /\ ~Has(msgs, T)
           => Nowhere(LinesOf(pe, qu, engineQueue, dm), ip, T, P)
  <2>1. Has(dm[t], T) <=> Has(msgs, T) \/ Has(di[t], T)
    BY <1>3, <1>8
  <2>2. Once(di[t], T) /\ ~(Has(msgs, T) /\ Has(di[t], T)) => Once(dm[t], T)
    BY <1>3, <1>8
  <2> QED
    BY <1>8, <1>9, <2>1, <2>2, PutDirect
<1>11. /\ Alone(LinesOf(pe, qu, engineQueue, dm), ip, T, P)
           => Alone(LinesOf(pe, qu, eq2, d2), ip, T, P)
       /\ Nowhere(LinesOf(pe, qu, engineQueue, dm), ip, T, P)
           => Nowhere(LinesOf(pe, qu, eq2, d2), ip, T, P)
  <2>1. Has(d2[t], T) \/ Has(eq2, T) <=> Has(dm[t], T) \/ Has(engineQueue, T)
    BY <1>6, <1>7, <1>8 DEF eq2, d2
  <2>2. /\ Once(dm[t], T) /\ Once(engineQueue, T) /\ ~(Has(dm[t], T) /\ Has(engineQueue, T))
        => /\ Once(d2[t], T) /\ Once(eq2, T) /\ ~(Has(d2[t], T) /\ Has(eq2, T))
    BY <1>6, <1>7, <1>8 DEF eq2, d2
  <2>3. \A s \in Thread : s # t => d2[s] = dm[s]
    BY <1>8 DEF d2
  <2> QED
    BY <2>1, <2>2, <2>3, ShiftDirect
<1> QED
  BY <1>10, <1>11, Zenon DEF di, eq2, d2

-----------------------------------------------------------------------------
\* What a message turns into.

\* A result belongs to T when its IN path belongs to P, and an IN path or a
\* refusal when the command does.
Coherent(T, P) ==
    /\ T \subseteq Msg
    /\ \A p \in InPath, ok \in BOOLEAN :
         Result(Reverted(p), p.ctx, p.src, ok, TRUE) \in T <=> p \in P
    /\ \A m \in CmdMsg : Result(m.id, m.ctx, m.src, FALSE, TRUE) \in T <=> m \in T
    /\ \A m \in CmdMsg, p \in InPath :
         Reverted(p) = m.id /\ p.ctx = m.ctx /\ p.src = m.src => (p \in P <=> m \in T)

\* From one state of the lines and the paths to another there is nothing new.
Carries(L, ip, L2, ip2, T, P) ==
    /\ Alone(L, ip, T, P) => Alone(L2, ip2, T, P)
    /\ Nowhere(L, ip, T, P) => Nowhere(L2, ip2, T, P)

\* The same with something in hand at first.
Receives(L, ip, L2, ip2, T, P, b) ==
    /\ Fits(L, ip, T, P, b) => Alone(L2, ip2, T, P)
    /\ Nowhere(L, ip, T, P) /\ ~b => Nowhere(L2, ip2, T, P)

\* The lines with left still to dispatch on thread t, and those afterwards.
Prior(pe, qu, t, left) ==
    LinesOf(pe, qu, engineQueue, [direct EXCEPT ![t] = left])
Afterwards(pe, qu) == LinesOf(pe, qu, engineQueue', direct')

Lists == engineQueue \in Seq(Msg) /\ direct \in [Thread -> Seq(Msg)]

\* A thread goes on dispatching what it had left.
LEMMA EmitNone ==
    ASSUME Lists, NEW pe, NEW qu, NEW t \in Thread,
           NEW left \in Seq(Msg), Emit(t, <<>>, left),
           NEW ip, NEW T, NEW P
    PROVE  Carries(Prior(pe, qu, t, left), ip, Afterwards(pe, qu), ip, T, P)
<1>1. <<>> \in Seq(Msg) /\ ~Has(<<>>, T) /\ Once(<<>>, T)
  BY HasEmpty
<1>2. /\ Fits(Prior(pe, qu, t, left), ip, T, P, Has(<<>>, T))
           => Alone(Afterwards(pe, qu), ip, T, P)
      /\ Nowhere(Prior(pe, qu, t, left), ip, T, P) /\ ~Has(<<>>, T)
           => Nowhere(Afterwards(pe, qu), ip, T, P)
  BY <1>1, EmitLines DEF Lists, Prior, Afterwards
<1> QED
  BY <1>1, <1>2, Zenon DEF Carries, Fits

\* A thread dispatches one more message.
LEMMA EmitOne ==
    ASSUME Lists, NEW pe, NEW qu, NEW t \in Thread, NEW m \in Msg,
           NEW left \in Seq(Msg), Emit(t, <<m>>, left),
           NEW ip, NEW T, NEW P
    PROVE  Receives(Prior(pe, qu, t, left), ip, Afterwards(pe, qu), ip, T, P, m \in T)
<1>1. <<m>> \in Seq(Msg) /\ (Has(<<m>>, T) <=> m \in T) /\ Once(<<m>>, T)
  BY HasSingle
<1>2. /\ Fits(Prior(pe, qu, t, left), ip, T, P, Has(<<m>>, T))
           => Alone(Afterwards(pe, qu), ip, T, P)
      /\ Nowhere(Prior(pe, qu, t, left), ip, T, P) /\ ~Has(<<m>>, T)
           => Nowhere(Afterwards(pe, qu), ip, T, P)
  BY <1>1, EmitLines DEF Lists, Prior, Afterwards
<1> QED
  BY <1>1, <1>2, Zenon DEF Receives, Fits

\* A last result takes the place of its IN path.
LEMMA ReturnToCarries ==
    ASSUME TypeOK, NEW e \in Ext, NEW i \in Id, NEW ok \in BOOLEAN,
           NEW left \in Seq(Msg), ReturnTo(e, i, ok, TRUE, left),
           NEW pe, NEW qu, NEW T, NEW P, Coherent(T, P)
    PROVE  Carries(Prior(pe, qu, ThreadOf[e], left), inPaths,
                   Afterwards(pe, qu), inPaths', T, P)
<1>0. ThreadOf[e] \in Thread /\ Lists
  BY ThreadType DEF TypeOK, Lists
<1>1. CASE Emit(ThreadOf[e], <<>>, left) /\ UNCHANGED inPaths
  BY <1>0, <1>1, EmitNone
<1>2. ASSUME NEW p \in InPathsOf(e, i),
             inPaths' = [inPaths EXCEPT ![e] = @ \ {p}],
             Emit(ThreadOf[e], <<Result(Reverted(p), p.ctx, p.src, ok, TRUE)>>,
                  left)
      PROVE  Carries(Prior(pe, qu, ThreadOf[e], left), inPaths,
                   Afterwards(pe, qu), inPaths', T, P)
  <2> DEFINE r == Result(Reverted(p), p.ctx, p.src, ok, TRUE)
             L == Prior(pe, qu, ThreadOf[e], left)
             L2 == Afterwards(pe, qu)
  <2>1. p \in InPath /\ p \in inPaths[e]
    BY DEF InPathsOf, TypeOK
  <2>2. r \in Msg
    BY <2>1, InPathFields, ResultIsMsg
  <2>3. r \in T <=> p \in P
    BY <2>1 DEF Coherent
  <2>4. (\A z \in Ext : inPaths'[z] \subseteq inPaths[z]) /\ p \notin inPaths'[e]
    BY <1>2 DEF TypeOK
  <2> DEFINE ip2 == inPaths'
  <2> HIDE DEF r, L, L2, ip2
  <2>5. /\ Alone(L, inPaths, T, P) => Alone(L, ip2, T, P)
        /\ Alone(L, inPaths, T, P) /\ p \in P => Nowhere(L, ip2, T, P)
        /\ Nowhere(L, inPaths, T, P) => Nowhere(L, ip2, T, P) /\ p \notin P
    <3>1. (\A z \in Ext : ip2[z] \subseteq inPaths[z]) /\ p \notin ip2[e]
      BY <2>4 DEF ip2
    <3> QED
      BY <2>1, <3>1, TakenIn
  <2>6. Receives(L, ip2, L2, ip2, T, P, r \in T)
    BY <1>0, <1>2, <2>2, EmitOne DEF r, L, L2
  <2> QED
    BY <2>3, <2>5, <2>6, Zenon DEF Carries, Receives, Fits, L, L2, ip2
<1> QED
  BY <1>1, <1>2 DEF ReturnTo

\* What is delivered is told, or returned in place of an IN path.
LEMMA DeliverCarries ==
    ASSUME TypeOK, NEW e \in Ext, NEW p \in OutPath, NEW ok \in BOOLEAN,
           NEW completed, NEW left \in Seq(Msg),
           Deliver(e, p, ok, TRUE, completed, left),
           NEW pe, NEW qu, NEW T, NEW P, Coherent(T, P)
    PROVE  Carries(Prior(pe, qu, ThreadOf[e], left), inPaths,
                   Afterwards(pe, qu), inPaths', T, P)
<1>0. ThreadOf[e] \in Thread /\ Lists
  BY ThreadType DEF TypeOK, Lists
<1>1. PICK seen \in BOOLEAN :
        \/ Emit(ThreadOf[e], <<>>, left) /\ UNCHANGED inPaths
        \/ ReturnTo(e, Reverted(p), seen, TRUE, left)
  <2>1. \A x \in {ok} \cup (IF SchemaErrors THEN {FALSE} ELSE {}) : x \in BOOLEAN
    OBVIOUS
  <2> QED
    BY <2>1 DEF Deliver, Refused
<1>2. CASE Emit(ThreadOf[e], <<>>, left) /\ UNCHANGED inPaths
  BY <1>0, <1>2, EmitNone
<1>3. CASE ReturnTo(e, Reverted(p), seen, TRUE, left)
  BY <1>3, ReturnToCarries, OutPathFields
<1> QED
  BY <1>1, <1>2, <1>3

\* A last result that is taken causes at most one result, in place of an IN path.
LEMMA TakeResultCarries ==
    ASSUME TypeOK, NEW e \in Ext, NEW m \in ResultMsg, m.final,
           NEW left \in Seq(Msg), TakeResult(e, m, left),
           NEW pe, NEW qu, NEW T, NEW P, Coherent(T, P)
    PROVE  Carries(Prior(pe, qu, ThreadOf[e], left), inPaths,
                   Afterwards(pe, qu), inPaths', T, P)
<1>0. ThreadOf[e] \in Thread /\ Lists /\ m.ok \in BOOLEAN /\ m.final = TRUE
  BY ThreadType DEF TypeOK, Lists, ResultMsg
<1>1. CASE Emit(ThreadOf[e], <<>>, left) /\ UNCHANGED inPaths
  BY <1>0, <1>1, EmitNone
<1>2. ASSUME NEW p \in FirstOutPath(e, m.id), DecideSingle(e, p, m.ok, m.final, left)
      PROVE  Deliver(e, p, m.ok, TRUE, TRUE, left) /\ p \in OutPath
  BY <1>0, <1>2 DEF FirstOutPath, Oldest, TypeOK, DecideSingle
<1>3. ASSUME NEW p \in FirstOutPath(e, m.id), KeepInGroup(e, p, m.ok, left)
      PROVE  Emit(ThreadOf[e], <<>>, left) /\ UNCHANGED inPaths
  BY <1>3 DEF KeepInGroup
<1>4. ASSUME NEW p \in FirstOutPath(e, m.id), DecideGroup(e, p, m.ok, left)
      PROVE  \E q \in OutPath, ok \in BOOLEAN, completed \in BOOLEAN :
                Deliver(e, q, ok, TRUE, completed, left)
  <2>1. PICK k \in DOMAIN group[p.ctx], q \in PathsOfCtx(e, p.ctx) :
          LET a    == Answered(group[p.ctx], k, m.ok)
              w    == Resolve(Policy[e], a)
              rest == LeftInGroup(Policy[e], a, w)
          IN  Deliver(e, q, a[w].cached = "ok", TRUE, rest = <<>>, left)
    BY <1>4 DEF DecideGroup
  <2>2. q \in OutPath
    BY DEF PathsOfCtx, TypeOK
  <2> QED
    BY <2>1, <2>2
<1>5. CASE \E q \in OutPath, ok \in BOOLEAN, completed \in BOOLEAN :
              Deliver(e, q, ok, TRUE, completed, left)
  BY <1>5, DeliverCarries
<1>6. \/ Emit(ThreadOf[e], <<>>, left) /\ UNCHANGED inPaths
      \/ \E q \in OutPath, ok \in BOOLEAN, completed \in BOOLEAN :
              Deliver(e, q, ok, TRUE, completed, left)
  BY <1>0, <1>2, <1>3, <1>4 DEF TakeResult, pathVars
<1> QED
  BY <1>1, <1>5, <1>6

\* A command that is taken becomes an IN path.
LEMMA TakeCmdReceives ==
    ASSUME TypeOK, NEW e \in Ext, NEW m \in CmdMsg, NEW left \in Seq(Msg),
           TakeCmd(e, m, left),
           NEW pe, NEW qu, NEW T, NEW P, Coherent(T, P)
    PROVE  Receives(Prior(pe, qu, ThreadOf[e], left), inPaths,
                    Afterwards(pe, qu), inPaths', T, P, m \in T)
<1> DEFINE L == Prior(pe, qu, ThreadOf[e], left)
           L2 == Afterwards(pe, qu)
           again == InPathsOf(e, m.id) # {}
           p == [id |-> IF again THEN nextId ELSE m.id,
                 orig |-> IF again THEN m.id ELSE NoId,
                 src |-> m.src, ctx |-> m.ctx]
<1>0. ThreadOf[e] \in Thread /\ Lists
  BY ThreadType DEF TypeOK, Lists
<1>1. m.id \in Id /\ m.ctx \in Ctx /\ m.src \in Ext /\ m \in Msg
  BY DEF CmdMsg, Msg
<1>2. \/ /\ inPaths' = [inPaths EXCEPT ![e] = @ \cup {p}]
         /\ again => nextId \in Id
         /\ Emit(ThreadOf[e], <<>>, left)
      \/ /\ Emit(ThreadOf[e], <<Result(m.id, m.ctx, m.src, FALSE, TRUE)>>, left)
         /\ UNCHANGED inPaths
  BY DEF TakeCmd
<1>3. CASE /\ inPaths' = [inPaths EXCEPT ![e] = @ \cup {p}]
           /\ again => nextId \in Id
           /\ Emit(ThreadOf[e], <<>>, left)
  <2>1. p \in InPath /\ Reverted(p) = m.id /\ p.ctx = m.ctx /\ p.src = m.src
    BY <1>1, <1>3 DEF InPath, Reverted, NoId, Id
  <2>2. p \in P <=> m \in T
    BY <2>1 DEF Coherent
  <2>3. \A z \in Ext : inPaths'[z] = IF z = e THEN inPaths[z] \cup {p} ELSE inPaths[z]
    BY <1>3 DEF TypeOK
  <2> HIDE DEF p, L, L2, again
  <2>4. /\ Fits(L, inPaths, T, P, p \in P) => Alone(L, inPaths', T, P)
        /\ Nowhere(L, inPaths, T, P) /\ p \notin P => Nowhere(L, inPaths', T, P)
    BY <2>3, PutIn
  <2>5. Carries(L, inPaths', L2, inPaths', T, P)
    BY <1>0, <1>3, EmitNone DEF L, L2
  <2> QED
    BY <2>2, <2>4, <2>5, Zenon DEF Carries, Receives, Fits, L, L2
<1>4. CASE /\ Emit(ThreadOf[e], <<Result(m.id, m.ctx, m.src, FALSE, TRUE)>>, left)
           /\ UNCHANGED inPaths
  <2> DEFINE r == Result(m.id, m.ctx, m.src, FALSE, TRUE)
  <2>1. r \in Msg
    BY <1>1, ResultIsMsg
  <2>2. r \in T <=> m \in T
    BY DEF Coherent
  <2> HIDE DEF r
  <2>3. Receives(L, inPaths, L2, inPaths, T, P, r \in T)
    BY <1>0, <1>4, <2>1, EmitOne DEF r
  <2> QED
    BY <1>4, <2>2, <2>3, Zenon DEF Receives, Fits
<1> QED
  BY <1>2, <1>3, <1>4

Lines == LinesOf(pending, queue, engineQueue, direct)

\* One step after another.
LEMMA CarriesAgain ==
    ASSUME NEW L, NEW ip, NEW L2, NEW ip2, NEW L3, NEW ip3, NEW T, NEW P,
           Carries(L, ip, L2, ip2, T, P), Carries(L2, ip2, L3, ip3, T, P)
    PROVE  Carries(L, ip, L3, ip3, T, P)
  BY DEF Carries

\* A line that gets something at its end.
LEMMA PutLine ==
    ASSUME NEW L, NEW L2, NEW x \in Names, \A z \in Names : z # x => L2[z] = L[z],
           NEW S, L[x] \in Seq(S), NEW m \in S, L2[x] = Append(L[x], m),
           NEW ip, NEW T, NEW P
    PROVE  Receives(L, ip, L2, ip, T, P, m \in T)
<1>1. /\ Has(L2[x], T) <=> Has(L[x], T) \/ m \in T
      /\ Once(L2[x], T) <=> Once(L[x], T) /\ ~(m \in T /\ Has(L[x], T))
  BY HasAppend
<1>2. /\ (Has(L2[x], T) => Has(L[x], T)) /\ (Once(L[x], T) => Once(L2[x], T))
           => /\ Alone(L, ip, T, P) => Alone(L2, ip, T, P)
              /\ Nowhere(L, ip, T, P) => Nowhere(L2, ip, T, P)
      /\ Once(L2[x], T) => (Nowhere(L, ip, T, P) => Alone(L2, ip, T, P))
      /\ Nowhere(L, ip, T, P) => ~Has(L[x], T)
  BY OneLine
<1>3. Alone(L, ip, T, P) => Once(L[x], T)
  BY DEF Alone, Sole
<1> QED
  BY <1>1, <1>2, <1>3, Zenon DEF Receives, Fits

\* A command is put aside.
LEMMA PutPending ==
    ASSUME NEW pe, NEW pe2, NEW e \in Ext, NEW m \in CmdMsg,
           pe[e] \in Seq(CmdMsg), pe2[e] = Append(pe[e], m),
           \A f \in Ext : f # e => pe2[f] = pe[f],
           NEW qu, NEW eq, NEW di, NEW ip, NEW T, NEW P
    PROVE  Receives(LinesOf(pe, qu, eq, di), ip, LinesOf(pe2, qu, eq, di), ip,
                    T, P, m \in T)
<1> DEFINE L  == LinesOf(pe, qu, eq, di)
           L2 == LinesOf(pe2, qu, eq, di)
           x  == <<"pending", e>>
<1>2. x \in Names /\ L[x] = pe[e]
  BY PendingLine
<1>3. L2[x] = pe2[e]
  BY PendingLine
<1>4. ASSUME NEW z \in Names, z # x PROVE L2[z] = L[z]
  <2>1. CASE \E f \in Ext : z = <<"pending", f>>
    <3>1. PICK f \in Ext : z = <<"pending", f>>
      BY <2>1
    <3>2. f # e
      BY <1>4, <3>1
    <3>3. pe2[f] = pe[f]
      BY <3>2
    <3>4. L[<<"pending", f>>] = pe[f]
      BY PendingLine
    <3>5. L2[<<"pending", f>>] = pe2[f]
      BY PendingLine
    <3> QED
      BY <3>1, <3>3, <3>4, <3>5
  <2>2. CASE \E s \in Thread : z = <<"queue", s>>
    BY <2>2, QueueLine
  <2>3. CASE \E s \in Thread : z = <<"direct", s>>
    BY <2>3, DirectLine
  <2>4. CASE z = <<"engine", None>>
    BY <2>4, EngineLine
  <2> QED
    BY <2>1, <2>2, <2>3, <2>4, NameCases
<1> HIDE DEF L, L2, x
<1>5. L[x] \in Seq(CmdMsg) /\ L2[x] = Append(L[x], m)
  BY <1>2, <1>3
<1>6. Receives(L, ip, L2, ip, T, P, m \in T)
  BY <1>2, <1>4, <1>5, PutLine
<1> QED
  BY <1>6 DEF L, L2

\* The answer to a refused message takes its place.
LEMMA RefuseReceives ==
    ASSUME TypeOK, NEW t \in Thread, NEW m \in Msg, NEW left \in Seq(Msg),
           Refuse(t, m, left), NEW pe, NEW qu, NEW T, NEW P, Coherent(T, P)
    PROVE  Receives(Prior(pe, qu, t, left), inPaths,
                    Afterwards(pe, qu), inPaths, T, P, m \in T)
<1>0. Lists
  BY DEF Lists, TypeOK
<1>1. CASE m.kind = "cmd"
  <2> DEFINE r == Result(m.id, m.ctx, m.src, FALSE, TRUE)
  <2>1. m \in CmdMsg /\ m.id \in Id /\ m.ctx \in Ctx /\ m.src \in Ext
    BY <1>1, MsgFields
  <2>2. r \in Msg
    BY <2>1, ResultIsMsg
  <2>3. Emit(t, <<r>>, left)
    BY <1>1 DEF Refuse
  <2>4. r \in T <=> m \in T
    BY <2>1 DEF Coherent
  <2> HIDE DEF r
  <2>5. Receives(Prior(pe, qu, t, left), inPaths,
                 Afterwards(pe, qu), inPaths, T, P, r \in T)
    BY <1>0, <2>2, <2>3, EmitOne
  <2> QED
    BY <2>4, <2>5, Zenon DEF Receives, Fits
<1>2. CASE m.kind # "cmd"
  <2>1. Carries(Prior(pe, qu, t, left), inPaths, Afterwards(pe, qu), inPaths, T, P)
    BY <1>0, <1>2, EmitNone DEF Refuse
  <2> QED
    BY <2>1 DEF Carries, Receives, Fits
<1> QED
  BY <1>1, <1>2

\* Handling a message: a result leaves nothing behind.
LEMMA HandleInMsgReceives ==
    ASSUME TypeOK, NEW e \in Ext, NEW m \in Msg, m.kind = "result" => m.final,
           NEW left \in Seq(Msg), HandleInMsg(e, m, left),
           NEW qu, NEW T, NEW P, Coherent(T, P)
    PROVE  /\ Receives(Prior(pending, qu, ThreadOf[e], left), inPaths,
                       Afterwards(pending', qu), inPaths', T, P, m \in T)
           /\ m.kind = "result" =>
                Carries(Prior(pending, qu, ThreadOf[e], left), inPaths,
                        Afterwards(pending', qu), inPaths', T, P)
<1> DEFINE L == Prior(pending, qu, ThreadOf[e], left)
           L2 == Afterwards(pending', qu)
<1>0. ThreadOf[e] \in Thread /\ Lists
  BY ThreadType DEF TypeOK, Lists
<1>1. CASE /\ state[e] = "starting" /\ m.kind = "cmd"
           /\ pending' = [pending EXCEPT ![e] = Append(@, m)]
           /\ Emit(ThreadOf[e], <<>>, left)
           /\ UNCHANGED <<pathVars, live, held, nextId, histVars>>
  <2> DEFINE M == Prior(pending', qu, ThreadOf[e], left)
  <2>1. m \in CmdMsg /\ inPaths' = inPaths
    BY <1>1, MsgFields DEF pathVars
  <2>2. Receives(L, inPaths, M, inPaths, T, P, m \in T)
    <3>1. /\ pending[e] \in Seq(CmdMsg) /\ pending'[e] = Append(pending[e], m)
          /\ \A f \in Ext : f # e => pending'[f] = pending[f]
      BY <1>1 DEF TypeOK
    <3> QED
      BY <2>1, <3>1, PutPending DEF Prior
  <2>3. Carries(M, inPaths, L2, inPaths, T, P)
    BY <1>0, <1>1, EmitNone
  <2> HIDE DEF L, M, L2
  <2>4. Receives(L, inPaths, L2, inPaths, T, P, m \in T)
    BY <2>2, <2>3, Zenon DEF Receives, Carries, Fits
  <2> QED
    BY <1>1, <2>1, <2>4 DEF L, L2
<1>2. CASE /\ m.kind = "result"
           /\ TakeResult(e, m, left)
           /\ UNCHANGED <<held, pending, nextId>>
  <2>1. m \in ResultMsg /\ m.final
    BY <1>2, MsgFields
  <2>2. Carries(L, inPaths, L2, inPaths', T, P)
    BY <1>2, <2>1, TakeResultCarries
  <2> HIDE DEF L, L2
  <2> QED
    BY <2>2 DEF Receives, Carries, Fits, L, L2
<1>3. CASE /\ m.kind = "cmd"
           /\ TakeCmd(e, m, left)
           /\ UNCHANGED <<outPaths, group, live, pending, histVars>>
  <2>1. m \in CmdMsg
    BY <1>3, MsgFields
  <2>2. Receives(L, inPaths, L2, inPaths', T, P, m \in T)
    BY <1>3, <2>1, TakeCmdReceives
  <2> QED
    BY <1>3, <2>2
<1>4. CASE /\ Emit(ThreadOf[e], <<>>, left)
           /\ UNCHANGED <<pathVars, live, held, pending, nextId, histVars>>
  <2>1. Carries(L, inPaths, L2, inPaths', T, P)
    BY <1>0, <1>4, EmitNone DEF pathVars
  <2> HIDE DEF L, L2
  <2> QED
    BY <2>1 DEF Receives, Carries, Fits, L, L2
<1>5. CASE /\ Refuse(ThreadOf[e], m, left)
           /\ UNCHANGED <<pathVars, live, held, pending, nextId, histVars>>
  <2>1. inPaths' = inPaths /\ pending' = pending
    BY <1>5 DEF pathVars
  <2>2. Receives(L, inPaths, L2, inPaths', T, P, m \in T)
    BY <1>0, <1>5, <2>1, RefuseReceives
  <2>3. m.kind = "result" => Emit(ThreadOf[e], <<>>, left)
    BY <1>5 DEF Refuse
  <2>4. m.kind = "result" => Carries(L, inPaths, L2, inPaths', T, P)
    BY <1>0, <2>1, <2>3, EmitNone
  <2> QED
    BY <2>2, <2>4
<1> QED
  BY <1>1, <1>2, <1>3, <1>4, <1>5 DEF HandleInMsg

-----------------------------------------------------------------------------
\* The actions, list by list.

\* A step on the runloop of one thread leaves the other lists alone.
LEMMA OtherQueue ==
    ASSUME NEW pe, NEW qu, NEW eq, NEW di, NEW q2,
           NEW t \in Thread, \A s \in Thread : s # t => q2[s] = qu[s]
    PROVE  \A z \in Names : z # <<"queue", t>> =>
                 LinesOf(pe, q2, eq, di)[z] = LinesOf(pe, qu, eq, di)[z]
<1>1. ASSUME NEW z \in Names, z # <<"queue", t>>
      PROVE  LinesOf(pe, q2, eq, di)[z] = LinesOf(pe, qu, eq, di)[z]
  <2>1. \A s \in Thread : z = <<"queue", s>> => q2[s] = qu[s]
    BY <1>1
  <2>3. CASE \E e \in Ext : z = <<"pending", e>>
    BY <2>3, PendingLine
  <2>4. CASE \E s \in Thread : z = <<"queue", s>>
    BY <2>1, <2>4, QueueLine
  <2>5. CASE \E s \in Thread : z = <<"direct", s>>
    BY <2>5, DirectLine
  <2>6. CASE z = <<"engine", None>>
    BY <2>6, EngineLine
  <2> QED
    BY <2>3, <2>4, <2>5, <2>6, NameCases
<1> QED
  BY <1>1

\* A step on what one extension put aside leaves the other lists alone.
LEMMA OtherPending ==
    ASSUME NEW pe, NEW qu, NEW eq, NEW di, NEW pe2,
           NEW e \in Ext, \A f \in Ext : f # e => pe2[f] = pe[f]
    PROVE  \A z \in Names : z # <<"pending", e>> =>
                 LinesOf(pe2, qu, eq, di)[z] = LinesOf(pe, qu, eq, di)[z]
<1>1. ASSUME NEW z \in Names, z # <<"pending", e>>
      PROVE  LinesOf(pe2, qu, eq, di)[z] = LinesOf(pe, qu, eq, di)[z]
  <2>1. \A f \in Ext : z = <<"pending", f>> => pe2[f] = pe[f]
    BY <1>1
  <2>3. CASE \E f \in Ext : z = <<"pending", f>>
    BY <2>1, <2>3, PendingLine
  <2>4. CASE \E s \in Thread : z = <<"queue", s>>
    BY <2>4, QueueLine
  <2>5. CASE \E s \in Thread : z = <<"direct", s>>
    BY <2>5, DirectLine
  <2>6. CASE z = <<"engine", None>>
    BY <2>6, EngineLine
  <2> QED
    BY <2>3, <2>4, <2>5, <2>6, NameCases
<1> QED
  BY <1>1

\* From one state of the lines to another the first of a line is taken.
Takes(L, ip, L2, T, P, m) ==
    /\ Alone(L, ip, T, P) => Fits(L2, ip, T, P, m \in T)
    /\ Nowhere(L, ip, T, P) => Nowhere(L2, ip, T, P) /\ m \notin T

\* A thread takes the next message it has to dispatch.
LEMMA TakeDirect ==
    ASSUME NEW pe, NEW qu, NEW eq, NEW di, NEW d2, NEW t \in Thread,
           di[t] \in Seq(Msg), di[t] # <<>>, d2[t] = Tail(di[t]),
           \A s \in Thread : s # t => d2[s] = di[s], NEW ip, NEW T, NEW P
    PROVE  Takes(LinesOf(pe, qu, eq, di), ip, LinesOf(pe, qu, eq, d2), T, P, Head(di[t]))
<1> DEFINE L  == LinesOf(pe, qu, eq, di)
           L2 == LinesOf(pe, qu, eq, d2)
           x  == <<"direct", t>>
<1>1. x \in Names /\ L[x] = di[t]
  BY DirectLine
<1>2. L2[x] = d2[t]
  BY DirectLine
<1>3. \A z \in Names : z # x => L2[z] = L[z]
  BY OtherLines
<1> HIDE DEF L, L2, x
<1>4. L[x] # <<>> /\ L2[x] = Tail(L[x]) /\ Head(L[x]) = Head(di[t])
      /\ L[x] \in Seq(Msg \cup {CloseTask})
  BY <1>1, <1>2
<1>5. Takes(L, ip, L2, T, P, Head(L[x]))
  BY <1>1, <1>3, <1>4, TakeHead DEF Takes
<1> QED
  BY <1>4, <1>5 DEF L, L2

\* A thread takes the next message of its runloop.
LEMMA TakeQueue ==
    ASSUME NEW pe, NEW qu, NEW eq, NEW di, NEW q2, NEW t \in Thread,
           qu[t] \in Seq(Msg \cup {CloseTask}), qu[t] # <<>>, q2[t] = Tail(qu[t]),
           \A s \in Thread : s # t => q2[s] = qu[s], NEW ip, NEW T, NEW P
    PROVE  Takes(LinesOf(pe, qu, eq, di), ip, LinesOf(pe, q2, eq, di), T, P, Head(qu[t]))
<1> DEFINE L  == LinesOf(pe, qu, eq, di)
           L2 == LinesOf(pe, q2, eq, di)
           x  == <<"queue", t>>
<1>1. x \in Names /\ L[x] = qu[t]
  BY QueueLine
<1>2. L2[x] = q2[t]
  BY QueueLine
<1>3. \A z \in Names : z # x => L2[z] = L[z]
  BY OtherQueue
<1> HIDE DEF L, L2, x
<1>4. L[x] # <<>> /\ L2[x] = Tail(L[x]) /\ Head(L[x]) = Head(qu[t])
      /\ L[x] \in Seq(Msg \cup {CloseTask})
  BY <1>1, <1>2
<1>5. Takes(L, ip, L2, T, P, Head(L[x]))
  BY <1>1, <1>3, <1>4, TakeHead DEF Takes
<1> QED
  BY <1>4, <1>5 DEF L, L2

\* A thread takes the next message that was put aside.
LEMMA TakePending ==
    ASSUME NEW pe, NEW qu, NEW eq, NEW di, NEW pe2, NEW e \in Ext,
           pe[e] \in Seq(CmdMsg), pe[e] # <<>>, pe2[e] = Tail(pe[e]),
           \A f \in Ext : f # e => pe2[f] = pe[f], NEW ip, NEW T, NEW P
    PROVE  Takes(LinesOf(pe, qu, eq, di), ip, LinesOf(pe2, qu, eq, di), T, P, Head(pe[e]))
<1> DEFINE L  == LinesOf(pe, qu, eq, di)
           L2 == LinesOf(pe2, qu, eq, di)
           x  == <<"pending", e>>
<1>1. x \in Names /\ L[x] = pe[e]
  BY PendingLine
<1>2. L2[x] = pe2[e]
  BY PendingLine
<1>3. \A z \in Names : z # x => L2[z] = L[z]
  BY OtherPending
<1> HIDE DEF L, L2, x
<1>4. L[x] # <<>> /\ L2[x] = Tail(L[x]) /\ Head(L[x]) = Head(pe[e])
      /\ L[x] \in Seq(CmdMsg)
  BY <1>1, <1>2
<1>5. Takes(L, ip, L2, T, P, Head(L[x]))
  BY <1>1, <1>3, <1>4, TakeHead DEF Takes
<1> QED
  BY <1>4, <1>5 DEF L, L2

\* The engine takes the next message of its queue.
LEMMA TakeEngine ==
    ASSUME NEW pe, NEW qu, NEW eq \in Seq(Msg), NEW di, eq # <<>>,
           NEW ip, NEW T, NEW P
    PROVE  Takes(LinesOf(pe, qu, eq, di), ip, LinesOf(pe, qu, Tail(eq), di), T, P, Head(eq))
<1> DEFINE eq2 == Tail(eq)
<1> HIDE DEF eq2
<1> DEFINE L  == LinesOf(pe, qu, eq, di)
           L2 == LinesOf(pe, qu, eq2, di)
           x  == <<"engine", None>>
<1>1. x \in Names /\ L[x] = eq
  BY EngineLine
<1>2. L2[x] = eq2
  BY EngineLine
<1>3. \A z \in Names : z # x => L2[z] = L[z]
  <2>1. ASSUME NEW z \in Names, z # x PROVE L2[z] = L[z]
    <3>3. CASE \E f \in Ext : z = <<"pending", f>>
      BY <3>3, PendingLine
    <3>4. CASE \E s \in Thread : z = <<"queue", s>>
      BY <3>4, QueueLine
    <3>5. CASE \E s \in Thread : z = <<"direct", s>>
      BY <3>5, DirectLine
    <3> QED
      BY <2>1, <3>3, <3>4, <3>5, NameCases
  <2> QED
    BY <2>1
<1> HIDE DEF L, L2, x
<1>4. L[x] # <<>> /\ L2[x] = Tail(L[x]) /\ Head(L[x]) = Head(eq)
      /\ L[x] \in Seq(Msg \cup {CloseTask})
  BY <1>1, <1>2 DEF eq2
<1>5. Takes(L, ip, L2, T, P, Head(L[x]))
  BY <1>1, <1>3, <1>4, TakeHead DEF Takes
<1> QED
  BY <1>4, <1>5 DEF L, L2, eq2

\* A message is posted to the runloop of a thread.
LEMMA PutQueue ==
    ASSUME NEW pe, NEW qu, NEW eq, NEW di, NEW q2, NEW t \in Thread,
           NEW m \in Msg \cup {CloseTask},
           qu[t] \in Seq(Msg \cup {CloseTask}), q2[t] = Append(qu[t], m),
           \A s \in Thread : s # t => q2[s] = qu[s], NEW ip, NEW T, NEW P
    PROVE  Receives(LinesOf(pe, qu, eq, di), ip, LinesOf(pe, q2, eq, di), ip,
                    T, P, m \in T)
<1> DEFINE L  == LinesOf(pe, qu, eq, di)
           L2 == LinesOf(pe, q2, eq, di)
           x  == <<"queue", t>>
<1>1. x \in Names /\ L[x] = qu[t]
  BY QueueLine
<1>2. L2[x] = q2[t]
  BY QueueLine
<1>3. \A z \in Names : z # x => L2[z] = L[z]
  BY OtherQueue
<1> HIDE DEF L, L2, x
<1>4. Receives(L, ip, L2, ip, T, P, m \in T)
  BY <1>1, <1>2, <1>3, PutLine
<1> QED
  BY <1>4 DEF L, L2

\* A task that is no message put at the end of every queue.
LEMMA PutTasks ==
    ASSUME NEW pe, NEW qu, NEW eq, NEW di, NEW q2,
           \A s \in Thread : /\ qu[s] \in Seq(Msg \cup {CloseTask})
                             /\ q2[s] = Append(qu[s], CloseTask),
           NEW ip, NEW T, NEW P, T \subseteq Msg
    PROVE  Carries(LinesOf(pe, qu, eq, di), ip, LinesOf(pe, q2, eq, di), ip, T, P)
<1> DEFINE L  == LinesOf(pe, qu, eq, di)
           L2 == LinesOf(pe, q2, eq, di)
<1>1. CloseTask \notin T
  BY MsgFields DEF CloseTask
<1>2. ASSUME NEW s \in Thread
      PROVE  (Has(q2[s], T) <=> Has(qu[s], T)) /\ (Once(q2[s], T) <=> Once(qu[s], T))
  <2>1. /\ Has(Append(qu[s], CloseTask), T) <=> Has(qu[s], T) \/ CloseTask \in T
        /\ Once(Append(qu[s], CloseTask), T)
             <=> Once(qu[s], T) /\ ~(CloseTask \in T /\ Has(qu[s], T))
    <3>1. CloseTask \in Msg \cup {CloseTask} /\ qu[s] \in Seq(Msg \cup {CloseTask})
      OBVIOUS
    <3> QED
      BY <3>1, HasAppend
  <2> QED
    BY <1>1, <2>1
<1>3. ASSUME NEW z \in Names
      PROVE  (Has(L2[z], T) <=> Has(L[z], T)) /\ (Once(L2[z], T) <=> Once(L[z], T))
  <2>3. CASE \E f \in Ext : z = <<"pending", f>>
    BY <2>3, PendingLine
  <2>4. CASE \E s \in Thread : z = <<"queue", s>>
    <3>1. PICK s \in Thread : z = <<"queue", s>>
      BY <2>4
    <3>2. L[<<"queue", s>>] = qu[s]
      BY QueueLine
    <3>3. L2[<<"queue", s>>] = q2[s]
      BY QueueLine
    <3> QED
      BY <1>2, <3>1, <3>2, <3>3, Zenon
  <2>5. CASE \E s \in Thread : z = <<"direct", s>>
    BY <2>5, DirectLine
  <2>6. CASE z = <<"engine", None>>
    BY <2>6, EngineLine
  <2> QED
    BY <2>3, <2>4, <2>5, <2>6, NameCases, Zenon
<1> HIDE DEF L, L2
<1>4. (Met(L2, T) <=> Met(L, T)) /\ (Sole(L, T) => Sole(L2, T))
  BY <1>3 DEF Met, Sole
<1>5. Carries(L, ip, L2, ip, T, P)
  BY <1>4 DEF Carries, Alone, Nowhere
<1> QED
  BY <1>5 DEF L, L2

\* The results that are not the last ones.
Partial == {m \in Msg : m.kind = "result" /\ ~m.final}

AllFinal == ~Met(Lines, Partial)

\* AllFinal says that no list has a result that is not the last one.
LEMMA FinalNowhere == ASSUME NEW ip PROVE AllFinal <=> Nowhere(Lines, ip, Partial, {})
  BY DEF AllFinal, Nowhere, MetIn

\* A message is taken and put somewhere else.
LEMMA ThenReceives ==
    ASSUME NEW L, NEW ip, NEW L2, NEW L3, NEW ip3, NEW T, NEW P, NEW m,
           Takes(L, ip, L2, T, P, m), Receives(L2, ip, L3, ip3, T, P, m \in T)
    PROVE  Carries(L, ip, L3, ip3, T, P)
  BY DEF Takes, Receives, Carries, Fits

\* A message is taken and is gone.
LEMMA ThenCarries ==
    ASSUME NEW L, NEW ip, NEW L2, NEW L3, NEW ip3, NEW T, NEW P, NEW m,
           Takes(L, ip, L2, T, P, m), Carries(L2, ip, L3, ip3, T, P)
    PROVE  /\ Carries(L, ip, L3, ip3, T, P)
           /\ m \in T /\ Alone(L, ip, T, P) => Nowhere(L3, ip3, T, P)
  BY DEF Takes, Carries, Fits

\* What handling a dispatched message does to the tokens.
LEMMA HandleDirectCarries ==
    ASSUME TypeOK, MsgsHome, AllFinal, NEW t \in Thread, HandleDirect(t),
           NEW T, NEW P, Coherent(T, P)
    PROVE  /\ Carries(Lines, inPaths, Lines', inPaths', T, P)
           /\ /\ Head(direct[t]).kind = "result" /\ Head(direct[t]) \in T
              /\ Alone(Lines, inPaths, T, P)
              => Nowhere(Lines', inPaths', T, P)
           /\ Nowhere(Lines, inPaths, T, P) => Head(direct[t]) \notin T
<1> DEFINE m == Head(direct[t])
           left == Tail(direct[t])
           d2 == [direct EXCEPT ![t] = left]
<1>1. /\ direct[t] # <<>> /\ direct[t] \in Seq(Msg) /\ m \in Msg /\ left \in Seq(Msg)
      /\ ThreadOf[m.dst] = t /\ HandleInMsg(m.dst, m, left) /\ queue' = queue
  BY MsgLists DEF HandleDirect, TypeOK
<1>2. m.dst \in Ext
  BY <1>1, MsgFields
<1>3. d2[t] = Tail(direct[t]) /\ \A s \in Thread : s # t => d2[s] = direct[s]
  BY DEF TypeOK
<1> HIDE DEF m, left, d2
<1>4. ASSUME NEW U, NEW Q
      PROVE  Takes(Lines, inPaths, LinesOf(pending, queue, engineQueue, d2), U, Q, m)
  BY <1>1, <1>3, TakeDirect DEF Lines, m
<1>5. m.kind = "result" => m.final
  <2>1. m \notin Partial
    BY <1>4, FinalNowhere DEF Takes
  <2> QED
    BY <1>1, <2>1 DEF Partial
<1>6. /\ Receives(Prior(pending, queue, ThreadOf[m.dst], left), inPaths,
                  Afterwards(pending', queue), inPaths', T, P, m \in T)
      /\ m.kind = "result" =>
           Carries(Prior(pending, queue, ThreadOf[m.dst], left), inPaths,
                   Afterwards(pending', queue), inPaths', T, P)
  BY <1>1, <1>2, <1>5, HandleInMsgReceives
<1>7. /\ Prior(pending, queue, ThreadOf[m.dst], left)
            = LinesOf(pending, queue, engineQueue, d2)
      /\ Afterwards(pending', queue) = Lines'
  BY <1>1 DEF Prior, Afterwards, Lines, d2
<1>8. Receives(LinesOf(pending, queue, engineQueue, d2), inPaths, Lines', inPaths',
               T, P, m \in T)
  BY <1>6, <1>7
<1>9. m.kind = "result" =>
        Carries(LinesOf(pending, queue, engineQueue, d2), inPaths, Lines', inPaths', T, P)
  BY <1>6, <1>7
<1>10. Takes(Lines, inPaths, LinesOf(pending, queue, engineQueue, d2), T, P, m)
  BY <1>4
<1>11. Carries(Lines, inPaths, Lines', inPaths', T, P)
  BY <1>8, <1>10, ThenReceives
<1>12. m.kind = "result" /\ m \in T /\ Alone(Lines, inPaths, T, P)
         => Nowhere(Lines', inPaths', T, P)
  BY <1>9, <1>10, ThenCarries
<1>13. Nowhere(Lines, inPaths, T, P) => m \notin T
  BY <1>10 DEF Takes
<1> QED
  BY <1>11, <1>12, <1>13 DEF m

\* What a task of the runloop does to the tokens.
LEMMA ReceiveCarries ==
    ASSUME TypeOK, MsgsHome, AllFinal, NEW t \in Thread, Receive(t),
           NEW T, NEW P, Coherent(T, P)
    PROVE  /\ Carries(Lines, inPaths, Lines', inPaths', T, P)
           /\ /\ Head(queue[t]).kind = "result" /\ Head(queue[t]) \in T
              /\ Alone(Lines, inPaths, T, P)
              => Nowhere(Lines', inPaths', T, P)
           /\ Nowhere(Lines, inPaths, T, P) => Head(queue[t]) \notin T
<1> DEFINE m == Head(queue[t])
           q2 == queue'
<1>1. /\ queue[t] # <<>> /\ queue[t] \in Seq(Msg \cup {CloseTask})
      /\ m \in Msg \cup {CloseTask} /\ direct[t] = <<>>
      /\ queue' = [queue EXCEPT ![t] = Tail(queue[t])]
  BY DEF Receive, TypeOK, Free
<1>2. q2[t] = Tail(queue[t]) /\ \A s \in Thread : s # t => q2[s] = queue[s]
  BY <1>1 DEF TypeOK
<1>3. m \in Msg => ThreadOf[m.dst] = t
  <2>1. queue[t] \in Seq(HomeMsg(t) \cup {CloseTask})
    BY DEF MsgsHome
  <2>2. m \in HomeMsg(t) \cup {CloseTask}
    BY <1>1, <2>1
  <2>3. m \in Msg => m # CloseTask
    BY MsgFields DEF CloseTask
  <2> QED
    BY <2>2, <2>3 DEF HomeMsg
<1> HIDE DEF m, q2
<1>4. ASSUME NEW U, NEW Q
      PROVE  Takes(Lines, inPaths, LinesOf(pending, q2, engineQueue, direct), U, Q, m)
  BY <1>1, <1>2, TakeQueue DEF Lines, m
<1>5. m \in Msg /\ m.kind = "result" => m.final
  <2>1. m \notin Partial
    BY <1>4, FinalNowhere DEF Takes
  <2> QED
    BY <2>1 DEF Partial
<1>6. ASSUME m.kind # "close", HandleInMsg(m.dst, m, <<>>)
      PROVE  /\ Carries(Lines, inPaths, Lines', inPaths', T, P)
             /\ m.kind = "result" /\ m \in T /\ Alone(Lines, inPaths, T, P)
                  => Nowhere(Lines', inPaths', T, P)
  <2>1. m \in Msg
    BY <1>1, <1>6 DEF CloseTask
  <2>2. m.dst \in Ext /\ ThreadOf[m.dst] = t
    BY <1>3, <2>1, MsgFields
  <2>3. /\ Receives(Prior(pending, q2, t, <<>>), inPaths,
                    Afterwards(pending', q2), inPaths', T, P, m \in T)
        /\ m.kind = "result" =>
             Carries(Prior(pending, q2, t, <<>>), inPaths,
                     Afterwards(pending', q2), inPaths', T, P)
    <3>1. <<>> \in Seq(Msg)
      OBVIOUS
    <3>2. /\ Receives(Prior(pending, q2, ThreadOf[m.dst], <<>>), inPaths,
                    Afterwards(pending', q2), inPaths', T, P, m \in T)
          /\ m.kind = "result" =>
             Carries(Prior(pending, q2, ThreadOf[m.dst], <<>>), inPaths,
                     Afterwards(pending', q2), inPaths', T, P)
      BY <1>5, <1>6, <2>1, <2>2, <3>1, HandleInMsgReceives
    <3> QED
      BY <2>2, <3>2
  <2>4. [direct EXCEPT ![t] = <<>>] = direct
    BY <1>1 DEF TypeOK
  <2>5. /\ Prior(pending, q2, t, <<>>) = LinesOf(pending, q2, engineQueue, direct)
        /\ Afterwards(pending', q2) = Lines'
    BY <2>4 DEF Prior, Afterwards, Lines, q2
  <2>6. Receives(LinesOf(pending, q2, engineQueue, direct), inPaths, Lines', inPaths',
                 T, P, m \in T)
    BY <2>3, <2>5
  <2>7. m.kind = "result" =>
          Carries(LinesOf(pending, q2, engineQueue, direct), inPaths, Lines', inPaths', T, P)
    BY <2>3, <2>5
  <2>8. Takes(Lines, inPaths, LinesOf(pending, q2, engineQueue, direct), T, P, m)
    BY <1>4
  <2>9. Carries(Lines, inPaths, Lines', inPaths', T, P)
    BY <2>6, <2>8, ThenReceives
  <2>10. m.kind = "result" /\ m \in T /\ Alone(Lines, inPaths, T, P)
           => Nowhere(Lines', inPaths', T, P)
    BY <2>7, <2>8, ThenCarries
  <2> QED
    BY <2>9, <2>10 DEF m
<1>7. ASSUME m.kind = "close",
             UNCHANGED <<pathVars, live, held, pending, engineQueue, direct,
                          active, nextId, histVars>>
      PROVE  /\ Carries(Lines, inPaths, Lines', inPaths', T, P)
             /\ m.kind = "result" /\ m \in T /\ Alone(Lines, inPaths, T, P)
                  => Nowhere(Lines', inPaths', T, P)
  <2>1. Lines' = LinesOf(pending, q2, engineQueue, direct) /\ inPaths' = inPaths
    BY <1>7 DEF Lines, q2, pathVars
  <2>2. Takes(Lines, inPaths, Lines', T, P, m)
    BY <1>4, <2>1
  <2> QED
    BY <1>7, <2>1, <2>2 DEF Takes, Carries, Fits, m
<1>8. Nowhere(Lines, inPaths, T, P) => m \notin T
  BY <1>4 DEF Takes
<1> QED
  BY <1>6, <1>7, <1>8 DEF Receive, m

\* What the engine does to the tokens.
LEMMA EngineDispatchCarries ==
    ASSUME TypeOK, EngineDispatch, NEW T, NEW P
    PROVE  Carries(Lines, inPaths, Lines', inPaths', T, P)
<1> DEFINE m == Head(engineQueue)
           e2 == Tail(engineQueue)
           q2 == queue'
           t == ThreadOf[m.dst]
<1>1. /\ engineQueue # <<>> /\ engineQueue \in Seq(Msg) /\ m \in Msg
      /\ inPaths' = inPaths /\ pending' = pending /\ direct' = direct /\ engineQueue' = e2
  BY MsgLists DEF EngineDispatch, TypeOK, pathVars
<1>2. t \in Thread
  BY <1>1, MsgFields, ThreadType
<1>3. q2 = queue \/ q2 = [queue EXCEPT ![t] = Append(@, m)]
  BY SMTT(30) DEF EngineDispatch
<1>4. q2 = queue \/ /\ q2[t] = Append(queue[t], m) /\ queue[t] \in Seq(Msg \cup {CloseTask})
                    /\ \A s \in Thread : s # t => q2[s] = queue[s]
  BY <1>2, <1>3, Zenon DEF TypeOK
<1>5. Takes(LinesOf(pending, queue, engineQueue, direct), inPaths,
            LinesOf(pending, queue, e2, direct), T, P, m)
  BY <1>1, TakeEngine
<1>6. Lines' = LinesOf(pending, q2, e2, direct)
  BY <1>1 DEF Lines
<1> HIDE DEF m, e2, q2, t
<1>7. CASE q2 = queue
  BY <1>1, <1>5, <1>6, <1>7 DEF Lines, Takes, Carries, Fits
<1>8. CASE /\ q2[t] = Append(queue[t], m) /\ queue[t] \in Seq(Msg \cup {CloseTask})
           /\ \A s \in Thread : s # t => q2[s] = queue[s]
  <2>1. m \in Msg \cup {CloseTask}
    BY <1>1
  <2>2. Receives(LinesOf(pending, queue, e2, direct), inPaths,
                 LinesOf(pending, q2, e2, direct), inPaths, T, P, m \in T)
    BY <1>2, <1>8, <2>1, PutQueue
  <2> QED
    BY <1>1, <1>5, <1>6, <2>2, ThenReceives DEF Lines
<1> QED
  BY <1>4, <1>7, <1>8

\* A message that a thread had left to dispatch goes to the engine.
LEMMA DispatchLeftCarries ==
    ASSUME TypeOK, NEW t \in Thread, DispatchLeft(t), NEW T, NEW P
    PROVE  Carries(Lines, inPaths, Lines', inPaths', T, P)
<1> DEFINE eq2 == engineQueue'
           d2 == direct'
<1>1. /\ direct[t] \in Seq(Msg) /\ direct[t] # <<>> /\ engineQueue \in Seq(Msg)
      /\ Head(direct[t]) \in Msg
      /\ inPaths' = inPaths /\ pending' = pending /\ queue' = queue
  BY MsgLists DEF DispatchLeft, TypeOK, pathVars
<1>2. /\ eq2 = Append(engineQueue, Head(direct[t])) /\ d2[t] = Tail(direct[t])
      /\ \A s \in Thread : s # t => d2[s] = direct[s]
  BY DEF DispatchLeft, TypeOK
<1>3. /\ Has(direct[t], T) <=> Head(direct[t]) \in T \/ Has(d2[t], T)
      /\ Once(direct[t], T) <=> /\ Once(d2[t], T)
                                /\ ~(Head(direct[t]) \in T /\ Has(d2[t], T))
  BY <1>1, <1>2, HasHead
<1>4. /\ Has(eq2, T) <=> Has(engineQueue, T) \/ Head(direct[t]) \in T
      /\ Once(eq2, T) <=> /\ Once(engineQueue, T)
                          /\ ~(Head(direct[t]) \in T /\ Has(engineQueue, T))
  BY <1>1, <1>2, HasAppend
<1>5. Lines' = LinesOf(pending, queue, eq2, d2)
  BY <1>1 DEF Lines
<1> HIDE DEF eq2, d2
<1>6. Has(d2[t], T) \/ Has(eq2, T) <=> Has(direct[t], T) \/ Has(engineQueue, T)
  BY <1>3, <1>4
<1>7. /\ Once(direct[t], T) /\ Once(engineQueue, T)
      /\ ~(Has(direct[t], T) /\ Has(engineQueue, T))
      => /\ Once(d2[t], T) /\ Once(eq2, T) /\ ~(Has(d2[t], T) /\ Has(eq2, T))
  BY <1>3, <1>4
<1>8. /\ Alone(LinesOf(pending, queue, engineQueue, direct), inPaths, T, P)
           => Alone(LinesOf(pending, queue, eq2, d2), inPaths, T, P)
      /\ Nowhere(LinesOf(pending, queue, engineQueue, direct), inPaths, T, P)
           => Nowhere(LinesOf(pending, queue, eq2, d2), inPaths, T, P)
  <2>1. \A s \in Thread : s # t => d2[s] = direct[s]
    BY <1>2
  <2> QED
    BY <1>6, <1>7, <2>1, ShiftDirect
<1>9. Lines = LinesOf(pending, queue, engineQueue, direct)
  BY DEF Lines
<1>10. /\ Alone(Lines, inPaths, T, P) => Alone(Lines', inPaths', T, P)
       /\ Nowhere(Lines, inPaths, T, P) => Nowhere(Lines', inPaths', T, P)
  BY <1>1, <1>5, <1>8, <1>9
<1> QED
  BY <1>10, Zenon DEF Carries

\* What a message that was put aside does to the tokens.
LEMMA ReceivePendingCarries ==
    ASSUME TypeOK, NEW e \in Ext, ReceivePending(e),
           NEW T, NEW P, Coherent(T, P)
    PROVE  Carries(Lines, inPaths, Lines', inPaths', T, P)
<1> DEFINE m == Head(pending[e])
           p2 == pending'
           t == ThreadOf[e]
<1>1. /\ pending[e] # <<>> /\ pending[e] \in Seq(CmdMsg) /\ m \in CmdMsg
      /\ pending' = [pending EXCEPT ![e] = Tail(pending[e])]
      /\ queue' = queue /\ TakeCmd(e, m, <<>>) /\ direct[t] = <<>> /\ t \in Thread
  BY ThreadType DEF ReceivePending, TypeOK
<1>2. p2[e] = Tail(pending[e]) /\ \A f \in Ext : f # e => p2[f] = pending[f]
  BY <1>1 DEF TypeOK
<1>3. [direct EXCEPT ![t] = <<>>] = direct
  BY <1>1 DEF TypeOK
<1> HIDE DEF m, p2, t
<1>4. Takes(Lines, inPaths, LinesOf(p2, queue, engineQueue, direct), T, P, m)
  BY <1>1, <1>2, TakePending DEF Lines, m
<1>5. Receives(Prior(p2, queue, ThreadOf[e], <<>>), inPaths,
               Afterwards(p2, queue), inPaths', T, P, m \in T)
  <2>1. <<>> \in Seq(Msg)
    OBVIOUS
  <2> QED
    BY <1>1, <2>1, TakeCmdReceives
<1>6. /\ Prior(p2, queue, ThreadOf[e], <<>>) = LinesOf(p2, queue, engineQueue, direct)
      /\ Afterwards(p2, queue) = Lines'
  BY <1>1, <1>3 DEF Prior, Afterwards, Lines, p2, t
<1>7. Receives(LinesOf(p2, queue, engineQueue, direct), inPaths, Lines', inPaths',
               T, P, m \in T)
  BY <1>5, <1>6
<1> QED
  BY <1>4, <1>7, ThenReceives

\* Steps that touch neither lists nor IN paths.
LEMMA SameCarries ==
    ASSUME NEW T, NEW P, UNCHANGED <<pending, queue, engineQueue, direct, inPaths>>
    PROVE  Carries(Lines, inPaths, Lines', inPaths', T, P)
<1>1. Lines' = Lines /\ inPaths' = inPaths
  BY DEF Lines
<1> QED
  BY <1>1 DEF Carries

\* Steps that only take IN paths away.
LEMMA FewerCarries ==
    ASSUME NEW T, NEW P, UNCHANGED <<pending, queue, engineQueue, direct>>,
           \A z \in Ext : inPaths'[z] \subseteq inPaths[z]
    PROVE  Carries(Lines, inPaths, Lines', inPaths', T, P)
<1> DEFINE ip2 == inPaths'
<1>1. Lines' = Lines
  BY DEF Lines
<1>2. \A z \in Ext : ip2[z] \subseteq inPaths[z]
  OBVIOUS
<1> HIDE DEF ip2
<1>3. /\ Alone(Lines, inPaths, T, P) => Alone(Lines, ip2, T, P)
      /\ Nowhere(Lines, inPaths, T, P) => Nowhere(Lines, ip2, T, P)
  BY <1>2, FewerIn
<1> QED
  BY <1>1, <1>3 DEF Carries, ip2

\* A result that is made up comes from nowhere.
LEMMA MadeUpCarries ==
    ASSUME TypeOK, NEW e \in Ext, NEW p \in OutPath,
           TakeResult(e, MadeUpResult(e, p), <<>>), direct[ThreadOf[e]] = <<>>,
           UNCHANGED <<pending, queue>>, NEW T, NEW P, Coherent(T, P)
    PROVE  Carries(Lines, inPaths, Lines', inPaths', T, P)
<1> DEFINE m == MadeUpResult(e, p)
<1>1. m \in ResultMsg /\ m.final /\ <<>> \in Seq(Msg) /\ ThreadOf[e] \in Thread
  <2>1. m \in ResultMsg
    BY OutPathFields, ResultIsMsg DEF MadeUpResult
  <2>2. m.final
    BY DEF MadeUpResult, Result
  <2>3. ThreadOf[e] \in Thread
    BY ThreadType
  <2>4. <<>> \in Seq(Msg)
    OBVIOUS
  <2> HIDE DEF m
  <2> QED
    BY <2>1, <2>2, <2>3, <2>4
<1> HIDE DEF m
<1>2. Carries(Prior(pending, queue, ThreadOf[e], <<>>), inPaths,
              Afterwards(pending, queue), inPaths', T, P)
  BY <1>1, TakeResultCarries DEF m
<1>3. [direct EXCEPT ![ThreadOf[e]] = <<>>] = direct
  BY <1>1 DEF TypeOK
<1>4. /\ Prior(pending, queue, ThreadOf[e], <<>>) = Lines
      /\ Afterwards(pending, queue) = Lines'
  BY <1>3 DEF Prior, Afterwards, Lines
<1> QED
  BY <1>2, <1>4

\* The code of an extension returns a last result.
LEMMA ReturnResultCarries ==
    ASSUME TypeOK, NEW e \in Ext, NEW i \in held[e], NEW ok \in BOOLEAN,
           ReturnResult(e, i, ok), NEW T, NEW P, Coherent(T, P)
    PROVE  Carries(Lines, inPaths, Lines', inPaths', T, P)
<1> DEFINE left == direct[ThreadOf[e]]
<1>1. /\ i \in Id /\ left \in Seq(Msg) /\ ThreadOf[e] \in Thread
      /\ ReturnTo(e, i, ok, TRUE, left) /\ UNCHANGED <<pending, queue>>
  BY ThreadType DEF TypeOK, ReturnResult
<1>2. [direct EXCEPT ![ThreadOf[e]] = left] = direct
  BY <1>1 DEF TypeOK
<1> HIDE DEF left
<1>3. Carries(Prior(pending, queue, ThreadOf[e], left), inPaths,
              Afterwards(pending, queue), inPaths', T, P)
  BY <1>1, ReturnToCarries
<1>4. /\ Prior(pending, queue, ThreadOf[e], left) = Lines
      /\ Afterwards(pending, queue) = Lines'
  BY <1>1, <1>2 DEF Prior, Afterwards, Lines
<1> QED
  BY <1>3, <1>4

\* A step in which no command is sent brings nothing new.
LEMMA StepCarries ==
    ASSUME TypeOK, MsgsHome, Streamers = {}, AllFinal, [Next]_vars,
           NEW T, NEW P, Coherent(T, P)
    PROVE  \/ Carries(Lines, inPaths, Lines', inPaths', T, P)
           \/ \E e \in Ext, h \in HandlerKinds : Send(e, h)
           \/ \E e \in Ext, h \in HandlerKinds : \E i \in held[e] : Forward(e, i, h)
<1> DEFINE Goal == \/ Carries(Lines, inPaths, Lines', inPaths', T, P)
                   \/ \E e \in Ext, h \in HandlerKinds : Send(e, h)
                   \/ \E e \in Ext, h \in HandlerKinds : \E i \in held[e] : Forward(e, i, h)
<1>1. CASE EngineDispatch
  BY <1>1, EngineDispatchCarries
<1>2. CASE EngineClose
  BY <1>2, SameCarries DEF EngineClose, pathVars, netVars
<1>3. CASE CloseThreads
  <2> DEFINE q2 == queue'
  <2>1. \A s \in Thread : /\ queue[s] \in Seq(Msg \cup {CloseTask})
                          /\ q2[s] = Append(queue[s], CloseTask)
    BY <1>3 DEF CloseThreads, TypeOK
  <2> HIDE DEF q2
  <2>2. Carries(LinesOf(pending, queue, engineQueue, direct), inPaths,
                LinesOf(pending, q2, engineQueue, direct), inPaths, T, P)
    BY <2>1, PutTasks DEF Coherent
  <2>3. Lines' = LinesOf(pending, q2, engineQueue, direct) /\ inPaths' = inPaths
    BY <1>3 DEF CloseThreads, pathVars, Lines, q2
  <2> QED
    BY <2>2, <2>3 DEF Lines
<1>4. ASSUME NEW t \in Thread, HandleDirect(t) PROVE Goal
  BY <1>4, HandleDirectCarries
<1>4a. ASSUME NEW t \in Thread, DispatchLeft(t) PROVE Goal
  BY <1>4a, DispatchLeftCarries
<1>5. ASSUME NEW t \in Thread, Receive(t) PROVE Goal
  BY <1>5, ReceiveCarries
<1>6. ASSUME NEW e \in Ext, NEW h \in Handlers, Send(e, h) PROVE Goal
  BY <1>6, ActorsAssumption
<1>7. ASSUME NEW e \in Ext, NEW i \in held[e], NEW h \in Handlers, Forward(e, i, h)
      PROVE  Goal
  BY <1>7, ActorsAssumption
<1>8. ASSUME NEW e \in Ext, NEW i \in held[e], NEW ok \in BOOLEAN, ReturnResult(e, i, ok)
      PROVE  Goal
  BY <1>8, ReturnResultCarries
<1>9. ASSUME NEW e \in Ext, NEW i \in held[e], ReturnPartial(e, i) PROVE Goal
  BY <1>9 DEF ReturnPartial
<1>10. ASSUME NEW e \in Ext, ReceivePending(e) PROVE Goal
  BY <1>10, ReceivePendingCarries
<1>11. ASSUME NEW e \in Ext, NEW p \in inPaths[e], InPathTimeout(e, p) PROVE Goal
  <2>1. \A z \in Ext : inPaths'[z] \subseteq inPaths[z]
    BY <1>11 DEF InPathTimeout, TypeOK
  <2> QED
    BY <1>11, <2>1, FewerCarries DEF InPathTimeout, netVars
<1>12. ASSUME NEW e \in Ext, NEW p \in outPaths[e], OutPathTimeout(e, p) PROVE Goal
  <2>1. p \in OutPath
    BY DEF TypeOK
  <2> QED
    BY <1>12, <2>1, MadeUpCarries DEF OutPathTimeout, TimersRun, Free
<1>13. ASSUME NEW e \in Ext, FlushOne(e) PROVE Goal
  <2>1. PICK p \in Oldest(flush[e]) : TakeResult(e, MadeUpResult(e, p), <<>>)
    BY <1>13 DEF FlushOne
  <2>2. p \in OutPath
    BY DEF Oldest, TypeOK
  <2> QED
    BY <1>13, <2>1, <2>2, MadeUpCarries DEF FlushOne
<1>14. ASSUME NEW e \in Ext, TimersClosed(e) PROVE Goal
  <2>1. \A z \in Ext : inPaths'[z] \subseteq inPaths[z]
    BY <1>14 DEF TimersClosed, TypeOK
  <2> QED
    BY <1>14, <2>1, FewerCarries DEF TimersClosed, netVars
<1>15. ASSUME NEW e \in Ext, StartDone(e) \/ StopDone(e) \/ Deinit(e) \/ DeinitDone(e)
       PROVE  Goal
  BY <1>15, SameCarries DEF StartDone, StopDone, Deinit, DeinitDone, pathVars, netVars
<1>16. CASE UNCHANGED vars
  BY <1>16, SameCarries DEF vars, pathVars, netVars
<1> QED
  BY <1>1, <1>2, <1>3, <1>4, <1>4a, <1>5, <1>6, <1>7, <1>8, <1>9, <1>10, <1>11,
     <1>12, <1>13, <1>14, <1>15, <1>16 DEF Next

-----------------------------------------------------------------------------
\* The commands of a send call.

Launched(e, i, fresh) ==
    [k \in DOMAIN Route[e] |->
        Cmd(IF k = 1 THEN i ELSE fresh + (k - 2), Len(sent) + 1, e, Route[e][k])]

\* The commands of a send call have different ids.
LEMMA LaunchedMsgs ==
    ASSUME TypeOK, NEW e \in Ext, NEW i \in Id, NEW handler \in HandlerKinds,
           NEW fresh \in 1 .. MaxId + 1, i < fresh, Launch(e, i, handler, fresh)
    PROVE  /\ Launched(e, i, fresh) \in Seq(CmdMsg)
           /\ Launched(e, i, fresh) \in Seq(Msg)
           /\ DOMAIN Launched(e, i, fresh) = DOMAIN Route[e]
           /\ Emit(ThreadOf[e], Launched(e, i, fresh), direct[ThreadOf[e]])
           /\ Len(sent) + 1 \in Ctx
           /\ \A k \in DOMAIN Route[e] :
                /\ Launched(e, i, fresh)[k].ctx = Len(sent) + 1
                /\ Launched(e, i, fresh)[k].id = IF k = 1 THEN i ELSE fresh + (k - 2)
                /\ Launched(e, i, fresh)[k].kind = "cmd"
                /\ Launched(e, i, fresh)[k].src = e
                /\ Launched(e, i, fresh)[k].dst = Route[e][k]
           /\ \A j, k \in DOMAIN Route[e] :
                Launched(e, i, fresh)[j].id = Launched(e, i, fresh)[k].id => j = k
<1> DEFINE dests  == Route[e]
           n      == Len(dests)
           call   == Len(sent) + 1
           pid(k) == IF k = 1 THEN i ELSE fresh + (k - 2)
           msg(k) == Cmd(pid(k), call, e, dests[k])
<1>1. dests \in Seq(Ext) /\ DOMAIN dests = 1 .. n /\ n \in Nat
  BY GraphAssumption
<1>2. /\ call \in Ctx
      /\ fresh + (n - 2) <= MaxId
      /\ Emit(ThreadOf[e], [k \in DOMAIN dests |-> msg(k)], direct[ThreadOf[e]])
  BY DEF Launch
<1>3. \A k \in DOMAIN dests : pid(k) \in Id /\ dests[k] \in Ext
  <2>1. ASSUME NEW k \in DOMAIN dests
        PROVE  pid(k) \in Id
    <3>1. k \in 1 .. n /\ fresh + (n - 2) <= MaxId
      BY <1>1, <1>2
    <3> QED
      BY <1>1, <3>1, LaunchIds, Zenon
  <2>2. \A k \in DOMAIN dests : dests[k] \in Ext
    BY <1>1
  <2> QED
    BY <2>1, <2>2
<1>4. \A j, k \in DOMAIN dests : pid(j) = pid(k) => j = k
  <2>1. fresh \in Nat /\ i \in Nat
    BY BoundAssumption DEF Id
  <2> QED
    BY <1>1, <2>1
<1>5. Launched(e, i, fresh) = [k \in DOMAIN dests |-> msg(k)]
  BY DEF Launched
<1> HIDE DEF pid, dests, n, call
<1>6. \A k \in DOMAIN dests : /\ msg(k) \in Msg /\ msg(k) \in CmdMsg
                              /\ msg(k).ctx = call /\ msg(k).id = pid(k)
                              /\ msg(k).kind = "cmd" /\ msg(k).src = e
                              /\ msg(k).dst = dests[k]
  BY <1>2, <1>3, CmdIsMsg DEF Cmd
<1> HIDE DEF msg
<1>7. [k \in DOMAIN dests |-> msg(k)] \in Seq(Msg) /\ [k \in DOMAIN dests |-> msg(k)] \in Seq(CmdMsg)
  BY <1>1, <1>6
<1> QED
  BY <1>2, <1>4, <1>5, <1>6, <1>7 DEF dests, call, pid

\* A send call adds the messages it launches, and no others.
LEMMA LaunchLines ==
    ASSUME TypeOK, NEW e \in Ext, NEW i \in Id, NEW handler \in HandlerKinds,
           NEW fresh \in 1 .. MaxId + 1, i < fresh, Launch(e, i, handler, fresh),
           UNCHANGED <<pending, queue>>, NEW ip, NEW T, NEW P,
           Once(Launched(e, i, fresh), T)
    PROVE  /\ Fits(Lines, ip, T, P, Has(Launched(e, i, fresh), T)) => Alone(Lines', ip, T, P)
           /\ Nowhere(Lines, ip, T, P) /\ ~Has(Launched(e, i, fresh), T)
                => Nowhere(Lines', ip, T, P)
<1> DEFINE msgs == Launched(e, i, fresh)
           left == direct[ThreadOf[e]]
<1>1. /\ msgs \in Seq(Msg) /\ left \in Seq(Msg) /\ ThreadOf[e] \in Thread
      /\ Emit(ThreadOf[e], msgs, left)
  BY LaunchedMsgs, ThreadType DEF TypeOK
<1>2. [direct EXCEPT ![ThreadOf[e]] = left] = direct
  BY <1>1 DEF TypeOK
<1> HIDE DEF msgs, left
<1>3. LET L  == LinesOf(pending, queue, engineQueue, [direct EXCEPT ![ThreadOf[e]] = left])
          L2 == LinesOf(pending, queue, engineQueue', direct')
      IN  /\ Fits(L, ip, T, P, Has(msgs, T)) => Alone(L2, ip, T, P)
          /\ Nowhere(L, ip, T, P) /\ ~Has(msgs, T) => Nowhere(L2, ip, T, P)
  <2>1. engineQueue \in Seq(Msg) /\ direct \in [Thread -> Seq(Msg)]
    BY DEF TypeOK
  <2>2. Once(msgs, T)
    BY DEF msgs
  <2> QED
    BY <1>1, <2>1, <2>2, EmitLines
<1> QED
  BY <1>2, <1>3 DEF Lines, msgs

-----------------------------------------------------------------------------
\* Tokens: what is left of a command that was launched.

\* What a result leaves in the history of the send call whose path it takes.
Hearing == [id : Id, ok : BOOLEAN, final : BOOLEAN, of : Ctx]
HearingOf(m) == [id |-> m.id, ok |-> m.ok, final |-> m.final, of |-> m.ctx]

\* Nothing is heard for a send call that was not made.
HeardInv == /\ heard \in [Ctx -> Seq(Hearing)]
            /\ \A c \in Ctx : c > Len(sent) => heard[c] = <<>>

\* The messages and IN paths by which the command i of send call c, or its
\* result, can be under way, and that it is not.
TokenMsgs(c, i) == {m \in Msg : m.ctx = c /\ m.id = i}
TokenPaths(c, i) == {p \in InPath : p.ctx = c /\ Reverted(p) = i}
Gone(c, i) == Nowhere(Lines, inPaths, TokenMsgs(c, i), TokenPaths(c, i))
Single(c, i) == Alone(Lines, inPaths, TokenMsgs(c, i), TokenPaths(c, i))

\* A step that sends a command.
Sends(e, i, h, fresh) ==
    /\ Launch(e, i, h, fresh) /\ i < fresh
    /\ UNCHANGED <<pending, queue, inPaths, heard, told>>

\* A step in which e takes the result m: an OK was under way and now is not.
Hears(e, m) ==
    /\ UNCHANGED sent
    /\ \E left : TakeResult(e, m, left)
    /\ AllFinal /\ m.ok => /\ ~Gone(m.ctx, m.id)
                           /\ Single(m.ctx, m.id) => Gone(m.ctx, m.id)'

Quiet == UNCHANGED <<heard, told, group, outPaths, sent>>

\* The token of send call c and id i stays with them.
LEMMA TokenCoherent ==
    ASSUME NEW c, NEW i
    PROVE  Coherent(TokenMsgs(c, i), TokenPaths(c, i))
<1>1. ASSUME NEW p \in InPath, NEW ok \in BOOLEAN
      PROVE  Result(Reverted(p), p.ctx, p.src, ok, TRUE) \in TokenMsgs(c, i)
               <=> p \in TokenPaths(c, i)
  <2> DEFINE r == Result(Reverted(p), p.ctx, p.src, ok, TRUE)
  <2>1. r \in Msg
    BY InPathFields, ResultIsMsg
  <2>2. r.ctx = p.ctx /\ r.id = Reverted(p)
    BY DEF Result
  <2> HIDE DEF r
  <2> QED
    BY <2>1, <2>2 DEF TokenMsgs, TokenPaths, r
<1>2. ASSUME NEW m \in CmdMsg
      PROVE  Result(m.id, m.ctx, m.src, FALSE, TRUE) \in TokenMsgs(c, i)
               <=> m \in TokenMsgs(c, i)
  <2> DEFINE r == Result(m.id, m.ctx, m.src, FALSE, TRUE)
  <2>1. m.id \in Id /\ m.ctx \in Ctx /\ m.src \in Ext /\ m \in Msg
    BY DEF CmdMsg, Msg
  <2>2. r \in Msg
    BY <2>1, ResultIsMsg
  <2>3. r.ctx = m.ctx /\ r.id = m.id
    BY DEF Result
  <2> HIDE DEF r
  <2> QED
    BY <2>1, <2>2, <2>3 DEF TokenMsgs, r
<1>3. ASSUME NEW m \in CmdMsg, NEW p \in InPath, Reverted(p) = m.id, p.ctx = m.ctx
      PROVE  p \in TokenPaths(c, i) <=> m \in TokenMsgs(c, i)
  BY <1>3 DEF TokenMsgs, TokenPaths, Msg
<1>4. TokenMsgs(c, i) \subseteq Msg
  BY DEF TokenMsgs
<1> QED
  BY <1>1, <1>2, <1>3, <1>4 DEF Coherent

\* No last result becomes one that is not the last.
LEMMA PartialCoherent == Coherent(Partial, {})
<1>1. ASSUME NEW p \in InPath, NEW ok \in BOOLEAN
      PROVE  Result(Reverted(p), p.ctx, p.src, ok, TRUE) \notin Partial
  BY DEF Partial, Result
<1>2. ASSUME NEW m \in CmdMsg
      PROVE  Result(m.id, m.ctx, m.src, FALSE, TRUE) \notin Partial /\ m \notin Partial
  BY DEF Partial, Result, CmdMsg
<1> QED
  BY <1>1, <1>2 DEF Coherent, Partial

\* Only a result that is taken touches the paths and the histories.
LEMMA HandleInMsgKinds ==
    ASSUME NEW e \in Ext, NEW m \in Msg, NEW left, HandleInMsg(e, m, left)
    PROVE  \/ UNCHANGED <<heard, told, group, outPaths>>
           \/ m.kind = "result" /\ m \in ResultMsg /\ TakeResult(e, m, left)
  BY MsgFields DEF HandleInMsg, pathVars, histVars

\* Taking a result that was the first of a line.
LEMMA TakenHears ==
    ASSUME NEW e \in Ext, NEW m \in Msg, NEW left, HandleInMsg(e, m, left),
           UNCHANGED sent,
           \A T, P : Coherent(T, P) /\ AllFinal =>
                /\ m.kind = "result" /\ m \in T /\ Alone(Lines, inPaths, T, P)
                      => Nowhere(Lines', inPaths', T, P)
                /\ Nowhere(Lines, inPaths, T, P) => m \notin T
    PROVE  Quiet \/ (m \in ResultMsg /\ Hears(e, m))
<1>1. CASE UNCHANGED <<heard, told, group, outPaths>>
  BY <1>1 DEF Quiet
<1>2. CASE m.kind = "result" /\ m \in ResultMsg /\ TakeResult(e, m, left)
  <2> DEFINE T == TokenMsgs(m.ctx, m.id)
             P == TokenPaths(m.ctx, m.id)
  <2>1. m \in T
    BY DEF TokenMsgs
  <2>2. Coherent(T, P)
    BY TokenCoherent
  <2> HIDE DEF T, P
  <2>3. AllFinal => /\ Alone(Lines, inPaths, T, P) => Nowhere(Lines', inPaths', T, P)
                    /\ ~Nowhere(Lines, inPaths, T, P)
    BY <1>2, <2>1, <2>2
  <2>4. AllFinal => /\ ~Gone(m.ctx, m.id)
                    /\ Single(m.ctx, m.id) => Gone(m.ctx, m.id)'
    BY <2>3 DEF Gone, Single, T, P
  <2> QED
    BY <1>2, <2>4, Zenon DEF Hears
<1> QED
  BY <1>1, <1>2, HandleInMsgKinds

\* A command of its own is a send call.
LEMMA SendSends ==
    ASSUME TypeOK, NEW e \in Ext, NEW h \in HandlerKinds, Send(e, h)
    PROVE  \E i \in Id, fresh \in 1 .. MaxId + 1 : Sends(e, i, h, fresh)
<1>1. nextId \in Id /\ nextId + 1 \in 1 .. MaxId + 1 /\ nextId < nextId + 1
  BY BoundAssumption DEF Send, Id
<1>2. Sends(e, nextId, h, nextId + 1)
  BY <1>1 DEF Send, Sends, histVars
<1> QED
  BY <1>1, <1>2

\* A command that is passed on is a send call.
LEMMA ForwardSends ==
    ASSUME TypeOK, IdsIssued, NEW e \in Ext, NEW h \in HandlerKinds, NEW i \in held[e],
           Forward(e, i, h)
    PROVE  \E j \in Id, fresh \in 1 .. MaxId + 1 : Sends(e, j, h, fresh)
<1>1. i \in Id /\ nextId \in 1 .. MaxId + 1
  BY DEF TypeOK
<1>2. i < nextId
  <2>1. i \in 1 .. nextId - 1
    BY DEF IdsIssued
  <2> QED
    BY <1>1, <2>1
<1>3. Sends(e, i, h, nextId)
  BY <1>2 DEF Forward, Sends, histVars
<1> QED
  BY <1>1, <1>3

\* A step sends a command, takes a result or leaves the record as it is.
LEMMA StepKinds ==
    ASSUME TypeOK, IdsIssued, MsgsHome, [Next]_vars
    PROVE  \/ Quiet
           \/ \E e \in Ext, h \in HandlerKinds, i \in Id, fresh \in 1 .. MaxId + 1 :
                 Sends(e, i, h, fresh)
           \/ \E e \in Ext, m \in ResultMsg : Hears(e, m)
<1> DEFINE Goal ==
           \/ Quiet
           \/ \E e \in Ext, h \in HandlerKinds, i \in Id, fresh \in 1 .. MaxId + 1 :
                 Sends(e, i, h, fresh)
           \/ \E e \in Ext, m \in ResultMsg : Hears(e, m)
<1>1. ASSUME NEW t \in Thread, HandleDirect(t)
      PROVE  Goal
  <2>1. PICK m \in Msg : m = Head(direct[t])
    BY <1>1, MsgLists DEF HandleDirect, TypeOK
  <2>2. HandleInMsg(m.dst, m, Tail(direct[t])) /\ UNCHANGED sent
    BY <1>1, <2>1 DEF HandleDirect
  <2>3. m.dst \in Ext
    BY <2>1, MsgFields
  <2>4. ASSUME NEW T, NEW P, Coherent(T, P), AllFinal
        PROVE  /\ m.kind = "result" /\ m \in T /\ Alone(Lines, inPaths, T, P)
                      => Nowhere(Lines', inPaths', T, P)
               /\ Nowhere(Lines, inPaths, T, P) => m \notin T
    BY <1>1, <2>1, <2>4, HandleDirectCarries
  <2>5. Quiet \/ (m \in ResultMsg /\ Hears(m.dst, m))
    BY <2>2, <2>3, <2>4, TakenHears
  <2> QED
    BY <2>3, <2>5
<1>2. ASSUME NEW t \in Thread, Receive(t)
      PROVE  Goal
  <2>1. PICK m \in Msg \cup {CloseTask} : m = Head(queue[t])
    BY <1>2 DEF Receive, TypeOK
  <2>2. CASE m.kind # "close" /\ HandleInMsg(m.dst, m, <<>>)
    <3>1. m \in Msg
      BY <2>2 DEF CloseTask
    <3>2. m.dst \in Ext /\ UNCHANGED sent
      BY <1>2, <3>1, MsgFields DEF Receive
    <3>3. ASSUME NEW T, NEW P, Coherent(T, P), AllFinal
          PROVE  /\ m.kind = "result" /\ m \in T /\ Alone(Lines, inPaths, T, P)
                      => Nowhere(Lines', inPaths', T, P)
                 /\ Nowhere(Lines, inPaths, T, P) => m \notin T
      BY <1>2, <2>1, <3>3, ReceiveCarries
    <3>4. Quiet \/ (m \in ResultMsg /\ Hears(m.dst, m))
      BY <2>2, <3>1, <3>2, <3>3, TakenHears
    <3> QED
      BY <3>2, <3>4
  <2>3. CASE UNCHANGED <<pathVars, histVars>>
    BY <1>2, <2>3 DEF Receive, Quiet, pathVars, histVars
  <2> QED
    BY <1>2, <2>1, <2>2, <2>3 DEF Receive
<1>3. ASSUME NEW e \in Ext, NEW h \in Handlers, Send(e, h)
      PROVE  Goal
  BY <1>3, SendSends, ActorsAssumption
<1>4. ASSUME NEW e \in Ext, NEW i \in held[e], NEW h \in Handlers, Forward(e, i, h)
      PROVE  Goal
  BY <1>4, ForwardSends, ActorsAssumption
<1>5. ASSUME NEW e \in Ext, NEW p \in OutPath, TakeResult(e, MadeUpResult(e, p), <<>>),
             UNCHANGED sent
      PROVE  Goal
  <2>1. PICK m \in ResultMsg : m = MadeUpResult(e, p)
    BY OutPathFields, ResultIsMsg DEF MadeUpResult
  <2>2. m.ok = FALSE
    BY <2>1 DEF MadeUpResult, Result
  <2> QED
    BY <1>5, <2>1, <2>2 DEF Hears
<1>6. ASSUME NEW e \in Ext, NEW p \in outPaths[e], OutPathTimeout(e, p)
      PROVE  Goal
  BY <1>5, <1>6 DEF OutPathTimeout, TypeOK
<1>7. ASSUME NEW e \in Ext, FlushOne(e)
      PROVE  Goal
  <2>1. PICK p \in OutPath : TakeResult(e, MadeUpResult(e, p), <<>>)
    BY <1>7 DEF FlushOne, Oldest, TypeOK
  <2> QED
    BY <1>5, <1>7, <2>1 DEF FlushOne
<1>8. CASE \/ EngineDispatch \/ EngineClose \/ CloseThreads
           \/ \E t \in Thread : DispatchLeft(t)
           \/ UNCHANGED vars
  BY <1>8 DEF EngineDispatch, EngineClose, CloseThreads, DispatchLeft, vars, pathVars,
              histVars, Quiet
<1>9. ASSUME NEW e \in Ext,
             \/ \E i \in held[e] : \/ \E ok \in BOOLEAN : ReturnResult(e, i, ok)
                                   \/ ReturnPartial(e, i)
             \/ ReceivePending(e)
             \/ \E p \in inPaths[e] : InPathTimeout(e, p)
      PROVE  Goal
  BY <1>9 DEF ReturnResult, ReturnPartial, ReceivePending, InPathTimeout, pathVars,
              histVars, Quiet
<1>10. ASSUME NEW e \in Ext, \/ StartDone(e) \/ StopDone(e) \/ TimersClosed(e)
                             \/ Deinit(e) \/ DeinitDone(e)
       PROVE  Goal
  BY <1>10 DEF StartDone, StopDone, TimersClosed, Deinit, DeinitDone, pathVars, histVars,
               Quiet
<1> QED
  BY <1>1, <1>2, <1>3, <1>4, <1>6, <1>7, <1>8, <1>9, <1>10 DEF Next

\* A result leaves a hearing in the history.
LEMMA HearingType == \A m \in ResultMsg : HearingOf(m) \in Hearing
  BY DEF HearingOf, Hearing, ResultMsg

\* A result that is taken is heard on the first path with its id, or dropped.
LEMMA TakeResultHeard ==
    ASSUME TypeOK, PathsOfSender, HeardInv, NEW e \in Ext, NEW m \in ResultMsg, Hears(e, m)
    PROVE  \/ Quiet
           \/ \E p \in outPaths[e] :
                /\ p \in OutPath /\ p.id = m.id /\ p.ctx \in Ctx /\ p.ctx <= Len(sent)
                /\ heard' = [heard EXCEPT ![p.ctx] = Append(@, HearingOf(m))]
<1>1. PICK left : TakeResult(e, m, left) /\ UNCHANGED sent
  BY DEF Hears
<1>2. CASE UNCHANGED <<pathVars, live, histVars>>
  BY <1>1, <1>2 DEF Quiet, pathVars, histVars
<1>3. ASSUME NEW p \in FirstOutPath(e, m.id),
             heard' = [heard EXCEPT ![p.ctx] = Append(@,
                        [id |-> m.id, ok |-> m.ok, final |-> m.final,
                         of |-> m.ctx])]
      PROVE  /\ p \in outPaths[e] /\ p \in OutPath /\ p.id = m.id /\ p.ctx \in Ctx
             /\ p.ctx <= Len(sent)
             /\ heard' = [heard EXCEPT ![p.ctx] = Append(@, HearingOf(m))]
  <2>1. p \in outPaths[e] /\ p.id = m.id
    BY DEF FirstOutPath, Oldest
  <2>2. p \in OutPath
    BY <2>1 DEF TypeOK
  <2> QED
    BY <1>3, <2>1, <2>2, OutPathFields DEF PathsOfSender, HearingOf
<1> QED
  BY <1>1, <1>2, <1>3 DEF TakeResult

\* A hearing is put at the end of the history of one send call.
LEMMA HeardOnce ==
    ASSUME HeardInv, NEW c \in Ctx, NEW x \in Hearing,
           heard' = [heard EXCEPT ![c] = Append(@, x)]
    PROVE  /\ heard[c] \in Seq(Hearing)
           /\ heard'[c] = Append(heard[c], x)
           /\ heard'[c] \in Seq(Hearing)
           /\ \A d \in Ctx : d # c => heard'[d] = heard[d]
           /\ heard' \in [Ctx -> Seq(Hearing)]
           /\ \A k \in DOMAIN heard[c] : k \in DOMAIN heard'[c] /\ heard'[c][k] = heard[c][k]
           /\ \A k \in DOMAIN heard'[c] : \/ k \in DOMAIN heard[c]
                                          \/ k = Len(heard[c]) + 1 /\ heard'[c][k] = x
<1>1. heard[c] \in Seq(Hearing) /\ heard \in [Ctx -> Seq(Hearing)]
  BY DEF HeardInv
<1>2. /\ heard'[c] = Append(heard[c], x)
      /\ \A d \in Ctx : d # c => heard'[d] = heard[d]
  BY <1>1
<1>3. Append(heard[c], x) \in Seq(Hearing)
  BY <1>1
<1>4. heard' \in [Ctx -> Seq(Hearing)]
  BY <1>1, <1>3
<1> DEFINE s == heard[c]
<1>5. /\ Len(Append(s, x)) = Len(s) + 1 /\ Len(s) \in Nat
      /\ DOMAIN s = 1 .. Len(s) /\ DOMAIN Append(s, x) = 1 .. Len(s) + 1
      /\ \A k \in 1 .. Len(s) : Append(s, x)[k] = s[k]
      /\ Append(s, x)[Len(s) + 1] = x
  BY <1>1
<1> QED
  BY <1>1, <1>2, <1>3, <1>4, <1>5

\* A send call leaves the hearings alone.
LEMMA SendsHeard ==
    ASSUME TypeOK, HeardInv, NEW e, NEW i, NEW h, NEW fresh, Sends(e, i, h, fresh)
    PROVE  HeardInv' /\ Len(sent') = Len(sent) + 1 /\ Len(sent) \in Nat
<1>1. sent' = Append(sent, [by |-> e, handler |-> h]) /\ heard' = heard
  BY DEF Sends, Launch
<1>2. sent \in Seq([by : Ext, handler : HandlerKinds])
  BY DEF TypeOK
<1>3. Len(sent') = Len(sent) + 1 /\ Len(sent) \in Nat
  BY <1>1, <1>2
<1>4. \A c \in Ctx : c > Len(sent') => c > Len(sent)
  BY <1>3 DEF Ctx
<1> QED
  BY <1>1, <1>3, <1>4 DEF HeardInv

\* Every step keeps the type of the hearings, and later send calls heard nothing.
LEMMA HeardStep ==
    ASSUME TypeOK, IdsIssued, PathsOfSender, MsgsHome, HeardInv, [Next]_vars
    PROVE  HeardInv'
<1>1. CASE Quiet
  BY <1>1 DEF Quiet, HeardInv
<1>2. ASSUME NEW e \in Ext, NEW h \in HandlerKinds, NEW i \in Id,
             NEW fresh \in 1 .. MaxId + 1, Sends(e, i, h, fresh)
      PROVE  HeardInv'
  BY <1>2, SendsHeard
<1>3. ASSUME NEW e \in Ext, NEW m \in ResultMsg, Hears(e, m)
      PROVE  HeardInv'
  <2>1. ASSUME NEW p \in outPaths[e], p.ctx \in Ctx, p.ctx <= Len(sent),
               heard' = [heard EXCEPT ![p.ctx] = Append(@, HearingOf(m))]
        PROVE  HeardInv'
    <3>1. heard' \in [Ctx -> Seq(Hearing)] /\ \A d \in Ctx : d # p.ctx => heard'[d] = heard[d]
      BY <2>1, HearingType, HeardOnce
    <3>2. sent' = sent /\ Len(sent) \in Nat
      BY <1>3 DEF Hears, TypeOK
    <3>3. ASSUME NEW c \in Ctx, c > Len(sent) PROVE heard'[c] = <<>>
      <4>1. c # p.ctx
        BY <2>1, <3>2, <3>3 DEF Ctx
      <4> QED
        BY <3>1, <3>3, <4>1 DEF HeardInv
    <3> QED
      BY <3>1, <3>2, <3>3 DEF HeardInv
  <2> QED
    BY <1>1, <1>3, <2>1, TakeResultHeard
<1> QED
  BY <1>1, <1>2, <1>3, StepKinds

-----------------------------------------------------------------------------
\* An OK of the command i of send call c took a path of that call.
HeardOk(c, i) == \E k \in DOMAIN heard[c] :
                    heard[c][k].ok /\ heard[c][k].of = c /\ heard[c][k].id = i

\* Each command of each send call, or its result, is under way at most once, and
\* no more when an OK of it was heard.
Tokens ==
    Streamers = {} =>
        /\ AllFinal
        /\ \A c \in Ctx, i \in Id :
             Single(c, i) /\ (c > Len(sent) \/ HeardOk(c, i) => Gone(c, i))

\* A send call that launches no message of T.
LEMMA LaunchCarries ==
    ASSUME TypeOK, NEW e \in Ext, NEW i \in Id, NEW h \in HandlerKinds,
           NEW fresh \in 1 .. MaxId + 1, Sends(e, i, h, fresh), NEW T, NEW P,
           ~Has(Launched(e, i, fresh), T)
    PROVE  Carries(Lines, inPaths, Lines', inPaths', T, P)
<1>1. /\ Launch(e, i, h, fresh) /\ i < fresh /\ UNCHANGED <<pending, queue>>
      /\ inPaths' = inPaths
  BY DEF Sends
<1>2. Once(Launched(e, i, fresh), T)
  BY DEF Has, Once
<1>3. /\ Fits(Lines, inPaths, T, P, Has(Launched(e, i, fresh), T)) => Alone(Lines', inPaths, T, P)
      /\ Nowhere(Lines, inPaths, T, P) /\ ~Has(Launched(e, i, fresh), T)
           => Nowhere(Lines', inPaths, T, P)
  BY <1>1, <1>2, LaunchLines
<1> QED
  BY <1>1, <1>3 DEF Carries, Fits

\* A send call starts one token for each id it uses.
LEMMA LaunchSingle ==
    ASSUME TypeOK, NEW e \in Ext, NEW i \in Id, NEW h \in HandlerKinds,
           NEW fresh \in 1 .. MaxId + 1, Sends(e, i, h, fresh), NEW j \in Id,
           NEW c, c = Len(sent) + 1, Gone(c, j)
    PROVE  Single(c, j)'
<1> DEFINE T == TokenMsgs(c, j)
           P == TokenPaths(c, j)
           s == Launched(e, i, fresh)
<1>1. /\ Launch(e, i, h, fresh) /\ i < fresh /\ UNCHANGED <<pending, queue>>
      /\ inPaths' = inPaths
  BY DEF Sends
<1>2. /\ DOMAIN s = DOMAIN Route[e]
      /\ \A k, l \in DOMAIN Route[e] : s[k].id = s[l].id => k = l
  BY <1>1, LaunchedMsgs
<1>3. \A m \in T : m.id = j
  BY DEF TokenMsgs
<1>4. Nowhere(Lines, inPaths, T, P)
  BY DEF Gone
<1> HIDE DEF T, P, s
<1>5. Once(s, T)
  BY <1>2, <1>3 DEF Once
<1>6. Fits(Lines, inPaths, T, P, Has(s, T)) => Alone(Lines', inPaths, T, P)
  BY <1>1, <1>5, LaunchLines DEF s
<1>7. Alone(Lines, inPaths, T, P)
  BY <1>4 DEF Nowhere, Met, MetIn, Alone, Sole, SoleIn, Has, Once
<1>8. Alone(Lines', inPaths', T, P)
  BY <1>1, <1>4, <1>6, <1>7 DEF Fits
<1> QED
  BY <1>8 DEF Single, T, P

\* A send call leaves the tokens of the others alone.
LEMMA LaunchForeign ==
    ASSUME TypeOK, NEW e \in Ext, NEW i \in Id, NEW h \in HandlerKinds,
           NEW fresh \in 1 .. MaxId + 1, Sends(e, i, h, fresh), NEW j,
           NEW c, c # Len(sent) + 1
    PROVE  /\ Single(c, j) => Single(c, j)'
           /\ Gone(c, j) => Gone(c, j)'
<1> DEFINE T == TokenMsgs(c, j)
           P == TokenPaths(c, j)
           s == Launched(e, i, fresh)
<1>1. \A k \in DOMAIN s : s[k].ctx # c
  <2>1. Launch(e, i, h, fresh) /\ i < fresh
    BY DEF Sends
  <2> QED
    BY <2>1, LaunchedMsgs
<1>2. \A m \in T : m.ctx = c
  BY DEF TokenMsgs
<1> HIDE DEF T, P
<1>3. ~Has(s, T)
  BY <1>1, <1>2 DEF Has
<1>4. Carries(Lines, inPaths, Lines', inPaths', T, P)
  BY <1>3, LaunchCarries
<1> QED
  BY <1>4 DEF Carries, Single, Gone, T, P

\* A send call launches no result.
LEMMA LaunchFinal ==
    ASSUME TypeOK, NEW e \in Ext, NEW i \in Id, NEW h \in HandlerKinds,
           NEW fresh \in 1 .. MaxId + 1, Sends(e, i, h, fresh), AllFinal
    PROVE  AllFinal'
<1> DEFINE s == Launched(e, i, fresh)
<1>1. \A k \in DOMAIN s : s[k].kind = "cmd"
  <2>1. Launch(e, i, h, fresh) /\ i < fresh
    BY DEF Sends
  <2> QED
    BY <2>1, LaunchedMsgs
<1>2. ~Has(s, Partial)
  BY <1>1 DEF Has, Partial
<1>3. Carries(Lines, inPaths, Lines', inPaths', Partial, {})
  BY <1>2, LaunchCarries
<1>4. Nowhere(Lines, inPaths, Partial, {})
  BY FinalNowhere
<1>5. Nowhere(Lines', inPaths', Partial, {})
  BY <1>3, <1>4 DEF Carries
<1> QED
  BY <1>5 DEF AllFinal, Nowhere

\* Initially there are no tokens.
LEMMA TokensInit == Init => Tokens /\ HeardInv
<1> SUFFICES ASSUME Init PROVE Tokens /\ HeardInv
  OBVIOUS
<1>1. \A x \in Names : Lines[x] = <<>>
  <2>1. ASSUME NEW x \in Names
        PROVE  Lines[x] = <<>>
    <3>1. CASE \E e \in Ext : x = <<"pending", e>>
      BY <3>1, PendingLine DEF Init, Lines
    <3>2. CASE \E t \in Thread : x = <<"queue", t>>
      BY <3>2, QueueLine DEF Init, Lines
    <3>3. CASE \E t \in Thread : x = <<"direct", t>>
      BY <3>3, DirectLine DEF Init, Lines
    <3>4. CASE x = <<"engine", None>>
      BY <3>4, EngineLine DEF Init, Lines
    <3> QED
      BY <3>1, <3>2, <3>3, <3>4, NameCases
  <2> QED
    BY <2>1
<1>2. \A x \in Ext : inPaths[x] = {}
  BY DEF Init
<1>3. ASSUME NEW T, NEW P
      PROVE  Alone(Lines, inPaths, T, P) /\ Nowhere(Lines, inPaths, T, P)
  <2>1. \A x \in Names : ~Has(Lines[x], T) /\ Once(Lines[x], T)
    BY <1>1, HasEmpty
  <2> QED
    BY <1>2, <2>1 DEF Alone, Nowhere, Met, MetIn, Sole, SoleIn
<1>4. HeardInv /\ \A c \in Ctx : heard[c] = <<>>
  BY DEF Init, HeardInv
<1>5. AllFinal
  BY <1>3, FinalNowhere
<1> QED
  BY <1>3, <1>4, <1>5 DEF Tokens, Single, Gone

\* Every step keeps the tokens.
LEMMA TokensStep ==
    ASSUME TypeOK, IdsIssued, PathsOfSender, MsgsHome, HeardInv, Tokens, [Next]_vars
    PROVE  Tokens'
<1> DEFINE Good(c, i) == Single(c, i) /\ (c > Len(sent) \/ HeardOk(c, i) => Gone(c, i))
<1> SUFFICES ASSUME Streamers = {}
             PROVE  AllFinal' /\ \A c \in Ctx, i \in Id : Good(c, i)'
  BY DEF Tokens
<1>0. AllFinal /\ \A c \in Ctx, i \in Id : Good(c, i)
  BY DEF Tokens
<1>1. ASSUME NEW e \in Ext, NEW h \in HandlerKinds, NEW i \in Id,
             NEW fresh \in 1 .. MaxId + 1, Sends(e, i, h, fresh)
      PROVE  AllFinal' /\ \A c \in Ctx, j \in Id : Good(c, j)'
  <2>1. AllFinal'
    BY <1>0, <1>1, LaunchFinal
  <2>2. Len(sent') = Len(sent) + 1 /\ Len(sent) \in Nat /\ heard' = heard
    BY <1>1, SendsHeard DEF Sends
  <2>3. ASSUME NEW c \in Ctx, NEW j \in Id
        PROVE  Good(c, j)'
    <3>1. HeardOk(c, j)' <=> HeardOk(c, j)
      BY <2>2 DEF HeardOk
    <3>2. CASE c = Len(sent) + 1
      <4>1. c > Len(sent) /\ ~(c > Len(sent'))
        BY <2>2, <3>2
      <4>2. Single(c, j)'
        BY <1>0, <1>1, <3>2, <4>1, LaunchSingle
      <4>3. ~HeardOk(c, j)
        BY <4>1 DEF HeardInv, HeardOk
      <4> QED
        BY <3>1, <4>1, <4>2, <4>3
    <3>3. CASE c # Len(sent) + 1
      <4>1. c > Len(sent') => c > Len(sent)
        BY <2>2 DEF Ctx
      <4>2. /\ Single(c, j) => Single(c, j)'
            /\ Gone(c, j) => Gone(c, j)'
        BY <1>1, <3>3, LaunchForeign
      <4> QED
        BY <1>0, <3>1, <4>1, <4>2
    <3> QED
      BY <3>2, <3>3
  <2> QED
    BY <2>1, <2>3
<1>2. ASSUME ~ \E e \in Ext, h \in HandlerKinds : Send(e, h),
             ~ \E e \in Ext, h \in HandlerKinds : \E i \in held[e] : Forward(e, i, h)
      PROVE  \A T, P : Coherent(T, P) => Carries(Lines, inPaths, Lines', inPaths', T, P)
  BY <1>0, <1>2, StepCarries
<1>3. ASSUME \A T, P : Coherent(T, P) => Carries(Lines, inPaths, Lines', inPaths', T, P),
             UNCHANGED sent
      PROVE  AllFinal' /\ \A c \in Ctx, j \in Id : /\ Single(c, j)'
                                                   /\ Gone(c, j) => Gone(c, j)'
  <2>1. AllFinal'
    <3>1. Carries(Lines, inPaths, Lines', inPaths', Partial, {})
      BY <1>3, PartialCoherent
    <3>2. Nowhere(Lines, inPaths, Partial, {})
      BY <1>0, FinalNowhere
    <3>3. Nowhere(Lines', inPaths', Partial, {})
      BY <3>1, <3>2 DEF Carries
    <3> QED
      BY <3>3 DEF AllFinal, Nowhere
  <2>2. ASSUME NEW c \in Ctx, NEW j \in Id
        PROVE  Single(c, j)' /\ (Gone(c, j) => Gone(c, j)')
    <3> DEFINE T == TokenMsgs(c, j)
               P == TokenPaths(c, j)
    <3>1. Coherent(T, P)
      BY TokenCoherent
    <3>2. Carries(Lines, inPaths, Lines', inPaths', T, P)
      BY <1>3, <3>1
    <3>3. Alone(Lines, inPaths, T, P)
      BY <1>0 DEF Single
    <3> QED
      BY <3>2, <3>3 DEF Carries, Single, Gone
  <2> QED
    BY <2>1, <2>2
<1>4. CASE Quiet
  <2>1. CASE \E e \in Ext, h \in HandlerKinds : Send(e, h)
    BY <1>1, <2>1, SendSends
  <2>2. CASE \E e \in Ext, h \in HandlerKinds : \E i \in held[e] : Forward(e, i, h)
    BY <1>1, <2>2, ForwardSends
  <2>3. CASE \A T, P : Coherent(T, P) => Carries(Lines, inPaths, Lines', inPaths', T, P)
    <3>1. heard' = heard /\ sent' = sent
      BY <1>4 DEF Quiet
    <3>2. \A c, j : HeardOk(c, j)' <=> HeardOk(c, j)
      BY <3>1 DEF HeardOk
    <3> QED
      BY <1>0, <1>3, <2>3, <3>1, <3>2
  <2> QED
    BY <1>2, <2>1, <2>2, <2>3
<1>5. ASSUME NEW e \in Ext, NEW m \in ResultMsg, Hears(e, m)
      PROVE  AllFinal' /\ \A c \in Ctx, j \in Id : Good(c, j)'
  <2>1. CASE \E f \in Ext, h \in HandlerKinds : Send(f, h)
    BY <1>1, <2>1, SendSends
  <2>2. CASE \E f \in Ext, h \in HandlerKinds : \E i \in held[f] : Forward(f, i, h)
    BY <1>1, <2>2, ForwardSends
  <2>3. CASE \A T, P : Coherent(T, P) => Carries(Lines, inPaths, Lines', inPaths', T, P)
    <3>1. sent' = sent
      BY <1>5 DEF Hears
    <3>2. AllFinal' /\ \A c \in Ctx, j \in Id : /\ Single(c, j)'
                                                /\ Gone(c, j) => Gone(c, j)'
      BY <1>3, <2>3, <3>1
    <3>3. ASSUME NEW c \in Ctx, NEW j \in Id, HeardOk(c, j)', ~HeardOk(c, j)
          PROVE  Gone(c, j)'
      <4>1. heard' # heard
        BY <3>3 DEF HeardOk
      <4>2. PICK p \in outPaths[e] : /\ p.ctx \in Ctx
                  /\ heard' = [heard EXCEPT ![p.ctx] = Append(@, HearingOf(m))]
        BY <1>5, <4>1, TakeResultHeard DEF Quiet
      <4>3. PICK k \in DOMAIN heard'[c] :
               heard'[c][k].ok /\ heard'[c][k].of = c /\ heard'[c][k].id = j
        BY <3>3 DEF HeardOk
      <4>4. heard'[c][k] = HearingOf(m)
        <5>1. c = p.ctx
          BY <3>3, <4>2, HearingType, HeardOnce DEF HeardOk
        <5>2. k \notin DOMAIN heard[c] \/ heard'[c][k] # heard[c][k]
          BY <3>3, <4>3 DEF HeardOk
        <5> QED
          BY <4>2, <4>3, <5>1, <5>2, HearingType, HeardOnce
      <4>5. m.ok /\ m.ctx = c /\ m.id = j
        BY <4>3, <4>4 DEF HearingOf
      <4>6. Single(m.ctx, m.id) => Gone(m.ctx, m.id)'
        BY <1>0, <1>5, <4>5 DEF Hears
      <4> QED
        BY <1>0, <4>5, <4>6
    <3> QED
      BY <1>0, <3>1, <3>2, <3>3
  <2> QED
    BY <1>2, <2>1, <2>2, <2>3
<1> QED
  BY <1>1, <1>4, <1>5, StepKinds

-----------------------------------------------------------------------------
\* What there is to tell.

Dests(e) == Len(Route[e])
Each(e) == Policy[e] = "each_ok_and_error"

\* The least number of a set of numbers.
LEMMA MinOf ==
    ASSUME NEW T, T \subseteq Nat, T # {}
    PROVE  Min(T) \in T /\ \A y \in T : Min(T) <= y
<1>1. \E x \in T : \A y \in T : x <= y
  BY LeastNat
<1> QED
  BY <1>1 DEF Min

\* A sequence with one more element.
LEMMA AppendHearing ==
    ASSUME NEW S, NEW h \in Seq(S), NEW x \in S
    PROVE  /\ Append(h, x) \in Seq(S)
           /\ Len(h) \in Nat /\ DOMAIN h = 1 .. Len(h)
           /\ Len(Append(h, x)) = Len(h) + 1 /\ DOMAIN Append(h, x) = 1 .. Len(h) + 1
           /\ \A k \in 1 .. Len(h) : Append(h, x)[k] = h[k]
           /\ Append(h, x)[Len(h) + 1] = x
  OBVIOUS

\* The destinations of a send call are numbered from one.
LEMMA RouteType == \A e \in Ext : Dests(e) \in Nat /\ DOMAIN Route[e] = 1 .. Dests(e)
  BY GraphAssumption DEF Dests

\* Nothing is completed in what was told so far.
Undone(s) == s \in Seq(Telling) /\ \A k \in DOMAIN s : ~s[k].completed

\* The fields of the hearings.
LEMMA HearingFields ==
    ASSUME NEW h \in Seq(Hearing)
    PROVE  \A k \in DOMAIN h : /\ h[k] \in Hearing /\ h[k].id \in Id
                               /\ h[k].ok \in BOOLEAN /\ h[k].final \in BOOLEAN
<1>1. \A k \in DOMAIN h : h[k] \in Hearing
  OBVIOUS
<1> QED
  BY <1>1 DEF Hearing

\* A sequence with one more at its end, from its elements.
LEMMA OneMore ==
    ASSUME NEW S, NEW s \in Seq(S), NEW u \in Seq(S), NEW a \in S,
           Len(u) = Len(s) + 1, \A k \in 1 .. Len(s) : u[k] = s[k], u[Len(s) + 1] = a
    PROVE  u = Append(s, a)
  OBVIOUS

\* With one destination there is one more thing to tell.
LEMMA ExpectedSingle ==
    ASSUME NEW e \in Ext, Dests(e) = 1, NEW h \in Seq(Hearing), NEW x \in Hearing,
           \A k \in DOMAIN h : ~h[k].final
    PROVE  /\ Undone(Expected(e, h))
           /\ Expected(e, Append(h, x)) =
                Append(Expected(e, h), [id |-> x.id, ok |-> x.ok, completed |-> x.final])
<1> DEFINE tell(y) == [id |-> y.id, ok |-> y.ok, completed |-> y.final]
           s == [k \in DOMAIN h |-> tell(h[k])]
           h2 == Append(h, x)
           u == [k \in DOMAIN h2 |-> tell(h2[k])]
<1>1. Expected(e, h) = s /\ Expected(e, h2) = u
  BY DEF Expected, Dests
<1>2. /\ h2 \in Seq(Hearing) /\ Len(h) \in Nat /\ DOMAIN h = 1 .. Len(h)
      /\ Len(h2) = Len(h) + 1 /\ DOMAIN h2 = 1 .. Len(h) + 1
      /\ \A k \in 1 .. Len(h) : h2[k] = h[k]
      /\ h2[Len(h) + 1] = x
  BY AppendHearing
<1>3. \A y \in Hearing : tell(y) \in Telling
  BY DEF Hearing, Telling
<1>4. \A k \in DOMAIN h : h[k] \in Hearing
  BY HearingFields
<1>5. \A k \in DOMAIN h2 : h2[k] \in Hearing
  BY <1>2, HearingFields
<1> HIDE DEF h2
<1>6. s \in Seq(Telling) /\ Len(s) = Len(h) /\ \A k \in 1 .. Len(h) : s[k] = tell(h[k])
  BY <1>2, <1>3, <1>4
<1>7. /\ u \in Seq(Telling) /\ Len(u) = Len(h) + 1
      /\ \A k \in 1 .. Len(h) + 1 : u[k] = tell(h2[k])
  BY <1>2, <1>3, <1>5
<1>8. \A k \in 1 .. Len(s) : ~s[k].completed
  BY <1>2, <1>6
<1> HIDE DEF s, u
<1>9. u[Len(s) + 1] = tell(x)
  BY <1>2, <1>6, <1>7
<1>10. \A k \in 1 .. Len(s) : u[k] = s[k]
  BY <1>2, <1>6, <1>7
<1>11. u = Append(s, tell(x))
  BY <1>2, <1>3, <1>6, <1>7, <1>9, <1>10, OneMore
<1> QED
  BY <1>1, <1>6, <1>8, <1>11 DEF Undone, h2

\* With the each-policy there is one more thing to tell.
LEMMA ExpectedEach ==
    ASSUME NEW e \in Ext, Dests(e) > 1, Each(e), NEW h \in Seq(Hearing), NEW x \in Hearing,
           Len(h) < Dests(e)
    PROVE  /\ Undone(Expected(e, h))
           /\ Expected(e, Append(h, x)) =
                Append(Expected(e, h), [id |-> x.id, ok |-> x.ok,
                                        completed |-> Len(h) + 1 = Dests(e)])
<1> DEFINE n == Dests(e)
           tell(y, k) == [id |-> y.id, ok |-> y.ok, completed |-> k = n]
           s == [k \in DOMAIN h |-> tell(h[k], k)]
           h2 == Append(h, x)
           u == [k \in DOMAIN h2 |-> tell(h2[k], k)]
<1>0. n \in Nat /\ n # 1
  BY RouteType
<1>1. Expected(e, h) = s /\ Expected(e, h2) = u
  BY <1>0 DEF Expected, Dests, Each
<1>2. /\ h2 \in Seq(Hearing) /\ Len(h) \in Nat /\ DOMAIN h = 1 .. Len(h)
      /\ Len(h2) = Len(h) + 1 /\ DOMAIN h2 = 1 .. Len(h) + 1
      /\ \A k \in 1 .. Len(h) : h2[k] = h[k]
      /\ h2[Len(h) + 1] = x
  BY AppendHearing
<1>3. \A y \in Hearing, k \in Nat : tell(y, k) \in Telling
  BY DEF Hearing, Telling
<1>4. \A k \in DOMAIN h : h[k] \in Hearing
  BY HearingFields
<1>5. \A k \in DOMAIN h2 : h2[k] \in Hearing
  BY <1>2, HearingFields
<1> HIDE DEF h2
<1>6. s \in Seq(Telling) /\ Len(s) = Len(h) /\ \A k \in 1 .. Len(h) : s[k] = tell(h[k], k)
  BY <1>2, <1>3, <1>4
<1>7. /\ u \in Seq(Telling) /\ Len(u) = Len(h) + 1
      /\ \A k \in 1 .. Len(h) + 1 : u[k] = tell(h2[k], k)
  BY <1>2, <1>3, <1>5
<1>8. \A k \in 1 .. Len(s) : ~s[k].completed
  <2>1. \A k \in 1 .. Len(h) : k # n
    BY <1>0, <1>2
  <2>2. \A y, k : k # n => ~tell(y, k).completed
    OBVIOUS
  <2> HIDE DEF tell, s, n
  <2> QED
    BY <1>6, <2>1, <2>2
<1> HIDE DEF s, u, n
<1>9. u[Len(s) + 1] = tell(x, Len(h) + 1)
  BY <1>2, <1>6, <1>7
<1>10. \A k \in 1 .. Len(s) : u[k] = s[k]
  BY <1>2, <1>6, <1>7
<1>11. u = Append(s, tell(x, Len(h) + 1))
  <2>1. tell(x, Len(h) + 1) \in Telling
    BY <1>2, <1>3
  <2>2. Len(u) = Len(s) + 1
    BY <1>6, <1>7
  <2> HIDE DEF tell
  <2> QED
    BY <1>6, <1>7, <1>9, <1>10, <2>1, <2>2, OneMore
<1>12. Undone(s)
  <2>1. DOMAIN s = 1 .. Len(s)
    BY <1>6
  <2> QED
    BY <1>6, <1>8, <2>1 DEF Undone
<1> QED
  BY <1>1, <1>11, <1>12 DEF h2, n

\* Nothing is told before the group is decided.
LEMMA ExpectedNone ==
    ASSUME NEW e \in Ext, Dests(e) > 1, ~Each(e), NEW h \in Seq(Hearing),
           Len(h) < Dests(e), \A k \in DOMAIN h : h[k].ok
    PROVE  Expected(e, h) = <<>>
<1>1. {k \in DOMAIN h : ~h[k].ok} = {} /\ Dests(e) # 1
  OBVIOUS
<1> QED
  BY <1>1 DEF Expected, Dests, Each

\* The first error decides.
LEMMA ExpectedError ==
    ASSUME NEW e \in Ext, Dests(e) > 1, ~Each(e), NEW h \in Seq(Hearing),
           NEW x \in Hearing, \A k \in DOMAIN h : h[k].ok, ~x.ok
    PROVE  Expected(e, Append(h, x)) = <<[id |-> x.id, ok |-> x.ok, completed |-> TRUE]>>
<1> DEFINE h2 == Append(h, x)
           errors == {k \in DOMAIN h2 : ~h2[k].ok}
<1>1. /\ Len(h) \in Nat /\ DOMAIN h = 1 .. Len(h) /\ DOMAIN h2 = 1 .. Len(h) + 1
      /\ \A k \in 1 .. Len(h) : h2[k] = h[k]
      /\ h2[Len(h) + 1] = x
  BY AppendHearing
<1> HIDE DEF h2
<1>2. errors = {Len(h) + 1}
  BY <1>1
<1>3. Min(errors) = Len(h) + 1
  BY <1>1, <1>2 DEF Min
<1>4. Dests(e) # 1 /\ errors # {}
  BY <1>2
<1>5. Expected(e, h2) = <<[id |-> h2[Min(errors)].id, ok |-> h2[Min(errors)].ok, completed |-> TRUE]>>
  BY <1>4 DEF Expected, Dests, Each
<1> QED
  BY <1>1, <1>3, <1>5 DEF h2

\* If all results are OK the first or the last of them is told.
LEMMA ExpectedAll ==
    ASSUME NEW e \in Ext, Dests(e) > 1, ~Each(e), NEW h \in Seq(Hearing),
           Len(h) = Dests(e), \A k \in DOMAIN h : h[k].ok
    PROVE  \A w : w = (IF Policy[e] = "first_error_or_first_ok" THEN 1 ELSE Len(h)) =>
              Expected(e, h) = <<[id |-> h[w].id, ok |-> TRUE, completed |-> TRUE]>>
<1>1. {k \in DOMAIN h : ~h[k].ok} = {} /\ Dests(e) # 1 /\ Dests(e) \in Nat
  BY RouteType
<1>2. \A k \in DOMAIN h : h[k].ok = TRUE
  BY HearingFields
<1>3. 1 \in DOMAIN h /\ Len(h) \in DOMAIN h /\ ~(Len(h) < Dests(e))
  BY <1>1
<1>4. CASE Policy[e] = "first_error_or_first_ok"
  <2>1. Expected(e, h) = <<[id |-> h[1].id, ok |-> h[1].ok, completed |-> TRUE]>>
    BY <1>1, <1>3, <1>4 DEF Expected, Dests, Each
  <2> QED
    BY <1>2, <1>3, <1>4, <2>1
<1>5. CASE Policy[e] # "first_error_or_first_ok"
  <2>1. Expected(e, h) = <<[id |-> h[Len(h)].id, ok |-> h[Len(h)].ok, completed |-> TRUE]>>
    BY <1>1, <1>3, <1>5 DEF Expected, Dests, Each
  <2> QED
    BY <1>2, <1>3, <1>5, <2>1
<1> QED
  BY <1>4, <1>5

\* What was told is what was to be told, or an error in its place.
Follows(t, s) == Len(t) = Len(s) /\ \A k \in DOMAIN s : AsTold(t[k], s[k])

LastOnly(all) == \A k \in DOMAIN all : all[k].completed => k = Len(all)

\* What is faithful, in terms of Follows.
LEMMA FaithfulFollows ==
    ASSUME NEW t, NEW handler, NEW all
    PROVE  Faithful(t, handler, all) <=> LastOnly(all) /\ Follows(t, Shown(handler, all))
  BY DEF Faithful, LastOnly, Follows

\* Telling one thing more.
LEMMA FollowsOn ==
    ASSUME NEW handler \in {"send_cmd", "send_cmd_ex"}, NEW s, Undone(s),
           NEW a \in Telling, NEW t \in Seq(Telling), Follows(t, Shown(handler, s)),
           NEW y \in Telling, AsTold(y, a), NEW t2,
           t2 = IF handler = "send_cmd" /\ ~a.completed THEN t ELSE Append(t, y)
    PROVE  LastOnly(Append(s, a)) /\ Follows(t2, Shown(handler, Append(s, a)))
<1> DEFINE u == Append(s, a)
<1>1. s \in Seq(Telling) /\ \A k \in DOMAIN s : ~s[k].completed
  BY DEF Undone
<1>2. /\ u \in Seq(Telling) /\ Len(s) \in Nat /\ DOMAIN s = 1 .. Len(s)
      /\ Len(u) = Len(s) + 1 /\ DOMAIN u = 1 .. Len(s) + 1
      /\ \A k \in 1 .. Len(s) : u[k] = s[k]
      /\ u[Len(s) + 1] = a
  BY <1>1, AppendHearing
<1>3. /\ Append(t, y) \in Seq(Telling) /\ Len(t) \in Nat
      /\ Len(Append(t, y)) = Len(t) + 1
      /\ \A k \in 1 .. Len(t) : Append(t, y)[k] = t[k]
      /\ Append(t, y)[Len(t) + 1] = y
  BY AppendHearing
<1> HIDE DEF u
<1>4. LastOnly(u)
  BY <1>1, <1>2 DEF LastOnly
<1>5. CASE handler = "send_cmd_ex"
  <2>1. Shown(handler, s) = s /\ Shown(handler, u) = u /\ t2 = Append(t, y)
    BY <1>5 DEF Shown
  <2>2. Len(t) = Len(s) /\ \A k \in 1 .. Len(s) : AsTold(t[k], s[k])
    BY <1>2, <2>1 DEF Follows
  <2>3. ASSUME NEW k \in 1 .. Len(s) + 1
        PROVE  AsTold(t2[k], u[k])
    <3>1. CASE k \in 1 .. Len(s)
      <4>1. t2[k] = t[k] /\ u[k] = s[k]
        BY <1>2, <1>3, <2>1, <2>2, <3>1
      <4> QED
        BY <2>2, <3>1, <4>1
    <3>2. CASE k = Len(s) + 1
      BY <1>2, <1>3, <2>1, <2>2, <3>2
    <3>3. k \in 1 .. Len(s) \/ k = Len(s) + 1
      BY <1>2
    <3> QED
      BY <3>1, <3>2, <3>3
  <2> QED
    BY <1>2, <1>3, <1>4, <2>1, <2>2, <2>3 DEF Follows, u
<1>6. CASE handler = "send_cmd"
  <2>1. Shown(handler, s) = <<>>
    BY <1>1, <1>2, <1>6, SMTT(30) DEF Shown
  <2>2. Len(t) = 0
    BY <2>1 DEF Follows
  <2>3. CASE a.completed
    <3>1. Shown(handler, u) = <<a>>
      BY <1>2, <1>6, <2>3 DEF Shown
    <3>2. Len(t2) = 1 /\ t2[1] = y
      BY <1>3, <1>6, <2>2, <2>3
    <3> QED
      BY <1>4, <3>1, <3>2 DEF Follows, u
  <2>4. CASE ~a.completed
    <3>1. Shown(handler, u) = <<>>
      BY <1>2, <1>6, <2>4 DEF Shown
    <3> QED
      BY <1>4, <1>6, <2>2, <2>4, <3>1 DEF Follows, u
  <2> QED
    BY <2>3, <2>4
<1> QED
  BY <1>5, <1>6

-----------------------------------------------------------------------------
\* Of n destinations those of the results h, all OK, have answered: their results
\* are cached at the end of g in the order in which they came.
Caches(g, h, n) ==
    /\ Len(g) = n /\ Len(h) <= n
    /\ \A j \in 1 .. n - Len(h) : g[j].cached = "none"
    /\ \A k \in DOMAIN h :
         h[k].ok /\ g[n - Len(h) + k] = [id |-> h[k].id, cached |-> "ok"]

\* What the group g of a send call of e with paths left has of the results h.
Collects(e, g, h) ==
    /\ Dests(e) >= 1
    /\ Dests(e) = 1 => g = <<>> /\ \A k \in DOMAIN h : ~h[k].final
    /\ Dests(e) > 1 => Len(h) < Dests(e)
    /\ Dests(e) > 1 /\ Each(e) => Len(g) = Dests(e) - Len(h)
    /\ Dests(e) > 1 /\ ~Each(e) => Caches(g, h, Dests(e))

\* A first OK of a member that had no result yet.
LEMMA AnsweredCollects ==
    ASSUME NEW n \in Nat, NEW g \in Seq(Member), NEW h \in Seq(Hearing), Caches(g, h, n),
           NEW x \in Hearing, x.ok, NEW k \in DOMAIN g, g[k].id = x.id,
           g[k].cached = "none"
    PROVE  Caches(Answered(g, k, TRUE), Append(h, x), n)
<1> DEFINE m  == Answered(g, k, TRUE)
           h2 == Append(h, x)
           l == Len(h)
<1>1. /\ h2 \in Seq(Hearing) /\ l \in Nat /\ DOMAIN h = 1 .. l
      /\ Len(h2) = l + 1 /\ DOMAIN h2 = 1 .. l + 1
      /\ \A j \in 1 .. l : h2[j] = h[j]
      /\ h2[l + 1] = x
  BY AppendHearing
<1>8. /\ Len(g) = n /\ l <= n
      /\ \A j \in 1 .. n - l : g[j].cached = "none"
      /\ \A j \in DOMAIN h : h[j].ok /\ g[n - l + j] = [id |-> h[j].id, cached |-> "ok"]
  BY <1>1 DEF Caches
<1>2. k \in DOMAIN g /\ k \in 1 .. n
  BY <1>1, <1>8
<1>9. k \in 1 .. n - l
  <2> SUFFICES ASSUME k \notin 1 .. n - l PROVE FALSE
    OBVIOUS
  <2>1. k - (n - l) \in 1 .. l /\ n - l + (k - (n - l)) = k
    BY <1>1, <1>2, <1>8
  <2>2. g[k] = [id |-> h[k - (n - l)].id, cached |-> "ok"]
    BY <1>1, <1>8, <2>1
  <2> QED
    BY <2>2
<1>0. /\ Len(g) = n /\ l < n /\ k \in 1 .. n - l
      /\ \A j \in 1 .. n - l : g[j].cached = "none"
      /\ \A j \in DOMAIN h : h[j].ok /\ g[n - l + j] = [id |-> h[j].id, cached |-> "ok"]
  BY <1>1, <1>8, <1>9
<1>3. /\ m \in Seq(Member) /\ Len(m) = n /\ n \in Nat \ {0}
      /\ \A j \in 1 .. n - 1 : m[j] = IF j < k THEN g[j] ELSE g[j + 1]
      /\ m[n] = [id |-> g[k].id, cached |-> Status(TRUE)]
  <2>1. /\ m \in Seq(Member) /\ Len(m) = Len(g) /\ Len(g) \in Nat \ {0}
        /\ \A j \in 1 .. Len(g) - 1 : m[j] = IF j < k THEN g[j] ELSE g[j + 1]
        /\ m[Len(g)] = [id |-> g[k].id, cached |-> Status(TRUE)]
    BY <1>2, AnsweredType, Zenon
  <2>2. Len(g) = n
    BY <1>0
  <2> HIDE DEF m
  <2> QED
    BY <2>1, <2>2
<1> HIDE DEF m, h2, l
<1>4. \A j \in 1 .. n - (l + 1) : m[j].cached = "none"
  <2>1. ASSUME NEW j \in 1 .. n - (l + 1)
        PROVE  m[j].cached = "none"
    <3>1. j \in 1 .. n - 1 /\ j \in 1 .. n - l /\ j + 1 \in 1 .. n - l
      BY <1>0, <1>1
    <3>2. m[j] = g[j] \/ m[j] = g[j + 1]
      BY <1>3, <3>1
    <3> QED
      BY <1>0, <3>1, <3>2
  <2> QED
    BY <2>1
<1>5. ASSUME NEW j \in 1 .. l + 1
      PROVE  h2[j].ok /\ m[n - (l + 1) + j] = [id |-> h2[j].id, cached |-> "ok"]
  <2>1. CASE j \in 1 .. l
    <3> DEFINE i == n - (l + 1) + j
    <3>1. i \in 1 .. n - 1 /\ ~(i < k) /\ i + 1 = n - l + j
      <4>1. n \in Nat /\ l \in Nat /\ l < n /\ k <= n - l /\ k >= 1 /\ j >= 1 /\ j <= l
            /\ j \in Nat /\ k \in Nat
        BY <1>0, <1>1, <2>1
      <4>2. i \in Int /\ i + 1 = n - l + j /\ i >= n - l /\ i <= n - 1
        BY <4>1
      <4> HIDE DEF i
      <4> QED
        BY <4>1, <4>2
    <3>2. m[i] = g[n - l + j]
      BY <1>3, <3>1
    <3>3. h[j].ok /\ g[n - l + j] = [id |-> h[j].id, cached |-> "ok"]
      BY <1>0, <1>1, <2>1
    <3> QED
      BY <1>1, <2>1, <3>2, <3>3
  <2>2. CASE j = l + 1
    <3>1. n - (l + 1) + j = n /\ h2[j] = x
      BY <1>1, <2>2
    <3> QED
      BY <1>3, <3>1 DEF Status
  <2>3. j \in 1 .. l \/ j = l + 1
    BY <1>1
  <2> QED
    BY <2>1, <2>2, <2>3
<1>6. Len(h2) = l + 1 /\ DOMAIN h2 = 1 .. l + 1
  BY <1>1
<1>7. Len(m) = n /\ Len(h2) <= n
  BY <1>0, <1>1, <1>3, <1>6
<1> QED
  BY <1>4, <1>5, <1>6, <1>7 DEF Caches, m, h2, l

\* What decides a group whose members are all OK, and whether it is decided.
LEMMA ResolveOk ==
    ASSUME NEW policy \in Policies, policy # "each_ok_and_error", NEW n \in Nat,
           NEW m \in Seq(Member), NEW h \in Seq(Hearing), Caches(m, h, n), Len(h) # 0
    PROVE  /\ Len(h) < n => Resolve(policy, m) = 0
           /\ Len(h) = n => Resolve(policy, m) =
                              IF policy = "first_error_or_first_ok" THEN 1 ELSE n
<1> DEFINE l == Len(h)
<1>0. /\ Len(m) = n /\ l \in 1 .. n /\ DOMAIN h = 1 .. l
      /\ \A j \in 1 .. n - l : m[j].cached = "none"
      /\ \A j \in 1 .. l : m[n - l + j].cached = "ok"
  <2>1. l \in Nat /\ DOMAIN h = 1 .. l
    OBVIOUS
  <2>2. \A j \in 1 .. l : m[n - l + j] = [id |-> h[j].id, cached |-> "ok"]
    BY <2>1 DEF Caches
  <2>3. ASSUME NEW j \in 1 .. l
        PROVE  m[n - l + j].cached = "ok"
    <3>1. m[n - l + j] = [id |-> h[j].id, cached |-> "ok"]
      BY <2>2
    <3> QED
      BY <3>1
  <2>4. /\ Len(m) = n /\ Len(h) <= n
        /\ \A j \in 1 .. n - Len(h) : m[j].cached = "none"
    BY DEF Caches
  <2>5. l \in 1 .. n
    BY <2>1, <2>4
  <2> HIDE DEF l
  <2>6. \A j \in 1 .. n - l : m[j].cached = "none"
    BY <2>4 DEF l
  <2> QED
    BY <2>1, <2>3, <2>4, <2>5, <2>6
<1> HIDE DEF l
<1>1. \A j \in 1 .. n : m[j].cached = IF j <= n - l THEN "none" ELSE "ok"
  <2>1. ASSUME NEW j \in 1 .. n, ~(j <= n - l)
        PROVE  m[j].cached = "ok"
    <3>1. j - (n - l) \in 1 .. l /\ n - l + (j - (n - l)) = j
      BY <1>0, <2>1
    <3> QED
      BY <1>0, <3>1
  <2> QED
    BY <1>0, <2>1
<1>2. DOMAIN m = 1 .. n
  BY <1>0
<1>3. {k \in DOMAIN m : m[k].cached = "error"} = {}
  BY <1>1, <1>2
<1>4. (\E k \in DOMAIN m : m[k].cached = "none") <=> l < n
  BY <1>0, <1>1, <1>2
<1>5. policy = "first_error_or_first_ok" \/ policy = "first_error_or_last_ok"
  BY DEF Policies
<1> DEFINE errors == {k \in DOMAIN m : m[k].cached = "error"}
           undecided == \E k \in DOMAIN m : m[k].cached = "none"
           first == policy = "first_error_or_first_ok"
<1>9. /\ errors = {} /\ undecided => Resolve(policy, m) = 0
      /\ errors = {} /\ ~undecided => Resolve(policy, m) = IF first THEN 1 ELSE Len(m)
  <2> HIDE DEF undecided, errors
  <2> QED
    BY <1>5 DEF Resolve, undecided, errors
<1>6. l < n => Resolve(policy, m) = 0
  BY <1>3, <1>4, <1>9
<1>7. l = n => Resolve(policy, m) = IF first THEN 1 ELSE n
  <2>1. Len(m) = n /\ (l = n => ~undecided)
    BY <1>0, <1>4
  <2> HIDE DEF undecided, first
  <2> QED
    BY <1>3, <1>9, <2>1
<1>8. l < n \/ l = n
  BY <1>0
<1> QED
  BY <1>6, <1>7, <1>8 DEF l

\* An error decides at once.
LEMMA ResolveError ==
    ASSUME NEW policy \in Policies, policy # "each_ok_and_error", NEW g \in Seq(Member),
           \A j \in DOMAIN g : g[j].cached # "error", NEW k \in DOMAIN g
    PROVE  Resolve(policy, Answered(g, k, FALSE)) = Len(g)
<1> DEFINE m == Answered(g, k, FALSE)
           n == Len(g)
           errors == {j \in DOMAIN m : m[j].cached = "error"}
<1>1. /\ m \in Seq(Member) /\ Len(m) = n /\ n \in Nat \ {0}
      /\ \A j \in 1 .. n - 1 : m[j] = IF j < k THEN g[j] ELSE g[j + 1]
      /\ m[n] = [id |-> g[k].id, cached |-> Status(FALSE)]
  BY AnsweredType, Zenon
<1>2. DOMAIN g = 1 .. n /\ k \in 1 .. n
  OBVIOUS
<1> HIDE DEF m, n
<1>3. DOMAIN m = 1 .. n
  BY <1>1
<1>4. \A j \in 1 .. n - 1 : m[j].cached # "error"
  <2>1. ASSUME NEW j \in 1 .. n - 1
        PROVE  m[j].cached # "error"
    <3>1. j \in DOMAIN g /\ j + 1 \in DOMAIN g
      BY <1>1, <1>2
    <3>2. m[j] = g[j] \/ m[j] = g[j + 1]
      BY <1>1
    <3> QED
      BY <3>1, <3>2
  <2> QED
    BY <2>1
<1>5. m[n].cached = "error"
  BY <1>1 DEF Status
<1>6. errors = {n}
  <2>1. \A j \in 1 .. n : j \in 1 .. n - 1 \/ j = n
    BY <1>1
  <2>2. n \in 1 .. n
    BY <1>1
  <2> QED
    BY <1>3, <1>4, <1>5, <2>1, <2>2
<1>7. Min(errors) = n
  BY <1>1, <1>6 DEF Min
<1> QED
  BY <1>6, <1>7 DEF Resolve, m, n

-----------------------------------------------------------------------------
\* A result that takes a path.

\* A verdict with another status.
LEMMA ExceptOk ==
    ASSUME NEW i, NEW o, NEW d, NEW f
    PROVE  [[id |-> i, ok |-> o, completed |-> d] EXCEPT !.ok = f]
             = [id |-> i, ok |-> f, completed |-> d]
  OBVIOUS

\* A verdict that became an error.
LEMMA ExceptFalse ==
    ASSUME NEW i, NEW o, NEW d
    PROVE  [[id |-> i, ok |-> o, completed |-> d] EXCEPT !.ok = FALSE]
             = [id |-> i, ok |-> FALSE, completed |-> d]
<1>1. \A f : [[id |-> i, ok |-> o, completed |-> d] EXCEPT !.ok = f]
             = [id |-> i, ok |-> f, completed |-> d]
  BY ExceptOk
<1> QED
  BY <1>1, Zenon

\* What is told as it is.
LEMMA AsToldSame ==
    ASSUME NEW x, NEW y, x = y
    PROVE  AsTold(x, y)
  BY DEF AsTold

\* What is told as an error.
LEMMA AsToldError ==
    ASSUME NEW x, NEW y, SchemaErrors, x = [y EXCEPT !.ok = FALSE]
    PROVE  AsTold(x, y)
  BY DEF AsTold

\* What is handed to the handler of a path, if it has one that is interested.
LEMMA DeliverAdds ==
    ASSUME NEW e \in Ext, NEW q \in OutPath, NEW ok \in BOOLEAN, NEW final,
           NEW completed \in BOOLEAN, NEW left, Deliver(e, q, ok, final, completed, left)
    PROVE  LET a == [id |-> q.id, ok |-> ok, completed |-> completed]
           IN  /\ a \in Telling
               /\ \E y \in Telling :
                    /\ AsTold(y, a)
                    /\ told' = IF q.handler = "none" \/ (q.handler = "send_cmd" /\ ~completed)
                               THEN told ELSE [told EXCEPT ![q.ctx] = Append(@, y)]
<1> DEFINE a == [id |-> q.id, ok |-> ok, completed |-> completed]
           say(seen) == [id |-> q.id, ok |-> seen, completed |-> completed]
<1>1. q.id \in Id
  BY OutPathFields
<1>2. \A seen \in BOOLEAN : say(seen) \in Telling
  BY <1>1 DEF Telling
<1> DEFINE Gives(seen) ==
             \/ q.handler = "send_cmd" /\ ~completed /\ UNCHANGED told
             \/ /\ ~(q.handler = "send_cmd" /\ ~completed)
                /\ told' = IF q.handler = "none" THEN told
                           ELSE [told EXCEPT ![q.ctx] = Append(@, say(seen))]
<1>3. Gives(ok) \/ (SchemaErrors /\ Gives(FALSE))
  <2> DEFINE B == IF SchemaErrors THEN {FALSE} ELSE {}
  <2>1. \A x \in B : SchemaErrors /\ x = FALSE
    OBVIOUS
  <2>2. PICK seen \in {ok} \cup B :
           \/ q.handler = "send_cmd" /\ ~completed /\ UNCHANGED told
           \/ /\ ~(q.handler = "send_cmd" /\ ~completed)
              /\ told' = IF q.handler = "none" THEN told
                         ELSE [told EXCEPT ![q.ctx] = Append(@, say(seen))]
    BY DEF Deliver
  <2> HIDE DEF say
  <2>3. Gives(seen)
    BY <2>2, Zenon
  <2> HIDE DEF B, Gives
  <2>4. CASE seen = ok
    BY <2>3, <2>4, Zenon
  <2>5. CASE seen \in B
    <3>1. SchemaErrors /\ seen = FALSE
      BY <2>1, <2>5
    <3> QED
      BY <2>3, <3>1, Zenon
  <2> QED
    BY <2>4, <2>5
<1>4. AsTold(say(ok), a) /\ (SchemaErrors => AsTold(say(FALSE), a))
  <2>1. [a EXCEPT !.ok = FALSE] = say(FALSE)
    BY ExceptFalse, Zenon
  <2>2. a = say(ok)
    OBVIOUS
  <2>3. AsTold(say(ok), a)
    BY <2>2, AsToldSame
  <2>4. SchemaErrors => AsTold(say(FALSE), a)
    BY <2>1, AsToldError
  <2> QED
    BY <2>3, <2>4
<1>5. ASSUME NEW seen \in BOOLEAN, Gives(seen), AsTold(say(seen), a)
      PROVE  /\ a \in Telling
             /\ \E y \in Telling :
                    /\ AsTold(y, a)
                    /\ told' = IF q.handler = "none" \/ (q.handler = "send_cmd" /\ ~completed)
                               THEN told ELSE [told EXCEPT ![q.ctx] = Append(@, y)]
  <2>1. told' = IF q.handler = "none" \/ (q.handler = "send_cmd" /\ ~completed)
               THEN told ELSE [told EXCEPT ![q.ctx] = Append(@, say(seen))]
    BY <1>5
  <2>2. a = say(ok)
    OBVIOUS
  <2> HIDE DEF say
  <2> QED
    BY <1>2, <1>5, <2>1, <2>2
<1> HIDE DEF say, a, Gives
<1> QED
  BY <1>3, <1>4, <1>5 DEF a

\* The record of a send call that is told one thing more.
LEMMA AddsFaithful ==
    ASSUME NEW c \in Ctx, told \in [Ctx -> Seq(Telling)], NEW handler \in HandlerKinds,
           NEW a \in Telling, NEW y \in Telling, AsTold(y, a),
           told' = IF handler = "none" \/ (handler = "send_cmd" /\ ~a.completed)
                   THEN told ELSE [told EXCEPT ![c] = Append(@, y)],
           NEW s, Undone(s), handler # "none" => Faithful(told[c], handler, s)
    PROVE  /\ handler # "none" => Faithful(told'[c], handler, Append(s, a))
           /\ \A d \in Ctx : d # c => told'[d] = told[d]
           /\ told' \in [Ctx -> Seq(Telling)]
<1>1. \A d \in Ctx : d # c => told'[d] = told[d]
  OBVIOUS
<1>3. told' \in [Ctx -> Seq(Telling)]
  <2>1. Append(told[c], y) \in Seq(Telling)
    BY AppendTelling
  <2> QED
    BY <2>1
<1>2. ASSUME handler # "none"
      PROVE  Faithful(told'[c], handler, Append(s, a))
  <2> DEFINE t == told[c]
             t2 == told'[c]
  <2>1. handler \in {"send_cmd", "send_cmd_ex"}
    BY <1>2 DEF HandlerKinds
  <2>2. t \in Seq(Telling)
    OBVIOUS
  <2>3. t2 = IF handler = "send_cmd" /\ ~a.completed THEN t ELSE Append(t, y)
    BY <1>2
  <2>4. Follows(t, Shown(handler, s))
    BY <1>2, FaithfulFollows
  <2> HIDE DEF t, t2
  <2>5. LastOnly(Append(s, a)) /\ Follows(t2, Shown(handler, Append(s, a)))
    BY <2>1, <2>2, <2>3, <2>4, FollowsOn
  <2> QED
    BY <2>5, FaithfulFollows DEF t2
<1> QED
  BY <1>1, <1>2, <1>3

-----------------------------------------------------------------------------
\* What is told is well formed, and told of send calls that were made.
ToldType == /\ told \in [Ctx -> Seq(Telling)]
            /\ \A c \in Ctx : c > Len(sent) => told[c] = <<>>

\* e takes m on path p, whose send call has been served well so far.
Serves(e, m, p) ==
    /\ p \in FirstOutPath(e, m.id)
    /\ heard' = [heard EXCEPT ![p.ctx] = Append(@, HearingOf(m))]
    /\ UNCHANGED sent
    /\ Collects(e, group[p.ctx], heard[p.ctx])
    /\ p.handler # "none" =>
         Faithful(told[p.ctx], p.handler, Expected(e, heard[p.ctx]))

\* It is served well afterwards, and no other is touched.
Served(e, p) ==
    /\ PathsOfCtx(e, p.ctx)' # {} => Collects(e, group'[p.ctx], heard'[p.ctx])
    /\ p.handler # "none" =>
         Faithful(told'[p.ctx], p.handler, Expected(e, heard'[p.ctx]))
    /\ told' \in [Ctx -> Seq(Telling)]
    /\ \A d \in Ctx : d # p.ctx => group'[d] = group[d] /\ told'[d] = told[d]
    /\ \A f \in Ext, d \in Ctx :
         f # e \/ d # p.ctx => PathsOfCtx(f, d)' = PathsOfCtx(f, d)

\* The facts about a result that takes a path.
LEMMA ServesFacts ==
    ASSUME TypeOK, Tables, HeardInv, NEW e \in Ext, NEW m \in ResultMsg, NEW p, Serves(e, m, p)
    PROVE  /\ p \in outPaths[e] /\ p \in OutPath /\ p.ctx \in Ctx /\ p.id = m.id
           /\ p.handler \in HandlerKinds
           /\ p \in PathsOfCtx(e, p.ctx)
           /\ group[p.ctx] \in Seq(Member)
           /\ Agrees(group[p.ctx], PathsOfCtx(e, p.ctx))
           /\ HearingOf(m) \in Hearing /\ HearingOf(m).id = m.id
           /\ HearingOf(m).ok = m.ok /\ HearingOf(m).final = m.final
           /\ m.ok \in BOOLEAN /\ m.final \in BOOLEAN
           /\ heard[p.ctx] \in Seq(Hearing)
           /\ heard'[p.ctx] = Append(heard[p.ctx], HearingOf(m))
<1>1. p \in outPaths[e] /\ p.id = m.id
  BY DEF Serves, FirstOutPath, Oldest
<1>2. p \in OutPath
  BY <1>1 DEF TypeOK
<1>3. p.ctx \in Ctx /\ p.handler \in HandlerKinds /\ p \in PathsOfCtx(e, p.ctx)
  BY <1>1, <1>2 DEF OutPath, PathsOfCtx
<1>4. group[p.ctx] \in Seq(Member) /\ Agrees(group[p.ctx], PathsOfCtx(e, p.ctx))
  BY <1>3, GroupsAgree DEF Tables, TypeOK
<1>5. HearingOf(m) \in Hearing /\ m.ok \in BOOLEAN /\ m.final \in BOOLEAN
  BY HearingType DEF ResultMsg
<1>6. heard[p.ctx] \in Seq(Hearing) /\ heard'[p.ctx] = Append(heard[p.ctx], HearingOf(m))
  BY <1>3, <1>5, HeardOnce DEF Serves
<1> QED
  BY <1>1, <1>2, <1>3, <1>4, <1>5, <1>6 DEF HearingOf

\* Paths of one send call that go leave the others alone.
LEMMA OthersStay ==
    ASSUME TypeOK, NEW e \in Ext, NEW c \in Ctx, NEW gone \in SUBSET PathsOfCtx(e, c),
           outPaths' = [outPaths EXCEPT ![e] = @ \ gone]
    PROVE  /\ PathsOfCtx(e, c)' = PathsOfCtx(e, c) \ gone
           /\ \A f \in Ext, d \in Ctx :
                f # e \/ d # c => PathsOfCtx(f, d)' = PathsOfCtx(f, d)
<1>1. \A x \in Ext : outPaths'[x] = IF x = e THEN outPaths[e] \ gone ELSE outPaths[x]
  BY DEF TypeOK
<1>2. \A p \in gone : p.ctx = c
  BY DEF PathsOfCtx
<1> QED
  BY <1>1, <1>2 DEF PathsOfCtx

\* Without a group the results so far are not final.
LEMMA SingleCollects ==
    ASSUME NEW e, Dests(e) = 1, NEW h, \A k \in DOMAIN h : ~h[k].final
    PROVE  Collects(e, <<>>, h)
  BY DEF Collects

\* A result for a send call with one destination.
LEMMA SingleServed ==
    ASSUME TypeOK, Tables, HeardInv, ToldType, NEW e \in Ext, NEW m \in ResultMsg,
           NEW p, Serves(e, m, p), NEW left, DecideSingle(e, p, m.ok, m.final, left)
    PROVE  Served(e, p)
<1> DEFINE c == p.ctx
           h == heard[c]
           x == HearingOf(m)
           a == [id |-> p.id, ok |-> m.ok, completed |-> m.final]
           gone == IF m.final THEN {p} ELSE {}
<1>0. /\ p \in outPaths[e] /\ p \in OutPath /\ c \in Ctx /\ p.id = m.id
      /\ p.handler \in HandlerKinds
      /\ p \in PathsOfCtx(e, c) /\ group[c] \in Seq(Member)
      /\ Agrees(group[c], PathsOfCtx(e, c))
      /\ x \in Hearing /\ x.id = m.id /\ x.ok = m.ok /\ x.final = m.final
      /\ m.ok \in BOOLEAN /\ m.final \in BOOLEAN
      /\ h \in Seq(Hearing) /\ heard'[c] = Append(h, x)
  BY ServesFacts, Zenon
<1>1. /\ group[c] = <<>> /\ group' = group
      /\ outPaths' = [outPaths EXCEPT ![e] = @ \ gone]
      /\ Deliver(e, p, m.ok, m.final, m.final, left)
  BY DEF DecideSingle, TypeOK
<1>2. Collects(e, <<>>, h) /\ (p.handler # "none" => Faithful(told[c], p.handler, Expected(e, h)))
  BY <1>1 DEF Serves
<1>3. Dests(e) = 1
  <2>1. Dests(e) \in Nat /\ Dests(e) >= 1 /\ Len(h) \in Nat /\ Len(<<>>) = 0
    BY <1>0, <1>2, RouteType DEF Collects
  <2>2. ASSUME Dests(e) > 1 PROVE FALSE
    <3>1. Len(h) < Dests(e) /\ (0 = Dests(e) - Len(h) \/ 0 = Dests(e))
      BY <1>2, <2>1, <2>2 DEF Collects, Caches
    <3> QED
      BY <2>1, <3>1
  <2> QED
    BY <2>1, <2>2
<1>4. \A k \in DOMAIN h : ~h[k].final
  BY <1>2, <1>3 DEF Collects
<1>5. Undone(Expected(e, h)) /\ Expected(e, Append(h, x)) = Append(Expected(e, h), a)
  <2>1. a = [id |-> x.id, ok |-> x.ok, completed |-> x.final]
    BY <1>0
  <2> HIDE DEF x, h, a
  <2> QED
    BY <1>0, <1>3, <1>4, <2>1, ExpectedSingle
<1>6. PICK y \in Telling :
         /\ a \in Telling /\ AsTold(y, a)
         /\ told' = IF p.handler = "none" \/ (p.handler = "send_cmd" /\ ~m.final)
                    THEN told ELSE [told EXCEPT ![c] = Append(@, y)]
  <2>1. LET b == [id |-> p.id, ok |-> m.ok, completed |-> m.final]
        IN  /\ b \in Telling
            /\ \E y \in Telling :
                 /\ AsTold(y, b)
                 /\ told' = IF p.handler = "none" \/ (p.handler = "send_cmd" /\ ~m.final)
                            THEN told ELSE [told EXCEPT ![p.ctx] = Append(@, y)]
    <3>1. Deliver(e, p, m.ok, m.final, m.final, left) /\ p \in OutPath
          /\ m.ok \in BOOLEAN /\ m.final \in BOOLEAN
      BY <1>0, <1>1
    <3> QED
      BY <3>1, DeliverAdds
  <2> QED
    BY <2>1, Zenon
<1>7. told \in [Ctx -> Seq(Telling)] /\ a.completed = m.final
  BY DEF ToldType
<1> DEFINE E == Expected(e, h)
<1> HIDE DEF c, h, x, a, E
<1>8. /\ p.handler # "none" => Faithful(told'[c], p.handler, Append(E, a))
      /\ \A d \in Ctx : d # c => told'[d] = told[d]
      /\ told' \in [Ctx -> Seq(Telling)]
  <2>1. Undone(E) /\ (p.handler # "none" => Faithful(told[c], p.handler, E))
    BY <1>2, <1>5 DEF E
  <2>2. told' = IF p.handler = "none" \/ (p.handler = "send_cmd" /\ ~a.completed)
                THEN told ELSE [told EXCEPT ![c] = Append(@, y)]
    BY <1>6, <1>7
  <2> QED
    BY <1>0, <1>6, <1>7, <2>1, <2>2, AddsFaithful
<1>9. PathsOfCtx(e, c) = {p}
  <2>1. \A r, q \in PathsOfCtx(e, c) : r = q
    BY <1>0, <1>1 DEF Agrees
  <2> QED
    BY <1>0, <2>1
<1>10. /\ PathsOfCtx(e, p.ctx)' = PathsOfCtx(e, c) \ gone
       /\ \A f \in Ext, d \in Ctx :
                f # e \/ d # c => PathsOfCtx(f, d)' = PathsOfCtx(f, d)
  <2>1. gone \in SUBSET PathsOfCtx(e, c)
    BY <1>9
  <2> HIDE DEF gone
  <2> QED
    BY <1>0, <1>1, <2>1, OthersStay DEF c
<1>11. PathsOfCtx(e, p.ctx)' # {} => Collects(e, group'[c], heard'[c])
  <2> SUFFICES ASSUME PathsOfCtx(e, p.ctx)' # {} PROVE Collects(e, group'[c], heard'[c])
    OBVIOUS
  <2>1. ~m.final
    BY <1>9, <1>10
  <2>2. /\ Len(h) \in Nat /\ DOMAIN h = 1 .. Len(h) /\ DOMAIN Append(h, x) = 1 .. Len(h) + 1
        /\ \A k \in 1 .. Len(h) : Append(h, x)[k] = h[k]
        /\ Append(h, x)[Len(h) + 1] = x
    BY <1>0, AppendHearing
  <2>3. \A k \in DOMAIN Append(h, x) : ~Append(h, x)[k].final
    BY <1>0, <1>4, <2>1, <2>2
  <2>4. group'[c] = <<>>
    BY <1>0, <1>1
  <2> QED
    BY <1>0, <1>3, <2>3, <2>4, SingleCollects
<1>12. p.handler # "none" => Faithful(told'[c], p.handler, Expected(e, heard'[c]))
  BY <1>0, <1>5, <1>8 DEF E
<1> QED
  BY <1>1, <1>8, <1>10, <1>11, <1>12 DEF Served, c

\* A send call with a member in its group has several destinations.
LEMMA GroupDests ==
    ASSUME NEW e \in Ext, NEW g \in Seq(Member), NEW h \in Seq(Hearing),
           Collects(e, g, h), NEW k \in DOMAIN g
    PROVE  /\ Dests(e) \in Nat /\ Dests(e) > 1
           /\ Len(h) \in Nat /\ Len(h) < Dests(e) /\ DOMAIN h = 1 .. Len(h)
<1>1. Dests(e) \in Nat /\ Len(h) \in Nat /\ DOMAIN h = 1 .. Len(h)
  BY RouteType
<1>2. g # <<>>
  OBVIOUS
<1> QED
  BY <1>1, <1>2 DEF Collects

\* Before an error there are only OKs, and a member whose OK was not heard has
\* nothing cached.
LEMMA CachedOk ==
    ASSUME NEW e \in Ext, ~Each(e), NEW g \in Seq(Member), NEW h \in Seq(Hearing),
           Collects(e, g, h), NEW k \in DOMAIN g
    PROVE  /\ Len(g) = Dests(e)
           /\ \A j \in DOMAIN h : h[j].ok
           /\ \A j \in DOMAIN g : g[j].cached # "error"
           /\ (\A j \in DOMAIN h : h[j].ok => h[j].id # g[k].id) => g[k].cached = "none"
<1> DEFINE n == Dests(e)
           l == Len(h)
<1>1. n \in Nat /\ l \in Nat /\ l < n /\ n > 1 /\ DOMAIN h = 1 .. l
  BY GroupDests
<1>2. /\ Len(g) = n
      /\ \A j \in 1 .. n - l : g[j].cached = "none"
      /\ \A j \in 1 .. l : h[j].ok /\ g[n - l + j] = [id |-> h[j].id, cached |-> "ok"]
  BY <1>1 DEF Collects, Caches
<1>3. DOMAIN g = 1 .. n
  BY <1>2
<1> HIDE DEF n, l
<1>4. ASSUME NEW j \in 1 .. n, j \notin 1 .. n - l
      PROVE  j - (n - l) \in 1 .. l /\ n - l + (j - (n - l)) = j
  BY <1>1, <1>4
<1>5. ASSUME NEW j \in 1 .. n, j \notin 1 .. n - l
      PROVE  \E i \in 1 .. l : g[j] = [id |-> h[i].id, cached |-> "ok"]
  BY <1>2, <1>4, <1>5
<1>6. \A j \in 1 .. n : g[j].cached # "error"
  BY <1>2, <1>5
<1>7. (\A j \in 1 .. l : h[j].ok => h[j].id # g[k].id) => g[k].cached = "none"
  BY <1>2, <1>3, <1>5
<1> QED
  BY <1>1, <1>2, <1>3, <1>6, <1>7 DEF n, l

\* A result that leaves a group undecided.
LEMMA KeepVerdict ==
    ASSUME NEW e \in Ext, NEW g \in Seq(Member), NEW h \in Seq(Hearing), Collects(e, g, h),
           NEW x \in Hearing, NEW k \in DOMAIN g, g[k].id = x.id,
           x.ok => \A j \in DOMAIN h : h[j].ok => h[j].id # x.id,
           Resolve(Policy[e], Answered(g, k, x.ok)) = 0
    PROVE  /\ Collects(e, Answered(g, k, x.ok), Append(h, x))
           /\ Expected(e, Append(h, x)) = Expected(e, h)
<1> DEFINE n == Dests(e)
           l == Len(h)
           m == Answered(g, k, x.ok)
           h2 == Append(h, x)
<1>0. x.ok \in BOOLEAN /\ Policy[e] \in Policies
  BY GraphAssumption DEF Hearing
<1>1. n \in Nat /\ l \in Nat /\ l < n /\ n > 1 /\ DOMAIN h = 1 .. l
  BY GroupDests
<1>2. m \in Seq(Member) /\ Len(m) = Len(g) /\ Len(m) \in Nat \ {0}
  BY <1>0, AnsweredType, Zenon
<1>3. ~Each(e)
  <2> HIDE DEF m
  <2> QED
    BY <1>2 DEF Each, Resolve, m
<1>4. /\ Len(g) = n /\ \A j \in DOMAIN h : h[j].ok
      /\ \A j \in DOMAIN g : g[j].cached # "error"
      /\ (\A j \in DOMAIN h : h[j].ok => h[j].id # x.id) => g[k].cached = "none"
  BY <1>3, CachedOk
<1>5. x.ok
  <2> SUFFICES ASSUME ~x.ok PROVE FALSE
    OBVIOUS
  <2>1. x.ok = FALSE
    BY <1>0
  <2>2. Resolve(Policy[e], Answered(g, k, FALSE)) = Len(g)
    BY <1>0, <1>3, <1>4, ResolveError DEF Each
  <2> QED
    BY <1>2, <2>1, <2>2
<1>6. x.ok = TRUE /\ g[k].cached = "none"
  BY <1>0, <1>4, <1>5
<1>7. m = Answered(g, k, TRUE)
  BY <1>6
<1>8. Caches(g, h, n)
  BY <1>1, <1>3 DEF Collects
<1>9. Caches(m, h2, n) /\ Len(h2) = l + 1 /\ h2 \in Seq(Hearing)
  <2>1. Caches(Answered(g, k, TRUE), h2, n)
    <3> HIDE DEF n
    <3> QED
      BY <1>1, <1>5, <1>6, <1>8, AnsweredCollects
  <2>2. Len(h2) = l + 1 /\ h2 \in Seq(Hearing)
    BY AppendHearing
  <2> HIDE DEF m, h2, n, l
  <2> QED
    BY <1>7, <2>1, <2>2
<1> HIDE DEF m, h2, n, l
<1>11. l + 1 < n
  <2>1. Len(h2) = n => Resolve(Policy[e], m) # 0
    BY <1>0, <1>1, <1>2, <1>3, <1>9, ResolveOk DEF Each
  <2>2. Len(h2) <= n
    BY <1>9 DEF Caches
  <2> QED
    BY <1>1, <1>9, <2>1, <2>2 DEF m
<1>12. Collects(e, m, h2)
  BY <1>1, <1>3, <1>9, <1>11 DEF Collects, n
<1>13. Expected(e, h) = <<>> /\ Expected(e, h2) = <<>>
  <2>1. \A j \in DOMAIN h2 : h2[j].ok
    BY <1>9 DEF Caches
  <2> QED
    BY <1>1, <1>3, <1>4, <1>9, <1>11, <2>1, ExpectedNone DEF n, l
<1> QED
  BY <1>12, <1>13 DEF m, h2

\* A result that decides a group.
LEMMA DecideEach ==
    ASSUME NEW e \in Ext, Each(e), NEW g \in Seq(Member), NEW h \in Seq(Hearing),
           Collects(e, g, h), NEW x \in Hearing, NEW k \in DOMAIN g, g[k].id = x.id
    PROVE  LET m    == Answered(g, k, x.ok)
               w    == Resolve(Policy[e], m)
               rest == LeftInGroup(Policy[e], m, w)
           IN  /\ m[w] = [id |-> x.id, cached |-> Status(x.ok)]
               /\ rest # <<>> => Collects(e, rest, Append(h, x))
               /\ Undone(Expected(e, h))
               /\ \A done \in BOOLEAN : (done <=> rest = <<>>) =>
                    Expected(e, Append(h, x)) =
                      Append(Expected(e, h), [id |-> x.id, ok |-> x.ok, completed |-> done])
<1> DEFINE n == Dests(e)
           l == Len(h)
           m == Answered(g, k, x.ok)
           w == Resolve(Policy[e], m)
           rest == LeftInGroup(Policy[e], m, w)
           h2 == Append(h, x)
<1>0. x.ok \in BOOLEAN
  BY DEF Hearing
<1>1. n \in Nat /\ l \in Nat /\ l < n /\ n > 1
  BY GroupDests
<1>2. Len(g) = n - l
  BY <1>1 DEF Collects
<1>3. /\ m \in Seq(Member) /\ Len(m) = Len(g) /\ Len(g) \in Nat \ {0}
      /\ m[Len(g)] = [id |-> x.id, cached |-> Status(x.ok)]
  <2>1. /\ m \in Seq(Member) /\ Len(m) = Len(g) /\ Len(g) \in Nat \ {0}
        /\ m[Len(g)] = [id |-> g[k].id, cached |-> Status(x.ok)]
    BY <1>0, AnsweredType, Zenon
  <2> HIDE DEF m
  <2> QED
    BY <2>1
<1>4. w = Len(g)
  <2> HIDE DEF m
  <2> QED
    BY <1>3 DEF Each, Resolve
<1>5. rest \in Seq(Member) /\ Len(rest) = Len(g) - 1
  <2>1. rest = RemoveAt(m, Len(g))
    BY <1>4 DEF LeftInGroup, Each
  <2>2. Len(g) \in 1 .. Len(m)
    BY <1>3
  <2>3. RemoveAt(m, Len(g)) \in Seq(Member) /\ Len(RemoveAt(m, Len(g))) = Len(m) - 1
    <3> HIDE DEF m
    <3> QED
      BY <1>3, <2>2, RemoveAtType
  <2> QED
    BY <1>3, <2>1, <2>3
<1>6. Len(h2) = l + 1
  BY AppendHearing
<1> HIDE DEF m, w, rest, h2, n, l
<1>7. rest = <<>> <=> l + 1 = n
  BY <1>1, <1>2, <1>5
<1>8. rest # <<>> => Collects(e, rest, h2)
  <2>1. rest # <<>> => Len(h2) < n /\ Len(rest) = n - Len(h2)
    BY <1>1, <1>2, <1>5, <1>6, <1>7
  <2> QED
    BY <1>1, <2>1 DEF Collects, n
<1>9. /\ Undone(Expected(e, h))
      /\ Expected(e, h2) = Append(Expected(e, h), [id |-> x.id, ok |-> x.ok, completed |-> l + 1 = n])
  BY <1>1, ExpectedEach DEF n, l, h2
<1>10. ASSUME NEW done \in BOOLEAN, done <=> rest = <<>>
       PROVE  Expected(e, h2) = Append(Expected(e, h), [id |-> x.id, ok |-> x.ok, completed |-> done])
  <2>1. done = (l + 1 = n)
    BY <1>7, <1>10
  <2> QED
    BY <1>9, <2>1, Zenon
<1> QED
  BY <1>3, <1>4, <1>8, <1>9, <1>10 DEF m, w, rest, h2

\* A result that decides a group under one of the other policies.
LEMMA DecideFirst ==
    ASSUME NEW e \in Ext, ~Each(e), NEW g \in Seq(Member), NEW h \in Seq(Hearing),
           Collects(e, g, h), NEW x \in Hearing, NEW k \in DOMAIN g, g[k].id = x.id,
           x.ok => \A j \in DOMAIN h : h[j].ok => h[j].id # x.id,
           Resolve(Policy[e], Answered(g, k, x.ok)) # 0
    PROVE  LET m == Answered(g, k, x.ok)
               w == Resolve(Policy[e], m)
           IN  /\ Expected(e, h) = <<>>
               /\ \A ok \in BOOLEAN : (ok <=> m[w].cached = "ok") =>
                    Expected(e, Append(h, x)) = <<[id |-> m[w].id, ok |-> ok, completed |-> TRUE]>>
<1> DEFINE n == Dests(e)
           l == Len(h)
           m == Answered(g, k, x.ok)
           w == Resolve(Policy[e], m)
           h2 == Append(h, x)
<1>0. x.ok \in BOOLEAN /\ Policy[e] \in Policies
  BY GraphAssumption DEF Hearing
<1>1. n \in Nat /\ l \in Nat /\ l < n /\ n > 1 /\ DOMAIN h = 1 .. l
  BY GroupDests
<1>4. /\ Len(g) = n /\ \A j \in DOMAIN h : h[j].ok
      /\ \A j \in DOMAIN g : g[j].cached # "error"
      /\ (\A j \in DOMAIN h : h[j].ok => h[j].id # x.id) => g[k].cached = "none"
  BY CachedOk
<1>5. Expected(e, h) = <<>>
  BY <1>1, <1>4, ExpectedNone
<1>6. CASE ~x.ok
  <2>0. x.ok = FALSE
    BY <1>0, <1>6
  <2>1. w = Len(g)
    <3>1. Resolve(Policy[e], Answered(g, k, FALSE)) = Len(g)
      BY <1>0, <1>4, ResolveError DEF Each
    <3> QED
      BY <2>0, <3>1
  <2>2. m[Len(g)] = [id |-> g[k].id, cached |-> Status(x.ok)]
    BY <1>0, AnsweredType, Zenon
  <2> HIDE DEF m, w
  <2>3. m[w].id = x.id /\ m[w].cached = "error"
    BY <2>0, <2>1, <2>2 DEF Status
  <2>4. Expected(e, h2) = <<[id |-> x.id, ok |-> x.ok, completed |-> TRUE]>>
    BY <1>1, <1>4, <1>6, ExpectedError
  <2> HIDE DEF h2
  <2>5. \A ok \in BOOLEAN : (ok <=> m[w].cached = "ok") => ok = x.ok
    BY <2>0, <2>3
  <2>6. \A ok \in BOOLEAN : (ok <=> m[w].cached = "ok") =>
          Expected(e, h2) = <<[id |-> m[w].id, ok |-> ok, completed |-> TRUE]>>
    BY <2>3, <2>4, <2>5
  <2> QED
    BY <1>5, <2>6 DEF m, w, h2
<1>7. CASE x.ok
  <2>0. x.ok = TRUE /\ g[k].cached = "none"
    BY <1>0, <1>4, <1>7
  <2>1. m = Answered(g, k, TRUE) /\ m \in Seq(Member)
    BY <2>0, AnsweredType
  <2>2. Caches(g, h, n)
    BY <1>1 DEF Collects
  <2>3. Caches(Answered(g, k, TRUE), h2, n)
    <3> HIDE DEF n
    <3> QED
      BY <1>1, <1>7, <2>0, <2>2, AnsweredCollects
  <2>4. Len(h2) = l + 1 /\ h2 \in Seq(Hearing) /\ DOMAIN h2 = 1 .. l + 1
    BY AppendHearing
  <2> HIDE DEF m, h2, n, l
  <2>5. Caches(m, h2, n)
    BY <2>1, <2>3
  <2>6. Len(h2) <= n /\ \A j \in DOMAIN h2 : h2[j].ok
    BY <2>5 DEF Caches
  <2>7. /\ Len(h2) < n => w = 0
        /\ Len(h2) = n => w = IF Policy[e] = "first_error_or_first_ok" THEN 1 ELSE n
    <3>1. Len(h2) # 0
      BY <1>1, <2>4
    <3> QED
      BY <1>0, <1>1, <2>1, <2>4, <2>5, <3>1, ResolveOk, ZenonT(40) DEF Each
  <2>8. Len(h2) = n /\ w = IF Policy[e] = "first_error_or_first_ok" THEN 1 ELSE Len(h2)
    <3>1. w # 0
      BY DEF m
    <3> QED
      BY <1>1, <2>4, <2>6, <2>7, <3>1
  <2> HIDE DEF w
  <2>9. m[w].id = h2[w].id /\ m[w].cached = "ok"
    <3>1. w \in DOMAIN h2 /\ n - Len(h2) + w = w
      <4>1. w = 1 \/ w = l + 1
        BY <2>4, <2>8
      <4>2. w \in 1 .. l + 1 /\ w \in Int
        BY <1>1, <4>1
      <4>3. n - Len(h2) = 0
        BY <1>1, <2>8
      <4> QED
        BY <2>4, <4>2, <4>3
    <3>2. m[n - Len(h2) + w] = [id |-> h2[w].id, cached |-> "ok"]
      BY <2>5, <3>1 DEF Caches
    <3> QED
      BY <3>1, <3>2
  <2>10. Expected(e, h2) = <<[id |-> h2[w].id, ok |-> TRUE, completed |-> TRUE]>>
    BY <1>1, <2>4, <2>6, <2>8, ExpectedAll DEF n
  <2>11. \A ok \in BOOLEAN : (ok <=> m[w].cached = "ok") => ok = TRUE
    BY <2>9
  <2>12. \A ok \in BOOLEAN : (ok <=> m[w].cached = "ok") =>
          Expected(e, h2) = <<[id |-> m[w].id, ok |-> ok, completed |-> TRUE]>>
    BY <2>9, <2>10, <2>11
  <2> QED
    BY <1>5, <2>12 DEF m, w, h2
<1> QED
  BY <1>6, <1>7

-----------------------------------------------------------------------------
\* An OK of one of several destinations is the first from there.
FirstOk(e, m, p) ==
    m.ok /\ Dests(e) > 1 => \A j \in DOMAIN heard[p.ctx] :
        heard[p.ctx][j].ok => heard[p.ctx][j].id # m.id

\* A result that is cached in its group.
LEMMA KeepServed ==
    ASSUME TypeOK, Tables, HeardInv, ToldType, NEW e \in Ext, NEW m \in ResultMsg,
           NEW p, Serves(e, m, p), FirstOk(e, m, p), NEW left, KeepInGroup(e, p, m.ok, left)
    PROVE  Served(e, p)
<1> DEFINE c == p.ctx
           g == group[c]
           h == heard[c]
           x == HearingOf(m)
<1>0. /\ c \in Ctx /\ p.id = m.id /\ g \in Seq(Member)
      /\ x \in Hearing /\ x.id = m.id /\ x.ok = m.ok
      /\ h \in Seq(Hearing) /\ heard'[c] = Append(h, x)
  BY ServesFacts, Zenon
<1>1. PICK k \in DOMAIN g :
         /\ g[k].id = p.id
         /\ Resolve(Policy[e], Answered(g, k, m.ok)) = 0
         /\ group' = [group EXCEPT ![c] = Answered(g, k, m.ok)]
  BY DEF KeepInGroup
<1>2. outPaths' = outPaths /\ told' = told
  BY DEF KeepInGroup
<1>3. Collects(e, g, h) /\ (p.handler # "none" => Faithful(told[c], p.handler, Expected(e, h)))
  BY DEF Serves
<1>4. g[k].id = x.id /\ Resolve(Policy[e], Answered(g, k, x.ok)) = 0
  BY <1>0, <1>1
<1>5. x.ok => \A j \in DOMAIN h : h[j].ok => h[j].id # x.id
  <2>1. Dests(e) > 1
    BY <1>0, <1>3, GroupDests
  <2> QED
    BY <1>0, <2>1 DEF FirstOk
<1>6. group'[c] = Answered(g, k, x.ok) /\ \A d \in Ctx : d # c => group'[d] = group[d]
  BY <1>0, <1>1 DEF TypeOK
<1> HIDE DEF c, g, h, x
<1>7. /\ Collects(e, Answered(g, k, x.ok), Append(h, x))
      /\ Expected(e, Append(h, x)) = Expected(e, h)
  BY <1>0, <1>3, <1>4, <1>5, KeepVerdict
<1>8. \A f \in Ext, d \in Ctx : PathsOfCtx(f, d)' = PathsOfCtx(f, d)
  BY <1>2 DEF PathsOfCtx
<1>9. Collects(e, group'[c], heard'[c])
  BY <1>0, <1>6, <1>7
<1>10. p.handler # "none" => Faithful(told'[c], p.handler, Expected(e, heard'[c]))
  BY <1>0, <1>2, <1>3, <1>7
<1>11. told' \in [Ctx -> Seq(Telling)]
  BY <1>2 DEF ToldType
<1> QED
  BY <1>2, <1>6, <1>8, <1>9, <1>10, <1>11 DEF Served, c

\* What a decided group tells, and what is left of it.
LEMMA DecideVerdict ==
    ASSUME NEW e \in Ext, NEW g \in Seq(Member), NEW h \in Seq(Hearing),
           Collects(e, g, h), NEW x \in Hearing, NEW k \in DOMAIN g, g[k].id = x.id,
           x.ok => \A j \in DOMAIN h : h[j].ok => h[j].id # x.id,
           Resolve(Policy[e], Answered(g, k, x.ok)) # 0
    PROVE  LET m    == Answered(g, k, x.ok)
               w    == Resolve(Policy[e], m)
               rest == LeftInGroup(Policy[e], m, w)
           IN  /\ rest # <<>> => Collects(e, rest, Append(h, x))
               /\ Undone(Expected(e, h))
               /\ \A ok, done \in BOOLEAN : 
                    (ok <=> m[w].cached = "ok") /\ (done <=> rest = <<>>) =>
                    Expected(e, Append(h, x)) =
                      Append(Expected(e, h), [id |-> m[w].id, ok |-> ok, completed |-> done])
<1> DEFINE m    == Answered(g, k, x.ok)
           w    == Resolve(Policy[e], m)
           rest == LeftInGroup(Policy[e], m, w)
           h2 == Append(h, x)
<1>0. x.ok \in BOOLEAN
  BY DEF Hearing
<1>1. CASE Each(e)
  <2>1. /\ m[w] = [id |-> x.id, cached |-> Status(x.ok)]
        /\ rest # <<>> => Collects(e, rest, h2)
        /\ Undone(Expected(e, h))
        /\ \A done \in BOOLEAN : (done <=> rest = <<>>) =>
             Expected(e, h2) =
               Append(Expected(e, h), [id |-> x.id, ok |-> x.ok, completed |-> done])
    BY <1>1, DecideEach, Zenon
  <2> HIDE DEF m, w, rest, h2
  <2>2. m[w].id = x.id /\ (m[w].cached = "ok" <=> x.ok)
    BY <2>1 DEF Status
  <2>3. ASSUME NEW ok \in BOOLEAN, NEW done \in BOOLEAN,
               ok <=> m[w].cached = "ok", done <=> rest = <<>>
        PROVE  Expected(e, h2) =
                 Append(Expected(e, h), [id |-> m[w].id, ok |-> ok, completed |-> done])
    <3>1. ok = x.ok
      BY <1>0, <2>2, <2>3
    <3> QED
      BY <2>1, <2>2, <2>3, <3>1, Zenon
  <2> QED
    BY <2>1, <2>3 DEF m, w, rest, h2
<1>2. CASE ~Each(e)
  <2>1. /\ Expected(e, h) = <<>>
        /\ \A ok \in BOOLEAN : (ok <=> m[w].cached = "ok") =>
             Expected(e, h2) = <<[id |-> m[w].id, ok |-> ok, completed |-> TRUE]>>
    BY <1>2, DecideFirst, Zenon
  <2>2. rest = <<>>
    <3> HIDE DEF m, w
    <3> QED
      BY <1>2 DEF LeftInGroup, Each
  <2> HIDE DEF m, w, rest, h2
  <2>3. Undone(<<>>)
    BY DEF Undone
  <2>4. ASSUME NEW ok \in BOOLEAN, NEW done \in BOOLEAN,
               ok <=> m[w].cached = "ok", done <=> rest = <<>>
        PROVE  Expected(e, h2) =
                 Append(Expected(e, h), [id |-> m[w].id, ok |-> ok, completed |-> done])
    <3> DEFINE a == [id |-> m[w].id, ok |-> ok, completed |-> done]
    <3>1. done = TRUE
      BY <2>2, <2>4
    <3>2. Expected(e, h2) = <<a>>
      BY <2>1, <2>4, <3>1, Zenon
    <3> HIDE DEF a
    <3>3. Append(<<>>, a) = <<a>>
      OBVIOUS
    <3>4. Expected(e, h2) = Append(Expected(e, h), a)
      BY <2>1, <3>2, <3>3, Zenon
    <3> QED
      BY <3>4 DEF a
  <2> QED
    BY <2>1, <2>2, <2>3, <2>4 DEF m, w, rest, h2
<1> QED
  BY <1>1, <1>2

\* A result that decides its group.
LEMMA DecideServed ==
    ASSUME TypeOK, Tables, HeardInv, ToldType, NEW e \in Ext, NEW m \in ResultMsg,
           NEW p, Serves(e, m, p), FirstOk(e, m, p), NEW left, DecideGroup(e, p, m.ok, left)
    PROVE  Served(e, p)
<1> DEFINE c == p.ctx
           g == group[c]
           h == heard[c]
           x == HearingOf(m)
           P == PathsOfCtx(e, c)
<1>0. /\ p \in outPaths[e] /\ c \in Ctx /\ p.id = m.id /\ g \in Seq(Member)
      /\ p \in P /\ Agrees(g, P) /\ m.ok \in BOOLEAN
      /\ x \in Hearing /\ x.id = m.id /\ x.ok = m.ok
      /\ h \in Seq(Hearing) /\ heard'[c] = Append(h, x)
  BY ServesFacts, Zenon
<1>1. PICK k \in DOMAIN g :
         /\ g[k].id = p.id
         /\ LET y == Answered(g, k, m.ok)
                w == Resolve(Policy[e], y)
                rest == LeftInGroup(Policy[e], y, w)
            IN  /\ w # 0
                /\ group' = [group EXCEPT ![c] = rest]
                /\ \E q \in P :
                     /\ q.id = y[w].id
                     /\ outPaths' = [outPaths EXCEPT ![e] = @ \ Decided(e, q, y)]
                     /\ Deliver(e, q, y[w].cached = "ok", TRUE, rest = <<>>, left)
  BY DEF DecideGroup
<1> DEFINE y == Answered(g, k, m.ok)
           w == Resolve(Policy[e], y)
           rest == LeftInGroup(Policy[e], y, w)
           ok == y[w].cached = "ok"
           done == rest = <<>>
<1>2. PICK q \in P :
         /\ q.id = y[w].id
         /\ outPaths' = [outPaths EXCEPT ![e] = @ \ Decided(e, q, y)]
         /\ Deliver(e, q, ok, TRUE, done, left)
  BY <1>1, Zenon
<1>3. w # 0 /\ group' = [group EXCEPT ![c] = rest]
  BY <1>1, Zenon
<1>4. Collects(e, g, h) /\ (p.handler # "none" => Faithful(told[c], p.handler, Expected(e, h)))
  BY DEF Serves
<1>5. y = Answered(g, k, x.ok) /\ g[k].id = x.id
  BY <1>0, <1>1
<1>6. x.ok => \A j \in DOMAIN h : h[j].ok => h[j].id # x.id
  <2>1. Dests(e) > 1
    BY <1>0, <1>4, GroupDests
  <2> QED
    BY <1>0, <2>1 DEF FirstOk
<1>7. y \in Seq(Member) /\ y # <<>> /\ Matches(y, P)
  <2>1. g # <<>> /\ Matches(g, P)
    BY <1>0 DEF Agrees
  <2>2. y \in Seq(Member) /\ Len(y) \in Nat \ {0}
    BY <1>0, AnsweredType
  <2>3. Matches(y, P)
    BY <1>0, <2>1, AnsweredMatches
  <2> HIDE DEF y
  <2> QED
    BY <2>2, <2>3
<1>8. q \in outPaths[e] /\ q \in OutPath /\ q.ctx = c /\ q.handler = p.handler
      /\ q.handler \in HandlerKinds
  <2>1. q \in outPaths[e] /\ q.ctx = c
    BY DEF PathsOfCtx
  <2>2. q \in OutPath
    BY <2>1 DEF TypeOK
  <2>3. q.handler = sent[c].handler /\ p.handler = sent[c].handler
    BY <1>0, <2>1, SenderOfPath DEF Tables
  <2> QED
    BY <2>1, <2>2, <2>3, OutPathFields
<1>9. Decided(e, q, y) \in SUBSET P /\ (rest = <<>> <=> P \ Decided(e, q, y) = {})
      /\ rest \in Seq(Member)
  <2> HIDE DEF y, P
  <2> QED
    BY <1>0, <1>2, <1>7, DecidedTables DEF P
<1>10. /\ PathsOfCtx(e, c)' = P \ Decided(e, q, y)
       /\ \A f \in Ext, d \in Ctx :
            f # e \/ d # c => PathsOfCtx(f, d)' = PathsOfCtx(f, d)
  <2> HIDE DEF y
  <2> QED
    BY <1>0, <1>2, <1>9, OthersStay
<1>11. group'[c] = rest /\ \A d \in Ctx : d # c => group'[d] = group[d]
  <2> HIDE DEF rest
  <2> QED
    BY <1>0, <1>3 DEF TypeOK
<1>12. ok \in BOOLEAN /\ done \in BOOLEAN
  OBVIOUS
<1>13. /\ rest # <<>> => Collects(e, rest, Append(h, x))
       /\ Undone(Expected(e, h))
       /\ Expected(e, Append(h, x)) =
            Append(Expected(e, h), [id |-> q.id, ok |-> ok, completed |-> done])
  <2> DEFINE W(u) == Resolve(Policy[e], u)
             Rest(u) == LeftInGroup(Policy[e], u, W(u))
             Z(u) == /\ Rest(u) # <<>> => Collects(e, Rest(u), Append(h, x))
                     /\ Undone(Expected(e, h))
                     /\ \A o, d \in BOOLEAN : 
                          (o <=> u[W(u)].cached = "ok") /\ (d <=> Rest(u) = <<>>) =>
                          Expected(e, Append(h, x)) =
                            Append(Expected(e, h), [id |-> u[W(u)].id, ok |-> o, completed |-> d])
  <2>5. Resolve(Policy[e], Answered(g, k, x.ok)) # 0
    BY <1>3, <1>5, Zenon
  <2>6. Z(Answered(g, k, x.ok))
    <3> HIDE DEF y, w, rest, x, h, g
    <3> QED
      <4>1. g \in Seq(Member) /\ h \in Seq(Hearing) /\ x \in Hearing
        BY <1>0
      <4>2. Collects(e, g, h) /\ g[k].id = x.id
        BY <1>4, <1>5
      <4> QED
        BY <4>1, <4>2, <1>6, <2>5, DecideVerdict
  <2>7. Z(y)
    <3> HIDE DEF Z, y
    <3> QED
      BY <1>5, <2>6, Zenon
  <2>1. /\ rest # <<>> => Collects(e, rest, Append(h, x))
        /\ Undone(Expected(e, h))
        /\ \A o, d \in BOOLEAN : 
             (o <=> ok) /\ (d <=> done) =>
             Expected(e, Append(h, x)) =
               Append(Expected(e, h), [id |-> y[w].id, ok |-> o, completed |-> d])
    BY <2>7, Zenon
  <2> DEFINE E2 == Expected(e, Append(h, x))
             E1 == Expected(e, h)
  <2> HIDE DEF ok, done, y, w, rest, x, h
  <2>2. E2 = Append(E1, [id |-> y[w].id, ok |-> ok, completed |-> done])
    BY <1>12, <2>1, Zenon
  <2>3. q.id = y[w].id
    BY <1>2
  <2> HIDE DEF E1, E2
  <2>4. E2 = Append(E1, [id |-> q.id, ok |-> ok, completed |-> done])
    BY <2>2, <2>3, Zenon
  <2> QED
    BY <2>1, <2>4, Zenon DEF E1, E2
<1> DEFINE a == [id |-> q.id, ok |-> ok, completed |-> done]
           E == Expected(e, h)
<1>14. PICK z \in Telling :
         /\ a \in Telling /\ AsTold(z, a)
         /\ told' = IF q.handler = "none" \/ (q.handler = "send_cmd" /\ ~done)
                    THEN told ELSE [told EXCEPT ![c] = Append(@, z)]
  <2> HIDE DEF ok, done
  <2>1. LET b == [id |-> q.id, ok |-> ok, completed |-> done]
        IN  /\ b \in Telling
            /\ \E z \in Telling :
                 /\ AsTold(z, b)
                 /\ told' = IF q.handler = "none" \/ (q.handler = "send_cmd" /\ ~done)
                            THEN told ELSE [told EXCEPT ![q.ctx] = Append(@, z)]
    <3>0. PICK yes \in BOOLEAN : yes = TRUE
      OBVIOUS
    <3>1. Deliver(e, q, ok, yes, done, left) /\ q \in OutPath
      BY <1>2, <1>8, <3>0, Zenon
    <3> HIDE DEF c, y, w, rest
    <3> QED
      BY <1>12, <3>1, DeliverAdds
  <2>2. q.ctx = c
    BY <1>8
  <2> HIDE DEF c
  <2> QED
    BY <2>1, <2>2, Zenon
<1>15. a.completed = done
  <2> HIDE DEF ok, done
  <2> QED
    OBVIOUS
<1> HIDE DEF a, E, ok, done, rest, y, w, h, x, P, c
<1>16. /\ q.handler # "none" => Faithful(told'[c], q.handler, Append(E, a))
       /\ \A d \in Ctx : d # c => told'[d] = told[d]
       /\ told' \in [Ctx -> Seq(Telling)]
  <2>1. Undone(E) /\ (q.handler # "none" => Faithful(told[c], q.handler, E))
    BY <1>4, <1>8, <1>13 DEF E
  <2>2. told' = IF q.handler = "none" \/ (q.handler = "send_cmd" /\ ~a.completed)
                THEN told ELSE [told EXCEPT ![c] = Append(@, z)]
    BY <1>14, <1>15
  <2>3. told \in [Ctx -> Seq(Telling)]
    BY DEF ToldType
  <2> QED
    BY <1>0, <1>8, <1>14, <2>1, <2>2, <2>3, AddsFaithful
<1>17. Expected(e, heard'[c]) = Append(E, a)
  BY <1>0, <1>13 DEF E, a
<1>18. PathsOfCtx(e, c)' # {} => Collects(e, group'[c], heard'[c])
  <2>1. PathsOfCtx(e, c)' # {} => rest # <<>>
    BY <1>9, <1>10
  <2> QED
    BY <1>0, <1>11, <1>13, <2>1
<1>19. p.handler # "none" => Faithful(told'[c], p.handler, Expected(e, heard'[c]))
  BY <1>8, <1>16, <1>17
<1> QED
  BY <1>10, <1>11, <1>16, <1>18, <1>19 DEF Served, c

-----------------------------------------------------------------------------
\* What is recorded of every send call.

\* The results of send call c are collected in its group as long as it has paths,
\* and its handler was told what there was to tell.
Kept(c) ==
    /\ PathsOfCtx(sent[c].by, c) # {} => Collects(sent[c].by, group[c], heard[c])
    /\ sent[c].handler # "none" =>
         Faithful(told[c], sent[c].handler, Expected(sent[c].by, heard[c]))

Record == ToldType /\ \A c \in Ctx : c <= Len(sent) => Kept(c)

RecordInv == ResultsGoHome => Record

\* A step that changes no part of the record.
LEMMA QuietRecord ==
    ASSUME RecordInv, Quiet
    PROVE  RecordInv'
<1> SUFFICES ASSUME ResultsGoHome' PROVE Record'
  BY DEF RecordInv
<1>1. heard' = heard /\ told' = told /\ group' = group /\ outPaths' = outPaths /\ sent' = sent
  BY DEF Quiet
<1>2. ResultsGoHome
  BY <1>1 DEF ResultsGoHome
<1>3. ToldType'
  BY <1>1, <1>2 DEF RecordInv, Record, ToldType
<1>4. ASSUME NEW c \in Ctx, Kept(c)
      PROVE  Kept(c)'
  BY <1>1, <1>4 DEF Kept, PathsOfCtx
<1> QED
  BY <1>1, <1>2, <1>3, <1>4 DEF RecordInv, Record

\* A send call of which nothing is heard is collected and told of nothing.
LEMMA FreshCollects ==
    ASSUME NEW e \in Ext, NEW g, Dests(e) >= 1,
           Dests(e) = 1 => g = <<>>,
           Dests(e) > 1 => Len(g) = Dests(e) /\ \A k \in 1 .. Dests(e) : g[k].cached = "none"
    PROVE  Collects(e, g, <<>>)
<1>1. Dests(e) \in Nat /\ Len(<<>>) = 0 /\ DOMAIN <<>> = {}
  BY RouteType
<1>2. Dests(e) > 1 => Caches(g, <<>>, Dests(e)) /\ Len(g) = Dests(e) - Len(<<>>)
  BY <1>1 DEF Caches
<1> QED
  BY <1>1, <1>2 DEF Collects

\* Before the first result there is nothing to tell.
LEMMA FreshFaithful ==
    ASSUME NEW e \in Ext, Dests(e) >= 1, NEW handler
    PROVE  Faithful(<<>>, handler, Expected(e, <<>>))
<1>1. Expected(e, <<>>) = <<>>
  <2>1. Dests(e) \in Nat /\ Len(<<>>) = 0 /\ DOMAIN <<>> = {} /\ <<>> \in Seq(Hearing)
    BY RouteType
  <2>2. CASE Dests(e) > 1 /\ ~Each(e)
    <3>1. PICK h \in Seq(Hearing) : h = <<>>
      BY <2>1
    <3>2. Len(h) < Dests(e) /\ \A k \in DOMAIN h : h[k].ok
      BY <2>1, <2>2, <3>1
    <3>3. Expected(e, h) = <<>>
      BY <2>2, <3>2, ExpectedNone
    <3> QED
      BY <3>1, <3>3
  <2>3. CASE Dests(e) = 1
    BY <2>1, <2>3 DEF Expected, Dests
  <2>4. CASE Dests(e) > 1 /\ Each(e)
    BY <2>1, <2>4 DEF Expected, Dests, Each
  <2> QED
    BY <2>1, <2>2, <2>3, <2>4
<1>2. Shown(handler, <<>>) = <<>>
  BY DEF Shown
<1> QED
  BY <1>1, <1>2 DEF Faithful

\* A send call is recorded, and the others are left alone.
LEMMA SendsRecord ==
    ASSUME TypeOK, PathsOfSender, HeardInv, RecordInv, NEW e \in Ext, NEW i \in Id,
           NEW h \in HandlerKinds, NEW fresh \in 1 .. MaxId + 1, Sends(e, i, h, fresh)
    PROVE  RecordInv'
<1> SUFFICES ASSUME ResultsGoHome' PROVE Record'
  BY DEF RecordInv
<1>a. ResultsGoHome /\ Record
  <2>1. ResultsGoHome
    BY DEF ResultsGoHome, Sends
  <2> QED
    BY <2>1 DEF RecordInv
<1>0. PICK c \in Ctx : c = Len(sent) + 1
  BY DEF Sends, Launch
<1> DEFINE n == Dests(e)
           pid(k) == IF k = 1 THEN i ELSE fresh + (k - 2)
           new == {[id |-> pid(k), orig |-> IF k = 1 THEN NoId ELSE i,
                    handler |-> h, ctx |-> c] : k \in DOMAIN Route[e]}
           g == IF n > 1 THEN [k \in DOMAIN Route[e] |-> [id |-> pid(k), cached |-> "none"]]
                ELSE <<>>
<1>1. /\ n # 0 /\ c \in Ctx
      /\ sent' = Append(sent, [by |-> e, handler |-> h])
      /\ outPaths' = [outPaths EXCEPT ![e] = @ \cup new]
      /\ group' = [group EXCEPT ![c] = g]
      /\ heard' = heard /\ told' = told
  BY <1>0 DEF Sends, Launch, Dests
<1>2. /\ Len(sent) \in Nat /\ Len(sent') = c
      /\ sent'[c] = [by |-> e, handler |-> h]
      /\ \A d \in 1 .. Len(sent) : sent'[d] = sent[d] /\ sent[d].by \in Ext
  <2> DEFINE S == [by : Ext, handler : HandlerKinds]
             x == [by |-> e, handler |-> h]
  <2>1. x \in S /\ sent \in Seq(S) /\ \A r \in S : r.by \in Ext
    BY DEF TypeOK
  <2>2. sent' = Append(sent, x)
    BY <1>1
  <2> HIDE DEF S, x
  <2>3. /\ Len(sent) \in Nat /\ DOMAIN sent = 1 .. Len(sent) /\ Len(sent') = Len(sent) + 1
        /\ \A k \in 1 .. Len(sent) : sent'[k] = sent[k]
        /\ sent'[Len(sent) + 1] = x
    BY <2>1, <2>2, AppendHearing
  <2>4. \A d \in 1 .. Len(sent) : sent[d] \in S
    BY <2>1, <2>3
  <2> QED
    BY <1>0, <2>1, <2>3, <2>4 DEF x
<1>3. group'[c] = g /\ \A d \in Ctx : d # c => group'[d] = group[d]
  <2> HIDE DEF g
  <2> QED
    BY <1>1 DEF TypeOK
<1>4. \A r \in new : r.ctx = c
  OBVIOUS
<1>5. \A x \in Ext : outPaths'[x] = IF x = e THEN outPaths[e] \cup new ELSE outPaths[x]
  <2> HIDE DEF new
  <2> QED
    BY <1>1 DEF TypeOK
<1>6. Dests(e) >= 1 /\ n \in Nat /\ DOMAIN Route[e] = 1 .. n
  BY <1>1, RouteType
<1>7. Collects(e, g, <<>>)
  <2>1. n = 1 => g = <<>>
    OBVIOUS
  <2>2. n > 1 => Len(g) = n /\ \A k \in 1 .. n : g[k].cached = "none"
    <3> SUFFICES ASSUME n > 1 PROVE Len(g) = n /\ \A k \in 1 .. n : g[k].cached = "none"
      OBVIOUS
    <3>1. g = [k \in 1 .. n |-> [id |-> pid(k), cached |-> "none"]]
      BY <1>6
    <3>2. \A k \in 1 .. n : g[k] = [id |-> pid(k), cached |-> "none"]
      BY <3>1
    <3> HIDE DEF pid, n
    <3> QED
      BY <1>6, <3>1, <3>2
  <2> HIDE DEF g
  <2> QED
    BY <1>6, <2>1, <2>2, FreshCollects
<1> HIDE DEF new, g, n
<1>8. \A x \in Ext, d \in Ctx : d # c => PathsOfCtx(x, d)' = PathsOfCtx(x, d)
  <2>1. ASSUME NEW x \in Ext, NEW d \in Ctx, d # c
        PROVE  {p \in outPaths'[x] : p.ctx = d} = {p \in outPaths[x] : p.ctx = d}
    <3>1. CASE x = e
      BY <1>4, <1>5, <2>1, <3>1
    <3>2. CASE x # e
      BY <1>5, <3>2
    <3> QED
      BY <3>1, <3>2
  <2> QED
    BY <2>1 DEF PathsOfCtx
<1>9. heard[c] = <<>> /\ told[c] = <<>>
  BY <1>0, <1>1, <1>2, <1>a DEF HeardInv, Record, ToldType
<1>10. ToldType'
  <2>1. \A d \in Ctx : d > Len(sent') => d > Len(sent)
    BY <1>0, <1>2 DEF Ctx
  <2> QED
    BY <1>1, <1>a, <2>1 DEF Record, ToldType
<1>11. \A d \in Ctx : d <= Len(sent') => Kept(d)'
  <2>2. Kept(c)'
    <3>1. sent'[c].by = e /\ heard'[c] = <<>> /\ told'[c] = <<>>
      BY <1>1, <1>2, <1>9
    <3>2. Collects(e, group'[c], heard'[c])
      BY <1>3, <1>7, <3>1
    <3>3. Faithful(told'[c], sent'[c].handler, Expected(e, heard'[c]))
      BY <1>6, <3>1, FreshFaithful
    <3>4. Collects(sent'[c].by, group'[c], heard'[c])
      BY <3>1, <3>2
    <3>5. Faithful(told'[c], sent'[c].handler, Expected(sent'[c].by, heard'[c]))
      BY <3>1, <3>3
    <3> QED
      BY <3>4, <3>5 DEF Kept
  <2>3. ASSUME NEW d \in Ctx, d <= Len(sent), Kept(d)
        PROVE  Kept(d)'
    <3>1. d \in 1 .. Len(sent) /\ d # c
      BY <1>0, <1>2, <2>3 DEF Ctx
    <3>2. /\ sent'[d] = sent[d] /\ sent[d].by \in Ext /\ group'[d] = group[d]
          /\ heard'[d] = heard[d] /\ told'[d] = told[d]
      BY <1>1, <1>2, <1>3, <3>1
    <3>3. PathsOfCtx(sent[d].by, d)' = PathsOfCtx(sent[d].by, d)
      <4> DEFINE f == sent[d].by
      <4>1. sent'[d].by = f /\ f \in Ext
        BY <3>2
      <4>2. outPaths'[f] = outPaths[f] \/ (f = e /\ outPaths'[f] = outPaths[f] \cup new)
        BY <1>5, <4>1
      <4>3. {p \in outPaths'[f] : p.ctx = d} = {p \in outPaths[f] : p.ctx = d}
        BY <1>4, <3>1, <4>2
      <4> QED
        BY <4>1, <4>3 DEF PathsOfCtx
    <3> QED
      BY <2>3, <3>2, <3>3 DEF Kept
  <2>4. ASSUME NEW d \in Ctx, d <= Len(sent') PROVE d = c \/ d <= Len(sent)
    BY <1>0, <1>2, <2>4 DEF Ctx
  <2> QED
    BY <1>a, <2>2, <2>3, <2>4 DEF Record
<1> QED
  BY <1>10, <1>11 DEF Record

\* A send call that was made was made by an extension.
LEMMA SenderKnown ==
    ASSUME TypeOK, NEW d \in Ctx, d <= Len(sent)
    PROVE  sent[d].by \in Ext
<1>1. d \in 1 .. Len(sent) /\ sent \in Seq([by : Ext, handler : HandlerKinds])
  BY BoundAssumption DEF TypeOK, Ctx
<1>2. ASSUME NEW S, NEW s \in Seq(S), NEW k \in 1 .. Len(s)
      PROVE  s[k] \in S
  OBVIOUS
<1>3. sent[d] \in [by : Ext, handler : HandlerKinds]
  BY <1>1, <1>2
<1> QED
  BY <1>3

\* A result that is taken is recorded.
LEMMA HearsRecord ==
    ASSUME TypeOK, Tables, HeardInv, Tokens, RecordInv, NEW e \in Ext, NEW m \in ResultMsg,
           Hears(e, m)
    PROVE  RecordInv'
<1>1. PICK left : TakeResult(e, m, left)
  BY DEF Hears
<1>2. CASE UNCHANGED <<pathVars, live, histVars>>
  <2>1. Quiet
    BY <1>2 DEF Hears, Quiet, pathVars, histVars
  <2> QED
    BY <2>1, QuietRecord
<1>3. ASSUME NEW p \in FirstOutPath(e, m.id), ResultsGoHome',
             heard' = [heard EXCEPT ![p.ctx] = Append(@,
                        [id |-> m.id, ok |-> m.ok, final |-> m.final,
                         of |-> m.ctx])],
             \/ DecideSingle(e, p, m.ok, m.final, left)
             \/ KeepInGroup(e, p, m.ok, left)
             \/ DecideGroup(e, p, m.ok, left)
      PROVE  Record'
  <2> DEFINE c == p.ctx
             h == heard[c]
             x == HearingOf(m)
  <2>1. p \in outPaths[e] /\ p.id = m.id /\ sent' = sent
    BY DEF FirstOutPath, Oldest, Hears
  <2>2. c \in Ctx /\ p \in PathsOfCtx(e, c)
    BY <2>1, OutPathFields DEF TypeOK, PathsOfCtx
  <2>3. c <= Len(sent) /\ sent[c].by = e /\ sent[c].handler = p.handler
    BY <2>1, SenderOfPath DEF Tables
  <2>4. heard' = [heard EXCEPT ![c] = Append(@, x)] /\ x \in Hearing
    BY <1>3, HearingType DEF HearingOf
  <2>5. /\ heard'[c] = Append(h, x) /\ h \in Seq(Hearing)
        /\ \A d \in Ctx : d # c => heard'[d] = heard[d]
        /\ \A k \in DOMAIN h : k \in DOMAIN heard'[c] /\ heard'[c][k] = h[k]
    <3> HIDE DEF x
    <3> QED
      BY <2>2, <2>4, HeardOnce
  <2>6. ResultsGoHome
    <3> SUFFICES ASSUME NEW d \in Ctx, NEW k \in DOMAIN heard[d]
                 PROVE  heard[d][k].of = d
      BY DEF ResultsGoHome
    <3>1. k \in DOMAIN heard'[d] /\ heard'[d][k] = heard[d][k]
      BY <2>5
    <3> QED
      BY <1>3, <3>1 DEF ResultsGoHome
  <2>7. m.ctx = c
    <3>1. Len(h) + 1 \in DOMAIN heard'[c] /\ heard'[c][Len(h) + 1] = x
      <4> HIDE DEF x
      <4> QED
        BY <2>4, <2>5, AppendHearing
    <3>2. x.of = c
      BY <1>3, <2>2, <3>1 DEF ResultsGoHome
    <3> QED
      BY <3>2 DEF HearingOf
  <2>8. ToldType /\ Kept(c) /\ \A d \in Ctx : d <= Len(sent) => Kept(d)
    BY <2>2, <2>3, <2>6 DEF RecordInv, Record
  <2>9. Serves(e, m, p)
    BY <1>3, <2>1, <2>2, <2>3, <2>4, <2>8 DEF Serves, Kept
  <2>10. FirstOk(e, m, p)
    <3> SUFFICES ASSUME m.ok, Dests(e) > 1, NEW j \in DOMAIN h, h[j].ok, h[j].id = m.id
                 PROVE  FALSE
      BY DEF FirstOk
    <3>1. Streamers = {}
      BY RouteType, StreamingAssumption DEF Dests
    <3>2. h[j].of = c
      BY <2>2, <2>6 DEF ResultsGoHome
    <3>3. HeardOk(c, m.id)
      BY <3>2 DEF HeardOk
    <3>4. AllFinal /\ Gone(c, m.id)
      BY <2>2, <3>1, <3>3 DEF Tokens, ResultMsg
    <3> QED
      BY <2>7, <3>4 DEF Hears
  <2>11. Served(e, p)
    BY <1>3, <2>8, <2>9, <2>10, SingleServed, KeepServed, DecideServed
  <2> HIDE DEF c, h, x
  <2>12. /\ PathsOfCtx(e, c)' # {} => Collects(e, group'[c], heard'[c])
         /\ p.handler # "none" => Faithful(told'[c], p.handler, Expected(e, heard'[c]))
         /\ told' \in [Ctx -> Seq(Telling)]
         /\ \A d \in Ctx : d # c => group'[d] = group[d] /\ told'[d] = told[d]
         /\ \A f \in Ext, d \in Ctx : d # c => PathsOfCtx(f, d)' = PathsOfCtx(f, d)
    BY <2>11 DEF Served, c
  <2>13. PICK b \in Ctx : b = c
    BY <2>2
  <2>14. Kept(b)'
    <3>1. sent'[b].by = e /\ sent'[b].handler = p.handler
      BY <2>1, <2>3, <2>13
    <3> QED
      BY <2>12, <2>13, <3>1 DEF Kept, PathsOfCtx
  <2>15. ASSUME NEW d \in Ctx, d # c, d <= Len(sent)
         PROVE  Kept(d)'
    <3>1. /\ sent'[d] = sent[d] /\ group'[d] = group[d] /\ told'[d] = told[d]
          /\ heard'[d] = heard[d]
      BY <2>1, <2>5, <2>12, <2>15
    <3>2. sent[d].by \in Ext
      BY <2>15, SenderKnown
    <3>3. PathsOfCtx(sent[d].by, d)' = PathsOfCtx(sent[d].by, d)
      <4>1. PICK f \in Ext : f = sent[d].by
        BY <3>2
      <4>2. PathsOfCtx(f, d)' = PathsOfCtx(f, d)
        BY <2>12, <2>15
      <4> QED
        BY <3>1, <4>1, <4>2 DEF PathsOfCtx
    <3>4. Kept(d)
      BY <2>8, <2>15
    <3> QED
      BY <3>1, <3>3, <3>4 DEF Kept
  <2>16. ToldType'
    <3>1. \A d \in Ctx : d > Len(sent) => d # c
      BY <2>2, <2>3 DEF TypeOK, Ctx
    <3> QED
      BY <2>1, <2>8, <2>12, <3>1 DEF ToldType
  <2> QED
    BY <2>1, <2>13, <2>14, <2>15, <2>16 DEF Record
<1> QED
  BY <1>1, <1>2, <1>3 DEF TakeResult, RecordInv

\* Initially nothing is recorded.
LEMMA RecordInit == Init => RecordInv
<1> SUFFICES ASSUME Init PROVE Record
  BY DEF RecordInv
<1>1. \A c \in Ctx : told[c] = <<>> /\ sent = <<>>
  BY DEF Init
<1>2. ToldType
  BY <1>1 DEF Init, ToldType
<1>3. \A c \in Ctx : ~(c <= Len(sent))
  BY <1>1 DEF Ctx
<1> QED
  BY <1>2, <1>3 DEF Record

\* Every step keeps the record.
LEMMA RecordStep ==
    ASSUME TypeOK, IdsIssued, Tables, MsgsHome, HeardInv, Tokens, RecordInv, [Next]_vars
    PROVE  RecordInv'
BY StepKinds, QuietRecord, SendsRecord, HearsRecord DEF Tables

\* What is recorded is what PolicyVerdict asks for.
LEMMA RecordVerdict == TypeOK /\ Record => PolicyVerdict
<1> SUFFICES ASSUME TypeOK, Record, NEW c \in DOMAIN sent, sent[c].handler # "none"
             PROVE  Faithful(told[c], sent[c].handler, Expected(sent[c].by, heard[c]))
  BY DEF PolicyVerdict
<1>1. c \in Ctx /\ c <= Len(sent)
  BY BoundAssumption DEF TypeOK, Ctx
<1> QED
  BY <1>1 DEF Record, Kept

\* The handlers are told what the result return policy promises as long as every
\* result reaches the path of its own send call: whatever the order of results,
\* timeouts and flushes, each member of a group gets one result and the context
\* goes with the last one that is told (path/path_group.c:133-229,
\* path/path_table.c:475-565, extension/msg_handling.c:103-158).
THEOREM VerdictsFollow == Spec => [](ResultsGoHome => PolicyVerdict)
<1>1. Init => MsgsHome /\ HeardInv /\ Tokens /\ RecordInv
  BY HomeInit, TokensInit, RecordInit
<1>2. IInv /\ MsgsHome /\ HeardInv /\ Tokens /\ RecordInv /\ [Next]_vars
      => MsgsHome' /\ HeardInv' /\ Tokens' /\ RecordInv'
  BY HomeStep, HeardStep, TokensStep, RecordStep DEF IInv, PathInv, Tables
<1>3. IInv /\ RecordInv => (ResultsGoHome => PolicyVerdict)
  BY RecordVerdict DEF IInv, RecordInv
<1> QED
  BY <1>1, <1>2, <1>3, PathInvariant, PTL DEF Spec

-----------------------------------------------------------------------------
\* Results stay with their send calls when the graph has no loops.

\* All messages under way belong to G and all IN paths to Q.
Within(G, Q) ==
    /\ pending \in [Ext -> Seq(G)]
    /\ queue \in [Thread -> Seq(G \cup {CloseTask})]
    /\ engineQueue \in Seq(G)
    /\ direct \in [Thread -> Seq(G)]
    /\ inPaths \in [Ext -> SUBSET Q]

\* What becomes of a command of G is an IN path of Q or a result of G, and what
\* becomes of an IN path of Q is a result of G.
Closed(G, Q) ==
    /\ G \subseteq Msg /\ Q \subseteq InPath
    /\ \A p \in Q, ok \in BOOLEAN, final \in BOOLEAN :
         Result(Reverted(p), p.ctx, p.src, ok, final) \in G
    /\ \A m \in G : m.kind = "cmd" => Result(m.id, m.ctx, m.src, FALSE, TRUE) \in G
    /\ \A m \in G, p \in InPath :
         m.kind = "cmd" /\ Reverted(p) = m.id /\ p.ctx = m.ctx /\ p.src = m.src
           => p \in Q

\* Thread t dispatches results of G and what it had left.
ResultsIn(G) == {m \in G : m.kind = "result"}
Replies(G, t, left) == \E s \in Seq(ResultsIn(G)) : Emit(t, s, left)

\* No result, or one, to dispatch.
LEMMA FewReplies ==
    ASSUME NEW G, NEW t, NEW left,
           \/ Emit(t, <<>>, left)
           \/ \E m \in G : m.kind = "result" /\ Emit(t, <<m>>, left)
    PROVE  Replies(G, t, left)
<1>1. <<>> \in Seq(ResultsIn(G)) /\ \A m \in ResultsIn(G) : <<m>> \in Seq(ResultsIn(G))
  OBVIOUS
<1> QED
  BY <1>1 DEF Replies, ResultsIn

\* A result that is returned comes from an IN path.
LEMMA ReturnToWithin ==
    ASSUME NEW e \in Ext, NEW i, NEW ok \in BOOLEAN,
           NEW final \in BOOLEAN, NEW left, ReturnTo(e, i, ok, final, left),
           NEW G, NEW Q, Closed(G, Q), inPaths \in [Ext -> SUBSET Q]
    PROVE  Replies(G, ThreadOf[e], left) /\ inPaths' \in [Ext -> SUBSET Q]
<1>1. CASE Emit(ThreadOf[e], <<>>, left) /\ UNCHANGED inPaths
  BY <1>1, FewReplies
<1>2. ASSUME NEW p \in InPathsOf(e, i),
             inPaths' = IF final THEN [inPaths EXCEPT ![e] = @ \ {p}] ELSE inPaths,
             Emit(ThreadOf[e], <<Result(Reverted(p), p.ctx, p.src, ok, final)>>,
                  left)
      PROVE  Replies(G, ThreadOf[e], left) /\ inPaths' \in [Ext -> SUBSET Q]
  <2> DEFINE r == Result(Reverted(p), p.ctx, p.src, ok, final)
  <2>1. p \in Q
    BY DEF InPathsOf
  <2>2. r \in G /\ r.kind = "result"
    BY <2>1 DEF Closed, Result
  <2>3. inPaths' \in [Ext -> SUBSET Q]
    BY <1>2
  <2>4. Emit(ThreadOf[e], <<r>>, left)
    BY <1>2
  <2> HIDE DEF r
  <2> QED
    BY <2>2, <2>3, <2>4, FewReplies
<1> QED
  BY <1>1, <1>2 DEF ReturnTo

\* So does one that is given to the extension and returned along a path.
LEMMA DeliverWithin ==
    ASSUME NEW e \in Ext, NEW p, NEW ok \in BOOLEAN,
           NEW final \in BOOLEAN, NEW completed, NEW left,
           Deliver(e, p, ok, final, completed, left),
           NEW G, NEW Q, Closed(G, Q), inPaths \in [Ext -> SUBSET Q]
    PROVE  Replies(G, ThreadOf[e], left) /\ inPaths' \in [Ext -> SUBSET Q]
<1>1. PICK seen \in BOOLEAN :
        \/ Emit(ThreadOf[e], <<>>, left) /\ UNCHANGED inPaths
        \/ ReturnTo(e, Reverted(p), seen, final, left)
  <2>1. \A x \in {ok} \cup (IF SchemaErrors THEN {FALSE} ELSE {}) : x \in BOOLEAN
    OBVIOUS
  <2> QED
    BY <2>1 DEF Deliver, Refused
<1>2. CASE Emit(ThreadOf[e], <<>>, left) /\ UNCHANGED inPaths
  BY <1>2, FewReplies
<1>3. CASE ReturnTo(e, Reverted(p), seen, final, left)
  BY <1>3, ReturnToWithin
<1> QED
  BY <1>1, <1>2, <1>3

\* So does what comes of a result that is taken.
LEMMA TakeResultWithin ==
    ASSUME NEW e \in Ext, NEW m \in ResultMsg, NEW left, TakeResult(e, m, left),
           NEW G, NEW Q, Closed(G, Q), inPaths \in [Ext -> SUBSET Q]
    PROVE  Replies(G, ThreadOf[e], left) /\ inPaths' \in [Ext -> SUBSET Q]
<1>0. m.ok \in BOOLEAN /\ m.final \in BOOLEAN
  BY DEF ResultMsg
<1>1. ASSUME NEW p, DecideSingle(e, p, m.ok, m.final, left)
      PROVE  Replies(G, ThreadOf[e], left) /\ inPaths' \in [Ext -> SUBSET Q]
  <2>1. Deliver(e, p, m.ok, m.final, m.final, left)
    BY <1>1 DEF DecideSingle
  <2> QED
    BY <1>0, <2>1, DeliverWithin
<1>2. ASSUME NEW p, KeepInGroup(e, p, m.ok, left)
      PROVE  Replies(G, ThreadOf[e], left) /\ inPaths' \in [Ext -> SUBSET Q]
  BY <1>2, FewReplies DEF KeepInGroup
<1>3. ASSUME NEW p, DecideGroup(e, p, m.ok, left)
      PROVE  Replies(G, ThreadOf[e], left) /\ inPaths' \in [Ext -> SUBSET Q]
  <2>1. PICK k \in DOMAIN group[p.ctx], q \in PathsOfCtx(e, p.ctx) :
          LET a    == Answered(group[p.ctx], k, m.ok)
              w    == Resolve(Policy[e], a)
              rest == LeftInGroup(Policy[e], a, w)
          IN  Deliver(e, q, a[w].cached = "ok", TRUE, rest = <<>>, left)
    BY <1>3 DEF DecideGroup
  <2>2. PICK ok \in BOOLEAN, final \in BOOLEAN, completed \in BOOLEAN :
          Deliver(e, q, ok, final, completed, left)
    BY <2>1
  <2> QED
    BY <2>2, DeliverWithin
<1>4. CASE Emit(ThreadOf[e], <<>>, left) /\ UNCHANGED inPaths
  BY <1>4, FewReplies
<1> QED
  BY <1>1, <1>2, <1>3, <1>4 DEF TakeResult, pathVars

\* A command that is taken becomes an IN path or is answered.
LEMMA TakeCmdWithin ==
    ASSUME TypeOK, NEW e \in Ext, NEW m \in CmdMsg, NEW left, TakeCmd(e, m, left),
           NEW G, NEW Q, Closed(G, Q), inPaths \in [Ext -> SUBSET Q], m \in G
    PROVE  Replies(G, ThreadOf[e], left) /\ inPaths' \in [Ext -> SUBSET Q]
<1> DEFINE again == InPathsOf(e, m.id) # {}
           p == [id |-> IF again THEN nextId ELSE m.id,
                 orig |-> IF again THEN m.id ELSE NoId,
                 src |-> m.src, ctx |-> m.ctx]
           r == Result(m.id, m.ctx, m.src, FALSE, TRUE)
<1>1. m.id \in Id /\ m.ctx \in Ctx /\ m.src \in Ext /\ m.kind = "cmd"
  BY DEF CmdMsg
<1>2. \/ /\ inPaths' = [inPaths EXCEPT ![e] = @ \cup {p}]
         /\ again => nextId \in Id
         /\ Emit(ThreadOf[e], <<>>, left)
      \/ /\ Emit(ThreadOf[e], <<r>>, left)
         /\ UNCHANGED inPaths
  BY DEF TakeCmd
<1>3. CASE /\ inPaths' = [inPaths EXCEPT ![e] = @ \cup {p}]
           /\ again => nextId \in Id
           /\ Emit(ThreadOf[e], <<>>, left)
  <2>1. p \in InPath /\ Reverted(p) = m.id /\ p.ctx = m.ctx /\ p.src = m.src
    BY <1>1, <1>3 DEF InPath, Reverted, NoId, Id
  <2>2. p \in Q
    <3> HIDE DEF p
    <3> QED
      BY <1>1, <2>1 DEF Closed
  <2> HIDE DEF p
  <2> QED
    BY <1>3, <2>2, FewReplies
<1>4. CASE Emit(ThreadOf[e], <<r>>, left) /\ UNCHANGED inPaths
  <2>1. r \in G /\ r.kind = "result"
    BY <1>1 DEF Closed, Result
  <2> HIDE DEF r
  <2> QED
    BY <1>4, <2>1, FewReplies
<1> HIDE DEF p, r
<1> QED
  BY <1>2, <1>3, <1>4

\* A message that is handled.
LEMMA HandleInMsgWithin ==
    ASSUME TypeOK, NEW e \in Ext, NEW m \in Msg, NEW left, HandleInMsg(e, m, left),
           NEW G, NEW Q, Closed(G, Q), inPaths \in [Ext -> SUBSET Q],
           pending \in [Ext -> Seq(G)], m \in G
    PROVE  /\ Replies(G, ThreadOf[e], left) /\ inPaths' \in [Ext -> SUBSET Q]
           /\ pending' \in [Ext -> Seq(G)]
<1>1. CASE /\ pending' = [pending EXCEPT ![e] = Append(@, m)]
           /\ Emit(ThreadOf[e], <<>>, left)
           /\ UNCHANGED <<pathVars, live, held, nextId, histVars>>
  BY <1>1, FewReplies DEF pathVars
<1>2. CASE m.kind = "result" /\ TakeResult(e, m, left) /\ UNCHANGED pending
  BY <1>2, MsgFields, TakeResultWithin
<1>3. CASE m.kind = "cmd" /\ TakeCmd(e, m, left) /\ UNCHANGED pending
  BY <1>3, MsgFields, TakeCmdWithin
<1>4. CASE Emit(ThreadOf[e], <<>>, left) /\ UNCHANGED <<inPaths, pending>>
  BY <1>4, FewReplies
<1>5. CASE Refuse(ThreadOf[e], m, left) /\ UNCHANGED <<inPaths, pending>>
  <2> DEFINE r == Result(m.id, m.ctx, m.src, FALSE, TRUE)
  <2>1. m.kind = "cmd" => r \in G /\ r.kind = "result"
    BY DEF Closed, Result
  <2>2. \/ Emit(ThreadOf[e], <<>>, left)
        \/ m.kind = "cmd" /\ Emit(ThreadOf[e], <<r>>, left)
    BY <1>5 DEF Refuse
  <2> HIDE DEF r
  <2> QED
    BY <1>5, <2>1, <2>2, FewReplies
<1> QED
  BY <1>1, <1>2, <1>3, <1>4, <1>5 DEF HandleInMsg, pathVars

\* What is dispatched is under way.
LEMMA RepliesWithin ==
    ASSUME NEW G, NEW t \in Thread, NEW left \in Seq(G), Replies(G, t, left),
           engineQueue \in Seq(G), direct \in [Thread -> Seq(G)]
    PROVE  engineQueue' \in Seq(G) /\ direct' \in [Thread -> Seq(G)]
<1>1. PICK s \in Seq(ResultsIn(G)) : Emit(t, s, left)
  BY DEF Replies
<1>2. s \in Seq(G)
  BY DEF ResultsIn
<1> QED
  BY <1>1, <1>2, EmitSeq

\* A step in which no command is sent stays within G and Q.
LEMMA StepWithin ==
    ASSUME TypeOK, [Next]_vars, NEW G, NEW Q, Closed(G, Q), Within(G, Q)
    PROVE  \/ Within(G, Q)'
           \/ \E e \in Ext, h \in HandlerKinds : Send(e, h)
           \/ \E e \in Ext, h \in HandlerKinds : \E i \in held[e] : Forward(e, i, h)
<1> DEFINE Goal == \/ Within(G, Q)'
                   \/ \E e \in Ext, h \in HandlerKinds : Send(e, h)
                   \/ \E e \in Ext, h \in HandlerKinds : \E i \in held[e] : Forward(e, i, h)
<1>0. /\ pending \in [Ext -> Seq(G)] /\ queue \in [Thread -> Seq(G \cup {CloseTask})]
      /\ engineQueue \in Seq(G) /\ direct \in [Thread -> Seq(G)]
      /\ inPaths \in [Ext -> SUBSET Q]
      /\ <<>> \in Seq(G) /\ \A m \in G : m \in Msg
  BY DEF Within, Closed
<1>1. CASE EngineDispatch
  <2>1. /\ Head(engineQueue) \in G /\ Tail(engineQueue) \in Seq(G)
        /\ engineQueue' = Tail(engineQueue)
        /\ UNCHANGED <<inPaths, pending, direct>>
    BY <1>0, <1>1 DEF EngineDispatch, pathVars
  <2>2. PICK m \in G : m = Head(engineQueue)
    BY <2>1
  <2>3. ThreadOf[m.dst] \in Thread
    BY <1>0, MsgFields, ThreadType
  <2>4. queue' = queue \/ queue' = [queue EXCEPT ![ThreadOf[m.dst]] = Append(@, m)]
    BY <1>1, <2>2 DEF EngineDispatch
  <2>5. queue' \in [Thread -> Seq(G \cup {CloseTask})]
    <3>1. \A t \in Thread : Append(queue[t], m) \in Seq(G \cup {CloseTask})
      BY <1>0
    <3> QED
      BY <1>0, <2>3, <2>4, <3>1
  <2> QED
    BY <1>0, <2>1, <2>5 DEF Within
<1>2. CASE EngineClose
  BY <1>0, <1>2 DEF EngineClose, Within, pathVars, netVars
<1>3. CASE CloseThreads
  <2>1. \A t \in Thread : Append(queue[t], CloseTask) \in Seq(G \cup {CloseTask})
    BY <1>0
  <2>2. queue' \in [Thread -> Seq(G \cup {CloseTask})]
    BY <1>3, <2>1 DEF CloseThreads
  <2> QED
    BY <1>0, <1>3, <2>2 DEF CloseThreads, Within, pathVars
<1>4. ASSUME NEW t \in Thread, HandleDirect(t) PROVE Goal
  <2>1. /\ Head(direct[t]) \in G /\ Tail(direct[t]) \in Seq(G) /\ queue' = queue
    BY <1>0, <1>4 DEF HandleDirect
  <2>2. PICK m \in G : m = Head(direct[t])
    BY <2>1
  <2>3. HandleInMsg(m.dst, m, Tail(direct[t])) /\ m \in Msg /\ m.dst \in Ext
    BY <1>0, <1>4, <2>2, MsgFields DEF HandleDirect
  <2>4. /\ Replies(G, ThreadOf[m.dst], Tail(direct[t]))
        /\ inPaths' \in [Ext -> SUBSET Q] /\ pending' \in [Ext -> Seq(G)]
    BY <1>0, <2>3, HandleInMsgWithin
  <2>5. engineQueue' \in Seq(G) /\ direct' \in [Thread -> Seq(G)]
    BY <1>0, <2>1, <2>3, <2>4, RepliesWithin, ThreadType
  <2> QED
    BY <1>0, <2>1, <2>4, <2>5 DEF Within
<1>4a. ASSUME NEW t \in Thread, DispatchLeft(t) PROVE Goal
  <2>1. Head(direct[t]) \in G /\ Tail(direct[t]) \in Seq(G)
    BY <1>0, <1>4a DEF DispatchLeft
  <2>2. engineQueue' \in Seq(G) /\ direct' \in [Thread -> Seq(G)]
    BY <1>0, <1>4a, <2>1 DEF DispatchLeft
  <2> QED
    BY <1>0, <1>4a, <2>2 DEF DispatchLeft, Within, pathVars
<1>5. ASSUME NEW t \in Thread, Receive(t) PROVE Goal
  <2>1. /\ Head(queue[t]) \in G \cup {CloseTask}
        /\ queue' = [queue EXCEPT ![t] = Tail(@)]
        /\ Tail(queue[t]) \in Seq(G \cup {CloseTask})
    BY <1>0, <1>5 DEF Receive
  <2>2. queue' \in [Thread -> Seq(G \cup {CloseTask})]
    BY <1>0, <2>1
  <2>3. PICK m \in G \cup {CloseTask} : m = Head(queue[t])
    BY <2>1
  <2>4. CASE m.kind # "close" /\ HandleInMsg(m.dst, m, <<>>)
    <3>1. m \in G /\ m \in Msg /\ m.dst \in Ext
      BY <1>0, <2>4, MsgFields DEF CloseTask
    <3>2. /\ Replies(G, ThreadOf[m.dst], <<>>)
          /\ inPaths' \in [Ext -> SUBSET Q] /\ pending' \in [Ext -> Seq(G)]
      BY <1>0, <2>4, <3>1, HandleInMsgWithin
    <3>3. engineQueue' \in Seq(G) /\ direct' \in [Thread -> Seq(G)]
      BY <1>0, <3>1, <3>2, RepliesWithin, ThreadType
    <3> QED
      BY <2>2, <3>2, <3>3 DEF Within
  <2>5. CASE UNCHANGED <<pathVars, pending, engineQueue, direct>>
    BY <1>0, <2>2, <2>5 DEF Within, pathVars
  <2> QED
    BY <1>5, <2>3, <2>4, <2>5 DEF Receive
<1>6. ASSUME NEW e \in Ext, NEW h \in Handlers, Send(e, h) PROVE Goal
  BY <1>6, ActorsAssumption
<1>7. ASSUME NEW e \in Ext, NEW i \in held[e], NEW h \in Handlers, Forward(e, i, h)
      PROVE  Goal
  BY <1>7, ActorsAssumption
<1>8. ASSUME NEW e \in Ext, NEW left \in Seq(G), Replies(G, ThreadOf[e], left),
             inPaths' \in [Ext -> SUBSET Q], UNCHANGED <<pending, queue>>
      PROVE  Goal
  <2>1. engineQueue' \in Seq(G) /\ direct' \in [Thread -> Seq(G)]
    BY <1>0, <1>8, RepliesWithin, ThreadType
  <2> QED
    BY <1>0, <1>8, <2>1 DEF Within
<1>9. ASSUME NEW e \in Ext, NEW i \in held[e],
             \/ \E ok \in BOOLEAN : ReturnResult(e, i, ok)
             \/ ReturnPartial(e, i)
      PROVE  Goal
  <2>1. PICK ok \in BOOLEAN, final \in BOOLEAN : ReturnTo(e, i, ok, final, direct[ThreadOf[e]])
    BY <1>9 DEF ReturnResult, ReturnPartial
  <2>2. direct[ThreadOf[e]] \in Seq(G)
    BY <1>0, ThreadType
  <2>3. Replies(G, ThreadOf[e], direct[ThreadOf[e]]) /\ inPaths' \in [Ext -> SUBSET Q]
    BY <1>0, <2>1, ReturnToWithin
  <2>4. UNCHANGED <<pending, queue>>
    BY <1>9 DEF ReturnResult, ReturnPartial
  <2> QED
    BY <1>8, <2>2, <2>3, <2>4
<1>10. ASSUME NEW e \in Ext, ReceivePending(e) PROVE Goal
  <2>1. /\ Head(pending[e]) \in G /\ Head(pending[e]) \in CmdMsg /\ queue' = queue
        /\ pending' \in [Ext -> Seq(G)]
    BY <1>0, <1>10 DEF ReceivePending, TypeOK
  <2>2. PICK m \in CmdMsg : m = Head(pending[e])
    BY <2>1
  <2>3. TakeCmd(e, m, <<>>) /\ m \in G
    BY <1>10, <2>1, <2>2 DEF ReceivePending
  <2>4. Replies(G, ThreadOf[e], <<>>) /\ inPaths' \in [Ext -> SUBSET Q]
    BY <1>0, <2>3, TakeCmdWithin
  <2>5. engineQueue' \in Seq(G) /\ direct' \in [Thread -> Seq(G)]
    BY <1>0, <2>4, RepliesWithin, ThreadType
  <2> QED
    BY <1>0, <2>1, <2>4, <2>5 DEF Within
<1>11. ASSUME NEW e \in Ext, \/ \E p \in inPaths[e] : InPathTimeout(e, p)
                             \/ TimersClosed(e)
       PROVE  Goal
  <2>1. inPaths' \in [Ext -> SUBSET Q]
    BY <1>0, <1>11 DEF InPathTimeout, TimersClosed
  <2> QED
    BY <1>0, <1>11, <2>1 DEF InPathTimeout, TimersClosed, Within, netVars
<1>12. ASSUME NEW e \in Ext, NEW p \in OutPath, TakeResult(e, MadeUpResult(e, p), <<>>),
              UNCHANGED <<pending, queue>>
       PROVE  Goal
  <2>1. PICK m \in ResultMsg : m = MadeUpResult(e, p)
    BY OutPathFields, ResultIsMsg DEF MadeUpResult
  <2>2. Replies(G, ThreadOf[e], <<>>) /\ inPaths' \in [Ext -> SUBSET Q]
    BY <1>0, <1>12, <2>1, TakeResultWithin
  <2> QED
    BY <1>0, <1>8, <1>12, <2>2
<1>13. ASSUME NEW e \in Ext, NEW p \in outPaths[e], OutPathTimeout(e, p) PROVE Goal
  BY <1>12, <1>13 DEF OutPathTimeout, TypeOK
<1>14. ASSUME NEW e \in Ext, FlushOne(e) PROVE Goal
  <2>1. PICK p \in OutPath : TakeResult(e, MadeUpResult(e, p), <<>>)
    BY <1>14 DEF FlushOne, Oldest, TypeOK
  <2> QED
    BY <1>12, <1>14, <2>1 DEF FlushOne
<1>15. ASSUME NEW e \in Ext, StartDone(e) \/ StopDone(e) \/ Deinit(e) \/ DeinitDone(e)
       PROVE  Goal
  BY <1>0, <1>15 DEF StartDone, StopDone, Deinit, DeinitDone, Within, pathVars, netVars
<1>16. CASE UNCHANGED vars
  BY <1>0, <1>16 DEF vars, Within, pathVars, netVars
<1> QED
  BY <1>1, <1>2, <1>3, <1>4, <1>4a, <1>5, <1>6, <1>7, <1>9, <1>10, <1>11,
     <1>13, <1>14, <1>15, <1>16 DEF Next

\* A send call whose commands belong to G stays within G and Q.
LEMMA SendsWithin ==
    ASSUME TypeOK, NEW e \in Ext, NEW i \in Id, NEW h \in HandlerKinds,
           NEW fresh \in 1 .. MaxId + 1, Sends(e, i, h, fresh),
           NEW G, NEW Q, Within(G, Q),
           \A k \in DOMAIN Route[e] : Launched(e, i, fresh)[k] \in G
    PROVE  Within(G, Q)'
<1> DEFINE s == Launched(e, i, fresh)
<1>1. /\ Launch(e, i, h, fresh) /\ i < fresh /\ UNCHANGED <<pending, queue, inPaths>>
  BY DEF Sends
<1>2. s \in Seq(Msg) /\ DOMAIN s = DOMAIN Route[e]
      /\ Emit(ThreadOf[e], s, direct[ThreadOf[e]])
  BY <1>1, LaunchedMsgs
<1>3. \A k \in DOMAIN s : s[k] \in G
  BY <1>2
<1> HIDE DEF s
<1>4. s \in Seq(G)
  BY <1>2, <1>3
<1>5. engineQueue' \in Seq(G) /\ direct' \in [Thread -> Seq(G)]
  BY <1>2, <1>4, EmitSeq, ThreadType DEF Within
<1> QED
  BY <1>1, <1>5 DEF Within

\* The graph has no loop: rank grows along every connection.
Uphill(rank) == /\ rank \in [Ext -> Nat]
                /\ \A e \in Relays : \A k \in DOMAIN Route[e] : rank[e] < rank[Route[e][k]]

\* The commands with id i.
CmdsOf(i) == {m \in Msg : m.kind = "cmd" /\ m.id = i}

\* A command is under way in one place or held by one extension.
OneCmd(i) == Alone(Lines, held, CmdsOf(i), {i})
CmdsOnce == \A i \in Id : OneCmd(i)

\* Results leave the commands where they are.
LEMMA RepliesCmds ==
    ASSUME TypeOK, NEW t \in Thread, NEW left \in Seq(Msg), Replies(Msg, t, left),
           NEW pe, NEW qu, NEW i, NEW hp
    PROVE  Carries(Prior(pe, qu, t, left), hp, Afterwards(pe, qu), hp, CmdsOf(i), {i})
<1>1. PICK s \in Seq(ResultsIn(Msg)) : Emit(t, s, left)
  BY DEF Replies
<1>2. s \in Seq(Msg) /\ ~Has(s, CmdsOf(i)) /\ Once(s, CmdsOf(i))
  BY DEF ResultsIn, CmdsOf, Has, Once
<1>3. engineQueue \in Seq(Msg) /\ direct \in [Thread -> Seq(Msg)]
  BY DEF TypeOK
<1>4. /\ Fits(Prior(pe, qu, t, left), hp, CmdsOf(i), {i}, Has(s, CmdsOf(i)))
           => Alone(Afterwards(pe, qu), hp, CmdsOf(i), {i})
      /\ Nowhere(Prior(pe, qu, t, left), hp, CmdsOf(i), {i}) /\ ~Has(s, CmdsOf(i))
           => Nowhere(Afterwards(pe, qu), hp, CmdsOf(i), {i})
  BY <1>1, <1>2, <1>3, EmitLines DEF Prior, Afterwards
<1> QED
  BY <1>2, <1>4, Zenon DEF Carries, Fits

\* Everything is among all messages and IN paths.
LEMMA AllClosed == Closed(Msg, InPath)
<1>1. ASSUME NEW p \in InPath, NEW ok \in BOOLEAN, NEW final \in BOOLEAN
      PROVE  Result(Reverted(p), p.ctx, p.src, ok, final) \in Msg
  BY InPathFields, ResultIsMsg
<1>2. ASSUME NEW m \in Msg, m.kind = "cmd"
      PROVE  Result(m.id, m.ctx, m.src, FALSE, TRUE) \in Msg
  BY <1>2, MsgFields, ResultIsMsg
<1> QED
  BY <1>1, <1>2 DEF Closed

\* A command that is taken is held, under a new id if it came round a loop.
LEMMA TakeCmdHeld ==
    ASSUME TypeOK, NEW e \in Ext, NEW m \in CmdMsg, NEW left \in Seq(Msg),
           TakeCmd(e, m, left), NEW pe, NEW qu, NEW i \in Id,
           i = nextId => /\ Nowhere(Prior(pe, qu, ThreadOf[e], left), held, CmdsOf(i), {i})
                         /\ m.id # i,
           Fits(Prior(pe, qu, ThreadOf[e], left), held, CmdsOf(i), {i}, m \in CmdsOf(i))
    PROVE  Alone(Afterwards(pe, qu), held', CmdsOf(i), {i})
<1> DEFINE L == Prior(pe, qu, ThreadOf[e], left)
           L2 == Afterwards(pe, qu)
           T == CmdsOf(i)
           j == IF InPathsOf(e, m.id) # {} THEN nextId ELSE m.id
           hp == held'
<1>0. ThreadOf[e] \in Thread /\ m \in Msg /\ m.kind = "cmd" /\ m.id \in Id
  BY ThreadType DEF CmdMsg, Msg
<1>1. Replies(Msg, ThreadOf[e], left)
  BY <1>0, AllClosed, TakeCmdWithin DEF TypeOK
<1>2. Carries(L, hp, L2, hp, T, {i})
  <2>1. ASSUME NEW ip PROVE Carries(L, ip, L2, ip, T, {i})
    BY <1>0, <1>1, RepliesCmds
  <2> HIDE DEF L, L2, T, hp
  <2> QED
    BY <2>1
<1>3. hp = held \/ hp = [held EXCEPT ![e] = @ \cup {j}]
  BY DEF TakeCmd
<1>4. j = i => (m \in T /\ j = m.id) \/ Nowhere(L, held, T, {i})
  BY <1>0 DEF CmdsOf
<1>5. Alone(L, held, T, {i}) /\ (m \in T => Nowhere(L, held, T, {i}))
  BY DEF Fits
<1> HIDE DEF L, L2, T, j, hp
<1>6. Alone(L, hp, T, {i})
  <2>1. CASE hp = [held EXCEPT ![e] = @ \cup {j}]
    <3>1. \A z \in Ext : hp[z] = IF z = e THEN held[z] \cup {j} ELSE held[z]
      BY <2>1 DEF TypeOK
    <3>2. Fits(L, held, T, {i}, j \in {i}) => Alone(L, hp, T, {i})
      BY <3>1, PutIn
    <3>3. Fits(L, held, T, {i}, j \in {i})
      BY <1>4, <1>5 DEF Fits
    <3> QED
      BY <3>2, <3>3
  <2> QED
    BY <1>3, <1>5, <2>1
<1>7. Alone(L2, hp, T, {i})
  BY <1>2, <1>6 DEF Carries
<1> QED
  BY <1>7 DEF L2, T, hp

\* A message that is handled: a command is held, put aside, answered or dropped.
LEMMA HandleInMsgHeld ==
    ASSUME TypeOK, NEW e \in Ext, NEW m \in Msg, NEW left \in Seq(Msg),
           HandleInMsg(e, m, left), NEW qu, NEW i \in Id,
           i = nextId =>
                /\ Nowhere(Prior(pending, qu, ThreadOf[e], left), held, CmdsOf(i), {i})
                /\ m \notin CmdsOf(i),
           Fits(Prior(pending, qu, ThreadOf[e], left), held, CmdsOf(i), {i}, m \in CmdsOf(i))
    PROVE  Alone(Afterwards(pending', qu), held', CmdsOf(i), {i})
<1> DEFINE L == Prior(pending, qu, ThreadOf[e], left)
           T == CmdsOf(i)
<1>0. ThreadOf[e] \in Thread
  BY ThreadType
<1>1. CASE /\ pending' = [pending EXCEPT ![e] = Append(@, m)] /\ m.kind = "cmd"
           /\ Emit(ThreadOf[e], <<>>, left) /\ held' = held
  <2> DEFINE pe2 == pending'
             M == Prior(pe2, qu, ThreadOf[e], left)
  <2>1. m \in CmdMsg
    BY <1>1, MsgFields
  <2>2. /\ pending[e] \in Seq(CmdMsg) /\ pe2[e] = Append(pending[e], m)
        /\ \A f \in Ext : f # e => pe2[f] = pending[f]
    BY <1>1 DEF TypeOK
  <2>3. Replies(Msg, ThreadOf[e], left)
    BY <1>1, FewReplies
  <2> HIDE DEF pe2
  <2>4. Receives(L, held, M, held, T, {i}, m \in T)
    BY <2>1, <2>2, PutPending DEF Prior
  <2>5. Carries(M, held, Afterwards(pe2, qu), held, T, {i})
    BY <1>0, <2>3, RepliesCmds
  <2>6. Fits(L, held, T, {i}, m \in T)
    OBVIOUS
  <2>7. Alone(Afterwards(pe2, qu), held, T, {i})
    <3> HIDE DEF L, M, T
    <3> QED
      BY <2>4, <2>5, <2>6 DEF Receives, Carries
  <2> QED
    BY <1>1, <2>7 DEF pe2
<1>2. CASE m.kind = "cmd" /\ TakeCmd(e, m, left) /\ UNCHANGED pending
  <2>1. m \in CmdMsg
    BY <1>2, MsgFields
  <2>2. m.id = i => m \in T
    BY <1>2 DEF CmdsOf
  <2>3. Alone(Afterwards(pending, qu), held', T, {i})
    BY <1>2, <2>1, <2>2, TakeCmdHeld
  <2> QED
    BY <1>2, <2>3
<1>3. CASE Replies(Msg, ThreadOf[e], left) /\ UNCHANGED <<pending, held>>
  <2>1. Carries(L, held, Afterwards(pending, qu), held, T, {i})
    BY <1>0, <1>3, RepliesCmds
  <2>2. Fits(L, held, T, {i}, m \in T)
    OBVIOUS
  <2>3. Alone(Afterwards(pending, qu), held, T, {i})
    <3> HIDE DEF L, T
    <3> QED
      BY <2>1, <2>2 DEF Fits, Carries
  <2> QED
    BY <1>3, <2>3
<1>4. CASE m.kind = "result" /\ TakeResult(e, m, left) /\ UNCHANGED <<held, pending>>
  <2>1. Replies(Msg, ThreadOf[e], left)
    BY <1>4, MsgFields, AllClosed, TakeResultWithin DEF TypeOK
  <2> QED
    BY <1>3, <1>4, <2>1
<1>5. CASE Emit(ThreadOf[e], <<>>, left) /\ UNCHANGED <<held, pending>>
  BY <1>3, <1>5, FewReplies
<1>6. CASE Refuse(ThreadOf[e], m, left) /\ UNCHANGED <<held, pending>>
  <2> DEFINE r == Result(m.id, m.ctx, m.src, FALSE, TRUE)
  <2>1. m.kind = "cmd" => r \in Msg /\ r.kind = "result"
    BY AllClosed DEF Closed, Result
  <2>2. \/ Emit(ThreadOf[e], <<>>, left)
        \/ m.kind = "cmd" /\ Emit(ThreadOf[e], <<r>>, left)
    BY <1>6 DEF Refuse
  <2> HIDE DEF r
  <2>3. Replies(Msg, ThreadOf[e], left)
    BY <2>1, <2>2, FewReplies
  <2> QED
    BY <1>3, <1>6, <2>3
<1> QED
  BY <1>1, <1>2, <1>4, <1>5, <1>6 DEF HandleInMsg

\* One command at most has each id, also after a message is taken from a line
\* and handled.
LEMMA HandleDirectHeld ==
    ASSUME TypeOK, MsgsHome, NEW t \in Thread, HandleDirect(t), NEW i \in Id, OneCmd(i),
           i = nextId => Nowhere(Lines, held, CmdsOf(i), {i})
    PROVE  OneCmd(i)'
<1> DEFINE left == Tail(direct[t])
           d2 == [direct EXCEPT ![t] = left]
           L2 == LinesOf(pending, queue, engineQueue, d2)
           T == CmdsOf(i)
<1>1. /\ direct[t] # <<>> /\ direct[t] \in Seq(Msg) /\ left \in Seq(Msg)
      /\ Head(direct[t]) \in Msg
      /\ ThreadOf[Head(direct[t]).dst] = t
      /\ HandleInMsg(Head(direct[t]).dst, Head(direct[t]), left) /\ queue' = queue
  BY MsgLists DEF HandleDirect, TypeOK
<1>2. PICK m \in Msg : m = Head(direct[t])
  BY <1>1
<1>3. m.dst \in Ext
  BY MsgFields
<1>4. d2[t] = Tail(direct[t]) /\ \A s \in Thread : s # t => d2[s] = direct[s]
  BY DEF TypeOK
<1> HIDE DEF d2
<1>5. Takes(Lines, held, L2, T, {i}, m)
  BY <1>1, <1>2, <1>4, TakeDirect DEF Lines
<1>6. /\ Prior(pending, queue, ThreadOf[m.dst], left) = L2
      /\ Afterwards(pending', queue) = Lines'
  BY <1>1, <1>2 DEF Prior, Afterwards, Lines, d2
<1>7. Fits(L2, held, T, {i}, m \in T) /\ (i = nextId => Nowhere(L2, held, T, {i}) /\ m \notin T)
  BY <1>5 DEF OneCmd, Takes
<1>8. HandleInMsg(m.dst, m, left) /\ left \in Seq(Msg)
  BY <1>1, <1>2
<1> HIDE DEF L2, left
<1>9. Alone(Afterwards(pending', queue), held', T, {i})
  BY <1>3, <1>6, <1>7, <1>8, HandleInMsgHeld
<1> QED
  BY <1>6, <1>9 DEF OneCmd

\* The same when the message comes from the runloop.
LEMMA ReceiveHeld ==
    ASSUME TypeOK, MsgsHome, NEW t \in Thread, Receive(t), NEW i \in Id, OneCmd(i),
           i = nextId => Nowhere(Lines, held, CmdsOf(i), {i})
    PROVE  OneCmd(i)'
<1> DEFINE q2 == queue'
           L2 == LinesOf(pending, q2, engineQueue, direct)
           T == CmdsOf(i)
<1>1. /\ queue[t] # <<>> /\ queue[t] \in Seq(Msg \cup {CloseTask})
      /\ Head(queue[t]) \in Msg \cup {CloseTask} /\ direct[t] = <<>>
      /\ queue' = [queue EXCEPT ![t] = Tail(queue[t])]
  BY DEF Receive, TypeOK, Free
<1>2. q2[t] = Tail(queue[t]) /\ \A s \in Thread : s # t => q2[s] = queue[s]
  BY <1>1 DEF TypeOK
<1>3. PICK m \in Msg \cup {CloseTask} : m = Head(queue[t])
  BY <1>1
<1> HIDE DEF q2
<1>4. Takes(Lines, held, L2, T, {i}, m)
  BY <1>1, <1>2, <1>3, TakeQueue DEF Lines
<1>5. Fits(L2, held, T, {i}, m \in T) /\ (i = nextId => Nowhere(L2, held, T, {i}) /\ m \notin T)
  BY <1>4 DEF OneCmd, Takes
<1>6. CASE m.kind # "close" /\ HandleInMsg(m.dst, m, <<>>)
  <2>1. m \in Msg /\ <<>> \in Seq(Msg)
    BY <1>6 DEF CloseTask
  <2>2. m.dst \in Ext
    BY <2>1, MsgFields
  <2>3. m \in HomeMsg(t) \cup {CloseTask}
    <3>1. queue[t] \in Seq(HomeMsg(t) \cup {CloseTask})
      BY DEF MsgsHome
    <3> QED
      BY <1>1, <1>3, <3>1
  <2>4. ThreadOf[m.dst] = t
    BY <1>6, <2>3 DEF HomeMsg, CloseTask
  <2>5. [direct EXCEPT ![t] = <<>>] = direct
    BY <1>1 DEF TypeOK
  <2>6. /\ Prior(pending, q2, ThreadOf[m.dst], <<>>) = L2
        /\ Afterwards(pending', q2) = Lines'
    BY <2>4, <2>5 DEF Prior, Afterwards, Lines, q2
  <2> HIDE DEF L2
  <2>7. Alone(Afterwards(pending', q2), held', T, {i})
    BY <1>5, <1>6, <2>1, <2>2, <2>6, HandleInMsgHeld
  <2> QED
    BY <2>6, <2>7 DEF OneCmd
<1>7. CASE UNCHANGED <<pathVars, live, held, pending, engineQueue, direct,
                        active, nextId, histVars>>
  <2>1. Lines' = L2
    BY <1>7 DEF Lines, q2
  <2> QED
    BY <1>5, <1>7, <2>1 DEF OneCmd, Fits
<1> QED
  BY <1>3, <1>6, <1>7 DEF Receive

\* The same when the command was put aside.
LEMMA ReceivePendingHeld ==
    ASSUME TypeOK, NEW e \in Ext, ReceivePending(e), NEW i \in Id, OneCmd(i),
           i = nextId => Nowhere(Lines, held, CmdsOf(i), {i})
    PROVE  OneCmd(i)'
<1> DEFINE p2 == pending'
           L2 == LinesOf(p2, queue, engineQueue, direct)
           t == ThreadOf[e]
           T == CmdsOf(i)
<1>1. /\ pending[e] # <<>> /\ pending[e] \in Seq(CmdMsg) /\ Head(pending[e]) \in CmdMsg
      /\ pending' = [pending EXCEPT ![e] = Tail(pending[e])]
      /\ queue' = queue /\ direct[t] = <<>> /\ t \in Thread
  BY ThreadType DEF ReceivePending, TypeOK
<1>2. PICK m \in CmdMsg : m = Head(pending[e])
  BY <1>1
<1>3. TakeCmd(e, m, <<>>) /\ <<>> \in Seq(Msg)
  BY <1>2 DEF ReceivePending
<1>4. p2[e] = Tail(pending[e]) /\ \A f \in Ext : f # e => p2[f] = pending[f]
  BY <1>1 DEF TypeOK
<1>5. [direct EXCEPT ![t] = <<>>] = direct
  BY <1>1 DEF TypeOK
<1> HIDE DEF p2
<1>6. Takes(Lines, held, L2, T, {i}, m)
  BY <1>1, <1>2, <1>4, TakePending DEF Lines
<1>7. Fits(L2, held, T, {i}, m \in T) /\ (i = nextId => Nowhere(L2, held, T, {i}) /\ m \notin T)
  BY <1>6 DEF OneCmd, Takes
<1>8. /\ Prior(p2, queue, ThreadOf[e], <<>>) = L2
      /\ Afterwards(p2, queue) = Lines'
  BY <1>1, <1>5 DEF Prior, Afterwards, Lines, p2
<1>9. m.id = i => m \in T
  BY DEF CmdsOf, CmdMsg, Msg
<1> HIDE DEF L2
<1>10. Alone(Afterwards(p2, queue), held', T, {i})
  BY <1>3, <1>7, <1>8, <1>9, TakeCmdHeld
<1> QED
  BY <1>8, <1>10 DEF OneCmd

\* Where a message of T can be, and where there is none.
LEMMA WithinMet ==
    ASSUME NEW G, NEW Q, Within(G, Q), NEW T, \A m \in G \cup {CloseTask} : m \notin T
    PROVE  ~Met(Lines, T)
<1>1. ASSUME NEW x \in Names
      PROVE  Lines[x] \in Seq(G \cup {CloseTask})
  <2>0. \A s \in Seq(G) : s \in Seq(G \cup {CloseTask})
    OBVIOUS
  <2>1. CASE \E e \in Ext : x = <<"pending", e>>
    BY <2>0, <2>1, PendingLine DEF Within, Lines
  <2>2. CASE \E t \in Thread : x = <<"queue", t>>
    BY <2>2, QueueLine DEF Within, Lines
  <2>3. CASE \E t \in Thread : x = <<"direct", t>>
    <3>1. PICK t \in Thread : x = <<"direct", t>>
      BY <2>3
    <3>2. Lines[<<"direct", t>>] = direct[t]
      BY DirectLine DEF Lines
    <3>3. direct[t] \in Seq(G)
      BY DEF Within
    <3> QED
      BY <2>0, <3>1, <3>2, <3>3
  <2>4. CASE x = <<"engine", None>>
    <3>1. Lines[<<"engine", None>>] = engineQueue
      BY EngineLine DEF Lines
    <3>2. engineQueue \in Seq(G)
      BY DEF Within
    <3> QED
      BY <2>0, <2>4, <3>1, <3>2
  <2>5. \/ \E e \in Ext : x = <<"pending", e>>
        \/ \E t \in Thread : x = <<"queue", t>>
        \/ \E t \in Thread : x = <<"direct", t>>
        \/ x = <<"engine", None>>
    BY NameCases
  <2> QED
    BY <2>1, <2>2, <2>3, <2>4, <2>5, Zenon
<1>2. ASSUME NEW s \in Seq(G \cup {CloseTask}), NEW j \in DOMAIN s
      PROVE  s[j] \notin T
  BY <1>2
<1> QED
  BY <1>1, <1>2 DEF Met, Has

\* A list without messages of T is a list of the others.
LEMMA SeqWithout ==
    ASSUME NEW S, NEW s \in Seq(S), NEW T, ~Has(s, T)
    PROVE  s \in Seq(S \ T)
<1>1. \A j \in DOMAIN s : s[j] \in S \ T
  BY DEF Has
<1> QED
  BY <1>1

\* Where none is met, all that is under way are the others.
LEMMA MetWithin ==
    ASSUME TypeOK, NEW T, ~Met(Lines, T)
    PROVE  Within(Msg \ T, InPath)
<1>1. \A x \in Names : ~Has(Lines[x], T)
  BY DEF Met
<1>3. ASSUME NEW e \in Ext PROVE pending[e] \in Seq(Msg \ T)
  <2>1. pending[e] \in Seq(Msg)
    BY DEF TypeOK, Msg
  <2>2. ~Has(pending[e], T)
    <3>1. <<"pending", e>> \in Names /\ Lines[<<"pending", e>>] = pending[e]
      BY PendingLine DEF Lines
    <3> QED
      BY <1>1, <3>1
  <2> QED
    BY <2>1, <2>2, SeqWithout, Zenon
<1>4. ASSUME NEW t \in Thread PROVE queue[t] \in Seq((Msg \ T) \cup {CloseTask})
  <2>1. queue[t] \in Seq(Msg \cup {CloseTask})
    BY DEF TypeOK
  <2>2. ~Has(queue[t], T)
    <3>1. <<"queue", t>> \in Names /\ Lines[<<"queue", t>>] = queue[t]
      BY QueueLine DEF Lines
    <3> QED
      BY <1>1, <3>1
  <2>3. queue[t] \in Seq((Msg \cup {CloseTask}) \ T)
    BY <2>1, <2>2, SeqWithout, Zenon
  <2> QED
    BY <2>3
<1>5. ASSUME NEW t \in Thread PROVE direct[t] \in Seq(Msg \ T)
  <2>1. direct[t] \in Seq(Msg)
    BY DEF TypeOK
  <2>2. ~Has(direct[t], T)
    <3>1. <<"direct", t>> \in Names /\ Lines[<<"direct", t>>] = direct[t]
      BY DirectLine DEF Lines
    <3> QED
      BY <1>1, <3>1
  <2> QED
    BY <2>1, <2>2, SeqWithout, Zenon
<1>6. engineQueue \in Seq(Msg \ T)
  <2>1. engineQueue \in Seq(Msg)
    BY DEF TypeOK
  <2>2. ~Has(engineQueue, T)
    <3>1. <<"engine", None>> \in Names /\ Lines[<<"engine", None>>] = engineQueue
      BY EngineLine DEF Lines
    <3> QED
      BY <1>1, <3>1
  <2> QED
    BY <2>1, <2>2, SeqWithout, Zenon
<1> QED
  BY <1>3, <1>4, <1>5, <1>6 DEF Within, TypeOK

\* Larger sets hold what the smaller ones did.
LEMMA WithinMore ==
    ASSUME NEW G, NEW Q, Within(G, Q), NEW G2, NEW Q2, G \subseteq G2, Q \subseteq Q2
    PROVE  Within(G2, Q2)
<1>1. \A s \in Seq(G) : s \in Seq(G2)
  OBVIOUS
<1>2. \A s \in Seq(G \cup {CloseTask}) : s \in Seq(G2 \cup {CloseTask})
  OBVIOUS
<1> QED
  BY <1>1, <1>2 DEF Within

\* No command has an id that was not generated yet.
LEMMA NextUnheld ==
    ASSUME TypeOK, IdsIssued, NEW i \in Id, i >= nextId
    PROVE  Nowhere(Lines, held, CmdsOf(i), {i})
<1>0. nextId \in Nat /\ i \in Nat
  BY BoundAssumption DEF TypeOK, Id
<1>1. Within(IssuedMsg, InPath)
  BY DEF IdsIssued, Within, TypeOK
<1>2. \A m \in IssuedMsg \cup {CloseTask} : m \notin CmdsOf(i)
  BY <1>0, MsgFields DEF IssuedMsg, CmdsOf, CloseTask, Id
<1>3. ~Met(Lines, CmdsOf(i))
  BY <1>1, <1>2, WithinMet
<1>4. \A x \in Ext : i \notin held[x]
  BY <1>0 DEF IdsIssued
<1> QED
  BY <1>3, <1>4 DEF Nowhere, MetIn

\* What holds of the lines alone holds of the lines and the commands held, if
\* no more are held.
LEMMA Decouple ==
    ASSUME NEW L, NEW ip, NEW L2, NEW ip2, NEW T, Carries(L, ip, L2, ip2, T, {}),
           NEW hp, NEW hp2, \A z \in Ext : hp2[z] \subseteq hp[z], NEW P
    PROVE  Carries(L, hp, L2, hp2, T, P)
<1>1. /\ SoleIn(ip, {}) /\ ~MetIn(ip, {}) /\ SoleIn(ip2, {}) /\ ~MetIn(ip2, {})
  BY DEF SoleIn, MetIn
<1>2. (Sole(L, T) => Sole(L2, T)) /\ (~Met(L, T) => ~Met(L2, T))
  BY <1>1, Zenon DEF Carries, Alone, Nowhere
<1>3. (SoleIn(hp, P) => SoleIn(hp2, P)) /\ (~MetIn(hp, P) => ~MetIn(hp2, P))
  BY DEF SoleIn, MetIn
<1> QED
  BY <1>2, <1>3, Zenon DEF Carries, Alone, Nowhere

\* A step in which no command is sent leaves one command at most with each id.
LEMMA StepHeld ==
    ASSUME TypeOK, IdsIssued, MsgsHome, [Next]_vars, NEW i \in Id, OneCmd(i)
    PROVE  \/ OneCmd(i)'
           \/ \E e \in Ext, h \in HandlerKinds : Send(e, h)
           \/ \E e \in Ext, h \in HandlerKinds : \E j \in held[e] : Forward(e, j, h)
<1> DEFINE Goal == \/ OneCmd(i)'
                   \/ \E e \in Ext, h \in HandlerKinds : Send(e, h)
                   \/ \E e \in Ext, h \in HandlerKinds : \E j \in held[e] : Forward(e, j, h)
<1>0. i = nextId => Nowhere(Lines, held, CmdsOf(i), {i})
  BY NextUnheld DEF Id
<1>1. ASSUME \A T : T \subseteq Msg => Carries(Lines, inPaths, Lines', inPaths', T, {}),
             \A z \in Ext : held'[z] \subseteq held[z]
      PROVE  Goal
  <2> DEFINE T == CmdsOf(i)
             L2 == Lines'
             ip2 == inPaths'
             hp2 == held'
  <2>1. Carries(Lines, inPaths, L2, ip2, T, {})
    BY <1>1 DEF CmdsOf
  <2>2. \A z \in Ext : hp2[z] \subseteq held[z]
    BY <1>1
  <2> HIDE DEF T, L2, ip2, hp2
  <2>3. Carries(Lines, held, L2, hp2, T, {i})
    BY <2>1, <2>2, Decouple
  <2> QED
    BY <2>3 DEF Carries, OneCmd, T, L2, hp2
<1>2. CASE EngineDispatch
  <2>1. \A T : Carries(Lines, inPaths, Lines', inPaths', T, {})
    BY <1>2, EngineDispatchCarries
  <2> QED
    BY <1>1, <1>2, <2>1 DEF EngineDispatch
<1>2a. ASSUME NEW t \in Thread, DispatchLeft(t) PROVE Goal
  <2>1. \A T : Carries(Lines, inPaths, Lines', inPaths', T, {})
    BY <1>2a, DispatchLeftCarries
  <2> QED
    BY <1>1, <1>2a, <2>1 DEF DispatchLeft
<1>3. CASE CloseThreads
  <2> DEFINE q2 == queue'
  <2>1. \A s \in Thread : /\ queue[s] \in Seq(Msg \cup {CloseTask})
                          /\ q2[s] = Append(queue[s], CloseTask)
    BY <1>3 DEF CloseThreads, TypeOK
  <2> HIDE DEF q2
  <2>2. ASSUME NEW T, T \subseteq Msg
        PROVE  Carries(LinesOf(pending, queue, engineQueue, direct), inPaths,
                       LinesOf(pending, q2, engineQueue, direct), inPaths, T, {})
    BY <2>1, <2>2, PutTasks
  <2>3. Lines' = LinesOf(pending, q2, engineQueue, direct) /\ inPaths' = inPaths
    BY <1>3 DEF CloseThreads, pathVars, Lines, q2
  <2> QED
    BY <1>1, <1>3, <2>2, <2>3 DEF Lines, CloseThreads
<1>4. ASSUME NEW t \in Thread, HandleDirect(t) \/ Receive(t) PROVE Goal
  BY <1>0, <1>4, HandleDirectHeld, ReceiveHeld
<1>5. ASSUME NEW e \in Ext, ReceivePending(e) PROVE Goal
  BY <1>0, <1>5, ReceivePendingHeld
<1>6. ASSUME UNCHANGED <<pending, queue, engineQueue, direct, held>>
      PROVE  Goal
  <2>1. Lines' = Lines
    BY <1>6 DEF Lines
  <2> QED
    BY <1>6, <2>1 DEF OneCmd
<1>7. CASE \/ EngineClose \/ UNCHANGED vars
           \/ \E e \in Ext : StartDone(e) \/ StopDone(e) \/ TimersClosed(e)
                             \/ Deinit(e) \/ DeinitDone(e)
           \/ \E e \in Ext : \E p \in inPaths[e] : InPathTimeout(e, p)
  BY <1>6, <1>7 DEF EngineClose, vars, netVars, StartDone, StopDone, TimersClosed, Deinit,
                    DeinitDone, InPathTimeout
<1>8. ASSUME NEW e \in Ext, NEW left \in Seq(Msg), left = direct[ThreadOf[e]],
             Replies(Msg, ThreadOf[e], left), UNCHANGED <<pending, queue>>,
             \A z \in Ext : held'[z] \subseteq held[z]
      PROVE  Goal
  <2> DEFINE T == CmdsOf(i)
             hp2 == held'
  <2>1. ThreadOf[e] \in Thread /\ [direct EXCEPT ![ThreadOf[e]] = left] = direct
    BY <1>8, ThreadType DEF TypeOK
  <2>2. /\ Prior(pending, queue, ThreadOf[e], left) = Lines
        /\ Afterwards(pending, queue) = Lines'
    BY <1>8, <2>1 DEF Prior, Afterwards, Lines
  <2>3. \A z \in Ext : hp2[z] \subseteq held[z]
    BY <1>8
  <2> HIDE DEF hp2
  <2>4. Carries(Prior(pending, queue, ThreadOf[e], left), hp2,
                Afterwards(pending, queue), hp2, T, {i})
    BY <1>8, <2>1, RepliesCmds
  <2>5. Alone(Lines, held, T, {i}) => Alone(Lines, hp2, T, {i})
    BY <2>3, FewerIn
  <2> HIDE DEF T
  <2> QED
    BY <2>2, <2>4, <2>5 DEF Carries, OneCmd, T, hp2
<1>9. ASSUME NEW e \in Ext, NEW j \in held[e],
             \/ \E ok \in BOOLEAN : ReturnResult(e, j, ok)
             \/ ReturnPartial(e, j)
      PROVE  Goal
  <2>1. PICK ok \in BOOLEAN, final \in BOOLEAN : ReturnTo(e, j, ok, final, direct[ThreadOf[e]])
    BY <1>9 DEF ReturnResult, ReturnPartial
  <2>2. direct[ThreadOf[e]] \in Seq(Msg)
    BY ThreadType DEF TypeOK
  <2>3. Replies(Msg, ThreadOf[e], direct[ThreadOf[e]])
    BY <2>1, AllClosed, ReturnToWithin DEF TypeOK
  <2>4. UNCHANGED <<pending, queue>> /\ \A z \in Ext : held'[z] \subseteq held[z]
    BY <1>9 DEF ReturnResult, ReturnPartial, TypeOK
  <2> QED
    BY <1>8, <2>2, <2>3, <2>4
<1>10. ASSUME NEW e \in Ext, NEW p \in OutPath, TakeResult(e, MadeUpResult(e, p), <<>>),
              direct[ThreadOf[e]] = <<>>, UNCHANGED <<pending, queue, held>>
       PROVE  Goal
  <2>1. PICK m \in ResultMsg : m = MadeUpResult(e, p)
    BY OutPathFields, ResultIsMsg DEF MadeUpResult
  <2>2. Replies(Msg, ThreadOf[e], <<>>) /\ <<>> \in Seq(Msg)
    BY <1>10, <2>1, AllClosed, TakeResultWithin DEF TypeOK
  <2> QED
    BY <1>8, <1>10, <2>2
<1>11. ASSUME NEW e \in Ext, NEW p \in outPaths[e], OutPathTimeout(e, p) PROVE Goal
  BY <1>10, <1>11 DEF OutPathTimeout, TimersRun, Free, TypeOK
<1>12. ASSUME NEW e \in Ext, FlushOne(e) PROVE Goal
  <2>1. PICK p \in OutPath : TakeResult(e, MadeUpResult(e, p), <<>>)
    BY <1>12 DEF FlushOne, Oldest, TypeOK
  <2> QED
    BY <1>10, <1>12, <2>1 DEF FlushOne
<1>13. ASSUME NEW e \in Ext, \/ \E h \in Handlers : Send(e, h)
                             \/ \E j \in held[e], h \in Handlers : Forward(e, j, h)
       PROVE  Goal
  BY <1>13, ActorsAssumption
<1> QED
  BY <1>2, <1>2a, <1>3, <1>4, <1>5, <1>7, <1>9, <1>11, <1>12, <1>13 DEF Next

-----------------------------------------------------------------------------
\* Steps that take a message, and those that send one.

\* What is put aside for an extension is for that extension.
CmdFor(e) == {m \in CmdMsg : m.dst = e}
PendingHome == \A e \in Ext : pending[e] \in Seq(CmdFor(e))

\* The OUT paths that may still get a result, of the code or made up.
Owned(e) == outPaths[e] \cup flush[e]

\* A step that takes neither a command nor a result.
Idles == /\ \A z \in Ext : held'[z] \subseteq held[z]
         /\ UNCHANGED <<nextId, heard>>

\* e takes a command of G or a result of G, or one made up for a path of its own.
TakesCmd(G, e) == /\ \E m \in G : \E left : m \in CmdFor(e) /\ TakeCmd(e, m, left)
                  /\ UNCHANGED heard
TakesResult(G, e) ==
    /\ \E m \in ResultMsg : \E left :
          /\ TakeResult(e, m, left)
          /\ (m \in G /\ m.dst = e) \/ \E p \in Owned(e) : m = MadeUpResult(e, p)
    /\ UNCHANGED <<held, nextId>>

\* A step that handles a message, of the kinds above.
Handles(G) == /\ \/ Idles
                 \/ \E e \in Ext : TakesCmd(G, e) \/ TakesResult(G, e)
              /\ \A z \in Ext : outPaths'[z] \subseteq outPaths[z]

\* A result that is taken adds no OUT path.
LEMMA TakeResultFewer ==
    ASSUME TypeOK, NEW e \in Ext, NEW m \in ResultMsg, NEW left \in Seq(Msg),
           TakeResult(e, m, left)
    PROVE  \A z \in Ext : outPaths'[z] \subseteq outPaths[z]
<1>1. /\ \A x \in Ext : x # e => outPaths'[x] = outPaths[x]
      /\ outPaths'[e] \subseteq outPaths[e]
  BY TakeResultLocal
<1> QED
  BY <1>1

\* A message that is handled is of G, with all that comes of it.
LEMMA HandleInMsgHandles ==
    ASSUME TypeOK, NEW e \in Ext, NEW m \in Msg, NEW left \in Seq(Msg),
           HandleInMsg(e, m, left), m.dst = e, NEW G, m \in G
    PROVE  Handles(G)
<1>1. CASE UNCHANGED <<outPaths, held, nextId, heard>>
  BY <1>1 DEF Handles, Idles
<1>2. CASE m.kind = "result" /\ TakeResult(e, m, left) /\ UNCHANGED <<held, nextId>>
  <2>1. m \in ResultMsg
    BY <1>2, MsgFields
  <2>2. TakesResult(G, e)
    BY <1>2, <2>1 DEF TakesResult
  <2> QED
    BY <1>2, <2>1, <2>2, TakeResultFewer DEF Handles
<1>3. CASE m.kind = "cmd" /\ TakeCmd(e, m, left) /\ UNCHANGED <<outPaths, heard>>
  <2>1. m \in CmdMsg
    BY <1>3, MsgFields
  <2>2. TakesCmd(G, e)
    BY <1>3, <2>1 DEF TakesCmd, CmdFor
  <2> QED
    BY <1>3, <2>2 DEF Handles
<1> QED
  BY <1>1, <1>2, <1>3 DEF HandleInMsg, pathVars, histVars

\* Every step that sends no command handles a message or nothing.
LEMMA StepHandles ==
    ASSUME TypeOK, PendingHome, [Next]_vars, NEW G, NEW Q, Within(G, Q), G \subseteq Msg
    PROVE  \/ Handles(G) /\ \A z \in Ext : Owned(z)' \subseteq Owned(z)
           \/ \E e \in Ext, h \in HandlerKinds : Send(e, h)
           \/ \E e \in Ext, h \in HandlerKinds : \E i \in held[e] : Forward(e, i, h)
<1> DEFINE Goal == \/ Handles(G) /\ \A z \in Ext : Owned(z)' \subseteq Owned(z)
                   \/ \E e \in Ext, h \in HandlerKinds : Send(e, h)
                   \/ \E e \in Ext, h \in HandlerKinds : \E i \in held[e] : Forward(e, i, h)
<1>0. /\ pending \in [Ext -> Seq(G)] /\ queue \in [Thread -> Seq(G \cup {CloseTask})]
      /\ direct \in [Thread -> Seq(G)]
  BY DEF Within
<1>1. ASSUME Handles(G), UNCHANGED flush PROVE Goal
  BY <1>1 DEF Handles, Owned
<1>2. ASSUME NEW t \in Thread, HandleDirect(t) PROVE Goal
  <2>1. /\ Head(direct[t]) \in G /\ Tail(direct[t]) \in Seq(Msg) /\ UNCHANGED flush
    BY <1>0, <1>2 DEF HandleDirect, lifeVars
  <2>2. PICK m \in G : m = Head(direct[t])
    BY <2>1
  <2>3. HandleInMsg(m.dst, m, Tail(direct[t])) /\ m \in Msg /\ m.dst \in Ext
    BY <1>2, <2>2, MsgFields DEF HandleDirect
  <2> QED
    BY <1>1, <2>1, <2>3, HandleInMsgHandles
<1>3. ASSUME NEW t \in Thread, Receive(t) PROVE Goal
  <2>1. Head(queue[t]) \in G \cup {CloseTask} /\ UNCHANGED flush
    BY <1>0, <1>3 DEF Receive
  <2>2. PICK m \in G \cup {CloseTask} : m = Head(queue[t])
    BY <2>1
  <2>3. CASE m.kind # "close" /\ HandleInMsg(m.dst, m, <<>>)
    <3>1. m \in G /\ m \in Msg /\ m.dst \in Ext /\ <<>> \in Seq(Msg)
      BY <2>3, MsgFields DEF CloseTask
    <3> QED
      BY <1>1, <2>1, <2>3, <3>1, HandleInMsgHandles
  <2>4. CASE UNCHANGED <<pathVars, held, nextId, histVars>>
    BY <1>1, <2>1, <2>4 DEF Handles, Idles, pathVars, histVars
  <2> QED
    BY <1>3, <2>2, <2>3, <2>4 DEF Receive
<1>4. ASSUME NEW e \in Ext, ReceivePending(e) PROVE Goal
  <2>1. Head(pending[e]) \in G /\ Head(pending[e]) \in CmdFor(e) /\ UNCHANGED flush
    BY <1>0, <1>4 DEF ReceivePending, PendingHome, lifeVars
  <2>2. PICK m \in G : m = Head(pending[e])
    BY <2>1
  <2>3. TakesCmd(G, e)
    BY <1>4, <2>1, <2>2 DEF ReceivePending, TakesCmd, histVars
  <2> QED
    BY <1>1, <1>4, <2>1, <2>3 DEF ReceivePending, Handles
<1>5. ASSUME NEW e \in Ext, NEW p \in Owned(e), TakeResult(e, MadeUpResult(e, p), <<>>),
             UNCHANGED <<held, nextId>>
      PROVE  Handles(G)
  <2>0. p \in OutPath
    BY DEF Owned, TypeOK
  <2>1. PICK m \in ResultMsg : m = MadeUpResult(e, p)
    BY <2>0, OutPathFields, ResultIsMsg DEF MadeUpResult
  <2>2. TakesResult(G, e)
    BY <1>5, <2>1 DEF TakesResult
  <2>3. <<>> \in Seq(Msg)
    OBVIOUS
  <2>4. \A z \in Ext : outPaths'[z] \subseteq outPaths[z]
    BY <1>5, <2>1, <2>3, TakeResultFewer
  <2> QED
    BY <2>2, <2>4 DEF Handles
<1>6. ASSUME NEW e \in Ext, NEW p \in outPaths[e], OutPathTimeout(e, p) PROVE Goal
  BY <1>1, <1>5, <1>6 DEF OutPathTimeout, Owned, lifeVars
<1>7. ASSUME NEW e \in Ext, FlushOne(e) PROVE Goal
  <2>1. PICK p \in flush[e] : /\ TakeResult(e, MadeUpResult(e, p), <<>>)
                              /\ flush' = [flush EXCEPT ![e] = @ \ {p}]
    BY <1>7 DEF FlushOne, Oldest
  <2>2. Handles(G)
    BY <1>5, <1>7, <2>1 DEF FlushOne, Owned
  <2>3. \A z \in Ext : flush'[z] \subseteq flush[z]
    BY <2>1 DEF TypeOK
  <2> QED
    BY <2>2, <2>3 DEF Handles, Owned
<1>8. ASSUME NEW e \in Ext, TimersClosed(e) PROVE Goal
  <2>1. Handles(G)
    BY <1>8 DEF TimersClosed, Handles, Idles, histVars
  <2>2. \A z \in Ext : flush'[z] \subseteq Owned(z) /\ outPaths'[z] \subseteq Owned(z)
    BY <1>8 DEF TimersClosed, TypeOK, Owned
  <2> QED
    BY <2>1, <2>2 DEF Owned
<1>9. CASE \/ EngineDispatch \/ EngineClose \/ CloseThreads \/ UNCHANGED vars
           \/ \E t \in Thread : DispatchLeft(t)
           \/ \E e \in Ext : StartDone(e) \/ StopDone(e) \/ Deinit(e) \/ DeinitDone(e)
           \/ \E e \in Ext : \E p \in inPaths[e] : InPathTimeout(e, p)
  <2>1. UNCHANGED <<outPaths, held, nextId, heard, flush>>
    BY <1>9 DEF EngineDispatch, EngineClose, CloseThreads, DispatchLeft, vars,
                pathVars, histVars, lifeVars, StartDone, StopDone, Deinit, DeinitDone, InPathTimeout
  <2> QED
    BY <1>1, <2>1 DEF Handles, Idles
<1>10. ASSUME NEW e \in Ext, NEW j \in held[e],
              \/ \E ok \in BOOLEAN : ReturnResult(e, j, ok)
              \/ ReturnPartial(e, j)
       PROVE  Goal
  <2>1. /\ UNCHANGED <<outPaths, nextId, heard, flush>>
        /\ \A z \in Ext : held'[z] \subseteq held[z]
    BY <1>10 DEF ReturnResult, ReturnPartial, histVars, lifeVars, TypeOK
  <2> QED
    BY <1>1, <2>1 DEF Handles, Idles
<1>11. ASSUME NEW e \in Ext, \/ \E h \in Handlers : Send(e, h)
                             \/ \E j \in held[e], h \in Handlers : Forward(e, j, h)
       PROVE  Goal
  BY <1>11, ActorsAssumption
<1> QED
  BY <1>2, <1>3, <1>4, <1>6, <1>7, <1>8, <1>9, <1>10, <1>11 DEF Next

\* What is put aside for an extension stays for it.
LEMMA PendingInit == Init => PendingHome
<1>1. \A e \in Ext : <<>> \in Seq(CmdFor(e))
  OBVIOUS
<1> QED
  BY <1>1 DEF Init, PendingHome

\* What is put aside for an extension stays for it.
LEMMA PendingStep == TypeOK /\ PendingHome /\ [Next]_vars => PendingHome'
<1> SUFFICES ASSUME TypeOK, PendingHome, [Next]_vars PROVE PendingHome'
  OBVIOUS
<1>0. pending \in [Ext -> Seq(CmdMsg)] /\ \A e \in Ext : pending[e] \in Seq(CmdFor(e))
  BY DEF TypeOK, PendingHome
<1>1. ASSUME UNCHANGED pending PROVE PendingHome'
  BY <1>0, <1>1 DEF PendingHome
<1>2. ASSUME NEW e \in Ext, NEW m \in Msg, m.dst = e, NEW left, HandleInMsg(e, m, left)
      PROVE  PendingHome'
  <2>1. CASE m.kind = "cmd" /\ pending' = [pending EXCEPT ![e] = Append(@, m)]
    <3>1. m \in CmdFor(e)
      BY <1>2, <2>1, MsgFields DEF CmdFor
    <3>2. Append(pending[e], m) \in Seq(CmdFor(e))
      BY <1>0, <3>1
    <3> QED
      BY <1>0, <2>1, <3>2 DEF PendingHome
  <2> QED
    BY <1>1, <1>2, <2>1 DEF HandleInMsg
<1>3. ASSUME NEW t \in Thread, HandleDirect(t) PROVE PendingHome'
  <2>1. PICK m \in Msg : m = Head(direct[t])
    BY <1>3, MsgLists DEF HandleDirect, TypeOK
  <2>2. HandleInMsg(m.dst, m, Tail(direct[t])) /\ m.dst \in Ext
    BY <1>3, <2>1, MsgFields DEF HandleDirect
  <2> QED
    BY <1>2, <2>2
<1>4. ASSUME NEW t \in Thread, Receive(t) PROVE PendingHome'
  <2>1. PICK m \in Msg \cup {CloseTask} : m = Head(queue[t])
    BY <1>4 DEF Receive, TypeOK
  <2>2. CASE m.kind # "close" /\ HandleInMsg(m.dst, m, <<>>)
    <3>1. m \in Msg /\ m.dst \in Ext
      BY <2>2, MsgFields DEF CloseTask
    <3> QED
      BY <1>2, <2>2, <3>1
  <2> QED
    BY <1>1, <1>4, <2>1, <2>2 DEF Receive
<1>5. ASSUME NEW e \in Ext, ReceivePending(e) PROVE PendingHome'
  <2>1. pending[e] # <<>> /\ pending' = [pending EXCEPT ![e] = Tail(@)]
    BY <1>5 DEF ReceivePending
  <2>2. Tail(pending[e]) \in Seq(CmdFor(e))
    BY <1>0, <2>1
  <2> QED
    BY <1>0, <2>1, <2>2 DEF PendingHome
<1>6. CASE \/ EngineDispatch \/ EngineClose \/ CloseThreads \/ UNCHANGED vars
           \/ \E t \in Thread : DispatchLeft(t)
           \/ \E e \in Ext :
                \/ \E h \in Handlers : Send(e, h)
                \/ \E i \in held[e] : \/ \E h \in Handlers : Forward(e, i, h)
                                      \/ \E ok \in BOOLEAN : ReturnResult(e, i, ok)
                                      \/ ReturnPartial(e, i)
                \/ \E p \in inPaths[e] : InPathTimeout(e, p)
                \/ \E p \in outPaths[e] : OutPathTimeout(e, p)
                \/ StartDone(e) \/ StopDone(e) \/ TimersClosed(e) \/ FlushOne(e)
                \/ Deinit(e) \/ DeinitDone(e)
  <2>1. UNCHANGED pending
    BY <1>6, ZenonT(40) DEF EngineDispatch, EngineClose, CloseThreads, DispatchLeft, vars,
                Send, Forward, ReturnResult, ReturnPartial, InPathTimeout, OutPathTimeout, StartDone, StopDone,
                TimersClosed, FlushOne, Deinit, DeinitDone
  <2> QED
    BY <1>1, <2>1
<1> QED
  BY <1>3, <1>4, <1>5, <1>6 DEF Next

-----------------------------------------------------------------------------
\* The messages and IN paths that bring extension e a result with id i, and that
\* come from one of the send calls C.
MarksOf(e, i, C) ==
    {m \in Msg : /\ m.id = i /\ m.ctx \in C
                 /\ m.kind = "cmd" => m.src = e
                 /\ m.kind = "result" => m.dst = e}
TrailsOf(e, i, C) == {p \in InPath : Reverted(p) = i /\ p.src = e /\ p.ctx \in C}

\* None of them is under way.
FreeOf(e, i, C) == Within(Msg \ MarksOf(e, i, C), InPath \ TrailsOf(e, i, C))

\* They turn into one another only.
LEMMA MarksClosed ==
    ASSUME NEW e, NEW i, NEW C
    PROVE  Closed(Msg \ MarksOf(e, i, C), InPath \ TrailsOf(e, i, C))
<1>1. ASSUME NEW p \in InPath \ TrailsOf(e, i, C), NEW ok \in BOOLEAN, NEW final \in BOOLEAN
      PROVE  Result(Reverted(p), p.ctx, p.src, ok, final) \in Msg \ MarksOf(e, i, C)
  <2> DEFINE r == Result(Reverted(p), p.ctx, p.src, ok, final)
  <2>1. r \in Msg
    BY InPathFields, ResultIsMsg
  <2>2. r.id = Reverted(p) /\ r.ctx = p.ctx /\ r.dst = p.src /\ r.kind = "result"
    BY DEF Result
  <2> HIDE DEF r
  <2>3. r \in Msg \ MarksOf(e, i, C)
    BY <2>1, <2>2 DEF MarksOf, TrailsOf
  <2> QED
    BY <2>3 DEF r
<1>2. ASSUME NEW m \in Msg \ MarksOf(e, i, C), m.kind = "cmd"
      PROVE  Result(m.id, m.ctx, m.src, FALSE, TRUE) \in Msg \ MarksOf(e, i, C)
  <2> DEFINE r == Result(m.id, m.ctx, m.src, FALSE, TRUE)
  <2>1. r \in Msg
    BY <1>2, MsgFields, ResultIsMsg
  <2>2. r.id = m.id /\ r.ctx = m.ctx /\ r.dst = m.src /\ r.kind = "result"
    BY DEF Result
  <2> HIDE DEF r
  <2>3. r \in Msg \ MarksOf(e, i, C)
    BY <1>2, <2>1, <2>2 DEF MarksOf
  <2> QED
    BY <2>3 DEF r
<1>3. ASSUME NEW m \in Msg \ MarksOf(e, i, C), NEW p \in InPath, m.kind = "cmd",
             Reverted(p) = m.id, p.ctx = m.ctx, p.src = m.src
      PROVE  p \in InPath \ TrailsOf(e, i, C)
  BY <1>3 DEF MarksOf, TrailsOf
<1> QED
  BY <1>1, <1>2, <1>3 DEF Closed

\* Nothing turns into a command.
LEMMA CmdsApart ==
    ASSUME NEW T, \A m \in T : m.kind = "cmd"
    PROVE  Closed(Msg \ T, InPath)
<1>1. ASSUME NEW p \in InPath, NEW ok \in BOOLEAN, NEW final \in BOOLEAN
      PROVE  Result(Reverted(p), p.ctx, p.src, ok, final) \in Msg \ T
  <2> DEFINE r == Result(Reverted(p), p.ctx, p.src, ok, final)
  <2>1. r \in Msg /\ r.kind = "result"
    BY InPathFields, ResultIsMsg DEF Result
  <2> HIDE DEF r
  <2>2. r \in Msg \ T
    BY <2>1
  <2> QED
    BY <2>2 DEF r
<1>2. ASSUME NEW m \in Msg, m.kind = "cmd"
      PROVE  Result(m.id, m.ctx, m.src, FALSE, TRUE) \in Msg \ T
  <2> DEFINE r == Result(m.id, m.ctx, m.src, FALSE, TRUE)
  <2>1. r \in Msg /\ r.kind = "result"
    BY <1>2, MsgFields, ResultIsMsg DEF Result
  <2> HIDE DEF r
  <2>2. r \in Msg \ T
    BY <2>1
  <2> QED
    BY <2>2 DEF r
<1> QED
  BY <1>1, <1>2 DEF Closed

\* Without A and without B is without both.
LEMMA WithinBoth ==
    ASSUME TypeOK, NEW A, NEW B, A \subseteq Msg, B \subseteq Msg,
           Within(Msg \ A, InPath), Within(Msg \ B, InPath)
    PROVE  Within(Msg \ (A \cup B), InPath)
<1>1. CloseTask \notin Msg
  BY MsgFields DEF CloseTask
<1>2. ~Met(Lines, A) /\ ~Met(Lines, B)
  BY <1>1, WithinMet
<1>3. ~Met(Lines, A \cup B)
  BY <1>2 DEF Met, Has
<1> QED
  BY <1>3, MetWithin

-----------------------------------------------------------------------------
\* Where the ids are used.

\* A step in which the code of an extension sends a command.
Dispatches == \/ \E e \in Ext, h \in HandlerKinds : Send(e, h)
              \/ \E e \in Ext, h \in HandlerKinds : \E i \in held[e] : Forward(e, i, h)

\* Extension e does not use the id i, and no result with i will come to it.
Unmarked(e, i) == (\A p \in Owned(e) : p.id # i) /\ FreeOf(e, i, Ctx)

\* Commands of a relay that do not go up, and those of id i that e may have yet to see.
Downhill(rank) == {m \in CmdMsg : m.src \in Relays /\ ~(rank[m.src] < rank[m.dst])}
Below(rank, e, i) ==
    {m \in CmdMsg : m.id = i /\ ~(m.src \in Relays /\ rank[e] <= rank[m.src])}

Climbs(rank) == Within(Msg \ Downhill(rank), InPath)

\* The command with id i, if there is one, has passed e.
Past(rank, e, i) == /\ Within(Msg \ Below(rank, e, i), InPath)
                    /\ \A x \in Ext : i \in held[x] => rank[e] < rank[x]

Fresh == \A e \in Ext, i \in Id : i >= nextId => Unmarked(e, i)
Ahead(rank) == \A e \in Relays, i \in Id : Unmarked(e, i) \/ Past(rank, e, i)

\* All that has to do with an OUT path comes from the send call of that path.
Homely(e, p) == /\ \A q \in Owned(e) : q.id = p.id => q.ctx = p.ctx
                /\ FreeOf(e, p.id, Ctx \ {p.ctx})
Home == \A e \in Ext : \A p \in Owned(e) : Homely(e, p)

\* The fields of a command have their types.
LEMMA CmdKind == /\ CmdMsg \subseteq Msg
                 /\ \A m \in CmdMsg : /\ m.kind = "cmd" /\ m.id \in Id /\ m.ctx \in Ctx
                                      /\ m.src \in Ext /\ m.dst \in Ext
  BY DEF Msg, CmdMsg

\* What is not under way is not under way after a step that sends nothing.
LEMMA Remains ==
    ASSUME TypeOK, [Next]_vars, ~Dispatches, NEW G, NEW Q, Closed(G, Q), Within(G, Q)
    PROVE  Within(G, Q)'
  BY StepWithin DEF Dispatches

\* Only a send call adds a path that may get a result.
LEMMA OwnedFewer ==
    ASSUME TypeOK, PendingHome, [Next]_vars, ~Dispatches
    PROVE  \A z \in Ext : Owned(z)' \subseteq Owned(z)
<1>1. Within(Msg, InPath)
  <2>1. \A s : s \in Seq(CmdMsg) => s \in Seq(Msg)
    BY CmdKind
  <2> QED
    BY <2>1 DEF TypeOK, Within
<1> QED
  BY <1>1, StepHandles DEF Dispatches

\* An id that an extension does not use stays so until it sends.
LEMMA UnmarkedStays ==
    ASSUME TypeOK, PendingHome, [Next]_vars, ~Dispatches, NEW e \in Ext, NEW i,
           Unmarked(e, i)
    PROVE  Unmarked(e, i)'
<1>1. FreeOf(e, i, Ctx)'
  BY MarksClosed, Remains DEF Unmarked, FreeOf
<1>2. \A p \in Owned(e)' : p.id # i
  BY OwnedFewer DEF Unmarked
<1> QED
  BY <1>1, <1>2 DEF Unmarked

\* Commands that go up go on to do so.
LEMMA ClimbsStays ==
    ASSUME TypeOK, [Next]_vars, ~Dispatches, NEW rank, Climbs(rank)
    PROVE  Climbs(rank)'
<1>1. Closed(Msg \ Downhill(rank), InPath)
  BY CmdKind, CmdsApart DEF Downhill
<1> QED
  BY <1>1, Remains DEF Climbs

\* An extension that comes to hold the command is further up than its sender.
LEMMA PastStays ==
    ASSUME TypeOK, PendingHome, [Next]_vars, ~Dispatches, NEW rank, Uphill(rank),
           Climbs(rank), NEW e \in Ext, NEW i \in Id, i # nextId, Past(rank, e, i)
    PROVE  Past(rank, e, i)'
<1> DEFINE B == Below(rank, e, i)
           D == Downhill(rank)
           G == Msg \ (B \cup D)
<1>1. B \subseteq Msg /\ D \subseteq Msg
  BY CmdKind DEF Below, Downhill
<1>2. Within(Msg \ B, InPath) /\ Within(Msg \ D, InPath)
  BY DEF Past, Climbs
<1>3. Within(Msg \ B, InPath)'
  <2>1. Closed(Msg \ B, InPath)
    BY CmdKind, CmdsApart DEF Below
  <2> HIDE DEF B
  <2> QED
    BY <1>2, <2>1, Remains
<1>4. Within(G, InPath) /\ G \subseteq Msg
  <2> HIDE DEF B, D
  <2> QED
    BY <1>1, <1>2, WithinBoth
<1>5. Handles(G)
  <2> HIDE DEF G
  <2> QED
    BY <1>4, StepHandles DEF Dispatches
<1>6. ASSUME NEW x \in Ext, i \in held'[x]
      PROVE  rank[e] < rank[x]
  <2>1. CASE i \in held[x]
    BY <2>1 DEF Past
  <2>2. CASE i \notin held[x]
    <3>1. PICK f \in Ext : TakesCmd(G, f)
      BY <1>5, <1>6, <2>2 DEF Handles, Idles, TakesResult
    <3>2. PICK m \in G : m \in CmdFor(f) /\ \E left : TakeCmd(f, m, left)
      BY <3>1 DEF TakesCmd
    <3>3. m.id \in Id /\ m.src \in Ext /\ m.dst = f /\ m \in CmdMsg
      BY <3>2, CmdKind DEF CmdFor
    <3>4. \/ held' = held
          \/ held' = [held EXCEPT ![f] = @ \cup {nextId}]
          \/ held' = [held EXCEPT ![f] = @ \cup {m.id}]
      BY <3>2 DEF TakeCmd
    <3>5. x = f /\ i = m.id
      BY <1>6, <2>2, <3>4 DEF TypeOK
    <3>6. m \notin B /\ m \notin D
      BY <3>2
    <3>7. /\ rank[e] <= rank[m.src] /\ rank[m.src] < rank[x]
          /\ rank[e] \in Nat /\ rank[x] \in Nat /\ rank[m.src] \in Nat
      BY <3>3, <3>5, <3>6 DEF Below, Downhill, Uphill
    <3> QED
      BY <3>7
  <2> QED
    BY <2>1, <2>2
<1> QED
  BY <1>3, <1>6 DEF Past

\* The paths keep to themselves in a step that sends nothing.
LEMMA HomeStays ==
    ASSUME TypeOK, PendingHome, [Next]_vars, ~Dispatches, Home
    PROVE  Home'
<1>1. ASSUME NEW e \in Ext, NEW p \in Owned(e)'
      PROVE  Homely(e, p)'
  <2>1. Owned(e)' \subseteq Owned(e) /\ p \in Owned(e)
    BY <1>1, OwnedFewer
  <2>2. Homely(e, p)
    BY <2>1 DEF Home
  <2>3. FreeOf(e, p.id, Ctx \ {p.ctx})'
    BY <2>2, MarksClosed, Remains DEF Homely, FreeOf
  <2> QED
    BY <2>1, <2>2, <2>3 DEF Homely
<1> QED
  BY <1>1 DEF Home

-----------------------------------------------------------------------------
\* What a send call adds.

\* e sends a command under a new id, or forwards one that it holds.
Starts(e, i, h, fresh) ==
    /\ Sends(e, i, h, fresh) /\ UNCHANGED flush
    /\ \/ i = nextId /\ fresh = nextId + 1 /\ held' = held
       \/ e \in Relays /\ i \in held[e] /\ fresh = nextId
          /\ held' = [held EXCEPT ![e] = @ \ {i}]

\* The code sends a command of its own or passes one on.
LEMMA DispatchStarts ==
    ASSUME TypeOK, IdsIssued, Dispatches
    PROVE  \E e \in Ext, h \in HandlerKinds, i \in Id, fresh \in 1 .. MaxId + 1 :
              Starts(e, i, h, fresh)
<1>1. ASSUME NEW e \in Ext, NEW h \in HandlerKinds, Send(e, h)
      PROVE  \E i \in Id, fresh \in 1 .. MaxId + 1 : Starts(e, i, h, fresh)
  <2>1. nextId \in Id /\ nextId + 1 \in 1 .. MaxId + 1 /\ nextId < nextId + 1
    BY <1>1, BoundAssumption DEF Send, Id
  <2>2. Starts(e, nextId, h, nextId + 1)
    BY <1>1, <2>1 DEF Send, Sends, Starts, histVars, lifeVars
  <2> QED
    BY <2>1, <2>2
<1>2. ASSUME NEW e \in Ext, NEW h \in HandlerKinds, NEW i \in held[e], Forward(e, i, h)
      PROVE  \E j \in Id, fresh \in 1 .. MaxId + 1 : Starts(e, j, h, fresh)
  <2>1. i \in Id /\ nextId \in 1 .. MaxId + 1 /\ i \in 1 .. nextId - 1
    BY DEF TypeOK, IdsIssued
  <2>2. i < nextId
    BY <2>1
  <2>3. Starts(e, i, h, nextId)
    BY <1>2, <2>2 DEF Forward, Sends, Starts, histVars, lifeVars
  <2> QED
    BY <2>1, <2>3
<1> QED
  BY <1>1, <1>2 DEF Dispatches

\* The ids of the commands of a send call.
NewIds(e, i, fresh) == {Launched(e, i, fresh)[k].id : k \in DOMAIN Route[e]}

\* The messages of a send call.
LEMMA StartCmds ==
    ASSUME TypeOK, NEW e \in Ext, NEW i \in Id, NEW h \in HandlerKinds,
           NEW fresh \in 1 .. MaxId + 1, Starts(e, i, h, fresh),
           NEW k \in DOMAIN Route[e], NEW m, m = Launched(e, i, fresh)[k]
    PROVE  /\ m \in CmdMsg /\ m.id \in NewIds(e, i, fresh) /\ m.src = e
           /\ m.dst = Route[e][k] /\ m.ctx = Len(sent) + 1 /\ m.kind = "cmd"
<1>1. Launch(e, i, h, fresh) /\ i < fresh
  BY DEF Starts, Sends
<1> DEFINE s == Launched(e, i, fresh)
<1>2. /\ s \in Seq(CmdMsg) /\ DOMAIN s = DOMAIN Route[e]
      /\ s[k].ctx = Len(sent) + 1 /\ s[k].kind = "cmd" /\ s[k].src = e
      /\ s[k].dst = Route[e][k]
  BY <1>1, LaunchedMsgs
<1>3. s[k].id \in NewIds(e, i, fresh)
  BY DEF NewIds
<1> HIDE DEF s
<1>4. s[k] \in CmdMsg
  BY <1>2
<1> QED
  BY <1>2, <1>3, <1>4 DEF s

\* The ids of a send call are new, but for that of a command that is passed on.
LEMMA StartIds ==
    ASSUME TypeOK, NEW e \in Ext, NEW i \in Id, NEW h \in HandlerKinds,
           NEW fresh \in 1 .. MaxId + 1, Starts(e, i, h, fresh)
    PROVE  /\ \A j \in NewIds(e, i, fresh) :
                /\ j \in Id /\ j < nextId'
                /\ \/ j >= nextId
                   \/ /\ j = i /\ i \in held[e] /\ e \in Relays
                      /\ held' = [held EXCEPT ![e] = @ \ {i}]
           /\ nextId <= nextId' /\ nextId \in Nat /\ nextId' \in Nat
           /\ \A x \in Ext : held'[x] \subseteq held[x]
<1> DEFINE n == Len(Route[e])
<1>1. /\ Launch(e, i, h, fresh) /\ i < fresh
      /\ nextId' = fresh + (n - 1) /\ Route[e] # <<>>
  BY DEF Starts, Sends, Launch
<1>2. n \in Nat /\ DOMAIN Route[e] = 1 .. n /\ n >= 1
  BY <1>1, GraphAssumption
<1>3. nextId \in Nat /\ fresh \in Nat /\ i \in Nat /\ fresh >= nextId
  BY BoundAssumption DEF TypeOK, Id, Starts
<1>4. ASSUME NEW k \in DOMAIN Route[e], NEW j, j = Launched(e, i, fresh)[k].id
      PROVE  /\ j \in Id /\ j < nextId'
             /\ \/ j >= nextId
                \/ /\ j = i /\ i \in held[e] /\ e \in Relays
                   /\ held' = [held EXCEPT ![e] = @ \ {i}]
  <2>1. j = IF k = 1 THEN i ELSE fresh + (k - 2)
    BY <1>1, <1>4, LaunchedMsgs
  <2>2. j \in Id
    BY <1>4, StartCmds, CmdKind
  <2>3. k \in 1 .. n
    BY <1>2
  <2>4. CASE k = 1
    BY <1>1, <1>2, <1>3, <2>1, <2>2, <2>4 DEF Starts
  <2>5. CASE k # 1
    BY <1>1, <1>2, <1>3, <2>1, <2>2, <2>3, <2>5
  <2> QED
    BY <2>4, <2>5
<1>5. \A x \in Ext : held'[x] \subseteq held[x]
  BY DEF Starts, TypeOK
<1>6. nextId <= nextId' /\ nextId' \in Nat
  BY <1>1, <1>2, <1>3
<1> QED
  BY <1>3, <1>4, <1>5, <1>6 DEF NewIds

\* The OUT paths of a send call.
LEMMA StartOwned ==
    ASSUME TypeOK, NEW e \in Ext, NEW i \in Id, NEW h \in HandlerKinds,
           NEW fresh \in 1 .. MaxId + 1, Starts(e, i, h, fresh)
    PROVE  /\ \A x \in Ext : x # e => Owned(x)' = Owned(x)
           /\ \A p \in Owned(e)' :
                p \in Owned(e) \/ (p.id \in NewIds(e, i, fresh) /\ p.ctx = Len(sent) + 1)
<1> DEFINE dests == Route[e]
           pid(k) == IF k = 1 THEN i ELSE fresh + (k - 2)
           new(k) == [id |-> pid(k), orig |-> IF k = 1 THEN NoId ELSE i,
                      handler |-> h, ctx |-> Len(sent) + 1]
<1>1. /\ Launch(e, i, h, fresh) /\ i < fresh /\ flush' = flush
      /\ outPaths' = [outPaths EXCEPT ![e] = @ \cup {new(k) : k \in DOMAIN dests}]
  BY DEF Starts, Sends, Launch
<1>2. \A k \in DOMAIN dests : pid(k) \in NewIds(e, i, fresh)
  <2>1. \A k \in DOMAIN dests : Launched(e, i, fresh)[k].id = pid(k)
    BY <1>1, LaunchedMsgs
  <2> QED
    BY <2>1 DEF NewIds
<1>3. \A k \in DOMAIN dests : new(k).id = pid(k) /\ new(k).ctx = Len(sent) + 1
  OBVIOUS
<1> HIDE DEF pid, new, dests
<1>4. /\ \A x \in Ext : x # e => outPaths'[x] = outPaths[x]
      /\ outPaths'[e] = outPaths[e] \cup {new(k) : k \in DOMAIN dests}
  BY <1>1 DEF TypeOK
<1>5. ASSUME NEW p \in Owned(e)'
      PROVE  p \in Owned(e) \/ (p.id \in NewIds(e, i, fresh) /\ p.ctx = Len(sent) + 1)
  <2>1. p \in outPaths[e] \/ p \in flush[e] \/ \E k \in DOMAIN dests : p = new(k)
    BY <1>1, <1>4, <1>5 DEF Owned
  <2>2. ASSUME NEW k \in DOMAIN dests, p = new(k)
        PROVE  p.id \in NewIds(e, i, fresh) /\ p.ctx = Len(sent) + 1
    BY <1>2, <1>3, <2>2
  <2>3. CASE p \in outPaths[e] \/ p \in flush[e]
    BY <2>3 DEF Owned
  <2> QED
    BY <2>1, <2>2, <2>3, Zenon
<1>6. ASSUME NEW x \in Ext, x # e PROVE Owned(x)' = Owned(x)
  BY <1>1, <1>4, <1>6 DEF Owned
<1> QED
  BY <1>5, <1>6

\* Nothing comes under way but the commands of the send call.
LEMMA StartWithin ==
    ASSUME TypeOK, NEW e \in Ext, NEW i \in Id, NEW h \in HandlerKinds,
           NEW fresh \in 1 .. MaxId + 1, Starts(e, i, h, fresh),
           NEW T, NEW Q, Within(Msg \ T, Q),
           \A m \in CmdMsg : /\ m.id \in NewIds(e, i, fresh) /\ m.src = e
                             /\ m.ctx = Len(sent) + 1
                             /\ \E k \in DOMAIN Route[e] : m.dst = Route[e][k]
                             => m \notin T
    PROVE  Within(Msg \ T, Q)'
<1>1. ASSUME NEW k \in DOMAIN Route[e]
      PROVE  Launched(e, i, fresh)[k] \in Msg \ T
  <2> DEFINE m == Launched(e, i, fresh)[k]
  <2>1. /\ m \in CmdMsg /\ m.id \in NewIds(e, i, fresh) /\ m.src = e
        /\ m.dst = Route[e][k] /\ m.ctx = Len(sent) + 1
    BY StartCmds
  <2> HIDE DEF m
  <2>2. m \notin T
    BY <2>1
  <2>3. m \in Msg
    BY <2>1, CmdKind
  <2> QED
    BY <2>2, <2>3 DEF m
<1>2. Sends(e, i, h, fresh)
  BY DEF Starts
<1> QED
  BY <1>1, <1>2, SendsWithin

\* The extension does not use the ids of a send call before it.
LEMMA StartUnmarked ==
    ASSUME TypeOK, NEW e \in Ext, NEW i \in Id, NEW h \in HandlerKinds,
           NEW fresh \in 1 .. MaxId + 1, Starts(e, i, h, fresh),
           NEW rank, Uphill(rank), Fresh, Ahead(rank)
    PROVE  \A j \in NewIds(e, i, fresh) : Unmarked(e, j)
<1>1. ASSUME NEW j \in NewIds(e, i, fresh)
      PROVE  Unmarked(e, j)
  <2>1. j \in Id /\ (j >= nextId \/ (e \in Relays /\ j \in held[e]))
    BY StartIds
  <2>2. CASE j >= nextId
    BY <2>1, <2>2 DEF Fresh
  <2>3. CASE e \in Relays /\ j \in held[e]
    <3>1. ~(rank[e] < rank[e])
      BY DEF Uphill
    <3> QED
      BY <2>1, <2>3, <3>1 DEF Ahead, Past
  <2> QED
    BY <2>1, <2>2, <2>3
<1> QED
  BY <1>1

\* A send call uses its own ids only.
LEMMA UnmarkedStart ==
    ASSUME TypeOK, NEW e \in Ext, NEW i \in Id, NEW h \in HandlerKinds,
           NEW fresh \in 1 .. MaxId + 1, Starts(e, i, h, fresh),
           NEW f \in Ext, NEW j, Unmarked(f, j), f # e \/ j \notin NewIds(e, i, fresh)
    PROVE  Unmarked(f, j)'
<1>1. FreeOf(f, j, Ctx)'
  <2>1. \A m \in CmdMsg : m.id \in NewIds(e, i, fresh) /\ m.src = e => m \notin MarksOf(f, j, Ctx)
    BY CmdKind DEF MarksOf
  <2> QED
    BY <2>1, StartWithin DEF Unmarked, FreeOf
<1>2. \A p \in Owned(f)' : p.id # j
  <2>1. CASE f # e
    BY <2>1, StartOwned DEF Unmarked
  <2>2. CASE f = e
    BY <2>2, StartOwned DEF Unmarked
  <2> QED
    BY <2>1, <2>2
<1> QED
  BY <1>1, <1>2 DEF Unmarked

\* Ids that were not generated stay unused through a send call.
LEMMA FreshStart ==
    ASSUME TypeOK, NEW e \in Ext, NEW i \in Id, NEW h \in HandlerKinds,
           NEW fresh \in 1 .. MaxId + 1, Starts(e, i, h, fresh), Fresh
    PROVE  Fresh'
<1>1. ASSUME NEW f \in Ext, NEW j \in Id, j >= nextId'
      PROVE  Unmarked(f, j)'
  <2>1. /\ \A l \in NewIds(e, i, fresh) : l < nextId'
        /\ nextId <= nextId' /\ nextId \in Nat /\ nextId' \in Nat
    BY StartIds
  <2>2. j \in Nat
    BY DEF Id
  <2>3. j >= nextId /\ j \notin NewIds(e, i, fresh)
    BY <1>1, <2>1, <2>2
  <2>4. Unmarked(f, j)
    BY <2>3 DEF Fresh
  <2> QED
    BY <2>3, <2>4, UnmarkedStart
<1> QED
  BY <1>1 DEF Fresh

\* What a relay sends goes up.
LEMMA ClimbsStart ==
    ASSUME TypeOK, NEW e \in Ext, NEW i \in Id, NEW h \in HandlerKinds,
           NEW fresh \in 1 .. MaxId + 1, Starts(e, i, h, fresh),
           NEW rank, Uphill(rank), Climbs(rank)
    PROVE  Climbs(rank)'
<1>1. \A m \in CmdMsg : m.src = e /\ (\E k \in DOMAIN Route[e] : m.dst = Route[e][k])
         => m \notin Downhill(rank)
  BY DEF Uphill, Downhill
<1> HIDE DEF Downhill
<1> QED
  BY <1>1, StartWithin DEF Climbs

\* A command that has passed f is not sent back to it.
LEMMA PastStart ==
    ASSUME TypeOK, NEW e \in Ext, NEW i \in Id, NEW h \in HandlerKinds,
           NEW fresh \in 1 .. MaxId + 1, Starts(e, i, h, fresh),
           NEW rank, Uphill(rank), NEW f \in Ext, NEW j, Past(rank, f, j),
           (e \in Relays /\ rank[f] <= rank[e]) \/ j \notin NewIds(e, i, fresh)
    PROVE  Past(rank, f, j)'
<1>1. \A m \in CmdMsg : m.id \in NewIds(e, i, fresh) /\ m.src = e => m \notin Below(rank, f, j)
  <2>1. rank[e] \in Nat /\ rank[f] \in Nat
    BY DEF Uphill
  <2> QED
    BY <2>1 DEF Below
<1>2. Within(Msg \ Below(rank, f, j), InPath)'
  <2>1. Within(Msg \ Below(rank, f, j), InPath)
    BY DEF Past
  <2> QED
    BY <1>1, <2>1, StartWithin
<1>3. \A x \in Ext : j \in held'[x] => rank[f] < rank[x]
  BY StartIds DEF Past
<1> QED
  BY <1>2, <1>3 DEF Past

\* Where a command is held it is the only one with its id.
LEMMA HeldAlone ==
    ASSUME NEW i, OneCmd(i), NEW e \in Ext, i \in held[e]
    PROVE  ~Met(Lines, CmdsOf(i)) /\ \A x \in Ext : i \in held[x] => x = e
BY DEF OneCmd, Alone, MetIn, SoleIn

\* When a send call is made nothing else has one of its ids.
LEMMA StartAlone ==
    ASSUME TypeOK, IdsIssued, NEW e \in Ext, NEW i \in Id, NEW h \in HandlerKinds,
           NEW fresh \in 1 .. MaxId + 1, Starts(e, i, h, fresh), CmdsOnce
    PROVE  \A j \in NewIds(e, i, fresh) :
              ~Met(Lines, CmdsOf(j)) /\ \A x \in Ext : j \notin held'[x]
<1>1. ASSUME NEW j \in NewIds(e, i, fresh)
      PROVE  ~Met(Lines, CmdsOf(j)) /\ \A x \in Ext : j \notin held'[x]
  <2>1. /\ j \in Id /\ \A x \in Ext : held'[x] \subseteq held[x]
        /\ \/ j >= nextId
           \/ j = i /\ i \in held[e] /\ held' = [held EXCEPT ![e] = @ \ {i}]
    BY StartIds
  <2>2. CASE j >= nextId
    <3>1. Nowhere(Lines, held, CmdsOf(j), {j})
      BY <2>1, <2>2, NextUnheld
    <3> QED
      BY <2>1, <3>1 DEF Nowhere, MetIn
  <2>3. CASE j = i /\ i \in held[e] /\ held' = [held EXCEPT ![e] = @ \ {i}]
    <3>1. ~Met(Lines, CmdsOf(j)) /\ \A x \in Ext : j \in held[x] => x = e
      BY <2>1, <2>3, HeldAlone DEF CmdsOnce
    <3>2. j \notin held'[e]
      BY <2>3 DEF TypeOK
    <3> QED
      BY <2>1, <3>1, <3>2
  <2> QED
    BY <2>1, <2>2, <2>3
<1> QED
  BY <1>1

\* A send call leaves one command at most with each id.
LEMMA OnceStart ==
    ASSUME TypeOK, IdsIssued, NEW e \in Ext, NEW i \in Id, NEW h \in HandlerKinds,
           NEW fresh \in 1 .. MaxId + 1, Starts(e, i, h, fresh), CmdsOnce
    PROVE  CmdsOnce'
<1> DEFINE s == Launched(e, i, fresh)
           hp2 == held'
<1>1. /\ Launch(e, i, h, fresh) /\ i < fresh /\ UNCHANGED <<pending, queue>>
  BY DEF Starts, Sends
<1>2. /\ DOMAIN s = DOMAIN Route[e]
      /\ \A k, l \in DOMAIN Route[e] : s[k].id = s[l].id => k = l
  BY <1>1, LaunchedMsgs
<1>3. \A z \in Ext : hp2[z] \subseteq held[z]
  BY StartIds
<1>4. \A j \in NewIds(e, i, fresh) : ~Met(Lines, CmdsOf(j)) /\ \A x \in Ext : j \notin hp2[x]
  BY StartAlone
<1> HIDE DEF hp2
<1>5. ASSUME NEW j \in Id
      PROVE  OneCmd(j)'
  <2> DEFINE T == CmdsOf(j)
  <2>1. \A m \in T : m.id = j
    BY DEF CmdsOf
  <2>2. Alone(Lines, held, T, {j})
    BY DEF CmdsOnce, OneCmd
  <2>3. Has(s, T) => j \in NewIds(e, i, fresh)
    BY <1>2, <2>1 DEF Has, NewIds
  <2>4. Once(s, T)
    <3> HIDE DEF s, T
    <3> QED
      BY <1>2, <2>1 DEF Once
  <2>5. j \in NewIds(e, i, fresh) => Nowhere(Lines, hp2, T, {j})
    BY <1>4 DEF Nowhere, MetIn
  <2> HIDE DEF s, T
  <2>6. Alone(Lines, hp2, T, {j})
    BY <1>3, <2>2, FewerIn
  <2>7. Fits(Lines, hp2, T, {j}, Has(s, T))
    BY <2>3, <2>5, <2>6 DEF Fits
  <2>8. Fits(Lines, hp2, T, {j}, Has(s, T)) => Alone(Lines', hp2, T, {j})
    BY <1>1, <2>4, LaunchLines DEF s
  <2> QED
    BY <2>7, <2>8 DEF OneCmd, T, hp2
<1> QED
  BY <1>5 DEF CmdsOnce

\* What was sent has passed its sender.
LEMMA StartPast ==
    ASSUME TypeOK, IdsIssued, NEW e \in Ext, NEW i \in Id, NEW h \in HandlerKinds,
           NEW fresh \in 1 .. MaxId + 1, Starts(e, i, h, fresh), CmdsOnce,
           e \in Relays, NEW rank, Uphill(rank), NEW j \in NewIds(e, i, fresh)
    PROVE  Past(rank, e, j)'
<1>1. ~Met(Lines, CmdsOf(j)) /\ \A x \in Ext : j \notin held'[x]
  BY StartAlone
<1>2. Within(Msg \ CmdsOf(j), InPath)
  BY <1>1, MetWithin
<1>3. Within(Msg \ Below(rank, e, j), InPath)
  <2>1. Below(rank, e, j) \subseteq CmdsOf(j)
    BY CmdKind DEF Below, CmdsOf
  <2>2. Msg \ CmdsOf(j) \subseteq Msg \ Below(rank, e, j) /\ InPath \subseteq InPath
    BY <2>1
  <2> HIDE DEF Below, CmdsOf
  <2> QED
    BY <1>2, <2>2, WithinMore
<1>4. \A m \in CmdMsg : m.src = e => m \notin Below(rank, e, j)
  <2>1. rank[e] \in Nat
    BY DEF Uphill
  <2> QED
    BY <2>1 DEF Below
<1>5. Within(Msg \ Below(rank, e, j), InPath)'
  BY <1>3, <1>4, StartWithin
<1> QED
  BY <1>1, <1>5 DEF Past

\* What a relay has used is behind the command still, after a send call.
LEMMA AheadStart ==
    ASSUME TypeOK, IdsIssued, NEW e \in Ext, NEW i \in Id, NEW h \in HandlerKinds,
           NEW fresh \in 1 .. MaxId + 1, Starts(e, i, h, fresh), CmdsOnce,
           NEW rank, Uphill(rank), Fresh, Ahead(rank)
    PROVE  Ahead(rank)'
<1>1. ASSUME NEW f \in Relays, NEW j \in Id
      PROVE  Unmarked(f, j)' \/ Past(rank, f, j)'
  <2>1. CASE j \notin NewIds(e, i, fresh)
    BY <2>1, UnmarkedStart, PastStart, ActorsAssumption DEF Ahead
  <2>2. CASE j \in NewIds(e, i, fresh) /\ f = e
    BY <2>2, StartPast
  <2>3. CASE j \in NewIds(e, i, fresh) /\ f # e
    <3>0. f \in Ext
      BY ActorsAssumption
    <3>1. j >= nextId \/ (e \in Relays /\ j \in held[e])
      BY <2>3, StartIds
    <3>2. CASE Unmarked(f, j)
      BY <2>3, <3>0, <3>2, UnmarkedStart
    <3>3. CASE ~Unmarked(f, j)
      <4>1. Past(rank, f, j) /\ e \in Relays /\ j \in held[e]
        BY <3>0, <3>1, <3>3 DEF Fresh, Ahead
      <4>2. rank[f] <= rank[e]
        BY <3>0, <4>1 DEF Past, Uphill
      <4> QED
        BY <3>0, <4>1, <4>2, PastStart
    <3> QED
      BY <3>2, <3>3
  <2> QED
    BY <2>1, <2>2, <2>3
<1> QED
  BY <1>1 DEF Ahead

\* All that a new path has to do with is its own send call.
LEMMA HomeStart ==
    ASSUME TypeOK, NEW e \in Ext, NEW i \in Id, NEW h \in HandlerKinds,
           NEW fresh \in 1 .. MaxId + 1, Starts(e, i, h, fresh),
           NEW rank, Uphill(rank), Fresh, Ahead(rank), Home
    PROVE  Home'
<1> DEFINE N == NewIds(e, i, fresh)
           c == Len(sent) + 1
<1>1. \A j \in N : Unmarked(e, j)
  BY StartUnmarked
<1>2. /\ \A x \in Ext : x # e => Owned(x)' = Owned(x)
      /\ \A p \in Owned(e)' : p \in Owned(e) \/ (p.id \in N /\ p.ctx = c)
  BY StartOwned
<1>3. ASSUME NEW f \in Ext, NEW p \in Owned(f), f # e \/ p.id \notin N
      PROVE  FreeOf(f, p.id, Ctx \ {p.ctx})'
  <2>1. \A m \in CmdMsg : m.id \in N /\ m.src = e => m \notin MarksOf(f, p.id, Ctx \ {p.ctx})
    BY <1>3, CmdKind DEF MarksOf
  <2>2. FreeOf(f, p.id, Ctx \ {p.ctx})
    BY DEF Home, Homely
  <2> QED
    BY <2>1, <2>2, StartWithin DEF FreeOf
<1>4. ASSUME NEW f \in Ext, f # e, NEW p \in Owned(f)'
      PROVE  Homely(f, p)'
  BY <1>2, <1>3, <1>4 DEF Home, Homely
<1>5. ASSUME NEW p \in Owned(e)', p \in Owned(e)
      PROVE  Homely(e, p)'
  <2>1. p.id \notin N
    BY <1>1, <1>5 DEF Unmarked
  <2>2. \A q \in Owned(e)' : q.id = p.id => q.ctx = p.ctx
    BY <1>2, <1>5, <2>1 DEF Home, Homely
  <2> QED
    BY <1>3, <1>5, <2>1, <2>2 DEF Homely
<1>6. ASSUME NEW p \in Owned(e)', p.id \in N, p.ctx = c
      PROVE  Homely(e, p)'
  <2>1. \A q \in Owned(e) : q.id # p.id
    BY <1>1, <1>6 DEF Unmarked
  <2>2. \A q \in Owned(e)' : q.id = p.id => q.ctx = p.ctx
    BY <1>2, <1>6, <2>1
  <2>3. FreeOf(e, p.id, Ctx \ {p.ctx})
    <3> DEFINE A == MarksOf(e, p.id, Ctx)
               B == TrailsOf(e, p.id, Ctx)
               A2 == MarksOf(e, p.id, Ctx \ {p.ctx})
               B2 == TrailsOf(e, p.id, Ctx \ {p.ctx})
    <3>1. A2 \subseteq A /\ B2 \subseteq B
      BY DEF MarksOf, TrailsOf
    <3>2. Within(Msg \ A, InPath \ B)
      BY <1>1, <1>6 DEF Unmarked, FreeOf
    <3> HIDE DEF A, B, A2, B2
    <3>3. Msg \ A \subseteq Msg \ A2 /\ InPath \ B \subseteq InPath \ B2
      BY <3>1
    <3>4. Within(Msg \ A2, InPath \ B2)
      BY <3>2, <3>3, WithinMore
    <3> QED
      BY <3>4 DEF FreeOf, A2, B2
  <2>4. \A m \in CmdMsg : m.ctx = c => m \notin MarksOf(e, p.id, Ctx \ {p.ctx})
    BY <1>6 DEF MarksOf
  <2>5. FreeOf(e, p.id, Ctx \ {p.ctx})'
    <3> HIDE DEF c, N
    <3> QED
      BY <2>3, <2>4, StartWithin DEF FreeOf, c
  <2> QED
    BY <2>2, <2>5 DEF Homely
<1>7. ASSUME NEW f \in Ext, NEW p \in Owned(f)'
      PROVE  Homely(f, p)'
  BY <1>2, <1>4, <1>5, <1>6, <1>7
<1> QED
  BY <1>7 DEF Home

-----------------------------------------------------------------------------
\* Results come home.

\* At first nothing is under way.
LEMMA InitWithin == ASSUME Init, NEW G, NEW Q PROVE Within(G, Q)
<1>1. <<>> \in Seq(G) /\ <<>> \in Seq(G \cup {CloseTask})
  OBVIOUS
<1>2. /\ pending \in [Ext -> Seq(G)] /\ direct \in [Thread -> Seq(G)]
      /\ queue \in [Thread -> Seq(G \cup {CloseTask})] /\ engineQueue \in Seq(G)
  BY <1>1 DEF Init
<1>3. inPaths \in [Ext -> SUBSET Q]
  BY DEF Init
<1> QED
  BY <1>2, <1>3 DEF Within

\* Results come home as long as what is under way for a path is its own.
HomeInv(rank) == PendingHome /\ CmdsOnce /\ Climbs(rank) /\ Fresh /\ Ahead(rank) /\ Home

\* At first there is nothing that could go astray.
LEMMA HomeInvInit == ASSUME Init, NEW rank PROVE HomeInv(rank) /\ ResultsGoHome
<1>1. ASSUME NEW e \in Ext PROVE Owned(e) = {} /\ held[e] = {}
  BY DEF Init, Owned
<1>2. \A e \in Ext, i \in Id : Unmarked(e, i)
  BY <1>1, InitWithin DEF Unmarked, FreeOf
<1>3. Climbs(rank)
  BY InitWithin DEF Climbs
<1>4. Home
  BY <1>1 DEF Home
<1>5. CmdsOnce
  <2>1. Within({}, InPath)
    BY InitWithin
  <2>2. \A x \in Ext : held[x] = {}
    BY <1>1
  <2>3. ASSUME NEW i \in Id PROVE OneCmd(i)
    <3>1. \A m \in {} \cup {CloseTask} : m \notin CmdsOf(i)
      BY DEF CmdsOf, CloseTask
    <3>2. ~Met(Lines, CmdsOf(i))
      BY <2>1, <3>1, WithinMet
    <3>3. SoleIn(held, {i}) /\ ~MetIn(held, {i})
      BY <2>2 DEF SoleIn, MetIn
    <3>4. Sole(Lines, CmdsOf(i))
      <4>1. \A x \in Names : ~Has(Lines[x], CmdsOf(i))
        BY <3>2 DEF Met
      <4>2. \A x \in Names : Once(Lines[x], CmdsOf(i))
        <5> HIDE DEF Lines, CmdsOf, Names
        <5> QED
          BY <4>1 DEF Has, Once
      <4> QED
        BY <4>1, <4>2 DEF Sole
    <3> QED
      BY <3>2, <3>3, <3>4 DEF OneCmd, Alone
  <2> QED
    BY <2>3 DEF CmdsOnce
<1>6. ResultsGoHome
  BY DEF Init, ResultsGoHome
<1>7. PendingHome
  BY PendingInit
<1> QED
  BY <1>2, <1>3, <1>4, <1>5, <1>6, <1>7, ActorsAssumption DEF HomeInv, Fresh, Ahead

\* Ids are generated in order.
LEMMA NextIdGrows ==
    ASSUME TypeOK, PendingHome, [Next]_vars, ~Dispatches
    PROVE  nextId \in Nat /\ nextId' \in Nat /\ nextId <= nextId'
<1>0. nextId \in Nat
  BY BoundAssumption DEF TypeOK
<1>1. Within(Msg, InPath) /\ Msg \subseteq Msg
  <2>1. \A s : s \in Seq(CmdMsg) => s \in Seq(Msg)
    BY CmdKind
  <2> QED
    BY <2>1 DEF TypeOK, Within
<1>2. PICK G : Handles(G)
  BY <1>1, StepHandles DEF Dispatches
<1>3. CASE nextId' = nextId
  BY <1>0, <1>3
<1>4. ASSUME NEW e \in Ext, TakesCmd(G, e)
      PROVE  nextId' = nextId \/ nextId' = nextId + 1
  BY <1>4 DEF TakesCmd, TakeCmd
<1> QED
  BY <1>0, <1>2, <1>3, <1>4 DEF Handles, Idles, TakesResult

\* Ids that were not generated are not used.
LEMMA FreshStays ==
    ASSUME TypeOK, PendingHome, [Next]_vars, ~Dispatches, Fresh
    PROVE  Fresh'
<1>1. ASSUME NEW e \in Ext, NEW i \in Id, i >= nextId' PROVE Unmarked(e, i)'
  <2>1. i >= nextId
    <3>1. i \in Nat
      BY DEF Id
    <3> QED
      BY <1>1, <3>1, NextIdGrows
  <2> QED
    BY <2>1, UnmarkedStays DEF Fresh
<1> QED
  BY <1>1 DEF Fresh

\* What a relay has used stays behind the command.
LEMMA AheadStays ==
    ASSUME TypeOK, PendingHome, [Next]_vars, ~Dispatches, NEW rank, Uphill(rank),
           Climbs(rank), Fresh, Ahead(rank)
    PROVE  Ahead(rank)'
<1>1. ASSUME NEW e \in Relays, NEW i \in Id PROVE Unmarked(e, i)' \/ Past(rank, e, i)'
  <2>0. e \in Ext
    BY ActorsAssumption
  <2>1. CASE Unmarked(e, i)
    BY <2>0, <2>1, UnmarkedStays
  <2>2. CASE ~Unmarked(e, i)
    <3>1. i # nextId
      <4>1. i \in Nat
        BY DEF Id
      <4> QED
        BY <2>0, <2>2, <4>1 DEF Fresh
    <3> QED
      BY <2>0, <2>2, <3>1, PastStays DEF Ahead
  <2> QED
    BY <2>1, <2>2
<1> QED
  BY <1>1 DEF Ahead

\* A command stays in one place.
LEMMA OnceStays ==
    ASSUME TypeOK, IdsIssued, MsgsHome, [Next]_vars, ~Dispatches, CmdsOnce
    PROVE  CmdsOnce'
BY StepHeld DEF CmdsOnce, Dispatches

\* Every step keeps the paths apart.
LEMMA HomeInvStep ==
    ASSUME TypeOK, IdsIssued, MsgsHome, [Next]_vars, NEW rank, Uphill(rank), HomeInv(rank)
    PROVE  HomeInv(rank)'
<1>1. /\ PendingHome /\ CmdsOnce /\ Climbs(rank) /\ Fresh /\ Ahead(rank) /\ Home
      /\ PendingHome'
  BY PendingStep DEF HomeInv
<1>2. CASE Dispatches
  <2>1. PICK e \in Ext, h \in HandlerKinds, i \in Id, fresh \in 1 .. MaxId + 1 :
          Starts(e, i, h, fresh)
    BY <1>2, DispatchStarts
  <2>2. CmdsOnce' /\ Climbs(rank)'
    BY <1>1, <2>1, OnceStart, ClimbsStart
  <2>3. Fresh' /\ Ahead(rank)'
    BY <1>1, <2>1, FreshStart, AheadStart
  <2>4. Home'
    BY <1>1, <2>1, HomeStart
  <2> QED
    BY <1>1, <2>2, <2>3, <2>4 DEF HomeInv
<1>3. CASE ~Dispatches
  <2>1. CmdsOnce' /\ Climbs(rank)'
    BY <1>1, <1>3, OnceStays, ClimbsStays
  <2>2. Fresh' /\ Ahead(rank)'
    BY <1>1, <1>3, FreshStays, AheadStays
  <2>3. Home'
    BY <1>1, <1>3, HomeStays
  <2> QED
    BY <1>1, <2>1, <2>2, <2>3 DEF HomeInv
<1> QED
  BY <1>2, <1>3

-----------------------------------------------------------------------------
\* The results under way that come to a path of another send call.
Astray == {m \in ResultMsg : \E p \in Owned(m.dst) : p.id = m.id /\ p.ctx # m.ctx}

\* If all that has to do with a path is its own, no result goes astray.
LEMMA NoneAstray ==
    ASSUME TypeOK, Home
    PROVE  Within(Msg \ Astray, InPath)
<1> DEFINE Mine(m) == {p \in Owned(m.dst) : p.id = m.id /\ p.ctx # m.ctx}
<1>1. ASSUME NEW e \in Ext, NEW p \in Owned(e)
      PROVE  ~Met(Lines, MarksOf(e, p.id, Ctx \ {p.ctx}))
  <2> DEFINE T == MarksOf(e, p.id, Ctx \ {p.ctx})
             Q == InPath \ TrailsOf(e, p.id, Ctx \ {p.ctx})
  <2>1. Within(Msg \ T, Q)
    BY DEF Home, Homely, FreeOf
  <2>2. CloseTask \notin T
    <3>1. T \subseteq Msg /\ CloseTask \notin Msg
      BY MsgFields DEF MarksOf, CloseTask
    <3> QED
      BY <3>1
  <2> HIDE DEF T, Q
  <2>3. \A m \in (Msg \ T) \cup {CloseTask} : m \notin T
    BY <2>2
  <2> QED
    BY <2>1, <2>3, WithinMet DEF T
<1>2. ASSUME NEW m \in Astray
      PROVE  \E e \in Ext : \E p \in Owned(e) : m \in MarksOf(e, p.id, Ctx \ {p.ctx})
  <2>1. m \in Msg /\ m.dst \in Ext /\ m.ctx \in Ctx /\ m.kind = "result"
    BY DEF Astray, ResultMsg, Msg
  <2>2. PICK p \in Owned(m.dst) : p.id = m.id /\ p.ctx # m.ctx
    BY DEF Astray
  <2>3. m \in MarksOf(m.dst, p.id, Ctx \ {p.ctx})
    BY <2>1, <2>2 DEF MarksOf
  <2> QED
    BY <2>1, <2>3
<1>3. ~Met(Lines, Astray)
  <2> SUFFICES ASSUME NEW x \in Names, Has(Lines[x], Astray) PROVE FALSE
    BY DEF Met
  <2>1. PICK j \in DOMAIN Lines[x] : Lines[x][j] \in Astray
    BY DEF Has
  <2>2. PICK e \in Ext : \E p \in Owned(e) : Lines[x][j] \in MarksOf(e, p.id, Ctx \ {p.ctx})
    BY <1>2, <2>1
  <2>3. PICK p \in Owned(e) : Lines[x][j] \in MarksOf(e, p.id, Ctx \ {p.ctx})
    BY <2>2
  <2>4. Met(Lines, MarksOf(e, p.id, Ctx \ {p.ctx}))
    BY <2>3 DEF Met, Has
  <2> QED
    BY <1>1, <2>4
<1> QED
  BY <1>3, MetWithin

\* A result that is taken is heard on a path of its own send call.
LEMMA GoHomeStep ==
    ASSUME TypeOK, IdsIssued, HeardInv, PendingHome, Home, ResultsGoHome, [Next]_vars
    PROVE  ResultsGoHome'
<1>1. CASE UNCHANGED heard
  BY <1>1 DEF ResultsGoHome
<1>2. CASE Dispatches
  BY <1>1, <1>2, DispatchStarts DEF Starts, Sends
<1>3. CASE ~Dispatches
  <2>1. PICK G \in SUBSET Msg : G = Msg \ Astray
    OBVIOUS
  <2>2. Within(G, InPath)
    BY <2>1, NoneAstray
  <2>3. Handles(G)
    BY <1>3, <2>2, StepHandles DEF Dispatches
  <2>4. ASSUME NEW e \in Ext, TakesResult(G, e) PROVE ResultsGoHome'
    <3>1. PICK m \in ResultMsg :
            /\ \E left : TakeResult(e, m, left)
            /\ (m \in G /\ m.dst = e) \/ \E p \in Owned(e) : m = MadeUpResult(e, p)
      BY <2>4 DEF TakesResult
    <3>2. CASE UNCHANGED histVars
      BY <1>1, <3>2 DEF histVars
    <3>3. ASSUME NEW p \in FirstOutPath(e, m.id),
                 heard' = [heard EXCEPT ![p.ctx] = Append(@, HearingOf(m))]
          PROVE  ResultsGoHome'
      <4>1. p \in Owned(e) /\ p.id = m.id /\ p \in OutPath /\ p.ctx \in Ctx
        BY OutPathFields DEF FirstOutPath, Oldest, Owned, TypeOK
      <4>2. m.ctx = p.ctx
        <5>1. CASE m \in G /\ m.dst = e
          BY <2>1, <4>1, <5>1 DEF Astray
        <5>2. ASSUME NEW q \in Owned(e), m = MadeUpResult(e, q)
              PROVE  m.ctx = p.ctx
          <6>1. m.id = q.id /\ m.ctx = q.ctx
            BY <5>2 DEF MadeUpResult, Result
          <6> QED
            BY <4>1, <6>1 DEF Home, Homely
        <5> QED
          BY <3>1, <5>1, <5>2
      <4>3. HearingOf(m) \in Hearing /\ HearingOf(m).of = p.ctx
        BY <4>2, HearingType DEF HearingOf
      <4>4. /\ \A d \in Ctx : d # p.ctx => heard'[d] = heard[d]
            /\ \A k \in DOMAIN heard[p.ctx] : heard'[p.ctx][k] = heard[p.ctx][k]
            /\ \A k \in DOMAIN heard'[p.ctx] :
                 k \in DOMAIN heard[p.ctx] \/ heard'[p.ctx][k] = HearingOf(m)
        BY <3>3, <4>1, <4>3, HeardOnce
      <4> QED
        BY <4>1, <4>3, <4>4 DEF ResultsGoHome
    <3> QED
      BY <3>1, <3>2, <3>3 DEF TakeResult, HearingOf
  <2> QED
    BY <1>1, <2>3, <2>4 DEF Handles, Idles, TakesCmd
<1> QED
  BY <1>2, <1>3

\* No command that is passed on along the routes comes back to a relay.
LoopFree == \E rank \in [Ext -> Nat] : \A e \in Relays : \A k \in DOMAIN Route[e] :
                rank[e] < rank[Route[e][k]]

\* If no command that is passed on comes back, every result reaches the path of
\* the very send call that caused it, whatever expires and whoever closes: all
\* that is on its way for an id that an extension uses comes from the one send
\* call that has paths with it.  A command keeps its id from extension to
\* extension (path/path_table.c:193-257), a clone gets one of its own
\* (msg/msg.c:809-842), and a result finds its path by the id
\* (path/path_table.c:119-143).
THEOREM ResultsHome == LoopFree => (Spec => []ResultsGoHome)
<1> SUFFICES ASSUME LoopFree PROVE Spec => []ResultsGoHome
  OBVIOUS
<1>0. PICK rank : Uphill(rank)
  BY DEF LoopFree, Uphill
<1> DEFINE Inv == MsgsHome /\ HeardInv /\ HomeInv(rank) /\ ResultsGoHome
<1>1. Init => Inv
  BY HomeInit, TokensInit, HomeInvInit
<1>2. IInv /\ Inv /\ [Next]_vars => Inv'
  <2> SUFFICES ASSUME IInv, Inv, [Next]_vars PROVE Inv'
    OBVIOUS
  <2>1. TypeOK /\ IdsIssued /\ PathsOfSender
    BY DEF IInv, PathInv
  <2>2. MsgsHome' /\ HeardInv'
    BY <2>1, HomeStep, HeardStep
  <2>3. HomeInv(rank)'
    BY <1>0, <2>1, HomeInvStep
  <2>4. ResultsGoHome'
    BY <2>1, GoHomeStep DEF HomeInv
  <2> QED
    BY <2>2, <2>3, <2>4
<1>3. Inv => ResultsGoHome
  OBVIOUS
<1> HIDE DEF Inv
<1> QED
  BY <1>1, <1>2, <1>3, PathInvariant, PTL DEF Spec

\* There the handlers are told what the result return policy promises and nothing
\* else (path/path_group.c:133-229, path/path_table.c:475-565,
\* extension/msg_handling.c:103-158, ten_env/internal/send.c:183-200).
THEOREM VerdictsHold == LoopFree => (Spec => []PolicyVerdict)
<1> SUFFICES ASSUME LoopFree PROVE Spec => []PolicyVerdict
  OBVIOUS
<1>1. Spec => []ResultsGoHome
  BY ResultsHome
<1> QED
  BY <1>1, VerdictsFollow, PTL

-----------------------------------------------------------------------------
\* Lists of messages in the order of the send calls.

\* The messages of T are in the order of the send calls in the list s.
InCallOrder(s, T) ==
    \A j, k \in DOMAIN s :
        j < k /\ s[j] \in T /\ s[k] \in T => s[j].ctx <= s[k].ctx

\* No message of T in A is of a later send call than one in B.
NoneLater(A, B, T) == \A m \in A \cap T, p \in B \cap T : m.ctx <= p.ctx

\* The rest of a list is in order, and its head is not later than any of it.
LEMMA OrderTail ==
    ASSUME NEW S, NEW s \in Seq(S), s # <<>>, NEW T, \A m \in T : m.ctx \in Nat
    PROVE  /\ Head(s) \in Range(s)
           /\ Range(Tail(s)) \subseteq Range(s)
           /\ InCallOrder(s, T) =>
                /\ InCallOrder(Tail(s), T)
                /\ NoneLater({Head(s)}, Range(s), T)
<1> DEFINE u == Tail(s)
           n == Len(s)
<1>1. /\ n \in Nat /\ n >= 1 /\ DOMAIN s = 1 .. n /\ DOMAIN u = 1 .. n - 1
      /\ Head(s) = s[1]
      /\ \A k \in 1 .. n - 1 : u[k] = s[k + 1]
  OBVIOUS
<1> HIDE DEF u, n
<1>2. /\ 1 \in 1 .. n
      /\ \A k \in 1 .. n - 1 : k \in Nat /\ k + 1 \in 1 .. n
      /\ \A j, k \in 1 .. n - 1 : j < k => j + 1 < k + 1
      /\ \A k \in 1 .. n : k = 1 \/ 1 < k
  BY <1>1
<1>3. s[1] \in Range(s)
  BY <1>1, <1>2 DEF Range
<1>4. \A k \in 1 .. n - 1 : u[k] \in Range(s)
  BY <1>1, <1>2 DEF Range
<1>5. Range(u) \subseteq Range(s)
  BY <1>1, <1>4 DEF Range
<1>6. ASSUME InCallOrder(s, T)
      PROVE  InCallOrder(u, T)
  BY <1>1, <1>2, <1>6 DEF InCallOrder
<1>7. ASSUME InCallOrder(s, T)
      PROVE  NoneLater({s[1]}, Range(s), T)
  <2>1. ASSUME NEW k \in 1 .. n, s[1] \in T, s[k] \in T
        PROVE  s[1].ctx <= s[k].ctx
    <3>1. CASE k = 1
      BY <2>1, <3>1
    <3>2. CASE 1 < k
      BY <1>1, <1>2, <1>7, <2>1, <3>2 DEF InCallOrder
    <3> QED
      BY <1>2, <3>1, <3>2
  <2> QED
    BY <1>1, <2>1 DEF NoneLater, Range
<1> QED
  BY <1>1, <1>3, <1>5, <1>6, <1>7 DEF u

\* A list followed by another is in order if each is and the first is not later.
LEMMA OrderConcat ==
    ASSUME NEW S, NEW s \in Seq(S), NEW u \in Seq(S), NEW T
    PROVE  /\ Range(s \o u) = Range(s) \cup Range(u)
           /\ /\ InCallOrder(s, T) /\ InCallOrder(u, T)
              /\ NoneLater(Range(s), Range(u), T)
              => InCallOrder(s \o u, T)
<1> DEFINE v == s \o u
           a == Len(s)
           b == Len(u)
<1>1. /\ a \in Nat /\ b \in Nat /\ DOMAIN s = 1 .. a /\ DOMAIN u = 1 .. b
      /\ DOMAIN v = 1 .. a + b
      /\ \A j \in 1 .. a : v[j] = s[j]
      /\ \A j \in 1 .. b : v[j + a] = u[j]
  OBVIOUS
<1> HIDE DEF v, a, b
<1>2. /\ \A j \in 1 .. a + b : j \in 1 .. a \/ (j - a \in 1 .. b /\ j = (j - a) + a)
      /\ \A j \in 1 .. a : j \in 1 .. a + b
      /\ \A j \in 1 .. b : j + a \in 1 .. a + b
  BY <1>1
<1>3. Range(v) = Range(s) \cup Range(u)
  <2>1. \A j \in 1 .. a + b : v[j] \in Range(s) \cup Range(u)
    <3>1. ASSUME NEW j \in 1 .. a + b
          PROVE  v[j] \in Range(s) \cup Range(u)
      <4>1. CASE j \in 1 .. a
        BY <1>1, <4>1 DEF Range
      <4>2. CASE j - a \in 1 .. b /\ j = (j - a) + a
        <5>1. v[j] = u[j - a]
          BY <1>1, <4>2
        <5> QED
          BY <1>1, <4>2, <5>1, Zenon DEF Range
      <4> QED
        BY <1>2, <4>1, <4>2
    <3> QED
      BY <3>1
  <2>2. (\A j \in 1 .. a : s[j] \in Range(v)) /\ (\A j \in 1 .. b : u[j] \in Range(v))
    BY <1>1, <1>2 DEF Range
  <2> QED
    BY <1>1, <2>1, <2>2 DEF Range
<1>4. ASSUME InCallOrder(s, T), InCallOrder(u, T), NoneLater(Range(s), Range(u), T),
             NEW j \in 1 .. a + b, NEW k \in 1 .. a + b, j < k, v[j] \in T, v[k] \in T
      PROVE  v[j].ctx <= v[k].ctx
  <2>1. CASE j \in 1 .. a /\ k \in 1 .. a
    BY <1>1, <1>4, <2>1 DEF InCallOrder
  <2>2. CASE j \in 1 .. a /\ k - a \in 1 .. b /\ k = (k - a) + a
    <3>1. v[j] = s[j] /\ v[k] = u[k - a]
      BY <1>1, <2>2
    <3>2. s[j] \in Range(s) /\ u[k - a] \in Range(u)
      BY <1>1, <2>2, Zenon DEF Range
    <3> QED
      BY <1>4, <3>1, <3>2 DEF NoneLater
  <2>3. CASE k \in 1 .. a /\ j - a \in 1 .. b /\ j = (j - a) + a
    BY <1>1, <1>4, <2>3
  <2>4. CASE k - a \in 1 .. b /\ k = (k - a) + a /\ j - a \in 1 .. b /\ j = (j - a) + a
    <3>1. v[j] = u[j - a] /\ v[k] = u[k - a]
      BY <1>1, <2>4
    <3>2. j - a < k - a
      BY <1>1, <1>4, <2>4
    <3> QED
      BY <1>1, <1>4, <2>4, <3>1, <3>2, Zenon DEF InCallOrder
  <2> QED
    BY <1>2, <2>1, <2>2, <2>3, <2>4
<1> QED
  BY <1>1, <1>3, <1>4 DEF InCallOrder, v

\* So is one to which a message is added that is not earlier.
LEMMA OrderAppend ==
    ASSUME NEW S, NEW s \in Seq(S), NEW m \in S, NEW T
    PROVE  /\ Range(Append(s, m)) = Range(s) \cup {m}
           /\ InCallOrder(s, T) /\ NoneLater(Range(s), {m}, T)
              => InCallOrder(Append(s, m), T)
<1>1. Append(s, m) = s \o <<m>> /\ <<m>> \in Seq(S)
  OBVIOUS
<1>2. Range(<<m>>) = {m}
  BY DEF Range
<1>3. InCallOrder(<<m>>, T)
  <2>1. \A j, k \in DOMAIN <<m>> : ~(j < k)
    OBVIOUS
  <2> QED
    BY <2>1 DEF InCallOrder
<1> DEFINE u == <<m>>
<1>4. u \in Seq(S)
  BY <1>1
<1> HIDE DEF u
<1>5. /\ Range(s \o u) = Range(s) \cup Range(u)
      /\ InCallOrder(s, T) /\ InCallOrder(u, T) /\ NoneLater(Range(s), Range(u), T)
              => InCallOrder(s \o u, T)
  BY <1>4, OrderConcat
<1> QED
  BY <1>1, <1>2, <1>3, <1>5 DEF u

\* The messages of T are in the order of the send calls, up to call n, in p and
\* then in q and then in r: what waits in front is not of a later call.
InOrder(p, q, r, T, n) ==
    /\ InCallOrder(p, T) /\ InCallOrder(q, T) /\ InCallOrder(r, T)
    /\ NoneLater(Range(p), Range(q), T)
    /\ NoneLater(Range(p), Range(r), T)
    /\ NoneLater(Range(q), Range(r), T)
    /\ \A m \in (Range(p) \cup Range(q) \cup Range(r)) \cap T : m.ctx <= n

\* The lists hold messages and tasks, and the messages of T are commands.
Parcel == Msg \cup {CloseTask}
Parcels(p, q, r, T) == /\ p \in Seq(Parcel) /\ q \in Seq(Parcel) /\ r \in Seq(Parcel)
                       /\ T \subseteq CmdMsg

\* The commands of a set have the numbers of their send calls.
LEMMA CallsOfCmds == \A T : T \subseteq CmdMsg => \A m \in T : m.ctx \in Nat
  BY DEF CmdMsg, Ctx

\* The first message of p is taken.
LEMMA TakeFirst ==
    ASSUME NEW p, NEW q, NEW r, NEW T, NEW n, Parcels(p, q, r, T),
           InOrder(p, q, r, T, n), p # <<>>
    PROVE  /\ InOrder(Tail(p), q, r, T, n)
           /\ NoneLater({Head(p)}, Range(p) \cup Range(q) \cup Range(r), T)
<1> DEFINE u == Tail(p)
           h == Head(p)
<1>1. /\ h \in Range(p) /\ Range(u) \subseteq Range(p) /\ InCallOrder(u, T)
      /\ NoneLater({h}, Range(p), T)
  BY OrderTail, CallsOfCmds DEF Parcels, InOrder
<1> HIDE DEF u, h
<1>2. InOrder(u, q, r, T, n)
  BY <1>1 DEF InOrder, NoneLater
<1>3. NoneLater({h}, Range(p) \cup Range(q) \cup Range(r), T)
  BY <1>1 DEF InOrder, NoneLater
<1> QED
  BY <1>2, <1>3 DEF u, h

\* The first message of q is taken, or moves to the end of p.
LEMMA TakeSecond ==
    ASSUME NEW p, NEW q, NEW r, NEW T, NEW n, Parcels(p, q, r, T),
           InOrder(p, q, r, T, n), q # <<>>
    PROVE  /\ InOrder(p, Tail(q), r, T, n)
           /\ InOrder(Append(p, Head(q)), Tail(q), r, T, n)
           /\ NoneLater({Head(q)}, Range(q) \cup Range(r), T)
<1> DEFINE u == Tail(q)
           h == Head(q)
           p2 == Append(p, h)
<1>1. /\ h \in Range(q) /\ Range(u) \subseteq Range(q) /\ InCallOrder(u, T)
      /\ NoneLater({h}, Range(q), T)
  BY OrderTail, CallsOfCmds DEF Parcels, InOrder
<1>2. h \in Parcel
  BY DEF Parcels
<1> HIDE DEF u, h
<1>3. /\ Range(p2) = Range(p) \cup {h}
      /\ InCallOrder(p, T) /\ NoneLater(Range(p), {h}, T) => InCallOrder(p2, T)
  BY <1>2, OrderAppend DEF Parcels
<1> HIDE DEF p2
<1>4. InOrder(p, u, r, T, n)
  BY <1>1 DEF InOrder, NoneLater
<1>5. NoneLater(Range(p), {h}, T)
  BY <1>1 DEF InOrder, NoneLater
<1>6. NoneLater({h}, Range(q) \cup Range(r), T)
  BY <1>1 DEF InOrder, NoneLater
<1>7. InCallOrder(p2, T)
  BY <1>3, <1>5 DEF InOrder
<1>8. /\ NoneLater(Range(p2), Range(u), T) /\ NoneLater(Range(p2), Range(r), T)
      /\ \A m \in (Range(p2) \cup Range(u) \cup Range(r)) \cap T : m.ctx <= n
  BY <1>1, <1>3, <1>6 DEF InOrder, NoneLater
<1>9. InOrder(p2, u, r, T, n)
  BY <1>4, <1>7, <1>8 DEF InOrder
<1> QED
  BY <1>4, <1>6, <1>9 DEF u, h, p2

\* The first message of r is taken, or moves to the end of q.
LEMMA TakeThird ==
    ASSUME NEW p, NEW q, NEW r, NEW T, NEW n, Parcels(p, q, r, T),
           InOrder(p, q, r, T, n), r # <<>>
    PROVE  /\ InOrder(p, q, Tail(r), T, n)
           /\ InOrder(p, Append(q, Head(r)), Tail(r), T, n)
<1> DEFINE u == Tail(r)
           h == Head(r)
           q2 == Append(q, h)
<1>1. /\ h \in Range(r) /\ Range(u) \subseteq Range(r) /\ InCallOrder(u, T)
      /\ NoneLater({h}, Range(r), T)
  BY OrderTail, CallsOfCmds DEF Parcels, InOrder
<1>2. h \in Parcel
  BY DEF Parcels
<1> HIDE DEF u, h
<1>3. /\ Range(q2) = Range(q) \cup {h}
      /\ InCallOrder(q, T) /\ NoneLater(Range(q), {h}, T) => InCallOrder(q2, T)
  BY <1>2, OrderAppend DEF Parcels
<1> HIDE DEF q2
<1>4. InOrder(p, q, u, T, n)
  BY <1>1 DEF InOrder, NoneLater
<1>5. NoneLater(Range(q), {h}, T)
  BY <1>1 DEF InOrder, NoneLater
<1>6. InCallOrder(q2, T)
  BY <1>3, <1>5 DEF InOrder
<1>7. /\ NoneLater(Range(p), Range(q2), T) /\ NoneLater(Range(q2), Range(u), T)
      /\ \A m \in (Range(p) \cup Range(q2) \cup Range(u)) \cap T : m.ctx <= n
  BY <1>1, <1>3 DEF InOrder, NoneLater
<1>8. InOrder(p, q2, u, T, n)
  BY <1>4, <1>6, <1>7 DEF InOrder
<1> QED
  BY <1>4, <1>8 DEF u, h, q2

\* Something that is not of T is put into one of the lists.
LEMMA PutOther ==
    ASSUME NEW p, NEW q, NEW r, NEW T, NEW n, Parcels(p, q, r, T),
           InOrder(p, q, r, T, n), NEW m \in Parcel, m \notin T
    PROVE  /\ InOrder(Append(p, m), q, r, T, n)
           /\ InOrder(p, Append(q, m), r, T, n)
           /\ InOrder(p, q, Append(r, m), T, n)
<1> DEFINE p2 == Append(p, m)
           q2 == Append(q, m)
           r2 == Append(r, m)
<1>1. \A A : NoneLater(A, {m}, T)
  BY DEF NoneLater
<1>2. Range(p2) = Range(p) \cup {m} /\ (InCallOrder(p, T) => InCallOrder(p2, T))
  BY <1>1, OrderAppend DEF Parcels
<1>3. Range(q2) = Range(q) \cup {m} /\ (InCallOrder(q, T) => InCallOrder(q2, T))
  BY <1>1, OrderAppend, ZenonT(40) DEF Parcels
<1>4. Range(r2) = Range(r) \cup {m} /\ (InCallOrder(r, T) => InCallOrder(r2, T))
  BY <1>1, OrderAppend, ZenonT(40) DEF Parcels
<1> HIDE DEF p2, q2, r2
<1>5. InOrder(p2, q, r, T, n)
  BY <1>2 DEF InOrder, NoneLater
<1>6. InOrder(p, q2, r, T, n)
  BY <1>3 DEF InOrder, NoneLater
<1>7. InOrder(p, q, r2, T, n)
  BY <1>4 DEF InOrder, NoneLater
<1> QED
  BY <1>5, <1>6, <1>7 DEF p2, q2, r2

\* Other messages, or the messages of call n + 1, are put at the end of r.
LEMMA PutCall ==
    ASSUME NEW p, NEW q, NEW r, NEW T, NEW n \in Nat, Parcels(p, q, r, T),
           InOrder(p, q, r, T, n), NEW u \in Seq(Parcel)
    PROVE  /\ (\A m \in Range(u) : m \notin T) => InOrder(p, q, r \o u, T, n)
           /\ (\A m \in Range(u) : m.ctx = n + 1) => InOrder(p, q, r \o u, T, n + 1)
<1> DEFINE r2 == r \o u
<1>1. /\ Range(r2) = Range(r) \cup Range(u)
      /\ InCallOrder(r, T) /\ InCallOrder(u, T) /\ NoneLater(Range(r), Range(u), T)
           => InCallOrder(r2, T)
  BY OrderConcat DEF Parcels
<1> HIDE DEF r2
<1>2. \A j \in DOMAIN u : u[j] \in Range(u)
  BY DEF Range
<1>3. ASSUME \A m \in Range(u) : m \notin T
      PROVE  InOrder(p, q, r2, T, n)
  <2>1. InCallOrder(u, T) /\ NoneLater(Range(r), Range(u), T)
    BY <1>2, <1>3 DEF InCallOrder, NoneLater
  <2> QED
    BY <1>1, <1>3, <2>1 DEF InOrder, NoneLater
<1>4. ASSUME \A m \in Range(u) : m.ctx = n + 1
      PROVE  InOrder(p, q, r2, T, n + 1)
  <2>0. \A m \in T : m.ctx \in Nat
    BY CallsOfCmds DEF Parcels
  <2>1. InCallOrder(u, T)
    BY <1>2, <1>4 DEF InCallOrder
  <2>2. \A m \in (Range(p) \cup Range(q) \cup Range(r)) \cap T : m.ctx <= n + 1
    BY <2>0 DEF InOrder
  <2>3. /\ NoneLater(Range(p), Range(u), T) /\ NoneLater(Range(q), Range(u), T)
        /\ NoneLater(Range(r), Range(u), T)
    BY <1>4, <2>2 DEF NoneLater
  <2>4. InCallOrder(r2, T)
    BY <1>1, <2>1, <2>3 DEF InOrder
  <2>5. NoneLater(Range(p), Range(r2), T) /\ NoneLater(Range(q), Range(r2), T)
    BY <1>1, <2>3 DEF InOrder, NoneLater
  <2>6. \A m \in (Range(p) \cup Range(q) \cup Range(r2)) \cap T : m.ctx <= n + 1
    BY <1>1, <1>4, <2>2
  <2> QED
    BY <2>4, <2>5, <2>6 DEF InOrder
<1> QED
  BY <1>3, <1>4 DEF r2

-----------------------------------------------------------------------------
\* The commands on their way from one extension to another.

\* Thread t hands u to the engine and keeps v, of the messages msgs and left.
Parts(t, msgs, left, u, v) ==
    /\ engineQueue' = engineQueue \o u
    /\ direct' = [direct EXCEPT ![t] = v]
    /\ Range(u) \subseteq Range(msgs)
    /\ Range(v) \subseteq Range(msgs) \cup Range(left)
    /\ (\A k \in DOMAIN msgs : ThreadOf[msgs[k].dst] # t)
         => Range(v) \subseteq Range(left)

\* What a thread dispatches to other threads is of msgs, and what it leaves is
\* of left only when none of msgs is for itself.
LEMMA EmitParts ==
    ASSUME NEW t, NEW msgs \in Seq(Msg), NEW left \in Seq(Msg), Emit(t, msgs, left)
    PROVE  \E u \in Seq(Msg), v \in Seq(Msg) : Parts(t, msgs, left, u, v)
<1> DEFINE all == msgs \o left
           a == Len(msgs)
           b == Len(left)
<1>1. PICK n \in 0 .. a :
         /\ n < a => ThreadOf[all[n + 1].dst] = t
         /\ engineQueue' = engineQueue \o SubSeq(all, 1, n)
         /\ direct' = [direct EXCEPT ![t] = SubSeq(all, n + 1, Len(all))]
  BY DEF Emit
<1>2. /\ a \in Nat /\ b \in Nat /\ Len(all) = a + b /\ all \in Seq(Msg)
      /\ DOMAIN msgs = 1 .. a /\ DOMAIN left = 1 .. b /\ DOMAIN all = 1 .. a + b
      /\ \A j \in 1 .. a : all[j] = msgs[j]
      /\ \A j \in 1 .. b : all[j + a] = left[j]
  OBVIOUS
<1> HIDE DEF all, a, b
<1> DEFINE u == SubSeq(all, 1, n)
           v == SubSeq(all, n + 1, Len(all))
<1>3. n \in Nat /\ n <= a /\ n <= Len(all) /\ n + 1 \in Nat
  BY <1>1, <1>2
<1>4. /\ u \in Seq(Msg) /\ DOMAIN u = 1 .. n
      /\ \A j \in 1 .. n : u[j] = all[j]
  BY <1>2, <1>3
<1>5. /\ v \in Seq(Msg) /\ DOMAIN v = 1 .. a + b - n
      /\ \A j \in 1 .. a + b - n : v[j] = all[n + j]
  <2>1. v \in Seq(Msg) /\ Len(v) = IF n + 1 <= Len(all) THEN Len(all) - (n + 1) + 1 ELSE 0
    BY <1>2, <1>3
  <2>2. Len(v) = a + b - n
    BY <1>2, <1>3, <2>1
  <2>3. DOMAIN v = 1 .. a + b - n
    BY <2>1, <2>2
  <2>4. ASSUME NEW j \in 1 .. a + b - n
        PROVE  v[j] = all[n + j]
    <3>1. j \in 1 .. Len(all) - (n + 1) + 1 /\ (n + 1) + j - 1 = n + j
      BY <1>2, <1>3
    <3>2. v[j] = all[(n + 1) + j - 1]
      BY <1>2, <1>3, <3>1
    <3> QED
      BY <3>1, <3>2
  <2> QED
    BY <2>1, <2>3, <2>4
<1>6. engineQueue' = engineQueue \o u /\ direct' = [direct EXCEPT ![t] = v]
  BY <1>1
<1> HIDE DEF u, v
<1>7. Range(u) \subseteq Range(msgs)
  <2>1. \A j \in 1 .. n : j \in 1 .. a
    BY <1>2, <1>3
  <2>2. \A j \in 1 .. n : u[j] = msgs[j] /\ j \in DOMAIN msgs
    BY <1>2, <1>4, <2>1
  <2> QED
    BY <1>4, <2>2 DEF Range
<1>8. \A j \in 1 .. a + b - n :
        \/ n + j \in 1 .. a /\ n < a
        \/ n + j - a \in 1 .. b /\ n + j = (n + j - a) + a
  BY <1>2, <1>3
<1>9. ASSUME NEW j \in 1 .. a + b - n, n + j - a \in 1 .. b, n + j = (n + j - a) + a
      PROVE  v[j] \in Range(left)
  <2>1. v[j] = left[n + j - a]
    BY <1>2, <1>5, <1>9
  <2> QED
    BY <1>2, <1>9, <2>1, Zenon DEF Range
<1>10. Range(v) \subseteq Range(msgs) \cup Range(left)
  <2>1. ASSUME NEW j \in 1 .. a + b - n, n + j \in 1 .. a
        PROVE  v[j] \in Range(msgs)
    <3>1. v[j] = msgs[n + j]
      BY <1>2, <1>5, <2>1
    <3> QED
      BY <1>2, <2>1, <3>1, Zenon DEF Range
  <2> QED
    BY <1>5, <1>8, <1>9, <2>1 DEF Range
<1>11. ASSUME \A k \in DOMAIN msgs : ThreadOf[msgs[k].dst] # t
       PROVE  Range(v) \subseteq Range(left)
  <2>1. ~(n < a)
    <3>1. ASSUME n < a PROVE FALSE
      <4>1. n + 1 \in 1 .. a
        BY <1>2, <1>3, <3>1
      <4>2. all[n + 1] = msgs[n + 1] /\ n + 1 \in DOMAIN msgs
        BY <1>2, <4>1
      <4> QED
        BY <1>1, <1>11, <3>1, <4>2
    <3> QED
      BY <3>1
  <2> QED
    BY <1>5, <1>8, <1>9, <2>1 DEF Range
<1> QED
  BY <1>4, <1>5, <1>6, <1>7, <1>10, <1>11 DEF Parts

\* The commands of s for e, none of which is with a thread that dispatches.
Underway(s, e) == {m \in CmdMsg : m.src = s /\ m.dst = e}

NoneLeft(T) == \A t \in Thread : \A m \in Range(direct[t]) : m \notin T

OrderFor(e, T) ==
    /\ InOrder(pending[e], queue[ThreadOf[e]], engineQueue, T, Len(sent))
    /\ NoneLeft(T)

\* The commands of a sender that has no destination in its thread are in order,
\* and an extension puts commands aside until on_start_done only.
CallsInOrder == \A s, e \in Ext : Apart(s) => OrderFor(e, Underway(s, e))

PutAside == \A e \in Ext : state[e] \in {"starting", "running"} \/ pending[e] = <<>>

\* The lists of an extension and of a thread are lists of messages and tasks.
LEMMA AllParcels ==
    ASSUME TypeOK, NEW e \in Ext, NEW T, T \subseteq CmdMsg
    PROVE  /\ Parcels(pending[e], queue[ThreadOf[e]], engineQueue, T)
           /\ Len(sent) \in Nat /\ ThreadOf[e] \in Thread
<1>1. /\ pending[e] \in Seq(CmdMsg) /\ queue[ThreadOf[e]] \in Seq(Msg \cup {CloseTask})
      /\ engineQueue \in Seq(Msg) /\ ThreadOf[e] \in Thread /\ Len(sent) \in Nat
  BY ThreadType DEF TypeOK
<1>2. \A s \in Seq(CmdMsg) : s \in Seq(Msg \cup {CloseTask})
  BY DEF Msg
<1>3. \A s \in Seq(Msg) : s \in Seq(Msg \cup {CloseTask})
  OBVIOUS
<1> QED
  BY <1>1, <1>2, <1>3 DEF Parcels, Parcel

\* Dispatching results leaves the commands as they are.
LEMMA RepliesOrder ==
    ASSUME TypeOK, NEW e \in Ext, NEW T, T \subseteq CmdMsg, NEW p, NEW q, NEW n \in Nat,
           Parcels(p, q, engineQueue, T), InOrder(p, q, engineQueue, T, n), NoneLeft(T),
           NEW t \in Thread, NEW left \in Seq(Msg), \A m \in Range(left) : m \notin T,
           Replies(Msg, t, left)
    PROVE  InOrder(p, q, engineQueue', T, n) /\ NoneLeft(T)'
<1>1. PICK msgs \in Seq(ResultsIn(Msg)) : Emit(t, msgs, left)
  BY DEF Replies
<1>2. msgs \in Seq(Msg) /\ \A m \in Range(msgs) : m \notin T
  <2>1. \A m \in ResultsIn(Msg) : m \in Msg /\ m \notin CmdMsg
    BY DEF ResultsIn, CmdMsg
  <2>2. \A k \in DOMAIN msgs : msgs[k] \in ResultsIn(Msg)
    OBVIOUS
  <2>3. msgs \in Seq(Msg)
    BY <2>1
  <2> QED
    BY <2>1, <2>2, <2>3 DEF Range
<1>0. PICK u \in Seq(Msg), v \in Seq(Msg) : Parts(t, msgs, left, u, v)
  BY <1>1, <1>2, EmitParts
<1>3. /\ engineQueue' = engineQueue \o u
      /\ direct' = [direct EXCEPT ![t] = v]
      /\ Range(u) \subseteq Range(msgs)
      /\ Range(v) \subseteq Range(msgs) \cup Range(left)
  BY <1>0 DEF Parts
<1>4. u \in Seq(Parcel)
  BY DEF Parcel
<1>5. \A m \in Range(u) \cup Range(v) : m \notin T
  BY <1>2, <1>3
<1>6. InOrder(p, q, engineQueue \o u, T, n)
  BY <1>4, <1>5, PutCall
<1>7. direct'[t] = v /\ \A x \in Thread : x # t => direct'[x] = direct[x]
  BY <1>3 DEF TypeOK
<1>8. NoneLeft(T)'
  BY <1>5, <1>7 DEF NoneLeft
<1> QED
  BY <1>3, <1>6, <1>8

\* A send call puts its commands behind those of earlier calls.
LEMMA SendsOrder ==
    ASSUME TypeOK, NEW s \in Ext, NEW i \in Id, NEW h \in HandlerKinds,
           NEW fresh \in 1 .. MaxId + 1, Sends(s, i, h, fresh),
           NEW x \in Ext, Apart(x), NEW e \in Ext, OrderFor(e, Underway(x, e))
    PROVE  OrderFor(e, Underway(x, e))'
<1> DEFINE T == Underway(x, e)
           msgs == Launched(s, i, fresh)
           left == direct[ThreadOf[s]]
           n == Len(sent)
<1>1. /\ Launch(s, i, h, fresh) /\ i < fresh /\ UNCHANGED <<pending, queue>>
  BY DEF Sends
<1>2. /\ msgs \in Seq(Msg) /\ DOMAIN msgs = DOMAIN Route[s]
      /\ Emit(ThreadOf[s], msgs, left)
      /\ \A k \in DOMAIN Route[s] : /\ msgs[k].ctx = n + 1 /\ msgs[k].src = s
                                    /\ msgs[k].dst = Route[s][k]
  BY <1>1, LaunchedMsgs
<1>3. T \subseteq CmdMsg /\ left \in Seq(Msg) /\ ThreadOf[s] \in Thread
  BY ThreadType DEF TypeOK, Underway
<1>4. sent' = Append(sent, [by |-> s, handler |-> h])
  BY <1>1 DEF Launch
<1>5. Len(sent') = n + 1 /\ n \in Nat
  BY <1>4 DEF TypeOK
<1> HIDE DEF msgs, left, n
<1>0. PICK u \in Seq(Msg), v \in Seq(Msg) : Parts(ThreadOf[s], msgs, left, u, v)
  BY <1>2, <1>3, EmitParts
<1>6. /\ engineQueue' = engineQueue \o u
      /\ direct' = [direct EXCEPT ![ThreadOf[s]] = v]
      /\ Range(u) \subseteq Range(msgs)
      /\ Range(v) \subseteq Range(msgs) \cup Range(left)
      /\ (\A k \in DOMAIN msgs : ThreadOf[msgs[k].dst] # ThreadOf[s])
           => Range(v) \subseteq Range(left)
  BY <1>0 DEF Parts
<1>7. \A m \in Range(u) : m.ctx = n + 1
  <2>1. \A m \in Range(msgs) : m.ctx = n + 1
    BY <1>2 DEF Range
  <2> QED
    BY <1>6, <2>1
<1>8. \A m \in Range(left) : m \notin T
  BY <1>3 DEF OrderFor, NoneLeft, left
<1>9. \A m \in Range(v) : m \notin T
  <2>1. CASE s = x
    BY <1>2, <1>6, <1>8, <2>1 DEF Apart
  <2>2. CASE s # x
    <3>1. \A m \in Range(msgs) : m \notin T
      BY <1>2, <2>2 DEF Range, Underway
    <3> QED
      BY <1>6, <1>8, <3>1
  <2> QED
    BY <2>1, <2>2
<1>10. Parcels(pending[e], queue[ThreadOf[e]], engineQueue, T) /\ u \in Seq(Parcel)
  BY <1>3, AllParcels, SMTT(30) DEF Parcel
<1>11. InOrder(pending[e], queue[ThreadOf[e]], engineQueue, T, n)
  BY DEF OrderFor, n
<1> DEFINE p == pending[e]
           q == queue[ThreadOf[e]]
<1>12. p' = p /\ q' = q
  BY <1>1
<1>13. InOrder(p, q, engineQueue \o u, T, n + 1)
  <2> HIDE DEF p, q
  <2> QED
    BY <1>5, <1>7, <1>10, <1>11, PutCall DEF p, q
<1>14. direct'[ThreadOf[s]] = v
       /\ \A z \in Thread : z # ThreadOf[s] => direct'[z] = direct[z]
  BY <1>3, <1>6 DEF TypeOK
<1>15. NoneLeft(T)'
  BY <1>9, <1>14 DEF NoneLeft, OrderFor
<1> HIDE DEF T
<1>16. InOrder(p', q', engineQueue', T, Len(sent'))
  BY <1>5, <1>6, <1>12, <1>13
<1> QED
  BY <1>15, <1>16 DEF OrderFor, T, Underway

-----------------------------------------------------------------------------
\* Each step keeps them in order.

\* A message that is handled is put aside or not.
LEMMA HandledAside ==
    ASSUME TypeOK, NEW f \in Ext, NEW m, NEW left, HandleInMsg(f, m, left), NEW e \in Ext
    PROVE  \/ pending'[e] = pending[e]
           \/ e = f /\ state[e] = "starting" /\ pending'[e] = Append(pending[e], m)
  BY DEF HandleInMsg, TypeOK

\* Handling a message keeps the commands of T in order, if it may be put aside.
LEMMA HandledOrder ==
    ASSUME TypeOK, NEW e \in Ext, NEW T, T \subseteq CmdMsg, NEW n \in Nat, NEW q2,
           NEW f \in Ext, NEW m \in Msg, NEW left \in Seq(Msg), HandleInMsg(f, m, left),
           \A x \in Range(left) : x \notin T, NoneLeft(T),
           Parcels(pending[e], q2, engineQueue, T),
           InOrder(pending[e], q2, engineQueue, T, n),
           f = e => InOrder(Append(pending[e], m), q2, engineQueue, T, n)
    PROVE  InOrder(pending'[e], q2, engineQueue', T, n) /\ NoneLeft(T)'
<1>1. Replies(Msg, ThreadOf[f], left)
  <2>1. pending \in [Ext -> Seq(Msg)]
    <3>1. \A s \in Seq(CmdMsg) : s \in Seq(Msg)
      BY DEF Msg
    <3> QED
      BY <3>1 DEF TypeOK
  <2>2. inPaths \in [Ext -> SUBSET InPath] /\ engineQueue \in Seq(Msg)
    BY DEF TypeOK
  <2> QED
    BY <2>1, <2>2, AllClosed, HandleInMsgWithin
<1> DEFINE p2 == pending'[e]
<1>2. p2 = pending[e] \/ (e = f /\ p2 = Append(pending[e], m))
  BY HandledAside
<1> HIDE DEF p2
<1>3. InOrder(p2, q2, engineQueue, T, n)
  BY <1>2
<1>4. Append(pending[e], m) \in Seq(Parcel)
  BY DEF Parcels, Parcel
<1>5. Parcels(p2, q2, engineQueue, T)
  BY <1>2, <1>4 DEF Parcels
<1>6. ThreadOf[f] \in Thread
  BY ThreadType
<1> QED
  BY <1>1, <1>3, <1>5, <1>6, RepliesOrder DEF p2

\* A message that a thread handles inside a send call is of none of them.
LEMMA HandleDirectOrder ==
    ASSUME TypeOK, NEW t \in Thread, HandleDirect(t), NEW e \in Ext,
           NEW T, T \subseteq CmdMsg, OrderFor(e, T)
    PROVE  OrderFor(e, T)'
<1> DEFINE left == Tail(direct[t])
           q2 == queue[ThreadOf[e]]
           n == Len(sent)
<1>1. /\ direct[t] # <<>> /\ direct[t] \in Seq(Msg) /\ queue' = queue /\ sent' = sent
      /\ HandleInMsg(Head(direct[t]).dst, Head(direct[t]), left)
  BY DEF HandleDirect, TypeOK
<1>2. Head(direct[t]) \in Range(direct[t]) /\ Range(left) \subseteq Range(direct[t])
  BY <1>1, OrderTail, CallsOfCmds
<1>3. left \in Seq(Msg) /\ \A x \in Range(left) : x \notin T
  BY <1>1, <1>2 DEF OrderFor, NoneLeft
<1>4. PICK m \in Msg : m = Head(direct[t])
  BY <1>1
<1>5. m \notin T /\ m.dst \in Ext /\ m \in Parcel
  BY <1>2, <1>4, MsgFields DEF OrderFor, NoneLeft, Parcel
<1>6. /\ Parcels(pending[e], q2, engineQueue, T) /\ n \in Nat
      /\ InOrder(pending[e], q2, engineQueue, T, n) /\ NoneLeft(T)
  BY AllParcels DEF OrderFor
<1>7. HandleInMsg(m.dst, m, left)
  BY <1>1, <1>4
<1>8. q2 = (queue[ThreadOf[e]])' /\ n = (Len(sent))'
  BY <1>1
<1> HIDE DEF left, q2, n
<1>9. InOrder(Append(pending[e], m), q2, engineQueue, T, n)
  BY <1>5, <1>6, PutOther
<1>10. InOrder(pending'[e], q2, engineQueue', T, n) /\ NoneLeft(T)'
  BY <1>3, <1>5, <1>6, <1>7, <1>9, HandledOrder
<1> QED
  BY <1>8, <1>10 DEF OrderFor

\* Nor is one that a thread had left to dispatch.
LEMMA DispatchLeftOrder ==
    ASSUME TypeOK, NEW t \in Thread, DispatchLeft(t), NEW e \in Ext,
           NEW T, T \subseteq CmdMsg, OrderFor(e, T)
    PROVE  OrderFor(e, T)'
<1> DEFINE p == pending[e]
           q == queue[ThreadOf[e]]
           n == Len(sent)
           d == direct[t]
<1>1. /\ d # <<>> /\ d \in Seq(Msg)
      /\ UNCHANGED <<queue, sent, pending>>
      /\ engineQueue' = Append(engineQueue, Head(d))
      /\ direct'[t] = Tail(d) /\ \A x \in Thread : x # t => direct'[x] = direct[x]
  BY DEF DispatchLeft, TypeOK
<1>2. Parcels(p, q, engineQueue, T) /\ InOrder(p, q, engineQueue, T, n) /\ NoneLeft(T)
  BY AllParcels DEF OrderFor
<1>3. p' = p /\ q' = q /\ n' = n
  BY <1>1
<1> HIDE DEF p, q, n
<1>4. Head(d) \in Range(d) /\ Range(Tail(d)) \subseteq Range(d)
  <2> HIDE DEF d
  <2> QED
    BY <1>1, OrderTail, CallsOfCmds
<1>5. \A x \in Range(d) : x \notin T
  BY <1>2 DEF NoneLeft
<1>6. NoneLeft(T)'
  <2> HIDE DEF d
  <2>1. \A x \in Range(Tail(d)) : x \notin T
    BY <1>4, <1>5
  <2> QED
    BY <1>1, <1>2, <2>1 DEF NoneLeft
<1>7. PICK m \in Parcel : m = Head(d)
  BY <1>1 DEF Parcel
<1> HIDE DEF d
<1>8. InOrder(p, q, Append(engineQueue, m), T, n)
  BY <1>2, <1>4, <1>5, <1>7, PutOther
<1>9. InOrder(p', q', engineQueue', T, n')
  BY <1>1, <1>3, <1>7, <1>8
<1> QED
  BY <1>6, <1>9 DEF OrderFor, p, q, n

\* A command that the engine passes on was the first of its queue.
LEMMA EngineDispatchOrder ==
    ASSUME TypeOK, EngineDispatch, NEW e \in Ext,
           NEW T, T \subseteq CmdMsg, OrderFor(e, T)
    PROVE  OrderFor(e, T)'
<1> DEFINE p == pending[e]
           q == queue[ThreadOf[e]]
           n == Len(sent)
<1>1. /\ engineQueue # <<>> /\ engineQueue' = Tail(engineQueue)
      /\ UNCHANGED <<sent, pending, direct>>
      /\ queue' = queue
         \/ queue' = [queue EXCEPT ![ThreadOf[Head(engineQueue).dst]] = Append(@, Head(engineQueue))]
  BY DEF EngineDispatch
<1>2. Parcels(p, q, engineQueue, T) /\ InOrder(p, q, engineQueue, T, n) /\ NoneLeft(T)
  BY AllParcels DEF OrderFor
<1>3. p' = p /\ n' = n /\ (q' = q \/ q' = Append(q, Head(engineQueue)))
  BY <1>1, ThreadType DEF TypeOK
<1>4. NoneLeft(T)'
  BY <1>1, <1>2 DEF NoneLeft
<1> HIDE DEF p, q, n
<1>5. /\ InOrder(p, q, Tail(engineQueue), T, n)
      /\ InOrder(p, Append(q, Head(engineQueue)), Tail(engineQueue), T, n)
  BY <1>1, <1>2, TakeThird
<1>6. InOrder(p', q', engineQueue', T, n')
  BY <1>1, <1>3, <1>5
<1> QED
  BY <1>4, <1>6 DEF OrderFor, p, q, n

\* A command that a runloop takes was the first of its queue.
LEMMA ReceiveOrder ==
    ASSUME TypeOK, MsgsHome, NEW t \in Thread, Receive(t), NEW e \in Ext,
           NEW T, T \subseteq CmdMsg, OrderFor(e, T)
    PROVE  OrderFor(e, T)'
<1> DEFINE p == pending[e]
           q == queue[ThreadOf[e]]
           q2 == queue'[ThreadOf[e]]
           n == Len(sent)
           h == Head(queue[t])
           left == <<>>
<1>1. /\ queue[t] # <<>> /\ queue[t] \in Seq(HomeMsg(t) \cup {CloseTask})
      /\ q2 = (IF t = ThreadOf[e] THEN Tail(q) ELSE q)
      /\ sent' = sent
  BY ThreadType DEF Receive, MsgsHome, TypeOK
<1>2. /\ Parcels(p, q, engineQueue, T) /\ InOrder(p, q, engineQueue, T, n)
      /\ NoneLeft(T) /\ n \in Nat
  BY AllParcels DEF OrderFor
<1>3. t = ThreadOf[e] => q # <<>> /\ h = Head(q)
  BY <1>1
<1>4. h \in HomeMsg(t) \cup {CloseTask}
  BY <1>1
<1>5. \/ UNCHANGED <<pending, engineQueue, direct>>
      \/ h.kind # "close" /\ HandleInMsg(h.dst, h, left)
  BY DEF Receive
<1>6. q2 = (queue[ThreadOf[e]])' /\ n = (Len(sent))' /\ left \in Seq(Msg)
      /\ \A x \in Range(left) : x \notin T
  BY <1>1 DEF Range
<1>7. q # <<>> => Tail(q) \in Seq(Parcel)
  BY <1>2 DEF Parcels
<1> HIDE DEF q, q2, n, left
<1>8. Parcels(p, q2, engineQueue, T)
  BY <1>1, <1>2, <1>3, <1>7 DEF Parcels
<1>9. /\ InOrder(p, q2, engineQueue, T, n)
      /\ t = ThreadOf[e] => InOrder(Append(p, h), q2, engineQueue, T, n)
  <2> HIDE DEF p, h
  <2>1. t = ThreadOf[e] => /\ InOrder(p, Tail(q), engineQueue, T, n)
                           /\ InOrder(Append(p, Head(q)), Tail(q), engineQueue, T, n)
    BY <1>2, <1>3, TakeSecond
  <2> QED
    BY <1>1, <1>2, <1>3, <2>1
<1>10. CASE UNCHANGED <<pending, engineQueue, direct>>
  <2>1. NoneLeft(T)'
    BY <1>2, <1>10 DEF NoneLeft
  <2>2. p = (pending[e])'
    BY <1>10
  <2> HIDE DEF p
  <2>3. InOrder((pending[e])', (queue[ThreadOf[e]])', engineQueue', T, (Len(sent))')
    BY <1>6, <1>9, <1>10, <2>2
  <2> QED
    BY <2>1, <2>3 DEF OrderFor
<1>11. CASE h.kind # "close" /\ HandleInMsg(h.dst, h, left)
  <2>1. PICK m \in HomeMsg(t) : m = h
    BY <1>4, <1>11 DEF CloseTask
  <2>2. m \in Msg /\ m.dst \in Ext /\ ThreadOf[m.dst] = t
    BY MsgFields DEF HomeMsg
  <2>3. HandleInMsg(m.dst, m, left)
    BY <1>11, <2>1
  <2>4. m.dst = e => InOrder(Append(pending[e], m), q2, engineQueue, T, n)
    BY <1>9, <2>1, <2>2
  <2> HIDE DEF h
  <2>5. InOrder(pending'[e], q2, engineQueue', T, n) /\ NoneLeft(T)'
    BY <1>2, <1>6, <1>8, <1>9, <2>2, <2>3, <2>4, HandledOrder
  <2> QED
    BY <1>6, <2>5 DEF OrderFor
<1> QED
  BY <1>5, <1>10, <1>11

\* So was a command that was put aside and is taken after on_start_done.
LEMMA ReceivePendingOrder ==
    ASSUME TypeOK, NEW f \in Ext, ReceivePending(f), NEW e \in Ext,
           NEW T, T \subseteq CmdMsg, OrderFor(e, T)
    PROVE  OrderFor(e, T)'
<1> DEFINE p == pending[e]
           p2 == pending'[e]
           q == queue[ThreadOf[e]]
           n == Len(sent)
           left == <<>>
<1>1. /\ pending[f] # <<>> /\ pending[f] \in Seq(CmdMsg)
      /\ p2 = (IF e = f THEN Tail(p) ELSE p)
      /\ TakeCmd(f, Head(pending[f]), left)
      /\ UNCHANGED <<queue, sent>>
  BY DEF ReceivePending, TypeOK
<1>2. /\ Parcels(p, q, engineQueue, T) /\ InOrder(p, q, engineQueue, T, n)
      /\ NoneLeft(T) /\ n \in Nat
  BY AllParcels DEF OrderFor
<1>3. e = f => p # <<>>
  BY <1>1
<1>4. PICK m \in CmdMsg : m = Head(pending[f])
  BY <1>1
<1>5. Replies(Msg, ThreadOf[f], left)
  <2>1. inPaths \in [Ext -> SUBSET InPath] /\ m \in Msg
    BY DEF TypeOK, Msg
  <2>2. TakeCmd(f, m, left)
    BY <1>1, <1>4
  <2> HIDE DEF left
  <2> QED
    BY <2>1, <2>2, AllClosed, TakeCmdWithin
<1>6. left \in Seq(Msg) /\ \A x \in Range(left) : x \notin T
  BY DEF Range
<1>7. q = (queue[ThreadOf[e]])' /\ n = (Len(sent))' /\ p2 = (pending[e])'
  BY <1>1
<1>8. p # <<>> => Tail(p) \in Seq(Parcel)
  BY <1>2 DEF Parcels
<1> HIDE DEF p, p2, q, n, left
<1>9. Parcels(p2, q, engineQueue, T)
  BY <1>1, <1>2, <1>3, <1>8 DEF Parcels
<1>10. InOrder(p2, q, engineQueue, T, n)
  <2>1. e = f => InOrder(Tail(p), q, engineQueue, T, n)
    BY <1>2, <1>3, TakeFirst
  <2> QED
    BY <1>1, <1>2, <2>1
<1>11. ThreadOf[f] \in Thread
  BY ThreadType
<1>12. InOrder(p2, q, engineQueue', T, n) /\ NoneLeft(T)'
  BY <1>2, <1>5, <1>6, <1>9, <1>10, <1>11, RepliesOrder
<1> QED
  BY <1>7, <1>12 DEF OrderFor

\* An extension that returns a result, or takes one that is made up, dispatches
\* no command.
LEMMA ReturnOrder ==
    ASSUME TypeOK, NEW f \in Ext, NEW e \in Ext, NEW T, T \subseteq CmdMsg, OrderFor(e, T),
           NEW left \in Seq(Msg), left = <<>> \/ left = direct[ThreadOf[f]],
           Replies(Msg, ThreadOf[f], left), UNCHANGED <<pending, queue, sent>>
    PROVE  OrderFor(e, T)'
<1> DEFINE p == pending[e]
           q == queue[ThreadOf[e]]
           n == Len(sent)
<1>1. ThreadOf[f] \in Thread
  BY ThreadType
<1>2. /\ Parcels(p, q, engineQueue, T) /\ InOrder(p, q, engineQueue, T, n)
      /\ NoneLeft(T) /\ n \in Nat
  BY AllParcels DEF OrderFor
<1>3. \A x \in Range(left) : x \notin T
  <2>1. CASE left = <<>>
    BY <2>1 DEF Range
  <2>2. CASE left = direct[ThreadOf[f]]
    BY <1>1, <1>2, <2>2 DEF NoneLeft
  <2> QED
    BY <2>1, <2>2
<1>4. q = (queue[ThreadOf[e]])' /\ n = (Len(sent))' /\ p = (pending[e])'
  OBVIOUS
<1> HIDE DEF p, q, n
<1>5. InOrder(p, q, engineQueue', T, n) /\ NoneLeft(T)'
  BY <1>1, <1>2, <1>3, RepliesOrder
<1> QED
  BY <1>4, <1>5 DEF OrderFor

\* The tasks that close the threads are no commands.
LEMMA CloseThreadsOrder ==
    ASSUME TypeOK, CloseThreads, NEW e \in Ext, NEW T, T \subseteq CmdMsg, OrderFor(e, T)
    PROVE  OrderFor(e, T)'
<1> DEFINE p == pending[e]
           q == queue[ThreadOf[e]]
           n == Len(sent)
<1>1. /\ Parcels(p, q, engineQueue, T) /\ InOrder(p, q, engineQueue, T, n)
      /\ NoneLeft(T) /\ ThreadOf[e] \in Thread
  BY AllParcels DEF OrderFor
<1>2. /\ (queue[ThreadOf[e]])' = Append(q, CloseTask)
      /\ n = (Len(sent))' /\ p = (pending[e])' /\ engineQueue' = engineQueue /\ direct' = direct
  BY <1>1 DEF CloseThreads
<1> HIDE DEF p, q, n
<1>3. CloseTask \in Parcel /\ CloseTask \notin T
  BY DEF Parcel, CloseTask, CmdMsg
<1>4. InOrder(p, Append(q, CloseTask), engineQueue, T, n)
  BY <1>1, <1>3, PutOther
<1>5. NoneLeft(T)'
  BY <1>1, <1>2 DEF NoneLeft
<1>6. InOrder((pending[e])', (queue[ThreadOf[e]])', engineQueue', T, (Len(sent))')
  BY <1>2, <1>4
<1> QED
  BY <1>5, <1>6 DEF OrderFor

\* Initially nothing is under way.
LEMMA OrderInit == Init => CallsInOrder /\ PutAside
<1> SUFFICES ASSUME Init PROVE CallsInOrder /\ PutAside
  OBVIOUS
<1>1. ASSUME NEW e \in Ext, NEW T PROVE OrderFor(e, T)
  <2>1. /\ pending[e] = <<>> /\ queue[ThreadOf[e]] = <<>> /\ engineQueue = <<>>
        /\ \A t \in Thread : direct[t] = <<>>
    BY ThreadType DEF Init
  <2>2. Range(<<>>) = {} /\ InCallOrder(<<>>, T) /\ \A A : NoneLater({}, A, T)
    BY DEF Range, InCallOrder, NoneLater
  <2> QED
    BY <2>1, <2>2 DEF OrderFor, InOrder, NoneLeft
<1>2. PutAside
  BY DEF Init, PutAside
<1> QED
  BY <1>1, <1>2 DEF CallsInOrder

\* Every step keeps the commands of a sender in order.
LEMMA OrderStep ==
    TypeOK /\ IdsIssued /\ MsgsHome /\ CallsInOrder /\ [Next]_vars => CallsInOrder'
<1> SUFFICES ASSUME TypeOK, IdsIssued, MsgsHome, CallsInOrder, [Next]_vars,
                    NEW x \in Ext, NEW e \in Ext, Apart(x)
             PROVE  OrderFor(e, Underway(x, e))'
  BY DEF CallsInOrder, Apart
<1> DEFINE T == Underway(x, e)
           Goal == OrderFor(e, T)'
<1>1. OrderFor(e, T) /\ T \subseteq CmdMsg
  BY DEF CallsInOrder, Underway
<1>2. ASSUME NEW s \in Ext, NEW h \in HandlerKinds,
             \E i \in Id, fresh \in 1 .. MaxId + 1 : Sends(s, i, h, fresh)
      PROVE  Goal
  BY <1>1, <1>2, SendsOrder
<1>3. T = T'
  BY DEF Underway
<1> HIDE DEF T
<1>4. ASSUME UNCHANGED <<pending, queue, engineQueue, direct, sent>>
      PROVE  Goal
  BY <1>1, <1>3, <1>4 DEF OrderFor, NoneLeft
<1>5. ASSUME NEW t \in Thread, HandleDirect(t) \/ DispatchLeft(t) \/ Receive(t)
      PROVE  Goal
  BY <1>1, <1>3, <1>5, HandleDirectOrder, DispatchLeftOrder, ReceiveOrder
<1>6. ASSUME EngineDispatch \/ CloseThreads PROVE Goal
  <2>1. CASE EngineDispatch
    BY <1>1, <2>1, EngineDispatchOrder
  <2>2. CASE CloseThreads
    BY <1>1, <2>2, CloseThreadsOrder
  <2> QED
    BY <1>6, <2>1, <2>2
<1>7. ASSUME NEW s \in Ext, NEW h \in Handlers, Send(s, h) PROVE Goal
  BY <1>2, <1>7, SendSends, ActorsAssumption
<1>8. ASSUME NEW s \in Ext, NEW i \in held[s], NEW h \in Handlers, Forward(s, i, h)
      PROVE  Goal
  BY <1>2, <1>8, ForwardSends, ActorsAssumption
<1>9. ASSUME NEW s \in Ext, NEW i \in held[s],
             \/ \E ok \in BOOLEAN : ReturnResult(s, i, ok)
             \/ ReturnPartial(s, i)
      PROVE  Goal
  <2> DEFINE left == direct[ThreadOf[s]]
  <2>1. PICK ok \in BOOLEAN, final \in BOOLEAN : ReturnTo(s, i, ok, final, left)
    BY <1>9 DEF ReturnResult, ReturnPartial
  <2>2. left \in Seq(Msg) /\ inPaths \in [Ext -> SUBSET InPath]
    BY ThreadType DEF TypeOK
  <2>3. UNCHANGED <<pending, queue, sent>>
    BY <1>9 DEF ReturnResult, ReturnPartial
  <2>4. Replies(Msg, ThreadOf[s], left)
    <3> HIDE DEF left
    <3> QED
      BY <2>1, <2>2, AllClosed, ReturnToWithin
  <2> QED
    BY <1>1, <2>2, <2>3, <2>4, ReturnOrder
<1>10. ASSUME NEW s \in Ext, ReceivePending(s) PROVE Goal
  BY <1>1, <1>10, ReceivePendingOrder
<1>11. ASSUME NEW s \in Ext, NEW p \in OutPath, TakeResult(s, MadeUpResult(s, p), <<>>),
              UNCHANGED <<pending, queue, sent>>
       PROVE  Goal
  <2>1. PICK m \in ResultMsg : m = MadeUpResult(s, p)
    BY OutPathFields, ResultIsMsg DEF MadeUpResult
  <2>2. inPaths \in [Ext -> SUBSET InPath] /\ <<>> \in Seq(Msg)
    BY DEF TypeOK
  <2>3. TakeResult(s, m, <<>>)
    BY <1>11, <2>1
  <2>4. Replies(Msg, ThreadOf[s], <<>>)
    BY <2>2, <2>3, AllClosed, TakeResultWithin
  <2> QED
    BY <1>1, <1>11, <2>2, <2>4, ReturnOrder
<1> HIDE DEF Goal
<1>12. ASSUME NEW s \in Ext, NEW p \in outPaths[s], OutPathTimeout(s, p) PROVE Goal
  <2>1. /\ p \in OutPath /\ TakeResult(s, MadeUpResult(s, p), <<>>)
        /\ UNCHANGED <<pending, queue, sent>>
    BY <1>12 DEF OutPathTimeout, TypeOK
  <2> QED
    BY <1>11, <2>1
<1>13. ASSUME NEW s \in Ext, FlushOne(s) PROVE Goal
  <2>1. PICK p \in flush[s] : TakeResult(s, MadeUpResult(s, p), <<>>)
    BY <1>13 DEF FlushOne, Oldest
  <2>2. p \in OutPath /\ UNCHANGED <<pending, queue, sent>>
    BY <1>13 DEF FlushOne, TypeOK
  <2> QED
    BY <1>11, <2>1, <2>2
<1>14. ASSUME \/ EngineClose \/ UNCHANGED vars
              \/ \E s \in Ext : \/ \E p \in inPaths[s] : InPathTimeout(s, p)
                                \/ StartDone(s) \/ StopDone(s) \/ TimersClosed(s)
                                \/ Deinit(s) \/ DeinitDone(s)
       PROVE  Goal
  <2>1. UNCHANGED <<pending, queue, engineQueue, direct, sent>>
    BY <1>14 DEF EngineClose, vars, netVars, InPathTimeout, StartDone, StopDone,
                 TimersClosed, Deinit, DeinitDone
  <2> QED
    BY <1>4, <2>1
<1>15. Goal
  BY <1>5, <1>6, <1>7, <1>8, <1>9, <1>10, <1>12, <1>13, <1>14 DEF Next
<1> QED
  BY <1>15 DEF Goal, T

\* Commands are put aside until on_start_done only, and an extension does not stop
\* before it has taken them.
LEMMA PutAsideStep == TypeOK /\ PutAside /\ [Next]_vars => PutAside'
<1> SUFFICES ASSUME TypeOK, PutAside, [Next]_vars PROVE PutAside'
  OBVIOUS
<1>0. \A e \in Ext : state[e] \in {"starting", "running"} \/ pending[e] = <<>>
  BY DEF PutAside
<1>1. ASSUME UNCHANGED <<pending, state>> PROVE PutAside'
  BY <1>0, <1>1 DEF PutAside
<1>2. ASSUME NEW e \in Ext, NEW m, NEW left, HandleInMsg(e, m, left), UNCHANGED state
      PROVE  PutAside'
  <2>1. \A z \in Ext : \/ pending'[z] = pending[z]
                       \/ z = e /\ state[z] = "starting"
    BY <1>2, HandledAside
  <2> QED
    BY <1>0, <1>2, <2>1 DEF PutAside
<1>3. ASSUME NEW t \in Thread, HandleDirect(t) PROVE PutAside'
  <2>1. PICK m \in Msg : m = Head(direct[t])
    BY <1>3, MsgLists DEF HandleDirect, TypeOK
  <2>2. HandleInMsg(m.dst, m, Tail(direct[t])) /\ m.dst \in Ext /\ UNCHANGED state
    BY <1>3, <2>1, MsgFields DEF HandleDirect, lifeVars
  <2> QED
    BY <1>2, <2>2
<1>4. ASSUME NEW t \in Thread, Receive(t) PROVE PutAside'
  <2>1. PICK m \in Msg \cup {CloseTask} : m = Head(queue[t])
    BY <1>4 DEF Receive, TypeOK
  <2>2. CASE m.kind # "close" /\ HandleInMsg(m.dst, m, <<>>)
    <3>1. m \in Msg /\ m.dst \in Ext /\ UNCHANGED state
      BY <1>4, <2>2, MsgFields DEF CloseTask, Receive
    <3> QED
      BY <1>2, <2>2, <3>1
  <2> QED
    BY <1>1, <1>4, <2>1, <2>2 DEF Receive
<1>5. ASSUME NEW e \in Ext, ReceivePending(e) PROVE PutAside'
  <2>1. /\ state[e] = "running" /\ UNCHANGED state
        /\ \A z \in Ext : z # e => pending'[z] = pending[z]
    BY <1>5 DEF ReceivePending, lifeVars, TypeOK
  <2> QED
    BY <1>0, <2>1 DEF PutAside
<1>6. ASSUME NEW e \in Ext, StopDone(e) PROVE PutAside'
  <2>1. pending[e] = <<>> /\ UNCHANGED pending
    BY <1>6 DEF StopDone, Free, InLoop
  <2>2. \A z \in Ext : z # e => state'[z] = state[z]
    BY <1>6 DEF StopDone, TypeOK
  <2> QED
    BY <1>0, <2>1, <2>2 DEF PutAside
<1>7. ASSUME NEW e \in Ext, StartDone(e) \/ TimersClosed(e) \/ Deinit(e) \/ DeinitDone(e)
      PROVE  PutAside'
  <2>1. /\ UNCHANGED pending
        /\ state'[e] = "running" \/ state[e] \notin {"starting", "running"}
        /\ \A z \in Ext : z # e => state'[z] = state[z]
    BY <1>7 DEF StartDone, TimersClosed, Deinit, DeinitDone, TypeOK
  <2> QED
    BY <1>0, <2>1 DEF PutAside
<1>8. CASE \/ EngineDispatch \/ EngineClose \/ CloseThreads \/ UNCHANGED vars
           \/ \E t \in Thread : DispatchLeft(t)
           \/ \E e \in Ext :
                \/ \E h \in Handlers : Send(e, h)
                \/ \E i \in held[e] : \/ \E h \in Handlers : Forward(e, i, h)
                                      \/ \E ok \in BOOLEAN : ReturnResult(e, i, ok)
                                      \/ ReturnPartial(e, i)
                \/ \E p \in inPaths[e] : InPathTimeout(e, p)
                \/ \E p \in outPaths[e] : OutPathTimeout(e, p)
                \/ FlushOne(e)
  <2>1. UNCHANGED <<pending, state>>
    BY <1>8 DEF EngineDispatch, EngineClose, CloseThreads, DispatchLeft, vars, lifeVars,
                Send, Forward, ReturnResult, ReturnPartial, InPathTimeout, OutPathTimeout,
                FlushOne
  <2> QED
    BY <1>1, <2>1
<1> QED
  BY <1>3, <1>4, <1>5, <1>6, <1>7, <1>8 DEF Next

-----------------------------------------------------------------------------
\* Commands are handed over in order.

\* A new IN path of e is that of the command m.
PathOf(p, m) == p.src = m.src /\ p.ctx = m.ctx

\* A command that is taken makes an IN path of its extension.
LEMMA TakeCmdPath ==
    ASSUME TypeOK, NEW f \in Ext, NEW m, NEW left, TakeCmd(f, m, left),
           NEW e \in Ext, NEW p \in inPaths'[e] \ inPaths[e]
    PROVE  e = f /\ PathOf(p, m)
<1> DEFINE r == [id |-> IF InPathsOf(f, m.id) # {} THEN nextId ELSE m.id,
                 orig |-> IF InPathsOf(f, m.id) # {} THEN m.id ELSE NoId,
                 src |-> m.src, ctx |-> m.ctx]
<1>1. \/ inPaths' = [inPaths EXCEPT ![f] = @ \cup {r}]
      \/ inPaths' = inPaths
  BY DEF TakeCmd
<1>2. r.src = m.src /\ r.ctx = m.ctx
  OBVIOUS
<1> HIDE DEF r
<1>3. e = f /\ p = r
  BY <1>1 DEF TypeOK
<1> QED
  BY <1>2, <1>3 DEF PathOf

\* Handling a message makes an IN path for a command only, in an extension that
\* has started.
LEMMA HandleInMsgPath ==
    ASSUME TypeOK, NEW f \in Ext, NEW m \in Msg, NEW left \in Seq(Msg),
           HandleInMsg(f, m, left), NEW e \in Ext, NEW p \in inPaths'[e] \ inPaths[e]
    PROVE  /\ e = f /\ PathOf(p, m) /\ m \in CmdMsg
           /\ state[e] \in {"running", "stopping", "flushing"}
<1>1. CASE /\ state[f] \in {"running", "stopping", "flushing"} /\ m.kind = "cmd"
           /\ TakeCmd(f, m, left)
  BY <1>1, TakeCmdPath, MsgFields
<1>2. CASE m.kind = "result" /\ TakeResult(f, m, left)
  <2>1. m \in ResultMsg
    BY <1>2, MsgFields
  <2>2. Dispatched(f, left)
    BY <1>2, <2>1, TakeResultLocal
  <2> QED
    BY <2>2 DEF Dispatched
<1>3. CASE UNCHANGED inPaths
  BY <1>3
<1> QED
  BY <1>1, <1>2, <1>3 DEF HandleInMsg, pathVars

\* The other steps make no IN path.
PathsGo == \A e \in Ext : inPaths'[e] \subseteq inPaths[e]

\* Only a step that takes a command makes an IN path.
LEMMA PathMadeBy ==
    ASSUME TypeOK, [Next]_vars
    PROVE  \/ PathsGo
           \/ \E t \in Thread : HandleDirect(t) \/ Receive(t)
           \/ \E f \in Ext : ReceivePending(f)
<1>1. ASSUME UNCHANGED inPaths PROVE PathsGo
  BY <1>1 DEF PathsGo
<1>2. ASSUME NEW f \in Ext, NEW left, Dispatched(f, left) PROVE PathsGo
  BY <1>2 DEF Dispatched, PathsGo
<1>3. ASSUME NEW f \in Ext, NEW i \in held[f],
             \/ \E ok \in BOOLEAN : ReturnResult(f, i, ok)
             \/ ReturnPartial(f, i)
      PROVE  PathsGo
  <2> DEFINE left == direct[ThreadOf[f]]
  <2>1. PICK ok \in BOOLEAN, final \in BOOLEAN : ReturnTo(f, i, ok, final, left)
    BY <1>3 DEF ReturnResult, ReturnPartial
  <2>2. left \in Seq(Msg) /\ i \in Id
    BY ThreadType DEF TypeOK
  <2>3. Dispatched(f, left)
    <3> HIDE DEF left
    <3> QED
      BY <2>1, <2>2, ReturnToLocal
  <2> QED
    BY <1>2, <2>3
<1>4. ASSUME NEW f \in Ext, NEW p \in OutPath, TakeResult(f, MadeUpResult(f, p), <<>>)
      PROVE  PathsGo
  <2>1. PICK m \in ResultMsg : m = MadeUpResult(f, p)
    BY OutPathFields, ResultIsMsg DEF MadeUpResult
  <2>2. Dispatched(f, <<>>)
    BY <1>4, <2>1, TakeResultLocal, MsgLists
  <2> QED
    BY <1>2, <2>2
<1>5. ASSUME NEW f \in Ext, NEW p \in outPaths[f], OutPathTimeout(f, p) PROVE PathsGo
  BY <1>4, <1>5 DEF OutPathTimeout, TypeOK
<1>6. ASSUME NEW f \in Ext, FlushOne(f) PROVE PathsGo
  <2>1. PICK p \in flush[f] : TakeResult(f, MadeUpResult(f, p), <<>>)
    BY <1>6 DEF FlushOne, Oldest
  <2>2. p \in OutPath
    BY DEF TypeOK
  <2> QED
    BY <1>4, <2>1, <2>2
<1>7. ASSUME NEW f \in Ext, \/ \E p \in inPaths[f] : InPathTimeout(f, p)
                            \/ TimersClosed(f)
      PROVE  PathsGo
  BY <1>7 DEF InPathTimeout, TimersClosed, PathsGo, TypeOK
<1>8. ASSUME \/ EngineDispatch \/ EngineClose \/ CloseThreads \/ UNCHANGED vars
             \/ \E t \in Thread : DispatchLeft(t)
             \/ \E f \in Ext : \/ \E h \in Handlers : Send(f, h)
                               \/ \E i \in held[f] : \E h \in Handlers : Forward(f, i, h)
                               \/ StartDone(f) \/ StopDone(f) \/ Deinit(f) \/ DeinitDone(f)
      PROVE  PathsGo
  <2>1. UNCHANGED inPaths
    BY <1>8 DEF EngineDispatch, EngineClose, CloseThreads, DispatchLeft, vars, pathVars,
                Send, Forward, StartDone, StopDone, Deinit, DeinitDone
  <2> QED
    BY <1>1, <2>1
<1> QED
  BY <1>3, <1>5, <1>6, <1>7, <1>8 DEF Next

\* A command under way to e that was sent by s.
LEMMA TransitUnderway ==
    ASSUME TypeOK, NEW e \in Ext, NEW m \in InTransitTo(e), NEW s, m.src = s
    PROVE  /\ m \in Underway(s, e)
           /\ m \in Range(pending[e]) \cup Range(queue[ThreadOf[e]]) \cup Range(engineQueue)
<1>1. /\ pending[e] \in Seq(CmdMsg) /\ queue[ThreadOf[e]] \in Seq(Msg \cup {CloseTask})
      /\ engineQueue \in Seq(Msg)
  BY ThreadType DEF TypeOK
<1>2. /\ Range(pending[e]) \subseteq CmdMsg
      /\ Range(queue[ThreadOf[e]]) \subseteq Msg \cup {CloseTask}
      /\ Range(engineQueue) \subseteq Msg
  BY <1>1 DEF Range
<1>3. /\ m \in Range(pending[e]) \cup Range(queue[ThreadOf[e]]) \cup Range(engineQueue)
      /\ m.kind = "cmd" /\ m.dst = e
  BY DEF InTransitTo
<1>4. m \in Msg \cup {CloseTask}
  BY <1>2, <1>3 DEF Msg
<1>5. m \in CmdMsg
  BY <1>3, <1>4, MsgFields DEF CloseTask
<1> QED
  BY <1>3, <1>5 DEF Underway

\* The IN path that a step makes is that of a command that no other command of its
\* sender, still on its way to the extension, was sent before.
LEMMA PathInOrder ==
    ASSUME TypeOK, MsgsHome, PendingHome, CallsInOrder, PutAside, [Next]_vars,
           NEW e \in Ext, NEW p \in inPaths'[e] \ inPaths[e], p.src \in Ext, Apart(p.src),
           NEW m \in InTransitTo(e), m.src = p.src
    PROVE  m.ctx >= p.ctx
<1> DEFINE T == Underway(p.src, e)
           pe == pending[e]
           q == queue[ThreadOf[e]]
           n == Len(sent)
<1>1. /\ Parcels(pe, q, engineQueue, T) /\ InOrder(pe, q, engineQueue, T, n) /\ NoneLeft(T)
      /\ T \subseteq CmdMsg
  <2>1. OrderFor(e, T) /\ T \subseteq CmdMsg
    BY DEF CallsInOrder, Underway
  <2> QED
    BY <2>1, AllParcels DEF OrderFor
<1>2. m \in T /\ m \in Range(pe) \cup Range(q) \cup Range(engineQueue)
  BY TransitUnderway
<1>3. \A h \in CmdMsg : h.dst = e /\ PathOf(p, h) => h \in T
  BY DEF Underway, PathOf
<1>4. \A h \in T : h.ctx \in Nat
  BY <1>1, CallsOfCmds
<1> HIDE DEF T
<1>5. ASSUME NEW h \in T, PathOf(p, h), NoneLater({h}, {m}, T)
      PROVE  m.ctx >= p.ctx
  BY <1>2, <1>4, <1>5 DEF NoneLater, PathOf
<1>6. ASSUME NEW t \in Thread, HandleDirect(t) PROVE m.ctx >= p.ctx
  <2>1. direct[t] # <<>> /\ direct[t] \in Seq(Msg)
    BY <1>6 DEF HandleDirect, TypeOK
  <2>2. PICK h \in Msg : h = Head(direct[t])
    BY <2>1
  <2>3. HandleInMsg(h.dst, h, Tail(direct[t])) /\ h.dst \in Ext /\ Tail(direct[t]) \in Seq(Msg)
    BY <1>6, <2>1, <2>2, MsgFields DEF HandleDirect
  <2>4. h \in T
    <3>1. e = h.dst /\ PathOf(p, h) /\ h \in CmdMsg
      BY <2>3, HandleInMsgPath
    <3> QED
      BY <1>3, <3>1
  <2>5. h \in Range(direct[t])
    BY <2>1, <2>2, OrderTail, <1>4
  <2> QED
    BY <1>1, <2>4, <2>5 DEF NoneLeft
<1>7. ASSUME NEW t \in Thread, Receive(t) PROVE m.ctx >= p.ctx
  <2>1. /\ queue[t] # <<>> /\ queue[t] \in Seq(HomeMsg(t) \cup {CloseTask}) /\ Free(t)
    BY <1>7 DEF Receive, MsgsHome
  <2>2. PICK h \in HomeMsg(t) \cup {CloseTask} : h = Head(queue[t])
    BY <2>1
  <2>3. h.kind # "close" /\ HandleInMsg(h.dst, h, <<>>)
    BY <1>7, <2>2 DEF Receive, pathVars
  <2>4. h \in Msg /\ h.dst \in Ext /\ ThreadOf[h.dst] = t /\ <<>> \in Seq(Msg)
    BY <2>2, <2>3, MsgFields DEF HomeMsg, CloseTask
  <2>5. /\ e = h.dst /\ PathOf(p, h) /\ h \in CmdMsg
        /\ state[e] \in {"running", "stopping", "flushing"}
    BY <2>3, <2>4, HandleInMsgPath
  <2>6. t = ThreadOf[e] /\ h \in T
    BY <1>3, <2>4, <2>5
  <2>7. pe = <<>>
    BY <2>1, <2>5, <2>6 DEF Free, InLoop, PutAside
  <2>8. q # <<>> /\ h = Head(q)
    BY <2>1, <2>2, <2>6
  <2> HIDE DEF pe, q, n
  <2>9. NoneLater({h}, Range(q) \cup Range(engineQueue), T)
    BY <1>1, <2>8, TakeSecond
  <2>10. m \in Range(q) \cup Range(engineQueue)
    <3>1. Range(<<>>) = {}
      BY DEF Range
    <3> QED
      BY <1>2, <2>7, <3>1
  <2>11. NoneLater({h}, {m}, T)
    BY <2>9, <2>10 DEF NoneLater
  <2> QED
    BY <1>5, <2>5, <2>6, <2>11
<1>8. ASSUME NEW f \in Ext, ReceivePending(f) PROVE m.ctx >= p.ctx
  <2>1. /\ pending[f] # <<>> /\ pending[f] \in Seq(CmdFor(f))
        /\ TakeCmd(f, Head(pending[f]), <<>>)
    BY <1>8 DEF ReceivePending, PendingHome
  <2>2. PICK h \in CmdFor(f) : h = Head(pending[f])
    BY <2>1
  <2>3. h \in CmdMsg /\ h.dst = f
    BY DEF CmdFor
  <2>4. e = f /\ PathOf(p, h)
    <3>1. TakeCmd(f, h, <<>>)
      BY <2>1, <2>2
    <3> QED
      BY <3>1, TakeCmdPath
  <2>5. h \in T /\ pe # <<>> /\ h = Head(pe)
    BY <1>3, <2>1, <2>2, <2>3, <2>4
  <2> HIDE DEF pe, q, n
  <2>6. NoneLater({h}, Range(pe) \cup Range(q) \cup Range(engineQueue), T)
    BY <1>1, <2>5, TakeFirst
  <2>7. NoneLater({h}, {m}, T)
    BY <1>2, <2>6 DEF NoneLater
  <2> QED
    BY <1>5, <2>4, <2>5, <2>7
<1>9. ~PathsGo
  BY DEF PathsGo
<1> QED
  BY <1>6, <1>7, <1>8, <1>9, PathMadeBy

\* An extension is handed the commands of a sender that has no destination in its
\* own thread in the order of the send calls, those that were put aside until
\* on_start_done included (ten_extension_flush_all_pending_msgs, on_xxx.c:212-242):
\* what is put aside was sent before what waits in the runloop of the thread, and
\* that before what waits in the engine (extension_thread/msg_interface/common.c).
THEOREM OrderKept == Spec => HandedInOrder
<1> DEFINE Inv == MsgsHome /\ PendingHome /\ CallsInOrder /\ PutAside
<1>1. Init => Inv
  BY HomeInit, PendingInit, OrderInit
<1>2. IInv /\ Inv /\ [Next]_vars => Inv'
  <2> SUFFICES ASSUME IInv, Inv, [Next]_vars PROVE Inv'
    OBVIOUS
  <2>1. TypeOK /\ IdsIssued
    BY DEF IInv, PathInv
  <2> QED
    BY <2>1, HomeStep, PendingStep, OrderStep, PutAsideStep
<1>3. IInv /\ IInv' /\ Inv /\ [Next]_vars =>
        [\A e \in Ext : \A p \in inPaths'[e] \ inPaths[e] :
           Apart(p.src) =>
             \A m \in InTransitTo(e) : m.src = p.src => m.ctx >= p.ctx]_vars
  <2> SUFFICES ASSUME IInv, IInv', Inv, [Next]_vars,
                      NEW e \in Ext, NEW p \in inPaths'[e] \ inPaths[e], Apart(p.src),
                      NEW m \in InTransitTo(e), m.src = p.src
               PROVE  m.ctx >= p.ctx
    OBVIOUS
  <2>1. TypeOK /\ TypeOK'
    BY DEF IInv, PathInv
  <2>2. p.src \in Ext
    BY <2>1 DEF TypeOK, InPath
  <2> QED
    BY <2>1, <2>2, PathInOrder
<1> HIDE DEF Inv
<1> QED
  BY <1>1, <1>2, <1>3, PathInvariant, PTL DEF Spec, HandedInOrder
=============================================================================

-------------------------- MODULE StartGraphProofs --------------------------
(***************************************************************************)
(* What is proved of a graph that comes up, for any apps and any graph:    *)
(* the state is well formed; and while each app makes one engine for the   *)
(* graph, the only assertion that can fail is the one that OneOriginal is  *)
(* about, and two neighbours use the same channel.  In particular no       *)
(* neighbour gets two remotes, whatever comes first, the result of the own *)
(* connection or the other side's start_graph, and no result comes over a  *)
(* remote that is not weak any more.                                       *)
(*                                                                         *)
(* The inductive invariant SafeInv speaks of each engine (EngineOK), of    *)
(* each channel and its two ends (WireOK, HoldOK), of the two channels     *)
(* that two apps may make to each other (SmallerOK), and of the results    *)
(* that are still to come over a channel (AnswersOK).                      *)
(***************************************************************************)
EXTENDS StartGraph, FiniteSetTheorems, WellFoundedInduction, TLAPS

\* What a queue holds, and that it holds it no more than once.
Has(s, m) == \E i \in DOMAIN s : s[i] = m
Once(s, m) == \A i, j \in DOMAIN s : s[i] = m /\ s[j] = m => i = j

\* Nothing comes behind the end of a channel, and one last word over it.
EofLast(s) == \A i \in DOMAIN s : s[i] = "eof" => i = Len(s)
Single(s) == \A i, j \in DOMAIN s : {s[i], s[j]} \subseteq {"ok", "duplicate"} => i = j

Sources == App \cup {Client}
Starting(s) == Task("start_graph", s)
Creating(b) == Task("created", b)
CloseTask == Task("close", None)
HandleTask == Task("handle_in_msgs", None)
Tasks == {HandleTask, CloseTask} \cup {Starting(s) : s \in Sources} \cup {Creating(b) : b \in App}

EngineType ==
  [state : {"none", "up", "closing", "draining", "gone"}, original : Sources \cup {None},
   out : SUBSET App, oks : SUBSET App, context : {"none", "starting", "ready"},
   requester : Sources \cup {None}, weak : SUBSET App, normal : [App -> Channels \cup {None}],
   made : Nat, inMsgs : Seq(Sources), tasks : Seq(Tasks)]

FwdType == {"start_graph", "ok", "error", "eof"}
BackType == {"ok", "error", "duplicate", "eof"}
WireType == [st : {"none", "connecting", "up", "closed"}, fwd : Seq(FwdType), back : Seq(BackType)]

\* A neighbour whose remote is about to be created.
Pending(e, b) == Has(e.tasks, Creating(b))

\* An engine that closes begins no connection any more.
CreatedFirst(s) == \A i, j \in DOMAIN s : s[i] = CloseTask /\ s[j].run = "created" => j < i

\* Whom an engine deals with.
RemotesOK(x, e) ==
  /\ e.weak \subseteq App \ {x} /\ e.original # x /\ e.requester # x
  /\ e.out \subseteq App \ {x} /\ e.oks \subseteq e.out
  /\ \A y \in App : e.normal[y] \in {<<x, y>>, <<y, x>>, None}
  /\ ~Has(e.inMsgs, x) /\ ~Has(e.tasks, Starting(x))
  /\ \A b \in App : Pending(e, b) => b \in Neighbours(x)

\* What an engine in some state has, and what is before its end.
QueueOK(x, e) ==
  /\ e.state = "none" <=> e.made = 0
  /\ e.state \in {"none", "gone"} =>
       e.tasks = <<>> /\ e.inMsgs = <<>> /\ e.requester = None /\ \A y \in App : e.normal[y] = None
  /\ e.state \in {"none", "draining", "gone"} =>
       /\ e.weak = {} /\ \A y \in App : e.normal[y] # <<x, y>>
       /\ \A b \in App : ~Pending(e, b)
  /\ Has(e.tasks, CloseTask) => e.state = "closing"
  /\ Once(e.tasks, CloseTask)
  /\ CreatedFirst(e.tasks)

\* How far an engine is with its neighbours.
ConnectingOK(e) ==
  /\ e.state \in {"none", "up"} /\ e.original = None =>
       e.out = {} /\ e.weak = {} /\ \A b \in App : ~Pending(e, b)
  /\ e.original # None => \A b \in App : Once(e.tasks, Creating(b)) /\ (Pending(e, b) => b \notin e.weak)
  /\ e.state = "up" =>
       /\ \A b \in App : Pending(e, b) => b \in e.out \ e.oks
       /\ \A b, d \in App : Pending(e, b) /\ Pending(e, d) /\ e.normal[b] # None => b = d
       /\ e.context = "starting" => e.requester # None

EngineOK(x, e) == RemotesOK(x, e) /\ QueueOK(x, e) /\ ConnectingOK(e)

\* The rest is said of any engines en and wires wi: a step is taken apart into
\* changes that keep the invariant one after the other.

\* Neighbours x waits for in vain: their channel was there before x made its own.
Skipped(en, wi, x) == {b \in en[x].out \ en[x].oks : ~Pending(en[x], b) /\ wi[<<x, b>>].st = "none"}
SkippedOK(en, wi, x) == en[x].state = "up" /\ Skipped(en, wi, x) # {} => \A b \in App : ~Pending(en[x], b)

\* A start_graph of x is on its way to y, or y has a normal remote from it.
OnWire(wi, x, y) == Has(wi[<<x, y>>].fwd, "start_graph")
Queued(en, x, y) == Has(en[y].inMsgs, x) \/ Has(en[y].tasks, Starting(x))
Coming(en, wi, x, y) == OnWire(wi, x, y) \/ Queued(en, x, y)
Joined(en, wi, x, y) == Coming(en, wi, x, y) \/ en[y].normal[x] = <<x, y>>

\* x has a remote for the channel it made to y.
Holds(en, x, y) == y \in en[x].weak \/ en[x].normal[y] = <<x, y>>
Leaving(en, x) == en[x].state \in {"draining", "gone"}

\* A result that x takes for y's last word is on its way, or y will send it.
Answer(wi, x, y) == Has(wi[<<x, y>>].back, "ok") \/ Has(wi[<<x, y>>].back, "duplicate")
Owes(en, wi, y, x) == en[y].original = x /\ en[y].out # {} /\ Skipped(en, wi, y) = {}

WireOK(en, wi, x, y) ==
  LET w == wi[<<x, y>>] IN
  /\ w.st \in {"none", "connecting"} => w.fwd = <<>> /\ w.back = <<>>
  /\ w.st = "connecting" => y \in en[x].weak
  /\ en[x].state = "none" => w.st = "none"
  /\ en[x].state = "up" /\ en[x].original = None => w.st = "none"
  /\ en[x].original # None /\ Pending(en[x], y) => w.st = "none"
  /\ Has(w.fwd, "eof") => /\ w.st = "closed" /\ w.back = <<>> /\ ~Holds(en, x, y)
                          /\ graph.uri[y] < graph.uri[x] => Leaving(en, x)
  /\ Has(w.back, "eof") => /\ w.st = "closed" /\ w.fwd = <<>> /\ ~Joined(en, wi, x, y)
                           /\ Leaving(en, y)
  /\ EofLast(w.back)
  /\ Has(w.back, "duplicate") => graph.uri[x] < graph.uri[y]

HoldOK(en, wi, x, y) ==
  LET w == wi[<<x, y>>] IN
  /\ Joined(en, wi, x, y) => (w.st = "up" /\ Holds(en, x, y)) \/ Has(w.fwd, "eof")
  /\ Coming(en, wi, x, y) => en[y].normal[x] # <<x, y>>
  /\ OnWire(wi, x, y) => ~Queued(en, x, y) /\ Once(w.fwd, "start_graph")
  /\ ~(Has(en[y].inMsgs, x) /\ Has(en[y].tasks, Starting(x)))
  /\ Once(en[y].inMsgs, x) /\ Once(en[y].tasks, Starting(x))
  /\ en[x].normal[y] = <<x, y>> => y \notin en[x].weak /\ (w.st = "up" \/ Has(w.back, "eof"))
  /\ y \in en[x].weak => \/ w.st \in {"connecting", "up"} \/ Has(w.back, "eof")
                         \/ w.st = "closed" /\ en[x].state # "up" /\ ~Pending(en[x], y)

\* y has no channel to x, and x keeps the one it made to y.
Away(en, wi, y, x) ==
  wi[<<y, x>>].st # "connecting" /\ ~Joined(en, wi, y, x) /\ x \notin en[y].weak
Kept(en, wi, x, y) == Has(wi[<<x, y>>].back, "ok") \/ en[x].normal[y] = <<x, y>>

\* The channel from the smaller uri, once taken, is the only one.
SmallerOK(en, wi, x, y) ==
  graph.uri[x] < graph.uri[y] =>
    /\ en[y].normal[x] = <<x, y>> /\ en[y].state \in {"up", "closing"} => Away(en, wi, y, x)
    /\ Kept(en, wi, x, y) => Away(en, wi, y, x) /\ (en[y].normal[x] = <<x, y>> \/ Leaving(en, y))

\* x is told once.
AnswersOK(en, wi, x, y) ==
  LET w == wi[<<x, y>>] IN
  en[x].state \in {"none", "up"} =>
    /\ w.st \in {"none", "connecting"} \/ Coming(en, wi, x, y) =>
         en[y].requester # x /\ en[y].original # x /\ ~Answer(wi, x, y)
    /\ en[y].state = "up" /\ en[y].requester = x => ~Owes(en, wi, y, x) /\ ~Answer(wi, x, y)
    /\ en[y].state = "up" /\ Owes(en, wi, y, x) => ~Answer(wi, x, y)
    /\ Single(w.back)
    /\ Coming(en, wi, x, y) \/ Answer(wi, x, y) => y \in en[x].weak
    /\ en[y].state = "up" /\ (en[y].requester = x \/ Owes(en, wi, y, x)) => y \in en[x].weak

PairOK(en, wi, x, y) ==
  WireOK(en, wi, x, y) /\ HoldOK(en, wi, x, y) /\ SmallerOK(en, wi, x, y) /\ AnswersOK(en, wi, x, y)

Types(en, wi) ==
  /\ en \in [App -> EngineType] /\ \A x \in App : RemotesOK(x, en[x])
  /\ wi \in [Channels -> WireType]

GraphOK(en, wi) ==
  /\ Types(en, wi)
  /\ \A x \in App : EngineOK(x, en[x]) /\ SkippedOK(en, wi, x)
  /\ \A x, y \in App : x # y => PairOK(en, wi, x, y)

TypeInv ==
  /\ graph \in Graphs /\ Types(engine, wire) /\ told \subseteq {"ok", "error"}
  /\ failed \in {"none", "one remote", "one original", "one weak remote", "weak remote", "an original"}

SafeInv ==
  /\ failed \in {"none", "one original"}
  /\ Running => GraphOK(engine, wire)

(***************************************************************************)
(* Sequences                                                               *)
(***************************************************************************)

LEMMA HasTail ==
    ASSUME NEW S, NEW s \in Seq(S), s # <<>>
    PROVE  /\ Tail(s) \in Seq(S) /\ Head(s) \in S
           /\ \A m : Has(s, m) <=> Head(s) = m \/ Has(Tail(s), m)
           /\ \A m : Once(s, m) => Once(Tail(s), m) /\ (Head(s) = m => ~Has(Tail(s), m))
<1> DEFINE t == Tail(s)
<1>1. /\ t \in Seq(S) /\ Len(t) = Len(s) - 1 /\ Len(s) \in Nat /\ Len(s) > 0
      /\ \A i \in 1 .. Len(t) : t[i] = s[i + 1]
      /\ DOMAIN t = 1 .. Len(t) /\ DOMAIN s = 1 .. Len(s) /\ Head(s) = s[1] /\ s[1] \in S
  OBVIOUS
<1> HIDE DEF t
<1>2. ASSUME NEW i \in DOMAIN s, i # 1
      PROVE  i - 1 \in DOMAIN t /\ t[i - 1] = s[i]
  BY <1>1, <1>2
<1>3. ASSUME NEW i \in DOMAIN t
      PROVE  i + 1 \in DOMAIN s /\ t[i] = s[i + 1] /\ i + 1 # 1
  BY <1>1, <1>3
<1>4. 1 \in DOMAIN s
  BY <1>1
<1>5. \A m : Has(s, m) <=> s[1] = m \/ Has(t, m)
  BY <1>2, <1>3, <1>4 DEF Has
<1>6. ASSUME NEW m, Once(s, m)
      PROVE  Once(t, m) /\ (s[1] = m => ~Has(t, m))
  <2>1. ASSUME NEW i \in DOMAIN t, NEW j \in DOMAIN t, t[i] = m, t[j] = m
        PROVE  i = j
    <3>1. i + 1 = j + 1
      BY <1>3, <1>6, <2>1 DEF Once
    <3> QED
      BY <1>1, <3>1
  <2>2. ASSUME s[1] = m, NEW i \in DOMAIN t, t[i] = m
        PROVE  FALSE
    BY <1>3, <1>4, <1>6, <2>2 DEF Once
  <2> QED
    BY <2>1, <2>2 DEF Once, Has
<1> QED
  BY <1>1, <1>5, <1>6 DEF t

LEMMA HasAppend ==
    ASSUME NEW S, NEW s \in Seq(S), NEW k \in S
    PROVE  /\ Append(s, k) \in Seq(S) /\ Append(s, k) # <<>>
           /\ \A m : Has(Append(s, k), m) <=> Has(s, m) \/ k = m
           /\ \A m : Once(s, m) /\ (k = m => ~Has(s, m)) => Once(Append(s, k), m)
<1> DEFINE t == Append(s, k)
<1>1. /\ t \in Seq(S) /\ Len(t) = Len(s) + 1 /\ Len(s) \in Nat
      /\ \A i \in 1 .. Len(s) : t[i] = s[i]
      /\ t[Len(s) + 1] = k
      /\ DOMAIN t = 1 .. Len(t) /\ DOMAIN s = 1 .. Len(s)
  OBVIOUS
<1> HIDE DEF t
<1>2. \A i \in DOMAIN t : i \in DOMAIN s \/ i = Len(s) + 1
  BY <1>1
<1>3. \A i \in DOMAIN s : i \in DOMAIN t
  BY <1>1
<1>4. Len(s) + 1 \in DOMAIN t
  BY <1>1
<1>5. \A m : Has(t, m) <=> Has(s, m) \/ k = m
  BY <1>1, <1>2, <1>3, <1>4 DEF Has
<1>6. ASSUME NEW m, Once(s, m), k = m => ~Has(s, m)
      PROVE  Once(t, m)
  BY <1>1, <1>2, <1>6 DEF Once, Has
<1>7. t # <<>>
  BY <1>1
<1> QED
  BY <1>1, <1>5, <1>6, <1>7 DEF t

LEMMA HasConcat ==
    ASSUME NEW S, NEW r \in Seq(S), NEW s \in Seq(S)
    PROVE  /\ r \o s \in Seq(S)
           /\ \A m : Has(r \o s, m) <=> Has(r, m) \/ Has(s, m)
           /\ \A m : Once(r, m) /\ Once(s, m) /\ ~(Has(r, m) /\ Has(s, m)) => Once(r \o s, m)
<1> DEFINE t == r \o s
<1>1. /\ t \in Seq(S) /\ Len(t) = Len(r) + Len(s) /\ Len(s) \in Nat /\ Len(r) \in Nat
      /\ \A i \in 1 .. Len(r) : t[i] = r[i]
      /\ \A i \in 1 .. Len(s) : t[Len(r) + i] = s[i]
      /\ DOMAIN t = 1 .. Len(t) /\ DOMAIN s = 1 .. Len(s) /\ DOMAIN r = 1 .. Len(r)
  OBVIOUS
<1> HIDE DEF t
<1>2. ASSUME NEW i \in DOMAIN t
      PROVE  \/ i \in DOMAIN r /\ t[i] = r[i]
             \/ i - Len(r) \in DOMAIN s /\ t[i] = s[i - Len(r)] /\ i \in Int
  <2>1. CASE i <= Len(r)
    BY <1>1, <2>1
  <2>2. CASE ~(i <= Len(r))
    <3> DEFINE k == i - Len(r)
    <3>1. k \in 1 .. Len(s) /\ Len(r) + k = i
      BY <1>1, <2>2
    <3> QED
      BY <1>1, <3>1
  <2> QED
    BY <2>1, <2>2
<1>3. \A i \in DOMAIN r : i \in DOMAIN t /\ t[i] = r[i]
  BY <1>1
<1>4. \A i \in DOMAIN s : Len(r) + i \in DOMAIN t /\ t[Len(r) + i] = s[i]
  BY <1>1
<1>5. \A m : Has(t, m) <=> Has(r, m) \/ Has(s, m)
  BY <1>2, <1>3, <1>4 DEF Has
<1>6. ASSUME NEW m, Once(r, m), Once(s, m), ~(Has(r, m) /\ Has(s, m)),
             NEW i \in DOMAIN t, NEW j \in DOMAIN t, t[i] = m, t[j] = m
      PROVE  i = j
  <2>1. CASE i \in DOMAIN r /\ t[i] = r[i]
    <3>1. j \in DOMAIN r /\ t[j] = r[j]
      BY <1>2, <1>6, <2>1 DEF Has
    <3> QED
      BY <1>6, <2>1, <3>1 DEF Once
  <2>2. CASE i - Len(r) \in DOMAIN s /\ t[i] = s[i - Len(r)] /\ i \in Int
    <3>1. j - Len(r) \in DOMAIN s /\ t[j] = s[j - Len(r)] /\ j \in Int
      BY <1>2, <1>6, <2>2 DEF Has
    <3>2. i - Len(r) = j - Len(r)
      BY <1>6, <2>2, <3>1 DEF Once
    <3> QED
      BY <1>1, <2>2, <3>1, <3>2
  <2> QED
    BY <1>2, <2>1, <2>2
<1>7. \A m : Once(r, m) /\ Once(s, m) /\ ~(Has(r, m) /\ Has(s, m)) => Once(t, m)
  BY <1>6 DEF Once
<1> QED
  BY <1>1, <1>5, <1>7 DEF t

LEMMA HasNone ==
    /\ \A m : ~Has(<<>>, m) /\ Once(<<>>, m)
    /\ \A n, m : Has(<<n>>, m) <=> n = m
    /\ \A n, m : Once(<<n>>, m)
  BY DEF Has, Once

\* The numbers of a finite set, one after the other.
LEMMA NthOf ==
    ASSUME NEW n \in Nat, NEW I, I \subseteq 1 .. n
    PROVE  /\ Cardinality(I) \in Nat
           /\ \A k \in 1 .. Cardinality(I) : Nth(I, k) \in I
           /\ \A i \in I : \E k \in 1 .. Cardinality(I) : Nth(I, k) = i
           /\ \A k, l \in 1 .. Cardinality(I) : Nth(I, k) = Nth(I, l) => k = l
<1> DEFINE upTo(i) == {j \in I : j <= i}
           rank == [i \in I |-> Cardinality(upTo(i))]
           c == Cardinality(I)
<1>1. IsFiniteSet(I) /\ c \in Nat /\ I \subseteq Nat
  <2>1. IsFiniteSet(1 .. n) /\ I \in SUBSET (1 .. n)
    BY FS_Interval
  <2>2. IsFiniteSet(I)
    BY <2>1, FS_Subset
  <2> QED
    BY <2>2, FS_CardinalityType
<1>2. \A i \in I : IsFiniteSet(upTo(i)) /\ Cardinality(upTo(i)) \in Nat /\ Cardinality(upTo(i)) <= c
  BY <1>1, FS_Subset, FS_CardinalityType
<1>3. ASSUME NEW i \in I
      PROVE  Cardinality(upTo(i)) # 0
  <2>1. i \in upTo(i)
    OBVIOUS
  <2>2. Cardinality(upTo(i)) = 0 <=> upTo(i) = {}
    BY <1>2, FS_EmptySet
  <2> QED
    BY <2>1, <2>2
<1>4. ASSUME NEW i \in I, NEW j \in I, i < j
      PROVE  Cardinality(upTo(i)) # Cardinality(upTo(j))
  <2>0. i \in Nat /\ j \in Nat /\ \A k \in I : k \in Nat
    BY <1>1
  <2>1. upTo(i) \subseteq upTo(j) /\ j \in upTo(j) /\ j \notin upTo(i)
    <3>1. \A k \in I : k <= i => k <= j
      BY ONLY <1>4, <2>0
    <3>2. j <= j /\ ~(j <= i)
      BY ONLY <1>4, <2>0
    <3> QED
      BY ONLY <3>1, <3>2
  <2>2. upTo(i) # upTo(j)
    BY <2>1
  <2> HIDE DEF upTo
  <2> QED
    BY <1>2, <2>1, <2>2, FS_Subset
<1>5. rank \in [I -> 1 .. c]
  BY <1>1, <1>2, <1>3
<1>6. \A i, j \in I : rank[i] = rank[j] => i = j
  <2> SUFFICES ASSUME NEW i \in I, NEW j \in I, rank[i] = rank[j], i # j
               PROVE  FALSE
    OBVIOUS
  <2>1. i < j \/ j < i
    OBVIOUS
  <2> HIDE DEF upTo
  <2>2. Cardinality(upTo(i)) = Cardinality(upTo(j))
    OBVIOUS
  <2> QED
    BY <1>4, <2>1, <2>2
<1> HIDE DEF rank
<1>7. rank \in Surjection(I, 1 .. c)
  <2>1. rank \in Injection(I, 1 .. c)
    BY <1>5, <1>6 DEF Injection, IsInjective
  <2>2. IsFiniteSet(1 .. c) /\ Cardinality(1 .. c) = c
    BY <1>1, FS_Interval
  <2> QED
    BY <1>1, <2>1, <2>2, FS_Injection
<1>8. \A k \in 1 .. c : \E i \in I : rank[i] = k
  BY <1>7 DEF Surjection
<1>9. ASSUME NEW k \in 1 .. c
      PROVE  Nth(I, k) \in I /\ rank[Nth(I, k)] = k
  <2>1. \A i \in I : rank[i] = Cardinality({j \in I : j <= i})
    BY DEF rank
  <2>2. \E i \in I : Cardinality({j \in I : j <= i}) = k
    BY <1>8, <2>1
  <2>3. Nth(I, k) \in I /\ Cardinality({j \in I : j <= Nth(I, k)}) = k
    BY ONLY <2>2 DEF Nth
  <2> QED
    BY <2>1, <2>3
<1>10. \A i \in I : Nth(I, rank[i]) = i /\ rank[i] \in 1 .. c
  BY <1>5, <1>6, <1>9
<1> QED
  BY <1>1, <1>9, <1>10

\* The first element of a sequence that is in U.
LEMMA FirstIn ==
    ASSUME NEW S, NEW s \in Seq(S), NEW U
    PROVE  LET k == SelectInSeq(s, LAMBDA x : x \in U) IN
           /\ k = 0 => \A i \in DOMAIN s : s[i] \notin U
           /\ k # 0 => k \in DOMAIN s /\ s[k] \in U
<1> DEFINE I == {i \in 1 .. Len(s) : s[i] \in U}
           k == SelectInSeq(s, LAMBDA x : x \in U)
<1>1. k = IF I # {} THEN Min(I) ELSE 0
  BY DEF SelectInSeq
<1>2. DOMAIN s = 1 .. Len(s) /\ Len(s) \in Nat
  OBVIOUS
<1>3. CASE I = {}
  BY <1>1, <1>2, <1>3
<1>4. CASE I # {}
  <2>0. I \subseteq Nat
    OBVIOUS
  <2> HIDE DEF I
  <2>1. PICK x \in I : \A y \in I : ~ (<<y, x>> \in OpToRel(<, Nat))
    BY <1>4, <2>0, WFMin, NatLessThanWellFounded
  <2>2. \A y \in I : ~(y < x)
    BY <2>0, <2>1 DEF OpToRel
  <2>3. \E x1 \in I : \A y \in I : x1 <= y
    BY ONLY <2>0, <2>2
  <2>4. Min(I) \in I
    BY ONLY <2>3 DEF Min
  <2> QED
    BY <1>1, <1>2, <1>4, <2>4 DEF I
<1> QED
  BY <1>3, <1>4

LEMMA TaskKinds ==
    /\ \A s, t : Starting(s) = Starting(t) <=> s = t
    /\ \A s, t : Creating(s) = Creating(t) <=> s = t
    /\ \A s, t : Starting(s) # Creating(t)
    /\ \A s : Starting(s) \notin {HandleTask, CloseTask} /\ Creating(s) \notin {HandleTask, CloseTask}
    /\ HandleTask # CloseTask
    /\ \A s : Starting(s).run = "start_graph" /\ Creating(s).run = "created"
    /\ CloseTask.run = "close" /\ HandleTask.run = "handle_in_msgs"
<1>1. \A f, x, g, y : Task(f, x) = Task(g, y) <=> f = g /\ x = y
  BY DEF Task
<1>2. "start_graph" # "created" /\ "start_graph" # "close" /\ "start_graph" # "handle_in_msgs"
      /\ "created" # "close" /\ "created" # "handle_in_msgs" /\ "close" # "handle_in_msgs"
  OBVIOUS
<1> QED
  BY <1>1, <1>2 DEF Starting, Creating, HandleTask, CloseTask, Task

LEMMA TaskForms ==
    ASSUME NEW t \in Tasks
    PROVE  /\ t.run = "start_graph" => t = Starting(t.on) /\ t.on \in Sources
           /\ t.run = "created" => t = Creating(t.on) /\ t.on \in App
           /\ t.run = "close" => t = CloseTask
           /\ t.run = "handle_in_msgs" => t = HandleTask
<1>1. \/ t \in {HandleTask, CloseTask}
      \/ \E s \in Sources : t = Starting(s)
      \/ \E b \in App : t = Creating(b)
  BY DEF Tasks
<1> QED
  BY <1>1 DEF Starting, Creating, HandleTask, CloseTask, Task

\* The commands of a queue become tasks.
LEMMA TasksOfMsgs ==
    ASSUME NEW p \in Seq(Sources)
    PROVE  LET q == [i \in DOMAIN p |-> Task("start_graph", p[i])] IN
           /\ q \in Seq(Tasks)
           /\ \A s : Has(q, Starting(s)) <=> Has(p, s)
           /\ \A s : Once(p, s) => Once(q, Starting(s))
           /\ \A i \in DOMAIN q : q[i].run = "start_graph"
<1> DEFINE q == [i \in DOMAIN p |-> Task("start_graph", p[i])]
<1>1. DOMAIN p = 1 .. Len(p) /\ Len(p) \in Nat /\ \A i \in DOMAIN p : p[i] \in Sources
  OBVIOUS
<1>2. q = [i \in 1 .. Len(p) |-> Starting(p[i])] /\ \A i \in DOMAIN p : q[i] = Starting(p[i])
  BY <1>1 DEF Starting
<1>3. DOMAIN q = DOMAIN p
  OBVIOUS
<1>4. \A s \in Sources : Starting(s) \in Tasks
  BY DEF Tasks
<1>5. q \in Seq(Tasks)
  BY <1>1, <1>2, <1>4
<1> HIDE DEF q
<1>6. \A s : Has(q, Starting(s)) <=> Has(p, s)
  BY <1>2, <1>3, TaskKinds DEF Has
<1>7. \A s : Once(p, s) => Once(q, Starting(s))
  BY <1>2, <1>3, TaskKinds DEF Once
<1>8. \A i \in DOMAIN q : q[i].run = "start_graph"
  BY <1>2, <1>3, TaskKinds
<1> QED
  BY <1>5, <1>6, <1>7, <1>8 DEF q

\* The neighbours to connect to become tasks.
LEMMA TasksOfApps ==
    ASSUME NEW p \in Seq(App)
    PROVE  LET q == [i \in DOMAIN p |-> Task("created", p[i])] IN
           /\ q \in Seq(Tasks)
           /\ \A b : Has(q, Creating(b)) <=> Has(p, b)
           /\ \A b : Once(p, b) => Once(q, Creating(b))
           /\ \A i \in DOMAIN q : q[i].run = "created"
<1> DEFINE q == [i \in DOMAIN p |-> Task("created", p[i])]
<1>1. DOMAIN p = 1 .. Len(p) /\ Len(p) \in Nat /\ \A i \in DOMAIN p : p[i] \in App
  OBVIOUS
<1>2. q = [i \in 1 .. Len(p) |-> Creating(p[i])] /\ \A i \in DOMAIN p : q[i] = Creating(p[i])
  BY <1>1 DEF Creating
<1>3. DOMAIN q = DOMAIN p
  OBVIOUS
<1>4. \A b \in App : Creating(b) \in Tasks
  BY DEF Tasks
<1>5. q \in Seq(Tasks)
  BY <1>1, <1>2, <1>4
<1> HIDE DEF q
<1>6. \A b : Has(q, Creating(b)) <=> Has(p, b)
  BY <1>2, <1>3, TaskKinds DEF Has
<1>7. \A b : Once(p, b) => Once(q, Creating(b))
  BY <1>2, <1>3, TaskKinds DEF Once
<1>8. \A i \in DOMAIN q : q[i].run = "created"
  BY <1>2, <1>3, TaskKinds
<1> QED
  BY <1>5, <1>6, <1>7, <1>8 DEF q

\* What a queue without another task holds is held by all that run those tasks.
LEMMA RunsOnly ==
    ASSUME NEW q \in Seq(Tasks), NEW r, \A i \in DOMAIN q : q[i].run = r
    PROVE  /\ r # "start_graph" => \A s : ~Has(q, Starting(s))
           /\ r # "created" => \A b : ~Has(q, Creating(b))
           /\ r # "close" => ~Has(q, CloseTask)
           /\ r # "handle_in_msgs" => ~Has(q, HandleTask)
  BY TaskKinds DEF Has

LEMMA EndsTail ==
    ASSUME NEW S, NEW s \in Seq(S), s # <<>>
    PROVE  /\ EofLast(s) => EofLast(Tail(s)) /\ (Head(s) = "eof" => Tail(s) = <<>>)
           /\ Single(s) => /\ Single(Tail(s))
                           /\ Head(s) \in {"ok", "duplicate"} => ~Has(Tail(s), "ok") /\ ~Has(Tail(s), "duplicate")
           /\ CreatedFirst(s) => /\ CreatedFirst(Tail(s))
                                 /\ Head(s) = CloseTask => \A b : ~Has(Tail(s), Creating(b))
<1> DEFINE t == Tail(s)
<1>1. /\ t \in Seq(S) /\ Len(t) = Len(s) - 1 /\ Len(s) \in Nat /\ Len(s) > 0
      /\ \A i \in 1 .. Len(t) : t[i] = s[i + 1]
      /\ DOMAIN t = 1 .. Len(t) /\ DOMAIN s = 1 .. Len(s) /\ Head(s) = s[1] /\ s[1] \in S
  OBVIOUS
<1>2. Len(t) = 0 => t = <<>>
  <2>1. \A u \in Seq(S) : Len(u) = 0 => u = <<>>
    OBVIOUS
  <2> HIDE DEF t
  <2> QED
    BY <1>1, <2>1
<1> HIDE DEF t
<1>3. \A i \in DOMAIN t : i \in Nat /\ i + 1 \in DOMAIN s /\ t[i] = s[i + 1] /\ i + 1 # 1
  BY <1>1
<1>4. 1 \in DOMAIN s
  BY <1>1
<1>5. ASSUME EofLast(s)
      PROVE  EofLast(t) /\ (s[1] = "eof" => t = <<>>)
  <2>1. EofLast(t)
    BY <1>1, <1>3, <1>5 DEF EofLast
  <2> QED
    BY <1>1, <1>2, <1>4, <1>5, <2>1 DEF EofLast
<1>6. ASSUME Single(s)
      PROVE  Single(t) /\ (s[1] \in {"ok", "duplicate"} => ~Has(t, "ok") /\ ~Has(t, "duplicate"))
  <2>1. Single(t)
    <3> SUFFICES ASSUME NEW i \in DOMAIN t, NEW j \in DOMAIN t, {t[i], t[j]} \subseteq {"ok", "duplicate"}
                 PROVE  i = j
      BY DEF Single
    <3>1. i + 1 = j + 1
      BY <1>3, <1>6 DEF Single
    <3> QED
      BY <1>3, <3>1
  <2>2. ASSUME NEW i \in DOMAIN t, {s[1], t[i]} \subseteq {"ok", "duplicate"}
        PROVE  FALSE
    <3>1. {s[1], s[i + 1]} \subseteq {"ok", "duplicate"} /\ i + 1 \in DOMAIN s /\ i + 1 # 1
      BY <1>3, <2>2
    <3> QED
      BY <1>4, <1>6, <3>1 DEF Single
  <2> QED
    BY <2>1, <2>2 DEF Has
<1>7. ASSUME CreatedFirst(s)
      PROVE  CreatedFirst(t) /\ (s[1] = CloseTask => \A b : ~Has(t, Creating(b)))
  <2>1. ASSUME NEW i \in DOMAIN t, NEW j \in DOMAIN t, t[i] = CloseTask, t[j].run = "created"
        PROVE  j < i
    <3>1. j + 1 < i + 1
      BY <1>3, <1>7, <2>1 DEF CreatedFirst
    <3> QED
      BY <1>3, <3>1
  <2>2. ASSUME NEW j \in DOMAIN t, NEW b, s[1] = CloseTask, t[j] = Creating(b)
        PROVE  FALSE
    <3>1. s[j + 1].run = "created"
      BY <1>3, <2>2, TaskKinds
    <3>2. j + 1 < 1
      BY <1>3, <1>4, <1>7, <2>2, <3>1 DEF CreatedFirst
    <3> QED
      BY <1>3, <3>2
  <2> QED
    BY <2>1, <2>2 DEF CreatedFirst, Has
<1> QED
  BY <1>1, <1>5, <1>6, <1>7 DEF t

LEMMA EndsAppend ==
    ASSUME NEW S, NEW s \in Seq(S), NEW k \in S
    PROVE  /\ ~Has(s, "eof") => EofLast(Append(s, k))
           /\ Single(s) /\ (k \in {"ok", "duplicate"} => ~Has(s, "ok") /\ ~Has(s, "duplicate")) =>
                Single(Append(s, k))
           /\ CreatedFirst(s) /\ k \in {CloseTask, HandleTask} => CreatedFirst(Append(s, k))
<1> DEFINE t == Append(s, k)
<1>1. /\ t \in Seq(S) /\ Len(t) = Len(s) + 1 /\ Len(s) \in Nat
      /\ \A i \in 1 .. Len(s) : t[i] = s[i]
      /\ t[Len(s) + 1] = k
      /\ DOMAIN t = 1 .. Len(t) /\ DOMAIN s = 1 .. Len(s)
  OBVIOUS
<1> HIDE DEF t
<1>2. \A i \in DOMAIN t : (i \in DOMAIN s /\ t[i] = s[i]) \/ (i = Len(t) /\ t[i] = k)
  <2> SUFFICES ASSUME NEW i \in DOMAIN t
               PROVE  \/ i \in DOMAIN s /\ t[i] = s[i]
                      \/ i = Len(t) /\ t[i] = k
    OBVIOUS
  <2>1. CASE i \in 1 .. Len(s)
    BY <1>1, <2>1
  <2>2. CASE i = Len(s) + 1
    BY <1>1, <2>2
  <2>3. i \in 1 .. Len(s) \/ i = Len(s) + 1
    BY <1>1
  <2> QED
    BY <2>1, <2>2, <2>3
<1>3. \A i \in DOMAIN s : i \in Nat /\ i < Len(t)
  BY <1>1
<1>4. ~Has(s, "eof") => EofLast(t)
  BY <1>2 DEF Has, EofLast
<1>5. ASSUME Single(s), k \in {"ok", "duplicate"} => ~Has(s, "ok") /\ ~Has(s, "duplicate")
      PROVE  Single(t)
  <2> SUFFICES ASSUME NEW i \in DOMAIN t, NEW j \in DOMAIN t, {t[i], t[j]} \subseteq {"ok", "duplicate"}
               PROVE  i = j
    BY DEF Single
  <2>1. k \in {"ok", "duplicate"} => \A l \in DOMAIN s : s[l] \notin {"ok", "duplicate"}
    BY <1>5 DEF Has
  <2>2. CASE i \in DOMAIN s /\ t[i] = s[i] /\ j \in DOMAIN s /\ t[j] = s[j]
    BY <1>5, <2>2 DEF Single
  <2>3. CASE i = Len(t) /\ j = Len(t)
    BY <2>3
  <2>4. CASE i \in DOMAIN s /\ t[i] = s[i] /\ j = Len(t) /\ t[j] = k
    BY <2>1, <2>4
  <2>5. CASE j \in DOMAIN s /\ t[j] = s[j] /\ i = Len(t) /\ t[i] = k
    BY <2>1, <2>5
  <2> QED
    BY <1>2, <2>2, <2>3, <2>4, <2>5
<1>6. ASSUME CreatedFirst(s), k \in {CloseTask, HandleTask}
      PROVE  CreatedFirst(t)
  <2> SUFFICES ASSUME NEW i \in DOMAIN t, NEW j \in DOMAIN t, t[i] = CloseTask, t[j].run = "created"
               PROVE  j < i
    BY DEF CreatedFirst
  <2>1. j \in DOMAIN s /\ t[j] = s[j]
    BY <1>2, <1>6, TaskKinds
  <2>2. CASE i \in DOMAIN s /\ t[i] = s[i]
    BY <1>6, <2>1, <2>2 DEF CreatedFirst
  <2>3. CASE i = Len(t)
    BY <1>3, <2>1, <2>3
  <2> QED
    BY <1>2, <2>2, <2>3
<1> QED
  BY <1>4, <1>5, <1>6 DEF t

LEMMA EndsConcat ==
    ASSUME NEW S, NEW r \in Seq(S), NEW s \in Seq(S)
    PROVE  /\ (\A i \in DOMAIN r : r[i].run = "start_graph") /\ CreatedFirst(s) => CreatedFirst(r \o s)
           /\ ~Has(r, CloseTask) /\ ~Has(s, CloseTask) => CreatedFirst(r \o s)
<1> DEFINE t == r \o s
<1>1. /\ t \in Seq(S) /\ Len(t) = Len(r) + Len(s) /\ Len(s) \in Nat /\ Len(r) \in Nat
      /\ \A i \in 1 .. Len(r) : t[i] = r[i]
      /\ \A i \in 1 .. Len(s) : t[Len(r) + i] = s[i]
      /\ DOMAIN t = 1 .. Len(t) /\ DOMAIN s = 1 .. Len(s) /\ DOMAIN r = 1 .. Len(r)
  OBVIOUS
<1> HIDE DEF t
<1>2. ASSUME NEW i \in DOMAIN t
      PROVE  \/ i \in DOMAIN r /\ t[i] = r[i]
             \/ i - Len(r) \in DOMAIN s /\ t[i] = s[i - Len(r)] /\ i \in Int
  <2>1. CASE i <= Len(r)
    BY <1>1, <2>1
  <2>2. CASE ~(i <= Len(r))
    <3> DEFINE k == i - Len(r)
    <3>1. k \in 1 .. Len(s) /\ Len(r) + k = i
      BY <1>1, <2>2
    <3> QED
      BY <1>1, <3>1
  <2> QED
    BY <2>1, <2>2
<1>3. ASSUME \A i \in DOMAIN r : r[i].run = "start_graph", CreatedFirst(s),
             NEW i \in DOMAIN t, NEW j \in DOMAIN t, t[i] = CloseTask, t[j].run = "created"
      PROVE  j < i
  <2>1. i - Len(r) \in DOMAIN s /\ t[i] = s[i - Len(r)] /\ i \in Int
    BY <1>2, <1>3, TaskKinds
  <2>2. j - Len(r) \in DOMAIN s /\ t[j] = s[j - Len(r)] /\ j \in Int
    BY <1>2, <1>3
  <2>3. j - Len(r) < i - Len(r)
    BY <1>3, <2>1, <2>2 DEF CreatedFirst
  <2> QED
    BY <1>1, <2>1, <2>2, <2>3
<1>4. ~Has(r, CloseTask) /\ ~Has(s, CloseTask) => CreatedFirst(t)
  <2>1. ~Has(r, CloseTask) /\ ~Has(s, CloseTask) => ~Has(t, CloseTask)
    BY <1>2 DEF Has
  <2> QED
    BY <2>1 DEF Has, CreatedFirst
<1> QED
  BY <1>3, <1>4 DEF CreatedFirst, t

LEMMA EndsNone == EofLast(<<>>) /\ Single(<<>>) /\ CreatedFirst(<<>>)
  BY DEF EofLast, Single, CreatedFirst

-----------------------------------------------------------------------------
(* Neighbours and channels *)

LEMMA GraphFacts ==
    ASSUME graph \in Graphs
    PROVE  /\ graph \in GraphType
           /\ \A a \in App : graph.next[a] \in Seq(App) /\ Neighbours(a) \subseteq App \ {a}
           /\ \A a \in App : graph.uri[a] \in Nat
           /\ \A a, b \in App : a # b => graph.uri[a] < graph.uri[b] \/ graph.uri[b] < graph.uri[a]
<1>1. graph \in GraphType
  BY GraphsSymmetric
<1>2. \A a \in App : graph.next[a] \in Seq(App)
  BY <1>1 DEF GraphType
<1>3. \A a \in App : Neighbours(a) \subseteq App \ {a}
  BY <1>2, NeighboursDistinct DEF Neighbours, ToSet
<1>4. \A a \in App : graph.uri[a] \in Nat
  BY <1>1 DEF GraphType
<1>5. \A a, b \in App : a # b => graph.uri[a] # graph.uri[b]
  BY GraphsSymmetric
<1> QED
  BY <1>1, <1>2, <1>3, <1>4, <1>5

LEMMA NewAppsOf ==
    ASSUME graph \in Graphs, NEW a \in App, NEW e
    PROVE  /\ NewApps(a, e) \in Seq(App)
           /\ \A b : Has(NewApps(a, e), b) <=> b \in Neighbours(a) /\ ~RemoteExists(e, b)
           /\ \A b : Once(NewApps(a, e), b)
<1> DEFINE l == graph.next[a]
           I == {i \in DOMAIN l : ~RemoteExists(e, l[i])}
           c == Cardinality(I)
           new == [k \in 1 .. c |-> l[Nth(I, k)]]
<1>1. /\ l \in Seq(App) /\ DOMAIN l = 1 .. Len(l) /\ Len(l) \in Nat
      /\ \A i \in DOMAIN l : l[i] \in App
      /\ \A i, j \in DOMAIN l : l[i] = l[j] => i = j
  BY GraphFacts, NeighboursDistinct
<1>2. I \subseteq 1 .. Len(l)
  BY <1>1
<1>3. new = NewApps(a, e)
  BY DEF NewApps
<1>4. Neighbours(a) = {l[i] : i \in DOMAIN l}
  BY DEF Neighbours, ToSet
<1>5. \A i \in I : i \in DOMAIN l /\ ~RemoteExists(e, l[i])
  OBVIOUS
<1>6. \A i \in DOMAIN l : ~RemoteExists(e, l[i]) => i \in I
  OBVIOUS
<1> HIDE DEF l, I
<1>7. /\ c \in Nat
      /\ \A k \in 1 .. c : Nth(I, k) \in I
      /\ \A i \in I : \E k \in 1 .. c : Nth(I, k) = i
      /\ \A k, m \in 1 .. c : Nth(I, k) = Nth(I, m) => k = m
  BY <1>1, <1>2, NthOf
<1>8. new \in Seq(App) /\ DOMAIN new = 1 .. c /\ \A k \in 1 .. c : new[k] = l[Nth(I, k)]
  BY <1>1, <1>5, <1>7
<1> HIDE DEF new, c
<1>9. \A b : Has(new, b) <=> b \in Neighbours(a) /\ ~RemoteExists(e, b)
  <2>1. ASSUME NEW b, Has(new, b)
        PROVE  b \in Neighbours(a) /\ ~RemoteExists(e, b)
    BY <1>4, <1>5, <1>7, <1>8, <2>1 DEF Has
  <2>2. ASSUME NEW b, b \in Neighbours(a), ~RemoteExists(e, b)
        PROVE  Has(new, b)
    <3>1. PICK i \in DOMAIN l : l[i] = b
      BY <1>4, <2>2
    <3>2. PICK k \in 1 .. c : Nth(I, k) = i
      BY <1>6, <1>7, <2>2, <3>1
    <3> QED
      BY <1>8, <3>1, <3>2 DEF Has
  <2> QED
    BY <2>1, <2>2
<1>10. \A b : Once(new, b)
  BY <1>1, <1>5, <1>7, <1>8 DEF Once
<1> QED
  BY <1>3, <1>8, <1>9, <1>10

LEMMA ChannelFacts ==
    /\ \A x, y \in App : x # y => <<x, y>> \in Channels
    /\ \A c \in Channels : c[1] \in App /\ c[2] \in App /\ c[1] # c[2] /\ c = <<c[1], c[2]>>
    /\ None \notin Channels /\ None \notin Sources /\ Client \notin App
    /\ App \subseteq Sources /\ Client \in Sources
  BY NamesAreDistinct DEF Channels, Sources

\* A message on its way.
MaySend(w, a, c, m) ==
  /\ w \in [Channels -> WireType] /\ c \in Channels /\ a \in {c[1], c[2]}
  /\ m \in {"ok", "error", "duplicate"} /\ (m = "duplicate" => a = c[2])

LEMMA SentOn ==
    ASSUME NEW w, NEW a, NEW c, NEW m, MaySend(w, a, c, m)
    PROVE  /\ Sent(w, a, c, m) \in [Channels -> WireType]
           /\ \A d \in Channels : d # c => Sent(w, a, c, m)[d] = w[d]
           /\ w[c].st # "up" => Sent(w, a, c, m) = w
           /\ Sent(w, a, c, m)[c].st = w[c].st
           /\ a = c[1] /\ w[c].st = "up" =>
                /\ Sent(w, a, c, m)[c].fwd = Append(w[c].fwd, m)
                /\ Sent(w, a, c, m)[c].back = w[c].back
           /\ a = c[2] /\ w[c].st = "up" =>
                /\ Sent(w, a, c, m)[c].fwd = w[c].fwd
                /\ Sent(w, a, c, m)[c].back = Append(w[c].back, m)
<1> USE DEF MaySend
<1>1. CASE w[c].st # "up"
  BY <1>1 DEF Sent
<1>2. CASE w[c].st = "up" /\ a = c[1]
  <2>1. Sent(w, a, c, m) = [w EXCEPT ![c].fwd = Append(@, m)]
    BY <1>2 DEF Sent, Out
  <2>2. m \in FwdType /\ w[c] \in WireType /\ c[1] # c[2]
    BY <1>2, ChannelFacts DEF FwdType
  <2>3. Append(w[c].fwd, m) \in Seq(FwdType)
    BY <2>2 DEF WireType
  <2> QED
    BY <1>2, <2>1, <2>2, <2>3, ZenonT(40) DEF WireType
<1>3. CASE w[c].st = "up" /\ a = c[2]
  <2>0. c[1] # c[2] /\ a # c[1]
    BY <1>3, ChannelFacts
  <2>1. Sent(w, a, c, m) = [w EXCEPT ![c].back = Append(@, m)]
    BY <1>3, <2>0 DEF Sent, Out
  <2>2. m \in BackType /\ w[c] \in WireType
    BY <1>3 DEF BackType
  <2>3. Append(w[c].back, m) \in Seq(BackType)
    BY <2>2 DEF WireType
  <2>4. [w[c] EXCEPT !.back = Append(@, m)] \in WireType
    BY <2>2, <2>3 DEF WireType
  <2>5. Sent(w, a, c, m) = [w EXCEPT ![c] = [w[c] EXCEPT !.back = Append(@, m)]]
    BY <2>1
  <2>6. /\ Sent(w, a, c, m)[c] = [w[c] EXCEPT !.back = Append(@, m)]
        /\ Sent(w, a, c, m) \in [Channels -> WireType]
        /\ \A d \in Channels : d # c => Sent(w, a, c, m)[d] = w[d]
    BY <2>4, <2>5
  <2> QED
    BY <1>3, <2>0, <2>2, <2>6 DEF WireType
<1> QED
  BY <1>1, <1>2, <1>3

-----------------------------------------------------------------------------
(* Types, for any bound on the engines an app makes *)

\* An engine with the type it has at app x.
Typed(x, e) == e \in EngineType /\ RemotesOK(x, e)

LEMMA RanTyped ==
    ASSUME NEW x \in App, NEW e, Typed(x, e), e.tasks # <<>>
    PROVE  /\ Typed(x, Ran(e)) /\ Ran(e) = [e EXCEPT !.tasks = Tail(e.tasks)]
           /\ NextTask(e) = Head(e.tasks) /\ NextTask(e) \in Tasks
           /\ NextTask(e).run = "start_graph" => NextTask(e).on \in Sources \ {x}
           /\ NextTask(e).run = "created" => NextTask(e).on \in Neighbours(x)
<1>1. e \in EngineType /\ e.tasks \in Seq(Tasks)
  BY DEF Typed, EngineType
<1>2. /\ Tail(e.tasks) \in Seq(Tasks) /\ Head(e.tasks) \in Tasks
      /\ \A m : Has(e.tasks, m) <=> Head(e.tasks) = m \/ Has(Tail(e.tasks), m)
  BY <1>1, HasTail
<1>3. Ran(e) \in EngineType
  BY <1>1, <1>2 DEF Ran, EngineType
<1>4. RemotesOK(x, Ran(e))
  BY <1>1, <1>2 DEF Ran, EngineType, Typed, RemotesOK, Pending
<1>5. NextTask(e) = Head(e.tasks)
  BY DEF NextTask
<1>6. NextTask(e).run = "start_graph" => NextTask(e).on \in Sources \ {x}
  BY <1>2, <1>5, TaskForms DEF Typed, RemotesOK
<1>7. NextTask(e).run = "created" => NextTask(e).on \in Neighbours(x)
  BY <1>2, <1>5, TaskForms DEF Typed, RemotesOK, Pending
<1> QED
  BY <1>2, <1>3, <1>4, <1>5, <1>6, <1>7 DEF Typed, Ran

LEMMA PostedTyped ==
    ASSUME NEW x \in App, NEW e, Typed(x, e), NEW t \in {CloseTask, HandleTask}
    PROVE  Typed(x, Posted(e, t)) /\ Posted(e, t) = [e EXCEPT !.tasks = Append(e.tasks, t)]
<1>1. e \in EngineType /\ e.tasks \in Seq(Tasks) /\ t \in Tasks
  BY DEF Typed, EngineType, Tasks
<1>2. /\ Append(e.tasks, t) \in Seq(Tasks)
      /\ \A m : Has(Append(e.tasks, t), m) <=> Has(e.tasks, m) \/ t = m
  BY <1>1, HasAppend
<1>3. Posted(e, t) \in EngineType
  BY <1>1, <1>2 DEF Posted, EngineType
<1>4. RemotesOK(x, Posted(e, t))
  BY <1>1, <1>2, TaskKinds DEF Posted, EngineType, Typed, RemotesOK, Pending
<1> QED
  BY <1>3, <1>4 DEF Typed, Posted

LEMMA ClosingTyped ==
    ASSUME NEW x \in App, NEW e, Typed(x, e)
    PROVE  /\ Typed(x, Closing(e)) /\ Typed(x, GivenUp(e))
           /\ e.state # "up" => Closing(e) = e /\ GivenUp(e) = [e EXCEPT !.original = None]
           /\ e.state = "up" =>
                /\ Closing(e) = [e EXCEPT !.state = "closing", !.tasks = Append(e.tasks, CloseTask)]
                /\ GivenUp(e) = [e EXCEPT !.original = None, !.state = "closing",
                                          !.tasks = Append(e.tasks, CloseTask)]
<1> DEFINE o == [e EXCEPT !.original = None]
           p(d) == [d EXCEPT !.state = "closing"]
<1>1. e \in EngineType
  BY DEF Typed
<1>2. Typed(x, o) /\ o.state = e.state /\ o.tasks = e.tasks
  BY <1>1, ChannelFacts DEF Typed, EngineType, RemotesOK, Pending
<1>3. Typed(x, p(e)) /\ Typed(x, p(o))
  BY <1>1, <1>2 DEF Typed, EngineType, RemotesOK, Pending
<1>4. CloseTask \in {CloseTask, HandleTask} /\ CloseTask = Task("close", None)
  BY DEF CloseTask
<1>5. Typed(x, Posted(p(e), CloseTask)) /\ Typed(x, Posted(p(o), CloseTask))
  BY <1>3, <1>4, PostedTyped
<1>6. e.state = "up" => Closing(e) = Posted(p(e), CloseTask) /\ GivenUp(e) = Posted(p(o), CloseTask)
  BY <1>2, <1>4 DEF Closing, GivenUp
<1>7. e.state # "up" => Closing(e) = e /\ GivenUp(e) = o
  BY <1>2 DEF Closing, GivenUp
<1>8. /\ Posted(p(e), CloseTask) = [e EXCEPT !.state = "closing", !.tasks = Append(e.tasks, CloseTask)]
      /\ Posted(p(o), CloseTask) = [e EXCEPT !.original = None, !.state = "closing",
                                             !.tasks = Append(e.tasks, CloseTask)]
  BY <1>1 DEF Posted, EngineType
<1> QED
  BY <1>2, <1>5, <1>6, <1>7, <1>8

\* Whoever a result is for, the channels keep their type.
LEMMA AnsweredTyped ==
    ASSUME NEW w \in [Channels -> WireType], NEW a, NEW e, NEW s, NEW r \in {"ok", "error"}
    PROVE  Answered(w, a, e, s, r) \in [Channels -> WireType]
<1> DEFINE c == e.normal[s]
<1>1. CASE Answered(w, a, e, s, r) = w
  BY <1>1
<1>2. CASE Answered(w, a, e, s, r) = Sent(w, a, c, r)
  <2>1. CASE c \notin Channels
    <3>1. \A k, v : [w EXCEPT ![c][k] = v] = w
      BY <2>1
    <3> QED
      BY <1>2, <3>1 DEF Sent
  <2>2. CASE c \in Channels
    <3>1. w[c] \in WireType /\ r \in FwdType /\ r \in BackType
      BY <2>2 DEF FwdType, BackType
    <3>2. Append(w[c].fwd, r) \in Seq(FwdType) /\ Append(w[c].back, r) \in Seq(BackType)
      BY <3>1 DEF WireType
    <3>3. [w EXCEPT ![c].fwd = Append(@, r)] \in [Channels -> WireType]
      BY <2>2, <3>1, <3>2 DEF WireType
    <3>4. [w EXCEPT ![c].back = Append(@, r)] \in [Channels -> WireType]
      BY <2>2, <3>1, <3>2 DEF WireType
    <3>5. Sent(w, a, c, r) \in {w, [w EXCEPT ![c].fwd = Append(@, r)], [w EXCEPT ![c].back = Append(@, r)]}
      BY DEF Sent, Out
    <3> QED
      BY <1>2, <3>3, <3>4, <3>5
  <2> QED
    BY <2>1, <2>2
<1> QED
  BY <1>1, <1>2 DEF Answered

LEMMA HeardTyped ==
    ASSUME told \subseteq {"ok", "error"}, NEW e, NEW s, NEW r \in {"ok", "error"}
    PROVE  Heard(e, s, r) \subseteq {"ok", "error"}
  BY DEF Heard

\* What a step changes is one engine, and channels.
LEMMA OneEngineTyped ==
    ASSUME TypeInv, NEW a \in App, NEW f, engine' = [engine EXCEPT ![a] = f], Typed(a, f),
           wire' \in [Channels -> WireType], graph' = graph
    PROVE  Types(engine, wire)' /\ graph' \in Graphs
<1>1. \A x \in App : Neighbours(x)' = Neighbours(x)
  BY DEF Neighbours
<1>2. engine \in [App -> EngineType] /\ \A x \in App : RemotesOK(x, engine[x])
  BY DEF TypeInv, Types
<1>3. engine' \in [App -> EngineType] /\ engine'[a] = f /\ \A x \in App : x # a => engine'[x] = engine[x]
  BY <1>2 DEF Typed
<1>4. \A x \in App : RemotesOK(x, engine'[x])
  BY <1>2, <1>3 DEF Typed
<1>5. \A x \in App : RemotesOK(x, engine[x])'
  BY <1>1, <1>4 DEF RemotesOK
<1> QED
  BY <1>3, <1>5 DEF TypeInv, Types

LEMMA NewTyped ==
    ASSUME NEW x \in App, NEW st \in {"none", "up", "gone"}, NEW n \in Nat
    PROVE  Typed(x, NewEngine(st, n))
<1> DEFINE e == NewEngine(st, n)
<1>1. <<>> \in Seq(Sources) /\ <<>> \in Seq(Tasks)
  OBVIOUS
<1>2. e \in EngineType
  BY <1>1 DEF NewEngine, EngineType
<1>3. RemotesOK(x, e)
  BY HasNone, ChannelFacts DEF NewEngine, RemotesOK, Pending
<1> QED
  BY <1>2, <1>3 DEF Typed

LEMMA EnginesTyped ==
    ASSUME TypeInv, NEW a \in App
    PROVE  /\ Typed(a, engine[a]) /\ engine[a] \in EngineType
           /\ engine \in [App -> EngineType] /\ wire \in [Channels -> WireType]
  BY DEF TypeInv, Types, Typed

LEMMA ArriveTyped ==
    ASSUME TypeInv, NEW c \in Channels, Arrive(c), graph' = graph
    PROVE  TypeInv'
<1> DEFINE a == c[2]
           e == IF engine[a].state \in {"none", "gone"} THEN NewEngine("up", engine[a].made + 1)
                ELSE engine[a]
           m == [e EXCEPT !.inMsgs = Append(e.inMsgs, c[1])]
<1>1. a \in App /\ c[1] \in Sources /\ c[1] # a
  BY ChannelFacts
<1>2. Typed(a, engine[a]) /\ engine[a].made \in Nat /\ wire[c] \in WireType
  BY <1>1, EnginesTyped DEF EngineType
<1>3. Typed(a, e)
  BY <1>1, <1>2, NewTyped
<1> HIDE DEF e
<1>4. Typed(a, m)
  <2>1. e \in EngineType /\ e.inMsgs \in Seq(Sources)
    BY <1>3 DEF Typed, EngineType
  <2>2. /\ Append(e.inMsgs, c[1]) \in Seq(Sources)
        /\ \A n : Has(Append(e.inMsgs, c[1]), n) <=> Has(e.inMsgs, n) \/ c[1] = n
    BY <1>1, <2>1, HasAppend
  <2>3. m \in EngineType
    BY <2>1, <2>2 DEF EngineType
  <2> QED
    BY <1>1, <1>3, <2>1, <2>2, <2>3 DEF Typed, RemotesOK, EngineType, Pending
<1>5. Typed(a, Posted(m, HandleTask))
  BY <1>1, <1>4, PostedTyped
<1>6. engine' = [engine EXCEPT ![a] = Posted(m, HandleTask)]
  BY DEF Arrive, e, HandleTask
<1>7. wire' \in [Channels -> WireType]
  <2>1. wire[c].fwd # <<>> /\ wire[c].fwd \in Seq(FwdType) /\ wire' = [wire EXCEPT ![c].fwd = Tail(@)]
    BY <1>2 DEF Arrive, WireType
  <2>2. Tail(wire[c].fwd) \in Seq(FwdType)
    BY <2>1
  <2>3. [wire[c] EXCEPT !.fwd = Tail(@)] \in WireType
    BY <1>2, <2>2 DEF WireType
  <2> QED
    BY <2>1, <2>3 DEF TypeInv, Types
<1> QED
  BY <1>1, <1>5, <1>6, <1>7, OneEngineTyped DEF Arrive, TypeInv

LEMMA HandleInMsgsTyped ==
    ASSUME TypeInv, NEW a \in App, HandleInMsgs(a), graph' = graph
    PROVE  TypeInv'
<1> DEFINE e == engine[a]
           q == [i \in DOMAIN e.inMsgs |-> Task("start_graph", e.inMsgs[i])]
           t == Tail(e.tasks)
           f == [e EXCEPT !.inMsgs = <<>>, !.tasks = q \o t]
<1>0. engine' = [engine EXCEPT ![a].inMsgs = <<>>, ![a].tasks = q \o t]
  BY DEF HandleInMsgs
<1>1. Typed(a, e) /\ e \in EngineType /\ e.inMsgs \in Seq(Sources) /\ e.tasks \in Seq(Tasks)
  BY EnginesTyped DEF EngineType
<1>2. e.tasks # <<>>
  BY DEF HandleInMsgs, NextTask, NoTask, Task
<1>3. /\ q \in Seq(Tasks)
      /\ \A s : Has(q, Starting(s)) <=> Has(e.inMsgs, s)
      /\ \A i \in DOMAIN q : q[i].run = "start_graph"
  BY <1>1, TasksOfMsgs
<1> HIDE DEF q
<1>4. Typed(a, Ran(e)) /\ Ran(e) = [e EXCEPT !.tasks = t]
  BY <1>1, <1>2, RanTyped
<1>5. t \in Seq(Tasks)
  BY <1>1, <1>2
<1> HIDE DEF t
<1>6. /\ q \o t \in Seq(Tasks)
      /\ \A m : Has(q \o t, m) <=> Has(q, m) \/ Has(t, m)
  BY <1>3, <1>5, HasConcat
<1>7. \A b : ~Has(q, Creating(b))
  BY <1>3, RunsOnly
<1>8. Typed(a, f)
  <2>1. f \in EngineType
    <3>1. <<>> \in Seq(Sources)
      OBVIOUS
    <3> QED
      BY <1>1, <1>6, <3>1 DEF EngineType
  <2>2. RemotesOK(a, f)
    BY <1>1, <1>3, <1>4, <1>6, <1>7, HasNone DEF Typed, RemotesOK, Pending, EngineType
  <2> QED
    BY <2>1, <2>2 DEF Typed
<1>9. engine' = [engine EXCEPT ![a] = f]
  <2> HIDE DEF e
  <2>1. engine \in [App -> EngineType] /\ e = engine[a]
    BY EnginesTyped DEF e
  <2> QED
    BY <1>0, <2>1 DEF EngineType
<1> QED
  BY <1>8, <1>9, OneEngineTyped DEF HandleInMsgs, TypeInv, Types

\* e waits for the neighbours o, and has the tasks q to connect to some of them.
Asked(e, o, q) == [e EXCEPT !.out = o, !.tasks = e.tasks \o q]

\* The tasks q connect to neighbours without a remote, to each one once.
Connects(a, e, q) ==
    /\ q \in Seq(Tasks)
    /\ \A i \in DOMAIN q : q[i].run = "created"
    /\ \A b : Has(q, Creating(b)) => Has(NewApps(a, e), b)

LEMMA AskedTyped ==
    ASSUME graph \in Graphs, NEW a \in App, NEW e, Typed(a, e), NEW q, Connects(a, e, q),
           NEW o, e.out \subseteq o, o \subseteq App \ {a}
    PROVE  /\ Typed(a, Asked(e, o, q)) /\ Asked(e, o, q).tasks = e.tasks \o q
           /\ e.tasks \o q \in Seq(Tasks)
           /\ \A m : Has(e.tasks \o q, m) <=> Has(e.tasks, m) \/ Has(q, m)
<1>1. e \in EngineType /\ e.tasks \in Seq(Tasks) /\ q \in Seq(Tasks)
  BY DEF Typed, EngineType, Connects
<1>2. /\ e.tasks \o q \in Seq(Tasks)
      /\ \A m : Has(e.tasks \o q, m) <=> Has(e.tasks, m) \/ Has(q, m)
  BY <1>1, HasConcat
<1>3. \A s : ~Has(q, Starting(s))
  BY <1>1, RunsOnly DEF Connects
<1>4. \A b : Has(q, Creating(b)) => b \in Neighbours(a)
  BY NewAppsOf DEF Connects
<1>5. Asked(e, o, q) \in EngineType /\ Asked(e, o, q).tasks = e.tasks \o q
  BY <1>1, <1>2 DEF Asked, EngineType
<1>6. RemotesOK(a, Asked(e, o, q))
  BY <1>1, <1>2, <1>3, <1>4 DEF Asked, EngineType, Typed, RemotesOK, Pending
<1> QED
  BY <1>2, <1>5, <1>6 DEF Typed

\* Either all new neighbours are asked or one protocol is unknown.
LEMMA ConnectForms ==
    ASSUME graph \in Graphs, NEW a \in App, NEW e, Typed(a, e), NEW s \in Sources,
           NewApps(a, e) # <<>>, Connect(a, e, s, NewApps(a, e))
    PROVE  \E o, q :
             /\ Connects(a, e, q) /\ e.out \subseteq o /\ o \subseteq App \ {a}
             /\ \/ /\ engine' = [engine EXCEPT ![a] = [Asked(e, o, q) EXCEPT !.original = s]]
                   /\ UNCHANGED <<wire, told>>
                   /\ ToSet(NewApps(a, e)) \cap graph.unknown = {}
                   /\ \A b : Has(q, Creating(b)) <=> b \in Neighbours(a) /\ ~RemoteExists(e, b)
                   /\ \A b : Once(q, Creating(b))
                   /\ o = e.out \cup {b \in App : Has(q, Creating(b))} /\ o # {}
                \/ /\ engine' = [engine EXCEPT ![a] = GivenUp(Asked(e, o, q))]
                   /\ wire' = Answered(wire, a, e, s, "error")
                   /\ told' = Heard(e, s, "error")
                   /\ ToSet(NewApps(a, e)) \cap graph.unknown # {}
<1> DEFINE new == NewApps(a, e)
           bad == SelectInSeq(new, LAMBDA b : b \in graph.unknown)
           some == IF bad = 0 THEN new ELSE SubSeq(new, 1, bad - 1)
           q == [i \in DOMAIN some |-> Task("created", some[i])]
           o == e.out \cup ToSet(some) \cup (IF bad = 0 THEN {} ELSE {new[bad]})
<1>1. /\ new \in Seq(App) /\ \A b : Once(new, b)
      /\ \A b : Has(new, b) <=> b \in Neighbours(a) /\ ~RemoteExists(e, b)
  BY NewAppsOf
<1>2. /\ bad = 0 => \A i \in DOMAIN new : new[i] \notin graph.unknown
      /\ bad # 0 => bad \in DOMAIN new /\ new[bad] \in graph.unknown
  BY <1>1, FirstIn
<1>3. /\ bad = 0 => /\ engine' = [engine EXCEPT ![a] = [Asked(e, o, q) EXCEPT !.original = s]]
                    /\ UNCHANGED <<wire, told>>
      /\ bad # 0 => /\ engine' = [engine EXCEPT ![a] = GivenUp(Asked(e, o, q))]
                    /\ wire' = Answered(wire, a, e, s, "error")
                    /\ told' = Heard(e, s, "error")
  BY DEF Connect, Asked
<1> HIDE DEF bad, new
<1>4. some \in Seq(App) /\ \A b : Has(some, b) => Has(new, b)
  <2>1. CASE bad = 0
    BY <1>1, <2>1
  <2>2. CASE bad # 0
    <3>1. bad \in 1 .. Len(new) /\ some = SubSeq(new, 1, bad - 1) /\ Len(new) \in Nat
      BY <1>1, <1>2, <2>2
    <3>2. some \in Seq(App) /\ Len(some) = bad - 1 /\ \A i \in 1 .. bad - 1 : some[i] = new[i]
      BY <1>1, <3>1
    <3>3. DOMAIN some = 1 .. (bad - 1) /\ DOMAIN new = 1 .. Len(new)
      BY <1>1, <3>1, <3>2
    <3>4. \A i \in DOMAIN some : i \in DOMAIN new /\ some[i] = new[i]
      BY <3>1, <3>2, <3>3
    <3> QED
      BY <3>2, <3>4 DEF Has
  <2> QED
    BY <2>1, <2>2
<1>5. bad = 0 => some = new
  OBVIOUS
<1>6. ToSet(some) = {b \in App : Has(some, b)} /\ ToSet(new) = {b \in App : Has(new, b)}
  <2>1. \A p \in Seq(App) : ToSet(p) = {b \in App : Has(p, b)}
    BY DEF Has, ToSet
  <2> HIDE DEF some
  <2> QED
    BY <1>1, <1>4, <2>1
<1> HIDE DEF some
<1>7. /\ q \in Seq(Tasks)
      /\ \A b : Has(q, Creating(b)) <=> Has(some, b)
      /\ \A b : Once(some, b) => Once(q, Creating(b))
      /\ \A i \in DOMAIN q : q[i].run = "created"
  BY <1>4, TasksOfApps
<1> HIDE DEF q
<1>8. Connects(a, e, q)
  BY <1>4, <1>7 DEF Connects, new
<1>9. Neighbours(a) \subseteq App \ {a} /\ e.out \subseteq App \ {a}
  BY GraphFacts DEF Typed, RemotesOK
<1>10. bad # 0 => new[bad] \in Neighbours(a) /\ Has(new, new[bad])
  BY <1>1, <1>2 DEF Has
<1>11. o \subseteq App \ {a} /\ e.out \subseteq o
  BY <1>1, <1>4, <1>6, <1>9, <1>10
<1>12. bad = 0 => /\ ToSet(new) \cap graph.unknown = {}
                  /\ o = e.out \cup {b \in App : Has(q, Creating(b))}
                  /\ \A b : Once(q, Creating(b))
                  /\ \A b : Has(q, Creating(b)) <=> b \in Neighbours(a) /\ ~RemoteExists(e, b)
  <2>1. bad = 0 => ToSet(new) \cap graph.unknown = {}
    BY <1>1, <1>2, <1>6 DEF Has
  <2> QED
    BY <1>1, <1>5, <1>6, <1>7, <2>1
<1>13. bad = 0 => o # {}
  <2>1. new # <<>> => \E b : Has(new, b)
    <3>1. new # <<>> => 1 \in DOMAIN new
      BY <1>1
    <3> QED
      BY <3>1 DEF Has
  <2>2. new # <<>>
    BY DEF new
  <2> QED
    BY <1>1, <1>5, <1>6, <2>1, <2>2, <1>9
<1>14. bad # 0 => ToSet(new) \cap graph.unknown # {}
  BY <1>1, <1>2, <1>6, <1>9, <1>10
<1>15. new = NewApps(a, e)
  BY DEF new
<1> HIDE DEF o
<1> QED
  BY <1>3, <1>8, <1>11, <1>12, <1>13, <1>14, <1>15

LEMMA LinkedTyped ==
    ASSUME TypeInv, NEW a \in App, NEW s, engine[a].tasks # <<>>, s \in Sources \ {a}
    PROVE  /\ Typed(a, Linked(a, s))
           /\ s = Client => Linked(a, s) = Ran(engine[a])
           /\ s # Client => /\ s \in App /\ <<s, a>> \in Channels
                            /\ Linked(a, s) = [Ran(engine[a]) EXCEPT !.normal[s] = <<s, a>>]
<1>1. Typed(a, Ran(engine[a])) /\ Typed(a, engine[a])
  BY EnginesTyped, RanTyped
<1>2. CASE s = Client
  BY <1>1, <1>2 DEF Linked
<1>3. CASE s # Client
  <2>1. s \in App /\ s # a /\ <<s, a>> \in Channels
    BY <1>3, ChannelFacts DEF Sources
  <2>2. Ran(engine[a]) \in EngineType
    BY <1>1 DEF Typed
  <2>3. [Ran(engine[a]) EXCEPT !.normal[s] = <<s, a>>] \in EngineType
    BY <2>1, <2>2 DEF EngineType
  <2>4. RemotesOK(a, [Ran(engine[a]) EXCEPT !.normal[s] = <<s, a>>])
    BY <1>1, <2>1, <2>2 DEF Typed, RemotesOK, EngineType, Pending
  <2> QED
    BY <1>3, <2>1, <2>3, <2>4 DEF Linked, Typed
<1> QED
  BY <1>2, <1>3

\* A step of an engine that tells nobody but its source a result.
LEMMA AnsweringTyped ==
    ASSUME TypeInv, NEW a \in App, NEW f, Typed(a, f), engine' = [engine EXCEPT ![a] = f],
           NEW e, NEW s, NEW w \in [Channels -> WireType], NEW r \in {"ok", "error"},
           wire' \in {w, Answered(w, a, e, s, r)}, told' \in {told, Heard(e, s, r)}, graph' = graph,
           failed' \in {failed, "none", "one remote", "one original", "one weak remote", "weak remote", "an original"}
    PROVE  TypeInv'
<1>1. Answered(w, a, e, s, r) \in [Channels -> WireType]
  BY AnsweredTyped
<1>2. Heard(e, s, r) \subseteq {"ok", "error"}
  BY HeardTyped DEF TypeInv
<1>3. wire' \in [Channels -> WireType] /\ told' \subseteq {"ok", "error"}
  BY <1>1, <1>2 DEF TypeInv
<1>4. Types(engine, wire)' /\ graph' \in Graphs
  BY <1>3, OneEngineTyped
<1> QED
  BY <1>3, <1>4 DEF TypeInv

LEMMA HandleStartGraphTyped ==
    ASSUME TypeInv, NEW a \in App, HandleStartGraph(a), graph' = graph
    PROVE  TypeInv'
<1> DEFINE s == NextTask(engine[a]).on
           l == Linked(a, s)
<1>1. engine[a].tasks # <<>> /\ s \in Sources \ {a} /\ Typed(a, Ran(engine[a]))
  <2>1. engine[a].tasks # <<>>
    BY DEF HandleStartGraph, NextTask, NoTask, Task
  <2> QED
    BY <2>1, EnginesTyped, RanTyped DEF HandleStartGraph
<1>2. Typed(a, l) /\ wire \in [Channels -> WireType] /\ graph \in Graphs
  BY <1>1, LinkedTyped, EnginesTyped DEF TypeInv
<1>3. CASE s # Client /\ Duplicated(a, s)
  <2>1. SendDuplicate(a, s)
    BY <1>3 DEF HandleStartGraph
  <2>2. s \in App /\ s # a /\ <<s, a>> \in Channels
    BY <1>1, <1>3, ChannelFacts DEF Sources
  <2>3. Sent(wire, a, <<s, a>>, "duplicate") \in [Channels -> WireType]
    <3>1. MaySend(wire, a, <<s, a>>, "duplicate")
      BY <1>2, <2>2 DEF MaySend
    <3> QED
      BY ONLY <3>1, SentOn
  <2> QED
    BY <1>1, <2>1, <2>3, AnsweringTyped DEF SendDuplicate
<1>4. CASE ~(s # Client /\ Duplicated(a, s))
  <2>1. TakeStartGraph(a, s)
    BY <1>4 DEF HandleStartGraph
  <2>2. failed' \in {failed, "one remote", "one original"}
    BY <2>1 DEF TakeStartGraph
  <2>3. CASE l.state # "up"
    <3>1. engine' = [engine EXCEPT ![a] = l] /\ UNCHANGED <<wire, told>>
      BY <2>1, <2>3 DEF TakeStartGraph
    <3> QED
      BY <1>2, <2>2, <3>1, AnsweringTyped
  <2>4. CASE l.state = "up" /\ NewApps(a, l) = <<>>
    <3>1. Enable(a, l, s)
      BY <2>1, <2>4 DEF TakeStartGraph
    <3>2. CASE l.context = "none"
      <4> DEFINE f == [l EXCEPT !.context = "starting", !.requester = s]
      <4>1. Typed(a, f)
        BY <1>1, <1>2 DEF Typed, EngineType, RemotesOK, Pending
      <4>2. engine' = [engine EXCEPT ![a] = f] /\ UNCHANGED <<wire, told>>
        BY <3>1, <3>2 DEF Enable
      <4> HIDE DEF f, l
      <4> QED
        BY <1>2, <2>2, <4>1, <4>2, AnsweringTyped
    <3>3. CASE l.context # "none"
      <4>1. /\ engine' = [engine EXCEPT ![a] = l] /\ wire' = Answered(wire, a, l, s, "ok")
            /\ told' = Heard(l, s, "ok")
        BY <3>1, <3>3 DEF Enable
      <4> QED
        BY <1>2, <2>2, <4>1, AnsweringTyped
    <3> QED
      BY <3>2, <3>3
  <2>5. CASE l.state = "up" /\ NewApps(a, l) # <<>>
    <3>1. Connect(a, l, s, NewApps(a, l))
      BY <2>1, <2>5 DEF TakeStartGraph
    <3>2. PICK o, q :
             /\ Connects(a, l, q) /\ l.out \subseteq o /\ o \subseteq App \ {a}
             /\ \/ /\ engine' = [engine EXCEPT ![a] = [Asked(l, o, q) EXCEPT !.original = s]]
                   /\ UNCHANGED <<wire, told>>
                   /\ ToSet(NewApps(a, l)) \cap graph.unknown = {}
                   /\ \A b : Has(q, Creating(b)) <=> b \in Neighbours(a) /\ ~RemoteExists(l, b)
                   /\ \A b : Once(q, Creating(b))
                   /\ o = l.out \cup {b \in App : Has(q, Creating(b))} /\ o # {}
                \/ /\ engine' = [engine EXCEPT ![a] = GivenUp(Asked(l, o, q))]
                   /\ wire' = Answered(wire, a, l, s, "error")
                   /\ told' = Heard(l, s, "error")
                   /\ ToSet(NewApps(a, l)) \cap graph.unknown # {}
      <4> HIDE DEF l, s
      <4> QED
        BY <1>1, <1>2, <2>5, <3>1, ConnectForms
    <3> DEFINE f == Asked(l, o, q)
    <3>3. Typed(a, f)
      BY <1>2, <3>2, AskedTyped
    <3> HIDE DEF f
    <3>4. Typed(a, [f EXCEPT !.original = s])
      BY <1>1, <3>3 DEF Typed, EngineType, RemotesOK, Pending
    <3>5. Typed(a, GivenUp(f))
      BY <3>3, ClosingTyped
    <3> DEFINE g == [f EXCEPT !.original = s]
    <3>6. \/ engine' = [engine EXCEPT ![a] = g] /\ UNCHANGED <<wire, told>>
          \/ /\ engine' = [engine EXCEPT ![a] = GivenUp(f)]
             /\ wire' = Answered(wire, a, l, s, "error") /\ told' = Heard(l, s, "error")
      BY <3>2 DEF f
    <3> HIDE DEF l, s, g
    <3>7. CASE engine' = [engine EXCEPT ![a] = g] /\ UNCHANGED <<wire, told>>
      BY <1>2, <2>2, <3>4, <3>7, AnsweringTyped DEF g
    <3>8. CASE /\ engine' = [engine EXCEPT ![a] = GivenUp(f)]
               /\ wire' = Answered(wire, a, l, s, "error") /\ told' = Heard(l, s, "error")
      BY <1>2, <2>2, <3>5, <3>8, AnsweringTyped
    <3> QED
      BY <3>6, <3>7, <3>8
  <2> QED
    BY <2>3, <2>4, <2>5
<1> QED
  BY <1>3, <1>4

LEMMA CreatedTyped ==
    ASSUME TypeInv, NEW a \in App, Created(a), graph' = graph
    PROVE  TypeInv'
<1> DEFINE e == Ran(engine[a])
           b == NextTask(engine[a]).on
<1>1. engine[a].tasks # <<>>
  BY DEF Created, NextTask, NoTask, Task
<1>2. Typed(a, e) /\ b \in Neighbours(a) /\ wire \in [Channels -> WireType] /\ graph \in Graphs
  BY <1>1, EnginesTyped, RanTyped DEF Created, TypeInv
<1>3. b \in App \ {a} /\ <<a, b>> \in Channels
  BY <1>2, GraphFacts, ChannelFacts
<1>4. CASE Duplicated(a, b)
  <2>1. /\ engine' = [engine EXCEPT ![a] = e] /\ UNCHANGED failed
        /\ wire' \in {wire, Answered(wire, a, e, e.original, "ok")}
        /\ told' \in {told, Heard(e, e.original, "ok")}
    BY <1>4 DEF Created
  <2> HIDE DEF e
  <2> QED
    BY <1>2, <2>1, AnsweringTyped
<1>5. CASE ~Duplicated(a, b)
  <2> DEFINE f == [e EXCEPT !.weak = @ \cup {b}]
             w == [wire EXCEPT ![<<a, b>>].st = "connecting"]
  <2>1. engine' = [engine EXCEPT ![a] = f] /\ wire' = w /\ UNCHANGED told
        /\ failed' \in {failed, "one weak remote"}
    BY <1>5 DEF Created
  <2>2. Typed(a, f)
    BY <1>2, <1>3 DEF Typed, EngineType, RemotesOK, Pending
  <2>3. w \in [Channels -> WireType]
    BY <1>2, <1>3 DEF WireType
  <2> HIDE DEF f, w
  <2> QED
    BY <2>1, <2>2, <2>3, AnsweringTyped
<1> QED
  BY <1>4, <1>5

LEMMA ConnectedTyped ==
    ASSUME TypeInv, NEW c \in Channels, Connected(c), graph' = graph
    PROVE  TypeInv'
<1> DEFINE w == [wire EXCEPT ![c] = [@ EXCEPT !.st = "up", !.fwd = <<"start_graph">>]]
<1>1. <<"start_graph">> \in Seq(FwdType)
  BY DEF FwdType
<1>2. wire[c] \in WireType /\ wire \in [Channels -> WireType]
  BY EnginesTyped, NamesAreDistinct DEF TypeInv, Types
<1>3. w \in [Channels -> WireType]
  BY <1>1, <1>2 DEF WireType
<1> QED
  BY <1>3 DEF Connected, TypeInv, Types, RemotesOK, Neighbours

LEMMA ConnectErrorTyped ==
    ASSUME TypeInv, NEW c \in Channels, ConnectError(c), graph' = graph
    PROVE  TypeInv'
<1> DEFINE a == c[1]
           e == engine[a]
           v == Answered(wire, a, e, e.original, "error")
           w == IF e.original = None THEN wire ELSE v
           f == [e EXCEPT !.weak = @ \ {c[2]}]
<1>1. a \in App /\ Typed(a, e) /\ wire \in [Channels -> WireType]
  BY ChannelFacts, EnginesTyped
<1>2. w \in [Channels -> WireType]
  BY <1>1, AnsweredTyped
<1> DEFINE u == [w EXCEPT ![c].st = "closed"]
<1>3. u \in [Channels -> WireType]
  <2> HIDE DEF w
  <2> QED
    BY <1>2 DEF WireType
<1>4. Typed(a, f)
  BY <1>1 DEF Typed, EngineType, RemotesOK, Pending
<1>5. Typed(a, GivenUp(e))
  BY <1>1, ClosingTyped
<1>6. /\ engine' = [engine EXCEPT ![a] = IF e.original # None THEN GivenUp(e) ELSE f]
      /\ wire' = u /\ failed' = failed /\ told' \in {told, Heard(e, e.original, "error")}
  BY DEF ConnectError
<1> HIDE DEF u, f
<1> QED
  BY <1>1, <1>3, <1>4, <1>5, <1>6, AnsweringTyped

LEMMA ReadyTyped ==
    ASSUME TypeInv, NEW a \in App, Ready(a), graph' = graph
    PROVE  TypeInv'
<1> DEFINE e == engine[a]
           f == [e EXCEPT !.context = "ready", !.requester = None]
<1>1. Typed(a, e) /\ wire \in [Channels -> WireType] /\ engine \in [App -> EngineType]
  BY EnginesTyped
<1>2. Typed(a, f)
  BY <1>1, ChannelFacts DEF Typed, EngineType, RemotesOK, Pending
<1>3. /\ engine' = [engine EXCEPT ![a] = f] /\ UNCHANGED failed
      /\ wire' = Answered(wire, a, e, e.requester, "ok") /\ told' = Heard(e, e.requester, "ok")
  BY <1>1 DEF Ready, EngineType
<1> HIDE DEF f
<1> QED
  BY <1>1, <1>2, <1>3, AnsweringTyped

LEMMA EofTyped ==
    ASSUME TypeInv, NEW c \in Channels, NEW a \in {c[1], c[2]}, Eof(a, c), graph' = graph
    PROVE  TypeInv'
<1> DEFINE e == engine[a]
           b == Peer(a, c)
           rest == [e EXCEPT !.normal[b] = IF e.normal[b] = c THEN None ELSE @,
                             !.weak = IF c[1] = a /\ b \in e.weak THEN @ \ {b} ELSE @]
<1>1. a \in App /\ b \in App /\ Typed(a, e) /\ wire \in [Channels -> WireType]
  BY ChannelFacts, EnginesTyped DEF Peer
<1>2. Typed(a, rest)
  BY <1>1 DEF Typed, EngineType, RemotesOK, Pending
<1>3. engine' = [engine EXCEPT ![a] = IF e.normal[b] = c /\ a \notin graph.long THEN Closing(rest) ELSE rest]
      /\ wire' = [wire EXCEPT ![c] = Over] /\ UNCHANGED <<told, failed>>
  BY DEF Eof
<1> HIDE DEF rest
<1>4. Typed(a, Closing(rest))
  BY <1>1, <1>2, ClosingTyped
<1>5. Over \in WireType
  <2>1. <<>> \in Seq(FwdType) /\ <<>> \in Seq(BackType)
    OBVIOUS
  <2> QED
    BY <2>1 DEF Over, WireType
<1>6. [wire EXCEPT ![c] = Over] \in [Channels -> WireType]
  BY <1>1, <1>5
<1> QED
  BY <1>1, <1>2, <1>3, <1>4, <1>6, AnsweringTyped

LEMMA ContextClosedTyped ==
    ASSUME TypeInv, NEW a \in App, ContextClosed(a), graph' = graph
    PROVE  TypeInv'
<1> DEFINE f == [engine[a] EXCEPT !.context = "none"]
<1>1. Typed(a, engine[a]) /\ wire \in [Channels -> WireType] /\ engine \in [App -> EngineType]
  BY EnginesTyped
<1>2. Typed(a, f)
  BY <1>1 DEF Typed, EngineType, RemotesOK, Pending
<1>3. engine' = [engine EXCEPT ![a] = f] /\ UNCHANGED <<wire, told, failed>>
  BY <1>1 DEF ContextClosed, EngineType
<1> HIDE DEF f
<1> QED
  BY <1>1, <1>2, <1>3, AnsweringTyped

LEMMA EngineGoneTyped ==
    ASSUME TypeInv, NEW a \in App, EngineGone(a), graph' = graph
    PROVE  TypeInv'
<1>1. Typed(a, engine[a]) /\ wire \in [Channels -> WireType] /\ engine[a].made \in Nat
  BY EnginesTyped DEF EngineType
<1>2. Typed(a, NewEngine("gone", engine[a].made))
  BY <1>1, NewTyped
<1> QED
  BY <1>1, <1>2, AnsweringTyped DEF EngineGone

\* w after app a has closed its end of channel c, that was v.
ClosedEnd(w, v, a, c) ==
    /\ w.st = "closed"
    /\ a = c[1] => w.fwd = (IF v.st = "up" THEN Append(v.fwd, "eof") ELSE v.fwd) /\ w.back = <<>>
    /\ a = c[2] => w.fwd = <<>> /\ w.back = (IF v.st = "up" THEN Append(v.back, "eof") ELSE v.back)

LEMMA ClosedEnds ==
    ASSUME TypeInv, NEW a \in App, CloseEngine(a)
    PROVE  /\ wire' \in [Channels -> WireType]
           /\ \A c \in Channels : c \notin Held(a) => wire'[c] = wire[c]
           /\ \A c \in Held(a) : ClosedEnd(wire'[c], wire[c], a, c)
<1>1. wire \in [Channels -> WireType]
  BY EnginesTyped, SMTT(30)
<1> DEFINE close(c) == LET w == [wire[c] EXCEPT !.st = "closed", ![In(a, c)] = <<>>] IN
                       IF wire[c].st = "up" THEN [w EXCEPT ![Out(a, c)] = Append(@, "eof")] ELSE w
<1>2. wire' = [c \in Channels |-> IF c \notin Held(a) THEN wire[c] ELSE close(c)]
  BY DEF CloseEngine
<1>3. ASSUME NEW c \in Channels, c \in Held(a)
      PROVE  ClosedEnd(close(c), wire[c], a, c) /\ close(c) \in WireType
  <2>1. a \in {c[1], c[2]} /\ c[1] # c[2] /\ wire[c] \in WireType
    BY <1>1, <1>3, ChannelFacts DEF Held
  <2>2. /\ <<>> \in Seq(FwdType) /\ <<>> \in Seq(BackType)
        /\ Append(wire[c].fwd, "eof") \in Seq(FwdType) /\ Append(wire[c].back, "eof") \in Seq(BackType)
        /\ wire[c].fwd \in Seq(FwdType) /\ wire[c].back \in Seq(BackType)
    BY <2>1 DEF WireType, FwdType, BackType
  <2>3. CASE a = c[1]
    <3> DEFINE v == [wire[c] EXCEPT !.st = "closed", !.back = <<>>]
    <3>1. close(c) = IF wire[c].st = "up" THEN [v EXCEPT !.fwd = Append(@, "eof")] ELSE v
      BY <2>3 DEF In, Out
    <3>2. v.st = "closed" /\ v.fwd = wire[c].fwd /\ v.back = <<>> /\ v \in WireType
      BY <2>1, <2>2 DEF WireType
    <3> HIDE DEF close, v
    <3>3. [v EXCEPT !.fwd = Append(@, "eof")] \in WireType
      BY <2>2, <3>2 DEF WireType
    <3> QED
      BY <2>1, <2>2, <2>3, <3>1, <3>2, <3>3 DEF ClosedEnd, WireType
  <2>4. CASE a # c[1]
    <3> DEFINE v == [wire[c] EXCEPT !.st = "closed", !.fwd = <<>>]
    <3>1. close(c) = IF wire[c].st = "up" THEN [v EXCEPT !.back = Append(@, "eof")] ELSE v
      BY <2>4 DEF In, Out
    <3>2. v.st = "closed" /\ v.back = wire[c].back /\ v.fwd = <<>> /\ v \in WireType
      BY <2>1, <2>2 DEF WireType
    <3> HIDE DEF close, v
    <3>3. [v EXCEPT !.back = Append(@, "eof")] \in WireType
      BY <2>2, <3>2 DEF WireType
    <3> QED
      BY <2>1, <2>2, <2>4, <3>1, <3>2, <3>3 DEF ClosedEnd, WireType
  <2> QED
    BY <2>3, <2>4
<1>4. \A c \in Held(a) : c \in Channels
  BY DEF Held
<1> HIDE DEF close
<1> QED
  BY <1>1, <1>2, <1>3, <1>4

LEMMA CloseEngineTyped ==
    ASSUME TypeInv, NEW a \in App, CloseEngine(a), graph' = graph
    PROVE  TypeInv'
<1> DEFINE e == Ran(engine[a])
           f == [e EXCEPT !.state = "draining", !.weak = {}, !.normal = [b \in App |-> None]]
<1>1. engine[a].tasks # <<>>
  BY DEF CloseEngine, NextTask, NoTask, Task
<1>2. Typed(a, e)
  BY <1>1, EnginesTyped, RanTyped
<1>3. f \in EngineType
  BY <1>2 DEF Typed, EngineType
<1>4. RemotesOK(a, f)
  BY <1>2 DEF Typed, EngineType, RemotesOK, Pending
<1>5. engine' = [engine EXCEPT ![a] = f] /\ UNCHANGED <<told, failed>>
  BY DEF CloseEngine
<1>6. wire' \in [Channels -> WireType]
  BY ClosedEnds
<1> HIDE DEF f
<1> QED
  BY <1>3, <1>4, <1>5, <1>6, OneEngineTyped DEF TypeInv, Typed

\* A result is taken from a channel.
LEMMA PoppedTyped ==
    ASSUME NEW c \in Channels, NEW w \in [Channels -> WireType], w[c].back # <<>>
    PROVE  /\ [w EXCEPT ![c].back = Tail(@)] \in [Channels -> WireType]
           /\ HungUp(w, c) \in [Channels -> WireType]
           /\ Head(w[c].back) \in BackType
<1>1. w[c] \in WireType /\ w[c].back \in Seq(BackType) /\ w[c].fwd \in Seq(FwdType) /\ "eof" \in FwdType
  BY DEF WireType, FwdType
<1>2. /\ Tail(w[c].back) \in Seq(BackType) /\ Head(w[c].back) \in BackType
      /\ Append(w[c].fwd, "eof") \in Seq(FwdType) /\ <<>> \in Seq(BackType)
  BY <1>1
<1>3. [w[c] EXCEPT !.back = Tail(@)] \in WireType
  BY <1>1, <1>2 DEF WireType
<1>4. [st |-> "closed", fwd |-> Append(w[c].fwd, "eof"), back |-> <<>>] \in WireType
  BY <1>2 DEF WireType
<1> QED
  BY <1>2, <1>3, <1>4 DEF HungUp

LEMMA SettledTyped ==
    ASSUME NEW a \in App, NEW e, Typed(a, e), NEW c \in Channels, c[1] = a, NEW r
    PROVE  /\ Typed(a, Settled(e, c, r)) /\ Settled(e, c, r).out = e.out /\ Settled(e, c, r).oks = e.oks
           /\ \A b \in e.out : /\ Typed(a, WithResult(Settled(e, c, r), b))
                               /\ WithResult(Settled(e, c, r), b).out # {} \/ WithResult(Settled(e, c, r), b).oks = {}
<1> DEFINE s == Settled(e, c, r)
<1>1. c[2] \in App /\ c = <<a, c[2]>> /\ e \in EngineType
  BY ChannelFacts DEF Typed
<1>2. s \in EngineType /\ RemotesOK(a, s) /\ s.out = e.out /\ s.oks = e.oks
  <2>1. CASE r = "duplicate"
    BY <1>1, <2>1 DEF Settled, EngineType, RemotesOK, Typed, Pending
  <2>2. CASE r # "duplicate"
    BY <1>1, <2>2 DEF Settled, EngineType, RemotesOK, Typed, Pending
  <2> QED
    BY <2>1, <2>2
<1> HIDE DEF s
<1>3. ASSUME NEW b \in e.out
      PROVE  Typed(a, WithResult(s, b)) /\ (WithResult(s, b).out # {} \/ WithResult(s, b).oks = {})
  <2> DEFINE oks == s.oks \cup {b}
  <2>1. oks \subseteq s.out /\ s.out \subseteq App /\ oks \subseteq App
    BY <1>2, <1>3 DEF RemotesOK
  <2>2. WithResult(s, b) = IF oks = s.out THEN [s EXCEPT !.out = {}, !.oks = {}] ELSE [s EXCEPT !.oks = oks]
    BY DEF WithResult
  <2> HIDE DEF oks
  <2>3. CASE oks = s.out
    <3> DEFINE f == [s EXCEPT !.out = {}, !.oks = {}]
    <3>1. f \in EngineType /\ f.oks = {}
      BY <1>2 DEF EngineType
    <3>2. RemotesOK(a, f)
      BY <1>2 DEF EngineType, RemotesOK, Pending
    <3> HIDE DEF f
    <3> QED
      BY <2>2, <2>3, <3>1, <3>2 DEF Typed, f
  <2>4. CASE oks # s.out
    <3> DEFINE f == [s EXCEPT !.oks = oks]
    <3>1. f \in EngineType
      BY <1>2, <2>1 DEF EngineType
    <3>2. RemotesOK(a, f) /\ f.out = s.out
      BY <1>2, <2>1 DEF EngineType, RemotesOK, Pending
    <3>3. s.out # {}
      BY <1>2, <1>3
    <3> HIDE DEF f
    <3> QED
      BY <2>2, <2>4, <3>1, <3>2, <3>3 DEF Typed, f
  <2> QED
    BY <2>3, <2>4
<1> QED
  BY <1>2, <1>3 DEF s, Typed

LEMMA ReceiveTyped ==
    ASSUME TypeInv, NEW c \in Channels, Receive(c), graph' = graph
    PROVE  TypeInv'
<1> DEFINE a == c[1]
           b == c[2]
           e == engine[a]
           r == Head(wire[c].back)
           w == [wire EXCEPT ![c].back = Tail(@)]
<1>1. a \in App /\ Typed(a, e) /\ wire \in [Channels -> WireType] /\ engine \in [App -> EngineType]
  BY ChannelFacts, EnginesTyped
<1>2. w \in [Channels -> WireType] /\ HungUp(wire, c) \in [Channels -> WireType]
  BY <1>1, PoppedTyped DEF Receive
<1>3. failed' \in {failed, "weak remote", "an original"}
  BY DEF Receive
<1>4. [engine EXCEPT ![a] = e] = engine
  BY <1>1
<1>5. CASE e.state # "up"
  <2>1. wire' = w /\ UNCHANGED <<engine, told>>
    BY <1>5 DEF Receive
  <2> HIDE DEF w, e
  <2> QED
    BY <1>1, <1>2, <1>3, <1>4, <2>1, AnsweringTyped
<1>6. CASE e.state = "up" /\ r = "error"
  <2> DEFINE f == [e EXCEPT !.out = {}, !.oks = {}]
  <2>0. ReceiveError(a, c)
    BY <1>6 DEF Receive
  <2>1. CASE b \in e.out
    <3>1. /\ engine' = [engine EXCEPT ![a] = GivenUp(f)]
          /\ wire' = Answered(w, a, e, e.original, "error")
          /\ told' = Heard(e, e.original, "error")
      BY <2>0, <2>1 DEF ReceiveError
    <3>2. Typed(a, f)
      BY <1>1 DEF Typed, EngineType, RemotesOK, Pending
    <3>3. Typed(a, GivenUp(f))
      BY <1>1, <3>2, ClosingTyped
    <3> HIDE DEF w, f
    <3> QED
      BY <1>1, <1>2, <1>3, <3>1, <3>3, AnsweringTyped
  <2>2. CASE b \notin e.out
    <3>1. wire' = w /\ UNCHANGED <<engine, told>>
      BY <2>0, <2>2 DEF ReceiveError
    <3> HIDE DEF w, e
    <3> QED
      BY <1>1, <1>2, <1>3, <1>4, <3>1, AnsweringTyped
  <2> QED
    BY <2>1, <2>2
<1>7. CASE e.state = "up" /\ r # "error"
  <2> DEFINE s == Settled(e, c, r)
             v == IF r = "duplicate" THEN HungUp(wire, c) ELSE w
             p == WithResult(s, b)
             q == [p EXCEPT !.context = "starting", !.requester = s.original]
  <2>0. ReceiveOk(a, c, r)
    BY <1>7 DEF Receive
  <2>1. v \in [Channels -> WireType]
    BY <1>2
  <2>2. Typed(a, s) /\ s.out = e.out /\ \A d \in e.out : Typed(a, WithResult(s, d))
    BY <1>1, SettledTyped
  <2>3. \/ engine' = [engine EXCEPT ![a] = s] /\ wire' = v /\ UNCHANGED told
        \/ b \in s.out /\ engine' = [engine EXCEPT ![a] = p] /\ wire' = v /\ UNCHANGED told
        \/ b \in s.out /\ engine' = [engine EXCEPT ![a] = q] /\ wire' = v /\ UNCHANGED told
        \/ /\ b \in s.out /\ engine' = [engine EXCEPT ![a] = p]
           /\ wire' = Answered(v, a, s, s.original, "ok") /\ told' = Heard(s, s.original, "ok")
    BY <2>0 DEF ReceiveOk
  <2>4. b \in s.out => Typed(a, p)
    BY <2>2
  <2> HIDE DEF v, p, s
  <2>5. b \in s.out => Typed(a, q)
    BY <2>2, <2>4 DEF Typed, EngineType, RemotesOK, Pending
  <2> HIDE DEF q
  <2> QED
    BY <1>1, <1>3, <2>1, <2>2, <2>3, <2>4, <2>5, AnsweringTyped
<1> QED
  BY <1>5, <1>6, <1>7

LEMMA InitTyped == Init => TypeInv
<1> SUFFICES ASSUME Init PROVE TypeInv
  OBVIOUS
<1> DEFINE n == [NewEngine("up", 1) EXCEPT !.inMsgs = <<Client>>]
<1>1. HandleTask = Task("handle_in_msgs", None)
  BY DEF HandleTask
<1>2. ASSUME NEW a \in App
      PROVE  Typed(a, Posted(n, HandleTask)) /\ Typed(a, NewEngine("none", 0))
  <2>1. Typed(a, NewEngine("up", 1)) /\ Typed(a, NewEngine("none", 0))
    BY NewTyped
  <2>2. <<Client>> \in Seq(Sources) /\ ~Has(<<Client>>, a)
    <3>1. Client \in Sources /\ a # Client
      BY ChannelFacts
    <3> QED
      BY <3>1, HasNone
  <2>3. Typed(a, n)
    BY <2>1, <2>2 DEF Typed, EngineType, RemotesOK, Pending
  <2> HIDE DEF n
  <2> QED
    BY <2>1, <2>3, PostedTyped
<1>3. engine = [a \in App |-> IF a # Root THEN NewEngine("none", 0) ELSE Posted(n, HandleTask)]
  BY <1>1 DEF Init
<1> HIDE DEF n
<1>4. \A a \in App : Typed(a, engine[a])
  BY <1>2, <1>3
<1>5. engine \in [App -> EngineType]
  BY <1>3, <1>4 DEF Typed
<1>6. Idle \in WireType
  <2>1. <<>> \in Seq(FwdType) /\ <<>> \in Seq(BackType)
    OBVIOUS
  <2> QED
    BY <2>1 DEF Idle, WireType
<1> QED
  BY <1>4, <1>5, <1>6 DEF Init, TypeInv, Types, Typed

LEMMA NextTyped == TypeInv /\ [Next]_vars => TypeInv'
<1> SUFFICES ASSUME TypeInv, [Next]_vars PROVE TypeInv'
  OBVIOUS
<1>1. CASE UNCHANGED vars
  BY <1>1 DEF vars, TypeInv, Types, RemotesOK, Neighbours
<1>2. ASSUME NEW a \in App, EngineStep(a), graph' = graph
      PROVE  TypeInv'
  BY <1>2, HandleInMsgsTyped, HandleStartGraphTyped, CreatedTyped, CloseEngineTyped, ReadyTyped,
     ContextClosedTyped, EngineGoneTyped DEF EngineStep
<1>3. ASSUME NEW c \in Channels, WireStep(c), graph' = graph
      PROVE  TypeInv'
  BY <1>3, ArriveTyped, ConnectedTyped, ConnectErrorTyped, ReceiveTyped, EofTyped DEF WireStep
<1> QED
  BY <1>1, <1>2, <1>3 DEF Next

LEMMA TypeInvImplies == TypeInv => TypeOK
<1> SUFFICES ASSUME TypeInv PROVE TypeOK
  OBVIOUS
<1>1. graph \in GraphType
  BY GraphFacts DEF TypeInv
<1>2. ASSUME NEW a \in App
      PROVE  LET e == engine[a] IN
             /\ e.state \in {"none", "up", "closing", "draining", "gone"}
             /\ e.original \in App \cup {Client, None} /\ e.requester \in App \cup {Client, None}
             /\ e.oks \subseteq e.out /\ e.out \subseteq App \ {a}
             /\ e.context \in {"none", "starting", "ready"}
             /\ e.weak \subseteq App \ {a}
             /\ \A b \in App : e.normal[b] \in {<<a, b>>, <<b, a>>, None}
  BY EnginesTyped DEF Typed, EngineType, RemotesOK, Sources
<1>3. \A c \in Channels : /\ wire[c].st \in {"none", "connecting", "up", "closed"}
                          /\ wire[c].fwd \in Seq(FwdType) /\ wire[c].back \in Seq(BackType)
  BY DEF TypeInv, Types, WireType
<1> QED
  BY <1>1, <1>2, <1>3 DEF TypeInv, TypeOK, FwdType, BackType

\* Whatever graph comes up in whatever order, and however often its engines are
\* made: an engine waits for and has remotes to others only, of those that
\* answered each was asked, and a remote's channel ends at the two apps.
THEOREM TypeCorrect == Spec => []TypeOK
<1>1. Spec => []TypeInv
  BY InitTyped, NextTyped, PTL DEF Spec
<1> QED
  BY <1>1, TypeInvImplies, PTL

-----------------------------------------------------------------------------
(* The invariant, for a change of one engine and of channels it has an end of *)

Change(en, wi, a, f, en2, wi2) ==
  /\ graph \in Graphs /\ GraphOK(en, wi) /\ a \in App
  /\ Typed(a, f) /\ en2 = [en EXCEPT ![a] = f]
  /\ wi2 \in [Channels -> WireType]
  /\ \A x, y \in App \ {a} : x # y => wi2[<<x, y>>] = wi[<<x, y>>]
  /\ \A x \in App \ {a} : wi2[<<x, a>>].st = "none" <=> wi[<<x, a>>].st = "none"

LEMMA PairAt ==
    ASSUME NEW en, NEW wi, GraphOK(en, wi), NEW x \in App, NEW y \in App, x # y
    PROVE  /\ WireOK(en, wi, x, y) /\ HoldOK(en, wi, x, y)
           /\ SmallerOK(en, wi, x, y) /\ AnswersOK(en, wi, x, y)
  BY DEF GraphOK, PairOK

LEMMA EngineAt ==
    ASSUME NEW en, NEW wi, GraphOK(en, wi), NEW x \in App
    PROVE  /\ Typed(x, en[x]) /\ QueueOK(x, en[x]) /\ ConnectingOK(en[x]) /\ SkippedOK(en, wi, x)
           /\ en \in [App -> EngineType] /\ wi \in [Channels -> WireType]
  BY DEF GraphOK, Types, EngineOK, Typed

\* What a step leaves alone.
LEMMA ChangeFacts ==
    ASSUME NEW en, NEW wi, NEW a, NEW f, NEW en2, NEW wi2, Change(en, wi, a, f, en2, wi2)
    PROVE  /\ en2[a] = f /\ en2 \in [App -> EngineType] /\ Typed(a, en[a])
           /\ \A b \in App \ {a} : /\ en2[b] = en[b] /\ Skipped(en2, wi2, b) = Skipped(en, wi, b)
                                   /\ \A x : Owes(en2, wi2, b, x) <=> Owes(en, wi, b, x)
                                   /\ <<a, b>> \in Channels /\ <<b, a>> \in Channels
<1>1. a \in App /\ en \in [App -> EngineType] /\ f \in EngineType /\ en2 = [en EXCEPT ![a] = f]
  BY EngineAt DEF Change, Typed
<1>2. en2[a] = f /\ en2 \in [App -> EngineType]
  BY <1>1
<1>3. ASSUME NEW b \in App \ {a}
      PROVE  en2[b] = en[b] /\ Skipped(en2, wi2, b) = Skipped(en, wi, b)
  <2>1. en2[b] = en[b]
    BY <1>1
  <2>2. en[b].out \subseteq App \ {b}
    BY EngineAt DEF Change, Typed, RemotesOK
  <2>3. \A d \in App \ {b} : wi2[<<b, d>>].st = "none" <=> wi[<<b, d>>].st = "none"
    BY DEF Change
  <2> QED
    BY <2>1, <2>2, <2>3 DEF Skipped
<1>4. Typed(a, en[a])
  BY EngineAt DEF Change
<1> QED
  BY <1>1, <1>2, <1>3, <1>4, ChannelFacts DEF Owes

LEMMA ChangeOK ==
    ASSUME NEW en, NEW wi, NEW a, NEW f, NEW en2, NEW wi2, Change(en, wi, a, f, en2, wi2),
           QueueOK(a, f), ConnectingOK(f), SkippedOK(en2, wi2, a),
           \A b \in App \ {a} : PairOK(en2, wi2, a, b) /\ PairOK(en2, wi2, b, a)
    PROVE  GraphOK(en2, wi2)
<1>1. /\ en2[a] = f /\ a \in App /\ Typed(a, f) /\ GraphOK(en, wi) /\ wi2 \in [Channels -> WireType]
      /\ en2 \in [App -> EngineType]
      /\ \A b \in App \ {a} : /\ en2[b] = en[b] /\ Skipped(en2, wi2, b) = Skipped(en, wi, b)
                              /\ \A x : Owes(en2, wi2, b, x) <=> Owes(en, wi, b, x)
  <2>1. /\ en2[a] = f /\ en2 \in [App -> EngineType]
        /\ \A b \in App \ {a} : /\ en2[b] = en[b] /\ Skipped(en2, wi2, b) = Skipped(en, wi, b)
                                /\ \A x : Owes(en2, wi2, b, x) <=> Owes(en, wi, b, x)
                                /\ <<a, b>> \in Channels /\ <<b, a>> \in Channels
    BY ONLY Change(en, wi, a, f, en2, wi2), ChangeFacts
  <2> QED
    BY <2>1 DEF Change
<1>2. Types(en2, wi2)
  BY <1>1, EngineAt DEF Types, Typed
<1>3. ASSUME NEW x \in App
      PROVE  EngineOK(x, en2[x]) /\ SkippedOK(en2, wi2, x)
  <2>1. CASE x = a
    BY <1>1, <2>1 DEF EngineOK, Typed
  <2>2. CASE x # a
    BY <1>1, <2>2, EngineAt DEF EngineOK, Typed, SkippedOK
  <2> QED
    BY <2>1, <2>2
<1>4. ASSUME NEW x \in App, NEW y \in App, x # y, x # a, y # a
      PROVE  PairOK(en2, wi2, x, y)
  <2>1. /\ en2[x] = en[x] /\ en2[y] = en[y]
        /\ wi2[<<x, y>>] = wi[<<x, y>>] /\ wi2[<<y, x>>] = wi[<<y, x>>]
        /\ Owes(en2, wi2, y, x) <=> Owes(en, wi, y, x)
    BY <1>1, <1>4 DEF Change
  <2>2. Coming(en2, wi2, x, y) <=> Coming(en, wi, x, y)
    BY <2>1 DEF Coming, OnWire, Queued
  <2>3. /\ OnWire(wi2, x, y) <=> OnWire(wi, x, y)
        /\ Queued(en2, x, y) <=> Queued(en, x, y)
        /\ Joined(en2, wi2, x, y) <=> Joined(en, wi, x, y)
        /\ Joined(en2, wi2, y, x) <=> Joined(en, wi, y, x)
    BY <2>1 DEF Coming, OnWire, Queued, Joined
  <2>4. /\ Holds(en2, x, y) <=> Holds(en, x, y)
        /\ Answer(wi2, x, y) <=> Answer(wi, x, y)
        /\ Leaving(en2, x) <=> Leaving(en, x)
        /\ Leaving(en2, y) <=> Leaving(en, y)
    BY <2>1 DEF Holds, Answer, Leaving
  <2>0. /\ WireOK(en, wi, x, y) /\ HoldOK(en, wi, x, y)
        /\ SmallerOK(en, wi, x, y) /\ AnswersOK(en, wi, x, y)
    BY <1>1, <1>4, PairAt
  <2>5. WireOK(en2, wi2, x, y)
    BY <2>0, <2>1, <2>3, <2>4 DEF WireOK
  <2>6. HoldOK(en2, wi2, x, y)
    BY <2>0, <2>1, <2>2, <2>3, <2>4 DEF HoldOK
  <2>7. SmallerOK(en2, wi2, x, y)
    BY <2>0, <2>1, <2>3, <2>4 DEF SmallerOK, Away, Kept
  <2>8. AnswersOK(en2, wi2, x, y)
    BY <2>0, <2>1, <2>2, <2>4 DEF AnswersOK
  <2> QED
    BY <2>5, <2>6, <2>7, <2>8 DEF PairOK
<1>5. ASSUME NEW x \in App, NEW y \in App, x # y
      PROVE  PairOK(en2, wi2, x, y)
  BY <1>4, <1>5
<1> QED
  BY <1>2, <1>3, <1>5 DEF GraphOK

\* What a change of a's engine to f leaves alone between it and the neighbour b.
Quiet(en, wi, a, f, wi2, b) ==
  LET e == en[a] IN
  /\ wi2[<<a, b>>] = wi[<<a, b>>] /\ wi2[<<b, a>>] = wi[<<b, a>>]
  /\ b \in f.weak <=> b \in e.weak
  /\ f.normal[b] = e.normal[b]
  /\ Has(f.inMsgs, b) \/ Has(f.tasks, Starting(b)) => Has(e.inMsgs, b) \/ Has(e.tasks, Starting(b))
  /\ ~(Has(f.inMsgs, b) /\ Has(f.tasks, Starting(b))) /\ Once(f.inMsgs, b) /\ Once(f.tasks, Starting(b))
  /\ f.state = "none" <=> e.state = "none"
  /\ f.state = "up" => e.state = "up"
  /\ e.state \in {"draining", "gone"} => f.state \in {"draining", "gone"}
  /\ f.state = "up" /\ f.original = None => wi[<<a, b>>].st = "none"
  /\ f.original # None /\ Pending(f, b) => wi[<<a, b>>].st = "none"
  /\ Pending(f, b) => Pending(e, b) \/ e.state = "up"

\* A change that also leaves alone what a is to tell b.
Silent(en, wi, a, f, en2, wi2, b) ==
  /\ f.requester = b => en[a].requester = b
  /\ f.original = b => en[a].original = b
  /\ f.state = "up" /\ Owes(en2, wi2, a, b) => Owes(en, wi, a, b)

LEMMA QuietAtoms ==
    ASSUME NEW en, NEW wi, NEW a, NEW f, NEW en2, NEW wi2, Change(en, wi, a, f, en2, wi2),
           NEW b \in App \ {a}, Quiet(en, wi, a, f, wi2, b)
    PROVE  /\ Queued(en2, b, a) => Queued(en, b, a)
           /\ Queued(en2, a, b) <=> Queued(en, a, b)
           /\ OnWire(wi2, a, b) <=> OnWire(wi, a, b)
           /\ OnWire(wi2, b, a) <=> OnWire(wi, b, a)
           /\ Coming(en2, wi2, b, a) => Coming(en, wi, b, a)
           /\ Coming(en2, wi2, a, b) <=> Coming(en, wi, a, b)
           /\ Joined(en2, wi2, b, a) => Joined(en, wi, b, a)
           /\ Joined(en2, wi2, a, b) <=> Joined(en, wi, a, b)
           /\ Holds(en2, a, b) <=> Holds(en, a, b)
           /\ Holds(en2, b, a) <=> Holds(en, b, a)
           /\ Answer(wi2, a, b) <=> Answer(wi, a, b)
           /\ Answer(wi2, b, a) <=> Answer(wi, b, a)
           /\ Leaving(en, a) => Leaving(en2, a)
           /\ Leaving(en2, b) <=> Leaving(en, b)
           /\ Owes(en2, wi2, b, a) <=> Owes(en, wi, b, a)
           /\ en2[a] = f /\ en2[b] = en[b]
<1>1. /\ en2[a] = f /\ en2[b] = en[b]
      /\ Owes(en2, wi2, b, a) <=> Owes(en, wi, b, a)
  <2>1. /\ en2[a] = f /\ en2 \in [App -> EngineType] /\ Typed(a, en[a])
        /\ \A d \in App \ {a} : /\ en2[d] = en[d] /\ Skipped(en2, wi2, d) = Skipped(en, wi, d)
                                /\ \A x : Owes(en2, wi2, d, x) <=> Owes(en, wi, d, x)
                                /\ <<a, d>> \in Channels /\ <<d, a>> \in Channels
    BY ONLY Change(en, wi, a, f, en2, wi2), ChangeFacts
  <2> QED
    BY ONLY <2>1, b \in App \ {a}
<1> QED
  BY <1>1 DEF Quiet, Queued, OnWire, Coming, Joined, Holds, Answer, Leaving

LEMMA MonoHold ==
    ASSUME NEW en, NEW wi, NEW a, NEW f, NEW en2, NEW wi2, Change(en, wi, a, f, en2, wi2),
           NEW b \in App \ {a}, Quiet(en, wi, a, f, wi2, b)
    PROVE  /\ WireOK(en2, wi2, a, b) /\ HoldOK(en2, wi2, a, b) /\ SmallerOK(en2, wi2, a, b)
           /\ WireOK(en2, wi2, b, a) /\ HoldOK(en2, wi2, b, a) /\ SmallerOK(en2, wi2, b, a)
           /\ AnswersOK(en2, wi2, a, b)
<1>1. /\ Queued(en2, b, a) => Queued(en, b, a)
      /\ Queued(en2, a, b) <=> Queued(en, a, b)
      /\ OnWire(wi2, a, b) <=> OnWire(wi, a, b)
      /\ OnWire(wi2, b, a) <=> OnWire(wi, b, a)
      /\ Coming(en2, wi2, b, a) => Coming(en, wi, b, a)
      /\ Coming(en2, wi2, a, b) <=> Coming(en, wi, a, b)
      /\ Joined(en2, wi2, b, a) => Joined(en, wi, b, a)
      /\ Joined(en2, wi2, a, b) <=> Joined(en, wi, a, b)
      /\ Holds(en2, a, b) <=> Holds(en, a, b)
      /\ Holds(en2, b, a) <=> Holds(en, b, a)
      /\ Answer(wi2, a, b) <=> Answer(wi, a, b)
      /\ Leaving(en, a) => Leaving(en2, a)
      /\ Leaving(en2, b) <=> Leaving(en, b)
      /\ Owes(en2, wi2, b, a) <=> Owes(en, wi, b, a)
      /\ en2[a] = f /\ en2[b] = en[b]
  BY ONLY Change(en, wi, a, f, en2, wi2), b \in App \ {a}, Quiet(en, wi, a, f, wi2, b), QuietAtoms
<1>2. GraphOK(en, wi) /\ a \in App /\ en[a].state \in {"none", "up", "closing", "draining", "gone"}
      /\ f.state \in {"none", "up", "closing", "draining", "gone"}
  BY EngineAt DEF Change, Typed, EngineType
<1>3. /\ WireOK(en, wi, a, b) /\ HoldOK(en, wi, a, b) /\ SmallerOK(en, wi, a, b) /\ AnswersOK(en, wi, a, b)
      /\ WireOK(en, wi, b, a) /\ HoldOK(en, wi, b, a) /\ SmallerOK(en, wi, b, a)
  BY <1>2, PairAt
<1>4. WireOK(en2, wi2, a, b)
  BY <1>1, <1>3 DEF WireOK, Quiet
<1>5. WireOK(en2, wi2, b, a)
  BY <1>1, <1>3 DEF WireOK, Quiet
<1>6. HoldOK(en2, wi2, a, b)
  BY <1>1, <1>3 DEF HoldOK, Quiet
<1>7. HoldOK(en2, wi2, b, a)
  BY <1>1, <1>3 DEF HoldOK, Quiet
<1>8. SmallerOK(en2, wi2, a, b)
  BY <1>1, <1>2, <1>3 DEF SmallerOK, Away, Kept, Quiet
<1>9. SmallerOK(en2, wi2, b, a)
  BY <1>1, <1>2, <1>3 DEF SmallerOK, Away, Kept, Quiet
<1>10. AnswersOK(en2, wi2, a, b)
  BY <1>1, <1>2, <1>3 DEF AnswersOK, Quiet
<1> QED
  BY <1>4, <1>5, <1>6, <1>7, <1>8, <1>9, <1>10

LEMMA MonoPair ==
    ASSUME NEW en, NEW wi, NEW a, NEW f, NEW en2, NEW wi2, Change(en, wi, a, f, en2, wi2),
           NEW b \in App \ {a}, Quiet(en, wi, a, f, wi2, b), Silent(en, wi, a, f, en2, wi2, b)
    PROVE  PairOK(en2, wi2, a, b) /\ PairOK(en2, wi2, b, a)
<1>1. /\ Coming(en2, wi2, b, a) => Coming(en, wi, b, a)
      /\ Answer(wi2, b, a) <=> Answer(wi, b, a)
      /\ en2[a] = f /\ en2[b] = en[b]
  BY ONLY Change(en, wi, a, f, en2, wi2), b \in App \ {a}, Quiet(en, wi, a, f, wi2, b), QuietAtoms
<1>2. AnswersOK(en, wi, b, a)
  BY PairAt DEF Change
<1>3. AnswersOK(en2, wi2, b, a)
  BY <1>1, <1>2 DEF AnswersOK, Quiet, Silent
<1>4. /\ WireOK(en2, wi2, a, b) /\ HoldOK(en2, wi2, a, b) /\ SmallerOK(en2, wi2, a, b)
      /\ WireOK(en2, wi2, b, a) /\ HoldOK(en2, wi2, b, a) /\ SmallerOK(en2, wi2, b, a)
      /\ AnswersOK(en2, wi2, a, b)
  BY ONLY Change(en, wi, a, f, en2, wi2), b \in App \ {a}, Quiet(en, wi, a, f, wi2, b), MonoHold
<1> QED
  BY <1>3, <1>4 DEF PairOK

LEMMA MonoChange ==
    ASSUME NEW en, NEW wi, NEW a, NEW f, NEW en2, NEW wi2, Change(en, wi, a, f, en2, wi2),
           QueueOK(a, f), ConnectingOK(f), SkippedOK(en2, wi2, a),
           \A b \in App \ {a} : Quiet(en, wi, a, f, wi2, b) /\ Silent(en, wi, a, f, en2, wi2, b)
    PROVE  GraphOK(en2, wi2)
<1>1. ASSUME NEW b \in App \ {a}
      PROVE  PairOK(en2, wi2, a, b) /\ PairOK(en2, wi2, b, a)
  BY MonoPair
<1> QED
  BY <1>1, ChangeOK

\* a may tell s the last word: s waits for it, and nothing else will tell s.
Due(en, wi, a, s) ==
  s \in App /\ en[s].state \in {"none", "up"} =>
    /\ wi[<<s, a>>].st \notin {"none", "connecting"} /\ ~Coming(en, wi, s, a)
    /\ en[a].requester # s /\ ~Owes(en, wi, a, s) /\ ~Answer(wi, s, a) /\ a \in en[s].weak

\* Once what s waited for at a's engine is over, or who requested its context is forgotten.
LEMMA DueAfter ==
    ASSUME NEW en, NEW wi, NEW a, NEW f, NEW en2, NEW wi2, Change(en, wi, a, f, en2, wi2),
           NEW s \in Sources \ {a}, s \in App => Quiet(en, wi, a, f, wi2, s), en[a].state = "up",
           \/ Owes(en, wi, a, s) /\ ~Owes(en2, wi2, a, s) /\ f.requester = en[a].requester
           \/ en[a].requester = s /\ f.requester # s /\ (Owes(en2, wi2, a, s) => Owes(en, wi, a, s))
    PROVE  Due(en2, wi2, a, s)
<1> SUFFICES ASSUME s \in App, en2[s].state \in {"none", "up"}
             PROVE  Due(en2, wi2, a, s)
  BY DEF Due
<1>1. /\ Coming(en2, wi2, s, a) => Coming(en, wi, s, a)
      /\ Answer(wi2, s, a) <=> Answer(wi, s, a)
      /\ en2[a] = f /\ en2[s] = en[s]
  BY ONLY Change(en, wi, a, f, en2, wi2), s \in App, s \in Sources \ {a}, Quiet(en, wi, a, f, wi2, s), QuietAtoms
<1>2. AnswersOK(en, wi, s, a)
  BY PairAt DEF Change
<1>3. wi2[<<s, a>>] = wi[<<s, a>>]
  BY DEF Quiet
<1>4. Owes(en, wi, a, s) => en[a].original = s
  BY DEF Owes
<1> QED
  BY <1>1, <1>2, <1>3, <1>4 DEF AnswersOK, Due

\* f is e but for whom it waits for and who requested its context.
Alike(e, f) ==
  /\ f.state = e.state /\ f.made = e.made /\ f.original = e.original
  /\ f.weak = e.weak /\ f.normal = e.normal /\ f.inMsgs = e.inMsgs /\ f.tasks = e.tasks

LEMMA QueueAlike ==
    ASSUME NEW a, NEW e, NEW f, Alike(e, f), QueueOK(a, e), e.state \in {"none", "gone"} => f.requester = None
    PROVE  QueueOK(a, f)
<1>1. \A b : Pending(f, b) <=> Pending(e, b)
  BY DEF Alike, Pending
<1> QED
  BY <1>1 DEF QueueOK, Alike

LEMMA QuietAlike ==
    ASSUME NEW en, NEW wi, GraphOK(en, wi), NEW a \in App, NEW f, Alike(en[a], f), NEW b \in App \ {a}
    PROVE  Quiet(en, wi, a, f, wi, b)
<1>1. WireOK(en, wi, a, b) /\ HoldOK(en, wi, b, a)
  BY PairAt
<1> QED
  BY <1>1 DEF Quiet, Alike, WireOK, HoldOK, Pending

LEMMA PrivateChange ==
    ASSUME NEW en, NEW wi, NEW a, NEW f, NEW en2, Change(en, wi, a, f, en2, wi), Alike(en[a], f),
           \/ f.requester \in {None, en[a].requester}
           \/ en[a].state = "up" /\ f.requester \in Sources \ {a} /\ Due(en, wi, a, f.requester),
           f.state = "up" /\ f.context = "starting" => f.requester # None,
           \/ /\ f.out = en[a].out /\ en[a].oks \subseteq f.oks
              /\ \A b \in f.oks \ en[a].oks : wi[<<a, b>>].st # "none"
           \/ f.out = {} /\ (f.state = "up" => \A b \in App : ~Pending(f, b))
    PROVE  GraphOK(en2, wi)
<1> DEFINE e == en[a]
<1>1. /\ GraphOK(en, wi) /\ a \in App /\ QueueOK(a, e) /\ ConnectingOK(e) /\ SkippedOK(en, wi, a)
      /\ f.out \subseteq App \ {a} /\ f.oks \subseteq f.out
  BY EngineAt DEF Change, Typed, RemotesOK
<1>2. en2[a] = f
  BY ONLY Change(en, wi, a, f, en2, wi), ChangeFacts
<1>3. \A b : Pending(f, b) <=> Pending(e, b)
  BY DEF Alike, Pending
<1>4. QueueOK(a, f)
  <2>1. e.state \in {"none", "gone"} => f.requester = None
    BY <1>1 DEF QueueOK
  <2> QED
    BY <1>1, <2>1, QueueAlike
<1>5. Skipped(en2, wi, a) \subseteq Skipped(en, wi, a) /\ (f.out # {} => Skipped(en2, wi, a) = Skipped(en, wi, a))
  <2>1. CASE f.out = {}
    BY <1>2, <2>1 DEF Skipped
  <2>2. CASE f.out # {}
    BY <1>2, <1>3, <2>2 DEF Skipped
  <2> QED
    BY <2>1, <2>2
<1>6. SkippedOK(en2, wi, a)
  BY <1>1, <1>2, <1>3, <1>5 DEF SkippedOK, Alike
<1>7. ASSUME NEW b \in App, f.state = "up", Pending(f, b)
      PROVE  b \in f.out \ f.oks
  <2>1. e.state = "up" /\ Pending(e, b) /\ f.out = e.out
    BY <1>3, <1>7 DEF Alike
  <2>2. b \in e.out \ e.oks /\ e.original # None /\ b # a
    BY <1>1, <2>1 DEF ConnectingOK
  <2>3. wi[<<a, b>>].st = "none"
    BY <1>1, <2>1, <2>2, PairAt DEF WireOK
  <2> QED
    BY <1>3, <1>7, <2>1, <2>2, <2>3
<1>8. ConnectingOK(f)
  BY <1>1, <1>3, <1>7 DEF ConnectingOK, Alike
<1>9. \A x : Owes(en2, wi, a, x) => Owes(en, wi, a, x)
  BY <1>2, <1>5 DEF Owes, Alike
<1>10. \A b \in App \ {a} : Quiet(en, wi, a, f, wi, b)
  BY <1>1, QuietAlike
<1>11. ASSUME NEW b \in App \ {a}
       PROVE  PairOK(en2, wi, a, b) /\ PairOK(en2, wi, b, a)
  <2>1. CASE f.requester = b => e.requester = b
    <3>1. Silent(en, wi, a, f, en2, wi, b)
      BY <1>9, <2>1 DEF Silent, Alike
    <3> QED
      BY <1>10, <3>1, MonoPair
  <2>2. CASE ~(f.requester = b => e.requester = b)
    <3>1. Due(en, wi, a, b) /\ f.requester = b
      BY <2>2, NamesAreDistinct
    <3>2. /\ WireOK(en2, wi, a, b) /\ HoldOK(en2, wi, a, b) /\ SmallerOK(en2, wi, a, b)
          /\ WireOK(en2, wi, b, a) /\ HoldOK(en2, wi, b, a) /\ SmallerOK(en2, wi, b, a)
          /\ AnswersOK(en2, wi, a, b)
      BY <1>10, MonoHold
    <3>3. /\ Coming(en2, wi, b, a) => Coming(en, wi, b, a)
          /\ en2[a] = f /\ en2[b] = en[b]
      BY ONLY Change(en, wi, a, f, en2, wi), b \in App \ {a}, <1>10, QuietAtoms
    <3>4. AnswersOK(en, wi, b, a)
      BY <1>1, PairAt
    <3>5. AnswersOK(en2, wi, b, a)
      BY <1>9, <3>1, <3>3, <3>4 DEF AnswersOK, Due
    <3> QED
      BY <3>2, <3>5 DEF PairOK
  <2> QED
    BY <2>1, <2>2
<1> QED
  BY ONLY Change(en, wi, a, f, en2, wi), <1>4, <1>6, <1>8, <1>11, ChangeOK

-----------------------------------------------------------------------------
(* Results that are sent *)

\* Engines as they are, and other channels at a.
LEMMA SameEngines ==
    ASSUME graph \in Graphs, NEW en, NEW wi, GraphOK(en, wi), NEW a \in App, NEW wi2 \in [Channels -> WireType],
           \A x, y \in App \ {a} : x # y => wi2[<<x, y>>] = wi[<<x, y>>],
           \A x \in App \ {a} : wi2[<<x, a>>].st = "none" <=> wi[<<x, a>>].st = "none",
           \A x \in App \ {a} : wi2[<<a, x>>].st = "none" <=> wi[<<a, x>>].st = "none"
    PROVE  /\ Change(en, wi, a, en[a], en, wi2) /\ QueueOK(a, en[a]) /\ ConnectingOK(en[a])
           /\ SkippedOK(en, wi2, a) /\ \A x : Owes(en, wi2, a, x) <=> Owes(en, wi, a, x)
           /\ \A b \in App \ {a} :
                /\ wi2[<<a, b>>] = wi[<<a, b>>] /\ wi2[<<b, a>>] = wi[<<b, a>>] =>
                     PairOK(en, wi2, a, b) /\ PairOK(en, wi2, b, a)
                /\ \A x : Owes(en, wi2, b, x) <=> Owes(en, wi, b, x)
<1>1. /\ Typed(a, en[a]) /\ QueueOK(a, en[a]) /\ ConnectingOK(en[a]) /\ SkippedOK(en, wi, a)
      /\ en \in [App -> EngineType]
  BY EngineAt
<1>2. Change(en, wi, a, en[a], en, wi2)
  BY <1>1 DEF Change
<1>3. en[a].out \subseteq App \ {a}
  BY <1>1 DEF Typed, RemotesOK
<1>4. Skipped(en, wi2, a) = Skipped(en, wi, a)
  BY <1>3 DEF Skipped
<1>5. SkippedOK(en, wi2, a) /\ \A x : Owes(en, wi2, a, x) <=> Owes(en, wi, a, x)
  BY <1>1, <1>4 DEF SkippedOK, Owes
<1>6. ASSUME NEW b \in App \ {a}, wi2[<<a, b>>] = wi[<<a, b>>], wi2[<<b, a>>] = wi[<<b, a>>]
      PROVE  PairOK(en, wi2, a, b) /\ PairOK(en, wi2, b, a)
  <2>1. WireOK(en, wi, a, b) /\ HoldOK(en, wi, b, a)
    BY PairAt
  <2>2. Quiet(en, wi, a, en[a], wi2, b)
    BY <1>6, <2>1 DEF Quiet, WireOK, HoldOK
  <2>3. Silent(en, wi, a, en[a], en, wi2, b)
    BY <1>5 DEF Silent
  <2> QED
    BY <1>2, <2>2, <2>3, MonoPair
<1>7. /\ en[a] = en[a] /\ en \in [App -> EngineType] /\ Typed(a, en[a])
      /\ \A b \in App \ {a} : /\ en[b] = en[b] /\ Skipped(en, wi2, b) = Skipped(en, wi, b)
                              /\ \A x : Owes(en, wi2, b, x) <=> Owes(en, wi, b, x)
                              /\ <<a, b>> \in Channels /\ <<b, a>> \in Channels
  BY ONLY <1>2, ChangeFacts
<1> QED
  BY <1>1, <1>2, <1>5, <1>6, <1>7

\* a's engine sends r to s over the channel that s made.
SendsBack(en, wi, a, s, r, wi2) ==
  /\ graph \in Graphs /\ GraphOK(en, wi) /\ a \in App /\ s \in App \ {a}
  /\ r \in {"ok", "error", "duplicate"} /\ wi[<<s, a>>].st = "up"
  /\ r # "error" => Due(en, wi, a, s)
  /\ r = "ok" => en[a].state = "up" /\ en[a].normal[s] = <<s, a>>
  /\ r = "duplicate" => graph.uri[s] < graph.uri[a]
  /\ wi2 \in [Channels -> WireType]
  /\ \A c \in Channels : c # <<s, a>> => wi2[c] = wi[c]
  /\ wi2[<<s, a>>].st = "up" /\ wi2[<<s, a>>].fwd = wi[<<s, a>>].fwd
  /\ wi2[<<s, a>>].back = Append(wi[<<s, a>>].back, r)

LEMMA SentBack ==
    ASSUME NEW en, NEW wi, NEW a, NEW s, NEW r, NEW wi2, SendsBack(en, wi, a, s, r, wi2)
    PROVE  GraphOK(en, wi2)
<1> USE DEF SendsBack
<1> DEFINE w == wi[<<s, a>>]
           w2 == wi2[<<s, a>>]
<1>0. \A x, y \in App : x # y => <<x, y>> \in Channels
  BY ChannelFacts
<1>1. /\ \A x, y \in App \ {a} : x # y => wi2[<<x, y>>] = wi[<<x, y>>]
      /\ \A x \in App \ {a} : wi2[<<x, a>>].st = "none" <=> wi[<<x, a>>].st = "none"
      /\ \A x \in App \ {a} : wi2[<<a, x>>] = wi[<<a, x>>]
      /\ \A x \in App \ {a} : x # s => wi2[<<x, a>>] = wi[<<x, a>>]
  BY <1>0
<1>2. /\ Change(en, wi, a, en[a], en, wi2) /\ QueueOK(a, en[a]) /\ ConnectingOK(en[a])
      /\ SkippedOK(en, wi2, a) /\ \A x : Owes(en, wi2, a, x) <=> Owes(en, wi, a, x)
      /\ \A b \in App \ {a} :
           /\ wi2[<<a, b>>] = wi[<<a, b>>] /\ wi2[<<b, a>>] = wi[<<b, a>>] =>
                PairOK(en, wi2, a, b) /\ PairOK(en, wi2, b, a)
           /\ \A x : Owes(en, wi2, b, x) <=> Owes(en, wi, b, x)
  <2>1. graph \in Graphs /\ GraphOK(en, wi) /\ a \in App /\ wi2 \in [Channels -> WireType]
    OBVIOUS
  <2> QED
    BY ONLY <1>1, <2>1, SameEngines
<1>3. /\ WireOK(en, wi, a, s) /\ HoldOK(en, wi, a, s) /\ SmallerOK(en, wi, a, s) /\ AnswersOK(en, wi, a, s)
      /\ WireOK(en, wi, s, a) /\ HoldOK(en, wi, s, a) /\ SmallerOK(en, wi, s, a) /\ AnswersOK(en, wi, s, a)
  BY PairAt
<1>4. wi2[<<a, s>>] = wi[<<a, s>>]
  BY <1>1
<1>5. /\ w.back \in Seq(BackType) /\ r \in BackType
      /\ \A m : Has(w2.back, m) <=> Has(w.back, m) \/ r = m
  <2>1. w.back \in Seq(BackType) /\ r \in BackType
    BY EngineAt, <1>0 DEF WireType, BackType
  <2>2. w2.back = Append(w.back, r)
    OBVIOUS
  <2> HIDE DEF w, w2
  <2> QED
    BY ONLY <2>1, <2>2, HasAppend
<1>6. ~Has(w.back, "eof")
  BY <1>3 DEF WireOK
<1>7. EofLast(w2.back)
  BY <1>5, <1>6, EndsAppend
<1>8. Single(w.back) /\ (r # "error" => ~Has(w.back, "ok") /\ ~Has(w.back, "duplicate")) => Single(w2.back)
  BY <1>5, EndsAppend
<1>9. /\ OnWire(wi2, s, a) <=> OnWire(wi, s, a)
      /\ OnWire(wi2, a, s) <=> OnWire(wi, a, s)
      /\ Coming(en, wi2, s, a) <=> Coming(en, wi, s, a)
      /\ Coming(en, wi2, a, s) <=> Coming(en, wi, a, s)
      /\ Joined(en, wi2, s, a) <=> Joined(en, wi, s, a)
      /\ Joined(en, wi2, a, s) <=> Joined(en, wi, a, s)
      /\ Answer(wi2, a, s) <=> Answer(wi, a, s)
      /\ Answer(wi2, s, a) <=> Answer(wi, s, a) \/ r # "error"
  BY <1>4, <1>5 DEF OnWire, Coming, Joined, Answer
<1>10. WireOK(en, wi2, s, a)
  BY <1>3, <1>5, <1>6, <1>7, <1>9 DEF WireOK
<1>11. WireOK(en, wi2, a, s)
  BY <1>3, <1>4, <1>9 DEF WireOK
<1>12. HoldOK(en, wi2, s, a)
  BY <1>3, <1>5, <1>9 DEF HoldOK
<1>13. HoldOK(en, wi2, a, s)
  BY <1>3, <1>4, <1>9 DEF HoldOK
<1>14. SmallerOK(en, wi2, s, a)
  BY <1>3, <1>4, <1>5, <1>9 DEF SmallerOK, Away, Kept
<1>15. SmallerOK(en, wi2, a, s)
  BY <1>3, <1>4, <1>5, <1>9 DEF SmallerOK, Away, Kept
<1>16. AnswersOK(en, wi2, s, a)
  <2> SUFFICES ASSUME en[s].state \in {"none", "up"}
               PROVE  AnswersOK(en, wi2, s, a)
    BY DEF AnswersOK
  <2>1. Single(w2.back)
    BY <1>3, <1>8 DEF AnswersOK, Due, Answer
  <2>2. r # "error" =>
                    /\ w.st \notin {"none", "connecting"} /\ ~Coming(en, wi, s, a)
                    /\ en[a].requester # s /\ ~Owes(en, wi, a, s) /\ a \in en[s].weak
    BY DEF Due
  <2> QED
    BY <1>2, <1>3, <1>9, <2>1, <2>2 DEF AnswersOK
<1>17. AnswersOK(en, wi2, a, s)
  BY <1>2, <1>3, <1>4, <1>9 DEF AnswersOK
<1>18. \A b \in App \ {a} : PairOK(en, wi2, a, b) /\ PairOK(en, wi2, b, a)
  BY <1>1, <1>2, <1>10, <1>11, <1>12, <1>13, <1>14, <1>15, <1>16, <1>17 DEF PairOK
<1> QED
  BY ONLY <1>2, <1>18, ChangeOK

\* a's engine sends r to s over the channel that a made.
SendsForth(en, wi, a, s, r, wi2) ==
  /\ graph \in Graphs /\ GraphOK(en, wi) /\ a \in App /\ s \in App \ {a}
  /\ r \in {"ok", "error"} /\ wi[<<a, s>>].st = "up"
  /\ wi2 \in [Channels -> WireType]
  /\ \A c \in Channels : c # <<a, s>> => wi2[c] = wi[c]
  /\ wi2[<<a, s>>].st = "up" /\ wi2[<<a, s>>].back = wi[<<a, s>>].back
  /\ wi2[<<a, s>>].fwd = Append(wi[<<a, s>>].fwd, r)

LEMMA SentForth ==
    ASSUME NEW en, NEW wi, NEW a, NEW s, NEW r, NEW wi2, SendsForth(en, wi, a, s, r, wi2)
    PROVE  GraphOK(en, wi2)
<1> USE DEF SendsForth
<1> DEFINE w == wi[<<a, s>>]
           w2 == wi2[<<a, s>>]
<1>0. \A x, y \in App : x # y => <<x, y>> \in Channels
  BY ChannelFacts
<1>1. /\ \A x, y \in App \ {a} : x # y => wi2[<<x, y>>] = wi[<<x, y>>]
      /\ \A x \in App \ {a} : wi2[<<a, x>>].st = "none" <=> wi[<<a, x>>].st = "none"
      /\ \A x \in App \ {a} : wi2[<<x, a>>] = wi[<<x, a>>]
      /\ \A x \in App \ {a} : x # s => wi2[<<a, x>>] = wi[<<a, x>>]
  BY <1>0
<1>2. /\ Change(en, wi, a, en[a], en, wi2) /\ QueueOK(a, en[a]) /\ ConnectingOK(en[a])
      /\ SkippedOK(en, wi2, a) /\ \A x : Owes(en, wi2, a, x) <=> Owes(en, wi, a, x)
      /\ \A b \in App \ {a} :
           /\ wi2[<<a, b>>] = wi[<<a, b>>] /\ wi2[<<b, a>>] = wi[<<b, a>>] =>
                PairOK(en, wi2, a, b) /\ PairOK(en, wi2, b, a)
           /\ \A x : Owes(en, wi2, b, x) <=> Owes(en, wi, b, x)
  BY <1>1, SameEngines
<1>3. /\ WireOK(en, wi, a, s) /\ HoldOK(en, wi, a, s) /\ SmallerOK(en, wi, a, s) /\ AnswersOK(en, wi, a, s)
      /\ WireOK(en, wi, s, a) /\ HoldOK(en, wi, s, a) /\ SmallerOK(en, wi, s, a) /\ AnswersOK(en, wi, s, a)
  BY PairAt
<1>4. wi2[<<s, a>>] = wi[<<s, a>>]
  BY <1>1
<1>5. /\ w.fwd \in Seq(FwdType) /\ r \in FwdType
      /\ \A m : Has(w2.fwd, m) <=> Has(w.fwd, m) \/ r = m
      /\ Once(w.fwd, "start_graph") => Once(w2.fwd, "start_graph")
  <2>1. w.fwd \in Seq(FwdType) /\ r \in FwdType
    BY EngineAt, <1>0 DEF WireType, FwdType
  <2> QED
    BY <2>1, HasAppend
<1>9. /\ OnWire(wi2, s, a) <=> OnWire(wi, s, a)
      /\ OnWire(wi2, a, s) <=> OnWire(wi, a, s)
      /\ Coming(en, wi2, s, a) <=> Coming(en, wi, s, a)
      /\ Coming(en, wi2, a, s) <=> Coming(en, wi, a, s)
      /\ Joined(en, wi2, s, a) <=> Joined(en, wi, s, a)
      /\ Joined(en, wi2, a, s) <=> Joined(en, wi, a, s)
      /\ Answer(wi2, a, s) <=> Answer(wi, a, s)
      /\ Answer(wi2, s, a) <=> Answer(wi, s, a)
  BY <1>4, <1>5 DEF OnWire, Coming, Joined, Answer
<1>10. WireOK(en, wi2, s, a)
  BY <1>3, <1>4, <1>9 DEF WireOK
<1>11. WireOK(en, wi2, a, s)
  BY <1>3, <1>5, <1>9 DEF WireOK
<1>12. HoldOK(en, wi2, s, a)
  BY <1>3, <1>4, <1>9 DEF HoldOK
<1>13. HoldOK(en, wi2, a, s)
  BY <1>3, <1>5, <1>9 DEF HoldOK
<1>14. SmallerOK(en, wi2, s, a)
  BY <1>3, <1>4, <1>9 DEF SmallerOK, Away, Kept
<1>15. SmallerOK(en, wi2, a, s)
  BY <1>3, <1>4, <1>9 DEF SmallerOK, Away, Kept
<1>16. AnswersOK(en, wi2, s, a)
  BY <1>2, <1>3, <1>4, <1>9 DEF AnswersOK
<1>17. AnswersOK(en, wi2, a, s)
  BY <1>2, <1>3, <1>9 DEF AnswersOK
<1>18. \A b \in App \ {a} : PairOK(en, wi2, a, b) /\ PairOK(en, wi2, b, a)
  BY <1>1, <1>2, <1>10, <1>11, <1>12, <1>13, <1>14, <1>15, <1>16, <1>17 DEF PairOK
<1> QED
  BY ONLY <1>2, <1>18, ChangeOK

LEMMA AnsweredOK ==
    ASSUME graph \in Graphs, NEW en, NEW wi, GraphOK(en, wi), NEW a \in App, NEW s \in Sources \ {a},
           NEW r \in {"ok", "error"}, r = "ok" /\ en[a].state = "up" => Due(en, wi, a, s),
           NEW w, w = Answered(wi, a, en[a], s, r)
    PROVE  /\ GraphOK(en, w)
           /\ \A c \in Channels : w[c].st = wi[c].st /\ (wi[c].st # "up" => w[c] = wi[c])
<1> DEFINE c == en[a].normal[s]
<1>1. /\ Typed(a, en[a]) /\ wi \in [Channels -> WireType]
      /\ \A x, y \in App : x # y => <<x, y>> \in Channels
  BY EngineAt, ChannelFacts
<1>2. CASE en[a].state # "up" \/ s = Client \/ c = None
  BY <1>2 DEF Answered
<1>3. CASE ~(en[a].state # "up" \/ s = Client \/ c = None)
  <2>1. s \in App \ {a} /\ c \in {<<a, s>>, <<s, a>>} /\ w = Sent(wi, a, c, r) /\ en[a].state = "up"
    <3>1. s \in App \ {a}
      BY <1>3 DEF Sources
    <3>2. c \in {<<a, s>>, <<s, a>>}
      BY <1>1, <1>3, <3>1 DEF Typed, RemotesOK
    <3> QED
      BY <1>3, <3>1, <3>2 DEF Answered
  <2>2. c \in Channels /\ a \in {c[1], c[2]} /\ r \in {"ok", "error", "duplicate"} /\ r # "duplicate"
    BY <1>1, <2>1
  <2> HIDE DEF c
  <2>3. /\ w \in [Channels -> WireType]
        /\ \A d \in Channels : d # c => w[d] = wi[d]
        /\ wi[c].st # "up" => w = wi
        /\ w[c].st = wi[c].st
        /\ a = c[1] /\ wi[c].st = "up" => w[c].fwd = Append(wi[c].fwd, r) /\ w[c].back = wi[c].back
        /\ a = c[2] /\ wi[c].st = "up" => w[c].fwd = wi[c].fwd /\ w[c].back = Append(wi[c].back, r)
    <3> DEFINE v == Sent(wi, a, c, r)
    <3>1. /\ v \in [Channels -> WireType]
          /\ \A d \in Channels : d # c => v[d] = wi[d]
          /\ wi[c].st # "up" => v = wi
          /\ v[c].st = wi[c].st
          /\ a = c[1] /\ wi[c].st = "up" =>
               /\ v[c].fwd = Append(wi[c].fwd, r)
               /\ v[c].back = wi[c].back
          /\ a = c[2] /\ wi[c].st = "up" =>
               /\ v[c].fwd = wi[c].fwd
               /\ v[c].back = Append(wi[c].back, r)
      <4>1. MaySend(wi, a, c, r)
        BY <1>1, <2>2 DEF MaySend
      <4> QED
        BY ONLY <4>1, SentOn
    <3> QED
      BY ONLY <2>1, <3>1
  <2>4. CASE wi[c].st # "up"
    BY <2>3, <2>4
  <2>5. CASE wi[c].st = "up" /\ c = <<s, a>>
    <3>1. c[1] = s /\ c[2] = a /\ wi[<<s, a>>].st = "up" /\ c = <<s, a>>
      BY <2>5
    <3>2. /\ \A d \in Channels : d # <<s, a>> => w[d] = wi[d]
          /\ w[<<s, a>>].st = "up" /\ w[<<s, a>>].fwd = wi[<<s, a>>].fwd
          /\ w[<<s, a>>].back = Append(wi[<<s, a>>].back, r)
      BY <2>3, <3>1
    <3>3. en[a].normal[s] = <<s, a>>
      BY <3>1 DEF c
    <3>4. GraphOK(en, w)
      <4>1. SendsBack(en, wi, a, s, r, w)
        BY <2>1, <2>3, <3>1, <3>2, <3>3 DEF SendsBack
      <4> QED
        BY ONLY <4>1, SentBack
    <3> QED
      BY <2>3, <2>5, <3>4
  <2>6. CASE wi[c].st = "up" /\ c = <<a, s>>
    <3>1. c[1] = a /\ c[2] = s /\ wi[<<a, s>>].st = "up" /\ c = <<a, s>>
      BY <2>6
    <3>2. /\ \A d \in Channels : d # <<a, s>> => w[d] = wi[d]
          /\ w[<<a, s>>].st = "up" /\ w[<<a, s>>].back = wi[<<a, s>>].back
          /\ w[<<a, s>>].fwd = Append(wi[<<a, s>>].fwd, r)
      BY <2>3, <3>1
    <3>4. GraphOK(en, w)
      <4>1. SendsForth(en, wi, a, s, r, w)
        BY <2>1, <2>3, <3>1, <3>2 DEF SendsForth
      <4> QED
        BY ONLY <4>1, SentForth
    <3> QED
      BY <2>3, <2>6, <3>4
  <2> QED
    BY <2>1, <2>4, <2>5, <2>6
<1> QED
  BY <1>2, <1>3

-----------------------------------------------------------------------------
(* A task is taken *)

LEMMA RanOK ==
    ASSUME NEW a \in App, NEW e, Typed(a, e), QueueOK(a, e), e.tasks # <<>>
    PROVE  /\ Typed(a, Ran(e)) /\ QueueOK(a, Ran(e)) /\ e.state \notin {"none", "gone"}
           /\ Ran(e).out = e.out /\ Ran(e).oks = e.oks /\ Ran(e).context = e.context
           /\ Ran(e).requester = e.requester /\ Ran(e).state = e.state /\ Ran(e).made = e.made
           /\ Ran(e).original = e.original /\ Ran(e).weak = e.weak /\ Ran(e).normal = e.normal
           /\ Ran(e).inMsgs = e.inMsgs /\ Ran(e).tasks = Tail(e.tasks)
           /\ \A m : Has(e.tasks, m) <=> NextTask(e) = m \/ Has(Ran(e).tasks, m)
           /\ \A m : Once(e.tasks, m) => /\ Once(Ran(e).tasks, m)
                                         /\ NextTask(e) = m => ~Has(Ran(e).tasks, m)
           /\ NextTask(e) = CloseTask => e.state = "closing" /\ \A b : ~Pending(Ran(e), b)
<1>1. e \in EngineType /\ e.tasks \in Seq(Tasks)
  BY DEF Typed, EngineType
<1>2. Typed(a, Ran(e)) /\ Ran(e) = [e EXCEPT !.tasks = Tail(e.tasks)] /\ NextTask(e) = Head(e.tasks)
  BY RanTyped
<1>3. /\ Ran(e).out = e.out /\ Ran(e).oks = e.oks /\ Ran(e).context = e.context
      /\ Ran(e).requester = e.requester /\ Ran(e).state = e.state /\ Ran(e).made = e.made
      /\ Ran(e).original = e.original /\ Ran(e).weak = e.weak /\ Ran(e).normal = e.normal
      /\ Ran(e).inMsgs = e.inMsgs /\ Ran(e).tasks = Tail(e.tasks)
  BY <1>1, <1>2 DEF EngineType
<1> DEFINE t == Tail(e.tasks)
<1>4. /\ \A m : Has(e.tasks, m) <=> NextTask(e) = m \/ Has(t, m)
      /\ \A m : Once(e.tasks, m) => Once(t, m) /\ (NextTask(e) = m => ~Has(t, m))
  BY <1>1, <1>2, HasTail
<1>5. CreatedFirst(e.tasks) => /\ CreatedFirst(t)
                               /\ NextTask(e) = CloseTask => \A b : ~Has(t, Creating(b))
  BY <1>1, <1>2, EndsTail
<1> HIDE DEF t
<1>6. e.state \notin {"none", "gone"}
  BY DEF QueueOK
<1>7. t = Tail(e.tasks)
  BY DEF t
<1>8. QueueOK(a, Ran(e))
  BY <1>3, <1>4, <1>5, <1>6, <1>7 DEF QueueOK, Pending
<1>9. NextTask(e) = CloseTask => e.state = "closing" /\ \A b : ~Pending(Ran(e), b)
  BY <1>3, <1>4, <1>5, <1>7 DEF QueueOK, Pending
<1> QED
  BY <1>2, <1>3, <1>4, <1>6, <1>7, <1>8, <1>9

LEMMA RanQuiet ==
    ASSUME NEW en, NEW wi, GraphOK(en, wi), NEW a \in App, en[a].tasks # <<>>, NEW b \in App \ {a}
    PROVE  Quiet(en, wi, a, Ran(en[a]), wi, b)
<1>1. WireOK(en, wi, a, b) /\ HoldOK(en, wi, b, a)
  BY PairAt
<1>2. Typed(a, en[a]) /\ QueueOK(a, en[a])
  BY EngineAt
<1> DEFINE e == en[a]
           f == Ran(e)
<1>3. /\ f.state = e.state /\ f.original = e.original /\ f.weak = e.weak /\ f.normal = e.normal
      /\ f.inMsgs = e.inMsgs
      /\ \A m : Has(e.tasks, m) <=> NextTask(e) = m \/ Has(f.tasks, m)
      /\ \A m : Once(e.tasks, m) => Once(f.tasks, m)
  BY <1>2, RanOK
<1> HIDE DEF f
<1>4. Quiet(en, wi, a, f, wi, b)
  BY <1>1, <1>3 DEF Quiet, WireOK, HoldOK, Pending
<1> QED
  BY <1>4 DEF f

\* A start_graph is taken from the queue, and nothing else happens to the engine.
LEMMA RanStart ==
    ASSUME NEW en, NEW wi, NEW a, NEW en2, Change(en, wi, a, Ran(en[a]), en2, wi),
           en[a].tasks # <<>>, NextTask(en[a]).run = "start_graph"
    PROVE  GraphOK(en2, wi)
<1> DEFINE e == en[a]
           f == Ran(e)
<1>1. GraphOK(en, wi) /\ a \in App
  BY DEF Change
<1>2. Typed(a, e) /\ QueueOK(a, e) /\ ConnectingOK(e) /\ SkippedOK(en, wi, a)
  BY <1>1, EngineAt
<1>3. /\ f.state = e.state /\ f.original = e.original /\ f.weak = e.weak /\ f.normal = e.normal
      /\ f.requester = e.requester /\ f.context = e.context /\ f.out = e.out /\ f.oks = e.oks
      /\ \A m : Has(e.tasks, m) <=> NextTask(e) = m \/ Has(f.tasks, m)
      /\ \A m : Once(e.tasks, m) => Once(f.tasks, m)
      /\ QueueOK(a, f)
  BY <1>1, <1>2, RanOK
<1>4. \A b \in App \ {a} : Quiet(en, wi, a, f, wi, b)
  BY <1>1, RanQuiet
<1>5. en2[a] = f
  BY ONLY Change(en, wi, a, f, en2, wi), ChangeFacts
<1> HIDE DEF f
<1>6. \A b : Pending(f, b) <=> Pending(e, b)
  BY <1>3, TaskKinds DEF Pending
<1>7. ConnectingOK(f)
  BY <1>2, <1>3, <1>6 DEF ConnectingOK
<1>8. Skipped(en2, wi, a) = Skipped(en, wi, a)
  BY <1>3, <1>5, <1>6 DEF Skipped
<1>9. SkippedOK(en2, wi, a)
  BY <1>2, <1>3, <1>5, <1>6, <1>8 DEF SkippedOK
<1>10. \A b \in App \ {a} : Silent(en, wi, a, f, en2, wi, b)
  BY <1>3, <1>5, <1>8 DEF Silent, Owes
<1> QED
  BY <1>3, <1>4, <1>7, <1>9, <1>10, MonoChange DEF f

\* The command of s is taken from a's queue.
Took(en, wi, a, s, f, en2) ==
  /\ Change(en, wi, a, f, en2, wi) /\ s \in Sources \ {a}
  /\ s \in App => Queued(en, s, a) /\ ~Has(f.inMsgs, s) /\ ~Has(f.tasks, Starting(s))
  /\ f.requester = en[a].requester /\ f.original \in {en[a].original, None}

LEMMA TookDue ==
    ASSUME NEW en, NEW wi, NEW a, NEW s, NEW f, NEW en2, Took(en, wi, a, s, f, en2)
    PROVE  Due(en2, wi, a, s)
<1> SUFFICES ASSUME s \in App, en2[s].state \in {"none", "up"}
             PROVE  Due(en2, wi, a, s)
  BY DEF Due
<1>0. Change(en, wi, a, f, en2, wi) /\ s \in App \ {a} /\ a \in App /\ GraphOK(en, wi) /\ s # None
  BY ChannelFacts DEF Took, Change
<1>1. /\ en2[a] = f /\ en2 \in [App -> EngineType] /\ Typed(a, en[a])
      /\ \A d \in App \ {a} : /\ en2[d] = en[d] /\ Skipped(en2, wi, d) = Skipped(en, wi, d)
                              /\ \A x : Owes(en2, wi, d, x) <=> Owes(en, wi, d, x)
                              /\ <<a, d>> \in Channels /\ <<d, a>> \in Channels
  BY ONLY <1>0, ChangeFacts
<1>2. AnswersOK(en, wi, s, a) /\ HoldOK(en, wi, s, a)
  BY <1>0, PairAt
<1>3. Coming(en, wi, s, a) /\ ~OnWire(wi, s, a)
  BY <1>0, <1>2 DEF Took, Coming, HoldOK
<1>4. ~Coming(en2, wi, s, a)
  BY <1>1, <1>3 DEF Took, Coming, Queued
<1>5. /\ en[a].requester # s /\ en[a].original # s /\ ~Answer(wi, s, a) /\ a \in en[s].weak
  BY <1>0, <1>1, <1>2, <1>3 DEF AnswersOK
<1>6. f.requester # s /\ f.original # s
  BY <1>0, <1>5 DEF Took
<1>7. wi[<<s, a>>].st \notin {"none", "connecting"}
  <2>1. (wi[<<s, a>>].st = "up" /\ Holds(en, s, a)) \/ Has(wi[<<s, a>>].fwd, "eof")
    BY <1>2, <1>3 DEF HoldOK, Joined
  <2>2. WireOK(en, wi, s, a)
    BY <1>0, PairAt
  <2> QED
    BY <2>1, <2>2 DEF WireOK
<1>8. ~Owes(en2, wi, a, s)
  BY <1>1, <1>6 DEF Owes
<1> QED
  BY <1>0, <1>1, <1>4, <1>5, <1>6, <1>7, <1>8 DEF Due

LEMMA StartTaken ==
    ASSUME NEW en, NEW wi, GraphOK(en, wi), NEW a \in App, NEW s,
           NextTask(en[a]).run = "start_graph", s = NextTask(en[a]).on
    PROVE  /\ en[a].tasks # <<>> /\ s \in Sources \ {a} /\ NextTask(en[a]) = Starting(s)
           /\ s \in App => /\ Queued(en, s, a) /\ Has(en[a].tasks, Starting(s))
                           /\ ~Has(en[a].inMsgs, s) /\ ~Has(Ran(en[a]).tasks, Starting(s))
<1> DEFINE e == en[a]
<1>1. Typed(a, e) /\ QueueOK(a, e)
  BY EngineAt
<1>2. e.tasks # <<>>
  BY DEF NextTask, NoTask, Task
<1>3. s \in Sources \ {a} /\ NextTask(e) \in Tasks
  BY <1>1, <1>2, RanTyped
<1>4. NextTask(e) = Starting(s)
  BY <1>3, TaskForms
<1>5. /\ Has(e.tasks, Starting(s))
      /\ Once(e.tasks, Starting(s)) => ~Has(Ran(e).tasks, Starting(s))
  BY <1>1, <1>2, <1>4, RanOK
<1>6. s \in App => HoldOK(en, wi, s, a)
  BY <1>3, PairAt
<1> QED
  BY <1>2, <1>3, <1>4, <1>5, <1>6 DEF Queued, HoldOK

LEMMA SendDuplicateOK ==
    ASSUME graph \in Graphs, GraphOK(engine, wire), NEW a \in App, NEW s \in App,
           NextTask(engine[a]).run = "start_graph", s = NextTask(engine[a]).on,
           Duplicated(a, s), SendDuplicate(a, s)
    PROVE  GraphOK(engine', wire')
<1> DEFINE f == Ran(engine[a])
<1>1. /\ engine[a].tasks # <<>> /\ s \in App \ {a} /\ s \in Sources \ {a}
      /\ Queued(engine, s, a) /\ ~Has(engine[a].inMsgs, s) /\ ~Has(f.tasks, Starting(s))
  BY StartTaken
<1>2. Typed(a, engine[a]) /\ QueueOK(a, engine[a]) /\ wire \in [Channels -> WireType]
  BY EngineAt
<1>3. /\ Typed(a, f) /\ f.inMsgs = engine[a].inMsgs
      /\ f.requester = engine[a].requester /\ f.original = engine[a].original
  BY <1>1, <1>2, RanOK
<1>4. engine' = [engine EXCEPT ![a] = f] /\ wire' = Sent(wire, a, <<s, a>>, "duplicate")
  BY DEF SendDuplicate
<1>5. Change(engine, wire, a, f, engine', wire)
  BY <1>2, <1>3, <1>4 DEF Change
<1>6. GraphOK(engine', wire)
  BY <1>1, <1>5, RanStart
<1>7. Took(engine, wire, a, s, f, engine')
  BY <1>1, <1>3, <1>5 DEF Took
<1>8. Due(engine', wire, a, s)
  BY ONLY <1>7, TookDue
<1> HIDE DEF f
<1> DEFINE c == <<s, a>>
           w == Sent(wire, a, c, "duplicate")
<1>9. c \in Channels /\ c[1] = s /\ c[2] = a
  BY <1>1, ChannelFacts
<1>10. /\ w \in [Channels -> WireType]
       /\ \A d \in Channels : d # c => w[d] = wire[d]
       /\ wire[c].st # "up" => w = wire
       /\ w[c].st = wire[c].st
       /\ a = c[1] /\ wire[c].st = "up" =>
            /\ w[c].fwd = Append(wire[c].fwd, "duplicate")
            /\ w[c].back = wire[c].back
       /\ a = c[2] /\ wire[c].st = "up" =>
            /\ w[c].fwd = wire[c].fwd
            /\ w[c].back = Append(wire[c].back, "duplicate")
  <2>1. MaySend(wire, a, c, "duplicate")
    BY <1>2, <1>9 DEF MaySend
  <2> QED
    BY ONLY <2>1, SentOn
<1>11. wire' = w
  BY <1>4
<1>12. graph.uri[s] < graph.uri[a]
  BY DEF Duplicated
<1> HIDE DEF w
<1>13. CASE wire[c].st = "up"
  <2>1. SendsBack(engine', wire, a, s, "duplicate", wire')
    BY <1>1, <1>6, <1>8, <1>9, <1>10, <1>11, <1>12, <1>13 DEF SendsBack
  <2> QED
    BY ONLY <2>1, SentBack
<1> QED
  BY <1>6, <1>10, <1>11, <1>13

-----------------------------------------------------------------------------
(* A normal remote *)

\* The command of s, no duplicate, gives a a normal remote for s.
Links(en, wi, a, s, f, en2) ==
  LET e == en[a] IN
  /\ Change(en, wi, a, f, en2, wi) /\ s \in App \ {a}
  /\ Has(e.tasks, Starting(s)) /\ ~(RemoteExists(e, s) /\ graph.uri[s] < graph.uri[a])
  /\ ~Has(f.inMsgs, s) /\ ~Has(f.tasks, Starting(s))
  /\ f.normal[s] = <<s, a>> /\ f.weak = e.weak
  /\ f.state = e.state \/ (e.state = "up" /\ f.state = "closing")
  /\ f.requester = e.requester /\ f.original \in {e.original, None}
  /\ f.state = "up" => f.original = e.original
  /\ f.original # None /\ Pending(f, s) => Pending(e, s)
  /\ Pending(f, s) => Pending(e, s) \/ e.state = "up"

\* It had none.
LEMMA LinkFresh ==
    ASSUME graph \in Graphs, NEW en, NEW wi, GraphOK(en, wi), NEW a \in App, NEW s \in App \ {a},
           Has(en[a].tasks, Starting(s)), ~(RemoteExists(en[a], s) /\ graph.uri[s] < graph.uri[a])
    PROVE  /\ en[a].normal[s] = None /\ Joined(en, wi, s, a) /\ Coming(en, wi, s, a) /\ ~OnWire(wi, s, a)
           /\ en[a].state \in {"up", "closing", "draining"}
           /\ graph.uri[s] < graph.uri[a] => s \notin en[a].weak
<1> DEFINE e == en[a]
<1>1. s # a /\ Has(e.tasks, Starting(s))
  OBVIOUS
<1>2. Typed(a, e) /\ QueueOK(a, e)
  BY <1>1, EngineAt
<1>3. /\ HoldOK(en, wi, s, a) /\ SmallerOK(en, wi, a, s)
      /\ graph.uri[s] < graph.uri[a] \/ graph.uri[a] < graph.uri[s]
  BY <1>1, PairAt, GraphFacts
<1>4. Queued(en, s, a) /\ Coming(en, wi, s, a) /\ Joined(en, wi, s, a) /\ ~OnWire(wi, s, a)
  BY <1>1, <1>3 DEF Queued, Coming, Joined, HoldOK
<1>5. e.normal[s] # <<s, a>> /\ e.normal[s] \in {<<a, s>>, <<s, a>>, None}
  BY <1>1, <1>2, <1>3, <1>4 DEF HoldOK, Typed, RemotesOK
<1>6. e.state \in {"up", "closing", "draining"}
  <2>1. e.tasks # <<>>
    BY <1>1, HasNone
  <2>2. e.state \in {"none", "up", "closing", "draining", "gone"}
    BY <1>2 DEF Typed, EngineType
  <2> QED
    BY <1>2, <2>1, <2>2 DEF QueueOK
<1>7. e.normal[s] # <<a, s>>
  <2> SUFFICES ASSUME e.normal[s] = <<a, s>> PROVE FALSE
    OBVIOUS
  <2>1. RemoteExists(e, s)
    BY <1>1, ChannelFacts DEF RemoteExists
  <2>2. graph.uri[a] < graph.uri[s]
    BY <1>3, <2>1
  <2>3. Kept(en, wi, a, s)
    BY DEF Kept
  <2> QED
    BY <1>3, <1>4, <2>2, <2>3 DEF SmallerOK, Away
<1>8. graph.uri[s] < graph.uri[a] => s \notin e.weak
  BY DEF RemoteExists
<1> QED
  BY <1>4, <1>5, <1>6, <1>7, <1>8

LEMMA LinkPair ==
    ASSUME NEW en, NEW wi, NEW a, NEW s, NEW f, NEW en2, Links(en, wi, a, s, f, en2)
    PROVE  PairOK(en2, wi, a, s) /\ PairOK(en2, wi, s, a)
<1> DEFINE e == en[a]
<1>0. Change(en, wi, a, f, en2, wi) /\ GraphOK(en, wi) /\ a \in App /\ s \in App \ {a} /\ graph \in Graphs
  BY DEF Links, Change
<1>1. /\ en2[a] = f /\ en2[s] = en[s]
      /\ Owes(en2, wi, s, a) <=> Owes(en, wi, s, a)
      /\ <<a, s>> # None /\ <<s, a>> # None /\ <<a, s>> # <<s, a>> /\ s # None
  <2>1. /\ en2[a] = f /\ en2 \in [App -> EngineType] /\ Typed(a, en[a])
        /\ \A b \in App \ {a} : /\ en2[b] = en[b] /\ Skipped(en2, wi, b) = Skipped(en, wi, b)
                                /\ \A x : Owes(en2, wi, b, x) <=> Owes(en, wi, b, x)
                                /\ <<a, b>> \in Channels /\ <<b, a>> \in Channels
    BY ONLY <1>0, ChangeFacts
  <2> QED
    BY <1>0, <2>1, ChannelFacts
<1>2. /\ e.normal[s] = None /\ Joined(en, wi, s, a) /\ Coming(en, wi, s, a) /\ ~OnWire(wi, s, a)
      /\ e.state \in {"up", "closing", "draining"}
      /\ graph.uri[s] < graph.uri[a] => s \notin e.weak
  <2>1. Has(e.tasks, Starting(s)) /\ ~(RemoteExists(e, s) /\ graph.uri[s] < graph.uri[a])
    BY DEF Links
  <2> QED
    BY ONLY <1>0, <2>1, LinkFresh
<1>3. /\ WireOK(en, wi, a, s) /\ HoldOK(en, wi, a, s) /\ SmallerOK(en, wi, a, s) /\ AnswersOK(en, wi, a, s)
      /\ WireOK(en, wi, s, a) /\ HoldOK(en, wi, s, a) /\ SmallerOK(en, wi, s, a) /\ AnswersOK(en, wi, s, a)
  BY <1>0, PairAt
<1>4. /\ ~Has(f.inMsgs, s) /\ ~Has(f.tasks, Starting(s))
      /\ f.normal[s] = <<s, a>> /\ f.weak = e.weak
      /\ f.state = e.state \/ (e.state = "up" /\ f.state = "closing")
      /\ f.requester = e.requester /\ f.original \in {e.original, None}
      /\ f.state = "up" => f.original = e.original
      /\ f.original # None /\ Pending(f, s) => Pending(e, s)
      /\ Pending(f, s) => Pending(e, s) \/ e.state = "up"
  BY DEF Links
<1>5. /\ ~Queued(en2, s, a) /\ ~Coming(en2, wi, s, a) /\ Joined(en2, wi, s, a)
      /\ Queued(en2, a, s) <=> Queued(en, a, s)
      /\ Coming(en2, wi, a, s) <=> Coming(en, wi, a, s)
      /\ Joined(en2, wi, a, s) <=> Joined(en, wi, a, s)
      /\ Holds(en2, a, s) <=> Holds(en, a, s)
      /\ Holds(en2, s, a) <=> Holds(en, s, a)
      /\ Leaving(en2, s) <=> Leaving(en, s)
      /\ Leaving(en2, a) <=> Leaving(en, a)
  BY <1>1, <1>2, <1>4 DEF Queued, Coming, Joined, Holds, Leaving
<1>6. WireOK(en2, wi, s, a)
  BY <1>1, <1>2, <1>3, <1>5 DEF WireOK
<1>7. WireOK(en2, wi, a, s)
  BY <1>1, <1>2, <1>3, <1>4, <1>5 DEF WireOK
<1>8. HoldOK(en2, wi, s, a)
  <2>1. Once(f.inMsgs, s) /\ Once(f.tasks, Starting(s))
    BY <1>4 DEF Has, Once
  <2> QED
    BY <1>1, <1>2, <1>3, <1>4, <1>5, <2>1 DEF HoldOK
<1>9. HoldOK(en2, wi, a, s)
  BY <1>1, <1>2, <1>3, <1>4, <1>5 DEF HoldOK
<1>10. SmallerOK(en2, wi, s, a)
  <2> SUFFICES ASSUME graph.uri[s] < graph.uri[a] PROVE SmallerOK(en2, wi, s, a)
    BY DEF SmallerOK
  <2>1. f.state \in {"up", "closing"} => Away(en2, wi, a, s)
    BY <1>1, <1>2, <1>3, <1>4, <1>5 DEF Away, WireOK, HoldOK, Holds, Leaving
  <2>2. Kept(en2, wi, s, a) => Away(en2, wi, a, s)
    BY <1>1, <1>3, <1>4, <1>5 DEF SmallerOK, Kept, Away
  <2> QED
    BY <1>1, <1>4, <2>1, <2>2 DEF SmallerOK
<1>11. SmallerOK(en2, wi, a, s)
  <2> SUFFICES ASSUME graph.uri[a] < graph.uri[s] PROVE SmallerOK(en2, wi, a, s)
    BY DEF SmallerOK
  <2>1. ~Away(en, wi, s, a)
    BY <1>2 DEF Away
  <2> QED
    BY <1>1, <1>3, <1>4, <2>1 DEF SmallerOK, Kept
<1>12. AnswersOK(en2, wi, a, s)
  BY <1>1, <1>2, <1>3, <1>4, <1>5 DEF AnswersOK
<1>13. AnswersOK(en2, wi, s, a)
  <2> SUFFICES ASSUME en[s].state \in {"none", "up"} PROVE AnswersOK(en2, wi, s, a)
    BY <1>1 DEF AnswersOK
  <2>1. en[a].requester # s /\ en[a].original # s /\ ~Answer(wi, s, a) /\ a \in en[s].weak
    BY <1>2, <1>3 DEF AnswersOK
  <2>2. ~Owes(en2, wi, a, s) /\ f.requester # s /\ f.original # s
    BY <1>1, <1>4, <2>1 DEF Owes
  <2> QED
    BY <1>1, <1>3, <1>5, <2>1, <2>2 DEF AnswersOK
<1> QED
  BY <1>6, <1>7, <1>8, <1>9, <1>10, <1>11, <1>12, <1>13 DEF PairOK

LEMMA LinkChange ==
    ASSUME NEW en, NEW wi, NEW a, NEW s, NEW f, NEW en2, Links(en, wi, a, s, f, en2),
           QueueOK(a, f), ConnectingOK(f), SkippedOK(en2, wi, a),
           \A b \in App \ {a, s} : Quiet(en, wi, a, f, wi, b) /\ Silent(en, wi, a, f, en2, wi, b)
    PROVE  GraphOK(en2, wi)
<1>1. Change(en, wi, a, f, en2, wi)
  BY DEF Links
<1>2. ASSUME NEW b \in App \ {a}
      PROVE  PairOK(en2, wi, a, b) /\ PairOK(en2, wi, b, a)
  <2>1. CASE b = s
    BY <2>1, LinkPair
  <2>2. CASE b # s
    <3>1. Quiet(en, wi, a, f, wi, b) /\ Silent(en, wi, a, f, en2, wi, b)
      BY <2>2
    <3> QED
      BY ONLY <1>1, <3>1, b \in App \ {a}, MonoPair
  <2> QED
    BY <2>1, <2>2
<1> QED
  BY <1>1, <1>2, ChangeOK

\* a takes the command of s, and nothing more.
Linking(en, wi, a, s, f, en2) ==
  /\ graph \in Graphs /\ GraphOK(en, wi) /\ a \in App /\ s \in App
  /\ NextTask(en[a]).run = "start_graph" /\ s = NextTask(en[a]).on
  /\ ~(RemoteExists(en[a], s) /\ graph.uri[s] < graph.uri[a])
  /\ f = [Ran(en[a]) EXCEPT !.normal[s] = <<s, a>>] /\ en2 = [en EXCEPT ![a] = f]

LEMMA LinkOK ==
    ASSUME NEW en, NEW wi, NEW a, NEW s, NEW f, NEW en2, Linking(en, wi, a, s, f, en2),
           en[a].state = "up" => \/ en[a].original = None
                                 \/ \A b \in Neighbours(a) : RemoteExists(f, b)
    PROVE  GraphOK(en2, wi) /\ Due(en2, wi, a, s)
<1> USE DEF Linking
<1> DEFINE e == en[a]
           r == Ran(e)
<1>1. /\ e.tasks # <<>> /\ s \in App \ {a} /\ s \in Sources \ {a} /\ NextTask(e) = Starting(s)
      /\ Queued(en, s, a) /\ Has(e.tasks, Starting(s))
      /\ ~Has(e.inMsgs, s) /\ ~Has(r.tasks, Starting(s))
  BY StartTaken, ChannelFacts
<1>2. Typed(a, e) /\ QueueOK(a, e) /\ ConnectingOK(e) /\ SkippedOK(en, wi, a) /\ wi \in [Channels -> WireType]
  BY EngineAt
<1>3. /\ Typed(a, r) /\ QueueOK(a, r) /\ e.state \notin {"none", "gone"}
      /\ r.out = e.out /\ r.oks = e.oks /\ r.context = e.context
      /\ r.requester = e.requester /\ r.state = e.state /\ r.made = e.made
      /\ r.original = e.original /\ r.weak = e.weak /\ r.normal = e.normal
      /\ r.inMsgs = e.inMsgs
      /\ \A m : Has(e.tasks, m) <=> NextTask(e) = m \/ Has(r.tasks, m)
      /\ \A m : Once(e.tasks, m) => Once(r.tasks, m)
  BY <1>1, <1>2, RanOK, Zenon
<1>4. \A b \in App \ {a} : Quiet(en, wi, a, r, wi, b)
  BY <1>1, RanQuiet
<1> HIDE DEF r
<1>5. /\ f.out = r.out /\ f.oks = r.oks /\ f.context = r.context
      /\ f.requester = r.requester /\ f.state = r.state /\ f.made = r.made
      /\ f.original = r.original /\ f.weak = r.weak /\ f.inMsgs = r.inMsgs /\ f.tasks = r.tasks
      /\ f.normal[s] = <<s, a>> /\ f.normal \in [App -> Channels \cup {None}]
      /\ \A b \in App : b # s => f.normal[b] = r.normal[b]
      /\ f \in EngineType
  BY <1>1, <1>3, ChannelFacts, Zenon DEF Typed, EngineType, r
<1>6. Typed(a, f)
  BY <1>1, <1>3, <1>5, Zenon DEF Typed, RemotesOK, Pending
<1>7. Change(en, wi, a, f, en2, wi)
  BY <1>2, <1>6 DEF Change
<1>8. en2[a] = f
  BY ONLY <1>7, ChangeFacts, SMTT(30)
<1>9. \A b : Pending(f, b) <=> Pending(e, b)
  BY <1>1, <1>3, <1>5, TaskKinds, Zenon DEF Pending
<1>10. Links(en, wi, a, s, f, en2)
  BY <1>1, <1>3, <1>5, <1>7, <1>9, Zenon DEF Links
<1>11. QueueOK(a, f)
  <2>1. <<s, a>> # <<a, s>>
    BY <1>1
  <2>2. \A b : Pending(f, b) <=> Pending(r, b)
    BY <1>5, SMTT(30) DEF Pending
  <2> QED
    BY <1>3, <1>5, <2>1, <2>2 DEF QueueOK
<1>12. ConnectingOK(f)
  <2>1. ASSUME NEW b \in App, NEW d \in App, f.state = "up", Pending(f, b), Pending(f, d),
               f.normal[b] # None, b # d
        PROVE  FALSE
    <3>1. Pending(e, b) /\ Pending(e, d) /\ e.state = "up" /\ e.original # None
      BY <1>2, <1>3, <1>5, <1>9, <2>1 DEF ConnectingOK
    <3>2. b \in Neighbours(a) /\ d \in Neighbours(a) /\ b \notin e.weak /\ d \notin e.weak
      BY <1>2, <3>1 DEF ConnectingOK, Typed, RemotesOK
    <3>3. f.normal[d] # None
      BY <1>3, <1>5, <3>1, <3>2 DEF RemoteExists
    <3>4. e.normal[b] # None \/ e.normal[d] # None
      BY <1>3, <1>5, <2>1, <3>3
    <3> QED
      BY <1>2, <2>1, <3>1, <3>4 DEF ConnectingOK
  <2>2. \A b : Once(e.tasks, Creating(b)) => Once(f.tasks, Creating(b))
    BY <1>3, <1>5
  <2> QED
    BY <1>2, <1>3, <1>5, <1>9, <2>1, <2>2 DEF ConnectingOK
<1>13. Skipped(en2, wi, a) = Skipped(en, wi, a)
  BY <1>3, <1>5, <1>8, <1>9 DEF Skipped
<1>14. SkippedOK(en2, wi, a)
  BY <1>2, <1>3, <1>5, <1>8, <1>9, <1>13, ZenonT(40) DEF SkippedOK
<1>15. ASSUME NEW b \in App \ {a, s}
       PROVE  Quiet(en, wi, a, f, wi, b) /\ Silent(en, wi, a, f, en2, wi, b)
  <2>1. Quiet(en, wi, a, f, wi, b)
    BY <1>4, <1>5 DEF Quiet, Pending
  <2>2. Silent(en, wi, a, f, en2, wi, b)
    BY <1>3, <1>5, <1>8, <1>13 DEF Silent, Owes
  <2> QED
    BY <2>1, <2>2
<1>16. GraphOK(en2, wi)
  BY ONLY <1>10, <1>11, <1>12, <1>14, <1>15, LinkChange, ZenonT(40)
<1>17. Took(en, wi, a, s, f, en2)
  BY <1>1, <1>3, <1>5, <1>7 DEF Took
<1>18. Due(en2, wi, a, s)
  BY ONLY <1>17, TookDue
<1> QED
  BY <1>16, <1>18

\* What is left of g, that has nothing to close with in its queue, when it gives up.
LEMMA GivenUpForm ==
    ASSUME NEW a \in App, NEW g, Typed(a, g), g.state = "up", g.made # 0, ~Has(g.tasks, CloseTask),
           NEW f, f = GivenUp(g)
    PROVE  /\ Typed(a, f) /\ QueueOK(a, f) /\ ConnectingOK(f)
           /\ f.state = "closing" /\ f.original = None /\ f.out = g.out /\ f.oks = g.oks
           /\ f.requester = g.requester /\ f.weak = g.weak /\ f.normal = g.normal /\ f.inMsgs = g.inMsgs
           /\ f.context = g.context /\ f.made = g.made
           /\ \A m : Has(f.tasks, m) <=> Has(g.tasks, m) \/ m = CloseTask
           /\ \A m : Once(g.tasks, m) => Once(f.tasks, m)
<1> DEFINE t == Append(g.tasks, CloseTask)
<1>1. g \in EngineType /\ g.tasks \in Seq(Tasks) /\ CloseTask \in Tasks
  BY DEF Typed, EngineType, Tasks
<1>2. /\ Typed(a, f)
      /\ f = [g EXCEPT !.original = None, !.state = "closing", !.tasks = Append(g.tasks, CloseTask)]
  BY ClosingTyped
<1>3. /\ f.state = "closing" /\ f.original = None /\ f.tasks = t /\ f.out = g.out /\ f.oks = g.oks
      /\ f.requester = g.requester /\ f.weak = g.weak /\ f.normal = g.normal /\ f.inMsgs = g.inMsgs
      /\ f.context = g.context /\ f.made = g.made
  BY <1>1, <1>2 DEF EngineType
<1>4. /\ \A m : Has(t, m) <=> Has(g.tasks, m) \/ CloseTask = m
      /\ \A m : Once(g.tasks, m) /\ (CloseTask = m => ~Has(g.tasks, m)) => Once(t, m)
  BY <1>1, HasAppend
<1>5. CreatedFirst(t)
  <2>1. CreatedFirst(g.tasks)
    BY DEF CreatedFirst, Has
  <2> QED
    BY <1>1, <2>1, EndsAppend
<1> HIDE DEF t
<1>6. Once(g.tasks, CloseTask)
  BY DEF Once, Has
<1>7. QueueOK(a, f)
  BY <1>3, <1>4, <1>5, <1>6 DEF QueueOK
<1>8. ConnectingOK(f)
  BY <1>3 DEF ConnectingOK
<1> QED
  BY <1>2, <1>3, <1>4, <1>7, <1>8

\* a takes the command of s, begins to connect, and gives up at once.
ConnectsBadly(en, wi, a, s, l, o, q, f, en2) ==
  /\ graph \in Graphs /\ GraphOK(en, wi) /\ a \in App /\ s \in Sources
  /\ NextTask(en[a]).run = "start_graph" /\ s = NextTask(en[a]).on /\ en[a].state = "up"
  /\ s # Client => ~(RemoteExists(en[a], s) /\ graph.uri[s] < graph.uri[a])
  /\ Typed(a, l)
  /\ l = IF s = Client THEN Ran(en[a]) ELSE [Ran(en[a]) EXCEPT !.normal[s] = <<s, a>>]
  /\ Connects(a, l, q) /\ l.out \subseteq o /\ o \subseteq App \ {a}
  /\ f = GivenUp(Asked(l, o, q)) /\ en2 = [en EXCEPT ![a] = f]

LEMMA BadConnectOK ==
    ASSUME NEW en, NEW wi, NEW a, NEW s, NEW l, NEW o, NEW q, NEW f, NEW en2,
           ConnectsBadly(en, wi, a, s, l, o, q, f, en2)
    PROVE  GraphOK(en2, wi) /\ f.normal = l.normal
<1> USE DEF ConnectsBadly
<1> DEFINE e == en[a]
           r == Ran(e)
           g == Asked(l, o, q)
<1>1. /\ e.tasks # <<>> /\ s \in Sources \ {a} /\ NextTask(e) = Starting(s)
      /\ s \in App => /\ Has(e.tasks, Starting(s))
                      /\ ~Has(e.inMsgs, s) /\ ~Has(r.tasks, Starting(s))
      /\ s # Client => s \in App
  BY StartTaken DEF Sources
<1>2. Typed(a, e) /\ QueueOK(a, e) /\ wi \in [Channels -> WireType]
  BY EngineAt
<1>3. /\ Typed(a, r) /\ QueueOK(a, r)
      /\ r.requester = e.requester /\ r.state = e.state /\ r.made = e.made
      /\ r.weak = e.weak /\ r.normal = e.normal /\ r.inMsgs = e.inMsgs
      /\ \A m : Has(e.tasks, m) <=> NextTask(e) = m \/ Has(r.tasks, m)
  BY <1>1, <1>2, RanOK
<1>4. \A b \in App \ {a} : Quiet(en, wi, a, r, wi, b)
  BY <1>1, RanQuiet
<1>5. /\ l.requester = r.requester /\ l.state = r.state /\ l.made = r.made
      /\ l.weak = r.weak /\ l.inMsgs = r.inMsgs /\ l.tasks = r.tasks
      /\ \A b \in App : b # s => l.normal[b] = r.normal[b]
      /\ s # Client => l.normal[s] = <<s, a>>
  <2>1. r \in EngineType
    BY <1>3 DEF Typed
  <2> HIDE DEF r
  <2>2. l = IF s = Client THEN r ELSE [r EXCEPT !.normal[s] = <<s, a>>]
    BY DEF r
  <2>3. CASE s = Client
    BY <2>2, <2>3
  <2>4. CASE s # Client
    <3>1. l = [r EXCEPT !.normal[s] = <<s, a>>] /\ s \in App
      BY <1>1, <2>2, <2>4
    <3> QED
      BY <2>1, <2>4, <3>1 DEF EngineType
  <2> QED
    BY <2>3, <2>4
<1>6. /\ Typed(a, g) /\ g.tasks = l.tasks \o q
      /\ \A m : Has(g.tasks, m) <=> Has(r.tasks, m) \/ Has(q, m)
  <2>1. /\ Typed(a, g) /\ g.tasks = l.tasks \o q
        /\ l.tasks \o q \in Seq(Tasks)
        /\ \A m : Has(l.tasks \o q, m) <=> Has(l.tasks, m) \/ Has(q, m)
    <3>1. Connects(a, l, q) /\ Typed(a, l) /\ l.out \subseteq o /\ o \subseteq App \ {a}
      OBVIOUS
    <3> QED
      BY ONLY graph \in Graphs, a \in App, <3>1, AskedTyped
  <2> HIDE DEF g, r
  <2> QED
    BY <1>5, <2>1
<1>7. /\ g.requester = l.requester /\ g.state = l.state /\ g.made = l.made
      /\ g.weak = l.weak /\ g.inMsgs = l.inMsgs /\ g.normal = l.normal
  BY DEF Typed, EngineType, Asked
<1>8. q \in Seq(Tasks) /\ ~Has(q, CloseTask) /\ \A b : ~Has(q, Starting(b))
  BY RunsOnly DEF Connects
<1>9. g.made # 0 /\ g.state = "up" /\ ~Has(g.tasks, CloseTask)
  BY <1>3, <1>5, <1>6, <1>7, <1>8, Zenon DEF QueueOK
<1>10. \A b \in App \ {a} : Once(r.tasks, Starting(b)) => Once(g.tasks, Starting(b))
  <2> HIDE DEF g, r
  <2>1. \A b : Once(q, Starting(b))
    BY <1>8 DEF Has, Once
  <2>2. r.tasks \in Seq(Tasks)
    BY <1>3 DEF Typed, EngineType
  <2>3. \A m : Once(r.tasks, m) /\ Once(q, m) /\ ~(Has(r.tasks, m) /\ Has(q, m)) => Once(r.tasks \o q, m)
    BY <1>8, <2>2, HasConcat
  <2> QED
    BY <1>5, <1>6, <1>8, <2>1, <2>3
<1> HIDE DEF r, g
<1>11. /\ Typed(a, f) /\ QueueOK(a, f) /\ ConnectingOK(f)
       /\ f.state = "closing" /\ f.original = None
       /\ f.requester = g.requester /\ f.weak = g.weak /\ f.normal = g.normal /\ f.inMsgs = g.inMsgs
       /\ \A m : Has(f.tasks, m) <=> Has(g.tasks, m) \/ m = CloseTask
       /\ \A m : Once(g.tasks, m) => Once(f.tasks, m)
  <2>1. f = GivenUp(g)
    BY DEF g
  <2>2. Typed(a, g) /\ g.state = "up" /\ g.made # 0 /\ ~Has(g.tasks, CloseTask)
    BY <1>6, <1>9, Zenon
  <2> QED
    BY ONLY <2>1, <2>2, a \in App, GivenUpForm
<1>12. /\ f.requester = e.requester /\ f.weak = e.weak /\ f.inMsgs = e.inMsgs
       /\ \A b \in App : b # s => f.normal[b] = e.normal[b]
       /\ s # Client => f.normal[s] = <<s, a>>
       /\ \A b : Has(f.tasks, Starting(b)) <=> Has(r.tasks, Starting(b))
       /\ \A b \in App \ {a} : Once(r.tasks, Starting(b)) => Once(f.tasks, Starting(b))
  <2>1. /\ f.requester = e.requester /\ f.weak = e.weak /\ f.inMsgs = e.inMsgs
        /\ \A b \in App : b # s => f.normal[b] = e.normal[b]
        /\ s # Client => f.normal[s] = <<s, a>>
    <3>1. f.normal = l.normal /\ r.normal = e.normal
      BY <1>3, <1>7, <1>11
    <3>2. f.requester = e.requester /\ f.weak = e.weak /\ f.inMsgs = e.inMsgs
      BY ONLY <1>3, <1>5, <1>7, <1>11
    <3> QED
      BY <1>5, <3>1, <3>2, Zenon
  <2>2. ASSUME NEW b
        PROVE  Has(f.tasks, Starting(b)) <=> Has(r.tasks, Starting(b))
    BY <1>6, <1>8, <1>11, TaskKinds
  <2>3. \A b \in App \ {a} : Once(r.tasks, Starting(b)) => Once(f.tasks, Starting(b))
    BY <1>10, <1>11
  <2> QED
    BY <2>1, <2>2, <2>3, Zenon
<1>13. Change(en, wi, a, f, en2, wi)
  BY <1>2, <1>11 DEF Change
<1>14. en2[a] = f
  BY ONLY <1>13, ChangeFacts
<1>15. SkippedOK(en2, wi, a)
  BY <1>11, <1>14 DEF SkippedOK
<1>16. ASSUME NEW b \in App \ {a}, b # s
       PROVE  Quiet(en, wi, a, f, wi, b) /\ Silent(en, wi, a, f, en2, wi, b)
  <2>1. Quiet(en, wi, a, f, wi, b)
    <3>1. Quiet(en, wi, a, r, wi, b)
      BY <1>4, <1>16, Zenon
    <3>2. /\ f.requester = e.requester /\ f.weak = e.weak /\ f.inMsgs = r.inMsgs
          /\ f.normal[b] = e.normal[b] /\ f.state = "closing" /\ f.original = None
          /\ Has(f.tasks, Starting(b)) <=> Has(r.tasks, Starting(b))
          /\ Once(r.tasks, Starting(b)) => Once(f.tasks, Starting(b))
      BY <1>3, <1>11, <1>12, <1>16, Zenon
    <3> QED
      BY <3>1, <3>2 DEF Quiet
  <2>2. Silent(en, wi, a, f, en2, wi, b)
    BY <1>11, <1>12, ChannelFacts, Zenon DEF Silent
  <2> QED
    BY <2>1, <2>2
<1>17. CASE s = Client
  <2>1. \A b \in App \ {a} : Quiet(en, wi, a, f, wi, b) /\ Silent(en, wi, a, f, en2, wi, b)
    BY <1>16, <1>17, ChannelFacts
  <2> QED
    BY <1>7, <1>11, <1>13, <1>15, <2>1, MonoChange
<1>18. CASE s # Client
  <2>1. Links(en, wi, a, s, f, en2)
    BY <1>1, <1>11, <1>12, <1>13, <1>18, Zenon DEF Links
  <2>2. \A b \in App \ {a, s} : Quiet(en, wi, a, f, wi, b) /\ Silent(en, wi, a, f, en2, wi, b)
    BY <1>16
  <2>3. GraphOK(en2, wi)
    BY ONLY <1>11, <1>15, <2>1, <2>2, LinkChange
  <2> QED
    BY <1>7, <1>11, <2>3, Zenon
<1> QED
  BY <1>17, <1>18

\* a, that waits for nobody, connects to its neighbours for s.
ConnectsFor(en, wi, a, s, o, q) ==
  LET e == en[a] IN
  /\ graph \in Graphs /\ GraphOK(en, wi) /\ a \in App /\ s \in Sources \ {a}
  /\ e.state = "up" /\ e.original = None /\ Due(en, wi, a, s)
  /\ Connects(a, e, q) /\ e.out \subseteq o /\ o \subseteq App \ {a}
  /\ \A b : Has(q, Creating(b)) <=> b \in Neighbours(a) /\ ~RemoteExists(e, b)
  /\ \A b : Once(q, Creating(b))
  /\ o = e.out \cup {b \in App : Has(q, Creating(b))}

LEMMA ConnectGoodOK ==
    ASSUME NEW en, NEW wi, NEW a, NEW s, NEW o, NEW q, ConnectsFor(en, wi, a, s, o, q),
           NEW f, f = [Asked(en[a], o, q) EXCEPT !.original = s], NEW en2, en2 = [en EXCEPT ![a] = f]
    PROVE  GraphOK(en2, wi)
<1> USE DEF ConnectsFor
<1> DEFINE e == en[a]
           g == Asked(e, o, q)
<1>1. Typed(a, e) /\ QueueOK(a, e) /\ ConnectingOK(e) /\ wi \in [Channels -> WireType]
  BY EngineAt
<1>2. e.out = {} /\ e.oks = {} /\ e.weak = {} /\ \A b \in App : ~Pending(e, b)
  BY <1>1 DEF ConnectingOK, Typed, RemotesOK
<1>3. /\ Typed(a, g) /\ g.tasks = e.tasks \o q
      /\ \A m : Has(g.tasks, m) <=> Has(e.tasks, m) \/ Has(q, m)
  <2>1. /\ Typed(a, g) /\ g.tasks = e.tasks \o q
        /\ e.tasks \o q \in Seq(Tasks)
        /\ \A m : Has(e.tasks \o q, m) <=> Has(e.tasks, m) \/ Has(q, m)
    <3>1. Connects(a, e, q) /\ Typed(a, e) /\ e.out \subseteq o /\ o \subseteq App \ {a} /\ a \in App
      BY <1>1
    <3> QED
      BY ONLY graph \in Graphs, <3>1, AskedTyped
  <2> HIDE DEF g
  <2> QED
    BY <2>1
<1>4. /\ g.requester = e.requester /\ g.state = e.state /\ g.made = e.made /\ g.context = e.context
      /\ g.weak = e.weak /\ g.inMsgs = e.inMsgs /\ g.normal = e.normal /\ g.oks = e.oks /\ g.out = o
  BY <1>1 DEF Typed, EngineType, Asked
<1> HIDE DEF g
<1>5. /\ f.requester = e.requester /\ f.state = "up" /\ f.made = e.made /\ f.context = e.context
      /\ f.weak = {} /\ f.inMsgs = e.inMsgs /\ f.normal = e.normal /\ f.oks = {} /\ f.out = o
      /\ f.original = s /\ f.tasks = g.tasks /\ f \in EngineType
  <2>1. f = [g EXCEPT !.original = s] /\ g \in EngineType
    BY <1>3 DEF g, Typed
  <2> QED
    BY <1>2, <1>4, <2>1 DEF EngineType
<1>6. Typed(a, f)
  <2>1. f.normal = g.normal /\ f.out = g.out /\ f.oks = g.oks /\ f.weak = g.weak /\ f.inMsgs = g.inMsgs
        /\ f.original # a /\ f.requester = g.requester
    BY <1>2, <1>4, <1>5
  <2> QED
    BY <1>3, <1>5, <2>1 DEF Typed, RemotesOK, Pending
<1>7. q \in Seq(Tasks) /\ ~Has(q, CloseTask) /\ \A b : ~Has(q, Starting(b))
  BY RunsOnly DEF Connects
<1>8. e.tasks \in Seq(Tasks) /\ ~Has(e.tasks, CloseTask)
  BY <1>1 DEF Typed, EngineType, QueueOK
<1>9. \A m : Once(e.tasks, m) /\ Once(q, m) /\ ~(Has(e.tasks, m) /\ Has(q, m)) => Once(f.tasks, m)
  <2> HIDE DEF e
  <2>1. \A m : Once(e.tasks, m) /\ Once(q, m) /\ ~(Has(e.tasks, m) /\ Has(q, m)) => Once(e.tasks \o q, m)
    BY <1>7, <1>8, HasConcat
  <2> QED
    BY <1>3, <1>5, <2>1
<1>10. \A b \in App : Pending(f, b) <=> Has(q, Creating(b))
  BY <1>2, <1>3, <1>5 DEF Pending
<1>11. QueueOK(a, f)
  <2>1. CreatedFirst(f.tasks)
    <3> HIDE DEF e
    <3>1. CreatedFirst(e.tasks \o q)
      BY <1>7, <1>8, EndsConcat
    <3> QED
      BY <1>3, <1>5, <3>1
  <2>2. ~Has(f.tasks, CloseTask) /\ Once(f.tasks, CloseTask)
    <3>1. ~Has(f.tasks, CloseTask)
      BY <1>3, <1>5, <1>7, <1>8
    <3> QED
      BY <3>1 DEF Has, Once
  <2> QED
    BY <1>1, <1>5, <2>1, <2>2 DEF QueueOK
<1>12. ConnectingOK(f)
  <2>1. f.original # None
    BY <1>5, ChannelFacts
  <2>2. \A b \in App : Once(f.tasks, Creating(b))
    <3>1. \A b \in App : ~Has(e.tasks, Creating(b)) /\ Once(e.tasks, Creating(b))
      BY <1>2 DEF Pending, Has, Once
    <3> QED
      BY <1>9, <3>1
  <2>3. \A b \in App : Pending(f, b) => b \in f.out \ f.oks
    BY <1>5, <1>10
  <2>4. \A b \in App : Pending(f, b) => f.normal[b] = None
    BY <1>5, <1>10 DEF RemoteExists
  <2>5. f.context = "starting" => f.requester # None
    BY <1>1, <1>5 DEF ConnectingOK
  <2> QED
    BY <1>5, <2>1, <2>2, <2>3, <2>4, <2>5 DEF ConnectingOK
<1>13. Change(en, wi, a, f, en2, wi)
  BY <1>1, <1>6 DEF Change
<1>14. en2[a] = f
  BY ONLY <1>13, ChangeFacts
<1>15. Skipped(en2, wi, a) = {}
  BY <1>2, <1>5, <1>10, <1>14 DEF Skipped
<1>16. SkippedOK(en2, wi, a)
  BY <1>15 DEF SkippedOK
<1>17. ASSUME NEW b \in App \ {a}
       PROVE  Quiet(en, wi, a, f, wi, b)
  <2>1. WireOK(en, wi, a, b) /\ HoldOK(en, wi, b, a)
    BY PairAt
  <2>2. Has(f.tasks, Starting(b)) <=> Has(e.tasks, Starting(b))
    BY <1>3, <1>5, <1>7
  <2>3. Once(f.tasks, Starting(b))
    <3>1. Once(q, Starting(b))
      BY <1>7 DEF Has, Once
    <3> QED
      BY <1>7, <1>9, <2>1, <3>1 DEF HoldOK
  <2>4. wi[<<a, b>>].st = "none"
    BY <2>1 DEF WireOK
  <2> QED
    BY <1>2, <1>5, <2>1, <2>2, <2>3, <2>4 DEF Quiet, HoldOK
<1>18. ASSUME NEW b \in App \ {a}
       PROVE  PairOK(en2, wi, a, b) /\ PairOK(en2, wi, b, a)
  <2>1. CASE b # s
    <3>1. Silent(en, wi, a, f, en2, wi, b)
      BY <1>5, <1>14, <2>1 DEF Silent, Owes
    <3> QED
      BY <1>13, <1>17, <3>1, MonoPair
  <2>2. CASE b = s
    <3>1. Quiet(en, wi, a, f, wi, b)
      BY <1>17
    <3>2. /\ WireOK(en2, wi, a, b) /\ HoldOK(en2, wi, a, b) /\ SmallerOK(en2, wi, a, b)
          /\ WireOK(en2, wi, b, a) /\ HoldOK(en2, wi, b, a) /\ SmallerOK(en2, wi, b, a)
          /\ AnswersOK(en2, wi, a, b)
      BY ONLY <1>13, <3>1, b \in App \ {a}, MonoHold
    <3>3. /\ Coming(en2, wi, b, a) => Coming(en, wi, b, a)
          /\ en2[a] = f /\ en2[b] = en[b]
      BY ONLY <1>13, b \in App \ {a}, <3>1, QuietAtoms
    <3>4. AnswersOK(en, wi, b, a)
      BY PairAt
    <3>5. AnswersOK(en2, wi, b, a)
      BY <1>5, <2>2, <3>3, <3>4 DEF AnswersOK, Due
    <3> QED
      BY <3>2, <3>5 DEF PairOK
  <2> QED
    BY <2>1, <2>2
<1> QED
  BY ONLY <1>11, <1>12, <1>13, <1>16, <1>18, ChangeOK

\* The command of s is taken, and it is no duplicate.
Taken(a, s) ==
  /\ TypeInv /\ GraphOK(engine, wire) /\ a \in App
  /\ NextTask(engine[a]).run = "start_graph" /\ s = NextTask(engine[a]).on
  /\ ~(s # Client /\ Duplicated(a, s))

LEMMA TakenFacts ==
    ASSUME NEW a, NEW s, Taken(a, s)
    PROVE  /\ graph \in Graphs /\ a \in App /\ s \in Sources \ {a} /\ engine[a].tasks # <<>>
           /\ Typed(a, Linked(a, s)) /\ Linked(a, s) \in EngineType
           /\ Linked(a, s).state = engine[a].state /\ Linked(a, s).original = engine[a].original
           /\ Linked(a, s).context = engine[a].context /\ Linked(a, s).out = engine[a].out
           /\ Linked(a, s) = IF s = Client THEN Ran(engine[a])
                             ELSE [Ran(engine[a]) EXCEPT !.normal[s] = <<s, a>>]
           /\ s # Client =>
                /\ s \in App /\ engine[a].normal[s] = None /\ Linked(a, s).normal[s] = <<s, a>>
                /\ ~(RemoteExists(engine[a], s) /\ graph.uri[s] < graph.uri[a])
<1> USE DEF Taken
<1>1. /\ engine[a].tasks # <<>> /\ s \in Sources \ {a}
      /\ s \in App => Has(engine[a].tasks, Starting(s))
  BY StartTaken
<1>2. graph \in Graphs /\ Typed(a, engine[a]) /\ QueueOK(a, engine[a])
  BY EngineAt DEF TypeInv
<1>3. /\ Typed(a, Linked(a, s)) /\ Linked(a, s) \in EngineType
      /\ s = Client => Linked(a, s) = Ran(engine[a])
      /\ s # Client => /\ s \in App /\ <<s, a>> \in Channels
                       /\ Linked(a, s) = [Ran(engine[a]) EXCEPT !.normal[s] = <<s, a>>]
  BY <1>1, LinkedTyped DEF Typed
<1>4. /\ Typed(a, Ran(engine[a])) /\ Ran(engine[a]).state = engine[a].state
      /\ Ran(engine[a]).original = engine[a].original /\ Ran(engine[a]).context = engine[a].context
      /\ Ran(engine[a]).out = engine[a].out
  BY <1>1, <1>2, RanOK
<1>5. /\ Linked(a, s).state = engine[a].state /\ Linked(a, s).original = engine[a].original
      /\ Linked(a, s).context = engine[a].context /\ Linked(a, s).out = engine[a].out
  <2>1. CASE s = Client
    BY <1>3, <1>4, <2>1
  <2>2. CASE s # Client
    BY <1>3, <1>4, <2>2 DEF Typed, EngineType
  <2> QED
    BY <2>1, <2>2
<1>6. s # Client => Linked(a, s).normal[s] = <<s, a>>
  BY <1>3, <1>4 DEF Typed, EngineType
<1>7. s # Client => ~(RemoteExists(engine[a], s) /\ graph.uri[s] < graph.uri[a])
  BY DEF Duplicated
<1>8. s # Client => engine[a].normal[s] = None
  BY <1>1, <1>2, <1>3, <1>7, LinkFresh
<1> QED
  BY <1>1, <1>2, <1>3, <1>5, <1>6, <1>7, <1>8

LEMMA TakenOK ==
    ASSUME NEW a, NEW s, Taken(a, s), NEW l, l = Linked(a, s), NEW en, en = [engine EXCEPT ![a] = l],
           engine[a].state = "up" => \/ engine[a].original = None
                                     \/ \A b \in Neighbours(a) : RemoteExists(l, b)
    PROVE  GraphOK(en, wire) /\ Due(en, wire, a, s) /\ en[a] = l /\ en \in [App -> EngineType]
<1>1. /\ graph \in Graphs /\ a \in App /\ s \in Sources \ {a} /\ engine[a].tasks # <<>>
      /\ Typed(a, l) /\ l \in EngineType
      /\ l = IF s = Client THEN Ran(engine[a]) ELSE [Ran(engine[a]) EXCEPT !.normal[s] = <<s, a>>]
      /\ s # Client => /\ s \in App
                       /\ ~(RemoteExists(engine[a], s) /\ graph.uri[s] < graph.uri[a])
  BY TakenFacts
<1>2. GraphOK(engine, wire) /\ engine \in [App -> EngineType] /\ wire \in [Channels -> WireType]
  BY EngineAt, <1>1 DEF Taken
<1>3. en[a] = l /\ en \in [App -> EngineType]
  BY <1>1, <1>2
<1>4. NextTask(engine[a]).run = "start_graph" /\ s = NextTask(engine[a]).on
  BY DEF Taken
<1>5. CASE s = Client
  <2>1. Change(engine, wire, a, Ran(engine[a]), en, wire)
    BY <1>1, <1>2, <1>5 DEF Change
  <2>2. GraphOK(en, wire)
    BY ONLY <1>1, <1>4, <2>1, RanStart
  <2>3. Due(en, wire, a, s)
    BY <1>5, ChannelFacts DEF Due
  <2> QED
    BY <1>3, <2>2, <2>3
<1>6. CASE s # Client
  <2>1. Linking(engine, wire, a, s, l, en)
    BY <1>1, <1>2, <1>4, <1>6 DEF Linking
  <2>2. engine[a].state = "up" => \/ engine[a].original = None
                                  \/ \A b \in Neighbours(a) : RemoteExists(l, b)
    OBVIOUS
  <2>3. GraphOK(en, wire) /\ Due(en, wire, a, s)
    BY ONLY <2>1, <2>2, LinkOK
  <2> QED
    BY <1>3, <2>3
<1> QED
  BY <1>5, <1>6

LEMMA EnableOK ==
    ASSUME NEW a, NEW s, Taken(a, s), engine[a].state = "up", NewApps(a, Linked(a, s)) = <<>>,
           Enable(a, Linked(a, s), s)
    PROVE  GraphOK(engine', wire')
<1> DEFINE l == Linked(a, s)
           en == [engine EXCEPT ![a] = l]
           f == [l EXCEPT !.context = "starting", !.requester = s]
<1>1. /\ graph \in Graphs /\ a \in App /\ s \in Sources \ {a} /\ Typed(a, l) /\ l \in EngineType
      /\ l.state = "up"
  BY TakenFacts
<1>2. \A b \in Neighbours(a) : RemoteExists(l, b)
  BY <1>1, NewAppsOf, HasNone
<1>3. GraphOK(en, wire) /\ Due(en, wire, a, s) /\ en[a] = l /\ en \in [App -> EngineType]
  BY <1>2, TakenOK
<1>4. wire \in [Channels -> WireType] /\ engine \in [App -> EngineType]
  BY EngineAt, <1>1 DEF Taken
<1>5. l.context = "none" => engine' = [engine EXCEPT ![a] = f] /\ wire' = wire
  BY DEF Enable
<1>6. l.context # "none" => engine' = en /\ wire' = Answered(wire, a, l, s, "ok")
  BY DEF Enable
<1>7. CASE l.context = "none"
  <2> HIDE DEF l
  <2>1. /\ f.context = "starting" /\ f.requester = s /\ f.out = l.out /\ f.oks = l.oks /\ Alike(l, f)
        /\ f \in EngineType /\ f.inMsgs = l.inMsgs /\ f.tasks = l.tasks
    BY <1>1 DEF EngineType, Alike
  <2> HIDE DEF f
  <2>2. Typed(a, f)
    BY <1>1, <2>1 DEF Typed, RemotesOK, Pending, Alike
  <2>3. engine' = [en EXCEPT ![a] = f]
    BY <1>4, <1>5, <1>7 DEF l
  <2> HIDE DEF en
  <2>4. Change(en, wire, a, f, engine', wire)
    BY <1>1, <1>3, <1>4, <2>2, <2>3 DEF Change
  <2>5. s # None
    BY <1>1, ChannelFacts
  <2>6. GraphOK(engine', wire)
    BY <1>1, <1>3, <2>1, <2>4, <2>5, PrivateChange
  <2> QED
    BY <1>5, <1>7, <2>6 DEF l
<1>8. CASE l.context # "none"
  <2> HIDE DEF l, en
  <2>1. GraphOK(en, Answered(wire, a, en[a], s, "ok"))
    BY <1>1, <1>3, AnsweredOK
  <2> QED
    BY <1>3, <1>6, <1>8, <2>1
<1> QED
  BY <1>7, <1>8

\* The error that a sends, having given up, to the source of the command it took.
LEMMA SentError ==
    ASSUME graph \in Graphs, NEW en, NEW wi, GraphOK(en, wi), NEW a \in App, NEW s \in App \ {a},
           NEW w, w = Sent(wi, a, <<s, a>>, "error")
    PROVE  GraphOK(en, w)
<1> DEFINE c == <<s, a>>
<1>1. c \in Channels /\ c[1] = s /\ c[2] = a /\ wi \in [Channels -> WireType]
  BY ChannelFacts, EngineAt
<1>2. /\ w \in [Channels -> WireType]
      /\ \A d \in Channels : d # c => w[d] = wi[d]
      /\ wi[c].st # "up" => w = wi
      /\ w[c].st = wi[c].st
      /\ a = c[2] /\ wi[c].st = "up" =>
           /\ w[c].fwd = wi[c].fwd
           /\ w[c].back = Append(wi[c].back, "error")
  <2>0. w = Sent(wi, a, c, "error")
    OBVIOUS
  <2> HIDE DEF c
  <2> DEFINE v == Sent(wi, a, c, "error")
  <2>1. MaySend(wi, a, c, "error")
    BY <1>1 DEF MaySend
  <2>2. /\ v \in [Channels -> WireType]
        /\ \A d \in Channels : d # c => v[d] = wi[d]
        /\ wi[c].st # "up" => v = wi
        /\ v[c].st = wi[c].st
        /\ a = c[1] /\ wi[c].st = "up" =>
             /\ v[c].fwd = Append(wi[c].fwd, "error")
             /\ v[c].back = wi[c].back
        /\ a = c[2] /\ wi[c].st = "up" =>
             /\ v[c].fwd = wi[c].fwd
             /\ v[c].back = Append(wi[c].back, "error")
    BY ONLY <2>1, SentOn
  <2> QED
    BY ONLY <2>0, <2>2
<1>3. CASE wi[c].st = "up"
  <2>1. SendsBack(en, wi, a, s, "error", w)
    BY <1>1, <1>2, <1>3 DEF SendsBack
  <2> QED
    BY ONLY <2>1, SentBack
<1> QED
  BY <1>2, <1>3

LEMMA TakeStartGraphOK ==
    ASSUME NEW a, NEW s, Taken(a, s), failed = "none", TakeStartGraph(a, s)
    PROVE  failed' = "one original" \/ (failed' = "none" /\ GraphOK(engine', wire'))
<1> DEFINE l == Linked(a, s)
           en == [engine EXCEPT ![a] = l]
           new == NewApps(a, l)
<1>1. /\ graph \in Graphs /\ a \in App /\ s \in Sources \ {a} /\ engine[a].tasks # <<>>
      /\ Typed(a, l) /\ l \in EngineType
      /\ l.state = engine[a].state /\ l.original = engine[a].original
      /\ l = IF s = Client THEN Ran(engine[a]) ELSE [Ran(engine[a]) EXCEPT !.normal[s] = <<s, a>>]
      /\ s # Client =>
           /\ s \in App /\ engine[a].normal[s] = None /\ l.normal[s] = <<s, a>>
           /\ ~(RemoteExists(engine[a], s) /\ graph.uri[s] < graph.uri[a])
  BY TakenFacts
<1>2. /\ failed' = IF /\ l.state = "up" /\ new # <<>> /\ l.original # None
                      /\ ToSet(new) \cap graph.unknown = {} THEN "one original" ELSE failed
      /\ IF l.state # "up" THEN engine' = en /\ UNCHANGED <<wire, told>>
         ELSE IF new = <<>> THEN Enable(a, l, s) ELSE Connect(a, l, s, new)
  BY <1>1 DEF TakeStartGraph
<1>3. wire \in [Channels -> WireType] /\ engine \in [App -> EngineType] /\ GraphOK(engine, wire)
  BY EngineAt, <1>1 DEF Taken
<1>4. CASE l.state # "up"
  <2>1. GraphOK(en, wire)
    BY <1>1, <1>4, TakenOK
  <2> QED
    BY <1>2, <1>4, <2>1
<1>5. CASE l.state = "up" /\ new = <<>>
  BY <1>1, <1>2, <1>5, EnableOK
<1>6. CASE l.state = "up" /\ new # <<>>
  <2>1. PICK o, q :
             /\ Connects(a, l, q) /\ l.out \subseteq o /\ o \subseteq App \ {a}
             /\ \/ /\ engine' = [engine EXCEPT ![a] = [Asked(l, o, q) EXCEPT !.original = s]]
                   /\ UNCHANGED <<wire, told>>
                   /\ ToSet(NewApps(a, l)) \cap graph.unknown = {}
                   /\ \A b : Has(q, Creating(b)) <=> b \in Neighbours(a) /\ ~RemoteExists(l, b)
                   /\ \A b : Once(q, Creating(b))
                   /\ o = l.out \cup {b \in App : Has(q, Creating(b))} /\ o # {}
                \/ /\ engine' = [engine EXCEPT ![a] = GivenUp(Asked(l, o, q))]
                   /\ wire' = Answered(wire, a, l, s, "error")
                   /\ told' = Heard(l, s, "error")
                   /\ ToSet(NewApps(a, l)) \cap graph.unknown # {}
    <3> HIDE DEF l
    <3>1. s \in Sources /\ Connect(a, l, s, NewApps(a, l)) /\ NewApps(a, l) # <<>>
      BY <1>1, <1>2, <1>6
    <3>2. graph \in Graphs /\ a \in App /\ Typed(a, l)
      BY <1>1
    <3> QED
      BY <3>1, <3>2, ConnectForms
  <2>2. CASE ToSet(new) \cap graph.unknown # {}
    <3> DEFINE f == GivenUp(Asked(l, o, q))
    <3>1. engine' = [engine EXCEPT ![a] = f] /\ wire' = Answered(wire, a, l, s, "error") /\ failed' = "none"
      BY <1>2, <2>1, <2>2
    <3>2. NextTask(engine[a]).run = "start_graph" /\ s = NextTask(engine[a]).on
      BY DEF Taken
    <3> HIDE DEF l, new
    <3>3. GraphOK(engine', wire) /\ f.normal = l.normal
      <4>1. ConnectsBadly(engine, wire, a, s, l, o, q, f, engine')
        BY <1>1, <1>3, <1>6, <2>1, <3>1, <3>2 DEF ConnectsBadly
      <4> HIDE DEF f
      <4> QED
        BY ONLY <4>1, BadConnectOK
    <3>4. CASE s = Client
      BY <3>1, <3>3, <3>4 DEF Answered
    <3>5. CASE s # Client
      <4>1. wire' = Sent(wire, a, <<s, a>>, "error") /\ s \in App \ {a}
        BY <1>1, <1>6, <3>1, <3>5, ChannelFacts DEF Answered
      <4>2. GraphOK(engine', wire')
        BY ONLY <1>1, <3>3, <4>1, SentError
      <4> QED
        BY <3>1, <4>2
    <3> QED
      BY <3>4, <3>5
  <2>3. CASE l.original # None /\ ToSet(new) \cap graph.unknown = {}
    BY <1>2, <1>6, <2>3
  <2>4. CASE l.original = None /\ ToSet(new) \cap graph.unknown = {}
    <3> DEFINE f == [Asked(l, o, q) EXCEPT !.original = s]
    <3>1. /\ engine' = [engine EXCEPT ![a] = f] /\ wire' = wire /\ failed' = "none"
          /\ \A b : Has(q, Creating(b)) <=> b \in Neighbours(a) /\ ~RemoteExists(l, b)
          /\ \A b : Once(q, Creating(b))
          /\ o = l.out \cup {b \in App : Has(q, Creating(b))}
      BY <1>2, <2>1, <2>4
    <3>2. GraphOK(en, wire) /\ Due(en, wire, a, s) /\ en[a] = l /\ en \in [App -> EngineType]
      BY <1>1, <2>4, TakenOK
    <3>3. engine' = [en EXCEPT ![a] = f]
      BY <1>3, <3>1
    <3> HIDE DEF l, new, en
    <3>4. ConnectsFor(en, wire, a, s, o, q)
      BY <1>1, <1>6, <2>1, <2>4, <3>1, <3>2 DEF ConnectsFor
    <3>5. f = [Asked(en[a], o, q) EXCEPT !.original = s]
      BY <3>2
    <3> HIDE DEF f
    <3>6. GraphOK(engine', wire)
      BY ONLY <3>3, <3>4, <3>5, ConnectGoodOK
    <3> QED
      BY <3>1, <3>6
  <2> QED
    BY <2>2, <2>3, <2>4
<1> QED
  BY <1>4, <1>5, <1>6

LEMMA HandleStartGraphOK ==
    ASSUME TypeInv, GraphOK(engine, wire), failed = "none", NEW a \in App, HandleStartGraph(a)
    PROVE  failed' = "one original" \/ (failed' = "none" /\ GraphOK(engine', wire'))
<1> DEFINE s == NextTask(engine[a]).on
<1>1. NextTask(engine[a]).run = "start_graph" /\ graph \in Graphs
  BY DEF HandleStartGraph, TypeInv
<1>2. s \in Sources
  BY <1>1, StartTaken
<1>3. CASE s # Client /\ Duplicated(a, s)
  <2>1. SendDuplicate(a, s) /\ s \in App
    BY <1>2, <1>3 DEF HandleStartGraph, Sources
  <2>2. failed' = "none"
    BY <2>1 DEF SendDuplicate
  <2>3. GraphOK(engine', wire')
    BY <1>1, <1>3, <2>1, SendDuplicateOK
  <2> QED
    BY <2>2, <2>3
<1>4. CASE ~(s # Client /\ Duplicated(a, s))
  <2>1. Taken(a, s) /\ TakeStartGraph(a, s)
    BY <1>1, <1>4 DEF HandleStartGraph, Taken
  <2> HIDE DEF s
  <2> QED
    BY <2>1, TakeStartGraphOK
<1> QED
  BY <1>3, <1>4

-----------------------------------------------------------------------------
(* A connection is made *)

LEMMA CreatedTaken ==
    ASSUME graph \in Graphs, NEW en, NEW wi, GraphOK(en, wi), NEW a \in App, NEW b,
           NextTask(en[a]).run = "created", b = NextTask(en[a]).on
    PROVE  /\ en[a].tasks # <<>> /\ b \in App \ {a} /\ Pending(en[a], b)
           /\ NextTask(en[a]) = Creating(b) /\ en[a].state \in {"up", "closing"}
           /\ \A d : Pending(en[a], d) <=> b = d \/ Pending(Ran(en[a]), d)
           /\ \A d : Once(en[a].tasks, Creating(d)) => Once(Ran(en[a]).tasks, Creating(d))
           /\ en[a].original # None =>
                /\ b \notin en[a].weak /\ wi[<<a, b>>].st = "none" /\ ~Pending(Ran(en[a]), b)
           /\ en[a].state = "up" => en[a].original # None /\ b \in en[a].out \ en[a].oks
<1> DEFINE e == en[a]
<1>1. Typed(a, e) /\ QueueOK(a, e) /\ ConnectingOK(e)
  BY EngineAt
<1>2. e.tasks # <<>>
  BY DEF NextTask, NoTask, Task
<1>3. NextTask(e) \in Tasks
  BY <1>1, <1>2, RanTyped
<1>4. NextTask(e) = Creating(b) /\ b \in App
  BY <1>3, TaskForms
<1>5. /\ \A m : Has(e.tasks, m) <=> NextTask(e) = m \/ Has(Ran(e).tasks, m)
      /\ \A m : Once(e.tasks, m) => Once(Ran(e).tasks, m) /\ (NextTask(e) = m => ~Has(Ran(e).tasks, m))
  BY <1>1, <1>2, RanOK
<1>6. \A d : Pending(e, d) <=> b = d \/ Pending(Ran(e), d)
  BY <1>4, <1>5, TaskKinds DEF Pending
<1>7. Pending(e, b) /\ b \in App \ {a}
  <2>1. Pending(e, b)
    BY <1>6
  <2>2. b \in Neighbours(a)
    BY <1>1, <1>4, <2>1 DEF Typed, RemotesOK
  <2> QED
    BY <2>1, <2>2, GraphFacts
<1>8. e.state \in {"up", "closing"}
  BY <1>1, <1>7 DEF QueueOK, Typed, EngineType
<1>9. e.original # None => b \notin e.weak /\ wi[<<a, b>>].st = "none" /\ ~Pending(Ran(e), b)
  <2> SUFFICES ASSUME e.original # None
               PROVE  b \notin e.weak /\ wi[<<a, b>>].st = "none" /\ ~Pending(Ran(e), b)
    OBVIOUS
  <2>1. b \notin e.weak /\ Once(e.tasks, Creating(b))
    BY <1>1, <1>7 DEF ConnectingOK
  <2>2. wi[<<a, b>>].st = "none"
    BY <1>7, PairAt DEF WireOK
  <2> QED
    BY <1>4, <1>5, <2>1, <2>2 DEF Pending
<1>10. e.state = "up" => e.original # None /\ b \in e.out \ e.oks
  BY <1>1, <1>7 DEF ConnectingOK
<1> QED
  BY <1>2, <1>4, <1>5, <1>6, <1>7, <1>8, <1>9, <1>10

\* The neighbour b has a remote already: a takes the task and nothing more.
Overtaken(en, wi, a, b, f, en2) ==
  /\ graph \in Graphs /\ GraphOK(en, wi) /\ a \in App
  /\ NextTask(en[a]).run = "created" /\ b = NextTask(en[a]).on /\ RemoteExists(en[a], b)
  /\ f = Ran(en[a]) /\ en2 = [en EXCEPT ![a] = f]

LEMMA CreatedDuplicateTaken ==
    ASSUME NEW en, NEW wi, NEW a, NEW b, NEW f, NEW en2, Overtaken(en, wi, a, b, f, en2)
    PROVE  /\ GraphOK(en2, wi) /\ f.original = en[a].original /\ f.state = en[a].state /\ en2[a] = f
           /\ en[a].state = "up" /\ f.original # None => Due(en2, wi, a, f.original)
<1> USE DEF Overtaken
<1> DEFINE e == en[a]
<1>1. /\ e.tasks # <<>> /\ b \in App \ {a} /\ Pending(e, b)
      /\ \A d : Pending(e, d) <=> b = d \/ Pending(f, d)
      /\ \A d : Once(e.tasks, Creating(d)) => Once(f.tasks, Creating(d))
      /\ e.original # None => b \notin e.weak /\ wi[<<a, b>>].st = "none" /\ ~Pending(f, b)
      /\ e.state = "up" => e.original # None /\ b \in e.out \ e.oks
  BY CreatedTaken
<1>2. Typed(a, e) /\ QueueOK(a, e) /\ ConnectingOK(e) /\ SkippedOK(en, wi, a) /\ wi \in [Channels -> WireType]
  BY EngineAt
<1>3. /\ Typed(a, f) /\ QueueOK(a, f)
      /\ f.out = e.out /\ f.oks = e.oks /\ f.context = e.context
      /\ f.requester = e.requester /\ f.state = e.state
      /\ f.original = e.original /\ f.weak = e.weak /\ f.normal = e.normal
  BY <1>1, <1>2, RanOK
<1>4. ConnectingOK(f)
  BY <1>1, <1>2, <1>3 DEF ConnectingOK
<1>5. Change(en, wi, a, f, en2, wi)
  BY <1>2, <1>3 DEF Change
<1>6. en2[a] = f
  BY ONLY <1>5, ChangeFacts
<1>7. e.state = "up" => Skipped(en, wi, a) = {} /\ b \in Skipped(en2, wi, a) /\ \A d \in App : ~Pending(f, d)
  <2> SUFFICES ASSUME e.state = "up"
               PROVE  Skipped(en, wi, a) = {} /\ b \in Skipped(en2, wi, a) /\ \A d \in App : ~Pending(f, d)
    OBVIOUS
  <2>1. Skipped(en, wi, a) = {}
    BY <1>1, <1>2 DEF SkippedOK
  <2>2. b \in Skipped(en2, wi, a)
    BY <1>1, <1>3, <1>6 DEF Skipped
  <2>3. e.normal[b] # None
    BY <1>1 DEF RemoteExists
  <2>4. ASSUME NEW d \in App, Pending(f, d)
        PROVE  FALSE
    <3>1. Pending(e, d) /\ d # b
      BY <1>1, <2>4
    <3> QED
      BY <1>1, <1>2, <2>3, <3>1 DEF ConnectingOK
  <2> QED
    BY <2>1, <2>2, <2>4
<1>8. SkippedOK(en2, wi, a)
  BY <1>3, <1>6, <1>7 DEF SkippedOK
<1>9. \A b2 \in App \ {a} : Quiet(en, wi, a, f, wi, b2)
  BY <1>1, RanQuiet
<1>10. \A b2 \in App \ {a} : Silent(en, wi, a, f, en2, wi, b2)
  BY <1>3, <1>6, <1>7 DEF Silent, Owes
<1>11. GraphOK(en2, wi)
  BY ONLY <1>3, <1>4, <1>5, <1>8, <1>9, <1>10, MonoChange
<1>12. ASSUME e.state = "up", f.original # None
       PROVE  Due(en2, wi, a, f.original)
  <2> DEFINE s == f.original
  <2>1. s \in Sources \ {a}
    BY <1>3, <1>12 DEF Typed, EngineType, RemotesOK
  <2>2. Owes(en, wi, a, s) /\ ~Owes(en2, wi, a, s)
    BY <1>1, <1>3, <1>6, <1>7, <1>12 DEF Owes
  <2>3. s \in App => Quiet(en, wi, a, f, wi, s)
    BY <1>9, <2>1
  <2> HIDE DEF s
  <2> QED
    BY ONLY <1>3, <1>5, <1>12, <2>1, <2>2, <2>3, DueAfter DEF s
<1> QED
  BY <1>3, <1>6, <1>11, <1>12

LEMMA CreatedDuplicateOK ==
    ASSUME graph \in Graphs, GraphOK(engine, wire), NEW a \in App, NEW b,
           Created(a), b = NextTask(engine[a]).on, Duplicated(a, b)
    PROVE  GraphOK(engine', wire') /\ failed' = failed
<1> DEFINE f == Ran(engine[a])
           s == f.original
<1>1. /\ NextTask(engine[a]).run = "created" /\ engine' = [engine EXCEPT ![a] = f] /\ failed' = failed
      /\ s = None => wire' = wire
      /\ s # None => wire' = Answered(wire, a, f, s, "ok")
  BY DEF Created
<1>2. RemoteExists(engine[a], b)
  BY DEF Duplicated
<1>3. /\ GraphOK(engine', wire) /\ s = engine[a].original /\ f.state = engine[a].state /\ engine'[a] = f
      /\ engine[a].state = "up" /\ s # None => Due(engine', wire, a, s)
  <2>1. Overtaken(engine, wire, a, b, f, engine')
    BY <1>1, <1>2 DEF Overtaken
  <2> HIDE DEF f
  <2>2. /\ GraphOK(engine', wire) /\ f.original = engine[a].original /\ f.state = engine[a].state
        /\ engine'[a] = f
        /\ engine[a].state = "up" /\ f.original # None => Due(engine', wire, a, f.original)
    BY ONLY <2>1, CreatedDuplicateTaken
  <2> QED
    BY <2>2
<1>4. Typed(a, engine[a])
  BY EngineAt
<1> HIDE DEF f, s
<1>5. CASE s # None
  <2>1. s \in Sources \ {a}
    BY <1>3, <1>4, <1>5 DEF Typed, EngineType, RemotesOK
  <2>2. GraphOK(engine', Answered(wire, a, engine'[a], s, "ok"))
    BY <1>3, <1>5, <2>1, AnsweredOK
  <2> QED
    BY <1>1, <1>3, <1>5, <2>2
<1> QED
  BY <1>1, <1>3, <1>5

\* a begins to connect to b, that has no remote, or one that is not to be kept.
Connecting(en, wi, a, b, f, en2, wi2) ==
  /\ graph \in Graphs /\ GraphOK(en, wi) /\ a \in App
  /\ NextTask(en[a]).run = "created" /\ b = NextTask(en[a]).on
  /\ ~(RemoteExists(en[a], b) /\ graph.uri[b] < graph.uri[a])
  /\ wi[<<a, b>>] \in {Idle, Over} /\ en[b].normal[a] # <<a, b>>
  /\ f = [Ran(en[a]) EXCEPT !.weak = @ \cup {b}]
  /\ en2 = [en EXCEPT ![a] = f] /\ wi2 = [wi EXCEPT ![<<a, b>>].st = "connecting"]

\* The engine and the channel then; nothing was left of an earlier one.
Begun(en, wi, a, b, f, en2, wi2) ==
  /\ Change(en, wi, a, f, en2, wi2) /\ en2[a] = f /\ b \in App \ {a} /\ b \notin en[a].weak
  /\ f.weak = en[a].weak \cup {b} /\ f.state = en[a].state /\ f.state \in {"up", "closing"}
  /\ f.original = en[a].original /\ f.requester = en[a].requester /\ f.normal = en[a].normal
  /\ f.out = en[a].out /\ f.oks = en[a].oks /\ f.context = en[a].context
  /\ f.inMsgs = en[a].inMsgs /\ QueueOK(a, f)
  /\ \A s : Has(f.tasks, Starting(s)) <=> Has(en[a].tasks, Starting(s))
  /\ \A m : Once(en[a].tasks, m) => Once(f.tasks, m)
  /\ \A d : Pending(en[a], d) <=> b = d \/ Pending(f, d)
  /\ f.original # None => wi[<<a, b>>].st = "none" /\ ~Pending(f, b)
  /\ f.state = "up" => f.original # None
  /\ \A c \in Channels : c # <<a, b>> => wi2[c] = wi[c]
  /\ wi2[<<a, b>>].st = "connecting" /\ wi2[<<a, b>>].fwd = <<>> /\ wi2[<<a, b>>].back = <<>>
  /\ wi[<<a, b>>].st \in {"none", "closed"} /\ wi[<<a, b>>].fwd = <<>> /\ wi[<<a, b>>].back = <<>>

LEMMA ConnectingChange ==
    ASSUME NEW en, NEW wi, NEW a, NEW b, NEW f, NEW en2, NEW wi2, Connecting(en, wi, a, b, f, en2, wi2)
    PROVE  Begun(en, wi, a, b, f, en2, wi2)
<1> USE DEF Connecting
<1> DEFINE e == en[a]
           r == Ran(e)
<1>1. /\ e.tasks # <<>> /\ b \in App \ {a} /\ Pending(e, b) /\ e.state \in {"up", "closing"}
      /\ NextTask(e) = Creating(b)
      /\ \A d : Pending(e, d) <=> b = d \/ Pending(r, d)
      /\ e.original # None => b \notin e.weak /\ wi[<<a, b>>].st = "none" /\ ~Pending(r, b)
      /\ e.state = "up" => e.original # None
  BY CreatedTaken
<1>2. Typed(a, e) /\ QueueOK(a, e) /\ wi \in [Channels -> WireType] /\ en \in [App -> EngineType]
  BY EngineAt
<1>3. /\ Typed(a, r) /\ QueueOK(a, r)
      /\ r.out = e.out /\ r.oks = e.oks /\ r.context = e.context
      /\ r.requester = e.requester /\ r.state = e.state /\ r.made = e.made
      /\ r.original = e.original /\ r.weak = e.weak /\ r.normal = e.normal /\ r.inMsgs = e.inMsgs
      /\ \A m : Has(e.tasks, m) <=> NextTask(e) = m \/ Has(r.tasks, m)
      /\ \A m : Once(e.tasks, m) => Once(r.tasks, m)
  BY <1>1, <1>2, RanOK, ZenonT(40)
<1>4. /\ f.weak = r.weak \cup {b} /\ f.out = r.out /\ f.oks = r.oks /\ f.context = r.context
      /\ f.requester = r.requester /\ f.state = r.state /\ f.made = r.made
      /\ f.original = r.original /\ f.normal = r.normal /\ f.inMsgs = r.inMsgs /\ f.tasks = r.tasks
      /\ f \in EngineType
  BY <1>1, <1>3, Zenon DEF Typed, EngineType
<1> HIDE DEF r
<1>5. Typed(a, f)
  BY <1>1, <1>3, <1>4, Zenon DEF Typed, RemotesOK, Pending
<1>6. QueueOK(a, f)
  BY <1>1, <1>3, <1>4, Zenon DEF QueueOK, Pending
<1>7. <<a, b>> \in Channels /\ wi[<<a, b>>] \in WireType
  BY <1>1, <1>2, ChannelFacts, Zenon
<1>8. /\ wi2 \in [Channels -> WireType]
      /\ \A c \in Channels : c # <<a, b>> => wi2[c] = wi[c]
      /\ wi2[<<a, b>>].st = "connecting" /\ wi2[<<a, b>>].fwd = <<>> /\ wi2[<<a, b>>].back = <<>>
      /\ wi[<<a, b>>].st \in {"none", "closed"} /\ wi[<<a, b>>].fwd = <<>> /\ wi[<<a, b>>].back = <<>>
  <2> DEFINE c == <<a, b>>
             v == [wi[c] EXCEPT !.st = "connecting"]
  <2>1. wi[c].st \in {"none", "closed"} /\ wi[c].fwd = <<>> /\ wi[c].back = <<>>
    BY DEF Idle, Over
  <2>2. v \in WireType /\ v.st = "connecting" /\ v.fwd = wi[c].fwd /\ v.back = wi[c].back
    BY <1>7 DEF WireType
  <2>3. wi2 = [wi EXCEPT ![c] = v] /\ c \in Channels
    BY <1>7
  <2> HIDE DEF c, v
  <2>4. wi2 \in [Channels -> WireType] /\ wi2[c] = v /\ \A d \in Channels : d # c => wi2[d] = wi[d]
    BY <1>2, <2>2, <2>3, Zenon
  <2> QED
    BY <2>1, <2>2, <2>4 DEF c
<1>9. Change(en, wi, a, f, en2, wi2)
  BY <1>1, <1>5, <1>8, ChannelFacts, Zenon DEF Change
<1>10. en2[a] = f
  BY ONLY <1>9, ChangeFacts
<1>11. b \notin e.weak
  <2> SUFFICES ASSUME b \in e.weak PROVE FALSE
    BY Zenon
  <2>1. HoldOK(en, wi, a, b)
    BY <1>1, PairAt, Zenon
  <2> QED
    <3>1. ~Has(wi[<<a, b>>].back, "eof")
      BY <1>8, HasNone
    <3> QED
      BY <1>1, <1>8, <2>1, <3>1, Zenon DEF HoldOK
<1>12. /\ \A s : Has(f.tasks, Starting(s)) <=> Has(e.tasks, Starting(s))
       /\ \A m : Once(e.tasks, m) => Once(f.tasks, m)
       /\ \A d : Pending(e, d) <=> b = d \/ Pending(f, d)
  BY <1>1, <1>3, <1>4, TaskKinds, Zenon DEF Pending
<1>13. /\ f.weak = e.weak \cup {b} /\ f.state = e.state /\ f.state \in {"up", "closing"}
       /\ f.original = e.original /\ f.requester = e.requester /\ f.normal = e.normal
       /\ f.out = e.out /\ f.oks = e.oks /\ f.context = e.context /\ f.inMsgs = e.inMsgs
  BY ONLY <1>1, <1>3, <1>4
<1>14. /\ f.original # None => wi[<<a, b>>].st = "none" /\ ~Pending(f, b)
       /\ f.state = "up" => f.original # None
  BY <1>1, <1>3, <1>4, Zenon DEF Pending
<1> QED
  BY ONLY <1>1, <1>6, <1>8, <1>9, <1>10, <1>11, <1>12, <1>13, <1>14 DEF Begun

LEMMA ConnectingPair ==
    ASSUME NEW en, NEW wi, NEW a, NEW b, NEW f, NEW en2, NEW wi2, Connecting(en, wi, a, b, f, en2, wi2)
    PROVE  PairOK(en2, wi2, a, b) /\ PairOK(en2, wi2, b, a)
<1> DEFINE e == en[a]
           w == wi[<<a, b>>]
           w2 == wi2[<<a, b>>]
<1>1. /\ Change(en, wi, a, f, en2, wi2) /\ en2[a] = f /\ b \in App \ {a} /\ b \notin e.weak
      /\ f.weak = e.weak \cup {b} /\ f.state = e.state /\ f.state \in {"up", "closing"}
      /\ f.original = e.original /\ f.requester = e.requester /\ f.normal = e.normal
      /\ f.out = e.out /\ f.oks = e.oks /\ f.context = e.context
      /\ f.inMsgs = e.inMsgs /\ QueueOK(a, f)
      /\ \A s : Has(f.tasks, Starting(s)) <=> Has(e.tasks, Starting(s))
      /\ \A m : Once(e.tasks, m) => Once(f.tasks, m)
      /\ \A d : Pending(e, d) <=> b = d \/ Pending(f, d)
      /\ f.original # None => w.st = "none" /\ ~Pending(f, b)
      /\ f.state = "up" => f.original # None
      /\ \A c \in Channels : c # <<a, b>> => wi2[c] = wi[c]
      /\ w2.st = "connecting" /\ w2.fwd = <<>> /\ w2.back = <<>>
      /\ w.st \in {"none", "closed"} /\ w.fwd = <<>> /\ w.back = <<>>
  <2>1. Begun(en, wi, a, b, f, en2, wi2)
    BY ONLY Connecting(en, wi, a, b, f, en2, wi2), ConnectingChange, Zenon
  <2> QED
    BY ONLY <2>1 DEF Begun
<1>2. /\ en2[b] = en[b]
      /\ Owes(en2, wi2, b, a) <=> Owes(en, wi, b, a)
      /\ <<b, a>> \in Channels /\ <<b, a>> # <<a, b>> /\ a \in App /\ GraphOK(en, wi)
      /\ <<a, b>> # None /\ <<b, a>> # None
      /\ en[b].normal[a] # <<a, b>> /\ ~(RemoteExists(e, b) /\ graph.uri[b] < graph.uri[a])
  <2>1. /\ en2[a] = f /\ en2 \in [App -> EngineType] /\ Typed(a, en[a])
        /\ \A d \in App \ {a} : /\ en2[d] = en[d] /\ Skipped(en2, wi2, d) = Skipped(en, wi, d)
                                /\ \A x : Owes(en2, wi2, d, x) <=> Owes(en, wi, d, x)
                                /\ <<a, d>> \in Channels /\ <<d, a>> \in Channels
    BY ONLY <1>1, ChangeFacts
  <2>2. /\ en2[b] = en[b]
        /\ Owes(en2, wi2, b, a) <=> Owes(en, wi, b, a)
        /\ <<a, b>> \in Channels /\ <<b, a>> \in Channels
    BY ONLY <1>1, <2>1
  <2> QED
    BY <1>1, <2>2, ChannelFacts, Zenon DEF Connecting
<1>3. /\ WireOK(en, wi, a, b) /\ HoldOK(en, wi, a, b) /\ SmallerOK(en, wi, a, b) /\ AnswersOK(en, wi, a, b)
      /\ WireOK(en, wi, b, a) /\ HoldOK(en, wi, b, a) /\ SmallerOK(en, wi, b, a) /\ AnswersOK(en, wi, b, a)
  BY <1>1, <1>2, PairAt
<1> HIDE DEF e, w, w2
<1>4. /\ \A m : ~Has(w.fwd, m) /\ ~Has(w.back, m) /\ ~Has(w2.fwd, m) /\ ~Has(w2.back, m)
      /\ \A m : Once(w2.fwd, m)
      /\ EofLast(w2.back) /\ Single(w2.back)
  BY <1>1, HasNone, EndsNone
<1>5. wi2[<<b, a>>] = wi[<<b, a>>]
  BY <1>1, <1>2
<1>6. ~OnWire(wi, a, b) /\ ~Joined(en, wi, a, b) /\ ~Coming(en, wi, a, b) /\ ~Queued(en, a, b)
  <2>1. ~OnWire(wi, a, b)
    BY <1>4 DEF OnWire, w
  <2>2. ~Joined(en, wi, a, b)
    BY <1>1, <1>3, <1>4 DEF HoldOK, w
  <2> QED
    BY <2>1, <2>2 DEF Joined, Coming
<1>7. /\ ~OnWire(wi2, a, b) /\ ~Queued(en2, a, b) /\ ~Coming(en2, wi2, a, b) /\ ~Joined(en2, wi2, a, b)
      /\ Holds(en2, a, b)
      /\ ~Answer(wi2, a, b) /\ ~Answer(wi, a, b)
      /\ OnWire(wi2, b, a) <=> OnWire(wi, b, a)
      /\ Queued(en2, b, a) <=> Queued(en, b, a)
      /\ Coming(en2, wi2, b, a) <=> Coming(en, wi, b, a)
      /\ Joined(en2, wi2, b, a) <=> Joined(en, wi, b, a)
      /\ Holds(en2, b, a) <=> Holds(en, b, a)
      /\ Answer(wi2, b, a) <=> Answer(wi, b, a)
      /\ Leaving(en2, b) <=> Leaving(en, b)
      /\ Leaving(en2, a) <=> Leaving(en, a)
      /\ ~Leaving(en, a)
  <2>1. ~OnWire(wi2, a, b) /\ ~Answer(wi2, a, b) /\ ~Answer(wi, a, b)
    BY <1>4 DEF OnWire, Answer, w, w2
  <2>2. /\ Queued(en2, a, b) <=> Queued(en, a, b)
        /\ Queued(en2, b, a) <=> Queued(en, b, a)
        /\ OnWire(wi2, b, a) <=> OnWire(wi, b, a)
        /\ Answer(wi2, b, a) <=> Answer(wi, b, a)
        /\ Holds(en2, b, a) <=> Holds(en, b, a)
        /\ Leaving(en2, b) <=> Leaving(en, b)
        /\ Leaving(en2, a) <=> Leaving(en, a)
        /\ ~Leaving(en, a) /\ Holds(en2, a, b)
    BY <1>1, <1>2, <1>5 DEF Queued, OnWire, Answer, Holds, Leaving, e
  <2> QED
    BY <1>1, <1>2, <1>6, <2>1, <2>2 DEF Coming, Joined, e
<1>8. e.normal[b] # <<a, b>>
  BY <1>1, <1>3, <1>4 DEF HoldOK, e, w
<1>9. WireOK(en2, wi2, a, b)
  BY <1>1, <1>4, <1>7 DEF WireOK, w2
<1>10. WireOK(en2, wi2, b, a)
  BY <1>1, <1>2, <1>3, <1>5, <1>7 DEF WireOK
<1>11. HoldOK(en2, wi2, a, b)
  <2>1. Once(en[b].inMsgs, a) /\ Once(en[b].tasks, Starting(a)) /\ ~(Has(en[b].inMsgs, a) /\ Has(en[b].tasks, Starting(a)))
    BY <1>3 DEF HoldOK
  <2> QED
    BY <1>1, <1>2, <1>7, <1>8, <2>1 DEF HoldOK, w2
<1>12. HoldOK(en2, wi2, b, a)
  BY <1>1, <1>2, <1>3, <1>5, <1>7 DEF HoldOK, e
<1>13. SmallerOK(en2, wi2, a, b)
  <2>1. ~Kept(en2, wi2, a, b)
    BY <1>1, <1>4, <1>8 DEF Kept, w2
  <2> QED
    BY <1>2, <2>1 DEF SmallerOK
<1>14. SmallerOK(en2, wi2, b, a)
  <2> SUFFICES ASSUME graph.uri[b] < graph.uri[a] PROVE SmallerOK(en2, wi2, b, a)
    BY DEF SmallerOK
  <2>1. e.normal[b] = None
    BY <1>2 DEF RemoteExists
  <2>2. ~Kept(en, wi, b, a)
    BY <1>2, <1>3, <1>7, <2>1 DEF SmallerOK, e
  <2>3. ~Kept(en2, wi2, b, a)
    BY <1>2, <1>5, <2>2 DEF Kept
  <2> QED
    BY <1>1, <1>2, <2>1, <2>3 DEF SmallerOK
<1>15. AnswersOK(en2, wi2, a, b)
  <2> SUFFICES ASSUME f.state = "up" PROVE AnswersOK(en2, wi2, a, b)
    BY <1>1 DEF AnswersOK
  <2>1. en[b].requester # a /\ en[b].original # a
    BY <1>1, <1>3 DEF AnswersOK, e, w
  <2>2. ~Owes(en2, wi2, b, a)
    BY <1>2, <2>1 DEF Owes
  <2> QED
    BY <1>1, <1>2, <1>4, <1>7, <2>1, <2>2 DEF AnswersOK, w2
<1>16. AnswersOK(en2, wi2, b, a)
  <2>1. Owes(en2, wi2, a, b) => Owes(en, wi, a, b)
    <3>1. Skipped(en, wi, a) \subseteq Skipped(en2, wi2, a)
      <4>1. \A d \in App \ {a, b} : wi2[<<a, d>>] = wi[<<a, d>>]
        <5>1. \A d \in App \ {a, b} : <<a, d>> \in Channels /\ <<a, d>> # <<a, b>>
          BY <1>1, <1>2, ChannelFacts
        <5> QED
          BY <1>1, <5>1
      <4>2. e.out \subseteq App \ {a}
        BY <1>2, EngineAt DEF Typed, RemotesOK, e
      <4> QED
        BY <1>1, <4>1, <4>2 DEF Skipped, e
    <3> QED
      BY <1>1, <3>1 DEF Owes, e
  <2> QED
    BY <1>1, <1>2, <1>3, <1>5, <1>7, <2>1 DEF AnswersOK, e
<1> QED
  BY <1>9, <1>10, <1>11, <1>12, <1>13, <1>14, <1>15, <1>16 DEF PairOK

LEMMA ConnectingGraph ==
    ASSUME NEW en, NEW wi, NEW a, NEW b, NEW f, NEW en2, NEW wi2, Connecting(en, wi, a, b, f, en2, wi2)
    PROVE  GraphOK(en2, wi2) /\ b \notin en[a].weak
<1> DEFINE e == en[a]
<1>0. Begun(en, wi, a, b, f, en2, wi2)
  BY ONLY Connecting(en, wi, a, b, f, en2, wi2), ConnectingChange
<1>1. Change(en, wi, a, f, en2, wi2) /\ GraphOK(en, wi) /\ a \in App /\ QueueOK(a, f) /\ b \notin e.weak
  BY <1>0 DEF Connecting, Begun
<1>2. Typed(a, e) /\ ConnectingOK(e) /\ SkippedOK(en, wi, a)
  BY <1>1, EngineAt
<1>3. ConnectingOK(f)
  <2>1. \A d \in App : Once(e.tasks, Creating(d)) => Once(f.tasks, Creating(d))
    BY <1>0 DEF Begun
  <2> QED
    BY <1>0, <1>2, <2>1 DEF ConnectingOK, Begun
<1>4. \A d \in App \ {a, b} : wi2[<<a, d>>] = wi[<<a, d>>] /\ wi2[<<d, a>>] = wi[<<d, a>>]
  <2>1. \A d \in App \ {a, b} : /\ <<a, d>> \in Channels /\ <<a, d>> # <<a, b>>
                                /\ <<d, a>> \in Channels /\ <<d, a>> # <<a, b>>
    BY <1>1, ChannelFacts
  <2> QED
    BY <1>0, <2>1 DEF Begun
<1>5. Skipped(en2, wi2, a) = Skipped(en, wi, a)
  <2>1. e.out \subseteq App \ {a}
    BY <1>2 DEF Typed, RemotesOK
  <2>2. en2[a] = f /\ f.out = e.out /\ f.oks = e.oks
    BY <1>0 DEF Begun
  <2>3. Pending(e, b) /\ wi2[<<a, b>>].st = "connecting"
    BY <1>0 DEF Begun
  <2>4. \A d \in App \ {a, b} : Pending(f, d) <=> Pending(e, d)
    BY <1>0 DEF Begun
  <2>5. \A d \in e.out : ~Pending(f, d) /\ wi2[<<a, d>>].st = "none"
                              <=> ~Pending(e, d) /\ wi[<<a, d>>].st = "none"
    <3> SUFFICES ASSUME NEW d \in e.out
                 PROVE  ~Pending(f, d) /\ wi2[<<a, d>>].st = "none"
                           <=> ~Pending(e, d) /\ wi[<<a, d>>].st = "none"
      OBVIOUS
    <3>1. CASE d = b
      BY ONLY <2>3, <3>1
    <3>2. CASE d # b
      BY ONLY <1>4, <2>1, <2>4, <3>2, d \in e.out
    <3> QED
      BY ONLY <3>1, <3>2
  <2> QED
    BY ONLY <2>2, <2>5 DEF Skipped
<1>6. SkippedOK(en2, wi2, a)
  BY <1>0, <1>2, <1>5 DEF SkippedOK, Begun
<1>7. ASSUME NEW d \in App \ {a, b}
      PROVE  Quiet(en, wi, a, f, wi2, d) /\ Silent(en, wi, a, f, en2, wi2, d)
  <2>1. WireOK(en, wi, a, d) /\ HoldOK(en, wi, d, a)
    BY <1>1, PairAt
  <2>2. Quiet(en, wi, a, f, wi2, d)
    BY <1>0, <1>4, <2>1 DEF Quiet, Begun, WireOK, HoldOK
  <2>3. Silent(en, wi, a, f, en2, wi2, d)
    BY <1>0, <1>5 DEF Silent, Owes, Begun
  <2> QED
    BY <2>2, <2>3
<1>8. ASSUME NEW d \in App \ {a}
      PROVE  PairOK(en2, wi2, a, d) /\ PairOK(en2, wi2, d, a)
  <2>1. CASE d = b
    <3>1. PairOK(en2, wi2, a, b) /\ PairOK(en2, wi2, b, a)
      BY ONLY Connecting(en, wi, a, b, f, en2, wi2), ConnectingPair
    <3> QED
      BY <2>1, <3>1
  <2>2. CASE d # b
    <3>1. Quiet(en, wi, a, f, wi2, d) /\ Silent(en, wi, a, f, en2, wi2, d)
      BY <1>7, <2>2
    <3> QED
      BY ONLY <1>1, <3>1, d \in App \ {a}, MonoPair
  <2> QED
    BY <2>1, <2>2
<1> QED
  BY <1>1, <1>3, <1>6, <1>8, ChangeOK, Zenon

LEMMA CreatedOK ==
    ASSUME TypeInv, GraphOK(engine, wire), failed = "none", NEW a \in App, Created(a)
    PROVE  failed' = "none" /\ GraphOK(engine', wire')
<1> DEFINE b == NextTask(engine[a]).on
           f == [Ran(engine[a]) EXCEPT !.weak = @ \cup {b}]
<1>1. graph \in Graphs /\ NextTask(engine[a]).run = "created"
  BY DEF TypeInv, Created
<1>2. CASE Duplicated(a, b)
  BY <1>1, <1>2, CreatedDuplicateOK
<1>3. CASE ~Duplicated(a, b)
  <2>1. /\ engine' = [engine EXCEPT ![a] = f] /\ wire' = [wire EXCEPT ![<<a, b>>].st = "connecting"]
        /\ failed' = IF b \in Ran(engine[a]).weak THEN "one weak remote" ELSE failed
        /\ Clean(a, b)
    BY <1>3 DEF Created
  <2>2. Connecting(engine, wire, a, b, f, engine', wire')
    BY <1>1, <1>3, <2>1 DEF Connecting, Duplicated, Clean
  <2>3. GraphOK(engine', wire') /\ b \notin engine[a].weak
    BY ONLY <2>2, ConnectingGraph
  <2>4. Ran(engine[a]).weak = engine[a].weak
    <3>1. engine[a].tasks # <<>>
      BY <1>1 DEF NextTask, NoTask, Task
    <3>2. Typed(a, engine[a]) /\ QueueOK(a, engine[a])
      BY EngineAt
    <3> HIDE DEF f
    <3> QED
      BY ONLY <3>1, <3>2, a \in App, RanOK
  <2> QED
    BY <2>1, <2>3, <2>4
<1> QED
  BY <1>2, <1>3

-----------------------------------------------------------------------------
(* An engine begins to close *)

\* What is left of a's engine g when it gives up, or only closes.
LEMMA ClosingForm ==
    ASSUME NEW a \in App, NEW g, Typed(a, g), QueueOK(a, g), g.state \in {"up", "closing"},
           NEW f \in {GivenUp(g), Closing(g)}
    PROVE  /\ Typed(a, f) /\ QueueOK(a, f) /\ f.state = "closing"
           /\ f.original \in {None, g.original} /\ (f = GivenUp(g) => f.original = None)
           /\ f.requester = g.requester /\ f.weak = g.weak /\ f.normal = g.normal /\ f.inMsgs = g.inMsgs
           /\ \A m : m # CloseTask => (Has(f.tasks, m) <=> Has(g.tasks, m))
           /\ \A m : Once(g.tasks, m) => Once(f.tasks, m)
<1> DEFINE t == Append(g.tasks, CloseTask)
           o == IF f = GivenUp(g) THEN None ELSE g.original
<1>1. g \in EngineType /\ g.tasks \in Seq(Tasks) /\ CloseTask \in Tasks
  BY SMTT(30) DEF Typed, EngineType, Tasks
<1>2. /\ Typed(a, f)
      /\ g.state # "up" => f = [g EXCEPT !.original = o]
      /\ g.state = "up" => f = [g EXCEPT !.original = o, !.state = "closing", !.tasks = t]
  <2>1. [g EXCEPT !.original = g.original] = g
    BY <1>1 DEF EngineType
  <2>2. /\ [g EXCEPT !.original = g.original, !.state = "closing", !.tasks = t]
             = [g EXCEPT !.state = "closing", !.tasks = t]
    BY <1>1 DEF EngineType
  <2> QED
    BY <2>1, <2>2, ClosingTyped, ZenonT(40)
<1>3. /\ f.original = o /\ f.out = g.out /\ f.oks = g.oks /\ f.state = "closing"
      /\ f.requester = g.requester /\ f.weak = g.weak /\ f.normal = g.normal /\ f.inMsgs = g.inMsgs
      /\ f.context = g.context /\ f.made = g.made /\ f.tasks = IF g.state = "up" THEN t ELSE g.tasks
  BY <1>1, <1>2 DEF EngineType
<1>4. /\ \A m : Has(t, m) <=> Has(g.tasks, m) \/ CloseTask = m
      /\ \A m : Once(g.tasks, m) /\ (CloseTask = m => ~Has(g.tasks, m)) => Once(t, m)
  BY <1>1, HasAppend
<1>5. g.state = "up" => CreatedFirst(t) /\ ~Has(g.tasks, CloseTask) /\ Once(g.tasks, CloseTask)
  <2> SUFFICES ASSUME g.state = "up"
               PROVE  CreatedFirst(t) /\ ~Has(g.tasks, CloseTask) /\ Once(g.tasks, CloseTask)
    OBVIOUS
  <2>1. CreatedFirst(g.tasks) /\ ~Has(g.tasks, CloseTask) /\ Once(g.tasks, CloseTask)
    BY DEF QueueOK
  <2> QED
    BY <1>1, <2>1, EndsAppend
<1> HIDE DEF t, o
<1>6. QueueOK(a, f)
  BY <1>3, <1>4, <1>5 DEF QueueOK, Pending
<1>7. o \in {None, g.original} /\ (f = GivenUp(g) => o = None)
  BY DEF o
<1>8. \A m : Once(g.tasks, m) => Once(f.tasks, m)
  BY <1>3, <1>4, <1>5
<1>9. \A m : m # CloseTask => (Has(f.tasks, m) <=> Has(g.tasks, m))
  BY <1>3, <1>4
<1> QED
  BY <1>2, <1>3, <1>6, <1>7, <1>8, <1>9

\* a's engine closes, whatever becomes of those it waited for.
Down(en, wi, a, f, en2) ==
  LET e == en[a] IN
  /\ graph \in Graphs /\ GraphOK(en, wi) /\ a \in App /\ Typed(a, f) /\ QueueOK(a, f)
  /\ en2 = [en EXCEPT ![a] = f] /\ e.state \in {"up", "closing"} /\ f.state = "closing"
  /\ f.original \in {None, e.original} /\ f.requester = e.requester
  /\ f.weak = e.weak /\ f.normal = e.normal /\ f.inMsgs = e.inMsgs
  /\ \A m : m # CloseTask => (Has(f.tasks, m) <=> Has(e.tasks, m))
  /\ \A m : Once(e.tasks, m) => Once(f.tasks, m)

LEMMA DownOK ==
    ASSUME NEW en, NEW wi, NEW a, NEW f, NEW en2, Down(en, wi, a, f, en2)
    PROVE  GraphOK(en2, wi) /\ en2[a] = f
<1> USE DEF Down
<1> DEFINE e == en[a]
<1>1. Typed(a, e) /\ ConnectingOK(e) /\ wi \in [Channels -> WireType]
  BY EngineAt
<1>2. /\ \A b : Pending(f, b) <=> Pending(e, b)
      /\ \A s : Has(f.tasks, Starting(s)) <=> Has(e.tasks, Starting(s))
  BY TaskKinds DEF Pending
<1>3. Change(en, wi, a, f, en2, wi)
  BY <1>1 DEF Change
<1>4. en2[a] = f
  BY ONLY <1>3, ChangeFacts
<1>5. ConnectingOK(f)
  BY <1>1, <1>2 DEF ConnectingOK
<1>6. SkippedOK(en2, wi, a)
  BY <1>4 DEF SkippedOK
<1>7. ASSUME NEW b \in App \ {a}
      PROVE  Quiet(en, wi, a, f, wi, b) /\ Silent(en, wi, a, f, en2, wi, b)
  <2>1. WireOK(en, wi, a, b) /\ HoldOK(en, wi, b, a) /\ b # None
    BY PairAt, ChannelFacts
  <2>2. Quiet(en, wi, a, f, wi, b)
    BY <1>2, <2>1 DEF Quiet, WireOK, HoldOK
  <2>3. Silent(en, wi, a, f, en2, wi, b)
    BY <2>1 DEF Silent
  <2> QED
    BY <2>2, <2>3
<1>8. QueueOK(a, f)
  OBVIOUS
<1> QED
  BY ONLY <1>3, <1>4, <1>5, <1>6, <1>7, <1>8, MonoChange

-----------------------------------------------------------------------------
(* One channel c between a and b, and a's remote for b *)

Local(en, wi, a, b, c, f, en2, wi2) ==
  LET e == en[a] IN
  /\ graph \in Graphs /\ GraphOK(en, wi) /\ a \in App /\ b \in App \ {a} /\ c \in {<<a, b>>, <<b, a>>}
  /\ f \in EngineType /\ f.state = e.state /\ f.made = e.made /\ f.original = e.original
  /\ f.requester = e.requester /\ f.context = e.context /\ f.out = e.out /\ f.oks = e.oks
  /\ f.inMsgs = e.inMsgs /\ f.tasks = e.tasks
  /\ f.weak \in {e.weak, e.weak \ {b}}
  /\ f.normal[b] \in {e.normal[b], None} \/ (f.normal[b] = c /\ e.state = "up" /\ b \in e.weak)
  /\ \A d \in App : d # b => f.normal[d] = e.normal[d]
  /\ en2 = [en EXCEPT ![a] = f] /\ wi2 \in [Channels -> WireType]
  /\ \A d \in Channels : d # c => wi2[d] = wi[d]
  /\ wi2[c].st = "none" <=> wi[c].st = "none"

\* What stays as it was.
LocalSame(en, wi, a, b, c, f, en2, wi2) ==
  /\ en2[a] = f /\ en2[b] = en[b] /\ \A d : Pending(f, d) <=> Pending(en[a], d)
  /\ \A x \in {a, b} : Leaving(en2, x) <=> Leaving(en, x)
  /\ \A x \in App \ {a} : Owes(en2, wi2, a, x) <=> Owes(en, wi, a, x)
  /\ Owes(en2, wi2, b, a) <=> Owes(en, wi, b, a)
  /\ Queued(en2, a, b) <=> Queued(en, a, b)
  /\ Queued(en2, b, a) <=> Queued(en, b, a)
  /\ Holds(en2, b, a) <=> Holds(en, b, a)
  /\ \A d \in {<<a, b>>, <<b, a>>} : d # c => wi2[d] = wi[d]
  /\ WireOK(en, wi, a, b) /\ HoldOK(en, wi, a, b) /\ SmallerOK(en, wi, a, b) /\ AnswersOK(en, wi, a, b)
  /\ WireOK(en, wi, b, a) /\ HoldOK(en, wi, b, a) /\ SmallerOK(en, wi, b, a) /\ AnswersOK(en, wi, b, a)
  /\ <<a, b>> # <<b, a>> /\ <<a, b>> # None /\ <<b, a>> # None /\ a # None /\ b # None
  /\ wi[<<a, b>>] \in WireType /\ wi[<<b, a>>] \in WireType
  /\ en[a].state \in {"none", "up", "closing", "draining", "gone"}

LEMMA LocalEngine ==
    ASSUME NEW en, NEW wi, NEW a, NEW b, NEW c, NEW f, NEW en2, NEW wi2, Local(en, wi, a, b, c, f, en2, wi2)
    PROVE  Change(en, wi, a, f, en2, wi2) /\ QueueOK(a, f) /\ ConnectingOK(f)
<1> USE DEF Local
<1> DEFINE e == en[a]
<1>1. Typed(a, e) /\ QueueOK(a, e) /\ ConnectingOK(e) /\ wi \in [Channels -> WireType]
  BY EngineAt
<1>2. /\ \A x, y \in App : x # y => <<x, y>> \in Channels
      /\ \A x, y \in App \ {a} : x # y => <<x, y>> # c
      /\ <<a, b>> # None /\ <<b, a>> # None
  BY ChannelFacts
<1>3. \A d : Pending(f, d) <=> Pending(e, d)
  BY DEF Pending
<1>4. Typed(a, f)
  BY <1>1, <1>3 DEF Typed, RemotesOK
<1>5. e.state = "up" /\ b \in e.weak => ~Pending(e, b)
  BY <1>1 DEF ConnectingOK
<1>6. QueueOK(a, f)
  <2>1. e.state \in {"none", "draining", "gone"} => b \notin e.weak
    BY <1>1 DEF QueueOK
  <2>2. e.state \in {"none", "gone"} => \A y \in App : f.normal[y] = None
    BY <1>1 DEF QueueOK
  <2>3. e.state \in {"none", "draining", "gone"} => f.weak = {} /\ \A y \in App : f.normal[y] # <<a, y>>
    <3> SUFFICES ASSUME e.state \in {"none", "draining", "gone"}
                 PROVE  f.weak = {} /\ \A y \in App : f.normal[y] # <<a, y>>
      OBVIOUS
    <3>1. e.weak = {} /\ \A y \in App : e.normal[y] # <<a, y>>
      BY <1>1 DEF QueueOK
    <3> QED
      BY <1>2, <2>1, <3>1
  <2> QED
    BY <1>1, <1>3, <2>2, <2>3 DEF QueueOK
<1>7. ConnectingOK(f)
  BY <1>1, <1>3, <1>5 DEF ConnectingOK
<1>8. Change(en, wi, a, f, en2, wi2)
  BY <1>2, <1>4 DEF Change
<1> QED
  BY <1>6, <1>7, <1>8

LEMMA LocalFacts ==
    ASSUME NEW en, NEW wi, NEW a, NEW b, NEW c, NEW f, NEW en2, NEW wi2, Local(en, wi, a, b, c, f, en2, wi2)
    PROVE  /\ LocalSame(en, wi, a, b, c, f, en2, wi2) /\ SkippedOK(en2, wi2, a)
           /\ \A d \in App \ {a, b} : Quiet(en, wi, a, f, wi2, d) /\ Silent(en, wi, a, f, en2, wi2, d)
<1> DEFINE e == en[a]
<1>0. /\ Change(en, wi, a, f, en2, wi2) /\ a \in App /\ b \in App \ {a} /\ GraphOK(en, wi)
      /\ c \in {<<a, b>>, <<b, a>>}
  <2>1. Change(en, wi, a, f, en2, wi2)
    BY ONLY Local(en, wi, a, b, c, f, en2, wi2), LocalEngine
  <2> QED
    BY <2>1 DEF Local
<1>1. /\ en2[a] = f /\ en2 \in [App -> EngineType] /\ Typed(a, en[a])
      /\ \A d \in App \ {a} : /\ en2[d] = en[d] /\ Skipped(en2, wi2, d) = Skipped(en, wi, d)
                              /\ \A x : Owes(en2, wi2, d, x) <=> Owes(en, wi, d, x)
                              /\ <<a, d>> \in Channels /\ <<d, a>> \in Channels
  BY ONLY <1>0, ChangeFacts
<1>2. /\ WireOK(en, wi, a, b) /\ HoldOK(en, wi, a, b) /\ SmallerOK(en, wi, a, b) /\ AnswersOK(en, wi, a, b)
      /\ WireOK(en, wi, b, a) /\ HoldOK(en, wi, b, a) /\ SmallerOK(en, wi, b, a) /\ AnswersOK(en, wi, b, a)
  BY <1>0, PairAt
<1>3. SkippedOK(en, wi, a) /\ wi \in [Channels -> WireType]
  BY <1>0, EngineAt
<1>4. \A d : Pending(f, d) <=> Pending(e, d)
  BY DEF Local, Pending
<1>5. \A d \in App \ {a} : wi2[<<a, d>>].st = "none" <=> wi[<<a, d>>].st = "none"
  BY <1>1 DEF Local
<1>6. Skipped(en2, wi2, a) = Skipped(en, wi, a)
  <2>1. e.out \subseteq App \ {a}
    BY <1>1 DEF Typed, RemotesOK
  <2> QED
    BY <1>1, <1>4, <1>5, <2>1 DEF Skipped, Local
<1>7. SkippedOK(en2, wi2, a)
  BY <1>1, <1>3, <1>4, <1>6 DEF SkippedOK, Local
<1>8. \A x \in App \ {a} : Owes(en2, wi2, a, x) <=> Owes(en, wi, a, x)
  BY <1>1, <1>6 DEF Owes, Local
<1>9. LocalSame(en, wi, a, b, c, f, en2, wi2)
  <2>1. /\ \A x \in {a, b} : Leaving(en2, x) <=> Leaving(en, x)
        /\ Queued(en2, a, b) <=> Queued(en, a, b)
        /\ Queued(en2, b, a) <=> Queued(en, b, a)
        /\ Holds(en2, b, a) <=> Holds(en, b, a)
    BY <1>0, <1>1 DEF Leaving, Queued, Holds, Local
  <2>2. \A d \in {<<a, b>>, <<b, a>>} : d # c => wi2[d] = wi[d]
    BY <1>0, <1>1 DEF Local
  <2>3. <<a, b>> # <<b, a>> /\ <<a, b>> # None /\ <<b, a>> # None /\ a # None /\ b # None
    BY <1>0, ChannelFacts
  <2>4. en[a].state \in {"none", "up", "closing", "draining", "gone"}
    BY <1>1 DEF Typed, EngineType
  <2> QED
    BY <1>0, <1>1, <1>2, <1>3, <1>4, <1>8, <2>1, <2>2, <2>3, <2>4 DEF LocalSame
<1>10. ASSUME NEW d \in App \ {a, b}
       PROVE  Quiet(en, wi, a, f, wi2, d) /\ Silent(en, wi, a, f, en2, wi2, d)
  <2>1. WireOK(en, wi, a, d) /\ HoldOK(en, wi, d, a)
    BY <1>0, PairAt
  <2>2. wi2[<<a, d>>] = wi[<<a, d>>] /\ wi2[<<d, a>>] = wi[<<d, a>>]
    BY <1>0, <1>1 DEF Local
  <2>3. Quiet(en, wi, a, f, wi2, d)
    BY <1>4, <2>1, <2>2 DEF Quiet, Local, WireOK, HoldOK
  <2>4. Silent(en, wi, a, f, en2, wi2, d)
    BY <1>8 DEF Silent, Local
  <2> QED
    BY <2>3, <2>4
<1> QED
  BY <1>7, <1>9, <1>10

LEMMA LocalOK ==
    ASSUME NEW en, NEW wi, NEW a, NEW b, NEW c, NEW f, NEW en2, NEW wi2, Local(en, wi, a, b, c, f, en2, wi2),
           PairOK(en2, wi2, a, b), PairOK(en2, wi2, b, a)
    PROVE  GraphOK(en2, wi2)
<1>1. /\ LocalSame(en, wi, a, b, c, f, en2, wi2) /\ SkippedOK(en2, wi2, a)
      /\ \A d \in App \ {a, b} : Quiet(en, wi, a, f, wi2, d) /\ Silent(en, wi, a, f, en2, wi2, d)
  BY ONLY Local(en, wi, a, b, c, f, en2, wi2), LocalFacts
<1>2. Change(en, wi, a, f, en2, wi2) /\ QueueOK(a, f) /\ ConnectingOK(f)
  BY ONLY Local(en, wi, a, b, c, f, en2, wi2), LocalEngine
<1>3. ASSUME NEW d \in App \ {a}
      PROVE  PairOK(en2, wi2, a, d) /\ PairOK(en2, wi2, d, a)
  <2>1. CASE d = b
    BY <2>1
  <2>2. CASE d # b
    <3>1. Quiet(en, wi, a, f, wi2, d) /\ Silent(en, wi, a, f, en2, wi2, d)
      BY <1>1, <2>2
    <3> QED
      BY ONLY <1>2, <3>1, d \in App \ {a}, MonoPair
  <2> QED
    BY <2>1, <2>2
<1> QED
  BY ONLY <1>1, <1>2, <1>3, ChangeOK

\* The app of b does not listen.
Refused(en, wi, a, b, f, en2, wi2) ==
  /\ Local(en, wi, a, b, <<a, b>>, f, en2, wi2)
  /\ en[a].state = "closing" /\ wi[<<a, b>>].st = "connecting"
  /\ wi2[<<a, b>>].st = "closed" /\ wi2[<<a, b>>].fwd = <<>> /\ wi2[<<a, b>>].back = <<>>
  /\ f.normal[b] = en[a].normal[b] /\ (b \notin f.weak \/ ~Pending(f, b))

LEMMA RefusedOK ==
    ASSUME NEW en, NEW wi, NEW a, NEW b, NEW f, NEW en2, NEW wi2, Refused(en, wi, a, b, f, en2, wi2)
    PROVE  GraphOK(en2, wi2)
<1> DEFINE e == en[a]
           w == wi[<<a, b>>]
           w2 == wi2[<<a, b>>]
<1>0. Local(en, wi, a, b, <<a, b>>, f, en2, wi2)
  BY DEF Refused
<1>1. LocalSame(en, wi, a, b, <<a, b>>, f, en2, wi2)
  BY ONLY <1>0, LocalFacts
<1>2. /\ f.state = e.state /\ f.original = e.original /\ f.requester = e.requester
      /\ f.inMsgs = e.inMsgs /\ f.tasks = e.tasks /\ f.weak \subseteq e.weak
      /\ e.state = "closing" /\ w.st = "connecting"
      /\ w2.st = "closed" /\ w2.fwd = <<>> /\ w2.back = <<>>
      /\ f.normal[b] = e.normal[b] /\ (b \notin f.weak \/ ~Pending(f, b))
  BY DEF Refused, Local
<1>3. w.fwd = <<>> /\ w.back = <<>>
  BY <1>1, <1>2 DEF LocalSame, WireOK
<1>4. wi2[<<b, a>>] = wi[<<b, a>>]
  BY <1>1 DEF LocalSame
<1> HIDE DEF e, w, w2
<1>5. /\ \A m : ~Has(w.fwd, m) /\ ~Has(w.back, m) /\ ~Has(w2.fwd, m) /\ ~Has(w2.back, m)
      /\ EofLast(w2.back)
  BY <1>2, <1>3, HasNone, EndsNone
<1>6. ~Joined(en, wi, a, b) /\ ~Coming(en, wi, a, b) /\ ~Queued(en, a, b) /\ en[b].normal[a] # <<a, b>>
  BY <1>1, <1>2, <1>5 DEF LocalSame, HoldOK, Joined, Coming, w
<1>7. /\ ~OnWire(wi2, a, b) /\ ~Queued(en2, a, b) /\ ~Coming(en2, wi2, a, b) /\ ~Joined(en2, wi2, a, b)
      /\ OnWire(wi2, b, a) <=> OnWire(wi, b, a)
      /\ Queued(en2, b, a) <=> Queued(en, b, a)
      /\ Coming(en2, wi2, b, a) <=> Coming(en, wi, b, a)
      /\ Joined(en2, wi2, b, a) <=> Joined(en, wi, b, a)
      /\ Answer(wi2, b, a) <=> Answer(wi, b, a)
  <2>1. ~OnWire(wi2, a, b)
    BY <1>5 DEF OnWire, w2
  <2>2. ~Queued(en2, a, b) /\ (Queued(en2, b, a) <=> Queued(en, b, a)) /\ en2[a] = f /\ en2[b] = en[b]
    BY <1>1, <1>6 DEF LocalSame
  <2>3. /\ OnWire(wi2, b, a) <=> OnWire(wi, b, a)
        /\ Answer(wi2, b, a) <=> Answer(wi, b, a)
    BY <1>4 DEF OnWire, Answer
  <2> QED
    BY <1>2, <1>6, <2>1, <2>2, <2>3 DEF Coming, Joined, e
<1>8. e.normal[b] # <<a, b>>
  BY <1>1, <1>2, <1>5 DEF LocalSame, HoldOK, e, w
<1>9. WireOK(en2, wi2, a, b)
  BY <1>1, <1>2, <1>5 DEF LocalSame, WireOK, e, w, w2
<1>10. WireOK(en2, wi2, b, a)
  BY <1>1, <1>2, <1>4, <1>7 DEF LocalSame, WireOK
<1>11. HoldOK(en2, wi2, a, b)
  BY <1>1, <1>2, <1>7, <1>8 DEF LocalSame, HoldOK, w2
<1>12. HoldOK(en2, wi2, b, a)
  BY <1>1, <1>2, <1>4, <1>7 DEF LocalSame, HoldOK, e
<1>13. SmallerOK(en2, wi2, a, b)
  <2>1. ~Kept(en2, wi2, a, b) /\ en2[b].normal[a] # <<a, b>>
    BY <1>1, <1>2, <1>5, <1>6, <1>8 DEF Kept, LocalSame, w2
  <2> QED
    BY <2>1 DEF SmallerOK
<1>14. SmallerOK(en2, wi2, b, a)
  BY <1>1, <1>2, <1>4, <1>6, <1>7 DEF LocalSame, SmallerOK, Away, Kept, e, w2
<1>15. AnswersOK(en2, wi2, a, b)
  BY <1>1, <1>2 DEF LocalSame, AnswersOK
<1>16. AnswersOK(en2, wi2, b, a)
  BY <1>1, <1>2, <1>4, <1>7 DEF LocalSame, AnswersOK, e
<1>17. PairOK(en2, wi2, a, b) /\ PairOK(en2, wi2, b, a)
  BY <1>9, <1>10, <1>11, <1>12, <1>13, <1>14, <1>15, <1>16 DEF PairOK
<1> QED
  BY ONLY <1>0, <1>17, LocalOK

LEMMA ShutWire ==
    ASSUME NEW wi \in [Channels -> WireType], NEW c \in Channels, NEW w2, w2 = [wi EXCEPT ![c].st = "closed"]
    PROVE  /\ w2 \in [Channels -> WireType] /\ \A d \in Channels : d # c => w2[d] = wi[d]
           /\ w2[c].st = "closed" /\ w2[c].fwd = wi[c].fwd /\ w2[c].back = wi[c].back
<1> DEFINE v == [wi[c] EXCEPT !.st = "closed"]
<1>1. wi[c] \in WireType
  OBVIOUS
<1>2. v \in WireType /\ v.st = "closed" /\ v.fwd = wi[c].fwd /\ v.back = wi[c].back
  BY <1>1 DEF WireType
<1>3. w2 = [wi EXCEPT ![c] = v]
  OBVIOUS
<1> HIDE DEF v
<1> QED
  BY <1>2, <1>3

LEMMA ConnectErrorOK ==
    ASSUME TypeInv, GraphOK(engine, wire), failed = "none", NEW c \in Channels, ConnectError(c)
    PROVE  failed' = "none" /\ GraphOK(engine', wire')
<1> DEFINE a == c[1]
           b == c[2]
           e == engine[a]
<1>1. a \in App /\ b \in App \ {a} /\ c = <<a, b>> /\ graph \in Graphs
  BY ChannelFacts DEF TypeInv
<1> DEFINE f == [e EXCEPT !.weak = @ \ {b}]
           v == Answered(wire, a, e, e.original, "error")
           w == IF e.original = None THEN wire ELSE v
<1>2. /\ wire[c].st = "connecting" /\ failed' = failed
      /\ engine' = [engine EXCEPT ![a] = IF e.original # None THEN GivenUp(e) ELSE f]
      /\ wire' = [w EXCEPT ![c].st = "closed"]
  BY DEF ConnectError
<1> HIDE DEF a, b
<1>3. /\ Typed(a, e) /\ QueueOK(a, e) /\ engine \in [App -> EngineType] /\ wire \in [Channels -> WireType]
      /\ WireOK(engine, wire, a, b) /\ HoldOK(engine, wire, a, b)
  BY <1>1, EngineAt, PairAt
<1>4. /\ b \in e.weak /\ wire[c].fwd = <<>> /\ wire[c].back = <<>>
      /\ e.state = "up" => e.original # None
      /\ e.original # None => ~Pending(e, b)
  BY <1>1, <1>2, <1>3 DEF WireOK
<1>5. e.state \in {"up", "closing"}
  BY <1>3, <1>4 DEF QueueOK, Typed, EngineType
<1>6. CASE e.original = None
  <2>1. w = wire
    BY <1>6
  <2>2. /\ wire' \in [Channels -> WireType] /\ \A d \in Channels : d # c => wire'[d] = wire[d]
        /\ wire'[c].st = "closed" /\ wire'[c].fwd = wire[c].fwd /\ wire'[c].back = wire[c].back
    BY ONLY <1>2, <1>3, <2>1, c \in Channels, ShutWire
  <2>3. /\ f \in EngineType /\ f.state = e.state /\ f.made = e.made /\ f.original = e.original
        /\ f.requester = e.requester /\ f.context = e.context /\ f.out = e.out /\ f.oks = e.oks
        /\ f.inMsgs = e.inMsgs /\ f.tasks = e.tasks /\ f.weak = e.weak \ {b} /\ f.normal = e.normal
    BY <1>3 DEF Typed, EngineType
  <2> HIDE DEF f, w
  <2>4. engine' = [engine EXCEPT ![a] = f]
    BY <1>2, <1>6
  <2>5. Local(engine, wire, a, b, c, f, engine', wire')
    BY <1>1, <1>2, <2>2, <2>3, <2>4 DEF Local
  <2>6. Refused(engine, wire, a, b, f, engine', wire')
    BY <1>1, <1>2, <1>4, <1>5, <1>6, <2>2, <2>3, <2>5 DEF Refused
  <2>7. GraphOK(engine', wire')
    BY ONLY <2>6, RefusedOK
  <2> QED
    BY <1>2, <2>7
<1>7. CASE e.original # None
  <2> DEFINE g == GivenUp(e)
             s == e.original
  <2>0. s \in Sources \ {a} /\ e.state = e.state
    BY <1>3, <1>7 DEF Typed, EngineType, RemotesOK
  <2>1. GraphOK(engine, w) /\ w[c] = wire[c]
    <3>1. w = Answered(wire, a, engine[a], s, "error")
      BY <1>7
    <3> HIDE DEF w, s
    <3>2. /\ GraphOK(engine, w)
          /\ \A d \in Channels : w[d].st = wire[d].st /\ (wire[d].st # "up" => w[d] = wire[d])
      BY <1>1, <2>0, <3>1, AnsweredOK
    <3> QED
      BY <1>2, <3>2
  <2>2. /\ Typed(a, g) /\ QueueOK(a, g) /\ g.state = "closing"
        /\ g.original \in {None, e.original} /\ (g = GivenUp(e) => g.original = None)
        /\ g.requester = e.requester /\ g.weak = e.weak /\ g.normal = e.normal /\ g.inMsgs = e.inMsgs
        /\ \A m : m # CloseTask => (Has(g.tasks, m) <=> Has(e.tasks, m))
        /\ \A m : Once(e.tasks, m) => Once(g.tasks, m)
    BY <1>1, <1>3, <1>5, ClosingForm
  <2>3. engine' = [engine EXCEPT ![a] = g]
    BY <1>2, <1>7
  <2> HIDE DEF g, w
  <2>4. Down(engine, w, a, g, engine')
    BY <1>1, <1>5, <2>1, <2>2, <2>3 DEF Down
  <2>5. GraphOK(engine', w) /\ engine'[a] = g
    BY ONLY <2>4, DownOK
  <2>6. w \in [Channels -> WireType] /\ engine' \in [App -> EngineType] /\ g \in EngineType
    BY <1>1, <2>2, <2>5, EngineAt DEF Typed
  <2>7. /\ wire' \in [Channels -> WireType] /\ \A d \in Channels : d # c => wire'[d] = w[d]
        /\ wire'[c].st = "closed" /\ wire'[c].fwd = w[c].fwd /\ wire'[c].back = w[c].back
    <3>1. w \in [Channels -> WireType] /\ wire' = [w EXCEPT ![c].st = "closed"]
      BY <1>2, <2>6
    <3> QED
      BY ONLY <3>1, c \in Channels, ShutWire
  <2>8. engine' = [engine' EXCEPT ![a] = g]
    BY <2>5, <2>6
  <2>9. Local(engine', w, a, b, c, g, engine', wire')
    BY <1>1, <1>2, <2>1, <2>5, <2>6, <2>7, <2>8 DEF Local
  <2>10. ~Pending(g, b)
    BY <1>4, <1>7, <2>2, TaskKinds DEF Pending
  <2>11. Refused(engine', w, a, b, g, engine', wire')
    BY <1>1, <1>2, <1>4, <2>1, <2>2, <2>5, <2>7, <2>9, <2>10, ZenonT(40) DEF Refused
  <2>12. GraphOK(engine', wire')
    BY ONLY <2>11, RefusedOK
  <2> QED
    BY <1>2, <2>12
<1> QED
  BY <1>6, <1>7

\* The connection to b is there, and the command goes out.
Reached(en, wi, a, b, wi2) ==
  /\ Local(en, wi, a, b, <<a, b>>, en[a], en, wi2) /\ wi[<<a, b>>].st = "connecting"
  /\ wi2[<<a, b>>].st = "up" /\ wi2[<<a, b>>].fwd = <<"start_graph">> /\ wi2[<<a, b>>].back = <<>>

LEMMA ReachedOK ==
    ASSUME NEW en, NEW wi, NEW a, NEW b, NEW wi2, Reached(en, wi, a, b, wi2)
    PROVE  GraphOK(en, wi2)
<1> DEFINE e == en[a]
           w == wi[<<a, b>>]
           w2 == wi2[<<a, b>>]
<1>0. Local(en, wi, a, b, <<a, b>>, en[a], en, wi2)
  BY DEF Reached
<1>1. LocalSame(en, wi, a, b, <<a, b>>, en[a], en, wi2)
  BY ONLY <1>0, LocalFacts
<1>2. w.st = "connecting" /\ w2.st = "up" /\ w2.fwd = <<"start_graph">> /\ w2.back = <<>>
  BY DEF Reached
<1>3. w.fwd = <<>> /\ w.back = <<>> /\ b \in e.weak /\ e.state # "none"
      /\ (e.state = "up" => e.original # None) /\ ~(e.original # None /\ Pending(e, b))
  BY <1>1, <1>2 DEF LocalSame, WireOK
<1>4. wi2[<<b, a>>] = wi[<<b, a>>]
  BY <1>1 DEF LocalSame
<1> HIDE DEF e, w, w2
<1>5. /\ \A m : ~Has(w.fwd, m) /\ ~Has(w.back, m) /\ ~Has(w2.back, m)
      /\ \A m : Has(w2.fwd, m) <=> m = "start_graph"
      /\ Once(w2.fwd, "start_graph")
      /\ EofLast(w2.back) /\ Single(w2.back)
  <2>1. \A m : Has(w2.fwd, m) <=> m = "start_graph"
    BY <1>2 DEF Has
  <2>2. Once(w2.fwd, "start_graph")
    BY <1>2 DEF Once
  <2> QED
    BY <1>2, <1>3, <2>1, <2>2, HasNone, EndsNone
<1>6. ~Joined(en, wi, a, b) /\ ~Coming(en, wi, a, b) /\ ~Queued(en, a, b) /\ en[b].normal[a] # <<a, b>>
  BY <1>1, <1>2, <1>5 DEF LocalSame, HoldOK, Joined, Coming, w
<1>7. /\ OnWire(wi2, a, b) /\ Coming(en, wi2, a, b) /\ Joined(en, wi2, a, b)
      /\ ~Answer(wi2, a, b) /\ Holds(en, a, b)
      /\ OnWire(wi2, b, a) <=> OnWire(wi, b, a)
      /\ Coming(en, wi2, b, a) <=> Coming(en, wi, b, a)
      /\ Joined(en, wi2, b, a) <=> Joined(en, wi, b, a)
      /\ Answer(wi2, b, a) <=> Answer(wi, b, a)
  BY <1>3, <1>4, <1>5 DEF Coming, Joined, OnWire, Answer, Holds, e, w2
<1>8. e.normal[b] # <<a, b>>
  BY <1>1, <1>2, <1>5 DEF LocalSame, HoldOK, e, w
<1>9. WireOK(en, wi2, a, b)
  BY <1>2, <1>3, <1>5 DEF WireOK, e, w2
<1>10. WireOK(en, wi2, b, a)
  BY <1>1, <1>4, <1>7 DEF LocalSame, WireOK
<1>11. HoldOK(en, wi2, a, b)
  BY <1>1, <1>2, <1>5, <1>6, <1>7, <1>8 DEF LocalSame, HoldOK, e, w2
<1>12. HoldOK(en, wi2, b, a)
  BY <1>1, <1>4, <1>7 DEF LocalSame, HoldOK
<1>13. SmallerOK(en, wi2, a, b)
  <2>1. ~Kept(en, wi2, a, b)
    BY <1>5, <1>8 DEF Kept, e, w2
  <2> QED
    BY <1>6, <2>1 DEF SmallerOK
<1>14. SmallerOK(en, wi2, b, a)
  BY <1>1, <1>2, <1>4 DEF LocalSame, SmallerOK, Away, Kept, w
<1>15. AnswersOK(en, wi2, a, b)
  <2>1. e.state \in {"none", "up"} => en[b].requester # a /\ en[b].original # a
    BY <1>1, <1>2 DEF LocalSame, AnswersOK, e, w
  <2>2. e.state \in {"none", "up"} => ~Owes(en, wi2, b, a)
    BY <2>1 DEF Owes
  <2> QED
    BY <1>2, <1>3, <1>5, <1>7, <2>1, <2>2 DEF AnswersOK, e, w2
<1>16. AnswersOK(en, wi2, b, a)
  <2>1. b \in App \ {a}
    BY <1>0 DEF Local
  <2> QED
    BY <1>1, <1>4, <1>7, <2>1 DEF LocalSame, AnswersOK
<1>17. PairOK(en, wi2, a, b) /\ PairOK(en, wi2, b, a)
  BY <1>9, <1>10, <1>11, <1>12, <1>13, <1>14, <1>15, <1>16 DEF PairOK
<1> QED
  BY ONLY <1>0, <1>17, LocalOK

\* Engines as they are, and one channel at a.
LEMMA LocalWire ==
    ASSUME graph \in Graphs, NEW en, NEW wi, GraphOK(en, wi), NEW a \in App, NEW b \in App \ {a},
           NEW c \in {<<a, b>>, <<b, a>>}, NEW wi2 \in [Channels -> WireType],
           \A d \in Channels : d # c => wi2[d] = wi[d], wi2[c].st = "none" <=> wi[c].st = "none"
    PROVE  Local(en, wi, a, b, c, en[a], en, wi2)
<1>1. en \in [App -> EngineType] /\ en[a] \in EngineType
  BY EngineAt
<1>2. en = [en EXCEPT ![a] = en[a]]
  BY <1>1
<1> QED
  BY <1>1, <1>2 DEF Local

LEMMA ConnectedOK ==
    ASSUME TypeInv, GraphOK(engine, wire), failed = "none", NEW c \in Channels, Connected(c)
    PROVE  failed' = "none" /\ GraphOK(engine', wire')
<1> DEFINE a == c[1]
           b == c[2]
           v == [wire[c] EXCEPT !.st = "up", !.fwd = <<"start_graph">>]
<1>1. a \in App /\ b \in App \ {a} /\ c = <<a, b>> /\ graph \in Graphs
  BY ChannelFacts DEF TypeInv
<1>2. /\ wire[c].st = "connecting" /\ failed' = failed /\ engine' = engine
      /\ wire' = [wire EXCEPT ![c] = v]
  BY DEF Connected
<1> HIDE DEF a, b
<1>3. wire \in [Channels -> WireType] /\ WireOK(engine, wire, a, b)
  BY <1>1, EngineAt, PairAt
<1>4. v \in WireType /\ v.st = "up" /\ v.fwd = <<"start_graph">> /\ v.back = <<>>
  <2>1. wire[c] \in WireType /\ <<"start_graph">> \in Seq(FwdType)
    BY <1>3 DEF FwdType
  <2>2. wire[c].back = <<>>
    BY <1>1, <1>2, <1>3 DEF WireOK
  <2> QED
    BY <2>1, <2>2 DEF WireType
<1> HIDE DEF v
<1>5. wire' \in [Channels -> WireType] /\ wire'[c] = v /\ \A d \in Channels : d # c => wire'[d] = wire[d]
  BY <1>2, <1>3, <1>4
<1>6. Local(engine, wire, a, b, c, engine[a], engine, wire')
  BY <1>1, <1>2, <1>4, <1>5, LocalWire
<1>7. Reached(engine, wire, a, b, wire')
  BY <1>1, <1>2, <1>4, <1>5, <1>6 DEF Reached
<1>8. GraphOK(engine, wire')
  BY ONLY <1>7, ReachedOK
<1> QED
  BY <1>2, <1>8

-----------------------------------------------------------------------------
(* A result is received *)

\* A result, not the end, is taken from the channel that a made to b.
Pops(wi, a, b, wi2) ==
  LET w == wi[<<a, b>>]
      w2 == wi2[<<a, b>>] IN
  /\ w \in WireType /\ w.back # <<>> /\ Head(w.back) # "eof"
  /\ w2.st = w.st /\ w2.fwd = w.fwd /\ w2.back = Tail(w.back)

LEMMA PopsFacts ==
    ASSUME NEW wi, NEW a, NEW b, NEW wi2, Pops(wi, a, b, wi2)
    PROVE  LET w == wi[<<a, b>>]
               w2 == wi2[<<a, b>>] IN
           /\ Has(w.back, Head(w.back)) /\ w.back # <<>>
           /\ \A m : Has(w2.back, m) => Has(w.back, m)
           /\ Has(w2.back, "eof") <=> Has(w.back, "eof")
           /\ EofLast(w.back) => EofLast(w2.back)
           /\ Single(w.back) => /\ Single(w2.back)
                                /\ Head(w.back) \in {"ok", "duplicate"} => ~Answer(wi2, a, b)
           /\ Answer(wi2, a, b) => Answer(wi, a, b)
           /\ OnWire(wi2, a, b) <=> OnWire(wi, a, b)
<1> DEFINE w == wi[<<a, b>>]
           w2 == wi2[<<a, b>>]
<1>1. /\ w.back \in Seq(BackType) /\ w.back # <<>> /\ Head(w.back) # "eof"
      /\ w2.fwd = w.fwd /\ w2.back = Tail(w.back)
  BY DEF Pops, WireType
<1> HIDE DEF w, w2
<1>2. \A m : Has(w.back, m) <=> Head(w.back) = m \/ Has(w2.back, m)
  BY <1>1, HasTail
<1>3. /\ EofLast(w.back) => EofLast(w2.back)
      /\ Single(w.back) => /\ Single(w2.back)
                           /\ Head(w.back) \in {"ok", "duplicate"} => ~Has(w2.back, "ok") /\ ~Has(w2.back, "duplicate")
  BY <1>1, EndsTail
<1> QED
  BY <1>1, <1>2, <1>3 DEF Answer, OnWire, w, w2

LEMMA PopOK ==
    ASSUME NEW en, NEW wi, NEW a, NEW b, NEW wi2, Local(en, wi, a, b, <<a, b>>, en[a], en, wi2),
           Pops(wi, a, b, wi2)
    PROVE  GraphOK(en, wi2)
<1> DEFINE e == en[a]
           w == wi[<<a, b>>]
           w2 == wi2[<<a, b>>]
<1>1. LocalSame(en, wi, a, b, <<a, b>>, en[a], en, wi2)
  BY ONLY Local(en, wi, a, b, <<a, b>>, en[a], en, wi2), LocalFacts
<1>2. w2.st = w.st /\ w2.fwd = w.fwd
  BY DEF Pops
<1>3. /\ w.back # <<>> /\ \A m : Has(w2.back, m) => Has(w.back, m)
      /\ Has(w2.back, "eof") <=> Has(w.back, "eof")
      /\ EofLast(w.back) => EofLast(w2.back)
      /\ Single(w.back) => Single(w2.back)
      /\ Answer(wi2, a, b) => Answer(wi, a, b)
      /\ OnWire(wi2, a, b) <=> OnWire(wi, a, b)
  BY PopsFacts
<1>4. wi2[<<b, a>>] = wi[<<b, a>>] /\ b \in App \ {a}
  BY <1>1 DEF LocalSame, Local
<1>5. w.st \notin {"none", "connecting"} /\ ~Has(w.fwd, "eof")
  BY <1>1, <1>3 DEF LocalSame, WireOK
<1> HIDE DEF e, w, w2
<1>7. /\ Coming(en, wi2, a, b) <=> Coming(en, wi, a, b)
      /\ Joined(en, wi2, a, b) <=> Joined(en, wi, a, b)
      /\ OnWire(wi2, b, a) <=> OnWire(wi, b, a)
      /\ Coming(en, wi2, b, a) <=> Coming(en, wi, b, a)
      /\ Joined(en, wi2, b, a) <=> Joined(en, wi, b, a)
      /\ Answer(wi2, b, a) <=> Answer(wi, b, a)
  BY <1>3, <1>4 DEF Coming, Joined, OnWire, Answer
<1>9. WireOK(en, wi2, a, b)
  BY <1>1, <1>2, <1>3, <1>5, <1>7 DEF LocalSame, WireOK, w, w2
<1>10. WireOK(en, wi2, b, a)
  BY <1>1, <1>4, <1>7 DEF LocalSame, WireOK
<1>11. HoldOK(en, wi2, a, b)
  BY <1>1, <1>2, <1>3, <1>7 DEF LocalSame, HoldOK, w, w2
<1>12. HoldOK(en, wi2, b, a)
  BY <1>1, <1>4, <1>7 DEF LocalSame, HoldOK
<1>13. SmallerOK(en, wi2, a, b)
  BY <1>1, <1>3, <1>4, <1>7 DEF LocalSame, SmallerOK, Away, Kept, w, w2
<1>14. SmallerOK(en, wi2, b, a)
  BY <1>1, <1>2, <1>4, <1>7 DEF LocalSame, SmallerOK, Away, Kept, w, w2
<1>15. AnswersOK(en, wi2, a, b)
  BY <1>1, <1>2, <1>3, <1>7 DEF LocalSame, AnswersOK, w, w2
<1>16. AnswersOK(en, wi2, b, a)
  BY <1>1, <1>4, <1>7 DEF LocalSame, AnswersOK
<1>17. PairOK(en, wi2, a, b) /\ PairOK(en, wi2, b, a)
  BY <1>9, <1>10, <1>11, <1>12, <1>13, <1>14, <1>15, <1>16 DEF PairOK
<1> QED
  BY ONLY Local(en, wi, a, b, <<a, b>>, en[a], en, wi2), <1>17, LocalOK

\* The result is OK, or no error at any rate: a's remote for b is weak no more.
Settles(en, wi, a, b, f, en2, wi2) ==
  /\ Local(en, wi, a, b, <<a, b>>, f, en2, wi2) /\ en[a].state = "up"
  /\ wi[<<a, b>>] \in WireType /\ wi[<<a, b>>].back # <<>> /\ f.weak = en[a].weak \ {b}

\* What was known of the two before.
LEMMA SettlesFacts ==
    ASSUME NEW en, NEW wi, NEW a, NEW b, NEW f, NEW en2, NEW wi2, Settles(en, wi, a, b, f, en2, wi2),
           Answer(wi, a, b)
    PROVE  /\ LocalSame(en, wi, a, b, <<a, b>>, f, en2, wi2) /\ b \in en[a].weak
           /\ wi[<<a, b>>].st = "up" \/ Has(wi[<<a, b>>].back, "eof")
           /\ ~Has(wi[<<a, b>>].fwd, "eof") /\ ~Coming(en, wi, a, b)
           /\ ~(en[b].state = "up" /\ (en[b].requester = a \/ Owes(en, wi, b, a)))
           /\ en[a].original # None /\ ~Pending(en[a], b) /\ Single(wi[<<a, b>>].back)
           /\ en[a].normal[b] # <<a, b>> /\ ~Away(en, wi, a, b)
           /\ wi2[<<b, a>>] = wi[<<b, a>>] /\ a \in App /\ b \in App \ {a}
<1>1. LocalSame(en, wi, a, b, <<a, b>>, f, en2, wi2) /\ a \in App /\ b \in App \ {a} /\ GraphOK(en, wi)
  <2>1. Local(en, wi, a, b, <<a, b>>, f, en2, wi2)
    BY DEF Settles
  <2>2. LocalSame(en, wi, a, b, <<a, b>>, f, en2, wi2)
    BY ONLY <2>1, LocalFacts
  <2> QED
    BY <2>1, <2>2 DEF Local
<1>2. /\ WireOK(en, wi, a, b) /\ HoldOK(en, wi, a, b) /\ SmallerOK(en, wi, a, b) /\ AnswersOK(en, wi, a, b)
      /\ WireOK(en, wi, b, a)
  BY <1>1 DEF LocalSame
<1>3. /\ b \in en[a].weak /\ ~Coming(en, wi, a, b) /\ Single(wi[<<a, b>>].back)
      /\ ~(en[b].state = "up" /\ (en[b].requester = a \/ Owes(en, wi, b, a)))
  BY <1>2 DEF AnswersOK, Settles
<1>4. wi[<<a, b>>].st \notin {"none", "connecting"} /\ ~Has(wi[<<a, b>>].fwd, "eof")
  BY <1>2 DEF WireOK, Settles
<1>5. wi[<<a, b>>].st = "up" \/ Has(wi[<<a, b>>].back, "eof")
  BY <1>2, <1>3, <1>4 DEF HoldOK, Settles
<1>6. en[a].original # None /\ ~Pending(en[a], b)
  BY <1>2, <1>4 DEF WireOK, Settles
<1>7. en[a].normal[b] # <<a, b>> /\ ~Away(en, wi, a, b)
  BY <1>2, <1>3 DEF HoldOK, Away
<1>8. wi2[<<b, a>>] = wi[<<b, a>>]
  BY <1>1 DEF LocalSame
<1> QED
  BY <1>1, <1>3, <1>4, <1>5, <1>6, <1>7, <1>8

\* The channel stays.
Upgrades(en, wi, a, b, f, en2, wi2) ==
  /\ Settles(en, wi, a, b, f, en2, wi2) /\ Pops(wi, a, b, wi2)
  /\ Head(wi[<<a, b>>].back) = "ok" /\ f.normal[b] = <<a, b>>

LEMMA UpgradesOK ==
    ASSUME NEW en, NEW wi, NEW a, NEW b, NEW f, NEW en2, NEW wi2, Upgrades(en, wi, a, b, f, en2, wi2)
    PROVE  GraphOK(en2, wi2)
<1> DEFINE e == en[a]
           w == wi[<<a, b>>]
           w2 == wi2[<<a, b>>]
<1>0. Settles(en, wi, a, b, f, en2, wi2) /\ Local(en, wi, a, b, <<a, b>>, f, en2, wi2)
  BY DEF Upgrades, Settles
<1>1. /\ w.back # <<>> /\ Has(w.back, "ok") /\ \A m : Has(w2.back, m) => Has(w.back, m)
      /\ Has(w2.back, "eof") <=> Has(w.back, "eof")
      /\ EofLast(w.back) => EofLast(w2.back)
      /\ Single(w.back) => Single(w2.back) /\ ~Answer(wi2, a, b)
      /\ Answer(wi2, a, b) => Answer(wi, a, b)
      /\ OnWire(wi2, a, b) <=> OnWire(wi, a, b)
      /\ Answer(wi, a, b)
  <2>1. Pops(wi, a, b, wi2) /\ Head(w.back) = "ok"
    BY DEF Upgrades
  <2>2. /\ Has(w.back, Head(w.back)) /\ w.back # <<>>
        /\ \A m : Has(w2.back, m) => Has(w.back, m)
        /\ Has(w2.back, "eof") <=> Has(w.back, "eof")
        /\ EofLast(w.back) => EofLast(w2.back)
        /\ Single(w.back) => /\ Single(w2.back)
                             /\ Head(w.back) \in {"ok", "duplicate"} => ~Answer(wi2, a, b)
        /\ Answer(wi2, a, b) => Answer(wi, a, b)
        /\ OnWire(wi2, a, b) <=> OnWire(wi, a, b)
    BY ONLY <2>1, PopsFacts
  <2>3. Has(w.back, "ok")
    BY <2>1, <2>2
  <2> QED
    BY <2>1, <2>2, <2>3 DEF Answer
<1>2. /\ LocalSame(en, wi, a, b, <<a, b>>, f, en2, wi2) /\ b \in e.weak
      /\ w.st = "up" \/ Has(w.back, "eof")
      /\ ~Has(w.fwd, "eof") /\ ~Coming(en, wi, a, b)
      /\ ~(en[b].state = "up" /\ (en[b].requester = a \/ Owes(en, wi, b, a)))
      /\ e.original # None /\ ~Pending(e, b) /\ Single(w.back)
      /\ e.normal[b] # <<a, b>> /\ ~Away(en, wi, a, b)
      /\ wi2[<<b, a>>] = wi[<<b, a>>] /\ a \in App /\ b \in App \ {a}
  BY ONLY <1>0, <1>1, SettlesFacts
<1>3. /\ f.state = e.state /\ f.original = e.original /\ f.requester = e.requester
      /\ f.inMsgs = e.inMsgs /\ f.tasks = e.tasks /\ f.weak = e.weak \ {b} /\ e.state = "up"
      /\ f.normal[b] = <<a, b>> /\ w2.st = w.st /\ w2.fwd = w.fwd
  BY DEF Upgrades, Settles, Local, Pops
<1>4. w.st \notin {"none", "connecting"}
  BY <1>1, <1>2 DEF LocalSame, WireOK
<1> HIDE DEF e, w, w2
<1>7. /\ ~Coming(en2, wi2, a, b) /\ Holds(en2, a, b) /\ Holds(en, a, b)
      /\ Joined(en2, wi2, a, b) <=> Joined(en, wi, a, b)
      /\ OnWire(wi2, b, a) <=> OnWire(wi, b, a)
      /\ Queued(en2, b, a) <=> Queued(en, b, a)
      /\ Coming(en2, wi2, b, a) <=> Coming(en, wi, b, a)
      /\ Joined(en2, wi2, b, a) => Joined(en, wi, b, a)
      /\ Answer(wi2, b, a) <=> Answer(wi, b, a)
  <2>1. /\ Queued(en2, a, b) <=> Queued(en, a, b)
        /\ Queued(en2, b, a) <=> Queued(en, b, a)
        /\ en2[a] = f /\ en2[b] = en[b] /\ <<a, b>> # <<b, a>>
    BY <1>2 DEF LocalSame
  <2> QED
    BY <1>1, <1>2, <1>3, <2>1 DEF Coming, Joined, OnWire, Answer, Holds, e
<1>8. OnWire(wi2, a, b) <=> OnWire(wi, a, b)
  BY <1>1
<1>9. WireOK(en2, wi2, a, b)
  BY <1>1, <1>2, <1>3, <1>4, <1>7 DEF LocalSame, WireOK, e, w, w2
<1>10. WireOK(en2, wi2, b, a)
  BY <1>2, <1>3, <1>7 DEF LocalSame, WireOK
<1>11. HoldOK(en2, wi2, a, b)
  BY <1>1, <1>2, <1>3, <1>7 DEF LocalSame, HoldOK, w, w2
<1>12. HoldOK(en2, wi2, b, a)
  BY <1>2, <1>3, <1>7 DEF LocalSame, HoldOK, e
<1>13. SmallerOK(en2, wi2, a, b)
  <2>1. Away(en, wi, b, a) => Away(en2, wi2, b, a)
    BY <1>2, <1>7 DEF LocalSame, Away
  <2>2. Kept(en, wi, a, b)
    BY <1>1 DEF Kept, w
  <2> QED
    BY <1>2, <1>3, <2>1, <2>2 DEF LocalSame, SmallerOK
<1>14. SmallerOK(en2, wi2, b, a)
  <2> SUFFICES ASSUME graph.uri[b] < graph.uri[a] PROVE SmallerOK(en2, wi2, b, a)
    BY DEF SmallerOK
  <2>1. ~Kept(en, wi, b, a)
    BY <1>2 DEF SmallerOK, LocalSame
  <2>2. ~Kept(en2, wi2, b, a)
    BY <1>2, <2>1 DEF Kept, LocalSame
  <2> QED
    BY <1>2, <1>3, <2>2 DEF SmallerOK, LocalSame
<1>15. AnswersOK(en2, wi2, a, b)
  BY <1>1, <1>2, <1>3, <1>4, <1>7 DEF LocalSame, AnswersOK, w, w2
<1>16. AnswersOK(en2, wi2, b, a)
  BY <1>2, <1>3, <1>7 DEF LocalSame, AnswersOK, e
<1>17. PairOK(en2, wi2, a, b) /\ PairOK(en2, wi2, b, a)
  BY <1>9, <1>10, <1>11, <1>12, <1>13, <1>14, <1>15, <1>16 DEF PairOK
<1> QED
  BY ONLY <1>0, <1>17, LocalOK

\* The channel is a duplicate, and is closed.
HangsUp(en, wi, a, b, f, en2, wi2) ==
  /\ Settles(en, wi, a, b, f, en2, wi2) /\ Head(wi[<<a, b>>].back) = "duplicate"
  /\ f.normal[b] = en[a].normal[b] /\ wi2[<<a, b>>].st = "closed"
  /\ wi2[<<a, b>>].fwd = Append(wi[<<a, b>>].fwd, "eof") /\ wi2[<<a, b>>].back = <<>>

LEMMA HangsUpOK ==
    ASSUME NEW en, NEW wi, NEW a, NEW b, NEW f, NEW en2, NEW wi2, HangsUp(en, wi, a, b, f, en2, wi2)
    PROVE  GraphOK(en2, wi2)
<1> DEFINE e == en[a]
           w == wi[<<a, b>>]
           w2 == wi2[<<a, b>>]
<1>0. Settles(en, wi, a, b, f, en2, wi2) /\ Local(en, wi, a, b, <<a, b>>, f, en2, wi2)
  BY DEF HangsUp, Settles
<1>1. /\ w.back # <<>> /\ Has(w.back, "duplicate") /\ \A m : ~Has(w2.back, m)
      /\ EofLast(w2.back) /\ Single(w2.back) /\ ~Answer(wi2, a, b)
      /\ OnWire(wi2, a, b) <=> OnWire(wi, a, b)
      /\ Once(w.fwd, "start_graph") => Once(w2.fwd, "start_graph")
      /\ Has(w2.fwd, "eof") /\ Answer(wi, a, b)
  <2>1. /\ w.back \in Seq(BackType) /\ w.back # <<>> /\ Head(w.back) = "duplicate"
        /\ w.fwd \in Seq(FwdType) /\ "eof" \in FwdType
        /\ w2.fwd = Append(w.fwd, "eof") /\ w2.back = <<>>
    BY DEF HangsUp, Settles, WireType, FwdType
  <2> HIDE DEF w, w2
  <2>2. Has(w.back, "duplicate")
    BY <2>1, HasTail
  <2>3. /\ \A m : Has(w2.fwd, m) <=> Has(w.fwd, m) \/ m = "eof"
        /\ Once(w.fwd, "start_graph") => Once(w2.fwd, "start_graph")
    BY <2>1, HasAppend
  <2>4. (\A m : ~Has(w2.back, m)) /\ EofLast(w2.back) /\ Single(w2.back)
    BY <2>1, HasNone, EndsNone
  <2> QED
    BY <2>1, <2>2, <2>3, <2>4 DEF Answer, OnWire, w, w2
<1>2. /\ LocalSame(en, wi, a, b, <<a, b>>, f, en2, wi2) /\ b \in e.weak
      /\ w.st = "up" \/ Has(w.back, "eof")
      /\ ~Has(w.fwd, "eof") /\ ~Coming(en, wi, a, b)
      /\ ~(en[b].state = "up" /\ (en[b].requester = a \/ Owes(en, wi, b, a)))
      /\ e.original # None /\ ~Pending(e, b) /\ Single(w.back)
      /\ e.normal[b] # <<a, b>> /\ ~Away(en, wi, a, b)
      /\ wi2[<<b, a>>] = wi[<<b, a>>] /\ a \in App /\ b \in App \ {a}
  BY ONLY <1>0, <1>1, SettlesFacts
<1>3. /\ f.state = e.state /\ f.original = e.original /\ f.requester = e.requester
      /\ f.inMsgs = e.inMsgs /\ f.tasks = e.tasks /\ f.weak = e.weak \ {b} /\ e.state = "up"
      /\ f.normal[b] = e.normal[b] /\ w2.st = "closed" /\ w2.back = <<>>
  BY DEF HangsUp, Settles, Local
<1>4. w.st \notin {"none", "connecting"} /\ graph.uri[a] < graph.uri[b]
  BY <1>1, <1>2 DEF LocalSame, WireOK
<1>5. ~(graph.uri[b] < graph.uri[a])
  <2>1. graph.uri[a] \in Nat /\ graph.uri[b] \in Nat
    BY <1>0, <1>2, GraphFacts DEF Local
  <2> QED
    BY <1>4, <2>1
<1> HIDE DEF e, w, w2
<1>7. /\ ~Coming(en2, wi2, a, b) /\ ~Holds(en2, a, b) /\ Holds(en, a, b)
      /\ Joined(en2, wi2, a, b) <=> Joined(en, wi, a, b)
      /\ OnWire(wi2, b, a) <=> OnWire(wi, b, a)
      /\ Queued(en2, b, a) <=> Queued(en, b, a)
      /\ Coming(en2, wi2, b, a) <=> Coming(en, wi, b, a)
      /\ Joined(en2, wi2, b, a) <=> Joined(en, wi, b, a)
      /\ Answer(wi2, b, a) <=> Answer(wi, b, a)
  <2>1. /\ Queued(en2, a, b) <=> Queued(en, a, b)
        /\ Queued(en2, b, a) <=> Queued(en, b, a)
        /\ en2[a] = f /\ en2[b] = en[b] /\ <<a, b>> # <<b, a>>
    BY <1>2 DEF LocalSame
  <2> QED
    BY <1>1, <1>2, <1>3, <2>1 DEF Coming, Joined, OnWire, Answer, Holds, e
<1>9. WireOK(en2, wi2, a, b)
  BY <1>1, <1>2, <1>3, <1>5, <1>7 DEF LocalSame, WireOK, e, w2
<1>10. WireOK(en2, wi2, b, a)
  BY <1>2, <1>3, <1>7 DEF LocalSame, WireOK
<1>11. HoldOK(en2, wi2, a, b)
  BY <1>1, <1>2, <1>3, <1>7 DEF LocalSame, HoldOK, e, w, w2
<1>12. HoldOK(en2, wi2, b, a)
  BY <1>2, <1>3, <1>7 DEF LocalSame, HoldOK, e
<1>13. SmallerOK(en2, wi2, a, b)
  <2>1. Away(en, wi, b, a) => Away(en2, wi2, b, a)
    BY <1>2, <1>7 DEF LocalSame, Away
  <2>2. ~Kept(en2, wi2, a, b)
    BY <1>1, <1>2, <1>3 DEF Kept, w2, LocalSame
  <2> QED
    BY <1>2, <1>3, <2>1, <2>2 DEF LocalSame, SmallerOK
<1>14. SmallerOK(en2, wi2, b, a)
  BY <1>5 DEF SmallerOK
<1>15. AnswersOK(en2, wi2, a, b)
  BY <1>1, <1>2, <1>3, <1>4, <1>7 DEF LocalSame, AnswersOK, w, w2
<1>16. AnswersOK(en2, wi2, b, a)
  BY <1>2, <1>3, <1>7 DEF LocalSame, AnswersOK, e
<1>17. PairOK(en2, wi2, a, b) /\ PairOK(en2, wi2, b, a)
  BY <1>9, <1>10, <1>11, <1>12, <1>13, <1>14, <1>15, <1>16 DEF PairOK
<1> QED
  BY ONLY <1>0, <1>17, LocalOK

\* The result of b is counted by the engine of a, that waits for it.
Counts(en, wi, a, b, f, en2) ==
  /\ graph \in Graphs /\ GraphOK(en, wi) /\ a \in App /\ b \in App \ {a}
  /\ en[a].state = "up" /\ b \in en[a].out /\ wi[<<a, b>>].st # "none"
  /\ f = WithResult(en[a], b) /\ en2 = [en EXCEPT ![a] = f]

LEMMA CountsOK ==
    ASSUME NEW en, NEW wi, NEW a, NEW b, NEW f, NEW en2, Counts(en, wi, a, b, f, en2)
    PROVE  /\ GraphOK(en2, wi) /\ en2[a] = f /\ Alike(en[a], f) /\ f.context = en[a].context
           /\ f.original \in Sources \ {a} /\ (f.out = {} => Due(en2, wi, a, f.original))
<1> USE DEF Counts
<1> DEFINE e == en[a]
           oks == e.oks \cup {b}
<1>1. /\ Typed(a, e) /\ QueueOK(a, e) /\ ConnectingOK(e) /\ wi \in [Channels -> WireType] /\ e \in EngineType
      /\ WireOK(en, wi, a, b) /\ e.oks \subseteq e.out /\ e.out \subseteq App \ {a}
  BY EngineAt, PairAt DEF Typed, RemotesOK
<1>2. e.original # None /\ ~Pending(e, b) /\ e.original \in Sources \ {a}
  <2>1. e.original # None
    BY <1>1 DEF WireOK
  <2> QED
    BY <1>1, <2>1 DEF WireOK, Typed, EngineType, RemotesOK
<1>3. f = IF oks = e.out THEN [e EXCEPT !.out = {}, !.oks = {}] ELSE [e EXCEPT !.oks = oks]
  BY DEF WithResult
<1>4. oks \subseteq e.out
  BY <1>1
<1> HIDE DEF oks
<1>5. /\ f \in EngineType /\ Alike(e, f) /\ f.context = e.context /\ f.requester = e.requester
      /\ oks = e.out => f.out = {} /\ f.oks = {}
      /\ oks # e.out => f.out = e.out /\ f.oks = oks
  <2> HIDE DEF e
  <2>1. e \in EngineType /\ oks \in SUBSET App
    BY <1>1, <1>4
  <2>2. CASE oks = e.out
    <3>1. f = [e EXCEPT !.out = {}, !.oks = {}]
      BY <1>3, <2>2
    <3> QED
      BY ONLY <2>1, <2>2, <3>1 DEF EngineType, Alike
  <2>3. CASE oks # e.out
    <3>1. f = [e EXCEPT !.oks = oks]
      BY <1>3, <2>3
    <3> QED
      BY ONLY <2>1, <2>3, <3>1 DEF EngineType, Alike
  <2> QED
    BY <2>2, <2>3
<1> HIDE DEF e
<1>6. Typed(a, f)
  BY <1>1, <1>4, <1>5 DEF Typed, RemotesOK, Alike, Pending
<1>7. Change(en, wi, a, f, en2, wi)
  BY <1>1, <1>6 DEF Change
<1>8. en2[a] = f
  BY ONLY <1>7, ChangeFacts
<1>9. \A d : Pending(f, d) <=> Pending(e, d)
  BY <1>5 DEF Alike, Pending
<1>10. oks = e.out => (\A d \in App : ~Pending(f, d)) /\ Skipped(en, wi, a) = {}
  <2> SUFFICES ASSUME oks = e.out
               PROVE  (\A d \in App : ~Pending(f, d)) /\ Skipped(en, wi, a) = {}
    OBVIOUS
  <2>1. e.out \ e.oks \subseteq {b}
    BY DEF oks
  <2>2. \A d \in App : Pending(e, d) => d = b
    BY <2>1, <1>1 DEF ConnectingOK, e
  <2>3. Skipped(en, wi, a) = {}
    BY <2>1 DEF Skipped, e
  <2> QED
    BY <1>2, <1>9, <2>2, <2>3 DEF e
<1>11. GraphOK(en2, wi)
  <2>1. e.context = "starting" => e.requester # None
    BY <1>1 DEF ConnectingOK, e
  <2>2. oks # e.out => /\ f.out = e.out /\ e.oks \subseteq f.oks
                       /\ \A d \in f.oks \ e.oks : wi[<<a, d>>].st # "none"
    BY <1>5 DEF oks
  <2>3. /\ Alike(en[a], f) /\ f.requester \in {None, en[a].requester}
        /\ f.state = "up" /\ f.context = "starting" => f.requester # None
        /\ \/ /\ f.out = en[a].out /\ en[a].oks \subseteq f.oks
              /\ \A d \in f.oks \ en[a].oks : wi[<<a, d>>].st # "none"
           \/ f.out = {} /\ (f.state = "up" => \A d \in App : ~Pending(f, d))
    BY <1>5, <1>10, <2>1, <2>2 DEF e
  <2> QED
    BY ONLY <1>7, <2>3, PrivateChange
<1>12. f.original = e.original
  BY <1>5 DEF Alike
<1>13. ASSUME f.out = {}
       PROVE  Due(en2, wi, a, f.original)
  <2> DEFINE s == f.original
  <2>1. oks = e.out
    BY <1>5, <1>13 DEF e
  <2>2. Owes(en, wi, a, s) /\ ~Owes(en2, wi, a, s)
    BY <1>8, <1>10, <1>12, <1>13, <2>1 DEF Owes, e
  <2>3. s \in Sources \ {a}
    BY <1>2, <1>12
  <2>4. s \in App => Quiet(en, wi, a, f, wi, s)
    BY <1>5, <2>3, QuietAlike DEF e
  <2>5. f.requester = en[a].requester /\ en[a].state = "up"
    BY <1>5 DEF e
  <2> HIDE DEF s
  <2>6. Due(en2, wi, a, s)
    BY ONLY <1>7, <2>2, <2>3, <2>4, <2>5, DueAfter
  <2> QED
    BY <2>6 DEF s
<1> QED
  BY <1>2, <1>5, <1>8, <1>11, <1>12, <1>13 DEF e

\* a, that may tell s the last word, starts its extensions for s first.
StartsContext(en, wi, a, s, f, en2) ==
  /\ graph \in Graphs /\ GraphOK(en, wi) /\ a \in App /\ s \in Sources \ {a}
  /\ en[a].state = "up" /\ Due(en, wi, a, s)
  /\ f = [en[a] EXCEPT !.context = "starting", !.requester = s] /\ en2 = [en EXCEPT ![a] = f]

LEMMA StartsContextOK ==
    ASSUME NEW en, NEW wi, NEW a, NEW s, NEW f, NEW en2, StartsContext(en, wi, a, s, f, en2)
    PROVE  GraphOK(en2, wi)
<1> USE DEF StartsContext
<1>1. Typed(a, en[a]) /\ en[a] \in EngineType /\ wi \in [Channels -> WireType] /\ s \in Sources /\ s # None
  BY EngineAt, ChannelFacts DEF Typed
<1>2. /\ f.context = "starting" /\ f.requester = s /\ f.out = en[a].out /\ f.oks = en[a].oks
      /\ Alike(en[a], f) /\ f \in EngineType
  BY <1>1 DEF EngineType, Alike
<1>3. Typed(a, f)
  BY <1>1, <1>2 DEF Typed, RemotesOK, Pending, Alike
<1>4. Change(en, wi, a, f, en2, wi)
  BY <1>1, <1>3 DEF Change
<1>5. /\ en[a].state = "up" /\ f.requester \in Sources \ {a} /\ Due(en, wi, a, f.requester)
      /\ f.requester # None /\ f.out = en[a].out /\ en[a].oks \subseteq f.oks
      /\ \A b \in f.oks \ en[a].oks : wi[<<a, b>>].st # "none"
  BY <1>1, <1>2
<1> QED
  BY ONLY <1>2, <1>4, <1>5, PrivateChange

\* What the engine of a is after a result over c that is no error, and the channels.
Settling(a, c, r, s, w, en) ==
  /\ c \in Channels /\ a = c[1] /\ r = Head(wire[c].back) /\ r \in {"ok", "duplicate"}
  /\ graph \in Graphs /\ GraphOK(engine, wire) /\ wire[c].back # <<>> /\ engine[a].state = "up"
  /\ s = Settled(engine[a], c, r) /\ en = [engine EXCEPT ![a] = s]
  /\ w = IF r = "duplicate" THEN HungUp(wire, c) ELSE [wire EXCEPT ![c].back = Tail(@)]

LEMMA SettlingOK ==
    ASSUME NEW a, NEW c, NEW r, NEW s, NEW w, NEW en, Settling(a, c, r, s, w, en)
    PROVE  /\ GraphOK(en, w) /\ en[a] = s /\ en \in [App -> EngineType] /\ w[c].st # "none"
           /\ c[2] \in engine[a].weak /\ engine[a].original # None
           /\ s.state = "up" /\ s.out = engine[a].out
<1> USE DEF Settling
<1> DEFINE e == engine[a]
           b == c[2]
           v == IF r = "duplicate" THEN [st |-> "closed", fwd |-> Append(wire[c].fwd, "eof"), back |-> <<>>]
                ELSE [wire[c] EXCEPT !.back = Tail(@)]
<1>1. a \in App /\ b \in App \ {a} /\ c = <<a, b>>
  BY ChannelFacts
<1>2. e \in EngineType /\ wire \in [Channels -> WireType] /\ engine \in [App -> EngineType]
      /\ wire[c] \in WireType /\ wire[c].back \in Seq(BackType) /\ WireOK(engine, wire, a, b)
      /\ AnswersOK(engine, wire, a, b)
  BY <1>1, EngineAt, PairAt DEF Typed, WireType
<1>3. wire[c].st \notin {"none", "connecting"} /\ e.original # None
  BY <1>1, <1>2 DEF WireOK
<1>4. Has(wire[c].back, r)
  BY <1>2, HasTail
<1>5. Answer(wire, a, b) /\ b \in e.weak
  BY <1>1, <1>2, <1>4 DEF Answer, AnswersOK
<1>6. w = [wire EXCEPT ![c] = v] /\ w \in [Channels -> WireType]
  BY <1>2, PoppedTyped DEF HungUp
<1>7. /\ r = "duplicate" => v.st = "closed" /\ v.fwd = Append(wire[c].fwd, "eof") /\ v.back = <<>>
      /\ r = "ok" => v.st = wire[c].st /\ v.fwd = wire[c].fwd /\ v.back = Tail(wire[c].back)
  BY <1>2 DEF WireType
<1> HIDE DEF v
<1>8. w[c] = v /\ \A d \in Channels : d # c => w[d] = wire[d]
  BY <1>2, <1>6
<1>9. /\ s \in EngineType /\ s.state = e.state /\ s.made = e.made /\ s.original = e.original
      /\ s.requester = e.requester /\ s.context = e.context /\ s.out = e.out /\ s.oks = e.oks
      /\ s.inMsgs = e.inMsgs /\ s.tasks = e.tasks /\ s.weak = e.weak \ {b}
      /\ r = "duplicate" => s.normal = e.normal
      /\ r = "ok" => s.normal = [e.normal EXCEPT ![b] = c]
  <2>0. e \in EngineType /\ b \in App /\ c \in Channels
    BY <1>1, <1>2
  <2>1. CASE r = "duplicate"
    <3>1. s = [e EXCEPT !.weak = @ \ {b}] /\ r # "ok"
      BY <2>1 DEF Settled
    <3> HIDE DEF e, b
    <3> QED
      BY ONLY <2>0, <2>1, <3>1 DEF EngineType
  <2>2. CASE r = "ok"
    <3>1. s = [e EXCEPT !.weak = @ \ {b}, !.normal[b] = c] /\ r # "duplicate"
      BY <2>2 DEF Settled
    <3> HIDE DEF e, b
    <3> QED
      BY ONLY <2>0, <2>2, <3>1 DEF EngineType
  <2> QED
    BY <2>1, <2>2
<1>10. /\ r = "ok" => s.normal[b] = c
       /\ r = "duplicate" => s.normal[b] = e.normal[b]
       /\ \A d \in App : d # b => s.normal[d] = e.normal[d]
  BY <1>1, <1>2, <1>9, SMTT(30) DEF EngineType
<1>11. w[c].st # "none"
  BY <1>3, <1>7, <1>8
<1>12. Local(engine, wire, a, b, c, s, en, w)
  BY <1>1, <1>3, <1>5, <1>6, <1>8, <1>9, <1>10, <1>11 DEF Local
<1>13. Settles(engine, wire, a, b, s, en, w)
  BY <1>1, <1>2, <1>9, <1>12 DEF Settles
<1>14. GraphOK(en, w)
  <2>1. CASE r = "ok"
    <3>1. Upgrades(engine, wire, a, b, s, en, w)
      BY <1>1, <1>2, <1>7, <1>8, <1>10, <1>13, <2>1 DEF Upgrades, Pops
    <3> QED
      BY ONLY <3>1, UpgradesOK
  <2>2. CASE r = "duplicate"
    <3>1. HangsUp(engine, wire, a, b, s, en, w)
      BY <1>1, <1>7, <1>8, <1>10, <1>13, <2>2 DEF HangsUp
    <3> QED
      BY ONLY <3>1, HangsUpOK
  <2> QED
    BY <2>1, <2>2
<1>15. en[a] = s /\ en \in [App -> EngineType]
  BY <1>1, <1>2, <1>9
<1> QED
  BY <1>3, <1>5, <1>9, <1>11, <1>14, <1>15

LEMMA ReceiveOkOK ==
    ASSUME graph \in Graphs, GraphOK(engine, wire), NEW c \in Channels, NEW a, a = c[1],
           NEW r, r = Head(wire[c].back), r \in {"ok", "duplicate"}, wire[c].back # <<>>,
           engine[a].state = "up", ReceiveOk(a, c, r)
    PROVE  GraphOK(engine', wire') /\ c[2] \in engine[a].weak /\ engine[a].original # None
<1> DEFINE b == c[2]
           s == Settled(engine[a], c, r)
           w == IF r = "duplicate" THEN HungUp(wire, c) ELSE [wire EXCEPT ![c].back = Tail(@)]
           p == WithResult(s, b)
           en == [engine EXCEPT ![a] = s]
           q == [p EXCEPT !.context = "starting", !.requester = s.original]
<1>1. a \in App /\ b \in App \ {a} /\ c = <<a, b>>
  BY ChannelFacts
<1>2. \/ engine' = [engine EXCEPT ![a] = s] /\ wire' = w
      \/ b \in s.out /\ engine' = [engine EXCEPT ![a] = p] /\ wire' = w
      \/ b \in s.out /\ p.out = {} /\ engine' = [engine EXCEPT ![a] = q] /\ wire' = w
      \/ /\ b \in s.out /\ p.out = {} /\ engine' = [engine EXCEPT ![a] = p]
         /\ wire' = Answered(w, a, s, s.original, "ok")
  BY DEF ReceiveOk
<1>3. /\ GraphOK(en, w) /\ en[a] = s /\ en \in [App -> EngineType] /\ w[c].st # "none"
      /\ b \in engine[a].weak /\ engine[a].original # None
      /\ s.state = "up" /\ s.out = engine[a].out
  <2>1. Settling(a, c, r, s, w, en)
    BY DEF Settling
  <2> HIDE DEF s, w, en
  <2> QED
    BY ONLY <2>1, SettlingOK
<1>4. engine \in [App -> EngineType]
  BY <1>1, EngineAt
<1>5. \A x : [engine EXCEPT ![a] = x] = [en EXCEPT ![a] = x]
  BY <1>1, <1>4
<1> HIDE DEF b, s, w, p, en
<1>6. CASE engine' = [engine EXCEPT ![a] = s] /\ wire' = w
  BY <1>3, <1>6 DEF en, b
<1>7. ASSUME b \in s.out, NEW en2, en2 = [engine EXCEPT ![a] = p]
      PROVE  /\ GraphOK(en2, w) /\ en2[a] = p /\ Alike(en[a], p) /\ p.context = en[a].context
             /\ p.original \in Sources \ {a} /\ (p.out = {} => Due(en2, w, a, p.original))
  <2>1. Counts(en, w, a, b, p, en2)
    BY <1>1, <1>3, <1>5, <1>7 DEF Counts, p
  <2> QED
    BY ONLY <2>1, CountsOK
<1>8. CASE b \in s.out /\ engine' = [engine EXCEPT ![a] = p] /\ wire' = w
  BY <1>3, <1>7, <1>8 DEF b
<1>9. CASE b \in s.out /\ p.out = {} /\ engine' = [engine EXCEPT ![a] = q] /\ wire' = w
  <2> DEFINE en2 == [engine EXCEPT ![a] = p]
  <2>1. /\ GraphOK(en2, w) /\ en2[a] = p /\ Alike(en[a], p)
        /\ p.original \in Sources \ {a} /\ Due(en2, w, a, p.original)
    BY <1>7, <1>9
  <2>2. engine' = [en2 EXCEPT ![a] = q]
    BY <1>1, <1>4, <1>9
  <2> HIDE DEF en2
  <2>3. p.state = "up" /\ p.original = s.original
    BY <1>3, <2>1 DEF Alike
  <2>4. StartsContext(en2, w, a, s.original, q, engine')
    BY <1>1, <2>1, <2>2, <2>3 DEF StartsContext
  <2> HIDE DEF q
  <2>5. GraphOK(engine', w)
    BY ONLY <2>4, StartsContextOK
  <2> QED
    BY <1>3, <1>9, <2>5 DEF b
<1>10. CASE /\ b \in s.out /\ p.out = {} /\ engine' = [engine EXCEPT ![a] = p]
            /\ wire' = Answered(w, a, s, s.original, "ok")
  <2> DEFINE en2 == [engine EXCEPT ![a] = p]
  <2>1. /\ GraphOK(en2, w) /\ en2[a] = p /\ Alike(en[a], p)
        /\ p.original \in Sources \ {a} /\ Due(en2, w, a, p.original)
    BY <1>7, <1>10
  <2>2. engine' = en2
    BY <1>10
  <2> HIDE DEF en2
  <2>3. p.state = s.state /\ p.original = s.original /\ p.normal = s.normal
    BY <1>3, <2>1 DEF Alike
  <2>4. wire' = Answered(w, a, en2[a], s.original, "ok")
    BY <1>10, <2>1, <2>3 DEF Answered
  <2>5. GraphOK(en2, wire')
    BY <1>1, <2>1, <2>3, <2>4, AnsweredOK
  <2> QED
    BY <1>3, <2>2, <2>5 DEF b
<1> QED
  BY <1>2, <1>6, <1>8, <1>9, <1>10

\* A result is taken from the channel c, and nothing else happens.
LEMMA PoppedOK ==
    ASSUME graph \in Graphs, GraphOK(engine, wire), NEW c \in Channels, wire[c].back # <<>>,
           Head(wire[c].back) # "eof", NEW w, w = [wire EXCEPT ![c].back = Tail(@)]
    PROVE  GraphOK(engine, w)
<1> DEFINE a == c[1]
           b == c[2]
           v == [wire[c] EXCEPT !.back = Tail(@)]
<1>1. a \in App /\ b \in App \ {a} /\ c = <<a, b>>
  BY ChannelFacts
<1> HIDE DEF a, b
<1>2. wire \in [Channels -> WireType] /\ wire[c] \in WireType
  BY <1>1, EngineAt
<1>3. w = [wire EXCEPT ![c] = v] /\ w \in [Channels -> WireType]
  BY <1>2, PoppedTyped
<1>4. v.st = wire[c].st /\ v.fwd = wire[c].fwd /\ v.back = Tail(wire[c].back)
  BY <1>2 DEF WireType
<1> HIDE DEF v
<1>5. w[c] = v /\ \A d \in Channels : d # c => w[d] = wire[d]
  BY <1>2, <1>3
<1>6. Local(engine, wire, a, b, c, engine[a], engine, w)
  BY <1>1, <1>3, <1>4, <1>5, LocalWire
<1>7. Pops(wire, a, b, w)
  BY <1>1, <1>2, <1>4, <1>5 DEF Pops
<1> QED
  BY ONLY <1>1, <1>6, <1>7, PopOK

LEMMA ReceiveErrorOK ==
    ASSUME graph \in Graphs, GraphOK(engine, wire), NEW c \in Channels, NEW a, a = c[1],
           wire[c].back # <<>>, Head(wire[c].back) = "error", engine[a].state = "up", ReceiveError(a, c)
    PROVE  GraphOK(engine', wire') /\ engine[a].original # None
<1> DEFINE b == c[2]
           e == engine[a]
           s == e.original
           w == [wire EXCEPT ![c].back = Tail(@)]
           g == [e EXCEPT !.out = {}, !.oks = {}]
           f == GivenUp(g)
<1>1. a \in App /\ b \in App \ {a} /\ c = <<a, b>>
  BY ChannelFacts
<1>2. GraphOK(engine, w)
  BY PoppedOK
<1>3. /\ Typed(a, e) /\ QueueOK(a, e) /\ e \in EngineType /\ engine \in [App -> EngineType]
      /\ WireOK(engine, wire, a, b)
  BY <1>1, EngineAt, PairAt DEF Typed
<1>4. e.original # None /\ s \in Sources \ {a}
  BY <1>1, <1>3 DEF WireOK, Typed, EngineType, RemotesOK
<1>5. CASE b \notin e.out
  <2>1. wire' = w /\ engine' = engine
    BY <1>5 DEF ReceiveError
  <2> QED
    BY <1>2, <1>4, <2>1
<1>6. CASE b \in e.out
  <2>1. engine' = [engine EXCEPT ![a] = f] /\ wire' = Answered(w, a, engine[a], s, "error")
    BY <1>6 DEF ReceiveError
  <2> HIDE DEF w, e, s
  <2>2. GraphOK(engine, wire')
    BY <1>1, <1>2, <1>4, <2>1, AnsweredOK
  <2>3. /\ g \in EngineType /\ g.state = e.state /\ g.made = e.made /\ g.original = e.original
        /\ g.requester = e.requester /\ g.weak = e.weak /\ g.normal = e.normal
        /\ g.inMsgs = e.inMsgs /\ g.tasks = e.tasks /\ g.out = {} /\ g.oks = {}
    BY <1>3 DEF EngineType
  <2> HIDE DEF g
  <2>4. Typed(a, g) /\ QueueOK(a, g)
    BY <1>3, <2>3 DEF Typed, RemotesOK, QueueOK, Pending
  <2>5. /\ Typed(a, f) /\ QueueOK(a, f) /\ f.state = "closing"
        /\ f.original \in {None, g.original}
        /\ f.requester = g.requester /\ f.weak = g.weak /\ f.normal = g.normal /\ f.inMsgs = g.inMsgs
        /\ \A m : m # CloseTask => (Has(f.tasks, m) <=> Has(g.tasks, m))
        /\ \A m : Once(g.tasks, m) => Once(f.tasks, m)
    <3>1. g.state = "up"
      BY <2>3 DEF e
    <3> QED
      BY <1>1, <2>4, <3>1, ClosingForm
  <2> HIDE DEF f
  <2>6. Down(engine, wire', a, f, engine')
    BY <1>1, <2>1, <2>2, <2>3, <2>5 DEF Down, e
  <2>7. GraphOK(engine', wire')
    BY ONLY <2>6, DownOK
  <2> QED
    BY <1>4, <2>7 DEF e
<1> QED
  BY <1>5, <1>6

LEMMA ReceiveOK ==
    ASSUME TypeInv, GraphOK(engine, wire), failed = "none", NEW c \in Channels, Receive(c)
    PROVE  failed' = "none" /\ GraphOK(engine', wire')
<1> DEFINE a == c[1]
           b == c[2]
           e == engine[a]
           r == Head(wire[c].back)
<1>1. /\ graph \in Graphs /\ a \in App /\ wire \in [Channels -> WireType] /\ wire[c].back \in Seq(BackType)
      /\ wire[c].back # <<>> /\ r # "eof"
      /\ failed' = IF e.state # "up" THEN failed
                   ELSE IF r # "error" /\ b \notin e.weak THEN "weak remote"
                   ELSE IF b \in e.out /\ e.original = None THEN "an original" ELSE failed
      /\ IF e.state # "up" THEN wire' = [wire EXCEPT ![c].back = Tail(@)] /\ UNCHANGED <<engine, told>>
         ELSE IF r = "error" THEN ReceiveError(a, c) ELSE ReceiveOk(a, c, r)
  BY ChannelFacts, EngineAt, ZenonT(40) DEF Receive, TypeInv, WireType
<1>2. r \in {"ok", "error", "duplicate"}
  <2>1. r \in BackType
    BY <1>1, HasTail
  <2> QED
    BY <1>1, <2>1 DEF BackType
<1>3. CASE e.state # "up"
  <2>1. GraphOK(engine, [wire EXCEPT ![c].back = Tail(@)])
    BY <1>1, PoppedOK
  <2> QED
    BY <1>1, <1>3, <2>1
<1>4. CASE e.state = "up" /\ r = "error"
  <2>1. GraphOK(engine', wire') /\ e.original # None
    BY <1>1, <1>4, ReceiveErrorOK
  <2> QED
    BY <1>1, <1>4, <2>1
<1>5. CASE e.state = "up" /\ r # "error"
  <2>1. ReceiveOk(a, c, r) /\ r \in {"ok", "duplicate"}
    BY <1>1, <1>2, <1>5
  <2>2. GraphOK(engine', wire') /\ b \in e.weak /\ e.original # None
    BY <1>1, <1>5, <2>1, ReceiveOkOK
  <2> QED
    BY <1>1, <1>5, <2>2
<1> QED
  BY <1>3, <1>4, <1>5

-----------------------------------------------------------------------------
(* What the engine does by itself *)

LEMMA ReadyOK ==
    ASSUME TypeInv, GraphOK(engine, wire), failed = "none", NEW a \in App, Ready(a)
    PROVE  failed' = "none" /\ GraphOK(engine', wire')
<1> DEFINE e == engine[a]
           s == e.requester
           f == [e EXCEPT !.context = "ready", !.requester = None]
<1>1. /\ Typed(a, e) /\ e \in EngineType /\ engine \in [App -> EngineType] /\ wire \in [Channels -> WireType]
      /\ ConnectingOK(e) /\ graph \in Graphs
  BY EngineAt DEF Typed, TypeInv
<1>2. /\ engine' = [engine EXCEPT ![a] = f] /\ failed' = failed /\ e.state \in {"up", "closing"}
      /\ e.context = "starting" /\ wire' = Answered(wire, a, e, s, "ok")
  BY <1>1 DEF Ready, EngineType
<1>3. f \in EngineType /\ Alike(e, f) /\ f.context = "ready" /\ f.requester = None /\ f.out = e.out /\ f.oks = e.oks
  BY <1>1, ChannelFacts DEF EngineType, Alike
<1> HIDE DEF f, e, s
<1>4. Typed(a, f)
  BY <1>1, <1>3, ChannelFacts DEF Typed, RemotesOK, Pending, Alike
<1>5. Change(engine, wire, a, f, engine', wire)
  BY <1>1, <1>2, <1>4 DEF Change
<1>6. engine'[a] = f
  BY ONLY <1>5, ChangeFacts
<1>7. GraphOK(engine', wire)
  <2>1. /\ Alike(engine[a], f) /\ f.requester \in {None, engine[a].requester}
        /\ f.state = "up" /\ f.context = "starting" => f.requester # None
        /\ f.out = engine[a].out /\ engine[a].oks \subseteq f.oks
        /\ \A b \in f.oks \ engine[a].oks : wire[<<a, b>>].st # "none"
    BY <1>3 DEF e
  <2> QED
    BY ONLY <1>5, <2>1, PrivateChange
<1>8. wire' = Answered(wire, a, engine'[a], s, "ok") /\ f.state = e.state
  BY <1>2, <1>3, <1>6 DEF Answered, Alike
<1>9. CASE e.state # "up"
  <2>1. wire' = wire
    BY <1>2, <1>9 DEF Answered
  <2> QED
    BY <1>2, <1>7, <2>1
<1>10. CASE e.state = "up"
  <2>1. s \in Sources \ {a} /\ s # None
    BY <1>1, <1>2, <1>10 DEF ConnectingOK, Typed, EngineType, RemotesOK, s
  <2>2. s \in App => Quiet(engine, wire, a, f, wire, s)
    BY <1>3, <2>1, QuietAlike DEF e
  <2>3. Owes(engine', wire, a, s) => Owes(engine, wire, a, s)
    <3>1. \A d : Pending(f, d) <=> Pending(e, d)
      BY <1>3 DEF Alike, Pending
    <3> QED
      BY <1>3, <1>6, <3>1 DEF Owes, Skipped, Alike, e
  <2>4. /\ engine[a].state = "up" /\ engine[a].requester = s /\ f.requester # s
    BY <1>3, <1>10, <2>1 DEF e, s
  <2>5. Due(engine', wire, a, s)
    BY ONLY <1>5, <2>1, <2>2, <2>3, <2>4, DueAfter
  <2>6. GraphOK(engine', wire')
    BY <1>1, <1>7, <1>8, <2>1, <2>5, AnsweredOK
  <2> QED
    BY <1>2, <2>6
<1> QED
  BY <1>9, <1>10

LEMMA ContextClosedOK ==
    ASSUME TypeInv, GraphOK(engine, wire), NEW a \in App, ContextClosed(a)
    PROVE  failed' = failed /\ GraphOK(engine', wire')
<1> DEFINE e == engine[a]
           f == [e EXCEPT !.context = "none"]
<1>1. /\ Typed(a, e) /\ e \in EngineType /\ engine \in [App -> EngineType] /\ wire \in [Channels -> WireType]
      /\ graph \in Graphs
  BY EngineAt DEF Typed, TypeInv
<1>2. engine' = [engine EXCEPT ![a] = f] /\ wire' = wire /\ failed' = failed /\ e.state = "draining"
  BY <1>1 DEF ContextClosed, EngineType
<1>3. /\ f \in EngineType /\ Alike(e, f) /\ f.requester = e.requester /\ f.out = e.out /\ f.oks = e.oks
      /\ f.context = "none"
  BY <1>1 DEF EngineType, Alike
<1> HIDE DEF f, e
<1>4. Typed(a, f)
  BY <1>1, <1>3 DEF Typed, RemotesOK, Pending, Alike
<1>5. Change(engine, wire, a, f, engine', wire)
  BY <1>1, <1>2, <1>4 DEF Change
<1>6. /\ Alike(engine[a], f) /\ f.requester \in {None, engine[a].requester}
      /\ f.state = "up" /\ f.context = "starting" => f.requester # None
      /\ f.out = engine[a].out /\ engine[a].oks \subseteq f.oks
      /\ \A b \in f.oks \ engine[a].oks : wire[<<a, b>>].st # "none"
  BY <1>3 DEF e
<1>7. GraphOK(engine', wire)
  BY ONLY <1>5, <1>6, PrivateChange
<1> QED
  BY <1>2, <1>7

LEMMA EngineGoneOK ==
    ASSUME TypeInv, GraphOK(engine, wire), NEW a \in App, EngineGone(a)
    PROVE  failed' = failed /\ GraphOK(engine', wire')
<1> DEFINE e == engine[a]
           f == NewEngine("gone", e.made)
<1>1. /\ Typed(a, e) /\ QueueOK(a, e) /\ e.made \in Nat /\ e.weak = {} /\ \A b \in App : e.normal[b] = None
      /\ e.state = "draining" /\ wire \in [Channels -> WireType] /\ graph \in Graphs
      /\ engine' = [engine EXCEPT ![a] = f] /\ wire' = wire /\ failed' = failed
  BY EngineAt DEF Typed, EngineType, TypeInv, EngineGone
<1>2. /\ Typed(a, f) /\ f.state = "gone" /\ f.original = None /\ f.requester = None /\ f.weak = {}
      /\ f.made = e.made /\ f.inMsgs = <<>> /\ f.tasks = <<>> /\ f.out = {}
      /\ \A b \in App : f.normal[b] = None
  BY <1>1, NewTyped DEF NewEngine
<1> HIDE DEF f, e
<1>3. /\ \A m : ~Has(f.tasks, m) /\ ~Has(f.inMsgs, m)
      /\ \A m : Once(f.tasks, m) /\ Once(f.inMsgs, m)
      /\ CreatedFirst(f.tasks)
  BY <1>2, HasNone, EndsNone
<1>4. QueueOK(a, f)
  <2>1. e.made # 0
    BY <1>1 DEF QueueOK
  <2> QED
    <3>1. \A y \in App : f.normal[y] # <<a, y>>
      <4>1. None \notin App \X App
        BY NamesAreDistinct
      <4>2. \A y \in App : <<a, y>> \in App \X App
        OBVIOUS
      <4> QED
        BY ONLY <1>2, <4>1, <4>2
    <3>2. (f.state = "none" <=> f.made = 0) /\ f.state # "up" /\ \A b : ~Pending(f, b)
      BY <1>2, <1>3, <2>1 DEF Pending
    <3> QED
      BY <1>2, <1>3, <3>1, <3>2 DEF QueueOK
<1>5. ConnectingOK(f)
  BY <1>2, <1>3 DEF ConnectingOK
<1>6. Change(engine, wire, a, f, engine', wire)
  BY <1>1, <1>2 DEF Change
<1>7. engine'[a] = f
  BY ONLY <1>6, ChangeFacts
<1>8. SkippedOK(engine', wire, a)
  BY <1>2, <1>7 DEF SkippedOK
<1>9. ASSUME NEW b \in App \ {a}
      PROVE  Quiet(engine, wire, a, f, wire, b) /\ Silent(engine, wire, a, f, engine', wire, b)
  <2>1. Quiet(engine, wire, a, f, wire, b)
    BY <1>1, <1>2, <1>3 DEF Quiet, Pending, e
  <2>2. Silent(engine, wire, a, f, engine', wire, b)
    BY <1>2, ChannelFacts DEF Silent
  <2> QED
    BY <2>1, <2>2
<1>10. GraphOK(engine', wire)
  BY ONLY <1>4, <1>5, <1>6, <1>8, <1>9, MonoChange
<1> QED
  BY <1>1, <1>10

LEMMA HandleInMsgsOK ==
    ASSUME TypeInv, GraphOK(engine, wire), NEW a \in App, HandleInMsgs(a)
    PROVE  failed' = failed /\ GraphOK(engine', wire')
<1> DEFINE e == engine[a]
           q == [i \in DOMAIN e.inMsgs |-> Task("start_graph", e.inMsgs[i])]
           t == Tail(e.tasks)
           f == [e EXCEPT !.inMsgs = <<>>, !.tasks = q \o t]
<1>1. /\ Typed(a, e) /\ QueueOK(a, e) /\ ConnectingOK(e) /\ SkippedOK(engine, wire, a)
      /\ e \in EngineType /\ e.inMsgs \in Seq(Sources) /\ e.tasks \in Seq(Tasks)
      /\ engine \in [App -> EngineType] /\ wire \in [Channels -> WireType] /\ graph \in Graphs
  BY EngineAt DEF Typed, EngineType, TypeInv
<1>2. /\ e.tasks # <<>> /\ NextTask(e) \in Tasks /\ NextTask(e) = HandleTask
  <2>1. e.tasks # <<>> /\ NextTask(e).run = "handle_in_msgs"
    BY DEF HandleInMsgs, NextTask, NoTask, Task
  <2>2. NextTask(e) \in Tasks
    BY <1>1, <2>1, RanTyped
  <2> QED
    BY <2>1, <2>2, TaskForms
<1>3. /\ q \in Seq(Tasks)
      /\ \A s : Has(q, Starting(s)) <=> Has(e.inMsgs, s)
      /\ \A s : Once(e.inMsgs, s) => Once(q, Starting(s))
      /\ \A i \in DOMAIN q : q[i].run = "start_graph"
  BY <1>1, TasksOfMsgs
<1>4. engine' = [engine EXCEPT ![a] = f] /\ wire' = wire /\ failed' = failed
  <2>1. engine' = [engine EXCEPT ![a].inMsgs = <<>>, ![a].tasks = q \o t] /\ wire' = wire /\ failed' = failed
    BY DEF HandleInMsgs
  <2> HIDE DEF e, q, t
  <2>2. e = engine[a]
    BY DEF e
  <2> QED
    BY <1>1, <2>1, <2>2 DEF EngineType
<1>5. /\ Typed(a, Ran(e)) /\ QueueOK(a, Ran(e)) /\ e.state \notin {"none", "gone"} /\ Ran(e).tasks = t
      /\ \A m : Has(e.tasks, m) <=> HandleTask = m \/ Has(Ran(e).tasks, m)
      /\ \A m : Once(e.tasks, m) => Once(Ran(e).tasks, m)
  BY <1>1, <1>2, RanOK
<1>6. t \in Seq(Tasks)
  BY <1>1, <1>2, HasTail
<1> HIDE DEF q, t
<1>7. /\ q \o t \in Seq(Tasks)
      /\ \A m : Has(q \o t, m) <=> Has(q, m) \/ Has(t, m)
      /\ \A m : Once(q, m) /\ Once(t, m) /\ ~(Has(q, m) /\ Has(t, m)) => Once(q \o t, m)
      /\ CreatedFirst(t) => CreatedFirst(q \o t)
  BY <1>3, <1>6, HasConcat, EndsConcat
<1>8. (\A b : ~Has(q, Creating(b))) /\ ~Has(q, CloseTask)
  BY <1>3, RunsOnly
<1>9. <<>> \in Seq(Sources) /\ \A s : ~Has(<<>>, s) /\ Once(<<>>, s)
  BY HasNone
<1>10. /\ f \in EngineType /\ f.state = e.state /\ f.made = e.made /\ f.original = e.original
       /\ f.requester = e.requester /\ f.context = e.context /\ f.out = e.out /\ f.oks = e.oks
       /\ f.weak = e.weak /\ f.normal = e.normal /\ f.inMsgs = <<>> /\ f.tasks = q \o t
  BY <1>1, <1>7, <1>9 DEF EngineType
<1> HIDE DEF f, e
<1>11. /\ \A b : Pending(f, b) <=> Pending(e, b)
       /\ Has(f.tasks, CloseTask) <=> Has(e.tasks, CloseTask)
       /\ \A s : Has(f.tasks, Starting(s)) <=> Has(e.inMsgs, s) \/ Has(e.tasks, Starting(s))
  BY <1>3, <1>5, <1>7, <1>8, <1>10, TaskKinds DEF Pending
<1>12. /\ \A b : Once(e.tasks, Creating(b)) => Once(f.tasks, Creating(b))
       /\ Once(e.tasks, CloseTask) => Once(f.tasks, CloseTask)
  <2>1. \A m : ~Has(q, m) => Once(q, m)
    BY DEF Has, Once
  <2> QED
    BY <1>5, <1>7, <1>8, <1>10, <2>1
<1>13. Typed(a, f)
  BY <1>1, <1>9, <1>10, <1>11 DEF Typed, RemotesOK
<1>14. QueueOK(a, f)
  <2>1. CreatedFirst(f.tasks)
    BY <1>5, <1>7, <1>10 DEF QueueOK
  <2> QED
    BY <1>1, <1>5, <1>10, <1>11, <1>12, <2>1 DEF QueueOK
<1>15. ConnectingOK(f)
  BY <1>1, <1>10, <1>11, <1>12 DEF ConnectingOK
<1>16. Change(engine, wire, a, f, engine', wire)
  BY <1>1, <1>4, <1>13 DEF Change
<1>17. engine'[a] = f
  BY ONLY <1>16, ChangeFacts
<1>18. Skipped(engine', wire, a) = Skipped(engine, wire, a)
  BY <1>10, <1>11, <1>17 DEF Skipped, e
<1>19. SkippedOK(engine', wire, a)
  BY <1>1, <1>10, <1>11, <1>17, <1>18 DEF SkippedOK, e
<1>20. ASSUME NEW b \in App \ {a}
       PROVE  Quiet(engine, wire, a, f, wire, b) /\ Silent(engine, wire, a, f, engine', wire, b)
  <2>1. WireOK(engine, wire, a, b) /\ HoldOK(engine, wire, b, a)
    BY PairAt
  <2>2. Once(f.tasks, Starting(b))
    <3>1. Once(e.inMsgs, b) /\ Once(e.tasks, Starting(b)) /\ ~(Has(e.inMsgs, b) /\ Has(e.tasks, Starting(b)))
      BY <2>1 DEF HoldOK, e
    <3>2. Once(q, Starting(b)) /\ Once(t, Starting(b)) /\ ~(Has(q, Starting(b)) /\ Has(t, Starting(b)))
      BY <1>3, <1>5, <3>1
    <3> QED
      BY <1>7, <1>10, <3>2
  <2>3. Quiet(engine, wire, a, f, wire, b)
    BY <1>9, <1>10, <1>11, <2>1, <2>2 DEF Quiet, WireOK, e
  <2>4. Silent(engine, wire, a, f, engine', wire, b)
    BY <1>10, <1>17, <1>18 DEF Silent, Owes, e
  <2> QED
    BY <2>3, <2>4
<1>21. GraphOK(engine', wire)
  BY ONLY <1>14, <1>15, <1>16, <1>19, <1>20, MonoChange
<1> QED
  BY <1>4, <1>21

-----------------------------------------------------------------------------
(* The end of a channel is seen *)

\* a sees the end of the channel it made to b.
EndsForth(en, wi, a, b, f, en2, wi2) ==
  /\ Local(en, wi, a, b, <<a, b>>, f, en2, wi2) /\ Has(wi[<<a, b>>].back, "eof")
  /\ wi2[<<a, b>>].st = "closed" /\ wi2[<<a, b>>].fwd = <<>> /\ wi2[<<a, b>>].back = <<>>
  /\ f.weak = en[a].weak \ {b}
  /\ f.normal[b] = IF en[a].normal[b] = <<a, b>> THEN None ELSE en[a].normal[b]

LEMMA EndsForthOK ==
    ASSUME NEW en, NEW wi, NEW a, NEW b, NEW f, NEW en2, NEW wi2, EndsForth(en, wi, a, b, f, en2, wi2)
    PROVE  GraphOK(en2, wi2)
<1> DEFINE e == en[a]
           w == wi[<<a, b>>]
           w2 == wi2[<<a, b>>]
<1>0. Local(en, wi, a, b, <<a, b>>, f, en2, wi2)
  BY DEF EndsForth
<1>1. LocalSame(en, wi, a, b, <<a, b>>, f, en2, wi2)
  BY ONLY <1>0, LocalFacts
<1>2. /\ f.state = e.state /\ f.original = e.original /\ f.requester = e.requester
      /\ f.inMsgs = e.inMsgs /\ f.tasks = e.tasks /\ b \in App \ {a}
      /\ Has(w.back, "eof") /\ w2.st = "closed" /\ w2.fwd = <<>> /\ w2.back = <<>>
      /\ f.weak = e.weak \ {b} /\ f.normal[b] = IF e.normal[b] = <<a, b>> THEN None ELSE e.normal[b]
  BY DEF EndsForth, Local
<1>3. /\ w.st = "closed" /\ ~Joined(en, wi, a, b) /\ Leaving(en, b)
  BY <1>1, <1>2 DEF LocalSame, WireOK
<1>4. wi2[<<b, a>>] = wi[<<b, a>>]
  BY <1>1 DEF LocalSame
<1> HIDE DEF e, w, w2
<1>5. /\ \A m : ~Has(w2.fwd, m) /\ ~Has(w2.back, m)
      /\ EofLast(w2.back) /\ Single(w2.back)
  BY <1>2, HasNone, EndsNone
<1>6. /\ ~Coming(en, wi, a, b) /\ ~Queued(en, a, b) /\ en[b].normal[a] # <<a, b>>
      /\ f.normal[b] # <<a, b>> /\ (f.normal[b] = <<b, a>> <=> e.normal[b] = <<b, a>>)
  BY <1>1, <1>2, <1>3 DEF LocalSame, Joined, Coming
<1>7. /\ ~OnWire(wi2, a, b) /\ ~Queued(en2, a, b) /\ ~Coming(en2, wi2, a, b) /\ ~Joined(en2, wi2, a, b)
      /\ ~Answer(wi2, a, b) /\ ~Holds(en2, a, b)
      /\ OnWire(wi2, b, a) <=> OnWire(wi, b, a)
      /\ Queued(en2, b, a) <=> Queued(en, b, a)
      /\ Coming(en2, wi2, b, a) <=> Coming(en, wi, b, a)
      /\ Joined(en2, wi2, b, a) <=> Joined(en, wi, b, a)
      /\ Answer(wi2, b, a) <=> Answer(wi, b, a)
  <2>1. ~OnWire(wi2, a, b) /\ ~Answer(wi2, a, b)
    BY <1>5 DEF OnWire, Answer, w2
  <2>2. ~Queued(en2, a, b) /\ (Queued(en2, b, a) <=> Queued(en, b, a)) /\ en2[a] = f /\ en2[b] = en[b]
    BY <1>1, <1>6 DEF LocalSame
  <2>3. /\ OnWire(wi2, b, a) <=> OnWire(wi, b, a)
        /\ Answer(wi2, b, a) <=> Answer(wi, b, a)
    BY <1>4 DEF OnWire, Answer
  <2> QED
    BY <1>2, <1>6, <2>1, <2>2, <2>3 DEF Coming, Joined, Holds, e
<1>9. WireOK(en2, wi2, a, b)
  BY <1>1, <1>2, <1>3, <1>5, <1>7 DEF LocalSame, WireOK, e, w, w2
<1>10. WireOK(en2, wi2, b, a)
  BY <1>1, <1>2, <1>4, <1>7 DEF LocalSame, WireOK
<1>11. HoldOK(en2, wi2, a, b)
  BY <1>1, <1>2, <1>6, <1>7, SMTT(30) DEF LocalSame, HoldOK, w2
<1>12. HoldOK(en2, wi2, b, a)
  BY <1>1, <1>2, <1>4, <1>6, <1>7 DEF LocalSame, HoldOK, e
<1>13. SmallerOK(en2, wi2, a, b)
  <2>1. ~Kept(en2, wi2, a, b) /\ en2[b].normal[a] # <<a, b>>
    BY <1>1, <1>5, <1>6, SMTT(30) DEF Kept, LocalSame, w2
  <2> QED
    BY <2>1 DEF SmallerOK
<1>14. SmallerOK(en2, wi2, b, a)
  BY <1>1, <1>2, <1>4, <1>6, <1>7 DEF LocalSame, SmallerOK, Away, Kept, e, w2
<1>15. AnswersOK(en2, wi2, a, b)
  BY <1>1, <1>2, <1>3, <1>5, <1>7 DEF LocalSame, AnswersOK, Leaving, w2
<1>16. AnswersOK(en2, wi2, b, a)
  BY <1>1, <1>3 DEF LocalSame, AnswersOK, Leaving
<1>17. PairOK(en2, wi2, a, b) /\ PairOK(en2, wi2, b, a)
  BY <1>9, <1>10, <1>11, <1>12, <1>13, <1>14, <1>15, <1>16 DEF PairOK
<1> QED
  BY ONLY <1>0, <1>17, LocalOK

\* a sees the end of the channel that b made to it.
EndsBack(en, wi, a, b, f, en2, wi2) ==
  /\ Local(en, wi, a, b, <<b, a>>, f, en2, wi2) /\ Has(wi[<<b, a>>].fwd, "eof") /\ ~Queued(en, b, a)
  /\ wi2[<<b, a>>].st = "closed" /\ wi2[<<b, a>>].fwd = <<>> /\ wi2[<<b, a>>].back = <<>>
  /\ f.weak = en[a].weak
  /\ f.normal[b] = IF en[a].normal[b] = <<b, a>> THEN None ELSE en[a].normal[b]

LEMMA EndsBackOK ==
    ASSUME NEW en, NEW wi, NEW a, NEW b, NEW f, NEW en2, NEW wi2, EndsBack(en, wi, a, b, f, en2, wi2)
    PROVE  GraphOK(en2, wi2)
<1> DEFINE e == en[a]
           w == wi[<<b, a>>]
           w2 == wi2[<<b, a>>]
<1>0. Local(en, wi, a, b, <<b, a>>, f, en2, wi2)
  BY DEF EndsBack
<1>1. LocalSame(en, wi, a, b, <<b, a>>, f, en2, wi2)
  BY ONLY <1>0, LocalFacts
<1>2. /\ f.state = e.state /\ f.original = e.original /\ f.requester = e.requester
      /\ f.inMsgs = e.inMsgs /\ f.tasks = e.tasks /\ b \in App \ {a}
      /\ Has(w.fwd, "eof") /\ w2.st = "closed" /\ w2.fwd = <<>> /\ w2.back = <<>> /\ ~Queued(en, b, a)
      /\ f.weak = e.weak /\ f.normal[b] = IF e.normal[b] = <<b, a>> THEN None ELSE e.normal[b]
  BY DEF EndsBack, Local
<1>3. w.st = "closed" /\ w.back = <<>> /\ ~Holds(en, b, a)
  BY <1>1, <1>2 DEF LocalSame, WireOK
<1>4. wi2[<<a, b>>] = wi[<<a, b>>]
  BY <1>1 DEF LocalSame
<1> HIDE DEF e, w, w2
<1>5. /\ \A m : ~Has(w2.fwd, m) /\ ~Has(w2.back, m)
      /\ EofLast(w2.back) /\ Single(w2.back)
  BY <1>2, HasNone, EndsNone
<1>6. /\ f.normal[b] # <<b, a>> /\ (f.normal[b] = <<a, b>> <=> e.normal[b] = <<a, b>>)
      /\ a \notin en[b].weak /\ en[b].normal[a] # <<b, a>>
  BY <1>1, <1>2, <1>3 DEF LocalSame, Holds
<1>7. /\ ~OnWire(wi2, b, a) /\ ~Queued(en2, b, a) /\ ~Coming(en2, wi2, b, a) /\ ~Joined(en2, wi2, b, a)
      /\ ~Answer(wi2, b, a) /\ ~Holds(en2, b, a)
      /\ OnWire(wi2, a, b) <=> OnWire(wi, a, b)
      /\ Queued(en2, a, b) <=> Queued(en, a, b)
      /\ Coming(en2, wi2, a, b) <=> Coming(en, wi, a, b)
      /\ Joined(en2, wi2, a, b) <=> Joined(en, wi, a, b)
      /\ Holds(en2, a, b) <=> Holds(en, a, b)
      /\ Answer(wi2, a, b) <=> Answer(wi, a, b)
  <2>1. ~OnWire(wi2, b, a) /\ ~Answer(wi2, b, a)
    BY <1>5 DEF OnWire, Answer, w2
  <2>2. /\ ~Queued(en2, b, a) /\ (Queued(en2, a, b) <=> Queued(en, a, b)) /\ en2[a] = f /\ en2[b] = en[b]
        /\ Holds(en2, b, a) <=> Holds(en, b, a)
    BY <1>1, <1>2 DEF LocalSame
  <2>3. /\ OnWire(wi2, a, b) <=> OnWire(wi, a, b)
        /\ Answer(wi2, a, b) <=> Answer(wi, a, b)
    BY <1>4 DEF OnWire, Answer
  <2> QED
    BY <1>2, <1>3, <1>6, <2>1, <2>2, <2>3 DEF Coming, Joined, Holds, e
<1>9. WireOK(en2, wi2, b, a)
  BY <1>1, <1>2, <1>3, <1>5, <1>7 DEF LocalSame, WireOK, w, w2
<1>10. WireOK(en2, wi2, a, b)
  BY <1>1, <1>2, <1>4, <1>7 DEF LocalSame, WireOK, e
<1>11. HoldOK(en2, wi2, b, a)
  <2>1. /\ ~(Has(e.inMsgs, b) /\ Has(e.tasks, Starting(b))) /\ Once(e.inMsgs, b) /\ Once(e.tasks, Starting(b))
    BY <1>1 DEF LocalSame, HoldOK, e
  <2> QED
    BY <1>1, <1>2, <1>6, <1>7, <2>1 DEF LocalSame, HoldOK, w2
<1>12. HoldOK(en2, wi2, a, b)
  BY <1>1, <1>2, <1>4, <1>6, <1>7 DEF LocalSame, HoldOK, e
<1>13. SmallerOK(en2, wi2, b, a)
  <2>1. ~Kept(en2, wi2, b, a) /\ en2[a].normal[b] # <<b, a>>
    BY <1>1, <1>5, <1>6 DEF Kept, LocalSame, w2
  <2> QED
    BY <2>1 DEF SmallerOK
<1>14. SmallerOK(en2, wi2, a, b)
  <2>1. Away(en2, wi2, b, a)
    BY <1>1, <1>2, <1>6, <1>7 DEF Away, LocalSame, w2
  <2>2. Kept(en2, wi2, a, b) <=> Kept(en, wi, a, b)
    BY <1>1, <1>4, <1>6 DEF Kept, LocalSame, e
  <2> QED
    BY <1>1, <2>1, <2>2 DEF LocalSame, SmallerOK
<1>15. AnswersOK(en2, wi2, b, a)
  BY <1>1, <1>2, <1>3, <1>5, <1>7 DEF LocalSame, AnswersOK, e, w, w2
<1>16. AnswersOK(en2, wi2, a, b)
  BY <1>1, <1>2, <1>4, <1>7 DEF LocalSame, AnswersOK, e
<1>17. PairOK(en2, wi2, a, b) /\ PairOK(en2, wi2, b, a)
  BY <1>9, <1>10, <1>11, <1>12, <1>13, <1>14, <1>15, <1>16 DEF PairOK
<1> QED
  BY ONLY <1>0, <1>17, LocalOK

LEMMA HandledOnly ==
    ASSUME NEW e, NEW b, b \notin Unhandled(e)
    PROVE  ~Has(e.inMsgs, b) /\ ~Has(e.tasks, Starting(b))
<1>1. ~Has(e.inMsgs, b)
  BY DEF Has, Unhandled, ToSet
<1>2. ASSUME Has(e.tasks, Starting(b))
      PROVE  FALSE
  <2>1. Starting(b).run = "start_graph" /\ Starting(b).on = b
    BY DEF Starting, Task
  <2>2. Starting(b) \in ToSet(e.tasks)
    BY <1>2 DEF Has, ToSet
  <2> QED
    BY <2>1, <2>2 DEF Unhandled
<1> QED
  BY <1>1, <1>2

\* a's remote for the channel goes, before its engine closes.
Rest(a, c) ==
  LET e == engine[a]
      b == Peer(a, c) IN
  [e EXCEPT !.normal[b] = IF e.normal[b] = c THEN None ELSE @,
            !.weak = IF c[1] = a /\ b \in e.weak THEN @ \ {b} ELSE @]

LEMMA RestOK ==
    ASSUME TypeInv, GraphOK(engine, wire), NEW c \in Channels, NEW a \in {c[1], c[2]}, Eof(a, c)
    PROVE  GraphOK([engine EXCEPT ![a] = Rest(a, c)], wire')
<1> DEFINE e == engine[a]
           b == Peer(a, c)
           f == Rest(a, c)
           en2 == [engine EXCEPT ![a] = f]
<1>1. /\ a \in App /\ b \in App \ {a} /\ c \in {<<a, b>>, <<b, a>>} /\ graph \in Graphs
      /\ a = c[1] => c = <<a, b>> /\ In(a, c) = "back"
      /\ a # c[1] => c = <<b, a>> /\ In(a, c) = "fwd"
      /\ e \in EngineType /\ wire \in [Channels -> WireType] /\ b = Peer(a, c) /\ e = engine[a]
  BY ChannelFacts, EngineAt DEF Peer, In, TypeInv, Typed
<1>2. wire' = [wire EXCEPT ![c] = Over]
  BY DEF Eof
<1>3. /\ wire' \in [Channels -> WireType] /\ \A d \in Channels : d # c => wire'[d] = wire[d]
      /\ wire'[c].st = "closed" /\ wire'[c].fwd = <<>> /\ wire'[c].back = <<>>
  <2>1. <<>> \in Seq(FwdType) /\ <<>> \in Seq(BackType)
    OBVIOUS
  <2>2. Over \in WireType
    BY <2>1 DEF Over, WireType
  <2> QED
    BY <1>1, <1>2, <2>2 DEF Over
<1> HIDE DEF e, b
<1>4. /\ f \in EngineType /\ f.state = e.state /\ f.made = e.made /\ f.original = e.original
      /\ f.requester = e.requester /\ f.context = e.context /\ f.out = e.out /\ f.oks = e.oks
      /\ f.inMsgs = e.inMsgs /\ f.tasks = e.tasks
      /\ f.weak = (IF c[1] = a /\ b \in e.weak THEN e.weak \ {b} ELSE e.weak)
      /\ f.normal[b] = (IF e.normal[b] = c THEN None ELSE e.normal[b])
      /\ \A d \in App : d # b => f.normal[d] = e.normal[d]
  <2>1. f = [e EXCEPT !.normal[b] = IF e.normal[b] = c THEN None ELSE @,
                      !.weak = IF c[1] = a /\ b \in e.weak THEN @ \ {b} ELSE @]
    BY DEF Rest, e, b
  <2> HIDE DEF f
  <2> QED
    BY <1>1, <2>1, ZenonT(40) DEF EngineType
<1> HIDE DEF f
<1>5. /\ wire[c].fwd \in Seq(FwdType) /\ wire[c].back \in Seq(BackType)
      /\ wire[c][In(a, c)] # <<>> /\ Head(wire[c][In(a, c)]) = "eof"
      /\ a = c[1] \/ b \notin Unhandled(e)
  BY <1>1 DEF WireType, Eof
<1>6. a = c[1] => Has(wire[<<a, b>>].back, "eof")
  BY <1>1, <1>5, HasTail
<1>7. a # c[1] => Has(wire[<<b, a>>].fwd, "eof") /\ ~Queued(engine, b, a)
  BY <1>1, <1>5, HasTail, HandledOnly DEF Queued
<1>8. wire[c].st = "closed"
  <2>1. WireOK(engine, wire, a, b) /\ WireOK(engine, wire, b, a)
    BY <1>1, PairAt
  <2> QED
    BY <1>1, <1>6, <1>7, <2>1 DEF WireOK
<1>9. Local(engine, wire, a, b, c, f, en2, wire')
  <2>1. wire'[c].st = "none" <=> wire[c].st = "none"
    BY <1>3, <1>8
  <2> QED
    BY <1>1, <1>3, <1>4, <2>1 DEF Local
<1> HIDE DEF en2
<1>10. CASE a = c[1]
  <2>1. f.weak = e.weak \ {b}
    BY <1>4, <1>10
  <2>2. EndsForth(engine, wire, a, b, f, en2, wire')
    BY <1>1, <1>3, <1>4, <1>6, <1>9, <1>10, <2>1 DEF EndsForth
  <2>3. GraphOK(en2, wire')
    BY ONLY <2>2, EndsForthOK
  <2> QED
    BY <2>3 DEF en2, f
<1>11. CASE a # c[1]
  <2>1. EndsBack(engine, wire, a, b, f, en2, wire')
    BY <1>1, <1>3, <1>4, <1>7, <1>9, <1>11 DEF EndsBack
  <2>2. GraphOK(en2, wire')
    BY ONLY <2>1, EndsBackOK
  <2> QED
    BY <2>2 DEF en2, f
<1> QED
  BY <1>10, <1>11

LEMMA EofOK ==
    ASSUME TypeInv, GraphOK(engine, wire), NEW c \in Channels, NEW a \in {c[1], c[2]}, Eof(a, c)
    PROVE  failed' = failed /\ GraphOK(engine', wire')
<1> DEFINE g == Rest(a, c)
           en1 == [engine EXCEPT ![a] = g]
<1>1. a \in App /\ graph \in Graphs /\ engine \in [App -> EngineType]
  BY ChannelFacts, EngineAt DEF TypeInv
<1>2. GraphOK(en1, wire') /\ en1[a] = g
  BY <1>1, RestOK
<1>3. engine' \in {en1, [engine EXCEPT ![a] = Closing(g)]} /\ failed' = failed
  BY DEF Eof, Rest
<1> HIDE DEF g
<1>4. CASE engine' = en1
  BY <1>2, <1>3, <1>4
<1>5. CASE engine' = [engine EXCEPT ![a] = Closing(g)] /\ g.state = "up"
  <2> DEFINE f == Closing(g)
  <2>1. Typed(a, g) /\ QueueOK(a, g)
    BY <1>1, <1>2, EngineAt
  <2>2. /\ Typed(a, f) /\ QueueOK(a, f) /\ f.state = "closing"
        /\ f.original \in {None, g.original} /\ (f = GivenUp(g) => f.original = None)
        /\ f.requester = g.requester /\ f.weak = g.weak /\ f.normal = g.normal /\ f.inMsgs = g.inMsgs
        /\ \A m : m # CloseTask => (Has(f.tasks, m) <=> Has(g.tasks, m))
        /\ \A m : Once(g.tasks, m) => Once(f.tasks, m)
    BY <1>1, <1>5, <2>1, ClosingForm
  <2> HIDE DEF f
  <2>3. engine' = [en1 EXCEPT ![a] = f]
    BY <1>1, <1>5 DEF f
  <2> HIDE DEF en1
  <2>4. Down(en1, wire', a, f, engine')
    BY <1>1, <1>2, <1>5, <2>2, <2>3 DEF Down
  <2>5. GraphOK(engine', wire')
    BY ONLY <2>4, DownOK
  <2> QED
    BY <1>3, <2>5
<1>6. CASE engine' = [engine EXCEPT ![a] = Closing(g)] /\ g.state # "up"
  <2>1. Closing(g) = g
    BY <1>6 DEF Closing
  <2> QED
    BY <1>2, <1>3, <1>6, <2>1
<1> QED
  BY <1>3, <1>4, <1>5, <1>6

-----------------------------------------------------------------------------
(* Every remote of an engine closes *)

\* a's engine gives up its remote for b.
Leaves(en, wi, a, b, f, en2, wi2) ==
  LET e == en[a] IN
  /\ Change(en, wi, a, f, en2, wi2) /\ b \in App \ {a} /\ e.state = "closing" /\ f.state = "draining"
  /\ f.weak = {} /\ f.normal[b] = None /\ f.inMsgs = e.inMsgs /\ ~Pending(f, b)
  /\ Has(f.tasks, Starting(b)) => Has(e.tasks, Starting(b))
  /\ Once(e.tasks, Starting(b)) => Once(f.tasks, Starting(b))
  /\ f.original = e.original /\ f.requester = e.requester
  /\ IF Holds(en, a, b) THEN ClosedEnd(wi2[<<a, b>>], wi[<<a, b>>], a, <<a, b>>)
     ELSE wi2[<<a, b>>] = wi[<<a, b>>]
  /\ IF e.normal[b] = <<b, a>> THEN ClosedEnd(wi2[<<b, a>>], wi[<<b, a>>], a, <<b, a>>)
     ELSE wi2[<<b, a>>] = wi[<<b, a>>]

\* What the peers of its channels see of that.
Left(en, wi, a, b, f, en2, wi2) ==
  LET w == wi[<<a, b>>]
      w2 == wi2[<<a, b>>]
      v == wi[<<b, a>>]
      v2 == wi2[<<b, a>>] IN
  /\ WireOK(en, wi, a, b) /\ HoldOK(en, wi, a, b) /\ SmallerOK(en, wi, a, b)
  /\ WireOK(en, wi, b, a) /\ HoldOK(en, wi, b, a) /\ SmallerOK(en, wi, b, a) /\ AnswersOK(en, wi, b, a)
  /\ en2[a] = f /\ en2[b] = en[b] /\ <<a, b>> # None /\ <<b, a>> # None
  /\ ~Holds(en2, a, b) /\ Leaving(en2, a)
  /\ Holds(en2, b, a) <=> Holds(en, b, a)
  /\ Leaving(en2, b) <=> Leaving(en, b)
  /\ IF Holds(en, a, b)
     THEN w2.st = "closed" /\ w2.back = <<>> /\ (Has(w2.fwd, "eof") <=> w.st = "up" \/ Has(w.fwd, "eof"))
     ELSE w2 = w
  /\ IF en[a].normal[b] = <<b, a>>
     THEN v2.st = "closed" /\ v2.fwd = <<>> /\ (Has(v2.back, "eof") <=> v.st = "up" \/ Has(v.back, "eof"))
     ELSE v2 = v
  /\ \A m : ~Has(<<>>, m)
  /\ Once(w.fwd, "start_graph") => Once(w2.fwd, "start_graph")
  /\ EofLast(w2.back) /\ EofLast(v2.back)
  /\ Single(v.back) => Single(v2.back)
  /\ \A m \in {"ok", "duplicate"} : Has(v2.back, m) <=> Has(v.back, m)
  /\ Queued(en2, a, b) <=> Queued(en, a, b)
  /\ Queued(en2, b, a) => Queued(en, b, a)
  /\ OnWire(wi2, a, b) <=> OnWire(wi, a, b)
  /\ OnWire(wi2, b, a) => OnWire(wi, b, a) /\ v2 = v
  /\ Coming(en2, wi2, a, b) <=> Coming(en, wi, a, b)
  /\ Coming(en2, wi2, b, a) => Coming(en, wi, b, a) /\ v2 = v
  /\ Joined(en2, wi2, a, b) <=> Joined(en, wi, a, b)
  /\ Joined(en2, wi2, b, a) => Joined(en, wi, b, a) /\ v2 = v
  /\ Answer(wi2, b, a) <=> Answer(wi, b, a)

LEMMA LeavesFacts ==
    ASSUME NEW en, NEW wi, NEW a, NEW b, NEW f, NEW en2, NEW wi2, Leaves(en, wi, a, b, f, en2, wi2)
    PROVE  Left(en, wi, a, b, f, en2, wi2)
<1> DEFINE e == en[a]
           w == wi[<<a, b>>]
           w2 == wi2[<<a, b>>]
           v == wi[<<b, a>>]
           v2 == wi2[<<b, a>>]
<1>0. /\ Change(en, wi, a, f, en2, wi2) /\ a \in App /\ b \in App \ {a} /\ GraphOK(en, wi)
      /\ f.state = "draining" /\ f.weak = {} /\ f.normal[b] = None /\ f.inMsgs = e.inMsgs
      /\ Has(f.tasks, Starting(b)) => Has(e.tasks, Starting(b))
      /\ IF Holds(en, a, b) THEN ClosedEnd(w2, w, a, <<a, b>>) ELSE w2 = w
      /\ IF e.normal[b] = <<b, a>> THEN ClosedEnd(v2, v, a, <<b, a>>) ELSE v2 = v
  BY DEF Leaves, Change
<1>1. /\ WireOK(en, wi, a, b) /\ HoldOK(en, wi, a, b) /\ SmallerOK(en, wi, a, b)
      /\ WireOK(en, wi, b, a) /\ HoldOK(en, wi, b, a) /\ SmallerOK(en, wi, b, a) /\ AnswersOK(en, wi, b, a)
  BY <1>0, PairAt
<1>2. en2[a] = f /\ en2[b] = en[b]
  <2>1. /\ en2[a] = f /\ en2 \in [App -> EngineType] /\ Typed(a, en[a])
        /\ \A d \in App \ {a} : /\ en2[d] = en[d] /\ Skipped(en2, wi2, d) = Skipped(en, wi, d)
                                /\ \A x : Owes(en2, wi2, d, x) <=> Owes(en, wi, d, x)
                                /\ <<a, d>> \in Channels /\ <<d, a>> \in Channels
    BY ONLY <1>0, ChangeFacts
  <2> QED
    BY <1>0, <2>1
<1>3. <<a, b>> # None /\ <<b, a>> # None /\ a # b
  BY <1>0, ChannelFacts
<1>4. /\ w.fwd \in Seq(FwdType) /\ v.back \in Seq(BackType) /\ "eof" \in FwdType /\ "eof" \in BackType
  <2>1. wi \in [Channels -> WireType] /\ <<a, b>> \in Channels /\ <<b, a>> \in Channels
    BY <1>0, EngineAt, ChannelFacts
  <2> QED
    BY <2>1 DEF WireType, FwdType, BackType
<1> HIDE DEF e, w, w2, v, v2
<1>5. /\ \A m : ~Has(<<>>, m)
      /\ EofLast(<<>>)
  BY HasNone, EndsNone
<1>6. Holds(en, a, b) => /\ w2.st = "closed" /\ w2.back = <<>>
                         /\ w2.fwd = IF w.st = "up" THEN Append(w.fwd, "eof") ELSE w.fwd
  BY <1>0, <1>3 DEF ClosedEnd
<1>7. e.normal[b] = <<b, a>> => /\ v2.st = "closed" /\ v2.fwd = <<>>
                                /\ v2.back = IF v.st = "up" THEN Append(v.back, "eof") ELSE v.back
  BY <1>0, <1>3 DEF ClosedEnd
<1>8. /\ \A m : Has(Append(w.fwd, "eof"), m) <=> Has(w.fwd, m) \/ "eof" = m
      /\ \A m : Once(w.fwd, m) /\ ("eof" = m => ~Has(w.fwd, m)) => Once(Append(w.fwd, "eof"), m)
      /\ \A m : Has(Append(v.back, "eof"), m) <=> Has(v.back, m) \/ "eof" = m
  BY <1>4, HasAppend
<1>9. /\ ~Has(v.back, "eof") => EofLast(Append(v.back, "eof"))
      /\ Single(v.back) => Single(Append(v.back, "eof"))
  BY <1>4, EndsAppend
<1>10. EofLast(w.back) /\ EofLast(v.back) /\ (Has(v.back, "eof") => v.st = "closed")
  BY <1>1 DEF WireOK, w, v
<1>11. /\ IF Holds(en, a, b)
          THEN w2.st = "closed" /\ w2.back = <<>> /\ (Has(w2.fwd, "eof") <=> w.st = "up" \/ Has(w.fwd, "eof"))
          ELSE w2 = w
       /\ Once(w.fwd, "start_graph") => Once(w2.fwd, "start_graph")
       /\ Has(w2.fwd, "start_graph") <=> Has(w.fwd, "start_graph")
       /\ EofLast(w2.back)
  BY <1>0, <1>5, <1>6, <1>8, <1>10
<1>12. /\ IF e.normal[b] = <<b, a>>
          THEN v2.st = "closed" /\ v2.fwd = <<>> /\ (Has(v2.back, "eof") <=> v.st = "up" \/ Has(v.back, "eof"))
          ELSE v2 = v
       /\ EofLast(v2.back) /\ (Single(v.back) => Single(v2.back))
       /\ \A m \in {"ok", "duplicate"} : Has(v2.back, m) <=> Has(v.back, m)
  BY <1>0, <1>5, <1>7, <1>8, <1>9, <1>10
<1>13. /\ ~Holds(en2, a, b) /\ Leaving(en2, a)
       /\ Holds(en2, b, a) <=> Holds(en, b, a)
       /\ Leaving(en2, b) <=> Leaving(en, b)
  BY <1>0, <1>2, <1>3 DEF Holds, Leaving
<1>14. /\ Queued(en2, a, b) <=> Queued(en, a, b)
       /\ Queued(en2, b, a) => Queued(en, b, a)
       /\ OnWire(wi2, a, b) <=> OnWire(wi, a, b)
       /\ OnWire(wi2, b, a) => OnWire(wi, b, a) /\ v2 = v
       /\ Answer(wi2, b, a) <=> Answer(wi, b, a)
  <2>1. Answer(wi2, b, a) <=> Answer(wi, b, a)
    BY <1>12 DEF Answer, v, v2
  <2>2. OnWire(wi2, a, b) <=> OnWire(wi, a, b)
    BY <1>11 DEF OnWire, w, w2
  <2>3. OnWire(wi2, b, a) => OnWire(wi, b, a) /\ v2 = v
    BY <1>5, <1>12 DEF OnWire, v, v2
  <2>4. (Queued(en2, a, b) <=> Queued(en, a, b)) /\ (Queued(en2, b, a) => Queued(en, b, a))
    BY <1>0, <1>2 DEF Queued, e
  <2> QED
    BY <2>1, <2>2, <2>3, <2>4
<1>15. Coming(en, wi, b, a) => e.normal[b] # <<b, a>>
  BY <1>1 DEF HoldOK, e
<1>16. /\ Coming(en2, wi2, a, b) <=> Coming(en, wi, a, b)
       /\ Coming(en2, wi2, b, a) => Coming(en, wi, b, a) /\ v2 = v
  BY <1>12, <1>14, <1>15 DEF Coming
<1>17. /\ Joined(en2, wi2, a, b) <=> Joined(en, wi, a, b)
       /\ Joined(en2, wi2, b, a) => Joined(en, wi, b, a) /\ v2 = v
  BY <1>0, <1>2, <1>3, <1>16 DEF Joined
<1> QED
  BY <1>1, <1>2, <1>3, <1>5, <1>11, <1>12, <1>13, <1>14, <1>16, <1>17 DEF Left, e, w, w2, v, v2

LEMMA LeavesOK ==
    ASSUME NEW en, NEW wi, NEW a, NEW b, NEW f, NEW en2, NEW wi2, Leaves(en, wi, a, b, f, en2, wi2)
    PROVE  PairOK(en2, wi2, a, b) /\ PairOK(en2, wi2, b, a)
<1> DEFINE e == en[a]
           w == wi[<<a, b>>]
           w2 == wi2[<<a, b>>]
           v == wi[<<b, a>>]
           v2 == wi2[<<b, a>>]
<1>1. Left(en, wi, a, b, f, en2, wi2)
  BY ONLY Leaves(en, wi, a, b, f, en2, wi2), LeavesFacts
<1>2. /\ f.state = "draining" /\ f.weak = {} /\ f.normal[b] = None /\ f.inMsgs = e.inMsgs /\ ~Pending(f, b)
      /\ f.original = e.original /\ f.requester = e.requester
      /\ Has(f.tasks, Starting(b)) => Has(e.tasks, Starting(b))
      /\ Once(e.tasks, Starting(b)) => Once(f.tasks, Starting(b))
  BY DEF Leaves
<1>3. /\ w.st = "connecting" => Holds(en, a, b)
      /\ Has(w.fwd, "eof") => w.st = "closed" /\ w.back = <<>> /\ ~Holds(en, a, b)
      /\ Joined(en, wi, a, b) => (w.st = "up" /\ Holds(en, a, b)) \/ Has(w.fwd, "eof")
  BY <1>1 DEF Left, WireOK, HoldOK, Holds
<1>4. e.normal[b] = <<b, a>> => v.st \in {"up", "closed"} /\ ~Has(v.back, "eof")
  BY <1>1 DEF Left, WireOK, HoldOK, Joined
<1> HIDE DEF e, w, w2, v, v2
<1>5. WireOK(en2, wi2, a, b)
  <2>1. CASE Holds(en, a, b)
    BY <1>1, <1>2, <2>1 DEF Left, WireOK, w, w2
  <2>2. CASE ~Holds(en, a, b)
    BY <1>1, <1>2, <1>3, <2>2 DEF Left, WireOK, w, w2
  <2> QED
    BY <2>1, <2>2
<1>6. HoldOK(en2, wi2, a, b)
  <2>1. Joined(en2, wi2, a, b) => Has(w2.fwd, "eof")
    BY <1>1, <1>3 DEF Left, w, w2
  <2> QED
    BY <1>1, <1>2, <2>1 DEF Left, HoldOK, w, w2
<1>7. SmallerOK(en2, wi2, a, b)
  <2>1. Away(en, wi, b, a) => Away(en2, wi2, b, a)
    BY <1>1 DEF Left, Away
  <2>2. Kept(en2, wi2, a, b) => Kept(en, wi, a, b)
    BY <1>1, <1>2 DEF Left, Kept, w, w2
  <2> QED
    BY <1>1, <2>1, <2>2 DEF Left, SmallerOK
<1>8. AnswersOK(en2, wi2, a, b)
  BY <1>1, <1>2 DEF Left, AnswersOK
<1>9. WireOK(en2, wi2, b, a)
  <2>1. CASE e.normal[b] = <<b, a>>
    <3>1. v.st # "none"
      BY <1>4, <2>1
    <3> QED
      BY <1>1, <1>4, <2>1, <3>1 DEF Left, WireOK, e, v, v2
  <2>2. CASE e.normal[b] # <<b, a>>
    BY <1>1, <2>2 DEF Left, WireOK, e, v, v2
  <2> QED
    BY <2>1, <2>2
<1>10. HoldOK(en2, wi2, b, a)
  <2>1. ~(Has(f.inMsgs, b) /\ Has(f.tasks, Starting(b))) /\ Once(f.inMsgs, b) /\ Once(f.tasks, Starting(b))
    BY <1>1, <1>2 DEF Left, HoldOK, e
  <2>2. CASE e.normal[b] = <<b, a>>
    <3>1. v.st = "up" => Has(v2.back, "eof")
      BY <1>1, <2>2 DEF Left, e, v, v2
    <3>2. a \in en[b].weak \/ en[b].normal[a] = <<b, a>> =>
            Has(v2.back, "eof") \/ (v2.st = "closed" /\ en[b].state # "up" /\ ~Pending(en[b], a) /\ en[b].normal[a] # <<b, a>>)
      BY <1>1, <1>4, <2>2, <3>1 DEF Left, HoldOK, e, v, v2
    <3>3. en[b].normal[a] = <<b, a>> => a \notin en[b].weak
      BY <1>1 DEF Left, HoldOK
    <3> QED
      BY <1>1, <1>2, <2>1, <2>2, <3>2, <3>3 DEF Left, HoldOK, e, v, v2
  <2>3. CASE e.normal[b] # <<b, a>>
    BY <1>1, <1>2, <2>1, <2>3 DEF Left, HoldOK, e, v, v2
  <2> QED
    BY <2>2, <2>3
<1>11. SmallerOK(en2, wi2, b, a)
  <2>1. Away(en, wi, a, b) => Away(en2, wi2, a, b)
    BY <1>1, <1>2 DEF Left, Away
  <2>2. Kept(en2, wi2, b, a) <=> Kept(en, wi, b, a)
    BY <1>1 DEF Left, Kept
  <2> QED
    BY <1>1, <1>2, <2>1, <2>2 DEF Left, SmallerOK
<1>12. AnswersOK(en2, wi2, b, a)
  <2>1. v2.st \in {"none", "connecting"} => v2 = v
    BY <1>1 DEF Left, v, v2
  <2> QED
    BY <1>1, <1>2, <2>1 DEF Left, AnswersOK, e, v, v2
<1> QED
  BY <1>5, <1>6, <1>7, <1>8, <1>9, <1>10, <1>11, <1>12 DEF PairOK

LEMMA CloseEngineOK ==
    ASSUME TypeInv, GraphOK(engine, wire), NEW a \in App, CloseEngine(a)
    PROVE  failed' = failed /\ GraphOK(engine', wire')
<1> DEFINE e == engine[a]
           f == [Ran(e) EXCEPT !.state = "draining", !.weak = {}, !.normal = [b \in App |-> None]]
<1>1. /\ Typed(a, e) /\ QueueOK(a, e) /\ engine \in [App -> EngineType] /\ wire \in [Channels -> WireType]
      /\ e.tasks # <<>> /\ NextTask(e).run = "close" /\ graph \in Graphs
  BY EngineAt DEF CloseEngine, NextTask, NoTask, Task, TypeInv
<1>2. NextTask(e) = CloseTask
  <2>1. NextTask(e) \in Tasks
    BY <1>1, RanTyped
  <2> QED
    BY <1>1, <2>1, TaskForms
<1>3. /\ Typed(a, Ran(e)) /\ QueueOK(a, Ran(e))
      /\ Ran(e).requester = e.requester /\ Ran(e).state = e.state
      /\ Ran(e).original = e.original /\ Ran(e).weak = e.weak /\ Ran(e).normal = e.normal
      /\ Ran(e).inMsgs = e.inMsgs
      /\ \A m : Has(e.tasks, m) <=> NextTask(e) = m \/ Has(Ran(e).tasks, m)
      /\ \A m : Once(e.tasks, m) => /\ Once(Ran(e).tasks, m)
                                    /\ NextTask(e) = m => ~Has(Ran(e).tasks, m)
      /\ e.state = "closing" /\ \A b : ~Pending(Ran(e), b)
  BY <1>1, <1>2, RanOK
<1>4. /\ f \in EngineType /\ f.state = "draining" /\ f.original = e.original /\ f.requester = e.requester
      /\ f.weak = {} /\ f.inMsgs = e.inMsgs /\ f.tasks = Ran(e).tasks /\ f.made = Ran(e).made
      /\ f.out = Ran(e).out /\ f.oks = Ran(e).oks
      /\ \A b \in App : f.normal[b] = None
  BY <1>3 DEF Typed, EngineType
<1>5. engine' = [engine EXCEPT ![a] = f] /\ failed' = failed
  BY DEF CloseEngine
<1>6. /\ wire' \in [Channels -> WireType]
      /\ \A c \in Channels : c \notin Held(a) => wire'[c] = wire[c]
      /\ \A c \in Held(a) : ClosedEnd(wire'[c], wire[c], a, c)
  BY ClosedEnds
<1> HIDE DEF f, e
<1>7. \A b : ~Pending(f, b)
  BY <1>3, <1>4 DEF Pending
<1>8. Typed(a, f)
  BY <1>3, <1>4, <1>7 DEF Typed, RemotesOK
<1>9. QueueOK(a, f)
  <2>1. \A y \in App : f.normal[y] # <<a, y>>
    <3>1. \A y \in App : <<a, y>> \in App \X App
      OBVIOUS
    <3>2. None \notin App \X App
      BY NamesAreDistinct
    <3> QED
      BY <1>4, <3>1, <3>2
  <2>2. ~Has(f.tasks, CloseTask) /\ f.made # 0 /\ CreatedFirst(f.tasks) /\ Once(f.tasks, CloseTask)
    BY <1>1, <1>2, <1>3, <1>4 DEF QueueOK
  <2> QED
    BY <1>4, <1>7, <2>1, <2>2 DEF QueueOK
<1>10. ConnectingOK(f)
  <2>1. \A b : Once(f.tasks, Creating(b))
    BY <1>7 DEF Pending, Has, Once
  <2> QED
    BY <1>4, <1>7, <2>1 DEF ConnectingOK
<1>11. ASSUME NEW b \in App \ {a}
       PROVE  /\ <<a, b>> \in Channels /\ <<b, a>> \in Channels
              /\ <<a, b>> \in Held(a) <=> Holds(engine, a, b)
              /\ <<b, a>> \in Held(a) <=> e.normal[b] = <<b, a>>
  BY <1>1, <1>11, ChannelFacts DEF Held, Peer, Holds, e
<1>12. \A c \in Held(a) : a \in {c[1], c[2]}
  BY DEF Held
<1>13. \A x, y \in App \ {a} : x # y => wire'[<<x, y>>] = wire[<<x, y>>]
  <2> SUFFICES ASSUME NEW x \in App \ {a}, NEW y \in App \ {a}, x # y
               PROVE  wire'[<<x, y>>] = wire[<<x, y>>]
    OBVIOUS
  <2>1. <<x, y>> \in Channels /\ <<x, y>> \notin Held(a)
    BY <1>12, ChannelFacts
  <2> QED
    BY <1>6, <2>1
<1>14. \A x \in App \ {a} : wire'[<<x, a>>].st = "none" <=> wire[<<x, a>>].st = "none"
  <2> SUFFICES ASSUME NEW x \in App \ {a}
               PROVE  wire'[<<x, a>>].st = "none" <=> wire[<<x, a>>].st = "none"
    OBVIOUS
  <2>1. CASE e.normal[x] # <<x, a>>
    BY <1>6, <1>11, <2>1
  <2>2. CASE e.normal[x] = <<x, a>>
    <3>1. WireOK(engine, wire, x, a) /\ HoldOK(engine, wire, x, a)
      BY PairAt
    <3>2. wire[<<x, a>>].st # "none"
      BY <2>2, <3>1 DEF WireOK, HoldOK, Joined, e
    <3>3. wire'[<<x, a>>].st = "closed"
      BY <1>6, <1>11, <2>2 DEF ClosedEnd
    <3> QED
      BY <3>2, <3>3
  <2> QED
    BY <2>1, <2>2
<1>15. Change(engine, wire, a, f, engine', wire')
  BY <1>1, <1>5, <1>6, <1>8, <1>13, <1>14 DEF Change
<1>16. engine'[a] = f
  BY ONLY <1>15, ChangeFacts
<1>17. SkippedOK(engine', wire', a)
  BY <1>4, <1>16 DEF SkippedOK
<1>18. ASSUME NEW b \in App \ {a}
       PROVE  PairOK(engine', wire', a, b) /\ PairOK(engine', wire', b, a)
  <2>1. /\ Has(f.tasks, Starting(b)) => Has(e.tasks, Starting(b))
        /\ Once(e.tasks, Starting(b)) => Once(f.tasks, Starting(b))
    BY <1>3, <1>4
  <2>2. Leaves(engine, wire, a, b, f, engine', wire')
    BY <1>3, <1>4, <1>6, <1>7, <1>11, <1>15, <2>1 DEF Leaves, e
  <2> QED
    BY ONLY <2>2, LeavesOK
<1>19. GraphOK(engine', wire')
  BY ONLY <1>9, <1>10, <1>15, <1>17, <1>18, ChangeOK
<1> QED
  BY <1>5, <1>19, SMTT(30)

-----------------------------------------------------------------------------
(* A command arrives *)

\* The app of a makes its first engine for the graph.
Makes(en, wi, a, f, en2) ==
  /\ graph \in Graphs /\ GraphOK(en, wi) /\ a \in App /\ en[a].state = "none"
  /\ f = NewEngine("up", 1) /\ en2 = [en EXCEPT ![a] = f]

LEMMA MakesPair ==
    ASSUME NEW en, NEW wi, NEW a, NEW f, NEW en2, Makes(en, wi, a, f, en2),
           Change(en, wi, a, f, en2, wi), NEW b \in App \ {a}
    PROVE  PairOK(en2, wi, a, b) /\ PairOK(en2, wi, b, a)
<1> DEFINE e == en[a]
           w == wi[<<a, b>>]
<1>1. /\ WireOK(en, wi, a, b) /\ HoldOK(en, wi, a, b) /\ SmallerOK(en, wi, a, b) /\ AnswersOK(en, wi, a, b)
      /\ WireOK(en, wi, b, a) /\ HoldOK(en, wi, b, a) /\ SmallerOK(en, wi, b, a) /\ AnswersOK(en, wi, b, a)
  BY PairAt DEF Makes
<1>2. /\ en2[a] = f /\ en2[b] = en[b] /\ Leaving(en2, b) = Leaving(en, b)
      /\ Owes(en2, wi, b, a) <=> Owes(en, wi, b, a)
  <2>1. /\ en2[a] = f /\ en2 \in [App -> EngineType] /\ Typed(a, en[a])
        /\ \A d \in App \ {a} : /\ en2[d] = en[d] /\ Skipped(en2, wi, d) = Skipped(en, wi, d)
                                /\ \A x : Owes(en2, wi, d, x) <=> Owes(en, wi, d, x)
                                /\ <<a, d>> \in Channels /\ <<d, a>> \in Channels
    BY ONLY Change(en, wi, a, f, en2, wi), ChangeFacts
  <2> QED
    BY <2>1 DEF Leaving
<1>3. /\ f.state = "up" /\ f.original = None /\ f.requester = None /\ f.weak = {} /\ f.out = {}
      /\ f.inMsgs = <<>> /\ f.tasks = <<>> /\ f.normal[b] = None /\ e.state = "none"
  BY DEF Makes, NewEngine
<1>4. QueueOK(a, e)
  BY EngineAt DEF Makes
<1>5. /\ e.weak = {} /\ e.normal[b] = None /\ e.requester = None /\ a \in App /\ b \in App
      /\ e.tasks = <<>> /\ e.inMsgs = <<>>
  BY <1>3, <1>4 DEF QueueOK, Makes
<1>6. /\ <<a, b>> # None /\ <<b, a>> # None /\ <<a, b>> # <<b, a>> /\ a # None /\ b # None
  BY <1>5, ChannelFacts
<1>7. \A m : ~Has(<<>>, m) /\ Once(<<>>, m)
  BY HasNone
<1>8. w.st = "none" /\ w.fwd = <<>> /\ w.back = <<>>
  BY <1>1, <1>3 DEF WireOK
<1> HIDE DEF e, w
<1>9. /\ ~Pending(f, b) /\ ~Leaving(en2, a) /\ ~Leaving(en, a)
      /\ ~Holds(en2, a, b) /\ ~Holds(en, a, b)
      /\ Holds(en2, b, a) <=> Holds(en, b, a)
  BY <1>2, <1>3, <1>5, <1>6, <1>7 DEF Pending, Leaving, Holds, e
<1>10. /\ ~Joined(en, wi, a, b) /\ ~Answer(wi, a, b) /\ ~OnWire(wi, a, b)
  BY <1>1, <1>7, <1>8 DEF HoldOK, Answer, OnWire, w
<1>11. /\ ~Queued(en2, b, a) /\ ~Queued(en, b, a)
       /\ Queued(en2, a, b) <=> Queued(en, a, b)
       /\ Coming(en2, wi, a, b) <=> Coming(en, wi, a, b)
       /\ Coming(en2, wi, b, a) <=> Coming(en, wi, b, a)
       /\ Joined(en2, wi, a, b) <=> Joined(en, wi, a, b)
       /\ Joined(en2, wi, b, a) <=> Joined(en, wi, b, a)
       /\ ~Owes(en2, wi, a, b)
  BY <1>2, <1>3, <1>5, <1>6, <1>7 DEF Queued, Coming, Joined, Owes, e
<1>12. en[b].normal[a] # <<a, b>>
  BY <1>10 DEF Joined
<1>13. WireOK(en2, wi, a, b)
  BY <1>1, <1>2, <1>3, <1>8, <1>7, <1>9 DEF WireOK, w
<1>14. HoldOK(en2, wi, a, b)
  BY <1>1, <1>2, <1>3, <1>6, <1>10, <1>11 DEF HoldOK
<1>15. SmallerOK(en2, wi, a, b)
  <2>1. ~Kept(en2, wi, a, b)
    BY <1>2, <1>3, <1>6, <1>7, <1>8 DEF Kept, w
  <2> QED
    BY <1>2, <1>12, <2>1 DEF SmallerOK
<1>16. AnswersOK(en2, wi, a, b)
  BY <1>1, <1>2, <1>3, <1>5, <1>10, <1>11 DEF AnswersOK, e
<1>17. WireOK(en2, wi, b, a)
  BY <1>1, <1>2, <1>9, <1>11 DEF WireOK
<1>18. HoldOK(en2, wi, b, a)
  BY <1>1, <1>2, <1>3, <1>6, <1>7, <1>9, <1>11 DEF HoldOK
<1>19. SmallerOK(en2, wi, b, a)
  <2>1. Kept(en2, wi, b, a) <=> Kept(en, wi, b, a)
    BY <1>2 DEF Kept
  <2> QED
    BY <1>1, <1>2, <1>3, <1>5, <1>6, <1>9, <2>1 DEF SmallerOK, e
<1>20. AnswersOK(en2, wi, b, a)
  BY <1>1, <1>2, <1>3, <1>6, <1>11 DEF AnswersOK
<1> QED
  BY <1>13, <1>14, <1>15, <1>16, <1>17, <1>18, <1>19, <1>20 DEF PairOK

LEMMA MakesOK ==
    ASSUME NEW en, NEW wi, NEW a, NEW f, NEW en2, Makes(en, wi, a, f, en2)
    PROVE  GraphOK(en2, wi)
<1>1. a \in App /\ f = NewEngine("up", 1) /\ graph \in Graphs /\ en2 = [en EXCEPT ![a] = f] /\ GraphOK(en, wi)
  BY DEF Makes
<1>2. Typed(a, f) /\ wi \in [Channels -> WireType]
  BY <1>1, NewTyped, EngineAt
<1>3. Change(en, wi, a, f, en2, wi)
  BY <1>1, <1>2 DEF Change
<1>4. /\ f.state = "up" /\ f.original = None /\ f.weak = {} /\ f.out = {} /\ f.made = 1
      /\ f.inMsgs = <<>> /\ f.tasks = <<>> /\ f.context = "none"
  BY <1>1 DEF NewEngine
<1>5. /\ \A b : ~Pending(f, b)
      /\ ~Has(f.tasks, CloseTask) /\ Once(f.tasks, CloseTask) /\ CreatedFirst(f.tasks)
  BY <1>4, HasNone, EndsNone DEF Pending
<1> HIDE DEF Makes
<1>6. QueueOK(a, f)
  BY <1>4, <1>5 DEF QueueOK
<1>7. ConnectingOK(f)
  BY <1>4, <1>5 DEF ConnectingOK
<1>8. en2[a] = f
  BY ONLY <1>3, ChangeFacts
<1>9. SkippedOK(en2, wi, a)
  BY <1>4, <1>8 DEF SkippedOK, Skipped
<1>10. ASSUME NEW b \in App \ {a}
       PROVE  PairOK(en2, wi, a, b) /\ PairOK(en2, wi, b, a)
  BY <1>3, MakesPair
<1> QED
  BY ONLY <1>3, <1>6, <1>7, <1>9, <1>10, ChangeOK

\* The start_graph of b is taken from the channel that b made, for a's engine.
Takes(en, wi, a, b, f, en2, wi2) ==
  LET e == en[a]
      w == wi[<<b, a>>]
      w2 == wi2[<<b, a>>] IN
  /\ graph \in Graphs /\ GraphOK(en, wi) /\ a \in App /\ b \in App \ {a} /\ e.state \notin {"none", "gone"}
  /\ f = Posted([e EXCEPT !.inMsgs = Append(@, b)], HandleTask) /\ en2 = [en EXCEPT ![a] = f]
  /\ w.fwd # <<>> /\ Head(w.fwd) = "start_graph" /\ wi2 = [wi EXCEPT ![<<b, a>>].fwd = Tail(@)]

\* The two engines and channels after that.
Taking(en, wi, a, b, f, en2, wi2) ==
  LET e == en[a]
      w == wi[<<b, a>>]
      w2 == wi2[<<b, a>>] IN
  /\ Change(en, wi, a, f, en2, wi2) /\ b \in App \ {a}
  /\ f.state = e.state /\ f.original = e.original /\ f.requester = e.requester /\ f.context = e.context
  /\ f.out = e.out /\ f.oks = e.oks /\ f.weak = e.weak /\ f.normal = e.normal /\ f.made = e.made
  /\ \A d : Has(f.inMsgs, d) <=> Has(e.inMsgs, d) \/ b = d
  /\ \A d : Once(e.inMsgs, d) /\ (b = d => ~Has(e.inMsgs, d)) => Once(f.inMsgs, d)
  /\ \A m : m # HandleTask => (Has(f.tasks, m) <=> Has(e.tasks, m)) /\ (Once(e.tasks, m) => Once(f.tasks, m))
  /\ CreatedFirst(e.tasks) => CreatedFirst(f.tasks)
  /\ w.fwd # <<>> /\ Has(w.fwd, "start_graph") /\ w2.st = w.st /\ w2.back = w.back
  /\ Has(w2.fwd, "eof") <=> Has(w.fwd, "eof")
  /\ Once(w.fwd, "start_graph") => ~Has(w2.fwd, "start_graph")
  /\ \A x, y \in App : x # y /\ <<x, y>> # <<b, a>> => wi2[<<x, y>>] = wi[<<x, y>>]

LEMMA TakesFacts ==
    ASSUME NEW en, NEW wi, NEW a, NEW b, NEW f, NEW en2, NEW wi2, Takes(en, wi, a, b, f, en2, wi2)
    PROVE  Taking(en, wi, a, b, f, en2, wi2)
<1> DEFINE e == en[a]
           w == wi[<<b, a>>]
           n == Append(e.inMsgs, b)
           t == Append(e.tasks, HandleTask)
<1>1. /\ graph \in Graphs /\ GraphOK(en, wi) /\ a \in App /\ b \in App \ {a} /\ e.state \notin {"none", "gone"}
      /\ f = Posted([e EXCEPT !.inMsgs = n], HandleTask) /\ en2 = [en EXCEPT ![a] = f]
      /\ w.fwd # <<>> /\ Head(w.fwd) = "start_graph" /\ wi2 = [wi EXCEPT ![<<b, a>>].fwd = Tail(@)]
  BY DEF Takes
<1>2. /\ Typed(a, e) /\ QueueOK(a, e) /\ e \in EngineType /\ e.inMsgs \in Seq(Sources) /\ e.tasks \in Seq(Tasks)
      /\ wi \in [Channels -> WireType] /\ b \in Sources /\ HandleTask \in Tasks /\ <<b, a>> \in Channels
      /\ w \in WireType /\ w.fwd \in Seq(FwdType)
  <2>1. Typed(a, e) /\ QueueOK(a, e) /\ wi \in [Channels -> WireType]
    BY <1>1, EngineAt
  <2>2. b \in Sources /\ <<b, a>> \in Channels
    BY <1>1, ChannelFacts
  <2>3. HandleTask \in Tasks
    BY DEF Tasks
  <2>4. w \in WireType
    BY <2>1, <2>2
  <2> HIDE DEF e, w
  <2> QED
    BY <2>1, <2>2, <2>3, <2>4 DEF Typed, EngineType, WireType
<1>3. /\ n \in Seq(Sources) /\ \A d : Has(n, d) <=> Has(e.inMsgs, d) \/ b = d
      /\ \A d : Once(e.inMsgs, d) /\ (b = d => ~Has(e.inMsgs, d)) => Once(n, d)
  BY <1>2, HasAppend
<1>4. /\ t \in Seq(Tasks) /\ \A m : Has(t, m) <=> Has(e.tasks, m) \/ HandleTask = m
      /\ \A m : Once(e.tasks, m) /\ (HandleTask = m => ~Has(e.tasks, m)) => Once(t, m)
      /\ CreatedFirst(e.tasks) => CreatedFirst(t)
  BY <1>2, HasAppend, EndsAppend
<1>5. /\ Tail(w.fwd) \in Seq(FwdType) /\ \A m : Has(w.fwd, m) <=> Head(w.fwd) = m \/ Has(Tail(w.fwd), m)
      /\ \A m : Once(w.fwd, m) => (Head(w.fwd) = m => ~Has(Tail(w.fwd), m))
  BY <1>1, <1>2, HasTail, ZenonT(40)
<1> HIDE DEF e, n, t
<1>6. /\ f \in EngineType
      /\ f.state = e.state /\ f.original = e.original /\ f.requester = e.requester /\ f.context = e.context
      /\ f.out = e.out /\ f.oks = e.oks /\ f.weak = e.weak /\ f.normal = e.normal /\ f.made = e.made
      /\ f.inMsgs = n /\ f.tasks = t
  <2>1. f = [e EXCEPT !.inMsgs = n, !.tasks = t]
    BY <1>1, <1>2 DEF Posted, EngineType, t
  <2> QED
    BY <1>2, <1>3, <1>4, <2>1 DEF EngineType
<1>7. Typed(a, f)
  <2>1. \A m : m # HandleTask => (Has(f.tasks, m) <=> Has(e.tasks, m))
    BY <1>4, <1>6
  <2>2. /\ Has(f.tasks, Starting(a)) <=> Has(e.tasks, Starting(a))
        /\ \A d : Has(f.tasks, Creating(d)) <=> Has(e.tasks, Creating(d))
    BY <2>1, TaskKinds
  <2>3. Has(f.inMsgs, a) <=> Has(e.inMsgs, a)
    BY <1>1, <1>3, <1>6
  <2> QED
    BY <1>2, <1>6, <2>2, <2>3 DEF Typed, RemotesOK, Pending
<1>8. /\ wi2 \in [Channels -> WireType] /\ wi2[<<b, a>>].st = w.st /\ wi2[<<b, a>>].back = w.back
      /\ wi2[<<b, a>>].fwd = Tail(w.fwd)
      /\ \A c \in Channels : c # <<b, a>> => wi2[c] = wi[c]
  <2> DEFINE w2 == [w EXCEPT !.fwd = Tail(w.fwd)]
  <2>1. w2 \in WireType /\ w2.st = w.st /\ w2.back = w.back /\ w2.fwd = Tail(w.fwd)
    BY <1>2, <1>5 DEF WireType
  <2>2. wi2 = [wi EXCEPT ![<<b, a>>] = w2]
    BY <1>1
  <2> HIDE DEF w2, w
  <2> QED
    BY <1>2, <2>1, <2>2
<1> HIDE DEF w
<1>9. \A x, y \in App : x # y /\ <<x, y>> # <<b, a>> => wi2[<<x, y>>] = wi[<<x, y>>]
  BY <1>8, ChannelFacts
<1>10. Change(en, wi, a, f, en2, wi2)
  <2>1. \A x, y \in App \ {a} : x # y => wi2[<<x, y>>] = wi[<<x, y>>]
    BY <1>9
  <2>2. \A x \in App \ {a} : wi2[<<x, a>>].st = "none" <=> wi[<<x, a>>].st = "none"
    BY <1>1, <1>8, <1>9 DEF w
  <2> QED
    BY <1>1, <1>7, <1>8, <2>1, <2>2 DEF Change
<1>11. /\ Has(w.fwd, "start_graph") /\ (Has(wi2[<<b, a>>].fwd, "eof") <=> Has(w.fwd, "eof"))
       /\ Once(w.fwd, "start_graph") => ~Has(wi2[<<b, a>>].fwd, "start_graph")
  BY <1>1, <1>5, <1>8 DEF w
<1> QED
  BY <1>1, <1>3, <1>4, <1>6, <1>8, <1>9, <1>10, <1>11 DEF Taking, e, w

LEMMA TakingPair ==
    ASSUME NEW en, NEW wi, NEW a, NEW b, NEW f, NEW en2, NEW wi2, Taking(en, wi, a, b, f, en2, wi2),
           Skipped(en2, wi2, a) = Skipped(en, wi, a)
    PROVE  PairOK(en2, wi2, a, b) /\ PairOK(en2, wi2, b, a)
<1> DEFINE e == en[a]
           w == wi[<<b, a>>]
           w2 == wi2[<<b, a>>]
<1>1. /\ Change(en, wi, a, f, en2, wi2) /\ GraphOK(en, wi) /\ a \in App /\ b \in App \ {a}
      /\ f.state = e.state /\ f.original = e.original /\ f.requester = e.requester
      /\ f.out = e.out /\ f.weak = e.weak /\ f.normal = e.normal
      /\ Has(f.inMsgs, b) /\ (Once(e.inMsgs, b) /\ ~Has(e.inMsgs, b) => Once(f.inMsgs, b))
      /\ w.fwd # <<>> /\ Has(w.fwd, "start_graph") /\ w2.st = w.st /\ w2.back = w.back
      /\ Has(w2.fwd, "eof") <=> Has(w.fwd, "eof")
      /\ Once(w.fwd, "start_graph") => ~Has(w2.fwd, "start_graph")
  BY DEF Taking, Change
<1>2. /\ Has(f.tasks, Starting(b)) <=> Has(e.tasks, Starting(b))
      /\ Once(e.tasks, Starting(b)) => Once(f.tasks, Starting(b))
      /\ Pending(f, b) <=> Pending(e, b)
  BY TaskKinds DEF Taking, Pending
<1>3. /\ WireOK(en, wi, a, b) /\ HoldOK(en, wi, a, b) /\ SmallerOK(en, wi, a, b) /\ AnswersOK(en, wi, a, b)
      /\ WireOK(en, wi, b, a) /\ HoldOK(en, wi, b, a) /\ SmallerOK(en, wi, b, a) /\ AnswersOK(en, wi, b, a)
  BY <1>1, PairAt
<1>4. /\ en2[a] = f /\ en2[b] = en[b]
      /\ \A x : Owes(en2, wi2, b, x) <=> Owes(en, wi, b, x)
  <2>1. /\ en2[a] = f /\ en2 \in [App -> EngineType] /\ Typed(a, en[a])
        /\ \A d \in App \ {a} : /\ en2[d] = en[d] /\ Skipped(en2, wi2, d) = Skipped(en, wi, d)
                                /\ \A x : Owes(en2, wi2, d, x) <=> Owes(en, wi, d, x)
                                /\ <<a, d>> \in Channels /\ <<d, a>> \in Channels
    BY ONLY <1>1, ChangeFacts
  <2> QED
    BY <1>1, <2>1
<1>5. wi2[<<a, b>>] = wi[<<a, b>>]
  BY <1>1 DEF Taking
<1> HIDE DEF e, w, w2
<1>6. Owes(en2, wi2, a, b) <=> Owes(en, wi, a, b)
  BY <1>1, <1>4 DEF Owes, e
<1>7. OnWire(wi, b, a) /\ ~Queued(en, b, a) /\ ~OnWire(wi2, b, a) /\ Queued(en2, b, a)
  BY <1>1, <1>3, <1>4 DEF OnWire, Queued, HoldOK, w, w2
<1>8. /\ Queued(en2, a, b) <=> Queued(en, a, b)
      /\ OnWire(wi2, a, b) <=> OnWire(wi, a, b)
      /\ Coming(en2, wi2, a, b) <=> Coming(en, wi, a, b)
      /\ Coming(en2, wi2, b, a) /\ Coming(en, wi, b, a)
      /\ Joined(en2, wi2, a, b) <=> Joined(en, wi, a, b)
      /\ Joined(en2, wi2, b, a) /\ Joined(en, wi, b, a)
  BY <1>4, <1>5, <1>7 DEF Queued, OnWire, Coming, Joined
<1>9. /\ Holds(en2, a, b) <=> Holds(en, a, b)
      /\ Holds(en2, b, a) <=> Holds(en, b, a)
      /\ Leaving(en2, a) <=> Leaving(en, a)
      /\ Leaving(en2, b) <=> Leaving(en, b)
      /\ Answer(wi2, a, b) <=> Answer(wi, a, b)
      /\ Answer(wi2, b, a) <=> Answer(wi, b, a)
      /\ Kept(en2, wi2, a, b) <=> Kept(en, wi, a, b)
      /\ Kept(en2, wi2, b, a) <=> Kept(en, wi, b, a)
      /\ Away(en2, wi2, a, b) <=> Away(en, wi, a, b)
      /\ Away(en2, wi2, b, a) <=> Away(en, wi, b, a)
  BY <1>1, <1>4, <1>5, <1>8 DEF Holds, Leaving, Answer, Kept, Away, e, w, w2
<1>10. WireOK(en2, wi2, a, b)
  BY <1>1, <1>2, <1>3, <1>4, <1>5, <1>8, <1>9 DEF WireOK, e
<1>11. HoldOK(en2, wi2, a, b)
  BY <1>1, <1>2, <1>3, <1>4, <1>5, <1>8, <1>9 DEF HoldOK, e
<1>12. SmallerOK(en2, wi2, a, b) /\ SmallerOK(en2, wi2, b, a)
  BY <1>1, <1>3, <1>4, <1>9 DEF SmallerOK, e
<1>13. AnswersOK(en2, wi2, a, b)
  BY <1>1, <1>3, <1>4, <1>5, <1>8, <1>9 DEF AnswersOK, e
<1>14. WireOK(en2, wi2, b, a)
  BY <1>1, <1>3, <1>4, <1>8, <1>9 DEF WireOK, w, w2
<1>15. HoldOK(en2, wi2, b, a)
  <2>1. ~Has(e.inMsgs, b) /\ ~Has(f.tasks, Starting(b)) /\ Once(f.tasks, Starting(b)) /\ Once(f.inMsgs, b)
    BY <1>1, <1>2, <1>3, <1>7 DEF HoldOK, Queued, e
  <2> QED
    BY <1>1, <1>3, <1>4, <1>7, <1>8, <1>9, <2>1 DEF HoldOK, e, w, w2
<1>16. AnswersOK(en2, wi2, b, a)
  BY <1>1, <1>3, <1>4, <1>6, <1>8, <1>9 DEF AnswersOK, e, w, w2
<1> QED
  BY <1>10, <1>11, <1>12, <1>13, <1>14, <1>15, <1>16 DEF PairOK

LEMMA TakesOK ==
    ASSUME NEW en, NEW wi, NEW a, NEW b, NEW f, NEW en2, NEW wi2, Takes(en, wi, a, b, f, en2, wi2)
    PROVE  GraphOK(en2, wi2)
<1> DEFINE e == en[a]
<1>1. Taking(en, wi, a, b, f, en2, wi2)
  BY ONLY Takes(en, wi, a, b, f, en2, wi2), TakesFacts
<1>2. /\ Change(en, wi, a, f, en2, wi2) /\ GraphOK(en, wi) /\ a \in App /\ b \in App \ {a}
      /\ f.state = e.state /\ f.original = e.original /\ f.requester = e.requester /\ f.context = e.context
      /\ f.out = e.out /\ f.oks = e.oks /\ f.weak = e.weak /\ f.normal = e.normal /\ f.made = e.made
      /\ \A x, y \in App : x # y /\ <<x, y>> # <<b, a>> => wi2[<<x, y>>] = wi[<<x, y>>]
  BY <1>1 DEF Taking, Change
<1>3. /\ \A d : Has(f.inMsgs, d) <=> Has(e.inMsgs, d) \/ b = d
      /\ \A d : Once(e.inMsgs, d) /\ (b = d => ~Has(e.inMsgs, d)) => Once(f.inMsgs, d)
      /\ \A m : m # HandleTask => (Has(f.tasks, m) <=> Has(e.tasks, m)) /\ (Once(e.tasks, m) => Once(f.tasks, m))
      /\ CreatedFirst(e.tasks) => CreatedFirst(f.tasks)
  BY <1>1 DEF Taking
<1>4. e.state \notin {"none", "gone"}
  BY DEF Takes
<1>5. Typed(a, e) /\ QueueOK(a, e) /\ ConnectingOK(e) /\ SkippedOK(en, wi, a)
  BY <1>2, EngineAt
<1>6. /\ \A d : Pending(f, d) <=> Pending(e, d)
      /\ \A d : Once(e.tasks, Creating(d)) => Once(f.tasks, Creating(d))
      /\ Has(f.tasks, CloseTask) <=> Has(e.tasks, CloseTask)
      /\ Once(e.tasks, CloseTask) => Once(f.tasks, CloseTask)
      /\ \A s : Has(f.tasks, Starting(s)) <=> Has(e.tasks, Starting(s))
      /\ \A s : Once(e.tasks, Starting(s)) => Once(f.tasks, Starting(s))
  BY <1>3, TaskKinds DEF Pending
<1> HIDE DEF e
<1>7. QueueOK(a, f)
  BY <1>2, <1>3, <1>4, <1>5, <1>6 DEF QueueOK
<1>8. ConnectingOK(f)
  BY <1>2, <1>5, <1>6 DEF ConnectingOK
<1>9. en2[a] = f
  BY ONLY <1>2, ChangeFacts
<1>10. Skipped(en2, wi2, a) = Skipped(en, wi, a)
  <2>1. e.out \subseteq App \ {a}
    BY <1>5 DEF Typed, RemotesOK
  <2>2. \A d \in App \ {a} : wi2[<<a, d>>] = wi[<<a, d>>]
    BY <1>2
  <2> QED
    BY <1>2, <1>6, <1>9, <2>1, <2>2 DEF Skipped, e
<1>11. SkippedOK(en2, wi2, a)
  BY <1>2, <1>5, <1>6, <1>9, <1>10 DEF SkippedOK, e
<1>12. ASSUME NEW d \in App \ {a}
       PROVE  PairOK(en2, wi2, a, d) /\ PairOK(en2, wi2, d, a)
  <2>1. CASE d = b
    BY <1>1, <1>10, <2>1, TakingPair
  <2>2. CASE d # b
    <3>1. WireOK(en, wi, a, d) /\ HoldOK(en, wi, d, a)
      BY <1>2, PairAt
    <3>2. wi2[<<a, d>>] = wi[<<a, d>>] /\ wi2[<<d, a>>] = wi[<<d, a>>]
      BY <1>2, <2>2
    <3>3. Quiet(en, wi, a, f, wi2, d)
      BY <1>2, <1>3, <1>6, <2>2, <3>1, <3>2 DEF Quiet, WireOK, HoldOK, e
    <3>4. Silent(en, wi, a, f, en2, wi2, d)
      BY <1>2, <1>9, <1>10 DEF Silent, Owes, e
    <3> QED
      BY ONLY <1>2, <3>3, <3>4, d \in App \ {a}, MonoPair
  <2> QED
    BY <2>1, <2>2
<1> QED
  BY ONLY <1>2, <1>7, <1>8, <1>11, <1>12, ChangeOK

LEMMA ArriveOK ==
    ASSUME MaxMade = 1, TypeInv, GraphOK(engine, wire), NEW c \in Channels, Arrive(c)
    PROVE  failed' = failed /\ GraphOK(engine', wire')
<1> DEFINE a == c[2]
           b == c[1]
           e == IF engine[a].state \in {"none", "gone"} THEN NewEngine("up", engine[a].made + 1)
                ELSE engine[a]
           en1 == [engine EXCEPT ![a] = e]
           f == Posted([e EXCEPT !.inMsgs = Append(@, b)], HandleTask)
<1>1. /\ a \in App /\ b \in App \ {a} /\ c = <<b, a>> /\ graph \in Graphs
      /\ engine \in [App -> EngineType] /\ QueueOK(a, engine[a]) /\ engine[a].made \in Nat
  <2>1. a \in App /\ b \in App \ {a} /\ c = <<b, a>> /\ graph \in Graphs
    BY ChannelFacts DEF TypeInv
  <2>2. engine \in [App -> EngineType] /\ QueueOK(a, engine[a])
    BY <2>1, EngineAt
  <2> QED
    BY <2>1, <2>2 DEF EngineType
<1>2. /\ wire[c].fwd # <<>> /\ Head(wire[c].fwd) = "start_graph" /\ e.made <= 1
      /\ engine' = [engine EXCEPT ![a] = f] /\ wire' = [wire EXCEPT ![c].fwd = Tail(@)] /\ failed' = failed
  BY DEF Arrive, HandleTask
<1>3. engine[a].state \in {"none", "gone"} => e = NewEngine("up", 1) /\ engine[a].state = "none"
  <2> SUFFICES ASSUME engine[a].state \in {"none", "gone"}
               PROVE  e = NewEngine("up", 1) /\ engine[a].state = "none"
    OBVIOUS
  <2>1. e.made = engine[a].made + 1
    BY DEF NewEngine
  <2>2. engine[a].made = 0
    BY <1>1, <1>2, <2>1
  <2> QED
    BY <1>1, <2>2 DEF QueueOK
<1> HIDE DEF e
<1>4. GraphOK(en1, wire) /\ en1[a] = e /\ e.state \notin {"none", "gone"}
  <2>1. CASE engine[a].state \in {"none", "gone"}
    <3>1. e = NewEngine("up", 1) /\ engine[a].state = "none"
      BY <1>3, <2>1
    <3>2. Makes(engine, wire, a, e, en1)
      BY <1>1, <3>1 DEF Makes
    <3> QED
      <4>1. GraphOK(en1, wire)
        BY ONLY <3>2, MakesOK
      <4>2. e.state = "up"
        BY <3>1 DEF NewEngine
      <4> QED
        BY <1>1, <4>1, <4>2
  <2>2. CASE engine[a].state \notin {"none", "gone"}
    <3>1. e = engine[a]
      BY <2>2 DEF e
    <3>2. en1 = engine
      BY <1>1, <3>1
    <3> QED
      BY <2>2, <3>1, <3>2
  <2> QED
    BY <2>1, <2>2
<1>5. engine' = [en1 EXCEPT ![a] = Posted([en1[a] EXCEPT !.inMsgs = Append(@, b)], HandleTask)]
  BY <1>1, <1>2, <1>4
<1> HIDE DEF en1, f, a, b
<1>6. Takes(en1, wire, a, b, Posted([en1[a] EXCEPT !.inMsgs = Append(@, b)], HandleTask), engine', wire')
  BY <1>1, <1>2, <1>4, <1>5 DEF Takes
<1>7. GraphOK(engine', wire')
  BY ONLY <1>6, TakesOK
<1> QED
  BY <1>2, <1>7

-----------------------------------------------------------------------------
(* The invariant *)

LEMMA InitOK == Init => SafeInv
<1> SUFFICES ASSUME Init PROVE GraphOK(engine, wire)
  BY DEF Init, SafeInv
<1>1. Types(engine, wire)
  BY InitTyped DEF TypeInv
<1>2. \A m : ~Has(<<>>, m) /\ Once(<<>>, m)
  BY HasNone
<1>3. EofLast(<<>>) /\ Single(<<>>) /\ CreatedFirst(<<>>)
  BY EndsNone
<1>4. \A x, y \in App : x # y => /\ wire[<<x, y>>].st = "none" /\ wire[<<x, y>>].fwd = <<>>
                                 /\ wire[<<x, y>>].back = <<>>
  BY ChannelFacts DEF Init, Idle
<1>5. ASSUME NEW x \in App
      PROVE  LET e == engine[x] IN
             /\ e.state = "none" <=> e.made = 0
             /\ e.state = "none" => e.tasks = <<>> /\ e.inMsgs = <<>>
             /\ e.state \in {"none", "up"} /\ e.original = None /\ e.requester = None /\ e.context = "none"
             /\ e.weak = {} /\ e.out = {} /\ \A y \in App : e.normal[y] = None
             /\ e.tasks \in {<<>>, <<HandleTask>>} /\ e.inMsgs \in {<<>>, <<Client>>}
  <2>1. CASE x # Root
    BY <2>1 DEF Init, NewEngine
  <2>2. CASE x = Root
    <3>1. engine[x] = [NewEngine("up", 1) EXCEPT !.inMsgs = <<Client>>, !.tasks = <<HandleTask>>]
      BY <2>2 DEF Init, NewEngine, Posted, HandleTask
    <3> QED
      BY <3>1 DEF NewEngine
  <2> QED
    BY <2>1, <2>2
<1>6. ASSUME NEW x \in App
      PROVE  LET e == engine[x] IN
             /\ ~Has(e.tasks, CloseTask) /\ Once(e.tasks, CloseTask) /\ CreatedFirst(e.tasks)
             /\ \A y \in App : /\ ~Pending(e, y) /\ ~Has(e.inMsgs, y) /\ ~Has(e.tasks, Starting(y))
                               /\ Once(e.inMsgs, y) /\ Once(e.tasks, Starting(y))
  <2> DEFINE e == engine[x]
  <2>1. e.tasks \in {<<>>, <<HandleTask>>} /\ e.inMsgs \in {<<>>, <<Client>>}
    BY <1>5
  <2>2. CreatedFirst(<<HandleTask>>)
    BY TaskKinds DEF CreatedFirst
  <2>3. \A m : m # HandleTask => ~Has(e.tasks, m) /\ Once(e.tasks, m)
    BY <1>2, <2>1, HasNone
  <2>4. \A y \in App : ~Has(e.inMsgs, y) /\ Once(e.inMsgs, y)
    BY <1>2, <2>1, HasNone, ChannelFacts
  <2> HIDE DEF e
  <2> QED
    BY <1>3, <2>1, <2>2, <2>3, <2>4, TaskKinds DEF Pending, e
<1>7. None \notin Channels /\ \A x, y \in App : x # y => <<x, y>> # None
  BY ChannelFacts
<1>8. ASSUME NEW x \in App
      PROVE  EngineOK(x, engine[x]) /\ SkippedOK(engine, wire, x)
  <2>1. RemotesOK(x, engine[x])
    BY <1>1 DEF Types
  <2>2. \A y \in App : engine[x].normal[y] # <<x, y>>
    <3>1. None \notin App \X App /\ \A y \in App : <<x, y>> \in App \X App
      BY NamesAreDistinct
    <3> QED
      <4>1. \A y \in App : engine[x].normal[y] = None
        BY <1>5
      <4> QED
        BY ONLY <3>1, <4>1
  <2>3. QueueOK(x, engine[x])
    BY <1>5, <1>6, <2>2 DEF QueueOK
  <2>4. ConnectingOK(engine[x])
    BY <1>5, <1>6 DEF ConnectingOK
  <2>5. SkippedOK(engine, wire, x)
    BY <1>6 DEF SkippedOK
  <2> QED
    BY <2>1, <2>3, <2>4, <2>5 DEF EngineOK
<1>9. ASSUME NEW x \in App, NEW y \in App, x # y
      PROVE  PairOK(engine, wire, x, y)
  <2>1. /\ ~OnWire(wire, x, y) /\ ~Queued(engine, x, y) /\ ~Coming(engine, wire, x, y)
        /\ ~Joined(engine, wire, x, y) /\ ~Joined(engine, wire, y, x)
        /\ ~Holds(engine, x, y) /\ ~Answer(wire, x, y) /\ ~Kept(engine, wire, x, y)
        /\ ~Owes(engine, wire, y, x)
    BY <1>2, <1>4, <1>5, <1>6, <1>7, <1>9 DEF OnWire, Queued, Coming, Joined, Holds, Answer, Kept, Owes
  <2>2. WireOK(engine, wire, x, y)
    BY <1>2, <1>3, <1>4, <1>9 DEF WireOK
  <2>3. HoldOK(engine, wire, x, y)
    BY <1>5, <1>6, <1>7, <1>9, <2>1 DEF HoldOK
  <2>4. SmallerOK(engine, wire, x, y)
    BY <1>5, <1>7, <1>9, <2>1 DEF SmallerOK
  <2>5. AnswersOK(engine, wire, x, y)
    BY <1>3, <1>4, <1>5, <1>7, <1>9, <2>1, ChannelFacts DEF AnswersOK
  <2> QED
    BY <2>2, <2>3, <2>4, <2>5 DEF PairOK
<1> QED
  BY <1>1, <1>8, <1>9 DEF GraphOK

\* The graph stays the same: what holds of the next engines and wires holds next.
LEMMA GraphStays ==
    ASSUME graph' = graph, GraphOK(engine', wire')
    PROVE  GraphOK(engine, wire)'
<1>1. \A x : Neighbours(x)' = Neighbours(x)
  BY DEF Neighbours
<1>2. ASSUME NEW x \in App
      PROVE  RemotesOK(x, engine[x])' /\ QueueOK(x, engine[x])' /\ ConnectingOK(engine[x])'
             /\ SkippedOK(engine, wire, x)'
  <2>1. /\ RemotesOK(x, engine'[x]) /\ QueueOK(x, engine'[x]) /\ ConnectingOK(engine'[x])
        /\ SkippedOK(engine', wire', x)
    BY DEF GraphOK, EngineOK
  <2>2. RemotesOK(x, engine[x])'
    BY <1>1, <2>1 DEF RemotesOK
  <2>3. QueueOK(x, engine[x])' /\ ConnectingOK(engine[x])' /\ SkippedOK(engine, wire, x)'
    BY <2>1
  <2> QED
    BY <2>2, <2>3
<1>3. ASSUME NEW x \in App, NEW y \in App, x # y
      PROVE  PairOK(engine, wire, x, y)'
  <2>1. /\ WireOK(engine', wire', x, y) /\ HoldOK(engine', wire', x, y)
        /\ SmallerOK(engine', wire', x, y) /\ AnswersOK(engine', wire', x, y)
    BY <1>3 DEF GraphOK, PairOK
  <2>2. WireOK(engine, wire, x, y)'
    BY <2>1 DEF WireOK
  <2>3. SmallerOK(engine, wire, x, y)'
    BY <2>1 DEF SmallerOK
  <2>4. HoldOK(engine, wire, x, y)' /\ AnswersOK(engine, wire, x, y)'
    BY <2>1
  <2> QED
    BY <2>2, <2>3, <2>4 DEF PairOK
<1>4. Types(engine, wire)'
  <2>1. Types(engine', wire')
    BY DEF GraphOK
  <2>2. \A x \in App : RemotesOK(x, engine[x])'
    BY <1>2
  <2> QED
    BY <2>1, <2>2 DEF Types
<1> QED
  BY <1>2, <1>3, <1>4 DEF GraphOK, EngineOK

LEMMA NextSafe == MaxMade = 1 /\ TypeInv /\ SafeInv /\ [Next]_vars => SafeInv'
<1> SUFFICES ASSUME MaxMade = 1, TypeInv, SafeInv, [Next]_vars PROVE SafeInv'
  OBVIOUS
<1>1. CASE UNCHANGED vars
  <2>1. failed' = failed /\ graph' = graph /\ engine' = engine /\ wire' = wire
    BY <1>1 DEF vars
  <2>2. Running => GraphOK(engine, wire)'
    BY <2>1, GraphStays DEF SafeInv
  <2> QED
    BY <2>1, <2>2 DEF SafeInv, Running
<1>2. CASE Next
  <2>1. failed = "none" /\ graph' = graph /\ GraphOK(engine, wire)
    BY <1>2 DEF Next, Running, SafeInv
  <2>2. ASSUME NEW a \in App, EngineStep(a)
        PROVE  failed' = "one original" \/ (failed' = "none" /\ GraphOK(engine', wire'))
    <3>1. CASE HandleInMsgs(a)
      BY <2>1, <3>1, HandleInMsgsOK
    <3>2. CASE HandleStartGraph(a)
      BY <2>1, <3>2, HandleStartGraphOK
    <3>3. CASE Created(a)
      BY <2>1, <3>3, CreatedOK
    <3>4. CASE CloseEngine(a)
      BY <2>1, <3>4, CloseEngineOK
    <3>5. CASE Ready(a)
      BY <2>1, <3>5, ReadyOK
    <3>6. CASE ContextClosed(a)
      BY <2>1, <3>6, ContextClosedOK
    <3>7. CASE EngineGone(a)
      BY <2>1, <3>7, EngineGoneOK
    <3> QED
      BY <2>2, <3>1, <3>2, <3>3, <3>4, <3>5, <3>6, <3>7 DEF EngineStep
  <2>3. ASSUME NEW c \in Channels, WireStep(c)
        PROVE  failed' = "none" /\ GraphOK(engine', wire')
    <3>1. CASE Arrive(c)
      BY <2>1, <3>1, ArriveOK
    <3>2. CASE Connected(c)
      BY <2>1, <3>2, ConnectedOK
    <3>3. CASE ConnectError(c)
      BY <2>1, <3>3, ConnectErrorOK
    <3>4. CASE Receive(c)
      BY <2>1, <3>4, ReceiveOK
    <3>5. ASSUME NEW a \in {c[1], c[2]}, Eof(a, c)
          PROVE  failed' = "none" /\ GraphOK(engine', wire')
      BY <2>1, <3>5, EofOK
    <3> QED
      BY <2>3, <3>1, <3>2, <3>3, <3>4, <3>5 DEF WireStep
  <2>4. failed' = "one original" \/ (failed' = "none" /\ GraphOK(engine', wire'))
    BY <1>2, <2>2, <2>3 DEF Next
  <2>5. failed' = "one original" \/ (failed' = "none" /\ GraphOK(engine, wire)')
    BY <2>1, <2>4, GraphStays
  <2> QED
    BY <2>5 DEF SafeInv, Running
<1> QED
  BY <1>1, <1>2 DEF Next

\* While each app makes one engine for the graph, whatever graph it is and
\* whatever comes first, the result of the own connection or the other side's
\* start_graph: no neighbour gets a second remote, weak or normal, and no result
\* comes over a remote that is not weak or for a command nobody sent
\* (engine/internal/remote_interface.c:183-187, :238-241,
\* engine/msg_interface/cmd_result.c).  What is left of AssertionsHold is what
\* OneOriginal says (engine/msg_interface/start_graph.c:127-128).
THEOREM OtherAssertionsHold ==
    ASSUME MaxMade = 1
    PROVE  Spec => [](OneOriginal => AssertionsHold)
<1>1. Init => TypeInv /\ SafeInv
  BY InitTyped, InitOK
<1>2. TypeInv /\ SafeInv /\ [Next]_vars => (TypeInv /\ SafeInv)'
  BY NextTyped, NextSafe
<1>3. SafeInv => (OneOriginal => AssertionsHold)
  BY DEF SafeInv, OneOriginal, AssertionsHold
<1> QED
  BY <1>1, <1>2, <1>3, PTL DEF Spec

\* While each app makes one engine for the graph, whatever graph it is: although
\* two neighbours may connect to each other at the same time, they never keep a
\* channel each, because both ends ask ten_engine_check_remote_is_duplicated
\* (engine/internal/remote_interface.c:523-545), when the command comes and once
\* more before the own connection begins (:388).
THEOREM NeighboursAgree ==
    ASSUME MaxMade = 1
    PROVE  Spec => []ChannelsAgree
<1>1. Init => TypeInv /\ SafeInv
  BY InitTyped, InitOK
<1>2. TypeInv /\ SafeInv /\ [Next]_vars => (TypeInv /\ SafeInv)'
  BY NextTyped, NextSafe
<1>3. TypeInv /\ SafeInv => ChannelsAgree
  <2> SUFFICES ASSUME graph \in Graphs, GraphOK(engine, wire), NEW a \in App, NEW b \in App, a # b,
                      {engine[a].state, engine[b].state} \subseteq {"up", "closing"},
                      engine[a].normal[b] # None, engine[b].normal[a] # None
               PROVE  engine[a].normal[b] = engine[b].normal[a]
    BY DEF TypeInv, SafeInv, ChannelsAgree
  <2>1. /\ engine[a].normal[b] \in {<<a, b>>, <<b, a>>, None}
        /\ engine[b].normal[a] \in {<<a, b>>, <<b, a>>, None}
    BY EngineAt DEF Typed, RemotesOK
  <2>2. SmallerOK(engine, wire, a, b) /\ SmallerOK(engine, wire, b, a)
    BY PairAt
  <2>3. graph.uri[a] < graph.uri[b] \/ graph.uri[b] < graph.uri[a]
    BY GraphFacts
  <2>4. ~(engine[a].normal[b] = <<b, a>> /\ engine[b].normal[a] = <<a, b>>)
    BY <2>2, <2>3 DEF SmallerOK, Away, Joined
  <2>5. ~(engine[a].normal[b] = <<a, b>> /\ engine[b].normal[a] = <<b, a>>)
    BY <2>2, <2>3 DEF SmallerOK, Kept, Leaving
  <2> QED
    BY <2>1, <2>4, <2>5
<1> QED
  BY <1>1, <1>2, <1>3, PTL DEF Spec
=============================================================================

------------------------- MODULE PhaseFairLockProofs -------------------------
(***************************************************************************)
(* The phase-fair lock keeps its promise for any number of threads and any *)
(* width of its counters that is enough for them.                          *)
(***************************************************************************)
EXTENDS PhaseFairLock, FiniteSetTheorems, TLAPS

\* x advanced by k, for a counter with n values and k <= n.
Plus(x, k, n) == IF x + k < n THEN x + k ELSE x + k - n

\* The readers that came before the writer that is there now.
Before == In({"read"}) \cup {t \in In({"wait"}) : seen[t] # rdIn.bits}

\* The writers with a ticket stand in line, and their tickets are consecutive.
LineOK ==
    /\ \A i, j \in 1 .. Len(line) : line[i] = line[j] => i = j
    /\ In(WriterPlaces) = {line[i] : i \in 1 .. Len(line)}
    /\ \A i \in 1 .. Len(line) :
          ticket[line[i]] = Plus(wrOut, i - 1, Tickets)
    /\ wrIn = Plus(wrOut, Len(line), Tickets)

\* The two read words differ by the readers that are there.
ReadersOK ==
    /\ rdIn.count = Plus(rdOut.count, Cardinality(In(ReaderPlaces)), Readers)
    /\ rdOut.bits = 0

\* The writer bits are those of the writer that has announced itself; a
\* waiting reader has seen those or the ones of the writer before.
BitsOK ==
    /\ \A t \in In({"flush", "write"}) : rdIn.bits = PRES + (wrOut % 2)
    /\ In({"flush", "write"}) = {} => rdIn.bits = 0
    /\ \A t \in In({"wait"}) :
          /\ seen[t] \in {2, 3}
          /\ In({"next"}) # {} => seen[t] = PRES + (wrOut % 2)
          /\ In({"flush", "write", "next"}) = {} =>
                seen[t] = PRES + ((wrOut + 1) % 2)

\* A writer waits for the readers that came before it and not for others.
FlushOK ==
    /\ \A t \in In({"flush"}) :
          /\ flushAt[t].bits = 0
          /\ flushAt[t].count =
                Plus(rdOut.count, Cardinality(Before), Readers)
    /\ In({"write"}) # {} => Before = {}

\* A writer that has announced itself lets overtaken readers go first.
OvertakenOK ==
    /\ overtaken \subseteq In({"wait"})
    /\ In({"flush"}) # {} => overtaken \subseteq Before

IInv ==
    /\ TypeOK
    /\ LineOK
    /\ WritersInOrder
    /\ ReadersOK
    /\ BitsOK
    /\ FlushOK
    /\ OvertakenOK

-----------------------------------------------------------------------------
\* Counting.

\* Sets of threads can be counted, and a proper subset has fewer.
LEMMA Counting ==
    ASSUME NEW S \in SUBSET Thread
    PROVE  /\ IsFiniteSet(S)
           /\ Cardinality(S) \in Nat
           /\ Cardinality(S) <= Cardinality(Thread)
           /\ Cardinality(Thread) \in Nat
           /\ S = {} <=> Cardinality(S) = 0
           /\ \A t \in Thread \ S :
                 /\ Cardinality(S \cup {t}) = Cardinality(S) + 1
                 /\ Cardinality(S) < Cardinality(Thread)
           /\ \A t \in S : Cardinality(S \ {t}) = Cardinality(S) - 1
<1>1. IsFiniteSet(Thread)
  BY ThreadAssumption
<1>2. IsFiniteSet(S) /\ Cardinality(S) <= Cardinality(Thread)
  BY <1>1, FS_Subset
<1>3. Cardinality(S) \in Nat /\ Cardinality(Thread) \in Nat
  BY <1>1, <1>2, FS_CardinalityType
<1>4. S = {} <=> Cardinality(S) = 0
  BY <1>2, FS_EmptySet
<1>5. ASSUME NEW t \in Thread \ S
      PROVE  /\ Cardinality(S \cup {t}) = Cardinality(S) + 1
             /\ Cardinality(S) < Cardinality(Thread)
  <2>1. Cardinality(S \cup {t}) = Cardinality(S) + 1
    BY <1>2, FS_AddElement
  <2>2. Cardinality(S \cup {t}) <= Cardinality(Thread)
    <3>1. S \cup {t} \in SUBSET Thread
      OBVIOUS
    <3> QED  BY <3>1, <1>1, FS_Subset
  <2> QED  BY <2>1, <2>2, <1>3
<1>6. \A t \in S : Cardinality(S \ {t}) = Cardinality(S) - 1
  BY <1>2, FS_RemoveElement
<1> QED  BY <1>2, <1>3, <1>4, <1>5, <1>6

\* The line is no longer than there are threads, and shorter while one is
\* not in it.
LEMMA LineLength ==
    ASSUME line \in Seq(Thread), LineOK
    PROVE  /\ Len(line) \in Nat
           /\ Len(line) <= Tickets
           /\ In(WriterPlaces) # Thread => Len(line) < Tickets
<1> DEFINE W == In(WriterPlaces)
           f == [i \in 1 .. Len(line) |-> line[i]]
<1>1. Len(line) \in Nat /\ W \in SUBSET Thread
  BY DEF In
<1>2. IsFiniteSet(W) /\ Cardinality(W) <= Cardinality(Thread)
  BY <1>1, Counting
<1>3. f \in Injection(1 .. Len(line), W)
  BY <1>1 DEF LineOK, Injection, IsInjective
<1>4. Cardinality(1 .. Len(line)) <= Cardinality(W)
  BY <1>2, <1>3, FS_Injection
<1>5. Cardinality(1 .. Len(line)) = Len(line)
  <2>1. 1 \in Int /\ Len(line) \in Int
    BY <1>1
  <2>2. Cardinality(1 .. Len(line)) =
            IF 1 > Len(line) THEN 0 ELSE Len(line) - 1 + 1
    BY ONLY <2>1, FS_Interval
  <2> QED  BY ONLY <2>2, <1>1
<1>6. Cardinality(W) \in Nat /\ Cardinality(Thread) \in Nat
  BY <1>1, Counting
<1>7. W # Thread => Cardinality(W) < Cardinality(Thread)
  BY <1>1, Counting
<1> HIDE DEF W
<1>8. Tickets \in Nat /\ Cardinality(Thread) <= Tickets
  BY WidthAssumption, ThreadAssumption
<1>9. Len(line) <= Tickets
  BY <1>1, <1>2, <1>4, <1>5, <1>6, <1>8
<1>10. W # Thread => Len(line) < Tickets
  BY <1>1, <1>4, <1>5, <1>6, <1>7, <1>8
<1> QED  BY <1>1, <1>9, <1>10 DEF W

-----------------------------------------------------------------------------
\* Facts about the state.

\* There is one owner of the write side at most, and its ticket is the one
\* whose turn it is.
LEMMA Owner ==
    ASSUME TypeOK, LineOK, WritersInOrder,
           NEW t \in Thread, pc[t] \in OwnerPlaces
    PROVE  /\ line # <<>> /\ t = Head(line) /\ t = line[1]
           /\ 1 \in 1 .. Len(line)
           /\ ticket[t] = wrOut
           /\ \A u \in Thread : pc[u] \in OwnerPlaces => u = t
<1>1. line # <<>> /\ t = Head(line) /\ line \in Seq(Thread)
  BY DEF WritersInOrder, TypeOK
<1>2. 1 \in 1 .. Len(line) /\ t = line[1]
  BY <1>1
<1>3. ticket[t] = Plus(wrOut, 0, Tickets)
  BY <1>2 DEF LineOK
<1>4. ticket[t] = wrOut
  BY <1>3, WidthAssumption DEF Plus, TypeOK
<1>5. \A u \in Thread : pc[u] \in OwnerPlaces => u = t
  BY <1>1 DEF WritersInOrder
<1> QED  BY <1>1, <1>2, <1>4, <1>5

\* Counters stay in range.
LEMMA Width == Readers \in Nat \ {0} /\ Tickets \in Nat \ {0}
BY WidthAssumption

LEMMA Increment ==
    ASSUME NEW n \in Nat \ {0}, NEW x \in 0 .. n - 1
    PROVE  Inc(x, n) \in 0 .. n - 1
BY DEF Inc

\* Words stay words.
LEMMA Counted ==
    ASSUME NEW w \in Word
    PROVE  /\ [w EXCEPT !.count = Inc(@, Readers)] \in Word
           /\ [w EXCEPT !.count = Inc(@, Readers)].bits = w.bits
           /\ [w EXCEPT !.count = Inc(@, Readers)].count
                  = Inc(w.count, Readers)
<1>1. w.count \in 0 .. Readers - 1
  BY DEF Word
<1>2. Inc(w.count, Readers) \in 0 .. Readers - 1
  BY <1>1, Width, Increment
<1> QED  BY <1>2 DEF Word

LEMMA Marked ==
    ASSUME NEW w \in Word, NEW b \in WBITS
    PROVE  /\ [w EXCEPT !.bits = b] \in Word
           /\ [w EXCEPT !.bits = b].bits = b
           /\ [w EXCEPT !.bits = b].count = w.count
BY DEF Word

\* What is stored is in range, after a step as well.
LEMMA TypeStep ==
    ASSUME IInv, Next
    PROVE  TypeOK'
<1>1. PICK t \in Thread : ReadLock(t) \/ WriteLock(t) \/ Continue(t)
  BY DEF Next
<1> TypeOK
  BY DEF IInv
<1> USE DEF TypeOK, Go, rdVars, wrVars, localVars
<1>2. CASE ReadLock(t)
  <2>1. rdIn' \in Word
    BY <1>2, Counted DEF ReadLock
  <2>2. rdIn.bits \in WBITS
    BY DEF Word
  <2> QED  BY <1>2, <2>1, <2>2 DEF ReadLock, Places, ReaderPlaces
<1>3. CASE WriteLock(t)
  <2>1. wrIn' \in 0 .. Tickets - 1
    BY <1>3, Width, Increment DEF WriteLock
  <2> QED  BY <1>3, <2>1 DEF WriteLock, Places, WriterPlaces
<1>4. CASE ReadWait(t)
  BY <1>4 DEF ReadWait, Places, ReaderPlaces, WBITS
<1>5. CASE ReadUnlock(t)
  <2>1. rdOut' \in Word
    BY <1>5, Counted DEF ReadUnlock
  <2> QED  BY <1>5, <2>1 DEF ReadUnlock, Places
<1>6. CASE WriteTurn(t)
  BY <1>6 DEF WriteTurn, Places, WriterPlaces, OwnerPlaces
<1>7. CASE WriteAnnounce(t)
  <2>1. pc[t] = "announce"
    BY <1>7 DEF WriteAnnounce
  <2>2. In({"flush", "write"}) = {}
    BY <2>1, Owner DEF IInv, In, OwnerPlaces
  <2>3. rdIn.bits = 0
    BY <2>2 DEF BitsOK, IInv
  <2>4. ticket[t] \in Int
    OBVIOUS
  <2>5. 0 + Phase(t) \in WBITS
    BY <2>4 DEF Phase, PRES, WBITS
  <2>6. rdIn' \in Word
    BY <1>7, <2>3, <2>5, Marked DEF WriteAnnounce
  <2> QED
    BY <1>7, <2>6 DEF WriteAnnounce, Places, WriterPlaces, OwnerPlaces
<1>8. CASE WriteFlush(t)
  <2>1. Zero \in Word
    BY Width DEF Zero, Word, WBITS
  <2> QED
    BY <1>8, <2>1 DEF WriteFlush, In, Places, WriterPlaces, OwnerPlaces
<1>9. CASE WriteUnlock(t)
  <2>1. 0 \in WBITS
    BY DEF WBITS
  <2>2. rdIn' \in Word
    BY <1>9, <2>1, Marked DEF WriteUnlock
  <2> QED
    BY <1>9, <2>2 DEF WriteUnlock, Places, WriterPlaces, OwnerPlaces
<1>10. CASE WriteNext(t)
  <2>1. line # <<>>
    BY <1>10, Owner DEF WriteNext, IInv, OwnerPlaces
  <2>2. line' \in Seq(Thread)
    BY <1>10, <2>1 DEF WriteNext
  <2>3. wrOut' \in 0 .. Tickets - 1
    BY <1>10, Width, Increment DEF WriteNext
  <2>4. 0 \in 0 .. Tickets - 1
    BY Width
  <2> QED  BY <1>10, <2>2, <2>3, <2>4 DEF WriteNext, Places
<1> QED
  BY <1>1, <1>2, <1>3, <1>4, <1>5, <1>6, <1>7, <1>8, <1>9, <1>10 DEF Continue

-----------------------------------------------------------------------------
\* The line of writers.

\* The remainder: a counter that has gone round fewer than n steps is back
\* only if it has not moved.
LEMMA Ahead ==
    ASSUME NEW n \in Nat \ {0}, NEW x \in 0 .. n - 1, NEW k \in 0 .. n - 1
    PROVE  /\ Plus(x, k, n) = x => k = 0
           /\ Plus(x, k + 1, n) = Inc(Plus(x, k, n), n)
           /\ Plus(Inc(x, n), k, n) = Plus(x, k + 1, n)
           /\ Plus(x, 0, n) = x
BY DEF Plus, Inc

\* The writers stand in line in the order of their tickets.
LEMMA LineStep ==
    ASSUME IInv, Next
    PROVE  LineOK'
<1>1. PICK t \in Thread : ReadLock(t) \/ WriteLock(t) \/ Continue(t)
  BY DEF Next
<1> TypeOK /\ LineOK /\ WritersInOrder
  BY DEF IInv
<1>2. /\ Len(line) \in Nat
      /\ Len(line) <= Tickets
      /\ In(WriterPlaces) # Thread => Len(line) < Tickets
      /\ line \in Seq(Thread)
      /\ wrOut \in 0 .. Tickets - 1
  BY LineLength DEF TypeOK
<1>3. ASSUME UNCHANGED <<wrIn, wrOut, line, ticket>>,
             NEW p \in Places, Go(t, p),
             pc[t] \in WriterPlaces <=> p \in WriterPlaces
      PROVE  LineOK'
  <2>1. In(WriterPlaces)' = In(WriterPlaces)
    BY <1>3 DEF In, Go, TypeOK
  <2> QED  BY <1>3, <2>1 DEF LineOK
<1> USE DEF WriterPlaces, OwnerPlaces, ReaderPlaces, Places
<1>4. CASE ReadLock(t)
  <2>1. PICK p \in {"read", "wait"} : Go(t, p)
    BY <1>4 DEF ReadLock
  <2> QED  BY <1>3, <1>4, <2>1 DEF ReadLock, wrVars
<1>5. CASE ReadWait(t)
  BY <1>3, <1>5 DEF ReadWait, wrVars
<1>6. CASE ReadUnlock(t)
  BY <1>3, <1>6 DEF ReadUnlock, wrVars, localVars
<1>7. CASE WriteTurn(t)
  BY <1>3, <1>7 DEF WriteTurn, wrVars, localVars
<1>8. CASE WriteAnnounce(t)
  BY <1>3, <1>8 DEF WriteAnnounce, wrVars
<1>9. CASE WriteFlush(t)
  BY <1>3, <1>9 DEF WriteFlush, wrVars
<1>10. CASE WriteUnlock(t)
  BY <1>3, <1>10 DEF WriteUnlock, wrVars, localVars
<1>11. CASE WriteLock(t)
  <2>1. t \notin In(WriterPlaces)
    BY <1>11 DEF WriteLock, In
  <2>2. Len(line) < Tickets /\ Len(line) \in 0 .. Tickets - 1
    BY <1>2, <2>1, Width
  <2>3. \A i \in 1 .. Len(line) : line[i] # t
    BY <2>1 DEF LineOK
  <2>4. /\ line' = Append(line, t) /\ Len(line') = Len(line) + 1
        /\ line'[Len(line) + 1] = t
        /\ \A i \in 1 .. Len(line) : line'[i] = line[i]
    BY <1>2, <1>11 DEF WriteLock
  <2>5. In(WriterPlaces)' = In(WriterPlaces) \cup {t}
    BY <1>11 DEF WriteLock, Go, In, TypeOK
  <2>6. \A i, j \in 1 .. Len(line') : line'[i] = line'[j] => i = j
    BY <1>2, <2>3, <2>4 DEF LineOK
  <2>7. In(WriterPlaces)' = {line'[i] : i \in 1 .. Len(line')}
    <3>1. 1 .. Len(line') = (1 .. Len(line)) \cup {Len(line) + 1}
      BY <1>2, <2>4
    <3> QED  BY <2>4, <2>5, <3>1 DEF LineOK
  <2>8. ASSUME NEW i \in 1 .. Len(line')
        PROVE  ticket'[line'[i]] = Plus(wrOut', i - 1, Tickets)
    <3>1. CASE i \in 1 .. Len(line)
      <4>1. line[i] \in Thread /\ line[i] # t /\ line'[i] = line[i]
        BY <1>2, <2>3, <2>4, <3>1
      <4>2. ticket'[line[i]] = ticket[line[i]]
        BY <1>11, <4>1 DEF WriteLock, TypeOK
      <4> QED  BY <1>11, <3>1, <4>1, <4>2 DEF WriteLock, LineOK
    <3>2. CASE i = Len(line) + 1
      <4>1. ticket'[t] = wrIn
        BY <1>11 DEF WriteLock, TypeOK
      <4>2. i - 1 = Len(line)
        BY <1>2, <3>2
      <4> QED  BY <1>11, <2>4, <3>2, <4>1, <4>2 DEF WriteLock, LineOK
    <3> QED  BY <1>2, <2>4, <3>1, <3>2
  <2>9. wrIn' = Plus(wrOut', Len(line'), Tickets)
    <3>1. wrIn' = Inc(Plus(wrOut, Len(line), Tickets), Tickets)
      BY <1>11 DEF WriteLock, LineOK
    <3> QED  BY <1>2, <1>11, <2>2, <2>4, <3>1, Width, Ahead DEF WriteLock
  <2> QED  BY <2>6, <2>7, <2>8, <2>9 DEF LineOK
<1>12. CASE WriteNext(t)
  <2>1. /\ line # <<>> /\ t = line[1] /\ 1 \in 1 .. Len(line)
    BY <1>12, Owner DEF WriteNext
  <2>2. /\ line' = Tail(line) /\ Len(line') = Len(line) - 1
        /\ \A i \in 1 .. Len(line') : line'[i] = line[i + 1]
    BY <1>2, <1>12, <2>1 DEF WriteNext
  <2>3. \A i \in 1 .. Len(line') :
            i + 1 \in 1 .. Len(line) /\ i \in 0 .. Tickets - 1 /\ i # 0
    BY <1>2, <2>2, Width
  <2>4. \A i \in 1 .. Len(line') : line'[i] # t
    BY <2>1, <2>2, <2>3 DEF LineOK
  <2>5. In(WriterPlaces)' = In(WriterPlaces) \ {t}
    BY <1>12 DEF WriteNext, Go, In, TypeOK
  <2>6. \A i, j \in 1 .. Len(line') : line'[i] = line'[j] => i = j
    <3> TAKE i, j \in 1 .. Len(line')
    <3>1. line[i + 1] = line[j + 1] => i + 1 = j + 1
      BY <2>3 DEF LineOK
    <3> QED  BY <2>2, <3>1
  <2>7. In(WriterPlaces)' = {line'[i] : i \in 1 .. Len(line')}
    <3>1. \A k \in 1 .. Len(line) : k # 1 => k - 1 \in 1 .. Len(line')
      BY <1>2, <2>2
    <3>2. \A k \in 1 .. Len(line) : k # 1 => line[k] = line'[k - 1]
      BY <1>2, <2>2, <3>1
    <3>3. \A k \in 1 .. Len(line) : line[k] = t => k = 1
      BY <2>1 DEF LineOK
    <3>4. \A u \in In(WriterPlaces) : \E k \in 1 .. Len(line) : u = line[k]
      BY DEF LineOK
    <3>5. ASSUME NEW u \in In(WriterPlaces) \ {t}
          PROVE  \E i \in 1 .. Len(line') : u = line'[i]
      BY <2>1, <3>1, <3>2, <3>4
    <3>6. \A i \in 1 .. Len(line') : line'[i] \in In(WriterPlaces) \ {t}
      BY <2>2, <2>3, <2>4 DEF LineOK
    <3> QED  BY <2>5, <3>5, <3>6
  <2>8. ASSUME NEW i \in 1 .. Len(line')
        PROVE  ticket'[line'[i]] = Plus(wrOut', i - 1, Tickets)
    <3>1. line'[i] = line[i + 1] /\ line'[i] # t /\ line[i + 1] \in Thread
      BY <1>2, <2>2, <2>3, <2>4
    <3>2. ticket'[line'[i]] = ticket[line[i + 1]]
      BY <1>12, <3>1 DEF WriteNext, TypeOK
    <3>3. ticket[line[i + 1]] = Plus(wrOut, i, Tickets)
      <4>1. (i + 1) - 1 = i /\ i + 1 \in 1 .. Len(line)
        BY <2>3
      <4> QED  BY <4>1 DEF LineOK
    <3>4. i - 1 \in 0 .. Tickets - 1 /\ (i - 1) + 1 = i
      BY <2>3, Width
    <3>5. Plus(Inc(wrOut, Tickets), i - 1, Tickets)
              = Plus(wrOut, i, Tickets)
      BY <1>2, <3>4, Width, Ahead
    <3> QED  BY <1>12, <3>2, <3>3, <3>5 DEF WriteNext
  <2>9. wrIn' = Plus(wrOut', Len(line'), Tickets)
    <3>1. /\ Len(line) - 1 \in 0 .. Tickets - 1
          /\ (Len(line) - 1) + 1 = Len(line)
      BY <1>2, <2>1, Width
    <3>2. Plus(Inc(wrOut, Tickets), Len(line) - 1, Tickets)
              = Plus(wrOut, Len(line), Tickets)
      BY <1>2, <3>1, Width, Ahead
    <3> QED  BY <1>12, <2>2, <3>2 DEF WriteNext, LineOK
  <2> QED  BY <2>6, <2>7, <2>8, <2>9 DEF LineOK
<1> QED
  BY <1>1, <1>4, <1>5, <1>6, <1>7, <1>8, <1>9, <1>10, <1>11, <1>12
     DEF Continue

\* Only the first of the line becomes the owner.
LEMMA OrderStep ==
    ASSUME IInv, Next
    PROVE  WritersInOrder'
<1>1. PICK t \in Thread : ReadLock(t) \/ WriteLock(t) \/ Continue(t)
  BY DEF Next
<1> TypeOK /\ LineOK /\ WritersInOrder
  BY DEF IInv
<1> USE DEF WriterPlaces, OwnerPlaces, ReaderPlaces, Places
<1>2. line \in Seq(Thread)
  BY DEF TypeOK
<1>3. ASSUME line' = line,
             NEW p \in Places, Go(t, p), 
             p \in OwnerPlaces => line # <<>> /\ t = Head(line)
      PROVE  WritersInOrder'
  BY <1>3 DEF WritersInOrder, Go, TypeOK
<1>4. CASE ReadLock(t)
  <2>1. PICK p \in {"read", "wait"} : Go(t, p)
    BY <1>4 DEF ReadLock
  <2> QED  BY <1>3, <1>4, <2>1 DEF ReadLock, wrVars
<1>5. CASE ReadWait(t)
  BY <1>3, <1>5 DEF ReadWait, wrVars
<1>6. CASE ReadUnlock(t)
  BY <1>3, <1>6 DEF ReadUnlock, wrVars
<1>7. CASE WriteTurn(t)
  <2>1. t \in In(WriterPlaces)
    BY <1>7 DEF WriteTurn, In
  <2>2. PICK i \in 1 .. Len(line) : t = line[i]
    BY <2>1 DEF LineOK
  <2>3. Plus(wrOut, i - 1, Tickets) = wrOut
    BY <1>7, <2>2 DEF WriteTurn, LineOK
  <2>4. i - 1 \in 0 .. Tickets - 1 /\ wrOut \in 0 .. Tickets - 1
    <3>1. Len(line) \in Nat /\ Len(line) <= Tickets
      BY LineLength DEF TypeOK
    <3> QED  BY <3>1, Width DEF TypeOK
  <2>5. i - 1 = 0
    BY <2>3, <2>4, Width, Ahead
  <2>6. line # <<>> /\ t = Head(line)
    BY <1>2, <2>2, <2>5
  <2> QED  BY <1>3, <1>7, <2>6 DEF WriteTurn, wrVars
<1>8. CASE WriteAnnounce(t)
  BY <1>3, <1>8, Owner DEF WriteAnnounce, wrVars
<1>9. CASE WriteFlush(t)
  BY <1>3, <1>9, Owner DEF WriteFlush, wrVars
<1>10. CASE WriteUnlock(t)
  BY <1>3, <1>10, Owner DEF WriteUnlock, wrVars
<1>11. CASE WriteLock(t)
  <2>1. line' = Append(line, t)
    BY <1>11 DEF WriteLock
  <2>2. line # <<>> => line' # <<>> /\ Head(line') = Head(line)
    BY <1>2, <2>1
  <2> QED  BY <1>11, <2>2 DEF WriteLock, WritersInOrder, Go, TypeOK
<1>12. CASE WriteNext(t)
  <2>1. \A u \in Thread : pc[u] \in OwnerPlaces => u = t
    BY <1>12, Owner DEF WriteNext
  <2> QED  BY <1>12, <2>1 DEF WriteNext, WritersInOrder, Go, TypeOK
<1> QED
  BY <1>1, <1>4, <1>5, <1>6, <1>7, <1>8, <1>9, <1>10, <1>11, <1>12
     DEF Continue

-----------------------------------------------------------------------------
\* Readers and phases.

\* Consecutive tickets differ in their phase, the wrap-around included.
LEMMA Parity ==
    ASSUME NEW x \in 0 .. Tickets - 1
    PROVE  /\ x % 2 \in {0, 1}
           /\ (x + 1) % 2 \in {0, 1}
           /\ x % 2 # (x + 1) % 2
           /\ (Inc(x, Tickets) + 1) % 2 = x % 2
<1>1. x \in Nat /\ Tickets \in Nat /\ Tickets % 2 = 0
  BY WidthAssumption
<1>2. x % 2 \in {0, 1} /\ (x + 1) % 2 \in {0, 1} /\ x % 2 # (x + 1) % 2
  BY <1>1
<1>3. (Inc(x, Tickets) + 1) % 2 = x % 2
  BY <1>1 DEF Inc
<1> QED  BY <1>2, <1>3

\* What a step does to the readers that came before the writer.
LEMMA BeforeStep ==
    ASSUME IInv, NEW t \in Thread
    PROVE  /\ Before \in SUBSET Thread
           /\ ReadLock(t) /\ rdIn.bits # 0 => Before' = Before
           /\ ReadWait(t) => Before' = Before
           /\ ReadUnlock(t) => t \in Before /\ Before' = Before \ {t}
           /\ WriteLock(t) => Before' = Before
           /\ WriteTurn(t) => Before' = Before
           /\ WriteAnnounce(t) =>
                 /\ Before' = In(ReaderPlaces)
                 /\ rdIn.bits = 0
                 /\ rdIn'.bits = PRES + (wrOut % 2)
           /\ WriteFlush(t) => Before' = Before
<1> TypeOK /\ LineOK /\ WritersInOrder /\ BitsOK
  BY DEF IInv
<1> USE DEF TypeOK, Go, rdVars, wrVars, localVars
<1>1. Before \in SUBSET Thread
  BY DEF Before, In
<1>2. ASSUME ReadLock(t), rdIn.bits # 0
      PROVE  Before' = Before
  <2>1. pc' = [pc EXCEPT ![t] = "wait"] /\ pc[t] = "idle"
    BY <1>2 DEF ReadLock
  <2>2. rdIn'.bits = rdIn.bits
    BY <1>2, Counted DEF ReadLock
  <2>3. seen' = [seen EXCEPT ![t] = rdIn.bits]
    BY <1>2 DEF ReadLock
  <2> QED  BY <2>1, <2>2, <2>3 DEF Before, In
<1>3. ASSUME ReadWait(t)
      PROVE  Before' = Before
  BY <1>3 DEF ReadWait, Before, In
<1>4. ASSUME ReadUnlock(t)
      PROVE  t \in Before /\ Before' = Before \ {t}
  BY <1>4 DEF ReadUnlock, Before, In
<1>5. ASSUME WriteLock(t)
      PROVE  Before' = Before
  BY <1>5 DEF WriteLock, Before, In
<1>6. ASSUME WriteTurn(t)
      PROVE  Before' = Before
  BY <1>6 DEF WriteTurn, Before, In
<1>7. ASSUME WriteAnnounce(t)
      PROVE  /\ Before' = In(ReaderPlaces)
             /\ rdIn.bits = 0
             /\ rdIn'.bits = PRES + (wrOut % 2)
  <2>1. pc[t] = "announce" /\ pc' = [pc EXCEPT ![t] = "flush"]
    BY <1>7 DEF WriteAnnounce
  <2>2. pc[t] \in OwnerPlaces
    BY <2>1 DEF OwnerPlaces
  <2>3. /\ In({"flush", "write", "next"}) = {}
        /\ In({"flush", "write"}) = {}
    BY <2>1, <2>2, Owner DEF OwnerPlaces, In
  <2>4. rdIn.bits = 0
    BY <2>3 DEF BitsOK
  <2>5. ticket[t] = wrOut
    BY <2>2, Owner
  <2>6. wrOut % 2 \in {0, 1} /\ wrOut % 2 # (wrOut + 1) % 2
        /\ (wrOut + 1) % 2 \in {0, 1}
    BY Parity
  <2>7. rdIn'.bits = PRES + (wrOut % 2)
    <3>1. 0 + Phase(t) \in WBITS /\ 0 + Phase(t) = PRES + (wrOut % 2)
      BY <2>5, <2>6 DEF Phase, PRES, WBITS
    <3> QED  BY <1>7, <2>4, <3>1, Marked DEF WriteAnnounce
  <2>8. \A u \in In({"wait"}) : seen[u] # rdIn'.bits
    <3>1. \A u \in In({"wait"}) : seen[u] = PRES + ((wrOut + 1) % 2)
      BY <2>3 DEF BitsOK
    <3>2. PRES + ((wrOut + 1) % 2) # PRES + (wrOut % 2)
      BY ONLY <2>6 DEF PRES
    <3> QED  BY <2>7, <3>1, <3>2
  <2>9. seen' = seen /\ In({"read"})' = In({"read"})
        /\ In({"wait"})' = In({"wait"})
    BY <1>7, <2>1 DEF WriteAnnounce, In
  <2>10. In(ReaderPlaces) = In({"read"}) \cup In({"wait"})
    BY DEF In, ReaderPlaces
  <2> QED  BY <2>4, <2>7, <2>8, <2>9, <2>10 DEF Before
<1>8. ASSUME WriteFlush(t)
      PROVE  Before' = Before
  BY <1>8 DEF WriteFlush, Before, In
<1> QED  BY <1>1, <1>2, <1>3, <1>4, <1>5, <1>6, <1>7, <1>8

\* The two words count the readers that are there.
LEMMA ReadersStep ==
    ASSUME IInv, Next
    PROVE  ReadersOK'
<1>1. PICK t \in Thread : ReadLock(t) \/ WriteLock(t) \/ Continue(t)
  BY DEF Next
<1> DEFINE R == In(ReaderPlaces)
<1> TypeOK /\ ReadersOK
  BY DEF IInv
<1> USE DEF Go, rdVars, wrVars, localVars
<1>2. /\ R \in SUBSET Thread
      /\ Cardinality(R) \in Nat
      /\ Cardinality(R) <= Readers
      /\ R # Thread => Cardinality(R) < Readers
      /\ \A u \in Thread \ R : Cardinality(R \cup {u}) = Cardinality(R) + 1
      /\ \A u \in R : Cardinality(R \ {u}) = Cardinality(R) - 1
                      /\ Cardinality(R) # 0
  <2>1. R \in SUBSET Thread
    BY DEF In
  <2>2. /\ Cardinality(R) \in Nat
        /\ Cardinality(Thread) \in Nat
        /\ Cardinality(R) <= Cardinality(Thread)
        /\ R = {} <=> Cardinality(R) = 0
        /\ \A u \in Thread \ R :
              /\ Cardinality(R \cup {u}) = Cardinality(R) + 1
              /\ Cardinality(R) < Cardinality(Thread)
        /\ \A u \in R : Cardinality(R \ {u}) = Cardinality(R) - 1
    BY <2>1, Counting
  <2>3. Readers \in Nat /\ Cardinality(Thread) <= Readers
    BY Width, ThreadAssumption
  <2> HIDE DEF R
  <2>4. R # Thread => \E u \in Thread : u \notin R
    BY <2>1
  <2>5. ASSUME R # Thread
        PROVE  Cardinality(R) < Readers
    <3>1. PICK u \in Thread \ R : TRUE
      BY <2>4, <2>5
    <3>2. Cardinality(R) < Cardinality(Thread)
      BY <2>2, <3>1
    <3> QED  BY ONLY <2>2, <2>3, <3>2
  <2>6. \A u \in R : Cardinality(R) # 0
    BY <2>2
  <2> QED  BY <2>1, <2>2, <2>3, <2>5, <2>6
<1>3. rdIn \in Word /\ rdOut \in Word /\ rdOut.count \in 0 .. Readers - 1
  BY DEF TypeOK, Word
<1>4. ASSUME NEW p \in Places, Go(t, p),
             p \in ReaderPlaces <=> pc[t] \in ReaderPlaces,
             rdIn'.count = rdIn.count, rdOut' = rdOut
      PROVE  ReadersOK'
  <2>1. R' = R
    BY <1>4 DEF In, TypeOK
  <2> QED  BY <1>4, <2>1 DEF ReadersOK
<1> USE DEF WriterPlaces, OwnerPlaces, ReaderPlaces, Places
<1>5. CASE ReadLock(t)
  <2>1. t \in Thread \ R /\ R' = R \cup {t}
    BY <1>5 DEF ReadLock, In, TypeOK
  <2>2. rdOut' = rdOut /\ rdIn'.count = Inc(rdIn.count, Readers)
    BY <1>3, <1>5, Counted DEF ReadLock
  <2>3. Cardinality(R) \in 0 .. Readers - 1
    BY <1>2, <2>1, Width
  <2>4. Plus(rdOut.count, Cardinality(R) + 1, Readers)
            = Inc(rdIn.count, Readers)
    BY <1>3, <2>3, Width, Ahead DEF ReadersOK
  <2> QED  BY <1>2, <2>1, <2>2, <2>4 DEF ReadersOK
<1>6. CASE ReadUnlock(t)
  <2>1. t \in R /\ R' = R \ {t}
    BY <1>6 DEF ReadUnlock, In, TypeOK
  <2>2. /\ rdIn' = rdIn /\ rdOut'.bits = rdOut.bits
        /\ rdOut'.count = Inc(rdOut.count, Readers)
    BY <1>3, <1>6, Counted DEF ReadUnlock
  <2>3. /\ Cardinality(R) - 1 \in 0 .. Readers - 1
        /\ (Cardinality(R) - 1) + 1 = Cardinality(R)
    BY <1>2, <2>1, Width
  <2>4. Plus(Inc(rdOut.count, Readers), Cardinality(R) - 1, Readers)
            = rdIn.count
    BY <1>3, <2>3, Width, Ahead DEF ReadersOK
  <2> QED  BY <1>2, <2>1, <2>2, <2>4 DEF ReadersOK
<1>7. CASE ReadWait(t)
  BY <1>4, <1>7 DEF ReadWait
<1>8. CASE WriteLock(t)
  BY <1>4, <1>8 DEF WriteLock
<1>9. CASE WriteTurn(t)
  BY <1>4, <1>9 DEF WriteTurn
<1>10. CASE WriteAnnounce(t)
  <2>1. rdIn'.count = rdIn.count
    BY <1>3, <1>10 DEF WriteAnnounce, Word
  <2>2. Go(t, "flush") /\ pc[t] = "announce" /\ rdOut' = rdOut
    BY <1>10 DEF WriteAnnounce
  <2> QED  BY <1>4, <2>1, <2>2
<1>11. CASE WriteFlush(t)
  BY <1>4, <1>11 DEF WriteFlush
<1>12. CASE WriteUnlock(t)
  <2>1. rdIn'.count = rdIn.count
    BY <1>3, <1>12 DEF WriteUnlock, Word
  <2> QED  BY <1>4, <1>12, <2>1 DEF WriteUnlock
<1>13. CASE WriteNext(t)
  BY <1>4, <1>13 DEF WriteNext
<1> QED
  BY <1>1, <1>5, <1>6, <1>7, <1>8, <1>9, <1>10, <1>11, <1>12, <1>13
     DEF Continue

\* The writer bits are those of the writer that is there.
LEMMA BitsStep ==
    ASSUME IInv, Next
    PROVE  BitsOK'
<1>1. PICK t \in Thread : ReadLock(t) \/ WriteLock(t) \/ Continue(t)
  BY DEF Next
<1> TypeOK /\ LineOK /\ WritersInOrder /\ BitsOK /\ FlushOK
  BY DEF IInv
<1> USE DEF Go, rdVars, wrVars, localVars
<1>2. rdIn \in Word /\ wrOut \in 0 .. Tickets - 1
  BY DEF TypeOK
<1>3. /\ wrOut % 2 \in {0, 1}
      /\ (wrOut + 1) % 2 \in {0, 1}
      /\ PRES + (wrOut % 2) \in {2, 3}
      /\ PRES + ((wrOut + 1) % 2) \in {2, 3}
  BY <1>2, Parity DEF PRES
<1> DEFINE Same(S) == In(S)' = In(S)
<1>4. ASSUME Same({"flush", "write"}), Same({"next"}),
             Same({"flush", "write", "next"}),
             In({"wait"})' \subseteq In({"wait"}),
             \A u \in In({"wait"})' : seen'[u] = seen[u],
             rdIn'.bits = rdIn.bits, wrOut' = wrOut
      PROVE  BitsOK'
  BY <1>4 DEF BitsOK
<1>5. CASE ReadLock(t)
  <2>1. rdIn'.bits = rdIn.bits /\ wrOut' = wrOut
    BY <1>2, <1>5, Counted DEF ReadLock
  <2>2. /\ Same({"flush", "write"}) /\ Same({"next"})
        /\ Same({"flush", "write", "next"})
    BY <1>5 DEF ReadLock, In, TypeOK
  <2>3. \A u \in In({"wait"}) : u # t
    BY <1>5 DEF ReadLock, In
  <2>4. CASE rdIn.bits = 0
    <3>1. In({"wait"})' = In({"wait"})
      BY <1>5, <2>4 DEF ReadLock, In, TypeOK
    <3>2. \A u \in In({"wait"})' : seen'[u] = seen[u]
      BY <1>5, <2>3, <3>1 DEF ReadLock, In, TypeOK
    <3> QED  BY <1>4, <2>1, <2>2, <3>1, <3>2
  <2>5. CASE rdIn.bits # 0
    <3>1. In({"wait"})' = In({"wait"}) \cup {t}
      BY <1>5, <2>5 DEF ReadLock, In, TypeOK
    <3>2. \A u \in In({"wait"}) : seen'[u] = seen[u]
      BY <1>5, <2>3 DEF ReadLock, In, TypeOK
    <3>3. seen'[t] = rdIn.bits
      BY <1>5 DEF ReadLock, TypeOK
    <3>4. In({"flush", "write"}) # {}
      BY <2>5 DEF BitsOK
    <3>5. rdIn.bits = PRES + (wrOut % 2)
      BY <3>4 DEF BitsOK
    <3>6. In({"flush", "write", "next"}) # {}
      BY <3>4 DEF In
    <3>7. ASSUME NEW u \in In({"wait"})'
          PROVE  /\ seen'[u] \in {2, 3}
                 /\ In({"next"})' # {} => seen'[u] = PRES + (wrOut' % 2)
                 /\ In({"flush", "write", "next"})' = {} =>
                        seen'[u] = PRES + ((wrOut' + 1) % 2)
      BY <1>3, <2>1, <2>2, <3>1, <3>2, <3>3, <3>5, <3>6 DEF BitsOK
    <3> QED  BY <2>1, <2>2, <3>4, <3>5, <3>7 DEF BitsOK
  <2> QED  BY <2>4, <2>5
<1>6. CASE ReadWait(t)
  <2>1. /\ Same({"flush", "write"}) /\ Same({"next"})
        /\ Same({"flush", "write", "next"})
        /\ In({"wait"})' = In({"wait"}) \ {t}
    BY <1>6 DEF ReadWait, In, TypeOK
  <2>2. \A u \in In({"wait"})' : seen'[u] = seen[u]
    BY <1>6, <2>1 DEF ReadWait, In, TypeOK
  <2> QED  BY <1>4, <1>6, <2>1, <2>2 DEF ReadWait
<1>7. ASSUME UNCHANGED <<rdIn, wrOut, seen>>,
             NEW p \in {"idle", "turn", "announce"},
             Go(t, p), pc[t] \in {"idle", "read", "turn", "announce"}
      PROVE  BitsOK'
  <2>1. /\ Same({"flush", "write"}) /\ Same({"next"})
        /\ Same({"flush", "write", "next"}) /\ Same({"wait"})
    BY <1>7 DEF In, TypeOK
  <2> QED  BY <1>4, <1>7, <2>1
<1>8. CASE ReadUnlock(t)
  BY <1>7, <1>8 DEF ReadUnlock
<1>9. CASE WriteLock(t)
  BY <1>7, <1>9 DEF WriteLock
<1>10. CASE WriteTurn(t)
  BY <1>7, <1>10 DEF WriteTurn
<1>11. CASE WriteAnnounce(t)
  <2>1. pc[t] = "announce" /\ pc[t] \in OwnerPlaces
    BY <1>11 DEF WriteAnnounce, OwnerPlaces
  <2>2. In({"next"}) = {} /\ In({"flush", "write", "next"}) = {}
    BY <2>1, Owner DEF OwnerPlaces, In
  <2>3. /\ In({"flush", "write"})' # {}
        /\ In({"flush", "write", "next"})' # {}
        /\ Same({"next"}) /\ Same({"wait"})
    BY <1>11 DEF WriteAnnounce, In, TypeOK
  <2>4. seen' = seen /\ wrOut' = wrOut /\ rdIn'.bits = PRES + (wrOut % 2)
    BY <1>11, BeforeStep DEF WriteAnnounce
  <2> QED  BY <2>2, <2>3, <2>4 DEF BitsOK
<1>12. CASE WriteFlush(t)
  <2>1. /\ Same({"flush", "write"}) /\ Same({"next"})
        /\ Same({"flush", "write", "next"}) /\ Same({"wait"})
    BY <1>12 DEF WriteFlush, In, TypeOK
  <2> QED  BY <1>4, <1>12, <2>1 DEF WriteFlush
<1>13. CASE WriteUnlock(t)
  <2>1. pc[t] = "write" /\ pc[t] \in OwnerPlaces
    BY <1>13 DEF WriteUnlock, OwnerPlaces
  <2>2. t \in In({"write"}) /\ t \in In({"flush", "write"})
    BY <2>1 DEF In
  <2>3. Before = {} /\ rdIn.bits = PRES + (wrOut % 2)
    BY <2>2 DEF FlushOK, BitsOK
  <2>4. \A u \in In({"wait"}) : seen[u] = PRES + (wrOut % 2)
    BY <2>3 DEF Before
  <2>5. In({"flush", "write"})' = {}
    BY <1>13, <2>1, Owner DEF WriteUnlock, OwnerPlaces, In, TypeOK
  <2>6. In({"flush", "write", "next"})' # {} /\ Same({"wait"})
    BY <1>13 DEF WriteUnlock, In, TypeOK
  <2>7. seen' = seen /\ wrOut' = wrOut /\ rdIn'.bits = 0
    BY <1>2, <1>13 DEF WriteUnlock, Word
  <2> QED  BY <1>3, <2>4, <2>5, <2>6, <2>7 DEF BitsOK
<1>14. CASE WriteNext(t)
  <2>1. pc[t] = "next" /\ pc[t] \in OwnerPlaces
    BY <1>14 DEF WriteNext, OwnerPlaces
  <2>2. t \in In({"next"})
    BY <2>1 DEF In
  <2>3. \A u \in In({"wait"}) : seen[u] = PRES + (wrOut % 2)
    BY <2>2 DEF BitsOK
  <2>4. In({"flush", "write"}) = {}
    BY <2>1, Owner DEF OwnerPlaces, In
  <2>5. Same({"flush", "write"}) /\ Same({"wait"}) /\ In({"next"})' = {}
    BY <1>14, <2>1, Owner DEF WriteNext, OwnerPlaces, In, TypeOK
  <2>6. seen' = seen /\ rdIn' = rdIn /\ wrOut' = Inc(wrOut, Tickets)
    BY <1>14 DEF WriteNext
  <2>7. (wrOut' + 1) % 2 = wrOut % 2
    BY <1>2, <2>6, Parity
  <2> QED  BY <1>3, <2>3, <2>4, <2>5, <2>6, <2>7 DEF BitsOK
<1> QED
  BY <1>1, <1>5, <1>6, <1>8, <1>9, <1>10, <1>11, <1>12, <1>13, <1>14
     DEF Continue

\* A writer waits for those that came before it.
LEMMA FlushStep ==
    ASSUME IInv, Next
    PROVE  FlushOK'
<1>1. PICK t \in Thread : ReadLock(t) \/ WriteLock(t) \/ Continue(t)
  BY DEF Next
<1> TypeOK /\ LineOK /\ WritersInOrder /\ ReadersOK /\ BitsOK /\ FlushOK
  BY DEF IInv
<1> USE DEF Go, rdVars, wrVars, localVars
<1>2. rdIn \in Word /\ rdOut \in Word /\ rdOut.count \in 0 .. Readers - 1
  BY DEF TypeOK, Word
<1> DEFINE Same(S) == In(S)' = In(S)
<1>3. ASSUME In({"flush"})' \subseteq In({"flush"}),
             In({"write"})' \subseteq In({"write"}),
             \A u \in In({"flush"})' : flushAt'[u] = flushAt[u],
             rdOut' = rdOut, Before' = Before
      PROVE  FlushOK'
  BY <1>3 DEF FlushOK
<1>4. CASE ReadLock(t)
  <2>1. Same({"flush"}) /\ Same({"write"})
    BY <1>4 DEF ReadLock, In, TypeOK
  <2>2. CASE rdIn.bits # 0
    BY <1>3, <1>4, <2>1, <2>2, BeforeStep DEF ReadLock
  <2>3. CASE rdIn.bits = 0
    <3>1. PRES + (wrOut % 2) # 0
      BY Parity DEF PRES, TypeOK
    <3>2. In({"flush", "write"}) = {}
      BY <2>3, <3>1 DEF BitsOK
    <3>3. In({"flush"}) = {} /\ In({"write"}) = {}
      BY <3>2 DEF In
    <3> QED  BY <2>1, <3>3 DEF FlushOK
  <2> QED  BY <2>2, <2>3
<1>5. CASE ReadWait(t)
  <2>1. Same({"flush"}) /\ Same({"write"})
    BY <1>5 DEF ReadWait, In, TypeOK
  <2> QED  BY <1>3, <1>5, <2>1, BeforeStep DEF ReadWait
<1>6. CASE ReadUnlock(t)
  <2>1. Same({"flush"}) /\ Same({"write"}) /\ flushAt' = flushAt
    BY <1>6 DEF ReadUnlock, In, TypeOK
  <2>2. t \in Before /\ Before' = Before \ {t} /\ Before \in SUBSET Thread
    BY <1>6, BeforeStep
  <2>3. In({"write"})' = {}
    BY <2>1, <2>2 DEF FlushOK
  <2>4. rdOut'.count = Inc(rdOut.count, Readers)
    BY <1>2, <1>6, Counted DEF ReadUnlock
  <2>5. /\ Cardinality(Before \ {t}) = Cardinality(Before) - 1
        /\ Cardinality(Before) \in Nat \ {0}
        /\ Cardinality(Before) <= Cardinality(Thread)
        /\ Cardinality(Thread) \in Nat
    BY <2>2, Counting
  <2>6. /\ Cardinality(Before) - 1 \in 0 .. Readers - 1
        /\ (Cardinality(Before) - 1) + 1 = Cardinality(Before)
    BY <2>5, Width, ThreadAssumption
  <2>7. Plus(Inc(rdOut.count, Readers), Cardinality(Before) - 1, Readers)
            = Plus(rdOut.count, Cardinality(Before), Readers)
    BY <1>2, <2>6, Width, Ahead
  <2>8. ASSUME NEW u \in In({"flush"})'
        PROVE  /\ flushAt'[u].bits = 0
               /\ flushAt'[u].count =
                    Plus(rdOut'.count, Cardinality(Before'), Readers)
    <3>1. u \in In({"flush"})
      BY <2>1
    <3>2. /\ flushAt[u].bits = 0
          /\ flushAt[u].count =
                Plus(rdOut.count, Cardinality(Before), Readers)
      BY <3>1 DEF FlushOK
    <3> HIDE DEF In
    <3> QED  BY <2>1, <2>2, <2>4, <2>5, <2>7, <3>2
  <2> QED  BY <2>3, <2>8 DEF FlushOK
<1>7. CASE WriteLock(t)
  <2>1. Same({"flush"}) /\ Same({"write"})
    BY <1>7 DEF WriteLock, In, TypeOK
  <2> QED  BY <1>3, <1>7, <2>1, BeforeStep DEF WriteLock
<1>8. CASE WriteTurn(t)
  <2>1. Same({"flush"}) /\ Same({"write"})
    BY <1>8 DEF WriteTurn, In, TypeOK
  <2> QED  BY <1>3, <1>8, <2>1, BeforeStep DEF WriteTurn
<1>9. CASE WriteAnnounce(t)
  <2>1. pc[t] = "announce" /\ pc[t] \in OwnerPlaces
    BY <1>9 DEF WriteAnnounce, OwnerPlaces
  <2>2. In({"flush"})' = {t} /\ In({"write"})' = {}
    BY <1>9, <2>1, Owner DEF WriteAnnounce, OwnerPlaces, In, TypeOK
  <2>3. Before' = In(ReaderPlaces) /\ rdIn.bits = 0
    BY <1>9, BeforeStep
  <2>4. flushAt'[t] = rdIn /\ rdOut' = rdOut
    BY <1>9 DEF WriteAnnounce, TypeOK
  <2> QED  BY <2>2, <2>3, <2>4 DEF FlushOK, ReadersOK
<1>10. CASE WriteFlush(t)
  <2>1. pc[t] = "flush" /\ pc[t] \in OwnerPlaces /\ t \in In({"flush"})
    BY <1>10 DEF WriteFlush, OwnerPlaces, In
  <2>2. In({"flush"})' = {}
    BY <1>10, <2>1, Owner DEF WriteFlush, OwnerPlaces, In, TypeOK
  <2>3. Before' = Before /\ Before \in SUBSET Thread
    BY <1>10, BeforeStep
  <2>4. rdOut.count = Plus(rdOut.count, Cardinality(Before), Readers)
    BY <1>10, <2>1 DEF WriteFlush, FlushOK
  <2>5. t \in Thread \ Before
    BY <2>1 DEF Before, In
  <2>6. /\ Cardinality(Before) \in Nat
        /\ Cardinality(Before) < Cardinality(Thread)
        /\ Cardinality(Thread) \in Nat
        /\ Before = {} <=> Cardinality(Before) = 0
    BY <2>3, <2>5, Counting
  <2>7. Cardinality(Before) \in 0 .. Readers - 1
    BY <2>6, Width, ThreadAssumption
  <2>8. Cardinality(Before) = 0
    BY <1>2, <2>4, <2>7, Width, Ahead
  <2> QED  BY <2>2, <2>3, <2>6, <2>8 DEF FlushOK
<1>11. CASE WriteUnlock(t) \/ WriteNext(t)
  <2>1. pc[t] \in {"write", "next"} /\ pc[t] \in OwnerPlaces
    BY <1>11 DEF WriteUnlock, WriteNext, OwnerPlaces
  <2>2. \A u \in Thread : pc[u] \in OwnerPlaces => u = t
    BY <2>1, Owner
  <2>3. PICK p \in {"next", "idle"} : pc' = [pc EXCEPT ![t] = p]
    BY <1>11 DEF WriteUnlock, WriteNext
  <2>4. In({"flush"})' = {} /\ In({"write"})' = {}
    BY <2>2, <2>3 DEF OwnerPlaces, In, TypeOK
  <2> QED  BY <2>4 DEF FlushOK
<1> QED
  BY <1>1, <1>4, <1>5, <1>6, <1>7, <1>8, <1>9, <1>10, <1>11 DEF Continue

\* Overtaken readers are among those the writer waits for.
LEMMA OvertakenStep ==
    ASSUME IInv, Next
    PROVE  OvertakenOK'
<1>1. PICK t \in Thread : ReadLock(t) \/ WriteLock(t) \/ Continue(t)
  BY DEF Next
<1> TypeOK /\ LineOK /\ WritersInOrder /\ BitsOK /\ OvertakenOK
  BY DEF IInv
<1> USE DEF Go, rdVars, wrVars, localVars
<1> DEFINE Same(S) == In(S)' = In(S)
<1>2. ASSUME In({"flush"})' \subseteq In({"flush"}),
             In({"wait"}) \subseteq In({"wait"})',
             overtaken' = overtaken, Before' = Before
      PROVE  OvertakenOK'
  BY <1>2 DEF OvertakenOK
<1>3. CASE ReadLock(t)
  <2>1. Same({"flush"}) /\ In({"wait"}) \subseteq In({"wait"})'
    BY <1>3 DEF ReadLock, In, TypeOK
  <2>2. CASE rdIn.bits # 0
    BY <1>2, <1>3, <2>1, <2>2, BeforeStep DEF ReadLock
  <2>3. CASE rdIn.bits = 0
    <3>1. PRES + (wrOut % 2) # 0
      BY Parity DEF PRES, TypeOK
    <3>2. In({"flush", "write"}) = {}
      BY <2>3, <3>1 DEF BitsOK
    <3>3. In({"flush"}) = {}
      BY <3>2 DEF In
    <3> QED  BY <1>3, <2>1, <3>3 DEF OvertakenOK, ReadLock
  <2> QED  BY <2>2, <2>3
<1>4. CASE ReadWait(t)
  <2>1. Same({"flush"}) /\ In({"wait"})' = In({"wait"}) \ {t}
    BY <1>4 DEF ReadWait, In, TypeOK
  <2>2. overtaken' = overtaken \ {t} /\ Before' = Before
    BY <1>4, BeforeStep DEF ReadWait
  <2> QED  BY <2>1, <2>2 DEF OvertakenOK
<1>5. CASE ReadUnlock(t)
  <2>1. Same({"flush"}) /\ Same({"wait"}) /\ t \notin In({"wait"})
    BY <1>5 DEF ReadUnlock, In, TypeOK
  <2>2. overtaken' = overtaken /\ Before' = Before \ {t}
    BY <1>5, BeforeStep DEF ReadUnlock
  <2> QED  BY <2>1, <2>2 DEF OvertakenOK
<1>6. CASE WriteLock(t)
  <2>1. Same({"flush"}) /\ Same({"wait"})
    BY <1>6 DEF WriteLock, In, TypeOK
  <2> QED  BY <1>2, <1>6, <2>1, BeforeStep DEF WriteLock
<1>7. CASE WriteTurn(t)
  <2>1. Same({"flush"}) /\ Same({"wait"})
    BY <1>7 DEF WriteTurn, In, TypeOK
  <2> QED  BY <1>2, <1>7, <2>1, BeforeStep DEF WriteTurn
<1>8. CASE WriteAnnounce(t)
  <2>1. Same({"wait"}) /\ overtaken' = overtaken
    BY <1>8 DEF WriteAnnounce, In, TypeOK
  <2>2. Before' = In(ReaderPlaces)
    BY <1>8, BeforeStep
  <2>3. In({"wait"}) \subseteq In(ReaderPlaces)
    BY DEF In, ReaderPlaces
  <2> QED  BY <2>1, <2>2, <2>3 DEF OvertakenOK
<1>9. CASE WriteFlush(t)
  <2>1. pc[t] = "flush" /\ pc[t] \in OwnerPlaces
    BY <1>9 DEF WriteFlush, OwnerPlaces
  <2>2. In({"flush"})' = {}
    BY <1>9, <2>1, Owner DEF WriteFlush, OwnerPlaces, In, TypeOK
  <2>3. Same({"wait"}) /\ overtaken' = overtaken \cup In({"wait"})
    BY <1>9 DEF WriteFlush, In, TypeOK
  <2> QED  BY <2>2, <2>3 DEF OvertakenOK
<1>10. CASE WriteUnlock(t) \/ WriteNext(t)
  <2>1. pc[t] \in {"write", "next"} /\ pc[t] \in OwnerPlaces
    BY <1>10 DEF WriteUnlock, WriteNext, OwnerPlaces
  <2>2. \A u \in Thread : pc[u] \in OwnerPlaces => u = t
    BY <2>1, Owner
  <2>3. PICK p \in {"next", "idle"} : pc' = [pc EXCEPT ![t] = p]
    BY <1>10 DEF WriteUnlock, WriteNext
  <2>4. In({"flush"})' = {} /\ Same({"wait"})
    BY <2>1, <2>2, <2>3 DEF OwnerPlaces, In, TypeOK
  <2>5. overtaken' = overtaken
    BY <1>10 DEF WriteUnlock, WriteNext
  <2> QED  BY <2>4, <2>5 DEF OvertakenOK
<1> QED
  BY <1>1, <1>3, <1>4, <1>5, <1>6, <1>7, <1>8, <1>9, <1>10 DEF Continue

-----------------------------------------------------------------------------
\* The theorems.

LEMMA InitInvariant ==
    ASSUME Init
    PROVE  IInv
<1> USE DEF Init
<1>1. TypeOK
  BY Width DEF TypeOK, Word, Zero, WBITS, Places
<1>2. \A S \in SUBSET (Places \ {"idle"}) : In(S) = {}
  BY DEF In
<1>3. /\ In(ReaderPlaces) = {} /\ In(WriterPlaces) = {} /\ In({"wait"}) = {}
      /\ In({"flush"}) = {} /\ In({"write"}) = {} /\ In({"next"}) = {}
      /\ In({"flush", "write"}) = {}
  BY DEF In, ReaderPlaces, WriterPlaces, OwnerPlaces
<1>4. LineOK
  BY <1>3, Width DEF LineOK, Plus
<1>5. WritersInOrder
  BY DEF WritersInOrder, OwnerPlaces
<1>6. ReadersOK
  BY <1>3, FS_EmptySet, Width DEF ReadersOK, Plus, Zero
<1>7. BitsOK /\ FlushOK /\ OvertakenOK
  BY <1>3 DEF BitsOK, FlushOK, OvertakenOK, Zero
<1> QED  BY <1>1, <1>4, <1>5, <1>6, <1>7 DEF IInv

LEMMA StepInvariant ==
    ASSUME IInv, [Next]_vars
    PROVE  IInv'
<1>1. CASE Next
  BY <1>1, TypeStep, LineStep, OrderStep, ReadersStep, BitsStep, FlushStep,
     OvertakenStep DEF IInv
<1>2. CASE UNCHANGED vars
  <2>1. /\ rdIn' = rdIn /\ rdOut' = rdOut /\ wrIn' = wrIn /\ wrOut' = wrOut
        /\ pc' = pc /\ seen' = seen /\ ticket' = ticket
        /\ flushAt' = flushAt /\ line' = line /\ overtaken' = overtaken
    BY <1>2 DEF vars, rdVars, wrVars, localVars
  <2>2. TypeOK' /\ WritersInOrder'
    BY <2>1 DEF IInv, TypeOK, WritersInOrder
  <2>3. LineOK' /\ ReadersOK'
    BY <2>1 DEF IInv, LineOK, ReadersOK, In
  <2>4. BitsOK' /\ FlushOK' /\ OvertakenOK'
    BY <2>1 DEF IInv, BitsOK, FlushOK, OvertakenOK, In, Before
  <2> QED  BY <2>2, <2>3, <2>4 DEF IInv
<1> QED  BY <1>1, <1>2

\* The invariant on which everything else rests.
THEOREM LockInvariant == Spec => []IInv
<1>1. Init => IInv
  BY InitInvariant
<1>2. IInv /\ [Next]_vars => IInv'
  BY StepInvariant
<1> QED  BY <1>1, <1>2, PTL DEF Spec

\* The state is well formed: adding the writer bits never overflows them.
THEOREM TypeCorrect == Spec => []TypeOK
<1>1. IInv => TypeOK
  BY DEF IInv
<1> QED  BY <1>1, LockInvariant, PTL

\* A writer is alone inside, for any number of threads and whenever the
\* counters wrap around.
THEOREM WritersAlone == Spec => []MutualExclusion
<1>1. ASSUME IInv, NEW t \in In({"write"})
      PROVE  In({"write", "read"}) = {t}
  <2>1. pc[t] = "write" /\ t \in Thread /\ pc[t] \in OwnerPlaces
    BY DEF In, OwnerPlaces
  <2>2. Before = {}
    BY <1>1 DEF IInv, FlushOK
  <2>3. In({"read"}) = {}
    BY <2>2 DEF Before
  <2>4. \A u \in Thread : pc[u] \in OwnerPlaces => u = t
    BY <1>1, <2>1, Owner DEF IInv
  <2> QED  BY <2>1, <2>3, <2>4 DEF In, OwnerPlaces
<1>2. IInv => MutualExclusion
  BY <1>1 DEF MutualExclusion
<1> QED  BY <1>2, LockInvariant, PTL

\* Writers own the lock in the order of their tickets.
THEOREM WritersServedInOrder == Spec => []WritersInOrder
<1>1. IInv => WritersInOrder
  BY DEF IInv
<1> QED  BY <1>1, LockInvariant, PTL

-----------------------------------------------------------------------------
\* The refinement.

LEMMA AbstractPlaces ==
    ASSUME TypeOK
    PROVE  /\ Abstract!At("writing") = In({"write"})
           /\ Abstract!At("reading") = In({"read"})
           /\ Abstract!At("wantRead") = In({"wait"})
<1>1. \A t \in Thread : At[t] = Place(pc[t]) /\ pc[t] \in Places
  BY DEF At, TypeOK
<1>2. \A p \in Places :
        /\ Place(p) = "writing" <=> p = "write"
        /\ Place(p) = "reading" <=> p = "read"
        /\ Place(p) = "wantRead" <=> p = "wait"
  BY DEF Place, Places, ReaderPlaces, WriterPlaces, OwnerPlaces
<1> QED  BY <1>1, <1>2 DEF Abstract!At, In

LEMMA AtMoves ==
    ASSUME TypeOK, NEW t \in Thread, NEW p \in Places, Go(t, p)
    PROVE  At' = [At EXCEPT ![t] = Place(p)]
BY DEF At, Go, TypeOK

LEMMA AbstractInit ==
    ASSUME Init
    PROVE  Abstract!Init
BY DEF Init, Abstract!Init, At, Place

\* Each step of the lock is one of the promise, or none.
LEMMA AbstractStep ==
    ASSUME IInv, IInv', [Next]_vars
    PROVE  [Abstract!Next]_(Abstract!vars)
<1> TypeOK /\ LineOK /\ WritersInOrder /\ BitsOK /\ FlushOK /\ OvertakenOK
  BY DEF IInv
<1>1. CASE UNCHANGED vars
  BY <1>1 DEF vars, Abstract!vars, At
<1>2. CASE Next
  <2>1. PICK t \in Thread : ReadLock(t) \/ WriteLock(t) \/ Continue(t)
    BY <1>2 DEF Next
  <2>2. At[t] = Place(pc[t])
    BY DEF At
  <2> USE DEF Places, ReaderPlaces, WriterPlaces, OwnerPlaces
  <2>3. CASE ReadLock(t) /\ rdIn.bits = 0
    <3>1. At' = [At EXCEPT ![t] = "reading"] /\ At[t] = "out"
      BY <2>2, <2>3, AtMoves DEF ReadLock, Place
    <3>2. In({"flush", "write"}) = {}
      BY <2>3, Parity DEF BitsOK, PRES, TypeOK
    <3>3. Abstract!At("writing") = {}
      BY <3>2, AbstractPlaces DEF In
    <3>4. overtaken' = overtaken \ {t}
      BY <2>3 DEF ReadLock, OvertakenOK, In
    <3>5. Abstract!EnterRead(t)
      BY <3>1, <3>3, <3>4 DEF Abstract!EnterRead
    <3> QED  BY <3>5 DEF Abstract!Next
  <2>4. CASE ReadLock(t) /\ rdIn.bits # 0
    <3>1. At' = [At EXCEPT ![t] = "wantRead"] /\ At[t] = "out"
      BY <2>2, <2>4, AtMoves DEF ReadLock, Place
    <3>2. Abstract!Want(t)
      BY <2>4, <3>1 DEF ReadLock, Abstract!Want
    <3> QED  BY <3>2 DEF Abstract!Next
  <2>5. CASE ReadWait(t)
    <3>1. At' = [At EXCEPT ![t] = "reading"] /\ At[t] = "wantRead"
      BY <2>2, <2>5, AtMoves DEF ReadWait, Place
    <3>2. t \in Before
      BY <2>5 DEF ReadWait, Before, In
    <3>3. Abstract!At("writing") = {}
      BY <3>2, AbstractPlaces DEF FlushOK
    <3>4. Abstract!EnterRead(t)
      BY <2>5, <3>1, <3>3 DEF ReadWait, Abstract!EnterRead
    <3> QED  BY <3>4 DEF Abstract!Next
  <2>6. CASE ReadUnlock(t)
    <3>1. At' = [At EXCEPT ![t] = "out"] /\ At[t] = "reading"
      BY <2>2, <2>6, AtMoves DEF ReadUnlock, Place
    <3>2. Abstract!Leave(t)
      BY <2>6, <3>1 DEF ReadUnlock, Abstract!Leave
    <3> QED  BY <3>2 DEF Abstract!Next
  <2>7. CASE WriteLock(t)
    <3>1. At' = [At EXCEPT ![t] = "wantWrite"] /\ At[t] = "out"
      BY <2>2, <2>7, AtMoves DEF WriteLock, Place
    <3>2. Abstract!Want(t)
      BY <2>7, <3>1 DEF WriteLock, Abstract!Want
    <3> QED  BY <3>2 DEF Abstract!Next
  <2>8. CASE WriteTurn(t) \/ WriteAnnounce(t) \/ WriteNext(t)
    <3>1. PICK p \in Places : Go(t, p) /\ Place(p) = Place(pc[t])
      BY <2>8 DEF WriteTurn, WriteAnnounce, WriteNext, Place
    <3>2. At' = At
      BY <2>2, <3>1, AtMoves DEF At
    <3>3. overtaken' = overtaken
      BY <2>8 DEF WriteTurn, WriteAnnounce, WriteNext
    <3> QED  BY <3>2, <3>3 DEF Abstract!vars
  <2>9. CASE WriteFlush(t)
    <3>1. At' = [At EXCEPT ![t] = "writing"] /\ At[t] = "wantWrite"
      BY <2>2, <2>9, AtMoves DEF WriteFlush, Place
    <3>2. t \in In({"write"})' /\ t \in In({"flush"})
      BY <2>9 DEF WriteFlush, Go, In, TypeOK
    <3>3. Before' = {} /\ Before' = Before
      BY <2>9, <3>2, BeforeStep DEF IInv, FlushOK
    <3>4. In({"read"}) = {} /\ overtaken = {}
      BY <3>2, <3>3 DEF Before, OvertakenOK
    <3>5. In({"write"}) = {}
      BY <2>9, Owner DEF WriteFlush, In
    <3>6. Abstract!EnterWrite(t)
      BY <2>9, <3>1, <3>4, <3>5, AbstractPlaces
         DEF WriteFlush, Abstract!EnterWrite
    <3> QED  BY <3>6 DEF Abstract!Next
  <2>10. CASE WriteUnlock(t)
    <3>1. At' = [At EXCEPT ![t] = "out"] /\ At[t] = "writing"
      BY <2>2, <2>10, AtMoves DEF WriteUnlock, Place
    <3>2. Abstract!Leave(t)
      BY <2>10, <3>1 DEF WriteUnlock, Abstract!Leave
    <3> QED  BY <3>2 DEF Abstract!Next
  <2> QED
    BY <2>1, <2>3, <2>4, <2>5, <2>6, <2>7, <2>8, <2>9, <2>10 DEF Continue
<1> QED  BY <1>1, <1>2

\* The lock implements the promise of a phase-fair lock: besides writers
\* being alone, no reader waits for more than one writer.
THEOREM LockIsPhaseFair == Spec => PhaseFair
<1>1. Init => Abstract!Init
  BY AbstractInit
<1>2. IInv /\ IInv' /\ [Next]_vars => [Abstract!Next]_(Abstract!vars)
  BY AbstractStep
<1> QED
  BY <1>1, <1>2, LockInvariant, PTL DEF Spec, PhaseFair, Abstract!Spec
=============================================================================

---------------------------- MODULE PhaseFairLock ----------------------------
(***************************************************************************)
(* The phase-fair reader-writer lock of ten_utils: writers take turns by   *)
(* ticket, readers and writers take turns by phase.  Each action is one    *)
(* atomic operation of the code; a spinning thread is one whose action is  *)
(* not enabled.                                                            *)
(*                                                                         *)
(* A word of the read side is split as the code splits it: the number of   *)
(* readers, in the upper bits, and the writer bits.  The counters wrap     *)
(* around.  A local variable of the code is zero when it is not in use.    *)
(*                                                                         *)
(* The definitions named Bad... are not part of the specification: each is *)
(* a definition that follows with a plausible bug in it.                   *)
(***************************************************************************)
EXTENDS Integers, Sequences, FiniteSets

CONSTANTS
    Thread,     \* the threads that use the lock
    Readers,    \* readers are counted modulo this (2^60 in the code)
    Tickets     \* tickets are counted modulo this (2^64 in the code)

ASSUME WidthAssumption ==
    /\ Readers \in Nat \ {0}
    /\ Tickets \in Nat \ {0}
    /\ Tickets % 2 = 0

\* "The maximum number of readers is 2^60 - 1": those that may be inside
\* while a thread wants to write.
ASSUME ThreadAssumption ==
    /\ IsFiniteSet(Thread)
    /\ Cardinality(Thread) <= Readers
    /\ Cardinality(Thread) <= Tickets

VARIABLES
    rdIn,       \* readers that came, and the writer bits
    rdOut,      \* readers that left
    wrIn,       \* the next ticket to give to a writer
    wrOut,      \* the ticket whose turn it is
    pc,         \* pc[t]: what t does next
    seen,       \* seen[t]: the writer bits t found, as a reader
    ticket,     \* ticket[t]: the ticket of t, as a writer
    flushAt,    \* flushAt[t]: the word t waits for, as a writer
    line,       \* history: the writers with a ticket, in the order they came
    overtaken   \* history: readers that have waited for one writer to enter

rdVars == <<rdIn, rdOut>>
wrVars == <<wrIn, wrOut, line>>
localVars == <<seen, ticket, flushAt>>
vars == <<rdVars, wrVars, pc, localVars, overtaken>>

PRES == 2           \* a writer is present
WBITS == 0 .. 3     \* the writer bits: presence, and the phase
Word == [count : 0 .. Readers - 1, bits : WBITS]
Zero == [count |-> 0, bits |-> 0]

\* Addition of one to a counter with n values.
Inc(x, n) == IF x = n - 1 THEN 0 ELSE x + 1

\* idle, then for a reader: wait (unless no writer is present), read; and for
\* a writer: turn (spin for its ticket), announce, flush (spin for the readers
\* that came before), write, next (let the next writer go on).
ReaderPlaces == {"wait", "read"}
OwnerPlaces == {"announce", "flush", "write", "next"}
WriterPlaces == {"turn"} \cup OwnerPlaces
Places == {"idle"} \cup ReaderPlaces \cup WriterPlaces

In(places) == {t \in Thread : pc[t] \in places}

Go(t, place) == pc' = [pc EXCEPT ![t] = place]

Init ==
    /\ rdIn = Zero
    /\ rdOut = Zero
    /\ wrIn = 0
    /\ wrOut = 0
    /\ pc = [t \in Thread |-> "idle"]
    /\ seen = [t \in Thread |-> 0]
    /\ ticket = [t \in Thread |-> 0]
    /\ flushAt = [t \in Thread |-> Zero]
    /\ line = <<>>
    /\ overtaken = {}

-----------------------------------------------------------------------------
\* Readers.

\* lock: count in, and find out whether a writer is present.
ReadLock(t) ==
    /\ pc[t] = "idle"
    /\ rdIn' = [rdIn EXCEPT !.count = Inc(@, Readers)]
    /\ seen' = [seen EXCEPT ![t] = rdIn.bits]
    /\ Go(t, IF rdIn.bits = 0 THEN "read" ELSE "wait")
    /\ UNCHANGED <<rdOut, wrVars, ticket, flushAt, overtaken>>

\* The reader waits for the next phase to begin, not for this one to end.
BadReadWait(t) ==
    /\ pc[t] = "wait"
    /\ rdIn.bits \notin {0, seen[t]}
    /\ Go(t, "read")
    /\ seen' = [seen EXCEPT ![t] = 0]
    /\ overtaken' = overtaken \ {t}
    /\ UNCHANGED <<rdVars, wrVars, ticket, flushAt>>

\* lock: the write phase that was found has ended.
ReadWait(t) ==
    /\ pc[t] = "wait"
    /\ rdIn.bits # seen[t]
    /\ Go(t, "read")
    /\ seen' = [seen EXCEPT ![t] = 0]
    /\ overtaken' = overtaken \ {t}
    /\ UNCHANGED <<rdVars, wrVars, ticket, flushAt>>

ReadUnlock(t) ==
    /\ pc[t] = "read"
    /\ rdOut' = [rdOut EXCEPT !.count = Inc(@, Readers)]
    /\ Go(t, "idle")
    /\ UNCHANGED <<rdIn, wrVars, localVars, overtaken>>

-----------------------------------------------------------------------------
\* Writers.

WriteLock(t) ==
    /\ pc[t] = "idle"
    /\ wrIn' = Inc(wrIn, Tickets)
    /\ ticket' = [ticket EXCEPT ![t] = wrIn]
    /\ line' = Append(line, t)
    /\ Go(t, "turn")
    /\ UNCHANGED <<rdVars, wrOut, seen, flushAt, overtaken>>

\* A writer does not wait for its turn.
BadWriteTurn(t) ==
    /\ pc[t] = "turn"
    /\ Go(t, "announce")
    /\ UNCHANGED <<rdVars, wrVars, localVars, overtaken>>

WriteTurn(t) ==
    /\ pc[t] = "turn"
    /\ wrOut = ticket[t]
    /\ Go(t, "announce")
    /\ UNCHANGED <<rdVars, wrVars, localVars, overtaken>>

\* The bits by which t is recognised: consecutive writers have different ones.
Phase(t) == PRES + (ticket[t] % 2)

\* The writer notes the readers that left, not those that came.
BadWriteAnnounce(t) ==
    /\ pc[t] = "announce"
    /\ rdIn' = [rdIn EXCEPT !.bits = @ + Phase(t)]
    /\ flushAt' = [flushAt EXCEPT ![t] = rdOut]
    /\ Go(t, "flush")
    /\ UNCHANGED <<rdOut, wrVars, seen, ticket, overtaken>>

\* Tell the readers, and note which of them were there before.
WriteAnnounce(t) ==
    /\ pc[t] = "announce"
    /\ rdIn' = [rdIn EXCEPT !.bits = @ + Phase(t)]
    /\ flushAt' = [flushAt EXCEPT ![t] = rdIn]
    /\ Go(t, "flush")
    /\ UNCHANGED <<rdOut, wrVars, seen, ticket, overtaken>>

\* The writer does not wait for the readers that are inside.
BadWriteFlush(t) ==
    /\ pc[t] = "flush"
    /\ Go(t, "write")
    /\ flushAt' = [flushAt EXCEPT ![t] = Zero]
    /\ overtaken' = overtaken \cup In({"wait"})
    /\ UNCHANGED <<rdVars, wrVars, seen, ticket>>

WriteFlush(t) ==
    /\ pc[t] = "flush"
    /\ rdOut = flushAt[t]
    /\ Go(t, "write")
    /\ flushAt' = [flushAt EXCEPT ![t] = Zero]
    /\ overtaken' = overtaken \cup In({"wait"})
    /\ UNCHANGED <<rdVars, wrVars, seen, ticket>>

\* unlock: end the write phase.
WriteUnlock(t) ==
    /\ pc[t] = "write"
    /\ rdIn' = [rdIn EXCEPT !.bits = 0]
    /\ Go(t, "next")
    /\ UNCHANGED <<rdOut, wrVars, localVars, overtaken>>

\* unlock: let the next writer go on.
WriteNext(t) ==
    /\ pc[t] = "next"
    /\ wrOut' = Inc(wrOut, Tickets)
    /\ line' = Tail(line)
    /\ ticket' = [ticket EXCEPT ![t] = 0]
    /\ Go(t, "idle")
    /\ UNCHANGED <<rdVars, wrIn, seen, flushAt, overtaken>>

-----------------------------------------------------------------------------
\* What a thread does once it has begun to lock.
Continue(t) ==
    \/ ReadWait(t)
    \/ ReadUnlock(t)
    \/ WriteTurn(t)
    \/ WriteAnnounce(t)
    \/ WriteFlush(t)
    \/ WriteUnlock(t)
    \/ WriteNext(t)

Next == \E t \in Thread : ReadLock(t) \/ WriteLock(t) \/ Continue(t)

Spec == Init /\ [][Next]_vars

\* A thread that has begun goes on: a spinning thread yields, and user code
\* leaves its section.  Nobody has to come again.
FairSpec == Spec /\ \A t \in Thread : WF_vars(Continue(t))

-----------------------------------------------------------------------------
\* The state is well formed: in particular the two writer bits never
\* overflow into the reader count, though they are added and not set.
TypeOK ==
    /\ rdIn \in Word
    /\ rdOut \in Word
    /\ {wrIn, wrOut} \subseteq 0 .. Tickets - 1
    /\ pc \in [Thread -> Places]
    /\ seen \in [Thread -> WBITS]
    /\ ticket \in [Thread -> 0 .. Tickets - 1]
    /\ flushAt \in [Thread -> Word]
    /\ line \in Seq(Thread)
    /\ overtaken \subseteq Thread

\* A thread inside the lock as a writer is there alone
\* (what ten_rwlock_test.cc counts on, in any interleaving and across the
\* wrap-around of both counters).
MutualExclusion ==
    \A t \in In({"write"}) : In({"write", "read"}) = {t}

\* Writers enter in the order in which they took their tickets.
WritersInOrder ==
    \A t \in Thread : pc[t] \in OwnerPlaces => line # <<>> /\ t = Head(line)

Place(p) ==
    CASE p \in {"idle", "next"} -> "out"
      [] p = "wait" -> "wantRead"
      [] p = "read" -> "reading"
      [] p \in {"turn", "announce", "flush"} -> "wantWrite"
      [] p = "write" -> "writing"

At == [t \in Thread |-> Place(pc[t])]

Abstract == INSTANCE RWLock WITH at <- At

\* The lock keeps the promise of a phase-fair lock: no reader waits for more
\* than one writer (rwlock.c's wait for "current write phase" only).
PhaseFair == Abstract!Spec

\* Every thread that wants in gets in.
EveryoneEnters ==
    \A t \in Thread :
        /\ pc[t] = "wait" ~> pc[t] = "read"
        /\ pc[t] = "turn" ~> pc[t] = "write"
=============================================================================

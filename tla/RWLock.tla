------------------------------- MODULE RWLock -------------------------------
(***************************************************************************)
(* What a phase-fair reader-writer lock promises the threads that use it:  *)
(* a writer is alone, and no reader has to wait while one writer after     *)
(* another goes first.                                                     *)
(***************************************************************************)
CONSTANT Thread

VARIABLES
    at,         \* at[t]: where t is with respect to the lock
    overtaken   \* waiting readers that one writer has entered before

vars == <<at, overtaken>>

Places == {"out", "wantRead", "wantWrite", "reading", "writing"}

At(p) == {t \in Thread : at[t] = p}

Init ==
    /\ at = [t \in Thread |-> "out"]
    /\ overtaken = {}

Want(t) ==
    /\ at[t] = "out"
    /\ \E p \in {"wantRead", "wantWrite"} : at' = [at EXCEPT ![t] = p]
    /\ UNCHANGED overtaken

\* A reader that finds no writer need not wait first.
EnterRead(t) ==
    /\ at[t] \in {"out", "wantRead"}
    /\ At("writing") = {}
    /\ at' = [at EXCEPT ![t] = "reading"]
    /\ overtaken' = overtaken \ {t}

EnterWrite(t) ==
    /\ at[t] = "wantWrite"
    /\ At("reading") \cup At("writing") = {}
    /\ overtaken = {}
    /\ at' = [at EXCEPT ![t] = "writing"]
    /\ overtaken' = At("wantRead")

Leave(t) ==
    /\ at[t] \in {"reading", "writing"}
    /\ at' = [at EXCEPT ![t] = "out"]
    /\ UNCHANGED overtaken

Next == \E t \in Thread : Want(t) \/ EnterRead(t) \/ EnterWrite(t) \/ Leave(t)

Spec == Init /\ [][Next]_vars
=============================================================================

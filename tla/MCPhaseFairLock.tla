--------------------------- MODULE MCPhaseFairLock ---------------------------
(***************************************************************************)
(* Four threads and counters just wide enough for them.                    *)
(***************************************************************************)
EXTENDS PhaseFairLock

CONSTANTS t1, t2, t3, t4
=============================================================================

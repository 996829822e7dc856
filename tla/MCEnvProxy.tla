----------------------------- MODULE MCEnvProxy -----------------------------
(***************************************************************************)
(* A few threads and proxies for the module EnvProxy.                      *)
(***************************************************************************)
EXTENDS EnvProxy

CONSTANTS t1, t2, t3, p1, p2

\* t1 and t2 share a proxy, t3 has one of its own.
TwoShare == [o \in {t1, t2, t3} |-> IF o = t3 THEN p2 ELSE p1]
OneEach == [o \in {t1, t2} |-> IF o = t1 THEN p1 ELSE p2]
=============================================================================

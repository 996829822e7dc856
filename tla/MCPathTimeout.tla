--------------------------- MODULE MCPathTimeout ---------------------------
(***************************************************************************)
(* Small settings for the module PathTimeout.                              *)
(***************************************************************************)
EXTENDS PathTimeout

\* An unusable timeout, short ones, and one that with the interval and the
\* clock is more than the type can hold.
FewSettings == {-1, 1, 2, 6}
=============================================================================

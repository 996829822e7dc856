---------------------------- MODULE MCLifecycle ----------------------------
(***************************************************************************)
(* Small graphs for the module Lifecycle.                                  *)
(***************************************************************************)
EXTENDS Lifecycle

CONSTANTS extA, extB, extC, groupS, groupT

\* extA and extB in one group and extC in another, and one group each.
TwoAndOne == [e \in {extA, extB, extC} |-> IF e = extC THEN groupT ELSE groupS]
OneEach == [e \in {extA, extB} |-> IF e = extB THEN groupT ELSE groupS]
=============================================================================

----------------------------- MODULE MCCmdFlow -----------------------------
(***************************************************************************)
(* Small graphs for the module CmdFlow.                                    *)
(***************************************************************************)
EXTENDS CmdFlow

CONSTANTS extA, extB, extC

Fan3 == {extA, extB, extC}

\* extA and extB send to each other and to extC.
CrossRoute == [e \in Fan3 |-> IF e = extA THEN <<extB, extC>>
                              ELSE IF e = extB THEN <<extA, extC>> ELSE <<>>]

\* extA sends to extB, extB to extC.
ChainRoute == [e \in Fan3 |-> IF e = extA THEN <<extB>>
                              ELSE IF e = extB THEN <<extC>> ELSE <<>>]

\* extA sends to extB and extC, and those to each other.
FanLoopRoute == [e \in Fan3 |-> IF e = extA THEN <<extB, extC>>
                                ELSE IF e = extB THEN <<extC>> ELSE <<extB>>]

\* extA sends to extB.
Pair == {extA, extB}
PairRoute == [e \in Pair |-> IF e = extA THEN <<extB>> ELSE <<>>]

\* extA and extB send to each other.
PairLoopRoute == [e \in Pair |-> IF e = extA THEN <<extB>> ELSE <<extA>>]

\* Every extension has a thread of its own, or two share one.
Alone3 == [e \in Fan3 |-> e]
Alone2 == [e \in Pair |-> e]
Mixed3 == [e \in Fan3 |-> IF e = extC THEN extC ELSE extA]
Shared2 == [e \in Pair |-> extA]

FirstOk3 == [e \in Fan3 |-> "first_error_or_first_ok"]
LastOk3 == [e \in Fan3 |-> "first_error_or_last_ok"]
LastAndEach == [e \in Fan3 |-> IF e = extA THEN "first_error_or_last_ok"
                                            ELSE "each_ok_and_error"]
LastOk2 == [e \in Pair |-> "first_error_or_last_ok"]

Served == {"starting", "running", "stopping"}
=============================================================================

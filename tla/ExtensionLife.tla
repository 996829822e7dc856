--------------------------- MODULE ExtensionLife ---------------------------
(***************************************************************************)
(* What one extension may rely on: which of its callbacks the runtime      *)
(* calls, and in which order.  This is the stage transition graph of the   *)
(* extensions as the code keeps it: an extension may be told to stop       *)
(* before it was configured, and a stage that was left never comes back.   *)
(***************************************************************************)

VARIABLE stage      \* the last callback called, or "new", or "destroyed"

Stages == {"new", "on_configure", "on_init", "on_start", "on_stop",
           "on_deinit", "destroyed"}

LifeInit == stage = "new"

\* Upwards, one stage after the other.
Rise == \/ stage = "new"          /\ stage' = "on_configure"
        \/ stage = "on_configure" /\ stage' = "on_init"
        \/ stage = "on_init"      /\ stage' = "on_start"

\* From anywhere on the way up, down and out.
Fall == \/ /\ stage \in {"new", "on_configure", "on_init", "on_start"}
           /\ stage' = "on_stop"
        \/ stage = "on_stop"      /\ stage' = "on_deinit"
        \/ stage = "on_deinit"    /\ stage' = "destroyed"

LifeNext == Rise \/ Fall

LifeSpec == LifeInit /\ [][LifeNext]_stage
=============================================================================

--------------------------- MODULE MCConfigReload ---------------------------
(* Constant values for checking ConfigReload.                              *)
EXTENDS ConfigReload

CONSTANTS hA, hBad, c1

\* Nothing set, everything set: the first host then is the environment's.
EmptyOrFull == {[hosts |-> {}, coolify |-> {}, auth |-> FALSE],
                [hosts |-> {hA}, coolify |-> {c1}, auth |-> TRUE]}
=============================================================================

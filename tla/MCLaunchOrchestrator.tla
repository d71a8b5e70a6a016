------------------------- MODULE MCLaunchOrchestrator -------------------------
(* Small instances of LaunchOrchestrator. *)
EXTENDS LaunchOrchestrator

CONSTANTS i1, i2, t1

MCInstances   == {i1, i2}
MCPreexisting == {i2}
MCTokens      == {t1}

\* No retry at all, one retry, and a maximum that is not a power of two.
MCRetryBounds == {<<1, 1>>, <<1, 2>>, <<2, 7>>}
=============================================================================

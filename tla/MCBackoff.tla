------------------------------- MODULE MCBackoff -------------------------------
(***************************************************************************)
(* Both backoffs for every pair of bounds of a small width, retry after    *)
(* retry, against their closed forms.                                      *)
(***************************************************************************)
EXTENDS Backoff

CONSTANT Jitter   \* percent

ASSUME JitterAssumption == Jitter \in 0 .. 100

VARIABLES minimum, maximum, retry

\* The configurations that Run and validate accept, and a first retry.
Init == /\ minimum \in Durations
        /\ maximum \in Durations
        /\ minimum <= maximum
        /\ retry = 0

\* Bound: two more retries than the width has bits.
Next == /\ retry < Width + 2
        /\ retry' = retry + 1
        /\ UNCHANGED <<minimum, maximum>>

Spec == Init /\ [][Next]_<<minimum, maximum, retry>>

-----------------------------------------------------------------------------
Least(a, b) == IF a < b THEN a ELSE b

(* launch.go, backoff: the delay doubles with every retry and stops at the *)
(* maximum; the budget is finite, spent for good once it is spent, and the *)
(* delays slept before add up to less than twice the maximum.              *)
LaunchDoubles ==
    LET slept == {r \in 0 .. retry : ~LaunchBudgetSpent(minimum, maximum, r)}
    IN  /\ LaunchBackoff(minimum, maximum, retry) = Least(maximum, minimum * 2 ^ retry)
        /\ \A r \in slept : 0 .. r \subseteq slept
        /\ retry >= Width => retry \notin slept
        /\ \A r \in slept : minimum * (2 ^ (r + 1) - 1) < 2 * maximum

(* capacity.go, backoff: the first delay is the minimum, each next one is  *)
(* twice as long, and no jitter exceeds the maximum.  A delay is off its   *)
(* nominal value by more than the jitter only if the longest jittered one  *)
(* does not fit into a duration: then it may be negative, which is no wait *)
(* at all.  retry_max has no upper limit that excludes it.                 *)
WatchDoubles ==
    retry > 0 =>
        LET nominal == Least(maximum, minimum * 2 ^ (retry - 1))
        IN  /\ WatchDelay(minimum, maximum, retry) = nominal
            /\ \A d \in Jittered(WatchDelay(minimum, maximum, retry), maximum, Jitter) :
                  /\ d <= maximum
                  /\ \/ /\ 100 * (d + 1) > nominal * (100 - Jitter)
                        /\ 100 * d <= nominal * (100 + Jitter)
                     \/ /\ d < 0
                        /\ nominal * (100 + Jitter) >= 100 * (MaxDuration + 1)

(* README, "exponential backoff from retry_min through retry_max": both    *)
(* backoffs double between their bounds, whatever the width of a duration, *)
(* except where the jitter of the watch leaves the range of a duration.    *)
BackoffsDouble == LaunchDoubles /\ WatchDoubles
=============================================================================

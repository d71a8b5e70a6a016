-------------------------------- MODULE Backoff --------------------------------
(***************************************************************************)
(* The two exponential backoffs of OCIHood as pure functions: the launch   *)
(* orchestrator's (internal/launch/launch.go, backoff) and the capacity    *)
(* watcher's (internal/capacity/capacity.go, backoff).  A duration is a    *)
(* signed integer of Width bits, 64 in Go: doubling one wraps around, and  *)
(* the product with a jitter may not fit.                                  *)
(***************************************************************************)
EXTENDS Integers

CONSTANT Width

ASSUME BackoffAssumption == Width \in Nat \ {0, 1}

MaxDuration == 2 ^ (Width - 1) - 1
Durations   == 1 .. MaxDuration

Wrap(x) == ((x + 2 ^ (Width - 1)) % 2 ^ Width) - 2 ^ (Width - 1)
Double(d) == Wrap(2 * d)

-----------------------------------------------------------------------------
(* The launch: d after `retry` turns of the loop, which ends at the maximum. *)

\* Faulty: doubles without looking at half the maximum.
LaunchBackoff_NoHalf(minimum, maximum, retry) ==
    LET turn[i \in 0 .. retry] ==
            IF i = 0 THEN minimum
            ELSE LET d == turn[i - 1] IN IF d < maximum THEN Double(d) ELSE d
    IN  IF turn[retry] > maximum THEN maximum ELSE turn[retry]

LaunchBackoff(minimum, maximum, retry) ==
    LET turn[i \in 0 .. retry] ==
            IF i = 0 THEN minimum
            ELSE LET d == turn[i - 1]
                 IN  IF d >= maximum THEN d
                     ELSE IF d > maximum \div 2 THEN maximum ELSE Double(d)
    IN  IF turn[retry] > maximum THEN maximum ELSE turn[retry]

\* Faulty: waits for a delay beyond the maximum, which never comes.
LaunchBudgetSpent_Beyond(minimum, maximum, retry) ==
    LaunchBackoff(minimum, maximum, retry) > maximum

\* A retry whose delay would be the maximum is not made: the budget is spent.
LaunchBudgetSpent(minimum, maximum, retry) ==
    LaunchBackoff(minimum, maximum, retry) = maximum

-----------------------------------------------------------------------------
(* The watcher: the same doubling, from the first failed rotation on, with  *)
(* a jitter of Jitter percent (20 in cmd/ocihood).                          *)

WatchDelay(initial, maximum, retry) ==
    LET turn[i \in 1 .. retry] ==
            IF i = 1 THEN initial
            ELSE LET d == turn[i - 1]
                 IN  IF d >= maximum THEN d
                     ELSE IF d > maximum \div 2 THEN maximum ELSE Double(d)
    IN  turn[retry]

\* A float becomes a duration.  One that no duration can hold becomes the
\* least of all on amd64, and the greatest on arm64.  That a float has only 53
\* bits, which shifts a delay of many years by a microsecond, is left out.
Converted(x) == IF x <= MaxDuration THEN {x} ELSE {-MaxDuration - 1, MaxDuration}

Jittered(delay, maximum, jitter) ==
    {IF d > maximum THEN maximum ELSE d :
        d \in UNION {Converted(x) :
            x \in (delay * (100 - jitter)) \div 100 .. (delay * (100 + jitter)) \div 100}}
=============================================================================

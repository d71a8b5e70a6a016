------------------------------- MODULE Circuit -------------------------------
(***************************************************************************)
(* The circuit breaker around the calls of one operation family            *)
(* (internal/breaker/breaker.go) and the way capacity probes use it        *)
(* (internal/capacity/breaker.go).  The automaton itself belongs to        *)
(* sony/gobreaker; breaker.go configures it and marks the outcomes.        *)
(*                                                                         *)
(* A circuit is a record; `left` is the time until its state expires: the  *)
(* end of the counting interval when closed, the first trial when open.    *)
(***************************************************************************)
EXTENDS Integers

CONSTANTS Failures, HalfOpenRequests,   \* breaker.Config
          Interval, OpenTimeout,
          ExclusionReleases  \* BOOLEAN: an excluded outcome gives back its place
                             \* among the half-open requests (gobreaker's choice)

ASSUME CircuitAssumption ==
    /\ Failures \in 1 .. 100
    /\ HalfOpenRequests \in 1 .. 10
    /\ Interval \in Nat \ {0}
    /\ OpenTimeout \in Nat \ {0}
    /\ ExclusionReleases \in BOOLEAN

Circuits == [state : {"closed", "open", "half-open"}, failures : 0 .. Failures,
             admitted : 0 .. HalfOpenRequests, successes : 0 .. HalfOpenRequests - 1,
             left : Nat]

InState(state, left) == [state |-> state, failures |-> 0, admitted |-> 0,
                         successes |-> 0, left |-> left]

NewCircuit == InState("closed", Interval)
Opened     == InState("open", OpenTimeout)

-----------------------------------------------------------------------------
(* What the provider answers to a probe, as far as it is told apart, what  *)
(* the adapter makes of it (ocicapacity: Probe and classify) and whether   *)
(* the breaker counts it (BreakerClient.Probe).                            *)

Responses == {"AVAILABLE", "OUT_OF_HOST_CAPACITY", "unsupported",
              "429", "403 or 404", "5xx", "other 4xx", "no answer"}

Kind(r) == CASE r = "AVAILABLE" -> "available"
             [] r = "OUT_OF_HOST_CAPACITY" -> "unavailable"
             [] r \in {"unsupported", "403 or 404"} -> "probe_unavailable"
             [] r = "429" -> "throttled"
             [] r \in {"5xx", "no answer"} -> "transient"
             [] r = "other 4xx" -> "fatal"

\* Faulty: a probe that finds no capacity counts as a failure.
Outcome_NoCapacityFails(kind) ==
    CASE kind \in {"transient", "throttled", "unavailable"} -> "failure"
      [] kind \in {"probe_unavailable", "fatal"} -> "excluded"
      [] kind = "available" -> "success"

Outcome(kind) ==
    CASE kind \in {"transient", "throttled"} -> "failure"
      [] kind \in {"unavailable", "probe_unavailable", "fatal"} -> "excluded"
      [] kind = "available" -> "success"

-----------------------------------------------------------------------------
(* Circuit.Do                                                              *)

\* Faulty: the circuit opens one failure too late.
ReadyToTrip_Beyond(failures) == failures > Failures

ReadyToTrip(failures) == failures >= Failures

\* The circuit as a request finds it: expired counts and timeouts have gone.
Current(c) == CASE c.state = "closed" /\ c.left = 0 -> NewCircuit
                [] c.state = "open" /\ c.left = 0 -> InState("half-open", 0)
                [] OTHER -> c

\* Otherwise the answer is an OpenError and nothing is sent.
Admits(c) == LET d == Current(c)
             IN  \/ d.state = "closed"
                 \/ d.state = "half-open" /\ d.admitted < HalfOpenRequests

Failed(d) ==
    IF d.state = "half-open" \/ ReadyToTrip(d.failures + 1) THEN Opened
    ELSE [d EXCEPT !.failures = @ + 1]

Succeeded(d) ==
    CASE d.state = "closed" -> [d EXCEPT !.failures = 0]
      [] d.successes + 1 = HalfOpenRequests -> NewCircuit
      [] OTHER -> [d EXCEPT !.successes = @ + 1, !.admitted = @ + 1]

Excluded(d) ==
    IF d.state = "half-open" /\ ~ExclusionReleases THEN [d EXCEPT !.admitted = @ + 1]
    ELSE d

\* An answer that arrives after the counting interval has ended is dropped.
After(c, outcome) ==
    LET d == Current(c)
    IN  {CASE outcome = "failure" -> Failed(d)
           [] outcome = "success" -> Succeeded(d)
           [] outcome = "excluded" -> Excluded(d)}
        \cup IF d.state = "closed" /\ d.left = 1 THEN {NewCircuit} ELSE {}

Elapsed(c) == [c EXCEPT !.left = IF @ > 0 THEN @ - 1 ELSE 0]
=============================================================================

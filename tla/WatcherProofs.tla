----------------------------- MODULE WatcherProofs -----------------------------
(***************************************************************************)
(* The capacity watch for any domains, lists of domains, delays and        *)
(* breaker settings: typing, --once comes to every domain once and never   *)
(* waits, a restart honours the persisted delay, and the circuit refuses   *)
(* only after a recent failure and lets few failures through.              *)
(***************************************************************************)
EXTENDS CapacityWatcher, OperatorLemmas

(***************************************************************************)
(* The circuit.                                                            *)
(***************************************************************************)

LEMMA CircuitConstants ==
    /\ Failures \in Nat \ {0} /\ HalfOpenRequests \in Nat \ {0}
    /\ Interval \in Nat \ {0} /\ OpenTimeout \in Nat \ {0}
    /\ ExclusionReleases \in BOOLEAN
BY CircuitAssumption

LEMMA InStateTyped ==
    ASSUME NEW state \in {"closed", "open", "half-open"}, NEW left \in Nat
    PROVE  /\ InState(state, left) \in Circuits
           /\ InState(state, left).state = state
           /\ InState(state, left).left = left
           /\ InState(state, left).failures = 0
           /\ InState(state, left).admitted = 0
           /\ InState(state, left).successes = 0
BY CircuitConstants DEF InState, Circuits

\* With ExclusionReleases only successes keep their place.
Counting(c) == ExclusionReleases /\ c.state = "half-open" => c.admitted = c.successes

LEMMA CurrentTyped ==
    ASSUME NEW c \in Circuits
    PROVE  /\ Current(c) \in Circuits
           /\ Counting(c) => Counting(Current(c))
<1>1. CASE c.state = "closed" /\ c.left = 0
  BY <1>1, InStateTyped, CircuitConstants DEF Current, NewCircuit, Counting
<1>2. CASE c.state = "open" /\ c.left = 0
  BY <1>2, InStateTyped DEF Current, Counting
<1>3. CASE ~(c.state = "closed" /\ c.left = 0) /\ ~(c.state = "open" /\ c.left = 0)
  BY <1>3 DEF Current
<1> QED BY <1>1, <1>2, <1>3

(* What an admitted answer makes of a circuit: it opens only on a failure,  *)
(* and then for the whole of OpenTimeout.                                   *)
LEMMA AfterFacts ==
    ASSUME NEW c \in Circuits, Admits(c),
           NEW outcome \in {"failure", "success", "excluded"},
           NEW e \in After(c, outcome)
    PROVE  /\ e \in Circuits
           /\ e.state = "open" => outcome = "failure" /\ e.left = OpenTimeout
           /\ Counting(c) => Counting(e)
<1> DEFINE d == Current(c)
<1>1. /\ d \in Circuits
      /\ \/ d.state = "closed"
         \/ d.state = "half-open" /\ d.admitted < HalfOpenRequests
      /\ Counting(c) => Counting(d)
  <2>1. \/ d.state = "closed"
        \/ d.state = "half-open" /\ d.admitted < HalfOpenRequests
    BY DEF Admits
  <2>2. d \in Circuits /\ (Counting(c) => Counting(d))
    BY CurrentTyped, Zenon
  <2> QED BY <2>1, <2>2, Zenon
<1>2. \/ e = NewCircuit
      \/ outcome = "failure" /\ e = Failed(d)
      \/ outcome = "success" /\ e = Succeeded(d)
      \/ outcome = "excluded" /\ e = Excluded(d)
  BY DEF After
<1> HIDE DEF d
<1>3. CASE e = NewCircuit
  BY <1>3, InStateTyped, CircuitConstants DEF NewCircuit, Counting
<1>4. CASE outcome = "failure" /\ e = Failed(d)
  <2>1. CASE e = Opened
    BY <1>4, <2>1, InStateTyped, CircuitConstants DEF Opened, Counting
  <2>2. CASE /\ d.state # "half-open" /\ ~ReadyToTrip(d.failures + 1)
             /\ e = [d EXCEPT !.failures = @ + 1]
    <3>1. d.failures + 1 \in 0 .. Failures
      BY <1>1, <2>2, CircuitConstants, SMT DEF Circuits, ReadyToTrip
    <3> QED BY <1>1, <2>2, <3>1 DEF Circuits, Counting
  <2> QED BY <1>4, <2>1, <2>2 DEF Failed
<1>5. CASE outcome = "success" /\ e = Succeeded(d)
  <2>1. CASE d.state = "closed" /\ e = [d EXCEPT !.failures = 0]
    BY <1>1, <2>1, CircuitConstants DEF Circuits, Counting
  <2>2. CASE /\ d.state = "half-open" /\ d.successes + 1 # HalfOpenRequests
             /\ e = [d EXCEPT !.successes = @ + 1, !.admitted = @ + 1]
    <3>1. /\ d.successes + 1 \in 0 .. HalfOpenRequests - 1
          /\ d.admitted + 1 \in 0 .. HalfOpenRequests
      BY <1>1, <2>2, CircuitConstants, SMT DEF Circuits
    <3>2. e \in Circuits /\ e.state = "half-open"
          /\ e.successes = d.successes + 1 /\ e.admitted = d.admitted + 1
      BY <1>1, <2>2, <3>1 DEF Circuits
    <3> QED BY <1>1, <2>2, <3>2 DEF Counting
  <2> QED BY <1>1, <1>3, <1>5, <2>1, <2>2 DEF Succeeded
<1>6. CASE outcome = "excluded" /\ e = Excluded(d)
  <2>1. CASE /\ d.state = "half-open" /\ ~ExclusionReleases
             /\ e = [d EXCEPT !.admitted = @ + 1]
    <3>1. d.admitted + 1 \in 0 .. HalfOpenRequests
      BY <1>1, <2>1, CircuitConstants, SMT DEF Circuits
    <3> QED BY <1>1, <2>1, <3>1 DEF Circuits, Counting
  <2>2. CASE e = d
    BY <1>1, <2>2
  <2> QED BY <1>6, <2>1, <2>2 DEF Excluded
<1> QED BY <1>2, <1>3, <1>4, <1>5, <1>6

LEMMA ElapsedFacts ==
    ASSUME NEW c \in Circuits
    PROVE  /\ Elapsed(c) \in Circuits
           /\ Elapsed(c).state = c.state
           /\ Elapsed(c).left = IF c.left > 0 THEN c.left - 1 ELSE 0
           /\ Counting(c) => Counting(Elapsed(c))
<1>1. (IF c.left > 0 THEN c.left - 1 ELSE 0) \in Nat
  BY SMT DEF Circuits
<1> QED BY <1>1 DEF Elapsed, Circuits, Counting

-----------------------------------------------------------------------------
(***************************************************************************)
(* Typing.                                                                 *)
(***************************************************************************)

LEMMA ListFacts ==
    ASSUME NEW list \in ADLists
    PROVE  /\ list \in Seq(ADs) /\ Len(list) \in Nat \ {0}
           /\ \A i \in 1 .. Len(list) : list[i] \in ADs
           /\ \A i, j \in 1 .. Len(list) : list[i] = list[j] => i = j
           /\ ToSet(list) = {list[i] : i \in 1 .. Len(list)}
<1>1. list \in Seq(ADs) /\ list # << >>
  BY WatcherAssumption
<1>2. \A i, j \in 1 .. Len(list) : list[i] = list[j] => i = j
  BY WatcherAssumption
<1> QED BY <1>1, <1>2 DEF ToSet

\* The cyclic successor of i among n places, as Following has it.
Cyclic(i, n) == IF i = n THEN 1 ELSE i + 1

LEMMA FollowingFacts ==
    ASSUME NEW n \in Nat \ {0}, NEW i \in 1 .. n
    PROVE  (i % n) + 1 = Cyclic(i, n) /\ Cyclic(i, n) \in 1 .. n
<1>1. CASE i = n
  <2>1. n % n = 0
    BY SMT
  <2> QED BY <1>1, <2>1, SMT DEF Cyclic
<1>2. CASE i < n
  <2>1. i % n = i
    BY <1>2, SMT
  <2> QED BY <1>2, <2>1, SMT DEF Cyclic
<1> QED BY <1>1, <1>2, SMT

\* Between runs there is no list; from Start on there is one, with both
\* places in it.
Placed == /\ pc \in PCs /\ once \in BOOLEAN
          /\ pc = "idle" => ads = << >> /\ nextAD = 1 /\ startAD = 1 /\ ~once /\ probed = {}
          /\ pc # "idle" => /\ ads \in ADLists
                            /\ nextAD \in 1 .. Len(ads)
                            /\ startAD \in 1 .. Len(ads)

Typed == /\ Placed
         /\ disk \in Records
         /\ retryCount \in 0 .. MaxRetryCount
         /\ delay \in Nat /\ timer \in Nat
         /\ circuit \in Circuits
         /\ probed \subseteq ADs
         /\ recent \in [Ages -> Nat]

LEMMA TypedIsTypeOK == Typed => TypeOK
BY DEF Typed, Placed, TypeOK

LEMMA Youngest == 0 \in Ages /\ NoFailures \in [Ages -> Nat]
BY CircuitConstants, SMT DEF Ages, NoFailures

LEMMA NoCircuitFacts == NoCircuit \in Circuits /\ NoCircuit.state = "closed"
BY InStateTyped DEF NoCircuit

LEMMA NewCircuitFacts == NewCircuit \in Circuits /\ NewCircuit.state = "closed"
BY InStateTyped, CircuitConstants DEF NewCircuit

LEMMA TypedInit == Init => Typed
<1> SUFFICES ASSUME Init PROVE Typed
  OBVIOUS
<1>1. disk \in Records
  BY WatcherAssumption DEF Init, Records
<1>2. Placed
  BY DEF Init, Placed, PCs
<1>3. retryCount \in 0 .. MaxRetryCount /\ delay \in Nat /\ timer \in Nat /\ probed \subseteq ADs
  BY WatcherAssumption, SMT DEF Init
<1>4. circuit \in Circuits /\ recent \in [Ages -> Nat]
  BY Youngest, NoCircuitFacts DEF Init
<1> QED
  BY <1>1, <1>2, <1>3, <1>4 DEF Typed

(* The domain a probe asks about, and the place it goes on to. *)
LEMMA ProbedDomain ==
    ASSUME Typed, pc # "idle"
    PROVE  /\ AD \in ADs
           /\ Following(nextAD) = Cyclic(nextAD, Len(ads))
           /\ Following(nextAD) \in 1 .. Len(ads)
<1>1. ads \in ADLists /\ nextAD \in 1 .. Len(ads)
  BY DEF Typed, Placed
<1>2. Len(ads) \in Nat \ {0} /\ ads[nextAD] \in ADs
  BY <1>1, ListFacts
<1> QED BY <1>1, <1>2, FollowingFacts DEF AD, Following

LEMMA ResumeIndexFacts ==
    ASSUME Typed, pc # "idle", NEW ad
    PROVE  ResumeIndex(ads, ad) \in 1 .. Len(ads)
<1>1. ads \in ADLists /\ Len(ads) \in Nat \ {0}
  BY ListFacts DEF Typed, Placed
<1>2. CASE \E i \in 1 .. Len(ads) : ads[i] = ad
  <2> DEFINE j == CHOOSE i \in 1 .. Len(ads) : ads[i] = ad
  <2>1. j \in 1 .. Len(ads)
    BY <1>2
  <2> HIDE DEF j
  <2>2. Following(j) \in 1 .. Len(ads)
    BY <1>1, <2>1, FollowingFacts DEF Following
  <2> QED BY <1>2, <2>2 DEF ResumeIndex, j
<1>3. CASE ~ \E i \in 1 .. Len(ads) : ads[i] = ad
  BY <1>1, <1>3, SMT DEF ResumeIndex
<1> QED BY <1>2, <1>3

(* What the answer to a probe does to the circuit and to its history. *)
LEMMA AsksFacts ==
    ASSUME Typed, NEW guided, Asks(guided) \/ Refused(guided)
    PROVE  /\ circuit' \in Circuits
           /\ recent' \in [Ages -> Nat]
           /\ Counting(circuit) => Counting(circuit')
           /\ \/ circuit' = circuit /\ recent' = recent
              \/ circuit'.state # "open"
              \/ circuit'.left = OpenTimeout /\ recent'[0] > 0
<1>1. CASE Refused(guided)
  BY <1>1 DEF Refused, Typed
<1>2. CASE Asks(guided)
  <2>1. PICK r \in Responses :
          /\ Admits(circuit)
          /\ circuit' \in After(circuit, Outcome(Kind(r)))
          /\ recent' = CASE Kind(r) \in {"throttled", "transient"} -> [recent EXCEPT ![0] = @ + 1]
                         [] Kind(r) = "available" -> NoFailures
                         [] OTHER -> recent
    BY <1>2 DEF Asks
  <2>2. Kind(r) \in {"available", "unavailable", "probe_unavailable", "throttled",
                     "transient", "fatal"}
    BY DEF Responses, Kind
  <2>3. /\ Outcome(Kind(r)) \in {"failure", "success", "excluded"}
        /\ Outcome(Kind(r)) = "failure" => Kind(r) \in {"throttled", "transient"}
    BY <2>2 DEF Outcome
  <2>4. circuit \in Circuits /\ recent \in [Ages -> Nat]
    BY DEF Typed
  <2>5. /\ circuit' \in Circuits
        /\ circuit'.state = "open" =>
              Outcome(Kind(r)) = "failure" /\ circuit'.left = OpenTimeout
        /\ Counting(circuit) => Counting(circuit')
    BY <2>1, <2>3, <2>4, AfterFacts
  <2>6. CASE Kind(r) \in {"throttled", "transient"}
    <3>1. recent' = [recent EXCEPT ![0] = @ + 1]
      BY <2>1, <2>6
    <3>2. recent' \in [Ages -> Nat] /\ recent'[0] > 0
      BY <2>4, <3>1, Youngest, SMT
    <3> QED BY <2>5, <3>2
  <2>7. CASE Kind(r) \notin {"throttled", "transient"}
    <3>1. recent' \in {NoFailures, recent}
      BY <2>1, <2>7
    <3> QED BY <2>3, <2>4, <2>5, <2>7, <3>1, Youngest
  <2> QED BY <2>6, <2>7
<1> QED BY <1>1, <1>2

LEMMA RotatesFacts ==
    ASSUME Typed, NEW guided, Rotates(guided)
    PROVE  /\ pc = "probe" /\ UNCHANGED <<ads, startAD, once>>
           /\ nextAD' = Cyclic(nextAD, Len(ads)) /\ nextAD' \in 1 .. Len(ads)
           /\ AD \in ADs /\ probed' = probed \cup {AD}
           /\ circuit' \in Circuits /\ recent' \in [Ages -> Nat]
<1>1. pc = "probe" /\ nextAD' = Following(nextAD) /\ probed' = probed \cup {AD}
      /\ UNCHANGED <<ads, startAD, once>> /\ (Asks(guided) \/ Refused(guided))
  BY DEF Rotates, Probing
<1> QED BY <1>1, ProbedDomain, AsksFacts

(* The delay that follows a rotation, with its jitter. *)
LEMMA WaitFacts ==
    ASSUME Typed, NEW guided \in Guidance \cup {0}, Wait(guided)
    PROVE  /\ ~once /\ retryCount' \in 1 .. MaxRetryCount
           /\ delay' \in Nat
           /\ disk' = [lastAD |-> AD, retryCount |-> retryCount', left |-> delay']
           /\ pc' = "save" /\ UNCHANGED timer
<1>1. MaxRetryCount \in Nat \ {0} /\ retryCount \in 0 .. MaxRetryCount
  BY WatcherAssumption DEF Typed
<1>2. retryCount' \in 1 .. MaxRetryCount
  BY <1>1, SMT DEF Wait, Counted
<1> DEFINE nominal == WatchDelay(InitialInterval, MaxInterval, retryCount')
<1>3. nominal \in Nat /\ MaxInterval \in Nat
  <2>1. nominal \in 1 .. MaxInterval
    BY <1>1, <1>2, WatchDelayNominal, WatcherAssumption
  <2>2. MaxInterval \in Nat
    BY WatcherAssumption, MaximumType, SMT DEF Durations
  <2> QED BY <2>1, <2>2, SMT
<1> HIDE DEF nominal
<1>4. Jittered(nominal, MaxInterval, Jitter) \subseteq Int
  <2>1. Jitter \in 0 .. 100
    BY WatcherAssumption
  <2>2. (nominal * (100 - Jitter)) \in Nat
    BY <1>3, <2>1, SMT
  <2>3. (nominal * (100 - Jitter)) \div 100 \in Nat
    BY <2>2, SMT
  <2>4. (nominal * (100 + Jitter)) \div 100 \in Int
    BY <1>3, <2>1, SMT
  <2>5. MaxDuration \in Nat
    BY MaximumType
  <2> QED BY <1>3, <2>3, <2>4, <2>5, SMT DEF Jittered, Converted
<1>5. guided \in Nat
  BY WatcherAssumption
<1>6. PICK d \in Jittered(nominal, MaxInterval, Jitter) :
          /\ delay' = IF guided > d THEN guided ELSE d
          /\ Saved(AD, delay')
  BY DEF Wait, nominal
<1>7. delay' \in Nat
  BY <1>4, <1>5, <1>6, SMT
<1> QED BY <1>2, <1>6, <1>7 DEF Wait, Saved, Goto

(* A run that ends leaves nothing behind but the state file. *)
LEMMA ExitTyped ==
    ASSUME Typed, Exit, disk' \in Records
    PROVE  Typed'
<1>1. Placed'
  BY DEF Exit, Goto, Placed, PCs
<1>2. retryCount' = 0 /\ delay' = 0 /\ timer' = 0 /\ probed' = {}
      /\ circuit' = NoCircuit /\ recent' = NoFailures
  BY DEF Exit
<1>3. retryCount' \in 0 .. MaxRetryCount
  BY <1>2, WatcherAssumption, SMT
<1> QED
  BY <1>1, <1>2, <1>3, Youngest, NoCircuitFacts DEF Typed

LEMMA StartTyped == Typed /\ Start => Typed'
<1> SUFFICES ASSUME Typed, Start PROVE Typed'
  OBVIOUS
<1>1. ads' \in ADLists /\ nextAD' = 1 /\ startAD' = 1 /\ pc' = "resume" /\ once' \in BOOLEAN
  BY DEF Start, Goto, Typed, Placed
<1>2. 1 \in 1 .. Len(ads')
  BY <1>1, ListFacts
<1>3. Placed'
  BY <1>1, <1>2 DEF Placed, PCs
<1> QED BY <1>3 DEF Start, Typed

LEMMA ResumeTyped == Typed /\ Resume => Typed'
<1> SUFFICES ASSUME Typed, Resume PROVE Typed'
  OBVIOUS
<1>1. pc = "resume" /\ pc' \in {"sleep", "probe"} /\ timer' \in {timer, disk.left}
      /\ nextAD' = ResumeIndex(ads, disk.lastAD) /\ startAD' = nextAD'
      /\ retryCount' = disk.retryCount /\ circuit' = NewCircuit
      /\ UNCHANGED <<disk, once, ads, delay, probed, recent>>
  BY DEF Resume, Goto
<1>2. nextAD' \in 1 .. Len(ads)
  BY <1>1, ResumeIndexFacts
<1>3. Placed'
  BY <1>1, <1>2 DEF Typed, Placed, PCs
<1>4. disk.left \in Nat /\ disk.retryCount \in 0 .. MaxRetryCount
  BY DEF Typed, Records
<1> QED
  BY <1>1, <1>3, <1>4, NewCircuitFacts DEF Typed

LEMMA ProbeTyped == Typed /\ Probe => Typed'
<1> SUFFICES ASSUME Typed, Probe PROVE Typed'
  OBVIOUS
<1>1. pc = "probe"
  BY DEF Probe, CapacityFound, CapacityFatal, OnceEnds, NextDomain, BackOff, Wait, Rotates,
         Answered, Probing
<1>2. AD \in ADs /\ retryCount \in 0 .. MaxRetryCount
  BY <1>1, ProbedDomain DEF Typed
<1>3. CASE CapacityFound
  <2>1. /\ pc' = "launch" /\ UNCHANGED <<once, ads, nextAD, startAD, retryCount, delay, timer>>
        /\ disk' = [lastAD |-> AD, retryCount |-> retryCount', left |-> 0]
        /\ circuit' = NoCircuit /\ probed' = probed \cup {AD} /\ recent' = NoFailures
    BY <1>3 DEF CapacityFound, Saved, Goto
  <2>2. disk' \in Records
    BY <1>2, <2>1 DEF Records
  <2>3. Placed'
    BY <1>1, <2>1 DEF Typed, Placed, PCs
  <2> QED BY <1>2, <2>1, <2>2, <2>3, Youngest, NoCircuitFacts DEF Typed
<1>4. CASE CapacityFatal \/ OnceEnds
  <2>1. disk' = [lastAD |-> AD, retryCount |-> retryCount, left |-> 0] /\ Exit
    BY <1>4 DEF CapacityFatal, OnceEnds
  <2>2. disk' \in Records
    BY <1>2, <2>1 DEF Records
  <2> QED BY <2>1, <2>2, ExitTyped
<1>5. CASE NextDomain
  <2>1. PICK guided \in Guidance \cup {0} : Rotates(guided)
    BY <1>5 DEF NextDomain
  <2>2. pc' = "probe" /\ UNCHANGED <<disk, retryCount, delay, timer>>
    BY <1>5 DEF NextDomain, Goto
  <2>3. Placed'
    BY <2>1, <2>2, RotatesFacts DEF Typed, Placed, PCs
  <2> QED BY <2>1, <2>2, <2>3, RotatesFacts DEF Typed
<1>6. CASE BackOff
  <2>1. PICK guided \in Guidance \cup {0} : Wait(guided) /\ Rotates(guided)
    BY <1>6 DEF BackOff, Wait
  <2>2. disk' \in Records /\ retryCount' \in 0 .. MaxRetryCount
    <3>1. retryCount' \in 0 .. MaxRetryCount
      <4>1. retryCount' \in 1 .. MaxRetryCount
        BY <2>1, WaitFacts
      <4> QED BY <4>1, WatcherAssumption, SMT
    <3> QED BY <1>2, <2>1, <3>1, WaitFacts DEF Records
  <2>3. Placed'
    BY <2>1, WaitFacts, RotatesFacts DEF Typed, Placed, PCs
  <2> QED BY <2>1, <2>2, <2>3, WaitFacts, RotatesFacts DEF Typed
<1> QED BY <1>3, <1>4, <1>5, <1>6 DEF Probe

LEMMA TickTyped == Typed /\ Tick => Typed'
<1> SUFFICES ASSUME Typed, Tick PROVE Typed'
  OBVIOUS
<1>1. UNCHANGED <<pc, once, ads, nextAD, startAD, retryCount, delay, probed>>
  BY DEF Tick
<1>2. timer' \in Nat
  BY SMT DEF Tick, Typed
<1>3. disk' \in Records
  <2>1. (IF disk.left > 0 THEN disk.left - 1 ELSE 0) \in Nat
    BY SMT DEF Typed, Records
  <2> QED BY <2>1 DEF Tick, Typed, Records
<1>4. circuit' \in Circuits
  BY ElapsedFacts DEF Tick, Typed
<1>5. recent' \in [Ages -> Nat]
  <2>1. \A age \in Ages : age # 0 => age - 1 \in Ages
    BY CircuitConstants, SMT DEF Ages
  <2>2. \A age \in Ages : (IF age = 0 THEN 0 ELSE recent[age - 1]) \in Nat
    BY <2>1 DEF Typed
  <2> QED BY <2>2 DEF Tick
<1> QED BY <1>1, <1>2, <1>3, <1>4, <1>5 DEF Typed, Placed

LEMMA TypedStep == Typed /\ [Next]_vars => Typed'
<1> SUFFICES ASSUME Typed, [Next]_vars PROVE Typed'
  OBVIOUS
<1>1. CASE Start
  BY <1>1, StartTyped
<1>2. CASE Resume
  BY <1>2, ResumeTyped
<1>3. CASE Probe
  BY <1>3, ProbeTyped
<1>4. CASE Sleep
  BY <1>4 DEF Sleep, Goto, Typed, Placed, PCs
<1>5. CASE Wake
  BY <1>5 DEF Wake, Goto, Typed, Placed, PCs
<1>6. CASE LaunchOutOfCapacity
  <2>1. CASE Exit /\ UNCHANGED disk
    BY <2>1, ExitTyped DEF Typed
  <2>2. CASE pc = "launch" /\ pc' = "resume" /\ UNCHANGED runVars /\ UNCHANGED disk
    BY <2>2 DEF runVars, Typed, Placed, PCs
  <2> QED BY <1>6, <2>1, <2>2 DEF LaunchOutOfCapacity, Goto
<1>7. CASE Stop
  BY <1>7, ExitTyped DEF Stop, Typed
<1>8. CASE Tick
  BY <1>8, TickTyped
<1>9. CASE UNCHANGED vars
  BY <1>9 DEF vars, runVars, Typed, Placed
<1> QED
  BY <1>1, <1>2, <1>3, <1>4, <1>5, <1>6, <1>7, <1>8, <1>9 DEF Next

(* Every variable of the watch has its type: the rotation stays within the  *)
(* list of the run, whatever list an earlier run has left it in, and the    *)
(* counts of the circuit stay within its settings.                          *)
THEOREM WatchTypes == Spec => []TypeOK
BY TypedInit, TypedStep, TypedIsTypeOK, PTL DEF Spec

-----------------------------------------------------------------------------
(***************************************************************************)
(* The waits.                                                              *)
(***************************************************************************)

\* A normal run probes when the persisted delay has passed; until then it
\* is about to sleep at least that long, or it sleeps.  --once does neither.
Waits == /\ pc # "save" => delay = 0
         /\ pc # "sleep" => timer = 0
         /\ once => pc \notin {"save", "sleep"}
         /\ pc = "probe" /\ ~once => disk.left = 0
         /\ pc = "save" => disk.left <= delay
         /\ pc = "sleep" => disk.left <= timer

LEMMA WaitsStep == Typed /\ Waits /\ [Next]_vars => Waits'
<1> SUFFICES ASSUME Typed, Waits, [Next]_vars PROVE Waits'
  OBVIOUS
<1> USE DEF Goto
<1>0. /\ disk.left \in Nat /\ delay \in Nat /\ timer \in Nat
      /\ pc = "idle" => ~once
  BY DEF Typed, Placed, Records
<1>1. ASSUME Exit PROVE Waits'
  BY <1>1 DEF Exit, Waits
<1>2. CASE Start
  BY <1>2 DEF Start, Waits
<1>3. CASE Resume
  BY <1>0, <1>3, SMT DEF Resume, Waits
<1>4. CASE CapacityFound
  <2>1. pc' = "launch" /\ pc = "probe" /\ UNCHANGED <<once, delay, timer>>
    BY <1>4 DEF CapacityFound, Answered, Probing
  <2> QED BY <2>1 DEF Waits
<1>5. CASE CapacityFatal \/ OnceEnds
  BY <1>1, <1>5 DEF CapacityFatal, OnceEnds
<1>6. CASE NextDomain
  <2>1. pc' = "probe" /\ pc = "probe" /\ UNCHANGED <<once, disk, delay, timer>>
    BY <1>6 DEF NextDomain, Rotates, Probing
  <2> QED BY <2>1 DEF Waits
<1>7. CASE BackOff
  <2>1. PICK guided \in Guidance \cup {0} : Wait(guided) /\ Rotates(guided)
    BY <1>7 DEF BackOff, Wait
  <2>2. /\ ~once /\ once' = once /\ pc = "probe" /\ pc' = "save" /\ timer' = timer
        /\ delay' \in Nat /\ disk'.left = delay'
    BY <2>1, WaitFacts, RotatesFacts
  <2> QED BY <2>2 DEF Waits
<1>8. CASE Sleep
  BY <1>0, <1>8 DEF Sleep, Waits
<1>9. CASE Wake
  BY <1>0, <1>9, SMT DEF Wake, Waits
<1>10. CASE LaunchOutOfCapacity
  BY <1>1, <1>10 DEF LaunchOutOfCapacity, runVars, Waits
<1>11. CASE Stop
  BY <1>1, <1>11 DEF Stop
<1>12. CASE Tick
  <2>1. /\ UNCHANGED <<pc, once, delay>>
        /\ timer' = IF timer > 0 THEN timer - 1 ELSE 0
    BY <1>12 DEF Tick
  <2>2. disk'.left = IF disk.left > 0 THEN disk.left - 1 ELSE 0
    BY <1>12 DEF Tick, Typed, Records
  <2> QED BY <1>0, <2>1, <2>2, SMT DEF Waits
<1>13. CASE UNCHANGED vars
  BY <1>13 DEF vars, runVars, Waits
<1> QED
  BY <1>2, <1>3, <1>4, <1>5, <1>6, <1>7, <1>8, <1>9, <1>10, <1>11, <1>12, <1>13
     DEF Next, Probe

LEMMA WaitsInit == Init => Waits
BY DEF Init, Waits

LEMMA ProbesWhereProbing == Probe => pc = "probe"
BY DEF Probe, CapacityFound, CapacityFatal, OnceEnds, NextDomain, BackOff, Wait, Rotates,
       Answered, Probing

(* README: "restart resumes after the persisted delay": a normal run never  *)
(* probes before the persisted next attempt is due, for any delays, any     *)
(* jitter and any guidance of the provider, however often it is interrupted *)
(* and restarted, between the write and the sleep too.                      *)
THEOREM RestartHonoursDelay == Spec => DelayHonoured
<1>1. Waits => [~once /\ Probe => disk.left = 0]_vars
  BY ProbesWhereProbing DEF Waits
<1> QED
  BY TypedInit, TypedStep, WaitsInit, WaitsStep, <1>1, PTL DEF Spec, DelayHonoured

(* README: "--once ... without sleeping": the safety half of OnceLeaves.    *)
THEOREM OnceNeverWaits == Spec => [](once => pc \notin {"save", "sleep"} /\ timer = 0)
<1>1. Waits => (once => pc \notin {"save", "sleep"} /\ timer = 0)
  BY DEF Waits
<1> QED
  BY TypedInit, TypedStep, WaitsInit, WaitsStep, <1>1, PTL DEF Spec

-----------------------------------------------------------------------------
(***************************************************************************)
(* The round of --once.                                                    *)
(***************************************************************************)

\* The places from `from` on that come before `to`, of n places in a ring;
\* none if they are the same.
Passed(from, to, n) == IF from <= to THEN from .. to - 1 ELSE (from .. n) \cup (1 .. to - 1)

Round == /\ once /\ pc = "resume" => probed = {}
         /\ once /\ pc = "probe" =>
               probed = {ads[i] : i \in Passed(startAD, nextAD, Len(ads))}

LEMMA PassedFacts ==
    ASSUME NEW n \in Nat \ {0}, NEW from \in 1 .. n, NEW to \in 1 .. n
    PROVE  /\ Passed(from, to, n) \subseteq 1 .. n
           /\ to \notin Passed(from, to, n)
           /\ Passed(from, from, n) = {}
           /\ Cyclic(to, n) # from =>
                 Passed(from, Cyclic(to, n), n) = Passed(from, to, n) \cup {to}
           /\ Cyclic(to, n) = from => Passed(from, to, n) \cup {to} = 1 .. n
<1>1. Passed(from, to, n) \subseteq 1 .. n /\ to \notin Passed(from, to, n)
  BY SMT DEF Passed
<1>2. Passed(from, from, n) = {}
  BY SMT DEF Passed
<1>3. ASSUME Cyclic(to, n) # from
      PROVE  Passed(from, Cyclic(to, n), n) = Passed(from, to, n) \cup {to}
  <2>1. CASE to = n
    BY <1>3, <2>1, SMT DEF Passed, Cyclic
  <2>2. CASE to # n
    BY <1>3, <2>2, SMT DEF Passed, Cyclic
  <2> QED BY <2>1, <2>2
<1>4. ASSUME Cyclic(to, n) = from PROVE Passed(from, to, n) \cup {to} = 1 .. n
  <2>1. CASE to = n
    BY <1>4, <2>1, SMT DEF Passed, Cyclic
  <2>2. CASE to # n
    BY <1>4, <2>2, SMT DEF Passed, Cyclic
  <2> QED BY <2>1, <2>2
<1> QED BY <1>1, <1>2, <1>3, <1>4

LEMMA RoundStep == Typed /\ Waits /\ Round /\ [Next]_vars => Round'
<1> SUFFICES ASSUME Typed, Waits, Round, [Next]_vars PROVE Round'
  OBVIOUS
<1> USE DEF Goto
<1>1. ASSUME Exit PROVE Round'
  BY <1>1 DEF Exit, Round
<1>2. ASSUME UNCHANGED <<pc, once, ads, nextAD, startAD, probed>> PROVE Round'
  BY <1>2 DEF Round
<1>3. CASE Start
  BY <1>3 DEF Start, Typed, Placed, Round
<1>4. CASE Resume
  <2>1. /\ pc = "resume" /\ pc' # "resume" /\ startAD' = nextAD'
        /\ nextAD' = ResumeIndex(ads, disk.lastAD)
        /\ UNCHANGED <<once, ads, probed>>
    BY <1>4 DEF Resume
  <2>2. nextAD' \in 1 .. Len(ads) /\ Len(ads) \in Nat \ {0}
    BY <2>1, ResumeIndexFacts, ListFacts DEF Typed, Placed
  <2>3. Passed(startAD', nextAD', Len(ads)) = {}
    BY <2>1, <2>2, PassedFacts
  <2> QED BY <2>1, <2>3 DEF Round
<1>5. CASE CapacityFound
  BY <1>5 DEF CapacityFound, Round
<1>6. CASE CapacityFatal \/ OnceEnds
  BY <1>1, <1>6 DEF CapacityFatal, OnceEnds
<1>7. CASE NextDomain
  <2>1. PICK guided \in Guidance \cup {0} :
            /\ Rotates(guided)
            /\ \/ once /\ nextAD' # startAD
               \/ ~once
    BY <1>7 DEF NextDomain
  <2>2. pc' = "probe" /\ pc = "probe" /\ AD = ads[nextAD]
    BY <1>7, <2>1, RotatesFacts DEF NextDomain, AD
  <2>3. CASE ~once
    BY <2>1, <2>2, <2>3, RotatesFacts DEF Round
  <2>4. CASE once /\ nextAD' # startAD
    <3>1. /\ nextAD' = Cyclic(nextAD, Len(ads)) /\ probed' = probed \cup {AD}
          /\ UNCHANGED <<ads, startAD, once>>
      BY <2>1, RotatesFacts
    <3>2. Len(ads) \in Nat \ {0} /\ nextAD \in 1 .. Len(ads) /\ startAD \in 1 .. Len(ads)
      BY <2>2, ListFacts DEF Typed, Placed
    <3>3. Passed(startAD, nextAD', Len(ads)) = Passed(startAD, nextAD, Len(ads)) \cup {nextAD}
      BY <2>4, <3>1, <3>2, PassedFacts
    <3>4. probed = {ads[i] : i \in Passed(startAD, nextAD, Len(ads))}
      BY <2>2, <2>4 DEF Round
    <3>5. probed' = {ads[i] : i \in Passed(startAD, nextAD', Len(ads))}
      BY <2>2, <3>1, <3>3, <3>4
    <3> QED BY <2>2, <3>1, <3>5 DEF Round
  <2> QED BY <2>1, <2>3, <2>4
<1>8. CASE BackOff
  <2>1. pc' = "save"
    BY <1>8 DEF BackOff, Wait
  <2> QED BY <2>1 DEF Round
<1>9. CASE Sleep
  BY <1>9 DEF Sleep, Round
<1>10. CASE Wake
  <2>1. ~once /\ once' = once
    BY <1>10 DEF Wake, Waits
  <2> QED BY <2>1 DEF Round
<1>11. CASE LaunchOutOfCapacity
  <2>1. CASE ~once /\ UNCHANGED runVars
    BY <2>1 DEF runVars, Round
  <2> QED BY <1>1, <1>11, <2>1 DEF LaunchOutOfCapacity
<1>12. CASE Stop
  BY <1>1, <1>12 DEF Stop
<1>13. CASE Tick
  BY <1>2, <1>13 DEF Tick
<1>14. CASE UNCHANGED vars
  BY <1>2, <1>14 DEF vars, runVars
<1> QED
  BY <1>3, <1>4, <1>5, <1>6, <1>7, <1>8, <1>9, <1>10, <1>11, <1>12, <1>13, <1>14
     DEF Next, Probe

LEMMA RoundInit == Init => Round
BY DEF Init, Round

(* The domain about to be probed has not been probed in this round. *)
LEMMA ProbesAnother ==
    ASSUME Typed, Round, once, pc = "probe"
    PROVE  AD \notin probed
<1>1. /\ Len(ads) \in Nat \ {0} /\ nextAD \in 1 .. Len(ads) /\ startAD \in 1 .. Len(ads)
      /\ \A i, j \in 1 .. Len(ads) : ads[i] = ads[j] => i = j
  BY ListFacts DEF Typed, Placed
<1>2. /\ Passed(startAD, nextAD, Len(ads)) \subseteq 1 .. Len(ads)
      /\ nextAD \notin Passed(startAD, nextAD, Len(ads))
  BY <1>1, PassedFacts
<1>3. probed = {ads[i] : i \in Passed(startAD, nextAD, Len(ads))}
  BY DEF Round
<1> QED BY <1>1, <1>2, <1>3 DEF AD

(* When the round is over every domain has been probed. *)
LEMMA EndsComplete ==
    ASSUME Typed, Round, OnceEnds
    PROVE  probed \cup {AD} = ToSet(ads)
<1>1. once /\ pc = "probe" /\ Following(nextAD) = startAD
  BY DEF OnceEnds, Probing
<1>2. /\ ads \in ADLists /\ Len(ads) \in Nat \ {0}
      /\ nextAD \in 1 .. Len(ads) /\ startAD \in 1 .. Len(ads)
      /\ ToSet(ads) = {ads[i] : i \in 1 .. Len(ads)}
  BY <1>1, ListFacts DEF Typed, Placed
<1>3. Cyclic(nextAD, Len(ads)) = startAD
  BY <1>1, ProbedDomain
<1>4. Passed(startAD, nextAD, Len(ads)) \cup {nextAD} = 1 .. Len(ads)
  BY <1>2, <1>3, PassedFacts
<1>5. probed = {ads[i] : i \in Passed(startAD, nextAD, Len(ads))}
  BY <1>1 DEF Round
<1> QED BY <1>2, <1>4, <1>5 DEF AD

(* README: "--once probes each eligible availability domain at most once",  *)
(* and reports no capacity only when it has come to every one of them: for  *)
(* any list of domains, wherever an earlier run, with another list perhaps, *)
(* has left the rotation.                                                   *)
THEOREM OnceGoesRound == Spec => OnceProbesEachOnce
<1> DEFINE Another == once /\ Probe => AD \notin probed
           Complete == OnceEnds => probed \cup {AD} = ToSet(ads)
<1>1. Typed /\ Round => [Another]_vars
  BY ProbesAnother, ProbesWhereProbing
<1>2. Typed /\ Round => [Complete]_vars
  BY EndsComplete
<1>3. Spec => [][Another]_vars
  <2> HIDE DEF Another
  <2> QED BY TypedInit, TypedStep, WaitsInit, WaitsStep, RoundInit, RoundStep, <1>1, PTL DEF Spec
<1>4. Spec => [][Complete]_vars
  <2> HIDE DEF Complete
  <2> QED BY TypedInit, TypedStep, WaitsInit, WaitsStep, RoundInit, RoundStep, <1>2, PTL DEF Spec
<1> QED BY <1>3, <1>4 DEF OnceProbesEachOnce

-----------------------------------------------------------------------------
(***************************************************************************)
(* The circuit of the watch.                                               *)
(***************************************************************************)

\* What opened the circuit is as old as the circuit is open.
OpenedLately == circuit.state = "open" /\ circuit.left > 0 =>
                    /\ circuit.left <= OpenTimeout
                    /\ recent[OpenTimeout - circuit.left] > 0

Guarded == OpenedLately /\ Counting(circuit)

LEMMA GuardedInit == Init => Guarded
BY NoCircuitFacts DEF Init, Guarded, OpenedLately, Counting

LEMMA GuardedStep == Typed /\ Guarded /\ [Next]_vars => Guarded'
<1> SUFFICES ASSUME Typed, Guarded, [Next]_vars PROVE Guarded'
  OBVIOUS
<1>1. ASSUME circuit' \in {NoCircuit, NewCircuit} PROVE Guarded'
  BY <1>1, NoCircuitFacts, NewCircuitFacts DEF Guarded, OpenedLately, Counting
<1>2. ASSUME UNCHANGED <<circuit, recent>> PROVE Guarded'
  BY <1>2 DEF Guarded, OpenedLately, Counting
<1>3. ASSUME Exit PROVE Guarded'
  BY <1>1, <1>3 DEF Exit
<1>4. ASSUME NEW guided, Rotates(guided) PROVE Guarded'
  <2>1. /\ Counting(circuit')
        /\ \/ circuit' = circuit /\ recent' = recent
           \/ circuit'.state # "open"
           \/ circuit'.left = OpenTimeout /\ recent'[0] > 0
    BY <1>4, AsksFacts DEF Rotates, Guarded
  <2>2. OpenTimeout \in Nat \ {0} /\ OpenTimeout - OpenTimeout = 0
    BY CircuitConstants, SMT
  <2>3. OpenedLately'
    BY <1>2, <2>1, <2>2, SMT DEF Guarded, OpenedLately
  <2> QED BY <2>1, <2>3 DEF Guarded, Counting
<1>5. CASE Start \/ Sleep \/ Wake
  BY <1>2, <1>5 DEF Start, Sleep, Wake
<1>6. CASE Resume
  BY <1>1, <1>6 DEF Resume
<1>7. CASE Probe
  <2>1. CASE CapacityFound
    BY <1>1, <2>1 DEF CapacityFound
  <2>2. CASE CapacityFatal \/ OnceEnds
    BY <1>3, <2>2 DEF CapacityFatal, OnceEnds
  <2>3. CASE NextDomain \/ BackOff
    BY <1>4, <2>3 DEF NextDomain, BackOff, Wait
  <2> QED BY <1>7, <2>1, <2>2, <2>3 DEF Probe
<1>8. CASE LaunchOutOfCapacity \/ Stop
  BY <1>2, <1>3, <1>8 DEF LaunchOutOfCapacity, Stop, runVars
<1>9. CASE Tick
  <2>1. /\ circuit' = Elapsed(circuit)
        /\ recent' = [age \in Ages |-> IF age = 0 THEN 0 ELSE recent[age - 1]]
    BY <1>9 DEF Tick
  <2>2. /\ circuit \in Circuits
        /\ circuit'.state = circuit.state
        /\ circuit'.left = IF circuit.left > 0 THEN circuit.left - 1 ELSE 0
        /\ Counting(circuit')
    BY <2>1, ElapsedFacts DEF Typed, Guarded
  <2>3. ASSUME circuit'.state = "open", circuit'.left > 0
        PROVE  circuit'.left <= OpenTimeout /\ recent'[OpenTimeout - circuit'.left] > 0
    <3> DEFINE age == OpenTimeout - circuit'.left
    <3>1. /\ circuit.left \in Nat /\ OpenTimeout \in Nat \ {0}
          /\ circuit.left = circuit'.left + 1 /\ circuit.left > 0
      BY <2>2, <2>3, CircuitConstants, SMT DEF Circuits
    <3>2. circuit.left <= OpenTimeout /\ recent[OpenTimeout - circuit.left] > 0
      BY <2>2, <2>3, <3>1 DEF Guarded, OpenedLately
    <3>3. age \in Ages /\ age # 0 /\ age - 1 = OpenTimeout - circuit.left
      BY <2>2, <2>3, <3>1, <3>2, SMT DEF Ages
    <3>4. recent'[age] = recent[age - 1]
      BY <2>1, <3>3
    <3>5. recent[age - 1] > 0
      BY <3>2, <3>3
    <3>6. recent'[age] > 0
      BY <3>4, <3>5
    <3>7. circuit'.left <= OpenTimeout
      BY <2>2, <2>3, <3>1, <3>2, SMT
    <3> QED BY <3>6, <3>7
  <2> QED BY <2>2, <2>3 DEF Guarded, OpenedLately, Counting
<1>10. CASE UNCHANGED vars
  BY <1>2, <1>10 DEF vars, runVars
<1> QED
  BY <1>5, <1>6, <1>7, <1>8, <1>9, <1>10 DEF Next

(* A circuit that refuses is open and has not been for long. *)
LEMMA RefusesWhileOpen ==
    ASSUME Typed, Guarded, ExclusionReleases, ~Admits(circuit)
    PROVE  circuit.state = "open" /\ circuit.left > 0
<1>1. circuit \in Circuits /\ HalfOpenRequests \in Nat \ {0}
  BY CircuitConstants DEF Typed
<1>2. CASE circuit.state = "closed"
  <2>1. Current(circuit).state = "closed"
    BY <1>2, NewCircuitFacts DEF Current
  <2> QED BY <2>1 DEF Admits
<1>3. CASE circuit.state = "half-open"
  <2>1. Current(circuit) = circuit
    BY <1>3 DEF Current
  <2>2. circuit.admitted = circuit.successes
    BY <1>3 DEF Guarded, Counting
  <2>3. circuit.admitted < HalfOpenRequests
    BY <1>1, <2>2, SMT DEF Circuits
  <2> QED BY <1>3, <2>1, <2>3 DEF Admits
<1>4. CASE circuit.state = "open" /\ ~(circuit.left > 0)
  <2>1. circuit.left = 0
    BY <1>1, <1>4, SMT DEF Circuits
  <2>2. Current(circuit) = InState("half-open", 0)
    BY <1>4, <2>1 DEF Current
  <2>3. Current(circuit).state = "half-open" /\ Current(circuit).admitted = 0
    BY <2>2, InStateTyped
  <2>4. 0 < HalfOpenRequests
    BY <1>1, SMT
  <2> QED BY <2>3, <2>4 DEF Admits
<1> QED BY <1>1, <1>2, <1>3, <1>4 DEF Circuits

(* README: "the breaker only fast-fails sustained ... failures": for any    *)
(* settings of the breaker no probe is refused unless the provider has      *)
(* failed within OpenTimeout, provided that an excluded outcome gives back  *)
(* its place among the half-open requests, as gobreaker has it.             *)
THEOREM RefusalHasReason == ExclusionReleases => (Spec => []RefusesOnlyAfterFailure)
<1> SUFFICES ASSUME ExclusionReleases PROVE Spec => []RefusesOnlyAfterFailure
  OBVIOUS
<1>1. Typed /\ Guarded => RefusesOnlyAfterFailure
  <2> SUFFICES ASSUME Typed, Guarded, ~Admits(circuit), recent = NoFailures PROVE FALSE
    BY DEF RefusesOnlyAfterFailure
  <2>1. circuit.state = "open" /\ circuit.left > 0
    BY RefusesWhileOpen
  <2>2. circuit.left <= OpenTimeout /\ recent[OpenTimeout - circuit.left] > 0
    BY <2>1 DEF Guarded, OpenedLately
  <2>3. circuit.left \in Nat /\ OpenTimeout \in Nat
    BY CircuitConstants DEF Typed, Circuits
  <2>4. OpenTimeout - circuit.left \in Ages
    BY <2>1, <2>2, <2>3, SMT DEF Ages
  <2>5. recent[OpenTimeout - circuit.left] = 0
    BY <2>4 DEF NoFailures
  <2> QED BY <2>2, <2>5, SMT
<1> QED BY TypedInit, TypedStep, GuardedInit, GuardedStep, <1>1, PTL DEF Spec

-----------------------------------------------------------------------------
(***************************************************************************)
(* How many failures are remembered.  The sum over all ages is a fold in   *)
(* no particular order; it is counted here from the youngest age on.       *)
(***************************************************************************)

(* Every place of the ages is reached by counting. *)
LEMMA CountingUp ==
    ASSUME NEW S, 0 \in S, \A n \in Ages : n \in S => n + 1 \in S
    PROVE  \A n \in 0 .. OpenTimeout : n \in S
<1> DEFINE T == {n \in Nat : n <= OpenTimeout => n \in S}
<1>1. OpenTimeout \in Nat \ {0}
  BY CircuitAssumption
<1>2. \A n \in Nat : n \in T => n + 1 \in T
  BY <1>1, SMT DEF Ages
<1>3. Nat \subseteq T
  <2> HIDE DEF T
  <2>1. 0 \in T
    BY DEF T
  <2> QED BY <1>2, <2>1, Induction
<1> QED BY <1>1, <1>3, SMT

\* t counts the failures that are younger than each age.
Counts(r, t, n) == /\ t \in [0 .. n -> Nat]
                   /\ t[0] = 0
                   /\ \A k \in 1 .. n : t[k] = t[k - 1] + r[k - 1]

LEMMA CountsExist ==
    ASSUME NEW r \in [Ages -> Nat]
    PROVE  \E t : Counts(r, t, OpenTimeout)
<1> DEFINE S == {n \in 0 .. OpenTimeout : \E t : Counts(r, t, n)}
<1>1. OpenTimeout \in Nat \ {0}
  BY CircuitAssumption
<1>2. 0 \in S
  <2>1. Counts(r, [k \in 0 .. 0 |-> 0], 0)
    BY SMT DEF Counts
  <2> QED BY <1>1, <2>1
<1>3. ASSUME NEW n \in Ages, n \in S PROVE n + 1 \in S
  <2>1. n \in Nat /\ n + 1 \in 0 .. OpenTimeout /\ n + 1 # 0
    BY <1>1, <1>3, SMT DEF Ages
  <2>2. PICK t : Counts(r, t, n)
    BY <1>3
  <2>3. r[n] \in Nat
    BY <1>3
  <2> DEFINE u == [k \in 0 .. n + 1 |-> IF k = n + 1 THEN t[n] + r[n] ELSE t[k]]
  <2>4. t \in [0 .. n -> Nat] /\ n \in 0 .. n
    BY <2>1, <2>2, SMT DEF Counts
  <2>5. t[n] \in Nat
    BY <2>4
  <2>6. \A k \in 0 .. n + 1 : k # n + 1 => k \in 0 .. n
    BY <2>1, SMT
  <2>7. t[n] + r[n] \in Nat
    BY <2>3, <2>5, SMT
  <2>8. u \in [0 .. n + 1 -> Nat]
    BY <2>4, <2>6, <2>7
  <2>9. u[0] = 0
    BY <2>1, <2>2, SMT DEF Counts
  <2>10. ASSUME NEW k \in 1 .. n + 1 PROVE u[k] = u[k - 1] + r[k - 1]
    <3>1. k \in 0 .. n + 1 /\ k - 1 \in 0 .. n + 1 /\ k - 1 # n + 1
      BY <2>1, SMT
    <3>2. u[k - 1] = t[k - 1]
      BY <3>1
    <3>3. CASE k = n + 1
      <4>1. k - 1 = n
        BY <2>1, <3>3, SMT
      <4> QED BY <3>1, <3>2, <3>3, <4>1
    <3>4. CASE k # n + 1
      <4>1. k \in 1 .. n
        BY <2>1, <3>4, SMT
      <4>2. t[k] = t[k - 1] + r[k - 1]
        BY <2>2, <4>1 DEF Counts
      <4> QED BY <3>1, <3>2, <3>4, <4>2
    <3> QED BY <3>3, <3>4
  <2>11. Counts(r, u, n + 1)
    <3> HIDE DEF u
    <3> QED BY <2>8, <2>9, <2>10 DEF Counts
  <2> QED BY <2>1, <2>11
<1>4. OpenTimeout \in S
  <2> HIDE DEF S
  <2>1. \A n \in 0 .. OpenTimeout : n \in S
    BY <1>2, <1>3, CountingUp
  <2> QED BY <1>1, <2>1, SMT
<1> QED BY <1>4

\* How many failures are younger than n.
Younger(r, n) == (CHOOSE t : Counts(r, t, OpenTimeout))[n]

LEMMA YoungerFacts ==
    ASSUME NEW r \in [Ages -> Nat]
    PROVE  /\ Younger(r, 0) = 0
           /\ \A n \in 0 .. OpenTimeout : Younger(r, n) \in Nat
           /\ \A n \in Ages : Younger(r, n + 1) = Younger(r, n) + r[n]
<1> DEFINE t == CHOOSE t : Counts(r, t, OpenTimeout)
<1>1. Counts(r, t, OpenTimeout)
  BY CountsExist, Zenon
<1>2. \A n : Younger(r, n) = t[n]
  BY DEF Younger
<1> HIDE DEF t
<1>3. OpenTimeout \in Nat \ {0}
  BY CircuitAssumption
<1>4. ASSUME NEW n \in Ages PROVE t[n + 1] = t[n] + r[n]
  <2>1. n + 1 \in 1 .. OpenTimeout /\ (n + 1) - 1 = n
    BY <1>3, SMT DEF Ages
  <2> QED BY <1>1, <2>1 DEF Counts
<1> QED BY <1>1, <1>2, <1>4 DEF Counts

LEMMA AgesAreNumbers ==
    /\ OpenTimeout \in Nat \ {0}
    /\ 0 \in Ages
    /\ \A n \in Ages : n \in Nat /\ n \in 0 .. OpenTimeout /\ n + 1 \in 0 .. OpenTimeout
    /\ 0 \in 0 .. OpenTimeout /\ OpenTimeout \in 0 .. OpenTimeout
<1>1. OpenTimeout \in Nat \ {0}
  BY CircuitAssumption
<1> QED BY <1>1, SMT DEF Ages

(* Where there is none, none is counted. *)
LEMMA NoneYounger ==
    ASSUME NEW r \in [Ages -> Nat], NEW m \in 0 .. OpenTimeout,
           \A age \in Ages : age < m => r[age] = 0
    PROVE  Younger(r, m) = 0
<1> DEFINE S == {n \in 0 .. OpenTimeout : n <= m => Younger(r, n) = 0}
<1>1. 0 \in S
  BY AgesAreNumbers, YoungerFacts
<1>2. ASSUME NEW n \in Ages, n \in S PROVE n + 1 \in S
  <2>1. n \in Nat /\ n + 1 \in 0 .. OpenTimeout
    BY AgesAreNumbers
  <2> SUFFICES ASSUME n + 1 <= m PROVE Younger(r, n + 1) = 0
    BY <2>1
  <2>2. n < m /\ n <= m
    BY <2>1, SMT
  <2>3. Younger(r, n + 1) = Younger(r, n) + r[n] /\ r[n] = 0 /\ Younger(r, n) = 0
    BY <1>2, <2>2, YoungerFacts
  <2> QED BY <2>3
<1>3. m \in S
  <2> HIDE DEF S
  <2> QED BY <1>1, <1>2, CountingUp
<1> QED BY <1>3, SMT

(* A new failure is counted at every age but the first. *)
LEMMA OneMore ==
    ASSUME NEW r \in [Ages -> Nat], NEW m \in 1 .. OpenTimeout
    PROVE  /\ [r EXCEPT ![0] = @ + 1] \in [Ages -> Nat]
           /\ Younger([r EXCEPT ![0] = @ + 1], m) = Younger(r, m) + 1
<1> DEFINE u == [r EXCEPT ![0] = @ + 1]
           S == {n \in 0 .. OpenTimeout : n # 0 => Younger(u, n) = Younger(r, n) + 1}
<1>1. r[0] \in Nat
  BY AgesAreNumbers
<1>2. u \in [Ages -> Nat] /\ u[0] = r[0] + 1 /\ \A n \in Ages \ {0} : u[n] = r[n]
  BY <1>1, AgesAreNumbers
<1> HIDE DEF u
<1>3. 0 \in S
  BY AgesAreNumbers
<1>4. ASSUME NEW n \in Ages, n \in S PROVE n + 1 \in S
  <2>1. n \in 0 .. OpenTimeout /\ n + 1 \in 0 .. OpenTimeout
    BY AgesAreNumbers
  <2>2. /\ Younger(u, n + 1) = Younger(u, n) + u[n] /\ Younger(r, n + 1) = Younger(r, n) + r[n]
        /\ Younger(u, n) \in Nat /\ Younger(r, n) \in Nat /\ r[n] \in Nat
        /\ Younger(u, 0) = 0 /\ Younger(r, 0) = 0
    BY <1>2, <2>1, YoungerFacts
  <2>3. CASE n = 0
    BY <1>1, <1>2, <2>1, <2>2, <2>3, SMT
  <2>4. CASE n # 0
    <3>1. u[n] = r[n] /\ Younger(u, n) = Younger(r, n) + 1
      BY <1>2, <1>4, <2>4
    <3>2. Younger(u, n + 1) = Younger(r, n + 1) + 1
      BY <2>2, <3>1, SMT
    <3> QED BY <2>1, <3>2
  <2> QED BY <2>3, <2>4
<1>5. m \in S /\ m # 0
  <2>1. m \in 0 .. OpenTimeout /\ m # 0
    BY AgesAreNumbers, SMT
  <2> HIDE DEF S
  <2> QED BY <1>3, <1>4, <2>1, CountingUp
<1>6. Younger(u, m) = Younger(r, m) + 1
  BY <1>5
<1> QED BY <1>2, <1>6 DEF u

\* A step of time.
Aged(r) == [age \in Ages |-> IF age = 0 THEN 0 ELSE r[age - 1]]

(* What was younger than n is younger than n + 1 then. *)
LEMMA AllAge ==
    ASSUME NEW r \in [Ages -> Nat], NEW m \in Ages
    PROVE  /\ Aged(r) \in [Ages -> Nat]
           /\ Younger(Aged(r), m + 1) = Younger(r, m)
<1> DEFINE u == Aged(r)
           S == {n \in 0 .. OpenTimeout : n \in Ages => Younger(u, n + 1) = Younger(r, n)}
<1>1. \A n \in Ages : n # 0 => n - 1 \in Ages
  BY AgesAreNumbers, SMT DEF Ages
<1>2. u \in [Ages -> Nat] /\ u[0] = 0
  BY <1>1, AgesAreNumbers DEF Aged
<1>3. \A n \in Ages : n # 0 => u[n] = r[n - 1]
  BY DEF Aged
<1> HIDE DEF u
<1>4. 0 \in S
  <2>1. Younger(u, 0 + 1) = Younger(u, 0) + u[0] /\ Younger(u, 0) = 0 /\ Younger(r, 0) = 0
    BY <1>2, AgesAreNumbers, YoungerFacts
  <2> QED BY <1>2, <2>1, AgesAreNumbers
<1>5. ASSUME NEW n \in Ages, n \in S PROVE n + 1 \in S
  <2>1. n \in Nat /\ n + 1 \in 0 .. OpenTimeout /\ (n + 1) - 1 = n /\ n + 1 # 0
    BY AgesAreNumbers, SMT
  <2> SUFFICES ASSUME n + 1 \in Ages PROVE Younger(u, (n + 1) + 1) = Younger(r, n + 1)
    BY <2>1
  <2>2. Younger(u, (n + 1) + 1) = Younger(u, n + 1) + u[n + 1]
    BY <1>2, YoungerFacts
  <2>3. Younger(r, n + 1) = Younger(r, n) + r[n]
    BY YoungerFacts
  <2>4. u[n + 1] = r[n]
    BY <1>3, <2>1
  <2>5. Younger(u, n + 1) = Younger(r, n)
    BY <1>5
  <2> QED BY <2>2, <2>3, <2>4, <2>5
<1>6. m \in S
  <2> HIDE DEF S
  <2> QED BY <1>4, <1>5, AgesAreNumbers, CountingUp
<1>7. Younger(u, m + 1) = Younger(r, m)
  BY <1>6
<1> QED BY <1>2, <1>7 DEF u

(* More ages, no fewer failures. *)
LEMMA YoungerGrows ==
    ASSUME NEW r \in [Ages -> Nat], NEW k \in 0 .. OpenTimeout, NEW m \in 0 .. OpenTimeout,
           k <= m
    PROVE  Younger(r, k) <= Younger(r, m)
<1> DEFINE S == {n \in 0 .. OpenTimeout : k <= n => Younger(r, k) <= Younger(r, n)}
<1>1. k \in Nat /\ Younger(r, k) \in Nat
  BY YoungerFacts, SMT
<1>2. 0 \in S
  <2>1. k <= 0 => k = 0
    BY <1>1, SMT
  <2>2. k <= 0 => Younger(r, k) <= Younger(r, 0)
    BY <1>1, <2>1, SMT
  <2> QED BY <2>2, AgesAreNumbers
<1>3. ASSUME NEW n \in Ages, n \in S PROVE n + 1 \in S
  <2>1. n \in Nat /\ n \in 0 .. OpenTimeout /\ n + 1 \in 0 .. OpenTimeout
    BY AgesAreNumbers
  <2>2. /\ Younger(r, n + 1) = Younger(r, n) + r[n]
        /\ Younger(r, n) \in Nat /\ r[n] \in Nat
    BY <2>1, YoungerFacts
  <2>3. CASE k <= n
    <3>1. Younger(r, k) <= Younger(r, n)
      BY <1>3, <2>3
    <3>2. Younger(r, k) <= Younger(r, n + 1)
      BY <1>1, <2>2, <3>1, SMT
    <3> QED BY <2>1, <3>2
  <2>4. CASE ~(k <= n)
    <3>1. k <= n + 1 => k = n + 1
      BY <1>1, <2>1, <2>4, SMT
    <3>2. k <= n + 1 => Younger(r, k) <= Younger(r, n + 1)
      BY <1>1, <3>1, SMT
    <3> QED BY <2>1, <3>2
  <2> QED BY <2>3, <2>4
<1>4. m \in S
  <2> HIDE DEF S
  <2> QED BY <1>2, <1>3, CountingUp
<1> QED BY <1>4

\* The failures of some ages only.
Only(r, s) == [age \in Ages |-> IF age \in s THEN r[age] ELSE 0]
Among(r, s) == Younger(Only(r, s), OpenTimeout)

LEMMA OnlyTyped ==
    ASSUME NEW r \in [Ages -> Nat], NEW s
    PROVE  Only(r, s) \in [Ages -> Nat]
BY DEF Only

(* One age after the other, in any order. *)
LEMMA AmongTakes ==
    ASSUME NEW r \in [Ages -> Nat], NEW s \in SUBSET Ages, NEW x \in s
    PROVE  Among(r, s) = r[x] + Among(r, s \ {x})
<1> DEFINE u == Only(r, s)
           v == Only(r, s \ {x})
           S == {n \in 0 .. OpenTimeout :
                    Younger(u, n) = Younger(v, n) + IF x < n THEN r[x] ELSE 0}
<1>1. u \in [Ages -> Nat] /\ v \in [Ages -> Nat] /\ x \in Nat /\ r[x] \in Nat /\ x \in Ages
  BY OnlyTyped, AgesAreNumbers
<1>2. u[x] = r[x] /\ v[x] = 0 /\ \A n \in Ages \ {x} : u[n] = v[n]
  BY <1>1 DEF Only
<1> HIDE DEF u, v
<1>3. 0 \in S
  <2>1. ~(x < 0)
    BY <1>1, SMT
  <2>2. Younger(u, 0) = 0 /\ Younger(v, 0) = 0
    BY <1>1, YoungerFacts
  <2> QED BY <2>1, <2>2, AgesAreNumbers
<1>4. ASSUME NEW n \in Ages, n \in S PROVE n + 1 \in S
  <2>1. n \in Nat /\ n \in 0 .. OpenTimeout /\ n + 1 \in 0 .. OpenTimeout
    BY AgesAreNumbers
  <2>2. /\ Younger(u, n + 1) = Younger(u, n) + u[n]
        /\ Younger(v, n + 1) = Younger(v, n) + v[n]
        /\ Younger(u, n) \in Nat /\ Younger(v, n) \in Nat
        /\ u[n] \in Nat /\ v[n] \in Nat
    BY <1>1, <2>1, YoungerFacts
  <2>3. Younger(u, n) = Younger(v, n) + IF x < n THEN r[x] ELSE 0
    BY <1>4
  <2>4. u[n] = v[n] + IF n = x THEN r[x] ELSE 0
    BY <1>1, <1>2, <2>2, SMT
  <2>5. Younger(u, n + 1) = Younger(v, n + 1) + IF x < n + 1 THEN r[x] ELSE 0
    BY <1>1, <2>1, <2>2, <2>3, <2>4, SMT
  <2> QED BY <2>1, <2>5
<1>5. OpenTimeout \in S
  <2> HIDE DEF S
  <2> QED BY <1>3, <1>4, AgesAreNumbers, CountingUp
<1>6. x < OpenTimeout
  BY <1>1, AgesAreNumbers, SMT DEF Ages
<1>7. Younger(u, OpenTimeout) = Younger(v, OpenTimeout) + r[x] /\ Younger(v, OpenTimeout) \in Nat
  BY <1>1, <1>5, <1>6, YoungerFacts, AgesAreNumbers
<1>8. Younger(u, OpenTimeout) = r[x] + Younger(v, OpenTimeout)
  BY <1>1, <1>7, SMT
<1> QED BY <1>8 DEF u, v, Among

LEMMA AmongNone ==
    ASSUME NEW r \in [Ages -> Nat]
    PROVE  Among(r, {}) = 0 /\ Among(r, Ages) = Younger(r, OpenTimeout)
<1>1. Only(r, {}) \in [Ages -> Nat] /\ \A age \in Ages : Only(r, {})[age] = 0
  BY OnlyTyped DEF Only
<1>2. Younger(Only(r, {}), OpenTimeout) = 0
  BY <1>1, NoneYounger, AgesAreNumbers
<1>3. Only(r, Ages) = r
  BY DEF Only
<1> QED BY <1>2, <1>3 DEF Among

LEMMA AgesFinite == IsFiniteSet(Ages)
<1>1. 0 \in Int /\ OpenTimeout - 1 \in Int
  BY AgesAreNumbers, SMT
<1> QED BY <1>1, FS_Interval DEF Ages

\* The function that a fold over the sets of ages is.
Folding(r, g) ==
    g = [s \in SUBSET Ages |-> IF s = {} THEN 0
                               ELSE LET x == CHOOSE x \in s : TRUE
                                    IN  r[x] + g[s \ {x}]]

(* It exists, and whatever it takes first, it adds up all of them. *)
LEMMA FoldExists ==
    ASSUME NEW r \in [Ages -> Nat]
    PROVE  \E g : Folding(r, g)
<1> DEFINE g == [s \in SUBSET Ages |-> Among(r, s)]
<1>1. ASSUME NEW s \in SUBSET Ages
      PROVE  g[s] = IF s = {} THEN 0
                    ELSE LET x == CHOOSE x \in s : TRUE IN r[x] + g[s \ {x}]
  <2>1. CASE s = {}
    BY <2>1, AmongNone
  <2>2. CASE s # {}
    <3> DEFINE x == CHOOSE x \in s : TRUE
    <3>1. x \in s
      BY <2>2
    <3> HIDE DEF x
    <3>2. s \ {x} \in SUBSET Ages
      OBVIOUS
    <3>3. g[s] = r[x] + g[s \ {x}]
      BY <3>1, <3>2, AmongTakes
    <3> QED BY <2>2, <3>3 DEF x
  <2> QED BY <2>1, <2>2
<1>2. g = [s \in SUBSET Ages |-> IF s = {} THEN 0
                                 ELSE LET x == CHOOSE x \in s : TRUE IN r[x] + g[s \ {x}]]
  BY <1>1
<1> HIDE DEF g
<1> QED BY <1>2 DEF Folding

LEMMA FoldCounts ==
    ASSUME NEW r \in [Ages -> Nat], NEW g, Folding(r, g)
    PROVE  g[Ages] = Younger(r, OpenTimeout)
<1> DEFINE S == {n \in Nat : \A s \in SUBSET Ages : Cardinality(s) = n => g[s] = Among(r, s)}
<1>1. \A s \in SUBSET Ages : IsFiniteSet(s)
  BY AgesFinite, FS_Subset
<1>2. 0 \in S
  <2>1. ASSUME NEW s \in SUBSET Ages, Cardinality(s) = 0 PROVE g[s] = Among(r, s)
    <3>1. s = {}
      BY <1>1, <2>1, FS_EmptySet
    <3>2. g[s] = 0
      BY <3>1 DEF Folding
    <3> QED BY <3>1, <3>2, AmongNone
  <2> QED BY <2>1
<1>3. ASSUME NEW n \in Nat, n \in S PROVE n + 1 \in S
  <2>1. ASSUME NEW s \in SUBSET Ages, Cardinality(s) = n + 1 PROVE g[s] = Among(r, s)
    <3> DEFINE x == CHOOSE x \in s : TRUE
    <3>1. s # {}
      <4>1. Cardinality({}) = 0
        BY FS_EmptySet
      <4> QED BY <2>1, <4>1, SMT
    <3>2. x \in s
      BY <3>1
    <3>3. g[s] = r[x] + g[s \ {x}]
      BY <3>1 DEF Folding
    <3> HIDE DEF x
    <3>4. Cardinality(s \ {x}) = Cardinality(s) - 1
      BY <1>1, <3>2, FS_RemoveElement
    <3>5. Cardinality(s \ {x}) = n /\ s \ {x} \in SUBSET Ages
      BY <2>1, <3>4, SMT
    <3>6. g[s \ {x}] = Among(r, s \ {x})
      BY <1>3, <3>5
    <3> QED BY <3>2, <3>3, <3>6, AmongTakes
  <2> QED BY <2>1
<1>4. Nat \subseteq S
  <2> HIDE DEF S
  <2> QED BY <1>2, <1>3, Induction
<1>5. Cardinality(Ages) \in Nat
  BY AgesFinite, FS_CardinalityType
<1>6. g[Ages] = Among(r, Ages)
  BY <1>4, <1>5
<1> QED BY <1>6, AmongNone

LEMMA FailuresCounted ==
    ASSUME NEW r \in [Ages -> Nat]
    PROVE  FoldFunction(+, 0, r) = Younger(r, OpenTimeout)
<1> DEFINE g == CHOOSE g : Folding(r, g)
<1>1. Folding(r, g)
  BY FoldExists, Zenon
<1>2. DOMAIN r = Ages
  OBVIOUS
<1>3. FoldFunction(+, 0, r) = g[Ages]
  BY <1>2 DEF FoldFunction, FoldFunctionOnSet, MapThenFoldSet, Folding
<1> HIDE DEF g
<1> QED BY <1>1, <1>3, FoldCounts

-----------------------------------------------------------------------------
(***************************************************************************)
(* What the circuit has counted of the failures, and what they add up to.  *)
(***************************************************************************)

\* A closed circuit has counted whatever is younger than its interval, and
\* before that at most Failures were not enough to open it; an open one has
\* received none since; and one that is tried again has forgotten all.
Tallied(c, r) ==
    /\ c.state = "closed" =>
          /\ c.left <= Interval /\ c.failures < Failures
          /\ Younger(r, OpenTimeout) <= Failures + c.failures
          /\ \A n \in 0 .. OpenTimeout : n <= Interval - c.left => Younger(r, n) <= c.failures
    /\ c.state = "open" =>
          /\ c.left <= OpenTimeout
          /\ Younger(r, OpenTimeout) <= 2 * Failures
          /\ \A age \in Ages : age < OpenTimeout - c.left => r[age] = 0
    /\ c.state = "half-open" => r = NoFailures

LEMMA TalliedNew ==
    ASSUME NEW r \in [Ages -> Nat], Younger(r, OpenTimeout) <= Failures
    PROVE  Tallied(NewCircuit, r)
<1>1. /\ NewCircuit.state = "closed" /\ NewCircuit.left = Interval
      /\ NewCircuit.failures = 0
  BY InStateTyped, CircuitConstants DEF NewCircuit
<1>2. /\ Interval <= Interval /\ 0 < Failures
      /\ Younger(r, OpenTimeout) <= Failures + 0
  BY CircuitConstants, SMT
<1>3. ASSUME NEW n \in 0 .. OpenTimeout, n <= Interval - Interval
      PROVE  Younger(r, n) <= 0
  <2>1. n = 0
    BY <1>3, CircuitConstants, SMT
  <2>2. Younger(r, n) = 0
    BY <2>1, YoungerFacts
  <2> QED BY <2>2, SMT
<1> QED BY <1>1, <1>2, <1>3 DEF Tallied

LEMMA NoneCounted ==
    ASSUME NEW n \in 0 .. OpenTimeout
    PROVE  NoFailures \in [Ages -> Nat] /\ Younger(NoFailures, n) = 0
<1>1. NoFailures \in [Ages -> Nat] /\ \A age \in Ages : NoFailures[age] = 0
  BY Youngest DEF NoFailures
<1> QED BY <1>1, NoneYounger

(* With nothing to remember every circuit is in order. *)
LEMMA TalliedNone ==
    ASSUME NEW c \in Circuits, c.left <= Interval, c.failures < Failures,
           c.state # "open"
    PROVE  Tallied(c, NoFailures)
<1>1. \A n \in 0 .. OpenTimeout : Younger(NoFailures, n) = 0
  BY NoneCounted
<1>2. c.failures \in Nat /\ Failures \in Nat
  BY CircuitConstants, SMT DEF Circuits
<1>3. OpenTimeout \in 0 .. OpenTimeout
  BY AgesAreNumbers
<1>4. 0 <= c.failures /\ 0 <= Failures + c.failures
  BY <1>2, SMT
<1> QED BY <1>1, <1>3, <1>4 DEF Tallied

LEMMA TalliedCurrent ==
    ASSUME NEW c \in Circuits, NEW r \in [Ages -> Nat], Tallied(c, r),
           OpenTimeout < Interval
    PROVE  Tallied(Current(c), r)
<1>1. CASE c.state = "closed" /\ c.left = 0
  <2>1. OpenTimeout <= Interval - c.left /\ c.failures \in Nat /\ Failures \in Nat
    BY <1>1, CircuitConstants, SMT DEF Circuits
  <2>2. Younger(r, OpenTimeout) <= c.failures /\ c.failures < Failures
    BY <1>1, <2>1, AgesAreNumbers DEF Tallied
  <2>3. Younger(r, OpenTimeout) \in Nat
    BY YoungerFacts, AgesAreNumbers
  <2>4. Younger(r, OpenTimeout) <= Failures
    BY <2>1, <2>2, <2>3, SMT
  <2> QED BY <1>1, <2>4, TalliedNew DEF Current
<1>2. CASE c.state = "open" /\ c.left = 0
  <2>1. \A age \in Ages : age < OpenTimeout - c.left
    BY <1>2, CircuitConstants, SMT DEF Ages
  <2>2. \A age \in Ages : r[age] = 0
    BY <1>2, <2>1 DEF Tallied
  <2>3. r = NoFailures
    BY <2>2 DEF NoFailures
  <2>4. Current(c) = InState("half-open", 0) /\ InState("half-open", 0).state = "half-open"
    BY <1>2, InStateTyped DEF Current
  <2> QED BY <2>3, <2>4 DEF Tallied
<1>3. CASE ~(c.state = "closed" /\ c.left = 0) /\ ~(c.state = "open" /\ c.left = 0)
  BY <1>3 DEF Current
<1> QED BY <1>1, <1>2, <1>3

(* An answer: a failing one is remembered, a success forgets them all. *)
LEMMA TalliedAfter ==
    ASSUME NEW c \in Circuits, NEW r \in [Ages -> Nat], Tallied(c, r),
           OpenTimeout < Interval, Admits(c),
           NEW outcome \in {"failure", "success", "excluded"},
           NEW e \in After(c, outcome),
           NEW s,
           outcome = "failure" => s = [r EXCEPT ![0] = @ + 1],
           outcome = "success" => s = NoFailures,
           outcome = "excluded" => s = r
    PROVE  Tallied(e, s)
<1> DEFINE d == Current(c)
<1>1. d \in Circuits /\ Tallied(d, r)
  BY CurrentTyped, TalliedCurrent
<1>2. d.state \in {"closed", "half-open"}
  BY DEF Admits
<1>3. \/ d.state = "closed" /\ d.left = 1 /\ e = NewCircuit
      \/ outcome = "failure" /\ e = Failed(d)
      \/ outcome = "success" /\ e = Succeeded(d)
      \/ outcome = "excluded" /\ e = Excluded(d)
  BY DEF After
<1> HIDE DEF d
<1>4. Failures \in Nat \ {0} /\ Interval \in Nat \ {0} /\ OpenTimeout \in Nat \ {0}
  BY CircuitConstants
<1>5. d.failures \in Nat /\ d.left \in Nat
  BY <1>1, SMT DEF Circuits
<1>6. OpenTimeout \in 1 .. OpenTimeout /\ OpenTimeout \in 0 .. OpenTimeout
      /\ 0 \in 0 .. OpenTimeout
  BY <1>4, SMT
<1> DEFINE all == Younger(r, OpenTimeout)
<1>7. all \in Nat
  BY <1>6, YoungerFacts
<1>8. outcome = "failure" =>
          /\ s \in [Ages -> Nat] /\ Younger(s, OpenTimeout) = all + 1
          /\ \A n \in 0 .. OpenTimeout :
                 /\ n # 0 => Younger(s, n) = Younger(r, n) + 1
                 /\ n = 0 => Younger(s, n) = 0
  <2> SUFFICES ASSUME outcome = "failure"
               PROVE  /\ s \in [Ages -> Nat] /\ Younger(s, OpenTimeout) = all + 1
                      /\ \A n \in 0 .. OpenTimeout :
                            /\ n # 0 => Younger(s, n) = Younger(r, n) + 1
                            /\ n = 0 => Younger(s, n) = 0
    OBVIOUS
  <2>1. s = [r EXCEPT ![0] = @ + 1]
    OBVIOUS
  <2>2. s \in [Ages -> Nat] /\ Younger(s, OpenTimeout) = all + 1
    BY <1>6, <2>1, OneMore
  <2>3. ASSUME NEW n \in 0 .. OpenTimeout, n # 0 PROVE Younger(s, n) = Younger(r, n) + 1
    <3>1. n \in 1 .. OpenTimeout
      BY <1>4, <2>3, SMT
    <3> QED BY <2>1, <3>1, OneMore
  <2> QED BY <2>2, <2>3, YoungerFacts
<1>9. outcome = "success" => s = NoFailures
  OBVIOUS
<1>10. outcome = "excluded" => s = r
  OBVIOUS
<1>11. Younger(NoFailures, OpenTimeout) = 0 /\ NoFailures \in [Ages -> Nat]
  BY <1>6, NoneCounted
<1> HIDE DEF all
<1>12. CASE d.state = "closed" /\ d.left = 1 /\ e = NewCircuit
  <2>1. OpenTimeout <= Interval - d.left
    BY <1>4, <1>12, SMT
  <2>2. all <= d.failures /\ d.failures < Failures
    BY <1>1, <1>6, <1>12, <2>1 DEF Tallied, all
  <2>3. Younger(s, OpenTimeout) <= all + 1 /\ s \in [Ages -> Nat]
    BY <1>7, <1>8, <1>9, <1>10, <1>11, SMT DEF all
  <2>4. Younger(s, OpenTimeout) \in Nat
    BY <1>6, <2>3, YoungerFacts
  <2>5. Younger(s, OpenTimeout) <= Failures
    BY <1>4, <1>5, <1>7, <2>2, <2>3, <2>4, SMT
  <2> QED BY <1>12, <2>3, <2>5, TalliedNew
<1>13. CASE outcome = "failure" /\ e = Failed(d)
  <2>1. all <= 2 * Failures - 1
    <3>1. CASE d.state = "closed"
      BY <1>1, <1>4, <1>5, <1>7, <3>1, SMT DEF Tallied, all
    <3>2. CASE d.state = "half-open"
      <4>1. all = 0
        BY <1>1, <1>11, <3>2 DEF Tallied, all
      <4> QED BY <1>4, <4>1, SMT
    <3> QED BY <1>2, <3>1, <3>2
  <2>2. CASE e = Opened
    <3>1. e.state = "open" /\ e.left = OpenTimeout
      BY <2>2, InStateTyped, CircuitConstants DEF Opened
    <3>2. Younger(s, OpenTimeout) <= 2 * Failures
      BY <1>4, <1>7, <1>8, <1>13, <2>1, SMT
    <3>3. \A age \in Ages : ~(age < OpenTimeout - OpenTimeout)
      BY <1>4, SMT DEF Ages
    <3>4. OpenTimeout <= OpenTimeout
      BY <1>4, SMT
    <3> QED BY <3>1, <3>2, <3>3, <3>4 DEF Tallied
  <2>3. CASE /\ d.state # "half-open" /\ ~ReadyToTrip(d.failures + 1)
             /\ e = [d EXCEPT !.failures = @ + 1]
    <3>1. d.state = "closed"
      BY <1>2, <2>3
    <3>2. e.state = "closed" /\ e.left = d.left /\ e.failures = d.failures + 1
      BY <1>1, <2>3, <3>1 DEF Circuits
    <3>3. /\ d.left <= Interval /\ all <= Failures + d.failures
          /\ \A n \in 0 .. OpenTimeout : n <= Interval - d.left => Younger(r, n) <= d.failures
      BY <1>1, <3>1 DEF Tallied, all
    <3>4. d.failures + 1 < Failures
      BY <1>4, <1>5, <2>3, SMT DEF ReadyToTrip
    <3>5. Younger(s, OpenTimeout) <= Failures + (d.failures + 1)
      BY <1>4, <1>5, <1>7, <1>8, <1>13, <3>3, SMT
    <3>6. ASSUME NEW n \in 0 .. OpenTimeout, n <= Interval - d.left
          PROVE  Younger(s, n) <= d.failures + 1
      <4>1. Younger(r, n) \in Nat /\ Younger(r, n) <= d.failures
        BY <3>3, <3>6, YoungerFacts
      <4>2. CASE n = 0
        <5>1. Younger(s, n) = 0
          BY <1>8, <1>13, <4>2
        <5> QED BY <1>5, <5>1, SMT
      <4>3. CASE n # 0
        <5>1. Younger(s, n) = Younger(r, n) + 1
          BY <1>8, <1>13, <4>3
        <5> QED BY <1>5, <4>1, <5>1, SMT
      <4> QED BY <4>2, <4>3
    <3> QED BY <3>2, <3>3, <3>4, <3>5, <3>6 DEF Tallied
  <2> QED BY <1>13, <2>2, <2>3 DEF Failed
<1>14. CASE outcome = "success" /\ e = Succeeded(d)
  <2>1. e \in Circuits
    BY AfterFacts
  <2>2. CASE d.state = "closed" /\ e = [d EXCEPT !.failures = 0]
    <3>1. e.state = "closed" /\ e.left = d.left /\ e.failures = 0
      BY <1>1, <2>2 DEF Circuits
    <3>2. d.left <= Interval
      BY <1>1, <2>2 DEF Tallied
    <3>3. 0 < Failures
      BY <1>4, SMT
    <3> QED BY <1>9, <1>14, <2>1, <3>1, <3>2, <3>3, TalliedNone
  <2>3. CASE e = NewCircuit
    <3>1. 0 <= Failures
      BY <1>4, SMT
    <3> QED BY <1>9, <1>11, <1>14, <2>3, <3>1, TalliedNew
  <2>4. CASE d.state = "half-open" /\ e = [d EXCEPT !.successes = @ + 1, !.admitted = @ + 1]
    <3>1. e.state = "half-open"
      BY <1>1, <2>4 DEF Circuits
    <3> QED BY <1>9, <1>14, <3>1 DEF Tallied
  <2> QED BY <1>2, <1>14, <2>2, <2>3, <2>4 DEF Succeeded
<1>15. CASE outcome = "excluded" /\ e = Excluded(d)
  <2>1. CASE d.state = "half-open" /\ e = [d EXCEPT !.admitted = @ + 1]
    <3>1. e.state = "half-open" /\ r = NoFailures
      BY <1>1, <2>1 DEF Circuits, Tallied
    <3> QED BY <1>10, <1>15, <3>1 DEF Tallied
  <2>2. CASE e = d
    BY <1>1, <1>10, <1>15, <2>2
  <2> QED BY <1>15, <2>1, <2>2 DEF Excluded
<1> QED BY <1>3, <1>12, <1>13, <1>14, <1>15

(* Time passes for the circuit and for what is remembered alike. *)
LEMMA TalliedElapsed ==
    ASSUME NEW c \in Circuits, NEW r \in [Ages -> Nat], Tallied(c, r),
           OpenTimeout < Interval
    PROVE  Tallied(Elapsed(c), Aged(r))
<1> DEFINE e == Elapsed(c)
           s == Aged(r)
<1>1. /\ e.state = c.state /\ e.failures = c.failures
      /\ e.left = IF c.left > 0 THEN c.left - 1 ELSE 0
      /\ c.left \in Nat /\ c.failures \in Nat
  <2>1. c.left \in Nat /\ c.failures \in Nat
    BY SMT DEF Circuits
  <2> QED BY <2>1, ElapsedFacts DEF Elapsed, Circuits
<1>2. s \in [Ages -> Nat]
  BY AllAge, AgesAreNumbers
<1>3. \A age \in Ages : s[age] = IF age = 0 THEN 0 ELSE r[age - 1]
  BY DEF Aged
<1>4. Failures \in Nat \ {0} /\ Interval \in Nat \ {0} /\ OpenTimeout \in Nat \ {0}
  BY CircuitConstants
<1>5. c.state \in {"closed", "open", "half-open"}
  BY DEF Circuits
<1>6. ASSUME NEW n \in 0 .. OpenTimeout, n # 0
      PROVE  n - 1 \in Ages /\ n - 1 \in 0 .. OpenTimeout
             /\ Younger(s, n) = Younger(r, n - 1)
  <2>1. n - 1 \in Ages /\ n - 1 \in 0 .. OpenTimeout /\ (n - 1) + 1 = n
    BY <1>4, <1>6, SMT DEF Ages
  <2>2. Younger(s, (n - 1) + 1) = Younger(r, n - 1)
    BY <2>1, AllAge
  <2> QED BY <2>1, <2>2
<1> HIDE DEF e, s
<1>7. Younger(s, OpenTimeout) <= Younger(r, OpenTimeout)
  <2>1. /\ OpenTimeout \in 0 .. OpenTimeout /\ OpenTimeout # 0
        /\ OpenTimeout - 1 <= OpenTimeout
    BY <1>4, SMT
  <2> QED BY <1>6, <2>1, YoungerGrows
<1>8. Younger(s, OpenTimeout) \in Nat /\ Younger(r, OpenTimeout) \in Nat
  BY <1>2, YoungerFacts, AgesAreNumbers
<1>9. CASE c.state = "closed"
  <2>1. /\ c.left <= Interval /\ c.failures < Failures
        /\ Younger(r, OpenTimeout) <= Failures + c.failures
        /\ \A n \in 0 .. OpenTimeout : n <= Interval - c.left => Younger(r, n) <= c.failures
    BY <1>9 DEF Tallied
  <2>2. e.left <= Interval
    BY <1>1, <1>4, <2>1, SMT
  <2>3. Younger(s, OpenTimeout) <= Failures + c.failures
    BY <1>1, <1>4, <1>7, <1>8, <2>1, SMT
  <2>4. ASSUME NEW n \in 0 .. OpenTimeout, n <= Interval - e.left
        PROVE  Younger(s, n) <= c.failures
    <3>1. CASE n = 0
      BY <1>1, <1>2, <3>1, YoungerFacts, SMT
    <3>2. CASE n # 0
      <4>1. n - 1 \in 0 .. OpenTimeout /\ Younger(s, n) = Younger(r, n - 1)
        BY <1>6, <3>2
      <4>2. n - 1 <= Interval - c.left
        BY <1>1, <1>4, <2>4, SMT
      <4> QED BY <2>1, <4>1, <4>2
    <3> QED BY <3>1, <3>2
  <2> QED BY <1>1, <1>9, <2>1, <2>2, <2>3, <2>4 DEF Tallied, e, s
<1>10. CASE c.state = "open"
  <2>1. /\ c.left <= OpenTimeout /\ Younger(r, OpenTimeout) <= 2 * Failures
        /\ \A age \in Ages : age < OpenTimeout - c.left => r[age] = 0
    BY <1>10 DEF Tallied
  <2>2. e.left <= OpenTimeout
    BY <1>1, <1>4, <2>1, SMT
  <2>3. Younger(s, OpenTimeout) <= 2 * Failures
    BY <1>4, <1>7, <1>8, <2>1, SMT
  <2>4. ASSUME NEW age \in Ages, age < OpenTimeout - e.left PROVE s[age] = 0
    <3>1. CASE age = 0
      BY <1>3, <3>1
    <3>2. CASE age # 0
      <4>1. age - 1 \in Ages /\ age - 1 < OpenTimeout - c.left
        BY <1>1, <1>4, <2>4, <3>2, SMT DEF Ages
      <4> QED BY <1>3, <2>1, <3>2, <4>1
    <3> QED BY <3>1, <3>2
  <2> QED BY <1>1, <1>10, <2>2, <2>3, <2>4 DEF Tallied, e, s
<1>11. CASE c.state = "half-open"
  <2>1. r = NoFailures
    BY <1>11 DEF Tallied
  <2>2. \A age \in Ages : s[age] = 0
    <3>1. \A age \in Ages : age # 0 => age - 1 \in Ages
      BY <1>4, SMT DEF Ages
    <3> QED BY <1>3, <2>1, <3>1 DEF NoFailures
  <2>3. s = NoFailures
    BY <1>2, <2>2 DEF NoFailures
  <2> QED BY <1>1, <1>11, <2>3 DEF Tallied, e, s
<1> QED BY <1>5, <1>9, <1>10, <1>11

\* Between two watches nothing is remembered.
Remembers == /\ Tallied(circuit, recent)
             /\ pc \in {"idle", "resume", "launch"} => recent = NoFailures

LEMMA NoCircuitTallied == Tallied(NoCircuit, NoFailures) /\ Tallied(NewCircuit, NoFailures)
<1>1. /\ NoCircuit.left = 0 /\ NoCircuit.failures = 0 /\ NoCircuit.state = "closed"
      /\ NewCircuit.left = Interval /\ NewCircuit.failures = 0 /\ NewCircuit.state = "closed"
      /\ NoCircuit \in Circuits /\ NewCircuit \in Circuits
  BY InStateTyped, CircuitConstants DEF NoCircuit, NewCircuit
<1>2. 0 <= Interval /\ Interval <= Interval /\ 0 < Failures
  BY CircuitConstants, SMT
<1> QED BY <1>1, <1>2, TalliedNone

LEMMA RemembersInit == Init => Remembers
BY NoCircuitTallied DEF Init, Remembers

LEMMA AsksTallied ==
    ASSUME Typed, Remembers, OpenTimeout < Interval,
           NEW guided, Asks(guided) \/ Refused(guided)
    PROVE  Tallied(circuit', recent')
<1>1. CASE Refused(guided)
  BY <1>1 DEF Refused, Remembers
<1>2. CASE Asks(guided)
  <2>1. PICK r \in Responses :
          /\ Admits(circuit)
          /\ circuit' \in After(circuit, Outcome(Kind(r)))
          /\ recent' = CASE Kind(r) \in {"throttled", "transient"} -> [recent EXCEPT ![0] = @ + 1]
                         [] Kind(r) = "available" -> NoFailures
                         [] OTHER -> recent
    BY <1>2 DEF Asks
  <2>2. Kind(r) \in {"available", "unavailable", "probe_unavailable", "throttled",
                     "transient", "fatal"}
    BY DEF Responses, Kind
  <2> DEFINE outcome == Outcome(Kind(r))
  <2>3. outcome \in {"failure", "success", "excluded"}
    BY <2>2 DEF Outcome
  <2>4. /\ outcome = "failure" => recent' = [recent EXCEPT ![0] = @ + 1]
        /\ outcome = "success" => recent' = NoFailures
        /\ outcome = "excluded" => recent' = recent
    BY <2>1, <2>2 DEF Outcome
  <2>5. circuit' \in After(circuit, outcome)
    BY <2>1
  <2> HIDE DEF outcome
  <2>6. circuit \in Circuits /\ recent \in [Ages -> Nat] /\ Tallied(circuit, recent)
    BY DEF Typed, Remembers
  <2> QED BY <2>1, <2>3, <2>4, <2>5, <2>6, TalliedAfter
<1> QED BY <1>1, <1>2

LEMMA RemembersStep ==
    ASSUME OpenTimeout < Interval
    PROVE  Typed /\ Remembers /\ [Next]_vars => Remembers'
<1> SUFFICES ASSUME Typed, Remembers, [Next]_vars PROVE Remembers'
  OBVIOUS
<1>1. ASSUME Exit PROVE Remembers'
  BY <1>1, NoCircuitTallied DEF Exit, Remembers
<1>2. ASSUME UNCHANGED <<circuit, recent>>, recent = NoFailures \/ pc' \in {"probe", "sleep"}
      PROVE  Remembers'
  BY <1>2 DEF Remembers
<1>3. ASSUME NEW guided, Rotates(guided), pc' \in {"probe", "save"} PROVE Remembers'
  <2>1. Asks(guided) \/ Refused(guided)
    BY <1>3 DEF Rotates
  <2> QED BY <1>3, <2>1, AsksTallied DEF Remembers
<1>4. CASE Start
  BY <1>2, <1>4 DEF Start, Remembers
<1>5. CASE Sleep \/ Wake
  BY <1>2, <1>5 DEF Sleep, Wake, Goto
<1>6. CASE Resume
  <2>1. circuit' = NewCircuit /\ recent' = NoFailures
    BY <1>6 DEF Resume, Remembers
  <2> QED BY <2>1, NoCircuitTallied DEF Remembers
<1>7. CASE Probe
  <2>1. CASE CapacityFound
    BY <2>1, NoCircuitTallied DEF CapacityFound, Remembers
  <2>2. CASE CapacityFatal \/ OnceEnds
    BY <1>1, <2>2 DEF CapacityFatal, OnceEnds
  <2>3. CASE NextDomain
    BY <1>3, <2>3 DEF NextDomain, Goto
  <2>4. CASE BackOff
    BY <1>3, <2>4 DEF BackOff, Wait, Goto
  <2> QED BY <1>7, <2>1, <2>2, <2>3, <2>4 DEF Probe
<1>8. CASE LaunchOutOfCapacity
  BY <1>1, <1>2, <1>8 DEF LaunchOutOfCapacity, runVars, Remembers
<1>9. CASE Stop
  BY <1>1, <1>9 DEF Stop
<1>10. CASE Tick
  <2>1. circuit' = Elapsed(circuit) /\ recent' = Aged(recent) /\ pc' = pc
    BY <1>10 DEF Tick, Aged
  <2>2. circuit \in Circuits /\ recent \in [Ages -> Nat] /\ Tallied(circuit, recent)
    BY DEF Typed, Remembers
  <2>3. Tallied(circuit', recent')
    BY <2>1, <2>2, TalliedElapsed
  <2>4. ASSUME recent = NoFailures PROVE recent' = NoFailures
    <3>1. \A age \in Ages : age # 0 => age - 1 \in Ages
      BY CircuitConstants, SMT DEF Ages
    <3> QED BY <2>1, <2>4, <3>1 DEF Aged, NoFailures
  <2> QED BY <2>1, <2>3, <2>4 DEF Remembers
<1>11. CASE UNCHANGED vars
  BY <1>11 DEF vars, runVars, Remembers
<1> QED
  BY <1>4, <1>5, <1>6, <1>7, <1>8, <1>9, <1>10, <1>11 DEF Next

(* README: "AD rotation cannot bypass an open breaker": for any settings    *)
(* whose counting interval is longer than OpenTimeout, as that of the       *)
(* defaults is, a watch gets at most twice Failures failing answers within  *)
(* OpenTimeout and without a success, however its probes, its waits and the *)
(* ends of the counting interval follow each other.                         *)
THEOREM FewFailuresWithinTimeout == OpenTimeout < Interval => (Spec => []FailuresBounded)
<1> SUFFICES ASSUME OpenTimeout < Interval PROVE Spec => []FailuresBounded
  OBVIOUS
<1>1. Typed /\ Remembers => FailuresBounded
  <2> SUFFICES ASSUME Typed, Remembers PROVE FailuresBounded
    OBVIOUS
  <2>1. circuit \in Circuits /\ recent \in [Ages -> Nat] /\ Tallied(circuit, recent)
    BY DEF Typed, Remembers
  <2>2. FoldFunction(+, 0, recent) = Younger(recent, OpenTimeout)
    BY <2>1, FailuresCounted
  <2> DEFINE all == Younger(recent, OpenTimeout)
  <2>3. all \in Nat /\ Failures \in Nat \ {0} /\ circuit.failures \in Nat
    BY <2>1, YoungerFacts, AgesAreNumbers, CircuitConstants, SMT DEF Circuits
  <2>4. CASE circuit.state = "closed"
    <3>1. all <= Failures + circuit.failures /\ circuit.failures < Failures
      BY <2>1, <2>4 DEF Tallied
    <3>2. all <= 2 * Failures
      <4> HIDE DEF all
      <4> QED BY <2>3, <3>1, SMT
    <3> QED BY <2>2, <3>2 DEF FailuresBounded
  <2>5. CASE circuit.state = "open"
    BY <2>1, <2>2, <2>5 DEF Tallied, FailuresBounded
  <2>6. CASE circuit.state = "half-open"
    <3>1. all = 0
      BY <2>1, <2>6, NoneCounted, AgesAreNumbers DEF Tallied
    <3>2. all <= 2 * Failures
      <4> HIDE DEF all
      <4> QED BY <2>3, <3>1, SMT
    <3> QED BY <2>2, <3>2 DEF FailuresBounded
  <2> QED BY <2>1, <2>4, <2>5, <2>6 DEF Circuits
<1> QED BY TypedInit, TypedStep, RemembersInit, RemembersStep, <1>1, PTL DEF Spec
=============================================================================

---------------------------- MODULE CapacityWatcher ----------------------------
(***************************************************************************)
(* The capacity watch of one target across runs (internal/capacity,        *)
(* the watch closure of cmd/ocihood/main.go and the loop around it in      *)
(* internal/app/app.go): availability domains probed in rotation, progress *)
(* saved to the state file, interruption and resumption, --once, and the   *)
(* return to the watch when a launch finds the capacity gone.  Probes pass *)
(* through a circuit breaker that lives as long as one watch.              *)
(*                                                                         *)
(* One run at a time: the run lock.  Instants are kept as the time left    *)
(* until them, so the clock needs no bound.  A domain is a member of ADs;  *)
(* what a run discovers is a sequence of them, which may differ from run   *)
(* to run.                                                                 *)
(***************************************************************************)
EXTENDS Backoff, Circuit, Sequences, SequencesExt

CONSTANTS ADs,           \* availability domains
          NoAD,          \* the empty name
          ADLists,       \* what discovery may return: non-empty sequences, no repetition
          InitialInterval, MaxInterval, Jitter,  \* capacity.Config
          Guidance,      \* the Retry-After delays a throttling provider asks for
          MaxRetryCount  \* bound: the counter is not told apart beyond it, nor are
                         \* the delays, which are MaxInterval by then

ASSUME WatcherAssumption ==
    /\ NoAD \notin ADs
    /\ ADLists \subseteq Seq(ADs) \ {<< >>}
    /\ \A list \in ADLists : \A i, j \in 1 .. Len(list) : list[i] = list[j] => i = j
    /\ InitialInterval \in Durations /\ MaxInterval \in Durations
    /\ InitialInterval <= MaxInterval
    /\ Jitter \in 0 .. 100
    /\ Guidance \subseteq Nat \ {0}
    /\ MaxRetryCount \in Nat \ {0}
    /\ WatchDelay(InitialInterval, MaxInterval, MaxRetryCount) = MaxInterval

VARIABLES disk,      \* the watcher's part of the state file
          pc,        \* where the run stands
          once,      \* --once
          ads,       \* discovered.AvailabilityDomains
          nextAD,    \* state.NextAD, from 1 as sequences go
          startAD,   \* startAD
          retryCount,\* state.RetryCount
          delay,     \* the delay of the sleep to come
          timer,     \* what is left of the sleep under way
          circuit,   \* the breaker of the watch
          probed,    \* history: the domains this run has probed since it last slept
          recent     \* history: the failing answers this watch has received since
                     \* the last success, by age

runVars == <<once, ads, nextAD, startAD, retryCount, delay, timer, circuit, probed, recent>>
vars == <<disk, pc, runVars>>

PCs == {"idle", "resume", "probe", "save", "sleep", "launch"}

\* `left`: the time until NextAttempt, 0 if that is zero or past.
Records == [lastAD : ADs \cup {NoAD}, retryCount : 0 .. MaxRetryCount, left : Nat]

\* A watch that has ended has no circuit: one with nothing in it.
NoCircuit == InState("closed", 0)

Ages == 0 .. OpenTimeout - 1
NoFailures == [age \in Ages |-> 0]

Init == /\ disk = [lastAD |-> NoAD, retryCount |-> 0, left |-> 0]
        /\ pc = "idle"
        /\ once = FALSE
        /\ ads = << >>
        /\ nextAD = 1
        /\ startAD = 1
        /\ retryCount = 0
        /\ delay = 0
        /\ timer = 0
        /\ circuit = NoCircuit
        /\ probed = {}
        /\ recent = NoFailures

Goto(label) == pc' = label

Exit == /\ Goto("idle")
        /\ once' = FALSE
        /\ ads' = << >>
        /\ nextAD' = 1
        /\ startAD' = 1
        /\ retryCount' = 0
        /\ delay' = 0
        /\ timer' = 0
        /\ circuit' = NoCircuit
        /\ probed' = {}
        /\ recent' = NoFailures

Counted(n) == IF n < MaxRetryCount THEN n + 1 ELSE n

\* Faulty: runs off the end of the list.
Following_NoWrap(i) == i + 1

Following(i) == (i % Len(ads)) + 1

-----------------------------------------------------------------------------
\* A run reaches its watch: `ocihood start`, or again after OutOfCapacity.
Start == /\ pc = "idle"
         /\ Goto("resume")
         /\ once' \in BOOLEAN
         /\ ads' \in ADLists
         /\ UNCHANGED <<disk, nextAD, startAD, retryCount, delay, timer, circuit, probed, recent>>

\* Faulty: resumes with the domain that was probed last.
ResumeIndex_Same(list, lastAD) ==
    IF \E i \in 1 .. Len(list) : list[i] = lastAD
    THEN CHOOSE i \in 1 .. Len(list) : list[i] = lastAD
    ELSE 1

\* Store.Load, the domain that follows the last one, and the wait for the
\* persisted NextAttempt, which --once skips.
ResumeIndex(list, lastAD) ==
    IF \E i \in 1 .. Len(list) : list[i] = lastAD
    THEN Following(CHOOSE i \in 1 .. Len(list) : list[i] = lastAD)
    ELSE 1

\* Faulty: a restart forgets the delay.
Resume_AtOnce == /\ pc = "resume"
                 /\ nextAD' = ResumeIndex(ads, disk.lastAD)
                 /\ startAD' = nextAD'
                 /\ retryCount' = disk.retryCount
                 /\ circuit' = NewCircuit
                 /\ Goto("probe")
                 /\ UNCHANGED <<disk, once, ads, delay, timer, probed, recent>>

Resume == /\ pc = "resume"
          /\ nextAD' = ResumeIndex(ads, disk.lastAD)
          /\ startAD' = nextAD'
          /\ retryCount' = disk.retryCount
          /\ circuit' = NewCircuit
          /\ IF ~once /\ disk.left > 0
             THEN Goto("sleep") /\ timer' = disk.left
             ELSE Goto("probe") /\ UNCHANGED timer
          /\ UNCHANGED <<disk, once, ads, delay, probed, recent>>

-----------------------------------------------------------------------------
(* One probe and what becomes of its answer.                               *)

Probing == pc = "probe"
AD == ads[nextAD]

Saved(ad, left) == disk' = [lastAD |-> ad, retryCount |-> retryCount', left |-> left]

\* The provider is asked in time and its answer is of one of these kinds.
Answered(kinds) == Probing /\ Admits(circuit) /\ \E r \in Responses : Kind(r) \in kinds

CapacityFound ==
    /\ Answered({"available", "probe_unavailable"})
    /\ retryCount' = retryCount
    /\ Saved(AD, 0)
    /\ Goto("launch")
    /\ circuit' = NoCircuit
    /\ probed' = probed \cup {AD}
    /\ recent' = NoFailures
    /\ UNCHANGED <<once, ads, nextAD, startAD, delay, timer>>

CapacityFatal == /\ Answered({"fatal"})
                 /\ disk' = [lastAD |-> AD, retryCount |-> retryCount, left |-> 0]
                 /\ Exit

\* The Retry-After delay of an answer, 0 if it has none.
Guided(r) == IF Kind(r) = "throttled" THEN Guidance \cup {0} ELSE {0}

\* Unavailable, Throttled or Transient.  Any answer at all is Transient to
\* the watch when the deadline of the request passes as it arrives; the
\* circuit has counted it as what it was.
Asks(guided) ==
    /\ Admits(circuit)
    /\ \E r \in Responses :
          /\ guided \in Guided(r)
          /\ circuit' \in After(circuit, Outcome(Kind(r)))
          /\ recent' = CASE Kind(r) \in {"throttled", "transient"} -> [recent EXCEPT ![0] = @ + 1]
                         [] Kind(r) = "available" -> NoFailures
                         [] OTHER -> recent

\* BreakerClient.Probe: an open circuit answers Transient by itself.
Refused(guided) == /\ ~Admits(circuit)
                   /\ guided = 0
                   /\ UNCHANGED <<circuit, recent>>

Rotates(guided) == /\ Probing
                   /\ Asks(guided) \/ Refused(guided)
                   /\ nextAD' = Following(nextAD)
                   /\ probed' = probed \cup {AD}
                   /\ UNCHANGED <<ads, startAD, once>>

\* Faulty: the round ends at the first domain, not where it began.
OnceEnds_AtFirst == /\ Probing
                    /\ once
                    /\ Following(nextAD) = 1
                    /\ disk' = [lastAD |-> AD, retryCount |-> retryCount, left |-> 0]
                    /\ Exit

\* --once has been round: the result is Unavailable.
OnceEnds == /\ Probing
            /\ once
            /\ Following(nextAD) = startAD
            /\ disk' = [lastAD |-> AD, retryCount |-> retryCount, left |-> 0]
            /\ Exit

NextDomain ==
    /\ \E guided \in Guidance \cup {0} :
          /\ Rotates(guided)
          /\ \/ once /\ nextAD' # startAD
             \/ ~once /\ nextAD' # 1 /\ guided = 0
    /\ Goto("probe")
    /\ UNCHANGED <<disk, retryCount, delay, timer>>

\* Faulty: --once waits as well.
Wait_Once(guided) ==
    /\ Rotates(guided)
    /\ nextAD' = 1 \/ guided > 0
    /\ retryCount' = Counted(retryCount)
    /\ \E d \in Jittered(WatchDelay(InitialInterval, MaxInterval, retryCount'),
                         MaxInterval, Jitter) :
          /\ delay' = IF guided > d THEN guided ELSE d
          /\ Saved(AD, delay')
    /\ Goto("save")
    /\ UNCHANGED timer

\* A negative delay gives way to an answer without guidance: no wait.
Wait(guided) ==
    /\ Rotates(guided)
    /\ ~once
    /\ nextAD' = 1 \/ guided > 0
    /\ retryCount' = Counted(retryCount)
    /\ \E d \in Jittered(WatchDelay(InitialInterval, MaxInterval, retryCount'),
                         MaxInterval, Jitter) :
          /\ delay' = IF guided > d THEN guided ELSE d
          /\ Saved(AD, delay')
    /\ Goto("save")
    /\ UNCHANGED timer

BackOff == \E guided \in Guidance \cup {0} : Wait(guided)

\* The sleep starts after the write.
Sleep == /\ pc = "save"
         /\ timer' = delay
         /\ delay' = 0
         /\ Goto("sleep")
         /\ UNCHANGED <<disk, once, ads, nextAD, startAD, retryCount, circuit, probed, recent>>

Wake == /\ pc = "sleep"
        /\ timer = 0
        /\ Goto("probe")
        /\ probed' = {}
        /\ UNCHANGED <<disk, once, ads, nextAD, startAD, retryCount, delay, timer, circuit, recent>>

-----------------------------------------------------------------------------
\* The launch finds no capacity: --once ends, a normal run watches again.
LaunchOutOfCapacity ==
    /\ pc = "launch"
    /\ IF once THEN Exit
       ELSE /\ Goto("resume")
            /\ UNCHANGED runVars
    /\ UNCHANGED disk

\* Success, error, cancellation, crash, a write that fails, an unknown answer.
Stop == /\ pc # "idle"
        /\ Exit
        /\ UNCHANGED disk

TimeMatters == \/ timer > 0 \/ disk.left > 0 \/ circuit.left > 0
               \/ recent # NoFailures

Tick == /\ TimeMatters
        /\ timer' = IF timer > 0 THEN timer - 1 ELSE 0
        /\ disk' = [disk EXCEPT !.left = IF @ > 0 THEN @ - 1 ELSE 0]
        /\ circuit' = Elapsed(circuit)
        /\ recent' = [age \in Ages |-> IF age = 0 THEN 0 ELSE recent[age - 1]]
        /\ UNCHANGED <<pc, once, ads, nextAD, startAD, retryCount, delay, probed>>

Probe == CapacityFound \/ CapacityFatal \/ OnceEnds \/ NextDomain \/ BackOff

Next == \/ Start \/ Resume \/ Probe \/ Sleep \/ Wake
        \/ LaunchOutOfCapacity \/ Stop \/ Tick

Spec == Init /\ [][Next]_vars

(* The steps of a running watch happen: probes are answered within          *)
(* request_timeout, writes return, time passes.  Nothing makes anybody      *)
(* start it, and nothing says what the probes answer.                       *)
Fairness == /\ WF_vars(Resume) /\ WF_vars(Probe) /\ WF_vars(Sleep) /\ WF_vars(Wake)
            /\ WF_vars(pc = "launch" /\ (LaunchOutOfCapacity \/ Stop))
            /\ WF_vars(Tick)

FairSpec == Spec /\ Fairness

-----------------------------------------------------------------------------
TypeOK == /\ disk \in Records
          /\ pc \in PCs
          /\ once \in BOOLEAN
          /\ ads \in ADLists \cup {<< >>}
          /\ pc # "idle" => nextAD \in 1 .. Len(ads) \cup {1}
          /\ startAD \in 1 .. Len(ads) \cup {1}
          /\ retryCount \in 0 .. MaxRetryCount
          /\ delay \in Nat /\ timer \in Nat
          /\ circuit \in Circuits
          /\ probed \subseteq ADs
          /\ recent \in [Ages -> Nat]

(* README: "--once probes each eligible availability domain at most once",  *)
(* and reports no capacity only when it has come to every one of them,      *)
(* wherever an earlier run has left the rotation.                           *)
OnceProbesEachOnce ==
    /\ [][once /\ Probe => AD \notin probed]_vars
    /\ [][OnceEnds => probed \cup {AD} = ToSet(ads)]_vars

(* README: "restart resumes after the persisted delay": a normal run never  *)
(* probes before the persisted next attempt is due, not even when the wait  *)
(* was interrupted at any point and by any number of restarts.              *)
DelayHonoured == [][~once /\ Probe => disk.left = 0]_vars

(* capacity.go:98, "Watch rotates through every AD": a normal run that      *)
(* keeps watching comes to each of its domains, whatever the others answer, *)
(* however throttled they are, and even if one of them always reports a     *)
(* capacity that no launch then finds; and it asks the provider about each, *)
(* unless failing answers recur for ever and keep the shared circuit shut.  *)
Watching(ad) == pc = "probe" /\ ~once /\ ad \in ToSet(ads)
Reached(ad)  == pc = "probe" /\ AD = ad
EveryDomainProbed ==
    \A ad \in ADs :
        /\ Watching(ad) ~> (pc = "idle" \/ Reached(ad))
        /\ \/ []<>(recent # NoFailures)
           \/ Watching(ad) ~> (pc = "idle" \/ (Reached(ad) /\ Admits(circuit)))

(* README: "--once ... returns no_capacity without sleeping": a --once run  *)
(* leaves the watch by itself and never waits on its way.                   *)
OnceLeaves == /\ (once /\ pc = "resume") ~> (pc \in {"idle", "launch"})
              /\ [](once => pc \notin {"save", "sleep"} /\ timer = 0)

(* README: "AD rotation cannot bypass an open breaker": however the probes  *)
(* of the domains, the waits and the ends of the counting interval follow   *)
(* each other, a watch gets at most twice Failures failing answers within   *)
(* OpenTimeout and without a success (some before the counts are cleared,   *)
(* one that is dropped, and Failures after).  It holds if the counting      *)
(* interval is longer than OpenTimeout, as by default: 300 and 60 seconds.  *)
FailuresBounded == FoldFunction(+, 0, recent) <= 2 * Failures

(* README: "the breaker only fast-fails sustained ... failures": a probe is *)
(* never refused unless the provider has failed within OpenTimeout, so that *)
(* a circuit cannot stay shut for ever.                                     *)
RefusesOnlyAfterFailure == Probing /\ ~Admits(circuit) => recent # NoFailures
=============================================================================

# OCIHood in TLA+

OCIHood launches one instance on Oracle Cloud Infrastructure and keeps trying
until the provider has capacity for it. The hard promise is *one*: whatever is
interrupted, lost, repeated or started twice, a target must not end up with two
instances, and an instance that was launched must not be forgotten. This
directory models the code that keeps that promise, checks it with TLC and proves
the parts that matter most with TLAPS.

Paths below are relative to `src/internal` unless they start with `src/`.

## The system

| Part | State | Operations | Interacts with |
|---|---|---|---|
| Application runner (`app/app.go`) | one run: its listing, decision, attempt | `Run`, `Plan`, `Images` | all of the below, in order: discover, lock, reconcile, watch, launch |
| Reconciliation (`reconcile/reconcile.go`) | none, pure | `Decide`, `NewAttempt`, `IsOwned` | called under the lock on the record and an earlier listing |
| Capacity watcher (`capacity`) | position in the rotation, retry count, next attempt (saved) | `Watch`, `Load`, `Save` | capacity probes; state file; runner calls it again after a launch without capacity |
| Launch orchestrator (`launch`) | retry counter, instance followed | `Run`, `Accepted`, `Finished`, `Failed` | provider; state file |
| State store (`state/state.go`) | one JSON file per target, `.lock`, `.run.lock` | `TryRunLock`, `TryLock`, `Load`, `Save` | shared by all processes of the host |
| Provider adapters (`provider/oci/*`) | none | `Instances`, `Probe`, `Launch`, `Reconcile`, `Get` | OCI |
| OCI itself | instances, life cycles, retry tokens it remembers | | external |
| Circuit breaker (`breaker`, `*/breaker.go`) | state and consecutive failures of one operation family, for one watch or one launch | `Do` | wraps probe and compute calls |
| Discovery (`discovery`) | the page and the items of the listing being read | `Discover`, `Images` | listings of OCI; its target names the record and the locks of the run |
| Configuration (`config/config.go`) | none: a file, an account and flags make one effective configuration | `Load`, `Resolve`, `ApplyOverrides`, `EvaluatePolicy` | what the watcher, the orchestrator and the circuit are built with |
| Command line (`cli/cli.go`, `src/cmd/ocihood/main.go`) | the context of a run | `start`, `commandResult` | signals, `--max-runtime`; calls the runner and turns its result into an exit code |
| Notifications (`notification`) | none | `Notify` | called by the runner between its phases, never part of its outcome |
| Provisioner, authentication | none | `Execute`, `New`, `Validate` | one call each before discovery |

What makes it correct, part by part:

* reconciliation: never two launches for one attempt window, never an unowned
  instance, the same decision after a restart;
* runner: the attempt is durable before it is used; one run at a time; no history of
  interruptions keeps a target from its instance;
* watcher: every domain is probed, waits survive restarts, `--once` never waits;
* orchestrator: ambiguous answers are retried with the same token within a
  budget; an accepted instance is recorded before it is followed;
* circuit: at most twice as many failures as configured reach the provider within the
  timeout of an open circuit and without a success, and a request is refused only
  after failures;
* discovery: the target does not depend on how listings are cut and ordered;
* store: an update is atomic, exclusive and durable;
* command: exit code, record and notifications tell the same story, and an
  interrupted run ends without recording a failure that has not happened;
* configuration: what is accepted at the start is not refused by a later
  component, and the policy has judged what is launched.

What is hard: the listing is older than the lock (`app/app.go:173` and `:205`);
an attempt's 24 hours run from the moment it is saved, through capacity waits,
and are not looked at again before the call; a timed-out call may have been
executed, or be executed later; listings may lag; the process may stop anywhere;
users act on the instance while it is followed; a cancelled context ends the
run's phases at different places, and its own last notification with them. `PROJECT.json` lists these hazards with their
lines and the properties that cover them.

## The modules

    Reconcile ──> ReconcileLoop ──> MCReconcileLoop
        │              └─ ReconcileLoopProofs
        └──> Cloud ──> Provisioning ──> MCProvisioning
               │            └─ ProvisioningProofs
               └──> LaunchOrchestrator ──> MCLaunchOrchestrator
               ┌──>      └─ LaunchProofs;  implements LaunchContract
    Backoff ───┼──> CapacityWatcher ──> MCCapacityWatcher
    Circuit ───┼──────────┘ └─ WatcherProofs
               └──> MCBackoff ──> MCAlgorithms
    Discovery ──────────┼─────────────┤
    Configuration ──────┼─────────────┘
                        └─ AlgorithmProofs
    Command ──> MCCommand, CommandProofs
    StateStore ──> MCStateStore, StateStoreProofs;  implements AtomicRecord

An arrow is EXTENDS. **OperatorLemmas** extends Reconcile and Backoff with what
their operators return, and all proof modules except CommandProofs and
StateStoreProofs extend it.

**Reconcile** is `Decide`, the ownership contract, attempts, and what
`reconcileAndPersist` and `newAttemptAndPersist` save. An attempt is its token
and its deadline (the attempt id is a prefix of the token), a set of tags is the
subset of the three contract tags that match the target, time is a number.

**ReconcileLoop** runs reconcile-and-save against any sequence of listings and
clock readings, also from records with half an attempt, which `Load` accepts.

**Cloud** is external: what the code relies on in OCI. A launch is idempotent
per retry token while the token is remembered; a listing may miss launched
instances (`ListLag`); users stop, start and terminate (`UserActs`). Its shape
follows the provider that `app/crash_test.go` substitutes; the translation of
life cycles is `provider/oci/discovery`. `STOPPED` stands for the three active
states that are not `RUNNING`.

**Provisioning** is `Runner.Run` for one target, by any number of processes:
`Discover` (before the lock), `LockBusy`, `ReconcileAndPersist` (one action per
decision), the capacity watch, the launch with its answers, `Rotate`
(`newAttemptAndPersist`), `PersistAccepted`, the poll and `PersistFinished`.
`pc` is the place in `Run`: `discovered`, `watch`, `launch`, `retry` (a launch
whose answer was ambiguous), `rotate`, `accepted` (not saved yet), `poll`,
`finish`. `Stop` ends a process between any two steps: a signal, a crash, a
failed write, an error that saves nothing. One action is one durable write or
one provider call. `LateRequests` says what becomes of a request that has timed
out and was not executed: nothing; it is executed before a later one of its token
is answered; or at any time. A `Save` is one step here because `StateStore` implements
that; the launch is folded up because `LaunchOrchestrator` implements its part.

**LaunchOrchestrator** is one call of `Orchestrator.Run` with both retry loops,
the reconciled service limit, the poll and the bounded lookup of the public
address; **LaunchContract** is what it promises about the record.

**CapacityWatcher** is `Watch` with the resume logic of
`src/cmd/ocihood/main.go` across runs; instants are kept as the time left until
them, so its clock needs no bound. Every probe goes through the circuit; the
variable `recent` is history, the failing answers since the last success with
their ages, and no action reads it. **Backoff** has both exponential backoffs on
integers of a given width, which wrap around as Go's do. The watcher's jitter is a
product of floats that is converted back: when it leaves the range of a duration,
`Converted` yields what amd64 and arm64 make of it.

**Circuit** is the breaker of one operation family: `ReadyToTrip` and `Outcome`
are OCIHood's, the automaton is gobreaker's and external. `main.go` makes a new
circuit for every watch (`src/cmd/ocihood/main.go:71`), so a circuit never survives one; within a watch
only a success closes it, and a success ends the watch, so that after one trip a
single failure opens it again. `ExclusionReleases` names what is assumed of
gobreaker: an answer that is not counted (no capacity, a refused probe) gives its
half-open place back. Were that false, a watch in a region without capacity would
be refused for ever, and `RefusesOnlyAfterFailure` would fail. The circuit around
compute calls is not counted in LaunchOrchestrator: being open is one of its
transient answers.

**Discovery** is one call of `Discover`: the listings page by page, in any cut and
order and with tokens that may repeat, and the selection of shape, image, VCN
and subnet. `sort.Slice` is not stable: `NewestFirst` is every order that its
comparison allows. With `image_id: ubuntu` the selected image, and with it the target,
changes when a newer one is published.

**Configuration** is how file, account and flags become one configuration:
`Load` (with `Validate`), `ApplyOverrides` (with the names and ids of a network
that exclude each other) and `Judge`, the checks of discovery's input and of the
policy. A layer maps settings to values or to `Unset`, as nil pointers do.
`WatcherAccepts`, `LaunchAccepts` and `CircuitAccepts` are the checks that later
components make of what they are handed.

**Command** is `ocihood start` from its flags to its exit code, by several
processes whose runs follow each other. Where Provisioning keeps attempts and
instances and ends a run anywhere for no reason, Command keeps the reasons: `ctx`
is the context (`Signal`, `Deadline`), `error` what `commandResult` tells apart in
the returned error, and every phase of `Run` is a value of `pc`. Each of `Run`'s
notifications is an action, which may deliver, fail, or fail although it was
delivered; `undelivered` and `noted` separate that from what the printed result
says. `paused`, `told`, `resumes`, `saved` and `foundWaiting` are history. The
watch and the launch are folded to their outcomes and saves, the record to its
life cycle.

**StateStore** takes `TryLock`, `Load`, `Save`, `Close` step by step, with a
failure or a kill at each and power losses; **AtomicRecord** is the promise.

Operators whose comment starts with "Faulty:" are deliberate errors, one per
property: a property is worth having if the model with that error breaks it. They
are not part of any specification.

## The runs

| Run (cfg) | Checks | Shows |
|---|---|---|
| `reconcile_loop` | `TypeOK`, `RestartKeepsDecision`, `TokenReplacedOnlyWhenExpired`, `NeverClaimsUnowned`, `IncompleteNeverReplaced` | the decision layer alone, against arbitrary listings |
| `window` (Window) | `AtMostOneLive`, `NoOrphan`, `LaunchesPersistedAttempt`, `ForeignUntouched`, `RunningWasActive`, `NeverForgets`, `TypeOK` | two runs, lost answers, late requests, lag, user actions; the attempt does not expire |
| `expiry` (Expiry) | `AtMostOneLive`, `NoOrphan`, `NeverForgets` | one run at a time over three validity windows, prompt listings |
| `progress` (Progress) | `Converges` | liveness; lag, and late requests in any order, included |
| `launch` (Launch) | `TypeOK`, `RetriesWithinBudget`, `KeepsContract`, `Returns` | one orchestrator call, safety, refinement and liveness |
| `command` (Command) | `TypeOK`, `EndsAsRecorded`, `WaitToldAsRecorded`, `EndReported`, `InterruptionEnds` | two processes, every phase failing or interrupted: codes, records and notifications agree, and interruptions end runs |
| `algorithms` (Algorithms) | `BackoffsDouble`, `AsInventoried`, `AcceptedIsUsable`, `DiscoveryEnds` | three families side by side: all pairs of bounds of a 6-bit duration, which the jitter may leave; all pagings of small inventories; layers of settings that contradict each other |
| `watch` (Watch) | `TypeOK`, `FailuresBounded`, `RefusesOnlyAfterFailure`, `OnceProbesEachOnce`, `DelayHonoured`, `EveryDomainProbed`, `OnceLeaves` | the watch and its circuit across restarts and changing domains |
| `state_store` (StateStore) | `TypeOK`, `AlwaysReadable`, `IsAtomic` | two writers, failures everywhere, power losses |
| `expiry_two_runs` (ExpiryTwoRuns) | violates `AtMostOneLive` | finding 1 |
| `address_lookup` (AddressLookup) | violates `FinishesRunning` | finding 2 |
| `exit_code` (ExitCode) | violates `DeadlineIsMaxRuntime` | finding 3 |

### Findings

1. *Two instances after an expiry* (`app/app.go:211`, `:249`). Run B lists an
   empty compartment while run A is launching. A's launch takes effect, its
   answers are lost, A ends. B takes the lock, retries A's token on the strength
   of its old listing, and waits for capacity until the token has expired; the
   provider has forgotten it and creates another instance. The crash tests
   demand at most one. Listing again under the lock, and checking the deadline
   before the call, would close it. The same happens to a single run if a
   listing lags for as long as the attempt is valid.
2. *A terminated instance recorded as running* (`launch/launch.go:172`). The
   public address is looked up in a loop that never looks at the state again.
3. *Exit code 124 without `--max-runtime`* (`cli/cli.go:343`). The last launch
   request of a retry budget times out; its `context.DeadlineExceeded` is wrapped in
   the error of the exhausted budget, and `commandResult` takes it for the deadline
   of the run: 124, "maximum runtime exceeded", instead of the documented 4.

Six more behaviours have no run. An instance that somebody stops, or
whose `Get` always fails, is polled without limit while the run lock is held
(`launch/launch.go:190`); `Returns` excludes exactly that.
And an instance that somebody terminates within 24 hours of its launch cannot be
replaced until the attempt expires, because the retry returns it again.
Capacity that is reported and then not found by the launch makes the run alternate
between the two without any wait (`app/app.go:262`): the next watch starts with
its first probe at once. And a domain that keeps failing takes the half-open
request of the circuit that all domains share, in every rotation: the probes of
the others are refused without being sent. `src/README.md:155` documents that a
rotation does not bypass an open circuit, so this is a condition of
`EveryDomainProbed` (every domain is really asked, unless failing answers recur for
ever) and no finding. A listing whose every page names a token that has not been seen
is read without end (`discovery/discovery.go:181`): only repeated tokens are noticed,
which is why `DiscoveryEnds` assumes finitely many (`TokensAssumption`). And `retry_max`
has no upper limit: if a delay and its jitter exceed 292 years, the conversion back to
a duration (`capacity/capacity.go:204`) yields on amd64 a negative delay, which is below
the maximum, and the watch goes on without the wait that `src/README.md:150` promises.
`BackoffsDouble` states this as its only exception, and `watch` includes such delays.

### Bounds

* Provisioning: two processes, because every interaction goes through the state
  file and the run lock, which two suffice to contend for; three instances and
  one foreign, so that a duplicate can appear beside one that predates the state
  file; two or three tokens, for one or two rotations or expiries
  (`LaunchOutOfCapacity` stops rotating when none is left); a validity of 1 to 3
  ticks and a clock of 1 to 6, so that expiries fall before, inside and after
  every phase. The theorems need none of these bounds.
* `progress`: one process; another can only be refused by the lock
  (`LaunchesPersistedAttempt`). No user acts, or nothing would have to run.
* LaunchOrchestrator: retry bounds with no retry, with one, and with a maximum
  that is no power of two times the minimum; one token; an instance to follow.
* CapacityWatcher: lists of one and three domains and one that has lost its
  first; two Retry-After delays, one below and one above the maximum; 50% jitter
  so that it changes small delays, and 4-bit durations, which the longest jittered
  delay leaves. Beyond `MaxRetryCount` the delay is constant.
  The circuit opens after two failures for two ticks and counts for three, so
  that both can end before and after a wait of up to seven ticks.
* Discovery: up to three of six images (usable or not, equal versions, equal
  dates), networks with none, one and two candidates, two page tokens, so that a
  token can repeat after one page and after two (finitely many are an assumption of
  `DiscoveryEnds`). The inventory stands still.
* Configuration: each group of settings that are compared with each other (retry
  bounds, sizes and their limits, shapes, chats, ranges, networks), set or unset in
  every layer, below, at and beyond its limit; groups do not meet in the code.
* Command: two processes and one target, so that one is refused or takes over at
  any step of the other; the first with every combination of `--once` and
  `--max-runtime` and with notifications, the second with none of the three. `exit_code` has
  one process in every mode. Resumed events are counted to two.
* Backoff: 6 bits, so that 20% jitter takes the delays from 27 on out of range; the retry counter exceeds the number of doublings.
* StateStore: eight updates; the refinement is proved without a bound.
* ReconcileLoop: two instances in every life cycle, owned or not; a clock of
  three validity windows.

Symmetry is used for processes, tokens and not yet created instances in runs
without liveness. Deadlock is checked except where the run really ends: one
orchestrator call, the bounded number of updates, the bounded retry counter.

### Fairness

A process that can take a step takes it (weak fairness on reconciliation, saves,
and on getting a definite answer to a launch, because the retry budget ends the
ambiguous ones); the provider completes provisioning and termination; time
passes; a sleep ends; a discovery goes on (`DiscoveryEnds`). Nothing is assumed of
the capacity, of polls, of errors, of users or of anybody starting the tool. `InterruptionEnds`
assumes that a run goes on with what depends on nobody else, that a call or a
sleep ends with its context (`LaunchInterrupted`, `WatchInterrupted`: every request
is made with it, every sleep selects on it), that a notification ends within its
bound, and that the time of `--max-runtime` passes. `Returns` also uses strong fairness of seeing
RUNNING or a terminal state: if it can be seen again and again, a poll does.
`Converges` is an implication: under `Persistence` (a supervisor that starts the
tool for ever, steps that are eventually granted in spite of earlier
interruptions) the target keeps coming back to running, unless a late request has
made a second instance, which every run then reports as a conflict.

## The proofs

Eight modules, every leaf checked by tlapm. All safety properties of the passing runs are
proved, each for every value of the constants that satisfies the named
assumptions; the theorems need none of the bounds above.

* **OperatorLemmas**: the facts the others cite. The cases of `Decide`, what
  `Persisted` saves and what a new attempt is, so that no other proof opens them.
  Powers of two and the backoffs: a backoff is a recursive function, and what it
  computes for every number of turns takes an induction. Induction is derived
  from the well-foundedness of the natural numbers and stated about *sets*
  (`Induction`: a set with 0 and with every successor of its members holds all
  of them), which needs no operator as a parameter.
* **ReconcileLoopProofs**: `LoopTypeOK`, and from the invariant `LoopInv`
  (types; no record without a state file has an attempt) the action properties
  `TokenReplacement`, `UnownedNeverClaimed`, `IncompleteRecord` and
  `RestartKeepsDecisionAlways`.
* **ProvisioningProofs**, in five parts.
  *Types and ownership* (`TypeCorrect`, `LaunchIsPersisted`) need each other:
  `Typing` gives each process's place and values, `Owning` says that whoever is past
  the lock holds it and, until acceptance, has the persisted attempt in memory. No
  assumption on time, listings or messages.
  *Soundness* (`UnrelatedUntouched`, `RunningIsTrue`), with the same generality: where
  an instance id can come from. The provider binds tokens only to managed instances,
  and listings, answers, memory and disk hold only those; that something was
  seen active stays true of it, since it never returns to provisioning.
  *The window* (`OneLiveInstance`, `LiveInstanceRecoverable`), assuming
  `~AttemptsLapse` (the clock does not reach the deadline of the persisted
  attempt) and `LateRequests # "anyOrder"`. Neither property is inductive. `Window` adds:
  every instance that was launched is bound to the one token on disk
  (`Binding`); that token is valid, so the provider remembers it (`Fresh`); it
  is rotated only while nothing is bound to it (`Unbound`); every existing
  managed instance predates the file or is bound (`Accounted`); and a token was
  minted only after the predecessor was gone (`Predecessor`), which a listing
  taken before the lock still tells, since terminated instances stay terminated.
  `Underway` is what a late request may still do: only those of the token on disk
  are under way, and none once an answer has closed the attempt.
  *The record* (`RecordKept`), under the same assumptions: the id of a live instance is
  never overwritten. `Single` is what the argument takes from the window: a live
  instance stands alone, answers every launch call, and outlasts no rotation.
  `Recorded` says that whoever is about to write an id writes that of the recorded
  instance, if that one is live.
  *Across expiries* (`OneLiveAcrossExpiries`, `RecoverableAcrossExpiries`,
  `RecordKeptAcrossExpiries`): any number of validity windows, for runs that follow
  each other, each killed anywhere, assuming prompt listings (`~ListLag`), retries of
  one launch within the provider's memory (`~LongRetries`) and
  `LateRequests = "never"`. `OneRun` says that nothing is live while the run waits,
  launches or rotates. Finding 1 is what happens without these assumptions.
* **LaunchProofs**: `LaunchKeepsContract`, initial states and steps of one
  orchestrator call map to `LaunchContract` (`Record` is what a step on the record has
  to know); `LaunchTypes` (`Values`); and `BudgetBoundsRetries`: whenever the
  loop sleeps, the minimum doubled as often as it was retried is still below the
  maximum (`Budget`), and so the retries are no more than the doublings, for any bounds
  and any width of a duration.
* **WatcherProofs**: `WatchTypes`, where the position in the rotation is
  the delicate part, since a restart may bring a shorter list (`Placed`);
  `RestartHonoursDelay` and `OnceNeverWaits` from `Waits`, which says at each place what
  is left of the persisted delay; `OnceGoesRound` from `Round`, the places that have been
  passed in the ring; `RefusalHasReason` from `Guarded`: a circuit that is open was opened
  by a failure as old as the circuit is open, and a half-open one has all its
  places, given `ExclusionReleases`. `FewFailuresWithinTimeout` is the hardest:
  `Tallied` relates what the circuit has counted in each of its states to how many
  failures are younger than each age (`Younger`), and needs
  `OpenTimeout < Interval`. The sum of all ages is a fold in no particular order;
  it is counted from the youngest age on first.
* **AlgorithmProofs**: `BackoffsAlwaysDouble`, that the wrapping integers of the code
  compute the doubled minimum up to the maximum, for any width, and that the jittered
  delay of the watch is within its bounds unless it leaves the range of a duration;
  `AcceptedAlwaysUsable`, from `Composed`: which layers have been checked at each step
  and what the result is made of, then setting by setting; and
  `ResolvesAsInventoried`, from `Discovered`: what has been read is part of the listing
  and has nothing twice (`Reads`), so that a complete listing is an enumeration
  of it, and what has been selected is what the inventory determines (`Selected`).
  `SelectImageFacts` is its heart: in every order that `NewestFirst` allows, the first
  place of the highest version is the same image.
* **CommandProofs**: `CommandTypes`, `CodesTellRecords`, `WaitsToldAsRecorded` and
  `EndsReported`, from one invariant, `Agreement`: what a run has saved, said and
  come to at each of its phases (`Good`), which depends on nobody else; that the
  record is its own while it holds the lock (`Holds`); and that the record was
  waiting exactly when the run says so, and was not called paused since (`Finds`).
  Three lemmas do the work of the thirty actions: a run that goes on without
  touching what is shared (`Local`), one that saves (`Written`) and one that lets
  the lock go (`Releases`). No error a run saves is a cancellation, and no
  interrupted run has saved a failure: this is why 130 and `failed` exclude each other.
* **StateStoreProofs**: `StoreTypes`, `StoreReadable` and `StoreIsAtomic`, from: files are
  renamed only when synced, the medium lies between the acknowledged and the
  current record, the lock holder saves the successor of the current record.

Assumptions on constants are named in the modules that declare them:
`Validity <= Retention` (the code's 24 hours rely on the provider remembering a
token that long), at most one instance that predates the state file, finite
listings whose images have ids of their own, null values outside their sets.

Only model-checked:

* liveness, which with ENABLED is out of the prover's reach:
  `Converges`, `Returns`, `InterruptionEnds`, `EveryDomainProbed`, `DiscoveryEnds` and
  the liveness half of `OnceLeaves`;
* nothing is proved of `FailuresBounded` when the counting interval is not longer than
  the timeout of an open circuit. `Validate` accepts such settings, and TLC finds
  more failures than the bound then, since the counts are cleared more than once
  within the timeout. The defaults are 300 and 60 seconds.

## Not modelled

* A request that the provider executes after it has answered a later one of the
  same token (`LateRequests = "anyOrder"`) is in the model, in `progress` and in
  the soundness part of ProvisioningProofs, but not in the runs for `AtMostOneLive`: the code takes
  OutOfCapacity as the end of the attempt and rotates to a new token, so that
  `AtMostOneLive` is then the provider's to keep.
* The counting of the circuit around compute calls; inventories that change during
  a discovery; construction of clients, YAML, paths and output formats; `plan`,
  `images`, `status` and `config`, which only read. In Command, the timeout that the
  SDK's HTTP client may put on discovery and authentication.
* The short `.lock` in Provisioning: only the holder of the run lock takes it.
* The domain of a launch: a token retried after a restart may carry another
  domain; what the provider answers is among the modelled answers.

## Plan

1. Done: the modules, runs and theorems above.
2. Model: the circuit around compute calls inside LaunchOrchestrator; an inventory
   that changes between two runs (another image, another target).
3. Compose: Provisioning implements LaunchContract per launch, Command's life cycle
   is the one of Provisioning's record, and the watcher's record is part of it.
4. Prove: the composition of 3, step by step; several runs across expiries
   once the code lists again under the lock (finding 1).

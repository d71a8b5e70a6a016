----------------------------- MODULE Provisioning -----------------------------
(***************************************************************************)
(* `ocihood start` for one target, end to end: any number of processes on  *)
(* one host, their durable state file, their run lock and the cloud.       *)
(*                                                                         *)
(* One process executes Runner.Run (internal/app/app.go): it discovers,    *)
(* takes the run lock, reconciles and persists the decision, watches for   *)
(* capacity, launches with the persisted attempt and follows the instance  *)
(* until it runs.  The capacity watcher and the launch orchestrator appear *)
(* here with the steps that touch the state file or the cloud; modules     *)
(* CapacityWatcher and LaunchOrchestrator detail their loops.              *)
(*                                                                         *)
(* A process may stop between any two steps (Stop): SIGINT, --max-runtime, *)
(* a crash, a failed write or any error return that persists nothing.      *)
(* The short state lock (.lock) is only taken by the holder of the run     *)
(* lock, never contended, and therefore not modelled here.                 *)
(***************************************************************************)
EXTENDS Cloud

CONSTANTS Procs,          \* processes running `ocihood start`
          NoProc,         \* nobody holds the run lock
          MaxTime,        \* bound on the clock, for TLC only
          AttemptsLapse,  \* BOOLEAN: time may pass the deadline of the persisted attempt
          LongRetries,    \* BOOLEAN: time passes between two retries of a launch
          LateRequests,   \* a timed-out request may be executed later: "never"; before
                          \* a later one of its token is answered ("inOrder"); whenever
          OnceModes       \* the values of --once

ASSUME ProvisioningAssumption == /\ NoProc \notin Procs
                                 /\ MaxTime \in Nat
                                 /\ AttemptsLapse \in BOOLEAN
                                 /\ LongRetries \in BOOLEAN
                                 /\ LateRequests \in {"never", "inOrder", "anyOrder"}
                                 /\ OnceModes \subseteq BOOLEAN

VARIABLES now,        \* the wall clock
          disk,       \* the state file of the target
          runLock,    \* the holder of the .run.lock flock
          minted,     \* tokens already drawn from crypto/rand
          late,       \* timed-out requests still on their way
          pc,         \* where each process stands
          once,       \* its --once flag
          seen,       \* its `discovered.Instances`
          attempt,    \* its `decision.Attempt`
          instance    \* its `decision.InstanceID`, later the accepted instance

procVars == <<pc, once, seen, attempt, instance>>
vars == <<now, disk, runLock, minted, late, procVars, cloudVars>>

PCs == {"idle", "discovered", "watch", "launch", "retry", "rotate",
        "accepted", "poll", "finish"}

Init == /\ CloudInit
        /\ now = 0
        /\ disk = NoState
        /\ runLock = NoProc
        /\ minted = {}
        /\ late = {}
        /\ pc = [p \in Procs |-> "idle"]
        /\ once = [p \in Procs |-> FALSE]
        /\ seen = [p \in Procs |-> {}]
        /\ attempt = [p \in Procs |-> NoAttempt]
        /\ instance = [p \in Procs |-> NoInstance]

-----------------------------------------------------------------------------
Goto(p, label) == pc' = [pc EXCEPT ![p] = label]

\* The process ends; its flock and its memory go with it.
Exit(p) == /\ Goto(p, "idle")
           /\ runLock' = IF runLock = p THEN NoProc ELSE runLock
           /\ once' = [once EXCEPT ![p] = FALSE]
           /\ seen' = [seen EXCEPT ![p] = {}]
           /\ attempt' = [attempt EXCEPT ![p] = NoAttempt]
           /\ instance' = [instance EXCEPT ![p] = NoInstance]

\* Faulty: a run that ends closes its attempt.
ExitWith_ClosesAttempt(p, lifecycle) ==
    Exit(p) /\ disk' = [disk EXCEPT !.lifecycle = lifecycle, !.attempt = NoAttempt]

\* Exit after saving a lifecycle.
ExitWith(p, lifecycle) == Exit(p) /\ disk' = [disk EXCEPT !.lifecycle = lifecycle]

Mints(t) == t \in Tokens \ minted /\ minted' = minted \cup {t}

-----------------------------------------------------------------------------
(* Before the lock: configuration, authentication and discovery.           *)

Discover(p) ==
    /\ pc[p] = "idle"
    /\ Goto(p, "discovered")
    /\ \E o \in OnceModes : once' = [once EXCEPT ![p] = o]
    /\ \E s \in Listings : seen' = [seen EXCEPT ![p] = s]
    /\ UNCHANGED <<now, disk, runLock, minted, late, attempt, instance, cloudVars>>

\* TryRunLock does not wait.
LockBusy(p) ==
    /\ pc[p] = "discovered"
    /\ runLock # NoProc
    /\ Exit(p)
    /\ UNCHANGED <<now, disk, minted, late, cloudVars>>

\* Faulty: no run lock.
TakesLock_Unlocked(p) == pc[p] = "discovered"

(* TryRunLock and reconcileAndPersist.  The observations are those of the  *)
(* discovery, which may be older than the state read here.                 *)
TakesLock(p) == pc[p] = "discovered" /\ runLock = NoProc

MintAttempt(p) ==
    LET decision == Decide(disk, seen[p], now)
    IN  /\ TakesLock(p)
        /\ decision.kind \in CreateKinds
        /\ \E t \in Tokens :
              /\ Mints(t)
              /\ disk' = Persisted(disk, decision, NewAttempt(t, now))
              /\ attempt' = [attempt EXCEPT ![p] = NewAttempt(t, now)]
        /\ runLock' = p
        /\ seen' = [seen EXCEPT ![p] = {}]
        /\ Goto(p, "watch")
        /\ UNCHANGED <<now, late, once, instance, cloudVars>>

RetrySameAttempt(p) ==
    LET decision == Decide(disk, seen[p], now)
    IN  /\ TakesLock(p)
        /\ decision.kind = "RetrySameAttempt"
        /\ disk' = Persisted(disk, decision, NoAttempt)
        /\ attempt' = [attempt EXCEPT ![p] = disk.attempt]
        /\ runLock' = p
        /\ seen' = [seen EXCEPT ![p] = {}]
        /\ Goto(p, "watch")
        /\ UNCHANGED <<now, minted, late, once, instance, cloudVars>>

FollowInstance(p) ==
    LET decision == Decide(disk, seen[p], now)
    IN  /\ TakesLock(p)
        /\ decision.kind \in {"AlreadySatisfied", "ResumeReconcile"}
        /\ disk' = Persisted(disk, decision, NoAttempt)
        /\ instance' = [instance EXCEPT ![p] = decision.instance]
        /\ runLock' = p
        /\ seen' = [seen EXCEPT ![p] = {}]
        /\ Goto(p, "poll")
        /\ UNCHANGED <<now, minted, late, once, attempt, cloudVars>>

ReportConflict(p) ==
    LET decision == Decide(disk, seen[p], now)
    IN  /\ TakesLock(p)
        /\ decision.kind = "Conflict"
        /\ disk' = Persisted(disk, decision, NoAttempt)
        /\ Exit(p)
        /\ UNCHANGED <<now, minted, late, cloudVars>>

ReconcileAndPersist(p) == \/ MintAttempt(p) \/ RetrySameAttempt(p)
                          \/ FollowInstance(p) \/ ReportConflict(p)

-----------------------------------------------------------------------------
(* The capacity watch.                                                     *)

CapacityFound(p) ==
    /\ pc[p] = "watch"
    /\ Goto(p, "launch")
    /\ disk' = [disk EXCEPT !.lifecycle = "provisioning"]
    /\ UNCHANGED <<now, runLock, minted, late, once, seen, attempt, instance, cloudVars>>

\* No capacity: the progress is saved and the process sleeps.
CapacityWait(p) ==
    /\ pc[p] = "watch"
    /\ ~once[p]
    /\ disk' = [disk EXCEPT !.lifecycle = "waiting"]
    /\ UNCHANGED <<now, runLock, minted, late, procVars, cloudVars>>

CapacityNoneOnce(p) ==
    /\ pc[p] = "watch"
    /\ once[p]
    /\ ExitWith(p, "waiting")
    /\ UNCHANGED <<now, minted, late, cloudVars>>

CapacityFatal(p) ==
    /\ pc[p] = "watch"
    /\ ExitWith(p, "failed")
    /\ UNCHANGED <<now, minted, late, cloudVars>>

WatchStep(p) == \/ CapacityFound(p) \/ CapacityWait(p)
                \/ CapacityNoneOnce(p) \/ CapacityFatal(p)

-----------------------------------------------------------------------------
(* The launch.  Every call carries the token of the persisted attempt.     *)

\* About to call Provider.Launch, for the first time or again.
Calls(p) == pc[p] \in {"launch", "retry"}

LaunchAccepted(p) ==
    /\ Calls(p)
    /\ \E i \in Instances : /\ Executes(attempt[p].token, i, now)
                            /\ instance' = [instance EXCEPT ![p] = i]
    /\ Goto(p, "accepted")
    /\ UNCHANGED <<now, disk, runLock, minted, late, once, seen, attempt>>

\* A timeout, a lost response, a 429 or a 5xx: executed or not, the process
\* retries the same request.
LaunchAmbiguous(p) ==
    /\ Calls(p)
    /\ \/ MayExecute(attempt[p].token, now) /\ UNCHANGED late
       \/ /\ LateRequests # "never"
          /\ late' = late \cup {attempt[p].token}
          /\ UNCHANGED cloudVars
    /\ Goto(p, "retry")
    /\ UNCHANGED <<now, disk, runLock, minted, once, seen, attempt, instance>>

\* The retry budget ends with an ambiguous call, or the provider rejects
\* the request for good.
LaunchFails(p) ==
    /\ Calls(p)
    /\ MayExecute(attempt[p].token, now)
    /\ ExitWith(p, "failed")
    /\ UNCHANGED <<now, minted, late>>

\* The provider has no capacity: it holds no instance for the token, and, if
\* it keeps the order, no earlier request either.
LaunchOutOfCapacity(p) ==
    /\ Calls(p)
    /\ ~Remembers(attempt[p].token, now)
    /\ \/ once[p] /\ Exit(p)
       \/ /\ ~once[p]
          /\ minted # Tokens      \* bound: a token is left to rotate to
          /\ Goto(p, "rotate")
          /\ UNCHANGED <<runLock, once, seen, attempt, instance>>
    /\ late' = IF LateRequests = "inOrder" THEN late \ {attempt[p].token} ELSE late
    /\ UNCHANGED <<now, disk, minted, cloudVars>>

\* A service limit is reached: perhaps by an instance of the target itself.
\* Provider.Reconcile lists the managed instances that are not terminated.
LimitReconciled(p, found) ==
    \/ /\ \E i \in found : found = {i} /\ instance' = [instance EXCEPT ![p] = i]
       /\ Goto(p, "accepted")
       /\ UNCHANGED <<disk, runLock, once, seen, attempt>>
    \/ found = {} /\ ExitWith(p, "failed")
    \/ (\E i, j \in found : i # j) /\ Exit(p) /\ UNCHANGED disk

LaunchLimitExceeded(p) ==
    /\ Calls(p)
    /\ ~Remembers(attempt[p].token, now)
    /\ \E s \in Listings : LimitReconciled(p, {o.id : o \in LiveOwned(s)})
    /\ UNCHANGED <<now, minted, late, cloudVars>>

\* Faulty: saves the launch result as the lifecycle.
PersistAccepted_ResultAsLifecycle(p) ==
    /\ pc[p] = "accepted"
    /\ disk' = [disk EXCEPT !.lifecycle = "accepted", !.instance = instance[p]]
    /\ Goto(p, "poll")
    /\ UNCHANGED <<now, runLock, minted, late, once, seen, attempt, instance, cloudVars>>

\* Store.Accepted
PersistAccepted(p) ==
    /\ pc[p] = "accepted"
    /\ disk' = [disk EXCEPT !.lifecycle = "provisioning", !.instance = instance[p]]
    /\ Goto(p, "poll")
    /\ UNCHANGED <<now, runLock, minted, late, once, seen, attempt, instance, cloudVars>>

\* newAttemptAndPersist, after OutOfCapacity.
Rotate(p) ==
    /\ pc[p] = "rotate"
    /\ \E t \in Tokens :
          /\ Mints(t)
          /\ disk' = Rotated(disk, NewAttempt(t, now))
          /\ attempt' = [attempt EXCEPT ![p] = NewAttempt(t, now)]
    /\ Goto(p, "watch")
    /\ UNCHANGED <<now, runLock, late, once, seen, instance, cloudVars>>

LaunchStep(p) == \/ LaunchAccepted(p) \/ LaunchAmbiguous(p) \/ LaunchFails(p)
                 \/ LaunchOutOfCapacity(p) \/ LaunchLimitExceeded(p)
                 \/ PersistAccepted(p) \/ Rotate(p)

-----------------------------------------------------------------------------
(* Following the instance.                                                 *)

PollRunning(p) ==
    /\ pc[p] = "poll"
    /\ vm[instance[p]] = "RUNNING"
    /\ Goto(p, "finish")
    /\ UNCHANGED <<now, disk, runLock, minted, late, once, seen, attempt, instance, cloudVars>>

PollTerminal(p) ==
    /\ pc[p] = "poll"
    /\ vm[instance[p]] \in {"TERMINATING", "TERMINATED"}
    /\ ExitWith(p, "failed")
    /\ UNCHANGED <<now, minted, late, cloudVars>>

\* The provider rejects GetInstance for good.
PollRejected(p) ==
    /\ pc[p] = "poll"
    /\ ExitWith(p, "failed")
    /\ UNCHANGED <<now, minted, late, cloudVars>>

\* Store.Finished; the run succeeds.
PersistFinished(p) ==
    /\ pc[p] = "finish"
    /\ Exit(p)
    /\ disk' = [disk EXCEPT !.lifecycle = "running", !.instance = instance[p]]
    /\ UNCHANGED <<now, minted, late, cloudVars>>

PollStep(p) == PollRunning(p) \/ PollTerminal(p) \/ PollRejected(p) \/ PersistFinished(p)

-----------------------------------------------------------------------------
Stop(p) == /\ pc[p] # "idle"
           /\ Exit(p)
           /\ UNCHANGED <<now, disk, minted, late, cloudVars>>

\* A request that timed out at the client reaches the provider.
LateExecute(t) == /\ t \in late
                  /\ late' = late \ {t}
                  /\ \E i \in Instances : Executes(t, i, now)
                  /\ UNCHANGED <<now, disk, runLock, minted, procVars>>

Lapses == HasAttempt(disk.attempt) /\ now + 1 >= disk.attempt.validTo

Tick == /\ now < MaxTime
        /\ AttemptsLapse \/ ~Lapses
        /\ LongRetries \/ \A p \in Procs : pc[p] # "retry"
        /\ now' = now + 1
        /\ UNCHANGED <<disk, runLock, minted, late, procVars, cloudVars>>

CloudStep == /\ \E i \in Instances : ProviderStep(i) \/ UserStep(i)
             /\ UNCHANGED <<now, disk, runLock, minted, late, procVars>>

ProcStep(p) == \/ Discover(p) \/ LockBusy(p) \/ ReconcileAndPersist(p)
               \/ WatchStep(p) \/ LaunchStep(p) \/ PollStep(p)

Next == \/ \E p \in Procs : ProcStep(p) \/ Stop(p)
        \/ \E t \in Tokens : LateExecute(t)
        \/ CloudStep
        \/ Tick

Spec == Init /\ [][Next]_vars

(* Fairness.  A process that may take a step of the code eventually takes   *)
(* it; a launch cannot stay ambiguous because its retries are budgeted; the *)
(* provider finishes what it started.  Nothing is assumed of the capacity   *)
(* watch, of polls (an instance may be stopped, and Get may always fail),   *)
(* of errors, of users, or of anybody starting the tool again.              *)
LaunchSettles(p) == \/ LaunchAccepted(p) \/ LaunchFails(p)
                    \/ LaunchOutOfCapacity(p) \/ LaunchLimitExceeded(p)

Fairness == /\ \A p \in Procs : /\ WF_vars(LockBusy(p) \/ ReconcileAndPersist(p))
                                /\ WF_vars(LaunchSettles(p))
                                /\ WF_vars(PersistAccepted(p) \/ Rotate(p))
                                /\ WF_vars(PersistFinished(p))
            /\ \A i \in Instances : WF_vars(CloudStep /\ ProviderStep(i))

FairSpec == Spec /\ Fairness

(* A supervisor restarts the tool for ever, and every step a run needs is   *)
(* eventually granted to it, however often it is interrupted before.        *)
Persistence == \A p \in Procs : /\ WF_vars(Discover(p))
                                /\ SF_vars(ReconcileAndPersist(p))
                                /\ SF_vars(CapacityFound(p))
                                /\ SF_vars(LaunchAccepted(p))
                                /\ SF_vars(PersistAccepted(p))
                                /\ SF_vars(PollRunning(p))
                                /\ SF_vars(PersistFinished(p))

-----------------------------------------------------------------------------
TypeOK ==
    /\ now \in Nat
    /\ disk \in States
    /\ runLock \in Procs \cup {NoProc}
    /\ minted \subseteq Tokens
    /\ late \subseteq Tokens
    /\ pc \in [Procs -> PCs]
    /\ once \in [Procs -> BOOLEAN]
    /\ seen \in [Procs -> SUBSET Observations]
    /\ attempt \in [Procs -> Attempts]
    /\ instance \in [Procs -> Instances \cup {NoInstance}]
    /\ vm \in [Instances -> VmStates]
    /\ bound \in [Tokens -> Bindings]

(* The promise of the tool and of its crash tests (crash_test.go,          *)
(* assertSafe): whatever is interrupted, lost or run concurrently, at most *)
(* one managed instance of the target exists.                              *)
AtMostOneLive == \A i, j \in Live : i = j

(* Between reconciliation and acceptance exactly one process is at work,   *)
(* and the attempt it launches with is the one on disk: nobody else has    *)
(* replaced it, and a crash at any moment leaves it to the next run.       *)
LaunchesPersistedAttempt ==
    \A p \in Procs : pc[p] \in {"watch", "launch", "retry", "rotate"} =>
        /\ runLock = p
        /\ disk.present
        /\ attempt[p] = disk.attempt
        /\ attempt[p].token \in minted

(* Every live instance that was launched can be found again through the    *)
(* retry token on disk, even if no listing shows it and its id was never   *)
(* saved: the token was persisted before the call and is not given up.     *)
NoOrphan == \A i \in Live \ Preexisting :
                disk.present /\ disk.attempt.token \in Tokens
                             /\ bound[disk.attempt.token].instance = i

(* Instances of other targets of the account are never claimed, on disk or *)
(* in memory (crash_test.go, claimedUnrelated).                            *)
ForeignUntouched == /\ disk.instance \notin Foreign
                    /\ \A p \in Procs : instance[p] \notin Foreign

(* The state file says "running" only of an instance that has been active: *)
(* not of one that is still being provisioned, or of none at all.          *)
RunningWasActive ==
    disk.lifecycle = "running" =>
        /\ disk.instance \in Managed
        /\ vm[disk.instance] \notin {"absent", "PROVISIONING"}

(* The id of a live instance, once saved, is never overwritten: neither by *)
(* a later attempt nor by a run that decided on an older observation.      *)
NeverForgets == [][disk.instance \in Live => disk'.instance = disk.instance]_vars

(* Under Persistence, whatever was interrupted before, the target ends      *)
(* again and again with its instance running and recorded as such, unless   *)
(* the provider executes a request so late that there are two instances,    *)
(* which every run then reports as a conflict: no history of crashes and    *)
(* failures wedges the state file.                                          *)
Converges == Persistence /\ []AtMostOneLive
                => []<>(/\ disk.lifecycle = "running"
                        /\ disk.instance \in Managed
                        /\ vm[disk.instance] = "RUNNING")
=============================================================================

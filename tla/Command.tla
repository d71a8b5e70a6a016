-------------------------------- MODULE Command --------------------------------
(***************************************************************************)
(* `ocihood start` as its user sees it: successive and concurrent runs of  *)
(* one account, what each leaves in the state file, what it tells the chat *)
(* and with which code it exits (internal/cli, internal/app/app.go,        *)
(* internal/notification, internal/provisioner).                           *)
(*                                                                         *)
(* Here a run ends for a reason: its context is cancelled by a signal or   *)
(* by --max-runtime, a phase fails, or it succeeds.  The watch and the     *)
(* launch are folded to their outcomes and saves, which CapacityWatcher    *)
(* and LaunchOrchestrator detail; of the record only the life cycle counts.*)
(***************************************************************************)
EXTENDS Naturals, FiniteSets

CONSTANTS Runs,      \* processes that execute `ocihood start`, one run after another
          NoRun,     \* nobody holds the run lock
          Targets,   \* the targets discovery may resolve to
          NoTarget,  \* discovery has not resolved one
          Modes      \* how each process may be started

\* --once, --max-runtime, and whether notifications are enabled.
AllModes == [once : BOOLEAN, limited : BOOLEAN, notifies : BOOLEAN]

ASSUME CommandAssumption == /\ NoRun \notin Runs
                            /\ NoTarget \notin Targets
                            /\ Modes \in [Runs -> SUBSET AllModes]

VARIABLES run,     \* the run of each process
          record,  \* the life cycle in the state file of each target
          lock,    \* the holder of each .run.lock
          paused   \* history: the chat was told that the wait for the target is
                   \* paused, and no run has taken the target over since

vars == <<run, record, lock, paused>>

Lifecycles == {"waiting", "provisioning", "running", "failed"}

\* What commandResult tells apart in an error: the context error it wraps, and
\* the kind of the discovery or launch error in its chain.
Causes == {"none", "canceled", "deadline"}
Kinds  == {"none", "other", "invalid", "retryable"}
Error(cause, kind) == [cause |-> cause, kind |-> kind]
NoError == Error("none", "none")
Other   == Error("none", "other")

\* The events that open and close a run.
Tracked == {"run_started", "instance_running", "terminal_failure", "paused"}

Phases == {"idle", "config", "discover", "announce", "lock", "reconcile", "key",
           "waiting", "watch", "pausing", "found", "launch", "degraded", "rotate",
           "follow", "report", "return", "terminal", "exit", "ended"}

NoCode == 255
Codes == {0, 1, 2, 3, 4, 124, 130, NoCode}

\* A run: Request and context, then the locals of Run, then history.
RunStates ==
    [pc : Phases,
     ctx : {"live", "canceled", "deadline"},
     once : BOOLEAN,                      \* --once
     limited : BOOLEAN,                   \* --max-runtime
     notifies : BOOLEAN,                  \* r.notifier # nil
     target : Targets \cup {NoTarget},
     error : [cause : Causes, kind : Kinds],
     resumed : BOOLEAN,
     noCapacity : BOOLEAN,                \* capacityResult.Kind = Unavailable
     noted : BOOLEAN,                     \* the result has NotificationErrors
     code : Codes,
     undelivered : BOOLEAN,               \* a notification ended in an error
     told : SUBSET Tracked,               \* events handed to the notifier
     foundWaiting : BOOLEAN,              \* the record was waiting under the lock
     resumes : 0 .. 2,                    \* Resumed events handed to it, counted to 2
     saved : Lifecycles \cup {"nothing"}] \* what the run last left in the record

Idle == [pc |-> "idle", ctx |-> "live", once |-> FALSE, limited |-> FALSE,
         notifies |-> FALSE, target |-> NoTarget, error |-> NoError,
         resumed |-> FALSE, noCapacity |-> FALSE, noted |-> FALSE, code |-> NoCode,
         undelivered |-> FALSE, told |-> {}, foundWaiting |-> FALSE, resumes |-> 0,
         saved |-> "nothing"]

Init == /\ run = [p \in Runs |-> Idle]
        /\ record = [t \in Targets |-> "none"]
        /\ lock = [t \in Targets |-> NoRun]
        /\ paused = [t \in Targets |-> FALSE]

-----------------------------------------------------------------------------
At(p, pc) == run[p].pc = pc
Live(p) == run[p].ctx = "live"
Becomes(p, next) == run' = [run EXCEPT ![p] = next]
Goes(p, pc) == Becomes(p, [run[p] EXCEPT !.pc = pc])

\* What ctx.Err() is, wrapped in whatever the phase makes of it.
Interrupted(p) == Error(run[p].ctx, "other")
CtxErrors(p) == IF Live(p) THEN {} ELSE {Interrupted(p)}

\* Run returns: what the end does not look at is forgotten.
Over(r, pc) == [r EXCEPT !.pc = pc, !.once = FALSE, !.resumed = FALSE,
                         !.foundWaiting = FALSE, !.resumes = 0]

Failing(p, error) == [Over(run[p], "return") EXCEPT !.error = error]

(* Locked.Save.  It may report an error with the record replaced or not    *)
(* (module StateStore).                                                    *)
Save(p, lifecycle, after, otherwise) ==
    \/ /\ record' = [record EXCEPT ![run[p].target] = lifecycle]
       /\ \E next \in {after, otherwise} : Becomes(p, [next EXCEPT !.saved = lifecycle])
    \/ /\ UNCHANGED record
       /\ Becomes(p, otherwise)

(* Runner.notify: bounded, and never an error of the run.  A context that  *)
(* is done delivers nothing; a delivery may fail or look as if it had.     *)
Troubles(p, ctx) == IF ~run[p].notifies THEN {FALSE}
                    ELSE IF ctx = "live" THEN BOOLEAN ELSE {TRUE}

Told(p, kind, trouble) ==
    [run[p] EXCEPT !.told = @ \cup ({kind} \cap Tracked),
                   !.undelivered = @ \/ trouble,
                   !.resumes = IF kind = "resumed" /\ @ < 2 THEN @ + 1 ELSE @]

Notify(p, kind, pc) ==
    \E trouble \in Troubles(p, run[p].ctx) :
        Becomes(p, [Told(p, kind, trouble) EXCEPT !.pc = pc])

NotifyAndReturn(p, kind) ==
    \E trouble \in Troubles(p, run[p].ctx) :
        Becomes(p, Over(Told(p, kind, trouble), "return"))

-----------------------------------------------------------------------------
(* Up to the announcement.                                                 *)

Start(p) ==
    /\ At(p, "idle")
    /\ \E mode \in Modes[p] :
          Becomes(p, [run[p] EXCEPT !.pc = "config", !.once = mode.once,
                                    !.limited = mode.limited, !.notifies = mode.notifies])
    /\ UNCHANGED <<record, lock, paused>>

\* Without an account there is nobody to notify.
Configure(p) ==
    /\ At(p, "config")
    /\ \/ Live(p) /\ Goes(p, "discover")
       \/ \E error \in {Other} \cup CtxErrors(p) :
             Becomes(p, [Over(run[p], "exit") EXCEPT !.error = error])
    /\ UNCHANGED <<record, lock, paused>>

\* Authentication, bootstrap and discovery: errors of the provider, of the
\* input, or of the context.
Discover(p) ==
    /\ At(p, "discover")
    /\ \/ /\ Live(p)
          /\ \E t \in Targets :
                Becomes(p, [run[p] EXCEPT !.pc = "announce", !.target = t])
       \/ \E error \in {Other, Error("none", "invalid")} \cup CtxErrors(p) :
             Becomes(p, [run[p] EXCEPT !.pc = "announce", !.error = error])
    /\ UNCHANGED <<record, lock, paused>>

\* RunStarted is sent when the preparation is over, even if it has failed.
Announce(p) ==
    /\ At(p, "announce")
    /\ IF run[p].error = NoError THEN Notify(p, "run_started", "lock")
       ELSE NotifyAndReturn(p, "run_started")
    /\ UNCHANGED <<record, lock, paused>>

TakeLock(p) ==
    /\ At(p, "lock")
    /\ lock[run[p].target] = NoRun
    /\ lock' = [lock EXCEPT ![run[p].target] = p]
    /\ Becomes(p, [run[p] EXCEPT !.pc = "reconcile",
                                 !.foundWaiting = record[run[p].target] = "waiting"])
    /\ UNCHANGED <<record, paused>>

\* The policy rejects the resources, another run holds the lock, or the lock
\* file cannot be used.
Refuse(p) ==
    /\ At(p, "lock")
    /\ Becomes(p, Failing(p, Other))
    /\ UNCHANGED <<record, lock, paused>>

-----------------------------------------------------------------------------
(* reconcileAndPersist.  Which decision is taken is Reconcile's affair.    *)

Reconcile(p) ==
    LET found == [run[p] EXCEPT !.resumed = record[run[p].target] = "waiting"]
    IN  /\ At(p, "reconcile")
        /\ \/ \E pc \in {"key", "follow"} :    \* create and retry; resume
                 Save(p, "provisioning", [found EXCEPT !.pc = pc], Failing(p, Other))
           \/ Save(p, "running", [found EXCEPT !.pc = "follow"], Failing(p, Other))
           \/ Save(p, "failed", Failing(p, Other), Failing(p, Other))
        /\ paused' = [paused EXCEPT ![run[p].target] = FALSE]
        /\ UNCHANGED lock

\* The SSH public key is read after the record has been saved.
ReadKey(p) ==
    /\ At(p, "key")
    /\ Goes(p, "waiting") \/ Becomes(p, Failing(p, Other))
    /\ UNCHANGED <<record, lock, paused>>

-----------------------------------------------------------------------------
(* The watch.                                                              *)

NotifyResumed(p) ==
    /\ At(p, "waiting") /\ run[p].resumed
    /\ \E trouble \in Troubles(p, run[p].ctx) :
          Becomes(p, [Told(p, "resumed", trouble) EXCEPT !.resumed = FALSE])
    /\ UNCHANGED <<record, lock, paused>>

NotifyWaiting(p) ==
    /\ At(p, "waiting") /\ ~run[p].resumed
    /\ Notify(p, "waiting", "watch")
    /\ UNCHANGED <<record, lock, paused>>

\* A rotation without capacity: the progress is saved and the watch sleeps.
WatchWaits(p) ==
    /\ At(p, "watch") /\ Live(p) /\ ~run[p].once
    /\ Save(p, "waiting", run[p], Failing(p, Other))
    /\ UNCHANGED <<lock, paused>>

\* Capacity found; none, with --once; a probe rejected for good.
WatchEnds(p) ==
    /\ At(p, "watch") /\ Live(p)
    /\ \/ Save(p, "provisioning", [run[p] EXCEPT !.pc = "found"], Failing(p, Other))
       \/ /\ run[p].once
          /\ Save(p, "waiting", [run[p] EXCEPT !.pc = "report", !.noCapacity = TRUE],
                  Failing(p, Other))
       \/ Save(p, "failed", Failing(p, Other), Failing(p, Other))
    /\ UNCHANGED <<lock, paused>>

\* Faulty: whatever the record says, the wait is called paused.
WatchInterrupted_Unread(p) ==
    /\ At(p, "watch") /\ ~Live(p)
    /\ Becomes(p, [run[p] EXCEPT !.pc = "pausing", !.error = Interrupted(p)])
    /\ UNCHANGED <<record, lock, paused>>

\* waitingState, which takes a record it cannot read for one not waiting.
WatchInterrupted(p) ==
    /\ At(p, "watch") /\ ~Live(p)
    /\ \/ /\ record[run[p].target] = "waiting"
          /\ Becomes(p, [run[p] EXCEPT !.pc = "pausing", !.error = Interrupted(p)])
       \/ Becomes(p, Failing(p, Interrupted(p)))
    /\ UNCHANGED <<record, lock, paused>>

\* Sent without the cancellation of the run's context.
NotifyPaused(p) ==
    /\ At(p, "pausing")
    /\ \E trouble \in Troubles(p, "live"), heard \in BOOLEAN :
          /\ heard => run[p].notifies
          /\ run[p].notifies /\ ~trouble => heard
          /\ Becomes(p, Over(Told(p, "paused", trouble), "return"))
          /\ paused' = [paused EXCEPT ![run[p].target] = @ \/ heard]
    /\ UNCHANGED <<record, lock>>

NotifyFound(p) ==
    /\ At(p, "found")
    /\ Notify(p, "capacity_found", "launch")
    /\ UNCHANGED <<record, lock, paused>>

-----------------------------------------------------------------------------
(* The launch, and the instance that is followed.                          *)

LaunchAccepted(p) ==
    /\ At(p, "launch") /\ Live(p)
    /\ Save(p, "provisioning", [run[p] EXCEPT !.pc = "follow"], Failing(p, Other))
    /\ UNCHANGED <<lock, paused>>

LaunchOutOfCapacity(p) ==
    /\ At(p, "launch") /\ Live(p)
    /\ Goes(p, "degraded")
    /\ UNCHANGED <<record, lock, paused>>

\* The error that ends a retry budget is wrapped: that of a request which has
\* timed out is context.DeadlineExceeded.
GivenUp == {Error("none", "retryable"), Error("deadline", "retryable")}

\* Rejected for good, or the retry budget is exhausted.  A failure to save
\* is joined to the cause.
LaunchFails(p) ==
    /\ At(p, "launch") /\ Live(p)
    /\ \E error \in {Other} \cup GivenUp :
          Save(p, "failed", Failing(p, error), Failing(p, error))
    /\ UNCHANGED <<lock, paused>>

\* A service limit whose reconciliation fails: nothing is saved.
LimitUnclear(p) ==
    /\ At(p, "launch") /\ Live(p)
    /\ \E error \in {Other} \cup GivenUp : Becomes(p, Failing(p, error))
    /\ UNCHANGED <<record, lock, paused>>

NotifyDegraded(p) ==
    /\ At(p, "degraded")
    /\ \E trouble \in Troubles(p, run[p].ctx) :
          Becomes(p, [Told(p, "degraded", trouble)
                         EXCEPT !.pc = IF run[p].once THEN "report" ELSE "rotate",
                                !.noCapacity = run[p].once])
    /\ UNCHANGED <<record, lock, paused>>

\* Faulty: saves the event as the life cycle.
Rotate_SavesEvent(p) ==
    /\ At(p, "rotate")
    /\ Save(p, "degraded", [run[p] EXCEPT !.pc = "waiting"], Failing(p, Other))
    /\ UNCHANGED <<lock, paused>>

\* newAttemptAndPersist
Rotate(p) ==
    /\ At(p, "rotate")
    /\ Save(p, "provisioning", [run[p] EXCEPT !.pc = "waiting"], Failing(p, Other))
    /\ UNCHANGED <<lock, paused>>

InstanceRuns(p) ==
    /\ At(p, "follow") /\ Live(p)
    /\ Save(p, "running", [run[p] EXCEPT !.pc = "report"], Failing(p, Other))
    /\ UNCHANGED <<lock, paused>>

InstanceLost(p) ==
    /\ At(p, "follow") /\ Live(p)
    /\ Save(p, "failed", Failing(p, Other), Failing(p, Other))
    /\ UNCHANGED <<lock, paused>>

\* Faulty: an interruption is a failure of the launch.
LaunchInterrupted_Fails(p) ==
    /\ run[p].pc \in {"launch", "follow"} /\ ~Live(p)
    /\ Save(p, "failed", Failing(p, Interrupted(p)), Failing(p, Interrupted(p)))
    /\ UNCHANGED <<lock, paused>>

\* Faulty: the poll sleeps and asks without looking at the context.
LaunchInterrupted_NotPolling(p) ==
    /\ At(p, "launch") /\ ~Live(p)
    /\ Becomes(p, Failing(p, Interrupted(p)))
    /\ UNCHANGED <<record, lock, paused>>

\* A call or a sleep ends with the context; nothing is saved.
LaunchInterrupted(p) ==
    /\ run[p].pc \in {"launch", "follow"} /\ ~Live(p)
    /\ Becomes(p, Failing(p, Interrupted(p)))
    /\ UNCHANGED <<record, lock, paused>>

-----------------------------------------------------------------------------
(* The end.                                                                *)

\* InstanceRunning, if there is an instance.
Report(p) ==
    /\ At(p, "report")
    /\ IF run[p].noCapacity THEN Becomes(p, Over(run[p], "return"))
       ELSE NotifyAndReturn(p, "instance_running")
    /\ UNCHANGED <<record, lock, paused>>

\* The result is set and the run lock closed before the deferred notification.
Return(p) ==
    LET failed == run[p].error # NoError /\ "paused" \notin run[p].told
    IN  /\ At(p, "return")
        /\ lock' = [t \in Targets |-> IF lock[t] = p THEN NoRun ELSE lock[t]]
        /\ Becomes(p, [run[p] EXCEPT !.noted = run[p].undelivered,
                                     !.pc = IF failed THEN "terminal" ELSE "exit",
                                     !.target = NoTarget])
        /\ UNCHANGED <<record, paused>>

\* Faulty: the error goes into the copy that was returned before.
NotifyFailure_ToCopy(p) ==
    /\ At(p, "terminal")
    /\ Notify(p, "terminal_failure", "exit")
    /\ UNCHANGED <<record, lock, paused>>

\* The deferred TerminalFailure, sent with the run's own context.
NotifyFailure(p) ==
    /\ At(p, "terminal")
    /\ \E trouble \in Troubles(p, run[p].ctx) :
          Becomes(p, [Told(p, "terminal_failure", trouble)
                         EXCEPT !.pc = "exit", !.noted = @ \/ trouble])
    /\ UNCHANGED <<record, lock, paused>>

\* commandResult
CommandCode(error, noCapacity) ==
    CASE error = NoError            -> IF noCapacity THEN 3 ELSE 0
      [] error.cause = "deadline"   -> 124
      [] error.cause = "canceled"   -> 130
      [] error.kind = "invalid"     -> 2
      [] error.kind = "retryable"   -> 4
      [] OTHER                      -> 1

\* A result that cannot be written makes the code 1.
Exit(p) ==
    /\ At(p, "exit")
    /\ \E code \in {CommandCode(run[p].error, run[p].noCapacity), 1} :
          Becomes(p, [run[p] EXCEPT !.pc = "ended", !.code = code])
    /\ UNCHANGED <<record, lock, paused>>

Leave(p) == At(p, "ended") /\ Becomes(p, Idle) /\ UNCHANGED <<record, lock, paused>>

\* SIGINT or SIGTERM; --max-runtime.  Nothing looks at the context at the end.
CtxEnds(p, cause) ==
    /\ run[p].pc \notin {"idle", "exit", "ended"} /\ Live(p)
    /\ Becomes(p, [run[p] EXCEPT !.ctx = cause])
    /\ UNCHANGED <<record, lock, paused>>

Signal(p) == CtxEnds(p, "canceled")
Deadline(p) == run[p].limited /\ CtxEnds(p, "deadline")

\* The process dies and its flock with it.
Crash(p) == /\ run[p].pc \notin {"idle", "ended"}
            /\ Becomes(p, Idle)
            /\ lock' = [t \in Targets |-> IF lock[t] = p THEN NoRun ELSE lock[t]]
            /\ UNCHANGED <<record, paused>>

-----------------------------------------------------------------------------
Prepares(p)  == Configure(p) \/ Discover(p) \/ Announce(p)
Locks(p)     == TakeLock(p) \/ Refuse(p)
Reconciles(p) == Reconcile(p) \/ ReadKey(p)
Notifying(p) == \/ NotifyResumed(p) \/ NotifyWaiting(p) \/ NotifyPaused(p)
                \/ NotifyFound(p) \/ NotifyDegraded(p)
Stopping(p)  == WatchInterrupted(p) \/ LaunchInterrupted(p)
Ending(p)    == Report(p) \/ Return(p) \/ NotifyFailure(p) \/ Exit(p) \/ Leave(p)
\* What depends on nobody else.
OwnStep(p) == \/ Prepares(p) \/ Locks(p) \/ Reconciles(p) \/ Notifying(p)
              \/ Stopping(p) \/ Rotate(p) \/ Ending(p)
\* What depends on the provider and on capacity.
ProviderStep(p) == \/ WatchWaits(p) \/ WatchEnds(p)
                   \/ LaunchAccepted(p) \/ LaunchOutOfCapacity(p)
                   \/ LaunchFails(p) \/ LimitUnclear(p)
                   \/ InstanceRuns(p) \/ InstanceLost(p)

Next == \E p \in Runs : \/ Start(p) \/ OwnStep(p) \/ ProviderStep(p)
                        \/ Signal(p) \/ Deadline(p) \/ Crash(p)

Spec == Init /\ [][Next]_vars

\* A run goes on with what it can do alone, a request under way ends with its
\* context, and the time of --max-runtime passes.
FairSpec == Spec /\ \A p \in Runs : WF_vars(OwnStep(p)) /\ WF_vars(Deadline(p))

-----------------------------------------------------------------------------
TypeOK == /\ run \in [Runs -> RunStates]
          /\ record \in [Targets -> Lifecycles \cup {"none"}]
          /\ lock \in [Targets -> Runs \cup {NoRun}]
          /\ paused \in [Targets -> BOOLEAN]

\* Nobody writes the record of a run that holds the lock.
RecordIsOwn == \A p \in Runs, t \in Targets :
    lock[t] = p /\ run[p].saved # "nothing" => /\ run[p].target = t
                                               /\ record[t] = run[p].saved

(* The exit code and the record agree (README, "Exit codes are stable"):   *)
(* success leaves a running record, no capacity one that the next run goes *)
(* on with, and an interruption never one that says failed; a run that has *)
(* recorded a failure exits with the code of a failure.                    *)
CodeTellsRecord == \A p \in Runs : At(p, "ended") =>
    /\ run[p].code = 0   => run[p].saved = "running"
    /\ run[p].code = 3   => run[p].saved \in {"waiting", "provisioning"}
    /\ run[p].code = 130 => run[p].saved # "failed"
    /\ run[p].code = 2   => run[p].saved = "nothing"
    /\ run[p].saved = "failed" => run[p].code \in {1, 4, 124}

EndsAsRecorded == RecordIsOwn /\ CodeTellsRecord

(* Whoever has read "paused" finds the record waiting until another run    *)
(* takes the target over, and the run that takes a waiting record over     *)
(* says "resumed" once before it watches, however often it rotates         *)
(* (app_test.go, TestRunnerEmitsPersistedCapacityPauseAndResume).          *)
WaitToldAsRecorded ==
    /\ \A t \in Targets : paused[t] => record[t] = "waiting"
    /\ \A p \in Runs : At(p, "watch") =>
          run[p].resumes = IF run[p].foundWaiting THEN 1 ELSE 0

(* Every announced run closes with exactly one event, or with none if      *)
(* --once found no capacity; "paused" only for an interruption; and a      *)
(* notification that was lost, the last one included, is an error of the   *)
(* printed result (app_test.go, TestRunnerEmitsExactlyOneTerminalFailure). *)
Closing(p) == IF run[p].error = NoError
              THEN IF run[p].noCapacity THEN {{}} ELSE {{"instance_running"}}
              ELSE {{"terminal_failure"}}
                   \cup IF run[p].error.cause = "none" THEN {} ELSE {{"paused"}}

EndReported == \A p \in Runs : At(p, "ended") =>
    /\ "run_started" \in run[p].told => run[p].told \ {"run_started"} \in Closing(p)
    /\ run[p].undelivered => run[p].noted

(* An interrupted run, or one with a maximal run time, ends (README,       *)
(* "Cancellation interrupts requests and waits").                          *)
InterruptionEnds == \A p \in Runs :
    ~Live(p) \/ (run[p].limited /\ ~At(p, "idle")) ~> At(p, "idle")

(* Exit code 124 is for --max-runtime (README, "124 deadline"; cli.go,     *)
(* "maximum runtime exceeded").  The code does not keep this.              *)
DeadlineIsMaxRuntime == \A p \in Runs : run[p].code = 124 => run[p].limited
=============================================================================

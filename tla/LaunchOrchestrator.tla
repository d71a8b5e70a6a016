-------------------------- MODULE LaunchOrchestrator --------------------------
(***************************************************************************)
(* One call of launch.Orchestrator.Run (internal/launch/launch.go) against *)
(* the provider: the launch loop with its bounded retries, the reconciled  *)
(* service limit, the poll loop, the bounded lookup of the public address, *)
(* and the writes to the record of the target (launch/runtime.go).         *)
(*                                                                         *)
(* Module Provisioning holds the same run with these loops folded up.  The *)
(* call ends well within the retention of a retry token: the provider's    *)
(* clock stands at 0.  An open circuit (launch/breaker.go) answers like a  *)
(* transient failure.                                                      *)
(***************************************************************************)
EXTENDS Cloud, Backoff

CONSTANT RetryBounds    \* pairs <<RetryMin, RetryMax>> of the configuration

ASSUME LaunchAssumption ==
    RetryBounds \subseteq {b \in Durations \X Durations : b[1] <= b[2]}

VARIABLES in,           \* launch.Input: what the caller asked for
          pc,           \* where Run stands
          retry,        \* the counter of the loop that is running
          instanceID,   \* the instance Run follows, once it has one
          observed,     \* the instance as last answered by Get
          disk,         \* the record of the target
          addressed     \* instances that have their public address

runVars == <<in, pc, retry, instanceID, observed, disk>>
vars == <<runVars, addressed, cloudVars>>

Inputs == [token : Tokens, existing : Preexisting \cup {NoInstance},
           bounds : RetryBounds, publicIP : BOOLEAN]

NothingObserved == [state |-> "absent", address |-> FALSE]

Init == /\ CloudInit
        /\ in \in Inputs
        /\ pc = IF in.existing = NoInstance THEN "launch" ELSE "poll"
        /\ retry = 0
        /\ instanceID = in.existing
        /\ observed = NothingObserved
        /\ disk \in [lifecycle : {"provisioning"}, address : {FALSE},
                    instance : Preexisting \cup {NoInstance}]
        /\ addressed = {}

-----------------------------------------------------------------------------
Goto(label) == pc' = label

\* Store.Failed, and the error is returned.
Fail == Goto("ended") /\ disk' = [disk EXCEPT !.lifecycle = "failed"]

\* The delay of the next turn is the maximum: the loop ends.
BudgetSpent == LaunchBudgetSpent(in.bounds[1], in.bounds[2], retry)

-----------------------------------------------------------------------------
(* The launch loop.                                                        *)

Accept ==
    /\ pc = "launch"
    /\ \E i \in Instances : Executes(in.token, i, 0) /\ instanceID' = i
    /\ Goto("accepted")
    /\ UNCHANGED <<in, retry, observed, disk, addressed>>

\* Transient, Ambiguous or a timed-out request: executed or not.
RetryLater ==
    /\ pc = "launch"
    /\ ~BudgetSpent
    /\ MayExecute(in.token, 0)
    /\ Goto("retrySleep")
    /\ UNCHANGED <<in, retry, instanceID, observed, disk, addressed>>

GiveUpRetrying ==
    /\ pc = "launch"
    /\ BudgetSpent
    /\ MayExecute(in.token, 0)
    /\ Fail
    /\ UNCHANGED <<in, retry, instanceID, observed, addressed>>

RetryWakes ==
    /\ pc = "retrySleep"
    /\ retry' = retry + 1
    /\ Goto("launch")
    /\ UNCHANGED <<in, instanceID, observed, disk, addressed, cloudVars>>

\* The caller rotates its attempt; nothing is written.
OutOfCapacity ==
    /\ pc = "launch"
    /\ ~Remembers(in.token, 0)
    /\ Goto("ended")
    /\ UNCHANGED <<in, retry, instanceID, observed, disk, addressed, cloudVars>>

Rejected ==
    /\ pc = "launch"
    /\ Fail
    /\ UNCHANGED <<in, retry, instanceID, observed, addressed, cloudVars>>

LimitExceeded ==
    /\ pc = "launch"
    /\ ~Remembers(in.token, 0)
    /\ Goto("limit")
    /\ UNCHANGED <<in, retry, instanceID, observed, disk, addressed, cloudVars>>

\* Provider.Reconcile: every managed instance that is not terminated.
LimitReconciled ==
    /\ pc = "limit"
    /\ \E s \in Listings :
          LET found == {o.id : o \in LiveOwned(s)}
          IN  \/ \E i \in found : /\ found = {i}
                                  /\ instanceID' = i
                                  /\ Goto("accepted")
                                  /\ UNCHANGED disk
              \/ found = {} /\ Fail /\ UNCHANGED instanceID
              \/ /\ \E i, j \in found : i # j
                 /\ Goto("ended")
                 /\ UNCHANGED <<disk, instanceID>>
    /\ UNCHANGED <<in, retry, observed, addressed, cloudVars>>

\* Faulty: follows the instance before its id is saved.
PersistAccepted_Later ==
    /\ pc = "accepted"
    /\ Goto("poll")
    /\ UNCHANGED <<in, retry, instanceID, observed, disk, addressed, cloudVars>>

\* Store.Accepted
PersistAccepted ==
    /\ pc = "accepted"
    /\ disk' = [disk EXCEPT !.lifecycle = "provisioning", !.instance = instanceID]
    /\ Goto("poll")
    /\ UNCHANGED <<in, retry, instanceID, observed, addressed, cloudVars>>

-----------------------------------------------------------------------------
(* The poll loop.  Get reads the state first and then looks for an address *)
(* on the network interfaces, ignoring errors there.                       *)

Gets == \E seen \in BOOLEAN :
           /\ seen => instanceID \in addressed
           /\ observed' = [state |-> vm[instanceID], address |-> seen]

PollRunning ==
    /\ pc = "poll"
    /\ vm[instanceID] = "RUNNING"
    /\ Gets
    /\ IF in.publicIP /\ ~observed'.address
       THEN Goto("addressSleep") /\ retry' = 0
       ELSE Goto("finish") /\ UNCHANGED retry
    /\ UNCHANGED <<in, instanceID, disk, addressed, cloudVars>>

PollTerminal ==
    /\ pc = "poll"
    /\ vm[instanceID] \in {"TERMINATING", "TERMINATED"}
    /\ Fail
    /\ UNCHANGED <<in, retry, instanceID, observed, addressed, cloudVars>>

\* Any other state, or an error that may pass.
PollAgain ==
    /\ pc = "poll"
    /\ Goto("pollSleep")
    /\ UNCHANGED <<in, retry, instanceID, observed, disk, addressed, cloudVars>>

PollRejected ==
    /\ pc = "poll"
    /\ Fail
    /\ UNCHANGED <<in, retry, instanceID, observed, addressed, cloudVars>>

PollWakes ==
    /\ pc = "pollSleep"
    /\ Goto("poll")
    /\ UNCHANGED <<in, retry, instanceID, observed, disk, addressed, cloudVars>>

-----------------------------------------------------------------------------
(* The lookup of the public address, a loop of its own inside the poll.    *)

AddressWakes ==
    /\ pc = "addressSleep"
    /\ Goto("address")
    /\ UNCHANGED <<in, retry, instanceID, observed, disk, addressed, cloudVars>>

\* Faulty: the lookups are not counted.
AddressLookup_Uncounted ==
    /\ pc = "address"
    /\ Gets \/ UNCHANGED observed
    /\ Goto(IF observed'.address \/ BudgetSpent THEN "finish" ELSE "addressSleep")
    /\ UNCHANGED <<in, retry, instanceID, disk, addressed, cloudVars>>

\* The answer, whatever the state in it, replaces the one that said RUNNING;
\* an error keeps the last answer.
AddressLookup ==
    /\ pc = "address"
    /\ Gets \/ UNCHANGED observed
    /\ IF observed'.address \/ BudgetSpent
       THEN Goto("finish") /\ UNCHANGED retry
       ELSE Goto("addressSleep") /\ retry' = retry + 1
    /\ UNCHANGED <<in, instanceID, disk, addressed, cloudVars>>

\* Faulty: saves the provider's state as the lifecycle.
PersistFinished_RawState ==
    /\ pc = "finish"
    /\ disk' = [lifecycle |-> observed.state, instance |-> instanceID,
                address |-> observed.address]
    /\ Goto("ended")
    /\ UNCHANGED <<in, retry, instanceID, observed, addressed, cloudVars>>

\* Store.Finished
PersistFinished ==
    /\ pc = "finish"
    /\ disk' = [lifecycle |-> "running", instance |-> instanceID, address |-> observed.address]
    /\ Goto("ended")
    /\ UNCHANGED <<in, retry, instanceID, observed, addressed, cloudVars>>

-----------------------------------------------------------------------------
\* The context is cancelled or a write fails; an answer that arrives with
\* the cancellation is dropped.
Interrupted ==
    /\ pc # "ended"
    /\ \/ pc = "launch" /\ MayExecute(in.token, 0)
       \/ pc # "launch" /\ UNCHANGED cloudVars
    /\ Goto("ended")
    /\ UNCHANGED <<in, retry, instanceID, observed, disk, addressed>>

CloudStep == /\ \E i \in Instances : ProviderStep(i) \/ UserStep(i)
             /\ UNCHANGED <<runVars, addressed>>

AttachAddress == \E i \in Instances \ addressed :
                    /\ vm[i] = "RUNNING"
                    /\ addressed' = addressed \cup {i}
                    /\ UNCHANGED <<runVars, cloudVars>>

LaunchStep == \/ Accept \/ RetryLater \/ GiveUpRetrying \/ OutOfCapacity
              \/ Rejected \/ LimitExceeded
FollowStep == \/ PollRunning \/ PollTerminal \/ PollAgain \/ PollRejected
Wakes      == RetryWakes \/ PollWakes \/ AddressWakes
Writes     == PersistAccepted \/ PersistFinished

Next == \/ LaunchStep \/ LimitReconciled \/ FollowStep \/ AddressLookup
        \/ Wakes \/ Writes \/ Interrupted
        \/ CloudStep \/ AttachAddress

Spec == Init /\ [][Next]_vars

(* Sleeps end, calls are answered (request_timeout), writes return, and the *)
(* provider completes what it started; Get is not refused or lost for ever. *)
Fairness == /\ WF_vars(Wakes)
            /\ WF_vars(Writes)
            /\ WF_vars(LaunchStep)
            /\ WF_vars(LimitReconciled)
            /\ WF_vars(AddressLookup)
            /\ WF_vars(FollowStep)
            /\ SF_vars(PollRunning)
            /\ SF_vars(PollTerminal)
            /\ \A i \in Instances : WF_vars(CloudStep /\ ProviderStep(i))

FairSpec == Spec /\ Fairness

-----------------------------------------------------------------------------
PCs == {"launch", "retrySleep", "limit", "accepted", "poll", "pollSleep",
        "addressSleep", "address", "finish", "ended"}

TypeOK ==
    /\ in \in Inputs
    /\ pc \in PCs
    /\ retry \in Nat
    /\ instanceID \in Instances \cup {NoInstance}
    /\ observed \in [state : VmStates, address : BOOLEAN]
    /\ disk \in [lifecycle : StateLifecycles, instance : Instances \cup {NoInstance},
                 address : BOOLEAN]
    /\ addressed \subseteq Instances
    /\ vm \in [Instances -> VmStates]
    /\ bound \in [Tokens -> Bindings]

(* launch.go, "launch retry budget exhausted": neither loop makes more      *)
(* turns than the doublings that lead from RetryMin to RetryMax, so that    *)
(* the time a call spends on retries is bounded by the configuration.       *)
RetriesWithinBudget ==
    pc \in {"launch", "address"} /\ retry > 0
        => in.bounds[1] * 2 ^ (retry - 1) < in.bounds[2]

(* The record of the target moves as module LaunchContract says.            *)
Following == pc \in {"poll", "pollSleep", "addressSleep", "address", "finish"}

Contract == INSTANCE LaunchContract WITH
    phase     <- IF Following THEN "following" ELSE IF pc = "ended" THEN "ended" ELSE "calling",
    subject   <- IF Following THEN instanceID ELSE NoInstance,
    lifecycle <- disk.lifecycle,
    recorded  <- disk.instance

KeepsContract == Contract!Spec

(* Whatever the provider answers and users do, Run returns, unless its      *)
(* instance is found stopped again and again, which the poll loop waits out *)
(* for ever.                                                                *)
Returns == \/ <>(pc = "ended")
           \/ []<>(instanceID \in Instances /\ vm[instanceID] = "STOPPED")

(* launch.go:1, "turns a reconciled target into one running instance": the  *)
(* instance a call returns and records as running was so when last seen.    *)
FinishesRunning == pc = "finish" => observed.state = "RUNNING"
=============================================================================

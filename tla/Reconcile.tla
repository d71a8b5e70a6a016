------------------------------ MODULE Reconcile ------------------------------
(***************************************************************************)
(* The pure decision layer of OCIHood (internal/reconcile/reconcile.go)    *)
(* and the durable consequence the application draws from each decision    *)
(* (internal/app/app.go, reconcileAndPersist and newAttemptAndPersist).    *)
(* Nothing here performs provider I/O: operators only, no variables.       *)
(*                                                                         *)
(* Abstractions: a retry token and the attempt id are the same 32 random   *)
(* bytes, so one value stands for both; an instance's free-form tags are   *)
(* the subset of the three-tag ownership contract that matches the target; *)
(* time is a natural number and 0 is Go's zero time.                       *)
(***************************************************************************)
EXTENDS Naturals

CONSTANTS Instances,    \* provider instance ids
          Tokens,       \* random retry tokens
          NoInstance,   \* the empty instance id
          NoToken,      \* the empty retry token
          Validity      \* attemptValidity, 24h in the code

ASSUME ReconcileAssumption == /\ NoInstance \notin Instances
                              /\ NoToken \notin Tokens
                              /\ Validity \in Nat \ {0}

-----------------------------------------------------------------------------
(* Launch attempts.                                                        *)

Attempts  == [token : Tokens \cup {NoToken}, validTo : Nat]
NoAttempt == [token |-> NoToken, validTo |-> 0]

NewAttempt(token, now) == [token |-> token, validTo |-> now + Validity]

HasAttempt(attempt)        == attempt # NoAttempt
IncompleteAttempt(attempt) == attempt.token = NoToken \/ attempt.validTo = 0
Retryable(attempt, now)    == now < attempt.validTo

-----------------------------------------------------------------------------
(* Provider observations.                                                  *)

Lifecycles   == {"unknown", "active", "terminated"}
ContractTags == {"managed", "target-id", "account"}
Observations == [id : Instances, lifecycle : Lifecycles, tags : SUBSET ContractTags]

\* Faulty: looks at the account, not at the target.
IsOwned_AnyTarget(observation) == {"managed", "account"} \subseteq observation.tags

IsOwned(observation) == observation.tags = ContractTags

\* Faulty: an instance in transition does not count.
LiveOwned_ActiveOnly(observed) == {o \in observed : IsOwned(o) /\ o.lifecycle = "active"}

\* The managed instances of the target that may still exist: the lists
\* `active` and `unknown` of Decide.
LiveOwned(observed) ==
    {o \in observed : IsOwned(o) /\ o.lifecycle \in {"active", "unknown"}}

-----------------------------------------------------------------------------
(* The durable record, as far as the decision and its persistence see it.  *)

StateLifecycles == {"discovered", "waiting", "provisioning", "running", "failed"}
States == [present : BOOLEAN, target : BOOLEAN, lifecycle : StateLifecycles,
           instance : Instances \cup {NoInstance}, attempt : Attempts]

\* No state file.  `target` says whether the record belongs to this target;
\* the store refuses to load one that does not (state.load), before Decide
\* would, so it stays TRUE in the modules that load records.
NoState == [present |-> FALSE, target |-> TRUE, lifecycle |-> "discovered",
            instance |-> NoInstance, attempt |-> NoAttempt]

-----------------------------------------------------------------------------
(* The decision.                                                           *)

CreateKinds   == {"Create", "NewAttemptSafe"}
CreateSafe    == CreateKinds \cup {"RetrySameAttempt"}
DecisionKinds == CreateSafe \cup {"AlreadySatisfied", "ResumeReconcile", "Conflict"}

Decision(kind, instance) == [kind |-> kind, instance |-> instance]

\* Faulty: takes the listing for the truth and forgets the attempt in flight.
DecideAbsent_TrustsListing(local, now) ==
    IF ~local.present THEN "Create"
    ELSE IF HasAttempt(local.attempt) /\ IncompleteAttempt(local.attempt) THEN "Conflict"
    ELSE "NewAttemptSafe"

\* Faulty: an incomplete attempt is like an expired one.
DecideAbsent_AcceptsIncomplete(local, now) ==
    IF ~local.present THEN "Create"
    ELSE IF HasAttempt(local.attempt) /\ Retryable(local.attempt, now)
    THEN "RetrySameAttempt" ELSE "NewAttemptSafe"

\* Faulty: an attempt in flight blocks the target instead of being retried.
DecideAbsent_InFlightBlocks(local, now) ==
    IF ~local.present THEN "Create"
    ELSE IF HasAttempt(local.attempt) /\ Retryable(local.attempt, now)
    THEN "Conflict" ELSE "NewAttemptSafe"

\* No managed instance was observed: what the local record allows.
DecideAbsent(local, now) ==
    IF ~local.present THEN "Create"
    ELSE IF ~HasAttempt(local.attempt) THEN "NewAttemptSafe"
    ELSE IF IncompleteAttempt(local.attempt) THEN "Conflict"
    ELSE IF Retryable(local.attempt, now) THEN "RetrySameAttempt"
    ELSE "NewAttemptSafe"

\* Exactly one managed instance was observed.
DecidePresent(local, observation) ==
    IF \/ observation.lifecycle = "unknown"
       \/ local.present /\ local.instance \notin {NoInstance, observation.id}
    THEN "ResumeReconcile" ELSE "AlreadySatisfied"

Decide(local, observed, now) ==
    LET live == LiveOwned(observed)
    IN  IF \/ local.present /\ ~local.target
           \/ \E o1, o2 \in live : o1 # o2
        THEN Decision("Conflict", NoInstance)
        ELSE IF live = {} THEN Decision(DecideAbsent(local, now), NoInstance)
        ELSE LET o == CHOOSE o \in live : TRUE
             IN  Decision(DecidePresent(local, o), o.id)

-----------------------------------------------------------------------------
(* What reconcileAndPersist saves; `fresh` is the attempt it mints for the *)
(* decisions in CreateKinds.  An old instance id survives those decisions. *)

\* Faulty: saves the kind of the decision as the lifecycle.
Persisted_KindAsLifecycle(local, decision, fresh) ==
    [local EXCEPT !.present = TRUE, !.lifecycle = decision.kind]

\* Faulty: mints an attempt and does not save it.
Persisted_LosesAttempt(local, decision, fresh) ==
    [local EXCEPT !.present = TRUE, !.lifecycle = "provisioning"]

\* Faulty: a retried attempt starts from a clean record.
Persisted_ClearsInstance(local, decision, fresh) ==
    [local EXCEPT !.present = TRUE, !.lifecycle = "provisioning",
                  !.attempt = IF decision.kind \in CreateKinds THEN fresh ELSE @,
                  !.instance = IF decision.kind \in CreateSafe THEN NoInstance ELSE @]

Persisted(local, decision, fresh) ==
    LET value == [local EXCEPT !.present = TRUE]
    IN  CASE decision.kind = "AlreadySatisfied" ->
               [value EXCEPT !.lifecycle = "running", !.instance = decision.instance]
          [] decision.kind \in {"ResumeReconcile", "RetrySameAttempt"} ->
               [value EXCEPT !.lifecycle = "provisioning"]
          [] decision.kind = "Conflict" -> [value EXCEPT !.lifecycle = "failed"]
          [] decision.kind \in CreateKinds ->
               [value EXCEPT !.lifecycle = "provisioning", !.attempt = fresh]

\* What newAttemptAndPersist saves after a launch found no capacity.
Rotated(local, fresh) ==
    [local EXCEPT !.lifecycle = "provisioning", !.attempt = fresh,
                  !.instance = NoInstance]
=============================================================================

---------------------------- MODULE ReconcileLoop ----------------------------
(***************************************************************************)
(* reconcileAndPersist (internal/app/app.go) run again and again against   *)
(* whatever the provider lists: the instances, their lifecycles and their  *)
(* tags change arbitrarily between two runs, and so does the time.  This   *)
(* asks of the decision layer alone what it guarantees without any help    *)
(* from the cloud; module Provisioning puts it into the whole system.      *)
(***************************************************************************)
EXTENDS Reconcile

CONSTANTS Listings,     \* the sets of observations a discovery may return
          Damaged,      \* records some other program left in the state file
          MaxTime       \* bound on the clock, for TLC only

ASSUME LoopAssumption == /\ Listings \subseteq SUBSET Observations
                         /\ Damaged \subseteq {s \in States : s.present /\ s.target}
                         /\ MaxTime \in Nat

VARIABLES local,        \* the durable record
          observed,     \* the instances the last discovery listed
          now,          \* the clock
          minted        \* tokens already drawn from crypto/rand

vars == <<local, observed, now, minted>>

Init == /\ local \in {NoState} \cup Damaged
        /\ observed \in Listings
        /\ now = 0
        /\ minted = {local.attempt.token} \ {NoToken}

\* discovery.Discover lists the compartment anew.
Observe == /\ observed' \in Listings
           /\ UNCHANGED <<local, now, minted>>

Tick == /\ now < MaxTime
        /\ now' = now + 1
        /\ UNCHANGED <<local, observed, minted>>

\* One run's reconcileAndPersist; a conflict is saved, then reported.
ReconcileAndPersist ==
    LET decision == Decide(local, observed, now)
    IN  /\ \/ /\ decision.kind \in CreateKinds
              /\ \E token \in Tokens \ minted :
                    /\ local' = Persisted(local, decision, NewAttempt(token, now))
                    /\ minted' = minted \cup {token}
           \/ /\ decision.kind \notin CreateKinds
              /\ local' = Persisted(local, decision, local.attempt)
              /\ UNCHANGED minted
        /\ UNCHANGED <<observed, now>>

Next == Observe \/ Tick \/ ReconcileAndPersist

Spec == Init /\ [][Next]_vars

-----------------------------------------------------------------------------
\* The variables have their types.
TypeOK == /\ local \in States
          /\ observed \in Listings
          /\ now \in Nat
          /\ minted \subseteq Tokens

(* A crash between the save and the launch costs nothing: if the process   *)
(* stops right after reconcileAndPersist and the next run sees the same    *)
(* instances within the validity window, it retries the attempt that was   *)
(* saved, and a run that found its instance finds it again.                *)
RestartKeepsDecision ==
    \A token \in Tokens :
        LET decision == Decide(local, observed, now)
            saved    == Persisted(local, decision, NewAttempt(token, now))
            again    == Decide(saved, observed, now)
        IN  /\ decision.kind \in CreateSafe => again.kind = "RetrySameAttempt"
            /\ decision.kind \notin CreateSafe => again = decision

(* The persisted token is the only protection against a second instance    *)
(* when a listing is stale (crash boundary 7), so reconciliation replaces  *)
(* it only when it cannot be retried any more and no managed instance of   *)
(* the target was listed, active, in transition or unknown.                *)
TokenReplacedOnlyWhenExpired ==
    [][local'.attempt # local.attempt =>
          /\ ~(HasAttempt(local.attempt) /\ Retryable(local.attempt, now))
          /\ LiveOwned(observed) = {}]_vars

(* README: three tags must all match before an instance is owned.  No      *)
(* history of observations makes the record name an instance that was      *)
(* listed without them.                                                    *)
NeverClaimsUnowned ==
    [][local'.instance # local.instance =>
          \E o \in observed : o.tags = ContractTags /\ o.id = local'.instance]_vars

(* README: "fails safe on incompatible state".  A record with an incomplete *)
(* attempt is never healed into one that can be launched: whatever is       *)
(* listed and however long it stays, its attempt is kept for an operator.   *)
IncompleteNeverReplaced ==
    [][HasAttempt(local.attempt) /\ IncompleteAttempt(local.attempt)
       => local'.attempt = local.attempt]_vars
=============================================================================

------------------------- MODULE ReconcileLoopProofs -------------------------
(***************************************************************************)
(* Reconciliation repeated against arbitrary observations: the properties  *)
(* that TLC checks of ReconcileLoop, for every set of instances, tokens,   *)
(* listings and damaged records and for every validity window.             *)
(***************************************************************************)
EXTENDS ReconcileLoop, OperatorLemmas

(* As long as nothing was saved there is nothing to go by. *)
LoopInv == TypeOK /\ (local.present \/ local = NoState)

LEMMA LoopInit == Init => LoopInv
<1> SUFFICES ASSUME Init PROVE LoopInv
  OBVIOUS
<1>1. NoState \in States
  BY DEF NoState, States, StateLifecycles, Attempts, NoAttempt
<1>2. local \in States /\ (local.present \/ local = NoState)
  BY <1>1, LoopAssumption DEF Init
<1>3. local.attempt.token \in Tokens \cup {NoToken}
  BY <1>2 DEF States, Attempts
<1> QED
  BY <1>2, <1>3 DEF Init, LoopInv, TypeOK

(* What one step changes. *)
LEMMA StepFacts ==
    ASSUME LoopInv, ReconcileAndPersist
    PROVE  LET decision == Decide(local, observed, now)
           IN  \E fresh \in Attempts :
                 /\ local' = Persisted(local, decision, fresh)
                 /\ local' \in States
                 /\ local'.present
                 /\ local'.attempt = IF decision.kind \in CreateKinds THEN fresh
                                     ELSE local.attempt
                 /\ local'.instance = IF decision.kind = "AlreadySatisfied"
                                      THEN decision.instance ELSE local.instance
<1> DEFINE decision == Decide(local, observed, now)
<1>1. local \in States /\ now \in Nat /\ observed \subseteq Observations
  BY LoopAssumption DEF LoopInv, TypeOK
<1>2. decision.kind \in DecisionKinds
  BY <1>1, DecideFacts
<1>3. decision.kind = "AlreadySatisfied" => decision.instance \in Instances
  BY <1>1, DecideFacts DEF LiveOwned, Observations
<1>4. PICK fresh \in Attempts : local' = Persisted(local, decision, fresh)
  <2>1. local.attempt \in Attempts
    BY <1>1 DEF States
  <2> QED
    BY <1>1, <2>1, NewAttemptFacts DEF ReconcileAndPersist
<1> QED
  BY <1>1, <1>2, <1>3, <1>4, PersistedFacts

LEMMA LoopStep == LoopInv /\ [Next]_vars => LoopInv'
<1> SUFFICES ASSUME LoopInv, [Next]_vars PROVE LoopInv'
  OBVIOUS
<1>1. CASE Observe
  BY <1>1 DEF Observe, LoopInv, TypeOK
<1>2. CASE Tick
  BY <1>2 DEF Tick, LoopInv, TypeOK
<1>3. CASE ReconcileAndPersist
  <2>1. local' \in States /\ local'.present
    BY <1>3, StepFacts
  <2>2. minted' \subseteq Tokens
    BY <1>3 DEF ReconcileAndPersist, LoopInv, TypeOK
  <2> QED
    BY <1>3, <2>1, <2>2 DEF ReconcileAndPersist, LoopInv, TypeOK
<1>4. CASE UNCHANGED vars
  BY <1>4 DEF vars, LoopInv, TypeOK
<1> QED
  BY <1>1, <1>2, <1>3, <1>4 DEF Next

(* The record, the clock and the tokens keep their types. *)
THEOREM LoopTypeOK == Spec => []TypeOK
<1>1. LoopInv => TypeOK
  BY DEF LoopInv
<1> QED
  BY LoopInit, LoopStep, <1>1, PTL DEF Spec

-----------------------------------------------------------------------------
(* A saved decision is found again. *)

(* Nothing was listed: the decision is that of the local record. *)
LEMMA DecideNothingListed ==
    ASSUME NEW value \in States, value.target, LiveOwned(observed) = {}
    PROVE  Decide(value, observed, now) = Decision(DecideAbsent(value, now), NoInstance)
BY DEF Decide

(* One managed instance was listed: the decision is about that one. *)
LEMMA DecideOneListed ==
    ASSUME NEW value \in States, value.target,
           LiveOwned(observed) # {}, \A o1, o2 \in LiveOwned(observed) : o1 = o2
    PROVE  LET o == CHOOSE o \in LiveOwned(observed) : TRUE
           IN  /\ o \in LiveOwned(observed)
               /\ Decide(value, observed, now) = Decision(DecidePresent(value, o), o.id)
BY DEF Decide

LEMMA RestartStable == LoopInv => RestartKeepsDecision
<1> SUFFICES ASSUME LoopInv, NEW token \in Tokens
             PROVE  LET decision == Decide(local, observed, now)
                        saved    == Persisted(local, decision, NewAttempt(token, now))
                        again    == Decide(saved, observed, now)
                    IN  /\ decision.kind \in CreateSafe => again.kind = "RetrySameAttempt"
                        /\ decision.kind \notin CreateSafe => again = decision
  BY DEF RestartKeepsDecision
<1> DEFINE fresh == NewAttempt(token, now)
           decision == Decide(local, observed, now)
           saved == Persisted(local, decision, fresh)
           again == Decide(saved, observed, now)
<1>1. local \in States /\ now \in Nat /\ observed \subseteq Observations
  BY LoopAssumption DEF LoopInv, TypeOK
<1>2. fresh \in Attempts /\ HasAttempt(fresh) /\ ~IncompleteAttempt(fresh) /\ Retryable(fresh, now)
  BY <1>1, NewAttemptFacts
<1>3. decision.kind \in DecisionKinds
  BY <1>1, DecideFacts
<1>4. decision.kind = "AlreadySatisfied" => decision.instance \in Instances
  BY <1>1, DecideFacts DEF LiveOwned, Observations
<1> HIDE DEF fresh, decision
<1>5. /\ saved \in States
      /\ saved.present
      /\ saved.target = local.target
      /\ saved.attempt = IF decision.kind \in CreateKinds THEN fresh ELSE local.attempt
      /\ saved.instance = IF decision.kind = "AlreadySatisfied"
                          THEN decision.instance ELSE local.instance
  BY <1>1, <1>2, <1>3, <1>4, PersistedFacts
<1> HIDE DEF saved
<1>6. CASE \/ local.present /\ ~local.target
           \/ \E o1, o2 \in LiveOwned(observed) : o1 # o2
  <2>1. decision = Decision("Conflict", NoInstance)
    BY <1>6 DEF decision, Decide
  <2>2. again = Decision("Conflict", NoInstance)
    BY <1>6, <1>5 DEF Decide
  <2> QED
    BY <2>1, <2>2 DEF Decision, CreateSafe, CreateKinds, decision, saved, fresh
<1>7. CASE local.target /\ LiveOwned(observed) = {}
  <2>1. decision = Decision(DecideAbsent(local, now), NoInstance)
    BY <1>7, <1>1, DecideNothingListed DEF decision
  <2>2. again = Decision(DecideAbsent(saved, now), NoInstance)
    BY <1>7, <1>5, DecideNothingListed
  <2>3. DecideAbsent(local, now) \in CreateSafe \cup {"Conflict"}
    BY <1>1, DecideAbsentFacts
  <2>4. CASE DecideAbsent(local, now) \in CreateSafe
    <3>1. DecideAbsent(saved, now) = "RetrySameAttempt"
      BY <2>4, <2>1, <1>2, <1>5
         DEF DecideAbsent, Decision, CreateSafe, CreateKinds
    <3> QED
      BY <3>1, <2>1, <2>2, <2>4 DEF Decision, decision, saved, fresh
  <2>5. CASE DecideAbsent(local, now) = "Conflict"
    <3>1. DecideAbsent(saved, now) = "Conflict"
      BY <2>5, <2>1, <1>5 DEF DecideAbsent, Decision, CreateKinds
    <3> QED
      BY <3>1, <2>1, <2>2, <2>5 DEF Decision, CreateSafe, CreateKinds, decision, saved, fresh
  <2> QED
    BY <2>3, <2>4, <2>5
<1>8. CASE /\ local.target
           /\ LiveOwned(observed) # {}
           /\ \A o1, o2 \in LiveOwned(observed) : o1 = o2
  <2> DEFINE o == CHOOSE o \in LiveOwned(observed) : TRUE
  <2>1. /\ o \in LiveOwned(observed)
        /\ decision = Decision(DecidePresent(local, o), o.id)
    BY <1>8, <1>1, DecideOneListed DEF decision
  <2>2. again = Decision(DecidePresent(saved, o), o.id)
    BY <1>8, <1>5, DecideOneListed
  <2> HIDE DEF o
  <2>3. DecidePresent(saved, o) = DecidePresent(local, o)
    BY <2>1, <1>5 DEF DecidePresent, Decision, CreateKinds
  <2> QED
    BY <2>1, <2>2, <2>3 DEF Decision, DecidePresent, CreateSafe, CreateKinds, decision, saved, fresh
<1> QED
  BY <1>6, <1>7, <1>8 DEF LoopInv, NoState, decision, saved, fresh

(* A crash between the save of a decision and the launch it allows costs   *)
(* nothing: the next run, seeing the same instances within the validity    *)
(* window, retries the saved attempt or finds the same instance.           *)
THEOREM RestartKeepsDecisionAlways == Spec => []RestartKeepsDecision
BY LoopInit, LoopStep, RestartStable, PTL DEF Spec

-----------------------------------------------------------------------------
(* The persisted token outlives every observation but an empty one, and    *)
(* its own deadline is the only thing that retires it.                     *)
THEOREM TokenReplacement == Spec => TokenReplacedOnlyWhenExpired
<1>1. LoopInv /\ [Next]_vars =>
        [local'.attempt # local.attempt =>
            /\ ~(HasAttempt(local.attempt) /\ Retryable(local.attempt, now))
            /\ LiveOwned(observed) = {}]_vars
  <2> SUFFICES ASSUME LoopInv, Next, local'.attempt # local.attempt,
                      local \in States, now \in Nat
               PROVE  /\ ~(HasAttempt(local.attempt) /\ Retryable(local.attempt, now))
                      /\ LiveOwned(observed) = {}
    BY DEF LoopInv, TypeOK
  <2>1. ReconcileAndPersist
    BY DEF Next, Observe, Tick
  <2>2. Decide(local, observed, now).kind \in CreateKinds
    BY <2>1, StepFacts
  <2>3. /\ LiveOwned(observed) = {}
        /\ DecideAbsent(local, now) \in CreateKinds
    BY <2>2, DecideFacts DEF CreateSafe
  <2> QED
    BY <2>3, DecideAbsentFacts DEF Retryable, LoopInv, NoState, HasAttempt
<1> QED
  BY LoopInit, LoopStep, <1>1, PTL DEF Spec, TokenReplacedOnlyWhenExpired

(* No history of observations makes the record name an instance that was   *)
(* listed without all three ownership tags.                                *)
THEOREM UnownedNeverClaimed == Spec => NeverClaimsUnowned
<1>1. LoopInv /\ [Next]_vars =>
        [local'.instance # local.instance =>
            \E o \in observed : o.tags = ContractTags /\ o.id = local'.instance]_vars
  <2> SUFFICES ASSUME LoopInv, Next, local'.instance # local.instance,
                      local \in States, now \in Nat
               PROVE  \E o \in observed : o.tags = ContractTags /\ o.id = local'.instance
    BY DEF LoopInv, TypeOK
  <2>1. ReconcileAndPersist
    BY DEF Next, Observe, Tick
  <2>2. /\ Decide(local, observed, now).kind = "AlreadySatisfied"
        /\ local'.instance = Decide(local, observed, now).instance
    BY <2>1, StepFacts
  <2> QED
    BY <2>2, DecideFacts DEF LiveOwned, IsOwned
<1> QED
  BY LoopInit, LoopStep, <1>1, PTL DEF Spec, NeverClaimsUnowned

(* A record with an incomplete attempt never gets another one: every run   *)
(* stops at it instead of launching.                                       *)
THEOREM IncompleteRecord == Spec => IncompleteNeverReplaced
<1> DEFINE Incomplete == HasAttempt(local.attempt) /\ IncompleteAttempt(local.attempt)
<1>1. LoopInv /\ [Next]_vars => [Incomplete => local'.attempt = local.attempt]_vars
  <2> SUFFICES ASSUME LoopInv, Next, Incomplete, local'.attempt # local.attempt,
                      local \in States, now \in Nat
               PROVE  FALSE
    BY DEF LoopInv, TypeOK
  <2>1. ReconcileAndPersist
    BY DEF Next, Observe, Tick
  <2>2. Decide(local, observed, now).kind \in CreateKinds
    BY <2>1, StepFacts
  <2>3. DecideAbsent(local, now) \in CreateKinds
    BY <2>2, DecideFacts DEF CreateSafe
  <2>4. local.present
    BY DEF LoopInv, NoState, HasAttempt
  <2> QED
    BY <2>3, <2>4, DecideAbsentFacts
<1> QED
  BY LoopInit, LoopStep, <1>1, PTL DEF Spec, IncompleteNeverReplaced
=============================================================================

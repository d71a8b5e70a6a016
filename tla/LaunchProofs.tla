----------------------------- MODULE LaunchProofs -----------------------------
(***************************************************************************)
(* One call of the launch orchestrator implements LaunchContract and stays *)
(* within its retry budget, for any instances, tokens, retry bounds and    *)
(* width of a duration.                                                    *)
(***************************************************************************)
EXTENDS LaunchOrchestrator, OperatorLemmas

\* What a step on the record has to know: where the run stands, that the
\* record has its type, and that what the run follows is an instance.
Record == /\ pc \in PCs
          /\ disk \in [lifecycle : StateLifecycles, instance : Instances \cup {NoInstance},
                       address : BOOLEAN]
          /\ observed.address \in BOOLEAN
          /\ instanceID \in Instances \cup {NoInstance}
          /\ Following \/ pc = "accepted" => instanceID \in Instances
          /\ pc # "ended" => disk.lifecycle = "provisioning"

LEMMA RecordInit == Init => Record
<1> SUFFICES ASSUME Init PROVE Record
  OBVIOUS
<1>1. in.existing \in Preexisting \cup {NoInstance} /\ Preexisting \subseteq Instances
  BY CloudAssumption DEF Init, Inputs
<1>2. disk.lifecycle = "provisioning" /\ observed.address = FALSE
  BY DEF Init, NothingObserved
<1>3. disk \in [lifecycle : StateLifecycles, instance : Instances \cup {NoInstance},
                address : BOOLEAN]
  BY <1>1 DEF Init, StateLifecycles
<1>4. pc \in PCs /\ (Following => instanceID \in Instances) /\ pc # "accepted"
  BY <1>1 DEF Init, Following, PCs
<1> QED
  BY <1>1, <1>2, <1>3, <1>4 DEF Init, Record

(* Provider.Reconcile yields instances. *)
LEMMA LimitFound ==
    ASSUME LimitReconciled
    PROVE  /\ pc = "limit" /\ UNCHANGED <<in, retry, observed, addressed, cloudVars>>
           /\ \/ pc' = "accepted" /\ instanceID' \in Instances /\ UNCHANGED disk
              \/ Fail /\ UNCHANGED instanceID
              \/ pc' = "ended" /\ UNCHANGED <<disk, instanceID>>
<1>1. PICK s \in Listings :
         LET found == {o.id : o \in LiveOwned(s)}
         IN  \/ \E i \in found : /\ found = {i}
                                 /\ instanceID' = i
                                 /\ Goto("accepted")
                                 /\ UNCHANGED disk
             \/ found = {} /\ Fail /\ UNCHANGED instanceID
             \/ /\ \E i, j \in found : i # j
                /\ Goto("ended")
                /\ UNCHANGED <<disk, instanceID>>
  BY DEF LimitReconciled
<1> DEFINE found == {o.id : o \in LiveOwned(s)}
<1>2. found \subseteq Instances
  <2>1. \A o \in s : o.id \in Instances
    BY DEF Listings, Existing, Observation
  <2> QED
    BY <2>1 DEF LiveOwned
<1>3. \/ \E i \in found : instanceID' = i /\ Goto("accepted") /\ UNCHANGED disk
      \/ Fail /\ UNCHANGED instanceID
      \/ Goto("ended") /\ UNCHANGED <<disk, instanceID>>
  BY <1>1, Zenon
<1> HIDE DEF found
<1>4. pc = "limit" /\ UNCHANGED <<in, retry, observed, addressed, cloudVars>>
  BY DEF LimitReconciled
<1> QED
  BY <1>2, <1>3, <1>4 DEF Goto

LEMMA RecordStep == Record /\ [Next]_vars => Record'
<1> SUFFICES ASSUME Record, [Next]_vars PROVE Record'
  OBVIOUS
<1> USE DEF Record, Following, PCs, Goto, Fail, StateLifecycles
<1>1. CASE LaunchStep
  BY <1>1 DEF LaunchStep, Accept, RetryLater, GiveUpRetrying, OutOfCapacity, Rejected,
              LimitExceeded
<1>2. CASE LimitReconciled
  BY <1>2, LimitFound
<1>3. CASE FollowStep
  BY <1>3 DEF FollowStep, Gets, PollRunning, PollTerminal, PollAgain, PollRejected
<1>4. CASE AddressLookup
  BY <1>4 DEF AddressLookup, Gets
<1>5. CASE Wakes
  BY <1>5 DEF Wakes, RetryWakes, PollWakes, AddressWakes
<1>6. CASE PersistAccepted
  BY <1>6 DEF PersistAccepted
<1>7. CASE PersistFinished
  <2>1. pc' = "ended" /\ UNCHANGED instanceID
    BY <1>7 DEF PersistFinished
  <2>2. disk' = [lifecycle |-> "running", instance |-> instanceID, address |-> observed.address]
    BY <1>7 DEF PersistFinished
  <2>3. instanceID \in Instances /\ observed.address \in BOOLEAN /\ observed' = observed
    BY <1>7 DEF PersistFinished
  <2>4. disk' \in [lifecycle : StateLifecycles, instance : Instances \cup {NoInstance},
                   address : BOOLEAN]
    BY <2>2, <2>3, Zenon
  <2> QED
    BY <2>1, <2>3, <2>4
<1>8. CASE Interrupted
  BY <1>8 DEF Interrupted
<1>9. CASE CloudStep \/ AttachAddress \/ UNCHANGED vars
  BY <1>9 DEF CloudStep, AttachAddress, vars, runVars
<1> QED
  BY <1>1, <1>2, <1>3, <1>4, <1>5, <1>6, <1>7, <1>8, <1>9 DEF Next, Writes

(* Every step of the run is a step of the contract or leaves the record be. *)
LEMMA ContractStep == Record /\ [Next]_vars => [Contract!Next]_Contract!vars
<1> SUFFICES ASSUME Record, [Next]_vars PROVE [Contract!Next]_Contract!vars
  OBVIOUS
<1> USE DEF Record, Following, PCs, Goto, Fail, Contract!Next, Contract!vars,
            Contract!Accept, Contract!Succeed, Contract!Fail, Contract!GiveUp
<1>1. CASE LaunchStep
  BY <1>1 DEF LaunchStep, Accept, RetryLater, GiveUpRetrying, OutOfCapacity, Rejected,
              LimitExceeded
<1>2. CASE LimitReconciled
  BY <1>2, LimitFound
<1>3. CASE FollowStep
  BY <1>3 DEF FollowStep, PollRunning, PollTerminal, PollAgain, PollRejected
<1>4. CASE AddressLookup
  BY <1>4 DEF AddressLookup
<1>5. CASE Wakes
  BY <1>5 DEF Wakes, RetryWakes, PollWakes, AddressWakes
<1>6. CASE PersistAccepted
  BY <1>6 DEF PersistAccepted
<1>7. CASE PersistFinished
  BY <1>7 DEF PersistFinished
<1>8. CASE Interrupted
  BY <1>8 DEF Interrupted
<1>9. CASE CloudStep \/ AttachAddress \/ UNCHANGED vars
  BY <1>9 DEF CloudStep, AttachAddress, vars, runVars
<1> QED
  BY <1>1, <1>2, <1>3, <1>4, <1>5, <1>6, <1>7, <1>8, <1>9 DEF Next, Writes

(* Whatever the provider answers, a call records the instance it launched   *)
(* or found before it follows it, says "running" of that instance only, and *)
(* only at its end, and writes nothing once it has ended.                   *)
THEOREM LaunchKeepsContract == Spec => KeepsContract
<1>1. Init => Contract!Init
  BY CloudAssumption DEF Init, Inputs, Following, Contract!Init
<1> QED
  BY RecordInit, RecordStep, ContractStep, <1>1, PTL DEF Spec, KeepsContract, Contract!Spec

-----------------------------------------------------------------------------
(* Types.  The record has its type by Record; here is the rest.            *)

Values == /\ in \in Inputs
          /\ retry \in Nat
          /\ observed \in [state : VmStates, address : BOOLEAN]
          /\ addressed \subseteq Instances
          /\ vm \in [Instances -> VmStates]
          /\ bound \in [Tokens -> Bindings]

LEMMA ValuesInit == Init => Values
BY DEF Init, CloudInit, Values, NothingObserved, VmStates, Bindings

(* A request, executed or not, leaves the provider's variables typed. *)
LEMMA RequestKeepsCloud ==
    ASSUME NEW t \in Tokens,
           vm \in [Instances -> VmStates], bound \in [Tokens -> Bindings],
           \/ \E i \in Instances : Executes(t, i, 0)
           \/ MayExecute(t, 0)
    PROVE  vm' \in [Instances -> VmStates] /\ bound' \in [Tokens -> Bindings]
<1>1. CASE UNCHANGED cloudVars
  BY <1>1 DEF cloudVars
<1>2. CASE \E i \in Instances : Executes(t, i, 0)
  <2>1. PICK i \in Instances : Executes(t, i, 0)
    BY <1>2
  <2>2. CASE UNCHANGED cloudVars
    BY <2>2, <1>1
  <2>3. CASE /\ vm' = [vm EXCEPT ![i] = "PROVISIONING"]
             /\ bound' = [bound EXCEPT ![t] = [instance |-> i, until |-> 0 + Retention]]
    <3>1. vm' \in [Instances -> VmStates]
      BY <2>3 DEF VmStates
    <3>2. [instance |-> i, until |-> 0 + Retention] \in Bindings
      BY CloudAssumption DEF Bindings
    <3> QED BY <2>3, <3>1, <3>2
  <2> QED BY <2>1, <2>2, <2>3 DEF Executes
<1> QED BY <1>1, <1>2 DEF MayExecute

(* So does a step of the provider or of a user. *)
LEMMA MoveKeepsCloud ==
    ASSUME NEW i \in Instances, ProviderStep(i) \/ UserStep(i),
           vm \in [Instances -> VmStates], bound \in [Tokens -> Bindings]
    PROVE  vm' \in [Instances -> VmStates] /\ bound' \in [Tokens -> Bindings]
<1>1. PICK m \in ProviderMoves \cup UserMoves : /\ vm' = [vm EXCEPT ![i] = m[2]]
                                                /\ UNCHANGED bound
  BY DEF ProviderStep, UserStep, Move
<1>2. m[2] \in VmStates
  BY DEF ProviderMoves, UserMoves, VmStates
<1> QED BY <1>1, <1>2

LEMMA ValuesStep == Record /\ Values /\ [Next]_vars => Values'
<1> SUFFICES ASSUME Record, Values, [Next]_vars PROVE Values'
  OBVIOUS
<1> USE DEF Values
<1>0. in.token \in Tokens
  BY DEF Inputs
<1>1. CASE LaunchStep
  <2>1. UNCHANGED <<in, retry, observed, addressed>>
    BY <1>1 DEF LaunchStep, Accept, RetryLater, GiveUpRetrying, OutOfCapacity, Rejected,
                LimitExceeded
  <2>2. \/ \E i \in Instances : Executes(in.token, i, 0)
        \/ MayExecute(in.token, 0)
        \/ UNCHANGED cloudVars
    BY <1>1 DEF LaunchStep, Accept, RetryLater, GiveUpRetrying, OutOfCapacity, Rejected,
                LimitExceeded
  <2>3. vm' \in [Instances -> VmStates] /\ bound' \in [Tokens -> Bindings]
    BY <1>0, <2>2, RequestKeepsCloud DEF MayExecute
  <2> QED BY <2>1, <2>3
<1>2. CASE LimitReconciled
  BY <1>2 DEF LimitReconciled, cloudVars
<1>3. ASSUME Gets, Following PROVE observed' \in [state : VmStates, address : BOOLEAN]
  <2>1. instanceID \in Instances
    BY <1>3 DEF Record
  <2> QED BY <1>3, <2>1 DEF Gets
<1>4. CASE FollowStep
  <2>1. CASE PollRunning
    <3>1. Following /\ Gets /\ retry' \in Nat /\ UNCHANGED <<in, addressed, cloudVars>>
      BY <2>1 DEF PollRunning, Following
    <3> QED BY <1>3, <3>1 DEF cloudVars
  <2>2. CASE PollTerminal \/ PollAgain \/ PollRejected
    BY <2>2 DEF PollTerminal, PollAgain, PollRejected, cloudVars
  <2> QED BY <1>4, <2>1, <2>2 DEF FollowStep
<1>5. CASE AddressLookup
  <2>1. Following /\ (Gets \/ UNCHANGED observed) /\ retry' \in Nat
        /\ UNCHANGED <<in, addressed, cloudVars>>
    BY <1>5 DEF AddressLookup, Following
  <2> QED BY <1>3, <2>1 DEF cloudVars
<1>6. CASE Wakes \/ Writes
  BY <1>6 DEF Wakes, RetryWakes, PollWakes, AddressWakes, Writes, PersistAccepted,
              PersistFinished, cloudVars
<1>7. CASE Interrupted
  <2>1. UNCHANGED <<in, retry, observed, addressed>>
        /\ (MayExecute(in.token, 0) \/ UNCHANGED cloudVars)
    BY <1>7 DEF Interrupted
  <2>2. vm' \in [Instances -> VmStates] /\ bound' \in [Tokens -> Bindings]
    BY <1>0, <2>1, RequestKeepsCloud DEF MayExecute
  <2> QED BY <2>1, <2>2
<1>8. CASE CloudStep
  <2>1. PICK i \in Instances : ProviderStep(i) \/ UserStep(i)
    BY <1>8 DEF CloudStep
  <2>2. UNCHANGED <<in, retry, observed, addressed>>
    BY <1>8 DEF CloudStep, runVars
  <2>3. vm' \in [Instances -> VmStates] /\ bound' \in [Tokens -> Bindings]
    BY <2>1, MoveKeepsCloud
  <2> QED BY <2>2, <2>3
<1>9. CASE AttachAddress \/ UNCHANGED vars
  BY <1>9 DEF AttachAddress, vars, runVars, cloudVars
<1> QED
  BY <1>1, <1>2, <1>4, <1>5, <1>6, <1>7, <1>8, <1>9 DEF Next

(* Every variable of a call has its type, whatever the provider answers; in *)
(* particular what is followed, listed and written is an instance.         *)
THEOREM LaunchTypes == Spec => []TypeOK
<1>1. Record /\ Values => TypeOK
  BY DEF Record, Values, TypeOK
<1> QED
  BY RecordInit, RecordStep, ValuesInit, ValuesStep, <1>1, PTL DEF Spec

-----------------------------------------------------------------------------
(* The retry budget, by what the backoff returns for any width.            *)

\* The delay slept before turn n, doubled from RetryMin, is below RetryMax.
Afforded(n) == Doubled(in.bounds[1], n) < in.bounds[2]

Budget == /\ pc = "retrySleep" => Afforded(retry)
          /\ pc \in {"launch", "address", "addressSleep"} /\ retry > 0 => Afforded(retry - 1)

(* A turn is made only if the budget is not spent, and then it is afforded. *)
LEMMA UnspentIsAfforded ==
    ASSUME Values, ~BudgetSpent
    PROVE  Afforded(retry)
<1> DEFINE lo == in.bounds[1]
           hi == in.bounds[2]
<1>1. lo \in Durations /\ hi \in Durations /\ lo <= hi
  BY LaunchAssumption DEF Values, Inputs
<1>2. lo \in Nat \ {0} /\ hi \in Nat /\ retry \in Nat
  BY <1>1, MaximumType, SMT DEF Durations, Values
<1>3. LaunchBackoff(lo, hi, retry) # hi
  BY DEF BudgetSpent, LaunchBudgetSpent
<1> HIDE DEF lo, hi
<1>4. LaunchBackoff(lo, hi, retry) = Nominal(lo, hi, retry)
  BY <1>1, <1>2, LaunchBackoffNominal
<1>5. Doubled(lo, retry) \in Nat
  BY <1>2, DoubledFacts
<1>6. Doubled(lo, retry) < hi
  BY <1>2, <1>3, <1>4, <1>5, SMT DEF Nominal
<1> QED BY <1>6 DEF Afforded, lo, hi

LEMMA BudgetStep == Record /\ Values /\ Budget /\ [Next]_vars => Budget'
<1> SUFFICES ASSUME Record, Values, Budget, [Next]_vars PROVE Budget'
  OBVIOUS
<1>0. retry \in Nat
  BY DEF Values
<1>1. ~BudgetSpent => Afforded(retry)
  BY UnspentIsAfforded
<1>2. ASSUME NEW n, UNCHANGED in PROVE Afforded(n)' <=> Afforded(n)
  BY <1>2 DEF Afforded
<1> USE DEF Goto, Fail
<1>3. CASE LaunchStep
  <2>1. CASE RetryLater
    BY <2>1, <1>1 DEF RetryLater, Budget, Afforded
  <2>2. CASE Accept \/ GiveUpRetrying \/ OutOfCapacity \/ Rejected \/ LimitExceeded
    BY <2>2 DEF Accept, GiveUpRetrying, OutOfCapacity, Rejected, LimitExceeded, Budget
  <2> QED BY <1>3, <2>1, <2>2 DEF LaunchStep
<1>4. CASE LimitReconciled
  BY <1>4, LimitFound DEF Budget
<1>5. CASE FollowStep
  BY <1>5 DEF FollowStep, PollRunning, PollTerminal, PollAgain, PollRejected, Budget
<1>6. CASE AddressLookup
  <2>1. CASE retry' = retry + 1 /\ ~BudgetSpent
    <3>1. retry' - 1 = retry /\ pc' # "retrySleep" /\ UNCHANGED in
      BY <1>0, <1>6, <2>1 DEF AddressLookup
    <3> QED BY <1>1, <2>1, <3>1 DEF Budget, Afforded
  <2>2. CASE pc' = "finish"
    BY <2>2 DEF Budget
  <2> QED BY <1>6, <2>1, <2>2 DEF AddressLookup
<1>7. CASE RetryWakes
  <2>1. retry' - 1 = retry /\ pc = "retrySleep" /\ pc' = "launch" /\ UNCHANGED in
    BY <1>0, <1>7 DEF RetryWakes
  <2> QED BY <2>1 DEF Budget, Afforded
<1>8. CASE PollWakes \/ AddressWakes
  BY <1>8 DEF PollWakes, AddressWakes, Budget, Afforded
<1>9. CASE Writes \/ Interrupted
  BY <1>9 DEF Writes, PersistAccepted, PersistFinished, Interrupted, Budget
<1>10. CASE CloudStep \/ AttachAddress \/ UNCHANGED vars
  BY <1>10 DEF CloudStep, AttachAddress, vars, runVars, Budget, Afforded
<1> QED
  BY <1>3, <1>4, <1>5, <1>6, <1>7, <1>8, <1>9, <1>10 DEF Next, Wakes

(* launch.go, "launch retry budget exhausted": for retry bounds of any size *)
(* neither the launch loop nor the lookup of the address makes more turns   *)
(* than the doublings from RetryMin to RetryMax, which always are finitely  *)
(* many since a doubled duration never wraps around.                        *)
THEOREM BudgetBoundsRetries == Spec => []RetriesWithinBudget
<1>1. Init => Budget
  BY DEF Init, Budget
<1>2. Budget => RetriesWithinBudget
  BY DEF Budget, Afforded, Doubled, RetriesWithinBudget
<1> QED
  BY RecordInit, RecordStep, ValuesInit, ValuesStep, BudgetStep, <1>1, <1>2, PTL DEF Spec
=============================================================================

-------------------------- MODULE ProvisioningProofs --------------------------
(***************************************************************************)
(* Safety of the whole run, for any number of processes, instances and     *)
(* tokens: typing and the ownership of the persisted attempt; what the     *)
(* record may say of instances; and, while the persisted attempt stays     *)
(* valid, at most one live instance of the target, recoverable from disk.  *)
(***************************************************************************)
EXTENDS Provisioning, OperatorLemmas

(* Typing, and what a missing state file means. *)
Typing == /\ TypeOK
          /\ disk.target
          /\ disk.present \/ disk = NoState

LEMMA TypingInit == Init => Typing
<1> SUFFICES ASSUME Init PROVE Typing
  OBVIOUS
<1>1. NoState \in States /\ NoState.target /\ NoAttempt \in Attempts
  BY DEF NoState, States, StateLifecycles, Attempts, NoAttempt
<1>2. vm \in [Instances -> VmStates] /\ bound \in [Tokens -> Bindings]
  BY DEF Init, CloudInit, VmStates, Bindings
<1> QED
  BY <1>1, <1>2 DEF Init, Typing, TypeOK, PCs

-----------------------------------------------------------------------------
(* What a listing shows. *)

LEMMA ListingsTyped ==
    ASSUME vm \in [Instances -> VmStates], NEW s \in Listings
    PROVE  s \subseteq Observations
BY DEF Listings, Existing, Observation, Observations, Lifecycle, Lifecycles, TagsOf, ContractTags

LEMMA ExecutesTyped ==
    ASSUME vm \in [Instances -> VmStates], bound \in [Tokens -> Bindings],
           NEW t \in Tokens, NEW i \in Instances, now \in Nat, Executes(t, i, now)
    PROVE  vm' \in [Instances -> VmStates] /\ bound' \in [Tokens -> Bindings]
BY CloudAssumption DEF Executes, cloudVars, VmStates, Bindings

LEMMA MayExecuteTyped ==
    ASSUME vm \in [Instances -> VmStates], bound \in [Tokens -> Bindings],
           NEW t \in Tokens, now \in Nat, MayExecute(t, now)
    PROVE  vm' \in [Instances -> VmStates] /\ bound' \in [Tokens -> Bindings]
BY ExecutesTyped DEF MayExecute, cloudVars

LEMMA ExitTyped ==
    ASSUME TypeOK, NEW p \in Procs, Exit(p)
    PROVE  /\ runLock' \in Procs \cup {NoProc}
           /\ pc' \in [Procs -> PCs]
           /\ once' \in [Procs -> BOOLEAN]
           /\ seen' \in [Procs -> SUBSET Observations]
           /\ attempt' \in [Procs -> Attempts]
           /\ instance' \in [Procs -> Instances \cup {NoInstance}]
<1>1. NoAttempt \in Attempts
  BY DEF NoAttempt, Attempts
<1> QED
  BY <1>1 DEF TypeOK, Exit, Goto, PCs

LEMMA ExitWithTyped ==
    ASSUME Typing, NEW p \in Procs, NEW l \in StateLifecycles, ExitWith(p, l)
    PROVE  /\ Exit(p)
           /\ disk' \in States
           /\ disk'.target
           /\ disk.present => disk'.present
           /\ disk'.attempt = disk.attempt
           /\ disk'.instance = disk.instance
BY DEF Typing, TypeOK, ExitWith, States

(* What a run knows of its decision, and what it saves. *)
LEMMA DecisionSaved ==
    ASSUME Typing, NEW p \in Procs, NEW fresh \in Attempts
    PROVE  LET decision == Decide(disk, seen[p], now)
               saved    == Persisted(disk, decision, fresh)
           IN  /\ decision.kind \in {"AlreadySatisfied", "ResumeReconcile"} =>
                     /\ decision.instance \in Instances
                     /\ \E o \in seen[p] : IsOwned(o) /\ decision.instance = o.id
               /\ saved \in States /\ saved.present /\ saved.target
               /\ saved.attempt = IF decision.kind \in CreateKinds THEN fresh ELSE disk.attempt
               /\ saved.instance = IF decision.kind = "AlreadySatisfied"
                                   THEN decision.instance ELSE disk.instance
<1> DEFINE decision == Decide(disk, seen[p], now)
<1>1. disk \in States /\ disk.target /\ now \in Nat /\ seen[p] \subseteq Observations
  BY DEF Typing, TypeOK
<1>2. decision.kind \in DecisionKinds
  BY <1>1, DecideFacts
<1>3. decision.kind \in {"AlreadySatisfied", "ResumeReconcile"} =>
          /\ decision.instance \in Instances
          /\ \E o \in seen[p] : IsOwned(o) /\ decision.instance = o.id
  BY <1>1, DecideFacts DEF LiveOwned, Observations
<1> HIDE DEF decision
<1>4. /\ Persisted(disk, decision, fresh) \in States
      /\ Persisted(disk, decision, fresh).present
      /\ Persisted(disk, decision, fresh).target = disk.target
      /\ Persisted(disk, decision, fresh).attempt
             = IF decision.kind \in CreateKinds THEN fresh ELSE disk.attempt
      /\ Persisted(disk, decision, fresh).instance
             = IF decision.kind = "AlreadySatisfied" THEN decision.instance ELSE disk.instance
  BY <1>1, <1>2, <1>3, PersistedFacts
<1> QED
  BY <1>1, <1>3, <1>4 DEF decision

(* The processes that hold the run lock and have an attempt to launch.     *)
Holding   == PCs \ {"idle", "discovered"}
Launching == {"watch", "launch", "retry", "rotate"}

(* The part of the invariant about the lock and the persisted attempt: the *)
(* lock is held from reconciliation to the end of the run, the holder      *)
(* launches with the attempt on disk, and tokens on disk were minted.      *)
Owning ==
    /\ \A p \in Procs : pc[p] \in Holding <=> runLock = p
    /\ \A p \in Procs : pc[p] \in Launching =>
          disk.present /\ attempt[p] = disk.attempt /\ disk.attempt.token \in minted
    /\ \A p \in Procs : pc[p] \in {"accepted", "poll", "finish"} =>
          disk.present /\ instance[p] \in Instances
    /\ disk.attempt.token \in minted \cup {NoToken}

LEMMA OwningInit == Init => Owning
BY ProvisioningAssumption DEF Init, Owning, Holding, Launching, NoState, NoAttempt

LEMMA HoldingPCs == Launching \subseteq Holding
BY DEF Launching, Holding, PCs

(* The token a process is about to launch with is a real one. *)
LEMMA LaunchToken ==
    ASSUME Typing, Owning, NEW p \in Procs, pc[p] \in Launching
    PROVE  attempt[p].token \in Tokens
BY DEF Typing, TypeOK, Owning

(* How a service limit ends: with the one instance found, or the run.      *)
LEMMA LimitCases ==
    ASSUME NEW p \in Procs, NEW found \in SUBSET Instances, LimitReconciled(p, found)
    PROVE  \/ /\ \E i \in Instances : found = {i} /\ instance' = [instance EXCEPT ![p] = i]
              /\ Goto(p, "accepted")
              /\ UNCHANGED <<disk, runLock, once, seen, attempt>>
           \/ ExitWith(p, "failed")
           \/ Exit(p) /\ UNCHANGED disk
BY Zenon DEF LimitReconciled

LEMMA TypingProcStep ==
    ASSUME Typing, Owning, NEW p \in Procs, ProcStep(p)
    PROVE  Typing'
<1> USE DEF Typing, TypeOK
<1>1. CASE Discover(p)
  <2>1. \A s \in Listings : s \subseteq Observations
    BY ListingsTyped
  <2> QED
    BY <1>1, <2>1, ProvisioningAssumption DEF Discover, Goto, PCs, cloudVars
<1>2. CASE LockBusy(p)
  BY <1>2, ExitTyped DEF LockBusy, cloudVars
<1>3. CASE MintAttempt(p)
  <2>1. PICK t \in Tokens :
          /\ Mints(t)
          /\ disk' = Persisted(disk, Decide(disk, seen[p], now), NewAttempt(t, now))
          /\ attempt' = [attempt EXCEPT ![p] = NewAttempt(t, now)]
    BY <1>3 DEF MintAttempt
  <2>2. NewAttempt(t, now) \in Attempts
    BY NewAttemptFacts
  <2>3. disk' \in States /\ disk'.present /\ disk'.target
    BY <2>1, <2>2, DecisionSaved
  <2>4. attempt' \in [Procs -> Attempts] /\ minted' \subseteq Tokens
    BY <2>1, <2>2 DEF Mints
  <2> QED
    BY <1>3, <2>3, <2>4 DEF MintAttempt, Goto, PCs, cloudVars
<1>4. CASE RetrySameAttempt(p)
  <2>1. NoAttempt \in Attempts /\ disk.attempt \in Attempts
    BY DEF NoAttempt, Attempts, States
  <2>2. disk' \in States /\ disk'.present /\ disk'.target
    BY <1>4, <2>1, DecisionSaved DEF RetrySameAttempt
  <2> QED
    BY <1>4, <2>1, <2>2 DEF RetrySameAttempt, Goto, PCs, cloudVars
<1>5. CASE FollowInstance(p)
  <2>1. NoAttempt \in Attempts
    BY DEF NoAttempt, Attempts
  <2>2. /\ disk' \in States /\ disk'.present /\ disk'.target
        /\ Decide(disk, seen[p], now).instance \in Instances
    BY <1>5, <2>1, DecisionSaved DEF FollowInstance
  <2> QED
    BY <1>5, <2>2 DEF FollowInstance, Goto, PCs, cloudVars
<1>6. CASE ReportConflict(p)
  <2>1. NoAttempt \in Attempts
    BY DEF NoAttempt, Attempts
  <2>2. disk' \in States /\ disk'.present /\ disk'.target
    BY <1>6, <2>1, DecisionSaved DEF ReportConflict
  <2> QED
    BY <1>6, <2>2, ExitTyped DEF ReportConflict, cloudVars
<1>7. CASE WatchStep(p)
  <2>1. CASE CapacityFound(p)
    BY <1>7, <2>1 DEF CapacityFound, Goto, PCs, cloudVars, States, StateLifecycles, Owning, Launching
  <2>2. CASE CapacityWait(p)
    BY <1>7, <2>2 DEF CapacityWait, procVars, cloudVars, States, StateLifecycles, Owning, Launching
  <2>3. CASE CapacityNoneOnce(p) \/ CapacityFatal(p)
    <3>1. disk.present
      BY <2>3 DEF CapacityNoneOnce, CapacityFatal, Owning, Launching
    <3> QED
      BY <2>3, <3>1, ExitTyped, ExitWithTyped
         DEF CapacityNoneOnce, CapacityFatal, cloudVars, StateLifecycles
  <2> QED
    BY <1>7, <2>1, <2>2, <2>3 DEF WatchStep
<1>8. CASE LaunchStep(p)
  <2>1. Calls(p) => attempt[p].token \in Tokens /\ disk.present
    BY LaunchToken DEF Calls, Launching, Owning
  <2>2. CASE LaunchAccepted(p)
    BY <2>1, <2>2, ExecutesTyped DEF LaunchAccepted, Goto, PCs
  <2>3. CASE LaunchAmbiguous(p)
    BY <2>1, <2>3, MayExecuteTyped DEF LaunchAmbiguous, Goto, PCs, cloudVars
  <2>4. CASE LaunchFails(p)
    BY <2>1, <2>4, MayExecuteTyped, ExitTyped, ExitWithTyped DEF LaunchFails, StateLifecycles
  <2>5. CASE LaunchOutOfCapacity(p)
    BY <2>5, ExitTyped DEF LaunchOutOfCapacity, Goto, PCs, cloudVars
  <2>6. CASE LaunchLimitExceeded(p)
    <3>1. PICK s \in Listings : LimitReconciled(p, {o.id : o \in LiveOwned(s)})
      BY <2>6 DEF LaunchLimitExceeded
    <3> DEFINE found == {o.id : o \in LiveOwned(s)}
    <3>2. found \subseteq Instances /\ LimitReconciled(p, found)
      BY <3>1, ListingsTyped DEF LiveOwned, Observations
    <3> HIDE DEF found
    <3>3. CASE /\ \E i \in Instances : found = {i} /\ instance' = [instance EXCEPT ![p] = i]
               /\ Goto(p, "accepted")
               /\ UNCHANGED <<disk, runLock, once, seen, attempt>>
      BY <2>6, <3>3 DEF LaunchLimitExceeded, Goto, PCs, cloudVars
    <3>4. CASE ExitWith(p, "failed") \/ (Exit(p) /\ UNCHANGED disk)
      BY <2>6, <2>1, <3>4, ExitTyped, ExitWithTyped
         DEF LaunchLimitExceeded, cloudVars, StateLifecycles
    <3> QED
      BY <3>2, <3>3, <3>4, LimitCases
  <2>7. CASE PersistAccepted(p)
    BY <2>7 DEF PersistAccepted, Goto, PCs, cloudVars, States, StateLifecycles, Owning
  <2>8. CASE Rotate(p)
    <3>1. PICK t \in Tokens :
            /\ Mints(t)
            /\ disk' = Rotated(disk, NewAttempt(t, now))
            /\ attempt' = [attempt EXCEPT ![p] = NewAttempt(t, now)]
      BY <2>8 DEF Rotate
    <3>2. NewAttempt(t, now) \in Attempts
      BY NewAttemptFacts
    <3>3. disk' \in States /\ disk'.target /\ (disk'.present \/ disk' = NoState)
      BY <2>8, <3>1, <3>2 DEF Rotate, Rotated, States, StateLifecycles, Owning, Launching
    <3>4. attempt' \in [Procs -> Attempts] /\ minted' \subseteq Tokens
      BY <3>1, <3>2 DEF Mints
    <3> QED
      BY <2>8, <3>3, <3>4 DEF Rotate, Goto, PCs, cloudVars
  <2> QED
    BY <1>8, <2>2, <2>3, <2>4, <2>5, <2>6, <2>7, <2>8 DEF LaunchStep
<1>9. CASE PollStep(p)
  <2>1. CASE PollRunning(p)
    BY <2>1 DEF PollRunning, Goto, PCs, cloudVars
  <2>2. CASE PollTerminal(p) \/ PollRejected(p)
    <3>1. disk.present
      BY <2>2 DEF PollTerminal, PollRejected, Owning
    <3> QED
      BY <2>2, <3>1, ExitTyped, ExitWithTyped
         DEF PollTerminal, PollRejected, cloudVars, StateLifecycles
  <2>3. CASE PersistFinished(p)
    <3>1. disk' \in States /\ disk'.target /\ disk'.present
      BY <2>3 DEF PersistFinished, States, StateLifecycles, Owning
    <3> QED
      BY <2>3, <3>1, ExitTyped DEF PersistFinished, cloudVars
  <2> QED
    BY <1>9, <2>1, <2>2, <2>3 DEF PollStep
<1> QED
  BY <1>1, <1>2, <1>3, <1>4, <1>5, <1>6, <1>7, <1>8, <1>9 DEF ProcStep, ReconcileAndPersist

LEMMA TypingStep == Typing /\ Owning /\ [Next]_vars => Typing'
<1> SUFFICES ASSUME Typing, Owning, [Next]_vars PROVE Typing'
  OBVIOUS
<1>1. ASSUME NEW p \in Procs, ProcStep(p) PROVE Typing'
  BY <1>1, TypingProcStep
<1>2. ASSUME NEW p \in Procs, Stop(p) PROVE Typing'
  BY <1>2, ExitTyped DEF Stop, cloudVars, Typing, TypeOK
<1>3. ASSUME NEW t \in Tokens, LateExecute(t) PROVE Typing'
  BY <1>3, ExecutesTyped DEF LateExecute, procVars, Typing, TypeOK
<1>4. CASE CloudStep
  <2>1. vm' \in [Instances -> VmStates] /\ bound' = bound
    BY <1>4 DEF CloudStep, ProviderStep, UserStep, Move, ProviderMoves, UserMoves,
                VmStates, Typing, TypeOK
  <2> QED
    BY <1>4, <2>1 DEF CloudStep, procVars, Typing, TypeOK
<1>5. CASE Tick
  BY <1>5 DEF Tick, procVars, cloudVars, Typing, TypeOK
<1>6. CASE UNCHANGED vars
  BY <1>6 DEF vars, procVars, cloudVars, Typing, TypeOK
<1> QED
  BY <1>1, <1>2, <1>3, <1>4, <1>5, <1>6 DEF Next

-----------------------------------------------------------------------------
(* Only the holder of the lock is past its reconciliation.                 *)
LEMMA Alone ==
    ASSUME Owning, NEW p \in Procs, pc[p] \in Holding, NEW q \in Procs, q # p
    PROVE  pc[q] \notin Holding
BY DEF Owning

\* A process that ends leaves nothing behind that Owning speaks of.
LEMMA OwningExit ==
    ASSUME Typing, Owning, NEW p \in Procs, Exit(p),
           disk'.attempt = disk.attempt, disk.present => disk'.present, minted' = minted
    PROVE  Owning'
<1>1. \A q \in Procs : pc'[q] = IF q = p THEN "idle" ELSE pc[q]
  BY DEF Exit, Goto, Typing, TypeOK
<1>2. \A q \in Procs \ {p} : attempt'[q] = attempt[q] /\ instance'[q] = instance[q]
  BY DEF Exit, Typing, TypeOK
<1>3. runLock' = IF runLock = p THEN NoProc ELSE runLock
  BY DEF Exit
<1> QED
  BY <1>1, <1>2, <1>3, ProvisioningAssumption DEF Owning, Holding, Launching

LEMMA OwningTakesLock ==
    ASSUME Typing, Owning, NEW p \in Procs, TakesLock(p), runLock' = p,
           NEW label \in {"watch", "poll"}, Goto(p, label),
           disk'.present, minted \subseteq minted',
           disk'.attempt.token \in minted' \cup {NoToken},
           label = "watch" => attempt'[p] = disk'.attempt /\ disk'.attempt.token \in minted',
           label = "poll" => instance'[p] \in Instances,
           \A q \in Procs \ {p} : attempt'[q] = attempt[q] /\ instance'[q] = instance[q]
    PROVE  Owning'
<1>1. \A q \in Procs : pc'[q] = IF q = p THEN label ELSE pc[q]
  BY DEF Goto, Typing, TypeOK
<1>2. \A q \in Procs : pc[q] \notin Holding
  BY ProvisioningAssumption DEF TakesLock, Owning
<1>3. {"watch", "poll"} \subseteq Holding /\ "poll" \notin Launching
  BY DEF Holding, PCs, Launching
<1> QED
  BY <1>1, <1>2, <1>3, HoldingPCs DEF Owning, Holding, Launching, PCs

LEMMA OwningProcStep ==
    ASSUME Typing, Owning, NEW p \in Procs, ProcStep(p)
    PROVE  Owning'
<1> USE DEF Typing, TypeOK
<1>1. CASE Discover(p)
  BY <1>1 DEF Discover, Goto, Owning, Holding, Launching
<1>2. CASE LockBusy(p)
  BY <1>2, OwningExit DEF LockBusy
<1>3. CASE MintAttempt(p)
  <2>1. PICK t \in Tokens :
          /\ Mints(t)
          /\ disk' = Persisted(disk, Decide(disk, seen[p], now), NewAttempt(t, now))
          /\ attempt' = [attempt EXCEPT ![p] = NewAttempt(t, now)]
    BY <1>3 DEF MintAttempt
  <2>2. NewAttempt(t, now) \in Attempts /\ NewAttempt(t, now).token = t
    BY NewAttemptFacts
  <2>3. disk'.present /\ disk'.attempt = NewAttempt(t, now)
    BY <1>3, <2>1, <2>2, DecisionSaved DEF MintAttempt
  <2>4. t \in minted' /\ minted \subseteq minted'
    BY <2>1 DEF Mints
  <2>5. attempt'[p] = NewAttempt(t, now)
    BY <2>1
  <2>6. \A q \in Procs \ {p} : attempt'[q] = attempt[q] /\ instance'[q] = instance[q]
    BY <1>3, <2>1 DEF MintAttempt
  <2> QED
    BY <1>3, <2>2, <2>3, <2>4, <2>5, <2>6, OwningTakesLock DEF MintAttempt
<1>4. CASE RetrySameAttempt(p)
  <2>1. NoAttempt \in Attempts
    BY DEF NoAttempt, Attempts
  <2>2. disk'.present /\ disk'.attempt = disk.attempt
    BY <1>4, <2>1, DecisionSaved DEF RetrySameAttempt, CreateKinds
  <2>3. disk.attempt.token \in Tokens
    BY <1>4, DecideFacts, DecideAbsentFacts DEF RetrySameAttempt, CreateSafe
  <2>4. disk.attempt.token \in minted
    BY <2>3, ReconcileAssumption DEF Owning
  <2>5. attempt'[p] = disk.attempt
    BY <1>4 DEF RetrySameAttempt
  <2>6. \A q \in Procs \ {p} : attempt'[q] = attempt[q] /\ instance'[q] = instance[q]
    BY <1>4 DEF RetrySameAttempt
  <2>7. minted' = minted
    BY <1>4 DEF RetrySameAttempt
  <2> QED
    BY <1>4, <2>2, <2>4, <2>5, <2>6, <2>7, OwningTakesLock DEF RetrySameAttempt
<1>5. CASE FollowInstance(p)
  <2>1. NoAttempt \in Attempts
    BY DEF NoAttempt, Attempts
  <2>2. /\ disk'.present /\ disk'.attempt = disk.attempt
        /\ Decide(disk, seen[p], now).instance \in Instances
    BY <1>5, <2>1, DecisionSaved DEF FollowInstance, CreateKinds
  <2>3. instance'[p] \in Instances
    BY <1>5, <2>2 DEF FollowInstance
  <2>4. \A q \in Procs \ {p} : attempt'[q] = attempt[q] /\ instance'[q] = instance[q]
    BY <1>5 DEF FollowInstance
  <2>5. disk.attempt.token \in minted \cup {NoToken} /\ minted' = minted
    BY <1>5 DEF FollowInstance, Owning
  <2> QED
    BY <1>5, <2>2, <2>3, <2>4, <2>5, OwningTakesLock DEF FollowInstance
<1>6. CASE ReportConflict(p)
  <2>1. NoAttempt \in Attempts
    BY DEF NoAttempt, Attempts
  <2>2. disk'.present /\ disk'.attempt = disk.attempt
    BY <1>6, <2>1, DecisionSaved DEF ReportConflict, CreateKinds
  <2> QED
    BY <1>6, <2>2, OwningExit DEF ReportConflict
<1>7. CASE WatchStep(p)
  <2>1. CASE CapacityFound(p)
    BY <2>1, HoldingPCs DEF CapacityFound, Goto, States, Owning, Holding, Launching, PCs
  <2>2. CASE CapacityWait(p)
    BY <2>2 DEF CapacityWait, procVars, States, Owning
  <2>3. CASE CapacityNoneOnce(p) \/ CapacityFatal(p)
    BY <2>3, ExitWithTyped, OwningExit DEF CapacityNoneOnce, CapacityFatal, StateLifecycles
  <2> QED
    BY <1>7, <2>1, <2>2, <2>3 DEF WatchStep
<1>8. CASE LaunchStep(p)
  <2>1. Calls(p) => pc[p] \in Holding /\ pc[p] \in Launching
    BY DEF Calls, Launching, Holding, PCs
  <2>2. CASE LaunchAccepted(p)
    BY <2>1, <2>2 DEF LaunchAccepted, Goto, Owning, Holding, Launching, PCs
  <2>3. CASE LaunchAmbiguous(p)
    BY <2>1, <2>3 DEF LaunchAmbiguous, Goto, Owning, Holding, Launching, PCs
  <2>4. CASE LaunchFails(p)
    BY <2>4, ExitWithTyped, OwningExit DEF LaunchFails, StateLifecycles
  <2>5. CASE LaunchOutOfCapacity(p)
    <3>1. CASE Exit(p)
      BY <2>5, <3>1, OwningExit DEF LaunchOutOfCapacity
    <3>2. CASE Goto(p, "rotate") /\ UNCHANGED <<runLock, once, seen, attempt, instance>>
      BY <2>1, <2>5, <3>2 DEF LaunchOutOfCapacity, Goto, Owning, Holding, Launching, PCs
    <3> QED
      BY <2>5, <3>1, <3>2 DEF LaunchOutOfCapacity
  <2>6. CASE LaunchLimitExceeded(p)
    <3>1. PICK s \in Listings : LimitReconciled(p, {o.id : o \in LiveOwned(s)})
      BY <2>6 DEF LaunchLimitExceeded
    <3> DEFINE found == {o.id : o \in LiveOwned(s)}
    <3>2. found \subseteq Instances /\ LimitReconciled(p, found)
      BY <3>1, ListingsTyped DEF LiveOwned, Observations
    <3> HIDE DEF found
    <3>3. CASE /\ \E i \in Instances : found = {i} /\ instance' = [instance EXCEPT ![p] = i]
               /\ Goto(p, "accepted")
               /\ UNCHANGED <<disk, runLock, once, seen, attempt>>
      BY <2>1, <2>6, <3>3 DEF LaunchLimitExceeded, Goto, Owning, Holding, Launching, PCs
    <3>4. CASE ExitWith(p, "failed") \/ (Exit(p) /\ UNCHANGED disk)
      BY <2>6, <3>4, ExitWithTyped, OwningExit DEF LaunchLimitExceeded, StateLifecycles
    <3> QED
      BY <3>2, <3>3, <3>4, LimitCases
  <2>7. CASE PersistAccepted(p)
    BY <2>7 DEF PersistAccepted, Goto, States, Owning, Holding, Launching, PCs
  <2>8. CASE Rotate(p)
    <3>1. PICK t \in Tokens :
            /\ Mints(t)
            /\ disk' = Rotated(disk, NewAttempt(t, now))
            /\ attempt' = [attempt EXCEPT ![p] = NewAttempt(t, now)]
      BY <2>8 DEF Rotate
    <3>2. NewAttempt(t, now).token = t
      BY NewAttemptFacts
    <3>3. disk'.present /\ disk'.attempt = NewAttempt(t, now)
      BY <2>8, <3>1 DEF Rotate, Rotated, States, Owning, Launching
    <3>4. t \in minted'
      BY <3>1 DEF Mints
    <3> QED
      BY <2>8, <3>1, <3>2, <3>3, <3>4
         DEF Rotate, Goto, Owning, Holding, Launching, PCs
  <2> QED
    BY <1>8, <2>2, <2>3, <2>4, <2>5, <2>6, <2>7, <2>8 DEF LaunchStep
<1>9. CASE PollStep(p)
  <2>1. CASE PollRunning(p)
    BY <2>1 DEF PollRunning, Goto, Owning, Holding, Launching, PCs
  <2>2. CASE PollTerminal(p) \/ PollRejected(p)
    BY <2>2, ExitWithTyped, OwningExit DEF PollTerminal, PollRejected, StateLifecycles
  <2>3. CASE PersistFinished(p)
    BY <2>3, OwningExit DEF PersistFinished, States
  <2> QED
    BY <1>9, <2>1, <2>2, <2>3 DEF PollStep
<1> QED
  BY <1>1, <1>2, <1>3, <1>4, <1>5, <1>6, <1>7, <1>8, <1>9 DEF ProcStep, ReconcileAndPersist

LEMMA OwningStep == Typing /\ Owning /\ [Next]_vars => Owning'
<1> SUFFICES ASSUME Typing, Owning, [Next]_vars PROVE Owning'
  OBVIOUS
<1>1. ASSUME NEW p \in Procs, ProcStep(p) PROVE Owning'
  BY <1>1, OwningProcStep
<1>2. ASSUME NEW p \in Procs, Stop(p) PROVE Owning'
  BY <1>2, OwningExit DEF Stop
<1>3. ASSUME NEW t \in Tokens, LateExecute(t) PROVE Owning'
  BY <1>3 DEF LateExecute, procVars, Owning
<1>4. CASE CloudStep
  BY <1>4 DEF CloudStep, procVars, Owning
<1>5. CASE Tick
  BY <1>5 DEF Tick, procVars, Owning
<1>6. CASE UNCHANGED vars
  BY <1>6 DEF vars, procVars, Owning
<1> QED
  BY <1>1, <1>2, <1>3, <1>4, <1>5, <1>6 DEF Next

(* Every variable of the system keeps its type. *)
THEOREM TypeCorrect == Spec => []TypeOK
<1>1. Typing /\ Owning => TypeOK
  BY DEF Typing
<1> QED
  BY TypingInit, OwningInit, TypingStep, OwningStep, <1>1, PTL DEF Spec

(* At any moment at most one process is between reconciliation and the end *)
(* of its run, and the attempt it launches with is the one on disk: this   *)
(* needs no assumption on time, the provider or the listings.              *)
THEOREM LaunchIsPersisted == Spec => []LaunchesPersistedAttempt
<1>1. Typing /\ Owning => LaunchesPersistedAttempt
  BY DEF Typing, TypeOK, Owning, LaunchesPersistedAttempt, Launching, Holding, PCs
<1> QED
  BY TypingInit, OwningInit, TypingStep, OwningStep, <1>1, PTL DEF Spec

-----------------------------------------------------------------------------
(***************************************************************************)
(* What the record and the memory of a run may say of instances, with no   *)
(* assumption on time, listings or requests: nothing of another target is  *)
(* claimed, and "running" is only recorded of an instance that has been    *)
(* active.                                                                 *)
(***************************************************************************)

Active(i) == vm[i] \notin {"absent", "PROVISIONING"}

(* The provider never answers a launch with an instance of another target. *)
CloudSound == /\ \A i \in Foreign : vm[i] # "absent"
              /\ \A t \in Tokens : bound[t].instance \notin Foreign

\* An observation, however old, was true when it was made.
Sound(o) == /\ IsOwned(o) => o.id \notin Foreign
            /\ o.lifecycle = "active" => Active(o.id)

ProcSound(p) == /\ instance[p] \notin Foreign
                /\ \A o \in seen[p] : Sound(o)
                /\ pc[p] = "finish" => Active(instance[p])

DiskSound == disk.instance \notin Foreign /\ RunningWasActive

Soundness == CloudSound /\ DiskSound /\ \A p \in Procs : ProcSound(p)

LEMMA SoundnessInit == Init => Soundness
<1> SUFFICES ASSUME Init PROVE Soundness
  OBVIOUS
<1>1. NoInstance \notin Foreign
  BY ReconcileAssumption, CloudAssumption
<1>2. CloudSound
  BY <1>1, CloudAssumption DEF Init, CloudInit, CloudSound
<1>3. DiskSound
  BY <1>1 DEF Init, DiskSound, RunningWasActive, NoState
<1>4. \A p \in Procs : ProcSound(p)
  BY <1>1 DEF Init, ProcSound
<1> QED
  BY <1>2, <1>3, <1>4 DEF Soundness

-----------------------------------------------------------------------------
(* An instance that has been active is never absent or provisioned again,  *)
(* so that what was observed of it stays sound.                            *)
Grows == \A i \in Instances : Active(i) => Active(i)'

LEMMA ExecutesSound ==
    ASSUME Typing, CloudSound, NEW t \in Tokens, NEW i \in Instances, Executes(t, i, now)
    PROVE  CloudSound' /\ Grows /\ i \notin Foreign
<1>1. vm \in [Instances -> VmStates] /\ bound \in [Tokens -> Bindings]
  BY DEF Typing, TypeOK
<1> QED
  BY <1>1, CloudAssumption DEF Executes, CloudSound, Grows, Active, cloudVars, Bindings

LEMMA MayExecuteSound ==
    ASSUME Typing, CloudSound, NEW t \in Tokens, MayExecute(t, now)
    PROVE  CloudSound' /\ Grows
BY ExecutesSound DEF MayExecute, CloudSound, Grows, Active, cloudVars

LEMMA UnchangedSound ==
    ASSUME CloudSound, UNCHANGED cloudVars
    PROVE  CloudSound' /\ Grows
BY DEF CloudSound, Grows, Active, cloudVars

LEMMA GrowsSound ==
    ASSUME Grows
    PROVE  \A o \in Observations : Sound(o) => Sound(o)'
BY DEF Grows, Sound, Observations

(* Everything a listing shows is sound. *)
LEMMA ListingsSound ==
    ASSUME CloudSound, NEW s \in Listings, NEW o \in s
    PROVE  Sound(o)
BY DEF Listings, Existing, Observation, Sound, IsOwned, TagsOf, ContractTags,
       Lifecycle, Active

(* AlreadySatisfied is only decided of an instance observed active.        *)
LEMMA SatisfiedFacts ==
    ASSUME NEW local \in States, NEW observed, NEW time \in Nat,
           Decide(local, observed, time).kind = "AlreadySatisfied"
    PROVE  \E o \in observed : /\ IsOwned(o) /\ o.lifecycle = "active"
                               /\ Decide(local, observed, time).instance = o.id
<1> DEFINE decision == Decide(local, observed, time)
<1>1. DecideAbsent(local, time) # "AlreadySatisfied"
  BY DecideAbsentFacts DEF CreateSafe, CreateKinds
<1>2. \E o \in LiveOwned(observed) :
          decision = Decision(DecidePresent(local, o), o.id)
  BY <1>1, DecideCases DEF Decision
<1> QED
  BY <1>2 DEF Decision, DecidePresent, LiveOwned

(* The life cycle that goes with each decision. *)
LEMMA DecisionLifecycle ==
    ASSUME Typing, NEW p \in Procs, NEW fresh \in Attempts
    PROVE  LET decision == Decide(disk, seen[p], now)
           IN  Persisted(disk, decision, fresh).lifecycle
                   = IF decision.kind = "AlreadySatisfied" THEN "running"
                     ELSE IF decision.kind = "Conflict" THEN "failed"
                     ELSE "provisioning"
<1> DEFINE decision == Decide(disk, seen[p], now)
<1>1. disk \in States /\ now \in Nat
  BY DEF Typing, TypeOK
<1>2. decision.kind \in DecisionKinds
  BY <1>1, DecideFacts
<1>3. decision.kind = "AlreadySatisfied" => decision.instance \in Instances
  BY DecisionSaved
<1> HIDE DEF decision
<1>4. Persisted(disk, decision, fresh).lifecycle
          = IF decision.kind = "AlreadySatisfied" THEN "running"
            ELSE IF decision.kind = "Conflict" THEN "failed" ELSE "provisioning"
  BY <1>1, <1>2, <1>3, PersistedFacts
<1> QED
  BY <1>4 DEF decision

-----------------------------------------------------------------------------
(* Steps that leave the record sound: the cloud may grow, and the record   *)
(* keeps its instance, or takes over that of the process.                  *)
LEMMA DiskKept ==
    ASSUME Typing, DiskSound, Grows, disk'.instance = disk.instance,
           disk'.lifecycle = "running" => disk.lifecycle = "running"
    PROVE  DiskSound'
BY DEF DiskSound, RunningWasActive, Grows, Active, Managed, Typing, TypeOK

(* What another process knows stays sound as the cloud grows.              *)
LEMMA ProcKept ==
    ASSUME Typing, Owning, Soundness, Grows, NEW q \in Procs,
           pc'[q] = pc[q], instance'[q] = instance[q], seen'[q] = seen[q]
    PROVE  ProcSound(q)'
<1>1. \A o \in Observations : Sound(o) => Sound(o)'
  BY GrowsSound
<1>2. seen[q] \subseteq Observations /\ ProcSound(q)
  BY DEF Typing, TypeOK, Soundness
<1>3. (\A o \in seen[q] : Sound(o))'
  BY <1>1, <1>2 DEF ProcSound
<1>4. (pc[q] = "finish" => Active(instance[q]))'
  BY <1>2 DEF ProcSound, Owning, Grows, Active
<1> QED
  BY <1>2, <1>3, <1>4 DEF ProcSound

(* A process that ends forgets what it knew.                               *)
LEMMA ProcsExit ==
    ASSUME Typing, Owning, Soundness, Grows, NEW p \in Procs, Exit(p)
    PROVE  \A q \in Procs : ProcSound(q)'
<1> TAKE q \in Procs
<1>1. CASE q = p
  <2>1. NoInstance \notin Foreign
    BY ReconcileAssumption, CloudAssumption
  <2>2. pc'[p] = "idle" /\ instance'[p] = NoInstance /\ seen'[p] = {}
    BY DEF Exit, Goto, Typing, TypeOK
  <2> QED
    BY <1>1, <2>1, <2>2 DEF ProcSound
<1>2. CASE q # p
  BY <1>2, ProcKept DEF Exit, Goto, Typing, TypeOK
<1> QED
  BY <1>1, <1>2

(* A process that goes on: what it knows then must be sound.               *)
LEMMA ProcsGo ==
    ASSUME Typing, Owning, Soundness, Grows, NEW p \in Procs, ProcSound(p)',
           \A q \in Procs \ {p} : /\ pc'[q] = pc[q]
                                  /\ instance'[q] = instance[q] /\ seen'[q] = seen[q]
    PROVE  \A q \in Procs : ProcSound(q)'
<1> TAKE q \in Procs
<1>1. CASE q = p
  BY <1>1
<1>2. CASE q # p
  BY <1>2, ProcKept
<1> QED
  BY <1>1, <1>2

LEMMA RecordProcStep ==
    ASSUME Typing, Owning, Soundness, NEW p \in Procs, ProcStep(p)
    PROVE  Soundness'
<1> USE DEF Typing, TypeOK
<1>1. ASSUME UNCHANGED cloudVars PROVE CloudSound' /\ Grows
  BY <1>1, UnchangedSound DEF Soundness
<1>2. Calls(p) => attempt[p].token \in Tokens
  BY LaunchToken DEF Calls, Launching
<1>3. ASSUME NEW l \in {"waiting", "failed"}, ExitWith(p, l), CloudSound', Grows
      PROVE  Soundness'
  <2>1. DiskSound'
    BY <1>3, DiskKept DEF ExitWith, Soundness, States
  <2> QED
    BY <1>3, <2>1, ProcsExit DEF ExitWith, Soundness
<1>4. ASSUME Exit(p), UNCHANGED <<disk, cloudVars>> PROVE Soundness'
  <2>1. DiskSound'
    BY <1>1, <1>4, DiskKept DEF Soundness
  <2> QED
    BY <1>1, <1>4, <2>1, ProcsExit DEF Soundness
<1>5. ASSUME NEW label \in PCs \ {"finish"}, Goto(p, label), seen'[p] \subseteq seen[p],
             UNCHANGED <<instance, cloudVars>>,
             \A q \in Procs \ {p} : seen'[q] = seen[q],
             DiskSound'
      PROVE  Soundness'
  <2>1. pc'[p] = label /\ \A q \in Procs \ {p} : pc'[q] = pc[q]
    BY <1>5 DEF Goto
  <2>2. \A o \in Observations : Sound(o) => Sound(o)'
    BY <1>1, <1>5, GrowsSound
  <2>3. ProcSound(p)'
    BY <1>5, <2>1, <2>2 DEF Soundness, ProcSound
  <2> QED
    BY <1>1, <1>5, <2>1, <2>3, ProcsGo DEF Soundness
<1>6. CASE Discover(p)
  <2>1. PICK s \in Listings : seen' = [seen EXCEPT ![p] = s]
    BY <1>6 DEF Discover
  <2>2. \A o \in s : o \in Observations /\ Sound(o)
    BY ListingsSound, ListingsTyped DEF Soundness
  <2>3. \A o \in Observations : Sound(o) => Sound(o)'
    BY <1>1, <1>6, GrowsSound DEF Discover
  <2>4. ProcSound(p)'
    BY <1>6, <2>1, <2>2, <2>3 DEF Discover, Goto, Soundness, ProcSound
  <2>5. DiskSound'
    BY <1>1, <1>6, DiskKept DEF Discover, Soundness
  <2> QED
    BY <1>1, <1>6, <2>1, <2>4, <2>5, ProcsGo DEF Discover, Goto, Soundness
<1>7. CASE LockBusy(p)
  BY <1>4, <1>7 DEF LockBusy
<1>8. CASE MintAttempt(p)
  <2>1. PICK t \in Tokens :
          disk' = Persisted(disk, Decide(disk, seen[p], now), NewAttempt(t, now))
    BY <1>8 DEF MintAttempt
  <2>2. NewAttempt(t, now) \in Attempts
    BY NewAttemptFacts
  <2>3. disk'.instance = disk.instance /\ disk'.lifecycle = "provisioning"
    BY <1>8, <2>1, <2>2, DecisionSaved, DecisionLifecycle DEF MintAttempt, CreateKinds
  <2>4. DiskSound'
    BY <1>1, <1>8, <2>3, DiskKept DEF MintAttempt, Soundness
  <2> QED
    BY <1>5, <1>8, <2>4 DEF MintAttempt, PCs
<1>9. CASE RetrySameAttempt(p)
  <2>1. NoAttempt \in Attempts
    BY DEF NoAttempt, Attempts
  <2>2. disk'.instance = disk.instance /\ disk'.lifecycle = "provisioning"
    BY <1>9, <2>1, DecisionSaved, DecisionLifecycle DEF RetrySameAttempt
  <2>3. DiskSound'
    BY <1>1, <1>9, <2>2, DiskKept DEF RetrySameAttempt, Soundness
  <2> QED
    BY <1>5, <1>9, <2>3 DEF RetrySameAttempt, PCs
<1>10. CASE FollowInstance(p)
  <2> DEFINE decision == Decide(disk, seen[p], now)
  <2>1. NoAttempt \in Attempts
    BY DEF NoAttempt, Attempts
  <2>2. \E o \in seen[p] : IsOwned(o) /\ decision.instance = o.id
    BY <1>10, <2>1, DecisionSaved DEF FollowInstance
  <2>3. decision.instance \notin Foreign
    BY <2>2 DEF Soundness, ProcSound, Sound
  <2>4. Grows /\ CloudSound'
    BY <1>1, <1>10 DEF FollowInstance
  <2>5. DiskSound'
    <3>1. CASE decision.kind = "AlreadySatisfied"
      <4>1. disk'.instance = decision.instance /\ decision.instance \in Managed
        BY <1>10, <2>1, <2>3, <3>1, DecisionSaved DEF FollowInstance, Managed
      <4>2. Active(decision.instance)
        BY <3>1, SatisfiedFacts DEF Soundness, ProcSound, Sound
      <4>3. vm' = vm
        BY <1>10 DEF FollowInstance, cloudVars
      <4> QED
        BY <2>3, <4>1, <4>2, <4>3 DEF DiskSound, RunningWasActive, Active
    <3>2. CASE decision.kind # "AlreadySatisfied"
      <4>1. disk'.instance = disk.instance /\ disk'.lifecycle # "running"
        BY <1>10, <2>1, <3>2, DecisionSaved, DecisionLifecycle DEF FollowInstance
      <4> QED
        BY <2>4, <4>1, DiskKept DEF Soundness
    <3> QED
      BY <3>1, <3>2
  <2>6. instance'[p] = decision.instance /\ seen'[p] = {} /\ pc'[p] = "poll"
    BY <1>10 DEF FollowInstance, Goto
  <2>7. ProcSound(p)'
    BY <2>3, <2>6 DEF ProcSound
  <2> QED
    BY <1>10, <2>4, <2>5, <2>7, ProcsGo DEF FollowInstance, Goto, Soundness
<1>11. CASE ReportConflict(p)
  <2>1. NoAttempt \in Attempts
    BY DEF NoAttempt, Attempts
  <2>2. disk'.instance = disk.instance /\ disk'.lifecycle = "failed"
    BY <1>11, <2>1, DecisionSaved, DecisionLifecycle DEF ReportConflict
  <2>3. DiskSound'
    BY <1>1, <1>11, <2>2, DiskKept DEF ReportConflict, Soundness
  <2> QED
    BY <1>1, <1>11, <2>3, ProcsExit DEF ReportConflict, Soundness
<1>12. CASE WatchStep(p)
  <2>1. CASE CapacityFound(p)
    <3>1. DiskSound'
      BY <1>1, <2>1, DiskKept DEF CapacityFound, States, Soundness
    <3> QED
      BY <1>5, <2>1, <3>1 DEF CapacityFound, PCs
  <2>2. CASE CapacityWait(p)
    <3>1. DiskSound'
      BY <1>1, <2>2, DiskKept DEF CapacityWait, States, Soundness
    <3>2. \A q \in Procs : ProcSound(q)'
      BY <1>1, <2>2, ProcKept DEF CapacityWait, procVars
    <3> QED
      BY <1>1, <2>2, <3>1, <3>2 DEF CapacityWait, Soundness
  <2>3. CASE CapacityNoneOnce(p) \/ CapacityFatal(p)
    BY <1>1, <1>3, <2>3 DEF CapacityNoneOnce, CapacityFatal
  <2> QED
    BY <1>12, <2>1, <2>2, <2>3 DEF WatchStep
<1>13. CASE LaunchStep(p)
  <2>1. CASE LaunchAccepted(p)
    <3>1. PICK i \in Instances : /\ Executes(attempt[p].token, i, now)
                                 /\ instance' = [instance EXCEPT ![p] = i]
      BY <2>1 DEF LaunchAccepted
    <3>2. CloudSound' /\ Grows /\ i \notin Foreign
      BY <1>2, <2>1, <3>1, ExecutesSound DEF LaunchAccepted, Soundness
    <3>3. DiskSound'
      BY <2>1, <3>2, DiskKept DEF LaunchAccepted, Soundness
    <3>4. \A o \in Observations : Sound(o) => Sound(o)'
      BY <3>2, GrowsSound
    <3>5. ProcSound(p)'
      BY <2>1, <3>1, <3>2, <3>4 DEF LaunchAccepted, Goto, Soundness, ProcSound
    <3> QED
      BY <2>1, <3>1, <3>2, <3>3, <3>5, ProcsGo DEF LaunchAccepted, Goto, Soundness
  <2>2. CASE LaunchAmbiguous(p)
    <3>1. CloudSound' /\ Grows
      BY <1>1, <1>2, <2>2, MayExecuteSound DEF LaunchAmbiguous, Soundness
    <3>2. DiskSound'
      BY <2>2, <3>1, DiskKept DEF LaunchAmbiguous, Soundness
    <3>3. \A o \in Observations : Sound(o) => Sound(o)'
      BY <3>1, GrowsSound
    <3>4. ProcSound(p)'
      BY <2>2, <3>3 DEF LaunchAmbiguous, Goto, Soundness, ProcSound
    <3> QED
      BY <2>2, <3>1, <3>2, <3>4, ProcsGo DEF LaunchAmbiguous, Goto, Soundness
  <2>3. CASE LaunchFails(p)
    <3>1. CloudSound' /\ Grows
      BY <1>2, <2>3, MayExecuteSound DEF LaunchFails, Soundness
    <3> QED
      BY <1>3, <2>3, <3>1 DEF LaunchFails
  <2>4. CASE LaunchOutOfCapacity(p)
    <3>1. CASE Exit(p)
      BY <1>4, <2>4, <3>1 DEF LaunchOutOfCapacity
    <3>2. CASE Goto(p, "rotate") /\ UNCHANGED <<runLock, once, seen, attempt, instance>>
      <4>1. DiskSound'
        BY <1>1, <2>4, DiskKept DEF LaunchOutOfCapacity, Soundness
      <4> QED
        BY <1>5, <2>4, <3>2, <4>1 DEF LaunchOutOfCapacity, PCs
    <3> QED
      BY <2>4, <3>1, <3>2 DEF LaunchOutOfCapacity
  <2>5. CASE LaunchLimitExceeded(p)
    <3>1. PICK s \in Listings : LimitReconciled(p, {o.id : o \in LiveOwned(s)})
      BY <2>5 DEF LaunchLimitExceeded
    <3> DEFINE found == {o.id : o \in LiveOwned(s)}
    <3>2. found \subseteq Instances \ Foreign /\ LimitReconciled(p, found)
      BY <3>1, ListingsTyped, ListingsSound DEF LiveOwned, Observations, Sound, Soundness
    <3> HIDE DEF found
    <3>3. CASE /\ \E i \in Instances : found = {i} /\ instance' = [instance EXCEPT ![p] = i]
               /\ Goto(p, "accepted")
               /\ UNCHANGED <<disk, runLock, once, seen, attempt>>
      <4>1. PICK i \in Instances \ Foreign : instance' = [instance EXCEPT ![p] = i]
        BY <3>2, <3>3
      <4>2. CloudSound' /\ Grows
        BY <1>1, <2>5 DEF LaunchLimitExceeded
      <4>3. DiskSound'
        BY <3>3, <4>2, DiskKept DEF Soundness
      <4>4. \A o \in Observations : Sound(o) => Sound(o)'
        BY <4>2, GrowsSound
      <4>5. ProcSound(p)'
        BY <3>3, <4>1, <4>4 DEF Goto, Soundness, ProcSound
      <4> QED
        BY <3>3, <4>1, <4>2, <4>3, <4>5, ProcsGo DEF Goto, Soundness
    <3>4. CASE ExitWith(p, "failed")
      BY <1>1, <1>3, <2>5, <3>4 DEF LaunchLimitExceeded
    <3>5. CASE Exit(p) /\ UNCHANGED disk
      BY <1>4, <2>5, <3>5 DEF LaunchLimitExceeded
    <3> QED
      BY <3>2, <3>3, <3>4, <3>5, LimitCases
  <2>6. CASE PersistAccepted(p)
    <3>1. disk'.instance = instance[p] /\ disk'.lifecycle = "provisioning"
      BY <2>6 DEF PersistAccepted, States
    <3>2. DiskSound'
      BY <3>1 DEF Soundness, ProcSound, DiskSound, RunningWasActive
    <3> QED
      BY <1>5, <2>6, <3>2 DEF PersistAccepted, PCs
  <2>7. CASE Rotate(p)
    <3>1. disk'.instance = NoInstance /\ disk'.lifecycle = "provisioning"
      BY <2>7 DEF Rotate, Rotated, States
    <3>2. DiskSound'
      BY <3>1, ReconcileAssumption, CloudAssumption DEF DiskSound, RunningWasActive
    <3> QED
      BY <1>5, <2>7, <3>2 DEF Rotate, PCs
  <2> QED
    BY <1>13, <2>1, <2>2, <2>3, <2>4, <2>5, <2>6, <2>7 DEF LaunchStep
<1>14. CASE PollStep(p)
  <2>1. CASE PollRunning(p)
    <3>1. DiskSound'
      BY <1>1, <2>1, DiskKept DEF PollRunning, Soundness
    <3>2. CloudSound' /\ Grows /\ vm' = vm
      BY <1>1, <2>1 DEF PollRunning, cloudVars
    <3>3. \A o \in Observations : Sound(o) => Sound(o)'
      BY <3>2, GrowsSound
    <3>4. Active(instance[p])'
      BY <2>1, <3>2 DEF PollRunning, Active
    <3>5. ProcSound(p)'
      BY <2>1, <3>3, <3>4 DEF PollRunning, Soundness, ProcSound
    <3> QED
      BY <2>1, <3>1, <3>2, <3>5, ProcsGo DEF PollRunning, Goto, Soundness
  <2>2. CASE PollTerminal(p) \/ PollRejected(p)
    BY <1>1, <1>3, <2>2 DEF PollTerminal, PollRejected
  <2>3. CASE PersistFinished(p)
    <3>1. disk'.instance = instance[p] /\ vm' = vm
      BY <2>3 DEF PersistFinished, States, cloudVars
    <3>2. /\ instance[p] \in Instances \ Foreign
          /\ Active(instance[p])
      BY <2>3 DEF PersistFinished, Owning, Soundness, ProcSound
    <3>3. DiskSound'
      BY <3>1, <3>2 DEF DiskSound, RunningWasActive, Active, Managed
    <3> QED
      BY <1>1, <2>3, <3>3, ProcsExit DEF PersistFinished, Soundness
  <2> QED
    BY <1>14, <2>1, <2>2, <2>3 DEF PollStep
<1> QED
  BY <1>6, <1>7, <1>8, <1>9, <1>10, <1>11, <1>12, <1>13, <1>14
     DEF ProcStep, ReconcileAndPersist

LEMMA SoundnessStep == Typing /\ Owning /\ Soundness /\ [Next]_vars => Soundness'
<1> SUFFICES ASSUME Typing, Owning, Soundness, [Next]_vars PROVE Soundness'
  OBVIOUS
<1>1. ASSUME UNCHANGED <<disk, procVars>>, CloudSound', Grows PROVE Soundness'
  <2>1. DiskSound'
    BY <1>1, DiskKept DEF Soundness
  <2>2. \A q \in Procs : ProcSound(q)'
    BY <1>1, ProcKept DEF procVars
  <2> QED
    BY <1>1, <2>1, <2>2 DEF Soundness
<1>2. ASSUME NEW p \in Procs, ProcStep(p) PROVE Soundness'
  BY <1>2, RecordProcStep
<1>3. ASSUME NEW p \in Procs, Stop(p) PROVE Soundness'
  <2>1. CloudSound' /\ Grows
    BY <1>3, UnchangedSound DEF Stop, Soundness
  <2>2. DiskSound'
    BY <1>3, <2>1, DiskKept DEF Stop, Soundness
  <2> QED
    BY <1>3, <2>1, <2>2, ProcsExit DEF Stop, Soundness
<1>4. ASSUME NEW t \in Tokens, LateExecute(t) PROVE Soundness'
  <2>1. CloudSound' /\ Grows
    BY <1>4, ExecutesSound DEF LateExecute, Soundness
  <2> QED
    BY <1>1, <1>4, <2>1 DEF LateExecute
<1>5. CASE CloudStep
  <2>1. CloudSound' /\ Grows
    BY <1>5, CloudAssumption
       DEF CloudStep, ProviderStep, UserStep, Move, ProviderMoves, UserMoves,
           Soundness, CloudSound, Grows, Active, Typing, TypeOK
  <2> QED
    BY <1>1, <1>5, <2>1 DEF CloudStep
<1>6. CASE Tick \/ UNCHANGED vars
  <2>1. CloudSound' /\ Grows
    BY <1>6, UnchangedSound DEF Tick, vars, Soundness
  <2> QED
    BY <1>1, <1>6, <2>1 DEF Tick, vars
<1> QED
  BY <1>2, <1>3, <1>4, <1>5, <1>6 DEF Next

(* Whatever a run decides on, however stale, neither the record nor a run  *)
(* ever names an instance of another target.                               *)
THEOREM UnrelatedUntouched == Spec => []ForeignUntouched
<1>1. Soundness => ForeignUntouched
  BY DEF Soundness, DiskSound, ProcSound, ForeignUntouched
<1> QED
  BY TypingInit, OwningInit, SoundnessInit, TypingStep, OwningStep, SoundnessStep,
     <1>1, PTL DEF Spec

(* The record never calls an instance running that has not been active,    *)
(* whichever of two runs wrote it and on however old a listing.            *)
THEOREM RunningIsTrue == Spec => []RunningWasActive
<1>1. Soundness => RunningWasActive
  BY DEF Soundness, DiskSound
<1> QED
  BY TypingInit, OwningInit, SoundnessInit, TypingStep, OwningStep, SoundnessStep,
     <1>1, PTL DEF Spec

-----------------------------------------------------------------------------
(***************************************************************************)
(* The main result: as long as the persisted attempt does not expire and   *)
(* no timed-out request is executed behind a later answer to its token, at *)
(* most one live instance of the target exists, whatever is interrupted,   *)
(* however many processes run, and however much the listings lag behind.   *)
(*                                                                         *)
(* AtMostOneLive is not inductive.  The argument is that every launched    *)
(* instance is bound to the one token on disk (Binding), that this token   *)
(* is retryable (Fresh), so that the provider still remembers it, that it  *)
(* is rotated only while nothing is bound to it (Unbound) and none of its  *)
(* requests is on its way (Underway), and that it was minted only once the *)
(* instance that predates the state file, which no listing misses, was     *)
(* seen to be gone (Predecessor).                                          *)
(***************************************************************************)

Binding == \A t \in Tokens : bound[t].instance # NoInstance =>
              /\ disk.attempt.token = t
              /\ disk.attempt.validTo <= bound[t].until
              /\ bound[t].instance \notin Foreign \cup Preexisting

Fresh == \/ disk.attempt = NoAttempt
         \/ /\ disk.attempt.token \in Tokens
            /\ now < disk.attempt.validTo
            /\ disk.attempt.validTo <= now + Validity

Unbound == \A p \in Procs : pc[p] = "rotate" =>
              bound[disk.attempt.token].instance = NoInstance

Accounted == /\ \A i \in Foreign \cup Preexisting : vm[i] # "absent"
             /\ \A i \in Managed \ Preexisting : vm[i] # "absent" =>
                    \E t \in Tokens : bound[t].instance = i

Gone == \A i \in Preexisting : vm[i] = "TERMINATED"

Predecessor ==
    /\ disk.attempt.token \in Tokens => Gone
    /\ \A p \in Procs : pc[p] = "discovered" /\ LiveOwned(seen[p]) = {} => Gone

Underway == /\ LateRequests = "never" => late = {}
            /\ late \subseteq {disk.attempt.token}
            /\ \A p \in Procs : pc[p] = "rotate" => late = {}

Window == /\ Underway
          /\ Binding
          /\ Fresh
          /\ Unbound
          /\ Accounted
          /\ Predecessor

LEMMA WindowInit == Init => Window
<1> SUFFICES ASSUME Init PROVE Window
  OBVIOUS
<1>1. disk.attempt = NoAttempt /\ NoAttempt.token \notin Tokens
  BY ReconcileAssumption DEF Init, NoState, NoAttempt
<1>2. \A t \in Tokens : bound[t].instance = NoInstance
  BY DEF Init, CloudInit
<1>3. Accounted
  BY CloudAssumption DEF Init, CloudInit, Accounted, Managed
<1> QED
  BY <1>1, <1>2, <1>3 DEF Init, Window, Underway, Binding, Fresh, Unbound, Predecessor

(* The instances of the target that exist are few enough. *)
LEMMA WindowSafe == Typing /\ Window => AtMostOneLive /\ NoOrphan
<1> SUFFICES ASSUME Typing, Window PROVE AtMostOneLive /\ NoOrphan
  OBVIOUS
<1>1. ASSUME NEW i \in Live \ Preexisting
      PROVE  disk.attempt.token \in Tokens /\ bound[disk.attempt.token].instance = i
  <2>1. i \in Managed \ Preexisting /\ vm[i] # "absent" /\ i \in Instances
    BY DEF Live, Managed
  <2>2. PICK t \in Tokens : bound[t].instance = i
    BY <2>1 DEF Window, Accounted
  <2> QED
    BY <2>1, <2>2, ReconcileAssumption DEF Window, Binding
<1>2. ASSUME NEW i \in Live \cap Preexisting PROVE disk.attempt.token \notin Tokens
  BY DEF Window, Predecessor, Gone, Live
<1>3. AtMostOneLive
  BY <1>1, <1>2, CloudAssumption DEF AtMostOneLive
<1>4. disk.attempt.token \in Tokens => disk.present
  BY ReconcileAssumption DEF Typing, NoState, NoAttempt
<1> QED
  BY <1>1, <1>3, <1>4 DEF NoOrphan

-----------------------------------------------------------------------------
(* Steps that touch neither the cloud nor the attempt on disk. *)
Quiet == /\ UNCHANGED <<late, now, cloudVars>>
         /\ disk'.attempt = disk.attempt
         /\ \A p \in Procs : pc'[p] = "rotate" => pc[p] = "rotate"
         /\ \A p \in Procs : pc'[p] = "discovered" =>
               pc[p] = "discovered" /\ seen'[p] = seen[p]

LEMMA WindowQuiet == Window /\ Quiet => Window'
BY DEF Window, Quiet, cloudVars, Underway, Binding, Fresh, Unbound, Accounted,
       Predecessor, Gone

LEMMA ExitSettles ==
    ASSUME Typing, NEW p \in Procs, Exit(p)
    PROVE  /\ \A q \in Procs : pc'[q] = "rotate" => pc[q] = "rotate"
           /\ \A q \in Procs : pc'[q] = "discovered" =>
                 pc[q] = "discovered" /\ seen'[q] = seen[q]
BY DEF Typing, TypeOK, Exit, Goto

LEMMA GotoSettles ==
    ASSUME Typing, NEW p \in Procs, NEW label \in PCs \ {"discovered", "rotate"},
           Goto(p, label), \A q \in Procs \ {p} : seen'[q] = seen[q]
    PROVE  /\ \A q \in Procs : pc'[q] = "rotate" => pc[q] = "rotate"
           /\ \A q \in Procs : pc'[q] = "discovered" =>
                 pc[q] = "discovered" /\ seen'[q] = seen[q]
BY DEF Typing, TypeOK, Goto

(* A request with the token on disk that is executed, at once or late:     *)
(* within the window the provider either remembers the token or has never  *)
(* executed a request under it.                                            *)
LEMMA WindowExecutes ==
    ASSUME Typing, Window, disk.attempt.token \in Tokens,
           NEW i \in Instances, Executes(disk.attempt.token, i, now),
           late' \subseteq late, UNCHANGED now, disk'.attempt = disk.attempt,
           \A q \in Procs : pc'[q] # "rotate",
           \A q \in Procs : pc'[q] = "discovered" =>
               pc[q] = "discovered" /\ seen'[q] = seen[q]
    PROVE  Window'
<1> DEFINE t == disk.attempt.token
<1>1. t \in Tokens
  OBVIOUS
<1>0. Executes(t, i, now)
  OBVIOUS
<1> HIDE DEF t
<1>2. now < disk.attempt.validTo /\ disk.attempt.validTo <= now + Validity
  BY <1>1, ReconcileAssumption DEF Window, Fresh, NoAttempt, t
<1>3. CASE Remembers(t, now)
  <2>1. UNCHANGED cloudVars
    BY <1>0, <1>3 DEF Executes
  <2> QED
    BY <2>1 DEF Window, cloudVars, Underway, Binding, Fresh, Unbound, Accounted,
                Predecessor, Gone
<1>4. CASE ~Remembers(t, now)
  <2>1. /\ vm[i] = "absent"
        /\ vm' = [vm EXCEPT ![i] = "PROVISIONING"]
        /\ bound' = [bound EXCEPT ![t] = [instance |-> i, until |-> now + Retention]]
    BY <1>0, <1>4 DEF Executes
  <2>2. bound[t].until \in Nat /\ disk.attempt.validTo \in Nat /\ now \in Nat
    BY <1>1 DEF Typing, TypeOK, Bindings, States, Attempts
  <2>3. \A u \in Tokens : bound[u].instance = NoInstance
    BY <1>1, <1>2, <1>4, <2>2 DEF Window, Binding, Remembers, t
  <2>4. i \notin Foreign \cup Preexisting
    BY <2>1 DEF Window, Accounted
  <2>5. \A j \in Preexisting : vm'[j] = vm[j]
    BY <2>1, <2>4
  <2>6. /\ bound'[t] = [instance |-> i, until |-> now + Retention]
        /\ \A u \in Tokens \ {t} : bound'[u] = bound[u]
    BY <1>1, <2>1 DEF Typing, TypeOK
  <2>7. disk.attempt.validTo <= now + Retention
    BY <1>2, <2>2, ReconcileAssumption, CloudAssumption
  <2>8. Binding'
    BY <2>3, <2>4, <2>6, <2>7 DEF Binding, t
  <2>9. Unbound' /\ Underway'
    BY DEF Window, Unbound, Underway
  <2>10. Accounted'
    <3>1. \A j \in Instances \ {i} : vm'[j] = vm[j]
      BY <2>1 DEF Typing, TypeOK
    <3>2. bound'[t].instance = i
      BY <2>6
    <3>3. \A j \in Managed \ Preexisting : j # i => vm[j] = "absent"
      BY <2>3, ReconcileAssumption DEF Window, Accounted, Managed
    <3>4. \A j \in Foreign \cup Preexisting : vm'[j] # "absent"
      BY <2>4, <3>1, CloudAssumption DEF Window, Accounted
    <3> QED
      BY <1>1, <3>1, <3>2, <3>3, <3>4 DEF Accounted, Managed
  <2>11. Predecessor'
    BY <2>5 DEF Window, Predecessor, Gone
  <2>12. Fresh'
    BY DEF Window, Fresh
  <2> QED
    BY <2>8, <2>9, <2>10, <2>11, <2>12 DEF Window
<1> QED
  BY <1>3, <1>4

(* No other process rotates while one launches.                            *)
LEMMA NobodyRotates ==
    ASSUME Typing, Owning, NEW p \in Procs, pc[p] \in Holding, pc'[p] # "rotate",
           \A q \in Procs : pc'[q] = "rotate" => pc[q] = "rotate"
    PROVE  \A q \in Procs : pc'[q] # "rotate"
<1>1. "rotate" \in Holding
  BY DEF Holding, PCs
<1> QED
  BY <1>1, Alone

(* A launch call that is answered.                                         *)
LEMMA WindowCall ==
    ASSUME Typing, Owning, Window, NEW p \in Procs, Calls(p),
           NEW i \in Instances, Executes(attempt[p].token, i, now),
           UNCHANGED <<late, now>>, disk'.attempt = disk.attempt,
           pc'[p] # "rotate",
           \A q \in Procs : pc'[q] = "rotate" => pc[q] = "rotate",
           \A q \in Procs : pc'[q] = "discovered" =>
               pc[q] = "discovered" /\ seen'[q] = seen[q]
    PROVE  Window'
<1>1. disk.attempt.token \in Tokens /\ attempt[p].token = disk.attempt.token
  BY LaunchToken DEF Calls, Launching, Owning
<1>2. pc[p] \in Holding
  BY DEF Calls, Holding, PCs
<1> QED
  BY <1>1, <1>2, WindowExecutes, NobodyRotates

(* A launch call that may or may not reach the provider. *)
LEMMA WindowMayExecute ==
    ASSUME Typing, Owning, Window, NEW p \in Procs, Calls(p),
           MayExecute(attempt[p].token, now),
           UNCHANGED <<late, now>>, disk'.attempt = disk.attempt,
           pc'[p] # "rotate",
           \A q \in Procs : pc'[q] = "rotate" => pc[q] = "rotate",
           \A q \in Procs : pc'[q] = "discovered" =>
               pc[q] = "discovered" /\ seen'[q] = seen[q]
    PROVE  Window'
<1>1. CASE \E i \in Instances : Executes(attempt[p].token, i, now)
  BY <1>1, WindowCall
<1>2. CASE UNCHANGED cloudVars
  BY <1>2, WindowQuiet DEF Quiet
<1> QED
  BY <1>1, <1>2 DEF MayExecute

(* A listing misses neither the instance that predates the state file nor  *)
(* its tags: if it shows no live instance of the target, that one is gone. *)
LEMMA ListingGone ==
    ASSUME Typing, Window, NEW s \in Listings, LiveOwned(s) = {}
    PROVE  Gone
<1> SUFFICES ASSUME NEW i \in Preexisting PROVE vm[i] = "TERMINATED"
  BY DEF Gone
<1>1. i \in Existing
  BY CloudAssumption DEF Window, Accounted, Existing
<1>2. i \notin Hideable
  <2>1. i \in Instances /\ i # NoInstance
    BY CloudAssumption, ReconcileAssumption
  <2> QED
    BY <2>1 DEF Window, Binding, Hideable
<1>3. PICK hidden \in SUBSET Hideable : s = {Observation(j) : j \in Existing \ hidden}
  BY DEF Listings
<1>4. Observation(i) \in s
  BY <1>1, <1>2, <1>3
<1>5. IsOwned(Observation(i))
  BY CloudAssumption DEF Observation, IsOwned, TagsOf
<1>6. Observation(i).lifecycle \notin {"active", "unknown"}
  BY <1>4, <1>5 DEF LiveOwned
<1>7. Observation(i).lifecycle = Lifecycle(vm[i])
  BY DEF Observation
<1> QED
  BY <1>6, <1>7 DEF Lifecycle

(* Reconciliation mints a token only when nothing is bound to any token.   *)
LEMMA WindowMint ==
    ASSUME Typing, Owning, Window, NEW p \in Procs, MintAttempt(p)
    PROVE  Window'
<1>1. PICK t \in Tokens :
        /\ Mints(t)
        /\ disk' = Persisted(disk, Decide(disk, seen[p], now), NewAttempt(t, now))
  BY DEF MintAttempt
<1>2. /\ NewAttempt(t, now) \in Attempts
      /\ NewAttempt(t, now).token = t
      /\ NewAttempt(t, now).validTo = now + Validity
  BY NewAttemptFacts DEF Typing, TypeOK
<1>3. disk'.attempt = NewAttempt(t, now)
  BY <1>1, <1>2, DecisionSaved DEF MintAttempt
<1>4. /\ LiveOwned(seen[p]) = {}
      /\ ~disk.present \/ ~HasAttempt(disk.attempt) \/ ~(now < disk.attempt.validTo)
  BY DecideFacts, DecideAbsentFacts DEF MintAttempt, CreateSafe, Typing, TypeOK
<1>5. disk.attempt = NoAttempt
  BY <1>4 DEF Typing, NoState, HasAttempt, Window, Fresh
<1>6. \A u \in Tokens : bound[u].instance = NoInstance
  BY <1>5, ReconcileAssumption DEF Window, Binding, NoAttempt
<1>7. Gone
  BY <1>4 DEF MintAttempt, TakesLock, Window, Predecessor
<1>8. UNCHANGED <<late, now, vm, bound>>
  BY DEF MintAttempt, cloudVars
<1>9. \A q \in Procs : pc'[q] = IF q = p THEN "watch" ELSE pc[q]
  BY DEF MintAttempt, Goto, Typing, TypeOK
<1>10. \A q \in Procs : pc'[q] # "rotate"
  <2>1. "rotate" \in Holding /\ \A q \in Procs : pc[q] \notin Holding
    BY ProvisioningAssumption DEF MintAttempt, TakesLock, Owning, Holding, PCs
  <2> QED
    BY <1>9, <2>1
<1>11. Fresh'
  BY <1>2, <1>3, <1>8, ReconcileAssumption DEF Fresh, Typing, TypeOK
<1>12. Underway'
  BY <1>5, <1>8, <1>10, ReconcileAssumption
     DEF Window, Underway, Typing, TypeOK, NoAttempt
<1> QED
  BY <1>6, <1>7, <1>8, <1>10, <1>11, <1>12
     DEF Window, Binding, Unbound, Accounted, Predecessor, Gone

(* A run rotates its token only while nothing is bound to it. *)
LEMMA WindowRotate ==
    ASSUME Typing, Owning, Window, NEW p \in Procs, Rotate(p)
    PROVE  Window'
<1>1. PICK t \in Tokens : Mints(t) /\ disk' = Rotated(disk, NewAttempt(t, now))
  BY DEF Rotate
<1>2. /\ NewAttempt(t, now).token = t
      /\ NewAttempt(t, now).validTo = now + Validity
  BY NewAttemptFacts DEF Typing, TypeOK
<1>3. disk'.attempt = NewAttempt(t, now)
  BY <1>1 DEF Rotated, Typing, TypeOK, States
<1>4. pc[p] = "rotate" /\ disk.attempt.token \in Tokens
  BY LaunchToken DEF Rotate, Launching, Owning
<1>5. \A u \in Tokens : bound[u].instance = NoInstance
  BY <1>4 DEF Window, Binding, Unbound
<1>6. Gone
  BY <1>4 DEF Window, Predecessor
<1>7. UNCHANGED <<late, now, vm, bound>>
  BY DEF Rotate, cloudVars
<1>8. Fresh'
  BY <1>2, <1>3, <1>7, ReconcileAssumption DEF Fresh, Typing, TypeOK
<1>9. \A q \in Procs : pc'[q] = IF q = p THEN "watch" ELSE pc[q]
  BY DEF Rotate, Goto, Typing, TypeOK
<1>10. Unbound'
  <2>1. pc[p] \in Holding /\ "rotate" \in Holding
    BY <1>4 DEF Holding, PCs
  <2>2. \A q \in Procs : pc'[q] # "rotate"
    BY <1>9, <2>1, Alone
  <2> QED
    BY <2>2 DEF Unbound
<1>11. Predecessor'
  BY <1>6, <1>7 DEF Predecessor, Gone
<1>12. Underway'
  BY <1>4, <1>7 DEF Window, Underway
<1> QED
  BY <1>5, <1>7, <1>8, <1>10, <1>11, <1>12 DEF Window, Binding, Accounted

(* The provider reports that it has no capacity for the request.           *)
LEMMA WindowOutOfCapacity ==
    ASSUME LateRequests # "anyOrder",
           Typing, Owning, Window, NEW p \in Procs, LaunchOutOfCapacity(p)
    PROVE  Window'
<1> DEFINE t == disk.attempt.token
<1>1. t \in Tokens /\ attempt[p].token = t
  BY LaunchToken DEF LaunchOutOfCapacity, Calls, Launching, Owning
<1>2. late' \subseteq late
  BY DEF LaunchOutOfCapacity
<1>3. CASE Exit(p)
  BY <1>2, <1>3, ExitSettles
     DEF LaunchOutOfCapacity, cloudVars, Window, Underway, Binding, Fresh, Unbound,
         Accounted, Predecessor, Gone
<1>4. CASE Goto(p, "rotate") /\ seen' = seen
  <2>1. bound[t].until \in Nat /\ disk.attempt.validTo \in Nat /\ now \in Nat
    BY <1>1 DEF Typing, TypeOK, Bindings, States, Attempts
  <2>2. now < disk.attempt.validTo
    BY <1>1, ReconcileAssumption DEF Window, Fresh, NoAttempt
  <2>3. bound[t].instance = NoInstance
    BY <1>1, <2>1, <2>2 DEF LaunchOutOfCapacity, Remembers, Window, Binding
  <2>4. UNCHANGED <<now, disk, vm, bound>>
    BY DEF LaunchOutOfCapacity, cloudVars
  <2>5. \A q \in Procs : pc'[q] = IF q = p THEN "rotate" ELSE pc[q]
    BY <1>4 DEF Goto, Typing, TypeOK
  <2>6. Unbound'
    BY <2>3, <2>4 DEF Unbound
  <2>7. Predecessor'
    BY <1>4, <2>4, <2>5 DEF Window, Predecessor, Gone
  <2>8. late' = {}
    BY <1>1, ProvisioningAssumption DEF LaunchOutOfCapacity, Window, Underway
  <2> QED
    BY <2>4, <2>6, <2>7, <2>8 DEF Underway, Window, Binding, Fresh, Accounted
<1> QED
  BY <1>3, <1>4 DEF LaunchOutOfCapacity

LEMMA WindowLaunchStep ==
    ASSUME LateRequests # "anyOrder", Typing, Owning, Window, NEW p \in Procs, LaunchStep(p)
    PROVE  Window'
<1>1. CASE LaunchAccepted(p)
  <2>1. pc'[p] = "accepted"
    BY <1>1 DEF LaunchAccepted, Goto, Typing, TypeOK
  <2> QED
    BY <1>1, <2>1, WindowCall, GotoSettles DEF LaunchAccepted, PCs
<1>2. CASE LaunchAmbiguous(p)
  <2>1. pc'[p] = "retry" /\ pc[p] \in Holding
    BY <1>2 DEF LaunchAmbiguous, Goto, Typing, TypeOK, Calls, Holding, PCs
  <2>2. CASE MayExecute(attempt[p].token, now) /\ UNCHANGED late
    BY <1>2, <2>1, <2>2, WindowMayExecute, GotoSettles DEF LaunchAmbiguous, PCs
  <2>3. CASE /\ LateRequests # "never"
             /\ late' = late \cup {attempt[p].token}
             /\ UNCHANGED cloudVars
    <3>1. attempt[p] = disk.attempt
      BY <1>2 DEF LaunchAmbiguous, Calls, Launching, Owning
    <3>2. /\ \A q \in Procs : pc'[q] = "rotate" => pc[q] = "rotate"
          /\ \A q \in Procs : pc'[q] = "discovered" =>
                pc[q] = "discovered" /\ seen'[q] = seen[q]
      BY <1>2, GotoSettles DEF LaunchAmbiguous, PCs
    <3>3. \A q \in Procs : pc'[q] # "rotate"
      BY <2>1, <3>2, NobodyRotates
    <3>4. Underway'
      BY <1>2, <2>3, <3>1, <3>3 DEF LaunchAmbiguous, Window, Underway
    <3> QED
      BY <1>2, <2>3, <3>2, <3>4
         DEF LaunchAmbiguous, cloudVars, Window, Binding, Fresh, Unbound, Accounted,
             Predecessor, Gone
  <2> QED
    BY <1>2, <2>2, <2>3 DEF LaunchAmbiguous
<1>3. CASE LaunchFails(p)
  <2>1. pc'[p] = "idle"
    BY <1>3 DEF LaunchFails, ExitWith, Exit, Goto, Typing, TypeOK
  <2> QED
    BY <1>3, <2>1, WindowMayExecute, ExitSettles, ExitWithTyped
       DEF LaunchFails, StateLifecycles
<1>4. CASE LaunchLimitExceeded(p)
  <2>1. PICK s \in Listings : LimitReconciled(p, {o.id : o \in LiveOwned(s)})
    BY <1>4 DEF LaunchLimitExceeded
  <2> DEFINE found == {o.id : o \in LiveOwned(s)}
  <2>2. found \subseteq Instances /\ LimitReconciled(p, found)
    BY <2>1, ListingsTyped DEF LiveOwned, Observations, Typing, TypeOK
  <2> HIDE DEF found
  <2>3. CASE Goto(p, "accepted") /\ UNCHANGED <<disk, seen>>
    BY <1>4, <2>3, GotoSettles, WindowQuiet DEF LaunchLimitExceeded, Quiet, PCs
  <2>4. CASE ExitWith(p, "failed") \/ (Exit(p) /\ UNCHANGED disk)
    BY <1>4, <2>4, ExitSettles, ExitWithTyped, WindowQuiet
       DEF LaunchLimitExceeded, Quiet, StateLifecycles
  <2> QED
    BY <2>2, <2>3, <2>4, LimitCases
<1>5. CASE PersistAccepted(p)
  BY <1>5, GotoSettles, WindowQuiet DEF PersistAccepted, Quiet, PCs, Typing, TypeOK, States
<1> QED
  BY <1>1, <1>2, <1>3, <1>4, <1>5, WindowOutOfCapacity, WindowRotate DEF LaunchStep

LEMMA WindowProcStep ==
    ASSUME LateRequests # "anyOrder", Typing, Owning, Window, NEW p \in Procs, ProcStep(p)
    PROVE  Window'
<1>1. CASE Discover(p)
  <2>1. \A q \in Procs : pc'[q] = IF q = p THEN "discovered" ELSE pc[q]
    BY <1>1 DEF Discover, Goto, Typing, TypeOK
  <2>2. seen'[p] \in Listings /\ \A q \in Procs \ {p} : seen'[q] = seen[q]
    BY <1>1 DEF Discover, Typing, TypeOK
  <2>3. UNCHANGED <<late, now, disk, vm, bound>>
    BY <1>1 DEF Discover, cloudVars
  <2>4. LiveOwned(seen'[p]) = {} => Gone
    BY <2>2, ListingGone
  <2>5. Predecessor'
    BY <2>1, <2>2, <2>3, <2>4 DEF Window, Predecessor, Gone
  <2> QED
    BY <2>1, <2>3, <2>5 DEF Window, Underway, Binding, Fresh, Unbound, Accounted
<1>2. CASE LockBusy(p)
  BY <1>2, ExitSettles, WindowQuiet DEF LockBusy, Quiet
<1>3. CASE MintAttempt(p)
  BY <1>3, WindowMint
<1>4. CASE RetrySameAttempt(p) \/ FollowInstance(p) \/ ReportConflict(p)
  <2>1. NoAttempt \in Attempts
    BY DEF NoAttempt, Attempts
  <2>2. disk'.attempt = disk.attempt
    BY <1>4, <2>1, DecisionSaved
       DEF RetrySameAttempt, FollowInstance, ReportConflict, CreateKinds
  <2>3. UNCHANGED <<late, now, cloudVars>>
    BY <1>4 DEF RetrySameAttempt, FollowInstance, ReportConflict
  <2>4. /\ \A q \in Procs : pc'[q] = "rotate" => pc[q] = "rotate"
        /\ \A q \in Procs : pc'[q] = "discovered" =>
              pc[q] = "discovered" /\ seen'[q] = seen[q]
    <3>1. CASE RetrySameAttempt(p)
      BY <3>1, GotoSettles DEF RetrySameAttempt, PCs, Typing, TypeOK
    <3>2. CASE FollowInstance(p)
      BY <3>2, GotoSettles DEF FollowInstance, PCs, Typing, TypeOK
    <3>3. CASE ReportConflict(p)
      BY <3>3, ExitSettles DEF ReportConflict
    <3> QED
      BY <1>4, <3>1, <3>2, <3>3
  <2> QED
    BY <2>2, <2>3, <2>4, WindowQuiet DEF Quiet
<1>5. CASE WatchStep(p)
  <2>1. CASE CapacityFound(p)
    BY <2>1, GotoSettles, WindowQuiet DEF CapacityFound, Quiet, PCs, Typing, TypeOK, States
  <2>2. CASE CapacityWait(p)
    BY <2>2, WindowQuiet DEF CapacityWait, Quiet, procVars, Typing, TypeOK, States
  <2>3. CASE CapacityNoneOnce(p) \/ CapacityFatal(p)
    BY <2>3, ExitSettles, ExitWithTyped, WindowQuiet
       DEF CapacityNoneOnce, CapacityFatal, Quiet, StateLifecycles
  <2> QED
    BY <1>5, <2>1, <2>2, <2>3 DEF WatchStep
<1>6. CASE LaunchStep(p)
  BY <1>6, WindowLaunchStep
<1>7. CASE PollStep(p)
  <2>1. CASE PollRunning(p)
    BY <2>1, GotoSettles, WindowQuiet DEF PollRunning, Quiet, PCs
  <2>2. CASE PollTerminal(p) \/ PollRejected(p)
    BY <2>2, ExitSettles, ExitWithTyped, WindowQuiet
       DEF PollTerminal, PollRejected, Quiet, StateLifecycles
  <2>3. CASE PersistFinished(p)
    BY <2>3, ExitSettles, WindowQuiet DEF PersistFinished, Quiet, Typing, TypeOK, States
  <2> QED
    BY <1>7, <2>1, <2>2, <2>3 DEF PollStep
<1> QED
  BY <1>1, <1>2, <1>3, <1>4, <1>5, <1>6, <1>7 DEF ProcStep, ReconcileAndPersist

LEMMA WindowStep ==
    ASSUME ~AttemptsLapse, LateRequests # "anyOrder"
    PROVE  Typing /\ Owning /\ Window /\ [Next]_vars => Window'
<1> SUFFICES ASSUME Typing, Owning, Window, [Next]_vars PROVE Window'
  OBVIOUS
<1>1. ASSUME NEW p \in Procs, ProcStep(p) PROVE Window'
  BY <1>1, WindowProcStep
<1>2. ASSUME NEW p \in Procs, Stop(p) PROVE Window'
  BY <1>2, ExitSettles, WindowQuiet DEF Stop, Quiet
<1>3. ASSUME NEW t \in Tokens, LateExecute(t) PROVE Window'
  <2>1. t = disk.attempt.token /\ \A q \in Procs : pc[q] # "rotate"
    BY <1>3 DEF LateExecute, Window, Underway
  <2> QED
    BY <1>3, <2>1, WindowExecutes DEF LateExecute, procVars
<1>4. CASE CloudStep
  <2>1. PICK i \in Instances : Move(i, ProviderMoves) \/ Move(i, UserMoves)
    BY <1>4 DEF CloudStep, ProviderStep, UserStep
  <2>2. /\ bound' = bound
        /\ \A j \in Instances : vm[j] = "absent" <=> vm'[j] = "absent"
        /\ \A j \in Instances : vm[j] = "TERMINATED" => vm'[j] = "TERMINATED"
    BY <2>1 DEF Move, ProviderMoves, UserMoves, Typing, TypeOK, VmStates
  <2>3. UNCHANGED <<late, now, disk, pc, seen>>
    BY <1>4 DEF CloudStep, procVars
  <2>4. Accounted' /\ (Gone => Gone')
    BY <2>2, CloudAssumption DEF Window, Accounted, Gone, Managed
  <2> QED
    BY <2>2, <2>3, <2>4 DEF Window, Underway, Binding, Fresh, Unbound, Predecessor
<1>5. CASE Tick
  <2>1. UNCHANGED <<late, disk, pc, seen, vm, bound>> /\ now' = now + 1
    BY <1>5 DEF Tick, procVars, cloudVars
  <2>2. Fresh'
    <3>1. disk.attempt \in Attempts /\ now \in Nat
      BY DEF Typing, TypeOK, States
    <3>2. CASE disk.attempt = NoAttempt
      BY <2>1, <3>2 DEF Fresh
    <3>3. CASE disk.attempt # NoAttempt
      BY <1>5, <2>1, <3>1, <3>3, ReconcileAssumption
         DEF Tick, Lapses, HasAttempt, Window, Fresh, Attempts
    <3> QED
      BY <3>2, <3>3
  <2> QED
    BY <2>1, <2>2 DEF Window, Underway, Binding, Unbound, Accounted, Predecessor, Gone
<1>6. CASE UNCHANGED vars
  BY <1>6, WindowQuiet DEF vars, procVars, Quiet
<1> QED
  BY <1>1, <1>2, <1>3, <1>4, <1>5, <1>6 DEF Next

(* The promise of the crash tests, for any number of processes, instances, *)
(* tokens, crashes and lost responses, whatever the listings miss and the  *)
(* users do: while the attempt on disk stays valid and no request outlives *)
(* its timeout, at most one live instance of the target exists.            *)
THEOREM OneLiveInstance ==
    ASSUME ~AttemptsLapse, LateRequests # "anyOrder"
    PROVE  Spec => []AtMostOneLive
BY TypingInit, OwningInit, WindowInit, TypingStep, OwningStep, WindowStep, WindowSafe,
   PTL DEF Spec

(* Under the same assumptions the instance can always be recovered through *)
(* the token on disk, however the run that launched it ended.              *)
THEOREM LiveInstanceRecoverable ==
    ASSUME ~AttemptsLapse, LateRequests # "anyOrder"
    PROVE  Spec => []NoOrphan
BY TypingInit, OwningInit, WindowInit, TypingStep, OwningStep, WindowStep, WindowSafe,
   PTL DEF Spec

-----------------------------------------------------------------------------
(***************************************************************************)
(* Under the same assumptions the record never loses a live instance.  A   *)
(* step that overwrites its id is one of four: a listing shows the         *)
(* instance active, a launch was accepted, the instance was seen running,  *)
(* or the token is rotated.  In the last nothing is live; in the others    *)
(* the id to be written is that of the only live instance, unless the      *)
(* recorded one is already gone.                                           *)
(***************************************************************************)

\* About to write the id of its instance.
Writing == {"accepted", "finish"}

Recorded ==
    /\ \A t \in Tokens : bound[t].instance # NoInstance =>
          vm[bound[t].instance] # "absent"
    /\ disk.instance # NoInstance => vm[disk.instance] # "absent"
    /\ \A p \in Procs : pc[p] = "accepted" => vm[instance[p]] # "absent"
    /\ \A p \in Procs : pc[p] \in Writing /\ disk.instance \in Live =>
          instance[p] = disk.instance

LEMMA RecordedInit == Init => Recorded
<1> SUFFICES ASSUME Init PROVE Recorded
  OBVIOUS
<1>1. \A t \in Tokens : bound[t].instance = NoInstance
  BY DEF Init, CloudInit
<1>2. disk.instance = NoInstance /\ \A p \in Procs : pc[p] = "idle"
  BY DEF Init, NoState
<1> QED
  BY <1>1, <1>2 DEF Recorded, Writing

KeepsInstance == disk.instance \in Live => disk'.instance = disk.instance

(* An instance neither vanishes nor comes back from its termination.       *)
Survives == \A i \in Instances : /\ vm[i] # "absent" => vm'[i] # "absent"
                                 /\ vm[i] = "TERMINATED" => vm'[i] = "TERMINATED"

(* Steps that leave the recorded id, and write nothing next.               *)
LEMMA RecordedQuiet ==
    ASSUME Typing, Owning, Recorded, Survives, disk'.instance = disk.instance,
           \A t \in Tokens : bound'[t].instance # NoInstance =>
               vm'[bound'[t].instance] # "absent",
           \A q \in Procs : pc'[q] \in Writing => pc[q] = pc'[q] /\ instance'[q] = instance[q]
    PROVE  Recorded' /\ KeepsInstance
<1>1. disk.instance # NoInstance => disk.instance \in Instances
  BY DEF Typing, TypeOK, States
<1>2. disk'.instance # NoInstance => vm'[disk'.instance] # "absent"
  BY <1>1 DEF Recorded, Survives
<1>3. disk.instance \in Live' => disk.instance \in Live
  <2> SUFFICES ASSUME disk.instance \in Live' PROVE disk.instance \in Live
    OBVIOUS
  <2>1. disk.instance \in Managed /\ disk.instance \in Instances
    BY DEF Live, Managed
  <2>2. vm[disk.instance] # "absent"
    BY <2>1, ReconcileAssumption DEF Recorded
  <2> QED
    BY <2>1, <2>2 DEF Live, Survives
<1>4. ASSUME NEW q \in Procs, pc'[q] = "accepted" PROVE vm'[instance'[q]] # "absent"
  <2>1. pc[q] = "accepted" /\ instance'[q] = instance[q]
    BY <1>4 DEF Writing
  <2> QED
    BY <2>1 DEF Owning, Recorded, Survives
<1>5. ASSUME NEW q \in Procs, pc'[q] \in Writing, disk'.instance \in Live'
      PROVE  instance'[q] = disk'.instance
  BY <1>3, <1>5 DEF Recorded
<1> QED
  BY <1>2, <1>4, <1>5 DEF Recorded, KeepsInstance

(* Steps of the lock's holder that write an id and leave the cloud alone.  *)
LEMMA RecordedWrite ==
    ASSUME Typing, Owning, Recorded, UNCHANGED cloudVars,
           disk'.instance # NoInstance => vm[disk'.instance] # "absent",
           \A q \in Procs : pc'[q] \notin Writing
    PROVE  Recorded'
BY DEF Recorded, Writing, cloudVars

(* No other process is about to write an id while one holds the lock.      *)
LEMMA NobodyWrites ==
    ASSUME Typing, Owning, NEW p \in Procs, pc[p] \in Holding \/ TakesLock(p),
           pc'[p] \notin Writing, \A q \in Procs \ {p} : pc'[q] = pc[q]
    PROVE  \A q \in Procs : pc'[q] \notin Writing
<1>1. Writing \subseteq Holding
  BY DEF Writing, Holding, PCs
<1>2. \A q \in Procs \ {p} : pc[q] \notin Holding
  BY Alone, ProvisioningAssumption DEF Owning, TakesLock
<1> QED
  BY <1>1, <1>2

(* What an executed request leaves of the cloud.                           *)
LEMMA ExecutesRecorded ==
    ASSUME Typing, Recorded, NEW t \in Tokens, NEW i \in Instances, Executes(t, i, now)
    PROVE  /\ Survives /\ vm'[i] # "absent"
           /\ \A u \in Tokens : bound'[u].instance # NoInstance =>
                 vm'[bound'[u].instance] # "absent"
<1>1. vm \in [Instances -> VmStates] /\ bound \in [Tokens -> Bindings]
  BY DEF Typing, TypeOK
<1>2. CASE Remembers(t, now) /\ i = bound[t].instance /\ UNCHANGED cloudVars
  BY <1>2 DEF Recorded, Survives, Remembers, cloudVars
<1>3. CASE /\ vm[i] = "absent"
           /\ vm' = [vm EXCEPT ![i] = "PROVISIONING"]
           /\ bound' = [bound EXCEPT ![t] = [instance |-> i, until |-> now + Retention]]
  <2>1. \A j \in Instances : vm'[j] = IF j = i THEN "PROVISIONING" ELSE vm[j]
    BY <1>1, <1>3
  <2>2. \A u \in Tokens : bound'[u].instance = IF u = t THEN i ELSE bound[u].instance
    BY <1>1, <1>3
  <2>3. \A u \in Tokens : bound[u].instance # NoInstance => bound[u].instance \in Instances
    BY <1>1 DEF Bindings
  <2> QED
    BY <1>3, <2>1, <2>2, <2>3 DEF Recorded, Survives
<1> QED
  BY <1>2, <1>3 DEF Executes

LEMMA MayExecuteRecorded ==
    ASSUME Typing, Recorded, NEW t \in Tokens, MayExecute(t, now)
    PROVE  /\ Survives
           /\ \A u \in Tokens : bound'[u].instance # NoInstance =>
                 vm'[bound'[u].instance] # "absent"
<1>1. CASE \E i \in Instances : Executes(t, i, now)
  BY <1>1, ExecutesRecorded
<1>2. CASE UNCHANGED cloudVars
  BY <1>2 DEF Recorded, Survives, cloudVars
<1> QED
  BY <1>1, <1>2 DEF MayExecute

(* What the argument needs of the window: a live instance stands alone,    *)
(* outlasts no rotation, and answers every launch call.                    *)
Single ==
    /\ AtMostOneLive
    /\ \A p \in Procs : pc[p] = "rotate" => Live = {}
    /\ \A p \in Procs : Calls(p) =>
          \A i \in Live : /\ Remembers(attempt[p].token, now)
                          /\ bound[attempt[p].token].instance = i

LEMMA WindowSingle == Typing /\ Owning /\ Window => Single
<1> SUFFICES ASSUME Typing, Owning, Window PROVE Single
  OBVIOUS
<1> DEFINE t == disk.attempt.token
<1>1. ASSUME NEW p \in Procs, pc[p] \in Launching PROVE t \in Tokens /\ attempt[p].token = t
  BY <1>1, LaunchToken DEF Owning
<1>2. ASSUME t \in Tokens, NEW i \in Live PROVE Remembers(t, now) /\ bound[t].instance = i
  <2>1. i \notin Preexisting /\ i # NoInstance
    BY <1>2, ReconcileAssumption DEF Window, Predecessor, Gone, Live, Managed
  <2>2. bound[t].instance = i
    BY <2>1, WindowSafe DEF NoOrphan
  <2> HIDE DEF t
  <2>3. now < disk.attempt.validTo /\ disk.attempt.validTo <= bound[t].until
    BY <1>2, <2>1, <2>2, ReconcileAssumption DEF Window, Fresh, Binding, NoAttempt, t
  <2>4. bound[t].until \in Nat /\ disk.attempt.validTo \in Nat /\ now \in Nat
    BY <1>2 DEF Typing, TypeOK, Bindings, States, Attempts
  <2> QED
    BY <2>1, <2>2, <2>3, <2>4 DEF Remembers
<1>3. ASSUME NEW p \in Procs, pc[p] = "rotate" PROVE Live = {}
  <2>1. t \in Tokens /\ bound[t].instance = NoInstance
    BY <1>1, <1>3 DEF Launching, Window, Unbound
  <2> QED
    BY <1>2, <2>1, ReconcileAssumption DEF Live, Managed
<1>4. ASSUME NEW p \in Procs, Calls(p), NEW i \in Live
      PROVE  Remembers(attempt[p].token, now) /\ bound[attempt[p].token].instance = i
  <2>1. t \in Tokens /\ attempt[p].token = t
    BY <1>1, <1>4 DEF Launching, Calls
  <2> QED
    BY <1>2, <1>4, <2>1
<1> QED
  BY <1>3, <1>4, WindowSafe DEF Single

(* A listing taken now shows only live instances of the target as such.    *)
LEMMA ListedIsLive ==
    ASSUME Typing, NEW s \in Listings, NEW o \in LiveOwned(s)
    PROVE  o.id \in Live
<1>1. PICK i \in Instances : i \in Existing /\ o = Observation(i)
  BY DEF LiveOwned, Listings, Existing
<1>2. o.id = i /\ o.lifecycle = Lifecycle(vm[i]) /\ o.tags = TagsOf(i)
  BY <1>1 DEF Observation
<1>3. i \notin Foreign
  BY <1>2 DEF LiveOwned, IsOwned, TagsOf, ContractTags
<1>4. vm[i] # "TERMINATED"
  BY <1>2 DEF LiveOwned, Lifecycle
<1> QED
  BY <1>1, <1>2, <1>3, <1>4 DEF Live, Managed, Existing

(* A record that names an instance is satisfied by that instance only.     *)
LEMMA SatisfiedRecord ==
    ASSUME Typing, NEW p \in Procs, Decide(disk, seen[p], now).kind = "AlreadySatisfied"
    PROVE  disk.instance \in {NoInstance, Decide(disk, seen[p], now).instance}
<1> DEFINE decision == Decide(disk, seen[p], now)
<1>1. disk \in States /\ now \in Nat /\ (~disk.present => disk.instance = NoInstance)
  BY DEF Typing, TypeOK, NoState
<1>2. DecideAbsent(disk, now) # "AlreadySatisfied"
  BY <1>1, DecideAbsentFacts DEF CreateSafe, CreateKinds
<1>3. PICK o \in LiveOwned(seen[p]) : decision = Decision(DecidePresent(disk, o), o.id)
  BY <1>1, <1>2, DecideCases DEF Decision
<1> QED
  BY <1>1, <1>3 DEF Decision, DecidePresent

(* Every step of a run keeps the recorded id of a live instance.           *)
LEMMA RecordedProcStep ==
    ASSUME Typing, Owning, Soundness, Single, Recorded, NEW p \in Procs, ProcStep(p)
    PROVE  Recorded' /\ KeepsInstance
<1> USE DEF Typing, TypeOK
<1>1. ASSUME UNCHANGED cloudVars
      PROVE  /\ Survives
             /\ \A t \in Tokens : bound'[t].instance # NoInstance =>
                   vm'[bound'[t].instance] # "absent"
  BY <1>1 DEF Recorded, Survives, cloudVars
<1>2. Calls(p) => /\ attempt[p].token = disk.attempt.token /\ disk.attempt.token \in Tokens
                  /\ pc[p] \in Holding
  BY LaunchToken DEF Calls, Launching, Owning, Holding, PCs
<1>3. ASSUME Exit(p), disk'.instance = disk.instance, Survives,
             \A t \in Tokens : bound'[t].instance # NoInstance =>
                 vm'[bound'[t].instance] # "absent"
      PROVE  Recorded' /\ KeepsInstance
  <2>1. \A q \in Procs : pc'[q] \in Writing => pc[q] = pc'[q] /\ instance'[q] = instance[q]
    BY <1>3 DEF Exit, Goto, Writing
  <2> QED
    BY <1>3, <2>1, RecordedQuiet
<1>4. ASSUME NEW label \in PCs \ Writing, Goto(p, label), disk'.instance = disk.instance,
             \A q \in Procs \ {p} : instance'[q] = instance[q], Survives,
             \A t \in Tokens : bound'[t].instance # NoInstance =>
                 vm'[bound'[t].instance] # "absent"
      PROVE  Recorded' /\ KeepsInstance
  <2>1. \A q \in Procs : pc'[q] \in Writing => pc[q] = pc'[q] /\ instance'[q] = instance[q]
    BY <1>4 DEF Goto, Writing
  <2> QED
    BY <1>4, <2>1, RecordedQuiet
<1>5. PCs \ Writing = {"idle", "discovered", "watch", "launch", "retry", "rotate", "poll"}
  BY DEF PCs, Writing
<1>6. CASE Discover(p)
  BY <1>1, <1>4, <1>5, <1>6 DEF Discover
<1>7. CASE LockBusy(p)
  BY <1>1, <1>3, <1>7 DEF LockBusy
<1>8. CASE MintAttempt(p)
  <2>1. PICK t \in Tokens :
          disk' = Persisted(disk, Decide(disk, seen[p], now), NewAttempt(t, now))
    BY <1>8 DEF MintAttempt
  <2>2. NewAttempt(t, now) \in Attempts
    BY NewAttemptFacts
  <2>3. disk'.instance = disk.instance
    BY <1>8, <2>1, <2>2, DecisionSaved DEF MintAttempt, CreateKinds
  <2> QED
    BY <1>1, <1>4, <1>5, <1>8, <2>3 DEF MintAttempt
<1>9. CASE RetrySameAttempt(p) \/ ReportConflict(p)
  <2>1. NoAttempt \in Attempts
    BY DEF NoAttempt, Attempts
  <2>2. disk'.instance = disk.instance
    BY <1>9, <2>1, DecisionSaved DEF RetrySameAttempt, ReportConflict
  <2> QED
    BY <1>1, <1>3, <1>4, <1>5, <1>9, <2>2 DEF RetrySameAttempt, ReportConflict
<1>10. CASE FollowInstance(p)
  <2> DEFINE decision == Decide(disk, seen[p], now)
  <2>1. NoAttempt \in Attempts
    BY DEF NoAttempt, Attempts
  <2>2. CASE decision.kind = "AlreadySatisfied"
    <3>1. disk'.instance = decision.instance /\ decision.instance \in Instances
      BY <1>10, <2>1, <2>2, DecisionSaved DEF FollowInstance
    <3>2. Active(decision.instance)
      BY <2>2, SatisfiedFacts DEF Soundness, ProcSound, Sound
    <3>3. disk.instance \in {NoInstance, decision.instance}
      BY <2>2, SatisfiedRecord
    <3>4. NoInstance \notin Live
      BY ReconcileAssumption DEF Live, Managed
    <3>5. \A q \in Procs : pc'[q] \notin Writing
      BY <1>10, NobodyWrites DEF FollowInstance, Goto, Writing
    <3>6. Recorded'
      BY <1>10, <3>1, <3>2, <3>5, RecordedWrite DEF FollowInstance, Active
    <3> QED
      BY <3>1, <3>3, <3>4, <3>6 DEF KeepsInstance
  <2>3. CASE decision.kind # "AlreadySatisfied"
    <3>1. disk'.instance = disk.instance
      BY <1>10, <2>1, <2>3, DecisionSaved DEF FollowInstance
    <3> QED
      BY <1>1, <1>4, <1>5, <1>10, <3>1 DEF FollowInstance
  <2> QED
    BY <2>2, <2>3
<1>11. CASE WatchStep(p)
  <2>1. CASE CapacityFound(p)
    BY <1>1, <1>4, <1>5, <2>1 DEF CapacityFound, States
  <2>2. CASE CapacityWait(p)
    <3>1. disk'.instance = disk.instance /\ UNCHANGED <<pc, instance, cloudVars>>
      BY <2>2 DEF CapacityWait, procVars, States
    <3> QED
      BY <1>1, <3>1, RecordedQuiet
  <2>3. CASE CapacityNoneOnce(p) \/ CapacityFatal(p)
    <3>1. PICK l \in StateLifecycles : ExitWith(p, l) /\ UNCHANGED cloudVars
      BY <2>3 DEF CapacityNoneOnce, CapacityFatal, StateLifecycles
    <3> QED
      BY <1>1, <1>3, <3>1, ExitWithTyped
  <2> QED
    BY <1>11, <2>1, <2>2, <2>3 DEF WatchStep
<1>12. CASE LaunchAccepted(p)
  <2>1. PICK i \in Instances : /\ Executes(disk.attempt.token, i, now)
                               /\ instance' = [instance EXCEPT ![p] = i]
    BY <1>2, <1>12 DEF LaunchAccepted
  <2>2. /\ Survives /\ vm'[i] # "absent"
        /\ \A t \in Tokens : bound'[t].instance # NoInstance =>
              vm'[bound'[t].instance] # "absent"
    BY <1>2, <1>12, <2>1, ExecutesRecorded DEF LaunchAccepted
  <2>3. disk' = disk /\ disk.instance \in Instances \cup {NoInstance}
    BY <1>12 DEF LaunchAccepted, States
  <2>4. disk.instance \in Live' => i = disk.instance
    <3>1. disk.instance \in Live' => disk.instance \in Live
      BY <2>2, <2>3, ReconcileAssumption DEF Live, Managed, Recorded, Survives
    <3> QED
      BY <1>2, <1>12, <2>1, <3>1 DEF LaunchAccepted, Single, Executes
  <2>5. ASSUME NEW q \in Procs, pc'[q] \in Writing PROVE q = p /\ instance'[q] = i
    <3>1. \A r \in Procs \ {p} : pc'[r] = pc[r] /\ pc[r] \notin Holding
      BY <1>2, <1>12, Alone DEF LaunchAccepted, Goto
    <3> QED
      BY <2>1, <2>5, <3>1 DEF Writing, Holding, PCs
  <2>6. disk'.instance # NoInstance => vm'[disk'.instance] # "absent"
    BY <2>2, <2>3 DEF Recorded, Survives
  <2> QED
    BY <2>2, <2>3, <2>4, <2>5, <2>6 DEF Recorded, KeepsInstance, Writing
<1>13. CASE LaunchAmbiguous(p)
  <2>1. CASE MayExecute(disk.attempt.token, now)
    BY <1>2, <1>4, <1>5, <1>13, <2>1, MayExecuteRecorded DEF LaunchAmbiguous
  <2>2. CASE UNCHANGED cloudVars
    BY <1>1, <1>4, <1>5, <1>13, <2>2 DEF LaunchAmbiguous
  <2> QED
    BY <1>2, <1>13, <2>1, <2>2 DEF LaunchAmbiguous
<1>14. CASE LaunchFails(p)
  BY <1>2, <1>3, <1>14, MayExecuteRecorded, ExitWithTyped DEF LaunchFails, StateLifecycles
<1>15. CASE LaunchOutOfCapacity(p)
  <2>1. CASE Exit(p)
    BY <1>1, <1>3, <1>15, <2>1 DEF LaunchOutOfCapacity
  <2>2. CASE Goto(p, "rotate") /\ UNCHANGED instance
    BY <1>1, <1>4, <1>5, <1>15, <2>2 DEF LaunchOutOfCapacity
  <2> QED
    BY <1>15, <2>1, <2>2 DEF LaunchOutOfCapacity
<1>16. CASE LaunchLimitExceeded(p)
  <2>1. PICK s \in Listings : LimitReconciled(p, {o.id : o \in LiveOwned(s)})
    BY <1>16 DEF LaunchLimitExceeded
  <2> DEFINE found == {o.id : o \in LiveOwned(s)}
  <2>2. found \subseteq Live /\ found \subseteq Instances /\ LimitReconciled(p, found)
    BY <2>1, ListedIsLive DEF Live, Managed
  <2> HIDE DEF found
  <2>3. CASE /\ \E i \in Instances : found = {i} /\ instance' = [instance EXCEPT ![p] = i]
             /\ Goto(p, "accepted")
             /\ UNCHANGED disk
    <3>1. PICK i \in Live : instance' = [instance EXCEPT ![p] = i]
      BY <2>2, <2>3
    <3>2. \A j \in Live : j = i
      BY DEF Single, AtMostOneLive
    <3>3. UNCHANGED <<vm, bound>> /\ vm[i] # "absent"
      BY <1>16 DEF LaunchLimitExceeded, cloudVars, Live
    <3>4. ASSUME NEW q \in Procs, pc'[q] \in Writing PROVE q = p /\ instance'[q] = i
      <4>1. \A r \in Procs \ {p} : pc'[r] = pc[r] /\ pc[r] \notin Holding
        BY <1>2, <1>16, <2>3, Alone DEF LaunchLimitExceeded, Goto
      <4> QED
        BY <3>1, <3>4, <4>1 DEF Writing, Holding, PCs
    <3> QED
      BY <2>3, <3>2, <3>3, <3>4 DEF Recorded, KeepsInstance, Live, Writing
  <2>4. CASE ExitWith(p, "failed") \/ (Exit(p) /\ UNCHANGED disk)
    <3>1. Exit(p) /\ disk'.instance = disk.instance
      BY <2>4, ExitWithTyped DEF StateLifecycles
    <3> QED
      BY <1>1, <1>3, <1>16, <3>1 DEF LaunchLimitExceeded
  <2> QED
    BY <2>2, <2>3, <2>4, LimitCases
<1>17. CASE PersistAccepted(p) \/ PersistFinished(p)
  <2>1. /\ disk'.instance = instance[p] /\ pc[p] \in Writing /\ pc[p] \in Holding
        /\ UNCHANGED cloudVars
    BY <1>17 DEF PersistAccepted, PersistFinished, States, Writing, Holding, PCs
  <2>2. vm[instance[p]] # "absent"
    BY <1>17 DEF PersistAccepted, PersistFinished, Recorded, Soundness, ProcSound, Active
  <2>3. pc'[p] \notin Writing /\ \A q \in Procs \ {p} : pc'[q] = pc[q]
    BY <1>17 DEF PersistAccepted, PersistFinished, Exit, Goto, Writing
  <2>4. \A q \in Procs : pc'[q] \notin Writing
    BY <2>1, <2>3, NobodyWrites
  <2>5. Recorded'
    BY <2>1, <2>2, <2>4, RecordedWrite
  <2> QED
    BY <2>1, <2>5 DEF Recorded, KeepsInstance
<1>18. CASE Rotate(p)
  <2>1. disk'.instance = NoInstance /\ UNCHANGED cloudVars
    BY <1>18 DEF Rotate, Rotated, States
  <2>2. Live = {}
    BY <1>18 DEF Rotate, Single
  <2>3. \A q \in Procs : pc'[q] \notin Writing
    BY <1>18, NobodyWrites DEF Rotate, Goto, Writing, Holding, PCs
  <2>4. Recorded'
    BY <2>1, <2>3, RecordedWrite
  <2> QED
    BY <2>2, <2>4 DEF KeepsInstance
<1>19. CASE PollRunning(p)
  <2>1. disk' = disk /\ UNCHANGED <<instance, vm, bound>> /\ pc[p] = "poll"
    BY <1>19 DEF PollRunning, cloudVars
  <2>2. instance[p] \in Live
    BY <1>19 DEF PollRunning, Owning, Soundness, ProcSound, Live, Managed
  <2>3. \A j \in Live : j = instance[p]
    BY <2>2 DEF Single, AtMostOneLive
  <2>4. ASSUME NEW q \in Procs, pc'[q] \in Writing PROVE q = p /\ pc'[q] = "finish"
    <3>1. \A r \in Procs \ {p} : pc'[r] = pc[r] /\ pc[r] \notin Holding
      BY <1>19, <2>1, Alone DEF PollRunning, Goto, Holding, PCs
    <3>2. pc'[p] = "finish"
      BY <1>19 DEF PollRunning, Goto
    <3> QED
      BY <2>4, <3>1, <3>2 DEF Writing, Holding, PCs
  <2> QED
    BY <2>1, <2>3, <2>4 DEF Recorded, KeepsInstance, Live, Writing
<1>20. CASE PollTerminal(p) \/ PollRejected(p)
  BY <1>1, <1>3, <1>20, ExitWithTyped DEF PollTerminal, PollRejected, StateLifecycles
<1> QED
  BY <1>6, <1>7, <1>8, <1>9, <1>10, <1>11, <1>12, <1>13, <1>14, <1>15, <1>16, <1>17,
     <1>18, <1>19, <1>20
     DEF ProcStep, ReconcileAndPersist, LaunchStep, PollStep

LEMMA RecordedStep ==
    ASSUME Typing, Owning, Soundness, Single, Recorded, [Next]_vars
    PROVE  Recorded' /\ KeepsInstance
<1>1. ASSUME NEW p \in Procs, ProcStep(p) PROVE Recorded' /\ KeepsInstance
  BY <1>1, RecordedProcStep
<1>2. ASSUME NEW p \in Procs, Stop(p) PROVE Recorded' /\ KeepsInstance
  <2>1. \A q \in Procs : pc'[q] \in Writing => pc[q] = pc'[q] /\ instance'[q] = instance[q]
    BY <1>2 DEF Stop, Exit, Goto, Writing, Typing, TypeOK
  <2>2. /\ Survives
        /\ \A t \in Tokens : bound'[t].instance # NoInstance =>
              vm'[bound'[t].instance] # "absent"
    BY <1>2 DEF Stop, Recorded, Survives, cloudVars
  <2> QED
    BY <1>2, <2>1, <2>2, RecordedQuiet DEF Stop
<1>3. ASSUME NEW t \in Tokens, LateExecute(t) PROVE Recorded' /\ KeepsInstance
  <2>1. /\ Survives
        /\ \A u \in Tokens : bound'[u].instance # NoInstance =>
              vm'[bound'[u].instance] # "absent"
    BY <1>3, ExecutesRecorded DEF LateExecute
  <2> QED
    BY <1>3, <2>1, RecordedQuiet DEF LateExecute, procVars
<1>4. CASE CloudStep
  <2>1. PICK i \in Instances : Move(i, ProviderMoves) \/ Move(i, UserMoves)
    BY <1>4 DEF CloudStep, ProviderStep, UserStep
  <2>2. bound' = bound /\ Survives
    BY <2>1 DEF Move, ProviderMoves, UserMoves, Survives, Typing, TypeOK
  <2>3. \A t \in Tokens : bound[t].instance # NoInstance => bound[t].instance \in Instances
    BY DEF Typing, TypeOK, Bindings
  <2>4. \A t \in Tokens : bound'[t].instance # NoInstance =>
            vm'[bound'[t].instance] # "absent"
    BY <2>2, <2>3 DEF Recorded, Survives
  <2> QED
    BY <1>4, <2>2, <2>4, RecordedQuiet DEF CloudStep, procVars
<1>5. CASE Tick \/ UNCHANGED vars
  <2>1. UNCHANGED <<disk, pc, instance, vm, bound>>
    BY <1>5 DEF Tick, vars, procVars, cloudVars
  <2>2. Survives
    BY <2>1 DEF Survives
  <2> QED
    BY <2>1, <2>2, RecordedQuiet DEF Recorded
<1> QED
  BY <1>1, <1>2, <1>3, <1>4, <1>5 DEF Next

(* The id of a live instance, once on disk, is never overwritten: not by a *)
(* run that decided on an older listing, not by a later launch, and not by *)
(* the rotation of a token.                                                *)
THEOREM RecordKept ==
    ASSUME ~AttemptsLapse, LateRequests # "anyOrder"
    PROVE  Spec => NeverForgets
<1>1. Typing /\ Owning /\ Soundness /\ Window /\ Recorded /\ [Next]_vars
        => Recorded' /\ [disk.instance \in Live => disk'.instance = disk.instance]_vars
  BY RecordedStep, WindowSingle DEF KeepsInstance
<1> QED
  BY <1>1, TypingInit, OwningInit, SoundnessInit, WindowInit, RecordedInit,
     TypingStep, OwningStep, SoundnessStep, WindowStep, PTL DEF Spec, NeverForgets

-----------------------------------------------------------------------------
(***************************************************************************)
(* Across expiries.  When one run works at a time, listings are prompt, no *)
(* request is executed after its timeout and the retries of one launch do  *)
(* not outlast the provider's memory, the attempt may expire as often as   *)
(* time wants: nothing is live while a run waits for capacity, because its *)
(* listing showed so and nobody else launches.                             *)
(***************************************************************************)

OneRun ==
    /\ late = {}
    /\ AtMostOneLive
    /\ \A i \in Live \ Preexisting : /\ disk.attempt.token \in Tokens
                                     /\ bound[disk.attempt.token].instance = i
    /\ \A p \in Procs : pc[p] = "discovered" /\ LiveOwned(seen[p]) = {} => Live = {}
    /\ \A p \in Procs : pc[p] \in {"watch", "launch", "rotate"} => Live = {}
    /\ \A p \in Procs : pc[p] = "retry" =>
          \A i \in Live : /\ Remembers(attempt[p].token, now)
                          /\ bound[attempt[p].token].instance = i

LEMMA OneRunInit == Init => OneRun
<1> SUFFICES ASSUME Init PROVE OneRun
  OBVIOUS
<1>1. \A i \in Live : i \in Preexisting
  BY DEF Init, CloudInit, Live, Managed
<1>2. late = {} /\ \A p \in Procs : pc[p] = "idle"
  BY DEF Init
<1> QED
  BY <1>1, <1>2, CloudAssumption DEF OneRun, AtMostOneLive

LEMMA OneRunSafe == Typing /\ OneRun => NoOrphan
<1>1. Typing /\ disk.attempt.token \in Tokens => disk.present
  BY ReconcileAssumption DEF Typing, NoState, NoAttempt
<1> QED
  BY <1>1 DEF OneRun, NoOrphan

LEMMA OneRunSingle == OneRun => Single
BY DEF OneRun, Single, Calls

(* Steps that add no live instance.                                        *)
LEMMA OneRunQuiet ==
    ASSUME Typing, OneRun, late' = late, Live' \subseteq Live,
           (bound' = bound /\ disk'.attempt = disk.attempt) \/ Live' = {},
           \A q \in Procs : pc'[q] \in {"watch", "launch", "rotate"} => Live' = {},
           \A q \in Procs : pc'[q] = "discovered" /\ LiveOwned(seen'[q]) = {} => Live' = {},
           \A q \in Procs : pc'[q] = "retry" =>
               \/ Live' = {}
               \/ pc[q] = "retry" /\ UNCHANGED <<now, bound>> /\ attempt'[q] = attempt[q]
    PROVE  OneRun'
BY DEF OneRun, AtMostOneLive, Remembers

(* A request of the only run: it is remembered if anything is live, and    *)
(* what it creates is remembered until time passes.                        *)
LEMMA OneRunExecutes ==
    ASSUME Typing, Owning, OneRun, NEW p \in Procs, \A q \in Procs : q = p, Calls(p),
           NEW i \in Instances, Executes(attempt[p].token, i, now),
           UNCHANGED <<now, late>>, disk'.attempt = disk.attempt,
           pc'[p] \in {"accepted", "idle"} \/ (pc'[p] = "retry" /\ attempt' = attempt)
    PROVE  OneRun'
<1> DEFINE t == attempt[p].token
<1>1. t \in Tokens /\ t = disk.attempt.token
  BY LaunchToken DEF Calls, Launching, Owning
<1>2. \A j \in Live : Remembers(t, now) /\ bound[t].instance = j
  BY OneRunSingle DEF Single
<1>3. Executes(t, i, now)
  OBVIOUS
<1>4. \A q \in Procs : pc'[q] \notin {"watch", "launch", "rotate", "discovered"}
  OBVIOUS
<1>5. \A q \in Procs : pc'[q] = "retry" => attempt'[q].token = t
  OBVIOUS
<1> HIDE DEF t
<1>6. CASE Remembers(t, now) /\ UNCHANGED cloudVars
  <2>1. UNCHANGED <<vm, bound, now>> /\ Live' = Live
    BY <1>6 DEF cloudVars, Live
  <2>2. AtMostOneLive' /\ late' = {}
    BY <2>1 DEF OneRun, AtMostOneLive
  <2>3. (\A q \in Procs : pc[q] = "retry" =>
            \A j \in Live : /\ Remembers(attempt[q].token, now)
                            /\ bound[attempt[q].token].instance = j)'
    BY <1>2, <1>5, <2>1 DEF Remembers
  <2>4. \A j \in Live' \ Preexisting : /\ disk'.attempt.token \in Tokens
                                      /\ bound'[disk'.attempt.token].instance = j
    BY <2>1 DEF OneRun
  <2> QED
    BY <1>4, <2>1, <2>2, <2>3, <2>4 DEF OneRun
<1>7. CASE /\ ~Remembers(t, now) /\ vm[i] = "absent"
           /\ vm' = [vm EXCEPT ![i] = "PROVISIONING"]
           /\ bound' = [bound EXCEPT ![t] = [instance |-> i, until |-> now + Retention]]
  <2>1. Live = {}
    BY <1>2, <1>7
  <2>2. vm \in [Instances -> VmStates] /\ bound \in [Tokens -> Bindings] /\ now \in Nat
    BY DEF Typing, TypeOK
  <2>3. \A j \in Live' : j = i
    BY <1>7, <2>1, <2>2 DEF Live, Managed
  <2>4. bound'[t].instance = i /\ bound'[t].until = now + Retention
    BY <1>1, <1>7, <2>2
  <2>5. now < now + Retention /\ now' = now
    BY <2>2, ReconcileAssumption, CloudAssumption
  <2>6. i # NoInstance
    BY ReconcileAssumption
  <2>7. (\A q \in Procs : pc[q] = "retry" =>
            \A j \in Live : /\ Remembers(attempt[q].token, now)
                            /\ bound[attempt[q].token].instance = j)'
    BY <1>5, <2>3, <2>4, <2>5, <2>6 DEF Remembers
  <2>8. \A j \in Live' \ Preexisting : /\ disk'.attempt.token \in Tokens
                                      /\ bound'[disk'.attempt.token].instance = j
    BY <1>1, <2>3, <2>4
  <2>9. AtMostOneLive' /\ late' = {}
    BY <2>3 DEF OneRun, AtMostOneLive
  <2> QED
    BY <1>4, <2>7, <2>8, <2>9 DEF OneRun
<1> QED
  BY <1>3, <1>6, <1>7 DEF Executes

(* A prompt listing that shows nothing live proves that nothing is.        *)
LEMMA PromptListing ==
    ASSUME ~ListLag, NEW s \in Listings, LiveOwned(s) = {}
    PROVE  Live = {}
<1> SUFFICES ASSUME NEW i \in Live PROVE FALSE
  OBVIOUS
<1>1. PICK hidden \in SUBSET Hideable : s = {Observation(j) : j \in Existing \ hidden}
  BY DEF Listings
<1>2. i \in Existing /\ hidden = {} /\ i \notin Foreign /\ vm[i] # "TERMINATED"
  BY <1>1 DEF Live, Managed, Existing, Hideable
<1>3. Observation(i) \in s
  BY <1>1, <1>2
<1>4. IsOwned(Observation(i))
  BY <1>2 DEF Observation, IsOwned, TagsOf
<1>5. Observation(i).lifecycle \in {"active", "unknown"}
  BY <1>2 DEF Observation, Lifecycle
<1> QED
  BY <1>3, <1>4, <1>5 DEF LiveOwned

(* No request is left behind.                                              *)
LEMMA LateNever ==
    ASSUME LateRequests = "never", NEW p \in Procs, LaunchAmbiguous(p)
    PROVE  UNCHANGED late
BY DEF LaunchAmbiguous

(* Every step of the only run, and of everything around it, keeps OneRun.  *)
LEMMA OneRunProcStep ==
    ASSUME ~ListLag, LateRequests = "never", Typing, Owning, OneRun,
           NEW p \in Procs, \A q \in Procs : q = p, ProcStep(p)
    PROVE  OneRun'
<1> USE DEF Typing, TypeOK
<1>1. UNCHANGED cloudVars => Live' = Live /\ bound' = bound
  BY DEF cloudVars, Live
<1>2. ASSUME Exit(p), UNCHANGED <<late, cloudVars>>, disk'.attempt = disk.attempt
      PROVE  OneRun'
  <2>1. pc'[p] = "idle"
    BY <1>2 DEF Exit, Goto
  <2> QED
    BY <1>1, <1>2, <2>1, OneRunQuiet
<1>3. ASSUME NEW label \in {"accepted", "poll", "finish"}, pc'[p] = label,
             UNCHANGED <<late, cloudVars>>, disk'.attempt = disk.attempt
      PROVE  OneRun'
  BY <1>1, <1>3, OneRunQuiet
<1>4. ASSUME Live = {}, UNCHANGED <<late, cloudVars>> PROVE OneRun'
  BY <1>1, <1>4, OneRunQuiet
<1>5. Calls(p) /\ ~Remembers(attempt[p].token, now) => Live = {}
  BY OneRunSingle DEF Single
<1>6. CASE Discover(p)
  <2>1. PICK s \in Listings : seen' = [seen EXCEPT ![p] = s]
    BY <1>6 DEF Discover
  <2>2. pc'[p] = "discovered" /\ seen'[p] = s
    BY <1>6, <2>1 DEF Discover, Goto
  <2>3. LiveOwned(s) = {} => Live' = {}
    BY <1>1, <1>6, PromptListing DEF Discover
  <2> QED
    BY <1>1, <1>6, <2>2, <2>3, OneRunQuiet DEF Discover
<1>7. CASE LockBusy(p)
  BY <1>2, <1>7 DEF LockBusy
<1>8. CASE MintAttempt(p) \/ RetrySameAttempt(p)
  <2>1. Decide(disk, seen[p], now).kind \in CreateSafe
    BY <1>8 DEF MintAttempt, RetrySameAttempt, CreateSafe
  <2>2. LiveOwned(seen[p]) = {}
    BY <2>1, DecideFacts
  <2>3. Live = {}
    BY <1>8, <2>2 DEF MintAttempt, RetrySameAttempt, TakesLock, OneRun
  <2> QED
    BY <1>4, <1>8, <2>3 DEF MintAttempt, RetrySameAttempt
<1>9. CASE FollowInstance(p) \/ ReportConflict(p)
  <2>1. NoAttempt \in Attempts
    BY DEF NoAttempt, Attempts
  <2>2. disk'.attempt = disk.attempt
    BY <1>9, <2>1, DecisionSaved DEF FollowInstance, ReportConflict, CreateKinds
  <2>3. FollowInstance(p) => pc'[p] = "poll"
    BY DEF FollowInstance, Goto
  <2> QED
    BY <1>2, <1>3, <1>9, <2>2, <2>3 DEF FollowInstance, ReportConflict
<1>10. CASE WatchStep(p)
  <2>1. Live = {}
    BY <1>10 DEF WatchStep, CapacityFound, CapacityWait, CapacityNoneOnce, CapacityFatal,
                 OneRun
  <2> QED
    BY <1>4, <1>10, <2>1
       DEF WatchStep, CapacityFound, CapacityWait, CapacityNoneOnce, CapacityFatal
<1>11. CASE LaunchAccepted(p)
  <2>1. PICK i \in Instances : Executes(attempt[p].token, i, now)
    BY <1>11 DEF LaunchAccepted
  <2>2. pc'[p] = "accepted"
    BY <1>11 DEF LaunchAccepted, Goto
  <2> QED
    BY <1>11, <2>1, <2>2, OneRunExecutes DEF LaunchAccepted
<1>12. CASE LaunchAmbiguous(p)
  <2>1. pc'[p] = "retry"
    BY <1>12 DEF LaunchAmbiguous, Goto
  <2>2. CASE \E i \in Instances : Executes(attempt[p].token, i, now)
    <3>1. UNCHANGED late
      BY <1>12, <2>2, LateNever
    <3> QED
      BY <1>12, <2>1, <2>2, <3>1, OneRunExecutes DEF LaunchAmbiguous
  <2>3. CASE UNCHANGED cloudVars
    <3>1. Live = {} \/ pc[p] = "retry"
      BY <1>12 DEF LaunchAmbiguous, Calls, OneRun
    <3>2. late' = late
      BY <1>12 DEF LaunchAmbiguous
    <3> QED
      BY <1>1, <1>12, <2>1, <2>3, <3>1, <3>2, OneRunQuiet DEF LaunchAmbiguous
  <2> QED
    BY <1>12, <2>2, <2>3 DEF LaunchAmbiguous, MayExecute
<1>13. CASE LaunchFails(p)
  <2>1. /\ Exit(p) /\ disk'.attempt = disk.attempt /\ pc'[p] = "idle"
    BY <1>13, ExitWithTyped DEF LaunchFails, StateLifecycles, Exit, Goto
  <2>2. CASE \E i \in Instances : Executes(attempt[p].token, i, now)
    BY <1>13, <2>1, <2>2, OneRunExecutes DEF LaunchFails
  <2>3. CASE UNCHANGED cloudVars
    BY <1>2, <1>13, <2>1, <2>3 DEF LaunchFails
  <2> QED
    BY <1>13, <2>2, <2>3 DEF LaunchFails, MayExecute
<1>14. CASE LaunchOutOfCapacity(p)
  <2>1. Live = {}
    BY <1>5, <1>14 DEF LaunchOutOfCapacity
  <2> QED
    BY <1>4, <1>14, <2>1 DEF LaunchOutOfCapacity
<1>15. CASE LaunchLimitExceeded(p)
  <2>1. Live = {}
    BY <1>5, <1>15 DEF LaunchLimitExceeded
  <2> QED
    BY <1>4, <1>15, <2>1 DEF LaunchLimitExceeded
<1>16. CASE PersistAccepted(p)
  BY <1>3, <1>16 DEF PersistAccepted, Goto, States
<1>17. CASE Rotate(p)
  <2>1. Live = {}
    BY <1>17 DEF Rotate, OneRun
  <2> QED
    BY <1>4, <1>17, <2>1 DEF Rotate
<1>18. CASE PollRunning(p)
  BY <1>3, <1>18 DEF PollRunning, Goto
<1>19. CASE PollTerminal(p) \/ PollRejected(p)
  BY <1>2, <1>19, ExitWithTyped DEF PollTerminal, PollRejected, StateLifecycles
<1>20. CASE PersistFinished(p)
  BY <1>2, <1>20 DEF PersistFinished, States
<1> QED
  BY <1>6, <1>7, <1>8, <1>9, <1>10, <1>11, <1>12, <1>13, <1>14, <1>15, <1>16, <1>17,
     <1>18, <1>19, <1>20
     DEF ProcStep, ReconcileAndPersist, LaunchStep, PollStep

LEMMA OneRunStep ==
    ASSUME ~ListLag, ~LongRetries, LateRequests = "never", \A p, q \in Procs : p = q
    PROVE  Typing /\ Owning /\ OneRun /\ [Next]_vars => OneRun'
<1> SUFFICES ASSUME Typing, Owning, OneRun, [Next]_vars PROVE OneRun'
  OBVIOUS
<1>1. ASSUME NEW p \in Procs, ProcStep(p) PROVE OneRun'
  BY <1>1, OneRunProcStep
<1>2. ASSUME NEW p \in Procs, Stop(p) PROVE OneRun'
  <2>1. \A q \in Procs : pc'[q] = "idle"
    BY <1>2 DEF Stop, Exit, Goto, Typing, TypeOK
  <2>2. Live' = Live /\ bound' = bound
    BY <1>2 DEF Stop, cloudVars, Live
  <2> QED
    BY <1>2, <2>1, <2>2, OneRunQuiet DEF Stop
<1>3. ~\E t \in Tokens : LateExecute(t)
  BY DEF LateExecute, OneRun
<1>4. CASE CloudStep
  <2>1. PICK i \in Instances : Move(i, ProviderMoves) \/ Move(i, UserMoves)
    BY <1>4 DEF CloudStep, ProviderStep, UserStep
  <2>2. bound' = bound /\ Live' \subseteq Live
    BY <2>1 DEF Move, ProviderMoves, UserMoves, Live, Managed, Typing, TypeOK
  <2>3. UNCHANGED <<now, late, disk, pc, seen, attempt>>
    BY <1>4 DEF CloudStep, procVars
  <2> QED
    BY <2>2, <2>3, OneRunQuiet DEF OneRun
<1>5. CASE Tick
  <2>1. UNCHANGED <<late, disk, pc, seen, attempt, vm, bound>>
    BY <1>5 DEF Tick, procVars, cloudVars
  <2>2. \A q \in Procs : pc[q] # "retry"
    BY <1>5 DEF Tick
  <2>3. Live' = Live
    BY <2>1 DEF Live
  <2> QED
    BY <2>1, <2>2, <2>3, OneRunQuiet DEF OneRun
<1>6. CASE UNCHANGED vars
  <2>1. UNCHANGED <<now, late, disk, pc, seen, attempt, vm, bound>>
    BY <1>6 DEF vars, procVars, cloudVars
  <2>2. Live' = Live
    BY <2>1 DEF Live
  <2> QED
    BY <2>1, <2>2, OneRunQuiet DEF OneRun
<1> QED
  BY <1>1, <1>2, <1>3, <1>4, <1>5, <1>6 DEF Next

(* One run after the other, each killed at any moment, over any number of  *)
(* validity windows: at most one live instance of the target exists.       *)
THEOREM OneLiveAcrossExpiries ==
    ASSUME ~ListLag, ~LongRetries, LateRequests = "never", \A p, q \in Procs : p = q
    PROVE  Spec => []AtMostOneLive
<1>1. OneRun => AtMostOneLive
  BY DEF OneRun
<1> QED
  BY TypingInit, OwningInit, OneRunInit, TypingStep, OwningStep, OneRunStep, <1>1,
     PTL DEF Spec

(* It is the instance of the token on disk, though that may have expired.  *)
THEOREM RecoverableAcrossExpiries ==
    ASSUME ~ListLag, ~LongRetries, LateRequests = "never", \A p, q \in Procs : p = q
    PROVE  Spec => []NoOrphan
BY TypingInit, OwningInit, OneRunInit, TypingStep, OwningStep, OneRunStep, OneRunSafe,
   PTL DEF Spec

(* And its id, once saved, survives every later run.                       *)
THEOREM RecordKeptAcrossExpiries ==
    ASSUME ~ListLag, ~LongRetries, LateRequests = "never", \A p, q \in Procs : p = q
    PROVE  Spec => NeverForgets
<1>1. Typing /\ Owning /\ Soundness /\ OneRun /\ Recorded /\ [Next]_vars
        => Recorded' /\ [disk.instance \in Live => disk'.instance = disk.instance]_vars
  BY RecordedStep, OneRunSingle DEF KeepsInstance
<1> QED
  BY <1>1, TypingInit, OwningInit, SoundnessInit, OneRunInit, RecordedInit,
     TypingStep, OwningStep, SoundnessStep, OneRunStep, PTL DEF Spec, NeverForgets
=============================================================================

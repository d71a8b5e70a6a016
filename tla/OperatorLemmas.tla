---------------------------- MODULE OperatorLemmas ----------------------------
(***************************************************************************)
(* What the operators return that the modules of the components share, for *)
(* every value of the constants: induction on the natural numbers, what    *)
(* Decide returns and Persisted saves, and the two backoffs.  The proofs   *)
(* about the components rest on these lemmas and never open Decide or the  *)
(* recursion of a backoff themselves.                                      *)
(***************************************************************************)
EXTENDS Reconcile, Backoff, FiniteSetTheorems, TLAPS

(***************************************************************************)
(* Natural numbers.                                                        *)
(***************************************************************************)

(* A set of natural numbers that is not empty has a least element. *)
LEMMA LeastElement ==
    ASSUME NEW T \in SUBSET Nat, T # {}
    PROVE  \E x \in T : \A y \in T : x <= y
<1>1. IsWellFoundedOn(OpToRel(<, Nat), Nat)
  BY NatLessThanWellFounded, Zenon
<1>2. PICK x \in T : \A y \in T : ~ (<<y, x>> \in OpToRel(<, Nat))
  BY WFMin, <1>1, Zenon
<1>3. \A y \in T : ~ (y < x)
  BY <1>2 DEF OpToRel
<1> QED BY <1>3, SMT

(* Induction, stated of the set of numbers for which the claim holds. *)
LEMMA Induction ==
    ASSUME NEW S, 0 \in S, \A n \in Nat : n \in S => n + 1 \in S
    PROVE  Nat \subseteq S
<1> DEFINE T == {n \in Nat : n \notin S}
<1> SUFFICES ASSUME T # {} PROVE FALSE
  OBVIOUS
<1>1. PICK x \in T : \A y \in T : x <= y
  BY LeastElement
<1>2. x # 0 /\ x - 1 \in Nat
  BY SMT
<1>3. x - 1 \in S
  BY <1>1, <1>2, SMT
<1> QED BY <1>2, <1>3, SMT

(* The powers of two, by which the backoffs are described. *)
LEMMA PowerZero == 2 ^ 0 = 1
OBVIOUS

(* The subsets of 1 .. n + 1 are those of 1 .. n, with n + 1 and without. *)
LEMMA PowerDoubles ==
    ASSUME NEW n \in Nat
    PROVE  2 ^ (n + 1) = 2 * 2 ^ n
<1> DEFINE S == 1 .. n
           A == SUBSET S
           B == {X \cup {n + 1} : X \in A}
           f == [X \in A |-> X \cup {n + 1}]
<1>1. IsFiniteSet(S) /\ Cardinality(S) = n
  BY FS_Interval, SMT
<1>2. IsFiniteSet(1 .. n + 1) /\ Cardinality(1 .. n + 1) = n + 1
  BY FS_Interval, SMT
<1>3. IsFiniteSet(A) /\ Cardinality(A) = 2 ^ n
  BY <1>1, FS_SUBSET, Zenon
<1>4. Cardinality(SUBSET (1 .. n + 1)) = 2 ^ (n + 1)
  BY <1>2, FS_SUBSET, Zenon
<1>5. \A X \in A : n + 1 \notin X
  BY SMT
<1>6. f \in Bijection(A, B)
  <2>1. f \in [A -> B]
    OBVIOUS
  <2>2. \A X, Y \in A : f[X] = f[Y] => X = Y
    BY <1>5
  <2>3. \A Z \in B : \E X \in A : f[X] = Z
    OBVIOUS
  <2> QED BY <2>1, <2>2, <2>3 DEF Bijection, Injection, Surjection, IsInjective
<1>7. ExistsBijection(A, B)
  BY <1>6, Zenon DEF ExistsBijection
<1>8. IsFiniteSet(B) /\ Cardinality(B) = 2 ^ n
  <2> HIDE DEF A, B, f
  <2> QED BY <1>3, <1>7, FS_Bijection, Zenon
<1>9. SUBSET (1 .. n + 1) = A \cup B
  <2>1. 1 .. n + 1 = S \cup {n + 1}
    BY SMT
  <2>2. \A X \in SUBSET (S \cup {n + 1}) : X \in A \cup B
    <3> SUFFICES ASSUME NEW X \in SUBSET (S \cup {n + 1}), n + 1 \in X PROVE X \in B
      BY Zenon
    <3>1. X \ {n + 1} \in A /\ X = (X \ {n + 1}) \cup {n + 1}
      BY Zenon
    <3> QED BY <3>1, Zenon
  <2>3. \A X \in A \cup B : X \in SUBSET (S \cup {n + 1})
    OBVIOUS
  <2> HIDE DEF A, B, S
  <2> QED BY <2>1, <2>2, <2>3, Zenon
<1>10. A \cap B = {}
  BY <1>5
<1>11. Cardinality(A \cup B) = 2 ^ n + 2 ^ n
  <2> HIDE DEF A, B, f
  <2>1. Cardinality(A \cup B) = Cardinality(A) + Cardinality(B) - Cardinality(A \cap B)
    BY <1>3, <1>8, FS_Union, Zenon
  <2>2. Cardinality(A \cap B) = 0
    BY <1>10, FS_EmptySet, Zenon
  <2> QED BY <2>1, <2>2, <1>3, <1>8, SMT
<1>12. 2 ^ (n + 1) = 2 ^ n + 2 ^ n
  <2> HIDE DEF A, B, S
  <2> QED BY <1>4, <1>9, <1>11, Zenon
<1>13. 2 ^ n \in Int
  OBVIOUS
<1> QED BY <1>12, <1>13, SMT

(* They are natural numbers and never zero. *)
LEMMA PowerType ==
    ASSUME NEW n \in Nat
    PROVE  2 ^ n \in Nat \ {0}
<1> DEFINE S == {k \in Nat : 2 ^ k \in Nat \ {0}}
<1>1. 0 \in S
  BY PowerZero, SMT
<1>2. ASSUME NEW k \in Nat, k \in S PROVE k + 1 \in S
  <2>1. 2 ^ (k + 1) = 2 * 2 ^ k
    BY PowerDoubles
  <2>2. 2 ^ k \in Nat \ {0}
    BY <1>2
  <2>3. 2 * 2 ^ k \in Nat \ {0}
    BY <2>2, SMT
  <2> QED BY <2>1, <2>3, SMT
<1>3. Nat \subseteq S
  <2> HIDE DEF S
  <2> QED BY <1>1, <1>2, Induction
<1> QED BY <1>3

(* What doubling n times makes of a delay. *)
Doubled(minimum, n) == minimum * 2 ^ n

(* It starts at the delay itself, and doubles it at every further place. *)
LEMMA DoubledFacts ==
    ASSUME NEW minimum \in Nat \ {0}, NEW n \in Nat
    PROVE  /\ Doubled(minimum, n) \in Nat \ {0}
           /\ Doubled(minimum, 0) = minimum
           /\ Doubled(minimum, n + 1) = 2 * Doubled(minimum, n)
<1>1. 2 ^ n \in Nat \ {0} /\ 2 ^ (n + 1) = 2 * 2 ^ n /\ 2 ^ 0 = 1
  BY PowerType, PowerDoubles, PowerZero
<1> DEFINE p == 2 ^ n
           q == 2 ^ (n + 1)
<1>2. p \in Nat \ {0} /\ q = 2 * p
  BY <1>1
<1>3. minimum * p \in Nat \ {0} /\ minimum * q = 2 * (minimum * p)
  <2> HIDE DEF p, q
  <2> QED BY <1>2, SMT
<1> QED BY <1>1, <1>3, SMT DEF Doubled

(* A delay that is doubled more often is no shorter. *)
LEMMA DoubledGrows ==
    ASSUME NEW minimum \in Nat \ {0}, NEW n \in Nat, NEW m \in 0 .. n
    PROVE  Doubled(minimum, m) <= Doubled(minimum, n)
<1> DEFINE S == {k \in Nat : \A j \in 0 .. k : Doubled(minimum, j) <= Doubled(minimum, k)}
<1>1. 0 \in S
  BY DoubledFacts, SMT
<1>2. ASSUME NEW k \in Nat, k \in S PROVE k + 1 \in S
  <2>1. ASSUME NEW j \in 0 .. k + 1
        PROVE  Doubled(minimum, j) <= Doubled(minimum, k + 1)
    <3>1. /\ Doubled(minimum, k + 1) = 2 * Doubled(minimum, k)
          /\ Doubled(minimum, k) \in Nat \ {0}
      BY DoubledFacts
    <3>2. CASE j = k + 1
      BY <3>1, <3>2, SMT
    <3>3. CASE j \in 0 .. k
      <4>1. Doubled(minimum, j) <= Doubled(minimum, k)
        BY <1>2, <3>3
      <4>2. Doubled(minimum, j) \in Nat
        BY <3>3, DoubledFacts
      <4> QED BY <3>1, <4>1, <4>2, SMT
    <3> QED BY <3>2, <3>3, SMT
  <2> QED BY <2>1, SMT
<1>3. Nat \subseteq S
  <2> HIDE DEF S
  <2> QED BY <1>1, <1>2, Induction
<1> QED BY <1>3

-----------------------------------------------------------------------------
(***************************************************************************)
(* The backoffs: a duration that is doubled by the program never wraps.    *)
(***************************************************************************)

(* Half the values of a duration are negative. *)
LEMMA HalfTheRange ==
    /\ 2 ^ (Width - 1) \in Nat \ {0}
    /\ 2 ^ Width = 2 * 2 ^ (Width - 1)
<1>1. Width - 1 \in Nat /\ (Width - 1) + 1 = Width
  BY BackoffAssumption, SMT
<1>2. 2 ^ ((Width - 1) + 1) = 2 * 2 ^ (Width - 1)
  BY <1>1, PowerDoubles
<1> QED BY <1>1, <1>2, PowerType

(* A duration that fits is kept as it is. *)
LEMMA NoWrap ==
    ASSUME NEW x \in 0 .. MaxDuration
    PROVE  Wrap(x) = x
<1> DEFINE h == 2 ^ (Width - 1)
           w == 2 ^ Width
<1>1. h \in Nat \ {0} /\ w = 2 * h
  BY HalfTheRange
<1>2. x \in 0 .. h - 1
  BY DEF MaxDuration
<1>3. ((x + h) % w) - h = x
  <2> HIDE DEF h, w
  <2>1. (x + h) % (2 * h) = x + h
    BY <1>1, <1>2, SMT
  <2> QED BY <1>1, <1>2, <2>1, SMT
<1> QED BY <1>3 DEF Wrap

(* What a backoff should return: the delay, doubled n times, or the        *)
(* maximum.                                                                *)
Nominal(minimum, maximum, n) ==
    IF maximum < Doubled(minimum, n) THEN maximum ELSE Doubled(minimum, n)

(* One turn of the loops of both backoffs, which double only what is at    *)
(* most half the maximum.                                                  *)
Turned(d, maximum) ==
    IF d >= maximum THEN d ELSE IF d > maximum \div 2 THEN maximum ELSE Double(d)

(* The longest duration. *)
LEMMA MaximumType == MaxDuration \in Nat
<1>1. 2 ^ (Width - 1) \in Nat \ {0}
  BY HalfTheRange
<1> QED BY <1>1, SMT DEF MaxDuration

(* A turn takes one doubled delay to the next one, without wrapping. *)
LEMMA NominalTurns ==
    ASSUME NEW minimum \in Durations, NEW maximum \in Durations, NEW n \in Nat
    PROVE  /\ Nominal(minimum, maximum, n) \in 1 .. maximum
           /\ Nominal(minimum, maximum, n + 1) = Turned(Nominal(minimum, maximum, n), maximum)
<1> DEFINE d == Doubled(minimum, n)
           e == Doubled(minimum, n + 1)
           c == Nominal(minimum, maximum, n)
<1>1. minimum \in Nat \ {0} /\ maximum \in 1 .. MaxDuration /\ MaxDuration \in Nat
  BY MaximumType, SMT DEF Durations
<1>2. d \in Nat \ {0} /\ e = 2 * d
  BY <1>1, DoubledFacts
<1>3. c = (IF maximum < d THEN maximum ELSE d)
  BY DEF Nominal
<1>4. Nominal(minimum, maximum, n + 1) = (IF maximum < e THEN maximum ELSE e)
  BY DEF Nominal
<1> HIDE DEF d, e, c
<1>5. c \in 1 .. maximum
  BY <1>1, <1>2, <1>3, SMT
<1>6. c <= maximum \div 2 => Double(c) = 2 * c
  <2> SUFFICES ASSUME c <= maximum \div 2 PROVE Double(c) = 2 * c
    OBVIOUS
  <2>1. 2 * c \in 0 .. MaxDuration
    BY <1>1, <1>5, SMT
  <2> QED BY <2>1, NoWrap DEF Double
<1>7. Turned(c, maximum) = (IF maximum < e THEN maximum ELSE e)
  BY <1>1, <1>2, <1>3, <1>5, <1>6, SMT DEF Turned
<1> QED BY <1>4, <1>5, <1>7 DEF c

(* A function that turns the delays of the places first .. last one into   *)
(* the next: the shape of the recursive functions in Backoff.              *)
Turns(g, minimum, maximum, first, last) ==
    g = [i \in first .. last |->
            IF i = first THEN minimum
            ELSE LET d == g[i - 1]
                 IN  IF d >= maximum THEN d
                     ELSE IF d > maximum \div 2 THEN maximum ELSE Double(d)]

(* There is one. *)
LEMMA TurnsExist ==
    ASSUME NEW minimum \in Durations, NEW maximum \in Durations, minimum <= maximum,
           NEW first \in Nat, NEW last \in Nat
    PROVE  \E g : Turns(g, minimum, maximum, first, last)
<1> DEFINE closed == [i \in first .. last |-> Nominal(minimum, maximum, i - first)]
<1>1. minimum \in Nat \ {0} /\ maximum \in Nat \ {0}
  BY MaximumType, SMT DEF Durations
<1>2. Nominal(minimum, maximum, 0) = minimum
  BY <1>1, DoubledFacts, SMT DEF Nominal
<1>3. ASSUME NEW i \in first .. last, i # first
      PROVE  closed[i] = Turned(closed[i - 1], maximum)
  <2>1. /\ i - 1 \in first .. last
        /\ (i - 1) - first \in Nat
        /\ ((i - 1) - first) + 1 = i - first
    BY <1>3, SMT
  <2>2. Nominal(minimum, maximum, i - first)
        = Turned(Nominal(minimum, maximum, (i - 1) - first), maximum)
    BY <2>1, NominalTurns
  <2> QED BY <2>1, <2>2
<1>4. \A i \in first .. last :
          closed[i] = IF i = first THEN minimum ELSE Turned(closed[i - 1], maximum)
  <2>1. ASSUME NEW i \in first .. last, i = first PROVE closed[i] = minimum
    BY <1>2, <2>1
  <2> HIDE DEF closed
  <2> QED BY <1>3, <2>1
<1> QED BY <1>4 DEF Turns, Turned

(* And it has doubled the first delay, up to the maximum, at every place. *)
LEMMA TurnsNominal ==
    ASSUME NEW minimum \in Durations, NEW maximum \in Durations, minimum <= maximum,
           NEW first \in Nat, NEW last \in Nat, first <= last,
           NEW g, Turns(g, minimum, maximum, first, last)
    PROVE  g[last] = Nominal(minimum, maximum, last - first)
<1> DEFINE S == {k \in Nat : first + k <= last =>
                                 g[first + k] = Nominal(minimum, maximum, k)}
<1>1. minimum \in Nat \ {0} /\ maximum \in Nat \ {0}
  BY MaximumType, SMT DEF Durations
<1>2. /\ g[first] = minimum
      /\ \A i \in first .. last : i # first => g[i] = Turned(g[i - 1], maximum)
  BY SMT DEF Turns, Turned
<1>3. 0 \in S
  <2>1. Nominal(minimum, maximum, 0) = minimum
    BY <1>1, DoubledFacts, SMT DEF Nominal
  <2> QED BY <1>2, <2>1
<1>4. ASSUME NEW k \in Nat, k \in S PROVE k + 1 \in S
  <2> SUFFICES ASSUME first + (k + 1) <= last
               PROVE  g[first + (k + 1)] = Nominal(minimum, maximum, k + 1)
    OBVIOUS
  <2>1. g[first + k] = Nominal(minimum, maximum, k)
    BY <1>4, SMT
  <2>2. g[first + (k + 1)] = Turned(g[first + k], maximum)
    <3>1. /\ first + (k + 1) \in first .. last
          /\ first + (k + 1) # first
          /\ (first + (k + 1)) - 1 = first + k
      BY SMT
    <3> QED BY <3>1, <1>2
  <2> QED BY <2>1, <2>2, NominalTurns
<1>5. Nat \subseteq S
  <2> HIDE DEF S
  <2> QED BY <1>3, <1>4, Induction
<1>6. last - first \in Nat /\ first + (last - first) = last
  BY SMT
<1> QED BY <1>5, <1>6

(* launch.go, backoff: the loop ends with the first delay, doubled retry   *)
(* times, or the maximum.                                                  *)
LEMMA LaunchBackoffNominal ==
    ASSUME NEW minimum \in Durations, NEW maximum \in Durations, minimum <= maximum,
           NEW retry \in Nat
    PROVE  LaunchBackoff(minimum, maximum, retry) = Nominal(minimum, maximum, retry)
<1> DEFINE turn == CHOOSE g : Turns(g, minimum, maximum, 0, retry)
<1>1. Turns(turn, minimum, maximum, 0, retry)
  <2>1. \E g : Turns(g, minimum, maximum, 0, retry)
    BY TurnsExist
  <2> QED BY <2>1, Zenon
<1>2. LaunchBackoff(minimum, maximum, retry)
      = IF turn[retry] > maximum THEN maximum ELSE turn[retry]
  BY DEF LaunchBackoff, Turns
<1> HIDE DEF turn
<1>3. turn[retry] = Nominal(minimum, maximum, retry)
  <2>1. turn[retry] = Nominal(minimum, maximum, retry - 0)
    BY <1>1, TurnsNominal
  <2> QED BY <2>1
<1>4. maximum \in Nat /\ Nominal(minimum, maximum, retry) \in 1 .. maximum
  BY NominalTurns, MaximumType, SMT DEF Durations
<1> QED BY <1>2, <1>3, <1>4, SMT

(* capacity.go, backoff: the same from the first failed rotation on. *)
LEMMA WatchDelayNominal ==
    ASSUME NEW initial \in Durations, NEW maximum \in Durations, initial <= maximum,
           NEW retry \in Nat \ {0}
    PROVE  /\ WatchDelay(initial, maximum, retry) = Nominal(initial, maximum, retry - 1)
           /\ WatchDelay(initial, maximum, retry) \in 1 .. maximum
<1> DEFINE turn == CHOOSE g : Turns(g, initial, maximum, 1, retry)
<1>1. Turns(turn, initial, maximum, 1, retry)
  <2>1. \E g : Turns(g, initial, maximum, 1, retry)
    BY TurnsExist
  <2> QED BY <2>1, Zenon
<1>2. WatchDelay(initial, maximum, retry) = turn[retry]
  BY DEF WatchDelay, Turns
<1> HIDE DEF turn
<1>3. turn[retry] = Nominal(initial, maximum, retry - 1)
  BY <1>1, TurnsNominal
<1>4. Nominal(initial, maximum, retry - 1) \in 1 .. maximum
  BY NominalTurns
<1> QED BY <1>2, <1>3, <1>4

-----------------------------------------------------------------------------
(***************************************************************************)
(* Reconcile: what Decide returns, and what is saved of it.                *)
(***************************************************************************)

(* Every observation that Decide acts on is an owned one. *)
LEMMA LiveOwnedSubset ==
    ASSUME NEW observed
    PROVE  LiveOwned(observed) \subseteq observed
BY DEF LiveOwned

(* DecideAbsent yields a decision that creates or retries, or a conflict,  *)
(* and says what the local record looked like.                             *)
LEMMA DecideAbsentFacts ==
    ASSUME NEW local \in States, NEW now \in Nat
    PROVE  LET kind == DecideAbsent(local, now)
           IN  /\ kind \in CreateSafe \cup {"Conflict"}
               /\ kind = "RetrySameAttempt" =>
                      /\ local.present
                      /\ local.attempt.token \in Tokens
                      /\ now < local.attempt.validTo
               /\ kind \in CreateKinds =>
                      \/ ~local.present
                      \/ ~HasAttempt(local.attempt)
                      \/ /\ ~IncompleteAttempt(local.attempt)
                         /\ ~(now < local.attempt.validTo)
               /\ kind = "NewAttemptSafe" => local.present
               /\ kind = "Create" => ~local.present
BY ReconcileAssumption
   DEF DecideAbsent, CreateSafe, CreateKinds, States, Attempts, HasAttempt,
       IncompleteAttempt, Retryable, NoAttempt

(* The three ways a decision can be reached. *)
LEMMA DecideCases ==
    ASSUME NEW local \in States, NEW observed, NEW now \in Nat
    PROVE  LET decision == Decide(local, observed, now)
           IN  \/ decision = Decision("Conflict", NoInstance)
               \/ /\ LiveOwned(observed) = {}
                  /\ ~local.present \/ local.target
                  /\ decision = Decision(DecideAbsent(local, now), NoInstance)
               \/ \E o \in LiveOwned(observed) :
                     decision = Decision(DecidePresent(local, o), o.id)
BY DEF Decide

(* A decision that may lead to a launch is only taken when no managed      *)
(* instance was listed, and only by the rules of DecideAbsent.             *)
LEMMA DecideFacts ==
    ASSUME NEW local \in States, NEW observed, NEW now \in Nat
    PROVE  LET decision == Decide(local, observed, now)
           IN  /\ decision.kind \in DecisionKinds
               /\ decision.kind \in CreateSafe =>
                      /\ LiveOwned(observed) = {}
                      /\ ~local.present \/ local.target
                      /\ decision.kind = DecideAbsent(local, now)
               /\ decision.kind \in {"AlreadySatisfied", "ResumeReconcile"} =>
                      \E o \in LiveOwned(observed) : decision.instance = o.id
<1> DEFINE decision == Decide(local, observed, now)
<1>1. DecideAbsent(local, now) \in CreateSafe \cup {"Conflict"}
  BY DecideAbsentFacts
<1>2. CASE decision = Decision("Conflict", NoInstance)
  BY <1>2 DEF Decision, DecisionKinds, CreateSafe, CreateKinds
<1>3. CASE /\ LiveOwned(observed) = {}
           /\ ~local.present \/ local.target
           /\ decision = Decision(DecideAbsent(local, now), NoInstance)
  BY <1>1, <1>3 DEF Decision, DecisionKinds, CreateSafe, CreateKinds
<1>4. CASE \E o \in LiveOwned(observed) :
               decision = Decision(DecidePresent(local, o), o.id)
  BY <1>4 DEF Decision, DecidePresent, DecisionKinds, CreateSafe, CreateKinds
<1> QED
  BY <1>2, <1>3, <1>4, DecideCases

(* What reconcileAndPersist saves, decision by decision. *)
LEMMA PersistedFacts ==
    ASSUME NEW local \in States, NEW decision, NEW fresh \in Attempts,
           decision.kind \in DecisionKinds,
           decision.kind = "AlreadySatisfied" => decision.instance \in Instances
    PROVE  LET saved == Persisted(local, decision, fresh)
           IN  /\ saved \in States
               /\ saved.present
               /\ saved.target = local.target
               /\ saved.attempt = IF decision.kind \in CreateKinds THEN fresh
                                  ELSE local.attempt
               /\ saved.instance = IF decision.kind = "AlreadySatisfied"
                                   THEN decision.instance ELSE local.instance
               /\ saved.lifecycle = IF decision.kind = "AlreadySatisfied" THEN "running"
                                    ELSE IF decision.kind = "Conflict" THEN "failed"
                                    ELSE "provisioning"
BY DEF Persisted, DecisionKinds, CreateSafe, CreateKinds, States, StateLifecycles

(* A fresh attempt is complete and not yet expired. *)
LEMMA NewAttemptFacts ==
    ASSUME NEW token \in Tokens, NEW now \in Nat
    PROVE  LET new == NewAttempt(token, now)
           IN  /\ new \in Attempts
               /\ new.token = token
               /\ new.validTo = now + Validity
               /\ HasAttempt(new)
               /\ ~IncompleteAttempt(new)
               /\ Retryable(new, now)
BY ReconcileAssumption
   DEF NewAttempt, Attempts, HasAttempt, IncompleteAttempt, Retryable, NoAttempt
=============================================================================

---------------------------- MODULE AlgorithmProofs ----------------------------
(***************************************************************************)
(* The parts of OCIHood that compute a value, for every value of their     *)
(* constants: the backoffs for every width of a duration, the              *)
(* configuration for everything that file and flags may say, and the       *)
(* discovery for whatever a compartment may hold.                          *)
(***************************************************************************)
EXTENDS MCBackoff, Configuration, Discovery, OperatorLemmas

LEMMA LeastIsNominal ==
    ASSUME NEW lo, NEW hi \in Nat, NEW n \in Nat, lo \in Nat \ {0}
    PROVE  Least(hi, lo * 2 ^ n) = Nominal(lo, hi, n)
BY DoubledFacts, SMT DEF Least, Nominal, Doubled

(* The launch loop sleeps exactly as long as doubling stays below the      *)
(* maximum.                                                                *)
LEMMA BudgetLeft ==
    ASSUME NEW lo \in Durations, NEW hi \in Durations, lo <= hi, NEW n \in Nat
    PROVE  ~LaunchBudgetSpent(lo, hi, n) <=> Doubled(lo, n) < hi
<1>1. LaunchBackoff(lo, hi, n) = Nominal(lo, hi, n)
  BY LaunchBackoffNominal
<1>2. lo \in Nat \ {0} /\ hi \in Nat
  BY MaximumType, SMT DEF Durations
<1>3. Doubled(lo, n) \in Nat
  BY <1>2, DoubledFacts
<1> QED BY <1>1, <1>2, <1>3, SMT DEF LaunchBudgetSpent, Nominal

(* No maximum of Width bits is reached later than after Width doublings. *)
LEMMA WidthSuffices ==
    ASSUME NEW lo \in Durations, NEW hi \in Durations, NEW n \in Nat, n >= Width
    PROVE  hi <= Doubled(lo, n)
<1>1. lo \in Nat \ {0} /\ Width \in Nat
  BY BackoffAssumption, MaximumType, SMT DEF Durations
<1>2. Doubled(lo, Width) <= Doubled(lo, n)
  <2>1. Width \in 0 .. n
    BY <1>1, SMT
  <2> QED BY <1>1, <2>1, DoubledGrows
<1>3. Doubled(lo, Width) = lo * (2 * 2 ^ (Width - 1))
  BY HalfTheRange DEF Doubled
<1>4. hi < 2 ^ (Width - 1)
  BY HalfTheRange, SMT DEF Durations, MaxDuration
<1> DEFINE h == 2 ^ (Width - 1)
           d == Doubled(lo, Width)
           e == Doubled(lo, n)
<1>5. h \in Nat /\ hi < h /\ d = lo * (2 * h) /\ d <= e /\ hi \in Nat
  BY HalfTheRange, MaximumType, <1>2, <1>3, <1>4, SMT DEF Durations
<1>6. e \in Nat
  BY <1>1, DoubledFacts
<1> HIDE DEF h, d, e
<1>7. lo * (2 * h) >= h
  BY <1>1, <1>5, SMT
<1> QED
  <2>1. hi <= e
    BY <1>5, <1>6, <1>7, SMT
  <2> QED BY <2>1 DEF e

LEMMA LaunchDoublesAlways ==
    ASSUME minimum \in Durations, maximum \in Durations, minimum <= maximum, retry \in Nat
    PROVE  LaunchDoubles
<1> DEFINE slept == {r \in 0 .. retry : ~LaunchBudgetSpent(minimum, maximum, r)}
<1>1. minimum \in Nat \ {0} /\ maximum \in Nat
  BY MaximumType, SMT DEF Durations
<1>2. slept = {r \in 0 .. retry : Doubled(minimum, r) < maximum}
  BY BudgetLeft
<1> HIDE DEF slept
<1>3. LaunchBackoff(minimum, maximum, retry) = Least(maximum, minimum * 2 ^ retry)
  <2>1. LaunchBackoff(minimum, maximum, retry) = Nominal(minimum, maximum, retry)
    BY LaunchBackoffNominal
  <2>2. Least(maximum, minimum * 2 ^ retry) = Nominal(minimum, maximum, retry)
    BY <1>1, LeastIsNominal
  <2> QED BY <2>1, <2>2
<1>4. ASSUME NEW r \in slept PROVE 0 .. r \subseteq slept
  <2>1. r \in 0 .. retry /\ Doubled(minimum, r) < maximum
    BY <1>2
  <2>2. ASSUME NEW q \in 0 .. r PROVE q \in slept
    <3>1. Doubled(minimum, q) <= Doubled(minimum, r)
      BY <1>1, <2>1, DoubledGrows
    <3>2. Doubled(minimum, q) \in Nat /\ Doubled(minimum, r) \in Nat
      <4>1. q \in Nat /\ r \in Nat
        BY <2>1, SMT
      <4> QED BY <1>1, <4>1, DoubledFacts
    <3>3. Doubled(minimum, q) < maximum
      BY <1>1, <2>1, <3>1, <3>2, SMT
    <3>4. q \in 0 .. retry
      BY <2>1, SMT
    <3> QED BY <1>2, <3>3, <3>4
  <2> QED BY <2>2
<1>5. retry >= Width => retry \notin slept
  <2> SUFFICES ASSUME retry >= Width, retry \in slept PROVE FALSE
    OBVIOUS
  <2>1. maximum <= Doubled(minimum, retry) /\ Doubled(minimum, retry) < maximum
    BY <1>2, WidthSuffices
  <2>2. Doubled(minimum, retry) \in Nat
    BY <1>1, DoubledFacts
  <2> QED BY <1>1, <2>1, <2>2, SMT
<1>6. ASSUME NEW r \in slept PROVE minimum * (2 ^ (r + 1) - 1) < 2 * maximum
  <2>1. r \in Nat /\ Doubled(minimum, r) < maximum
    BY <1>2
  <2> DEFINE p == 2 ^ r
             q == 2 ^ (r + 1)
  <2>2. p \in Nat /\ q = 2 * p /\ minimum * p < maximum
    BY <2>1, PowerDoubles, PowerType DEF Doubled
  <2> HIDE DEF p, q
  <2>3. minimum * (2 * p - 1) = 2 * (minimum * p) - minimum
    BY <1>1, <2>2, SMT
  <2>4. minimum * p \in Nat
    BY <1>1, <2>2, SMT
  <2>5. minimum * (q - 1) < 2 * maximum
    BY <1>1, <2>2, <2>3, <2>4, SMT
  <2> QED BY <2>5 DEF q
<1> QED BY <1>3, <1>4, <1>5, <1>6 DEF LaunchDoubles, slept

LEMMA WatchDoublesAlways ==
    ASSUME minimum \in Durations, maximum \in Durations, minimum <= maximum, retry \in Nat
    PROVE  WatchDoubles
<1> SUFFICES ASSUME retry > 0 PROVE WatchDoubles
  BY DEF WatchDoubles
<1> DEFINE nominal == Least(maximum, minimum * 2 ^ (retry - 1))
<1>1. minimum \in Nat \ {0} /\ maximum \in Nat /\ retry - 1 \in Nat
  BY MaximumType, SMT DEF Durations
<1>2. nominal = Nominal(minimum, maximum, retry - 1)
  BY <1>1, LeastIsNominal
<1>3. WatchDelay(minimum, maximum, retry) = nominal /\ nominal \in 1 .. maximum
  BY <1>2, WatchDelayNominal
<1> HIDE DEF nominal
<1>4. ASSUME NEW d \in Jittered(nominal, maximum, Jitter)
      PROVE  /\ d <= maximum
             /\ \/ /\ 100 * (d + 1) > nominal * (100 - Jitter)
                   /\ 100 * d <= nominal * (100 + Jitter)
                \/ /\ d < 0
                   /\ nominal * (100 + Jitter) >= 100 * (MaxDuration + 1)
  <2> DEFINE least == nominal * (100 - Jitter)
             most == nominal * (100 + Jitter)
  <2>1. least \in Nat /\ most \in Nat /\ least <= 100 * nominal /\ nominal \in Nat
    <3>1. 100 - Jitter \in 0 .. 100 /\ 100 + Jitter \in 100 .. 200 /\ nominal \in Nat
      BY JitterAssumption, <1>1, <1>3, SMT
    <3> QED BY <3>1, SMT
  <2>2. PICK x \in (least \div 100) .. (most \div 100) : \E y \in Converted(x) :
             d = IF y > maximum THEN maximum ELSE y
    BY DEF Jittered
  <2>3. PICK y \in Converted(x) : d = IF y > maximum THEN maximum ELSE y
    BY <2>2
  <2> HIDE DEF least, most
  <2>4. x \in Int /\ 100 * (x + 1) > least /\ 100 * x <= most
    BY <2>1, <2>2, SMT
  <2>5. maximum <= MaxDuration /\ MaxDuration \in Nat
    BY MaximumType, SMT DEF Durations
  <2>6. \/ y = x
        \/ x > MaxDuration /\ y = MaxDuration
        \/ x > MaxDuration /\ y = -MaxDuration - 1
    BY <2>4, <2>5 DEF Converted
  <2>7. /\ d <= maximum
        /\ \/ 100 * (d + 1) > least /\ 100 * d <= most
           \/ d < 0 /\ most >= 100 * (MaxDuration + 1)
    BY <1>1, <1>3, <2>1, <2>3, <2>4, <2>5, <2>6, SMT
  <2> QED BY <2>7 DEF least, most
<1> QED BY <1>3, <1>4 DEF WatchDoubles, nominal

(* README, "exponential backoff from retry_min through retry_max": both    *)
(* backoffs double between their bounds, for durations of any width and    *)
(* however many retries: no doubling wraps around, the delays slept before *)
(* the launch budget is spent are those below the maximum, and they add up *)
(* to less than twice the maximum.  The watch may do without a wait, but   *)
(* only if the delay and its jitter together exceed the longest duration.  *)
THEOREM BackoffsAlwaysDouble == Spec => []BackoffsDouble
<1> DEFINE Bounds == /\ minimum \in Durations /\ maximum \in Durations
                     /\ minimum <= maximum /\ retry \in Nat
<1>1. Init => Bounds
  BY DEF Init
<1>2. Bounds /\ [Next]_<<minimum, maximum, retry>> => Bounds'
  BY DEF Next
<1>3. Bounds => BackoffsDouble
  BY LaunchDoublesAlways, WatchDoublesAlways DEF BackoffsDouble
<1> QED BY <1>1, <1>2, <1>3, PTL DEF Spec

-----------------------------------------------------------------------------
(***************************************************************************)
(* The configuration.  The invariant says, of each step of the way, which  *)
(* layers have been checked and what the result is composed of; that an    *)
(* accepted configuration is usable follows from it, setting by setting.   *)
(***************************************************************************)

\* A setting is that of the most specific layer that has it.
Setting(f) == IF flags[f] # Unset THEN flags[f]
              ELSE IF account.overrides[f] # Unset THEN account.overrides[f]
              ELSE IF defaults[f] # Unset THEN defaults[f]
              ELSE BuiltIn[f]

\* What ApplyOverrides makes of the file.
Merged == [f \in Settings \cup AccountFields |->
              CASE flags[f] # Unset -> flags[f]
                [] f \in AccountFields /\ Displaced(f) -> ""
                [] OTHER -> Resolved[f]]

\* How far the layers have been checked, and what they have been composed to.
Composed ==
    /\ \A f \in Quantities :
          {defaults[f], account.overrides[f], flags[f]} \subseteq Int \cup {Unset}
    /\ step \in {"flags", "policy", "accepted"} =>
          ValidSettings(defaults) /\ ValidSettings(account.overrides)
    /\ step = "flags" => effective = Resolved
    /\ step \in {"policy", "accepted"} =>
          /\ effective = Merged
          /\ ValidSettings(flags)
          /\ RetryOrdered(effective)
    /\ step = "accepted" => ValidInput(effective) /\ Allowed(effective)

(* No setting has the name of a field of the account.                      *)
LEMMA SettingNames ==
    Settings = {"request_timeout", "retry_min", "retry_max", "state_dir", "log_dir",
                "shape", "ocpus", "memory_gb", "boot_volume_gb", "public_ip",
                "allowed_shapes", "max_ocpus", "max_memory_gb", "max_boot_volume_gb",
                "allow_exceed", "enabled", "telegram_chat_id", "telegram_token_env",
                "failures", "half_open_requests", "interval", "open_timeout"}
BY DEF Settings, BuiltIn

LEMMA SettingsAlone == Settings \cap AccountFields = {}
BY SettingNames DEF AccountFields

(* A configuration is composed step by step.                               *)
LEMMA ComposedInit == ConfigurationInit => Composed
BY ConfigurationAssumption DEF ConfigurationInit, Composed

LEMMA ComposedStep == Composed /\ [ConfigurationNext]_configurationVars => Composed'
<1> SUFFICES ASSUME Composed, [ConfigurationNext]_configurationVars PROVE Composed'
  OBVIOUS
<1>1. CASE Load
  <2>1. UNCHANGED <<defaults, account, flags>> /\ step = "load"
    BY <1>1 DEF Load, Advance
  <2>2. CASE ValidFile
    <3>1. step' = "flags" /\ effective' = Resolved /\ Resolved' = Resolved
      BY <1>1, <2>1, <2>2 DEF Load, Advance, Resolved
    <3>2. ValidSettings(defaults) /\ ValidSettings(account.overrides)
      BY <2>2 DEF ValidFile
    <3> QED BY <2>1, <3>1, <3>2 DEF Composed
  <2>3. CASE ~ValidFile
    BY <1>1, <2>1, <2>3 DEF Load, Advance, Composed
  <2> QED BY <2>2, <2>3
<1>2. CASE ApplyOverrides
  <2>1. UNCHANGED <<defaults, account, flags>> /\ step = "flags"
    BY <1>2 DEF ApplyOverrides, Advance
  <2>2. CASE step' = "refused"
    BY <2>1, <2>2 DEF Composed
  <2>3. CASE step' # "refused"
    <3>1. /\ step' = "policy" /\ effective' = Overridden
          /\ ValidSettings(flags) /\ RetryOrdered(Overridden)
      BY <1>2, <2>3 DEF ApplyOverrides, Advance
    <3>2. effective = Resolved /\ DOMAIN Resolved = Settings \cup AccountFields
      BY <2>1 DEF Composed, Resolved
    <3>3. Overridden = Merged
      BY <3>2 DEF Overridden, Merged
    <3>4. Merged' = Merged
      BY <2>1 DEF Merged, Resolved, Displaced
    <3> QED BY <2>1, <3>1, <3>3, <3>4 DEF Composed
  <2> QED BY <2>2, <2>3
<1>3. CASE Judge
  <2>1. UNCHANGED <<defaults, account, flags>> /\ step = "policy" /\ Merged' = Merged
    BY <1>3 DEF Judge, Advance, Merged, Resolved, Displaced
  <2>2. CASE step' = "refused"
    BY <2>1, <2>2 DEF Composed
  <2>3. CASE step' # "refused"
    <3>1. /\ step' = "accepted" /\ effective' = effective
          /\ ValidInput(effective) /\ Allowed(effective)
      BY <1>3, <2>3 DEF Judge, Advance
    <3> QED BY <2>1, <3>1 DEF Composed
  <2> QED BY <2>2, <2>3
<1>4. CASE UNCHANGED configurationVars
  <2>1. UNCHANGED <<defaults, account, flags, step, effective>>
    BY <1>4 DEF configurationVars
  <2>2. Resolved' = Resolved /\ Merged' = Merged
    BY <2>1 DEF Merged, Resolved, Displaced
  <2> QED BY <2>1, <2>2 DEF Composed
<1> QED BY <1>1, <1>2, <1>3, <1>4 DEF ConfigurationNext

(* Layer over layer, what remains is the most specific one.                *)
LEMMA SettingMerged ==
    ASSUME NEW f \in Settings
    PROVE  Merged[f] = Setting(f)
<1>1. f \notin AccountFields
  BY SettingsAlone
<1>2. Resolved[f] = Apply(Apply(BuiltIn, defaults), account.overrides)[f]
  BY DEF Resolved
<1>3. DOMAIN Apply(BuiltIn, defaults) = Settings
  BY DEF Apply, Settings
<1>4. Apply(BuiltIn, defaults)[f] = IF defaults[f] # Unset THEN defaults[f] ELSE BuiltIn[f]
  BY DEF Apply, Settings
<1>5. Apply(Apply(BuiltIn, defaults), account.overrides)[f]
        = IF account.overrides[f] # Unset THEN account.overrides[f]
          ELSE Apply(BuiltIn, defaults)[f]
  BY <1>3 DEF Apply
<1> QED BY <1>1, <1>2, <1>4, <1>5 DEF Merged, Setting

LEMMA SettingMostSpecific ==
    ASSUME NEW f \in Settings
    PROVE  MostSpecific(f) = Setting(f)
<1> DEFINE layers == <<flags, account.overrides, defaults, BuiltIn>>
           sets   == {i \in 1 .. 4 : layers[i][f] # Unset}
           first  == CHOOSE i \in sets : \A j \in sets : i <= j
<1>1. 4 \in sets /\ sets \subseteq 1 .. 4
  BY ConfigurationAssumption
<1>2. 1 \in sets <=> flags[f] # Unset
  OBVIOUS
<1>3. 2 \in sets <=> account.overrides[f] # Unset
  OBVIOUS
<1>4. 3 \in sets <=> defaults[f] # Unset
  OBVIOUS
<1>5. MostSpecific(f) = layers[first][f]
  BY DEF MostSpecific
<1>6. layers[1] = flags /\ layers[2] = account.overrides /\ layers[3] = defaults /\ layers[4] = BuiltIn
  OBVIOUS
<1> HIDE DEF layers, sets
<1>7. \E i \in sets : \A j \in sets : i <= j
  BY <1>1
<1>8. first \in sets /\ \A j \in sets : first <= j
  BY <1>7
<1> HIDE DEF first
<1>9. first = IF 1 \in sets THEN 1 ELSE IF 2 \in sets THEN 2 ELSE IF 3 \in sets THEN 3 ELSE 4
  BY <1>1, <1>8
<1> QED BY <1>2, <1>3, <1>4, <1>5, <1>6, <1>9 DEF Setting

(* What the built-in defaults and every valid layer have in common.        *)
LEMMA BuiltInValid ==
    /\ ValidCircuit(BuiltIn)
    /\ \A f \in Positive : BuiltIn[f] > 0
    /\ \A f \in Quantities : BuiltIn[f] \in Int
<1>1. /\ BuiltIn.request_timeout = 30 /\ BuiltIn.retry_min = 30 /\ BuiltIn.retry_max = 900
      /\ BuiltIn.ocpus = 2 /\ BuiltIn.max_ocpus = 2
      /\ BuiltIn.memory_gb = 12 /\ BuiltIn.max_memory_gb = 12
      /\ BuiltIn.boot_volume_gb = 50 /\ BuiltIn.max_boot_volume_gb = 50
      /\ BuiltIn.failures = 5 /\ BuiltIn.half_open_requests = 1
      /\ BuiltIn.interval = 300 /\ BuiltIn.open_timeout = 60
  BY DEF BuiltIn
<1>2. \A f \in Positive : BuiltIn[f] > 0
  BY <1>1 DEF Positive
<1>3. \A f \in Quantities : BuiltIn[f] \in Int
  BY <1>1 DEF Quantities
<1>4. InRange(BuiltIn, "failures", 100)
  BY <1>1, SMT DEF InRange
<1>5. InRange(BuiltIn, "half_open_requests", 10)
  BY <1>1, SMT DEF InRange
<1>6. InRange(BuiltIn, "interval", Day)
  <2>1. Hour \in Nat /\ Hour >= 300
    BY SMT DEF Hour
  <2>2. 300 \in 1 .. Day
    BY <2>1, SMT DEF Day
  <2> QED BY <1>1, <2>2 DEF InRange
<1>7. InRange(BuiltIn, "open_timeout", Hour)
  BY <1>1, SMT DEF InRange, Hour
<1> QED BY <1>2, <1>3, <1>4, <1>5, <1>6, <1>7 DEF ValidCircuit

(* The result is in the ranges that every layer was checked for.           *)
LEMMA SettingFacts ==
    ASSUME Composed, step = "accepted"
    PROVE  /\ \A f \in Positive : effective[f] > 0
           /\ CircuitAccepts(effective)
           /\ \A f \in Quantities : effective[f] \in Int
           /\ \A f \in Settings : effective[f] = Setting(f)
<1>1. /\ ValidSettings(defaults) /\ ValidSettings(account.overrides) /\ ValidSettings(flags)
      /\ effective = Merged
  BY DEF Composed
<1>2. \A f \in Settings : effective[f] = Setting(f)
  BY <1>1, SettingMerged
<1>3. Positive \subseteq Settings /\ Quantities \subseteq Settings
  BY SettingNames DEF Positive, Quantities
<1>4. \A s \in {defaults, account.overrides, flags} :
          ValidCircuit(s) /\ \A f \in Positive : s[f] # Unset => s[f] > 0
  BY <1>1 DEF ValidSettings, Given
<1>5. \A f \in Positive : effective[f] > 0
  BY <1>2, <1>3, <1>4, BuiltInValid DEF Setting
<1>6. ASSUME NEW f \in Settings, NEW top,
             \A s \in {defaults, account.overrides, flags, BuiltIn} : InRange(s, f, top)
      PROVE  effective[f] \in 1 .. top
  BY <1>2, <1>6, ConfigurationAssumption DEF Setting, InRange, Given
<1>7. /\ effective["failures"] \in 1 .. 100 /\ effective["half_open_requests"] \in 1 .. 10
      /\ effective["interval"] \in 1 .. Day /\ effective["open_timeout"] \in 1 .. Hour
  <2>1. {"failures", "half_open_requests", "interval", "open_timeout"} \subseteq Settings
    BY SettingNames
  <2>2. \A s \in {defaults, account.overrides, flags, BuiltIn} :
            /\ InRange(s, "failures", 100) /\ InRange(s, "half_open_requests", 10)
            /\ InRange(s, "interval", Day) /\ InRange(s, "open_timeout", Hour)
    <3> SUFFICES ASSUME NEW s \in {defaults, account.overrides, flags, BuiltIn}
                 PROVE  ValidCircuit(s)
      BY Zenon DEF ValidCircuit
    <3> QED BY <1>4, BuiltInValid, Zenon
  <2>3. effective["failures"] \in 1 .. 100
    BY <1>6, <2>1, <2>2, Zenon
  <2>4. effective["half_open_requests"] \in 1 .. 10
    BY <1>6, <2>1, <2>2, Zenon
  <2>5. effective["interval"] \in 1 .. Day
    BY <1>6, <2>1, <2>2, Zenon
  <2>6. effective["open_timeout"] \in 1 .. Hour
    BY <1>6, <2>1, <2>2, Zenon
  <2> QED BY <2>3, <2>4, <2>5, <2>6
<1>8. \A f \in Quantities : effective[f] \in Int
  <2> SUFFICES ASSUME NEW f \in Quantities PROVE effective[f] \in Int
    OBVIOUS
  <2>1. BuiltIn[f] \in Int
    BY BuiltInValid
  <2>2. {defaults[f], account.overrides[f], flags[f]} \subseteq Int \cup {Unset}
    BY DEF Composed
  <2>3. effective[f] = Setting(f)
    BY <1>2, <1>3
  <2> QED BY <2>1, <2>2, <2>3, Zenon DEF Setting
<1> QED BY <1>2, <1>5, <1>7, <1>8 DEF CircuitAccepts

(* The policy has judged what is launched.                                 *)
LEMMA JudgedAsLaunched ==
    ASSUME Composed, step = "accepted", ~effective.allow_exceed, NEW f \in Limited
    PROVE  effective[f] <= effective[Limit(f)]
<1>1. Violations(Judged(effective)) = {}
  BY DEF Composed, Allowed
<1>2. f \in Positive /\ Limit(f) \in Positive /\ f \in Quantities /\ Limit(f) \in Quantities
  BY DEF Positive, Limited, Limit, Quantities
<1>3. /\ effective[f] > 0 /\ effective[Limit(f)] > 0
      /\ effective[f] \in Int /\ effective[Limit(f)] \in Int
  BY <1>2, SettingFacts
<1>4. Zero(f) = 0 /\ Zero(Limit(f)) = 0
  BY DEF Limited, Limit, Zero
<1>5. Judged(effective)[f] = effective[f]
  BY <1>3, <1>4 DEF Judged
<1>6. Judged(effective)[Limit(f)] = effective[Limit(f)]
  BY <1>3, <1>4 DEF Judged
<1>7. ~(effective[f] > effective[Limit(f)])
  BY <1>1, <1>5, <1>6 DEF Violations
<1> QED BY <1>3, <1>7

(* A network that a flag names owes nothing to the account.                *)
LEMMA NetworkAsFlagged ==
    ASSUME Composed, step = "accepted", NEW pair \in Pairs,
           NEW i \in {1, 2}, flags[pair[i]] # Unset, NEW j \in {1, 2}
    PROVE  effective[pair[j]] \in {flags[pair[j]], ""}
<1>1. effective = Merged
  BY DEF Composed
<1>2. pair[j] \in AccountFields
  BY DEF Pairs, AccountFields
<1>3. flags[pair[j]] = Unset => Displaced(pair[j])
  BY DEF Displaced
<1> QED BY <1>1, <1>2, <1>3 DEF Merged

(* The requirements of the later components, one after the other.          *)
LEMMA ComposedUsable == Composed => AcceptedIsUsable
<1> SUFFICES ASSUME Composed, step = "accepted"
             PROVE  /\ WatcherAccepts(effective) /\ LaunchAccepts(effective)
                    /\ CircuitAccepts(effective)
                    /\ \A f \in Settings : effective[f] = MostSpecific(f)
                    /\ \A pair \in Pairs : (\E i \in {1, 2} : flags[pair[i]] # Unset) =>
                          \A i \in {1, 2} : effective[pair[i]] \in {flags[pair[i]], ""}
                    /\ effective.allow_exceed
                       \/ \A f \in Limited : effective[f] <= effective[Limit(f)]
  BY DEF AcceptedIsUsable
<1>1. \A f \in Positive : effective[f] > 0
  BY SettingFacts
<1>2. /\ effective.request_timeout > 0 /\ effective.retry_min > 0
      /\ effective.ocpus > 0 /\ effective.memory_gb > 0
  BY <1>1 DEF Positive
<1>3. effective.retry_max >= effective.retry_min
  BY DEF Composed, RetryOrdered
<1>4. effective.shape # ""
  BY DEF Composed, ValidInput, Blank
<1>5. WatcherAccepts(effective) /\ LaunchAccepts(effective)
  BY <1>2, <1>3, <1>4 DEF WatcherAccepts, LaunchAccepts
<1>6. CircuitAccepts(effective)
  BY SettingFacts
<1>7. \A f \in Settings : effective[f] = MostSpecific(f)
  BY SettingFacts, SettingMostSpecific
<1> QED BY <1>5, <1>6, <1>7, JudgedAsLaunched, NetworkAsFlagged

(* Whatever file and flags say: a configuration that is not refused at     *)
(* once is refused by no later component, is that of the most specific     *)
(* layers, and has been judged by the policy as it is launched.            *)
THEOREM AcceptedAlwaysUsable == ConfigurationSpec => []AcceptedIsUsable
BY ComposedInit, ComposedStep, ComposedUsable, PTL DEF ConfigurationSpec

-----------------------------------------------------------------------------
(* Discovery.                                                              *)

\* A listing without repetitions of members of a set.
Distinct(s, S) == /\ s \in Seq(S)
                  /\ \A i, j \in 1 .. Len(s) : s[i] = s[j] => i = j

LEMMA SetOfListing ==
    ASSUME NEW S, NEW s \in Seq(S)
    PROVE  /\ DOMAIN s = 1 .. Len(s) /\ Len(s) \in Nat
           /\ \A x : x \in ToSet(s) <=> \E i \in 1 .. Len(s) : s[i] = x
           /\ ToSet(s) \subseteq S
<1>1. DOMAIN s = 1 .. Len(s) /\ Len(s) \in Nat
  OBVIOUS
<1>2. \A i \in 1 .. Len(s) : s[i] \in S
  OBVIOUS
<1> QED BY <1>1, <1>2 DEF ToSet

(* The enumerations of a finite set contain each member once. *)
LEMMA Enumerations ==
    ASSUME NEW S, IsFiniteSet(S), NEW s \in SetToSeqs(S)
    PROVE  Distinct(s, S) /\ ToSet(s) = S
<1> DEFINE n == Cardinality(S)
           D == 1 .. n
<1>1. n \in Nat
  BY FS_CardinalityType
<1>2. s \in [D -> S] /\ \A i, j \in D : i # j => s[i] # s[j]
  BY DEF SetToSeqs
<1>3. IsFiniteSet(D) /\ Cardinality(D) = n
  <2>1. 1 \in Int /\ n \in Int
    BY <1>1, SMT
  <2>2. IsFiniteSet(D) /\ Cardinality(D) = IF 1 > n THEN 0 ELSE n - 1 + 1
    BY <2>1, FS_Interval
  <2>3. (IF 1 > n THEN 0 ELSE n - 1 + 1) = n
    BY <1>1, SMT
  <2> QED BY <2>2, <2>3
<1>4. s \in Injection(D, S)
  BY <1>2 DEF Injection, IsInjective
<1>5. s \in Surjection(D, S)
  <2> HIDE DEF D
  <2> QED BY <1>3, <1>4, FS_Injection
<1>6. \A x \in S : \E i \in D : s[i] = x
  BY <1>5 DEF Surjection
<1>7. s \in Seq(S) /\ Len(s) = n
  <2> HIDE DEF n
  <2> QED BY <1>1, <1>2
<1>8. ToSet(s) = S
  BY <1>2, <1>6 DEF ToSet
<1>9. Distinct(s, S)
  BY <1>2, <1>7 DEF Distinct
<1> QED BY <1>8, <1>9

(* Another page. *)
LEMMA PageAppended ==
    ASSUME NEW S, NEW s, Distinct(s, S), NEW T, T \subseteq S \ ToSet(s),
           NEW items, Distinct(items, T), ToSet(items) = T
    PROVE  Distinct(s \o items, S) /\ ToSet(s \o items) = ToSet(s) \cup T
<1> SUFFICES ASSUME NEW r, r = s \o items
             PROVE  Distinct(r, S) /\ ToSet(r) = ToSet(s) \cup T
  OBVIOUS
<1>1. /\ s \in Seq(S) /\ items \in Seq(T) /\ items \in Seq(S)
      /\ Len(s) \in Nat /\ Len(items) \in Nat
  <2>1. s \in Seq(S) /\ items \in Seq(T) /\ T \subseteq S
    BY DEF Distinct
  <2>2. \A i \in 1 .. Len(items) : items[i] \in S
    BY <2>1
  <2>3. items \in Seq(S)
    BY <2>1, <2>2
  <2> QED BY <2>1, <2>3
<1>2. /\ r \in Seq(S) /\ Len(r) = Len(s) + Len(items)
      /\ \A i \in 1 .. Len(s) + Len(items) :
            r[i] = IF i <= Len(s) THEN s[i] ELSE items[i - Len(s)]
  BY <1>1
<1>3. ASSUME NEW i \in 1 .. Len(s) + Len(items)
      PROVE  \/ i \in 1 .. Len(s)
             \/ i - Len(s) \in 1 .. Len(items) /\ ~(i <= Len(s))
  BY <1>1, SMT
<1>4. \A i \in 1 .. Len(s) : /\ s[i] \in ToSet(s) /\ i <= Len(s)
                             /\ i \in 1 .. Len(s) + Len(items) /\ r[i] = s[i]
  BY <1>1, <1>2, SetOfListing, SMT
<1>5. \A k \in 1 .. Len(items) : /\ items[k] \in T
                                 /\ k + Len(s) \in 1 .. Len(s) + Len(items)
                                 /\ r[k + Len(s)] = items[k]
  <2> TAKE k \in 1 .. Len(items)
  <2>1. k + Len(s) \in 1 .. Len(s) + Len(items) /\ ~(k + Len(s) <= Len(s))
        /\ (k + Len(s)) - Len(s) = k
    BY <1>1, SMT
  <2> QED BY <1>1, <1>2, <2>1
<1>6. ASSUME NEW i \in 1 .. Len(r), NEW j \in 1 .. Len(r), r[i] = r[j] PROVE i = j
  <2>1. CASE i \in 1 .. Len(s) /\ j \in 1 .. Len(s)
    BY <1>4, <1>6, <2>1 DEF Distinct
  <2>2. CASE i - Len(s) \in 1 .. Len(items) /\ j - Len(s) \in 1 .. Len(items)
             /\ ~(i <= Len(s)) /\ ~(j <= Len(s))
    <3>1. items[i - Len(s)] = items[j - Len(s)]
      BY <1>2, <1>6, <2>2
    <3>2. i - Len(s) = j - Len(s)
      BY <2>2, <3>1 DEF Distinct
    <3> QED BY <1>1, <1>2, <3>2, SMT
  <2>3. CASE /\ i \in 1 .. Len(s) /\ j - Len(s) \in 1 .. Len(items) /\ ~(j <= Len(s))
    BY <1>2, <1>4, <1>5, <1>6, <2>3
  <2>4. CASE /\ j \in 1 .. Len(s) /\ i - Len(s) \in 1 .. Len(items) /\ ~(i <= Len(s))
    BY <1>2, <1>4, <1>5, <1>6, <2>4
  <2> QED BY <1>2, <1>3, <2>1, <2>2, <2>3, <2>4
<1>7. ToSet(r) = ToSet(s) \cup T
  <2>1. /\ \A x : x \in ToSet(r) <=> \E i \in 1 .. Len(r) : r[i] = x
        /\ \A x : x \in ToSet(s) <=> \E i \in 1 .. Len(s) : s[i] = x
        /\ \A x : x \in ToSet(items) <=> \E i \in 1 .. Len(items) : items[i] = x
    BY <1>1, <1>2, SetOfListing
  <2>2. ASSUME NEW x \in ToSet(r) PROVE x \in ToSet(s) \cup T
    <3>1. PICK i \in 1 .. Len(s) + Len(items) : x = r[i]
      BY <1>2, <2>1
    <3>2. CASE i \in 1 .. Len(s)
      BY <1>4, <3>1, <3>2
    <3>3. CASE i - Len(s) \in 1 .. Len(items) /\ ~(i <= Len(s))
      BY <1>2, <1>5, <3>1, <3>3
    <3> QED BY <1>3, <3>2, <3>3
  <2>3. ASSUME NEW x \in ToSet(s) PROVE x \in ToSet(r)
    BY <1>2, <1>4, <2>1
  <2>4. ASSUME NEW x \in T PROVE x \in ToSet(r)
    BY <1>2, <1>5, <2>1
  <2> QED BY <2>2, <2>3, <2>4
<1> QED BY <1>2, <1>6, <1>7 DEF Distinct

LEMMA MinFacts ==
    ASSUME NEW T \in SUBSET Nat, T # {}
    PROVE  Min(T) \in T /\ \A y \in T : Min(T) <= y
<1>1. \E x \in T : \A y \in T : x <= y
  BY LeastElement
<1> QED BY <1>1 DEF Min

(* A search finds the first place that passes the test, or 0. *)
LEMMA FirstPlace ==
    ASSUME NEW n \in Nat, NEW I \in SUBSET (1 .. n),
           NEW place, place = IF I # {} THEN Min(I) ELSE 0
    PROVE  \/ place = 0 /\ I = {}
           \/ place # 0 /\ place \in I /\ \A i \in I : place <= i
<1>1. I \in SUBSET Nat /\ 0 \notin I
  BY SMT
<1>2. CASE I = {}
  BY <1>2
<1>3. CASE I # {}
  <2>1. Min(I) \in I /\ \A y \in I : Min(I) <= y
    BY <1>1, <1>3, MinFacts
  <2> QED BY <1>1, <1>3, <2>1
<1> QED BY <1>2, <1>3

-----------------------------------------------------------------------------
\* What has been read of a listing is part of it, and nothing twice.
Reads == stage \in Lists => Distinct(got, Offered)

\* What has been selected so far is what the inventory determines.
Selected ==
    /\ inventory \in Inventories
    /\ stage \in Lists \cup {"domains"}
    /\ picked = [image |-> picked.image, vcn |-> picked.vcn, subnet |-> picked.subnet,
                 instances |-> picked.instances]
    /\ stage \in {"vcns", "subnets", "instances"} => {x.id : x \in Meant} = {picked.image}
    /\ stage \in {"subnets", "instances"} => {x.id : x \in Fitting("vcns")} = {picked.vcn}
    /\ stage = "instances" => {x.id : x \in Within(picked.vcn)} = {picked.subnet}
    /\ outcome = "found" => stage = "instances" /\ picked.instances = inventory.instances

Discovered == Reads /\ Selected /\ AsInventoried

LEMMA OfferedFinite ==
    ASSUME Selected, stage \in Lists
    PROVE  IsFiniteSet(Offered)
<1>1. inventory \in Inventories
  BY DEF Selected
<1>2. IsFiniteSet(inventory[stage])
  BY <1>1, DiscoveryAssumption
<1>3. CASE stage = "subnets"
  <2>1. Offered \in SUBSET inventory["subnets"]
    BY <1>3 DEF Offered
  <2>2. IsFiniteSet(inventory["subnets"])
    BY <1>2, <1>3
  <2> QED BY <2>1, <2>2, FS_Subset
<1>4. CASE stage # "subnets"
  BY <1>2, <1>4 DEF Offered
<1> QED BY <1>3, <1>4

(* Pages of any size, in any order. *)
LEMMA PagesAdd ==
    ASSUME Reads, Selected, stage \in Lists, NEW T \in SUBSET Rest, NEW items \in SetToSeqs(T)
    PROVE  Distinct(got \o items, Offered) /\ ToSet(got \o items) = ToSet(got) \cup T
<1>1. Distinct(got, Offered) /\ T \subseteq Offered \ ToSet(got)
  BY DEF Reads, Rest
<1>2. IsFiniteSet(T)
  BY <1>1, OfferedFinite, FS_Subset
<1>3. Distinct(items, T) /\ ToSet(items) = T
  BY <1>2, Enumerations
<1> QED BY <1>1, <1>3, PageAppended

(* A listing that has been read to its end has everything in it once. *)
LEMMA CompletedFacts ==
    ASSUME Reads, Selected, stage \in Lists, NEW read \in Completed
    PROVE  Distinct(read, Offered) /\ ToSet(read) = Offered
<1>1. PICK items \in SetToSeqs(Rest) : read = got \o items
  BY DEF Completed
<1>2. /\ Distinct(got \o items, Offered)
      /\ ToSet(got \o items) = ToSet(got) \cup Rest
  BY PagesAdd
<1>3. ToSet(got) \subseteq Offered
  BY SetOfListing DEF Reads, Distinct
<1> QED BY <1>1, <1>2, <1>3 DEF Rest

(* What one makes of the places of the candidates. *)
LEMMA OneFacts ==
    ASSUME NEW S, NEW read, Distinct(read, S),
           NEW places \in SUBSET (1 .. Len(read)),
           NEW candidates, \A x : x \in candidates <=> \E i \in places : read[i] = x
    PROVE  /\ places = {} => candidates = {}
           /\ (\E i, j \in places : i # j) => \E x, y \in candidates : x # y
           /\ \A i \in places : ~(\E k, j \in places : k # j) => candidates = {read[i]}
<1>1. ASSUME NEW i \in places, NEW j \in places, i # j
      PROVE  \E x, y \in candidates : x # y
  <2>1. read[i] \in candidates /\ read[j] \in candidates
    OBVIOUS
  <2>2. read[i] # read[j]
    BY <1>1 DEF Distinct
  <2> QED BY <2>1, <2>2
<1>2. ASSUME NEW i \in places, ~(\E k, j \in places : k # j)
      PROVE  candidates = {read[i]}
  BY <1>2
<1>3. places = {} => candidates = {}
  OBVIOUS
<1> QED BY <1>1, <1>2, <1>3

(* After a selection, unless it has failed, another listing is begun. *)
LEMMA NothingRead == \A S : Distinct(<< >>, S)
BY DEF Distinct

(* Newest first, then by id: the first place of the highest version is the  *)
(* image that the inventory determines.                                     *)
LEMMA SelectImageFacts ==
    ASSUME Selected, NEW read, Distinct(read, inventory.images), ToSet(read) = inventory.images,
           NEW images \in NewestFirst(read)
    PROVE  /\ Distinct(images, inventory.images)
           /\ \/ SelectImage(images) = 0 /\ Meant = {}
              \/ /\ SelectImage(images) \in 1 .. Len(images)
                 /\ SelectImage(images) # 0
                 /\ Meant = {images[SelectImage(images)]}
<1> DEFINE held == inventory.images
           place == SelectImage(images)
<1>1. /\ IsFiniteSet(held) /\ held \subseteq Images
      /\ \A x, y \in held : x.id = y.id => x = y
  <2>1. inventory \in Inventories
    BY DEF Selected
  <2>2. IsFiniteSet(inventory["images"])
    BY <2>1, DiscoveryAssumption DEF Lists
  <2> QED BY <2>1, <2>2, DiscoveryAssumption
<1>2. Distinct(images, held) /\ ToSet(images) = held
  <2>1. images \in SetToSeqs(held)
    BY DEF NewestFirst
  <2> QED BY <1>1, <2>1, Enumerations
<1>3. /\ Len(images) \in Nat /\ DOMAIN images = 1 .. Len(images)
      /\ \A x : x \in held <=> \E i \in 1 .. Len(images) : images[i] = x
  BY <1>2, SetOfListing DEF Distinct
<1>4. \A i, j \in 1 .. Len(images) : i < j => ~Before(images[j], images[i])
  BY <1>3 DEF NewestFirst
<1>5. \A x \in held : x.id \in Nat /\ x.version \in Nat /\ x.created \in Nat
  BY <1>1 DEF Images
<1> DEFINE n == Len(images)
<1> HIDE DEF held
<1>6. CASE imageID = Alias
  <2> DEFINE I == {i \in 1 .. n : /\ images[i].version > 0
                                  /\ \A y \in ToSet(images) : y.version <= images[i].version}
  <2>1. place = IF I # {} THEN Min(I) ELSE 0
    BY <1>6 DEF SelectImage, SelectInSeq
  <2>2. \A i \in 1 .. n : i \in I <=> /\ images[i].version > 0
                                       /\ \A y \in held : y.version <= images[i].version
    BY <1>2
  <2>3. \/ place = 0 /\ I = {}
        \/ place # 0 /\ place \in I /\ \A i \in I : place <= i
    <3>1. I \in SUBSET (1 .. n)
      OBVIOUS
    <3> HIDE DEF I, place
    <3> QED BY <1>3, <2>1, <3>1, FirstPlace
  <2>4. I \subseteq 1 .. n
    OBVIOUS
  <2> DEFINE ubuntu == {x \in held : x.version > 0}
             latest == {x \in ubuntu : \A y \in ubuntu : y.version <= x.version}
             newest == {x \in latest : \A y \in latest : y.created <= x.created}
             first  == {x \in newest : \A y \in newest : x.id <= y.id}
  <2>5. Meant = first
    BY <1>6 DEF Meant, Newest, held
  <2>6. \A i \in 1 .. n : i \in I <=> images[i] \in latest
    <3> SUFFICES ASSUME NEW i \in 1 .. n
                 PROVE  /\ images[i].version > 0
                        /\ \A y \in held : y.version <= images[i].version
                        <=> images[i] \in latest
      BY <2>2
    <3>1. images[i] \in held
      BY <1>3
    <3>2. ASSUME images[i] \in latest, NEW y \in held PROVE y.version <= images[i].version
      <4>1. CASE y.version > 0
        BY <3>2, <4>1
      <4>2. CASE ~(y.version > 0)
        BY <1>5, <3>1, <4>2, SMT
      <4> QED BY <4>1, <4>2
    <3> QED BY <3>1, <3>2
  <2>7. \A x \in latest : \E i \in I : images[i] = x
    BY <1>3, <2>6
  <2>8. \A x \in latest : x \in held
    OBVIOUS
  <2>9. CASE place = 0 /\ I = {}
    <3>1. latest = {}
      BY <2>7, <2>9
    <3> HIDE DEF latest
    <3>2. newest = {}
      BY <3>1
    <3> HIDE DEF newest
    <3>3. Meant = {}
      BY <2>5, <3>2
    <3> QED BY <1>2, <2>9, <3>3 DEF held
  <2>10. CASE place # 0 /\ place \in I /\ \A i \in I : place <= i
    <3> DEFINE x == images[place]
    <3>1. place \in 1 .. n /\ x \in latest
      BY <2>4, <2>6, <2>10
    <3> HIDE DEF I, latest, place
    <3>2. ASSUME NEW y \in latest PROVE y = x \/ ~Before(y, x)
      <4>1. PICK j \in I : images[j] = y
        BY <2>7
      <4>2. place = j \/ place < j
        <5>1. place <= j /\ j \in 1 .. n
          BY <2>4, <2>10
        <5> QED BY <1>3, <3>1, <5>1, SMT
      <4>3. j \in 1 .. n
        BY <2>4
      <4> QED BY <1>4, <3>1, <4>1, <4>2, <4>3
    <3>3. ASSUME NEW y \in latest
          PROVE  y.created <= x.created /\ (y.created = x.created => x.id <= y.id)
      <4>1. /\ y.created \in Nat /\ x.created \in Nat /\ y.id \in Nat /\ x.id \in Nat
        BY <1>5, <2>8, <3>1
      <4>2. CASE y = x
        BY <4>1, <4>2, SMT
      <4>3. CASE ~Before(y, x)
        BY <4>1, <4>3, SMT DEF Before
      <4> QED BY <3>2, <4>2, <4>3
    <3>4. x \in newest
      BY <3>1, <3>3
    <3>5. \A y \in newest : y \in latest /\ x.created <= y.created
      BY <3>1
    <3>6. ASSUME NEW y \in newest PROVE y.created = x.created /\ x.id <= y.id
      <4>1. /\ y.created \in Nat /\ x.created \in Nat
        BY <1>5, <2>8, <3>1, <3>5
      <4>2. y.created = x.created
        BY <3>3, <3>5, <4>1, SMT
      <4> QED BY <3>3, <3>5, <4>2
    <3> HIDE DEF x, newest
    <3>7. x \in first
      BY <3>4, <3>6
    <3>8. ASSUME NEW z \in first PROVE z = x
      <4>1. z \in newest /\ z.id <= x.id
        BY <3>4
      <4>2. z \in held /\ x \in held
        BY <2>8, <3>1, <3>5, <4>1
      <4>3. z.id = x.id
        BY <1>5, <3>6, <4>1, <4>2, SMT
      <4> QED BY <1>1, <4>2, <4>3 DEF held
    <3>9. Meant = {x}
      <4> HIDE DEF first
      <4> QED BY <2>5, <3>7, <3>8
    <3> QED BY <1>2, <2>10, <3>1, <3>9 DEF x, held, place
  <2> QED BY <2>3, <2>9, <2>10
<1>7. CASE imageID # Alias
  <2> DEFINE I == {i \in 1 .. n : images[i].id = imageID /\ images[i].usable}
  <2>1. place = IF I # {} THEN Min(I) ELSE 0
    BY <1>7 DEF SelectImage, SelectInSeq
  <2>2. \/ place = 0 /\ I = {}
        \/ place # 0 /\ place \in I /\ \A i \in I : place <= i
    <3>1. I \in SUBSET (1 .. n)
      OBVIOUS
    <3> HIDE DEF I, place
    <3> QED BY <1>3, <2>1, <3>1, FirstPlace
  <2>3. Meant = {x \in held : x.id = imageID /\ x.usable}
    BY <1>7 DEF Meant, held
  <2>4. CASE place = 0 /\ I = {}
    <3>1. Meant = {}
      BY <1>3, <2>3, <2>4
    <3> QED BY <1>2, <2>4, <3>1 DEF held
  <2>5. CASE place # 0 /\ place \in I
    <3> HIDE DEF place
    <3>1. place \in 1 .. n /\ images[place] \in held /\ images[place] \in Meant
      BY <1>3, <2>3, <2>5
    <3>2. \A z \in Meant : z = images[place]
      BY <1>1, <2>3, <3>1 DEF held
    <3>3. Meant = {images[place]}
      BY <3>1, <3>2
    <3> QED BY <1>2, <2>5, <3>1, <3>3 DEF held, place
  <2> QED BY <2>2, <2>4, <2>5
<1> QED BY <1>6, <1>7

-----------------------------------------------------------------------------
(* A failure that the inventory explains, or that has nothing to do with it. *)
LEMMA EndsKeeps ==
    ASSUME Discovered, UNCHANGED <<inventory, imageID>>,
           NEW kind, Ends(kind), kind # "found",
           kind = "not_found" => Sought = {},
           kind = "ambiguous" => \E x, y \in Sought : x # y
    PROVE  Discovered'
<1>1. UNCHANGED <<inventory, imageID, stage, got, picked>> /\ outcome' = kind
  BY DEF Ends
<1>2. Meant' = Meant /\ Sought' = Sought /\ Offered' = Offered
  BY <1>1 DEF Meant, Newest, Sought, Fitting, Within, Offered
<1>3. Reads'
  BY <1>1, <1>2 DEF Discovered, Reads
<1>4. Selected'
  BY <1>1, <1>2 DEF Discovered, Selected, Fitting, Within
<1>5. AsInventoried'
  BY <1>1, <1>2 DEF AsInventoried
<1> QED BY <1>3, <1>4, <1>5 DEF Discovered

(* The next listing starts over. *)
LEMMA ContinueKeeps ==
    ASSUME outcome = "running", NEW next, Continue(next), Selected'
    PROVE  Discovered'
<1>1. got' = << >> /\ outcome' = "running"
  BY DEF Continue
<1>2. Reads'
  BY <1>1, NothingRead DEF Reads
<1>3. AsInventoried'
  BY <1>1 DEF AsInventoried
<1> QED BY <1>2, <1>3 DEF Discovered

(* one selects the only candidate of the inventory, or fails as it must. *)
LEMMA OneSelects ==
    ASSUME Discovered, outcome = "running", UNCHANGED <<inventory, imageID>>,
           NEW S, NEW read, Distinct(read, S),
           NEW places \in SUBSET (1 .. Len(read)),
           \A x : x \in Sought <=> \E i \in places : read[i] = x,
           NEW field, NEW next, One(read, places, field, next)
    PROVE  \/ Discovered'
           \/ \E id : /\ {x.id : x \in Sought} = {id}
                      /\ picked' = [picked EXCEPT ![field] = id]
                      /\ Continue(next)
<1>1. /\ places = {} => Sought = {}
      /\ (\E i, j \in places : i # j) => \E x, y \in Sought : x # y
      /\ \A i \in places : ~(\E k, j \in places : k # j) => Sought = {read[i]}
  BY OneFacts
<1>2. CASE places = {}
  <2>1. Ends("not_found")
    BY <1>2 DEF One
  <2> QED BY <1>1, <1>2, <2>1, EndsKeeps
<1>3. CASE places # {} /\ \E i, j \in places : i # j
  <2>1. Ends("ambiguous")
    BY <1>3 DEF One
  <2> QED BY <1>1, <1>3, <2>1, EndsKeeps
<1>4. CASE places # {} /\ ~(\E i, j \in places : i # j)
  <2>1. /\ \E i \in places : picked' = [picked EXCEPT ![field] = read[i].id]
        /\ Continue(next)
    BY <1>4 DEF One
  <2>2. PICK i \in places : picked' = [picked EXCEPT ![field] = read[i].id]
    BY <2>1
  <2>3. Sought = {read[i]}
    BY <1>1, <1>4
  <2>4. {x.id : x \in Sought} = {read[i].id}
    BY <2>3
  <2> QED BY <2>1, <2>2, <2>4
<1> QED BY <1>2, <1>3, <1>4

LEMMA Paging ==
    ASSUME Discovered, NextPage, UNCHANGED <<inventory, imageID>>
    PROVE  Discovered'
<1>1. /\ outcome = "running" /\ stage \in Lists /\ UNCHANGED <<stage, picked, outcome>>
  BY DEF NextPage
<1>2. PICK items \in SetToAllKPermutations(Rest) : got' = got \o items
  BY DEF NextPage
<1>3. PICK T \in SUBSET Rest : items \in SetToSeqs(T)
  BY <1>2 DEF SetToAllKPermutations
<1>4. Distinct(got', Offered)
  BY <1>1, <1>2, <1>3, PagesAdd DEF Discovered
<1>5. Offered' = Offered /\ Meant' = Meant
  BY <1>1 DEF Offered, Meant, Newest
<1>6. Reads'
  BY <1>4, <1>5 DEF Reads
<1>7. Selected'
  BY <1>1, <1>5 DEF Discovered, Selected, Fitting, Within
<1>8. AsInventoried'
  BY <1>1 DEF AsInventoried
<1> QED BY <1>6, <1>7, <1>8 DEF Discovered

LEMMA Failing ==
    ASSUME Discovered, RepeatedPage \/ RequestFails, UNCHANGED <<inventory, imageID>>
    PROVE  Discovered'
<1>1. PICK kind \in {"provider", "canceled"} : Ends(kind)
  BY DEF RepeatedPage, RequestFails
<1> QED BY <1>1, EndsKeeps

LEMMA DomainsListed ==
    ASSUME Discovered, DomainsRead, UNCHANGED <<inventory, imageID>>
    PROVE  Discovered'
<1>1. stage = "domains" /\ outcome = "running"
  BY DEF DomainsRead, Running
<1>2. CASE inventory.domains = {} /\ Ends("not_found")
  <2>1. Sought = {}
    BY <1>1, <1>2 DEF Sought
  <2> QED BY <1>2, <2>1, EndsKeeps
<1>3. CASE Continue("shapes") /\ UNCHANGED picked
  <2>1. Selected'
    BY <1>1, <1>3 DEF Discovered, Selected, Continue, Lists
  <2> QED BY <1>1, <1>3, <2>1, ContinueKeeps
<1> QED BY <1>2, <1>3 DEF DomainsRead

LEMMA ListingRead ==
    ASSUME Discovered, stage \in Lists, NEW read \in Completed
    PROVE  /\ Distinct(read, Offered)
           /\ ToSet(read) = Offered
           /\ DOMAIN read = 1 .. Len(read)
           /\ \A x : x \in Offered <=> \E i \in 1 .. Len(read) : read[i] = x
<1>1. Distinct(read, Offered) /\ ToSet(read) = Offered
  BY CompletedFacts DEF Discovered
<1> QED BY <1>1, SetOfListing DEF Distinct

LEMMA ShapesListed ==
    ASSUME Discovered, ShapesRead, UNCHANGED <<inventory, imageID>>
    PROVE  Discovered'
<1>1. stage = "shapes" /\ outcome = "running" /\ stage \in Lists
  BY DEF ShapesRead, Running, Lists
<1>2. PICK read \in Completed :
           LET places == Fits(read)
           IN  CASE places = {} -> Ends("not_found")
                 [] \E i, j \in places : i # j -> Ends("ambiguous")
                 [] OTHER -> IF \E i \in places : read[i].architecture
                             THEN Continue("images") /\ UNCHANGED picked
                             ELSE Ends("provider")
  BY DEF ShapesRead
<1> DEFINE places == Fits(read)
<1>3. /\ Distinct(read, Offered) /\ DOMAIN read = 1 .. Len(read)
      /\ \A x : x \in Offered <=> \E i \in 1 .. Len(read) : read[i] = x
  BY <1>1, ListingRead
<1>4. \A i : i \in places <=> i \in 1 .. Len(read) /\ read[i].fits
  BY <1>3 DEF Fits
<1>5. \A x : x \in Sought <=> x \in Offered /\ x.fits
  BY <1>1 DEF Sought, Fitting, Offered
<1> HIDE DEF places
<1>6. /\ places = {} => Sought = {}
      /\ (\E i, j \in places : i # j) => \E x, y \in Sought : x # y
  <2>1. \A x : x \in Sought <=> \E i \in places : read[i] = x
    BY <1>3, <1>4, <1>5
  <2>2. places \in SUBSET (1 .. Len(read))
    BY <1>4
  <2>3. Distinct(read, Offered)
    BY <1>3
  <2>4. /\ places = {} => Sought = {}
        /\ (\E i, j \in places : i # j) => \E x, y \in Sought : x # y
        /\ \A i \in places : ~(\E k, j \in places : k # j) => Sought = {read[i]}
    BY <2>1, <2>2, <2>3, OneFacts
  <2> QED BY <2>4
<1>7. \/ places = {} /\ Ends("not_found")
      \/ (\E i, j \in places : i # j) /\ Ends("ambiguous")
      \/ Ends("provider")
      \/ Continue("images") /\ UNCHANGED picked
  BY <1>2 DEF places
<1>8. CASE Continue("images") /\ UNCHANGED picked
  <2>1. Selected'
    BY <1>1, <1>8 DEF Discovered, Selected, Continue, Lists
  <2> QED BY <1>1, <1>8, <2>1, ContinueKeeps
<1> QED BY <1>6, <1>7, <1>8, EndsKeeps

LEMMA ImagesListed ==
    ASSUME Discovered, ImagesRead, UNCHANGED <<inventory, imageID>>
    PROVE  Discovered'
<1>1. stage = "images" /\ outcome = "running" /\ stage \in Lists
  BY DEF ImagesRead, Running, Lists
<1>2. PICK read \in Completed : \E images \in NewestFirst(read) :
           One(images, {SelectImage(images)} \ {0}, "image", "vcns")
  BY DEF ImagesRead
<1>3. PICK images \in NewestFirst(read) :
           One(images, {SelectImage(images)} \ {0}, "image", "vcns")
  BY <1>2
<1>4. Distinct(read, inventory.images) /\ ToSet(read) = inventory.images
  <2>1. Offered = inventory.images
    BY <1>1 DEF Offered
  <2> QED BY <1>1, <2>1, ListingRead
<1> DEFINE place  == SelectImage(images)
           places == {place} \ {0}
<1>5. /\ Distinct(images, inventory.images)
      /\ \/ place = 0 /\ Meant = {}
         \/ place \in 1 .. Len(images) /\ place # 0 /\ Meant = {images[place]}
  BY <1>4, SelectImageFacts DEF Discovered
<1>6. Sought = Meant
  BY <1>1 DEF Sought
<1>7. One(images, places, "image", "vcns")
  BY <1>3
<1> HIDE DEF place
<1>8. /\ places \in SUBSET (1 .. Len(images))
      /\ \A x : x \in Sought <=> \E i \in places : images[i] = x
  <2>1. CASE place = 0 /\ Meant = {}
    BY <1>6, <2>1
  <2>2. CASE place \in 1 .. Len(images) /\ place # 0 /\ Meant = {images[place]}
    BY <1>6, <2>2
  <2> QED BY <1>5, <2>1, <2>2
<1> HIDE DEF places
<1>9. CASE \E id : /\ {x.id : x \in Sought} = {id}
                   /\ picked' = [picked EXCEPT !["image"] = id]
                   /\ Continue("vcns")
  <2>1. PICK id : /\ {x.id : x \in Sought} = {id}
                  /\ picked' = [picked EXCEPT !["image"] = id]
                  /\ Continue("vcns")
    BY <1>9
  <2>2. Meant' = Meant
    BY DEF Meant, Newest
  <2>3. {x.id : x \in Meant'} = {id}
    BY <1>6, <2>1, <2>2
  <2>4. picked' = [image |-> id, vcn |-> picked.vcn, subnet |-> picked.subnet,
                   instances |-> picked.instances]
    BY <2>1 DEF Discovered, Selected
  <2>5. stage' = "vcns" /\ outcome' = "running"
    BY <1>1, <2>1 DEF Continue
  <2>6. Selected'
    BY <2>3, <2>4, <2>5 DEF Discovered, Selected, Lists
  <2> QED BY <1>1, <2>1, <2>6, ContinueKeeps
<1> QED BY <1>1, <1>5, <1>7, <1>8, <1>9, OneSelects

LEMMA VCNsListed ==
    ASSUME Discovered, VCNsRead, UNCHANGED <<inventory, imageID>>
    PROVE  Discovered'
<1>1. stage = "vcns" /\ outcome = "running" /\ stage \in Lists
  BY DEF VCNsRead, Running, Lists
<1>2. PICK read \in Completed : One(read, Fits(read), "vcn", "subnets")
  BY DEF VCNsRead
<1> DEFINE places == Fits(read)
<1>3. /\ Distinct(read, Offered) /\ DOMAIN read = 1 .. Len(read)
      /\ \A x : x \in Offered <=> \E i \in 1 .. Len(read) : read[i] = x
  BY <1>1, ListingRead
<1>4. \A i : i \in places <=> i \in 1 .. Len(read) /\ read[i].fits
  BY <1>3 DEF Fits
<1>5. /\ Sought = Fitting("vcns")
      /\ \A x : x \in Sought <=> x \in Offered /\ x.fits
  BY <1>1 DEF Sought, Fitting, Offered
<1>6. One(read, places, "vcn", "subnets")
  BY <1>2
<1> HIDE DEF places
<1>7. /\ places \in SUBSET (1 .. Len(read))
      /\ \A x : x \in Sought <=> \E i \in places : read[i] = x
  BY <1>3, <1>4, <1>5
<1>8. CASE \E id : /\ {x.id : x \in Sought} = {id}
                   /\ picked' = [picked EXCEPT !["vcn"] = id]
                   /\ Continue("subnets")
  <2>1. PICK id : /\ {x.id : x \in Sought} = {id}
                  /\ picked' = [picked EXCEPT !["vcn"] = id]
                  /\ Continue("subnets")
    BY <1>8
  <2>2. Meant' = Meant /\ {x.id : x \in Fitting("vcns")}' = {x.id : x \in Fitting("vcns")}
    BY DEF Meant, Newest, Fitting
  <2>3. {x.id : x \in Fitting("vcns")} = {id}
    BY <1>5, <2>1
  <2>4. picked' = [image |-> picked.image, vcn |-> id, subnet |-> picked.subnet,
                   instances |-> picked.instances]
    BY <2>1 DEF Discovered, Selected
  <2>5. stage' = "subnets" /\ outcome' = "running"
    BY <1>1, <2>1 DEF Continue
  <2>6. {x.id : x \in Meant} = {picked.image}
    BY <1>1 DEF Discovered, Selected
  <2>7. Selected'
    BY <2>2, <2>3, <2>4, <2>5, <2>6 DEF Discovered, Selected, Lists
  <2> QED BY <1>1, <2>1, <2>7, ContinueKeeps
<1> QED BY <1>1, <1>3, <1>6, <1>7, <1>8, OneSelects

LEMMA SubnetsListed ==
    ASSUME Discovered, SubnetsRead, UNCHANGED <<inventory, imageID>>
    PROVE  Discovered'
<1>1. stage = "subnets" /\ outcome = "running" /\ stage \in Lists
  BY DEF SubnetsRead, Running, Lists
<1>2. PICK read \in Completed : One(read, OfVCN(read), "subnet", "instances")
  BY DEF SubnetsRead
<1> DEFINE places == OfVCN(read)
<1>3. /\ Distinct(read, Offered) /\ DOMAIN read = 1 .. Len(read)
      /\ \A x : x \in Offered <=> \E i \in 1 .. Len(read) : read[i] = x
  BY <1>1, ListingRead
<1>4. \A i : i \in places <=> /\ i \in 1 .. Len(read)
                              /\ read[i].fits /\ read[i].vcn = picked.vcn
  BY <1>3 DEF Fits, OfVCN
<1>5. /\ Sought = Within(picked.vcn)
      /\ \A x : x \in Sought <=> x \in Offered /\ x.fits /\ x.vcn = picked.vcn
  BY <1>1 DEF Sought, Within, Fitting, Offered
<1>6. One(read, places, "subnet", "instances")
  BY <1>2
<1> HIDE DEF places
<1>7. /\ places \in SUBSET (1 .. Len(read))
      /\ \A x : x \in Sought <=> \E i \in places : read[i] = x
  BY <1>3, <1>4, <1>5
<1>8. CASE \E id : /\ {x.id : x \in Sought} = {id}
                   /\ picked' = [picked EXCEPT !["subnet"] = id]
                   /\ Continue("instances")
  <2>1. PICK id : /\ {x.id : x \in Sought} = {id}
                  /\ picked' = [picked EXCEPT !["subnet"] = id]
                  /\ Continue("instances")
    BY <1>8
  <2>2. picked' = [image |-> picked.image, vcn |-> picked.vcn, subnet |-> id,
                   instances |-> picked.instances]
    BY <2>1 DEF Discovered, Selected
  <2>3. stage' = "instances" /\ outcome' = "running"
    BY <1>1, <2>1 DEF Continue
  <2>4. /\ Meant' = Meant /\ {x.id : x \in Fitting("vcns")}' = {x.id : x \in Fitting("vcns")}
        /\ {x.id : x \in Within(picked.vcn)}' = {x.id : x \in Within(picked.vcn)}
    BY <2>2 DEF Meant, Newest, Fitting, Within
  <2>5. {x.id : x \in Within(picked.vcn)} = {id}
    BY <1>5, <2>1
  <2>6. /\ {x.id : x \in Meant} = {picked.image}
        /\ {x.id : x \in Fitting("vcns")} = {picked.vcn}
    BY <1>1 DEF Discovered, Selected
  <2>7. Selected'
    BY <2>2, <2>3, <2>4, <2>5, <2>6 DEF Discovered, Selected, Lists
  <2> QED BY <1>1, <2>1, <2>7, ContinueKeeps
<1> QED BY <1>1, <1>3, <1>6, <1>7, <1>8, OneSelects

LEMMA InstancesListed ==
    ASSUME Discovered, InstancesRead, UNCHANGED <<inventory, imageID>>
    PROVE  Discovered'
<1>1. stage = "instances" /\ outcome = "running" /\ stage \in Lists
  BY DEF InstancesRead, Running, Lists
<1>2. PICK read \in Completed : picked' = [picked EXCEPT !.instances = ToSet(read)]
  BY DEF InstancesRead
<1>3. /\ outcome' = "found" /\ UNCHANGED <<stage, page, got, seen>>
  BY DEF InstancesRead
<1>4. ToSet(read) = inventory.instances
  <2>1. Offered = inventory.instances
    BY <1>1 DEF Offered
  <2> QED BY <1>1, <2>1, ListingRead
<1>5. picked' = [image |-> picked.image, vcn |-> picked.vcn, subnet |-> picked.subnet,
                 instances |-> inventory.instances]
  BY <1>2, <1>4 DEF Discovered, Selected
<1>6. /\ Meant' = Meant /\ {x.id : x \in Fitting("vcns")}' = {x.id : x \in Fitting("vcns")}
      /\ {x.id : x \in Within(picked.vcn)}' = {x.id : x \in Within(picked.vcn)}
      /\ Offered' = Offered
  BY <1>1, <1>3, <1>5 DEF Meant, Newest, Fitting, Within, Offered
<1>7. Selected'
  BY <1>1, <1>3, <1>5, <1>6 DEF Discovered, Selected
<1>8. Reads'
  BY <1>3, <1>6 DEF Discovered, Reads
<1>9. AsInventoried'
  BY <1>3, <1>7, <1>1 DEF AsInventoried, Selected
<1> QED BY <1>7, <1>8, <1>9 DEF Discovered

(* discovery.go:1, "deterministically resolves": whatever a compartment     *)
(* holds, and however its listings are cut into pages and ordered, what is  *)
(* selected is what the compartment determines, and a selection fails only  *)
(* if there is no candidate or more than one.                               *)
THEOREM ResolvesAsInventoried == DiscoverySpec => []AsInventoried
<1>1. DiscoveryInit => Discovered
  <2> SUFFICES ASSUME DiscoveryInit PROVE Discovered
    OBVIOUS
  <2>1. /\ inventory \in Inventories /\ stage = "domains" /\ outcome = "running"
        /\ picked = [image |-> 0, vcn |-> 0, subnet |-> 0, instances |-> {}]
    BY DEF DiscoveryInit
  <2>2. Reads /\ AsInventoried
    BY <2>1 DEF Reads, Lists, AsInventoried
  <2>3. Selected
    BY <2>1 DEF Selected
  <2> QED BY <2>2, <2>3 DEF Discovered
<1>2. Discovered /\ [DiscoveryNext]_discoveryVars => Discovered'
  <2> SUFFICES ASSUME Discovered, [DiscoveryNext]_discoveryVars PROVE Discovered'
    OBVIOUS
  <2>1. CASE DiscoveryNext
    <3>1. UNCHANGED <<inventory, imageID>>
      BY <2>1 DEF DiscoveryNext
    <3>2. \/ NextPage \/ RepeatedPage \/ RequestFails
          \/ DomainsRead \/ ShapesRead \/ ImagesRead
          \/ VCNsRead \/ SubnetsRead \/ InstancesRead
      BY <2>1 DEF DiscoveryNext, Select
    <3> QED BY <3>1, <3>2, Paging, Failing, DomainsListed, ShapesListed, ImagesListed,
               VCNsListed, SubnetsListed, InstancesListed
  <2>2. CASE UNCHANGED discoveryVars
    <3>1. UNCHANGED <<inventory, imageID, stage, got, picked, outcome>>
      BY <2>2 DEF discoveryVars
    <3> QED BY <3>1 DEF Discovered, Reads, Selected, AsInventoried, Offered, Sought,
                        Meant, Newest, Fitting, Within
  <2> QED BY <2>1, <2>2
<1>3. Discovered => AsInventoried
  BY DEF Discovered
<1> QED BY <1>1, <1>2, <1>3, PTL DEF DiscoverySpec
=============================================================================

----------------------------- MODULE Configuration -----------------------------
(***************************************************************************)
(* How the configuration of a run comes about (internal/config/config.go,  *)
(* cli.startValues.overrides, app.Runner.resolve): built-in defaults, the  *)
(* file's defaults, the account's overrides and the flags, one applied     *)
(* over the other and validated in between; and what the components that   *)
(* are handed the result require of it.                                    *)
(*                                                                         *)
(* A layer maps every setting to a value or to Unset (a nil pointer).      *)
(* Durations are in seconds.  The paths, the profile and the region of an  *)
(* account go the way of its image_id.                                     *)
(***************************************************************************)
EXTENDS Integers, Sequences

CONSTANTS Unset,
          Cases    \* what file and flags may say: records of the four variables below

\* Booleans, numbers and texts; "A1" stands for the default shape.
BuiltIn == [request_timeout |-> 30, retry_min |-> 30, retry_max |-> 900,
            state_dir |-> "state", log_dir |-> "log",
            shape |-> "A1", ocpus |-> 2, memory_gb |-> 12, boot_volume_gb |-> 50,
            public_ip |-> TRUE,
            allowed_shapes |-> <<"A1">>, max_ocpus |-> 2, max_memory_gb |-> 12,
            max_boot_volume_gb |-> 50, allow_exceed |-> FALSE,
            enabled |-> FALSE, telegram_chat_id |-> "", telegram_token_env |-> "",
            failures |-> 5, half_open_requests |-> 1, interval |-> 300, open_timeout |-> 60]

Settings == DOMAIN BuiltIn
NoSettings == [f \in Settings |-> Unset]

\* The sizes of an instance and their limits are numbers in every layer.
Quantities == {"ocpus", "max_ocpus", "memory_gb", "max_memory_gb",
          "boot_volume_gb", "max_boot_volume_gb"}

ASSUME ConfigurationAssumption ==
    /\ \A f \in Settings : BuiltIn[f] # Unset
    /\ \A k \in Cases : \A f \in Quantities :
          {k.defaults[f], k.account.overrides[f], k.flags[f]} \subseteq Int \cup {Unset}

\* What an account names besides, empty if it does not.
AccountFields == {"compartment_id", "image_id", "vcn_id", "vcn_name", "subnet_id", "subnet_name"}
Pairs == {<<"vcn_id", "vcn_name">>, <<"subnet_id", "subnet_name">>}

VARIABLES defaults,   \* File.Defaults
          account,    \* the account's fields, and its overrides
          flags,      \* Overrides: settings and account fields given as flags
          step,       \* how far the configuration has come
          effective   \* config.Effective

configurationVars == <<defaults, account, flags, step, effective>>

Nothing == [f \in Settings \cup AccountFields |-> Unset]

ConfigurationInit ==
    /\ \E k \in Cases : defaults = k.defaults /\ account = k.account /\ flags = k.flags
    /\ step = "load"
    /\ effective = Nothing

-----------------------------------------------------------------------------
\* apply
Apply(e, s) == [f \in DOMAIN e |-> IF f \in Settings /\ s[f] # Unset THEN s[f] ELSE e[f]]

Blank(text) == text \in {"", " "}

(* validateSettings.                                                       *)

Hour == 3600
Day  == 24 * Hour

Given(s, f) == s[f] # Unset
InRange(s, f, top) == Given(s, f) => s[f] \in 1 .. top

ValidCircuit(s) == /\ InRange(s, "failures", 100) /\ InRange(s, "half_open_requests", 10)
                   /\ InRange(s, "interval", Day) /\ InRange(s, "open_timeout", Hour)

Positive == {"request_timeout", "retry_min", "retry_max", "ocpus", "memory_gb",
             "boot_volume_gb", "max_ocpus", "max_memory_gb", "max_boot_volume_gb"}

ValidTexts(s) ==
    /\ \A f \in {"telegram_chat_id", "telegram_token_env"} : Given(s, f) => ~Blank(s[f])
    /\ \A f \in {"shape", "state_dir", "log_dir"} : Given(s, f) => s[f] # ""
    /\ Given(s, "allowed_shapes") =>
          /\ s.allowed_shapes # << >>
          /\ \A i, j \in DOMAIN s.allowed_shapes :
                /\ ~Blank(s.allowed_shapes[i])
                /\ s.allowed_shapes[i] = s.allowed_shapes[j] => i = j

ValidSettings(s) == /\ ValidCircuit(s)
                    /\ \A f \in Positive : Given(s, f) => s[f] > 0
                    /\ ValidTexts(s)

RetryOrdered(e) == e.retry_min <= e.retry_max
NotifiesSomebody(e) == e.enabled => e.telegram_chat_id # "" /\ e.telegram_token_env # ""
Exclusive(e) == \A pair \in Pairs : e[pair[1]] = "" \/ e[pair[2]] = ""

\* Resolve; a run without a file has neither defaults nor overrides (Defaults).
Resolved ==
    LET settings == Apply(Apply(BuiltIn, defaults), account.overrides)
    IN  [f \in Settings \cup AccountFields |->
            IF f \in Settings THEN settings[f] ELSE account[f]]

\* Validate
ValidFile == /\ ValidSettings(defaults)
             /\ defaults.retry_min # Unset /\ defaults.retry_max # Unset => RetryOrdered(defaults)
             /\ ValidSettings(account.overrides)
             /\ Exclusive(account)
             /\ RetryOrdered(Resolved)
             /\ NotifiesSomebody(Resolved)

Advance(from, valid, to, e) ==
    /\ step = from
    /\ step' = IF valid THEN to ELSE "refused"
    /\ effective' = IF valid THEN e ELSE Nothing
    /\ UNCHANGED <<defaults, account, flags>>

Load == Advance("load", ValidFile, "flags", Resolved)

\* A flag that names a VCN or a subnet takes the place of the account's name or id.
Displaced(field) == \E pair \in Pairs : \/ /\ field = pair[1]
                                           /\ flags[pair[1]] = Unset /\ flags[pair[2]] # Unset
                                        \/ /\ field = pair[2]
                                           /\ flags[pair[2]] = Unset /\ flags[pair[1]] # Unset

Overridden == [f \in DOMAIN effective |->
                  CASE flags[f] # Unset -> flags[f]
                    [] f \in AccountFields /\ Displaced(f) -> ""
                    [] OTHER -> effective[f]]

\* Faulty: the bounds of the retries were compared when the file was loaded.
ApplyOverrides_TrustsFile ==
    Advance("flags", ValidSettings(flags) /\ Exclusive(Overridden) /\ NotifiesSomebody(Overridden),
            "policy", Overridden)

ApplyOverrides ==
    Advance("flags", /\ ValidSettings(flags) /\ Exclusive(Overridden)
                     /\ RetryOrdered(Overridden) /\ NotifiesSomebody(Overridden),
            "policy", Overridden)

-----------------------------------------------------------------------------
(* The policy judges what is requested, or the default for what is zero.   *)

Zero(f) == CASE f = "shape" -> "" [] f = "allowed_shapes" -> << >> [] OTHER -> 0
Limited == {"ocpus", "memory_gb", "boot_volume_gb"}
Limit(f) == CASE f = "ocpus" -> "max_ocpus" [] f = "memory_gb" -> "max_memory_gb"
              [] f = "boot_volume_gb" -> "max_boot_volume_gb"

Judged(e) == [f \in {"shape", "allowed_shapes"} \cup Limited \cup {Limit(r) : r \in Limited} |->
                 IF e[f] = Zero(f) THEN BuiltIn[f] ELSE e[f]]

Violations(j) == {f \in Limited : j[f] > j[Limit(f)]}
                 \cup {f \in {"shape"} : \A i \in DOMAIN j.allowed_shapes : j.shape # j.allowed_shapes[i]}

\* EvaluatePolicy
Allowed(e) == Violations(Judged(e)) = {} \/ e.allow_exceed

\* discovery.validate comes first, the policy under Run; neither leaves a trace.
ValidInput(e) == /\ ~Blank(e.shape) /\ ~Blank(e.compartment_id) /\ ~Blank(e.image_id)
                 /\ e.ocpus > 0 /\ e.memory_gb > 0 /\ e.boot_volume_gb > 0
                 /\ Exclusive(e)

Judge == Advance("policy", ValidInput(effective) /\ Allowed(effective), "accepted", effective)

ConfigurationNext == Load \/ ApplyOverrides \/ Judge

ConfigurationSpec == ConfigurationInit /\ [][ConfigurationNext]_configurationVars

-----------------------------------------------------------------------------
(* What is required of an accepted configuration later in the run, when    *)
(* the run lock is held and an attempt may have been minted.               *)

WatcherAccepts(e) == /\ e.shape # "" /\ e.ocpus > 0 /\ e.memory_gb > 0
                     /\ e.request_timeout > 0 /\ e.retry_min > 0
                     /\ e.retry_max >= e.retry_min

LaunchAccepts(e) == e.request_timeout > 0 /\ e.retry_min > 0 /\ e.retry_max >= e.retry_min

CircuitAccepts(e) == /\ e.failures \in 1 .. 100 /\ e.half_open_requests \in 1 .. 10
                     /\ e.interval \in 1 .. Day /\ e.open_timeout \in 1 .. Hour

\* The value of the most specific layer that sets f (README, "in this order:
\* explicit CLI flags, account overrides, global project settings, then
\* built-in defaults").
MostSpecific(f) == LET layers == <<flags, account.overrides, defaults, BuiltIn>>
                       sets   == {i \in 1 .. 4 : layers[i][f] # Unset}
                   IN  layers[CHOOSE i \in sets : \A j \in sets : i <= j][f]

(* Layers that are valid one by one may contradict each other.  A run that *)
(* is not refused at once is not refused by a later component for what it  *)
(* was configured with; every setting is that of the most specific layer;  *)
(* a network named by a flag owes nothing to the account; and the policy   *)
(* has judged the very values that are launched.                           *)
AcceptedIsUsable == step = "accepted" =>
    /\ WatcherAccepts(effective) /\ LaunchAccepts(effective) /\ CircuitAccepts(effective)
    /\ \A f \in Settings : effective[f] = MostSpecific(f)
    /\ \A pair \in Pairs : (\E i \in {1, 2} : flags[pair[i]] # Unset) =>
          \A i \in {1, 2} : effective[pair[i]] \in {flags[pair[i]], ""}
    /\ effective.allow_exceed
       \/ \A f \in Limited : effective[f] <= effective[Limit(f)]
=============================================================================

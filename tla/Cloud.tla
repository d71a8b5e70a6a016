-------------------------------- MODULE Cloud --------------------------------
(***************************************************************************)
(* The part of OCI Compute that OCIHood relies on, modelled from how the   *)
(* code uses it (provider/oci/launch, provider/oci/discovery) and from the *)
(* provider the crash tests substitute (internal/app/crash_test.go): it is *)
(* external.  LaunchInstance is idempotent per retry token while the       *)
(* provider remembers the token; an instance, once created, moves through  *)
(* its life cycle on its own or because a user acts on it; a listing may   *)
(* lag behind a recent launch.                                             *)
(***************************************************************************)
EXTENDS Reconcile

CONSTANTS Foreign,       \* instances of the compartment that are not this target's
          Preexisting,   \* the target's instances that predate the state file
          Retention,     \* how long the provider remembers a retry token
          ListLag,       \* BOOLEAN: a listing may miss launched instances
          UserActs       \* BOOLEAN: instances are stopped, started, terminated by
                         \* others than OCIHood (users, a failed provisioning)

ASSUME CloudAssumption ==
    /\ Foreign \subseteq Instances
    /\ Preexisting \subseteq Instances \ Foreign
    /\ \A i, j \in Preexisting : i = j
    /\ Retention \in Nat
    /\ Validity <= Retention    \* the code's choice of 24h relies on it
    /\ ListLag \in BOOLEAN
    /\ UserActs \in BOOLEAN

VARIABLES vm,      \* the life-cycle state of every instance
          bound    \* what the provider remembers of every retry token

cloudVars == <<vm, bound>>

\* "STOPPED" stands for every state discovery calls active that is not
\* RUNNING: STARTING, STOPPING and STOPPED.
VmStates == {"absent", "PROVISIONING", "RUNNING", "STOPPED", "TERMINATING", "TERMINATED"}
Bindings == [instance : Instances \cup {NoInstance}, until : Nat]

Managed == Instances \ Foreign

\* The instances of the target that exist and are not terminated, as the
\* crash tests count them (activeOwned).
Live == {i \in Managed : vm[i] \notin {"absent", "TERMINATED"}}

CloudInit ==
    /\ vm = [i \in Instances |-> IF i \in Foreign \cup Preexisting THEN "RUNNING" ELSE "absent"]
    /\ bound = [t \in Tokens |-> [instance |-> NoInstance, until |-> 0]]

-----------------------------------------------------------------------------
(* Listing.                                                                *)

\* Faulty: everything that is not terminated is active.
Lifecycle_Eager(state) == IF state = "TERMINATED" THEN "terminated" ELSE "active"

\* ocidiscovery.lifecycle
Lifecycle(state) == CASE state = "TERMINATED" -> "terminated"
                      [] state \in {"RUNNING", "STOPPED"} -> "active"
                      [] OTHER -> "unknown"

\* Another target of the same account shares two of the three tags.
TagsOf(i) == IF i \in Foreign THEN {"managed", "account"} ELSE ContractTags

Observation(i) == [id |-> i, lifecycle |-> Lifecycle(vm[i]), tags |-> TagsOf(i)]

\* The instances a lagging listing may miss: those launched under a token.
Hideable == IF ListLag THEN {i \in Instances : \E t \in Tokens : bound[t].instance = i}
            ELSE {}

Existing == {i \in Instances : vm[i] # "absent"}

Listings == {{Observation(i) : i \in Existing \ hidden} : hidden \in SUBSET Hideable}

-----------------------------------------------------------------------------
(* LaunchInstance with an OpcRetryToken.                                   *)

Remembers(t, now) == bound[t].instance # NoInstance /\ now < bound[t].until

\* The request is executed and i is the instance it answers with.
Executes(t, i, now) ==
    \/ /\ Remembers(t, now)
       /\ i = bound[t].instance
       /\ UNCHANGED cloudVars
    \/ /\ ~Remembers(t, now)
       /\ vm[i] = "absent"
       /\ vm' = [vm EXCEPT ![i] = "PROVISIONING"]
       /\ bound' = [bound EXCEPT ![t] = [instance |-> i, until |-> now + Retention]]

\* The request reaches the provider or is lost on the way.
MayExecute(t, now) == \/ \E i \in Instances : Executes(t, i, now)
                      \/ UNCHANGED cloudVars

-----------------------------------------------------------------------------
(* Life cycles.                                                            *)

ProviderMoves == {<<"PROVISIONING", "RUNNING">>, <<"TERMINATING", "TERMINATED">>}
UserMoves == {<<"RUNNING", "STOPPED">>, <<"STOPPED", "RUNNING">>,
              <<"PROVISIONING", "TERMINATING">>, <<"RUNNING", "TERMINATING">>,
              <<"STOPPED", "TERMINATING">>}

Move(i, moves) == \E m \in moves : /\ vm[i] = m[1]
                                   /\ vm' = [vm EXCEPT ![i] = m[2]]
                                   /\ UNCHANGED bound

ProviderStep(i) == Move(i, ProviderMoves)
UserStep(i)     == UserActs /\ Move(i, UserMoves)
=============================================================================

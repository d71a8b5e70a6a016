---------------------------- MODULE LaunchContract ----------------------------
(***************************************************************************)
(* What one call of launch.Orchestrator.Run promises about the record of   *)
(* the target, and what module Provisioning assumes of it: an instance is  *)
(* recorded before it is followed, at most one is, the record says         *)
(* "running" only at the end and of that very instance, and every other    *)
(* way to end either records a failure or leaves the record alone.         *)
(***************************************************************************)
CONSTANTS Instances, NoInstance

VARIABLES phase,      \* "calling" | "following" | "ended"
          subject,    \* the instance that is being followed
          lifecycle,  \* the record: its lifecycle
          recorded    \*             and its instance

vars == <<phase, subject, lifecycle, recorded>>

Init == /\ lifecycle = "provisioning"
        /\ recorded \in Instances \cup {NoInstance}
        /\ \/ phase = "calling" /\ subject = NoInstance
           \/ phase = "following" /\ subject \in Instances

Accept(i) == /\ phase = "calling"
             /\ phase' = "following"
             /\ subject' = i
             /\ recorded' = i
             /\ lifecycle' = "provisioning"

Succeed == /\ phase = "following"
           /\ phase' = "ended"
           /\ lifecycle' = "running"
           /\ recorded' = subject
           /\ subject' = NoInstance

Fail == /\ phase # "ended"
        /\ phase' = "ended"
        /\ subject' = NoInstance
        /\ lifecycle' = "failed"
        /\ UNCHANGED recorded

GiveUp == /\ phase # "ended"
          /\ phase' = "ended"
          /\ subject' = NoInstance
          /\ UNCHANGED <<lifecycle, recorded>>

Next == (\E i \in Instances : Accept(i)) \/ Succeed \/ Fail \/ GiveUp

Spec == Init /\ [][Next]_vars
=============================================================================

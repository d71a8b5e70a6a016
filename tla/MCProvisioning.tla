---------------------------- MODULE MCProvisioning ----------------------------
(* Model values and symmetry for checking Provisioning with TLC.  f1 is an   *)
(* instance of another target; i1 to i3 are the target's.                    *)
EXTENDS Provisioning, TLC

CONSTANTS p1, p2, i1, i2, i3, f1, t1, t2, t3

OneProc  == {p1}
TwoProcs == {p1, p2}

TwoInstances   == {i1, i2, f1}
ThreeInstances == {i1, i2, i3, f1}
NoneForeign    == {}
OneForeign     == {f1}
OnePreexisting == {i1}

TwoTokens   == {t1, t2}
ThreeTokens == {t1, t2, t3}

Looping    == {FALSE}
BothModes  == {TRUE, FALSE}

\* Processes, tokens and the instances not yet created are interchangeable.
Symmetry == Permutations(Procs) \cup Permutations(Tokens)
                \cup Permutations(Instances \ (Foreign \cup Preexisting))
=============================================================================

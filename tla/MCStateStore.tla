----------------------------- MODULE MCStateStore -----------------------------
(* Two writers of one state file. *)
EXTENDS StateStore

CONSTANTS p1, p2

MCProcs == {p1, p2}
=============================================================================

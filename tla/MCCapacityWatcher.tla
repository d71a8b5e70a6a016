--------------------------- MODULE MCCapacityWatcher ---------------------------
(* Small instances of CapacityWatcher. *)
EXTENDS CapacityWatcher

CONSTANTS a, b, c

MCADs == {a, b, c}

\* One domain, all of them, and a list that has lost its first domain.
MCADLists == {<<b>>, <<a, b, c>>, <<b, c>>}
=============================================================================

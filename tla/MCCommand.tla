------------------------------- MODULE MCCommand -------------------------------
(* Two processes, so that one can start, be refused or take over at every    *)
(* step of the other.                                                        *)
EXTENDS Command

CONSTANTS r1, r2, t1
MCRuns == {r1, r2}
MCOneRun == {r1}
MCTargets == {t1}

\* The first with notifications, the second without: it takes locks and
\* records away, and may be interrupted.
MCModes == [p \in MCRuns |->
               IF p = r1 THEN [once : BOOLEAN, limited : BOOLEAN, notifies : {TRUE}]
               ELSE [once : {FALSE}, limited : {FALSE}, notifies : {FALSE}]]
MCOneMode == [p \in MCOneRun |-> AllModes]
=============================================================================

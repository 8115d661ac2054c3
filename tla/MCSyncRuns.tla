----------------------------- MODULE MCSyncRuns -----------------------------
(***************************************************************************)
(* Small instances of SyncRuns for TLC.  The unit of the clock is scaled:  *)
(* what matters is the order of the platform's limit, the stale boundaries *)
(* and the length of an hour, which every configuration keeps.             *)
(***************************************************************************)
EXTENDS SyncRuns, TLC

CONSTANTS w1, w2, TmoStale, MonarchStale

MCWorkers == {w1, w2}
MCStaleAfter == [s \in Slugs |-> IF s = "tmo" THEN TmoStale ELSE MonarchStale]

\* README.md: "A failed scheduled slot is not retried automatically; it waits
\* for the next slot or an explicit manual sync."
FailedSlotNotRetried ==
    [][\A r \in RunIds :
         log[r].status = "none" /\ log'[r].slot # NoSlot =>
            FailedAttempts(log'[r].slug, log'[r].slot) = {}]_vars

Symmetry == Permutations(Workers)
=============================================================================

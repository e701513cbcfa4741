---------------------------- MODULE MCBulkEngine ----------------------------
(***************************************************************************)
(* Small instances of BulkEngine for TLC: the items of the job and the     *)
(* slots for calls that work on it.                                        *)
(***************************************************************************)
EXTENDS BulkEngine

CONSTANTS k1, k2, r1, r2, c1, c2

OneKey == {k1}
TwoKeys == {k1, k2}
NoKeys == {}
NoSlot == {}
OneRunner == {r1}
TwoRunners == {r1, r2}
OneReconciler == {c1}
TwoReconcilers == {c1, c2}
NoIntervention == {}
Retry == {"retry"}
AllInterventions == {"retry", "delete", "restore"}
=============================================================================

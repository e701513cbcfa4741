---------------------------- MODULE MCCrudSurface ----------------------------
(***************************************************************************)
(* Small instances of CrudSurface for TLC: the engine's instance, and what *)
(* the clients of the CRUD routes write.                                   *)
(***************************************************************************)
EXTENDS CrudSurface

CONSTANTS k1, k2, r1, r2, c1

OneKey == {k1}
TwoKeys == {k1, k2}
NoKeys == {}
OneRunner == {r1}
TwoRunners == {r1, r2}
OneReconciler == {c1}
NoIntervention == {}
Retry == {"retry"}

PayloadOnly == {"payload"}
AnyEdit == {"payload", "requeue"}
=============================================================================

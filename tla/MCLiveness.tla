----------------------------- MODULE MCLiveness -----------------------------
(***************************************************************************)
(* Two items under liveness: a crash or a client's write, not both, so     *)
(* that the graph stays small.                                             *)
(***************************************************************************)
EXTENDS MCCrudSurface

CONSTANT MaxFaults   \* bound on crashes and client writes together

FewFaults == crashes + edits <= MaxFaults

\* No step under fairness is a crash or a client's write.
FewFaultsSpec ==
  SurfaceInit /\ [][SurfaceNext /\ FewFaults']_allVars /\ SurfaceFairness
=============================================================================

SPECIFICATION FewFaultsSpec
CONSTANTS
  k1 = k1
  k2 = k2
  r1 = r1
  r2 = r2
  c1 = c1
  NoKey = NoKey
  Keys <- TwoKeys
  Runners <- OneRunner
  Reconcilers <- OneReconciler
  Idempotent = TRUE
  ClaimsOutliveFence = FALSE
  Oversize <- NoKeys
  Interventions <- NoIntervention
  MaxCrashes = 1
  MaxEffects = 2
  PutEdits <- AnyEdit
  PatchEdits <- PayloadOnly
  MaxEdits = 1
  MaxFaults = 1
INVARIANTS UneditedCompletion
PROPERTIES EveryCallEnds EveryItemEnds RollupHeals StatusHeals

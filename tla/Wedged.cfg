SPECIFICATION RecoverySpec
CONSTANTS
  k1 = k1
  k2 = k2
  r1 = r1
  r2 = r2
  c1 = c1
  c2 = c2
  NoKey = NoKey
  Keys <- TwoKeys
  Runners <- OneRunner
  Reconcilers <- OneReconciler
  Idempotent = TRUE
  ClaimsOutliveFence = FALSE
  Oversize <- OneKey
  Interventions <- NoIntervention
  MaxCrashes = 2
  MaxEffects = 2
PROPERTIES StrandedIsRechecked

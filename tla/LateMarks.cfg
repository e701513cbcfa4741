SPECIFICATION SurfaceSpec
CONSTANTS
  k1 = k1
  k2 = k2
  r1 = r1
  r2 = r2
  c1 = c1
  NoKey = NoKey
  Keys <- OneKey
  Runners <- OneRunner
  Reconcilers <- OneReconciler
  Idempotent = TRUE
  ClaimsOutliveFence = TRUE
  Oversize <- NoKeys
  Interventions <- Retry
  MaxCrashes = 0
  MaxEffects = 2
  PutEdits <- AnyEdit
  PatchEdits <- AnyEdit
  MaxEdits = 2
INVARIANTS OutcomeIsDocumented AppliedHasEffect EffectsBackRollups
PROPERTIES OnlyEditsReopen

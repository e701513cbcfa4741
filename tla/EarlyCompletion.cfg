SPECIFICATION Spec
CONSTANTS
  k1 = k1
  k2 = k2
  r1 = r1
  r2 = r2
  c1 = c1
  c2 = c2
  NoKey = NoKey
  Keys <- TwoKeys
  Runners <- OneRunner
  Reconcilers <- NoSlot
  Idempotent = TRUE
  ClaimsOutliveFence = FALSE
  Oversize <- NoKeys
  Interventions <- NoIntervention
  MaxCrashes = 1
  MaxEffects = 2
INVARIANTS CompletionMeansTerminal

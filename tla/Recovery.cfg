SPECIFICATION Spec
CONSTANTS
  k1 = k1
  k2 = k2
  r1 = r1
  r2 = r2
  c1 = c1
  c2 = c2
  NoKey = NoKey
  Keys <- OneKey
  Runners <- TwoRunners
  Reconcilers <- OneReconciler
  Idempotent = FALSE
  ClaimsOutliveFence = FALSE
  Oversize <- OneKey
  Interventions <- AllInterventions
  MaxCrashes = 2
  MaxEffects = 2
INVARIANTS
  TypeOK
  NoConcurrentApply
  AtMostOneEffect
  NoHiddenEffect
  SummaryTruthful
  ClaimInv
  RollupNeverOverclaims
  AuditTrail
PROPERTIES LedgerSpec TerminalIsFinal CountsWhatItWrites

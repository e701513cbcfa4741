-------------------------- MODULE BulkEngineProofs --------------------------
(***************************************************************************)
(* Theorems about BulkEngine, for every set of items, every number of      *)
(* concurrent calls, every bound on crashes and every kind of target.      *)
(***************************************************************************)
EXTENDS BulkEngine, FiniteSetTheorems, TLAPS

-----------------------------------------------------------------------------
\* Type correctness.

\* The number of items in some statuses is a natural number.
LEMMA CountType ==
  ASSUME NEW S
  PROVE  Cardinality(InStatus(S)) \in Nat
BY KeysAssumption, FS_Subset, FS_CardinalityType DEF InStatus

\* The types survive the end of a call, whatever ended it.
LEMMA ForgetType ==
  ASSUME Typed, NEW p \in Procs, Forget(p)
  PROVE  /\ pc' \in [Procs -> Labels]
         /\ work' \in [Procs -> SUBSET Keys]
         /\ cur' \in [Procs -> Keys \cup {NoKey}]
         /\ ack' \in [Procs -> 0..MaxEffects]
         /\ tally' \in [Procs -> [applied: Nat, failed: Nat, cancelled: Nat]]
         /\ bucket' \in [Procs -> [Keys -> Buckets]]
         /\ InHand'
BY BoundAssumption DEF Typed, InHand, Forget, Goto, Labels, Claiming, NoTally, Buckets

\* The types survive taking an item in hand.
LEMMA TakeType ==
  ASSUME Typed, NEW p \in Procs, NEW k \in Keys, NEW label \in Claiming,
         Take(p, k, label)
  PROVE  /\ pc' \in [Procs -> Labels]
         /\ work' \in [Procs -> SUBSET Keys]
         /\ cur' \in [Procs -> Keys \cup {NoKey}]
         /\ InHand'
<1>1. pc' \in [Procs -> Labels] /\ cur' \in [Procs -> Keys \cup {NoKey}]
  BY DEF Typed, Take, Goto, Labels
<1>2. work' \in [Procs -> SUBSET Keys]
  BY DEF Typed, Take
<1>3. InHand'
  BY KeysAssumption DEF Typed, InHand, Take, Goto
<1>4. QED
  BY <1>1, <1>2, <1>3

\* A summary counter moves within the counters' set.
LEMMA PutDownType ==
  ASSUME Typed, NEW p \in Procs, NEW b \in Buckets, PutDown(p, b)
  PROVE  /\ pc' \in [Procs -> Labels]
         /\ work' \in [Procs -> SUBSET Keys]
         /\ cur' \in [Procs -> Keys \cup {NoKey}]
         /\ ack' \in [Procs -> 0..MaxEffects]
         /\ tally' \in [Procs -> [applied: Nat, failed: Nat, cancelled: Nat]]
         /\ bucket' \in [Procs -> [Keys -> Buckets]]
         /\ InHand'
<1>1. bucket' \in [Procs -> [Keys -> Buckets]]
  BY DEF Typed, PutDown
<1>2. QED
  BY <1>1, BoundAssumption
     DEF Typed, InHand, PutDown, Goto, LoopHead, Labels, Claiming

\* One cell of a table changes within the table's range.
LEMMA CellType ==
  ASSUME NEW D, NEW R, NEW f \in [D -> R], NEW d, NEW v \in R
  PROVE  [f EXCEPT ![d] = v] \in [D -> R]
OBVIOUS

\* Each of the three closing UPDATEs keeps the rows' types.
LEMMA CloseType ==
  ASSUME Typed, NEW k, NEW r \in 0..MaxEffects,
         mark_applied(k, r) \/ mark_failed(k) \/ mark_cancelled(k)
  PROVE  /\ status' \in [Keys -> RowStatus]
         /\ ref' \in [Keys -> 0..MaxEffects]
         /\ error' \in [Keys -> {"none", "rejected", "unverifiable"}]
         /\ aged' \in [Keys -> BOOLEAN]
<1> DEFINE Reasons == {"none", "rejected", "unverifiable"}
<1>1. /\ status \in [Keys -> RowStatus] /\ ref \in [Keys -> 0..MaxEffects]
      /\ error \in [Keys -> Reasons] /\ aged \in [Keys -> BOOLEAN]
  BY DEF Typed
<1>2. ASSUME NEW s \in RowStatus, CloseRow(k, s)
      PROVE  status' \in [Keys -> RowStatus] /\ aged' \in [Keys -> BOOLEAN]
  BY <1>1, <1>2, CellType, Zenon DEF CloseRow
<1>3. CASE UNCHANGED rowVars
  BY <1>1, <1>3 DEF rowVars
<1>4. CASE CloseRow(k, "applied") /\ ref' = [ref EXCEPT ![k] = r] /\ UNCHANGED error
  <2>1. ref' \in [Keys -> 0..MaxEffects] /\ error' \in [Keys -> Reasons]
    BY <1>1, <1>4, CellType, Zenon
  <2>2. QED
    BY <1>2, <1>4, <2>1 DEF RowStatus, ItemStatus
<1>5. ASSUME NEW s \in {"failed", "cancelled"}, NEW e \in Reasons,
             CloseRow(k, s), error' = [error EXCEPT ![k] = e], UNCHANGED ref
      PROVE  /\ status' \in [Keys -> RowStatus] /\ ref' \in [Keys -> 0..MaxEffects]
             /\ error' \in [Keys -> Reasons] /\ aged' \in [Keys -> BOOLEAN]
  <2>1. ref' \in [Keys -> 0..MaxEffects] /\ error' \in [Keys -> Reasons]
    BY <1>1, <1>5, CellType, Zenon
  <2>2. QED
    BY <1>2, <1>5, <2>1 DEF RowStatus, ItemStatus
<1>6. QED
  BY <1>3, <1>4, <1>5 DEF mark_applied, mark_failed, mark_cancelled

\* Recording an outcome, whether the UPDATE succeeds or is refused.
LEMMA RecordType ==
  ASSUME Typed, NEW p \in Procs, NEW b \in Buckets,
         \/ Record(p, mark_applied(cur[p], ack[p]), b)
         \/ Record(p, mark_failed(cur[p]), b)
         \/ Record(p, mark_cancelled(cur[p]), b)
  PROVE  Typed'
<1>0. ack[p] \in 0..MaxEffects
  BY DEF Typed
<1>1. UNCHANGED <<job, effects, event, crashes>>
  BY DEF Record
<1>2. CASE Forget(p) /\ UNCHANGED rowVars
  BY <1>1, <1>2, ForgetType DEF Typed, InHand, rowVars
<1>3. CASE /\ PutDown(p, b)
           /\ \/ mark_applied(cur[p], ack[p])
              \/ mark_failed(cur[p])
              \/ mark_cancelled(cur[p])
  BY <1>0, <1>1, <1>3, PutDownType, CloseType DEF Typed
<1>4. QED
  BY <1>2, <1>3 DEF Record

\* The initial state is well typed.
LEMMA InitType == Init => Typed
BY BoundAssumption
   DEF Init, Typed, InHand, Claiming, RowStatus, ItemStatus, JobStatus, Labels, Buckets,
       NoTally, NoEvent

\* One step of a call keeps the types.
LEMMA CallStepType ==
  ASSUME Typed, NEW p \in Procs, CallStep(p)
  PROVE  Typed'
<1>1. CASE MarkRunning(p)
  BY <1>1 DEF MarkRunning, Typed, InHand, Claiming, Goto, Labels, JobStatus, rowVars
<1>2. CASE FetchPending(p)
  BY <1>2 DEF FetchPending, Typed, InHand, Claiming, Goto, Labels, InStatus, rowVars
<1>3. ASSUME NEW k \in Keys, Reserve(p, k)
      PROVE  Typed'
  <2>1. /\ status' \in [Keys -> RowStatus] /\ work' \in [Procs -> SUBSET Keys]
        /\ pc' \in [Procs -> Labels] /\ cur' \in [Procs -> Keys \cup {NoKey}]
        /\ InHand'
    <3>1. CASE status[k] = "pending"
      <4>1. Take(p, k, "apply") /\ status' = [status EXCEPT ![k] = "applying"]
        BY <1>3, <3>1 DEF Reserve
      <4>2. status' \in [Keys -> RowStatus]
        BY <4>1 DEF Typed, RowStatus, ItemStatus
      <4>3. QED
        BY <4>1, <4>2, TakeType DEF Claiming
    <3>2. CASE status[k] # "pending"
      <4>1. UNCHANGED <<status, pc, cur>> /\ work' = [work EXCEPT ![p] = work[p] \ {k}]
        BY <1>3, <3>2 DEF Reserve
      <4>2. work' \in [Procs -> SUBSET Keys]
        BY <4>1 DEF Typed
      <4>3. QED
        BY <4>1, <4>2 DEF Typed, InHand
    <3>3. QED
      BY <3>1, <3>2
  <2>2. QED
    BY <1>3, <2>1 DEF Reserve, Typed
<1>4. CASE FetchApplyingStale(p)
  BY <1>4 DEF FetchApplyingStale, Typed, InHand, Claiming, Goto, Labels,
     InStatus, rowVars
<1>5. ASSUME NEW k \in Keys, CheckApplied(p, k)
      PROVE  Typed'
  <2>1. PICK label \in {"confirm", "apply", "mark_cancelled"} : Take(p, k, label)
    BY <1>5 DEF CheckApplied
  <2>2. /\ work' \in [Procs -> SUBSET Keys] /\ pc' \in [Procs -> Labels]
        /\ cur' \in [Procs -> Keys \cup {NoKey}] /\ InHand'
    BY <2>1, TakeType DEF Claiming
  <2>3. ack' \in [Procs -> 0..MaxEffects]
    BY <1>5, BoundAssumption DEF CheckApplied, Typed
  <2>4. QED
    BY <1>5, <2>2, <2>3 DEF CheckApplied, Typed, InHand, rowVars
<1>6. CASE Confirm(p)
  BY <1>6, RecordType DEF Confirm, Buckets
<1>7. CASE Cancel(p)
  BY <1>7, RecordType DEF Cancel, Buckets
<1>8. CASE CountUnfinished(p)
  <2>1. CASE Forget(p)
    BY <1>8, <2>1, ForgetType DEF CountUnfinished, Typed, InHand, rowVars
  <2>2. CASE Goto(p, "count_outcomes") /\ UNCHANGED <<work, cur, ack, tally, bucket>>
    BY <1>8, <2>2 DEF CountUnfinished, Typed, InHand, Claiming, Goto, Labels, rowVars
  <2>3. QED
    BY <1>8, <2>1, <2>2 DEF CountUnfinished
<1>9. CASE TargetAccepts(p)
  <2>1. cur[p] \in Keys
    BY <1>9 DEF TargetAccepts, Typed, InHand, Claiming
  <2>2. effects' \in [Keys -> 0..MaxEffects] /\ ack' \in [Procs -> 0..MaxEffects]
    <3>1. effects[cur[p]] \in 0..MaxEffects
      BY <2>1 DEF Typed
    <3>2. CASE Idempotent /\ effects[cur[p]] > 0
      BY <1>9, <3>1, <3>2 DEF TargetAccepts, Typed
    <3>3. CASE ~(Idempotent /\ effects[cur[p]] > 0)
      <4>1. /\ effects[cur[p]] + 1 \in 0..MaxEffects
            /\ effects' = [effects EXCEPT ![cur[p]] = effects[cur[p]] + 1]
            /\ ack' = [ack EXCEPT ![p] = effects[cur[p]] + 1]
        BY <1>9, <3>1, <3>3, BoundAssumption DEF TargetAccepts
      <4>2. QED
        BY <4>1 DEF Typed
    <3>4. QED
      BY <3>2, <3>3
  <2>3. QED
    BY <1>9, <2>2 DEF TargetAccepts, Typed, InHand, Claiming, Goto, Labels, rowVars
<1>10. CASE TargetRejects(p)
  BY <1>10 DEF TargetRejects, Typed, InHand, Claiming, Goto, Labels, rowVars
<1>11. CASE RecordAck(p)
  BY <1>11, RecordType DEF RecordAck, Buckets
<1>12. CASE RecordRejection(p)
  BY <1>12, RecordType DEF RecordRejection, Buckets
<1>13. CASE CountOutcomes(p)
  BY <1>13, CountType DEF CountOutcomes, Typed, InHand, Claiming, Goto, Labels, rowVars
<1>14. CASE SetOutcome(p)
  BY <1>14 DEF SetOutcome, Typed, InHand, Claiming, Goto, Labels, JobStatus,
     TerminalStatus, rowVars
<1>15. CASE Publish(p)
  <2>1. event' \in [total: Nat, succeeded: Nat, failed: Nat]
    BY <1>15, KeysAssumption, FS_CardinalityType DEF Publish, Typed
  <2>2. QED
    BY <1>15, <2>1, ForgetType DEF Publish, Typed, InHand, rowVars
<1>16. QED
  BY <1>1, <1>2, <1>3, <1>4, <1>5, <1>6, <1>7, <1>8, <1>9, <1>10, <1>11, <1>12,
     <1>13, <1>14, <1>15 DEF CallStep, RunStep, ReconcileStep, SharedStep

\* So does every other step, and a stutter.
LEMMA NextType ==
  ASSUME Typed, [Next]_vars
  PROVE  Typed'
<1>1. ASSUME NEW p \in Runners, StartRun(p)
      PROVE  Typed'
  BY <1>1 DEF StartRun, Typed, InHand, Claiming, Goto, Labels, rowVars, Procs
<1>2. ASSUME NEW p \in Reconcilers, StartReconcile(p)
      PROVE  Typed'
  BY <1>2 DEF StartReconcile, Typed, InHand, Claiming, Goto, Labels, rowVars, Procs
<1>3. ASSUME NEW p \in Procs, Crash(p)
      PROVE  Typed'
  BY <1>3, ForgetType, BoundAssumption DEF Crash, Typed, InHand, rowVars
<1>4. ASSUME NEW k \in Keys, ClaimAges(k)
      PROVE  Typed'
  BY <1>4 DEF ClaimAges, Typed, InHand, callVars
<1>5. CASE RetryFailed
  BY <1>5 DEF RetryFailed, Typed, InHand, RowStatus, ItemStatus, callVars
<1>6. ASSUME NEW w, NEW flag \in BOOLEAN, SetDeleted(w, flag)
      PROVE  Typed'
  BY <1>6 DEF SetDeleted, Typed, InHand, rowVars, callVars
<1>7. CASE UNCHANGED vars
  BY <1>7 DEF Typed, InHand, vars, rowVars, callVars
<1>8. QED
  BY <1>1, <1>2, <1>3, <1>4, <1>5, <1>6, <1>7, CallStepType DEF Next

\* The engine takes no row away.
LEMMA NoRowGoes ==
  ASSUME Typed, [Next]_vars, NEW k \in Keys, status[k] # "purged"
  PROVE  status'[k] # "purged"
<1>1. ASSUME NEW p \in Procs, CallStep(p)
      PROVE  status'[k] # "purged"
  <2>1. ASSUME NEW j \in Keys, Reserve(p, j)
        PROVE  status'[k] # "purged"
    BY <2>1 DEF Reserve, Typed
  <2>2. CASE Confirm(p) \/ Cancel(p) \/ RecordAck(p) \/ RecordRejection(p)
    <3>1. \/ UNCHANGED status
          \/ \E s \in {"applied", "failed", "cancelled"} : CloseRow(cur[p], s)
      BY <2>2 DEF Confirm, Cancel, RecordAck, RecordRejection, Record, mark_applied,
         mark_failed, mark_cancelled, rowVars
    <3>2. QED
      BY <3>1 DEF CloseRow, Typed
  <2>3. CASE \/ MarkRunning(p) \/ FetchPending(p) \/ FetchApplyingStale(p)
             \/ \E j \in Keys : CheckApplied(p, j)
             \/ CountUnfinished(p) \/ TargetAccepts(p) \/ TargetRejects(p)
             \/ CountOutcomes(p) \/ SetOutcome(p) \/ Publish(p)
    BY <2>3 DEF MarkRunning, FetchPending, FetchApplyingStale, CheckApplied,
       CountUnfinished, TargetAccepts, TargetRejects, CountOutcomes, SetOutcome,
       Publish, rowVars
  <2>4. QED
    BY <1>1, <2>1, <2>2, <2>3 DEF CallStep, RunStep, ReconcileStep, SharedStep
<1>2. CASE RetryFailed
  BY <1>2 DEF RetryFailed
<1>3. QED
  BY <1>1, <1>2
     DEF Next, vars, rowVars, StartRun, StartReconcile, Crash, ClaimAges, SetDeleted

\* Every variable of the engine keeps its type: no row, counter, event or
\* local of a call ever leaves its set, in any interleaving.
THEOREM TypeCorrect == Spec => []TypeOK
<1>1. Init => TypeOK
  BY InitType DEF Init, TypeOK, ItemStatus
<1>2. ASSUME TypeOK, [Next]_vars
      PROVE  TypeOK'
  <2>1. \A k \in Keys : status[k] # "purged"
    BY <1>2 DEF TypeOK, ItemStatus
  <2>2. Typed' /\ \A k \in Keys : status'[k] # "purged"
    BY <1>2, <2>1, NextType, NoRowGoes DEF TypeOK
  <2>3. QED
    BY <2>2 DEF TypeOK, Typed, RowStatus, ItemStatus
<1>3. QED
  BY <1>1, <1>2, PTL DEF Spec

\* In particular the weaker types hold, the only ones that most proofs need.
LEMMA TypedAlways == Spec => []Typed
<1>1. Init => Typed
  BY InitType
<1>2. Typed /\ [Next]_vars => Typed'
  BY NextType
<1>3. QED
  BY <1>1, <1>2, PTL DEF Spec

-----------------------------------------------------------------------------
\* Final statuses.

\* A closing UPDATE only moves a row that is applying.
LEMMA CloseMovesApplying ==
  ASSUME Typed, NEW p, NEW b,
         \/ Record(p, mark_applied(cur[p], ack[p]), b)
         \/ Record(p, mark_failed(cur[p]), b)
         \/ Record(p, mark_cancelled(cur[p]), b),
         NEW k \in Keys, status[k] # "applying"
  PROVE  status'[k] = status[k]
BY DEF Typed, Record, mark_applied, mark_failed, mark_cancelled, CloseRow, rowVars

\* What one step may do to each item's status.
OutcomeStep ==
  \A k \in Keys :
    /\ status[k] \in {"applied", "cancelled"} => status'[k] = status[k]
    /\ status[k] = "failed" => status'[k] \in {"failed", "pending"}

\* Every step of the engine is such a step.
LEMMA FinalStep ==
  ASSUME Typed, [Next]_vars
  PROVE  OutcomeStep
<1> USE DEF OutcomeStep
<1>1. ASSUME NEW p \in Procs, CallStep(p)
      PROVE  OutcomeStep
  <2>1. ASSUME NEW k \in Keys, Reserve(p, k)
        PROVE  OutcomeStep
    BY <2>1 DEF Reserve, Typed
  <2>2. CASE Confirm(p) \/ Cancel(p) \/ RecordAck(p) \/ RecordRejection(p)
    BY <2>2, CloseMovesApplying DEF Confirm, Cancel, RecordAck, RecordRejection
  <2>3. CASE \/ MarkRunning(p) \/ FetchPending(p) \/ FetchApplyingStale(p)
             \/ \E k \in Keys : CheckApplied(p, k)
             \/ CountUnfinished(p) \/ TargetAccepts(p) \/ TargetRejects(p)
             \/ CountOutcomes(p) \/ SetOutcome(p) \/ Publish(p)
    BY <2>3 DEF MarkRunning, FetchPending, FetchApplyingStale, CheckApplied,
       CountUnfinished, TargetAccepts, TargetRejects, CountOutcomes, SetOutcome,
       Publish, rowVars
  <2>4. QED
    BY <1>1, <2>1, <2>2, <2>3 DEF CallStep, RunStep, ReconcileStep, SharedStep
<1>2. CASE RetryFailed
  BY <1>2 DEF RetryFailed
<1>3. CASE \/ \E p \in Runners : StartRun(p)
           \/ \E p \in Reconcilers : StartReconcile(p)
           \/ \E p \in Procs : Crash(p)
           \/ \E k \in Keys : ClaimAges(k)
           \/ SetDeleted("delete", TRUE) \/ SetDeleted("restore", FALSE)
           \/ UNCHANGED vars
  BY <1>3 DEF StartRun, StartReconcile, Crash, ClaimAges, SetDeleted, rowVars, vars
<1>4. QED
  BY <1>1, <1>2, <1>3 DEF Next

\* applied and cancelled are final, and a failed item leaves only for pending:
\* no statement of a late or a repeated call can rewrite a recorded outcome.
THEOREM OutcomesAreFinal == Spec => TerminalIsFinal
<1>1. Typed /\ [Next]_vars => [OutcomeStep]_vars
  BY FinalStep
<1>2. QED
  BY <1>1, TypedAlways, PTL DEF Spec, TerminalIsFinal, OutcomeStep

-----------------------------------------------------------------------------
\* The audit link, in a target of any kind and under any overlap of calls.

AuditInv == Typed /\ AckIsReal /\ AppliedHasEffect /\ OutcomeIsDocumented

\* What a step keeps of the audit columns.
AuditKept ==
  /\ AckIsReal' /\ AppliedHasEffect' /\ OutcomeIsDocumented'
  /\ AuditTrail => AuditTrail'

\* Recording the outcome of the item in hand keeps the audit columns right:
\* whoever closes the row holds an acknowledgement that names a real effect.
LEMMA RecordAudit ==
  ASSUME AuditInv, NEW p \in Procs, NEW b, cur[p] \in Keys,
         \/ ack[p] \in 1..effects[cur[p]] /\ Record(p, mark_applied(cur[p], ack[p]), b)
         \/ Record(p, mark_failed(cur[p]), b)
         \/ Record(p, mark_cancelled(cur[p]), b)
  PROVE  AuditKept
<1>1. effects' = effects /\ effects \in [Keys -> 0..MaxEffects]
  BY DEF Record, AuditInv, Typed
<1>2. AckIsReal'
  <2>1. CASE PutDown(p, b)
    BY <1>1, <2>1 DEF AuditInv, AckIsReal, Typed, PutDown, Goto, LoopHead
  <2>2. CASE Forget(p)
    BY <1>1, <2>2 DEF AuditInv, AckIsReal, Typed, Forget, Goto
  <2>3. QED
    BY <2>1, <2>2 DEF Record
<1>3. CASE UNCHANGED rowVars
  BY <1>1, <1>2, <1>3 DEF AuditInv, AuditKept, AppliedHasEffect,
     OutcomeIsDocumented, AuditTrail, rowVars
<1>4. CASE /\ ack[p] \in 1..effects[cur[p]]
           /\ status[cur[p]] = "applying"
           /\ status' = [status EXCEPT ![cur[p]] = "applied"]
           /\ ref' = [ref EXCEPT ![cur[p]] = ack[p]]
           /\ UNCHANGED error
  BY <1>1, <1>2, <1>4 DEF AuditInv, AuditKept, AppliedHasEffect,
     OutcomeIsDocumented, AuditTrail, Typed
<1>5. CASE /\ status[cur[p]] = "applying"
           /\ status' = [status EXCEPT ![cur[p]] = "failed"]
           /\ error' = [error EXCEPT ![cur[p]] = "rejected"]
           /\ UNCHANGED ref
  BY <1>1, <1>2, <1>5 DEF AuditInv, AuditKept, AppliedHasEffect,
     OutcomeIsDocumented, AuditTrail, Typed
<1>6. CASE /\ status[cur[p]] = "applying"
           /\ status' = [status EXCEPT ![cur[p]] = "cancelled"]
           /\ error' = [error EXCEPT ![cur[p]] = "unverifiable"]
           /\ UNCHANGED ref
  BY <1>1, <1>2, <1>6 DEF AuditInv, AuditKept, AppliedHasEffect,
     OutcomeIsDocumented, AuditTrail, Typed
<1>7. QED
  BY <1>3, <1>4, <1>5, <1>6
     DEF Record, mark_applied, mark_failed, mark_cancelled, CloseRow

\* The audit invariant is inductive.
LEMMA AuditStep ==
  ASSUME AuditInv, [Next]_vars
  PROVE  AuditKept
<1> USE DEF AuditInv
<1>1. ASSUME NEW p \in Procs, CallStep(p)
      PROVE  AuditKept
  <2>1. CASE \/ MarkRunning(p) \/ FetchPending(p) \/ FetchApplyingStale(p)
             \/ CountOutcomes(p) \/ SetOutcome(p) \/ TargetRejects(p)
    BY <2>1 DEF MarkRunning, FetchPending, FetchApplyingStale, CountOutcomes,
       SetOutcome, TargetRejects, Goto, Typed, rowVars, AckIsReal,
       AuditKept, AppliedHasEffect, OutcomeIsDocumented, AuditTrail
  <2>2. ASSUME NEW k \in Keys, Reserve(p, k)
        PROVE  AuditKept
    <3>1. AckIsReal'
      BY <2>2 DEF Reserve, Take, Goto, Typed, AckIsReal
    <3>2. /\ AppliedHasEffect' /\ OutcomeIsDocumented'
          /\ AuditTrail => AuditTrail'
      BY <2>2 DEF Reserve, Typed, AuditKept, AppliedHasEffect,
         OutcomeIsDocumented, AuditTrail
    <3>3. QED
      BY <3>1, <3>2 DEF AuditKept
  <2>3. ASSUME NEW k \in Keys, CheckApplied(p, k)
        PROVE  AuditKept
    <3>1. CASE effects[k] > 0 /\ Take(p, k, "confirm") /\ ack' = [ack EXCEPT ![p] = 1]
      <4>1. effects[k] \in Nat /\ effects' = effects /\ cur'[p] = k /\ ack'[p] = 1
        BY <2>3, <3>1 DEF CheckApplied, Take, Typed
      <4>2. \A q \in Procs \ {p} : pc'[q] = pc[q] /\ cur'[q] = cur[q] /\ ack'[q] = ack[q]
        BY <3>1 DEF Take, Goto, Typed
      <4>3. QED
        BY <2>3, <3>1, <4>1, <4>2
           DEF CheckApplied, AckIsReal, AuditKept, AppliedHasEffect,
              OutcomeIsDocumented, AuditTrail, rowVars
    <3>2. CASE /\ UNCHANGED ack
               /\ Take(p, k, "apply") \/ Take(p, k, "mark_cancelled")
      BY <2>3, <3>2 DEF CheckApplied, Take, Goto, Typed, AckIsReal, AuditKept,
         AppliedHasEffect, OutcomeIsDocumented, AuditTrail, rowVars
    <3>3. QED
      BY <2>3, <3>1, <3>2 DEF CheckApplied
  <2>4. CASE Confirm(p) \/ Cancel(p) \/ RecordAck(p) \/ RecordRejection(p)
    <3>1. cur[p] \in Keys
      BY <2>4 DEF Typed, InHand, Claiming, Confirm, Cancel, RecordAck, RecordRejection
    <3>2. pc[p] \in {"mark_applied", "confirm"} => ack[p] \in 1..effects[cur[p]]
      BY DEF AckIsReal
    <3>3. QED
      BY <2>4, <3>1, <3>2, RecordAudit
         DEF Confirm, Cancel, RecordAck, RecordRejection
  <2>5. CASE CountUnfinished(p) \/ Publish(p)
    <3>1. AckIsReal'
      BY <2>5 DEF CountUnfinished, Publish, Forget, Goto, Typed, AckIsReal
    <3>2. UNCHANGED <<status, ref, error, effects>>
      BY <2>5 DEF CountUnfinished, Publish, rowVars
    <3>3. QED
      BY <3>1, <3>2
         DEF AuditKept, AppliedHasEffect, OutcomeIsDocumented, AuditTrail
  <2>6. CASE TargetAccepts(p)
    <3>1. cur[p] \in Keys /\ pc' = [pc EXCEPT ![p] = "mark_applied"]
      BY <2>6 DEF TargetAccepts, Typed, InHand, Claiming, Goto
    <3>2. \A k \in Keys : effects[k] \in Nat /\ effects'[k] \in Nat /\ effects[k] <= effects'[k]
      BY <2>6, <3>1 DEF TargetAccepts, Typed
    <3>3. ack'[p] \in 1..effects'[cur[p]]
      BY <2>6, <3>1 DEF TargetAccepts, Typed
    <3>4. \A q \in Procs \ {p} : pc'[q] = pc[q] /\ ack'[q] = ack[q]
      BY <2>6, <3>1 DEF TargetAccepts, Typed
    <3>5. AckIsReal'
      <4>1. ASSUME NEW q \in Procs, q # p, pc'[q] \in {"mark_applied", "confirm"}
            PROVE  ack'[q] \in 1..effects'[cur'[q]]
        <5>1. cur'[q] = cur[q] /\ cur[q] \in Keys /\ ack[q] \in 1..effects[cur[q]]
          BY <2>6, <3>4, <4>1
             DEF TargetAccepts, Typed, InHand, Claiming, AckIsReal
        <5>2. QED
          BY <3>2, <3>4, <4>1, <5>1
      <4>2. cur' = cur
        BY <2>6 DEF TargetAccepts
      <4>3. QED
        BY <3>3, <4>1, <4>2 DEF AckIsReal
    <3>6. /\ AppliedHasEffect' /\ OutcomeIsDocumented'
          /\ AuditTrail => AuditTrail'
      <4>1. UNCHANGED rowVars
        BY <2>6 DEF TargetAccepts
      <4>2. QED
        BY <3>2, <4>1 DEF AuditKept, AppliedHasEffect, OutcomeIsDocumented,
           AuditTrail, rowVars
    <3>7. QED
      BY <3>5, <3>6 DEF AuditKept
  <2>7. QED
    BY <1>1, <2>1, <2>2, <2>3, <2>4, <2>5, <2>6
       DEF CallStep, RunStep, ReconcileStep, SharedStep
<1>2. ASSUME NEW p \in Procs, Goto(p, "mark_running") \/ Goto(p, "fetch_applying_stale"),
             UNCHANGED <<rowVars, effects, cur, ack>>
      PROVE  AuditKept
  BY <1>2 DEF Goto, Typed, rowVars, AckIsReal, AuditKept, AppliedHasEffect,
     OutcomeIsDocumented, AuditTrail
<1>3. ASSUME NEW p \in Procs, Crash(p)
      PROVE  AuditKept
  BY <1>3 DEF Crash, Forget, Goto, Typed, rowVars, AckIsReal, AuditKept,
     AppliedHasEffect, OutcomeIsDocumented, AuditTrail
<1>4. CASE RetryFailed
  BY <1>4 DEF RetryFailed, Typed, callVars, AckIsReal, AuditKept,
     AppliedHasEffect, OutcomeIsDocumented, AuditTrail
<1>5. ASSUME UNCHANGED <<status, ref, error, effects, callVars>>
      PROVE  AuditKept
  BY <1>5 DEF callVars, AckIsReal, AuditKept, AppliedHasEffect,
     OutcomeIsDocumented, AuditTrail
<1>6. CASE \/ \E k \in Keys : ClaimAges(k)
           \/ SetDeleted("delete", TRUE) \/ SetDeleted("restore", FALSE)
           \/ UNCHANGED vars
  BY <1>5, <1>6 DEF ClaimAges, SetDeleted, vars, rowVars
<1>7. CASE \/ \E p \in Runners : StartRun(p)
           \/ \E p \in Reconcilers : StartReconcile(p)
  BY <1>2, <1>7 DEF StartRun, StartReconcile, Procs
<1>8. QED
  BY <1>1, <1>3, <1>4, <1>6, <1>7 DEF Next

\* The audit link is never broken: whatever crashes, overlapping runs, late
\* marks, reconcile passes and retries do, and even in a target that does not
\* dedup, an applied row names an effect the target holds, a failed or
\* cancelled row carries its own reason, and no other row carries either.
THEOREM AuditLinkHolds == Spec => [](AppliedHasEffect /\ AuditTrail)
<1>1. Init => AuditInv /\ AuditTrail
  BY InitType DEF Init, AuditInv, AckIsReal, AppliedHasEffect,
     OutcomeIsDocumented, AuditTrail
<1>2. AuditInv /\ AuditTrail /\ [Next]_vars => AuditInv' /\ AuditTrail'
  BY AuditStep, NextType DEF AuditInv, AuditKept
<1>3. AuditInv => AppliedHasEffect
  BY DEF AuditInv
<1>4. QED
  BY <1>1, <1>2, <1>3, PTL DEF Spec

\* In particular an applied row always names an effect the target holds.
THEOREM AppliedIsReal == Spec => []AppliedHasEffect
BY AuditLinkHolds, PTL

-----------------------------------------------------------------------------
\* The roll-up, however stale.

\* Every count of successes that is kept anywhere is one the ledger backs.
CountsBacked ==
  /\ RollupNeverOverclaims
  /\ \A p \in Procs : tally[p].applied <= AppliedCount

\* The number of applied items never falls.
LEMMA AppliedGrows ==
  ASSUME Typed, [Next]_vars
  PROVE  AppliedCount \in Nat /\ AppliedCount' \in Nat /\ AppliedCount <= AppliedCount'
<1>1. InStatus({"applied"}) \subseteq InStatus({"applied"})'
  BY FinalStep DEF OutcomeStep, InStatus
<1>2. InStatus({"applied"})' \subseteq Keys /\ IsFiniteSet(Keys)
  BY KeysAssumption DEF InStatus
<1>3. IsFiniteSet(InStatus({"applied"})') /\ IsFiniteSet(InStatus({"applied"}))
  BY <1>1, <1>2, FS_Subset
<1>4. QED
  BY <1>1, <1>3, FS_Subset, FS_CardinalityType DEF AppliedCount

\* Where a count of successes can come from: the ledger as it stands, or a
\* count that was kept before.
CountMoves ==
  /\ job'.succeeded = job.succeeded \/ \E p \in Procs : job'.succeeded = tally[p].applied
  /\ event'.succeeded = event.succeeded \/ \E p \in Procs : event'.succeeded = tally[p].applied
  /\ \A p \in Procs : tally'[p].applied \in {tally[p].applied, 0, AppliedCount}

LEMMA CountsCome ==
  ASSUME Typed, [Next]_vars
  PROVE  CountMoves
<1>1. ASSUME NEW p \in Procs, CountOutcomes(p)
      PROVE  CountMoves
  BY <1>1 DEF CountOutcomes, Typed, AppliedCount, CountMoves
<1>2. ASSUME NEW p \in Procs, SetOutcome(p)
      PROVE  CountMoves
  BY <1>2 DEF SetOutcome, Typed, CountMoves
<1>3. ASSUME NEW p \in Procs, Publish(p)
      PROVE  CountMoves
  BY <1>3 DEF Publish, Forget, Typed, NoTally, CountMoves
<1>4. ASSUME NEW p \in Procs, Forget(p), UNCHANGED <<job, event>>
      PROVE  CountMoves
  BY <1>4 DEF Forget, Typed, NoTally, CountMoves
<1>5. ASSUME UNCHANGED <<event, tally>>, job'.succeeded = job.succeeded
      PROVE  CountMoves
  BY <1>5 DEF CountMoves
<1>6. ASSUME NEW p \in Procs,
             Confirm(p) \/ Cancel(p) \/ RecordAck(p) \/ RecordRejection(p)
      PROVE  CountMoves
  BY <1>4, <1>5, <1>6 DEF Confirm, Cancel, RecordAck, RecordRejection, Record, PutDown
<1>7. ASSUME NEW p \in Procs, CountUnfinished(p) \/ Crash(p)
      PROVE  CountMoves
  BY <1>4, <1>5, <1>7 DEF CountUnfinished, Crash
<1>8. ASSUME NEW p \in Procs,
             \/ MarkRunning(p) \/ FetchPending(p) \/ FetchApplyingStale(p)
             \/ \E k \in Keys : Reserve(p, k) \/ CheckApplied(p, k)
             \/ TargetAccepts(p) \/ TargetRejects(p)
             \/ StartRun(p) \/ StartReconcile(p)
      PROVE  CountMoves
  <2>1. UNCHANGED <<event, tally>> /\ job'.succeeded = job.succeeded
    BY <1>8
       DEF MarkRunning, FetchPending, FetchApplyingStale, Reserve, CheckApplied,
       TargetAccepts, TargetRejects, StartRun, StartReconcile, Typed
  <2>2. QED
    BY <1>5, <2>1
<1>9. CASE \/ \E k \in Keys : ClaimAges(k)
           \/ RetryFailed \/ UNCHANGED vars
           \/ SetDeleted("delete", TRUE) \/ SetDeleted("restore", FALSE)
  <2>1. UNCHANGED <<event, tally>> /\ job'.succeeded = job.succeeded
    BY <1>9 DEF ClaimAges, RetryFailed, SetDeleted, vars, callVars, Typed
  <2>2. QED
    BY <1>5, <2>1
<1>10. QED
  BY <1>1, <1>2, <1>3, <1>6, <1>7, <1>8, <1>9
     DEF Next, CallStep, RunStep, ReconcileStep, SharedStep, Procs

\* Neither the job row nor a completion event ever claims a success the item
\* ledger does not hold, whichever order concurrent roll-ups are written in.
THEOREM RollupIsBacked == Spec => []RollupNeverOverclaims
<1>1. Init => CountsBacked
  <2>1. Init => AppliedCount \in Nat
    BY CountType DEF AppliedCount
  <2>2. QED
    BY <2>1 DEF Init, CountsBacked, RollupNeverOverclaims, NoTally, NoEvent
<1>2. ASSUME Typed, CountsBacked, [Next]_vars
      PROVE  CountsBacked'
  <2>1. /\ AppliedCount \in Nat /\ AppliedCount' \in Nat /\ AppliedCount <= AppliedCount'
        /\ CountMoves
    BY <1>2, AppliedGrows, CountsCome
  <2>2. /\ job.succeeded \in Nat /\ event.succeeded \in Nat
        /\ \A p \in Procs : tally[p].applied \in Nat
    BY <1>2 DEF Typed
  <2>3. RollupNeverOverclaims'
    BY <1>2, <2>1, <2>2 DEF CountsBacked, RollupNeverOverclaims, CountMoves
  <2>4. \A p \in Procs : tally'[p].applied <= AppliedCount'
    BY <1>2, <2>1, <2>2 DEF CountsBacked, CountMoves
  <2>5. QED
    BY <2>3, <2>4 DEF CountsBacked
<1>3. CountsBacked => RollupNeverOverclaims
  BY DEF CountsBacked
<1>4. QED
  BY <1>1, <1>2, <1>3, TypedAlways, PTL DEF Spec

-----------------------------------------------------------------------------
\* What a reconcile pass completes.

\* Each kind of call keeps to its own statements.
LEMMA KindsStep ==
  ASSUME Typed, Kinds, [Next]_vars
  PROVE  Kinds'
<1>1. ASSUME NEW p \in Procs, NEW label, pc' = [pc EXCEPT ![p] = label],
             p \in Runners =>
               label \notin {"fetch_applying_stale", "check_applied", "confirm", "mark_cancelled"},
             p \in Reconcilers => label \notin {"mark_running", "fetch_pending", "reserve"}
      PROVE  Kinds'
  BY <1>1 DEF Typed, Kinds, Procs
<1>2. CASE UNCHANGED pc
  BY <1>2 DEF Kinds
<1>3. ASSUME NEW p \in Procs, Goto(p, "idle") \/ Goto(p, LoopHead(p))
      PROVE  Kinds'
  BY <1>1, <1>3, ProcsAssumption DEF Goto, LoopHead, Procs
<1>4. ASSUME NEW p \in Procs, CallStep(p)
      PROVE  Kinds'
  <2>1. CASE MarkRunning(p) \/ FetchPending(p) \/ \E k \in Keys : Reserve(p, k)
    <3>1. p \notin Reconcilers
      BY <2>1 DEF MarkRunning, FetchPending, Reserve, Kinds
    <3>2. \/ UNCHANGED pc
          \/ \E label \in {"fetch_pending", "reserve", "apply"} : pc' = [pc EXCEPT ![p] = label]
      BY <2>1 DEF MarkRunning, FetchPending, Reserve, Take, Goto
    <3>3. QED
      BY <1>1, <1>2, <3>1, <3>2
  <2>2. CASE FetchApplyingStale(p) \/ \E k \in Keys : CheckApplied(p, k)
    <3>1. p \notin Runners
      BY <2>2 DEF FetchApplyingStale, CheckApplied, Kinds
    <3>2. \E label \in {"check_applied", "confirm", "apply", "mark_cancelled"} :
            pc' = [pc EXCEPT ![p] = label]
      BY <2>2 DEF FetchApplyingStale, CheckApplied, Take, Goto
    <3>3. QED
      BY <1>1, <3>1, <3>2
  <2>3. CASE Confirm(p) \/ Cancel(p) \/ RecordAck(p) \/ RecordRejection(p)
    BY <1>3, <2>3 DEF Confirm, Cancel, RecordAck, RecordRejection, Record,
       PutDown, Forget
  <2>4. CASE CountUnfinished(p) \/ Publish(p)
    BY <1>1, <1>3, <2>4 DEF CountUnfinished, Publish, Forget, Goto
  <2>5. CASE TargetAccepts(p) \/ TargetRejects(p) \/ CountOutcomes(p) \/ SetOutcome(p)
    BY <1>1, <2>5 DEF TargetAccepts, TargetRejects, CountOutcomes, SetOutcome, Goto
  <2>6. QED
    BY <1>4, <2>1, <2>2, <2>3, <2>4, <2>5
       DEF CallStep, RunStep, ReconcileStep, SharedStep
<1>5. CASE \/ \E p \in Runners : StartRun(p)
           \/ \E p \in Reconcilers : StartReconcile(p)
           \/ \E p \in Procs : Crash(p)
  BY <1>1, <1>3, <1>5, ProcsAssumption DEF StartRun, StartReconcile, Crash,
     Forget, Goto, Procs
<1>6. CASE \/ \E k \in Keys : ClaimAges(k)
           \/ RetryFailed \/ UNCHANGED vars
           \/ SetDeleted("delete", TRUE) \/ SetDeleted("restore", FALSE)
  BY <1>2, <1>6 DEF ClaimAges, RetryFailed, SetDeleted, vars, callVars
<1>7. QED
  BY <1>4, <1>5, <1>6 DEF Next

\* A job without a retry that is done stays done.
LEMMA DoneStays ==
  ASSUME Typed, [Next]_vars, "retry" \notin Interventions, Unfinished = {}
  PROVE  Unfinished' = {}
<1>1. \A k \in Keys : status[k] \notin {"pending", "applying"}
  BY DEF Unfinished, InStatus
<1>2. \A k \in Keys : status'[k] = status[k]
  <2>1. ASSUME NEW p \in Procs, CallStep(p)
        PROVE  \A k \in Keys : status'[k] = status[k]
    <3>1. ASSUME NEW k \in Keys, Reserve(p, k)
          PROVE  UNCHANGED status
      BY <1>1, <3>1 DEF Reserve
    <3>2. CASE Confirm(p) \/ Cancel(p) \/ RecordAck(p) \/ RecordRejection(p)
      BY <1>1, <3>2, CloseMovesApplying DEF Confirm, Cancel, RecordAck, RecordRejection
    <3>3. CASE \/ MarkRunning(p) \/ FetchPending(p) \/ FetchApplyingStale(p)
               \/ \E k \in Keys : CheckApplied(p, k)
               \/ CountUnfinished(p) \/ TargetAccepts(p) \/ TargetRejects(p)
               \/ CountOutcomes(p) \/ SetOutcome(p) \/ Publish(p)
      BY <3>3 DEF MarkRunning, FetchPending, FetchApplyingStale, CheckApplied,
         CountUnfinished, TargetAccepts, TargetRejects, CountOutcomes, SetOutcome,
         Publish, rowVars
    <3>4. QED
      BY <2>1, <3>1, <3>2, <3>3 DEF CallStep, RunStep, ReconcileStep, SharedStep
  <2>2. CASE \/ \E p \in Runners : StartRun(p)
             \/ \E p \in Reconcilers : StartReconcile(p)
             \/ \E p \in Procs : Crash(p)
             \/ \E k \in Keys : ClaimAges(k)
             \/ SetDeleted("delete", TRUE) \/ SetDeleted("restore", FALSE)
             \/ UNCHANGED vars
    BY <2>2 DEF StartRun, StartReconcile, Crash, ClaimAges, SetDeleted, rowVars, vars
  <2>3. ~RetryFailed
    BY DEF RetryFailed
  <2>4. QED
    BY <2>1, <2>2, <2>3 DEF Next
<1>3. QED
  BY <1>1, <1>2 DEF Unfinished, InStatus

\* A step keeps what holds of the passes that roll up.
LEMMA CompletionStep ==
  ASSUME Typed, Kinds, ReconcileCompletesOnlyDone, [Next]_vars
  PROVE  Kinds' /\ ReconcileCompletesOnlyDone'
<1> DEFINE Closing == {"count_outcomes", "set_outcome", "publish"}
<1>1. Kinds'
  BY KindsStep
<1>2. ASSUME "retry" \notin Interventions, NEW p \in Reconcilers, pc'[p] \in Closing
      PROVE  Unfinished' = {}
  <2>1. CASE pc[p] \in Closing
    BY <1>2, <2>1, DoneStays DEF ReconcileCompletesOnlyDone
  <2>2. CASE pc[p] \notin Closing
    <3>1. CountUnfinished(p)
      <4>1. pc'[p] # pc[p] /\ pc[p] # "reserve" /\ p \in Procs /\ pc \in [Procs -> Labels]
        BY <1>2, <2>2 DEF Kinds, Procs, Typed
      <4>2. ASSUME NEW q \in Procs, CallStep(q)
            PROVE  CountUnfinished(p)
        <5>1. CASE q # p
          <6>1. \E label : pc' = pc \/ pc' = [pc EXCEPT ![q] = label]
            BY <4>2 DEF CallStep, RunStep, ReconcileStep, SharedStep, MarkRunning,
               FetchPending, Reserve, FetchApplyingStale, CheckApplied, Confirm,
               Cancel, CountUnfinished, TargetAccepts, TargetRejects, RecordAck,
               RecordRejection, CountOutcomes, SetOutcome, Publish, Record, PutDown,
               Forget, Take, Goto
          <6>2. QED
            BY <4>1, <5>1, <6>1
        <5>2. CASE q = p
          <6>1. ASSUME NEW label, label \notin Closing, pc' = [pc EXCEPT ![p] = label]
                PROVE  FALSE
            BY <1>2, <4>1, <6>1
          <6>2. ~(pc' = pc)
            BY <4>1
          <6>3. ~MarkRunning(p) /\ ~FetchPending(p) /\ ~FetchApplyingStale(p)
            BY <6>1 DEF MarkRunning, FetchPending, FetchApplyingStale, Goto
          <6>4. ~\E k \in Keys : Reserve(p, k) \/ CheckApplied(p, k)
            BY <4>1, <6>1 DEF Reserve, CheckApplied, Take, Goto
          <6>5. ~Confirm(p) /\ ~Cancel(p) /\ ~RecordAck(p) /\ ~RecordRejection(p)
            BY <6>1 DEF Confirm, Cancel, RecordAck, RecordRejection, Record, PutDown,
               Forget, Goto, LoopHead
          <6>6. ~TargetAccepts(p) /\ ~TargetRejects(p) /\ ~Publish(p)
            BY <6>1 DEF TargetAccepts, TargetRejects, Publish, Forget, Goto
          <6>7. ~CountOutcomes(p) /\ ~SetOutcome(p)
            BY <2>2, <4>1 DEF CountOutcomes, SetOutcome
          <6>8. QED
            BY <4>2, <5>2, <6>3, <6>4, <6>5, <6>6, <6>7
               DEF CallStep, RunStep, ReconcileStep, SharedStep
        <5>3. QED
          BY <5>1, <5>2
      <4>3. ~\E q \in Procs : Goto(q, "mark_running") \/ Goto(q, "fetch_applying_stale") \/ Goto(q, "idle")
        BY <1>2, <4>1 DEF Goto
      <4>4. CASE \/ \E q \in Runners : StartRun(q)
                 \/ \E q \in Reconcilers : StartReconcile(q)
                 \/ \E q \in Procs : Crash(q)
        BY <4>3, <4>4 DEF StartRun, StartReconcile, Crash, Forget, Procs
      <4>5. CASE \/ \E k \in Keys : ClaimAges(k)
                 \/ RetryFailed \/ UNCHANGED vars
                 \/ SetDeleted("delete", TRUE) \/ SetDeleted("restore", FALSE)
        BY <4>1, <4>5 DEF ClaimAges, RetryFailed, SetDeleted, vars, callVars
      <4>6. QED
        BY <4>2, <4>4, <4>5 DEF Next
    <3>2. Unfinished = {}
      <4>1. CASE Forget(p)
        BY <1>2, <4>1 DEF Forget, Goto, Typed, Procs
      <4>2. QED
        BY <3>1, <4>1 DEF CountUnfinished, Unfinished
    <3>3. QED
      BY <1>2, <3>2, DoneStays
  <2>3. QED
    BY <2>1, <2>2
<1>3. QED
  BY <1>1, <1>2 DEF ReconcileCompletesOnlyDone

\* A reconcile pass that rolls a job up and publishes its completion does so
\* for a job that is done, and that stays done: for any number of passes and
\* runs beside it, any target and any fence.
THEOREM ReconcilerCompletesDoneJobs == Spec => []ReconcileCompletesOnlyDone
<1>1. Init => Kinds /\ ReconcileCompletesOnlyDone
  BY DEF Init, Kinds, ReconcileCompletesOnlyDone, Procs
<1>2. Typed /\ Kinds /\ ReconcileCompletesOnlyDone /\ [Next]_vars
        => Kinds' /\ ReconcileCompletesOnlyDone'
  BY CompletionStep
<1>3. QED
  BY <1>1, <1>2, TypedAlways, PTL DEF Spec
=============================================================================

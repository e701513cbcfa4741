-------------------------- MODULE CrudSurfaceProofs --------------------------
(***************************************************************************)
(* Theorems about the engine with the CRUD routes beside it, for any       *)
(* number of items, calls, requests and crashes, any target and, but for   *)
(* the last theorem, any fence.  The engine's own steps are handled by the *)
(* lemmas of BulkEngineProofs and BulkClaimProofs; what is new is that a   *)
(* request writes back what was once true.                                 *)
(***************************************************************************)
EXTENDS CrudSurface, BulkClaimProofs

\* The items whose effect the target holds.
Held == {k \in Keys : effects[k] > 0}
HeldCount == Cardinality(Held)

\* A row that a client keeps shows an outcome the item once had: its evidence
\* is with it, and an effect the target held then it holds now.
RequestWasTrue ==
  request.of = "item" =>
    /\ request.row.status = "applied" => request.row.ref \in 1..effects[request.key]
    /\ request.row.status = "failed" => request.row.error = "rejected"
    /\ request.row.status = "cancelled" => request.row.error = "unverifiable"

\* Every count of successes that is kept anywhere, in a client's hand too, is
\* backed by effects.
CountsHeld ==
  /\ EffectsBackRollups
  /\ \A p \in Procs : tally[p].applied <= HeldCount
  /\ request.of = "job" => request.row.succeeded <= HeldCount

SurfaceInv ==
  SurfaceTypeOK /\ AuditInv /\ RequestWasTrue /\ CountsHeld

-----------------------------------------------------------------------------
\* The engine's steps.

\* The target forgets no effect.
LEMMA EffectsGrow ==
  ASSUME Typed, [Next]_vars
  PROVE  /\ \A k \in Keys : /\ effects[k] \in Nat /\ effects'[k] \in Nat
                            /\ effects[k] <= effects'[k]
         /\ HeldCount \in Nat /\ HeldCount' \in Nat /\ HeldCount <= HeldCount'
<1>1. \A k \in Keys : effects[k] \in Nat /\ effects'[k] \in Nat /\ effects[k] <= effects'[k]
  <2>1. ASSUME NEW p \in Procs, TargetAccepts(p)
        PROVE  \A k \in Keys : effects[k] \in Nat /\ effects'[k] \in Nat /\ effects[k] <= effects'[k]
    <3>1. cur[p] \in Keys /\ effects \in [Keys -> 0..MaxEffects]
      BY <2>1 DEF TargetAccepts, Typed, InHand, Claiming
    <3>2. effects' = effects \/ effects' = [effects EXCEPT ![cur[p]] = @ + 1]
      BY <2>1 DEF TargetAccepts
    <3>3. \A k \in Keys : effects[k] \in Nat
      BY <3>1, BoundAssumption
    <3>4. QED
      BY <3>1, <3>2, <3>3
  <2>2. ASSUME NEW p \in Procs, CallStep(p), ~TargetAccepts(p)
        PROVE  UNCHANGED effects
    BY <2>2
       DEF CallStep, RunStep, ReconcileStep, SharedStep, MarkRunning, FetchPending,
       Reserve, FetchApplyingStale, CheckApplied, Confirm, Cancel, CountUnfinished,
       TargetRejects, RecordAck, RecordRejection, Record, CountOutcomes, SetOutcome,
       Publish
  <2>3. CASE UNCHANGED effects
    BY <2>3 DEF Typed
  <2>4. QED
    BY <2>1, <2>2, <2>3
       DEF Next, vars, StartRun, StartReconcile, Crash, ClaimAges, RetryFailed, SetDeleted
<1>2. Held \subseteq Held'
  BY <1>1 DEF Held
<1>3. IsFiniteSet(Held) /\ IsFiniteSet(Held')
  BY KeysAssumption, FS_Subset DEF Held
<1>4. QED
  BY <1>1, <1>2, <1>3, FS_Subset, FS_CardinalityType DEF HeldCount

\* No more items read applied than the target holds effects for.
LEMMA AppliedIsHeld ==
  ASSUME Typed, AppliedHasEffect
  PROVE  AppliedCount \in Nat /\ HeldCount \in Nat /\ AppliedCount <= HeldCount
<1>1. InStatus({"applied"}) \subseteq Held
  BY DEF InStatus, Held, AppliedHasEffect, Typed
<1>2. IsFiniteSet(Held)
  BY KeysAssumption, FS_Subset DEF Held
<1>3. QED
  BY <1>1, <1>2, FS_Subset, FS_CardinalityType DEF AppliedCount, HeldCount

\* A step of the engine, or none, keeps the invariant: what clients keep was
\* true before it and is no less true after.
LEMMA EngineKeeps ==
  ASSUME SurfaceInv, [Next]_vars, UNCHANGED crudVars
  PROVE  SurfaceInv'
<1> USE DEF SurfaceInv, SurfaceTypeOK, crudVars
<1>1. Typed /\ Typed'
  BY NextType
<1>2. SurfaceTypeOK'
  BY <1>1, NoRowGoes DEF Present
<1>3. AuditInv'
  BY <1>1, AuditStep DEF AuditInv, AuditKept
<1>4. /\ \A k \in Keys : /\ effects[k] \in Nat /\ effects'[k] \in Nat
                         /\ effects[k] <= effects'[k]
      /\ HeldCount \in Nat /\ HeldCount' \in Nat /\ HeldCount <= HeldCount'
  BY <1>1, EffectsGrow
<1>5. RequestWasTrue'
  <2>1. ASSUME request.of = "item"
        PROVE  request.key \in Keys /\ request.row.ref \in Nat
    BY <2>1, BoundAssumption DEF NoRequest, BulkJobItem
  <2>2. QED
    BY <1>4, <2>1 DEF RequestWasTrue
<1>6. CountsHeld'
  <2>1. CountMoves /\ AppliedCount \in Nat /\ AppliedCount <= HeldCount
    BY <1>1, CountsCome, AppliedIsHeld DEF AuditInv
  <2>2. /\ job.succeeded \in Nat /\ event.succeeded \in Nat
        /\ \A p \in Procs : tally[p].applied \in Nat
    BY DEF Typed
  <2>3. EffectsBackRollups'
    BY <1>4, <2>1, <2>2 DEF CountsHeld, EffectsBackRollups, CountMoves, HeldCount, Held
  <2>4. \A p \in Procs : tally'[p].applied <= HeldCount'
    BY <1>4, <2>1, <2>2 DEF CountsHeld, CountMoves
  <2>5. request.of = "job" => request.row.succeeded <= HeldCount'
    <3>1. request.of = "job" => request.row.succeeded \in Nat
      BY DEF NoRequest, BulkJob
    <3>2. QED
      BY <1>4, <3>1 DEF CountsHeld
  <2>6. QED
    BY <2>3, <2>4, <2>5 DEF CountsHeld
<1>7. QED
  BY <1>2, <1>3, <1>5, <1>6

-----------------------------------------------------------------------------
\* The requests.

\* What a request leaves as it is.
LEMMA Beside ==
  ASSUME UNCHANGED <<effects, event, callVars>>
  PROVE  /\ AckIsReal = AckIsReal' /\ HeldCount = HeldCount'
         /\ InHand = InHand'
BY DEF AckIsReal, HeldCount, Held, InHand, callVars

\* A client reads a row.
LEMMA ReadKeeps ==
  ASSUME SurfaceInv, GetJob \/ \E k \in Keys : GetItem(k)
  PROVE  SurfaceInv'
<1> USE DEF SurfaceInv
<1>1. UNCHANGED <<vars, trashed, edits>>
  BY DEF GetJob, GetItem
<1>2. Typed' /\ AuditInv'
  BY <1>1 DEF SurfaceTypeOK, Typed, InHand, AuditInv, AckIsReal, AppliedHasEffect,
     OutcomeIsDocumented, vars, rowVars, callVars
<1>3. CASE GetJob
  <2>1. request' = JobRequest(JobResponse)
    BY <1>3 DEF GetJob
  <2>2. JobResponse \in BulkJob /\ JobResponse.succeeded = job.succeeded
    BY DEF JobResponse, BulkJob, SurfaceTypeOK, Typed
  <2>3. SurfaceTypeOK'
    BY <1>1, <1>2, <2>1, <2>2 DEF SurfaceTypeOK, JobRequest, Present, vars, rowVars
  <2>4. RequestWasTrue'
    BY <2>1 DEF RequestWasTrue, JobRequest
  <2>5. CountsHeld'
    BY <1>1, <2>1, <2>2 DEF CountsHeld, EffectsBackRollups, JobRequest, HeldCount, Held,
       vars, callVars
  <2>6. QED
    BY <1>2, <2>3, <2>4, <2>5
<1>4. ASSUME NEW k \in Keys, GetItem(k)
      PROVE  SurfaceInv'
  <2>1. request' = ItemRequest(k, ItemResponse(k)) /\ status[k] # "purged"
    BY <1>4 DEF GetItem, Active, Present
  <2>2. ItemResponse(k) \in BulkJobItem
    BY <2>1 DEF ItemResponse, BulkJobItem, SurfaceTypeOK, Typed, RowStatus
  <2>3. SurfaceTypeOK'
    BY <1>1, <1>2, <2>1, <2>2 DEF SurfaceTypeOK, ItemRequest, Present, vars, rowVars
  <2>4. RequestWasTrue'
    BY <1>1, <2>1 DEF RequestWasTrue, ItemRequest, ItemResponse, AuditInv,
       AppliedHasEffect, OutcomeIsDocumented, vars
  <2>5. CountsHeld'
    BY <1>1, <2>1 DEF CountsHeld, EffectsBackRollups, ItemRequest, HeldCount, Held,
       vars, callVars
  <2>6. QED
    BY <1>2, <2>3, <2>4, <2>5
<1>5. QED
  BY <1>3, <1>4

\* A client writes an item row back: as it once was, or as pending.
LEMMA WriteItemKeeps ==
  ASSUME SurfaceInv, request.of = "item", Present(request.key), NEW row \in BulkJobItem,
         row = request.row \/ row.status = "pending",
         WriteItem(request.key, row), Written, request' = NoRequest, UNCHANGED trashed
  PROVE  SurfaceInv'
<1> USE DEF SurfaceInv
<1> DEFINE k == request.key
<1>1. /\ k \in Keys /\ status[k] # "purged"
      /\ row.status \in ItemStatus /\ row.ref \in 0..MaxEffects
      /\ row.error \in {"none", "rejected", "unverifiable"}
  BY DEF SurfaceTypeOK, NoRequest, Present, BulkJobItem
<1>2. /\ status' = [status EXCEPT ![k] = row.status]
      /\ ref' = [ref EXCEPT ![k] = row.ref]
      /\ error' = [error EXCEPT ![k] = row.error]
      /\ aged' = [aged EXCEPT ![k] = FALSE]
      /\ UNCHANGED <<job, effects, event, callVars, crashes>>
  BY DEF WriteItem
<1>3. Typed'
  BY <1>1, <1>2, Beside DEF SurfaceTypeOK, Typed, RowStatus, callVars
<1>4. edits' \in 0..MaxEdits
  BY EditAssumption DEF SurfaceTypeOK, Written
<1>5. SurfaceTypeOK'
  BY <1>1, <1>2, <1>3, <1>4
     DEF SurfaceTypeOK, Typed, Present, NoRequest, RowStatus, ItemStatus
<1>6. row.status = "applied" => row.ref \in 1..effects[k]
  BY DEF RequestWasTrue
<1>7. /\ row.status = "failed" => row.error = "rejected"
      /\ row.status = "cancelled" => row.error = "unverifiable"
  BY DEF RequestWasTrue
<1>8. AppliedHasEffect' /\ OutcomeIsDocumented'
  BY <1>1, <1>2, <1>6, <1>7
     DEF SurfaceTypeOK, Typed, AuditInv, AppliedHasEffect, OutcomeIsDocumented
<1>9. AuditInv'
  BY <1>2, <1>3, <1>8, Beside DEF AuditInv
<1>10. RequestWasTrue' /\ CountsHeld'
  BY <1>2, Beside DEF RequestWasTrue, CountsHeld, EffectsBackRollups, HeldCount, Held,
     NoRequest, callVars
<1>11. QED
  BY <1>5, <1>9, <1>10

\* A client writes the job row back, with counts that were backed when read.
LEMMA WriteJobKeeps ==
  ASSUME SurfaceInv, request.of = "job", NEW row \in BulkJob,
         row.succeeded \in {request.row.succeeded, 0}, WriteJob(row)
  PROVE  SurfaceInv'
<1> USE DEF SurfaceInv
<1>1. /\ UNCHANGED <<rowVars, effects, event, callVars, crashes, trashed>>
      /\ request' = NoRequest /\ Written
      /\ job' = [job EXCEPT !.status = row.status, !.succeeded = row.succeeded,
                            !.failed = row.failed]
  BY DEF WriteJob
<1>2. job' \in [status: JobStatus, succeeded: Nat, failed: Nat, deleted: BOOLEAN]
      /\ job'.succeeded = row.succeeded
  BY <1>1 DEF SurfaceTypeOK, Typed, BulkJob
<1>3. Typed'
  BY <1>1, <1>2, Beside DEF SurfaceTypeOK, Typed, rowVars, callVars
<1>4. edits' \in 0..MaxEdits
  BY <1>1, EditAssumption DEF SurfaceTypeOK, Written
<1>5. SurfaceTypeOK'
  BY <1>1, <1>3, <1>4 DEF SurfaceTypeOK, Present, NoRequest, rowVars
<1>6. AuditInv'
  BY <1>1, <1>3, Beside DEF AuditInv, AppliedHasEffect, OutcomeIsDocumented, rowVars
<1>7. HeldCount \in Nat /\ HeldCount' = HeldCount
  BY <1>1, Beside, AppliedIsHeld DEF AuditInv
<1>8. RequestWasTrue' /\ CountsHeld'
  BY <1>1, <1>2, <1>7 DEF RequestWasTrue, CountsHeld, EffectsBackRollups, HeldCount, Held,
     NoRequest, callVars
<1>9. QED
  BY <1>5, <1>6, <1>8

\* PUT and PATCH.
LEMMA UpdateKeeps ==
  ASSUME SurfaceInv, PutItem \/ PatchItem \/ PutJob \/ PatchJob
  PROVE  SurfaceInv'
<1>1. request.of = "item" => request.row \in BulkJobItem
  BY DEF SurfaceInv, SurfaceTypeOK, NoRequest
<1>2. request.of = "job" => request.row \in BulkJob
  BY DEF SurfaceInv, SurfaceTypeOK, NoRequest
<1>3. CASE PutItem
  <2>1. PICK edit \in PutEdits : WriteItem(request.key, UpdatedItem(request.row, edit))
    BY <1>3 DEF PutItem
  <2> DEFINE row == UpdatedItem(request.row, edit)
  <2>2. row \in BulkJobItem /\ (row = request.row \/ row.status = "pending")
    BY <1>1, <1>3, BoundAssumption DEF PutItem, UpdatedItem, BulkJobItem, ItemStatus
  <2> HIDE DEF row
  <2>3. QED
    BY <1>3, <2>1, <2>2, WriteItemKeeps DEF PutItem, row
<1>4. CASE PatchItem
  <2>1. PICK edit \in PatchEdits : WriteItem(request.key, PatchedItem(request.row, edit))
    BY <1>4 DEF PatchItem
  <2> DEFINE row == PatchedItem(request.row, edit)
  <2>2. row \in BulkJobItem /\ (row = request.row \/ row.status = "pending")
    BY <1>1, <1>4 DEF PatchItem, PatchedItem, BulkJobItem, ItemStatus
  <2> HIDE DEF row
  <2>3. QED
    BY <1>4, <2>1, <2>2, WriteItemKeeps DEF PatchItem, row
<1>5. CASE PutJob
  <2>1. PICK edit \in PutEdits : WriteJob(UpdatedJob(request.row, edit))
    BY <1>5 DEF PutJob
  <2> DEFINE row == UpdatedJob(request.row, edit)
  <2>2. row \in BulkJob /\ row.succeeded \in {request.row.succeeded, 0}
    BY <1>2, <1>5 DEF PutJob, UpdatedJob, BulkJob, JobStatus
  <2> HIDE DEF row
  <2>3. QED
    BY <1>5, <2>1, <2>2, WriteJobKeeps DEF PutJob, row
<1>6. CASE PatchJob
  <2>1. PICK edit \in PatchEdits : WriteJob(PatchedJob(request.row, edit))
    BY <1>6 DEF PatchJob
  <2> DEFINE row == PatchedJob(request.row, edit)
  <2>2. row \in BulkJob /\ row.succeeded \in {request.row.succeeded, 0}
    BY <1>2, <1>6 DEF PatchJob, PatchedJob, BulkJob, JobStatus
  <2> HIDE DEF row
  <2>3. QED
    BY <1>6, <2>1, <2>2, WriteJobKeeps DEF PatchJob, row
<1>7. QED
  BY <1>3, <1>4, <1>5, <1>6

\* The row is gone: nothing changes but the client.
LEMMA NotFoundKeeps ==
  ASSUME SurfaceInv, NotFound
  PROVE  SurfaceInv'
BY DEF SurfaceInv, SurfaceTypeOK, Typed, InHand, AuditInv, AckIsReal, AppliedHasEffect,
   OutcomeIsDocumented, RequestWasTrue, CountsHeld, EffectsBackRollups, HeldCount, Held,
   Present, NotFound, NoRequest, vars, rowVars, callVars

\* A row moves to the trash or back: its columns but for the stamps stay.
LEMMA SetDeletedAtKeeps ==
  ASSUME SurfaceInv, NEW k \in Keys, SoftDeleteItem(k) \/ RestoreItem(k)
  PROVE  SurfaceInv'
<1> USE DEF SurfaceInv
<1>1. \E deleted \in BOOLEAN : SetDeletedAt(k, deleted)
  BY DEF SoftDeleteItem, RestoreItem
<1>2. /\ UNCHANGED <<status, ref, error, job, effects, event, callVars, crashes, request>>
      /\ aged' = [aged EXCEPT ![k] = FALSE]
      /\ Written
  BY <1>1 DEF SetDeletedAt
<1>3. Typed'
  BY <1>2, Beside DEF SurfaceTypeOK, Typed, callVars
<1>4. trashed' \subseteq {j \in Keys : Present(j)}
  BY <1>1 DEF SetDeletedAt, SoftDeleteItem, RestoreItem, Active, SurfaceTypeOK, Present
<1>5. SurfaceTypeOK'
  BY <1>2, <1>3, <1>4, EditAssumption DEF SurfaceTypeOK, Written, Present
<1>6. AuditInv'
  BY <1>2, <1>3, Beside DEF AuditInv, AppliedHasEffect, OutcomeIsDocumented
<1>7. RequestWasTrue' /\ CountsHeld'
  BY <1>2, Beside DEF RequestWasTrue, CountsHeld, EffectsBackRollups, HeldCount, Held,
     callVars
<1>8. QED
  BY <1>5, <1>6, <1>7

\* Rows leave the table for good; what the target holds for them stays.
LEMMA PurgeKeeps ==
  ASSUME SurfaceInv, NEW rows \in SUBSET Keys, Purge(rows)
  PROVE  SurfaceInv'
<1> USE DEF SurfaceInv
<1>1. /\ UNCHANGED <<job, effects, event, callVars, crashes, request>>
      /\ status' = [k \in Keys |-> IF k \in rows THEN "purged" ELSE status[k]]
      /\ ref' = [k \in Keys |-> IF k \in rows THEN 0 ELSE ref[k]]
      /\ error' = [k \in Keys |-> IF k \in rows THEN "none" ELSE error[k]]
      /\ aged' = [k \in Keys |-> aged[k] /\ k \notin rows]
      /\ trashed' = trashed \ rows
      /\ Written
  BY DEF Purge
<1>2. Typed'
  <2>1. /\ status' \in [Keys -> RowStatus] /\ aged' \in [Keys -> BOOLEAN]
        /\ ref' \in [Keys -> 0..MaxEffects]
        /\ error' \in [Keys -> {"none", "rejected", "unverifiable"}]
    BY <1>1, BoundAssumption DEF SurfaceTypeOK, Typed, RowStatus
  <2>2. QED
    BY <1>1, <2>1, Beside DEF SurfaceTypeOK, Typed, callVars
<1>3. trashed' \subseteq {k \in Keys : status'[k] # "purged"}
  BY <1>1 DEF SurfaceTypeOK, Present
<1>4. SurfaceTypeOK'
  BY <1>1, <1>2, <1>3, EditAssumption DEF SurfaceTypeOK, Written, Present
<1>5. AuditInv'
  BY <1>1, <1>2, Beside DEF AuditInv, AppliedHasEffect, OutcomeIsDocumented
<1>6. RequestWasTrue' /\ CountsHeld'
  BY <1>1, Beside DEF RequestWasTrue, CountsHeld, EffectsBackRollups, HeldCount, Held,
     callVars
<1>7. QED
  BY <1>4, <1>5, <1>6

\* Any step at all.
LEMMA SurfaceStep ==
  ASSUME SurfaceInv, [SurfaceNext]_allVars
  PROVE  SurfaceInv'
<1>1. CASE EngineNext \/ UNCHANGED allVars
  BY <1>1, EngineKeeps DEF EngineNext, allVars
<1>2. CASE CrudNext
  <2>1. trashed \in SUBSET Keys
    BY DEF SurfaceInv, SurfaceTypeOK
  <2>2. QED
    BY <1>2, <2>1, ReadKeeps, UpdateKeeps, NotFoundKeeps, SetDeletedAtKeeps, PurgeKeeps
       DEF CrudNext, ReadNext
<1>3. QED
  BY <1>1, <1>2 DEF SurfaceNext

LEMMA SurfaceInvariant == SurfaceSpec => []SurfaceInv
<1>1. SurfaceInit => SurfaceInv
  <2>1. SurfaceInit => Typed /\ HeldCount \in Nat
    <3>1. IsFiniteSet(Held)
      BY KeysAssumption, FS_Subset DEF Held
    <3>2. QED
      BY <3>1, InitType, FS_CardinalityType DEF SurfaceInit, HeldCount
  <2>2. SurfaceInit => SurfaceTypeOK
    BY <2>1, EditAssumption DEF SurfaceInit, CrudInit, SurfaceTypeOK
  <2>3. SurfaceInit => AuditInv /\ RequestWasTrue
    BY <2>1 DEF SurfaceInit, Init, CrudInit, AuditInv, AckIsReal, AppliedHasEffect,
       OutcomeIsDocumented, RequestWasTrue, NoRequest
  <2>4. SurfaceInit => CountsHeld
    <3>1. SurfaceInit => /\ job.succeeded = 0 /\ event.succeeded = 0
                         /\ \A p \in Procs : tally[p].applied = 0
                         /\ request.of # "job"
      BY DEF SurfaceInit, Init, CrudInit, NoRequest, NoTally, NoEvent
    <3>2. QED
      BY <2>1, <3>1 DEF CountsHeld, EffectsBackRollups, HeldCount, Held
  <2>5. QED
    BY <2>2, <2>3, <2>4 DEF SurfaceInv
<1>2. SurfaceInv /\ [SurfaceNext]_allVars => SurfaceInv'
  BY SurfaceStep
<1>3. QED
  BY <1>1, <1>2, PTL DEF SurfaceSpec

-----------------------------------------------------------------------------
\* The theorems.

\* Whatever is written, trashed or purged next to the engine, every variable
\* stays in its set, and only rows that are there are in the trash.
THEOREM SurfaceTypeCorrect == SurfaceSpec => []SurfaceTypeOK
BY SurfaceInvariant, PTL DEF SurfaceInv

\* With clients that requeue, rewrite and purge rows between any two steps of
\* any number of calls, an applied row still names an effect the target holds
\* and a failed or cancelled row still carries its reason.
THEOREM WritesKeepTheEvidence == SurfaceSpec => [](AppliedHasEffect /\ OutcomeIsDocumented)
<1>1. SurfaceInv => AppliedHasEffect /\ OutcomeIsDocumented
  BY DEF SurfaceInv, AuditInv
<1>2. QED
  BY <1>1, SurfaceInvariant, PTL

\* However late a count is written, by a roll-up or by a client that kept the
\* job row, it claims no more successes than the target holds effects.
THEOREM EffectsBackEveryRollup == SurfaceSpec => []EffectsBackRollups
<1>1. SurfaceInv => EffectsBackRollups
  BY DEF SurfaceInv, CountsHeld
<1>2. QED
  BY <1>1, SurfaceInvariant, PTL

\* A request that writes is counted, so a step that counts none is the
\* engine's, a read, a 404 or nothing.
LEMMA QuietStep ==
  ASSUME SurfaceTypeOK, [SurfaceNext]_allVars, edits' = edits
  PROVE  [Next]_vars
<1>1. ~Written
  BY DEF Written, SurfaceTypeOK
<1>2. CASE CrudNext
  BY <1>1, <1>2
     DEF CrudNext, ReadNext, GetItem, GetJob, PutItem, PatchItem, PutJob, PatchJob,
     WriteJob, NotFound, SoftDeleteItem, RestoreItem, SetDeletedAt, Purge
<1>3. QED
  BY <1>2 DEF SurfaceNext, EngineNext, allVars

\* Outcomes are reopened by clients only: no step of the engine undoes one,
\* whatever has been written under the calls in progress.
THEOREM OutcomesOutliveWrites == SurfaceSpec => OnlyEditsReopen
<1> DEFINE Kept == \A k \in Keys :
             /\ status[k] \in {"applied", "cancelled"} => status'[k] = status[k]
             /\ status[k] = "failed" => status'[k] \in {"failed", "pending"}
<1>1. SurfaceInv /\ [SurfaceNext]_allVars => [edits' = edits => Kept]_allVars
  <2>1. ASSUME SurfaceInv, [SurfaceNext]_allVars, edits' = edits
        PROVE  Kept
    <3>1. Typed /\ [Next]_vars
      BY <2>1, QuietStep DEF SurfaceInv, SurfaceTypeOK
    <3>2. QED
      BY <3>1, FinalStep DEF OutcomeStep
  <2>2. QED
    BY <2>1
<1>2. QED
  BY <1>1, SurfaceInvariant, PTL DEF SurfaceSpec, OnlyEditsReopen

\* Until a client writes, a reconcile pass completes only a job that is done,
\* whatever clients read meanwhile.
THEOREM ReconcilerIsRightUntilEdited == SurfaceSpec => []UneditedCompletion
<1> DEFINE Clean == edits = 0 => Kinds /\ ReconcileCompletesOnlyDone
<1>1. SurfaceInit => Clean
  BY DEF SurfaceInit, Init, Kinds, ReconcileCompletesOnlyDone, Procs
<1>2. ASSUME SurfaceInv, Clean, [SurfaceNext]_allVars
      PROVE  Clean'
  <2>1. CASE edits' = edits
    <3>1. SurfaceTypeOK /\ Typed
      BY <1>2 DEF SurfaceInv, SurfaceTypeOK
    <3>2. [Next]_vars
      BY <1>2, <2>1, <3>1, QuietStep
    <3>3. QED
      BY <1>2, <2>1, <3>1, <3>2, CompletionStep
  <2>2. CASE edits' # edits
    <3>1. edits \in Nat /\ edits' \in Nat
      BY <1>2, SurfaceStep, EditAssumption DEF SurfaceInv, SurfaceTypeOK
    <3>2. Written
      BY <1>2, <2>2
         DEF SurfaceNext, EngineNext, allVars, crudVars, CrudNext, ReadNext, GetItem,
         GetJob, PutItem, PatchItem, PutJob, PatchJob, WriteJob, NotFound,
         SoftDeleteItem, RestoreItem, SetDeletedAt, Purge
    <3>3. edits' # 0
      BY <3>1, <3>2 DEF Written
    <3>4. QED
      BY <3>3
  <2>3. QED
    BY <2>1, <2>2
<1>3. Clean => UneditedCompletion
  BY DEF UneditedCompletion
<1> HIDE DEF Clean
<1>4. QED
  BY <1>1, <1>2, <1>3, SurfaceInvariant, PTL DEF SurfaceSpec

-----------------------------------------------------------------------------
\* What the trash cannot break.

\* No client writes the columns of an item row; the other requests come as they
\* like.
NoItemWrites == [][~PutItem /\ ~PatchItem]_allVars

\* Rows that go out of the table leave the claims as they are: a call that has
\* one in hand holds an item that is gone.
LEMMA PurgeClaim ==
  ASSUME Inv, NEW rows \in SUBSET Keys, Purge(rows)
  PROVE  ClaimInv'
<1> USE DEF Inv, ClaimInv
<1>1. /\ UNCHANGED <<effects, pc, cur, work>>
      /\ \A k \in Keys : status'[k] = (IF k \in rows THEN "purged" ELSE status[k])
      /\ \A k \in Keys : aged'[k] = (aged[k] /\ k \notin rows)
  BY DEF Purge, callVars
<1>2. Kinds'
  BY <1>1 DEF Kinds
<1>3. OneHolder'
  <2>1. \A p \in Procs : cur[p] # NoKey => cur[p] \in Keys
    BY DEF Typed
  <2>2. QED
    BY <1>1, <2>1 DEF OneHolder
<1>4. EffectFits'
  BY <1>1 DEF EffectFits
<1>5. StrandedOnly'
  BY <1>1 DEF StrandedOnly, Typed, Procs
<1>6. QED
  BY <1>2, <1>3, <1>4, <1>5

\* A row that moves to the trash or back is claimed as before, for younger.
LEMMA TrashClaim ==
  ASSUME Inv, NEW k \in Keys, SoftDeleteItem(k) \/ RestoreItem(k)
  PROVE  ClaimInv'
<1>1. /\ UNCHANGED <<status, effects, pc, cur, work>>
      /\ aged' = [aged EXCEPT ![k] = FALSE]
  BY DEF SoftDeleteItem, RestoreItem, SetDeletedAt, callVars
<1>2. \A j \in Keys : aged'[j] => aged[j]
  BY <1>1 DEF Inv, Typed
<1>3. QED
  BY <1>1, <1>2 DEF Inv, ClaimInv, Kinds, OneHolder, EffectFits, StrandedOnly

\* With a sound fence, no soft delete, restore or purge of item rows and no
\* write of the job row, between any two steps of any calls, makes an item be
\* applied twice, makes two calls apply it at once, or hides an effect behind a
\* row that reads pending or failed.  Only a PUT or PATCH of the item itself can.
THEOREM TrashKeepsExactlyOnce ==
  ASSUME SoundFence
  PROVE  SurfaceSpec /\ NoItemWrites =>
           [](NoConcurrentApply /\ AtMostOneEffect /\ NoHiddenEffect)
<1>1. SurfaceInit => ClaimInv
  BY InitClaim DEF SurfaceInit
<1>2. ASSUME SurfaceInv, ClaimInv, [SurfaceNext]_allVars,
             [~PutItem /\ ~PatchItem]_allVars
      PROVE  ClaimInv'
  <2>1. Inv /\ trashed \in SUBSET Keys
    BY <1>2 DEF Inv, SurfaceInv, SurfaceTypeOK
  <2>2. CASE EngineNext \/ UNCHANGED allVars
    BY <2>1, <2>2, ClaimStep, SoundFence DEF EngineNext, allVars
  <2>3. CASE GetJob \/ (\E k \in Keys : GetItem(k)) \/ PutJob \/ PatchJob \/ NotFound
    <3>1. UNCHANGED <<status, aged, effects, pc, cur, work>>
      BY <2>3 DEF GetJob, GetItem, PutJob, PatchJob, WriteJob, NotFound, vars, rowVars,
         callVars
    <3>2. QED
      BY <1>2, <3>1 DEF ClaimInv, Kinds, OneHolder, EffectFits, StrandedOnly
  <2>4. CASE \E k \in Keys : SoftDeleteItem(k) \/ RestoreItem(k) \/ Purge({k})
    BY <2>1, <2>4, TrashClaim, PurgeClaim
  <2>5. CASE Purge(trashed)
    BY <2>1, <2>5, PurgeClaim
  <2>6. QED
    BY <1>2, <2>2, <2>3, <2>4, <2>5 DEF SurfaceNext, CrudNext, ReadNext
<1>3. SurfaceInv /\ ClaimInv => NoConcurrentApply /\ AtMostOneEffect /\ NoHiddenEffect
  <2>1. SurfaceInv /\ ClaimInv => NoConcurrentApply
    BY DEF SurfaceInv, SurfaceTypeOK, ClaimInv, Typed, InHand, Claiming, OneHolder,
       NoConcurrentApply
  <2>2. ClaimInv => AtMostOneEffect /\ NoHiddenEffect
    BY DEF ClaimInv, EffectFits, AtMostOneEffect, NoHiddenEffect
  <2>3. QED
    BY <2>1, <2>2
<1>4. QED
  BY <1>1, <1>2, <1>3, SurfaceInvariant, PTL DEF SurfaceSpec, NoItemWrites
=============================================================================

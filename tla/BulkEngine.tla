----------------------------- MODULE BulkEngine -----------------------------
(***************************************************************************)
(* One bulk job and every process that works on it: concurrent run_job     *)
(* calls (Runners), concurrent reconcile_applying calls (Reconcilers), the *)
(* operator's retry_failed and soft delete, and the target module behind   *)
(* the BulkTargetPort.  Jobs do not interact (every statement carries the  *)
(* job's or an item's id), so one job is the whole story.                  *)
(*                                                                         *)
(* Grain of atomicity: one SQL statement, or one port call, is one step.   *)
(* Everything a call holds between two statements is local to it, and is   *)
(* lost when the call dies (crash, dropped future, database error).        *)
(***************************************************************************)
EXTENDS BulkState

-----------------------------------------------------------------------------
\* Plausible mistakes, one operator each: a variant of one action below with a
\* guard dropped, a predicate widened or two arms swapped.  No specification
\* uses them; each shows that some property would notice the mistake.

\* The claim writes the job's word for "in progress" into the item's status.
Reserve_WrongEnum(p, k) ==
  /\ pc[p] = "reserve" /\ k \in work[p] /\ status[k] = "pending"
  /\ status' = [status EXCEPT ![k] = "running"]
  /\ Take(p, k, "apply")
  /\ UNCHANGED <<ref, error, aged, job, effects, event, ack, tally, bucket, crashes>>

\* The row is claimed by id alone, without the status guard of the CAS.
Reserve_Unguarded(p, k) ==
  /\ pc[p] = "reserve" /\ k \in work[p]
  /\ status' = [status EXCEPT ![k] = "applying"]
  /\ Take(p, k, "apply")
  /\ UNCHANGED <<ref, error, aged, job, effects, event, ack, tally, bucket, crashes>>

\* A rejection is recorded with the other arm's UPDATE.
RecordRejection_Swapped(p) ==
  /\ pc[p] = "mark_failed"
  /\ Record(p, mark_applied(cur[p], ack[p]), "failed")

\* A rejection is recorded by id alone, without the `applying` guard.
RecordRejection_Unguarded(p) ==
  /\ pc[p] = "mark_failed"
  /\ CloseRow(cur[p], "failed")
  /\ error' = [error EXCEPT ![cur[p]] = "rejected"]
  /\ PutDown(p, "failed")
  /\ UNCHANGED <<ref, job, effects, event, crashes>>

\* The age comparison is forgotten: every claim is taken for a stranded one.
FetchApplyingStale_NoFence(p) ==
  /\ pc[p] = "fetch_applying_stale"
  /\ work' = [work EXCEPT ![p] = InStatus({"applying"})]
  /\ Goto(p, "check_applied")
  /\ UNCHANGED <<rowVars, job, effects, event, cur, ack, tally, bucket, crashes>>

\* Stranded items are applied again without asking the target first.
CheckApplied_Blind(p, k) ==
  /\ pc[p] = "check_applied" /\ k \in work[p]
  /\ Take(p, k, "apply")
  /\ UNCHANGED <<rowVars, job, effects, event, ack, tally, bucket, crashes>>

\* "The target holds nothing" is taken for a confirmation.
CheckApplied_Swapped(p, k) ==
  /\ pc[p] = "check_applied" /\ k \in work[p]
  /\ effects[k] = 0
  /\ Take(p, k, "confirm")
  /\ UNCHANGED <<rowVars, job, effects, event, ack, tally, bucket, crashes>>

\* An unverifiable item is recorded as a plain failure, which can be retried.
Cancel_AsFailed(p) ==
  /\ pc[p] = "mark_cancelled"
  /\ Record(p, mark_failed(cur[p]), "cancelled")

\* The "is the job done?" query forgets the items no run has reached yet.
CountUnfinished_ApplyingOnly(p) ==
  /\ pc[p] = "check_applied" /\ work[p] = {}
  /\ \/ /\ InStatus({"applying"}) = {}
        /\ Goto(p, "count_outcomes")
        /\ UNCHANGED <<work, cur, ack, tally, bucket>>
     \/ /\ InStatus({"applying"}) # {}
        /\ Forget(p)
  /\ UNCHANGED <<rowVars, job, effects, event, crashes>>

\* The pass waits for the job to be done instead of returning.
CountUnfinished_Waits(p) ==
  /\ pc[p] = "check_applied" /\ work[p] = {}
  /\ InStatus({"pending", "applying"}) = {}
  /\ Goto(p, "count_outcomes")
  /\ UNCHANGED <<rowVars, job, effects, event, work, cur, ack, tally, bucket, crashes>>

RollUp(p, applied, failed) ==
  /\ \/ pc[p] = "count_outcomes"
     \/ pc[p] = "reserve" /\ work[p] = {}
  /\ tally' = [tally EXCEPT ![p] =
       [applied   |-> applied,
        failed    |-> failed,
        cancelled |-> Cardinality(InStatus({"cancelled"}))]]
  /\ Goto(p, "set_outcome")
  /\ UNCHANGED <<rowVars, job, effects, event, work, cur, ack, bucket, crashes>>

\* Whatever did not fail counts as a success.
CountOutcomes_NotFailed(p) ==
  RollUp(p, Cardinality(Keys \ InStatus({"failed"})), Cardinality(InStatus({"failed"})))

\* The job's counts come from this call's own counters, not from the ledger.
CountOutcomes_ThisRun(p) ==
  LET mine(b) == Cardinality({k \in Keys : bucket[p][k] = b})
  IN RollUp(p, mine("succeeded"), mine("failed"))

\* The roll-up writes the counts and leaves the status to mark_running.
SetOutcome_CountsOnly(p) ==
  /\ pc[p] = "set_outcome"
  /\ job' = [job EXCEPT !.succeeded = tally[p].applied, !.failed = tally[p].failed]
  /\ Goto(p, "publish")
  /\ UNCHANGED <<rowVars, effects, event, work, cur, ack, tally, bucket, crashes>>

\* A retry requeues whatever was not applied, the cancelled items included.
RetryFailed_NotApplied ==
  /\ "retry" \in Interventions
  /\ InStatus({"failed", "cancelled"}) # {}
  /\ status' = [k \in Keys |->
       IF status[k] \in {"failed", "cancelled"} THEN "pending" ELSE status[k]]
  /\ error' = [k \in Keys |-> IF status[k] = "failed" THEN "none" ELSE error[k]]
  /\ UNCHANGED <<ref, aged, job, effects, event, callVars, crashes>>

\* A retry leaves the old error behind.
RetryFailed_KeepsError ==
  /\ "retry" \in Interventions
  /\ InStatus({"failed"}) # {}
  /\ status' = [k \in Keys |-> IF status[k] = "failed" THEN "pending" ELSE status[k]]
  /\ UNCHANGED <<ref, error, aged, job, effects, event, callVars, crashes>>

-----------------------------------------------------------------------------
\* run_job, statement by statement.

\* The company-scope guard and fetch_for_run; a deleted job is NotFound.
StartRun(p) ==
  /\ pc[p] = "idle" /\ ~job.deleted
  /\ Goto(p, "mark_running")
  /\ UNCHANGED <<rowVars, job, effects, event, work, cur, ack, tally, bucket, crashes>>

MarkRunning(p) ==
  /\ pc[p] = "mark_running"
  /\ job' = [job EXCEPT !.status = "running"]
  /\ Goto(p, "fetch_pending")
  /\ UNCHANGED <<rowVars, effects, event, work, cur, ack, tally, bucket, crashes>>

FetchPending(p) ==
  /\ pc[p] = "fetch_pending"
  /\ work' = [work EXCEPT ![p] = InStatus({"pending"})]
  /\ Goto(p, "reserve")
  /\ UNCHANGED <<rowVars, job, effects, event, cur, ack, tally, bucket, crashes>>

\* The CAS pending -> applying.  The SELECT has no ORDER BY: any row may be next.
Reserve(p, k) ==
  /\ pc[p] = "reserve" /\ k \in work[p]
  /\ \/ /\ status[k] = "pending"
        /\ status' = [status EXCEPT ![k] = "applying"]
        /\ Take(p, k, "apply")
     \/ /\ status[k] # "pending"
        /\ work' = [work EXCEPT ![p] = @ \ {k}]
        /\ UNCHANGED <<status, pc, cur>>
  /\ UNCHANGED <<ref, error, aged, job, effects, event, ack, tally, bucket, crashes>>

-----------------------------------------------------------------------------
\* The target module behind BulkTargetPort::apply (external).  Under the
\* contract a key it already holds is acknowledged again with the same ref and
\* never rejected; a target that ignores the key makes a second effect.

TargetAccepts(p) ==
  LET k == cur[p] IN
  /\ pc[p] = "apply"
  /\ \/ /\ Idempotent /\ effects[k] > 0
        /\ ack' = [ack EXCEPT ![p] = effects[k]]
        /\ UNCHANGED effects
     \/ /\ ~(Idempotent /\ effects[k] > 0)
        /\ effects[k] < MaxEffects
        /\ effects' = [effects EXCEPT ![k] = @ + 1]
        /\ ack' = [ack EXCEPT ![p] = effects[k] + 1]
  /\ Goto(p, "mark_applied")
  /\ UNCHANGED <<rowVars, job, event, work, cur, tally, bucket, crashes>>

TargetRejects(p) ==
  /\ pc[p] = "apply"
  /\ ~(Idempotent /\ effects[cur[p]] > 0)
  /\ Goto(p, "mark_failed")
  /\ UNCHANGED <<rowVars, job, effects, event, work, cur, ack, tally, bucket, crashes>>

\* Both callers of apply record the acknowledgement, or the rejection.
RecordAck(p) ==
  /\ pc[p] = "mark_applied"
  /\ Record(p, mark_applied(cur[p], ack[p]),
            IF p \in Runners THEN "succeeded" ELSE "reapplied")

RecordRejection(p) ==
  /\ pc[p] = "mark_failed"
  /\ Record(p, mark_failed(cur[p]), IF p \in Runners THEN "failed" ELSE "reapplied")

-----------------------------------------------------------------------------
\* reconcile_applying, statement by statement.

StartReconcile(p) ==
  /\ pc[p] = "idle" /\ ~job.deleted
  /\ Goto(p, "fetch_applying_stale")
  /\ UNCHANGED <<rowVars, job, effects, event, work, cur, ack, tally, bucket, crashes>>

FetchApplyingStale(p) ==
  /\ pc[p] = "fetch_applying_stale"
  /\ work' = [work EXCEPT ![p] = {k \in InStatus({"applying"}) : aged[k]}]
  /\ Goto(p, "check_applied")
  /\ UNCHANGED <<rowVars, job, effects, event, cur, ack, tally, bucket, crashes>>

\* The re-check, and its three answers.  (The code visits by item_key; any
\* order is allowed here.)
CheckApplied(p, k) ==
  /\ pc[p] = "check_applied" /\ k \in work[p]
  /\ \/ /\ effects[k] > 0
        /\ Take(p, k, "confirm")
        /\ ack' = [ack EXCEPT ![p] = 1]
     \/ /\ effects[k] = 0
        /\ Take(p, k, "apply")
        /\ UNCHANGED ack
     \/ /\ Take(p, k, "mark_cancelled")
        /\ UNCHANGED ack
  /\ UNCHANGED <<rowVars, job, effects, event, tally, bucket, crashes>>

Confirm(p) ==
  /\ pc[p] = "confirm"
  /\ Record(p, mark_applied(cur[p], ack[p]), "confirmed")

Cancel(p) ==
  /\ pc[p] = "mark_cancelled"
  /\ Record(p, mark_cancelled(cur[p]), "cancelled")

\* Only a pass that leaves nothing unfinished goes on to roll up.
CountUnfinished(p) ==
  /\ pc[p] = "check_applied" /\ work[p] = {}
  /\ \/ /\ InStatus({"pending", "applying"}) = {}
        /\ Goto(p, "count_outcomes")
        /\ UNCHANGED <<work, cur, ack, tally, bucket>>
     \/ /\ InStatus({"pending", "applying"}) # {}
        /\ Forget(p)
  /\ UNCHANGED <<rowVars, job, effects, event, crashes>>

-----------------------------------------------------------------------------
\* The roll-up both calls end with: count, write the job row, publish, return.

CountOutcomes(p) ==
  /\ \/ pc[p] = "count_outcomes"
     \/ pc[p] = "reserve" /\ work[p] = {}
  /\ tally' = [tally EXCEPT ![p] =
       [applied   |-> Cardinality(InStatus({"applied"})),
        failed    |-> Cardinality(InStatus({"failed"})),
        cancelled |-> Cardinality(InStatus({"cancelled"}))]]
  /\ Goto(p, "set_outcome")
  /\ UNCHANGED <<rowVars, job, effects, event, work, cur, ack, bucket, crashes>>

SetOutcome(p) ==
  /\ pc[p] = "set_outcome"
  /\ job' = [job EXCEPT !.status = TerminalStatus(tally[p]),
                        !.succeeded = tally[p].applied,
                        !.failed = tally[p].failed]
  /\ Goto(p, "publish")
  /\ UNCHANGED <<rowVars, effects, event, work, cur, ack, tally, bucket, crashes>>

Publish(p) ==
  /\ pc[p] = "publish"
  /\ event' = [total |-> Cardinality(Keys),
               succeeded |-> tally[p].applied,
               failed |-> tally[p].failed]
  /\ Forget(p)
  /\ UNCHANGED <<rowVars, job, effects, crashes>>

-----------------------------------------------------------------------------
\* The world around the calls.

\* A call dies between two statements: a crash, a dropped future, a lost
\* connection.  The rows and the target keep what they have.
Crash(p) ==
  /\ pc[p] # "idle" /\ crashes < MaxCrashes
  /\ crashes' = crashes + 1
  /\ Forget(p)
  /\ UNCHANGED <<rowVars, job, effects, event>>

\* Time passes the fence.  An operator who sets older_than above the longest
\* apply never sees a living call's claim pass it.
ClaimAges(k) ==
  /\ status[k] = "applying" /\ ~aged[k]
  /\ ClaimsOutliveFence \/ \A p \in Procs : cur[p] # k
  /\ aged' = [aged EXCEPT ![k] = TRUE]
  /\ UNCHANGED <<status, ref, error, job, effects, event, callVars, crashes>>

\* retry_failed: one UPDATE of every failed row; the job row is not touched.
RetryFailed ==
  /\ "retry" \in Interventions
  /\ InStatus({"failed"}) # {}
  /\ status' = [k \in Keys |-> IF status[k] = "failed" THEN "pending" ELSE status[k]]
  /\ error' = [k \in Keys |-> IF status[k] = "failed" THEN "none" ELSE error[k]]
  /\ UNCHANGED <<ref, aged, job, effects, event, callVars, crashes>>

\* Soft delete and restore of the job row through the CRUD surface.
SetDeleted(word, flag) ==
  /\ word \in Interventions
  /\ job.deleted # flag
  /\ job' = [job EXCEPT !.deleted = flag]
  /\ UNCHANGED <<rowVars, effects, event, callVars, crashes>>

RunStep(p) ==
  \/ MarkRunning(p)
  \/ FetchPending(p)
  \/ \E k \in Keys : Reserve(p, k)

ReconcileStep(p) ==
  \/ FetchApplyingStale(p)
  \/ \E k \in Keys : CheckApplied(p, k)
  \/ Confirm(p)
  \/ Cancel(p)
  \/ CountUnfinished(p)

SharedStep(p) ==
  \/ TargetAccepts(p)
  \/ TargetRejects(p)
  \/ RecordAck(p)
  \/ RecordRejection(p)
  \/ CountOutcomes(p)
  \/ SetOutcome(p)
  \/ Publish(p)

\* One step of a call that has started.
CallStep(p) == RunStep(p) \/ ReconcileStep(p) \/ SharedStep(p)

Next ==
  \/ \E p \in Runners : StartRun(p)
  \/ \E p \in Reconcilers : StartReconcile(p)
  \/ \E p \in Procs : CallStep(p)
  \/ \E p \in Procs : Crash(p)
  \/ \E k \in Keys : ClaimAges(k)
  \/ RetryFailed
  \/ SetDeleted("delete", TRUE)
  \/ SetDeleted("restore", FALSE)

Spec == Init /\ [][Next]_vars

\* A started call is driven to its end: the executor polls its future, the
\* database and the target answer.
CallFairness == \A p \in Procs : WF_vars(CallStep(p))

CallSpec == Spec /\ CallFairness

\* The composing service keeps calling run_job and reconcile_applying, and
\* time passes.
RecoverySpec ==
  /\ CallSpec
  /\ \A p \in Runners : WF_vars(StartRun(p))
  /\ \A p \in Reconcilers : WF_vars(StartReconcile(p))
  /\ \A k \in Keys : WF_vars(ClaimAges(k))

-----------------------------------------------------------------------------
\* Properties.

Unfinished == InStatus({"pending", "applying"})
AppliedCount == Cardinality(InStatus({"applied"}))

\* A call has an item in hand exactly while its next step is about one.
InHand == \A p \in Procs : pc[p] \in Claiming <=> cur[p] # NoKey

\* What every variable holds beside the CRUD routes as well, which can take a
\* row away: CrudSurface writes that as a status of its own.
RowStatus == ItemStatus \cup {"purged"}

Typed ==
  /\ status \in [Keys -> RowStatus]
  /\ ref \in [Keys -> 0..MaxEffects]
  /\ error \in [Keys -> {"none", "rejected", "unverifiable"}]
  /\ aged \in [Keys -> BOOLEAN]
  /\ job \in [status: JobStatus, succeeded: Nat, failed: Nat, deleted: BOOLEAN]
  /\ effects \in [Keys -> 0..MaxEffects]
  /\ event \in [total: Nat, succeeded: Nat, failed: Nat]
  /\ pc \in [Procs -> Labels]
  /\ work \in [Procs -> SUBSET Keys]
  /\ cur \in [Procs -> Keys \cup {NoKey}]
  /\ ack \in [Procs -> 0..MaxEffects]
  /\ tally \in [Procs -> [applied: Nat, failed: Nat, cancelled: Nat]]
  /\ bucket \in [Procs -> [Keys -> Buckets]]
  /\ crashes \in 0..MaxCrashes
  /\ InHand

\* Every variable stays in its set, and no row goes away.
TypeOK == Typed /\ status \in [Keys -> ItemStatus]

\* The operator's fence is sound: no living call's claim is ever taken for a
\* dead one's, and one reconcile pass runs at a time.
SoundFence ==
  /\ ~ClaimsOutliveFence
  /\ \A p, q \in Reconcilers : p = q

\* "No concurrent duplicate" (bulk_ports.rs): two calls never have an apply of
\* the same item under way.
NoConcurrentApply ==
  \A p, q \in Procs :
    p # q /\ pc[p] = "apply" /\ pc[q] = "apply" => cur[p] # cur[q]

\* The reservation, the guarded marks and the re-check before a re-apply give
\* each item at most one effect in the target, whatever crashes and retries
\* do - even in a target that does not dedup on item_key.
AtMostOneEffect == \A k \in Keys : effects[k] <= 1

\* An applied item points at an effect the target really holds: never a claim
\* that was closed with somebody else's answer or with none.
AppliedHasEffect ==
  \A k \in Keys : status[k] = "applied" => ref[k] \in 1..effects[k]

\* No effect is silently dropped: an item that reads failed (and can be sent
\* again), or still waits, has no effect in the target.
NoHiddenEffect ==
  \A k \in Keys : status[k] \in {"pending", "failed"} => effects[k] = 0

\* The audit columns of every row fit its status, through retries, late marks
\* and cancellations: a ref exactly on applied rows, a reason exactly on
\* failed and cancelled ones.
AuditTrail ==
  \A k \in Keys :
    /\ ref[k] > 0 <=> status[k] = "applied"
    /\ error[k] = "rejected" <=> status[k] = "failed"
    /\ error[k] = "unverifiable" <=> status[k] = "cancelled"

\* Every outcome comes with its evidence: the half of AuditTrail that survives
\* a PATCH of the status alone, which leaves a requeued item with the ref or
\* the error of its earlier life.
OutcomeIsDocumented ==
  \A k \in Keys :
    /\ status[k] = "applied" => ref[k] > 0
    /\ status[k] = "failed" => error[k] = "rejected"
    /\ status[k] = "cancelled" => error[k] = "unverifiable"

\* Neither the job row nor a published event ever claims more applied items
\* than the ledger holds, however stale the count it was written from.
RollupNeverOverclaims ==
  job.succeeded <= AppliedCount /\ event.succeeded <= AppliedCount

\* A summary never reports a success, a confirmation or a cancellation that
\* the ledger does not show, and no item is in two calls' summaries as one of
\* these three.  (Of an item counted as failed or re-applied nothing lasts: a
\* retry may have sent it on.)
SummaryTruthful ==
  \A p \in Procs, k \in Keys :
    /\ bucket[p][k] \in {"succeeded", "confirmed"} => status[k] = "applied"
    /\ bucket[p][k] = "cancelled" => status[k] = "cancelled"
    /\ \A q \in Procs \ {p} :
         bucket[p][k] # "none" /\ bucket[q][k] # "none" =>
           "failed" \in {bucket[p][k], bucket[q][k]}
           \/ "reapplied" \in {bucket[p][k], bucket[q][k]}

\* The outcome each counter of a summary stands for.
Counted(b) ==
  CASE b \in {"succeeded", "confirmed"} -> {"applied"}
    [] b = "reapplied" -> {"applied", "failed"}
    [] OTHER -> {b}

\* An item enters a counter in the step that closes its row accordingly.
CountedStep ==
  \A p \in Procs, k \in Keys :
    bucket'[p][k] \notin {"none", bucket[p][k]} =>
      status[k] = "applying" /\ status'[k] \in Counted(bucket'[p][k])

\* Whatever a call counts, in any of its counters, it counts in the step that
\* takes the item's row from applying to that outcome - though a mark returns
\* nothing that says whether it matched a row.
CountsWhatItWrites == [][CountedStep]_vars

\* applied and cancelled are final, and failed leaves only for pending.
TerminalIsFinal ==
  [][\A k \in Keys :
       /\ status[k] \in {"applied", "cancelled"} => status'[k] = status[k]
       /\ status[k] = "failed" => status'[k] \in {"failed", "pending"}]_vars

\* With nothing left to do, nobody working and no retry in play, the job row
\* says exactly what the item ledger says (BR-3).
RollupIsLedger ==
  /\ "retry" \notin Interventions
  /\ Unfinished = {}
  /\ \A p \in Procs : pc[p] = "idle"
  /\ job.status \notin {"pending", "running"}
  =>
  LET count(s) == Cardinality(InStatus({s})) IN
  /\ job.succeeded = count("applied")
  /\ job.failed = count("failed")
  /\ job.status = TerminalStatus([failed |-> count("failed"),
                                  cancelled |-> count("cancelled")])

\* BulkJobCompleted says "all items terminal" (bulk_events.rs).
CompletionMeansTerminal ==
  \A p \in Procs : pc[p] = "publish" => Unfinished = {}

\* The reconciler's completion does mean it, as the importer's mapping
\* persistence needs, as long as nobody requeues failed items meanwhile.
ReconcileCompletesOnlyDone ==
  "retry" \notin Interventions =>
    \A p \in Reconcilers :
      pc[p] \in {"count_outcomes", "set_outcome", "publish"} => Unfinished = {}

\* A rejected item is recorded as failed (BR-2: isolated - recorded, the batch
\* continues).
RejectionIsRecorded ==
  \A p \in Runners, k \in Keys :
    pc[p] = "mark_failed" /\ cur[p] = k ~> bucket[p][k] = "failed"

\* Each stranded item a pass has listed is re-checked, by that pass or a later
\* one (reconcile_applying: "Each is re-checked against the target").
StrandedIsRechecked ==
  \A k \in Keys :
    (\E p \in Reconcilers : pc[p] = "check_applied" /\ k \in work[p])
      ~> (\E p \in Reconcilers : cur[p] = k)

\* Every call that starts returns, whatever the others do.
EveryCallEnds == \A p \in Procs : pc[p] # "idle" ~> pc[p] = "idle"

\* If runs and reconcile passes keep being called, every item ends, the
\* stranded ones of crashed runs included.
EveryItemEnds == <>[](Unfinished = {})

\* ... and the job row ends up agreeing with the ledger for good: a stale
\* roll-up is repaired by the calls that follow it.
RollupHeals ==
  <>[](/\ job.succeeded = AppliedCount
       /\ job.failed = Cardinality(InStatus({"failed"})))

\* ... and so does its status: for good, a job that no run has in hand reads
\* what its ledger says, never the "running" that a dead run left or the word
\* that a client wrote.
StatusHeals ==
  <>[]((\A p \in Runners : pc[p] = "idle") =>
         job.status = TerminalStatus(
           [failed |-> Cardinality(InStatus({"failed"})),
            cancelled |-> Cardinality(InStatus({"cancelled"}))]))

-----------------------------------------------------------------------------
\* The inductive invariants behind the theorems of BulkEngineProofs.

\* An acknowledgement in hand names an effect the target holds.
AckIsReal ==
  \A p \in Procs :
    pc[p] \in {"mark_applied", "confirm"} => ack[p] \in 1..effects[cur[p]]

\* Each kind of call executes its own statements only.
Kinds ==
  /\ \A p \in Runners :
       pc[p] \notin {"fetch_applying_stale", "check_applied", "confirm", "mark_cancelled"}
  /\ \A p \in Reconcilers : pc[p] \notin {"mark_running", "fetch_pending", "reserve"}

\* The item in a call's hand is claimed, and in no other call's hand.  (Beside
\* the CRUD routes its row may be gone.)
OneHolder ==
  \A p, q \in Procs :
    cur[p] # NoKey => /\ status[cur[p]] \in {"applying", "purged"}
                      /\ p # q => cur[p] # cur[q]

\* The target's ledger fits the row's status and the holder's progress.
EffectFits ==
  /\ \A k \in Keys :
       /\ effects[k] \in {0, 1}
       /\ status[k] \in {"pending", "failed"} => effects[k] = 0
       /\ status[k] = "applied" => effects[k] = 1
  /\ \A p \in Procs :
       /\ pc[p] \in {"apply", "mark_failed"} => effects[cur[p]] = 0
       /\ pc[p] \in {"mark_applied", "confirm"} => effects[cur[p]] = 1

\* An old claim is nobody's in a run, and what a reconcile pass has listed waits
\* for it alone, even if a request makes the claim young again.
StrandedOnly ==
  /\ \A k \in Keys :
       aged[k] => status[k] = "applying" /\ \A p \in Runners : cur[p] # k
  /\ \A p \in Reconcilers : \A k \in work[p] :
       status[k] \in {"applying", "purged"} /\ \A q \in Procs : cur[q] # k

\* Under a sound fence, a claim is exclusive from the reservation (or the
\* stale fetch) to the mark, and the item's effect is known exactly whenever
\* the item can be sent to the target.
ClaimInv == Kinds /\ OneHolder /\ EffectFits /\ StrandedOnly

\* The engine implements the abstract item ledger: each statement and port
\* call is one of its moves or none.
Ledger == INSTANCE ItemLedger WITH phase <- status, effect <- effects
LedgerSpec == Ledger!Spec
=============================================================================

----------------------------- MODULE CrudSurface -----------------------------
(***************************************************************************)
(* The generated CRUD routes on the two tables, next to the engine: a      *)
(* client reads a row, keeps the answer for as long as it likes and sends  *)
(* it back with its change (PUT), or names the fields to set (PATCH);      *)
(* item rows move to the trash, back, or out of the table for good.  None  *)
(* of these routes knows the engine's guards: they address a row by id and *)
(* write what they were sent.                                              *)
(*                                                                         *)
(* EXTENDS the engine: its variables and actions are used as they are, and *)
(* its properties are checked again with these requests between its steps. *)
(* A row that is gone has the status "purged" here, which no statement of  *)
(* the engine matches or counts - what becomes of a row that is not there. *)
(***************************************************************************)
EXTENDS BulkEngine

CONSTANTS
  PutEdits,    \* what a client changes in the row it read before it PUTs it
  PatchEdits,  \* what it names in a PATCH
  MaxEdits     \* bound on the requests that write

ASSUME EditAssumption ==
  /\ PutEdits \subseteq {"payload", "requeue"}
  /\ PatchEdits \subseteq {"payload", "requeue"}
  /\ MaxEdits \in Nat

VARIABLES
  request,     \* the row a client has read and may write back
  trashed,     \* item rows with deleted_at set
  edits        \* requests that have written

crudVars == <<request, trashed, edits>>
allVars == <<vars, crudVars>>

\* The columns of a row that a response carries and an update sets.  (The
\* payload, the key and the job's names and totals are not engine state.)
BulkJobItem == [status: ItemStatus, ref: 0..MaxEffects,
                error: {"none", "rejected", "unverifiable"}]
BulkJob == [status: JobStatus, succeeded: Nat, failed: Nat]

NoRequest == [of |-> "nothing"]
ItemRequest(k, row) == [of |-> "item", key |-> k, row |-> row]
JobRequest(row) == [of |-> "job", row |-> row]

Present(k) == status[k] # "purged"
Active(k) == Present(k) /\ k \notin trashed

CrudInit == request = NoRequest /\ trashed = {} /\ edits = 0
SurfaceInit == Init /\ CrudInit

-----------------------------------------------------------------------------
\* From a row to a response.

ItemResponse(k) == [status |-> status[k], ref |-> ref[k], error |-> error[k]]

JobResponse ==
  [status |-> job.status, succeeded |-> job.succeeded, failed |-> job.failed]

\* GET /:id answers with an active row.
GetItem(k) ==
  /\ Active(k)
  /\ request' = ItemRequest(k, ItemResponse(k))
  /\ UNCHANGED <<vars, trashed, edits>>

GetJob ==
  /\ ~job.deleted
  /\ request' = JobRequest(JobResponse)
  /\ UNCHANGED <<vars, trashed, edits>>

-----------------------------------------------------------------------------
\* From a request to a row.

\* apply_update: every column of the DTO is set.  A client that requeues an
\* item sends the columns of an item no one has worked on.
UpdatedItem(row, edit) ==
  IF edit = "requeue" THEN [status |-> "pending", ref |-> 0, error |-> "none"] ELSE row

\* apply_patch: the columns that are named are set, the others stay as they
\* were read.
PatchedItem(row, edit) ==
  IF edit = "requeue" THEN [row EXCEPT !.status = "pending"] ELSE row

\* The same for the job row: setting it back to pending, with its counts or
\* without.
UpdatedJob(row, edit) ==
  IF edit = "requeue" THEN [status |-> "pending", succeeded |-> 0, failed |-> 0] ELSE row

PatchedJob(row, edit) ==
  IF edit = "requeue" THEN [row EXCEPT !.status = "pending"] ELSE row

\* The UPDATE of one item row by id, guarded on nothing but its presence; the
\* audit trigger restamps updated_at, so a claim is young again.
WriteItem(k, row) ==
  /\ status' = [status EXCEPT ![k] = row.status]
  /\ ref' = [ref EXCEPT ![k] = row.ref]
  /\ error' = [error EXCEPT ![k] = row.error]
  /\ aged' = [aged EXCEPT ![k] = FALSE]
  /\ UNCHANGED <<job, effects, event, callVars, crashes>>

Written ==
  /\ edits < MaxEdits
  /\ edits' = edits + 1

\* The framework may or may not find a row that was trashed meanwhile.
PutItem ==
  /\ request.of = "item" /\ Present(request.key)
  /\ \E edit \in PutEdits : WriteItem(request.key, UpdatedItem(request.row, edit))
  /\ Written
  /\ request' = NoRequest
  /\ UNCHANGED trashed

PatchItem ==
  /\ request.of = "item" /\ Present(request.key)
  /\ \E edit \in PatchEdits : WriteItem(request.key, PatchedItem(request.row, edit))
  /\ Written
  /\ request' = NoRequest
  /\ UNCHANGED trashed

WriteJob(row) ==
  /\ job' = [job EXCEPT !.status = row.status, !.succeeded = row.succeeded,
                        !.failed = row.failed]
  /\ Written
  /\ request' = NoRequest
  /\ UNCHANGED <<rowVars, effects, event, callVars, crashes, trashed>>

PutJob ==
  /\ request.of = "job"
  /\ \E edit \in PutEdits : WriteJob(UpdatedJob(request.row, edit))

PatchJob ==
  /\ request.of = "job"
  /\ \E edit \in PatchEdits : WriteJob(PatchedJob(request.row, edit))

\* The row is gone: 404.  (A client that reads and never writes needs no
\* action: its read has changed nothing.)
NotFound ==
  /\ request.of = "item" /\ ~Present(request.key)
  /\ request' = NoRequest
  /\ UNCHANGED <<vars, trashed, edits>>

-----------------------------------------------------------------------------
\* The trash.  deleted_at is set and cleared by an UPDATE like any other; no
\* statement of the engine looks at it.

SetDeletedAt(k, deleted) ==
  /\ trashed' = IF deleted THEN trashed \cup {k} ELSE trashed \ {k}
  /\ aged' = [aged EXCEPT ![k] = FALSE]
  /\ Written
  /\ UNCHANGED <<status, ref, error, job, effects, event, callVars, crashes, request>>

SoftDeleteItem(k) == Active(k) /\ SetDeletedAt(k, TRUE)
RestoreItem(k) == k \in trashed /\ SetDeletedAt(k, FALSE)

\* DELETE of rows in the trash: one of them, or all.
Purge(rows) ==
  /\ rows # {} /\ rows \subseteq trashed
  /\ status' = [k \in Keys |-> IF k \in rows THEN "purged" ELSE status[k]]
  /\ ref' = [k \in Keys |-> IF k \in rows THEN 0 ELSE ref[k]]
  /\ error' = [k \in Keys |-> IF k \in rows THEN "none" ELSE error[k]]
  /\ aged' = [k \in Keys |-> aged[k] /\ k \notin rows]
  /\ trashed' = trashed \ rows
  /\ Written
  /\ UNCHANGED <<job, effects, event, callVars, crashes, request>>

-----------------------------------------------------------------------------
\* Any of these between any two steps of the engine.

EngineNext == Next /\ UNCHANGED crudVars

ReadNext == GetJob \/ \E k \in Keys : GetItem(k)

CrudNext ==
  \/ edits < MaxEdits /\ request = NoRequest /\ ReadNext
  \/ PutItem
  \/ PatchItem
  \/ PutJob
  \/ PatchJob
  \/ NotFound
  \/ \E k \in Keys : SoftDeleteItem(k)
  \/ \E k \in Keys : RestoreItem(k)
  \/ \E k \in Keys : Purge({k})
  \/ Purge(trashed)

SurfaceNext == EngineNext \/ CrudNext

SurfaceSpec == SurfaceInit /\ [][SurfaceNext]_allVars

\* The fairness of the engine's RecoverySpec; requests come or do not.
SurfaceFairness ==
  /\ \A p \in Procs : WF_allVars(CallStep(p) /\ UNCHANGED crudVars)
  /\ \A p \in Runners : WF_allVars(StartRun(p) /\ UNCHANGED crudVars)
  /\ \A p \in Reconcilers : WF_allVars(StartReconcile(p) /\ UNCHANGED crudVars)
  /\ \A k \in Keys : WF_allVars(ClaimAges(k) /\ UNCHANGED crudVars)

SurfaceRecoverySpec == SurfaceSpec /\ SurfaceFairness

-----------------------------------------------------------------------------
\* Properties.  AppliedHasEffect, OutcomeIsDocumented, EveryCallEnds,
\* EveryItemEnds and RollupHeals of BulkEngine are checked again, with requests
\* in between: what a client writes back is old, but once was true.

\* Every variable stays in its set, with the rows that are gone, and only rows
\* that are there are in the trash.
SurfaceTypeOK ==
  /\ Typed
  /\ request \in {NoRequest} \cup [of: {"item"}, key: Keys, row: BulkJobItem]
                             \cup [of: {"job"}, row: BulkJob]
  /\ trashed \subseteq {k \in Keys : Present(k)}
  /\ edits \in 0..MaxEdits

\* However stale a row or a count that was written back, neither the job row
\* nor a published event claims more applied items than the target holds
\* effects for: the counts may be old, never invented.
EffectsBackRollups ==
  LET held == Cardinality({k \in Keys : effects[k] > 0})
  IN job.succeeded <= held /\ event.succeeded <= held

\* Only a client's write takes an item out of applied or cancelled, or out of
\* failed past the retry: no engine step does, whatever rows were requeued,
\* revived or purged under the calls in progress.
OnlyEditsReopen ==
  [][edits' = edits =>
       \A k \in Keys :
         /\ status[k] \in {"applied", "cancelled"} => status'[k] = status[k]
         /\ status[k] = "failed" => status'[k] \in {"failed", "pending"}]_allVars

\* The reconciler completes only a job that is done (see
\* ReconcileCompletesOnlyDone) unless a client has written to its rows.
UneditedCompletion == edits = 0 => ReconcileCompletesOnlyDone
=============================================================================

# Verification of backbone-bulkops

TLA+ models of the bulk-operation engine in this repository, TLC
configurations that check them, and TLAPS proofs of the results that matter
most. Paths below are relative to the repository.

## 1. The system

`backbone-bulkops` records a batch of operations (a **job** and its **items**)
and drives each item through another module's write path. Its own logic is
hand-written in four files of `src/application/service` and
`src/infrastructure/persistence`; around it stands a generated CRUD surface.

| Part | State it keeps | Operations | Talks to |
|---|---|---|---|
| Write service (`bulk_write_service.rs`) | nothing between calls; locals during one | `create_job`, `run_job`, `reconcile_applying`, `retry_failed`, `failures` | both repositories, the target port, the event sink |
| Job repository (`persistence/bulk_job_repository.rs`) | `bulk_jobs` row: status, total, succeeded, failed, deleted_at | insert, stamp total, fetch for run, mark running, set outcome | Postgres, one statement each |
| Item repository (`persistence/bulk_job_item_repository.rs`) | `bulk_job_items` rows: status, ref, error, updated_at | insert (dedup), fetch pending, reserve (CAS), the three marks, the counts, the stale fetch, requeue | Postgres, one statement each |
| Target port (`bulk_ports.rs`) | the target module's own records | `apply`, `check_applied` | implemented by the composing service |
| Event sink (`bulk_events.rs`) | none | `publish(BulkJobCompleted)` | composing service |
| Request pool, org scope (`request_pool.rs`) | task-local pool and scope | which database a statement reaches | every repository call |
| CRUD surface (handlers, DTOs, entities, row rules) | the same rows | list, create, PUT, PATCH, soft delete, restore, purge | Postgres through the framework |
| Row rules (`bulk_*_service.rs`) and the CHECK migrations | the declared rules, twice: in the service and as CHECKs | check a create or update; add a CHECK where no stored row breaks it | the same rows |
| Strip-tenancy migration (`20260910120200`) | the tenancy columns and policies | guard, drop policy, drop column | the composing service's tenancy decorator, the previous release |
| Seeders and their binary (`seeders/`, `bin/seeder.rs`) | none: both seed files hold comments only | should_run, run, rollback (which nothing calls) | Postgres |
| List pagination (`domain/repositories`, `*_dto.rs`) | none | offset and limit of a page, totals and flags of an answer | nothing here calls it |
| Other migrations | the schema | up/down | Postgres |

Nothing locks across statements. `run_job` and `reconcile_applying` are
sequences of single SQL statements and port calls, so everything between two
statements is open to other calls, to a retry, to a soft delete and to the
death of the caller.

What is hard here, and what makes each part correct:

* **Reservation.** `reserve` is a compare-and-swap `pending -> applying` before
  the external apply. Correct if no item is applied twice at once, and if an
  item is only ever closed with the answer to an apply of its own.
* **Crash gap.** A caller can die after the target committed and before the
  mark. The item then reads `applying` and only the target knows. Correct if
  recovery neither duplicates an effect nor drops one, and if the item ends.
* **The fence.** Recovery takes a claim for dead when it is older than
  `older_than`. If that is wrong, two calls hold one item with answers of
  different ages.
* **Roll-up.** The job row is a copy of a count of the item rows, written in a
  later statement. Correct if it never overstates, and if it ends up equal.
* **Creation.** Header, deduped items and their count are one transaction.
* **Refused writes.** The columns carry CHECKs; a mark can fail, and an error
  of a mark ends the whole call, in every later call again if the same answer
  comes back.
* **Row rules.** One declaration is enforced twice, by service code on the row
  it would store and by CHECKs added after the fact. An update's rules skip the
  columns it does not change, on the strength of a row read earlier. Correct
  if a row the rules let through is never refused by the database, and if the
  migration copes with whatever rows it finds.
* **Strip.** A migration drops `company_id` after a guard counted the rows that
  have no other tenancy key. Correct if no row ever loses its last key, through
  re-runs over what a lost session left, with a decorator landing meanwhile.
* **Generated routes beside the engine.** A client reads a row, keeps it and
  writes it back whole, over whatever the engine has done meanwhile, and every
  such write makes a stranded claim look young again. Correct if the evidence
  behind an outcome survives, if no count is invented, and if the calls in
  progress end.
* **Pages.** Offsets and page counts are computed from numbers of fixed width.
  Correct if the pages cut a table up, as far as the product fits.

PROJECT.json lists these hazards one by one, each at its line.

## 2. The modules

| Module | What it is |
|---|---|
| `ItemLedger` | abstract specification: claim, land an effect, close the claim truthfully, requeue |
| `BulkState` | rows, target ledger and call locals; the repository's guarded UPDATEs |
| `BulkEngine` | the verbs, one action per statement or port call; the properties; the refinement to `ItemLedger`; plausible mistakes that the properties must notice |
| `MCBulkEngine` | instances for TLC |
| `BulkEngineProofs` | theorems that need no assumption on the fence or the target |
| `BulkClaimProofs` | theorems under a sound fence, and the refinement |
| `CrudSurface`, `MCCrudSurface`, `MCLiveness` | the generated routes composed with the engine: it EXTENDS `BulkEngine` and puts reads, PUT, PATCH, trash and purge between any two of its steps |
| `CrudSurfaceProofs` | which guarantees survive those requests, and under a sound fence the trash, for every value of the constants |
| `NewJobs` | the batches callers hand in, their distinct keys and the payload that stands for each |
| `JobStore` | abstract specification of `create_job`: a whole job at one instant or nothing, and a true answer |
| `CreateJob`, `MCCreateJob` | the create transaction, statement by statement; the refinement to `JobStore` |
| `CreateJobProofs` | that it commits a whole job or none, answers truly, and implements `JobStore` |
| `Pages`, `PagesProofs` | the arithmetic of pages, as operators without state, and where it is right |
| `StripTenancy`, `MCStripTenancy` | the strip migration, statement by statement, and what runs beside it |
| `StripTenancyProofs` | its types; that keys are kept and no statement errors |
| `RowRules`, `MCRowRules` | the rules in the service, the engine's writes past them, the CHECK migration |
| `RowRulesProofs` | its types; that the rules cover the CHECKs |

### How BulkEngine corresponds to the code

One job is modelled. No statement reads or writes rows of two jobs, so jobs do
not interact except through the target, whose `item_key` space a job is taken
to have for itself.

State: `status`, `ref`, `error` are the item's columns (`applied_ref_id` as the
number of the effect it names, 0 for NULL; `error_detail` as which statement
wrote it). `aged` says whether `updated_at` has passed the fence: the audit
trigger restamps it at every UPDATE, so closing a row resets it, and only a
claim's age is ever looked at. `job` is the job row. `effects[k]` is how many
effects the target holds for a key. For each call slot, `pc` is the next
statement, `work` the snapshot of rows the fetch returned, `cur` the item in
hand, `ack` the ref of the target's answer, `tally` the result of
`count_outcomes`, and `bucket` says in which counter of the returned summary
each item was put.

| Action | Code |
|---|---|
| `StartRun`, `StartReconcile` | scope guard and `fetch_for_run` (a deleted job is `NotFound`); the negative `older_than` guard changes nothing |
| `MarkRunning`, `FetchPending`, `Reserve` | `mark_running`, `fetch_pending`, `reserve`; a lost CAS skips the item |
| `TargetAccepts`, `TargetRejects` | `port.apply`, from either verb |
| `RecordAck`, `RecordRejection` | `mark_applied`, `mark_failed`, and the counters; a refused UPDATE ends the call |
| `FetchApplyingStale`, `CheckApplied`, `Confirm`, `Cancel` | the reconciler's fetch, `check_applied` with its three answers, and the marks |
| `CountUnfinished` | the reconciler's "is the job done?"; if not, it returns |
| `CountOutcomes`, `SetOutcome`, `Publish` | the roll-up both verbs end with (`fetch_total_items` reads a column no verb changes and is folded into `Publish`) |
| `RetryFailed` | `requeue_failed` |
| `SetDeleted` | soft delete and restore of the job row, as far as `fetch_for_run` sees it |
| `Crash` | the caller dies between two statements: its locals go, rows and target stay |
| `ClaimAges` | time passes the fence |

`bulk_ports.rs` is a trait, so the target is external. With `Idempotent` it
keeps the contract: a key it holds is acknowledged again with the same ref and
not rejected. Without it, every accepted apply makes a new effect (capped by
`MaxEffects`, far above what the checked properties allow). `check_applied`
tells the truth or cannot tell, as the re-check contract demands.

Abstractions: payloads are not modelled in `BulkEngine` (they are passed
through); the reconciler visits by `item_key` and the run in whatever order
Postgres returns, and both are modelled as any order; `skipped` in the run
summary is the rest of a subtraction; the event is the last one published. A
database error is a call that dies (`Crash`) or a refused mark (`Oversize`).

### How CrudSurface corresponds to the code

`request` is a row a client has read and may write back, `trashed` the item rows
with `deleted_at`, `edits` how many requests have written. A row that is gone
has the status `purged`, which no statement matches or counts.

| Action | Code |
|---|---|
| `GetItem`, `GetJob` | GET, the response DTOs; an active row only |
| `PutItem`, `PutJob` | `apply_update`: every column of the DTO is set, then the row is written by id |
| `PatchItem`, `PatchJob` | `apply_patch`: the named columns are set on the row that was read, then the row is written by id |
| `NotFound` | the row is gone: 404 |
| `SoftDeleteItem`, `RestoreItem` | `deleted_at` set or cleared; `updated_at` is restamped by the trigger |
| `Purge` | permanent delete of one row in the trash, or of all of them |

Of the fields a client may change, what matters is whether it touches the
engine's columns: an edit is `payload` (any field the engine does not read) or
`requeue` (status back to pending, with the other columns cleared by a PUT and
left by a PATCH). A client sends no outcome and no count it has not read. The
framework's read before a PATCH and its write after it are not one statement;
the read here may be as old as the client likes, which includes that. Inside
the generic repository is external: `SoftDeleteItem`, `RestoreItem` and `Purge`
are only trait signatures here, modelled as the routes promise them, and whether
a row trashed meanwhile is found by an update is left open. The job row is not purged (its items' foreign key
refuses it), and POST, bulk create and upsert are left out next to the engine: a
new row has an id that no call in progress holds.

### How Pages corresponds to the code

`offset`, `limit`, `total_pages` and `has_next` are the functions of those names.
There are `PageRange` page numbers (2^32 in the code); `offset` multiplies modulo
`PageRange` and is widened afterwards: a release build wraps there, as here, a
debug build panics. `total_pages` divides floats, exact for totals below 2^53;
here it divides integers. No code in `src/` puts an offset to a query, so no
query, order of rows or client is modelled, and the module has no run: what there
is to say is proved.

### How CreateJob corresponds to the code

A call is given any batch, with or without an `operation_type`. `Submit` is the
two guards before the transaction, then `InsertJob`, one `InsertItem` or
`RefuseItem` per item (a blank key is an early return, a row over its CHECK a
database error; the CHECK is tested before the conflict, so a duplicate does
not escape it), `SetTotalItems`, `Commit`. `Fail` is an error at any statement
and `RollBack` the dropped transaction. `Commit` may land without the caller
hearing of it. `StoreSpec` maps each call to what its caller sees: every statement
inside the transaction is "asked".

### How StripTenancy corresponds to the code

A table is a record: is it there, which tenancy columns it has, its company
policy, its rows, and which of them carry a `company_id` and an `org_unit_id`.
The earlier chain (`Init`) leaves every row keyed by `company_id` behind the
policy, or stopped before it created a table.

| Action | Code |
|---|---|
| `BeginStrip`, `SkipAbsent` | the `DO` block; `to_regclass` finds no table: `CONTINUE` |
| `ReadHasOrg`, `CountTotal`, `CountNulls` | the guard's three reads of one table, each a statement of its own with its own view of the rows |
| `Raise`, `Pass` | the verdict over both tables |
| `DropPolicy`, `DropColumn`, `DropColumnFails` | the two `DROP POLICY IF EXISTS` and `ALTER TABLE ... DROP COLUMN IF EXISTS`; the column cannot go while a policy reads it, nor from a missing table |
| `LoseSession`, `Commit` | the session dies at any statement; the runner records the file |
| `DecoratorAddOrg`, `DecoratorBackfill`, `OldReleaseWrites` | other sessions, external to `src/`: the header of the file names the first two, the release before this one still writes `company_id` |

Whether the runner wraps the file in a transaction is left open (`one_tx`). If
it does, an altered table is locked to the end and a failure restores it; if
not, a failure leaves what was dropped. What the guard counts is what the role
may see: row security is forced on both tables, so `BypassesRls` decides.

### How RowRules corresponds to the code

A value is told apart only by what the rules ask of it: null, blank, fitting,
too long. `RefusesCreate` and `RefusesUpdate` are the two `check` functions; an
update is read, checked against the row it read, and written back whole
(`ReadForUpdate`, `WriteUpdate`), with any other write between the two.
`EngineInsert` and `EngineOutcome` are the hand-written SQL, which asks no rule.
`Look` and `Add` / `AddFails` are the two halves of one migration block: is there
a row that breaks it, and if not, add the CHECK. A block looks at rows as its
role may see them (`sees_rows`); adding the CHECK scans all of them. Rows of any
legacy are there at the start, since no CHECK stood before. `Down` is the down
file. The read-modify-write around the checks is the framework's, and external.

## 3. The runs

Every run finishes within about two minutes on two workers.

| Run | Instance | Question |
|---|---|---|
| `recovery` | 1 key, 2 runners, 1 reconciler, 2 crashes, marks that may break their CHECK, retry, delete, restore, target does not dedup, sound fence | do reservation and re-check neither duplicate nor drop an effect, do outcomes stay final, does every counter count a row that the same step closed, do counts never overclaim, and does the engine implement the ledger? The inductive invariant `ClaimInv` of the proofs is checked here too |
| `latemarks` | `CrudSurface`: 1 key, 1 runner, 1 reconciler, retry, claims that outlive the fence, 2 requests that write | with stale answers in flight and stale rows written back, are outcomes still backed, and reopened by nobody but a client? |
| `liveness` | `CrudSurface`: 2 keys, 1 runner, 1 reconciler, 1 crash or 1 request that writes, fairness | does every call return, every item end, do the job row's counts and status heal, and does a reconcile pass only complete a finished job until a client writes? |
| `createjob` | all batches of up to 3 items over 2 keys, a blank key, 2 payloads, an oversized one | is a committed job whole, is nothing left of a refused one, and does the transaction implement the abstract job store? |
| `strip` | 2 rows per table, 2 lost sessions, every earlier chain, with and without a transaction, role sees the rows, previous release paused | does any row lose its last key, does a statement fail, does the strip land? |
| `rowrules` | 1 required and 1 optional column, 2 ids, rows of any legacy, role sees the rows or not, writers pause for a migration | do the rules cover the CHECKs, and does the migration get through? |

Bounds. Two keys are enough for one item's fate to depend on another's (roll-up
counts, a batch cut short); one where three calls fight over an item, each
statement of which is about one item. Two runners give every pairwise
interleaving, and the theorems cover any number. `MaxCrashes` is 2 in `recovery`: a
crash of the runner and one of the reconciler that recovers it; it is 0 in
`latemarks`, where late claims and stale writes leave a call's work to another
as a crash would. `MaxEffects = 2`
is one more than any property allows. `MaxItems = 3` allows a duplicate before
and after a distinct key. Two rows allow a table to be half backfilled, two lost
sessions a failed re-run. Two ids allow an update in flight on one row while the
other breaks a rule. `MaxEdits = 2` allows a requeue and then a write-back of
what was read before it. `liveness` has two items and one fault, a crash or a
write (`MaxFaults = 1`): a crash strands an item, and so does a row written back
as `applying`; both at once make a graph of 430,000 states that this run leaves
out. The calls themselves may be started any number of times in every
run.

Six runs show where the code does less than a doc or comment says. Each
checks one property and TLC finds it violated; the findings quote the text.

| Run | What TLC shows |
|---|---|
| `twopasses` | two overlapping reconcile passes both apply a stranded item: the stale fetch claims nothing |
| `earlycompletion` | a run publishes `BulkJobCompleted` while an item is still `applying` |
| `stalerollup` | two runs count and write in opposite orders; the job row keeps the older count although all items are terminal |
| `lostrejection` | a rejection too long for `error_detail` ends the run with nothing recorded |
| `wedged` | a message too long for `error_detail` under `mark_cancelled`'s prefix ends every reconcile pass at the same item; the stranded item behind it is never re-checked |
| `stripasowner` | a migrating role that row security binds counts no rows, so the guard passes and the strip drops the only key |

Deadlock is checked in every run of the engine: a composing service can always
call again. A `create_job` call ends and a strip that has landed stays landed, so
`createjob`, `strip` and `stripasowner` do not check it.

**Fairness.** `CallFairness` is weak fairness of the steps of a started call:
the executor polls its future, and Postgres and the target answer. It says
nothing about which answer. `RecoverySpec` adds what the engine leaves to its
caller: `run_job` and `reconcile_applying` keep being called, and time passes.
No fairness is put on crashes, retries or deletes. Weak fairness is enough: no
step of a call is disabled by another call. For the strip, `WF_vars(Strip)` says
that the runner takes its next statement and that a file that failed is run
again; the decorator and the previous release owe nothing, and sessions lost are
bounded. With requests
beside the engine, the same fairness of the engine's steps (`SurfaceFairness`);
requests come or do not. `FewFaultsSpec` bounds crashes and writes together,
which no step under fairness is.
`RecoverySpec` is also what `wedged` is refuted under: the reconciler is called
again and again and every started pass goes on, so that an item left behind for
ever is the code's doing. That run needs two crashes, one per stranded item, and
a sound fence. The code visits by `item_key`; its counterexample visits the item
with the long message first in every pass, as the code does when its key is the
smaller.

## 4. The proofs

The theorems hold for every finite set of keys, any runners and reconcilers,
any number of crashes, and every setting of the switches unless one is named.

*Without any assumption on fence or target* (`BulkEngineProofs`):

* `TypeCorrect` - the type invariant, inductive by itself. It includes that a
  call holds an item exactly when its next statement is about one, which the
  marks need to be well typed.
* `OutcomesAreFinal` - `applied` and `cancelled` never change and `failed` only
  goes back to `pending`. Every write of a status is guarded on one of
  `pending`, `applying`, `failed`.
* `AuditLinkHolds` - an applied item's ref names an effect the target holds,
  and the audit columns fit the status. Needs `AckIsReal` (an acknowledgement
  in hand names a real effect) as strengthening: effects are never withdrawn,
  so a late mark is at worst redundant.
* `ReconcilerCompletesDoneJobs` - a reconcile pass that rolls a job up does so
  for a job whose items are all terminal, without a retry; what it checked in
  `CountUnfinished` stays true, since nothing else makes a terminal item open.
* `RollupIsBacked` - no job row and no event claims more successes than the
  ledger has. The strengthening is that every tally in hand is at most the
  number of applied items, which only grows; the tally may be as old as one
  likes.

*Under `SoundFence`* (`BulkClaimProofs`): no living call's claim passes the
fence, and reconcile passes do not overlap. `twopasses` shows why the second is
needed; without the first, a claim can be closed by a late mark of an earlier
holder, since the marks are guarded on the status alone. The inductive invariant
is `ClaimInv`:

* `OneHolder` - the item in a call's hand is `applying` (or, beside the CRUD
  routes, purged) and in no other hand;
* `EffectFits` - the target holds nothing for pending and failed items, one
  effect for applied ones, and for an item in hand exactly what the next
  statement presumes;
* `StrandedOnly` - no run holds an old claim, and what a reconcile pass has
  listed is still claimed (or purged) and in nobody's hand;
* `Kinds` - each verb executes its own statements.

From it follow `NoConcurrentDuplicate`, `ExactlyOnce` (even when the target does
not dedup), `NoEffectDropped`, `SummariesAreTrue` (what a call counts as succeeded,
confirmed or cancelled stays on the row and is counted once), `CountsAreWrites` (every
counter, failed and reapplied too, is raised in the step that closes the row that
way), and `EngineImplementsLedger`: every step of the
engine is a step of `ItemLedger` or leaves it alone.

*With requests between any two steps* (`CrudSurfaceProofs`), again for any fence
and any target: `SurfaceTypeCorrect`, `WritesKeepTheEvidence`,
`EffectsBackEveryRollup`, `OutcomesOutliveWrites`, `ReconcilerIsRightUntilEdited`.
The invariant adds two things to the engine's. `RequestWasTrue`: a row in a
client's hand shows evidence that was true when it was read and, since the
target forgets nothing, still is. `CountsHeld`: every count kept anywhere, in a
client's hand too, is at most the number of keys the target holds an effect for.
That is weaker than `RollupNeverOverclaims`, which a requeue breaks (an applied
item is pending again, the job row still counts it): the ledger no longer backs
the count, the target does. The engine's own steps come from the lemmas of
`BulkEngineProofs`, whose type invariant `Typed` admits rows that are gone.

Of the engine's claims, `TrashKeepsExactlyOnce` says what those requests leave
standing under `SoundFence`: as long as no item row is PUT or PATCHed
(`NoItemWrites`), soft deletes, restores and purges of items and writes of the
job row cannot make an item be applied twice or by two calls at once, nor hide
its effect. The invariant is the same `ClaimInv`: a restamp only makes a claim
younger, and a call whose row was purged still knows its item's effect. With item
writes none of the three holds: a client that requeues an applied item sends it to
the target again.

*Creation* (`CreateJobProofs`): `CreateTypeCorrect`, `JobsAreWhole`,
`AnswersAreTrue`, for any number of calls, any keys and payloads and batches of
any length up to `MaxItems`, itself any number. `CreatedJobIsWhole` says nothing
of an open transaction, so it is not inductive; the strengthening is
`PrefixHeld`: the transaction holds one row per key of the items read so far, as
many as were counted, each with the payload of the first item of that key, and
none of those items was blank or oversized. At the commit everything has been
read.

*The strip* (`StripTenancyProofs`): `StripTypeCorrect`, and `KeysAreKept` if the
role sees what it counts (`BypassesRls`) and the previous release is paused
while the file runs (`WritersStopped`), for any rows, any number of lost sessions
and re-runs, with or without a transaction. The strengthening is `GuardHolds` (a
table the guard has passed is covered, and stays so: nothing but the paused
release adds an uncovered row), `AbsentEmpty`, and `SavedKeeps` (what a rollback
would restore has every key the table has now). `stripasowner` shows why the
first assumption is needed. The second is needed because nothing locks a table
between its count and its `ALTER`: a row written there would lose its only key.
`DropsNeverFail` needs neither: a policy dropped stays dropped until a rollback,
which ends the run, and a rollback neither creates nor removes a table.

*The rules* (`RowRulesProofs`): `RowsTyped`, and `RulesCoverChecks` if migrations
run while writers are paused. The invariant says that every stored row meets
every CHECK in force, and that an update in flight does too; `RulesCoverEdits` is
the step that matters: an unchanged column is good because the row read was.

*Creation, from outside* (`CreateJobProofs`): `CreateImplementsStore`. The
transaction's statements all map to "asked", so none of them shows; the commit
maps to the one step at which `JobStore` adds the whole job (`PrefixHeld`, with
the whole batch read, makes the transaction equal to `JobOf` of the batch); an
"invalid" maps to a refusal, which needs a blank key somewhere in the batch, so no
other failure is ever blamed on the caller. A lost acknowledgement is the
`Create` that answers "db_error": after that answer, and no other, a caller cannot
tell whether there is a job.

*Pages* (`PagesProofs`), for page numbers of any width and any page size.
`OffsetExact`: the offset is the number of rows on the earlier pages exactly as
long as that number fits the width. `NextIsHonest`: `has_next` is true exactly if
rows follow, up to the last page number. `PagesCutTheTable`: each place of a table
is asked for by exactly one of the pages that `total_pages` counts, if the table has
fewer rows than there are page numbers; then the product always fits. All three
rest on `RoundedUp`, what the rounded quotient counts.

*Only model-checked*: liveness (fairness and ENABLED are outside the prover):
`EveryCallEnds`, `EveryItemEnds`, `RollupHeals`, `StatusHeals`, `StripLands`. And
`MigrationLands`, which says little: it takes a role that sees the rows and
paused writers, without which a block may fail in the code too. A theorem states
every other property of the passing runs.

## 5. Not modelled

* `failures` (a read), logging, formatting of messages, the payload's parse with
  its fallback to null.
* Tenancy: the scope guard of `run_job` and `reconcile_applying` only stops a
  call before it starts, and is part of `StartRun` / `StartReconcile`. Which
  database a statement reaches is read from a task-local at each statement; no
  code here spawns a task inside a call, so the statements of one call reach one
  database, and the models take that database as given.
* The framework's CRUD code is not in this repository. Of what this module hands
  to it, the row rules, the entity updates and the routes that change a row the
  engine works on are modelled. POST, bulk create and upsert are not put next to
  the engine: a new row has an id no call holds. Routing, permissions, filters,
  sorting and the query behind a list are the framework's or the implementor's.
  The entity builders have no caller here.
* The seeders: both seed files hold comments only, so a run sends no statement
  that writes, and nothing calls `rollback`. The example in their comments takes
  new ids at each run, so nothing in the repository says what a second run of a
  filled file would do.
* The query behind a list: no code here implements it, or calls the paging types.
* The permission seed: one `DO` block on tables of the identity module. Its header
  says that what a tenant changed survives a re-run; a changed description of a
  permission is set back.
* A job row is not purged: the foreign key refuses it while items reference it.
* `Display` and `FromStr` of the status enums: tables of literals that no state
  depends on.
* The strip's down file, which calls itself no usable rollback. A strip of a
  chain that stopped before the items table errors at its `ALTER TABLE`, which
  has no IF EXISTS on the table, although the guard skipped it: `NoStatementFails`
  speaks of full chains only, `KeyKept` of all.
* Exports, empty generated event enums, and the example scaffold have no
  behaviour of the engine.

## 6. Plan

Done: the abstract ledger, the engine and its proofs; the create transaction,
the strip migration and the row rules with theirs, and the abstract job store
that the transaction implements; the CRUD routes composed with the engine,
proved about; the arithmetic of pages.

Open, in this order:

1. A fetch order for reconcile passes: `fetch_applying_stale` orders by `item_key`;
   `BulkEngine` visits in any order, which is enough for `wedged`, and assumes for its
   liveness (`EveryItemEnds`) that no mark is refused.
2. Several jobs over one target, and `CreateJob` composed with the engine: a lost
   commit acknowledgement followed by a resubmission makes a second job with the
   same keys, which only the target's dedup can absorb.

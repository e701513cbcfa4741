------------------------------ MODULE BulkState ------------------------------
(***************************************************************************)
(* The state of the bulk engine and the repository statements on it: the   *)
(* rows of one job and its items, the target module's own ledger, and what *)
(* the calls in progress hold between two statements.  The calls           *)
(* themselves are in BulkEngine.                                           *)
(***************************************************************************)
EXTENDS Integers, FiniteSets

CONSTANTS
  Keys,               \* the item_keys that create_job committed
  NoKey,              \* no item
  Runners,            \* slots for concurrent run_job calls
  Reconcilers,        \* slots for concurrent reconcile_applying calls
  Idempotent,         \* does the target honour the port's idempotency contract?
  ClaimsOutliveFence, \* can a claim pass older_than while its holder is alive?
  Oversize,           \* keys whose ref type or rejection text may break its CHECK
  Interventions,      \* what the operator does: retry, delete, restore
  MaxCrashes,         \* bound on crashes
  MaxEffects          \* bound on the effects a target holds for one key

Procs == Runners \cup Reconcilers

ASSUME KeysAssumption == IsFiniteSet(Keys) /\ Keys # {} /\ NoKey \notin Keys
ASSUME ProcsAssumption == Runners \cap Reconcilers = {}
ASSUME SwitchAssumption ==
  /\ Idempotent \in BOOLEAN
  /\ ClaimsOutliveFence \in BOOLEAN
  /\ Oversize \subseteq Keys
  /\ Interventions \subseteq {"retry", "delete", "restore"}
ASSUME BoundAssumption == MaxCrashes \in Nat /\ MaxEffects \in Nat \ {0}

VARIABLES
  \* the bulk_job_items rows
  status, ref, error,
  aged,               \* is the claim (updated_at) older than the fence?
  \* the bulk_jobs row
  job,
  \* the world outside
  effects,            \* the target's own ledger: effects held per key
  event,              \* the last BulkJobCompleted published
  \* the calls in progress
  pc,                 \* the statement the call executes next
  work,               \* the snapshot of rows still to visit
  cur,                \* the item in hand
  ack,                \* the ref the target answered with (0 = none)
  tally,              \* the result of count_outcomes
  bucket,             \* which counter of the summary each item went to
  crashes

rowVars == <<status, ref, error, aged>>
callVars == <<pc, work, cur, ack, tally, bucket>>
vars == <<rowVars, job, effects, event, callVars, crashes>>

ItemStatus == {"pending", "applying", "applied", "failed", "cancelled"}
JobStatus == {"pending", "running", "completed", "failed", "cancelled"}
Buckets == {"none", "succeeded", "failed", "confirmed", "reapplied", "cancelled"}

\* Where a call can stand; each name is the statement or port call to come.
Claiming == {"apply", "confirm", "mark_applied", "mark_failed", "mark_cancelled"}
Labels == Claiming \cup
  {"idle", "mark_running", "fetch_pending", "reserve", "fetch_applying_stale",
   "check_applied", "count_outcomes", "set_outcome", "publish"}

NoTally == [applied |-> 0, failed |-> 0, cancelled |-> 0]
NoEvent == [total |-> 0, succeeded |-> 0, failed |-> 0]

InStatus(S) == {k \in Keys : status[k] \in S}

\* A failure dominates, then a cancellation; only a clean ledger completes.
TerminalStatus(t) ==
  IF t.failed > 0 THEN "failed"
  ELSE IF t.cancelled > 0 THEN "cancelled" ELSE "completed"

-----------------------------------------------------------------------------
\* State right after create_job committed.

Init ==
  /\ status = [k \in Keys |-> "pending"]
  /\ ref = [k \in Keys |-> 0]
  /\ error = [k \in Keys |-> "none"]
  /\ aged = [k \in Keys |-> FALSE]
  /\ job = [status |-> "pending", succeeded |-> 0, failed |-> 0, deleted |-> FALSE]
  /\ effects = [k \in Keys |-> 0]
  /\ event = NoEvent
  /\ pc = [p \in Procs |-> "idle"]
  /\ work = [p \in Procs |-> {}]
  /\ cur = [p \in Procs |-> NoKey]
  /\ ack = [p \in Procs |-> 0]
  /\ tally = [p \in Procs |-> NoTally]
  /\ bucket = [p \in Procs |-> [k \in Keys |-> "none"]]
  /\ crashes = 0

Goto(p, label) == pc' = [pc EXCEPT ![p] = label]

\* The call is over (returned or died) and its locals are gone.
Forget(p) ==
  /\ Goto(p, "idle")
  /\ work' = [work EXCEPT ![p] = {}]
  /\ cur' = [cur EXCEPT ![p] = NoKey]
  /\ ack' = [ack EXCEPT ![p] = 0]
  /\ tally' = [tally EXCEPT ![p] = NoTally]
  /\ bucket' = [bucket EXCEPT ![p] = [k \in Keys |-> "none"]]

\* The top of the item loop.
LoopHead(p) == IF p \in Runners THEN "reserve" ELSE "check_applied"

\* Take item k in hand, next to execute label.
Take(p, k, label) ==
  /\ Goto(p, label)
  /\ work' = [work EXCEPT ![p] = @ \ {k}]
  /\ cur' = [cur EXCEPT ![p] = k]

\* Put the item down, counted in summary bucket b, and go round the loop.
PutDown(p, b) ==
  /\ Goto(p, LoopHead(p))
  /\ cur' = [cur EXCEPT ![p] = NoKey]
  /\ ack' = [ack EXCEPT ![p] = 0]
  /\ bucket' = [bucket EXCEPT ![p][cur[p]] = b]
  /\ UNCHANGED <<work, tally>>

-----------------------------------------------------------------------------
\* The repository's guarded UPDATEs of one item row.  A close is guarded on
\* `applying` and returns nothing: a caller cannot tell that it matched no row.
\* Every write restamps updated_at; only a claim's age is ever looked at.

CloseRow(k, outcome) ==
  /\ status' = [status EXCEPT ![k] = outcome]
  /\ aged' = [aged EXCEPT ![k] = FALSE]

mark_applied(k, r) ==
  \/ /\ status[k] = "applying"
     /\ CloseRow(k, "applied")
     /\ ref' = [ref EXCEPT ![k] = r]
     /\ UNCHANGED error
  \/ /\ status[k] # "applying"
     /\ UNCHANGED rowVars

mark_failed(k) ==
  \/ /\ status[k] = "applying"
     /\ CloseRow(k, "failed")
     /\ error' = [error EXCEPT ![k] = "rejected"]
     /\ UNCHANGED ref
  \/ /\ status[k] # "applying"
     /\ UNCHANGED rowVars

mark_cancelled(k) ==
  \/ /\ status[k] = "applying"
     /\ CloseRow(k, "cancelled")
     /\ error' = [error EXCEPT ![k] = "unverifiable"]
     /\ UNCHANGED ref
  \/ /\ status[k] # "applying"
     /\ UNCHANGED rowVars

\* The column's CHECK may refuse the row that the UPDATE would write: whether
\* it does depends on the text of this one answer, not on the item.
BreaksCheck(k) == k \in Oversize /\ status[k] = "applying"

\* Record the outcome of the item in hand with the given UPDATE; an error of
\* that UPDATE ends the whole call through `?`.
Record(p, write, b) ==
  /\ \/ /\ write
        /\ PutDown(p, b)
     \/ /\ BreaksCheck(cur[p])
        /\ Forget(p)
        /\ UNCHANGED rowVars
  /\ UNCHANGED <<job, effects, event, crashes>>
=============================================================================

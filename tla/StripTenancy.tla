---------------------------- MODULE StripTenancy ----------------------------
(***************************************************************************)
(* The migration that strips company_id from the two bulk tables: a guard  *)
(* that counts the rows the composing service's tenancy decorator has not  *)
(* re-keyed, and the drops that follow when it finds none.  Around it run  *)
(* the decorator, the previous release still writing rows, failures of the *)
(* session and re-runs.  A table is kept as sets of rows: those that carry *)
(* a company_id and those that carry an org_unit_id.                       *)
(***************************************************************************)
EXTENDS Naturals

CONSTANTS
  Rows,            \* row ids of a table
  BypassesRls,     \* is the migrating role exempt from row security?
  WritersStopped,  \* does the previous release pause while the strip runs?
  MaxFailures      \* bound on the sessions lost in the middle of a run

Tables == {"bulk_jobs", "bulk_job_items"}
First == "bulk_jobs"
Second == "bulk_job_items"

ASSUME StripAssumption ==
  /\ MaxFailures \in Nat
  /\ BypassesRls \in BOOLEAN /\ WritersStopped \in BOOLEAN

VARIABLES
  table,      \* each table: is it there, its tenancy columns, policy, rows
  one_tx,     \* does the migration runner wrap the file in a transaction?
  pc,         \* next statement of the file
  at,         \* the table the statement is about
  has_org, empty,  \* what the guard has read of that table
  offenders,  \* tables the guard found uncovered
  locked,     \* tables the open transaction has altered
  saved,      \* what a rollback restores of them
  outcome,    \* how the last run ended
  failures    \* sessions lost so far

vars == <<table, one_tx, pc, at, has_org, empty, offenders, locked, saved,
          outcome, failures>>

Columns == {"company_id", "org_unit_id"}
Table == [exists: BOOLEAN, columns: SUBSET Columns, policy: BOOLEAN,
          rows: SUBSET Rows, company: SUBSET Rows, org: SUBSET Rows]
Steps == {"has_org", "total", "nulls", "verdict", "drop_policy",
          "drop_column", "commit"}

\* What the earlier files leave behind: a table with every row keyed by
\* company_id, behind the company policy, nothing decorated yet; or no table,
\* where the chain is not fully applied.
Fenced(R) == [exists |-> TRUE, columns |-> {"company_id"}, policy |-> TRUE,
              rows |-> R, company |-> R, org |-> {}]
Nothing == [exists |-> FALSE, columns |-> {}, policy |-> FALSE,
            rows |-> {}, company |-> {}, org |-> {}]
Created == {t \in Tables : table[t].exists}

Init ==
  /\ \E stored \in [Tables -> SUBSET Rows], there \in SUBSET Tables :
       table = [t \in Tables |->
                  IF t \in there THEN Fenced(stored[t]) ELSE Nothing]
  /\ one_tx \in BOOLEAN
  /\ pc = "idle" /\ at = First
  /\ has_org = FALSE /\ empty = FALSE
  /\ offenders = {} /\ locked = {} /\ saved = table
  /\ outcome = "none" /\ failures = 0

Stripped(T) == [T EXCEPT !.columns = @ \ {"company_id"}, !.company = {}]

\* Row security is forced on both tables, and a migration session sets no
\* company: a role that does not bypass it counts no row at all.
Visible(t) == IF BypassesRls THEN table[t].rows ELSE {}

\* A plausible mistake: the loop takes one step too many, to a null name.
NextTable_OneTooMany ==
  pc' = "has_org" /\ at' = IF at = First THEN Second ELSE "null"

\* The loop moves to the second table, or out to the verdict.
NextTable ==
  IF at = First THEN pc' = "has_org" /\ at' = Second
                ELSE pc' = "verdict" /\ at' = First

(***************************************************************************)
(* More of them, each in place of the definition it is named after.        *)
(***************************************************************************)
\* The null count starts at zero and is left there without the column.
Uncovered_NoColumnNoNulls(t) == has_org /\ Visible(t) \ table[t].org # {}

\* A fresh database's empty tables are no exception.
CountNulls_EmptyRefused ==
  /\ pc = "nulls"
  /\ offenders' = IF has_org /\ Visible(at) \subseteq table[at].org
                    THEN offenders ELSE offenders \cup {at}
  /\ NextTable
  /\ UNCHANGED <<table, one_tx, has_org, empty, locked, saved, outcome,
                 failures>>

\* The items table keeps its policy.
DropPolicy_JobsOnly ==
  /\ pc = "drop_policy"
  /\ table' = [table EXCEPT ![First].policy = FALSE]
  /\ pc' = "drop_column"
  /\ UNCHANGED <<one_tx, at, has_org, empty, offenders, locked, saved,
                 outcome, failures>>

(***************************************************************************)
(* The guard                                                               *)
(***************************************************************************)
BeginStrip ==
  /\ pc = "idle"
  /\ pc' = "has_org" /\ at' = First
  /\ has_org' = FALSE /\ empty' = FALSE /\ offenders' = {}
  /\ outcome' = "none"
  /\ UNCHANGED <<table, one_tx, locked, saved, failures>>

\* to_regclass finds no table: CONTINUE.
SkipAbsent ==
  /\ pc = "has_org" /\ at \notin Created
  /\ NextTable
  /\ UNCHANGED <<table, one_tx, has_org, empty, offenders, locked, saved,
                 outcome, failures>>

ReadHasOrg ==
  /\ pc = "has_org" /\ at \in Created
  /\ has_org' = ("org_unit_id" \in table[at].columns)
  /\ pc' = "total"
  /\ UNCHANGED <<table, one_tx, at, empty, offenders, locked, saved, outcome,
                 failures>>

CountTotal ==
  /\ pc = "total"
  /\ empty' = (Visible(at) = {})
  /\ pc' = "nulls"
  /\ UNCHANGED <<table, one_tx, at, has_org, offenders, locked, saved,
                 outcome, failures>>

\* An uncovered table joins the offenders unless its count was zero.
Uncovered(t) == IF has_org THEN Visible(t) \ table[t].org # {} ELSE TRUE

CountNulls ==
  /\ pc = "nulls"
  /\ offenders' = IF Uncovered(at) /\ ~empty THEN offenders \cup {at}
                                             ELSE offenders
  /\ NextTable
  /\ UNCHANGED <<table, one_tx, has_org, empty, locked, saved, outcome,
                 failures>>

(***************************************************************************)
(* The ends of a run: what it leaves is committed, or undone as far as one *)
(* transaction held it.                                                    *)
(***************************************************************************)
Abort(why) ==
  /\ table' = [t \in Tables |-> IF t \in locked THEN saved[t] ELSE table[t]]
  /\ locked' = {} /\ pc' = "idle" /\ outcome' = why
  /\ UNCHANGED <<one_tx, at, has_org, empty, offenders, saved>>

Raise ==
  /\ pc = "verdict" /\ offenders # {}
  /\ Abort("refused")
  /\ UNCHANGED failures

Pass ==
  /\ pc = "verdict" /\ offenders = {}
  /\ pc' = "drop_policy"
  /\ UNCHANGED <<table, one_tx, at, has_org, empty, offenders, locked, saved,
                 outcome, failures>>

LoseSession ==
  /\ pc \in Steps /\ failures < MaxFailures
  /\ Abort("lost")
  /\ failures' = failures + 1

Commit ==
  /\ pc = "commit"
  /\ locked' = {} /\ pc' = "done" /\ outcome' = "stripped"
  /\ UNCHANGED <<table, one_tx, at, has_org, empty, offenders, saved, failures>>

(***************************************************************************)
(* The drops.  The statement that alters a table holds it until the end of *)
(* the transaction, when there is one.                                     *)
(***************************************************************************)
Hold(t) ==
  IF one_tx /\ t \notin locked
    THEN locked' = locked \cup {t} /\ saved' = [saved EXCEPT ![t] = table[t]]
    ELSE UNCHANGED <<locked, saved>>

\* IF EXISTS covers the table as well as the policy.
DropPolicy ==
  /\ pc = "drop_policy"
  /\ IF at \in Created
       THEN table' = [table EXCEPT ![at].policy = FALSE] /\ Hold(at)
       ELSE UNCHANGED <<table, locked, saved>>
  /\ pc' = "drop_column"
  /\ UNCHANGED <<one_tx, at, has_org, empty, offenders, outcome, failures>>

\* The column cannot go while a policy reads it, nor from a missing table.
ColumnDroppable(t) == t \in Created /\ ~table[t].policy

DropColumn ==
  /\ pc = "drop_column" /\ ColumnDroppable(at)
  /\ table' = [table EXCEPT ![at] = Stripped(@)]
  /\ Hold(at)
  /\ IF at = First THEN pc' = "drop_policy" /\ at' = Second
                   ELSE pc' = "commit" /\ at' = First
  /\ UNCHANGED <<one_tx, has_org, empty, offenders, outcome, failures>>

DropColumnFails ==
  /\ pc = "drop_column" /\ ~ColumnDroppable(at)
  /\ Abort("sql_error")
  /\ UNCHANGED failures

(***************************************************************************)
(* The other sessions, kept out of a table while it is locked.             *)
(***************************************************************************)
OnTable(t, new) ==
  /\ t \in Created \ locked
  /\ table' = [table EXCEPT ![t] = new]
  /\ UNCHANGED <<one_tx, pc, at, has_org, empty, offenders, locked, saved,
                 outcome, failures>>

DecoratorAddOrg(t) ==
  /\ "org_unit_id" \notin table[t].columns
  /\ OnTable(t, [table[t] EXCEPT !.columns = @ \cup {"org_unit_id"}])

DecoratorBackfill(t) ==
  /\ "org_unit_id" \in table[t].columns
  /\ ~(table[t].company \subseteq table[t].org)
  /\ OnTable(t, [table[t] EXCEPT !.org = @ \cup table[t].company])

OldReleaseWrites(t, r) ==
  /\ WritersStopped => pc = "idle"
  /\ "company_id" \in table[t].columns /\ r \notin table[t].rows
  /\ OnTable(t, [table[t] EXCEPT !.rows = @ \cup {r}, !.company = @ \cup {r}])

Strip == \/ BeginStrip \/ SkipAbsent \/ ReadHasOrg \/ CountTotal \/ CountNulls
         \/ Raise \/ Pass \/ DropPolicy \/ DropColumn \/ DropColumnFails
         \/ Commit
Decorator == \E t \in Tables : DecoratorAddOrg(t) \/ DecoratorBackfill(t)
OldRelease == \E t \in Tables, r \in Rows : OldReleaseWrites(t, r)

Next == Strip \/ LoseSession \/ Decorator \/ OldRelease

\* The runner takes its next statement and re-runs a file that failed; the
\* decorator and the old release owe nothing.
Spec == Init /\ [][Next]_vars /\ WF_vars(Strip)

(***************************************************************************)
(* Properties                                                              *)
(***************************************************************************)
TypeOK ==
  /\ table \in [Tables -> Table] /\ saved \in [Tables -> Table]
  /\ one_tx \in BOOLEAN /\ has_org \in BOOLEAN /\ empty \in BOOLEAN
  /\ pc \in Steps \cup {"idle", "done"} /\ at \in Tables
  /\ offenders \subseteq Tables /\ locked \subseteq Tables
  /\ outcome \in {"none", "refused", "lost", "sql_error", "stripped"}
  /\ failures \in 0..MaxFailures

Keyed(t) == table[t].rows \cap (table[t].company \cup table[t].org)

\* A row that has a tenancy key never loses its last one, whatever fails,
\* is re-run or is decorated in between: the guard refuses instead.
KeyKept == [][\A t \in Tables : Keyed(t) \subseteq Keyed(t)']_vars

\* On a fully applied chain no statement after the guard errors: the policy
\* goes before the column it reads, on re-runs over what a lost session left.
NoStatementFails == Created = Tables => outcome # "sql_error"

Covered(t) == table[t].rows \subseteq table[t].org

\* Once every row is and stays re-keyed, the strip of a fully applied chain
\* ends, by re-running as often as sessions are lost: a failed run leaves
\* nothing in its way.
StripLands ==
  <>[](Created = Tables /\ \A t \in Tables : Covered(t)) => <>(pc = "done")
=============================================================================

------------------------- MODULE StripTenancyProofs -------------------------
(***************************************************************************)
(* The strip keeps every tenancy key, for any rows, any tables created,    *)
(* any number of lost sessions and with or without a transaction around    *)
(* the file, provided the migrating role sees the rows it counts and the   *)
(* previous release writes none while it runs.                             *)
(***************************************************************************)
EXTENDS StripTenancy, TLAPS

Guarding == {"has_org", "total", "nulls"}
Dropping == {"drop_policy", "drop_column", "commit"}

\* What the guard knows at each point of its loop is still so at that point:
\* a table behind it is an offender or covered, and past the verdict all are
\* covered.
GuardHolds ==
  /\ pc = "nulls" /\ empty => table[at].rows = {}
  /\ pc \in Guarding /\ at = Second => First \in offenders \/ Covered(First)
  /\ pc = "verdict" => \A t \in Tables : t \in offenders \/ Covered(t)
  /\ pc \in Dropping => \A t \in Tables : Covered(t)

AbsentEmpty == \A t \in Tables : ~table[t].exists => table[t].rows = {}

\* A rollback gives back a table that exists and every key there is.
SavedKeeps ==
  \A t \in locked :
    /\ saved[t].exists
    /\ Keyed(t) \subseteq saved[t].rows \cap (saved[t].company \cup saved[t].org)

Inv == TypeOK /\ AbsentEmpty /\ GuardHolds /\ SavedKeeps

(***************************************************************************)
(* Type correctness                                                        *)
(***************************************************************************)
LEMMA InitTyped == Init => TypeOK
<1> SUFFICES ASSUME Init PROVE TypeOK
  OBVIOUS
<1>1. PICK stored \in [Tables -> SUBSET Rows], there \in SUBSET Tables :
        table = [t \in Tables |->
                   IF t \in there THEN Fenced(stored[t]) ELSE Nothing]
  BY DEF Init
<1>2. \A t \in Tables : Fenced(stored[t]) \in Table /\ Nothing \in Table
  BY DEF Fenced, Nothing, Table, Columns
<1>3. table \in [Tables -> Table]
  BY <1>1, <1>2
<1>4. saved \in [Tables -> Table]
  BY <1>3 DEF Init
<1>5. at \in Tables /\ failures \in 0..MaxFailures
  BY StripAssumption DEF Init, Tables, First
<1>6. one_tx \in BOOLEAN /\ has_org \in BOOLEAN /\ empty \in BOOLEAN
  BY DEF Init
<1> QED
  BY <1>3, <1>4, <1>5, <1>6 DEF Init, TypeOK

LEMMA StrippedTyped ==
  ASSUME NEW T \in Table
  PROVE  Stripped(T) \in Table
BY DEF Stripped, Table

LEMMA TypedStep == TypeOK /\ [Next]_vars => TypeOK'
<1> SUFFICES ASSUME TypeOK, [Next]_vars PROVE TypeOK'
  OBVIOUS
<1> USE StripAssumption DEF TypeOK, Tables, First, Second, Steps
<1>1. CASE BeginStrip
  BY <1>1 DEF BeginStrip
<1>2. CASE SkipAbsent
  BY <1>2 DEF SkipAbsent, NextTable
<1>3. CASE ReadHasOrg
  BY <1>3 DEF ReadHasOrg
<1>4. CASE CountTotal
  BY <1>4 DEF CountTotal
<1>5. CASE CountNulls
  BY <1>5 DEF CountNulls, NextTable
<1>6. ASSUME NEW why \in {"refused", "lost", "sql_error"}, Abort(why),
             failures' \in 0..MaxFailures
      PROVE  TypeOK'
  BY <1>6 DEF Abort
<1>7. CASE Raise
  BY <1>6, <1>7 DEF Raise
<1>8. CASE Pass
  BY <1>8 DEF Pass
<1>9. CASE DropPolicy
  <2>0. [table[at] EXCEPT !.policy = FALSE] \in Table
    <3>1. table[at] \in Table
      OBVIOUS
    <3> QED
      BY <3>1 DEF Table
  <2>1. table' \in [Tables -> Table]
    <3>1. CASE at \in Created
      <4>1. table' = [table EXCEPT ![at] = [table[at] EXCEPT !.policy = FALSE]]
        BY <1>9, <3>1 DEF DropPolicy
      <4> QED
        BY <2>0, <4>1
    <3> QED
      BY <1>9, <3>1 DEF DropPolicy
  <2>2. saved' \in [Tables -> Table]
    BY <1>9 DEF DropPolicy, Hold
  <2> QED
    BY <1>9, <2>1, <2>2 DEF DropPolicy, Hold
<1>10. CASE DropColumn
  <2>1. Stripped(table[at]) \in Table
    <3>1. table[at] \in Table
      OBVIOUS
    <3> QED
      BY <3>1, StrippedTyped
  <2>2. table' \in [Tables -> Table] /\ saved' \in [Tables -> Table]
    BY <1>10, <2>1 DEF DropColumn, Hold
  <2>3. at \in Created
    BY <1>10 DEF DropColumn, ColumnDroppable
  <2> QED
    BY <1>10, <2>2, <2>3 DEF DropColumn, Hold
<1>11. CASE DropColumnFails
  BY <1>6, <1>11 DEF DropColumnFails
<1>12. CASE Commit
  BY <1>12 DEF Commit
<1>13. CASE LoseSession
  BY <1>6, <1>13 DEF LoseSession
<1>14. ASSUME NEW t \in Tables, NEW new \in Table, OnTable(t, new)
       PROVE  TypeOK'
  BY <1>14 DEF OnTable
<1>15. CASE Decorator
  <2>1. \A t \in Tables :
          /\ [table[t] EXCEPT !.columns = @ \cup {"org_unit_id"}] \in Table
          /\ [table[t] EXCEPT !.org = @ \cup table[t].company] \in Table
    BY DEF Table, Columns
  <2> QED
    BY <1>14, <1>15, <2>1 DEF Decorator, DecoratorAddOrg, DecoratorBackfill
<1>16. CASE OldRelease
  <2>1. \A t \in Tables, r \in Rows :
          [table[t] EXCEPT !.rows = @ \cup {r}, !.company = @ \cup {r}]
            \in Table
    BY DEF Table
  <2> QED
    BY <1>14, <1>16, <2>1 DEF OldRelease, OldReleaseWrites
<1>17. CASE UNCHANGED vars
  BY <1>17 DEF vars
<1> QED
  BY <1>1, <1>2, <1>3, <1>4, <1>5, <1>7, <1>8, <1>9, <1>10, <1>11, <1>12,
     <1>13, <1>15, <1>16, <1>17 DEF Next, Strip
\* Every variable of the strip keeps its type, whoever else is at work.
THEOREM StripTypeCorrect == Spec => []TypeOK
<1>1. Spec => [](TypeOK)
  BY InitTyped, TypedStep, PTL DEF Spec
<1> QED
  BY <1>1, PTL

(***************************************************************************)
(* What the guard has seen stays seen                                      *)
(***************************************************************************)
LEMMA InitInv == Init => Inv
<1> SUFFICES ASSUME Init PROVE Inv
  OBVIOUS
<1>1. AbsentEmpty
  BY DEF Init, AbsentEmpty, Fenced, Nothing
<1> QED
  BY <1>1, InitTyped DEF Init, Inv, GuardHolds, SavedKeeps, Guarding, Dropping

\* With the writers stopped, another session's step inside a run covers more
\* rows and takes no key; it finds the table unlocked.
LEMMA OthersKeep ==
  ASSUME WritersStopped, Inv, Decorator \/ OldRelease
  PROVE  /\ \A t \in Tables : Keyed(t) \subseteq Keyed(t)'
         /\ \A t \in Tables : pc # "idle" /\ Covered(t) => Covered(t)'
         /\ \A t \in Tables : pc # "idle" => table'[t].rows = table[t].rows
         /\ \A t \in locked : table'[t] = table[t]
         /\ AbsentEmpty'
         /\ UNCHANGED <<pc, at, has_org, empty, offenders, locked, saved>>
<1> USE DEF OnTable, Keyed, Covered, Inv, TypeOK
<1>1. ASSUME NEW t \in Tables, DecoratorAddOrg(t)
      PROVE  /\ table'[t].exists = table[t].exists
             /\ table'[t].rows = table[t].rows
             /\ table'[t].company = table[t].company
             /\ table'[t].org = table[t].org
  BY <1>1 DEF DecoratorAddOrg, Table
<1>2. ASSUME NEW t \in Tables, DecoratorBackfill(t)
      PROVE  /\ table'[t].exists = table[t].exists
             /\ table'[t].rows = table[t].rows
             /\ table'[t].company = table[t].company
             /\ table'[t].org = table[t].org \cup table[t].company
  BY <1>2 DEF DecoratorBackfill, Table
<1>3. ASSUME NEW t \in Tables, NEW r \in Rows, OldReleaseWrites(t, r)
      PROVE  /\ pc = "idle" /\ table'[t].exists = table[t].exists
             /\ table'[t].rows = table[t].rows \cup {r}
             /\ table'[t].company = table[t].company \cup {r}
             /\ table'[t].org = table[t].org
  BY <1>3, WritersStopped DEF OldReleaseWrites, Table
<1>4. PICK t \in Tables :
        /\ DecoratorAddOrg(t) \/ DecoratorBackfill(t)
             \/ \E r \in Rows : OldReleaseWrites(t, r)
  BY DEF Decorator, OldRelease
<1>5. \E new : OnTable(t, new)
  BY <1>4 DEF DecoratorAddOrg, DecoratorBackfill, OldReleaseWrites
<1>6. /\ t \in Created \ locked
      /\ \A u \in Tables : u # t => table'[u] = table[u]
      /\ UNCHANGED <<pc, at, has_org, empty, offenders, locked, saved>>
  BY <1>5
<1>7. Keyed(t) \subseteq Keyed(t)'
  BY <1>1, <1>2, <1>3, <1>4
<1>8. pc # "idle" => /\ table'[t].rows = table[t].rows
                     /\ Covered(t) => Covered(t)'
  BY <1>1, <1>2, <1>3, <1>4
<1>9. AbsentEmpty'
  <2>1. table'[t].exists
    BY <1>1, <1>2, <1>3, <1>4, <1>6 DEF Created
  <2> QED
    BY <1>6, <2>1 DEF AbsentEmpty
<1>10. locked \subseteq Tables
  BY StripAssumption
<1> QED
  BY <1>6, <1>7, <1>8, <1>9, <1>10

LEMMA AbortKeeps ==
  ASSUME Inv, NEW why, Abort(why)
  PROVE  (\A t \in Tables : Keyed(t) \subseteq Keyed(t)') /\ AbsentEmpty'
           /\ GuardHolds' /\ SavedKeeps'
<1>1. pc' = "idle" /\ locked' = {}
  BY DEF Abort
<1>2. \A t \in Tables :
        table'[t] = IF t \in locked THEN saved[t] ELSE table[t]
  BY DEF Abort
<1>3. \A t \in Tables : Keyed(t) \subseteq Keyed(t)'
  BY <1>2 DEF Inv, SavedKeeps, Keyed
<1>4. AbsentEmpty'
  BY <1>2 DEF Inv, SavedKeeps, AbsentEmpty
<1> QED
  BY <1>1, <1>3, <1>4 DEF GuardHolds, SavedKeeps, Guarding, Dropping

\* The three parts a drop could disturb: keys, the rows of absent tables,
\* and what a rollback restores.
LEMMA DropKeeps ==
  ASSUME Inv, DropPolicy \/ DropColumn
  PROVE  /\ \A t \in Tables : Keyed(t) \subseteq Keyed(t)'
         /\ \A t \in Tables : Covered(t)'
         /\ AbsentEmpty' /\ SavedKeeps'
<1> USE DEF Inv, TypeOK, Covered, Keyed
<1>1. \A t \in Tables : Covered(t)
  BY DEF GuardHolds, Dropping, DropPolicy, DropColumn
<1>2. at \in Tables /\ locked \subseteq Tables
  BY StripAssumption
<1>3. \A t \in Tables : /\ table'[t].rows = table[t].rows
                        /\ table'[t].org = table[t].org
                        /\ table'[t].company \subseteq table[t].company
                        /\ table'[t].exists = table[t].exists
  <2>1. CASE DropPolicy
    <3>1. CASE at \in Created
      <4>1. table' = [table EXCEPT ![at] = [table[at] EXCEPT !.policy = FALSE]]
        BY <2>1, <3>1 DEF DropPolicy
      <4> QED
        BY <1>2, <4>1 DEF Table
    <3> QED
      BY <2>1, <3>1 DEF DropPolicy
  <2>2. CASE DropColumn
    <3>1. table' = [table EXCEPT ![at] = Stripped(table[at])]
      BY <2>2 DEF DropColumn
    <3> QED
      BY <1>2, <3>1 DEF Table, Stripped
  <2> QED
    BY <2>1, <2>2
<1>4. \A t \in Tables : Covered(t)' /\ Keyed(t) \subseteq Keyed(t)'
                        /\ Keyed(t)' \subseteq Keyed(t)
  BY <1>1, <1>3
<1>5. AbsentEmpty'
  BY <1>3 DEF AbsentEmpty
<1>6. \/ UNCHANGED <<locked, saved>>
      \/ /\ locked' = locked \cup {at} /\ at \notin locked /\ at \in Created
         /\ saved' = [saved EXCEPT ![at] = table[at]]
  BY DEF DropPolicy, DropColumn, ColumnDroppable, Hold
<1>7. SavedKeeps'
  <2> SUFFICES ASSUME NEW t \in locked'
               PROVE  /\ saved'[t].exists
                      /\ Keyed(t)' \subseteq saved'[t].rows
                           \cap (saved'[t].company \cup saved'[t].org)
    BY DEF SavedKeeps
  <2>1. t \in Tables
    BY <1>2, <1>6
  <2>2. CASE t \in locked /\ saved'[t] = saved[t]
    BY <1>4, <2>1, <2>2 DEF SavedKeeps
  <2>3. CASE saved'[t] = table[t] /\ t \in Created
    BY <1>4, <2>1, <2>3 DEF Created
  <2> QED
    BY <1>2, <1>6, <2>1, <2>2, <2>3
<1> QED
  BY <1>4, <1>5, <1>7

(***************************************************************************)
(* Keys are kept                                                           *)
(***************************************************************************)
LEMMA InvStep ==
  ASSUME BypassesRls, WritersStopped, Inv, [Next]_vars
  PROVE  Inv' /\ \A t \in Tables : Keyed(t) \subseteq Keyed(t)'
<1>1. TypeOK'
  BY TypedStep DEF Inv
<1> SUFFICES /\ AbsentEmpty' /\ GuardHolds' /\ SavedKeeps'
             /\ \A t \in Tables : Keyed(t) \subseteq Keyed(t)'
  BY <1>1 DEF Inv
<1>2. ASSUME UNCHANGED <<table, locked, saved>>
      PROVE  /\ AbsentEmpty' /\ SavedKeeps'
             /\ \A t \in Tables : Keyed(t) \subseteq Keyed(t)'
             /\ \A t \in Tables : Covered(t)' <=> Covered(t)
  BY <1>2 DEF Inv, AbsentEmpty, SavedKeeps, Keyed, Covered
<1>3. \A t \in Tables : t = First \/ t = Second
  BY DEF Tables, First, Second
<1>4. ASSUME NEW why, Abort(why)
      PROVE  /\ AbsentEmpty' /\ GuardHolds' /\ SavedKeeps'
             /\ \A t \in Tables : Keyed(t) \subseteq Keyed(t)'
  BY <1>4, AbortKeeps
<1>5. CASE BeginStrip
  <2>1. GuardHolds'
    BY <1>5 DEF BeginStrip, GuardHolds, Guarding, Dropping, First, Second
  <2> QED
    BY <1>2, <1>5, <2>1 DEF BeginStrip
\* The guard moves past a table that is an offender or covered.
<1>6. ASSUME pc \in Guarding, NextTable, UNCHANGED <<table, locked, saved>>,
             offenders \subseteq offenders',
             at \in offenders' \/ Covered(at)
      PROVE  GuardHolds'
  <2>1. CASE at = First
    <3>1. pc' = "has_org"
      BY <1>6, <2>1 DEF NextTable
    <3>2. First \in offenders' \/ Covered(First)'
      BY <1>2, <1>6, <2>1 DEF Inv, TypeOK
    <3> QED
      BY <3>1, <3>2 DEF GuardHolds, Guarding, Dropping
  <2>2. CASE at = Second
    <3>1. First \in offenders \/ Covered(First)
      BY <1>6, <2>2 DEF Inv, GuardHolds
    <3>2. \A t \in Tables : t \in offenders' \/ Covered(t)'
      BY <1>2, <1>3, <1>6, <2>2, <3>1
    <3>3. pc' = "verdict"
      BY <1>6, <2>2 DEF NextTable, First, Second
    <3> QED
      BY <3>2, <3>3 DEF GuardHolds, Guarding, Dropping
  <2> QED
    BY <1>3, <2>1, <2>2 DEF Inv, TypeOK
<1>7. CASE SkipAbsent
  <2>1. Covered(at)
    BY <1>7 DEF SkipAbsent, Created, Inv, TypeOK, AbsentEmpty, Covered
  <2>2. GuardHolds'
    BY <1>6, <1>7, <2>1 DEF SkipAbsent, Guarding
  <2> QED
    BY <1>2, <1>7, <2>2 DEF SkipAbsent
<1>8. CASE ReadHasOrg
  <2>1. GuardHolds'
    BY <1>2, <1>8 DEF ReadHasOrg, Inv, GuardHolds, Guarding, Dropping, First,
                      Second, Tables
  <2> QED
    BY <1>2, <1>8, <2>1 DEF ReadHasOrg
<1>9. CASE CountTotal
  <2>1. empty' => table[at].rows = {}
    BY <1>9, BypassesRls DEF CountTotal, Visible
  <2>2. GuardHolds'
    BY <1>2, <1>9, <2>1 DEF CountTotal, Inv, GuardHolds, Guarding, Dropping,
                            First, Second, Tables
  <2> QED
    BY <1>2, <1>9, <2>2 DEF CountTotal
<1>10. CASE CountNulls
  <2>1. CASE Uncovered(at) /\ ~empty
    BY <1>2, <1>6, <1>10, <2>1 DEF CountNulls, Guarding
  <2>2. CASE ~Uncovered(at) \/ empty
    <3>1. Covered(at)
      <4>1. CASE empty
        BY <1>10, <4>1 DEF CountNulls, Inv, GuardHolds, Covered
      <4>2. CASE ~Uncovered(at)
        BY <4>2, BypassesRls DEF Uncovered, Visible, Covered
      <4> QED
        BY <2>2, <4>1, <4>2
    <3> QED
      BY <1>2, <1>6, <1>10, <2>2, <3>1 DEF CountNulls, Guarding
  <2> QED
    BY <2>1, <2>2
<1>11. CASE Raise
  BY <1>4, <1>11 DEF Raise
<1>12. CASE Pass
  <2>1. \A t \in Tables : Covered(t)
    BY <1>12 DEF Pass, Inv, GuardHolds
  <2>2. GuardHolds'
    BY <1>2, <1>12, <2>1 DEF Pass, GuardHolds, Guarding, Dropping
  <2> QED
    BY <1>2, <1>12, <2>2 DEF Pass
<1>13. CASE DropPolicy \/ DropColumn
  <2>1. pc' \in Dropping
    BY <1>13 DEF DropPolicy, DropColumn, Dropping
  <2>2. GuardHolds'
    BY <1>13, <2>1, DropKeeps DEF GuardHolds, Guarding, Dropping
  <2> QED
    BY <1>13, <2>2, DropKeeps
<1>14. CASE DropColumnFails
  BY <1>4, <1>14 DEF DropColumnFails
<1>15. CASE Commit
  <2>1. AbsentEmpty' /\ SavedKeeps' /\ GuardHolds'
    BY <1>15 DEF Commit, Inv, AbsentEmpty, SavedKeeps, GuardHolds, Guarding,
                 Dropping
  <2> QED
    BY <1>15, <2>1 DEF Commit, Keyed
<1>16. CASE LoseSession
  BY <1>4, <1>16 DEF LoseSession
<1>17. CASE Decorator \/ OldRelease
  <2>1. AbsentEmpty' /\ \A t \in Tables : Keyed(t) \subseteq Keyed(t)'
    BY <1>17, OthersKeep
  <2>2. SavedKeeps'
    BY <1>17, OthersKeep DEF Inv, SavedKeeps, Keyed
  <2>3. UNCHANGED <<pc, at, empty, offenders>>
    BY <1>17, OthersKeep
  <2>4. \A t \in Tables : pc # "idle" =>
          /\ table'[t].rows = table[t].rows
          /\ Covered(t) => Covered(t)'
    BY <1>17, OthersKeep
  <2>5. at \in Tables /\ First \in Tables
    BY DEF Inv, TypeOK, Tables, First
  <2>6. GuardHolds'
    BY <2>3, <2>4, <2>5 DEF Inv, GuardHolds, Guarding, Dropping
  <2> QED
    BY <2>1, <2>2, <2>6
<1>18. CASE UNCHANGED vars
  <2>1. GuardHolds'
    BY <1>18 DEF vars, Inv, GuardHolds, Covered
  <2> QED
    BY <1>2, <1>18, <2>1 DEF vars
<1> QED
  BY <1>5, <1>7, <1>8, <1>9, <1>10, <1>11, <1>12, <1>13, <1>14, <1>15, <1>16,
     <1>17, <1>18 DEF Next, Strip

\* A row that has a tenancy key never loses its last one, when the role that
\* migrates bypasses row security and the previous release is paused.
THEOREM KeysAreKept ==
  ASSUME BypassesRls, WritersStopped
  PROVE  Spec => KeyKept
<1>1. Inv /\ [Next]_vars => Inv'
  BY InvStep
<1>2. Spec => []Inv
  BY <1>1, InitInv, PTL DEF Spec
<1>3. Inv /\ [Next]_vars => [\A t \in Tables : Keyed(t) \subseteq Keyed(t)']_vars
  BY InvStep
<1> QED
  BY <1>2, <1>3, PTL DEF Spec, KeyKept

(***************************************************************************)
(* No drop meets an obstacle                                               *)
(***************************************************************************)
\* The policy of a table is gone before its column goes, and stays gone: only
\* a rollback brings it back, and that ends the run.  No table appears or
\* vanishes, a rollback's included.
DropsReady ==
  /\ TypeOK
  /\ \A t \in locked : table[t].exists /\ saved[t].exists
  /\ pc = "drop_column" => (at \in Created => ~table[at].policy)
  /\ NoStatementFails

LEMMA DropsReadyStep == DropsReady /\ [Next]_vars => DropsReady'
<1> SUFFICES ASSUME DropsReady, [Next]_vars PROVE DropsReady'
  OBVIOUS
<1>1. TypeOK'
  BY TypedStep DEF DropsReady
<1> USE DEF DropsReady, NoStatementFails
<1>2. ASSUME UNCHANGED <<table, locked, saved>>, pc' # "drop_column",
             outcome' # "sql_error" \/ UNCHANGED outcome
      PROVE  DropsReady'
  BY <1>1, <1>2 DEF Created
<1>3. ASSUME NEW why, Abort(why), why = "sql_error" => Created # Tables
      PROVE  DropsReady'
  <2>1. \A t \in Tables : table'[t].exists <=> table[t].exists
    BY <1>3 DEF Abort, TypeOK
  <2>2. Created' = Created
    BY <2>1 DEF Created
  <2>3. locked' = {} /\ pc' = "idle" /\ outcome' = why
    BY <1>3 DEF Abort
  <2> QED
    BY <1>1, <1>3, <2>2, <2>3
<1>4. CASE BeginStrip \/ SkipAbsent \/ ReadHasOrg \/ CountTotal \/ CountNulls
             \/ Pass
  BY <1>2, <1>4 DEF BeginStrip, SkipAbsent, ReadHasOrg, CountTotal, CountNulls,
                    Pass, NextTable
<1>5. CASE Raise \/ LoseSession
  BY <1>3, <1>5 DEF Raise, LoseSession
<1>6. ASSUME NEW t \in Tables, NEW new \in Table, t \in Created,
             table' = [table EXCEPT ![t] = new], new.exists,
             Hold(t) \/ UNCHANGED <<locked, saved>>
      PROVE  /\ Created' = Created
             /\ \A u \in locked' : table'[u].exists /\ saved'[u].exists
  <2>1. \A u \in Tables : table'[u].exists <=> table[u].exists
    BY <1>6 DEF Created, TypeOK
  <2>2. \A u \in locked' : u = t \/ u \in locked
    BY <1>6 DEF Hold
  <2>3. \A u \in locked' : table[u].exists /\ saved'[u].exists
    BY <1>6, <2>2 DEF Hold, Created, TypeOK
  <2>4. \A u \in locked' : u \in Tables
    BY <1>1 DEF TypeOK
  <2> QED
    BY <2>1, <2>3, <2>4 DEF Created
<1>7. CASE DropPolicy
  <2>1. pc' = "drop_column" /\ at' = at /\ outcome' = outcome /\ at \in Tables
    BY <1>7 DEF DropPolicy, TypeOK
  <2>2. CASE at \in Created
    <3> DEFINE new == [table[at] EXCEPT !.policy = FALSE]
    <3>1. table[at] \in Table
      BY <2>1 DEF TypeOK
    <3>2. new \in Table /\ new.exists /\ ~new.policy
      BY <2>2, <3>1 DEF Table, Created
    <3>3. table' = [table EXCEPT ![at] = new] /\ Hold(at)
      BY <1>7, <2>2 DEF DropPolicy
    <3>4. table'[at] = new
      BY <2>1, <3>3 DEF TypeOK
    <3> HIDE DEF new
    <3>5. /\ Created' = Created
          /\ \A u \in locked' : table'[u].exists /\ saved'[u].exists
      BY <1>6, <2>1, <2>2, <3>2, <3>3
    <3> QED
      BY <1>1, <2>1, <3>2, <3>4, <3>5
  <2>3. CASE at \notin Created
    BY <1>1, <1>7, <2>1, <2>3 DEF DropPolicy, Created
  <2> QED
    BY <2>2, <2>3
<1>8. CASE DropColumn
  <2>1. table[at] \in Table /\ at \in Tables /\ at \in Created
    BY <1>8 DEF DropColumn, ColumnDroppable, TypeOK
  <2>2. Stripped(table[at]) \in Table /\ Stripped(table[at]).exists
    BY <2>1, StrippedTyped DEF Stripped, Table, Created
  <2>3. /\ Created' = Created
        /\ \A u \in locked' : table'[u].exists /\ saved'[u].exists
    BY <1>6, <1>8, <2>1, <2>2 DEF DropColumn
  <2>4. pc' # "drop_column" /\ outcome' = outcome
    BY <1>8 DEF DropColumn
  <2> QED
    BY <1>1, <2>3, <2>4
<1>9. CASE DropColumnFails
  <2>1. at \in Tables /\ at \notin Created
    BY <1>9 DEF DropColumnFails, ColumnDroppable, TypeOK
  <2> QED
    BY <1>3, <1>9, <2>1 DEF DropColumnFails
<1>10. CASE Commit
  BY <1>1, <1>10 DEF Commit, Created
<1>11. ASSUME NEW t \in Tables, NEW new \in Table, OnTable(t, new),
              new.exists, new.policy = table[t].policy
       PROVE  DropsReady'
  <2>1. t \in Created /\ table' = [table EXCEPT ![t] = new]
        /\ UNCHANGED <<pc, at, locked, saved, outcome>>
    BY <1>11 DEF OnTable
  <2>2. /\ Created' = Created
        /\ \A u \in locked' : table'[u].exists /\ saved'[u].exists
    BY <1>6, <1>11, <2>1
  <2>3. \A u \in Tables : table'[u].policy = table[u].policy
    BY <1>11, <2>1 DEF TypeOK
  <2> QED
    BY <1>1, <2>1, <2>2, <2>3 DEF TypeOK
<1>12. CASE Decorator \/ OldRelease
  <2>1. ASSUME NEW t \in Tables, DecoratorAddOrg(t)
        PROVE  DropsReady'
    <3>1. table[t] \in Table
      BY DEF TypeOK
    <3>2. t \in Created
      BY <2>1 DEF DecoratorAddOrg, OnTable
    <3> QED
      BY <1>11, <2>1, <3>1, <3>2 DEF DecoratorAddOrg, Table, Columns, Created
  <2>2. ASSUME NEW t \in Tables, DecoratorBackfill(t)
        PROVE  DropsReady'
    <3>1. table[t] \in Table
      BY DEF TypeOK
    <3>2. t \in Created
      BY <2>2 DEF DecoratorBackfill, OnTable
    <3> QED
      BY <1>11, <2>2, <3>1, <3>2 DEF DecoratorBackfill, Table, Created
  <2>3. ASSUME NEW t \in Tables, NEW r \in Rows, OldReleaseWrites(t, r)
        PROVE  DropsReady'
    <3>1. table[t] \in Table
      BY DEF TypeOK
    <3>2. t \in Created
      BY <2>3 DEF OldReleaseWrites, OnTable
    <3> QED
      BY <1>11, <2>3, <3>1, <3>2 DEF OldReleaseWrites, Table, Created
  <2> QED
    BY <1>12, <2>1, <2>2, <2>3 DEF Decorator, OldRelease
<1>13. CASE UNCHANGED vars
  BY <1>1, <1>13 DEF vars, Created
<1> QED
  BY <1>4, <1>5, <1>7, <1>8, <1>9, <1>10, <1>12, <1>13 DEF Next, Strip

\* On a fully applied chain no statement of the strip errors, whatever an
\* earlier run left, whoever writes beside it and whatever its role can see.
THEOREM DropsNeverFail == Spec => []NoStatementFails
<1>1. Init => DropsReady
  BY InitTyped DEF Init, DropsReady, NoStatementFails
<1>2. DropsReady /\ [Next]_vars => DropsReady'
  BY DropsReadyStep
<1> QED
  BY <1>1, <1>2, PTL DEF Spec, DropsReady
=============================================================================

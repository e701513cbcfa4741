--------------------------- MODULE RowRulesProofs ---------------------------
(***************************************************************************)
(* The service's rules cover the CHECKs, for any columns and rows, however *)
(* often the migration runs, fails or is taken back, as long as it runs    *)
(* while no writer does.                                                   *)
(***************************************************************************)
EXTENDS RowRules, TLAPS

Conforms(row) == \A rule \in installed : ~Breaks(row, rule)

\* Every stored row conforms to every enforced rule, and so does the copy an
\* update in flight is about to write, which no migration comes between; a
\* migration that is undone goes back to rules that still hold.
Inv ==
  /\ TypeOK
  /\ \A i \in Stored : Conforms(rows[i])
  /\ request # NoRequest => Conforms(request.after)
  /\ up => saved \subseteq installed /\ request = NoRequest
  /\ AcceptedWritesLand

LEMMA OutcomeTyped ==
  ASSUME NEW row \in Row, NEW c \in Optional, NEW v \in {"null", "fits", "long"}
  PROVE  [row EXCEPT ![c] = v] \in Row
BY RowAssumption DEF Row, Columns, Values

LEMMA TypedStep == TypeOK /\ [Next]_vars => TypeOK'
<1> SUFFICES ASSUME TypeOK, [Next]_vars PROVE TypeOK'
  OBVIOUS
<1> USE DEF TypeOK, migration
<1>1. ASSUME NEW i \in Ids, NEW row \in Row, Write(i, row)
      PROVE  /\ rows' \in [Ids -> Row \cup {NoRow}]
             /\ reply' \in {"stored", "db_error"}
  BY <1>1 DEF Write
<1>2. ASSUME NEW i \in Ids, Create(i) PROVE TypeOK'
  BY <1>1, <1>2 DEF Create
<1>3. ASSUME NEW i \in Ids, ReadForUpdate(i) PROVE TypeOK'
  BY <1>3 DEF ReadForUpdate
<1>4. ASSUME NEW i \in Ids, Purge(i) PROVE TypeOK'
  BY <1>4 DEF Purge
<1>5. CASE WriteUpdate
  <2>1. request.id \in Ids /\ request.after \in Row
    BY <1>5 DEF WriteUpdate
  <2> QED
    BY <1>1, <1>5, <2>1 DEF WriteUpdate
<1>6. ASSUME NEW i \in Ids, NEW row \in Row, EngineStore(i, row) PROVE TypeOK'
  BY <1>6 DEF EngineStore
<1>7. CASE Engine
  <2>1. ASSUME NEW i \in Ids, EngineInsert(i) PROVE TypeOK'
    BY <1>6, <2>1 DEF EngineInsert
  <2>2. ASSUME NEW i \in Ids, EngineOutcome(i) PROVE TypeOK'
    <3>1. rows[i] \in Row
      BY <2>2 DEF EngineOutcome, Stored
    <3> QED
      BY <1>6, <2>2, <3>1, OutcomeTyped DEF EngineOutcome
  <2> QED
    BY <1>7, <2>1, <2>2 DEF Engine
<1>8. CASE BeginUp
  BY <1>8 DEF BeginUp
<1>9. CASE EndUp
  BY <1>9 DEF EndUp
<1>10. CASE Down
  BY <1>10 DEF Down
<1>11. ASSUME NEW rule \in Rules, Look(rule) PROVE TypeOK'
  BY <1>11 DEF Look
<1>12. ASSUME NEW rule \in Rules, Add(rule) PROVE TypeOK'
  BY <1>12 DEF Add
<1>13. ASSUME NEW rule \in Rules, AddFails(rule) PROVE TypeOK'
  BY <1>13 DEF AddFails
<1>14. CASE UNCHANGED vars
  BY <1>14 DEF vars
<1> QED
  BY <1>2, <1>3, <1>4, <1>5, <1>7, <1>8, <1>9, <1>10, <1>11, <1>12, <1>13,
     <1>14 DEF Next, Service, Migration

\* Every variable keeps its type, whatever runs beside the migration.
THEOREM RowsTyped == Spec => []TypeOK
<1>1. Init => TypeOK
  BY DEF Init, TypeOK
<1> QED
  BY <1>1, TypedStep, PTL DEF Spec

\* An update the rules let through conforms if the row it was made from did:
\* they are put to the columns it changes, and the others are as they were.
LEMMA RulesCoverEdits ==
  ASSUME installed \subseteq Rules, NEW before, NEW after,
         Conforms(before), ~RefusesUpdate(before, after)
  PROVE  Conforms(after)
<1> SUFFICES ASSUME NEW rule \in installed PROVE ~Breaks(after, rule)
  BY DEF Conforms
<1>1. CASE before[rule.column] = after[rule.column]
  BY <1>1 DEF Conforms, Breaks
<1>2. CASE before[rule.column] # after[rule.column]
  BY <1>2 DEF RefusesUpdate
<1> QED
  BY <1>1, <1>2

LEMMA InvStep ==
  ASSUME WritersStopped, Inv, [Next]_vars
  PROVE  Inv'
<1>1. TypeOK'
  BY TypedStep DEF Inv
<1> SUFFICES /\ \A i \in Stored' : Conforms(rows[i])'
             /\ (request # NoRequest => Conforms(request.after))'
             /\ (up => saved \subseteq installed /\ request = NoRequest)'
             /\ AcceptedWritesLand'
  BY <1>1 DEF Inv
<1> USE DEF Inv, AcceptedWritesLand, Conforms, migration, Writing
<1>2. ASSUME NEW i \in Ids, NEW row, rows' = [rows EXCEPT ![i] = row],
             Conforms(row), UNCHANGED installed
      PROVE  \A j \in Stored' : Conforms(rows[j])'
  BY <1>2 DEF Stored, TypeOK
<1>3. ASSUME NEW i \in Ids, Create(i) PROVE Inv'
  <2>1. PICK row \in Row :
          IF RefusesCreate(row) THEN reply' = "unprocessable" /\ UNCHANGED rows
                                ELSE Write(i, row)
    BY <1>3 DEF Create
  <2>2. CASE RefusesCreate(row)
    BY <1>1, <1>3, <2>1, <2>2 DEF Create, Stored
  <2>3. CASE ~RefusesCreate(row)
    <3>1. Conforms(row)
      BY <2>3 DEF RefusesCreate, TypeOK
    <3>2. rows' = [rows EXCEPT ![i] = row] /\ reply' = "stored"
      BY <2>1, <2>3, <3>1 DEF Write, Enforced
    <3>3. \A j \in Stored' : Conforms(rows[j])'
      BY <1>2, <1>3, <3>1, <3>2 DEF Create
    <3> QED
      BY <1>1, <1>3, <3>2, <3>3 DEF Create
  <2> QED
    BY <2>2, <2>3
<1>4. ASSUME NEW i \in Ids, ReadForUpdate(i) PROVE Inv'
  <2>1. PICK after \in Row :
          IF RefusesUpdate(rows[i], after)
            THEN reply' = "unprocessable" /\ UNCHANGED request
            ELSE request' = [id |-> i, after |-> after] /\ reply' = "none"
    BY <1>4 DEF ReadForUpdate
  <2>2. \A j \in Stored' : Conforms(rows[j])'
    BY <1>4 DEF ReadForUpdate, Stored
  <2>3. CASE RefusesUpdate(rows[i], after)
    BY <1>1, <1>4, <2>1, <2>2, <2>3 DEF ReadForUpdate
  <2>4. CASE ~RefusesUpdate(rows[i], after)
    <3>1. Conforms(after)
      BY <1>4, <2>4, RulesCoverEdits DEF ReadForUpdate, TypeOK
    <3>2. Conforms(after)' /\ request'.after = after /\ ~up'
      BY <1>4, <2>1, <2>4, <3>1 DEF ReadForUpdate
    <3> QED
      BY <1>1, <2>1, <2>2, <2>4, <3>2
  <2> QED
    BY <2>3, <2>4
<1>5. ASSUME NEW i \in Ids, Purge(i) PROVE Inv'
  BY <1>1, <1>5 DEF Purge, Stored, TypeOK
<1>6. CASE WriteUpdate
  <2>1. request.id \in Ids /\ Conforms(request.after)
    BY <1>6 DEF WriteUpdate, TypeOK
  <2>2. CASE request.id \in Stored
    <3>1. rows' = [rows EXCEPT ![request.id] = request.after]
            /\ reply' = "stored"
      BY <1>6, <2>1, <2>2 DEF WriteUpdate, Write, Enforced
    <3>2. \A j \in Stored' : Conforms(rows[j])'
      BY <1>2, <1>6, <2>1, <3>1 DEF WriteUpdate
    <3> QED
      BY <1>1, <1>6, <3>1, <3>2 DEF WriteUpdate
  <2>3. CASE request.id \notin Stored
    BY <1>1, <1>6, <2>3 DEF WriteUpdate, Stored
  <2> QED
    BY <2>2, <2>3
<1>7. CASE Engine
  <2>1. PICK i \in Ids : \E row : EngineStore(i, row)
    BY <1>7 DEF Engine, EngineInsert, EngineOutcome
  <2>2. PICK row : EngineStore(i, row)
    BY <2>1
  <2>3. \A j \in Stored' : Conforms(rows[j])'
    BY <1>2, <2>2 DEF EngineStore, Enforced
  <2> QED
    BY <1>1, <2>2, <2>3 DEF EngineStore
<1>8. CASE BeginUp
  BY <1>1, <1>8, WritersStopped DEF BeginUp, Stored
<1>9. CASE EndUp
  BY <1>1, <1>9 DEF EndUp, Stored
<1>10. CASE Down
  BY <1>1, <1>10 DEF Down, Stored
<1>11. ASSUME NEW rule \in Rules, Look(rule) PROVE Inv'
  BY <1>1, <1>11 DEF Look, Stored
<1>12. ASSUME NEW rule \in Rules, Add(rule) PROVE Inv'
  <2>1. \A i \in Stored : ~Breaks(rows[i], rule)
    BY <1>12 DEF Add, Broken
  <2>2. up
    BY <1>12 DEF Add, TypeOK
  <2> QED
    BY <1>1, <1>12, <2>1, <2>2 DEF Add, Stored
<1>13. ASSUME NEW rule \in Rules, AddFails(rule) PROVE Inv'
  <2>1. up
    BY <1>13 DEF AddFails, TypeOK
  <2>2. installed' \subseteq installed
    BY <1>13, <2>1 DEF AddFails
  <2> QED
    BY <1>1, <1>13, <2>1, <2>2 DEF AddFails, Stored
<1>14. CASE UNCHANGED vars
  BY <1>1, <1>14 DEF vars, Stored
<1> QED
  BY <1>3, <1>4, <1>5, <1>6, <1>7, <1>8, <1>9, <1>10, <1>11, <1>12, <1>13,
     <1>14 DEF Next, Service, Migration

\* A row the rules let through is never refused by a CHECK, when migrations
\* run while no writer does.
THEOREM RulesCoverChecks ==
  ASSUME WritersStopped
  PROVE  Spec => []AcceptedWritesLand
<1>1. Init => Inv
  BY DEF Init, Inv, TypeOK, Conforms, AcceptedWritesLand
<1>2. Inv /\ [Next]_vars => Inv'
  BY InvStep
<1> QED
  BY <1>1, <1>2, PTL DEF Spec, Inv
=============================================================================

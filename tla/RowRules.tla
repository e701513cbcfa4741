------------------------------ MODULE RowRules ------------------------------
(***************************************************************************)
(* The rules the schema declares on a stored row, where they are checked   *)
(* twice: by the generic service, on the row a create or an update would   *)
(* store, and by CHECK constraints, which a migration adds only where no   *)
(* stored row breaks them.  The service reads a row, checks the edited     *)
(* copy and writes it back whole; the engine's own statements go past the  *)
(* rules.  A value is told apart by what the rules ask of it.              *)
(***************************************************************************)
EXTENDS Naturals

CONSTANTS
  Required,        \* columns the schema marks @required and @length
  Optional,        \* columns it marks @length only
  Trimmed,         \* required columns the engine never inserts blank
  Ids,             \* row ids
  NoRow,           \* no row stored under this id
  NoRequest,       \* no update between its read and its write
  WritersStopped   \* do writers pause while a migration runs?

ASSUME RowAssumption ==
  /\ Required \cap Optional = {} /\ Trimmed \subseteq Required
  /\ WritersStopped \in BOOLEAN

Columns == Required \cup Optional

\* A required column is NOT NULL; an optional one may hold nothing.
Values(c) == IF c \in Required THEN {"blank", "fits", "long"}
                               ELSE {"null", "fits", "long"}
Row == {row \in [Columns -> {"null", "blank", "fits", "long"}] :
          \A c \in Columns : row[c] \in Values(c)}

Rules == [column: Required, kind: {"required"}]
           \cup [column: Columns, kind: {"max_length"}]

ASSUME NamesAssumption == NoRow \notin Row

VARIABLES
  rows,       \* what is stored under each id
  installed,  \* the rules the database enforces
  request,    \* the update in flight: its row and the copy it will write
  reply,      \* how the last service call ended
  up,         \* is the migration that adds the CHECKs running?
  todo,       \* rules it has still to look at
  adding,     \* the rules it found unbroken and is about to add
  saved,      \* the rules enforced when it began
  one_tx,     \* does the runner wrap the file in a transaction?
  sees_rows,  \* is the migrating role exempt from row security?
  sql_error   \* did a statement of the migration fail?

vars == <<rows, installed, request, reply, up, todo, adding, saved, one_tx,
          sees_rows, sql_error>>
migration == <<up, todo, adding, saved, one_tx, sees_rows, sql_error>>

\* The database's length check lets a null pass, as the service's does.
Breaks(row, rule) ==
  \/ rule.kind = "required" /\ row[rule.column] \in {"null", "blank"}
  \/ rule.kind = "max_length" /\ row[rule.column] = "long"

Stored == {i \in Ids : rows[i] # NoRow}
Broken(rule) == \E i \in Stored : Breaks(rows[i], rule)
Enforced(row) == \A rule \in installed : ~Breaks(row, rule)

Init ==
  /\ rows \in [Ids -> Row \cup {NoRow}]
  /\ installed = {} /\ request = NoRequest /\ reply = "none"
  /\ up = FALSE /\ todo = {} /\ adding = {} /\ saved = {}
  /\ one_tx \in BOOLEAN /\ sees_rows \in BOOLEAN /\ sql_error = FALSE

(***************************************************************************)
(* Plausible mistakes, each in place of the definition it is named after.  *)
(***************************************************************************)
\* An update's rules read the columns it leaves alone, not those it edits.
RefusesUpdate_Unchanged(before, after) ==
  \E rule \in Rules : before[rule.column] = after[rule.column]
                        /\ Breaks(after, rule)

\* The look-up tests the length only, whatever the rule.
Visible_LengthOnly(rule) ==
  sees_rows /\ rule.kind = "max_length" /\ Broken(rule)

\* The file ends with its last look, whatever that look decided to add.
EndUp_AtLastLook ==
  /\ up /\ todo = {}
  /\ up' = FALSE
  /\ UNCHANGED <<rows, installed, request, reply, todo, adding, saved, one_tx,
                 sees_rows, sql_error>>

(***************************************************************************)
(* The generic service                                                     *)
(***************************************************************************)
Writing == WritersStopped => ~up

RefusesCreate(after) == \E rule \in Rules : Breaks(after, rule)

\* A rule is put to an update only if its column changes.
RefusesUpdate(before, after) ==
  \E rule \in Rules : before[rule.column] # after[rule.column]
                        /\ Breaks(after, rule)

\* The statement lands unless an enforced CHECK refuses it.
Write(i, row) ==
  IF Enforced(row) THEN rows' = [rows EXCEPT ![i] = row] /\ reply' = "stored"
                   ELSE reply' = "db_error" /\ UNCHANGED rows

Create(i) ==
  /\ Writing /\ rows[i] = NoRow
  /\ \E row \in Row :
       IF RefusesCreate(row) THEN reply' = "unprocessable" /\ UNCHANGED rows
                             ELSE Write(i, row)
  /\ UNCHANGED <<installed, request, migration>>

\* PUT replaces every column, PATCH some: either way an edited copy.
ReadForUpdate(i) ==
  /\ Writing /\ request = NoRequest /\ i \in Stored
  /\ \E after \in Row :
       IF RefusesUpdate(rows[i], after)
         THEN reply' = "unprocessable" /\ UNCHANGED request
         ELSE request' = [id |-> i, after |-> after] /\ reply' = "none"
  /\ UNCHANGED <<rows, installed, migration>>

WriteUpdate ==
  /\ Writing /\ request # NoRequest
  /\ IF request.id \in Stored THEN Write(request.id, request.after)
                              ELSE reply' = "not_found" /\ UNCHANGED rows
  /\ request' = NoRequest
  /\ UNCHANGED <<installed, migration>>

\* Emptying the trash takes the row away for good.
Purge(i) ==
  /\ Writing /\ i \in Stored
  /\ rows' = [rows EXCEPT ![i] = NoRow]
  /\ reply' = "none"
  /\ UNCHANGED <<installed, request, migration>>

(***************************************************************************)
(* The engine: inserts that see to blanks in some columns and to no length *)
(* at all, outcomes that fill the optional columns.  A CHECK refuses both. *)
(***************************************************************************)
EngineStore(i, row) ==
  /\ Writing
  /\ Enforced(row) /\ rows' = [rows EXCEPT ![i] = row]
  /\ UNCHANGED <<installed, request, reply, migration>>

EngineInsert(i) ==
  /\ rows[i] = NoRow
  /\ \E row \in Row : /\ \A c \in Trimmed : row[c] # "blank"
                      /\ \A c \in Optional : row[c] = "null"
                      /\ EngineStore(i, row)

EngineOutcome(i) ==
  /\ i \in Stored
  /\ \E c \in Optional, v \in {"null", "fits", "long"} :
       EngineStore(i, [rows[i] EXCEPT ![c] = v])

(***************************************************************************)
(* The migration: one block per rule, which looks for a row that breaks it *)
(* and adds the CHECK if it sees none.                                     *)
(***************************************************************************)
Visible(rule) == sees_rows /\ Broken(rule)

BeginUp ==
  /\ ~up /\ (WritersStopped => request = NoRequest)
  /\ up' = TRUE /\ todo' = Rules /\ adding' = {} /\ saved' = installed
  /\ UNCHANGED <<rows, installed, request, reply, one_tx, sees_rows, sql_error>>

Look(rule) ==
  /\ up /\ adding = {} /\ rule \in todo
  /\ todo' = todo \ {rule}
  /\ adding' = IF rule \in installed \/ Visible(rule) THEN {} ELSE {rule}
  /\ UNCHANGED <<rows, installed, request, reply, up, saved, one_tx, sees_rows,
                 sql_error>>

\* Adding a CHECK scans every row there is, whatever the role may see.
Add(rule) ==
  /\ rule \in adding /\ ~Broken(rule)
  /\ installed' = installed \cup {rule} /\ adding' = {}
  /\ UNCHANGED <<rows, request, reply, up, todo, saved, one_tx, sees_rows,
                 sql_error>>

AddFails(rule) ==
  /\ rule \in adding /\ Broken(rule)
  /\ installed' = IF one_tx THEN saved ELSE installed
  /\ up' = FALSE /\ todo' = {} /\ adding' = {} /\ sql_error' = TRUE
  /\ UNCHANGED <<rows, request, reply, saved, one_tx, sees_rows>>

EndUp ==
  /\ up /\ todo = {} /\ adding = {}
  /\ up' = FALSE
  /\ UNCHANGED <<rows, installed, request, reply, todo, adding, saved, one_tx,
                 sees_rows, sql_error>>

Down ==
  /\ ~up
  /\ installed' = {}
  /\ UNCHANGED <<rows, request, reply, migration>>

Service == \E i \in Ids : Create(i) \/ ReadForUpdate(i) \/ Purge(i)
Engine == \E i \in Ids : EngineInsert(i) \/ EngineOutcome(i)
Migration == \/ BeginUp \/ EndUp \/ Down
             \/ \E rule \in Rules : Look(rule) \/ Add(rule) \/ AddFails(rule)

Next == Service \/ WriteUpdate \/ Engine \/ Migration

Spec == Init /\ [][Next]_vars

(***************************************************************************)
(* Properties                                                              *)
(***************************************************************************)
TypeOK ==
  /\ rows \in [Ids -> Row \cup {NoRow}]
  /\ installed \subseteq Rules /\ todo \subseteq Rules
  /\ adding \subseteq Rules /\ saved \subseteq Rules
  /\ request \in [id: Ids, after: Row] \cup {NoRequest}
  /\ reply \in {"none", "stored", "unprocessable", "not_found", "db_error"}
  /\ up \in BOOLEAN /\ one_tx \in BOOLEAN /\ sees_rows \in BOOLEAN
  /\ sql_error \in BOOLEAN
  /\ ~up => todo = {} /\ adding = {}

\* A row the rules let through is never refused by a CHECK: the rules cover
\* every constraint the migration adds, also when they skip the unchanged
\* columns of a row read before others wrote it.
AcceptedWritesLand == reply # "db_error"

\* The migration never fails on the rows it finds, if its role can see them:
\* it leaves out the CHECKs they break.
MigrationLands == sees_rows => ~sql_error
=============================================================================

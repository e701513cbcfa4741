------------------------------ MODULE CreateJob ------------------------------
(***************************************************************************)
(* create_job: one transaction that writes the job header, its items       *)
(* deduped on (job, item_key), and the stamped item count.  Several calls  *)
(* run at once, each on a job id and a connection of its own; what other   *)
(* connections can see of a call is its committed rows.  BulkEngine starts *)
(* where this module ends: at a job whose row is committed.                *)
(***************************************************************************)
EXTENDS NewJobs

VARIABLES
  batch,       \* the NewJob each call was given
  pc,          \* its next statement, or how it ended
  next,        \* position of the item to insert next
  inserted,    \* how many inserts landed so far
  tx,          \* the rows its open transaction holds
  rows         \* the committed rows, by call (that is, by job id)

vars == <<batch, pc, next, inserted, tx, rows>>

NoRows == [total |-> 0, items |-> <<>>]

InTx == {"insert_job", "insert_item", "commit"}
Ended == {"returned", "invalid", "db_error"}

Init ==
  /\ batch = [c \in Calls |-> NoBatch]
  /\ pc = [c \in Calls |-> "idle"]
  /\ next = [c \in Calls |-> 1]
  /\ inserted = [c \in Calls |-> 0]
  /\ tx = [c \in Calls |-> NoRows]
  /\ rows = [c \in Calls |-> NoJob]

Goto(c, label) == pc' = [pc EXCEPT ![c] = label]

\* The call returns early or dies: its transaction is dropped, so rolled back.
RollBack(c, label) ==
  /\ Goto(c, label)
  /\ tx' = [tx EXCEPT ![c] = NoRows]
  /\ UNCHANGED <<batch, next, inserted, rows>>

\* An empty batch or a blank operation_type is refused before any transaction.
Submit(c, b) ==
  /\ pc[c] = "idle"
  /\ batch' = [batch EXCEPT ![c] = b]
  /\ Goto(c, IF b.named /\ b.items # <<>> THEN "insert_job" ELSE "invalid")
  /\ UNCHANGED <<next, inserted, tx, rows>>

\* Mistake: the header is written on the pool, outside the transaction.
InsertJob_OnPool(c) ==
  /\ pc[c] = "insert_job"
  /\ Goto(c, "insert_item")
  /\ rows' = [rows EXCEPT ![c] = NoRows]
  /\ UNCHANGED <<batch, next, inserted, tx>>

InsertJob(c) ==
  /\ pc[c] = "insert_job"
  /\ Goto(c, "insert_item")
  /\ tx' = [tx EXCEPT ![c] = NoRows]
  /\ UNCHANGED <<batch, next, inserted, rows>>

InsertItem(c) ==
  LET it == batch[c].items[next[c]]
      held == tx[c].items
  IN
  /\ pc[c] = "insert_item" /\ next[c] <= Len(batch[c].items)
  /\ it.key # Blank /\ it.payload # Huge
  /\ next' = [next EXCEPT ![c] = @ + 1]
  /\ \/ /\ it.key \in DOMAIN held             \* ON CONFLICT DO NOTHING
        /\ UNCHANGED <<inserted, tx>>
     \/ /\ it.key \notin DOMAIN held
        /\ inserted' = [inserted EXCEPT ![c] = @ + 1]
        /\ tx' = [tx EXCEPT ![c].items =
             [k \in DOMAIN held \cup {it.key} |->
                IF k = it.key THEN it.payload ELSE held[k]]]
  /\ UNCHANGED <<batch, pc, rows>>

\* Mistake: whatever is wrong with an item is the caller's fault.
RefuseItem_AllInvalid(c) ==
  LET it == batch[c].items[next[c]] IN
  /\ pc[c] = "insert_item" /\ next[c] <= Len(batch[c].items)
  /\ it.key = Blank \/ it.payload = Huge
  /\ RollBack(c, "invalid")

\* A blank key returns Err, a payload past the CHECK fails the INSERT.
RefuseItem(c) ==
  LET it == batch[c].items[next[c]] IN
  /\ pc[c] = "insert_item" /\ next[c] <= Len(batch[c].items)
  /\ \/ it.key = Blank /\ RollBack(c, "invalid")
     \/ it.key # Blank /\ it.payload = Huge /\ RollBack(c, "db_error")

\* Mistake: the count is the batch's length, duplicates and all.
SetTotalItems_BatchLength(c) ==
  /\ pc[c] = "insert_item" /\ next[c] > Len(batch[c].items)
  /\ tx' = [tx EXCEPT ![c].total = Len(batch[c].items)]
  /\ Goto(c, "commit")
  /\ UNCHANGED <<batch, next, inserted, rows>>

\* Mistake: the count is where the loop stands, one past the last item.
SetTotalItems_LoopPosition(c) ==
  /\ pc[c] = "insert_item" /\ next[c] > Len(batch[c].items)
  /\ tx' = [tx EXCEPT ![c].total = next[c]]
  /\ Goto(c, "commit")
  /\ UNCHANGED <<batch, next, inserted, rows>>

SetTotalItems(c) ==
  /\ pc[c] = "insert_item" /\ next[c] > Len(batch[c].items)
  /\ tx' = [tx EXCEPT ![c].total = inserted[c]]
  /\ Goto(c, "commit")
  /\ UNCHANGED <<batch, next, inserted, rows>>

\* The commit lands; the caller hears of it, or loses the connection first.
Commit(c) ==
  /\ pc[c] = "commit"
  /\ rows' = [rows EXCEPT ![c] = tx[c]]
  /\ Goto(c, "returned") \/ Goto(c, "db_error")
  /\ UNCHANGED <<batch, next, inserted, tx>>

\* Any statement can fail, and the process can die between two of them.
Fail(c) == pc[c] \in InTx /\ RollBack(c, "db_error")

Next ==
  \E c \in Calls :
    \/ \E b \in Batch : Submit(c, b)
    \/ InsertJob(c)
    \/ InsertItem(c)
    \/ RefuseItem(c)
    \/ SetTotalItems(c)
    \/ Commit(c)
    \/ Fail(c)

Spec == Init /\ [][Next]_vars

-----------------------------------------------------------------------------
\* Properties.

\* Every variable stays in its set.
TypeOK ==
  /\ batch \in [Calls -> Batch]
  /\ pc \in [Calls -> {"idle"} \cup InTx \cup Ended]
  /\ next \in [Calls -> 1..(MaxItems + 1)]
  /\ inserted \in [Calls -> 0..MaxItems]
  /\ \A c \in Calls :
       /\ next[c] <= Len(batch[c].items) + 1
       /\ tx[c].total \in 0..MaxItems
       /\ DOMAIN tx[c].items \subseteq KeysOf(batch[c].items)

\* "A job must never exist without the items it claims": a committed header
\* counts exactly its item rows, one per distinct key of the whole batch, with
\* the payload each key came with first, and nothing blank or oversized in it.
CreatedJobIsWhole ==
  \A c \in Calls : rows[c] # NoJob =>
    LET items == batch[c].items IN
    /\ batch[c].named /\ items # <<>>
    /\ DOMAIN rows[c].items = KeysOf(items)
    /\ rows[c].total = Cardinality(KeysOf(items))
    /\ \A k \in KeysOf(items) : rows[c].items[k] = FirstPayload(items, k)
    /\ Blank \notin KeysOf(items)
    /\ \A i \in DOMAIN items : items[i].payload # Huge

\* A refused batch leaves nothing behind, however far its inserts had come, and
\* an acknowledged one is there.
AnswerIsTrue ==
  \A c \in Calls :
    /\ pc[c] = "invalid" => rows[c] = NoJob
    /\ pc[c] = "returned" => rows[c] # NoJob

\* Seen from outside, a call writes its whole job at one instant or nothing, and
\* says so: no statement of the transaction before the commit shows.
AnswerOf(label) == IF label \in InTx THEN "asked" ELSE label
Store == INSTANCE JobStore WITH answer <- [c \in Calls |-> AnswerOf(pc[c])]
StoreSpec == Store!Spec
=============================================================================

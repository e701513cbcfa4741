------------------------------- MODULE JobStore -------------------------------
(***************************************************************************)
(* What create_job promises its callers: a batch becomes a whole job at    *)
(* one instant, or nothing of it is ever seen.  "invalid" says that the    *)
(* batch itself is at fault and nothing was written; "returned" that the   *)
(* job is there; only a database error leaves the caller without knowing.  *)
(*                                                                         *)
(* CreateJob implements this specification (see StoreSpec there).          *)
(***************************************************************************)
EXTENDS NewJobs

VARIABLES
  batch,       \* the NewJob each call was given
  answer,      \* "idle", "asked", or what the call returned
  rows         \* the committed rows, by call (that is, by job id)

storeVars == <<batch, answer, rows>>

\* The batch as a job: one row per distinct key, counted.
JobOf(items) ==
  [total |-> Cardinality(KeysOf(items)),
   items |-> [k \in KeysOf(items) |-> FirstPayload(items, k)]]

Storable(items) ==
  \A i \in DOMAIN items : items[i].key # Blank /\ items[i].payload # Huge

Init ==
  /\ batch = [c \in Calls |-> NoBatch]
  /\ answer = [c \in Calls |-> "idle"]
  /\ rows = [c \in Calls |-> NoJob]

Answer(c, a) == answer' = [answer EXCEPT ![c] = a]

\* Without items or an operation_type there is nothing to create.
Submit(c, b) ==
  /\ answer[c] = "idle"
  /\ batch' = [batch EXCEPT ![c] = b]
  /\ Answer(c, IF b.named /\ b.items # <<>> THEN "asked" ELSE "invalid")
  /\ UNCHANGED rows

\* All of the job at once; the caller hears of it or loses the connection.
Create(c) ==
  /\ answer[c] = "asked" /\ Storable(batch[c].items)
  /\ rows' = [rows EXCEPT ![c] = JobOf(batch[c].items)]
  /\ Answer(c, "returned") \/ Answer(c, "db_error")
  /\ UNCHANGED batch

Refuse(c) ==
  /\ answer[c] = "asked" /\ Blank \in KeysOf(batch[c].items)
  /\ Answer(c, "invalid")
  /\ UNCHANGED <<batch, rows>>

Fail(c) ==
  /\ answer[c] = "asked"
  /\ Answer(c, "db_error")
  /\ UNCHANGED <<batch, rows>>

Next ==
  \E c \in Calls :
    \/ \E b \in Batch : Submit(c, b)
    \/ Create(c) \/ Refuse(c) \/ Fail(c)

Spec == Init /\ [][Next]_storeVars
=============================================================================

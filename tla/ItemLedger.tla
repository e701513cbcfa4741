----------------------------- MODULE ItemLedger -----------------------------
(***************************************************************************)
(* What the bulk engine promises about one job's items, with no database,  *)
(* no processes and no crashes in sight: an item is claimed, its effect    *)
(* lands in the target module at most once and only while it is claimed,   *)
(* and the claim is closed with an outcome that agrees with the effect.    *)
(*                                                                         *)
(* BulkEngine implements this specification (see LedgerSpec there).        *)
(***************************************************************************)
EXTENDS Naturals

CONSTANT Keys        \* the job's items, named by their item_key

VARIABLES
  phase,             \* the item's status, as bulk_item_status names it
  effect             \* how many effects the target module holds for the key

vars == <<phase, effect>>

Phases == {"pending", "applying", "applied", "failed", "cancelled"}

Init ==
  /\ phase = [k \in Keys |-> "pending"]
  /\ effect = [k \in Keys |-> 0]

Move(k, from, to) ==
  /\ phase[k] = from
  /\ phase' = [phase EXCEPT ![k] = to]
  /\ UNCHANGED effect

Claim(k) == Move(k, "pending", "applying")

\* The effect lands: once, and only under a claim.
Land(k) ==
  /\ phase[k] = "applying"
  /\ effect[k] = 0
  /\ effect' = [effect EXCEPT ![k] = 1]
  /\ UNCHANGED phase

Confirm(k) == effect[k] = 1 /\ Move(k, "applying", "applied")

Reject(k) == effect[k] = 0 /\ Move(k, "applying", "failed")

\* The target could not tell: the one close that says nothing of the effect.
Cancel(k) == Move(k, "applying", "cancelled")

Requeue ==
  /\ \E k \in Keys : phase[k] = "failed"
  /\ phase' = [k \in Keys |-> IF phase[k] = "failed" THEN "pending" ELSE phase[k]]
  /\ UNCHANGED effect

Next ==
  \/ \E k \in Keys :
       Claim(k) \/ Land(k) \/ Confirm(k) \/ Reject(k) \/ Cancel(k)
  \/ Requeue

Spec == Init /\ [][Next]_vars

-----------------------------------------------------------------------------

TypeOK ==
  /\ phase \in [Keys -> Phases]
  /\ effect \in [Keys -> {0, 1}]

\* An item the ledger calls applied has its effect in the target, and an item
\* that will be (or may be) sent to the target again has none there yet.
OutcomeIsTrue ==
  \A k \in Keys :
    /\ phase[k] = "applied" => effect[k] = 1
    /\ phase[k] \in {"pending", "failed"} => effect[k] = 0
=============================================================================

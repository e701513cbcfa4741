------------------------------- MODULE NewJobs -------------------------------
(***************************************************************************)
(* What a caller hands to create_job, and what can be said of it without   *)
(* any state: the distinct keys of a batch and the payload that stands for *)
(* each, since items dedup on (job, item_key).                             *)
(***************************************************************************)
EXTENDS Integers, Sequences, FiniteSets

CONSTANTS
  Calls,       \* concurrent create_job calls, one fresh job id each
  ItemKeys,    \* item keys with something to read in them
  Blank,       \* any item_key that is empty once trimmed
  Payloads,    \* payloads the column takes
  Huge,        \* a payload past the column's 8000 characters
  NoJob,       \* no committed row for this job id
  MaxItems     \* bound on the batch a caller submits

ASSUME NamesAssumption ==
  /\ IsFiniteSet(ItemKeys) /\ Blank \notin ItemKeys
  /\ Huge \notin Payloads /\ MaxItems \in Nat
  /\ NoJob \notin [total: 0..MaxItems, items: UNION {[K -> Payloads] : K \in SUBSET ItemKeys}]

Item == [key: ItemKeys \cup {Blank}, payload: Payloads \cup {Huge}]
Batch == [named: BOOLEAN,    \* is there an operation_type once trimmed?
          items: UNION {[1..n -> Item] : n \in 0..MaxItems}]
NoBatch == [named |-> FALSE, items |-> <<>>]

KeysOf(items) == {items[i].key : i \in DOMAIN items}

\* The payload of the first item with this key: later ones are collapsed.
FirstPayload(items, k) ==
  LET first == CHOOSE i \in DOMAIN items :
                 /\ items[i].key = k
                 /\ \A j \in DOMAIN items : items[j].key = k => i <= j
  IN items[first].payload
=============================================================================

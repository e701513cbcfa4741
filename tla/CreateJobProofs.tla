--------------------------- MODULE CreateJobProofs ---------------------------
(***************************************************************************)
(* create_job commits a whole job or none, and answers truly: for any      *)
(* number of calls, any keys and payloads, batches of any length, and      *)
(* whichever statement fails.  The argument: the open transaction holds    *)
(* exactly what the part of the batch read so far comes to.                *)
(***************************************************************************)
EXTENDS CreateJob, SequenceTheorems, FiniteSetTheorems, TLAPS

\* What a transaction or a committed job can hold.
Stored == [total: 0..MaxItems, items: UNION {[K -> Payloads] : K \in SUBSET ItemKeys}]

Shaped ==
  /\ batch \in [Calls -> Batch]
  /\ pc \in [Calls -> {"idle"} \cup InTx \cup Ended]
  /\ next \in [Calls -> Nat \ {0}]
  /\ inserted \in [Calls -> Nat]
  /\ tx \in [Calls -> Stored]
  /\ rows \in [Calls -> Stored \cup {NoJob}]

\* The positions of the batch that a call has read.
ReadSoFar(c) == 1..(next[c] - 1)

\* The transaction holds one row per key read so far, with the payload the key
\* came with first, and has read nothing it would refuse.
PrefixHeld(c) ==
  LET items == batch[c].items
      held == tx[c].items
  IN
  /\ DOMAIN held = {items[i].key : i \in ReadSoFar(c)}
  /\ inserted[c] = Cardinality(DOMAIN held)
  /\ \A k \in DOMAIN held :
       \E i \in DOMAIN items :
         /\ items[i].key = k /\ items[i].payload = held[k]
         /\ \A j \in DOMAIN items : items[j].key = k => i <= j
  /\ \A i \in ReadSoFar(c) : items[i].key # Blank /\ items[i].payload # Huge

\* What CreatedJobIsWhole says of the rows of one job.
Whole(items, r) ==
  /\ DOMAIN r.items = KeysOf(items)
  /\ r.total = Cardinality(KeysOf(items))
  /\ \A k \in KeysOf(items) : r.items[k] = FirstPayload(items, k)
  /\ Blank \notin KeysOf(items)
  /\ \A i \in DOMAIN items : items[i].payload # Huge

CallInv(c) ==
  LET items == batch[c].items IN
  /\ next[c] <= Len(items) + 1
  /\ inserted[c] < next[c]
  /\ DOMAIN tx[c].items \subseteq KeysOf(items)
  /\ pc[c] \in {"idle", "insert_job"} => next[c] = 1 /\ inserted[c] = 0 /\ tx[c] = NoRows
  /\ pc[c] \in {"idle", "invalid"} \cup InTx => rows[c] = NoJob
  /\ pc[c] \in InTx => batch[c].named /\ items # <<>>
  /\ pc[c] \in {"insert_item", "commit"} => PrefixHeld(c)
  /\ pc[c] = "commit" => next[c] = Len(items) + 1 /\ tx[c].total = inserted[c]
  /\ pc[c] = "returned" => rows[c] # NoJob
  /\ rows[c] # NoJob => batch[c].named /\ items # <<>> /\ Whole(items, rows[c])

CreateInv == Shaped /\ \A c \in Calls : CallInv(c)

-----------------------------------------------------------------------------
\* A batch is a sequence of at most MaxItems items.
LEMMA BatchIsSeq ==
  ASSUME NEW b \in Batch
  PROVE  /\ b.items \in Seq(Item) /\ Len(b.items) \in 0..MaxItems
         /\ DOMAIN b.items = 1..Len(b.items)
         /\ \A i \in 1..Len(b.items) :
              /\ b.items[i].key \in ItemKeys \cup {Blank}
              /\ b.items[i].payload \in Payloads \cup {Huge}
<1>1. PICK n \in 0..MaxItems : b.items \in [1..n -> Item]
  BY DEF Batch
<1>2. n \in Nat
  BY NamesAssumption
<1>3. b.items \in Seq(Item)
  BY <1>1, <1>2, SeqDef
<1>4. Len(b.items) = n /\ DOMAIN b.items = 1..n
  BY <1>1, <1>2, <1>3, LenProperties
<1>5. QED
  BY <1>1, <1>3, <1>4 DEF Item

\* The payload a key came with first is that of its first position.
LEMMA FirstIsFirst ==
  ASSUME NEW items, DOMAIN items \subseteq Nat, NEW i \in DOMAIN items,
         \A j \in DOMAIN items : items[j].key = items[i].key => i <= j
  PROVE  FirstPayload(items, items[i].key) = items[i].payload
<1> DEFINE IsFirst(n) == /\ items[n].key = items[i].key
                         /\ \A j \in DOMAIN items : items[j].key = items[i].key => n <= j
<1>1. IsFirst(i)
  OBVIOUS
<1>2. \A n \in DOMAIN items : IsFirst(n) => n = i
  OBVIOUS
<1>3. (CHOOSE n \in DOMAIN items : IsFirst(n)) = i
  BY <1>1, <1>2
<1>4. QED
  BY <1>3 DEF FirstPayload

LEMMA NothingStored == NoRows \in Stored /\ DOMAIN NoRows.items = {}
<1>1. DOMAIN <<>> = {} /\ <<>> \in [{} -> Payloads]
  OBVIOUS
<1>2. <<>> \in UNION {[K -> Payloads] : K \in SUBSET ItemKeys}
  BY <1>1
<1>3. NoRows.items = <<>> /\ NoRows.total = 0
  BY DEF NoRows
<1>4. QED
  BY <1>1, <1>2, <1>3, NamesAssumption DEF NoRows, Stored

\* A step of one call leaves the others as they are.
Alone(c) ==
  \A d \in Calls \ {c} :
    /\ batch'[d] = batch[d] /\ pc'[d] = pc[d] /\ next'[d] = next[d]
    /\ inserted'[d] = inserted[d] /\ tx'[d] = tx[d] /\ rows'[d] = rows[d]

LEMMA OthersKeep ==
  ASSUME NEW c \in Calls, Alone(c), \A d \in Calls : CallInv(d), CallInv(c)'
  PROVE  \A d \in Calls : CallInv(d)'
<1>1. ASSUME NEW d \in Calls \ {c}
      PROVE  CallInv(d)'
  <2>1. /\ batch'[d] = batch[d] /\ pc'[d] = pc[d] /\ next'[d] = next[d]
        /\ inserted'[d] = inserted[d] /\ tx'[d] = tx[d] /\ rows'[d] = rows[d]
    BY <1>1 DEF Alone
  <2>2. ReadSoFar(d)' = ReadSoFar(d)
    BY <2>1 DEF ReadSoFar
  <2>3. PrefixHeld(d)' <=> PrefixHeld(d)
    BY <2>1, <2>2 DEF PrefixHeld
  <2>4. CallInv(d)
    BY <1>1
  <2>5. QED
    BY <2>1, <2>3, <2>4 DEF CallInv
<1>2. QED
  BY <1>1

-----------------------------------------------------------------------------
LEMMA SubmitKeeps ==
  ASSUME CreateInv, NEW c \in Calls, NEW b \in Batch, Submit(c, b)
  PROVE  CreateInv'
<1> USE DEF CreateInv
<1>1. /\ batch' = [batch EXCEPT ![c] = b] /\ pc[c] = "idle"
      /\ pc' = [pc EXCEPT ![c] = IF b.named /\ b.items # <<>> THEN "insert_job" ELSE "invalid"]
      /\ UNCHANGED <<next, inserted, tx, rows>>
  BY DEF Submit, Goto
<1>2. Shaped'
  BY <1>1 DEF Shaped, InTx, Ended
<1>3. Alone(c) /\ batch'[c] = b
  BY <1>1 DEF Alone, Shaped
<1>4. next[c] = 1 /\ inserted[c] = 0 /\ tx[c] = NoRows /\ rows[c] = NoJob
  BY <1>1 DEF CallInv
<1>5. Len(b.items) \in Nat
  BY BatchIsSeq, NamesAssumption
<1>6. DOMAIN tx[c].items = {}
  BY <1>4 DEF NoRows
<1>7. pc'[c] \in {"insert_job", "invalid"} /\ (pc'[c] = "insert_job" => b.named /\ b.items # <<>>)
  BY <1>1 DEF Shaped
<1>8. CallInv(c)'
  BY <1>1, <1>3, <1>4, <1>5, <1>6, <1>7 DEF CallInv, InTx
<1>9. QED
  BY <1>2, <1>3, <1>8, OthersKeep

LEMMA InsertJobKeeps ==
  ASSUME CreateInv, NEW c \in Calls, InsertJob(c)
  PROVE  CreateInv'
<1> USE DEF CreateInv
<1>1. /\ pc[c] = "insert_job" /\ pc' = [pc EXCEPT ![c] = "insert_item"]
      /\ tx' = [tx EXCEPT ![c] = NoRows]
      /\ UNCHANGED <<batch, next, inserted, rows>>
  BY DEF InsertJob, Goto
<1>2. NoRows \in Stored /\ DOMAIN NoRows.items = {}
  BY NothingStored
<1>3. Shaped'
  BY <1>1, <1>2 DEF Shaped, InTx
<1>4. Alone(c)
  BY <1>1 DEF Alone, Shaped
<1>5. tx'[c] = NoRows /\ pc'[c] = "insert_item" /\ next[c] = 1 /\ inserted[c] = 0
  BY <1>1 DEF CallInv, Shaped
<1>6. PrefixHeld(c)'
  BY <1>1, <1>2, <1>5, FS_EmptySet DEF PrefixHeld, ReadSoFar
<1>7. CallInv(c)'
  BY <1>1, <1>2, <1>5, <1>6 DEF CallInv, InTx
<1>8. QED
  BY <1>3, <1>4, <1>7, OthersKeep

\* The item inserted, or collapsed into the row its key already has.
LEMMA InsertItemKeeps ==
  ASSUME CreateInv, NEW c \in Calls, InsertItem(c)
  PROVE  CreateInv'
<1> USE DEF CreateInv
<1> DEFINE items == batch[c].items
           held == tx[c].items
           n == next[c]
           it == items[n]
<1>1. /\ pc[c] = "insert_item" /\ n <= Len(items)
      /\ it.key # Blank /\ it.payload # Huge
      /\ next' = [next EXCEPT ![c] = n + 1]
      /\ UNCHANGED <<batch, pc, rows>>
  BY DEF InsertItem
<1>2. /\ DOMAIN items = 1..Len(items) /\ Len(items) \in Nat /\ Len(items) <= MaxItems
      /\ n \in Nat \ {0} /\ n \in DOMAIN items
      /\ it.key \in ItemKeys /\ it.payload \in Payloads
      /\ next' \in [Calls -> Nat \ {0}] /\ next'[c] = n + 1
  <2>1. batch[c] \in Batch /\ n \in Nat \ {0}
    BY DEF Shaped
  <2>2. QED
    BY <1>1, <2>1, BatchIsSeq, NamesAssumption DEF Shaped
<1>3. /\ tx[c] \in Stored /\ DOMAIN held \subseteq ItemKeys /\ IsFiniteSet(DOMAIN held)
      /\ held \in [DOMAIN held -> Payloads]
  <2>1. tx[c] \in Stored
    BY DEF Shaped
  <2>2. PICK K \in SUBSET ItemKeys : held \in [K -> Payloads]
    BY <2>1 DEF Stored
  <2>3. QED
    BY <2>1, <2>2, NamesAssumption, FS_Subset
<1>4. PrefixHeld(c) /\ CallInv(c)
  BY <1>1 DEF CallInv
<1>5. ReadSoFar(c)' = ReadSoFar(c) \cup {n} /\ n \notin ReadSoFar(c)
  BY <1>2 DEF ReadSoFar
<1>6. {items[i].key : i \in ReadSoFar(c)'} = {items[i].key : i \in ReadSoFar(c)} \cup {it.key}
  BY <1>5
<1>7. \A i \in ReadSoFar(c)' : items[i].key # Blank /\ items[i].payload # Huge
  BY <1>1, <1>4, <1>5 DEF PrefixHeld
<1>8. CASE it.key \in DOMAIN held
  <2>1. UNCHANGED <<inserted, tx>>
    BY <1>8 DEF InsertItem
  <2>2. Shaped' /\ Alone(c)
    BY <1>1, <1>2, <2>1 DEF Shaped, Alone
  <2>3. PrefixHeld(c)'
    <3>1. {items[i].key : i \in ReadSoFar(c)'} = DOMAIN held
      BY <1>4, <1>6, <1>8 DEF PrefixHeld
    <3>2. items' = items /\ held' = held /\ inserted'[c] = inserted[c]
      BY <1>1, <2>1
    <3>3. DOMAIN held' = {items'[i].key : i \in ReadSoFar(c)'}
      BY <3>1, <3>2
    <3>4. inserted'[c] = Cardinality(DOMAIN held')
      BY <1>4, <3>2 DEF PrefixHeld
    <3>5. \A k \in DOMAIN held' :
            \E i \in DOMAIN items' :
              /\ items'[i].key = k /\ items'[i].payload = held'[k]
              /\ \A j \in DOMAIN items' : items'[j].key = k => i <= j
      BY <1>4, <3>2 DEF PrefixHeld
    <3>6. \A i \in ReadSoFar(c)' : items'[i].key # Blank /\ items'[i].payload # Huge
      BY <1>7, <3>2
    <3>7. QED
      BY <3>3, <3>4, <3>5, <3>6 DEF PrefixHeld
  <2>4. inserted[c] \in Nat
    BY DEF Shaped
  <2>5. CallInv(c)'
    BY <1>1, <1>2, <1>4, <2>1, <2>3, <2>4 DEF CallInv
  <2>6. QED
    BY <2>2, <2>5, OthersKeep
<1>9. CASE it.key \notin DOMAIN held
  <2> DEFINE added == [k \in DOMAIN held \cup {it.key} |->
                          IF k = it.key THEN it.payload ELSE held[k]]
  <2>1. /\ inserted' = [inserted EXCEPT ![c] = @ + 1]
        /\ tx' = [tx EXCEPT ![c].items = added]
    BY <1>9 DEF InsertItem
  <2>2. DOMAIN added = DOMAIN held \cup {it.key} /\ added[it.key] = it.payload
        /\ \A k \in DOMAIN held : added[k] = held[k]
    BY <1>9
  <2>3. added \in UNION {[K -> Payloads] : K \in SUBSET ItemKeys}
    <3>1. added \in [DOMAIN held \cup {it.key} -> Payloads]
      BY <1>2, <1>3
    <3>2. DOMAIN held \cup {it.key} \in SUBSET ItemKeys
      BY <1>2, <1>3
    <3>3. QED
      BY <3>1, <3>2
  <2> HIDE DEF added
  <2>4. tx'[c].items = added /\ tx'[c].total = tx[c].total /\ tx'[c] \in Stored
    BY <1>3, <2>1, <2>3 DEF Shaped, Stored
  <2>5. tx' \in [Calls -> Stored] /\ \A d \in Calls \ {c} : tx'[d] = tx[d]
    BY <2>1, <2>4 DEF Shaped
  <2>6. inserted' \in [Calls -> Nat] /\ inserted'[c] = inserted[c] + 1
    BY <2>1 DEF Shaped
  <2>7. Shaped' /\ Alone(c)
    BY <1>1, <1>2, <2>1, <2>5, <2>6 DEF Shaped, Alone
  <2>8. PrefixHeld(c)'
    <3>1. DOMAIN tx'[c].items = {items[i].key : i \in ReadSoFar(c)'}
      BY <1>4, <1>6, <2>2, <2>4 DEF PrefixHeld
    <3>2. inserted'[c] = Cardinality(DOMAIN tx'[c].items)
      <4>1. Cardinality(DOMAIN held \cup {it.key}) = Cardinality(DOMAIN held) + 1
        BY <1>3, <1>9, FS_AddElement
      <4>2. inserted[c] = Cardinality(DOMAIN held)
        BY <1>4 DEF PrefixHeld
      <4>3. DOMAIN tx'[c].items = DOMAIN held \cup {it.key}
        BY <2>2, <2>4
      <4>4. QED
        BY <4>1, <4>2, <4>3, <2>6
    <3>3. ASSUME NEW k \in DOMAIN tx'[c].items
          PROVE  \E i \in DOMAIN items :
                   /\ items[i].key = k /\ items[i].payload = tx'[c].items[k]
                   /\ \A j \in DOMAIN items : items[j].key = k => i <= j
      <4>1. CASE k = it.key
        <5>1. \A j \in DOMAIN items : j < n => items[j].key # k
          <6>1. ASSUME NEW j \in DOMAIN items, j < n
                PROVE  items[j].key # k
            <7>1. j \in ReadSoFar(c)
              BY <1>2, <6>1 DEF ReadSoFar
            <7>2. items[j].key \in DOMAIN held
              <8>1. DOMAIN held = {items[i].key : i \in ReadSoFar(c)}
                BY <1>4 DEF PrefixHeld
              <8>2. QED
                BY <7>1, <8>1
            <7>3. QED
              BY <1>9, <4>1, <7>2
          <6>2. QED
            BY <6>1
        <5>2. \A j \in DOMAIN items : items[j].key = k => n <= j
          BY <1>2, <5>1
        <5>3. QED
          BY <1>2, <2>2, <2>4, <4>1, <5>2
      <4>2. CASE k # it.key
        BY <1>4, <2>2, <2>4, <3>3, <4>2 DEF PrefixHeld
      <4>3. QED
        BY <4>1, <4>2
    <3>4. QED
      BY <1>1, <1>7, <3>1, <3>2, <3>3 DEF PrefixHeld
  <2>9. DOMAIN tx'[c].items \subseteq KeysOf(items)
    BY <1>2, <1>4, <2>2, <2>4 DEF CallInv, KeysOf
  <2>10. CallInv(c)'
    <3>1. inserted[c] \in Nat /\ inserted[c] < n
      BY <1>4 DEF CallInv, Shaped
    <3>2. QED
      BY <1>1, <1>2, <1>4, <2>6, <2>8, <2>9, <3>1 DEF CallInv, InTx
  <2>11. QED
    BY <2>7, <2>10, OthersKeep
<1>10. QED
  BY <1>8, <1>9

\* An error rolls the transaction back, wherever it stood.
LEMMA RollBackKeeps ==
  ASSUME CreateInv, NEW c \in Calls, pc[c] \in InTx,
         NEW label \in {"invalid", "db_error"}, RollBack(c, label)
  PROVE  CreateInv'
<1> USE DEF CreateInv
<1>1. /\ pc' = [pc EXCEPT ![c] = label] /\ tx' = [tx EXCEPT ![c] = NoRows]
      /\ UNCHANGED <<batch, next, inserted, rows>>
  BY DEF RollBack, Goto
<1>2. NoRows \in Stored /\ DOMAIN NoRows.items = {}
  BY NothingStored
<1>3. Shaped' /\ Alone(c) /\ tx'[c] = NoRows /\ pc'[c] = label
  BY <1>1, <1>2 DEF Shaped, Alone, Ended
<1>4. CallInv(c)'
  BY <1>1, <1>2, <1>3 DEF CallInv, InTx
<1>5. QED
  BY <1>3, <1>4, OthersKeep

LEMMA SetTotalKeeps ==
  ASSUME CreateInv, NEW c \in Calls, SetTotalItems(c)
  PROVE  CreateInv'
<1> USE DEF CreateInv
<1>1. /\ pc[c] = "insert_item" /\ next[c] > Len(batch[c].items)
      /\ tx' = [tx EXCEPT ![c].total = inserted[c]]
      /\ pc' = [pc EXCEPT ![c] = "commit"]
      /\ UNCHANGED <<batch, next, inserted, rows>>
  BY DEF SetTotalItems, Goto
<1>2. CallInv(c) /\ batch[c] \in Batch /\ tx[c] \in Stored
      /\ next[c] \in Nat /\ inserted[c] \in Nat
  BY DEF Shaped
<1>3. Len(batch[c].items) \in 0..MaxItems
  BY <1>2, BatchIsSeq
<1>4. next[c] = Len(batch[c].items) + 1 /\ inserted[c] \in 0..MaxItems
  BY <1>1, <1>2, <1>3, NamesAssumption DEF CallInv
<1>5. tx'[c].total = inserted[c] /\ tx'[c].items = tx[c].items /\ tx'[c] \in Stored
  BY <1>1, <1>2, <1>4 DEF Shaped, Stored
<1>6. Shaped' /\ Alone(c) /\ pc'[c] = "commit"
  BY <1>1, <1>5 DEF Shaped, Alone, InTx
<1>7. PrefixHeld(c)'
  BY <1>1, <1>2, <1>5 DEF CallInv, PrefixHeld, ReadSoFar
<1>8. CallInv(c)'
  BY <1>1, <1>2, <1>4, <1>5, <1>6, <1>7 DEF CallInv, InTx
<1>9. QED
  BY <1>6, <1>8, OthersKeep

\* With the whole batch read, the transaction is the whole job.
LEMMA WholeAtCommit ==
  ASSUME CreateInv, NEW c \in Calls, pc[c] = "commit"
  PROVE  Whole(batch[c].items, tx[c]) /\ tx[c] \in Stored
<1> USE DEF CreateInv
<1> DEFINE items == batch[c].items
           held == tx[c].items
<1>1. /\ PrefixHeld(c) /\ tx[c] \in Stored /\ batch[c] \in Batch
      /\ next[c] = Len(items) + 1 /\ tx[c].total = inserted[c]
  BY DEF CallInv, Shaped
<1>2. DOMAIN items = 1..Len(items) /\ Len(items) \in Nat
  BY <1>1, BatchIsSeq, NamesAssumption
<1>3. ReadSoFar(c) = DOMAIN items
  BY <1>1, <1>2 DEF ReadSoFar
<1>4. DOMAIN held = KeysOf(items)
  BY <1>1, <1>3 DEF PrefixHeld, KeysOf
<1>5. tx[c].total = Cardinality(KeysOf(items))
  BY <1>1, <1>4 DEF PrefixHeld
<1>6. ASSUME NEW k \in KeysOf(items)
      PROVE  held[k] = FirstPayload(items, k)
  <2>1. PICK i \in DOMAIN items :
          /\ items[i].key = k /\ items[i].payload = held[k]
          /\ \A j \in DOMAIN items : items[j].key = k => i <= j
    BY <1>1, <1>4 DEF PrefixHeld
  <2>2. QED
    BY <1>2, <2>1, FirstIsFirst
<1>7. Blank \notin KeysOf(items) /\ \A i \in DOMAIN items : items[i].payload # Huge
  BY <1>1, <1>3 DEF PrefixHeld, KeysOf
<1>8. QED
  BY <1>1, <1>4, <1>5, <1>6, <1>7 DEF Whole

LEMMA CommitKeeps ==
  ASSUME CreateInv, NEW c \in Calls, Commit(c)
  PROVE  CreateInv'
<1> USE DEF CreateInv
<1>1. /\ pc[c] = "commit" /\ rows' = [rows EXCEPT ![c] = tx[c]]
      /\ \E label \in {"returned", "db_error"} : pc' = [pc EXCEPT ![c] = label]
      /\ UNCHANGED <<batch, next, inserted, tx>>
  BY DEF Commit, Goto
<1>2. CallInv(c) /\ PrefixHeld(c)
  BY <1>1 DEF CallInv
<1>3. Whole(batch[c].items, tx[c]) /\ tx[c] \in Stored
  BY <1>1, WholeAtCommit
<1>4. Shaped' /\ Alone(c) /\ rows'[c] = tx[c] /\ pc'[c] \in {"returned", "db_error"}
  BY <1>1, <1>3 DEF Shaped, Alone, Ended
<1>5. tx[c] # NoJob
  BY <1>3, NamesAssumption DEF Stored
<1>6. CallInv(c)'
  BY <1>1, <1>2, <1>3, <1>4, <1>5 DEF CallInv, InTx
<1>7. QED
  BY <1>4, <1>6, OthersKeep

LEMMA CreateStep ==
  ASSUME CreateInv, [Next]_vars
  PROVE  CreateInv'
<1>1. ASSUME NEW c \in Calls, RefuseItem(c) \/ Fail(c)
      PROVE  CreateInv'
  BY <1>1, RollBackKeeps DEF RefuseItem, Fail, InTx
<1>2. CASE UNCHANGED vars
  BY <1>2 DEF vars, CreateInv, Shaped, CallInv, PrefixHeld, ReadSoFar
<1>3. QED
  BY <1>1, <1>2, SubmitKeeps, InsertJobKeeps, InsertItemKeeps, SetTotalKeeps, CommitKeeps
     DEF Next

LEMMA CreateInvariant == Spec => []CreateInv
<1>1. Init => CreateInv
  <2>1. NoBatch \in Batch /\ NoBatch.items = <<>> /\ Len(NoBatch.items) = 0
    <3>1. <<>> \in [1..0 -> Item]
      BY EmptySeq
    <3>2. 0 \in 0..MaxItems
      BY NamesAssumption
    <3>3. QED
      BY <3>1, <3>2, EmptySeq DEF NoBatch, Batch
  <2>2. NoRows \in Stored /\ DOMAIN NoRows.items = {}
    BY NothingStored
  <2>3. Init => Shaped
    BY <2>1, <2>2 DEF Init, Shaped
  <2>4. ASSUME Init, NEW c \in Calls
        PROVE  CallInv(c)
    BY <2>1, <2>2, <2>4 DEF Init, CallInv, InTx
  <2>5. QED
    BY <2>3, <2>4 DEF CreateInv
<1>2. CreateInv /\ [Next]_vars => CreateInv'
  BY CreateStep
<1>3. QED
  BY <1>1, <1>2, PTL DEF Spec

-----------------------------------------------------------------------------
\* Every variable stays in its set: no call reads past its batch, and its
\* transaction holds no key the batch does not have.
THEOREM CreateTypeCorrect == Spec => []TypeOK
<1>1. ASSUME CreateInv
      PROVE  TypeOK
  <2>1. ASSUME NEW c \in Calls
        PROVE  /\ next[c] \in 1..(MaxItems + 1) /\ inserted[c] \in 0..MaxItems
               /\ next[c] <= Len(batch[c].items) + 1 /\ tx[c].total \in 0..MaxItems
               /\ DOMAIN tx[c].items \subseteq KeysOf(batch[c].items)
    <3>1. batch[c] \in Batch /\ next[c] \in Nat \ {0} /\ inserted[c] \in Nat
          /\ tx[c] \in Stored
      BY <1>1 DEF CreateInv, Shaped
    <3>2. Len(batch[c].items) \in 0..MaxItems
      BY <3>1, BatchIsSeq
    <3>3. QED
      BY <1>1, <3>1, <3>2, NamesAssumption DEF CreateInv, CallInv, Stored
  <2>2. QED
    BY <1>1, <2>1 DEF CreateInv, Shaped, TypeOK
<1>2. QED
  BY <1>1, CreateInvariant, PTL

\* A committed job has one row per distinct key of its whole batch, with the
\* payload each key came with first, counted exactly, whatever failed and
\* whichever duplicates the batch had.
THEOREM JobsAreWhole == Spec => []CreatedJobIsWhole
<1>1. CreateInv => CreatedJobIsWhole
  BY DEF CreateInv, CallInv, CreatedJobIsWhole, Whole
<1>2. QED
  BY <1>1, CreateInvariant, PTL

\* A refused batch leaves nothing behind and an acknowledged job is there.
THEOREM AnswersAreTrue == Spec => []AnswerIsTrue
<1>1. CreateInv => AnswerIsTrue
  BY DEF CreateInv, CallInv, AnswerIsTrue
<1>2. QED
  BY <1>1, CreateInvariant, PTL

-----------------------------------------------------------------------------
\* What the caller sees of each call.
Answers == [c \in Calls |-> AnswerOf(pc[c])]

LEMMA OneAnswer ==
  ASSUME Shaped, NEW c \in Calls, NEW label, pc' = [pc EXCEPT ![c] = label]
  PROVE  Answers' = [Answers EXCEPT ![c] = AnswerOf(label)] /\ Answers[c] = AnswerOf(pc[c])
<1>1. pc'[c] = label /\ \A d \in Calls \ {c} : pc'[d] = pc[d]
  BY DEF Shaped
<1>2. \A d \in Calls : Answers'[d] = [Answers EXCEPT ![c] = AnswerOf(label)][d]
  BY <1>1 DEF Answers
<1>3. QED
  BY <1>2 DEF Answers

\* A transaction that comes to the whole batch is the job of that batch.
LEMMA WholeIsJobOf ==
  ASSUME NEW items, NEW r \in Stored, Whole(items, r)
  PROVE  r = Store!JobOf(items)
<1>1. /\ r = [total |-> r.total, items |-> r.items]
      /\ r.items = [k \in DOMAIN r.items |-> r.items[k]]
  BY DEF Stored
<1>2. Store!KeysOf(items) = KeysOf(items)
      /\ \A k : Store!FirstPayload(items, k) = FirstPayload(items, k)
  BY DEF Store!KeysOf, KeysOf, Store!FirstPayload, FirstPayload
<1>3. r.items = [k \in KeysOf(items) |-> FirstPayload(items, k)]
  BY <1>1 DEF Whole
<1>4. Store!Cardinality(KeysOf(items)) = Cardinality(KeysOf(items))
  BY DEF Store!Cardinality, Cardinality, Store!IsFiniteSet, IsFiniteSet
<1>5. r.total = Cardinality(KeysOf(items))
  BY DEF Whole
<1>6. QED
  BY <1>1, <1>2, <1>3, <1>4, <1>5 DEF Store!JobOf

\* A call that goes on inside its transaction shows nothing.
LEMMA InsideShowsNothing ==
  ASSUME Shaped, NEW c \in Calls, NEW label \in InTx, pc[c] \in InTx,
         pc' = [pc EXCEPT ![c] = label]
  PROVE  Answers' = Answers
<1>1. Answers' = [Answers EXCEPT ![c] = "asked"] /\ Answers[c] = "asked"
  BY OneAnswer DEF AnswerOf
<1>2. QED
  BY <1>1 DEF Answers

LEMMA SubmitShows ==
  ASSUME CreateInv, NEW c \in Calls, NEW b \in Batch, Submit(c, b)
  PROVE  Store!Submit(c, b)
<1> DEFINE label == IF b.named /\ b.items # <<>> THEN "insert_job" ELSE "invalid"
<1>1. /\ pc[c] = "idle" /\ pc' = [pc EXCEPT ![c] = label]
      /\ batch' = [batch EXCEPT ![c] = b] /\ UNCHANGED rows
  BY DEF Submit, Goto
<1>2. Answers' = [Answers EXCEPT ![c] = AnswerOf(label)] /\ Answers[c] = AnswerOf(pc[c])
  BY <1>1, OneAnswer DEF CreateInv
<1>3. /\ AnswerOf(label) = IF b.named /\ b.items # <<>> THEN "asked" ELSE "invalid"
      /\ AnswerOf("idle") = "idle"
  BY DEF AnswerOf, InTx
<1>4. QED
  BY <1>1, <1>2, <1>3 DEF Store!Submit, Store!Answer, Answers

\* The commit is the instant at which the whole job appears.
LEMMA CommitCreates ==
  ASSUME CreateInv, NEW c \in Calls, Commit(c)
  PROVE  Store!Create(c)
<1>1. PICK label \in {"returned", "db_error"} : pc' = [pc EXCEPT ![c] = label]
  BY DEF Commit, Goto
<1>2. pc[c] = "commit" /\ rows' = [rows EXCEPT ![c] = tx[c]] /\ UNCHANGED batch
  BY DEF Commit
<1>3. Answers' = [Answers EXCEPT ![c] = AnswerOf(label)] /\ Answers[c] = AnswerOf(pc[c])
  BY <1>1, OneAnswer DEF CreateInv
<1>4. AnswerOf(label) = label /\ AnswerOf(pc[c]) = "asked"
  BY <1>1, <1>2 DEF AnswerOf, InTx
<1>5. Whole(batch[c].items, tx[c]) /\ tx[c] \in Stored
  BY <1>2, WholeAtCommit
<1>6. tx[c] = Store!JobOf(batch[c].items)
  BY <1>5, WholeIsJobOf
<1>7. Store!Storable(batch[c].items)
  BY <1>5 DEF Whole, KeysOf, Store!Storable
<1>8. Store!Answer(c, "returned") \/ Store!Answer(c, "db_error")
  BY <1>1, <1>3, <1>4 DEF Store!Answer, Answers
<1>9. QED
  BY <1>2, <1>3, <1>4, <1>6, <1>7, <1>8 DEF Store!Create, Answers

\* A transaction given up leaves an answer and no row.
LEMMA GivenUp ==
  ASSUME CreateInv, NEW c \in Calls, pc[c] \in InTx,
         NEW label \in {"invalid", "db_error"}, RollBack(c, label)
  PROVE  /\ Store!Answer(c, label) /\ Answers[c] = "asked"
         /\ UNCHANGED <<batch, rows>>
<1>1. pc' = [pc EXCEPT ![c] = label] /\ UNCHANGED <<batch, rows>>
  BY DEF RollBack, Goto
<1>2. Answers' = [Answers EXCEPT ![c] = AnswerOf(label)] /\ Answers[c] = AnswerOf(pc[c])
  BY <1>1, OneAnswer DEF CreateInv
<1>3. AnswerOf(label) = label /\ AnswerOf(pc[c]) = "asked"
  BY DEF AnswerOf, InTx
<1>4. QED
  BY <1>1, <1>2, <1>3 DEF Store!Answer, Answers

LEMMA FailShows ==
  ASSUME CreateInv, NEW c \in Calls, Fail(c)
  PROVE  Store!Fail(c)
BY GivenUp DEF Fail, Store!Fail, Answers

\* "invalid" is only answered to a batch with a blank key in it.
LEMMA RefusalIsDue ==
  ASSUME CreateInv, NEW c \in Calls, RefuseItem(c)
  PROVE  Store!Refuse(c) \/ Store!Fail(c)
<1> DEFINE items == batch[c].items
<1>1. pc[c] = "insert_item" /\ next[c] <= Len(items) /\ pc[c] \in InTx
  BY DEF RefuseItem, InTx
<1>2. next[c] \in DOMAIN items
  <2>1. batch[c] \in Batch /\ next[c] \in Nat \ {0}
    BY DEF CreateInv, Shaped
  <2>2. QED
    BY <1>1, <2>1, BatchIsSeq, NamesAssumption
<1>3. CASE items[next[c]].key = Blank /\ RollBack(c, "invalid")
  <2>1. Blank \in Store!KeysOf(items)
    BY <1>2, <1>3 DEF Store!KeysOf
  <2>2. QED
    BY <1>1, <1>3, <2>1, GivenUp DEF Store!Refuse, Answers
<1>4. CASE RollBack(c, "db_error")
  BY <1>1, <1>4, GivenUp DEF Store!Fail, Answers
<1>5. QED
  BY <1>3, <1>4 DEF RefuseItem

\* Only the guards, the commit and an early return show outside.
LEMMA StepOfStore ==
  ASSUME CreateInv, [Next]_vars
  PROVE  [Store!Next]_(Store!storeVars)
<1>1. ASSUME NEW c \in Calls, InsertJob(c)
      PROVE  UNCHANGED Store!storeVars
  <2>1. Answers' = Answers
    BY <1>1, InsideShowsNothing DEF InsertJob, Goto, InTx, CreateInv
  <2>2. QED
    BY <1>1, <2>1 DEF InsertJob, Store!storeVars, Answers
<1>2. ASSUME NEW c \in Calls, SetTotalItems(c)
      PROVE  UNCHANGED Store!storeVars
  <2>1. Answers' = Answers
    BY <1>2, InsideShowsNothing DEF SetTotalItems, Goto, InTx, CreateInv
  <2>2. QED
    BY <1>2, <2>1 DEF SetTotalItems, Store!storeVars, Answers
<1>3. ASSUME NEW c \in Calls, InsertItem(c)
      PROVE  UNCHANGED Store!storeVars
  BY <1>3 DEF InsertItem, Store!storeVars
<1>4. CASE UNCHANGED vars
  BY <1>4 DEF vars, Store!storeVars
<1>5. ASSUME NEW c \in Calls, NEW b \in Batch, Submit(c, b)
      PROVE  Store!Next
  <2>1. b \in Store!Batch
    BY DEF Batch, Store!Batch, Item, Store!Item
  <2>2. QED
    BY <1>5, <2>1, SubmitShows DEF Store!Next
<1>6. ASSUME NEW c \in Calls, Commit(c) \/ RefuseItem(c) \/ Fail(c)
      PROVE  Store!Next
  BY <1>6, CommitCreates, RefusalIsDue, FailShows DEF Store!Next
<1>7. QED
  BY <1>1, <1>2, <1>3, <1>4, <1>5, <1>6 DEF Next

\* create_job implements JobStore: seen from outside, a call writes its whole
\* job at one instant or nothing, and only a batch at fault is called invalid.
THEOREM CreateImplementsStore == Spec => StoreSpec
<1>1. Init => Store!Init
  BY DEF Init, Store!Init, NoBatch, Store!NoBatch, AnswerOf, InTx
<1>2. CreateInv /\ [Next]_vars => [Store!Next]_(Store!storeVars)
  BY StepOfStore
<1>3. QED
  BY <1>1, <1>2, CreateInvariant, PTL DEF Spec, StoreSpec, Store!Spec
=============================================================================

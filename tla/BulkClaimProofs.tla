--------------------------- MODULE BulkClaimProofs ---------------------------
(***************************************************************************)
(* What a sound fence buys: exclusive claims, at most one effect per item  *)
(* in a target of any kind, and the refinement of ItemLedger.  The         *)
(* inductive invariant is ClaimInv (BulkEngine).                           *)
(***************************************************************************)
EXTENDS BulkEngineProofs

Inv == Typed /\ ClaimInv

\* The initial state has no claim and no effect.
LEMMA InitClaim == Init => ClaimInv
<1>1. Init => Kinds /\ OneHolder /\ EffectFits
  BY DEF Init, Kinds, OneHolder, EffectFits, Procs
<1>2. Init => StrandedOnly
  BY KeysAssumption DEF Init, StrandedOnly, Procs
<1>3. QED
  BY <1>1, <1>2 DEF ClaimInv

\* A call that ends lets go of its item and leaves the rest as it was.
LEMMA ForgetClaim ==
  ASSUME Inv, NEW p \in Procs, Forget(p), UNCHANGED <<status, aged, effects>>
  PROVE  ClaimInv'
<1> USE DEF Inv, ClaimInv
<1>1. Kinds'
  BY DEF Forget, Goto, Typed, Kinds, Procs
<1>2. OneHolder'
  BY DEF Forget, Typed, OneHolder
<1>3. EffectFits'
  BY DEF Forget, Goto, Typed, EffectFits
<1>4. StrandedOnly'
  <2>1. \A q \in Procs \ {p} : cur'[q] = cur[q] /\ work'[q] = work[q]
    BY DEF Forget, Typed
  <2>2. cur'[p] = NoKey /\ work'[p] = {}
    BY DEF Forget, Typed
  <2>3. \A k \in Keys :
          aged'[k] => status'[k] = "applying" /\ \A q \in Runners : cur'[q] # k
    BY <2>1, <2>2, KeysAssumption DEF StrandedOnly, Procs
  <2>4. ASSUME NEW q \in Reconcilers, NEW k \in work'[q]
        PROVE  status'[k] \in {"applying", "purged"} /\ \A r \in Procs : cur'[r] # k
    <3>1. k \in work[q] /\ k \in Keys
      BY <2>1, <2>2, <2>4 DEF Typed, Procs
    <3>2. status[k] \in {"applying", "purged"} /\ \A r \in Procs : cur[r] # k
      BY <2>4, <3>1 DEF StrandedOnly
    <3>3. QED
      BY <2>1, <2>2, <3>1, <3>2, KeysAssumption
  <2>5. QED
    BY <2>3, <2>4 DEF StrandedOnly
<1>5. QED
  BY <1>1, <1>2, <1>3, <1>4

\* The holder puts its item down, closed with an outcome that fits the effect
\* it knows of, or gone.
LEMMA CloseClaim ==
  ASSUME SoundFence, Inv, NEW p \in Procs, NEW b, cur[p] \in Keys,
         NEW outcome \in {"applied", "failed", "cancelled", "purged"},
         outcome = "applied" => effects[cur[p]] = 1,
         outcome = "failed" => effects[cur[p]] = 0,
         CloseRow(cur[p], outcome), PutDown(p, b), UNCHANGED effects
  PROVE  ClaimInv'
<1> USE DEF Inv, ClaimInv
<1> DEFINE k == cur[p]
<1>1. \A q \in Procs \ {p} : cur'[q] = cur[q] /\ pc'[q] = pc[q] /\ cur[q] # k
  BY KeysAssumption DEF PutDown, Goto, Typed, OneHolder
<1>2. /\ cur'[p] = NoKey /\ pc'[p] = LoopHead(p) /\ work' = work
      /\ effects' = effects
  BY DEF PutDown, Goto, Typed
<1>3. /\ status'[k] = outcome /\ aged'[k] = FALSE
      /\ \A j \in Keys \ {k} : status'[j] = status[j] /\ aged'[j] = aged[j]
  BY DEF CloseRow, Typed
<1>4. Kinds'
  BY <1>1, <1>2, ProcsAssumption DEF Kinds, LoopHead, Procs
<1>5. OneHolder'
  <2>1. ASSUME NEW q \in Procs, NEW r \in Procs, cur'[q] # NoKey
        PROVE  status'[cur'[q]] \in {"applying", "purged"} /\ (q # r => cur'[q] # cur'[r])
    <3>1. q # p /\ cur'[q] = cur[q] /\ cur[q] \in Keys \ {k}
      BY <1>1, <1>2, <2>1 DEF Typed
    <3>2. status'[cur'[q]] \in {"applying", "purged"}
      BY <1>3, <2>1, <3>1 DEF OneHolder
    <3>3. q # r => cur'[q] # cur'[r]
      BY <1>1, <1>2, <2>1, <3>1 DEF OneHolder
    <3>4. QED
      BY <3>2, <3>3
  <2>2. QED
    BY <2>1 DEF OneHolder
<1>6. EffectFits'
  <2>1. \A j \in Keys :
          /\ effects'[j] \in {0, 1}
          /\ status'[j] \in {"pending", "failed"} => effects'[j] = 0
          /\ status'[j] = "applied" => effects'[j] = 1
    BY <1>2, <1>3 DEF EffectFits
  <2>2. \A q \in Procs :
          /\ pc'[q] \in {"apply", "mark_failed"} => effects'[cur'[q]] = 0
          /\ pc'[q] \in {"mark_applied", "confirm"} => effects'[cur'[q]] = 1
    BY <1>1, <1>2 DEF EffectFits, LoopHead
  <2>3. QED
    BY <2>1, <2>2 DEF EffectFits
<1>7. StrandedOnly'
  <2>1. \A j \in Keys :
          aged'[j] => status'[j] = "applying" /\ \A q \in Runners : cur'[q] # j
    <3>1. ASSUME NEW j \in Keys, aged'[j]
          PROVE  status'[j] = "applying" /\ \A q \in Runners : cur'[q] # j
      <4>1. j # k /\ status'[j] = status[j] /\ aged[j]
        BY <1>3, <3>1
      <4>2. status[j] = "applying" /\ \A q \in Runners : cur[q] # j
        BY <3>1, <4>1 DEF StrandedOnly
      <4>3. QED
        BY <1>1, <1>2, <3>1, <4>1, <4>2, KeysAssumption DEF Procs
    <3>2. QED
      BY <3>1
  <2>2. ASSUME NEW q \in Reconcilers, NEW j \in work'[q]
        PROVE  status'[j] \in {"applying", "purged"} /\ \A r \in Procs : cur'[r] # j
    <3>1. j \in Keys /\ j \in work[q] /\ j # k
      BY <1>2, <2>2 DEF StrandedOnly, Typed, Procs
    <3>2. status[j] \in {"applying", "purged"} /\ \A r \in Procs : cur[r] # j
      BY <2>2, <3>1 DEF StrandedOnly
    <3>3. QED
      BY <1>1, <1>2, <1>3, <3>1, <3>2, KeysAssumption
  <2>3. QED
    BY <2>1, <2>2 DEF StrandedOnly
<1>8. QED
  BY <1>4, <1>5, <1>6, <1>7

\* Recording the outcome of the item in hand, or failing to.
LEMMA RecordClaim ==
  ASSUME SoundFence, Inv, NEW p \in Procs, NEW b, cur[p] \in Keys,
         \/ effects[cur[p]] = 1 /\ Record(p, mark_applied(cur[p], ack[p]), b)
         \/ effects[cur[p]] = 0 /\ Record(p, mark_failed(cur[p]), b)
         \/ Record(p, mark_cancelled(cur[p]), b)
  PROVE  ClaimInv'
<1>1. CASE Forget(p) /\ UNCHANGED rowVars
  BY <1>1, ForgetClaim DEF Record, rowVars
<1>2. status[cur[p]] \in {"applying", "purged"}
  BY KeysAssumption DEF Inv, ClaimInv, OneHolder
<1>3. CASE \E outcome \in {"applied", "failed", "cancelled"} :
             /\ outcome = "applied" => effects[cur[p]] = 1
             /\ outcome = "failed" => effects[cur[p]] = 0
             /\ CloseRow(cur[p], outcome)
             /\ PutDown(p, b)
  BY <1>3, CloseClaim DEF Record
<1>4. CASE status[cur[p]] = "purged" /\ UNCHANGED rowVars /\ PutDown(p, b)
  <2>1. ~aged[cur[p]]
    BY <1>4 DEF Inv, ClaimInv, StrandedOnly
  <2>2. CloseRow(cur[p], "purged")
    BY <1>4, <2>1 DEF CloseRow, rowVars, Inv, Typed
  <2>3. QED
    BY <1>4, <2>2, CloseClaim DEF Record
<1>5. QED
  BY <1>1, <1>2, <1>3, <1>4 DEF Record, mark_applied, mark_failed, mark_cancelled

\* A free row is reserved by exactly one run.
LEMMA ReserveClaim ==
  ASSUME Inv, NEW p \in Procs, NEW k \in Keys, Reserve(p, k)
  PROVE  ClaimInv'
<1> USE DEF Inv, ClaimInv
<1>1. p \in Runners
  BY DEF Reserve, Kinds, Procs
<1>2. CASE status[k] = "pending"
  <2>1. /\ status' = [status EXCEPT ![k] = "applying"]
        /\ pc' = [pc EXCEPT ![p] = "apply"] /\ cur' = [cur EXCEPT ![p] = k]
        /\ work' = [work EXCEPT ![p] = work[p] \ {k}] /\ UNCHANGED <<aged, effects>>
    BY <1>2 DEF Reserve, Take, Goto
  <2>2. \A q \in Procs : cur[q] # k
    BY <1>2, KeysAssumption DEF OneHolder
  <2>3. ~aged[k] /\ effects[k] = 0
    BY <1>2 DEF StrandedOnly, EffectFits
  <2>4. Kinds'
    BY <1>1, <2>1, ProcsAssumption DEF Kinds, Typed, Procs
  <2>5. OneHolder'
    BY <2>1, <2>2 DEF OneHolder, Typed
  <2>6. EffectFits'
    BY <2>1, <2>3 DEF EffectFits, Typed
  <2>7. StrandedOnly'
    <3>1. \A j \in Keys :
            aged'[j] => status'[j] = "applying" /\ \A q \in Runners : cur'[q] # j
      BY <2>1, <2>3 DEF StrandedOnly, Typed, Procs
    <3>2. ASSUME NEW q \in Reconcilers, NEW j \in work'[q]
          PROVE  status'[j] \in {"applying", "purged"} /\ \A r \in Procs : cur'[r] # j
      <4>1. j \in work[q] /\ j \in Keys
        BY <1>1, <2>1, <3>2, ProcsAssumption DEF Typed, Procs
      <4>2. status[j] \in {"applying", "purged"} /\ \A r \in Procs : cur[r] # j
        BY <3>2, <4>1 DEF StrandedOnly
      <4>3. QED
        BY <1>2, <2>1, <4>1, <4>2 DEF Typed
    <3>3. QED
      BY <3>1, <3>2 DEF StrandedOnly
  <2>8. QED
    BY <2>4, <2>5, <2>6, <2>7
<1>3. CASE status[k] # "pending"
  <2>1. UNCHANGED <<status, aged, effects, pc, cur>>
        /\ work' = [work EXCEPT ![p] = work[p] \ {k}]
    BY <1>3 DEF Reserve
  <2>2. Kinds' /\ OneHolder' /\ EffectFits'
    BY <2>1 DEF Kinds, OneHolder, EffectFits
  <2>3. StrandedOnly'
    BY <1>1, <2>1, ProcsAssumption DEF StrandedOnly, Typed, Procs
  <2>4. QED
    BY <2>2, <2>3
<1>4. QED
  BY <1>2, <1>3

\* The re-check takes a stranded item in hand, knowing its effect.
LEMMA CheckClaim ==
  ASSUME SoundFence, Inv, NEW p \in Procs, NEW k \in Keys, CheckApplied(p, k)
  PROVE  ClaimInv'
<1> USE DEF Inv, ClaimInv
<1>1. p \in Reconcilers /\ status[k] \in {"applying", "purged"} /\ effects[k] \in {0, 1}
  BY DEF CheckApplied, Kinds, Procs, StrandedOnly, EffectFits
<1>2. PICK label \in {"confirm", "apply", "mark_cancelled"} :
        /\ Take(p, k, label)
        /\ label = "confirm" => effects[k] = 1
        /\ label = "apply" => effects[k] = 0
  BY <1>1 DEF CheckApplied
<1>3. /\ pc' = [pc EXCEPT ![p] = label] /\ cur' = [cur EXCEPT ![p] = k]
      /\ work' = [work EXCEPT ![p] = work[p] \ {k}]
      /\ UNCHANGED <<status, aged, effects>>
  BY <1>2 DEF CheckApplied, Take, Goto, rowVars
<1>4. \A q \in Procs : cur[q] # k
  BY <1>1 DEF StrandedOnly, CheckApplied
<1>5. Kinds'
  BY <1>1, <1>3, ProcsAssumption DEF Kinds, Typed, Procs
<1>6. OneHolder'
  BY <1>1, <1>3, <1>4 DEF OneHolder, Typed
<1>7. EffectFits'
  BY <1>2, <1>3 DEF EffectFits, Typed
<1>8. StrandedOnly'
  BY <1>1, <1>3, <1>4, ProcsAssumption DEF StrandedOnly, SoundFence, Typed, Procs
<1>9. QED
  BY <1>5, <1>6, <1>7, <1>8

\* The target makes the one effect of the item in the caller's hand.
LEMMA AcceptClaim ==
  ASSUME Inv, NEW p \in Procs, TargetAccepts(p)
  PROVE  ClaimInv'
<1> USE DEF Inv, ClaimInv
<1>1. /\ cur[p] \in Keys /\ effects[cur[p]] = 0
      /\ status[cur[p]] \in {"applying", "purged"}
  BY KeysAssumption DEF TargetAccepts, Typed, InHand, Claiming, EffectFits, OneHolder
<1>2. /\ effects' = [effects EXCEPT ![cur[p]] = 1]
      /\ pc' = [pc EXCEPT ![p] = "mark_applied"]
      /\ UNCHANGED <<status, aged, cur, work>>
  BY <1>1 DEF TargetAccepts, Goto, rowVars
<1>3. \A q \in Procs \ {p} : cur[q] # cur[p]
  BY <1>1, KeysAssumption DEF OneHolder
<1>4. Kinds'
  BY <1>2 DEF Kinds, Typed, Procs
<1>5. OneHolder' /\ StrandedOnly'
  BY <1>2 DEF OneHolder, StrandedOnly
<1>6. EffectFits'
  <2>1. \A j \in Keys :
          /\ effects'[j] \in {0, 1}
          /\ status'[j] \in {"pending", "failed"} => effects'[j] = 0
          /\ status'[j] = "applied" => effects'[j] = 1
    BY <1>1, <1>2 DEF EffectFits, Typed
  <2>2. ASSUME NEW q \in Procs
        PROVE  /\ pc'[q] \in {"apply", "mark_failed"} => effects'[cur'[q]] = 0
               /\ pc'[q] \in {"mark_applied", "confirm"} => effects'[cur'[q]] = 1
    <3>1. CASE q = p
      BY <1>1, <1>2, <3>1 DEF Typed
    <3>2. CASE q # p
      BY <1>2, <1>3, <2>2, <3>2 DEF EffectFits, Typed
    <3>3. QED
      BY <3>1, <3>2
  <2>3. QED
    BY <2>1, <2>2 DEF EffectFits
<1>7. QED
  BY <1>4, <1>5, <1>6

\* The steps of a call that neither touch rows nor effects nor the item in hand.
LEMMA QuietClaim ==
  ASSUME SoundFence, Inv, NEW p \in Procs,
         \/ MarkRunning(p) \/ FetchPending(p) \/ FetchApplyingStale(p)
         \/ TargetRejects(p) \/ CountOutcomes(p) \/ SetOutcome(p)
         \/ p \in Runners /\ StartRun(p)
         \/ p \in Reconcilers /\ StartReconcile(p)
  PROVE  ClaimInv'
<1> USE DEF Inv, ClaimInv
<1>1. UNCHANGED <<status, aged, effects, cur>>
  BY DEF MarkRunning, FetchPending, FetchApplyingStale, TargetRejects, CountOutcomes,
     SetOutcome, StartRun, StartReconcile, rowVars
<1>2. OneHolder'
  BY <1>1 DEF OneHolder
<1>3. PICK label \in Labels : pc' = [pc EXCEPT ![p] = label]
  BY DEF MarkRunning, FetchPending, FetchApplyingStale, TargetRejects, CountOutcomes,
     SetOutcome, StartRun, StartReconcile, Goto, Labels, Claiming
<1>4. Kinds'
  BY ProcsAssumption
     DEF MarkRunning, FetchPending, FetchApplyingStale, TargetRejects, CountOutcomes,
     SetOutcome, StartRun, StartReconcile, Goto, Kinds, Typed, Procs
<1>5. EffectFits'
  BY <1>1
     DEF MarkRunning, FetchPending, FetchApplyingStale, TargetRejects, CountOutcomes,
     SetOutcome, StartRun, StartReconcile, Goto, EffectFits, Typed
<1>6. StrandedOnly'
  <2>1. CASE FetchPending(p)
    <3>1. p \in Runners /\ \A q \in Procs \ {p} : work'[q] = work[q]
      BY <2>1 DEF FetchPending, Kinds, Typed, Procs
    <3>2. QED
      BY <1>1, <3>1, ProcsAssumption DEF StrandedOnly, Procs
  <2>2. CASE FetchApplyingStale(p)
    <3>1. /\ \A q \in Procs \ {p} : work'[q] = work[q]
          /\ work'[p] = {k \in Keys : status[k] = "applying" /\ aged[k]}
      BY <2>2 DEF FetchApplyingStale, InStatus, Typed
    <3>2. cur[p] = NoKey
      BY <2>2 DEF FetchApplyingStale, Typed, InHand, Claiming
    <3>3. \A q \in Reconcilers : q = p
      BY <2>2 DEF FetchApplyingStale, SoundFence, Kinds, Procs
    <3>4. \A k \in work'[p] :
            status'[k] \in {"applying", "purged"} /\ \A q \in Procs : cur'[q] # k
      BY <1>1, <3>1, <3>2, <3>3, KeysAssumption DEF StrandedOnly, Procs
    <3>5. QED
      BY <1>1, <3>3, <3>4 DEF StrandedOnly
  <2>3. CASE UNCHANGED work
    BY <1>1, <2>3 DEF StrandedOnly
  <2>4. QED
    BY <2>1, <2>2, <2>3
       DEF MarkRunning, TargetRejects, CountOutcomes, SetOutcome, StartRun,
       StartReconcile
<1>7. QED
  BY <1>2, <1>4, <1>5, <1>6

\* Every step of the engine keeps the claim invariant, beside the CRUD routes too.
LEMMA ClaimStep ==
  ASSUME SoundFence, Inv, [Next]_vars
  PROVE  ClaimInv'
<1>1. ASSUME NEW p \in Procs, CallStep(p)
      PROVE  ClaimInv'
  <2>1. CASE Confirm(p) \/ Cancel(p) \/ RecordAck(p) \/ RecordRejection(p)
    <3>1. cur[p] \in Keys
      BY <2>1 DEF Inv, Typed, InHand, Claiming, Confirm, Cancel, RecordAck,
         RecordRejection
    <3>2. /\ pc[p] \in {"mark_applied", "confirm"} => effects[cur[p]] = 1
          /\ pc[p] = "mark_failed" => effects[cur[p]] = 0
      BY DEF Inv, ClaimInv, EffectFits
    <3>3. QED
      BY <2>1, <3>1, <3>2, RecordClaim DEF Confirm, Cancel, RecordAck, RecordRejection
  <2>2. CASE CountUnfinished(p)
    <3>1. CASE Forget(p)
      BY <2>2, <3>1, ForgetClaim DEF CountUnfinished, rowVars
    <3>2. CASE Goto(p, "count_outcomes") /\ UNCHANGED <<work, cur>>
      <4>1. UNCHANGED <<status, aged, effects, work, cur>>
            /\ pc' = [pc EXCEPT ![p] = "count_outcomes"]
        BY <2>2, <3>2 DEF CountUnfinished, rowVars, Goto
      <4>2. Kinds' /\ EffectFits'
        BY <4>1 DEF Inv, ClaimInv, Typed, Kinds, EffectFits, Procs
      <4>3. OneHolder' /\ StrandedOnly'
        BY <4>1 DEF Inv, ClaimInv, OneHolder, StrandedOnly
      <4>4. QED
        BY <4>2, <4>3 DEF ClaimInv
    <3>3. QED
      BY <2>2, <3>1, <3>2 DEF CountUnfinished
  <2>3. CASE Publish(p)
    BY <2>3, ForgetClaim DEF Publish, rowVars
  <2>4. QED
    BY <1>1, <2>1, <2>2, <2>3, QuietClaim, ReserveClaim, CheckClaim, AcceptClaim
       DEF CallStep, RunStep, ReconcileStep, SharedStep
<1>2. ASSUME NEW p \in Procs, Crash(p)
      PROVE  ClaimInv'
  BY <1>2, ForgetClaim DEF Crash, rowVars
<1>3. ASSUME NEW k \in Keys, ClaimAges(k)
      PROVE  ClaimInv'
  <2>1. /\ aged' = [aged EXCEPT ![k] = TRUE] /\ status[k] = "applying"
        /\ \A p \in Procs : cur[p] # k
        /\ UNCHANGED <<status, effects, pc, cur, work>>
    BY <1>3 DEF ClaimAges, SoundFence, callVars
  <2>2. Kinds' /\ OneHolder' /\ EffectFits'
    BY <2>1 DEF Inv, ClaimInv, Kinds, OneHolder, EffectFits
  <2>3. StrandedOnly'
    <3>1. \A j \in Keys : aged'[j] = (j = k \/ aged[j])
      BY <2>1 DEF Inv, Typed
    <3>2. QED
      BY <2>1, <3>1 DEF Inv, ClaimInv, Typed, StrandedOnly, Procs
  <2>4. QED
    BY <2>2, <2>3 DEF ClaimInv
<1>4. CASE RetryFailed
  <2>1. /\ \A k \in Keys : status'[k] = IF status[k] = "failed" THEN "pending" ELSE status[k]
        /\ UNCHANGED <<aged, effects, pc, cur, work>>
    BY <1>4 DEF RetryFailed, callVars
  <2>2. Kinds' /\ OneHolder'
    BY <2>1 DEF Inv, ClaimInv, Typed, Kinds, OneHolder
  <2>3. EffectFits' /\ StrandedOnly'
    BY <2>1 DEF Inv, ClaimInv, Typed, EffectFits, StrandedOnly, Procs
  <2>4. QED
    BY <2>2, <2>3 DEF ClaimInv
<1>5. CASE SetDeleted("delete", TRUE) \/ SetDeleted("restore", FALSE) \/ UNCHANGED vars
  <2>1. UNCHANGED <<status, aged, effects, pc, cur, work>>
    BY <1>5 DEF SetDeleted, vars, rowVars, callVars
  <2>2. QED
    BY <2>1 DEF Inv, ClaimInv, Kinds, OneHolder, EffectFits, StrandedOnly
<1>6. QED
  BY <1>1, <1>2, <1>3, <1>4, <1>5, QuietClaim DEF Next, Procs

\* The claim invariant holds in every reachable state of a fenced engine.
LEMMA ClaimInvariant ==
  ASSUME SoundFence
  PROVE  Spec => [](Inv /\ TypeOK)
<1>1. Init => Inv
  BY InitType, InitClaim DEF Inv
<1>2. Inv /\ [Next]_vars => Inv'
  BY NextType, ClaimStep, SoundFence DEF Inv
<1>3. QED
  BY <1>1, <1>2, TypeCorrect, PTL DEF Spec

\* As long as no row goes away, the item in hand reads applying.
LEMMA HandIsApplying ==
  ASSUME Inv, TypeOK, NEW p \in Procs, cur[p] \in Keys
  PROVE  status[cur[p]] = "applying"
BY KeysAssumption DEF Inv, ClaimInv, OneHolder, TypeOK, ItemStatus

\* With a sound fence a claim is exclusive from the reservation (or the stale
\* fetch) to the mark, and whoever holds it knows the item's effect.
THEOREM ClaimsAreSound ==
  ASSUME SoundFence
  PROVE  Spec => []ClaimInv
<1>1. Inv => ClaimInv
  BY DEF Inv
<1>2. QED
  BY <1>1, ClaimInvariant, PTL

\* With a sound fence no two calls ever apply the same item at once.
THEOREM NoConcurrentDuplicate ==
  ASSUME SoundFence
  PROVE  Spec => []NoConcurrentApply
<1>1. Inv => NoConcurrentApply
  BY DEF Inv, ClaimInv, Typed, InHand, Claiming, OneHolder, NoConcurrentApply
<1>2. QED
  BY <1>1, ClaimInvariant, PTL

\* With a sound fence every item has at most one effect, even in a target that
\* ignores item_key: crashes, concurrent runs, reconcile passes, retries and
\* refused marks never send an item again once its effect has landed.
THEOREM ExactlyOnce ==
  ASSUME SoundFence
  PROVE  Spec => []AtMostOneEffect
<1>1. Inv => AtMostOneEffect
  BY DEF Inv, ClaimInv, EffectFits, AtMostOneEffect
<1>2. QED
  BY <1>1, ClaimInvariant, PTL

\* With a sound fence no effect hides behind a row that reads pending or failed.
THEOREM NoEffectDropped ==
  ASSUME SoundFence
  PROVE  Spec => []NoHiddenEffect
<1>1. Inv => NoHiddenEffect
  BY DEF Inv, ClaimInv, EffectFits, NoHiddenEffect
<1>2. QED
  BY <1>1, ClaimInvariant, PTL

-----------------------------------------------------------------------------
\* What the calls report.

\* A call that counts nothing new, or ends, leaves the reports truthful.
LEMMA QuietSummary ==
  ASSUME Inv, SummaryTruthful, [Next]_vars,
         \A q \in Procs, k \in Keys : bucket'[q][k] \in {bucket[q][k], "none"}
  PROVE  SummaryTruthful'
<1>1. \A k \in Keys : status[k] \in {"applied", "cancelled"} => status'[k] = status[k]
  BY FinalStep DEF Inv, OutcomeStep
<1>2. QED
  BY <1>1 DEF SummaryTruthful

\* The item in hand is counted with the outcome that its row now shows; no
\* other report can have closed it, since it still read applying.
LEMMA CountedSummary ==
  ASSUME Inv, TypeOK, SummaryTruthful, NEW p \in Procs, NEW b, cur[p] \in Keys, PutDown(p, b),
         \/ /\ mark_applied(cur[p], ack[p])
            /\ b \in {"succeeded", "reapplied", "confirmed"}
         \/ mark_failed(cur[p]) /\ b \in {"failed", "reapplied"}
         \/ mark_cancelled(cur[p]) /\ b = "cancelled"
  PROVE  SummaryTruthful'
<1> DEFINE k == cur[p]
<1>1. status[k] = "applying"
  BY HandIsApplying
<1>2. /\ \A j \in Keys \ {k} : status'[j] = status[j]
      /\ b \in {"succeeded", "confirmed"} => status'[k] = "applied"
      /\ b = "cancelled" => status'[k] = "cancelled"
  BY <1>1 DEF Inv, Typed, mark_applied, mark_failed, mark_cancelled, CloseRow
<1>3. /\ bucket'[p][k] = b
      /\ \A j \in Keys \ {k} : bucket'[p][j] = bucket[p][j]
      /\ \A q \in Procs \ {p} : bucket'[q] = bucket[q]
  BY DEF Inv, Typed, PutDown
<1>4. ASSUME NEW q \in Procs
      PROVE  bucket[q][k] \in {"none", "failed", "reapplied"}
  <2>1. bucket[q][k] \in Buckets
    BY DEF Inv, Typed
  <2>2. bucket[q][k] \notin {"succeeded", "confirmed", "cancelled"}
    BY <1>1 DEF SummaryTruthful
  <2>3. QED
    BY <2>1, <2>2 DEF Buckets
<1>5. ASSUME NEW q \in Procs, NEW j \in Keys
      PROVE  /\ bucket'[q][j] \in {"succeeded", "confirmed"} => status'[j] = "applied"
             /\ bucket'[q][j] = "cancelled" => status'[j] = "cancelled"
  BY <1>2, <1>3, <1>4 DEF SummaryTruthful
<1>6. ASSUME NEW q \in Procs, NEW r \in Procs \ {q}, NEW j \in Keys,
             bucket'[q][j] # "none", bucket'[r][j] # "none"
      PROVE  \/ "failed" \in {bucket'[q][j], bucket'[r][j]}
             \/ "reapplied" \in {bucket'[q][j], bucket'[r][j]}
  <2>1. CASE j = k
    BY <1>3, <1>4, <1>6, <2>1
  <2>2. CASE j # k
    BY <1>3, <1>6, <2>2 DEF SummaryTruthful
  <2>3. QED
    BY <2>1, <2>2
<1>7. QED
  BY <1>5, <1>6 DEF SummaryTruthful

\* With a sound fence what a summary counts as succeeded, confirmed or cancelled
\* is on the row when it is counted and stays there for good, and no item is in
\* two calls' summaries as one of these.
THEOREM SummariesAreTrue ==
  ASSUME SoundFence
  PROVE  Spec => []SummaryTruthful
<1>1. Init => SummaryTruthful
  BY DEF Init, SummaryTruthful
<1>2. ASSUME Inv, TypeOK, SummaryTruthful, [Next]_vars
      PROVE  SummaryTruthful'
  <2>1. ASSUME NEW p \in Procs, Forget(p)
        PROVE  SummaryTruthful'
    <3>1. \A q \in Procs, k \in Keys : bucket'[q][k] \in {bucket[q][k], "none"}
      BY <1>2, <2>1 DEF Forget, Inv, Typed
    <3>2. QED
      BY <1>2, <3>1, QuietSummary
  <2>2. CASE UNCHANGED bucket
    BY <1>2, <2>2, QuietSummary
  <2>3. ASSUME NEW p \in Procs,
               Confirm(p) \/ Cancel(p) \/ RecordAck(p) \/ RecordRejection(p)
        PROVE  SummaryTruthful'
    <3>1. cur[p] \in Keys
      BY <1>2, <2>3 DEF Inv, Typed, InHand, Claiming, Confirm, Cancel, RecordAck,
         RecordRejection
    <3>2. QED
      BY <1>2, <2>1, <2>3, <3>1, CountedSummary
         DEF Confirm, Cancel, RecordAck, RecordRejection, Record
  <2>4. ASSUME NEW p \in Procs, CallStep(p)
        PROVE  SummaryTruthful'
    BY <2>1, <2>2, <2>3, <2>4
       DEF CallStep, RunStep, ReconcileStep, SharedStep, MarkRunning, FetchPending,
       Reserve, FetchApplyingStale, CheckApplied, CountUnfinished, TargetAccepts,
       TargetRejects, CountOutcomes, SetOutcome, Publish
  <2>5. QED
    BY <1>2, <2>1, <2>2, <2>4
       DEF Next, vars, callVars, StartRun, StartReconcile, Crash, ClaimAges,
       RetryFailed, SetDeleted
<1>3. QED
  BY <1>1, <1>2, ClaimInvariant, PTL DEF Spec

\* The mark of an item in hand takes its row to what the counter says.
LEMMA CountedWrite ==
  ASSUME Inv, TypeOK, NEW p \in Procs, NEW b, cur[p] \in Keys, PutDown(p, b),
         \/ mark_applied(cur[p], ack[p]) /\ b \in {"succeeded", "reapplied", "confirmed"}
         \/ mark_failed(cur[p]) /\ b \in {"failed", "reapplied"}
         \/ mark_cancelled(cur[p]) /\ b = "cancelled"
  PROVE  CountedStep
<1>1. status[cur[p]] = "applying"
  BY HandIsApplying
<1>2. status'[cur[p]] \in Counted(b)
  BY <1>1 DEF Inv, Typed, mark_applied, mark_failed, mark_cancelled, CloseRow, Counted
<1>3. /\ bucket'[p][cur[p]] = b
      /\ \A q \in Procs, k \in Keys :
           q # p \/ k # cur[p] => bucket'[q][k] = bucket[q][k]
  BY DEF Inv, Typed, PutDown
<1>4. QED
  BY <1>1, <1>2, <1>3 DEF CountedStep

\* With a sound fence no counter of any call is ever raised for an item that
\* the same step does not take to the outcome counted.
THEOREM CountsAreWrites ==
  ASSUME SoundFence
  PROVE  Spec => CountsWhatItWrites
<1>1. ASSUME Inv, TypeOK, [Next]_vars
      PROVE  CountedStep
  <2>1. ASSUME \A q \in Procs, k \in Keys : bucket'[q][k] \in {bucket[q][k], "none"}
        PROVE  CountedStep
    BY <2>1 DEF CountedStep
  <2>2. ASSUME NEW p \in Procs, Forget(p)
        PROVE  CountedStep
    BY <1>1, <2>1, <2>2 DEF Forget, Inv, Typed
  <2>3. CASE UNCHANGED bucket
    BY <2>1, <2>3
  <2>4. ASSUME NEW p \in Procs,
               Confirm(p) \/ Cancel(p) \/ RecordAck(p) \/ RecordRejection(p)
        PROVE  CountedStep
    <3>1. cur[p] \in Keys
      BY <1>1, <2>4 DEF Inv, Typed, InHand, Claiming, Confirm, Cancel, RecordAck,
         RecordRejection
    <3>2. QED
      BY <1>1, <2>2, <2>4, <3>1, CountedWrite
         DEF Confirm, Cancel, RecordAck, RecordRejection, Record
  <2>5. ASSUME NEW p \in Procs, CallStep(p)
        PROVE  CountedStep
    BY <2>2, <2>3, <2>4, <2>5
       DEF CallStep, RunStep, ReconcileStep, SharedStep, MarkRunning, FetchPending,
       Reserve, FetchApplyingStale, CheckApplied, CountUnfinished, TargetAccepts,
       TargetRejects, CountOutcomes, SetOutcome, Publish
  <2>6. QED
    BY <1>1, <2>2, <2>3, <2>5
       DEF Next, vars, callVars, StartRun, StartReconcile, Crash, ClaimAges,
       RetryFailed, SetDeleted
<1>2. QED
  BY <1>1, ClaimInvariant, PTL DEF Spec, CountsWhatItWrites, CountedStep

-----------------------------------------------------------------------------
\* The refinement of ItemLedger.

\* A step that changes neither a status nor an effect is invisible there.
LEMMA HiddenStep ==
  ASSUME UNCHANGED <<status, effects>>
  PROVE  [Ledger!Next]_(Ledger!vars)
BY DEF Ledger!vars

\* Recording an outcome closes the item in the abstract ledger, or is hidden.
LEMMA RecordRefines ==
  ASSUME Inv, NEW p \in Procs, NEW b, cur[p] \in Keys,
         \/ effects[cur[p]] = 1 /\ Record(p, mark_applied(cur[p], ack[p]), b)
         \/ effects[cur[p]] = 0 /\ Record(p, mark_failed(cur[p]), b)
         \/ Record(p, mark_cancelled(cur[p]), b)
  PROVE  [Ledger!Next]_(Ledger!vars)
<1>1. CASE UNCHANGED status
  BY <1>1, HiddenStep DEF Record
<1>2. CASE status[cur[p]] = "applying"
  <2>1. CASE /\ effects[cur[p]] = 1
             /\ status' = [status EXCEPT ![cur[p]] = "applied"]
    <3>1. Ledger!Confirm(cur[p])
      BY <1>2, <2>1 DEF Record, Ledger!Confirm, Ledger!Move
    <3>2. QED
      BY <3>1 DEF Ledger!Next
  <2>2. CASE /\ effects[cur[p]] = 0
             /\ status' = [status EXCEPT ![cur[p]] = "failed"]
    <3>1. Ledger!Reject(cur[p])
      BY <1>2, <2>2 DEF Record, Ledger!Reject, Ledger!Move
    <3>2. QED
      BY <3>1 DEF Ledger!Next
  <2>3. CASE status' = [status EXCEPT ![cur[p]] = "cancelled"]
    <3>1. Ledger!Cancel(cur[p])
      BY <1>2, <2>3 DEF Record, Ledger!Cancel, Ledger!Move
    <3>2. QED
      BY <3>1 DEF Ledger!Next
  <2>4. QED
    BY <1>1, <2>1, <2>2, <2>3
       DEF Record, mark_applied, mark_failed, mark_cancelled, CloseRow, rowVars
<1>3. QED
  BY <1>1, <1>2 DEF Record, mark_applied, mark_failed, mark_cancelled, rowVars

\* Each step of a call is a move of the abstract ledger or none.
LEMMA CallStepRefines ==
  ASSUME Inv, TypeOK, NEW p \in Procs, CallStep(p)
  PROVE  [Ledger!Next]_(Ledger!vars)
<1>1. ASSUME NEW k \in Keys, Reserve(p, k)
      PROVE  [Ledger!Next]_(Ledger!vars)
  <2>1. CASE status[k] = "pending"
    <3>1. Ledger!Claim(k)
      BY <1>1, <2>1 DEF Reserve, Ledger!Claim, Ledger!Move
    <3>2. QED
      BY <3>1 DEF Ledger!Next
  <2>2. CASE status[k] # "pending"
    BY <1>1, <2>2, HiddenStep DEF Reserve
  <2>3. QED
    BY <2>1, <2>2
<1>2. CASE TargetAccepts(p)
  <2>1. cur[p] \in Keys /\ effects[cur[p]] = 0
    BY <1>2 DEF Inv, ClaimInv, TargetAccepts, Typed, InHand, Claiming, EffectFits
  <2>2. Ledger!Land(cur[p])
    BY <1>2, <2>1, HandIsApplying DEF TargetAccepts, Ledger!Land, rowVars
  <2>3. QED
    BY <2>1, <2>2 DEF Ledger!Next
<1>3. CASE Confirm(p) \/ Cancel(p) \/ RecordAck(p) \/ RecordRejection(p)
  <2>1. cur[p] \in Keys
    BY <1>3 DEF Inv, Typed, InHand, Claiming, Confirm, Cancel, RecordAck,
       RecordRejection
  <2>2. /\ pc[p] \in {"mark_applied", "confirm"} => effects[cur[p]] = 1
        /\ pc[p] = "mark_failed" => effects[cur[p]] = 0
    BY DEF Inv, ClaimInv, EffectFits
  <2>3. QED
    BY <1>3, <2>1, <2>2, RecordRefines DEF Confirm, Cancel, RecordAck, RecordRejection
<1>4. CASE \/ MarkRunning(p) \/ FetchPending(p) \/ FetchApplyingStale(p)
           \/ \E k \in Keys : CheckApplied(p, k)
           \/ CountUnfinished(p) \/ TargetRejects(p)
           \/ CountOutcomes(p) \/ SetOutcome(p) \/ Publish(p)
  BY <1>4, HiddenStep
     DEF MarkRunning, FetchPending, FetchApplyingStale, CheckApplied, CountUnfinished,
     TargetRejects, CountOutcomes, SetOutcome, Publish, rowVars
<1>5. QED
  BY <1>1, <1>2, <1>3, <1>4 DEF CallStep, RunStep, ReconcileStep, SharedStep

\* With a sound fence the engine - statements, processes, crashes and all -
\* implements the abstract ledger: claim, one effect, a truthful outcome.
THEOREM EngineImplementsLedger ==
  ASSUME SoundFence
  PROVE  Spec => LedgerSpec
<1>1. Init => Ledger!Init
  BY DEF Init, Ledger!Init
<1>2. ASSUME Inv, TypeOK, [Next]_vars
      PROVE  [Ledger!Next]_(Ledger!vars)
  <2>1. CASE RetryFailed
    <3>1. Ledger!Requeue
      BY <2>1 DEF RetryFailed, InStatus, Ledger!Requeue
    <3>2. QED
      BY <3>1 DEF Ledger!Next
  <2>2. CASE \/ \E p \in Runners : StartRun(p)
             \/ \E p \in Reconcilers : StartReconcile(p)
             \/ \E p \in Procs : Crash(p)
             \/ \E k \in Keys : ClaimAges(k)
             \/ SetDeleted("delete", TRUE) \/ SetDeleted("restore", FALSE)
             \/ UNCHANGED vars
    BY <2>2, HiddenStep
       DEF StartRun, StartReconcile, Crash, ClaimAges, SetDeleted, vars, rowVars
  <2>3. QED
    BY <1>2, <2>1, <2>2, CallStepRefines DEF Next
<1>3. QED
  BY <1>1, <1>2, ClaimInvariant, PTL DEF Spec, LedgerSpec, Ledger!Spec
=============================================================================

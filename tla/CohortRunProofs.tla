--------------------------- MODULE CohortRunProofs ---------------------------
(***************************************************************************)
(* Theorems about every launch, for any plan, any worker pool, any bound   *)
(* on contributions and any combination of faults.                         *)
(***************************************************************************)
EXTENDS CohortRunInvariant, FunctionTheorems, FiniteSetTheorems,
        WellFoundedInduction, TLAPS

(* Observing an event and a lost stop leaves two booleans.                 *)
LEMMA ObserveTyped ==
  ASSUME FlagsTyped, NEW e, NEW lost \in BOOLEAN, Observe(e, lost)
  PROVE  FlagsTyped'
BY DEF FlagsTyped, Observe

(* event_for answers with a known event or none.                           *)
LEMMA EventTyped ==
  ASSUME GuardTyped, NEW s \in Sessions
  PROVE  EventFor(s) \in Events \cup {"none"}
BY DEF GuardTyped, EventFor, Events

(* _resource_status and its reason give a receipt status and a reason.     *)
LEMMA StatusTyped ==
  /\ \A e, p : ResourceStatus(e, p) \in Statuses
  /\ \A e : ReasonFor(e) \in {"uncertain", "other"}
BY DEF ResourceStatus, Statuses, ReasonFor

(* What a branch of run_one hands to _persist is a verdict.                *)
LEMMA VerdictTyped ==
  ASSUME NEW st \in Statuses, NEW p \in Proofs, NEW b \in BOOLEAN,
         NEW o \in {"none", "success", "failure"}, NEW k \in Nat,
         NEW r \in {"uncertain", "other"}
  PROVE  Verdict(st, p, b, o, k, r) \in Verdicts
BY DEF Verdict, Verdicts

(* So is the verdict of a session that never started.                      *)
LEMMA NotStartedTyped ==
  ASSUME NEW st \in Statuses, NEW r \in {"uncertain", "other"}
  PROVE  NotStarted(st, r) \in Verdicts
BY VerdictTyped DEF NotStarted, Proofs

(* The guard's late rewriting of a verdict gives a verdict.                *)
LEMMA RewrittenTyped ==
  ASSUME NEW p \in Verdicts, NEW e PROVE Rewritten(p, e) \in Verdicts
BY DEF Rewritten, Verdicts, Statuses

(* The part of a built receipt that reaches the disk is a receipt.         *)
LEMMA DurableTyped ==
  ASSUME LocalsTyped, PublishTyped, NEW s \in Sessions, NEW p \in Verdicts
  PROVE  Durable(ReceiptOf(s, p)) \in Receipts
BY DEF LocalsTyped, PublishTyped, Durable, ReceiptOf, Receipts, Verdicts

(* A verdict is never mistaken for its absence.                            *)
LEMMA VerdictIsSome == \A p \in Verdicts : p # NoVerdict
BY DEF Verdicts, NoVerdict, Statuses

(* A session at an await, and a session that was handed to _persist.       *)
LEMMA MoveTyped ==
  ASSUME PointTyped, NEW s \in Sessions, NEW point \in PCs \ {"persisting"},
         pc' = [pc EXCEPT ![s] = point], pend' = pend, live' \subseteq Sessions
  PROVE  PointTyped'
BY DEF PointTyped

(* Handing a verdict to _persist keeps the program points typed.           *)
LEMMA PersistingTyped ==
  ASSUME PointTyped, NEW s \in Sessions, NEW p \in Verdicts, Persisting(s, p),
         live' \subseteq Sessions
  PROVE  PointTyped'
BY VerdictIsSome DEF PointTyped, Persisting, PCs

(* So does classifying a start that gave no handle.                        *)
LEMMA NoHandleTyped ==
  ASSUME FlagsTyped, PointTyped, NEW s \in Sessions,
         NEW proof \in PossibleProofs, NoHandle(s, proof)
  PROVE  /\ FlagsTyped' /\ PointTyped'
         /\ UNCHANGED <<handler, started, why, ev>>
<1>1. proof \in Proofs
  BY DEF PossibleProofs, Proofs
<1>2. FlagsTyped'
  BY ObserveTyped DEF NoHandle
<1>3. live' \subseteq Sessions
  BY DEF NoHandle, PointTyped
<1>4. \E p \in Verdicts : Persisting(s, p)
  BY <1>1, VerdictTyped, StatusTyped DEF NoHandle, Statuses
<1> QED BY <1>2, <1>3, <1>4, PersistingTyped DEF NoHandle

(* A session waiting in _persist has a verdict to persist.                 *)
LEMMA PendingTyped ==
  ASSUME PointTyped, NEW s \in Sessions, pc[s] = "persisting"
  PROVE  pend[s] \in Verdicts
BY DEF PointTyped

(* Writing a receipt, with any failure, keeps flags and ledger typed.      *)
LEMMA WriteReceiptTyped ==
  ASSUME FlagsTyped, LedgerTyped, LocalsTyped, PublishTyped,
         NEW s \in Sessions, NEW p \in Verdicts, NEW e,
         WriteReceipt(s, ReceiptOf(s, p), e), UNCHANGED settlement
  PROVE  /\ FlagsTyped'
         /\ swept' \in 0..N => LedgerTyped'
<1> DEFINE r == ReceiptOf(s, p)
<1>1. Durable(r) \in Receipts
  BY DurableTyped
<1> HIDE DEF r
<1>2. WriteReceipt(s, r, e)
  BY DEF r
<1>3. receipt' \in [Sessions -> Receipts \cup {NoReceipt}]
  BY <1>1, <1>2 DEF WriteReceipt, LedgerTyped
<1>4. FlagsTyped'
  BY <1>2 DEF WriteReceipt, FlagsTyped
<1>5. indexed' \subseteq Sessions /\ storeFailed' \in BOOLEAN /\ impaired' \in BOOLEAN
  BY <1>2 DEF WriteReceipt, LedgerTyped
<1> QED BY <1>3, <1>4, <1>5 DEF LedgerTyped

(* run_one returning keeps the session variables typed.                    *)
LEMMA RunOneReturnsTyped ==
  ASSUME LocalsTyped, PublishTyped, PointTyped, NEW s \in Sessions,
         RunOneReturns(s), UNCHANGED <<started, rejected, admitted, live>>
  PROVE  LocalsTyped' /\ PublishTyped' /\ PointTyped'
<1>1. LocalsTyped'
  BY DEF LocalsTyped, RunOneReturns, Whys
<1>2. PublishTyped'
  BY DEF PublishTyped, RunOneReturns
<1>3. PointTyped'
  BY DEF PointTyped, RunOneReturns, PCs
<1> QED BY <1>1, <1>2, <1>3

(* The state in which guard.start is awaited is well typed.                *)
LEMMA InitTyped ==
  ASSUME Init PROVE TypeOK
<1>1. FlagsTyped /\ OwnTyped
  BY DEF Init, FlagsTyped, OwnTyped
<1>2. cursor \in 0..N /\ swept \in 0..N
  BY PlanAssumption DEF Init
<1>3. PoolTyped
  BY <1>2 DEF Init, PoolTyped
<1>4. LocalsTyped /\ PublishTyped
  BY DEF Init, LocalsTyped, PublishTyped, Whys
<1>5. GuardTyped
  BY DEF Init, GuardTyped
<1>6. LedgerTyped
  BY <1>2 DEF Init, LedgerTyped
<1>7. PointTyped
  BY DEF Init, PointTyped, PCs
<1> QED BY <1>1, <1>3, <1>4, <1>5, <1>6, <1>7 DEF TypeOK

-----------------------------------------------------------------------------
(* Type correctness: every reachable state of a launch is well typed, and  *)
(* a session waiting in _persist always carries the verdict to persist.    *)
THEOREM TypeCorrect == Spec => []TypeOK
<1>1. Init => TypeOK
  BY InitTyped
<1>2. TypeOK /\ [Next]_vars => TypeOK'
  <2> SUFFICES ASSUME TypeOK, [Next]_vars PROVE TypeOK'
    OBVIOUS
  <2> USE DEF TypeOK
  <2>same1. UNCHANGED flagVars => FlagsTyped'
    BY DEF FlagsTyped, flagVars
  <2>same2. UNCHANGED poolVars => PoolTyped'
    BY DEF PoolTyped, poolVars
  <2>same3. UNCHANGED ownVars => OwnTyped'
    BY DEF OwnTyped, ownVars
  <2>same4. UNCHANGED localVars => LocalsTyped'
    BY DEF LocalsTyped, localVars
  <2>same5. UNCHANGED publishVars => PublishTyped'
    BY DEF PublishTyped, publishVars
  <2>same6. UNCHANGED guardVars => GuardTyped'
    BY DEF GuardTyped, guardVars
  <2>same7. UNCHANGED ledgerVars => LedgerTyped'
    BY DEF LedgerTyped, ledgerVars
  <2>same8. UNCHANGED <<pc, pend, live>> => PointTyped'
    BY DEF PointTyped
  <2>same. /\ UNCHANGED flagVars => FlagsTyped'
           /\ UNCHANGED poolVars => PoolTyped'
           /\ UNCHANGED ownVars => OwnTyped'
           /\ UNCHANGED localVars => LocalsTyped'
           /\ UNCHANGED publishVars => PublishTyped'
           /\ UNCHANGED guardVars => GuardTyped'
           /\ UNCHANGED ledgerVars => LedgerTyped'
           /\ UNCHANGED <<pc, pend, live>> => PointTyped'
    BY <2>same1, <2>same2, <2>same3, <2>same4, <2>same5, <2>same6, <2>same7,
       <2>same8
  <2>1. ASSUME NEW e \in {"none", "disk", "uncertain"}, GuardStarts(e)
        PROVE  TypeOK'
    <3>1. FlagsTyped'
      BY <2>1, ObserveTyped DEF GuardStarts
    <3>2. PoolTyped' /\ OwnTyped' /\ GuardTyped'
      BY <2>1, <2>same DEF GuardStarts, PoolTyped, poolVars, GuardTyped
    <3>3. LocalsTyped' /\ PublishTyped' /\ LedgerTyped' /\ PointTyped'
      BY <2>1, <2>same DEF GuardStarts
    <3> QED BY <3>1, <3>2, <3>3
  <2>2. ASSUME NEW w \in Workers, Take(w) PROVE TypeOK'
    <3> DEFINE s == cursor + 1
               p == Verdict("FAILED", "none", FALSE, "none", 0, "other")
    <3>1. s \in Sessions /\ s \in 0..N
      BY <2>2, PlanAssumption DEF Take, HasNext, PoolTyped, Sessions
    <3>2. PoolTyped' /\ OwnTyped' /\ LocalsTyped'
      BY <2>2, <3>1 DEF Take, PoolTyped, OwnTyped, LocalsTyped
    <3>3. PointTyped'
      <4>1. p \in Verdicts
        BY VerdictTyped DEF Statuses, Proofs
      <4> HIDE DEF p
      <4>2. live' \subseteq Sessions
        BY <2>2 DEF Take, PointTyped
      <4>3. \/ pc' = [pc EXCEPT ![s] = "activating"] /\ pend' = pend
            \/ Persisting(s, p)
        BY <2>2 DEF Take, Persisting, p
      <4> HIDE DEF s
      <4> QED BY <3>1, <4>1, <4>2, <4>3, MoveTyped, PersistingTyped DEF PCs
    <3>4. FlagsTyped' /\ PublishTyped' /\ GuardTyped' /\ LedgerTyped'
      BY <2>2, <2>same DEF Take
    <3> QED BY <3>2, <3>3, <3>4
  <2>3. ASSUME NEW w \in Workers, WorkerExits(w) PROVE TypeOK'
    <3>1. PoolTyped'
      BY <2>3 DEF WorkerExits, PoolTyped
    <3> QED BY <2>3, <3>1, <2>same DEF WorkerExits
  <2>4. ASSUME NEW s \in Sessions, Activated(s) PROVE TypeOK'
    <3>1. FlagsTyped'
      BY <2>4, ObserveTyped DEF Activated
    <3>2. OwnTyped' /\ LocalsTyped'
      BY <2>4 DEF Activated, OwnTyped, LocalsTyped
    <3>3. PointTyped'
      <4>1. live' \subseteq Sessions
        BY <2>4 DEF Activated, PointTyped
      <4>2. \/ pc' = [pc EXCEPT ![s] = "starting"] /\ pend' = pend
            \/ \E p \in Verdicts : Persisting(s, p)
        BY <2>4, NotStartedTyped, VerdictTyped, StatusTyped
           DEF Activated, Statuses, Proofs
      <4> QED BY <4>1, <4>2, MoveTyped, PersistingTyped DEF PCs
    <3>4. PoolTyped' /\ PublishTyped' /\ GuardTyped' /\ LedgerTyped'
      BY <2>4, <2>same DEF Activated
    <3> QED BY <3>1, <3>2, <3>3, <3>4
  <2>5. ASSUME NEW s \in Sessions, StartReturns(s) PROVE TypeOK'
    <3>1. CASE HandlePublished(s)
      <4>1. LocalsTyped'
        BY <2>5, <3>1, EventTyped
           DEF StartReturns, HandlePublished, LocalsTyped, Whys
      <4>2. PointTyped'
        BY <3>1, MoveTyped DEF HandlePublished, PCs, PointTyped
      <4> QED BY <2>5, <3>1, <4>1, <4>2, <2>same
              DEF StartReturns, HandlePublished
    <3>2. CASE \E proof \in PossibleProofs : NoHandle(s, proof)
      <4>1. FlagsTyped' /\ PointTyped' /\ UNCHANGED <<handler, started, why, ev>>
        BY <3>2, NoHandleTyped
      <4> QED BY <2>5, <4>1, <2>same DEF StartReturns, localVars
    <3>3. CASE /\ pc' = [pc EXCEPT ![s] = "aborting"]
               /\ UNCHANGED <<flagVars, live, pend, handler, started, why, ev>>
      <4>1. PointTyped'
        BY <3>3, MoveTyped DEF PCs, PointTyped
      <4> QED BY <2>5, <3>3, <4>1, <2>same DEF StartReturns, localVars
    <3> QED BY <2>5, <3>1, <3>2, <3>3 DEF StartReturns
  <2>6. ASSUME NEW s \in Sessions, StartCancelled(s) PROVE TypeOK'
    <3>1. FlagsTyped'
      BY <2>6, ObserveTyped DEF StartCancelled
    <3>2. PointTyped'
      BY <2>6, MoveTyped DEF StartCancelled, PCs, PointTyped
    <3> QED BY <2>6, <3>1, <3>2, <2>same DEF StartCancelled
  <2>7. ASSUME NEW s \in Sessions, AbortJoined(s) PROVE TypeOK'
    <3>1. FlagsTyped' /\ PointTyped' /\ UNCHANGED <<handler, started, why, ev>>
      BY <2>7, NoHandleTyped DEF AbortJoined
    <3> QED BY <2>7, <3>1, <2>same DEF AbortJoined, localVars
  <2>8. ASSUME NEW s \in Sessions, WaitCompletes(s) PROVE TypeOK'
    <3>1. LocalsTyped'
      BY <2>8, PlanAssumption DEF WaitCompletes, LocalsTyped, Whys
    <3>2. PointTyped'
      BY <2>8, MoveTyped DEF WaitCompletes, PCs, PointTyped
    <3> QED BY <2>8, <3>1, <3>2, <2>same DEF WaitCompletes
  <2>9. ASSUME NEW s \in Sessions, Interrupted(s) PROVE TypeOK'
    <3>1. FlagsTyped'
      BY <2>9, ObserveTyped, <2>same DEF Interrupted
    <3>2. LocalsTyped'
      BY <2>9, EventTyped DEF Interrupted, LocalsTyped, Whys, Signals
    <3>3. PointTyped'
      BY <2>9, MoveTyped DEF Interrupted, PCs, PointTyped
    <3> QED BY <2>9, <3>1, <3>2, <3>3, <2>same DEF Interrupted
  <2>10. ASSUME NEW s \in Sessions, StopReturns(s) PROVE TypeOK'
    <3> PICK proof \in PossibleProofs \ {"none"} :
          LET seen == IF why[s] = "early" THEN ev[s] ELSE "none"
              status == StoppedStatus(why[s], ev[s], proof)
              evidence == IF why[s] \in {"resource", "wall", "cohort"}
                             /\ proof = "proven"
                          THEN {"none", "success", "failure"}
                          ELSE IF why[s] = "confirm" THEN {outcome[s]} ELSE {"none"}
          IN /\ Observe(seen, proof = "unproven")
             /\ live' = IF proof = "proven" THEN live \ {s} ELSE live
             /\ IF why[s] = "confirm" /\ proof = "proven"
                  THEN /\ pc' = [pc EXCEPT ![s] = "finishing"]
                       /\ UNCHANGED pend
                  ELSE \E o \in evidence :
                         Persisting(s, Verdict(status, proof, TRUE, o, 0,
                                               ReasonFor(ev[s])))
      BY <2>10 DEF StopReturns
    <3>1. proof \in {"proven", "unproven"}
      BY DEF PossibleProofs, Proofs
    <3>2. FlagsTyped'
      BY ObserveTyped
    <3>3. live' \subseteq Sessions
      BY DEF PointTyped
    <3>4. StoppedStatus(why[s], ev[s], proof) \in Statuses
      BY <3>1, StatusTyped DEF StoppedStatus, Statuses
    <3>5. outcome[s] \in {"none", "success", "failure"}
      BY DEF LocalsTyped
    <3>6. \/ pc' = [pc EXCEPT ![s] = "finishing"] /\ pend' = pend
          \/ \E p \in Verdicts : Persisting(s, p)
      BY <3>1, <3>4, <3>5, VerdictTyped, StatusTyped DEF Proofs
    <3>7. PointTyped'
      BY <3>3, <3>6, MoveTyped, PersistingTyped DEF PCs
    <3> QED BY <2>10, <3>2, <3>7, <2>same DEF StopReturns
  <2>11. ASSUME NEW s \in Sessions, Measured(s) PROVE TypeOK'
    <3>1. FlagsTyped'
      BY <2>11, ObserveTyped DEF Measured
    <3>2. GuardTyped'
      BY <2>11 DEF Measured, GuardTyped
    <3>3. PointTyped'
      <4>1. outcome[s] \in {"none", "success", "failure"}
        BY DEF LocalsTyped
      <4>2. \/ pc' = [pc EXCEPT ![s] = "publishing"] /\ pend' = pend
            \/ \E p \in Verdicts : Persisting(s, p)
        BY <2>11, <4>1, VerdictTyped, StatusTyped DEF Measured, Statuses, Proofs
      <4>3. live' \subseteq Sessions
        BY <2>11 DEF Measured, PointTyped
      <4> QED BY <4>2, <4>3, MoveTyped, PersistingTyped DEF PCs
    <3> QED BY <2>11, <3>1, <3>2, <3>3, <2>same DEF Measured
  <2>12. ASSUME NEW s \in Sessions, PublishOne(s) PROVE TypeOK'
    <3>1. PublishTyped'
      BY <2>12 DEF PublishOne, PublishTyped, publishVars
    <3>2. PointTyped'
      <4>1. /\ \A k \in Nat : PublishFails(s, k) =>
                 \E p \in Verdicts : Persisting(s, p)
            /\ \A h : \A k \in Nat : PublishGoesOn(s, h, k) =>
                 \/ UNCHANGED <<pc, pend>>
                 \/ \E p \in Verdicts : Persisting(s, p)
        BY VerdictTyped DEF PublishFails, PublishGoesOn, Statuses, Proofs
      <4>2. \/ UNCHANGED <<pc, pend>>
            \/ \E p \in Verdicts : Persisting(s, p)
        <5>1. pubs[s] \in Nat /\ pubs[s] + 1 \in Nat
          BY DEF PublishTyped
        <5> QED BY <2>12, <4>1, <5>1 DEF PublishOne
      <4>3. live' = live
        BY <2>12 DEF PublishOne
      <4> QED BY <4>2, <4>3, <2>same, PersistingTyped DEF PointTyped
    <3> QED BY <2>12, <3>1, <3>2, <2>same DEF PublishOne
  <2>13. ASSUME NEW s \in Sessions, Persist(s) PROVE TypeOK'
    <3>1. Rewritten(pend[s], EventFor(s)) \in Verdicts
      BY <2>13, PendingTyped, RewrittenTyped DEF Persist
    <3>2. FlagsTyped' /\ LedgerTyped'
      <4>1. swept' \in 0..N
        BY <2>13 DEF Persist, LedgerTyped
      <4> QED BY <2>13, <3>1, <4>1, WriteReceiptTyped DEF Persist
    <3>3. LocalsTyped' /\ PublishTyped' /\ PointTyped'
      BY <2>13, RunOneReturnsTyped DEF Persist
    <3>4. GuardTyped'
      BY <2>13 DEF Persist, GuardTyped
    <3> QED BY <2>13, <3>2, <3>3, <3>4, <2>same DEF Persist
  <2>14. ASSUME NEW s \in Sessions, PersistRaises(s) PROVE TypeOK'
    <3>1. FlagsTyped'
      BY <2>14, ObserveTyped DEF PersistRaises
    <3>2. GuardTyped' /\ PoolTyped'
      BY <2>14 DEF PersistRaises, GuardTyped, PoolTyped
    <3>3. LedgerTyped'
      BY <2>14 DEF PersistRaises, LedgerTyped
    <3>4. CASE s \in handler
      <4>1. RunOneReturns(s) /\ UNCHANGED <<started, rejected, admitted, live>>
        BY <2>14, <3>4 DEF PersistRaises
      <4>2. LocalsTyped' /\ PublishTyped' /\ PointTyped'
        BY <4>1, RunOneReturnsTyped
      <4> QED BY <2>14, <3>1, <3>2, <3>3, <4>2, <2>same DEF PersistRaises
    <3>5. CASE s \notin handler
      <4>1. LocalsTyped' /\ PublishTyped'
        BY <2>14, <3>5 DEF PersistRaises, LocalsTyped, PublishTyped, Whys
      <4>2. \/ /\ pc' = [pc EXCEPT ![s] = "stopping"]
               /\ pend' = [pend EXCEPT ![s] = NoVerdict]
            \/ \E p \in Verdicts : Persisting(s, p)
        BY <2>14, <3>5, VerdictTyped DEF PersistRaises, Statuses, Proofs
      <4>3. live' \subseteq Sessions
        BY <2>14 DEF PersistRaises, PointTyped
      <4>4. PointTyped'
        BY <4>2, <4>3, PersistingTyped DEF PointTyped, PCs
      <4> QED BY <2>14, <3>1, <3>2, <3>3, <4>1, <4>4, <2>same DEF PersistRaises
    <3> QED BY <3>4, <3>5
  <2>15. CASE BeginSettlement
    <3>1. FlagsTyped'
      BY <2>15, ObserveTyped DEF BeginSettlement
    <3>2. PoolTyped'
      BY <2>15 DEF BeginSettlement, PoolTyped
    <3> QED BY <2>15, <3>1, <3>2, <2>same DEF BeginSettlement
  <2>16. ASSUME NEW s \in Sessions, SettleMissing(s) PROVE TypeOK'
    <3>1. Rewritten(NotStarted("CANCELLED", "other"), EventFor(s)) \in Verdicts
      BY NotStartedTyped, RewrittenTyped DEF Statuses
    <3>2. swept' \in 0..N
      BY <2>16, PlanAssumption DEF SettleMissing, Sessions
    <3>3. FlagsTyped' /\ LedgerTyped'
      BY <2>16, <3>1, <3>2, WriteReceiptTyped DEF SettleMissing
    <3>4. GuardTyped'
      BY <2>16 DEF SettleMissing, GuardTyped
    <3> QED BY <2>16, <3>3, <3>4, <2>same DEF SettleMissing
  <2>17. ASSUME NEW s \in Sessions, SettleMissingRaises(s) PROVE TypeOK'
    <3>1. FlagsTyped'
      BY <2>17, ObserveTyped DEF SettleMissingRaises
    <3>2. PoolTyped' /\ GuardTyped'
      BY <2>17 DEF SettleMissingRaises, PoolTyped, GuardTyped
    <3>3. LedgerTyped'
      BY <2>17 DEF SettleMissingRaises, LedgerTyped
    <3> QED BY <2>17, <3>1, <3>2, <3>3, <2>same DEF SettleMissingRaises
  <2>18. CASE Settle
    <3>1. StoreOutcome \in {"UNSAFE", "CANCELLED", "COMPLETED_WITH_FAILURES",
                            "SUCCEEDED"}
      BY DEF StoreOutcome
    <3>2. LedgerTyped'
      BY <2>18, <3>1 DEF Settle, LedgerTyped
    <3>3. PoolTyped'
      BY <2>18 DEF Settle, PoolTyped
    <3> QED BY <2>18, <3>2, <3>3, <2>same DEF Settle
  <2>19. CASE CallerCancels
    <3>1. FlagsTyped'
      BY <2>19 DEF CallerCancels, FlagsTyped
    <3> QED BY <2>19, <3>1, <2>same DEF CallerCancels
  <2>20. CASE DiskCheck
    <3>1. GuardTyped'
      BY <2>20 DEF DiskCheck, GuardTyped
    <3> QED BY <2>20, <3>1, <2>same DEF DiskCheck
  <2>21. ASSUME NEW s \in Sessions, TreeScan(s) PROVE TypeOK'
    <3>1. GuardTyped'
      BY <2>21 DEF TreeScan, GuardTyped
    <3> QED BY <2>21, <3>1, <2>same DEF TreeScan
  <2>22. CASE UNCHANGED vars
    BY <2>22, <2>same DEF vars
  <2> QED
    BY <2>1, <2>2, <2>3, <2>4, <2>5, <2>6, <2>7, <2>8, <2>9, <2>10, <2>11,
       <2>12, <2>13, <2>14, <2>15, <2>16, <2>17, <2>18, <2>19, <2>20, <2>21,
       <2>22
       DEF Next, SessionStep, SettlementStep, EnvironmentStep, Started, Persisted
<1> QED BY <1>1, <1>2, PTL DEF Spec

-----------------------------------------------------------------------------
(* The safety theorems of one launch, from the inductive invariant IInv.   *)

(* The types the steps below need, in one place.                           *)
LEMMA Shape ==
  ASSUME TypeOK
  PROVE  /\ pc \in [Sessions -> PCs] /\ live \subseteq Sessions
         /\ runner \in [Sessions -> Workers \cup {NoWorker}]
         /\ wstate \in [Workers -> {"working", "exited", "failed"}]
         /\ pend \in [Sessions -> Verdicts \cup {NoVerdict}]
         /\ ev \in [Sessions -> Events \cup {"none"}]
         /\ why \in [Sessions -> Whys]
         /\ receipt \in [Sessions -> Receipts \cup {NoReceipt}]
         /\ stopNew \in BOOLEAN /\ unsafe \in BOOLEAN
         /\ cursor \in 0..N /\ launched \subseteq Sessions
BY DEF TypeOK, FlagsTyped, PoolTyped, OwnTyped, LocalsTyped, LedgerTyped,
       PointTyped

(* What a worker takes is the head of the queue. *)
Taken(w, s) ==
  /\ pc[s] = "queued" /\ cursor' = s
  /\ \A t \in Sessions : t > s => t > cursor /\ t # s
  /\ runner' = [runner EXCEPT ![s] = w]
  /\ \/ pc' = [pc EXCEPT ![s] = "activating"] /\ UNCHANGED <<pend, handler>>
     \/ /\ pc' = [pc EXCEPT ![s] = "persisting"]
        /\ pend' = [pend EXCEPT ![s] =
                      Verdict("FAILED", "none", FALSE, "none", 0, "other")]
        /\ handler' = handler \cup {s}
  /\ UNCHANGED <<launched, live, started, ev, why, receipt, stopNew, unsafe>>

(* Take(w) takes the head of the queue.                                    *)
LEMMA TakeEffect ==
  ASSUME TypeOK, PoolInv, NEW w \in Workers, Take(w)
  PROVE  \E s \in Sessions : Taken(w, s)
<1> DEFINE s == cursor + 1
<1>1. s \in Sessions /\ s > cursor
  BY Shape, PlanAssumption DEF Take, HasNext, Sessions
<1>2. pc[s] = "queued"
  BY <1>1 DEF PoolInv
<1>3. \A t \in Sessions : t > s => t > cursor /\ t # s
  BY Shape, PlanAssumption DEF Sessions
<1>4. /\ cursor' = s /\ runner' = [runner EXCEPT ![s] = w]
      /\ \/ pc' = [pc EXCEPT ![s] = "activating"] /\ UNCHANGED <<pend, handler>>
         \/ /\ pc' = [pc EXCEPT ![s] = "persisting"]
            /\ pend' = [pend EXCEPT ![s] =
                          Verdict("FAILED", "none", FALSE, "none", 0, "other")]
            /\ handler' = handler \cup {s}
      /\ UNCHANGED <<launched, live, started, ev, why, receipt, stopNew, unsafe>>
  BY DEF Take, Persisting, localVars, flagVars, ledgerVars
<1> HIDE DEF s
<1> QED BY <1>1, <1>2, <1>3, <1>4 DEF Taken

(* Observing an event or a lost backend only ever raises the flags.        *)
LEMMA Observed ==
  ASSUME NEW e, NEW lost \in BOOLEAN, Observe(e, lost), unsafe => stopNew
  PROVE  /\ (unsafe => unsafe') /\ (unsafe' => stopNew')
         /\ e = "uncertain" \/ lost => unsafe'
BY DEF Observe

(* What a returned stop leaves behind. *)
Stopped(s, proof) ==
  /\ pc[s] = "stopping"
  /\ live' = IF proof = "proven" THEN live \ {s} ELSE live
  /\ \/ /\ pc' = [pc EXCEPT ![s] = "finishing"]
        /\ proof = "proven" /\ why[s] = "confirm" /\ UNCHANGED pend
     \/ \E o \in {"none", "success", "failure"} :
          Persisting(s, Verdict(StoppedStatus(why[s], ev[s], proof), proof, TRUE,
                                o, 0, ReasonFor(ev[s])))
  /\ (unsafe => unsafe') /\ (unsafe' => stopNew')
  /\ proof = "unproven" => unsafe'
  /\ why[s] = "early" /\ ev[s] = "uncertain" => unsafe'
  /\ UNCHANGED <<runner, launched, started, why, ev, receipt>>

(* StopReturns gives a positive or a negative proof, and nothing else.     *)
LEMMA StopEffect ==
  ASSUME TypeOK, NEW s \in Sessions, StopReturns(s), unsafe => stopNew
  PROVE  \E proof \in {"proven", "unproven"} : Stopped(s, proof)
<1> PICK proof \in PossibleProofs \ {"none"} :
      LET seen == IF why[s] = "early" THEN ev[s] ELSE "none"
          status == StoppedStatus(why[s], ev[s], proof)
          evidence == IF why[s] \in {"resource", "wall", "cohort"}
                         /\ proof = "proven"
                      THEN {"none", "success", "failure"}
                      ELSE IF why[s] = "confirm" THEN {outcome[s]} ELSE {"none"}
      IN /\ Observe(seen, proof = "unproven")
         /\ live' = IF proof = "proven" THEN live \ {s} ELSE live
         /\ IF why[s] = "confirm" /\ proof = "proven"
              THEN /\ pc' = [pc EXCEPT ![s] = "finishing"]
                   /\ UNCHANGED pend
              ELSE \E o \in evidence :
                     Persisting(s, Verdict(status, proof, TRUE, o, 0,
                                           ReasonFor(ev[s])))
  BY DEF StopReturns
<1>1. proof \in {"proven", "unproven"}
  BY DEF PossibleProofs, Proofs
<1>2. outcome[s] \in {"none", "success", "failure"}
  BY DEF TypeOK, LocalsTyped
<1>3. \/ /\ pc' = [pc EXCEPT ![s] = "finishing"]
         /\ proof = "proven" /\ why[s] = "confirm" /\ UNCHANGED pend
      \/ \E o \in {"none", "success", "failure"} :
           Persisting(s, Verdict(StoppedStatus(why[s], ev[s], proof), proof, TRUE,
                                 o, 0, ReasonFor(ev[s])))
  BY <1>2
<1>4. /\ (unsafe => unsafe') /\ (unsafe' => stopNew')
      /\ proof = "unproven" => unsafe'
      /\ why[s] = "early" /\ ev[s] = "uncertain" => unsafe'
  BY Observed
<1>5. pc[s] = "stopping" /\ UNCHANGED <<runner, launched, started, why, ev, receipt>>
  BY DEF StopReturns, ownVars, localVars, ledgerVars
<1> QED BY <1>1, <1>3, <1>4, <1>5 DEF Stopped

(* A step of one session leaves every other session as it was. *)
OnlySelf(s) ==
  \A t \in Sessions \ {s} :
    /\ pc'[t] = pc[t] /\ pend'[t] = pend[t] /\ why'[t] = why[t] /\ ev'[t] = ev[t]
    /\ receipt'[t] = receipt[t]
    /\ t \in live' <=> t \in live
    /\ t \in launched' <=> t \in launched
    /\ t \in started' <=> t \in started
    /\ t \in handler' <=> t \in handler
    /\ t \in indexed' <=> t \in indexed
    /\ outcome'[t] = outcome[t] /\ contrib'[t] = contrib[t]
    /\ pubs'[t] = pubs[t] /\ rejected'[t] = rejected[t]
    /\ admitted'[t] = admitted[t]

(* run_one's steps are local to their session.                             *)
LEMMA SelfStep ==
  ASSUME TypeOK, NEW s \in Sessions, SessionStep(s)
  PROVE  OnlySelf(s)
<1> USE DEF OnlySelf, TypeOK, LocalsTyped, PublishTyped, LedgerTyped, PointTyped,
            localVars, ownVars, publishVars, ledgerVars, Persisting
<1>1. CASE Activated(s)
  <2>1. UNCHANGED <<started, why, ev, outcome, contrib, publishVars, ledgerVars>>
    BY <1>1 DEF Activated
  <2>2. /\ \E q : pc' = [pc EXCEPT ![s] = q]
        /\ pend' = pend \/ \E p : pend' = [pend EXCEPT ![s] = p]
        /\ live' = live \/ live' = live \cup {s}
        /\ launched' = launched \/ launched' = launched \cup {s}
        /\ handler' = handler \/ handler' = handler \cup {s}
    BY <1>1 DEF Activated
  <2> QED BY <2>1, <2>2
<1>2. CASE StartReturns(s)
  <2>1. UNCHANGED <<receipt, launched, indexed, outcome, contrib, publishVars>>
    BY <1>2 DEF StartReturns
  <2>2. CASE HandlePublished(s)
    BY <2>1, <2>2 DEF HandlePublished
  <2>3. CASE \E proof \in PossibleProofs : NoHandle(s, proof)
    BY <2>1, <2>3 DEF NoHandle
  <2>4. CASE /\ pc' = [pc EXCEPT ![s] = "aborting"]
             /\ UNCHANGED <<flagVars, live, pend, handler, started, why, ev>>
    BY <2>1, <2>4
  <2> QED BY <1>2, <2>2, <2>3, <2>4 DEF StartReturns
<1>3. CASE StartCancelled(s)
  BY <1>3 DEF StartCancelled
<1>4. CASE AbortJoined(s)
  BY <1>4 DEF AbortJoined, NoHandle
<1>5. CASE WaitCompletes(s)
  BY <1>5 DEF WaitCompletes
<1>6. CASE Interrupted(s)
  BY <1>6 DEF Interrupted
<1>7. CASE StopReturns(s)
  <2>1. UNCHANGED <<localVars, publishVars, ledgerVars, launched>>
    BY <1>7 DEF StopReturns
  <2>2. live' = live \/ live' = live \ {s}
    BY <1>7 DEF StopReturns
  <2>3. /\ \E q : pc' = [pc EXCEPT ![s] = q]
        /\ pend' = pend \/ \E p : pend' = [pend EXCEPT ![s] = p]
    BY <1>7 DEF StopReturns
  <2> QED BY <2>1, <2>2, <2>3
<1>8. CASE Measured(s)
  <2>1. UNCHANGED <<localVars, publishVars, ledgerVars, launched, live>>
    BY <1>8 DEF Measured
  <2>2. /\ \E q : pc' = [pc EXCEPT ![s] = q]
        /\ pend' = pend \/ \E p : pend' = [pend EXCEPT ![s] = p]
    BY <1>8 DEF Measured
  <2> QED BY <2>1, <2>2
<1>9. CASE PublishOne(s)
  <2>1. UNCHANGED <<localVars, ledgerVars, launched, live>>
    BY <1>9 DEF PublishOne
  <2>2. /\ pubs' = pubs \/ \E n : pubs' = [pubs EXCEPT ![s] = n]
        /\ rejected' = rejected \/ \E n : rejected' = [rejected EXCEPT ![s] = n]
        /\ admitted' = admitted \/ \E n : admitted' = [admitted EXCEPT ![s] = n]
    BY <1>9 DEF PublishOne
  <2>3. /\ pc' = pc \/ \E q : pc' = [pc EXCEPT ![s] = q]
        /\ pend' = pend \/ \E p : pend' = [pend EXCEPT ![s] = p]
    BY <1>9 DEF PublishOne, PublishFails, PublishGoesOn
  <2> QED BY <2>1, <2>2, <2>3
<1>10. CASE Persist(s)
  <2>1. UNCHANGED <<started, rejected, admitted, live, launched>>
    BY <1>10 DEF Persist
  <2>2. /\ indexed' = indexed \/ indexed' = indexed \cup {s}
        /\ receipt' = receipt \/ \E r : receipt' = [receipt EXCEPT ![s] = r]
    BY <1>10 DEF Persist, WriteReceipt
  <2> QED BY <1>10, <2>1, <2>2 DEF Persist, RunOneReturns
<1>11. CASE PersistRaises(s)
  <2>1. CASE s \in handler
    <3>1. RunOneReturns(s) /\ UNCHANGED <<live, launched, started, receipt,
                                         indexed, rejected, admitted>>
      BY <1>11, <2>1 DEF PersistRaises
    <3> QED BY <3>1 DEF RunOneReturns
  <2>2. CASE s \notin handler
    <3>1. /\ handler' = handler \cup {s}
          /\ UNCHANGED <<live, launched, started, receipt, indexed, outcome,
                         contrib, pubs, rejected, admitted>>
      BY <1>11, <2>2 DEF PersistRaises
    <3>2. /\ \E q : pc' = [pc EXCEPT ![s] = q]
          /\ \E p : pend' = [pend EXCEPT ![s] = p]
          /\ why' = why \/ \E y : why' = [why EXCEPT ![s] = y]
          /\ ev' = ev \/ \E e : ev' = [ev EXCEPT ![s] = e]
      BY <1>11, <2>2 DEF PersistRaises
    <3> QED BY <3>1, <3>2
  <2> QED BY <2>1, <2>2
<1> QED
  BY <1>1, <1>2, <1>3, <1>4, <1>5, <1>6, <1>7, <1>8, <1>9, <1>10, <1>11
     DEF SessionStep, Started, Persisted

(* A step of a session never moves it between workers, and a worker fails  *)
(* only with the run_one it was in.                                        *)
LEMMA PoolEffect ==
  ASSUME NEW s \in Sessions, SessionStep(s)
  PROVE  /\ pc[s] \notin Idle /\ UNCHANGED <<phase, cursor, runner>>
         /\ \/ UNCHANGED wstate
            \/ /\ pc' = [pc EXCEPT ![s] = "done"]
               /\ wstate' = [wstate EXCEPT ![runner[s]] = "failed"]
<1> USE DEF Idle, poolVars, ownVars
<1>1. CASE Activated(s)
  BY <1>1 DEF Activated
<1>2. CASE StartReturns(s)
  BY <1>2 DEF StartReturns
<1>3. CASE StartCancelled(s)
  BY <1>3 DEF StartCancelled
<1>4. CASE AbortJoined(s)
  BY <1>4 DEF AbortJoined
<1>5. CASE WaitCompletes(s)
  BY <1>5 DEF WaitCompletes
<1>6. CASE Interrupted(s)
  BY <1>6 DEF Interrupted
<1>7. CASE StopReturns(s)
  BY <1>7 DEF StopReturns
<1>8. CASE Measured(s)
  BY <1>8 DEF Measured
<1>9. CASE PublishOne(s)
  BY <1>9 DEF PublishOne
<1>10. CASE Persist(s)
  BY <1>10 DEF Persist
<1>11. CASE PersistRaises(s)
  <2>1. pc[s] = "persisting" /\ UNCHANGED <<phase, cursor, runner>>
    BY <1>11 DEF PersistRaises
  <2>2. CASE s \in handler
    BY <1>11, <2>1, <2>2 DEF PersistRaises, RunOneReturns
  <2>3. CASE s \notin handler
    BY <1>11, <2>1, <2>3 DEF PersistRaises
  <2> QED BY <2>2, <2>3
<1> QED
  BY <1>1, <1>2, <1>3, <1>4, <1>5, <1>6, <1>7, <1>8, <1>9, <1>10, <1>11
     DEF SessionStep, Started, Persisted

(* PoolInv is preserved: workers take sessions one at a time.              *)
LEMMA PoolStep ==
  ASSUME TypeOK, PoolInv, [Next]_vars PROVE PoolInv'
<1> USE Shape
<1>0. ASSUME UNCHANGED <<phase, wstate, cursor, runner, pc>> PROVE PoolInv'
  BY <1>0 DEF PoolInv
<1>1. ASSUME NEW e \in {"none", "disk", "uncertain"}, GuardStarts(e)
      PROVE  PoolInv'
  <2>1. phase = "launching" /\ UNCHANGED <<cursor, runner, pc>>
    BY <1>1 DEF GuardStarts, ownVars
  <2>2. \A s \in Sessions : pc'[s] \in Idle
    BY <2>1 DEF PoolInv
  <2> QED BY <2>1, <2>2 DEF PoolInv
<1>2. ASSUME NEW w \in Workers, Take(w) PROVE PoolInv'
  <2>1. /\ \A t \in Sessions : pc[t] \notin Idle => runner[t] # w
        /\ UNCHANGED <<phase, wstate>> /\ phase = "serving"
        /\ wstate[w] = "working"
    BY <1>2 DEF Take, Busy, Idle
  <2>2. PICK s \in Sessions : Taken(w, s)
    BY <1>2, TakeEffect
  <2>3. /\ pc[s] = "queued" /\ cursor' = s
        /\ \A t \in Sessions : t > s => t > cursor /\ t # s
        /\ runner'[s] = w /\ runner' \in [Sessions -> Workers \cup {NoWorker}]
        /\ \A t \in Sessions \ {s} : pc'[t] = pc[t] /\ runner'[t] = runner[t]
    BY <2>2 DEF Taken
  <2>4. \A t \in Sessions : pc'[t] \notin Idle =>
          phase' = "serving" /\ runner'[t] \in Workers
          /\ wstate'[runner'[t]] = "working"
    BY <2>1, <2>3 DEF PoolInv
  <2>5. \A t, u \in Sessions :
          pc'[t] \notin Idle /\ pc'[u] \notin Idle /\ runner'[t] = runner'[u]
          => t = u
    BY <2>1, <2>3 DEF PoolInv
  <2>6. \A t \in Sessions : t > cursor' => pc'[t] = "queued"
    BY <2>3 DEF PoolInv
  <2> QED BY <2>4, <2>5, <2>6 DEF PoolInv
<1>3. ASSUME NEW w \in Workers, WorkerExits(w) PROVE PoolInv'
  <2>1. /\ \A t \in Sessions : pc[t] \notin Idle => runner[t] # w
        /\ wstate' = [wstate EXCEPT ![w] = "exited"]
        /\ UNCHANGED <<phase, cursor, runner, pc>>
    BY <1>3 DEF WorkerExits, Busy, Idle, ownVars
  <2> QED BY <2>1 DEF PoolInv
<1>4. ASSUME NEW s \in Sessions, SessionStep(s) PROVE PoolInv'
  <2>1. \A t \in Sessions \ {s} : pc'[t] = pc[t]
    BY <1>4, SelfStep DEF OnlySelf
  <2>2. /\ pc[s] \notin Idle /\ UNCHANGED <<phase, cursor, runner>>
        /\ \/ UNCHANGED wstate
           \/ /\ pc'[s] = "done"
              /\ wstate' = [wstate EXCEPT ![runner[s]] = "failed"]
    BY <1>4, PoolEffect
  <2>3. \A t \in Sessions : pc'[t] \notin Idle =>
          /\ phase' = "serving" /\ runner'[t] \in Workers
          /\ wstate'[runner'[t]] = "working"
    <3> SUFFICES ASSUME NEW t \in Sessions, pc'[t] \notin Idle
                 PROVE  /\ phase' = "serving" /\ runner'[t] \in Workers
                        /\ wstate'[runner'[t]] = "working"
      OBVIOUS
    <3>1. pc[t] \notin Idle
      BY <2>1, <2>2
    <3>2. CASE UNCHANGED wstate
      BY <3>1, <3>2, <2>2 DEF PoolInv
    <3>3. CASE pc'[s] = "done" /\ wstate' = [wstate EXCEPT ![runner[s]] = "failed"]
      <4>1. t # s
        BY <3>3 DEF Idle
      <4>2. runner[t] # runner[s] /\ runner[t] \in Workers
        BY <3>1, <4>1, <2>2 DEF PoolInv
      <4> QED BY <3>1, <3>3, <4>2, <2>2 DEF PoolInv
    <3> QED BY <2>2, <3>2, <3>3
  <2>4. \A t, u \in Sessions :
          pc'[t] \notin Idle /\ pc'[u] \notin Idle /\ runner'[t] = runner'[u]
          => t = u
    BY <2>1, <2>2 DEF PoolInv
  <2>5. \A t \in Sessions : t > cursor' => pc'[t] = "queued"
    BY <2>1, <2>2 DEF PoolInv, Idle
  <2> QED BY <2>3, <2>4, <2>5 DEF PoolInv
<1>5. CASE BeginSettlement
  <2>1. \A w \in Workers : wstate[w] # "working"
    BY <1>5 DEF BeginSettlement
  <2>2. \A s \in Sessions : pc[s] \in Idle
    BY <2>1 DEF PoolInv
  <2> QED BY <1>5, <2>2 DEF BeginSettlement, PoolInv, ownVars
<1>6. ASSUME NEW s \in Sessions, SettleMissing(s) PROVE PoolInv'
  BY <1>6, <1>0 DEF SettleMissing, poolVars, ownVars
<1>7. ASSUME NEW s \in Sessions, SettleMissingRaises(s) PROVE PoolInv'
  <2>1. phase = "settling" /\ UNCHANGED <<cursor, runner, pc>>
    BY <1>7 DEF SettleMissingRaises, NextMissing, ownVars
  <2>2. \A t \in Sessions : pc'[t] \in Idle
    BY <2>1 DEF PoolInv
  <2> QED BY <2>1, <2>2 DEF PoolInv
<1>8. CASE Settle
  <2>1. phase = "settling" /\ UNCHANGED <<cursor, runner, pc>>
    BY <1>8 DEF Settle, ownVars
  <2>2. \A t \in Sessions : pc'[t] \in Idle
    BY <2>1 DEF PoolInv
  <2> QED BY <2>1, <2>2 DEF PoolInv
<1>9. CASE EnvironmentStep
  BY <1>9, <1>0 DEF EnvironmentStep, CallerCancels, DiskCheck, TreeScan, poolVars,
                    ownVars
<1>10. CASE UNCHANGED vars
  BY <1>10, <1>0 DEF vars, poolVars, ownVars
<1> QED
  BY <1>1, <1>2, <1>3, <1>4, <1>5, <1>6, <1>7, <1>8, <1>9, <1>10
     DEF Next, SettlementStep

(* A step that starts nothing keeps custody if it does for its session.    *)
LEMMA CustodyFrame ==
  ASSUME TypeOK, CustodyInv, NEW s \in Sessions, OnlySelf(s), unsafe => unsafe',
         UNCHANGED runner, live' \subseteq live, Custody(s)'
  PROVE  CustodyInv'
<1>1. ASSUME NEW t \in Sessions, t # s PROVE Custody(t)'
  BY <1>1, Shape DEF CustodyInv, Custody, OnlySelf
<1>2. \A t, u \in live' : runner'[t] = runner'[u] => t = u
  BY DEF CustodyInv
<1> QED BY <1>1, <1>2 DEF CustodyInv

(* CustodyInv is preserved: live work always has an accountable owner.     *)
LEMMA CustodyStep ==
  ASSUME TypeOK, PoolInv, CustodyInv, DoubtInv, [Next]_vars PROVE CustodyInv'
<1> USE Shape
<1> USE DEF CustodyInv, Custody, Idle, flagVars, poolVars, ownVars, localVars,
            publishVars, guardVars, ledgerVars, Persisting, Observe
<1>1. ASSUME NEW e \in {"none", "disk", "uncertain"}, GuardStarts(e) PROVE CustodyInv'
  BY <1>1 DEF GuardStarts
<1>2. ASSUME NEW w \in Workers, Take(w) PROVE CustodyInv'
  <2>1. PICK s \in Sessions : Taken(w, s)
    BY <1>2, TakeEffect
  <2>2. /\ pc[s] = "queued" /\ runner' = [runner EXCEPT ![s] = w]
        /\ \E q \in {"activating", "persisting"} : pc' = [pc EXCEPT ![s] = q]
        /\ UNCHANGED <<launched, live, started, unsafe>>
    BY <2>1 DEF Taken
  <2> QED BY <2>2
<1>3. ASSUME NEW w \in Workers, WorkerExits(w) PROVE CustodyInv'
  BY <1>3 DEF WorkerExits
<1>4. ASSUME NEW s \in Sessions, Activated(s) PROVE CustodyInv'
  <2>1. /\ pc[s] = "activating" /\ UNCHANGED <<runner, started>>
        /\ unsafe => unsafe'
        /\ \/ /\ pc' = [pc EXCEPT ![s] = "starting"] /\ ~stopNew
              /\ launched' = launched \cup {s} /\ live' = live \cup {s}
           \/ /\ pc' = [pc EXCEPT ![s] = "persisting"]
              /\ UNCHANGED <<launched, live>>
    BY <1>4 DEF Activated
  <2>2. ~stopNew => \A t \in live : t # s /\ pc[t] \notin Idle
    BY <2>1 DEF DoubtInv
  <2>3. ~stopNew => \A t \in live : runner[t] # runner[s]
    BY <2>1, <2>2 DEF PoolInv
  <2>4. runner[s] \in Workers
    BY <2>1 DEF PoolInv
  <2> QED BY <2>1, <2>3, <2>4
<1>5. ASSUME NEW s \in Sessions, StartReturns(s) PROVE CustodyInv'
  <2>1. /\ pc[s] = "starting" /\ s \in launched /\ runner[s] \in Workers
        /\ UNCHANGED <<runner, launched>>
    BY <1>5 DEF StartReturns
  <2>2. OnlySelf(s)
    BY <1>5, SelfStep DEF SessionStep, Started
  <2>3. CASE HandlePublished(s)
    <3>1. /\ UNCHANGED <<unsafe, live>>
          /\ \E q \in {"stopping", "running"} : pc' = [pc EXCEPT ![s] = q]
      BY <2>3 DEF HandlePublished
    <3> QED BY <2>1, <2>2, <3>1, CustodyFrame
  <2>4. ASSUME NEW proof \in PossibleProofs, NoHandle(s, proof) PROVE CustodyInv'
    <3>1. /\ pc' = [pc EXCEPT ![s] = "persisting"] /\ live' \subseteq live
          /\ unsafe => unsafe'
          /\ proof = "proven" => s \notin live'
          /\ proof # "proven" => unsafe'
          /\ UNCHANGED started
      BY <2>4 DEF NoHandle
    <3> QED BY <2>1, <2>2, <3>1, CustodyFrame
  <2>5. CASE /\ pc' = [pc EXCEPT ![s] = "aborting"]
             /\ UNCHANGED <<flagVars, live, pend, handler, started, why, ev>>
    BY <2>1, <2>2, <2>5, CustodyFrame
  <2> QED BY <1>5, <2>3, <2>4, <2>5 DEF StartReturns
<1>6. ASSUME NEW s \in Sessions, StartCancelled(s) PROVE CustodyInv'
  BY <1>6 DEF StartCancelled
<1>7. ASSUME NEW s \in Sessions, AbortJoined(s) PROVE CustodyInv'
  <2>1. /\ pc[s] = "aborting" /\ s \in launched /\ runner[s] \in Workers
        /\ UNCHANGED <<runner, launched>>
        /\ \E proof \in Proofs : NoHandle(s, proof)
    BY <1>7 DEF AbortJoined, PossibleProofs, Proofs
  <2>2. OnlySelf(s)
    BY <1>7, SelfStep DEF SessionStep
  <2>3. /\ pc' = [pc EXCEPT ![s] = "persisting"] /\ live' \subseteq live
        /\ unsafe => unsafe'
        /\ s \in live' => unsafe'
        /\ UNCHANGED started
    BY <2>1 DEF NoHandle
  <2> QED BY <2>1, <2>2, <2>3, CustodyFrame
<1>8. ASSUME NEW s \in Sessions, WaitCompletes(s) PROVE CustodyInv'
  BY <1>8 DEF WaitCompletes
<1>9. ASSUME NEW s \in Sessions, Interrupted(s) PROVE CustodyInv'
  BY <1>9 DEF Interrupted
<1>10. ASSUME NEW s \in Sessions, StopReturns(s) PROVE CustodyInv'
  <2>1. unsafe => stopNew
    BY DEF DoubtInv
  <2>2. PICK proof \in {"proven", "unproven"} : Stopped(s, proof)
    BY <1>10, <2>1, StopEffect
  <2>3. /\ pc[s] = "stopping" /\ UNCHANGED <<runner, launched, started>>
        /\ unsafe => unsafe'
        /\ \/ live' = live \ {s}
              /\ \E q \in {"finishing", "persisting"} : pc' = [pc EXCEPT ![s] = q]
           \/ live' = live /\ unsafe' /\ pc' = [pc EXCEPT ![s] = "persisting"]
    BY <2>2 DEF Stopped
  <2>4. OnlySelf(s)
    BY <1>10, SelfStep DEF SessionStep
  <2>5. live' \subseteq live /\ Custody(s)'
    BY <2>3
  <2> QED BY <2>3, <2>4, <2>5, CustodyFrame
<1>11. ASSUME NEW s \in Sessions, Measured(s) PROVE CustodyInv'
  <2>1. /\ pc[s] = "finishing" /\ UNCHANGED <<runner, launched, live, started>>
        /\ unsafe => unsafe'
        /\ \E q \in {"publishing", "persisting"} : pc' = [pc EXCEPT ![s] = q]
    BY <1>11 DEF Measured
  <2>2. OnlySelf(s)
    BY <1>11, SelfStep DEF SessionStep
  <2>3. Custody(s)'
    BY <2>1
  <2> QED BY <2>1, <2>2, <2>3, CustodyFrame
<1>12. ASSUME NEW s \in Sessions, PublishOne(s) PROVE CustodyInv'
  <2>1. /\ pc[s] = "publishing" /\ UNCHANGED <<runner, launched, live, started, unsafe>>
        /\ UNCHANGED pc \/ pc' = [pc EXCEPT ![s] = "persisting"]
    BY <1>12 DEF PublishOne, PublishFails, PublishGoesOn
  <2>2. OnlySelf(s)
    BY <1>12, SelfStep DEF SessionStep
  <2>3. Custody(s)'
    BY <2>1
  <2> QED BY <2>1, <2>2, <2>3, CustodyFrame
<1>13. ASSUME NEW s \in Sessions, Persist(s) PROVE CustodyInv'
  <2>1. /\ pc[s] = "persisting" /\ UNCHANGED <<runner, launched, live, started>>
        /\ unsafe => unsafe'
        /\ pc' = [pc EXCEPT ![s] = "done"]
    BY <1>13 DEF Persist, RunOneReturns, WriteReceipt
  <2>2. OnlySelf(s)
    BY <1>13, SelfStep DEF SessionStep, Persisted
  <2>3. Custody(s)'
    BY <2>1
  <2> QED BY <2>1, <2>2, <2>3, CustodyFrame
<1>14. ASSUME NEW s \in Sessions, PersistRaises(s) PROVE CustodyInv'
  <2>1. /\ pc[s] = "persisting" /\ UNCHANGED <<runner, launched, live>>
        /\ unsafe => unsafe'
        /\ UNCHANGED started
        /\ \/ pc' = [pc EXCEPT ![s] = "stopping"] /\ s \in started
           \/ \E q \in {"persisting", "done"} : pc' = [pc EXCEPT ![s] = q]
    BY <1>14 DEF PersistRaises, RunOneReturns
  <2> QED BY <2>1
<1>15. CASE BeginSettlement
  BY <1>15 DEF BeginSettlement
<1>16. ASSUME NEW s \in Sessions, SettleMissing(s) PROVE CustodyInv'
  BY <1>16 DEF SettleMissing, WriteReceipt
<1>17. ASSUME NEW s \in Sessions, SettleMissingRaises(s) PROVE CustodyInv'
  BY <1>17 DEF SettleMissingRaises
<1>18. CASE Settle
  BY <1>18 DEF Settle
<1>19. CASE EnvironmentStep
  BY <1>19 DEF EnvironmentStep, CallerCancels, DiskCheck, TreeScan
<1>20. CASE UNCHANGED vars
  BY <1>20 DEF vars
<1> QED
  BY <1>1, <1>2, <1>3, <1>4, <1>5, <1>6, <1>7, <1>8, <1>9, <1>10,
     <1>11, <1>12, <1>13, <1>14, <1>15, <1>16, <1>17, <1>18, <1>19, <1>20
     DEF Next, SessionStep, SettlementStep, Started, Persisted

(* An invariant of one session that only its own variables and the latched *)
(* flags can break.                                                        *)
LEMMA DoubtFrame ==
  ASSUME DoubtInv, NEW s \in Sessions, OnlySelf(s), unsafe => unsafe',
         unsafe' => stopNew', Doubt(s)'
  PROVE  DoubtInv'
BY DEF DoubtInv, Doubt, OnlySelf

(* What run_one hands to _persist may be UNKNOWN only if the flags say so. *)
LEMMA DoubtAtPersist ==
  ASSUME TypeOK, NEW s \in Sessions, pc'[s] = "persisting",
         pend'[s].status = "UNKNOWN" => unsafe', Doubt(s), unsafe => unsafe',
         receipt' = receipt
  PROVE  Doubt(s)'
BY Shape DEF Doubt

(* What _persist awaits with.                                              *)
LEMMA PersistingShape ==
  ASSUME TypeOK, NEW s \in Sessions, NEW p, Persisting(s, p)
  PROVE  pc'[s] = "persisting" /\ pend'[s] = p
BY Shape DEF Persisting

(* A verdict's status is the status it was made with.                      *)
LEMMA VerdictStatus ==
  /\ \A st, pf, b, o, k, r : Verdict(st, pf, b, o, k, r).status = st
  /\ \A st, r : NotStarted(st, r).status = st
  /\ \A e : ResourceStatus(e, "proven") = "UNKNOWN" => e = "uncertain"
BY DEF Verdict, NotStarted, ResourceStatus

(* A start without a handle is UNKNOWN only with the flags raised.         *)
LEMMA DoubtNoHandle ==
  ASSUME TypeOK, NEW s \in Sessions, NEW proof, NoHandle(s, proof), Doubt(s),
         unsafe => stopNew, receipt' = receipt
  PROVE  (unsafe => unsafe') /\ (unsafe' => stopNew') /\ Doubt(s)'
<1> DEFINE e == EventFor(s)
<1>1. /\ (unsafe => unsafe') /\ (unsafe' => stopNew')
      /\ e = "uncertain" \/ proof # "proven" => unsafe'
  BY Observed DEF NoHandle
<1>3. pc'[s] = "persisting" /\ (pend'[s].status = "UNKNOWN" => unsafe')
  BY <1>1, Shape DEF NoHandle, Persisting, Verdict
<1> QED BY <1>1, <1>3, DoubtAtPersist

(* DoubtInv is preserved: no branch reports UNKNOWN without the flags.     *)
LEMMA DoubtStep ==
  ASSUME TypeOK, PoolInv, CustodyInv, DoubtInv, [Next]_vars PROVE DoubtInv'
<1> USE Shape
<1>s. ASSUME NEW s \in Sessions, SessionStep(s), unsafe => unsafe',
             unsafe' => stopNew', Doubt(s)'
      PROVE  DoubtInv'
  BY <1>s, SelfStep, DoubtFrame
<1>d. unsafe => stopNew
  BY DEF DoubtInv
<1>h. \A s \in Sessions : Doubt(s)
  BY DEF DoubtInv
<1>1. ASSUME NEW e \in {"none", "disk", "uncertain"}, GuardStarts(e) PROVE DoubtInv'
  BY <1>1 DEF GuardStarts, DoubtInv, Doubt, Observe, localVars, ledgerVars
<1>2. ASSUME NEW w \in Workers, Take(w) PROVE DoubtInv'
  <2>1. PICK s \in Sessions : Taken(w, s)
    BY <1>2, TakeEffect
  <2> QED BY <2>1 DEF Taken, Verdict, DoubtInv, Doubt
<1>3. ASSUME NEW w \in Workers, WorkerExits(w) PROVE DoubtInv'
  BY <1>3 DEF WorkerExits, DoubtInv, Doubt, flagVars, localVars, ledgerVars
<1>4. ASSUME NEW s \in Sessions, Activated(s) PROVE DoubtInv'
  <2>1. SessionStep(s)
    BY <1>4 DEF SessionStep, Started, Persisted
  <2>2. /\ (unsafe => unsafe') /\ (unsafe' => stopNew')
        /\ EventFor(s) = "uncertain" => unsafe'
    BY <1>4, <1>d, Observed DEF Activated
  <2>3. \/ pc' = [pc EXCEPT ![s] = "starting"] /\ UNCHANGED pend
        \/ pc'[s] = "persisting" /\ (pend'[s].status = "UNKNOWN" => unsafe')
    BY <1>4, <2>2 DEF Activated, Persisting, NotStarted, Verdict, ResourceStatus
  <2>4. UNCHANGED <<receipt, ev, why>> /\ pc[s] = "activating"
    BY <1>4 DEF Activated, ledgerVars
  <2>5. Doubt(s)'
    <3>1. CASE pc'[s] = "persisting" /\ (pend'[s].status = "UNKNOWN" => unsafe')
      BY <3>1, <2>2, <2>4, <1>h, DoubtAtPersist
    <3>2. CASE pc' = [pc EXCEPT ![s] = "starting"] /\ UNCHANGED pend
      BY <3>2, <2>2, <2>4, <1>h DEF Doubt
    <3> QED BY <2>3, <3>1, <3>2
  <2> QED BY <2>1, <2>2, <2>5, <1>s
<1>5. ASSUME NEW s \in Sessions, StartReturns(s) PROVE DoubtInv'
  <2>1. SessionStep(s)
    BY <1>5 DEF SessionStep, Started, Persisted
  <2>2. /\ (unsafe => unsafe') /\ (unsafe' => stopNew')
        /\ Doubt(s)'
    <3>1. UNCHANGED receipt /\ pc[s] = "starting"
      BY <1>5 DEF StartReturns, ledgerVars
    <3>2. CASE \E proof \in PossibleProofs : NoHandle(s, proof)
      BY <3>1, <3>2, <1>d, <1>h, DoubtNoHandle
    <3>3. CASE HandlePublished(s)
      BY <3>1, <3>3, <1>d, <1>h DEF HandlePublished, Doubt, flagVars
    <3>4. CASE /\ pc' = [pc EXCEPT ![s] = "aborting"]
               /\ UNCHANGED <<flagVars, live, pend, handler, started, why, ev>>
      BY <3>1, <3>4, <1>d, <1>h DEF Doubt, flagVars
    <3> QED BY <1>5, <3>2, <3>3, <3>4 DEF StartReturns
  <2> QED BY <2>1, <2>2, <1>s
<1>6. ASSUME NEW s \in Sessions, StartCancelled(s) PROVE DoubtInv'
  <2>1. SessionStep(s)
    BY <1>6 DEF SessionStep, Started, Persisted
  <2>2. (unsafe => unsafe') /\ (unsafe' => stopNew')
    BY <1>6, <1>d DEF StartCancelled, Observe, flagVars
  <2>3. Doubt(s)'
    BY <1>6, <1>h DEF StartCancelled,
       Doubt, Observe, Persisting, flagVars, localVars, ledgerVars
  <2> QED BY <2>1, <2>2, <2>3, <1>s
<1>7. ASSUME NEW s \in Sessions, AbortJoined(s) PROVE DoubtInv'
  <2>1. SessionStep(s)
    BY <1>7 DEF SessionStep, Started, Persisted
  <2>2. (unsafe => unsafe') /\ (unsafe' => stopNew') /\ Doubt(s)'
    BY <1>7, <1>d, <1>h, DoubtNoHandle DEF AbortJoined, ledgerVars
  <2> QED BY <2>1, <2>2, <1>s
<1>8. ASSUME NEW s \in Sessions, WaitCompletes(s) PROVE DoubtInv'
  <2>1. SessionStep(s)
    BY <1>8 DEF SessionStep, Started, Persisted
  <2>2. (unsafe => unsafe') /\ (unsafe' => stopNew')
    BY <1>8, <1>d DEF WaitCompletes, Observe, flagVars
  <2>3. Doubt(s)'
    BY <1>8, <1>h DEF WaitCompletes,
       Doubt, Observe, Persisting, flagVars, localVars, ledgerVars
  <2> QED BY <2>1, <2>2, <2>3, <1>s
<1>9. ASSUME NEW s \in Sessions, Interrupted(s) PROVE DoubtInv'
  <2>1. SessionStep(s)
    BY <1>9 DEF SessionStep, Started, Persisted
  <2>2. (unsafe => unsafe') /\ (unsafe' => stopNew')
    BY <1>9, <1>d DEF Interrupted, Observe, flagVars
  <2>3. Doubt(s)'
    BY <1>9, <1>h DEF Interrupted,
       Doubt, Observe, Persisting, flagVars, localVars, ledgerVars
  <2> QED BY <2>1, <2>2, <2>3, <1>s
<1>10. ASSUME NEW s \in Sessions, StopReturns(s) PROVE DoubtInv'
  <2>1. SessionStep(s)
    BY <1>10 DEF SessionStep, Started, Persisted
  <2>2. PICK proof \in {"proven", "unproven"} : Stopped(s, proof)
    BY <1>10, <1>d, StopEffect
  <2>3. (unsafe => unsafe') /\ (unsafe' => stopNew') /\ UNCHANGED receipt
    BY <2>2 DEF Stopped
  <2>4. CASE pc' = [pc EXCEPT ![s] = "finishing"]
    <3>1. Doubt(s)'
      BY <2>3, <2>4, <1>h DEF Doubt
    <3> QED BY <2>1, <2>3, <3>1, <1>s
  <2>5. CASE pc' # [pc EXCEPT ![s] = "finishing"]
    <3>1. ev[s] = "uncertain" \/ proof = "unproven" => unsafe'
      BY <2>2, <1>h DEF Stopped, Doubt
    <3>2. pc'[s] = "persisting" /\ (pend'[s].status = "UNKNOWN" => unsafe')
      BY <2>2, <2>5, <3>1
         DEF Stopped, Persisting, Verdict, StoppedStatus, ResourceStatus
    <3>3. Doubt(s)'
      BY <2>3, <3>2, <1>h, DoubtAtPersist
    <3> QED BY <2>1, <2>3, <3>3, <1>s
  <2> QED BY <2>4, <2>5
<1>11. ASSUME NEW s \in Sessions, Measured(s) PROVE DoubtInv'
  <2>1. SessionStep(s)
    BY <1>11 DEF SessionStep, Started, Persisted
  <2>2. /\ (unsafe => unsafe') /\ (unsafe' => stopNew')
        /\ EventFor(s) = "uncertain" => unsafe'
    BY <1>11, <1>d, Observed DEF Measured
  <2>3. \/ pc' = [pc EXCEPT ![s] = "publishing"]
        \/ pc'[s] = "persisting" /\ (pend'[s].status = "UNKNOWN" => unsafe')
    BY <1>11, <2>2 DEF Measured, Persisting, Verdict, ResourceStatus
  <2>4. UNCHANGED receipt
    BY <1>11 DEF Measured, ledgerVars
  <2>5. Doubt(s)'
    <3>1. CASE pc'[s] = "persisting" /\ (pend'[s].status = "UNKNOWN" => unsafe')
      BY <3>1, <2>2, <2>4, <1>h, DoubtAtPersist
    <3>2. CASE pc' = [pc EXCEPT ![s] = "publishing"]
      BY <3>2, <2>2, <2>4, <1>h DEF Doubt
    <3> QED BY <2>3, <3>1, <3>2
  <2> QED BY <2>1, <2>2, <2>5, <1>s
<1>12. ASSUME NEW s \in Sessions, PublishOne(s) PROVE DoubtInv'
  <2>1. SessionStep(s)
    BY <1>12 DEF SessionStep, Started, Persisted
  <2>2. UNCHANGED <<flagVars, receipt>> /\ pc[s] = "publishing"
    BY <1>12 DEF PublishOne, ledgerVars
  <2>3. \/ UNCHANGED pc
        \/ pc'[s] = "persisting" /\ pend'[s].status # "UNKNOWN"
    BY <1>12, Shape DEF PublishOne, PublishFails, PublishGoesOn,
       Persisting, Verdict
  <2>4. Doubt(s)'
    <3>1. CASE pc'[s] = "persisting" /\ pend'[s].status # "UNKNOWN"
      BY <3>1, <2>2, <1>h, DoubtAtPersist DEF flagVars
    <3>2. CASE UNCHANGED pc
      BY <3>2, <2>2, <1>h DEF Doubt, flagVars
    <3> QED BY <2>3, <3>1, <3>2
  <2> QED BY <2>1, <2>2, <2>4, <1>d, <1>s DEF flagVars
<1>13. ASSUME NEW s \in Sessions, Persist(s) PROVE DoubtInv'
  <2>1. SessionStep(s)
    BY <1>13 DEF SessionStep, Started, Persisted
  <2> DEFINE e == EventFor(s)
             r == Durable(ReceiptOf(s, Rewritten(pend[s], e)))
  <2>2. /\ (unsafe => unsafe') /\ (unsafe' => stopNew')
        /\ e = "uncertain" => unsafe'
    BY <1>13, <1>d DEF Persist, WriteReceipt
  <2>3. r.status = "UNKNOWN" => e = "uncertain" \/ unsafe
    BY <1>13, <1>h DEF Persist, ReceiptOf, Durable, Rewritten, Doubt
  <2>4. receipt'[s] = r \/ receipt'[s] = receipt[s]
    BY <1>13 DEF Persist, WriteReceipt
  <2>5. pc'[s] = "done"
    BY <1>13 DEF Persist, RunOneReturns
  <2> HIDE DEF e, r
  <2>6. Doubt(s)'
    BY <2>2, <2>3, <2>4, <2>5, <1>h DEF Doubt
  <2> QED BY <2>1, <2>2, <2>6, <1>s
<1>14. ASSUME NEW s \in Sessions, PersistRaises(s) PROVE DoubtInv'
  <2>1. SessionStep(s)
    BY <1>14 DEF SessionStep, Started, Persisted
  <2>2. (unsafe => unsafe') /\ (unsafe' => stopNew')
    BY <1>14, <1>d DEF PersistRaises, Observe
  <2>3. UNCHANGED receipt /\ pc[s] = "persisting"
    BY <1>14 DEF PersistRaises
  <2>4. \/ pc'[s] = "persisting" /\ pend'[s].status # "UNKNOWN"
        \/ /\ \E q \in {"stopping", "done"} : pc' = [pc EXCEPT ![s] = q]
           /\ ev' = [ev EXCEPT ![s] = "none"]
    BY <1>14, Shape DEF PersistRaises, RunOneReturns, Persisting, Verdict
  <2>5. Doubt(s)'
    <3>1. CASE pc'[s] = "persisting" /\ pend'[s].status # "UNKNOWN"
      BY <3>1, <2>2, <2>3, <1>h, DoubtAtPersist
    <3>2. CASE /\ \E q \in {"stopping", "done"} : pc' = [pc EXCEPT ![s] = q]
               /\ ev' = [ev EXCEPT ![s] = "none"]
      BY <3>2, <2>2, <2>3, <1>h DEF Doubt
    <3> QED BY <2>4, <3>1, <3>2
  <2> QED BY <2>1, <2>2, <2>5, <1>s
<1>15. CASE BeginSettlement
  BY <1>15 DEF BeginSettlement, Observe, DoubtInv, Doubt, localVars, ledgerVars
<1>16. ASSUME NEW s \in Sessions, SettleMissing(s) PROVE DoubtInv'
  <2>1. /\ (unsafe => unsafe') /\ (unsafe' => stopNew')
        /\ UNCHANGED <<pc, ev, why, pend>>
    BY <1>16, <1>d DEF SettleMissing, WriteReceipt, localVars
  <2>2. Durable(ReceiptOf(s, Rewritten(NotStarted("CANCELLED", "other"),
                                       EventFor(s)))).status = "UNKNOWN"
          => unsafe'
    BY <1>16 DEF SettleMissing, WriteReceipt, Durable, ReceiptOf, Rewritten,
                 NotStarted, Verdict
  <2>3. \A t \in Sessions : receipt'[t].status = "UNKNOWN" => unsafe'
    BY <1>16, <2>1, <2>2, <1>h DEF SettleMissing, WriteReceipt, Doubt
  <2> QED BY <2>1, <2>3 DEF DoubtInv, Doubt
<1>17. ASSUME NEW s \in Sessions, SettleMissingRaises(s) PROVE DoubtInv'
  BY <1>17 DEF SettleMissingRaises, Observe, DoubtInv, Doubt, localVars
<1>18. CASE Settle
  BY <1>18 DEF Settle, DoubtInv, Doubt, flagVars, localVars
<1>19. CASE EnvironmentStep
  BY <1>19 DEF EnvironmentStep, CallerCancels, DiskCheck, TreeScan,
     DoubtInv, Doubt, flagVars, localVars, ledgerVars
<1>20. CASE UNCHANGED vars
  BY <1>20 DEF vars, DoubtInv, Doubt, flagVars, localVars, ledgerVars
<1> QED
  BY <1>1, <1>2, <1>3, <1>4, <1>5, <1>6, <1>7, <1>8, <1>9, <1>10,
     <1>11, <1>12, <1>13, <1>14, <1>15, <1>16, <1>17, <1>18, <1>19, <1>20
     DEF Next, SessionStep, SettlementStep, Started, Persisted

(* SettledInv is preserved: settling is the last step that matters.        *)
LEMMA SettledStep ==
  ASSUME TypeOK, PoolInv, CustodyInv, DoubtInv, SettledInv, [Next]_vars PROVE SettledInv'
<1> USE Shape
<1> USE DEF SettledInv, Idle, flagVars, poolVars, ownVars, localVars,
            publishVars, guardVars, ledgerVars, Persisting, Observe
<1>1. ASSUME NEW e \in {"none", "disk", "uncertain"}, GuardStarts(e) PROVE SettledInv'
  BY <1>1 DEF GuardStarts
<1>2. ASSUME NEW w \in Workers, Take(w) PROVE SettledInv'
  BY <1>2 DEF Take
<1>3. ASSUME NEW w \in Workers, WorkerExits(w) PROVE SettledInv'
  BY <1>3 DEF WorkerExits
<1>4. ASSUME NEW s \in Sessions, Activated(s) PROVE SettledInv'
  <2>1. phase = "serving" /\ settlement' = "none"
    BY <1>4 DEF Activated, PoolInv
  <2> QED BY <2>1
<1>5. ASSUME NEW s \in Sessions, StartReturns(s) PROVE SettledInv'
  BY <1>5 DEF StartReturns, HandlePublished, NoHandle
<1>6. ASSUME NEW s \in Sessions, StartCancelled(s) PROVE SettledInv'
  BY <1>6 DEF StartCancelled
<1>7. ASSUME NEW s \in Sessions, AbortJoined(s) PROVE SettledInv'
  BY <1>7 DEF AbortJoined, NoHandle
<1>8. ASSUME NEW s \in Sessions, WaitCompletes(s) PROVE SettledInv'
  BY <1>8 DEF WaitCompletes
<1>9. ASSUME NEW s \in Sessions, Interrupted(s) PROVE SettledInv'
  BY <1>9 DEF Interrupted
<1>10. ASSUME NEW s \in Sessions, StopReturns(s) PROVE SettledInv'
  BY <1>10 DEF StopReturns
<1>11. ASSUME NEW s \in Sessions, Measured(s) PROVE SettledInv'
  BY <1>11 DEF Measured
<1>12. ASSUME NEW s \in Sessions, PublishOne(s) PROVE SettledInv'
  BY <1>12 DEF PublishOne, PublishFails, PublishGoesOn
<1>13. ASSUME NEW s \in Sessions, Persist(s) PROVE SettledInv'
  BY <1>13 DEF Persist, RunOneReturns, WriteReceipt
<1>14. ASSUME NEW s \in Sessions, PersistRaises(s) PROVE SettledInv'
  BY <1>14 DEF PersistRaises, RunOneReturns
<1>15. CASE BeginSettlement
  BY <1>15 DEF BeginSettlement
<1>16. ASSUME NEW s \in Sessions, SettleMissing(s) PROVE SettledInv'
  BY <1>16 DEF SettleMissing, WriteReceipt
<1>17. ASSUME NEW s \in Sessions, SettleMissingRaises(s) PROVE SettledInv'
  BY <1>17 DEF SettleMissingRaises
<1>18. CASE Settle
  <2>1. \A s \in Sessions : pc[s] \in Idle
    BY <1>18 DEF Settle, PoolInv
  <2>2. unsafe \/ live = {}
    BY <2>1 DEF CustodyInv, Custody
  <2>3. phase' \in {"settled", "incomplete"} /\ UNCHANGED live
    BY <1>18 DEF Settle
  <2>4. settlement' = "none" \/ (settlement' = StoreOutcome /\ ControllerOutcome = StoreOutcome)
    BY <1>18 DEF Settle
  <2>5. unsafe /\ ControllerOutcome = StoreOutcome => StoreOutcome = "UNSAFE"
    BY DEF ControllerOutcome, StoreOutcome
  <2> QED BY <2>2, <2>3, <2>4, <2>5
<1>19. CASE EnvironmentStep
  BY <1>19 DEF EnvironmentStep, CallerCancels, DiskCheck, TreeScan
<1>20. CASE UNCHANGED vars
  BY <1>20 DEF vars
<1> QED
  BY <1>1, <1>2, <1>3, <1>4, <1>5, <1>6, <1>7, <1>8, <1>9, <1>10,
     <1>11, <1>12, <1>13, <1>14, <1>15, <1>16, <1>17, <1>18, <1>19, <1>20
     DEF Next, SessionStep, SettlementStep, Started, Persisted

-----------------------------------------------------------------------------
(* What the safety theorems rest on: at every await, who may be running    *)
(* what, and that every doubt about it is on the cohort's flags.           *)
THEOREM Inductive == Spec => []IInv
<1>1. Init => IInv
  <2> SUFFICES ASSUME Init PROVE PoolInv /\ CustodyInv /\ DoubtInv /\ SettledInv
    BY InitTyped DEF IInv
  <2>1. PoolInv
    BY DEF Init, PoolInv, Idle
  <2>2. CustodyInv
    BY DEF Init, CustodyInv, Custody
  <2>3. DoubtInv
    BY DEF Init, DoubtInv, Doubt, NoReceipt
  <2>4. SettledInv
    BY DEF Init, SettledInv
  <2> QED BY <2>1, <2>2, <2>3, <2>4
<1>2. TypeOK' /\ IInv /\ [Next]_vars => IInv'
  BY PoolStep, CustodyStep, DoubtStep, SettledStep DEF IInv
<1> QED BY <1>1, <1>2, TypeCorrect, PTL DEF Spec

(* Work whose stop was never proven cannot be forgotten: whatever becomes  *)
(* of the session that started it, the cohort is unsafe and starts nothing *)
(* new by the time that session's run_one has returned.                    *)
THEOREM LostWorkStaysFlagged == Spec => []LostWorkIsFlagged
<1>1. IInv => LostWorkIsFlagged
  BY Shape DEF IInv, CustodyInv, Custody, DoubtInv, LostWorkIsFlagged
<1> QED BY <1>1, Inductive, PTL

(* A settled launch that is not UNSAFE has left nothing running, and never *)
(* will: no backend can be started after the settlement.                   *)
THEOREM SettledStaysQuiet == Spec => []SettledIsQuiet
<1>1. IInv => SettledIsQuiet
  BY DEF IInv, SettledInv, SettledIsQuiet
<1> QED BY <1>1, Inductive, PTL

(* The pool of workers bounds the backends that may be running, those of   *)
(* UNKNOWN sessions included: possibly-running sessions have different     *)
(* workers.                                                                *)
THEOREM SlotsStayBounded == Spec => []SlotsBounded
<1>1. ASSUME IInv PROVE SlotsBounded
  <2> DEFINE f == [s \in live |-> runner[s]]
  <2>1. f \in [live -> Workers] /\ \A s, t \in live : f[s] = f[t] => s = t
    BY <1>1, Shape DEF IInv, CustodyInv, Custody
  <2>2. f \in Injection(live, Workers)
    BY <2>1 DEF Injection, IsInjective
  <2> HIDE DEF f
  <2> QED BY <2>2, FS_Injection, PoolAssumption DEF SlotsBounded
<1> QED BY <1>1, Inductive, PTL

(* After any doubt, whether an UNKNOWN receipt, a lost backend or lost     *)
(* accounting, no backend is started anywhere in the cohort.               *)
THEOREM NothingStartsAfterUnknown == Spec => NoStartAfterUnknown
<1>1. IInv /\ [Next]_vars =>
        [unsafe \/ Recorded("UNKNOWN") => launched' = launched]_vars
  <2> SUFFICES ASSUME IInv, [Next]_vars, unsafe \/ Recorded("UNKNOWN")
               PROVE  launched' = launched
    OBVIOUS
  <2>1. stopNew
    BY DEF IInv, DoubtInv, Doubt, Recorded
  <2>2. ASSUME NEW s \in Sessions, Activated(s) PROVE launched' = launched
    BY <2>1, <2>2 DEF Activated
  <2>3. ASSUME NEW w \in Workers, Take(w) PROVE launched' = launched
    BY <2>3 DEF Take
  <2>4. ASSUME UNCHANGED ownVars PROVE launched' = launched
    BY <2>4 DEF ownVars
  <2> QED
    BY <2>2, <2>3, <2>4
       DEF Next, SessionStep, SettlementStep, EnvironmentStep, Started, Persisted,
           GuardStarts, WorkerExits, StartReturns, StartCancelled, AbortJoined,
           WaitCompletes, Interrupted, StopReturns, Measured, PublishOne, Persist,
           PersistRaises, BeginSettlement, SettleMissing, SettleMissingRaises,
           Settle, CallerCancels, DiskCheck, TreeScan, vars
<1> QED BY <1>1, Inductive, PTL DEF Spec, NoStartAfterUnknown

-----------------------------------------------------------------------------
(***************************************************************************)
(* The ledger.  The controller and the store agree on every receipt and on *)
(* the settlement, receipts account for what was published, and a launch   *)
(* keeps CohortContract.                                                   *)
(***************************************************************************)

Holds(s) == Counted(s) /\ Offered(s) /\ Kept(s)

(* The types the ledger's steps need.                                      *)
LEMMA LedgerShape ==
  ASSUME TypeOK
  PROVE  /\ pubs \in [Sessions -> Nat] /\ rejected \in [Sessions -> Nat]
         /\ admitted \in [Sessions -> Nat] /\ contrib \in [Sessions -> Nat]
         /\ outcome \in [Sessions -> {"none", "success", "failure"}]
         /\ pc \in [Sessions -> PCs] /\ why \in [Sessions -> Whys]
         /\ ev \in [Sessions -> Events \cup {"none"}]
         /\ pend \in [Sessions -> Verdicts \cup {NoVerdict}]
         /\ receipt \in [Sessions -> Receipts \cup {NoReceipt}]
         /\ indexed \subseteq Sessions
         /\ globalEvent \in {"none", "disk", "uncertain"}
         /\ impaired \in BOOLEAN /\ storeFailed \in BOOLEAN
         /\ \A s \in Sessions : pc[s] = "persisting" => pend[s] \in Verdicts
BY DEF TypeOK, FlagsTyped, PoolTyped, OwnTyped, LocalsTyped, PublishTyped,
       GuardTyped, LedgerTyped, PointTyped

(* Trouble and a cohort event are for good, and a launch goes forward.     *)
Forward ==
  /\ impaired => impaired'
  /\ globalEvent = "uncertain" => globalEvent' = "uncertain"
  /\ phase' \in {"launching", "serving"} => phase \in {"launching", "serving"}
  /\ phase' = "launching" => phase = "launching" /\ UNCHANGED globalEvent

Same(t) ==
  /\ pc'[t] = pc[t] /\ pend'[t] = pend[t] /\ why'[t] = why[t] /\ ev'[t] = ev[t]
  /\ receipt'[t] = receipt[t]
  /\ t \in live' <=> t \in live
  /\ t \in launched' <=> t \in launched
  /\ t \in indexed' <=> t \in indexed
  /\ contrib'[t] = contrib[t] /\ pubs'[t] = pubs[t]
  /\ rejected'[t] = rejected[t] /\ admitted'[t] = admitted[t]

(* What a step leaves alone keeps its records in order.                    *)
LEMMA SameHolds ==
  ASSUME Forward, NEW t \in Sessions, Same(t), Holds(t)
  PROVE  Holds(t)'
<1>1. Counted(t)'
  BY DEF Forward, Same, Holds, Counted, Unoffered
<1>2. Offered(t)'
  BY DEF Forward, Same, Holds, Offered, Legal, Complete
<1>3. Kept(t)'
  BY DEF Forward, Same, Holds, Kept, Accounted
<1> QED BY <1>1, <1>2, <1>3 DEF Holds

(* A step of one session.                                                  *)
LEMMA LedgerFrame ==
  ASSUME LedgerInv, NEW s \in Sessions, OnlySelf(s), Forward, StoreAgrees', Holds(s)'
  PROVE  LedgerInv'
<1>1. ASSUME NEW t \in Sessions, t # s PROVE Holds(t)'
  <2>1. Same(t) /\ Holds(t)
    BY <1>1 DEF OnlySelf, Same, LedgerInv, Holds
  <2> QED BY <2>1, SameHolds
<1> QED BY <1>1 DEF LedgerInv, Holds, Forward

(* A step that is about no session.                                        *)
LEMMA LedgerStill ==
  ASSUME LedgerInv, Forward, StoreAgrees',
         UNCHANGED <<pc, pend, why, ev, receipt, live, launched, indexed, contrib,
                     publishVars>>
  PROVE  LedgerInv'
<1>1. ASSUME NEW t \in Sessions PROVE Holds(t)'
  <2>1. Same(t) /\ Holds(t)
    BY <1>1 DEF publishVars, Same, LedgerInv, Holds
  <2> QED BY <2>1, SameHolds
<1> QED BY <1>1 DEF LedgerInv, Holds, Forward

(* A session between its awaits has no receipt yet.                        *)
LEMMA NotYet ==
  ASSUME PoolInv, LedgerInv, NEW s \in Sessions, pc[s] \notin Idle
  PROVE  receipt[s] = NoReceipt /\ s \notin indexed /\ phase = "serving"
BY DEF PoolInv, LedgerInv, Kept, Idle

(* A step of run_one that writes nothing and offers nothing.               *)
LEMMA QuietStep ==
  ASSUME IInv, LedgerInv, NEW s \in Sessions, SessionStep(s),
         UNCHANGED <<publishVars, ledgerVars, globalEvent>>, pc'[s] # "done",
         ev'[s] = "uncertain" => globalEvent = "uncertain",
         Counted(s)', Offered(s)'
  PROVE  LedgerInv'
<1>1. OnlySelf(s)
  BY SelfStep DEF IInv
<1>2. pc[s] \notin Idle /\ UNCHANGED phase
  BY PoolEffect
<1>3. receipt[s] = NoReceipt /\ s \notin indexed
  BY <1>2, NotYet DEF IInv
<1>4. Forward /\ StoreAgrees'
  BY <1>2 DEF Forward, ledgerVars, LedgerInv, StoreAgrees
<1>5. Kept(s)'
  BY <1>3 DEF Kept, Accounted, ledgerVars
<1> QED BY <1>1, <1>4, <1>5, LedgerFrame DEF Holds

-----------------------------------------------------------------------------
(* What is handed to _persist before anything was published.               *)
Unpublished(s, p) ==
  /\ p.pubs = 0 /\ p.status # "SUCCEEDED"
  /\ p.status = "CANCELLED" => p.proof = "proven"
  /\ p.status = "FAILED" => p.proof # "unproven"
  /\ p.started /\ p.status # "UNKNOWN" => p.proof = "proven"
  /\ p.status = "UNKNOWN" /\ p.proof = "proven" =>
       p.reason = "uncertain" /\ globalEvent = "uncertain"

(* Such a verdict is in order.                                             *)
LEMMA OfferedEarly ==
  ASSUME TypeOK, NEW s \in Sessions, NEW p, Persisting(s, p), Unpublished(s, p),
         Unoffered(s) \/ impaired, p.status # "UNKNOWN" => s \notin live',
         Counted(s),
         UNCHANGED <<publishVars, contrib, globalEvent, impaired>>
  PROVE  Counted(s)' /\ Offered(s)' /\ pc'[s] = "persisting"
<1> USE LedgerShape
<1>1. pc'[s] = "persisting" /\ pend'[s] = p
  BY DEF Persisting
<1>2. Counted(s)'
  BY <1>1 DEF Counted, Unoffered, publishVars
<1>3. impaired' \/ Legal(s, p)'
  BY DEF Unpublished, Legal, Unoffered, publishVars
<1>4. Offered(s)'
  BY <1>1, <1>3 DEF Offered, Unpublished, publishVars
<1> QED BY <1>1, <1>2, <1>4

(* A cohort-wide uncertain event is the only one of that name.             *)
LEMMA UncertainIsGlobal ==
  ASSUME NEW s, EventFor(s) = "uncertain" PROVE globalEvent = "uncertain"
BY DEF EventFor

(* run_one decides whether to start: it starts, or says why it did not.     *)
LEMMA ActivatedKeeps ==
  ASSUME IInv, LedgerInv, NEW s \in Sessions, Activated(s) PROVE LedgerInv'
<1>1. /\ TypeOK /\ Counted(s) /\ pc[s] = "activating" /\ SessionStep(s)
      /\ UNCHANGED <<publishVars, contrib, ledgerVars, ev, globalEvent, impaired>>
      /\ s \notin live
  BY DEF IInv, LedgerInv, Activated, SessionStep, CustodyInv, Custody, guardVars, ledgerVars
<1>2. Unoffered(s) /\ ev[s] = "none"
  BY <1>1 DEF Counted, IInv, DoubtInv, Doubt
<1>3. CASE pc' = [pc EXCEPT ![s] = "starting"]
  <2>1. pc'[s] = "starting"
    BY <1>1, <1>3, LedgerShape
  <2>2. Counted(s)' /\ Offered(s)'
    BY <2>1, <1>1, <1>2, LedgerShape DEF Counted, Offered, Unoffered, publishVars
  <2> QED BY <2>1, <2>2, <1>1, <1>2, QuietStep
<1>4. ASSUME NEW p, Persisting(s, p), Unpublished(s, p), UNCHANGED live PROVE LedgerInv'
  BY <1>1, <1>2, <1>4, OfferedEarly, QuietStep
<1>5. CASE ~(pc' = [pc EXCEPT ![s] = "starting"])
  <2> DEFINE e == EventFor(s)
  <2>1. UNCHANGED live
    BY <1>5 DEF Activated
  <2>2. CASE e # "none"
    <3> DEFINE p == NotStarted(ResourceStatus(e, "proven"), ReasonFor(e))
    <3>1. Persisting(s, p) BY <2>2 DEF Activated
    <3>2. Unpublished(s, p)
      BY UncertainIsGlobal
         DEF Unpublished, NotStarted, Verdict, ResourceStatus, ReasonFor
    <3> HIDE DEF p
    <3> QED BY <1>4, <2>1, <3>1, <3>2
  <2>3. CASE e = "none"
    <3>1. \/ Persisting(s, NotStarted("CANCELLED", "other"))
          \/ Persisting(s, NotStarted("FAILED", "other"))
          \/ Persisting(s, Verdict("FAILED", "none", FALSE, "none", 0, "other"))
      BY <1>5, <2>3 DEF Activated
    <3>2. /\ Unpublished(s, NotStarted("CANCELLED", "other"))
          /\ Unpublished(s, NotStarted("FAILED", "other"))
          /\ Unpublished(s, Verdict("FAILED", "none", FALSE, "none", 0, "other"))
      BY DEF Unpublished, NotStarted, Verdict
    <3> QED BY <1>4, <2>1, <3>1, <3>2
  <2> QED BY <2>2, <2>3
<1> QED BY <1>3, <1>5

(* A start that gave no handle hands over a verdict without contributions.  *)
LEMMA NoHandleKeeps ==
  ASSUME IInv, LedgerInv, NEW s \in Sessions, SessionStep(s),
         pc[s] \in {"starting", "aborting"},
         NEW proof \in PossibleProofs, NoHandle(s, proof),
         UNCHANGED <<publishVars, contrib, ledgerVars, globalEvent, impaired>>
  PROVE  LedgerInv'
<1> DEFINE e == EventFor(s)
           status == IF proof # "proven" \/ e = "uncertain" THEN "UNKNOWN"
                     ELSE IF e = "disk" \/ (e = "none" /\ stopNew) THEN "CANCELLED"
                     ELSE "FAILED"
           reason == IF proof = "proven" THEN ReasonFor(e) ELSE "other"
           p == Verdict(status, proof, FALSE, "none", 0, reason)
<1>1. /\ Persisting(s, p) /\ UNCHANGED ev
      /\ live' = IF proof = "proven" THEN live \ {s} ELSE live
  BY DEF NoHandle
<1>2. Unpublished(s, p)
  BY UncertainIsGlobal DEF Unpublished, Verdict, ReasonFor
<1>3. p.status # "UNKNOWN" => s \notin live'
  BY <1>1 DEF Verdict
<1> HIDE DEF p
<1>4. TypeOK /\ Counted(s) /\ Unoffered(s) /\ ev[s] = "none"
  BY DEF IInv, LedgerInv, Counted, DoubtInv, Doubt
<1>5. Counted(s)' /\ Offered(s)' /\ pc'[s] = "persisting"
  BY <1>1, <1>2, <1>3, <1>4, OfferedEarly
<1> QED BY <1>1, <1>4, <1>5, QuietStep

(* From backend.start to a handle or its absence.                           *)
LEMMA StartingKeeps ==
  ASSUME IInv, LedgerInv, NEW s \in Sessions,
         StartReturns(s) \/ StartCancelled(s) \/ AbortJoined(s)
  PROVE  LedgerInv'
<1>1. /\ TypeOK /\ Counted(s) /\ pc[s] \in {"starting", "aborting"} /\ SessionStep(s)
      /\ UNCHANGED <<publishVars, contrib, ledgerVars, globalEvent, impaired>>
  BY DEF IInv, LedgerInv, StartReturns, StartCancelled, AbortJoined, SessionStep,
         Started, guardVars, ledgerVars, localVars
<1>2. Unoffered(s) /\ ev[s] = "none" /\ Kept(s)
  BY <1>1 DEF Counted, IInv, DoubtInv, Doubt, LedgerInv
<1>3. ASSUME NEW proof \in PossibleProofs, NoHandle(s, proof) PROVE LedgerInv'
  BY <1>1, <1>3, NoHandleKeeps
<1>4. ASSUME NEW q \in {"aborting", "running", "stopping"}, pc' = [pc EXCEPT ![s] = q],
             ev'[s] \in {"none", EventFor(s)}
      PROVE  LedgerInv'
  <2>1. pc'[s] = q
    BY <1>1, <1>4, LedgerShape
  <2>2. Counted(s)' /\ Offered(s)'
    BY <2>1, <1>1, <1>2, LedgerShape DEF Counted, Offered, Unoffered, publishVars
  <2>3. ev'[s] = "uncertain" => globalEvent = "uncertain"
    BY <1>4, UncertainIsGlobal
  <2> QED BY <2>1, <2>2, <2>3, <1>1, QuietStep
<1>5. CASE HandlePublished(s)
  <2>1. /\ \E q \in {"stopping", "running"} : pc' = [pc EXCEPT ![s] = q]
        /\ ev'[s] \in {"none", EventFor(s)}
    BY <1>1, <1>2, <1>5, LedgerShape DEF HandlePublished
  <2> QED BY <2>1, <1>4
<1>6. CASE pc' = [pc EXCEPT ![s] = "aborting"] /\ UNCHANGED ev
  BY <1>2, <1>4, <1>6
<1> QED
  BY <1>3, <1>5, <1>6 DEF StartReturns, StartCancelled, AbortJoined, localVars

(* The wait ends, by the backend or by a signal.                            *)
LEMMA RunningKeeps ==
  ASSUME IInv, LedgerInv, NEW s \in Sessions, WaitCompletes(s) \/ Interrupted(s)
  PROVE  LedgerInv'
<1>1. /\ TypeOK /\ Counted(s) /\ pc[s] = "running" /\ SessionStep(s)
      /\ UNCHANGED <<publishVars, ledgerVars, globalEvent, impaired>>
      /\ pc' = [pc EXCEPT ![s] = "stopping"]
  BY DEF IInv, LedgerInv, WaitCompletes, Interrupted, SessionStep, guardVars, ledgerVars
<1>2. Unoffered(s) /\ ev[s] = "none"
  BY <1>1 DEF Counted, IInv, DoubtInv, Doubt
<1>3. pc'[s] = "stopping"
  BY <1>1, LedgerShape
<1>4. Counted(s)' /\ Offered(s)'
  BY <1>3, <1>1, <1>2, LedgerShape DEF Counted, Offered, Unoffered, publishVars
<1>5. ev'[s] \in {"none", EventFor(s)}
  BY <1>1, <1>2, LedgerShape DEF WaitCompletes, Interrupted
<1>6. ev'[s] = "uncertain" => globalEvent = "uncertain"
  BY <1>5, UncertainIsGlobal
<1> QED BY <1>1, <1>3, <1>4, <1>6, QuietStep

(* A stop returns with a proof or without one.                              *)
LEMMA StoppingKeeps ==
  ASSUME IInv, LedgerInv, NEW s \in Sessions, StopReturns(s) PROVE LedgerInv'
<1>1. /\ TypeOK /\ Counted(s) /\ Kept(s) /\ SessionStep(s) /\ (unsafe => stopNew)
      /\ UNCHANGED <<publishVars, contrib, ledgerVars, ev, globalEvent, impaired>>
  BY DEF IInv, DoubtInv, LedgerInv, StopReturns, SessionStep, guardVars, ledgerVars,
         localVars
<1>2. PICK proof \in {"proven", "unproven"} : Stopped(s, proof)
  BY <1>1, StopEffect
<1>3. pc[s] = "stopping"
  BY <1>2 DEF Stopped
<1>4. ev[s] = "uncertain" => globalEvent = "uncertain"
  BY <1>1 DEF Kept
<1>5. CASE pc' = [pc EXCEPT ![s] = "finishing"] /\ why[s] = "confirm"
  <2>1. pc'[s] = "finishing" /\ Unoffered(s)
    BY <1>1, <1>3, <1>5, LedgerShape DEF Counted
  <2>2. Counted(s)' /\ Offered(s)'
    BY <2>1, <1>1, LedgerShape DEF Counted, Offered, Unoffered, publishVars
  <2> QED BY <2>1, <2>2, <1>1, <1>4, QuietStep
<1>6. ASSUME NEW o \in {"none", "success", "failure"},
             Persisting(s, Verdict(StoppedStatus(why[s], ev[s], proof), proof, TRUE,
                                   o, 0, ReasonFor(ev[s])))
      PROVE  LedgerInv'
  <2> DEFINE p == Verdict(StoppedStatus(why[s], ev[s], proof), proof, TRUE, o, 0,
                          ReasonFor(ev[s]))
  <2>1. Unpublished(s, p)
    BY <1>4 DEF Unpublished, Verdict, ReasonFor, StoppedStatus, ResourceStatus
  <2>2. p.status # "UNKNOWN" => s \notin live'
    BY <1>2 DEF Stopped, Verdict, StoppedStatus, ResourceStatus
  <2>3. Persisting(s, p)
    BY <1>6
  <2> HIDE DEF p
  <2>4. Unoffered(s) \/ impaired
    BY <1>1, <1>3 DEF Counted
  <2>5. Counted(s)' /\ Offered(s)' /\ pc'[s] = "persisting"
    BY <1>1, <2>1, <2>2, <2>3, <2>4, OfferedEarly
  <2> QED BY <2>5, <1>1, <1>4, QuietStep
<1> QED BY <1>2, <1>5, <1>6 DEF Stopped

(* The last measurement decides whether anything is published.              *)
LEMMA MeasuredKeeps ==
  ASSUME IInv, LedgerInv, NEW s \in Sessions, Measured(s) PROVE LedgerInv'
<1> DEFINE e == EventFor(s)
<1>1. /\ TypeOK /\ Counted(s) /\ pc[s] = "finishing" /\ SessionStep(s)
      /\ UNCHANGED <<publishVars, contrib, ledgerVars, ev, globalEvent, impaired, live,
                     launched>>
      /\ s \notin live /\ s \in launched
  BY DEF IInv, LedgerInv, Measured, SessionStep, CustodyInv, Custody, ownVars,
         localVars, ledgerVars
<1>2. ev[s] = "uncertain" => globalEvent = "uncertain"
  BY DEF LedgerInv, Kept
<1>3. Unoffered(s)
  BY <1>1 DEF Counted
<1>4. ASSUME NEW p, Persisting(s, p), Unpublished(s, p) PROVE LedgerInv'
  <2>1. Counted(s)' /\ Offered(s)' /\ pc'[s] = "persisting"
    BY <1>1, <1>3, <1>4, OfferedEarly
  <2> QED BY <2>1, <1>1, <1>2, QuietStep
<1>5. CASE e # "none"
  <2> DEFINE p == Verdict(ResourceStatus(e, "proven"), "proven", TRUE, outcome[s], 0,
                          ReasonFor(e))
  <2>1. Persisting(s, p) BY <1>5 DEF Measured
  <2>2. Unpublished(s, p)
    BY UncertainIsGlobal DEF Unpublished, Verdict, ResourceStatus, ReasonFor
  <2> HIDE DEF p
  <2> QED BY <2>1, <2>2, <1>4
<1>6. CASE e = "none" /\ outcome[s] = "failure"
  <2> DEFINE p == Verdict("FAILED", "proven", TRUE, "failure", 0, "other")
  <2>1. Persisting(s, p) BY <1>6 DEF Measured
  <2>2. Unpublished(s, p) BY DEF Unpublished, Verdict
  <2> HIDE DEF p
  <2> QED BY <2>1, <2>2, <1>4
<1>7. CASE e = "none" /\ outcome[s] # "failure" /\ contrib[s] = 0
  <2> DEFINE p == Verdict("SUCCEEDED", "proven", TRUE, "success", 0, "other")
  <2>1. Persisting(s, p) BY <1>7 DEF Measured
  <2>2. pc'[s] = "persisting" /\ pend'[s] = p
    BY <1>1, <2>1, LedgerShape DEF Persisting
  <2>3. Counted(s)'
    BY <2>2, <1>1, <1>3 DEF Counted, Unoffered, publishVars
  <2>4. Offered(s)'
    BY <2>2, <1>1, <1>3, <1>7
       DEF Offered, Legal, Complete, Unoffered, Verdict, publishVars
  <2> QED BY <2>2, <2>3, <2>4, <1>1, <1>2, QuietStep
<1>8. CASE e = "none" /\ outcome[s] # "failure" /\ contrib[s] # 0
  <2>1. pc'[s] = "publishing"
    BY <1>1, <1>8, LedgerShape DEF Measured
  <2>2. Counted(s)'
    BY <2>1, <1>1, <1>3, <1>8, LedgerShape DEF Counted, Unoffered, publishVars
  <2>3. Offered(s)'
    BY <2>1 DEF Offered
  <2> QED BY <2>1, <2>2, <2>3, <1>1, <1>2, QuietStep
<1> QED BY <1>5, <1>6, <1>7, <1>8

(* A contribution is admitted, rejected or lost.                            *)
LEMMA PublishKeeps ==
  ASSUME IInv, LedgerInv, NEW s \in Sessions, PublishOne(s) PROVE LedgerInv'
<1> USE LedgerShape
<1>1. /\ TypeOK /\ Counted(s) /\ Kept(s) /\ pc[s] = "publishing" /\ SessionStep(s)
      /\ UNCHANGED <<contrib, ev, globalEvent, impaired, storeFailed, receipt, indexed,
                     live, launched, phase>>
      /\ s \notin live /\ s \in launched
  BY DEF IInv, LedgerInv, PublishOne, SessionStep, CustodyInv, Custody, poolVars,
         ownVars, localVars, guardVars, ledgerVars
<1>2. /\ pubs[s] + rejected[s] < contrib[s] /\ pubs[s] = admitted[s]
      /\ PublisherBound \/ Unoffered(s)
  BY <1>1 DEF Counted
<1>3. OnlySelf(s) /\ Forward /\ StoreAgrees'
  BY <1>1, SelfStep DEF Forward, LedgerInv, StoreAgrees
<1>4. receipt[s] = NoReceipt /\ s \notin indexed
  BY <1>1, NotYet DEF IInv, Idle
<1>5. ASSUME pc'[s] # "done", Counted(s)', Offered(s)' PROVE LedgerInv'
  <2>1. Kept(s)'
    BY <1>1, <1>4, <1>5 DEF Kept, Accounted
  <2> QED BY <1>3, <1>5, <2>1, LedgerFrame DEF Holds
<1>6. /\ pubs'[s] \in Nat /\ rejected'[s] \in Nat /\ admitted'[s] \in Nat
      /\ pubs'[s] <= admitted'[s] /\ pubs'[s] + rejected'[s] <= contrib[s]
      /\ PublisherBound \/ UNCHANGED publishVars
  BY <1>1, <1>2 DEF PublishOne, publishVars
<1>7. ASSUME NEW n \in {pubs[s], pubs[s] + 1}, PublishFails(s, n), n <= admitted'[s],
             n + rejected'[s] <= contrib[s], PublisherBound \/ n = 0
      PROVE  LedgerInv'
  <2> DEFINE p == Verdict("FAILED", "proven", TRUE, "success", n, "other")
  <2>1. pc'[s] = "persisting" /\ pend'[s] = p
    BY <1>1, <1>7 DEF PublishFails, Persisting
  <2>2. Counted(s)'
    BY <2>1, <1>6 DEF Counted
  <2>3. Legal(s, p)'
    BY <1>1, <1>2, <1>6, <1>7 DEF Legal, Verdict
  <2>4. Offered(s)'
    BY <2>1, <2>3, <1>1, <1>7 DEF Offered, Verdict
  <2> QED BY <2>1, <2>2, <2>4, <1>5
<1>8. ASSUME PublishGoesOn(s, pubs[s] + rejected[s] + 1, pubs'[s]),
             pubs'[s] + rejected'[s] = pubs[s] + rejected[s] + 1,
             pubs'[s] = admitted'[s], PublisherBound
      PROVE  LedgerInv'
  <2>1. CASE pubs[s] + rejected[s] + 1 = contrib[s]
    <3> DEFINE p == Verdict("SUCCEEDED", "proven", TRUE, "success", pubs'[s], "other")
    <3>1. Persisting(s, p)
      BY <1>8, <2>1 DEF PublishGoesOn
    <3>2. pc'[s] = "persisting" /\ pend'[s] = p
      BY <3>1, <1>1 DEF Persisting
    <3>3. Counted(s)'
      BY <3>2, <1>6 DEF Counted
    <3>4. Legal(s, pend[s])' /\ Complete(s, pend[s])'
      BY <3>2, <1>1, <1>2, <1>6, <1>8, <2>1 DEF Legal, Complete, Verdict
    <3>5. Offered(s)'
      BY <3>2, <3>4, <1>1, <1>6 DEF Offered, Verdict
    <3> QED BY <3>2, <3>3, <3>5, <1>5
  <2>2. CASE pubs[s] + rejected[s] + 1 # contrib[s]
    <3>1. UNCHANGED pc
      BY <1>8, <2>2 DEF PublishGoesOn
    <3>2. Counted(s)'
      BY <3>1, <1>1, <1>2, <1>6, <1>8, <2>2 DEF Counted
    <3>3. Offered(s)'
      BY <3>1, <1>1 DEF Offered
    <3> QED BY <3>1, <3>2, <3>3, <1>1, <1>5
  <2> QED BY <2>1, <2>2
<1>9. pubs[s] \in Nat /\ rejected[s] \in Nat /\ contrib[s] \in Nat
  BY <1>1
<1>10. CASE /\ PublishFails(s, pubs[s]) /\ pubs[s] <= admitted'[s] /\ UNCHANGED rejected
            /\ PublisherBound \/ pubs[s] = 0
  BY <1>2, <1>7, <1>9, <1>10
<1>11. CASE /\ PublishFails(s, pubs[s] + 1) /\ pubs[s] + 1 <= admitted'[s]
            /\ UNCHANGED rejected /\ PublisherBound
  BY <1>2, <1>7, <1>9, <1>11
<1>12. CASE /\ PublishGoesOn(s, pubs[s] + rejected[s] + 1, pubs'[s])
            /\ pubs'[s] + rejected'[s] = pubs[s] + rejected[s] + 1
            /\ pubs'[s] = admitted'[s] /\ PublisherBound
  BY <1>8, <1>12
<1> QED
  BY <1>1, <1>2, <1>10, <1>11, <1>12 DEF PublishOne, publishVars, Unoffered

(* The last measurement changes a verdict's status and reason only, and    *)
(* never to a better one.                                                  *)
LEMMA RewrittenAs ==
  ASSUME NEW p \in Verdicts, NEW e, NEW q, q = Rewritten(p, e)
  PROVE  /\ q \in Verdicts
         /\ q.proof = p.proof /\ q.started = p.started /\ q.outcome = p.outcome
         /\ q.pubs = p.pubs
         /\ \/ e = "uncertain" /\ q.status = "UNKNOWN" /\ q.reason = "uncertain"
            \/ /\ e \notin {"none", "uncertain"} /\ p.started /\ p.status # "UNKNOWN"
               /\ q.status = "FAILED" /\ q.reason = "other"
            \/ q = p
BY DEF Verdicts, Statuses, Rewritten

(* A receipt of a legal verdict satisfies _validate_receipt_value.         *)
LEMMA LegalIsAccepted ==
  ASSUME TypeOK, NEW s \in Sessions, NEW p \in Verdicts, Legal(s, p),
         p.status = "SUCCEEDED" => Complete(s, p)
  PROVE  ReceiptAccepted(ReceiptOf(s, Rewritten(p, EventFor(s))), EventFor(s))
<1> DEFINE e == EventFor(s)  q == Rewritten(p, e)  r == ReceiptOf(s, q)
<1>1. /\ q.proof = p.proof /\ q.started = p.started /\ q.outcome = p.outcome
      /\ q.pubs = p.pubs
      /\ \/ e = "uncertain" /\ q.status = "UNKNOWN" /\ q.reason = "uncertain"
         \/ /\ e \notin {"none", "uncertain"} /\ p.started /\ p.status # "UNKNOWN"
            /\ q.status = "FAILED" /\ q.reason = "other"
         \/ q = p
  BY RewrittenAs
<1>2. globalEvent = "uncertain" => e = "uncertain"
  BY DEF EventFor
<1> HIDE DEF e, q
<1>3. /\ r.status = q.status /\ r.proof = q.proof /\ r.started = q.started
      /\ r.outcome = q.outcome /\ r.pubs = q.pubs /\ r.rejected = rejected[s]
      /\ r.reason = q.reason
      /\ r.contrib = IF q.outcome = "none" THEN 0 ELSE contrib[s]
  BY DEF ReceiptOf
<1> HIDE DEF r
<1>4. ReceiptAccepted(r, e)
  BY <1>1, <1>2, <1>3, LedgerShape DEF ReceiptAccepted, Legal, Complete
<1> QED BY <1>4 DEF e, q, r

(* What the write of a session's only receipt leaves behind.               *)
LEMMA WriteKeeps ==
  ASSUME TypeOK, StoreAgrees, NEW s \in Sessions, NEW p \in Verdicts,
         s \notin indexed, receipt[s] # NoReceipt => impaired, Accounted(s),
         impaired \/ Legal(s, p), p.status = "SUCCEEDED" => Complete(s, p),
         p.pubs <= admitted[s], UNCHANGED admitted,
         WriteReceipt(s, ReceiptOf(s, Rewritten(p, EventFor(s))), EventFor(s))
  PROVE  /\ StoreAgrees' /\ (impaired => impaired') /\ Accounted(s)'
         /\ s \in indexed' => receipt'[s] # NoReceipt
         /\ s \notin indexed' => impaired'
<1> DEFINE e == EventFor(s)  q == Rewritten(p, e)  r == ReceiptOf(s, q)
<1> USE LedgerShape
<1>1. impaired \/ Fits(s, r, e)
  BY LegalIsAccepted DEF Fits
<1>2. /\ q \in Verdicts /\ q.proof = p.proof /\ q.pubs = p.pubs
      /\ q.outcome = p.outcome
      /\ q.status \in {p.status, "FAILED", "UNKNOWN"}
  BY RewrittenAs
<1> HIDE DEF q
<1>3. /\ Durable(r).status = q.status /\ Durable(r).pubs = q.pubs
      /\ Durable(r).rejected = rejected[s]
      /\ Durable(r).contrib = IF q.outcome = "none" THEN 0 ELSE contrib[s]
  BY DEF Durable, ReceiptOf
<1>4. Durable(r) # NoReceipt
  BY <1>2, <1>3 DEF NoReceipt, Verdicts, Statuses
<1> HIDE DEF r, e
<1>5. \/ /\ receipt' = [receipt EXCEPT ![s] = Durable(r)]
         /\ indexed' = indexed \cup {s} /\ UNCHANGED <<storeFailed, impaired>>
      \/ /\ receipt' \in {receipt, [receipt EXCEPT ![s] = Durable(r)]}
         /\ UNCHANGED indexed /\ impaired' = TRUE
      \/ UNCHANGED <<receipt, indexed, impaired>> /\ ~Fits(s, r, e)
  BY DEF WriteReceipt, e, q, r
<1>6. (impaired => impaired') /\ StoreAgrees'
  BY <1>1, <1>5 DEF StoreAgrees
<1>7. /\ s \in indexed' => receipt'[s] # NoReceipt
      /\ s \notin indexed' => impaired'
  BY <1>1, <1>4, <1>5
<1>8. receipt'[s] \in {receipt[s], Durable(r)} /\ (receipt'[s] = receipt[s] => impaired')
  BY <1>1, <1>4, <1>5
<1>9. Accounted(s)'
  <2>1. CASE receipt'[s] = receipt[s]
    BY <2>1, <1>6, <1>8 DEF Accounted
  <2>2. CASE receipt'[s] = Durable(r)
    <3>1. q.status = "SUCCEEDED" => Complete(s, p) /\ q.outcome # "none"
      BY <1>2 DEF Complete
    <3>2. ~impaired' /\ admitted[s] > 0 =>
            q.status # "CANCELLED" /\ q.outcome # "none" /\ contrib[s] > 0
      BY <1>2, <1>6 DEF Legal
    <3> QED BY <2>2, <3>1, <3>2, <1>2, <1>3 DEF Accounted, Complete, Verdicts, Statuses
  <2> QED BY <2>1, <2>2, <1>8
<1> QED BY <1>6, <1>7, <1>9

(* _persist writes the session's receipt.                                   *)
LEMMA PersistKeeps ==
  ASSUME IInv, LedgerInv, NEW s \in Sessions, Persist(s) PROVE LedgerInv'
<1> USE LedgerShape
<1>1. /\ TypeOK /\ Counted(s) /\ Offered(s) /\ Kept(s) /\ StoreAgrees
      /\ pc[s] = "persisting" /\ SessionStep(s)
      /\ UNCHANGED <<phase, rejected, admitted, globalEvent, live>>
      /\ pend[s] \in Verdicts
  BY DEF IInv, LedgerInv, Persist, SessionStep, Persisted, poolVars, TypeOK, PointTyped
<1>2. OnlySelf(s) /\ receipt[s] = NoReceipt /\ s \notin indexed
  BY <1>1, SelfStep, NotYet DEF IInv, Idle
<1>3. /\ StoreAgrees' /\ (impaired => impaired') /\ Accounted(s)'
      /\ s \in indexed' => receipt'[s] # NoReceipt
      /\ s \notin indexed' => impaired'
  <2>1. WriteReceipt(s, ReceiptOf(s, Rewritten(pend[s], EventFor(s))), EventFor(s))
    BY DEF Persist
  <2>2. /\ impaired \/ Legal(s, pend[s])
        /\ pend[s].pubs <= admitted[s]
        /\ pend[s].status = "SUCCEEDED" => Complete(s, pend[s])
    BY <1>1 DEF Offered
  <2>3. Accounted(s)
    BY <1>1 DEF Kept
  <2> QED BY <2>1, <2>2, <2>3, <1>1, <1>2, WriteKeeps
<1>4. pc'[s] = "done" /\ pubs'[s] = 0 /\ ev'[s] = "none"
  BY <1>1 DEF Persist, RunOneReturns
<1>5. Counted(s)'
  BY <1>1, <1>4 DEF Counted
<1>6. Offered(s)' /\ Kept(s)'
  BY <1>3, <1>4 DEF Offered, Kept
<1> QED BY <1>1, <1>2, <1>3, <1>5, <1>6, LedgerFrame DEF Holds, Forward

(* The receipt cannot be built: the launch is impaired for good.            *)
LEMMA PersistRaisesKeeps ==
  ASSUME IInv, LedgerInv, NEW s \in Sessions, PersistRaises(s) PROVE LedgerInv'
<1> USE LedgerShape
<1>1. /\ TypeOK /\ Counted(s) /\ Kept(s) /\ impaired'
      /\ pc[s] = "persisting" /\ SessionStep(s)
      /\ UNCHANGED <<phase, rejected, admitted, globalEvent, live, receipt, indexed,
                     storeFailed>>
  BY DEF IInv, LedgerInv, PersistRaises, SessionStep, Persisted
<1>2. OnlySelf(s) /\ receipt[s] = NoReceipt /\ s \notin indexed
  BY <1>1, SelfStep, NotYet DEF IInv, Idle
<1>3. Forward /\ StoreAgrees'
  BY <1>1 DEF Forward, StoreAgrees
<1>4. \/ pc'[s] = "done" /\ pubs'[s] = 0
      \/ pc'[s] = "stopping" /\ why'[s] = "host" /\ pubs'[s] = pubs[s]
      \/ /\ pc'[s] = "persisting" /\ pubs'[s] = pubs[s]
         /\ pend'[s] = Verdict("FAILED", "none", FALSE, "none", 0, "other")
  <2>1. CASE s \in handler
    <3>1. RunOneReturns(s)
      BY <2>1 DEF PersistRaises
    <3> QED BY <1>1, <3>1 DEF RunOneReturns
  <2>2. CASE s \notin handler /\ s \in started
    <3>1. /\ pc' = [pc EXCEPT ![s] = "stopping"] /\ why' = [why EXCEPT ![s] = "host"]
          /\ UNCHANGED pubs
      BY <2>2 DEF PersistRaises
    <3> QED BY <1>1, <3>1
  <2>3. CASE s \notin handler /\ s \notin started
    <3>1. /\ Persisting(s, Verdict("FAILED", "none", FALSE, "none", 0, "other"))
          /\ UNCHANGED pubs
      BY <2>3 DEF PersistRaises
    <3> QED BY <1>1, <3>1 DEF Persisting
  <2> QED BY <2>1, <2>2, <2>3
<1>5. Counted(s)'
  <2>1. pubs[s] \in Nat /\ admitted[s] \in Nat /\ pubs[s] <= admitted[s]
    BY <1>1 DEF Counted
  <2>a. admitted'[s] = admitted[s]
    BY <1>1
  <2>b. pubs'[s] = 0 \/ pubs'[s] = pubs[s]
    BY <1>4
  <2>2. pubs'[s] <= admitted'[s]
    BY <2>1, <2>a, <2>b
  <2>3. pc'[s] \in {"done", "persisting"} \/ (pc'[s] = "stopping" /\ why'[s] = "host")
    BY <1>4
  <2>4. CASE pc'[s] \in {"done", "persisting"}
    BY <2>2, <2>4 DEF Counted
  <2>5. CASE pc'[s] = "stopping" /\ why'[s] = "host"
    BY <1>1, <2>2, <2>5 DEF Counted
  <2> QED BY <2>3, <2>4, <2>5
<1>6. Offered(s)'
  BY <1>1, <1>4 DEF Offered, Verdict
<1>7. ev'[s] \in {"none", ev[s]}
  BY <1>1 DEF PersistRaises, RunOneReturns
<1>8. Kept(s)'
  BY <1>1, <1>2, <1>7 DEF Kept, Accounted
<1> QED BY <1>2, <1>3, <1>5, <1>6, <1>8, LedgerFrame DEF Holds

(* settle_missing writes a receipt for a session that has none.             *)
LEMMA SettleMissingKeeps ==
  ASSUME IInv, LedgerInv, NEW s \in Sessions, SettleMissing(s) PROVE LedgerInv'
<1> USE LedgerShape
<1>1. /\ TypeOK /\ Counted(s) /\ Offered(s) /\ Kept(s) /\ StoreAgrees
      /\ phase = "settling" /\ s \notin indexed
      /\ UNCHANGED <<phase, pubs, rejected, admitted, globalEvent, live, launched,
                     contrib, pc, pend, why, ev>>
  BY DEF IInv, LedgerInv, SettleMissing, NextMissing, poolVars, ownVars, localVars,
         publishVars
<1>2. pc[s] \in Idle
  BY <1>1 DEF IInv, PoolInv
<1>3. ~impaired => Unoffered(s) /\ receipt[s] = NoReceipt
  BY <1>1, <1>2 DEF Counted, Kept, Idle
<1> DEFINE p == NotStarted("CANCELLED", "other")
<1>4. /\ p \in Verdicts /\ p.pubs = 0 /\ p.pubs <= admitted[s] /\ p.status # "SUCCEEDED"
      /\ impaired \/ Legal(s, p)
  BY <1>1, <1>3 DEF NotStarted, Verdict, Verdicts, Statuses, Proofs, Legal, Unoffered
<1>5. WriteReceipt(s, ReceiptOf(s, Rewritten(p, EventFor(s))), EventFor(s))
  BY DEF SettleMissing
<1> HIDE DEF p
<1>6. /\ StoreAgrees' /\ (impaired => impaired') /\ Accounted(s)'
      /\ s \in indexed' => receipt'[s] # NoReceipt
      /\ s \notin indexed' => impaired'
  BY <1>1, <1>3, <1>4, <1>5, WriteKeeps DEF Kept
<1>7. Holds(s)'
  <2>1. Counted(s)'
    BY <1>1, <1>6 DEF Counted, Unoffered
  <2>2. Offered(s)'
    BY <1>1, <1>2 DEF Offered, Idle
  <2>3. Kept(s)'
    BY <1>1, <1>6 DEF Kept
  <2> QED BY <2>1, <2>2, <2>3 DEF Holds
<1>8. ASSUME NEW t \in Sessions, t # s PROVE Holds(t)'
  <2>1. /\ receipt'[t] = receipt[t] /\ (t \in indexed' <=> t \in indexed)
    BY <1>1, <1>8 DEF SettleMissing, WriteReceipt
  <2>2. Same(t)
    BY <2>1, <1>1 DEF Same
  <2>3. Forward
    BY <1>1, <1>6 DEF Forward
  <2>4. Holds(t)
    BY DEF Holds, LedgerInv
  <2> QED BY <2>2, <2>3, <2>4, SameHolds
<1> QED BY <1>1, <1>6, <1>7, <1>8 DEF LedgerInv, Holds

(* A worker takes a session of which there is no record yet.               *)
LEMMA TakeKeeps ==
  ASSUME IInv, LedgerInv, NEW w \in Workers, Take(w) PROVE LedgerInv'
<1> USE LedgerShape
<1>1. /\ TypeOK /\ PoolInv /\ StoreAgrees /\ phase = "serving"
      /\ UNCHANGED <<phase, ev, why, contrib, pubs, rejected, admitted, globalEvent,
                     receipt, indexed, storeFailed, impaired, live, launched>>
  BY DEF IInv, LedgerInv, Take, publishVars, guardVars, ledgerVars
<1>2. PICK s \in Sessions : Taken(w, s)
  BY <1>1, TakeEffect
<1>3. /\ pc[s] = "queued" /\ Counted(s) /\ Kept(s) /\ s \notin live
  BY <1>2 DEF Taken, LedgerInv, IInv, CustodyInv, Custody
<1>4. Unoffered(s) /\ receipt[s] = NoReceipt /\ s \notin indexed
  BY <1>1, <1>3 DEF Counted, Kept
<1>5. \/ pc'[s] = "activating"
      \/ /\ pc'[s] = "persisting"
         /\ pend'[s] = Verdict("FAILED", "none", FALSE, "none", 0, "other")
  BY <1>1, <1>2 DEF Taken
<1>6. Counted(s)'
  <2>1. Unoffered(s)' /\ pc'[s] \in {"activating", "persisting"}
    BY <1>1, <1>4, <1>5 DEF Unoffered
  <2> QED BY <2>1 DEF Counted, Unoffered
<1>7. Offered(s)'
  BY <1>1, <1>3, <1>4, <1>5 DEF Offered, Legal, Verdict, Unoffered
<1>8. Kept(s)'
  BY <1>1, <1>3, <1>4, <1>5 DEF Kept, Accounted
<1>9. ASSUME NEW t \in Sessions, t # s PROVE Holds(t)'
  <2>1. pc'[t] = pc[t] /\ pend'[t] = pend[t]
    BY <1>1, <1>2, <1>9 DEF Taken
  <2>2. Same(t) /\ Forward /\ Holds(t)
    BY <2>1, <1>1 DEF Same, Forward, Holds, LedgerInv
  <2> QED BY <2>2, SameHolds
<1> QED BY <1>1, <1>6, <1>7, <1>8, <1>9 DEF LedgerInv, Holds, StoreAgrees

(* Every step of a launch keeps the ledger in order.                        *)
LEMMA LedgerStep ==
  ASSUME IInv, LedgerInv, [Next]_vars PROVE LedgerInv'
<1>t. TypeOK /\ StoreAgrees /\ (phase = "launching" => globalEvent = "none")
  BY DEF IInv, LedgerInv
<1> USE DEF flagVars, poolVars, ownVars, localVars, publishVars, guardVars, ledgerVars,
            StoreAgrees, Forward
<1>1. ASSUME NEW e \in {"none", "disk", "uncertain"}, GuardStarts(e) PROVE LedgerInv'
  BY <1>1, <1>t, LedgerStill DEF GuardStarts
<1>2. ASSUME NEW w \in Workers, Take(w) PROVE LedgerInv'
  BY <1>2, TakeKeeps
<1>3. ASSUME NEW w \in Workers, WorkerExits(w) PROVE LedgerInv'
  BY <1>3, <1>t, LedgerStill DEF WorkerExits
<1>4. ASSUME NEW s \in Sessions, SessionStep(s) PROVE LedgerInv'
  BY <1>4, ActivatedKeeps, StartingKeeps, RunningKeeps, StoppingKeeps, MeasuredKeeps,
     PublishKeeps, PersistKeeps, PersistRaisesKeeps
     DEF SessionStep, Started, Persisted
<1>5. CASE BeginSettlement
  BY <1>5, <1>t, LedgerStill DEF BeginSettlement
<1>6. ASSUME NEW s \in Sessions, SettleMissing(s) PROVE LedgerInv'
  BY <1>6, SettleMissingKeeps
<1>7. ASSUME NEW s \in Sessions, SettleMissingRaises(s) PROVE LedgerInv'
  BY <1>7, <1>t, LedgerStill DEF SettleMissingRaises
<1>8. CASE Settle
  BY <1>8, <1>t, LedgerStill DEF Settle
<1>9. CASE CallerCancels
  BY <1>9, <1>t, LedgerStill DEF CallerCancels
<1>10. CASE DiskCheck
  BY <1>10, <1>t, LedgerStill DEF DiskCheck
<1>11. ASSUME NEW s \in Sessions, TreeScan(s) PROVE LedgerInv'
  BY <1>11, <1>t, LedgerStill DEF TreeScan
<1>12. CASE UNCHANGED vars
  BY <1>12, <1>t, LedgerStill DEF vars
<1> QED
  BY <1>1, <1>2, <1>3, <1>4, <1>5, <1>6, <1>7, <1>8, <1>9, <1>10, <1>11, <1>12
     DEF Next, SettlementStep, EnvironmentStep

-----------------------------------------------------------------------------
(* The ledger's invariant holds throughout.                                *)
THEOREM LedgerIsInductive == Spec => []LedgerInv
<1>1. Init => LedgerInv
  BY DEF Init, LedgerInv, StoreAgrees, Counted, Unoffered, Offered, Kept, Accounted
<1>2. IInv /\ LedgerInv /\ [Next]_vars => LedgerInv'
  BY LedgerStep
<1> QED BY <1>1, <1>2, Inductive, PTL DEF Spec

(* store.write_receipt refuses nothing that _persist or settle_missing     *)
(* builds, in any branch and after any rewriting by the guard.             *)
THEOREM StoreStaysAgreed == Spec => []StoreAgrees
<1>1. LedgerInv => StoreAgrees
  BY DEF LedgerInv
<1> QED BY <1>1, LedgerIsInductive, PTL

(* A receipt counts what the world admitted, and nothing else; only a      *)
(* failure below the host loses a publication from it.                     *)
THEOREM PublicationsStayAccounted == Spec => []PublicationsAccounted
<1>1. LedgerInv => PublicationsAccounted
  BY DEF LedgerInv, Kept, Accounted, PublicationsAccounted
<1> QED BY <1>1, LedgerIsInductive, PTL

-----------------------------------------------------------------------------
(* The launch as the reader of CohortContract sees it.                     *)
SlotOf == [s \in Sessions |-> IF s \in launched THEN runner[s] ELSE NoWorker]
StatusOf == [s \in Sessions |-> receipt[s].status]

(* A step that moves no backend and writes no record.                      *)
LEMMA Hidden ==
  ASSUME UNCHANGED <<live, launched, receipt, settlement, impaired>>,
         \A s \in launched : runner'[s] = runner[s]
  PROVE  UNCHANGED Contract!contractVars
<1>1. SlotOf' = SlotOf /\ StatusOf' = StatusOf
  BY DEF SlotOf, StatusOf
<1> QED BY <1>1 DEF SlotOf, StatusOf, Contract!contractVars

(* In particular one that leaves the workers' sessions alone.              *)
LEMMA HiddenSame ==
  ASSUME UNCHANGED <<ownVars, live, receipt, settlement, impaired>>
  PROVE  UNCHANGED Contract!contractVars
BY Hidden DEF ownVars

(* A step after which one backend may have stopped.                        *)
LEMMA QuiesceStep ==
  ASSUME NEW s \in Sessions, live' \in {live, live \ {s}},
         UNCHANGED <<ownVars, receipt, settlement, impaired>>
  PROVE  [Contract!Next]_(Contract!contractVars)
<1>1. SlotOf' = SlotOf /\ StatusOf' = StatusOf
  BY DEF SlotOf, StatusOf, ownVars
<1>2. CASE live' = live
  BY <1>2, HiddenSame
<1>3. CASE live' = live \ {s}
  <2>1. Contract!Quiesce(s)
    BY <1>1, <1>3 DEF SlotOf, StatusOf, Contract!Quiesce
  <2> QED BY <2>1 DEF Contract!Next
<1> QED BY <1>2, <1>3

(* A step in which the host broke.                                         *)
LEMMA ImpairStep ==
  ASSUME UNCHANGED <<ownVars, live, receipt, settlement>>, impaired' = TRUE
  PROVE  Contract!Next
<1>1. SlotOf' = SlotOf /\ StatusOf' = StatusOf
  BY DEF SlotOf, StatusOf, ownVars
<1>2. Contract!Impair
  BY <1>1 DEF SlotOf, StatusOf, Contract!Impair
<1> QED BY <1>2 DEF Contract!Next

(* backend.start is called in a slot nobody may still be running in.       *)
LEMMA LaunchStep ==
  ASSUME IInv, LedgerInv, NEW s \in Sessions, Activated(s),
         pc' = [pc EXCEPT ![s] = "starting"]
  PROVE  Contract!Next
<1>1. /\ pc[s] = "activating" /\ TypeOK
      /\ UNCHANGED <<runner, receipt, settlement, impaired>>
  BY DEF IInv, Activated, ledgerVars
<1>2. pc'[s] = "starting"
  BY <1>1, LedgerShape
<1>3. /\ ~stopNew /\ launched' = launched \cup {s} /\ live' = live \cup {s}
  BY <1>1, <1>2, LedgerShape DEF Activated, Persisting
<1>4. s \notin launched /\ runner[s] \in Workers /\ receipt[s] = NoReceipt
  BY <1>1, NotYet DEF IInv, CustodyInv, Custody, PoolInv, Idle
<1>5. \A t \in Sessions : receipt[t].status # "UNKNOWN"
  BY <1>3 DEF IInv, DoubtInv, Doubt
<1>6. \A t \in live : t \in launched /\ runner[t] # runner[s]
  <2>1. \A t \in live : t \in Sessions /\ t \in launched /\ t # s /\ pc[t] \notin Idle
    BY <1>1, <1>3, Shape DEF IInv, DoubtInv, CustodyInv, Custody, Idle
  <2> QED BY <1>1, <2>1 DEF IInv, PoolInv, Idle
<1>w. PICK w \in Workers : w = runner[s]
  BY <1>4
<1>7. /\ SlotOf[s] = NoWorker /\ StatusOf[s] = "none"
      /\ \A t \in Sessions : StatusOf[t] # "UNKNOWN"
      /\ \A t \in live : SlotOf[t] # w
  BY <1>w, <1>1, <1>4, <1>5, <1>6, Shape DEF SlotOf, StatusOf, NoReceipt
<1>8. SlotOf' = [SlotOf EXCEPT ![s] = w] /\ StatusOf' = StatusOf
  BY <1>w, <1>1, <1>3, <1>4 DEF SlotOf, StatusOf
<1>9. Contract!Launch(s, w)
  BY <1>1, <1>3, <1>7, <1>8 DEF SlotOf, StatusOf, Contract!Launch
<1> QED BY <1>9 DEF Contract!Next

(* The write of a receipt posts a verdict, breaks, or is refused.          *)
LEMMA PostStep ==
  ASSUME TypeOK, SettledInv, phase \in {"serving", "settling"}, NEW s \in Sessions,
         NEW p \in Verdicts,
         WriteReceipt(s, ReceiptOf(s, Rewritten(p, EventFor(s))), EventFor(s)),
         p.status = "SUCCEEDED" =>
           s \in launched /\ runner[s] \in Workers /\ s \notin live,
         p.status # "UNKNOWN" => impaired \/ s \notin live,
         UNCHANGED <<ownVars, live, settlement>>
  PROVE  [Contract!Next]_(Contract!contractVars)
<1> DEFINE e == EventFor(s)  q == Rewritten(p, e)  r == ReceiptOf(s, q)
<1>1. /\ q.status \in Statuses
      /\ q.status = "SUCCEEDED" => p.status = "SUCCEEDED"
      /\ q.status # "UNKNOWN" => p.status # "UNKNOWN"
  BY RewrittenAs DEF Verdicts
<1>2. Durable(r).status = q.status
  BY DEF Durable, ReceiptOf
<1>3. \/ /\ receipt[s] = NoReceipt /\ receipt' = [receipt EXCEPT ![s] = Durable(r)]
         /\ impaired' \in {impaired, TRUE}
      \/ UNCHANGED receipt /\ impaired' = TRUE
      \/ UNCHANGED <<receipt, impaired>>
  BY DEF WriteReceipt, Fits
<1> HIDE DEF e, q, r
<1>4. CASE /\ receipt[s] = NoReceipt /\ receipt' = [receipt EXCEPT ![s] = Durable(r)]
           /\ impaired' \in {impaired, TRUE}
  <2>v. PICK v \in Statuses : v = q.status
    BY <1>1
  <2>1. SlotOf' = SlotOf /\ StatusOf' = [StatusOf EXCEPT ![s] = v]
    BY <2>v, <1>2, <1>4, LedgerShape DEF SlotOf, StatusOf, ownVars
  <2>2. StatusOf[s] = "none" /\ settlement = "none"
    BY <1>4 DEF StatusOf, NoReceipt, SettledInv
  <2>3. v = "SUCCEEDED" => SlotOf[s] # NoWorker /\ s \notin live
    BY <2>v, <1>1, PoolAssumption DEF SlotOf
  <2>4. v \in {"CANCELLED", "FAILED"} => impaired \/ s \notin live
    BY <2>v, <1>1
  <2>5. Contract!Post(s, v)
    BY <1>4, <2>1, <2>2, <2>3, <2>4 DEF SlotOf, StatusOf, Contract!Post
  <2> QED BY <2>5 DEF Contract!Next, Contract!Statuses, Statuses
<1>5. CASE UNCHANGED receipt /\ impaired' = TRUE
  BY <1>5, ImpairStep
<1>6. CASE UNCHANGED <<receipt, impaired>>
  BY <1>6, HiddenSame
<1> QED BY <1>3, <1>4, <1>5, <1>6

(* The settlement is the one the verdicts determine.                       *)
LEMMA SettleStep ==
  ASSUME IInv, LedgerInv, SettledInv', Settle
  PROVE  [Contract!Next]_(Contract!contractVars)
<1>1. /\ phase = "settling" /\ settlement = "none" /\ TypeOK
      /\ UNCHANGED <<ownVars, live, receipt>>
      /\ \/ /\ ControllerOutcome = StoreOutcome /\ settlement' = StoreOutcome
            /\ impaired' \in {impaired, TRUE}
         \/ UNCHANGED settlement /\ impaired' = TRUE
         \/ UNCHANGED <<settlement, impaired>>
  BY DEF Settle, IInv, SettledInv
<1>2. CASE /\ ControllerOutcome = StoreOutcome /\ settlement' = StoreOutcome
           /\ impaired' \in {impaired, TRUE}
  <2>1. indexed = Sessions
    BY <1>2 DEF ControllerOutcome, StoreOutcome
  <2>2. \A s \in Sessions : receipt[s] # NoReceipt
    BY <2>1 DEF LedgerInv, Kept
  <2>3. \A s \in Sessions : StatusOf[s] \in Statuses /\ StatusOf[s] = receipt[s].status
    BY <1>1, <2>2, LedgerShape DEF StatusOf, Receipts
  <2>4. \A s \in Sessions : StatusOf[s] # "none"
    BY <2>3 DEF Statuses
  <2>5. Contract!OutcomeOf(StatusOf) = StoreOutcome
    BY <2>3 DEF Contract!OutcomeOf, StoreOutcome, Recorded, Statuses
  <2>6. settlement' # "none"
    BY <1>2 DEF StoreOutcome
  <2>7. settlement' # "UNSAFE" => live = {}
    BY <1>1, <2>6 DEF SettledInv
  <2>8. SlotOf' = SlotOf /\ StatusOf' = StatusOf
    BY <1>1 DEF SlotOf, StatusOf, ownVars
  <2>9. Contract!Settle
    BY <1>1, <1>2, <2>4, <2>5, <2>7, <2>8 DEF SlotOf, StatusOf, Contract!Settle
  <2> QED BY <2>9 DEF Contract!Next
<1>3. CASE UNCHANGED settlement /\ impaired' = TRUE
  BY <1>1, <1>3, ImpairStep
<1>4. CASE UNCHANGED <<settlement, impaired>>
  BY <1>1, <1>4, HiddenSame
<1> QED BY <1>1, <1>2, <1>3, <1>4

(* Every step of a launch is a step of the contract, or hidden from it.    *)
LEMMA ContractStep ==
  ASSUME IInv, LedgerInv, SettledInv', [Next]_vars
  PROVE  [Contract!Next]_(Contract!contractVars)
<1>t. TypeOK /\ SettledInv
  BY DEF IInv
<1> USE DEF flagVars, poolVars, localVars, publishVars, guardVars, ledgerVars
<1>1. ASSUME NEW e \in {"none", "disk", "uncertain"}, GuardStarts(e)
      PROVE  UNCHANGED Contract!contractVars
  BY <1>1, HiddenSame DEF GuardStarts
<1>2. ASSUME NEW w \in Workers, Take(w) PROVE UNCHANGED Contract!contractVars
  <2>1. PICK s \in Sessions : Taken(w, s)
    BY <1>2, TakeEffect DEF IInv
  <2>2. s \notin launched /\ runner' = [runner EXCEPT ![s] = w]
    BY <2>1 DEF Taken, IInv, CustodyInv, Custody
  <2>3. UNCHANGED <<live, launched, receipt, settlement, impaired>>
    BY <1>2 DEF Take
  <2>4. \A t \in launched : runner'[t] = runner[t]
    BY <2>2, <1>t, Shape
  <2> QED BY <2>3, <2>4, Hidden
<1>3. ASSUME NEW w \in Workers, WorkerExits(w) PROVE UNCHANGED Contract!contractVars
  BY <1>3, HiddenSame DEF WorkerExits
<1>4. ASSUME NEW s \in Sessions, Activated(s)
      PROVE  [Contract!Next]_(Contract!contractVars)
  <2>1. CASE pc' = [pc EXCEPT ![s] = "starting"]
    BY <1>4, <2>1, LaunchStep
  <2>2. CASE pc' # [pc EXCEPT ![s] = "starting"]
    <3>1. UNCHANGED <<ownVars, live, receipt, settlement, impaired>>
      BY <1>4, <2>2 DEF Activated, ownVars
    <3> QED BY <3>1, HiddenSame
  <2> QED BY <2>1, <2>2
<1>5. ASSUME NEW s \in Sessions, Started(s) \/ AbortJoined(s) \/ StopReturns(s)
      PROVE  [Contract!Next]_(Contract!contractVars)
  <2>1. UNCHANGED <<ownVars, receipt, settlement, impaired>>
    BY <1>5 DEF Started, StartReturns, StartCancelled, AbortJoined, StopReturns
  <2>2. live' \in {live, live \ {s}}
    BY <1>5 DEF Started, StartReturns, StartCancelled, AbortJoined, StopReturns,
                NoHandle, HandlePublished
  <2> QED BY <2>1, <2>2, QuiesceStep
<1>6. ASSUME NEW s \in Sessions,
             WaitCompletes(s) \/ Interrupted(s) \/ Measured(s) \/ PublishOne(s)
      PROVE  UNCHANGED Contract!contractVars
  <2>1. UNCHANGED <<ownVars, live, receipt, settlement, impaired>>
    BY <1>6 DEF WaitCompletes, Interrupted, Measured, PublishOne
  <2> QED BY <2>1, HiddenSame
<1>7. ASSUME NEW s \in Sessions, Persist(s)
      PROVE  [Contract!Next]_(Contract!contractVars)
  <2>1. /\ pc[s] = "persisting" /\ UNCHANGED <<ownVars, live, settlement>>
        /\ WriteReceipt(s, ReceiptOf(s, Rewritten(pend[s], EventFor(s))), EventFor(s))
    BY <1>7 DEF Persist
  <2>2. phase = "serving" /\ pend[s] \in Verdicts
    BY <2>1, <1>t, LedgerShape DEF IInv, PoolInv, Idle
  <2>3. /\ pend[s].status = "SUCCEEDED" =>
             s \in launched /\ runner[s] \in Workers /\ s \notin live
        /\ pend[s].status # "UNKNOWN" => impaired \/ s \notin live
    BY <2>1 DEF LedgerInv, Offered, IInv, CustodyInv, Custody
  <2>p. PICK p \in Verdicts : p = pend[s]
    BY <2>2
  <2> QED BY <2>1, <2>2, <2>3, <2>p, <1>t, PostStep
<1>8. ASSUME NEW s \in Sessions, PersistRaises(s)
      PROVE  Contract!Next
  <2>1. UNCHANGED <<ownVars, live, receipt, settlement>> /\ impaired' = TRUE
    BY <1>8 DEF PersistRaises
  <2> QED BY <2>1, ImpairStep
<1>9. CASE BeginSettlement
  BY <1>9, HiddenSame DEF BeginSettlement
<1>10. ASSUME NEW s \in Sessions, SettleMissing(s)
       PROVE  [Contract!Next]_(Contract!contractVars)
  <2> DEFINE p == NotStarted("CANCELLED", "other")
  <2>1. /\ phase = "settling" /\ s \notin indexed
        /\ UNCHANGED <<ownVars, live, settlement>>
        /\ WriteReceipt(s, ReceiptOf(s, Rewritten(p, EventFor(s))), EventFor(s))
    BY <1>10 DEF SettleMissing, NextMissing
  <2>2. pc[s] \in Idle
    BY <2>1 DEF IInv, PoolInv
  <2>3. impaired \/ s \notin live
    BY <2>1, <2>2 DEF LedgerInv, Kept, IInv, CustodyInv, Custody, Idle
  <2>4. p \in Verdicts /\ p.status = "CANCELLED"
    BY DEF NotStarted, Verdict, Verdicts, Statuses, Proofs
  <2> HIDE DEF p
  <2> QED BY <2>1, <2>3, <2>4, <1>t, PostStep
<1>11. ASSUME NEW s \in Sessions, SettleMissingRaises(s) PROVE Contract!Next
  <2>1. UNCHANGED <<ownVars, live, receipt, settlement>> /\ impaired' = TRUE
    BY <1>11 DEF SettleMissingRaises
  <2> QED BY <2>1, ImpairStep
<1>12. CASE Settle
  BY <1>12, SettleStep
<1>13. CASE EnvironmentStep
  <2>1. UNCHANGED <<ownVars, live, receipt, settlement, impaired>>
    BY <1>13 DEF EnvironmentStep, CallerCancels, DiskCheck, TreeScan
  <2> QED BY <2>1, HiddenSame
<1>14. CASE UNCHANGED vars
  <2>1. UNCHANGED <<ownVars, live, receipt, settlement, impaired>>
    BY <1>14 DEF vars
  <2> QED BY <2>1, HiddenSame
<1> QED
  BY <1>1, <1>2, <1>3, <1>4, <1>5, <1>6, <1>7, <1>8, <1>9, <1>10, <1>11, <1>12,
     <1>13, <1>14 DEF Next, SessionStep, SettlementStep, Persisted

(* A launch implements CohortContract: every step of the workers, the      *)
(* settlement and what befalls them is one the contract allows.            *)
THEOREM LaunchKeepsContract == Spec => ImplementsContract
<1>1. Init => Contract!Init
  BY DEF Init, Contract!Init, NoReceipt
<1>2. /\ IInv /\ IInv' /\ LedgerInv /\ [Next]_vars
      => [Contract!Next]_(Contract!contractVars)
  BY ContractStep DEF IInv
<1> QED
  BY <1>1, <1>2, Inductive, LedgerIsInductive, PTL
     DEF Spec, ImplementsContract, Contract!Spec

-----------------------------------------------------------------------------
(* Any set of sessions that is not empty has a first one.                  *)
LEMMA FirstSession ==
  ASSUME NEW T \in SUBSET Sessions, T # {}
  PROVE  \E s \in T : \A t \in T : ~(t < s)
<1>1. T \subseteq Nat
  BY PlanAssumption DEF Sessions
<1>2. PICK s \in T : \A t \in T : ~(<<t, s>> \in OpToRel(<, Nat))
  BY <1>1, NatLessThanWellFounded, WFMin
<1>3. \A t \in T : t < s => <<t, s>> \in OpToRel(<, Nat)
  BY <1>1 DEF OpToRel
<1> QED BY <1>2, <1>3

(* When settle_missing has gone through the plan, it has left out nobody.  *)
LEMMA SweepIsComplete ==
  ASSUME TypeOK, Unbroken, phase = "settling", \A s \in Sessions : ~NextMissing(s)
  PROVE  indexed = Sessions
<1> DEFINE T == {s \in Sessions : s \notin indexed}
<1>1. ASSUME T # {} PROVE FALSE
  <2>1. PICK s \in T : \A t \in T : ~(t < s)
    BY <1>1, FirstSession
  <2>2. s \in Sessions /\ s \notin indexed /\ (\A t \in Sessions : t < s => t \in indexed)
    BY <2>1
  <2>3. s > swept
    BY <2>2, PlanAssumption DEF Unbroken, TypeOK, LedgerTyped, Sessions
  <2>4. NextMissing(s)
    BY <2>2, <2>3 DEF NextMissing
  <2> QED BY <2>2, <2>4
<1>2. indexed \subseteq Sessions
  BY LedgerShape
<1> QED BY <1>1, <1>2

(* Then the controller's flags and the receipts call for one outcome.      *)
LEMMA OutcomesAgree ==
  ASSUME IInv, LedgerInv, ~impaired, Unbroken, phase = "settling",
         \A s \in Sessions : ~NextMissing(s)
  PROVE  ControllerOutcome = StoreOutcome
<1>1. indexed = Sessions
  BY SweepIsComplete DEF IInv
<1>2. ~storeFailed
  BY DEF LedgerInv, StoreAgrees
<1>3. unsafe => Recorded("UNKNOWN")
  BY <1>1 DEF Unbroken, ToBlame, Recorded, IInv, PoolInv, Idle
<1> QED BY <1>1, <1>2, <1>3 DEF ControllerOutcome, StoreOutcome

-----------------------------------------------------------------------------
(* Blame stays where no step goes.                                         *)
LEMMA BlameStays ==
  ASSUME NEW t, ToBlame(t), pc'[t] = pc[t], pend'[t] = pend[t], receipt'[t] = receipt[t],
         t \in indexed' <=> t \in indexed,
         globalEvent = "uncertain" => globalEvent' = "uncertain"
  PROVE  ToBlame(t)'
BY DEF ToBlame

(* A step of one session.                                                  *)
LEMMA BlameStep ==
  ASSUME IInv, LedgerInv, AgreementInv, NEW s \in Sessions, SessionStep(s), ~impaired',
         impaired => impaired', UNCHANGED <<wstate, swept, globalEvent>>,
         indexed \subseteq indexed',
         ToBlame(s) \/ (unsafe' /\ ~unsafe) => ToBlame(s)'
  PROVE  AgreementInv'
<1>1. OnlySelf(s) /\ UNCHANGED phase /\ phase = "serving"
  BY SelfStep, PoolEffect, NotYet DEF IInv
<1>2. Unbroken
  BY DEF AgreementInv
<1>3. ASSUME unsafe' PROVE \E t \in Sessions : ToBlame(t)'
  <2>1. CASE ~unsafe
    BY <1>3, <2>1
  <2>2. CASE unsafe
    <3>1. PICK t \in Sessions : ToBlame(t)
      BY <1>2, <2>2 DEF Unbroken
    <3>2. CASE t = s
      BY <3>1, <3>2
    <3>3. CASE t # s
      <4>1. /\ pc'[t] = pc[t] /\ pend'[t] = pend[t] /\ receipt'[t] = receipt[t]
            /\ t \in indexed' <=> t \in indexed
        BY <1>1, <3>3 DEF OnlySelf
      <4>2. ToBlame(t)'
        BY <3>1, <4>1, BlameStays
      <4> QED BY <4>2
    <3> QED BY <3>2, <3>3
  <2> QED BY <2>1, <2>2
<1>4. Unbroken'
  BY <1>1, <1>2, <1>3 DEF Unbroken
<1> QED BY <1>1, <1>4 DEF AgreementInv

(* A step of run_one that writes no receipt.                               *)
LEMMA BlameQuiet ==
  ASSUME IInv, LedgerInv, AgreementInv, NEW s \in Sessions, SessionStep(s),
         pc[s] # "persisting", UNCHANGED <<wstate, ledgerVars, globalEvent>>,
         unsafe' => \/ unsafe
                    \/ globalEvent = "uncertain"
                    \/ pc'[s] = "persisting" /\ pend'[s].status = "UNKNOWN"
  PROVE  AgreementInv'
<1>1. receipt[s] = NoReceipt /\ s \notin indexed /\ UNCHANGED phase /\ phase = "serving"
  BY NotYet, PoolEffect DEF IInv
<1>2. UNCHANGED <<receipt, indexed, swept, impaired>>
  BY DEF ledgerVars
<1>3. ToBlame(s) \/ (unsafe' /\ ~unsafe) => ToBlame(s)'
  BY <1>1, <1>2 DEF ToBlame, NoReceipt
<1>4. CASE impaired
  BY <1>1, <1>2, <1>4 DEF AgreementInv
<1>5. CASE ~impaired
  BY <1>2, <1>3, <1>5, BlameStep
<1> QED BY <1>4, <1>5

(* A start without a handle, or a stop, loses a backend or sees an event.  *)
LEMMA LossIsBlamed ==
  ASSUME TypeOK, NEW s \in Sessions, Kept(s),
         Started(s) \/ AbortJoined(s) \/ StopReturns(s), unsafe'
  PROVE  \/ unsafe
         \/ globalEvent = "uncertain"
         \/ pc'[s] = "persisting" /\ pend'[s].status = "UNKNOWN"
<1>1. ASSUME NEW proof \in PossibleProofs, NoHandle(s, proof)
      PROVE  \/ unsafe
             \/ globalEvent = "uncertain"
             \/ pc'[s] = "persisting" /\ pend'[s].status = "UNKNOWN"
  <2>1. CASE proof = "proven"
    BY <1>1, <2>1 DEF NoHandle, Observe, EventFor
  <2>2. CASE proof # "proven"
    <3>1. PICK p : Persisting(s, p) /\ p.status = "UNKNOWN"
      BY <1>1, <2>2 DEF NoHandle, Verdict
    <3> QED BY <3>1, LedgerShape DEF Persisting
  <2> QED BY <2>1, <2>2
<1>2. CASE Started(s)
  BY <1>1, <1>2
     DEF Started, StartReturns, StartCancelled, HandlePublished, Observe, EventFor, flagVars
<1>3. CASE AbortJoined(s)
  BY <1>1, <1>3 DEF AbortJoined
<1>4. CASE StopReturns(s)
  <2>1. PICK proof \in PossibleProofs \ {"none"} :
          /\ Observe(IF why[s] = "early" THEN ev[s] ELSE "none", proof = "unproven")
          /\ proof = "unproven" =>
               \E o : Persisting(s, Verdict(StoppedStatus(why[s], ev[s], proof), proof,
                                            TRUE, o, 0, ReasonFor(ev[s])))
    BY <1>4 DEF StopReturns
  <2>2. CASE proof = "unproven"
    <3>1. PICK o : Persisting(s, Verdict(StoppedStatus(why[s], ev[s], proof), proof,
                                         TRUE, o, 0, ReasonFor(ev[s])))
      BY <2>1, <2>2
    <3>2. StoppedStatus(why[s], ev[s], proof) = "UNKNOWN"
      BY <2>2 DEF StoppedStatus, ResourceStatus
    <3>3. PICK p : Persisting(s, p) /\ p.status = "UNKNOWN"
      BY <3>1, <3>2 DEF Verdict
    <3> QED BY <3>3, LedgerShape DEF Persisting
  <2>3. CASE proof # "unproven"
    <3>1. unsafe \/ ev[s] = "uncertain"
      BY <2>1, <2>3 DEF Observe
    <3> QED BY <3>1 DEF Kept
  <2> QED BY <2>2, <2>3
<1> QED BY <1>2, <1>3, <1>4

(* A receipt written in order settles the blame for it.                    *)
LEMMA WriteIsBlamed ==
  ASSUME TypeOK, StoreAgrees', ~impaired', NEW s \in Sessions, NEW p \in Verdicts,
         WriteReceipt(s, ReceiptOf(s, Rewritten(p, EventFor(s))), EventFor(s))
  PROVE  /\ indexed' = indexed \cup {s} /\ ~impaired
         /\ p.status = "UNKNOWN" \/ globalEvent = "uncertain" =>
              receipt'[s].status = "UNKNOWN"
         /\ unsafe' => unsafe \/ receipt'[s].status = "UNKNOWN"
<1> DEFINE e == EventFor(s)  q == Rewritten(p, e)  r == ReceiptOf(s, q)
<1>1. /\ p.status = "UNKNOWN" \/ e = "uncertain" => q.status = "UNKNOWN"
      /\ globalEvent = "uncertain" => e = "uncertain"
  BY DEF Rewritten, Verdicts, EventFor
<1>2. Durable(r).status = q.status
  BY DEF Durable, ReceiptOf
<1>3. ~storeFailed'
  BY DEF StoreAgrees
<1>4. /\ receipt' = [receipt EXCEPT ![s] = Durable(r)]
      /\ indexed' = indexed \cup {s} /\ UNCHANGED impaired
      /\ unsafe' = (unsafe \/ e = "uncertain")
  BY <1>3 DEF WriteReceipt
<1> HIDE DEF e, q, r
<1>5. receipt'[s].status = q.status
  BY <1>2, <1>4, LedgerShape
<1> QED BY <1>1, <1>4, <1>5

(* The receipt of a session answers for what made the cohort unsafe.        *)
LEMMA PersistAgrees ==
  ASSUME IInv, LedgerInv, LedgerInv', AgreementInv, NEW s \in Sessions, Persist(s)
  PROVE  AgreementInv'
<1>1. /\ TypeOK /\ SessionStep(s) /\ pc[s] = "persisting"
      /\ UNCHANGED <<wstate, swept, globalEvent>> /\ pend[s] \in Verdicts
      /\ WriteReceipt(s, ReceiptOf(s, Rewritten(pend[s], EventFor(s))), EventFor(s))
      /\ StoreAgrees'
  BY LedgerShape DEF IInv, LedgerInv, Persist, SessionStep, Persisted, poolVars
<1>2. receipt[s] = NoReceipt /\ s \notin indexed /\ phase = "serving" /\ UNCHANGED phase
  BY <1>1, NotYet, PoolEffect DEF IInv, Idle
<1>3. CASE impaired'
  BY <1>2, <1>3 DEF AgreementInv
<1>4. CASE ~impaired'
  <2>p. PICK p \in Verdicts : p = pend[s]
    BY <1>1
  <2>1. /\ indexed' = indexed \cup {s} /\ ~impaired
        /\ p.status = "UNKNOWN" \/ globalEvent = "uncertain" =>
             receipt'[s].status = "UNKNOWN"
        /\ unsafe' => unsafe \/ receipt'[s].status = "UNKNOWN"
    BY <1>1, <1>4, <2>p, WriteIsBlamed
  <2>2. ToBlame(s) \/ (unsafe' /\ ~unsafe) => ToBlame(s)'
    BY <1>2, <2>1, <2>p DEF ToBlame, NoReceipt
  <2> QED BY <1>1, <1>4, <2>1, <2>2, BlameStep
<1> QED BY <1>3, <1>4

(* The sweep moves on only past a session that has its receipt.             *)
LEMMA SettleMissingAgrees ==
  ASSUME IInv, LedgerInv, LedgerInv', AgreementInv, NEW s \in Sessions, SettleMissing(s)
  PROVE  AgreementInv'
<1> DEFINE p == NotStarted("CANCELLED", "other")
<1>1. /\ TypeOK /\ NextMissing(s) /\ swept' = s /\ phase = "settling"
      /\ UNCHANGED <<wstate, phase, globalEvent, pc, pend>>
      /\ WriteReceipt(s, ReceiptOf(s, Rewritten(p, EventFor(s))), EventFor(s))
      /\ StoreAgrees'
  BY DEF IInv, LedgerInv, SettleMissing, NextMissing, poolVars
<1>2. p \in Verdicts
  BY DEF NotStarted, Verdict, Verdicts, Statuses, Proofs
<1> HIDE DEF p
<1>3. CASE impaired'
  BY <1>1, <1>3 DEF AgreementInv
<1>4. CASE ~impaired'
  <2>1. /\ indexed' = indexed \cup {s} /\ ~impaired
        /\ globalEvent = "uncertain" => receipt'[s].status = "UNKNOWN"
        /\ unsafe' => unsafe \/ receipt'[s].status = "UNKNOWN"
    BY <1>1, <1>2, <1>4, WriteIsBlamed
  <2>2. Unbroken
    BY <2>1 DEF AgreementInv
  <2>3. s \notin indexed /\ receipt[s] = NoReceipt /\ pc[s] \in Idle
    BY <1>1, <2>1 DEF NextMissing, LedgerInv, Kept, IInv, PoolInv
  <2>4. ASSUME NEW t \in Sessions, t <= swept' PROVE t \in indexed'
    <3>1. t \in Int /\ s \in Int /\ swept \in Int
      BY <1>1, PlanAssumption DEF TypeOK, LedgerTyped, Sessions
    <3>2. t <= swept \/ (swept < t /\ t < s) \/ t = s
      BY <1>1, <2>4, <3>1
    <3>3. /\ t <= swept => t \in indexed
          /\ swept < t /\ t < s => t \in indexed
      BY <1>1, <2>2 DEF NextMissing, Unbroken
    <3> QED BY <2>1, <3>2, <3>3
  <2>5. ToBlame(s) => ToBlame(s)'
    BY <1>1, <2>1, <2>3 DEF ToBlame, NoReceipt, Idle
  <2>6. ASSUME NEW t \in Sessions, t # s, ToBlame(t) PROVE ToBlame(t)'
    <3>1. receipt'[t] = receipt[t]
      <4>1. receipt' \in {receipt} \/ \E x : receipt' = [receipt EXCEPT ![s] = x]
        BY <1>1 DEF WriteReceipt
      <4> QED BY <1>1, <2>6, <4>1, LedgerShape
    <3>2. t \in indexed' <=> t \in indexed
      BY <2>1, <2>6
    <3>3. /\ pc'[t] = pc[t] /\ pend'[t] = pend[t]
          /\ globalEvent = "uncertain" => globalEvent' = "uncertain"
      BY <1>1
    <3> QED BY <2>6, <3>1, <3>2, <3>3, BlameStays
  <2>7. unsafe' => \E t \in Sessions : ToBlame(t)'
    BY <2>1, <2>2, <2>5, <2>6 DEF Unbroken, ToBlame
  <2> QED BY <1>1, <2>2, <2>4, <2>7 DEF AgreementInv, Unbroken
<1> QED BY <1>3, <1>4

(* Every step of a launch keeps the flags and the receipts in agreement.    *)
LEMMA AgreementStep ==
  ASSUME IInv, LedgerInv, LedgerInv', AgreementInv, [Next]_vars PROVE AgreementInv'
<1>t. TypeOK /\ StoreAgrees /\ (phase = "launching" => globalEvent = "none" /\ indexed = {})
  BY DEF IInv, LedgerInv, AgreementInv
<1> USE DEF flagVars, poolVars, localVars, publishVars, guardVars, ledgerVars
<1>q. ASSUME UNCHANGED <<wstate, swept, indexed, receipt, pc, pend, impaired>>,
             globalEvent = "uncertain" => globalEvent' = "uncertain",
             phase' = "launching" => phase = "launching",
             phase' = "incomplete" => phase = "incomplete", unsafe' => unsafe
      PROVE  AgreementInv'
  <2>1. \A t : ToBlame(t) => ToBlame(t)'
    BY <1>q DEF ToBlame
  <2>2. Unbroken => Unbroken'
    BY <1>q, <2>1 DEF Unbroken, ToBlame
  <2> QED BY <1>q, <2>2 DEF AgreementInv
<1>1. ASSUME NEW e \in {"none", "disk", "uncertain"}, GuardStarts(e)
      PROVE  AgreementInv'
  <2>1. /\ phase = "launching" /\ phase' = "serving" /\ globalEvent' = e
        /\ UNCHANGED <<wstate, swept, indexed, receipt, pc, pend, impaired>>
        /\ unsafe' => unsafe \/ e = "uncertain"
    BY <1>1 DEF GuardStarts, Observe
  <2>2. CASE unsafe' => unsafe
    BY <2>1, <2>2, <1>t, <1>q
  <2>3. CASE unsafe' /\ ~unsafe
    <3>1. 1 \in Sessions /\ ToBlame(1)'
      BY <2>1, <2>3, <1>t, PlanAssumption DEF ToBlame, Sessions
    <3>2. Unbroken => Unbroken'
      BY <2>1, <3>1 DEF Unbroken, ToBlame
    <3> QED BY <2>1, <3>2 DEF AgreementInv
  <2> QED BY <2>2, <2>3
<1>2. ASSUME NEW w \in Workers, Take(w) PROVE AgreementInv'
  <2>1. PICK s \in Sessions : Taken(w, s)
    BY <1>2, TakeEffect DEF IInv
  <2>2. /\ UNCHANGED <<phase, wstate, swept, indexed, receipt, globalEvent, impaired,
                       unsafe>>
        /\ phase = "serving"
    BY <1>2 DEF Take
  <2>3. /\ pc[s] = "queued"
        /\ \A t \in Sessions \ {s} : pc'[t] = pc[t] /\ pend'[t] = pend[t]
    BY <2>1, <1>t, Shape DEF Taken
  <2>4. ToBlame(s) => ToBlame(s)'
    BY <2>2, <2>3 DEF ToBlame
  <2>5. \A t \in Sessions : ToBlame(t) => ToBlame(t)'
    BY <2>2, <2>3, <2>4, BlameStays
  <2>6. Unbroken => Unbroken'
    BY <2>2, <2>5 DEF Unbroken, ToBlame
  <2> QED BY <2>2, <2>6 DEF AgreementInv
<1>3. ASSUME NEW w \in Workers, WorkerExits(w) PROVE AgreementInv'
  <2>1. /\ UNCHANGED <<phase, swept, indexed, receipt, pc, pend, globalEvent, impaired,
                       unsafe>>
        /\ wstate' = [wstate EXCEPT ![w] = "exited"] /\ phase = "serving"
    BY <1>3 DEF WorkerExits
  <2>2. (\A v \in Workers : wstate[v] # "failed") =>
          (\A v \in Workers : wstate'[v] # "failed")
    BY <2>1, <1>t, Shape
  <2>3. Unbroken => Unbroken'
    BY <2>1, <2>2 DEF Unbroken, ToBlame
  <2> QED BY <2>1, <2>3 DEF AgreementInv
<1>4. ASSUME NEW s \in Sessions, SessionStep(s), ~Persisted(s) PROVE AgreementInv'
  <2>1. UNCHANGED <<wstate, ledgerVars, globalEvent>>
    BY <1>4 DEF SessionStep, Started, Persisted, Activated, StartReturns, StartCancelled,
       AbortJoined, WaitCompletes, Interrupted, StopReturns, Measured, PublishOne, Persist,
       PersistRaises
  <2>p. pc[s] # "persisting"
    BY <1>4 DEF SessionStep, Started, Activated, StartReturns, StartCancelled, AbortJoined,
       WaitCompletes, Interrupted, StopReturns, Measured, PublishOne
  <2>2. Kept(s)
    BY DEF LedgerInv
  <2>3. ASSUME unsafe'
        PROVE  \/ unsafe
               \/ globalEvent = "uncertain"
               \/ pc'[s] = "persisting" /\ pend'[s].status = "UNKNOWN"
    <3>1. CASE \/ Activated(s) \/ WaitCompletes(s) \/ Interrupted(s)
               \/ Measured(s) \/ PublishOne(s)
      BY <2>3, <3>1, UncertainIsGlobal
         DEF Activated, WaitCompletes, Interrupted, Measured, PublishOne, Observe
    <3>2. CASE Started(s) \/ AbortJoined(s) \/ StopReturns(s)
      BY <2>2, <2>3, <3>2, <1>t, LossIsBlamed
    <3> QED BY <1>4, <3>1, <3>2 DEF SessionStep
  <2> QED BY <1>4, <2>p, <2>1, <2>3, BlameQuiet
<1>5. ASSUME NEW s \in Sessions, Persisted(s) PROVE AgreementInv'
  <2>1. CASE Persist(s)
    BY <2>1, PersistAgrees
  <2>2. CASE PersistRaises(s)
    <3>1. impaired' /\ UNCHANGED <<phase, indexed>>
      BY <2>2 DEF PersistRaises
    <3> QED BY <3>1 DEF AgreementInv
  <2> QED BY <1>5, <2>1, <2>2 DEF Persisted
<1>6. CASE BeginSettlement
  <2>1. /\ UNCHANGED <<wstate, swept, indexed, receipt, pc, pend, globalEvent, impaired>>
        /\ phase' = "settling"
        /\ unsafe' => unsafe \/ \E w \in Workers : wstate[w] = "failed"
    BY <1>6 DEF BeginSettlement, Observe
  <2>2. Unbroken => Unbroken'
    BY <2>1 DEF Unbroken, ToBlame
  <2> QED BY <2>1, <2>2 DEF AgreementInv
<1>7. ASSUME NEW s \in Sessions, SettleMissing(s) PROVE AgreementInv'
  BY <1>7, SettleMissingAgrees
<1>8. ASSUME NEW s \in Sessions, SettleMissingRaises(s) PROVE AgreementInv'
  <2>1. impaired' /\ phase' = "incomplete"
    BY <1>8 DEF SettleMissingRaises
  <2> QED BY <2>1 DEF AgreementInv
<1>9. CASE Settle
  <2>1. /\ phase = "settling" /\ phase' \in {"settled", "incomplete"}
        /\ UNCHANGED <<wstate, swept, indexed, receipt, pc, pend, globalEvent, unsafe>>
        /\ \A s \in Sessions : ~NextMissing(s)
        /\ phase' = "incomplete" => impaired' \/ ControllerOutcome # StoreOutcome
        /\ impaired => impaired'
    BY <1>9, <1>t, LedgerShape DEF Settle
  <2>2. CASE impaired'
    BY <2>1, <2>2 DEF AgreementInv
  <2>3. CASE ~impaired'
    <3>1. Unbroken /\ ~impaired
      BY <2>1, <2>3 DEF AgreementInv
    <3>2. phase' # "incomplete"
      BY <2>1, <2>3, <3>1, OutcomesAgree
    <3>3. Unbroken'
      BY <2>1, <3>1, <3>2 DEF Unbroken, ToBlame
    <3> QED BY <2>1, <3>3 DEF AgreementInv
  <2> QED BY <2>2, <2>3
<1>10. CASE EnvironmentStep
  <2>1. /\ UNCHANGED <<phase, wstate, swept, indexed, receipt, pc, pend, impaired, unsafe>>
        /\ globalEvent = "uncertain" => globalEvent' = "uncertain"
    BY <1>10 DEF EnvironmentStep, CallerCancels, DiskCheck, TreeScan
  <2> QED BY <2>1, <1>q
<1>11. CASE UNCHANGED vars
  <2>1. UNCHANGED <<phase, wstate, swept, indexed, receipt, pc, pend, impaired, unsafe,
                    globalEvent>>
    BY <1>11 DEF vars
  <2> QED BY <2>1, <1>q
<1> QED
  BY <1>1, <1>2, <1>3, <1>4, <1>5, <1>6, <1>7, <1>8, <1>9, <1>10, <1>11
     DEF Next, SettlementStep

(* A launch in which nothing below the host failed is settled: the outcome *)
(* that the controller derives from its flags is the one that the store    *)
(* derives from the receipts.                                              *)
THEOREM SettlementStaysAgreed == Spec => []SettlementAgrees
<1>1. Init => AgreementInv
  <2> SUFFICES ASSUME Init PROVE AgreementInv
    OBVIOUS
  <2>1. \A s \in Sessions : ~(s <= swept)
    BY PlanAssumption DEF Init, Sessions
  <2> QED BY <2>1 DEF Init, AgreementInv, Unbroken
<1>2. IInv /\ LedgerInv /\ LedgerInv' /\ AgreementInv /\ [Next]_vars => AgreementInv'
  BY AgreementStep
<1>3. AgreementInv => SettlementAgrees
  BY DEF AgreementInv, Unbroken, SettlementAgrees
<1> QED BY <1>1, <1>2, <1>3, Inductive, LedgerIsInductive, PTL DEF Spec
=============================================================================

------------------------ MODULE CohortContractProofs ------------------------
(***************************************************************************)
(* The contract's own promises, for every plan and every number of slots.  *)
(* CohortRun implements the contract, so they hold of every launch.        *)
(***************************************************************************)
EXTENDS CohortContract, FunctionTheorems, FiniteSetTheorems, TLAPS

(* The outcome the verdicts determine is always one of the four.           *)
LEMMA OutcomeIsOutcome == \A v : OutcomeOf(v) \in Outcomes
BY DEF OutcomeOf, Outcomes

(* Every variable of the contract keeps its type. *)
THEOREM ContractTyped == Spec => []TypeOK
<1>1. Init => TypeOK
  BY DEF Init, TypeOK
<1>2. TypeOK /\ [Next]_contractVars => TypeOK'
  <2> SUFFICES ASSUME TypeOK, [Next]_contractVars PROVE TypeOK'
    OBVIOUS
  <2> USE DEF TypeOK
  <2>1. ASSUME NEW s \in Sessions, NEW w \in Slots, Launch(s, w) PROVE TypeOK'
    BY <2>1 DEF Launch
  <2>2. ASSUME NEW s \in Sessions, Quiesce(s) PROVE TypeOK'
    BY <2>2 DEF Quiesce
  <2>3. ASSUME NEW s \in Sessions, NEW v \in Statuses, Post(s, v) PROVE TypeOK'
    BY <2>3 DEF Post
  <2>4. CASE Impair
    BY <2>4 DEF Impair
  <2>5. CASE Settle
    BY <2>5, OutcomeIsOutcome DEF Settle
  <2>6. CASE UNCHANGED contractVars
    BY <2>6 DEF contractVars
  <2> QED BY <2>1, <2>2, <2>3, <2>4, <2>5, <2>6 DEF Next
<1> QED BY <1>1, <1>2, PTL DEF Spec

-----------------------------------------------------------------------------
(* A session whose backend may still run keeps a slot of its own: the only *)
(* step that fills a slot, Launch, finds nobody possibly alive in it.      *)
THEOREM SlotsAreExclusive ==
  ASSUME NoSlot \notin Slots PROVE Spec => []SlotsExclusive
<1>1. Init => SlotsExclusive
  BY DEF Init, SlotsExclusive
<1>2. TypeOK /\ SlotsExclusive /\ [Next]_contractVars => SlotsExclusive'
  <2> SUFFICES ASSUME TypeOK, SlotsExclusive, [Next]_contractVars
               PROVE  SlotsExclusive'
    OBVIOUS
  <2>1. ASSUME NEW s \in Sessions, NEW w \in Slots, Launch(s, w)
        PROVE  SlotsExclusive'
    BY <2>1 DEF Launch, SlotsExclusive, TypeOK
  <2>2. ASSUME NEW s \in Sessions, Quiesce(s) PROVE SlotsExclusive'
    BY <2>2 DEF Quiesce, SlotsExclusive
  <2>3. ASSUME UNCHANGED <<live, slot>> PROVE SlotsExclusive'
    BY <2>3 DEF SlotsExclusive
  <2> QED
    BY <2>1, <2>2, <2>3 DEF Next, Post, Impair, Settle, contractVars
<1> QED BY <1>1, <1>2, ContractTyped, PTL DEF Spec

(* Exclusive slots make slot an injection of the possibly-running sessions *)
(* into the slots, so there are never more of them than slots.             *)
LEMMA ExclusiveIsBounded ==
  ASSUME IsFiniteSet(Slots), TypeOK, SlotsExclusive PROVE SlotsBounded
<1> DEFINE f == [s \in live |-> slot[s]]
<1>1. f \in [live -> Slots]
  BY DEF TypeOK, SlotsExclusive
<1>2. \A s, t \in live : f[s] = f[t] => s = t
  BY DEF SlotsExclusive
<1>3. f \in Injection(live, Slots)
  BY <1>1, <1>2 DEF Injection, IsInjective
<1> HIDE DEF f
<1> QED BY <1>3, FS_Injection DEF SlotsBounded

(* However many sessions the plan has, and whatever becomes of their       *)
(* backends, no more than Slots of them may be running at one time.        *)
THEOREM SlotsStayBounded ==
  ASSUME IsFiniteSet(Slots), NoSlot \notin Slots PROVE Spec => []SlotsBounded
<1>1. TypeOK /\ SlotsExclusive => SlotsBounded
  BY ExclusiveIsBounded
<1> QED BY <1>1, ContractTyped, SlotsAreExclusive, PTL

-----------------------------------------------------------------------------
(* The settlement, once written, stays true: verdicts are never replaced   *)
(* and no session that has one is ever started.                            *)
THEOREM SettlementStaysFinal == Spec => []SettlementIsFinal
<1>1. Init => SettlementIsFinal
  BY DEF Init, SettlementIsFinal
<1>2. TypeOK /\ SettlementIsFinal /\ [Next]_contractVars => SettlementIsFinal'
  <2> SUFFICES ASSUME TypeOK, SettlementIsFinal, [Next]_contractVars
               PROVE  SettlementIsFinal'
    OBVIOUS
  <2>1. ASSUME NEW s \in Sessions, NEW w \in Slots, Launch(s, w)
        PROVE  SettlementIsFinal'
    <3>1. settlement' = "none"
      BY <2>1 DEF Launch, SettlementIsFinal
    <3> QED BY <3>1 DEF SettlementIsFinal
  <2>2. ASSUME NEW s \in Sessions, Quiesce(s) PROVE SettlementIsFinal'
    BY <2>2 DEF Quiesce, SettlementIsFinal, OutcomeOf
  <2>3. ASSUME NEW s \in Sessions, NEW v \in Statuses, Post(s, v)
        PROVE  SettlementIsFinal'
    BY <2>3 DEF Post, SettlementIsFinal
  <2>4. CASE Impair \/ UNCHANGED contractVars
    BY <2>4 DEF Impair, contractVars, SettlementIsFinal, OutcomeOf
  <2>5. CASE Settle
    BY <2>5 DEF Settle, SettlementIsFinal, OutcomeOf
  <2> QED BY <2>1, <2>2, <2>3, <2>4, <2>5 DEF Next
<1> QED BY <1>1, <1>2, ContractTyped, PTL DEF Spec
=============================================================================

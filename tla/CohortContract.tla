--------------------------- MODULE CohortContract ---------------------------
(***************************************************************************)
(* What one launch promises to its reader, without how it is done: a       *)
(* bounded number of concurrency slots, work that is never started again   *)
(* once something is UNKNOWN, one immutable verdict per planned session    *)
(* and one settlement that indexes all the verdicts.                       *)
(*                                                                         *)
(* The text it abstracts is runtime/orchestrator.py together with the      *)
(* receipt and settlement half of runtime/store.py; CohortRun implements   *)
(* it (CohortRun!Contract is the refinement mapping).                      *)
(***************************************************************************)
EXTENDS Naturals, FiniteSets

CONSTANTS Sessions,    \* the sessions of the frozen plan
          Slots,       \* the concurrency slots of the plan, finitely many
          NoSlot       \* "this session never received a slot"

VARIABLES live,        \* sessions whose backend work is not proven stopped
          slot,        \* the slot a session's backend was started in
          verdict,     \* the durable receipt's status, "none" before it
          settlement,  \* the durable settlement's outcome, "none" before it
          impaired     \* a write or a receipt builder has failed underneath

contractVars == <<live, slot, verdict, settlement, impaired>>

Statuses == {"SUCCEEDED", "FAILED", "CANCELLED", "UNKNOWN"}
Outcomes == {"SUCCEEDED", "COMPLETED_WITH_FAILURES", "CANCELLED", "UNSAFE"}

(* The outcome the verdicts determine, worst first. *)
OutcomeOf(v) ==
  CASE \E s \in Sessions : v[s] = "UNKNOWN"   -> "UNSAFE"
    [] \A s \in Sessions : v[s] = "SUCCEEDED" -> "SUCCEEDED"
    [] OTHER -> IF \E s \in Sessions : v[s] = "CANCELLED"
                  THEN "CANCELLED" ELSE "COMPLETED_WITH_FAILURES"

Init ==
  /\ live = {}
  /\ slot = [s \in Sessions |-> NoSlot]
  /\ verdict = [s \in Sessions |-> "none"]
  /\ settlement = "none"
  /\ impaired = FALSE

(* A backend starts in a slot nobody may still be running in, at most once *)
(* per session, and never after an UNKNOWN verdict.                        *)
Launch(s, w) ==
  /\ slot[s] = NoSlot /\ verdict[s] = "none"
  /\ \A t \in Sessions : verdict[t] # "UNKNOWN"
  /\ \A t \in live : slot[t] # w
  /\ slot' = [slot EXCEPT ![s] = w]
  /\ live' = live \cup {s}
  /\ UNCHANGED <<verdict, settlement, impaired>>

(* A positive stop proof arrives. *)
Quiesce(s) ==
  /\ live' = live \ {s}
  /\ UNCHANGED <<slot, verdict, settlement, impaired>>

(* Something the host depends on breaks. *)
Impair ==
  /\ impaired' = TRUE
  /\ UNCHANGED <<live, slot, verdict, settlement>>

(* A verdict is posted once.  SUCCEEDED always means "ran and is stopped"; *)
(* the other two definite verdicts mean "stopped" unless the launch was    *)
(* already impaired.                                                       *)
Post(s, v) ==
  /\ verdict[s] = "none" /\ settlement = "none"
  /\ v = "SUCCEEDED" => slot[s] # NoSlot /\ s \notin live
  /\ v \in {"CANCELLED", "FAILED"} => impaired \/ s \notin live
  /\ verdict' = [verdict EXCEPT ![s] = v]
  /\ impaired' \in {impaired, TRUE}
  /\ UNCHANGED <<live, slot, settlement>>

(* The settlement is determined by a complete set of verdicts, and only an *)
(* UNSAFE one may leave work behind.                                       *)
Settle ==
  /\ settlement = "none"
  /\ \A s \in Sessions : verdict[s] # "none"
  /\ settlement' = OutcomeOf(verdict)
  /\ settlement' # "UNSAFE" => live = {}
  /\ impaired' \in {impaired, TRUE}
  /\ UNCHANGED <<live, slot, verdict>>

Next ==
  \/ \E s \in Sessions : \/ \E w \in Slots : Launch(s, w)
                         \/ Quiesce(s)
                         \/ \E v \in Statuses : Post(s, v)
  \/ Impair
  \/ Settle

Spec == Init /\ [][Next]_contractVars

-----------------------------------------------------------------------------

TypeOK ==
  /\ live \subseteq Sessions
  /\ slot \in [Sessions -> Slots \cup {NoSlot}]
  /\ verdict \in [Sessions -> Statuses \cup {"none"}]
  /\ settlement \in Outcomes \cup {"none"}
  /\ impaired \in BOOLEAN

(* No two sessions that may still be running occupy the same slot. *)
SlotsExclusive ==
  /\ \A s \in live : slot[s] # NoSlot
  /\ \A s, t \in live : slot[s] = slot[t] => s = t

(* Never more possibly-running backends than the plan's concurrency.       *)
SlotsBounded == Cardinality(live) <= Cardinality(Slots)

(* A settlement is a fact about a finished launch: every session has its   *)
(* verdict, the settled outcome is still the one the verdicts determine,   *)
(* and unless it is UNSAFE nothing runs, now or later.                     *)
SettlementIsFinal ==
  settlement # "none" =>
    /\ \A s \in Sessions : verdict[s] # "none"
    /\ settlement = OutcomeOf(verdict)
    /\ settlement # "UNSAFE" => live = {}
=============================================================================

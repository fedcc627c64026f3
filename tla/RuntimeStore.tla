---------------------------- MODULE RuntimeStore ----------------------------
(***************************************************************************)
(* runtime/store.py as run_prepared_cohort (runtime/orchestrator.py) uses  *)
(* it: the claim on a cohort, the private layout, the immutable launch,    *)
(* the session states, inputs and receipts, and the settlement, written by *)
(* launchers that may die at any step.  What decides the verdicts is       *)
(* CohortRun; here every write has its two halves, the name that appears   *)
(* and the directory sync, and a power loss may come in between.           *)
(***************************************************************************)
EXTENDS PlanStore, FiniteSets

CONSTANTS Launchers,     \* processes that run run_prepared_cohort
          Sessions,      \* the planned session ids
          Concurrency,   \* sessions that run at a time
          Verdicts,      \* what run_one may conclude
          Nobody

(* A cohort has at least one session (sessions/model.py).                  *)
ASSUME CohortAssumption ==
  /\ Sessions # {} /\ IsFiniteSet(Sessions)
  /\ Verdicts \cap {"none", "lost"} = {}
  /\ Nobody \notin Launchers

VARIABLES
  run,      \* launcher -> where run_prepared_cohort is
  bundle,   \* launcher -> the plan it authenticated, and whether what the
            \* caller pins to it (backend, policies, kit, arm) is sound
  holder,   \* who holds the flock of .runtime.lock
  at,       \* launcher -> entries of the layout created so far
  doing,    \* launcher -> entry named and not yet synced, <<>> if none
  stage,    \* launcher -> session -> writes of run_one done
  index,    \* launcher -> session -> status in _Controller.receipts
  broken,   \* launchers with store_failed
  promised  \* history: plan and receipts of a launch reported settled

runVars == <<run, bundle, holder, at, doing, stage, index, broken, promised>>

Planned == SetToSeq(Sessions)

Runtime      == <<"cohort", "runtime">>
SessionsRoot == Append(Runtime, "sessions")
Launch       == Append(Runtime, "launch")
Settlement   == Append(Runtime, "settlement")
Root(s)      == Append(SessionsRoot, s)
State(s)     == Append(Root(s), "state")
Receipt(s)   == Append(Root(s), "receipt")
Input(s)     == <<"cohort", "runtime", "sessions", s, "input", "invocation">>

Private == <<"private", "input", "workspace", "cache", "evidence">>

SessionLayout(s) ==
  <<Root(s)>> \o [i \in 1..Len(Private) |-> Append(Root(s), Private[i])]
              \o <<State(s)>>

(* Mutant: the launch is published before the sessions' directories.       *)
LayoutEarly ==
  <<Runtime, Launch, SessionsRoot>>
    \o FlattenSeq([i \in 1..Len(Planned) |-> SessionLayout(Planned[i])])

(* The order in which create_launch makes the runtime.                     *)
Layout ==
  <<Runtime, SessionsRoot>>
    \o FlattenSeq([i \in 1..Len(Planned) |-> SessionLayout(Planned[i])])
    \o <<Launch>>

(* run_one's writes of one session before its receipt; STARTING and the    *)
(* later states are written like RUNNING, the briefing like the invocation. *)
Progress == <<"PREPARING", "input", "RUNNING">>
Over == Len(Progress) + 1

-----------------------------------------------------------------------------
NoBundle    == [l \in Launchers |-> [plan |-> Nobody, pinned |-> FALSE]]
NothingLaid == [l \in Launchers |-> 0]
NothingDone == [l \in Launchers |-> <<>>]
NoStage     == [l \in Launchers |-> [s \in Sessions |-> 0]]
NoIndex     == [l \in Launchers |-> [s \in Sessions |-> "none"]]

(* The launchers among those who are about; the others never run.          *)
RunInit(crowd) ==
  /\ run = [l \in Launchers |-> IF l \in crowd THEN "idle" ELSE "ended"]
  /\ holder = Nobody
  /\ bundle = NoBundle /\ at = NothingLaid /\ doing = NothingDone
  /\ stage = NoStage /\ index = NoIndex
  /\ broken = {} /\ promised = {}

(* A launch binds the plan; its own time stamp makes it the launcher's.    *)
LaunchOf(l) == [by |-> l, plan |-> bundle[l].plan, sessions |-> Sessions,
                pinned |-> bundle[l].pinned]
StateOf(l, value) == [by |-> l, state |-> value]

(* Mutant: what the layout creates does not name its launch.               *)
ContentUnbound(l, path) ==
  IF path = Launch THEN LaunchOf(l) ELSE StateOf(Nobody, "PLANNED")

(* What create_launch puts at each place of the layout.                    *)
Content(l, path) ==
  IF path = Launch THEN LaunchOf(l)
  ELSE IF Last(path) = "state" THEN StateOf(l, "PLANNED") ELSE [by |-> l]

(* Mutant: create_launch publishes what read_launch will refuse.           *)
LaunchAcceptedUnpinned(launch) == launch.sessions = Sessions

(* _validate_launch_value and create_launch's own comparison: the sessions *)
(* are the plan's, and every identity in it rebuilds to its digest.        *)
LaunchAccepted(launch) == launch.sessions = Sessions /\ launch.pinned

(* What run_prepared_cohort binds before there is a claim: the plan, with  *)
(* a backend, policies, kit and arm that are well formed and may still not *)
(* be what they say.  What is malformed ends the call, and wrote nothing.  *)
Bound == [plan : {seen[Plan].by}, pinned : BOOLEAN]

(* authenticate_plan_bundle: a loadable bundle, rebuilt and audited; it is *)
(* kept in memory.                                                         *)
Authenticate(l) ==
  /\ run[l] = "idle" /\ Loadable
  /\ run' = [run EXCEPT ![l] = "ready"]
  /\ \E b \in Bound : bundle' = [bundle EXCEPT ![l] = b]
  /\ UNCHANGED <<treeVars, planner, holder, at, doing, stage, index, broken,
                 promised>>

Released(l) == IF holder = l THEN Nobody ELSE holder

(* run_prepared_cohort ends: its claim is released, its memory is gone.    *)
memoryVars == <<bundle, at, doing, stage, index, broken>>

Leave(l) ==
  /\ run' = [run EXCEPT ![l] = "ended"]
  /\ holder' = Released(l)
  /\ bundle' = [bundle EXCEPT ![l] = NoBundle[l]]
  /\ at' = [at EXCEPT ![l] = 0]
  /\ doing' = [doing EXCEPT ![l] = <<>>]
  /\ stage' = [stage EXCEPT ![l] = [s \in Sessions |-> 0]]
  /\ index' = [index EXCEPT ![l] = [s \in Sessions |-> "none"]]
  /\ broken' = broken \ {l}

(* RuntimeClaim.acquire does not wait; it syncs the cohort root.  What the *)
(* launch pins is verified again under the claim.                          *)
Claim(l) ==
  /\ run[l] = "ready"
  /\ IF holder = Nobody
       THEN /\ holder' = l
            /\ run' = [run EXCEPT ![l] = "laying"]
            /\ SyncDirectory(Cohort)
            /\ UNCHANGED memoryVars
       ELSE Leave(l) /\ UNCHANGED kept
  /\ UNCHANGED <<seen, planner, promised>>

-----------------------------------------------------------------------------
(* create_launch: each entry is named, then its directory is synced.  The  *)
(* first mkdir is the exclusive creation point: a runtime that is already  *)
(* there, whole or not, is never adopted.                                  *)
LayNext(l) ==
  LET path == Layout[at[l] + 1] IN
  /\ run[l] = "laying" /\ doing[l] = <<>>
  /\ IF Exists(path) \/ ~LaunchAccepted(LaunchOf(l))
       THEN /\ Leave(l)
            /\ UNCHANGED treeVars
       ELSE /\ Link(path, Content(l, path))
            /\ doing' = [doing EXCEPT ![l] = path]
            /\ IF path = Launch THEN SyncDirectory(SessionsRoot)
                                ELSE UNCHANGED kept
            /\ UNCHANGED <<run, holder, bundle, at, stage, index, broken>>
  /\ UNCHANGED <<planner, promised>>

LaidNext(l) ==
  /\ run[l] = "laying" /\ doing[l] # <<>>
  /\ SyncDirectory(Front(doing[l]))
  /\ at' = [at EXCEPT ![l] = @ + 1]
  /\ run' = [run EXCEPT ![l] = IF at'[l] = Len(Layout) THEN "serving" ELSE @]
  /\ doing' = [doing EXCEPT ![l] = <<>>]
  /\ UNCHANGED <<seen, planner, bundle, holder, stage, index, broken, promised>>

LayFails(l) ==
  /\ run[l] = "laying"
  /\ Leave(l)
  /\ UNCHANGED <<treeVars, planner, promised>>

-----------------------------------------------------------------------------
(* The sessions.  A store call does not await, so one name at a time is on *)
(* its way to the device; between calls the sessions interleave freely.    *)
Serving(l) == run[l] = "serving" /\ doing[l] = <<>>

(* write_state compares the launch on disk with the one it writes under.   *)
OwnLaunch(l) == Exists(Launch) /\ seen[Launch].by = l

(* Sessions between their first write and their receipt.                   *)
Working(l) == {s \in Sessions : stage[l][s] > 0 /\ index[l][s] = "none"}

(* _next: in the plan's order, and none after a receipt that failed.       *)
MayTake(l, s) ==
  /\ l \notin broken /\ Cardinality(Working(l)) < Concurrency
  /\ \A n \in 1..Len(Planned) :
       s = Planned[n] => \A m \in 1..n - 1 : stage[l][Planned[m]] > 0

(* write_state replaces, write_input_file links; the directory is synced   *)
(* in the next step.                                                       *)
Write(l, s) ==
  LET step == stage[l][s] + 1 IN
  /\ Serving(l) /\ OwnLaunch(l) /\ step \in 1..Len(Progress)
  /\ step = 1 => MayTake(l, s)
  /\ IF Progress[step] = "input"
       THEN /\ Link(Input(s), [by |-> l])
            /\ doing' = [doing EXCEPT ![l] = Input(s)]
       ELSE /\ Replace(State(s), StateOf(l, Progress[step]))
            /\ doing' = [doing EXCEPT ![l] = State(s)]
  /\ stage' = [stage EXCEPT ![l][s] = step]
  /\ UNCHANGED <<kept, planner, run, bundle, holder, at, index, broken,
                 promised>>

Written(l) ==
  /\ run[l] = "serving" /\ doing[l] # <<>> /\ Last(doing[l]) # "receipt"
  /\ SyncDirectory(Front(doing[l]))
  /\ doing' = [doing EXCEPT ![l] = <<>>]
  /\ UNCHANGED <<seen, planner, run, bundle, holder, at, stage, index, broken,
                 promised>>

(* A write fails before its name appears, or its directory sync does: the  *)
(* session goes straight to its receipt.                                   *)
WriteFails(l, s) ==
  /\ \/ doing[l] \in {State(s), Input(s)} /\ run[l] = "serving"
     \/ /\ Serving(l) /\ stage[l][s] < Over
        /\ stage[l][s] = 0 => MayTake(l, s)
  /\ stage' = [stage EXCEPT ![l][s] = Over]
  /\ doing' = [doing EXCEPT ![l] = <<>>]
  /\ UNCHANGED <<treeVars, planner, run, bundle, holder, at, index, broken,
                 promised>>

(* The receipts.  run_one makes one per session, settle_missing makes one  *)
(* more for a session that has none in memory; no two have the same bytes. *)
ReceiptOf(l, status) == [by |-> l, status |-> status]

Swept == Over + 1

RunOneDue(l, s) == Serving(l) /\ stage[l][s] \in 1..Over /\ index[l][s] = "none"
Missing(l, s) ==
  /\ run[l] = "settling" /\ doing[l] = <<>>
  /\ stage[l][s] # Swept /\ index[l][s] \in {"none", "lost"}

(* Mutants: a receipt counts as soon as its name is there; a later one     *)
(* takes the place of one that is there.                                   *)
PutReceiptOver(l, s, status) ==
  /\ Replace(Receipt(s), ReceiptOf(l, status))
  /\ index' = [index EXCEPT ![l][s] = status]
  /\ doing' = [doing EXCEPT ![l] = Receipt(s)]
  /\ UNCHANGED broken
PutReceiptAtOnce(l, s, status) ==
  IF Exists(Receipt(s))
    THEN /\ index' = [index EXCEPT ![l][s] = "lost"]
         /\ broken' = broken \cup {l}
         /\ UNCHANGED <<seen, doing>>
    ELSE /\ Link(Receipt(s), ReceiptOf(l, status))
         /\ index' = [index EXCEPT ![l][s] = status]
         /\ UNCHANGED <<doing, broken>>

(* write_receipt: publication is exclusive, an occupant is a conflict.     *)
PutReceipt(l, s, status) ==
  IF Exists(Receipt(s))
    THEN /\ index' = [index EXCEPT ![l][s] = "lost"]
         /\ broken' = broken \cup {l}
         /\ UNCHANGED <<seen, doing>>
    ELSE /\ Link(Receipt(s), ReceiptOf(l, status))
         /\ index' = [index EXCEPT ![l][s] = status]
         /\ doing' = [doing EXCEPT ![l] = Receipt(s)]
         /\ UNCHANGED broken

(* run_one ends, after any of its writes. *)
EndSession(l, s, status) ==
  /\ RunOneDue(l, s)
  /\ PutReceipt(l, s, status)
  /\ stage' = [stage EXCEPT ![l][s] = Over]
  /\ UNCHANGED <<kept, planner, run, bundle, holder, at, promised>>

(* The workers are done: nobody is between taking a session and its        *)
(* receipt; what nobody took is left to settle_missing.                    *)
BeginSettling(l) ==
  /\ Serving(l) /\ Working(l) = {}
  /\ run' = [run EXCEPT ![l] = "settling"]
  /\ UNCHANGED <<treeVars, planner, bundle, holder, at, doing, stage, index,
                 broken, promised>>

(* settle_missing: one CANCELLED receipt for each session without one.     *)
SettleMissing(l, s) ==
  /\ Missing(l, s)
  /\ PutReceipt(l, s, "CANCELLED")
  /\ stage' = [stage EXCEPT ![l][s] = Swept]
  /\ UNCHANGED <<kept, planner, run, bundle, holder, at, promised>>

(* The receipt's directory is synced, and without an await _persist writes *)
(* the terminal state: it fails, or is there, or is there for good.  The   *)
(* receipt counts all the same.                                            *)
ReceiptSynced(l, s) ==
  LET terminal == StateOf(l, index[l][s]) IN
  /\ doing[l] = Receipt(s)
  /\ \/ /\ SyncDirectory(Root(s)) /\ UNCHANGED seen
     \/ /\ OwnLaunch(l) /\ Replace(State(s), terminal)
        /\ \/ SyncDirectory(Root(s))
           \/ SyncDirectoryAfter(Root(s))
  /\ doing' = [doing EXCEPT ![l] = <<>>]
  /\ UNCHANGED <<planner, run, bundle, holder, at, stage, index, broken,
                 promised>>

(* Or its publication fails, before its name appeared or after.            *)
ReceiptFails(l, s) ==
  /\ doing[l] = Receipt(s) \/ RunOneDue(l, s) \/ Missing(l, s)
  /\ index' = [index EXCEPT ![l][s] = "lost"]
  /\ broken' = broken \cup {l}
  /\ stage' = [stage EXCEPT ![l][s] = IF run[l] = "settling" THEN Swept ELSE Over]
  /\ doing' = [doing EXCEPT ![l] = <<>>]
  /\ UNCHANGED <<treeVars, planner, run, bundle, holder, at, promised>>

-----------------------------------------------------------------------------
SettlementOf(l) == [by |-> l, rows |-> index[l]]

(* settlement_value is incomplete after a failed write; otherwise          *)
(* _validate_settlement_value compares every row with the receipt on disk. *)
Complete(l) ==
  /\ l \notin broken
  /\ \A s \in Sessions :
       Exists(Receipt(s)) /\ seen[Receipt(s)] = ReceiptOf(l, index[l][s])

Settle(l) ==
  /\ run[l] = "settling" /\ doing[l] = <<>>
  /\ \A s \in Sessions : ~Missing(l, s)
  /\ IF Complete(l) /\ ~Exists(Settlement)
       THEN /\ Link(Settlement, SettlementOf(l))
            /\ doing' = [doing EXCEPT ![l] = Settlement]
            /\ UNCHANGED <<run, holder, bundle, at, stage, index, broken>>
       ELSE /\ Leave(l)
            /\ UNCHANGED seen
  /\ UNCHANGED <<kept, planner, promised>>

(* The settlement's directory is synced and the caller has its result.     *)
Reported(l) ==
  /\ doing[l] = Settlement
  /\ SyncDirectory(Runtime)
  /\ Leave(l)
  /\ promised' = IF Cohort \in DOMAIN kept
                   THEN promised \cup {[by |-> l, plan |-> bundle[l].plan,
                                      rows |-> index[l]]}
                   ELSE promised
  /\ UNCHANGED <<seen, planner>>

SettleFails(l) ==
  /\ run[l] = "settling" /\ doing[l] \in {<<>>, Settlement}
  /\ Leave(l)
  /\ UNCHANGED <<treeVars, planner, promised>>

(* The process dies; the kernel lets go of its lock.                       *)
Dies(l) ==
  /\ run[l] \in {"ready", "laying", "serving", "settling"}
  /\ Leave(l)
  /\ UNCHANGED <<treeVars, planner, promised>>

LauncherStep(l) ==
  \/ Authenticate(l) \/ Claim(l)
  \/ LayNext(l) \/ LaidNext(l) \/ LayFails(l)
  \/ \E s \in Sessions : \/ Write(l, s) \/ WriteFails(l, s)
                         \/ \E v \in Verdicts : EndSession(l, s, v)
                         \/ SettleMissing(l, s)
                         \/ ReceiptSynced(l, s) \/ ReceiptFails(l, s)
  \/ Written(l) \/ BeginSettling(l)
  \/ Settle(l) \/ Reported(l) \/ SettleFails(l)
  \/ Dies(l)
=============================================================================

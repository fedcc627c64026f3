--------------------------- MODULE CohortRunProps ---------------------------
(***************************************************************************)
(* What CohortRun is checked for.  The properties are stated here, apart   *)
(* from the model, so that the model reads like the host program.          *)
(***************************************************************************)
EXTENDS CohortRun

(* The promise to the reader of a launch, with the refinement mapping: a   *)
(* session holds a slot from its backend.start on, and the verdict is the  *)
(* status in the durable receipt.                                          *)
Contract == INSTANCE CohortContract WITH
  Slots <- Workers, NoSlot <- NoWorker,
  slot <- [s \in Sessions |-> IF s \in launched THEN runner[s] ELSE NoWorker],
  verdict <- [s \in Sessions |-> receipt[s].status]

(* Every launch is a behaviour of the contract.                            *)
ImplementsContract == Contract!Spec

-----------------------------------------------------------------------------
PCs == {"queued", "activating", "starting", "aborting", "running", "stopping",
        "finishing", "publishing", "persisting", "done"}
Whys == {"none", "early", "host", "waitfailed", "confirm", "resource", "wall",
         "cohort"}

(* Every variable of the launch has the shape the code gives it, group by  *)
(* group of CohortRun's variables.                                         *)
FlagsTyped == stopNew \in BOOLEAN /\ unsafe \in BOOLEAN

PoolTyped ==
  /\ phase \in {"launching", "serving", "settling", "settled", "incomplete"}
  /\ wstate \in [Workers -> {"working", "exited", "failed"}]
  /\ cursor \in 0..N

OwnTyped == runner \in [Sessions -> Workers \cup {NoWorker}] /\ launched \subseteq Sessions

LocalsTyped ==
  /\ handler \subseteq Sessions /\ started \subseteq Sessions
  /\ why \in [Sessions -> Whys]
  /\ ev \in [Sessions -> Events \cup {"none"}]
  /\ outcome \in [Sessions -> {"none", "success", "failure"}]
  /\ contrib \in [Sessions -> Nat]

PublishTyped ==
  /\ pubs \in [Sessions -> Nat]
  /\ rejected \in [Sessions -> Nat]
  /\ admitted \in [Sessions -> Nat]

GuardTyped ==
  /\ globalEvent \in {"none", "disk", "uncertain"}
  /\ treeEvent \subseteq Sessions /\ finished \subseteq Sessions
  /\ doubted \subseteq Sessions

LedgerTyped ==
  /\ swept \in 0..N
  /\ receipt \in [Sessions -> Receipts \cup {NoReceipt}]
  /\ indexed \subseteq Sessions
  /\ settlement \in {"none", "UNSAFE", "CANCELLED", "COMPLETED_WITH_FAILURES",
                     "SUCCEEDED"}
  /\ storeFailed \in BOOLEAN /\ impaired \in BOOLEAN

PointTyped ==
  /\ pc \in [Sessions -> PCs] /\ live \subseteq Sessions
  /\ pend \in [Sessions -> Verdicts \cup {NoVerdict}]
  /\ \A s \in Sessions : pc[s] = "persisting" => pend[s] # NoVerdict

TypeOK ==
  /\ FlagsTyped   /\ PoolTyped  /\ OwnTyped    /\ LocalsTyped
  /\ PublishTyped /\ GuardTyped /\ LedgerTyped /\ PointTyped

-----------------------------------------------------------------------------
(* A fixed worker pool starts no more than its concurrency of backends,    *)
(* counting every backend whose stop was never proven: an UNKNOWN session  *)
(* keeps its slot and a fresh session is never started in it.              *)
SlotsBounded == Cardinality(live) <= Cardinality(Workers)

(* Once a session is UNKNOWN, or the host has lost a backend or its        *)
(* accounting, no further backend is started anywhere in the cohort.       *)
NoStartAfterUnknown ==
  [][unsafe \/ Recorded("UNKNOWN") => launched' = launched]_vars

(* A receipt never counts a publication the world did not admit, a         *)
(* successful one accounts for every contribution exactly once, and a      *)
(* session that published is never reported CANCELLED or bare.  Only a     *)
(* failure below the host (a store write, a receipt builder) may lose      *)
(* publications from a receipt.                                            *)
PublicationsAccounted ==
  \A s \in Sessions : receipt[s] # NoReceipt =>
    LET r == receipt[s] IN
    /\ r.pubs <= admitted[s]
    /\ r.status = "SUCCEEDED" =>
         r.pubs = admitted[s] /\ r.pubs + r.rejected = r.contrib
    /\ admitted[s] > 0 /\ ~impaired =>
         r.status \in {"SUCCEEDED", "FAILED", "UNKNOWN"} /\ r.contrib > 0

(* orchestrator.py and store.py decide independently which receipts are    *)
(* legal: whatever the controller builds, through every branch and every   *)
(* late rewriting by the guard, the store accepts.                         *)
StoreAgrees == storeFailed => impaired

(* They also decide independently what a complete ledger means: a launch   *)
(* in which nothing below the host broke is never left unsettled.          *)
SettlementAgrees == phase = "incomplete" => impaired

(* A settlement other than UNSAFE is a promise that nothing still runs.    *)
SettledIsQuiet == settlement \notin {"none", "UNSAFE"} => live = {}

(* A complete set of definite receipts cannot hide a lost backend: work    *)
(* that may still run is always on record as unsafe by the time its        *)
(* run_one has returned.                                                   *)
LostWorkIsFlagged ==
  \A s \in live : pc[s] = "done" => unsafe /\ stopNew

(* Once its wall timers go off every launch settles, whatever the backends,*)
(* monitors and caller do, unless the store or a receipt builder fails.    *)
Settles ==
  (\A s \in Sessions : WF_vars(Interrupted(s))) /\ []~impaired
    => <>(phase = "settled")

(* Without them a backend may run forever, but once the cohort is told to   *)
(* stop (cancellation, disk, accounting, a lost backend) it drains and     *)
(* ends.                                                                   *)
StopDrains == stopNew ~> phase \in {"settled", "incomplete"}

-----------------------------------------------------------------------------
(* docs/ARCHITECTURE.md: "CANCELLED requires either no start or a positive *)
(* cleanup proof".                                                         *)
CancelledMeansCleanedUp ==
  \A s \in Sessions : receipt[s].status = "CANCELLED" => s \notin live

(* docs/SAFETY.md: "an uncertain scan makes the cohort UNSAFE".            *)
UncertainScanMakesUnsafe ==
  doubted # {} => settlement \in {"none", "UNSAFE"}
=============================================================================

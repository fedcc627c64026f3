------------------------- MODULE CohortRunInvariant -------------------------
(***************************************************************************)
(* Why the safety properties of CohortRunProps hold: what is true at each  *)
(* await of run_one, strong enough to be preserved by every step.          *)
(***************************************************************************)
EXTENDS CohortRunProps

Idle == {"queued", "done"}

(* A session between its first and last await belongs to a worker that is  *)
(* working, for it alone; the queue is the rest of the plan.               *)
PoolInv ==
  /\ \A s \in Sessions : pc[s] \notin Idle =>
       phase = "serving" /\ runner[s] \in Workers /\ wstate[runner[s]] = "working"
  /\ \A s, t \in Sessions :
       pc[s] \notin Idle /\ pc[t] \notin Idle /\ runner[s] = runner[t] => s = t
  /\ \A s \in Sessions : s > cursor => pc[s] = "queued"

(* Where a session's backend may be running: from backend.start to the     *)
(* stop proof, and after run_one only if that proof never came.            *)
Custody(s) ==
  /\ pc[s] \in {"queued", "activating", "finishing", "publishing"} => s \notin live
  /\ pc[s] \in {"persisting", "done"} /\ s \in live => unsafe
  /\ s \in live => s \in launched
  /\ s \in launched => runner[s] \in Workers
  /\ s \in started => s \in launched
  /\ pc[s] \in {"queued", "activating"} => s \notin launched
  /\ pc[s] \in {"starting", "aborting", "running", "stopping",
                "finishing", "publishing"} => s \in launched

CustodyInv ==
  /\ \A s \in Sessions : Custody(s)
  /\ \A s, t \in live : runner[s] = runner[t] => s = t

(* Everything that makes a session UNKNOWN makes the cohort unsafe, and an *)
(* unsafe cohort starts nothing new.                                       *)
Doubt(s) ==
  /\ pc[s] \in {"queued", "activating", "starting", "aborting", "running"} =>
       ev[s] = "none"
  /\ pc[s] = "stopping" /\ ev[s] = "uncertain" => why[s] = "early" \/ unsafe
  /\ pc[s] = "persisting" /\ pend[s].status = "UNKNOWN" => unsafe
  /\ receipt[s].status = "UNKNOWN" => unsafe

DoubtInv == (unsafe => stopNew) /\ \A s \in Sessions : Doubt(s)

(* The settlement is the last thing a launch does.                         *)
SettledInv ==
  /\ phase \in {"launching", "serving", "settling"} => settlement = "none"
  /\ settlement \notin {"none", "UNSAFE"} => live = {}

IInv == TypeOK /\ PoolInv /\ CustodyInv /\ DoubtInv /\ SettledInv

-----------------------------------------------------------------------------
(* Nothing of the session's was given to the publisher or the arm.         *)
Unoffered(s) == pubs[s] = 0 /\ rejected[s] = 0 /\ admitted[s] = 0

(* What became of the contributions, at each await.  Only a receipt that   *)
(* could not be built brings a session back from publishing to a stop.     *)
Counted(s) ==
  /\ pubs[s] <= admitted[s]
  /\ pc[s] \in {"queued", "activating", "starting", "aborting", "running",
                "finishing"} => Unoffered(s)
  /\ pc[s] = "stopping" => Unoffered(s) \/ (impaired /\ why[s] # "confirm")
  /\ pc[s] = "publishing" =>
       /\ pubs[s] + rejected[s] < contrib[s] /\ pubs[s] = admitted[s]
       /\ PublisherBound \/ Unoffered(s)

(* A verdict the store accepts, whatever the last measurement makes of it. *)
Legal(s, p) ==
  /\ p.status = "CANCELLED" => p.proof = "proven"
  /\ p.status = "FAILED" => p.proof # "unproven"
  /\ p.started /\ p.status # "UNKNOWN" => p.proof = "proven"
  /\ PublisherBound \/ p.pubs = 0
  /\ p.pubs + rejected[s] <= IF p.outcome = "none" THEN 0 ELSE contrib[s]
  /\ p.status = "UNKNOWN" /\ p.proof = "proven" =>
       p.reason = "uncertain" /\ globalEvent = "uncertain"
  /\ admitted[s] > 0 =>
       p.status # "CANCELLED" /\ p.outcome # "none" /\ contrib[s] > 0

(* What a success must show.                                               *)
Complete(s, p) ==
  /\ p.proof = "proven" /\ p.outcome = "success"
  /\ p.pubs = admitted[s] /\ p.pubs + rejected[s] = contrib[s]
  /\ PublisherBound \/ contrib[s] = 0

(* What _persist was called with.                                          *)
Offered(s) ==
  pc[s] = "persisting" =>
    /\ pend[s].pubs <= admitted[s]
    /\ pend[s].status = "SUCCEEDED" =>
         s \in launched /\ s \notin live /\ Complete(s, pend[s])
    /\ pend[s].status # "UNKNOWN" /\ s \in live => impaired
    /\ impaired \/ Legal(s, pend[s])

(* PublicationsAccounted, of one session.                                  *)
Accounted(s) ==
  receipt[s] # NoReceipt =>
    /\ receipt[s].pubs <= admitted[s]
    /\ receipt[s].status = "SUCCEEDED" =>
         /\ receipt[s].pubs = admitted[s]
         /\ receipt[s].pubs + receipt[s].rejected = receipt[s].contrib
    /\ admitted[s] > 0 /\ ~impaired =>
         receipt[s].status \in {"SUCCEEDED", "FAILED", "UNKNOWN"} /\ receipt[s].contrib > 0

(* What is on record, and when.                                            *)
Kept(s) ==
  /\ receipt[s] # NoReceipt => pc[s] = "done" \/ phase \notin {"launching", "serving"}
  /\ s \in indexed => receipt[s] # NoReceipt
  /\ receipt[s] # NoReceipt /\ s \notin indexed => impaired
  /\ pc[s] = "done" /\ s \notin indexed => impaired
  /\ ev[s] = "uncertain" => globalEvent = "uncertain"
  /\ Accounted(s)

LedgerInv ==
  /\ StoreAgrees /\ (phase = "launching" => globalEvent = "none")
  /\ \A s \in Sessions : Counted(s) /\ Offered(s) /\ Kept(s)

-----------------------------------------------------------------------------
(* Who will have caused an unsafe cohort: a session that is on record as   *)
(* UNKNOWN, one that is about to be, or one whose receipt is still to be   *)
(* written under the cohort's uncertain event.                             *)
ToBlame(s) ==
  \/ receipt[s].status = "UNKNOWN"
  \/ pc[s] = "persisting" /\ pend[s].status = "UNKNOWN"
  \/ globalEvent = "uncertain" /\ s \notin indexed

(* Unless something broke underneath, settle_missing leaves nobody behind  *)
(* it without a receipt, no worker fails, and an unsafe cohort has an      *)
(* UNKNOWN to show for it.                                                 *)
Unbroken ==
  /\ \A w \in Workers : wstate[w] # "failed"
  /\ \A s \in Sessions : s <= swept => s \in indexed
  /\ unsafe => \E s \in Sessions : ToBlame(s)
  /\ phase # "incomplete"

AgreementInv == (phase = "launching" => indexed = {}) /\ (impaired \/ Unbroken)
=============================================================================

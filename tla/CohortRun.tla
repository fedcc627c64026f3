----------------------------- MODULE CohortRun -----------------------------
(***************************************************************************)
(* One launch of a frozen cohort plan: run_prepared_cohort and _Controller *)
(* of runtime/orchestrator.py, with the parts of RuntimeStore and          *)
(* ResourceGuard they call.                                                *)
(*                                                                         *)
(* The host is one asyncio event loop, so code between two awaits is one   *)
(* atomic action here and pc[s] names the await run_one is suspended at.   *)
(* Several workers run sessions concurrently; the backend, the resource    *)
(* monitors, the caller's cancellation and the disk under the store are    *)
(* the environment.                                                        *)
(***************************************************************************)
EXTENDS Integers, FiniteSets

CONSTANTS N,                 \* sessions in the plan, run in the order 1..N
          Workers,           \* the fixed pool: one worker per concurrency slot
          NoWorker,          \* "no worker took this session"
          MaxContributions,  \* bound on the contributions of one outcome
          PublisherBound,    \* a PMW publisher is bound (else DISABLED)
          ArmConfigured,     \* an agenda arm reviews contributions
          WallLimit,         \* session_wall_seconds is set
          Faults             \* what may go wrong in this instance, from:
                             \*  "write"   a state or input file is not written
                             \*  "ledger"  a receipt or settlement write fails
                             \*  "build"   building a receipt raises
                             \*  "stop"    a stop or failed start is unproven
                             \*  "disk", "tree", "uncertain"  guard events
                             \*  "cancel"  the caller cancels

ASSUME PlanAssumption == N \in Nat \ {0} /\ MaxContributions \in Nat
ASSUME PoolAssumption == IsFiniteSet(Workers) /\ NoWorker \notin Workers
ASSUME ModeAssumption ==
  /\ PublisherBound \in BOOLEAN /\ ArmConfigured \in BOOLEAN
  /\ WallLimit \in BOOLEAN
  /\ Faults \subseteq {"write", "ledger", "build", "stop", "disk", "tree",
                       "uncertain", "cancel"}

Sessions == 1..N
Statuses == {"SUCCEEDED", "FAILED", "CANCELLED", "UNKNOWN"}
Events   == {"disk", "uncertain", "tree"}
Proofs   == {"proven", "unproven", "none"}

(* A receipt as _persist builds it, as far as its terminal invariants go   *)
(* (reason is "uncertain" for RESOURCE_ACCOUNTING_UNCERTAIN, else "other") *)
(* and the part of it that readers are held to.                            *)
Built == [status : Statuses, proof : Proofs, started : BOOLEAN,
          outcome : {"none", "success", "failure"}, contrib : Nat,
          pubs : Nat, rejected : Nat, reason : {"uncertain", "other"}]
Receipts == [status : Statuses, proof : Proofs, contrib : Nat, pubs : Nat,
             rejected : Nat]
NoReceipt == [status |-> "none"]

VARIABLES
  phase,      \* where run_prepared_cohort is
  wstate,     \* worker -> working, exited (_next gave None) or failed
  cursor,     \* _Controller._cursor
  stopNew, unsafe, storeFailed,   \* _Controller's flags
  runner,     \* session -> the worker that took it
  pc,         \* session -> the await its run_one is suspended at
  handler,    \* sessions whose run_one is in its outer except clause
  started,    \* sessions with started_at set, i.e. a handle was published
  why, ev,    \* session -> reason of the stop in progress, captured event
  outcome, contrib,               \* session -> the backend's outcome
  pubs, rejected,                 \* session -> _publish's progress
  pend,       \* session -> the verdict _persist was called with
  globalEvent, treeEvent,         \* ResourceGuard's latches
  finished,   \* sessions whose terminal measurement is done
  swept,      \* settle_missing's position in the plan
  receipt,    \* session -> durable receipt.json
  indexed,    \* sessions in _Controller.receipts
  settlement, \* durable settlement.json
  launched,   \* history: backend.start was called
  live,       \* truth: backend work not proven stopped
  admitted,   \* truth: contributions the world admitted
  doubted,    \* history: sessions one of whose scans was uncertain
  impaired    \* history: a store write or a receipt builder failed

flagVars    == <<stopNew, unsafe>>
poolVars    == <<phase, wstate, cursor>>
ownVars     == <<runner, launched>>
localVars   == <<handler, started, why, ev, outcome, contrib>>
publishVars == <<pubs, rejected, admitted>>
guardVars   == <<globalEvent, treeEvent, finished, doubted>>
ledgerVars  == <<swept, receipt, indexed, settlement, storeFailed, impaired>>
vars == <<flagVars, poolVars, ownVars, localVars, publishVars, guardVars,
          ledgerVars, pc, pend, live>>

-----------------------------------------------------------------------------
(* The resource guard as the controller sees it. *)

(* event_for: the cohort-wide event outranks the session's own. *)
EventFor(s) ==
  IF globalEvent # "none" THEN globalEvent
  ELSE IF s \in treeEvent THEN "tree" ELSE "none"

(* Mutants of Observe: a lost backend does not stop new work; does stop it *)
(* but is not unsafe; a disk breach counts as unsafe.                      *)
ObserveKeepsServing(e, unproven) ==
  /\ unsafe'  = (unsafe \/ unproven \/ e = "uncertain")
  /\ stopNew' = (stopNew \/ e \in {"uncertain", "disk"})
ObserveStopsOnly(e, unproven) ==
  /\ unsafe'  = (unsafe \/ e = "uncertain")
  /\ stopNew' = (stopNew \/ unproven \/ e \in {"uncertain", "disk"})
ObserveDiskUnsafe(e, unproven) ==
  /\ unsafe'  = (unsafe \/ unproven \/ e \in {"uncertain", "disk"})
  /\ stopNew' = (stopNew \/ unproven \/ e \in {"uncertain", "disk"})

(* _observe_resource_event(e), together with the unsafe/stop_new pair the  *)
(* host sets when a stop is not proven.                                    *)
Observe(e, unproven) ==
  /\ unsafe'  = (unsafe \/ unproven \/ e = "uncertain")
  /\ stopNew' = (stopNew \/ unproven \/ e \in {"uncertain", "disk"})

(* _resource_status *)
ResourceStatus(e, proof) ==
  IF e = "uncertain" \/ proof = "unproven" THEN "UNKNOWN" ELSE "FAILED"

ReasonFor(e) == IF e = "uncertain" THEN "uncertain" ELSE "other"

-----------------------------------------------------------------------------
(* The verdict a session hands to _persist, and the way _persist rewrites  *)
(* it after the guard's terminal measurement.                              *)

Verdict(status, proof, began, out, published, reason) ==
  [status |-> status, proof |-> proof, started |-> began, outcome |-> out,
   pubs |-> published, reason |-> reason]

NotStarted(status, reason) ==
  Verdict(status, "proven", FALSE, "none", 0, reason)

Verdicts == [status : Statuses, proof : Proofs, started : BOOLEAN,
             outcome : {"none", "success", "failure"}, pubs : Nat,
             reason : {"uncertain", "other"}]
NoVerdict == [status |-> "none"]

(* Mutant: a breach found at the end turns an UNKNOWN into a FAILED.       *)
RewrittenAlways(p, e) ==
  IF e = "uncertain"
    THEN [p EXCEPT !.status = "UNKNOWN", !.reason = "uncertain"]
  ELSE IF e # "none" /\ p.started
    THEN [p EXCEPT !.status = "FAILED", !.reason = "other"]
  ELSE p

Rewritten(p, e) ==
  IF e = "uncertain"
    THEN [p EXCEPT !.status = "UNKNOWN", !.reason = "uncertain"]
  ELSE IF e # "none" /\ p.started /\ p.status # "UNKNOWN"
    THEN [p EXCEPT !.status = "FAILED", !.reason = "other"]
  ELSE p

ReceiptOf(s, p) ==
  [status |-> p.status, proof |-> p.proof, started |-> p.started,
   outcome |-> p.outcome, pubs |-> p.pubs, rejected |-> rejected[s],
   contrib |-> IF p.outcome = "none" THEN 0 ELSE contrib[s],
   reason |-> p.reason]

Durable(r) == [status |-> r.status, proof |-> r.proof, contrib |-> r.contrib,
               pubs |-> r.pubs, rejected |-> r.rejected]

(* RuntimeStore._validate_receipt_value: the terminal invariants. *)
ReceiptAccepted(r, terminal) ==
  /\ r.status = "SUCCEEDED" =>
       /\ r.proof = "proven" /\ r.outcome = "success"
       /\ r.pubs + r.rejected = r.contrib
       /\ PublisherBound \/ r.contrib = 0
  /\ r.status = "CANCELLED" => r.proof = "proven"
  /\ r.status = "FAILED" => r.proof # "unproven"
  /\ r.started /\ r.status # "UNKNOWN" => r.proof = "proven"
  /\ PublisherBound \/ r.pubs = 0
  /\ r.pubs + r.rejected <= r.contrib
  /\ r.status = "UNKNOWN" /\ r.proof = "proven" =>
       r.reason = "uncertain" /\ terminal = "uncertain"

-----------------------------------------------------------------------------
Init ==
  /\ phase = "launching"
  /\ wstate = [w \in Workers |-> "working"]
  /\ cursor = 0 /\ swept = 0
  /\ stopNew = FALSE /\ unsafe = FALSE
  /\ storeFailed = FALSE /\ impaired = FALSE
  /\ runner = [s \in Sessions |-> NoWorker]
  /\ pc = [s \in Sessions |-> "queued"]
  /\ why = [s \in Sessions |-> "none"] /\ ev = [s \in Sessions |-> "none"]
  /\ outcome = [s \in Sessions |-> "none"]
  /\ contrib = [s \in Sessions |-> 0]
  /\ pubs = [s \in Sessions |-> 0] /\ rejected = [s \in Sessions |-> 0]
  /\ admitted = [s \in Sessions |-> 0]
  /\ pend = [s \in Sessions |-> NoVerdict]
  /\ receipt = [s \in Sessions |-> NoReceipt]
  /\ globalEvent = "none" /\ settlement = "none"
  /\ handler = {} /\ started = {} /\ treeEvent = {} /\ finished = {}
  /\ indexed = {} /\ launched = {} /\ live = {} /\ doubted = {}

(* create_launch has published launch.json; guard.start makes the initial  *)
(* disk check, the controller observes the event it found, workers start.  *)
GuardStarts(e) ==
  /\ phase = "launching" /\ e \in Faults \cup {"none"}
  /\ phase' = "serving"
  /\ globalEvent' = e
  /\ Observe(e, FALSE)
  /\ UNCHANGED <<wstate, cursor, ownVars, localVars, publishVars, treeEvent,
                 finished, doubted, ledgerVars, pc, pend, live>>

-----------------------------------------------------------------------------
(* Workers: worker and _next. *)

Busy(w) == \E s \in Sessions : runner[s] = w /\ pc[s] \notin {"queued", "done"}

(* Mutant: off by one.                                                     *)
HasNextOffByOne == ~stopNew /\ cursor <= N

(* _next has a session to give. *)
HasNext == ~stopNew /\ cursor < N

(* run_one up to its first await.  The PREPARING state write or the input  *)
(* files may fail, which lands in the outer except without a handle.       *)
Take(w) ==
  LET s == cursor + 1 IN
  /\ phase = "serving" /\ wstate[w] = "working" /\ ~Busy(w)
  /\ HasNext
  /\ cursor' = s
  /\ runner' = [runner EXCEPT ![s] = w]
  /\ \/ /\ pc' = [pc EXCEPT ![s] = "activating"]
        /\ UNCHANGED <<pend, handler>>
     \/ /\ "write" \in Faults
        /\ pc' = [pc EXCEPT ![s] = "persisting"]
        /\ handler' = handler \cup {s}
        /\ pend' = [pend EXCEPT ![s] =
                      Verdict("FAILED", "none", FALSE, "none", 0, "other")]
  /\ UNCHANGED <<phase, wstate, flagVars, launched, started, why, ev, outcome,
                 contrib, publishVars, guardVars, ledgerVars, live>>

WorkerExits(w) ==
  /\ phase = "serving" /\ wstate[w] = "working" /\ ~Busy(w)
  /\ ~HasNext
  /\ wstate' = [wstate EXCEPT ![w] = "exited"]
  /\ UNCHANGED <<phase, cursor, flagVars, ownVars, localVars, publishVars,
                 guardVars, ledgerVars, pc, pend, live>>

-----------------------------------------------------------------------------
(* run_one from guard.activate to a published handle. *)

(* Hand verdict p to _persist, which first awaits guard.finish. *)
Persisting(s, p) ==
  /\ pc' = [pc EXCEPT ![s] = "persisting"]
  /\ pend' = [pend EXCEPT ![s] = p]

(* guard.activate returns and, when nothing forbids it, backend.start is   *)
(* called.  An event found here makes the session FAILED or UNKNOWN even   *)
(* when it is cohort-wide; a cohort stop makes it CANCELLED; the STARTING  *)
(* state write may fail; a drifted backend identity prevents the start.    *)
Activated(s) ==
  LET e == EventFor(s) IN
  /\ pc[s] = "activating"
  /\ Observe(e, FALSE)
  /\ IF e # "none" THEN
       /\ Persisting(s, NotStarted(ResourceStatus(e, "proven"), ReasonFor(e)))
       /\ UNCHANGED <<launched, live, handler>>
     ELSE IF stopNew THEN
       /\ Persisting(s, NotStarted("CANCELLED", "other"))
       /\ UNCHANGED <<launched, live, handler>>
     ELSE
       \/ /\ pc' = [pc EXCEPT ![s] = "starting"]
          /\ launched' = launched \cup {s}
          /\ live' = live \cup {s}
          /\ UNCHANGED <<pend, handler>>
       \/ /\ Persisting(s, NotStarted("FAILED", "other"))
          /\ UNCHANGED <<launched, live, handler>>
       \/ /\ "write" \in Faults
          /\ Persisting(s, Verdict("FAILED", "none", FALSE, "none", 0, "other"))
          /\ handler' = handler \cup {s}
          /\ UNCHANGED <<launched, live>>
  /\ UNCHANGED <<poolVars, runner, started, why, ev, outcome, contrib,
                 publishVars, guardVars, ledgerVars>>

(* run_one's classification when _start gives no handle. *)
NoHandle(s, proof) ==
  LET e == EventFor(s)
      proven == proof = "proven"
      status == IF ~proven \/ e = "uncertain" THEN "UNKNOWN"
                ELSE IF e = "disk" \/ (e = "none" /\ stopNew) THEN "CANCELLED"
                ELSE "FAILED"
      reason == IF proven THEN ReasonFor(e) ELSE "other"
  IN /\ Observe(e, ~proven)
     /\ live' = IF proven THEN live \ {s} ELSE live
     /\ Persisting(s, Verdict(status, proof, FALSE, "none", 0, reason))
     /\ UNCHANGED <<handler, started, why, ev>>

(* A published handle: the RUNNING state write may fail; a cohort stop or  *)
(* an event that arrived meanwhile stops the backend at once.              *)
HandlePublished(s) ==
  LET e == EventFor(s) IN
  /\ started' = started \cup {s}
  /\ \/ /\ "write" \in Faults
        /\ pc' = [pc EXCEPT ![s] = "stopping"]
        /\ why' = [why EXCEPT ![s] = "host"]
        /\ handler' = handler \cup {s}
        /\ UNCHANGED ev
     \/ /\ stopNew \/ e # "none"
        /\ pc' = [pc EXCEPT ![s] = "stopping"]
        /\ why' = [why EXCEPT ![s] = "early"]
        /\ ev' = [ev EXCEPT ![s] = e]
        /\ UNCHANGED handler
     \/ /\ ~stopNew /\ e = "none"
        /\ pc' = [pc EXCEPT ![s] = "running"]
        /\ UNCHANGED <<handler, why, ev>>
  /\ UNCHANGED <<flagVars, live, pend>>

PossibleProofs == IF "stop" \in Faults THEN Proofs ELSE {"proven"}

(* The start task completes by itself: a handle, an error that may carry a *)
(* stop proof, or a handle under a drifted identity, which is stopped.     *)
StartReturns(s) ==
  /\ pc[s] = "starting"
  /\ \/ HandlePublished(s)
     \/ \E proof \in PossibleProofs : NoHandle(s, proof)
     \/ /\ pc' = [pc EXCEPT ![s] = "aborting"]
        /\ UNCHANGED <<flagVars, live, pend, handler, started, why, ev>>
  /\ UNCHANGED <<poolVars, ownVars, outcome, contrib, publishVars, guardVars,
                 ledgerVars>>

(* A cohort stop, a resource event or the startup timeout cancels the      *)
(* start task; cancel_and_join then stops whatever it still published.     *)
StartCancelled(s) ==
  /\ pc[s] = "starting"
  /\ pc' = [pc EXCEPT ![s] = "aborting"]
  /\ Observe(EventFor(s), FALSE)
  /\ UNCHANGED <<poolVars, ownVars, localVars, publishVars, guardVars,
                 ledgerVars, pend, live>>

AbortJoined(s) ==
  /\ pc[s] = "aborting"
  /\ \E proof \in PossibleProofs : NoHandle(s, proof)
  /\ UNCHANGED <<poolVars, ownVars, outcome, contrib, publishVars, guardVars,
                 ledgerVars>>

-----------------------------------------------------------------------------
(* run_one from a published handle to a stop. *)

(* handle.wait is in the arbiter's done set: completion wins over every    *)
(* signal that is done with it.  A raised wait is a failed session.        *)
WaitCompletes(s) ==
  /\ pc[s] = "running"
  /\ pc' = [pc EXCEPT ![s] = "stopping"]
  /\ \/ /\ why' = [why EXCEPT ![s] = "waitfailed"]
        /\ UNCHANGED <<outcome, contrib>>
     \/ \E o \in {"success", "failure"}, k \in 0..MaxContributions :
          /\ why' = [why EXCEPT ![s] = "confirm"]
          /\ outcome' = [outcome EXCEPT ![s] = o]
          /\ contrib' = [contrib EXCEPT ![s] = k]
  /\ UNCHANGED <<poolVars, flagVars, ownVars, handler, started, ev,
                 publishVars, guardVars, ledgerVars, pend, live>>

(* Mutants: nobody watches the wall clock; nobody watches stop_new.        *)
SignalsWithoutWall(s) ==
  {reason \in {"resource", "cohort"} :
     /\ reason = "resource" => EventFor(s) # "none"
     /\ reason = "cohort" => stopNew}
SignalsWithoutStop(s) ==
  {reason \in {"resource", "wall"} :
     /\ reason = "resource" => EventFor(s) # "none"
     /\ reason = "wall" => WallLimit}

(* The signals the arbiter may find done besides completion. *)
Signals(s) ==
  {reason \in {"resource", "wall", "cohort"} :
     /\ reason = "resource" => EventFor(s) # "none"
     /\ reason = "wall" => WallLimit
     /\ reason = "cohort" => stopNew}

(* Another signal wins: the guard's event before the wall limit before the *)
(* cohort stop.  The STOPPING state write may fail.                        *)
Interrupted(s) ==
  LET e == EventFor(s) IN
  /\ pc[s] = "running"
  /\ pc' = [pc EXCEPT ![s] = "stopping"]
  /\ \E reason \in Signals(s) :
       /\ IF reason = "resource" THEN Observe(e, FALSE)
                                 ELSE UNCHANGED flagVars
       /\ \/ /\ why' = [why EXCEPT ![s] = reason]
             /\ ev' = [ev EXCEPT ![s] = IF reason = "resource" THEN e ELSE "none"]
             /\ UNCHANGED handler
          \/ /\ "write" \in Faults
             /\ why' = [why EXCEPT ![s] = "host"]
             /\ handler' = handler \cup {s}
             /\ UNCHANGED ev
  /\ UNCHANGED <<poolVars, ownVars, started, outcome, contrib, publishVars,
                 guardVars, ledgerVars, pend, live>>

(* The status of a session whose stop returned, per branch of run_one. *)
StoppedStatus(reason, e, proof) ==
  CASE e # "none"                           -> ResourceStatus(e, proof)
    [] e = "none" /\ proof = "unproven"     -> "UNKNOWN"
    [] e = "none" /\ proof = "proven"       ->
         IF reason \in {"early", "cohort"} THEN "CANCELLED" ELSE "FAILED"

(* _stop returns: an exception or a value that is not a StopProof counts   *)
(* as unproven.  After an interruption a stopped handle may still deliver  *)
(* its outcome as evidence.                                                *)
StopReturns(s) ==
  /\ pc[s] = "stopping"
  /\ \E proof \in PossibleProofs \ {"none"} :
       LET seen == IF why[s] = "early" THEN ev[s] ELSE "none"
           status == StoppedStatus(why[s], ev[s], proof)
           evidence == IF why[s] \in {"resource", "wall", "cohort"}
                          /\ proof = "proven"
                       THEN {"none", "success", "failure"}
                       ELSE IF why[s] = "confirm" THEN {outcome[s]} ELSE {"none"}
       IN /\ Observe(seen, proof = "unproven")
          /\ live' = IF proof = "proven" THEN live \ {s} ELSE live
          /\ IF why[s] = "confirm" /\ proof = "proven"
               THEN /\ pc' = [pc EXCEPT ![s] = "finishing"]
                    /\ UNCHANGED pend
               ELSE \E o \in evidence :
                      Persisting(s, Verdict(status, proof, TRUE, o, 0,
                                            ReasonFor(ev[s])))
  /\ UNCHANGED <<poolVars, ownVars, localVars, publishVars, guardVars,
                 ledgerVars>>

(* guard.finish returned for a backend that completed and is proven        *)
(* stopped: only a clean measurement and a success go on to publication.   *)
Measured(s) ==
  LET e == EventFor(s) IN
  /\ pc[s] = "finishing"
  /\ finished' = finished \cup {s}
  /\ Observe(e, FALSE)
  /\ IF e # "none" THEN
       Persisting(s, Verdict(ResourceStatus(e, "proven"), "proven", TRUE,
                             outcome[s], 0, ReasonFor(e)))
     ELSE IF outcome[s] = "failure" THEN
       Persisting(s, Verdict("FAILED", "proven", TRUE, "failure", 0, "other"))
     ELSE IF contrib[s] = 0 THEN
       Persisting(s, Verdict("SUCCEEDED", "proven", TRUE, "success", 0, "other"))
     ELSE
       /\ pc' = [pc EXCEPT ![s] = "publishing"]
       /\ UNCHANGED pend
  /\ UNCHANGED <<poolVars, ownVars, localVars, publishVars, globalEvent,
                 treeEvent, doubted, ledgerVars, live>>

-----------------------------------------------------------------------------
(* _publish: one contribution per step.  The world may have admitted a     *)
(* record although its publication raised, before or after the controller  *)
(* noted the result.                                                       *)

(* Mutant: the result is noted before the publisher returns it.            *)
PublishFailsNoted(s, noted) ==
  Persisting(s, Verdict("FAILED", "proven", TRUE, "success",
                        IF noted < contrib[s] THEN noted + 1 ELSE noted, "other"))

PublishFails(s, noted) ==
  Persisting(s, Verdict("FAILED", "proven", TRUE, "success", noted, "other"))

PublishGoesOn(s, handled, noted) ==
  IF handled = contrib[s]
    THEN Persisting(s, Verdict("SUCCEEDED", "proven", TRUE, "success", noted,
                               "other"))
    ELSE UNCHANGED <<pc, pend>>

PublishOne(s) ==
  LET handled == pubs[s] + rejected[s] + 1
      Admit == admitted' = [admitted EXCEPT ![s] = @ + 1]
      Note  == pubs' = [pubs EXCEPT ![s] = @ + 1]
  IN
  /\ pc[s] = "publishing"
  /\ \/ /\ PublishFails(s, pubs[s])
        /\ UNCHANGED publishVars
     \/ /\ PublisherBound /\ Admit
        /\ PublishFails(s, pubs[s])
        /\ UNCHANGED <<pubs, rejected>>
     \/ /\ PublisherBound /\ Admit /\ Note
        /\ PublishFails(s, pubs[s] + 1)
        /\ UNCHANGED rejected
     \/ /\ PublisherBound /\ Admit /\ Note
        /\ PublishGoesOn(s, handled, pubs[s] + 1)
        /\ UNCHANGED rejected
     \/ /\ PublisherBound /\ ArmConfigured
        /\ rejected' = [rejected EXCEPT ![s] = @ + 1]
        /\ PublishGoesOn(s, handled, pubs[s])
        /\ UNCHANGED <<pubs, admitted>>
  /\ UNCHANGED <<poolVars, flagVars, ownVars, localVars, guardVars, ledgerVars,
                 live>>

-----------------------------------------------------------------------------
(* _persist after guard.finish. *)

(* Mutant: receipts are replaced instead of published exclusively.         *)
FitsAlways(s, r, e) == ReceiptAccepted(r, e)

(* The validator accepts r and no receipt.json exists yet. *)
Fits(s, r, e) == ReceiptAccepted(r, e) /\ receipt[s] = NoReceipt

(* store.write_receipt: refused by the validator or by an I/O error, which *)
(* may strike before or after receipt.json appears under its name (a later *)
(* write then meets SESSION_RECEIPT_CONFLICT).                             *)
WriteReceipt(s, r, e) ==
  LET Publish == receipt' = [receipt EXCEPT ![s] = Durable(r)]
      Failed == storeFailed' = TRUE /\ UNCHANGED indexed
  IN
  /\ unsafe' = (unsafe \/ e = "uncertain")
  /\ \/ /\ Fits(s, r, e) /\ Publish
        /\ indexed' = indexed \cup {s}
        /\ stopNew' = (stopNew \/ e \in {"uncertain", "disk"})
        /\ UNCHANGED <<storeFailed, impaired>>
     \/ /\ "ledger" \in Faults
        /\ Fits(s, r, e) /\ (Publish \/ UNCHANGED receipt)
        /\ Failed /\ stopNew' = TRUE /\ impaired' = TRUE
     \/ /\ ~Fits(s, r, e)
        /\ Failed /\ stopNew' = TRUE /\ UNCHANGED <<receipt, impaired>>

(* Locals die with run_one. *)
RunOneReturns(s) ==
  /\ pc' = [pc EXCEPT ![s] = "done"]
  /\ pend' = [pend EXCEPT ![s] = NoVerdict]
  /\ why' = [why EXCEPT ![s] = "none"]
  /\ ev' = [ev EXCEPT ![s] = "none"]
  /\ outcome' = [outcome EXCEPT ![s] = "none"]
  /\ contrib' = [contrib EXCEPT ![s] = 0]
  /\ pubs' = [pubs EXCEPT ![s] = 0]
  /\ handler' = handler \ {s}

Persist(s) ==
  LET e == EventFor(s) IN
  /\ pc[s] = "persisting"
  /\ finished' = finished \cup {s}
  /\ WriteReceipt(s, ReceiptOf(s, Rewritten(pend[s], e)), e)
  /\ RunOneReturns(s)
  /\ UNCHANGED <<poolVars, ownVars, started, rejected, admitted, globalEvent,
                 treeEvent, doubted, swept, settlement, live>>

(* Building the receipt raises (the arm's evidence is read there).  The    *)
(* first time run_one's except clause stops the handle again and persists  *)
(* a bare verdict; the second time the exception ends the worker.          *)
PersistRaises(s) ==
  /\ pc[s] = "persisting" /\ ArmConfigured /\ "build" \in Faults
  /\ Observe(EventFor(s), FALSE)
  /\ finished' = finished \cup {s}
  /\ impaired' = TRUE
  /\ IF s \in handler THEN
       /\ RunOneReturns(s)
       /\ wstate' = [wstate EXCEPT ![runner[s]] = "failed"]
     ELSE
       /\ handler' = handler \cup {s}
       /\ IF s \in started THEN
            /\ pc' = [pc EXCEPT ![s] = "stopping"]
            /\ pend' = [pend EXCEPT ![s] = NoVerdict]
            /\ why' = [why EXCEPT ![s] = "host"]
            /\ ev' = [ev EXCEPT ![s] = "none"]
          ELSE
            /\ Persisting(s, Verdict("FAILED", "none", FALSE, "none", 0, "other"))
            /\ UNCHANGED <<why, ev>>
       /\ UNCHANGED <<wstate, outcome, contrib, pubs>>
  /\ UNCHANGED <<phase, cursor, ownVars, started, rejected, admitted,
                 globalEvent, treeEvent, doubted, swept, receipt, indexed,
                 settlement, storeFailed, live>>

-----------------------------------------------------------------------------
(* Settlement: finish_settlement, settle_missing, settlement_value and     *)
(* RuntimeStore.write_settlement.                                          *)

BeginSettlement ==
  /\ phase = "serving" /\ \A w \in Workers : wstate[w] # "working"
  /\ phase' = "settling"
  /\ Observe("none", \E w \in Workers : wstate[w] = "failed")
  /\ UNCHANGED <<wstate, cursor, ownVars, localVars, publishVars, guardVars,
                 ledgerVars, pc, pend, live>>

(* The next session settle_missing finds without an in-memory receipt. *)
NextMissing(s) ==
  /\ phase = "settling" /\ s > swept /\ s \notin indexed
  /\ \A t \in Sessions : swept < t /\ t < s => t \in indexed

(* Such a session is persisted as never started, whatever became of it. *)
SettleMissing(s) ==
  LET e == EventFor(s) IN
  /\ NextMissing(s)
  /\ swept' = s
  /\ finished' = finished \cup {s}
  /\ WriteReceipt(s, ReceiptOf(s, Rewritten(NotStarted("CANCELLED", "other"), e)), e)
  /\ UNCHANGED <<poolVars, ownVars, localVars, publishVars, globalEvent,
                 treeEvent, doubted, settlement, pc, pend, live>>

SettleMissingRaises(s) ==
  /\ NextMissing(s) /\ ArmConfigured /\ "build" \in Faults
  /\ phase' = "incomplete"
  /\ impaired' = TRUE
  /\ Observe(EventFor(s), FALSE)
  /\ finished' = finished \cup {s}
  /\ UNCHANGED <<wstate, cursor, ownVars, localVars, publishVars, globalEvent,
                 treeEvent, doubted, swept, receipt, indexed, settlement,
                 storeFailed, pc, pend, live>>

Recorded(status) == \E s \in Sessions : receipt[s].status = status

(* _validate_settlement_value: the outcome the receipts on disk call for. *)
StoreOutcome ==
  IF Recorded("UNKNOWN") THEN "UNSAFE"
  ELSE IF Recorded("CANCELLED") THEN "CANCELLED"
  ELSE IF Recorded("FAILED") THEN "COMPLETED_WITH_FAILURES" ELSE "SUCCEEDED"

(* Mutant: the controller forgets its own unsafe flag.                     *)
ControllerOutcomeByStatus ==
  IF storeFailed \/ indexed # Sessions THEN "SETTLEMENT_INCOMPLETE"
  ELSE StoreOutcome

(* settlement_value: the outcome the controller writes. *)
ControllerOutcome ==
  IF storeFailed \/ indexed # Sessions THEN "SETTLEMENT_INCOMPLETE"
  ELSE IF unsafe THEN "UNSAFE" ELSE StoreOutcome

(* The monitors are closed, then the settlement is written once it is      *)
(* complete and agrees with the store; the write may fail before or after  *)
(* settlement.json appears.                                                *)
Settle ==
  LET agreed == ControllerOutcome = StoreOutcome IN
  /\ phase = "settling" /\ \A s \in Sessions : ~NextMissing(s)
  /\ \/ /\ agreed /\ settlement' = StoreOutcome
        /\ phase' = "settled"
        /\ UNCHANGED impaired
     \/ /\ "ledger" \in Faults
        /\ agreed /\ settlement' \in {settlement, StoreOutcome}
        /\ phase' = "incomplete" /\ impaired' = TRUE
     \/ /\ ~agreed
        /\ phase' = "incomplete"
        /\ UNCHANGED <<settlement, impaired>>
  /\ UNCHANGED <<wstate, cursor, flagVars, ownVars, localVars, publishVars,
                 guardVars, swept, receipt, indexed, storeFailed, pc, pend, live>>

-----------------------------------------------------------------------------
(* The environment. *)

(* The caller cancels run_prepared_cohort while workers run. *)
CallerCancels ==
  /\ "cancel" \in Faults /\ phase = "serving" /\ ~stopNew
  /\ stopNew' = TRUE
  /\ UNCHANGED <<unsafe, poolVars, ownVars, localVars, publishVars, guardVars,
                 ledgerVars, pc, pend, live>>

(* A disk check latches a breached reserve or an unreadable filesystem. *)
DiskCheck ==
  /\ phase \in {"serving", "settling"} /\ globalEvent = "none"
  /\ globalEvent' \in {"disk", "uncertain"} \cap Faults
  /\ UNCHANGED <<flagVars, poolVars, ownVars, localVars, publishVars, treeEvent,
                 finished, doubted, ledgerVars, pc, pend, live>>

(* A tree scan of an activated, not yet finished session latches a breach  *)
(* for it, or fails: a failed scan is a cohort event, and _latch keeps     *)
(* only the first of those.                                                *)
TreeScan(s) ==
  /\ pc[s] # "queued" /\ s \notin finished /\ phase = "serving"
  /\ \/ /\ "tree" \in Faults /\ s \notin treeEvent
        /\ treeEvent' = treeEvent \cup {s}
        /\ UNCHANGED <<globalEvent, doubted>>
     \/ /\ "uncertain" \in Faults /\ s \notin doubted
        /\ doubted' = doubted \cup {s}
        /\ globalEvent' = IF globalEvent = "none" THEN "uncertain" ELSE globalEvent
        /\ UNCHANGED treeEvent
  /\ UNCHANGED <<flagVars, poolVars, ownVars, localVars, publishVars, finished,
                 ledgerVars, pc, pend, live>>

-----------------------------------------------------------------------------
Started(s) == StartReturns(s) \/ StartCancelled(s)
Persisted(s) == Persist(s) \/ PersistRaises(s)

SessionStep(s) ==
  \/ Activated(s)  \/ Started(s)     \/ AbortJoined(s)
  \/ WaitCompletes(s) \/ Interrupted(s) \/ StopReturns(s)
  \/ Measured(s)   \/ PublishOne(s)  \/ Persisted(s)

SettlementStep ==
  \/ BeginSettlement
  \/ \E s \in Sessions : SettleMissing(s) \/ SettleMissingRaises(s)
  \/ Settle

EnvironmentStep ==
  \/ CallerCancels \/ DiskCheck \/ \E s \in Sessions : TreeScan(s)

Next ==
  \/ \E e \in {"none", "disk", "uncertain"} : GuardStarts(e)
  \/ \E w \in Workers : Take(w) \/ WorkerExits(w)
  \/ \E s \in Sessions : SessionStep(s)
  \/ SettlementStep
  \/ EnvironmentStep

Spec == Init /\ [][Next]_vars

(* The event loop runs every ready continuation; stop is contractually     *)
(* bounded, start is bounded by startup_seconds, a publisher returns.      *)
(* handle.wait is not fair, nor is the wall timer, which need not be set:  *)
(* a backend may run until a resource event or a cohort stop ends it.      *)
Fairness ==
  /\ WF_vars(\E e \in {"none", "disk", "uncertain"} : GuardStarts(e))
  /\ \A w \in Workers : WF_vars(Take(w) \/ WorkerExits(w))
  /\ \A s \in Sessions :
       /\ WF_vars(Activated(s)) /\ WF_vars(Started(s))
       /\ WF_vars(AbortJoined(s))
       /\ WF_vars(Signals(s) \ {"wall"} # {} /\ Interrupted(s))
       /\ WF_vars(StopReturns(s)) /\ WF_vars(Measured(s))
       /\ WF_vars(PublishOne(s)) /\ WF_vars(Persisted(s))
  /\ WF_vars(SettlementStep)

FairSpec == Spec /\ Fairness
=============================================================================

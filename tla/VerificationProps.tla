-------------------------- MODULE VerificationProps --------------------------
(***************************************************************************)
(* What a verification receipt, the advisory count and the stores may be   *)
(* relied on for, and that every call comes back.                          *)
(***************************************************************************)
EXTENDS Verification

Steps ==
  {"idle", "building", "capturing", "storing", "prechecking",
   "prechecking_interpreter", "staging", "spawning", "running",
   "postchecking", "postchecking_interpreter", "resolving", "reporting",
   "storing_output", "persisting", "answered", "refused"}

(* Domains of the state; in particular the host runs a process only while  *)
(* its command is at that step, and the lock is held by whoever is past it.*)
TypeOK ==
  /\ host \in Steps /\ verdict \in Statuses \cup {"none"}
  /\ host # "running" => phase = "none"
  /\ DOMAIN kept \subseteq DOMAIN seen /\ Reachable(DOMAIN seen) = DOMAIN seen
  /\ lock = Nobody \/ where[lock] \in {"building", "staged", "renamed", "auditing"}
  /\ \A m \in Materializers :
       where[m] \in {"building", "staged", "renamed"} => lock = m
  /\ Len(chunks) <= 2 /\ (host = "idle" => chunks = <<>>)
  /\ \A o \in DOMAIN ledger : ledger[o].by \in Kits

(* A receipt that says PASS is about bytes the candidate really consisted  *)
(* of at some moment, and the pinned verifier accepts exactly those bytes; *)
(* one that says REJECTED is about such bytes and it rejects them.  This   *)
(* whatever edits, drift, rot, leaks and kills there were meanwhile        *)
(* (verifier.py _capture_candidate, verify).                               *)
ReceiptIsTrue ==
  \A path \in Receipts :
    /\ \E n \in 0..edits : seen[path].candidate = Bytes(Candidate(n))
    /\ seen[path].verdict = "PASS" => seen[path].candidate \in Accepted
    /\ seen[path].verdict = "REJECTED" => seen[path].candidate \notin Accepted

(* A document that is there, also after a power loss, does not refer to an *)
(* object that is not: the candidate and the output of a receipt, the      *)
(* objects of an import's manifest.  copy_object promises this also when   *)
(* another process had named the object before and not synced it.          *)
DocumentsAreBacked ==
  /\ \A path \in Receipts :
       Exists(Object(seen[path].candidate)) /\ Exists(Object(Logs))
  /\ Exists(Manifest) => \A content \in Legacy : Exists(Object(content))

(* The kit's count of a session: every invocation that had returned is in  *)
(* it under the status it printed, nothing is in it that was not, and no   *)
(* invocation twice.  The claim is for a host whose reads succeed (an      *)
(* OSError is counted as rejected, a directory that cannot be read answers *)
(* UNREADABLE) and for a ledger that only the kit writes: the code itself  *)
(* labels it NOT_TAMPER_PROOF, a session may write files of its own there. *)
CountIsHonest ==
  uncounted = {} =>
    /\ \A k \in before : \E o \in DOMAIN tally :
         ledger[o].by = k /\ tally[o] = kit[k].status
    /\ \A o \in DOMAIN tally :
         tally[o] # "rejected" => tally[o] = kit[ledger[o].by].status
    /\ \A o, q \in DOMAIN ledger : ledger[o].by = ledger[q].by => o = q

(* Materializers that race for one source agree: a conflict is reported    *)
(* only of an entry that is itself unacceptable.                           *)
RacersAgree ==
  (\E m \in Materializers : where[m] = "conflict") =>
    drifts > 0 \/ losses > 0

-----------------------------------------------------------------------------
(* The processes run, bounded waits end, and what was killed dies; nothing *)
(* is assumed of the verifier, of what escaped it, or of the candidate.    *)
Fairness ==
  /\ WF_vars(HostStep)
  /\ WF_vars(Running /\ (phase = "closing" => reader # "reading"))
  /\ WF_vars(ReaderEnds /\ Around)
  /\ \A m \in Materializers : WF_vars(MaterializerStep(m) /\ Materialize(m))

FairSpec == Spec /\ Fairness

(* A verification comes back, unless somebody whom the host could not end  *)
(* keeps the verifier's pipes open for ever (_run_bounded); and no         *)
(* materializer waits for the lock for ever, although another may be       *)
(* killed while it holds it.                                               *)
EveryCallReturns ==
  /\ ~<>[](phase = "closing" /\ Held) =>
       [](host # "idle" => <>(host \in {"idle", "answered", "refused"}))
  /\ \A m \in Materializers :
       [](where[m] = "waiting" => <>(where[m] # "waiting"))
==============================================================================

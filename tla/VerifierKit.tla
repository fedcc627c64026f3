---------------------------- MODULE VerifierKit ----------------------------
(***************************************************************************)
(* The in-session verifier kit: concurrent invocations of amf-verify in    *)
(* one workspace (verifier_kit_runner.py), the ledger they append to, and  *)
(* the host that counts it when the session has ended (verifier_kit.py).   *)
(* Of a run of the verifier only the status matters here: it is the same   *)
(* protocol as in VerifierProcess.                                         *)
(***************************************************************************)
EXTENDS Naturals, FiniteSets

CONSTANTS Kits,            \* invocations
          MaxInvocations   \* MAXIMUM_INVOCATIONS

VARIABLES kit,       \* invocation -> where it is and what it found
          ledger,    \* ordinal -> its receipt
          tally,     \* ordinal -> what the host counted it as
          uncounted, \* the names it has scanned and not read
          before,    \* the invocations that had returned at the scan
          settled    \* the session's receipt is written

kitVars == <<kit, ledger, tally, uncounted, before, settled>>

Statuses == {"PASS", "REJECTED", "APPARATUS_ERROR"}

Invocation(at, status, ordinal) ==
  [at |-> at, status |-> status, ordinal |-> ordinal]
Fresh == Invocation("idle", "none", 0)

KitInit ==
  /\ settled \in BOOLEAN
  /\ kit = [k \in Kits |-> IF settled THEN Invocation("killed", "none", 0) ELSE Fresh]
  /\ ledger = [o \in {} |-> Fresh] /\ tally = [o \in {} |-> "none"]
  /\ uncounted = {} /\ before = {}

KitGoes(k, from, to) == kit[k].at = from /\ kit' = [kit EXCEPT ![k].at = to]

(* _verify: the candidate is hashed, the interpreter compared with its pin *)
(* and the source staged; every error on the way is a verdict too.         *)
KitCaptures(k) ==
  /\ kit[k].at = "idle"
  /\ \E now \in {Invocation("captured", "none", 0),
                Invocation("verified", "APPARATUS_ERROR", 0)} :
       kit' = [kit EXCEPT ![k] = now]
  /\ UNCHANGED <<ledger, tally, uncounted, before, settled>>

(* _run_bounded and _classify: the candidate is run where it lies, and may *)
(* be another by now.                                                      *)
KitRuns(k) ==
  /\ kit[k].at = "captured"
  /\ \E status \in Statuses :
       kit' = [kit EXCEPT ![k] = Invocation("verified", status, 0)]
  /\ UNCHANGED <<ledger, tally, uncounted, before, settled>>

(* The receipts there are, which others go on adding to.                   *)
KitCounts(k) ==
  /\ kit[k].at = "verified"
  /\ kit' = [kit EXCEPT ![k] =
       Invocation("counted", kit[k].status, Cardinality(DOMAIN ledger) + 1)]
  /\ UNCHANGED <<ledger, tally, uncounted, before, settled>>

Claim(k, ordinal) ==
  ledger' = [o \in DOMAIN ledger \cup {ordinal} |->
               IF o = ordinal THEN [by |-> k, status |-> "none"] ELSE ledger[o]]

(* Mutant: the receipt is created without O_EXCL.                          *)
KitClaimsAnyway(k) ==
  /\ kit[k].at = "counted" /\ kit[k].ordinal <= MaxInvocations
  /\ Claim(k, kit[k].ordinal) /\ KitGoes(k, "counted", "claimed")
  /\ UNCHANGED <<tally, uncounted, before, settled>>

(* O_EXCL: the first one that creates the empty receipt has the ordinal.   *)
KitClaims(k) ==
  LET ordinal == kit[k].ordinal IN
  /\ kit[k].at = "counted" /\ ordinal <= MaxInvocations
  /\ IF ordinal \in DOMAIN ledger
       THEN /\ kit' = [kit EXCEPT ![k] =
                 Invocation("counted", kit[k].status, ordinal + 1)]
            /\ UNCHANGED ledger
       ELSE Claim(k, ordinal) /\ KitGoes(k, "counted", "claimed")
  /\ UNCHANGED <<tally, uncounted, before, settled>>

(* KIT_EVIDENCE_LIMIT_REACHED, or an I/O error at any point: the verdict   *)
(* is printed and an error is returned; an empty receipt stays behind.     *)
KitPublishFails(k) ==
  /\ \/ kit[k].at \in {"verified", "claimed", "judged"}
     \/ kit[k].at = "counted" /\ kit[k].ordinal > MaxInvocations
  /\ kit' = [kit EXCEPT ![k].at = "failed"]
  /\ UNCHANGED <<ledger, tally, uncounted, before, settled>>

KitWritesVerdict(k) ==
  /\ KitGoes(k, "claimed", "judged")
  /\ UNCHANGED <<ledger, tally, uncounted, before, settled>>

KitWritesReceipt(k) ==
  /\ kit[k].at = "judged"
  /\ ledger' = [ledger EXCEPT ![kit[k].ordinal] =
                  [by |-> k, status |-> kit[k].status]]
  /\ KitGoes(k, "judged", "returned")
  /\ UNCHANGED <<tally, uncounted, before, settled>>

(* Killed with its session, or by it. *)
KitDies(k) ==
  /\ kit[k].at \notin {"returned", "failed", "killed"}
  /\ kit' = [kit EXCEPT ![k].at = "killed"]
  /\ UNCHANGED <<ledger, tally, uncounted, before, settled>>

-----------------------------------------------------------------------------
(* read_session_verifier_kit_evidence: names first, then one file after    *)
(* the other.  A process that was not proven gone may still be writing.    *)
HostScans ==
  /\ ~settled /\ uncounted = {} /\ tally = [o \in {} |-> "none"]
  /\ uncounted' = DOMAIN ledger
  /\ before' = {k \in Kits : kit[k].at = "returned"}
  /\ settled' = (DOMAIN ledger = {})
  /\ UNCHANGED <<kit, ledger, tally>>

(* _ledger_entry_status: an incomplete receipt is a rejected entry.        *)
EntryStatus(o) == IF ledger[o].status \in Statuses THEN ledger[o].status ELSE "rejected"

(* Read errors of the host (rejected, UNREADABLE) are not modelled.        *)
HostReads ==
  /\ \E o \in uncounted :
       /\ tally' = [q \in DOMAIN tally \cup {o} |->
                      IF q = o THEN EntryStatus(o) ELSE tally[q]]
       /\ uncounted' = uncounted \ {o}
  /\ settled' = (uncounted' = {})
  /\ UNCHANGED <<kit, ledger, before>>

KitStep(k) ==
  \/ KitCaptures(k) \/ KitRuns(k) \/ KitCounts(k) \/ KitClaims(k) \/ KitPublishFails(k)
  \/ KitWritesVerdict(k) \/ KitWritesReceipt(k)

Counting == HostScans \/ HostReads
==============================================================================

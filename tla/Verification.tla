---------------------------- MODULE Verification ----------------------------
(***************************************************************************)
(* The host's verification of one candidate after settlement               *)
(* (AmfVerifierService and the "verifier run" command), composed with what *)
(* it shares: the artifact store with historical imports, the source cache *)
(* with its materializers, the session's advisory kit, a candidate that a  *)
(* surviving process may still edit, drift, and power losses.              *)
(*                                                                         *)
(* A file's bytes are two chunks, written and read one after the other;    *)
(* every write changes its metadata.  A verifier is a predicate: the       *)
(* interpreter frozen with the service decides it, another may say         *)
(* anything.                                                               *)
(***************************************************************************)
EXTENDS SourceCache, VerifierProcess, VerifierKit

CONSTANTS Accepted,     \* the contents that satisfy the predicate
          MaxCalls,     \* bound on host verifications
          MaxTroubles   \* bound on drifts and power losses together

VARIABLES
  edits,       \* of the candidate so far; its metadata
  interpreter, \* the version installed
  drifts, losses, calls,
  host,        \* where the host's process is
  pinned,      \* _interpreter, read when the service was built
  stamp,       \* the metadata the capture began with
  chunks,      \* what it has read
  used,        \* the interpreter the verifier was spawned with
  verdict      \* the receipt's status

worldVars == <<edits, interpreter, drifts, losses>>
hostVars  == <<host, pinned, stamp, chunks, used, verdict, calls>>
storeVars == <<treeVars, copy, legacy>>
vars == <<storeVars, cacheVars, processVars, kitVars, worldVars, hostVars>>

Looking ==
  {"building", "storing", "prechecking", "prechecking_interpreter", "staging",
   "spawning", "postchecking", "postchecking_interpreter", "resolving"}

Evidence == <<"evidence">>
Ledger   == <<"evidence", "verifier-receipts">>
Receipts == {path \in DOMAIN seen : Len(path) = 3}
Logs     == "output"   \* the bytes of stdout and stderr

(* The editor replaces the chunks one after the other. *)
Candidate(n) == [chunk \in 1..2 |-> IF chunk <= n THEN "n" ELSE "o"]
Bytes(file) == file[1] \o file[2]
Taken == IF Len(chunks) = 2 THEN Bytes(chunks) ELSE "none"

Forgotten ==
  /\ pinned' = 0 /\ stamp' = 0 /\ chunks' = <<>> /\ used' = 0
  /\ verdict' = "none"

Tree(paths, entry) ==
  [p \in paths |-> IF p = Entry THEN entry ELSE "directory"]
Directories ==
  {<<"objects">>, <<"receipts">>, <<"imports">>, <<"cache">>, Evidence}

(* Nobody else works with the stores. *)
Alone ==
  /\ \A m \in Materializers : where[m] = "absent"
  /\ \A i \in Importers : legacy[i] = {} /\ copy[i] = Resting

(* The session is running or settled; once it is, an import or two         *)
(* materializers may be at work beside the host.  The directories of the   *)
(* stores are durable from the start: ArtifactStore.__init__ makes them    *)
(* without a sync of their parents, which is older than any step here.     *)
Init ==
  /\ StoreInit /\ CacheInit /\ ProcessInit /\ KitInit
  /\ \/ \A m \in Materializers : where[m] = "absent"
     \/ settled /\ \A i \in Importers : legacy[i] = {}
  /\ settled \/ \A i \in Importers : legacy[i] = {}
  /\ calls = IF ~settled THEN MaxCalls ELSE IF Alone THEN 0 ELSE MaxCalls - 1
  /\ LET there == IF \A m \in Materializers : where[m] = "absent"
                    THEN {Entry} ELSE {} IN
     /\ seen = Tree(Directories \cup there, "whole")
     /\ kept = Tree(Directories \cup there, "unfrozen")
  /\ edits = 0 /\ interpreter = 0 /\ drifts = 0 /\ losses = 0
  /\ host = "idle" /\ pinned = 0 /\ stamp = 0 /\ chunks = <<>> /\ used = 0
  /\ verdict = "none"
-----------------------------------------------------------------------------
(* The service is built: interpreter, then source, are read and frozen.    *)
HostGoes(from, to) == host = from /\ host' = to

VerifierRun ==
  /\ settled /\ HostGoes("idle", "building") /\ calls < MaxCalls
  /\ calls' = calls + 1 /\ pinned' = interpreter
  /\ UNCHANGED <<storeVars, cacheVars, processVars, kitVars, worldVars,
                 stamp, chunks, used, verdict>>

(* _load_source_snapshot: the audit, and every file again by its pin.      *)
Built ==
  /\ HostGoes("building", IF Acceptable THEN "capturing" ELSE "refused")
  /\ stamp' = edits
  /\ UNCHANGED <<storeVars, cacheVars, processVars, kitVars, worldVars,
                 pinned, chunks, used, verdict, calls>>

(* _capture_candidate *)
ReadsChunk ==
  /\ host = "capturing" /\ Len(chunks) < 2
  /\ chunks' = Append(chunks, Candidate(edits)[Len(chunks) + 1])
  /\ UNCHANGED <<storeVars, cacheVars, processVars, kitVars, worldVars,
                 host, pinned, stamp, used, verdict, calls>>

Captured ==
  /\ host = "capturing" /\ Len(chunks) = 2
  /\ IF stamp = edits
       THEN host' = "storing" /\ CopyObject(Host, Taken)
       ELSE host' = "refused" /\ UNCHANGED copy
  /\ UNCHANGED <<treeVars, legacy, cacheVars, processVars, kitVars, worldVars,
                 pinned, stamp, chunks, used, verdict, calls>>

HostCopies ==
  /\ Links(Host) \/ Finds(Host) \/ Syncs(Host) \/ CopyFails(Host)
  /\ UNCHANGED <<cacheVars, processVars, kitVars, worldVars, hostVars>>

Stored ==
  /\ Copying(Host, "returned") /\ HostGoes("storing", "prechecking")
  /\ copy' = [copy EXCEPT ![Host] = Resting]
  /\ UNCHANGED <<treeVars, legacy, cacheVars, processVars, kitVars, worldVars,
                 pinned, stamp, chunks, used, verdict, calls>>

(* CANDIDATE_CAS_CAPTURE_FAILED, VERIFIER_OUTPUT_CAS_FAILED, or the        *)
(* receipt cannot be written: the call raises.                             *)
HostRaises ==
  /\ Copying(Host, "raised") /\ host' = "refused"
  /\ copy' = [copy EXCEPT ![Host] = Resting]
  /\ UNCHANGED <<treeVars, legacy, cacheVars, processVars, kitVars, worldVars,
                 pinned, stamp, chunks, used, verdict, calls>>

(* Source, then interpreter, against what was frozen; before the run a     *)
(* difference is the answer, after it the answer is withdrawn.             *)
ChecksSource(from, to) ==
  /\ host = from
  /\ IF Acceptable THEN host' = to /\ UNCHANGED verdict
     ELSE host' = "reporting" /\ verdict' = "APPARATUS_ERROR"
  /\ UNCHANGED <<storeVars, cacheVars, processVars, kitVars, worldVars,
                 pinned, stamp, chunks, used, calls>>

ChecksInterpreter(from, to) ==
  /\ host = from
  /\ IF interpreter = pinned THEN host' = to /\ UNCHANGED verdict
     ELSE host' = "reporting" /\ verdict' = "APPARATUS_ERROR"
  /\ UNCHANGED <<storeVars, cacheVars, processVars, kitVars, worldVars,
                 pinned, stamp, chunks, used, calls>>

Prechecks ==
  \/ ChecksSource("prechecking", "prechecking_interpreter")
  \/ ChecksInterpreter("prechecking_interpreter", "staging")

(* _stage_candidate: the object is compared with what was captured; the    *)
(* tree is written from the frozen bytes.                                  *)
Staged ==
  /\ HostGoes("staging", IF Resolves(Taken) THEN "spawning" ELSE "refused")
  /\ UNCHANGED <<storeVars, cacheVars, processVars, kitVars, worldVars,
                 pinned, stamp, chunks, used, verdict, calls>>

Popen ==
  /\ HostGoes("spawning", "running") /\ used' = interpreter
  /\ Spawns \/ SpawnFails
  /\ UNCHANGED <<storeVars, cacheVars, kitVars, worldVars,
                 pinned, stamp, chunks, verdict, calls>>

Running ==
  /\ host = "running" /\ RunStep
  /\ UNCHANGED <<storeVars, cacheVars, kitVars, worldVars, hostVars>>

(* "unfit": stderr, output that is no result, a result that contradicts    *)
(* the exit code.                                                          *)
Verifies ==
  /\ \E says \in {"accepts", "rejects", "unfit"} :
       /\ LeaderExits(says)
       /\ used = pinned => says \in {"unfit", IF Taken \in Accepted THEN "accepts"
                                       ELSE "rejects"}
  /\ UNCHANGED <<storeVars, cacheVars, kitVars, worldVars, hostVars>>

(* What can go wrong around the verifier only makes other verdicts, all of *)
(* which it can bring about by itself: it is left out while others are at  *)
(* work, whom it does not touch.                                           *)
Around ==
  /\ ReaderEnds \/ (Alone /\ AroundIt)
  /\ UNCHANGED <<storeVars, cacheVars, kitVars, worldVars, hostVars>>

Judges ==
  /\ phase = "ended" /\ HostGoes("running", "postchecking")
  /\ verdict' = IF ended = "COMPLETED" /\ reply = "accepts" THEN "PASS"
                ELSE IF ended = "COMPLETED" /\ reply = "rejects" THEN "REJECTED"
                ELSE "APPARATUS_ERROR"
  /\ NotStarted
  /\ UNCHANGED <<storeVars, cacheVars, kitVars, worldVars,
                 pinned, stamp, chunks, used, calls>>

ResolvesAgain ==
  /\ HostGoes("resolving", "reporting")
  /\ verdict' = IF Resolves(Taken) THEN verdict ELSE "APPARATUS_ERROR"
  /\ UNCHANGED <<storeVars, cacheVars, processVars, kitVars, worldVars,
                 pinned, stamp, chunks, used, calls>>

(* Mutant: the interpreter is not looked at again after the run.           *)
PostchecksOnce == ChecksSource("postchecking", "resolving") \/ ResolvesAgain

Postchecks ==
  \/ ChecksSource("postchecking", "postchecking_interpreter")
  \/ ChecksInterpreter("postchecking_interpreter", "resolving")
  \/ ResolvesAgain

(* _receipt: the output is an object too. *)
Reports ==
  /\ HostGoes("reporting", "storing_output") /\ CopyObject(Host, Logs)
  /\ UNCHANGED <<treeVars, legacy, cacheVars, processVars, kitVars, worldVars,
                 pinned, stamp, chunks, used, verdict, calls>>

(* persist_verification_receipt: the ledger directory is made when it is   *)
(* not there, and is not synced into the evidence directory.               *)
Persists ==
  /\ Copying(Host, "returned") /\ HostGoes("storing_output", "persisting")
  /\ copy' = [copy EXCEPT ![Host] =
       [at |-> "named", path |-> Append(Ledger, ToString(calls)),
        bytes |-> [verdict |-> verdict, candidate |-> Taken]]]
  /\ IF Exists(Ledger) THEN UNCHANGED seen ELSE Link(Ledger, "directory")
  /\ UNCHANGED <<kept, legacy, cacheVars, processVars, kitVars, worldVars,
                 pinned, stamp, chunks, used, verdict, calls>>

Answers ==
  /\ Copying(Host, "returned") /\ HostGoes("persisting", "answered")
  /\ copy' = [copy EXCEPT ![Host] = Resting]
  /\ UNCHANGED <<treeVars, legacy, cacheVars, processVars, kitVars, worldVars,
                 pinned, stamp, chunks, used, verdict, calls>>

HostStep ==
  \/ Built \/ ReadsChunk \/ Captured \/ HostCopies \/ Stored \/ HostRaises
  \/ Prechecks \/ Staged \/ Popen \/ Judges \/ Postchecks
  \/ Reports \/ Persists \/ Answers

(* The command ends, or is killed at any point.  What it left of a         *)
(* verifier's process group has no part in a later run.                    *)
HostEnds ==
  /\ host # "idle" /\ host' = "idle" /\ NotStarted /\ Forgotten
  /\ copy' = [copy EXCEPT ![Host] = Resting]
  /\ UNCHANGED <<treeVars, legacy, cacheVars, kitVars, worldVars, calls>>
-----------------------------------------------------------------------------
(* A process that outlived its session, or its operator.  Nothing reads    *)
(* the file after the capture, so that later edits are left out.           *)
Edits ==
  /\ host \in {"building", "capturing"}
  /\ edits < 2 /\ edits' = edits + 1
  /\ UNCHANGED <<storeVars, cacheVars, processVars, kitVars, hostVars,
                 interpreter, drifts, losses>>

(* The interpreter is upgraded, the candidate's object rots, the cached    *)
(* source is changed.  Nothing is put back as it was: only that makes two  *)
(* equal looks a proof.  While the verifier runs and after the last look   *)
(* it could not be told from a later change.                               *)
Drifts ==
  /\ drifts + losses < MaxTroubles /\ drifts' = drifts + 1
  /\ host \in Looking
  /\ \/ interpreter' = interpreter + 1 /\ UNCHANGED treeVars
     \/ /\ \E path \in {Entry, Object(Taken)} \cap DOMAIN seen :
             seen' = [seen EXCEPT ![path] = "changed"]
        /\ UNCHANGED <<kept, interpreter>>
  /\ UNCHANGED <<copy, legacy, cacheVars, processVars, kitVars, hostVars,
                 edits, losses>>

(* Everything that runs is gone; the commands are given again.             *)
PowerLoss ==
  /\ drifts + losses < MaxTroubles /\ losses' = losses + 1 /\ PowerFails
  /\ copy' = [c \in Callers |-> Resting]
  /\ legacy' = [i \in Importers |->
                  IF copy[i] = Resting THEN legacy[i] ELSE Legacy]
  /\ where' = [m \in Materializers |->
                 IF where[m] = "absent" THEN "absent" ELSE "idle"]
  /\ lock' = Nobody /\ NotStarted /\ Forgotten /\ host' = "idle"
  /\ kit' = [k \in Kits |-> [kit[k] EXCEPT !.at =
               IF @ = "returned" THEN @ ELSE "killed"]]
  /\ UNCHANGED <<ledger, tally, uncounted, before, settled, calls,
                 edits, interpreter, drifts>>

Import(i) ==
  /\ ImporterStep(i) \/ ImporterDies(i)
  /\ UNCHANGED <<cacheVars, processVars, kitVars, worldVars, hostVars>>

Materialize(m) ==
  /\ MaterializerStep(m) \/ MaterializerDies(m)
  /\ UNCHANGED <<copy, legacy, processVars, kitVars, worldVars, hostVars>>

Session ==
  /\ \/ \E k \in Kits : KitStep(k) \/ KitDies(k)
     \/ losses = 0 /\ Counting
  /\ UNCHANGED <<storeVars, cacheVars, processVars, worldVars, hostVars>>

Next ==
  \/ VerifierRun \/ HostStep \/ Running \/ HostEnds
  \/ Verifies \/ Around
  \/ Edits \/ Drifts \/ PowerLoss \/ Session
  \/ \E i \in Importers : Import(i)
  \/ \E m \in Materializers : Materialize(m)

Spec == Init /\ [][Next]_vars
=============================================================================

--------------------------- MODULE PiSessionProps ---------------------------
(***************************************************************************)
(* What one Pi session is checked for.                                     *)
(***************************************************************************)
EXTENDS PiSession

(* The session as the host sees it: an escaped start has said nothing.     *)
Backend == INSTANCE BackendContract WITH
  work   <- GroupsAlive,
  handle <- CASE boot = "idle" -> "none" [] boot = "published" -> "published"
              [] boot = "refused" -> "refused" [] OTHER -> "starting",
  proof  <- answer,
  result <- outcome

(* Every Pi session keeps the host's contract: a stop proof that says      *)
(* stopped is true when given, by stop and by a failed or cancelled start, *)
(* it is never retracted, and the outcome is delivered once.               *)
ImplementsBackend == Backend!Spec

-----------------------------------------------------------------------------
TypeOK ==
  /\ boot \in {"idle", "preparing", "materializing", "prepared", "tooling",
               "tooled", "dropping", "spawning", "verifying", "joinTool", "joinSpawn", "joinVerify", "aborting",
               "unspawned", "published", "refused", "escaped"}
  /\ writing \in BOOLEAN
  /\ answer \in {"none", "proven", "unproven"}
  /\ leader \in {"absent", "alive", "gone"}
  /\ child \in {"none", "alive", "gone"} /\ escapee \in {"none", "alive", "gone"}
  /\ found \in BOOLEAN /\ fds \in BOOLEAN /\ writeFailed \in BOOLEAN
  /\ channel \in {"none", "starting", "open", "broken", "sealed", "aborted",
                  "failed"}
  /\ evidence \in {"none", "open", "closed"}
  /\ observer \in {"none", "open", "finalized", "failed", "unproven"}
  /\ reader \in {"none", "reading", "observing", "putting", "ended"}
  /\ errReader \in {"none", "reading", "ended"}
  /\ readerStop \in BOOLEAN /\ queue \in 0..QueueBound /\ failure \in BOOLEAN
  /\ run \in {"none", "asking", "listening", "closing", "stopping", "failing",
              "finality", "done"}
  /\ ask \in {"idle", "waiting", "answered", "broken"}
  /\ verdict \in {"none", "success", "failure"}
  /\ outcome \in {"none", "success", "failure"}
  /\ stop \in {"idle", "stopping", "answered"} /\ stopAsked \in BOOLEAN
  /\ cleanup \in {"none", "discovering", "aborting", "term", "kill", "joining",
                  "sealing", "done"}
  /\ abortFirst \in BOOLEAN
  /\ base \in {"none", "proven", "unproven"}
  /\ proof \in {"none", "proven", "unproven"}

(* Finality comes in one order however many tasks ask for it: the readers  *)
(* end before the evidence is closed, the channel is sealed only over an   *)
(* empty process group and closed evidence, the stop proof is published    *)
(* after all of them, and only a positive one reaches the observer.        *)
FinalityInOrder ==
  /\ cleanup \in {"sealing", "done"} =>
       reader \in {"none", "ended"} /\ errReader \in {"none", "ended"}
  /\ channel = "sealed" => evidence = "closed" /\ ~GroupsAlive
  /\ proof # "none" =>
       evidence = "closed" /\ channel \in {"none", "sealed", "aborted", "failed"}
  /\ observer \in {"finalized", "failed"} => proof = "proven"

(* When the host has its answer, from stop or from a start that failed,    *)
(* nothing of the adapter is at work behind it: no completion task, no     *)
(* reader, no cleanup, no unsettled channel, no inherited descriptor.      *)
AnswerLeavesNothingBehind ==
  answer # "none" =>
    /\ run \in {"none", "done"}
    /\ reader \in {"none", "ended"}
    /\ cleanup \in {"none", "done"}
    /\ channel \in {"none", "sealed", "aborted", "failed"} /\ ~fds

(* A success was reported by a session whose process is proven gone, whose *)
(* evidence is whole and whose channel and observer were finalized.        *)
SuccessIsProven ==
  outcome = "success" =>
    /\ proof = "proven" /\ ~GroupsAlive
    /\ evidence = "closed" /\ ~writeFailed
    /\ channel \in {"none", "sealed"} /\ observer \in {"none", "finalized"}

(* The host's calls come back although Pi may be silent for ever: a stop   *)
(* is answered unless its caller gives up, a cancelled start ends with a   *)
(* refusal, and once the cleanup has begun wait has its outcome.           *)
CallsComeBack ==
  /\ stop = "stopping" ~> stop # "stopping"
  /\ boot \in {"joinTool", "joinSpawn", "joinVerify", "aborting"} ~> boot = "refused"
  /\ boot = "published" /\ cleanup # "none" ~> outcome # "none"

-----------------------------------------------------------------------------
(* runtime/contracts.py of RuntimeBackend.start: it "may not hide blocking *)
(* side-effecting work in a thread".                                       *)
RefusedStartHasNoThread == boot = "refused" => ~writing
=============================================================================

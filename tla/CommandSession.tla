--------------------------- MODULE CommandSession ---------------------------
(***************************************************************************)
(* One session of the command backend: CommandBackend.start, the           *)
(* _RunningCommandSession it hands out, and the process group it controls  *)
(* (runtime/command.py).                                                   *)
(*                                                                         *)
(* Three parties interleave: the _run task that watches the process, the   *)
(* host's call of stop, and the processes themselves.  Both tasks end the  *)
(* group through _ensure_group_stopped, under one lock and with one cached *)
(* proof.  Every wait with a timeout may time out.                         *)
(***************************************************************************)
EXTENDS Naturals

CONSTANT Faults    \* from "adapter" (_run raises), "fsync" (finalize fails)

ASSUME FaultAssumption == Faults \subseteq {"adapter", "fsync"}

VARIABLES
  boot,       \* where start is
  leader,     \* the process: absent, alive, zombie (exited) or reaped
  code,       \* its exit status, visible to asyncio once reaped
  child,      \* another member of its process group
  outsider,   \* a descendant left the group and holds the output pipes
  drain,      \* the two output drainers, as a pair
  capped, captureFailed, stopAsked,   \* the three asyncio.Events
  run,        \* where the _run task (under _run_guarded) is
  terminal,   \* its terminal_reason, "exit" for a natural exit
  stop,       \* where the host's call of stop is
  stopNatural,\* that call found a leader that had exited by itself
  lock,       \* holder of _termination_lock
  signal,     \* last signal sent to the group
  residual,   \* _cleanup_had_residual
  groupProof, \* the cached _stop_proof
  answer,     \* last proof the host was given
  outcome     \* what the completion task returned

startVars   == <<boot, answer>>
processVars == <<leader, code, child, outsider>>
eventVars   == <<capped, captureFailed, stopAsked>>
runVars     == <<run, terminal, outcome>>
stopVars    == <<stop, stopNatural>>
groupVars   == <<lock, signal, residual, groupProof>>
vars == <<startVars, processVars, drain, eventVars, runVars, stopVars, groupVars>>

(* _group_alive: killpg(pgid, 0) also finds a zombie leader. *)
GroupAlive == leader \in {"alive", "zombie"} \/ child = "alive"

(* Somebody still holds the write end of stdout or stderr. *)
PipesHeld == leader = "alive" \/ child = "alive" \/ outsider

RunEnded == run \in {"done", "cancelled"}

-----------------------------------------------------------------------------
Init ==
  /\ boot = "idle" /\ leader = "absent" /\ code = "none"
  /\ child = "none" /\ outsider = FALSE /\ drain = "none"
  /\ capped = FALSE /\ captureFailed = FALSE /\ stopAsked = FALSE
  /\ run = "none" /\ terminal = "none" /\ outcome = "none"
  /\ stop = "idle" /\ stopNatural = FALSE
  /\ lock = "free" /\ signal = "none" /\ residual = FALSE
  /\ groupProof = "none" /\ answer = "none"

(* start: check the layout, copy the executable, open the captures. *)
StartCalled ==
  /\ boot = "idle" /\ boot' = "preparing"
  /\ UNCHANGED <<answer, processVars, drain, eventVars, runVars, stopVars,
                 groupVars>>

StartSpawns ==
  /\ boot = "preparing" /\ boot' = "spawning"
  /\ UNCHANGED <<answer, processVars, drain, eventVars, runVars, stopVars,
                 groupVars>>

(* Cancellation during create_subprocess_exec: start waits for it.         *)
StartCancelled ==
  /\ boot = "spawning" /\ boot' = "gap"
  /\ UNCHANGED <<answer, processVars, drain, eventVars, runVars, stopVars,
                 groupVars>>

(* A failure or cancellation before a process exists.                      *)
StartRefuses ==
  /\ boot \in {"preparing", "spawning", "gap"}
  /\ boot' = "refused" /\ answer' = "proven"
  /\ UNCHANGED <<processVars, drain, eventVars, runVars, stopVars, groupVars>>

(* Mutant: the cancelled start forgets a process whose spawning won.       *)
SpawnedForgotten ==
  /\ boot \in {"spawning", "gap"}
  /\ leader' = "alive" /\ drain' = "open" /\ run' = "watching"
  /\ boot' = IF boot = "gap" THEN "refused" ELSE "published"
  /\ answer' = IF boot = "gap" THEN "proven" ELSE answer
  /\ UNCHANGED <<code, child, outsider, eventVars, terminal, outcome,
                 stopVars, groupVars>>

(* The process exists; a cancelled start stops it before it gives up.      *)
Spawned ==
  /\ boot \in {"spawning", "gap"}
  /\ leader' = "alive" /\ drain' = "open" /\ run' = "watching"
  /\ boot' = IF boot = "gap" THEN "aborting" ELSE "published"
  /\ UNCHANGED <<answer, code, child, outsider, eventVars, terminal, outcome,
                 stopVars, groupVars>>

-----------------------------------------------------------------------------
(* The processes.  They may ignore SIGTERM and outlive SIGKILL.            *)

Forks ==
  /\ leader = "alive"
  /\ \/ child = "none" /\ child' = "alive" /\ UNCHANGED outsider
     \/ outsider' = TRUE /\ UNCHANGED child
  /\ UNCHANGED <<startVars, leader, code, drain, eventVars, runVars, stopVars,
                 groupVars>>

Exits ==
  /\ \/ /\ leader = "alive" /\ leader' = "zombie" /\ code' \in {"zero", "nonzero"}
        /\ UNCHANGED <<child, outsider>>
     \/ /\ child = "alive" /\ child' = "gone"
        /\ UNCHANGED <<leader, code, outsider>>
     \/ /\ outsider /\ outsider' = FALSE
        /\ UNCHANGED <<leader, code, child>>
  /\ UNCHANGED <<startVars, drain, eventVars, runVars, stopVars, groupVars>>

(* asyncio's child watcher sets returncode. *)
Reaped ==
  /\ leader = "zombie" /\ leader' = "reaped"
  /\ UNCHANGED <<startVars, code, child, outsider, drain, eventVars, runVars,
                 stopVars, groupVars>>

(* _StreamCapture.drain: a chunk crosses the cap or is not written; EOF.   *)
Drains ==
  /\ drain = "open"
  /\ \/ /\ capped' = TRUE
        /\ UNCHANGED <<captureFailed, drain>>
     \/ /\ captureFailed' = TRUE
        /\ UNCHANGED <<capped, drain>>
     \/ /\ ~PipesHeld /\ drain' = "eof"
        /\ UNCHANGED <<capped, captureFailed>>
  /\ UNCHANGED <<stopAsked, startVars, processVars, runVars, stopVars, groupVars>>

-----------------------------------------------------------------------------
(* _ensure_group_stopped and _terminate_cooperative_group.                 *)

Proving(who) ==
  IF who = "run" THEN run \in {"proving", "failing", "cancelling"}
                 ELSE stop = "proving"

Natural(who) == IF who = "run" THEN run = "proving" /\ terminal = "exit"
                               ELSE stopNatural

(* The first to take the lock: an absent group is proven at once, a live   *)
(* one is sent SIGTERM.  Members alive after a natural exit are residual.  *)
Terminates(who) ==
  /\ Proving(who) /\ lock = "free" /\ groupProof = "none"
  /\ residual' = (residual \/ (Natural(who) /\ GroupAlive))
  /\ IF GroupAlive
       THEN lock' = who /\ signal' = "term" /\ UNCHANGED groupProof
       ELSE groupProof' = "proven" /\ UNCHANGED <<lock, signal>>
  /\ UNCHANGED <<startVars, processVars, drain, eventVars, runVars, stopVars>>

GroupGone ==
  /\ lock # "free" /\ ~GroupAlive
  /\ groupProof' = "proven" /\ lock' = "free"
  /\ UNCHANGED <<startVars, processVars, drain, eventVars, runVars, stopVars,
                 signal, residual>>

Escalates ==
  /\ lock # "free" /\ GroupAlive /\ signal = "term"
  /\ signal' = "kill"
  /\ UNCHANGED <<startVars, processVars, drain, eventVars, runVars, stopVars,
                 lock, residual, groupProof>>

(* Mutant: SIGKILL is taken for proof.                                     *)
GivesUpAsProven ==
  /\ lock # "free" /\ GroupAlive /\ signal = "kill"
  /\ groupProof' = "proven" /\ lock' = "free"
  /\ UNCHANGED <<startVars, processVars, drain, eventVars, runVars, stopVars,
                 signal, residual>>

GivesUp ==
  /\ lock # "free" /\ GroupAlive /\ signal = "kill"
  /\ groupProof' = "unproven" /\ lock' = "free"
  /\ UNCHANGED <<startVars, processVars, drain, eventVars, runVars, stopVars,
                 signal, residual>>

-----------------------------------------------------------------------------
(* _run and _run_guarded. *)

(* The watch ends; output trouble outranks a stop, a stop a natural exit.  *)
RunWakes ==
  /\ run = "watching"
  /\ leader = "reaped" \/ capped \/ captureFailed \/ stopAsked
  /\ run' = "proving"
  /\ terminal' = IF capped THEN "cap" ELSE IF captureFailed THEN "capture"
                 ELSE IF stopAsked THEN "stop" ELSE "exit"
  /\ UNCHANGED <<startVars, processVars, drain, eventVars, outcome, stopVars,
                 groupVars>>

(* An unforeseen exception in _run: prove the group stopped and fail.      *)
RunRaises ==
  /\ "adapter" \in Faults /\ run \in {"watching", "draining"}
  /\ run' = "failing"
  /\ UNCHANGED <<startVars, processVars, drain, eventVars, terminal, outcome,
                 stopVars, groupVars>>

RunProven ==
  /\ Proving("run") /\ groupProof # "none"
  /\ run' = CASE run = "proving"    -> "draining"
              [] run = "failing"    -> "failed"
              [] run = "cancelling" -> "dropping"
  /\ UNCHANGED <<startVars, processVars, drain, eventVars, terminal, outcome,
                 stopVars, groupVars>>

(* Mutants: only EOF ends the drainers; their late findings and the        *)
(* residual group are not looked at.                                       *)
DrainersEndAtEof == drain = "eof" /\ UNCHANGED drain
CleanEarly(trouble) == terminal = "exit" /\ groupProof = "proven" /\ ~residual
CleanResidual(trouble) == terminal = "exit" /\ groupProof = "proven" /\ ~trouble

(* _finish_drainers: both reached EOF, or they are cancelled.              *)
DrainersEnd ==
  \/ drain = "eof" /\ UNCHANGED drain
  \/ drain = "open" /\ drain' = "aborted"
  \/ drain = "aborted" /\ UNCHANGED drain

(* _run's last classification, but for the exit status and the result.     *)
Clean(trouble) ==
  terminal = "exit" /\ groupProof = "proven" /\ ~residual /\ ~trouble

(* The outcome's status: a good exit still needs a valid result file.      *)
Status(good) == IF good THEN {"success", "failure"} ELSE {"failure"}

(* The drainers end (after at most a bounded wait for the return code),    *)
(* finalize syncs the captures, and only then is the outcome decided.      *)
RunFinishes ==
  /\ run = "draining" /\ DrainersEnd
  /\ captureFailed' = (captureFailed \/ drain' = "aborted")
  /\ \E syncFails \in BOOLEAN :
       /\ syncFails => "fsync" \in Faults
       /\ LET trouble == capped \/ captureFailed' \/ syncFails
              good == Clean(trouble) /\ leader = "reaped" /\ code = "zero"
          IN outcome' \in Status(good)
  /\ run' = "done"
  /\ UNCHANGED <<startVars, processVars, capped, stopAsked, terminal, stopVars,
                 groupVars>>

(* The except clauses of _run_guarded end the same way, without a success. *)
RunFailed ==
  /\ run \in {"failed", "dropping"} /\ DrainersEnd
  /\ captureFailed' = (captureFailed \/ drain' = "aborted")
  /\ IF run = "failed" THEN run' = "done" /\ outcome' = "failure"
                       ELSE run' = "cancelled" /\ UNCHANGED outcome
  /\ UNCHANGED <<startVars, processVars, capped, stopAsked, terminal, stopVars,
                 groupVars>>

-----------------------------------------------------------------------------
(* The host's stop. *)

(* A leader that was reaped before any stop was asked has completed by     *)
(* itself; otherwise the reason of the first stop is recorded.             *)
StopCalled ==
  /\ \/ boot = "published" /\ stop \in {"idle", "answered"}
     \/ boot = "aborting" /\ stop = "idle"
  /\ stop' = "proving"
  /\ stopNatural' = (leader = "reaped" /\ ~stopAsked)
  /\ stopAsked' = (stopAsked \/ ~stopNatural')
  /\ UNCHANGED <<startVars, processVars, drain, capped, captureFailed, runVars,
                 groupVars>>

(* stop returns proof p; for a cancelled start that is start's refusal.    *)
Answers(p) ==
  /\ stop' = "answered" /\ answer' = p
  /\ boot' = IF boot = "aborting" THEN "refused" ELSE boot

(* Mutant: the group's proof is returned while the drainers still write.   *)
StopProvenEarly ==
  /\ Proving("stop") /\ groupProof # "none"
  /\ Answers(groupProof)
  /\ UNCHANGED <<processVars, drain, eventVars, runVars, stopNatural, groupVars>>

StopProven ==
  /\ Proving("stop") /\ groupProof # "none"
  /\ IF RunEnded THEN Answers(groupProof)
                 ELSE stop' = "settling" /\ UNCHANGED startVars
  /\ UNCHANGED <<processVars, drain, eventVars, runVars, stopNatural, groupVars>>

StopSettled ==
  /\ stop = "settling" /\ RunEnded
  /\ Answers(groupProof)
  /\ UNCHANGED <<processVars, drain, eventVars, runVars, stopNatural, groupVars>>

(* Mutant: the host is answered although the completion has not ended.     *)
StopTimesOutAndAnswers ==
  /\ stop = "settling" /\ ~RunEnded
  /\ Answers("unproven")
  /\ UNCHANGED <<processVars, drain, eventVars, runVars, stopNatural, groupVars>>

(* The completion took too long: it is cancelled and joined.  Cancelled    *)
(* while it drains, it cancels the drainers; cancelled in an except clause *)
(* it ends there.                                                          *)
StopTimesOut ==
  /\ stop = "settling" /\ ~RunEnded
  /\ stop' = "joining"
  /\ run' = IF run = "failed" THEN "cancelled" ELSE "cancelling"
  /\ drain' = IF run \in {"draining", "failed"} /\ drain = "open"
                THEN "aborted" ELSE drain
  /\ lock' = IF lock = "run" THEN "free" ELSE lock
  /\ UNCHANGED <<startVars, processVars, eventVars, terminal, outcome,
                 stopNatural, signal, residual, groupProof>>

StopJoined ==
  /\ stop = "joining" /\ RunEnded
  /\ Answers("unproven")
  /\ UNCHANGED <<processVars, drain, eventVars, runVars, stopNatural, groupVars>>

-----------------------------------------------------------------------------
Starting == StartCalled \/ StartSpawns \/ StartCancelled \/ StartRefuses \/ Spawned
Running  == RunWakes \/ RunRaises \/ RunProven \/ RunFinishes \/ RunFailed
Ending   == \/ \E who \in {"run", "stop"} : Terminates(who)
            \/ GroupGone \/ Escalates \/ GivesUp
Stopping == StopProven \/ StopSettled \/ StopTimesOut \/ StopJoined
World    == Forks \/ Exits \/ Reaped \/ Drains \/ StopCalled

Next == Starting \/ Running \/ Ending \/ Stopping \/ World

Spec == Init /\ [][Next]_vars

(* The event loop runs what is ready and every timed wait ends.  Nothing   *)
(* is assumed of the processes, the pipes or the host.                     *)
Fairness ==
  /\ WF_vars(Starting) /\ WF_vars(Ending)
  /\ WF_vars(RunWakes) /\ WF_vars(RunProven)
  /\ WF_vars(RunFinishes \/ RunFailed)
  /\ WF_vars(Stopping)
  /\ WF_vars(boot = "aborting" /\ StopCalled)

FairSpec == Spec /\ Fairness
=============================================================================

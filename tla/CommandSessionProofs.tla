------------------------- MODULE CommandSessionProofs -------------------------
(***************************************************************************)
(* Whatever its processes, the host and the faults do: a command session   *)
(* keeps BackendContract, leaves nothing at work behind an answer, and     *)
(* succeeds only cleanly.                                                  *)
(***************************************************************************)
EXTENDS CommandSessionProps, TLAPS

SessionTyped ==
  /\ boot \in {"idle", "preparing", "spawning", "gap", "aborting",
               "published", "refused"}
  /\ answer \in {"none", "proven", "unproven"}
  /\ leader \in {"absent", "alive", "zombie", "reaped"}
  /\ child \in {"none", "alive", "gone"}
  /\ drain \in {"none", "open", "eof", "aborted"}
  /\ run \in {"none", "watching", "proving", "failing", "cancelling",
              "draining", "failed", "dropping", "done", "cancelled"}
  /\ terminal \in {"none", "exit", "cap", "capture", "stop"}
  /\ outcome \in {"none", "success", "failure"}
  /\ stop \in {"idle", "proving", "settling", "joining", "answered"}
  /\ lock \in {"free", "run", "stop"}
  /\ signal \in {"none", "term", "kill"}
  /\ groupProof \in {"none", "proven", "unproven"}
  /\ capped \in BOOLEAN /\ captureFailed \in BOOLEAN /\ stopAsked \in BOOLEAN
  /\ stopNatural \in BOOLEAN /\ residual \in BOOLEAN

(* There is no process and nobody has done anything about one.             *)
Untouched ==
  /\ leader = "absent" /\ child = "none" /\ drain = "none"
  /\ run = "none" /\ terminal = "none" /\ outcome = "none" /\ stop = "idle"
  /\ lock = "free" /\ signal = "none" /\ groupProof = "none"

(* Where start is, and what there is to find then.                         *)
BootInv ==
  /\ boot \in {"idle", "preparing", "spawning", "gap"} =>
       Untouched /\ answer = "none"
  /\ boot = "refused" =>
       \/ Untouched /\ answer = "proven"
       \/ leader # "absent" /\ stop = "answered"
  /\ boot \in {"published", "aborting"} => leader # "absent"
  /\ boot = "aborting" => answer = "none"
  /\ leader # "absent" => drain # "none" /\ run # "none"
  /\ stop \in {"proving", "settling", "joining"} => boot \in {"published", "aborting"}

(* The termination lock and the cached proof: nobody gets past the proof   *)
(* without one, and a positive one is true for good.                       *)
LockInv ==
  /\ lock = "run" => run \in {"proving", "failing"}
  /\ lock = "stop" => stop = "proving"
  /\ lock # "free" => groupProof = "none" /\ signal # "none"
  /\ groupProof = "none" =>
       run \in {"none", "watching", "proving", "failing"} /\ stop \in {"idle", "proving"}
  /\ groupProof = "proven" => ~GroupAlive

(* The completion task ends after the drainers, an answer comes after it.  *)
EndInv ==
  /\ RunEnded => drain \in {"eof", "aborted"}
  /\ stop = "answered" => RunEnded
  /\ answer # "none" => run \in {"none", "done", "cancelled"}
  /\ answer # "none" => stop \notin {"settling", "joining"}
  /\ answer = "proven" => groupProof = "proven" \/ leader = "absent"
  /\ outcome # "none" => run = "done"

(* A natural exit is one nobody asked for; whoever then has to signal the  *)
(* group finds it residual.                                                *)
CleanInv ==
  /\ stop # "idle" => stopAsked \/ stopNatural
  /\ terminal = "exit" => leader = "reaped" /\ ~stopAsked
  /\ (run = "watching" /\ ~stopAsked) \/
     (run \in {"proving", "draining"} /\ terminal = "exit") =>
       residual \/ signal = "none"
  /\ run = "failing" /\ groupProof = "none" => terminal = "none"
  /\ run = "watching" => terminal = "none"
  /\ outcome = "success" => SuccessIsClean /\ groupProof = "proven"

SessionInv == SessionTyped /\ BootInv /\ LockInv /\ EndInv /\ CleanInv

-----------------------------------------------------------------------------
(* Before start is called there is nothing.                                *)
LEMMA SessionStarts == Init => SessionInv
BY DEF Init, SessionInv, SessionTyped, Untouched, BootInv, LockInv, EndInv,
       CleanInv, RunEnded, GroupAlive

(* One lemma per party: start, the completion task, whoever ends the group,*)
(* the host's stop, and the processes.                                     *)
LEMMA StartingKeeps == SessionInv /\ Starting => SessionInv'
<1> SUFFICES ASSUME SessionInv, Starting PROVE SessionInv'
  OBVIOUS
<1> USE DEF SessionInv, SessionTyped, Untouched, BootInv, LockInv, EndInv,
       CleanInv, RunEnded, GroupAlive, SuccessIsClean, startVars, processVars, eventVars,
       runVars, stopVars, groupVars
<1>1. CASE StartCalled BY <1>1 DEF StartCalled
<1>2. CASE StartSpawns BY <1>2 DEF StartSpawns
<1>3. CASE StartCancelled BY <1>3 DEF StartCancelled
<1>4. CASE StartRefuses BY <1>4 DEF StartRefuses
<1>5. CASE Spawned BY <1>5 DEF Spawned
<1> QED BY <1>1, <1>2, <1>3, <1>4, <1>5 DEF Starting

LEMMA RunningKeeps == SessionInv /\ Running => SessionInv'
<1> SUFFICES ASSUME SessionInv, Running PROVE SessionInv'
  OBVIOUS
<1> USE DEF SessionInv, SessionTyped, Untouched, BootInv, LockInv, EndInv,
       CleanInv, RunEnded, GroupAlive, SuccessIsClean, startVars, processVars, eventVars,
       runVars, stopVars, groupVars
<1>1. CASE RunWakes BY <1>1 DEF RunWakes
<1>2. CASE RunRaises BY <1>2 DEF RunRaises
<1>3. CASE RunProven BY <1>3 DEF RunProven, Proving
<1>4. CASE RunFinishes
  <2>1. SessionTyped' BY <1>4 DEF RunFinishes, DrainersEnd, Status, Clean
  <2>2. BootInv' BY <1>4 DEF RunFinishes, DrainersEnd, Status, Clean
  <2>3. LockInv' BY <1>4 DEF RunFinishes, DrainersEnd, Status, Clean
  <2>4. EndInv' BY <1>4 DEF RunFinishes, DrainersEnd, Status, Clean
  <2>5. CleanInv' BY <1>4 DEF RunFinishes, DrainersEnd, Status, Clean
  <2> QED BY <2>1, <2>2, <2>3, <2>4, <2>5
<1>5. CASE RunFailed BY <1>5 DEF RunFailed, DrainersEnd
<1> QED BY <1>1, <1>2, <1>3, <1>4, <1>5 DEF Running

LEMMA EndingKeeps == SessionInv /\ Ending => SessionInv'
<1> SUFFICES ASSUME SessionInv, Ending PROVE SessionInv'
  OBVIOUS
<1> USE DEF SessionInv, SessionTyped, Untouched, BootInv, LockInv, EndInv,
       CleanInv, RunEnded, GroupAlive, SuccessIsClean, startVars, processVars, eventVars,
       runVars, stopVars, groupVars
<1>1. CASE Terminates("run")
  <2>1. SessionTyped' BY <1>1 DEF Terminates, Proving, Natural
  <2>2. BootInv' BY <1>1 DEF Terminates, Proving, Natural
  <2>3. LockInv' BY <1>1 DEF Terminates, Proving, Natural
  <2>4. EndInv' BY <1>1 DEF Terminates, Proving, Natural
  <2>5. CleanInv' BY <1>1 DEF Terminates, Proving, Natural
  <2> QED BY <2>1, <2>2, <2>3, <2>4, <2>5
<1>2. CASE Terminates("stop") BY <1>2 DEF Terminates, Proving, Natural
<1>3. CASE GroupGone BY <1>3 DEF GroupGone
<1>4. CASE Escalates BY <1>4 DEF Escalates
<1>5. CASE GivesUp BY <1>5 DEF GivesUp
<1> QED BY <1>1, <1>2, <1>3, <1>4, <1>5 DEF Ending

LEMMA StoppingKeeps == SessionInv /\ Stopping => SessionInv'
<1> SUFFICES ASSUME SessionInv, Stopping PROVE SessionInv'
  OBVIOUS
<1> USE DEF SessionInv, SessionTyped, Untouched, BootInv, LockInv, EndInv,
       CleanInv, RunEnded, GroupAlive, SuccessIsClean, startVars, processVars, eventVars,
       runVars, stopVars, groupVars
<1>1. CASE StopProven BY <1>1 DEF StopProven, Proving, Answers
<1>2. CASE StopSettled BY <1>2 DEF StopSettled, Answers
<1>3. CASE StopTimesOut BY <1>3 DEF StopTimesOut
<1>4. CASE StopJoined BY <1>4 DEF StopJoined, Answers
<1> QED BY <1>1, <1>2, <1>3, <1>4 DEF Stopping

LEMMA WorldKeeps == SessionInv /\ World => SessionInv'
<1> SUFFICES ASSUME SessionInv, World PROVE SessionInv'
  OBVIOUS
<1> USE DEF SessionInv, SessionTyped, Untouched, BootInv, LockInv, EndInv,
       CleanInv, RunEnded, GroupAlive, SuccessIsClean, startVars, processVars, eventVars,
       runVars, stopVars, groupVars
<1>1. CASE Forks BY <1>1 DEF Forks
<1>2. CASE Exits BY <1>2 DEF Exits
<1>3. CASE Reaped BY <1>3 DEF Reaped
<1>4. CASE Drains
  <2>1. SessionTyped'
    <3>1. capped' \in BOOLEAN /\ captureFailed' \in BOOLEAN /\ drain' \in {"open", "eof"}
      BY <1>4, Zenon DEF Drains
    <3> QED BY <1>4, <3>1 DEF Drains
  <2>2. BootInv' BY <1>4 DEF Drains
  <2>3. LockInv' BY <1>4 DEF Drains
  <2>4. EndInv' BY <1>4 DEF Drains
  <2>5. CleanInv' BY <1>4 DEF Drains
  <2> QED BY <2>1, <2>2, <2>3, <2>4, <2>5
<1>5. CASE StopCalled
  <2>1. SessionTyped' BY <1>5 DEF StopCalled
  <2>2. BootInv' BY <1>5 DEF StopCalled
  <2>3. LockInv' BY <1>5 DEF StopCalled
  <2>4. EndInv' BY <1>5 DEF StopCalled
  <2>5. CleanInv' BY <1>5 DEF StopCalled
  <2> QED BY <2>1, <2>2, <2>3, <2>4, <2>5
<1> QED BY <1>1, <1>2, <1>3, <1>4, <1>5 DEF World

(* The invariant holds throughout, whichever faults there are.             *)
THEOREM SessionIsInductive == Spec => []SessionInv
<1>1. SessionInv /\ [Next]_vars => SessionInv'
  <2> SUFFICES ASSUME SessionInv, [Next]_vars PROVE SessionInv'
    OBVIOUS
  <2>1. CASE UNCHANGED vars
    BY <2>1 DEF SessionInv, SessionTyped, Untouched, BootInv, LockInv, EndInv,
       CleanInv, RunEnded, GroupAlive, SuccessIsClean, startVars, processVars,
       eventVars, runVars, stopVars, groupVars, vars
  <2> QED
    BY <2>1, StartingKeeps, RunningKeeps, EndingKeeps, StoppingKeeps, WorldKeeps
    DEF Next
<1> QED
  BY <1>1, SessionStarts, PTL DEF Spec

(* Whatever happens: a host that has its answer has nothing of the session *)
(* at work behind it (stop, a cancelled start, _run_guarded's clauses).    *)
THEOREM AnswersAreFinal == Spec => []AnswerLeavesNothingBehind
<1>1. SessionInv => AnswerLeavesNothingBehind
  BY DEF SessionInv, SessionTyped, Untouched, BootInv, LockInv, EndInv,
         RunEnded, AnswerLeavesNothingBehind
<1> QED
  BY <1>1, SessionIsInductive, PTL

(* A session that reports success ended by itself, alone, and its output   *)
(* is complete (the classification at the end of _run).                    *)
THEOREM SuccessesAreClean == Spec => []SuccessIsClean
<1>1. SessionInv => SuccessIsClean
  BY DEF SessionInv, CleanInv, SuccessIsClean
<1> QED
  BY <1>1, SessionIsInductive, PTL

-----------------------------------------------------------------------------
(* start calls, spawns or refuses.                                         *)
LEMMA StartingRefines == SessionInv /\ Starting => [Backend!Next]_(Backend!backendVars)
<1> SUFFICES ASSUME SessionInv, Starting PROVE [Backend!Next]_(Backend!backendVars)
  OBVIOUS
<1> USE DEF SessionInv, SessionTyped, Untouched, BootInv, startVars, processVars,
       runVars, Backend!backendVars
<1>1. CASE StartCalled
  <2>1. Backend!Call BY <1>1 DEF StartCalled, Backend!Call
  <2> QED BY <2>1 DEF Backend!Next
<1>2. CASE StartSpawns BY <1>2 DEF StartSpawns
<1>3. CASE StartCancelled BY <1>3 DEF StartCancelled
<1>4. CASE StartRefuses
  <2>1. Backend!Refuse BY <1>4 DEF StartRefuses, Backend!Refuse
  <2> QED BY <2>1 DEF Backend!Next
<1>5. CASE Spawned
  <2>1. Backend!Spawn BY <1>5 DEF Spawned, Backend!Spawn
  <2> QED BY <2>1 DEF Backend!Next
<1> QED BY <1>1, <1>2, <1>3, <1>4, <1>5 DEF Starting

(* The completion task delivers the outcome, and nothing else the host     *)
(* could see.                                                              *)
LEMMA RunningRefines == SessionInv /\ Running => [Backend!Next]_(Backend!backendVars)
<1> SUFFICES ASSUME SessionInv, Running PROVE [Backend!Next]_(Backend!backendVars)
  OBVIOUS
<1> USE DEF SessionInv, SessionTyped, Untouched, BootInv, EndInv, startVars, processVars,
       runVars, Backend!backendVars
<1>1. CASE RunWakes BY <1>1 DEF RunWakes
<1>2. CASE RunRaises BY <1>2 DEF RunRaises
<1>3. CASE RunProven BY <1>3 DEF RunProven
<1>4. CASE RunFinishes
  <2>1. outcome' \in {"success", "failure"}
    BY <1>4 DEF RunFinishes, Status
  <2>2. boot # "idle" /\ outcome = "none" BY <1>4 DEF RunFinishes
  <2>3. UNCHANGED <<boot, answer, leader, child>> BY <1>4 DEF RunFinishes
  <2>4. Backend!Complete BY <2>1, <2>2, <2>3 DEF Backend!Complete
  <2> QED BY <2>4 DEF Backend!Next
<1>5. CASE RunFailed
  <2>1. UNCHANGED <<boot, answer, leader, child>> BY <1>5 DEF RunFailed
  <2>2. CASE run = "failed"
    <3>1. boot # "idle" /\ outcome = "none" /\ outcome' = "failure"
      BY <1>5, <2>2 DEF RunFailed
    <3>2. Backend!Complete BY <3>1, <2>1 DEF Backend!Complete
    <3> QED BY <3>2 DEF Backend!Next
  <2>3. CASE run # "failed" BY <1>5, <2>1, <2>3 DEF RunFailed
  <2> QED BY <2>2, <2>3
<1> QED BY <1>1, <1>2, <1>3, <1>4, <1>5 DEF Running

(* The termination is not seen until somebody answers.                     *)
LEMMA EndingRefines == Ending => UNCHANGED Backend!backendVars
BY DEF Ending, Terminates, GroupGone, Escalates, GivesUp, startVars, processVars,
       runVars, Backend!backendVars

(* An answer of stop is Stop, or the refusal of a cancelled start.         *)
LEMMA AnswerRefines ==
  ASSUME SessionInv, stop \in {"proving", "settling", "joining"},
         NEW p \in {"proven", "unproven"}, Answers(p),
         p = "proven" => groupProof = "proven",
         answer = "proven" => p = "proven",
         UNCHANGED <<processVars, outcome>>
  PROVE  Backend!Next
<1> USE DEF SessionInv, SessionTyped, BootInv, LockInv, EndInv, GroupAlive,
        Answers, processVars
<1>1. CASE boot = "published"
  <2>1. Backend!Stop BY <1>1 DEF Backend!Stop
  <2> QED BY <2>1 DEF Backend!Next
<1>2. CASE boot = "aborting"
  <2>1. Backend!Refuse BY <1>2 DEF Backend!Refuse
  <2> QED BY <2>1 DEF Backend!Next
<1> QED BY <1>1, <1>2

(* A late stop that had to cancel the completion retracts nothing: there   *)
(* was no answer yet.                                                      *)
LEMMA StoppingRefines == SessionInv /\ Stopping => [Backend!Next]_(Backend!backendVars)
<1> SUFFICES ASSUME SessionInv, Stopping PROVE [Backend!Next]_(Backend!backendVars)
  OBVIOUS
<1>1. groupProof \in {"none", "proven", "unproven"}
  BY DEF SessionInv, SessionTyped
<1>2. answer = "proven" => groupProof = "proven"
  BY DEF SessionInv, SessionTyped, Untouched, BootInv, EndInv, Stopping, StopProven, Proving,
         StopSettled, StopTimesOut, StopJoined
<1>3. ASSUME groupProof # "none", stop \in {"proving", "settling"}, Answers(groupProof),
             UNCHANGED <<processVars, outcome>>
      PROVE  Backend!Next
  BY <1>1, <1>2, <1>3, AnswerRefines
<1>4. CASE StopProven
  <2>1. CASE RunEnded BY <1>3, <1>4, <2>1 DEF StopProven, Proving, runVars
  <2>2. CASE ~RunEnded
    BY <1>4, <2>2 DEF StopProven, startVars, processVars, runVars, Backend!backendVars
  <2> QED BY <2>1, <2>2
<1>5. CASE StopSettled
  <2>1. groupProof # "none"
    BY <1>5 DEF SessionInv, LockInv, StopSettled
  <2> QED BY <1>3, <1>5, <2>1 DEF StopSettled, runVars
<1>6. CASE StopTimesOut
  BY <1>6 DEF StopTimesOut, startVars, processVars, Backend!backendVars
<1>7. CASE StopJoined
  <2>1. answer = "none"
    BY <1>7 DEF SessionInv, SessionTyped, EndInv, StopJoined
  <2> QED BY <1>7, <2>1, AnswerRefines DEF StopJoined, runVars
<1> QED BY <1>4, <1>5, <1>6, <1>7 DEF Stopping

(* The last process to leave is Quiesce; the rest is not seen.             *)
LEMMA WorldRefines == SessionInv /\ World => [Backend!Next]_(Backend!backendVars)
<1> SUFFICES ASSUME SessionInv, World PROVE [Backend!Next]_(Backend!backendVars)
  OBVIOUS
<1> USE DEF startVars, processVars, runVars, Backend!backendVars
<1>1. CASE Forks
  <2>1. leader' = "alive" /\ leader = "alive" /\ UNCHANGED <<boot, answer, outcome>>
    BY <1>1 DEF Forks
  <2> QED BY <2>1
<1>2. CASE Exits
  <2>1. CASE leader' = "alive" \/ child' = "alive"
    BY <1>2, <2>1 DEF Exits
  <2>2. CASE ~(leader' = "alive" \/ child' = "alive")
    <3>1. Backend!Quiesce BY <1>2, <2>2 DEF Exits, Backend!Quiesce
    <3> QED BY <3>1 DEF Backend!Next
  <2> QED BY <2>1, <2>2
<1>3. CASE Reaped BY <1>3 DEF Reaped
<1>4. CASE Drains BY <1>4 DEF Drains
<1>5. CASE StopCalled BY <1>5 DEF StopCalled
<1> QED BY <1>1, <1>2, <1>3, <1>4, <1>5 DEF World

(* Every command session keeps the contract CohortRun assumes of a backend. *)
THEOREM SessionKeepsContract == Spec => ImplementsBackend
<1>1. Init => Backend!Init
  BY DEF Init, Backend!Init
<1>2. SessionInv /\ [Next]_vars => [Backend!Next]_(Backend!backendVars)
  <2> SUFFICES ASSUME SessionInv, [Next]_vars
               PROVE  [Backend!Next]_(Backend!backendVars)
    OBVIOUS
  <2>1. CASE UNCHANGED vars
    BY <2>1 DEF vars, startVars, processVars, runVars, Backend!backendVars
  <2> QED
    BY <2>1, StartingRefines, RunningRefines, EndingRefines, StoppingRefines,
       WorldRefines DEF Next
<1> QED
  BY <1>1, <1>2, SessionIsInductive, PTL DEF Spec, ImplementsBackend, Backend!Spec
===============================================================================

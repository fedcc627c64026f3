--------------------------- MODULE PiSessionProofs ---------------------------
(***************************************************************************)
(* Whatever Pi, the host and the faults do: a Pi session keeps             *)
(* BackendContract, its finality comes in one order, an answer leaves      *)
(* nothing at work and a success is proven.                                *)
(***************************************************************************)
EXTENDS PiSessionProps, TLAPS

(* Where start is before there is a transport, and before a process.       *)
Unopened  == boot \in {"idle", "preparing", "materializing", "prepared"}
Unspawned == \/ Unopened
             \/ boot \in {"tooling", "joinTool", "tooled", "dropping", "spawning",
                          "joinSpawn"}

(* Where start is says what there is: no process before the spawn, a       *)
(* cleanup in every ending, a completion task behind a handle only.        *)
BootInv ==
  /\ Unspawned => cleanup = "none" /\ leader = "absent"
  /\ boot \in {"verifying", "joinVerify"} => cleanup = "none" /\ leader # "absent"
  /\ boot \in {"unspawned", "escaped"} => cleanup \in {"sealing", "done"}
  /\ boot = "aborting" => cleanup # "none"
  /\ boot = "published" => leader # "absent" /\ run # "none"
  /\ boot # "published" => run = "none" /\ stop = "idle"
  /\ boot = "refused" =>
       cleanup \in {"none", "done"} /\ (cleanup = "none" => leader = "absent" /\ ~fds)
  /\ leader = "absent" =>
       /\ child = "none" /\ escapee = "none" /\ ~found
       /\ reader = "none" /\ errReader = "none"
  /\ leader # "absent" => ~fds

(* The tool channel's way: opened by start, settled by the cleanup.        *)
ChannelInv ==
  /\ Unopened => channel = "none" /\ ~fds
  /\ boot \in {"tooling", "joinTool"} => channel = "starting" /\ ~fds
  /\ boot = "tooled" => channel = "open"
  /\ boot = "dropping" => channel \in {"open", "broken"}
  /\ boot \notin {"tooling", "joinTool", "dropping"} =>
       channel \notin {"starting", "broken"}
  /\ boot = "refused" /\ cleanup = "none" => channel \in {"none", "aborted", "failed"}
  /\ channel = "sealed" => cleanup = "done" /\ base = "proven"
  /\ cleanup = "done" => channel \in {"none", "sealed", "aborted", "failed"} /\ ~fds
  /\ cleanup = "done" /\ leader # "absent" /\ base = "proven" => channel # "aborted"

(* The cleanup looks for descendants once, ends the readers before the     *)
(* evidence, and proves only what stays true.                              *)
CleanupInv ==
  /\ cleanup \in {"none", "discovering"} => base = "none" /\ ~found
  /\ cleanup \in {"discovering", "aborting", "term", "kill", "joining"} =>
       leader # "absent"
  /\ cleanup \in {"aborting", "term", "kill"} => base # "proven"
  /\ cleanup \in {"joining", "sealing", "done"} =>
       base # "none" /\ errReader \in {"none", "ended"}
  /\ cleanup = "joining" => readerStop /\ reader \in {"none", "ended", "observing"}
  /\ cleanup \in {"sealing", "done"} => reader \in {"none", "ended"}
  /\ base = "proven" => ~GroupsAlive
  /\ cleanup = "done" => evidence = "closed"
  /\ proof = IF cleanup = "done" THEN base ELSE "none"

(* The completion task outlives the cleanup it asked for, the observer and *)
(* the host's answer come after it.                                        *)
RunInv ==
  /\ ask # "idle" => run \in {"asking", "closing"}
  /\ run \in {"stopping", "failing"} => cleanup # "none"
  /\ run \in {"finality", "done"} => cleanup = "done" /\ verdict # "none"
  /\ verdict = "success" =>
       /\ cleanup = "done" /\ leader # "absent"
       /\ proof = "proven" /\ ~writeFailed /\ channel # "failed"
  /\ outcome = "none" <=> run # "done"
  /\ outcome = "success" => verdict = "success" /\ observer \in {"none", "finalized"}
  /\ observer \notin {"none", "open"} => run = "done"
  /\ observer \in {"finalized", "failed"} => proof = "proven"
  /\ answer # "none" => boot \in {"published", "refused"}
  /\ answer # "none" /\ boot = "published" => run = "done" /\ answer = proof

(* The stages of everything, and the flags and the queue.                 *)
Stages ==
  /\ boot \in {"idle", "preparing", "materializing", "prepared", "tooling",
               "tooled", "dropping", "spawning", "verifying", "joinTool",
               "joinSpawn", "joinVerify", "aborting", "unspawned", "published",
               "refused", "escaped"}
  /\ answer \in {"none", "proven", "unproven"}
  /\ leader \in {"absent", "alive", "gone"}
  /\ child \in {"none", "alive", "gone"} /\ escapee \in {"none", "alive", "gone"}
  /\ channel \in {"none", "starting", "open", "broken", "sealed", "aborted",
                  "failed"}
  /\ evidence \in {"none", "open", "closed"}
  /\ observer \in {"none", "open", "finalized", "failed", "unproven"}
  /\ reader \in {"none", "reading", "observing", "putting", "ended"}
  /\ errReader \in {"none", "reading", "ended"}
  /\ run \in {"none", "asking", "listening", "closing", "stopping", "failing",
              "finality", "done"}
  /\ ask \in {"idle", "waiting", "answered", "broken"}
  /\ verdict \in {"none", "success", "failure"}
  /\ outcome \in {"none", "success", "failure"}
  /\ stop \in {"idle", "stopping", "answered"}
  /\ cleanup \in {"none", "discovering", "aborting", "term", "kill", "joining",
                  "sealing", "done"}
  /\ base \in {"none", "proven", "unproven"}
  /\ proof \in {"none", "proven", "unproven"}

Flags ==
  /\ writing \in BOOLEAN /\ found \in BOOLEAN /\ fds \in BOOLEAN
  /\ writeFailed \in BOOLEAN /\ readerStop \in BOOLEAN /\ failure \in BOOLEAN
  /\ stopAsked \in BOOLEAN /\ abortFirst \in BOOLEAN

Room == queue \in 0..QueueBound

(* Together they are the type invariant.                                  *)
LEMMA TypesSplit == (TypeOK <=> Stages /\ Flags /\ Room)
                    /\ (TypeOK <=> Stages /\ Flags /\ Room)'
BY DEF TypeOK, Stages, Flags, Room

PiInv == BootInv /\ ChannelInv /\ CleanupInv /\ RunInv

-----------------------------------------------------------------------------
(* Before start is called there is nothing. *)
LEMMA SessionStarts == Init => TypeOK /\ PiInv
<1> SUFFICES ASSUME Init PROVE TypeOK /\ PiInv
  OBVIOUS
<1>1. QueueBound \in Nat BY PiAssumption
<1>4. TypeOK
  <2>1. Stages BY DEF Init, Stages
  <2>2. Flags BY DEF Init, Flags
  <2>3. Room BY <1>1 DEF Init, Room
  <2> QED BY <2>1, <2>2, <2>3, TypesSplit
<1>2. BootInv /\ ChannelInv
  BY DEF Init, Unopened, Unspawned, BootInv, ChannelInv
<1>3. CleanupInv /\ RunInv
  BY DEF Init, CleanupInv, RunInv, GroupsAlive
<1> QED BY <1>2, <1>3, <1>4 DEF PiInv

(* The stages and flags stay in their ranges: start.                       *)
LEMMA StartingTyped == TypeOK /\ Starting => TypeOK'
<1> SUFFICES ASSUME Stages, Flags, Room, Starting PROVE Stages' /\ Flags' /\ Room'
  BY TypesSplit
<1> USE DEF startVars, processVars, channelVars, fileVars, readVars, runVars, stopVars,
       cleanVars, Refuse, Shutdown, ShutdownUnspawned
<1>1. CASE Materializes
  <2>1. Stages' BY <1>1 DEF Stages, Materializes
  <2>2. Flags' BY <1>1 DEF Flags, Materializes
  <2>3. Room' BY <1>1, PiAssumption DEF Room, Materializes
  <2> QED BY <2>1, <2>2, <2>3
<1>2. CASE Materialized
  <2>1. Stages' BY <1>2 DEF Stages, Materialized
  <2>2. Flags' BY <1>2 DEF Flags, Materialized
  <2>3. Room' BY <1>2, PiAssumption DEF Room, Materialized
  <2> QED BY <2>1, <2>2, <2>3
<1>3. CASE ChannelOpens
  <2>1. Stages' BY <1>3 DEF Stages, ChannelOpens
  <2>2. Flags' BY <1>3 DEF Flags, ChannelOpens
  <2>3. Room' BY <1>3, PiAssumption DEF Room, ChannelOpens
  <2> QED BY <2>1, <2>2, <2>3
<1>4. CASE ChannelStarted
  <2>1. Stages' BY <1>4 DEF Stages, ChannelStarted
  <2>2. Flags' BY <1>4 DEF Flags, ChannelStarted
  <2>3. Room' BY <1>4, PiAssumption DEF Room, ChannelStarted
  <2> QED BY <2>1, <2>2, <2>3
<1>5. CASE LaunchRejected
  <2>1. Stages' BY <1>5 DEF Stages, LaunchRejected
  <2>2. Flags' BY <1>5 DEF Flags, LaunchRejected
  <2>3. Room' BY <1>5, PiAssumption DEF Room, LaunchRejected
  <2> QED BY <2>1, <2>2, <2>3
<1>6. CASE ChannelDropped
  <2>1. Stages' BY <1>6 DEF Stages, ChannelDropped
  <2>2. Flags' BY <1>6 DEF Flags, ChannelDropped
  <2>3. Room' BY <1>6, PiAssumption DEF Room, ChannelDropped
  <2> QED BY <2>1, <2>2, <2>3
<1>7. CASE TransportBuilt
  <2>1. Stages' BY <1>7 DEF Stages, TransportBuilt
  <2>2. Flags' BY <1>7 DEF Flags, TransportBuilt
  <2>3. Room' BY <1>7, PiAssumption DEF Room, TransportBuilt
  <2> QED BY <2>1, <2>2, <2>3
<1>8. CASE SpawnFails
  <2>1. Stages' BY <1>8 DEF Stages, SpawnFails
  <2>2. Flags' BY <1>8 DEF Flags, SpawnFails
  <2>3. Room' BY <1>8, PiAssumption DEF Room, SpawnFails
  <2> QED BY <2>1, <2>2, <2>3
<1>9. CASE Spawned
  <2>1. Stages' BY <1>9 DEF Stages, Spawned
  <2>2. Flags' BY <1>9 DEF Flags, Spawned
  <2>3. Room' BY <1>9, PiAssumption DEF Room, Spawned
  <2> QED BY <2>1, <2>2, <2>3
<1>10. CASE Verified
  <2>1. Stages' BY <1>10 DEF Stages, Verified
  <2>2. Flags' BY <1>10 DEF Flags, Verified
  <2>3. Room' BY <1>10, PiAssumption DEF Room, Verified
  <2> QED BY <2>1, <2>2, <2>3
<1>11. CASE StartAborted
  <2>1. Stages' BY <1>11 DEF Stages, StartAborted
  <2>2. Flags' BY <1>11 DEF Flags, StartAborted
  <2>3. Room' BY <1>11, PiAssumption DEF Room, StartAborted
  <2> QED BY <2>1, <2>2, <2>3
<1> QED BY <1>1, <1>2, <1>3, <1>4, <1>5, <1>6, <1>7, <1>8, <1>9, <1>10, <1>11 DEF Starting

(* The host's calls.                                                       *)
LEMMA AskingTyped == TypeOK /\ Asking => TypeOK'
<1> SUFFICES ASSUME Stages, Flags, Room, Asking PROVE Stages' /\ Flags' /\ Room'
  BY TypesSplit
<1> USE DEF startVars, processVars, channelVars, fileVars, readVars, runVars, stopVars,
       cleanVars, Refuse, Shutdown, ShutdownUnspawned
<1>1. CASE StartCalled
  <2>1. Stages' BY <1>1 DEF Stages, StartCalled
  <2>2. Flags' BY <1>1 DEF Flags, StartCalled
  <2>3. Room' BY <1>1, PiAssumption DEF Room, StartCalled
  <2> QED BY <2>1, <2>2, <2>3
<1>2. CASE StartRefuses
  <2>1. Stages' BY <1>2 DEF Stages, StartRefuses
  <2>2. Flags' BY <1>2 DEF Flags, StartRefuses
  <2>3. Room' BY <1>2, PiAssumption DEF Room, StartRefuses
  <2> QED BY <2>1, <2>2, <2>3
<1>3. CASE StartCancelled
  <2>1. Stages' BY <1>3 DEF Stages, StartCancelled
  <2>2. Flags' BY <1>3 DEF Flags, StartCancelled
  <2>3. Room' BY <1>3, PiAssumption DEF Room, StartCancelled
  <2> QED BY <2>1, <2>2, <2>3
<1>4. CASE StartEscapes
  <2>1. Stages' BY <1>4 DEF Stages, StartEscapes
  <2>2. Flags' BY <1>4 DEF Flags, StartEscapes
  <2>3. Room' BY <1>4, PiAssumption DEF Room, StartEscapes
  <2> QED BY <2>1, <2>2, <2>3
<1>5. CASE StopCalled
  <2>1. Stages' BY <1>5 DEF Stages, StopCalled
  <2>2. Flags' BY <1>5 DEF Flags, StopCalled
  <2>3. Room' BY <1>5, PiAssumption DEF Room, StopCalled
  <2> QED BY <2>1, <2>2, <2>3
<1>6. CASE StopDropped
  <2>1. Stages' BY <1>6 DEF Stages, StopDropped
  <2>2. Flags' BY <1>6 DEF Flags, StopDropped
  <2>3. Room' BY <1>6, PiAssumption DEF Room, StopDropped
  <2> QED BY <2>1, <2>2, <2>3
<1> QED BY <1>1, <1>2, <1>3, <1>4, <1>5, <1>6 DEF Asking

(* The readers and the queue.                                              *)
LEMMA ReadingTyped == TypeOK /\ Reading => TypeOK'
<1> SUFFICES ASSUME Stages, Flags, Room, Reading PROVE Stages' /\ Flags' /\ Room'
  BY TypesSplit
<1> USE DEF startVars, processVars, channelVars, fileVars, readVars, runVars, stopVars,
       cleanVars, Refuse, Shutdown, ShutdownUnspawned
<1>1. CASE Observes
  <2>1. Stages' BY <1>1 DEF Stages, Observes
  <2>2. Flags' BY <1>1 DEF Flags, Observes
  <2>3. Room' BY <1>1, PiAssumption DEF Room, Observes
  <2> QED BY <2>1, <2>2, <2>3
<1>2. CASE Answered
  <2>1. Stages' BY <1>2 DEF Stages, Answered, InHand
  <2>2. Flags' BY <1>2 DEF Flags, Answered, InHand
  <2>3. Room' BY <1>2, PiAssumption DEF Room, Answered, InHand
  <2> QED BY <2>1, <2>2, <2>3
<1>3. CASE EventQueued
  <2>1. Stages' BY <1>3 DEF Stages, EventQueued, InHand
  <2>2. Flags' BY <1>3 DEF Flags, EventQueued, InHand
  <2>3. Room' BY <1>3, PiAssumption DEF Room, EventQueued, InHand
  <2> QED BY <2>1, <2>2, <2>3
<1>4. CASE ReaderBreaks
  <2>1. Stages' BY <1>4 DEF Stages, ReaderBreaks, Fail
  <2>2. Flags' BY <1>4 DEF Flags, ReaderBreaks, Fail
  <2>3. Room' BY <1>4, PiAssumption DEF Room, ReaderBreaks, Fail
  <2> QED BY <2>1, <2>2, <2>3
<1>5. CASE StderrEnds
  <2>1. Stages' BY <1>5 DEF Stages, StderrEnds, Fail
  <2>2. Flags' BY <1>5 DEF Flags, StderrEnds, Fail
  <2>3. Room' BY <1>5, PiAssumption DEF Room, StderrEnds, Fail
  <2> QED BY <2>1, <2>2, <2>3
<1> QED BY <1>1, <1>2, <1>3, <1>4, <1>5 DEF Reading, FrameDone

(* The completion task.                                                    *)
LEMMA RunningTyped == TypeOK /\ Running => TypeOK'
<1> SUFFICES ASSUME Stages, Flags, Room, Running PROVE Stages' /\ Flags' /\ Room'
  BY TypesSplit
<1> USE DEF startVars, processVars, channelVars, fileVars, readVars, runVars, stopVars,
       cleanVars, Refuse, Shutdown, ShutdownUnspawned
<1>1. CASE CallsOn
  <2>1. Stages' BY <1>1 DEF Stages, CallsOn, NextCall
  <2>2. Flags' BY <1>1 DEF Flags, CallsOn, NextCall
  <2>3. Room' BY <1>1, PiAssumption DEF Room, CallsOn, NextCall
  <2> QED BY <2>1, <2>2, <2>3
<1>2. CASE Prompted
  <2>1. Stages' BY <1>2 DEF Stages, Prompted
  <2>2. Flags' BY <1>2 DEF Flags, Prompted
  <2>3. Room' BY <1>2, PiAssumption DEF Room, Prompted
  <2> QED BY <2>1, <2>2, <2>3
<1>3. CASE ResultTaken
  <2>1. Stages' BY <1>3 DEF Stages, ResultTaken
  <2>2. Flags' BY <1>3 DEF Flags, ResultTaken
  <2>3. Room' BY <1>3, PiAssumption DEF Room, ResultTaken
  <2> QED BY <2>1, <2>2, <2>3
<1>4. CASE AnswerUnfit
  <2>1. Stages' BY <1>4 DEF Stages, AnswerUnfit, Fails
  <2>2. Flags' BY <1>4 DEF Flags, AnswerUnfit, Fails
  <2>3. Room' BY <1>4, PiAssumption DEF Room, AnswerUnfit, Fails
  <2> QED BY <2>1, <2>2, <2>3
<1>5. CASE CallFails
  <2>1. Stages' BY <1>5 DEF Stages, CallFails, Fails
  <2>2. Flags' BY <1>5 DEF Flags, CallFails, Fails
  <2>3. Room' BY <1>5, PiAssumption DEF Room, CallFails, Fails
  <2> QED BY <2>1, <2>2, <2>3
<1>6. CASE EventNoted
  <2>1. Stages' BY <1>6 DEF Stages, EventNoted, Dequeue
  <2>2. Flags' BY <1>6 DEF Flags, EventNoted, Dequeue
  <2>3. Room' BY <1>6, PiAssumption DEF Room, EventNoted, Dequeue
  <2> QED BY <2>1, <2>2, <2>3
<1>7. CASE AgentSettled
  <2>1. Stages' BY <1>7 DEF Stages, AgentSettled, Dequeue, NextCall
  <2>2. Flags' BY <1>7 DEF Flags, AgentSettled, Dequeue, NextCall
  <2>3. Room' BY <1>7, PiAssumption DEF Room, AgentSettled, Dequeue, NextCall
  <2> QED BY <2>1, <2>2, <2>3
<1>8. CASE EventFails
  <2>1. Stages' BY <1>8 DEF Stages, EventFails, Dequeue, Fails
  <2>2. Flags' BY <1>8 DEF Flags, EventFails, Dequeue, Fails
  <2>3. Room' BY <1>8, PiAssumption DEF Room, EventFails, Dequeue, Fails
  <2> QED BY <2>1, <2>2, <2>3
<1>9. CASE ListeningEnds
  <2>1. Stages' BY <1>9 DEF Stages, ListeningEnds, Fails
  <2>2. Flags' BY <1>9 DEF Flags, ListeningEnds, Fails
  <2>3. Room' BY <1>9, PiAssumption DEF Room, ListeningEnds, Fails
  <2> QED BY <2>1, <2>2, <2>3
<1>10. CASE RunStopped
  <2>1. Stages' BY <1>10 DEF Stages, RunStopped, Verdict
  <2>2. Flags' BY <1>10 DEF Flags, RunStopped, Verdict
  <2>3. Room' BY <1>10, PiAssumption DEF Room, RunStopped, Verdict
  <2> QED BY <2>1, <2>2, <2>3
<1>11. CASE RunFinished
  <2>1. Stages' BY <1>11 DEF Stages, RunFinished, ObserverFinality
  <2>2. Flags' BY <1>11 DEF Flags, RunFinished, ObserverFinality
  <2>3. Room' BY <1>11, PiAssumption DEF Room, RunFinished, ObserverFinality
  <2> QED BY <2>1, <2>2, <2>3
<1> QED
  BY <1>1, <1>2, <1>3, <1>4, <1>5, <1>6, <1>7, <1>8, <1>9, <1>10, <1>11
  DEF Running, Calling

(* The cleanup.                                                            *)
LEMMA CleaningTyped == TypeOK /\ Cleaning => TypeOK'
<1> SUFFICES ASSUME Stages, Flags, Room, Cleaning PROVE Stages' /\ Flags' /\ Room'
  BY TypesSplit
<1> USE DEF startVars, processVars, channelVars, fileVars, readVars, runVars, stopVars,
       cleanVars, Refuse, Shutdown, ShutdownUnspawned
<1>1. CASE Discovers
  <2>1. Stages'
    <3>1. cleanup' \in {"aborting", "term"} BY <1>1, Zenon DEF Discovers
    <3>2. base' \in {base, "unproven"} BY <1>1, Zenon DEF Discovers
    <3>3. UNCHANGED <<startVars, leader, child, escapee, channelVars, fileVars, observer,
                      readVars, runVars, stopVars, abortFirst, proof>>
      BY <1>1 DEF Discovers
    <3> QED BY <3>1, <3>2, <3>3 DEF Stages
  <2>2. Flags' BY <1>1 DEF Flags, Discovers
  <2>3. Room' BY <1>1, PiAssumption DEF Room, Discovers
  <2> QED BY <2>1, <2>2, <2>3
<1>2. CASE AbortEnds
  <2>1. Stages' BY <1>2 DEF Stages, AbortEnds
  <2>2. Flags' BY <1>2 DEF Flags, AbortEnds
  <2>3. Room' BY <1>2, PiAssumption DEF Room, AbortEnds
  <2> QED BY <2>1, <2>2, <2>3
<1>3. CASE Escalates
  <2>1. Stages' BY <1>3 DEF Stages, Escalates
  <2>2. Flags' BY <1>3 DEF Flags, Escalates
  <2>3. Room' BY <1>3, PiAssumption DEF Room, Escalates
  <2> QED BY <2>1, <2>2, <2>3
<1>4. CASE GroupsEnded
  <2>1. Stages' BY <1>4 DEF Stages, GroupsEnded, CancelReaders
  <2>2. Flags' BY <1>4 DEF Flags, GroupsEnded, CancelReaders
  <2>3. Room' BY <1>4, PiAssumption DEF Room, GroupsEnded, CancelReaders
  <2> QED BY <2>1, <2>2, <2>3
<1>5. CASE ReadersJoined
  <2>1. Stages' BY <1>5 DEF Stages, ReadersJoined
  <2>2. Flags' BY <1>5 DEF Flags, ReadersJoined
  <2>3. Room' BY <1>5, PiAssumption DEF Room, ReadersJoined
  <2> QED BY <2>1, <2>2, <2>3
<1>6. CASE ChannelSettles
  <2>1. Stages' BY <1>6 DEF Stages, ChannelSettles, Settled
  <2>2. Flags' BY <1>6 DEF Flags, ChannelSettles, Settled
  <2>3. Room' BY <1>6, PiAssumption DEF Room, ChannelSettles, Settled
  <2> QED BY <2>1, <2>2, <2>3
<1> QED BY <1>1, <1>2, <1>3, <1>4, <1>5, <1>6 DEF Cleaning

(* Every part of start keeps the invariant. *)
LEMMA StartingKeeps == TypeOK /\ PiInv /\ Starting => PiInv'
<1> SUFFICES ASSUME TypeOK, PiInv, Starting PROVE PiInv'
  OBVIOUS
<1> USE DEF PiInv, TypeOK, Unopened, Unspawned, BootInv, ChannelInv, CleanupInv,
       RunInv, GroupsAlive, startVars, processVars, channelVars, fileVars, readVars,
       runVars, stopVars, cleanVars, Prepared, Refuse, Shutdown, ShutdownUnspawned
<1>1. CASE Materializes BY <1>1 DEF Materializes
<1>2. CASE Materialized BY <1>2 DEF Materialized
<1>3. CASE ChannelOpens BY <1>3 DEF ChannelOpens
<1>4. CASE ChannelStarted
  <2>1. BootInv' BY <1>4 DEF ChannelStarted
  <2>2. ChannelInv' BY <1>4 DEF ChannelStarted
  <2>3. CleanupInv' BY <1>4 DEF ChannelStarted
  <2>4. RunInv' BY <1>4 DEF ChannelStarted
  <2> QED BY <2>1, <2>2, <2>3, <2>4
<1>5. CASE LaunchRejected
  <2>1. BootInv' BY <1>5 DEF LaunchRejected
  <2>2. ChannelInv' BY <1>5 DEF LaunchRejected
  <2>3. CleanupInv' BY <1>5 DEF LaunchRejected
  <2>4. RunInv' BY <1>5 DEF LaunchRejected
  <2> QED BY <2>1, <2>2, <2>3, <2>4
<1>6. CASE ChannelDropped
  <2>1. BootInv' BY <1>6 DEF ChannelDropped
  <2>2. ChannelInv' BY <1>6 DEF ChannelDropped
  <2>3. CleanupInv' BY <1>6 DEF ChannelDropped
  <2>4. RunInv' BY <1>6 DEF ChannelDropped
  <2> QED BY <2>1, <2>2, <2>3, <2>4
<1>7. CASE TransportBuilt
  <2>1. BootInv' BY <1>7 DEF TransportBuilt
  <2>2. ChannelInv' BY <1>7 DEF TransportBuilt
  <2>3. CleanupInv' BY <1>7 DEF TransportBuilt
  <2>4. RunInv' BY <1>7 DEF TransportBuilt
  <2> QED BY <2>1, <2>2, <2>3, <2>4
<1>8. CASE SpawnFails
  <2>1. BootInv' BY <1>8 DEF SpawnFails
  <2>2. ChannelInv' BY <1>8 DEF SpawnFails
  <2>3. CleanupInv' BY <1>8 DEF SpawnFails
  <2>4. RunInv' BY <1>8 DEF SpawnFails
  <2> QED BY <2>1, <2>2, <2>3, <2>4
<1>9. CASE Spawned
  <2>1. BootInv' BY <1>9 DEF Spawned
  <2>2. ChannelInv' BY <1>9 DEF Spawned
  <2>3. CleanupInv' BY <1>9 DEF Spawned
  <2>4. RunInv' BY <1>9 DEF Spawned
  <2> QED BY <2>1, <2>2, <2>3, <2>4
<1>10. CASE Verified
  <2>1. BootInv' BY <1>10 DEF Verified
  <2>2. ChannelInv' BY <1>10 DEF Verified
  <2>3. CleanupInv' BY <1>10 DEF Verified
  <2>4. RunInv' BY <1>10 DEF Verified
  <2> QED BY <2>1, <2>2, <2>3, <2>4
<1>11. CASE StartAborted
  <2>1. BootInv' BY <1>11 DEF StartAborted
  <2>2. ChannelInv' BY <1>11 DEF StartAborted
  <2>3. CleanupInv' BY <1>11 DEF StartAborted
  <2>4. RunInv' BY <1>11 DEF StartAborted
  <2> QED BY <2>1, <2>2, <2>3, <2>4
<1> QED BY <1>1, <1>2, <1>3, <1>4, <1>5, <1>6, <1>7, <1>8, <1>9, <1>10, <1>11 DEF Starting

(* So does the host, whatever it asks for and gives up. *)
LEMMA AskingKeeps == TypeOK /\ PiInv /\ Asking => PiInv'
<1> SUFFICES ASSUME TypeOK, PiInv, Asking PROVE PiInv'
  OBVIOUS
<1> USE DEF PiInv, TypeOK, Unopened, Unspawned, BootInv, ChannelInv, CleanupInv,
       RunInv, GroupsAlive, startVars, processVars, channelVars, fileVars, readVars,
       runVars, stopVars, cleanVars, Prepared, Refuse, Shutdown, ShutdownUnspawned
<1>1. CASE StartCalled BY <1>1 DEF StartCalled
<1>2. CASE StartRefuses BY <1>2 DEF StartRefuses
<1>3. CASE StartCancelled BY <1>3 DEF StartCancelled
<1>4. CASE StartEscapes BY <1>4 DEF StartEscapes
<1>5. CASE StopCalled
  <2>1. BootInv' BY <1>5 DEF StopCalled
  <2>2. ChannelInv' BY <1>5 DEF StopCalled
  <2>3. CleanupInv' BY <1>5 DEF StopCalled
  <2>4. RunInv' BY <1>5 DEF StopCalled
  <2> QED BY <2>1, <2>2, <2>3, <2>4
<1>6. CASE StopDropped BY <1>6 DEF StopDropped
<1> QED BY <1>1, <1>2, <1>3, <1>4, <1>5, <1>6 DEF Asking

(* So do the readers; a frame in hand when its reader is cancelled is their last. *)
LEMMA ReadingKeeps == TypeOK /\ PiInv /\ Reading => PiInv'
<1> SUFFICES ASSUME TypeOK, PiInv, Reading PROVE PiInv'
  OBVIOUS
<1> USE DEF PiInv, TypeOK, Unopened, Unspawned, BootInv, ChannelInv, CleanupInv,
       RunInv, GroupsAlive, startVars, processVars, channelVars, fileVars, readVars,
       runVars, stopVars, cleanVars, Prepared, Refuse, Shutdown, ShutdownUnspawned
<1>1. CASE Observes BY <1>1 DEF Observes
<1>2. CASE Answered
  <2>1. BootInv' BY <1>2 DEF Answered, InHand
  <2>2. ChannelInv' BY <1>2 DEF Answered, InHand
  <2>3. CleanupInv' BY <1>2 DEF Answered, InHand
  <2>4. RunInv' BY <1>2 DEF Answered, InHand
  <2> QED BY <2>1, <2>2, <2>3, <2>4
<1>3. CASE EventQueued
  <2>1. BootInv' BY <1>3 DEF EventQueued, InHand
  <2>2. ChannelInv' BY <1>3 DEF EventQueued, InHand
  <2>3. CleanupInv' BY <1>3 DEF EventQueued, InHand
  <2>4. RunInv' BY <1>3 DEF EventQueued, InHand
  <2> QED BY <2>1, <2>2, <2>3, <2>4
<1>4. CASE ReaderBreaks
  <2>1. BootInv' BY <1>4 DEF ReaderBreaks, Fail
  <2>2. ChannelInv' BY <1>4 DEF ReaderBreaks, Fail
  <2>3. CleanupInv' BY <1>4 DEF ReaderBreaks, Fail
  <2>4. RunInv' BY <1>4 DEF ReaderBreaks, Fail
  <2> QED BY <2>1, <2>2, <2>3, <2>4
<1>5. CASE StderrEnds
  <2>1. BootInv' BY <1>5 DEF StderrEnds, Fail
  <2>2. ChannelInv' BY <1>5 DEF StderrEnds, Fail
  <2>3. CleanupInv' BY <1>5 DEF StderrEnds, Fail
  <2>4. RunInv' BY <1>5 DEF StderrEnds, Fail
  <2> QED BY <2>1, <2>2, <2>3, <2>4
<1> QED BY <1>1, <1>2, <1>3, <1>4, <1>5 DEF Reading, FrameDone

(* So does the completion task. *)
LEMMA RunningKeeps == TypeOK /\ PiInv /\ Running => PiInv'
<1> SUFFICES ASSUME TypeOK, PiInv, Running PROVE PiInv'
  OBVIOUS
<1> USE DEF PiInv, TypeOK, Unopened, Unspawned, BootInv, ChannelInv, CleanupInv,
       RunInv, GroupsAlive, startVars, processVars, channelVars, fileVars, readVars,
       runVars, stopVars, cleanVars, Prepared, Refuse, Shutdown, ShutdownUnspawned
<1>1. CASE CallsOn BY <1>1 DEF CallsOn, NextCall
<1>2. CASE Prompted BY <1>2 DEF Prompted
<1>3. CASE ResultTaken
  <2>1. BootInv' BY <1>3 DEF ResultTaken
  <2>2. ChannelInv' BY <1>3 DEF ResultTaken
  <2>3. CleanupInv' BY <1>3 DEF ResultTaken
  <2>4. RunInv' BY <1>3 DEF ResultTaken
  <2> QED BY <2>1, <2>2, <2>3, <2>4
<1>4. CASE AnswerUnfit
  <2>1. BootInv' BY <1>4 DEF AnswerUnfit, Fails
  <2>2. ChannelInv' BY <1>4 DEF AnswerUnfit, Fails
  <2>3. CleanupInv' BY <1>4 DEF AnswerUnfit, Fails
  <2>4. RunInv' BY <1>4 DEF AnswerUnfit, Fails
  <2> QED BY <2>1, <2>2, <2>3, <2>4
<1>5. CASE CallFails
  <2>1. BootInv' BY <1>5 DEF CallFails, Fails
  <2>2. ChannelInv' BY <1>5 DEF CallFails, Fails
  <2>3. CleanupInv' BY <1>5 DEF CallFails, Fails
  <2>4. RunInv' BY <1>5 DEF CallFails, Fails
  <2> QED BY <2>1, <2>2, <2>3, <2>4
<1>6. CASE EventNoted
  <2>1. BootInv' BY <1>6 DEF EventNoted, Dequeue
  <2>2. ChannelInv' BY <1>6 DEF EventNoted, Dequeue
  <2>3. CleanupInv' BY <1>6 DEF EventNoted, Dequeue
  <2>4. RunInv' BY <1>6 DEF EventNoted, Dequeue
  <2> QED BY <2>1, <2>2, <2>3, <2>4
<1>7. CASE AgentSettled
  <2>1. BootInv' BY <1>7 DEF AgentSettled, Dequeue, NextCall
  <2>2. ChannelInv' BY <1>7 DEF AgentSettled, Dequeue, NextCall
  <2>3. CleanupInv' BY <1>7 DEF AgentSettled, Dequeue, NextCall
  <2>4. RunInv' BY <1>7 DEF AgentSettled, Dequeue, NextCall
  <2> QED BY <2>1, <2>2, <2>3, <2>4
<1>8. CASE EventFails
  <2>1. BootInv' BY <1>8 DEF EventFails, Dequeue, Fails
  <2>2. ChannelInv' BY <1>8 DEF EventFails, Dequeue, Fails
  <2>3. CleanupInv' BY <1>8 DEF EventFails, Dequeue, Fails
  <2>4. RunInv' BY <1>8 DEF EventFails, Dequeue, Fails
  <2> QED BY <2>1, <2>2, <2>3, <2>4
<1>9. CASE ListeningEnds
  <2>1. BootInv' BY <1>9 DEF ListeningEnds, Fails
  <2>2. ChannelInv' BY <1>9 DEF ListeningEnds, Fails
  <2>3. CleanupInv' BY <1>9 DEF ListeningEnds, Fails
  <2>4. RunInv' BY <1>9 DEF ListeningEnds, Fails
  <2> QED BY <2>1, <2>2, <2>3, <2>4
<1>10. CASE RunStopped
  <2>1. BootInv' BY <1>10 DEF RunStopped, Verdict
  <2>2. ChannelInv' BY <1>10 DEF RunStopped, Verdict
  <2>3. CleanupInv' BY <1>10 DEF RunStopped, Verdict
  <2>4. RunInv' BY <1>10 DEF RunStopped, Verdict
  <2> QED BY <2>1, <2>2, <2>3, <2>4
<1>11. CASE RunFinished
  <2>1. BootInv' BY <1>11 DEF RunFinished, ObserverFinality
  <2>2. ChannelInv' BY <1>11 DEF RunFinished, ObserverFinality
  <2>3. CleanupInv' BY <1>11 DEF RunFinished, ObserverFinality
  <2>4. RunInv' BY <1>11 DEF RunFinished, ObserverFinality
  <2> QED BY <2>1, <2>2, <2>3, <2>4
<1> QED
  BY <1>1, <1>2, <1>3, <1>4, <1>5, <1>6, <1>7, <1>8, <1>9, <1>10, <1>11
  DEF Running, Calling

(* So does the one cleanup. *)
LEMMA CleaningKeeps == TypeOK /\ PiInv /\ Cleaning => PiInv'
<1> SUFFICES ASSUME TypeOK, PiInv, Cleaning PROVE PiInv'
  OBVIOUS
<1> USE DEF PiInv, TypeOK, Unopened, Unspawned, BootInv, ChannelInv, CleanupInv,
       RunInv, GroupsAlive, startVars, processVars, channelVars, fileVars, readVars,
       runVars, stopVars, cleanVars, Prepared, Refuse, Shutdown, ShutdownUnspawned
<1>1. CASE Discovers
  <2>1. BootInv' BY <1>1 DEF Discovers
  <2>2. ChannelInv' BY <1>1 DEF Discovers
  <2>3. CleanupInv' BY <1>1 DEF Discovers
  <2>4. RunInv' BY <1>1 DEF Discovers
  <2> QED BY <2>1, <2>2, <2>3, <2>4
<1>2. CASE AbortEnds BY <1>2 DEF AbortEnds
<1>3. CASE Escalates BY <1>3 DEF Escalates
<1>4. CASE GroupsEnded
  <2>1. BootInv' BY <1>4 DEF GroupsEnded, CancelReaders
  <2>2. ChannelInv' BY <1>4 DEF GroupsEnded, CancelReaders
  <2>3. CleanupInv' BY <1>4 DEF GroupsEnded, CancelReaders
  <2>4. RunInv' BY <1>4 DEF GroupsEnded, CancelReaders
  <2> QED BY <2>1, <2>2, <2>3, <2>4
<1>5. CASE ReadersJoined
  <2>1. BootInv' BY <1>5 DEF ReadersJoined
  <2>2. ChannelInv' BY <1>5 DEF ReadersJoined
  <2>3. CleanupInv' BY <1>5 DEF ReadersJoined
  <2>4. RunInv' BY <1>5 DEF ReadersJoined
  <2> QED BY <2>1, <2>2, <2>3, <2>4
<1>6. CASE ChannelSettles
  <2>1. BootInv' BY <1>6 DEF ChannelSettles, Settled
  <2>2. ChannelInv' BY <1>6 DEF ChannelSettles, Settled
  <2>3. CleanupInv' BY <1>6 DEF ChannelSettles, Settled
  <2>4. RunInv' BY <1>6 DEF ChannelSettles, Settled
  <2> QED BY <2>1, <2>2, <2>3, <2>4
<1> QED BY <1>1, <1>2, <1>3, <1>4, <1>5, <1>6 DEF Cleaning

(* The processes and the answer of stop.                                   *)
Outside == Forks \/ Exits \/ StopAnswers

(* Neither leaves its types.                                               *)
LEMMA OutsideTyped == TypeOK /\ Outside => TypeOK'
<1> SUFFICES ASSUME Stages, Flags, Room, Outside PROVE Stages' /\ Flags' /\ Room'
  BY TypesSplit
<1> USE DEF startVars, processVars, channelVars, fileVars, readVars, runVars, stopVars,
       cleanVars
<1>1. CASE Forks
  <2>1. Stages' BY <1>1 DEF Stages, Forks
  <2>2. Flags' BY <1>1 DEF Flags, Forks
  <2>3. Room' BY <1>1 DEF Room, Forks
  <2> QED BY <2>1, <2>2, <2>3
<1>2. CASE Exits
  <2>1. Stages' BY <1>2 DEF Stages, Exits
  <2>2. Flags' BY <1>2 DEF Flags, Exits
  <2>3. Room' BY <1>2 DEF Room, Exits
  <2> QED BY <2>1, <2>2, <2>3
<1>3. CASE StopAnswers
  <2>1. Stages' BY <1>3 DEF Stages, StopAnswers
  <2>2. Flags' BY <1>3 DEF Flags, StopAnswers
  <2>3. Room' BY <1>3 DEF Room, StopAnswers
  <2> QED BY <2>1, <2>2, <2>3
<1> QED BY <1>1, <1>2, <1>3 DEF Outside

(* A group that is gone stays gone; stop answers after everyone else.      *)
LEMMA OutsideKeeps == TypeOK /\ PiInv /\ Outside => PiInv'
<1> SUFFICES ASSUME TypeOK, PiInv, Outside PROVE PiInv'
  OBVIOUS
<1> USE DEF PiInv, TypeOK, Unopened, Unspawned, BootInv, ChannelInv, CleanupInv,
       RunInv, GroupsAlive, startVars, processVars, channelVars, fileVars, readVars,
       runVars, stopVars, cleanVars
<1>1. CASE Forks
  <2>1. BootInv' BY <1>1 DEF Forks
  <2>2. ChannelInv' BY <1>1 DEF Forks
  <2>3. CleanupInv' BY <1>1 DEF Forks
  <2>4. RunInv' BY <1>1 DEF Forks
  <2> QED BY <2>1, <2>2, <2>3, <2>4
<1>2. CASE Exits
  <2>1. BootInv' BY <1>2 DEF Exits
  <2>2. ChannelInv' BY <1>2 DEF Exits
  <2>3. CleanupInv' BY <1>2 DEF Exits
  <2>4. RunInv' BY <1>2 DEF Exits
  <2> QED BY <2>1, <2>2, <2>3, <2>4
<1>3. CASE StopAnswers
  <2>1. BootInv' BY <1>3 DEF StopAnswers
  <2>2. ChannelInv' BY <1>3 DEF StopAnswers
  <2>3. CleanupInv' BY <1>3 DEF StopAnswers
  <2>4. RunInv' BY <1>3 DEF StopAnswers
  <2> QED BY <2>1, <2>2, <2>3, <2>4
<1> QED BY <1>1, <1>2, <1>3 DEF Outside

-----------------------------------------------------------------------------
(* Everything stays within its type (the states the module's enums and     *)
(* flags may take), in every Pi session.                                   *)
THEOREM PiTyped == Spec => []TypeOK
<1>1. Init => TypeOK
  BY SessionStarts
<1>2. TypeOK /\ [Next]_vars => TypeOK'
  <2> SUFFICES ASSUME TypeOK, [Next]_vars PROVE TypeOK'
    OBVIOUS
  <2>1. CASE UNCHANGED vars
    BY <2>1 DEF TypeOK, vars, startVars, processVars, channelVars, fileVars, readVars,
       runVars, stopVars, cleanVars
  <2> QED
    BY <2>1, StartingTyped, AskingTyped, ReadingTyped, RunningTyped, CleaningTyped,
       OutsideTyped DEF Next, Outside
<1> QED
  BY <1>1, <1>2, PTL DEF Spec

(* The invariant holds throughout, whatever QueueBound and whichever       *)
(* faults there are.                                                       *)
THEOREM PiIsInductive == Spec => []PiInv
<1>1. Init => PiInv
  BY SessionStarts
<1>2. TypeOK /\ PiInv /\ [Next]_vars => PiInv'
  <2> SUFFICES ASSUME TypeOK, PiInv, [Next]_vars PROVE PiInv'
    OBVIOUS
  <2>1. CASE UNCHANGED vars
    BY <2>1 DEF PiInv, Unopened, Unspawned, BootInv, ChannelInv, CleanupInv, RunInv,
       GroupsAlive, vars, startVars, processVars, channelVars, fileVars, readVars,
       runVars, stopVars, cleanVars
  <2> QED
    BY <2>1, StartingKeeps, AskingKeeps, ReadingKeeps, RunningKeeps, CleaningKeeps,
       OutsideKeeps DEF Next, Outside
<1> QED
  BY <1>1, <1>2, PiTyped, PTL DEF Spec

(* Readers, evidence, channel, proof and observer end in one order         *)
(* whichever tasks ask for the end (_shutdown_impl, finalize_observer).    *)
THEOREM FinalityComesInOrder == Spec => []FinalityInOrder
<1>1. TypeOK /\ PiInv => FinalityInOrder
  BY DEF TypeOK, PiInv, BootInv, ChannelInv, CleanupInv, RunInv, FinalityInOrder
<1> QED
  BY <1>1, PiTyped, PiIsInductive, PTL

(* A host with an answer, from stop or from a start that failed, has       *)
(* nothing of the adapter at work behind it.                               *)
THEOREM PiAnswersAreFinal == Spec => []AnswerLeavesNothingBehind
<1>1. TypeOK /\ PiInv => AnswerLeavesNothingBehind
  <2> SUFFICES ASSUME TypeOK, PiInv, answer # "none"
               PROVE  /\ run \in {"none", "done"} /\ reader \in {"none", "ended"}
                      /\ cleanup \in {"none", "done"}
                      /\ channel \in {"none", "sealed", "aborted", "failed"} /\ ~fds
    BY DEF AnswerLeavesNothingBehind
  <2>1. CASE boot = "published"
    BY <2>1 DEF PiInv, ChannelInv, CleanupInv, RunInv
  <2>2. CASE boot = "refused"
    BY <2>2 DEF PiInv, BootInv, ChannelInv, CleanupInv
  <2> QED BY <2>1, <2>2 DEF PiInv, RunInv
<1> QED
  BY <1>1, PiTyped, PiIsInductive, PTL

(* A reported success has a process that is proven gone, whole evidence, a *)
(* sealed channel and a finalized observer (_run_guarded).                 *)
THEOREM PiSuccessesAreProven == Spec => []SuccessIsProven
<1>1. TypeOK /\ PiInv => SuccessIsProven
  BY DEF TypeOK, PiInv, ChannelInv, CleanupInv, RunInv, SuccessIsProven
<1> QED
  BY <1>1, PiTyped, PiIsInductive, PTL

-----------------------------------------------------------------------------
(* What of a step the host can see.                                        *)
Visible == <<leader, child, escapee, found, answer, outcome>>

(* A step inside start, or one that leaves start alone, is not seen.       *)
LEMMA Unseen ==
  ASSUME UNCHANGED Visible,
         \/ /\ boot \notin {"idle", "published", "refused"}
            /\ boot' \notin {"idle", "published", "refused"}
         \/ boot' = boot
  PROVE  UNCHANGED Backend!backendVars
BY DEF Visible, Backend!backendVars, GroupsAlive

(* A refusal whose proof is true.                                          *)
LEMMA RefusalRefines ==
  ASSUME boot \notin {"idle", "published", "refused"}, boot' = "refused",
         answer' \in {"proven", "unproven"}, answer' = "proven" => ~GroupsAlive,
         UNCHANGED <<leader, child, escapee, found, outcome>>
  PROVE  Backend!Next
<1>1. Backend!Refuse BY DEF Backend!Refuse, GroupsAlive
<1> QED BY <1>1 DEF Backend!Next

(* Before the spawn there is nobody to be alive.                           *)
LEMMA NobodyBeforeSpawn == PiInv /\ leader = "absent" => ~GroupsAlive
BY DEF PiInv, BootInv, GroupsAlive

(* start: the spawn is Spawn, the handle is Publish, an end is Refuse.     *)
LEMMA StartingRefines == TypeOK /\ PiInv /\ Starting => [Backend!Next]_(Backend!backendVars)
<1> SUFFICES ASSUME TypeOK, PiInv, Starting PROVE [Backend!Next]_(Backend!backendVars)
  OBVIOUS
<1> USE DEF startVars, processVars, runVars, Visible
<1>1. CASE Materializes BY <1>1, Unseen DEF Materializes, Prepared
<1>2. CASE Materialized BY <1>2, Unseen DEF Materialized
<1>3. CASE ChannelOpens BY <1>3, Unseen DEF ChannelOpens, Prepared
<1>4. CASE ChannelStarted BY <1>4, Unseen DEF ChannelStarted
<1>5. CASE LaunchRejected BY <1>5, Unseen DEF LaunchRejected
<1>6. CASE ChannelDropped
  <2>1. boot = "dropping" /\ boot' = "refused" /\ answer' = "proven"
    BY <1>6 DEF ChannelDropped, Refuse
  <2>2. UNCHANGED <<leader, child, escapee, found, outcome>>
    BY <1>6 DEF ChannelDropped
  <2>3. ~GroupsAlive
    BY <2>1, NobodyBeforeSpawn DEF PiInv, BootInv, Unspawned
  <2> QED BY <2>1, <2>2, <2>3, RefusalRefines
<1>7. CASE TransportBuilt BY <1>7, Unseen DEF TransportBuilt, Prepared
<1>8. CASE SpawnFails BY <1>8, Unseen DEF SpawnFails
<1>9. CASE Spawned
  <2>1. /\ boot \in {"spawning", "joinSpawn"} /\ boot' \in {"verifying", "aborting"}
        /\ leader' = "alive"
    BY <1>9 DEF Spawned
  <2>2. UNCHANGED <<answer, outcome>> BY <1>9 DEF Spawned
  <2>3. Backend!Spawn BY <2>1, <2>2 DEF Backend!Spawn, GroupsAlive
  <2> QED BY <2>3 DEF Backend!Next
<1>10. CASE Verified
  <2>1. UNCHANGED <<leader, child, escapee, found, answer, outcome>>
    BY <1>10 DEF Verified
  <2>2. CASE boot' = "published"
    <3>1. boot = "verifying" BY <1>10, <2>2 DEF Verified
    <3>2. Backend!Publish BY <2>1, <2>2, <3>1 DEF Backend!Publish, GroupsAlive
    <3> QED BY <3>2 DEF Backend!Next
  <2>3. CASE boot' # "published" BY <1>10, <2>1, <2>3, Unseen DEF Verified
  <2> QED BY <2>2, <2>3
<1>11. CASE StartAborted
  <2>1. /\ boot \in {"aborting", "unspawned"} /\ boot' = "refused"
        /\ cleanup = "done" /\ answer' = proof
    BY <1>11 DEF StartAborted
  <2>2. UNCHANGED <<leader, child, escapee, found, outcome>>
    BY <1>11 DEF StartAborted
  <2>3. proof \in {"proven", "unproven"} /\ (proof = "proven" => ~GroupsAlive)
    BY <2>1 DEF TypeOK, PiInv, CleanupInv
  <2> QED BY <2>1, <2>2, <2>3, RefusalRefines
<1> QED
  BY <1>1, <1>2, <1>3, <1>4, <1>5, <1>6, <1>7, <1>8, <1>9, <1>10, <1>11 DEF Starting

(* The host's calls: the first is Call, a start refused before the spawn   *)
(* is Refuse; of a stop only the answer is seen.                           *)
LEMMA AskingRefines == TypeOK /\ PiInv /\ Asking => [Backend!Next]_(Backend!backendVars)
<1> SUFFICES ASSUME TypeOK, PiInv, Asking PROVE [Backend!Next]_(Backend!backendVars)
  OBVIOUS
<1> USE DEF startVars, processVars, runVars, Visible
<1>1. CASE StartCalled
  <2>1. boot = "idle" /\ boot' = "preparing" BY <1>1 DEF StartCalled
  <2>2. UNCHANGED <<leader, child, escapee, found, answer, outcome>>
    BY <1>1 DEF StartCalled
  <2>3. Backend!Call BY <2>1, <2>2 DEF Backend!Call, GroupsAlive
  <2> QED BY <2>3 DEF Backend!Next
<1>2. CASE StartRefuses
  <2>1. /\ boot \in {"preparing", "prepared", "materializing"} /\ boot' = "refused"
        /\ answer' = "proven"
    BY <1>2 DEF StartRefuses, Refuse, Prepared
  <2>2. UNCHANGED <<leader, child, escapee, found, outcome>>
    BY <1>2 DEF StartRefuses
  <2>3. ~GroupsAlive
    BY <2>1, NobodyBeforeSpawn DEF PiInv, BootInv, Unspawned, Unopened
  <2> QED BY <2>1, <2>2, <2>3, RefusalRefines
<1>3. CASE StartCancelled BY <1>3, Unseen DEF StartCancelled
<1>4. CASE StartEscapes BY <1>4, Unseen DEF StartEscapes
<1>5. CASE StopCalled BY <1>5, Unseen DEF StopCalled
<1>6. CASE StopDropped BY <1>6, Unseen DEF StopDropped
<1> QED BY <1>1, <1>2, <1>3, <1>4, <1>5, <1>6 DEF Asking

(* The readers are not seen.                                               *)
LEMMA ReadingRefines == Reading => UNCHANGED Backend!backendVars
<1> SUFFICES ASSUME Reading PROVE UNCHANGED Visible /\ boot' = boot
  BY Unseen
<1> USE DEF startVars, processVars, runVars, Visible
<1>1. CASE Observes BY <1>1 DEF Observes
<1>2. CASE Answered BY <1>2 DEF Answered
<1>3. CASE EventQueued BY <1>3 DEF EventQueued
<1>4. CASE ReaderBreaks BY <1>4 DEF ReaderBreaks
<1>5. CASE StderrEnds BY <1>5 DEF StderrEnds
<1> QED BY <1>1, <1>2, <1>3, <1>4, <1>5 DEF Reading, FrameDone

(* Of the completion task only the outcome is seen, which it delivers once. *)
LEMMA RunningRefines == TypeOK /\ PiInv /\ Running => [Backend!Next]_(Backend!backendVars)
<1> SUFFICES ASSUME TypeOK, PiInv, Running PROVE [Backend!Next]_(Backend!backendVars)
  OBVIOUS
<1> USE DEF startVars, processVars, runVars, Visible
<1>1. CASE RunFinished
  <2>1. UNCHANGED <<boot, leader, child, escapee, found, answer>>
    BY <1>1 DEF RunFinished
  <2>2. boot = "published" /\ outcome = "none"
    BY <1>1 DEF RunFinished, PiInv, BootInv, RunInv
  <2>3. verdict \in {"success", "failure"}
    BY <1>1 DEF RunFinished, TypeOK, PiInv, RunInv
  <2>4. outcome' \in {"success", "failure"}
    BY <1>1, <2>3 DEF RunFinished
  <2>5. Backend!Complete
    BY <2>1, <2>2, <2>4 DEF Backend!Complete, GroupsAlive
  <2> QED BY <2>5 DEF Backend!Next
<1>2. CASE Calling \/ EventNoted \/ AgentSettled \/ EventFails \/ ListeningEnds
           \/ RunStopped
  <2> SUFFICES UNCHANGED Visible /\ boot' = boot
    BY Unseen
  <2>1. CASE CallsOn \/ Prompted BY <2>1 DEF CallsOn, Prompted
  <2>2. CASE ResultTaken \/ AnswerUnfit BY <2>2 DEF ResultTaken, AnswerUnfit
  <2>3. CASE CallFails \/ ListeningEnds BY <2>3 DEF CallFails, ListeningEnds
  <2>4. CASE EventNoted \/ AgentSettled
    BY <2>4 DEF EventNoted, AgentSettled, Dequeue
  <2>5. CASE EventFails \/ RunStopped BY <2>5 DEF EventFails, RunStopped, Dequeue
  <2> QED BY <1>2, <2>1, <2>2, <2>3, <2>4, <2>5 DEF Calling
<1> QED BY <1>1, <1>2 DEF Running

(* Of the cleanup nothing is seen: a descendant is found only through a    *)
(* living parent.                                                          *)
LEMMA CleaningRefines == TypeOK /\ PiInv /\ Cleaning => [Backend!Next]_(Backend!backendVars)
<1> SUFFICES ASSUME TypeOK, PiInv, Cleaning PROVE UNCHANGED Backend!backendVars
  OBVIOUS
<1> USE DEF startVars, processVars, runVars, Visible
<1>1. CASE Discovers
  <2>1. UNCHANGED <<boot, leader, child, escapee, answer, outcome>>
    BY <1>1 DEF Discovers
  <2>2. ~found BY <1>1 DEF Discovers, PiInv, CleanupInv
  <2>3. found' => leader = "alive"
    BY <1>1, <2>2 DEF Discovers
  <2>4. GroupsAlive' = GroupsAlive
    BY <2>1, <2>2, <2>3 DEF GroupsAlive
  <2> QED BY <2>1, <2>4 DEF Backend!backendVars
<1>2. CASE AbortEnds BY <1>2, Unseen DEF AbortEnds
<1>3. CASE Escalates BY <1>3, Unseen DEF Escalates
<1>4. CASE GroupsEnded BY <1>4, Unseen DEF GroupsEnded
<1>5. CASE ReadersJoined BY <1>5, Unseen DEF ReadersJoined
<1>6. CASE ChannelSettles BY <1>6, Unseen DEF ChannelSettles
<1> QED BY <1>1, <1>2, <1>3, <1>4, <1>5, <1>6 DEF Cleaning

(* The last process to leave is Quiesce, an answer of stop is Stop.        *)
LEMMA OutsideRefines == TypeOK /\ PiInv /\ Outside => [Backend!Next]_(Backend!backendVars)
<1> SUFFICES ASSUME TypeOK, PiInv, Outside PROVE [Backend!Next]_(Backend!backendVars)
  OBVIOUS
<1> USE DEF startVars, processVars, runVars
<1>1. CASE Forks
  <2>1. leader = "alive" /\ UNCHANGED <<boot, leader, answer, outcome>>
    BY <1>1 DEF Forks
  <2> QED BY <2>1 DEF GroupsAlive, Backend!backendVars
<1>2. CASE Exits
  <2>1. UNCHANGED <<boot, found, answer, outcome>> BY <1>2 DEF Exits
  <2>2. CASE GroupsAlive'
    <3>1. GroupsAlive BY <1>2, <2>1, <2>2 DEF Exits, GroupsAlive
    <3> QED BY <2>1, <2>2, <3>1 DEF GroupsAlive, Backend!backendVars
  <2>3. CASE ~GroupsAlive'
    <3>1. Backend!Quiesce BY <2>1, <2>3 DEF Backend!Quiesce, GroupsAlive
    <3> QED BY <3>1 DEF Backend!Next
  <2> QED BY <2>2, <2>3
<1>3. CASE StopAnswers
  <2>1. /\ UNCHANGED <<boot, leader, child, escapee, found, outcome>>
        /\ answer' = proof /\ cleanup = "done" /\ stop = "stopping"
    BY <1>3 DEF StopAnswers
  <2>2. boot = "published" BY <2>1 DEF PiInv, BootInv
  <2>3. proof \in {"proven", "unproven"} /\ (proof = "proven" => ~GroupsAlive)
    BY <2>1 DEF TypeOK, PiInv, CleanupInv
  <2>4. answer = "proven" => proof = "proven"
    BY <2>2 DEF PiInv, RunInv
  <2>5. Backend!Stop
    BY <2>1, <2>2, <2>3, <2>4 DEF Backend!Stop, GroupsAlive
  <2> QED BY <2>5 DEF Backend!Next
<1> QED BY <1>1, <1>2, <1>3 DEF Outside

(* Every Pi session keeps the contract CohortRun assumes of a backend.     *)
THEOREM PiKeepsContract == Spec => ImplementsBackend
<1>1. Init => Backend!Init
  BY DEF Init, Backend!Init, GroupsAlive
<1>2. TypeOK /\ PiInv /\ [Next]_vars => [Backend!Next]_(Backend!backendVars)
  <2> SUFFICES ASSUME TypeOK, PiInv, [Next]_vars PROVE [Backend!Next]_(Backend!backendVars)
    OBVIOUS
  <2>1. CASE UNCHANGED vars
    BY <2>1, Unseen DEF vars, startVars, processVars, runVars, Visible
  <2> QED
    BY <2>1, StartingRefines, AskingRefines, ReadingRefines, RunningRefines,
       CleaningRefines, OutsideRefines DEF Next, Outside
<1> QED
  BY <1>1, <1>2, PiTyped, PiIsInductive, PTL
  DEF Spec, ImplementsBackend, Backend!Spec
===============================================================================

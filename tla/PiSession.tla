------------------------------ MODULE PiSession ------------------------------
(***************************************************************************)
(* One session of the Pi backend (runtime/pi.py): PiBackend.start, the     *)
(* _PiRpcTransport with its stdout and stderr readers, the                 *)
(* _RunningPiSession task, the host's stop, and the one terminal cleanup   *)
(* they all share.                                                         *)
(*                                                                         *)
(* The tasks run in one event loop and interleave at their awaits.  Frames *)
(* are told apart only as answer, event or bad; every wait with a timeout  *)
(* may time out; a tool channel and an observer may be configured or not.  *)
(***************************************************************************)
EXTENDS Naturals

CONSTANTS QueueBound,  \* _EVENT_QUEUE_CAPACITY
          Faults       \* from "evidence", "channel", "observer", "discovery"

ASSUME PiAssumption ==
  /\ QueueBound \in Nat \ {0}
  /\ Faults \subseteq {"evidence", "channel", "observer", "discovery"}

VARIABLES
  boot,       \* where start is
  writing,    \* the session materializer's thread is at work
  answer,     \* the last stop proof the host was given
  leader, child,    \* the process group: root process and one more member
  escapee, found,   \* a descendant in another group; _discover found it
  channel,    \* the tool channel's lifecycle
  fds,        \* the parent still holds the channel's pass_fds
  evidence,   \* the two evidence files: "none", "open" or "closed"
  writeFailed,
  observer,   \* "none", "open", "finalized", "failed" or "unproven"
  reader, errReader,    \* _reader_loop and _stderr_loop
  readerStop, \* reader_stop_requested
  queue,      \* length of event_queue
  failure,    \* the transport's first failure is set
  run,        \* where the completion task is
  ask,        \* its call in flight: "idle", "waiting", "answered", "broken"
  verdict,    \* the outcome before the observer's finality
  outcome,    \* what wait delivers
  stop, stopAsked,      \* the host's call of stop; stop_requested
  cleanup,    \* where shutdown_task is
  abortFirst, \* its argument, from whoever created it
  base,       \* the proof it will publish
  proof       \* stop_proof

startVars   == <<boot, writing, answer>>
processVars == <<leader, child, escapee, found>>
channelVars == <<channel, fds>>
fileVars    == <<evidence, writeFailed>>
readVars    == <<reader, errReader, readerStop, queue, failure>>
runVars     == <<run, ask, verdict, outcome>>
stopVars    == <<stop, stopAsked>>
cleanVars   == <<cleanup, abortFirst, base, proof>>
vars == <<startVars, processVars, channelVars, fileVars, observer, readVars,
          runVars, stopVars, cleanVars>>

(* The groups the cleanup may signal and look at. *)
GroupsAlive == leader = "alive" \/ child = "alive" \/ (found /\ escapee = "alive")

-----------------------------------------------------------------------------
Init ==
  /\ boot = "idle" /\ writing = FALSE /\ answer = "none"
  /\ leader = "absent" /\ child = "none" /\ escapee = "none" /\ found = FALSE
  /\ channel = "none" /\ fds = FALSE
  /\ evidence = "none" /\ writeFailed = FALSE /\ observer = "none"
  /\ reader = "none" /\ errReader = "none" /\ readerStop = FALSE
  /\ queue = 0 /\ failure = FALSE
  /\ run = "none" /\ ask = "idle" /\ verdict = "none" /\ outcome = "none"
  /\ stop = "idle" /\ stopAsked = FALSE
  /\ cleanup = "none" /\ abortFirst = FALSE /\ base = "none" /\ proof = "none"

(* shutdown: the first caller creates the task, everyone else joins it.    *)
Shutdown(abort) ==
  /\ IF cleanup = "none" THEN cleanup' = "discovering" /\ abortFirst' = abort
                         ELSE UNCHANGED <<cleanup, abortFirst>>
  /\ UNCHANGED <<base, proof>>

(* The same without a process: nothing to prove, the evidence is closed    *)
(* and the channel will be aborted.                                        *)
ShutdownUnspawned ==
  /\ cleanup' = "sealing" /\ base' = "proven"
  /\ UNCHANGED <<abortFirst, proof>>

(* start gives up without any process: it reports a positive proof.        *)
Refuse == boot' = "refused" /\ answer' = "proven"

-----------------------------------------------------------------------------
(* PiBackend.start up to the spawn. *)

StartCalled ==
  /\ boot = "idle" /\ boot' = "preparing"
  /\ UNCHANGED <<writing, answer, processVars, channelVars, fileVars, observer,
                 readVars, runVars, stopVars, cleanVars>>

(* The pins hold; a configured materializer writes the session's inputs in *)
(* a thread of its own.                                                    *)
Materializes ==
  /\ boot = "preparing" /\ boot' = "materializing" /\ writing' = TRUE
  /\ UNCHANGED <<answer, processVars, channelVars, fileVars, observer, readVars,
                 runVars, stopVars, cleanVars>>

(* The thread ends, whether or not start still waits for it.               *)
Materialized ==
  /\ writing /\ writing' = FALSE
  /\ boot' = IF boot = "materializing" THEN "prepared" ELSE boot
  /\ UNCHANGED <<answer, processVars, channelVars, fileVars, observer, readVars,
                 runVars, stopVars, cleanVars>>

Prepared == boot \in {"preparing", "prepared"}

(* A drifted pin, a failing materializer, a bad layout or prompt, or a     *)
(* cancellation: the pin check is joined, the materializer's thread not.   *)
StartRefuses ==
  /\ Prepared \/ boot = "materializing"
  /\ Refuse
  /\ UNCHANGED <<writing, processVars, channelVars, fileVars, observer, readVars,
                 runVars, stopVars, cleanVars>>

(* A configured tool channel is created and started.                       *)
ChannelOpens ==
  /\ Prepared /\ boot' = "tooling" /\ channel' = "starting"
  /\ UNCHANGED <<writing, answer, processVars, fds, fileVars, observer, readVars,
                 runVars, stopVars, cleanVars>>

(* The bounded channel start ends; whoever waits for it goes on.           *)
ChannelStarted ==
  /\ boot \in {"tooling", "joinTool"} /\ channel = "starting"
  /\ \/ /\ channel' = "open" /\ fds' = TRUE
        /\ boot' = IF boot = "tooling" THEN "tooled" ELSE "dropping"
     \/ /\ channel' = "broken" /\ boot' = "dropping" /\ UNCHANGED fds
  /\ UNCHANGED <<writing, answer, processVars, fileVars, observer, readVars,
                 runVars, stopVars, cleanVars>>

StartCancelled ==
  /\ \/ boot = "tooling"   /\ boot' = "joinTool"
     \/ boot = "spawning"  /\ boot' = "joinSpawn"
     \/ boot = "verifying" /\ boot' = "joinVerify"
  /\ UNCHANGED <<writing, answer, processVars, channelVars, fileVars, observer,
                 readVars, runVars, stopVars, cleanVars>>

(* The launch does not fit, or the evidence files cannot be created: there *)
(* is no transport yet.                                                    *)
LaunchRejected ==
  /\ boot = "tooled" /\ boot' = "dropping"
  /\ UNCHANGED <<writing, answer, processVars, channelVars, fileVars, observer,
                 readVars, runVars, stopVars, cleanVars>>

(* _abort_tool_channel_despite_cancellation: the unclaimed descriptors are *)
(* closed and the bounded abort joined, whatever it returns.               *)
ChannelDropped ==
  /\ boot = "dropping" /\ Refuse
  /\ fds' = FALSE /\ channel' \in {"aborted", "failed"}
  /\ UNCHANGED <<writing, processVars, fileVars, observer, readVars, runVars,
                 stopVars, cleanVars>>

(* The transport opens its evidence files; an observer may be installed.   *)
TransportBuilt ==
  /\ Prepared \/ boot = "tooled"
  /\ evidence' = "open"
  /\ \/ boot' = "spawning" /\ observer' \in {"none", "open"} /\ UNCHANGED cleanVars
     \/ boot' = "unspawned" /\ UNCHANGED observer /\ ShutdownUnspawned
  /\ UNCHANGED <<writing, answer, processVars, channelVars, writeFailed, readVars,
                 runVars, stopVars>>

-----------------------------------------------------------------------------
(* The spawn and what follows it. *)

(* No process: the evidence is aborted, the descriptors are closed.  A     *)
(* failed start awaits the cleanup unshielded, a cancelled one joins it.   *)
SpawnFails ==
  /\ boot \in {"spawning", "joinSpawn"}
  /\ boot' = IF boot = "spawning" THEN "unspawned" ELSE "aborting"
  /\ evidence' = "closed" /\ fds' = FALSE
  /\ ShutdownUnspawned
  /\ UNCHANGED <<writing, answer, processVars, channel, writeFailed, observer,
                 readVars, runVars, stopVars>>

(* A process and its readers; or a process without readers when one of the *)
(* inherited descriptors cannot be closed.                                 *)
Spawned ==
  /\ boot \in {"spawning", "joinSpawn"}
  /\ leader' = "alive" /\ fds' = FALSE
  /\ \/ reader' = "reading" /\ errReader' = "reading"
     \/ fds /\ UNCHANGED <<reader, errReader>>
  /\ IF boot = "spawning" /\ reader' = "reading"
       THEN boot' = "verifying" /\ UNCHANGED cleanVars
       ELSE boot' = "aborting" /\ Shutdown(FALSE)
  /\ UNCHANGED <<writing, answer, child, escapee, found, channel, fileVars,
                 observer, readerStop, queue, failure, runVars, stopVars>>

(* The pins are checked once more; only then is there a handle, with its   *)
(* completion task.                                                        *)
Verified ==
  /\ \/ /\ boot = "verifying" /\ boot' = "published"
        /\ run' = "asking" /\ ask' = "waiting" /\ UNCHANGED cleanVars
     \/ /\ boot \in {"verifying", "joinVerify"} /\ boot' = "aborting"
        /\ Shutdown(FALSE) /\ UNCHANGED <<run, ask>>
  /\ UNCHANGED <<writing, answer, processVars, channelVars, fileVars, observer,
                 readVars, verdict, outcome, stopVars>>

(* _shutdown_despite_cancellation: start ends when the cleanup has.        *)
StartAborted ==
  /\ boot \in {"aborting", "unspawned"} /\ cleanup = "done"
  /\ boot' = "refused" /\ answer' = proof
  /\ UNCHANGED <<writing, processVars, channelVars, fileVars, observer, readVars,
                 runVars, stopVars, cleanVars>>

(* The unshielded wait of a failed start is cancelled: CancelledError      *)
(* leaves start without a proof, the cleanup goes on by itself.            *)
StartEscapes ==
  /\ boot = "unspawned" /\ cleanup # "done" /\ boot' = "escaped"
  /\ UNCHANGED <<writing, answer, processVars, channelVars, fileVars, observer,
                 readVars, runVars, stopVars, cleanVars>>

-----------------------------------------------------------------------------
(* The processes. *)

Forks ==
  /\ leader = "alive"
  /\ \/ child = "none" /\ child' = "alive" /\ UNCHANGED escapee
     \/ escapee = "none" /\ escapee' = "alive" /\ UNCHANGED child
  /\ UNCHANGED <<startVars, leader, found, channelVars, fileVars, observer,
                 readVars, runVars, stopVars, cleanVars>>

Exits ==
  /\ \/ leader = "alive" /\ leader' = "gone" /\ UNCHANGED <<child, escapee>>
     \/ child = "alive" /\ child' = "gone" /\ UNCHANGED <<leader, escapee>>
     \/ escapee = "alive" /\ escapee' = "gone" /\ UNCHANGED <<leader, child>>
  /\ UNCHANGED <<startVars, found, channelVars, fileVars, observer, readVars,
                 runVars, stopVars, cleanVars>>

-----------------------------------------------------------------------------
(* The readers. *)

(* _set_failure: the first failure stays and breaks the call in flight.    *)
Fail ==
  /\ failure' = TRUE
  /\ ask' = IF ask = "waiting" THEN "broken" ELSE ask

(* A frame goes to the observer first, under the observation lock.         *)
Observes ==
  /\ reader = "reading" /\ observer = "open" /\ reader' = "observing"
  /\ UNCHANGED <<startVars, processVars, channelVars, fileVars, observer,
                 errReader, readerStop, queue, failure, runVars, stopVars,
                 cleanVars>>

InHand == reader = (IF observer = "open" THEN "observing" ELSE "reading")

(* An answer for the call in flight, or for the cleanup's abort command;   *)
(* the reader looks at reader_stop_requested before it reads on.           *)
Answered ==
  /\ InHand
  /\ \/ ask = "waiting" /\ ask' = "answered"
     \/ cleanup = "aborting" /\ UNCHANGED ask
  /\ reader' = IF readerStop THEN "ended" ELSE "reading"
  /\ UNCHANGED <<startVars, processVars, channelVars, fileVars, observer,
                 errReader, readerStop, queue, failure, run, verdict, outcome,
                 stopVars, cleanVars>>

(* Mutants: the queue takes one event too many; a reader that survived its *)
(* cancellation still queues events.                                       *)
EventQueuedBeyond ==
  /\ InHand
  /\ IF readerStop THEN reader' = "ended" /\ UNCHANGED queue
     ELSE IF queue > QueueBound THEN reader' = "putting" /\ UNCHANGED queue
     ELSE reader' = "reading" /\ queue' = queue + 1
  /\ UNCHANGED <<startVars, processVars, channelVars, fileVars, observer,
                 errReader, readerStop, failure, runVars, stopVars, cleanVars>>
EventQueuedAlways ==
  /\ InHand
  /\ IF queue = QueueBound THEN reader' = "putting" /\ UNCHANGED queue
     ELSE reader' = "reading" /\ queue' = queue + 1
  /\ UNCHANGED <<startVars, processVars, channelVars, fileVars, observer,
                 errReader, readerStop, failure, runVars, stopVars, cleanVars>>

(* An event is queued, or waits for room; never after a requested stop.    *)
EventQueued ==
  /\ InHand
  /\ IF readerStop THEN reader' = "ended" /\ UNCHANGED queue
     ELSE IF queue = QueueBound THEN reader' = "putting" /\ UNCHANGED queue
     ELSE reader' = "reading" /\ queue' = queue + 1
  /\ UNCHANGED <<startVars, processVars, channelVars, fileVars, observer,
                 errReader, readerStop, failure, runVars, stopVars, cleanVars>>

(* End of file, a malformed, oversized or unmatched frame, a failing       *)
(* observer, a failed evidence write.                                      *)
ReaderBreaks ==
  /\ reader \in {"reading", "observing"} /\ reader' = "ended"
  /\ Fail
  /\ writeFailed' \in {writeFailed, writeFailed \/ "evidence" \in Faults}
  /\ UNCHANGED <<startVars, processVars, channelVars, evidence, observer,
                 errReader, readerStop, queue, run, verdict, outcome, stopVars,
                 cleanVars>>

(* The stderr loop ends quietly at end of file, otherwise with a failure.  *)
StderrEnds ==
  /\ errReader = "reading" /\ errReader' = "ended"
  /\ \/ UNCHANGED <<failure, ask, writeFailed>>
     \/ Fail /\ writeFailed' \in {writeFailed, writeFailed \/ "evidence" \in Faults}
  /\ UNCHANGED <<startVars, processVars, channelVars, evidence, observer, reader,
                 readerStop, queue, run, verdict, outcome, stopVars, cleanVars>>

-----------------------------------------------------------------------------
(* _run and _run_guarded. *)

(* The next call; a transport that has failed refuses it at once.          *)
NextCall == ask' = IF failure THEN "broken" ELSE "waiting"

(* An exception in _run: the cleanup is asked for and joined.              *)
Fails == run' = "failing" /\ ask' = "idle" /\ Shutdown(TRUE)

(* One answered call may be followed by another: get_state by prompt, and  *)
(* after the last event get_state by get_session_stats.                    *)
CallsOn ==
  /\ ask = "answered" /\ run \in {"asking", "closing"} /\ NextCall
  /\ UNCHANGED <<startVars, processVars, channelVars, fileVars, observer,
                 readVars, run, verdict, outcome, stopVars, cleanVars>>

(* The prompt was accepted: from now on the session follows the events.    *)
Prompted ==
  /\ ask = "answered" /\ run = "asking"
  /\ run' = "listening" /\ ask' = "idle"
  /\ UNCHANGED <<startVars, processVars, channelVars, fileVars, observer,
                 readVars, verdict, outcome, stopVars, cleanVars>>

(* The result was found in the workspace or in the final message and is    *)
(* well-formed: the process is no longer needed.                           *)
ResultTaken ==
  /\ ask = "answered" /\ run = "closing"
  /\ run' = "stopping" /\ ask' = "idle" /\ Shutdown(FALSE)
  /\ UNCHANGED <<startVars, processVars, channelVars, fileVars, observer,
                 readVars, verdict, outcome, stopVars>>

(* A rejected command, a state that does not match the configuration or    *)
(* has drifted, a missing or malformed result.                             *)
AnswerUnfit ==
  /\ ask = "answered" /\ Fails
  /\ UNCHANGED <<startVars, processVars, channelVars, fileVars, observer,
                 readVars, verdict, outcome, stopVars>>

(* A broken call, a response timeout or a failed write.                    *)
CallFails ==
  /\ ask \in {"waiting", "broken"} /\ Fails
  /\ UNCHANGED <<startVars, processVars, channelVars, fileVars, observer,
                 readVars, verdict, outcome, stopVars>>

(* An event leaves the queue, which may release the reader.                *)
Dequeue ==
  /\ run = "listening" /\ queue > 0
  /\ IF reader = "putting" THEN reader' = "reading" /\ UNCHANGED queue
                           ELSE queue' = queue - 1 /\ UNCHANGED reader
  /\ UNCHANGED <<startVars, processVars, channelVars, fileVars, observer,
                 errReader, readerStop, failure, verdict, outcome, stopVars>>

(* A message, a retry, a compaction; the loop looks at stop_requested      *)
(* before it waits again.                                                  *)
EventNoted ==
  /\ Dequeue /\ ~stopAsked /\ ~failure
  /\ UNCHANGED <<run, ask, cleanVars>>

(* agent_settled after an assistant's message: the state is asked again.   *)
AgentSettled ==
  /\ Dequeue /\ run' = "closing" /\ NextCall
  /\ UNCHANGED cleanVars

(* A provider's terminal failure, an extension error, no result at all.    *)
EventFails == Dequeue /\ Fails

(* A stop or a failed transport ends the wait for the next event.          *)
ListeningEnds ==
  /\ run = "listening" /\ (stopAsked \/ failure) /\ Fails
  /\ UNCHANGED <<startVars, processVars, channelVars, fileVars, observer,
                 readVars, verdict, outcome, stopVars>>

(* Mutant: the result is trusted before the cleanup's findings are read.   *)
VerdictEarly(exited) == IF exited THEN {"success", "failure"} ELSE {"failure"}

(* A success needs a proven stop, whole evidence and a sealed channel; the *)
(* session may still report failure itself.                                *)
Verdict(exited) ==
  IF exited /\ proof = "proven" /\ ~writeFailed /\ channel # "failed"
    THEN {"success", "failure"} ELSE {"failure"}

RunStopped ==
  /\ run \in {"stopping", "failing"} /\ cleanup = "done"
  /\ verdict' \in Verdict(run = "stopping")
  /\ run' = "finality"
  /\ UNCHANGED <<startVars, processVars, channelVars, fileVars, observer,
                 readVars, ask, outcome, stopVars, cleanVars>>

(* finalize_observer: an observer sees only a positive proof.              *)
ObserverFinality ==
  IF observer = "none" THEN {"none"}
  ELSE IF proof # "proven" THEN {"unproven"}
  ELSE {"finalized"} \cup (IF "observer" \in Faults THEN {"failed"} ELSE {})

(* _merge_observer_evidence: an observer's failure fails the session.      *)
RunFinished ==
  /\ run = "finality" /\ run' = "done"
  /\ observer' \in ObserverFinality
  /\ outcome' = IF observer' \in {"failed", "unproven"} THEN "failure" ELSE verdict
  /\ UNCHANGED <<startVars, processVars, channelVars, fileVars, readVars, ask,
                 verdict, stopVars, cleanVars>>

-----------------------------------------------------------------------------
(* _shutdown_impl. *)

(* One ps snapshot: descendants outside the root group are found through   *)
(* living parents only, or the discovery fails and nothing will be proven. *)
Discovers ==
  /\ cleanup = "discovering"
  /\ \/ found' \in {FALSE, leader = "alive" /\ escapee = "alive"} /\ UNCHANGED base
     \/ "discovery" \in Faults /\ base' = "unproven" /\ UNCHANGED found
  /\ cleanup' \in IF abortFirst /\ leader = "alive" /\ ~failure
                    THEN {"aborting"} ELSE {"term"}
  /\ UNCHANGED <<startVars, leader, child, escapee, channelVars, fileVars,
                 observer, readVars, runVars, stopVars, abortFirst, proof>>

(* The abort command is answered, refused, broken or times out; then stdin *)
(* is closed and the groups get SIGTERM.                                   *)
AbortEnds ==
  /\ cleanup = "aborting" /\ cleanup' = "term"
  /\ UNCHANGED <<startVars, processVars, channelVars, fileVars, observer,
                 readVars, runVars, stopVars, abortFirst, base, proof>>

Escalates ==
  /\ cleanup = "term" /\ GroupsAlive /\ cleanup' = "kill"
  /\ UNCHANGED <<startVars, processVars, channelVars, fileVars, observer,
                 readVars, runVars, stopVars, abortFirst, base, proof>>

(* The sticky stop flag, then cancellation.  A cancellation that meets a   *)
(* completed observation may be consumed: that reader is still at work.    *)
CancelReaders ==
  /\ readerStop' = TRUE
  /\ reader' \in CASE reader = "observing" -> {"ended", "observing"}
                   [] reader \in {"reading", "putting"} -> {"ended"}
                   [] OTHER -> {reader}
  /\ errReader' = IF errReader = "none" THEN "none" ELSE "ended"
  /\ UNCHANGED <<queue, failure>>

(* Mutant: the groups were killed, so they are taken for gone.             *)
GroupsAssumedGone ==
  /\ cleanup = "kill"
  /\ cleanup' = "joining" /\ CancelReaders
  /\ base' = IF base = "none" THEN "proven" ELSE base
  /\ UNCHANGED <<startVars, processVars, channelVars, fileVars, observer,
                 runVars, stopVars, abortFirst, proof>>

(* The groups are absent, or survive SIGKILL or cannot be signalled.       *)
GroupsEnded ==
  /\ \/ /\ cleanup \in {"term", "kill"} /\ ~GroupsAlive
        /\ base' = IF base = "none" THEN "proven" ELSE base
     \/ /\ cleanup \in {"term", "kill"} /\ GroupsAlive
        /\ base' = "unproven"
  /\ cleanup' = "joining" /\ CancelReaders
  /\ UNCHANGED <<startVars, processVars, channelVars, fileVars, observer,
                 runVars, stopVars, abortFirst, proof>>

(* Mutant: the evidence is closed without joining the readers.             *)
ReadersLeft ==
  /\ cleanup = "joining" /\ cleanup' = "sealing"
  /\ evidence' = "closed"
  /\ writeFailed' \in {writeFailed, writeFailed \/ "evidence" \in Faults}
  /\ UNCHANGED <<startVars, processVars, channelVars, observer, readVars,
                 runVars, stopVars, abortFirst, base, proof>>

(* Both readers have ended: the evidence is synced and closed.             *)
ReadersJoined ==
  /\ cleanup = "joining" /\ reader \in {"none", "ended"}
  /\ cleanup' = "sealing" /\ evidence' = "closed"
  /\ writeFailed' \in {writeFailed, writeFailed \/ "evidence" \in Faults}
  /\ UNCHANGED <<startVars, processVars, channelVars, observer, readVars,
                 runVars, stopVars, abortFirst, base, proof>>

(* _settle_tool_channel: sealed only on a positive proof of a process that *)
(* existed, aborted otherwise; either may fail.                            *)
Settled(spawned) ==
  {IF spawned /\ base = "proven" THEN "sealed" ELSE "aborted"} \cup
  (IF "channel" \in Faults THEN {"failed"} ELSE {})

(* The proof is published last.                                            *)
ChannelSettles ==
  /\ cleanup = "sealing" /\ cleanup' = "done"
  /\ channel' \in IF channel = "none" THEN {"none"} ELSE Settled(leader # "absent")
  /\ fds' = FALSE
  /\ evidence' = "closed"
  /\ proof' = base
  /\ UNCHANGED <<startVars, processVars, writeFailed, observer, readVars,
                 runVars, stopVars, abortFirst, base>>

-----------------------------------------------------------------------------
(* The host's stop: it may be asked again, and its caller may give up.     *)

StopCalled ==
  /\ boot = "published" /\ stop \in {"idle", "answered"}
  /\ stop' = "stopping" /\ stopAsked' = TRUE
  /\ Shutdown(TRUE)
  /\ UNCHANGED <<startVars, processVars, channelVars, fileVars, observer,
                 readVars, runVars>>

(* Mutant: the proof is returned without joining the completion task.      *)
StopAnswersEarly ==
  /\ stop = "stopping" /\ cleanup = "done"
  /\ stop' = "answered" /\ answer' = proof
  /\ UNCHANGED <<boot, writing, processVars, channelVars, fileVars, observer,
                 readVars, runVars, stopAsked, cleanVars>>

(* The proof, and then the completion task, have been joined.              *)
StopAnswers ==
  /\ stop = "stopping" /\ cleanup = "done" /\ run = "done"
  /\ stop' = "answered" /\ answer' = proof
  /\ UNCHANGED <<boot, writing, processVars, channelVars, fileVars, observer,
                 readVars, runVars, stopAsked, cleanVars>>

StopDropped ==
  /\ stop = "stopping" /\ stop' = "idle"
  /\ UNCHANGED <<startVars, processVars, channelVars, fileVars, observer,
                 readVars, runVars, stopAsked, cleanVars>>

-----------------------------------------------------------------------------
Starting ==
  \/ Materializes \/ Materialized \/ ChannelOpens
  \/ ChannelStarted \/ LaunchRejected \/ ChannelDropped \/ TransportBuilt
  \/ SpawnFails \/ Spawned \/ Verified \/ StartAborted
Asking   == \/ StartCalled \/ StartRefuses \/ StartCancelled \/ StartEscapes
            \/ StopCalled \/ StopDropped
FrameDone == Answered \/ EventQueued \/ ReaderBreaks
Reading  == Observes \/ FrameDone \/ StderrEnds
Calling  == CallsOn \/ Prompted \/ ResultTaken \/ AnswerUnfit \/ CallFails
Running  == \/ Calling \/ EventNoted \/ AgentSettled \/ EventFails
            \/ ListeningEnds \/ RunStopped \/ RunFinished
Cleaning == \/ Discovers \/ AbortEnds \/ Escalates \/ GroupsEnded
            \/ ReadersJoined \/ ChannelSettles

Next == \/ Asking \/ Starting \/ Forks \/ Exits \/ Reading \/ Running
        \/ Cleaning \/ StopAnswers

Spec == Init /\ [][Next]_vars

(* The event loop runs what is ready, timed waits end, an observer call is *)
(* bounded.  Nothing is assumed of Pi: it may be silent for ever.          *)
Fairness ==
  /\ WF_vars(Starting) /\ WF_vars(Cleaning)
  /\ WF_vars(reader = "observing" /\ FrameDone)
  /\ WF_vars(Calling) /\ WF_vars(ListeningEnds)
  /\ WF_vars(RunStopped) /\ WF_vars(RunFinished)
  /\ WF_vars(StopAnswers)

FairSpec == Spec /\ Fairness
=============================================================================

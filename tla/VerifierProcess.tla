-------------------------- MODULE VerifierProcess --------------------------
(***************************************************************************)
(* One run of a verifier under AmfVerifierService._run_bounded: a process  *)
(* group that may leave members behind or let one escape with the pipes,   *)
(* a thread that reads them, and the host's bounded waits.  The threads of *)
(* stdout and stderr are one: they share the cap and the flag.             *)
(***************************************************************************)

VARIABLES phase,      \* where _run_bounded is
          leader,     \* the verifier: "none", "alive" or "gone"
          member,     \* its process group has another live member
          escapee,    \* a descendant that left the group holds the pipes
          reply,      \* what the verifier ended with
          reader,     \* the thread that reads the pipes
          overflow,   \* the cap was passed
          ended,      \* the state that will be reported
          unclean     \* some cleanup failed or was not complete

processVars ==
  <<phase, leader, member, escapee, reply, reader, overflow, ended, unclean>>

NotStarted ==
  /\ phase' = "none" /\ leader' = "none" /\ member' = FALSE
  /\ escapee' = FALSE /\ reply' = "none" /\ reader' = "none"
  /\ overflow' = FALSE /\ ended' = "none" /\ unclean' = FALSE

ProcessInit ==
  /\ phase = "none" /\ leader = "none" /\ member = FALSE /\ escapee = FALSE
  /\ reply = "none" /\ reader = "none" /\ overflow = FALSE
  /\ ended = "none" /\ unclean = FALSE

GroupAlive == leader = "alive" \/ member

(* Somebody can still write: there is no end of file. *)
Held == GroupAlive \/ escapee

Spawns ==
  /\ phase' = "polling" /\ leader' = "alive" /\ reader' = "reading"
  /\ UNCHANGED <<member, escapee, reply, overflow, ended, unclean>>

SpawnFails ==
  /\ phase' = "ended" /\ ended' = "SPAWN_FAILED"
  /\ UNCHANGED <<leader, member, escapee, reply, reader, overflow, unclean>>

-----------------------------------------------------------------------------
(* The verifier and what it starts. *)
Forks ==
  /\ GroupAlive /\ ~member /\ member' = TRUE
  /\ UNCHANGED <<phase, leader, escapee, reply, reader, overflow, ended, unclean>>

(* A descendant leaves the group with the pipes (without them it has no    *)
(* part in the run any more).                                              *)
Escapes ==
  /\ GroupAlive /\ ~escapee /\ escapee' = TRUE
  /\ UNCHANGED <<phase, leader, member, reply, reader, overflow, ended, unclean>>

LeaderExits(says) ==
  /\ leader = "alive" /\ leader' = "gone" /\ reply' = says
  /\ UNCHANGED <<phase, member, escapee, reader, overflow, ended, unclean>>

OthersExit ==
  /\ \/ member /\ member' = FALSE /\ UNCHANGED escapee
     \/ escapee /\ escapee' = FALSE /\ UNCHANGED member
  /\ UNCHANGED <<phase, leader, reply, reader, overflow, ended, unclean>>

(* The reader threads. *)
PassesCap ==
  /\ reader = "reading" /\ Held /\ ~overflow /\ overflow' = TRUE
  /\ UNCHANGED <<phase, leader, member, escapee, reply, reader, ended, unclean>>

ReaderEnds ==
  /\ reader = "reading" /\ ~Held /\ reader' = "ended"
  /\ UNCHANGED <<phase, leader, member, escapee, reply, overflow, ended, unclean>>

ReaderFails ==
  /\ reader = "reading" /\ reader' = "failed"
  /\ UNCHANGED <<phase, leader, member, escapee, reply, overflow, ended, unclean>>

-----------------------------------------------------------------------------
(* _terminate_group: TERM, grace, KILL, grace.  What survives both, or may *)
(* not be signalled, is left.                                              *)
TerminateGroup ==
  /\ leader' \in {leader, IF leader = "alive" THEN "gone" ELSE leader}
  /\ member' \in {member, FALSE}
  /\ reply' = IF leader' = leader THEN reply ELSE "killed"

Survived == leader' = "alive" \/ member'

First(state) == IF ended = "none" THEN state ELSE ended

SeesExit ==
  /\ phase = "polling" /\ leader = "gone" /\ phase' = "reaping"
  /\ UNCHANGED <<leader, member, escapee, reply, reader, overflow, ended, unclean>>

(* Mutant: there is no timeout.                                            *)
StopsOverflow ==
  /\ phase = "polling" /\ leader = "alive" /\ overflow
  /\ ended' = "OUTPUT_LIMIT_EXCEEDED"
  /\ TerminateGroup /\ unclean' = Survived
  /\ phase' = "reaping"
  /\ UNCHANGED <<escapee, reader, overflow>>

StopsIt ==
  /\ phase = "polling" /\ leader = "alive"
  /\ ended' = IF overflow THEN "OUTPUT_LIMIT_EXCEEDED" ELSE "TIMEOUT"
  /\ TerminateGroup /\ unclean' = Survived
  /\ phase' = "reaping"
  /\ UNCHANGED <<escapee, reader, overflow>>

(* process.wait with a timeout *)
Reaps ==
  /\ phase = "reaping" /\ phase' = "grouping"
  /\ IF leader = "gone" THEN UNCHANGED <<leader, member, reply, unclean>>
     ELSE TerminateGroup /\ unclean' = TRUE
  /\ UNCHANGED <<escapee, reader, overflow, ended>>

ChecksGroup ==
  /\ phase = "grouping" /\ phase' = "joining"
  /\ IF GroupAlive
       THEN /\ ended' = First("PROCESS_GROUP_LEAK")
            /\ TerminateGroup /\ unclean' = (unclean \/ Survived)
       ELSE UNCHANGED <<leader, member, reply, ended, unclean>>
  /\ UNCHANGED <<escapee, reader, overflow>>

(* join with a timeout *)
Joins ==
  /\ phase = "joining" /\ phase' = "closing"
  /\ unclean' = (unclean \/ reader = "reading")
  /\ UNCHANGED <<leader, member, escapee, reply, reader, overflow, ended>>

(* close waits for the lock of the stream, which a reader holds until its  *)
(* chunk is full or the pipe ends: it is sure to come back only then.      *)
Closes ==
  /\ phase = "closing" /\ phase' = "ended"
  /\ ended' = IF unclean THEN "PROCESS_GROUP_CLEANUP_FAILED"
              ELSE IF reader = "failed" THEN "OUTPUT_CAPTURE_FAILED"
              ELSE IF ended # "none" THEN ended
              ELSE IF overflow THEN "OUTPUT_LIMIT_EXCEEDED"
              ELSE "COMPLETED"
  /\ UNCHANGED <<leader, member, escapee, reply, reader, overflow, unclean>>

RunStep ==
  SeesExit \/ StopsIt \/ Reaps \/ ChecksGroup \/ Joins \/ Closes

AroundIt == Forks \/ Escapes \/ OthersExit \/ PassesCap \/ ReaderFails
==============================================================================

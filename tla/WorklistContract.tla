-------------------------- MODULE WorklistContract --------------------------
(***************************************************************************)
(* What an agenda arm's worklist promises the sessions of one launch: a    *)
(* task is leased to one session at a time, only when everything it        *)
(* depends on is completed, and only the session that holds its lease      *)
(* completes it, once.  Leases lapse at any time.  AgendaArm implements it.*)
(***************************************************************************)
CONSTANTS Launch,    \* the sessions of the launch
          Tasks, Depends,
          Nobody

VARIABLES holder,    \* task -> the session that may complete it, or Nobody
          done       \* completed tasks

worklistVars == <<holder, done>>

Init == holder = [t \in Tasks |-> Nobody] /\ done \subseteq Tasks

(* Leases of the other tasks may lapse whenever anything happens.          *)
Lapses(others) ==
  \A t \in others : holder'[t] \in {holder[t], Nobody}

Lapse ==
  /\ holder' \in [Tasks -> Launch \cup {Nobody}] /\ Lapses(Tasks)
  /\ UNCHANGED done

Grant(t, s) ==
  /\ holder[t] = Nobody /\ t \notin done /\ Depends[t] \subseteq done
  /\ holder' \in [Tasks -> Launch \cup {Nobody}] /\ holder'[t] = s
  /\ Lapses(Tasks \ {t})
  /\ UNCHANGED done

Complete(t) ==
  /\ holder[t] # Nobody /\ t \notin done
  /\ holder' \in [Tasks -> Launch \cup {Nobody}] /\ holder'[t] = Nobody
  /\ Lapses(Tasks \ {t})
  /\ done' = done \cup {t}

Next ==
  \/ Lapse
  \/ \E t \in Tasks : Complete(t) \/ \E s \in Launch : Grant(t, s)

Spec == Init /\ [][Next]_worklistVars
=============================================================================

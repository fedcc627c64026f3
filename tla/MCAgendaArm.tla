---------------------------- MODULE MCAgendaArm ----------------------------
(***************************************************************************)
(* Two sessions, a task and one that depends on it, and a world in which   *)
(* an earlier launch left an open claim.                                   *)
(***************************************************************************)
EXTENDS AgendaArmProps

CONSTANTS a, b, x, t1, t2

MCDepends == [t \in {t1, t2} |-> IF t = t2 THEN {t1} ELSE {}]
MCAuthor == [t \in {t1, t2} |-> IF t = t2 THEN a ELSE x]
MCBase == {Task(t1), Claim(x, t1, 3, 1)}
=============================================================================

---------------------------- MODULE MCCohortFiles ----------------------------
(***************************************************************************)
(* The instance of CohortFiles that TLC checks: racing planners and        *)
(* launchers, or one of each and a reader of the status, so that the state *)
(* space is the sum of both.  Planners are interchangeable, and so are     *)
(* launchers.                                                              *)
(***************************************************************************)
EXTENDS CohortFilesProps, TLC

Racing  == Planners \cup Launchers
Watched == {{a, l, Reader} : a \in Planners, l \in Launchers}
About   == {Racing} \cup Watched

Interchangeable == Permutations(Planners) \cup Permutations(Launchers)
==============================================================================

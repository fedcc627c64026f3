-------------------------- MODULE MCResourceGuard --------------------------
(***************************************************************************)
(* Profiles of the instances of ResourceGuard that are model-checked.      *)
(***************************************************************************)
EXTENDS ResourceGuardProps

Stopping == [scan |-> "LIVE_LATCHED", tree |-> "SESSION_STOP",
             disk |-> "SESSION_STOP"]
Warning  == [scan |-> "LIVE_LATCHED", tree |-> "WARN", disk |-> "WARN"]

BothProfiles == {Stopping, Warning}
WarningProfile == {Warning}
=============================================================================

-------------------------- MODULE MCHealthCheckLive --------------------------
(***************************************************************************)
(* HealthCheckLive with the constants of MCHealthCheck.                     *)
(***************************************************************************)
EXTENDS HealthCheckLive, MCHealthCheck
==============================================================================

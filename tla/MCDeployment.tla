---------------------------- MODULE MCDeployment ----------------------------
(* An instance of Deployment for TLC. *)
EXTENDS Deployment

CONSTANTS d1, d2
Two == {d1, d2}
Second == {d2}
=============================================================================

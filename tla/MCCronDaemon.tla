---------------------------- MODULE MCCronDaemon ----------------------------
(* Instances of CronDaemon for TLC. *)
EXTENDS CronDaemon

CONSTANTS e1, e2

OneEntry == {e1}
TwoEntries == {e1, e2}
=============================================================================

---------------------------- MODULE MCWpaMonitor ----------------------------
(* WpaMonitor for TLC.  The monitor does not look at signal levels, so one  *)
(* is enough.                                                               *)
EXTENDS WpaMonitor

MCRssiFields == {-80}
=============================================================================

---------------------------- MODULE MCPathMonitor ----------------------------
(* PathMonitor for TLC: thresholds of -75 and -85 dBm as in RssiThresholds, *)
(* and the levels on both sides of each.                                    *)
EXTENDS PathMonitor

MCWarn == -75
MCDrop == -85
MCRssiFields == {-75, -76, -85, -86}
MCRssi == MCRssiFields \cup {0}
=============================================================================

---------------------------- MODULE MCElkanKmeans ----------------------------
(* An instance of ElkanLloyd, and with it of ElkanKmeans, for TLC.         *)
EXTENDS ElkanLloyd

Line == 0 .. 3
=============================================================================

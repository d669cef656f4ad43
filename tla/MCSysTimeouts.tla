---------------------------- MODULE MCSysTimeouts ----------------------------
(* A cyclic timer, the TCP timer, and users with two timers of one handler on *)
(* a clock of 12 ticks.                                                       *)
EXTENDS SysTimeouts

CONSTANTS arp

MCCyclic == {arp}
MCInterval == arp :> 1
=============================================================================

------------------------------- MODULE MCSntp -------------------------------
(* Instances of Sntp: the delays of sntp_opts.h in units of 15 seconds.        *)
EXTENDS Sntp
=============================================================================

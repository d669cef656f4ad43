-------------------------------- MODULE MCDhcp --------------------------------
(* Minutes of 4 seconds; leases of less than a minute, of two and a half and  *)
(* of four and a half, and one with times of renewal of the server's own.     *)
EXTENDS Dhcp

\* dhcp_handle_ack without the options for t1 and t2.
Default(secs) == [lease |-> secs, renew |-> secs \div 2, rebind |-> (secs * 7) \div 8]

MCGrants == {Default(1), Default(10), Default(18), [lease |-> 14, renew |-> 4, rebind |-> 4]}
=============================================================================

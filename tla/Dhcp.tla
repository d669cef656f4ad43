--------------------------------- MODULE Dhcp ---------------------------------
(***************************************************************************)
(* lwip/src/core/ipv4/dhcp.c: the client that gives the clock its address. *)
(* Two timers drive it, one in half seconds for answers that do not come   *)
(* and one in minutes for the lease; answers get lost, are copied and come *)
(* late, servers refuse, other hosts own the address.                      *)
(*                                                                         *)
(* Time is counted in runs of dhcp_fine_tmr.  The handlers are functions   *)
(* of the client's record, as they call each other.                        *)
(***************************************************************************)
EXTENDS Integers, FiniteSets, FiniteSetsExt

CONSTANTS
  DHCP_COARSE_TIMER_SECS,   \* 60
  MaxTries,                 \* 6, from where on waits stay the same
  LongWait,                 \* 60 s, the wait after so many tries
  DeclineWait,              \* 10 s, the wait after dhcp_decline
  Grants,                   \* what servers grant: seconds [lease, renew, rebind]
  MaxDelay,                 \* how long an answer can take
  MaxFaults                 \* refusals and address conflicts

ASSUME DhcpAssumption ==
  /\ DHCP_COARSE_TIMER_SECS \in Nat \ {0}
  /\ MaxTries \in Nat \ {0, 1}
  /\ LongWait \in Nat \ {0}
  /\ DeclineWait \in Nat \ {0}
  /\ MaxDelay \in 0 .. 3    \* less than the shortest wait, of 2 seconds
  /\ MaxFaults \in Nat
  /\ IsFiniteSet(Grants)
  /\ Grants \subseteq [lease : Nat, renew : Nat, rebind : Nat]

VARIABLES
  dhcp,      \* struct dhcp, the interface's address and the last query sent
  phase,     \* half seconds since dhcp_coarse_tmr was due
  due,       \* which of the two timers are due
  lease,     \* what is left of the lease by the server's clock
  faults

vars == <<dhcp, phase, due, lease, faults>>

States == {"SELECTING", "REQUESTING", "CHECKING", "BACKING_OFF", "BOUND", "RENEWING", "REBINDING"}
NoQuery == [type |-> "none", age |-> 0]
NoGrant == [lease |-> 0, renew |-> 0, rebind |-> 0]

FinePerCoarse == 2 * DHCP_COARSE_TIMER_SECS

\* Seconds in minutes, rounded, at least one.
Minutes(secs) == Max({1, (secs + DHCP_COARSE_TIMER_SECS \div 2) \div DHCP_COARSE_TIMER_SECS})

MaxMinutes == Max({Minutes(g[f]) : g \in Grants \union {NoGrant}, f \in {"lease", "renew", "rebind"}})
MaxWait == 2 * Max({LongWait, DeclineWait, 2 ^ (MaxTries - 1)})

TypeOK ==
  /\ dhcp \in [state : States, tries : 0 .. MaxTries, request_timeout : 0 .. MaxWait,
               t0_timeout : 0 .. MaxMinutes, t2_timeout : 0 .. MaxMinutes,
               t1_renew_time : 0 .. MaxMinutes, t2_rebind_time : 0 .. MaxMinutes,
               lease_used : 0 .. MaxMinutes, offered : Grants \union {NoGrant},
               address : BOOLEAN,
               query : [type : {"DISCOVER", "REQUEST"}, age : 0 .. MaxDelay] \union {NoQuery}]
  /\ phase \in 0 .. FinePerCoarse - 1
  /\ due \subseteq {"fine", "coarse"}
  /\ lease \in Int
  /\ faults \in 0 .. MaxFaults

dhcp_supplied_address(d) == d.state \in {"BOUND", "RENEWING", "REBINDING"}
-----------------------------------------------------------------------------
(* What the client sends and how long it waits                              *)

dhcp_set_state(d, s) ==
  IF d.state = s THEN d ELSE [d EXCEPT !.state = s, !.tries = 0, !.request_timeout = 0]

\* One more try in state s.  The code counts to 255; from MaxTries on the
\* number makes no difference.
TryIn(d, s) == [dhcp_set_state(d, s) EXCEPT !.tries = Min({@ + 1, MaxTries})]

Backoff(tries) == 2 * (IF tries < MaxTries THEN 2 ^ tries ELSE LongWait)

\* A query that cannot be allocated is one that gets lost.  A DISCOVER of a new
\* round has a new xid: no answer to an older query counts any more.
Ask(d, s, type) ==
  LET e == TryIn(d, s)
  IN [e EXCEPT !.request_timeout = Backoff(e.tries), !.query = [type |-> type, age |-> 0]]

dhcp_discover(d) == Ask(d, "SELECTING", "DISCOVER")
dhcp_select(d) == Ask(d, "REQUESTING", "REQUEST")

dhcp_check(d) == [TryIn(d, "CHECKING") EXCEPT !.request_timeout = 1]

dhcp_decline(d) ==
  [TryIn(d, "BACKING_OFF") EXCEPT !.request_timeout = 2 * DeclineWait, !.query = NoQuery]

\* The request timeout these two set has no effect: dhcp_timeout ignores their
\* states, only t1, t2 and t0 go on.
dhcp_renew(d) == [dhcp_set_state(d, "RENEWING") EXCEPT !.query = [type |-> "REQUEST", age |-> 0]]
dhcp_rebind(d) == [dhcp_set_state(d, "REBINDING") EXCEPT !.query = [type |-> "REQUEST", age |-> 0]]

Bound(d, t0, t1, t2, used) ==
  [dhcp_set_state(d, "BOUND") EXCEPT
     !.t0_timeout = t0, !.t1_renew_time = t1, !.t2_timeout = t2, !.t2_rebind_time = t2,
     !.lease_used = used, !.address = TRUE]

\* Mutant of dhcp_bind: the minutes used of the lease before are not cleared.
dhcp_bind_counting(d) ==
  Bound(d, Minutes(d.offered.lease), Minutes(d.offered.renew), Minutes(d.offered.rebind),
        d.lease_used)

\* Mutant of dhcp_bind: a renewed lease keeps the length of the first one.
dhcp_bind_unrenewed(d) ==
  Bound(d, IF d.address THEN d.t0_timeout ELSE Minutes(d.offered.lease),
        Minutes(d.offered.renew), Minutes(d.offered.rebind), 0)

\* Mutant of dhcp_bind: renewal is due when the lease ends.
dhcp_bind_late(d) ==
  Bound(d, Minutes(d.offered.lease), Minutes(d.offered.lease), Minutes(d.offered.lease), 0)

dhcp_bind(d) ==
  Bound(d, Minutes(d.offered.lease), Minutes(d.offered.renew), Minutes(d.offered.rebind), 0)

Zero == [state |-> "OFF", tries |-> 0, request_timeout |-> 0, t0_timeout |-> 0,
         t2_timeout |-> 0, t1_renew_time |-> 0, t2_rebind_time |-> 0, lease_used |-> 0,
         offered |-> NoGrant, address |-> FALSE, query |-> NoQuery]

\* dhcp_release_and_stop and dhcp_start: the record is cleared, the address only
\* goes when the state says that DHCP has supplied it.
Restart(d) ==
  dhcp_discover([Zero EXCEPT !.address = d.address /\ ~dhcp_supplied_address(d)])

\* Mutant of dhcp_handle_nak: clears the lease but not its renewal timers.
dhcp_handle_nak_halfway(d) ==
  dhcp_discover([dhcp_set_state(d, "BACKING_OFF") EXCEPT
                   !.address = FALSE, !.t0_timeout = 0, !.lease_used = 0])

\* The timers of the lost lease are not cleared.
dhcp_handle_nak(d) ==
  dhcp_discover([dhcp_set_state(d, "BACKING_OFF") EXCEPT !.address = FALSE])
-----------------------------------------------------------------------------
(* Timers                                                                   *)

\* Mutant of dhcp_timeout: gives up selecting after some tries.
dhcp_timeout_resigned(d) ==
  CASE d.state = "SELECTING" -> IF d.tries < MaxTries THEN dhcp_discover(d) ELSE d
    [] d.state = "BACKING_OFF" -> dhcp_discover(d)
    [] d.state = "REQUESTING" -> IF d.tries < MaxTries THEN dhcp_select(d) ELSE Restart(d)
    [] d.state = "CHECKING" -> IF d.tries <= 1 THEN dhcp_check(d) ELSE dhcp_bind(d)
    [] OTHER -> d

dhcp_timeout(d) ==
  CASE d.state \in {"BACKING_OFF", "SELECTING"} -> dhcp_discover(d)
    [] d.state = "REQUESTING" -> IF d.tries < MaxTries THEN dhcp_select(d) ELSE Restart(d)
    [] d.state = "CHECKING" -> IF d.tries <= 1 THEN dhcp_check(d) ELSE dhcp_bind(d)
    [] OTHER -> d

dhcp_fine_tmr(d) ==
  CASE d.request_timeout > 1 -> [d EXCEPT !.request_timeout = @ - 1]
    [] d.request_timeout = 1 -> dhcp_timeout([d EXCEPT !.request_timeout = 0])
    [] OTHER -> d

\* The next turn of a timer that has run out: half of what is left, if that is
\* a minute at least.
NextTurn(end, used) == IF end - used >= 2 THEN (end - used) \div 2 ELSE 0

dhcp_t1_timeout(d) ==
  IF d.state \in {"REQUESTING", "BOUND", "RENEWING"}
  THEN [dhcp_renew(d) EXCEPT !.t1_renew_time = NextTurn(d.t2_timeout, d.lease_used)]
  ELSE d

dhcp_t2_timeout(d) ==
  IF d.state \in {"REQUESTING", "BOUND", "RENEWING", "REBINDING"}
  THEN [dhcp_rebind(d) EXCEPT !.t2_rebind_time = NextTurn(d.t0_timeout, d.lease_used)]
  ELSE d

Down(n) == Max({n - 1, 0})

\* The lease first, then rebinding, then renewing: one of them in a minute, and
\* a timer is only counted down when none in front of it has run out.
dhcp_coarse_tmr(d) ==
  LET u == [d EXCEPT !.lease_used = IF d.t0_timeout = 0 THEN @ ELSE @ + 1]
      v == [u EXCEPT !.t2_rebind_time = Down(@)]
      w == [v EXCEPT !.t1_renew_time = Down(@)]
  IN IF u.t0_timeout # 0 /\ u.lease_used = u.t0_timeout THEN Restart(d)
     ELSE IF u.t2_rebind_time = 1 THEN dhcp_t2_timeout(v)
     ELSE IF v.t1_renew_time = 1 THEN dhcp_t1_timeout(w)
     ELSE w
-----------------------------------------------------------------------------
Init ==
  /\ dhcp = dhcp_discover(Zero)
  /\ phase \in 0 .. FinePerCoarse - 1
  /\ due = {}
  /\ lease = 0
  /\ faults = 0

Aged(query) ==
  IF query = NoQuery \/ query.age = MaxDelay THEN NoQuery ELSE [query EXCEPT !.age = @ + 1]

\* The lease is followed while the address is used or about to be.
LeaseMatters(d) == d.address \/ d.state = "CHECKING"

Become(d) ==
  /\ dhcp' = d
  /\ lease' = IF LeaseMatters(d) THEN lease ELSE 0

\* Half a second passes; the timers run in either order when both are due.
Tick ==
  /\ due = {}
  /\ phase' = (phase + 1) % FinePerCoarse
  /\ due' = IF phase' = 0 THEN {"fine", "coarse"} ELSE {"fine"}
  /\ dhcp' = [dhcp EXCEPT !.query = Aged(@)]
  /\ lease' = IF LeaseMatters(dhcp) THEN lease - 1 ELSE 0
  /\ UNCHANGED faults

FineTimer ==
  /\ "fine" \in due
  /\ due' = due \ {"fine"}
  /\ Become(dhcp_fine_tmr(dhcp))
  /\ UNCHANGED <<phase, faults>>

CoarseTimer ==
  /\ "coarse" \in due
  /\ due' = due \ {"coarse"}
  /\ Become(dhcp_coarse_tmr(dhcp))
  /\ UNCHANGED <<phase, faults>>

\* dhcp_recv: an OFFER to the query under way.
RecvOffer ==
  /\ dhcp.query.type = "DISCOVER"
  /\ dhcp.state = "SELECTING"
  /\ dhcp' = dhcp_select([dhcp EXCEPT !.request_timeout = 0])
  /\ UNCHANGED <<phase, due, lease, faults>>

\* dhcp_recv: an ACK.  A new address is checked first.  The server's lease may
\* have begun when the query was sent, and is never shortened by another one.
RecvAck(grant) ==
  /\ dhcp.query.type = "REQUEST"
  /\ dhcp.state \in {"REQUESTING", "RENEWING", "REBINDING"}
  /\ dhcp' = LET d == [dhcp EXCEPT !.offered = grant]
             IN IF dhcp.state = "REQUESTING" THEN dhcp_check(d) ELSE dhcp_bind(d)
  /\ lease' = Max({lease, 2 * grant.lease - dhcp.query.age})
  /\ UNCHANGED <<phase, due, faults>>

\* dhcp_recv: a NAK.
RecvNak ==
  /\ faults < MaxFaults
  /\ dhcp.query.type = "REQUEST"
  /\ dhcp.state \in {"REQUESTING", "RENEWING", "REBINDING"}
  /\ Become(dhcp_handle_nak(dhcp))
  /\ faults' = faults + 1
  /\ UNCHANGED <<phase, due>>

\* Another host answers the ARP query for the offered address.
dhcp_arp_reply ==
  /\ faults < MaxFaults
  /\ dhcp.state = "CHECKING"
  /\ Become(dhcp_decline(dhcp))
  /\ faults' = faults + 1
  /\ UNCHANGED <<phase, due>>

AnyAck == \E g \in Grants : RecvAck(g)

Timers == Tick \/ FineTimer \/ CoarseTimer

Next == Timers \/ RecvOffer \/ AnyAck \/ RecvNak \/ dhcp_arp_reply

\* The timers run, and a server that is asked again and again answers once in a
\* while.
Fairness == WF_vars(Timers) /\ SF_vars(RecvOffer) /\ SF_vars(AnyAck)

Spec == Init /\ [][Next]_vars /\ Fairness
-----------------------------------------------------------------------------
(* Properties                                                               *)

\* The address is used no longer than the lease, rounded to minutes as in
\* dhcp_bind, and the time the answer and the ARP check took: the client's
\* count in minutes follows the server's, through renewals, refusals and
\* restarts, whenever in a minute the lease begins.
LeaseRespected ==
  dhcp.address =>
    lease >= 2 * dhcp.offered.lease - FinePerCoarse * Minutes(dhcp.offered.lease) - MaxDelay - 2

\* An address stays with a client that knows it has one, and such a client is
\* always on the way to the end of its lease.  That is all that ends the state
\* RENEWING or REBINDING without an address, into which a timer of the old
\* lease brings a client that was refused (lines 277-290, 544-591).
LeaseRunsOut ==
  /\ dhcp.address => dhcp_supplied_address(dhcp)
  /\ dhcp_supplied_address(dhcp) => dhcp.lease_used < dhcp.t0_timeout

\* The client never loses an address it has not tried to renew, but for leases
\* of one minute: t1 or t2 comes first, although both are rounded and the code
\* looks at t0 first and runs one of the three in a minute (lines 440-455).
AsksBeforeExpiry ==
  [][dhcp.address /\ ~dhcp'.address /\ dhcp.state = "BOUND" => dhcp.t0_timeout = 1]_vars

\* From every state, also after refusals, conflicts and lost answers, the clock
\* gets an address again: without one the main loop is never reached, SNTP and
\* weather stay silent.
BindsAgain == []<>(dhcp.address)
=============================================================================

-------------------------------- MODULE Sntp --------------------------------
(***************************************************************************)
(* lwip/src/apps/sntp/sntp.c in polling mode with one server known by its  *)
(* name, as main() configures it: ask DNS for the server, send a request,  *)
(* set the RTC by the answer, ask again later.                             *)
(*                                                                         *)
(* Every step of this protocol but the waiting for DNS is carried by a     *)
(* timer: sntp_retry is the receive timeout, sntp_request the next         *)
(* attempt.  Nothing else remembers that SNTP is at work, so a path that   *)
(* starts no timer stops the client for good, and a path that starts one   *)
(* too many multiplies it.                                                 *)
(*                                                                         *)
(* Time is counted in units of SNTP_RECV_TIMEOUT.  DNS gives up within a   *)
(* unit.  Timers are those of TimerService, with a limited pool.           *)
(***************************************************************************)
EXTENDS Integers, FiniteSets

CONSTANTS
  SNTP_RECV_TIMEOUT,       \* 15 s: one unit
  SNTP_RETRY_TIMEOUT,
  SNTP_RETRY_TIMEOUT_MAX,
  SNTP_UPDATE_DELAY,
  Slots,        \* slots of MEMP_SYS_TIMEOUT which the stack's own timers leave
  MaxDns,       \* pending DNS requests at most
  MaxFlight,    \* answers on their way at most
  Copies,       \* the network may copy an answer
  MaxKods,      \* kisses of death the server sends at most
  MaxLates,     \* how often answers come after the receive timeout
  None

ASSUME DelaysAssumption ==
  /\ {SNTP_RECV_TIMEOUT, SNTP_RETRY_TIMEOUT, SNTP_UPDATE_DELAY} \subseteq Nat \ {0}
  /\ SNTP_RETRY_TIMEOUT_MAX \in Nat
  /\ SNTP_RETRY_TIMEOUT <= SNTP_RETRY_TIMEOUT_MAX
ASSUME BoundsAssumption == {Slots, MaxDns, MaxFlight} \subseteq Nat \ {0} /\ {MaxKods, MaxLates} \subseteq Nat
ASSUME CopiesAssumption == Copies \in BOOLEAN

Handlers == {"sntp_request", "sntp_retry"}

VARIABLES
  timers,               \* a bag of [h, left]
  sntp_retry_timeout,
  dns,                  \* pending calls of sntp_dns_found
  flight,               \* answers on their way, or that the server may yet send
  asserted,             \* sys_timeout has found the pool empty: the program hangs
  quiet,                \* units since the last good answer, up to the update delay
  kods,                 \* kisses of death received
  lates                 \* units at whose end an answer was still on its way

faults == <<kods, lates>>
vars == <<timers, sntp_retry_timeout, dns, flight, asserted, quiet, faults>>

\* The timers: SNTP does nothing while a handler of its own runs.
T == INSTANCE TimerService WITH
       Cyclic <- {}, Interval <- <<>>, OneShots <- Handlers,
       MaxDelay <- SNTP_UPDATE_DELAY, serving <- None

\* The timers of a bag, the n-th with handler and time e as <<e, n>>.
Timers(b) == UNION {{e} \X (1 .. b[e]) : e \in DOMAIN b}

Number(b) == Cardinality(Timers(b))

Delays == 0 .. (SNTP_UPDATE_DELAY + SNTP_RETRY_TIMEOUT_MAX + SNTP_RECV_TIMEOUT)

TypeOK ==
  /\ timers \in [DOMAIN timers -> Nat \ {0}]
  /\ DOMAIN timers \subseteq [h : Handlers, left : Delays]
  /\ Number(timers) <= Slots
  /\ sntp_retry_timeout \in SNTP_RETRY_TIMEOUT .. SNTP_RETRY_TIMEOUT_MAX
  /\ dns \in 0 .. MaxDns
  /\ flight \in 0 .. MaxFlight
  /\ asserted \in BOOLEAN
  /\ quiet \in 0 .. SNTP_UPDATE_DELAY
  /\ kods \in 0 .. MaxKods
  /\ lates \in 0 .. MaxLates

-----------------------------------------------------------------------------
(* Calls in a step that has left the timers b                               *)

sys_timeout(b, msecs, h) ==
  IF Number(b) < Slots
  THEN timers' = T!Started(b, h, msecs) /\ UNCHANGED asserted
  ELSE timers' = b /\ asserted' = TRUE

\* Mutant of sntp_retry: no limit to the doubling.
sntp_retry_unlimited(b) ==
  /\ sys_timeout(b, sntp_retry_timeout, "sntp_request")
  /\ sntp_retry_timeout' = 2 * sntp_retry_timeout

\* Also sntp_try_next_server, with one server.
sntp_retry(b) ==
  /\ sys_timeout(b, sntp_retry_timeout, "sntp_request")
  /\ sntp_retry_timeout' = IF 2 * sntp_retry_timeout <= SNTP_RETRY_TIMEOUT_MAX
                           THEN 2 * sntp_retry_timeout
                           ELSE sntp_retry_timeout

\* Without memory for the packet another attempt is made later.
sntp_send_request(b) ==
  /\ \/ /\ flight' = IF flight < MaxFlight THEN flight + 1 ELSE flight
        /\ sys_timeout(b, SNTP_RECV_TIMEOUT, "sntp_retry")
     \/ /\ UNCHANGED flight
        /\ sys_timeout(b, SNTP_RETRY_TIMEOUT, "sntp_request")
  /\ UNCHANGED sntp_retry_timeout

-----------------------------------------------------------------------------
\* sntp_init: the random startup delay is less than a unit.
Init ==
  /\ timers = T!Started([e \in {} |-> 1], "sntp_request", 0)
  /\ sntp_retry_timeout = SNTP_RETRY_TIMEOUT
  /\ dns = 0
  /\ flight = 0
  /\ asserted = FALSE
  /\ quiet = SNTP_UPDATE_DELAY
  /\ kods = 0
  /\ lates = 0

Due(h) == {e \in T!DueFirst(DOMAIN timers) : e.left <= 0 /\ e.h = h}

\* dns_gethostbyname finds the name in its cache, asks a server, or fails.
sntp_request ==
  /\ ~asserted
  /\ \E e \in Due("sntp_request") :
       LET b == T!BagRemove(timers, e)
       IN \/ sntp_send_request(b) /\ UNCHANGED dns
          \/ /\ dns < MaxDns
             /\ dns' = dns + 1
             /\ timers' = b
             /\ UNCHANGED <<sntp_retry_timeout, flight, asserted>>
          \/ /\ sys_timeout(b, SNTP_RETRY_TIMEOUT, "sntp_retry")
             /\ UNCHANGED <<sntp_retry_timeout, dns, flight>>
  /\ UNCHANGED <<quiet, faults>>

\* The receive timeout.
RetryTimer ==
  /\ ~asserted
  /\ \E e \in Due("sntp_retry") : sntp_retry(T!BagRemove(timers, e))
  /\ UNCHANGED <<dns, flight, quiet, faults>>

\* Mutant of sntp_dns_found: gives up when the name was not resolved.
sntp_dns_found_or_quit(resolved) ==
  /\ ~asserted
  /\ dns > 0
  /\ dns' = dns - 1
  /\ IF resolved THEN sntp_send_request(timers)
     ELSE UNCHANGED <<timers, sntp_retry_timeout, asserted, flight>>
  /\ UNCHANGED <<quiet, faults>>

\* ipaddr is NULL when the name was not resolved.
sntp_dns_found(resolved) ==
  /\ ~asserted
  /\ dns > 0
  /\ dns' = dns - 1
  /\ IF resolved THEN sntp_send_request(timers) ELSE sntp_retry(timers) /\ UNCHANGED flight
  /\ UNCHANGED <<quiet, faults>>

\* An answer arrives, or a copy of one that is still on its way.
Arrival ==
  /\ ~asserted
  /\ flight > 0
  /\ (flight' = flight - 1 \/ (Copies /\ flight' = flight))

\* Mutants of RecvTime: the receive timeout is left running, and the next
\* request waits for the retry timeout only.
RecvTimeKeepsTimeout ==
  /\ Arrival
  /\ sys_timeout(T!Stopped(timers, "sntp_request"), SNTP_UPDATE_DELAY, "sntp_request")
  /\ sntp_retry_timeout' = SNTP_RETRY_TIMEOUT
  /\ quiet' = 0
  /\ UNCHANGED <<dns, faults>>

RecvTimeTooSoon ==
  /\ Arrival
  /\ sys_timeout(T!Stopped(T!Stopped(timers, "sntp_retry"), "sntp_request"),
                 sntp_retry_timeout, "sntp_request")
  /\ sntp_retry_timeout' = SNTP_RETRY_TIMEOUT
  /\ quiet' = 0
  /\ UNCHANGED <<dns, faults>>

\* sntp_recv with a correct answer; sntp_process sets and starts the RTC.
RecvTime ==
  /\ Arrival
  /\ sys_timeout(T!Stopped(T!Stopped(timers, "sntp_retry"), "sntp_request"),
                 SNTP_UPDATE_DELAY, "sntp_request")
  /\ sntp_retry_timeout' = SNTP_RETRY_TIMEOUT
  /\ quiet' = 0
  /\ UNCHANGED <<dns, faults>>

\* sntp_recv with a kiss of death.
RecvKod ==
  /\ kods < MaxKods
  /\ kods' = kods + 1
  /\ Arrival
  /\ sntp_retry(timers)
  /\ UNCHANGED <<dns, quiet, lates>>

\* An answer is lost, or is one sntp_recv ignores.
Lose ==
  /\ ~asserted
  /\ flight > 0
  /\ flight' = flight - 1
  /\ UNCHANGED <<timers, sntp_retry_timeout, dns, asserted, quiet, faults>>

\* The last of an answer's time to live: it is lost, or stays on its way.
Tick ==
  /\ ~asserted
  /\ dns = 0
  /\ \A e \in DOMAIN timers : e.left > 0
  /\ T!Tick
  /\ \/ flight' = 0 /\ UNCHANGED lates
     \/ flight > 0 /\ lates < MaxLates /\ lates' = lates + 1 /\ UNCHANGED flight
  /\ quiet' = IF quiet < SNTP_UPDATE_DELAY THEN quiet + 1 ELSE quiet
  /\ UNCHANGED <<sntp_retry_timeout, dns, asserted, kods>>

FireTimers == sntp_request \/ RetryTimer
DnsFound == \E resolved \in BOOLEAN : sntp_dns_found(resolved)

Next == FireTimers \/ DnsFound \/ RecvTime \/ RecvKod \/ Lose \/ Tick

\* The main loop runs due timers, DNS answers or gives up, time passes.
\* Nothing is asked of the server, the network or the memory.
Fairness == WF_vars(FireTimers) /\ WF_vars(DnsFound) /\ WF_vars(Tick)

Spec == Init /\ [][Next]_vars /\ Fairness
-----------------------------------------------------------------------------
(* Properties                                                               *)

Chains == Number(timers) + dns

\* Requests are carried by timers alone, in seven places that start one and
\* one that stops two (sntp.c:392, 531-538, 579, 588, 656, 688).  Whatever is
\* lost, copied, refused or out of memory, the client never falls silent and
\* has one attempt under way.  A kiss of death adds one, because it starts a
\* request and leaves the receive timeout running (line 546), and so can an
\* answer that comes so late that the next attempt already asks DNS.
OneAttemptPerFault == ~asserted /\ Chains \in 1 .. 1 + kods + lates

\* After a good answer no request leaves before SNTP_UPDATE_DELAY is over:
\* no timer of the attempt it ends survives it (sntp.c:531-538).
AsksAfterUpdateDelay ==
  [][flight' > flight /\ kods + lates = 0 => quiet = SNTP_UPDATE_DELAY]_vars

\* The assertion "sys_timeout: timeout != NULL, pool MEMP_SYS_TIMEOUT is
\* empty" (timeouts.c:190) does not stop the program.
PoolNeverEmpty == ~asserted

\* The client asks for the time for ever, whatever fails.
AsksForEver == []<><<sntp_request>>_vars
=============================================================================

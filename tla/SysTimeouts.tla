----------------------------- MODULE SysTimeouts -----------------------------
(***************************************************************************)
(* lwip/src/core/timeouts.c: the list of pending timeouts, kept sorted by  *)
(* due time on a millisecond clock that wraps, in a pool of fixed size.    *)
(*                                                                         *)
(* sys_check_timeouts samples the clock once and runs every timer due by   *)
(* then; SysTick advances the clock at any moment.  Handlers run in the    *)
(* middle of that loop and start and stop timers themselves, and a cyclic  *)
(* timer is only put back after its handler, into a pool slot the handler  *)
(* may have taken.                                                         *)
(***************************************************************************)
EXTENDS Integers, Sequences, SequencesExt, FiniteSets, FiniteSetsExt

CONSTANTS
  Cyclic,           \* the entries of lwip_cyclic_timers but tcp_tmr
  Interval,         \* their interval_ms
  TcpTimer,         \* tcpip_tcp_timer
  TcpInterval,      \* TCP_TMR_INTERVAL
  OneShots,         \* handlers of the users of sys_timeout
  Delays,           \* the delays they ask for
  MaxOneShots,      \* how many one-shot timers the users keep at a time
  PoolSize,         \* MEMP_NUM_SYS_TIMEOUT
  ClockModulus,     \* 2^32
  MaxLate,          \* by how much a timer can be late
  None

ASSUME HandlersAssumption ==
  /\ IsFiniteSet(Cyclic)
  /\ TcpTimer \notin Cyclic \union OneShots
  /\ Cyclic \intersect OneShots = {}
  /\ None \notin Cyclic \union OneShots \union {TcpTimer}
ASSUME NoneAssumption == None \notin [h : Cyclic \union OneShots \union {TcpTimer}, left : Int]
ASSUME ClockAssumption ==
  /\ ClockModulus \in Nat \ {0}
  /\ ClockModulus % 4 = 0
  /\ Interval \in [Cyclic -> 1 .. ClockModulus \div 4]
  /\ TcpInterval \in 1 .. ClockModulus \div 4
  /\ Delays \subseteq 0 .. ClockModulus \div 4
  /\ MaxLate \in 0 .. ClockModulus \div 4 - 1
ASSUME PoolAssumption == PoolSize \in Nat /\ MaxOneShots \in Nat

Handlers == Cyclic \union OneShots \union {TcpTimer}
U32 == 0 .. ClockModulus - 1

VARIABLES
  now,             \* sys_now()
  next_timeout,    \* the list: a sequence of [h, time]
  unstarted,       \* cyclic timers sys_timeouts_init has yet to start
  pc,              \* "init", "idle", "check", "handler" or "asserted"
  checkNow,        \* the clock as sys_check_timeouts sampled it, 0 outside
  handler,         \* the handler that runs, None otherwise
  current_timeout_due_time,   \* 0 when no handler runs: only they read it
  tcpip_tcp_timer_active,
  tcpPcbs          \* tcp_active_pcbs || tcp_tw_pcbs

vars == <<now, next_timeout, unstarted, pc, checkNow, handler,
          current_timeout_due_time, tcpip_tcp_timer_active, tcpPcbs>>

TypeOK ==
  /\ now \in U32
  /\ next_timeout \in Seq([h : Handlers, time : U32])
  /\ unstarted \subseteq Cyclic
  /\ pc \in {"init", "idle", "check", "handler", "asserted"}
  /\ checkNow \in U32
  /\ handler \in Handlers \union {None}
  /\ current_timeout_due_time \in U32
  /\ tcpip_tcp_timer_active \in BOOLEAN
  /\ tcpPcbs \in BOOLEAN

-----------------------------------------------------------------------------
LWIP_MAX_TIMEOUT == ClockModulus \div 2 - 1

TIME_LESS_THAN(t, compare_to) == (t - compare_to) % ClockModulus > LWIP_MAX_TIMEOUT

\* The time from now to t as a signed number, as long as it fits.
Left(t) ==
  LET d == (t - now) % ClockModulus
  IN IF d > LWIP_MAX_TIMEOUT THEN d - ClockModulus ELSE d

\* Mutant of Inserted: compares the times without regard to the wrap.
InsertedUnsigned(list, e) ==
  LET later == {i \in DOMAIN list : e.time < list[i].time}
  IN InsertAt(list, IF later = {} THEN Len(list) + 1 ELSE Min(later), e)

\* Behind all entries that are due no later.
Inserted(list, e) ==
  LET later == {i \in DOMAIN list : TIME_LESS_THAN(e.time, list[i].time)}
  IN InsertAt(list, IF later = {} THEN Len(list) + 1 ELSE Min(later), e)

Count(h) == Cardinality({i \in DOMAIN next_timeout : next_timeout[i].h = h})
OneShotCount == Cardinality({i \in DOMAIN next_timeout : next_timeout[i].h \in OneShots})

\* sys_timeout_abs in a step that leaves the thread at place `then': the
\* assertion that the pool is not empty stops the program.
sys_timeout_abs(abs_time, h, then) ==
  IF Len(next_timeout) < PoolSize
  THEN /\ next_timeout' = Inserted(next_timeout, [h |-> h, time |-> abs_time])
       /\ pc' = then
  ELSE /\ pc' = "asserted"
       /\ UNCHANGED next_timeout

\* Mutant of sys_timeout: the sum is wider than the clock.
sys_timeout_wide(msecs, h, then) == sys_timeout_abs(now + msecs, h, then)

sys_timeout(msecs, h, then) == sys_timeout_abs((now + msecs) % ClockModulus, h, then)

-----------------------------------------------------------------------------
Init ==
  /\ now \in U32
  /\ next_timeout = <<>>
  /\ unstarted = Cyclic
  /\ pc = "init"
  /\ checkNow = 0
  /\ handler = None
  /\ current_timeout_due_time = 0
  /\ tcpip_tcp_timer_active = FALSE
  /\ tcpPcbs = FALSE

\* One round of the loop in sys_timeouts_init; tcp_tmr is started on demand.
StartCyclic(c) ==
  /\ pc = "init"
  /\ c \in unstarted
  /\ sys_timeout(Interval[c], c, IF unstarted = {c} THEN "idle" ELSE "init")
  /\ unstarted' = unstarted \ {c}
  /\ UNCHANGED <<now, checkNow, handler, current_timeout_due_time,
                 tcpip_tcp_timer_active, tcpPcbs>>

-----------------------------------------------------------------------------
(* The users: the main loop when idle, the handlers when one runs           *)

UserTurn == pc \in {"idle", "handler"}

UserStart(h, msecs) ==
  /\ UserTurn
  /\ OneShotCount < MaxOneShots
  /\ sys_timeout(msecs, h, pc)
  /\ UNCHANGED <<now, unstarted, checkNow, handler, current_timeout_due_time,
                 tcpip_tcp_timer_active, tcpPcbs>>

\* Removes the first entry with the handler, if there is one.
sys_untimeout(h) ==
  /\ UserTurn
  /\ Count(h) > 0
  /\ next_timeout' =
       RemoveAt(next_timeout, Min({i \in DOMAIN next_timeout : next_timeout[i].h = h}))
  /\ UNCHANGED <<now, unstarted, pc, checkNow, handler, current_timeout_due_time,
                 tcpip_tcp_timer_active, tcpPcbs>>

\* Mutant of TcpNeeded: the timer is started for every first control block.
TcpNeededAlways ==
  /\ UserTurn
  /\ ~tcpPcbs
  /\ tcpPcbs' = TRUE
  /\ tcpip_tcp_timer_active' = TRUE
  /\ sys_timeout(TcpInterval, TcpTimer, pc)
  /\ UNCHANGED <<now, unstarted, checkNow, handler, current_timeout_due_time>>

\* TCP_REG of a first control block: tcp_timer_needed.
TcpNeeded ==
  /\ UserTurn
  /\ ~tcpPcbs
  /\ tcpPcbs' = TRUE
  /\ tcpip_tcp_timer_active' = TRUE
  /\ IF tcpip_tcp_timer_active
     THEN UNCHANGED <<next_timeout, pc>>
     ELSE sys_timeout(TcpInterval, TcpTimer, pc)
  /\ UNCHANGED <<now, unstarted, checkNow, handler, current_timeout_due_time>>

\* TCP_RMV of the last control block: the timer finds out by itself.
TcpUnneeded ==
  /\ UserTurn
  /\ tcpPcbs
  /\ tcpPcbs' = FALSE
  /\ UNCHANGED <<now, next_timeout, unstarted, pc, checkNow, handler,
                 current_timeout_due_time, tcpip_tcp_timer_active>>

-----------------------------------------------------------------------------
(* sys_check_timeouts                                                       *)

CheckBegin ==
  /\ pc = "idle"
  /\ pc' = "check"
  /\ checkNow' = now
  /\ UNCHANGED <<now, next_timeout, unstarted, handler, current_timeout_due_time,
                 tcpip_tcp_timer_active, tcpPcbs>>

\* Mutant of NoneDue: samples the clock again for every entry.
NoneDueNow == next_timeout # <<>> => TIME_LESS_THAN(now, Head(next_timeout).time)

NoneDue == next_timeout # <<>> => TIME_LESS_THAN(checkNow, Head(next_timeout).time)

CheckReturn ==
  /\ pc = "check"
  /\ NoneDue
  /\ pc' = "idle"
  /\ checkNow' = 0
  /\ UNCHANGED <<now, next_timeout, unstarted, handler,
                 current_timeout_due_time, tcpip_tcp_timer_active, tcpPcbs>>

\* Mutant of Expire: the entry stays in the list.
ExpireKeeps ==
  /\ pc = "check"
  /\ ~NoneDue
  /\ handler' = Head(next_timeout).h
  /\ current_timeout_due_time' = Head(next_timeout).time
  /\ pc' = "handler"
  /\ UNCHANGED <<now, next_timeout, unstarted, checkNow, tcpip_tcp_timer_active, tcpPcbs>>

\* Unlink the first entry, free it and call its handler.
Expire ==
  /\ pc = "check"
  /\ ~NoneDue
  /\ next_timeout' = Tail(next_timeout)
  /\ handler' = Head(next_timeout).h
  /\ current_timeout_due_time' = Head(next_timeout).time
  /\ pc' = "handler"
  /\ UNCHANGED <<now, unstarted, checkNow, tcpip_tcp_timer_active, tcpPcbs>>

HandlerDone == handler' = None /\ current_timeout_due_time' = 0

\* Mutant of CyclicReturn: a timer that has missed its next turn is dropped.
CyclicReturnDrops ==
  LET next == (current_timeout_due_time + Interval[handler]) % ClockModulus
  IN /\ pc = "handler"
     /\ handler \in Cyclic
     /\ IF TIME_LESS_THAN(next, now)
        THEN pc' = "check" /\ UNCHANGED next_timeout
        ELSE sys_timeout_abs(next, handler, "check")
     /\ HandlerDone
     /\ UNCHANGED <<now, unstarted, checkNow,
                    tcpip_tcp_timer_active, tcpPcbs>>

\* lwip_cyclic_timer after cyclic->handler().
CyclicReturn ==
  LET next == (current_timeout_due_time + Interval[handler]) % ClockModulus
  IN /\ pc = "handler"
     /\ handler \in Cyclic
     /\ sys_timeout_abs(IF TIME_LESS_THAN(next, now)
                        THEN (now + Interval[handler]) % ClockModulus
                        ELSE next,
                        handler, "check")
     /\ HandlerDone
     /\ UNCHANGED <<now, unstarted, checkNow,
                    tcpip_tcp_timer_active, tcpPcbs>>

\* Mutant of TcpReturn: tcpip_tcp_timer_active is left set.
TcpReturnActive ==
  /\ pc = "handler"
  /\ handler = TcpTimer
  /\ IF tcpPcbs
     THEN sys_timeout(TcpInterval, TcpTimer, "check")
     ELSE pc' = "check" /\ UNCHANGED next_timeout
  /\ HandlerDone
  /\ UNCHANGED <<now, unstarted, checkNow, tcpip_tcp_timer_active, tcpPcbs>>

\* tcpip_tcp_timer after tcp_tmr().
TcpReturn ==
  /\ pc = "handler"
  /\ handler = TcpTimer
  /\ IF tcpPcbs
     THEN /\ sys_timeout(TcpInterval, TcpTimer, "check")
          /\ UNCHANGED tcpip_tcp_timer_active
     ELSE /\ tcpip_tcp_timer_active' = FALSE
          /\ pc' = "check"
          /\ UNCHANGED next_timeout
  /\ HandlerDone
  /\ UNCHANGED <<now, unstarted, checkNow, tcpPcbs>>

OneShotReturn ==
  /\ pc = "handler"
  /\ handler \in OneShots
  /\ pc' = "check"
  /\ HandlerDone
  /\ UNCHANGED <<now, next_timeout, unstarted, checkNow, tcpip_tcp_timer_active, tcpPcbs>>

-----------------------------------------------------------------------------
\* SysTick_Handler: time_isr.  MaxLate bounds how long the thread leaves a due
\* timer, or a handler it has called, alone.
SysTick ==
  /\ \A i \in DOMAIN next_timeout : Left(next_timeout[i].time) > -MaxLate
  /\ handler # None => Left(current_timeout_due_time) > -MaxLate
  /\ pc = "check" => Left(checkNow) > -MaxLate
  /\ now' = (now + 1) % ClockModulus
  /\ UNCHANGED <<next_timeout, unstarted, pc, checkNow, handler,
                 current_timeout_due_time, tcpip_tcp_timer_active, tcpPcbs>>

Check == CheckBegin \/ CheckReturn \/ Expire

HandlerReturn == CyclicReturn \/ TcpReturn \/ OneShotReturn

Next ==
  \/ \E c \in Cyclic : StartCyclic(c)
  \/ \E h \in OneShots, d \in Delays : UserStart(h, d)
  \/ \E h \in OneShots : sys_untimeout(h)
  \/ TcpNeeded
  \/ TcpUnneeded
  \/ Check
  \/ HandlerReturn
  \/ SysTick

\* The main loop calls sys_check_timeouts for ever, handlers return, the clock
\* runs.
Fairness ==
  /\ \A c \in Cyclic : WF_vars(StartCyclic(c))
  /\ WF_vars(Check)
  /\ WF_vars(HandlerReturn)
  /\ WF_vars(SysTick)

Spec == Init /\ [][Next]_vars /\ Fairness
-----------------------------------------------------------------------------
(* Properties                                                               *)

Served(h) == IF handler = h THEN 1 ELSE 0

\* A cyclic timer is taken off the list before its handler runs and put back
\* after (timeouts.c:378, 246-255): at every moment exactly one of the list, the
\* running handler and sys_timeouts_init holds it.  A timer lost on any path
\* never runs again; one started twice runs at double rate for ever.
CyclicExactlyOnce ==
  pc # "asserted" =>
    \A c \in Cyclic : Count(c) + Served(c) + (IF c \in unstarted THEN 1 ELSE 0) = 1

\* tcpip_tcp_timer_active says whether the TCP timer is pending or running,
\* and it is whenever there are control blocks, although they come and go in
\* the middle of handlers, tcp_tmr among them (lines 144-176).
TcpTimerMatches ==
  pc # "asserted" =>
    /\ Count(TcpTimer) + Served(TcpTimer) = IF tcpip_tcp_timer_active THEN 1 ELSE 0
    /\ tcpPcbs => tcpip_tcp_timer_active

\* Line 190: "sys_timeout: timeout != NULL, pool MEMP_SYS_TIMEOUT is empty"
\* does not happen while the users keep no more one-shot timers than the pool
\* leaves them, though a handler may take the slot its own timer has freed.
PoolNeverEmpty == pc # "asserted"

\* The timers as their users see them: a bag of handlers and times left, and the
\* timer whose handler runs.
Pending ==
  ToBag([i \in DOMAIN next_timeout |->
           [h |-> next_timeout[i].h, left |-> Left(next_timeout[i].time)]])

Running ==
  IF handler = None THEN None
  ELSE [h |-> handler, left |-> Left(current_timeout_due_time)]

Service ==
  INSTANCE TimerService WITH
    OneShots <- OneShots \union {TcpTimer},
    MaxDelay <- ClockModulus \div 4,
    timers <- Pending,
    serving <- Running

\* The sorted list with its wrapping clock keeps the promises of TimerService:
\* no timer early, none out of order, none lost, cyclic timers in phase.
ImplementsTimerService == Service!Spec

\* sys_check_timeouts returns to the main loop however late the timers are:
\* it only runs what was due when it was called (lines 358-373), and a cyclic
\* timer that would be due again at once is put off (line 246).
ChecksReturn == []<>(pc = "idle")

\* Every cyclic timer runs again and again.
CyclicTimersKeepRunning == \A c \in Cyclic : []<>(handler = c)
=============================================================================

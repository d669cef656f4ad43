---------------------------- MODULE TimerService ----------------------------
(***************************************************************************)
(* What the timers of lwIP promise their users: a timer never runs before  *)
(* it is due, due timers run in the order of their due times, none is lost *)
(* and none runs twice, and a cyclic timer keeps its phase.  A timer is    *)
(* known by its handler and the time it has left, which goes negative when *)
(* it is late; there is no clock that wraps and no list.                   *)
(***************************************************************************)
EXTENDS Integers, BagsExt

CONSTANTS
  Cyclic,      \* the cyclic timers
  Interval,    \* the period of each of them
  OneShots,    \* handlers started and stopped by their users
  MaxDelay,    \* the longest delay a timer is started with
  None

Handlers == Cyclic \union OneShots

VARIABLES
  timers,      \* a bag of [h, left]
  serving      \* the timer whose handler runs, or None

vars == <<timers, serving>>

Timer(h, d) == [h |-> h, left |-> d]

Started(b, h, d) == BagAdd(b, Timer(h, d))

Of(b, h) == {e \in DOMAIN b : e.h = h}

DueFirst(es) == {e \in es : \A f \in es : e.left <= f.left}

\* Of several timers with one handler the one due first is stopped.
Stopped(b, h) ==
  IF Of(b, h) = {} THEN b ELSE BagRemove(b, CHOOSE e \in DueFirst(Of(b, h)) : TRUE)

Init == timers = [e \in {} |-> 1] /\ serving = None

Start(h, d) == timers' = Started(timers, h, d) /\ UNCHANGED serving

Stop(h) == timers' = Stopped(timers, h) /\ UNCHANGED serving

Fire ==
  /\ serving = None
  /\ \E e \in DueFirst(DOMAIN timers) :
       /\ e.left <= 0
       /\ timers' = BagRemove(timers, e)
       /\ serving' = e

\* A cyclic timer is due one interval after it was due, unless that is past.
Finish ==
  /\ serving # None
  /\ serving' = None
  /\ IF serving.h \in Cyclic
     THEN LET next == serving.left + Interval[serving.h]
          IN timers' = Started(timers, serving.h,
                               IF next < 0 THEN Interval[serving.h] ELSE next)
     ELSE \/ UNCHANGED timers
          \/ \E d \in 0 .. MaxDelay : timers' = Started(timers, serving.h, d)

Later(e) == [e EXCEPT !.left = @ - 1]

Tick ==
  /\ timers' = [e \in {Later(f) : f \in DOMAIN timers} |->
                  timers[[e EXCEPT !.left = @ + 1]]]
  /\ serving' = IF serving = None THEN None ELSE Later(serving)

Next ==
  \/ \E h \in Handlers, d \in 0 .. MaxDelay : Start(h, d)
  \/ \E h \in OneShots : Stop(h)
  \/ Fire
  \/ Finish
  \/ Tick

Spec == Init /\ [][Next]_vars
=============================================================================

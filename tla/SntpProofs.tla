------------------------------ MODULE SntpProofs ------------------------------
(***************************************************************************)
(* Proofs about Sntp, for all delays, every size of the pool, every number *)
(* of answers on their way, of kisses of death and of late answers.        *)
(***************************************************************************)
EXTENDS Sntp, FiniteSetTheorems, TLAPS

-----------------------------------------------------------------------------
(* Bags of timers                                                           *)

Entries == [h : Handlers, left : Delays]

\* What the bag of timers is.
Bag(b) == b \in [DOMAIN b -> Nat \ {0}] /\ DOMAIN b \subseteq Entries /\ IsFiniteSet(Timers(b))

\* The members of Timers.
LEMMA TimersAre ==
  ASSUME NEW b
  PROVE  /\ \A e, n : <<e, n>> \in Timers(b) <=> e \in DOMAIN b /\ n \in 1 .. b[e]
         /\ \A p \in Timers(b) : \E e \in DOMAIN b : \E n \in 1 .. b[e] : p = <<e, n>>
<1>1. \A e, n : <<e, n>> \in Timers(b) <=> e \in DOMAIN b /\ n \in 1 .. b[e]
  <2> TAKE e, n
  <2>1. ASSUME e \in DOMAIN b, n \in 1 .. b[e] PROVE <<e, n>> \in Timers(b)
    <3>1. <<e, n>> \in {e} \X (1 .. b[e])
      BY <2>1
    <3>2. {e} \X (1 .. b[e]) \in {{f} \X (1 .. b[f]) : f \in DOMAIN b}
      BY <2>1
    <3> QED
      BY <3>1, <3>2 DEF Timers
  <2>2. ASSUME <<e, n>> \in Timers(b) PROVE e \in DOMAIN b /\ n \in 1 .. b[e]
    <3>1. PICK f \in DOMAIN b : <<e, n>> \in {f} \X (1 .. b[f])
      BY <2>2 DEF Timers
    <3> QED
      BY <3>1
  <2> QED
    BY <2>1, <2>2
<1>2. \A p \in Timers(b) : \E e \in DOMAIN b : \E n \in 1 .. b[e] : p = <<e, n>>
  <2> TAKE p \in Timers(b)
  <2>1. PICK e \in DOMAIN b : p \in {e} \X (1 .. b[e])
    BY DEF Timers
  <2>2. PICK n \in 1 .. b[e] : p = <<e, n>>
    BY <2>1
  <2> QED
    BY <2>2
<1> QED
  BY <1>1, <1>2

\* A member of Timers is the number of a copy.
LEMMA TimerIs ==
  ASSUME NEW b, NEW p \in Timers(b)
  PROVE  \E e, n : e \in DOMAIN b /\ n \in 1 .. b[e] /\ p = <<e, n>>
BY TimersAre

\* Renaming the entries of a bag leaves it as many timers.
LEMMA RenamedTimers ==
  ASSUME NEW b, NEW c, NEW to \in [DOMAIN b -> DOMAIN c],
         \A f, g \in DOMAIN b : to[f] = to[g] => f = g,
         \A e \in DOMAIN c : \E f \in DOMAIN b : to[f] = e,
         \A f \in DOMAIN b : c[to[f]] = b[f]
  PROVE  ExistsBijection(Timers(b), Timers(c))
<1> DEFINE shift == [p \in Timers(b) |-> <<to[p[1]], p[2]>>]
<1>1. ASSUME NEW p \in Timers(b)
      PROVE  p[1] \in DOMAIN b /\ p = <<p[1], p[2]>> /\ <<to[p[1]], p[2]>> \in Timers(c)
  <2>1. PICK e, n : e \in DOMAIN b /\ n \in 1 .. b[e] /\ p = <<e, n>>
    BY TimerIs
  <2>2. <<to[e], n>> \in Timers(c)
    BY <2>1, TimersAre
  <2> QED
    BY <2>1, <2>2
<1>2. shift \in [Timers(b) -> Timers(c)] /\ \A p \in Timers(b) : shift[p] = <<to[p[1]], p[2]>>
  BY <1>1
<1> HIDE DEF shift
<1>3. ASSUME NEW p \in Timers(b), NEW q \in Timers(b), shift[p] = shift[q] PROVE p = q
  <2>1. to[p[1]] = to[q[1]] /\ p[2] = q[2]
    BY <1>2, <1>3
  <2>2. /\ p[1] \in DOMAIN b /\ p = <<p[1], p[2]>>
        /\ q[1] \in DOMAIN b /\ q = <<q[1], q[2]>>
    BY <1>1
  <2>3. p[1] = q[1]
    BY <2>1, <2>2
  <2> QED
    BY <2>1, <2>2, <2>3, Zenon
<1>4. ASSUME NEW r \in Timers(c) PROVE \E p \in Timers(b) : shift[p] = r
  <2>1. PICK e, n : e \in DOMAIN c /\ n \in 1 .. c[e] /\ r = <<e, n>>
    BY TimerIs
  <2>2. PICK f \in DOMAIN b : to[f] = e
    BY <2>1
  <2>3. <<f, n>> \in Timers(b)
    BY <2>1, <2>2, TimersAre
  <2> QED
    BY <1>2, <2>1, <2>2, <2>3
<1>5. shift \in Bijection(Timers(b), Timers(c))
  BY <1>2, <1>3, <1>4 DEF Bijection, Injection, Surjection, IsInjective
<1> QED
  BY <1>5 DEF ExistsBijection

\* Two bags with the same timers but one.
LEMMA OneMoreTimer ==
  ASSUME NEW b, NEW c, IsFiniteSet(Timers(b)), NEW x, NEW m \in Nat \ {0},
         x \in DOMAIN b => b[x] = m - 1, x \notin DOMAIN b => m = 1,
         \A e \in DOMAIN b : b[e] \in Nat,
         DOMAIN c = DOMAIN b \union {x}, c[x] = m,
         \A e \in DOMAIN b : e # x => c[e] = b[e]
  PROVE  IsFiniteSet(Timers(c)) /\ Number(b) \in Nat /\ Number(c) = Number(b) + 1
<1>1. \A e, n : <<e, n>> \in Timers(c) <=> <<e, n>> \in Timers(b) \/ (e = x /\ n = m)
  <2> SUFFICES ASSUME NEW e, NEW n
               PROVE  <<e, n>> \in Timers(c) <=> <<e, n>> \in Timers(b) \/ (e = x /\ n = m)
    OBVIOUS
  <2>1. /\ <<e, n>> \in Timers(c) <=> e \in DOMAIN c /\ n \in 1 .. c[e]
        /\ <<e, n>> \in Timers(b) <=> e \in DOMAIN b /\ n \in 1 .. b[e]
    BY TimersAre
  <2>2. CASE e # x
    BY <2>1, <2>2
  <2>3. CASE e = x /\ x \in DOMAIN b
    <3>1. n \in 1 .. m <=> n \in 1 .. m - 1 \/ n = m
      OBVIOUS
    <3> QED
      BY <2>1, <2>3, <3>1
  <2>4. CASE e = x /\ x \notin DOMAIN b
    <3>1. n \in 1 .. 1 <=> n = 1
      OBVIOUS
    <3> QED
      BY <2>1, <2>4, <3>1
  <2> QED
    BY <2>2, <2>3, <2>4
<1>2. Timers(c) = Timers(b) \union {<<x, m>>}
  <2>1. ASSUME NEW p \in Timers(c) PROVE p \in Timers(b) \union {<<x, m>>}
    <3>1. PICK e, n : p = <<e, n>>
      BY TimerIs
    <3> QED
      BY <1>1, <3>1
  <2>2. ASSUME NEW p \in Timers(b) PROVE p \in Timers(c)
    <3>1. PICK e, n : p = <<e, n>>
      BY TimerIs
    <3> QED
      BY <1>1, <3>1
  <2>3. <<x, m>> \in Timers(c)
    BY <1>1
  <2> QED
    BY <2>1, <2>2, <2>3
<1>3. <<x, m>> \notin Timers(b)
  <2>1. <<x, m>> \in Timers(b) <=> x \in DOMAIN b /\ m \in 1 .. b[x]
    BY TimersAre
  <2> QED
    BY <2>1
<1>4. PICK S : S = Timers(b) /\ IsFiniteSet(S)
  OBVIOUS
<1>5. /\ IsFiniteSet(S \union {<<x, m>>}) /\ Cardinality(S) \in Nat
      /\ Cardinality(S \union {<<x, m>>}) = Cardinality(S) + 1
  <2>1. <<x, m>> \notin S
    BY <1>3, <1>4
  <2> QED
    BY <1>4, <2>1, FS_AddElement, FS_CardinalityType
<1>6. Timers(c) = S \union {<<x, m>>}
  BY <1>2, <1>4
<1> QED
  BY <1>4, <1>5, <1>6 DEF Number

\* Starting a timer.
LEMMA AddOne ==
  ASSUME NEW b, Bag(b), NEW x \in Entries
  PROVE  /\ Bag(T!BagAdd(b, x)) /\ Number(b) \in Nat /\ Number(T!BagAdd(b, x)) = Number(b) + 1
         /\ DOMAIN T!BagAdd(b, x) = DOMAIN b \union {x}
<1>0. \A e \in DOMAIN b : b[e] \in Nat \ {0}
  BY DEF Bag
<1>1. PICK c : c = T!BagAdd(b, x)
  OBVIOUS
<1>2. PICK m \in Nat \ {0} : m = IF x \in DOMAIN b THEN b[x] + 1 ELSE 1
  BY <1>0
<1>3. /\ DOMAIN c = DOMAIN b \union {x} /\ c[x] = m
      /\ \A e \in DOMAIN b : e # x => c[e] = b[e]
      /\ c \in [DOMAIN c -> Nat \ {0}]
  <2>1. CASE x \in DOMAIN b
    <3>1. c = [e \in DOMAIN b |-> IF e = x THEN b[e] + 1 ELSE b[e]]
      BY <1>1, <2>1 DEF T!BagAdd
    <3>2. DOMAIN c = DOMAIN b /\ \A e \in DOMAIN b : c[e] = IF e = x THEN b[e] + 1 ELSE b[e]
      BY <3>1
    <3>3. c \in [DOMAIN b -> Nat \ {0}]
      BY <1>0, <3>1
    <3> QED
      BY <1>0, <1>2, <2>1, <3>2, <3>3
  <2>2. CASE x \notin DOMAIN b
    <3>1. c = [e \in DOMAIN b \union {x} |-> IF e = x THEN 1 ELSE b[e]]
      BY <1>1, <2>2 DEF T!BagAdd
    <3> QED
      BY <1>0, <1>2, <2>2, <3>1
  <2> QED
    BY <2>1, <2>2
<1>4. IsFiniteSet(Timers(c)) /\ Number(b) \in Nat /\ Number(c) = Number(b) + 1
  <2>1. (x \in DOMAIN b => b[x] = m - 1) /\ (x \notin DOMAIN b => m = 1)
    BY <1>0, <1>2
  <2>2. IsFiniteSet(Timers(b)) /\ \A e \in DOMAIN b : b[e] \in Nat
    BY <1>0 DEF Bag
  <2> QED
    BY <1>3, <2>1, <2>2, OneMoreTimer
<1> QED
  BY <1>1, <1>3, <1>4 DEF Bag

\* A timer that runs out.
LEMMA RemoveOne ==
  ASSUME NEW b, Bag(b), NEW x \in DOMAIN b
  PROVE  /\ Bag(T!BagRemove(b, x)) /\ Number(T!BagRemove(b, x)) \in Nat
         /\ Number(b) = Number(T!BagRemove(b, x)) + 1
         /\ DOMAIN T!BagRemove(b, x) \subseteq DOMAIN b
         /\ \A e \in DOMAIN b : e # x => e \in DOMAIN T!BagRemove(b, x)
<1>0. \A e \in DOMAIN b : b[e] \in Nat \ {0}
  BY DEF Bag
<1>1. PICK c : c = T!BagRemove(b, x)
  OBVIOUS
<1>2. PICK m \in Nat \ {0} : m = b[x]
  BY <1>0
<1>3. /\ DOMAIN b = DOMAIN c \union {x} /\ (x \in DOMAIN c => c[x] = m - 1)
      /\ (x \notin DOMAIN c => m = 1)
      /\ \A e \in DOMAIN c : e # x => b[e] = c[e]
      /\ c \in [DOMAIN c -> Nat \ {0}]
  <2>1. CASE b[x] = 1
    <3>1. c = [e \in DOMAIN b \ {x} |-> b[e]]
      BY <1>1, <2>1 DEF T!BagRemove
    <3> QED
      BY <1>0, <1>2, <2>1, <3>1
  <2>2. CASE b[x] # 1
    <3>1. c = [e \in DOMAIN b |-> IF e = x THEN b[e] - 1 ELSE b[e]]
      BY <1>1, <2>2 DEF T!BagRemove
    <3>2. DOMAIN c = DOMAIN b /\ \A e \in DOMAIN b : c[e] = IF e = x THEN b[e] - 1 ELSE b[e]
      BY <3>1
    <3>3. c \in [DOMAIN b -> Nat \ {0}]
      <4>1. \A e \in DOMAIN b : (IF e = x THEN b[e] - 1 ELSE b[e]) \in Nat \ {0}
        BY <1>0, <2>2
      <4> QED
        BY <3>1, <4>1
    <3> QED
      BY <1>0, <1>2, <2>2, <3>2, <3>3
  <2> QED
    BY <2>1, <2>2
<1>4. \A e \in DOMAIN c : c[e] \in Nat
  BY <1>3
<1>5. IsFiniteSet(Timers(c))
  <2>1. Timers(c) \subseteq Timers(b)
    <3> SUFFICES ASSUME NEW p \in Timers(c) PROVE p \in Timers(b)
      OBVIOUS
    <3>1. PICK e \in DOMAIN c : \E n \in 1 .. c[e] : p = <<e, n>>
      BY TimersAre
    <3>2. PICK n \in 1 .. c[e] : p = <<e, n>>
      BY <3>1
    <3>3. e \in DOMAIN b /\ n \in 1 .. b[e]
      BY <1>2, <1>3, <1>4
    <3>4. <<e, n>> \in Timers(b)
      BY <3>3, TimersAre
    <3> QED
      BY <3>2, <3>4
  <2>2. PICK S : S = Timers(b) /\ IsFiniteSet(S)
    BY DEF Bag
  <2>3. Timers(c) \in SUBSET S
    BY <2>1, <2>2
  <2> QED
    BY <2>2, <2>3, FS_Subset
<1>6. Number(c) \in Nat /\ Number(b) = Number(c) + 1
  BY <1>2, <1>3, <1>4, <1>5, OneMoreTimer
<1> QED
  BY <1>1, <1>3, <1>5, <1>6 DEF Bag

\* A bag with no timer is empty.
LEMMA NoTimer ==
  ASSUME NEW b, Bag(b)
  PROVE  Number(b) \in Nat /\ (Number(b) = 0 <=> DOMAIN b = {})
<1>1. Number(b) \in Nat /\ (Number(b) = 0 <=> Timers(b) = {})
  <2>1. PICK S : S = Timers(b) /\ IsFiniteSet(S)
    BY DEF Bag
  <2>2. Cardinality(S) \in Nat /\ (Cardinality(S) = 0 <=> S = {})
    BY <2>1, FS_EmptySet, FS_CardinalityType
  <2> QED
    BY <2>1, <2>2 DEF Number
<1>2. ASSUME NEW e \in DOMAIN b PROVE Timers(b) # {}
  <2>1. 1 \in 1 .. b[e]
    BY DEF Bag
  <2> QED
    BY <2>1, TimersAre
<1>3. ASSUME NEW p \in Timers(b) PROVE DOMAIN b # {}
  BY TimersAre
<1> QED
  BY <1>1, <1>2, <1>3

-----------------------------------------------------------------------------
(* What the client does with its timers                                     *)

\* The delays timers are started with.
LEMMA DelaysAre ==
  /\ SNTP_RECV_TIMEOUT \in Delays /\ SNTP_RECV_TIMEOUT >= 1
  /\ SNTP_RETRY_TIMEOUT \in Delays /\ SNTP_RETRY_TIMEOUT >= 1
  /\ SNTP_UPDATE_DELAY \in Delays /\ SNTP_UPDATE_DELAY \in Nat \ {0}
  /\ \A t \in SNTP_RETRY_TIMEOUT .. SNTP_RETRY_TIMEOUT_MAX : t \in Delays /\ t >= 1
BY DelaysAssumption DEF Delays

\* A timer is started when a slot is left for it, and otherwise the pool is empty.
LEMMA TimerStarted ==
  ASSUME NEW b, Bag(b), NEW msecs \in Delays, NEW h \in Handlers, sys_timeout(b, msecs, h)
  PROVE  \/ /\ Bag(timers') /\ Number(timers') = Number(b) + 1 /\ Number(timers') <= Slots
            /\ asserted' = asserted /\ Number(b) < Slots
            /\ DOMAIN timers' = DOMAIN b \union {[h |-> h, left |-> msecs]}
         \/ timers' = b /\ asserted' = TRUE /\ ~ (Number(b) < Slots)
<1>1. CASE Number(b) < Slots
  <2>1. PICK x \in Entries : x = [h |-> h, left |-> msecs]
    BY DEF Entries
  <2>2. timers' = T!BagAdd(b, x) /\ asserted' = asserted
    BY <1>1, <2>1 DEF sys_timeout, T!Started, T!Timer
  <2>3. PICK c : c = T!BagAdd(b, x)
    OBVIOUS
  <2>4. Bag(c) /\ Number(c) = Number(b) + 1 /\ DOMAIN c = DOMAIN b \union {x} /\ Number(b) \in Nat
    BY <2>3, AddOne
  <2>5. Number(c) <= Slots
    BY <1>1, <2>4, BoundsAssumption
  <2> QED
    BY <1>1, <2>1, <2>2, <2>3, <2>4, <2>5
<1>2. CASE ~ (Number(b) < Slots)
  BY <1>2 DEF sys_timeout
<1> QED
  BY <1>1, <1>2

\* Of several timers one is due first: the intervals 0 .. left of the timers are
\* finite sets, and strict inclusion of finite sets is well-founded.
LEMMA OneIsFirst ==
  ASSUME NEW E, E \subseteq Entries, E # {}
  PROVE  \E e \in E : e \in T!DueFirst(E)
<1> DEFINE U == {0 .. e.left : e \in E}
           R == StrictSubsetOrdering(Nat)
<1>0. \A e \in E : e.left \in Nat
  BY DEF Entries, Delays
<1>1. U \subseteq FiniteSubsetsOf(Nat)
  <2>1. \A e \in E : IsFiniteSet(0 .. e.left) /\ 0 .. e.left \subseteq Nat
    BY <1>0, FS_Interval
  <2> QED
    BY <2>1 DEF FiniteSubsetsOf
<1>2. U # {}
  OBVIOUS
<1>3. IsWellFoundedOn(R, FiniteSubsetsOf(Nat))
  BY FS_StrictSubsetOrderingWellFounded
<1>4. \E u \in U : \A v \in U : ~ (<<v, u>> \in R)
  <2> HIDE DEF U, R
  <2> QED
    BY <1>1, <1>2, <1>3, WFMin
<1>5. PICK e \in E : \A v \in U : ~ (<<v, 0 .. e.left>> \in R)
  BY <1>4
<1>6. ASSUME NEW f \in E, f.left < e.left PROVE FALSE
  <2>1. PICK i \in Nat, j \in Nat : i = f.left /\ j = e.left /\ i < j
    BY <1>0, <1>6
  <2>2. 0 .. i \in SUBSET Nat /\ 0 .. j \in SUBSET Nat /\ 0 .. i \subseteq 0 .. j
    BY <2>1
  <2>3. j \in 0 .. j /\ j \notin 0 .. i
    BY <2>1
  <2>4. <<0 .. i, 0 .. j>> \in R
    BY <2>2, <2>3 DEF StrictSubsetOrdering
  <2>5. 0 .. f.left \in U
    OBVIOUS
  <2> QED
    BY <1>5, <2>1, <2>4, <2>5
<1>7. \A f \in E : e.left <= f.left
  BY <1>0, <1>6
<1> QED
  BY <1>7 DEF T!DueFirst

\* A timer of the handler is stopped, if there is one.
LEMMA TimerStopped ==
  ASSUME NEW b, Bag(b), NEW h
  PROVE  /\ Bag(T!Stopped(b, h)) /\ Number(T!Stopped(b, h)) \in Nat /\ Number(b) \in Nat
         /\ Number(T!Stopped(b, h)) <= Number(b)
         /\ (\E e \in DOMAIN b : e.h = h) => Number(T!Stopped(b, h)) = Number(b) - 1
         /\ \A e \in DOMAIN b : e.h # h => e \in DOMAIN T!Stopped(b, h)
<1>1. CASE T!Of(b, h) = {}
  <2>1. T!Stopped(b, h) = b
    BY <1>1 DEF T!Stopped
  <2>2. ~ \E e \in DOMAIN b : e.h = h
    BY <1>1 DEF T!Of
  <2>3. Number(b) \in Nat
    BY NoTimer
  <2> QED
    BY <2>1, <2>2, <2>3
<1>2. CASE T!Of(b, h) # {}
  <2>1. PICK E : E = T!Of(b, h)
    OBVIOUS
  <2>2. E \subseteq DOMAIN b /\ E # {} /\ E \subseteq Entries /\ \A e \in E : e.h = h
    BY <1>2, <2>1 DEF T!Of, Bag
  <2>3. PICK x : x = CHOOSE e \in T!DueFirst(E) : TRUE
    OBVIOUS
  <2>4. x \in T!DueFirst(E)
    BY <2>2, <2>3, OneIsFirst
  <2>5. x \in DOMAIN b /\ x.h = h
    BY <2>2, <2>4 DEF T!DueFirst
  <2>6. T!Stopped(b, h) = T!BagRemove(b, x)
    BY <1>2, <2>1, <2>3 DEF T!Stopped
  <2>7. PICK c : c = T!BagRemove(b, x)
    OBVIOUS
  <2>8. Bag(c) /\ Number(c) \in Nat /\ Number(b) = Number(c) + 1
        /\ \A e \in DOMAIN b : e # x => e \in DOMAIN c
    BY <2>5, <2>7, RemoveOne
  <2> QED
    BY <2>5, <2>6, <2>7, <2>8
<1> QED
  BY <1>1, <1>2

\* A good answer stops both timers of an attempt under way: one at least is stopped
\* when there is one.
LEMMA BothStopped ==
  ASSUME NEW b, Bag(b), NEW c, c = T!Stopped(T!Stopped(b, "sntp_retry"), "sntp_request")
  PROVE  /\ Bag(c) /\ Number(c) \in Nat /\ Number(b) \in Nat /\ Number(c) <= Number(b)
         /\ DOMAIN b # {} => Number(c) < Number(b)
<1>1. PICK a : a = T!Stopped(b, "sntp_retry")
  OBVIOUS
<1>2. /\ Bag(a) /\ Number(a) \in Nat /\ Number(b) \in Nat /\ Number(a) <= Number(b)
      /\ (\E e \in DOMAIN b : e.h = "sntp_retry") => Number(a) = Number(b) - 1
      /\ \A e \in DOMAIN b : e.h # "sntp_retry" => e \in DOMAIN a
  BY <1>1, TimerStopped
<1>3. /\ Bag(c) /\ Number(c) \in Nat /\ Number(c) <= Number(a)
      /\ (\E e \in DOMAIN a : e.h = "sntp_request") => Number(c) = Number(a) - 1
  BY <1>1, <1>2, TimerStopped
<1>4. ASSUME NEW e \in DOMAIN b PROVE Number(c) < Number(b)
  <2>1. e.h \in {"sntp_request", "sntp_retry"}
    BY DEF Bag, Entries, Handlers
  <2>2. CASE e.h = "sntp_retry"
    BY <1>2, <1>3, <2>2
  <2>3. CASE e.h = "sntp_request"
    BY <1>2, <1>3, <2>3
  <2> QED
    BY <2>1, <2>2, <2>3
<1> QED
  BY <1>2, <1>3, <1>4

\* Time passes: as many timers, each with less left.
LEMMA TimeLess ==
  ASSUME NEW b, Bag(b), \A e \in DOMAIN b : e.left > 0, NEW c,
         c = [e \in {T!Later(f) : f \in DOMAIN b} |-> b[[e EXCEPT !.left = @ + 1]]]
  PROVE  /\ Bag(c) /\ Number(c) = Number(b)
         /\ DOMAIN c = {T!Later(f) : f \in DOMAIN b}
         /\ \A f \in Entries : T!Later(f).h = f.h /\ T!Later(f).left = f.left - 1
<1> DEFINE sooner(e) == [e EXCEPT !.left = @ + 1]
<1>1. \A f \in Entries : /\ T!Later(f) = [h |-> f.h, left |-> f.left - 1]
                         /\ sooner(T!Later(f)) = f
                         /\ f.left \in Nat /\ f.h \in Handlers
  <2> TAKE f \in Entries
  <2>1. f.h \in Handlers /\ f.left \in Nat /\ f = [h |-> f.h, left |-> f.left]
    BY DEF Entries, Delays
  <2>2. PICK n \in Nat, k \in Handlers : n = f.left /\ k = f.h /\ f = [h |-> k, left |-> n]
    BY <2>1
  <2>3. T!Later(f) = [h |-> k, left |-> n - 1]
    BY <2>2 DEF T!Later
  <2>4. sooner([h |-> k, left |-> n - 1]) = [h |-> k, left |-> n]
    <3>1. sooner([h |-> k, left |-> n - 1]) = [h |-> k, left |-> (n - 1) + 1]
      OBVIOUS
    <3> QED
      BY <3>1
  <2> QED
    BY <2>2, <2>3, <2>4
<1>2. DOMAIN c = {T!Later(f) : f \in DOMAIN b}
  OBVIOUS
<1>3. \A f \in DOMAIN b : T!Later(f) \in DOMAIN c /\ c[T!Later(f)] = b[f]
  <2> TAKE f \in DOMAIN b
  <2>1. f \in Entries
    BY DEF Bag
  <2>2. sooner(T!Later(f)) = f
    BY <1>1, <2>1
  <2> QED
    BY <2>2
<1>4. DOMAIN c \subseteq Entries
  <2> SUFFICES ASSUME NEW f \in DOMAIN b PROVE T!Later(f) \in Entries
    BY <1>2
  <2>1. f \in Entries /\ f.left > 0
    BY DEF Bag
  <2>2. f.left - 1 \in Delays
    <3>1. f.left \in Delays
      BY <2>1 DEF Entries
    <3> QED
      BY <2>1, <3>1, DelaysAssumption DEF Delays
  <2> QED
    BY <1>1, <2>1, <2>2 DEF Entries
<1>5. c \in [DOMAIN c -> Nat \ {0}]
  <2>1. ASSUME NEW e \in DOMAIN c PROVE c[e] \in Nat \ {0}
    <3>1. PICK f \in DOMAIN b : e = T!Later(f)
      BY <1>2
    <3>2. c[e] = b[f]
      BY <1>3, <3>1
    <3> QED
      BY <3>2 DEF Bag
  <2> QED
    BY <2>1
<1>6. ExistsBijection(Timers(b), Timers(c))
  <2> DEFINE to == [f \in DOMAIN b |-> T!Later(f)]
  <2>1. to \in [DOMAIN b -> DOMAIN c] /\ \A f \in DOMAIN b : to[f] = T!Later(f)
    BY <1>2
  <2> HIDE DEF to
  <2>2. ASSUME NEW f \in DOMAIN b, NEW g \in DOMAIN b, to[f] = to[g] PROVE f = g
    <3>1. f \in Entries /\ g \in Entries
      BY DEF Bag
    <3>2. T!Later(f) = T!Later(g)
      BY <2>1, <2>2
    <3>3. sooner(T!Later(f)) = f /\ sooner(T!Later(g)) = g
      BY <1>1, <3>1
    <3> QED
      BY <3>2, <3>3
  <2>3. ASSUME NEW e \in DOMAIN c PROVE \E f \in DOMAIN b : to[f] = e
    BY <1>2, <2>1
  <2>4. \A f \in DOMAIN b : c[to[f]] = b[f]
    BY <1>3, <2>1
  <2> QED
    BY <2>1, <2>2, <2>3, <2>4, RenamedTimers
<1>7. IsFiniteSet(Timers(c)) /\ Number(c) = Number(b)
  BY <1>6, FS_Bijection DEF Bag, Number
<1> QED
  BY <1>1, <1>2, <1>4, <1>5, <1>7 DEF Bag

-----------------------------------------------------------------------------
(* Types                                                                    *)

Rest ==
  /\ sntp_retry_timeout \in SNTP_RETRY_TIMEOUT .. SNTP_RETRY_TIMEOUT_MAX
  /\ dns \in 0 .. MaxDns
  /\ flight \in 0 .. MaxFlight
  /\ asserted \in BOOLEAN
  /\ quiet \in 0 .. SNTP_UPDATE_DELAY
  /\ kods \in 0 .. MaxKods
  /\ lates \in 0 .. MaxLates

TypeInv == Bag(timers) /\ Number(timers) <= Slots /\ Rest

\* A timer that has time left carries the next step.
Busy == \E e \in DOMAIN timers : e.left >= 1

\* What a step makes of the timers b it has left: one more, or an assertion.
OneMore(b) ==
  /\ Bag(timers') /\ Number(timers') = Number(b) + 1 /\ Number(timers') <= Slots
  /\ asserted' = asserted /\ Busy'

Full(b) == timers' = b /\ ~ (Number(b) < Slots) /\ asserted' = TRUE

\* Bounds and delays are numbers.
LEMMA BoundsAre ==
  /\ Slots \in Nat \ {0} /\ MaxDns \in Nat \ {0} /\ MaxFlight \in Nat \ {0}
  /\ MaxKods \in Nat /\ MaxLates \in Nat /\ SNTP_UPDATE_DELAY \in Nat \ {0}
  /\ SNTP_RETRY_TIMEOUT \in Nat \ {0} /\ SNTP_RETRY_TIMEOUT_MAX \in Nat
  /\ SNTP_RETRY_TIMEOUT <= SNTP_RETRY_TIMEOUT_MAX
BY BoundsAssumption, DelaysAssumption

\* All timers but the first are started with a delay.
LEMMA DelayStarted ==
  ASSUME NEW b, Bag(b), NEW msecs \in Delays, msecs >= 1, NEW h \in Handlers, sys_timeout(b, msecs, h)
  PROVE  OneMore(b) \/ Full(b)
<1>1. PICK x : x = [h |-> h, left |-> msecs]
  OBVIOUS
<1>2. x.left >= 1
  BY <1>1
<1>3. \/ /\ Bag(timers') /\ Number(timers') = Number(b) + 1 /\ Number(timers') <= Slots
         /\ asserted' = asserted
         /\ x \in DOMAIN timers'
      \/ Full(b)
  BY <1>1, TimerStarted DEF Full
<1> QED
  BY <1>2, <1>3 DEF OneMore, Busy

\* A request is sent, or the next attempt waits for memory.
LEMMA Sends ==
  ASSUME NEW b, Bag(b), Rest, sntp_send_request(b)
  PROVE  (OneMore(b) \/ Full(b)) /\ flight' \in 0 .. MaxFlight /\ sntp_retry_timeout' = sntp_retry_timeout
<1>1. flight' \in 0 .. MaxFlight
  BY BoundsAre DEF Rest, sntp_send_request
<1>2. CASE sys_timeout(b, SNTP_RECV_TIMEOUT, "sntp_retry")
  <2>1. PICK h \in Handlers, msecs \in Delays : h = "sntp_retry" /\ msecs = SNTP_RECV_TIMEOUT /\ msecs >= 1
    BY DelaysAre DEF Handlers
  <2> QED
    BY <1>1, <1>2, <2>1, DelayStarted DEF sntp_send_request
<1>3. CASE sys_timeout(b, SNTP_RETRY_TIMEOUT, "sntp_request")
  <2>1. PICK h \in Handlers, msecs \in Delays : h = "sntp_request" /\ msecs = SNTP_RETRY_TIMEOUT /\ msecs >= 1
    BY DelaysAre DEF Handlers
  <2> QED
    BY <1>1, <1>3, <2>1, DelayStarted DEF sntp_send_request
<1> QED
  BY <1>1, <1>2, <1>3 DEF sntp_send_request

\* The next attempt after the retry timeout, which is doubled up to its limit.
LEMMA Retries ==
  ASSUME NEW b, Bag(b), Rest, sntp_retry(b)
  PROVE  /\ OneMore(b) \/ Full(b)
         /\ sntp_retry_timeout' \in SNTP_RETRY_TIMEOUT .. SNTP_RETRY_TIMEOUT_MAX
<1>1. sntp_retry_timeout \in Delays /\ sntp_retry_timeout >= 1
  BY DelaysAre DEF Rest
<1>2. OneMore(b) \/ Full(b)
  BY <1>1, DelayStarted DEF sntp_retry, Handlers
<1>3. sntp_retry_timeout' \in SNTP_RETRY_TIMEOUT .. SNTP_RETRY_TIMEOUT_MAX
  BY BoundsAre DEF Rest, sntp_retry
<1> QED
  BY <1>2, <1>3

\* A timer due at once.
LEMMA InitTypes == Init => TypeInv /\ Number(timers) = 1 /\ flight = 0
<1> SUFFICES ASSUME Init PROVE TypeInv /\ Number(timers) = 1 /\ flight = 0
  OBVIOUS
<1>1. PICK b : b = [e \in {} |-> 1]
  OBVIOUS
<1>2. b \in [DOMAIN b -> Nat \ {0}] /\ DOMAIN b = {}
  BY <1>1
<1>3. Timers(b) = {}
  BY <1>2, TimersAre
<1>4. Bag(b) /\ Number(b) = 0
  BY <1>2, <1>3, FS_EmptySet DEF Bag, Number
<1>5. PICK x \in Entries : x = [h |-> "sntp_request", left |-> 0]
  <2>1. 0 \in Delays
    BY DelaysAssumption DEF Delays
  <2> QED
    BY <2>1 DEF Entries, Handlers
<1>6. timers = T!BagAdd(b, x)
  BY <1>1, <1>5 DEF Init, T!Started, T!Timer
<1>7. PICK c : c = T!BagAdd(b, x)
  OBVIOUS
<1>8. Bag(c) /\ Number(c) = Number(b) + 1
  BY <1>4, <1>7, AddOne
<1>9. Bag(timers) /\ Number(timers) = 1
  BY <1>4, <1>6, <1>7, <1>8
<1>10. Rest /\ flight = 0
  <2>1. /\ SNTP_RETRY_TIMEOUT \in SNTP_RETRY_TIMEOUT .. SNTP_RETRY_TIMEOUT_MAX
        /\ 0 \in 0 .. MaxDns /\ 0 \in 0 .. MaxFlight /\ 0 \in 0 .. MaxKods /\ 0 \in 0 .. MaxLates
        /\ SNTP_UPDATE_DELAY \in 0 .. SNTP_UPDATE_DELAY
    BY BoundsAre
  <2>2. /\ sntp_retry_timeout = SNTP_RETRY_TIMEOUT /\ dns = 0 /\ flight = 0 /\ asserted = FALSE
        /\ quiet = SNTP_UPDATE_DELAY /\ kods = 0 /\ lates = 0
    BY DEF Init
  <2> QED
    BY <2>1, <2>2 DEF Rest
<1> QED
  BY <1>9, <1>10, BoundsAre DEF TypeInv

\* A timer that has run out is one less.
LEMMA RanOut ==
  ASSUME TypeInv, NEW h, NEW e \in Due(h), NEW b, b = T!BagRemove(timers, e)
  PROVE  /\ e \in DOMAIN timers /\ e.left <= 0
         /\ Bag(b) /\ Number(b) \in Nat /\ Number(timers) \in Nat /\ Number(timers) = Number(b) + 1
<1>1. Bag(timers)
  BY DEF TypeInv
<1>2. e \in DOMAIN timers /\ e.left <= 0
  BY DEF Due, T!DueFirst
<1>3. Bag(b) /\ Number(b) \in Nat /\ Number(timers) = Number(b) + 1
  BY <1>1, <1>2, RemoveOne
<1> QED
  BY <1>2, <1>3

\* A timer started, or an empty pool: the bag is one of timers in the pool.
LEMMA StillInPool ==
  ASSUME NEW b, Bag(b), Number(b) <= Slots, OneMore(b) \/ Full(b), asserted \in BOOLEAN
  PROVE  Bag(timers') /\ Number(timers') <= Slots /\ asserted' \in BOOLEAN
BY DEF OneMore, Full

\* Every step keeps the ranges.
LEMMA TypesKept == TypeInv /\ [Next]_vars => TypeInv'
<1> SUFFICES ASSUME TypeInv, [Next]_vars PROVE TypeInv'
  OBVIOUS
<1>0. Bag(timers) /\ Number(timers) <= Slots /\ Number(timers) \in Nat /\ Rest /\ asserted \in BOOLEAN
  BY NoTimer DEF TypeInv, Rest
<1> USE BoundsAre
<1>1. CASE sntp_request
  <2>1. PICK e \in Due("sntp_request") :
          LET b == T!BagRemove(timers, e)
          IN \/ sntp_send_request(b) /\ UNCHANGED dns
             \/ /\ dns < MaxDns /\ dns' = dns + 1 /\ timers' = b
                /\ UNCHANGED <<sntp_retry_timeout, flight, asserted>>
             \/ sys_timeout(b, SNTP_RETRY_TIMEOUT, "sntp_retry") /\ UNCHANGED <<sntp_retry_timeout, dns, flight>>
    BY <1>1 DEF sntp_request
  <2>2. PICK b : b = T!BagRemove(timers, e)
    OBVIOUS
  <2>3. Bag(b) /\ Number(b) \in Nat /\ Number(timers) = Number(b) + 1
    BY <2>2, RanOut
  <2>4. Number(b) <= Slots
    BY <1>0, <2>3
  <2>5. UNCHANGED <<quiet, kods, lates>>
    BY <1>1 DEF sntp_request, faults
  <2>6. CASE sntp_send_request(b) /\ UNCHANGED dns
    BY <1>0, <2>3, <2>4, <2>5, <2>6, Sends, StillInPool DEF TypeInv, Rest
  <2>7. CASE /\ dns < MaxDns /\ dns' = dns + 1 /\ timers' = b
             /\ UNCHANGED <<sntp_retry_timeout, flight, asserted>>
    BY <1>0, <2>3, <2>4, <2>5, <2>7 DEF TypeInv, Rest
  <2>8. CASE sys_timeout(b, SNTP_RETRY_TIMEOUT, "sntp_retry") /\ UNCHANGED <<sntp_retry_timeout, dns, flight>>
    <3>1. OneMore(b) \/ Full(b)
      BY <2>3, <2>8, DelayStarted, DelaysAre DEF Handlers
    <3> QED
      BY <1>0, <2>3, <2>4, <2>5, <2>8, <3>1, StillInPool DEF TypeInv, Rest
  <2> QED
    BY <2>1, <2>2, <2>6, <2>7, <2>8
<1>2. CASE RetryTimer
  <2>1. PICK e \in Due("sntp_retry") : sntp_retry(T!BagRemove(timers, e))
    BY <1>2 DEF RetryTimer
  <2>2. PICK b : b = T!BagRemove(timers, e)
    OBVIOUS
  <2>3. Bag(b) /\ Number(b) \in Nat /\ Number(timers) = Number(b) + 1
    BY <2>2, RanOut
  <2>4. Number(b) <= Slots /\ sntp_retry(b)
    BY <1>0, <2>1, <2>2, <2>3
  <2>5. UNCHANGED <<dns, flight, quiet, kods, lates>>
    BY <1>2 DEF RetryTimer, faults
  <2> QED
    BY <1>0, <2>3, <2>4, <2>5, Retries, StillInPool DEF TypeInv, Rest
<1>3. CASE DnsFound
  <2>1. PICK resolved \in BOOLEAN : sntp_dns_found(resolved)
    BY <1>3 DEF DnsFound
  <2>2. dns > 0 /\ dns' = dns - 1 /\ UNCHANGED <<quiet, kods, lates>>
    BY <2>1 DEF sntp_dns_found, faults
  <2>3. sntp_send_request(timers) \/ (sntp_retry(timers) /\ UNCHANGED flight)
    BY <2>1 DEF sntp_dns_found
  <2>4. /\ OneMore(timers) \/ Full(timers)
        /\ flight' \in 0 .. MaxFlight
        /\ sntp_retry_timeout' \in SNTP_RETRY_TIMEOUT .. SNTP_RETRY_TIMEOUT_MAX
    <3>1. CASE sntp_send_request(timers)
      BY <1>0, <3>1, Sends DEF Rest
    <3>2. CASE sntp_retry(timers) /\ UNCHANGED flight
      BY <1>0, <3>2, Retries DEF Rest
    <3> QED
      BY <2>3, <3>1, <3>2
  <2>5. Bag(timers') /\ Number(timers') <= Slots /\ asserted' \in BOOLEAN
    BY <1>0, <2>4, StillInPool
  <2> QED
    BY <1>0, <2>2, <2>4, <2>5 DEF TypeInv, Rest
<1>4. CASE RecvTime
  <2>1. PICK b : b = T!Stopped(T!Stopped(timers, "sntp_retry"), "sntp_request")
    OBVIOUS
  <2>2. Bag(b) /\ Number(b) \in Nat /\ Number(b) <= Number(timers)
    BY <1>0, <2>1, BothStopped
  <2>3. sys_timeout(b, SNTP_UPDATE_DELAY, "sntp_request")
    BY <1>4, <2>1 DEF RecvTime
  <2>4. OneMore(b) \/ Full(b)
    BY <2>2, <2>3, DelayStarted, DelaysAre DEF Handlers
  <2>5. Bag(timers') /\ Number(timers') <= Slots /\ asserted' \in BOOLEAN
    BY <1>0, <2>2, <2>4, StillInPool
  <2>6. /\ flight' \in {flight - 1, flight} /\ flight > 0
        /\ sntp_retry_timeout' = SNTP_RETRY_TIMEOUT /\ quiet' = 0 /\ UNCHANGED <<dns, kods, lates>>
    BY <1>4 DEF RecvTime, Arrival, faults
  <2> QED
    BY <1>0, <2>5, <2>6 DEF TypeInv, Rest
<1>5. CASE RecvKod
  <2>1. sntp_retry(timers)
    BY <1>5 DEF RecvKod
  <2>2. /\ OneMore(timers) \/ Full(timers)
        /\ sntp_retry_timeout' \in SNTP_RETRY_TIMEOUT .. SNTP_RETRY_TIMEOUT_MAX
    BY <1>0, <2>1, Retries
  <2>3. Bag(timers') /\ Number(timers') <= Slots /\ asserted' \in BOOLEAN
    BY <1>0, <2>2, StillInPool
  <2>4. /\ flight' \in {flight - 1, flight} /\ flight > 0
        /\ kods < MaxKods /\ kods' = kods + 1 /\ UNCHANGED <<dns, quiet, lates>>
    BY <1>5 DEF RecvKod, Arrival
  <2> QED
    BY <1>0, <2>2, <2>3, <2>4 DEF TypeInv, Rest
<1>6. CASE Lose
  BY <1>0, <1>6 DEF Lose, TypeInv, Rest, faults
<1>7. CASE Tick
  <2>1. \A e \in DOMAIN timers : e.left > 0
    BY <1>7 DEF Tick
  <2>2. timers' = [e \in {T!Later(f) : f \in DOMAIN timers} |-> timers[[e EXCEPT !.left = @ + 1]]]
    BY <1>7 DEF Tick, T!Tick
  <2>3. Bag(timers') /\ Number(timers') = Number(timers)
    BY <1>0, <2>1, <2>2, TimeLess
  <2>4. /\ flight' \in {0, flight} /\ lates' \in {lates, lates + 1} /\ (lates' = lates + 1 => lates < MaxLates)
        /\ quiet' = (IF quiet < SNTP_UPDATE_DELAY THEN quiet + 1 ELSE quiet)
        /\ UNCHANGED <<sntp_retry_timeout, dns, asserted, kods>>
    <3>1. /\ quiet' = (IF quiet < SNTP_UPDATE_DELAY THEN quiet + 1 ELSE quiet)
          /\ UNCHANGED <<sntp_retry_timeout, dns, asserted, kods>>
          /\ \/ flight' = 0 /\ UNCHANGED lates
             \/ flight > 0 /\ lates < MaxLates /\ lates' = lates + 1 /\ UNCHANGED flight
      BY <1>7 DEF Tick
    <3>2. lates + 1 # lates
      BY <1>0 DEF Rest
    <3> QED
      BY <3>1, <3>2
  <2> QED
    BY <1>0, <2>3, <2>4 DEF TypeInv, Rest
<1>8. CASE UNCHANGED vars
  BY <1>8 DEF vars, faults, TypeInv, Rest
<1> QED
  BY <1>1, <1>2, <1>3, <1>4, <1>5, <1>6, <1>7, <1>8 DEF Next, FireTimers

\* The types, with the pool of timers, hold in every state.
LEMMA TypesAlways == Spec => []TypeInv
<1>1. Init => TypeInv
  BY InitTypes
<1>2. TypeInv /\ [Next]_vars => TypeInv'
  BY TypesKept
<1> QED
  BY <1>1, <1>2, PTL DEF Spec

\* All variables keep their ranges: in particular the retry timeout is doubled up to
\* its limit only (sntp_retry), and the pool holds no more timers than it has slots.
THEOREM TypeCorrect == Spec => []TypeOK
<1>1. TypeInv => TypeOK
  BY DEF TypeInv, Bag, Entries, Rest, TypeOK
<1> QED
  BY <1>1, TypesAlways, PTL

-----------------------------------------------------------------------------
(* Attempts                                                                 *)

\* One slot for the attempt under way and one for what each fault may add.
SlotsSuffice == Slots >= 1 + MaxKods + MaxLates

\* The attempts are those OneAttemptPerFault allows.  While an answer is on its way
\* that could add one, a timer has time left that the answer will stop, unless one
\* more is allowed.
ChainInv ==
  /\ ~ asserted
  /\ Chains \in 1 .. 1 + kods + lates
  /\ flight > 0 => Chains <= kods + lates \/ Busy

\* Without faults nothing but the timer of the next request is left by a good answer,
\* and it has the rest of the update delay left.
QuietInv ==
  kods + lates = 0 /\ quiet < SNTP_UPDATE_DELAY =>
    /\ dns = 0
    /\ \A e \in DOMAIN timers : e.left = SNTP_UPDATE_DELAY - quiet

\* A step of the attempt itself: it takes a timer or a request of DNS and leaves
\* another.
LEMMA AttemptGoesOn ==
  ASSUME SlotsSuffice, TypeInv, ChainInv, NEW b, Number(b) \in Nat, dns' \in Nat,
         Number(b) + dns' + 1 = Number(timers) + dns, OneMore(b) \/ Full(b),
         UNCHANGED <<kods, lates>>
  PROVE  ChainInv'
<1>1. /\ Number(timers) \in Nat /\ dns \in Nat /\ kods \in 0 .. MaxKods /\ lates \in 0 .. MaxLates
      /\ MaxKods \in Nat /\ MaxLates \in Nat /\ Slots \in Nat
  BY NoTimer, BoundsAre DEF TypeInv, Rest
<1>2. Number(timers) + dns \in 1 .. 1 + kods + lates
  BY DEF ChainInv, Chains
<1>3. Number(b) < Slots
  BY <1>1, <1>2 DEF SlotsSuffice
<1>4. OneMore(b)
  BY <1>3 DEF Full
<1>5. Number(timers') = Number(b) + 1 /\ asserted' = asserted /\ Busy'
  BY <1>4 DEF OneMore
<1>6. Number(timers') + dns' = Number(timers) + dns
  BY <1>1, <1>5
<1> QED
  BY <1>2, <1>5, <1>6 DEF ChainInv, Chains

\* Without faults and before the update delay is over no timer is due and no request
\* of DNS is pending.
LEMMA Waits ==
  ASSUME TypeInv, QuietInv, kods + lates = 0, quiet < SNTP_UPDATE_DELAY
  PROVE  dns = 0 /\ \A e \in DOMAIN timers : e.left >= 1
<1>1. quiet \in Nat /\ SNTP_UPDATE_DELAY \in Nat
  BY BoundsAre DEF TypeInv, Rest
<1>2. SNTP_UPDATE_DELAY - quiet >= 1
  BY <1>1
<1> QED
  BY <1>2 DEF QuietInv

\* Every step keeps the attempts.
LEMMA ChainsKept ==
  ASSUME SlotsSuffice, TypeInv, ChainInv, QuietInv, [Next]_vars
  PROVE  ChainInv' /\ QuietInv'
<1>0. /\ Bag(timers) /\ Number(timers) \in Nat /\ dns \in Nat /\ kods \in 0 .. MaxKods
      /\ lates \in 0 .. MaxLates /\ flight \in Nat /\ quiet \in 0 .. SNTP_UPDATE_DELAY
      /\ MaxKods \in Nat /\ MaxLates \in Nat /\ Slots \in Nat /\ SNTP_UPDATE_DELAY \in Nat \ {0}
      /\ ~ asserted /\ Number(timers) + dns \in 1 .. 1 + kods + lates
      /\ Rest
  BY NoTimer, BoundsAre DEF TypeInv, Rest, ChainInv, Chains
<1>1. ASSUME UNCHANGED <<quiet, kods, lates>>, ~ (kods + lates = 0 /\ quiet < SNTP_UPDATE_DELAY)
      PROVE  QuietInv'
  BY <1>1 DEF QuietInv
<1>2. CASE sntp_request
  <2>1. PICK e \in Due("sntp_request") :
          LET b == T!BagRemove(timers, e)
          IN \/ sntp_send_request(b) /\ UNCHANGED dns
             \/ /\ dns < MaxDns /\ dns' = dns + 1 /\ timers' = b
                /\ UNCHANGED <<sntp_retry_timeout, flight, asserted>>
             \/ sys_timeout(b, SNTP_RETRY_TIMEOUT, "sntp_retry") /\ UNCHANGED <<sntp_retry_timeout, dns, flight>>
    BY <1>2 DEF sntp_request
  <2>2. PICK b : b = T!BagRemove(timers, e)
    OBVIOUS
  <2>3. /\ Bag(b) /\ Number(b) \in Nat /\ Number(timers) = Number(b) + 1
        /\ e \in DOMAIN timers /\ e.left <= 0
    BY <2>2, RanOut
  <2>4. UNCHANGED <<quiet, kods, lates>>
    BY <1>2 DEF sntp_request, faults
  <2>5. QuietInv'
    <3>1. e.left \in Int
      BY <1>0, <2>3 DEF Bag, Entries, Delays
    <3>2. ~ (e.left >= 1)
      BY <2>3, <3>1
    <3> QED
      BY <1>1, <2>3, <2>4, <3>2, Waits
  <2>6. CASE (sntp_send_request(b) \/ sys_timeout(b, SNTP_RETRY_TIMEOUT, "sntp_retry")) /\ UNCHANGED dns
    <3>1. OneMore(b) \/ Full(b)
      <4>1. CASE sntp_send_request(b)
        BY <1>0, <2>3, <4>1, Sends
      <4>2. CASE sys_timeout(b, SNTP_RETRY_TIMEOUT, "sntp_retry")
        BY <2>3, <4>2, DelayStarted, DelaysAre DEF Handlers
      <4> QED
        BY <2>6, <4>1, <4>2
    <3>2. dns' \in Nat /\ Number(b) + dns' + 1 = Number(timers) + dns
      BY <1>0, <2>3, <2>6
    <3>3. ChainInv'
      BY <2>3, <2>4, <3>1, <3>2, AttemptGoesOn
    <3> QED
      BY <2>5, <3>3
  <2>7. CASE dns' = dns + 1 /\ timers' = b /\ UNCHANGED <<flight, asserted>>
    <3>1. Number(timers') + dns' = Number(timers) + dns
      BY <1>0, <2>3, <2>7
    <3>2. ASSUME flight > 0, ~ (Chains <= kods + lates) PROVE Busy'
      <4>1. PICK f \in DOMAIN timers : f.left >= 1
        BY <3>2 DEF ChainInv, Busy
      <4>2. f # e
        <5>1. e.left \in Int
          BY <1>0, <2>3 DEF Bag, Entries, Delays
        <5> QED
          BY <2>3, <4>1, <5>1
      <4>3. f \in DOMAIN b
        BY <1>0, <2>2, <2>3, <4>2, RemoveOne
      <4> QED
        BY <2>7, <4>1, <4>3 DEF Busy
    <3>3. ChainInv'
      BY <1>0, <2>4, <2>7, <3>1, <3>2 DEF ChainInv, Chains
    <3> QED
      BY <2>5, <3>3
  <2> QED
    BY <2>1, <2>2, <2>6, <2>7
<1>3. CASE RetryTimer
  <2>1. PICK e \in Due("sntp_retry") : sntp_retry(T!BagRemove(timers, e))
    BY <1>3 DEF RetryTimer
  <2>2. PICK b : b = T!BagRemove(timers, e)
    OBVIOUS
  <2>3. /\ Bag(b) /\ Number(b) \in Nat /\ Number(timers) = Number(b) + 1
        /\ e \in DOMAIN timers /\ e.left <= 0
    BY <2>2, RanOut
  <2>4. UNCHANGED <<dns, quiet, kods, lates>>
    BY <1>3 DEF RetryTimer, faults
  <2>5. QuietInv'
    <3>1. e.left \in Int
      BY <1>0, <2>3 DEF Bag, Entries, Delays
    <3>2. ~ (e.left >= 1)
      BY <2>3, <3>1
    <3> QED
      BY <1>1, <2>3, <2>4, <3>2, Waits
  <2>6. OneMore(b) \/ Full(b)
    BY <1>0, <2>1, <2>2, <2>3, Retries
  <2>7. dns' \in Nat /\ Number(b) + dns' + 1 = Number(timers) + dns
    BY <1>0, <2>3, <2>4
  <2>8. ChainInv'
    BY <2>3, <2>4, <2>6, <2>7, AttemptGoesOn
  <2> QED
    BY <2>5, <2>8
<1>4. CASE DnsFound
  <2>1. PICK resolved \in BOOLEAN : sntp_dns_found(resolved)
    BY <1>4 DEF DnsFound
  <2>2. dns > 0 /\ dns' = dns - 1 /\ UNCHANGED <<quiet, kods, lates>>
    BY <2>1 DEF sntp_dns_found, faults
  <2>3. sntp_send_request(timers) \/ sntp_retry(timers)
    BY <2>1 DEF sntp_dns_found
  <2>4. OneMore(timers) \/ Full(timers)
    BY <1>0, <2>3, Sends, Retries
  <2>5. dns' \in Nat /\ Number(timers) + dns' + 1 = Number(timers) + dns
    BY <1>0, <2>2
  <2>6. ChainInv'
    BY <1>0, <2>2, <2>4, <2>5, AttemptGoesOn
  <2>7. QuietInv'
    BY <1>1, <2>2, Waits
  <2> QED
    BY <2>6, <2>7
<1>5. CASE RecvTime
  <2>1. PICK b : b = T!Stopped(T!Stopped(timers, "sntp_retry"), "sntp_request")
    OBVIOUS
  <2>2. /\ Bag(b) /\ Number(b) \in Nat /\ Number(b) <= Number(timers)
        /\ DOMAIN timers # {} => Number(b) < Number(timers)
    BY <1>0, <2>1, BothStopped
  <2>3. sys_timeout(b, SNTP_UPDATE_DELAY, "sntp_request")
    BY <1>5, <2>1 DEF RecvTime
  <2>4. OneMore(b) \/ Full(b)
    BY <2>2, <2>3, DelayStarted, DelaysAre DEF Handlers
  <2>5. flight > 0 /\ quiet' = 0 /\ UNCHANGED <<dns, kods, lates>>
    BY <1>5 DEF RecvTime, Arrival, faults
  <2>6. Number(b) + dns <= kods + lates
    <3>1. CASE Chains <= kods + lates
      BY <1>0, <2>2, <3>1 DEF Chains
    <3>2. CASE Busy
      <4>1. Number(b) < Number(timers)
        BY <2>2, <3>2 DEF Busy
      <4> QED
        BY <1>0, <2>2, <4>1
    <3> QED
      BY <2>5, <3>1, <3>2 DEF ChainInv
  <2>7. Number(b) < Slots
    BY <1>0, <2>2, <2>6 DEF SlotsSuffice
  <2>8. /\ Number(timers') = Number(b) + 1 /\ asserted' = asserted /\ Busy'
    BY <2>4, <2>7 DEF OneMore, Full
  <2>9. ChainInv'
    <3>1. Number(timers') + dns' \in 1 .. 1 + kods' + lates'
      BY <1>0, <2>2, <2>5, <2>6, <2>8
    <3> QED
      BY <1>0, <2>8, <3>1 DEF ChainInv, Chains
  <2>10. ASSUME kods' + lates' = 0
         PROVE  dns' = 0 /\ \A e \in DOMAIN timers' : e.left = SNTP_UPDATE_DELAY - 0
    <3>1. Number(b) = 0 /\ dns = 0
      BY <1>0, <2>2, <2>5, <2>6, <2>10
    <3>2. DOMAIN b = {}
      BY <2>2, <3>1, NoTimer
    <3>3. DOMAIN timers' = DOMAIN b \union {[h |-> "sntp_request", left |-> SNTP_UPDATE_DELAY]}
      BY <2>2, <2>3, <2>7, TimerStarted, DelaysAre DEF Handlers
    <3>4. [h |-> "sntp_request", left |-> SNTP_UPDATE_DELAY].left = SNTP_UPDATE_DELAY
      OBVIOUS
    <3>5. SNTP_UPDATE_DELAY - 0 = SNTP_UPDATE_DELAY
      BY <1>0
    <3> QED
      BY <2>5, <3>1, <3>2, <3>3, <3>4, <3>5
  <2>11. QuietInv'
    BY <2>5, <2>10 DEF QuietInv
  <2> QED
    BY <2>9, <2>11
<1>6. CASE RecvKod
  <2>1. sntp_retry(timers)
    BY <1>6 DEF RecvKod
  <2>2. OneMore(timers) \/ Full(timers)
    BY <1>0, <2>1, Retries
  <2>3. kods < MaxKods /\ kods' = kods + 1 /\ UNCHANGED <<dns, quiet, lates>>
    BY <1>6 DEF RecvKod
  <2>4. Number(timers) < Slots
    BY <1>0, <2>3 DEF SlotsSuffice
  <2>5. Number(timers') = Number(timers) + 1 /\ asserted' = asserted /\ Busy'
    BY <2>2, <2>4 DEF OneMore, Full
  <2>6. Number(timers') + dns' \in 1 .. 1 + kods' + lates'
    BY <1>0, <2>3, <2>5
  <2>7. ChainInv'
    BY <1>0, <2>5, <2>6 DEF ChainInv, Chains
  <2>8. kods' + lates' # 0
    BY <1>0, <2>3
  <2> QED
    BY <2>7, <2>8 DEF QuietInv
<1>7. CASE Lose
  <2>1. flight > 0 /\ UNCHANGED <<timers, dns, asserted, quiet, kods, lates>>
    BY <1>7 DEF Lose, faults
  <2> QED
    BY <2>1 DEF ChainInv, QuietInv, Chains, Busy
<1>8. CASE Tick
  <2>1. \A e \in DOMAIN timers : e.left > 0
    BY <1>8 DEF Tick
  <2>2. timers' = [e \in {T!Later(f) : f \in DOMAIN timers} |-> timers[[e EXCEPT !.left = @ + 1]]]
    BY <1>8 DEF Tick, T!Tick
  <2>3. /\ Number(timers') = Number(timers)
        /\ DOMAIN timers' = {T!Later(f) : f \in DOMAIN timers}
        /\ \A f \in Entries : T!Later(f).left = f.left - 1
    BY <1>0, <2>1, <2>2, TimeLess
  <2>4. /\ \/ flight' = 0 /\ UNCHANGED lates
           \/ flight > 0 /\ lates' = lates + 1 /\ UNCHANGED flight
        /\ quiet' = (IF quiet < SNTP_UPDATE_DELAY THEN quiet + 1 ELSE quiet)
        /\ UNCHANGED <<dns, asserted, kods>>
    BY <1>8 DEF Tick
  <2>5. ChainInv'
    <3>1. CASE flight' = 0 /\ UNCHANGED lates
      BY <1>0, <2>3, <2>4, <3>1 DEF ChainInv, Chains
    <3>2. CASE lates' = lates + 1
      <4>1. Number(timers') + dns' \in 1 .. 1 + kods' + lates' /\ Number(timers') + dns' <= kods' + lates'
        BY <1>0, <2>3, <2>4, <3>2
      <4> QED
        BY <1>0, <2>4, <4>1 DEF ChainInv, Chains
    <3> QED
      BY <2>4, <3>1, <3>2
  <2>6. ASSUME kods' + lates' = 0, quiet' < SNTP_UPDATE_DELAY
        PROVE  dns' = 0 /\ \A e \in DOMAIN timers' : e.left = SNTP_UPDATE_DELAY - quiet'
    <3>1. kods + lates = 0 /\ quiet < SNTP_UPDATE_DELAY /\ quiet' = quiet + 1
      BY <1>0, <2>4, <2>6
    <3>2. dns = 0 /\ \A f \in DOMAIN timers : f.left = SNTP_UPDATE_DELAY - quiet
      BY <3>1 DEF QuietInv
    <3>3. ASSUME NEW f \in DOMAIN timers PROVE T!Later(f).left = SNTP_UPDATE_DELAY - quiet'
      <4>1. f \in Entries
        BY <1>0 DEF Bag
      <4>2. T!Later(f).left = (SNTP_UPDATE_DELAY - quiet) - 1
        BY <2>3, <3>2, <4>1
      <4>3. (SNTP_UPDATE_DELAY - quiet) - 1 = SNTP_UPDATE_DELAY - (quiet + 1)
        BY <1>0
      <4> QED
        BY <3>1, <4>2, <4>3
    <3> QED
      BY <2>3, <2>4, <3>2, <3>3
  <2> QED
    BY <2>5, <2>6 DEF QuietInv
<1>9. CASE UNCHANGED vars
  BY <1>9 DEF vars, faults, ChainInv, QuietInv, Chains, Busy
<1> QED
  BY <1>2, <1>3, <1>4, <1>5, <1>6, <1>7, <1>8, <1>9 DEF Next, FireTimers

\* The invariant of the attempts holds throughout.
LEMMA ChainsAlways ==
  ASSUME SlotsSuffice
  PROVE  Spec => [](TypeInv /\ ChainInv /\ QuietInv)
<1>1. Init => TypeInv /\ ChainInv /\ QuietInv
  <2> SUFFICES ASSUME Init PROVE TypeInv /\ ChainInv /\ QuietInv
    OBVIOUS
  <2>1. TypeInv /\ Number(timers) = 1 /\ flight = 0
    BY InitTypes
  <2>2. dns = 0 /\ ~ asserted /\ quiet = SNTP_UPDATE_DELAY /\ kods = 0 /\ lates = 0
    BY DEF Init
  <2>3. ChainInv
    BY <2>1, <2>2 DEF ChainInv, Chains
  <2>4. QuietInv
    BY <2>2, BoundsAre DEF QuietInv
  <2> QED
    BY <2>1, <2>3, <2>4
<1>2. (TypeInv /\ ChainInv /\ QuietInv) /\ [Next]_vars => (TypeInv /\ ChainInv /\ QuietInv)'
  <2> SUFFICES ASSUME TypeInv, ChainInv, QuietInv, [Next]_vars
               PROVE  TypeInv' /\ ChainInv' /\ QuietInv'
    OBVIOUS
  <2>1. TypeInv'
    BY TypesKept
  <2>2. ChainInv' /\ QuietInv'
    BY ChainsKept
  <2> QED
    BY <2>1, <2>2
<1> QED
  BY <1>1, <1>2, PTL DEF Spec

\* However DNS, memory, the network and the server fail, a client whose pool has room
\* for what faults add never falls silent, never stops at the assertion of sys_timeout,
\* and has no more attempts under way than one and one for each fault.
THEOREM OneAttempt ==
  ASSUME SlotsSuffice
  PROVE  Spec => []OneAttemptPerFault
<1>1. TypeInv /\ ChainInv /\ QuietInv => OneAttemptPerFault
  BY DEF ChainInv, OneAttemptPerFault
<1> QED
  BY <1>1, ChainsAlways, PTL

\* sntp_recv: a good answer ends the attempt that asked for it.  Until the update delay
\* is over, no timer is left that could send a request, nor a request of DNS.
THEOREM WaitsUpdateDelay ==
  ASSUME SlotsSuffice
  PROVE  Spec => AsksAfterUpdateDelay
<1>1. (TypeInv /\ ChainInv /\ QuietInv) /\ [Next]_vars =>
        [flight' > flight /\ kods + lates = 0 => quiet = SNTP_UPDATE_DELAY]_vars
  <2> SUFFICES ASSUME TypeInv, QuietInv, Next, flight' > flight, kods + lates = 0,
                      quiet # SNTP_UPDATE_DELAY
               PROVE  FALSE
    OBVIOUS
  <2>1. quiet < SNTP_UPDATE_DELAY /\ flight \in Nat
    BY BoundsAre DEF TypeInv, Rest
  <2>2. dns = 0 /\ \A e \in DOMAIN timers : e.left >= 1
    BY <2>1, Waits
  <2>3. \A h : Due(h) = {}
    <3> SUFFICES ASSUME NEW h, NEW e \in Due(h) PROVE FALSE
      OBVIOUS
    <3>1. e \in DOMAIN timers /\ e.left <= 0
      BY DEF Due, T!DueFirst
    <3>2. e.left \in Int /\ e.left >= 1
      BY <2>2, <3>1 DEF TypeInv, Bag, Entries, Delays
    <3> QED
      BY <3>1, <3>2
  <2>4. ~ sntp_request /\ ~ RetryTimer
    BY <2>3 DEF sntp_request, RetryTimer
  <2>5. ~ DnsFound
    BY <2>2 DEF DnsFound, sntp_dns_found
  <2>6. ~ (RecvTime \/ RecvKod)
    BY <2>1 DEF RecvTime, RecvKod, Arrival
  <2>7. ~ Lose
    BY <2>1 DEF Lose
  <2>8. ~ Tick
    BY <2>1 DEF Tick
  <2> QED
    BY <2>4, <2>5, <2>6, <2>7, <2>8 DEF Next, FireTimers
<1> QED
  BY <1>1, ChainsAlways, PTL DEF Spec, AsksAfterUpdateDelay
=============================================================================

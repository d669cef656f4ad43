------------------------------ MODULE DhcpProofs ------------------------------
(***************************************************************************)
(* Proofs about Dhcp, for every length of a minute, every grant, every     *)
(* number of tries and of refusals.                                        *)
(***************************************************************************)
EXTENDS Dhcp, FiniteSetTheorems, TLAPS

-----------------------------------------------------------------------------
(* Numbers                                                                  *)

\* A finite set of numbers has a greatest one: the sets of what lies above a member
\* are finite, and strict inclusion of finite sets is well-founded.
LEMMA GreatestNat ==
  ASSUME NEW T, T \subseteq Nat, T # {}, IsFiniteSet(T)
  PROVE  Max(T) \in T /\ \A y \in T : Max(T) >= y
<1> DEFINE Above(x) == {y \in T : y > x}
           U == {Above(x) : x \in T}
           R == StrictSubsetOrdering(T)
<1>1. U \subseteq FiniteSubsetsOf(T)
  <2>1. \A x \in T : Above(x) \in SUBSET T /\ IsFiniteSet(Above(x))
    <3> TAKE x \in T
    <3>1. Above(x) \in SUBSET T
      OBVIOUS
    <3> HIDE DEF Above
    <3> QED
      BY <3>1, FS_Subset
  <2> HIDE DEF Above
  <2> QED
    BY <2>1 DEF FiniteSubsetsOf
<1>2. U # {}
  OBVIOUS
<1>3. IsWellFoundedOn(R, FiniteSubsetsOf(T))
  BY FS_StrictSubsetOrderingWellFounded
<1>4. \E u \in U : \A v \in U : ~ (<<v, u>> \in R)
  <2> HIDE DEF U, R
  <2> QED
    BY <1>1, <1>2, <1>3, WFMin
<1>5. PICK x \in T : \A v \in U : ~ (<<v, Above(x)>> \in R)
  BY <1>4
<1>6. ASSUME NEW y \in T, y > x PROVE FALSE
  <2>1. Above(y) \in SUBSET T /\ Above(x) \in SUBSET T /\ Above(y) \subseteq Above(x)
    <3>1. \A z \in T : z > y => z > x
      BY <1>6
    <3> QED
      BY <3>1
  <2>2. y \in Above(x) /\ y \notin Above(y)
    BY <1>6
  <2>3. <<Above(y), Above(x)>> \in R
    <3> HIDE DEF Above
    <3> QED
      BY <2>1, <2>2 DEF StrictSubsetOrdering
  <2>4. Above(y) \in U
    OBVIOUS
  <2> QED
    BY <1>5, <2>3, <2>4
<1>7. x \in T /\ \A y \in T : x >= y
  BY <1>6
<1> QED
  BY <1>7 DEF Max

\* The greater and the smaller of two numbers.
LEMMA MaxOfTwo ==
  ASSUME NEW a \in Int, NEW b \in Int
  PROVE  Max({a, b}) = IF a >= b THEN a ELSE b
<1>1. CASE a >= b
  <2>1. a \in {a, b} /\ \A y \in {a, b} : a >= y
    BY <1>1
  <2>2. \A x \in {a, b} : (\A y \in {a, b} : x >= y) => x = a
    BY <1>1
  <2> QED
    BY <1>1, <2>1, <2>2 DEF Max
<1>2. CASE ~ (a >= b)
  <2>1. b \in {a, b} /\ \A y \in {a, b} : b >= y
    BY <1>2
  <2>2. \A x \in {a, b} : (\A y \in {a, b} : x >= y) => x = b
    BY <1>2
  <2> QED
    BY <1>2, <2>1, <2>2 DEF Max
<1> QED
  BY <1>1, <1>2

\* The smaller of two numbers.
LEMMA MinOfTwo ==
  ASSUME NEW a \in Int, NEW b \in Int
  PROVE  Min({a, b}) = IF a <= b THEN a ELSE b
<1>1. CASE a <= b
  <2>1. a \in {a, b} /\ \A y \in {a, b} : a <= y
    BY <1>1
  <2>2. \A x \in {a, b} : (\A y \in {a, b} : x <= y) => x = a
    BY <1>1
  <2> QED
    BY <1>1, <2>1, <2>2 DEF Min
<1>2. CASE ~ (a <= b)
  <2>1. b \in {a, b} /\ \A y \in {a, b} : b <= y
    BY <1>2
  <2>2. \A x \in {a, b} : (\A y \in {a, b} : x <= y) => x = b
    BY <1>2
  <2> QED
    BY <1>2, <2>1, <2>2 DEF Min
<1> QED
  BY <1>1, <1>2

\* Powers of two grow: 2 ^ n counts the subsets of a set of n members.
LEMMA Powers ==
  ASSUME NEW m \in Nat, NEW n \in Nat, m <= n
  PROVE  2 ^ m \in Nat \ {0} /\ 2 ^ m <= 2 ^ n
<1>1. \A k \in Nat : IsFiniteSet(1 .. k) /\ Cardinality(1 .. k) = k
  BY FS_Interval
<1>2. \A k \in Nat : IsFiniteSet(SUBSET (1 .. k)) /\ Cardinality(SUBSET (1 .. k)) = 2 ^ k
  BY <1>1, FS_SUBSET
<1>3. 1 .. m \subseteq 1 .. n
  OBVIOUS
<1>4. SUBSET (1 .. m) \in SUBSET (SUBSET (1 .. n))
  BY <1>3
<1>5. Cardinality(SUBSET (1 .. m)) <= Cardinality(SUBSET (1 .. n))
  BY <1>2, <1>4, FS_Subset
<1>6. Cardinality(SUBSET (1 .. m)) \in Nat
  BY <1>2, FS_CardinalityType
<1>7. Cardinality(SUBSET (1 .. m)) # 0
  <2>1. SUBSET (1 .. m) # {}
    OBVIOUS
  <2> QED
    BY <1>2, <2>1, FS_EmptySet
<1> QED
  BY <1>2, <1>5, <1>6, <1>7

\* A product grows with its factor.
LEMMA ProductGrows ==
  ASSUME NEW k \in Nat, NEW a \in Int, NEW b \in Int, a <= b
  PROVE  k * a <= k * b
<1>1. b - a \in Nat /\ k * (b - a) \in Nat
  OBVIOUS
<1>2. k * b = k * a + k * (b - a)
  OBVIOUS
<1>3. k * a \in Int /\ k * b \in Int
  OBVIOUS
<1> QED
  BY <1>1, <1>2, <1>3

-----------------------------------------------------------------------------
(* Minutes and waits                                                        *)

\* A time in minutes is one at least.
LEMMA MinutesType == \A s \in Nat : Minutes(s) \in Nat \ {0}
<1> SUFFICES ASSUME NEW s \in Nat PROVE Minutes(s) \in Nat \ {0}
  OBVIOUS
<1> DEFINE q == (s + DHCP_COARSE_TIMER_SECS \div 2) \div DHCP_COARSE_TIMER_SECS
<1>1. q \in Int
  BY DhcpAssumption
<1>2. Max({1, q}) = IF 1 >= q THEN 1 ELSE q
  BY <1>1, MaxOfTwo
<1> QED
  BY <1>1, <1>2 DEF Minutes

\* MaxMinutes bounds every grant.
LEMMA MinutesBounded ==
  /\ MaxMinutes \in Nat
  /\ \A g \in Grants \union {NoGrant} :
       /\ g.lease \in Nat /\ g.renew \in Nat /\ g.rebind \in Nat
       /\ Minutes(g.lease) \in 1 .. MaxMinutes
       /\ Minutes(g.renew) \in 1 .. MaxMinutes
       /\ Minutes(g.rebind) \in 1 .. MaxMinutes
<1> DEFINE G == Grants \union {NoGrant}
           F == {"lease", "renew", "rebind"}
           M == {Minutes(g[f]) : g \in G, f \in F}
<1>1. \A g \in G : g.lease \in Nat /\ g.renew \in Nat /\ g.rebind \in Nat
  BY DhcpAssumption DEF NoGrant
<1>2. \A g \in G, f \in F : g[f] \in Nat
  BY <1>1
<1>3. M \subseteq Nat \ {0}
  <2> HIDE DEF G, F
  <2> QED
    BY <1>2, MinutesType
<1>4. IsFiniteSet(G)
  BY DhcpAssumption, FS_AddElement
<1>5. IsFiniteSet(F)
  <2>1. IsFiniteSet({}) /\ F = (({} \union {"lease"}) \union {"renew"}) \union {"rebind"}
    BY FS_EmptySet
  <2> HIDE DEF F
  <2> QED
    BY <2>1, FS_AddElement
<1>6. IsFiniteSet(M)
  <2> DEFINE h == [p \in G \X F |-> Minutes(p[1][p[2]])]
  <2>1. IsFiniteSet(G \X F)
    <3> HIDE DEF G, F
    <3> QED
      BY <1>4, <1>5, FS_Product
  <2>2. h \in Surjection(G \X F, M)
    <3> HIDE DEF G, F
    <3>1. \A p \in G \X F : h[p] \in M
      OBVIOUS
    <3>2. \A m \in M : \E p \in G \X F : h[p] = m
      <4> SUFFICES ASSUME NEW g \in G, NEW f \in F PROVE \E p \in G \X F : h[p] = Minutes(g[f])
        OBVIOUS
      <4>1. <<g, f>> \in G \X F /\ h[<<g, f>>] = Minutes(g[f])
        OBVIOUS
      <4> QED
        BY <4>1
    <3>3. h \in [G \X F -> M]
      <4> HIDE DEF M
      <4> QED
        BY <3>1
    <3> HIDE DEF h, M
    <3> QED
      BY <3>2, <3>3 DEF Surjection
  <2> HIDE DEF G, F, M, h
  <2> QED
    BY <2>1, <2>2, FS_Surjection
<1>7. M # {}
  OBVIOUS
<1>8. MaxMinutes \in M /\ \A m \in M : MaxMinutes >= m
  <2>1. MaxMinutes = Max(M)
    BY DEF MaxMinutes
  <2> HIDE DEF M
  <2> QED
    BY <1>3, <1>6, <1>7, <2>1, GreatestNat
<1>9. \A g \in G : Minutes(g.lease) \in M /\ Minutes(g.renew) \in M /\ Minutes(g.rebind) \in M
  <2> TAKE g \in G
  <2>1. Minutes(g["lease"]) \in M /\ Minutes(g["renew"]) \in M /\ Minutes(g["rebind"]) \in M
    OBVIOUS
  <2> QED
    BY <2>1
<1> HIDE DEF M
<1>10. \A m \in M : m \in 1 .. MaxMinutes
  BY <1>3, <1>8
<1>11. MaxMinutes \in Nat
  BY <1>3, <1>8
<1> QED
  BY <1>1, <1>9, <1>10, <1>11

\* MaxWait bounds every wait.
LEMMA WaitsBounded ==
  /\ MaxWait \in Nat /\ MaxWait >= 2
  /\ 2 * DeclineWait \in 0 .. MaxWait
  /\ \A t \in 0 .. MaxTries : Backoff(t) \in 1 .. MaxWait
<1> DEFINE W == {LongWait, DeclineWait, 2 ^ (MaxTries - 1)}
<1>1. MaxTries - 1 \in Nat /\ LongWait \in Nat \ {0} /\ DeclineWait \in Nat \ {0} /\ MaxTries \in Nat
  BY DhcpAssumption
<1>2. 2 ^ (MaxTries - 1) \in Nat \ {0}
  BY <1>1, Powers
<1>3. IsFiniteSet(W)
  <2>1. IsFiniteSet({})
        /\ W = (({} \union {LongWait}) \union {DeclineWait}) \union {2 ^ (MaxTries - 1)}
    BY FS_EmptySet
  <2> HIDE DEF W
  <2> QED
    BY <2>1, FS_AddElement
<1>4. W \subseteq Nat /\ W # {}
  BY <1>1, <1>2
<1>5. Max(W) \in W /\ \A w \in W : Max(W) >= w
  <2> HIDE DEF W
  <2> QED
    BY <1>3, <1>4, GreatestNat
<1>6. MaxWait = 2 * Max(W) /\ Max(W) \in Nat \ {0}
  BY <1>1, <1>2, <1>5 DEF MaxWait
<1>7. Max(W) >= LongWait /\ Max(W) >= DeclineWait /\ Max(W) >= 2 ^ (MaxTries - 1)
  BY <1>5
<1>8. \A t \in 0 .. MaxTries : Backoff(t) \in 1 .. MaxWait
  <2> TAKE t \in 0 .. MaxTries
  <2> HIDE DEF W
  <2>1. CASE t < MaxTries
    <3>1. t \in Nat /\ t <= MaxTries - 1
      BY <1>1, <2>1
    <3>2. 2 ^ t \in Nat \ {0} /\ 2 ^ t <= 2 ^ (MaxTries - 1)
      BY <1>1, <3>1, Powers
    <3>3. Backoff(t) = 2 * 2 ^ t
      BY <2>1 DEF Backoff
    <3> QED
      BY <1>2, <1>6, <1>7, <3>2, <3>3
  <2>2. CASE ~ (t < MaxTries)
    BY <1>1, <1>6, <1>7, <2>2 DEF Backoff
  <2> QED
    BY <2>1, <2>2
<1> HIDE DEF W
<1> QED
  BY <1>1, <1>6, <1>7, <1>8

-----------------------------------------------------------------------------
(* The client's record                                                      *)

Query == [type : {"DISCOVER", "REQUEST"}, age : 0 .. MaxDelay] \union {NoQuery}

Client ==
  [state : States, tries : 0 .. MaxTries, request_timeout : 0 .. MaxWait,
   t0_timeout : 0 .. MaxMinutes, t2_timeout : 0 .. MaxMinutes,
   t1_renew_time : 0 .. MaxMinutes, t2_rebind_time : 0 .. MaxMinutes,
   lease_used : 0 .. MaxMinutes, offered : Grants \union {NoGrant},
   address : BOOLEAN, query : Query]

\* A step that leaves the lease and its timers alone.
SameLease(d, e) ==
  /\ e.t0_timeout = d.t0_timeout /\ e.t2_timeout = d.t2_timeout
  /\ e.t1_renew_time = d.t1_renew_time /\ e.t2_rebind_time = d.t2_rebind_time
  /\ e.lease_used = d.lease_used /\ e.offered = d.offered /\ e.address = d.address

\* The bounds on minutes, waits and tries are numbers, with room for the waits.
LEMMA Quantities ==
  /\ MaxMinutes \in Nat /\ MaxWait \in Nat /\ MaxWait >= 2 /\ MaxTries \in Nat /\ MaxTries >= 2
  /\ MaxDelay \in Nat /\ 2 * DeclineWait \in 0 .. MaxWait
  /\ NoQuery \in Query /\ \A type \in {"DISCOVER", "REQUEST"} : [type |-> type, age |-> 0] \in Query
BY MinutesBounded, WaitsBounded, DhcpAssumption DEF Query

\* Changes of a few fields.
LEMMA StateSet ==
  ASSUME NEW d \in Client, NEW s \in States
  PROVE  /\ dhcp_set_state(d, s) \in Client
         /\ dhcp_set_state(d, s).state = s
         /\ dhcp_set_state(d, s).tries = IF d.state = s THEN d.tries ELSE 0
         /\ dhcp_set_state(d, s).query = d.query
         /\ SameLease(d, dhcp_set_state(d, s))
<1>1. CASE d.state = s
  BY <1>1 DEF dhcp_set_state, Client, SameLease
<1>2. CASE d.state # s
  <2>1. dhcp_set_state(d, s) = [d EXCEPT !.state = s, !.tries = 0, !.request_timeout = 0]
    BY <1>2 DEF dhcp_set_state
  <2>2. [d EXCEPT !.state = s, !.tries = 0, !.request_timeout = 0] \in Client
    <3>1. 0 \in 0 .. MaxTries /\ 0 \in 0 .. MaxWait
      BY Quantities
    <3> QED
      BY <3>1 DEF Client
  <2>3. /\ [d EXCEPT !.state = s, !.tries = 0, !.request_timeout = 0].state = s
        /\ [d EXCEPT !.state = s, !.tries = 0, !.request_timeout = 0].tries = 0
        /\ [d EXCEPT !.state = s, !.tries = 0, !.request_timeout = 0].query = d.query
        /\ SameLease(d, [d EXCEPT !.state = s, !.tries = 0, !.request_timeout = 0])
    BY DEF Client, SameLease
  <2> QED
    BY <1>2, <2>1, <2>2, <2>3
<1> QED
  BY <1>1, <1>2

\* Trying in a state counts the tries there and leaves the lease alone.
LEMMA Tried ==
  ASSUME NEW d \in Client, NEW s \in States
  PROVE  /\ TryIn(d, s) \in Client
         /\ TryIn(d, s).state = s
         /\ TryIn(d, s).tries = IF d.state = s THEN Min({d.tries + 1, MaxTries}) ELSE 1
         /\ SameLease(d, TryIn(d, s))
<1>1. PICK e \in Client : e = dhcp_set_state(d, s)
  BY StateSet
<1>2. e.state = s /\ e.tries = (IF d.state = s THEN d.tries ELSE 0) /\ SameLease(d, e)
  BY <1>1, StateSet
<1>3. e.tries \in 0 .. MaxTries /\ d.tries \in 0 .. MaxTries
  BY DEF Client
<1>4. Min({e.tries + 1, MaxTries}) \in 0 .. MaxTries
  BY <1>3, MinOfTwo, Quantities
<1>5. TryIn(d, s) = [e EXCEPT !.tries = Min({e.tries + 1, MaxTries})]
  BY <1>1 DEF TryIn
<1>6. [e EXCEPT !.tries = Min({e.tries + 1, MaxTries})] \in Client
  BY <1>4 DEF Client
<1>7. /\ [e EXCEPT !.tries = Min({e.tries + 1, MaxTries})].state = e.state
      /\ [e EXCEPT !.tries = Min({e.tries + 1, MaxTries})].tries = Min({e.tries + 1, MaxTries})
      /\ SameLease(e, [e EXCEPT !.tries = Min({e.tries + 1, MaxTries})])
  BY DEF Client, SameLease
<1>8. Min({0 + 1, MaxTries}) = 1
  BY MinOfTwo, Quantities
<1> QED
  BY <1>2, <1>5, <1>6, <1>7, <1>8 DEF SameLease

-----------------------------------------------------------------------------
(* What the client sends                                                    *)

\* Asking enters the state and leaves the lease alone.
LEMMA Asked ==
  ASSUME NEW d \in Client, NEW s \in States, NEW type \in {"DISCOVER", "REQUEST"}
  PROVE  Ask(d, s, type) \in Client /\ Ask(d, s, type).state = s /\ SameLease(d, Ask(d, s, type))
<1>1. PICK e \in Client : e = TryIn(d, s)
  BY Tried
<1>2. e.state = s /\ SameLease(d, e)
  BY <1>1, Tried
<1>3. PICK wait \in 0 .. MaxWait : wait = Backoff(e.tries)
  <2>1. e.tries \in 0 .. MaxTries
    BY DEF Client
  <2> QED
    BY <2>1, WaitsBounded
<1>4. PICK query \in Query : query = [type |-> type, age |-> 0]
  BY Quantities
<1>5. Ask(d, s, type) = [e EXCEPT !.request_timeout = wait, !.query = query]
  BY <1>1, <1>3, <1>4 DEF Ask
<1>6. [e EXCEPT !.request_timeout = wait, !.query = query] \in Client
  BY DEF Client
<1>7. /\ [e EXCEPT !.request_timeout = wait, !.query = query].state = e.state
      /\ SameLease(e, [e EXCEPT !.request_timeout = wait, !.query = query])
  BY DEF Client, SameLease
<1> QED
  BY <1>2, <1>5, <1>6, <1>7 DEF SameLease

\* dhcp_discover enters SELECTING.
LEMMA Discovers ==
  ASSUME NEW d \in Client
  PROVE  /\ dhcp_discover(d) \in Client /\ dhcp_discover(d).state = "SELECTING"
         /\ SameLease(d, dhcp_discover(d))
BY Asked DEF dhcp_discover, States

\* dhcp_select enters REQUESTING.
LEMMA Selects ==
  ASSUME NEW d \in Client
  PROVE  /\ dhcp_select(d) \in Client /\ dhcp_select(d).state = "REQUESTING"
         /\ SameLease(d, dhcp_select(d))
BY Asked DEF dhcp_select, States

\* dhcp_check enters CHECKING for half a second.
LEMMA Checks ==
  ASSUME NEW d \in Client
  PROVE  /\ dhcp_check(d) \in Client /\ dhcp_check(d).state = "CHECKING"
         /\ dhcp_check(d).request_timeout = 1
         /\ dhcp_check(d).tries =
              IF d.state = "CHECKING" THEN Min({d.tries + 1, MaxTries}) ELSE 1
         /\ SameLease(d, dhcp_check(d))
<1>0. "CHECKING" \in States
  BY DEF States
<1>1. PICK e \in Client : e = TryIn(d, "CHECKING")
  BY <1>0, Tried
<1>2. /\ e.state = "CHECKING" /\ SameLease(d, e)
      /\ e.tries = IF d.state = "CHECKING" THEN Min({d.tries + 1, MaxTries}) ELSE 1
  BY <1>0, <1>1, Tried
<1>3. dhcp_check(d) = [e EXCEPT !.request_timeout = 1]
  BY <1>1 DEF dhcp_check
<1>4. [e EXCEPT !.request_timeout = 1] \in Client
  <2>1. 1 \in 0 .. MaxWait
    BY Quantities
  <2> QED
    BY <2>1 DEF Client
<1>5. /\ [e EXCEPT !.request_timeout = 1].state = e.state
      /\ [e EXCEPT !.request_timeout = 1].request_timeout = 1
      /\ [e EXCEPT !.request_timeout = 1].tries = e.tries
      /\ SameLease(e, [e EXCEPT !.request_timeout = 1])
  BY DEF Client, SameLease
<1> QED
  BY <1>2, <1>3, <1>4, <1>5 DEF SameLease

\* dhcp_decline enters BACKING_OFF.
LEMMA Declines ==
  ASSUME NEW d \in Client
  PROVE  /\ dhcp_decline(d) \in Client /\ dhcp_decline(d).state = "BACKING_OFF"
         /\ SameLease(d, dhcp_decline(d))
<1>0. "BACKING_OFF" \in States
  BY DEF States
<1>1. PICK e \in Client : e = TryIn(d, "BACKING_OFF")
  BY <1>0, Tried
<1>2. e.state = "BACKING_OFF" /\ SameLease(d, e)
  BY <1>0, <1>1, Tried
<1>3. PICK wait \in 0 .. MaxWait : wait = 2 * DeclineWait
  BY Quantities
<1>4. PICK query \in Query : query = NoQuery
  BY Quantities
<1>5. dhcp_decline(d) = [e EXCEPT !.request_timeout = wait, !.query = query]
  BY <1>1, <1>3, <1>4 DEF dhcp_decline
<1>6. [e EXCEPT !.request_timeout = wait, !.query = query] \in Client
  BY DEF Client
<1>7. /\ [e EXCEPT !.request_timeout = wait, !.query = query].state = e.state
      /\ SameLease(e, [e EXCEPT !.request_timeout = wait, !.query = query])
  BY DEF Client, SameLease
<1> QED
  BY <1>2, <1>5, <1>6, <1>7 DEF SameLease

\* Asking again for the lease it has.
LEMMA Renews ==
  ASSUME NEW d \in Client, NEW s \in States, NEW query \in Query
  PROVE  /\ [dhcp_set_state(d, s) EXCEPT !.query = query] \in Client
         /\ [dhcp_set_state(d, s) EXCEPT !.query = query].state = s
         /\ SameLease(d, [dhcp_set_state(d, s) EXCEPT !.query = query])
<1>1. PICK e \in Client : e = dhcp_set_state(d, s)
  BY StateSet
<1>2. e.state = s /\ SameLease(d, e)
  BY <1>1, StateSet
<1>3. /\ [e EXCEPT !.query = query] \in Client
      /\ [e EXCEPT !.query = query].state = e.state
      /\ SameLease(e, [e EXCEPT !.query = query])
  BY DEF Client, SameLease
<1> QED
  BY <1>1, <1>2, <1>3 DEF SameLease

\* What dhcp_bind makes of the lease.
LEMMA Binds ==
  ASSUME NEW d \in Client
  PROVE  /\ dhcp_bind(d) \in Client /\ dhcp_bind(d).state = "BOUND" /\ dhcp_bind(d).address
         /\ dhcp_bind(d).offered = d.offered /\ dhcp_bind(d).lease_used = 0
         /\ dhcp_bind(d).t0_timeout = Minutes(d.offered.lease)
         /\ dhcp_bind(d).t1_renew_time = Minutes(d.offered.renew)
         /\ dhcp_bind(d).t2_rebind_time = Minutes(d.offered.rebind)
<1>0. "BOUND" \in States /\ 0 \in 0 .. MaxMinutes
  BY Quantities DEF States
<1>1. PICK e \in Client : e = dhcp_set_state(d, "BOUND")
  BY <1>0, StateSet
<1>2. e.state = "BOUND" /\ SameLease(d, e)
  BY <1>0, <1>1, StateSet
<1>3. d.offered \in Grants \union {NoGrant}
  BY DEF Client
<1>4. PICK t0 \in 0 .. MaxMinutes, t1 \in 0 .. MaxMinutes, t2 \in 0 .. MaxMinutes :
        t0 = Minutes(d.offered.lease) /\ t1 = Minutes(d.offered.renew) /\ t2 = Minutes(d.offered.rebind)
  BY <1>3, MinutesBounded, Quantities
<1>5. PICK b : b = [e EXCEPT !.t0_timeout = t0, !.t1_renew_time = t1, !.t2_timeout = t2,
                             !.t2_rebind_time = t2, !.lease_used = 0, !.address = TRUE]
  OBVIOUS
<1>6. dhcp_bind(d) = b
  BY <1>1, <1>4, <1>5 DEF dhcp_bind, Bound
<1>7. b \in Client
  BY <1>0, <1>5 DEF Client
<1>8. /\ b.state = e.state /\ b.address /\ b.offered = e.offered /\ b.lease_used = 0
      /\ b.t0_timeout = t0 /\ b.t1_renew_time = t1 /\ b.t2_rebind_time = t2
  BY <1>5 DEF Client
<1> QED
  BY <1>2, <1>4, <1>6, <1>7, <1>8 DEF SameLease

\* What dhcp_release_and_stop and dhcp_start leave of it.
LEMMA Restarts ==
  ASSUME NEW d \in Client
  PROVE  /\ Restart(d) \in Client /\ Restart(d).state = "SELECTING"
         /\ Restart(d).address = (d.address /\ ~ dhcp_supplied_address(d))
         /\ Restart(d).t0_timeout = 0 /\ Restart(d).t1_renew_time = 0 /\ Restart(d).t2_rebind_time = 0
<1>1. PICK a \in BOOLEAN : a = (d.address /\ ~ dhcp_supplied_address(d))
  BY DEF dhcp_supplied_address
<1>2. PICK z : z = [Zero EXCEPT !.address = a]
  OBVIOUS
<1>3. PICK y : y = dhcp_set_state(z, "SELECTING")
  OBVIOUS
<1>4. y = [state |-> "SELECTING", tries |-> 0, request_timeout |-> 0, t0_timeout |-> 0,
           t2_timeout |-> 0, t1_renew_time |-> 0, t2_rebind_time |-> 0, lease_used |-> 0,
           offered |-> NoGrant, address |-> a, query |-> NoQuery]
  BY <1>2, <1>3 DEF Zero, dhcp_set_state
<1>5. y \in Client
  BY <1>4, Quantities DEF Client, States
<1>6. dhcp_set_state(y, "SELECTING") = y
  BY <1>4 DEF dhcp_set_state
<1>7. TryIn(z, "SELECTING") = TryIn(y, "SELECTING")
  BY <1>3, <1>6 DEF TryIn
<1>8. Restart(d) = dhcp_discover(y)
  BY <1>1, <1>2, <1>7 DEF Restart, dhcp_discover, Ask
<1>9. y.address = a /\ y.t0_timeout = 0 /\ y.t1_renew_time = 0 /\ y.t2_rebind_time = 0
  BY <1>4
<1>10. /\ dhcp_discover(y) \in Client /\ dhcp_discover(y).state = "SELECTING"
       /\ SameLease(y, dhcp_discover(y))
  BY <1>5, Discovers
<1> QED
  BY <1>1, <1>8, <1>9, <1>10 DEF SameLease

-----------------------------------------------------------------------------
(* The lease                                                                *)

\* An address stays with a state that supplies it; such a state, and any other in
\* which the timers of a lease still run, is on the way to the end of that lease.
Running(d) ==
  /\ d.address => dhcp_supplied_address(d)
  /\ dhcp_supplied_address(d) => d.t0_timeout # 0
  /\ d.t0_timeout # 0 => d.lease_used < d.t0_timeout
  /\ d.t0_timeout = 0 => d.t1_renew_time = 0 /\ d.t2_rebind_time = 0

\* An address is checked twice, half a second each.
Checking(d) ==
  d.state = "CHECKING" => d.offered \in Grants /\ d.tries \in {1, 2} /\ d.request_timeout = 1

\* The timers of a lease are those of the grant it is held by, and as long as the
\* client has not asked to renew it they have counted together.
Holding(d) ==
  /\ d.address => d.t0_timeout = Minutes(d.offered.lease)
  /\ d.state = "BOUND" =>
       /\ d.offered \in Grants
       /\ d.t0_timeout = Minutes(d.offered.lease)
       /\ d.t1_renew_time # 0 /\ d.lease_used + d.t1_renew_time = Minutes(d.offered.renew)
       /\ d.t2_rebind_time # 0 /\ d.lease_used + d.t2_rebind_time = Minutes(d.offered.rebind)

Sound(d) == d \in Client /\ Running(d) /\ Checking(d) /\ Holding(d)

\* A step that leaves the lease alone keeps all this, unless it binds or checks.
LEMMA LeaseKept ==
  ASSUME NEW d, Sound(d), NEW e \in Client, SameLease(d, e), e.state \notin {"BOUND", "CHECKING"},
         d.address => dhcp_supplied_address(e),
         dhcp_supplied_address(e) => d.t0_timeout # 0
  PROVE  Sound(e)
BY DEF Sound, SameLease, Running, Checking, Holding

\* dhcp_bind with an offered grant starts the lease from zero.
LEMMA BindSound ==
  ASSUME NEW d \in Client, d.offered \in Grants
  PROVE  Sound(dhcp_bind(d))
<1>1. PICK e \in Client : e = dhcp_bind(d)
  BY Binds
<1>2. /\ e.state = "BOUND" /\ e.address /\ e.offered = d.offered /\ e.lease_used = 0
      /\ e.t0_timeout = Minutes(d.offered.lease) /\ e.t1_renew_time = Minutes(d.offered.renew)
      /\ e.t2_rebind_time = Minutes(d.offered.rebind)
  BY <1>1, Binds
<1>3. /\ Minutes(d.offered.lease) \in Nat \ {0} /\ Minutes(d.offered.renew) \in Nat \ {0}
      /\ Minutes(d.offered.rebind) \in Nat \ {0}
  BY MinutesType, MinutesBounded
<1>4. Running(e)
  BY <1>2, <1>3 DEF Running, dhcp_supplied_address
<1>5. Checking(e) /\ Holding(e)
  BY <1>2, <1>3 DEF Checking, Holding
<1> QED
  BY <1>1, <1>4, <1>5 DEF Sound

\* dhcp_check keeps the client sound before the address is used.
LEMMA CheckSound ==
  ASSUME NEW d \in Client, Running(d), d.offered \in Grants, ~ d.address,
         d.state = "CHECKING" => d.tries = 1
  PROVE  Sound(dhcp_check(d))
<1>1. PICK e \in Client : e = dhcp_check(d)
  BY Checks
<1>2. /\ e.state = "CHECKING" /\ e.request_timeout = 1 /\ SameLease(d, e)
      /\ e.tries = IF d.state = "CHECKING" THEN Min({d.tries + 1, MaxTries}) ELSE 1
  BY <1>1, Checks
<1>3. Min({1 + 1, MaxTries}) = 2
  BY MinOfTwo, Quantities
<1>4. e.tries \in {1, 2}
  BY <1>2, <1>3
<1>5. Running(e)
  BY <1>2 DEF Running, SameLease, dhcp_supplied_address
<1>6. Checking(e) /\ Holding(e)
  BY <1>2, <1>4 DEF Checking, Holding, SameLease
<1> QED
  BY <1>1, <1>5, <1>6 DEF Sound

\* The restart gives the address up.
LEMMA RestartSound ==
  ASSUME NEW d, Sound(d)
  PROVE  Sound(Restart(d)) /\ ~ Restart(d).address /\ Restart(d).state = "SELECTING"
<1>1. d \in Client
  BY DEF Sound
<1>2. PICK e \in Client : e = Restart(d)
  BY <1>1, Restarts
<1>3. /\ e.state = "SELECTING" /\ e.address = (d.address /\ ~ dhcp_supplied_address(d))
      /\ e.t0_timeout = 0 /\ e.t1_renew_time = 0 /\ e.t2_rebind_time = 0
  BY <1>1, <1>2, Restarts
<1>4. ~ e.address
  BY <1>3 DEF Sound, Running
<1>5. Running(e) /\ Checking(e) /\ Holding(e)
  BY <1>3, <1>4 DEF Running, Checking, Holding, dhcp_supplied_address
<1> QED
  BY <1>2, <1>3, <1>4, <1>5 DEF Sound

\* The client stays sound while it looks for a server.
LEMMA SelectSound ==
  ASSUME NEW d, Sound(d), ~ d.address
  PROVE  /\ Sound(dhcp_discover(d)) /\ ~ dhcp_discover(d).address /\ dhcp_discover(d).state = "SELECTING"
         /\ Sound(dhcp_select(d)) /\ ~ dhcp_select(d).address /\ dhcp_select(d).state = "REQUESTING"
<1>1. d \in Client
  BY DEF Sound
<1>2. PICK e \in Client : e = dhcp_discover(d)
  BY <1>1, Discovers
<1>3. e.state = "SELECTING" /\ SameLease(d, e)
  BY <1>1, <1>2, Discovers
<1>4. Sound(e) /\ ~ e.address
  BY <1>3, LeaseKept DEF dhcp_supplied_address, SameLease
<1>5. PICK f \in Client : f = dhcp_select(d)
  BY <1>1, Selects
<1>6. f.state = "REQUESTING" /\ SameLease(d, f)
  BY <1>1, <1>5, Selects
<1>7. Sound(f) /\ ~ f.address
  BY <1>6, LeaseKept DEF dhcp_supplied_address, SameLease
<1> QED
  BY <1>2, <1>3, <1>4, <1>5, <1>6, <1>7

\* A refusal takes the address away and starts again.
LEMMA NakSound ==
  ASSUME NEW d, Sound(d)
  PROVE  Sound(dhcp_handle_nak(d)) /\ ~ dhcp_handle_nak(d).address
         /\ dhcp_handle_nak(d).state = "SELECTING"
<1>1. d \in Client /\ "BACKING_OFF" \in States
  BY DEF Sound, States
<1>2. PICK e \in Client : e = dhcp_set_state(d, "BACKING_OFF")
  BY <1>1, StateSet
<1>3. e.state = "BACKING_OFF" /\ SameLease(d, e)
  BY <1>1, <1>2, StateSet
<1>4. PICK f : f = [e EXCEPT !.address = FALSE]
  OBVIOUS
<1>5. f \in Client /\ f.state = "BACKING_OFF" /\ ~ f.address /\ f.t0_timeout = e.t0_timeout
      /\ f.lease_used = e.lease_used /\ f.t1_renew_time = e.t1_renew_time
      /\ f.t2_rebind_time = e.t2_rebind_time
  BY <1>3, <1>4 DEF Client
<1>6. Sound(f)
  BY <1>3, <1>5 DEF Sound, SameLease, Running, Checking, Holding, dhcp_supplied_address
<1>7. dhcp_handle_nak(d) = dhcp_discover(f)
  BY <1>2, <1>4 DEF dhcp_handle_nak
<1> QED
  BY <1>5, <1>6, <1>7, SelectSound

\* Declining an address that another host owns keeps the client sound.
LEMMA DeclineSound ==
  ASSUME NEW d, Sound(d), ~ d.address
  PROVE  Sound(dhcp_decline(d)) /\ ~ dhcp_decline(d).address /\ dhcp_decline(d).state = "BACKING_OFF"
<1>1. d \in Client
  BY DEF Sound
<1>2. PICK e \in Client : e = dhcp_decline(d)
  BY <1>1, Declines
<1>3. e.state = "BACKING_OFF" /\ SameLease(d, e)
  BY <1>1, <1>2, Declines
<1>4. Sound(e) /\ ~ e.address
  BY <1>3, LeaseKept DEF dhcp_supplied_address, SameLease
<1> QED
  BY <1>2, <1>3, <1>4

-----------------------------------------------------------------------------
(* The timer of half seconds                                                *)

\* What a run of dhcp_fine_tmr does to an address: it is kept or bound after the
\* second check.
FineEffect(d, e) ==
  /\ d.address => e.address
  /\ e.address =>
       \/ d.address /\ e.lease_used = d.lease_used /\ e.offered = d.offered
       \/ d.state = "CHECKING" /\ d.tries = 2 /\ e.lease_used = 0 /\ e.offered = d.offered
  /\ e.state = "CHECKING" =>
       d.state = "CHECKING" /\ d.tries = 1 /\ e.tries = 2 /\ e.offered = d.offered

\* dhcp_timeout by state and number of tries.
LEMMA TimeoutCases ==
  ASSUME NEW d
  PROVE  /\ d.state \in {"BACKING_OFF", "SELECTING"} => dhcp_timeout(d) = dhcp_discover(d)
         /\ d.state = "REQUESTING" /\ d.tries < MaxTries => dhcp_timeout(d) = dhcp_select(d)
         /\ d.state = "REQUESTING" /\ ~ (d.tries < MaxTries) => dhcp_timeout(d) = Restart(d)
         /\ d.state = "CHECKING" /\ d.tries <= 1 => dhcp_timeout(d) = dhcp_check(d)
         /\ d.state = "CHECKING" /\ ~ (d.tries <= 1) => dhcp_timeout(d) = dhcp_bind(d)
         /\ d.state \notin {"BACKING_OFF", "SELECTING", "REQUESTING", "CHECKING"} => dhcp_timeout(d) = d
BY DEF dhcp_timeout

\* Half a second of the fine timer keeps the client sound.
LEMMA FineKeeps ==
  ASSUME NEW d, Sound(d)
  PROVE  Sound(dhcp_fine_tmr(d)) /\ FineEffect(d, dhcp_fine_tmr(d))
<1>1. d \in Client /\ d.request_timeout \in 0 .. MaxWait
  BY DEF Sound, Client
<1>2. CASE d.request_timeout > 1
  <2>1. PICK wait \in 0 .. MaxWait : wait = d.request_timeout - 1
    BY <1>1, <1>2, Quantities
  <2>2. PICK e : e = [d EXCEPT !.request_timeout = wait]
    OBVIOUS
  <2>3. dhcp_fine_tmr(d) = e
    BY <1>1, <1>2, <2>1, <2>2 DEF dhcp_fine_tmr
  <2>4. e \in Client /\ SameLease(d, e) /\ e.state = d.state /\ e.tries = d.tries
    BY <1>1, <2>2 DEF Client, SameLease
  <2>5. d.state # "CHECKING"
    BY <1>1, <1>2 DEF Sound, Checking
  <2>6. Sound(e)
    BY <2>4, <2>5 DEF Sound, SameLease, Running, Checking, Holding, dhcp_supplied_address
  <2>7. FineEffect(d, e)
    BY <2>4, <2>5 DEF FineEffect, SameLease
  <2> QED
    BY <2>3, <2>6, <2>7
<1>3. CASE d.request_timeout = 0
  <2>1. dhcp_fine_tmr(d) = d
    BY <1>3 DEF dhcp_fine_tmr
  <2>2. d.state # "CHECKING"
    BY <1>3 DEF Sound, Checking
  <2>3. FineEffect(d, d)
    BY <2>2 DEF FineEffect
  <2> QED
    BY <2>1, <2>3
<1>4. CASE d.request_timeout = 1
  <2>1. PICK e : e = [d EXCEPT !.request_timeout = 0]
    OBVIOUS
  <2>2. dhcp_fine_tmr(d) = dhcp_timeout(e)
    BY <1>4, <2>1 DEF dhcp_fine_tmr
  <2>3. e \in Client /\ SameLease(d, e) /\ e.state = d.state /\ e.tries = d.tries
    <3>1. 0 \in 0 .. MaxWait
      BY Quantities
    <3> QED
      BY <1>1, <2>1, <3>1 DEF Client, SameLease
  <2>4. CASE d.state # "CHECKING"
    <3>1. Sound(e)
      BY <2>3, <2>4 DEF Sound, SameLease, Running, Checking, Holding, dhcp_supplied_address
    <3>2. CASE d.state \in {"BACKING_OFF", "SELECTING", "REQUESTING"}
      <4>1. ~ e.address /\ ~ d.address
        BY <2>3, <3>2 DEF Sound, Running, dhcp_supplied_address, SameLease
      <4>2. dhcp_timeout(e) \in {dhcp_discover(e), dhcp_select(e), Restart(e)}
        BY <2>3, <3>2, TimeoutCases
      <4>3. Sound(dhcp_timeout(e)) /\ ~ dhcp_timeout(e).address
            /\ dhcp_timeout(e).state \in {"SELECTING", "REQUESTING"}
        <5>1. /\ Sound(dhcp_discover(e)) /\ ~ dhcp_discover(e).address
              /\ dhcp_discover(e).state = "SELECTING"
              /\ Sound(dhcp_select(e)) /\ ~ dhcp_select(e).address
              /\ dhcp_select(e).state = "REQUESTING"
          BY <3>1, <4>1, SelectSound
        <5>2. Sound(Restart(e)) /\ ~ Restart(e).address /\ Restart(e).state = "SELECTING"
          BY <3>1, RestartSound
        <5> QED
          BY <4>2, <5>1, <5>2
      <4> QED
        BY <2>2, <4>1, <4>3 DEF FineEffect
    <3>3. CASE d.state \notin {"BACKING_OFF", "SELECTING", "REQUESTING"}
      <4>1. dhcp_timeout(e) = e
        BY <2>3, <2>4, <3>3, TimeoutCases
      <4>2. FineEffect(d, e)
        BY <2>3, <2>4 DEF FineEffect, SameLease
      <4> QED
        BY <2>2, <3>1, <4>1, <4>2
    <3> QED
      BY <3>2, <3>3
  <2>5. CASE d.state = "CHECKING"
    <3>1. d.offered \in Grants /\ d.tries \in {1, 2} /\ ~ d.address /\ Running(d)
      BY <2>5 DEF Sound, Checking, Running, dhcp_supplied_address
    <3>2. e.offered \in Grants /\ ~ e.address /\ Running(e) /\ e.offered = d.offered
      BY <2>3, <3>1 DEF Running, SameLease, dhcp_supplied_address
    <3>3. CASE d.tries = 1
      <4>1. dhcp_timeout(e) = dhcp_check(e)
        BY <2>3, <2>5, <3>3, TimeoutCases
      <4>2. Sound(dhcp_check(e))
        BY <2>3, <3>2, <3>3, CheckSound
      <4>3. /\ SameLease(e, dhcp_check(e)) /\ dhcp_check(e).tries = Min({e.tries + 1, MaxTries})
        BY <2>3, <2>5, Checks
      <4>4. Min({1 + 1, MaxTries}) = 2
        BY MinOfTwo, Quantities
      <4>5. FineEffect(d, dhcp_check(e))
        BY <2>3, <2>5, <3>1, <3>2, <3>3, <4>3, <4>4 DEF FineEffect, SameLease
      <4> QED
        BY <2>2, <4>1, <4>2, <4>5
    <3>4. CASE d.tries = 2
      <4>1. dhcp_timeout(e) = dhcp_bind(e)
        BY <2>3, <2>5, <3>4, TimeoutCases
      <4>2. Sound(dhcp_bind(e))
        BY <2>3, <3>2, BindSound
      <4>3. /\ dhcp_bind(e).lease_used = 0 /\ dhcp_bind(e).offered = e.offered
            /\ dhcp_bind(e).state = "BOUND"
        BY <2>3, Binds
      <4>4. FineEffect(d, dhcp_bind(e))
        BY <2>5, <3>1, <3>2, <3>4, <4>3 DEF FineEffect
      <4> QED
        BY <2>2, <4>1, <4>2, <4>4
    <3> QED
      BY <3>1, <3>3, <3>4
  <2> QED
    BY <2>4, <2>5
<1> QED
  BY <1>1, <1>2, <1>3, <1>4

-----------------------------------------------------------------------------
(* The timer of minutes                                                     *)

\* The counts of the coarse timer stay within their bounds.
LEMMA Turns ==
  /\ \A n \in 0 .. MaxMinutes : Down(n) \in 0 .. MaxMinutes
                                /\ Down(n) = IF n = 0 THEN 0 ELSE n - 1
  /\ \A end \in 0 .. MaxMinutes, used \in 0 .. MaxMinutes : NextTurn(end, used) \in 0 .. MaxMinutes
<1>1. MaxMinutes \in Nat
  BY Quantities
<1>2. ASSUME NEW n \in 0 .. MaxMinutes
      PROVE  Down(n) \in 0 .. MaxMinutes /\ Down(n) = IF n = 0 THEN 0 ELSE n - 1
  <2>1. n \in Nat /\ n - 1 \in Int
    BY <1>1
  <2>2. Max({n - 1, 0}) = IF n - 1 >= 0 THEN n - 1 ELSE 0
    BY <2>1, MaxOfTwo
  <2> QED
    BY <1>1, <2>1, <2>2 DEF Down
<1>3. ASSUME NEW end \in 0 .. MaxMinutes, NEW used \in 0 .. MaxMinutes
      PROVE  NextTurn(end, used) \in 0 .. MaxMinutes
  BY <1>1 DEF NextTurn
<1> QED
  BY <1>2, <1>3

\* A client that asks to renew or to rebind: the state changes and one of the timers.
Turned(d, s, query, t1, t2) ==
  [[dhcp_set_state(d, s) EXCEPT !.query = query] EXCEPT !.t1_renew_time = t1, !.t2_rebind_time = t2]

\* It asks while the lease still runs.
LEMMA TurnSound ==
  ASSUME NEW d \in Client, Running(d), d.address => d.t0_timeout = Minutes(d.offered.lease),
         d.t0_timeout # 0, NEW s \in {"RENEWING", "REBINDING"}, NEW query \in Query,
         NEW t1 \in 0 .. MaxMinutes, NEW t2 \in 0 .. MaxMinutes, NEW f, f = Turned(d, s, query, t1, t2)
  PROVE  /\ Sound(f) /\ f.state = s /\ f.address = d.address /\ f.lease_used = d.lease_used
         /\ f.offered = d.offered
<1>0. s \in States
  BY DEF States
<1>1. PICK e \in Client : e = [dhcp_set_state(d, s) EXCEPT !.query = query]
  BY <1>0, Renews
<1>2. e.state = s /\ SameLease(d, e)
  BY <1>0, <1>1, Renews
<1>3. f = [e EXCEPT !.t1_renew_time = t1, !.t2_rebind_time = t2]
  BY <1>1 DEF Turned
<1>4. /\ f \in Client /\ f.state = e.state /\ f.address = e.address /\ f.lease_used = e.lease_used
      /\ f.offered = e.offered /\ f.t0_timeout = e.t0_timeout
  BY <1>3 DEF Client
<1>5. Running(f)
  BY <1>2, <1>4 DEF Running, SameLease, dhcp_supplied_address
<1>6. Checking(f) /\ Holding(f)
  BY <1>2, <1>4 DEF Checking, Holding, SameLease
<1> QED
  BY <1>2, <1>4, <1>5, <1>6 DEF Sound, SameLease

\* What a run of dhcp_coarse_tmr does to an address, to a check under way and to the
\* state BOUND, in which the first timers of the grant are still to come.
CoarseEffect(d, e) ==
  /\ e.address => d.address /\ e.lease_used = d.lease_used + 1 /\ e.offered = d.offered
  /\ e.state = "CHECKING" => d.state = "CHECKING" /\ e.tries = d.tries /\ e.offered = d.offered
  /\ d.address /\ ~ e.address => d.lease_used + 1 = d.t0_timeout

Counted(d, used, t1, t2) ==
  [d EXCEPT !.lease_used = used, !.t2_rebind_time = t2, !.t1_renew_time = t1]

\* Another minute of the lease, the end not reached: a client as before, but for what
\* the timers say in state BOUND.
LEMMA MinuteCounted ==
  ASSUME NEW d, Sound(d), NEW used \in Nat,
         d.t0_timeout = 0 => used = d.lease_used, d.t0_timeout # 0 => used = d.lease_used + 1,
         ~ (d.t0_timeout # 0 /\ used = d.t0_timeout),
         NEW t1 \in 0 .. MaxMinutes, NEW t2 \in 0 .. MaxMinutes,
         d.t0_timeout = 0 => t1 = 0 /\ t2 = 0,
         NEW e, e = Counted(d, used, t1, t2)
  PROVE  /\ e \in Client /\ Running(e) /\ Checking(e) /\ CoarseEffect(d, e)
         /\ e.address => e.t0_timeout = Minutes(e.offered.lease)
         /\ e.state = d.state /\ e.t0_timeout = d.t0_timeout /\ e.t2_timeout = d.t2_timeout
         /\ e.lease_used = used /\ e.offered = d.offered
         /\ e.t1_renew_time = t1 /\ e.t2_rebind_time = t2
<1>1. /\ d \in Client /\ d.lease_used \in 0 .. MaxMinutes /\ d.t0_timeout \in 0 .. MaxMinutes
      /\ MaxMinutes \in Nat
  BY Quantities DEF Sound, Client
<1>2. d.t0_timeout # 0 => d.lease_used < d.t0_timeout /\ used < d.t0_timeout
  BY <1>1 DEF Sound, Running
<1>3. used \in 0 .. MaxMinutes
  BY <1>1, <1>2
<1>4. e \in Client
  BY <1>1, <1>3 DEF Client, Counted
<1>5. /\ e.state = d.state /\ e.tries = d.tries /\ e.request_timeout = d.request_timeout
      /\ e.t0_timeout = d.t0_timeout /\ e.t2_timeout = d.t2_timeout
      /\ e.offered = d.offered /\ e.address = d.address
  BY <1>1 DEF Client, Counted
<1>6. e.lease_used = used /\ e.t2_rebind_time = t2 /\ e.t1_renew_time = t1
  BY <1>1 DEF Client, Counted
<1>7. Running(e)
  BY <1>2, <1>5, <1>6 DEF Sound, Running, dhcp_supplied_address
<1>8. Checking(e) /\ (e.address => e.t0_timeout = Minutes(e.offered.lease))
  BY <1>5 DEF Sound, Checking, Holding
<1>9. CoarseEffect(d, e)
  BY <1>5, <1>6 DEF CoarseEffect, Sound, Running, dhcp_supplied_address
<1> QED
  BY <1>4, <1>5, <1>6, <1>7, <1>8, <1>9

\* A run of dhcp_coarse_tmr keeps the client sound.
LEMMA CoarseKeeps ==
  ASSUME NEW d, Sound(d)
  PROVE  Sound(dhcp_coarse_tmr(d)) /\ CoarseEffect(d, dhcp_coarse_tmr(d))
<1>1. /\ d \in Client /\ d.lease_used \in 0 .. MaxMinutes /\ d.t0_timeout \in 0 .. MaxMinutes
      /\ d.t1_renew_time \in 0 .. MaxMinutes /\ d.t2_rebind_time \in 0 .. MaxMinutes
      /\ d.t2_timeout \in 0 .. MaxMinutes /\ MaxMinutes \in Nat
  BY Quantities DEF Sound, Client
<1>2. PICK used \in Nat : used = IF d.t0_timeout = 0 THEN d.lease_used ELSE d.lease_used + 1
  BY <1>1
<1>3. PICK t2 \in 0 .. MaxMinutes : t2 = Down(d.t2_rebind_time)
  BY <1>1, Turns
<1>4. PICK t1 \in 0 .. MaxMinutes : t1 = Down(d.t1_renew_time)
  BY <1>1, Turns
<1>5. /\ t2 = IF d.t2_rebind_time = 0 THEN 0 ELSE d.t2_rebind_time - 1
      /\ t1 = IF d.t1_renew_time = 0 THEN 0 ELSE d.t1_renew_time - 1
  BY <1>1, <1>3, <1>4, Turns
<1>6. d.t0_timeout = 0 => d.t1_renew_time = 0 /\ d.t2_rebind_time = 0 /\ t1 = 0 /\ t2 = 0
  BY <1>5 DEF Sound, Running
<1>7. PICK u : u = [d EXCEPT !.lease_used = used]
  OBVIOUS
<1>8. PICK v : v = [d EXCEPT !.lease_used = used, !.t2_rebind_time = t2]
  OBVIOUS
<1>9. PICK w : w = [d EXCEPT !.lease_used = used, !.t2_rebind_time = t2, !.t1_renew_time = t1]
  OBVIOUS
<1>10. /\ u.t0_timeout = d.t0_timeout /\ u.lease_used = used /\ u.t2_rebind_time = d.t2_rebind_time
       /\ v.t1_renew_time = d.t1_renew_time
  BY <1>1, <1>7, <1>8 DEF Client
<1>11. v = [u EXCEPT !.t2_rebind_time = Down(u.t2_rebind_time)]
  BY <1>1, <1>3, <1>7, <1>8, <1>10 DEF Client
<1>12. w = [v EXCEPT !.t1_renew_time = Down(v.t1_renew_time)]
  BY <1>1, <1>4, <1>8, <1>9, <1>10 DEF Client
<1>13. dhcp_coarse_tmr(d) =
         IF d.t0_timeout # 0 /\ used = d.t0_timeout THEN Restart(d)
         ELSE IF d.t2_rebind_time = 1 THEN dhcp_t2_timeout(v)
         ELSE IF d.t1_renew_time = 1 THEN dhcp_t1_timeout(w)
         ELSE w
  BY <1>2, <1>7, <1>10, <1>11, <1>12 DEF dhcp_coarse_tmr
<1>14. CASE d.t0_timeout # 0 /\ used = d.t0_timeout
  <2>1. Sound(Restart(d)) /\ ~ Restart(d).address /\ Restart(d).state = "SELECTING"
    BY RestartSound
  <2>2. CoarseEffect(d, Restart(d))
    BY <1>2, <1>14, <2>1 DEF CoarseEffect
  <2> QED
    BY <1>13, <1>14, <2>1, <2>2
<1>15. CASE ~ (d.t0_timeout # 0 /\ used = d.t0_timeout)
  <2>0. /\ d.t0_timeout = 0 => used = d.lease_used
        /\ d.t0_timeout # 0 => used = d.lease_used + 1
        /\ d.t0_timeout = 0 => t1 = 0 /\ t2 = 0
        /\ d.t0_timeout = 0 => d.t1_renew_time = 0 /\ t2 = 0
    BY <1>2, <1>6
  <2>7. w = Counted(d, used, t1, t2)
    BY <1>9 DEF Counted
  <2>1. /\ w \in Client /\ Running(w) /\ Checking(w) /\ CoarseEffect(d, w)
        /\ w.address => w.t0_timeout = Minutes(w.offered.lease)
        /\ w.state = d.state /\ w.t0_timeout = d.t0_timeout /\ w.t2_timeout = d.t2_timeout
        /\ w.lease_used = used /\ w.offered = d.offered
        /\ w.t1_renew_time = t1 /\ w.t2_rebind_time = t2
    BY <1>15, <2>0, <2>7, MinuteCounted
  <2>2. v = Counted(d, used, d.t1_renew_time, t2)
    BY <1>1, <1>8 DEF Client, Counted
  <2>3. /\ v \in Client /\ Running(v) /\ Checking(v) /\ CoarseEffect(d, v)
        /\ v.address => v.t0_timeout = Minutes(v.offered.lease)
        /\ v.state = d.state /\ v.t0_timeout = d.t0_timeout
        /\ v.lease_used = used /\ v.offered = d.offered
    BY <1>1, <1>15, <2>0, <2>2, MinuteCounted
  <2>4. CASE d.t2_rebind_time = 1
    <3>1. dhcp_coarse_tmr(d) = dhcp_t2_timeout(v)
      BY <1>13, <1>15, <2>4
    <3>2. CASE v.state \in {"REQUESTING", "BOUND", "RENEWING", "REBINDING"}
      <4>1. PICK turn \in 0 .. MaxMinutes : turn = NextTurn(v.t0_timeout, v.lease_used)
        <5>1. v.t0_timeout \in 0 .. MaxMinutes /\ v.lease_used \in 0 .. MaxMinutes
          BY <2>3 DEF Client
        <5> QED
          BY <5>1, Turns
      <4>2. PICK query \in Query : query = [type |-> "REQUEST", age |-> 0]
        BY Quantities
      <4>3. PICK e \in Client : e = [dhcp_set_state(v, "REBINDING") EXCEPT !.query = query]
        BY <2>3, Renews DEF States
      <4>4. PICK f : f = [e EXCEPT !.t2_rebind_time = turn]
        OBVIOUS
      <4>5. dhcp_t2_timeout(v) = f
        BY <3>2, <4>1, <4>2, <4>3, <4>4 DEF dhcp_t2_timeout, dhcp_rebind
      <4>6. f = Turned(v, "REBINDING", query, e.t1_renew_time, turn)
        BY <4>3, <4>4 DEF Client, Turned
      <4>7. e.t1_renew_time \in 0 .. MaxMinutes
        BY DEF Client
      <4>8. v.t0_timeout # 0
        BY <1>6, <2>3, <2>4
      <4>9. /\ Sound(f) /\ f.state = "REBINDING" /\ f.address = v.address
            /\ f.lease_used = v.lease_used /\ f.offered = v.offered
        BY <2>3, <4>6, <4>7, <4>8, TurnSound
      <4>10. CoarseEffect(d, f)
        BY <2>3, <4>9 DEF CoarseEffect
      <4> QED
        BY <3>1, <4>5, <4>9, <4>10
    <3>3. CASE v.state \notin {"REQUESTING", "BOUND", "RENEWING", "REBINDING"}
      <4>1. dhcp_t2_timeout(v) = v
        BY <3>3 DEF dhcp_t2_timeout
      <4>2. Sound(v)
        BY <2>3, <3>3 DEF Sound, Holding
      <4> QED
        BY <2>3, <3>1, <4>1, <4>2
    <3> QED
      BY <3>2, <3>3
  <2>5. CASE d.t2_rebind_time # 1 /\ d.t1_renew_time = 1
    <3>1. dhcp_coarse_tmr(d) = dhcp_t1_timeout(w)
      BY <1>13, <1>15, <2>5
    <3>2. CASE w.state \in {"REQUESTING", "BOUND", "RENEWING"}
      <4>1. PICK turn \in 0 .. MaxMinutes : turn = NextTurn(w.t2_timeout, w.lease_used)
        <5>1. w.t2_timeout \in 0 .. MaxMinutes /\ w.lease_used \in 0 .. MaxMinutes
          BY <2>1 DEF Client
        <5> QED
          BY <5>1, Turns
      <4>2. PICK query \in Query : query = [type |-> "REQUEST", age |-> 0]
        BY Quantities
      <4>3. PICK e \in Client : e = [dhcp_set_state(w, "RENEWING") EXCEPT !.query = query]
        BY <2>1, Renews DEF States
      <4>4. PICK f : f = [e EXCEPT !.t1_renew_time = turn]
        OBVIOUS
      <4>5. dhcp_t1_timeout(w) = f
        BY <3>2, <4>1, <4>2, <4>3, <4>4 DEF dhcp_t1_timeout, dhcp_renew
      <4>6. f = Turned(w, "RENEWING", query, turn, e.t2_rebind_time)
        BY <4>3, <4>4 DEF Client, Turned
      <4>7. e.t2_rebind_time \in 0 .. MaxMinutes
        BY DEF Client
      <4>8. w.t0_timeout # 0
        BY <1>6, <2>1, <2>5
      <4>9. /\ Sound(f) /\ f.state = "RENEWING" /\ f.address = w.address
            /\ f.lease_used = w.lease_used /\ f.offered = w.offered
        BY <2>1, <4>6, <4>7, <4>8, TurnSound
      <4>10. CoarseEffect(d, f)
        BY <2>1, <4>9 DEF CoarseEffect
      <4> QED
        BY <3>1, <4>5, <4>9, <4>10
    <3>3. CASE w.state \notin {"REQUESTING", "BOUND", "RENEWING"}
      <4>1. dhcp_t1_timeout(w) = w
        BY <3>3 DEF dhcp_t1_timeout
      <4>2. Sound(w)
        BY <2>1, <3>3 DEF Sound, Holding
      <4> QED
        BY <2>1, <3>1, <4>1, <4>2
    <3> QED
      BY <3>2, <3>3
  <2>6. CASE d.t2_rebind_time # 1 /\ d.t1_renew_time # 1
    <3>1. dhcp_coarse_tmr(d) = w
      BY <1>13, <1>15, <2>6
    <3>2. ASSUME w.state = "BOUND" PROVE w.lease_used + w.t1_renew_time = Minutes(w.offered.renew)
                                         /\ w.lease_used + w.t2_rebind_time = Minutes(w.offered.rebind)
                                         /\ w.t1_renew_time # 0 /\ w.t2_rebind_time # 0
      <4>1. /\ d.offered = w.offered /\ d.t0_timeout # 0 /\ used = d.lease_used + 1
            /\ d.t1_renew_time # 0 /\ d.lease_used + d.t1_renew_time = Minutes(d.offered.renew)
            /\ d.t2_rebind_time # 0 /\ d.lease_used + d.t2_rebind_time = Minutes(d.offered.rebind)
        BY <1>2, <2>1, <3>2 DEF Sound, Holding, Running, dhcp_supplied_address
      <4>2. t1 = d.t1_renew_time - 1 /\ t2 = d.t2_rebind_time - 1 /\ t1 # 0 /\ t2 # 0
        BY <1>1, <1>5, <2>6, <4>1
      <4>3. used + t1 = d.lease_used + d.t1_renew_time /\ used + t2 = d.lease_used + d.t2_rebind_time
        BY <1>1, <4>1, <4>2
      <4> QED
        BY <2>1, <4>1, <4>2, <4>3
    <3>3. Holding(w)
      <4>1. w.state = "BOUND" => w.offered \in Grants /\ w.t0_timeout = Minutes(w.offered.lease)
        BY <2>1 DEF Sound, Holding
      <4> QED
        BY <2>1, <3>2, <4>1 DEF Holding
    <3> QED
      BY <2>1, <3>1, <3>3 DEF Sound
  <2> QED
    BY <2>4, <2>5, <2>6
<1> QED
  BY <1>14, <1>15

-----------------------------------------------------------------------------
(* The invariant                                                            *)

Is(timer) == IF timer \in due THEN 1 ELSE 0

\* Half seconds of which the client knows that they have passed since it bound.
Elapsed == FinePerCoarse * (dhcp.lease_used + Is("coarse")) + phase

\* The server's clock is not ahead of the client's: of a lease that is used by more
\* than the answer and the two checks have taken, of one that is checked by more than
\* the answer and the checks so far.
LeaseInv ==
  /\ "coarse" \in due => phase = 0
  /\ dhcp.address => lease >= 2 * dhcp.offered.lease - MaxDelay - 2 - Elapsed
  /\ dhcp.state = "CHECKING" =>
       lease >= 2 * dhcp.offered.lease - MaxDelay - (dhcp.tries - 1) - Is("fine")

Clocks == phase \in 0 .. FinePerCoarse - 1 /\ due \subseteq {"fine", "coarse"} /\ lease \in Int

IInv == Sound(dhcp) /\ Clocks /\ faults \in 0 .. MaxFaults /\ LeaseInv

\* What the lease is counted in.
LEMMA Lengths ==
  /\ FinePerCoarse \in Nat \ {0} /\ MaxDelay \in Nat
  /\ \A d \in Client : /\ d.offered.lease \in Nat /\ d.lease_used \in Nat /\ d.tries \in Nat
                       /\ d.query.type = "REQUEST" => d.query.age \in 0 .. MaxDelay
<1>1. FinePerCoarse \in Nat \ {0} /\ MaxDelay \in Nat
  BY DhcpAssumption DEF FinePerCoarse
<1>2. ASSUME NEW d \in Client
      PROVE  /\ d.offered.lease \in Nat /\ d.lease_used \in Nat /\ d.tries \in Nat
             /\ d.query.type = "REQUEST" => d.query.age \in 0 .. MaxDelay
  <2>1. d.offered \in Grants \union {NoGrant} /\ d.lease_used \in Nat /\ d.tries \in Nat
    BY Quantities DEF Client
  <2>2. d.query \in Query
    BY DEF Client
  <2>3. d.query.type = "REQUEST" => d.query.age \in 0 .. MaxDelay
    BY <2>2 DEF Query, NoQuery
  <2> QED
    BY <2>1, <2>3, MinutesBounded
<1> QED
  BY <1>1, <1>2

\* A step after which no lease is used or checked.
LEMMA NoLease ==
  ASSUME Sound(dhcp)', ~ dhcp'.address, dhcp'.state # "CHECKING", Clocks', faults' \in 0 .. MaxFaults,
         ("coarse" \in due => phase = 0)'
  PROVE  IInv'
BY DEF IInv, LeaseInv

\* The first query is sent without a lease.
LEMMA InitInv == Init => IInv
<1> SUFFICES ASSUME Init PROVE IInv
  OBVIOUS
<1>1. PICK y : y = dhcp_set_state(Zero, "SELECTING")
  OBVIOUS
<1>2. y = [state |-> "SELECTING", tries |-> 0, request_timeout |-> 0, t0_timeout |-> 0,
           t2_timeout |-> 0, t1_renew_time |-> 0, t2_rebind_time |-> 0, lease_used |-> 0,
           offered |-> NoGrant, address |-> FALSE, query |-> NoQuery]
  BY <1>1 DEF Zero, dhcp_set_state
<1>3. y \in Client
  BY <1>2, Quantities DEF Client, States
<1>4. dhcp_set_state(y, "SELECTING") = y
  BY <1>2 DEF dhcp_set_state
<1>5. TryIn(Zero, "SELECTING") = TryIn(y, "SELECTING")
  BY <1>1, <1>4 DEF TryIn
<1>6. dhcp = dhcp_discover(y)
  BY <1>5 DEF Init, dhcp_discover, Ask
<1>7. Sound(y)
  BY <1>2, <1>3 DEF Sound, Running, Checking, Holding, dhcp_supplied_address
<1>8. ~ y.address
  BY <1>2
<1>9. Sound(dhcp) /\ ~ dhcp.address /\ dhcp.state = "SELECTING"
  BY <1>6, <1>7, <1>8, SelectSound
<1>10. Clocks /\ faults \in 0 .. MaxFaults /\ due = {}
  BY DhcpAssumption DEF Init, Clocks
<1> QED
  BY <1>9, <1>10 DEF IInv, LeaseInv

\* Half a second: both clocks go on, the client's in the phase or, at its end, by a
\* run of dhcp_coarse_tmr that is due.
LEMMA TickKept ==
  ASSUME IInv, Tick
  PROVE  IInv'
<1>1. Sound(dhcp) /\ Clocks /\ LeaseInv /\ due = {} /\ dhcp \in Client
  BY DEF IInv, Tick, Sound
<1>2. PICK d \in Client : d = dhcp
  BY <1>1
<1>3. PICK e : e = [d EXCEPT !.query = Aged(d.query)]
  OBVIOUS
<1>4. dhcp' = e /\ dhcp = d
  BY <1>2, <1>3 DEF Tick
<1>5. PICK query \in Query : query = Aged(d.query)
  <2>1. d.query \in Query
    BY DEF Client
  <2>2. CASE d.query = NoQuery \/ d.query.age = MaxDelay
    BY <2>2, Quantities DEF Aged
  <2>3. CASE ~ (d.query = NoQuery \/ d.query.age = MaxDelay)
    <3>1. d.query \in [type : {"DISCOVER", "REQUEST"}, age : 0 .. MaxDelay]
      BY <2>1, <2>3 DEF Query
    <3>2. d.query.age + 1 \in 0 .. MaxDelay
      BY <2>3, <3>1, Quantities
    <3> QED
      BY <2>3, <3>1, <3>2 DEF Aged, Query
  <2> QED
    BY <2>2, <2>3
<1>6. /\ e \in Client /\ SameLease(d, e) /\ e.state = d.state /\ e.tries = d.tries
      /\ e.request_timeout = d.request_timeout
  BY <1>3, <1>5 DEF Client, SameLease
<1>7. Sound(e)
  BY <1>1, <1>2, <1>6 DEF Sound, SameLease, Running, Checking, Holding, dhcp_supplied_address
<1>8. PICK k \in Nat \ {0} : k = FinePerCoarse
  BY Lengths
<1>9. PICK p \in 0 .. k - 1, l \in Int : p = phase /\ l = lease
  BY <1>1, <1>8 DEF Clocks
<1>10. PICK q \in 0 .. k - 1 : q = phase'
  BY <1>8, <1>9 DEF Tick
<1>11. q = IF p + 1 = k THEN 0 ELSE p + 1
  BY <1>8, <1>9, <1>10 DEF Tick
<1>12. /\ due' = IF q = 0 THEN {"fine", "coarse"} ELSE {"fine"}
       /\ faults' = faults
       /\ lease' = IF e.address \/ e.state = "CHECKING" THEN l - 1 ELSE 0
  BY <1>4, <1>6, <1>9, <1>10 DEF Tick, LeaseMatters, SameLease
<1>13. Clocks' /\ faults' \in 0 .. MaxFaults
  BY <1>8, <1>9, <1>10, <1>12 DEF Clocks, IInv
<1>14. /\ d.offered.lease \in Nat /\ d.lease_used \in Nat /\ d.tries \in Nat /\ MaxDelay \in Nat
  BY Lengths
<1>15. ("coarse" \in due => phase = 0)'
  BY <1>10, <1>12
<1>16. ASSUME e.address
       PROVE  (lease >= 2 * dhcp.offered.lease - MaxDelay - 2 - Elapsed)'
  <2>1. d.address /\ e.offered = d.offered /\ e.lease_used = d.lease_used /\ lease' = l - 1
    BY <1>6, <1>12, <1>16 DEF SameLease
  <2>2. PICK n \in Int : n = k * d.lease_used
    BY <1>14
  <2>3. k * (d.lease_used + 0) = n /\ k * (d.lease_used + 1) = n + k
    BY <1>14, <2>2
  <2>4. Elapsed = n + p
    BY <1>1, <1>2, <1>8, <1>9, <2>3 DEF Elapsed, Is
  <2>5. Elapsed' = n + p + 1
    <3>1. Elapsed' = FinePerCoarse * (d.lease_used + (IF "coarse" \in due' THEN 1 ELSE 0)) + q
      BY <1>4, <1>10, <2>1 DEF Elapsed, Is
    <3>2. CASE q = 0
      BY <1>8, <1>11, <1>12, <2>2, <2>3, <3>1, <3>2
    <3>3. CASE q # 0
      BY <1>8, <1>11, <1>12, <2>2, <2>3, <3>1, <3>3
    <3> QED
      BY <3>2, <3>3
  <2>6. l >= 2 * d.offered.lease - MaxDelay - 2 - (n + p)
    BY <1>1, <1>2, <1>9, <2>1, <2>4 DEF LeaseInv
  <2>7. l - 1 >= 2 * d.offered.lease - MaxDelay - 2 - (n + p + 1)
    BY <1>14, <2>2, <2>6
  <2> QED
    BY <1>4, <2>1, <2>5, <2>7
<1>17. ASSUME e.state = "CHECKING"
       PROVE  (lease >= 2 * dhcp.offered.lease - MaxDelay - (dhcp.tries - 1) - Is("fine"))'
  <2>1. d.state = "CHECKING" /\ e.offered = d.offered /\ e.tries = d.tries /\ lease' = l - 1
    BY <1>6, <1>12, <1>17 DEF SameLease
  <2>2. l >= 2 * d.offered.lease - MaxDelay - (d.tries - 1) - 0
    BY <1>1, <1>2, <1>9, <2>1 DEF LeaseInv, Is
  <2>3. l - 1 >= 2 * d.offered.lease - MaxDelay - (d.tries - 1) - 1
    BY <1>14, <2>2
  <2>4. Is("fine")' = 1
    BY <1>12 DEF Is
  <2> QED
    BY <1>4, <2>1, <2>3, <2>4
<1>18. LeaseInv'
  BY <1>4, <1>15, <1>16, <1>17 DEF LeaseInv
<1> QED
  BY <1>4, <1>7, <1>13, <1>18 DEF IInv

\* Half seconds: the second check passed, the lease begins.
LEMMA FineKept ==
  ASSUME IInv, FineTimer
  PROVE  IInv'
<1>1. Sound(dhcp) /\ Clocks /\ LeaseInv /\ dhcp \in Client
  BY DEF IInv, Sound
<1>2. PICK d : d = dhcp /\ Sound(d) /\ d \in Client
  BY <1>1
<1>3. PICK e : e = dhcp_fine_tmr(d)
  OBVIOUS
<1>4. Sound(e) /\ FineEffect(d, e)
  BY <1>2, <1>3, FineKeeps
<1>5. dhcp' = e /\ lease' = IF e.address \/ e.state = "CHECKING" THEN lease ELSE 0
  BY <1>2, <1>3 DEF FineTimer, Become, LeaseMatters
<1>6. phase' = phase /\ faults' = faults /\ "fine" \in due /\ due' = due \ {"fine"}
  BY DEF FineTimer
<1>7. Clocks' /\ faults' \in 0 .. MaxFaults
  BY <1>1, <1>5, <1>6 DEF Clocks, IInv
<1>8. Is("coarse")' = Is("coarse") /\ Is("fine") = 1 /\ Is("fine")' = 0 /\ Is("coarse") \in {0, 1}
  BY <1>6 DEF Is
<1>9. d.offered.lease \in Nat /\ d.lease_used \in Nat /\ d.tries \in Nat /\ MaxDelay \in Nat /\ lease \in Int
      /\ phase \in Nat /\ FinePerCoarse \in Nat
  BY <1>1, <1>2, Lengths DEF Clocks
<1>10. ASSUME e.address
       PROVE  (lease >= 2 * dhcp.offered.lease - MaxDelay - 2 - Elapsed)'
  <2>1. CASE d.address /\ e.lease_used = d.lease_used /\ e.offered = d.offered
    <3>1. Elapsed' = Elapsed /\ lease' = lease
      BY <1>2, <1>5, <1>6, <1>8, <1>10, <2>1 DEF Elapsed
    <3>2. lease >= 2 * d.offered.lease - MaxDelay - 2 - Elapsed
      BY <1>1, <1>2, <2>1 DEF LeaseInv
    <3> QED
      BY <1>5, <2>1, <3>1, <3>2
  <2>2. CASE d.state = "CHECKING" /\ d.tries = 2 /\ e.lease_used = 0 /\ e.offered = d.offered
    <3>1. lease >= 2 * d.offered.lease - MaxDelay - (2 - 1) - 1
      BY <1>1, <1>2, <1>8, <2>2 DEF LeaseInv
    <3>2. Elapsed' \in Nat
      <4>1. Elapsed' = FinePerCoarse * (0 + Is("coarse")) + phase
        BY <1>5, <1>6, <1>8, <2>2 DEF Elapsed
      <4>2. CASE Is("coarse") = 0
        BY <1>9, <4>1, <4>2
      <4>3. CASE Is("coarse") = 1
        BY <1>9, <4>1, <4>3
      <4> QED
        BY <1>8, <4>2, <4>3
    <3>3. PICK n \in Nat : n = Elapsed'
      BY <3>2
    <3>4. lease >= 2 * d.offered.lease - MaxDelay - 2 - n
      BY <1>9, <3>1
    <3>5. lease' = lease /\ dhcp'.offered.lease = d.offered.lease
      BY <1>5, <1>10, <2>2
    <3> QED
      BY <3>3, <3>4, <3>5
  <2> QED
    BY <1>4, <1>10, <2>1, <2>2 DEF FineEffect
<1>11. ASSUME e.state = "CHECKING"
       PROVE  (lease >= 2 * dhcp.offered.lease - MaxDelay - (dhcp.tries - 1) - Is("fine"))'
  <2>1. d.state = "CHECKING" /\ d.tries = 1 /\ e.tries = 2 /\ e.offered = d.offered
    BY <1>4, <1>11 DEF FineEffect
  <2>2. lease >= 2 * d.offered.lease - MaxDelay - (1 - 1) - 1
    BY <1>1, <1>2, <1>8, <2>1 DEF LeaseInv
  <2>3. lease >= 2 * d.offered.lease - MaxDelay - (2 - 1) - 0
    BY <1>9, <2>2
  <2> QED
    BY <1>5, <1>8, <1>11, <2>1, <2>3
<1>12. LeaseInv'
  BY <1>1, <1>5, <1>6, <1>10, <1>11 DEF LeaseInv
<1> QED
  BY <1>4, <1>5, <1>7, <1>12 DEF IInv

\* A minute: what was due is counted.
LEMMA CoarseKept ==
  ASSUME IInv, CoarseTimer
  PROVE  IInv'
<1>1. Sound(dhcp) /\ Clocks /\ LeaseInv
  BY DEF IInv
<1>2. PICK d : d = dhcp /\ Sound(d) /\ d \in Client
  BY <1>1 DEF Sound
<1>3. PICK e : e = dhcp_coarse_tmr(d)
  OBVIOUS
<1>4. Sound(e) /\ CoarseEffect(d, e)
  BY <1>2, <1>3, CoarseKeeps
<1>5. dhcp' = e /\ lease' = IF e.address \/ e.state = "CHECKING" THEN lease ELSE 0
  BY <1>2, <1>3 DEF CoarseTimer, Become, LeaseMatters
<1>6. phase' = phase /\ faults' = faults /\ "coarse" \in due /\ due' = due \ {"coarse"}
  BY DEF CoarseTimer
<1>7. Clocks' /\ faults' \in 0 .. MaxFaults
  BY <1>1, <1>5, <1>6 DEF Clocks, IInv
<1>8. Is("coarse") = 1 /\ Is("coarse")' = 0 /\ Is("fine")' = Is("fine")
  BY <1>6 DEF Is
<1>9. d.lease_used \in Nat
  BY <1>2, Lengths
<1>10. ASSUME e.address
       PROVE  (lease >= 2 * dhcp.offered.lease - MaxDelay - 2 - Elapsed)'
  <2>1. d.address /\ e.lease_used = d.lease_used + 1 /\ e.offered = d.offered
    BY <1>4, <1>10 DEF CoarseEffect
  <2>2. e.lease_used + 0 = d.lease_used + 1
    BY <1>9, <2>1
  <2>3. Elapsed' = Elapsed /\ lease' = lease
    BY <1>2, <1>5, <1>6, <1>8, <1>10, <2>2 DEF Elapsed
  <2>4. lease >= 2 * d.offered.lease - MaxDelay - 2 - Elapsed
    BY <1>1, <1>2, <2>1 DEF LeaseInv
  <2> QED
    BY <1>5, <2>1, <2>3, <2>4
<1>11. ASSUME e.state = "CHECKING"
       PROVE  (lease >= 2 * dhcp.offered.lease - MaxDelay - (dhcp.tries - 1) - Is("fine"))'
  <2>1. d.state = "CHECKING" /\ e.tries = d.tries /\ e.offered = d.offered
    BY <1>4, <1>11 DEF CoarseEffect
  <2>2. lease >= 2 * d.offered.lease - MaxDelay - (d.tries - 1) - Is("fine")
    BY <1>1, <1>2, <2>1 DEF LeaseInv
  <2> QED
    BY <1>5, <1>8, <1>11, <2>1, <2>2
<1>12. LeaseInv'
  BY <1>5, <1>6, <1>10, <1>11 DEF LeaseInv
<1> QED
  BY <1>4, <1>5, <1>7, <1>12 DEF IInv

\* Answers.  An ACK may be as old as MaxDelay: the lease begins by then.
LEMMA AnswersKept ==
  ASSUME IInv, RecvOffer \/ AnyAck \/ RecvNak \/ dhcp_arp_reply
  PROVE  IInv'
<1>1. Sound(dhcp) /\ Clocks /\ LeaseInv /\ faults \in 0 .. MaxFaults /\ MaxFaults \in Nat
  BY DhcpAssumption DEF IInv
<1>2. PICK d : d = dhcp /\ Sound(d) /\ d \in Client
  BY <1>1 DEF Sound
<1>3. CASE RecvOffer
  <2>1. PICK e : e = [d EXCEPT !.request_timeout = 0]
    OBVIOUS
  <2>2. e \in Client /\ SameLease(d, e) /\ e.state = "SELECTING"
    <3>1. 0 \in 0 .. MaxWait
      BY Quantities
    <3> QED
      BY <1>2, <1>3, <2>1, <3>1 DEF Client, SameLease, RecvOffer
  <2>3. ~ d.address /\ d.state = "SELECTING"
    BY <1>2, <1>3 DEF RecvOffer, Sound, Running, dhcp_supplied_address
  <2>4. Sound(e) /\ ~ e.address
    BY <1>2, <2>2, <2>3, LeaseKept DEF dhcp_supplied_address, SameLease
  <2>5. dhcp' = dhcp_select(e)
    BY <1>2, <1>3, <2>1 DEF RecvOffer
  <2>6. Sound(dhcp)' /\ ~ dhcp'.address /\ dhcp'.state = "REQUESTING"
    BY <2>4, <2>5, SelectSound
  <2>7. Clocks' /\ faults' \in 0 .. MaxFaults /\ ("coarse" \in due => phase = 0)'
    BY <1>1, <1>3 DEF RecvOffer, Clocks, LeaseInv
  <2> QED
    BY <2>6, <2>7, NoLease
<1>4. CASE AnyAck
  <2>1. PICK g \in Grants : RecvAck(g)
    BY <1>4 DEF AnyAck
  <2>2. PICK e : e = [d EXCEPT !.offered = g]
    OBVIOUS
  <2>3. /\ e \in Client /\ e.state = d.state /\ e.offered = g /\ e.address = d.address
        /\ e.t0_timeout = d.t0_timeout /\ e.lease_used = d.lease_used
        /\ e.t1_renew_time = d.t1_renew_time /\ e.t2_rebind_time = d.t2_rebind_time
    BY <1>2, <2>2 DEF Client
  <2>4. dhcp' = IF d.state = "REQUESTING" THEN dhcp_check(e) ELSE dhcp_bind(e)
    BY <1>2, <2>1, <2>2 DEF RecvAck
  <2>5. d.state \in {"REQUESTING", "RENEWING", "REBINDING"} /\ d.query.type = "REQUEST"
    BY <1>2, <2>1 DEF RecvAck
  <2>6. PICK a \in 0 .. MaxDelay : a = d.query.age
    BY <1>2, <2>5, Lengths
  <2>7. g.lease \in Nat /\ MaxDelay \in Nat /\ lease \in Int
    BY <1>1, Lengths, MinutesBounded DEF Clocks
  <2>8. PICK m \in Int : m = 2 * g.lease - a
    BY <2>6, <2>7
  <2>9. lease' = Max({lease, m})
    BY <1>2, <2>1, <2>6, <2>8 DEF RecvAck
  <2>10. Max({lease, m}) = IF lease >= m THEN lease ELSE m
    BY <2>7, MaxOfTwo
  <2>11. PICK l \in Int : l = lease' /\ l >= 2 * g.lease - MaxDelay
    BY <2>6, <2>7, <2>8, <2>9, <2>10
  <2>12. phase' = phase /\ due' = due /\ faults' = faults
    BY <2>1 DEF RecvAck
  <2>13. Clocks' /\ faults' \in 0 .. MaxFaults /\ ("coarse" \in due => phase = 0)'
    BY <1>1, <2>11, <2>12 DEF Clocks, LeaseInv
  <2>14. Running(e)
    BY <1>2, <2>3 DEF Sound, Running, dhcp_supplied_address
  <2>15. CASE d.state = "REQUESTING"
    <3>1. PICK f \in Client : f = dhcp_check(e)
      BY <2>3, Checks
    <3>2. f.state = "CHECKING" /\ f.tries = 1 /\ f.offered = g /\ f.address = e.address
      BY <2>3, <2>15, <3>1, Checks DEF SameLease
    <3>3. ~ e.address
      BY <2>3, <2>14, <2>15 DEF Running, dhcp_supplied_address
    <3>4. Sound(f)
      BY <2>3, <2>14, <2>15, <3>1, <3>3, CheckSound
    <3>5. dhcp' = f
      BY <2>4, <2>15, <3>1
    <3>6. Is("fine")' \in {0, 1}
      BY DEF Is
    <3>7. l >= 2 * g.lease - MaxDelay - (1 - 1) - Is("fine")'
      BY <2>7, <2>11, <3>6
    <3>8. LeaseInv'
      BY <2>11, <2>13, <3>2, <3>3, <3>5, <3>7 DEF LeaseInv
    <3> QED
      BY <2>13, <3>4, <3>5, <3>8 DEF IInv
  <2>16. CASE d.state # "REQUESTING"
    <3>1. PICK f \in Client : f = dhcp_bind(e)
      BY <2>3, Binds
    <3>2. f.state = "BOUND" /\ f.lease_used = 0 /\ f.offered = g
      BY <2>3, <3>1, Binds
    <3>3. Sound(f)
      BY <2>3, <3>1, BindSound
    <3>4. dhcp' = f
      BY <2>4, <2>16, <3>1
    <3>5. PICK n \in Nat : n = Elapsed'
      <4>1. Elapsed' = FinePerCoarse * (0 + Is("coarse")') + phase
        BY <2>12, <3>2, <3>4 DEF Elapsed
      <4>2. Is("coarse")' \in {0, 1} /\ phase \in Nat /\ FinePerCoarse \in Nat
        BY <1>1, Lengths DEF Is, Clocks
      <4>3. CASE Is("coarse")' = 0
        BY <4>1, <4>2, <4>3
      <4>4. CASE Is("coarse")' = 1
        BY <4>1, <4>2, <4>4
      <4> QED
        BY <4>2, <4>3, <4>4
    <3>6. l >= 2 * g.lease - MaxDelay - 2 - n
      BY <2>7, <2>11
    <3>7. LeaseInv'
      BY <2>11, <2>13, <3>2, <3>4, <3>5, <3>6 DEF LeaseInv
    <3> QED
      BY <2>13, <3>3, <3>4, <3>7 DEF IInv
  <2> QED
    BY <2>15, <2>16
<1>5. CASE RecvNak
  <2>1. Sound(dhcp)' /\ ~ dhcp'.address /\ dhcp'.state = "SELECTING"
    BY <1>1, <1>5, NakSound DEF RecvNak, Become
  <2>2. lease' \in Int /\ phase' = phase /\ due' = due /\ faults' = faults + 1 /\ faults < MaxFaults
    BY <1>1, <1>5 DEF RecvNak, Become, Clocks
  <2>3. Clocks' /\ faults' \in 0 .. MaxFaults /\ ("coarse" \in due => phase = 0)'
    BY <1>1, <2>2 DEF Clocks, LeaseInv
  <2> QED
    BY <2>1, <2>3, NoLease
<1>6. CASE dhcp_arp_reply
  <2>1. ~ dhcp.address
    BY <1>1, <1>6 DEF dhcp_arp_reply, Sound, Running, dhcp_supplied_address
  <2>2. Sound(dhcp)' /\ ~ dhcp'.address /\ dhcp'.state = "BACKING_OFF"
    BY <1>1, <1>6, <2>1, DeclineSound DEF dhcp_arp_reply, Become
  <2>3. lease' \in Int /\ phase' = phase /\ due' = due /\ faults' = faults + 1 /\ faults < MaxFaults
    BY <1>1, <1>6 DEF dhcp_arp_reply, Become, Clocks
  <2>4. Clocks' /\ faults' \in 0 .. MaxFaults /\ ("coarse" \in due => phase = 0)'
    BY <1>1, <2>3 DEF Clocks, LeaseInv
  <2> QED
    BY <2>2, <2>4, NoLease
<1> QED
  BY <1>3, <1>4, <1>5, <1>6

\* Every step keeps the invariant.
LEMMA Invariance == IInv /\ [Next]_vars => IInv'
<1> SUFFICES ASSUME IInv, [Next]_vars PROVE IInv'
  OBVIOUS
<1>1. CASE UNCHANGED vars
  BY <1>1 DEF vars, IInv, Clocks, LeaseInv, Elapsed, Is
<1>2. CASE Next
  <2>1. CASE Timers
    BY <2>1, TickKept, FineKept, CoarseKept DEF Timers
  <2>2. CASE RecvOffer \/ AnyAck \/ RecvNak \/ dhcp_arp_reply
    BY <2>2, AnswersKept
  <2> QED
    BY <1>2, <2>1, <2>2 DEF Next
<1> QED
  BY <1>1, <1>2

\* The invariant holds throughout.
LEMMA Always == Spec => []IInv
<1>1. Init => IInv
  BY InitInv
<1>2. IInv /\ [Next]_vars => IInv'
  BY Invariance
<1> QED
  BY <1>1, <1>2, PTL DEF Spec

-----------------------------------------------------------------------------
(* Results                                                                  *)

\* All variables keep their ranges: no timer of the client runs below zero or beyond
\* the lease it was set for, and no wait is longer than the longest of the code.
THEOREM TypeCorrect == Spec => []TypeOK
<1>1. IInv => TypeOK
  BY DEF IInv, Clocks, Sound, Client, Query, TypeOK
<1> QED
  BY <1>1, Always, PTL

\* dhcp_coarse_tmr, dhcp_bind, dhcp_handle_nak: an address stays with a state that
\* knows of it, and such a state is on the way to the end of its lease.
THEOREM LeaseEnds == Spec => []LeaseRunsOut
<1>1. IInv => LeaseRunsOut
  BY DEF IInv, Sound, Running, LeaseRunsOut
<1> QED
  BY <1>1, Always, PTL

\* However grants, delays, losses, refusals and conflicts follow each other, and
\* wherever in a minute the lease begins: the client's count in minutes lets no
\* address outlive its lease, rounded, by more than an answer and two checks.
THEOREM LeaseIsRespected == Spec => []LeaseRespected
<1>1. IInv => LeaseRespected
  <2> SUFFICES ASSUME IInv, dhcp.address
               PROVE  lease >= 2 * dhcp.offered.lease - FinePerCoarse * Minutes(dhcp.offered.lease)
                               - MaxDelay - 2
    BY DEF LeaseRespected
  <2>1. PICK d \in Client : d = dhcp
    BY DEF IInv, Sound
  <2>2. PICK k \in Nat \ {0} : k = FinePerCoarse
    BY Lengths
  <2>3. PICK t0 \in Nat : t0 = Minutes(d.offered.lease)
    BY <2>1, MinutesBounded, Quantities DEF Client
  <2>4. d.lease_used \in Nat /\ d.lease_used < t0
    BY <2>1, <2>3, Lengths DEF IInv, Sound, Running, Holding, dhcp_supplied_address
  <2>5. Is("coarse") \in {0, 1} /\ phase \in 0 .. k - 1 /\ (Is("coarse") = 1 => phase = 0)
    BY <2>2 DEF IInv, Clocks, LeaseInv, Is
  <2>6. PICK n \in Int : n = k * d.lease_used /\ n + k = k * (d.lease_used + 1)
    BY <2>4
  <2>7. PICK m \in Int : m = k * t0 /\ n + k <= m
    <3>1. d.lease_used + 1 <= t0
      BY <2>4
    <3>2. k * (d.lease_used + 1) <= k * t0
      BY <2>4, <3>1, ProductGrows
    <3> QED
      BY <2>6, <3>2
  <2>8. Elapsed <= m
    <3>1. Elapsed = k * (d.lease_used + Is("coarse")) + phase
      BY <2>1, <2>2 DEF Elapsed
    <3>2. CASE Is("coarse") = 0
      <4>1. k * (d.lease_used + Is("coarse")) = n
        BY <2>4, <2>6, <3>2
      <4> QED
        BY <2>2, <2>5, <2>6, <2>7, <3>1, <4>1
    <3>3. CASE Is("coarse") = 1
      <4>1. k * (d.lease_used + Is("coarse")) = n + k
        BY <2>4, <2>6, <3>3
      <4> QED
        BY <2>2, <2>5, <2>6, <2>7, <3>1, <3>3, <4>1
    <3> QED
      BY <2>5, <3>2, <3>3
  <2>9. PICK q \in Int : q = Elapsed
    <3>1. k * (d.lease_used + Is("coarse")) \in Int
      BY <2>4, <2>5
    <3> QED
      BY <2>1, <2>2, <2>5, <3>1 DEF Elapsed
  <2>10. lease >= 2 * d.offered.lease - MaxDelay - 2 - q
    BY <2>1, <2>9 DEF IInv, LeaseInv
  <2>11. d.offered.lease \in Nat /\ MaxDelay \in Nat /\ lease \in Int
    BY Lengths DEF IInv, Clocks
  <2>12. lease >= 2 * d.offered.lease - m - MaxDelay - 2
    BY <2>7, <2>8, <2>9, <2>10, <2>11
  <2> QED
    BY <2>1, <2>2, <2>3, <2>7, <2>12
<1> QED
  BY <1>1, Always, PTL

\* In whole minutes t1 or t2 of every grant comes before its end.
Renewable ==
  \A g \in Grants : \/ Minutes(g.lease) = 1
                    \/ Minutes(g.renew) < Minutes(g.lease)
                    \/ Minutes(g.rebind) < Minutes(g.lease)

\* So they do with the time dhcp_handle_ack takes when the server names none, half
\* of the lease: the assumption is about servers that name their own.
LEMMA HalfIsBefore ==
  \A secs \in Nat : Minutes(secs) = 1 \/ Minutes(secs \div 2) < Minutes(secs)
<1> SUFFICES ASSUME NEW secs \in Nat, Minutes(secs) # 1
             PROVE  Minutes(secs \div 2) < Minutes(secs)
  OBVIOUS
<1>1. PICK k \in Nat \ {0} : k = DHCP_COARSE_TIMER_SECS
  BY DhcpAssumption
<1>2. PICK h \in Nat : h = k \div 2 /\ 2 * h <= k
  BY <1>1
<1>3. PICK half \in Nat : half = secs \div 2 /\ 2 * half <= secs
  OBVIOUS
<1>4. PICK a \in Nat : a = (secs + h) \div k
  OBVIOUS
<1>5. PICK b \in Nat : b = (half + h) \div k
  OBVIOUS
<1>6. Minutes(secs) = (IF 1 >= a THEN 1 ELSE a) /\ Minutes(half) = (IF 1 >= b THEN 1 ELSE b)
  BY <1>1, <1>2, <1>4, <1>5, MaxOfTwo DEF Minutes
<1>7. k * b <= half + h
  BY <1>5
<1>8. secs + h < k * (a + 1)
  BY <1>4
<1>9. ASSUME a <= b PROVE FALSE
  <2>1. PICK m \in Int : m = k * b
    OBVIOUS
  <2>2. k * (a + 1) <= m + k
    <3>1. k * (a + 1) <= k * (b + 1)
      BY <1>9, ProductGrows
    <3>2. k * (b + 1) = m + k
      BY <2>1
    <3> QED
      BY <3>1, <3>2
  <2>3. k + k <= m
    <3>1. 2 <= b
      BY <1>6, <1>9
    <3>2. k * 2 <= k * b
      BY <3>1, ProductGrows
    <3> QED
      BY <2>1, <3>2
  <2> QED
    BY <1>2, <1>3, <1>7, <1>8, <2>1, <2>2, <2>3
<1> QED
  BY <1>3, <1>6, <1>9

\* The client never loses an address it has not tried to renew: the two counters of
\* the grant run with the lease's, and the first to end changes the state BOUND.
THEOREM RenewsBeforeExpiry ==
  ASSUME Renewable
  PROVE  Spec => AsksBeforeExpiry
<1>1. IInv /\ [Next]_vars =>
        [dhcp.address /\ ~dhcp'.address /\ dhcp.state = "BOUND" => dhcp.t0_timeout = 1]_vars
  <2> SUFFICES ASSUME IInv, Next, dhcp.address, ~dhcp'.address, dhcp.state = "BOUND"
               PROVE  dhcp.t0_timeout = 1
    OBVIOUS
  <2>1. PICK d \in Client : d = dhcp /\ Sound(d)
    BY DEF IInv, Sound
  <2>2. CASE Tick
    <3>1. dhcp'.address = d.address
      BY <2>1, <2>2 DEF Tick, Client
    <3> QED
      BY <2>1, <3>1
  <2>3. CASE FineTimer
    <3>1. dhcp' = dhcp_fine_tmr(d)
      BY <2>1, <2>3 DEF FineTimer, Become
    <3> QED
      BY <2>1, <3>1, FineKeeps DEF FineEffect
  <2>4. CASE CoarseTimer
    <3>1. dhcp' = dhcp_coarse_tmr(d)
      BY <2>1, <2>4 DEF CoarseTimer, Become
    <3>2. d.lease_used + 1 = d.t0_timeout
      BY <2>1, <3>1, CoarseKeeps DEF CoarseEffect
    <3>3. PICK g \in Grants : g = d.offered
      BY <2>1 DEF Sound, Holding
    <3>4. /\ d.t0_timeout = Minutes(g.lease)
          /\ d.t1_renew_time # 0 /\ d.lease_used + d.t1_renew_time = Minutes(g.renew)
          /\ d.t2_rebind_time # 0 /\ d.lease_used + d.t2_rebind_time = Minutes(g.rebind)
      BY <2>1, <3>3 DEF Sound, Holding
    <3>5. d.lease_used \in Nat /\ d.t1_renew_time \in Nat /\ d.t2_rebind_time \in Nat
      BY Quantities DEF Client
    <3>6. ~ (Minutes(g.renew) < Minutes(g.lease)) /\ ~ (Minutes(g.rebind) < Minutes(g.lease))
      BY <3>2, <3>4, <3>5
    <3> QED
      BY <2>1, <3>4, <3>6 DEF Renewable
  <2>5. CASE RecvOffer \/ RecvNak \/ dhcp_arp_reply
    BY <2>5 DEF RecvOffer, RecvNak, dhcp_arp_reply
  <2>6. CASE AnyAck
    BY <2>6 DEF AnyAck, RecvAck
  <2> QED
    BY <2>2, <2>3, <2>4, <2>5, <2>6 DEF Next, Timers
<1> QED
  BY <1>1, Always, PTL DEF Spec, AsksBeforeExpiry
=============================================================================

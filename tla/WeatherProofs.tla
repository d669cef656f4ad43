---------------------------- MODULE WeatherProofs ----------------------------
(***************************************************************************)
(* Proofs about Weather, for every pool of control blocks, every lifetime  *)
(* of connections and every text of the responses.                         *)
(***************************************************************************)
EXTENDS Weather, FiniteSetTheorems, SequenceTheorems, TLAPS

-----------------------------------------------------------------------------
(* The control blocks in use                                                *)

Block == [state : States, asked : BOOLEAN, got : BOOLEAN, age : 0 .. Lifetime]

\* Control blocks that tcp_alloc cannot take: of connections no older than a
\* minutes, and those failed calls of tcp_connect have lost.
Young(b, a) ==
  {p \in Pcbs : b[p].state \in {"SYN_SENT", "ESTABLISHED", "CLOSE_PENDING"} /\ b[p].age <= a}

Lost(b) == {p \in Pcbs : b[p].state = "CLOSED"}

\* The connections of a + 1 minutes are at most a + 2: one for each minute and one
\* more for the boot.  Requests of this minute that are still to be made, or wait for
\* DNS, count as connections.  A CLOSE_WAIT never lasts, because tcpRecvCallback
\* closes at once.
Blocks ==
  /\ \A p \in Pcbs : pcb[p].state # "CLOSE_WAIT"
  /\ \A a \in 0 .. Lifetime : Cardinality(Young(pcb, a)) + due + dns <= a + 2
  /\ Cardinality(Lost(pcb)) <= failures

BlocksInv == TypeOK /\ Blocks

\* Sets of control blocks are finite.
LEMMA SetsOfPcbs ==
  ASSUME NEW S \in SUBSET Pcbs
  PROVE  IsFiniteSet(S) /\ Cardinality(S) \in Nat
BY PoolAssumption, FS_Subset, FS_CardinalityType

\* Fewer blocks, or one more, and their number.
LEMMA Fewer ==
  ASSUME NEW S \in SUBSET Pcbs, NEW T \in SUBSET S
  PROVE  Cardinality(T) <= Cardinality(S) /\ Cardinality(T) \in Nat /\ Cardinality(S) \in Nat
BY SetsOfPcbs, FS_Subset

\* A set that gains at most one member grows by at most one.
LEMMA OneMore ==
  ASSUME NEW S \in SUBSET Pcbs, NEW q \in Pcbs, NEW T \in SUBSET (S \union {q})
  PROVE  Cardinality(T) <= Cardinality(S) + 1 /\ Cardinality(T) \in Nat /\ Cardinality(S) \in Nat
<1>1. IsFiniteSet(S) /\ Cardinality(S) \in Nat
  BY SetsOfPcbs
<1>2. IsFiniteSet(S \union {q})
      /\ Cardinality(S \union {q}) = IF q \in S THEN Cardinality(S) ELSE Cardinality(S) + 1
  BY <1>1, FS_AddElement
<1>3. Cardinality(T) <= Cardinality(S \union {q})
  BY <1>2, FS_Subset
<1>4. Cardinality(T) \in Nat
  BY SetsOfPcbs
<1> QED
  BY <1>1, <1>2, <1>3, <1>4

\* Young and lost control blocks are control blocks.
LEMMA YoungAndLost ==
  ASSUME NEW b
  PROVE  Lost(b) \in SUBSET Pcbs /\ \A a : Young(b, a) \in SUBSET Pcbs
BY DEF Young, Lost

\* What a step does to the blocks: m more connections and n more lost blocks.
Grows(m, n) ==
  /\ \A p \in Pcbs : pcb'[p].state # "CLOSE_WAIT"
  /\ \A a \in 0 .. Lifetime : Cardinality(Young(pcb', a)) <= Cardinality(Young(pcb, a)) + m
  /\ Cardinality(Lost(pcb')) <= Cardinality(Lost(pcb)) + n

\* A connection that changes its state but not its age, or ends.
LEMMA BecomesGrows ==
  ASSUME BlocksInv, NEW p \in Pcbs, NEW block, Becomes(p, block),
         block.state \notin {"CLOSED", "CLOSE_WAIT"},
         block.state \in {"SYN_SENT", "ESTABLISHED", "CLOSE_PENDING"} =>
           pcb[p].state \in {"SYN_SENT", "ESTABLISHED", "CLOSE_PENDING"} /\ block.age = pcb[p].age
  PROVE  Grows(0, 0)
<1>1. pcb' = [pcb EXCEPT ![p] = block] /\ DOMAIN pcb = Pcbs
  BY DEF Becomes, BlocksInv, TypeOK
<1>2. \A q \in Pcbs : pcb'[q] = IF q = p THEN block ELSE pcb[q]
  BY <1>1
<1>3. \A q \in Pcbs : pcb'[q].state # "CLOSE_WAIT"
  BY <1>2 DEF BlocksInv, Blocks
<1>4. \A a : Young(pcb', a) \in SUBSET Young(pcb, a)
  BY <1>2 DEF Young
<1>5. Lost(pcb') \in SUBSET Lost(pcb)
  BY <1>2 DEF Lost
<1>6. \A a : Cardinality(Young(pcb', a)) <= Cardinality(Young(pcb, a)) + 0
  <2> TAKE a
  <2>1. Young(pcb, a) \in SUBSET Pcbs /\ Young(pcb', a) \in SUBSET Young(pcb, a)
    BY <1>4, YoungAndLost
  <2> QED
    BY <2>1, Fewer
<1>7. Cardinality(Lost(pcb')) <= Cardinality(Lost(pcb)) + 0
  <2>1. Lost(pcb) \in SUBSET Pcbs
    BY YoungAndLost
  <2> QED
    BY <1>5, <2>1, Fewer
<1> QED
  BY <1>3, <1>6, <1>7 DEF Grows

\* A request takes one block at most, for a connection or for nothing.
LEMMA RequestGrows ==
  ASSUME BlocksInv, NEW ip \in {"resolved", "garbage"}, tcp_get_weather_update(ip)
  PROVE  /\ Grows(1, failures' - failures)
         /\ pcb' \in [Pcbs -> Block]
         /\ peer' \in {"none", "resolved", "garbage"}
         /\ failures' \in failures .. MaxFailures
<1>1. pcb \in [Pcbs -> Block] /\ peer \in {"none", "resolved", "garbage"}
      /\ failures \in 0 .. MaxFailures /\ MaxFailures \in Nat /\ Lifetime \in Nat
  BY PoolAssumption DEF BlocksInv, TypeOK, Block
<1>2. PICK sent \in SUBSET AllocPending :
        LET pool == [p \in Pcbs |-> IF p \in sent THEN [pcb[p] EXCEPT !.state = "LAST_ACK"]
                                                  ELSE pcb[p]]
            candidates == IF Available # {} THEN Available ELSE sent
        IN \/ /\ candidates = {}
              /\ pcb' = pool
              /\ UNCHANGED <<peer, failures>>
           \/ \E p \in candidates, written \in BOOLEAN :
                /\ route
                /\ pcb' = [pool EXCEPT ![p] = [Free EXCEPT !.state = "SYN_SENT",
                                                           !.asked = written]]
                /\ peer' = ip
                /\ UNCHANGED failures
           \/ \E p \in candidates :
                /\ failures < MaxFailures
                /\ pcb' = [pool EXCEPT ![p] = [Free EXCEPT !.state = "CLOSED"]]
                /\ failures' = failures + 1
                /\ UNCHANGED peer
  BY DEF tcp_get_weather_update
<1> DEFINE pool == [p \in Pcbs |-> IF p \in sent THEN [pcb[p] EXCEPT !.state = "LAST_ACK"]
                                                 ELSE pcb[p]]
           candidates == IF Available # {} THEN Available ELSE sent
<1>3. sent \subseteq In({"CLOSE_PENDING"}) /\ candidates \subseteq Pcbs
  BY DEF AllocPending, Available, In
<1>4. pool \in [Pcbs -> Block]
      /\ \A p \in Pcbs : /\ pool[p].state \in {pcb[p].state, "LAST_ACK"}
                         /\ pool[p].age = pcb[p].age
  BY <1>1 DEF Block, States, Connected
<1>5. /\ [Free EXCEPT !.state = "CLOSED"] \in Block
      /\ [Free EXCEPT !.state = "CLOSED"].state = "CLOSED"
      /\ \A written \in BOOLEAN :
           /\ [Free EXCEPT !.state = "SYN_SENT", !.asked = written] \in Block
           /\ [Free EXCEPT !.state = "SYN_SENT", !.asked = written].state = "SYN_SENT"
  <2>1. Free \in Block /\ "CLOSED" \in States /\ "SYN_SENT" \in States
    BY <1>1 DEF Free, Block, States, Connected
  <2>2. [Free EXCEPT !.state = "CLOSED"] \in Block /\ [Free EXCEPT !.state = "CLOSED"].state = "CLOSED"
    BY <2>1 DEF Block
  <2>3. ASSUME NEW written \in BOOLEAN
        PROVE  /\ [Free EXCEPT !.state = "SYN_SENT", !.asked = written] \in Block
               /\ [Free EXCEPT !.state = "SYN_SENT", !.asked = written].state = "SYN_SENT"
    BY <2>1 DEF Block
  <2> QED
    BY <2>2, <2>3
<1> HIDE DEF pool
<1>6. \A p \in Pcbs : pool[p].state # "CLOSE_WAIT"
  BY <1>4 DEF BlocksInv, Blocks
<1>7. \A a : Young(pool, a) \subseteq Young(pcb, a)
  BY <1>4 DEF Young
<1>8. Lost(pool) \subseteq Lost(pcb)
  BY <1>4 DEF Lost
<1>9. /\ \A a : Young(pcb, a) \in SUBSET Pcbs
      /\ Lost(pcb) \in SUBSET Pcbs
  BY YoungAndLost
<1>10. CASE pcb' = pool /\ UNCHANGED <<peer, failures>>
  <2>1. \A a : Cardinality(Young(pcb', a)) <= Cardinality(Young(pcb, a)) + 1
    <3> TAKE a
    <3>1. Young(pcb', a) \in SUBSET Young(pcb, a)
      BY <1>7, <1>10
    <3>2. /\ Cardinality(Young(pcb', a)) <= Cardinality(Young(pcb, a))
          /\ Cardinality(Young(pcb', a)) \in Nat /\ Cardinality(Young(pcb, a)) \in Nat
      BY <1>9, <3>1, Fewer
    <3> QED
      BY <3>2
  <2>2. Cardinality(Lost(pcb')) <= Cardinality(Lost(pcb)) + (failures' - failures)
    <3>1. /\ Cardinality(Lost(pcb')) <= Cardinality(Lost(pcb))
          /\ Cardinality(Lost(pcb')) \in Nat /\ Cardinality(Lost(pcb)) \in Nat
      BY <1>8, <1>9, <1>10, Fewer
    <3> QED
      BY <1>1, <1>10, <3>1
  <2>3. Grows(1, failures' - failures)
    BY <1>6, <1>10, <2>1, <2>2 DEF Grows
  <2> QED
    BY <1>1, <1>4, <1>10, <2>3
<1>11. ASSUME NEW q \in candidates, NEW written \in BOOLEAN,
              pcb' = [pool EXCEPT ![q] = [Free EXCEPT !.state = "SYN_SENT", !.asked = written]],
              peer' = ip, UNCHANGED failures
       PROVE  /\ Grows(1, failures' - failures)
              /\ pcb' \in [Pcbs -> Block]
              /\ peer' \in {"none", "resolved", "garbage"}
              /\ failures' \in failures .. MaxFailures
  <2>0. q \in Pcbs
    BY <1>3
  <2>1. PICK block \in Block : block = [Free EXCEPT !.state = "SYN_SENT", !.asked = written]
                               /\ block.state = "SYN_SENT"
    BY <1>5
  <2>2. \A p \in Pcbs : pcb'[p] = IF p = q THEN block ELSE pool[p]
    BY <1>4, <1>11, <2>0, <2>1
  <2>3. pcb' \in [Pcbs -> Block]
    BY <1>4, <1>11, <2>0, <2>1
  <2>4. \A p \in Pcbs : pcb'[p].state # "CLOSE_WAIT"
    BY <1>6, <2>1, <2>2
  <2>5. \A a : Cardinality(Young(pcb', a)) <= Cardinality(Young(pcb, a)) + 1
    <3> TAKE a
    <3>1. Young(pcb', a) \subseteq Young(pcb, a) \union {q}
      BY <1>7, <2>2 DEF Young
    <3> QED
      BY <1>9, <2>0, <3>1, OneMore
  <2>6. Cardinality(Lost(pcb')) <= Cardinality(Lost(pcb)) + (failures' - failures)
    <3>1. Lost(pcb') \subseteq Lost(pcb)
      BY <1>8, <2>1, <2>2 DEF Lost
    <3>2. /\ Cardinality(Lost(pcb')) <= Cardinality(Lost(pcb))
          /\ Cardinality(Lost(pcb')) \in Nat /\ Cardinality(Lost(pcb)) \in Nat
      BY <1>9, <3>1, Fewer
    <3> QED
      BY <1>1, <1>11, <3>2
  <2>7. Grows(1, failures' - failures)
    BY <2>4, <2>5, <2>6 DEF Grows
  <2> QED
    BY <1>1, <1>11, <2>3, <2>7
<1>12. ASSUME NEW q \in candidates, failures < MaxFailures,
              pcb' = [pool EXCEPT ![q] = [Free EXCEPT !.state = "CLOSED"]],
              failures' = failures + 1, UNCHANGED peer
       PROVE  /\ Grows(1, failures' - failures)
              /\ pcb' \in [Pcbs -> Block]
              /\ peer' \in {"none", "resolved", "garbage"}
              /\ failures' \in failures .. MaxFailures
  <2>0. q \in Pcbs
    BY <1>3
  <2>1. PICK block \in Block : block = [Free EXCEPT !.state = "CLOSED"] /\ block.state = "CLOSED"
    BY <1>5
  <2>2. \A p \in Pcbs : pcb'[p] = IF p = q THEN block ELSE pool[p]
    BY <1>4, <1>12, <2>0, <2>1
  <2>3. pcb' \in [Pcbs -> Block]
    BY <1>4, <1>12, <2>0, <2>1
  <2>4. \A p \in Pcbs : pcb'[p].state # "CLOSE_WAIT"
    BY <1>6, <2>1, <2>2
  <2>5. \A a : Cardinality(Young(pcb', a)) <= Cardinality(Young(pcb, a)) + 1
    <3> TAKE a
    <3>1. Young(pcb', a) \subseteq Young(pcb, a)
      BY <1>7, <2>1, <2>2 DEF Young
    <3>2. /\ Cardinality(Young(pcb', a)) <= Cardinality(Young(pcb, a))
          /\ Cardinality(Young(pcb', a)) \in Nat /\ Cardinality(Young(pcb, a)) \in Nat
      BY <1>9, <3>1, Fewer
    <3> QED
      BY <3>2
  <2>6. Cardinality(Lost(pcb')) <= Cardinality(Lost(pcb)) + (failures' - failures)
    <3>1. Lost(pcb') \subseteq Lost(pcb) \union {q}
      BY <1>8, <2>2 DEF Lost
    <3>2. failures' - failures = 1
      BY <1>1, <1>12
    <3> QED
      BY <1>9, <2>0, <3>1, <3>2, OneMore
  <2>7. Grows(1, failures' - failures)
    BY <2>4, <2>5, <2>6 DEF Grows
  <2>8. failures' \in failures .. MaxFailures
    BY <1>1, <1>12
  <2> QED
    BY <1>1, <1>12, <2>3, <2>7, <2>8
<1> QED
  BY <1>2, <1>10, <1>11, <1>12 DEF pool

-----------------------------------------------------------------------------
(* The types                                                                *)

\* What tcpRecvCallback reads from a response are strings of that response.
LEMMA ReceiveTypes ==
  ASSUME TypeOK, NEW p \in Pcbs, NEW seg \in Segments, Receive(p, seg)
  PROVE  weather' \in [ToSet(Keys) -> Contents \union {NoWeather}] /\ whole' \in BOOLEAN
<1>1. seg.content \in Contents
  BY SegmentsAssumption
<1>2. CASE seg.ok
  <2>1. weather' = [k \in ToSet(Keys) |-> IF k \in Parsed(seg.keys) THEN seg.content ELSE weather[k]]
        /\ whole' = (whole /\ seg.keys = Keys)
    BY <1>2 DEF Receive
  <2>2. \A k \in ToSet(Keys) : weather[k] \in Contents \union {NoWeather}
    BY DEF TypeOK
  <2>3. whole' \in BOOLEAN
    BY <2>1
  <2> QED
    BY <1>1, <2>1, <2>2, <2>3
<1>3. CASE ~ seg.ok
  BY <1>3 DEF Receive, weatherVars, TypeOK
<1> QED
  BY <1>2, <1>3

\* At first no control block is taken.
LEMMA BlocksInit == Init => BlocksInv
<1> SUFFICES ASSUME Init PROVE BlocksInv
  OBVIOUS
<1>1. Lifetime \in Nat /\ MaxFailures \in Nat
  BY PoolAssumption
<1>2. TypeOK
  BY <1>1 DEF Init, TypeOK, Free, States, Connected
<1>3. \A a : Young(pcb, a) = {}
  BY DEF Init, Young, Free
<1>4. Lost(pcb) = {}
  BY DEF Init, Lost, Free
<1>5. \A a \in 0 .. Lifetime : Cardinality(Young(pcb, a)) + due + dns <= a + 2
  BY <1>1, <1>3, FS_EmptySet DEF Init
<1>6. Cardinality(Lost(pcb)) <= failures
  BY <1>4, FS_EmptySet DEF Init
<1>7. \A p \in Pcbs : pcb[p].state # "CLOSE_WAIT"
  BY DEF Init, Free
<1> QED
  BY <1>2, <1>5, <1>6, <1>7 DEF BlocksInv, Blocks

\* The accounts balance after a step that makes m of the waiting requests into m
\* connections, or into lost blocks.
LEMMA BlocksBalance ==
  ASSUME BlocksInv, NEW m \in Nat, NEW n \in Int, Grows(m, n),
         due' \in Nat, dns' \in Nat, failures' \in Int,
         due' + dns' + m <= due + dns, failures' = failures + n
  PROVE  Blocks'
<1>1. due \in Nat /\ dns \in Nat /\ failures \in Int
  BY PoolAssumption DEF BlocksInv, TypeOK
<1>2. \A a \in 0 .. Lifetime : Cardinality(Young(pcb', a)) + due' + dns' <= a + 2
  <2> TAKE a \in 0 .. Lifetime
  <2>1. Cardinality(Young(pcb, a)) \in Nat /\ Cardinality(Young(pcb', a)) \in Nat
    BY YoungAndLost, SetsOfPcbs
  <2>2. Cardinality(Young(pcb', a)) <= Cardinality(Young(pcb, a)) + m
    BY DEF Grows
  <2>3. Cardinality(Young(pcb, a)) + due + dns <= a + 2
    BY DEF BlocksInv, Blocks
  <2>4. PICK c \in Nat, d \in Nat : c = Cardinality(Young(pcb, a)) /\ d = Cardinality(Young(pcb', a))
    BY <2>1
  <2>5. d <= c + m /\ c + due + dns <= a + 2
    BY <2>2, <2>3, <2>4
  <2>6. PICK x \in Nat, y \in Nat, u \in Nat, v \in Nat : due = x /\ dns = y /\ due' = u /\ dns' = v
    BY <1>1
  <2>7. u + v + m <= x + y /\ c + x + y <= a + 2 /\ a \in Int
    BY <2>5, <2>6
  <2>8. d + u + v <= a + 2
    BY <2>5, <2>7
  <2> QED
    BY <2>4, <2>6, <2>8
<1>3. Cardinality(Lost(pcb')) <= failures'
  <2>1. Cardinality(Lost(pcb)) \in Nat /\ Cardinality(Lost(pcb')) \in Nat
    BY YoungAndLost, SetsOfPcbs
  <2>2. Cardinality(Lost(pcb')) <= Cardinality(Lost(pcb)) + n /\ Cardinality(Lost(pcb)) <= failures
    BY DEF Grows, BlocksInv, Blocks
  <2> QED
    BY <1>1, <2>1, <2>2
<1>4. \A p \in Pcbs : pcb'[p].state # "CLOSE_WAIT"
  BY DEF Grows
<1> QED
  BY <1>2, <1>3, <1>4 DEF Blocks, Young, Lost

\* A block of a connection stays one.
LEMMA BecomesKeeps ==
  ASSUME BlocksInv, NEW p \in Pcbs, NEW block \in Block, Becomes(p, block),
         weather' \in [ToSet(Keys) -> Contents \union {NoWeather}], whole' \in BOOLEAN,
         block.state \notin {"CLOSED", "CLOSE_WAIT"},
         block.state \in {"SYN_SENT", "ESTABLISHED", "CLOSE_PENDING"} =>
           pcb[p].state \in {"SYN_SENT", "ESTABLISHED", "CLOSE_PENDING"} /\ block.age = pcb[p].age
  PROVE  BlocksInv'
<1>1. due' = due /\ dns' = dns /\ failures' = failures /\ route' = route /\ peer' = peer
      /\ pcb' = [pcb EXCEPT ![p] = block]
  BY DEF Becomes, netVars
<1>2. TypeOK'
  BY <1>1 DEF BlocksInv, TypeOK, Block
<1>3. Grows(0, 0)
  BY BecomesGrows
<1>4. due' \in Nat /\ dns' \in Nat /\ failures' \in Int /\ due' + dns' + 0 <= due + dns
      /\ failures' = failures + 0
  BY <1>1, PoolAssumption DEF BlocksInv, TypeOK
<1>5. Blocks'
  BY <1>3, <1>4, BlocksBalance
<1> QED
  BY <1>2, <1>5 DEF BlocksInv

\* No step of the requests and connections upsets the accounts.
LEMMA BlocksKept == BlocksInv /\ [Next]_vars => BlocksInv'
<1> SUFFICES ASSUME BlocksInv, [Next]_vars PROVE BlocksInv'
  OBVIOUS
<1>0. /\ Lifetime \in Nat /\ MaxFailures \in Nat /\ pcb \in [Pcbs -> Block]
      /\ weather \in [ToSet(Keys) -> Contents \union {NoWeather}] /\ whole \in BOOLEAN
      /\ due \in 0 .. 2 /\ dns \in 0 .. 2 /\ failures \in 0 .. MaxFailures
  BY PoolAssumption DEF BlocksInv, TypeOK, Block
<1>1. CASE dns_send_http_request
  <2>1. due > 0 /\ due' = due - 1 /\ UNCHANGED <<route, weather, whole>>
    BY <1>1 DEF dns_send_http_request, weatherVars
  <2>2. CASE tcp_get_weather_update("resolved") /\ UNCHANGED dns
    <3>1. /\ Grows(1, failures' - failures) /\ pcb' \in [Pcbs -> Block]
          /\ peer' \in {"none", "resolved", "garbage"} /\ failures' \in failures .. MaxFailures
      BY <2>2, RequestGrows
    <3>2. TypeOK'
      BY <1>0, <2>1, <2>2, <3>1 DEF BlocksInv, TypeOK, Block
    <3>3. due' \in Nat /\ dns' \in Nat /\ due' + dns' + 1 <= due + dns
      BY <1>0, <2>1, <2>2
    <3>4. failures \in Int /\ failures' \in Int
      BY <1>0, <3>1
    <3>5. PICK f \in Int, g \in Int : f = failures /\ g = failures'
      BY <3>4
    <3>6. PICK n \in Int : n = g - f /\ g = f + n
      OBVIOUS
    <3>7. Blocks'
      BY <3>1, <3>3, <3>5, <3>6, BlocksBalance
    <3> QED
      BY <3>2, <3>7 DEF BlocksInv
  <2>3. CASE dns' = dns + 1 /\ UNCHANGED <<pcb, peer, failures>>
    <3>1. dns' \in 0 .. 2
      <4>1. Cardinality(Young(pcb, 0)) + due + dns <= 0 + 2
        BY <1>0 DEF BlocksInv, Blocks
      <4>2. Cardinality(Young(pcb, 0)) \in Nat
        BY YoungAndLost, SetsOfPcbs
      <4> QED
        BY <1>0, <2>1, <2>3, <4>1, <4>2
    <3>2. TypeOK'
      BY <1>0, <2>1, <2>3, <3>1 DEF BlocksInv, TypeOK
    <3>3. Blocks'
      <4>1. \A a \in 0 .. Lifetime : Cardinality(Young(pcb, a)) + due' + dns' <= a + 2
        <5> TAKE a \in 0 .. Lifetime
        <5>1. Cardinality(Young(pcb, a)) + due + dns <= a + 2
          BY DEF BlocksInv, Blocks
        <5>2. Cardinality(Young(pcb, a)) \in Nat
          BY YoungAndLost, SetsOfPcbs
        <5> QED
          BY <1>0, <2>1, <2>3, <5>1, <5>2
      <4> QED
        BY <2>3, <4>1 DEF BlocksInv, Blocks
    <3> QED
      BY <3>2, <3>3 DEF BlocksInv
  <2>4. CASE UNCHANGED <<pcb, dns, peer, failures>>
    <3>2. TypeOK'
      BY <1>0, <2>1, <2>4 DEF BlocksInv, TypeOK
    <3>3. Blocks'
      <4>1. \A a \in 0 .. Lifetime : Cardinality(Young(pcb, a)) + due' + dns' <= a + 2
        <5> TAKE a \in 0 .. Lifetime
        <5>1. Cardinality(Young(pcb, a)) + due + dns <= a + 2
          BY DEF BlocksInv, Blocks
        <5>2. Cardinality(Young(pcb, a)) \in Nat
          BY YoungAndLost, SetsOfPcbs
        <5> QED
          BY <1>0, <2>1, <2>4, <5>1, <5>2
      <4> QED
        BY <2>4, <4>1 DEF BlocksInv, Blocks
    <3> QED
      BY <3>2, <3>3 DEF BlocksInv
  <2> QED
    BY <1>1, <2>2, <2>3, <2>4 DEF dns_send_http_request
<1>2. CASE dns_callback
  <2>1. dns > 0 /\ dns' = dns - 1 /\ UNCHANGED <<due, route, weather, whole>>
    BY <1>2 DEF dns_callback, weatherVars
  <2>2. PICK ip \in {"resolved", "garbage"} : tcp_get_weather_update(ip)
    BY <1>2 DEF dns_callback
  <2>3. /\ Grows(1, failures' - failures) /\ pcb' \in [Pcbs -> Block]
        /\ peer' \in {"none", "resolved", "garbage"} /\ failures' \in failures .. MaxFailures
    BY <2>2, RequestGrows
  <2>4. TypeOK'
    BY <1>0, <2>1, <2>3 DEF BlocksInv, TypeOK, Block
  <2>5. due' \in Nat /\ dns' \in Nat /\ due' + dns' + 1 <= due + dns
    BY <1>0, <2>1
  <2>6. failures \in Int /\ failures' \in Int
    BY <1>0, <2>3
  <2>7. PICK f \in Int, g \in Int : f = failures /\ g = failures'
    BY <2>6
  <2>8. PICK n \in Int : n = g - f /\ g = f + n
    OBVIOUS
  <2>9. Blocks'
    BY <2>3, <2>5, <2>7, <2>8, BlocksBalance
  <2> QED
    BY <2>4, <2>9 DEF BlocksInv
<1>3. ASSUME NEW p \in Pcbs, SynAck(p) PROVE BlocksInv'
  <2>0. pcb[p] \in Block
    BY <1>0
  <2>a. /\ [pcb[p] EXCEPT !.state = "ESTABLISHED"] \in Block
      /\ [pcb[p] EXCEPT !.state = "ESTABLISHED"].state = "ESTABLISHED"
      /\ [pcb[p] EXCEPT !.state = "ESTABLISHED"].age = pcb[p].age
    BY <2>0 DEF Block, States, Connected
  <2>1. PICK block \in Block : block = [pcb[p] EXCEPT !.state = "ESTABLISHED"]
                               /\ block.state = "ESTABLISHED" /\ block.age = pcb[p].age
    BY <2>a
  <2>2. Becomes(p, block) /\ pcb[p].state = "SYN_SENT" /\ UNCHANGED <<weather, whole>>
    BY <1>3, <2>1 DEF SynAck, weatherVars
  <2> QED
    BY <1>0, <2>1, <2>2, BecomesKeeps
<1>4. ASSUME NEW p \in Pcbs, NEW seg \in Segments, Receive(p, seg) PROVE BlocksInv'
  <2>0. pcb[p] \in Block
    BY <1>0
  <2>a. /\ [pcb[p] EXCEPT !.got = TRUE] \in Block
      /\ [pcb[p] EXCEPT !.got = TRUE].state = pcb[p].state
      /\ [pcb[p] EXCEPT !.got = TRUE].age = pcb[p].age
    BY <2>0 DEF Block, States, Connected
  <2>1. PICK block \in Block : block = [pcb[p] EXCEPT !.got = TRUE]
                               /\ block.state = pcb[p].state /\ block.age = pcb[p].age
    BY <2>a
  <2>2. Becomes(p, block) /\ pcb[p].state = "ESTABLISHED"
    BY <1>4, <2>1 DEF Receive
  <2>3. weather' \in [ToSet(Keys) -> Contents \union {NoWeather}] /\ whole' \in BOOLEAN
    BY <1>4, ReceiveTypes DEF BlocksInv
  <2> QED
    BY <2>1, <2>2, <2>3, BecomesKeeps
<1>5. ASSUME NEW p \in Pcbs, NEW block \in Block, Becomes(p, block), UNCHANGED weatherVars,
             block.state \in {"free", "LAST_ACK"}
      PROVE  BlocksInv'
  BY <1>0, <1>5, BecomesKeeps DEF weatherVars
<1>6. Free \in Block /\ Free.state = "free"
  BY <1>0 DEF Free, Block, States
<1>7. ASSUME NEW p \in Pcbs, Fin(p) PROVE BlocksInv'
  <2>1. pcb[p].state = "ESTABLISHED" /\ UNCHANGED weatherVars
    BY <1>7 DEF Fin
  <2>2. CASE Becomes(p, Free)
    BY <1>5, <1>6, <2>1, <2>2
  <2>3. ASSUME NEW s \in {"LAST_ACK", "CLOSE_PENDING"}, Becomes(p, [pcb[p] EXCEPT !.state = s])
        PROVE  BlocksInv'
    <3>0. pcb[p] \in Block
      BY <1>0
    <3>a. /\ [pcb[p] EXCEPT !.state = s] \in Block
        /\ [pcb[p] EXCEPT !.state = s].state = s
        /\ [pcb[p] EXCEPT !.state = s].age = pcb[p].age
      BY <3>0 DEF Block, States, Connected
    <3>1. PICK block \in Block : block = [pcb[p] EXCEPT !.state = s]
                                 /\ block.state = s /\ block.age = pcb[p].age
      BY <3>a
    <3>2. Becomes(p, block)
      BY <2>3, <3>1
    <3> QED
      BY <1>0, <2>1, <3>1, <3>2, BecomesKeeps DEF weatherVars
  <2> QED
    BY <1>7, <2>2, <2>3 DEF Fin
<1>8. ASSUME NEW p \in Pcbs, ClosePending(p) PROVE BlocksInv'
  <2>0. pcb[p] \in Block
    BY <1>0
  <2>a. /\ [pcb[p] EXCEPT !.state = "LAST_ACK"] \in Block
      /\ [pcb[p] EXCEPT !.state = "LAST_ACK"].state = "LAST_ACK"
    BY <2>0 DEF Block, States, Connected
  <2>1. PICK block \in Block : block = [pcb[p] EXCEPT !.state = "LAST_ACK"]
                               /\ block.state = "LAST_ACK"
    BY <2>a
  <2> QED
    BY <1>5, <1>8, <2>1 DEF ClosePending
<1>9. ASSUME NEW p \in Pcbs, Gone(p) PROVE BlocksInv'
  BY <1>5, <1>6, <1>9 DEF Gone
<1>10. CASE LoseAddress
  <2>1. pcb' = [p \in Pcbs |-> IF pcb[p].state \in Connected THEN Free ELSE pcb[p]]
        /\ route' = FALSE /\ UNCHANGED <<due, dns, peer, failures, weather, whole>>
    BY <1>10 DEF LoseAddress, weatherVars
  <2>2. TypeOK'
    BY <1>0, <1>6, <2>1 DEF BlocksInv, TypeOK, Block
  <2>3. \A p \in Pcbs : pcb'[p].state # "CLOSE_WAIT"
    BY <1>6, <2>1 DEF Connected
  <2>4. \A a : Young(pcb', a) \in SUBSET Young(pcb, a)
    BY <1>6, <2>1 DEF Young, Connected
  <2>5. Lost(pcb') \in SUBSET Lost(pcb)
    BY <1>6, <2>1 DEF Lost
  <2>6. \A a : Cardinality(Young(pcb', a)) <= Cardinality(Young(pcb, a)) + 0
    <3> TAKE a
    <3>1. Young(pcb, a) \in SUBSET Pcbs /\ Young(pcb', a) \in SUBSET Young(pcb, a)
      BY <2>4, YoungAndLost
    <3> QED
      BY <3>1, Fewer
  <2>7. Cardinality(Lost(pcb')) <= Cardinality(Lost(pcb)) + 0
    <3>1. Lost(pcb) \in SUBSET Pcbs
      BY YoungAndLost
    <3> QED
      BY <2>5, <3>1, Fewer
  <2>8. Grows(0, 0)
    BY <2>3, <2>6, <2>7 DEF Grows
  <2>9. due' \in Nat /\ dns' \in Nat /\ failures' \in Int /\ due' + dns' + 0 <= due + dns
        /\ failures' = failures + 0
    BY <1>0, <2>1
  <2> QED
    BY <2>2, <2>8, <2>9, BlocksBalance DEF BlocksInv
<1>11. CASE Minute
  <2>1. /\ due = 0 /\ dns = 0 /\ due' = 1
        /\ \A p \in In(Connected \ {"CLOSE_WAIT"}) : pcb[p].age < Lifetime
        /\ pcb' = [p \in Pcbs |-> IF pcb[p].state \in Connected \ {"CLOSE_WAIT"}
                                  THEN [pcb[p] EXCEPT !.age = @ + 1] ELSE pcb[p]]
        /\ UNCHANGED <<dns, route, peer, failures, weather, whole>>
    BY <1>11 DEF Minute, netVars, weatherVars
  <2>2. \A p \in Pcbs : /\ pcb'[p] \in Block
                        /\ pcb'[p].state = pcb[p].state
                        /\ pcb[p].state \in Connected \ {"CLOSE_WAIT"} => pcb'[p].age = pcb[p].age + 1
    <3> TAKE p \in Pcbs
    <3>1. pcb[p] \in Block
      BY <1>0
    <3>2. CASE pcb[p].state \in Connected \ {"CLOSE_WAIT"}
      <4>1. pcb'[p] = [pcb[p] EXCEPT !.age = @ + 1]
        BY <2>1, <3>2
      <4>2. pcb[p].age \in 0 .. Lifetime /\ pcb[p].age < Lifetime
        BY <2>1, <3>1, <3>2 DEF Block, In
      <4>3. pcb[p].age + 1 \in 0 .. Lifetime
        BY <1>0, <4>2
      <4> QED
        BY <3>1, <4>1, <4>3 DEF Block
    <3>3. CASE pcb[p].state \notin Connected \ {"CLOSE_WAIT"}
      BY <2>1, <3>1, <3>3
    <3> QED
      BY <3>2, <3>3
  <2>3. pcb' \in [Pcbs -> Block]
    BY <2>1, <2>2
  <2>4. TypeOK'
    BY <1>0, <2>1, <2>3 DEF BlocksInv, TypeOK, Block
  <2>5. \A p \in Pcbs : pcb'[p].state # "CLOSE_WAIT"
    BY <2>2 DEF BlocksInv, Blocks
  <2>6. Lost(pcb') = Lost(pcb)
    BY <2>2 DEF Lost
  <2>7. \A a \in 0 .. Lifetime : Young(pcb', a) \subseteq Young(pcb, a - 1)
    <3> SUFFICES ASSUME NEW a \in 0 .. Lifetime, NEW p \in Young(pcb', a) PROVE p \in Young(pcb, a - 1)
      OBVIOUS
    <3>1. p \in Pcbs /\ pcb'[p].state \in {"SYN_SENT", "ESTABLISHED", "CLOSE_PENDING"}
          /\ pcb'[p].age <= a
      BY DEF Young
    <3>2. pcb[p].state \in {"SYN_SENT", "ESTABLISHED", "CLOSE_PENDING"} /\ pcb'[p].age = pcb[p].age + 1
      BY <2>2, <3>1 DEF Connected
    <3>3. pcb[p].age \in Int
      BY <1>0, <3>1 DEF Block
    <3>4. pcb[p].age <= a - 1
      BY <3>1, <3>2, <3>3
    <3> QED
      BY <3>1, <3>2, <3>4 DEF Young
  <2>8. \A a \in 0 .. Lifetime : Cardinality(Young(pcb', a)) + due' + dns' <= a + 2
    <3> TAKE a \in 0 .. Lifetime
    <3>1. Young(pcb', a) \in SUBSET Young(pcb, a - 1) /\ Young(pcb, a - 1) \in SUBSET Pcbs
      BY <2>7, YoungAndLost
    <3>2. /\ Cardinality(Young(pcb', a)) <= Cardinality(Young(pcb, a - 1))
          /\ Cardinality(Young(pcb', a)) \in Nat /\ Cardinality(Young(pcb, a - 1)) \in Nat
      BY <3>1, Fewer
    <3>3. CASE a = 0
      <4>1. \A p \in Pcbs : pcb[p].age \in Nat
        BY <1>0 DEF Block
      <4>2. Young(pcb, a - 1) = {}
        BY <3>3, <4>1 DEF Young
      <4>3. Cardinality(Young(pcb, a - 1)) = 0
        BY <4>2, FS_EmptySet
      <4> QED
        BY <2>1, <3>2, <3>3, <4>3
    <3>4. CASE a # 0
      <4>1. a - 1 \in 0 .. Lifetime
        BY <1>0, <3>4
      <4>2. Cardinality(Young(pcb, a - 1)) + due + dns <= (a - 1) + 2
        BY <4>1 DEF BlocksInv, Blocks
      <4> QED
        BY <2>1, <3>2, <4>1, <4>2
    <3> QED
      BY <3>3, <3>4
  <2>9. Cardinality(Lost(pcb')) <= failures'
    BY <2>1, <2>6 DEF BlocksInv, Blocks
  <2> QED
    BY <2>4, <2>5, <2>8, <2>9 DEF BlocksInv, Blocks, Young, Lost
<1>12. CASE GetAddress \/ UNCHANGED vars
  <2>1. UNCHANGED <<pcb, due, dns, peer, failures, weather, whole>> /\ route' \in BOOLEAN
    BY <1>12 DEF GetAddress, vars, weatherVars, netVars, BlocksInv, TypeOK
  <2>2. TypeOK'
    BY <1>0, <2>1 DEF BlocksInv, TypeOK
  <2>3. Blocks'
    BY <2>1 DEF BlocksInv, Blocks, Young, Lost
  <2> QED
    BY <2>2, <2>3 DEF BlocksInv
<1> QED
  BY <1>1, <1>2, <1>3, <1>4, <1>7, <1>8, <1>9, <1>10, <1>11, <1>12 DEF Next

\* The invariant on the control blocks holds in every state.
LEMMA BlocksAlways == Spec => []BlocksInv
<1> QED
  BY BlocksInit, BlocksKept, PTL DEF Spec

\* Control blocks, requests, failures and the shown strings keep their types.
THEOREM TypeCorrect == Spec => []TypeOK
<1>1. BlocksInv => TypeOK
  BY DEF BlocksInv
<1> QED
  BY <1>1, BlocksAlways, PTL

\* A pool for one connection in each of the minutes it may last, one for the boot,
\* and one for each call of tcp_connect that fails.
PoolSuffices == Cardinality(Pcbs) >= Lifetime + 2 + MaxFailures

\* In such a pool every request finds a control block, although the program frees
\* none itself and does not look at what tcp_new returns.
THEOREM PcbFound ==
  ASSUME PoolSuffices
  PROVE  Spec => []PcbForEveryRequest
<1>1. ASSUME BlocksInv PROVE PcbForEveryRequest
  <2>1. Lifetime \in Nat /\ MaxFailures \in Nat /\ due \in Nat /\ dns \in Nat
        /\ failures \in 0 .. MaxFailures /\ pcb \in [Pcbs -> Block]
    BY <1>1, PoolAssumption DEF BlocksInv, TypeOK, Block
  <2> DEFINE taken == Young(pcb, Lifetime)
             lost == Lost(pcb)
             rest == In({"free", "LAST_ACK"})
  <2>2. taken \in SUBSET Pcbs /\ lost \in SUBSET Pcbs /\ rest \in SUBSET Pcbs
    BY YoungAndLost DEF In
  <2>3. Pcbs \subseteq (taken \union lost) \union rest
    <3> SUFFICES ASSUME NEW p \in Pcbs, p \notin lost, p \notin rest PROVE p \in taken
      OBVIOUS
    <3>1. pcb[p].state \in States /\ pcb[p].state \notin {"CLOSED", "CLOSE_WAIT", "free", "LAST_ACK"}
      BY <1>1, <2>1 DEF BlocksInv, Blocks, Lost, In, Block
    <3>2. pcb[p].age <= Lifetime
      BY <2>1 DEF Block
    <3> QED
      BY <3>1, <3>2 DEF Young, States, Connected
  <2> HIDE DEF taken, lost, rest
  <2>4. /\ IsFiniteSet(taken) /\ IsFiniteSet(lost) /\ IsFiniteSet(rest)
        /\ Cardinality(taken) \in Nat /\ Cardinality(lost) \in Nat /\ Cardinality(rest) \in Nat
        /\ Cardinality(Pcbs) \in Nat
    BY <2>2, SetsOfPcbs
  <2>5. /\ IsFiniteSet(taken \union lost)
        /\ Cardinality(taken \union lost) =
             Cardinality(taken) + Cardinality(lost) - Cardinality(taken \intersect lost)
    BY <2>4, FS_Union
  <2>6. /\ IsFiniteSet((taken \union lost) \union rest)
        /\ Cardinality((taken \union lost) \union rest) =
             Cardinality(taken \union lost) + Cardinality(rest)
               - Cardinality((taken \union lost) \intersect rest)
    BY <2>4, <2>5, FS_Union
  <2>7. Cardinality(Pcbs) <= Cardinality((taken \union lost) \union rest)
    BY <2>3, <2>6, FS_Subset
  <2>8. Cardinality(taken \intersect lost) \in Nat
        /\ Cardinality((taken \union lost) \intersect rest) \in Nat
    BY <2>2, SetsOfPcbs
  <2>9. Cardinality(taken) + due + dns <= Lifetime + 2 /\ Cardinality(lost) <= failures
    <3>1. Lifetime \in 0 .. Lifetime
      BY <2>1
    <3> QED
      BY <1>1, <3>1 DEF BlocksInv, Blocks, taken, lost
  <2>10. Cardinality(rest) >= due + dns
    BY <2>1, <2>4, <2>5, <2>6, <2>7, <2>8, <2>9 DEF PoolSuffices
  <2> QED
    BY <2>10 DEF PcbForEveryRequest, rest
<1> QED
  BY <1>1, BlocksAlways, PTL

-----------------------------------------------------------------------------
(* The three strings                                                        *)

\* The three searches, in the order they are in, find all three values in a whole
\* response: strtok cuts the text behind what was found, and the next value is before.
LEMMA AllParsed == Parsed(Keys) = ToSet(Keys)
<1>1. Len(Keys) = 3 /\ DOMAIN Keys = 1 .. 3 /\ Keys[1] = "description" /\ Keys[2] = "icon"
      /\ Keys[3] = "temp"
  BY DEF Keys
<1>2. ToSet(Keys) = {"description", "icon", "temp"}
  BY <1>1 DEF ToSet
<1>3. Cut(Keys, "temp") = Keys
  <2>1. (CHOOSE i \in DOMAIN Keys : Keys[i] = "temp") = 3
    BY <1>1
  <2>2. SubSeq(Keys, 1, 3) = Keys
    <3>1. Keys \in Seq({"description", "icon", "temp"})
      BY DEF Keys
    <3>2. SubSeq(Keys, 1, Len(Keys)) = Keys
      BY <3>1, SubSeqFull
    <3> QED
      BY <1>1, <3>2
  <2> QED
    BY <1>2, <2>1, <2>2 DEF Cut
<1>4. Cut(Keys, "icon") = <<"description", "icon">>
  <2>1. (CHOOSE i \in DOMAIN Keys : Keys[i] = "icon") = 2
    BY <1>1
  <2>2. SubSeq(Keys, 1, 2) = <<"description", "icon">>
    <3>1. \A i \in 1 .. 2 : Keys[i] \in {"description", "icon"}
      BY <1>1
    <3>2. PICK s : s = SubSeq(Keys, 1, 2)
      OBVIOUS
    <3>3. s \in Seq({"description", "icon"}) /\ Len(s) = 2 /\ \A i \in 1 .. 2 : s[i] = Keys[1 + i - 1]
      BY <3>1, <3>2, SubSeqProperties
    <3>4. s[1] = "description" /\ s[2] = "icon"
      BY <1>1, <3>3
    <3>5. s = <<"description", "icon">>
      BY <3>3, <3>4
    <3> QED
      BY <3>2, <3>5
  <2> QED
    BY <1>2, <2>1, <2>2 DEF Cut
<1>5. ToSet(<<"description", "icon">>) = {"description", "icon"}
  BY DEF ToSet
<1> QED
  BY <1>2, <1>3, <1>4, <1>5 DEF Parsed

\* The strings come from one response each time they are written, and nothing else
\* writes them.
LEMMA NotTornKept ==
  ASSUME TypeOK, WeatherNotTorn, [Next]_vars
  PROVE  WeatherNotTorn'
<1>1. ASSUME NEW p \in Pcbs, NEW seg \in Segments, Receive(p, seg), seg.ok
      PROVE  WeatherNotTorn'
  <2>1. weather' = [k \in ToSet(Keys) |-> IF k \in Parsed(seg.keys) THEN seg.content ELSE weather[k]]
        /\ whole' = (whole /\ seg.keys = Keys)
    BY <1>1 DEF Receive
  <2>2. ASSUME whole' PROVE \A j, k \in ToSet(Keys) : weather'[j] = weather'[k]
    <3>1. seg.keys = Keys
      BY <2>1, <2>2
    <3>2. \A k \in ToSet(Keys) : weather'[k] = seg.content
      BY <2>1, <3>1, AllParsed
    <3> QED
      BY <3>2
  <2> QED
    BY <2>2 DEF WeatherNotTorn
<1>2. CASE UNCHANGED weatherVars
  BY <1>2 DEF WeatherNotTorn, weatherVars
<1>3. ASSUME NEW p \in Pcbs, NEW seg \in Segments, Receive(p, seg), ~ seg.ok
      PROVE  UNCHANGED weatherVars
  BY <1>3 DEF Receive
<1> QED
  BY <1>1, <1>2, <1>3 DEF Next, dns_send_http_request, dns_callback, SynAck, Fin, ClosePending,
    Gone, LoseAddress, GetAddress, Minute, vars

\* As long as the network delivers whole responses, the three strings on the display
\* are from one of them.
THEOREM NeverTorn == Spec => []WeatherNotTorn
<1>1. Init => WeatherNotTorn
  BY DEF Init, WeatherNotTorn
<1> QED
  BY <1>1, NotTornKept, TypeCorrect, PTL DEF Spec
=============================================================================

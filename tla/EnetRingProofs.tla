---------------------------- MODULE EnetRingProofs ----------------------------
(* Theorems about EnetRing, for rings of any sizes and any frames.            *)
EXTENDS EnetRing, FiniteSetTheorems, SequenceTheorems, TLAPS

-----------------------------------------------------------------------------
(* Positions in a ring of n descriptors                                     *)

\* The k-th descriptor from the i-th one on, without a division.
Place(n, i, k) == IF i + k < n THEN i + k ELSE i + k - n

\* Following the ring never needs more than one turn back to its begin.
LEMMA RingArithmetic ==
  ASSUME NEW n \in Nat \ {0}, NEW i \in 0 .. n - 1, NEW k \in 0 .. n
  PROVE  (i + k) % n = Place(n, i, k) /\ Place(n, i, k) \in 0 .. n - 1
<1>1. CASE i + k < n
  BY <1>1 DEF Place
<1>2. CASE ~ (i + k < n)
  <2>1. i + k - n \in 0 .. n - 1
    BY <1>2
  <2>2. \A m \in 0 .. n - 1 : (m + n) % n = m
    OBVIOUS
  <2> QED
    BY <1>2, <2>1, <2>2 DEF Place
<1> QED
  BY <1>1, <1>2

\* The next place of a ring.
LEMMA RingStep ==
  ASSUME NEW n \in Nat \ {0}, NEW i \in 0 .. n - 1
  PROVE  (i + 1) % n = Place(n, i, 1) /\ Place(n, i, 1) \in 0 .. n - 1
<1>1. 1 \in 0 .. n
  OBVIOUS
<1> QED
  BY <1>1, RingArithmetic

\* Every descriptor is some steps behind any other.
LEMMA EveryPlace ==
  ASSUME NEW n \in Nat \ {0}, NEW i \in 0 .. n - 1, NEW j \in 0 .. n - 1
  PROVE  \E k \in 0 .. n - 1 : j = Place(n, i, k)
<1>1. CASE i <= j
  <2>1. j - i \in 0 .. n - 1 /\ j = Place(n, i, j - i)
    BY <1>1 DEF Place
  <2> QED
    BY <2>1
<1>2. CASE j < i
  <2>1. j + n - i \in 0 .. n - 1 /\ j = Place(n, i, j + n - i)
    BY <1>2 DEF Place
  <2> QED
    BY <2>1
<1> QED
  BY <1>1, <1>2

-----------------------------------------------------------------------------
(* One ring                                                                 *)

\* From the place where frames are taken on, len descriptors hold a frame, the
\* others none, and the next frame goes behind them.
Holds(ring, n, first, next, len) ==
  /\ next = Place(n, first, len)
  /\ \A k \in 0 .. n - 1 : ring[Place(n, first, k)] # Empty <=> k < len

RingInv(ring, n, first, next) == \E len \in 0 .. n : Holds(ring, n, first, next, len)

\* The descriptor to fill tells whether there is room.
LEMMA RoomBehind ==
  ASSUME NEW n \in Nat \ {0}, NEW first \in 0 .. n - 1, NEW next \in 0 .. n - 1,
         NEW len \in 0 .. n, NEW ring, Holds(ring, n, first, next, len)
  PROVE  ring[next] = Empty <=> len < n
<1>1. CASE len < n
  BY <1>1 DEF Holds
<1>2. CASE len = n
  <2>1. next = Place(n, first, 0)
    BY <1>2 DEF Holds, Place
  <2> QED
    BY <1>2, <2>1 DEF Holds
<1> QED
  BY <1>1, <1>2

\* A frame stored behind the others makes the ring one frame longer.
LEMMA RingPut ==
  ASSUME NEW n \in Nat \ {0}, NEW first \in 0 .. n - 1, NEW next \in 0 .. n - 1,
         NEW len \in 0 .. n, NEW V, NEW ring \in [0 .. n - 1 -> V],
         Holds(ring, n, first, next, len), ring[next] = Empty,
         NEW f, f # Empty
  PROVE  /\ len < n
         /\ Holds([ring EXCEPT ![next] = f], n, first, (next + 1) % n, len + 1)
<1> DEFINE new == [ring EXCEPT ![next] = f]
<1>1. len < n
  BY RoomBehind
<1>2. (next + 1) % n = Place(n, first, len + 1)
  <2>1. (next + 1) % n = Place(n, next, 1)
    BY RingStep
  <2> QED
    BY <1>1, <2>1 DEF Holds, Place
<1>3. ASSUME NEW k \in 0 .. n - 1
      PROVE  new[Place(n, first, k)] # Empty <=> k < len + 1
  <2>1. Place(n, first, k) \in 0 .. n - 1
    BY DEF Place
  <2>2. Place(n, first, k) = next <=> k = len
    BY <1>1 DEF Holds, Place
  <2>3. ring[Place(n, first, k)] # Empty <=> k < len
    BY DEF Holds
  <2> QED
    BY <2>1, <2>2, <2>3
<1> QED
  BY <1>1, <1>2, <1>3 DEF Holds

\* A frame taken from its front makes it one frame shorter.
LEMMA RingGet ==
  ASSUME NEW n \in Nat \ {0}, NEW first \in 0 .. n - 1, NEW next \in 0 .. n - 1,
         NEW len \in 0 .. n, NEW V, NEW ring \in [0 .. n - 1 -> V],
         Holds(ring, n, first, next, len), ring[first] # Empty
  PROVE  /\ 0 < len
         /\ Holds([ring EXCEPT ![first] = Empty], n, (first + 1) % n, next, len - 1)
<1> DEFINE new == [ring EXCEPT ![first] = Empty]
           second == Place(n, first, 1)
<1>1. (first + 1) % n = second /\ second \in 0 .. n - 1
  BY RingStep
<1>2. first = Place(n, first, 0)
  BY DEF Place
<1>3. 0 < len
  <2>1. 0 \in 0 .. n - 1
    OBVIOUS
  <2>2. ring[Place(n, first, 0)] # Empty <=> 0 < len
    BY <2>1 DEF Holds
  <2> QED
    BY <1>2, <2>2
<1>4. next = Place(n, second, len - 1)
  BY <1>1, <1>3 DEF Holds, Place
<1>5. ASSUME NEW k \in 0 .. n - 1
      PROVE  new[Place(n, second, k)] # Empty <=> k < len - 1
  <2>1. CASE k = n - 1
    <3>1. Place(n, second, k) = first
      BY <2>1 DEF Place
    <3> QED
      BY <2>1, <3>1
  <2>2. CASE k < n - 1
    <3>1. Place(n, second, k) = Place(n, first, k + 1) /\ Place(n, first, k + 1) # first
      BY <2>2 DEF Place
    <3>2. Place(n, first, k + 1) \in 0 .. n - 1
      BY <2>2 DEF Place
    <3>3. ring[Place(n, first, k + 1)] # Empty <=> k + 1 < len
      BY <2>2 DEF Holds
    <3> QED
      BY <3>1, <3>2, <3>3
  <2> QED
    BY <2>1, <2>2
<1> QED
  BY <1>1, <1>3, <1>4, <1>5 DEF Holds

\* The frames of a ring as a sequence.
LEMMA QueuedFrames ==
  ASSUME NEW n \in Nat \ {0}, NEW first \in 0 .. n - 1, NEW next \in 0 .. n - 1,
         NEW len \in 0 .. n, NEW ring, Holds(ring, n, first, next, len)
  PROVE  Queued(ring, n, first) = [k \in 1 .. len |-> ring[Place(n, first, k - 1)]]
<1> DEFINE At(k) == ring[(first + k - 1) % n]
           filled == {m \in 1 .. n : \A k \in 1 .. m : At(k) # Empty}
<1>1. ASSUME NEW k \in 1 .. n
      PROVE  At(k) = ring[Place(n, first, k - 1)] /\ (At(k) # Empty <=> k <= len)
  <2>1. k - 1 \in 0 .. n - 1 /\ first + k - 1 = first + (k - 1)
    OBVIOUS
  <2>2. (first + k - 1) % n = Place(n, first, k - 1)
    BY <2>1, RingArithmetic
  <2>3. ring[Place(n, first, k - 1)] # Empty <=> k - 1 < len
    BY <2>1 DEF Holds
  <2> QED
    BY <2>2, <2>3
<1>2. filled = 1 .. len
  <2> HIDE DEF At
  <2> QED
    BY <1>1
<1>3. Cardinality(1 .. len) = len
  BY FS_Interval
<1>4. Queued(ring, n, first) = [k \in 1 .. Cardinality(filled) |-> At(k)]
  BY DEF Queued
<1>5. Queued(ring, n, first) = [k \in 1 .. len |-> At(k)]
  <2> HIDE DEF filled, At
  <2> QED
    BY <1>2, <1>3, <1>4
<1>6. \A k \in 1 .. len : At(k) = ring[Place(n, first, k - 1)]
  <2> HIDE DEF At
  <2> QED
    BY <1>1
<1> HIDE DEF At
<1> QED
  BY <1>5, <1>6

\* FrameQueue!Put as a relation between two sequences.
Puts(before, after, n, f) == Len(before) < n /\ after = Append(before, f)

\* Storing a frame appends it to the sequence, ...
LEMMA PutAppends ==
  ASSUME NEW n \in Nat \ {0}, NEW first \in 0 .. n - 1, NEW next \in 0 .. n - 1,
         NEW V, NEW ring \in [0 .. n - 1 -> V],
         RingInv(ring, n, first, next), ring[next] = Empty,
         NEW f, f # Empty
  PROVE  /\ RingInv([ring EXCEPT ![next] = f], n, first, (next + 1) % n)
         /\ Puts(Queued(ring, n, first), Queued([ring EXCEPT ![next] = f], n, first), n, f)
<1> DEFINE new == [ring EXCEPT ![next] = f]
           behind == (next + 1) % n
<1>1. PICK len \in 0 .. n : Holds(ring, n, first, next, len)
  BY DEF RingInv
<1>2. len < n /\ Holds(new, n, first, behind, len + 1)
  BY <1>1, RingPut
<1>3. len + 1 \in 0 .. n /\ behind \in 0 .. n - 1
  BY <1>2, RingStep
<1>4. Queued(ring, n, first) = [k \in 1 .. len |-> ring[Place(n, first, k - 1)]]
  BY <1>1, QueuedFrames
<1>5. Queued(new, n, first) = [k \in 1 .. len + 1 |-> new[Place(n, first, k - 1)]]
  <2> HIDE DEF new, behind
  <2> QED
    BY <1>2, <1>3, QueuedFrames
<1>6. \A k \in 1 .. len + 1 :
        new[Place(n, first, k - 1)] = IF k = len + 1 THEN f ELSE ring[Place(n, first, k - 1)]
  BY <1>1, <1>2 DEF Holds, Place
<1>7. Len(Queued(ring, n, first)) = len
  BY <1>4
<1>8. Append(Queued(ring, n, first), f) =
        [k \in 1 .. len + 1 |-> IF k = len + 1 THEN f ELSE ring[Place(n, first, k - 1)]]
  BY <1>4
<1>9. Queued(new, n, first) = Append(Queued(ring, n, first), f)
  <2> HIDE DEF new
  <2> QED
    BY <1>5, <1>6, <1>8
<1> QED
  BY <1>2, <1>3, <1>7, <1>9 DEF RingInv, Puts

\* ... and taking one removes its head.
LEMMA GetRemoves ==
  ASSUME NEW n \in Nat \ {0}, NEW first \in 0 .. n - 1, NEW next \in 0 .. n - 1,
         NEW V, NEW ring \in [0 .. n - 1 -> V],
         RingInv(ring, n, first, next), ring[first] # Empty
  PROVE  /\ RingInv([ring EXCEPT ![first] = Empty], n, (first + 1) % n, next)
         /\ Queued(ring, n, first) # <<>>
         /\ Queued([ring EXCEPT ![first] = Empty], n, (first + 1) % n) =
              Tail(Queued(ring, n, first))
<1> DEFINE new == [ring EXCEPT ![first] = Empty]
           second == (first + 1) % n
<1>1. PICK len \in 0 .. n : Holds(ring, n, first, next, len)
  BY DEF RingInv
<1>2. 0 < len /\ Holds(new, n, second, next, len - 1)
  BY <1>1, RingGet
<1>3. len - 1 \in 0 .. n /\ second \in 0 .. n - 1 /\ second = Place(n, first, 1)
  BY <1>2, RingStep
<1>4. Queued(ring, n, first) = [k \in 1 .. len |-> ring[Place(n, first, k - 1)]]
  BY <1>1, QueuedFrames
<1>5. Queued(new, n, second) = [k \in 1 .. len - 1 |-> new[Place(n, second, k - 1)]]
  <2> HIDE DEF new, second
  <2> QED
    BY <1>2, <1>3, QueuedFrames
<1>6. \A k \in 1 .. len - 1 : new[Place(n, second, k - 1)] = ring[Place(n, first, k)]
  <2> SUFFICES ASSUME NEW k \in 1 .. len - 1
               PROVE  new[Place(n, second, k - 1)] = ring[Place(n, first, k)]
    OBVIOUS
  <2>1. Place(n, second, k - 1) = Place(n, first, k)
    <3> HIDE DEF second
    <3> QED
      BY <1>2, <1>3 DEF Place
  <2>2. Place(n, first, k) \in 0 .. n - 1 /\ Place(n, first, k) # first
    BY <1>2 DEF Place
  <2> QED
    BY <2>1, <2>2
<1>7. Tail(Queued(ring, n, first)) = [k \in 1 .. len - 1 |-> ring[Place(n, first, k)]]
  BY <1>2, <1>4
<1>8. Queued(new, n, second) = Tail(Queued(ring, n, first))
  <2> HIDE DEF new, second
  <2> QED
    BY <1>5, <1>6, <1>7
<1>9. Queued(ring, n, first) # <<>>
  <2>1. Len(Queued(ring, n, first)) = len /\ Len(<<>>) = 0
    BY <1>4
  <2> QED
    BY <1>2, <2>1
<1> QED
  BY <1>2, <1>3, <1>8, <1>9 DEF RingInv

-----------------------------------------------------------------------------
(* The invariant                                                            *)

\* What the thread carries from one step to the next: a frame has been seen in
\* the descriptor it is about to read, and there is a pbuf for it.
ThreadInv ==
  /\ pc \in {"read", "drop"} => rx[rxBdCurrent] # Empty
  /\ pc = "read" => rx[rxBdCurrent] # Damaged /\ held < PBUF_POOL_SIZE
  /\ pc \in {"work", "linkinput", "read", "drop"} => p = Empty
  /\ pc = "input" => p # Empty
  /\ pc = "send" => frame \in Sent /\ counter # 0

Inv ==
  /\ TypeOK
  /\ ThreadInv
  /\ RingInv(rx, ENET_RXBD_NUM, rxBdCurrent, macRx)
  /\ RingInv(tx, ENET_TXBD_NUM, macTx, txBdCurrent)

\* Rings, tries and the pool are not empty.
LEMMA Sizes ==
  /\ ENET_RXBD_NUM \in Nat \ {0} /\ ENET_TXBD_NUM \in Nat \ {0}
  /\ ENET_TIMEOUT \in Nat \ {0} /\ PBUF_POOL_SIZE \in Nat \ {0}
BY RingAssumption

\* Counting the tries of linkoutput down stays within their number.
LEMMA Attempts ==
  /\ 0 \in 0 .. ENET_TIMEOUT /\ ENET_TIMEOUT \in 0 .. ENET_TIMEOUT
  /\ \A n \in 1 .. ENET_TIMEOUT : n - 1 \in 0 .. ENET_TIMEOUT
BY Sizes

\* At first both rings are empty and everyone is at place 0.
LEMMA InitInv == Init => Inv
<1> SUFFICES ASSUME Init PROVE Inv
  OBVIOUS
<1> USE Sizes DEF Init
<1>1. TypeOK
  <2>1. {rxBdCurrent, macRx} \subseteq 0 .. ENET_RXBD_NUM - 1
    OBVIOUS
  <2>2. {txBdCurrent, macTx} \subseteq 0 .. ENET_TXBD_NUM - 1
    OBVIOUS
  <2>3. counter \in 0 .. ENET_TIMEOUT /\ held \in 0 .. PBUF_POOL_SIZE
    BY Attempts
  <2>4. {rdar, tdar} \subseteq BOOLEAN
    OBVIOUS
  <2> QED
    BY <2>1, <2>2, <2>3, <2>4 DEF TypeOK
<1>2. ThreadInv
  BY DEF ThreadInv
<1>3. Holds(rx, ENET_RXBD_NUM, rxBdCurrent, macRx, 0)
  BY DEF Holds, Place
<1>4. Holds(tx, ENET_TXBD_NUM, macTx, txBdCurrent, 0)
  BY DEF Holds, Place
<1> QED
  BY <1>1, <1>2, <1>3, <1>4 DEF Inv, RingInv

\* Steps of the types.
LEMMA TypesKept == Inv /\ [Next]_vars => TypeOK'
<1> SUFFICES ASSUME Inv, [Next]_vars PROVE TypeOK'
  OBVIOUS
<1>0. /\ (rxBdCurrent + 1) % ENET_RXBD_NUM \in 0 .. ENET_RXBD_NUM - 1
      /\ (macRx + 1) % ENET_RXBD_NUM \in 0 .. ENET_RXBD_NUM - 1
      /\ (txBdCurrent + 1) % ENET_TXBD_NUM \in 0 .. ENET_TXBD_NUM - 1
      /\ (macTx + 1) % ENET_TXBD_NUM \in 0 .. ENET_TXBD_NUM - 1
  <2>1. /\ ENET_RXBD_NUM \in Nat \ {0} /\ ENET_TXBD_NUM \in Nat \ {0}
        /\ rxBdCurrent \in 0 .. ENET_RXBD_NUM - 1 /\ macRx \in 0 .. ENET_RXBD_NUM - 1
        /\ txBdCurrent \in 0 .. ENET_TXBD_NUM - 1 /\ macTx \in 0 .. ENET_TXBD_NUM - 1
    BY Sizes DEF Inv, TypeOK
  <2> QED
    BY <2>1, RingStep
<1> USE Sizes, FramesAssumption DEF Inv, TypeOK, ThreadInv, RxFrames
<1>1. CASE Poll
  BY <1>1 DEF Poll, Goto, rxVars, txVars, sendVars
<1>2. CASE ethernetif_linkinput
  BY <1>2 DEF ethernetif_linkinput, Goto, rxVars, txVars, sendVars
<1>3. CASE ENET_ReadFrame
  BY <1>3, <1>0 DEF ENET_ReadFrame, ENET_UpdateReadBuffers, Goto, txVars, sendVars
<1>4. CASE ENET_ActiveRead
  BY <1>4 DEF ENET_ActiveRead, Goto, txVars, sendVars
<1>5. CASE Input
  BY <1>5 DEF Input, Goto, rxVars, txVars, sendVars
<1>6. CASE ethernetif_linkoutput
  BY Attempts, <1>6 DEF ethernetif_linkoutput, Goto, rxVars, txVars
<1>7. CASE ENET_SendFrame
  BY <1>7, <1>0 DEF ENET_SendFrame, Goto, rxVars, sendVars
<1>8. CASE ENET_ActiveSend
  BY Attempts, <1>8 DEF ENET_ActiveSend, Return, Goto, rxVars
<1>9. CASE enet_send_frame
  <2>1. CASE counter = 1
    BY Attempts, <1>9, <2>1 DEF enet_send_frame, Return, Goto, rxVars, txVars
  <2>2. CASE counter # 1
    <3>1. counter \in 1 .. ENET_TIMEOUT
      BY <1>9 DEF enet_send_frame
    <3>2. counter' \in 0 .. ENET_TIMEOUT
      BY Attempts, <1>9, <2>2, <3>1 DEF enet_send_frame
    <3> QED
      BY <1>9, <2>2, <3>2 DEF enet_send_frame, rxVars, txVars
  <2> QED
    BY <2>1, <2>2
<1>10. CASE MacReceive
  <2>1. /\ macRx' = (macRx + 1) % ENET_RXBD_NUM
        /\ UNCHANGED <<rxBdCurrent, rdar, txVars, pc, p, sendVars, held>>
    BY <1>10 DEF MacReceive
  <2>2. rx' \in [0 .. ENET_RXBD_NUM - 1 -> RxFrames \union {Empty}]
    BY <1>10 DEF MacReceive
  <2> QED
    BY <1>0, <2>1, <2>2 DEF txVars, sendVars
<1>11. CASE MacRxStops
  BY <1>11 DEF MacRxStops, txVars, sendVars
<1>12. CASE MacTransmit
  BY <1>12, <1>0 DEF MacTransmit, rxVars, sendVars
<1>13. CASE MacTxStops
  BY <1>13 DEF MacTxStops, rxVars, sendVars
<1>14. CASE UNCHANGED vars
  BY <1>14 DEF vars, rxVars, txVars, sendVars
<1> QED
  BY <1>1, <1>2, <1>3, <1>4, <1>5, <1>6, <1>7, <1>8, <1>9, <1>10, <1>11, <1>12, <1>13, <1>14
     DEF Next, Thread, Mac

\* Every step keeps what the thread knows of the descriptor it stands at.
LEMMA ThreadKept == Inv /\ [Next]_vars => ThreadInv'
<1> SUFFICES ASSUME Inv, [Next]_vars PROVE ThreadInv'
  OBVIOUS
<1> USE DEF Inv, TypeOK, ThreadInv
<1>1. CASE Poll
  BY <1>1 DEF Poll, Goto, rxVars, txVars, sendVars
<1>2. CASE ethernetif_linkinput
  BY <1>2 DEF ethernetif_linkinput, Goto, rxVars, txVars, sendVars
<1>3. CASE ENET_ReadFrame
  BY <1>3 DEF ENET_ReadFrame, Goto, txVars, sendVars
<1>4. CASE ENET_ActiveRead
  BY <1>4 DEF ENET_ActiveRead, Goto, txVars, sendVars
<1>5. CASE Input
  BY <1>5 DEF Input, Goto, rxVars, txVars, sendVars
<1>6. CASE ethernetif_linkoutput
  BY <1>6, Sizes DEF ethernetif_linkoutput, Goto, rxVars, txVars
<1>7. CASE ENET_SendFrame
  BY <1>7 DEF ENET_SendFrame, Goto, rxVars, sendVars
<1>8. CASE ENET_ActiveSend
  BY <1>8 DEF ENET_ActiveSend, Return, Goto, rxVars
<1>9. CASE enet_send_frame
  <2>1. CASE counter = 1
    BY <1>9, <2>1 DEF enet_send_frame, Return, Goto, rxVars, txVars
  <2>2. CASE counter # 1
    BY <1>9, <2>2 DEF enet_send_frame, rxVars, txVars
  <2> QED
    BY <2>1, <2>2
<1>10. CASE MacReceive
  <2>1. PICK f \in RxFrames : rx' = [rx EXCEPT ![macRx] = f]
    BY <1>10 DEF MacReceive
  <2>2. rx[rxBdCurrent] # Empty => rx'[rxBdCurrent] = rx[rxBdCurrent]
    BY <1>10, <2>1 DEF MacReceive
  <2> QED
    BY <1>10, <2>2 DEF MacReceive, txVars, sendVars
<1>11. CASE MacRxStops
  BY <1>11 DEF MacRxStops, txVars, sendVars
<1>12. CASE MacTransmit
  BY <1>12 DEF MacTransmit, rxVars, sendVars
<1>13. CASE MacTxStops
  BY <1>13 DEF MacTxStops, rxVars, sendVars
<1>14. CASE UNCHANGED vars
  BY <1>14 DEF vars, rxVars, txVars, sendVars
<1> QED
  BY <1>1, <1>2, <1>3, <1>4, <1>5, <1>6, <1>7, <1>8, <1>9, <1>10, <1>11, <1>12, <1>13, <1>14
     DEF Next, Thread, Mac

-----------------------------------------------------------------------------
(* Every step leaves a ring alone, stores a frame or takes one              *)

RxPut ==
  /\ rx[macRx] = Empty
  /\ \E f \in RxFrames : rx' = [rx EXCEPT ![macRx] = f]
  /\ macRx' = (macRx + 1) % ENET_RXBD_NUM
  /\ UNCHANGED rxBdCurrent

RxGet ==
  /\ rx[rxBdCurrent] # Empty
  /\ rx' = [rx EXCEPT ![rxBdCurrent] = Empty]
  /\ rxBdCurrent' = (rxBdCurrent + 1) % ENET_RXBD_NUM
  /\ UNCHANGED macRx

TxPut ==
  /\ tx[txBdCurrent] = Empty
  /\ \E f \in Sent : tx' = [tx EXCEPT ![txBdCurrent] = f]
  /\ txBdCurrent' = (txBdCurrent + 1) % ENET_TXBD_NUM
  /\ UNCHANGED macTx

TxGet ==
  /\ tx[macTx] # Empty
  /\ tx' = [tx EXCEPT ![macTx] = Empty]
  /\ macTx' = (macTx + 1) % ENET_TXBD_NUM
  /\ UNCHANGED txBdCurrent

\* The MAC and the thread do nothing else to the receive ring ...
LEMMA RxSteps ==
  ASSUME Inv, [Next]_vars
  PROVE  RxPut \/ RxGet \/ UNCHANGED <<rx, rxBdCurrent, macRx>>
<1>1. CASE MacReceive
  BY <1>1 DEF MacReceive, RxPut
<1>2. CASE ENET_ReadFrame
  BY <1>2 DEF ENET_ReadFrame, ENET_UpdateReadBuffers, RxGet, Inv, ThreadInv
<1> QED
  BY <1>1, <1>2 DEF Next, Thread, Mac, Poll, ethernetif_linkinput, ENET_ActiveRead, Input,
     ethernetif_linkoutput, ENET_SendFrame, ENET_ActiveSend, enet_send_frame, MacRxStops,
     MacTransmit, MacTxStops, vars, rxVars

\* ... nor to the transmit ring.
LEMMA TxSteps ==
  ASSUME Inv, [Next]_vars
  PROVE  TxPut \/ TxGet \/ UNCHANGED <<tx, txBdCurrent, macTx>>
<1>1. CASE ENET_SendFrame
  BY <1>1 DEF ENET_SendFrame, TxPut, Inv, ThreadInv
<1>2. CASE MacTransmit
  BY <1>2 DEF MacTransmit, TxGet
<1> QED
  BY <1>1, <1>2 DEF Next, Thread, Mac, Poll, ethernetif_linkinput, ENET_ReadFrame, ENET_ActiveRead,
     Input, ethernetif_linkoutput, ENET_ActiveSend, enet_send_frame, MacReceive, MacRxStops,
     MacTxStops, vars, txVars

\* Every step keeps the frames of each ring in a row from one end to the other.
LEMMA RingsKept ==
  ASSUME Inv, [Next]_vars
  PROVE  /\ RingInv(rx, ENET_RXBD_NUM, rxBdCurrent, macRx)'
         /\ RingInv(tx, ENET_TXBD_NUM, macTx, txBdCurrent)'
<1> USE Sizes DEF Inv, TypeOK
<1>1. RingInv(rx, ENET_RXBD_NUM, rxBdCurrent, macRx)'
  <2>1. CASE RxPut
    <3>1. PICK f \in RxFrames : rx' = [rx EXCEPT ![macRx] = f]
      BY <2>1 DEF RxPut
    <3>2. f # Empty /\ rxBdCurrent \in 0 .. ENET_RXBD_NUM - 1 /\ macRx \in 0 .. ENET_RXBD_NUM - 1
      BY FramesAssumption DEF RxFrames
    <3> QED
      BY <2>1, <3>1, <3>2, PutAppends DEF RxPut
  <2>2. CASE RxGet
    BY <2>2, GetRemoves DEF RxGet
  <2>3. CASE UNCHANGED <<rx, rxBdCurrent, macRx>>
    BY <2>3
  <2> QED
    BY <2>1, <2>2, <2>3, RxSteps
<1>2. RingInv(tx, ENET_TXBD_NUM, macTx, txBdCurrent)'
  <2>1. CASE TxPut
    <3>1. PICK f \in Sent : tx' = [tx EXCEPT ![txBdCurrent] = f]
      BY <2>1 DEF TxPut
    <3>2. f # Empty /\ txBdCurrent \in 0 .. ENET_TXBD_NUM - 1 /\ macTx \in 0 .. ENET_TXBD_NUM - 1
      BY FramesAssumption
    <3> QED
      BY <2>1, <3>1, <3>2, PutAppends DEF TxPut
  <2>2. CASE TxGet
    BY <2>2, GetRemoves DEF TxGet
  <2>3. CASE UNCHANGED <<tx, txBdCurrent, macTx>>
    BY <2>3
  <2> QED
    BY <2>1, <2>2, <2>3, TxSteps
<1> QED
  BY <1>1, <1>2

\* The invariant of both rings holds in every state.
LEMMA Invariance == Spec => []Inv
<1>1. Inv /\ [Next]_vars => Inv'
  BY TypesKept, ThreadKept, RingsKept DEF Inv
<1> QED
  BY <1>1, InitInv, PTL DEF Spec

-----------------------------------------------------------------------------
\* The variables of the port and the driver keep their types: pointers stay in
\* their rings, attempts are never negative, and the thread takes no pbuf that
\* the pool does not have.
THEOREM TypeCorrect == Spec => []TypeOK
BY Invariance, PTL DEF Inv

\* Either side learns from one descriptor about all: the thread that its ring is
\* empty or full, the MAC too.
THEOREM RingEndsMeet == Spec => []EndsMeet
<1>1. ASSUME NEW n \in Nat \ {0}, NEW first \in 0 .. n - 1, NEW next \in 0 .. n - 1,
             NEW ring, RingInv(ring, n, first, next)
      PROVE  /\ ring[first] = Empty => \A i \in 0 .. n - 1 : ring[i] = Empty
             /\ ring[next] # Empty => \A i \in 0 .. n - 1 : ring[i] # Empty
  <2>1. PICK len \in 0 .. n : Holds(ring, n, first, next, len)
    BY <1>1 DEF RingInv
  <2>2. ASSUME NEW i \in 0 .. n - 1, len = 0
        PROVE  ring[i] = Empty
    <3>1. PICK k \in 0 .. n - 1 : i = Place(n, first, k)
      BY EveryPlace
    <3> QED
      BY <2>1, <2>2, <3>1 DEF Holds
  <2>3. ASSUME NEW i \in 0 .. n - 1, len = n
        PROVE  ring[i] # Empty
    <3>1. PICK k \in 0 .. n - 1 : i = Place(n, first, k)
      BY EveryPlace
    <3> QED
      BY <2>1, <2>3, <3>1 DEF Holds
  <2>4. ring[first] = Empty => len = 0
    <3>1. first = Place(n, first, 0) /\ 0 \in 0 .. n - 1
      BY DEF Place
    <3> QED
      BY <2>1, <3>1 DEF Holds
  <2>5. ring[next] # Empty => len = n
    BY <2>1, RoomBehind
  <2> QED
    BY <2>2, <2>3, <2>4, <2>5
<1>2. Inv => EndsMeet
  <2> SUFFICES ASSUME Inv PROVE EndsMeet
    OBVIOUS
  <2>1. DOMAIN rx = 0 .. ENET_RXBD_NUM - 1 /\ DOMAIN tx = 0 .. ENET_TXBD_NUM - 1
    BY DEF Inv, TypeOK
  <2>2. {rxBdCurrent, macRx} \subseteq 0 .. ENET_RXBD_NUM - 1
    BY DEF Inv, TypeOK
  <2>3. {txBdCurrent, macTx} \subseteq 0 .. ENET_TXBD_NUM - 1
    BY DEF Inv, TypeOK
  <2>4. /\ rx[rxBdCurrent] = Empty => \A i \in DOMAIN rx : rx[i] = Empty
        /\ rx[macRx] # Empty => \A i \in DOMAIN rx : rx[i] # Empty
    BY <1>1, <2>1, <2>2, Sizes DEF Inv
  <2>5. /\ tx[macTx] = Empty => \A i \in DOMAIN tx : tx[i] = Empty
        /\ tx[txBdCurrent] # Empty => \A i \in DOMAIN tx : tx[i] # Empty
    BY <1>1, <2>1, <2>3, Sizes DEF Inv
  <2> QED
    BY <2>4, <2>5 DEF EndsMeet
<1> QED
  BY <1>2, Invariance, PTL

\* The rings implement queues: for every size of the rings, whatever the MAC and
\* the thread do between each other's accesses, no frame is lost, doubled,
\* overwritten or out of order.
THEOREM ImplementsQueues == Spec => RingsAreQueues
<1> USE Sizes
<1>1. ASSUME Init
      PROVE  RxQueue!Init /\ TxQueue!Init
  <2>1. /\ Holds(rx, ENET_RXBD_NUM, rxBdCurrent, macRx, 0)
        /\ Holds(tx, ENET_TXBD_NUM, macTx, txBdCurrent, 0)
    BY <1>1 DEF Init, Holds, Place
  <2>2. {rxBdCurrent, macRx} \subseteq 0 .. ENET_RXBD_NUM - 1
    BY <1>1 DEF Init
  <2>3. {txBdCurrent, macTx} \subseteq 0 .. ENET_TXBD_NUM - 1
    BY <1>1 DEF Init
  <2>4. Queued(rx, ENET_RXBD_NUM, rxBdCurrent) = <<>>
    BY <2>1, <2>2, QueuedFrames
  <2>5. Queued(tx, ENET_TXBD_NUM, macTx) = <<>>
    BY <2>1, <2>3, QueuedFrames
  <2> QED
    BY <2>4, <2>5 DEF RxQueue!Init, TxQueue!Init
<1>2. ASSUME Inv, [Next]_vars
      PROVE  [RxQueue!Next]_(Queued(rx, ENET_RXBD_NUM, rxBdCurrent))
  <2>0. /\ rxBdCurrent \in 0 .. ENET_RXBD_NUM - 1 /\ macRx \in 0 .. ENET_RXBD_NUM - 1
        /\ rx \in [0 .. ENET_RXBD_NUM - 1 -> RxFrames \union {Empty}]
        /\ RingInv(rx, ENET_RXBD_NUM, rxBdCurrent, macRx)
    BY <1>2 DEF Inv, TypeOK
  <2>1. CASE RxPut
    <3>1. PICK f \in RxFrames : rx' = [rx EXCEPT ![macRx] = f]
      BY <2>1 DEF RxPut
    <3>2. f # Empty
      BY FramesAssumption DEF RxFrames
    <3>3. Puts(Queued(rx, ENET_RXBD_NUM, rxBdCurrent), Queued(rx', ENET_RXBD_NUM, rxBdCurrent), ENET_RXBD_NUM, f)
      <4>1. rx[macRx] = Empty
        BY <2>1 DEF RxPut
      <4> QED
        BY <2>0, <3>1, <3>2, <4>1, PutAppends
    <3>4. RxQueue!Put(f)
      BY <2>1, <3>1, <3>3 DEF RxPut, RxQueue!Put, Puts
    <3> QED
      BY <3>4 DEF RxQueue!Next
  <2>2. CASE RxGet
    <3>1. /\ Queued(rx, ENET_RXBD_NUM, rxBdCurrent) # <<>>
          /\ Queued([rx EXCEPT ![rxBdCurrent] = Empty], ENET_RXBD_NUM, (rxBdCurrent + 1) % ENET_RXBD_NUM) =
               Tail(Queued(rx, ENET_RXBD_NUM, rxBdCurrent))
      <4>1. rx[rxBdCurrent] # Empty
        BY <2>2 DEF RxGet
      <4> QED
        BY <2>0, <4>1, Sizes, GetRemoves, ZenonT(60)
    <3> QED
      BY <2>2, <3>1 DEF RxGet, RxQueue!Get, RxQueue!Next
  <2>3. CASE UNCHANGED <<rx, rxBdCurrent, macRx>>
    BY <2>3
  <2> QED
    BY <1>2, <2>1, <2>2, <2>3, RxSteps
<1>3. ASSUME Inv, [Next]_vars
      PROVE  [TxQueue!Next]_(Queued(tx, ENET_TXBD_NUM, macTx))
  <2>0. /\ macTx \in 0 .. ENET_TXBD_NUM - 1 /\ txBdCurrent \in 0 .. ENET_TXBD_NUM - 1
        /\ tx \in [0 .. ENET_TXBD_NUM - 1 -> Sent \union {Empty}]
        /\ RingInv(tx, ENET_TXBD_NUM, macTx, txBdCurrent)
    BY <1>3 DEF Inv, TypeOK
  <2>1. CASE TxPut
    <3>1. PICK f \in Sent : tx' = [tx EXCEPT ![txBdCurrent] = f]
      BY <2>1 DEF TxPut
    <3>2. f # Empty
      BY FramesAssumption
    <3>3. Puts(Queued(tx, ENET_TXBD_NUM, macTx), Queued(tx', ENET_TXBD_NUM, macTx), ENET_TXBD_NUM, f)
      <4>1. tx[txBdCurrent] = Empty
        BY <2>1 DEF TxPut
      <4> QED
        BY <2>0, <3>1, <3>2, <4>1, PutAppends
    <3>4. TxQueue!Put(f)
      BY <2>1, <3>1, <3>3 DEF TxPut, TxQueue!Put, Puts
    <3> QED
      BY <3>4 DEF TxQueue!Next
  <2>2. CASE TxGet
    <3>1. /\ Queued(tx, ENET_TXBD_NUM, macTx) # <<>>
          /\ Queued([tx EXCEPT ![macTx] = Empty], ENET_TXBD_NUM, (macTx + 1) % ENET_TXBD_NUM) =
               Tail(Queued(tx, ENET_TXBD_NUM, macTx))
      <4>1. tx[macTx] # Empty
        BY <2>2 DEF TxGet
      <4> QED
        BY <2>0, <4>1, Sizes, GetRemoves, ZenonT(60)
    <3> QED
      BY <2>2, <3>1 DEF TxGet, TxQueue!Get, TxQueue!Next
  <2>3. CASE UNCHANGED <<tx, txBdCurrent, macTx>>
    BY <2>3
  <2> QED
    BY <1>3, <2>1, <2>2, <2>3, TxSteps
<1> QED
  BY <1>1, <1>2, <1>3, Invariance, PTL DEF Spec, RingsAreQueues, RxQueue!Spec, TxQueue!Spec
=============================================================================

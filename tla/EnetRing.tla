------------------------------ MODULE EnetRing ------------------------------
(***************************************************************************)
(* The Ethernet port (lwip/port) and the part of drivers/fsl_enet.c it     *)
(* uses: two rings of descriptors, each shared by the MAC and the one      *)
(* thread of the clock without any lock.  A descriptor belongs to the MAC  *)
(* or to the thread by one of its bits; each side follows the ring with a  *)
(* pointer of its own.  The MAC stops at a descriptor which is not its own *)
(* and looks at the ring again when the thread writes RDAR or TDAR.        *)
(*                                                                         *)
(* A frame takes one descriptor: its buffers hold the longest frame.       *)
(***************************************************************************)
EXTENDS Integers, FiniteSets

CONSTANTS
  ENET_RXBD_NUM,
  ENET_TXBD_NUM,
  ENET_TIMEOUT,     \* attempts of enet_send_frame
  PBUF_POOL_SIZE,
  Received,         \* frames from the network ...
  Damaged,          \* ... and one that arrives with an error
  Sent,             \* frames of the stack
  Empty             \* the descriptor holds no frame: EMPTY set, READY clear

ASSUME RingAssumption ==
  {ENET_RXBD_NUM, ENET_TXBD_NUM, ENET_TIMEOUT, PBUF_POOL_SIZE} \subseteq Nat \ {0}
ASSUME FramesAssumption == Empty \notin Received \union {Damaged} \union Sent

VARIABLES
  rx,              \* the receive descriptors: Empty, or a frame
  rxBdCurrent,     \* the next one the thread reads
  macRx,           \* the next one the MAC fills
  rdar,            \* the MAC looks for empty descriptors
  tx,              \* the transmit descriptors: Empty, or the frame to send
  txBdCurrent,
  macTx,
  tdar,            \* the MAC looks for descriptors to send
  pc,              \* where the thread is
  p,               \* the pbuf of linkinput: the frame read, or Empty for none
  frame,           \* the frame linkoutput is called with
  counter,         \* attempts left of enet_send_frame
  held             \* pbufs of the pool which the stack keeps

rxVars == <<rx, rxBdCurrent, macRx, rdar>>
txVars == <<tx, txBdCurrent, macTx, tdar>>
sendVars == <<frame, counter>>
vars == <<rxVars, txVars, pc, p, sendVars, held>>

RxFrames == Received \union {Damaged}

TypeOK ==
  /\ rx \in [0 .. ENET_RXBD_NUM - 1 -> RxFrames \union {Empty}]
  /\ {rxBdCurrent, macRx} \subseteq 0 .. ENET_RXBD_NUM - 1
  /\ tx \in [0 .. ENET_TXBD_NUM - 1 -> Sent \union {Empty}]
  /\ {txBdCurrent, macTx} \subseteq 0 .. ENET_TXBD_NUM - 1
  /\ {rdar, tdar} \subseteq BOOLEAN
  /\ pc \in {"work", "linkinput", "read", "drop", "active read", "input", "send", "active send"}
  /\ p \in Received \union {Empty}
  /\ frame \in Sent \union {Empty}
  /\ counter \in 0 .. ENET_TIMEOUT
  /\ held \in 0 .. PBUF_POOL_SIZE
  /\ p # Empty => held < PBUF_POOL_SIZE

Init ==
  /\ rx = [i \in 0 .. ENET_RXBD_NUM - 1 |-> Empty]
  /\ tx = [i \in 0 .. ENET_TXBD_NUM - 1 |-> Empty]
  /\ rxBdCurrent = 0 /\ macRx = 0 /\ rdar = TRUE
  /\ txBdCurrent = 0 /\ macTx = 0 /\ tdar = FALSE
  /\ pc = "work" /\ p = Empty /\ frame = Empty /\ counter = 0 /\ held = 0
-----------------------------------------------------------------------------
(* The MAC                                                                  *)

\* A frame arrives, with or without an error.  The MAC discards frames that
\* arrive while it does not look at the ring.
MacReceive ==
  /\ rdar
  /\ rx[macRx] = Empty
  /\ \E f \in RxFrames : rx' = [rx EXCEPT ![macRx] = f]
  /\ macRx' = (macRx + 1) % ENET_RXBD_NUM
  /\ UNCHANGED <<rxBdCurrent, rdar, txVars, pc, p, sendVars, held>>

MacRxStops ==
  /\ rdar /\ rx[macRx] # Empty
  /\ rdar' = FALSE
  /\ UNCHANGED <<rx, rxBdCurrent, macRx, txVars, pc, p, sendVars, held>>

MacTransmit ==
  /\ tdar
  /\ tx[macTx] # Empty
  /\ tx' = [tx EXCEPT ![macTx] = Empty]
  /\ macTx' = (macTx + 1) % ENET_TXBD_NUM
  /\ UNCHANGED <<rxVars, txBdCurrent, tdar, pc, p, sendVars, held>>

MacTxStops ==
  /\ tdar /\ tx[macTx] = Empty
  /\ tdar' = FALSE
  /\ UNCHANGED <<rxVars, tx, txBdCurrent, macTx, pc, p, sendVars, held>>
-----------------------------------------------------------------------------
(* Input: ethernetif_input() calls linkinput until it returns NULL          *)

Goto(place) == pc' = place

\* The rest of a round of the main loop, in which the stack may free pbufs.
Poll ==
  /\ pc = "work"
  /\ Goto("linkinput")
  /\ held' \in 0 .. held
  /\ UNCHANGED <<rxVars, txVars, p, sendVars>>

\* Mutant of ethernetif_linkinput: pbuf_alloc is taken never to fail.
linkinput_unchecked ==
  /\ pc = "linkinput"
  /\ \/ rx[rxBdCurrent] = Empty /\ Goto("work")
     \/ rx[rxBdCurrent] # Empty /\ Goto(IF rx[rxBdCurrent] = Damaged THEN "drop" ELSE "read")
  /\ UNCHANGED <<rxVars, txVars, p, sendVars, held>>

\* No frame: linkinput returns NULL.  Else the frame's size, 0 for one with an
\* error, tells whether a pbuf is allocated for it, and the pool whether it gets one.
ethernetif_linkinput ==
  /\ pc = "linkinput"
  /\ \/ rx[rxBdCurrent] = Empty /\ Goto("work")
     \/ /\ rx[rxBdCurrent] # Empty
        /\ Goto(IF rx[rxBdCurrent] # Damaged /\ held < PBUF_POOL_SIZE THEN "read" ELSE "drop")
  /\ UNCHANGED <<rxVars, txVars, p, sendVars, held>>

ENET_UpdateReadBuffers ==
  /\ rx' = [rx EXCEPT ![rxBdCurrent] = Empty]
  /\ rxBdCurrent' = (rxBdCurrent + 1) % ENET_RXBD_NUM
  /\ UNCHANGED <<macRx, rdar>>

\* Mutant of ENET_ReadFrame: only a frame that is copied moves rxBdCurrent on.
ENET_ReadFrameStays ==
  /\ pc \in {"read", "drop"}
  /\ IF pc = "read"
     THEN p' = rx[rxBdCurrent] /\ ENET_UpdateReadBuffers
     ELSE rx' = [rx EXCEPT ![rxBdCurrent] = Empty] /\ UNCHANGED <<rxBdCurrent, macRx, rdar, p>>
  /\ Goto("active read")
  /\ UNCHANGED <<txVars, sendVars, held>>

\* The frame is copied into the pbuf, or dropped; the descriptor is the MAC's again.
ENET_ReadFrame ==
  /\ pc \in {"read", "drop"}
  /\ IF pc = "read" THEN p' = rx[rxBdCurrent] ELSE UNCHANGED p
  /\ ENET_UpdateReadBuffers
  /\ Goto("active read")
  /\ UNCHANGED <<txVars, sendVars, held>>

\* Mutant of ENET_ActiveRead: RDAR is not written.
ENET_ActiveReadQuiet ==
  /\ pc = "active read"
  /\ Goto(IF p = Empty THEN "work" ELSE "input")
  /\ UNCHANGED <<rxVars, txVars, p, sendVars, held>>

\* Without a pbuf linkinput has nothing to return, and the poll ends although
\* more frames may wait.
ENET_ActiveRead ==
  /\ pc = "active read"
  /\ rdar' = TRUE
  /\ Goto(IF p = Empty THEN "work" ELSE "input")
  /\ UNCHANGED <<rx, rxBdCurrent, macRx, txVars, p, sendVars, held>>

\* netif->input() frees the pbuf or keeps it.
Input ==
  /\ pc = "input"
  /\ p' = Empty
  /\ held' \in {held, held + 1}
  /\ Goto("linkinput")
  /\ UNCHANGED <<rxVars, txVars, sendVars>>
-----------------------------------------------------------------------------
(* Output: the stack sends while it handles a frame, or from a timer        *)

ethernetif_linkoutput ==
  /\ pc \in {"work", "input"} /\ frame = Empty
  /\ frame' \in Sent
  /\ counter' = ENET_TIMEOUT
  /\ Goto("send")
  /\ UNCHANGED <<rxVars, txVars, p, held>>

\* Back in the stack, with ERR_OK or ERR_TIMEOUT: the same round goes on.
Return == Goto(IF p = Empty THEN "linkinput" ELSE "input") /\ frame' = Empty /\ counter' = 0

\* Mutant of ENET_SendFrame: the pointer moves on before the descriptor is used, as
\* in the branch for frames of several buffers.
ENET_SendFrameAdvanced ==
  LET next == (txBdCurrent + 1) % ENET_TXBD_NUM
  IN /\ pc = "send"
     /\ tx[next] = Empty
     /\ tx' = [tx EXCEPT ![next] = frame]
     /\ txBdCurrent' = next
     /\ Goto("active send")
     /\ UNCHANGED <<rxVars, macTx, tdar, p, sendVars, held>>

\* Mutant of ENET_SendFrame: READY is not looked at.
ENET_SendFrameAnyway ==
  /\ pc = "send"
  /\ tx' = [tx EXCEPT ![txBdCurrent] = frame]
  /\ txBdCurrent' = (txBdCurrent + 1) % ENET_TXBD_NUM
  /\ Goto("active send")
  /\ UNCHANGED <<rxVars, macTx, tdar, p, sendVars, held>>

ENET_SendFrame ==
  /\ pc = "send"
  /\ tx[txBdCurrent] = Empty
  /\ tx' = [tx EXCEPT ![txBdCurrent] = frame]
  /\ txBdCurrent' = (txBdCurrent + 1) % ENET_TXBD_NUM
  /\ Goto("active send")
  /\ UNCHANGED <<rxVars, macTx, tdar, p, sendVars, held>>

ENET_ActiveSend ==
  /\ pc = "active send"
  /\ tdar' = TRUE
  /\ Return
  /\ UNCHANGED <<rxVars, tx, txBdCurrent, macTx, p, held>>

\* kStatus_ENET_TxFrameBusy: try again, or give the frame up.
enet_send_frame ==
  /\ pc = "send"
  /\ tx[txBdCurrent] # Empty
  /\ IF counter = 1 THEN Return ELSE counter' = counter - 1 /\ UNCHANGED <<pc, frame>>
  /\ UNCHANGED <<rxVars, txVars, p, held>>
-----------------------------------------------------------------------------
Thread ==
  \/ Poll \/ ethernetif_linkinput \/ ENET_ReadFrame \/ ENET_ActiveRead \/ Input
  \/ ethernetif_linkoutput \/ ENET_SendFrame \/ ENET_ActiveSend \/ enet_send_frame

Mac == MacReceive \/ MacRxStops \/ MacTransmit \/ MacTxStops

Next == Thread \/ Mac

Spec == Init /\ [][Next]_vars

\* The main loop polls in every round; the stack answers a frame with a limited
\* number of frames, then frees or keeps it; the MAC sends what it is given.
Fairness == WF_vars(Thread) /\ SF_vars(Input) /\ WF_vars(MacTransmit)

FairSpec == Spec /\ Fairness
-----------------------------------------------------------------------------
(* Properties                                                               *)

\* The bits in the descriptors and the two pairs of pointers never disagree: a
\* poll ends with an empty ring or after a dropped frame, the MAC stops receiving
\* only when every descriptor waits for the thread, linkoutput finds the ring busy
\* only when all of it waits for the MAC, and the MAC goes idle only with nothing
\* to send.
EndsMeet ==
  /\ rx[rxBdCurrent] = Empty => \A i \in DOMAIN rx : rx[i] = Empty
  /\ rx[macRx] # Empty => \A i \in DOMAIN rx : rx[i] # Empty
  /\ tx[txBdCurrent] # Empty => \A i \in DOMAIN tx : tx[i] # Empty
  /\ tx[macTx] = Empty => \A i \in DOMAIN tx : tx[i] = Empty

\* The frames of a ring of n descriptors, from the end at which they are taken.
Queued(ring, n, first) ==
  LET At(k) == ring[(first + k - 1) % n]
  IN [k \in 1 .. Cardinality({m \in 1 .. n : \A k \in 1 .. m : At(k) # Empty}) |-> At(k)]

RxQueue == INSTANCE FrameQueue WITH
  Frames <- RxFrames, Capacity <- ENET_RXBD_NUM, queue <- Queued(rx, ENET_RXBD_NUM, rxBdCurrent)
TxQueue == INSTANCE FrameQueue WITH
  Frames <- Sent, Capacity <- ENET_TXBD_NUM, queue <- Queued(tx, ENET_TXBD_NUM, macTx)

\* Without a lock each ring is a queue: linkinput reads every frame the MAC stored
\* once, in the order of arrival, and none which the MAC overwrites; the MAC sends
\* every frame linkoutput stored once, in the order of the calls.
RingsAreQueues == RxQueue!Spec /\ TxQueue!Spec

\* Every frame leaves its ring, though a poll stops at a frame it drops; and a MAC
\* that stopped at a full ring is always set to work again.
RingsDrain ==
  /\ \A i \in 0 .. ENET_RXBD_NUM - 1 : rx[i] # Empty ~> rx[i] = Empty
  /\ \A i \in 0 .. ENET_TXBD_NUM - 1 : tx[i] # Empty ~> tx[i] = Empty
  /\ ~ rdar ~> rdar
=============================================================================

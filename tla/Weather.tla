------------------------------- MODULE Weather -------------------------------
(***************************************************************************)
(* The weather requests of main_epaper_clock.c on lwIP's raw TCP: resolve  *)
(* the server's name, allocate a control block, connect, write the request *)
(* and parse what arrives; the peer closes.                                *)
(*                                                                         *)
(* The program looks at no result of tcp_new, tcp_connect or tcp_write and *)
(* keeps no list of its connections: every request has a control block of  *)
(* its own, out of a pool of fixed size, and only the callbacks give it    *)
(* back.  The control blocks are those of lwip/src/core/tcp.c as far as    *)
(* these callers can tell.                                                 *)
(*                                                                         *)
(* Time is counted in minutes: updateData asks once in each.               *)
(***************************************************************************)
EXTENDS Integers, Sequences, SequencesExt, FiniteSets

CONSTANTS
  Pcbs,          \* MEMP_NUM_TCP_PCB control blocks
  Lifetime,      \* minutes the network lets a connection last
  MaxFailures,   \* how often tcp_connect fails
  Contents,      \* the weathers a response can tell
  NoWeather,     \* the strings at boot
  Segments       \* what arrives in one call: [ok, content, keys]

\* The keys in the order the server writes them.
Keys == <<"description", "icon", "temp">>

ASSUME PoolAssumption == IsFiniteSet(Pcbs) /\ {Lifetime, MaxFailures} \subseteq Nat
ASSUME SegmentsAssumption ==
  /\ NoWeather \notin Contents
  /\ Segments \subseteq [ok : BOOLEAN, content : Contents, keys : Seq(ToSet(Keys))]

VARIABLES
  pcb,        \* the control blocks
  due,        \* requests updateData and main make before the minute is over
  dns,        \* pending calls of dns_callback
  route,      \* the interface has an address
  peer,       \* the address last connected to: "resolved" by DNS or "garbage"
  weather,    \* weather_str, icon_str and temperature_str
  failures,   \* failed calls of tcp_connect
  whole       \* every response parsed so far came in one piece

netVars == <<route, peer, failures>>
weatherVars == <<weather, whole>>
vars == <<pcb, due, dns, netVars, weatherVars>>

\* CLOSED is a block that is allocated and in no list; CLOSE_PENDING is
\* CLOSE_WAIT with TF_CLOSEPEND.
Connected == {"SYN_SENT", "ESTABLISHED", "CLOSE_WAIT", "CLOSE_PENDING", "LAST_ACK"}
States == {"free", "CLOSED"} \union Connected

Free == [state |-> "free", asked |-> FALSE, got |-> FALSE, age |-> 0]

TypeOK ==
  /\ pcb \in [Pcbs -> [state : States, asked : BOOLEAN, got : BOOLEAN, age : 0 .. Lifetime]]
  /\ due \in 0 .. 2
  /\ dns \in 0 .. 2
  /\ route \in BOOLEAN
  /\ peer \in {"none", "resolved", "garbage"}
  /\ weather \in [ToSet(Keys) -> Contents \union {NoWeather}]
  /\ failures \in 0 .. MaxFailures
  /\ whole \in BOOLEAN

In(states) == {p \in Pcbs : pcb[p].state \in states}

-----------------------------------------------------------------------------
\* The boot asks, and the clock may start in second 30 of a minute.
Init ==
  /\ pcb = [p \in Pcbs |-> Free]
  /\ due = 2
  /\ dns = 0
  /\ route = TRUE
  /\ peer = "none"
  /\ weather = [k \in ToSet(Keys) |-> NoWeather]
  /\ failures = 0
  /\ whole = TRUE

\* tcp_alloc takes a free block, or else sends what FINs are pending and can
\* be sent, and kills a connection in LAST_ACK.
Available == IF In({"free"}) # {} THEN In({"free"}) ELSE In({"LAST_ACK"})

AllocPending == IF In({"free"}) # {} THEN {} ELSE In({"CLOSE_PENDING"})

\* tcp_new, tcp_connect and tcp_write, whose failures go unnoticed: without
\* a block weather_pcb is NULL and each call returns ERR_ARG; after a failed
\* tcp_connect the block stays CLOSED; after a failed tcp_write the connection
\* is made and nothing asked.
tcp_get_weather_update(ip) ==
  \E sent \in SUBSET AllocPending :
    LET pool == [p \in Pcbs |-> IF p \in sent THEN [pcb[p] EXCEPT !.state = "LAST_ACK"]
                                              ELSE pcb[p]]
        candidates == IF Available # {} THEN Available ELSE sent
    IN \/ /\ candidates = {}
          /\ pcb' = pool
          /\ UNCHANGED <<peer, failures>>
       \/ \E p \in candidates, written \in BOOLEAN :
            /\ route
            /\ pcb' = [pool EXCEPT ![p] = [Free EXCEPT !.state = "SYN_SENT",
                                                       !.asked = written]]
            /\ peer' = ip
            /\ UNCHANGED failures
       \/ \E p \in candidates :     \* no route, or no memory for the SYN
            /\ failures < MaxFailures
            /\ pcb' = [pool EXCEPT ![p] = [Free EXCEPT !.state = "CLOSED"]]
            /\ failures' = failures + 1
            /\ UNCHANGED peer

\* The name is in the DNS cache, or is asked for, or DNS has no room.
dns_send_http_request ==
  /\ due > 0
  /\ due' = due - 1
  /\ \/ tcp_get_weather_update("resolved") /\ UNCHANGED dns
     \/ dns' = dns + 1 /\ UNCHANGED <<pcb, peer, failures>>
     \/ UNCHANGED <<pcb, dns, peer, failures>>
  /\ UNCHANGED <<route, weatherVars>>

\* The callback reads the address through its argument also when that is NULL
\* because the name was not resolved.
dns_callback ==
  /\ dns > 0
  /\ dns' = dns - 1
  /\ \E ip \in {"resolved", "garbage"} : tcp_get_weather_update(ip)
  /\ UNCHANGED <<due, route, weatherVars>>

-----------------------------------------------------------------------------
(* The network                                                              *)

Becomes(p, block) ==
  /\ pcb' = [pcb EXCEPT ![p] = block]
  /\ UNCHANGED <<due, dns, netVars>>

\* connectCallback does nothing.
SynAck(p) ==
  /\ pcb[p].state = "SYN_SENT"
  /\ Becomes(p, [pcb[p] EXCEPT !.state = "ESTABLISHED"])
  /\ UNCHANGED weatherVars

\* strtok ends the text behind the value it has found.
Cut(keys, k) ==
  IF k \in ToSet(keys)
  THEN SubSeq(keys, 1, CHOOSE i \in DOMAIN keys : keys[i] = k)
  ELSE keys

\* Mutant of Parsed: the blocks are in the order of the text.
ParsedRearranged(keys) ==
  LET forIcon == Cut(keys, "description")
      forTemp == Cut(forIcon, "icon")
  IN {k \in {"description"} : k \in ToSet(keys)}
       \union {k \in {"icon"} : k \in ToSet(forIcon)}
       \union {k \in {"temp"} : k \in ToSet(forTemp)}

\* The three searches of tcpRecvCallback, each in the text the last one left.
Parsed(keys) ==
  LET forIcon == Cut(keys, "temp")
      forDescription == Cut(forIcon, "icon")
  IN {k \in {"temp"} : k \in ToSet(keys)}
       \union {k \in {"icon"} : k \in ToSet(forIcon)}
       \union {k \in {"description"} : k \in ToSet(forDescription)}

\* tcpRecvCallback with data.  What does not begin with a status of 200 is
\* dropped; tcp_recved is never called, so the receive window shrinks.
Receive(p, seg) ==
  /\ pcb[p].state = "ESTABLISHED"
  /\ pcb[p].asked
  /\ Becomes(p, [pcb[p] EXCEPT !.got = TRUE])
  /\ IF seg.ok
     THEN /\ weather' = [k \in ToSet(Keys) |-> IF k \in Parsed(seg.keys) THEN seg.content
                                               ELSE weather[k]]
          /\ whole' = (whole /\ seg.keys = Keys)
     ELSE UNCHANGED weatherVars

\* Mutants of Fin: tcpRecvCallback does not call tcp_close; and the program
\* closes first, which leads to states nothing here expects.
FinUnclosed(p) ==
  /\ pcb[p].state = "ESTABLISHED"
  /\ Becomes(p, [pcb[p] EXCEPT !.state = "CLOSE_WAIT"])
  /\ UNCHANGED weatherVars

FinFirst(p) ==
  /\ pcb[p].state = "ESTABLISHED"
  /\ Becomes(p, [pcb[p] EXCEPT !.state = "FIN_WAIT_1"])
  /\ UNCHANGED weatherVars

\* The peer closes: tcpRecvCallback without data calls tcp_close.  With data
\* unaccounted for that resets the connection and frees the block, otherwise
\* it sends a FIN, at once or when there is memory for it.
Fin(p) ==
  /\ pcb[p].state = "ESTABLISHED"
  /\ IF pcb[p].got
     THEN Becomes(p, Free)
     ELSE \E s \in {"LAST_ACK", "CLOSE_PENDING"} : Becomes(p, [pcb[p] EXCEPT !.state = s])
  /\ UNCHANGED weatherVars

\* tcp_fasttmr: tcp_close_shutdown_fin succeeds at last.
ClosePending(p) ==
  /\ pcb[p].state = "CLOSE_PENDING"
  /\ Becomes(p, [pcb[p] EXCEPT !.state = "LAST_ACK"])
  /\ UNCHANGED weatherVars

\* The last ACK, a RST, or tcp_slowtmr gives up: the block is freed.
\* tcpErrorHandler only prints.
Gone(p) ==
  /\ pcb[p].state \in {"SYN_SENT", "ESTABLISHED", "CLOSE_PENDING", "LAST_ACK"}
  /\ Becomes(p, Free)
  /\ UNCHANGED weatherVars

\* DHCP loses the lease: tcp_netif_ip_addr_changed aborts the connections.
LoseAddress ==
  /\ route
  /\ route' = FALSE
  /\ pcb' = [p \in Pcbs |-> IF pcb[p].state \in Connected THEN Free ELSE pcb[p]]
  /\ UNCHANGED <<due, dns, peer, failures, weatherVars>>

GetAddress ==
  /\ ~route
  /\ route' = TRUE
  /\ UNCHANGED <<pcb, due, dns, peer, failures, weatherVars>>

\* A minute passes: by then DNS has answered or given up, and the peers and
\* tcp_slowtmr have ended the connections that have lasted for Lifetime.
Minute ==
  /\ due = 0 /\ dns = 0
  /\ \A p \in In(Connected \ {"CLOSE_WAIT"}) : pcb[p].age < Lifetime
  /\ due' = 1
  /\ pcb' = [p \in Pcbs |-> IF pcb[p].state \in Connected \ {"CLOSE_WAIT"}
                            THEN [pcb[p] EXCEPT !.age = @ + 1] ELSE pcb[p]]
  /\ UNCHANGED <<dns, netVars, weatherVars>>

Ends(p) == Fin(p) \/ Gone(p)

Next ==
  \/ dns_send_http_request
  \/ dns_callback
  \/ \E p \in Pcbs :
       \/ SynAck(p)
       \/ \E seg \in Segments : Receive(p, seg)
       \/ Fin(p)
       \/ ClosePending(p)
       \/ Gone(p)
  \/ LoseAddress
  \/ GetAddress
  \/ Minute

\* The server closes its connections, tcp_slowtmr ends the others.
Fairness ==
  \A p \in Pcbs :
    /\ WF_vars(Ends(p))
    /\ WF_vars(ClosePending(p))
    /\ WF_vars(pcb[p].state = "LAST_ACK" /\ Gone(p))

Spec == Init /\ [][Next]_vars /\ Fairness
-----------------------------------------------------------------------------
(* Properties                                                               *)

\* "calls tcp_new to create new pcb (VERY IMPORTANT)" (line 519): the pool
\* has a control block for every request that is due or waits for DNS.  The
\* program never frees a block itself but in tcpRecvCallback; what keeps the
\* pool from running dry is that connections end within Lifetime and failed
\* calls of tcp_connect, each of which loses a block for good, are few.
PcbForEveryRequest == Cardinality(In({"free", "LAST_ACK"})) >= due + dns

\* The same comment, when nothing bounds the failures: there is always a
\* control block tcp_new can hope for.
NewPcbStaysPossible == \E p \in Pcbs : pcb[p].state # "CLOSED"

\* "The following blocks of code must NOT be re-arranged, because strtok will
\* shorten the string as it works" (line 424): in the order they are in, the
\* three strings always come from one response, unless the network has split
\* a response in the middle of its values.
WeatherNotTorn ==
  whole => \A j, k \in ToSet(Keys) : weather[j] = weather[k]

\* Comment "Uses IP address returned by DNS" (line 515): no connection goes
\* to an address DNS has not returned.
ConnectsOnlyToResolved == peer # "garbage"

\* Every connection gives its control block back, whichever side ends it
\* and however the callbacks fail.
ConnectionsEnd == \A p \in Pcbs : pcb[p].state \in Connected ~> pcb[p].state = "free"
=============================================================================

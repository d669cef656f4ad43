---------------------------------- MODULE Dns ----------------------------------
(***************************************************************************)
(* lwip/src/core/dns.c: the resolver that SNTP and the weather requests    *)
(* share.  Three tables point at each other: entries (one query each),     *)
(* requests (who waits for an entry) and source ports; DHCP may change the *)
(* servers under a query.  Answers come from a network that loses, copies  *)
(* and delays them: whatever passes the checks of dns_recv may arrive at   *)
(* any time.                                                               *)
(***************************************************************************)
EXTENDS Integers, FiniteSets, FiniteSetsExt

CONSTANTS
  DNS_TABLE_SIZE,      \* also DNS_MAX_REQUESTS and DNS_MAX_SOURCE_PORTS
  DNS_MAX_SERVERS,
  DNS_MAX_RETRIES,
  DNS_MAX_TTL,
  SeqnoModulus,        \* 2^8
  Names,               \* host names
  Users,               \* callers of dns_gethostbyname
  Addresses,           \* addresses of servers
  NoServer,            \* IP_ADDR_ANY
  Ttls                 \* times to live in the answers

ASSUME TableAssumption ==
  /\ DNS_TABLE_SIZE \in Nat \ {0}
  /\ DNS_MAX_SERVERS \in Nat \ {0}
  /\ DNS_MAX_RETRIES \in Nat \ {0}
  /\ SeqnoModulus \in Nat \ {0}
ASSUME AnswerAssumption ==
  /\ NoServer \notin Addresses
  /\ DNS_MAX_TTL \in Nat
  /\ Ttls \subseteq Nat

VARIABLES
  dns_table,        \* the entries, with the fields that are alive in their state
  dns_requests,     \* [user, idx], or Free when `found' is NULL
  dns_pcbs,         \* which source ports are open
  dns_last_pcb_idx,
  dns_seqno,
  dns_servers,
  waiting           \* users not called back: what they asked for and since when

vars == <<dns_table, dns_requests, dns_pcbs, dns_last_pcb_idx, dns_seqno,
          dns_servers, waiting>>

Entries == 0 .. DNS_TABLE_SIZE - 1
Servers == 0 .. DNS_MAX_SERVERS - 1
Txids == 0 .. DNS_TABLE_SIZE - 1     \* enough for each query to have its own

Unused == [state |-> "UNUSED"]
Done(name, ttl, seqno) == [state |-> "DONE", name |-> name, ttl |-> ttl, seqno |-> seqno]
Free == [idx |-> -1]
NotWaiting == [since |-> -1]

\* The ticks until an entry gives up, with every server tried in turn.
PatiencePerServer == 1 + (DNS_MAX_RETRIES * (DNS_MAX_RETRIES - 1)) \div 2
Patience == DNS_MAX_SERVERS * PatiencePerServer

AskingEntry ==
  [state : {"ASKING"}, name : Names, txid : Txids, server_idx : Servers,
   tmr : 1 .. DNS_MAX_RETRIES, retries : 0 .. DNS_MAX_RETRIES - 1,
   pcb_idx : Entries, seqno : 0 .. SeqnoModulus - 1]
DoneEntry ==
  [state : {"DONE"}, name : Names, ttl : 1 .. DNS_MAX_TTL, seqno : 0 .. SeqnoModulus - 1]

TypeOK ==
  /\ dns_table \in [Entries -> {Unused} \union AskingEntry \union DoneEntry]
  /\ dns_requests \in [Entries -> {Free} \union [user : Users, idx : Entries]]
  /\ dns_pcbs \subseteq Entries
  /\ dns_last_pcb_idx \in Entries
  /\ dns_seqno \in 0 .. SeqnoModulus - 1
  /\ dns_servers \in [Servers -> Addresses \union {NoServer}]
  /\ waiting \in [Users -> {NotWaiting} \union [name : Names, since : Nat]]

IsAsking(t, i) == t[i].state = "ASKING"
IsDone(t, i) == t[i].state = "DONE"
-----------------------------------------------------------------------------
(* Asking: what becomes of one entry.  Unused also stands for a query that  *)
(* is given up: its users are told below.                                   *)

\* The query goes to the network, unless the server has been taken away.
dns_send(e) == IF dns_servers[e.server_idx] = NoServer THEN Unused ELSE e

dns_backupserver_available(e) ==
  /\ e.server_idx + 1 < DNS_MAX_SERVERS
  /\ dns_servers[e.server_idx + 1] # NoServer

\* Mutant of NextServer: the next server inherits the count of the one before.
NextServerCountingOn(e) == [e EXCEPT !.server_idx = @ + 1, !.tmr = 1, !.retries = @ + 1]

NextServer(e) == [e EXCEPT !.server_idx = @ + 1, !.tmr = 1, !.retries = 0]

\* Mutant of NextRetry: a retry waits a second longer.
NextRetrySlower(e) == [e EXCEPT !.retries = @ + 1, !.tmr = e.retries + 2]

NextRetry(e) == [e EXCEPT !.retries = @ + 1, !.tmr = e.retries + 1]

\* The timer of a query has run out: ask again, ask the next server, or give up.
Retry(e) ==
  IF e.retries + 1 # DNS_MAX_RETRIES THEN dns_send(NextRetry(e))
  ELSE IF dns_backupserver_available(e) THEN dns_send(NextServer(e))
  ELSE Unused

dns_check_entry(e) ==
  CASE e.state = "ASKING" -> IF e.tmr = 1 THEN Retry(e) ELSE [e EXCEPT !.tmr = @ - 1]
    [] e.state = "DONE" -> IF e.ttl = 1 THEN Unused ELSE [e EXCEPT !.ttl = @ - 1]
    [] OTHER -> e

\* With a time to live of 0 the entry is flushed after the callbacks.
dns_correct_response(e, ttl) ==
  LET kept == Min({ttl, DNS_MAX_TTL})
  IN IF kept = 0 THEN Unused ELSE Done(e.name, kept, e.seqno)
-----------------------------------------------------------------------------
(* Answering: the entries become t, the users who wait become w but for     *)
(* those who are called back.                                               *)

Over(t) == {i \in Entries : IsAsking(dns_table, i) /\ ~IsAsking(t, i)}

RequestsOf(i) == {r \in Entries : dns_requests[r].idx = i}

\* Mutant of Answered: one callback for an entry, as without duplicates.
AnsweredFirst(t) == {Min(RequestsOf(i)) : i \in Over(t)}

Answered(t) == {r \in Entries : dns_requests[r].idx \in Over(t)}

\* Mutant of PortsInUse: does not look who else uses the port.
PortsInUseAlways(t) == dns_pcbs \ {dns_table[i].pcb_idx : i \in Over(t)}

\* The port of a query that is over is closed unless another query uses it.
PortsInUse(t) ==
  dns_pcbs \ {dns_table[i].pcb_idx : i \in
                {j \in Over(t) : \A k \in Entries :
                   IsAsking(t, k) => t[k].pcb_idx # dns_table[j].pcb_idx}}

\* All who wait for a query that is over are called back.
dns_call_found(t, w) ==
  /\ dns_table' = t
  /\ dns_requests' = [r \in Entries |-> IF r \in Answered(t) THEN Free ELSE dns_requests[r]]
  /\ waiting' = [u \in Users |->
       IF \E r \in Answered(t) : dns_requests[r].user = u THEN NotWaiting ELSE w[u]]
  /\ dns_pcbs' = PortsInUse(t)
-----------------------------------------------------------------------------
(* Room for a query                                                         *)

\* An open port after the last one used, in the order of the ring.
OpenPortAfter(last) ==
  LET steps == {k \in 1 .. DNS_TABLE_SIZE : (last + k) % DNS_TABLE_SIZE \in dns_pcbs}
  IN (last + Min(steps)) % DNS_TABLE_SIZE

\* dns_alloc_pcb: the lowest closed port if UDP has a control block for it,
\* else one that is open already.
dns_alloc_pcb ==
  LET closed == Entries \ dns_pcbs
  IN (IF closed = {} THEN {} ELSE {Min(closed)})
     \union (IF dns_pcbs = {} THEN {} ELSE {OpenPortAfter(dns_last_pcb_idx)})

\* The first unused entry, else the oldest completed one; u8 arithmetic.
Age(i) == (dns_seqno - dns_table[i].seqno) % SeqnoModulus
Reusable ==
  LET unused == {i \in Entries : dns_table[i] = Unused}
      old == {i \in Entries : IsDone(dns_table, i) /\ Age(i) > 0}
  IN IF unused # {} THEN {Min(unused)}
     ELSE {i \in old : \A j \in old : Age(j) < Age(i) \/ (Age(j) = Age(i) /\ i <= j)}

FreeRequests == {r \in Entries : dns_requests[r] = Free}

dns_create_txid ==
  Txids \ {dns_table[j].txid : j \in {k \in Entries : IsAsking(dns_table, k)}}
-----------------------------------------------------------------------------
Init ==
  /\ dns_table = [i \in Entries |-> Unused]
  /\ dns_requests = [r \in Entries |-> Free]
  /\ dns_pcbs = {}
  /\ dns_last_pcb_idx = 0
  /\ dns_seqno = 0
  /\ dns_servers = [n \in Servers |-> NoServer]
  /\ waiting = [u \in Users |-> NotWaiting]

\* dns_setserver, called for each DNS server option of a DHCP acknowledgement.
dns_setserver(n, addr) ==
  /\ dns_servers[n] # addr
  /\ dns_servers' = [dns_servers EXCEPT ![n] = addr]
  /\ UNCHANGED <<dns_table, dns_requests, dns_pcbs, dns_last_pcb_idx, dns_seqno, waiting>>

QueriesFor(name) == {i \in Entries : IsAsking(dns_table, i) /\ dns_table[i].name = name}
Cached(name) == \E i \in Entries : IsDone(dns_table, i) /\ dns_table[i].name = name

\* dns_gethostbyname: a name in the cache and a resolver without servers are
\* answered at once and change nothing.
MayAsk(u, name) ==
  /\ waiting[u] = NotWaiting
  /\ ~Cached(name)
  /\ dns_servers[0] # NoServer

Waits(u, name, r, i) ==
  /\ waiting' = [waiting EXCEPT ![u] = [name |-> name, since |-> 0]]
  /\ dns_requests' = [dns_requests EXCEPT ![r] = [user |-> u, idx |-> i]]

\* dns_enqueue when the name is being asked for: the user waits for that entry.
Join(u, name) ==
  /\ MayAsk(u, name)
  /\ QueriesFor(name) # {}
  /\ FreeRequests # {}
  /\ Waits(u, name, Min(FreeRequests), Min(QueriesFor(name)))
  /\ UNCHANGED <<dns_table, dns_pcbs, dns_last_pcb_idx, dns_seqno, dns_servers>>

\* Full tables refuse the user with ERR_MEM and nothing else.
MayEnqueue(u, name) ==
  /\ MayAsk(u, name)
  /\ QueriesFor(name) = {}
  /\ FreeRequests # {}

\* Mutant of dns_enqueue: does not look for a query under way.
dns_enqueue_always(u, name) ==
  /\ MayAsk(u, name)
  /\ FreeRequests # {}
  /\ \E i \in Reusable, p \in dns_alloc_pcb, x \in dns_create_txid :
       /\ dns_table' = [dns_table EXCEPT ![i] =
            [state |-> "ASKING", name |-> name, txid |-> x, server_idx |-> 0,
             tmr |-> 1, retries |-> 0, pcb_idx |-> p, seqno |-> dns_seqno]]
       /\ Waits(u, name, Min(FreeRequests), i)
       /\ dns_pcbs' = dns_pcbs \union {p}
       /\ dns_last_pcb_idx' = p
  /\ dns_seqno' = (dns_seqno + 1) % SeqnoModulus
  /\ UNCHANGED dns_servers

\* dns_enqueue with the query that dns_check_entry sends at once.
dns_enqueue(u, name) ==
  /\ MayEnqueue(u, name)
  /\ \E i \in Reusable, p \in dns_alloc_pcb, x \in dns_create_txid :
       /\ dns_table' = [dns_table EXCEPT ![i] =
            [state |-> "ASKING", name |-> name, txid |-> x, server_idx |-> 0,
             tmr |-> 1, retries |-> 0, pcb_idx |-> p, seqno |-> dns_seqno]]
       /\ Waits(u, name, Min(FreeRequests), i)
       /\ dns_pcbs' = dns_pcbs \union {p}
       /\ dns_last_pcb_idx' = p
  /\ dns_seqno' = (dns_seqno + 1) % SeqnoModulus
  /\ UNCHANGED dns_servers

\* No port is open and UDP has no control block: the entry, which may have been
\* a completed one, is given back.
EnqueueWithoutPort(u, name) ==
  /\ MayEnqueue(u, name)
  /\ dns_pcbs = {}
  /\ \E i \in Reusable : dns_table' = [dns_table EXCEPT ![i] = Unused]
  /\ UNCHANGED <<dns_requests, dns_pcbs, dns_last_pcb_idx, dns_seqno, dns_servers, waiting>>

\* Once a second every entry is checked.  They meet in a shared port only, which
\* the last query to end closes, so the order of the entries does not show.
dns_tmr ==
  /\ dns_call_found([i \in Entries |-> dns_check_entry(dns_table[i])],
                    [u \in Users |-> IF waiting[u] = NotWaiting THEN NotWaiting
                                     ELSE [waiting[u] EXCEPT !.since = @ + 1]])
  /\ UNCHANGED <<dns_last_pcb_idx, dns_seqno, dns_servers>>

\* An answer finds the first query with its id; source address and name match.
Matched(i) ==
  /\ IsAsking(dns_table, i)
  /\ dns_servers[dns_table[i].server_idx] # NoServer
  /\ \A j \in 0 .. i - 1 : IsAsking(dns_table, j) => dns_table[j].txid # dns_table[i].txid

EntryBecomes(i, e) ==
  /\ dns_call_found([dns_table EXCEPT ![i] = e], waiting)
  /\ UNCHANGED <<dns_last_pcb_idx, dns_seqno, dns_servers>>

dns_recv_address(i, ttl) ==
  /\ Matched(i)
  /\ EntryBecomes(i, dns_correct_response(dns_table[i], ttl))

\* The server reports an error: the next one is asked without waiting.
Hurried(e) == [e EXCEPT !.retries = DNS_MAX_RETRIES - 1, !.tmr = 1]
dns_recv_error(i) ==
  /\ Matched(i)
  /\ EntryBecomes(i, IF dns_backupserver_available(dns_table[i])
                     THEN dns_check_entry(Hurried(dns_table[i])) ELSE Unused)

\* A correct answer without an address.
dns_recv_empty(i) ==
  /\ Matched(i)
  /\ EntryBecomes(i, Unused)

dns_recv ==
  \E i \in Entries :
    \/ \E ttl \in Ttls : dns_recv_address(i, ttl)
    \/ dns_recv_error(i)
    \/ dns_recv_empty(i)

dns_gethostbyname(u, name) ==
  Join(u, name) \/ dns_enqueue(u, name) \/ EnqueueWithoutPort(u, name)

Next ==
  \/ \E n \in Servers, addr \in Addresses \union {NoServer} : dns_setserver(n, addr)
  \/ \E u \in Users, name \in Names : dns_gethostbyname(u, name)
  \/ dns_tmr
  \/ dns_recv

Spec == Init /\ [][Next]_vars
-----------------------------------------------------------------------------
(* Properties                                                               *)

\* A user who waits has exactly one request, the request points to a query for
\* the name asked, and every query has someone who waits: no callback is lost,
\* made twice or made with the answer to another question, though users join
\* queries, entries are reused and callbacks are made from four places.
EveryWaiterHasOneRequest ==
  /\ \A u \in Users :
       LET mine == {r \in Entries : dns_requests[r] # Free /\ dns_requests[r].user = u}
       IN Cardinality(mine) = IF waiting[u] = NotWaiting THEN 0 ELSE 1
  /\ \A r \in Entries : dns_requests[r] # Free =>
       LET q == dns_requests[r]
       IN IsAsking(dns_table, q.idx) /\ dns_table[q.idx].name = waiting[q.user].name
  /\ \A i \in Entries : IsAsking(dns_table, i) => RequestsOf(i) # {}

\* A source port is open exactly while a query uses it, also when queries share
\* one because UDP has run out of control blocks: neither a port that stays open
\* until the six of MEMP_NUM_UDP_PCB are gone nor a query sent through a port
\* that an older query has closed (lines 976-994).
PortsOpenWhileUsed ==
  dns_pcbs = {dns_table[i].pcb_idx : i \in {j \in Entries : IsAsking(dns_table, j)}}

\* A name is never twice in the table and two queries never share an id: an
\* answer reaches its query, a name is cached once.
OneEntryPerName ==
  \A i, j \in Entries : i # j /\ dns_table[i] # Unused /\ dns_table[j] # Unused =>
    /\ dns_table[i].name # dns_table[j].name
    /\ IsAsking(dns_table, i) /\ IsAsking(dns_table, j) =>
         dns_table[i].txid # dns_table[j].txid

\* Whatever the servers do, and whatever DHCP does to their addresses, a user is
\* called back within the patience for all servers: 2 * 7 seconds, before the
\* receive timeout of SNTP (15 s) and the next weather request (60 s).
AnsweredInTime ==
  \A u \in Users : waiting[u] # NotWaiting => waiting[u].since < Patience
=============================================================================

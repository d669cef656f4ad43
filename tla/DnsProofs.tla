------------------------------- MODULE DnsProofs -------------------------------
(***************************************************************************)
(* Proofs about Dns, for every size of the tables, every number of servers *)
(* and of retries, and all names, users, addresses and times to live.      *)
(***************************************************************************)
EXTENDS Dns, FiniteSetTheorems, TLAPS

-----------------------------------------------------------------------------
(* Numbers                                                                  *)

\* A set of numbers has a least one: for n in the set, the intervals 1 .. n are
\* finite sets, and strict inclusion of finite sets is well-founded.
LEMMA LeastNat ==
  ASSUME NEW T, T \subseteq Nat, T # {}
  PROVE  Min(T) \in T /\ \A y \in T : Min(T) <= y
<1> DEFINE U == {1 .. n : n \in T}
           R == StrictSubsetOrdering(Nat)
<1>1. U \subseteq FiniteSubsetsOf(Nat)
  <2>1. \A n \in T : IsFiniteSet(1 .. n)
    BY FS_Interval
  <2>2. \A n \in T : 1 .. n \subseteq Nat
    OBVIOUS
  <2> QED
    BY <2>1, <2>2 DEF FiniteSubsetsOf
<1>2. U # {}
  OBVIOUS
<1>3. IsWellFoundedOn(R, FiniteSubsetsOf(Nat))
  BY FS_StrictSubsetOrderingWellFounded
<1>4. \E u \in U : \A v \in U : ~ (<<v, u>> \in R)
  <2> HIDE DEF U, R
  <2> QED
    BY <1>1, <1>2, <1>3, WFMin
<1>5. PICK x \in T : \A v \in U : ~ (<<v, 1 .. x>> \in R)
  BY <1>4
<1>6. ASSUME NEW y \in T, y < x PROVE FALSE
  <2>1. 1 .. y \in SUBSET Nat /\ 1 .. x \in SUBSET Nat /\ 1 .. y \subseteq 1 .. x
    BY <1>6
  <2>2. x \in 1 .. x /\ x \notin 1 .. y
    BY <1>6
  <2>3. <<1 .. y, 1 .. x>> \in R
    BY <2>1, <2>2 DEF StrictSubsetOrdering
  <2> QED
    BY <1>5, <2>3
<1>7. \E least \in T : \A y \in T : least <= y
  BY <1>6
<1> QED
  BY <1>7 DEF Min

\* An entry, a request or a port is chosen as the least of a set of them.
LEMMA LeastEntry == \A S \in SUBSET Entries : S # {} => Min(S) \in S
<1>1. Entries \subseteq Nat
  BY TableAssumption DEF Entries
<1> QED
  BY <1>1, LeastNat

\* The smaller of two numbers.
LEMMA MinOfTwo ==
  ASSUME NEW a \in Nat, NEW b \in Nat
  PROVE  Min({a, b}) = IF a <= b THEN a ELSE b
<1>1. {a, b} \subseteq Nat /\ {a, b} # {}
  OBVIOUS
<1>2. Min({a, b}) \in {a, b} /\ \A y \in {a, b} : Min({a, b}) <= y
  BY <1>1, LeastNat
<1> QED
  BY <1>2

\* Numbers of a ring that has been gone round once at most.
LEMMA RoundOnce ==
  ASSUME NEW n \in Nat \ {0}, NEW a \in 0 .. n - 1
  PROVE  a % n = a /\ (a + n) % n = a
OBVIOUS

\* The sum of the numbers up to n.
SumTo(n) == (n * (n + 1)) \div 2

\* One more number adds itself to the sum.
LEMMA SumToNext == \A n \in Nat : SumTo(n) \in Nat /\ SumTo(n + 1) = SumTo(n) + n + 1
<1> TAKE n \in Nat
<1>1. PICK p \in Nat : p = n * (n + 1)
  OBVIOUS
<1>2. (n + 1) * ((n + 1) + 1) = p + 2 * (n + 1)
  BY <1>1
<1>3. (p + 2 * (n + 1)) \div 2 = (p \div 2) + n + 1 /\ p \div 2 \in Nat
  BY <1>1
<1> QED
  BY <1>1, <1>2, <1>3 DEF SumTo

-----------------------------------------------------------------------------
(* The invariant                                                            *)

\* No user has two requests, and one that waits has one.
UserOnce ==
  \A r, q \in Entries :
    dns_requests[r] # Free /\ dns_requests[q] # Free
      /\ dns_requests[r].user = dns_requests[q].user => r = q
WaiterHasRequest ==
  \A u \in Users : waiting[u] # NotWaiting =>
    \E r \in Entries : dns_requests[r] # Free /\ dns_requests[r].user = u

\* A request belongs to a user who waits, and points to a query for the name asked.
RequestPoints ==
  \A r \in Entries : dns_requests[r] # Free =>
    LET q == dns_requests[r]
    IN /\ waiting[q.user] # NotWaiting
       /\ IsAsking(dns_table, q.idx)
       /\ dns_table[q.idx].name = waiting[q.user].name

\* Every query has someone who waits.
QueryIsWanted ==
  \A i \in Entries : IsAsking(dns_table, i) => \E r \in Entries : dns_requests[r].idx = i

Linked == UserOnce /\ WaiterHasRequest /\ RequestPoints /\ QueryIsWanted

\* The ticks a query still has at its server, and with the servers after it.
LeftAtServer(e) == e.tmr + SumTo(DNS_MAX_RETRIES - 1) - SumTo(e.retries)
LeftAfter(e) == (DNS_MAX_SERVERS - 1 - e.server_idx) * PatiencePerServer
Left(e) == LeftAtServer(e) + LeftAfter(e)

\* The wait of a query does not exceed its number of retries by more than the first tick.
Timed == \A i \in Entries : IsAsking(dns_table, i) => dns_table[i].tmr <= dns_table[i].retries + 1

\* The time a user has waited and the time its query has left stay within the patience.
Patient ==
  \A r \in Entries : dns_requests[r] # Free =>
    waiting[dns_requests[r].user].since + Left(dns_table[dns_requests[r].idx]) <= Patience

-----------------------------------------------------------------------------
(* What becomes of a query                                                  *)

Entry == {Unused} \union AskingEntry \union DoneEntry

\* The three states of an entry exclude each other.
LEMMA EntryStates ==
  /\ \A e \in AskingEntry : e.state = "ASKING" /\ e # Unused
  /\ \A e \in DoneEntry : e.state = "DONE" /\ e # Unused
  /\ Unused.state = "UNUSED"
  /\ \A e \in Entry : /\ e.state = "ASKING" => e \in AskingEntry
                      /\ e.state = "DONE" => e \in DoneEntry
                      /\ e.state \notin {"ASKING", "DONE"} => e = Unused
BY DEF Entry, AskingEntry, DoneEntry, Unused

\* The patience for one server, as a sum of retries.
LEMMA PatienceIsSum ==
  /\ PatiencePerServer = 1 + SumTo(DNS_MAX_RETRIES - 1)
  /\ PatiencePerServer \in Nat \ {0}
  /\ SumTo(0) = 0
  /\ Patience = DNS_MAX_SERVERS * PatiencePerServer
<1>1. PICK n \in Nat : n = DNS_MAX_RETRIES - 1 /\ DNS_MAX_RETRIES = n + 1
  BY TableAssumption
<1>2. (n + 1) * ((n + 1) - 1) = n * (n + 1)
  BY <1>1
<1>3. SumTo(n) \in Nat
  BY <1>1, SumToNext
<1>4. PatiencePerServer = 1 + SumTo(n)
  BY <1>1, <1>2 DEF PatiencePerServer, SumTo
<1>5. SumTo(0) = 0
  BY DEF SumTo
<1> QED
  BY <1>1, <1>3, <1>4, <1>5 DEF Patience

\* The query e goes on as f, with d ticks less than it had.
GoesOn(e, f, d) ==
  /\ f \in AskingEntry
  /\ f.name = e.name /\ f.txid = e.txid /\ f.pcb_idx = e.pcb_idx
  /\ f.tmr <= f.retries + 1
  /\ Left(f) + d <= Left(e)

\* The quantities of a query are numbers.
LEMMA LeftIsInt ==
  ASSUME NEW e \in AskingEntry
  PROVE  /\ e.retries \in Nat /\ e.tmr \in Nat \ {0} /\ e.server_idx \in Nat
         /\ e.server_idx <= DNS_MAX_SERVERS - 1
         /\ SumTo(e.retries) \in Nat /\ LeftAtServer(e) \in Int /\ LeftAfter(e) \in Nat
         /\ Left(e) \in Int
<1>1. e.retries \in 0 .. DNS_MAX_RETRIES - 1 /\ e.tmr \in 1 .. DNS_MAX_RETRIES
      /\ e.server_idx \in 0 .. DNS_MAX_SERVERS - 1
  BY DEF AskingEntry, Servers
<1>2. e.retries \in Nat /\ e.tmr \in Nat \ {0} /\ e.server_idx \in Nat
      /\ DNS_MAX_SERVERS - 1 - e.server_idx \in Nat /\ DNS_MAX_RETRIES - 1 \in Nat
  BY <1>1, TableAssumption
<1>3. SumTo(e.retries) \in Nat /\ SumTo(DNS_MAX_RETRIES - 1) \in Nat
  BY <1>2, SumToNext
<1>4. LeftAtServer(e) \in Int
  BY <1>2, <1>3 DEF LeftAtServer
<1>5. LeftAfter(e) \in Nat
  <2>1. \A a, b \in Nat : a * b \in Nat
    OBVIOUS
  <2> QED
    BY <1>2, <2>1, PatienceIsSum DEF LeftAfter
<1> QED
  BY <1>1, <1>2, <1>3, <1>4, <1>5, TableAssumption DEF Left

\* A retry with the same server is waited for one tick longer than the last.
LEMMA NextRetryGoesOn ==
  ASSUME NEW e \in AskingEntry, e.tmr = 1, e.retries + 1 # DNS_MAX_RETRIES
  PROVE  GoesOn(e, NextRetry(e), 1)
<1>1. PICK f : f = NextRetry(e)
  OBVIOUS
<1>2. /\ f \in AskingEntry
      /\ f.name = e.name /\ f.txid = e.txid /\ f.pcb_idx = e.pcb_idx
      /\ f.server_idx = e.server_idx
      /\ f.retries = e.retries + 1 /\ f.tmr = e.retries + 1
  <2>1. e.retries + 1 \in 0 .. DNS_MAX_RETRIES - 1 /\ e.retries + 1 \in 1 .. DNS_MAX_RETRIES
    BY TableAssumption DEF AskingEntry
  <2>2. PICK n : n = e.retries + 1 /\ n \in 0 .. DNS_MAX_RETRIES - 1 /\ n \in 1 .. DNS_MAX_RETRIES
    BY <2>1
  <2>3. f = [e EXCEPT !.retries = n, !.tmr = n]
    BY <1>1, <2>2 DEF NextRetry
  <2>4. f \in AskingEntry
    BY <2>2, <2>3 DEF AskingEntry
  <2> QED
    BY <2>2, <2>3, <2>4 DEF AskingEntry
<1>3. e.retries \in Nat /\ SumTo(f.retries) = SumTo(e.retries) + e.retries + 1
  BY <1>2, LeftIsInt, SumToNext
<1>4. LeftAfter(f) = LeftAfter(e)
  BY <1>2 DEF LeftAfter
<1>5. LeftAtServer(f) + 1 = LeftAtServer(e)
  <2>1. SumTo(DNS_MAX_RETRIES - 1) \in Nat
    BY TableAssumption, SumToNext
  <2> QED
    BY <1>2, <1>3, <2>1, LeftIsInt DEF LeftAtServer
<1>6. Left(f) + 1 = Left(e)
  BY <1>4, <1>5, <1>2, LeftIsInt DEF Left
<1> QED
  BY <1>1, <1>2, <1>3, <1>6, LeftIsInt DEF GoesOn

\* The next server is asked when the patience for this one is used up.
LEMMA NextServerGoesOn ==
  ASSUME NEW e \in AskingEntry, e.tmr = 1, e.retries + 1 = DNS_MAX_RETRIES,
         dns_backupserver_available(e)
  PROVE  GoesOn(e, NextServer(e), 1)
<1>1. PICK f : f = NextServer(e)
  OBVIOUS
<1>2. e.server_idx + 1 \in Servers
  BY TableAssumption DEF AskingEntry, Servers, dns_backupserver_available
<1>3. /\ f \in AskingEntry
      /\ f.name = e.name /\ f.txid = e.txid /\ f.pcb_idx = e.pcb_idx
      /\ f.server_idx = e.server_idx + 1
      /\ f.retries = 0 /\ f.tmr = 1
  <2>1. 1 \in 1 .. DNS_MAX_RETRIES /\ 0 \in 0 .. DNS_MAX_RETRIES - 1
    BY TableAssumption
  <2>2. PICK n : n = e.server_idx + 1 /\ n \in Servers
    BY <1>2
  <2>3. f = [e EXCEPT !.server_idx = n, !.tmr = 1, !.retries = 0]
    BY <1>1, <2>2 DEF NextServer
  <2>4. f \in AskingEntry
    BY <2>1, <2>2, <2>3 DEF AskingEntry
  <2> QED
    BY <2>2, <2>3, <2>4 DEF AskingEntry
<1>4. LeftAtServer(f) = PatiencePerServer
  <2>1. SumTo(DNS_MAX_RETRIES - 1) \in Nat
    BY TableAssumption, SumToNext
  <2> QED
    BY <1>3, <2>1, PatienceIsSum DEF LeftAtServer
<1>5. LeftAtServer(e) = 1
  <2>1. e.retries = DNS_MAX_RETRIES - 1 /\ SumTo(DNS_MAX_RETRIES - 1) \in Nat
    <3>1. e.retries = DNS_MAX_RETRIES - 1
      BY LeftIsInt, TableAssumption
    <3>2. SumTo(e.retries) \in Nat
      BY LeftIsInt
    <3> QED
      BY <3>1, <3>2
  <2> QED
    BY <2>1 DEF LeftAtServer
<1>6. LeftAfter(e) = LeftAfter(f) + PatiencePerServer
  <2>1. \A a, b \in Nat : (a + 1) * b = a * b + b
    OBVIOUS
  <2>2. PICK a \in Nat : a = DNS_MAX_SERVERS - 1 - f.server_idx
                         /\ a + 1 = DNS_MAX_SERVERS - 1 - e.server_idx
    BY <1>3, LeftIsInt, TableAssumption
  <2> QED
    BY <2>1, <2>2, PatienceIsSum DEF LeftAfter
<1>7. Left(f) + 1 = Left(e)
  BY <1>4, <1>5, <1>6, <1>3, LeftIsInt, PatienceIsSum DEF Left
<1> QED
  BY <1>1, <1>3, <1>7, LeftIsInt DEF GoesOn

\* When the timer runs out the query goes on with a tick less, or is given up.
LEMMA RetryGoesOn ==
  ASSUME NEW e \in AskingEntry, e.tmr = 1
  PROVE  Retry(e) = Unused \/ GoesOn(e, Retry(e), 1)
<1>1. \A f : dns_send(f) = Unused \/ dns_send(f) = f
  BY DEF dns_send
<1> QED
  BY <1>1, NextRetryGoesOn, NextServerGoesOn DEF Retry

\* So does a query that is checked.
LEMMA CheckGoesOn ==
  ASSUME NEW e \in AskingEntry, e.tmr <= e.retries + 1
  PROVE  dns_check_entry(e) = Unused \/ GoesOn(e, dns_check_entry(e), 1)
<1>1. CASE e.tmr = 1
  <2>1. dns_check_entry(e) = Retry(e)
    BY <1>1, EntryStates DEF dns_check_entry
  <2> QED
    BY <1>1, <2>1, RetryGoesOn
<1>2. CASE e.tmr # 1
  <2>1. PICK f : f = [e EXCEPT !.tmr = @ - 1]
    OBVIOUS
  <2>2. dns_check_entry(e) = f
    BY <1>2, <2>1, EntryStates DEF dns_check_entry
  <2>3. /\ f \in AskingEntry
        /\ f.name = e.name /\ f.txid = e.txid /\ f.pcb_idx = e.pcb_idx
        /\ f.server_idx = e.server_idx /\ f.retries = e.retries
        /\ f.tmr = e.tmr - 1
    BY <1>2, <2>1, TableAssumption DEF AskingEntry
  <2>4. LeftAfter(f) = LeftAfter(e)
    BY <2>3 DEF LeftAfter
  <2>5. LeftAtServer(f) + 1 = LeftAtServer(e)
    <3>1. SumTo(DNS_MAX_RETRIES - 1) \in Nat
      BY TableAssumption, SumToNext
    <3> QED
      BY <2>3, <3>1, LeftIsInt DEF LeftAtServer
  <2>6. Left(f) + 1 = Left(e)
    BY <2>3, <2>4, <2>5, LeftIsInt DEF Left
  <2> QED
    BY <2>2, <2>3, <2>6, LeftIsInt DEF GoesOn
<1> QED
  BY <1>1, <1>2

\* An error hurries a query to the next server, which it had at least a tick to wait for.
LEMMA HurriedGoesOn ==
  ASSUME NEW e \in AskingEntry, e.tmr <= e.retries + 1
  PROVE  LET f == dns_check_entry(Hurried(e)) IN f = Unused \/ GoesOn(e, f, 0)
<1>1. PICK h : h = Hurried(e)
  OBVIOUS
<1>2. /\ h \in AskingEntry
      /\ h.name = e.name /\ h.txid = e.txid /\ h.pcb_idx = e.pcb_idx
      /\ h.server_idx = e.server_idx
      /\ h.retries = DNS_MAX_RETRIES - 1 /\ h.tmr = 1
  <2>1. 1 \in 1 .. DNS_MAX_RETRIES /\ DNS_MAX_RETRIES - 1 \in 0 .. DNS_MAX_RETRIES - 1
    BY TableAssumption
  <2>2. PICK n : n = DNS_MAX_RETRIES - 1 /\ n \in 0 .. DNS_MAX_RETRIES - 1
    BY <2>1
  <2>3. h = [e EXCEPT !.retries = n, !.tmr = 1]
    BY <1>1, <2>2 DEF Hurried
  <2>4. h \in AskingEntry
    BY <2>1, <2>2, <2>3 DEF AskingEntry
  <2> QED
    BY <2>2, <2>3, <2>4 DEF AskingEntry
<1>3. LeftAfter(h) = LeftAfter(e)
  BY <1>2 DEF LeftAfter
<1>4. SumTo(e.retries) <= SumTo(DNS_MAX_RETRIES - 1)
  <2>1. e.retries \in Nat /\ e.retries <= DNS_MAX_RETRIES - 1
    BY TableAssumption DEF AskingEntry
  <2>2. \A a, b \in Nat : a <= b => a * (a + 1) <= b * (b + 1)
    OBVIOUS
  <2>3. PICK a \in Nat, b \in Nat : a = e.retries /\ b = DNS_MAX_RETRIES - 1
    BY <2>1, TableAssumption
  <2>4. a * (a + 1) <= b * (b + 1) /\ a * (a + 1) \in Nat /\ b * (b + 1) \in Nat
    BY <2>1, <2>2, <2>3
  <2>5. \A p, q \in Nat : p <= q => p \div 2 <= q \div 2
    OBVIOUS
  <2> QED
    BY <2>3, <2>4, <2>5 DEF SumTo
<1>5. LeftAtServer(h) = 1 /\ LeftAtServer(e) >= 1
  <2>1. SumTo(DNS_MAX_RETRIES - 1) \in Nat
    BY TableAssumption, SumToNext
  <2> QED
    BY <1>2, <1>4, <2>1, LeftIsInt DEF LeftAtServer
<1>6. Left(h) <= Left(e)
  BY <1>2, <1>3, <1>5, LeftIsInt DEF Left
<1>7. h.tmr <= h.retries + 1
  BY <1>2, TableAssumption
<1>8. dns_check_entry(h) = Unused \/ GoesOn(h, dns_check_entry(h), 1)
  BY <1>2, <1>7, CheckGoesOn
<1>9. ASSUME NEW f, GoesOn(h, f, 1) PROVE GoesOn(e, f, 0)
  <2>1. f \in AskingEntry
    BY <1>9 DEF GoesOn
  <2>2. Left(f) \in Int /\ Left(h) \in Int /\ Left(e) \in Int
    BY <1>2, <2>1, LeftIsInt
  <2> QED
    BY <1>2, <1>6, <1>9, <2>2 DEF GoesOn
<1> QED
  BY <1>1, <1>8, <1>9

\* A query has a tick left, and never more than the patience.
LEMMA LeftInPatience ==
  ASSUME NEW e \in AskingEntry, e.tmr <= e.retries + 1
  PROVE  1 <= Left(e) /\ Left(e) <= Patience
<1>1. SumTo(e.retries) <= SumTo(DNS_MAX_RETRIES - 1) /\ e.retries <= SumTo(e.retries)
  <2>1. e.retries \in Nat /\ e.retries <= DNS_MAX_RETRIES - 1
    BY TableAssumption DEF AskingEntry
  <2>2. \A a, b \in Nat : a <= b => a * (a + 1) <= b * (b + 1)
    OBVIOUS
  <2>3. PICK a \in Nat, b \in Nat : a = e.retries /\ b = DNS_MAX_RETRIES - 1
    BY <2>1, TableAssumption
  <2>4. a * (a + 1) <= b * (b + 1) /\ a * (a + 1) \in Nat /\ b * (b + 1) \in Nat
    BY <2>1, <2>2, <2>3
  <2>5. \A p, q \in Nat : p <= q => p \div 2 <= q \div 2
    OBVIOUS
  <2>6. 2 * a <= a * (a + 1)
    OBVIOUS
  <2>7. \A p, q \in Nat : 2 * p <= q => p <= q \div 2
    OBVIOUS
  <2> QED
    BY <2>3, <2>4, <2>5, <2>6, <2>7 DEF SumTo
<1>2. SumTo(DNS_MAX_RETRIES - 1) \in Nat
  BY TableAssumption, SumToNext
<1>3. 1 <= LeftAtServer(e) /\ LeftAtServer(e) <= PatiencePerServer
  BY <1>1, <1>2, LeftIsInt, PatienceIsSum DEF LeftAtServer
<1>4. 0 <= LeftAfter(e) /\ LeftAfter(e) + PatiencePerServer <= Patience
  <2>1. PICK a \in Nat, b \in Nat : a = DNS_MAX_SERVERS - 1 - e.server_idx /\ b = e.server_idx
    BY LeftIsInt, TableAssumption
  <2>2. PICK n \in Nat : n = PatiencePerServer
    BY PatienceIsSum
  <2>3. DNS_MAX_SERVERS = a + b + 1
    BY <2>1, TableAssumption
  <2>4. (a + b + 1) * n = a * n + b * n + n /\ b * n >= 0 /\ a * n >= 0
    OBVIOUS
  <2> QED
    BY <2>1, <2>2, <2>3, <2>4, PatienceIsSum DEF LeftAfter
<1> QED
  BY <1>3, <1>4, LeftIsInt, PatienceIsSum DEF Left

-----------------------------------------------------------------------------
(* Answering                                                                *)

Wait == {NotWaiting} \union [name : Names, since : Nat]

\* A request is free or belongs to a user and an entry.
LEMMA RequestStates ==
  ASSUME TypeOK, NEW r \in Entries
  PROVE  /\ dns_requests[r] = Free => dns_requests[r].idx \notin Entries
         /\ dns_requests[r] # Free => /\ dns_requests[r].user \in Users
                                      /\ dns_requests[r].idx \in Entries
<1>1. Free.idx \notin Entries
  BY TableAssumption DEF Free, Entries
<1> QED
  BY <1>1 DEF TypeOK

\* A user does not wait or waits since some time.
LEMMA WaitStates ==
  /\ \A n, s : [name |-> n, since |-> s].name = n /\ [name |-> n, since |-> s].since = s
  /\ \A n : \A s \in Nat : [name |-> n, since |-> s] # NotWaiting
  /\ \A x \in Wait : x # NotWaiting => x.name \in Names /\ x.since \in Nat
<1>1. \A n : \A s \in Nat : [name |-> n, since |-> s].since # NotWaiting.since
  BY DEF NotWaiting
<1> QED
  BY <1>1 DEF Wait

\* The entries become t and the users w, d ticks later.
Turns(t, w, d) ==
  /\ t \in [Entries -> Entry]
  /\ \A i \in Entries : IsAsking(t, i) =>
       IsAsking(dns_table, i) /\ GoesOn(dns_table[i], t[i], d)
  /\ \A i \in Entries : t[i] # Unused =>
       dns_table[i] # Unused /\ t[i].name = dns_table[i].name
  /\ w \in [Users -> Wait]
  /\ \A u \in Users : IF waiting[u] = NotWaiting THEN w[u] = NotWaiting
                      ELSE /\ w[u] # NotWaiting
                           /\ w[u].name = waiting[u].name
                           /\ w[u].since = waiting[u].since + d

\* The callbacks keep the types.
LEMMA TurnsType ==
  ASSUME TypeOK, NEW t, NEW w, NEW d, Turns(t, w, d), dns_call_found(t, w),
         UNCHANGED <<dns_last_pcb_idx, dns_seqno, dns_servers>>
  PROVE  TypeOK'
<1>1. dns_table' \in [Entries -> Entry]
  BY DEF dns_call_found, Turns
<1>2. dns_requests' \in [Entries -> {Free} \union [user : Users, idx : Entries]]
  BY DEF dns_call_found, TypeOK
<1>3. dns_pcbs' \subseteq Entries
  BY DEF dns_call_found, TypeOK, PortsInUse
<1>4. waiting' \in [Users -> Wait]
  BY DEF dns_call_found, Turns, Wait
<1> QED
  BY <1>1, <1>2, <1>3, <1>4 DEF TypeOK, Entry, Wait

\* The callbacks free the requests of the queries that are over, and no other.
LEMMA TurnsRequests ==
  ASSUME TypeOK, NEW t, NEW w, dns_call_found(t, w), NEW r \in Entries
  PROVE  /\ dns_requests'[r] # Free <=> dns_requests[r] # Free /\ r \notin Answered(t)
         /\ dns_requests'[r] # Free => dns_requests'[r] = dns_requests[r]
         /\ r \in Answered(t) <=> dns_requests[r].idx \in Over(t)
<1>1. r \in Answered(t) => dns_requests[r] # Free
  BY RequestStates DEF Answered, Over
<1>2. dns_requests'[r] = IF r \in Answered(t) THEN Free ELSE dns_requests[r]
  BY DEF dns_call_found
<1> QED
  BY <1>1, <1>2 DEF Answered

\* A user whose request is not answered waits on, as he waits for nothing else.
LEMMA TurnsWaits ==
  ASSUME TypeOK, UserOnce, NEW t, NEW w, NEW d, Turns(t, w, d), dns_call_found(t, w),
         NEW r \in Entries, dns_requests'[r] # Free
  PROVE  /\ dns_requests[r] # Free /\ dns_requests'[r] = dns_requests[r]
         /\ dns_requests[r].user \in Users
         /\ waiting'[dns_requests[r].user] = w[dns_requests[r].user]
<1>1. dns_requests[r] # Free /\ r \notin Answered(t) /\ dns_requests'[r] = dns_requests[r]
  BY TurnsRequests
<1>2. PICK u \in Users : u = dns_requests[r].user
  BY <1>1, RequestStates
<1>3. ASSUME NEW q \in Answered(t), dns_requests[q].user = u PROVE FALSE
  <2>1. q \in Entries /\ dns_requests[q] # Free
    BY RequestStates DEF Answered, Over
  <2> QED
    BY <1>1, <1>2, <1>3, <2>1 DEF UserOnce
<1>4. waiting'[u] = w[u]
  BY <1>3 DEF dns_call_found
<1> QED
  BY <1>1, <1>2, <1>4

\* The callbacks keep requests, users and queries together.
LEMMA TurnsLinked ==
  ASSUME TypeOK, Linked, NEW t, NEW w, NEW d, Turns(t, w, d), dns_call_found(t, w)
  PROVE  Linked'
<1> USE DEF Linked
<1>1. UserOnce'
  BY TurnsRequests DEF UserOnce
<1>2. WaiterHasRequest'
  <2> SUFFICES ASSUME NEW u \in Users, waiting'[u] # NotWaiting
               PROVE  \E r \in Entries : dns_requests'[r] # Free /\ dns_requests'[r].user = u
    BY DEF WaiterHasRequest
  <2>1. w[u] # NotWaiting /\ ~ \E r \in Answered(t) : dns_requests[r].user = u
    BY DEF dns_call_found
  <2>2. waiting[u] # NotWaiting
    BY <2>1 DEF Turns
  <2>3. PICK r \in Entries : dns_requests[r] # Free /\ dns_requests[r].user = u
    BY <2>2 DEF WaiterHasRequest
  <2>4. r \notin Answered(t)
    BY <2>1, <2>3
  <2> QED
    BY <2>3, <2>4, TurnsRequests
<1>3. RequestPoints'
  <2> SUFFICES ASSUME NEW r \in Entries, dns_requests'[r] # Free
               PROVE  LET q == dns_requests'[r]
                      IN /\ waiting'[q.user] # NotWaiting
                         /\ IsAsking(t, q.idx)
                         /\ t[q.idx].name = waiting'[q.user].name
    BY DEF RequestPoints, dns_call_found, IsAsking
  <2>1. PICK q : q = dns_requests[r]
    OBVIOUS
  <2>2. /\ q # Free /\ dns_requests'[r] = q /\ q.user \in Users /\ q.idx \in Entries
        /\ waiting'[q.user] = w[q.user]
    BY <2>1, TurnsWaits, RequestStates
  <2>3. /\ waiting[q.user] # NotWaiting /\ IsAsking(dns_table, q.idx)
        /\ dns_table[q.idx].name = waiting[q.user].name
    BY <2>1, <2>2 DEF RequestPoints
  <2>4. w[q.user] # NotWaiting /\ w[q.user].name = waiting[q.user].name
    BY <2>2, <2>3 DEF Turns
  <2>5. q.idx \notin Over(t)
    BY <2>1, <2>2, TurnsRequests
  <2>6. IsAsking(t, q.idx)
    BY <2>2, <2>3, <2>5 DEF Over
  <2>7. t[q.idx].name = dns_table[q.idx].name
    BY <2>2, <2>6 DEF Turns, GoesOn
  <2> QED
    BY <2>2, <2>3, <2>4, <2>6, <2>7
<1>4. QueryIsWanted'
  <2> SUFFICES ASSUME NEW i \in Entries, IsAsking(t, i)
               PROVE  \E r \in Entries : dns_requests'[r].idx = i
    BY DEF QueryIsWanted, dns_call_found, IsAsking
  <2>1. IsAsking(dns_table, i)
    BY DEF Turns
  <2>2. PICK r \in Entries : dns_requests[r].idx = i
    BY <2>1 DEF QueryIsWanted
  <2>3. r \notin Answered(t) /\ dns_requests[r] # Free
    BY <2>2, RequestStates DEF Answered, Over
  <2> QED
    BY <2>2, <2>3, TurnsRequests
<1> QED
  BY <1>1, <1>2, <1>3, <1>4

\* The callbacks close the ports that no query uses any more.
LEMMA TurnsPorts ==
  ASSUME PortsOpenWhileUsed, NEW t, NEW w, NEW d, Turns(t, w, d), dns_call_found(t, w)
  PROVE  PortsOpenWhileUsed'
<1>1. \A i \in Entries : IsAsking(t, i) =>
        IsAsking(dns_table, i) /\ t[i].pcb_idx = dns_table[i].pcb_idx
  BY DEF Turns, GoesOn
<1>2. \A i \in Over(t) : i \in Entries /\ IsAsking(dns_table, i) /\ ~ IsAsking(t, i)
  BY DEF Over
<1>3. \A i \in Entries : IsAsking(dns_table, i) /\ ~ IsAsking(t, i) => i \in Over(t)
  BY DEF Over
<1>4. PortsInUse(t) = {t[i].pcb_idx : i \in {j \in Entries : IsAsking(t, j)}}
  <2>1. ASSUME NEW i \in Entries, IsAsking(t, i)
        PROVE  t[i].pcb_idx \in PortsInUse(t)
    BY <1>1, <2>1 DEF PortsInUse, PortsOpenWhileUsed
  <2>2. ASSUME NEW p \in PortsInUse(t)
        PROVE  \E i \in Entries : IsAsking(t, i) /\ t[i].pcb_idx = p
    <3>1. PICK i \in Entries : IsAsking(dns_table, i) /\ dns_table[i].pcb_idx = p
      BY <2>2 DEF PortsInUse, PortsOpenWhileUsed
    <3>2. CASE IsAsking(t, i)
      BY <1>1, <3>1, <3>2
    <3>3. CASE ~ IsAsking(t, i)
      BY <1>3, <3>1, <3>3, <2>2 DEF PortsInUse
    <3> QED
      BY <3>2, <3>3
  <2> QED
    BY <2>1, <2>2
<1> QED
  BY <1>4 DEF PortsOpenWhileUsed, dns_call_found, IsAsking

\* The callbacks leave names and ids as they are.
LEMMA TurnsNames ==
  ASSUME OneEntryPerName, NEW t, NEW w, NEW d, Turns(t, w, d), dns_call_found(t, w)
  PROVE  OneEntryPerName'
<1>1. \A i \in Entries : IsAsking(t, i) =>
        IsAsking(dns_table, i) /\ t[i].txid = dns_table[i].txid
  BY DEF Turns, GoesOn
<1>2. \A i \in Entries : t[i] # Unused =>
        dns_table[i] # Unused /\ t[i].name = dns_table[i].name
  BY DEF Turns
<1>3. dns_table' = t
  BY DEF dns_call_found
<1> QED
  BY <1>1, <1>2, <1>3 DEF OneEntryPerName, IsAsking

\* The callbacks come in time.
LEMMA TurnsTimes ==
  ASSUME TypeOK, Linked, Timed, Patient, NEW t, NEW w, NEW d \in {0, 1},
         Turns(t, w, d), dns_call_found(t, w)
  PROVE  Timed' /\ Patient'
<1>1. dns_table' = t
  BY DEF dns_call_found
<1>2. Timed'
  BY <1>1 DEF Timed, Turns, GoesOn, IsAsking
<1>3. Patient'
  <2> SUFFICES ASSUME NEW r \in Entries, dns_requests'[r] # Free
               PROVE  waiting'[dns_requests'[r].user].since + Left(t[dns_requests'[r].idx])
                        <= Patience
    BY <1>1 DEF Patient, Left, LeftAtServer, LeftAfter
  <2>1. PICK q : q = dns_requests[r]
    OBVIOUS
  <2>2. /\ q # Free /\ dns_requests'[r] = q /\ q.user \in Users /\ q.idx \in Entries
        /\ waiting'[q.user] = w[q.user]
    BY <2>1, TurnsWaits, RequestStates DEF Linked
  <2>3. waiting[q.user] # NotWaiting /\ IsAsking(dns_table, q.idx)
    BY <2>1, <2>2 DEF RequestPoints, Linked
  <2>4. w[q.user].since = waiting[q.user].since + d
    BY <2>2, <2>3 DEF Turns
  <2>5. q.idx \notin Over(t)
    BY <2>1, <2>2, TurnsRequests
  <2>6. IsAsking(t, q.idx)
    BY <2>2, <2>3, <2>5 DEF Over
  <2>7. GoesOn(dns_table[q.idx], t[q.idx], d)
    BY <2>2, <2>6 DEF Turns
  <2>8. waiting[q.user].since + Left(dns_table[q.idx]) <= Patience
    BY <2>1, <2>2 DEF Patient
  <2>9. dns_table[q.idx] \in AskingEntry /\ t[q.idx] \in AskingEntry /\ waiting[q.user].since \in Nat
    BY <2>2, <2>3, <2>7, EntryStates, WaitStates DEF GoesOn, TypeOK, Entry, Wait, IsAsking
  <2>10. PICK s \in Nat, a \in Int, b \in Int :
           s = waiting[q.user].since /\ a = Left(dns_table[q.idx]) /\ b = Left(t[q.idx])
    BY <2>9, LeftIsInt
  <2>11. b + d <= a /\ s + a <= Patience
    BY <2>7, <2>8, <2>10 DEF GoesOn
  <2>12. Patience \in Nat
    BY TableAssumption, PatienceIsSum
  <2> QED
    BY <2>2, <2>4, <2>10, <2>11, <2>12
<1> QED
  BY <1>2, <1>3

-----------------------------------------------------------------------------
(* The steps                                                                *)

Inv == TypeOK /\ Linked /\ PortsOpenWhileUsed /\ OneEntryPerName /\ Timed /\ Patient

\* The callbacks keep the invariant.
LEMMA TurnsInv ==
  ASSUME Inv, NEW t, NEW w, NEW d \in {0, 1}, Turns(t, w, d), dns_call_found(t, w),
         UNCHANGED <<dns_last_pcb_idx, dns_seqno, dns_servers>>
  PROVE  Inv'
<1> USE DEF Inv
<1>1. TypeOK'
  BY TurnsType
<1>2. Linked'
  BY TurnsLinked
<1>3. PortsOpenWhileUsed'
  BY TurnsPorts
<1>4. OneEntryPerName'
  BY TurnsNames
<1>5. Timed' /\ Patient'
  BY TurnsTimes
<1> QED
  BY <1>1, <1>2, <1>3, <1>4, <1>5

\* What the types say of an entry and of a user.
LEMMA Members ==
  ASSUME TypeOK
  PROVE  dns_table \in [Entries -> Entry] /\ waiting \in [Users -> Wait]
BY DEF TypeOK, Entry, Wait

\* An entry that is not a query is checked without a word to anyone.
LEMMA CheckOther ==
  ASSUME NEW e \in Entry, e.state # "ASKING"
  PROVE  LET f == dns_check_entry(e)
         IN f = Unused \/ (f \in DoneEntry /\ e \in DoneEntry /\ f.name = e.name)
<1>1. CASE e.state = "DONE"
  <2>1. e \in DoneEntry
    BY <1>1, EntryStates
  <2>2. dns_check_entry(e) = IF e.ttl = 1 THEN Unused ELSE [e EXCEPT !.ttl = @ - 1]
    BY <1>1 DEF dns_check_entry
  <2>3. CASE e.ttl # 1
    <3>1. PICK n : n = e.ttl - 1 /\ n \in 1 .. DNS_MAX_TTL
      BY <2>1, <2>3, AnswerAssumption DEF DoneEntry
    <3>2. [e EXCEPT !.ttl = n] \in DoneEntry /\ [e EXCEPT !.ttl = n].name = e.name
      BY <2>1, <3>1 DEF DoneEntry
    <3>3. dns_check_entry(e) = [e EXCEPT !.ttl = n]
      BY <2>2, <2>3, <3>1
    <3> QED
      BY <2>1, <3>2, <3>3
  <2> QED
    BY <2>2, <2>3
<1>2. CASE e.state # "DONE"
  <2>1. e = Unused
    BY <1>2, EntryStates
  <2>2. dns_check_entry(e) = e
    BY <1>2 DEF dns_check_entry
  <2> QED
    BY <2>1, <2>2
<1> QED
  BY <1>1, <1>2

\* A second for the resolver.
LEMMA TmrKeeps ==
  ASSUME Inv, dns_tmr
  PROVE  Inv'
<1> DEFINE t == [i \in Entries |-> dns_check_entry(dns_table[i])]
           w == [u \in Users |-> IF waiting[u] = NotWaiting THEN NotWaiting
                                 ELSE [waiting[u] EXCEPT !.since = @ + 1]]
<1>1. dns_call_found(t, w) /\ UNCHANGED <<dns_last_pcb_idx, dns_seqno, dns_servers>>
  BY DEF dns_tmr
<1>2. dns_table \in [Entries -> Entry] /\ waiting \in [Users -> Wait]
  BY Members DEF Inv
<1>3. ASSUME NEW i \in Entries
      PROVE  \/ t[i] = Unused
             \/ IsAsking(dns_table, i) /\ GoesOn(dns_table[i], t[i], 1)
             \/ /\ t[i] \in DoneEntry /\ dns_table[i] \in DoneEntry
                /\ t[i].name = dns_table[i].name
  <2>1. CASE IsAsking(dns_table, i)
    <3>1. dns_table[i] \in AskingEntry /\ dns_table[i].tmr <= dns_table[i].retries + 1
      BY <1>2, <2>1, EntryStates DEF Inv, Timed, IsAsking
    <3> QED
      BY <2>1, <3>1, CheckGoesOn
  <2>2. CASE ~ IsAsking(dns_table, i)
    BY <1>2, <2>2, CheckOther DEF IsAsking
  <2> QED
    BY <2>1, <2>2
<1>4. ASSUME NEW u \in Users
      PROVE  /\ w[u] \in Wait
             /\ IF waiting[u] = NotWaiting THEN w[u] = NotWaiting
                ELSE /\ w[u] # NotWaiting
                     /\ w[u].name = waiting[u].name
                     /\ w[u].since = waiting[u].since + 1
  <2>1. CASE waiting[u] # NotWaiting
    <3>1. PICK n \in Names, s \in Nat : waiting[u] = [name |-> n, since |-> s]
      BY <1>2, <2>1 DEF Wait
    <3>2. w[u] = [name |-> n, since |-> s + 1] /\ s + 1 \in Nat
      BY <2>1, <3>1
    <3> QED
      BY <2>1, <3>1, <3>2, WaitStates DEF Wait
  <2>2. CASE waiting[u] = NotWaiting
    BY <2>2 DEF Wait
  <2> QED
    BY <2>1, <2>2
<1>5. t \in [Entries -> Entry] /\ w \in [Users -> Wait]
  <2>1. \A i \in Entries : t[i] \in Entry
    BY <1>3 DEF Entry, GoesOn
  <2> QED
    BY <2>1, <1>4
<1>6. \A i \in Entries : IsAsking(t, i) =>
        IsAsking(dns_table, i) /\ GoesOn(dns_table[i], t[i], 1)
  BY <1>3, EntryStates DEF IsAsking
<1>7. \A i \in Entries : t[i] # Unused =>
        dns_table[i] # Unused /\ t[i].name = dns_table[i].name
  BY <1>3, EntryStates DEF IsAsking, GoesOn
<1>8. Turns(t, w, 1)
  <2> HIDE DEF t, w
  <2> QED
    BY <1>4, <1>5, <1>6, <1>7 DEF Turns
<1> HIDE DEF t, w
<1> QED
  BY <1>1, <1>8, TurnsInv

\* One query goes on, is answered or given up.
LEMMA BecomesKeeps ==
  ASSUME Inv, NEW i \in Entries, IsAsking(dns_table, i), NEW e,
         EntryBecomes(i, e),
         \/ e = Unused
         \/ GoesOn(dns_table[i], e, 0)
         \/ e \in DoneEntry /\ e.name = dns_table[i].name
  PROVE  Inv'
<1> DEFINE t == [dns_table EXCEPT ![i] = e]
<1>1. dns_call_found(t, waiting) /\ UNCHANGED <<dns_last_pcb_idx, dns_seqno, dns_servers>>
  BY DEF EntryBecomes
<1>2. dns_table \in [Entries -> Entry] /\ waiting \in [Users -> Wait]
  BY Members DEF Inv
<1>3. \A j \in Entries : IF j = i THEN t[j] = e ELSE t[j] = dns_table[j]
  BY <1>2
<1>4. e \in Entry
  BY DEF Entry, GoesOn
<1>5. t \in [Entries -> Entry]
  BY <1>2, <1>4
<1> HIDE DEF t
<1>6. ASSUME NEW j \in Entries, IsAsking(t, j)
      PROVE  IsAsking(dns_table, j) /\ GoesOn(dns_table[j], t[j], 0)
  <2>1. CASE j = i
    BY <1>3, <1>6, <2>1, EntryStates DEF IsAsking
  <2>2. CASE j # i
    <3>1. t[j] = dns_table[j] /\ IsAsking(dns_table, j)
      BY <1>3, <1>6, <2>2 DEF IsAsking
    <3>2. dns_table[j] \in AskingEntry /\ dns_table[j].tmr <= dns_table[j].retries + 1
      BY <1>2, <3>1, EntryStates DEF Inv, Timed, IsAsking
    <3>3. Left(dns_table[j]) + 0 <= Left(dns_table[j])
      BY <3>2, LeftIsInt
    <3> QED
      BY <3>1, <3>2, <3>3 DEF GoesOn
  <2> QED
    BY <2>1, <2>2
<1>7. ASSUME NEW j \in Entries, t[j] # Unused
      PROVE  dns_table[j] # Unused /\ t[j].name = dns_table[j].name
  <2>1. dns_table[i] # Unused
    BY <1>2, EntryStates DEF IsAsking
  <2> QED
    BY <1>3, <1>7, <2>1 DEF GoesOn
<1>8. \A u \in Users : waiting[u] # NotWaiting => waiting[u].since = waiting[u].since + 0
  BY <1>2, WaitStates
<1>9. Turns(t, waiting, 0)
  BY <1>2, <1>5, <1>6, <1>7, <1>8 DEF Turns
<1> QED
  BY <1>1, <1>9, TurnsInv

\* An answer with an address completes its query; one without, or an error of the
\* server, ends it or hurries it to the next server.
LEMMA RecvKeeps ==
  ASSUME Inv, dns_recv
  PROVE  Inv'
<1>1. PICK i \in Entries : \/ \E ttl \in Ttls : dns_recv_address(i, ttl)
                           \/ dns_recv_error(i)
                           \/ dns_recv_empty(i)
  BY DEF dns_recv
<1>2. IsAsking(dns_table, i)
  BY <1>1 DEF dns_recv_address, dns_recv_error, dns_recv_empty, Matched
<1>3. dns_table[i] \in AskingEntry /\ dns_table[i].tmr <= dns_table[i].retries + 1
  BY <1>2, Members, EntryStates DEF Inv, Timed, IsAsking
<1>4. CASE \E ttl \in Ttls : dns_recv_address(i, ttl)
  <2>1. PICK ttl \in Ttls : dns_recv_address(i, ttl)
    BY <1>4
  <2>2. PICK e : e = dns_correct_response(dns_table[i], ttl)
    OBVIOUS
  <2>3. EntryBecomes(i, e)
    BY <2>1, <2>2 DEF dns_recv_address
  <2>4. PICK kept \in 0 .. DNS_MAX_TTL : kept = Min({ttl, DNS_MAX_TTL})
    BY AnswerAssumption, MinOfTwo
  <2>5. e = IF kept = 0 THEN Unused ELSE Done(dns_table[i].name, kept, dns_table[i].seqno)
    BY <2>2, <2>4 DEF dns_correct_response
  <2>6. kept # 0 => e \in DoneEntry /\ e.name = dns_table[i].name
    <3>1. dns_table[i].name \in Names /\ dns_table[i].seqno \in 0 .. SeqnoModulus - 1
      BY <1>3 DEF AskingEntry
    <3>2. kept # 0 => kept \in 1 .. DNS_MAX_TTL
      BY <2>4, AnswerAssumption
    <3> QED
      BY <2>5, <3>1, <3>2 DEF Done, DoneEntry
  <2> QED
    BY <1>2, <2>3, <2>5, <2>6, BecomesKeeps
<1>5. CASE dns_recv_error(i)
  <2>1. PICK e : e = IF dns_backupserver_available(dns_table[i])
                     THEN dns_check_entry(Hurried(dns_table[i])) ELSE Unused
    OBVIOUS
  <2>2. EntryBecomes(i, e)
    BY <1>5, <2>1 DEF dns_recv_error
  <2>3. e = Unused \/ GoesOn(dns_table[i], e, 0)
    BY <1>3, <2>1, HurriedGoesOn
  <2> QED
    BY <1>2, <2>2, <2>3, BecomesKeeps
<1>6. CASE dns_recv_empty(i)
  BY <1>2, <1>6, BecomesKeeps DEF dns_recv_empty
<1> QED
  BY <1>1, <1>4, <1>5, <1>6

\* A user who did not wait takes a free request for entry i, which asks for his name.
LEMMA WaitsLinked ==
  ASSUME TypeOK, Linked, Patient, NEW u \in Users, NEW name \in Names,
         NEW r \in Entries, NEW i \in Entries,
         waiting[u] = NotWaiting, dns_requests[r] = Free, Waits(u, name, r, i),
         NEW t, dns_table' = t,
         \A j \in Entries : j # i \/ IsAsking(dns_table, i) => t[j] = dns_table[j],
         IsAsking(t, i), t[i].name = name, Left(t[i]) <= Patience, Left(t[i]) \in Int
  PROVE  Linked' /\ Patient'
<1> USE DEF Linked
<1>1. /\ \A q \in Entries : IF q = r THEN dns_requests'[q] = [user |-> u, idx |-> i]
                            ELSE dns_requests'[q] = dns_requests[q]
      /\ \A v \in Users : IF v = u THEN waiting'[v] = [name |-> name, since |-> 0]
                          ELSE waiting'[v] = waiting[v]
  BY DEF Waits, TypeOK
<1>2. /\ dns_requests'[r].user = u /\ dns_requests'[r].idx = i /\ dns_requests'[r] # Free
      /\ waiting'[u].name = name /\ waiting'[u].since = 0 /\ waiting'[u] # NotWaiting
  <2>1. [user |-> u, idx |-> i].idx # Free.idx
    BY RequestStates, TableAssumption DEF Free, Entries
  <2> QED
    BY <1>1, <2>1, WaitStates
<1>3. ASSUME NEW q \in Entries, q # r, dns_requests'[q] # Free
      PROVE  /\ dns_requests[q] # Free /\ dns_requests'[q] = dns_requests[q]
             /\ dns_requests[q].user \in Users \ {u} /\ dns_requests[q].idx \in Entries
             /\ waiting'[dns_requests[q].user] = waiting[dns_requests[q].user]
             /\ t[dns_requests[q].idx] = dns_table[dns_requests[q].idx]
             /\ IsAsking(dns_table, dns_requests[q].idx)
  <2>1. dns_requests[q] # Free /\ dns_requests'[q] = dns_requests[q]
    BY <1>1, <1>3
  <2>2. dns_requests[q].user \in Users /\ dns_requests[q].idx \in Entries
    BY <2>1, RequestStates
  <2>3. waiting[dns_requests[q].user] # NotWaiting /\ IsAsking(dns_table, dns_requests[q].idx)
    BY <2>1 DEF RequestPoints
  <2>4. t[dns_requests[q].idx] = dns_table[dns_requests[q].idx]
    BY <2>2, <2>3
  <2> QED
    BY <1>1, <2>1, <2>2, <2>3, <2>4
<1>4. UserOnce'
  <2> SUFFICES ASSUME NEW p \in Entries, NEW q \in Entries,
                      dns_requests'[p] # Free, dns_requests'[q] # Free,
                      dns_requests'[p].user = dns_requests'[q].user
               PROVE  p = q
    BY DEF UserOnce
  <2>1. CASE p = r \/ q = r
    BY <1>2, <1>3, <2>1
  <2>2. CASE p # r /\ q # r
    BY <1>3, <2>2 DEF UserOnce
  <2> QED
    BY <2>1, <2>2
<1>5. WaiterHasRequest'
  <2> SUFFICES ASSUME NEW v \in Users, waiting'[v] # NotWaiting
               PROVE  \E q \in Entries : dns_requests'[q] # Free /\ dns_requests'[q].user = v
    BY DEF WaiterHasRequest
  <2>1. CASE v = u
    BY <1>2, <2>1
  <2>2. CASE v # u
    <3>1. PICK q \in Entries : dns_requests[q] # Free /\ dns_requests[q].user = v
      BY <1>1, <2>2 DEF WaiterHasRequest
    <3> QED
      BY <1>1, <3>1
  <2> QED
    BY <2>1, <2>2
<1>6. RequestPoints'
  <2> SUFFICES ASSUME NEW q \in Entries, dns_requests'[q] # Free
               PROVE  LET x == dns_requests'[q]
                      IN /\ waiting'[x.user] # NotWaiting
                         /\ IsAsking(t, x.idx)
                         /\ t[x.idx].name = waiting'[x.user].name
    BY DEF RequestPoints, IsAsking
  <2>1. CASE q = r
    BY <1>2, <2>1
  <2>2. CASE q # r
    BY <1>3, <2>2 DEF RequestPoints, IsAsking
  <2> QED
    BY <2>1, <2>2
<1>7. QueryIsWanted'
  <2> SUFFICES ASSUME NEW j \in Entries, IsAsking(t, j)
               PROVE  \E q \in Entries : dns_requests'[q].idx = j
    BY DEF QueryIsWanted, IsAsking
  <2>1. CASE j = i
    BY <1>2, <2>1
  <2>2. CASE j # i
    <3>1. IsAsking(dns_table, j)
      BY <2>2 DEF IsAsking
    <3>2. PICK q \in Entries : dns_requests[q].idx = j
      BY <3>1 DEF QueryIsWanted
    <3>3. q # r
      BY <3>2, RequestStates
    <3> QED
      BY <1>1, <3>2, <3>3
  <2> QED
    BY <2>1, <2>2
<1>8. Patient'
  <2> SUFFICES ASSUME NEW q \in Entries, dns_requests'[q] # Free
               PROVE  waiting'[dns_requests'[q].user].since + Left(t[dns_requests'[q].idx])
                        <= Patience
    BY DEF Patient, Left, LeftAtServer, LeftAfter
  <2>1. CASE q = r
    BY <1>2, <2>1
  <2>2. CASE q # r
    BY <1>3, <2>2 DEF Patient
  <2> QED
    BY <2>1, <2>2
<1> QED
  BY <1>4, <1>5, <1>6, <1>7, <1>8

\* The types after a user has begun to wait.
LEMMA WaitsType ==
  ASSUME TypeOK, NEW u \in Users, NEW name \in Names, NEW r \in Entries, NEW i \in Entries,
         Waits(u, name, r, i)
  PROVE  /\ dns_requests' \in [Entries -> {Free} \union [user : Users, idx : Entries]]
         /\ waiting' \in [Users -> {NotWaiting} \union [name : Names, since : Nat]]
BY DEF TypeOK, Waits

\* A user joins a query for the name he asks for.
LEMMA JoinKeeps ==
  ASSUME Inv, NEW u \in Users, NEW name \in Names, Join(u, name)
  PROVE  Inv'
<1> USE DEF Inv
<1>1. PICK r \in FreeRequests : r = Min(FreeRequests)
  BY LeastEntry DEF Join, FreeRequests
<1>2. PICK i \in QueriesFor(name) : i = Min(QueriesFor(name))
  BY LeastEntry DEF Join, QueriesFor
<1>3. /\ waiting[u] = NotWaiting /\ Waits(u, name, r, i)
      /\ UNCHANGED <<dns_table, dns_pcbs, dns_last_pcb_idx, dns_seqno, dns_servers>>
  BY <1>1, <1>2 DEF Join, MayAsk
<1>4. r \in Entries /\ dns_requests[r] = Free
  BY DEF FreeRequests
<1>5. i \in Entries /\ IsAsking(dns_table, i) /\ dns_table[i].name = name
  BY DEF QueriesFor
<1>6. dns_table[i] \in AskingEntry /\ dns_table[i].tmr <= dns_table[i].retries + 1
  BY <1>5, Members, EntryStates DEF Timed, IsAsking
<1>7. Left(dns_table[i]) <= Patience /\ Left(dns_table[i]) \in Int
  BY <1>6, LeftInPatience, LeftIsInt
<1>8. Linked' /\ Patient'
  BY <1>3, <1>4, <1>5, <1>7, WaitsLinked
<1>9. TypeOK'
  BY <1>3, <1>4, <1>5, WaitsType DEF TypeOK
<1>10. PortsOpenWhileUsed' /\ OneEntryPerName' /\ Timed'
  BY <1>3 DEF PortsOpenWhileUsed, OneEntryPerName, Timed, IsAsking
<1> QED
  BY <1>8, <1>9, <1>10

\* Only an entry without a query is used again.
LEMMA ReusableIsFree ==
  ASSUME NEW i \in Reusable
  PROVE  i \in Entries /\ ~ IsAsking(dns_table, i)
<1> DEFINE unused == {j \in Entries : dns_table[j] = Unused}
<1>1. CASE unused # {}
  <2>1. i = Min(unused)
    BY <1>1 DEF Reusable
  <2>2. i \in unused
    BY <1>1, <2>1, LeastEntry
  <2> QED
    BY <2>2, EntryStates DEF IsAsking
<1>2. CASE unused = {}
  BY <1>2 DEF Reusable, IsDone, IsAsking
<1> QED
  BY <1>1, <1>2

\* The port of a query is one of the ports.
LEMMA PortIsEntry ==
  ASSUME TypeOK, NEW p \in dns_alloc_pcb
  PROVE  p \in Entries
<1>1. CASE p = Min(Entries \ dns_pcbs) /\ Entries \ dns_pcbs # {}
  BY <1>1, LeastEntry
<1>2. CASE p = OpenPortAfter(dns_last_pcb_idx) /\ dns_pcbs # {}
  <2> DEFINE steps == {k \in 1 .. DNS_TABLE_SIZE :
                         (dns_last_pcb_idx + k) % DNS_TABLE_SIZE \in dns_pcbs}
  <2>1. PICK n \in Nat \ {0} : n = DNS_TABLE_SIZE
    BY TableAssumption
  <2>2. PICK last \in 0 .. n - 1 : last = dns_last_pcb_idx
    BY <2>1 DEF TypeOK, Entries
  <2>3. PICK q \in 0 .. n - 1 : q \in dns_pcbs
    BY <1>2, <2>1 DEF TypeOK, Entries
  <2>4. q % n = q /\ (q + n) % n = q
    BY RoundOnce
  <2>5. \E k \in 1 .. n : (last + k) % n = q
    <3>1. CASE q > last
      <4>1. q - last \in 1 .. n /\ last + (q - last) = q
        BY <3>1
      <4> QED
        BY <2>4, <4>1
    <3>2. CASE q <= last
      <4>1. q + n - last \in 1 .. n /\ last + (q + n - last) = q + n
        BY <3>2
      <4> QED
        BY <2>4, <4>1
    <3> QED
      BY <3>1, <3>2
  <2>6. steps # {} /\ steps \subseteq Nat
    <3>1. PICK k \in 1 .. n : (last + k) % n = q
      BY <2>5
    <3>2. k \in steps
      BY <2>1, <2>2, <2>3, <3>1
    <3>3. steps \subseteq 1 .. n
      BY <2>1
    <3> QED
      BY <3>2, <3>3
  <2>7. PICK k \in 1 .. n : k = Min(steps)
    BY <2>1, <2>6, LeastNat
  <2>8. p = (last + k) % n
    BY <1>2, <2>1, <2>2, <2>7 DEF OpenPortAfter
  <2>9. (last + k) % n \in 0 .. n - 1
    OBVIOUS
  <2> QED
    BY <2>1, <2>8, <2>9 DEF Entries
<1> QED
  BY <1>1, <1>2 DEF dns_alloc_pcb

\* The query of a new entry.
NewQuery(name, p, x) ==
  [state |-> "ASKING", name |-> name, txid |-> x, server_idx |-> 0,
   tmr |-> 1, retries |-> 0, pcb_idx |-> p, seqno |-> dns_seqno]

\* A user asks for a name that nobody asks for: the query takes an entry, a request,
\* a port and an id that no other query has.
LEMMA EnqueueKeeps ==
  ASSUME Inv, NEW u \in Users, NEW name \in Names, dns_enqueue(u, name)
  PROVE  Inv'
<1> USE DEF Inv
<1>1. PICK r \in FreeRequests : r = Min(FreeRequests)
  BY LeastEntry DEF dns_enqueue, MayEnqueue, FreeRequests
<1>2. PICK i \in Reusable, p \in dns_alloc_pcb, x \in dns_create_txid :
        /\ dns_table' = [dns_table EXCEPT ![i] = NewQuery(name, p, x)]
        /\ Waits(u, name, r, i)
        /\ dns_pcbs' = dns_pcbs \union {p}
        /\ dns_last_pcb_idx' = p
  BY <1>1 DEF dns_enqueue, NewQuery
<1>3. /\ waiting[u] = NotWaiting /\ ~ Cached(name) /\ QueriesFor(name) = {}
      /\ dns_seqno' = (dns_seqno + 1) % SeqnoModulus /\ UNCHANGED dns_servers
  BY DEF dns_enqueue, MayEnqueue, MayAsk
<1>4. r \in Entries /\ dns_requests[r] = Free
  BY DEF FreeRequests
<1>5. i \in Entries /\ ~ IsAsking(dns_table, i) /\ p \in Entries
  BY ReusableIsFree, PortIsEntry
<1>6. x \in Txids /\ \A j \in Entries : IsAsking(dns_table, j) => dns_table[j].txid # x
  BY DEF dns_create_txid
<1>7. PICK e : e = NewQuery(name, p, x)
  OBVIOUS
<1>8. /\ e \in AskingEntry /\ e.state = "ASKING"
      /\ e.name = name /\ e.txid = x /\ e.pcb_idx = p /\ e.tmr = 1 /\ e.retries = 0
  <2>1. 0 \in Servers /\ 1 \in 1 .. DNS_MAX_RETRIES /\ 0 \in 0 .. DNS_MAX_RETRIES - 1
    BY TableAssumption DEF Servers
  <2>2. dns_seqno \in 0 .. SeqnoModulus - 1
    BY DEF TypeOK
  <2> QED
    BY <1>5, <1>6, <1>7, <2>1, <2>2 DEF NewQuery, AskingEntry
<1>9. Left(e) <= Patience /\ Left(e) \in Int
  BY <1>8, LeftInPatience, LeftIsInt
<1>10. PICK t : t = [dns_table EXCEPT ![i] = e]
  OBVIOUS
<1>11. /\ t \in [Entries -> Entry] /\ t[i] = e
       /\ \A j \in Entries : j # i => t[j] = dns_table[j]
       /\ dns_table' = t
  BY <1>2, <1>5, <1>7, <1>8, <1>10, Members DEF Entry
<1>12. Linked' /\ Patient'
  <2>1. \A j \in Entries : j # i \/ IsAsking(dns_table, j) => t[j] = dns_table[j]
    BY <1>5, <1>11
  <2>2. IsAsking(t, i) /\ t[i].name = name
    BY <1>8, <1>11 DEF IsAsking
  <2> QED
    BY <1>2, <1>3, <1>4, <1>5, <1>9, <1>11, <2>1, <2>2, WaitsLinked
<1>13. TypeOK'
  <2>1. dns_seqno' \in 0 .. SeqnoModulus - 1
    BY <1>3, TableAssumption DEF TypeOK
  <2>2. dns_pcbs' \subseteq Entries /\ dns_last_pcb_idx' \in Entries
    BY <1>2, <1>5 DEF TypeOK
  <2>3. dns_servers' \in [Servers -> Addresses \union {NoServer}]
    BY <1>3 DEF TypeOK
  <2>4. /\ dns_requests' \in [Entries -> {Free} \union [user : Users, idx : Entries]]
        /\ waiting' \in [Users -> {NotWaiting} \union [name : Names, since : Nat]]
    BY <1>2, <1>4, <1>5, WaitsType
  <2> QED
    BY <1>11, <2>1, <2>2, <2>3, <2>4 DEF TypeOK, Entry
<1>14. \A j \in Entries : IsAsking(t, j) <=> j = i \/ IsAsking(dns_table, j)
  BY <1>8, <1>11 DEF IsAsking
<1>15. PortsOpenWhileUsed'
  <2>1. {t[j].pcb_idx : j \in {k \in Entries : IsAsking(t, k)}}
          = {dns_table[j].pcb_idx : j \in {k \in Entries : IsAsking(dns_table, k)}} \union {p}
    BY <1>5, <1>8, <1>11, <1>14
  <2>2. dns_pcbs' = {t[j].pcb_idx : j \in {k \in Entries : IsAsking(t, k)}}
    BY <1>2, <2>1 DEF PortsOpenWhileUsed
  <2> QED
    BY <1>11, <2>2 DEF PortsOpenWhileUsed, IsAsking
<1>16. OneEntryPerName'
  <2>1. ASSUME NEW j \in Entries, j # i, t[j] # Unused
        PROVE  t[j].name # name /\ (IsAsking(t, j) => t[j].txid # x)
    <3>1. t[j] = dns_table[j] /\ dns_table[j] \in Entry
      BY <1>11, <2>1, Members
    <3>2. IsAsking(dns_table, j) \/ IsDone(dns_table, j)
      BY <2>1, <3>1, EntryStates DEF IsAsking, IsDone
    <3>3. dns_table[j].name # name
      BY <1>3, <3>2 DEF QueriesFor, Cached
    <3> QED
      BY <1>6, <1>14, <2>1, <3>1, <3>3
  <2>2. ASSUME NEW j \in Entries, NEW k \in Entries, j # k, t[j] # Unused, t[k] # Unused
        PROVE  /\ t[j].name # t[k].name
               /\ IsAsking(t, j) /\ IsAsking(t, k) => t[j].txid # t[k].txid
    <3>1. CASE j = i
      BY <1>8, <1>11, <2>1, <2>2, <3>1
    <3>2. CASE k = i
      BY <1>8, <1>11, <2>1, <2>2, <3>2
    <3>3. CASE j # i /\ k # i
      BY <1>11, <1>14, <2>2, <3>3 DEF OneEntryPerName
    <3> QED
      BY <3>1, <3>2, <3>3
  <2> QED
    BY <1>11, <2>2 DEF OneEntryPerName, IsAsking
<1>17. Timed'
  <2>1. \A j \in Entries : IsAsking(t, j) => t[j].tmr <= t[j].retries + 1
    BY <1>8, <1>11, <1>14 DEF Timed
  <2> QED
    BY <1>11, <2>1 DEF Timed, IsAsking
<1> QED
  BY <1>12, <1>13, <1>15, <1>16, <1>17

\* Without a port an entry that was not a query is emptied.
LEMMA WithoutPortKeeps ==
  ASSUME Inv, NEW u \in Users, NEW name \in Names, EnqueueWithoutPort(u, name)
  PROVE  Inv'
<1> USE DEF Inv
<1>1. PICK i \in Reusable : dns_table' = [dns_table EXCEPT ![i] = Unused]
  BY DEF EnqueueWithoutPort
<1>2. UNCHANGED <<dns_requests, dns_pcbs, dns_last_pcb_idx, dns_seqno, dns_servers, waiting>>
  BY DEF EnqueueWithoutPort
<1>3. i \in Entries /\ ~ IsAsking(dns_table, i)
  BY ReusableIsFree
<1>4. PICK t : t = [dns_table EXCEPT ![i] = Unused]
  OBVIOUS
<1>5. /\ t \in [Entries -> Entry] /\ t[i] = Unused
      /\ \A j \in Entries : j # i => t[j] = dns_table[j]
      /\ dns_table' = t
  BY <1>1, <1>3, <1>4, Members DEF Entry
<1>6. \A j \in Entries : /\ IsAsking(t, j) <=> IsAsking(dns_table, j)
                         /\ IsAsking(t, j) => t[j] = dns_table[j]
  BY <1>3, <1>5, EntryStates DEF IsAsking
<1>7. TypeOK'
  BY <1>2, <1>5 DEF TypeOK, Entry
<1>8. Linked'
  <2>1. UserOnce' /\ WaiterHasRequest'
    BY <1>2 DEF Linked, UserOnce, WaiterHasRequest
  <2>2. \A r \in Entries : dns_requests[r] # Free =>
          LET q == dns_requests[r]
          IN /\ waiting[q.user] # NotWaiting
             /\ IsAsking(t, q.idx)
             /\ t[q.idx].name = waiting[q.user].name
    BY <1>6, RequestStates DEF Linked, RequestPoints
  <2>3. RequestPoints'
    BY <1>2, <1>5, <2>2 DEF RequestPoints, IsAsking
  <2>4. \A j \in Entries : IsAsking(t, j) => \E r \in Entries : dns_requests[r].idx = j
    BY <1>6 DEF Linked, QueryIsWanted
  <2>5. QueryIsWanted'
    BY <1>2, <1>5, <2>4 DEF QueryIsWanted, IsAsking
  <2> QED
    BY <2>1, <2>3, <2>5 DEF Linked
<1>9. PortsOpenWhileUsed'
  <2>1. {t[j].pcb_idx : j \in {k \in Entries : IsAsking(t, k)}}
          = {dns_table[j].pcb_idx : j \in {k \in Entries : IsAsking(dns_table, k)}}
    BY <1>6
  <2> QED
    BY <1>2, <1>5, <2>1 DEF PortsOpenWhileUsed, IsAsking
<1>10. OneEntryPerName'
  <2>1. ASSUME NEW j \in Entries, NEW k \in Entries, j # k, t[j] # Unused, t[k] # Unused
        PROVE  /\ t[j].name # t[k].name
               /\ IsAsking(t, j) /\ IsAsking(t, k) => t[j].txid # t[k].txid
    BY <1>5, <1>6, <2>1 DEF OneEntryPerName
  <2> QED
    BY <1>5, <2>1 DEF OneEntryPerName, IsAsking
<1>11. Timed'
  BY <1>5, <1>6 DEF Timed, IsAsking
<1>12. Patient'
  <2>1. \A r \in Entries : dns_requests[r] # Free =>
          t[dns_requests[r].idx] = dns_table[dns_requests[r].idx]
    BY <1>6, RequestStates DEF Linked, RequestPoints
  <2> QED
    BY <1>2, <1>5, <2>1 DEF Patient, Left, LeftAtServer, LeftAfter
<1> QED
  BY <1>7, <1>8, <1>9, <1>10, <1>11, <1>12

\* Another server concerns no entry.
LEMMA SetserverKeeps ==
  ASSUME Inv, NEW n \in Servers, NEW addr \in Addresses \union {NoServer},
         dns_setserver(n, addr)
  PROVE  Inv'
<1>1. UNCHANGED <<dns_table, dns_pcbs, dns_requests, dns_last_pcb_idx, dns_seqno, waiting>>
  BY DEF dns_setserver
<1>2. dns_servers' \in [Servers -> Addresses \union {NoServer}]
  BY DEF dns_setserver, Inv, TypeOK
<1>3. TypeOK'
  BY <1>1, <1>2 DEF Inv, TypeOK
<1> QED
  BY <1>1, <1>3 DEF Inv, Linked, UserOnce, WaiterHasRequest, RequestPoints, QueryIsWanted,
    PortsOpenWhileUsed, OneEntryPerName, Timed, Patient, IsAsking, Left, LeftAtServer, LeftAfter

\* At first nobody asks.
LEMMA InitInv == Init => Inv
<1> SUFFICES ASSUME Init PROVE Inv
  OBVIOUS
<1>1. \A i \in Entries : dns_table[i] = Unused /\ ~ IsAsking(dns_table, i)
  BY EntryStates DEF Init, IsAsking
<1>2. \A r \in Entries : dns_requests[r] = Free
  BY DEF Init
<1>3. \A u \in Users : waiting[u] = NotWaiting
  BY DEF Init
<1>4. TypeOK
  <2>1. 0 \in Entries /\ 0 \in 0 .. SeqnoModulus - 1
    BY TableAssumption DEF Entries
  <2> QED
    BY <2>1 DEF Init, TypeOK
<1>5. Linked /\ Timed /\ Patient /\ OneEntryPerName
  BY <1>1, <1>2, <1>3 DEF Linked, UserOnce, WaiterHasRequest, RequestPoints, QueryIsWanted,
    Timed, Patient, OneEntryPerName
<1>6. PortsOpenWhileUsed
  BY <1>1 DEF Init, PortsOpenWhileUsed
<1> QED
  BY <1>4, <1>5, <1>6 DEF Inv

\* Every step keeps the invariant.
LEMMA NextKeeps == Inv /\ [Next]_vars => Inv'
<1> SUFFICES ASSUME Inv, [Next]_vars PROVE Inv'
  OBVIOUS
<1>1. CASE \E n \in Servers, addr \in Addresses \union {NoServer} : dns_setserver(n, addr)
  BY <1>1, SetserverKeeps
<1>2. CASE \E u \in Users, name \in Names : dns_gethostbyname(u, name)
  BY <1>2, JoinKeeps, EnqueueKeeps, WithoutPortKeeps DEF dns_gethostbyname
<1>3. CASE dns_tmr
  BY <1>3, TmrKeeps
<1>4. CASE dns_recv
  BY <1>4, RecvKeeps
<1>5. CASE UNCHANGED vars
  BY <1>5 DEF vars, Inv, TypeOK, Linked, UserOnce, WaiterHasRequest, RequestPoints, QueryIsWanted,
    PortsOpenWhileUsed, OneEntryPerName, Timed, Patient, IsAsking, Left, LeftAtServer, LeftAfter
<1> QED
  BY <1>1, <1>2, <1>3, <1>4, <1>5 DEF Next

-----------------------------------------------------------------------------
(* Theorems                                                                 *)

\* The invariant holds of every state.
THEOREM Invariance == Spec => []Inv
BY InitInv, NextKeeps, PTL DEF Spec

\* The entries, requests and ports keep their types: no count runs over and no index
\* leaves its table.
THEOREM TypeCorrect == Spec => []TypeOK
<1>1. Inv => TypeOK
  BY DEF Inv
<1> QED
  BY <1>1, Invariance, PTL

\* Every user who waits has exactly one request, for the name he asked, and every
\* query has someone who waits.
THEOREM OneRequestEach == Spec => []EveryWaiterHasOneRequest
<1>1. ASSUME Inv PROVE EveryWaiterHasOneRequest
  <2> USE <1>1 DEF Inv, Linked
  <2>1. ASSUME NEW u \in Users
        PROVE  LET mine == {r \in Entries : dns_requests[r] # Free /\ dns_requests[r].user = u}
               IN Cardinality(mine) = IF waiting[u] = NotWaiting THEN 0 ELSE 1
    <3> DEFINE mine == {r \in Entries : dns_requests[r] # Free /\ dns_requests[r].user = u}
    <3>1. CASE waiting[u] = NotWaiting
      <4>1. mine = {}
        BY <3>1 DEF RequestPoints
      <4> QED
        BY <3>1, <4>1, FS_EmptySet
    <3>2. CASE waiting[u] # NotWaiting
      <4>1. PICK r \in Entries : dns_requests[r] # Free /\ dns_requests[r].user = u
        BY <3>2 DEF WaiterHasRequest
      <4>2. mine = {r}
        BY <4>1 DEF UserOnce
      <4> QED
        BY <3>2, <4>2, FS_Singleton
    <3> QED
      BY <3>1, <3>2
  <2>2. \A i \in Entries : IsAsking(dns_table, i) => RequestsOf(i) # {}
    BY DEF QueryIsWanted, RequestsOf
  <2> QED
    BY <2>1, <2>2 DEF EveryWaiterHasOneRequest, RequestPoints
<1> QED
  BY <1>1, Invariance, PTL

\* A source port is open exactly while a query uses it.
THEOREM PortsFollowQueries == Spec => []PortsOpenWhileUsed
<1>1. Inv => PortsOpenWhileUsed
  BY DEF Inv
<1> QED
  BY <1>1, Invariance, PTL

\* A name is in the table once, and an id belongs to one query.
THEOREM NamesDiffer == Spec => []OneEntryPerName
<1>1. Inv => OneEntryPerName
  BY DEF Inv
<1> QED
  BY <1>1, Invariance, PTL

\* Every user is called back within the patience for all servers, for every number of
\* servers and retries.
THEOREM CalledBack == Spec => []AnsweredInTime
<1>1. ASSUME Inv PROVE AnsweredInTime
  <2> SUFFICES ASSUME NEW u \in Users, waiting[u] # NotWaiting
               PROVE  waiting[u].since < Patience
    BY DEF AnsweredInTime
  <2>1. PICK r \in Entries : dns_requests[r] # Free /\ dns_requests[r].user = u
    BY <1>1 DEF Inv, Linked, WaiterHasRequest
  <2>2. PICK e : e = dns_table[dns_requests[r].idx]
    OBVIOUS
  <2>3. dns_requests[r].idx \in Entries /\ IsAsking(dns_table, dns_requests[r].idx)
    BY <1>1, <2>1, RequestStates DEF Inv, Linked, RequestPoints
  <2>4. e \in AskingEntry /\ e.tmr <= e.retries + 1
    BY <1>1, <2>2, <2>3, Members, EntryStates DEF Inv, Timed, IsAsking
  <2>5. 1 <= Left(e) /\ Left(e) \in Int /\ Patience \in Nat
    BY <2>4, LeftInPatience, LeftIsInt, PatienceIsSum, TableAssumption
  <2>6. waiting[u].since + Left(e) <= Patience
    BY <1>1, <2>1, <2>2 DEF Inv, Patient
  <2>7. waiting[u].since \in Nat
    BY <1>1, Members, WaitStates DEF Inv
  <2> QED
    BY <2>5, <2>6, <2>7
<1> QED
  BY <1>1, Invariance, PTL
=============================================================================

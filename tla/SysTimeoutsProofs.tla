------------------------- MODULE SysTimeoutsProofs -------------------------
(***************************************************************************)
(* Proofs about SysTimeouts, for every set of timers, every period and     *)
(* every width of the clock.                                               *)
(***************************************************************************)
EXTENDS SysTimeouts, FiniteSetTheorems, SequenceTheorems, TLAPS

-----------------------------------------------------------------------------
(* Sets of numbers and sequences                                            *)

\* A set of numbers has a least one: for n in the set, the intervals 1 .. n are
\* finite sets, and strict inclusion of finite sets is well-founded.
LEMMA LeastNat ==
  ASSUME NEW T, T \subseteq Nat, T # {}
  PROVE  Min(T) \in T /\ \A y \in T : Min(T) <= y
<1> DEFINE U == {1 .. n : n \in T}
           R == StrictSubsetOrdering(Nat)
<1>1. U \subseteq FiniteSubsetsOf(Nat)
  <2>1. \A n \in T : IsFiniteSet(1 .. n)
    BY FS_Interval
  <2>2. \A n \in T : 1 .. n \subseteq Nat
    OBVIOUS
  <2> QED
    BY <2>1, <2>2 DEF FiniteSubsetsOf
<1>2. U # {}
  OBVIOUS
<1>3. IsWellFoundedOn(R, FiniteSubsetsOf(Nat))
  BY FS_StrictSubsetOrderingWellFounded
<1>4. \E u \in U : \A v \in U : ~ (<<v, u>> \in R)
  <2> HIDE DEF U, R
  <2> QED
    BY <1>1, <1>2, <1>3, WFMin
<1>5. PICK x \in T : \A v \in U : ~ (<<v, 1 .. x>> \in R)
  BY <1>4
<1>6. ASSUME NEW y \in T, y < x PROVE FALSE
  <2>1. 1 .. y \in SUBSET Nat /\ 1 .. x \in SUBSET Nat /\ 1 .. y \subseteq 1 .. x
    BY <1>6
  <2>2. x \in 1 .. x /\ x \notin 1 .. y
    BY <1>6
  <2>3. <<1 .. y, 1 .. x>> \in R
    BY <2>1, <2>2 DEF StrictSubsetOrdering
  <2> QED
    BY <1>5, <2>3
<1>7. \E least \in T : \A y \in T : least <= y
  BY <1>6
<1> QED
  BY <1>7 DEF Min

\* An entry is put in at place i, and the entries from i on move up.
LEMMA InsertAtEntries ==
  ASSUME NEW S, NEW s \in Seq(S), NEW e \in S, NEW i \in 1 .. Len(s) + 1
  PROVE  /\ InsertAt(s, i, e) \in Seq(S)
         /\ Len(InsertAt(s, i, e)) = Len(s) + 1
         /\ \A j \in 1 .. Len(s) + 1 :
              InsertAt(s, i, e)[j] = IF j < i THEN s[j] ELSE IF j = i THEN e ELSE s[j - 1]
<1> DEFINE front == SubSeq(s, 1, i - 1)
           back == SubSeq(s, i, Len(s))
           begun == front \o <<e>>
<1>1. Len(s) \in Nat /\ \A k \in 1 .. Len(s) : s[k] \in S
  OBVIOUS
<1>2. front \in Seq(S) /\ Len(front) = i - 1 /\ \A j \in 1 .. i - 1 : front[j] = s[j]
  BY <1>1, SubSeqProperties
<1>3. /\ back \in Seq(S) /\ Len(back) = Len(s) - i + 1
      /\ \A j \in 1 .. Len(s) - i + 1 : back[j] = s[i + j - 1]
  BY <1>1, SubSeqProperties
<1>4. <<e>> \in Seq(S) /\ Len(<<e>>) = 1 /\ <<e>>[1] = e
  OBVIOUS
<1>5. /\ begun \in Seq(S) /\ Len(begun) = i
      /\ \A j \in 1 .. i : begun[j] = IF j <= i - 1 THEN front[j] ELSE <<e>>[j - (i - 1)]
  <2> HIDE DEF front
  <2> QED
    BY <1>2, <1>4, ConcatProperties
<1>6. /\ begun \o back \in Seq(S) /\ Len(begun \o back) = Len(s) + 1
      /\ \A j \in 1 .. Len(s) + 1 : (begun \o back)[j] = IF j <= i THEN begun[j] ELSE back[j - i]
  <2> HIDE DEF begun, back
  <2> QED
    BY <1>3, <1>5, ConcatProperties
<1>7. InsertAt(s, i, e) = begun \o back
  BY DEF InsertAt
<1>8. \A j \in 1 .. Len(s) + 1 :
        (begun \o back)[j] = IF j < i THEN s[j] ELSE IF j = i THEN e ELSE s[j - 1]
  <2> HIDE DEF front, back, begun
  <2> QED
    BY <1>1, <1>2, <1>3, <1>4, <1>5, <1>6
<1> HIDE DEF front, back, begun
<1> QED
  BY <1>6, <1>7, <1>8

\* The same for every value and every place.
LEMMA InsertAtAny ==
  ASSUME NEW S, NEW v \in Seq(S)
  PROVE  \A g \in S, k \in 1 .. Len(v) + 1 :
           /\ Len(InsertAt(v, k, g)) = Len(v) + 1
           /\ \A j \in 1 .. Len(v) + 1 :
                InsertAt(v, k, g)[j] = IF j < k THEN v[j] ELSE IF j = k THEN g ELSE v[j - 1]
<1> TAKE g \in S, k \in 1 .. Len(v) + 1
<1> QED
  BY InsertAtEntries, SMTT(30)

\* The entry at place i is taken out, and the entries behind it move down.
LEMMA RemoveAtEntries ==
  ASSUME NEW S, NEW s \in Seq(S), NEW i \in 1 .. Len(s)
  PROVE  /\ RemoveAt(s, i) \in Seq(S)
         /\ Len(RemoveAt(s, i)) = Len(s) - 1
         /\ \A j \in 1 .. Len(s) - 1 : RemoveAt(s, i)[j] = IF j < i THEN s[j] ELSE s[j + 1]
<1> DEFINE front == SubSeq(s, 1, i - 1)
           back == SubSeq(s, i + 1, Len(s))
<1>1. Len(s) \in Nat /\ \A k \in 1 .. Len(s) : s[k] \in S
  OBVIOUS
<1>2. front \in Seq(S) /\ Len(front) = i - 1 /\ \A j \in 1 .. i - 1 : front[j] = s[j]
  BY <1>1, SubSeqProperties
<1>3. /\ back \in Seq(S) /\ Len(back) = Len(s) - i
      /\ \A j \in 1 .. Len(s) - i : back[j] = s[i + j]
  <2>1. /\ \A k \in i + 1 .. Len(s) : s[k] \in S
        /\ i + 1 \in Int /\ Len(s) \in Int
        /\ Len(s) - (i + 1) + 1 = Len(s) - i /\ i <= Len(s)
    BY <1>1
  <2>2. /\ back \in Seq(S) /\ Len(back) = IF i + 1 <= Len(s) THEN Len(s) - i ELSE 0
        /\ \A j \in 1 .. Len(s) - i : back[j] = s[(i + 1) + j - 1]
    BY <2>1, SubSeqProperties
  <2>3. \A j \in 1 .. Len(s) - i : (i + 1) + j - 1 = i + j
    BY <1>1
  <2> HIDE DEF back
  <2>4. Len(back) = Len(s) - i
    <3>1. CASE i < Len(s)
      BY <1>1, <2>2, <3>1
    <3>2. CASE i = Len(s)
      BY <1>1, <2>2, <3>2
    <3> QED
      BY <1>1, <3>1, <3>2
  <2> QED
    BY <2>2, <2>3, <2>4
<1>4. /\ front \o back \in Seq(S) /\ Len(front \o back) = Len(s) - 1
      /\ \A j \in 1 .. Len(s) - 1 :
           (front \o back)[j] = IF j <= i - 1 THEN front[j] ELSE back[j - (i - 1)]
  <2> HIDE DEF front, back
  <2>1. Len(front) + Len(back) = Len(s) - 1
    BY <1>1, <1>2, <1>3
  <2>2. /\ front \o back \in Seq(S) /\ Len(front \o back) = Len(front) + Len(back)
        /\ \A j \in 1 .. Len(front) + Len(back) :
             (front \o back)[j] = IF j <= Len(front) THEN front[j] ELSE back[j - Len(front)]
    BY <1>2, <1>3, ConcatProperties
  <2> QED
    BY <1>2, <2>1, <2>2
<1>5. \A j \in 1 .. Len(s) - 1 : (front \o back)[j] = IF j < i THEN s[j] ELSE s[j + 1]
  <2> HIDE DEF front, back
  <2>1. SUFFICES ASSUME NEW j \in 1 .. Len(s) - 1
                 PROVE  (front \o back)[j] = IF j < i THEN s[j] ELSE s[j + 1]
    OBVIOUS
  <2>2. CASE j < i
    BY <1>1, <1>2, <1>4, <2>2
  <2>3. CASE ~ j < i
    <3>1. j - (i - 1) \in 1 .. Len(s) - i /\ i + (j - (i - 1)) = j + 1 /\ ~ j <= i - 1
      BY <1>1, <2>3
    <3> QED
      BY <1>3, <1>4, <2>3, <3>1
  <2> QED
    BY <2>2, <2>3
<1>6. RemoveAt(s, i) = front \o back
  BY DEF RemoveAt
<1> HIDE DEF front, back
<1> QED
  BY <1>4, <1>5, <1>6

\* Taking the first entry is taking out an entry at place 1.
LEMMA TailRemoves ==
  ASSUME NEW S, NEW s \in Seq(S), s # <<>>
  PROVE  Tail(s) = RemoveAt(s, 1) /\ Head(s) = s[1] /\ 1 \in 1 .. Len(s)
<1>1. 1 \in 1 .. Len(s) /\ Head(s) = s[1]
  BY EmptySeq
<1>2. /\ RemoveAt(s, 1) \in Seq(S) /\ Len(RemoveAt(s, 1)) = Len(s) - 1
      /\ \A j \in 1 .. Len(s) - 1 : RemoveAt(s, 1)[j] = s[j + 1]
  BY <1>1, RemoveAtEntries
<1>3. /\ Tail(s) \in Seq(S) /\ Len(Tail(s)) = Len(s) - 1
      /\ \A j \in 1 .. Len(s) - 1 : Tail(s)[j] = s[j + 1]
  BY HeadTailProperties
<1> QED
  BY <1>1, <1>2, <1>3, SeqEqual

\* Putting the entry back where it was.
LEMMA RemovedPutBack ==
  ASSUME NEW S, NEW s \in Seq(S), NEW i \in 1 .. Len(s)
  PROVE  i \in 1 .. Len(RemoveAt(s, i)) + 1 /\ s[i] \in S /\ InsertAt(RemoveAt(s, i), i, s[i]) = s
<1>1. PICK r \in Seq(S) : r = RemoveAt(s, i)
  BY RemoveAtEntries
<1>2. PICK x \in S : x = s[i]
  OBVIOUS
<1>3. /\ Len(r) = Len(s) - 1 /\ Len(s) \in Nat
      /\ \A j \in 1 .. Len(s) - 1 : r[j] = IF j < i THEN s[j] ELSE s[j + 1]
  BY <1>1, RemoveAtEntries, LenProperties
<1>4. i \in 1 .. Len(r) + 1 /\ Len(r) + 1 = Len(s)
  BY <1>3
<1>5. /\ InsertAt(r, i, x) \in Seq(S) /\ Len(InsertAt(r, i, x)) = Len(r) + 1
      /\ \A j \in 1 .. Len(r) + 1 :
           InsertAt(r, i, x)[j] = IF j < i THEN r[j] ELSE IF j = i THEN x ELSE r[j - 1]
  BY <1>4, InsertAtEntries
<1>6. ASSUME NEW j \in 1 .. Len(s)
      PROVE  InsertAt(r, i, x)[j] = s[j]
  <2>1. CASE j < i
    BY <1>3, <1>4, <1>5, <2>1
  <2>2. CASE j = i
    BY <1>2, <1>4, <1>5, <2>2
  <2>3. CASE i < j
    <3>1. j - 1 \in 1 .. Len(s) - 1 /\ ~ j - 1 < i /\ (j - 1) + 1 = j
      BY <1>3, <2>3
    <3> QED
      BY <1>3, <1>4, <1>5, <2>3, <3>1
  <2> QED
    BY <2>1, <2>2, <2>3
<1>7. InsertAt(r, i, x) = s
  BY <1>4, <1>5, <1>6, SeqEqual
<1> QED
  BY <1>1, <1>2, <1>4, <1>7

-----------------------------------------------------------------------------
(* Counting entries                                                         *)

\* Where a sequence holds a member of E.
Places(s, E) == {j \in DOMAIN s : s[j] \in E}

\* The places of a sequence that hold an entry of a set are finitely many.
LEMMA PlacesFinite ==
  ASSUME NEW S, NEW s \in Seq(S), NEW E
  PROVE  IsFiniteSet(Places(s, E)) /\ Cardinality(Places(s, E)) \in Nat
<1>1. Places(s, E) \in SUBSET (1 .. Len(s)) /\ Len(s) \in Nat
  BY DEF Places
<1>2. IsFiniteSet(1 .. Len(s))
  BY <1>1, FS_Interval
<1> QED
  BY <1>1, <1>2, FS_Subset, FS_CardinalityType

\* An entry put in is one more: the entries from its place on have moved up by one.
LEMMA InsertCounts ==
  ASSUME NEW S, NEW s \in Seq(S), NEW e \in S, NEW i \in 1 .. Len(s) + 1, NEW E
  PROVE  Cardinality(Places(InsertAt(s, i, e), E)) =
           Cardinality(Places(s, E)) + (IF e \in E THEN 1 ELSE 0)
<1>1. PICK new \in Seq(S) : new = InsertAt(s, i, e)
  BY InsertAtEntries
<1>2. /\ Len(s) \in Nat /\ Len(new) = Len(s) + 1
      /\ DOMAIN s = 1 .. Len(s) /\ DOMAIN new = 1 .. Len(s) + 1
      /\ \A j \in 1 .. Len(s) + 1 : new[j] = IF j < i THEN s[j] ELSE IF j = i THEN e ELSE s[j - 1]
  <2>1. Len(s) \in Nat /\ DOMAIN s = 1 .. Len(s) /\ DOMAIN new = 1 .. Len(new)
    OBVIOUS
  <2>2. /\ Len(new) = Len(s) + 1
        /\ \A j \in 1 .. Len(s) + 1 :
             new[j] = IF j < i THEN s[j] ELSE IF j = i THEN e ELSE s[j - 1]
    <3>1. /\ Len(InsertAt(s, i, e)) = Len(s) + 1
          /\ \A j \in 1 .. Len(s) + 1 :
               InsertAt(s, i, e)[j] = IF j < i THEN s[j] ELSE IF j = i THEN e ELSE s[j - 1]
      BY InsertAtEntries
    <3> QED
      BY <1>1, <3>1
  <2> QED
    BY <2>1, <2>2
<1> DEFINE Up(j) == IF j < i THEN j ELSE j + 1
           moved == [j \in Places(s, E) |-> Up(j)]
           others == Places(new, E) \ {i}
<1>3. \A j \in 1 .. Len(s) : Up(j) \in (1 .. Len(s) + 1) \ {i} /\ new[Up(j)] = s[j]
  <2> SUFFICES ASSUME NEW j \in 1 .. Len(s)
               PROVE  Up(j) \in (1 .. Len(s) + 1) \ {i} /\ new[Up(j)] = s[j]
    OBVIOUS
  <2>1. CASE j < i
    BY <1>2, <2>1
  <2>2. CASE ~ j < i
    <3>1. j + 1 \in 1 .. Len(s) + 1 /\ ~ j + 1 < i /\ j + 1 # i /\ (j + 1) - 1 = j
      BY <1>2, <2>2
    <3> QED
      BY <1>2, <2>2, <3>1
  <2> QED
    BY <2>1, <2>2
<1>4. moved \in [Places(s, E) -> others]
  <2> SUFFICES ASSUME NEW j \in Places(s, E) PROVE Up(j) \in others
    OBVIOUS
  <2> HIDE DEF Up
  <2> QED
    BY <1>2, <1>3 DEF Places
<1>5. \A j, k \in Places(s, E) : moved[j] = moved[k] => j = k
  BY <1>2 DEF Places
<1>6. \A k \in others : \E j \in Places(s, E) : moved[j] = k
  <2> SUFFICES ASSUME NEW k \in others PROVE \E j \in Places(s, E) : moved[j] = k
    OBVIOUS
  <2>1. k \in 1 .. Len(s) + 1 /\ k # i /\ new[k] \in E
    BY <1>2 DEF Places
  <2>2. CASE k < i
    <3>1. k \in Places(s, E) /\ Up(k) = k
      BY <1>2, <2>1, <2>2 DEF Places
    <3> QED
      BY <3>1
  <2>3. CASE i < k
    <3>1. k - 1 \in Places(s, E) /\ Up(k - 1) = k
      BY <1>2, <2>1, <2>3 DEF Places
    <3> QED
      BY <3>1
  <2> QED
    BY <2>1, <2>2, <2>3
<1>7. Cardinality(others) = Cardinality(Places(s, E))
  <2>1. moved \in Bijection(Places(s, E), others)
    BY <1>4, <1>5, <1>6 DEF Bijection, Injection, Surjection, IsInjective
  <2> QED
    BY <2>1, PlacesFinite, FS_Bijection DEF ExistsBijection
<1>8. i \in Places(new, E) <=> e \in E
  BY <1>2 DEF Places
<1>9. IsFiniteSet(Places(new, E)) /\ Cardinality(Places(new, E)) \in Nat /\ Cardinality(Places(s, E)) \in Nat
  BY PlacesFinite
<1>10. Cardinality(others) = IF e \in E THEN Cardinality(Places(new, E)) - 1 ELSE Cardinality(Places(new, E))
  BY <1>8, <1>9, FS_RemoveElement
<1> HIDE DEF others
<1> QED
  BY <1>1, <1>7, <1>9, <1>10

\* An entry taken out is one less.
LEMMA RemoveCounts ==
  ASSUME NEW S, NEW s \in Seq(S), NEW i \in 1 .. Len(s), NEW E
  PROVE  Cardinality(Places(s, E)) =
           Cardinality(Places(RemoveAt(s, i), E)) + (IF s[i] \in E THEN 1 ELSE 0)
<1>1. PICK r \in Seq(S) : r = RemoveAt(s, i)
  BY RemoveAtEntries
<1>2. PICK x \in S : x = s[i]
  OBVIOUS
<1>3. i \in 1 .. Len(r) + 1 /\ InsertAt(r, i, x) = s
  BY <1>1, <1>2, RemovedPutBack
<1>4. Cardinality(Places(InsertAt(r, i, x), E)) = Cardinality(Places(r, E)) + (IF x \in E THEN 1 ELSE 0)
  BY <1>3, InsertCounts
<1> QED
  BY <1>1, <1>2, <1>3, <1>4

-----------------------------------------------------------------------------
(* The list of timeouts                                                     *)

Entries == [h : Handlers, time : U32]

\* How many entries of a list have a handler in H.
NumberOf(s, H) == Cardinality({j \in DOMAIN s : s[j].h \in H})

\* How many entries of some handlers a list holds, as a number of places.
LEMMA NumberIsNat ==
  ASSUME NEW s \in Seq(Entries), NEW H
  PROVE  /\ NumberOf(s, H) \in Nat
         /\ NumberOf(s, H) = Cardinality(Places(s, {e \in Entries : e.h \in H}))
<1>1. {j \in DOMAIN s : s[j].h \in H} = Places(s, {e \in Entries : e.h \in H})
  BY DEF Places
<1> QED
  BY <1>1, PlacesFinite DEF NumberOf

\* An entry put in counts for its handler.
LEMMA InsertNumber ==
  ASSUME NEW s \in Seq(Entries), NEW e \in Entries, NEW i \in 1 .. Len(s) + 1, NEW H
  PROVE  NumberOf(InsertAt(s, i, e), H) = NumberOf(s, H) + (IF e.h \in H THEN 1 ELSE 0)
<1> DEFINE E == {f \in Entries : f.h \in H}
<1>1. InsertAt(s, i, e) \in Seq(Entries)
  BY InsertAtEntries
<1>2. NumberOf(InsertAt(s, i, e), H) = Cardinality(Places(InsertAt(s, i, e), E))
  BY <1>1, NumberIsNat
<1>3. NumberOf(s, H) = Cardinality(Places(s, E))
  BY NumberIsNat
<1>4. e \in E <=> e.h \in H
  OBVIOUS
<1>5. Cardinality(Places(InsertAt(s, i, e), E)) = Cardinality(Places(s, E)) + (IF e \in E THEN 1 ELSE 0)
  <2> HIDE DEF E
  <2> QED
    BY InsertCounts
<1> HIDE DEF E
<1> QED
  BY <1>2, <1>3, <1>4, <1>5

\* An entry taken out no longer counts for its handler.
LEMMA RemoveNumber ==
  ASSUME NEW s \in Seq(Entries), NEW i \in 1 .. Len(s), NEW H
  PROVE  NumberOf(s, H) = NumberOf(RemoveAt(s, i), H) + (IF s[i].h \in H THEN 1 ELSE 0)
<1> DEFINE E == {f \in Entries : f.h \in H}
<1>1. RemoveAt(s, i) \in Seq(Entries)
  BY RemoveAtEntries
<1>2. NumberOf(RemoveAt(s, i), H) = Cardinality(Places(RemoveAt(s, i), E))
  BY <1>1, NumberIsNat
<1>3. NumberOf(s, H) = Cardinality(Places(s, E))
  BY NumberIsNat
<1>4. s[i] \in E <=> s[i].h \in H
  OBVIOUS
<1>5. Cardinality(Places(s, E)) = Cardinality(Places(RemoveAt(s, i), E)) + (IF s[i] \in E THEN 1 ELSE 0)
  <2> HIDE DEF E
  <2> QED
    BY RemoveCounts
<1> HIDE DEF E
<1> QED
  BY <1>2, <1>3, <1>4, <1>5

\* sys_timeout_abs puts the entry before the first one that is due later.
LEMMA InsertedPlace ==
  ASSUME NEW s \in Seq(Entries), NEW e \in Entries
  PROVE  \E i \in 1 .. Len(s) + 1 :
           /\ Inserted(s, e) = InsertAt(s, i, e)
           /\ \A j \in 1 .. i - 1 : ~ TIME_LESS_THAN(e.time, s[j].time)
           /\ i <= Len(s) => TIME_LESS_THAN(e.time, s[i].time)
<1> DEFINE later == {j \in DOMAIN s : TIME_LESS_THAN(e.time, s[j].time)}
<1>1. Len(s) \in Nat /\ later \subseteq 1 .. Len(s) /\ DOMAIN s = 1 .. Len(s)
  OBVIOUS
<1>2. CASE later = {}
  <2>1. Inserted(s, e) = InsertAt(s, Len(s) + 1, e)
    BY <1>2 DEF Inserted
  <2>2. \A j \in 1 .. Len(s) : ~ TIME_LESS_THAN(e.time, s[j].time)
    BY <1>1, <1>2
  <2> QED
    BY <1>1, <2>1, <2>2
<1>3. CASE later # {}
  <2>1. Inserted(s, e) = InsertAt(s, Min(later), e)
    BY <1>3 DEF Inserted
  <2>2. Min(later) \in later /\ \A j \in later : Min(later) <= j
    <3> HIDE DEF later
    <3>1. later \subseteq Nat
      BY <1>1
    <3> QED
      BY <1>3, <3>1, LeastNat
  <2>3. PICK i \in later : i = Min(later)
    BY <2>2
  <2>4. \A j \in 1 .. i - 1 : ~ TIME_LESS_THAN(e.time, s[j].time)
    <3> SUFFICES ASSUME NEW j \in 1 .. i - 1, TIME_LESS_THAN(e.time, s[j].time)
                 PROVE  FALSE
      OBVIOUS
    <3>1. j \in later
      BY <1>1
    <3>2. i \in Int /\ j \in Int /\ j < i
      BY <1>1
    <3> HIDE DEF later
    <3> QED
      BY <2>2, <2>3, <3>1, <3>2
  <2>5. i \in 1 .. Len(s) + 1 /\ TIME_LESS_THAN(e.time, s[i].time)
    BY <1>1
  <2> QED
    BY <2>1, <2>3, <2>4, <2>5
<1> QED
  BY <1>2, <1>3

\* What putting an entry in, and taking one out, does to the numbers of entries.
Puts(s, t, h) ==
  /\ t \in Seq(Entries) /\ Len(t) = Len(s) + 1
  /\ \A H : NumberOf(t, H) = NumberOf(s, H) + (IF h \in H THEN 1 ELSE 0)

\* The sorted list with one more entry has one more of that handler, no more.
LEMMA InsertedPuts ==
  ASSUME NEW s \in Seq(Entries), NEW h \in Handlers, NEW time \in U32
  PROVE  Puts(s, Inserted(s, [h |-> h, time |-> time]), h)
<1>1. PICK e \in Entries : e = [h |-> h, time |-> time]
  BY DEF Entries
<1>2. PICK i \in 1 .. Len(s) + 1 : Inserted(s, e) = InsertAt(s, i, e)
  BY InsertedPlace
<1>3. InsertAt(s, i, e) \in Seq(Entries) /\ Len(InsertAt(s, i, e)) = Len(s) + 1
  BY InsertAtEntries
<1>4. \A H : NumberOf(InsertAt(s, i, e), H) = NumberOf(s, H) + (IF e.h \in H THEN 1 ELSE 0)
  BY InsertNumber
<1>5. e.h = h
  BY <1>1
<1> QED
  BY <1>1, <1>2, <1>3, <1>4, <1>5 DEF Puts

\* Taking an entry out undoes putting it in.
LEMMA RemovePuts ==
  ASSUME NEW s \in Seq(Entries), NEW i \in 1 .. Len(s)
  PROVE  Puts(RemoveAt(s, i), s, s[i].h)
<1>1. RemoveAt(s, i) \in Seq(Entries) /\ Len(RemoveAt(s, i)) = Len(s) - 1 /\ Len(s) \in Nat
  BY RemoveAtEntries, LenProperties
<1>2. \A H : NumberOf(s, H) = NumberOf(RemoveAt(s, i), H) + (IF s[i].h \in H THEN 1 ELSE 0)
  BY RemoveNumber
<1> QED
  BY <1>1, <1>2 DEF Puts

-----------------------------------------------------------------------------
(* The numbers of timers                                                    *)

Serving(H) == IF handler \in H THEN 1 ELSE 0

\* Each list entry and each handler that runs is accounted for: the cyclic timers
\* by lwip_cyclic_timers, the TCP timer by its flag, the others by their users.
Numbers ==
  /\ handler # None <=> pc = "handler"
  /\ unstarted # {} => pc = "init"
  /\ \A c \in Cyclic : NumberOf(next_timeout, {c}) + Serving({c}) + (IF c \in unstarted THEN 1 ELSE 0) = 1
  /\ NumberOf(next_timeout, {TcpTimer}) + Serving({TcpTimer}) = IF tcpip_tcp_timer_active THEN 1 ELSE 0
  /\ tcpPcbs => tcpip_tcp_timer_active
  /\ NumberOf(next_timeout, OneShots) <= MaxOneShots
  /\ NumberOf(next_timeout, Cyclic) + Serving(Cyclic) + Cardinality(unstarted) = Cardinality(Cyclic)
  /\ Len(next_timeout) =
       NumberOf(next_timeout, Cyclic) + NumberOf(next_timeout, {TcpTimer}) + NumberOf(next_timeout, OneShots)

NumbersInv == TypeOK /\ (pc # "asserted" => Numbers)

\* The counts of the model are these numbers.
LEMMA CountIsNumber ==
  /\ \A h : Count(h) = NumberOf(next_timeout, {h})
  /\ OneShotCount = NumberOf(next_timeout, OneShots)
<1>1. ASSUME NEW h PROVE Count(h) = NumberOf(next_timeout, {h})
  <2>1. {i \in DOMAIN next_timeout : next_timeout[i].h = h} = {i \in DOMAIN next_timeout : next_timeout[i].h \in {h}}
    OBVIOUS
  <2> QED
    BY <2>1 DEF Count, NumberOf
<1> QED
  BY <1>1 DEF OneShotCount, NumberOf

\* The clock is a 32-bit number whatever is added to it.
LEMMA ModType == \A x \in Int : x % ClockModulus \in U32
BY ClockAssumption DEF U32

\* Intervals and delays are numbers.
LEMMA Delay ==
  /\ \A c \in Cyclic : Interval[c] \in Nat
  /\ TcpInterval \in Nat /\ Delays \subseteq Nat
BY ClockAssumption

\* sys_timeout_abs by the branch it takes.
LEMMA AbsPuts ==
  ASSUME TypeOK, NEW time \in U32, NEW h \in Handlers, NEW then,
         sys_timeout_abs(time, h, then)
  PROVE  \/ /\ Len(next_timeout) < PoolSize
            /\ pc' = then
            /\ Puts(next_timeout, next_timeout', h)
            /\ next_timeout' = Inserted(next_timeout, [h |-> h, time |-> time])
         \/ /\ ~ Len(next_timeout) < PoolSize
            /\ pc' = "asserted"
            /\ next_timeout' = next_timeout
<1>1. next_timeout \in Seq(Entries)
  BY DEF TypeOK, Entries
<1>2. Puts(next_timeout, Inserted(next_timeout, [h |-> h, time |-> time]), h)
  BY <1>1, InsertedPuts
<1> QED
  BY <1>2 DEF sys_timeout_abs

\* The assertion ends the program: only the clock goes on.
LEMMA AssertedStays == pc = "asserted" /\ [Next]_vars => pc' = "asserted"
BY DEF Next, vars, StartCyclic, UserStart, sys_untimeout, TcpNeeded, TcpUnneeded, UserTurn, Check,
  CheckBegin, CheckReturn, Expire, HandlerReturn, CyclicReturn, TcpReturn, OneShotReturn, SysTick

\* lwip_cyclic_timer puts its timer back, with a time of the clock's width.
LEMMA CyclicReturnPuts ==
  ASSUME TypeOK, CyclicReturn
  PROVE  \E time \in U32 : sys_timeout_abs(time, handler, "check")
<1> DEFINE next == (current_timeout_due_time + Interval[handler]) % ClockModulus
           time == IF TIME_LESS_THAN(next, now) THEN (now + Interval[handler]) % ClockModulus ELSE next
<1>1. sys_timeout_abs(time, handler, "check") /\ handler \in Cyclic
  BY DEF CyclicReturn
<1>2. Interval[handler] \in Nat /\ current_timeout_due_time \in Int /\ now \in Int
  BY <1>1, Delay, ClockAssumption DEF TypeOK, U32
<1>3. next \in U32 /\ (now + Interval[handler]) % ClockModulus \in U32
  BY <1>2, ModType
<1>4. time \in U32
  <2> HIDE DEF next
  <2> QED
    BY <1>3
<1> HIDE DEF time
<1> QED
  BY <1>1, <1>4

\* sys_untimeout takes the first entry of its handler out.
LEMMA UntimeoutRemoves ==
  ASSUME TypeOK, NEW h, sys_untimeout(h)
  PROVE  \E i \in 1 .. Len(next_timeout) :
           /\ next_timeout' = RemoveAt(next_timeout, i)
           /\ next_timeout[i].h = h
           /\ \A j \in 1 .. i - 1 : next_timeout[j].h # h
<1> DEFINE mine == {i \in DOMAIN next_timeout : next_timeout[i].h = h}
<1>1. mine \subseteq 1 .. Len(next_timeout) /\ DOMAIN next_timeout = 1 .. Len(next_timeout)
      /\ Len(next_timeout) \in Nat
  BY DEF TypeOK
<1>2. mine # {}
  BY FS_EmptySet DEF sys_untimeout, Count
<1>3. Min(mine) \in mine /\ \A j \in mine : Min(mine) <= j
  <2> HIDE DEF mine
  <2>1. mine \subseteq Nat
    BY <1>1
  <2> QED
    BY <1>2, <2>1, LeastNat
<1>4. PICK i \in mine : i = Min(mine)
  BY <1>3
<1>5. \A j \in 1 .. i - 1 : next_timeout[j].h # h
  <2> SUFFICES ASSUME NEW j \in 1 .. i - 1, next_timeout[j].h = h
               PROVE  FALSE
    OBVIOUS
  <2>1. j \in mine
    BY <1>1
  <2>2. i \in Int /\ j \in Int /\ j < i
    BY <1>1
  <2> HIDE DEF mine
  <2> QED
    BY <1>3, <1>4, <2>1, <2>2
<1> QED
  BY <1>1, <1>4, <1>5 DEF sys_untimeout

\* Init, and the types.
LEMMA NumbersInit == Init => NumbersInv
<1> SUFFICES ASSUME Init PROVE NumbersInv
  OBVIOUS
<1>1. TypeOK
  <2>1. 0 \in U32 /\ <<>> \in Seq([h : Handlers, time : U32])
    BY ClockAssumption DEF U32
  <2> QED
    BY <2>1 DEF Init, TypeOK
<1>2. \A H : NumberOf(<<>>, H) = 0
  <2> TAKE H
  <2>1. {j \in DOMAIN <<>> : <<>>[j].h \in H} = {}
    OBVIOUS
  <2> QED
    BY <2>1, FS_EmptySet DEF NumberOf
<1>3. None \notin Cyclic /\ None # TcpTimer
  BY HandlersAssumption
<1>4. Cardinality(Cyclic) \in Nat
  BY HandlersAssumption, FS_CardinalityType
<1> QED
  BY <1>1, <1>2, <1>3, <1>4, PoolAssumption DEF Init, NumbersInv, Numbers, Serving

\* The types, step by step.
LEMMA TypesKept == TypeOK /\ [Next]_vars => TypeOK'
<1> SUFFICES ASSUME TypeOK, [Next]_vars PROVE TypeOK'
  OBVIOUS
<1>0. /\ now \in U32 /\ now \in Int /\ 0 \in U32
      /\ next_timeout \in Seq(Entries)
      /\ Cyclic \subseteq Handlers /\ OneShots \subseteq Handlers /\ TcpTimer \in Handlers
      /\ (now + 1) % ClockModulus \in U32
  <2>1. now \in U32 /\ now \in Int /\ 0 \in U32
    BY ClockAssumption DEF TypeOK, U32
  <2>2. next_timeout \in Seq(Entries)
    BY DEF TypeOK, Entries
  <2> QED
    BY <2>1, <2>2, ModType DEF Handlers
<1>1. \A d \in Nat : (now + d) % ClockModulus \in U32
  BY <1>0, ModType
<1>2. CASE \E c \in Cyclic : StartCyclic(c)
  <2>1. PICK c \in Cyclic : StartCyclic(c)
    BY <1>2
  <2>2. (now + Interval[c]) % ClockModulus \in U32 /\ c \in Handlers
    BY <1>0, <1>1, Delay
  <2> DEFINE then == IF unstarted = {c} THEN "idle" ELSE "init"
  <2>3. next_timeout' \in Seq(Entries) /\ pc' \in {then, "asserted"}
    <3> HIDE DEF then
    <3>1. sys_timeout_abs((now + Interval[c]) % ClockModulus, c, then)
      BY <2>1 DEF StartCyclic, sys_timeout, then
    <3> QED
      BY <1>0, <2>2, <3>1, AbsPuts DEF Puts
  <2> QED
    BY <2>1, <2>3 DEF StartCyclic, TypeOK, Entries
<1>3. CASE \E h \in OneShots, d \in Delays : UserStart(h, d)
  <2>1. PICK h \in OneShots, d \in Delays : UserStart(h, d)
    BY <1>3
  <2>2. (now + d) % ClockModulus \in U32 /\ h \in Handlers
    BY <1>0, <1>1, Delay
  <2>3. next_timeout' \in Seq(Entries) /\ pc' \in {pc, "asserted"}
    <3>1. sys_timeout_abs((now + d) % ClockModulus, h, pc)
      BY <2>1 DEF UserStart, sys_timeout
    <3> QED
      BY <1>0, <2>2, <3>1, AbsPuts DEF Puts
  <2> QED
    BY <2>1, <2>3 DEF UserStart, TypeOK, Entries
<1>4. CASE \E h \in OneShots : sys_untimeout(h)
  <2>1. PICK h \in OneShots : sys_untimeout(h)
    BY <1>4
  <2>2. PICK i \in 1 .. Len(next_timeout) : next_timeout' = RemoveAt(next_timeout, i)
    BY <2>1, UntimeoutRemoves
  <2>3. next_timeout' \in Seq(Entries)
    BY <1>0, <2>2, RemoveAtEntries
  <2> QED
    BY <2>1, <2>3 DEF sys_untimeout, TypeOK, Entries
<1>5. CASE TcpNeeded
  <2>1. next_timeout' \in Seq(Entries) /\ pc' \in {pc, "asserted"}
    <3>1. CASE tcpip_tcp_timer_active
      BY <1>0, <1>5, <3>1 DEF TcpNeeded
    <3>2. CASE ~ tcpip_tcp_timer_active
      <4>1. sys_timeout_abs((now + TcpInterval) % ClockModulus, TcpTimer, pc)
        BY <1>5, <3>2 DEF TcpNeeded, sys_timeout
      <4> QED
        BY <1>0, <1>1, <4>1, Delay, AbsPuts DEF Puts
    <3> QED
      BY <3>1, <3>2
  <2> QED
    BY <1>5, <2>1 DEF TcpNeeded, TypeOK, Entries
<1>6. CASE TcpUnneeded
  BY <1>6 DEF TcpUnneeded, TypeOK
<1>7. CASE Check
  <2>1. CASE CheckBegin
    BY <2>1 DEF CheckBegin, TypeOK
  <2>2. CASE CheckReturn
    BY <1>0, <2>2 DEF CheckReturn, TypeOK
  <2>3. CASE Expire
    <3>1. next_timeout # <<>>
      BY <2>3 DEF Expire, NoneDue
    <3>2. Tail(next_timeout) \in Seq(Entries) /\ Head(next_timeout) \in Entries
      BY <1>0, <3>1, HeadTailProperties
    <3> QED
      BY <2>3, <3>2 DEF Expire, TypeOK, Entries
  <2> QED
    BY <1>7, <2>1, <2>2, <2>3 DEF Check
<1>8. CASE HandlerReturn
  <2>1. CASE CyclicReturn
    <3>1. PICK time \in U32 : sys_timeout_abs(time, handler, "check")
      BY <2>1, CyclicReturnPuts
    <3>2. handler \in Handlers
      BY <1>0, <2>1 DEF CyclicReturn
    <3>3. next_timeout' \in Seq(Entries) /\ pc' \in {"check", "asserted"}
      BY <1>0, <3>1, <3>2, AbsPuts DEF Puts
    <3> QED
      BY <1>0, <2>1, <3>3 DEF CyclicReturn, HandlerDone, TypeOK, Entries
  <2>2. CASE TcpReturn
    <3>1. next_timeout' \in Seq(Entries) /\ pc' \in {"check", "asserted"}
      <4>1. CASE ~ tcpPcbs
        BY <1>0, <2>2, <4>1 DEF TcpReturn
      <4>2. CASE tcpPcbs
        <5>1. sys_timeout_abs((now + TcpInterval) % ClockModulus, TcpTimer, "check")
          BY <2>2, <4>2 DEF TcpReturn, sys_timeout
        <5> QED
          BY <1>0, <1>1, <5>1, Delay, AbsPuts DEF Puts
      <4> QED
        BY <4>1, <4>2
    <3> QED
      BY <1>0, <2>2, <3>1 DEF TcpReturn, HandlerDone, TypeOK, Entries
  <2>3. CASE OneShotReturn
    BY <1>0, <2>3 DEF OneShotReturn, HandlerDone, TypeOK
  <2> QED
    BY <1>8, <2>1, <2>2, <2>3 DEF HandlerReturn
<1>9. CASE SysTick
  BY <1>0, <1>9 DEF SysTick, TypeOK
<1>10. CASE UNCHANGED vars
  BY <1>10 DEF vars, TypeOK
<1> QED
  BY <1>2, <1>3, <1>4, <1>5, <1>6, <1>7, <1>8, <1>9, <1>10 DEF Next

\* The three kinds of timers.
LEMMA Kinds ==
  /\ \A c \in Cyclic : c \notin OneShots /\ c # TcpTimer /\ c # None
  /\ \A h \in OneShots : h \notin Cyclic /\ h # TcpTimer /\ h # None
  /\ TcpTimer \notin Cyclic /\ TcpTimer \notin OneShots /\ TcpTimer # None
  /\ None \notin Cyclic /\ None \notin OneShots
BY HandlersAssumption

\* The counts, step by step, as long as the pool has not run empty.
LEMMA NumbersKept ==
  ASSUME NumbersInv, [Next]_vars, pc' # "asserted"
  PROVE  Numbers'
<1> DEFINE N(H) == NumberOf(next_timeout, H)
           M(H) == NumberOf(next_timeout', H)
<1>0. /\ TypeOK /\ TypeOK'
      /\ next_timeout \in Seq(Entries) /\ next_timeout' \in Seq(Entries)
      /\ Len(next_timeout) \in Nat
      /\ Cyclic \subseteq Handlers /\ OneShots \subseteq Handlers /\ TcpTimer \in Handlers
      /\ now \in Int /\ \A d \in Nat : (now + d) % ClockModulus \in U32
  <2>1. TypeOK /\ TypeOK'
    BY TypesKept DEF NumbersInv
  <2>2. next_timeout \in Seq(Entries) /\ next_timeout' \in Seq(Entries)
    BY <2>1 DEF TypeOK, Entries
  <2>3. now \in Int
    BY <2>1 DEF TypeOK, U32
  <2> QED
    BY <2>1, <2>2, <2>3, ModType DEF Handlers
<1>1. \A H : N(H) \in Nat /\ M(H) \in Nat
  BY <1>0, NumberIsNat
<1>2. Cardinality(Cyclic) \in Nat /\ IsFiniteSet(unstarted) /\ Cardinality(unstarted) \in Nat
  <2>1. unstarted \in SUBSET Cyclic
    BY <1>0 DEF TypeOK
  <2> QED
    BY <2>1, HandlersAssumption, FS_Subset, FS_CardinalityType
<1> HIDE DEF N, M
<1>3. CASE pc = "asserted"
  BY <1>3, AssertedStays
<1>4. SUFFICES ASSUME pc # "asserted", Numbers PROVE Numbers'
  BY <1>3 DEF NumbersInv
<1>5. /\ handler # None <=> pc = "handler"
      /\ unstarted # {} => pc = "init"
      /\ \A c \in Cyclic : N({c}) + Serving({c}) + (IF c \in unstarted THEN 1 ELSE 0) = 1
      /\ N({TcpTimer}) + Serving({TcpTimer}) = IF tcpip_tcp_timer_active THEN 1 ELSE 0
      /\ tcpPcbs => tcpip_tcp_timer_active
      /\ N(OneShots) <= MaxOneShots
      /\ N(Cyclic) + Serving(Cyclic) + Cardinality(unstarted) = Cardinality(Cyclic)
      /\ Len(next_timeout) = N(Cyclic) + N({TcpTimer}) + N(OneShots)
  BY <1>4 DEF Numbers, N
<1>6. SUFFICES /\ handler' # None <=> pc' = "handler"
               /\ unstarted' # {} => pc' = "init"
               /\ \A c \in Cyclic : M({c}) + Serving({c})' + (IF c \in unstarted' THEN 1 ELSE 0) = 1
               /\ M({TcpTimer}) + Serving({TcpTimer})' = IF tcpip_tcp_timer_active' THEN 1 ELSE 0
               /\ tcpPcbs' => tcpip_tcp_timer_active'
               /\ M(OneShots) <= MaxOneShots
               /\ M(Cyclic) + Serving(Cyclic)' + Cardinality(unstarted') = Cardinality(Cyclic)
               /\ Len(next_timeout') = M(Cyclic) + M({TcpTimer}) + M(OneShots)
  BY DEF Numbers, M
<1>7. \A h : Puts(next_timeout, next_timeout', h) =>
        /\ Len(next_timeout') = Len(next_timeout) + 1
        /\ \A H : M(H) = N(H) + (IF h \in H THEN 1 ELSE 0)
  BY DEF Puts, M, N
<1>8. \A h : Puts(next_timeout', next_timeout, h) =>
        /\ Len(next_timeout') = Len(next_timeout) - 1
        /\ \A H : M(H) = N(H) - (IF h \in H THEN 1 ELSE 0)
  <2> SUFFICES ASSUME NEW h, Puts(next_timeout', next_timeout, h)
               PROVE  /\ Len(next_timeout') = Len(next_timeout) - 1
                      /\ \A H : M(H) = N(H) - (IF h \in H THEN 1 ELSE 0)
    OBVIOUS
  <2>1. Len(next_timeout) = Len(next_timeout') + 1 /\ Len(next_timeout') \in Nat
    BY <1>0, LenProperties DEF Puts
  <2>2. \A H : N(H) = M(H) + (IF h \in H THEN 1 ELSE 0)
    BY DEF Puts, M, N
  <2> QED
    BY <1>1, <2>1, <2>2
<1>9. next_timeout' = next_timeout => Len(next_timeout') = Len(next_timeout) /\ \A H : M(H) = N(H)
  BY DEF M, N
<1>10. CASE \E c \in Cyclic : StartCyclic(c)
  <2>1. PICK c \in Cyclic : StartCyclic(c)
    BY <1>10
  <2> DEFINE then == IF unstarted = {c} THEN "idle" ELSE "init"
  <2>2. pc' = then /\ Puts(next_timeout, next_timeout', c)
    <3> HIDE DEF then
    <3>1. sys_timeout_abs((now + Interval[c]) % ClockModulus, c, then)
      BY <2>1 DEF StartCyclic, sys_timeout, then
    <3> QED
      BY <1>0, <3>1, Delay, AbsPuts
  <2>3. /\ c \in unstarted /\ unstarted' = unstarted \ {c} /\ pc = "init" /\ handler = None
        /\ UNCHANGED <<handler, tcpip_tcp_timer_active, tcpPcbs>>
    BY <1>5, <2>1 DEF StartCyclic
  <2>4. Cardinality(unstarted') = Cardinality(unstarted) - 1
    BY <1>2, <2>3, FS_RemoveElement
  <2>5. \A d \in Cyclic : M({d}) = N({d}) + (IF d = c THEN 1 ELSE 0)
    BY <1>7, <2>2
  <2>6. M({TcpTimer}) = N({TcpTimer}) /\ M(OneShots) = N(OneShots) /\ M(Cyclic) = N(Cyclic) + 1
    BY <1>1, <1>7, <2>2, Kinds
  <2>7. \A d \in Cyclic : M({d}) + Serving({d})' + (IF d \in unstarted' THEN 1 ELSE 0) = 1
    <3> TAKE d \in Cyclic
    <3>1. Serving({d})' = 0 /\ Serving({d}) = 0
      BY <2>3, Kinds DEF Serving
    <3>2. M({d}) = N({d}) + (IF d = c THEN 1 ELSE 0) /\ N({d}) \in Nat
      BY <1>1, <2>5
    <3>3. N({d}) + (IF d \in unstarted THEN 1 ELSE 0) = 1
      BY <1>1, <1>5, <3>1
    <3> QED
      BY <2>3, <3>1, <3>2, <3>3
  <2>8. Len(next_timeout') = Len(next_timeout) + 1
    BY <1>7, <2>2
  <2>9. /\ unstarted' # {} => pc' = "init"
        /\ handler' # None <=> pc' = "handler"
    BY <2>2, <2>3
  <2>10. Serving({TcpTimer})' = Serving({TcpTimer}) /\ Serving(Cyclic)' = Serving(Cyclic) /\ Serving(Cyclic) = 0
    BY <2>3, Kinds DEF Serving
  <2>11. M(Cyclic) + Serving(Cyclic)' + Cardinality(unstarted') = Cardinality(Cyclic)
    BY <1>1, <1>2, <1>5, <2>4, <2>6, <2>10
  <2> QED
    BY <1>1, <1>5, <2>3, <2>6, <2>7, <2>8, <2>9, <2>10, <2>11
<1>11. CASE \E h \in OneShots, d \in Delays : UserStart(h, d)
  <2>1. PICK h \in OneShots, d \in Delays : UserStart(h, d)
    BY <1>11
  <2>2. pc' = pc /\ Puts(next_timeout, next_timeout', h)
    <3>1. sys_timeout_abs((now + d) % ClockModulus, h, pc)
      BY <2>1 DEF UserStart, sys_timeout
    <3> QED
      BY <1>0, <3>1, Delay, AbsPuts
  <2>3. N(OneShots) < MaxOneShots /\ UNCHANGED <<handler, unstarted, tcpip_tcp_timer_active, tcpPcbs>>
    BY <2>1, CountIsNumber DEF UserStart, N
  <2>4. /\ \A c \in Cyclic : M({c}) = N({c})
        /\ M({TcpTimer}) = N({TcpTimer}) /\ M(OneShots) = N(OneShots) + 1 /\ M(Cyclic) = N(Cyclic)
        /\ Len(next_timeout') = Len(next_timeout) + 1
    <3>1. /\ Len(next_timeout') = Len(next_timeout) + 1
          /\ \A H : M(H) = N(H) + (IF h \in H THEN 1 ELSE 0)
      BY <1>7, <2>2, Zenon
    <3>2. \A H : h \notin H => M(H) = N(H)
      BY <1>1, <3>1
    <3>3. h \notin Cyclic /\ h # TcpTimer /\ \A c \in Cyclic : h # c
      BY Kinds
    <3>4. M({TcpTimer}) = N({TcpTimer}) /\ M(Cyclic) = N(Cyclic) /\ \A c \in Cyclic : M({c}) = N({c})
      BY <3>2, <3>3
    <3> QED
      BY <3>1, <3>4
  <2>5. /\ \A H : Serving(H)' = Serving(H)
        /\ handler' # None <=> pc' = "handler"
        /\ unstarted' # {} => pc' = "init"
    BY <1>5, <2>2, <2>3 DEF Serving
  <2>6. M(OneShots) <= MaxOneShots
    BY <1>1, <2>3, <2>4, PoolAssumption
  <2>7. \A c \in Cyclic : M({c}) + Serving({c})' + (IF c \in unstarted' THEN 1 ELSE 0) = 1
    BY <1>5, <2>3, <2>4, <2>5
  <2>8. /\ M({TcpTimer}) + Serving({TcpTimer})' = IF tcpip_tcp_timer_active' THEN 1 ELSE 0
        /\ tcpPcbs' => tcpip_tcp_timer_active'
        /\ M(Cyclic) + Serving(Cyclic)' + Cardinality(unstarted') = Cardinality(Cyclic)
    BY <1>5, <2>3, <2>4, <2>5
  <2>9. Len(next_timeout') = M(Cyclic) + M({TcpTimer}) + M(OneShots)
    BY <1>1, <1>5, <2>4
  <2> QED
    BY <2>5, <2>6, <2>7, <2>8, <2>9, Zenon
<1>12. CASE \E h \in OneShots : sys_untimeout(h)
  <2>1. PICK h \in OneShots : sys_untimeout(h)
    BY <1>12
  <2>2. Puts(next_timeout', next_timeout, h)
    BY <1>0, <2>1, UntimeoutRemoves, RemovePuts
  <2>3. UNCHANGED <<pc, handler, unstarted, tcpip_tcp_timer_active, tcpPcbs>>
    BY <2>1 DEF sys_untimeout
  <2>4. /\ \A c \in Cyclic : M({c}) = N({c})
        /\ M({TcpTimer}) = N({TcpTimer}) /\ M(OneShots) = N(OneShots) - 1 /\ M(Cyclic) = N(Cyclic)
        /\ Len(next_timeout') = Len(next_timeout) - 1
    BY <1>1, <1>8, <2>2, Kinds
  <2>5. /\ \A H : Serving(H)' = Serving(H)
        /\ handler' # None <=> pc' = "handler"
        /\ unstarted' # {} => pc' = "init"
    BY <1>5, <2>3 DEF Serving
  <2>6. M(OneShots) <= MaxOneShots
    BY <1>1, <1>5, <2>4, PoolAssumption
  <2> QED
    BY <1>0, <1>1, <1>5, <2>3, <2>4, <2>5, <2>6
<1>13. CASE TcpNeeded
  <2>1. /\ tcpPcbs' = TRUE /\ tcpip_tcp_timer_active' = TRUE
        /\ UNCHANGED <<handler, unstarted>>
    BY <1>13 DEF TcpNeeded
  <2>2. CASE tcpip_tcp_timer_active
    <3>1. next_timeout' = next_timeout /\ pc' = pc
      BY <1>13, <2>2 DEF TcpNeeded
    <3> QED
      BY <1>5, <1>9, <2>1, <2>2, <3>1 DEF Serving
  <2>3. CASE ~ tcpip_tcp_timer_active
    <3>1. pc' = pc /\ Puts(next_timeout, next_timeout', TcpTimer)
      <4>1. sys_timeout_abs((now + TcpInterval) % ClockModulus, TcpTimer, pc)
        BY <1>13, <2>3 DEF TcpNeeded, sys_timeout
      <4> QED
        BY <1>0, <4>1, Delay, AbsPuts
    <3>2. /\ \A c \in Cyclic : M({c}) = N({c})
          /\ M({TcpTimer}) = N({TcpTimer}) + 1 /\ M(OneShots) = N(OneShots) /\ M(Cyclic) = N(Cyclic)
          /\ Len(next_timeout') = Len(next_timeout) + 1
      BY <1>1, <1>7, <3>1, Kinds
    <3>3. /\ \A H : Serving(H)' = Serving(H)
          /\ handler' # None <=> pc' = "handler"
          /\ unstarted' # {} => pc' = "init"
      BY <1>5, <2>1, <3>1 DEF Serving
    <3>4. \A c \in Cyclic : M({c}) + Serving({c})' + (IF c \in unstarted' THEN 1 ELSE 0) = 1
      BY <1>5, <2>1, <3>2, <3>3
    <3>5. N({TcpTimer}) + Serving({TcpTimer}) = 0
      BY <1>5, <2>3
    <3>6. Serving({TcpTimer}) \in Nat
      BY DEF Serving
    <3>7. M({TcpTimer}) + Serving({TcpTimer})' = 1
      BY <1>1, <3>2, <3>3, <3>5, <3>6
    <3>8. /\ M(OneShots) <= MaxOneShots
          /\ M(Cyclic) + Serving(Cyclic)' + Cardinality(unstarted') = Cardinality(Cyclic)
      BY <1>5, <2>1, <3>2, <3>3
    <3>9. Len(next_timeout') = M(Cyclic) + M({TcpTimer}) + M(OneShots)
      BY <1>1, <1>5, <3>2
    <3> QED
      BY <2>1, <3>3, <3>4, <3>7, <3>8, <3>9, Zenon
  <2> QED
    BY <2>2, <2>3
<1>14. CASE TcpUnneeded
  <2>1. UNCHANGED <<next_timeout, pc, handler, unstarted, tcpip_tcp_timer_active>> /\ ~ tcpPcbs'
    BY <1>14 DEF TcpUnneeded
  <2> QED
    BY <1>5, <1>9, <2>1 DEF Serving
<1>15. CASE CheckBegin
  <2>1. /\ UNCHANGED <<next_timeout, handler, unstarted, tcpip_tcp_timer_active, tcpPcbs>>
        /\ pc = "idle" /\ pc' = "check"
    BY <1>15 DEF CheckBegin
  <2> QED
    BY <1>5, <1>9, <2>1 DEF Serving
<1>16. CASE CheckReturn
  <2>1. /\ UNCHANGED <<next_timeout, handler, unstarted, tcpip_tcp_timer_active, tcpPcbs>>
        /\ pc = "check" /\ pc' = "idle"
    BY <1>16 DEF CheckReturn
  <2> QED
    BY <1>5, <1>9, <2>1 DEF Serving
<1>17. CASE Expire
  <2>1. next_timeout # <<>>
    BY <1>17 DEF Expire, NoneDue
  <2>2. PICK h \in Handlers : h = handler' /\ Puts(next_timeout', next_timeout, h)
    <3>1. /\ Tail(next_timeout) = RemoveAt(next_timeout, 1) /\ Head(next_timeout) = next_timeout[1]
          /\ 1 \in 1 .. Len(next_timeout)
      BY <1>0, <2>1, TailRemoves
    <3>2. Puts(RemoveAt(next_timeout, 1), next_timeout, next_timeout[1].h)
      BY <1>0, <3>1, RemovePuts
    <3>3. next_timeout[1].h \in Handlers
      <4>1. next_timeout[1] \in Entries
        BY <1>0, <3>1
      <4> QED
        BY <4>1 DEF Entries
    <3> QED
      BY <1>17, <3>1, <3>2, <3>3 DEF Expire
  <2>3. /\ UNCHANGED <<unstarted, tcpip_tcp_timer_active, tcpPcbs>>
        /\ pc = "check" /\ pc' = "handler" /\ handler = None
    BY <1>5, <1>17 DEF Expire
  <2>4. /\ \A H : M(H) = N(H) - (IF h \in H THEN 1 ELSE 0)
        /\ Len(next_timeout') = Len(next_timeout) - 1
    BY <1>8, <2>2
  <2>5. \A c \in Cyclic : M({c}) + Serving({c})' = N({c}) + Serving({c})
    BY <1>1, <2>2, <2>3, <2>4, Kinds DEF Serving
  <2>6. M({TcpTimer}) + Serving({TcpTimer})' = N({TcpTimer}) + Serving({TcpTimer})
    BY <1>1, <2>2, <2>3, <2>4, Kinds DEF Serving
  <2>7. M(Cyclic) + Serving(Cyclic)' = N(Cyclic) + Serving(Cyclic)
    BY <1>1, <2>2, <2>3, <2>4, Kinds DEF Serving
  <2>8. M(OneShots) <= N(OneShots)
    BY <1>1, <2>4
  <2>9. M(Cyclic) + M({TcpTimer}) + M(OneShots) = N(Cyclic) + N({TcpTimer}) + N(OneShots) - 1
    <3>1. /\ M(Cyclic) = N(Cyclic) - (IF h \in Cyclic THEN 1 ELSE 0)
          /\ M({TcpTimer}) = N({TcpTimer}) - (IF h = TcpTimer THEN 1 ELSE 0)
          /\ M(OneShots) = N(OneShots) - (IF h \in OneShots THEN 1 ELSE 0)
      BY <2>4
    <3>2. N(Cyclic) \in Nat /\ N({TcpTimer}) \in Nat /\ N(OneShots) \in Nat
      BY <1>1
    <3>3. h \in Cyclic \/ h \in OneShots \/ h = TcpTimer
      BY DEF Handlers
    <3> QED
      BY <3>1, <3>2, <3>3, Kinds
  <2>10. handler' # None
    BY <2>2, Kinds DEF Handlers
  <2>11. M(OneShots) <= MaxOneShots
    BY <1>1, <1>5, <2>8, PoolAssumption
  <2>12. Len(next_timeout') = M(Cyclic) + M({TcpTimer}) + M(OneShots)
    <3>1. Len(next_timeout') = Len(next_timeout) - 1
      BY <2>4
    <3>2. Len(next_timeout) = N(Cyclic) + N({TcpTimer}) + N(OneShots)
      BY <1>5
    <3> QED
      BY <1>1, <2>9, <3>1, <3>2
  <2>13. unstarted' = {}
    BY <1>5, <2>3
  <2>14. \A c \in Cyclic : M({c}) + Serving({c})' + (IF c \in unstarted' THEN 1 ELSE 0) = 1
    BY <1>5, <2>3, <2>5
  <2>15. M(Cyclic) + Serving(Cyclic)' + Cardinality(unstarted') = Cardinality(Cyclic)
    BY <1>5, <2>3, <2>7
  <2> QED
    BY <1>5, <2>3, <2>6, <2>10, <2>11, <2>12, <2>13, <2>14, <2>15
<1>18. CASE CyclicReturn
  <2>1. PICK c \in Cyclic : c = handler
    BY <1>18 DEF CyclicReturn
  <2>2. pc' = "check" /\ Puts(next_timeout, next_timeout', c)
    <3>1. PICK time \in U32 : sys_timeout_abs(time, c, "check")
      BY <1>0, <1>18, <2>1, CyclicReturnPuts
    <3> QED
      BY <1>0, <3>1, AbsPuts
  <2>3. /\ UNCHANGED <<unstarted, tcpip_tcp_timer_active, tcpPcbs>>
        /\ pc = "handler" /\ handler' = None
    BY <1>18 DEF CyclicReturn, HandlerDone
  <2>4. \A d \in Cyclic : M({d}) = N({d}) + (IF d = c THEN 1 ELSE 0)
    BY <1>7, <2>2
  <2>5. /\ M({TcpTimer}) = N({TcpTimer}) /\ M(OneShots) = N(OneShots) /\ M(Cyclic) = N(Cyclic) + 1
        /\ Len(next_timeout') = Len(next_timeout) + 1
    BY <1>1, <1>7, <2>2, Kinds
  <2>6. \A d \in Cyclic : M({d}) + Serving({d})' = N({d}) + Serving({d})
    BY <1>1, <2>1, <2>3, <2>4, Kinds DEF Serving
  <2> QED
    BY <1>1, <1>5, <2>1, <2>2, <2>3, <2>5, <2>6, Kinds DEF Serving
<1>19. CASE TcpReturn
  <2>1. /\ UNCHANGED <<unstarted, tcpPcbs>>
        /\ pc = "handler" /\ handler = TcpTimer /\ handler' = None
    BY <1>19 DEF TcpReturn, HandlerDone
  <2>2. /\ \A c \in Cyclic : Serving({c}) = 0 /\ Serving({c})' = 0
        /\ Serving({TcpTimer}) = 1 /\ Serving({TcpTimer})' = 0
        /\ Serving(Cyclic) = 0 /\ Serving(Cyclic)' = 0
    BY <2>1, Kinds DEF Serving
  <2>3. CASE tcpPcbs
    <3>1. pc' = "check" /\ Puts(next_timeout, next_timeout', TcpTimer)
      <4>1. sys_timeout_abs((now + TcpInterval) % ClockModulus, TcpTimer, "check")
        BY <1>19, <2>3 DEF TcpReturn, sys_timeout
      <4> QED
        BY <1>0, <4>1, Delay, AbsPuts
    <3>2. /\ \A c \in Cyclic : M({c}) = N({c})
          /\ M({TcpTimer}) = N({TcpTimer}) + 1 /\ M(OneShots) = N(OneShots) /\ M(Cyclic) = N(Cyclic)
          /\ Len(next_timeout') = Len(next_timeout) + 1
      BY <1>1, <1>7, <3>1, Kinds
    <3>3. tcpip_tcp_timer_active' = tcpip_tcp_timer_active
      BY <1>19, <2>3 DEF TcpReturn
    <3> QED
      BY <1>1, <1>5, <2>1, <2>2, <3>1, <3>2, <3>3
  <2>4. CASE ~ tcpPcbs
    <3>1. pc' = "check" /\ next_timeout' = next_timeout /\ tcpip_tcp_timer_active' = FALSE
      BY <1>19, <2>4 DEF TcpReturn
    <3>2. N({TcpTimer}) = 0
      BY <1>1, <1>5, <2>2
    <3> QED
      BY <1>1, <1>5, <1>9, <2>1, <2>2, <2>4, <3>1, <3>2
  <2> QED
    BY <2>3, <2>4
<1>20. CASE OneShotReturn
  <2>1. /\ UNCHANGED <<next_timeout, unstarted, tcpip_tcp_timer_active, tcpPcbs>>
        /\ pc = "handler" /\ pc' = "check" /\ handler \in OneShots /\ handler' = None
    BY <1>20 DEF OneShotReturn, HandlerDone
  <2>2. /\ \A c \in Cyclic : Serving({c})' = Serving({c})
        /\ Serving({TcpTimer})' = Serving({TcpTimer}) /\ Serving(Cyclic)' = Serving(Cyclic)
    BY <2>1, Kinds DEF Serving
  <2> QED
    BY <1>5, <1>9, <2>1, <2>2
<1>21. CASE UNCHANGED <<next_timeout, pc, handler, unstarted, tcpip_tcp_timer_active, tcpPcbs>>
  BY <1>5, <1>9, <1>21 DEF Serving
<1>22. CASE SysTick
  BY <1>21, <1>22 DEF SysTick
<1>23. CASE UNCHANGED vars
  BY <1>21, <1>23 DEF vars
<1> QED
  BY <1>10, <1>11, <1>12, <1>13, <1>14, <1>15, <1>16, <1>17, <1>18, <1>19, <1>20, <1>22, <1>23
  DEF Next, Check, HandlerReturn

\* The invariant on the numbers of entries holds in every state.
LEMMA Invariance == Spec => []NumbersInv
<1>1. Init => NumbersInv
  BY NumbersInit
<1>2. NumbersInv /\ [Next]_vars => NumbersInv'
  BY TypesKept, NumbersKept DEF NumbersInv
<1> QED
  BY <1>1, <1>2, PTL DEF Spec

\* Every variable keeps its type: the list stays a list of entries with times of
\* the clock's width.
THEOREM TypeCorrect == Spec => []TypeOK
<1>1. NumbersInv => TypeOK
  BY DEF NumbersInv
<1> QED
  BY <1>1, Invariance, PTL

\* Each cyclic timer is in the list, in its handler or still to be started, in
\* exactly one place and once, whatever the handlers start and stop.
THEOREM CyclicOnce == Spec => []CyclicExactlyOnce
<1>1. NumbersInv => CyclicExactlyOnce
  BY CountIsNumber DEF NumbersInv, Numbers, CyclicExactlyOnce, Serving, Served
<1> QED
  BY <1>1, Invariance, PTL

\* tcpip_tcp_timer_active always tells whether the TCP timer is pending or running.
THEOREM TcpTimerInStep == Spec => []TcpTimerMatches
<1>1. NumbersInv => TcpTimerMatches
  BY CountIsNumber DEF NumbersInv, Numbers, TcpTimerMatches, Serving, Served
<1> QED
  BY <1>1, Invariance, PTL

\* What the pool needs: an entry for each cyclic timer, one for the TCP timer and one
\* for each timer the users keep.
PoolSuffices == Cardinality(Cyclic) + 1 + MaxOneShots <= PoolSize

\* No step of the timers takes more from the pool than it holds: a timer that is put
\* back always finds the entry it has freed.
LEMMA PoolKept ==
  ASSUME PoolSuffices, NumbersInv, PoolNeverEmpty, [Next]_vars
  PROVE  PoolNeverEmpty'
<1> DEFINE N(H) == NumberOf(next_timeout, H)
<1>0. /\ TypeOK /\ Numbers /\ next_timeout \in Seq(Entries)
      /\ Cyclic \subseteq Handlers /\ OneShots \subseteq Handlers /\ TcpTimer \in Handlers
      /\ now \in Int /\ \A d \in Nat : (now + d) % ClockModulus \in U32
  <2>1. TypeOK /\ Numbers
    BY DEF NumbersInv, PoolNeverEmpty
  <2>2. next_timeout \in Seq(Entries) /\ now \in Int
    BY <2>1 DEF TypeOK, Entries, U32
  <2> QED
    BY <2>1, <2>2, ModType DEF Handlers
<1>1. \A H : N(H) \in Nat
  BY <1>0, NumberIsNat
<1>2. Cardinality(Cyclic) \in Nat /\ IsFiniteSet(unstarted) /\ Cardinality(unstarted) \in Nat
  <2>1. unstarted \in SUBSET Cyclic
    BY <1>0 DEF TypeOK
  <2> QED
    BY <2>1, HandlersAssumption, FS_Subset, FS_CardinalityType
<1>3. /\ N({TcpTimer}) + Serving({TcpTimer}) = IF tcpip_tcp_timer_active THEN 1 ELSE 0
      /\ N(OneShots) <= MaxOneShots
      /\ N(Cyclic) + Serving(Cyclic) + Cardinality(unstarted) = Cardinality(Cyclic)
      /\ Len(next_timeout) = N(Cyclic) + N({TcpTimer}) + N(OneShots)
  BY <1>0 DEF Numbers
<1> HIDE DEF N
<1>4. \A H : Serving(H) \in {0, 1}
  BY DEF Serving
<1>5. N(Cyclic) <= Cardinality(Cyclic) /\ N({TcpTimer}) <= 1
  <2>1. N({TcpTimer}) + Serving({TcpTimer}) <= 1
    BY <1>3
  <2>2. /\ N(Cyclic) \in Nat /\ N({TcpTimer}) \in Nat
        /\ Serving(Cyclic) \in {0, 1} /\ Serving({TcpTimer}) \in {0, 1}
    BY <1>1, <1>4
  <2> QED
    BY <1>2, <1>3, <2>1, <2>2
<1>6. PoolSize \in Nat /\ MaxOneShots \in Nat /\ Cardinality(Cyclic) + 1 + MaxOneShots <= PoolSize
  BY PoolAssumption DEF PoolSuffices
<1>7. \A time \in U32, h \in Handlers, then \in {"init", "idle", "check", "handler"} :
        sys_timeout_abs(time, h, then) /\ Len(next_timeout) < PoolSize => pc' # "asserted"
  BY <1>0, AbsPuts
<1>8. N(Cyclic) < Cardinality(Cyclic) => Len(next_timeout) < PoolSize
  BY <1>1, <1>2, <1>3, <1>5, <1>6
<1>9. N({TcpTimer}) = 0 => Len(next_timeout) < PoolSize
  BY <1>1, <1>2, <1>3, <1>5, <1>6
<1>10. N(OneShots) < MaxOneShots => Len(next_timeout) < PoolSize
  BY <1>1, <1>2, <1>3, <1>5, <1>6
<1>11. pc \in {"init", "idle", "check", "handler"}
  BY <1>0 DEF TypeOK, PoolNeverEmpty
<1>12. SUFFICES pc' # "asserted"
  BY DEF PoolNeverEmpty
<1>13. CASE \E c \in Cyclic : StartCyclic(c)
  <2>1. PICK c \in Cyclic : StartCyclic(c)
    BY <1>13
  <2>2. Cardinality(unstarted) > 0
    <3>1. unstarted # {}
      BY <2>1 DEF StartCyclic
    <3> QED
      BY <1>2, <3>1, FS_EmptySet
  <2>3. N(Cyclic) < Cardinality(Cyclic)
    BY <1>1, <1>2, <1>3, <1>4, <2>2
  <2> DEFINE then == IF unstarted = {c} THEN "idle" ELSE "init"
  <2>4. sys_timeout_abs((now + Interval[c]) % ClockModulus, c, then) /\ then \in {"init", "idle"}
    BY <2>1 DEF StartCyclic, sys_timeout
  <2> HIDE DEF then
  <2> QED
    BY <1>0, <1>7, <1>8, <2>3, <2>4, Delay
<1>14. CASE \E h \in OneShots, d \in Delays : UserStart(h, d)
  <2>1. PICK h \in OneShots, d \in Delays : UserStart(h, d)
    BY <1>14
  <2>2. N(OneShots) < MaxOneShots
    BY <2>1, CountIsNumber DEF UserStart, N
  <2>3. sys_timeout_abs((now + d) % ClockModulus, h, pc)
    BY <2>1 DEF UserStart, sys_timeout
  <2> QED
    BY <1>0, <1>7, <1>10, <1>11, <2>2, <2>3, Delay
<1>15. CASE TcpNeeded
  <2>1. CASE tcpip_tcp_timer_active
    BY <1>11, <1>15, <2>1 DEF TcpNeeded
  <2>2. CASE ~ tcpip_tcp_timer_active
    <3>1. N({TcpTimer}) = 0
      BY <1>1, <1>3, <1>4, <2>2
    <3>2. sys_timeout_abs((now + TcpInterval) % ClockModulus, TcpTimer, pc)
      BY <1>15, <2>2 DEF TcpNeeded, sys_timeout
    <3> QED
      BY <1>0, <1>7, <1>9, <1>11, <3>1, <3>2, Delay
  <2> QED
    BY <2>1, <2>2
<1>16. CASE CyclicReturn
  <2>1. handler \in Cyclic
    BY <1>16 DEF CyclicReturn
  <2>2. Serving(Cyclic) = 1
    BY <2>1 DEF Serving
  <2>3. N(Cyclic) < Cardinality(Cyclic)
    BY <1>1, <1>2, <1>3, <2>2
  <2>4. PICK time \in U32 : sys_timeout_abs(time, handler, "check")
    BY <1>0, <1>16, CyclicReturnPuts
  <2> QED
    BY <1>0, <1>7, <1>8, <2>1, <2>3, <2>4
<1>17. CASE TcpReturn
  <2>1. handler = TcpTimer
    BY <1>17 DEF TcpReturn
  <2>2. Serving({TcpTimer}) = 1
    BY <2>1 DEF Serving
  <2>3. N({TcpTimer}) = 0
    BY <1>1, <1>3, <2>2
  <2>4. CASE tcpPcbs
    <3>1. sys_timeout_abs((now + TcpInterval) % ClockModulus, TcpTimer, "check")
      BY <1>17, <2>4 DEF TcpReturn, sys_timeout
    <3> QED
      BY <1>0, <1>7, <1>9, <2>3, <3>1, Delay
  <2>5. CASE ~ tcpPcbs
    BY <1>17, <2>5 DEF TcpReturn
  <2> QED
    BY <2>4, <2>5
<1>18. CASE \/ \E h \in OneShots : sys_untimeout(h)
            \/ TcpUnneeded \/ CheckBegin \/ CheckReturn \/ Expire \/ OneShotReturn \/ SysTick
            \/ UNCHANGED vars
  BY <1>11, <1>18 DEF sys_untimeout, TcpUnneeded, CheckBegin, CheckReturn, Expire, OneShotReturn,
    SysTick, vars
<1> QED
  BY <1>13, <1>14, <1>15, <1>16, <1>17, <1>18 DEF Next, Check, HandlerReturn

\* With such a pool the assertion of sys_timeout_abs never fails, though a handler
\* may take the entry its own timer has freed before the timer is put back.
THEOREM PoolSufficient ==
  ASSUME PoolSuffices
  PROVE  Spec => []PoolNeverEmpty
<1>1. Init => PoolNeverEmpty
  BY DEF Init, PoolNeverEmpty
<1>2. NumbersInv /\ PoolNeverEmpty /\ [Next]_vars => PoolNeverEmpty'
  BY PoolKept
<1> QED
  BY <1>1, <1>2, Invariance, PTL DEF Spec

-----------------------------------------------------------------------------
(* The clock                                                                *)

Quarter == ClockModulus \div 4

\* The delays lie within a quarter of a turn of the clock.
LEMMA Quarters ==
  /\ Quarter \in Nat \ {0} /\ ClockModulus = 4 * Quarter /\ LWIP_MAX_TIMEOUT = 2 * Quarter - 1
  /\ \A c \in Cyclic : Interval[c] \in 1 .. Quarter
  /\ TcpInterval \in 1 .. Quarter /\ Delays \subseteq 0 .. Quarter
  /\ MaxLate \in 0 .. Quarter - 1
<1>1. ClockModulus \in Nat \ {0} /\ ClockModulus % 4 = 0
  BY ClockAssumption
<1>2. Quarter \in Nat \ {0} /\ ClockModulus = 4 * Quarter /\ ClockModulus \div 2 = 2 * Quarter
  BY <1>1 DEF Quarter
<1> QED
  BY <1>2, ClockAssumption DEF Quarter, LWIP_MAX_TIMEOUT

\* A time less than one turn of the clock away from 0 .. ClockModulus - 1.
LEMMA ModTurn ==
  ASSUME NEW M \in Nat \ {0}
  PROVE  \A x \in -M .. 2 * M - 1 : x % M = IF x < 0 THEN x + M ELSE IF x < M THEN x ELSE x - M
<1> SUFFICES ASSUME NEW x \in -M .. 2 * M - 1
             PROVE  x % M = IF x < 0 THEN x + M ELSE IF x < M THEN x ELSE x - M
  OBVIOUS
<1>1. \A y \in 0 .. M - 1 : y % M = y /\ (y + M) % M = y /\ (y - M) % M = y
  OBVIOUS
<1>2. CASE x < 0
  <2>1. x + M \in 0 .. M - 1 /\ (x + M) - M = x
    BY <1>2
  <2> QED
    BY <1>1, <1>2, <2>1
<1>3. CASE 0 <= x /\ x < M
  BY <1>1, <1>3
<1>4. CASE M <= x
  <2>1. x - M \in 0 .. M - 1 /\ (x - M) + M = x
    BY <1>4
  <2> QED
    BY <1>1, <1>4, <2>1
<1> QED
  BY <1>2, <1>3, <1>4

\* Left at any time of the clock.
LeftAt(n, t) ==
  LET d == (t - n) % ClockModulus
  IN IF d > LWIP_MAX_TIMEOUT THEN d - ClockModulus ELSE d

\* The time left until a due time, now and after the step.
LEMMA LeftIsLeftAt == \A t : Left(t) = LeftAt(now, t) /\ Left(t)' = LeftAt(now', t)
BY DEF Left, LeftAt

\* A time and the time left until it tell the same.
LEMMA LeftTurns ==
  ASSUME NEW n \in U32, NEW t \in U32
  PROVE  /\ LeftAt(n, t) \in -2 * Quarter .. 2 * Quarter - 1
         /\ t - n = LeftAt(n, t) \/ t - n = LeftAt(n, t) + ClockModulus \/ t - n = LeftAt(n, t) - ClockModulus
<1>1. PICK q \in Nat \ {0} : ClockModulus = 4 * q /\ LWIP_MAX_TIMEOUT = 2 * q - 1 /\ Quarter = q
  BY Quarters
<1>2. n \in 0 .. 4 * q - 1 /\ t \in 0 .. 4 * q - 1
  BY <1>1 DEF U32
<1>3. t - n \in -(4 * q) .. 2 * (4 * q) - 1 /\ t - n < 4 * q
  BY <1>2
<1>4. PICK d \in Int : d = (t - n) % ClockModulus
  BY <1>1, <1>2
<1>5. d = IF t - n < 0 THEN t - n + 4 * q ELSE t - n
  <2>1. 4 * q \in Nat \ {0}
    BY <1>1
  <2>2. (t - n) % (4 * q) =
          IF t - n < 0 THEN t - n + 4 * q ELSE IF t - n < 4 * q THEN t - n ELSE t - n - 4 * q
    BY <1>3, <2>1, ModTurn
  <2> QED
    BY <1>1, <1>3, <1>4, <2>2
<1>6. LeftAt(n, t) = IF d > 2 * q - 1 THEN d - 4 * q ELSE d
  BY <1>1, <1>4 DEF LeftAt
<1> QED
  BY <1>1, <1>2, <1>5, <1>6

\* The time left determines the time.
LEMMA LeftUnique ==
  ASSUME NEW n \in U32, NEW t \in U32, NEW d \in -2 * Quarter .. 2 * Quarter - 1,
         t - n = d \/ t - n = d + ClockModulus \/ t - n = d - ClockModulus
  PROVE  LeftAt(n, t) = d
<1>1. PICK q \in Nat \ {0} : ClockModulus = 4 * q /\ Quarter = q
  BY Quarters
<1>2. PICK l \in -2 * q .. 2 * q - 1 :
        /\ l = LeftAt(n, t)
        /\ t - n = l \/ t - n = l + 4 * q \/ t - n = l - 4 * q
  BY <1>1, LeftTurns
<1>3. n \in Int /\ t \in Int
  BY DEF U32
<1>4. l = d
  BY <1>1, <1>2, <1>3
<1> QED
  BY <1>2, <1>4

\* A timer started for a delay has that delay left.
LEMMA LeftOfDelay ==
  ASSUME NEW n \in U32, NEW d \in -2 * Quarter .. 2 * Quarter - 1
  PROVE  (n + d) % ClockModulus \in U32 /\ LeftAt(n, (n + d) % ClockModulus) = d
<1>1. PICK q \in Nat \ {0} : ClockModulus = 4 * q /\ Quarter = q
  BY Quarters
<1>2. n \in 0 .. 4 * q - 1 /\ d \in -(2 * q) .. 2 * q - 1
  BY <1>1 DEF U32
<1>3. PICK t \in U32 : t = (n + d) % ClockModulus
  <2>1. n + d \in Int
    BY <1>2
  <2> QED
    BY <2>1, ModType
<1>4. t = IF n + d < 0 THEN n + d + 4 * q ELSE IF n + d < 4 * q THEN n + d ELSE n + d - 4 * q
  <2>1. 4 * q \in Nat \ {0} /\ n + d \in -(4 * q) .. 2 * (4 * q) - 1
    BY <1>2
  <2> QED
    <3>0. PICK x \in -(4 * q) .. 2 * (4 * q) - 1 : x = n + d
      BY <2>1
    <3>1. x % (4 * q) = IF x < 0 THEN x + 4 * q ELSE IF x < 4 * q THEN x ELSE x - 4 * q
      BY <2>1, ModTurn
    <3> QED
      BY <1>1, <1>3, <3>0, <3>1
<1>5. t - n = d \/ t - n = d + ClockModulus \/ t - n = d - ClockModulus
  BY <1>1, <1>2, <1>4
<1>6. LeftAt(n, t) = d
  BY <1>5, LeftUnique
<1> QED
  BY <1>3, <1>6

\* Times the comparison is right for.
Near(n, t) == t \in U32 /\ LeftAt(n, t) \in -MaxLate .. Quarter

\* The present is near to itself.
LEMMA NearNow ==
  ASSUME NEW n \in U32
  PROVE  Near(n, n) /\ LeftAt(n, n) = 0
<1>1. n - n = 0 /\ 0 \in -2 * Quarter .. 2 * Quarter - 1 /\ 0 \in -MaxLate .. Quarter
  BY Quarters DEF U32
<1>2. LeftAt(n, n) = 0
  BY <1>1, LeftUnique
<1> QED
  BY <1>1, <1>2 DEF Near

\* TIME_LESS_THAN compares times rightly while they are within a quarter of a turn.
LEMMA TimeLess ==
  ASSUME NEW n \in U32, NEW a, NEW b, Near(n, a), Near(n, b)
  PROVE  TIME_LESS_THAN(a, b) <=> LeftAt(n, a) < LeftAt(n, b)
<1>1. PICK q \in Nat \ {0} :
        /\ ClockModulus = 4 * q /\ Quarter = q /\ LWIP_MAX_TIMEOUT = 2 * q - 1
        /\ MaxLate \in 0 .. q - 1
  BY Quarters
<1>2. PICK l \in -MaxLate .. q :
        l = LeftAt(n, a) /\ (a - n = l \/ a - n = l + 4 * q \/ a - n = l - 4 * q)
  BY <1>1, LeftTurns DEF Near
<1>3. PICK m \in -MaxLate .. q :
        m = LeftAt(n, b) /\ (b - n = m \/ b - n = m + 4 * q \/ b - n = m - 4 * q)
  BY <1>1, LeftTurns DEF Near
<1>4. a \in 0 .. 4 * q - 1 /\ b \in 0 .. 4 * q - 1 /\ n \in 0 .. 4 * q - 1
  BY <1>1 DEF Near, U32
<1>5. l - m \in -(2 * q) + 1 .. 2 * q - 1
  BY <1>1, <1>2, <1>3
<1>6. a - b = l - m \/ a - b = l - m + 4 * q \/ a - b = l - m - 4 * q
  BY <1>2, <1>3, <1>4, <1>5
<1>7. (a - b) % ClockModulus = IF a - b < 0 THEN a - b + 4 * q ELSE a - b
  <2>1. 4 * q \in Nat \ {0} /\ a - b \in -(4 * q) .. 2 * (4 * q) - 1 /\ a - b < 4 * q
    BY <1>4
  <2>2. (a - b) % (4 * q) =
          IF a - b < 0 THEN a - b + 4 * q ELSE IF a - b < 4 * q THEN a - b ELSE a - b - 4 * q
    BY <2>1, ModTurn
  <2> QED
    BY <1>1, <2>1, <2>2
<1>8. TIME_LESS_THAN(a, b) <=> (a - b) % ClockModulus > 2 * q - 1
  BY <1>1 DEF TIME_LESS_THAN
<1>9. (a - b) % ClockModulus > 2 * q - 1 <=> l < m
  BY <1>4, <1>5, <1>6, <1>7
<1> QED
  BY <1>2, <1>3, <1>8, <1>9

\* When the clock ticks every timer has one unit less left.
LEMMA LeftTicks ==
  ASSUME NEW n \in U32, NEW t, Near(n, t), LeftAt(n, t) > -MaxLate
  PROVE  /\ Near((n + 1) % ClockModulus, t)
         /\ LeftAt((n + 1) % ClockModulus, t) = LeftAt(n, t) - 1
<1>1. PICK q \in Nat \ {0} :
        /\ ClockModulus = 4 * q /\ Quarter = q /\ MaxLate \in 0 .. q - 1
  BY Quarters
<1>2. PICK l \in -MaxLate .. q :
        l = LeftAt(n, t) /\ l > -MaxLate /\ (t - n = l \/ t - n = l + 4 * q \/ t - n = l - 4 * q)
  BY <1>1, LeftTurns DEF Near
<1>3. n \in 0 .. 4 * q - 1 /\ t \in 0 .. 4 * q - 1 /\ t \in U32
  BY <1>1 DEF Near, U32
<1>4. PICK k \in U32 : k = (n + 1) % ClockModulus
  <2>1. n + 1 \in Int
    BY <1>3
  <2> QED
    BY <2>1, ModType
<1>5. k = n + 1 \/ k = n + 1 - 4 * q
  <2>1. 4 * q \in Nat \ {0} /\ n + 1 \in -(4 * q) .. 2 * (4 * q) - 1 /\ ~ n + 1 < 0
    BY <1>3
  <2> QED
    <3>0. PICK x \in -(4 * q) .. 2 * (4 * q) - 1 : x = n + 1
      BY <2>1
    <3>1. x % (4 * q) = IF x < 0 THEN x + 4 * q ELSE IF x < 4 * q THEN x ELSE x - 4 * q
      BY <2>1, ModTurn
    <3> QED
      BY <1>1, <1>3, <1>4, <2>1, <3>0, <3>1
<1>6. k \in 0 .. 4 * q - 1 /\ l - 1 \in -2 * q .. 2 * q - 1
  BY <1>1, <1>2, <1>4 DEF U32
<1>7. t - k = l - 1 \/ t - k = (l - 1) + 4 * q \/ t - k = (l - 1) - 4 * q
  BY <1>2, <1>3, <1>5, <1>6
<1>8. LeftAt(k, t) = l - 1
  BY <1>1, <1>3, <1>6, <1>7, LeftUnique
<1>9. l - 1 \in -MaxLate .. q
  BY <1>1, <1>2
<1> QED
  BY <1>1, <1>2, <1>3, <1>4, <1>8, <1>9 DEF Near

-----------------------------------------------------------------------------
(* The order of the list                                                    *)

Sorted(n, s) ==
  /\ \A i \in 1 .. Len(s) : Near(n, s[i].time)
  /\ \A i, j \in 1 .. Len(s) : i < j => LeftAt(n, s[i].time) <= LeftAt(n, s[j].time)

\* The time left until a near time is a number within its bounds.
LEMMA NearIsInt == \A n, t : Near(n, t) => LeftAt(n, t) \in Int /\ LeftAt(n, t) >= -MaxLate /\ LeftAt(n, t) <= Quarter
BY Quarters DEF Near

\* A near entry put in by sys_timeout_abs leaves the list sorted.
LEMMA InsertSorted ==
  ASSUME NEW n \in U32, NEW s \in Seq(Entries), Sorted(n, s),
         NEW e \in Entries, Near(n, e.time)
  PROVE  Sorted(n, Inserted(s, e))
<1>1. PICK i \in 1 .. Len(s) + 1 :
        /\ Inserted(s, e) = InsertAt(s, i, e)
        /\ \A j \in 1 .. i - 1 : ~ TIME_LESS_THAN(e.time, s[j].time)
        /\ i <= Len(s) => TIME_LESS_THAN(e.time, s[i].time)
  BY InsertedPlace
<1>2. Len(s) \in Nat /\ \A j \in 1 .. Len(s) : Near(n, s[j].time)
  BY DEF Sorted
<1>3. PICK new \in Seq(Entries) :
        /\ new = Inserted(s, e) /\ Len(new) = Len(s) + 1
        /\ \A j \in 1 .. Len(s) + 1 : new[j] = IF j < i THEN s[j] ELSE IF j = i THEN e ELSE s[j - 1]
  <2>1. /\ InsertAt(s, i, e) \in Seq(Entries) /\ Len(InsertAt(s, i, e)) = Len(s) + 1
        /\ \A j \in 1 .. Len(s) + 1 :
             InsertAt(s, i, e)[j] = IF j < i THEN s[j] ELSE IF j = i THEN e ELSE s[j - 1]
    <3>1. \A f \in Entries, k \in 1 .. Len(s) + 1 :
            /\ InsertAt(s, k, f) \in Seq(Entries) /\ Len(InsertAt(s, k, f)) = Len(s) + 1
            /\ \A j \in 1 .. Len(s) + 1 :
                 InsertAt(s, k, f)[j] = IF j < k THEN s[j] ELSE IF j = k THEN f ELSE s[j - 1]
      BY InsertAtEntries
    <3> QED
      BY <3>1
  <2> QED
    BY <1>1, <2>1
<1> DEFINE L(f) == LeftAt(n, f.time)
<1>4. \A j \in 1 .. i - 1 : L(s[j]) <= L(e)
  <2> SUFFICES ASSUME NEW j \in 1 .. i - 1 PROVE L(s[j]) <= L(e)
    OBVIOUS
  <2>1. Near(n, s[j].time) /\ ~ TIME_LESS_THAN(e.time, s[j].time)
    BY <1>1, <1>2
  <2>2. ~ LeftAt(n, e.time) < LeftAt(n, s[j].time)
    BY <2>1, TimeLess
  <2> QED
    BY <2>1, <2>2, NearIsInt
<1>5. \A j \in i .. Len(s) : L(e) <= L(s[j])
  <2> SUFFICES ASSUME NEW j \in i .. Len(s) PROVE L(e) <= L(s[j])
    OBVIOUS
  <2>1. i \in 1 .. Len(s) /\ j \in 1 .. Len(s) /\ (i = j \/ i < j)
    BY <1>2
  <2>2. Near(n, s[i].time) /\ Near(n, s[j].time) /\ TIME_LESS_THAN(e.time, s[i].time)
    BY <1>1, <1>2, <2>1
  <2>3. LeftAt(n, e.time) < LeftAt(n, s[i].time)
    BY <2>2, TimeLess
  <2>4. LeftAt(n, s[i].time) <= LeftAt(n, s[j].time)
    BY <2>1, <2>2, NearIsInt DEF Sorted
  <2> QED
    BY <2>2, <2>3, <2>4, NearIsInt
<1>6. \A j \in 1 .. Len(s) + 1 : Near(n, new[j].time)
  <2> SUFFICES ASSUME NEW j \in 1 .. Len(s) + 1 PROVE Near(n, new[j].time)
    OBVIOUS
  <2>1. CASE j < i
    BY <1>2, <1>3, <2>1
  <2>2. CASE j = i
    BY <1>3, <2>2
  <2>3. CASE i < j
    <3>1. j - 1 \in 1 .. Len(s) /\ new[j] = s[j - 1]
      BY <1>2, <1>3, <2>3
    <3> QED
      BY <1>2, <3>1
  <2> QED
    BY <2>1, <2>2, <2>3
<1>7. \A j, k \in 1 .. Len(s) + 1 : j < k => L(new[j]) <= L(new[k])
  <2> SUFFICES ASSUME NEW j \in 1 .. Len(s) + 1, NEW k \in 1 .. Len(s) + 1, j < k
               PROVE  L(new[j]) <= L(new[k])
    OBVIOUS
  <2>0. \A a, b \in 1 .. Len(s) : a < b => L(s[a]) <= L(s[b])
    BY DEF Sorted
  <2> HIDE DEF L
  <2>1. CASE k < i
    <3>1. j \in 1 .. Len(s) /\ k \in 1 .. Len(s) /\ new[j] = s[j] /\ new[k] = s[k]
      BY <1>2, <1>3, <2>1
    <3> QED
      BY <2>0, <3>1
  <2>2. CASE k = i
    <3>1. j \in 1 .. i - 1 /\ new[j] = s[j] /\ new[k] = e
      BY <1>2, <1>3, <2>2
    <3> QED
      BY <1>4, <3>1
  <2>3. CASE i < k /\ j = i
    <3>1. k - 1 \in i .. Len(s) /\ new[j] = e /\ new[k] = s[k - 1]
      BY <1>2, <1>3, <2>3
    <3> QED
      BY <1>5, <3>1
  <2>4. CASE i < k /\ j < i
    <3>1. k - 1 \in 1 .. Len(s) /\ j \in 1 .. Len(s) /\ j < k - 1 /\ new[j] = s[j] /\ new[k] = s[k - 1]
      BY <1>2, <1>3, <2>4
    <3> QED
      BY <2>0, <3>1
  <2>5. CASE i < j
    <3>1. /\ k - 1 \in 1 .. Len(s) /\ j - 1 \in 1 .. Len(s) /\ j - 1 < k - 1
          /\ new[j] = s[j - 1] /\ new[k] = s[k - 1]
      BY <1>2, <1>3, <2>5
    <3> QED
      BY <2>0, <3>1
  <2> QED
    BY <1>2, <2>1, <2>2, <2>3, <2>4, <2>5
<1> QED
  BY <1>3, <1>6, <1>7 DEF Sorted

\* A list stays sorted when an entry is taken out.
LEMMA RemoveSorted ==
  ASSUME NEW n \in U32, NEW s \in Seq(Entries), Sorted(n, s), NEW i \in 1 .. Len(s)
  PROVE  Sorted(n, RemoveAt(s, i))
<1>1. PICK new \in Seq(Entries) :
        /\ new = RemoveAt(s, i) /\ Len(new) = Len(s) - 1 /\ Len(s) \in Nat
        /\ \A j \in 1 .. Len(s) - 1 : new[j] = IF j < i THEN s[j] ELSE s[j + 1]
  BY RemoveAtEntries, LenProperties
<1>2. \A j \in 1 .. Len(new) : Near(n, new[j].time)
  <2> SUFFICES ASSUME NEW j \in 1 .. Len(s) - 1 PROVE Near(n, new[j].time)
    BY <1>1
  <2>1. j \in 1 .. Len(s) /\ j + 1 \in 1 .. Len(s) /\ (new[j] = s[j] \/ new[j] = s[j + 1])
    BY <1>1
  <2> QED
    BY <2>1 DEF Sorted
<1>3. \A j, k \in 1 .. Len(new) : j < k => LeftAt(n, new[j].time) <= LeftAt(n, new[k].time)
  <2> SUFFICES ASSUME NEW j \in 1 .. Len(s) - 1, NEW k \in 1 .. Len(s) - 1, j < k
               PROVE  LeftAt(n, new[j].time) <= LeftAt(n, new[k].time)
    BY <1>1
  <2>1. PICK a \in 1 .. Len(s), b \in 1 .. Len(s) : a < b /\ new[j] = s[a] /\ new[k] = s[b]
    <3> DEFINE a == IF j < i THEN j ELSE j + 1
               b == IF k < i THEN k ELSE k + 1
    <3>1. a \in 1 .. Len(s) /\ b \in 1 .. Len(s) /\ a < b
      BY <1>1
    <3>2. new[j] = s[a] /\ new[k] = s[b]
      BY <1>1
    <3> QED
      BY <3>1, <3>2
  <2> QED
    BY <2>1 DEF Sorted
<1> QED
  BY <1>1, <1>2, <1>3 DEF Sorted

\* A list stays sorted when the clock advances, unless its first entry gets too late.
LEMMA TickSorted ==
  ASSUME NEW n \in U32, NEW s \in Seq(Entries), Sorted(n, s),
         \A i \in 1 .. Len(s) : LeftAt(n, s[i].time) > -MaxLate
  PROVE  Sorted((n + 1) % ClockModulus, s)
<1> DEFINE m == (n + 1) % ClockModulus
<1>1. \A i \in 1 .. Len(s) : Near(m, s[i].time) /\ LeftAt(m, s[i].time) = LeftAt(n, s[i].time) - 1
  BY LeftTicks DEF Sorted
<1>2. \A i, j \in 1 .. Len(s) : i < j => LeftAt(m, s[i].time) <= LeftAt(m, s[j].time)
  <2> SUFFICES ASSUME NEW i \in 1 .. Len(s), NEW j \in 1 .. Len(s), i < j
               PROVE  LeftAt(m, s[i].time) <= LeftAt(m, s[j].time)
    OBVIOUS
  <2>1. Near(n, s[i].time) /\ Near(n, s[j].time) /\ LeftAt(n, s[i].time) <= LeftAt(n, s[j].time)
    BY DEF Sorted
  <2> HIDE DEF m
  <2> QED
    BY <1>1, <2>1, NearIsInt
<1> QED
  BY <1>1, <1>2 DEF Sorted

\* The list is sorted by due time, nothing in it or in a handler is later than
\* MaxLate, and a handler runs for a timer that was due when the check began.
Times ==
  /\ Sorted(now, next_timeout)
  /\ handler # None => Near(now, current_timeout_due_time) /\ LeftAt(now, current_timeout_due_time) <= 0
  /\ pc \in {"check", "handler"} => Near(now, checkNow) /\ LeftAt(now, checkNow) <= 0
  /\ pc = "handler" =>
       handler # None /\ LeftAt(now, current_timeout_due_time) <= LeftAt(now, checkNow)

\* A time one delay ahead is near, and the delay is the time left.
LEMMA NearDelay ==
  ASSUME NEW n \in U32, NEW d \in -MaxLate .. Quarter
  PROVE  Near(n, (n + d) % ClockModulus) /\ LeftAt(n, (n + d) % ClockModulus) = d
<1>1. d \in -2 * Quarter .. 2 * Quarter - 1
  BY Quarters
<1> QED
  BY <1>1, LeftOfDelay DEF Near

\* The time at which lwip_cyclic_timer starts the timer again: one interval after the
\* last, unless that is past.
LEMMA NextCyclic ==
  ASSUME NEW n \in U32, NEW due, Near(n, due), LeftAt(n, due) <= 0, NEW d \in 1 .. Quarter
  PROVE  LET next == (due + d) % ClockModulus
         IN /\ Near(n, next) /\ LeftAt(n, next) = LeftAt(n, due) + d
            /\ TIME_LESS_THAN(next, n) <=> LeftAt(n, due) + d < 0
<1>1. PICK q \in Nat \ {0} : ClockModulus = 4 * q /\ Quarter = q /\ MaxLate \in 0 .. q - 1
  BY Quarters
<1>2. PICK l \in -MaxLate .. 0 :
        l = LeftAt(n, due) /\ (due - n = l \/ due - n = l + 4 * q \/ due - n = l - 4 * q)
  BY <1>1, LeftTurns, NearIsInt DEF Near
<1>3. n \in 0 .. 4 * q - 1 /\ due \in 0 .. 4 * q - 1 /\ due \in U32
  BY <1>1 DEF Near, U32
<1>4. PICK k \in U32 : k = (due + d) % ClockModulus
  <2>1. due + d \in Int
    BY <1>3
  <2> QED
    BY <2>1, ModType
<1>5. k = due + d \/ k = due + d - 4 * q
  <2>1. PICK x \in -(4 * q) .. 2 * (4 * q) - 1 : x = due + d /\ ~ x < 0
    BY <1>1, <1>3
  <2>2. 4 * q \in Nat \ {0}
    BY <1>1
  <2>3. x % (4 * q) = IF x < 0 THEN x + 4 * q ELSE IF x < 4 * q THEN x ELSE x - 4 * q
    BY <2>2, ModTurn
  <2> QED
    BY <1>1, <1>3, <1>4, <2>1, <2>3
<1>6. k \in 0 .. 4 * q - 1 /\ l + d \in -2 * q .. 2 * q - 1 /\ l + d \in -MaxLate .. q
  BY <1>1, <1>2, <1>4 DEF U32
<1>7. k - n = l + d \/ k - n = (l + d) + 4 * q \/ k - n = (l + d) - 4 * q
  BY <1>1, <1>2, <1>3, <1>5, <1>6
<1>8. PICK ld \in -MaxLate .. q : ld = l + d
  BY <1>6
<1>9. LeftAt(n, k) = ld
  <2>1. ld \in -2 * q .. 2 * q - 1
    BY <1>6, <1>8
  <2> QED
    BY <1>1, <1>7, <1>8, <2>1, LeftUnique
<1>10. Near(n, k)
  BY <1>1, <1>9 DEF Near
<1>11. Near(n, n) /\ LeftAt(n, n) = 0
  BY NearNow
<1>12. TIME_LESS_THAN(k, n) <=> LeftAt(n, k) < 0
  BY <1>10, <1>11, TimeLess
<1> QED
  BY <1>2, <1>4, <1>8, <1>9, <1>10, <1>12

\* sys_timeout_abs keeps the list sorted.
LEMMA AbsSorted ==
  ASSUME TypeOK, Sorted(now, next_timeout), NEW time, Near(now, time), NEW h \in Handlers, NEW then,
         sys_timeout_abs(time, h, then)
  PROVE  Sorted(now, next_timeout') /\ pc' \in {then, "asserted"}
<1>1. now \in U32 /\ next_timeout \in Seq(Entries) /\ time \in U32
  BY DEF TypeOK, Entries, Near
<1>2. PICK e \in Entries : e = [h |-> h, time |-> time] /\ e.time = time
  <2>1. [h |-> h, time |-> time] \in Entries
    BY <1>1 DEF Entries
  <2> QED
    BY <2>1
<1>3. Sorted(now, Inserted(next_timeout, e))
  BY <1>1, <1>2, InsertSorted
<1> QED
  BY <1>2, <1>3 DEF sys_timeout_abs

\* At first there are no due times.
LEMMA TimesInit == Init => Times
BY DEF Init, Times, Sorted

\* The time lwip_cyclic_timer hands to sys_timeout_abs.
LEMMA CyclicReturnTime ==
  ASSUME TypeOK, Times, CyclicReturn
  PROVE  \E time, d :
           /\ sys_timeout_abs(time, handler, "check")
           /\ Near(now, time) /\ LeftAt(now, time) = d
           /\ d = IF LeftAt(now, current_timeout_due_time) + Interval[handler] < 0
                  THEN Interval[handler]
                  ELSE LeftAt(now, current_timeout_due_time) + Interval[handler]
<1> DEFINE next == (current_timeout_due_time + Interval[handler]) % ClockModulus
           again == (now + Interval[handler]) % ClockModulus
           left == LeftAt(now, current_timeout_due_time)
<1>1. /\ handler \in Cyclic /\ handler # None
      /\ sys_timeout_abs(IF TIME_LESS_THAN(next, now) THEN again ELSE next, handler, "check")
  BY Kinds DEF CyclicReturn
<1>2. now \in U32 /\ Near(now, current_timeout_due_time) /\ left <= 0
  BY <1>1 DEF TypeOK, Times
<1>3. Interval[handler] \in 1 .. Quarter
  BY <1>1, Quarters
<1>4. Near(now, next) /\ LeftAt(now, next) = left + Interval[handler]
      /\ (TIME_LESS_THAN(next, now) <=> left + Interval[handler] < 0)
  BY <1>2, <1>3, NextCyclic
<1>5. Near(now, again) /\ LeftAt(now, again) = Interval[handler]
  <2>1. Interval[handler] \in -MaxLate .. Quarter
    BY <1>3, Quarters
  <2> QED
    BY <1>2, <2>1, NearDelay
<1> HIDE DEF next, again, left
<1>6. CASE TIME_LESS_THAN(next, now)
  BY <1>1, <1>4, <1>5, <1>6 DEF left
<1>7. CASE ~ TIME_LESS_THAN(next, now)
  BY <1>1, <1>4, <1>7 DEF left
<1> QED
  BY <1>6, <1>7

\* Every step keeps the list sorted and all its due times near.
LEMMA TimesKept ==
  ASSUME NumbersInv, Times, [Next]_vars
  PROVE  Times'
<1>0. /\ TypeOK /\ TypeOK' /\ now \in U32 /\ next_timeout \in Seq(Entries)
      /\ Cyclic \subseteq Handlers /\ OneShots \subseteq Handlers /\ TcpTimer \in Handlers
  <2>1. TypeOK /\ TypeOK'
    BY TypesKept DEF NumbersInv
  <2> QED
    BY <2>1 DEF TypeOK, Entries, Handlers
<1>1. /\ Sorted(now, next_timeout)
      /\ handler # None => Near(now, current_timeout_due_time) /\ LeftAt(now, current_timeout_due_time) <= 0
      /\ pc \in {"check", "handler"} => Near(now, checkNow) /\ LeftAt(now, checkNow) <= 0
      /\ pc = "handler" =>
           handler # None /\ LeftAt(now, current_timeout_due_time) <= LeftAt(now, checkNow)
  BY DEF Times
<1>2. pc = "check" => handler = None
  BY DEF NumbersInv, Numbers
<1>3. \A d \in 0 .. Quarter : Near(now, (now + d) % ClockModulus)
  <2>1. 0 .. Quarter \subseteq -MaxLate .. Quarter
    BY Quarters
  <2> QED
    BY <1>0, <2>1, NearDelay
\* What is left to prove when the clock stands still and no handler is called.
<1>4. ASSUME now' = now, Sorted(now, next_timeout'),
             \/ UNCHANGED <<handler, current_timeout_due_time>>
             \/ handler' = None /\ pc' # "handler",
             \/ pc' = pc /\ checkNow' = checkNow
             \/ pc' = "check" /\ pc = "handler" /\ checkNow' = checkNow
             \/ pc' \notin {"check", "handler"}
      PROVE  Times'
  BY <1>1, <1>4 DEF Times
<1>5. CASE \E c \in Cyclic : StartCyclic(c)
  <2>1. PICK c \in Cyclic : StartCyclic(c)
    BY <1>5
  <2> DEFINE then == IF unstarted = {c} THEN "idle" ELSE "init"
  <2>2. sys_timeout_abs((now + Interval[c]) % ClockModulus, c, then) /\ then \notin {"check", "handler"}
    BY <2>1 DEF StartCyclic, sys_timeout
  <2>3. Interval[c] \in 0 .. Quarter
    BY Quarters
  <2> HIDE DEF then
  <2>4. Sorted(now, next_timeout') /\ pc' \in {then, "asserted"}
    BY <1>0, <1>1, <1>3, <2>2, <2>3, AbsSorted
  <2> QED
    BY <1>4, <2>1, <2>2, <2>4 DEF StartCyclic
<1>6. CASE \E h \in OneShots, d \in Delays : UserStart(h, d)
  <2>1. PICK h \in OneShots, d \in Delays : UserStart(h, d)
    BY <1>6
  <2>2. sys_timeout_abs((now + d) % ClockModulus, h, pc)
    BY <2>1 DEF UserStart, sys_timeout
  <2>3. d \in 0 .. Quarter
    BY Quarters
  <2>4. Sorted(now, next_timeout') /\ pc' \in {pc, "asserted"}
    BY <1>0, <1>1, <1>3, <2>2, <2>3, AbsSorted
  <2> QED
    BY <1>4, <2>1, <2>4 DEF UserStart
<1>7. CASE \E h \in OneShots : sys_untimeout(h)
  <2>1. PICK h \in OneShots : sys_untimeout(h)
    BY <1>7
  <2>2. Sorted(now, next_timeout')
    BY <1>0, <1>1, <2>1, UntimeoutRemoves, RemoveSorted
  <2> QED
    BY <1>4, <2>1, <2>2 DEF sys_untimeout
<1>8. CASE TcpNeeded
  <2>1. Sorted(now, next_timeout') /\ pc' \in {pc, "asserted"}
    <3>1. CASE tcpip_tcp_timer_active
      BY <1>1, <1>8, <3>1 DEF TcpNeeded
    <3>2. CASE ~ tcpip_tcp_timer_active
      <4>1. sys_timeout_abs((now + TcpInterval) % ClockModulus, TcpTimer, pc)
        BY <1>8, <3>2 DEF TcpNeeded, sys_timeout
      <4>2. TcpInterval \in 0 .. Quarter
        BY Quarters
      <4> QED
        BY <1>0, <1>1, <1>3, <4>1, <4>2, AbsSorted
    <3> QED
      BY <3>1, <3>2
  <2> QED
    BY <1>4, <1>8, <2>1 DEF TcpNeeded
<1>9. CASE TcpUnneeded
  BY <1>1, <1>4, <1>9 DEF TcpUnneeded
<1>10. CASE CheckBegin
  <2>1. Near(now, now) /\ LeftAt(now, now) = 0
    BY <1>0, NearNow
  <2> QED
    BY <1>1, <1>10, <2>1 DEF CheckBegin, Times
<1>11. CASE CheckReturn
  BY <1>1, <1>4, <1>11 DEF CheckReturn
<1>12. CASE Expire
  <2>1. next_timeout # <<>> /\ ~ TIME_LESS_THAN(checkNow, Head(next_timeout).time)
    BY <1>12 DEF Expire, NoneDue
  <2>2. /\ Tail(next_timeout) = RemoveAt(next_timeout, 1) /\ Head(next_timeout) = next_timeout[1]
        /\ 1 \in 1 .. Len(next_timeout)
    BY <1>0, <2>1, TailRemoves
  <2>3. Sorted(now, Tail(next_timeout))
    BY <1>0, <1>1, <2>2, RemoveSorted
  <2>4. PICK t : t = Head(next_timeout).time /\ Near(now, t)
    BY <1>1, <2>2 DEF Sorted
  <2>5. Near(now, checkNow) /\ LeftAt(now, checkNow) <= 0
    BY <1>1, <1>12 DEF Expire
  <2>6. LeftAt(now, t) <= LeftAt(now, checkNow)
    <3>1. ~ LeftAt(now, checkNow) < LeftAt(now, t)
      BY <1>0, <2>1, <2>4, <2>5, TimeLess
    <3> QED
      BY <2>4, <2>5, <3>1, NearIsInt
  <2>7. LeftAt(now, t) <= 0
    BY <2>4, <2>5, <2>6, NearIsInt
  <2>8. handler' # None
    <3>1. next_timeout[1] \in Entries
      BY <1>0, <2>2
    <3> QED
      BY <1>12, <2>2, <3>1, Kinds DEF Expire, Entries, Handlers
  <2>9. /\ UNCHANGED <<now, checkNow>> /\ pc' = "handler" /\ next_timeout' = Tail(next_timeout)
        /\ current_timeout_due_time' = t
    BY <1>12, <2>4 DEF Expire
  <2> QED
    BY <2>3, <2>4, <2>5, <2>6, <2>7, <2>8, <2>9 DEF Times
<1>13. CASE CyclicReturn
  <2>1. handler \in Handlers
    BY <1>0, <1>13 DEF CyclicReturn
  <2>2. Sorted(now, next_timeout') /\ pc' \in {"check", "asserted"}
    BY <1>0, <1>1, <1>13, <2>1, CyclicReturnTime, AbsSorted
  <2> QED
    BY <1>4, <1>13, <2>2 DEF CyclicReturn, HandlerDone
<1>14. CASE TcpReturn
  <2>1. Sorted(now, next_timeout') /\ pc' \in {"check", "asserted"}
    <3>1. CASE ~ tcpPcbs
      BY <1>1, <1>14, <3>1 DEF TcpReturn
    <3>2. CASE tcpPcbs
      <4>1. sys_timeout_abs((now + TcpInterval) % ClockModulus, TcpTimer, "check")
        BY <1>14, <3>2 DEF TcpReturn, sys_timeout
      <4>2. TcpInterval \in 0 .. Quarter
        BY Quarters
      <4> QED
        BY <1>0, <1>1, <1>3, <4>1, <4>2, AbsSorted
    <3> QED
      BY <3>1, <3>2
  <2> QED
    BY <1>4, <1>14, <2>1 DEF TcpReturn, HandlerDone
<1>15. CASE OneShotReturn
  BY <1>1, <1>4, <1>15 DEF OneShotReturn, HandlerDone
<1>16. CASE SysTick
  <2>1. /\ \A i \in 1 .. Len(next_timeout) : LeftAt(now, next_timeout[i].time) > -MaxLate
        /\ handler # None => LeftAt(now, current_timeout_due_time) > -MaxLate
        /\ pc = "check" => LeftAt(now, checkNow) > -MaxLate
        /\ now' = (now + 1) % ClockModulus
        /\ UNCHANGED <<next_timeout, pc, checkNow, handler, current_timeout_due_time>>
    BY <1>0, <1>16, LeftIsLeftAt DEF SysTick
  <2>2. Sorted(now', next_timeout')
    BY <1>0, <1>1, <2>1, TickSorted
  <2>3. ASSUME NEW t, Near(now, t), LeftAt(now, t) > -MaxLate
        PROVE  Near(now', t) /\ LeftAt(now', t) = LeftAt(now, t) - 1 /\ LeftAt(now, t) \in Int
    BY <1>0, <2>1, <2>3, LeftTicks, NearIsInt
  <2>4. handler # None =>
          /\ Near(now', current_timeout_due_time)
          /\ LeftAt(now', current_timeout_due_time) = LeftAt(now, current_timeout_due_time) - 1
          /\ LeftAt(now, current_timeout_due_time) \in Int
    BY <1>1, <2>1, <2>3
  <2>5. pc = "handler" => LeftAt(now, checkNow) > -MaxLate
    BY <1>1, <2>1, NearIsInt, Quarters
  <2>6. pc \in {"check", "handler"} =>
          /\ Near(now', checkNow) /\ LeftAt(now', checkNow) = LeftAt(now, checkNow) - 1
          /\ LeftAt(now, checkNow) \in Int
    BY <1>1, <2>1, <2>3, <2>5
  <2>7. handler # None => LeftAt(now', current_timeout_due_time) <= 0
    BY <1>1, <2>4
  <2>8. pc \in {"check", "handler"} => LeftAt(now', checkNow) <= 0
    BY <1>1, <2>6
  <2>9. pc = "handler" => LeftAt(now', current_timeout_due_time) <= LeftAt(now', checkNow)
    BY <1>1, <2>4, <2>6
  <2> QED
    BY <1>1, <2>1, <2>2, <2>4, <2>6, <2>7, <2>8, <2>9 DEF Times
<1>17. CASE UNCHANGED vars
  BY <1>1, <1>17 DEF vars, Times
<1> QED
  BY <1>5, <1>6, <1>7, <1>8, <1>9, <1>10, <1>11, <1>12, <1>13, <1>14, <1>15, <1>16, <1>17
  DEF Next, Check, HandlerReturn

\* The list is sorted and all its due times are near, in every state.
LEMMA TimesAlways == Spec => []Times
<1>1. NumbersInv /\ Times /\ [Next]_vars => Times'
  BY TimesKept
<1> QED
  BY <1>1, TimesInit, Invariance, PTL DEF Spec

-----------------------------------------------------------------------------
(* The list as a bag of timers                                              *)

\* A bag of the values of a sequence counts the places that hold them.
LEMMA BagCounts ==
  ASSUME NEW S, NEW v \in Seq(S)
  PROVE  /\ DOMAIN ToBag(v) = {v[j] : j \in 1 .. Len(v)}
         /\ \A x \in DOMAIN ToBag(v) : ToBag(v)[x] = Cardinality(Places(v, {x}))
         /\ \A x \in DOMAIN ToBag(v) : ToBag(v)[x] \in Nat \ {0}
<1>1. ToBag(v) = [x \in {v[j] : j \in 1 .. Len(v)} |-> Cardinality({j \in DOMAIN v : v[j] = x})]
  BY DEF ToBag, Range
<1>2. \A x : {j \in DOMAIN v : v[j] = x} = Places(v, {x})
  BY DEF Places
<1>3. ASSUME NEW x \in {v[j] : j \in 1 .. Len(v)}
      PROVE  Cardinality(Places(v, {x})) \in Nat \ {0}
  <2>1. Places(v, {x}) # {}
    BY DEF Places
  <2> QED
    BY <2>1, PlacesFinite, FS_EmptySet
<1> DEFINE values == {v[j] : j \in 1 .. Len(v)}
           Copies(x) == Cardinality({j \in DOMAIN v : v[j] = x})
<1>4. \A x : Copies(x) = Cardinality(Places(v, {x}))
  BY <1>2
<1>5. ToBag(v) = [x \in values |-> Copies(x)]
  BY <1>1
<1> HIDE DEF Copies, values
<1>6. DOMAIN ToBag(v) = values /\ \A x \in values : ToBag(v)[x] = Cardinality(Places(v, {x}))
  BY <1>4, <1>5
<1> QED
  BY <1>3, <1>6 DEF values

\* Putting a value in adds it to the bag.
LEMMA InsertBag ==
  ASSUME NEW S, NEW v \in Seq(S), NEW e \in S, NEW i \in 1 .. Len(v) + 1
  PROVE  ToBag(InsertAt(v, i, e)) = Service!BagAdd(ToBag(v), e)
<1>1. PICK w \in Seq(S) : w = InsertAt(v, i, e)
  BY InsertAtEntries
<1>2. /\ Len(v) \in Nat /\ Len(w) = Len(v) + 1
      /\ \A j \in 1 .. Len(v) + 1 : w[j] = IF j < i THEN v[j] ELSE IF j = i THEN e ELSE v[j - 1]
  <2>1. \A f \in S, k \in 1 .. Len(v) + 1 :
          /\ Len(InsertAt(v, k, f)) = Len(v) + 1
          /\ \A j \in 1 .. Len(v) + 1 :
               InsertAt(v, k, f)[j] = IF j < k THEN v[j] ELSE IF j = k THEN f ELSE v[j - 1]
    BY InsertAtAny
  <2> QED
    BY <1>1, <2>1
<1>3. \A x : Cardinality(Places(w, {x})) = Cardinality(Places(v, {x})) + (IF x = e THEN 1 ELSE 0)
  BY <1>1, InsertCounts
<1>4. DOMAIN ToBag(w) = DOMAIN ToBag(v) \union {e}
  <2>1. {w[j] : j \in 1 .. Len(w)} \subseteq {v[j] : j \in 1 .. Len(v)} \union {e}
    <3> SUFFICES ASSUME NEW j \in 1 .. Len(v) + 1
                 PROVE  w[j] \in {v[k] : k \in 1 .. Len(v)} \union {e}
      BY <1>2
    <3>1. CASE j < i
      BY <1>2, <3>1
    <3>2. CASE j = i
      BY <1>2, <3>2
    <3>3. CASE i < j
      <4>1. j - 1 \in 1 .. Len(v) /\ w[j] = v[j - 1]
        BY <1>2, <3>3
      <4> QED
        BY <4>1
    <3> QED
      BY <3>1, <3>2, <3>3
  <2>2. e \in {w[j] : j \in 1 .. Len(w)}
    BY <1>2
  <2>3. {v[j] : j \in 1 .. Len(v)} \subseteq {w[j] : j \in 1 .. Len(w)}
    <3> SUFFICES ASSUME NEW j \in 1 .. Len(v) PROVE \E k \in 1 .. Len(w) : v[j] = w[k]
      OBVIOUS
    <3>1. CASE j < i
      BY <1>2, <3>1
    <3>2. CASE i <= j
      <4>1. j + 1 \in 1 .. Len(w) /\ w[j + 1] = v[j]
        BY <1>2, <3>2
      <4> QED
        BY <4>1
    <3> QED
      BY <1>2, <3>1, <3>2
  <2> QED
    BY <2>1, <2>2, <2>3, BagCounts
<1>5. \A x \in DOMAIN ToBag(w) : ToBag(w)[x] = Cardinality(Places(w, {x}))
  BY BagCounts, Zenon
<1>6. \A x \in DOMAIN ToBag(v) : ToBag(v)[x] = Cardinality(Places(v, {x}))
  BY BagCounts, Zenon
<1>7. e \notin DOMAIN ToBag(v) => Cardinality(Places(v, {e})) = 0
  <2> SUFFICES ASSUME e \notin DOMAIN ToBag(v) PROVE Places(v, {e}) = {}
    BY FS_EmptySet
  <2>1. DOMAIN ToBag(v) = {v[j] : j \in 1 .. Len(v)}
    BY BagCounts, Zenon
  <2>2. \A j \in 1 .. Len(v) : v[j] # e
    BY <2>1
  <2> QED
    BY <2>2 DEF Places
<1>8. ToBag(w) = [x \in DOMAIN ToBag(w) |-> ToBag(w)[x]]
  BY DEF ToBag
<1>9. \A x : Cardinality(Places(v, {x})) \in Nat
  BY PlacesFinite
<1>10. CASE e \in DOMAIN ToBag(v)
  <2>1. DOMAIN ToBag(w) = DOMAIN ToBag(v)
    BY <1>4, <1>10
  <2>2. \A x \in DOMAIN ToBag(v) : ToBag(w)[x] = IF x = e THEN ToBag(v)[x] + 1 ELSE ToBag(v)[x]
    <3> TAKE x \in DOMAIN ToBag(v)
    <3>1. ToBag(w)[x] = Cardinality(Places(w, {x})) /\ ToBag(v)[x] = Cardinality(Places(v, {x}))
      BY <1>5, <1>6, <2>1
    <3>2. Cardinality(Places(w, {x})) = Cardinality(Places(v, {x})) + (IF x = e THEN 1 ELSE 0)
      BY <1>3
    <3>3. Cardinality(Places(v, {x})) \in Nat
      BY <1>9
    <3>4. CASE x = e
      BY <3>1, <3>2, <3>3, <3>4
    <3>5. CASE x # e
      BY <3>1, <3>2, <3>3, <3>5
    <3> QED
      BY <3>4, <3>5
  <2> QED
    BY <1>1, <1>8, <1>10, <2>1, <2>2 DEF Service!BagAdd
<1>11. CASE e \notin DOMAIN ToBag(v)
  <2>1. \A x \in DOMAIN ToBag(v) \union {e} : ToBag(w)[x] = IF x = e THEN 1 ELSE ToBag(v)[x]
    <3> TAKE x \in DOMAIN ToBag(v) \union {e}
    <3>1. ToBag(w)[x] = Cardinality(Places(w, {x}))
      BY <1>4, <1>5
    <3>2. Cardinality(Places(w, {x})) = Cardinality(Places(v, {x})) + (IF x = e THEN 1 ELSE 0)
      BY <1>3
    <3>3. x # e => ToBag(v)[x] = Cardinality(Places(v, {x}))
      BY <1>6
    <3>4. CASE x = e
      BY <1>7, <1>11, <3>1, <3>2, <3>4
    <3>5. CASE x # e
      <4>1. Cardinality(Places(v, {x})) \in Nat
        BY <1>9
      <4> QED
        BY <3>1, <3>2, <3>3, <3>5, <4>1
    <3> QED
      BY <3>4, <3>5
  <2> QED
    BY <1>1, <1>4, <1>8, <1>11, <2>1 DEF Service!BagAdd
<1> QED
  BY <1>10, <1>11

\* Taking a value out removes it from the bag.
LEMMA RemoveBag ==
  ASSUME NEW S, NEW v \in Seq(S), NEW i \in 1 .. Len(v)
  PROVE  ToBag(RemoveAt(v, i)) = Service!BagRemove(ToBag(v), v[i])
<1>1. PICK w \in Seq(S) : w = RemoveAt(v, i)
  BY RemoveAtEntries
<1>2. PICK e \in S : e = v[i]
  OBVIOUS
<1>3. i \in 1 .. Len(w) + 1 /\ InsertAt(w, i, e) = v
  BY <1>1, <1>2, RemovedPutBack
<1>4. ToBag(v) = Service!BagAdd(ToBag(w), e)
  <2>1. ToBag(InsertAt(w, i, e)) = Service!BagAdd(ToBag(w), e)
    BY <1>3, InsertBag
  <2> QED
    BY <1>3, <2>1
<1>5. \A x \in DOMAIN ToBag(w) : ToBag(w)[x] \in Nat \ {0}
  BY BagCounts
<1>6. ToBag(w) = [x \in DOMAIN ToBag(w) |-> ToBag(w)[x]]
  BY DEF ToBag
<1>7. Service!BagRemove(Service!BagAdd(ToBag(w), e), e) = ToBag(w)
  <2> DEFINE B == ToBag(w)
             A == Service!BagAdd(B, e)
  <2> HIDE DEF B
  <2>0. B = [x \in DOMAIN B |-> B[x]] /\ \A x \in DOMAIN B : B[x] \in Nat \ {0}
    BY <1>5, <1>6 DEF B
  <2>1. CASE e \in DOMAIN B
    <3>1. A = [x \in DOMAIN B |-> IF x = e THEN B[x] + 1 ELSE B[x]]
      BY <2>1 DEF Service!BagAdd
    <3>2. DOMAIN A = DOMAIN B /\ A[e] = B[e] + 1 /\ B[e] \in Nat \ {0}
      BY <2>0, <2>1, <3>1
    <3>3. Service!BagRemove(A, e) = [x \in DOMAIN A |-> IF x = e THEN A[x] - 1 ELSE A[x]]
      <4> HIDE DEF A
      <4>1. e \in DOMAIN A /\ A[e] # 1
        BY <2>1, <3>2
      <4> QED
        BY <4>1 DEF Service!BagRemove
    <3>4. \A x \in DOMAIN B : (IF x = e THEN A[x] - 1 ELSE A[x]) = B[x]
      <4> HIDE DEF A
      <4> QED
        BY <2>0, <3>1
    <3> HIDE DEF A
    <3> QED
      BY <2>0, <3>2, <3>3, <3>4 DEF A, B
  <2>2. CASE e \notin DOMAIN B
    <3>1. A = [x \in DOMAIN B \union {e} |-> IF x = e THEN 1 ELSE B[x]]
      BY <2>2 DEF Service!BagAdd
    <3>2. DOMAIN A = DOMAIN B \union {e} /\ A[e] = 1 /\ DOMAIN A \ {e} = DOMAIN B
      BY <2>2, <3>1
    <3>3. Service!BagRemove(A, e) = [x \in DOMAIN A \ {e} |-> A[x]]
      <4> HIDE DEF A
      <4> QED
        BY <3>2 DEF Service!BagRemove
    <3>4. \A x \in DOMAIN B : A[x] = B[x]
      BY <2>2, <3>1
    <3> HIDE DEF A
    <3> QED
      BY <2>0, <3>2, <3>3, <3>4 DEF A, B
  <2> QED
    BY <2>1, <2>2
<1> QED
  BY <1>1, <1>2, <1>4, <1>7

-----------------------------------------------------------------------------
(* The timers of TimerService                                               *)

\* The list as its users see it: handlers and times left.
Timers == [h : Handlers, left : Int]

Seen(n, e) == [h |-> e.h, left |-> LeftAt(n, e.time)]

View(n, s) == [i \in DOMAIN s |-> Seen(n, s[i])]

\* The times left are numbers.
LEMMA LeftAtType == \A n \in U32, t \in U32 : LeftAt(n, t) \in Int
<1> SUFFICES ASSUME NEW n \in U32, NEW t \in U32 PROVE LeftAt(n, t) \in Int
  OBVIOUS
<1>1. (t - n) % ClockModulus \in U32
  BY ModType DEF U32
<1> QED
  BY <1>1, ClockAssumption DEF LeftAt, U32

\* What is seen of a list is a list of timers.
LEMMA ViewType ==
  ASSUME NEW n \in U32, NEW s \in Seq(Entries)
  PROVE  /\ View(n, s) \in Seq(Timers) /\ Len(View(n, s)) = Len(s)
         /\ \A i \in 1 .. Len(s) : View(n, s)[i] = Seen(n, s[i]) /\ Seen(n, s[i]) \in Timers
<1>1. ASSUME NEW i \in 1 .. Len(s) PROVE Seen(n, s[i]) \in Timers
  <2>0. s[i] \in Entries
    OBVIOUS
  <2>1. s[i].h \in Handlers /\ s[i].time \in U32
    BY <2>0 DEF Entries
  <2>2. LeftAt(n, s[i].time) \in Int
    BY <2>1, LeftAtType
  <2> QED
    BY <2>1, <2>2 DEF Seen, Timers
<1>2. View(n, s) = [i \in 1 .. Len(s) |-> Seen(n, s[i])]
  BY DEF View
<1>3. View(n, s) \in [1 .. Len(s) -> Timers] /\ Len(s) \in Nat
  BY <1>1, <1>2
<1>4. View(n, s) \in Seq(Timers)
  BY <1>3
<1>5. Len(View(n, s)) = Len(s)
  BY <1>2, <1>3
<1> QED
  BY <1>1, <1>2, <1>4, <1>5

\* The mapping of SysTimeouts in these terms, before and after a step.
LEMMA PendingIsView ==
  /\ Pending = ToBag(View(now, next_timeout))
  /\ Pending' = ToBag(View(now', next_timeout'))
<1>1. [i \in DOMAIN next_timeout |-> [h |-> next_timeout[i].h, left |-> Left(next_timeout[i].time)]]
        = View(now, next_timeout)
  BY LeftIsLeftAt DEF View, Seen
<1>2. [i \in DOMAIN next_timeout |-> [h |-> next_timeout[i].h, left |-> Left(next_timeout[i].time)]]'
        = View(now', next_timeout')
  BY LeftIsLeftAt DEF View, Seen
<1> QED
  BY <1>1, <1>2 DEF Pending

\* What TimerService sees of the handler that runs.
LEMMA RunningIsSeen ==
  /\ Running = IF handler = None THEN None
               ELSE [h |-> handler, left |-> LeftAt(now, current_timeout_due_time)]
  /\ Running' = IF handler' = None THEN None
                ELSE [h |-> handler', left |-> LeftAt(now', current_timeout_due_time')]
BY LeftIsLeftAt DEF Running

\* An entry put in, or taken out, is a timer put in or taken out of the view.
LEMMA InsertView ==
  ASSUME NEW n \in U32, NEW s \in Seq(Entries), NEW e \in Entries, NEW i \in 1 .. Len(s) + 1
  PROVE  View(n, InsertAt(s, i, e)) = InsertAt(View(n, s), i, Seen(n, e))
<1>1. PICK w \in Seq(Entries) : w = InsertAt(s, i, e)
  BY InsertAtEntries
<1>2. /\ Len(s) \in Nat /\ Len(w) = Len(s) + 1
      /\ \A j \in 1 .. Len(s) + 1 : w[j] = IF j < i THEN s[j] ELSE IF j = i THEN e ELSE s[j - 1]
  <2>1. \A f \in Entries, k \in 1 .. Len(s) + 1 :
          /\ Len(InsertAt(s, k, f)) = Len(s) + 1
          /\ \A j \in 1 .. Len(s) + 1 :
               InsertAt(s, k, f)[j] = IF j < k THEN s[j] ELSE IF j = k THEN f ELSE s[j - 1]
    BY InsertAtAny
  <2> QED
    BY <1>1, <2>1
<1>3. PICK v \in Seq(Timers) : v = View(n, s)
  BY ViewType
<1>4. Len(v) = Len(s) /\ \A j \in 1 .. Len(s) : v[j] = Seen(n, s[j])
  BY <1>3, ViewType
<1>5. PICK f \in Timers : f = Seen(n, e)
  BY LeftAtType DEF Seen, Timers, Entries
<1>6. PICK x \in Seq(Timers) : x = InsertAt(v, i, f)
  <2>1. i \in 1 .. Len(v) + 1
    BY <1>4
  <2> QED
    BY <2>1, InsertAtEntries
<1>7. /\ Len(x) = Len(v) + 1
      /\ \A j \in 1 .. Len(v) + 1 : x[j] = IF j < i THEN v[j] ELSE IF j = i THEN f ELSE v[j - 1]
  <2>1. \A g \in Timers, k \in 1 .. Len(v) + 1 :
          /\ Len(InsertAt(v, k, g)) = Len(v) + 1
          /\ \A j \in 1 .. Len(v) + 1 :
               InsertAt(v, k, g)[j] = IF j < k THEN v[j] ELSE IF j = k THEN g ELSE v[j - 1]
    BY InsertAtAny
  <2>2. i \in 1 .. Len(v) + 1
    BY <1>4
  <2>3. /\ Len(InsertAt(v, i, f)) = Len(v) + 1
        /\ \A j \in 1 .. Len(v) + 1 :
             InsertAt(v, i, f)[j] = IF j < i THEN v[j] ELSE IF j = i THEN f ELSE v[j - 1]
    BY <1>5, <2>1, <2>2, Zenon
  <2> QED
    BY <1>6, <2>3, Zenon
<1>8. PICK y \in Seq(Timers) : y = View(n, w)
  BY ViewType
<1>9. Len(y) = Len(w) /\ \A j \in 1 .. Len(w) : y[j] = Seen(n, w[j])
  BY <1>8, ViewType
<1>10. ASSUME NEW j \in 1 .. Len(s) + 1 PROVE x[j] = y[j]
  <2>1. CASE j < i
    <3>1. w[j] = s[j] /\ x[j] = v[j] /\ j \in 1 .. Len(s)
      BY <1>2, <1>4, <1>7, <2>1
    <3> QED
      BY <1>2, <1>4, <1>9, <3>1
  <2>2. CASE j = i
    BY <1>2, <1>4, <1>5, <1>7, <1>9, <2>2
  <2>3. CASE i < j
    <3>1. w[j] = s[j - 1] /\ x[j] = v[j - 1] /\ j - 1 \in 1 .. Len(s)
      BY <1>2, <1>4, <1>7, <2>3
    <3> QED
      BY <1>2, <1>4, <1>9, <3>1
  <2> QED
    BY <2>1, <2>2, <2>3
<1>11. Len(x) = Len(s) + 1 /\ Len(y) = Len(s) + 1
  BY <1>2, <1>4, <1>7, <1>9
<1>12. x = y
  BY <1>10, <1>11
<1> QED
  BY <1>1, <1>3, <1>5, <1>6, <1>8, <1>12

\* Taking an entry out of the list takes it out of what TimerService sees.
LEMMA RemoveView ==
  ASSUME NEW n \in U32, NEW s \in Seq(Entries), NEW i \in 1 .. Len(s)
  PROVE  View(n, RemoveAt(s, i)) = RemoveAt(View(n, s), i)
<1>1. PICK w \in Seq(Entries) : w = RemoveAt(s, i)
  BY RemoveAtEntries
<1>2. /\ Len(s) \in Nat /\ Len(w) = Len(s) - 1
      /\ \A j \in 1 .. Len(s) - 1 : w[j] = IF j < i THEN s[j] ELSE s[j + 1]
  <2>1. /\ Len(RemoveAt(s, i)) = Len(s) - 1
        /\ \A j \in 1 .. Len(s) - 1 : RemoveAt(s, i)[j] = IF j < i THEN s[j] ELSE s[j + 1]
    BY RemoveAtEntries, Zenon
  <2>2. Len(s) \in Nat
    OBVIOUS
  <2> QED
    BY <1>1, <2>1, <2>2, Zenon
<1>3. PICK v \in Seq(Timers) : v = View(n, s)
  BY ViewType
<1>4. Len(v) = Len(s) /\ \A j \in 1 .. Len(s) : v[j] = Seen(n, s[j])
  BY <1>3, ViewType
<1>5. PICK x \in Seq(Timers) : x = RemoveAt(v, i)
  <2>1. i \in 1 .. Len(v)
    BY <1>4
  <2> QED
    BY <2>1, RemoveAtEntries
<1>6. /\ Len(x) = Len(v) - 1
      /\ \A j \in 1 .. Len(v) - 1 : x[j] = IF j < i THEN v[j] ELSE v[j + 1]
  <2>1. i \in 1 .. Len(v)
    BY <1>4
  <2> QED
    BY <1>5, <2>1, RemoveAtEntries
<1>7. PICK y \in Seq(Timers) : y = View(n, w)
  BY ViewType
<1>8. Len(y) = Len(w) /\ \A j \in 1 .. Len(w) : y[j] = Seen(n, w[j])
  BY <1>7, ViewType
<1>9. ASSUME NEW j \in 1 .. Len(s) - 1 PROVE x[j] = y[j]
  <2>1. CASE j < i
    BY <1>2, <1>4, <1>6, <1>8, <2>1
  <2>2. CASE i <= j
    <3>1. w[j] = s[j + 1] /\ x[j] = v[j + 1] /\ j + 1 \in 1 .. Len(s)
      BY <1>2, <1>4, <1>6, <2>2
    <3> QED
      BY <1>2, <1>4, <1>8, <3>1
  <2> QED
    BY <2>1, <2>2
<1>10. Len(x) = Len(s) - 1 /\ Len(y) = Len(s) - 1
  BY <1>2, <1>4, <1>6, <1>8
<1>11. x = y
  <2>1. Len(x) = Len(y) /\ \A j \in 1 .. Len(x) : x[j] = y[j]
    BY <1>9, <1>10
  <2>2. x = [j \in 1 .. Len(x) |-> x[j]] /\ y = [j \in 1 .. Len(y) |-> y[j]]
    OBVIOUS
  <2> QED
    BY <2>1, <2>2
<1> QED
  BY <1>1, <1>3, <1>5, <1>7, <1>11

-----------------------------------------------------------------------------
(* Every step is one of TimerService                                        *)

\* sys_timeout_abs starts a timer with the time left until abs_time.
LEMMA AbsStarts ==
  ASSUME TypeOK, NEW time \in U32, NEW h \in Handlers, NEW then, sys_timeout_abs(time, h, then),
         pc' # "asserted", now' = now
  PROVE  Pending' = Service!Started(Pending, h, LeftAt(now, time))
<1> DEFINE e == [h |-> h, time |-> time]
<1>1. next_timeout \in Seq(Entries) /\ now \in U32 /\ e \in Entries
  BY DEF TypeOK, Entries
<1>2. next_timeout' = Inserted(next_timeout, e)
  BY DEF sys_timeout_abs
<1>3. PICK i \in 1 .. Len(next_timeout) + 1 : next_timeout' = InsertAt(next_timeout, i, e)
  <2> HIDE DEF e
  <2> QED
    BY <1>1, <1>2, InsertedPlace
<1>4. View(now, next_timeout') = InsertAt(View(now, next_timeout), i, Seen(now, e))
  <2> HIDE DEF e
  <2>1. View(now, InsertAt(next_timeout, i, e)) = InsertAt(View(now, next_timeout), i, Seen(now, e))
    BY <1>1, InsertView
  <2> QED
    BY <1>3, <2>1
<1>5. ToBag(InsertAt(View(now, next_timeout), i, Seen(now, e)))
        = Service!BagAdd(ToBag(View(now, next_timeout)), Seen(now, e))
  <2> HIDE DEF e
  <2>1. PICK v \in Seq(Timers) : v = View(now, next_timeout)
    BY <1>1, ViewType
  <2>2. i \in 1 .. Len(v) + 1
    BY <1>1, <2>1, ViewType
  <2>3. PICK f \in Timers : f = Seen(now, e)
    BY <1>1, LeftAtType DEF Seen, Timers, Entries
  <2>4. ToBag(InsertAt(v, i, f)) = Service!BagAdd(ToBag(v), f)
    BY <2>2, InsertBag
  <2> QED
    BY <2>1, <2>3, <2>4
<1>6. Seen(now, e) = Service!Timer(h, LeftAt(now, time))
  BY DEF Seen, Service!Timer
<1> QED
  BY <1>4, <1>5, <1>6, PendingIsView DEF Service!Started

\* sys_timeout starts a timer with the delay it is given.
LEMMA TimeoutStarts ==
  ASSUME TypeOK, NEW d \in 0 .. Quarter, NEW h \in Handlers, NEW then, sys_timeout(d, h, then),
         pc' # "asserted", now' = now
  PROVE  Pending' = Service!Started(Pending, h, d)
<1>1. now \in U32
  BY DEF TypeOK
<1>2. d \in -2 * Quarter .. 2 * Quarter - 1
  BY Quarters
<1>3. PICK time \in U32 : time = (now + d) % ClockModulus /\ LeftAt(now, time) = d
  BY <1>1, <1>2, LeftOfDelay
<1>4. sys_timeout_abs(time, h, then)
  BY <1>3 DEF sys_timeout
<1> QED
  BY <1>3, <1>4, AbsStarts

\* Removing the entry at place i takes its timer out.
LEMMA RemovalTakes ==
  ASSUME TypeOK, NEW i \in 1 .. Len(next_timeout), next_timeout' = RemoveAt(next_timeout, i), now' = now
  PROVE  Pending' = Service!BagRemove(Pending, Seen(now, next_timeout[i]))
<1>1. next_timeout \in Seq(Entries) /\ now \in U32
  BY DEF TypeOK, Entries
<1>2. PICK v \in Seq(Timers) : v = View(now, next_timeout)
  BY <1>1, ViewType
<1>3. i \in 1 .. Len(v) /\ v[i] = Seen(now, next_timeout[i])
  BY <1>1, <1>2, ViewType
<1>4. View(now, next_timeout') = RemoveAt(v, i)
  BY <1>1, <1>2, RemoveView
<1>5. ToBag(RemoveAt(v, i)) = Service!BagRemove(ToBag(v), v[i])
  BY <1>3, RemoveBag
<1> QED
  BY <1>2, <1>3, <1>4, <1>5, PendingIsView

\* The pending timers are the entries as they are seen.
LEMMA PendingTimers ==
  ASSUME TypeOK
  PROVE  DOMAIN Pending = {Seen(now, next_timeout[i]) : i \in 1 .. Len(next_timeout)}
<1>1. next_timeout \in Seq(Entries) /\ now \in U32
  BY DEF TypeOK, Entries
<1>2. PICK v \in Seq(Timers) : v = View(now, next_timeout)
  BY <1>1, ViewType
<1>3. Len(v) = Len(next_timeout) /\ \A i \in 1 .. Len(v) : v[i] = Seen(now, next_timeout[i])
  BY <1>1, <1>2, ViewType
<1>4. DOMAIN ToBag(v) = {v[j] : j \in 1 .. Len(v)}
  BY BagCounts
<1> QED
  BY <1>2, <1>3, <1>4, PendingIsView

\* sys_untimeout takes out, of the timers with the handler, the one due first.
LEMMA UntimeoutStops ==
  ASSUME TypeOK, Times, NEW h \in OneShots, sys_untimeout(h)
  PROVE  Service!Stop(h)
<1>1. PICK i \in 1 .. Len(next_timeout) :
        /\ next_timeout' = RemoveAt(next_timeout, i)
        /\ next_timeout[i].h = h
        /\ \A j \in 1 .. i - 1 : next_timeout[j].h # h
  BY UntimeoutRemoves
<1>2. now' = now /\ Running' = Running
  BY RunningIsSeen DEF sys_untimeout
<1> DEFINE first == Seen(now, next_timeout[i])
           same == Service!Of(Pending, h)
<1>3. Pending' = Service!BagRemove(Pending, first)
  BY <1>1, <1>2, RemovalTakes
<1>4. same = {e \in {Seen(now, next_timeout[j]) : j \in 1 .. Len(next_timeout)} : e.h = h}
  BY PendingTimers DEF Service!Of
<1>5. first \in same
  BY <1>1, <1>4 DEF Seen
<1>6. ASSUME NEW e \in same PROVE e.h = h /\ first.left <= e.left
  <2>1. PICK j \in 1 .. Len(next_timeout) : e = Seen(now, next_timeout[j]) /\ e.h = h
    BY <1>4
  <2>2. next_timeout[j].h = h
    BY <2>1 DEF Seen
  <2>3. next_timeout \in Seq(Entries)
    BY DEF TypeOK, Entries
  <2>4. j >= i
    BY <1>1, <2>2, <2>3
  <2>5. LeftAt(now, next_timeout[i].time) <= LeftAt(now, next_timeout[j].time)
    <3>1. CASE i = j
      <4>1. LeftAt(now, next_timeout[i].time) \in Int
        BY NearIsInt DEF Times, Sorted
      <4> QED
        BY <3>1, <4>1
    <3>2. CASE i < j
      BY <3>2 DEF Times, Sorted
    <3> QED
      BY <2>4, <3>1, <3>2
  <2> QED
    BY <2>1, <2>5 DEF Seen
<1>7. first \in Service!DueFirst(same)
  <2> HIDE DEF first, same
  <2> QED
    BY <1>5, <1>6 DEF Service!DueFirst
<1>8. ASSUME NEW e \in Service!DueFirst(same) PROVE e = first
  <2>1. e \in same /\ e.left <= first.left
    BY <1>5, <1>8 DEF Service!DueFirst
  <2>2. PICK j \in 1 .. Len(next_timeout) : e = Seen(now, next_timeout[j])
    BY <1>4, <2>1
  <2>3. first.left <= e.left /\ e.h = h
    BY <1>6, <2>1
  <2>4. first.left \in Int /\ e.left \in Int
    BY <2>2, NearIsInt DEF Times, Sorted, Seen
  <2>5. e.left = first.left
    BY <2>1, <2>3, <2>4
  <2>6. e.h = first.h
    BY <1>1, <2>3 DEF Seen
  <2> QED
    BY <2>2, <2>5, <2>6 DEF Seen
<1>9. (CHOOSE e \in Service!DueFirst(same) : TRUE) = first
  <2> HIDE DEF first, same
  <2> QED
    BY <1>7, <1>8
<1>10. Service!Stopped(Pending, h) = Service!BagRemove(Pending, first)
  BY <1>5, <1>9 DEF Service!Stopped
<1> QED
  BY <1>2, <1>3, <1>10 DEF Service!Stop

\* sys_check_timeouts runs a timer that is due, and none that is due earlier is left.
LEMMA ExpireFires ==
  ASSUME NumbersInv, Times, pc # "asserted", Expire
  PROVE  Service!Fire
<1>1. TypeOK /\ next_timeout \in Seq(Entries) /\ now \in U32 /\ now' = now
  BY DEF NumbersInv, TypeOK, Entries, Expire
<1>2. pc = "check" /\ handler = None /\ next_timeout # <<>>
  BY DEF NumbersInv, Numbers, Expire, NoneDue
<1>3. next_timeout' = RemoveAt(next_timeout, 1) /\ Head(next_timeout) = next_timeout[1]
      /\ 1 \in 1 .. Len(next_timeout)
  BY <1>1, <1>2, TailRemoves DEF Expire
<1> DEFINE first == Seen(now, next_timeout[1])
<1>4. Pending' = Service!BagRemove(Pending, first)
  BY <1>1, <1>3, RemovalTakes
<1>5. handler' = next_timeout[1].h /\ current_timeout_due_time' = next_timeout[1].time
  BY <1>3 DEF Expire
<1>6. handler' # None
  <2>0. next_timeout[1] \in Entries
    BY <1>1, <1>3
  <2>1. next_timeout[1].h \in Handlers
    BY <2>0 DEF Entries
  <2> QED
    BY <1>5, <2>1, HandlersAssumption DEF Handlers
<1>7. Running = None /\ Running' = first
  BY <1>1, <1>2, <1>5, <1>6, RunningIsSeen DEF Seen
<1>8. first \in Service!DueFirst(DOMAIN Pending)
  <2>1. first \in DOMAIN Pending
    BY <1>1, <1>3, PendingTimers
  <2>2. ASSUME NEW e \in DOMAIN Pending PROVE first.left <= e.left
    <3>1. PICK j \in 1 .. Len(next_timeout) : e = Seen(now, next_timeout[j])
      BY <1>1, PendingTimers
    <3>2. LeftAt(now, next_timeout[1].time) <= LeftAt(now, next_timeout[j].time)
      <4>1. CASE j = 1
        <5>1. LeftAt(now, next_timeout[1].time) \in Int
          BY <1>3, NearIsInt DEF Times, Sorted
        <5> QED
          BY <4>1, <5>1
      <4>2. CASE j # 1
        BY <1>3, <4>2 DEF Times, Sorted
      <4> QED
        BY <4>1, <4>2
    <3> QED
      BY <3>1, <3>2 DEF Seen
  <2> HIDE DEF first
  <2> QED
    BY <2>1, <2>2 DEF Service!DueFirst
<1>9. first.left <= 0
  <2>1. Near(now, checkNow) /\ LeftAt(now, checkNow) <= 0
    BY <1>2 DEF Times
  <2>2. Near(now, next_timeout[1].time)
    BY <1>3 DEF Times, Sorted
  <2>3. ~ TIME_LESS_THAN(checkNow, next_timeout[1].time)
    BY <1>2, <1>3 DEF Expire, NoneDue
  <2>4. ~ (LeftAt(now, checkNow) < LeftAt(now, next_timeout[1].time))
    BY <1>1, <2>1, <2>2, <2>3, TimeLess
  <2>5. LeftAt(now, checkNow) \in Int /\ LeftAt(now, next_timeout[1].time) \in Int
    BY <2>1, <2>2, NearIsInt
  <2> QED
    BY <2>1, <2>4, <2>5 DEF Seen
<1> HIDE DEF first
<1> QED
  BY <1>4, <1>7, <1>8, <1>9 DEF Service!Fire

\* lwip_cyclic_timer starts its timer again in phase, or afresh when that is past.
LEMMA CyclicFinishes ==
  ASSUME TypeOK, Times, CyclicReturn, pc' # "asserted"
  PROVE  Service!Finish
<1>1. handler \in Cyclic /\ handler # None /\ handler' = None /\ now' = now
  BY HandlersAssumption DEF CyclicReturn, HandlerDone
<1> DEFINE left == LeftAt(now, current_timeout_due_time)
           next == left + Interval[handler]
<1>2. Running = [h |-> handler, left |-> left] /\ Running' = None
  BY <1>1, RunningIsSeen
<1>3. PICK time, d :
        /\ sys_timeout_abs(time, handler, "check")
        /\ Near(now, time) /\ LeftAt(now, time) = d
        /\ d = IF next < 0 THEN Interval[handler] ELSE next
  BY CyclicReturnTime
<1>4. time \in U32 /\ handler \in Handlers
  BY <1>1, <1>3 DEF Near, Handlers
<1>5. Pending' = Service!Started(Pending, handler, d)
  BY <1>1, <1>3, <1>4, AbsStarts
<1>6. Running # None
  <2>1. Running \in Timers
    <3>1. left \in Int
      BY <1>1, NearIsInt DEF Times
    <3> QED
      BY <1>2, <1>4, <3>1 DEF Timers
  <2> QED
    BY <2>1, NoneAssumption DEF Timers, Handlers
<1>7. Running.h = handler /\ Running.left = left
  BY <1>2
<1> QED
  BY <1>1, <1>2, <1>3, <1>5, <1>6, <1>7 DEF Service!Finish

\* tcpip_tcp_timer starts its timer again, or not.
LEMMA TcpFinishes ==
  ASSUME TypeOK, Times, TcpReturn, pc' # "asserted"
  PROVE  Service!Finish
<1>1. handler = TcpTimer /\ handler # None /\ handler \notin Cyclic /\ handler \in Handlers
      /\ handler' = None /\ now' = now
  BY HandlersAssumption DEF TcpReturn, HandlerDone, Handlers
<1>2. Running = [h |-> handler, left |-> LeftAt(now, current_timeout_due_time)] /\ Running' = None
  BY <1>1, RunningIsSeen
<1>3. Running # None
  <2>1. LeftAt(now, current_timeout_due_time) \in Int
    BY <1>1, NearIsInt DEF Times
  <2>2. Running \in Timers
    BY <1>1, <1>2, <2>1 DEF Timers
  <2> QED
    BY <2>2, NoneAssumption DEF Timers, Handlers
<1>4. Pending' = Pending \/ \E d \in 0 .. Quarter : Pending' = Service!Started(Pending, handler, d)
  <2>1. CASE tcpPcbs
    <3>1. sys_timeout(TcpInterval, TcpTimer, "check")
      BY <2>1 DEF TcpReturn
    <3>2. TcpInterval \in 0 .. Quarter
      BY Quarters
    <3>3. Pending' = Service!Started(Pending, TcpTimer, TcpInterval)
      BY <1>1, <3>1, <3>2, TimeoutStarts
    <3> QED
      BY <1>1, <3>2, <3>3
  <2>2. CASE ~ tcpPcbs
    BY <1>1, <2>2, PendingIsView DEF TcpReturn
  <2> QED
    BY <2>1, <2>2
<1>5. Running.h = handler
  BY <1>2
<1> QED
  BY <1>1, <1>2, <1>3, <1>4, <1>5 DEF Service!Finish, Quarter

\* A handler of the user that returns finishes in TimerService.
LEMMA OneShotFinishes ==
  ASSUME TypeOK, Times, OneShotReturn
  PROVE  Service!Finish
<1>1. handler \in OneShots /\ handler # None /\ handler \notin Cyclic /\ handler \in Handlers
      /\ handler' = None /\ now' = now /\ next_timeout' = next_timeout
  BY HandlersAssumption DEF OneShotReturn, HandlerDone, Handlers
<1>2. Running = [h |-> handler, left |-> LeftAt(now, current_timeout_due_time)] /\ Running' = None
  BY <1>1, RunningIsSeen
<1>3. Running # None
  <2>1. LeftAt(now, current_timeout_due_time) \in Int
    BY <1>1, NearIsInt DEF Times
  <2>2. Running \in Timers
    BY <1>1, <1>2, <2>1 DEF Timers
  <2> QED
    BY <2>2, NoneAssumption DEF Timers, Handlers
<1>4. Pending' = Pending
  BY <1>1, PendingIsView
<1>5. Running.h = handler
  BY <1>2
<1> QED
  BY <1>1, <1>2, <1>3, <1>4, <1>5 DEF Service!Finish

\* A timer one tick later, and back.
LEMMA LaterTimers ==
  /\ \A e \in Timers : Service!Later(e) = [h |-> e.h, left |-> e.left - 1]
  /\ \A e \in Timers : [Service!Later(e) EXCEPT !.left = @ + 1] = e
  /\ \A e, f \in Timers : Service!Later(e) = Service!Later(f) => e = f
<1>1. ASSUME NEW e \in Timers PROVE Service!Later(e) = [h |-> e.h, left |-> e.left - 1]
  BY DEF Service!Later, Timers
<1>2. ASSUME NEW e \in Timers PROVE [Service!Later(e) EXCEPT !.left = @ + 1] = e
  BY <1>1 DEF Timers
<1>3. ASSUME NEW e \in Timers, NEW f \in Timers, Service!Later(e) = Service!Later(f) PROVE e = f
  <2>1. e = [Service!Later(e) EXCEPT !.left = @ + 1] /\ f = [Service!Later(f) EXCEPT !.left = @ + 1]
    BY <1>2
  <2> QED
    BY <1>3, <2>1
<1> QED
  BY <1>1, <1>2, <1>3

\* One tick of the clock is one tick of every timer.
LEMMA BagTicks ==
  ASSUME NEW v \in Seq(Timers), NEW w \in Seq(Timers), Len(w) = Len(v),
         \A i \in 1 .. Len(v) : w[i] = Service!Later(v[i])
  PROVE  ToBag(w) = [e \in {Service!Later(f) : f \in DOMAIN ToBag(v)} |->
                       ToBag(v)[[e EXCEPT !.left = @ + 1]]]
<1>1. /\ DOMAIN ToBag(v) = {v[j] : j \in 1 .. Len(v)}
      /\ \A x \in DOMAIN ToBag(v) : ToBag(v)[x] = Cardinality(Places(v, {x}))
  BY BagCounts
<1>2. /\ DOMAIN ToBag(w) = {w[j] : j \in 1 .. Len(w)}
      /\ \A x \in DOMAIN ToBag(w) : ToBag(w)[x] = Cardinality(Places(w, {x}))
  BY BagCounts
<1>3. DOMAIN ToBag(w) = {Service!Later(f) : f \in DOMAIN ToBag(v)}
  BY <1>1, <1>2
<1>4. ASSUME NEW x \in DOMAIN ToBag(w)
      PROVE  ToBag(w)[x] = ToBag(v)[[x EXCEPT !.left = @ + 1]]
  <2>1. PICK k \in 1 .. Len(v) : x = Service!Later(v[k])
    BY <1>2
  <2>2. [x EXCEPT !.left = @ + 1] = v[k]
    BY <2>1, LaterTimers
  <2>3. Places(w, {x}) = Places(v, {v[k]})
    <3>1. \A j \in 1 .. Len(v) : w[j] = x <=> v[j] = v[k]
      BY <2>1, LaterTimers
    <3>2. DOMAIN w = 1 .. Len(v) /\ DOMAIN v = 1 .. Len(v)
      OBVIOUS
    <3> QED
      BY <3>1, <3>2 DEF Places
  <2>4. v[k] \in DOMAIN ToBag(v)
    BY <1>1
  <2> QED
    BY <1>1, <1>2, <2>2, <2>3, <2>4
<1>5. ToBag(w) = [e \in DOMAIN ToBag(w) |-> ToBag(w)[e]]
  BY DEF ToBag
<1> QED
  BY <1>3, <1>4, <1>5

\* A millisecond of the clock is a tick of TimerService.
LEMMA SysTickTicks ==
  ASSUME TypeOK, Times, SysTick
  PROVE  Service!Tick
<1>1. next_timeout \in Seq(Entries) /\ now \in U32 /\ next_timeout' = next_timeout
      /\ now' = (now + 1) % ClockModulus /\ now' \in U32 /\ handler' = handler
      /\ current_timeout_due_time' = current_timeout_due_time
  <2>1. next_timeout \in Seq(Entries) /\ now \in U32
    BY DEF TypeOK, Entries
  <2>2. (now + 1) % ClockModulus \in U32
    <3>1. PICK n \in Int : n = now + 1
      BY <2>1 DEF U32
    <3>2. n % ClockModulus \in U32
      BY ModType
    <3> QED
      BY <3>1, <3>2
  <2> QED
    BY <2>1, <2>2 DEF SysTick
<1>2. PICK v \in Seq(Timers) : v = View(now, next_timeout)
  BY <1>1, ViewType
<1>3. PICK w \in Seq(Timers) : w = View(now', next_timeout)
  BY <1>1, ViewType
<1>4. /\ Len(v) = Len(next_timeout) /\ Len(w) = Len(next_timeout)
      /\ \A i \in 1 .. Len(next_timeout) :
           v[i] = Seen(now, next_timeout[i]) /\ w[i] = Seen(now', next_timeout[i])
  BY <1>1, <1>2, <1>3, ViewType
<1>5. ASSUME NEW i \in 1 .. Len(v) PROVE w[i] = Service!Later(v[i])
  <2>1. Near(now, next_timeout[i].time)
    BY <1>4 DEF Times, Sorted
  <2>2. i \in DOMAIN next_timeout
    BY <1>1, <1>4
  <2>3. LeftAt(now, next_timeout[i].time) > -MaxLate
    BY <2>2, LeftIsLeftAt DEF SysTick
  <2>4. LeftAt(now', next_timeout[i].time) = LeftAt(now, next_timeout[i].time) - 1
    BY <1>1, <2>1, <2>3, LeftTicks
  <2>5. v[i] \in Timers
    OBVIOUS
  <2>6. Service!Later(v[i]) = [h |-> v[i].h, left |-> v[i].left - 1]
    BY <2>5, LaterTimers
  <2>7. v[i] = Seen(now, next_timeout[i]) /\ w[i] = Seen(now', next_timeout[i])
    BY <1>1, <1>4
  <2>8. v[i].h = next_timeout[i].h /\ v[i].left = LeftAt(now, next_timeout[i].time)
    BY <2>7 DEF Seen
  <2> QED
    BY <2>4, <2>6, <2>7, <2>8 DEF Seen
<1>6. ToBag(w) = [e \in {Service!Later(f) : f \in DOMAIN ToBag(v)} |->
                    ToBag(v)[[e EXCEPT !.left = @ + 1]]]
  <2>1. Len(w) = Len(v)
    BY <1>4
  <2> HIDE DEF Service!Later
  <2> QED
    BY <1>5, <2>1, BagTicks
<1>7. Pending = ToBag(v) /\ Pending' = ToBag(w)
  BY <1>1, <1>2, <1>3, PendingIsView
<1>8. Running' = IF Running = None THEN None ELSE Service!Later(Running)
  <2>1. CASE handler = None
    BY <1>1, <2>1, RunningIsSeen
  <2>2. CASE handler # None
    <3>1. Near(now, current_timeout_due_time)
      BY <2>2 DEF Times
    <3>2. LeftAt(now, current_timeout_due_time) > -MaxLate
      BY <2>2, LeftIsLeftAt DEF SysTick
    <3>3. LeftAt(now', current_timeout_due_time) = LeftAt(now, current_timeout_due_time) - 1
      BY <1>1, <3>1, <3>2, LeftTicks
    <3>4. Running = [h |-> handler, left |-> LeftAt(now, current_timeout_due_time)]
          /\ Running' = [h |-> handler, left |-> LeftAt(now', current_timeout_due_time)]
      BY <1>1, <2>2, RunningIsSeen
    <3>5. Running \in Timers
      <4>1. LeftAt(now, current_timeout_due_time) \in Int
        BY <3>1, NearIsInt
      <4>2. handler \in Handlers
        BY <2>2 DEF TypeOK
      <4> QED
        BY <3>4, <4>1, <4>2 DEF Timers
    <3>6. Running # None
      BY <3>5, NoneAssumption DEF Timers, Handlers
    <3>7. Service!Later(Running) = [h |-> Running.h, left |-> Running.left - 1]
      BY <3>5, LaterTimers
    <3> QED
      BY <3>3, <3>4, <3>6, <3>7
  <2> QED
    BY <2>1, <2>2
<1> QED
  BY <1>6, <1>7, <1>8 DEF Service!Tick

\* What the users of the timers do not notice.
LEMMA Unnoticed ==
  ASSUME UNCHANGED <<now, next_timeout, handler, current_timeout_due_time>>
  PROVE  UNCHANGED Service!vars
BY PendingIsView, RunningIsSeen DEF Service!vars

\* A timer started outside a handler's return.
LEMMA TimeoutIsStart ==
  ASSUME TypeOK, NEW d \in 0 .. Quarter, NEW h \in Handlers, NEW then, sys_timeout(d, h, then),
         pc' # "asserted", UNCHANGED <<now, handler, current_timeout_due_time>>
  PROVE  Service!Next
<1>1. Pending' = Service!Started(Pending, h, d)
  BY TimeoutStarts
<1>2. Running' = Running
  BY RunningIsSeen
<1>3. Service!Start(h, d)
  BY <1>1, <1>2 DEF Service!Start
<1>4. h \in Service!Handlers /\ d \in 0 .. ClockModulus \div 4
  BY DEF Handlers, Service!Handlers, Quarter
<1> QED
  BY <1>3, <1>4 DEF Service!Next

\* The steps of the list are steps of the timers, as long as the pool has entries.
LEMMA StepsOfService ==
  ASSUME NumbersInv, Times, [Next]_vars, pc # "asserted", pc' # "asserted"
  PROVE  [Service!Next]_Service!vars
<1>0. TypeOK
  BY DEF NumbersInv
<1>1. ASSUME NEW c \in Cyclic, StartCyclic(c) PROVE Service!Next
  <2>1. Interval[c] \in 0 .. Quarter /\ c \in Handlers
    BY Quarters DEF Handlers
  <2>2. PICK then : sys_timeout(Interval[c], c, then)
    BY <1>1 DEF StartCyclic
  <2>3. UNCHANGED <<now, handler, current_timeout_due_time>>
    BY <1>1 DEF StartCyclic
  <2> QED
    BY <1>0, <2>1, <2>2, <2>3, TimeoutIsStart
<1>2. ASSUME NEW h \in OneShots, NEW d \in Delays, UserStart(h, d) PROVE Service!Next
  <2>1. d \in 0 .. Quarter /\ h \in Handlers
    BY Quarters DEF Handlers
  <2>2. sys_timeout(d, h, pc) /\ UNCHANGED <<now, handler, current_timeout_due_time>>
    BY <1>2 DEF UserStart
  <2> QED
    BY <1>0, <2>1, <2>2, TimeoutIsStart
<1>3. ASSUME NEW h \in OneShots, sys_untimeout(h) PROVE Service!Next
  <2>1. Service!Stop(h)
    BY <1>0, <1>3, UntimeoutStops
  <2> QED
    BY <2>1 DEF Service!Next
<1>4. CASE TcpNeeded
  <2>1. UNCHANGED <<now, handler, current_timeout_due_time>>
    BY <1>4 DEF TcpNeeded
  <2>2. CASE tcpip_tcp_timer_active
    BY <1>4, <2>1, <2>2, Unnoticed DEF TcpNeeded
  <2>3. CASE ~ tcpip_tcp_timer_active
    <3>1. sys_timeout(TcpInterval, TcpTimer, pc)
      BY <1>4, <2>3 DEF TcpNeeded
    <3>2. TcpInterval \in 0 .. Quarter /\ TcpTimer \in Handlers
      BY Quarters DEF Handlers
    <3> QED
      BY <1>0, <2>1, <3>1, <3>2, TimeoutIsStart
  <2> QED
    BY <2>2, <2>3
<1>5. CASE TcpUnneeded \/ CheckBegin \/ CheckReturn \/ UNCHANGED vars
  <2>1. UNCHANGED <<now, next_timeout, handler, current_timeout_due_time>>
    BY <1>5 DEF TcpUnneeded, CheckBegin, CheckReturn, vars
  <2> QED
    BY <2>1, Unnoticed
<1>6. CASE Expire
  BY <1>6, ExpireFires DEF Service!Next
<1>7. CASE CyclicReturn
  BY <1>0, <1>7, CyclicFinishes DEF Service!Next
<1>8. CASE TcpReturn
  BY <1>0, <1>8, TcpFinishes DEF Service!Next
<1>9. CASE OneShotReturn
  BY <1>0, <1>9, OneShotFinishes DEF Service!Next
<1>10. CASE SysTick
  BY <1>0, <1>10, SysTickTicks DEF Service!Next
<1> QED
  BY <1>1, <1>2, <1>3, <1>4, <1>5, <1>6, <1>7, <1>8, <1>9, <1>10
     DEF Next, Check, HandlerReturn

\* An empty list shows no timers.
LEMMA StartsEmpty == Init => Service!Init
<1> SUFFICES ASSUME Init PROVE Service!Init
  OBVIOUS
<1>1. Running = None
  BY RunningIsSeen DEF Init
<1>2. View(now, next_timeout) = <<>>
  BY DEF View, Init
<1>3. ToBag(<<>>) = [e \in {} |-> 1]
  BY DEF ToBag, Range
<1> QED
  BY <1>1, <1>2, <1>3, PendingIsView DEF Service!Init

\* The sorted list on a clock that wraps keeps the promises of TimerService for every
\* set of timers and every width of the clock: no timer runs early, none before one
\* due earlier, none is lost or runs twice, and a cyclic timer keeps its phase.
THEOREM KeepsTheService ==
  ASSUME PoolSuffices
  PROVE  Spec => ImplementsTimerService
<1>1. NumbersInv /\ Times /\ PoolNeverEmpty /\ PoolNeverEmpty' /\ [Next]_vars
        => [Service!Next]_Service!vars
  BY StepsOfService DEF PoolNeverEmpty
<1>2. Spec => []NumbersInv
  BY Invariance
<1>3. Spec => []Times
  BY TimesAlways
<1>4. Spec => []PoolNeverEmpty
  BY PoolSufficient
<1> QED
  BY <1>1, <1>2, <1>3, <1>4, StartsEmpty, PTL DEF Spec, ImplementsTimerService, Service!Spec
=============================================================================

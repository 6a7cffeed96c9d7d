--------------------- MODULE ReliablePacketBuffer_proofs ---------------------
(***************************************************************************)
(* What the sequence-number comparisons of SeqNum.tla and the operations   *)
(* of ReliablePacketBuffer.tla compute, for every size of the circle and   *)
(* every list.                                                             *)
(***************************************************************************)
EXTENDS ReliablePacketBuffer, FiniteSetTheorems, SequenceTheorems,
        WellFoundedInduction, TLAPS

(* The constants are numbers, and the circle is twice the window.          *)
LEMMA CircleSize ==
  /\ MAX_RELIABLE_WINDOW_SIZE \in Nat /\ MAX_RELIABLE_WINDOW_SIZE > 0
  /\ SEQNUM_MAX \in Nat
  /\ SEQNUM_MAX = 2 * MAX_RELIABLE_WINDOW_SIZE - 1
  /\ SEQNUM_MAX \div 2 = MAX_RELIABLE_WINDOW_SIZE - 1
BY SeqNumAssumption

(* Storing a number in a u16 takes off one turn of the circle, or adds one. *)
LEMMA U16Wraps ==
  ASSUME NEW x \in Int, -SEQNUM_MAX - 1 <= x, x < 2 * (SEQNUM_MAX + 1)
  PROVE  /\ U16(x) \in SeqNums
         /\ 0 <= x /\ x <= SEQNUM_MAX => U16(x) = x
         /\ x > SEQNUM_MAX => U16(x) = x - (SEQNUM_MAX + 1)
         /\ x < 0 => U16(x) = x + (SEQNUM_MAX + 1)
<1> DEFINE M == SEQNUM_MAX + 1
<1>1. M \in Nat /\ M > 0
  BY CircleSize
<1>2. \A y \in Int, m \in Nat \ {0} :
        /\ y % m \in 0 .. m - 1
        /\ 0 <= y /\ y < m => y % m = y
        /\ m <= y /\ y < 2 * m => y % m = y - m
        /\ -m <= y /\ y < 0 => y % m = y + m
  BY Z3
<1> QED
  BY <1>1, <1>2, CircleSize DEF U16, SeqNums
-----------------------------------------------------------------------------
(* Between two different numbers exactly one is newer, and it is at most   *)
(* half a circle ahead (seqnum_higher).                                    *)
LEMMA HigherIsOneWay ==
  ASSUME NEW a \in SeqNums, NEW b \in SeqNums
  PROVE  /\ a # b => (seqnum_higher(a, b) <=> ~ seqnum_higher(b, a))
         /\ seqnum_higher(a, b) => Distance(b, a) <= MAX_RELIABLE_WINDOW_SIZE
BY CircleSize DEF seqnum_higher, Distance, SeqNums

(* A window is the interval of numbers it is meant to be, whether or not   *)
(* it wraps around (seqnum_in_window).                                     *)
LEMMA InWindowIsDistance ==
  ASSUME NEW s \in SeqNums, NEW next \in SeqNums,
         NEW size \in 1 .. MAX_RELIABLE_WINDOW_SIZE
  PROVE  seqnum_in_window(s, next, size) <=> Distance(next, s) < size
<1> DEFINE end == U16(next + size)
<1>1. CASE next + size <= SEQNUM_MAX
  <2>1. end = next + size
    BY <1>1, U16Wraps, CircleSize DEF SeqNums
  <2> QED
    BY <2>1, <1>1, CircleSize DEF seqnum_in_window, Distance, SeqNums
<1>2. CASE next + size > SEQNUM_MAX
  <2>1. end = next + size - (SEQNUM_MAX + 1)
    BY <1>2, U16Wraps, CircleSize DEF SeqNums
  <2> QED
    BY <2>1, <1>2, CircleSize DEF seqnum_in_window, Distance, SeqNums
<1> QED
  BY <1>1, <1>2, CircleSize DEF SeqNums

(* The distance to a number other than the start shrinks by one when the   *)
(* start moves on by one; no two numbers are equally far.                  *)
LEMMA DistanceFacts ==
  ASSUME NEW s \in SeqNums, NEW t \in SeqNums, NEW next \in SeqNums
  PROVE  /\ Distance(next, s) \in 0 .. SEQNUM_MAX
         /\ Distance(next, s) = 0 <=> s = next
         /\ Distance(next, s) = Distance(next, t) <=> s = t
         /\ U16(next + 1) \in SeqNums
         /\ s # next => Distance(U16(next + 1), s) = Distance(next, s) - 1
<1>1. next + 1 \in Int /\ next + 1 < 2 * (SEQNUM_MAX + 1)
  BY CircleSize DEF SeqNums
<1>2. /\ U16(next + 1) \in SeqNums
      /\ U16(next + 1) = IF next = SEQNUM_MAX THEN 0 ELSE next + 1
  BY <1>1, U16Wraps, CircleSize DEF SeqNums
<1> QED
  BY <1>2, CircleSize DEF Distance, SeqNums

-----------------------------------------------------------------------------
(* A non-empty set of naturals up to a bound has a least element: the      *)
(* intervals 1..k for its elements k are finite, and proper inclusion is   *)
(* well-founded on finite sets.                                            *)
LEMMA MinOfBounded ==
  ASSUME NEW n \in Nat, NEW S \in SUBSET (1 .. n), S # {}
  PROVE  Min(S) \in S /\ \A y \in S : Min(S) =< y
<1> DEFINE T == {1 .. k : k \in S}
           R == StrictSubsetOrdering(1 .. n)
<1>1. T \subseteq FiniteSubsetsOf(1 .. n)
  <2>1. IsFiniteSet(1 .. n)
    BY FS_Interval
  <2>2. \A k \in S : 1 .. k \subseteq 1 .. n
    OBVIOUS
  <2> QED
    BY <2>1, <2>2, FS_Subset DEF FiniteSubsetsOf
<1>2. T # {}
  OBVIOUS
<1>3. \E x \in T : \A y \in T : ~ (<<y, x>> \in R)
  <2> HIDE DEF T, R
  <2>1. IsWellFoundedOn(R, FiniteSubsetsOf(1 .. n))
    BY FS_StrictSubsetOrderingWellFounded DEF R
  <2> QED
    BY <1>1, <1>2, <2>1, WFMin
<1>4. PICK m \in S : \A k \in S : ~ (<<1 .. k, 1 .. m>> \in R)
  BY <1>3
<1>5. ASSUME NEW k \in S, k < m PROVE FALSE
  <2>1. 1 .. k \subseteq 1 .. m /\ 1 .. k # 1 .. m
    <3>1. m \in 1 .. m /\ m \notin 1 .. k
      BY <1>5
    <3> QED
      BY <1>5, <3>1
  <2>2. 1 .. k \subseteq 1 .. n /\ 1 .. m \subseteq 1 .. n
    OBVIOUS
  <2> QED
    BY <2>1, <2>2, <1>4 DEF StrictSubsetOrdering
<1>6. m \in S /\ \A y \in S : m =< y
  BY <1>5
<1> QED
  BY <1>6 DEF Min

(* InsertAt and RemoveAt, element by element.                              *)
LEMMA InsertAtElements ==
  ASSUME NEW S, NEW l \in Seq(S), NEW k \in 1 .. Len(l) + 1, NEW e \in S
  PROVE  /\ InsertAt(l, k, e) \in Seq(S)
         /\ Len(InsertAt(l, k, e)) = Len(l) + 1
         /\ \A j \in 1 .. Len(l) + 1 :
              InsertAt(l, k, e)[j] = IF j < k THEN l[j]
                                     ELSE IF j = k THEN e ELSE l[j - 1]
<1> DEFINE a == SubSeq(l, 1, k - 1)
           b == SubSeq(l, k, Len(l))
<1>1. /\ a \in Seq(S) /\ Len(a) = k - 1
      /\ \A i \in 1 .. k - 1 : a[i] = l[i]
  OBVIOUS
<1>2. /\ b \in Seq(S) /\ Len(b) = Len(l) - k + 1
      /\ \A i \in 1 .. Len(l) - k + 1 : b[i] = l[k + i - 1]
  OBVIOUS
<1> HIDE DEF a, b
<1>3. /\ a \o <<e>> \in Seq(S) /\ Len(a \o <<e>>) = k
      /\ \A i \in 1 .. k : (a \o <<e>>)[i] = IF i < k THEN l[i] ELSE e
  BY <1>1
<1> DEFINE c == a \o <<e>>
<1> HIDE DEF c
<1>4. /\ c \o b \in Seq(S) /\ Len(c \o b) = Len(l) + 1
      /\ \A j \in 1 .. Len(l) + 1 :
           (c \o b)[j] = IF j < k THEN l[j] ELSE IF j = k THEN e ELSE l[j - 1]
  <2>1. c \in Seq(S) /\ Len(c) = k /\ Len(l) \in Nat
    BY <1>3 DEF c
  <2>2. /\ c \o b \in Seq(S) /\ Len(c \o b) = Len(c) + Len(b)
        /\ \A j \in 1 .. Len(c) + Len(b) :
             (c \o b)[j] = IF j <= Len(c) THEN c[j] ELSE b[j - Len(c)]
    BY <1>2, <2>1, ConcatProperties
  <2>3. Len(c) + Len(b) = Len(l) + 1
    BY <1>2, <2>1
  <2>4. ASSUME NEW j \in 1 .. Len(l) + 1, j > k
        PROVE  b[j - k] = l[j - 1]
    <3>1. j - k \in 1 .. Len(l) - k + 1 /\ k + (j - k) - 1 = j - 1
      BY <2>1, <2>4
    <3> QED
      BY <1>2, <3>1
  <2>5. \A j \in 1 .. k : c[j] = IF j < k THEN l[j] ELSE e
    BY <1>3 DEF c
  <2> QED
    BY <2>1, <2>2, <2>3, <2>4, <2>5
<1>5. InsertAt(l, k, e) = c \o b
  BY DEF InsertAt, a, b, c
<1> QED
  BY <1>4, <1>5

LEMMA RemoveAtElements ==
  ASSUME NEW S, NEW l \in Seq(S), NEW k \in 1 .. Len(l)
  PROVE  /\ RemoveAt(l, k) \in Seq(S)
         /\ Len(RemoveAt(l, k)) = Len(l) - 1
         /\ \A j \in 1 .. Len(l) - 1 :
              RemoveAt(l, k)[j] = IF j < k THEN l[j] ELSE l[j + 1]
<1> DEFINE a == SubSeq(l, 1, k - 1)
           b == SubSeq(l, k + 1, Len(l))
<1>1. /\ a \in Seq(S) /\ Len(a) = k - 1
      /\ \A i \in 1 .. k - 1 : a[i] = l[i]
  OBVIOUS
<1>2. /\ b \in Seq(S) /\ Len(b) = Len(l) - k
      /\ \A i \in 1 .. Len(l) - k : b[i] = l[k + i]
  OBVIOUS
<1> HIDE DEF a, b
<1>3. /\ a \o b \in Seq(S) /\ Len(a \o b) = Len(l) - 1
      /\ \A j \in 1 .. Len(l) - 1 :
           (a \o b)[j] = IF j < k THEN l[j] ELSE l[j + 1]
  <2>1. /\ a \o b \in Seq(S) /\ Len(a \o b) = Len(a) + Len(b)
        /\ \A j \in 1 .. Len(a) + Len(b) :
             (a \o b)[j] = IF j <= Len(a) THEN a[j] ELSE b[j - Len(a)]
    BY <1>1, <1>2, ConcatProperties
  <2>2. Len(a) + Len(b) = Len(l) - 1 /\ Len(l) \in Nat
    BY <1>1, <1>2
  <2>3. ASSUME NEW j \in 1 .. Len(l) - 1, j > k - 1
        PROVE  b[j - (k - 1)] = l[j + 1]
    <3>1. j - (k - 1) \in 1 .. Len(l) - k /\ k + (j - (k - 1)) = j + 1
      BY <2>2, <2>3
    <3> QED
      BY <1>2, <3>1
  <2> QED
    BY <1>1, <2>1, <2>2, <2>3
<1>4. RemoveAt(l, k) = a \o b
  BY DEF RemoveAt, a, b
<1> QED
  BY <1>3, <1>4

-----------------------------------------------------------------------------
(* The two tests insert makes, in terms of distances.                      *)
LEMMA InsertableIsDistance ==
  ASSUME NEW s \in SeqNums, NEW n \in SeqNums
  PROVE  Insertable(s, n) <=> /\ Distance(n, s) > 0
                              /\ Distance(n, s) < MAX_RELIABLE_WINDOW_SIZE
<1>1. MAX_RELIABLE_WINDOW_SIZE \in 1 .. MAX_RELIABLE_WINDOW_SIZE
  BY CircleSize
<1>2. seqnum_in_window(s, n, MAX_RELIABLE_WINDOW_SIZE)
        <=> Distance(n, s) < MAX_RELIABLE_WINDOW_SIZE
  BY <1>1, InWindowIsDistance
<1>3. Distance(n, s) \in 0 .. SEQNUM_MAX /\ (Distance(n, s) = 0 <=> s = n)
  BY DistanceFacts
<1> QED
  BY <1>2, <1>3, CircleSize DEF Insertable

LEMMA GoesPastIsDistance ==
  ASSUME NEW x \in SeqNums, NEW s \in SeqNums, NEW n \in SeqNums
  PROVE  GoesPast(x, s, n) <=> Distance(n, x) < Distance(n, s)
BY CircleSize DEF GoesPast, Distance, SeqNums

(* The scan stops at a position of the list or just behind it; what it     *)
(* went past is nearer than the number to insert, what it stopped at not.  *)
LEMMA ScanStopFacts ==
  ASSUME NEW P, \A p \in P : p.seqnum \in SeqNums,
         NEW l \in Seq(P), NEW s \in SeqNums, NEW n \in SeqNums,
         NEW k, k = ScanStop(l, s, n)
  PROVE  /\ k \in 1 .. Len(l) + 1
         /\ \A i \in 1 .. k - 1 : Distance(n, l[i].seqnum) < Distance(n, s)
         /\ k <= Len(l) => Distance(n, s) <= Distance(n, l[k].seqnum)
<1> DEFINE S == {i \in DOMAIN l : ~ GoesPast(l[i].seqnum, s, n)}
                  \union {Len(l) + 1}
<1>1. S \subseteq 1 .. Len(l) + 1 /\ Len(l) + 1 \in S /\ Len(l) + 1 \in Nat
  OBVIOUS
<1>2. k \in S /\ \A y \in S : k =< y
  <2> HIDE DEF S
  <2>1. Min(S) \in S /\ \A y \in S : Min(S) =< y
    BY <1>1, MinOfBounded
  <2> QED
    BY <2>1 DEF ScanStop, S
<1>3. \A i \in 1 .. Len(l) : /\ l[i].seqnum \in SeqNums
                             /\ Distance(n, l[i].seqnum) \in Nat
                             /\ Distance(n, s) \in Nat
  BY DistanceFacts
<1>4. \A i \in 1 .. k - 1 : GoesPast(l[i].seqnum, s, n)
  BY <1>1, <1>2
<1>5. k <= Len(l) => ~ GoesPast(l[k].seqnum, s, n)
  BY <1>1, <1>2
<1> QED
  BY <1>1, <1>2, <1>3, <1>4, <1>5, GoesPastIsDistance

(* In an ordered list the scan finds a packet of the same number when      *)
(* there is one.                                                           *)
LEMMA DuplicateIsPresent ==
  ASSUME NEW P, \A p \in P : p.seqnum \in SeqNums,
         NEW l \in Seq(P), NEW s \in SeqNums, NEW n \in SeqNums,
         InWindowOrder(l, n)
  PROVE  Duplicate(l, s, n) <=> \E i \in DOMAIN l : l[i].seqnum = s
<1> DEFINE k == ScanStop(l, s, n)
<1>1. /\ k \in 1 .. Len(l) + 1
      /\ \A i \in 1 .. k - 1 : Distance(n, l[i].seqnum) < Distance(n, s)
      /\ k <= Len(l) => Distance(n, s) <= Distance(n, l[k].seqnum)
  BY ScanStopFacts
<1>2. Duplicate(l, s, n) <=> k <= Len(l) /\ l[k].seqnum = s
  BY DEF Duplicate
<1> HIDE DEF k
<1>3. ASSUME NEW i \in DOMAIN l, l[i].seqnum = s
      PROVE  k <= Len(l) /\ l[k].seqnum = s
  <2>1. \A j \in DOMAIN l : /\ l[j].seqnum \in SeqNums
                            /\ Distance(n, l[j].seqnum) \in Nat
                            /\ Distance(n, s) \in Nat
    BY DistanceFacts
  <2>2. ~ i \in 1 .. k - 1
    BY <1>1, <1>3, <2>1
  <2>3. k \in DOMAIN l /\ k <= i
    BY <1>1, <2>2
  <2>4. ~ k < i
    BY <1>1, <1>3, <2>1, <2>3 DEF InWindowOrder
  <2>5. k = i
    BY <2>3, <2>4
  <2> QED
    BY <1>3, <2>3, <2>5
<1> QED
  BY <1>1, <1>2, <1>3

(* The packets insert does not add.                                        *)
Refused(l, p, n) ==
  \/ Distance(n, p.seqnum) = 0
  \/ Distance(n, p.seqnum) >= MAX_RELIABLE_WINDOW_SIZE
  \/ \E i \in DOMAIN l : l[i].seqnum = p.seqnum

(* insert keeps an ordered list ordered, and adds the packet unless its    *)
(* number is outside the window, the one waited for, or already there.     *)
LEMMA InsertFacts ==
  ASSUME NEW P, \A q \in P : q.seqnum \in SeqNums,
         NEW l \in Seq(P), NEW p \in P, NEW n \in SeqNums,
         InWindowOrder(l, n)
  PROVE  /\ insert(l, p, n) \in Seq(P)
         /\ InWindowOrder(insert(l, p, n), n)
         /\ Refused(l, p, n) => insert(l, p, n) = l
         /\ ~ Refused(l, p, n) =>
              Packets(insert(l, p, n)) = Packets(l) \union {p}
<1> DEFINE s == p.seqnum
           k == ScanStop(l, s, n)
           new == InsertAt(l, k, p)
           refused == Refused(l, p, n)
<1>1. s \in SeqNums /\ Distance(n, s) \in Nat
  BY DistanceFacts
<1>2. refused <=> ~ Insertable(s, n) \/ Duplicate(l, s, n)
  BY <1>1, InsertableIsDistance, DuplicateIsPresent, CircleSize DEF Refused
<1>3. insert(l, p, n) = IF refused THEN l ELSE new
  BY <1>2 DEF insert
<1>4. CASE refused
  BY <1>3, <1>4
<1>5. CASE ~ refused
  <2>1. /\ k \in 1 .. Len(l) + 1
        /\ \A i \in 1 .. k - 1 : Distance(n, l[i].seqnum) < Distance(n, s)
        /\ k <= Len(l) => Distance(n, s) <= Distance(n, l[k].seqnum)
    BY <1>1, ScanStopFacts
  <2> HIDE DEF k, s
  <2>2. /\ new \in Seq(P) /\ Len(new) = Len(l) + 1
        /\ \A j \in 1 .. Len(l) + 1 :
             new[j] = IF j < k THEN l[j] ELSE IF j = k THEN p ELSE l[j - 1]
    BY <2>1, InsertAtElements
  <2> HIDE DEF new
  <2>3. \A i \in DOMAIN l : /\ l[i].seqnum \in SeqNums
                            /\ Distance(n, l[i].seqnum) \in Nat
                            /\ Distance(n, l[i].seqnum) # Distance(n, s)
    BY <1>1, <1>5, DistanceFacts DEF s, Refused
  <2>4. \A i \in DOMAIN l : i >= k => Distance(n, s) < Distance(n, l[i].seqnum)
    <3> SUFFICES ASSUME NEW i \in DOMAIN l, i >= k
                 PROVE  Distance(n, s) < Distance(n, l[i].seqnum)
      OBVIOUS
    <3>1. k \in DOMAIN l /\ Distance(n, s) < Distance(n, l[k].seqnum)
      BY <1>1, <2>1, <2>3
    <3>2. i = k \/ Distance(n, l[k].seqnum) < Distance(n, l[i].seqnum)
      BY <3>1 DEF InWindowOrder
    <3> QED
      BY <1>1, <2>3, <3>1, <3>2
  <2>5. InWindowOrder(new, n)
    <3> SUFFICES ASSUME NEW i \in 1 .. Len(l) + 1, NEW j \in 1 .. Len(l) + 1,
                        i < j
                 PROVE  Distance(n, new[i].seqnum) < Distance(n, new[j].seqnum)
      BY <2>2 DEF InWindowOrder
    <3>1. CASE j < k
      BY <2>1, <2>2, <3>1 DEF InWindowOrder
    <3>2. CASE j = k
      BY <2>1, <2>2, <3>2 DEF s
    <3>3. CASE j > k /\ i < k
      <4>1. i \in DOMAIN l /\ j - 1 \in DOMAIN l
        BY <2>1, <3>3
      <4>2. new[i] = l[i] /\ new[j] = l[j - 1]
        BY <2>1, <2>2, <3>3
      <4>3. /\ Distance(n, l[i].seqnum) < Distance(n, s)
            /\ Distance(n, s) < Distance(n, l[j - 1].seqnum)
        BY <2>1, <2>4, <3>3
      <4> QED
        BY <1>1, <2>1, <2>3, <3>3, <4>2, <4>3
    <3>4. CASE j > k /\ i = k
      <4>1. j - 1 \in DOMAIN l /\ j - 1 >= k
        BY <2>1, <3>4
      <4> QED
        BY <2>2, <2>4, <3>4, <4>1 DEF s
    <3>5. CASE j > k /\ i > k
      <4>1. i - 1 \in DOMAIN l /\ j - 1 \in DOMAIN l /\ i - 1 < j - 1
        BY <2>1, <3>5
      <4> QED
        BY <2>1, <2>2, <3>5, <4>1 DEF InWindowOrder
    <3> QED
      BY <2>1, <3>1, <3>2, <3>3, <3>4, <3>5
  <2>6. Packets(new) = Packets(l) \union {p}
    <3>1. DOMAIN new = 1 .. Len(l) + 1 /\ DOMAIN l = 1 .. Len(l) /\ Len(l) \in Nat
      BY <2>2
    <3>2. ASSUME NEW j \in DOMAIN new PROVE new[j] \in Packets(l) \union {p}
      <4>1. \A i \in DOMAIN l : l[i] \in Packets(l)
        BY DEF Packets
      <4>2. CASE j < k
        BY <2>1, <2>2, <3>1, <4>1, <4>2
      <4>3. CASE j = k
        BY <2>2, <3>1, <4>3
      <4>4. CASE j > k
        <5>1. j - 1 \in DOMAIN l /\ new[j] = l[j - 1]
          BY <2>1, <2>2, <3>1, <4>4
        <5> QED
          BY <4>1, <5>1
      <4> QED
        BY <2>1, <3>1, <4>2, <4>3, <4>4
    <3>3. p \in Packets(new)
      BY <2>1, <2>2, <3>1 DEF Packets
    <3>4. ASSUME NEW i \in DOMAIN l PROVE l[i] \in Packets(new)
      <4>1. CASE i < k
        <5>1. i \in DOMAIN new /\ new[i] = l[i]
          BY <2>1, <2>2, <3>1, <4>1
        <5> QED
          BY <5>1 DEF Packets
      <4>2. CASE i >= k
        <5>1. i + 1 \in DOMAIN new /\ new[i + 1] = l[i]
          BY <2>1, <2>2, <3>1, <4>2
        <5> QED
          BY <5>1 DEF Packets
      <4> QED
        BY <2>1, <3>1, <4>1, <4>2
    <3> QED
      BY <3>2, <3>3, <3>4 DEF Packets
  <2> QED
    BY <1>3, <1>5, <2>2, <2>5, <2>6 DEF s
<1> QED
  BY <1>4, <1>5

(* popSeqnum takes the packets of a number out of an ordered list, and     *)
(* nothing else.                                                           *)
LEMMA PopSeqnumFacts ==
  ASSUME NEW P, \A q \in P : q.seqnum \in SeqNums,
         NEW l \in Seq(P), NEW s \in SeqNums, NEW n \in SeqNums,
         InWindowOrder(l, n)
  PROVE  /\ popSeqnum(l, s) \in Seq(P)
         /\ InWindowOrder(popSeqnum(l, s), n)
         /\ Packets(popSeqnum(l, s)) = {q \in Packets(l) : q.seqnum # s}
<1> DEFINE found == {i \in DOMAIN l : l[i].seqnum = s}
           new == RemoveAt(l, Min(found))
<1>1. popSeqnum(l, s) = IF found = {} THEN l ELSE new
  BY DEF popSeqnum
<1>2. CASE found = {}
  BY <1>1, <1>2 DEF Packets
<1>3. CASE found # {}
  <2>1. found \in SUBSET (1 .. Len(l)) /\ Len(l) \in Nat
    OBVIOUS
  <2>2. PICK k \in found : k = Min(found)
    BY <1>3, <2>1, MinOfBounded
  <2>3. k \in 1 .. Len(l) /\ l[k].seqnum = s
    BY <2>1, <2>2
  <2> HIDE DEF found
  <2>4. new = RemoveAt(l, k)
    BY <2>2
  <2> HIDE DEF new
  <2>5. /\ new \in Seq(P) /\ Len(new) = Len(l) - 1
        /\ \A j \in 1 .. Len(l) - 1 :
             new[j] = IF j < k THEN l[j] ELSE l[j + 1]
    BY <2>3, <2>4, RemoveAtElements
  <2>6. \A i \in DOMAIN l : /\ l[i].seqnum \in SeqNums
                            /\ Distance(n, l[i].seqnum) \in Nat
                            /\ l[i].seqnum = s => i = k
    <3>1. \A i \in DOMAIN l : l[i].seqnum \in SeqNums
                               /\ Distance(n, l[i].seqnum) \in Nat
      BY DistanceFacts
    <3>2. ASSUME NEW i \in DOMAIN l, l[i].seqnum = s PROVE i = k
      <4>1. ~ i < k /\ ~ k < i
        BY <2>3, <3>1, <3>2 DEF InWindowOrder
      <4> QED
        BY <2>3, <4>1
    <3> QED
      BY <3>1, <3>2
  <2>7. DOMAIN new = 1 .. Len(l) - 1 /\ DOMAIN l = 1 .. Len(l)
    BY <2>5
  <2>8. InWindowOrder(new, n)
    <3> SUFFICES ASSUME NEW i \in 1 .. Len(l) - 1, NEW j \in 1 .. Len(l) - 1,
                        i < j
                 PROVE  Distance(n, new[i].seqnum) < Distance(n, new[j].seqnum)
      BY <2>7 DEF InWindowOrder
    <3> DEFINE ii == IF i < k THEN i ELSE i + 1
               jj == IF j < k THEN j ELSE j + 1
    <3>1. ii \in DOMAIN l /\ jj \in DOMAIN l /\ ii < jj
      BY <2>1, <2>3, <2>7
    <3>2. new[i] = l[ii] /\ new[j] = l[jj]
      BY <2>5
    <3> QED
      BY <3>1, <3>2 DEF InWindowOrder
  <2>9. Packets(new) = {q \in Packets(l) : q.seqnum # s}
    <3>1. ASSUME NEW j \in DOMAIN new
          PROVE  new[j] \in Packets(l) /\ new[j].seqnum # s
      <4> DEFINE jj == IF j < k THEN j ELSE j + 1
      <4>1. jj \in DOMAIN l /\ jj # k /\ new[j] = l[jj]
        BY <2>1, <2>3, <2>5, <2>7
      <4> QED
        BY <2>6, <4>1 DEF Packets
    <3>2. ASSUME NEW i \in DOMAIN l, l[i].seqnum # s
          PROVE  l[i] \in Packets(new)
      <4> DEFINE j == IF i < k THEN i ELSE i - 1
      <4>1. i # k
        BY <2>3, <3>2
      <4>2. j \in DOMAIN new /\ new[j] = l[i]
        BY <2>1, <2>3, <2>5, <2>7, <4>1
      <4> QED
        BY <4>2 DEF Packets
    <3> QED
      BY <3>1, <3>2 DEF Packets
  <2> QED
    BY <1>1, <1>3, <2>5, <2>8, <2>9
<1> QED
  BY <1>2, <1>3

=============================================================================

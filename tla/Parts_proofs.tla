----------------------------- MODULE Parts_proofs -----------------------------
(***************************************************************************)
(* The parts that are checked side by side, each proved by itself and then *)
(* for the module Parts that puts them together.                           *)
(***************************************************************************)
EXTENDS Parts, ReliablePacketBuffer_proofs, Emerge_proofs, FiniteSetTheorems,
        WellFoundedInduction, TLAPS

-----------------------------------------------------------------------------
(* The list of the packets of a channel: it stays in order and within the  *)
(* window, for every size of the circle and every length of the list.      *)

ListedPacket == [seqnum : SeqNums]

ListInv == BufferTypeOK /\ ListInWindowOrder

LEMMA PacketsHaveSeqnums == \A p \in ListedPacket : p.seqnum \in SeqNums
BY DEF ListedPacket

LEMMA BufferInit_Inv == BufferInit => ListInv
BY DEF BufferInit, ListInv, BufferTypeOK, ListInWindowOrder, InWindowOrder, Packets

(* An insertion keeps the order, and brings only a number of the window.   *)
LEMMA Insert_Inv ==
  ASSUME ListInv, NEW s \in SeqNums, Insert(s)
  PROVE  ListInv'
<1> DEFINE p == [seqnum |-> s]
<1>1. /\ list \in Seq(ListedPacket) /\ next_expected \in SeqNums
      /\ InWindowOrder(list, next_expected) /\ p \in ListedPacket
  BY DEF ListInv, BufferTypeOK, ListInWindowOrder, ListedPacket
<1>2. list' = insert(list, p, next_expected) /\ next_expected' = next_expected
  BY DEF Insert
<1>3. /\ list' \in Seq(ListedPacket)
      /\ InWindowOrder(list', next_expected)
      /\ Refused(list, p, next_expected) => list' = list
      /\ ~ Refused(list, p, next_expected) =>
           Packets(list') = Packets(list) \union {p}
  <2> HIDE DEF p
  <2> QED
    BY <1>1, <1>2, PacketsHaveSeqnums, InsertFacts
<1>4. \A q \in Packets(list') :
        Distance(next_expected, q.seqnum) < MAX_RELIABLE_WINDOW_SIZE
  <2>1. \A q \in Packets(list) :
          Distance(next_expected, q.seqnum) < MAX_RELIABLE_WINDOW_SIZE
    BY DEF ListInv, ListInWindowOrder
  <2>2. Distance(next_expected, s) \in Nat
    BY <1>1, DistanceFacts
  <2> QED
    BY <1>3, <2>1, <2>2, CircleSize DEF Refused
<1> QED
  BY <1>1, <1>2, <1>3, <1>4 DEF ListInv, BufferTypeOK, ListInWindowOrder, ListedPacket,
     InWindowOrder

(* Taking packets out keeps the order.                                     *)
LEMMA Pop_Inv ==
  ASSUME ListInv, NEW s \in SeqNums, Pop(s)
  PROVE  ListInv'
<1>1. /\ list \in Seq(ListedPacket) /\ next_expected \in SeqNums
      /\ InWindowOrder(list, next_expected)
  BY DEF ListInv, BufferTypeOK, ListInWindowOrder, ListedPacket
<1>2. list' = popSeqnum(list, s) /\ next_expected' = next_expected
  BY DEF Pop
<1>3. /\ list' \in Seq(ListedPacket)
      /\ InWindowOrder(list', next_expected)
      /\ Packets(list') \subseteq Packets(list)
  BY <1>1, <1>2, PacketsHaveSeqnums, PopSeqnumFacts
<1> QED
  BY <1>1, <1>2, <1>3 DEF ListInv, BufferTypeOK, ListInWindowOrder, ListedPacket,
     InWindowOrder

(* When the number waited for moves on, every packet left comes one nearer. *)
LEMMA Advance_Inv ==
  ASSUME ListInv, Advance
  PROVE  ListInv'
<1> DEFINE n == next_expected
           n1 == U16(n + 1)
<1>1. /\ list \in Seq(ListedPacket) /\ n \in SeqNums /\ InWindowOrder(list, n)
      /\ \A q \in Packets(list) : Distance(n, q.seqnum) < MAX_RELIABLE_WINDOW_SIZE
  BY DEF ListInv, BufferTypeOK, ListInWindowOrder, ListedPacket
<1>2. list' = popSeqnum(list, n) /\ next_expected' = n1
  BY DEF Advance
<1>3. /\ list' \in Seq(ListedPacket)
      /\ InWindowOrder(list', n)
      /\ Packets(list') = {q \in Packets(list) : q.seqnum # n}
  BY <1>1, <1>2, PacketsHaveSeqnums, PopSeqnumFacts
<1>4. n1 \in SeqNums
  BY <1>1, DistanceFacts
<1>5. \A i \in DOMAIN list' :
        /\ Distance(n, list'[i].seqnum) \in Nat
        /\ Distance(n1, list'[i].seqnum) = Distance(n, list'[i].seqnum) - 1
        /\ Distance(n, list'[i].seqnum) < MAX_RELIABLE_WINDOW_SIZE
  <2> SUFFICES ASSUME NEW i \in DOMAIN list'
               PROVE  /\ Distance(n, list'[i].seqnum) \in Nat
                      /\ Distance(n1, list'[i].seqnum)
                           = Distance(n, list'[i].seqnum) - 1
                      /\ Distance(n, list'[i].seqnum) < MAX_RELIABLE_WINDOW_SIZE
    OBVIOUS
  <2>1. list'[i] \in Packets(list') /\ list'[i] \in ListedPacket
    BY <1>3 DEF Packets
  <2>2. list'[i].seqnum \in SeqNums /\ list'[i].seqnum # n
    BY <1>3, <2>1, PacketsHaveSeqnums
  <2> QED
    BY <1>1, <1>3, <2>1, <2>2, DistanceFacts
<1> HIDE DEF n1, n
<1>6. InWindowOrder(list', n1)
  BY <1>3, <1>5 DEF InWindowOrder
<1>7. \A q \in Packets(list') : Distance(n1, q.seqnum) < MAX_RELIABLE_WINDOW_SIZE
  BY <1>5, CircleSize DEF Packets
<1> QED
  BY <1>2, <1>3, <1>4, <1>6, <1>7 DEF ListInv, BufferTypeOK, ListInWindowOrder, ListedPacket,
     InWindowOrder

LEMMA BufferNext_Inv == ListInv /\ [BufferNext]_bufferVars => ListInv'
<1> SUFFICES ASSUME ListInv, [BufferNext]_bufferVars PROVE ListInv'
  OBVIOUS
<1>1. CASE \E s \in SeqNums : Insert(s)
  BY <1>1, Insert_Inv
<1>2. CASE \E s \in SeqNums : Pop(s)
  BY <1>2, Pop_Inv
<1>3. CASE Advance
  BY <1>3, Advance_Inv
<1>4. CASE UNCHANGED bufferVars
  BY <1>4 DEF ListInv, BufferTypeOK, ListInWindowOrder, bufferVars, InWindowOrder,
     Packets
<1> QED
  BY <1>1, <1>2, <1>3, <1>4 DEF BufferNext

(* The list is always in circular order from the number waited for and     *)
(* within the window (ReliablePacketBuffer::insert, popSeqnum).            *)
THEOREM AlwaysInWindowOrder == BufferSpec => []ListInWindowOrder
<1>1. ListInv => ListInWindowOrder
  BY DEF ListInv
<1> QED
  BY <1>1, BufferInit_Inv, BufferNext_Inv, PTL DEF BufferSpec

(* insert adds one packet or, for a reason, nothing.                       *)
THEOREM AlwaysInsertAddsOne == BufferSpec => []InsertAddsOne
<1>1. ListInv => InsertAddsOne
  <2> SUFFICES ASSUME ListInv, NEW s \in SeqNums
      PROVE  LET after == insert(list, [seqnum |-> s], next_expected)
             IN IF \/ Distance(next_expected, s) = 0
                   \/ Distance(next_expected, s) >= MAX_RELIABLE_WINDOW_SIZE
                   \/ \E i \in DOMAIN list : list[i].seqnum = s
                THEN after = list
                ELSE Packets(after) = Packets(list) \union {[seqnum |-> s]}
    BY DEF InsertAddsOne
  <2>1. /\ list \in Seq(ListedPacket) /\ next_expected \in SeqNums
        /\ InWindowOrder(list, next_expected) /\ [seqnum |-> s] \in ListedPacket
    BY DEF ListInv, BufferTypeOK, ListInWindowOrder, ListedPacket
  <2> DEFINE p == [seqnum |-> s]
             n == next_expected
  <2>2. /\ Refused(list, p, n) => insert(list, p, n) = list
        /\ ~ Refused(list, p, n) =>
             Packets(insert(list, p, n)) = Packets(list) \union {p}
    <3>1. p \in ListedPacket
      BY <2>1
    <3> HIDE DEF p
    <3> QED
      BY <2>1, <3>1, PacketsHaveSeqnums, InsertFacts
  <2>3. Refused(list, p, n) <=> \/ Distance(n, s) = 0
                               \/ Distance(n, s) >= MAX_RELIABLE_WINDOW_SIZE
                               \/ \E i \in DOMAIN list : list[i].seqnum = s
    BY DEF Refused
  <2> QED
    BY <2>2, <2>3
<1> QED
  BY <1>1, BufferInit_Inv, BufferNext_Inv, PTL DEF BufferSpec

(* Whatever number is waited for, any other one is either newer or older,  *)
(* and a window that starts there is an interval.                          *)
THEOREM AlwaysCircularOrder == BufferSpec => []CircularOrder
<1>1. ListInv => NewerIsOneWay
  <2> SUFFICES ASSUME next_expected \in SeqNums PROVE NewerIsOneWay
    BY DEF ListInv, BufferTypeOK
  <2> QED
    BY HigherIsOneWay DEF NewerIsOneWay
<1>2. ListInv => WindowIsInterval
  BY InWindowIsDistance DEF WindowIsInterval, ListInv, BufferTypeOK
<1>3. ListInv => CircularOrder
  BY <1>1, <1>2 DEF CircularOrder
<1> QED
  BY <1>3, BufferInit_Inv, BufferNext_Inv, PTL DEF BufferSpec

-----------------------------------------------------------------------------
(* Peer ids.                                                               *)

LEMMA MinIsIn ==
  ASSUME NEW S \in SUBSET Nat, S # {}
  PROVE  Min(S) \in S /\ \A y \in S : Min(S) <= y
<1>1. \E x \in S : \A y \in S : ~(<<y, x>> \in OpToRel(<, Nat))
  BY NatLessThanWellFounded, WFMin
<1>2. PICK x \in S : \A y \in S : ~(<<y, x>> \in OpToRel(<, Nat))
  BY <1>1
<1>3. \A y \in S : ~(y < x)
  BY <1>2 DEF OpToRel
<1>4. x \in S /\ \A y \in S : x <= y
  BY <1>3, SMT
<1> QED
  BY <1>4 DEF Min

(* Each id in use is counted once, the addresses of all but those that were*)
(* given id 0 have one peer at most, and only those have peer 0.           *)
IdentityInv ==
  /\ IdentityTypeOK
  /\ \A i \in Ids : m_peer_ids[i] = IF i \in DOMAIN m_peers THEN 1 ELSE 0
  /\ \A i, j \in DOMAIN m_peers :
       m_peers[i] = m_peers[j] /\ m_peers[i] \notin nobodies => i = j
  /\ Nobody0 \in DOMAIN m_peers => m_peers[Nobody0] \in nobodies

LEMMA IdentityInit_Inv == IdentityInit => IdentityInv
  BY PeerIdentityAssumption
     DEF IdentityInit, IdentityInv, IdentityTypeOK, Ids, Nobody0

LEMMA AddPeer_Inv ==
  ASSUME IdentityInv, NEW a \in Addresses, ReceiveFromNobody(a)
  PROVE  IdentityInv'
<1> DEFINE free == (m_next_remote_peer_id .. MAX_UDP_PEERS) \ DOMAIN m_peers
<1>1. free # {} /\ AddPeer(Min(free), a)
  BY DEF ReceiveFromNobody, createPeer
<1>2. free \in SUBSET Nat
  BY PeerIdentityAssumption DEF IdentityInv, IdentityTypeOK
<1>3. Min(free) \in free
  BY <1>1, <1>2, MinIsIn
<1>4. PICK i \in free : AddPeer(i, a)
  BY <1>1, <1>3
<1>5. i \in Ids /\ i \notin DOMAIN m_peers
  BY <1>4, PeerIdentityAssumption DEF IdentityInv, IdentityTypeOK, Ids
<1> HIDE DEF free
<1>6. IdsOf(a) \in SUBSET Nat
  BY PeerIdentityAssumption DEF IdentityInv, IdentityTypeOK, Ids, IdsOf
<1>7. \A j \in DOMAIN m_peers : m_peers[j] = a => a \in nobodies
  <2>1. CASE IdsOf(a) = {}
    BY <2>1 DEF IdsOf
  <2>2. CASE IdsOf(a) # {}
    <3>1. Nobody0 \in IdsOf(a)
      BY <2>2, <1>6, MinIsIn DEF ReceiveFromNobody, lookupPeer
    <3> QED
      BY <3>1 DEF IdsOf, IdentityInv
  <2> QED
    BY <2>1, <2>2
<1>8. UNCHANGED <<replies, m_peer_id, heard>>
  BY DEF ReceiveFromNobody
<1>9. IdentityTypeOK'
  <2>1. m_next_remote_peer_id' \in 0 .. MAX_UDP_PEERS - 1
    BY <1>4, <1>5, PeerIdentityAssumption DEF AddPeer, Ids
  <2>2. m_peer_ids' \in [Ids -> Nat]
    BY <1>4, <1>5 DEF AddPeer, IdentityInv, IdentityTypeOK
  <2> QED
    BY <2>1, <2>2, <1>4, <1>5, <1>8 DEF AddPeer, IdentityInv, IdentityTypeOK
<1>10. \A k \in Ids : m_peer_ids'[k] = IF k \in DOMAIN m_peers' THEN 1 ELSE 0
  BY <1>4, <1>5 DEF AddPeer, IdentityInv, IdentityTypeOK
<1>11. \A k, j \in DOMAIN m_peers' :
         m_peers'[k] = m_peers'[j] /\ m_peers'[k] \notin nobodies' => k = j
  BY <1>4, <1>7 DEF AddPeer, IdentityInv
<1>12. Nobody0 \in DOMAIN m_peers' => m_peers'[Nobody0] \in nobodies'
  BY <1>4 DEF AddPeer, IdentityInv
<1> QED
  BY <1>9, <1>10, <1>11, <1>12 DEF IdentityInv

LEMMA IdentityNext_Inv == IdentityInv /\ [IdentityNext]_identityVars => IdentityInv'
<1> SUFFICES ASSUME IdentityInv, [IdentityNext]_identityVars
             PROVE  IdentityInv'
  OBVIOUS
<1>1. ASSUME NEW a \in Addresses, ReceiveFromNobody(a)
      PROVE  IdentityInv'
  BY <1>1, AddPeer_Inv
<1>2. ASSUME NEW a \in Addresses, NewClient(a)
      PROVE  IdentityInv'
  BY <1>2, PeerIdentityAssumption DEF NewClient, IdentityInv, IdentityTypeOK, Ids, Nobody0
<1>3. ASSUME NEW a \in Addresses, NEW i \in Ids, ReceiveSetPeerId(a, i)
      PROVE  IdentityInv'
  BY <1>3 DEF ReceiveSetPeerId, IdentityInv, IdentityTypeOK
<1>4. ASSUME NEW i \in Ids, SendSetPeerId(i)
      PROVE  IdentityInv'
  BY <1>4 DEF SendSetPeerId, IdentityInv, IdentityTypeOK
<1>5. ASSUME NEW i \in Ids, deletePeer(i)
      PROVE  IdentityInv'
  BY <1>5 DEF deletePeer, IdentityInv, IdentityTypeOK
<1>6. CASE UNCHANGED identityVars
  BY <1>6 DEF identityVars, IdentityInv, IdentityTypeOK
<1> QED
  BY <1>1, <1>2, <1>3, <1>4, <1>5, <1>6 DEF IdentityNext

LEMMA IdentityInv_Sound == IdentityInv => IdsAreSound
<1> SUFFICES ASSUME IdentityInv, NEW a \in Addresses \ nobodies
             PROVE  Cardinality(IdsOf(a)) <= 1
  BY DEF IdentityInv, IdsAreSound
<1>1. CASE IdsOf(a) = {}
  BY <1>1, FS_EmptySet
<1>2. CASE IdsOf(a) # {}
  <2>1. PICK i \in IdsOf(a) : TRUE
    BY <1>2
  <2>2. IdsOf(a) = {i}
    BY <2>1 DEF IdsOf, IdentityInv
  <2> QED
    BY <2>2, FS_Singleton
<1> QED
  BY <1>1, <1>2

-----------------------------------------------------------------------------
(* Modchannels.                                                            *)

(* What p's queue asks for makes sense one after the other, p being a      *)
(* consumer or not; its client believes what will come of it.              *)
Agrees(p, consumers, queue, belief) ==
  /\ belief # "none" <=> ListensAfter(p, consumers, queue, Len(queue))
  /\ \A i \in 1 .. Len(queue) :
       queue[i] = "JOIN" <=> ~ListensAfter(p, consumers, queue, i - 1)

(* One more packet handled.                                                *)
LEMMA ListensStep ==
  ASSUME NEW p, NEW S, NEW q \in Seq(JoinRequests), NEW n \in Nat, n < Len(q)
  PROVE  ListensAfter(p, S, q, n + 1) <=>
           \/ q[n + 1] = "JOIN"
           \/ q[n + 1] = "MSG" /\ ListensAfter(p, S, q, n)
<1>1. q[n + 1] \in JoinRequests /\ n + 1 \in 1 .. n + 1
  OBVIOUS
<1>2. \A i \in 1 .. n : i \in 1 .. n + 1 /\ i # n + 1
  OBVIOUS
<1>3. \A i \in 1 .. n + 1 : i = n + 1 \/ i \in 1 .. n
  OBVIOUS
<1>4. CASE q[n + 1] = "JOIN"
  <2>1. \A j \in n + 1 + 1 .. n + 1 : q[j] = "MSG"
    OBVIOUS
  <2> QED
    BY <2>1, <1>1, <1>4 DEF ListensAfter
<1>5. CASE q[n + 1] = "LEAVE"
  <2>1. ASSUME NEW i \in 1 .. n + 1, q[i] = "JOIN",
               \A j \in i + 1 .. n + 1 : q[j] = "MSG"
        PROVE  FALSE
    BY <2>1, <1>3, <1>5
  <2> QED
    BY <2>1, <1>1, <1>5 DEF ListensAfter
<1>6. CASE q[n + 1] = "MSG"
  <2>1. (\A i \in 1 .. n : q[i] = "MSG") <=> (\A i \in 1 .. n + 1 : q[i] = "MSG")
    BY <1>2, <1>3, <1>6
  <2>2. ASSUME NEW i \in 1 .. n
        PROVE  (\A j \in i + 1 .. n : q[j] = "MSG") <=> (\A j \in i + 1 .. n + 1 : q[j] = "MSG")
    <3>1. \A j \in i + 1 .. n + 1 : j = n + 1 \/ j \in i + 1 .. n
      OBVIOUS
    <3>2. \A j \in i + 1 .. n : j \in i + 1 .. n + 1
      OBVIOUS
    <3> QED
      BY <3>1, <3>2, <1>6
  <2>3. q[n + 1] # "JOIN"
    BY <1>6
  <2> QED
    BY <2>1, <2>2, <2>3, <1>2, <1>3, <1>6 DEF ListensAfter
<1> QED
  BY <1>1, <1>4, <1>5, <1>6 DEF JoinRequests

LEMMA ListensNow ==
  ASSUME NEW p, NEW S, NEW q
  PROVE  ListensAfter(p, S, q, 0) <=> p \in S
  BY DEF ListensAfter

(* The head handled: S becomes T, and the rest of the queue moves up.      *)
LEMMA ListensTail ==
  ASSUME NEW p, NEW S, NEW T, NEW q \in Seq(JoinRequests), q # <<>>,
         p \in T <=> (Head(q) = "JOIN" \/ (Head(q) = "MSG" /\ p \in S)),
         NEW n \in Nat, n < Len(q)
  PROVE  ListensAfter(p, T, Tail(q), n) <=> ListensAfter(p, S, q, n + 1)
<1> DEFINE r == Tail(q)
<1>1. r \in Seq(JoinRequests) /\ Len(q) = Len(r) + 1 /\ Head(q) = q[1] /\ q[1] \in JoinRequests
  OBVIOUS
<1>2. \A i \in 1 .. n : r[i] = q[i + 1] /\ i + 1 \in 2 .. n + 1
  BY <1>1
<1>3. \A i \in 2 .. n + 1 : i - 1 \in 1 .. n /\ r[i - 1] = q[i]
  BY <1>1
<1> HIDE DEF r
<1>4. (\A i \in 1 .. n : r[i] = "MSG") <=> (\A i \in 2 .. n + 1 : q[i] = "MSG")
  BY <1>2, <1>3
<1>5. (\A i \in 1 .. n + 1 : q[i] = "MSG") <=> q[1] = "MSG" /\ \A i \in 2 .. n + 1 : q[i] = "MSG"
  <2>1. \A i \in 1 .. n + 1 : i = 1 \/ i \in 2 .. n + 1
    OBVIOUS
  <2>2. 1 \in 1 .. n + 1 /\ \A i \in 2 .. n + 1 : i \in 1 .. n + 1
    OBVIOUS
  <2> QED
    BY <2>1, <2>2
<1>6. ASSUME NEW i \in 1 .. n
      PROVE  (\A j \in i + 1 .. n : r[j] = "MSG") <=> (\A j \in i + 1 + 1 .. n + 1 : q[j] = "MSG")
  <2>1. \A j \in i + 1 .. n : j + 1 \in i + 1 + 1 .. n + 1 /\ r[j] = q[j + 1]
    BY <1>2
  <2>2. \A j \in i + 1 + 1 .. n + 1 : j - 1 \in i + 1 .. n /\ r[j - 1] = q[j]
    BY <1>3
  <2> QED
    BY <2>1, <2>2
<1> DEFINE A == \E i \in 1 .. n : r[i] = "JOIN" /\ \A j \in i + 1 .. n : r[j] = "MSG"
           B == \E i \in 2 .. n + 1 : q[i] = "JOIN" /\ \A j \in i + 1 .. n + 1 : q[j] = "MSG"
<1>7. A <=> B
  <2>1. ASSUME A PROVE B
    <3>1. PICK i \in 1 .. n : r[i] = "JOIN" /\ \A j \in i + 1 .. n : r[j] = "MSG"
      BY <2>1
    <3> QED
      BY <3>1, <1>2, <1>6
  <2>2. ASSUME B PROVE A
    <3>1. PICK i \in 2 .. n + 1 : q[i] = "JOIN" /\ \A j \in i + 1 .. n + 1 : q[j] = "MSG"
      BY <2>2
    <3>2. i - 1 \in 1 .. n /\ r[i - 1] = "JOIN" /\ (i - 1) + 1 = i
      BY <3>1, <1>3
    <3>3. \A j \in (i - 1) + 1 .. n : r[j] = "MSG"
      BY <3>1, <3>2, <1>6
    <3> QED
      BY <3>2, <3>3
  <2> QED
    BY <2>1, <2>2
<1>8. ListensAfter(p, S, q, n + 1) <=>
        \/ p \in S /\ \A i \in 1 .. n + 1 : q[i] = "MSG"
        \/ q[1] = "JOIN" /\ \A j \in 2 .. n + 1 : q[j] = "MSG"
        \/ B
  <2>1. \A i \in 1 .. n + 1 : i = 1 \/ i \in 2 .. n + 1
    OBVIOUS
  <2>2. 1 \in 1 .. n + 1 /\ 1 + 1 = 2 /\ \A i \in 2 .. n + 1 : i \in 1 .. n + 1
    OBVIOUS
  <2> QED
    BY <2>1, <2>2 DEF ListensAfter
<1>9. ListensAfter(p, T, r, n) <=> A \/ (p \in T /\ \A i \in 1 .. n : r[i] = "MSG")
  BY DEF ListensAfter
<1> HIDE DEF A, B
<1>10. ListensAfter(p, T, r, n) <=> ListensAfter(p, S, q, n + 1)
  BY <1>1, <1>4, <1>5, <1>7, <1>8, <1>9
<1> QED
  BY <1>10 DEF r

(* What is appended makes no difference before.                            *)
LEMMA ListensAppend ==
  ASSUME NEW p, NEW S, NEW q \in Seq(JoinRequests), NEW x, NEW n \in 0 .. Len(q)
  PROVE  ListensAfter(p, S, Append(q, x), n) <=> ListensAfter(p, S, q, n)
<1>1. \A i \in 1 .. n : Append(q, x)[i] = q[i]
  OBVIOUS
<1>2. \A i \in 1 .. n : \A j \in i + 1 .. n : Append(q, x)[j] = q[j]
  OBVIOUS
<1> QED
  BY <1>1, <1>2 DEF ListensAfter

(* A client that sends what makes sense to it.                             *)
LEMMA AgreesSend ==
  ASSUME NEW p, NEW S, NEW q \in Seq(JoinRequests), NEW before, NEW after,
         NEW x \in JoinRequests, Agrees(p, S, q, before),
         x = "JOIN" <=> before = "none",
         after # "none" <=> x = "JOIN" \/ (x = "MSG" /\ before # "none")
  PROVE  Agrees(p, S, Append(q, x), after)
<1> DEFINE r == Append(q, x)
<1>1. r \in Seq(JoinRequests) /\ Len(r) = Len(q) + 1 /\ r[Len(q) + 1] = x
  OBVIOUS
<1>2. ListensAfter(p, S, r, Len(q)) <=> before # "none"
  BY ListensAppend DEF Agrees
<1>3. Len(q) \in Nat
  OBVIOUS
<1>4. ListensAfter(p, S, r, Len(q) + 1) <=> x = "JOIN" \/ (x = "MSG" /\ before # "none")
  <2>1. Len(q) < Len(r)
    BY <1>1, <1>3
  <2> HIDE DEF r
  <2>2. ListensAfter(p, S, r, Len(q) + 1) <=>
          \/ r[Len(q) + 1] = "JOIN"
          \/ r[Len(q) + 1] = "MSG" /\ ListensAfter(p, S, r, Len(q))
    BY <2>1, <1>1, <1>3, ListensStep
  <2> QED
    BY <2>2, <1>1, <1>2
<1>5. ASSUME NEW i \in 1 .. Len(q)
      PROVE  r[i] = "JOIN" <=> ~ListensAfter(p, S, r, i - 1)
  <2>1. i - 1 \in 0 .. Len(q) /\ r[i] = q[i]
    OBVIOUS
  <2>2. ListensAfter(p, S, r, i - 1) <=> ListensAfter(p, S, q, i - 1)
    BY <2>1, ListensAppend
  <2> QED
    BY <2>1, <2>2 DEF Agrees
<1>6. r[Len(q) + 1] = "JOIN" <=> ~ListensAfter(p, S, r, (Len(q) + 1) - 1)
  <2>1. (Len(q) + 1) - 1 = Len(q)
    BY <1>3
  <2> QED
    BY <2>1, <1>1, <1>2
<1>7. \A i \in 1 .. Len(r) : i = Len(q) + 1 \/ i \in 1 .. Len(q)
  BY <1>1, <1>3
<1> HIDE DEF r
<1>8. Agrees(p, S, r, after)
  BY <1>1, <1>4, <1>5, <1>6, <1>7 DEF Agrees
<1> QED
  BY <1>8 DEF r

(* The server handles the first packet.                                    *)
LEMMA AgreesHandle ==
  ASSUME NEW p, NEW S, NEW T, NEW q \in Seq(JoinRequests), NEW belief,
         Agrees(p, S, q, belief), q # <<>>,
         p \in T <=> (Head(q) = "JOIN" \/ (Head(q) = "MSG" /\ p \in S))
  PROVE  /\ Agrees(p, T, Tail(q), belief)
         /\ Head(q) = "JOIN" <=> p \notin S
<1> DEFINE r == Tail(q)
<1>1. r \in Seq(JoinRequests) /\ Len(q) = Len(r) + 1 /\ Head(q) = q[1] /\ Len(r) \in Nat
  OBVIOUS
<1>2. \A i \in 1 .. Len(r) : r[i] = q[i + 1] /\ i + 1 \in 1 .. Len(q)
  BY <1>1
<1>3. \A n \in 0 .. Len(r) : ListensAfter(p, T, r, n) <=> ListensAfter(p, S, q, n + 1)
  <2> TAKE n \in 0 .. Len(r)
  <2>1. n \in Nat /\ n < Len(q)
    BY <1>1
  <2> QED
    BY <2>1, ListensTail
<1> HIDE DEF r
<1>4. ListensAfter(p, T, r, Len(r)) <=> belief # "none"
  <2>1. Len(r) \in 0 .. Len(r)
    BY <1>1
  <2> QED
    BY <1>1, <1>3, <2>1 DEF Agrees
<1>5. ASSUME NEW i \in 1 .. Len(r)
      PROVE  r[i] = "JOIN" <=> ~ListensAfter(p, T, r, i - 1)
  <2>1. i - 1 \in 0 .. Len(r) /\ (i - 1) + 1 = i /\ (i + 1) - 1 = i
    BY <1>1
  <2>2. ListensAfter(p, T, r, i - 1) <=> ListensAfter(p, S, q, i)
    BY <2>1, <1>3
  <2>3. q[i + 1] = "JOIN" <=> ~ListensAfter(p, S, q, i)
    BY <1>2, <2>1 DEF Agrees
  <2> QED
    BY <2>2, <2>3, <1>2
<1>6. Head(q) = "JOIN" <=> p \notin S
  <2>1. 1 \in 1 .. Len(q) /\ 1 - 1 = 0
    BY <1>1
  <2>2. q[1] = "JOIN" <=> ~ListensAfter(p, S, q, 0)
    BY <2>1 DEF Agrees
  <2> QED
    BY <2>2, <1>1, ListensNow
<1>7. Agrees(p, T, r, belief)
  BY <1>4, <1>5 DEF Agrees
<1> QED
  BY <1>6, <1>7 DEF r

(* Whatever else changes.                                                  *)
LEMMA AgreesFrame ==
  ASSUME NEW p, NEW S, NEW T, NEW q, NEW before, NEW after,
         Agrees(p, S, q, before), p \in S <=> p \in T,
         before # "none" <=> after # "none"
  PROVE  Agrees(p, T, q, after)
  BY DEF Agrees, ListensAfter

Listener(c) == c \notin leaving \union inherited /\ InGame(c)

(* Peer ids of clients in the game differ, nothing is on the way to or from*)
(* a client that is not there, and to a listener no failure is.            *)
ChannelInv ==
  /\ ModChannelsTypeOK
  /\ \A c, d \in ChannelClients : InGame(c) /\ session[c] = session[d] => c = d
  /\ \A c \in ChannelClients :
       ~InGame(c) => asking[c] = <<>> /\ telling[c] = <<>> /\ mine[c] = "none"
  /\ channel.consumers # {} => channel.registered
  /\ enable_mod_channels =>
       \A c \in ChannelClients : Listener(c) =>
         /\ Agrees(session[c], channel.consumers, asking[c], mine[c])
         /\ \A i \in 1 .. Len(telling[c]) : telling[c][i] # "JOIN_FAILURE"

LEMMA ChannelInv_Agree == ChannelInv => MembersAgree
<1> SUFFICES ASSUME ChannelInv, enable_mod_channels, NEW c \in ChannelClients, Listener(c)
             PROVE  /\ mine[c] # "none" <=> WillListen(c)
                    /\ asking[c] # <<>> /\ Head(asking[c]) = "MSG"
                         => session[c] \in channel.consumers
  BY DEF MembersAgree, Listener
<1>1. Agrees(session[c], channel.consumers, asking[c], mine[c])
  BY DEF ChannelInv
<1>2. asking[c] \in Seq(JoinRequests)
  BY DEF ChannelInv, ModChannelsTypeOK
<1>3. mine[c] # "none" <=> WillListen(c)
  BY <1>1 DEF Agrees, WillListen
<1>4. ASSUME asking[c] # <<>>, Head(asking[c]) = "MSG"
      PROVE  session[c] \in channel.consumers
  <2>1. Head(asking[c]) = asking[c][1] /\ 1 \in 1 .. Len(asking[c]) /\ 1 - 1 = 0
    BY <1>2, <1>4
  <2>2. asking[c][1] = "JOIN" <=> ~ListensAfter(session[c], channel.consumers, asking[c], 0)
    BY <1>1, <2>1 DEF Agrees
  <2> QED
    BY <2>1, <2>2, <1>4, ListensNow
<1> QED
  BY <1>3, <1>4

LEMMA ModChannelsInit_Inv == ModChannelsInit => ChannelInv
<1> SUFFICES ASSUME ModChannelsInit PROVE ChannelInv
  OBVIOUS
<1>1. \A c \in ChannelClients : ~InGame(c)
  BY DEF ModChannelsInit, InGame
<1>2. ModChannelsTypeOK
  BY <1>1 DEF ModChannelsInit, ModChannelsTypeOK, Unregistered
<1> QED
  BY <1>1, <1>2 DEF ModChannelsInit, ChannelInv, Unregistered, Listener

LEMMA ClientSends_Inv ==
  ASSUME ChannelInv, NEW c \in ChannelClients, NEW pkt \in JoinRequests, ClientSends(c, pkt),
         mine' \in [ChannelClients -> {"none", "init", "read_write"}],
         pkt = "JOIN" <=> mine[c] = "none",
         mine'[c] # "none" <=> pkt = "JOIN" \/ (pkt = "MSG" /\ mine[c] # "none"),
         \A d \in ChannelClients \ {c} : mine'[d] = mine[d]
  PROVE  ChannelInv'
<1>1. /\ InGame(c) /\ asking' = [asking EXCEPT ![c] = Append(@, pkt)]
      /\ UNCHANGED <<channel, telling, enable_mod_channels, session, leaving, inherited>>
  BY DEF ClientSends, whoIsThere
<1>2. asking \in [ChannelClients -> Seq(JoinRequests)]
  BY DEF ChannelInv, ModChannelsTypeOK
<1>3. asking' \in [ChannelClients -> Seq(JoinRequests)]
  BY <1>1, <1>2
<1>4. ModChannelsTypeOK'
  BY <1>1, <1>3 DEF ChannelInv, ModChannelsTypeOK, InGame
<1>5. ASSUME enable_mod_channels, NEW d \in ChannelClients, Listener(d)
      PROVE  Agrees(session[d], channel.consumers, asking'[d], mine'[d])
  <2>1. Agrees(session[d], channel.consumers, asking[d], mine[d])
    BY <1>5 DEF ChannelInv
  <2>2. CASE d = c
    <3>1. asking'[c] = Append(asking[c], pkt) /\ asking[c] \in Seq(JoinRequests)
      BY <1>1, <1>2
    <3>2. Agrees(session[c], channel.consumers, Append(asking[c], pkt), mine'[c])
      BY <2>1, <2>2, <3>1, AgreesSend
    <3> QED
      BY <2>2, <3>1, <3>2
  <2>3. CASE d # c
    BY <2>1, <2>3, <1>1, <1>2
  <2> QED
    BY <2>2, <2>3
<1>6. ASSUME NEW d \in ChannelClients, ~InGame(d)
      PROVE  asking'[d] = <<>> /\ telling'[d] = <<>> /\ mine'[d] = "none"
  <2>1. d # c
    BY <1>1, <1>6
  <2> QED
    BY <2>1, <1>1, <1>2, <1>6 DEF ChannelInv
<1> QED
  BY <1>1, <1>4, <1>5, <1>6 DEF ChannelInv, InGame, Listener

(* A handler on the server's side for the first packet of c, which may     *)
(* make c a consumer or end that, and tells others nothing but "NOTICE".   *)
LEMMA Handled_Inv ==
  ASSUME ChannelInv, NEW c \in ChannelClients, NEW pkt \in JoinRequests, Handled(c, pkt),
         telling' \in [ChannelClients -> Seq(JoinSignals)],
         channel' \in [registered : BOOLEAN, state : {"init", "read_write"},
                       consumers : SUBSET (SessionIds \union {PEER_ID_SERVER})],
         channel'.consumers # {} => channel'.registered,
         \A d \in ChannelClients \ {c} : InGame(d) =>
           (session[d] \in channel'.consumers <=> session[d] \in channel.consumers),
         \A d \in ChannelClients : ~InGame(d) => telling'[d] = <<>>,
         enable_mod_channels =>
           /\ session[c] \in channel'.consumers <=>
                pkt = "JOIN" \/ (pkt = "MSG" /\ session[c] \in channel.consumers)
           /\ \A d \in ChannelClients \ {c} : \A i \in 1 .. Len(telling'[d]) :
                \/ telling'[d][i] # "JOIN_FAILURE"
                \/ \E j \in 1 .. Len(telling[d]) : telling[d][j] = "JOIN_FAILURE"
           /\ \A i \in 1 .. Len(telling'[c]) :
                \/ telling'[c][i] # "JOIN_FAILURE"
                \/ \E j \in 1 .. Len(telling[c]) : telling[c][j] = "JOIN_FAILURE"
                \/ pkt = "JOIN" /\ session[c] \in channel.consumers
  PROVE  ChannelInv'
<1>1. /\ asking[c] # <<>> /\ Head(asking[c]) = pkt
      /\ asking' = [asking EXCEPT ![c] = Tail(@)]
      /\ UNCHANGED <<mine, enable_mod_channels, session, leaving, inherited>>
  BY DEF Handled, whoIsThere
<1>2. asking \in [ChannelClients -> Seq(JoinRequests)]
  BY DEF ChannelInv, ModChannelsTypeOK
<1>3. asking[c] \in Seq(JoinRequests) /\ Tail(asking[c]) \in Seq(JoinRequests)
      /\ asking'[c] = Tail(asking[c])
  BY <1>1, <1>2
<1>4. asking' \in [ChannelClients -> Seq(JoinRequests)]
  BY <1>1, <1>2, <1>3
<1>5. ModChannelsTypeOK'
  BY <1>1, <1>4 DEF ChannelInv, ModChannelsTypeOK, InGame
<1>6. InGame(c)
  BY <1>1 DEF ChannelInv
<1>7. ASSUME enable_mod_channels, NEW d \in ChannelClients, Listener(d)
      PROVE  /\ Agrees(session[d], channel'.consumers, asking'[d], mine[d])
             /\ \A i \in 1 .. Len(telling'[d]) : telling'[d][i] # "JOIN_FAILURE"
  <2>1. /\ Agrees(session[d], channel.consumers, asking[d], mine[d])
        /\ \A i \in 1 .. Len(telling[d]) : telling[d][i] # "JOIN_FAILURE"
    BY <1>7 DEF ChannelInv
  <2>2. CASE d = c
    <3>1. /\ Agrees(session[c], channel'.consumers, Tail(asking[c]), mine[c])
          /\ Head(asking[c]) = "JOIN" <=> session[c] \notin channel.consumers
      <4> DEFINE p == session[c]
                 S == channel.consumers
                 T == channel'.consumers
                 q == asking[c]
      <4>1. p \in T <=> (Head(q) = "JOIN" \/ (Head(q) = "MSG" /\ p \in S))
        BY <1>1, <1>7
      <4>2. Agrees(p, S, q, mine[c]) /\ q \in Seq(JoinRequests) /\ q # <<>>
        BY <2>1, <2>2, <1>1, <1>3
      <4> HIDE DEF p, S, T, q
      <4>3. Agrees(p, T, Tail(q), mine[c]) /\ (Head(q) = "JOIN" <=> p \notin S)
        BY <4>1, <4>2, AgreesHandle
      <4> QED
        BY <4>3 DEF p, S, T, q
    <3> QED
      BY <2>1, <2>2, <3>1, <1>1, <1>3, <1>7
  <2>3. CASE d # c
    <3>1. asking'[d] = asking[d] /\ InGame(d)
      BY <2>3, <1>1, <1>2, <1>7 DEF Listener
    <3>2. Agrees(session[d], channel'.consumers, asking[d], mine[d])
      BY <2>1, <2>3, <3>1, AgreesFrame
    <3> QED
      BY <2>1, <2>3, <3>1, <3>2, <1>7
  <2> QED
    BY <2>2, <2>3
<1>8. ASSUME NEW d \in ChannelClients, ~InGame(d)
      PROVE  asking'[d] = <<>> /\ telling'[d] = <<>> /\ mine[d] = "none"
  <2>1. d # c
    BY <1>6, <1>8
  <2> QED
    BY <2>1, <1>1, <1>2, <1>8 DEF ChannelInv
<1> QED
  BY <1>1, <1>5, <1>7, <1>8 DEF ChannelInv, InGame, Listener

(* What is told is of its type, reaches only who is there, and says        *)
(* "JOIN_FAILURE" only where something did already.                        *)
ToldAsBefore(d) ==
  \A i \in 1 .. Len(telling'[d]) :
    \/ telling'[d][i] # "JOIN_FAILURE"
    \/ \E j \in 1 .. Len(telling[d]) : telling[d][j] = "JOIN_FAILURE"

LEMMA AppendTells ==
  ASSUME ChannelInv, NEW d \in ChannelClients, NEW x \in JoinSignals,
         telling'[d] = Append(telling[d], x)
  PROVE  /\ telling'[d] \in Seq(JoinSignals)
         /\ \A i \in 1 .. Len(telling'[d]) :
              \/ telling'[d][i] = x
              \/ i \in 1 .. Len(telling[d]) /\ telling'[d][i] = telling[d][i]
<1>1. telling[d] \in Seq(JoinSignals)
  BY DEF ChannelInv, ModChannelsTypeOK
<1> QED
  BY <1>1

LEMMA ReplyTells ==
  ASSUME ChannelInv, NEW c \in ChannelClients, InGame(c), NEW x \in JoinSignals, Reply(c, x)
  PROVE  /\ telling' \in [ChannelClients -> Seq(JoinSignals)]
         /\ \A d \in ChannelClients : ~InGame(d) => telling'[d] = <<>>
         /\ \A d \in ChannelClients \ {c} : ToldAsBefore(d)
         /\ x # "JOIN_FAILURE" => ToldAsBefore(c)
<1>1. telling \in [ChannelClients -> Seq(JoinSignals)]
  BY DEF ChannelInv, ModChannelsTypeOK
<1>2. telling'[c] = Append(telling[c], x)
  BY <1>1 DEF Reply
<1>3. \A d \in ChannelClients \ {c} : telling'[d] = telling[d]
  BY <1>1 DEF Reply
<1>4. telling' \in [ChannelClients -> Seq(JoinSignals)]
  BY <1>1, <1>2, AppendTells DEF Reply
<1>5. x # "JOIN_FAILURE" => ToldAsBefore(c)
  BY <1>2, AppendTells DEF ToldAsBefore
<1> QED
  BY <1>3, <1>4, <1>5 DEF ToldAsBefore, ChannelInv

LEMMA BroadcastTells ==
  ASSUME ChannelInv, NEW from, Broadcast(from)
  PROVE  /\ telling' \in [ChannelClients -> Seq(JoinSignals)]
         /\ \A d \in ChannelClients : ~InGame(d) => telling'[d] = <<>>
         /\ \A d \in ChannelClients : ToldAsBefore(d)
<1> DEFINE others == {c \in ChannelClients : session[c] \in channel.consumers \ {from}}
<1>1. telling \in [ChannelClients -> Seq(JoinSignals)]
  BY DEF ChannelInv, ModChannelsTypeOK
<1>2. telling' = [c \in ChannelClients |->
                    IF c \in others THEN Append(telling[c], "NOTICE") ELSE telling[c]]
  BY DEF Broadcast
<1>3. \A d \in others : d \in ChannelClients /\ InGame(d)
  BY ModChannelsAssumption DEF ChannelInv, ModChannelsTypeOK, InGame
<1> HIDE DEF others
<1>4. ASSUME NEW d \in ChannelClients
      PROVE  telling'[d] \in Seq(JoinSignals) /\ ToldAsBefore(d)
  <2>1. CASE d \in others
    <3>1. telling'[d] = Append(telling[d], "NOTICE") /\ "NOTICE" \in JoinSignals
      BY <2>1, <1>2 DEF JoinSignals
    <3> QED
      BY <3>1, AppendTells DEF ToldAsBefore
  <2>2. CASE d \notin others
    BY <2>2, <1>1, <1>2 DEF ToldAsBefore
  <2> QED
    BY <2>1, <2>2
<1>5. telling' \in [ChannelClients -> Seq(JoinSignals)]
  BY <1>2, <1>4
<1>6. \A d \in ChannelClients : ~InGame(d) => telling'[d] = <<>>
  BY <1>2, <1>3 DEF ChannelInv
<1> QED
  BY <1>4, <1>5, <1>6

(* The clients' own actions.                                               *)
LEMMA clientActions_Inv ==
  ASSUME ChannelInv, NEW c \in ChannelClients,
         \/ clientJoinModChannel(c) \/ clientLeaveModChannel(c)
         \/ clientSendModChannelMessage(c) \/ handleSignal(c)
  PROVE  ChannelInv'
<1>0. mine \in [ChannelClients -> {"none", "init", "read_write"}]
  BY DEF ChannelInv, ModChannelsTypeOK
<1>1. CASE clientJoinModChannel(c)
  <2>1. mine[c] = "none" /\ ClientSends(c, "JOIN") /\ mine' = [mine EXCEPT ![c] = "init"]
    BY <1>1 DEF clientJoinModChannel
  <2>2. "JOIN" \in JoinRequests
    BY DEF JoinRequests
  <2>3. mine' \in [ChannelClients -> {"none", "init", "read_write"}] /\ mine'[c] = "init"
        /\ \A d \in ChannelClients \ {c} : mine'[d] = mine[d]
    BY <2>1, <1>0
  <2> QED
    BY <2>1, <2>2, <2>3, ClientSends_Inv
<1>2. CASE clientLeaveModChannel(c)
  <2>1. mine[c] # "none" /\ ClientSends(c, "LEAVE") /\ mine' = [mine EXCEPT ![c] = "none"]
    BY <1>2 DEF clientLeaveModChannel
  <2>2. "LEAVE" \in JoinRequests
    BY DEF JoinRequests
  <2>3. mine' \in [ChannelClients -> {"none", "init", "read_write"}] /\ mine'[c] = "none"
        /\ \A d \in ChannelClients \ {c} : mine'[d] = mine[d]
    BY <2>1, <1>0
  <2> QED
    BY <2>1, <2>2, <2>3, ClientSends_Inv
<1>3. CASE clientSendModChannelMessage(c)
  <2>1. mine[c] = "read_write" /\ ClientSends(c, "MSG") /\ mine' = mine
    BY <1>3 DEF clientSendModChannelMessage
  <2>2. "MSG" \in JoinRequests
    BY DEF JoinRequests
  <2> QED
    BY <2>1, <2>2, <1>0, ClientSends_Inv
<1>4. CASE handleSignal(c)
  <2>1. /\ telling[c] # <<>>
        /\ mine' = [mine EXCEPT ![c] = AfterSignal(@, Head(telling[c]))]
        /\ telling' = [telling EXCEPT ![c] = Tail(@)]
        /\ UNCHANGED <<channel, asking, enable_mod_channels, session, leaving, inherited>>
    BY <1>4 DEF handleSignal, whoIsThere
  <2>2. telling \in [ChannelClients -> Seq(JoinSignals)] /\ telling[c] \in Seq(JoinSignals)
    BY DEF ChannelInv, ModChannelsTypeOK
  <2>3. Head(telling[c]) = telling[c][1] /\ Tail(telling[c]) \in Seq(JoinSignals)
        /\ 1 \in 1 .. Len(telling[c])
        /\ \A i \in 1 .. Len(Tail(telling[c])) :
             i + 1 \in 1 .. Len(telling[c]) /\ Tail(telling[c])[i] = telling[c][i + 1]
    BY <2>1, <2>2
  <2>4. AfterSignal(mine[c], Head(telling[c])) \in {"none", "init", "read_write"}
    BY <1>0 DEF AfterSignal
  <2>5. Head(telling[c]) # "JOIN_FAILURE"
          => (mine[c] # "none" <=> AfterSignal(mine[c], Head(telling[c])) # "none")
    BY <1>0 DEF AfterSignal
  <2>6. /\ mine' \in [ChannelClients -> {"none", "init", "read_write"}]
        /\ mine'[c] = AfterSignal(mine[c], Head(telling[c]))
        /\ telling' \in [ChannelClients -> Seq(JoinSignals)]
        /\ telling'[c] = Tail(telling[c])
        /\ \A d \in ChannelClients \ {c} : mine'[d] = mine[d] /\ telling'[d] = telling[d]
    BY <2>1, <2>2, <2>3, <2>4, <1>0
  <2>7. ModChannelsTypeOK'
    BY <2>1, <2>6 DEF ChannelInv, ModChannelsTypeOK, InGame
  <2>8. ASSUME enable_mod_channels, NEW d \in ChannelClients, Listener(d)
        PROVE  /\ Agrees(session[d], channel.consumers, asking[d], mine'[d])
               /\ \A i \in 1 .. Len(telling'[d]) : telling'[d][i] # "JOIN_FAILURE"
    <3>1. /\ Agrees(session[d], channel.consumers, asking[d], mine[d])
          /\ \A i \in 1 .. Len(telling[d]) : telling[d][i] # "JOIN_FAILURE"
      BY <2>8 DEF ChannelInv
    <3>2. CASE d = c
      <4>1. mine[c] # "none" <=> mine'[c] # "none"
        BY <3>1, <3>2, <2>3, <2>5, <2>6
      <4>2. Agrees(session[c], channel.consumers, asking[c], mine'[c])
        BY <3>1, <3>2, <4>1, AgreesFrame
      <4> QED
        BY <3>1, <3>2, <4>2, <2>3, <2>6
    <3>3. CASE d # c
      BY <3>1, <3>3, <2>6
    <3> QED
      BY <3>2, <3>3
  <2>9. InGame(c)
    BY <2>1 DEF ChannelInv
  <2> QED
    BY <2>1, <2>6, <2>7, <2>8, <2>9 DEF ChannelInv, InGame, Listener
<1> QED
  BY <1>1, <1>2, <1>3, <1>4

(* What becomes of a channel.                                              *)
ChannelType == [registered : BOOLEAN, state : {"init", "read_write"},
                consumers : SUBSET (SessionIds \union {PEER_ID_SERVER})]

LEMMA ChannelChanges ==
  ASSUME NEW ch \in ChannelType, ch.consumers # {} => ch.registered,
         NEW p \in SessionIds \union {PEER_ID_SERVER}
  PROVE  /\ Joined(ch, p) \in ChannelType /\ Joined(ch, p).registered
         /\ Joined(ch, p).consumers = ch.consumers \union {p}
         /\ Left(ch, p) \in ChannelType /\ Left(ch, p).consumers = ch.consumers \ {p}
         /\ Left(ch, p).consumers # {} => Left(ch, p).registered
         /\ LeftAll(ch, p) \in ChannelType /\ LeftAll(ch, p).consumers = ch.consumers \ {p}
         /\ LeftAll(ch, p).consumers # {} => LeftAll(ch, p).registered
<1>1. Joined(ch, p) \in ChannelType /\ Joined(ch, p).registered
      /\ Joined(ch, p).consumers = ch.consumers \union {p}
  BY DEF Joined, ChannelType
<1>2. LeftAll(ch, p) \in ChannelType /\ LeftAll(ch, p).consumers = ch.consumers \ {p}
      /\ LeftAll(ch, p).registered = ch.registered
  BY DEF LeftAll, ChannelType
<1>3. CASE ch.consumers \subseteq {p}
  BY <1>1, <1>2, <1>3 DEF Left, Unregistered, ChannelType
<1>4. CASE ~(ch.consumers \subseteq {p})
  <2>1. Left(ch, p) = [ch EXCEPT !.consumers = @ \ {p}]
    BY <1>4 DEF Left
  <2>2. Left(ch, p) \in ChannelType /\ Left(ch, p).consumers = ch.consumers \ {p}
        /\ Left(ch, p).registered = ch.registered
    BY <2>1 DEF ChannelType
  <2> QED
    BY <1>1, <1>2, <2>2
<1> QED
  BY <1>3, <1>4

(* The server's handlers.                                                  *)
LEMMA ModChannelJoin_Inv ==
  ASSUME ChannelInv, NEW c \in ChannelClients, handleCommand_ModChannelJoin(c)
  PROVE  ChannelInv'
<1> DEFINE signal == IF enable_mod_channels /\ session[c] \notin channel.consumers
                     THEN "JOIN_OK" ELSE "JOIN_FAILURE"
<1>1. /\ Handled(c, "JOIN") /\ Reply(c, signal)
      /\ channel' = IF enable_mod_channels THEN Joined(channel, session[c]) ELSE channel
  BY DEF handleCommand_ModChannelJoin
<1>2. InGame(c) /\ session[c] \in SessionIds
  <2>1. asking[c] # <<>>
    BY <1>1 DEF Handled
  <2> QED
    BY <2>1 DEF ChannelInv, ModChannelsTypeOK, InGame
<1>3. channel \in ChannelType /\ (channel.consumers # {} => channel.registered)
  BY DEF ChannelInv, ModChannelsTypeOK, ChannelType
<1>4. channel' \in ChannelType /\ (channel'.consumers # {} => channel'.registered)
      /\ channel'.consumers = IF enable_mod_channels
                              THEN channel.consumers \union {session[c]} ELSE channel.consumers
  BY <1>1, <1>2, <1>3, ChannelChanges
<1>5. "JOIN" \in JoinRequests /\ signal \in JoinSignals
  BY DEF JoinRequests, JoinSignals
<1>6. enable_mod_channels =>
        \A i \in 1 .. Len(telling'[c]) :
          \/ telling'[c][i] # "JOIN_FAILURE"
          \/ \E j \in 1 .. Len(telling[c]) : telling[c][j] = "JOIN_FAILURE"
          \/ session[c] \in channel.consumers
  <2> SUFFICES ASSUME enable_mod_channels, session[c] \notin channel.consumers
               PROVE  ToldAsBefore(c)
    BY DEF ToldAsBefore
  <2>1. signal # "JOIN_FAILURE"
    OBVIOUS
  <2> HIDE DEF signal
  <2> QED
    BY <2>1, <1>1, <1>2, <1>5, ReplyTells
<1> HIDE DEF signal
<1>7. /\ telling' \in [ChannelClients -> Seq(JoinSignals)]
      /\ \A d \in ChannelClients : ~InGame(d) => telling'[d] = <<>>
      /\ \A d \in ChannelClients \ {c} : ToldAsBefore(d)
  BY <1>1, <1>2, <1>5, ReplyTells
<1>8. \A d \in ChannelClients \ {c} : InGame(d) =>
        (session[d] \in channel'.consumers <=> session[d] \in channel.consumers)
  BY <1>2, <1>4 DEF ChannelInv
<1> QED
  BY <1>1, <1>4, <1>5, <1>6, <1>7, <1>8, Handled_Inv DEF ChannelType, ToldAsBefore

LEMMA ModChannelLeave_Inv ==
  ASSUME ChannelInv, NEW c \in ChannelClients, handleCommand_ModChannelLeave(c)
  PROVE  ChannelInv'
<1>1. /\ Handled(c, "LEAVE") /\ Reply(c, "NOTICE")
      /\ channel' = IF enable_mod_channels /\ channel.registered
                    THEN Left(channel, session[c]) ELSE channel
  BY DEF handleCommand_ModChannelLeave
<1>2. InGame(c) /\ session[c] \in SessionIds
  <2>1. asking[c] # <<>>
    BY <1>1 DEF Handled
  <2> QED
    BY <2>1 DEF ChannelInv, ModChannelsTypeOK, InGame
<1>3. channel \in ChannelType /\ (channel.consumers # {} => channel.registered)
  BY DEF ChannelInv, ModChannelsTypeOK, ChannelType
<1>4. channel' \in ChannelType /\ (channel'.consumers # {} => channel'.registered)
      /\ channel'.consumers = IF enable_mod_channels
                              THEN channel.consumers \ {session[c]} ELSE channel.consumers
  BY <1>1, <1>2, <1>3, ChannelChanges
<1>5. "LEAVE" \in JoinRequests /\ "NOTICE" \in JoinSignals
  BY DEF JoinRequests, JoinSignals
<1>6. /\ telling' \in [ChannelClients -> Seq(JoinSignals)]
      /\ \A d \in ChannelClients : ~InGame(d) => telling'[d] = <<>>
      /\ \A d \in ChannelClients : ToldAsBefore(d)
  BY <1>1, <1>2, <1>5, ReplyTells
<1>7. \A d \in ChannelClients \ {c} : InGame(d) =>
        (session[d] \in channel'.consumers <=> session[d] \in channel.consumers)
  BY <1>2, <1>4 DEF ChannelInv
<1> QED
  BY <1>1, <1>4, <1>5, <1>6, <1>7, Handled_Inv DEF ChannelType, ToldAsBefore

LEMMA ModChannelMsg_Inv ==
  ASSUME ChannelInv, NEW c \in ChannelClients, handleCommand_ModChannelMsg(c)
  PROVE  ChannelInv'
<1>1. /\ Handled(c, "MSG") /\ channel' = channel
      /\ telling' = telling \/ Broadcast(session[c]) \/ Reply(c, "NOTICE")
  BY DEF handleCommand_ModChannelMsg
<1>2. InGame(c)
  <2>1. asking[c] # <<>>
    BY <1>1 DEF Handled
  <2> QED
    BY <2>1 DEF ChannelInv
<1>3. "MSG" \in JoinRequests /\ "NOTICE" \in JoinSignals
  BY DEF JoinRequests, JoinSignals
<1>4. /\ telling' \in [ChannelClients -> Seq(JoinSignals)]
      /\ \A d \in ChannelClients : ~InGame(d) => telling'[d] = <<>>
      /\ \A d \in ChannelClients : ToldAsBefore(d)
  <2>1. CASE telling' = telling
    BY <2>1 DEF ChannelInv, ModChannelsTypeOK, ToldAsBefore
  <2>2. CASE Broadcast(session[c])
    BY <2>2, BroadcastTells
  <2>3. CASE Reply(c, "NOTICE")
    BY <2>3, <1>2, <1>3, ReplyTells
  <2> QED
    BY <2>1, <2>2, <2>3, <1>1
<1>5. /\ channel' \in [registered : BOOLEAN, state : {"init", "read_write"},
                       consumers : SUBSET (SessionIds \union {PEER_ID_SERVER})]
      /\ channel'.consumers # {} => channel'.registered
  BY <1>1 DEF ChannelInv, ModChannelsTypeOK
<1> QED
  BY <1>1, <1>3, <1>4, <1>5, Handled_Inv DEF ToldAsBefore

(* The server's mods.                                                      *)
LEMMA ServerMod_Inv ==
  ASSUME ChannelInv,
         serverJoinModChannel \/ serverLeaveModChannel \/ serverSendModChannelMessage
  PROVE  ChannelInv'
<1>1. channel \in ChannelType /\ (channel.consumers # {} => channel.registered)
  BY DEF ChannelInv, ModChannelsTypeOK, ChannelType
<1>2. UNCHANGED <<asking, mine, enable_mod_channels, session, leaving, inherited>>
  BY DEF serverJoinModChannel, serverLeaveModChannel, serverSendModChannelMessage,
         ServerMod, clientSide, whoIsThere
<1>3. /\ channel' \in ChannelType /\ (channel'.consumers # {} => channel'.registered)
      /\ \A p \in SessionIds : p \in channel'.consumers <=> p \in channel.consumers
  <2>1. CASE serverJoinModChannel
    <3>1. /\ Joined(channel, PEER_ID_SERVER) \in ChannelType
          /\ Joined(channel, PEER_ID_SERVER).registered
          /\ Joined(channel, PEER_ID_SERVER).consumers = channel.consumers \union {PEER_ID_SERVER}
      BY <1>1, ChannelChanges
    <3>2. channel' = [Joined(channel, PEER_ID_SERVER) EXCEPT !.state = "read_write"]
      BY <2>1 DEF serverJoinModChannel
    <3>3. channel' \in ChannelType /\ channel'.registered
          /\ channel'.consumers = channel.consumers \union {PEER_ID_SERVER}
      BY <3>1, <3>2 DEF ChannelType
    <3> QED
      BY <3>3, ModChannelsAssumption
  <2>2. CASE serverLeaveModChannel
    BY <2>2, <1>1, ChannelChanges, ModChannelsAssumption DEF serverLeaveModChannel
  <2>3. CASE serverSendModChannelMessage
    BY <2>3, <1>1 DEF serverSendModChannelMessage
  <2> QED
    BY <2>1, <2>2, <2>3
<1>4. /\ telling' \in [ChannelClients -> Seq(JoinSignals)]
      /\ \A d \in ChannelClients : ~InGame(d) => telling'[d] = <<>>
      /\ \A d \in ChannelClients : ToldAsBefore(d)
  <2>1. CASE telling' = telling
    BY <2>1 DEF ChannelInv, ModChannelsTypeOK, ToldAsBefore
  <2>2. CASE Broadcast(PEER_ID_SERVER)
    BY <2>2, BroadcastTells
  <2> QED
    BY <2>1, <2>2 DEF serverJoinModChannel, serverLeaveModChannel, serverSendModChannelMessage
<1>5. ASSUME enable_mod_channels, NEW d \in ChannelClients, Listener(d)
      PROVE  /\ Agrees(session[d], channel'.consumers, asking[d], mine[d])
             /\ \A i \in 1 .. Len(telling'[d]) : telling'[d][i] # "JOIN_FAILURE"
  <2>1. /\ Agrees(session[d], channel.consumers, asking[d], mine[d])
        /\ \A i \in 1 .. Len(telling[d]) : telling[d][i] # "JOIN_FAILURE"
    BY <1>5 DEF ChannelInv
  <2>2. session[d] \in SessionIds
    BY <1>5 DEF ChannelInv, ModChannelsTypeOK, Listener, InGame
  <2>3. Agrees(session[d], channel'.consumers, asking[d], mine[d])
    BY <2>1, <2>2, <1>3, AgreesFrame
  <2> QED
    BY <2>1, <2>3, <1>4 DEF ToldAsBefore
<1>6. ModChannelsTypeOK'
  BY <1>2, <1>3, <1>4 DEF ChannelInv, ModChannelsTypeOK, InGame, ChannelType
<1> QED
  BY <1>2, <1>3, <1>4, <1>5, <1>6 DEF ChannelInv, InGame, Listener

(* Coming and going.                                                       *)
LEMMA Enter_Inv ==
  ASSUME ChannelInv, NEW c \in ChannelClients, NEW p \in SessionIds, Enter(c, p)
  PROVE  ChannelInv'
<1>1. /\ ~InGame(c) /\ \A d \in ChannelClients : session[d] # p
      /\ session' = [session EXCEPT ![c] = p]
      /\ inherited' = IF p \in channel.consumers THEN inherited \union {c} ELSE inherited
      /\ UNCHANGED <<enable_mod_channels, channel, leaving, asking, telling, mine>>
  BY DEF Enter
<1>2. session \in [ChannelClients -> SessionIds \union {NoSession}]
  BY DEF ChannelInv, ModChannelsTypeOK
<1>3. session' \in [ChannelClients -> SessionIds \union {NoSession}]
      /\ session'[c] = p /\ p # NoSession
      /\ \A d \in ChannelClients \ {c} : session'[d] = session[d]
  BY <1>1, <1>2, ModChannelsAssumption
<1>4. ModChannelsTypeOK'
  BY <1>1, <1>3 DEF ChannelInv, ModChannelsTypeOK, InGame
<1>5. asking[c] = <<>> /\ telling[c] = <<>> /\ mine[c] = "none"
  BY <1>1 DEF ChannelInv
<1>6. p \notin channel.consumers => Agrees(p, channel.consumers, asking[c], mine[c])
  <2>1. Len(asking[c]) = 0
    BY <1>5
  <2>2. p \notin channel.consumers => ~ListensAfter(p, channel.consumers, asking[c], 0)
    BY ListensNow
  <2> QED
    BY <2>1, <2>2, <1>5 DEF Agrees
<1>7. ASSUME enable_mod_channels, NEW d \in ChannelClients, Listener(d)'
      PROVE  /\ Agrees(session'[d], channel.consumers, asking[d], mine[d])
             /\ \A i \in 1 .. Len(telling[d]) : telling[d][i] # "JOIN_FAILURE"
  <2>1. CASE d = c
    BY <2>1, <1>1, <1>3, <1>5, <1>6, <1>7 DEF Listener
  <2>2. CASE d # c
    <3>1. Listener(d) /\ session'[d] = session[d]
      BY <2>2, <1>1, <1>3, <1>7 DEF Listener, InGame
    <3> QED
      BY <3>1, <1>7 DEF ChannelInv
  <2> QED
    BY <2>1, <2>2
<1>8. \A d, e \in ChannelClients : InGame(d)' /\ session'[d] = session'[e] => d = e
  BY <1>1, <1>3 DEF ChannelInv, InGame
<1>9. \A d \in ChannelClients : ~InGame(d)' => ~InGame(d)
  BY <1>3 DEF InGame
<1> QED
  BY <1>1, <1>4, <1>7, <1>8, <1>9 DEF ChannelInv

LEMMA DisconnectPeer_Inv ==
  ASSUME ChannelInv, NEW c \in ChannelClients, DisconnectPeer(c)
  PROVE  ChannelInv'
<1>1. /\ InGame(c) /\ channel' = LeftAll(channel, session[c])
      /\ leaving' = leaving \union {c}
      /\ UNCHANGED <<enable_mod_channels, session, asking, telling, mine, inherited>>
  BY DEF DisconnectPeer
<1>2. channel \in ChannelType /\ (channel.consumers # {} => channel.registered)
      /\ session[c] \in SessionIds
  BY <1>1 DEF ChannelInv, ModChannelsTypeOK, ChannelType, InGame
<1>3. channel' \in ChannelType /\ (channel'.consumers # {} => channel'.registered)
      /\ channel'.consumers = channel.consumers \ {session[c]}
  BY <1>1, <1>2, ChannelChanges
<1>4. ModChannelsTypeOK'
  BY <1>1, <1>3 DEF ChannelInv, ModChannelsTypeOK, InGame, ChannelType
<1>5. ASSUME enable_mod_channels, NEW d \in ChannelClients, Listener(d)'
      PROVE  /\ Agrees(session[d], channel'.consumers, asking[d], mine[d])
             /\ \A i \in 1 .. Len(telling[d]) : telling[d][i] # "JOIN_FAILURE"
  <2>1. Listener(d) /\ d # c
    BY <1>1, <1>5 DEF Listener, InGame
  <2>2. session[d] # session[c]
    BY <1>1, <2>1 DEF ChannelInv
  <2>3. /\ Agrees(session[d], channel.consumers, asking[d], mine[d])
        /\ \A i \in 1 .. Len(telling[d]) : telling[d][i] # "JOIN_FAILURE"
    BY <2>1, <1>5 DEF ChannelInv
  <2> QED
    BY <2>2, <2>3, <1>3, AgreesFrame
<1> QED
  BY <1>1, <1>3, <1>4, <1>5 DEF ChannelInv, InGame

LEMMA DeletePeer_Inv ==
  ASSUME ChannelInv, NEW c \in ChannelClients, DeletePeer(c)
  PROVE  ChannelInv'
<1>1. /\ InGame(c) /\ session' = [session EXCEPT ![c] = NoSession]
      /\ leaving' = leaving \ {c} /\ inherited' = inherited \ {c}
      /\ asking' = [asking EXCEPT ![c] = <<>>] /\ telling' = [telling EXCEPT ![c] = <<>>]
      /\ mine' = [mine EXCEPT ![c] = "none"]
      /\ UNCHANGED <<enable_mod_channels, channel>>
  BY DEF DeletePeer
<1>2. ModChannelsTypeOK
  BY DEF ChannelInv
<1>3. session'[c] = NoSession /\ asking'[c] = <<>> /\ telling'[c] = <<>> /\ mine'[c] = "none"
  BY <1>1, <1>2 DEF ModChannelsTypeOK
<1>4. \A d \in ChannelClients \ {c} :
        /\ session'[d] = session[d] /\ asking'[d] = asking[d]
        /\ telling'[d] = telling[d] /\ mine'[d] = mine[d]
  BY <1>1, <1>2 DEF ModChannelsTypeOK
<1>5. /\ session' \in [ChannelClients -> SessionIds \union {NoSession}]
      /\ asking' \in [ChannelClients -> Seq(JoinRequests)]
      /\ telling' \in [ChannelClients -> Seq(JoinSignals)]
      /\ mine' \in [ChannelClients -> {"none", "init", "read_write"}]
  BY <1>1, <1>2 DEF ModChannelsTypeOK
<1>6. ModChannelsTypeOK'
  BY <1>1, <1>2, <1>4, <1>5 DEF ModChannelsTypeOK, InGame
<1>7. \A d \in ChannelClients : InGame(d)' <=> InGame(d) /\ d # c
  BY <1>3, <1>4 DEF InGame
<1>8. \A d, e \in ChannelClients : InGame(d)' /\ session'[d] = session'[e] => d = e
  BY <1>3, <1>4, <1>7 DEF ChannelInv, InGame
<1>9. \A d \in ChannelClients :
         ~InGame(d)' => asking'[d] = <<>> /\ telling'[d] = <<>> /\ mine'[d] = "none"
  BY <1>3, <1>4, <1>7 DEF ChannelInv
<1>10. \A d \in ChannelClients : Listener(d)' => Listener(d) /\ d # c
  BY <1>1, <1>7 DEF Listener
<1> QED
  BY <1>1, <1>4, <1>6, <1>8, <1>9, <1>10 DEF ChannelInv

LEMMA ModChannelsNext_Inv == ChannelInv /\ [ModChannelsNext]_modChannelVars => ChannelInv'
<1> SUFFICES ASSUME ChannelInv, [ModChannelsNext]_modChannelVars
             PROVE  ChannelInv'
  OBVIOUS
<1>1. ASSUME NEW c \in ChannelClients,
             \/ clientJoinModChannel(c) \/ clientLeaveModChannel(c)
             \/ clientSendModChannelMessage(c) \/ handleSignal(c)
      PROVE  ChannelInv'
  BY <1>1, clientActions_Inv
<1>2. ASSUME NEW c \in ChannelClients,
             \/ handleCommand_ModChannelJoin(c) \/ handleCommand_ModChannelLeave(c)
             \/ handleCommand_ModChannelMsg(c)
      PROVE  ChannelInv'
  BY <1>2, ModChannelJoin_Inv, ModChannelLeave_Inv, ModChannelMsg_Inv
<1>3. ASSUME NEW c \in ChannelClients, DisconnectPeer(c) \/ DeletePeer(c)
      PROVE  ChannelInv'
  BY <1>3, DisconnectPeer_Inv, DeletePeer_Inv
<1>4. ASSUME NEW c \in ChannelClients, NEW p \in SessionIds, Enter(c, p)
      PROVE  ChannelInv'
  BY <1>4, Enter_Inv
<1>5. CASE serverJoinModChannel \/ serverLeaveModChannel \/ serverSendModChannelMessage
  BY <1>5, ServerMod_Inv
<1>6. CASE UNCHANGED modChannelVars
  BY <1>6 DEF modChannelVars, ChannelInv, ModChannelsTypeOK, InGame, Listener
<1> QED
  BY <1>1, <1>2, <1>3, <1>4, <1>5, <1>6, Zenon DEF ModChannelsNext

-----------------------------------------------------------------------------
(* Split packets.                                                          *)

(* A chunk as it was cut.                                                  *)
IsChunk(c) ==
  /\ c \in [seqnum : SplitNums, chunk_count : 2 .. MaxChunks, chunk_num : Nat,
            reliable : BOOLEAN, data : [message : 1 .. cut, part : Nat]]
  /\ c.chunk_num < c.chunk_count /\ c.data.part = c.chunk_num

InFlight == datagrams \union ToSet(reliables)

IsLast(c) == c.chunk_num = c.chunk_count - 1

(* Chunks under one number are of one message.                             *)
Alike(c, d) ==
  c.seqnum = d.seqnum =>
    /\ c.data.message = d.data.message /\ c.chunk_count = d.chunk_count
    /\ c.reliable = d.reliable

(* An entry of the buffer has chunks of one message, each in its place;    *)
(* and c is one more.                                                      *)
Entry(e) ==
  /\ e = [chunk_count |-> e.chunk_count, reliable |-> e.reliable, chunks |-> e.chunks]
  /\ e.chunk_count \in 2 .. MaxChunks /\ e.reliable \in BOOLEAN
  /\ DOMAIN e.chunks \subseteq 0 .. e.chunk_count - 1
  /\ e.chunks \in [DOMAIN e.chunks -> [message : 1 .. cut, part : Nat]]
  /\ \A j \in DOMAIN e.chunks : e.chunks[j].part = j
  /\ \A j, k \in DOMAIN e.chunks : e.chunks[j].message = e.chunks[k].message

Takes(e, c) ==
  /\ e.chunk_count = c.chunk_count /\ e.reliable = c.reliable
  /\ \A j \in DOMAIN e.chunks : e.chunks[j].message = c.data.message

IsWhole(w) ==
  0 \in DOMAIN w /\ \A j \in DOMAIN w : w[j] = [message |-> w[0].message, part |-> j]

(* Of a reliable message the chunks come one after the other, and those    *)
(* that have come already are in the buffer.                               *)
ReliablesInOrder ==
  /\ \A i \in 1 .. Len(reliables) :
       /\ reliables[i].reliable
       /\ reliables[i].chunk_num = 0 => ~IsIn(reliables[i].seqnum)
       /\ i = Len(reliables) => IsLast(reliables[i])
  /\ \A i \in 1 .. Len(reliables) - 1 :
       IF IsLast(reliables[i]) THEN reliables[i + 1].chunk_num = 0
       ELSE /\ reliables[i + 1].seqnum = reliables[i].seqnum
            /\ reliables[i + 1].chunk_num = reliables[i].chunk_num + 1
  /\ \A i, j \in 1 .. Len(reliables) :
       i # j /\ reliables[i].seqnum = reliables[j].seqnum
         => reliables[i].chunk_num # reliables[j].chunk_num

HeadIsNext ==
  reliables # <<>> /\ reliables[1].chunk_num > 0 =>
    /\ IsIn(reliables[1].seqnum)
    /\ DOMAIN m_buf[reliables[1].seqnum].chunks = 0 .. reliables[1].chunk_num - 1

SplitVarsTyped ==
  /\ next_outgoing_split_seqnum \in SplitNums /\ cut \in 0 .. MaxMessages
  /\ m_buf = [s \in SplitNums |-> m_buf[s]]
  /\ remove_queue \subseteq SplitNums
  /\ passed \in Seq(1 .. cut) /\ reliablyWhole = passed
  /\ reliables = [i \in 1 .. Len(reliables) |-> reliables[i]] /\ Len(reliables) \in Nat
  /\ \A c \in InFlight : IsChunk(c)

OneMessageEach ==
  /\ \A c \in datagrams : ~c.reliable
  /\ \A c, d \in InFlight : Alike(c, d)
  /\ \A s \in SplitNums : IsIn(s) =>
       Entry(m_buf[s]) /\ \A c \in InFlight : c.seqnum = s => Takes(m_buf[s], c)
  /\ \A s \in remove_queue : \A i \in 1 .. Len(reliables) : reliables[i].seqnum # s
  /\ \A w \in whole : IsWhole(w)

SplitInv == SplitVarsTyped /\ OneMessageEach /\ ReliablesInOrder /\ HeadIsNext

LEMMA SplitInit_Inv == SplitInit => SplitInv
<1> SUFFICES ASSUME SplitInit PROVE SplitInv
  OBVIOUS
<1>1. InFlight = {} /\ Len(reliables) = 0 /\ reliables = [i \in 1 .. 0 |-> reliables[i]]
  BY DEF SplitInit, InFlight, ToSet
<1>2. 0 \in SplitNums
  BY SplitAssumption DEF SplitNums
<1>3. \A s \in SplitNums : ~IsIn(s)
  BY DEF SplitInit, IsIn
<1>4. SplitVarsTyped
  BY <1>1, <1>2, SplitAssumption DEF SplitInit, SplitVarsTyped
<1>5. OneMessageEach
  BY <1>1, <1>3 DEF SplitInit, OneMessageEach
<1>6. ReliablesInOrder /\ HeadIsNext
  BY <1>1 DEF SplitInit, ReliablesInOrder, HeadIsNext
<1> QED
  BY <1>4, <1>5, <1>6 DEF SplitInv

LEMMA FlightMembers ==
  ASSUME SplitVarsTyped
  PROVE  \A i \in 1 .. Len(reliables) : reliables[i] \in InFlight /\ IsChunk(reliables[i])
<1>1. DOMAIN reliables = 1 .. Len(reliables)
  BY DEF SplitVarsTyped
<1> QED
  BY <1>1 DEF SplitVarsTyped, InFlight, ToSet

(* One more chunk in an entry.                                             *)
Added(before, c) == [before EXCEPT !.chunks = With(@, c.chunk_num, c.data)]

LEMMA AddedChunk ==
  ASSUME NEW before, NEW c, Entry(before), IsChunk(c), Takes(before, c),
         c.chunk_num \notin DOMAIN before.chunks
  PROVE  LET e == Added(before, c) IN
         /\ Entry(e) /\ Takes(e, c)
         /\ e.chunk_count = before.chunk_count /\ e.reliable = before.reliable
         /\ DOMAIN e.chunks = DOMAIN before.chunks \union {c.chunk_num}
         /\ \A j \in DOMAIN e.chunks :
              e.chunks[j] = [message |-> c.data.message, part |-> j]
<1> DEFINE e == Added(before, c)
           f == With(before.chunks, c.chunk_num, c.data)
<1>1. e = [chunk_count |-> before.chunk_count, reliable |-> before.reliable, chunks |-> f]
  BY DEF Added, Entry
<1>2. DOMAIN f = DOMAIN before.chunks \union {c.chunk_num}
  BY DEF With
<1>3. f[c.chunk_num] = c.data /\ \A j \in DOMAIN before.chunks : f[j] = before.chunks[j]
  BY DEF With
<1>4. f = [j \in DOMAIN f |-> f[j]]
  BY DEF With
<1> HIDE DEF f
<1>5. c.data = [message |-> c.data.message, part |-> c.chunk_num]
      /\ c.data \in [message : 1 .. cut, part : Nat]
  BY DEF IsChunk
<1>6. \A j \in DOMAIN before.chunks :
        before.chunks[j] = [message |-> c.data.message, part |-> j]
  BY DEF Entry, Takes
<1>7. \A j \in DOMAIN f : f[j] = [message |-> c.data.message, part |-> j]
  BY <1>2, <1>3, <1>5, <1>6
<1>8. \A j \in DOMAIN f : f[j] \in [message : 1 .. cut, part : Nat]
  BY <1>2, <1>3, <1>5 DEF Entry
<1>9. f \in [DOMAIN f -> [message : 1 .. cut, part : Nat]]
  BY <1>4, <1>8
<1>10. DOMAIN f \subseteq 0 .. before.chunk_count - 1
  BY <1>2 DEF Entry, Takes, IsChunk
<1>11. e.chunks = f /\ e.chunk_count = before.chunk_count /\ e.reliable = before.reliable
  BY <1>1
<1> HIDE DEF e
<1>12. Entry(e)
  BY <1>1, <1>7, <1>9, <1>10, <1>11 DEF Entry
<1>13. Takes(e, c)
  BY <1>7, <1>11 DEF Takes
<1> QED
  BY <1>2, <1>7, <1>11, <1>12, <1>13 DEF e

(* An entry from which nothing is missing has all its places filled.       *)
LEMMA DoneIsFull ==
  ASSUME NEW e, Entry(e)
  PROVE  /\ Cardinality(DOMAIN e.chunks) = e.chunk_count
              <=> DOMAIN e.chunks = 0 .. e.chunk_count - 1
         /\ DOMAIN e.chunks = 0 .. e.chunk_count - 1 => IsWhole(e.chunks)
<1>1. e.chunk_count \in Nat /\ e.chunk_count >= 2
  BY SplitAssumption DEF Entry
<1>2. IsFiniteSet(0 .. e.chunk_count - 1)
      /\ Cardinality(0 .. e.chunk_count - 1) = e.chunk_count
  <2> DEFINE n == e.chunk_count - 1
  <2>1. n \in Int /\ ~(0 > n) /\ (n - 0) + 1 = e.chunk_count
    BY <1>1
  <2> HIDE DEF n
  <2>2. IsFiniteSet(0 .. n) /\ Cardinality(0 .. n) = IF 0 > n THEN 0 ELSE (n - 0) + 1
    BY <2>1, FS_Interval
  <2> QED
    BY <2>1, <2>2 DEF n
<1>3. DOMAIN e.chunks \in SUBSET (0 .. e.chunk_count - 1)
  BY DEF Entry
<1>4. Cardinality(0 .. e.chunk_count - 1) = Cardinality(DOMAIN e.chunks)
        => 0 .. e.chunk_count - 1 = DOMAIN e.chunks
  BY <1>2, <1>3, FS_Subset
<1>5. DOMAIN e.chunks = 0 .. e.chunk_count - 1 => IsWhole(e.chunks)
  BY <1>1 DEF Entry, IsWhole
<1> QED
  BY <1>2, <1>4, <1>5

(* What insert does to the buffer, and what it returns.                    *)
LEMMA BufferedTakes ==
  ASSUME SplitVarsTyped, OneMessageEach, NEW c \in InFlight
  PROVE  /\ IsChunk(c) /\ c.seqnum \in SplitNums
         /\ Entry(Buffered(c)) /\ Takes(Buffered(c), c)
         /\ Buffered(c).chunk_count = c.chunk_count /\ Buffered(c).reliable = c.reliable
<1>1. IsChunk(c) /\ c.seqnum \in SplitNums
  BY DEF SplitVarsTyped, IsChunk
<1>2. CASE IsIn(c.seqnum)
  BY <1>1, <1>2 DEF OneMessageEach, Buffered, Takes
<1>3. CASE ~IsIn(c.seqnum)
  <2> DEFINE e == [chunk_count |-> c.chunk_count, reliable |-> c.reliable, chunks |-> NoChunks]
  <2>1. Buffered(c) = e
    BY <1>3 DEF Buffered
  <2>2. DOMAIN NoChunks = {} /\ NoChunks \in [{} -> [message : 1 .. cut, part : Nat]]
    BY DEF NoChunks
  <2>3. e.chunk_count = c.chunk_count /\ e.reliable = c.reliable /\ e.chunks = NoChunks
    OBVIOUS
  <2> HIDE DEF e
  <2>4. Entry(e)
    BY <1>1, <2>2, <2>3 DEF Entry, IsChunk, e
  <2> QED
    BY <1>1, <2>1, <2>2, <2>3, <2>4 DEF Takes
<1> QED
  BY <1>1, <1>2, <1>3 DEF Takes

LEMMA Insert_Buffer ==
  ASSUME SplitVarsTyped, OneMessageEach, NEW c \in InFlight, insertChunk(c)
  PROVE  /\ m_buf' = [t \in SplitNums |-> m_buf'[t]]
         /\ \A t \in SplitNums \ {c.seqnum} : m_buf'[t] = m_buf[t]
         /\ m_buf'[c.seqnum] # Absent => Entry(m_buf'[c.seqnum]) /\ Takes(m_buf'[c.seqnum], c)
         /\ \A w \in whole' : IsWhole(w)
         /\ ~c.reliable => reliablyWhole' = reliablyWhole
         /\ DOMAIN Buffered(c).chunks = 0 .. c.chunk_num - 1 /\ c.reliable =>
              IF IsLast(c)
              THEN /\ m_buf'[c.seqnum] = Absent
                   /\ reliablyWhole' = Append(reliablyWhole, c.data.message)
              ELSE /\ m_buf'[c.seqnum] # Absent
                   /\ DOMAIN m_buf'[c.seqnum].chunks = 0 .. c.chunk_num
                   /\ reliablyWhole' = reliablyWhole
<1> DEFINE s == c.seqnum
           before == Buffered(c)
           e == Added(before, c)
<1>1. /\ IsChunk(c) /\ s \in SplitNums
      /\ Entry(before) /\ Takes(before, c)
      /\ before.chunk_count = c.chunk_count /\ before.reliable = c.reliable
  BY BufferedTakes
<1>2. /\ c.chunk_num \in Nat /\ c.chunk_count \in Nat /\ c.chunk_num < c.chunk_count
      /\ c.reliable \in BOOLEAN
  BY <1>1, SplitAssumption DEF IsChunk
<1>3. CASE c.chunk_num \in DOMAIN before.chunks
  <2>1. UNCHANGED <<m_buf, whole, reliablyWhole>>
    BY <1>3 DEF insertChunk, gathered
  <2>2. IsIn(s) => Entry(m_buf[s]) /\ Takes(m_buf[s], c)
    BY <1>1 DEF OneMessageEach
  <2>3. DOMAIN before.chunks # 0 .. c.chunk_num - 1
    BY <1>2, <1>3
  <2> QED
    BY <2>1, <2>2, <2>3, <1>1 DEF OneMessageEach, SplitVarsTyped, IsIn
<1>4. CASE c.chunk_num \notin DOMAIN before.chunks
  <2>1. Store(s, e)
    BY <1>1, <1>4 DEF insertChunk, Added
  <2>2. /\ Entry(e) /\ Takes(e, c)
        /\ e.chunk_count = before.chunk_count /\ e.reliable = before.reliable
        /\ DOMAIN e.chunks = DOMAIN before.chunks \union {c.chunk_num}
        /\ \A j \in DOMAIN e.chunks : e.chunks[j] = [message |-> c.data.message, part |-> j]
    <3> HIDE DEF before
    <3> QED
      BY <1>1, <1>4, AddedChunk
  <2>3. e # Absent
    <3> HIDE DEF e
    <3> QED
      BY <2>2 DEF Absent, Entry
  <2> HIDE DEF e, before
  <2> DEFINE done == Cardinality(DOMAIN e.chunks) = e.chunk_count
  <2>4. /\ m_buf' = [m_buf EXCEPT ![s] = IF done THEN Absent ELSE e]
        /\ whole' = IF done THEN whole \union {e.chunks} ELSE whole
        /\ reliablyWhole' = IF done /\ e.reliable
                            THEN Append(reliablyWhole, e.chunks[0].message) ELSE reliablyWhole
    BY <2>1 DEF Store
  <2>5. done <=> DOMAIN e.chunks = 0 .. e.chunk_count - 1
    BY <2>2, DoneIsFull
  <2>6. done => IsWhole(e.chunks)
    BY <2>2, <2>5, DoneIsFull
  <2> HIDE DEF done
  <2>7. m_buf' = [t \in SplitNums |-> m_buf'[t]]
        /\ m_buf'[s] = (IF done THEN Absent ELSE e)
        /\ \A t \in SplitNums \ {s} : m_buf'[t] = m_buf[t]
    BY <2>4, <1>1 DEF SplitVarsTyped
  <2>8. \A w \in whole' : IsWhole(w)
    BY <2>4, <2>6 DEF OneMessageEach
  <2>9. ASSUME DOMAIN before.chunks = 0 .. c.chunk_num - 1, c.reliable
        PROVE  IF IsLast(c)
               THEN /\ m_buf'[s] = Absent
                    /\ reliablyWhole' = Append(reliablyWhole, c.data.message)
               ELSE /\ m_buf'[s] # Absent
                    /\ DOMAIN m_buf'[s].chunks = 0 .. c.chunk_num
                    /\ reliablyWhole' = reliablyWhole
    <3>1. DOMAIN e.chunks = 0 .. c.chunk_num
      BY <2>2, <2>9, <1>2
    <3>2. done <=> IsLast(c)
      <4>1. IsLast(c) => DOMAIN e.chunks = 0 .. e.chunk_count - 1
        BY <3>1, <2>2, <1>1 DEF IsLast
      <4>2. ~IsLast(c) => c.chunk_num + 1 \in 0 .. e.chunk_count - 1
                          /\ c.chunk_num + 1 \notin 0 .. c.chunk_num
        BY <1>1, <1>2, <2>2 DEF IsLast
      <4> QED
        BY <4>1, <4>2, <3>1, <2>5
    <3>3. e.chunks[0].message = c.data.message
      <4>1. 0 \in DOMAIN e.chunks
        BY <3>1, <1>2
      <4>2. e.chunks[0] = [message |-> c.data.message, part |-> 0]
        BY <4>1, <2>2, Zenon
      <4> QED
        BY <4>2
    <3>4. e.reliable
      BY <2>2, <2>9, <1>1
    <3> QED
      BY <3>1, <3>2, <3>3, <3>4, <2>3, <2>4, <2>7
  <2>10. ~c.reliable => reliablyWhole' = reliablyWhole
    BY <2>2, <2>4, <1>1
  <2> QED
    BY <2>2, <2>7, <2>8, <2>9, <2>10 DEF before
<1> QED
  BY <1>3, <1>4

(* The chunks on their way are among those that were, nothing else changes *)
(* for the sender.                                                         *)
LEMMA ReceiveDatagram_Inv ==
  ASSUME SplitInv, NEW c \in datagrams, ReceiveDatagram(c)
  PROVE  SplitInv'
<1>1. /\ insertChunk(c)
      /\ UNCHANGED <<next_outgoing_split_seqnum, cut, datagrams, reliables, remove_queue, passed>>
  BY DEF ReceiveDatagram
<1>2. SplitVarsTyped /\ OneMessageEach /\ ReliablesInOrder /\ HeadIsNext
  BY DEF SplitInv
<1>3. c \in InFlight /\ ~c.reliable /\ c.seqnum \in SplitNums
  BY <1>2, BufferedTakes DEF InFlight, OneMessageEach
<1>4. /\ m_buf' = [t \in SplitNums |-> m_buf'[t]]
      /\ \A t \in SplitNums \ {c.seqnum} : m_buf'[t] = m_buf[t]
      /\ m_buf'[c.seqnum] # Absent => Entry(m_buf'[c.seqnum]) /\ Takes(m_buf'[c.seqnum], c)
      /\ \A w \in whole' : IsWhole(w)
      /\ reliablyWhole' = reliablyWhole
  BY <1>1, <1>2, <1>3, Insert_Buffer
<1>5. InFlight' = InFlight /\ \A d \in InFlight : IsChunk(d)'
  BY <1>1, <1>2 DEF InFlight, SplitVarsTyped, IsChunk
<1>6. SplitVarsTyped'
  BY <1>1, <1>2, <1>4, <1>5 DEF SplitVarsTyped
<1>7. ASSUME NEW s \in SplitNums, m_buf'[s] # Absent
      PROVE  Entry(m_buf'[s]) /\ \A d \in InFlight : d.seqnum = s => Takes(m_buf'[s], d)
  <2>1. CASE s = c.seqnum
    <3>1. \A d \in InFlight : Alike(c, d)
      BY <1>2, <1>3 DEF OneMessageEach
    <3> QED
      BY <2>1, <3>1, <1>4, <1>7 DEF Takes, Alike
  <2>2. CASE s # c.seqnum
    BY <2>2, <1>2, <1>4, <1>7 DEF OneMessageEach, IsIn
  <2> QED
    BY <2>1, <2>2
<1>8. OneMessageEach'
  BY <1>1, <1>2, <1>4, <1>5, <1>7 DEF OneMessageEach, IsIn, Alike, Entry
<1>9. \A i \in 1 .. Len(reliables) :
        /\ reliables[i].seqnum \in SplitNums /\ reliables[i].seqnum # c.seqnum
        /\ m_buf'[reliables[i].seqnum] = m_buf[reliables[i].seqnum]
  <2> TAKE i \in 1 .. Len(reliables)
  <2>1. reliables[i] \in InFlight /\ IsChunk(reliables[i]) /\ reliables[i].reliable
    BY <1>2, FlightMembers DEF ReliablesInOrder
  <2>2. Alike(c, reliables[i])
    BY <2>1, <1>2, <1>3 DEF OneMessageEach
  <2> QED
    BY <2>1, <2>2, <1>3, <1>4 DEF Alike, IsChunk
<1>10. ReliablesInOrder'
  BY <1>1, <1>2, <1>9 DEF ReliablesInOrder, IsIn
<1>11. HeadIsNext'
  <2>1. reliables # <<>> => 1 \in 1 .. Len(reliables)
    BY <1>2 DEF SplitVarsTyped
  <2> QED
    BY <2>1, <1>1, <1>2, <1>9 DEF HeadIsNext, IsIn
<1> QED
  BY <1>6, <1>8, <1>10, <1>11 DEF SplitInv

LEMMA ReceiveReliable_Inv ==
  ASSUME SplitInv, ReceiveReliable
  PROVE  SplitInv'
<1> DEFINE c == Head(reliables)
           s == c.seqnum
<1>1. /\ reliables # <<>> /\ insertChunk(c)
      /\ passed' = IF c.chunk_num = c.chunk_count - 1 THEN Append(passed, c.data.message)
                   ELSE passed
      /\ reliables' = Tail(reliables)
      /\ UNCHANGED <<next_outgoing_split_seqnum, cut, datagrams, remove_queue>>
  BY DEF ReceiveReliable
<1>2. SplitVarsTyped /\ OneMessageEach /\ ReliablesInOrder /\ HeadIsNext
  BY DEF SplitInv
<1>3. /\ Len(reliables) \in Nat /\ Len(reliables) > 0 /\ c = reliables[1]
      /\ 1 \in 1 .. Len(reliables)
      /\ Len(reliables') = Len(reliables) - 1
      /\ reliables' = [i \in 1 .. Len(reliables') |-> reliables'[i]]
      /\ \A i \in 1 .. Len(reliables') :
           reliables'[i] = reliables[i + 1] /\ i + 1 \in 2 .. Len(reliables)
  <2> DEFINE S == {reliables[i] : i \in 1 .. Len(reliables)}
  <2>1. reliables \in Seq(S)
    BY <1>2 DEF SplitVarsTyped
  <2> HIDE DEF S
  <2>2. reliables' \in Seq(S) /\ Len(reliables) > 0 /\ Len(reliables') = Len(reliables) - 1
    BY <2>1, <1>1
  <2>3. reliables' = [i \in 1 .. Len(reliables') |-> reliables'[i]]
    BY <2>2
  <2>4. \A i \in 1 .. Len(reliables') : reliables'[i] = reliables[i + 1]
    BY <2>1, <2>2, <1>1
  <2>5. Len(reliables) \in Nat /\ c = reliables[1]
    BY <2>1, <1>1
  <2> QED
    BY <2>2, <2>3, <2>4, <2>5
<1> HIDE DEF c
<1>4. c \in InFlight /\ IsChunk(c) /\ c.reliable /\ s \in SplitNums
  BY <1>2, <1>3, FlightMembers, BufferedTakes DEF ReliablesInOrder
<1>5. c.chunk_num \in Nat /\ c.chunk_count \in Nat /\ c.chunk_num < c.chunk_count
  BY <1>4, SplitAssumption DEF IsChunk
<1>6. DOMAIN Buffered(c).chunks = 0 .. c.chunk_num - 1
  <2>1. CASE c.chunk_num = 0
    <3>1. ~IsIn(s)
      BY <2>1, <1>2, <1>3 DEF ReliablesInOrder
    <3> QED
      BY <3>1, <2>1 DEF Buffered, NoChunks
  <2>2. CASE c.chunk_num > 0
    BY <2>2, <1>1, <1>2, <1>3 DEF HeadIsNext, Buffered
  <2> QED
    BY <2>1, <2>2, <1>5
<1>7. /\ m_buf' = [t \in SplitNums |-> m_buf'[t]]
      /\ \A t \in SplitNums \ {s} : m_buf'[t] = m_buf[t]
      /\ m_buf'[s] # Absent => Entry(m_buf'[s]) /\ Takes(m_buf'[s], c)
      /\ \A w \in whole' : IsWhole(w)
      /\ IF IsLast(c)
         THEN /\ m_buf'[s] = Absent
              /\ reliablyWhole' = Append(reliablyWhole, c.data.message)
         ELSE /\ m_buf'[s] # Absent
              /\ DOMAIN m_buf'[s].chunks = 0 .. c.chunk_num
              /\ reliablyWhole' = reliablyWhole
  BY <1>1, <1>2, <1>4, <1>6, Insert_Buffer
<1>8. InFlight' \subseteq InFlight
  <2>1. DOMAIN reliables' = 1 .. Len(reliables')
    BY <1>3
  <2>2. ToSet(reliables)' = {reliables'[i] : i \in 1 .. Len(reliables')}
    BY <2>1 DEF ToSet
  <2>3. \A i \in 1 .. Len(reliables') : reliables'[i] \in InFlight
    BY <1>2, <1>3, FlightMembers
  <2> QED
    BY <2>2, <2>3, <1>1 DEF InFlight
<1>9. SplitVarsTyped'
  <2>1. c.data.message \in 1 .. cut
    BY <1>4 DEF IsChunk
  <2>2. passed' \in Seq(1 .. cut) /\ reliablyWhole' = passed'
    <3>1. passed \in Seq(1 .. cut) /\ reliablyWhole = passed
      BY <1>2 DEF SplitVarsTyped
    <3>2. Append(passed, c.data.message) \in Seq(1 .. cut)
      BY <2>1, <3>1
    <3>3. reliablyWhole' = IF IsLast(c) THEN Append(passed, c.data.message) ELSE passed
      BY <3>1, <1>7
    <3>4. passed' = IF IsLast(c) THEN Append(passed, c.data.message) ELSE passed
      BY <1>1 DEF IsLast
    <3> QED
      BY <3>1, <3>2, <3>3, <3>4
  <2>3. \A d \in InFlight' : IsChunk(d)'
    BY <1>1, <1>2, <1>8 DEF SplitVarsTyped, IsChunk
  <2>4. Len(reliables') \in Nat
    BY <1>3
  <2> QED
    BY <2>2, <2>3, <2>4, <1>1, <1>2, <1>3, <1>7 DEF SplitVarsTyped
<1>10. ASSUME NEW t \in SplitNums, m_buf'[t] # Absent
       PROVE  Entry(m_buf'[t]) /\ \A d \in InFlight : d.seqnum = t => Takes(m_buf'[t], d)
  <2>1. CASE t = s
    <3>1. \A d \in InFlight : Alike(c, d)
      BY <1>2, <1>4 DEF OneMessageEach
    <3> QED
      BY <2>1, <3>1, <1>7, <1>10 DEF Takes, Alike
  <2>2. CASE t # s
    BY <2>2, <1>2, <1>7, <1>10 DEF OneMessageEach, IsIn
  <2> QED
    BY <2>1, <2>2
<1>11. OneMessageEach'
  <2>1. ASSUME NEW t \in remove_queue', NEW i \in 1 .. Len(reliables')
        PROVE  reliables'[i].seqnum # t
    <3>1. reliables'[i] = reliables[i + 1] /\ i + 1 \in 1 .. Len(reliables)
      BY <1>3
    <3> QED
      BY <3>1, <1>1, <1>2 DEF OneMessageEach
  <2>2. \A t \in SplitNums : IsIn(t)' =>
          Entry(m_buf[t])' /\ \A d \in InFlight' : d.seqnum = t => Takes(m_buf'[t], d)
    BY <1>1, <1>8, <1>10 DEF IsIn, Entry
  <2>3. \A d, e \in InFlight' : Alike(d, e)
    BY <1>2, <1>8 DEF OneMessageEach
  <2> QED
    BY <2>1, <2>2, <2>3, <1>1, <1>2, <1>7 DEF OneMessageEach, Alike, Takes
<1>12. \A i, j \in 1 .. Len(reliables') :
         i # j /\ reliables'[i].seqnum = reliables'[j].seqnum
           => reliables'[i].chunk_num # reliables'[j].chunk_num
  <2> TAKE i, j \in 1 .. Len(reliables')
  <2>1. /\ i + 1 \in 1 .. Len(reliables) /\ j + 1 \in 1 .. Len(reliables)
        /\ i # j => i + 1 # j + 1
        /\ reliables'[i] = reliables[i + 1] /\ reliables'[j] = reliables[j + 1]
    BY <1>3
  <2> QED
    BY <2>1, <1>2 DEF ReliablesInOrder
<1>13. \A i \in 1 .. Len(reliables') - 1 :
         IF IsLast(reliables'[i]) THEN reliables'[i + 1].chunk_num = 0
         ELSE /\ reliables'[i + 1].seqnum = reliables'[i].seqnum
              /\ reliables'[i + 1].chunk_num = reliables'[i].chunk_num + 1
  <2> TAKE i \in 1 .. Len(reliables') - 1
  <2>1. /\ i + 1 \in 1 .. Len(reliables) - 1 /\ i \in 1 .. Len(reliables')
        /\ i + 1 \in 1 .. Len(reliables')
    BY <1>3
  <2>2. reliables'[i] = reliables[i + 1] /\ reliables'[i + 1] = reliables[(i + 1) + 1]
    BY <2>1, <1>3
  <2> QED
    BY <2>1, <2>2, <1>2 DEF ReliablesInOrder
<1>14. \A i \in 1 .. Len(reliables') :
         /\ reliables'[i].reliable
         /\ reliables'[i].chunk_num = 0 => m_buf'[reliables'[i].seqnum] = Absent
         /\ i = Len(reliables') => IsLast(reliables'[i])
  <2> TAKE i \in 1 .. Len(reliables')
  <2>1. /\ i + 1 \in 1 .. Len(reliables) /\ i + 1 # 1 /\ reliables'[i] = reliables[i + 1]
        /\ i = Len(reliables') => i + 1 = Len(reliables)
    BY <1>3
  <2>2. /\ reliables[i + 1].reliable
        /\ reliables[i + 1].chunk_num = 0 => ~IsIn(reliables[i + 1].seqnum)
        /\ i + 1 = Len(reliables) => IsLast(reliables[i + 1])
    BY <2>1, <1>2 DEF ReliablesInOrder
  <2>3. reliables[i + 1].seqnum \in SplitNums
    BY <2>1, <1>2, FlightMembers DEF IsChunk
  <2>4. ASSUME reliables[i + 1].chunk_num = 0, reliables[i + 1].seqnum = s, ~IsLast(c)
        PROVE  FALSE
    <3>1. 2 \in 1 .. Len(reliables) /\ 1 \in 1 .. Len(reliables) - 1 /\ 1 + 1 = 2
      BY <2>1, <1>3
    <3>2. reliables[2].seqnum = s /\ reliables[2].chunk_num = c.chunk_num + 1
      BY <3>1, <2>4, <1>2, <1>3 DEF ReliablesInOrder
    <3>3. c.chunk_num # 0
      BY <2>1, <2>4, <1>2, <1>3 DEF ReliablesInOrder
    <3>4. IsIn(s)
      BY <3>3, <1>1, <1>2, <1>3, <1>5 DEF HeadIsNext
    <3> QED
      BY <3>4, <2>2, <2>4
  <2>5. reliables[i + 1].chunk_num = 0 => m_buf'[reliables[i + 1].seqnum] = Absent
    BY <2>2, <2>3, <2>4, <1>7 DEF IsIn
  <2> QED
    BY <2>1, <2>2, <2>5
<1>15. HeadIsNext'
  <2> SUFFICES ASSUME reliables' # <<>>, reliables'[1].chunk_num > 0
               PROVE  /\ m_buf'[reliables'[1].seqnum] # Absent
                      /\ DOMAIN m_buf'[reliables'[1].seqnum].chunks
                           = 0 .. reliables'[1].chunk_num - 1
    BY DEF HeadIsNext, IsIn
  <2>1. Len(reliables') # 0
    BY <1>3
  <2>2. 1 \in 1 .. Len(reliables) - 1 /\ 1 \in 1 .. Len(reliables') /\ 1 + 1 = 2
    BY <2>1, <1>3
  <2>3. reliables'[1] = reliables[2]
    BY <2>2, <1>3
  <2>4. /\ IsLast(c) => reliables[2].chunk_num = 0
        /\ ~IsLast(c) => /\ reliables[2].seqnum = s
                         /\ reliables[2].chunk_num = c.chunk_num + 1
    BY <2>2, <1>2, <1>3 DEF ReliablesInOrder
  <2>5. ~IsLast(c)
    BY <2>3, <2>4
  <2>6. (c.chunk_num + 1) - 1 = c.chunk_num
    BY <1>5
  <2> QED
    BY <2>3, <2>4, <2>5, <2>6, <1>7
<1>16. ReliablesInOrder'
  BY <1>12, <1>13, <1>14 DEF ReliablesInOrder, IsIn, IsLast
<1> QED
  BY <1>9, <1>11, <1>15, <1>16 DEF SplitInv

(* A chunk of one of the first n messages.                                 *)
ChunkUpTo(c, n) ==
  /\ c \in [seqnum : SplitNums, chunk_count : 2 .. MaxChunks, chunk_num : Nat,
            reliable : BOOLEAN, data : [message : 1 .. n, part : Nat]]
  /\ c.chunk_num < c.chunk_count /\ c.data.part = c.chunk_num

(* The chunks of a message just cut.                                       *)
LEMMA CutChunks ==
  ASSUME SplitVarsTyped, UseNumber, NEW count \in 2 .. MaxChunks, NEW reliable \in BOOLEAN
  PROVE  LET m == makeSplitPacket(count, reliable) IN
         /\ m = [i \in 1 .. count |-> m[i]] /\ Len(m) = count /\ count \in Nat
         /\ \A i \in 1 .. count :
              /\ ChunkUpTo(m[i], cut + 1) /\ m[i].seqnum = next_outgoing_split_seqnum
              /\ m[i].chunk_num = i - 1 /\ m[i].chunk_count = count
              /\ m[i].data.message = cut + 1 /\ m[i].reliable = reliable
<1> DEFINE m == makeSplitPacket(count, reliable)
           s == next_outgoing_split_seqnum
<1>1. count \in Nat /\ cut \in Nat /\ cut' = cut + 1 /\ s \in SplitNums
  BY SplitAssumption DEF UseNumber, SplitVarsTyped
<1>2. m = [i \in 1 .. count |-> SplitChunk(cut + 1, s, count, i - 1, reliable)]
  BY DEF makeSplitPacket
<1>3. m = [i \in 1 .. count |-> m[i]] /\ Len(m) = count
  BY <1>1, <1>2
<1>4. ASSUME NEW i \in 1 .. count
      PROVE  /\ ChunkUpTo(m[i], cut + 1) /\ m[i].seqnum = s
             /\ m[i].chunk_num = i - 1 /\ m[i].chunk_count = count
             /\ m[i].data.message = cut + 1 /\ m[i].reliable = reliable
  <2> DEFINE c == m[i]
  <2>1. c = [seqnum |-> s, chunk_count |-> count, chunk_num |-> i - 1, reliable |-> reliable,
             data |-> [message |-> cut + 1, part |-> i - 1]]
    BY <1>2 DEF SplitChunk
  <2>2. i - 1 \in Nat /\ i - 1 < count /\ cut + 1 \in 1 .. cut + 1
    BY <1>1
  <2>3. ChunkUpTo(c, cut + 1)
    BY <2>1, <2>2, <1>1 DEF ChunkUpTo
  <2> QED
    BY <2>1, <2>3
<1> HIDE DEF m
<1> QED
  BY <1>1, <1>3, <1>4 DEF m

(* A message is cut and sent, or cut in vain.                              *)
LEMMA CutMessage_Inv ==
  ASSUME SplitInv, UseNumber, NEW count \in 2 .. MaxChunks, NEW reliable \in BOOLEAN,
         UNCHANGED <<m_buf, whole, reliablyWhole, remove_queue, passed>>,
         datagrams' \subseteq Surviving(next_outgoing_split_seqnum)
            \union (IF reliable THEN {} ELSE ToSet(makeSplitPacket(count, reliable))),
         \/ reliables' = reliables
         \/ reliable /\ reliables' = reliables \o makeSplitPacket(count, reliable)
  PROVE  SplitInv'
<1> DEFINE s == next_outgoing_split_seqnum
           m == makeSplitPacket(count, reliable)
           n == Len(reliables)
           L == Len(reliables')
           S == {reliables[i] : i \in 1 .. n} \union {m[i] : i \in 1 .. count}
<1>1. SplitVarsTyped /\ OneMessageEach /\ ReliablesInOrder /\ HeadIsNext
  BY DEF SplitInv
<1>2. /\ cut < MaxMessages /\ cut' = cut + 1 /\ ~IsIn(s) /\ s \notin remove_queue
      /\ s' = (s + 1) % SPLIT_SIZE
  BY DEF UseNumber, FreshNumber
<1>3. \A i \in 1 .. n : reliables[i].seqnum # s
  <2>1. DOMAIN reliables = 1 .. n
    BY <1>1 DEF SplitVarsTyped
  <2> QED
    BY <2>1 DEF UseNumber, FreshNumber
<1>4. /\ m = [i \in 1 .. count |-> m[i]] /\ Len(m) = count /\ count \in Nat
      /\ \A i \in 1 .. count :
           /\ ChunkUpTo(m[i], cut + 1) /\ m[i].seqnum = s
           /\ m[i].chunk_num = i - 1 /\ m[i].chunk_count = count
           /\ m[i].data.message = cut + 1 /\ m[i].reliable = reliable
  BY <1>1, CutChunks
<1>5. cut \in Nat /\ n \in Nat /\ s \in SplitNums /\ s' \in SplitNums
  BY <1>1, <1>2, SplitAssumption DEF SplitVarsTyped, SplitNums
<1>6. ToSet(m) = {m[i] : i \in 1 .. count}
  <2>1. DOMAIN m = 1 .. count
    BY <1>4
  <2> QED
    BY <2>1 DEF ToSet
<1>7. \A d \in ToSet(m) :
        /\ ChunkUpTo(d, cut + 1) /\ d.seqnum = s /\ d.chunk_count = count
        /\ d.data.message = cut + 1 /\ d.reliable = reliable
  BY <1>4, <1>6
<1> HIDE DEF m, s, n, L, S
<1>seq. reliables \in Seq(S) /\ m \in Seq(S)
  <2>1. reliables = [i \in 1 .. n |-> reliables[i]] /\ n \in Nat
    BY <1>1 DEF SplitVarsTyped, n
  <2>2. (\A i \in 1 .. n : reliables[i] \in S) /\ \A i \in 1 .. count : m[i] \in S
    BY DEF S
  <2>3. reliables \in [1 .. n -> S] /\ m \in [1 .. count -> S]
    BY <2>1, <2>2, <1>4
  <2>4. reliables \in Seq(S)
    BY <2>1, <2>3
  <2>5. m \in Seq(S)
    BY <2>3, <1>4
  <2> QED
    BY <2>4, <2>5
<1>8. L \in Nat /\ (L = n \/ (reliable /\ L = n + count))
  <2>1. CASE reliables' = reliables
    BY <2>1, <1>5 DEF L, n
  <2>2. CASE reliable /\ reliables' = reliables \o m
    BY <2>2, <1>seq, <1>4 DEF L, n
  <2> QED
    BY <2>1, <2>2 DEF m
<1>fcn. reliables' = [i \in 1 .. L |-> reliables'[i]]
  <2>1. CASE reliables' = reliables
    BY <2>1, <1>1 DEF L, SplitVarsTyped
  <2>2. CASE reliable /\ reliables' = reliables \o m
    <3>1. reliables' \in Seq(S)
      BY <2>2, <1>seq
    <3> QED
      BY <3>1 DEF L
  <2> QED
    BY <2>1, <2>2 DEF m
<1>old. ASSUME NEW i \in 1 .. L, i \in 1 .. n
         PROVE  reliables'[i] = reliables[i]
  <2>1. CASE reliables' = reliables
    BY <2>1
  <2>2. CASE reliable /\ reliables' = reliables \o m
    BY <2>2, <1>old, <1>seq DEF n
  <2> QED
    BY <2>1, <2>2 DEF m
<1>new. ASSUME NEW i \in 1 .. L, i \notin 1 .. n
         PROVE  i - n \in 1 .. count /\ reliables'[i] = m[i - n]
  <2>1. CASE reliables' = reliables
    BY <2>1, <1>new DEF L, n
  <2>2. CASE reliable /\ reliables' = reliables \o m
    <3>1. L = n + count
      BY <2>2, <1>seq, <1>4 DEF L, n
    <3>2. i > n /\ i - n \in 1 .. count /\ i \in Nat
      BY <3>1, <1>new, <1>4, <1>5
    <3> QED
      BY <2>2, <3>2, <1>seq, <1>4, <1>5 DEF n
  <2> QED
    BY <2>1, <2>2 DEF m
<1>9. InFlight' \subseteq {d \in InFlight : d.seqnum # s} \union ToSet(m)
  <2>1. ToSet(reliables)' = {reliables'[i] : i \in 1 .. L}
    <3>1. DOMAIN reliables' = 1 .. L
      BY <1>fcn
    <3> QED
      BY <3>1 DEF ToSet
  <2>2. \A i \in 1 .. n : reliables[i] \in InFlight
    BY <1>1, FlightMembers DEF n
  <2>3. datagrams' \subseteq {d \in InFlight : d.seqnum # s} \union ToSet(m)
    BY DEF InFlight, Surviving, m, s
  <2> QED
    BY <2>1, <2>2, <2>3, <1>3, <1>6, <1>8, <1>old, <1>new DEF InFlight
<1>10. SplitVarsTyped'
  <2>1. \A d \in InFlight' : IsChunk(d)'
    <3> TAKE d \in InFlight'
    <3>1. CASE d \in InFlight
      BY <3>1, <1>1, <1>2, <1>5 DEF SplitVarsTyped, IsChunk
    <3>2. CASE d \in ToSet(m)
      BY <3>2, <1>2, <1>7 DEF ChunkUpTo, IsChunk
    <3> QED
      BY <3>1, <3>2, <1>9
  <2>2. cut' \in 0 .. MaxMessages
    BY <1>2, <1>5, SplitAssumption
  <2>3. passed' \in Seq(1 .. cut') /\ reliablyWhole' = passed'
    <3>1. passed \in Seq(1 .. cut)
      BY <1>1 DEF SplitVarsTyped
    <3>2. 1 .. cut \subseteq 1 .. cut + 1
      BY <1>5
    <3>3. passed \in Seq(1 .. cut + 1)
      <4> DEFINE T == 1 .. cut
                 U == 1 .. cut + 1
      <4>1. passed \in Seq(T) /\ T \subseteq U
        BY <3>1, <3>2
      <4> HIDE DEF T, U
      <4>2. passed \in Seq(U)
        BY <4>1
      <4> QED
        BY <4>2 DEF U
    <3> QED
      BY <3>3, <1>1, <1>2 DEF SplitVarsTyped
  <2>4. m_buf' = [t \in SplitNums |-> m_buf'[t]] /\ remove_queue' \subseteq SplitNums
    BY <1>1 DEF SplitVarsTyped
  <2> QED
    BY <2>1, <2>2, <2>3, <2>4, <1>5, <1>8, <1>fcn DEF SplitVarsTyped, s, L
<1>11. OneMessageEach'
  <2>1. \A d \in datagrams' : ~d.reliable
    <3>1. datagrams' \subseteq datagrams \union {d \in ToSet(m) : ~d.reliable}
      BY <1>7 DEF Surviving, m
    <3> QED
      BY <3>1, <1>1 DEF OneMessageEach
  <2>2. \A d, e \in InFlight' : Alike(d, e)
    <3> TAKE d, e \in InFlight'
    <3>1. CASE d.seqnum = s
      BY <3>1, <1>7, <1>9 DEF Alike
    <3>2. CASE d.seqnum # s
      BY <3>2, <1>1, <1>7, <1>9 DEF Alike, OneMessageEach
    <3> QED
      BY <3>1, <3>2
  <2>3. ASSUME NEW t \in SplitNums, m_buf'[t] # Absent
        PROVE  Entry(m_buf[t])' /\ \A d \in InFlight' : d.seqnum = t => Takes(m_buf'[t], d)
    <3>1. t # s /\ IsIn(t) /\ m_buf'[t] = m_buf[t]
      BY <2>3, <1>2 DEF IsIn
    <3>2. Entry(m_buf[t]) /\ \A d \in InFlight : d.seqnum = t => Takes(m_buf[t], d)
      BY <3>1, <1>1 DEF OneMessageEach
    <3>3. Entry(m_buf[t])'
      <4> DEFINE e == m_buf[t]
      <4>1. e.chunks \in [DOMAIN e.chunks -> [message : 1 .. cut, part : Nat]]
        BY <3>2 DEF Entry
      <4>2. 1 .. cut \subseteq 1 .. cut'
        BY <1>2, <1>5
      <4>3. [message : 1 .. cut, part : Nat] \subseteq [message : 1 .. cut', part : Nat]
        BY <4>2
      <4> HIDE DEF e
      <4>4. e.chunks \in [DOMAIN e.chunks -> [message : 1 .. cut', part : Nat]]
        BY <4>1, <4>3
      <4> QED
        BY <3>1, <3>2, <4>4 DEF Entry, e
    <3> QED
      BY <3>1, <3>2, <3>3, <1>7, <1>9
  <2>4. ASSUME NEW t \in remove_queue', NEW i \in 1 .. L
        PROVE  reliables'[i].seqnum # t
    <3>1. t \in remove_queue /\ t # s
      BY <1>2
    <3>2. CASE i \in 1 .. n
      <4>1. reliables'[i] = reliables[i]
        BY <3>2, <1>old
      <4> QED
        BY <4>1, <3>1, <3>2, <1>1 DEF OneMessageEach, n
    <3>3. CASE i \notin 1 .. n
      <4>1. i - n \in 1 .. count /\ reliables'[i] = m[i - n]
        BY <3>3, <1>new
      <4> QED
        BY <4>1, <3>1, <1>4
    <3> QED
      BY <3>2, <3>3
  <2>5. \A w \in whole' : IsWhole(w)
    BY <1>1 DEF OneMessageEach
  <2> QED
    BY <2>1, <2>2, <2>3, <2>4, <2>5 DEF OneMessageEach, IsIn, Alike, Takes, L
<1>12. \A i \in 1 .. L :
         /\ reliables'[i].reliable
         /\ reliables'[i].chunk_num = 0 => m_buf'[reliables'[i].seqnum] = Absent
         /\ i = L => IsLast(reliables'[i])
  <2> TAKE i \in 1 .. L
  <2>1. CASE i \in 1 .. n
    <3>1. i = L => i = n
      BY <2>1, <1>4, <1>5, <1>8, <1>old, <1>new
    <3> QED
      BY <2>1, <3>1, <1>1 DEF ReliablesInOrder, n, IsIn
  <2>2. CASE i \notin 1 .. n
    <3>1. reliable /\ L = n + count /\ i - n \in 1 .. count /\ reliables'[i] = m[i - n]
      BY <2>2, <1>5, <1>8, <1>new
    <3>2. i = L => i - n = count
      BY <3>1, <1>4, <1>5
    <3>3. /\ reliables'[i].chunk_num = (i - n) - 1 /\ reliables'[i].chunk_count = count
          /\ reliables'[i].seqnum = s /\ reliables'[i].reliable
      BY <3>1, <1>4
    <3> QED
      BY <3>2, <3>3, <1>2, <1>4 DEF IsLast, IsIn
  <2> QED
    BY <2>1, <2>2
<1>13. \A i \in 1 .. L - 1 :
         IF IsLast(reliables'[i]) THEN reliables'[i + 1].chunk_num = 0
         ELSE /\ reliables'[i + 1].seqnum = reliables'[i].seqnum
              /\ reliables'[i + 1].chunk_num = reliables'[i].chunk_num + 1
  <2> TAKE i \in 1 .. L - 1
  <2>1. i \in 1 .. L /\ i + 1 \in 1 .. L /\ i \in Nat
    BY <1>8, <1>old, <1>new
  <2>2. CASE i + 1 \in 1 .. n
    <3>1. i \in 1 .. n - 1 /\ i \in 1 .. n
      BY <2>2, <2>1, <1>5
    <3>2. reliables'[i] = reliables[i] /\ reliables'[i + 1] = reliables[i + 1]
      BY <2>1, <2>2, <3>1, <1>old
    <3> QED
      BY <3>1, <3>2, <1>1 DEF ReliablesInOrder, n
  <2>3. CASE i = n
    <3>1. reliables'[i] = reliables[n] /\ n \in 1 .. n
      BY <2>1, <2>3, <1>5, <1>8, <1>old, <1>new
    <3>2. IsLast(reliables'[i])
      BY <3>1, <1>1 DEF ReliablesInOrder, n
    <3>3. (i + 1) - n = 1 /\ ~(i + 1 \in 1 .. n)
      BY <2>3, <1>5
    <3>4. reliables'[i + 1] = m[1] /\ 1 \in 1 .. count
      BY <2>1, <3>3, <1>8, <1>old, <1>new
    <3> QED
      BY <3>2, <3>4, <1>4
  <2>4. CASE i > n
    <3>1. (i + 1) - n = (i - n) + 1 /\ ~(i \in 1 .. n) /\ ~(i + 1 \in 1 .. n)
      BY <2>1, <2>4, <1>5
    <3>2. /\ reliables'[i] = m[i - n] /\ i - n \in 1 .. count
          /\ reliables'[i + 1] = m[(i - n) + 1] /\ (i - n) + 1 \in 1 .. count
      BY <2>1, <3>1, <1>8, <1>old, <1>new
    <3>3. /\ m[i - n].chunk_num = (i - n) - 1 /\ m[i - n].chunk_count = count
          /\ m[(i - n) + 1].chunk_num = ((i - n) + 1) - 1
          /\ m[i - n].seqnum = s /\ m[(i - n) + 1].seqnum = s
      BY <3>2, <1>4
    <3>4. ~IsLast(reliables'[i])
      BY <3>2, <3>3, <1>4, <1>5, <2>1 DEF IsLast
    <3> QED
      BY <3>2, <3>3, <3>4, <1>4, <1>5, <2>1
  <2> QED
    BY <2>1, <2>2, <2>3, <2>4, <1>5
<1>14. \A i, j \in 1 .. L :
         i # j /\ reliables'[i].seqnum = reliables'[j].seqnum
           => reliables'[i].chunk_num # reliables'[j].chunk_num
  <2> TAKE i, j \in 1 .. L
  <2>1. CASE i \in 1 .. n /\ j \in 1 .. n
    BY <2>1, <1>1, <1>8, <1>old, <1>new DEF ReliablesInOrder, n
  <2>2. CASE i > n /\ j > n
    <3>1. /\ reliables'[i] = m[i - n] /\ i - n \in 1 .. count
          /\ reliables'[j] = m[j - n] /\ j - n \in 1 .. count
      BY <2>2, <1>5, <1>8, <1>old, <1>new
    <3>2. reliables'[i].chunk_num = (i - n) - 1 /\ reliables'[j].chunk_num = (j - n) - 1
      BY <3>1, <1>4
    <3> QED
      BY <3>2, <1>5
  <2>3. ASSUME NEW k \in 1 .. L, NEW l \in 1 .. L,
               k \in 1 .. n, l > n
        PROVE  reliables'[k].seqnum # reliables'[l].seqnum
    <3>1. reliables'[k] = reliables[k]
      BY <2>3, <1>5, <1>8, <1>old, <1>new
    <3>2. reliables'[l].seqnum = s
      <4>1. l \notin 1 .. n
        BY <2>3, <1>5
      <4>2. l - n \in 1 .. count /\ reliables'[l] = m[l - n]
        BY <4>1, <1>new
      <4> QED
        BY <4>2, <1>4
    <3> QED
      BY <3>1, <3>2, <2>3, <1>3
  <2>4. \A k \in 1 .. L : k \in 1 .. n \/ k > n
    BY <1>5, <1>8
  <2> QED
    BY <2>1, <2>2, <2>3, <2>4
<1>15. ReliablesInOrder'
  BY <1>12, <1>13, <1>14 DEF ReliablesInOrder, L, IsIn, IsLast
<1>16. HeadIsNext'
  <2> SUFFICES ASSUME reliables' # <<>>, reliables'[1].chunk_num > 0
               PROVE  /\ m_buf'[reliables'[1].seqnum] # Absent
                      /\ DOMAIN m_buf'[reliables'[1].seqnum].chunks
                           = 0 .. reliables'[1].chunk_num - 1
    BY DEF HeadIsNext, IsIn
  <2>1. 1 \in 1 .. L
    <3>1. L # 0
      BY <1>fcn, <1>8
    <3> QED
      BY <3>1, <1>8
  <2>2. 1 \in 1 .. n /\ reliables'[1] = reliables[1]
    <3>1. ASSUME 1 \notin 1 .. n PROVE FALSE
      <4>1. 1 - n \in 1 .. count /\ reliables'[1] = m[1 - n]
        BY <2>1, <3>1, <1>new
      <4>2. 1 - n = 1
        BY <3>1, <1>5
      <4>3. m[1].chunk_num = 0
        BY <4>1, <4>2, <1>4
      <4> QED
        BY <4>1, <4>2, <4>3
    <3> QED
      BY <2>1, <3>1, <1>old
  <2>3. reliables # <<>>
    BY <2>2, <1>5 DEF n
  <2> QED
    BY <2>2, <2>3, <1>1 DEF HeadIsNext, IsIn
<1> QED
  BY <1>10, <1>11, <1>15, <1>16 DEF SplitInv

LEMMA Timeouts_Inv ==
  ASSUME SplitInv,
         \/ \E found \in SUBSET SplitNums : FindTimedOuts(found)
         \/ \E s \in SplitNums : RemoveTimedOut(s)
  PROVE  SplitInv'
<1>0. SplitVarsTyped /\ OneMessageEach /\ ReliablesInOrder /\ HeadIsNext
  BY DEF SplitInv
<1>1. UNCHANGED <<next_outgoing_split_seqnum, cut, datagrams, reliables, whole, reliablyWhole,
                  passed>>
  BY DEF FindTimedOuts, RemoveTimedOut
<1>2. InFlight' = InFlight /\ \A d \in InFlight : IsChunk(d)'
  BY <1>0, <1>1 DEF InFlight, SplitVarsTyped, IsChunk
<1>3. \A i \in 1 .. Len(reliables) :
        reliables[i] \in InFlight /\ IsChunk(reliables[i]) /\ reliables[i].reliable
  BY <1>0, FlightMembers DEF ReliablesInOrder
<1>4. ASSUME NEW found \in SUBSET SplitNums, FindTimedOuts(found)
      PROVE  SplitInv'
  <2>1. /\ \A s \in found : IsIn(s) /\ ~m_buf[s].reliable
        /\ remove_queue' = found /\ m_buf' = m_buf
    BY <1>4 DEF FindTimedOuts
  <2>2. ASSUME NEW s \in found, NEW i \in 1 .. Len(reliables)
        PROVE  reliables[i].seqnum # s
    <3>1. reliables[i].seqnum = s => Takes(m_buf[s], reliables[i])
      BY <2>1, <1>0, <1>3 DEF OneMessageEach
    <3> QED
      BY <3>1, <2>1, <1>3 DEF Takes
  <2>3. SplitVarsTyped' /\ ReliablesInOrder' /\ HeadIsNext'
    BY <2>1, <1>0, <1>1, <1>2
       DEF SplitVarsTyped, ReliablesInOrder, HeadIsNext, IsIn, IsLast
  <2>4. OneMessageEach'
    BY <2>1, <2>2, <1>0, <1>1, <1>2 DEF OneMessageEach, IsIn, Alike, Takes, Entry
  <2> QED
    BY <2>3, <2>4 DEF SplitInv
<1>5. ASSUME NEW s \in SplitNums, RemoveTimedOut(s)
      PROVE  SplitInv'
  <2>1. /\ s \in remove_queue /\ m_buf' = [m_buf EXCEPT ![s] = Absent]
        /\ remove_queue' = remove_queue \ {s}
    BY <1>5 DEF RemoveTimedOut
  <2>2. /\ m_buf' = [t \in SplitNums |-> m_buf'[t]] /\ m_buf'[s] = Absent
        /\ \A t \in SplitNums \ {s} : m_buf'[t] = m_buf[t]
    BY <2>1, <1>0 DEF SplitVarsTyped
  <2>3. \A i \in 1 .. Len(reliables) :
          reliables[i].seqnum # s /\ m_buf'[reliables[i].seqnum] = m_buf[reliables[i].seqnum]
    BY <2>1, <2>2, <1>0, <1>3 DEF OneMessageEach, IsChunk
  <2>4. SplitVarsTyped'
    BY <2>1, <2>2, <1>0, <1>1, <1>2 DEF SplitVarsTyped
  <2>5. ReliablesInOrder'
    BY <2>3, <1>0, <1>1 DEF ReliablesInOrder, IsIn, IsLast
  <2>6. HeadIsNext'
    <3>1. reliables # <<>> => 1 \in 1 .. Len(reliables)
      BY <1>0 DEF SplitVarsTyped
    <3> QED
      BY <3>1, <2>3, <1>0, <1>1 DEF HeadIsNext, IsIn
  <2>7. OneMessageEach'
    <3>1. ASSUME NEW t \in SplitNums, m_buf'[t] # Absent
          PROVE  t # s /\ m_buf'[t] = m_buf[t] /\ IsIn(t)
      BY <3>1, <2>2 DEF IsIn
    <3> QED
      BY <3>1, <2>1, <1>0, <1>1, <1>2 DEF OneMessageEach, IsIn, Alike, Takes, Entry
  <2> QED
    BY <2>4, <2>5, <2>6, <2>7 DEF SplitInv
<1> QED
  BY <1>4, <1>5

LEMMA SplitNext_Inv == SplitInv /\ [SplitNext]_splitVars => SplitInv'
<1> SUFFICES ASSUME SplitInv, [SplitNext]_splitVars
             PROVE  SplitInv'
  OBVIOUS
<1>1. ASSUME NEW count \in 2 .. MaxChunks, SendUnreliable(count)
      PROVE  SplitInv'
  <2>1. /\ UseNumber /\ reliables' = reliables
        /\ UNCHANGED <<m_buf, whole, reliablyWhole, remove_queue, passed>>
        /\ datagrams' = Surviving(next_outgoing_split_seqnum)
                          \union ToSet(makeSplitPacket(count, FALSE))
    BY <1>1 DEF SendUnreliable, gathered
  <2> QED
    BY <2>1, CutMessage_Inv
<1>2. ASSUME NEW count \in 2 .. MaxChunks, NEW enough \in BOOLEAN, SendReliable(count, enough)
      PROVE  SplitInv'
  <2>1. /\ UseNumber
        /\ UNCHANGED <<m_buf, whole, reliablyWhole, remove_queue, passed>>
        /\ datagrams' = Surviving(next_outgoing_split_seqnum)
        /\ \/ reliables' = reliables
           \/ reliables' = reliables \o makeSplitPacket(count, TRUE)
    BY <1>2 DEF SendReliable, gathered
  <2> QED
    BY <2>1, CutMessage_Inv
<1>3. ASSUME NEW c \in datagrams, ReceiveDatagram(c)
      PROVE  SplitInv'
  BY <1>3, ReceiveDatagram_Inv
<1>4. CASE ReceiveReliable
  BY <1>4, ReceiveReliable_Inv
<1>5. CASE \/ \E found \in SUBSET SplitNums : FindTimedOuts(found)
           \/ \E s \in SplitNums : RemoveTimedOut(s)
  BY <1>5, Timeouts_Inv
<1>6. CASE UNCHANGED splitVars
  BY <1>6 DEF splitVars, SplitInv, SplitVarsTyped, OneMessageEach, ReliablesInOrder,
              HeadIsNext, InFlight, IsChunk, IsIn, Alike, Takes, Entry, IsLast
<1> QED
  BY <1>1, <1>2, <1>3, <1>4, <1>5, <1>6 DEF SplitNext

LEMMA SplitInv_Whole == SplitInv => MessagesAreWhole
  BY DEF SplitInv, SplitVarsTyped, OneMessageEach, MessagesAreWhole, IsWhole

LEMMA SplitInv_TypeOK == SplitInv => SplitTypeOK
<1> SUFFICES ASSUME SplitInv PROVE SplitTypeOK
  OBVIOUS
<1>1. SplitVarsTyped /\ OneMessageEach
  BY DEF SplitInv
<1>2. DOMAIN m_buf = SplitNums
  BY <1>1 DEF SplitVarsTyped
<1>3. ASSUME NEW s \in SplitNums
      PROVE  LET e == m_buf[s] IN
             /\ e.chunk_count \in 0 .. MaxChunks /\ e.reliable \in BOOLEAN
             /\ DOMAIN e.chunks \subseteq 0 .. e.chunk_count - 1
             /\ e.chunks \in [DOMAIN e.chunks -> [message : 1 .. cut, part : 0 .. MaxChunks - 1]]
  <2>1. CASE ~IsIn(s)
    <3>1. m_buf[s].chunk_count = 0 /\ m_buf[s].reliable = FALSE /\ m_buf[s].chunks = NoChunks
      BY <2>1 DEF IsIn, Absent
    <3>2. DOMAIN NoChunks = {} /\ NoChunks = [j \in {} |-> NoChunks[j]]
      BY DEF NoChunks
    <3>3. NoChunks \in [DOMAIN NoChunks -> [message : 1 .. cut, part : 0 .. MaxChunks - 1]]
      BY <3>2, Zenon
    <3>4. 0 \in 0 .. MaxChunks /\ FALSE \in BOOLEAN
      BY SplitAssumption
    <3>5. DOMAIN NoChunks \subseteq 0 .. 0 - 1
      BY <3>2
    <3> QED
      BY <3>1, <3>3, <3>4, <3>5, Zenon
  <2>2. CASE IsIn(s)
    <3> DEFINE e == m_buf[s]
    <3>1. Entry(e)
      BY <2>2, <1>1 DEF OneMessageEach
    <3> HIDE DEF e
    <3>2. e.chunk_count \in 0 .. MaxChunks /\ e.reliable \in BOOLEAN
          /\ DOMAIN e.chunks \subseteq 0 .. e.chunk_count - 1
      BY <3>1, SplitAssumption DEF Entry
    <3>3. \A j \in DOMAIN e.chunks : e.chunks[j] \in [message : 1 .. cut, part : 0 .. MaxChunks - 1]
      <4> TAKE j \in DOMAIN e.chunks
      <4>1. e.chunks[j] \in [message : 1 .. cut, part : Nat] /\ e.chunks[j].part = j
        BY <3>1 DEF Entry
      <4>2. j \in 0 .. MaxChunks - 1
        BY <3>2, SplitAssumption
      <4> QED
        BY <4>1, <4>2
    <3>4. e.chunks = [j \in DOMAIN e.chunks |-> e.chunks[j]]
      BY <3>1 DEF Entry
    <3>5. e.chunks \in [DOMAIN e.chunks -> [message : 1 .. cut, part : 0 .. MaxChunks - 1]]
      BY <3>3, <3>4
    <3> QED
      BY <3>2, <3>5 DEF e
  <2> QED
    BY <2>1, <2>2
<1>4. ToSet(passed) \union ToSet(reliablyWhole) \subseteq 1 .. cut
  <2>1. passed \in Seq(1 .. cut) /\ reliablyWhole = passed
    BY <1>1 DEF SplitVarsTyped
  <2>2. \A i \in DOMAIN passed : passed[i] \in 1 .. cut
    <3> DEFINE T == 1 .. cut
    <3>1. passed \in Seq(T)
      BY <2>1
    <3> HIDE DEF T
    <3>2. \A i \in DOMAIN passed : passed[i] \in T
      BY <3>1
    <3> QED
      BY <3>2 DEF T
  <2> QED
    BY <2>1, <2>2 DEF ToSet
<1> QED
  BY <1>1, <1>2, <1>3, <1>4 DEF SplitTypeOK, SplitVarsTyped

-----------------------------------------------------------------------------
(* The proxy.                                                              *)

OnceIn(q, x) == \A i, j \in 1 .. Len(q) : q[i] = x /\ q[j] = x => i = j

LEMMA OnAppend ==
  ASSUME NEW S, NEW q \in Seq(S), NEW x \in S, NEW y
  PROVE  /\ Append(q, x) \in Seq(S)
         /\ Contains(Append(q, x), y) <=> Contains(q, y) \/ x = y
         /\ OnceIn(q, y) /\ (x = y => ~Contains(q, y)) => OnceIn(Append(q, x), y)
<1> DEFINE r == Append(q, x)
<1>1. /\ r \in Seq(S) /\ Len(r) = Len(q) + 1 /\ Len(q) \in Nat
      /\ r[Len(q) + 1] = x /\ \A i \in 1 .. Len(q) : r[i] = q[i]
  OBVIOUS
<1> HIDE DEF r
<1>2. \A i \in 1 .. Len(r) : i = Len(q) + 1 \/ i \in 1 .. Len(q)
  BY <1>1
<1>3. Len(q) + 1 \in 1 .. Len(r) /\ \A i \in 1 .. Len(q) : i \in 1 .. Len(r)
  BY <1>1
<1>4. Contains(r, y) <=> Contains(q, y) \/ x = y
  BY <1>1, <1>2, <1>3 DEF Contains
<1>5. OnceIn(q, y) /\ (x = y => ~Contains(q, y)) => OnceIn(r, y)
  BY <1>1, <1>2 DEF OnceIn, Contains
<1> QED
  BY <1>1, <1>4, <1>5 DEF r

LEMMA OnTail ==
  ASSUME NEW S, NEW q \in Seq(S), q # <<>>, NEW y
  PROVE  /\ Tail(q) \in Seq(S) /\ Head(q) \in S /\ Contains(q, Head(q))
         /\ Contains(q, y) <=> Head(q) = y \/ Contains(Tail(q), y)
         /\ OnceIn(q, y) => OnceIn(Tail(q), y) /\ (Head(q) = y => ~Contains(Tail(q), y))
<1> DEFINE r == Tail(q)
<1>1. /\ r \in Seq(S) /\ Len(q) = Len(r) + 1 /\ Len(r) \in Nat
      /\ Head(q) = q[1] /\ \A i \in 1 .. Len(r) : r[i] = q[i + 1]
  OBVIOUS
<1> HIDE DEF r
<1>2. \A i \in 1 .. Len(q) : i = 1 \/ (i - 1 \in 1 .. Len(r) /\ r[i - 1] = q[i])
  BY <1>1
<1>3. 1 \in 1 .. Len(q) /\ \A i \in 1 .. Len(r) : i + 1 \in 1 .. Len(q) /\ i + 1 # 1
  BY <1>1
<1>4. Contains(q, y) <=> Head(q) = y \/ Contains(r, y)
  BY <1>1, <1>2, <1>3 DEF Contains
<1>5. ASSUME OnceIn(q, y) PROVE OnceIn(r, y)
  <2> SUFFICES ASSUME NEW i \in 1 .. Len(r), NEW j \in 1 .. Len(r), r[i] = y, r[j] = y
               PROVE  i = j
    BY DEF OnceIn
  <2>1. i + 1 = j + 1
    BY <1>1, <1>3, <1>5 DEF OnceIn
  <2> QED
    BY <2>1
<1>6. ASSUME OnceIn(q, y), Head(q) = y PROVE ~Contains(r, y)
  BY <1>1, <1>3, <1>6 DEF OnceIn, Contains
<1>7. Head(q) \in S /\ Contains(q, Head(q))
  BY <1>1, <1>3 DEF Contains
<1> QED
  BY <1>1, <1>4, <1>5, <1>6, <1>7 DEF r

(* What of a transfer of the player with that id to s is still to come.    *)
Countdown(id, s) == [id |-> id, server |-> s]
Counting(id, s)  == Contains(sc_s, Countdown(id, s))
Told(id, s)      == Contains(toSlave[s], Message("connect", id))
HasAnswered(id, s) == Contains(toProxy[s], Message("delete SAO", id))
Recalled(id, s)  == Contains(toSlave[s], Message("disconnect", id))
Kicked(id, s)    == Contains(toProxy[s], Message("kick", id))
Awaited(id, s)   == Counting(id, s) \/ Told(id, s) \/ HasAnswered(id, s)
Trace(id, s)     == Awaited(id, s) \/ Recalled(id, s) \/ Kicked(id, s)
                    \/ id \in ClientDataTable[s]

ProxyTyped ==
  /\ ProxyTypeOK
  /\ usedIds \subseteq PlayerIds /\ again \union early \subseteq usedIds
  /\ sc_s \in Seq([id : PlayerIds, server : SlaveServers])
  /\ PlayersToInitialize \in Seq(PeerIds)
  /\ toSlave \in [SlaveServers -> Seq([type : {"connect", "disconnect"}, id : PlayerIds])]
  /\ toProxy \in [SlaveServers -> Seq([type : {"delete SAO", "kick"}, id : PlayerIds])]

(* Ids given out stand for one player.                                     *)
PlayersDiffer ==
  /\ \A n \in PlayerNames : Known(n) =>
       player[n].peer \in usedPeers /\ player[n].player_id \in usedIds
  /\ \A n, m \in PlayerNames : Known(n) /\ Known(m) =>
       /\ player[n].peer = player[m].peer => n = m
       /\ player[n].player_id = player[m].player_id => n = m
  /\ \A e \in PeerIds : online[e] # Nobody =>
       online[e] \in PlayerNames /\ Known(online[e]) /\ player[online[e]].peer = e
  /\ SessionsStatus \subseteq usedPeers
  /\ \A e \in PeerIds : Contains(PlayersToInitialize, e) => e \in usedPeers
  /\ \A s \in SlaveServers, id \in PlayerIds : Trace(id, s) => id \in usedIds

(* Whoever was sent away, or is being sent, is remembered.                 *)
Remembered(n) ==
  /\ player[n].peer \in SessionsStatus \/ player[n].IsApplied => player[n].to_other_server
  /\ Contains(PlayersToInitialize, player[n].peer) => player[n].player_id \in again
  /\ IsOnline(n) => player[n].player_id \notin early
  /\ player[n].sao = "there" => IsOnline(n)
  /\ player[n].sao = "none" => player[n].to_other_server
  /\ player[n].sao = "marked" /\ ~player[n].to_other_server => ~IsOnline(n)

TravellersAreKnown ==
  /\ \A s \in SlaveServers, id \in PlayerIds : Awaited(id, s) \/ id \in ClientDataTable[s] =>
       \E n \in PlayerNames :
         Known(n) /\ player[n].player_id = id /\ player[n].to_other_server
  /\ \A n \in PlayerNames : Known(n) => Remembered(n)

(* A player sent once, who did not leave before the slave had answered: the*)
(* steps of the transfer come one after the other, each once, and find him *)
(* where he was; and whatever slave has him, he is being sent to, or the   *)
(* slave will be told that he is gone.                                     *)
AwaitedOnce(id, s) ==
  /\ OnceIn(sc_s, Countdown(id, s))
  /\ OnceIn(toSlave[s], Message("connect", id))
  /\ OnceIn(toProxy[s], Message("delete SAO", id))
  /\ ~(Counting(id, s) /\ Told(id, s)) /\ ~(Counting(id, s) /\ HasAnswered(id, s))
  /\ ~(Told(id, s) /\ HasAnswered(id, s))

BeingSent(n, s) == IsOnline(n) /\ player[n].IsApplied /\ player[n].ID = s

Redirected(n) ==
  IsOnline(n) /\ player[n].peer \in SessionsStatus =>
    LET s == PlayerInEnvironmentToServer[player[n].peer]
    IN  /\ s \in SlaveServers /\ BeingSent(n, s)
        /\ player[n].player_id \in ClientDataTable[s] /\ player[n].sao # "there"

OnServer(n, id, s) ==
  /\ Awaited(id, s) => BeingSent(n, s) /\ player[n].sao = "there"
                       /\ player[n].peer \notin SessionsStatus
  /\ HasAnswered(id, s) => id \in ClientDataTable[s]
  /\ AwaitedOnce(id, s)
  /\ id \in ClientDataTable[s] => BeingSent(n, s) \/ Recalled(id, s)
  /\ IsOnline(n) => ~Recalled(id, s)

OneTransfer(n) ==
  Known(n) /\ player[n].player_id \notin again \union early =>
    Redirected(n) /\ \A s \in SlaveServers : OnServer(n, player[n].player_id, s)

ProxyCore ==
  ProxyTyped /\ PlayersDiffer /\ TravellersAreKnown /\ \A n \in PlayerNames : OneTransfer(n)

ProxyInv == ProxyCore /\ CrashesHaveCause

LEMMA MessagesDiffer ==
  ASSUME NEW type, NEW id, NEW type2, NEW id2
  PROVE  /\ Message(type, id) = Message(type2, id2) <=> type = type2 /\ id = id2
         /\ Message(type, id).type = type /\ Message(type, id).id = id
  BY DEF Message

LEMMA CountdownsDiffer ==
  ASSUME NEW id, NEW s, NEW id2, NEW s2
  PROVE  Countdown(id, s) = Countdown(id2, s2) <=> id = id2 /\ s = s2
  BY DEF Countdown

(* A message more, or one less, in the queue of a slave.                   *)
Appended(F, s, x) == [F EXCEPT ![s] = Append(@, x)]
Popped(F, s)      == [F EXCEPT ![s] = Tail(@)]

OneMore(F, G, s, x) ==
  \A t \in SlaveServers : \A y :
    /\ Contains(G[t], y) <=> Contains(F[t], y) \/ (t = s /\ x = y)
    /\ OnceIn(F[t], y) /\ (t = s /\ x = y => ~Contains(F[t], y)) => OnceIn(G[t], y)

OneLess(F, G, s, x) ==
  \A t \in SlaveServers : \A y :
    /\ Contains(F[t], y) <=> Contains(G[t], y) \/ (t = s /\ x = y)
    /\ OnceIn(F[t], y) => OnceIn(G[t], y) /\ (t = s /\ x = y => ~Contains(G[t], y))

LEMMA QueueAppend ==
  ASSUME NEW S, NEW F \in [SlaveServers -> Seq(S)], NEW s, NEW x \in S,
         NEW G, G = Appended(F, s, x)
  PROVE  G \in [SlaveServers -> Seq(S)] /\ OneMore(F, G, s, x)
<1> USE DEF Appended
<1>1. /\ s \in SlaveServers => F[s] \in Seq(S) /\ G[s] = Append(F[s], x)
      /\ \A t \in SlaveServers \ {s} : G[t] = F[t]
      /\ DOMAIN G = SlaveServers /\ G = [t \in SlaveServers |-> G[t]]
  OBVIOUS
<1>2. G \in [SlaveServers -> Seq(S)]
  BY <1>1, OnAppend
<1>3. ASSUME NEW t \in SlaveServers, NEW y
      PROVE  /\ Contains(G[t], y) <=> Contains(F[t], y) \/ (t = s /\ x = y)
             /\ OnceIn(F[t], y) /\ (t = s /\ x = y => ~Contains(F[t], y)) => OnceIn(G[t], y)
  <2>1. CASE t = s
    BY <2>1, <1>1, OnAppend
  <2>2. CASE t # s
    BY <2>2, <1>1
  <2> QED
    BY <2>1, <2>2
<1> QED
  BY <1>2, <1>3 DEF OneMore

LEMMA QueueTail ==
  ASSUME NEW S, NEW F \in [SlaveServers -> Seq(S)], NEW s \in SlaveServers, F[s] # <<>>,
         NEW G, G = Popped(F, s)
  PROVE  /\ G \in [SlaveServers -> Seq(S)] /\ Head(F[s]) \in S /\ Contains(F[s], Head(F[s]))
         /\ OneLess(F, G, s, Head(F[s]))
<1> USE DEF Popped
<1>1. F[s] \in Seq(S) /\ G[s] = Tail(F[s]) /\ \A t \in SlaveServers \ {s} : G[t] = F[t]
  OBVIOUS
<1>2. G \in [SlaveServers -> Seq(S)] /\ Head(F[s]) \in S /\ Contains(F[s], Head(F[s]))
  BY <1>1, OnTail
<1>3. ASSUME NEW t \in SlaveServers, NEW y
      PROVE  /\ Contains(F[t], y) <=> Contains(G[t], y) \/ (t = s /\ Head(F[s]) = y)
             /\ OnceIn(F[t], y) =>
                  OnceIn(G[t], y) /\ (t = s /\ Head(F[s]) = y => ~Contains(G[t], y))
  <2>1. CASE t = s
    <3>1. Contains(F[s], y) <=> Head(F[s]) = y \/ Contains(Tail(F[s]), y)
      BY <1>1, OnTail
    <3>2. OnceIn(F[s], y) =>
            OnceIn(Tail(F[s]), y) /\ (Head(F[s]) = y => ~Contains(Tail(F[s]), y))
      BY <1>1, OnTail
    <3> QED
      BY <2>1, <1>1, <3>1, <3>2
  <2>2. CASE t # s
    BY <2>2, <1>1
  <2> QED
    BY <2>1, <2>2
<1> QED
  BY <1>2, <1>3 DEF OneLess

(* A player whom a step leaves alone.                                      *)
SameAt(id, s) ==
  /\ Counting(id, s)' <=> Counting(id, s)
  /\ Told(id, s)' <=> Told(id, s)
  /\ HasAnswered(id, s)' <=> HasAnswered(id, s)
  /\ Recalled(id, s)' <=> Recalled(id, s)
  /\ id \in ClientDataTable'[s] <=> id \in ClientDataTable[s]
  /\ AwaitedOnce(id, s) => AwaitedOnce(id, s)'

SameTraces(id) == \A s \in SlaveServers : SameAt(id, s)

SameSession(n) ==
  /\ player'[n] = player[n]
  /\ Known(n) =>
       /\ online'[player[n].peer] = n <=> online[player[n].peer] = n
       /\ player[n].peer \in SessionsStatus' <=> player[n].peer \in SessionsStatus
       /\ PlayerInEnvironmentToServer'[player[n].peer]
            = PlayerInEnvironmentToServer[player[n].peer]

LEMMA OnServerFrame ==
  ASSUME NEW n \in PlayerNames, Known(n), SameSession(n), NEW s \in SlaveServers,
         NEW id, player[n].player_id = id, OnServer(n, id, s), SameAt(id, s)
  PROVE  OnServer(n, id, s)'
<1>1. player'[n] = player[n]
  BY DEF SameSession
<1>2. /\ IsOnline(n)' <=> IsOnline(n)
      /\ BeingSent(n, s)' <=> BeingSent(n, s)
  BY <1>1 DEF SameSession, IsOnline, BeingSent, Known
<1>3. player'[n].peer \in SessionsStatus' <=> player[n].peer \in SessionsStatus
  BY <1>1 DEF SameSession
<1>5. Awaited(id, s)' <=> Awaited(id, s)
  BY DEF SameAt, Awaited
<1>6. AwaitedOnce(id, s)'
  BY DEF OnServer, SameAt
<1>7. (/\ Awaited(id, s) => BeingSent(n, s) /\ player[n].sao = "there"
                            /\ player[n].peer \notin SessionsStatus
       /\ HasAnswered(id, s) => id \in ClientDataTable[s]
       /\ AwaitedOnce(id, s)
       /\ id \in ClientDataTable[s] => BeingSent(n, s) \/ Recalled(id, s)
       /\ IsOnline(n) => ~Recalled(id, s))'
  BY <1>1, <1>2, <1>3, <1>5, <1>6 DEF OnServer, SameAt
<1> QED
  BY <1>7 DEF OnServer

LEMMA OneTransferFrame ==
  ASSUME NEW n \in PlayerNames, OneTransfer(n), SameSession(n),
         \A id : Known(n) /\ player[n].player_id = id => SameTraces(id),
         again \subseteq again', early \subseteq early'
  PROVE  OneTransfer(n)'
<1> SUFFICES ASSUME Known(n)', player'[n].player_id \notin again' \union early'
             PROVE  OneTransfer(n)'
  BY DEF OneTransfer
<1>1. player'[n] = player[n] /\ Known(n)
  BY DEF SameSession, Known
<1> PICK id : id = player[n].player_id
  OBVIOUS
<1>2. id \notin again \union early /\ SameTraces(id)
  BY <1>1
<1>3. /\ IsOnline(n)' <=> IsOnline(n)
      /\ \A s \in SlaveServers : BeingSent(n, s)' <=> BeingSent(n, s)
  BY <1>1 DEF SameSession, IsOnline, BeingSent, Known
<1>4. Redirected(n) => Redirected(n)'
  BY <1>1, <1>2, <1>3 DEF Redirected, SameSession, SameTraces, SameAt, BeingSent
<1>5. \A s \in SlaveServers : OnServer(n, id, s)'
  BY <1>1, <1>2, OnServerFrame DEF OneTransfer, SameTraces
<1> QED
  BY <1>1, <1>2, <1>4, <1>5 DEF OneTransfer

SameNet == UNCHANGED <<sc_s, toSlave, toProxy, ClientDataTable>>

LEMMA SameNetTraces == SameNet => \A id \in PlayerIds : SameTraces(id)
<1> SUFFICES ASSUME SameNet, NEW id \in PlayerIds, NEW s \in SlaveServers
             PROVE  SameAt(id, s)
  BY Zenon DEF SameTraces
<1>1. sc_s' = sc_s /\ toSlave' = toSlave /\ toProxy' = toProxy
      /\ ClientDataTable' = ClientDataTable
  BY DEF SameNet
<1>2. /\ Counting(id, s)' <=> Counting(id, s)
      /\ Told(id, s)' <=> Told(id, s)
      /\ HasAnswered(id, s)' <=> HasAnswered(id, s)
      /\ Recalled(id, s)' <=> Recalled(id, s)
  BY <1>1, Zenon DEF Counting, Told, HasAnswered, Recalled
<1>3. /\ OnceIn(sc_s', Countdown(id, s)) <=> OnceIn(sc_s, Countdown(id, s))
      /\ OnceIn(toSlave'[s], Message("connect", id)) <=> OnceIn(toSlave[s], Message("connect", id))
      /\ OnceIn(toProxy'[s], Message("delete SAO", id))
           <=> OnceIn(toProxy[s], Message("delete SAO", id))
  BY <1>1, Zenon
<1>4. AwaitedOnce(id, s) => AwaitedOnce(id, s)'
  BY <1>2, <1>3, Zenon DEF AwaitedOnce
<1> QED
  BY <1>1, <1>2, <1>4, Zenon DEF SameAt

LEMMA ProxyCoreFrame ==
  ProxyCore /\ UNCHANGED <<player, sessions, sc_s, PlayersToInitialize, proxyNet, history>>
     /\ crash' \in {"no", "null", "wild", "assert", "fatal"} => ProxyCore'
<1> SUFFICES ASSUME ProxyCore, SameNet,
                    UNCHANGED <<player, online, SessionsStatus, PlayerInEnvironmentToServer,
                                PlayersToInitialize, transfers, usedPeers, usedIds, again, early>>,
                    crash' \in {"no", "null", "wild", "assert", "fatal"}
             PROVE  ProxyCore'
  BY DEF SameNet, sessions, proxyNet, history
<1>1. ProxyTyped'
  BY DEF ProxyCore, ProxyTyped, ProxyTypeOK, SameNet
<1>2. PlayersDiffer'
  <2>1. /\ \A n \in PlayerNames : Known(n)' <=> Known(n)
        /\ \A s \in SlaveServers, id \in PlayerIds : Trace(id, s)' <=> Trace(id, s)
    BY DEF SameNet, Known, Trace, Awaited, Counting, Told, HasAnswered, Recalled, Kicked
  <2>2. ASSUME NEW e \in PeerIds, online'[e] # Nobody
        PROVE  online'[e] \in PlayerNames /\ Known(online[e])' /\ player'[online'[e]].peer = e
    BY <2>1, <2>2 DEF ProxyCore, PlayersDiffer
  <2> QED
    BY <2>1, <2>2 DEF ProxyCore, PlayersDiffer
<1>3. TravellersAreKnown'
  <2>1. /\ \A n \in PlayerNames : (Known(n)' <=> Known(n)) /\ (IsOnline(n)' <=> IsOnline(n))
        /\ \A s \in SlaveServers, id \in PlayerIds :
             (Awaited(id, s)' <=> Awaited(id, s))
             /\ (id \in ClientDataTable'[s] <=> id \in ClientDataTable[s])
    BY DEF SameNet, Known, IsOnline, Awaited, Counting, Told, HasAnswered
  <2> QED
    BY <2>1 DEF ProxyCore, TravellersAreKnown, Remembered
<1>4. ASSUME NEW n \in PlayerNames PROVE OneTransfer(n)'
  <2>1. OneTransfer(n) /\ SameSession(n)
    BY DEF ProxyCore, SameSession
  <2>2. \A id : Known(n) /\ player[n].player_id = id => SameTraces(id)
    BY SameNetTraces DEF ProxyCore, ProxyTyped, PlayersDiffer
  <2> QED
    BY <2>1, <2>2, OneTransferFrame
<1> QED
  BY <1>1, <1>2, <1>3, <1>4 DEF ProxyCore

LEMMA ProxyInit_Inv == ProxyInit => ProxyInv
<1> SUFFICES ASSUME ProxyInit PROVE ProxyInv
  OBVIOUS
<1>1. \A n \in PlayerNames : ~Known(n)
  BY DEF ProxyInit, Known
<1>2. NoPlayer \in [peer : PeerIds \union {0}, player_id : PlayerIds \union {0},
                    sao : {"there", "marked", "none"}, to_other_server : BOOLEAN,
                    IsApplied : BOOLEAN, ID : SlaveServers \union {MainServer}]
  BY DEF NoPlayer
<1>3. ProxyTyped
  BY <1>2 DEF ProxyInit, ProxyTyped, ProxyTypeOK
<1>4. \A x : ~Contains(<<>>, x)
  BY DEF Contains
<1>5. PlayersDiffer
  <2>1. \A s \in SlaveServers, id \in PlayerIds : ~Trace(id, s)
    BY <1>4 DEF ProxyInit, Trace, Awaited, Counting, Told, HasAnswered, Recalled, Kicked
  <2> QED
    BY <1>1, <1>4, <2>1 DEF ProxyInit, PlayersDiffer
<1>6. TravellersAreKnown
  BY <1>1, <1>4 DEF ProxyInit, TravellersAreKnown, Awaited, Counting, Told, HasAnswered
<1>7. \A n \in PlayerNames : OneTransfer(n)
  BY <1>1 DEF OneTransfer
<1>8. CrashesHaveCause
  BY DEF ProxyInit, CrashesHaveCause
<1> QED
  BY <1>3, <1>5, <1>6, <1>7, <1>8 DEF ProxyInv, ProxyCore

(* The ids of a player who comes have left no trace.                       *)
LEMMA emergePlayer_Inv ==
  ASSUME ProxyCore, NEW n \in PlayerNames, NEW peer \in PeerIds, NEW id \in PlayerIds,
         emergePlayer(n, peer, id)
  PROVE  ProxyCore'
<1> DEFINE new == [NoPlayer EXCEPT !.peer = peer, !.player_id = id, !.sao = "there"]
<1>0. ProxyTyped /\ PlayersDiffer /\ TravellersAreKnown
  BY DEF ProxyCore
<1>1. /\ peer \notin usedPeers /\ id \notin usedIds /\ ~Known(n)
      /\ player' = [player EXCEPT ![n] = new] /\ online' = [online EXCEPT ![peer] = n]
      /\ usedPeers' = usedPeers \union {peer} /\ usedIds' = usedIds \union {id}
      /\ SameNet
      /\ UNCHANGED <<SessionsStatus, PlayerInEnvironmentToServer, PlayersToInitialize, crash,
                     again, early>>
  BY DEF emergePlayer, SameNet, proxyNet
<1>2. /\ new \in [peer : PeerIds \union {0}, player_id : PlayerIds \union {0},
                  sao : {"there", "marked", "none"}, to_other_server : BOOLEAN,
                  IsApplied : BOOLEAN, ID : SlaveServers \union {MainServer}]
      /\ new.peer = peer /\ new.player_id = id /\ new.sao = "there" /\ new # NoPlayer
      /\ ~new.to_other_server /\ ~new.IsApplied
  BY DEF NoPlayer
<1> HIDE DEF new
<1>3. /\ player'[n] = new /\ \A m \in PlayerNames \ {n} : player'[m] = player[m]
      /\ online'[peer] = n /\ \A e \in PeerIds \ {peer} : online'[e] = online[e]
  BY <1>0, <1>1 DEF ProxyTyped, ProxyTypeOK
<1>4. ProxyTyped'
  BY <1>0, <1>1, <1>2 DEF ProxyTyped, ProxyTypeOK, SameNet
<1>5. /\ Known(n)' /\ IsOnline(n)'
      /\ \A m \in PlayerNames \ {n} :
           /\ Known(m)' <=> Known(m)
           /\ Known(m) => player[m].peer # peer /\ player[m].player_id # id
           /\ Known(m) => player[m].peer \in PeerIds
           /\ IsOnline(m)' <=> IsOnline(m)
  <2>1. \A e \in usedPeers : e \in PeerIds
    BY <1>0 DEF ProxyTyped, ProxyTypeOK
  <2>2. Known(n)' /\ IsOnline(n)'
    BY <1>2, <1>3 DEF Known, IsOnline
  <2>3. ASSUME NEW m \in PlayerNames \ {n}
        PROVE  /\ Known(m)' <=> Known(m)
               /\ Known(m) => player[m].peer # peer /\ player[m].player_id # id
               /\ Known(m) => player[m].peer \in PeerIds
    BY <2>1, <1>0, <1>1, <1>3 DEF Known, PlayersDiffer
  <2> QED
    BY <2>2, <2>3, <1>3 DEF IsOnline
<1>6. n \in PlayerNames /\ n # Nobody
  BY ProxyAssumption
<1>7. PlayersDiffer'
  <2>1. ASSUME NEW m \in PlayerNames, Known(m)'
        PROVE  player'[m].peer \in usedPeers' /\ player'[m].player_id \in usedIds'
    <3>1. m # n => player[m].peer \in usedPeers /\ player[m].player_id \in usedIds
      BY <2>1, <1>0, <1>5 DEF PlayersDiffer
    <3> QED
      BY <3>1, <1>1, <1>2, <1>3
  <2>2. ASSUME NEW l \in PlayerNames, NEW m \in PlayerNames, Known(l)', Known(m)'
        PROVE  /\ player'[l].peer = player'[m].peer => l = m
               /\ player'[l].player_id = player'[m].player_id => l = m
    <3>1. /\ l # n => player'[l] = player[l] /\ Known(l)
                      /\ player[l].peer # peer /\ player[l].player_id # id
          /\ m # n => player'[m] = player[m] /\ Known(m)
                      /\ player[m].peer # peer /\ player[m].player_id # id
      BY <2>2, <1>3, <1>5
    <3>2. l # n /\ m # n => /\ player[l].peer = player[m].peer => l = m
                            /\ player[l].player_id = player[m].player_id => l = m
      BY <3>1, <1>0 DEF PlayersDiffer
    <3> QED
      BY <3>1, <3>2, <1>2, <1>3
  <2>3. ASSUME NEW e \in PeerIds, online'[e] # Nobody
        PROVE  online'[e] \in PlayerNames /\ player'[online'[e]] # NoPlayer
               /\ player'[online'[e]].peer = e
    <3>1. CASE e = peer
      BY <3>1, <1>2, <1>3, <1>6
    <3>2. CASE e # peer
      <4>1. online'[e] = online[e]
        BY <3>2, <1>3
      <4>2. online[e] \in PlayerNames /\ Known(online[e]) /\ player[online[e]].peer = e
        BY <2>3, <4>1, <1>0 DEF PlayersDiffer
      <4>3. online[e] # n
        BY <4>2, <1>1
      <4> QED
        BY <4>1, <4>2, <4>3, <1>3 DEF Known
    <3> QED
      BY <3>1, <3>2
  <2> QED
    <3>1. \A s \in SlaveServers, i \in PlayerIds : Trace(i, s)' => i \in usedIds'
      BY <1>0, <1>1 DEF PlayersDiffer, SameNet, Trace, Awaited, Counting, Told, HasAnswered,
                        Recalled, Kicked
    <3> QED
      BY <2>1, <2>2, <2>3, <3>1, <1>0, <1>1 DEF PlayersDiffer, Known
<1>8. TravellersAreKnown'
  <2>1. \A s \in SlaveServers, i \in PlayerIds : Awaited(i, s)' \/ i \in ClientDataTable'[s] =>
          \E m \in PlayerNames :
            Known(m)' /\ player'[m].player_id = i /\ player'[m].to_other_server
    <3> TAKE s \in SlaveServers, i \in PlayerIds
    <3> HAVE Awaited(i, s)' \/ i \in ClientDataTable'[s]
    <3>1. Awaited(i, s) \/ i \in ClientDataTable[s]
      BY <1>1 DEF SameNet, Awaited, Counting, Told, HasAnswered
    <3>2. PICK m \in PlayerNames :
            Known(m) /\ player[m].player_id = i /\ player[m].to_other_server
      BY <3>1, <1>0 DEF TravellersAreKnown
    <3> QED
      BY <3>2, <1>1, <1>3, <1>5
  <2>2. ASSUME NEW m \in PlayerNames, Known(m)'
        PROVE  Remembered(m)'
    <3>1. CASE m = n
      <4>1. peer \notin SessionsStatus /\ ~Contains(PlayersToInitialize, peer) /\ id \notin early
        BY <1>0, <1>1 DEF PlayersDiffer, ProxyTyped
      <4> QED
        BY <3>1, <4>1, <1>1, <1>2, <1>3, <1>5 DEF Remembered
    <3>2. CASE m # n
      BY <3>2, <2>2, <1>0, <1>1, <1>3, <1>5 DEF TravellersAreKnown, Remembered
    <3> QED
      BY <3>1, <3>2
  <2> QED
    BY <2>1, <2>2 DEF TravellersAreKnown
<1>9. ASSUME NEW m \in PlayerNames PROVE OneTransfer(m)'
  <2>1. CASE m # n
    <3>1. Known(m) => online'[player[m].peer] = online[player[m].peer]
      BY <2>1, <1>3, <1>5
    <3>2. SameSession(m)
      BY <2>1, <3>1, <1>1, <1>3 DEF SameSession
    <3>3. \A i : Known(m) /\ player[m].player_id = i => SameTraces(i)
      BY <1>0, <1>1, SameNetTraces DEF PlayersDiffer, ProxyTyped
    <3> QED
      BY <3>2, <3>3, <1>1, OneTransferFrame DEF ProxyCore
  <2>2. CASE m = n
    <3>1. \A s \in SlaveServers :
            ~Counting(id, s) /\ ~Told(id, s) /\ ~HasAnswered(id, s) /\ ~Recalled(id, s)
            /\ id \notin ClientDataTable[s]
      BY <1>0, <1>1 DEF PlayersDiffer, Trace, Awaited
    <3>2. \A s \in SlaveServers :
            ~Counting(id, s)' /\ ~Told(id, s)' /\ ~HasAnswered(id, s)' /\ ~Recalled(id, s)'
            /\ id \notin ClientDataTable'[s]
      BY <3>1, <1>1 DEF SameNet, Counting, Told, HasAnswered, Recalled
    <3>3. \A s \in SlaveServers : AwaitedOnce(id, s)'
      BY <3>2 DEF AwaitedOnce, OnceIn, Contains, Counting, Told, HasAnswered
    <3>4. Redirected(n)'
      <4>1. SessionsStatus' = SessionsStatus /\ SessionsStatus \subseteq usedPeers
            /\ player'[n].peer = peer /\ peer \notin usedPeers
        BY <1>0, <1>1, <1>2, <1>3 DEF PlayersDiffer
      <4> QED
        BY <4>1 DEF Redirected
    <3>5. player'[n].player_id = id
      BY <1>2, <1>3
    <3>6. \A s \in SlaveServers : OnServer(n, id, s)'
      BY <3>2, <3>3 DEF OnServer, Awaited
    <3> QED
      BY <2>2, <3>4, <3>5, <3>6 DEF OneTransfer
  <2> QED
    BY <2>1, <2>2
<1> QED
  BY <1>4, <1>7, <1>8, <1>9 DEF ProxyCore

(* A step that only handles a message of a slave: what it must show.       *)
LEMMA MessageStep_Inv ==
  ASSUME ProxyCore, UNCHANGED <<player, sessions, PlayersToInitialize, history>>, ProxyTyped',
         \A s \in SlaveServers, id \in PlayerIds :
           /\ Trace(id, s)' => id \in usedIds
           /\ Awaited(id, s)' \/ id \in ClientDataTable'[s]
                => Awaited(id, s) \/ id \in ClientDataTable[s],
         \A n \in PlayerNames : \A id :
           Known(n) /\ player[n].player_id = id => SameTraces(id) \/ OneTransfer(n)'
  PROVE  ProxyCore'
<1>1. UNCHANGED <<player, online, SessionsStatus, PlayerInEnvironmentToServer,
                  PlayersToInitialize, usedPeers, usedIds, again, early>>
  BY DEF sessions, history
<1>2. \A n \in PlayerNames : (Known(n)' <=> Known(n)) /\ (IsOnline(n)' <=> IsOnline(n))
  BY <1>1 DEF Known, IsOnline
<1>3. PlayersDiffer'
  <2>1. PlayersDiffer
    BY DEF ProxyCore
  <2>2. \A e \in PeerIds : online'[e] # Nobody =>
          online'[e] \in PlayerNames /\ player'[online'[e]] # NoPlayer
          /\ player'[online'[e]].peer = e
    BY <2>1, <1>1 DEF PlayersDiffer, Known
  <2> QED
    BY <2>1, <2>2, <1>1, <1>2 DEF PlayersDiffer, Known
<1>4. TravellersAreKnown'
  <2>1. ASSUME NEW s \in SlaveServers, NEW id \in PlayerIds,
               Awaited(id, s)' \/ id \in ClientDataTable'[s]
        PROVE  \E n \in PlayerNames :
                 Known(n) /\ player[n].player_id = id /\ player[n].to_other_server
    BY <2>1 DEF ProxyCore, TravellersAreKnown
  <2> QED
    BY <1>1, <1>2, <2>1 DEF ProxyCore, TravellersAreKnown, Remembered
<1>5. ASSUME NEW n \in PlayerNames PROVE OneTransfer(n)'
  <2>1. OneTransfer(n) /\ SameSession(n)
    BY <1>1 DEF ProxyCore, SameSession
  <2>2. CASE \A id : Known(n) /\ player[n].player_id = id => SameTraces(id)
    BY <2>1, <2>2, <1>1, OneTransferFrame
  <2> QED
    BY <2>2
<1> QED
  BY <1>3, <1>4, <1>5 DEF ProxyCore

LEMMA KickFromSlave_Inv ==
  ASSUME ProxyCore, NEW s \in SlaveServers, NEW id \in PlayerIds,
         SendDisconnectToPlayer(s, id)
  PROVE  ProxyCore'
<1> DEFINE S == [type : {"delete SAO", "kick"}, id : PlayerIds]
<1> DEFINE x == Message("kick", id)
<1>1. /\ toProxy' = Appended(toProxy, s, x)
      /\ SlaveOnly /\ toSlave' = toSlave /\ ClientDataTable' = ClientDataTable /\ sc_s' = sc_s
      /\ id \in ClientDataTable[s]
  BY DEF SendDisconnectToPlayer, Answer, SlaveOnly, Appended
<1>2. toProxy \in [SlaveServers -> Seq(S)] /\ x \in S
  BY DEF ProxyCore, ProxyTyped, Message
<1> HIDE DEF S, x
<1>3. toProxy' \in [SlaveServers -> Seq(S)] /\ OneMore(toProxy, toProxy', s, x)
  BY <1>1, <1>2, QueueAppend, Zenon
<1>4. ProxyTyped'
  BY <1>1, <1>3 DEF ProxyCore, ProxyTyped, ProxyTypeOK, SlaveOnly, sessions, history, S
<1>5. ASSUME NEW i \in PlayerIds PROVE SameTraces(i)
  <2> SUFFICES ASSUME NEW t \in SlaveServers
               PROVE  SameAt(i, t)
    BY Zenon DEF SameTraces
  <2>1. x # Message("delete SAO", i)
    BY DEF Message, x
  <2>2. /\ Counting(i, t)' <=> Counting(i, t)
        /\ Told(i, t)' <=> Told(i, t)
        /\ Recalled(i, t)' <=> Recalled(i, t)
    BY <1>1, Zenon DEF Counting, Told, Recalled
  <2>3. HasAnswered(i, t)' <=> HasAnswered(i, t)
    BY <1>3, <2>1, Zenon DEF HasAnswered, OneMore
  <2>4. OnceIn(toProxy[t], Message("delete SAO", i))
          => OnceIn(toProxy'[t], Message("delete SAO", i))
    BY <1>3, <2>1, Zenon DEF OneMore
  <2>5. AwaitedOnce(i, t) => AwaitedOnce(i, t)'
    BY <1>1, <2>2, <2>3, <2>4, Zenon DEF AwaitedOnce
  <2> QED
    BY <1>1, <2>2, <2>3, <2>5, Zenon DEF SameAt
<1>6. ASSUME NEW t \in SlaveServers, NEW i \in PlayerIds
      PROVE  /\ Trace(i, t)' => i \in usedIds
             /\ Awaited(i, t)' \/ i \in ClientDataTable'[t]
                  => Awaited(i, t) \/ i \in ClientDataTable[t]
  <2>1. Kicked(i, t)' => Kicked(i, t) \/ (t = s /\ i = id)
    BY <1>3 DEF Kicked, x, OneMore, Message
  <2>2. /\ Awaited(i, t)' <=> Awaited(i, t)
        /\ Recalled(i, t)' <=> Recalled(i, t)
    BY <1>5, Zenon DEF SameTraces, SameAt, Awaited
  <2> QED
    BY <2>1, <2>2, <1>1 DEF ProxyCore, PlayersDiffer, Trace
<1>7. \A n \in PlayerNames : \A i : Known(n) /\ player[n].player_id = i => SameTraces(i)
  BY <1>5 DEF ProxyCore, PlayersDiffer, ProxyTyped
<1> QED
  BY <1>1, <1>4, <1>6, <1>7, MessageStep_Inv DEF SlaveOnly

SlaveMessages == [type : {"connect", "disconnect"}, id : PlayerIds]
ProxyMessages == [type : {"delete SAO", "kick"}, id : PlayerIds]

(* The message a slave handles, and what is left of its queue.             *)
LEMMA HeadOfSlave ==
  ASSUME ProxyCore, NEW s \in SlaveServers, NEW type, Next1(toSlave, s, type),
         toSlave' = Popped(toSlave, s)
  PROVE  /\ toSlave' \in [SlaveServers -> Seq(SlaveMessages)]
         /\ Head(toSlave[s]).id \in PlayerIds
         /\ Head(toSlave[s]) = Message(type, Head(toSlave[s]).id)
         /\ Contains(toSlave[s], Message(type, Head(toSlave[s]).id))
         /\ OneLess(toSlave, toSlave', s, Message(type, Head(toSlave[s]).id))
<1>1. toSlave \in [SlaveServers -> Seq(SlaveMessages)]
  BY DEF ProxyCore, ProxyTyped, SlaveMessages
<1>2. toSlave[s] # <<>> /\ Head(toSlave[s]).type = type
  BY DEF Next1
<1>3. /\ toSlave' \in [SlaveServers -> Seq(SlaveMessages)] /\ Head(toSlave[s]) \in SlaveMessages
      /\ Contains(toSlave[s], Head(toSlave[s])) /\ OneLess(toSlave, toSlave', s, Head(toSlave[s]))
  BY <1>1, <1>2, QueueTail, Zenon
<1>4. Head(toSlave[s]).id \in PlayerIds /\ Head(toSlave[s]) = Message(type, Head(toSlave[s]).id)
  BY <1>2, <1>3 DEF SlaveMessages, Message
<1> QED
  BY <1>3, <1>4

LEMMA HeadOfProxy ==
  ASSUME ProxyCore, NEW s \in SlaveServers, NEW type, Next1(toProxy, s, type),
         toProxy' = Popped(toProxy, s)
  PROVE  /\ toProxy' \in [SlaveServers -> Seq(ProxyMessages)]
         /\ Head(toProxy[s]).id \in PlayerIds
         /\ Head(toProxy[s]) = Message(type, Head(toProxy[s]).id)
         /\ Contains(toProxy[s], Message(type, Head(toProxy[s]).id))
         /\ OneLess(toProxy, toProxy', s, Message(type, Head(toProxy[s]).id))
<1>1. toProxy \in [SlaveServers -> Seq(ProxyMessages)]
  BY DEF ProxyCore, ProxyTyped, ProxyMessages
<1>2. toProxy[s] # <<>> /\ Head(toProxy[s]).type = type
  BY DEF Next1
<1>3. /\ toProxy' \in [SlaveServers -> Seq(ProxyMessages)] /\ Head(toProxy[s]) \in ProxyMessages
      /\ Contains(toProxy[s], Head(toProxy[s])) /\ OneLess(toProxy, toProxy', s, Head(toProxy[s]))
  BY <1>1, <1>2, QueueTail, Zenon
<1>4. Head(toProxy[s]).id \in PlayerIds /\ Head(toProxy[s]) = Message(type, Head(toProxy[s]).id)
  BY <1>2, <1>3 DEF ProxyMessages, Message
<1> QED
  BY <1>3, <1>4

LEMMA GotConnect_Inv ==
  ASSUME ProxyCore, NEW s \in SlaveServers, handleCommand_GotConnect(s)
  PROVE  ProxyCore'
<1> PICK id : id = Head(toSlave[s]).id
  OBVIOUS
<1> DEFINE h == Message("connect", id)
<1> DEFINE a == Message("delete SAO", id)
<1>1. /\ toSlave' = Popped(toSlave, s) /\ toProxy' = Appended(toProxy, s, a)
      /\ Next1(toSlave, s, "connect")
      /\ ClientDataTable' = [ClientDataTable EXCEPT ![s] = @ \union {id}]
      /\ SlaveOnly /\ sc_s' = sc_s
  BY DEF handleCommand_GotConnect, Popped, Appended, Answer, SlaveOnly
<1>2. /\ toSlave' \in [SlaveServers -> Seq(SlaveMessages)] /\ id \in PlayerIds
      /\ Contains(toSlave[s], h) /\ OneLess(toSlave, toSlave', s, h)
  BY <1>1, HeadOfSlave
<1>3. toProxy \in [SlaveServers -> Seq(ProxyMessages)] /\ a \in ProxyMessages
  BY <1>2 DEF ProxyCore, ProxyTyped, ProxyMessages, Message
<1> HIDE DEF h, a
<1>4. toProxy' \in [SlaveServers -> Seq(ProxyMessages)] /\ OneMore(toProxy, toProxy', s, a)
  BY <1>1, <1>3, QueueAppend, Zenon
<1>5. /\ ClientDataTable' \in [SlaveServers -> SUBSET PlayerIds]
      /\ \A t \in SlaveServers : \A i : i \in ClientDataTable'[t] <=>
           i \in ClientDataTable[t] \/ (t = s /\ i = id)
  BY <1>1, <1>2 DEF ProxyCore, ProxyTyped, ProxyTypeOK
<1>6. ProxyTyped'
  BY <1>1, <1>2, <1>4, <1>5 DEF ProxyCore, ProxyTyped, ProxyTypeOK, SlaveOnly, sessions, history,
                                SlaveMessages, ProxyMessages
<1>7. ASSUME NEW i \in PlayerIds, NEW t \in SlaveServers
      PROVE  /\ Counting(i, t)' <=> Counting(i, t)
             /\ Told(i, t)' \/ (t = s /\ i = id) <=> Told(i, t)
             /\ HasAnswered(i, t)' <=> HasAnswered(i, t) \/ (t = s /\ i = id)
             /\ Recalled(i, t)' <=> Recalled(i, t)
             /\ Kicked(i, t)' <=> Kicked(i, t)
  <2>1. Counting(i, t)' <=> Counting(i, t)
    BY <1>1 DEF Counting
  <2>2. /\ h = Message("connect", i) <=> i = id
        /\ a = Message("delete SAO", i) <=> i = id
        /\ h # Message("disconnect", i) /\ a # Message("kick", i)
    BY DEF h, a, Message
  <2>3. /\ Told(i, t)' \/ (t = s /\ i = id) <=> Told(i, t)
        /\ Recalled(i, t)' <=> Recalled(i, t)
    BY <1>2, <2>2 DEF OneLess, Told, Recalled
  <2>4. /\ HasAnswered(i, t)' <=> HasAnswered(i, t) \/ (t = s /\ i = id)
        /\ Kicked(i, t)' <=> Kicked(i, t)
    BY <1>4, <2>2 DEF OneMore, HasAnswered, Kicked
  <2> QED
    BY <2>1, <2>3, <2>4
<1>8. ASSUME NEW i \in PlayerIds, NEW t \in SlaveServers, AwaitedOnce(i, t)
      PROVE  AwaitedOnce(i, t)' /\ (t = s /\ i = id => ~Told(i, t)')
  <2>1. Told(id, s)
    BY <1>2 DEF Told, h
  <2>2. OnceIn(sc_s, Countdown(i, t))'
    BY <1>1, <1>8 DEF AwaitedOnce
  <2>3. /\ h = Message("connect", i) <=> i = id
        /\ a = Message("delete SAO", i) <=> i = id
    BY DEF h, a, Message
  <2>4. /\ OnceIn(toSlave[t], Message("connect", i))'
        /\ t = s /\ i = id => ~Told(i, t)'
    BY <1>2, <1>8, <2>3, Zenon DEF OneLess, AwaitedOnce, Told
  <2>5. OnceIn(toProxy[t], Message("delete SAO", i))'
    BY <1>4, <1>8, <2>1, <2>3, Zenon DEF OneMore, AwaitedOnce, HasAnswered
  <2> QED
    BY <2>1, <2>2, <2>4, <2>5, <1>7, <1>8 DEF AwaitedOnce
<1>9. ASSUME NEW i \in PlayerIds, NEW t \in SlaveServers, i # id \/ t # s
      PROVE  SameAt(i, t)
  BY <1>5, <1>7, <1>8, <1>9 DEF SameAt
<1>10. ASSUME NEW t \in SlaveServers, NEW i \in PlayerIds
       PROVE  /\ Trace(i, t)' => i \in usedIds
              /\ Awaited(i, t)' \/ i \in ClientDataTable'[t]
                   => Awaited(i, t) \/ i \in ClientDataTable[t]
  <2>1. Told(id, s)
    BY <1>2 DEF Told, h
  <2>2. Awaited(i, t)' => Awaited(i, t)
    BY <2>1, <1>7 DEF Awaited
  <2>3. i \in ClientDataTable'[t] => i \in ClientDataTable[t] \/ Awaited(i, t)
    BY <2>1, <1>5 DEF Awaited
  <2> QED
    BY <2>2, <2>3, <1>7 DEF Trace, ProxyCore, PlayersDiffer
<1>11. ASSUME NEW n \in PlayerNames, NEW i, Known(n), player[n].player_id = i
       PROVE  SameTraces(i) \/ OneTransfer(n)'
  <2>1. i \in PlayerIds
    BY <1>11 DEF ProxyCore, PlayersDiffer, ProxyTyped
  <2>2. CASE i # id
    BY <2>1, <2>2, <1>9 DEF SameTraces
  <2>3. CASE i = id
    <3> SUFFICES ASSUME i \notin again \union early
                 PROVE  Redirected(n)' /\ \A t \in SlaveServers : OnServer(n, i, t)'
      BY <1>1, <1>11 DEF OneTransfer, SlaveOnly, history
    <3>1. \A t \in SlaveServers : OnServer(n, i, t)
      BY <1>11 DEF ProxyCore, OneTransfer
    <3>2. Told(id, s)
      BY <1>2 DEF Told, h
    <3>3. BeingSent(n, s) /\ player[n].sao = "there" /\ player[n].peer \notin SessionsStatus
      BY <2>3, <3>1, <3>2 DEF OnServer, Awaited
    <3>4. /\ player' = player /\ SessionsStatus' = SessionsStatus
          /\ IsOnline(n)' <=> IsOnline(n)
          /\ BeingSent(n, s)' <=> BeingSent(n, s)
      BY <1>1 DEF SlaveOnly, sessions, IsOnline, BeingSent, Known
    <3>5. Redirected(n)'
      BY <3>3, <3>4 DEF Redirected
    <3>6. SameSession(n)
      BY <1>1 DEF SameSession, SlaveOnly, sessions
    <3>7. ASSUME NEW t \in SlaveServers PROVE OnServer(n, i, t)'
      <4>1. CASE t # s
        BY <4>1, <3>1, <3>6, <2>1, <1>9, <1>11, OnServerFrame
      <4>2. CASE t = s
        <5>1. AwaitedOnce(i, s)' /\ (IsOnline(n)' => ~Recalled(i, s)')
          BY <2>1, <3>1, <3>4, <1>7, <1>8 DEF OnServer
        <5>2. BeingSent(n, s)' /\ player'[n].sao = "there" /\ player'[n].peer \notin SessionsStatus'
          BY <3>3, <3>4
        <5>3. i \in ClientDataTable'[s]
          BY <2>3, <1>5
        <5> QED
          BY <4>2, <5>1, <5>2, <5>3 DEF OnServer
      <4> QED
        BY <4>1, <4>2
    <3> QED
      BY <3>5, <3>7
  <2> QED
    BY <2>2, <2>3
<1> QED
  BY <1>1, <1>6, <1>10, <1>11, MessageStep_Inv DEF SlaveOnly

LEMMA GotDisconnect_Inv ==
  ASSUME ProxyCore, NEW s \in SlaveServers, handleCommand_GotDisconnect(s)
  PROVE  ProxyCore'
<1> PICK id : id = Head(toSlave[s]).id
  OBVIOUS
<1> DEFINE h == Message("disconnect", id)
<1>1. /\ toSlave' = Popped(toSlave, s) /\ toProxy' = toProxy
      /\ Next1(toSlave, s, "disconnect")
      /\ ClientDataTable' = [ClientDataTable EXCEPT ![s] = @ \ {id}]
      /\ SlaveOnly /\ sc_s' = sc_s
  BY DEF handleCommand_GotDisconnect, Popped, SlaveOnly
<1>2. /\ toSlave' \in [SlaveServers -> Seq(SlaveMessages)] /\ id \in PlayerIds
      /\ Contains(toSlave[s], h) /\ OneLess(toSlave, toSlave', s, h)
  BY <1>1, HeadOfSlave
<1> HIDE DEF h
<1>5. /\ ClientDataTable' \in [SlaveServers -> SUBSET PlayerIds]
      /\ \A t \in SlaveServers : \A i : i \in ClientDataTable'[t] <=>
           i \in ClientDataTable[t] /\ (t # s \/ i # id)
  BY <1>1, <1>2 DEF ProxyCore, ProxyTyped, ProxyTypeOK
<1>6. ProxyTyped'
  BY <1>1, <1>2, <1>5 DEF ProxyCore, ProxyTyped, ProxyTypeOK, SlaveOnly, sessions, history,
                          SlaveMessages
<1>7. ASSUME NEW i \in PlayerIds, NEW t \in SlaveServers
      PROVE  /\ Counting(i, t)' <=> Counting(i, t)
             /\ Told(i, t)' <=> Told(i, t)
             /\ HasAnswered(i, t)' <=> HasAnswered(i, t)
             /\ Recalled(i, t)' \/ (t = s /\ i = id) <=> Recalled(i, t)
             /\ Kicked(i, t)' <=> Kicked(i, t)
  <2>1. /\ Counting(i, t)' <=> Counting(i, t)
        /\ HasAnswered(i, t)' <=> HasAnswered(i, t)
        /\ Kicked(i, t)' <=> Kicked(i, t)
    BY <1>1 DEF Counting, HasAnswered, Kicked
  <2>2. h # Message("connect", i) /\ (h = Message("disconnect", i) <=> i = id)
    BY DEF h, Message
  <2>3. /\ Told(i, t)' <=> Told(i, t)
        /\ Recalled(i, t)' \/ (t = s /\ i = id) <=> Recalled(i, t)
    BY <1>2, <2>2 DEF OneLess, Told, Recalled
  <2> QED
    BY <2>1, <2>3
<1>8. ASSUME NEW i \in PlayerIds, NEW t \in SlaveServers, AwaitedOnce(i, t)
      PROVE  AwaitedOnce(i, t)'
  <2>1. OnceIn(sc_s, Countdown(i, t))' /\ OnceIn(toProxy[t], Message("delete SAO", i))'
    BY <1>1, <1>8 DEF AwaitedOnce
  <2>2. OnceIn(toSlave[t], Message("connect", i))'
    BY <1>2, <1>8, Zenon DEF OneLess, AwaitedOnce
  <2> QED
    BY <2>1, <2>2, <1>7, <1>8 DEF AwaitedOnce
<1>9. ASSUME NEW i \in PlayerIds, NEW t \in SlaveServers, i # id \/ t # s
      PROVE  SameAt(i, t)
  BY <1>5, <1>7, <1>8, <1>9 DEF SameAt
<1>10. ASSUME NEW t \in SlaveServers, NEW i \in PlayerIds
       PROVE  /\ Trace(i, t)' => i \in usedIds
              /\ Awaited(i, t)' \/ i \in ClientDataTable'[t]
                   => Awaited(i, t) \/ i \in ClientDataTable[t]
  BY <1>5, <1>7 DEF Awaited, Trace, ProxyCore, PlayersDiffer
<1>11. ASSUME NEW n \in PlayerNames, NEW i, Known(n), player[n].player_id = i
       PROVE  SameTraces(i) \/ OneTransfer(n)'
  <2>1. i \in PlayerIds
    BY <1>11 DEF ProxyCore, PlayersDiffer, ProxyTyped
  <2>2. CASE i # id
    BY <2>1, <2>2, <1>9 DEF SameTraces
  <2>3. CASE i = id
    <3> SUFFICES ASSUME i \notin again \union early
                 PROVE  Redirected(n)' /\ \A t \in SlaveServers : OnServer(n, i, t)'
      BY <1>1, <1>11 DEF OneTransfer, SlaveOnly, history
    <3>1. \A t \in SlaveServers : OnServer(n, i, t)
      BY <1>11 DEF ProxyCore, OneTransfer
    <3>2. Recalled(id, s)
      BY <1>2 DEF Recalled, h
    <3>3. ~IsOnline(n)
      BY <2>3, <3>1, <3>2 DEF OnServer
    <3>4. player' = player /\ ~IsOnline(n)'
      BY <3>3, <1>1 DEF SlaveOnly, sessions, IsOnline, Known
    <3>5. Redirected(n)'
      BY <3>4 DEF Redirected
    <3>6. SameSession(n)
      BY <1>1 DEF SameSession, SlaveOnly, sessions
    <3>7. ASSUME NEW t \in SlaveServers PROVE OnServer(n, i, t)'
      <4>1. CASE t # s
        BY <4>1, <3>1, <3>6, <2>1, <1>9, <1>11, OnServerFrame
      <4>2. CASE t = s
        <5>1. AwaitedOnce(i, s)'
          BY <2>1, <3>1, <1>8 DEF OnServer
        <5>2. ~Awaited(i, s)
          BY <3>1, <3>3 DEF OnServer, BeingSent
        <5>3. ~Awaited(i, s)' /\ i \notin ClientDataTable'[s]
          BY <5>2, <2>1, <2>3, <1>5, <1>7 DEF Awaited
        <5> QED
          BY <4>2, <5>1, <5>3, <3>4 DEF OnServer, Awaited
      <4> QED
        BY <4>1, <4>2
    <3> QED
      BY <3>5, <3>7
  <2> QED
    BY <2>2, <2>3
<1> QED
  BY <1>1, <1>6, <1>10, <1>11, MessageStep_Inv DEF SlaveOnly

LEMMA ReturnToProxy_Inv ==
  ASSUME ProxyCore, NEW s \in SlaveServers, ReturnToProxy(s)
  PROVE  ProxyCore'
<1>0. CASE Crashes("fatal")
  BY <1>0, ProxyCoreFrame DEF Crashes
<1> SUFFICES ASSUME ~Crashes("fatal") PROVE ProxyCore'
  BY <1>0
<1> PICK id : id = Head(toProxy[s]).id
  OBVIOUS
<1> DEFINE h == Message("kick", id)
<1>1. /\ toProxy' = Popped(toProxy, s) /\ toSlave' = toSlave
      /\ Next1(toProxy, s, "kick")
      /\ ClientDataTable' = ClientDataTable
      /\ SlaveOnly /\ sc_s' = sc_s
  BY DEF ReturnToProxy, Popped, SlaveOnly, Received
<1>2. /\ toProxy' \in [SlaveServers -> Seq(ProxyMessages)] /\ id \in PlayerIds
      /\ OneLess(toProxy, toProxy', s, h)
  BY <1>1, HeadOfProxy
<1> HIDE DEF h
<1>6. ProxyTyped'
  BY <1>1, <1>2 DEF ProxyCore, ProxyTyped, ProxyTypeOK, SlaveOnly, sessions, history,
                    ProxyMessages
<1>7. ASSUME NEW i \in PlayerIds, NEW t \in SlaveServers
      PROVE  /\ Counting(i, t)' <=> Counting(i, t)
             /\ Told(i, t)' <=> Told(i, t)
             /\ HasAnswered(i, t)' <=> HasAnswered(i, t)
             /\ Recalled(i, t)' <=> Recalled(i, t)
             /\ Kicked(i, t)' => Kicked(i, t)
  <2>1. /\ Counting(i, t)' <=> Counting(i, t)
        /\ Told(i, t)' <=> Told(i, t)
        /\ Recalled(i, t)' <=> Recalled(i, t)
    BY <1>1 DEF Counting, Told, Recalled
  <2>2. h # Message("delete SAO", i)
    BY DEF h, Message
  <2>3. /\ HasAnswered(i, t)' <=> HasAnswered(i, t)
        /\ Kicked(i, t)' => Kicked(i, t)
    BY <1>2, <2>2 DEF OneLess, HasAnswered, Kicked
  <2> QED
    BY <2>1, <2>3
<1>8. ASSUME NEW i \in PlayerIds, NEW t \in SlaveServers, AwaitedOnce(i, t)
      PROVE  AwaitedOnce(i, t)'
  <2>1. OnceIn(sc_s, Countdown(i, t))' /\ OnceIn(toSlave[t], Message("connect", i))'
    BY <1>1, <1>8 DEF AwaitedOnce
  <2>2. OnceIn(toProxy[t], Message("delete SAO", i))'
    BY <1>2, <1>8, Zenon DEF OneLess, AwaitedOnce
  <2> QED
    BY <2>1, <2>2, <1>7, <1>8 DEF AwaitedOnce
<1>9. \A i \in PlayerIds : SameTraces(i)
  BY <1>1, <1>7, <1>8 DEF SameAt, SameTraces
<1>10. ASSUME NEW t \in SlaveServers, NEW i \in PlayerIds
       PROVE  /\ Trace(i, t)' => i \in usedIds
              /\ Awaited(i, t)' \/ i \in ClientDataTable'[t]
                   => Awaited(i, t) \/ i \in ClientDataTable[t]
  BY <1>1, <1>7 DEF Awaited, Trace, ProxyCore, PlayersDiffer
<1>11. \A n \in PlayerNames : \A i : Known(n) /\ player[n].player_id = i => SameTraces(i)
  BY <1>9 DEF ProxyCore, PlayersDiffer, ProxyTyped
<1> QED
  BY <1>1, <1>6, <1>10, <1>11, MessageStep_Inv DEF SlaveOnly

(* A step that is about one player, who stays known: what it must show.    *)
LEMMA PlayerStep_Inv ==
  ASSUME ProxyCore, ProxyTyped', NEW n \in PlayerNames, Known(n), Known(n)',
         NEW id, NEW peer, player[n].player_id = id, player[n].peer = peer,
         player'[n].player_id = id, player'[n].peer = peer,
         \A m \in PlayerNames \ {n} : player'[m] = player[m],
         \A e \in PeerIds : online'[e] = online[e] \/ (e = peer /\ online'[e] = Nobody),
         \A e \in PeerIds \ {peer} :
           /\ e \in SessionsStatus' <=> e \in SessionsStatus
           /\ PlayerInEnvironmentToServer'[e] = PlayerInEnvironmentToServer[e]
           /\ Contains(PlayersToInitialize', e) => Contains(PlayersToInitialize, e),
         UNCHANGED <<usedPeers, usedIds>>,
         again \subseteq again', early \subseteq early', early' \subseteq early \union {id},
         \A i \in PlayerIds \ {id} : SameTraces(i) /\ \A s \in SlaveServers :
           Kicked(i, s)' => Kicked(i, s),
         player[n].to_other_server => player'[n].to_other_server,
         \A s \in SlaveServers :
           Awaited(id, s)' \/ id \in ClientDataTable'[s] => player'[n].to_other_server,
         Remembered(n)', OneTransfer(n)'
  PROVE  ProxyCore'
<1>0. ProxyTyped /\ PlayersDiffer /\ TravellersAreKnown /\ id \in usedIds /\ peer \in usedPeers
      /\ id \in PlayerIds /\ peer \in PeerIds /\ n # Nobody
  <2>1. ProxyTyped /\ PlayersDiffer /\ TravellersAreKnown /\ id \in usedIds /\ peer \in usedPeers
    BY DEF ProxyCore, PlayersDiffer
  <2>2. usedIds \subseteq PlayerIds /\ usedPeers \subseteq PeerIds
    BY <2>1 DEF ProxyTyped, ProxyTypeOK
  <2> QED
    BY <2>1, <2>2, ProxyAssumption
<1>1. /\ \A m \in PlayerNames : /\ Known(m)' <=> Known(m)
                                /\ Known(m) => player'[m].peer = player[m].peer
                                /\ Known(m) => player'[m].player_id = player[m].player_id
  BY DEF Known
<1>2. ASSUME NEW m \in PlayerNames, m # n, Known(m)
      PROVE  /\ player[m].peer # peer /\ player[m].player_id # id
             /\ player[m].peer \in PeerIds /\ player[m].player_id \in PlayerIds
             /\ player'[m] = player[m]
             /\ online'[player[m].peer] = m <=> online[player[m].peer] = m
             /\ IsOnline(m)' <=> IsOnline(m)
  <2>1. player[m].peer # peer /\ player[m].player_id # id
    BY <1>2, <1>0 DEF PlayersDiffer
  <2>2. player[m].peer \in PeerIds /\ player[m].player_id \in PlayerIds
    BY <1>2, <1>0 DEF PlayersDiffer, ProxyTyped, ProxyTypeOK
  <2>3. online'[player[m].peer] = online[player[m].peer] /\ player'[m] = player[m]
    BY <1>2, <2>1, <2>2
  <2> QED
    BY <1>2, <2>1, <2>2, <2>3 DEF IsOnline, Known
<1>3. PlayersDiffer'
  <2>1. /\ \A m \in PlayerNames : Known(m)' =>
             player'[m].peer \in usedPeers' /\ player'[m].player_id \in usedIds'
        /\ \A l, m \in PlayerNames : Known(l)' /\ Known(m)' =>
             /\ player'[l].peer = player'[m].peer => l = m
             /\ player'[l].player_id = player'[m].player_id => l = m
    BY <1>0, <1>1 DEF PlayersDiffer
  <2>2. ASSUME NEW e \in PeerIds, online'[e] # Nobody
        PROVE  online'[e] \in PlayerNames /\ Known(online[e])' /\ player'[online'[e]].peer = e
    <3>1. online'[e] = online[e]
      BY <2>2
    <3>2. online[e] \in PlayerNames /\ Known(online[e]) /\ player[online[e]].peer = e
      BY <2>2, <3>1, <1>0 DEF PlayersDiffer
    <3>3. \A m \in PlayerNames : m = online[e] =>
            player'[m] # NoPlayer /\ player'[m].peer = e
      BY <3>2, <1>1 DEF Known
    <3> QED
      BY <3>1, <3>2, <3>3 DEF Known
  <2>3. ASSUME NEW e \in SessionsStatus' PROVE e \in usedPeers'
    <3>1. e \in PeerIds
      BY DEF ProxyTyped, ProxyTypeOK
    <3> QED
      BY <3>1, <1>0 DEF PlayersDiffer
  <2>4. ASSUME NEW e \in PeerIds, Contains(PlayersToInitialize', e) PROVE e \in usedPeers'
    BY <2>4, <1>0 DEF PlayersDiffer
  <2>5. ASSUME NEW s \in SlaveServers, NEW i \in PlayerIds, Trace(i, s)' PROVE i \in usedIds'
    <3>1. CASE i = id
      BY <3>1, <1>0
    <3>2. CASE i # id
      <4>1. SameAt(i, s) /\ (Kicked(i, s)' => Kicked(i, s))
        BY <3>2 DEF SameTraces
      <4>2. Trace(i, s)
        BY <4>1, <2>5 DEF SameAt, Trace, Awaited
      <4> QED
        BY <4>2, <1>0 DEF PlayersDiffer
    <3> QED
      BY <3>1, <3>2
  <2> QED
    BY <2>1, <2>2, <2>3, <2>4, <2>5 DEF PlayersDiffer
<1>4. TravellersAreKnown'
  <2>1. ASSUME NEW s \in SlaveServers, NEW i \in PlayerIds,
               Awaited(i, s)' \/ i \in ClientDataTable'[s]
        PROVE  \E m \in PlayerNames :
                 Known(m)' /\ player'[m].player_id = i /\ player'[m].to_other_server
    <3>1. CASE i = id
      BY <3>1, <2>1
    <3>2. CASE i # id
      <4>1. SameAt(i, s)
        BY <3>2 DEF SameTraces
      <4>2. Awaited(i, s) \/ i \in ClientDataTable[s]
        BY <4>1, <2>1 DEF SameAt, Awaited
      <4>3. PICK m \in PlayerNames :
              Known(m) /\ player[m].player_id = i /\ player[m].to_other_server
        BY <4>2, <1>0 DEF TravellersAreKnown
      <4>4. m # n /\ player'[m] = player[m] /\ Known(m)'
        BY <4>3, <3>2, <1>1
      <4> QED
        BY <4>3, <4>4
    <3> QED
      BY <3>1, <3>2
  <2>2. ASSUME NEW m \in PlayerNames, Known(m)' PROVE Remembered(m)'
    <3>1. CASE m # n
      <4>1. Known(m) /\ Remembered(m)
        BY <2>2, <1>0, <1>1 DEF TravellersAreKnown
      <4>2. /\ player[m].peer \in PeerIds \ {peer} /\ player[m].player_id # id
            /\ player'[m] = player[m] /\ (IsOnline(m)' <=> IsOnline(m))
        BY <4>1, <3>1, <1>2
      <4> QED
        BY <4>1, <4>2 DEF Remembered
    <3> QED
      BY <3>1
  <2> QED
    BY <2>1, <2>2 DEF TravellersAreKnown
<1>5. ASSUME NEW m \in PlayerNames PROVE OneTransfer(m)'
  <2>1. CASE m # n
    <3>1. OneTransfer(m)
      BY DEF ProxyCore
    <3>2. SameSession(m)
      BY <2>1, <1>2 DEF SameSession
    <3>3. \A i : Known(m) /\ player[m].player_id = i => SameTraces(i)
      BY <2>1, <1>2
    <3> QED
      BY <3>1, <3>2, <3>3, OneTransferFrame
  <2> QED
    BY <2>1
<1> QED
  BY <1>3, <1>4, <1>5 DEF ProxyCore

(* Whoever is awaited by a slave, or is there, was sent.                   *)
LEMMA AwaitedWasSent ==
  ASSUME ProxyCore, NEW n \in PlayerNames, Known(n), NEW s \in SlaveServers,
         NEW id, player[n].player_id = id, Awaited(id, s) \/ id \in ClientDataTable[s]
  PROVE  player[n].to_other_server
<1>1. id \in PlayerIds
  BY DEF ProxyCore, ProxyTyped, PlayersDiffer
<1>2. PICK m \in PlayerNames :
        Known(m) /\ player[m].player_id = id /\ player[m].to_other_server
  BY <1>1 DEF ProxyCore, TravellersAreKnown
<1>3. m = n
  BY <1>2 DEF ProxyCore, PlayersDiffer
<1> QED
  BY <1>2, <1>3

LEMMA ForgetPlayer_Inv ==
  ASSUME ProxyCore, NEW n \in PlayerNames, Known(n), ~player[n].to_other_server,
         player[n].sao = "marked", player' = [player EXCEPT ![n] = NoPlayer],
         UNCHANGED <<sessions, sc_s, PlayersToInitialize, proxyNet, crash, history>>
  PROVE  ProxyCore'
<1>0. ProxyTyped /\ PlayersDiffer /\ TravellersAreKnown
  BY DEF ProxyCore
<1>1. /\ SameNet /\ UNCHANGED <<online, SessionsStatus, PlayerInEnvironmentToServer,
                                PlayersToInitialize, crash, usedPeers, usedIds, again, early>>
  BY DEF SameNet, sessions, proxyNet, history
<1>2. /\ player'[n] = NoPlayer /\ ~Known(n)'
      /\ \A m \in PlayerNames : m # n =>
           /\ player'[m] = player[m]
           /\ Known(m)' <=> Known(m)
           /\ IsOnline(m)' <=> IsOnline(m)
  BY <1>0, <1>1 DEF ProxyTyped, ProxyTypeOK, Known, IsOnline
<1>3. NoPlayer \in [peer : PeerIds \union {0}, player_id : PlayerIds \union {0},
                    sao : {"there", "marked", "none"}, to_other_server : BOOLEAN,
                    IsApplied : BOOLEAN, ID : SlaveServers \union {MainServer}]
  BY DEF NoPlayer
<1>4. ProxyTyped'
  BY <1>0, <1>1, <1>3 DEF ProxyTyped, ProxyTypeOK, SameNet
<1>5. \A s \in SlaveServers, i \in PlayerIds :
        /\ Trace(i, s)' <=> Trace(i, s)
        /\ Awaited(i, s)' <=> Awaited(i, s)
        /\ i \in ClientDataTable'[s] <=> i \in ClientDataTable[s]
  BY <1>1 DEF SameNet, Trace, Awaited, Counting, Told, HasAnswered, Recalled, Kicked
<1>6. ~IsOnline(n)
  BY <1>0 DEF TravellersAreKnown, Remembered
<1>7. PlayersDiffer'
  <2>1. /\ \A m \in PlayerNames : Known(m)' =>
             player'[m].peer \in usedPeers' /\ player'[m].player_id \in usedIds'
        /\ \A l, m \in PlayerNames : Known(l)' /\ Known(m)' =>
             /\ player'[l].peer = player'[m].peer => l = m
             /\ player'[l].player_id = player'[m].player_id => l = m
    BY <1>0, <1>1, <1>2 DEF PlayersDiffer
  <2>2. ASSUME NEW e \in PeerIds, online'[e] # Nobody
        PROVE  online'[e] \in PlayerNames /\ Known(online[e])' /\ player'[online'[e]].peer = e
    <3>1. /\ online'[e] = online[e]
          /\ online[e] \in PlayerNames /\ Known(online[e]) /\ player[online[e]].peer = e
      BY <2>2, <1>0, <1>1 DEF PlayersDiffer
    <3>2. online[e] # n
      BY <3>1, <1>6 DEF IsOnline
    <3>3. player'[online[e]] = player[online[e]]
      BY <3>1, <3>2, <1>2
    <3> QED
      BY <3>1, <3>3 DEF Known
  <2> QED
    BY <2>1, <2>2, <1>0, <1>1, <1>5 DEF PlayersDiffer
<1>8. TravellersAreKnown'
  <2>1. ASSUME NEW s \in SlaveServers, NEW i \in PlayerIds,
               Awaited(i, s)' \/ i \in ClientDataTable'[s]
        PROVE  \E m \in PlayerNames :
                 Known(m)' /\ player'[m].player_id = i /\ player'[m].to_other_server
    <3>1. PICK m \in PlayerNames :
            Known(m) /\ player[m].player_id = i /\ player[m].to_other_server
      BY <2>1, <1>0, <1>5 DEF TravellersAreKnown
    <3> QED
      BY <3>1, <1>2
  <2>2. ASSUME NEW m \in PlayerNames, Known(m)' PROVE Remembered(m)'
    <3>1. m # n /\ Remembered(m)
      BY <2>2, <1>0, <1>2 DEF TravellersAreKnown
    <3> QED
      BY <3>1, <1>1, <1>2 DEF Remembered
  <2> QED
    BY <2>1, <2>2 DEF TravellersAreKnown
<1>9. ASSUME NEW m \in PlayerNames PROVE OneTransfer(m)'
  <2>1. CASE m = n
    BY <2>1, <1>2 DEF OneTransfer
  <2>2. CASE m # n
    <3>1. OneTransfer(m) /\ SameSession(m)
      BY <2>2, <1>1, <1>2 DEF ProxyCore, SameSession
    <3>2. \A i : Known(m) /\ player[m].player_id = i => SameTraces(i)
      BY <1>0, <1>1, SameNetTraces DEF PlayersDiffer, ProxyTyped
    <3> QED
      BY <3>1, <3>2, <1>1, OneTransferFrame
  <2> QED
    BY <2>1, <2>2
<1> QED
  BY <1>4, <1>7, <1>8, <1>9 DEF ProxyCore

PlayerRecords ==
  [peer : PeerIds \union {0}, player_id : PlayerIds \union {0}, sao : {"there", "marked", "none"},
   to_other_server : BOOLEAN, IsApplied : BOOLEAN, ID : SlaveServers \union {MainServer}]

LEMMA PlayerUpdate ==
  ASSUME ProxyTyped, NEW n \in PlayerNames, NEW r, player' = [player EXCEPT ![n] = r],
         player'[n] \in PlayerRecords
  PROVE  player' \in [PlayerNames -> PlayerRecords]
  BY DEF ProxyTyped, ProxyTypeOK, PlayerRecords

LEMMA removeRemovedObjects_Inv ==
  ASSUME ProxyCore, NEW n \in PlayerNames, removeRemovedObjects(n)
  PROVE  ProxyCore'
<1>0. ProxyTyped /\ PlayersDiffer /\ TravellersAreKnown
  BY DEF ProxyCore
<1>1. Known(n) /\ player[n].sao = "marked"
  BY DEF removeRemovedObjects, Known, NoPlayer
<1>2. CASE ~player[n].to_other_server
  <2>1. player' = [player EXCEPT ![n] = NoPlayer]
    BY <1>2, <1>0 DEF removeRemovedObjects, ProxyTyped, ProxyTypeOK
  <2> QED
    BY <2>1, <1>1, <1>2, ForgetPlayer_Inv DEF removeRemovedObjects
<1>3. CASE player[n].to_other_server
  <2> PICK id, peer : id = player[n].player_id /\ peer = player[n].peer
    OBVIOUS
  <2>1. player' = [player EXCEPT ![n] = [@ EXCEPT !.sao = "none"]]
    BY <1>3, <1>0 DEF removeRemovedObjects, ProxyTyped, ProxyTypeOK
  <2>2. /\ SameNet /\ UNCHANGED <<online, SessionsStatus, PlayerInEnvironmentToServer,
                                  PlayersToInitialize, crash, usedPeers, usedIds, again, early>>
    BY DEF removeRemovedObjects, SameNet, sessions, proxyNet, history
  <2>3. /\ player'[n] = [player[n] EXCEPT !.sao = "none"]
        /\ \A m \in PlayerNames \ {n} : player'[m] = player[m]
    BY <2>1, <1>0 DEF ProxyTyped, ProxyTypeOK
  <2>4. /\ player'[n].peer = peer /\ player'[n].player_id = id /\ player'[n].sao = "none"
        /\ player'[n].to_other_server = player[n].to_other_server
        /\ player'[n].IsApplied = player[n].IsApplied /\ player'[n].ID = player[n].ID
        /\ player'[n] \in PlayerRecords
    <3>1. player[n] \in PlayerRecords
      BY <1>0 DEF ProxyTyped, ProxyTypeOK, PlayerRecords
    <3> QED
      BY <2>3, <3>1 DEF PlayerRecords
  <2>5. Known(n)'
    <3>1. player'[n].to_other_server # NoPlayer.to_other_server
      BY <2>4, <1>3 DEF NoPlayer
    <3> QED
      BY <3>1 DEF Known
  <2>6. IsOnline(n)' <=> IsOnline(n)
    BY <2>2, <2>4, <2>5, <1>1 DEF IsOnline
  <2>7. ProxyTyped'
    <3>1. player' \in [PlayerNames -> PlayerRecords]
      BY <2>1, <2>4, <1>0, PlayerUpdate DEF ProxyTyped
    <3> QED
      BY <3>1, <2>2, <1>0 DEF ProxyTyped, ProxyTypeOK, SameNet, PlayerRecords
  <2>8. \A i \in PlayerIds : SameTraces(i) /\ \A s \in SlaveServers :
          (Kicked(i, s)' => Kicked(i, s)) /\ (Awaited(i, s)' <=> Awaited(i, s))
    BY <2>2, SameNetTraces DEF SameNet, Kicked, Awaited, Counting, Told, HasAnswered
  <2>9. Remembered(n)'
    BY <2>2, <2>4, <2>6, <1>0, <1>1, <1>3 DEF TravellersAreKnown, Remembered
  <2>10. OneTransfer(n)'
    <3> SUFFICES ASSUME id \notin again \union early
                 PROVE  Redirected(n)' /\ \A t \in SlaveServers : OnServer(n, id, t)'
      BY <2>2, <2>4 DEF OneTransfer
    <3>1. Redirected(n) /\ \A t \in SlaveServers : OnServer(n, id, t)
      BY <1>1 DEF ProxyCore, OneTransfer
    <3>2. \A t \in SlaveServers : BeingSent(n, t)' <=> BeingSent(n, t)
      BY <2>4, <2>6 DEF BeingSent
    <3>3. Redirected(n)'
      BY <2>2, <2>4, <2>6, <3>1, <3>2 DEF Redirected, SameNet
    <3>4. ASSUME NEW t \in SlaveServers PROVE OnServer(n, id, t)'
      <4>1. OnServer(n, id, t) /\ id \in PlayerIds
        BY <3>1, <1>0, <1>1 DEF PlayersDiffer, ProxyTyped
      <4>2. ~Awaited(id, t)
        BY <4>1, <1>1 DEF OnServer
      <4>3. SameAt(id, t) /\ ~Awaited(id, t)'
        BY <4>1, <4>2, <2>8 DEF SameTraces
      <4> QED
        BY <4>1, <4>3, <3>2, <2>6 DEF OnServer, SameAt, Awaited
    <3> QED
      BY <3>3, <3>4
  <2>11. \A m \in PlayerNames \ {n} : player'[m] = player[m]
    BY <2>3
  <2> QED
    BY <1>1, <1>3, <2>2, <2>4, <2>5, <2>7, <2>8, <2>9, <2>10, <2>11, PlayerStep_Inv
<1> QED
  BY <1>2, <1>3

LEMMA InitializePlayer_Inv ==
  ASSUME ProxyCore, InitializePlayer
  PROVE  ProxyCore'
<1>0. ProxyTyped /\ PlayersDiffer /\ TravellersAreKnown
  BY DEF ProxyCore
<1> PICK peer : peer = Head(PlayersToInitialize)
  OBVIOUS
<1> DEFINE here == {n \in WithPeer(peer) : player[n].sao # "none"}
<1>1. CASE here = {}
  BY <1>1, ProxyCoreFrame DEF InitializePlayer, Crashes
<1>2. CASE here # {}
  <2> PICK n \in here : TRUE
    BY <1>2
  <2>1. n \in PlayerNames /\ Known(n) /\ player[n].peer = peer /\ player[n].sao # "none"
    BY DEF WithPeer
  <2>2. here = {n}
    BY <1>0, <2>1 DEF WithPeer, PlayersDiffer
  <2>3. /\ player' = [m \in PlayerNames |-> IF m \in here
                                            THEN [player[m] EXCEPT !.IsApplied = FALSE]
                                            ELSE player[m]]
        /\ SessionsStatus' = SessionsStatus \ {peer}
        /\ PlayerInEnvironmentToServer' = [PlayerInEnvironmentToServer EXCEPT ![peer] = MainServer]
        /\ PlayersToInitialize' = Tail(PlayersToInitialize) /\ PlayersToInitialize # <<>>
        /\ SameNet /\ UNCHANGED <<online, crash, usedPeers, usedIds, again, early>>
    BY <1>2 DEF InitializePlayer, SameNet, proxyNet, history
  <2> HIDE DEF here
  <2> PICK id : id = player[n].player_id
    OBVIOUS
  <2>4. /\ player'[n] = [player[n] EXCEPT !.IsApplied = FALSE]
        /\ \A m \in PlayerNames \ {n} : player'[m] = player[m]
    BY <2>1, <2>2, <2>3
  <2>5. /\ player'[n].peer = peer /\ player'[n].player_id = id /\ player'[n].IsApplied = FALSE
        /\ player'[n].to_other_server = player[n].to_other_server
        /\ player'[n].sao = player[n].sao
        /\ player'[n] \in PlayerRecords
    BY <2>1, <2>4, <1>0 DEF ProxyTyped, ProxyTypeOK, PlayerRecords
  <2>6. Known(n)' /\ (IsOnline(n)' <=> IsOnline(n))
    BY <2>1, <2>3, <2>5 DEF Known, NoPlayer, IsOnline
  <2>7. /\ Tail(PlayersToInitialize) \in Seq(PeerIds) /\ peer \in PeerIds
        /\ Contains(PlayersToInitialize, peer)
        /\ \A e : Contains(Tail(PlayersToInitialize), e) => Contains(PlayersToInitialize, e)
    BY <1>0, <2>3, OnTail DEF ProxyTyped
  <2>8. ProxyTyped'
    <3>1. player' \in [PlayerNames -> PlayerRecords]
      <4>1. \A m \in PlayerNames : player'[m] = player[m] \/ m = n
        BY <2>4
      <4>2. player' = [m \in PlayerNames |-> player'[m]]
        BY <2>3
      <4> QED
        BY <4>1, <4>2, <2>5, <1>0 DEF ProxyTyped, ProxyTypeOK, PlayerRecords
    <3> QED
      BY <3>1, <2>3, <2>7, <1>0 DEF ProxyTyped, ProxyTypeOK, SameNet, PlayerRecords
  <2>9. \A i \in PlayerIds : SameTraces(i) /\ \A s \in SlaveServers :
          (Kicked(i, s)' => Kicked(i, s)) /\ (Awaited(i, s)' <=> Awaited(i, s))
    BY <2>3, SameNetTraces DEF SameNet, Kicked, Awaited, Counting, Told, HasAnswered
  <2>10. id \in again
    BY <2>1, <2>7, <1>0 DEF TravellersAreKnown, Remembered
  <2>11. Remembered(n)'
    BY <2>1, <2>3, <2>5, <2>6, <2>7, <2>10, <1>0 DEF TravellersAreKnown, Remembered
  <2>12. OneTransfer(n)'
    BY <2>3, <2>5, <2>10 DEF OneTransfer
  <2>13. \A s \in SlaveServers :
           Awaited(id, s)' \/ id \in ClientDataTable'[s] => player'[n].to_other_server
    <3>1. id \in PlayerIds
      BY <1>0, <2>1 DEF PlayersDiffer, ProxyTyped
    <3> QED
      BY <3>1, <2>1, <2>3, <2>5, <2>9, AwaitedWasSent DEF SameNet
  <2>14. /\ \A e \in PeerIds : online'[e] = online[e] \/ (e = peer /\ online'[e] = Nobody)
         /\ \A e \in PeerIds \ {peer} :
              /\ e \in SessionsStatus' <=> e \in SessionsStatus
              /\ PlayerInEnvironmentToServer'[e] = PlayerInEnvironmentToServer[e]
              /\ Contains(PlayersToInitialize', e) => Contains(PlayersToInitialize, e)
    BY <2>3, <2>7, <1>0 DEF ProxyTyped, ProxyTypeOK
  <2> QED
    BY <2>1, <2>3, <2>4, <2>5, <2>6, <2>8, <2>9, <2>11, <2>12, <2>13, <2>14, PlayerStep_Inv
<1> QED
  BY <1>1, <1>2

LEMMA OnlyDeleteSAO_Inv ==
  ASSUME ProxyCore, NEW s \in SlaveServers, OnlyDeleteSAO(s)
  PROVE  ProxyCore'
<1>0. ProxyTyped /\ PlayersDiffer /\ TravellersAreKnown
  BY DEF ProxyCore
<1> PICK id : id = Head(toProxy[s]).id
  OBVIOUS
<1>1. CASE Crashes("wild") \/ Crashes("assert")
  BY <1>1, ProxyCoreFrame DEF Crashes
<1>2. CASE ~Crashes("wild") /\ ~Crashes("assert")
  <2> PICK n, peer :
        /\ n \in WithId(id) /\ peer = player[n].peer /\ player[n].sao # "none"
        /\ player' = [player EXCEPT ![n].sao = "marked"]
        /\ SessionsStatus' = SessionsStatus \union {peer}
        /\ PlayerInEnvironmentToServer' = [PlayerInEnvironmentToServer EXCEPT ![peer] = s]
    <3> DEFINE m == CHOOSE l \in WithId(id) : TRUE
    <3>1. WithId(id) # {}
      BY <1>2 DEF OnlyDeleteSAO
    <3>2. m \in WithId(id)
      BY <3>1
    <3>3. /\ player[m].sao # "none"
          /\ player' = [player EXCEPT ![m].sao = "marked"]
          /\ SessionsStatus' = SessionsStatus \union {player[m].peer}
          /\ PlayerInEnvironmentToServer' =
               [PlayerInEnvironmentToServer EXCEPT ![player[m].peer] = s]
      BY <1>2 DEF OnlyDeleteSAO
    <3> HIDE DEF m
    <3> QED
      BY <3>2, <3>3
  <2>1. /\ Next1(toProxy, s, "delete SAO")
        /\ toProxy' = Popped(toProxy, s) /\ toSlave' = toSlave /\ sc_s' = sc_s
        /\ ClientDataTable' = ClientDataTable /\ PlayersToInitialize' = PlayersToInitialize
        /\ UNCHANGED <<online, crash, usedPeers, usedIds, again, early>>
    BY <1>2 DEF OnlyDeleteSAO, Received, Popped, history
  <2>2. n \in PlayerNames /\ Known(n) /\ player[n].player_id = id
    BY DEF WithId
  <2> DEFINE h == Message("delete SAO", id)
  <2>3. /\ toProxy' \in [SlaveServers -> Seq(ProxyMessages)] /\ id \in PlayerIds
        /\ Contains(toProxy[s], h) /\ OneLess(toProxy, toProxy', s, h)
    BY <2>1, HeadOfProxy
  <2> HIDE DEF h
  <2>4. HasAnswered(id, s) /\ player[n].to_other_server
    BY <2>2, <2>3, AwaitedWasSent DEF HasAnswered, Awaited, h
  <2>5. peer \in PeerIds
    BY <2>2, <1>0 DEF PlayersDiffer, ProxyTyped, ProxyTypeOK
  <2>6. /\ player'[n] = [player[n] EXCEPT !.sao = "marked"]
        /\ \A m \in PlayerNames \ {n} : player'[m] = player[m]
        /\ player' = [player EXCEPT ![n] = [player[n] EXCEPT !.sao = "marked"]]
    BY <2>1, <2>2, <1>0 DEF ProxyTyped, ProxyTypeOK
  <2>7. /\ player'[n].peer = peer /\ player'[n].player_id = id /\ player'[n].sao = "marked"
        /\ player'[n].to_other_server = player[n].to_other_server
        /\ player'[n].IsApplied = player[n].IsApplied /\ player'[n].ID = player[n].ID
        /\ player'[n] \in PlayerRecords
    <3>1. player[n] \in PlayerRecords
      BY <1>0, <2>2 DEF ProxyTyped, ProxyTypeOK, PlayerRecords
    <3>2. /\ player'[n].peer = player[n].peer /\ player'[n].player_id = player[n].player_id
          /\ player'[n].sao = "marked"
          /\ player'[n].to_other_server = player[n].to_other_server
          /\ player'[n].IsApplied = player[n].IsApplied /\ player'[n].ID = player[n].ID
          /\ player'[n] \in PlayerRecords
      BY <2>6, <3>1 DEF PlayerRecords
    <3> QED
      BY <2>2, <3>2
  <2>8. Known(n)' /\ (IsOnline(n)' <=> IsOnline(n))
    <3>1. player'[n].sao # NoPlayer.sao
      BY <2>7 DEF NoPlayer
    <3> QED
      BY <3>1, <2>1, <2>2, <2>7 DEF Known, IsOnline
  <2>9. /\ SessionsStatus' = SessionsStatus \union {peer}
        /\ PlayerInEnvironmentToServer'[peer] = s
        /\ \A e \in PeerIds \ {peer} :
             PlayerInEnvironmentToServer'[e] = PlayerInEnvironmentToServer[e]
        /\ PlayerInEnvironmentToServer' \in [PeerIds -> SlaveServers \union {MainServer}]
    BY <2>1, <2>5, <1>0 DEF ProxyTyped, ProxyTypeOK
  <2>10. ProxyTyped'
    <3>1. player' \in [PlayerNames -> PlayerRecords]
      BY <2>2, <2>6, <2>7, <1>0, PlayerUpdate
    <3> QED
      BY <3>1, <2>1, <2>3, <2>5, <2>9, <1>0 DEF ProxyTyped, ProxyTypeOK, PlayerRecords,
                                                ProxyMessages
  <2>11. ASSUME NEW i \in PlayerIds, NEW t \in SlaveServers
         PROVE  /\ Counting(i, t)' <=> Counting(i, t)
                /\ Told(i, t)' <=> Told(i, t)
                /\ HasAnswered(i, t)' \/ (t = s /\ i = id) <=> HasAnswered(i, t)
                /\ Recalled(i, t)' <=> Recalled(i, t)
                /\ Kicked(i, t)' <=> Kicked(i, t)
    <3>1. /\ Counting(i, t)' <=> Counting(i, t)
          /\ Told(i, t)' <=> Told(i, t)
          /\ Recalled(i, t)' <=> Recalled(i, t)
      BY <2>1 DEF Counting, Told, Recalled
    <3>2. (h = Message("delete SAO", i) <=> i = id) /\ h # Message("kick", i)
      BY DEF h, Message
    <3>3. /\ HasAnswered(i, t)' \/ (t = s /\ i = id) <=> HasAnswered(i, t)
          /\ Kicked(i, t)' <=> Kicked(i, t)
      BY <2>3, <3>2 DEF OneLess, HasAnswered, Kicked
    <3> QED
      BY <3>1, <3>3
  <2>12. ASSUME NEW i \in PlayerIds, NEW t \in SlaveServers, AwaitedOnce(i, t)
         PROVE  AwaitedOnce(i, t)' /\ (t = s /\ i = id => ~HasAnswered(i, t)')
    <3>1. OnceIn(sc_s, Countdown(i, t))' /\ OnceIn(toSlave[t], Message("connect", i))'
      BY <2>1, <2>12 DEF AwaitedOnce
    <3>2. h = Message("delete SAO", i) <=> i = id
      BY DEF h, Message
    <3>3. /\ OnceIn(toProxy[t], Message("delete SAO", i))'
          /\ t = s /\ i = id => ~HasAnswered(i, t)'
      BY <2>3, <2>12, <3>2, Zenon DEF OneLess, AwaitedOnce, HasAnswered
    <3> QED
      BY <3>1, <3>3, <2>11, <2>12 DEF AwaitedOnce
  <2>13. \A i \in PlayerIds \ {id} : SameTraces(i) /\ \A t \in SlaveServers :
           Kicked(i, t)' => Kicked(i, t)
    BY <2>1, <2>11, <2>12 DEF SameTraces, SameAt
  <2>14. Remembered(n) /\ Remembered(n)'
    <3>1. Remembered(n)
      BY <1>0, <2>2 DEF TravellersAreKnown
    <3>2. /\ Contains(PlayersToInitialize', player'[n].peer) => player'[n].player_id \in again'
          /\ IsOnline(n)' => player'[n].player_id \notin early'
      <4>1. /\ Contains(PlayersToInitialize, peer) => id \in again
            /\ IsOnline(n) => id \notin early
        BY <3>1, <2>2 DEF Remembered
      <4>2. player'[n].peer = peer /\ player'[n].player_id = id
        BY <2>7
      <4>3. PlayersToInitialize' = PlayersToInitialize /\ again' = again /\ early' = early
        BY <2>1
      <4>4. IsOnline(n)' <=> IsOnline(n)
        BY <2>8
      <4>5. Contains(PlayersToInitialize', player'[n].peer) => player'[n].player_id \in again'
        <5>1. Contains(PlayersToInitialize', peer) => id \in again'
          BY <4>1, <4>3
        <5> QED
          BY <4>2, <5>1
      <4>6. IsOnline(n)' => player'[n].player_id \notin early'
        BY <4>1, <4>2, <4>3, <4>4
      <4> QED
        BY <4>5, <4>6
    <3>3. player'[n].to_other_server /\ player'[n].sao # "there"
      BY <2>4, <2>7
    <3> QED
      BY <3>1, <3>2, <3>3 DEF Remembered
  <2>15. OneTransfer(n)'
    <3> SUFFICES ASSUME id \notin again \union early
                 PROVE  Redirected(n)' /\ \A t \in SlaveServers : OnServer(n, id, t)'
      BY <2>1, <2>7 DEF OneTransfer
    <3>1. \A t \in SlaveServers : OnServer(n, id, t)
      BY <2>2 DEF ProxyCore, OneTransfer
    <3>2. BeingSent(n, s) /\ id \in ClientDataTable[s]
      BY <2>4, <3>1 DEF OnServer, Awaited
    <3>3. \A t \in SlaveServers : BeingSent(n, t)' <=> BeingSent(n, t)
      BY <2>7, <2>8 DEF BeingSent
    <3>4. Redirected(n)'
      BY <2>1, <2>7, <2>9, <3>2, <3>3 DEF Redirected
    <3>5. ASSUME NEW t \in SlaveServers PROVE OnServer(n, id, t)'
      <4>1. OnServer(n, id, t) /\ OnServer(n, id, s)
        BY <3>1
      <4>2. AwaitedOnce(id, t)'
        BY <4>1, <2>3, <2>12 DEF OnServer
      <4>3. ~Awaited(id, t)'
        <5>1. CASE t = s
          <6>1. ~HasAnswered(id, s)' /\ ~Counting(id, s) /\ ~Told(id, s)
            BY <4>1, <2>3, <2>4, <2>12 DEF OnServer, AwaitedOnce
          <6> QED
            BY <5>1, <6>1, <2>3, <2>11 DEF Awaited
        <5>2. CASE t # s
          <6>1. ~Awaited(id, t)
            BY <4>1, <5>2, <3>2 DEF OnServer, BeingSent
          <6> QED
            BY <5>2, <6>1, <2>3, <2>11 DEF Awaited
        <5> QED
          BY <5>1, <5>2
      <4>4. /\ id \in ClientDataTable'[t] => BeingSent(n, t)' \/ Recalled(id, t)'
            /\ IsOnline(n)' => ~Recalled(id, t)'
        BY <4>1, <2>1, <2>3, <2>8, <2>11, <3>3 DEF OnServer
      <4> QED
        BY <4>2, <4>3, <4>4 DEF OnServer, Awaited
    <3> QED
      BY <3>4, <3>5
  <2>16. player'[n].to_other_server
    BY <2>4, <2>7
  <2>17. /\ \A e \in PeerIds : online'[e] = online[e] \/ (e = peer /\ online'[e] = Nobody)
         /\ \A e \in PeerIds \ {peer} :
              /\ e \in SessionsStatus' <=> e \in SessionsStatus
              /\ PlayerInEnvironmentToServer'[e] = PlayerInEnvironmentToServer[e]
              /\ Contains(PlayersToInitialize', e) => Contains(PlayersToInitialize, e)
    BY <2>1, <2>9
  <2>18. /\ UNCHANGED <<usedPeers, usedIds>> /\ again \subseteq again'
         /\ early \subseteq early' /\ early' \subseteq early \union {id}
         /\ player[n].peer = peer
    BY <2>1
  <2> QED
    BY <2>2, <2>6, <2>7, <2>8, <2>10, <2>13, <2>14, <2>15, <2>16, <2>17, <2>18, PlayerStep_Inv
<1> QED
  BY <1>1, <1>2

LEMMA CountdownEnds_Inv ==
  ASSUME ProxyCore, CountdownEnds
  PROVE  ProxyCore'
<1>0. ProxyTyped /\ PlayersDiffer /\ TravellersAreKnown
  BY DEF ProxyCore
<1> PICK id, s : id = Head(sc_s).id /\ s = Head(sc_s).server
  OBVIOUS
<1>1. CASE Crashes("null") \/ Crashes("wild")
  BY <1>1, ProxyCoreFrame DEF Crashes
<1>2. CASE ~Crashes("null") /\ ~Crashes("wild")
  <2>1. /\ sc_s # <<>> /\ sc_s' = Tail(sc_s)
        /\ IF \E n \in WithId(id) : IsOnline(n) THEN Tell(s, "connect", id)
                                                ELSE UNCHANGED toSlave
        /\ UNCHANGED <<player, sessions, PlayersToInitialize, toProxy, ClientDataTable, crash,
                       history>>
    BY <1>2 DEF CountdownEnds
  <2>2. /\ sc_s' \in Seq([id : PlayerIds, server : SlaveServers])
        /\ Head(sc_s) \in [id : PlayerIds, server : SlaveServers]
        /\ Contains(sc_s, Head(sc_s))
        /\ \A y : Contains(sc_s, y) <=> Head(sc_s) = y \/ Contains(sc_s', y)
        /\ \A y : OnceIn(sc_s, y) => OnceIn(sc_s', y) /\ (Head(sc_s) = y => ~Contains(sc_s', y))
    BY <2>1, <1>0, OnTail DEF ProxyTyped
  <2>3. id \in PlayerIds /\ s \in SlaveServers /\ Head(sc_s) = Countdown(id, s)
    BY <2>2 DEF Countdown
  <2> DEFINE h == Message("connect", id)
  <2>4. toSlave \in [SlaveServers -> Seq(SlaveMessages)] /\ h \in SlaveMessages
    BY <2>3, <1>0 DEF ProxyTyped, SlaveMessages, Message
  <2> HIDE DEF h
  <2> PICK said \in BOOLEAN : said <=> \E n \in WithId(id) : IsOnline(n)
    OBVIOUS
  <2>5. /\ toSlave' \in [SlaveServers -> Seq(SlaveMessages)]
        /\ said => OneMore(toSlave, toSlave', s, h)
        /\ ~said => toSlave' = toSlave
    <3>1. said => toSlave' = Appended(toSlave, s, h)
      BY <2>1 DEF Tell, Appended, h
    <3>2. said => toSlave' \in [SlaveServers -> Seq(SlaveMessages)]
                  /\ OneMore(toSlave, toSlave', s, h)
      BY <3>1, <2>4, QueueAppend, Zenon
    <3>3. ~said => toSlave' = toSlave
      BY <2>1
    <3> QED
      BY <3>2, <3>3, <2>4
  <2>6. Counting(id, s)
    BY <2>2, <2>3 DEF Counting
  <2>7. ProxyTyped'
    BY <2>1, <2>2, <2>5, <1>0 DEF ProxyTyped, ProxyTypeOK, SlaveMessages, sessions, history
  <2>8. ASSUME NEW i \in PlayerIds, NEW t \in SlaveServers
        PROVE  /\ Counting(i, t)' \/ (t = s /\ i = id) <=> Counting(i, t)
               /\ Told(i, t)' <=> Told(i, t) \/ (t = s /\ i = id /\ said)
               /\ HasAnswered(i, t)' <=> HasAnswered(i, t)
               /\ Recalled(i, t)' <=> Recalled(i, t)
               /\ Kicked(i, t)' <=> Kicked(i, t)
    <3>2. Countdown(id, s) = Countdown(i, t) <=> id = i /\ s = t
      BY CountdownsDiffer
    <3>3. Counting(i, t)' \/ (t = s /\ i = id) <=> Counting(i, t)
      BY <2>2, <2>3, <3>2 DEF Counting
    <3>4. (h = Message("connect", i) <=> i = id) /\ h # Message("disconnect", i)
      BY DEF h, Message
    <3>5. /\ Told(i, t)' <=> Told(i, t) \/ (t = s /\ i = id /\ said)
          /\ Recalled(i, t)' <=> Recalled(i, t)
      BY <2>5, <3>4 DEF OneMore, Told, Recalled
    <3> QED
      BY <2>1, <3>3, <3>5 DEF HasAnswered, Kicked
  <2>9. ASSUME NEW i \in PlayerIds, NEW t \in SlaveServers, AwaitedOnce(i, t)
        PROVE  AwaitedOnce(i, t)' /\ (t = s /\ i = id => ~Counting(i, t)')
    <3>1. Countdown(id, s) = Countdown(i, t) <=> id = i /\ s = t
      BY CountdownsDiffer
    <3>2. /\ OnceIn(sc_s, Countdown(i, t))'
          /\ t = s /\ i = id => ~Counting(i, t)'
      BY <2>2, <2>3, <2>9, <3>1 DEF AwaitedOnce, Counting
    <3>3. h = Message("connect", i) <=> i = id
      BY DEF h, Message
    <3>4. OnceIn(toSlave[t], Message("connect", i))'
      <4>1. i = id /\ t = s => ~Told(i, t)
        BY <2>6, <2>9 DEF AwaitedOnce
      <4>2. CASE said
        BY <4>1, <4>2, <2>5, <2>9, <3>3, Zenon DEF OneMore, AwaitedOnce, Told
      <4>3. CASE ~said
        BY <4>3, <2>5, <2>9 DEF AwaitedOnce
      <4> QED
        BY <4>2, <4>3
    <3>5. OnceIn(toProxy[t], Message("delete SAO", i))'
      BY <2>1, <2>9 DEF AwaitedOnce
    <3> QED
      BY <3>2, <3>4, <3>5, <2>6, <2>8, <2>9 DEF AwaitedOnce
  <2>10. ASSUME NEW i \in PlayerIds, NEW t \in SlaveServers, i # id \/ t # s
         PROVE  SameAt(i, t)
    BY <2>1, <2>8, <2>9, <2>10 DEF SameAt
  <2>11. ASSUME NEW t \in SlaveServers, NEW i \in PlayerIds
         PROVE  /\ Trace(i, t)' => i \in usedIds
                /\ Awaited(i, t)' \/ i \in ClientDataTable'[t]
                     => Awaited(i, t) \/ i \in ClientDataTable[t]
    <3>1. Awaited(i, t)' => Awaited(i, t)
      BY <2>6, <2>8 DEF Awaited
    <3> QED
      BY <3>1, <2>1, <2>8, <1>0 DEF Trace, PlayersDiffer
  <2>12. ASSUME NEW n \in PlayerNames, NEW i, Known(n), player[n].player_id = i
         PROVE  SameTraces(i) \/ OneTransfer(n)'
    <3>1. i \in PlayerIds
      BY <2>12, <1>0 DEF PlayersDiffer, ProxyTyped
    <3>2. CASE i # id
      BY <3>1, <3>2, <2>10 DEF SameTraces
    <3>3. CASE i = id
      <4> SUFFICES ASSUME i \notin again \union early
                   PROVE  Redirected(n)' /\ \A t \in SlaveServers : OnServer(n, i, t)'
        BY <2>1, <2>12 DEF OneTransfer, history
      <4>1. \A t \in SlaveServers : OnServer(n, i, t)
        BY <2>12 DEF ProxyCore, OneTransfer
      <4>2. BeingSent(n, s) /\ player[n].sao = "there" /\ player[n].peer \notin SessionsStatus
        BY <3>3, <4>1, <2>3, <2>6 DEF OnServer, Awaited
      <4>3. /\ player' = player /\ SessionsStatus' = SessionsStatus
            /\ IsOnline(n)' <=> IsOnline(n)
            /\ BeingSent(n, s)' <=> BeingSent(n, s)
        BY <2>1 DEF sessions, IsOnline, BeingSent, Known
      <4>4. Redirected(n)'
        BY <4>2, <4>3 DEF Redirected
      <4>5. SameSession(n)
        BY <2>1 DEF SameSession, sessions
      <4>6. ASSUME NEW t \in SlaveServers PROVE OnServer(n, i, t)'
        <5>1. CASE t # s
          BY <5>1, <4>1, <4>5, <3>1, <2>10, <2>12, OnServerFrame
        <5>2. CASE t = s
          <6>1. OnServer(n, i, s)
            BY <4>1, <2>3
          <6>2. AwaitedOnce(i, s)'
            BY <3>1, <2>3, <6>1, <2>9 DEF OnServer
          <6>3. /\ HasAnswered(i, s)' <=> HasAnswered(i, s)
                /\ Recalled(i, s)' <=> Recalled(i, s)
                /\ ClientDataTable' = ClientDataTable
            BY <3>1, <2>1, <2>3, <2>8
          <6>4. BeingSent(n, s)' /\ player'[n].sao = "there"
                /\ player'[n].peer \notin SessionsStatus'
            BY <4>2, <4>3
          <6> QED
            BY <5>2, <6>1, <6>2, <6>3, <6>4, <4>3 DEF OnServer
        <5> QED
          BY <5>1, <5>2
      <4> QED
        BY <4>4, <4>6
    <3> QED
      BY <3>2, <3>3
  <2> QED
    BY <2>1, <2>7, <2>11, <2>12, MessageStep_Inv
<1> QED
  BY <1>1, <1>2

LEMMA SendConnect_Inv ==
  ASSUME ProxyCore, NEW n \in PlayerNames, NEW s \in SlaveServers, SendConnect(n, s)
  PROVE  ProxyCore'
<1>0. ProxyTyped /\ PlayersDiffer /\ TravellersAreKnown /\ Known(n)
  BY DEF ProxyCore, SendConnect
<1>1. CASE Crashes("null")
  BY <1>1, ProxyCoreFrame DEF Crashes
<1>2. CASE ~Crashes("null")
  <2>0. PICK id, peer, from : /\ id = player[n].player_id /\ peer = player[n].peer
                              /\ from = player[n].ID
    OBVIOUS
  <2> DEFINE h == Message("disconnect", id)
  <2> DEFINE c == Countdown(id, s)
  <2>1. /\ IsOnline(n) /\ player[n].sao # "none"
        /\ player' = [player EXCEPT ![n] = [player[n] EXCEPT !.to_other_server = TRUE,
                                                             !.IsApplied = TRUE, !.ID = s]]
        /\ sc_s' = Append(sc_s, c)
        /\ player[n].IsApplied => toSlave' = Appended(toSlave, from, h)
                                  /\ PlayersToInitialize' = Append(PlayersToInitialize, peer)
        /\ ~player[n].IsApplied => UNCHANGED <<toSlave, PlayersToInitialize>>
        /\ again' = again \union {i \in {id} : player[n].to_other_server}
        /\ UNCHANGED <<sessions, toProxy, ClientDataTable, crash, usedPeers, usedIds, early>>
    <3>1. player[n] \in PlayerRecords /\ player \in [PlayerNames -> PlayerRecords]
      BY <1>0 DEF ProxyTyped, ProxyTypeOK, PlayerRecords
    <3>2. IsOnline(n) /\ player[n].sao # "none"
      BY <1>2 DEF SendConnect
    <3>3. player' = [player EXCEPT ![n] = [player[n] EXCEPT !.to_other_server = TRUE,
                                                             !.IsApplied = TRUE, !.ID = s]]
      BY <1>2, <3>1, <3>2 DEF SendConnect
    <3> QED
      BY <2>0, <1>2, <3>2, <3>3 DEF SendConnect, Tell, Appended, Countdown
  <2>2. /\ peer \in PeerIds /\ id \in PlayerIds /\ id \in usedIds
        /\ Remembered(n)
    BY <2>0, <1>0 DEF PlayersDiffer, ProxyTyped, ProxyTypeOK, TravellersAreKnown
  <2>3. /\ toSlave \in [SlaveServers -> Seq(SlaveMessages)] /\ h \in SlaveMessages
        /\ sc_s \in Seq([id : PlayerIds, server : SlaveServers])
        /\ c \in [id : PlayerIds, server : SlaveServers]
        /\ PlayersToInitialize \in Seq(PeerIds)
    BY <2>2, <1>0 DEF ProxyTyped, SlaveMessages, Message, Countdown
  <2>4. /\ player'[n] = [player[n] EXCEPT !.to_other_server = TRUE, !.IsApplied = TRUE, !.ID = s]
        /\ \A m \in PlayerNames \ {n} : player'[m] = player[m]
    BY <2>1, <1>0 DEF ProxyTyped, ProxyTypeOK
  <2> HIDE DEF h, c
  <2>5. /\ player'[n].peer = peer /\ player'[n].player_id = id /\ player'[n].sao = player[n].sao
        /\ player'[n].to_other_server /\ player'[n].IsApplied /\ player'[n].ID = s
        /\ player'[n] \in PlayerRecords
    <3>1. player[n] \in PlayerRecords
      BY <1>0 DEF ProxyTyped, ProxyTypeOK, PlayerRecords
    <3> QED
      BY <2>0, <2>4, <3>1 DEF PlayerRecords
  <2>6. Known(n)' /\ IsOnline(n)'
    <3>1. player'[n].sao # NoPlayer.sao
      BY <2>1, <2>5 DEF NoPlayer
    <3>2. online'[peer] = n
      BY <2>0, <2>1 DEF sessions, IsOnline
    <3> QED
      BY <3>1, <3>2, <2>5 DEF Known, IsOnline
  <2>7. /\ sc_s' \in Seq([id : PlayerIds, server : SlaveServers])
        /\ \A y : Contains(sc_s', y) <=> Contains(sc_s, y) \/ c = y
        /\ \A y : OnceIn(sc_s, y) /\ (c = y => ~Contains(sc_s, y)) => OnceIn(sc_s', y)
    <3>1. sc_s' = Append(sc_s, c)
      BY <2>1
    <3> DEFINE T == [id : PlayerIds, server : SlaveServers]
    <3>2. sc_s \in Seq(T) /\ c \in T
      BY <2>3
    <3> HIDE DEF T
    <3>3. /\ Append(sc_s, c) \in Seq(T)
          /\ \A y : Contains(Append(sc_s, c), y) <=> Contains(sc_s, y) \/ c = y
          /\ \A y : OnceIn(sc_s, y) /\ (c = y => ~Contains(sc_s, y)) => OnceIn(Append(sc_s, c), y)
      BY <3>2, OnAppend, Zenon
    <3> QED
      BY <3>1, <3>3 DEF T
  <2>8. /\ toSlave' \in [SlaveServers -> Seq(SlaveMessages)]
        /\ player[n].IsApplied => OneMore(toSlave, toSlave', from, h)
        /\ ~player[n].IsApplied => toSlave' = toSlave
    <3>1. CASE player[n].IsApplied
      <4>1. toSlave' = Appended(toSlave, from, h)
        BY <2>1, <3>1
      <4>2. toSlave' \in [SlaveServers -> Seq(SlaveMessages)] /\ OneMore(toSlave, toSlave', from, h)
        <5>1. toSlave \in [SlaveServers -> Seq(SlaveMessages)]
          BY <2>3
        <5>2. h \in SlaveMessages
          BY <2>3
        <5> QED
          BY <4>1, <5>1, <5>2, QueueAppend, Zenon
      <4> QED
        BY <3>1, <4>2
    <3>2. CASE ~player[n].IsApplied
      BY <3>2, <2>1, <2>3
    <3> QED
      BY <3>1, <3>2
  <2>9. /\ PlayersToInitialize' \in Seq(PeerIds)
        /\ \A e : Contains(PlayersToInitialize', e)
                    => Contains(PlayersToInitialize, e) \/ (player[n].IsApplied /\ e = peer)
    <3>1. CASE player[n].IsApplied
      <4>1. PlayersToInitialize' = Append(PlayersToInitialize, peer)
        BY <3>1, <2>1
      <4>2. /\ Append(PlayersToInitialize, peer) \in Seq(PeerIds)
            /\ \A e : Contains(Append(PlayersToInitialize, peer), e)
                        <=> Contains(PlayersToInitialize, e) \/ peer = e
        <5>1. PlayersToInitialize \in Seq(PeerIds)
          BY <2>3
        <5>2. peer \in PeerIds
          BY <2>2
        <5> QED
          BY <5>1, <5>2, OnAppend, Zenon
      <4> QED
        BY <3>1, <4>1, <4>2
    <3>2. CASE ~player[n].IsApplied
      BY <3>2, <2>1, <2>3
    <3> QED
      BY <3>1, <3>2
  <2>10. again' \union early' \subseteq usedIds' /\ again \subseteq again'
         /\ (player[n].to_other_server => id \in again')
    BY <2>1, <2>2, <1>0 DEF ProxyTyped
  <2>11. ProxyTyped'
    <3>1. player' \in [PlayerNames -> PlayerRecords]
      BY <2>1, <2>5, <1>0, PlayerUpdate
    <3> QED
      BY <3>1, <2>1, <2>7, <2>8, <2>9, <2>10, <1>0
         DEF ProxyTyped, ProxyTypeOK, PlayerRecords, SlaveMessages, sessions
  <2>12. ASSUME NEW i \in PlayerIds, NEW t \in SlaveServers
         PROVE  /\ Counting(i, t)' <=> Counting(i, t) \/ (t = s /\ i = id)
                /\ Told(i, t)' <=> Told(i, t)
                /\ HasAnswered(i, t)' <=> HasAnswered(i, t)
                /\ i # id => (Recalled(i, t)' <=> Recalled(i, t))
                /\ ~player[n].IsApplied => (Recalled(i, t)' <=> Recalled(i, t))
                /\ Kicked(i, t)' <=> Kicked(i, t)
    <3>1. /\ HasAnswered(i, t)' <=> HasAnswered(i, t)
          /\ Kicked(i, t)' <=> Kicked(i, t)
      BY <2>1 DEF HasAnswered, Kicked
    <3>2. c = Countdown(i, t) <=> id = i /\ s = t
      BY CountdownsDiffer DEF c
    <3>3. Counting(i, t)' <=> Counting(i, t) \/ (t = s /\ i = id)
      BY <2>7, <3>2 DEF Counting
    <3>4. h # Message("connect", i) /\ (h = Message("disconnect", i) <=> i = id)
      BY DEF h, Message
    <3>5. /\ Told(i, t)' <=> Told(i, t)
          /\ i # id => (Recalled(i, t)' <=> Recalled(i, t))
          /\ ~player[n].IsApplied => (Recalled(i, t)' <=> Recalled(i, t))
      <4>1. CASE player[n].IsApplied
        BY <4>1, <2>8, <3>4 DEF OneMore, Told, Recalled
      <4>2. CASE ~player[n].IsApplied
        BY <4>2, <2>8 DEF Told, Recalled
      <4> QED
        BY <4>1, <4>2
    <3> QED
      BY <3>1, <3>3, <3>5
  <2>13. ASSUME NEW i \in PlayerIds, NEW t \in SlaveServers, AwaitedOnce(i, t),
                t = s /\ i = id => ~Awaited(i, t)
         PROVE  AwaitedOnce(i, t)'
    <3>1. c = Countdown(i, t) <=> id = i /\ s = t
      BY CountdownsDiffer DEF c
    <3>2. OnceIn(sc_s, Countdown(i, t))'
      <4>1. c = Countdown(i, t) => ~Contains(sc_s, Countdown(i, t))
        BY <2>13, <3>1 DEF Awaited, Counting
      <4> QED
        BY <4>1, <2>7, <2>13 DEF AwaitedOnce
    <3>3. h # Message("connect", i)
      BY DEF h, Message
    <3>4. OnceIn(toSlave[t], Message("connect", i))'
      <4>1. CASE player[n].IsApplied
        BY <4>1, <2>8, <2>13, <3>3, Zenon DEF OneMore, AwaitedOnce
      <4>2. CASE ~player[n].IsApplied
        BY <4>2, <2>8, <2>13 DEF AwaitedOnce
      <4> QED
        BY <4>1, <4>2
    <3>5. OnceIn(toProxy[t], Message("delete SAO", i))'
      BY <2>1, <2>13 DEF AwaitedOnce
    <3> QED
      BY <3>2, <3>4, <3>5, <2>12, <2>13 DEF AwaitedOnce, Awaited
  <2>14. \A i \in PlayerIds \ {id} : SameTraces(i) /\ \A t \in SlaveServers :
           Kicked(i, t)' => Kicked(i, t)
    BY <2>1, <2>12, <2>13 DEF SameTraces, SameAt
  <2>15. Remembered(n)'
    <3>1. Contains(PlayersToInitialize', peer) => id \in again'
      BY <2>0, <2>2, <2>9, <2>10 DEF Remembered
    <3>2. id \notin early'
      BY <2>0, <2>1, <2>2 DEF Remembered
    <3> QED
      BY <3>1, <3>2, <2>1, <2>5, <2>6 DEF Remembered
  <2>16. OneTransfer(n)'
    <3> SUFFICES ASSUME id \notin again' \union early'
                 PROVE  Redirected(n)' /\ \A t \in SlaveServers : OnServer(n, id, t)'
      BY <2>5 DEF OneTransfer
    <3>1. \A t \in SlaveServers : OnServer(n, id, t)
      BY <2>0, <1>0, <2>1, <2>10 DEF ProxyCore, OneTransfer
    <3>2. ~player[n].to_other_server /\ ~player[n].IsApplied /\ peer \notin SessionsStatus
      BY <2>0, <2>2, <2>10 DEF Remembered
    <3>3. player[n].sao = "there"
      <4>1. player[n].sao \in {"there", "marked", "none"}
        BY <1>0 DEF ProxyTyped, ProxyTypeOK
      <4> QED
        BY <4>1, <2>1, <2>2, <3>2 DEF Remembered
    <3>4. SessionsStatus' = SessionsStatus /\ ClientDataTable' = ClientDataTable
      BY <2>1 DEF sessions
    <3>5. \A t \in SlaveServers : ~Awaited(id, t) /\ id \notin ClientDataTable[t]
      BY <2>0, <1>0, <3>2, AwaitedWasSent
    <3>6. Redirected(n)'
      BY <3>2, <3>4, <2>5 DEF Redirected
    <3>7. ASSUME NEW t \in SlaveServers PROVE OnServer(n, id, t)'
      <4>1. AwaitedOnce(id, t)'
        BY <3>1, <3>5, <2>2, <2>13 DEF OnServer
      <4>2. Awaited(id, t)' => t = s
        BY <3>5, <2>2, <2>12 DEF Awaited
      <4>3. ~HasAnswered(id, t)' /\ id \notin ClientDataTable'[t]
        BY <3>4, <3>5, <2>2, <2>12 DEF Awaited
      <4>4. ~Recalled(id, t)'
        BY <3>1, <3>2, <2>1, <2>2, <2>12 DEF OnServer
      <4>5. BeingSent(n, s)' /\ player'[n].sao = "there" /\ player'[n].peer \notin SessionsStatus'
        BY <3>2, <3>3, <3>4, <2>5, <2>6 DEF BeingSent
      <4> QED
        BY <4>1, <4>2, <4>3, <4>4, <4>5 DEF OnServer
    <3> QED
      BY <3>6, <3>7
  <2>17. /\ \A e \in PeerIds : online'[e] = online[e] \/ (e = peer /\ online'[e] = Nobody)
         /\ \A e \in PeerIds \ {peer} :
              /\ e \in SessionsStatus' <=> e \in SessionsStatus
              /\ PlayerInEnvironmentToServer'[e] = PlayerInEnvironmentToServer[e]
              /\ Contains(PlayersToInitialize', e) => Contains(PlayersToInitialize, e)
    BY <2>1, <2>9 DEF sessions
  <2>18. /\ UNCHANGED <<usedPeers, usedIds>> /\ again \subseteq again'
         /\ early \subseteq early' /\ early' \subseteq early \union {id}
         /\ player[n].peer = peer /\ player[n].player_id = id
    BY <2>0, <2>1, <2>10
  <2>19. Known(n) /\ Known(n)' /\ player'[n].player_id = id /\ player'[n].peer = peer
         /\ player'[n].to_other_server
         /\ \A m \in PlayerNames \ {n} : player'[m] = player[m]
    BY <1>0, <2>4, <2>5, <2>6
  <2> QED
    BY <2>11, <2>14, <2>15, <2>16, <2>17, <2>18, <2>19, PlayerStep_Inv
<1> QED
  BY <1>1, <1>2

LEMMA DeleteClient_Inv ==
  ASSUME ProxyCore, NEW peer \in PeerIds, DeleteClient(peer)
  PROVE  ProxyCore'
<1>0. ProxyTyped /\ PlayersDiffer /\ TravellersAreKnown
  BY DEF ProxyCore
<1>1. PICK n, id, from : /\ n = online[peer] /\ id = player[n].player_id /\ from = player[n].ID
  OBVIOUS
<1>2. n \in PlayerNames /\ Known(n) /\ player[n].peer = peer /\ IsOnline(n) /\ n # Nobody
  BY <1>0, <1>1 DEF DeleteClient, PlayersDiffer, IsOnline
<1>3. PICK away \in BOOLEAN : away <=> peer \in SessionsStatus /\ from # MainServer
  OBVIOUS
<1> DEFINE h == Message("disconnect", id)
<1>4. /\ online' = [online EXCEPT ![peer] = Nobody]
      /\ SessionsStatus' = SessionsStatus \ {peer}
      /\ PlayerInEnvironmentToServer' = [PlayerInEnvironmentToServer EXCEPT ![peer] = MainServer]
      /\ away => toSlave' = Appended(toSlave, from, h)
      /\ ~away => toSlave' = toSlave
      /\ player' = [player EXCEPT ![n] =
                      [player[n] EXCEPT !.sao = IF player[n].sao = "there" THEN "marked"
                                                ELSE player[n].sao,
                                        !.IsApplied = player[n].IsApplied /\ ~away,
                                        !.ID = IF away THEN MainServer ELSE player[n].ID]]
      /\ early' = IF player[n].IsApplied /\ peer \notin SessionsStatus THEN early \union {id}
                  ELSE early
      /\ UNCHANGED <<sc_s, PlayersToInitialize, toProxy, ClientDataTable, crash, usedPeers,
                     usedIds, again>>
  <2>1. /\ online' = [online EXCEPT ![peer] = Nobody]
        /\ SessionsStatus' = SessionsStatus \ {peer}
        /\ PlayerInEnvironmentToServer' = [PlayerInEnvironmentToServer EXCEPT ![peer] = MainServer]
        /\ UNCHANGED <<sc_s, PlayersToInitialize, toProxy, ClientDataTable, crash, usedPeers,
                       usedIds, again>>
    BY DEF DeleteClient
  <2>2. early' = IF player[n].IsApplied /\ peer \notin SessionsStatus THEN early \union {id}
                 ELSE early
    BY <1>1 DEF DeleteClient
  <2>3. /\ away => toSlave' = Appended(toSlave, from, h)
        /\ ~away => toSlave' = toSlave
    BY <1>1, <1>3 DEF DeleteClient, Tell, Appended
  <2>4. player' = [player EXCEPT ![n] =
                      [player[n] EXCEPT !.sao = IF player[n].sao = "there" THEN "marked"
                                                ELSE player[n].sao,
                                        !.IsApplied = player[n].IsApplied /\ ~away,
                                        !.ID = IF away THEN MainServer ELSE player[n].ID]]
    <3> DEFINE l == online[peer]
    <3>1. player' = [player EXCEPT ![l] =
                       [player[l] EXCEPT
                          !.sao = IF player[l].sao = "there" THEN "marked" ELSE player[l].sao,
                          !.IsApplied = player[l].IsApplied
                                        /\ ~(peer \in SessionsStatus /\ player[l].ID # MainServer),
                          !.ID = IF peer \in SessionsStatus /\ player[l].ID # MainServer
                                 THEN MainServer ELSE player[l].ID]]
      BY Zenon DEF DeleteClient
    <3>2. away = (peer \in SessionsStatus /\ player[l].ID # MainServer) /\ l = n
      BY <1>1, <1>3
    <3> HIDE DEF l
    <3> QED
      BY <3>1, <3>2, Zenon
  <2> QED
    BY <2>1, <2>2, <2>3, <2>4
<1>5. /\ id \in PlayerIds /\ id \in usedIds /\ Remembered(n) /\ player[n].player_id = id
      /\ player[n] \in PlayerRecords /\ player \in [PlayerNames -> PlayerRecords]
  BY <1>0, <1>1, <1>2
     DEF PlayersDiffer, ProxyTyped, ProxyTypeOK, TravellersAreKnown, PlayerRecords
<1>6. toSlave \in [SlaveServers -> Seq(SlaveMessages)]
  BY <1>0 DEF ProxyTyped, SlaveMessages
<1>7. h \in SlaveMessages
  BY <1>5 DEF SlaveMessages, Message
<1> HIDE DEF h
<1>8. /\ toSlave' \in [SlaveServers -> Seq(SlaveMessages)]
      /\ away => OneMore(toSlave, toSlave', from, h)
  <2>1. CASE away
    <3>1. toSlave' = Appended(toSlave, from, h)
      BY <1>4, <2>1
    <3>2. toSlave' \in [SlaveServers -> Seq(SlaveMessages)] /\ OneMore(toSlave, toSlave', from, h)
      BY <3>1, <1>6, <1>7, QueueAppend, Zenon
    <3> QED
      BY <3>2
  <2>2. CASE ~away
    BY <1>4, <1>6, <2>2
  <2> QED
    BY <2>1, <2>2
<1>9. /\ \A m \in PlayerNames \ {n} : player'[m] = player[m]
      /\ player'[n] = [player[n] EXCEPT !.sao = IF player[n].sao = "there" THEN "marked"
                                                ELSE player[n].sao,
                                        !.IsApplied = player[n].IsApplied /\ ~away,
                                        !.ID = IF away THEN MainServer ELSE player[n].ID]
  BY <1>2, <1>4, <1>5
<1>10. /\ player'[n].peer = peer /\ player'[n].player_id = id
       /\ player'[n].sao = IF player[n].sao = "there" THEN "marked" ELSE player[n].sao
       /\ player'[n].to_other_server = player[n].to_other_server
       /\ player'[n].IsApplied = (player[n].IsApplied /\ ~away)
       /\ player'[n] \in PlayerRecords
  BY <1>2, <1>5, <1>9 DEF PlayerRecords
<1>11. /\ online'[peer] = Nobody /\ \A e \in PeerIds \ {peer} : online'[e] = online[e]
       /\ \A e \in PeerIds \ {peer} :
            PlayerInEnvironmentToServer'[e] = PlayerInEnvironmentToServer[e]
  BY <1>0, <1>4 DEF ProxyTyped, ProxyTypeOK
<1>12. ~IsOnline(n)'
  BY <1>2, <1>10, <1>11 DEF IsOnline
<1>13. Known(n)'
  <2>1. player[n].sao = "none" => player'[n].to_other_server
    BY <1>5, <1>10 DEF Remembered
  <2>2. player'[n].sao # "none" \/ player'[n].to_other_server
    BY <1>10, <2>1
  <2> QED
    BY <2>2 DEF Known, NoPlayer
<1>14. again' \union early' \subseteq usedIds' /\ early \subseteq early'
       /\ early' \subseteq early \union {id}
  BY <1>0, <1>4, <1>5 DEF ProxyTyped
<1>15. ProxyTyped'
  <2>1. player' \in [PlayerNames -> PlayerRecords]
    BY <1>0, <1>2, <1>4, <1>10, PlayerUpdate
  <2>2. online' \in [PeerIds -> PlayerNames \union {Nobody}]
        /\ PlayerInEnvironmentToServer' \in [PeerIds -> SlaveServers \union {MainServer}]
    BY <1>0, <1>4 DEF ProxyTyped, ProxyTypeOK
  <2> QED
    BY <2>1, <2>2, <1>0, <1>4, <1>8, <1>14 DEF ProxyTyped, ProxyTypeOK, PlayerRecords,
                                               SlaveMessages
<1>16. ASSUME NEW i \in PlayerIds, NEW t \in SlaveServers
       PROVE  /\ Counting(i, t)' <=> Counting(i, t)
              /\ Told(i, t)' <=> Told(i, t)
              /\ HasAnswered(i, t)' <=> HasAnswered(i, t)
              /\ i # id => (Recalled(i, t)' <=> Recalled(i, t))
              /\ away /\ t = from => Recalled(id, t)'
              /\ Kicked(i, t)' <=> Kicked(i, t)
  <2>1. /\ Counting(i, t)' <=> Counting(i, t)
        /\ HasAnswered(i, t)' <=> HasAnswered(i, t)
        /\ Kicked(i, t)' <=> Kicked(i, t)
    BY <1>4 DEF Counting, HasAnswered, Kicked
  <2>2. /\ h # Message("connect", i)
        /\ h = Message("disconnect", i) <=> i = id
        /\ h = Message("disconnect", id)
    BY DEF h, Message
  <2>3. /\ Told(i, t)' <=> Told(i, t)
        /\ i # id => (Recalled(i, t)' <=> Recalled(i, t))
        /\ away /\ t = from => Recalled(id, t)'
    <3>1. CASE away
      BY <3>1, <1>8, <2>2 DEF OneMore, Told, Recalled
    <3>2. CASE ~away
      BY <3>2, <1>4 DEF Told, Recalled
    <3> QED
      BY <3>1, <3>2
  <2> QED
    BY <2>1, <2>3
<1>17. ASSUME NEW i \in PlayerIds, NEW t \in SlaveServers, AwaitedOnce(i, t)
       PROVE  AwaitedOnce(i, t)'
  <2>1. OnceIn(sc_s, Countdown(i, t))' /\ OnceIn(toProxy[t], Message("delete SAO", i))'
    BY <1>4, <1>17 DEF AwaitedOnce
  <2>2. h # Message("connect", i)
    BY DEF h, Message
  <2>3. OnceIn(toSlave[t], Message("connect", i))'
    <3>1. CASE away
      BY <3>1, <1>8, <1>17, <2>2, Zenon DEF OneMore, AwaitedOnce
    <3>2. CASE ~away
      BY <3>2, <1>4, <1>17 DEF AwaitedOnce
    <3> QED
      BY <3>1, <3>2
  <2> QED
    BY <2>1, <2>3, <1>16, <1>17 DEF AwaitedOnce
<1>18. \A i \in PlayerIds \ {id} : SameTraces(i) /\ \A t \in SlaveServers :
         Kicked(i, t)' => Kicked(i, t)
  BY <1>4, <1>16, <1>17 DEF SameTraces, SameAt
<1>19. Remembered(n)'
  <2>1. /\ player'[n].IsApplied => player'[n].to_other_server
        /\ player'[n].sao # "there"
        /\ player'[n].sao = "none" => player'[n].to_other_server
    BY <1>5, <1>10 DEF Remembered
  <2>2. player'[n].peer \notin SessionsStatus'
    BY <1>4, <1>10
  <2>3. Contains(PlayersToInitialize', player'[n].peer) => player'[n].player_id \in again'
    <3>1. Contains(PlayersToInitialize, peer) => id \in again
      BY <1>2, <1>5 DEF Remembered
    <3>2. Contains(PlayersToInitialize', peer) => id \in again'
      BY <3>1, <1>4
    <3> QED
      BY <3>2, <1>10
  <2> QED
    BY <2>1, <2>2, <2>3, <1>12 DEF Remembered
<1>20. OneTransfer(n)'
  <2> SUFFICES ASSUME id \notin again' \union early'
               PROVE  Redirected(n)' /\ \A t \in SlaveServers : OnServer(n, id, t)'
    BY <1>10 DEF OneTransfer
  <2>1. \A t \in SlaveServers : OnServer(n, id, t)
    BY <1>2, <1>4, <1>5, <1>14 DEF ProxyCore, OneTransfer
  <2>2. player[n].IsApplied => peer \in SessionsStatus
    BY <1>4
  <2>3. Redirected(n)'
    BY <1>12 DEF Redirected
  <2>4. ASSUME NEW t \in SlaveServers PROVE OnServer(n, id, t)'
    <3>1. OnServer(n, id, t)
      BY <2>1
    <3>2. ~Awaited(id, t)
      BY <3>1, <2>2, <1>2 DEF OnServer, BeingSent
    <3>3. ~Awaited(id, t)'
      BY <3>2, <1>5, <1>16 DEF Awaited
    <3>4. AwaitedOnce(id, t)'
      BY <3>1, <1>5, <1>17 DEF OnServer
    <3>5. ASSUME id \in ClientDataTable'[t] PROVE Recalled(id, t)'
      <4>1. id \in ClientDataTable[t]
        BY <3>5, <1>4
      <4>2. BeingSent(n, t)
        BY <4>1, <3>1, <1>2 DEF OnServer
      <4>3. from = t /\ from # MainServer /\ peer \in SessionsStatus
        BY <4>2, <2>2, <1>1, ProxyAssumption DEF BeingSent
      <4> QED
        BY <4>3, <1>3, <1>5, <1>16
    <3> QED
      BY <3>3, <3>4, <3>5, <1>12 DEF OnServer, Awaited
  <2> QED
    BY <2>3, <2>4
<1>21. \A s \in SlaveServers :
         Awaited(id, s)' \/ id \in ClientDataTable'[s] => player'[n].to_other_server
  <2> TAKE s \in SlaveServers
  <2> HAVE Awaited(id, s)' \/ id \in ClientDataTable'[s]
  <2>1. Awaited(id, s) \/ id \in ClientDataTable[s]
    BY <1>4, <1>5, <1>16 DEF Awaited
  <2>2. player[n].to_other_server
    BY <2>1, <1>2, <1>5, AwaitedWasSent
  <2> QED
    BY <2>2, <1>10
<1>22. /\ \A e \in PeerIds : online'[e] = online[e] \/ (e = peer /\ online'[e] = Nobody)
       /\ \A e \in PeerIds \ {peer} :
            /\ e \in SessionsStatus' <=> e \in SessionsStatus
            /\ PlayerInEnvironmentToServer'[e] = PlayerInEnvironmentToServer[e]
            /\ Contains(PlayersToInitialize', e) => Contains(PlayersToInitialize, e)
  BY <1>4, <1>11
<1>23. /\ UNCHANGED <<usedPeers, usedIds>> /\ again \subseteq again'
       /\ early \subseteq early' /\ early' \subseteq early \union {id}
       /\ n \in PlayerNames /\ player[n].peer = peer /\ player[n].player_id = id
       /\ Known(n) /\ Known(n)' /\ player'[n].player_id = id /\ player'[n].peer = peer
       /\ player[n].to_other_server => player'[n].to_other_server
       /\ \A m \in PlayerNames \ {n} : player'[m] = player[m]
  BY <1>2, <1>4, <1>5, <1>9, <1>10, <1>13, <1>14
<1> QED
  BY <1>15, <1>18, <1>19, <1>20, <1>21, <1>22, <1>23, PlayerStep_Inv

(* A message or a countdown for a player finds a RemotePlayer, so that the *)
(* pointer never is without a value; the others have the cause that they   *)
(* are said to have.                                                       *)
LEMMA Crashes_Inv ==
  ASSUME ProxyInv, ProxyNext
  PROVE  CrashesHaveCause'
<1>0. ProxyTyped /\ PlayersDiffer /\ TravellersAreKnown /\ crash = "no"
  BY DEF ProxyInv, ProxyCore, ProxyNext
<1>1. CASE crash' = "no" \/ crash' = "null"
  BY <1>1 DEF CrashesHaveCause
<1>2. ASSUME NEW id \in PlayerIds, NEW s \in SlaveServers, Awaited(id, s)
      PROVE  WithId(id) # {}
  BY <1>0, <1>2 DEF TravellersAreKnown, WithId
<1>3. CASE CountdownEnds
  <2>1. sc_s # <<>> /\ sc_s \in Seq([id : PlayerIds, server : SlaveServers])
    BY <1>0, <1>3 DEF CountdownEnds, ProxyTyped
  <2>2. Head(sc_s) \in [id : PlayerIds, server : SlaveServers] /\ Contains(sc_s, Head(sc_s))
    BY <2>1, OnTail
  <2> PICK it \in [id : PlayerIds, server : SlaveServers] : it = Head(sc_s)
    BY <2>2
  <2>3. Counting(it.id, it.server)
    BY <2>2 DEF Counting, Countdown
  <2>4. WithId(it.id) # {}
    BY <2>3, <1>2 DEF Awaited
  <2>5. crash' = "null" \/ crash' = crash
    BY <1>3, <2>4 DEF CountdownEnds, Crashes
  <2> QED
    BY <2>5, <1>0, <1>1
<1>4. ASSUME NEW s \in SlaveServers, OnlyDeleteSAO(s)
      PROVE  CrashesHaveCause'
  <2> PICK id : id = Head(toProxy[s]).id
    OBVIOUS
  <2>1. /\ toProxy[s] # <<>> /\ Head(toProxy[s]).type = "delete SAO"
        /\ toProxy \in [SlaveServers -> Seq(ProxyMessages)]
    BY <1>0, <1>4 DEF OnlyDeleteSAO, Next1, ProxyTyped, ProxyMessages
  <2>2. Head(toProxy[s]) \in ProxyMessages /\ Contains(toProxy[s], Head(toProxy[s]))
    BY <2>1, OnTail
  <2>3. id \in PlayerIds /\ Head(toProxy[s]) = Message("delete SAO", id)
    BY <2>1, <2>2 DEF ProxyMessages, Message
  <2>4. HasAnswered(id, s)
    BY <2>2, <2>3 DEF HasAnswered
  <2>5. WithId(id) # {}
    BY <2>3, <2>4, <1>2 DEF Awaited
  <2>6. PICK n : /\ n \in WithId(id)
                 /\ (player[n].sao = "none" /\ Crashes("assert")) \/ crash' = crash
    <3> DEFINE l == CHOOSE m \in WithId(id) : TRUE
    <3>1. l \in WithId(id)
      BY <2>5
    <3>2. (player[l].sao = "none" /\ Crashes("assert")) \/ crash' = crash
      BY <1>4, <2>5 DEF OnlyDeleteSAO
    <3> HIDE DEF l
    <3> QED
      BY <3>1, <3>2
  <2>7. CASE crash' = crash
    BY <2>7, <1>0, <1>1
  <2>8. CASE player[n].sao = "none" /\ Crashes("assert")
    <3>1. n \in PlayerNames /\ Known(n) /\ player[n].player_id = id
      BY <2>6 DEF WithId
    <3>2. ~OnServer(n, id, s)
      BY <2>4, <2>8 DEF OnServer, Awaited
    <3>3. id \in again \union early
      BY <3>1, <3>2 DEF ProxyInv, ProxyCore, OneTransfer
    <3>4. crash' = "assert" /\ again' = again /\ early' = early
      BY <2>8 DEF Crashes, history
    <3> QED
      BY <3>3, <3>4 DEF CrashesHaveCause
  <2> QED
    BY <2>6, <2>7, <2>8
<1>5. ASSUME NEW s \in SlaveServers, ReturnToProxy(s)
      PROVE  CrashesHaveCause'
  <2> PICK id : id = Head(toProxy[s]).id
    OBVIOUS
  <2>1. /\ toProxy[s] # <<>> /\ Head(toProxy[s]).type = "kick"
        /\ toProxy \in [SlaveServers -> Seq(ProxyMessages)]
    BY <1>0, <1>5 DEF ReturnToProxy, Next1, ProxyTyped, ProxyMessages
  <2>2. Head(toProxy[s]) \in ProxyMessages /\ Contains(toProxy[s], Head(toProxy[s]))
    BY <2>1, OnTail
  <2>3. id \in PlayerIds /\ Head(toProxy[s]) = Message("kick", id)
    BY <2>1, <2>2 DEF ProxyMessages, Message
  <2>4. id \in usedIds
    BY <2>2, <2>3, <1>0 DEF PlayersDiffer, Trace, Kicked
  <2>5. (WithPeer(id) # {} /\ Crashes("fatal")) \/ crash' = crash
    BY <1>5 DEF ReturnToProxy
  <2>6. CASE crash' = crash
    BY <2>6, <1>0, <1>1
  <2>7. CASE WithPeer(id) # {} /\ Crashes("fatal")
    <3>1. id \in usedPeers
      BY <2>7, <1>0 DEF WithPeer, PlayersDiffer
    <3>2. crash' = "fatal" /\ usedIds' = usedIds /\ usedPeers' = usedPeers
      BY <2>7 DEF Crashes, history
    <3> QED
      BY <2>4, <3>1, <3>2 DEF CrashesHaveCause
  <2> QED
    BY <2>5, <2>6, <2>7
<1>6. CASE InitializePlayer
  <2>1. crash' = "null" \/ crash' = crash
    BY <1>6 DEF InitializePlayer, Crashes
  <2> QED
    BY <2>1, <1>0, <1>1
<1>7. ASSUME NEW n \in PlayerNames, NEW s \in SlaveServers, SendConnect(n, s)
      PROVE  CrashesHaveCause'
  <2>1. crash' = "null" \/ crash' = crash
    BY <1>7 DEF SendConnect, Crashes
  <2> QED
    BY <2>1, <1>0, <1>1
<1>8. ASSUME NEW s \in SlaveServers,
             handleCommand_GotConnect(s) \/ handleCommand_GotDisconnect(s)
             \/ \E id \in PlayerIds : SendDisconnectToPlayer(s, id)
      PROVE  crash' = crash
  BY <1>8 DEF handleCommand_GotConnect, handleCommand_GotDisconnect, SendDisconnectToPlayer,
              SlaveOnly
<1>9. ASSUME NEW n \in PlayerNames,
             removeRemovedObjects(n)
             \/ \E peer \in PeerIds, id \in PlayerIds : emergePlayer(n, peer, id)
      PROVE  crash' = crash
  BY <1>9 DEF removeRemovedObjects, emergePlayer
<1>10. ASSUME NEW peer \in PeerIds, DeleteClient(peer)
       PROVE  crash' = crash
  BY <1>10 DEF DeleteClient
<1> QED
  BY <1>0, <1>1, <1>3, <1>4, <1>5, <1>6, <1>7, <1>8, <1>9, <1>10 DEF ProxyNext

LEMMA ProxyNext_Inv == ProxyInv /\ [ProxyNext]_proxyVars => ProxyInv'
<1> SUFFICES ASSUME ProxyInv, [ProxyNext]_proxyVars PROVE ProxyInv'
  OBVIOUS
<1>0. ProxyCore
  BY DEF ProxyInv
<1>1. CASE ProxyNext
  <2>1. ASSUME NEW n \in PlayerNames, NEW peer \in PeerIds, NEW id \in PlayerIds,
               emergePlayer(n, peer, id)
        PROVE  ProxyCore'
    BY <2>1, <1>0, emergePlayer_Inv
  <2>2. ASSUME NEW n \in PlayerNames, NEW s \in SlaveServers, SendConnect(n, s)
        PROVE  ProxyCore'
    BY <2>2, <1>0, SendConnect_Inv
  <2>3. ASSUME NEW n \in PlayerNames, removeRemovedObjects(n)
        PROVE  ProxyCore'
    BY <2>3, <1>0, removeRemovedObjects_Inv
  <2>4. ASSUME NEW peer \in PeerIds, DeleteClient(peer)
        PROVE  ProxyCore'
    BY <2>4, <1>0, DeleteClient_Inv
  <2>5. CountdownEnds \/ InitializePlayer => ProxyCore'
    BY <1>0, CountdownEnds_Inv, InitializePlayer_Inv
  <2>6. ASSUME NEW s \in SlaveServers,
               \/ handleCommand_GotConnect(s) \/ handleCommand_GotDisconnect(s)
               \/ \E id \in PlayerIds : SendDisconnectToPlayer(s, id)
               \/ OnlyDeleteSAO(s) \/ ReturnToProxy(s)
        PROVE  ProxyCore'
    BY <2>6, <1>0, GotConnect_Inv, GotDisconnect_Inv, KickFromSlave_Inv, OnlyDeleteSAO_Inv,
       ReturnToProxy_Inv
  <2>7. ProxyCore'
    BY <1>1, <2>1, <2>2, <2>3, <2>4, <2>5, <2>6 DEF ProxyNext
  <2> QED
    BY <1>1, <2>7, Crashes_Inv DEF ProxyInv
<1>2. CASE UNCHANGED proxyVars
  <2>1. UNCHANGED <<player, sessions, sc_s, PlayersToInitialize, proxyNet, history>>
        /\ crash' = crash
    BY <1>2 DEF proxyVars
  <2>2. ProxyCore'
    BY <2>1, <1>0, ProxyCoreFrame DEF ProxyCore, ProxyTyped, ProxyTypeOK
  <2>3. CrashesHaveCause'
    BY <2>1 DEF ProxyInv, CrashesHaveCause, history
  <2> QED
    BY <2>2, <2>3 DEF ProxyInv
<1> QED
  BY <1>1, <1>2

LEMMA ProxyInv_Somewhere == ProxyInv => PlayersAreSomewhere
<1> SUFFICES ASSUME ProxyInv PROVE PlayersAreSomewhere
  OBVIOUS
<1>0. /\ ProxyTyped /\ PlayersDiffer /\ TravellersAreKnown /\ CrashesHaveCause
      /\ \A n \in PlayerNames : OneTransfer(n)
  BY DEF ProxyInv, ProxyCore
<1>1. RedirectedToHisServer
  <2> SUFFICES ASSUME NEW n \in PlayerNames, IsOnline(n), player[n].peer \in SessionsStatus,
                      player[n].player_id \notin again
               PROVE  LET s == PlayerInEnvironmentToServer[player[n].peer]
                      IN  /\ player[n].IsApplied /\ player[n].ID = s
                          /\ player[n].player_id \in ClientDataTable[s]
                          /\ player[n].sao # "there"
    BY DEF RedirectedToHisServer
  <2>1. Known(n) /\ Remembered(n)
    BY <1>0 DEF IsOnline, TravellersAreKnown
  <2>2. Redirected(n)
    BY <1>0, <2>1 DEF Remembered, OneTransfer
  <2> QED
    BY <2>2 DEF Redirected, BeingSent
<1>2. NoGhosts
  <2> SUFFICES ASSUME NEW s \in SlaveServers, NEW id \in ClientDataTable[s] \ (again \union early)
               PROVE  (\E n \in WithId(id) : IsOnline(n))
                      \/ Contains(toSlave[s], Message("disconnect", id))
    BY DEF NoGhosts
  <2>1. id \in PlayerIds
    BY <1>0 DEF ProxyTyped, ProxyTypeOK
  <2>2. PICK n \in PlayerNames : Known(n) /\ player[n].player_id = id
    BY <2>1, <1>0 DEF TravellersAreKnown
  <2>3. OnServer(n, id, s)
    BY <2>2, <1>0 DEF OneTransfer
  <2>4. IsOnline(n) \/ Recalled(id, s)
    BY <2>3 DEF OnServer, BeingSent
  <2> QED
    BY <2>2, <2>4 DEF WithId, Recalled
<1>3. OnlyTravellersAreStuck
  <2> SUFFICES ASSUME NEW n \in PlayerNames, Known(n), ~IsOnline(n), player[n].sao # "marked"
               PROVE  player[n].to_other_server
    BY DEF OnlyTravellersAreStuck
  <2>1. player[n].sao \in {"there", "marked", "none"}
    BY <1>0 DEF ProxyTyped, ProxyTypeOK
  <2> QED
    BY <2>1, <1>0 DEF TravellersAreKnown, Remembered
<1> QED
  BY <1>0, <1>1, <1>2, <1>3 DEF PlayersAreSomewhere

LEMMA ProxyInv_TypeOK == ProxyInv => ProxyTypeOK
  BY DEF ProxyInv, ProxyCore, ProxyTyped

-----------------------------------------------------------------------------
(* Inventories: stacks.                                                    *)

LEMMA MinOfTwo ==
  ASSUME NEW a \in Int, NEW b \in Int
  PROVE  Min({a, b}) = IF a <= b THEN a ELSE b
<1>1. \E x \in {a, b} : \A y \in {a, b} : x <= y
  BY SMT
<1>2. Min({a, b}) \in {a, b} /\ \A y \in {a, b} : Min({a, b}) <= y
  BY <1>1 DEF Min
<1>3. QED
  BY <1>2, SMT

LEMMA MinIsAtMost ==
  ASSUME NEW a \in Nat, NEW b \in Nat
  PROVE  Min({a, b}) \in 0 .. b
  BY MinOfTwo, SMT

LEMMA MaxOfTwo ==
  ASSUME NEW a \in Int, NEW b \in Int
  PROVE  Max({a, b}) = IF a <= b THEN b ELSE a
<1>1. \E x \in {a, b} : \A y \in {a, b} : x >= y
  BY SMT
<1>2. Max({a, b}) \in {a, b} /\ \A y \in {a, b} : Max({a, b}) >= y
  BY <1>1 DEF Max
<1>3. QED
  BY <1>2, SMT

LEMMA StackIs ==
  ASSUME NEW s \in Stacks
  PROVE  /\ s.count \in 0 .. stack_max /\ s.name \in Items \union {NoItem}
         /\ s.count = 0 <=> s = Empty
         /\ s.count > 0 <=> s.name \in Items
         /\ s = Of(s.name, s.count)
<1>1. CASE s = Empty
  BY <1>1, InventoryAssumption DEF Empty, Of
<1>2. CASE s \in [name : Items, count : 1 .. stack_max]
  <2>1. s = [name |-> s.name, count |-> s.count] /\ s.name \in Items /\ s.count \in 1 .. stack_max
    BY <1>2
  <2>2. s # Empty
    BY <2>1 DEF Empty
  <2>3. QED
    BY <2>1, <2>2, InventoryAssumption DEF Of
<1>3. QED
  BY <1>1, <1>2 DEF Stacks

LEMMA OfIs ==
  ASSUME NEW name, NEW n \in 0 .. stack_max, n > 0 => name \in Items
  PROVE  Of(name, n) \in Stacks /\ Of(name, n).count = n /\ (n > 0 => Of(name, n).name = name)
<1>1. CASE n = 0
  BY <1>1 DEF Of, Stacks, Empty
<1>2. CASE n > 0
  BY <1>2 DEF Of, Stacks
<1>3. QED
  BY <1>1, <1>2

(* What is put on a stack is on it, or is left.                            *)
LEMMA StacksAdd ==
  ASSUME NEW s \in Stacks, NEW new \in Stacks
  PROVE  /\ RestOf(s, new) \in Stacks /\ PlusStack(s, new) \in Stacks
         /\ PlusStack(s, new).count + RestOf(s, new).count = s.count + new.count
         /\ RestOf(s, new).count <= new.count
         /\ RestOf(s, new).count > 0 => RestOf(s, new).name = new.name
         /\ new.count = 0 => PlusStack(s, new) = s
<1> DEFINE r == RestOf(s, new)
           p == PlusStack(s, new)
           S == stack_max
<1>0. /\ S \in Nat \ {0} /\ s.count \in 0 .. S /\ new.count \in 0 .. S
      /\ s.count > 0 => s.name \in Items
      /\ new.count > 0 => new.name \in Items
      /\ s = Of(s.name, s.count) /\ new = Of(new.name, new.count)
      /\ Empty \in Stacks /\ Empty.count = 0
  BY StackIs, InventoryAssumption DEF Stacks, Empty
<1>1. CASE new.count = 0
  <2>1. r = Empty /\ p = s
    BY <1>1 DEF RestOf, PlusStack
  <2>2. QED
    BY <1>0, <1>1, <2>1
<1>2. CASE new.count > 0 /\ s.count = 0
  <2>1. r = Empty /\ p = new
    BY <1>0, <1>2 DEF RestOf, PlusStack
  <2>2. QED
    BY <1>0, <1>2, <2>1
<1>3. CASE new.count > 0 /\ s.count > 0 /\ s.name # new.name
  <2>1. r = new /\ p = Of(s.name, s.count + new.count - new.count)
    BY <1>0, <1>3 DEF RestOf, PlusStack
  <2>2. p = s
    BY <1>0, <2>1
  <2>3. QED
    BY <1>0, <1>3, <2>1, <2>2
<1>4. CASE new.count > 0 /\ s.count > 0 /\ s.name = new.name
  <2> DEFINE n == Max({0, s.count + new.count - S})
  <2>1. n = IF s.count + new.count <= S THEN 0 ELSE s.count + new.count - S
    <3>1. \A x \in Int : Max({0, x}) = IF 0 <= x THEN x ELSE 0
      BY MaxOfTwo
    <3>2. s.count + new.count - S \in Int
      BY <1>0
    <3>3. QED
      BY <1>0, <3>1, <3>2
  <2>2. r = Of(new.name, n)
    BY <1>0, <1>4 DEF RestOf
  <2> HIDE DEF n
  <2>3. n \in 0 .. S /\ n <= new.count /\ new.name \in Items
    BY <1>0, <1>4, <2>1
  <2>4. r \in Stacks /\ r.count = n /\ (n > 0 => r.name = new.name)
    BY <2>2, <2>3, OfIs
  <2>5. p = Of(s.name, s.count + new.count - n)
    BY <1>0, <1>4, <2>4 DEF PlusStack
  <2>6. s.count + new.count - n \in 0 .. S
    BY <1>0, <2>1
  <2>7. p \in Stacks /\ p.count = s.count + new.count - n
    BY <1>0, <1>4, <2>5, <2>6, OfIs
  <2>8. QED
    BY <1>0, <1>4, <2>3, <2>4, <2>7
<1>5. QED
  BY <1>0, <1>1, <1>2, <1>3, <1>4

LEMMA StackTaken ==
  ASSUME NEW s \in Stacks, NEW n \in Nat
  PROVE  /\ takeItem(s, n) \in Stacks
         /\ takeItem(s, n).count = IF n <= s.count THEN s.count - n ELSE 0
         /\ takeItem(s, n).count > 0 => takeItem(s, n).name = s.name
         /\ n = 0 => takeItem(s, n) = s
<1>1. s.count \in 0 .. stack_max /\ stack_max \in Nat /\ (s.count > 0 => s.name \in Items)
      /\ s = Of(s.name, s.count)
  BY StackIs, InventoryAssumption
<1>2. PICK k \in 0 .. stack_max : k = IF n <= s.count THEN s.count - n ELSE 0
  BY <1>1
<1>3. s.count - Min({n, s.count}) = k
  BY <1>1, <1>2, MinOfTwo
<1>4. takeItem(s, n) = Of(s.name, k) /\ (k > 0 => s.name \in Items)
  BY <1>1, <1>2, <1>3 DEF takeItem
<1>5. QED
  BY <1>1, <1>2, <1>4, OfIs

-----------------------------------------------------------------------------
(* Lists of stacks: their shape, and what is in them.                      *)

Shape(D) == [D -> Seq(Stacks)]

(* Of what there was in inv only the lists ls are different in new.        *)
Changes(D, inv, new, ls) ==
  /\ new \in Shape(D)
  /\ \A l \in D : Len(new[l]) = Len(inv[l]) /\ (l \notin ls => new[l] = inv[l])

LEMMA SlotIs ==
  ASSUME NEW D, NEW inv \in Shape(D), NEW l \in D
  PROVE  /\ inv[l] \in Seq(Stacks) /\ Len(inv[l]) \in Nat
         /\ DOMAIN inv = D /\ DOMAIN inv[l] = 1 .. Len(inv[l])
         /\ \A i \in DOMAIN inv[l] : inv[l][i] \in Stacks
BY DEF Shape

LEMMA PutIs ==
  ASSUME NEW D, NEW inv \in Shape(D), NEW l \in D, NEW i \in DOMAIN inv[l], NEW s \in Stacks,
         NEW new, new = Put(inv, l, i, s)
  PROVE  /\ new \in Shape(D)
         /\ \A m \in D : Len(new[m]) = Len(inv[m]) /\ DOMAIN new[m] = DOMAIN inv[m]
         /\ \A m \in D : m # l => new[m] = inv[m]
         /\ \A m \in D : \A j \in DOMAIN inv[m] : ~(m = l /\ j = i) => new[m][j] = inv[m][j]
         /\ new[l][i] = s
<1> DEFINE q == [inv[l] EXCEPT ![i] = s]
<1>1. inv[l] \in Seq(Stacks) /\ DOMAIN inv = D /\ i \in 1 .. Len(inv[l])
  BY SlotIs
<1>2. q \in Seq(Stacks) /\ Len(q) = Len(inv[l]) /\ DOMAIN q = DOMAIN inv[l]
  BY <1>1
<1>3. new = [inv EXCEPT ![l] = q]
  BY DEF Put
<1>4. q[i] = s /\ \A j \in DOMAIN inv[l] : j # i => q[j] = inv[l][j]
  BY <1>1
<1> HIDE DEF q
<1>5. new \in Shape(D) /\ new[l] = q /\ \A m \in D : m # l => new[m] = inv[m]
  BY <1>1, <1>2, <1>3 DEF Shape
<1>6. QED
  BY <1>2, <1>4, <1>5

LEMMA SameChanges ==
  ASSUME NEW D, NEW inv \in Shape(D), NEW ls
  PROVE  Changes(D, inv, inv, ls)
BY DEF Changes

LEMMA PutChanges ==
  ASSUME NEW D, NEW inv \in Shape(D), NEW new, NEW ls, Changes(D, inv, new, ls),
         NEW l \in ls, l \in D, NEW i \in DOMAIN inv[l], NEW s \in Stacks
  PROVE  Changes(D, inv, Put(new, l, i, s), ls) /\ i \in DOMAIN new[l] /\ new \in Shape(D)
<1>1. new \in Shape(D) /\ Len(new[l]) = Len(inv[l])
  BY DEF Changes
<1>2. i \in DOMAIN new[l]
  BY <1>1, SlotIs
<1>3. PICK p : p = Put(new, l, i, s)
  OBVIOUS
<1>4. /\ p \in Shape(D)
      /\ \A m \in D : Len(p[m]) = Len(new[m])
      /\ \A m \in D : m # l => p[m] = new[m]
  BY <1>1, <1>2, <1>3, PutIs
<1>5. QED
  BY <1>1, <1>2, <1>3, <1>4 DEF Changes

LEMMA AddChanges ==
  ASSUME NEW D, NEW inv \in Shape(D), NEW new, NEW ls, Changes(D, inv, new, ls),
         NEW l \in ls, l \in D, NEW i \in DOMAIN inv[l], NEW s \in Stacks
  PROVE  Changes(D, inv, AddAt(new, l, i, s), ls)
<1>1. new \in Shape(D) /\ i \in DOMAIN new[l]
  BY StackIs, PutChanges
<1>2. new[l][i] \in Stacks
  BY <1>1, SlotIs
<1>3. PlusStack(new[l][i], s) \in Stacks
  BY <1>2, StacksAdd
<1>4. QED
  BY <1>3, PutChanges DEF AddAt

LEMMA ImageIsFinite ==
  ASSUME NEW S, IsFiniteSet(S), NEW f, DOMAIN f = S
  PROVE  IsFiniteSet({f[x] : x \in S})
<1> DEFINE T == {f[x] : x \in S}
           g == [x \in S |-> f[x]]
<1>1. g \in Surjection(S, T)
  BY DEF Surjection
<1>2. QED
  BY <1>1, FS_Surjection

(* What is in one slot.                                                    *)
InSlot(inv, l, i) == {<<l, i, n>> : n \in 1 .. inv[l][i].count}

LEMMA InSlotIs ==
  ASSUME NEW D, NEW inv \in Shape(D), NEW l \in D, NEW i \in DOMAIN inv[l]
  PROVE  /\ IsFiniteSet(InSlot(inv, l, i))
         /\ Cardinality(InSlot(inv, l, i)) = inv[l][i].count
         /\ inv[l][i].count \in Nat
<1>1. inv[l][i].count \in Nat
  BY SlotIs, StackIs, InventoryAssumption
<1>2. PICK c \in Nat : c = inv[l][i].count
  BY <1>1
<1> DEFINE T == {<<l, i, n>> : n \in 1 .. c}
           f == [n \in 1 .. c |-> <<l, i, n>>]
<1>3. T = InSlot(inv, l, i)
  BY <1>2 DEF InSlot
<1>4. f \in Bijection(1 .. c, T)
  <2>1. \A m, n \in 1 .. c : <<l, i, m>> = <<l, i, n>> => m = n
    OBVIOUS
  <2>2. QED
    BY <2>1 DEF Bijection, Injection, Surjection, IsInjective
<1>5. ExistsBijection(1 .. c, T)
  BY <1>4, Zenon DEF ExistsBijection
<1>6. IsFiniteSet(1 .. c) /\ Cardinality(1 .. c) = c
  BY FS_Interval
<1> HIDE DEF T
<1>7. QED
  BY <1>1, <1>2, <1>3, <1>5, <1>6, FS_Bijection

LEMMA ItemsAre ==
  ASSUME NEW D, NEW inv \in Shape(D)
  PROVE  \A x : x \in ItemsIn(inv)
                <=> \E l \in D : \E i \in DOMAIN inv[l] : x \in InSlot(inv, l, i)
<1>1. DOMAIN inv = D
  BY DEF Shape
<1> DEFINE In(l) == UNION {InSlot(inv, l, i) : i \in DOMAIN inv[l]}
<1>2. ItemsIn(inv) = UNION {In(l) : l \in D}
  BY <1>1, Zenon DEF ItemsIn, InSlot
<1>3. \A l \in D : \A x : x \in In(l) <=> \E i \in DOMAIN inv[l] : x \in InSlot(inv, l, i)
  OBVIOUS
<1> HIDE DEF In
<1>4. QED
  BY <1>2, <1>3

LEMMA ItemsAreFinite ==
  ASSUME NEW D, IsFiniteSet(D), NEW inv \in Shape(D)
  PROVE  IsFiniteSet(ItemsIn(inv)) /\ Total(inv) \in Nat
<1> DEFINE In(l) == UNION {InSlot(inv, l, i) : i \in DOMAIN inv[l]}
           f == [l \in D |-> In(l)]
<1>1. ASSUME NEW l \in D PROVE IsFiniteSet(In(l))
  <2> DEFINE g == [i \in DOMAIN inv[l] |-> InSlot(inv, l, i)]
             S == {g[i] : i \in DOMAIN inv[l]}
  <2>1. IsFiniteSet(DOMAIN inv[l])
    <3>1. DOMAIN inv[l] = 1 .. Len(inv[l]) /\ Len(inv[l]) \in Nat
      BY SlotIs
    <3>2. QED
      BY <3>1, FS_Interval
  <2>2. DOMAIN g = DOMAIN inv[l] /\ \A i \in DOMAIN inv[l] : g[i] = InSlot(inv, l, i)
    OBVIOUS
  <2>3. In(l) = UNION S
    BY <2>2, Zenon
  <2> HIDE DEF g
  <2>4. IsFiniteSet(S)
    BY <2>1, <2>2, ImageIsFinite
  <2>5. \A T \in S : IsFiniteSet(T)
    BY <2>2, InSlotIs
  <2> HIDE DEF S
  <2>6. IsFiniteSet(UNION S)
    BY <2>4, <2>5, FS_UNION
  <2>7. QED
    BY <2>3, <2>6
<1> DEFINE S == {f[l] : l \in D}
<1>2. DOMAIN f = D /\ \A l \in D : f[l] = In(l)
  OBVIOUS
<1>3. DOMAIN inv = D
  BY DEF Shape
<1>4. ItemsIn(inv) = UNION S
  <2>1. ItemsIn(inv) = UNION {In(l) : l \in D}
    BY <1>3, Zenon DEF ItemsIn, InSlot
  <2> HIDE DEF In, f
  <2>2. {In(l) : l \in D} = S
    BY <1>2
  <2>3. QED
    BY <2>1, <2>2
<1> HIDE DEF f, In
<1>5. IsFiniteSet(S)
  BY <1>2, ImageIsFinite
<1>6. \A T \in S : IsFiniteSet(T)
  BY <1>1, <1>2
<1> HIDE DEF S
<1>7. IsFiniteSet(UNION S)
  BY <1>5, <1>6, FS_UNION
<1>8. QED
  BY <1>4, <1>7, FS_CardinalityType DEF Total

(* A slot that is set changes the total by what it holds more.             *)
LEMMA TotalPut ==
  ASSUME NEW D, IsFiniteSet(D), NEW inv \in Shape(D), NEW l \in D, NEW i \in DOMAIN inv[l],
         NEW s \in Stacks
  PROVE  Total(Put(inv, l, i, s)) = Total(inv) - inv[l][i].count + s.count
<1>1. PICK new \in Shape(D) : /\ new = Put(inv, l, i, s)
                              /\ new[l][i] = s
                              /\ \A m \in D : /\ DOMAIN new[m] = DOMAIN inv[m]
                                              /\ \A j \in DOMAIN inv[m] :
                                                   ~(m = l /\ j = i) => new[m][j] = inv[m][j]
  <2>1. PICK new : new = Put(inv, l, i, s)
    OBVIOUS
  <2>2. QED
    BY <2>1, PutIs
<1>2. PICK A : A = ItemsIn(inv)
  OBVIOUS
<1>3. PICK B : B = ItemsIn(new)
  OBVIOUS
<1>4. PICK P : P = InSlot(inv, l, i)
  OBVIOUS
<1>5. PICK Q : Q = InSlot(new, l, i)
  OBVIOUS
<1>6. A \ P = B \ Q
  <2>1. ASSUME NEW u \in Shape(D), NEW w \in Shape(D),
               \A m \in D : /\ DOMAIN u[m] = DOMAIN w[m]
                            /\ \A j \in DOMAIN u[m] : ~(m = l /\ j = i) => u[m][j] = w[m][j],
               NEW x \in ItemsIn(u), x \notin InSlot(u, l, i)
        PROVE  x \in ItemsIn(w) /\ x \notin InSlot(w, l, i)
    <3>0. PICK m \in D : \E j \in DOMAIN u[m] : x \in InSlot(u, m, j)
      BY ItemsAre, <2>1
    <3>1. PICK j \in DOMAIN u[m] : x \in InSlot(u, m, j)
      BY <3>0
    <3>2. ~(m = l /\ j = i)
      BY <2>1, <3>1
    <3>3. InSlot(w, m, j) = InSlot(u, m, j)
      BY <2>1, <3>2 DEF InSlot
    <3>4. j \in DOMAIN w[m]
      BY <2>1
    <3>5. x \in ItemsIn(w)
      BY <3>1, <3>3, <3>4, ItemsAre
    <3>6. x[1] = m /\ x[2] = j
      BY <3>1 DEF InSlot
    <3>7. x \in InSlot(w, l, i) => x[1] = l /\ x[2] = i
      BY DEF InSlot
    <3>8. QED
      BY <3>2, <3>5, <3>6, <3>7
  <2>2. \A x \in A : x \notin P => x \in B /\ x \notin Q
    BY <1>1, <1>2, <1>3, <1>4, <1>5, <2>1
  <2>3. \A x \in B : x \notin Q => x \in A /\ x \notin P
    BY <1>1, <1>2, <1>3, <1>4, <1>5, <2>1
  <2>4. QED
    BY <2>2, <2>3
<1>7. P \subseteq A /\ Q \subseteq B
  <2>1. i \in DOMAIN new[l]
    BY <1>1
  <2>2. QED
    BY <1>2, <1>3, <1>4, <1>5, <2>1, ItemsAre
<1>8. IsFiniteSet(A) /\ IsFiniteSet(B) /\ Cardinality(A) \in Nat /\ Cardinality(B) \in Nat
      /\ Cardinality(A) = Total(inv) /\ Cardinality(B) = Total(new)
  BY <1>2, <1>3, ItemsAreFinite DEF Total
<1>9. Cardinality(P) = inv[l][i].count /\ Cardinality(Q) = s.count
      /\ Cardinality(P) \in Nat /\ Cardinality(Q) \in Nat
  <2>1. i \in DOMAIN new[l]
    BY <1>1
  <2>2. QED
    BY <1>1, <1>4, <1>5, <2>1, InSlotIs
<1>10. A \cap P = P /\ B \cap Q = Q
  BY <1>7
<1>11. Cardinality(A \ P) = Cardinality(A) - Cardinality(P)
  <2>1. Cardinality(A \ P) = Cardinality(A) - Cardinality(A \cap P)
    BY <1>8, FS_Difference
  <2>2. QED
    BY <1>10, <2>1
<1>12. Cardinality(B \ Q) = Cardinality(B) - Cardinality(Q)
  <2>1. Cardinality(B \ Q) = Cardinality(B) - Cardinality(B \cap Q)
    BY <1>8, FS_Difference
  <2>2. QED
    BY <1>10, <2>1
<1>13. Cardinality(A) - Cardinality(P) = Cardinality(B) - Cardinality(Q)
  BY <1>6, <1>11, <1>12
<1>14. QED
  BY <1>1, <1>8, <1>9, <1>13

(* What is added to a slot: the total grows by what is not left of it.     *)
LEMMA TotalAdd ==
  ASSUME NEW D, IsFiniteSet(D), NEW inv \in Shape(D), NEW l \in D, NEW i \in DOMAIN inv[l],
         NEW s \in Stacks
  PROVE  Total(AddAt(inv, l, i, s)) + RestOf(inv[l][i], s).count = Total(inv) + s.count
<1>1. inv[l][i] \in Stacks
  BY SlotIs
<1>2. PICK p \in Stacks : p = PlusStack(inv[l][i], s)
  BY <1>1, StacksAdd
<1>3. PICK r \in Stacks : r = RestOf(inv[l][i], s)
  BY <1>1, StacksAdd
<1>4. p.count + r.count = inv[l][i].count + s.count
  BY <1>1, <1>2, <1>3, StacksAdd
<1>5. Total(AddAt(inv, l, i, s)) = Total(inv) - inv[l][i].count + p.count
  BY <1>2, TotalPut DEF AddAt
<1>6. p.count \in Nat /\ r.count \in Nat /\ s.count \in Nat /\ inv[l][i].count \in Nat
      /\ Total(inv) \in Nat
  BY <1>1, <1>2, <1>3, StackIs, InventoryAssumption, ItemsAreFinite
<1>7. QED
  BY <1>3, <1>4, <1>5, <1>6

-----------------------------------------------------------------------------
(* Inventories: moving between two slots.                                  *)

LEMMA RestFits ==
  ASSUME NEW s \in Stacks, NEW new \in Stacks, s.count + new.count <= stack_max,
         s.count > 0 /\ new.count > 0 => s.name = new.name
  PROVE  RestOf(s, new).count = 0
<1>1. s.count \in Nat /\ new.count \in Nat /\ stack_max \in Nat
  BY StackIs, InventoryAssumption
<1>2. Max({0, s.count + new.count - stack_max}) = 0
  <2>1. \A x \in Int : Max({0, x}) = IF 0 <= x THEN x ELSE 0
    BY MaxOfTwo
  <2>2. s.count + new.count - stack_max \in Int /\ s.count + new.count - stack_max <= 0
    BY <1>1
  <2>3. QED
    BY <2>1, <2>2
<1>3. RestOf(s, new) = Empty \/ RestOf(s, new) = Of(new.name, 0)
  BY <1>1, <1>2 DEF RestOf
<1>4. QED
  BY <1>3 DEF Of, Empty

(* Whatever is moved or swapped, the lists keep their slots and the items  *)
(* are as many as they were.                                               *)
LEMMA MoveItemIs ==
  ASSUME NEW D, IsFiniteSet(D), NEW inv \in Shape(D),
         NEW f \in D, NEW fi \in DOMAIN inv[f], NEW t \in D, NEW ti \in DOMAIN inv[t],
         <<f, fi>> # <<t, ti>>, NEW count \in Nat, NEW mayswap,
         NEW m, m = moveItem(inv, f, fi, t, ti, count, mayswap)
  PROVE  /\ m = [inv |-> m.inv, moved |-> m.moved, swapped |-> m.swapped]
         /\ Changes(D, inv, m.inv, {f, t}) /\ Total(m.inv) = Total(inv)
         /\ m.moved \in Nat /\ m.swapped \in BOOLEAN
<1> DEFINE from  == inv[f][fi]
           n     == IF count = 0 THEN from.count ELSE Min({count, from.count})
           item  == Of(from.name, n)
           dest  == inv[t][ti]
           rest  == RestOf(dest, item)
           left  == takeItem(from, item.count)
           one   == Put(inv, f, fi, left)
           taken == AddAt(one, t, ti, item)
<1>1. /\ from \in Stacks /\ dest \in Stacks /\ from.count \in Nat /\ stack_max \in Nat
      /\ dest.count \in Nat
      /\ from.count <= stack_max /\ (from.count > 0 => from.name \in Items)
  BY SlotIs, StackIs, InventoryAssumption
<1>2. n \in 0 .. from.count
  <2>1. CASE count = 0
    BY <1>1, <2>1, SMT
  <2>2. CASE count # 0
    <3>1. Min({count, from.count}) \in 0 .. from.count
      BY <1>1, MinIsAtMost, Zenon
    <3>2. QED
      BY <2>2, <3>1, Zenon
  <2>3. QED
    BY <2>1, <2>2
<1>3. item \in Stacks /\ item.count = n /\ (n > 0 => item.name = from.name)
  <2> HIDE DEF from, n
  <2>1. n \in 0 .. stack_max /\ (n > 0 => from.name \in Items)
    BY <1>1, <1>2
  <2>2. QED
    BY <2>1, OfIs
<1>4. /\ rest \in Stacks /\ rest.count \in 0 .. n
      /\ rest.count > 0 => rest.name = item.name
  <2> HIDE DEF from, dest, item, n
  <2>1. rest \in Stacks /\ rest.count <= item.count /\ (rest.count > 0 => rest.name = item.name)
    BY <1>1, <1>3, StacksAdd
  <2>2. rest.count \in Nat
    BY <2>1, StackIs, InventoryAssumption
  <2>3. QED
    BY <1>1, <1>2, <1>3, <2>1, <2>2
<1>5. left \in Stacks /\ left.count = from.count - n /\ (left.count > 0 => left.name = from.name)
  <2> HIDE DEF from, dest, item, n
  <2>1. n \in Nat /\ item.count \in Nat
    BY <1>1, <1>2, <1>3
  <2>2. QED
    BY <1>1, <1>2, <1>3, <2>1, StackTaken
<1>6. m = IF item.count = 0 THEN [inv |-> inv, moved |-> 0, swapped |-> FALSE]
          ELSE IF rest = item /\ mayswap
          THEN [inv |-> Put(Put(inv, f, fi, dest), t, ti, from), moved |-> 0, swapped |-> TRUE]
          ELSE [inv |-> AddAt(taken, f, fi, rest), moved |-> item.count - rest.count,
                swapped |-> FALSE]
  BY DEF moveItem
<1> HIDE DEF from, dest, item, n, rest, left, one, taken
<1>7. CASE item.count = 0
  <2>1. m = [inv |-> inv, moved |-> 0, swapped |-> FALSE]
    BY <1>6, <1>7
  <2>2. QED
    BY <2>1, SameChanges
<1>8. CASE item.count # 0 /\ rest = item /\ mayswap
  <2> DEFINE p == Put(inv, f, fi, dest)
             q == Put(p, t, ti, from)
  <2>1. m = [inv |-> q, moved |-> 0, swapped |-> TRUE]
    BY <1>6, <1>8
  <2>2. Changes(D, inv, p, {f, t}) /\ p \in Shape(D) /\ ti \in DOMAIN p[t] /\ p[t][ti] = dest
    <3>1. p \in Shape(D) /\ \A k \in D : DOMAIN p[k] = DOMAIN inv[k]
      BY <1>1, PutIs
    <3>2. p[t][ti] = dest
      BY <1>1, PutIs DEF dest
    <3>3. Changes(D, inv, inv, {f, t})
      BY SameChanges
    <3>4. Changes(D, inv, p, {f, t})
      BY <1>1, <3>3, PutChanges
    <3>5. QED
      BY <3>1, <3>2, <3>4
  <2> HIDE DEF p
  <2>3. Changes(D, inv, q, {f, t})
    BY <1>1, <2>2, PutChanges
  <2>4. Total(p) = Total(inv) - from.count + dest.count
    BY <1>1, TotalPut DEF p, from
  <2>5. Total(q) = Total(p) - dest.count + from.count
    BY <1>1, <2>2, TotalPut
  <2>6. Total(inv) \in Nat
    BY ItemsAreFinite
  <2> HIDE DEF q
  <2>7. Total(q) = Total(inv)
    BY <1>1, <2>4, <2>5, <2>6
  <2>8. QED
    BY <2>1, <2>3, <2>7
<1>9. CASE item.count # 0 /\ ~(rest = item /\ mayswap)
  <2> DEFINE q == AddAt(taken, f, fi, rest)
  <2>1. m = [inv |-> q, moved |-> n - rest.count, swapped |-> FALSE]
    BY <1>3, <1>6, <1>9
  <2>2. one \in Shape(D) /\ one[f][fi] = left /\ one[t][ti] = dest /\ ti \in DOMAIN one[t]
        /\ fi \in DOMAIN one[f]
    <3>1. one \in Shape(D) /\ one[f][fi] = left /\ \A k \in D : DOMAIN one[k] = DOMAIN inv[k]
      BY <1>5, PutIs DEF one
    <3>2. one[t][ti] = dest
      <4>1. ~(t = f /\ ti = fi)
        OBVIOUS
      <4>2. QED
        BY <1>5, <4>1, PutIs DEF one, dest
    <3>3. QED
      BY <3>1, <3>2
  <2>3. Changes(D, inv, one, {f, t})
    <3>1. Changes(D, inv, inv, {f, t})
      BY SameChanges
    <3>2. QED
      BY <1>5, <3>1, PutChanges DEF one
  <2>4. PlusStack(dest, item) \in Stacks
    BY <1>1, <1>3, StacksAdd
  <2>5. taken = Put(one, t, ti, PlusStack(dest, item))
    BY <2>2 DEF taken, AddAt
  <2>6. taken \in Shape(D) /\ taken[f][fi] = left /\ fi \in DOMAIN taken[f]
    <3>1. taken \in Shape(D) /\ \A k \in D : DOMAIN taken[k] = DOMAIN one[k]
      BY <2>2, <2>4, <2>5, PutIs
    <3>2. taken[f][fi] = one[f][fi]
      <4>1. ~(f = t /\ fi = ti)
        OBVIOUS
      <4>2. QED
        BY <2>2, <2>4, <2>5, <4>1, PutIs
    <3>3. QED
      BY <2>2, <3>1, <3>2
  <2>7. Changes(D, inv, taken, {f, t})
    BY <2>3, <2>4, <2>5, PutChanges
  <2>8. Changes(D, inv, q, {f, t})
    BY <1>4, <2>7, AddChanges
  <2>9. Total(one) = Total(inv) - from.count + left.count
    BY <1>5, TotalPut DEF one, from
  <2>10. Total(taken) + rest.count = Total(one) + item.count
    BY <1>3, <2>2, TotalAdd DEF taken, rest
  <2>11. Total(q) + RestOf(left, rest).count = Total(taken) + rest.count
    BY <1>4, <2>6, TotalAdd
  <2>12. RestOf(left, rest).count = 0
    <3>1. left.count + rest.count <= stack_max
      <4> HIDE DEF q
      <4>1. QED
        BY <1>1, <1>2, <1>4, <1>5
    <3>2. left.count > 0 /\ rest.count > 0 => left.name = rest.name
      BY <1>2, <1>3, <1>4, <1>5
    <3>3. QED
      BY <1>4, <1>5, <3>1, <3>2, RestFits
  <2>13. Total(inv) \in Nat /\ Total(one) \in Nat /\ Total(taken) \in Nat /\ Total(q) \in Nat
    <3>1. q \in Shape(D)
      BY <2>8 DEF Changes
    <3>2. QED
      BY <2>2, <2>6, <3>1, ItemsAreFinite
  <2> HIDE DEF q
  <2>14. Total(q) = Total(inv)
    BY <1>1, <1>2, <1>3, <1>4, <1>5, <2>9, <2>10, <2>11, <2>12, <2>13
  <2>15. n - rest.count \in Nat
    BY <1>1, <1>2, <1>4
  <2>16. QED
    BY <2>1, <2>8, <2>14, <2>15
<1>10. QED
  BY <1>7, <1>8, <1>9

-----------------------------------------------------------------------------
(* Inventories: what the server makes of a move.                           *)

(* A move of an inventory inv for the action a, and what came of it: only  *)
(* the two lists change, and only when something was done, and no item is  *)
(* made or lost unless a callback gave one.                                *)
Outcomes == [inv : Shape(Lists), moved : Int, done : BOOLEAN, refused : BOOLEAN, free : BOOLEAN]

HasMoved(inv, a, r) ==
  /\ r \in Outcomes
  /\ Changes(Lists, inv, r.inv, {a.from, a.to})
  /\ r.done \/ r.refused \/ r.inv = inv
  /\ r.free \/ Total(r.inv) = Total(inv)

CanMove(inv, a, ti) ==
  /\ a.from \in Lists /\ a.to \in Lists
  /\ a.i \in DOMAIN inv[a.from] /\ ti \in DOMAIN inv[a.to]
  /\ <<a.from, a.i>> # <<a.to, ti>>

LEMMA ListsAreFinite == IsFiniteSet(Lists)
BY InventoryAssumption

LEMMA NothingIs ==
  ASSUME NEW inv \in Shape(Lists), NEW a
  PROVE  /\ HasMoved(inv, a, Nothing(inv))
         /\ HasMoved(inv, a, [Nothing(inv) EXCEPT !.refused = TRUE])
<1>1. Changes(Lists, inv, inv, {a.from, a.to})
  BY SameChanges
<1>2. \A b \in BOOLEAN :
        LET r == [inv |-> inv, moved |-> 0, done |-> FALSE, refused |-> b, free |-> FALSE]
        IN  r \in Outcomes /\ r.inv = inv
  BY DEF Outcomes
<1>3. Nothing(inv) \in Outcomes /\ Nothing(inv).inv = inv
  BY <1>2 DEF Nothing
<1>4. PICK e \in Outcomes : e = Nothing(inv)
  BY <1>3
<1>5. [e EXCEPT !.refused = TRUE] \in Outcomes /\ [e EXCEPT !.refused = TRUE].inv = e.inv
  BY DEF Outcomes
<1>6. QED
  BY <1>1, <1>3, <1>4, <1>5 DEF HasMoved

LEMMA RefilledIs ==
  ASSUME NEW inv \in Shape(Lists), NEW a, NEW ti, CanMove(inv, a, ti),
         NEW m, Changes(Lists, inv, m.inv, {a.from, a.to}),
         NEW was \in Stacks, NEW toWas \in Stacks, NEW take, NEW caused,
         NEW r, r = Refilled(inv, a, was, toWas, m, take, caused)
  PROVE  /\ Changes(Lists, inv, r, {a.from, a.to})
         /\ take # -1 => r = m.inv
<1> DEFINE gaps == {i \in DOMAIN m.inv[a.to] : m.inv[a.to][i].count = 0}
           kept == IF ~caused /\ was.name # toWas.name /\ gaps # {}
                   THEN Put(m.inv, a.to, Min(gaps), toWas) ELSE m.inv
<1>1. m.inv \in Shape(Lists) /\ a.to \in Lists /\ a.from \in Lists
  BY DEF Changes, CanMove
<1>2. DOMAIN m.inv[a.to] = 1 .. Len(m.inv[a.to]) /\ Len(m.inv[a.to]) \in Nat
      /\ DOMAIN inv[a.to] = 1 .. Len(inv[a.to]) /\ Len(m.inv[a.to]) = Len(inv[a.to])
  BY <1>1, SlotIs DEF Changes
<1>3. gaps # {} => Min(gaps) \in DOMAIN inv[a.to]
  <2>1. gaps \subseteq DOMAIN inv[a.to] /\ gaps \in SUBSET Nat
    BY <1>2
  <2> HIDE DEF gaps
  <2>2. QED
    BY <2>1, MinIsIn
<1>4. Changes(Lists, inv, kept, {a.from, a.to})
  <2>1. CASE ~caused /\ was.name # toWas.name /\ gaps # {}
    <3>1. kept = Put(m.inv, a.to, Min(gaps), toWas)
      BY <2>1
    <3> HIDE DEF kept, gaps
    <3>2. QED
      BY <1>1, <1>3, <2>1, <3>1, PutChanges
  <2>2. CASE ~(~caused /\ was.name # toWas.name /\ gaps # {})
    <3>1. kept = m.inv
      BY <2>2
    <3> HIDE DEF kept
    <3>2. QED
      BY <3>1
  <2>3. QED
    BY <2>1, <2>2
<1>5. r = IF take # -1 THEN m.inv
          ELSE IF m.moved > 0 \/ m.swapped THEN Put(kept, a.from, a.i, was) ELSE kept
  BY DEF Refilled
<1> HIDE DEF kept
<1>6. Changes(Lists, inv, Put(kept, a.from, a.i, was), {a.from, a.to})
  <2>1. a.i \in DOMAIN inv[a.from]
    BY DEF CanMove
  <2>2. QED
    BY <1>1, <1>4, <2>1, PutChanges
<1>7. QED
  BY <1>4, <1>5, <1>6

LEMMA MovedToIs ==
  ASSUME NEW inv \in Shape(Lists), NEW a, NEW ti, CanMove(inv, a, ti),
         NEW count \in Nat, NEW mayswap \in BOOLEAN, NEW take, NEW put, NEW caused
  PROVE  HasMoved(inv, a, MovedTo(inv, a, ti, moveItem(inv, a.from, a.i, a.to, ti, count, mayswap),
                               count, take, put, caused))
<1> DEFINE was    == inv[a.from][a.i]
           toWas  == inv[a.to][ti]
<1>0. a.from \in Lists /\ a.to \in Lists /\ a.i \in DOMAIN inv[a.from] /\ ti \in DOMAIN inv[a.to]
      /\ <<a.from, a.i>> # <<a.to, ti>>
  BY DEF CanMove
<1>1. was \in Stacks /\ toWas \in Stacks
  BY <1>0, SlotIs
<1>2. PICK m : m = moveItem(inv, a.from, a.i, a.to, ti, count, mayswap)
  OBVIOUS
<1>3. Changes(Lists, inv, m.inv, {a.from, a.to}) /\ Total(m.inv) = Total(inv)
      /\ m.moved \in Nat
  <2>1. PICK f \in Lists, t \in Lists : f = a.from /\ t = a.to
    BY <1>0
  <2>2. PICK fi : fi = a.i
    OBVIOUS
  <2>3. fi \in DOMAIN inv[f] /\ ti \in DOMAIN inv[t] /\ <<f, fi>> # <<t, ti>>
        /\ m = moveItem(inv, f, fi, t, ti, count, mayswap)
    BY <1>0, <1>2, <2>1, <2>2
  <2>4. Changes(Lists, inv, m.inv, {f, t}) /\ Total(m.inv) = Total(inv) /\ m.moved \in Nat
    BY <2>3, ListsAreFinite, MoveItemIs
  <2>5. QED
    BY <2>1, <2>4
<1> DEFINE refill == Refilled(inv, a, was, toWas, m, take, caused)
           back   == Put(Put(refill, a.to, ti, toWas), a.from, a.i, takeItem(was, count))
           r      == MovedTo(inv, a, ti, m, count, take, put, caused)
<1>4. Changes(Lists, inv, refill, {a.from, a.to}) /\ (take # -1 => refill = m.inv)
  <2> HIDE DEF was, toWas
  <2>1. PICK u : u = refill
    OBVIOUS
  <2>2. u = Refilled(inv, a, was, toWas, m, take, caused)
    BY <2>1
  <2>3. Changes(Lists, inv, u, {a.from, a.to}) /\ (take # -1 => u = m.inv)
    BY <1>1, <1>3, <2>2, RefilledIs, SMTT(60)
  <2>4. QED
    BY <2>1, <2>3
<1>5. r = [inv |-> IF put = -1 THEN back ELSE refill, moved |-> m.moved, done |-> TRUE,
           refused |-> FALSE, free |-> take = -1 \/ put = -1]
  BY DEF MovedTo
<1> HIDE DEF refill, was, toWas, r
<1>6. Changes(Lists, inv, Put(refill, a.to, ti, toWas), {a.from, a.to})
  BY <1>0, <1>1, <1>4, PutChanges
<1>7. takeItem(was, count) \in Stacks
  BY <1>1, StackTaken
<1>8. Changes(Lists, inv, back, {a.from, a.to})
  BY <1>0, <1>6, <1>7, PutChanges
<1> HIDE DEF back
<1>9. Changes(Lists, inv, r.inv, {a.from, a.to}) /\ r.done
  BY <1>4, <1>5, <1>8
<1>10. r \in Outcomes
  <2>1. back \in Shape(Lists) /\ refill \in Shape(Lists)
    BY <1>4, <1>8 DEF Changes
  <2>2. QED
    BY <1>3, <1>5, <2>1 DEF Outcomes
<1>11. r.free \/ Total(r.inv) = Total(inv)
  <2>1. CASE take = -1 \/ put = -1
    BY <1>5, <2>1
  <2>2. CASE take # -1 /\ put # -1
    <3>1. r.inv = m.inv
      BY <1>4, <1>5, <2>2
    <3>2. QED
      BY <1>3, <3>1
  <2>3. QED
    BY <2>1, <2>2
<1>12. HasMoved(inv, a, r)
  BY <1>9, <1>10, <1>11 DEF HasMoved
<1>13. QED
  BY <1>2, <1>12 DEF r

LEMMA AtMostIs ==
  ASSUME NEW n \in Nat, NEW x \in Nat \union {-1}
  PROVE  AtMost(n, x) \in Nat /\ AtMost(n, x) <= n
<1>1. CASE x = -1
  BY <1>1 DEF AtMost
<1>2. CASE x \in Nat
  <2>1. x # -1
    BY <1>2
  <2>2. AtMost(n, x) = Min({n, x})
    BY <2>1 DEF AtMost
  <2>3. Min({n, x}) = IF n <= x THEN n ELSE x
    BY <1>2, MinOfTwo
  <2>4. QED
    BY <1>2, <2>2, <2>3
<1>3. QED
  BY <1>1, <1>2

Callbacks == [take : Nat \union {-1}, put : Nat \union {-1}, back : Nat \union {-1}]

(* apply for one destination slot.                                         *)
LEMMA ApplyToIs ==
  ASSUME NEW inv \in Shape(Lists), NEW a, NEW ti, CanMove(inv, a, ti),
         NEW count0 \in Int, NEW caused \in BOOLEAN, NEW allow \in Callbacks
  PROVE  HasMoved(inv, a, applyTo(inv, a, ti, count0, caused, allow))
<1> DEFINE was   == inv[a.from][a.i]
           toWas == inv[a.to][ti]
           n     == IF count0 > 0 THEN Min({count0, was.count}) ELSE was.count
           wanted == Of(was.name, n)
           full  == RestOf(toWas, wanted) = wanted
           src   == IF full THEN was ELSE wanted
           back  == full /\ Allows(allow.take, src.count)
           swap  == /\ back /\ Allows(allow.back, toWas.count)
                    /\ SameInventory(a) \/ Allows(allow.put, src.count)
           put0  == IF ~SameInventory(a) THEN allow.put
                    ELSE IF back THEN allow.back ELSE allow.take
           take  == IF full /\ ~swap THEN 0 ELSE allow.take
           put   == IF full /\ ~swap THEN 0 ELSE put0
           count == AtMost(AtMost(src.count, take), put)
<1>1. was \in Stacks /\ was.count \in Nat /\ was.count \in 0 .. stack_max /\ stack_max \in Nat
      /\ (was.count > 0 => was.name \in Items)
  <2>1. was \in Stacks
    BY SlotIs DEF CanMove
  <2> HIDE DEF was
  <2>2. QED
    BY <2>1, StackIs, InventoryAssumption
<1>2. wanted.count \in Nat
  <2>1. n \in 0 .. was.count
    <3> HIDE DEF was
    <3>1. CASE count0 > 0
      BY <1>1, <3>1, MinOfTwo
    <3>2. CASE ~(count0 > 0)
      BY <1>1, <3>2
    <3>3. QED
      BY <3>1, <3>2
  <2>2. n \in 0 .. stack_max /\ (n > 0 => was.name \in Items)
    <3> HIDE DEF was, n
    <3>1. QED
      BY <1>1, <2>1
  <2> HIDE DEF was, n
  <2>3. wanted.count = n
    BY <2>2, OfIs
  <2>4. QED
    BY <1>1, <2>1, <2>3
<1> HIDE DEF was, n
<1>3. src.count \in Nat
  BY <1>1, <1>2
<1>4. take \in Nat \union {-1} /\ put \in Nat \union {-1}
  <2>1. allow.take \in Nat \union {-1} /\ allow.put \in Nat \union {-1}
        /\ allow.back \in Nat \union {-1} /\ 0 \in Nat \union {-1}
    BY DEF Callbacks
  <2> HIDE DEF full, swap, back
  <2>2. QED
    BY <2>1
<1> HIDE DEF src, take, put, swap, full
<1>5. count \in Nat
  BY <1>3, <1>4, AtMostIs
<1>6. swap \in BOOLEAN
  BY DEF swap
<1> HIDE DEF count
<1>7. applyAllowed(inv, a, ti, count, take, put, swap, caused)
      = IF count = 0 THEN [Nothing(inv) EXCEPT !.refused = TRUE]
        ELSE MovedTo(inv, a, ti, moveItem(inv, a.from, a.i, a.to, ti, count, swap), count, take,
                     put, caused)
  BY DEF applyAllowed
<1>8. HasMoved(inv, a, applyAllowed(inv, a, ti, count, take, put, swap, caused))
  BY <1>5, <1>6, <1>7, MovedToIs, NothingIs
<1>9. applyAsked(inv, a, ti, src, toWas, full, caused, allow)
      = applyAllowed(inv, a, ti, count, take, put, swap, caused)
  BY DEF applyAsked, count, take, put, swap
<1>10. applyTo(inv, a, ti, count0, caused, allow)
       = IF wanted.count = 0 \/ (caused /\ full) THEN Nothing(inv)
         ELSE applyAsked(inv, a, ti, src, toWas, full, caused, allow)
  BY DEF applyTo, src, full, n, was
<1> HIDE DEF wanted, toWas
<1>11. QED
  BY <1>8, <1>9, <1>10, NothingIs

-----------------------------------------------------------------------------
(* Inventories: one slot after the other.                                  *)

LEMMA NoLeast ==
  ASSUME NEW B, B \subseteq Nat, 0 \notin B, \A m \in Nat : m \notin B => m + 1 \notin B
  PROVE  B = {}
<1> SUFFICES ASSUME B # {} PROVE FALSE
  OBVIOUS
<1>1. PICK x \in B : \A y \in B : ~(<<y, x>> \in OpToRel(<, Nat))
  BY NatLessThanWellFounded, WFMin, Zenon
<1>2. \A y \in B : ~(y < x)
  BY <1>1 DEF OpToRel
<1>3. x - 1 \in Nat /\ (x - 1) + 1 = x /\ x - 1 < x
  OBVIOUS
<1>4. QED
  BY <1>2, <1>3

(* A function that each step takes to a value of A stays in it.            *)
LEMMA StepsStay ==
  ASSUME NEW A, NEW n \in Nat, NEW h, h[0] \in A,
         \A k \in 1 .. n : h[k - 1] \in A => h[k] \in A
  PROVE  h[n] \in A
<1> DEFINE B == {m \in 0 .. n : h[m] \notin A}
<1>1. B \subseteq Nat /\ 0 \notin B
  OBVIOUS
<1>2. ASSUME NEW m \in Nat, m \notin B, m + 1 \in B PROVE FALSE
  <2>1. m + 1 \in 1 .. n /\ m \in 0 .. n /\ (m + 1) - 1 = m /\ h[m + 1] \notin A
    BY <1>2
  <2>2. h[m] \in A
    BY <1>2, <2>1
  <2>3. QED
    BY <2>1, <2>2
<1> HIDE DEF B
<1>3. B = {}
  BY <1>1, <1>2, NoLeast
<1>4. QED
  BY <1>3 DEF B

(* What is defined by steps that stay in A is there.                       *)
StepsIn(A, x, n, G) ==
  \E h \in [0 .. n -> A] : h = [k \in 0 .. n |-> IF k = 0 THEN x ELSE G[k][h[k - 1]]]

LEMMA StepsAreThere ==
  ASSUME NEW A, NEW x \in A, NEW n \in Nat, NEW G \in [1 .. n -> [A -> A]]
  PROVE  StepsIn(A, x, n, G)
<1> DEFINE Step(h, k) == IF k = 0 THEN x ELSE G[k][h[k - 1]]
           B == {m \in 0 .. n : ~\E h \in [0 .. m -> A] : h = [k \in 0 .. m |-> Step(h, k)]}
<1>1. B \subseteq Nat
  OBVIOUS
<1>2. 0 \notin B
  <2> DEFINE h == [k \in 0 .. 0 |-> x]
  <2>1. h \in [0 .. 0 -> A] /\ h = [k \in 0 .. 0 |-> Step(h, k)]
    OBVIOUS
  <2>2. QED
    BY <2>1, Zenon
<1>3. ASSUME NEW m \in Nat, m \notin B, m + 1 \in B PROVE FALSE
  <2>1. m \in 0 .. n /\ m + 1 \in 1 .. n /\ m + 1 \in 0 .. n
    BY <1>3
  <2>2. PICK f \in [0 .. m -> A] : f = [k \in 0 .. m |-> Step(f, k)]
    BY <1>3, <2>1
  <2>3. G[m + 1] \in [A -> A] /\ f[m] \in A
    BY <2>1
  <2>4. PICK v \in A : v = G[m + 1][f[m]]
    BY <2>3
  <2> DEFINE g == [k \in 0 .. m + 1 |-> IF k = m + 1 THEN v ELSE f[k]]
  <2>5. \A k \in 0 .. m + 1 : k = m + 1 \/ (k \in 0 .. m /\ k # m + 1)
    OBVIOUS
  <2>6. g \in [0 .. m + 1 -> A]
    BY <2>5
  <2>7. \A k \in 0 .. m : g[k] = f[k]
    OBVIOUS
  <2>8. g[m + 1] = v /\ (m + 1) - 1 = m /\ m + 1 # 0 /\ m \in 0 .. m
    OBVIOUS
  <2>9. \A k \in 0 .. m : k # 0 => k - 1 \in 0 .. m
    OBVIOUS
  <2>10. \A k \in 0 .. m : f[k] = Step(f, k)
    <3> HIDE DEF Step
    <3>1. QED
      BY <2>2, Zenon
  <2>11. g = [k \in 0 .. m + 1 |-> g[k]]
    OBVIOUS
  <2> HIDE DEF g
  <2>12. \A k \in 0 .. m + 1 : g[k] = Step(g, k)
    <3> SUFFICES ASSUME NEW k \in 0 .. m + 1 PROVE g[k] = Step(g, k)
      OBVIOUS
    <3>1. CASE k = m + 1
      BY <2>4, <2>7, <2>8, <3>1
    <3>2. CASE k # m + 1
      <4>1. k \in 0 .. m
        BY <2>5, <3>2
      <4>2. g[k] = f[k] /\ f[k] = Step(f, k) /\ (k # 0 => g[k - 1] = f[k - 1])
        BY <2>7, <2>9, <2>10, <4>1
      <4>3. QED
        BY <4>2
    <3>3. QED
      BY <3>1, <3>2
  <2> HIDE DEF Step
  <2>13. g = [k \in 0 .. m + 1 |-> Step(g, k)]
    BY <2>11, <2>12
  <2>14. m + 1 \notin B
    BY <2>6, <2>13
  <2>15. QED
    BY <1>3, <2>14
<1> HIDE DEF B
<1>4. B = {}
  BY <1>1, <1>2, <1>3, NoLeast
<1>5. QED
  BY <1>4 DEF B, StepsIn

LEMMA VisitedIs ==
  ASSUME NEW D, NEW inv \in Shape(D), NEW l \in D
  PROVE  Visits(inv, l) \in Nat
         /\ \A k \in 1 .. Visits(inv, l) : Visited(inv, l, k) \in DOMAIN inv[l]
<1>1. PICK n \in Nat : n = Len(inv[l])
  BY SlotIs
<1>2. DOMAIN inv[l] = 1 .. n
  BY <1>1, SlotIs
<1>3. \A k \in 1 .. 2 * n : (IF k <= n THEN k ELSE k - n) \in 1 .. n
  OBVIOUS
<1>4. QED
  BY <1>1, <1>2, <1>3 DEF Visits, Visited

(* InventoryList::addItem only fills the slots of its list.                *)
LEMMA AddItemIs ==
  ASSUME NEW D, NEW inv \in Shape(D), NEW l \in D, NEW item \in Stacks,
         NEW r, r = addItem(inv, l, item)
  PROVE  Changes(D, inv, r.inv, {l}) /\ r.rest \in Stacks
<1>1. PICK n \in Nat : n = Visits(inv, l)
  BY VisitedIs
<1> DEFINE A == {acc \in [inv : Shape(D), rest : Stacks] : Changes(D, inv, acc.inv, {l})}
           x == [inv |-> inv, rest |-> item]
           G == [k \in 1 .. n |-> [acc \in A |-> addInto(acc, l, k)]]
           Step(f, k) == IF k = 0 THEN x ELSE addInto(f[k - 1], l, k)
           F == CHOOSE f : f = [k \in 0 .. n |-> Step(f, k)]
<1>2. x \in A
  BY SameChanges
<1>3. ASSUME NEW k \in 1 .. n, NEW acc \in A PROVE addInto(acc, l, k) \in A
  <2>1. acc \in [inv : Shape(D), rest : Stacks] /\ Changes(D, inv, acc.inv, {l})
    OBVIOUS
  <2>2. acc.inv \in Shape(D) /\ acc.rest \in Stacks /\ Len(acc.inv[l]) = Len(inv[l])
    BY <2>1 DEF Changes
  <2>3. k \in 1 .. Visits(acc.inv, l)
    BY <1>1, <2>2 DEF Visits
  <2>4. PICK i \in DOMAIN acc.inv[l] : i = Visited(acc.inv, l, k)
    BY <2>2, <2>3, VisitedIs
  <2>5. acc.inv[l][i] \in Stacks /\ i \in DOMAIN inv[l]
    BY <2>2, SlotIs
  <2>6. PICK u \in Stacks : u = RestOf(acc.inv[l][i], acc.rest)
    BY <2>2, <2>5, StacksAdd
  <2>7. PICK p : p = AddAt(acc.inv, l, i, acc.rest)
    OBVIOUS
  <2>8. Changes(D, inv, p, {l})
    BY <2>1, <2>2, <2>5, <2>7, AddChanges
  <2>9. [inv |-> p, rest |-> u] \in A
    BY <2>6, <2>8 DEF Changes
  <2>10. addInto(acc, l, k) = IF ~ItsTurn(acc.inv, l, k) THEN acc ELSE [inv |-> p, rest |-> u]
    BY <2>4, <2>6, <2>7 DEF addInto
  <2> HIDE DEF A
  <2>11. QED
    BY <2>9, <2>10
<1>4. G \in [1 .. n -> [A -> A]] /\ \A k \in 1 .. n : \A acc \in A : G[k][acc] = addInto(acc, l, k)
  <2> HIDE DEF A
  <2>1. QED
    BY <1>3
<1> HIDE DEF A, x, G
<1>5. PICK h \in [0 .. n -> A] : h = [k \in 0 .. n |-> IF k = 0 THEN x ELSE G[k][h[k - 1]]]
  <2>1. StepsIn(A, x, n, G)
    BY <1>2, <1>4, StepsAreThere
  <2>2. QED
    BY <2>1, Zenon DEF StepsIn
<1>6. \A k \in 0 .. n : h[k] = Step(h, k)
  <2> SUFFICES ASSUME NEW k \in 0 .. n PROVE h[k] = Step(h, k)
    OBVIOUS
  <2>1. h[k] = IF k = 0 THEN x ELSE G[k][h[k - 1]]
    BY <1>5, Zenon
  <2>2. k # 0 => k \in 1 .. n /\ h[k - 1] \in A
    OBVIOUS
  <2>3. QED
    BY <1>4, <2>1, <2>2
<1>7. h = [k \in 0 .. n |-> h[k]]
  OBVIOUS
<1>8. h = [k \in 0 .. n |-> Step(h, k)]
  <2> HIDE DEF Step
  <2>1. QED
    BY <1>6, <1>7
<1>9. F = [k \in 0 .. n |-> Step(F, k)]
  <2> HIDE DEF Step
  <2>1. QED
    BY <1>8, Zenon
<1>10. r = F[n]
  BY <1>1 DEF addItem, x
<1> HIDE DEF F
<1>11. F[0] = x /\ \A k \in 1 .. n : F[k] = addInto(F[k - 1], l, k)
  <2>1. \A k \in 0 .. n : F[k] = Step(F, k)
    <3> HIDE DEF Step
    <3>1. QED
      BY <1>9, Zenon
  <2>2. 0 \in 0 .. n /\ \A k \in 1 .. n : k # 0 /\ k \in 0 .. n
    OBVIOUS
  <2>3. QED
    BY <2>1, <2>2
<1>12. F[n] \in A
  <2>1. F[0] \in A
    BY <1>2, <1>11
  <2>2. \A k \in 1 .. n : F[k - 1] \in A => F[k] \in A
    BY <1>3, <1>11
  <2>3. QED
    BY <2>1, <2>2, StepsStay
<1>13. QED
  BY <1>10, <1>12 DEF A

(* The client's prediction of moving somewhere.                            *)
LEMMA MoveSomewhereIs ==
  ASSUME NEW D, NEW inv \in Shape(D), NEW f \in D, NEW fi \in DOMAIN inv[f], NEW t \in D,
         NEW count \in Nat
  PROVE  Changes(D, inv, moveItemSomewhere(inv, f, fi, t, count), {f, t})
<1> DEFINE from == inv[f][fi]
           n    == Min({count, from.count})
           item == Of(from.name, n)
           one  == Put(inv, f, fi, takeItem(from, item.count))
           added == addItem(one, t, item)
<1>1. /\ from \in Stacks /\ from.count \in Nat /\ stack_max \in Nat
      /\ from.count <= stack_max /\ (from.count > 0 => from.name \in Items)
  BY SlotIs, StackIs, InventoryAssumption
<1>2. n \in 0 .. from.count
  BY <1>1, MinIsAtMost, Zenon
<1>3. item \in Stacks /\ item.count = n
  <2> HIDE DEF from, n
  <2>1. n \in 0 .. stack_max /\ (n > 0 => from.name \in Items)
    BY <1>1, <1>2
  <2>2. QED
    BY <2>1, OfIs
<1>4. takeItem(from, item.count) \in Stacks
  <2> HIDE DEF from, n, item
  <2>1. item.count \in Nat
    BY <1>1, <1>2, <1>3
  <2>2. QED
    BY <1>1, <2>1, StackTaken
<1>5. moveItemSomewhere(inv, f, fi, t, count) = AddAt(added.inv, f, fi, added.rest)
  BY DEF moveItemSomewhere
<1> HIDE DEF from, n, item
<1>6. Changes(D, inv, one, {f, t})
  <2>1. Changes(D, inv, inv, {f, t})
    BY SameChanges
  <2>2. QED
    BY <1>4, <2>1, PutChanges
<1> HIDE DEF one
<1>7. one \in Shape(D)
  BY <1>6 DEF Changes
<1>8. PICK u : u = added
  OBVIOUS
<1>9. Changes(D, one, u.inv, {t}) /\ u.rest \in Stacks
  BY <1>3, <1>7, <1>8, AddItemIs
<1>10. Changes(D, inv, u.inv, {f, t})
  BY <1>6, <1>9 DEF Changes
<1>11. Changes(D, inv, AddAt(u.inv, f, fi, u.rest), {f, t})
  BY <1>9, <1>10, AddChanges
<1> HIDE DEF added
<1>12. QED
  BY <1>5, <1>8, <1>11

(* apply with move_somewhere: slot by slot, the moves add up.              *)
LEMMA ApplySomewhereIs ==
  ASSUME NEW inv \in Shape(Lists), NEW a, a.from \in Lists, a.to \in Lists, a.from # a.to,
         a.i \in DOMAIN inv[a.from], a.count \in Nat, NEW allow \in Callbacks
  PROVE  HasMoved(inv, a, applySomewhere(inv, a, allow))
<1>1. PICK n \in Nat : n = Visits(inv, a.to)
  BY VisitedIs
<1> DEFINE A == {acc \in [left : Int, res : Outcomes] : HasMoved(inv, a, acc.res)}
           x == [left |-> a.count, res |-> Nothing(inv)]
           G == [k \in 1 .. n |-> [acc \in A |-> applyNext(acc, a, k, allow)]]
           Step(f, k) == IF k = 0 THEN x ELSE applyNext(f[k - 1], a, k, allow)
           F == CHOOSE f : f = [k \in 0 .. n |-> Step(f, k)]
<1>2. x \in A
  <2>1. HasMoved(inv, a, Nothing(inv)) /\ Nothing(inv) \in Outcomes
    BY NothingIs DEF HasMoved
  <2>2. QED
    BY <2>1
<1>3. ASSUME NEW k \in 1 .. n, NEW acc \in A PROVE applyNext(acc, a, k, allow) \in A
  <2>1. acc.left \in Int /\ acc.res \in Outcomes /\ HasMoved(inv, a, acc.res)
    OBVIOUS
  <2>2. PICK u : u = acc.res.inv
    OBVIOUS
  <2>3. u \in Shape(Lists) /\ \A l \in Lists : Len(u[l]) = Len(inv[l])
    BY <2>1, <2>2 DEF HasMoved, Changes
  <2>4. \A l \in Lists : DOMAIN u[l] = DOMAIN inv[l]
    BY <2>3, SlotIs
  <2>5. k \in 1 .. Visits(u, a.to)
    BY <1>1, <2>3 DEF Visits
  <2>6. PICK ti \in DOMAIN u[a.to] : ti = Visited(u, a.to, k)
    BY <2>3, <2>5, VisitedIs
  <2>7. CanMove(u, a, ti)
    BY <2>4 DEF CanMove
  <2>8. PICK r : r = applyTo(u, a, ti, acc.left, TRUE, allow)
    OBVIOUS
  <2>9. HasMoved(u, a, r)
    BY <2>1, <2>3, <2>7, <2>8, ApplyToIs
  <2>10. r \in Outcomes
    BY <2>9 DEF HasMoved
  <2> DEFINE e == [r EXCEPT !.done    = @ \/ acc.res.done,
                            !.refused = @ \/ acc.res.refused,
                            !.free    = @ \/ acc.res.free]
             left == IF r.refused THEN 0 ELSE acc.left - r.moved
  <2>11. /\ e \in Outcomes /\ e.inv = r.inv
         /\ e.done = (r.done \/ acc.res.done) /\ e.refused = (r.refused \/ acc.res.refused)
         /\ e.free = (r.free \/ acc.res.free)
    BY <2>1, <2>10 DEF Outcomes
  <2>12. left \in Int
    BY <2>1, <2>10 DEF Outcomes
  <2>13. HasMoved(inv, a, e)
    <3> HIDE DEF e
    <3>1. Changes(Lists, inv, e.inv, {a.from, a.to})
      BY <2>1, <2>2, <2>9, <2>11 DEF HasMoved, Changes
    <3>2. e.done \/ e.refused \/ e.inv = inv
      BY <2>1, <2>2, <2>9, <2>11 DEF HasMoved
    <3>3. e.free \/ Total(e.inv) = Total(inv)
      BY <2>1, <2>2, <2>9, <2>11 DEF HasMoved
    <3>4. QED
      BY <2>11, <3>1, <3>2, <3>3 DEF HasMoved
  <2>14. applyNext(acc, a, k, allow)
         = IF acc.left = 0 \/ ~ItsTurn(u, a.to, k) THEN acc ELSE [left |-> left, res |-> e]
    BY <2>2, <2>6, <2>8 DEF applyNext
  <2> HIDE DEF e, left
  <2>15. [left |-> left, res |-> e] \in A
    BY <2>11, <2>12, <2>13
  <2> HIDE DEF A
  <2>16. QED
    BY <2>14, <2>15
<1>4. G \in [1 .. n -> [A -> A]]
      /\ \A k \in 1 .. n : \A acc \in A : G[k][acc] = applyNext(acc, a, k, allow)
  <2> HIDE DEF A
  <2>1. QED
    BY <1>3
<1> HIDE DEF A, x, G
<1>5. PICK h \in [0 .. n -> A] : h = [k \in 0 .. n |-> IF k = 0 THEN x ELSE G[k][h[k - 1]]]
  <2>1. StepsIn(A, x, n, G)
    BY <1>2, <1>4, StepsAreThere
  <2>2. QED
    BY <2>1, Zenon DEF StepsIn
<1>6. \A k \in 0 .. n : h[k] = Step(h, k)
  <2> SUFFICES ASSUME NEW k \in 0 .. n PROVE h[k] = Step(h, k)
    OBVIOUS
  <2>1. h[k] = IF k = 0 THEN x ELSE G[k][h[k - 1]]
    BY <1>5, Zenon
  <2>2. k # 0 => k \in 1 .. n /\ h[k - 1] \in A
    OBVIOUS
  <2>3. QED
    BY <1>4, <2>1, <2>2
<1>7. h = [k \in 0 .. n |-> h[k]]
  OBVIOUS
<1>8. h = [k \in 0 .. n |-> Step(h, k)]
  <2> HIDE DEF Step
  <2>1. QED
    BY <1>6, <1>7
<1>9. F = [k \in 0 .. n |-> Step(F, k)]
  <2> HIDE DEF Step
  <2>1. QED
    BY <1>8, Zenon
<1>10. applySomewhere(inv, a, allow) = F[n].res
  BY <1>1 DEF applySomewhere, x
<1> HIDE DEF F
<1>11. F[0] = x /\ \A k \in 1 .. n : F[k] = applyNext(F[k - 1], a, k, allow)
  <2>1. \A k \in 0 .. n : F[k] = Step(F, k)
    <3> HIDE DEF Step
    <3>1. QED
      BY <1>9, Zenon
  <2>2. 0 \in 0 .. n /\ \A k \in 1 .. n : k # 0 /\ k \in 0 .. n
    OBVIOUS
  <2>3. QED
    BY <2>1, <2>2
<1>12. F[n] \in A
  <2>1. F[0] \in A
    BY <1>2, <1>11
  <2>2. \A k \in 1 .. n : F[k - 1] \in A => F[k] \in A
    BY <1>3, <1>11
  <2>3. QED
    BY <2>1, <2>2, StepsStay
<1>13. QED
  BY <1>10, <1>12 DEF A
-----------------------------------------------------------------------------
(* Inventories: what is on its way between the client and the server.      *)

Actions == [type : {"move", "somewhere", "drop", "craft"}, from : Lists, i : Nat, to : Lists,
            ti : Nat, count : Nat]

(* An action names slots the server has, and moves between two of them.    *)
Asked(s, a) ==
  /\ a.type # "craft" => a.i \in DOMAIN s[a.from]
  /\ a.type = "move" => a.ti \in DOMAIN s[a.to] /\ <<a.from, a.i>> # <<a.to, a.ti>>
  /\ a.type = "somewhere" => a.from # a.to
  /\ a.type = "drop" => a.to = a.from

AskedOf(s) == {a \in Actions : Asked(s, a)}
Updates(s)  == {m \in UNION {[L -> Seq(Stacks)] : L \in SUBSET PlayerLists} :
                \A l \in DOMAIN m : Len(m[l]) = Len(s[l])}
Views(s)    == {v \in Shape(PlayerLists) : \A l \in PlayerLists : Len(v[l]) = Len(s[l])}

InventoryShape ==
  /\ server \in Shape(Lists) /\ server[CraftList] # <<>> /\ server[ResultList] # <<>>
  /\ client \in Views(server) /\ m_inventory_from_server \in Views(server)
  /\ toServer \in Seq(AskedOf(server)) /\ toClient \in Seq(Updates(server))
  /\ modified \subseteq PlayerLists /\ moves \in 0 .. MaxMoves /\ outside \in Nat

(* Of a list that is not marked, the last update that holds it is true.    *)
LastIsTrue(l, mod, tc, sv) ==
  l \notin mod =>
    \A k \in 1 .. Len(tc) :
      l \in DOMAIN tc[k] /\ (\A j \in k + 1 .. Len(tc) : l \notin DOMAIN tc[j])
        => tc[k][l] = sv[l]

Coming(l, mod, tc) == l \in mod \/ \E k \in 1 .. Len(tc) : l \in DOMAIN tc[k]

Predicts(a, l) == a.type # "craft" /\ {a.from, a.to} \subseteq PlayerLists /\ l \in {a.from, a.to}
Predicted(l, ts) == \E k \in 1 .. Len(ts) : Predicts(ts[k], l)

(* A list that no update is to come of, and the client has no prediction   *)
(* of on its way, is as the client shows it and takes it for the server's. *)
SeesList(l) ==
  /\ LastIsTrue(l, modified, toClient, server)
  /\ ~Coming(l, modified, toClient) /\ ~Predicted(l, toServer)
       => client[l] = server[l] /\ m_inventory_from_server[l] = server[l]

ClientSees == offered \/ unanswered \/ \A l \in PlayerLists : SeesList(l)

InventoryInv == InventoryShape /\ ItemsAreConserved /\ ClientSees

LEMMA PlayersListsAreLists == PlayerLists \subseteq Lists /\ IsFiniteSet(PlayerLists)
<1>1. PlayerLists \subseteq Lists
  BY DEF Lists
<1>2. QED
  BY <1>1, ListsAreFinite, FS_Subset

(* What may be on its way depends on the sizes of the lists only.          *)
LEMMA SameSizes ==
  ASSUME NEW u \in Shape(Lists), NEW w \in Shape(Lists), \A l \in Lists : Len(w[l]) = Len(u[l])
  PROVE  AskedOf(w) = AskedOf(u) /\ Updates(w) = Updates(u) /\ Views(w) = Views(u)
<1>1. \A l \in Lists : DOMAIN w[l] = DOMAIN u[l]
  BY SlotIs
<1>2. \A a \in Actions : Asked(w, a) <=> Asked(u, a)
  <2>1. \A a \in Actions : a.from \in Lists /\ a.to \in Lists
    BY DEF Actions
  <2>2. QED
    BY <1>1, <2>1 DEF Asked
<1>3. AskedOf(w) = AskedOf(u)
  BY <1>2 DEF AskedOf
<1>4. Views(w) = Views(u)
  BY PlayersListsAreLists DEF Views
<1>5. Updates(w) = Updates(u)
  <2> DEFINE U == UNION {[L -> Seq(Stacks)] : L \in SUBSET PlayerLists}
  <2>1. \A m \in U : DOMAIN m \subseteq PlayerLists
    OBVIOUS
  <2>2. \A m \in U : \A l \in DOMAIN m : Len(w[l]) = Len(u[l])
    BY <2>1, PlayersListsAreLists
  <2> HIDE DEF U
  <2>3. QED
    BY <2>2 DEF Updates, U
<1>6. QED
  BY <1>3, <1>4, <1>5

LEMMA PredictedMore ==
  ASSUME NEW S, NEW s \in Seq(S), NEW a, NEW l
  PROVE  Predicted(l, Append(s, a)) <=> Predicted(l, s) \/ Predicts(a, l)
<1>1. PICK n \in Nat : n = Len(s)
  OBVIOUS
<1>2. Len(Append(s, a)) = n + 1 /\ Append(s, a)[n + 1] = a
      /\ \A k \in 1 .. n : Append(s, a)[k] = s[k]
  BY <1>1
<1>3. \A k : k \in 1 .. n + 1 <=> k \in 1 .. n \/ k = n + 1
  OBVIOUS
<1>4. QED
  BY <1>1, <1>2, <1>3 DEF Predicted

LEMMA TailIs ==
  ASSUME NEW S, NEW s \in Seq(S), s # <<>>
  PROVE  /\ Head(s) = s[1] /\ Head(s) \in S /\ Tail(s) \in Seq(S)
         /\ Len(s) \in Nat \ {0} /\ Len(Tail(s)) = Len(s) - 1
         /\ \A k \in 1 .. Len(s) - 1 : Tail(s)[k] = s[k + 1]
OBVIOUS

LEMMA PredictedLess ==
  ASSUME NEW S, NEW s \in Seq(S), s # <<>>, NEW l, Predicted(l, s)
  PROVE  Predicts(Head(s), l) \/ Predicted(l, Tail(s))
<1>1. PICK n \in Nat \ {0} : n = Len(s)
  BY TailIs
<1>2. Head(s) = s[1] /\ Len(Tail(s)) = n - 1 /\ \A k \in 1 .. n - 1 : Tail(s)[k] = s[k + 1]
  BY <1>1, TailIs
<1>3. PICK k \in 1 .. n : Predicts(s[k], l)
  BY <1>1 DEF Predicted
<1>4. k = 1 \/ (k - 1 \in 1 .. n - 1 /\ (k - 1) + 1 = k)
  OBVIOUS
<1>5. QED
  BY <1>2, <1>3, <1>4 DEF Predicted

(* The client has an update: what is to come, and what it holds.           *)
LEMMA ComingLess ==
  ASSUME NEW S, NEW s \in Seq(S), s # <<>>, NEW l, NEW mod, NEW sv, LastIsTrue(l, mod, s, sv)
  PROVE  /\ Coming(l, mod, s) => l \in DOMAIN Head(s) \/ Coming(l, mod, Tail(s))
         /\ LastIsTrue(l, mod, Tail(s), sv)
         /\ l \in DOMAIN Head(s) /\ ~Coming(l, mod, Tail(s)) => Head(s)[l] = sv[l]
<1>1. PICK n \in Nat \ {0} : n = Len(s)
  BY TailIs
<1>2. Head(s) = s[1] /\ Len(Tail(s)) = n - 1 /\ \A k \in 1 .. n - 1 : Tail(s)[k] = s[k + 1]
  BY <1>1, TailIs
<1>3. \A k \in 1 .. n : k = 1 \/ (k - 1 \in 1 .. n - 1 /\ (k - 1) + 1 = k)
  OBVIOUS
<1>4. Coming(l, mod, s) => l \in DOMAIN Head(s) \/ Coming(l, mod, Tail(s))
  BY <1>1, <1>2, <1>3 DEF Coming
<1>5. LastIsTrue(l, mod, Tail(s), sv)
  <2> SUFFICES ASSUME l \notin mod, NEW k \in 1 .. n - 1, l \in DOMAIN Tail(s)[k],
                      \A j \in k + 1 .. n - 1 : l \notin DOMAIN Tail(s)[j]
               PROVE  Tail(s)[k][l] = sv[l]
    BY <1>2 DEF LastIsTrue
  <2>1. \A j \in (k + 1) + 1 .. n :
          j - 1 \in k + 1 .. n - 1 /\ (j - 1) + 1 = j /\ j - 1 \in 1 .. n - 1
    OBVIOUS
  <2>2. \A j \in (k + 1) + 1 .. n : l \notin DOMAIN s[j]
    BY <1>2, <2>1
  <2>3. k + 1 \in 1 .. n /\ l \in DOMAIN s[k + 1] /\ Tail(s)[k] = s[k + 1]
    BY <1>2
  <2>4. s[k + 1][l] = sv[l]
    BY <1>1, <2>2, <2>3 DEF LastIsTrue
  <2>5. QED
    BY <2>3, <2>4
<1>6. ASSUME l \in DOMAIN Head(s), ~Coming(l, mod, Tail(s)) PROVE Head(s)[l] = sv[l]
  <2>1. l \notin mod /\ \A k \in 1 .. n - 1 : l \notin DOMAIN Tail(s)[k]
    BY <1>2, <1>6 DEF Coming
  <2>2. \A j \in 1 + 1 .. n : j - 1 \in 1 .. n - 1 /\ (j - 1) + 1 = j
    OBVIOUS
  <2>3. \A j \in 1 + 1 .. n : l \notin DOMAIN s[j]
    BY <1>2, <2>1, <2>2
  <2>4. 1 \in 1 .. n
    OBVIOUS
  <2>5. QED
    BY <1>1, <1>2, <1>6, <2>1, <2>3, <2>4 DEF LastIsTrue
<1>7. QED
  BY <1>4, <1>5, <1>6

(* The server sends the lists that are marked.                             *)
LEMMA ComingMore ==
  ASSUME NEW S, NEW s \in Seq(S), NEW l, NEW mod, NEW sv, LastIsTrue(l, mod, s, sv)
  PROVE  /\ Coming(l, mod, s) => Coming(l, {}, Append(s, [x \in mod |-> sv[x]]))
         /\ LastIsTrue(l, {}, Append(s, [x \in mod |-> sv[x]]), sv)
<1>1. PICK n \in Nat : n = Len(s)
  OBVIOUS
<1>2. PICK m : m = [x \in mod |-> sv[x]]
  OBVIOUS
<1>3. DOMAIN m = mod /\ \A x \in mod : m[x] = sv[x]
  BY <1>2
<1>4. PICK p : p = Append(s, m)
  OBVIOUS
<1>5. Len(p) = n + 1 /\ p[n + 1] = m /\ \A k \in 1 .. n : p[k] = s[k]
  BY <1>1, <1>4
<1>6. \A k : k \in 1 .. n + 1 <=> k \in 1 .. n \/ k = n + 1
  OBVIOUS
<1>7. Coming(l, mod, s) => Coming(l, {}, p)
  BY <1>1, <1>3, <1>5, <1>6 DEF Coming
<1>8. LastIsTrue(l, {}, p, sv)
  <2> SUFFICES ASSUME NEW k \in 1 .. n + 1, l \in DOMAIN p[k],
                      \A j \in k + 1 .. n + 1 : l \notin DOMAIN p[j]
               PROVE  p[k][l] = sv[l]
    BY <1>5 DEF LastIsTrue
  <2>1. CASE k = n + 1
    BY <1>3, <1>5, <2>1
  <2>2. CASE k \in 1 .. n
    <3>1. n + 1 \in k + 1 .. n + 1
      BY <2>2
    <3>2. l \notin mod
      BY <1>3, <1>5, <3>1
    <3>3. \A j \in k + 1 .. n : j \in k + 1 .. n + 1 /\ j \in 1 .. n
      BY <2>2
    <3>4. \A j \in k + 1 .. n : l \notin DOMAIN s[j]
      BY <1>5, <3>3
    <3>5. p[k] = s[k]
      BY <1>5, <2>2
    <3>6. QED
      BY <1>1, <2>2, <3>2, <3>4, <3>5 DEF LastIsTrue
  <2>3. QED
    BY <1>6, <2>1, <2>2
<1>9. QED
  BY <1>2, <1>4, <1>7, <1>8

(* The client acts: it predicts at most the lists of its action.           *)
LEMMA ClientActs ==
  ASSUME InventoryInv,
         UNCHANGED <<server, m_inventory_from_server, modified, toClient, offered, outside,
                     unanswered>>,
         client' \in Views(server), toServer' \in Seq(AskedOf(server)), moves' \in 0 .. MaxMoves,
         \A l \in PlayerLists : ~Predicted(l, toServer') =>
           ~Predicted(l, toServer) /\ (client'[l] = client[l]
                                       \/ client'[l] = m_inventory_from_server[l])
  PROVE  InventoryInv'
<1>1. InventoryShape'
  BY DEF InventoryInv, InventoryShape
<1>2. ItemsAreConserved'
  BY DEF InventoryInv, ItemsAreConserved
<1>3. ClientSees'
  <2>1. CASE offered \/ unanswered
    BY <2>1 DEF ClientSees
  <2>2. CASE ~(offered \/ unanswered)
    <3>1. ASSUME NEW l \in PlayerLists PROVE SeesList(l)'
      <4>1. SeesList(l)
        BY <2>2 DEF InventoryInv, ClientSees
      <4>2. LastIsTrue(l, modified, toClient, server)'
        BY <4>1 DEF SeesList
      <4>3. Coming(l, modified, toClient)' <=> Coming(l, modified, toClient)
        OBVIOUS
      <4>4. QED
        BY <4>1, <4>2, <4>3 DEF SeesList
    <3>2. QED
      BY <3>1 DEF ClientSees
  <2>3. QED
    BY <2>1, <2>2
<1>4. QED
  BY <1>1, <1>2, <1>3 DEF InventoryInv

(* The server, or a mod, acts: what it changes is marked, and what the     *)
(* client predicted of the action is, too.                                 *)
LEMMA ServerActs ==
  ASSUME InventoryInv, NEW ls, Changes(Lists, server, server', ls),
         UNCHANGED <<client, m_inventory_from_server, toClient>>,
         modified \subseteq modified', modified' \subseteq PlayerLists,
         moves' \in 0 .. MaxMoves, outside' \in Nat,
         toServer' = toServer \/ (toServer # <<>> /\ toServer' = Tail(toServer)),
         offered' \/ (~offered /\ Total(server') + outside' = Total(server) + outside),
         offered' \/ unanswered' \/
           /\ ~offered /\ ~unanswered
           /\ \A l \in PlayerLists : l \notin modified' =>
                /\ server'[l] = server[l]
                /\ toServer' = toServer \/ ~Predicts(Head(toServer), l)
  PROVE  InventoryInv'
<1>0. InventoryShape
  BY DEF InventoryInv
<1>1. server' \in Shape(Lists) /\ server \in Shape(Lists)
      /\ \A l \in Lists : Len(server'[l]) = Len(server[l])
  BY <1>0 DEF Changes, InventoryShape
<1>2. AskedOf(server') = AskedOf(server) /\ Updates(server') = Updates(server)
      /\ Views(server') = Views(server)
  BY <1>1, SameSizes
<1>3. toServer' \in Seq(AskedOf(server))
  BY <1>0 DEF InventoryShape
<1>4. CraftList \in Lists /\ ResultList \in Lists
  BY InventoryAssumption, PlayersListsAreLists
<1>5. server'[CraftList] # <<>> /\ server'[ResultList] # <<>>
  <2>1. \A l \in Lists : server[l] \in Seq(Stacks) /\ server'[l] \in Seq(Stacks)
    BY <1>1, SlotIs
  <2>2. \A x, y \in Seq(Stacks) : Len(x) = Len(y) /\ x # <<>> => y # <<>>
    OBVIOUS
  <2>3. QED
    BY <1>0, <1>1, <1>4, <2>1, <2>2 DEF InventoryShape
<1>6. InventoryShape'
  BY <1>0, <1>1, <1>2, <1>3, <1>5 DEF InventoryShape
<1>7. ItemsAreConserved'
  BY DEF InventoryInv, ItemsAreConserved
<1>8. ClientSees'
  <2>1. CASE offered' \/ unanswered'
    BY <2>1 DEF ClientSees
  <2>2. CASE ~(offered' \/ unanswered')
    <3>1. ASSUME NEW l \in PlayerLists PROVE SeesList(l)'
      <4>1. SeesList(l)
        BY <2>2 DEF InventoryInv, ClientSees
      <4>2. l \notin modified' => server'[l] = server[l] /\ l \notin modified
        BY <2>2
      <4>3. LastIsTrue(l, modified, toClient, server)'
        BY <4>1, <4>2 DEF SeesList, LastIsTrue
      <4>4. Coming(l, modified, toClient) => Coming(l, modified, toClient)'
        BY DEF Coming
      <4>5. Predicted(l, toServer) /\ l \notin modified' => Predicted(l, toServer')
        <5>1. CASE toServer' = toServer
          BY <5>1
        <5>2. CASE toServer # <<>> /\ toServer' = Tail(toServer) /\ toServer' # toServer
          BY <1>0, <2>2, <5>2, PredictedLess DEF InventoryShape
        <5>3. QED
          BY <5>1, <5>2
      <4>6. l \in modified' => Coming(l, modified, toClient)'
        BY DEF Coming
      <4>7. QED
        BY <4>1, <4>2, <4>3, <4>4, <4>5, <4>6 DEF SeesList
    <3>2. QED
      BY <3>1 DEF ClientSees
  <2>3. QED
    BY <2>1, <2>2
<1>9. QED
  BY <1>6, <1>7, <1>8 DEF InventoryInv

LEMMA handleCommand_Inventory_Inv ==
  ASSUME InventoryInv, handleCommand_Inventory
  PROVE  InventoryInv'
<1>0. InventoryShape
  BY DEF InventoryInv
<1>1. toClient # <<>> /\ toClient' = Tail(toClient) /\ m_inventory_from_server' = client'
      /\ UNCHANGED <<server, modified, toServer, moves, offered, outside, unanswered>>
  BY DEF handleCommand_Inventory
<1>2. PICK m : m = Head(toClient)
  OBVIOUS
<1>3. client' = [l \in PlayerLists |-> IF l \in DOMAIN m THEN m[l] ELSE client[l]]
  BY <1>2 DEF handleCommand_Inventory
<1>4. toClient \in Seq(Updates(server)) /\ client \in Views(server) /\ server \in Shape(Lists)
  BY <1>0 DEF InventoryShape
<1>5. m \in Updates(server) /\ toClient' \in Seq(Updates(server))
  BY <1>1, <1>2, <1>4, TailIs
<1>6. \A l \in DOMAIN m : m[l] \in Seq(Stacks) /\ Len(m[l]) = Len(server[l])
  BY <1>5 DEF Updates
<1>7. \A l \in PlayerLists : client'[l] = IF l \in DOMAIN m THEN m[l] ELSE client[l]
  BY <1>3
<1>8. \A l \in PlayerLists : client[l] \in Seq(Stacks) /\ Len(client[l]) = Len(server[l])
  BY <1>4 DEF Views, Shape
<1>9. client' \in Views(server)
  <2>1. \A l \in PlayerLists :
          LET v == IF l \in DOMAIN m THEN m[l] ELSE client[l]
          IN  v \in Seq(Stacks) /\ Len(v) = Len(server[l])
    BY <1>6, <1>8
  <2>2. client' \in [PlayerLists -> Seq(Stacks)]
    BY <1>3, <2>1
  <2>3. QED
    BY <1>7, <2>1, <2>2 DEF Views, Shape
<1>10. InventoryShape'
  BY <1>0, <1>1, <1>5, <1>9 DEF InventoryShape
<1>11. ItemsAreConserved'
  BY <1>1 DEF InventoryInv, ItemsAreConserved
<1>12. ClientSees'
  <2>1. CASE offered \/ unanswered
    BY <1>1, <2>1 DEF ClientSees
  <2>2. CASE ~(offered \/ unanswered)
    <3>1. ASSUME NEW l \in PlayerLists PROVE SeesList(l)'
      <4>1. SeesList(l)
        BY <2>2 DEF InventoryInv, ClientSees
      <4>2. LastIsTrue(l, modified, toClient, server)
        BY <4>1 DEF SeesList
      <4>3. /\ Coming(l, modified, toClient) =>
                 l \in DOMAIN m \/ Coming(l, modified, Tail(toClient))
            /\ LastIsTrue(l, modified, Tail(toClient), server)
            /\ l \in DOMAIN m /\ ~Coming(l, modified, Tail(toClient)) => m[l] = server[l]
        BY <1>1, <1>2, <1>4, <4>2, ComingLess
      <4>4. QED
        BY <1>1, <1>7, <4>1, <4>3 DEF SeesList
    <3>2. QED
      BY <3>1 DEF ClientSees
  <2>3. QED
    BY <2>1, <2>2
<1>13. QED
  BY <1>10, <1>11, <1>12 DEF InventoryInv

LEMMA SendInventory_Inv ==
  ASSUME InventoryInv, SendInventory
  PROVE  InventoryInv'
<1>0. InventoryShape
  BY DEF InventoryInv
<1>1. /\ toClient' = Append(toClient, [l \in modified |-> server[l]]) /\ modified' = {}
      /\ UNCHANGED <<server, client, m_inventory_from_server, toServer, moves, offered, outside,
                     unanswered>>
  BY DEF SendInventory
<1>2. toClient \in Seq(Updates(server)) /\ modified \subseteq PlayerLists /\ server \in Shape(Lists)
  BY <1>0 DEF InventoryShape
<1>3. PICK m : m = [l \in modified |-> server[l]]
  OBVIOUS
<1>4. DOMAIN m = modified /\ \A l \in modified : m[l] = server[l] /\ m[l] \in Seq(Stacks)
  BY <1>2, <1>3, SlotIs, PlayersListsAreLists
<1>5. m \in Updates(server)
  <2>1. m \in [modified -> Seq(Stacks)]
    BY <1>3, <1>4
  <2>2. m \in UNION {[L -> Seq(Stacks)] : L \in SUBSET PlayerLists}
    BY <1>2, <2>1
  <2>3. QED
    BY <1>4, <2>2 DEF Updates
<1>6. InventoryShape'
  BY <1>0, <1>1, <1>2, <1>3, <1>5 DEF InventoryShape
<1>7. ItemsAreConserved'
  BY <1>1 DEF InventoryInv, ItemsAreConserved
<1>8. ClientSees'
  <2>1. CASE offered \/ unanswered
    BY <1>1, <2>1 DEF ClientSees
  <2>2. CASE ~(offered \/ unanswered)
    <3>1. ASSUME NEW l \in PlayerLists PROVE SeesList(l)'
      <4>1. SeesList(l)
        BY <2>2 DEF InventoryInv, ClientSees
      <4>2. LastIsTrue(l, modified, toClient, server)
        BY <4>1 DEF SeesList
      <4>3. /\ Coming(l, modified, toClient) => Coming(l, {}, toClient')
            /\ LastIsTrue(l, {}, toClient', server)
        BY <1>1, <1>2, <4>2, ComingMore
      <4>4. QED
        BY <1>1, <4>1, <4>3 DEF SeesList
    <3>2. QED
      BY <3>1 DEF ClientSees
  <2>3. QED
    BY <2>1, <2>2
<1>9. QED
  BY <1>6, <1>7, <1>8 DEF InventoryInv

LEMMA ViewIs ==
  ASSUME NEW s \in Shape(Lists), NEW v \in Views(s)
  PROVE  /\ v \in Shape(PlayerLists)
         /\ \A l \in PlayerLists : DOMAIN v[l] = DOMAIN s[l]
         /\ \A w, ls : Changes(PlayerLists, v, w, ls) => w \in Views(s)
<1>1. v \in Shape(PlayerLists) /\ \A l \in PlayerLists : Len(v[l]) = Len(s[l]) /\ l \in Lists
  BY PlayersListsAreLists DEF Views
<1>2. \A l \in PlayerLists : DOMAIN v[l] = DOMAIN s[l]
  BY <1>1, SlotIs
<1>3. \A w, ls : Changes(PlayerLists, v, w, ls) => w \in Views(s)
  BY <1>1 DEF Changes, Views
<1>4. QED
  BY <1>1, <1>2, <1>3

(* An action that is sent, and what the client predicts of it.             *)
LEMMA Sent ==
  ASSUME InventoryInv, NEW a \in Actions, Asked(server, a), Send(a), ServerLeftAlone,
         \/ client' = client
         \/ {a.from, a.to} \subseteq PlayerLists /\ a.type # "craft"
            /\ Changes(PlayerLists, client, client', {a.from, a.to})
  PROVE  InventoryInv'
<1>0. InventoryShape
  BY DEF InventoryInv
<1>1. server \in Shape(Lists) /\ client \in Views(server) /\ toServer \in Seq(AskedOf(server))
      /\ moves \in 0 .. MaxMoves
  BY <1>0 DEF InventoryShape
<1>2. UNCHANGED <<server, m_inventory_from_server, modified, toClient, offered, outside,
                  unanswered>>
  BY DEF ServerLeftAlone
<1>3. a \in AskedOf(server)
  BY DEF AskedOf
<1>4. toServer' = Append(toServer, a) /\ moves < MaxMoves /\ moves' = moves + 1
  BY DEF Send
<1>5. toServer' \in Seq(AskedOf(server))
  BY <1>1, <1>3, <1>4
<1>6. moves' \in 0 .. MaxMoves
  BY <1>1, <1>4, InventoryAssumption
<1>7. client' \in Views(server)
  BY <1>1, ViewIs
<1>8. ASSUME NEW l \in PlayerLists, ~Predicted(l, toServer')
      PROVE  ~Predicted(l, toServer) /\ client'[l] = client[l]
  <2>1. ~Predicted(l, toServer) /\ ~Predicts(a, l)
    BY <1>1, <1>4, <1>8, PredictedMore
  <2>2. CASE client' = client
    BY <2>1, <2>2
  <2>3. CASE {a.from, a.to} \subseteq PlayerLists /\ a.type # "craft"
             /\ Changes(PlayerLists, client, client', {a.from, a.to})
    BY <2>1, <2>3 DEF Predicts, Changes
  <2>4. QED
    BY <2>2, <2>3
<1>9. QED
  BY <1>2, <1>5, <1>6, <1>7, <1>8, ClientActs

LEMMA sendMove_Inv ==
  ASSUME InventoryInv, NEW from \in Lists, NEW i \in Slots(from), NEW to \in Lists,
         NEW ti \in Slots(to), NEW count \in 1 .. stack_max, sendMove(from, i, to, ti, count)
  PROVE  InventoryInv'
<1>0. server \in Shape(Lists) /\ client \in Views(server)
  BY DEF InventoryInv, InventoryShape
<1>1. PICK a : a = Action("move", from, i, to, ti, count)
  OBVIOUS
<1>2. a.type = "move" /\ a.from = from /\ a.i = i /\ a.to = to /\ a.ti = ti /\ a.count = count
  BY <1>1 DEF Action
<1>3. i \in DOMAIN server[from] /\ ti \in DOMAIN server[to] /\ i \in Nat /\ ti \in Nat
      /\ count \in Nat
  BY <1>0, SlotIs, InventoryAssumption DEF Slots
<1>4. a \in Actions
  BY <1>1, <1>3 DEF Action, Actions
<1>5. <<from, i>> # <<to, ti>> /\ Send(a) /\ ServerLeftAlone
      /\ client' = IF {from, to} \subseteq PlayerLists
                   THEN moveItem(client, from, i, to, ti, count, TRUE).inv ELSE client
  BY <1>1 DEF sendMove
<1>6. Asked(server, a)
  BY <1>2, <1>3, <1>5 DEF Asked
<1>7. {from, to} \subseteq PlayerLists => Changes(PlayerLists, client, client', {from, to})
  <2> SUFFICES ASSUME from \in PlayerLists, to \in PlayerLists
               PROVE  Changes(PlayerLists, client, client', {from, to})
    OBVIOUS
  <2>1. client \in Shape(PlayerLists) /\ i \in DOMAIN client[from] /\ ti \in DOMAIN client[to]
    BY <1>0, <1>3, ViewIs
  <2>2. PICK m : m = moveItem(client, from, i, to, ti, count, TRUE)
    OBVIOUS
  <2>3. Changes(PlayerLists, client, m.inv, {from, to})
    BY <1>3, <1>5, <2>1, <2>2, PlayersListsAreLists, MoveItemIs
  <2>4. QED
    BY <1>5, <2>2, <2>3
<1>8. QED
  BY <1>2, <1>4, <1>5, <1>6, <1>7, Sent

LEMMA sendMoveSomewhere_Inv ==
  ASSUME InventoryInv, NEW from \in Lists, NEW i \in Slots(from), NEW to \in Lists,
         NEW count \in 1 .. stack_max, sendMoveSomewhere(from, i, to, count)
  PROVE  InventoryInv'
<1>0. server \in Shape(Lists) /\ client \in Views(server)
  BY DEF InventoryInv, InventoryShape
<1>1. PICK a : a = Action("somewhere", from, i, to, 0, count)
  OBVIOUS
<1>2. a.type = "somewhere" /\ a.from = from /\ a.i = i /\ a.to = to /\ a.count = count
  BY <1>1 DEF Action
<1>3. i \in DOMAIN server[from] /\ i \in Nat /\ count \in Nat
  BY <1>0, SlotIs, InventoryAssumption DEF Slots
<1>4. a \in Actions
  BY <1>1, <1>3 DEF Action, Actions
<1>5. from # to /\ Send(a) /\ ServerLeftAlone
      /\ client' = IF {from, to} \subseteq PlayerLists
                   THEN moveItemSomewhere(client, from, i, to, count) ELSE client
  BY <1>1 DEF sendMoveSomewhere
<1>6. Asked(server, a)
  BY <1>2, <1>3, <1>5 DEF Asked
<1>7. {from, to} \subseteq PlayerLists => Changes(PlayerLists, client, client', {from, to})
  <2> SUFFICES ASSUME from \in PlayerLists, to \in PlayerLists
               PROVE  Changes(PlayerLists, client, client', {from, to})
    OBVIOUS
  <2>1. client \in Shape(PlayerLists) /\ i \in DOMAIN client[from]
    BY <1>0, <1>3, ViewIs
  <2>2. Changes(PlayerLists, client, moveItemSomewhere(client, from, i, to, count), {from, to})
    BY <1>3, <2>1, MoveSomewhereIs
  <2>3. QED
    BY <1>5, <2>2
<1>8. QED
  BY <1>2, <1>4, <1>5, <1>6, <1>7, Sent

LEMMA sendDrop_Inv ==
  ASSUME InventoryInv, NEW from \in Lists, NEW i \in Slots(from), NEW count \in 1 .. stack_max,
         sendDrop(from, i, count)
  PROVE  InventoryInv'
<1>0. server \in Shape(Lists) /\ client \in Views(server)
  BY DEF InventoryInv, InventoryShape
<1>1. PICK a : a = Action("drop", from, i, from, 0, count)
  OBVIOUS
<1>2. a.type = "drop" /\ a.from = from /\ a.i = i /\ a.to = from /\ a.count = count
  BY <1>1 DEF Action
<1>3. i \in DOMAIN server[from] /\ i \in Nat /\ count \in Nat
  BY <1>0, SlotIs, InventoryAssumption DEF Slots
<1>4. a \in Actions
  BY <1>1, <1>3 DEF Action, Actions
<1>5. Send(a) /\ ServerLeftAlone
      /\ client' = IF from \in PlayerLists
                   THEN Put(client, from, i, takeItem(client[from][i], count)) ELSE client
  BY <1>1 DEF sendDrop
<1>6. Asked(server, a)
  BY <1>2, <1>3 DEF Asked
<1>7. from \in PlayerLists => Changes(PlayerLists, client, client', {from})
  <2> SUFFICES ASSUME from \in PlayerLists
               PROVE  Changes(PlayerLists, client, client', {from})
    OBVIOUS
  <2>1. client \in Shape(PlayerLists) /\ i \in DOMAIN client[from]
    BY <1>0, <1>3, ViewIs
  <2>2. takeItem(client[from][i], count) \in Stacks
    BY <1>3, <2>1, SlotIs, StackTaken
  <2>3. Changes(PlayerLists, client, client, {from})
    BY <2>1, SameChanges
  <2>4. Changes(PlayerLists, client, Put(client, from, i, takeItem(client[from][i], count)), {from})
    BY <2>1, <2>2, <2>3, PutChanges
  <2>5. QED
    BY <1>5, <2>4
<1>8. {a.from, a.to} = {from}
  BY <1>2
<1>9. QED
  BY <1>2, <1>4, <1>5, <1>6, <1>7, <1>8, Sent

LEMMA sendCraft_Inv ==
  ASSUME InventoryInv, NEW count \in 0 .. 1, sendCraft(count)
  PROVE  InventoryInv'
<1>1. PICK a : a = Action("craft", CraftList, 0, ResultList, 0, count)
  OBVIOUS
<1>2. a.type = "craft"
  BY <1>1 DEF Action
<1>3. a \in Actions
  BY <1>1, InventoryAssumption, PlayersListsAreLists DEF Action, Actions
<1>4. Send(a) /\ ServerLeftAlone /\ client' = client
  BY <1>1 DEF sendCraft
<1>5. Asked(server, a)
  BY <1>2 DEF Asked
<1>6. QED
  BY <1>3, <1>4, <1>5, Sent

LEMMA RevertPrediction_Inv ==
  ASSUME InventoryInv, RevertPrediction
  PROVE  InventoryInv'
<1>1. client' = m_inventory_from_server
      /\ UNCHANGED <<server, m_inventory_from_server, modified, toClient, offered, outside,
                     unanswered>>
      /\ UNCHANGED <<toServer, moves>>
  BY DEF RevertPrediction
<1>2. client' \in Views(server) /\ toServer' \in Seq(AskedOf(server)) /\ moves' \in 0 .. MaxMoves
  BY <1>1 DEF InventoryInv, InventoryShape
<1>3. QED
  BY <1>1, <1>2, ClientActs

LEMMA PutSame ==
  ASSUME NEW D, NEW inv \in Shape(D), NEW l \in D, NEW i \in DOMAIN inv[l]
  PROVE  Put(inv, l, i, inv[l][i]) = inv
<1>1. inv[l] \in Seq(Stacks) /\ i \in 1 .. Len(inv[l]) /\ inv \in [D -> Seq(Stacks)]
  BY SlotIs DEF Shape
<1>2. PICK q : q = inv[l]
  OBVIOUS
<1>3. [q EXCEPT ![i] = q[i]] = q
  BY <1>1, <1>2
<1>4. Put(inv, l, i, inv[l][i]) = [inv EXCEPT ![l] = [q EXCEPT ![i] = q[i]]]
  BY <1>2 DEF Put
<1>5. [inv EXCEPT ![l] = q] = inv
  BY <1>1, <1>2
<1>6. QED
  BY <1>3, <1>4, <1>5

(* A product for each ingredient: no more than there is room for.          *)
CanCraft(inv, n) ==
  /\ inv[CraftList] # <<>> /\ inv[ResultList] # <<>>
  /\ n <= inv[CraftList][1].count
  /\ n > 0 => /\ inv[ResultList][1].name \in {NoItem, Product}
              /\ n <= stack_max - inv[ResultList][1].count
Crafted(inv, n) ==
  AddAt(Put(inv, CraftList, 1, takeItem(inv[CraftList][1], n)), ResultList, 1, Of(Product, n))

LEMMA CraftIs ==
  ASSUME NEW inv \in Shape(Lists), NEW n \in Nat, CanCraft(inv, n),
         NEW new, new = Crafted(inv, n)
  PROVE  /\ Changes(Lists, inv, new, {CraftList, ResultList}) /\ Total(new) = Total(inv)
         /\ n = 0 => new = inv
<1> DEFINE grid == inv[CraftList][1]
           was  == inv[ResultList][1]
           item == Of(Product, n)
           one  == Put(inv, CraftList, 1, takeItem(grid, n))
<1>1. CraftList \in Lists /\ ResultList \in Lists /\ CraftList # ResultList
      /\ Product \in Items /\ NoItem \notin Items /\ stack_max \in Nat
  BY InventoryAssumption, PlayersListsAreLists
<1>2. 1 \in DOMAIN inv[CraftList] /\ 1 \in DOMAIN inv[ResultList]
  <2>1. \A s \in Seq(Stacks) : s # <<>> => 1 \in DOMAIN s
    OBVIOUS
  <2>2. inv[CraftList] \in Seq(Stacks) /\ inv[ResultList] \in Seq(Stacks)
    BY <1>1, SlotIs
  <2>3. QED
    BY <2>1, <2>2 DEF CanCraft
<1>3. grid \in Stacks /\ was \in Stacks
  BY <1>1, <1>2, SlotIs
<1> HIDE DEF grid, was
<1>4. grid.count \in 0 .. stack_max /\ was.count \in 0 .. stack_max /\ n <= grid.count
      /\ (was.count > 0 <=> was.name \in Items)
      /\ (n > 0 => was.name \in {NoItem, Product} /\ n <= stack_max - was.count)
  BY <1>3, StackIs DEF grid, was, CanCraft
<1>5. item \in Stacks /\ item.count = n /\ (n > 0 => item.name = Product)
  <2>1. n \in 0 .. stack_max
    BY <1>1, <1>4
  <2>2. QED
    BY <1>1, <2>1, OfIs
<1>6. takeItem(grid, n) \in Stacks /\ takeItem(grid, n).count = grid.count - n
      /\ (n = 0 => takeItem(grid, n) = grid)
  BY <1>3, <1>4, StackTaken
<1>7. one \in Shape(Lists) /\ 1 \in DOMAIN one[ResultList] /\ one[ResultList][1] = was
  <2>1. one \in Shape(Lists) /\ \A l \in Lists : DOMAIN one[l] = DOMAIN inv[l]
    BY <1>1, <1>2, <1>6, PutIs
  <2>2. one[ResultList] = inv[ResultList]
    BY <1>1, <1>2, <1>6, PutIs
  <2>3. QED
    BY <1>1, <1>2, <2>1, <2>2 DEF was
<1>8. Changes(Lists, inv, one, {CraftList, ResultList})
  <2>1. Changes(Lists, inv, inv, {CraftList, ResultList})
    BY SameChanges
  <2>2. QED
    BY <1>1, <1>2, <1>6, <2>1, PutChanges
<1>9. Total(one) = Total(inv) - grid.count + (grid.count - n)
  BY <1>1, <1>2, <1>6, ListsAreFinite, TotalPut DEF grid
<1>10. n = 0 => one = inv
  BY <1>1, <1>2, <1>6, PutSame DEF grid
<1>11. new = AddAt(one, ResultList, 1, item)
  BY DEF grid, Crafted
<1> HIDE DEF one, item
<1>12. Changes(Lists, inv, new, {CraftList, ResultList})
  BY <1>1, <1>2, <1>5, <1>8, <1>11, AddChanges
<1>13. Total(new) + RestOf(was, item).count = Total(one) + item.count
  BY <1>1, <1>5, <1>7, <1>11, ListsAreFinite, TotalAdd
<1>14. RestOf(was, item).count = 0
  <2>1. was.count + item.count <= stack_max
    BY <1>1, <1>4, <1>5
  <2>2. was.count > 0 /\ item.count > 0 => was.name = item.name
    BY <1>1, <1>4, <1>5
  <2>3. QED
    BY <1>3, <1>5, <2>1, <2>2, RestFits
<1>15. new \in Shape(Lists)
  BY <1>12 DEF Changes
<1>16. Total(new) \in Nat /\ Total(one) \in Nat /\ Total(inv) \in Nat
  BY <1>7, <1>15, ListsAreFinite, ItemsAreFinite
<1>17. Total(new) = Total(inv)
  BY <1>1, <1>4, <1>5, <1>9, <1>13, <1>14, <1>16
<1>18. ASSUME n = 0 PROVE new = inv
  <2>1. PlusStack(was, item) = was
    BY <1>3, <1>5, <1>18, StacksAdd
  <2>2. new = Put(one, ResultList, 1, one[ResultList][1])
    BY <1>7, <1>11, <2>1 DEF AddAt
  <2>3. new = one
    BY <1>1, <1>7, <2>2, PutSame
  <2>4. QED
    BY <1>10, <1>18, <2>3
<1>19. QED
  BY <1>12, <1>17, <1>18

(* The server takes the next action, which is one the client may ask for.  *)
LEMMA NextIs ==
  ASSUME InventoryInv, NEW types, NextAction(types)
  PROVE  /\ toServer # <<>> /\ toServer' = Tail(toServer) /\ Head(toServer).type \in types
         /\ Head(toServer) \in Actions /\ Asked(server, Head(toServer))
         /\ server \in Shape(Lists) /\ Total(server) \in Nat
         /\ Head(toServer).from \in Lists /\ Head(toServer).to \in Lists
         /\ Head(toServer).count \in Nat
<1>0. InventoryShape
  BY DEF InventoryInv
<1>1. toServer \in Seq(AskedOf(server)) /\ server \in Shape(Lists)
  BY <1>0 DEF InventoryShape
<1>2. toServer # <<>> /\ toServer' = Tail(toServer) /\ Head(toServer).type \in types
  BY DEF NextAction
<1>3. Head(toServer) \in AskedOf(server)
  BY <1>1, <1>2, TailIs
<1>4. Head(toServer) \in Actions /\ Asked(server, Head(toServer))
  BY <1>3 DEF AskedOf
<1>5. Total(server) \in Nat
  BY <1>1, ListsAreFinite, ItemsAreFinite
<1>6. QED
  BY <1>1, <1>2, <1>4, <1>5 DEF Actions

LEMMA handleMove_Inv ==
  ASSUME InventoryInv, handleMove
  PROVE  InventoryInv'
<1>0. InventoryShape
  BY DEF InventoryInv
<1>1. PICK a : a = Head(toServer)
  OBVIOUS
<1>2. NextAction({"move", "somewhere"})
  BY DEF handleMove
<1>3. /\ toServer # <<>> /\ toServer' = Tail(toServer) /\ a.type \in {"move", "somewhere"}
      /\ a \in Actions /\ Asked(server, a) /\ server \in Shape(Lists) /\ Total(server) \in Nat
      /\ a.from \in Lists /\ a.to \in Lists /\ a.count \in Nat
  BY <1>1, <1>2, NextIs
<1>4. PICK allow \in Answers(a) :
        LET r == IF a.type = "move" THEN applyTo(server, a, a.ti, a.count, FALSE, allow)
                 ELSE applySomewhere(server, a, allow)
            lists == IF r.done \/ r.refused THEN {a.from, a.to} ELSE {}
        IN  /\ server' = r.inv
            /\ Marks(a, lists) /\ Answered(a, lists)
            /\ offered' = (offered \/ r.free)
  BY <1>1 DEF handleMove
<1>5. PICK r : r = IF a.type = "move" THEN applyTo(server, a, a.ti, a.count, FALSE, allow)
                   ELSE applySomewhere(server, a, allow)
  OBVIOUS
<1>6. PICK lists : lists = IF r.done \/ r.refused THEN {a.from, a.to} ELSE {}
  OBVIOUS
<1>7. server' = r.inv /\ Marks(a, lists) /\ Answered(a, lists) /\ offered' = (offered \/ r.free)
  BY <1>4, <1>5, <1>6
<1>8. allow \in Callbacks
  <2>1. Allowed \subseteq Nat \union {-1} /\ {0} \subseteq Nat \union {-1}
    BY InventoryAssumption
  <2> DEFINE P == IF SameInventory(a) THEN {0} ELSE Allowed
             B == IF a.type = "move" /\ server[a.to][a.ti].count > 0 THEN Allowed ELSE {0}
  <2>2. P \subseteq Nat \union {-1} /\ B \subseteq Nat \union {-1}
        /\ Answers(a) = [take : Allowed, put : P, back : B]
    BY <2>1 DEF Answers
  <2> HIDE DEF P, B
  <2>3. allow \in [take : Allowed, put : P, back : B]
    BY <2>2
  <2> DEFINE N == Nat \union {-1}
  <2>4. Allowed \subseteq N /\ P \subseteq N /\ B \subseteq N
    BY <2>1, <2>2
  <2> HIDE DEF N
  <2>5. allow \in [take : N, put : N, back : N]
    BY <2>3, <2>4
  <2>6. QED
    BY <2>5 DEF Callbacks, N
<1>9. HasMoved(server, a, r)
  <2>1. CASE a.type = "move"
    <3>1. CanMove(server, a, a.ti)
      BY <1>3, <2>1 DEF CanMove, Asked
    <3>2. a.count \in Int
      BY <1>3
    <3>3. HasMoved(server, a, applyTo(server, a, a.ti, a.count, FALSE, allow))
      BY <1>3, <1>8, <3>1, <3>2, ApplyToIs
    <3>4. QED
      BY <1>5, <2>1, <3>3
  <2>2. CASE a.type # "move"
    <3>1. a.type = "somewhere" /\ a.from # a.to /\ a.i \in DOMAIN server[a.from]
      BY <1>3, <2>2 DEF Asked
    <3>2. HasMoved(server, a, applySomewhere(server, a, allow))
      BY <1>3, <1>8, <3>1, ApplySomewhereIs
    <3>3. QED
      BY <1>5, <2>2, <3>2
  <2>3. QED
    BY <2>1, <2>2
<1>10. Changes(Lists, server, server', {a.from, a.to})
       /\ (r.done \/ r.refused \/ server' = server)
       /\ (r.free \/ Total(server') = Total(server))
  BY <1>7, <1>9 DEF HasMoved
<1>11. UNCHANGED <<client, m_inventory_from_server, toClient>> /\ UNCHANGED <<moves, outside>>
  BY DEF handleMove
<1>12. modified' = modified \union (lists \intersect PlayerLists)
  BY <1>7 DEF Marks
<1>13. unanswered' = (unanswered \/ (lists = {} /\ a.type # "craft"
                                     /\ {a.from, a.to} \subseteq PlayerLists))
  BY <1>7 DEF Answered
<1>14. modified \subseteq PlayerLists /\ moves \in 0 .. MaxMoves /\ outside \in Nat
  BY <1>0 DEF InventoryShape
<1>15. modified \subseteq modified' /\ modified' \subseteq PlayerLists
       /\ moves' \in 0 .. MaxMoves /\ outside' \in Nat
  BY <1>11, <1>12, <1>14
<1>16. offered' \/ (~offered /\ Total(server') + outside' = Total(server) + outside)
  BY <1>7, <1>10, <1>11
<1>17. ASSUME ~(offered' \/ unanswered')
       PROVE  /\ ~offered /\ ~unanswered
              /\ \A l \in PlayerLists : l \notin modified' =>
                   server'[l] = server[l] /\ ~Predicts(Head(toServer), l)
  <2>1. ~offered /\ ~unanswered
    BY <1>7, <1>13, <1>17
  <2>2. ASSUME NEW l \in PlayerLists, l \notin modified'
        PROVE  server'[l] = server[l] /\ ~Predicts(a, l)
    <3>1. CASE r.done \/ r.refused
      <4>1. l \notin {a.from, a.to}
        BY <1>6, <1>12, <2>2, <3>1
      <4>2. l \in Lists
        BY PlayersListsAreLists
      <4>3. QED
        BY <1>10, <4>1, <4>2 DEF Changes, Predicts
    <3>2. CASE ~(r.done \/ r.refused)
      <4>1. lists = {} /\ server' = server
        BY <1>6, <1>10, <3>2
      <4>2. ~(a.type # "craft" /\ {a.from, a.to} \subseteq PlayerLists)
        BY <1>13, <1>17, <4>1
      <4>3. QED
        BY <4>1, <4>2 DEF Predicts
    <3>3. QED
      BY <3>1, <3>2
  <2>3. QED
    BY <1>1, <2>1, <2>2
<1>18. QED
  BY <1>3, <1>10, <1>11, <1>15, <1>16, <1>17, ServerActs

LEMMA handleDrop_Inv ==
  ASSUME InventoryInv, handleDrop
  PROVE  InventoryInv'
<1>0. InventoryShape
  BY DEF InventoryInv
<1>1. PICK a : a = Head(toServer)
  OBVIOUS
<1>2. NextAction({"drop"})
  BY DEF handleDrop
<1>3. /\ toServer # <<>> /\ toServer' = Tail(toServer) /\ a.type = "drop"
      /\ a \in Actions /\ Asked(server, a) /\ server \in Shape(Lists) /\ Total(server) \in Nat
      /\ a.from \in Lists /\ a.count \in Nat
  BY <1>1, <1>2, NextIs
<1>4. PICK was : was = server[a.from][a.i]
  OBVIOUS
<1>5. UNCHANGED <<client, m_inventory_from_server, toClient>> /\ UNCHANGED moves
  BY DEF handleDrop
<1>6. a.i \in DOMAIN server[a.from] /\ was \in Stacks /\ was.count \in Nat
  BY <1>3, <1>4, SlotIs, StackIs, InventoryAssumption DEF Asked
<1>7. modified \subseteq PlayerLists /\ moves \in 0 .. MaxMoves /\ outside \in Nat
  BY <1>0 DEF InventoryShape
<1>8. Changes(Lists, server, server, {a.from})
  BY <1>3, SameChanges
<1>9. CASE dead \/ was.count = 0
  <2>1. Marks(a, {}) /\ Answered(a, {}) /\ UNCHANGED <<server, offered, outside>>
    BY <1>1, <1>4, <1>9 DEF handleDrop
  <2>2. modified' = modified
    BY <2>1 DEF Marks
  <2>3. unanswered' = (unanswered \/ {a.from, a.to} \subseteq PlayerLists)
    BY <1>3, <2>1 DEF Answered
  <2>4. Changes(Lists, server, server', {a.from})
    BY <1>8, <2>1
  <2>5. offered' \/ (~offered /\ Total(server') + outside' = Total(server) + outside)
    BY <2>1
  <2>6. modified \subseteq modified' /\ modified' \subseteq PlayerLists
        /\ moves' \in 0 .. MaxMoves /\ outside' \in Nat
    BY <1>5, <1>7, <2>1, <2>2
  <2>7. offered' \/ unanswered' \/
          /\ ~offered /\ ~unanswered
          /\ \A l \in PlayerLists : l \notin modified' =>
               server'[l] = server[l] /\ ~Predicts(a, l)
    BY <2>1, <2>3 DEF Predicts
  <2>8. QED
    BY <1>1, <1>3, <1>5, <2>4, <2>5, <2>6, <2>7, ServerActs
<1>10. CASE ~(dead \/ was.count = 0)
  <2>1. PICK take \in Allowed :
        \E n \in 0 .. AtMost(Min({a.count, was.count}), take) :
          /\ server' = IF n > 0 /\ take # -1
                       THEN Put(server, a.from, a.i, takeItem(was, n)) ELSE server
          /\ LET lists == IF take = -1 /\ n > 0 THEN {} ELSE {a.from}
             IN  Marks(a, lists) /\ Answered(a, lists)
          /\ offered' = (offered \/ (take = -1 /\ n > 0))
          /\ outside' = outside + n
    BY <1>1, <1>4, <1>10 DEF handleDrop
  <2>2. PICK n \in 0 .. AtMost(Min({a.count, was.count}), take) :
          /\ server' = IF n > 0 /\ take # -1
                       THEN Put(server, a.from, a.i, takeItem(was, n)) ELSE server
          /\ LET lists == IF take = -1 /\ n > 0 THEN {} ELSE {a.from}
             IN  Marks(a, lists) /\ Answered(a, lists)
          /\ offered' = (offered \/ (take = -1 /\ n > 0))
          /\ outside' = outside + n
    BY <2>1
  <2>3. n \in Nat /\ n <= was.count
    <3>1. PICK m : m = Min({a.count, was.count})
      OBVIOUS
    <3>2. m \in Nat /\ m <= was.count
      <4>1. a.count \in Int /\ was.count \in Int
        BY <1>3, <1>6
      <4>2. m = IF a.count <= was.count THEN a.count ELSE was.count
        BY <3>1, <4>1, MinOfTwo
      <4>3. QED
        BY <1>3, <1>6, <4>2
    <3>3. take \in Nat \union {-1}
      BY InventoryAssumption
    <3>4. AtMost(m, take) \in Nat /\ AtMost(m, take) <= m
      BY <3>2, <3>3, AtMostIs
    <3>5. QED
      BY <1>6, <3>1, <3>2, <3>4
  <2>4. PICK lists : lists = IF take = -1 /\ n > 0 THEN {} ELSE {a.from}
    OBVIOUS
  <2>5. Marks(a, lists) /\ Answered(a, lists)
    BY <2>2, <2>4
  <2>6. modified' = modified \union (lists \intersect PlayerLists)
    BY <2>5 DEF Marks
  <2>7. takeItem(was, n) \in Stacks /\ takeItem(was, n).count = was.count - n
    BY <1>6, <2>3, StackTaken
  <2>8. PICK p : p = Put(server, a.from, a.i, takeItem(was, n))
    OBVIOUS
  <2>9. Changes(Lists, server, p, {a.from})
    BY <1>3, <1>6, <1>8, <2>7, <2>8, PutChanges
  <2>10. Total(p) = Total(server) - was.count + (was.count - n)
    BY <1>3, <1>4, <1>6, <2>7, <2>8, ListsAreFinite, TotalPut
  <2>11. server' = (IF n > 0 /\ take # -1 THEN p ELSE server) /\ outside' = outside + n
         /\ offered' = (offered \/ (take = -1 /\ n > 0))
    BY <2>2, <2>8
  <2>12. Changes(Lists, server, server', {a.from})
    BY <1>8, <2>9, <2>11
  <2>13. modified \subseteq modified' /\ modified' \subseteq PlayerLists
         /\ moves' \in 0 .. MaxMoves /\ outside' \in Nat
    BY <1>5, <1>7, <2>3, <2>6, <2>11
  <2>14. offered' \/ (~offered /\ Total(server') + outside' = Total(server) + outside)
    <3>1. CASE n > 0 /\ take # -1
      <4>1. server' = p /\ (offered' <=> offered)
        BY <2>11, <3>1
      <4>2. PICK w \in Nat, t \in Nat, o \in Nat :
              w = was.count /\ t = Total(server) /\ o = outside
        BY <1>3, <1>6, <1>7
      <4>3. Total(server') = t - w + (w - n) /\ outside' = o + n
        BY <2>10, <2>11, <4>1, <4>2
      <4>4. t - w + (w - n) + (o + n) = t + o
        BY <2>3
      <4>5. QED
        BY <4>1, <4>2, <4>3, <4>4
    <3>2. CASE n > 0 /\ take = -1
      BY <2>11, <3>2
    <3>3. CASE ~(n > 0)
      <4>1. n = 0
        BY <2>3, <3>3
      <4>2. server' = server /\ outside' = outside /\ offered' = (offered \/ FALSE)
        BY <1>7, <2>11, <4>1
      <4>3. QED
        BY <4>2
    <3>4. QED
      BY <3>1, <3>2, <3>3
  <2>15. ASSUME ~(offered' \/ unanswered')
         PROVE  /\ ~offered /\ ~unanswered
                /\ \A l \in PlayerLists : l \notin modified' =>
                     server'[l] = server[l] /\ ~Predicts(a, l)
    <3>1. ~offered /\ ~unanswered
      BY <2>5, <2>11, <2>15 DEF Answered
    <3>2. lists = {a.from}
      BY <2>4, <2>11, <2>15
    <3>3. ASSUME NEW l \in PlayerLists, l \notin modified'
          PROVE  server'[l] = server[l] /\ ~Predicts(a, l)
      <4>1. l # a.from /\ l \in Lists
        BY <2>6, <3>2, <3>3, PlayersListsAreLists
      <4>2. server'[l] = server[l]
        BY <2>12, <4>1 DEF Changes
      <4>3. a.to = a.from
        BY <1>3 DEF Asked
      <4>4. QED
        BY <4>1, <4>2, <4>3 DEF Predicts
    <3>4. QED
      BY <3>1, <3>3
  <2>16. QED
    BY <1>1, <1>3, <1>5, <2>12, <2>13, <2>14, <2>15, ServerActs
<1>11. QED
  BY <1>9, <1>10

LEMMA handleCraft_Inv ==
  ASSUME InventoryInv, handleCraft
  PROVE  InventoryInv'
<1>0. InventoryShape
  BY DEF InventoryInv
<1>1. PICK a : a = Head(toServer)
  OBVIOUS
<1>2. NextAction({"craft"})
  BY DEF handleCraft
<1>3. /\ toServer # <<>> /\ toServer' = Tail(toServer) /\ a.type = "craft"
      /\ server \in Shape(Lists) /\ Total(server) \in Nat /\ a.count \in Nat
  BY <1>1, <1>2, NextIs
<1>4. UNCHANGED <<client, m_inventory_from_server, toClient>>
      /\ UNCHANGED <<moves, offered, outside, unanswered>>
  BY DEF handleCraft
<1> DEFINE grid  == server[CraftList][1]
           was   == server[ResultList][1]
           room  == IF was.name \in {NoItem, Product} THEN stack_max - was.count ELSE 0
           could == IF grid.name = Ingredient THEN Min({grid.count, room}) ELSE 0
           n     == IF a.count = 0 THEN could ELSE Min({a.count, could})
           lists == IF n > 0 THEN {CraftList, ResultList} ELSE {}
<1>5. /\ server' = AddAt(Put(server, CraftList, 1, takeItem(grid, n)), ResultList, 1,
                         Of(Product, n))
      /\ Marks(a, lists)
  BY <1>1 DEF handleCraft
<1>6. server[CraftList] # <<>> /\ server[ResultList] # <<>>
      /\ modified \subseteq PlayerLists /\ moves \in 0 .. MaxMoves /\ outside \in Nat
  BY <1>0 DEF InventoryShape
<1>7. grid \in Stacks /\ was \in Stacks
  <2>1. \A s \in Seq(Stacks) : s # <<>> => s[1] \in Stacks
    OBVIOUS
  <2>2. server[CraftList] \in Seq(Stacks) /\ server[ResultList] \in Seq(Stacks)
    BY <1>3, SlotIs, InventoryAssumption, PlayersListsAreLists
  <2>3. QED
    BY <1>6, <2>1, <2>2
<1>8. grid.count \in Nat /\ was.count \in Nat /\ was.count <= stack_max /\ stack_max \in Nat
  <2> HIDE DEF grid, was
  <2>1. QED
    BY <1>7, StackIs, InventoryAssumption
<1> HIDE DEF grid, was
<1>9. room \in Nat /\ (room > 0 => was.name \in {NoItem, Product} /\ room <= stack_max - was.count)
  BY <1>8
<1> HIDE DEF room
<1>10. could \in Nat /\ could <= grid.count /\ could <= room
  <2>1. Min({grid.count, room}) = IF grid.count <= room THEN grid.count ELSE room
    BY <1>8, <1>9, MinOfTwo
  <2>2. QED
    BY <1>8, <1>9, <2>1
<1> HIDE DEF could
<1>11. n \in Nat /\ n <= could
  <2>1. Min({a.count, could}) = IF a.count <= could THEN a.count ELSE could
    BY <1>3, <1>10, MinOfTwo
  <2>2. QED
    BY <1>3, <1>10, <2>1
<1> HIDE DEF n
<1>12. n \in Nat /\ n <= grid.count
       /\ (n > 0 => was.name \in {NoItem, Product} /\ n <= stack_max - was.count)
  BY <1>8, <1>9, <1>10, <1>11
<1>13. /\ Changes(Lists, server, server', {CraftList, ResultList})
       /\ Total(server') = Total(server) /\ (n = 0 => server' = server)
  <2>1. PICK new : new = server'
    OBVIOUS
  <2>2. new = Crafted(server, n) /\ CanCraft(server, n)
    BY <1>5, <1>6, <1>12, <2>1 DEF grid, was, Crafted, CanCraft
  <2>3. /\ Changes(Lists, server, new, {CraftList, ResultList})
        /\ Total(new) = Total(server) /\ (n = 0 => new = server)
    BY <1>3, <1>12, <2>2, CraftIs
  <2>4. QED
    BY <2>1, <2>3
<1>14. modified' = modified \union (lists \intersect PlayerLists)
  BY <1>5 DEF Marks
<1>15. modified \subseteq modified' /\ modified' \subseteq PlayerLists
       /\ moves' \in 0 .. MaxMoves /\ outside' \in Nat
  BY <1>4, <1>6, <1>14
<1>16. offered' \/ (~offered /\ Total(server') + outside' = Total(server) + outside)
  BY <1>4, <1>13
<1>17. \A l \in PlayerLists : l \notin modified' => server'[l] = server[l] /\ ~Predicts(a, l)
  <2> SUFFICES ASSUME NEW l \in PlayerLists, l \notin modified' PROVE server'[l] = server[l]
    BY <1>3 DEF Predicts
  <2>1. CASE n = 0
    BY <1>13, <2>1
  <2>2. CASE n > 0
    <3>1. lists = {CraftList, ResultList}
      BY <2>2
    <3>2. l \notin {CraftList, ResultList} /\ l \in Lists
      BY <1>14, <3>1, PlayersListsAreLists
    <3>3. QED
      BY <1>13, <3>2 DEF Changes
  <2>3. QED
    BY <1>12, <2>1, <2>2
<1>18. QED
  BY <1>1, <1>3, <1>4, <1>13, <1>15, <1>16, <1>17, ServerActs

LEMMA ModTakes_Inv ==
  ASSUME InventoryInv, NEW l \in Lists, NEW i \in Slots(l), ModTakes(l, i)
  PROVE  InventoryInv'
<1>0. InventoryShape
  BY DEF InventoryInv
<1>1. /\ moves < MaxMoves /\ moves' = moves + 1
      /\ outside' = outside + server[l][i].count /\ server' = Put(server, l, i, Empty)
      /\ modified' = modified \union ({l} \intersect PlayerLists)
      /\ UNCHANGED <<client, m_inventory_from_server, toClient>>
      /\ UNCHANGED <<toServer, offered, unanswered>>
  BY DEF ModTakes
<1>2. server \in Shape(Lists) /\ modified \subseteq PlayerLists /\ moves \in 0 .. MaxMoves
      /\ outside \in Nat
  BY <1>0 DEF InventoryShape
<1>3. i \in DOMAIN server[l] /\ Empty \in Stacks /\ Empty.count = 0
  BY DEF Slots, Stacks, Empty
<1>4. server[l][i].count \in Nat /\ Total(server) \in Nat
  BY <1>2, <1>3, SlotIs, StackIs, InventoryAssumption, ListsAreFinite, ItemsAreFinite
<1>5. Changes(Lists, server, server', {l})
  <2>1. Changes(Lists, server, server, {l})
    BY <1>2, SameChanges
  <2>2. QED
    BY <1>1, <1>2, <1>3, <2>1, PutChanges
<1>6. Total(server') = Total(server) - server[l][i].count + 0
  BY <1>1, <1>2, <1>3, ListsAreFinite, TotalPut
<1>7. Total(server') + outside' = Total(server) + outside
  BY <1>1, <1>2, <1>4, <1>6
<1>8. modified \subseteq modified' /\ modified' \subseteq PlayerLists
      /\ moves' \in 0 .. MaxMoves /\ outside' \in Nat
  BY <1>1, <1>2, <1>4, InventoryAssumption
<1>9. \A x \in PlayerLists : x \notin modified' => server'[x] = server[x]
  <2>1. \A x \in PlayerLists : x \notin modified' => x # l /\ x \in Lists
    BY <1>1, PlayersListsAreLists
  <2>2. QED
    BY <1>5, <2>1 DEF Changes
<1>10. QED
  BY <1>1, <1>5, <1>7, <1>8, <1>9, ServerActs

LEMMA InventoryInit_Inv == InventoryInit => InventoryInv
<1> SUFFICES ASSUME InventoryInit PROVE InventoryInv
  OBVIOUS
<1>1. /\ server \in InitialInventories /\ client = Mine(server)
      /\ m_inventory_from_server = client /\ modified = {} /\ toServer = <<>> /\ toClient = <<>>
      /\ moves = 0 /\ outside = 0
  BY DEF InventoryInit
<1>2. server \in Shape(Lists) /\ server[CraftList] # <<>> /\ server[ResultList] # <<>>
  BY <1>1, InventoryAssumption DEF Shape
<1>3. client \in Views(server) /\ \A l \in PlayerLists : client[l] = server[l]
  <2>1. \A l \in PlayerLists : server[l] \in Seq(Stacks)
    BY <1>2, SlotIs, PlayersListsAreLists
  <2>2. QED
    BY <1>1, <2>1 DEF Views, Shape, Mine
<1>4. InventoryShape
  <2>1. 0 \in 0 .. MaxMoves
    BY InventoryAssumption
  <2>2. QED
    BY <1>1, <1>2, <1>3, <2>1 DEF InventoryShape
<1>5. Total(server) \in Nat
  BY <1>2, ListsAreFinite, ItemsAreFinite
<1>6. ItemsAreConserved
  BY <1>1, <1>5 DEF ItemsAreConserved
<1>7. ClientSees
  <2>1. Len(toClient) = 0
    BY <1>1
  <2>2. QED
    BY <1>1, <1>3, <2>1 DEF ClientSees, SeesList, LastIsTrue
<1>8. QED
  BY <1>4, <1>6, <1>7 DEF InventoryInv

LEMMA InventoryNext_Inv == InventoryInv /\ [InventoryNext]_inventoryVars => InventoryInv'
<1> SUFFICES ASSUME InventoryInv, [InventoryNext]_inventoryVars PROVE InventoryInv'
  OBVIOUS
<1>1. CASE UNCHANGED inventoryVars
  <2>1. UNCHANGED <<server, client, m_inventory_from_server, modified, toServer, toClient, moves,
                    offered, outside, unanswered>>
    BY <1>1 DEF inventoryVars
  <2>2. QED
    BY <2>1 DEF InventoryInv, InventoryShape, ItemsAreConserved, ClientSees, SeesList
<1>2. ASSUME NEW from \in Lists, NEW i \in Slots(from), NEW n \in 1 .. stack_max,
             \/ \E to \in Lists : \E ti \in Slots(to) : sendMove(from, i, to, ti, n)
             \/ \E to \in Lists : sendMoveSomewhere(from, i, to, n)
             \/ sendDrop(from, i, n)
      PROVE  InventoryInv'
  BY <1>2, sendMove_Inv, sendMoveSomewhere_Inv, sendDrop_Inv
<1>3. ASSUME NEW n \in 0 .. 1, sendCraft(n) PROVE InventoryInv'
  BY <1>3, sendCraft_Inv
<1>4. CASE Dies
  <2>1. UNCHANGED <<server, client, m_inventory_from_server, modified, toServer, toClient, moves,
                    offered, outside, unanswered>>
    BY <1>4 DEF Dies
  <2>2. QED
    BY <2>1 DEF InventoryInv, InventoryShape, ItemsAreConserved, ClientSees, SeesList
<1>5. ASSUME NEW l \in Lists, NEW i \in Slots(l), ModTakes(l, i) PROVE InventoryInv'
  BY <1>5, ModTakes_Inv
<1>6. QED
  BY <1>1, <1>2, <1>3, <1>4, <1>5, RevertPrediction_Inv, handleCommand_Inventory_Inv,
     handleMove_Inv, handleDrop_Inv, handleCraft_Inv, SendInventory_Inv DEF InventoryNext

LEMMA InventoryInv_Sees == InventoryInv => ClientSeesServer
<1> SUFFICES ASSUME InventoryInv, Quiet, ~offered, ~unanswered
             PROVE  m_inventory_from_server = Mine(server)
  BY DEF ClientSeesServer
<1>1. modified = {} /\ Len(toClient) = 0 /\ Len(toServer) = 0
  BY DEF Quiet
<1>2. \A l \in PlayerLists : m_inventory_from_server[l] = server[l]
  <2>1. \A l \in PlayerLists : SeesList(l)
    BY DEF InventoryInv, ClientSees
  <2>2. \A l \in PlayerLists : ~Coming(l, modified, toClient) /\ ~Predicted(l, toServer)
    BY <1>1 DEF Coming, Predicted
  <2>3. QED
    BY <2>1, <2>2 DEF SeesList
<1>3. m_inventory_from_server \in [PlayerLists -> Seq(Stacks)]
  BY DEF InventoryInv, InventoryShape, Views, Shape
<1>4. QED
  BY <1>2, <1>3 DEF Mine

LEMMA InventoryInv_Types == InventoryInv => InventoryTypeOK
<1> SUFFICES ASSUME InventoryInv PROVE InventoryTypeOK
  OBVIOUS
<1>1. server \in Shape(Lists) /\ client \in Shape(PlayerLists) /\ modified \subseteq PlayerLists
      /\ moves \in 0 .. MaxMoves
  BY DEF InventoryInv, InventoryShape, Views
<1>2. \A l \in Lists : \A i \in Slots(l) : server[l][i] \in Stacks
  BY <1>1, SlotIs DEF Slots
<1>3. \A l \in PlayerLists : \A i \in DOMAIN client[l] : client[l][i] \in Stacks
  BY <1>1, SlotIs
<1>4. QED
  BY <1>1, <1>2, <1>3 DEF InventoryTypeOK

-----------------------------------------------------------------------------
(* The parts side by side: a step of one is a stutter of the others.       *)

LEMMA PartsSteps ==
  [PartsNext]_partsVars =>
    /\ [BufferNext]_bufferVars /\ [SplitNext]_splitVars /\ [EmergeNext]_emergeVars
    /\ [IdentityNext]_identityVars /\ [ModChannelsNext]_modChannelVars
    /\ [ProxyNext]_proxyVars /\ [InventoryNext]_inventoryVars /\ part' = part
<1> SUFFICES ASSUME [PartsNext]_partsVars
             PROVE  /\ [BufferNext]_bufferVars /\ [SplitNext]_splitVars
                    /\ [EmergeNext]_emergeVars /\ [IdentityNext]_identityVars
                    /\ [ModChannelsNext]_modChannelVars /\ [ProxyNext]_proxyVars
                    /\ [InventoryNext]_inventoryVars /\ part' = part
  OBVIOUS
<1>1. CASE UNCHANGED partsVars
  BY <1>1, Zenon DEF partsVars
<1>8. CASE InventoryPart
  BY <1>8, Zenon DEF InventoryPart
<1>2. CASE BufferPart
  BY <1>2, Zenon DEF BufferPart
<1>3. CASE SplitPart
  BY <1>3, Zenon DEF SplitPart
<1>4. CASE EmergePart
  BY <1>4, Zenon DEF EmergePart
<1>5. CASE ProxyPart
  BY <1>5, Zenon DEF ProxyPart
<1>6. CASE IdentityPart
  BY <1>6, Zenon DEF IdentityPart
<1>7. CASE ModChannelsPart
  BY <1>7, Zenon DEF ModChannelsPart
<1> QED
  BY <1>1, <1>2, <1>3, <1>4, <1>5, <1>6, <1>7, <1>8 DEF PartsNext

(* What a peer receives of a split message is a message as it was sent,    *)
(* whatever chunks are lost, come twice or late, for every size of chunks  *)
(* and number of messages: IncomingSplitBuffer never hands out a mixture.  *)
THEOREM PartsMessagesAreWhole == PartsSpec => []MessagesAreWhole
<1>1. PartsInit => SplitInv
  BY SplitInit_Inv DEF PartsInit
<1>2. SplitInv /\ [PartsNext]_partsVars => SplitInv'
  BY PartsSteps, SplitNext_Inv
<1>3. SplitInv => MessagesAreWhole
  BY SplitInv_Whole
<1> QED
  BY <1>1, <1>2, <1>3, PTL DEF PartsSpec

(* The list of ids names each peer once and an address has one peer, but   *)
(* for those given id 0; and a client's view of being in a channel is what *)
(* the server's list and the packets under way make of it, for every set   *)
(* of addresses, circle of ids and set of clients (createPeer).            *)
THEOREM PartsIdsAgree == PartsSpec => []IdsAgree
<1>1. PartsInit => IdentityInv /\ ChannelInv
  BY IdentityInit_Inv, ModChannelsInit_Inv DEF PartsInit
<1>2. IdentityInv /\ ChannelInv /\ [PartsNext]_partsVars => (IdentityInv /\ ChannelInv)'
  BY PartsSteps, IdentityNext_Inv, ModChannelsNext_Inv
<1>3. IdentityInv /\ ChannelInv => IdsAgree
  BY IdentityInv_Sound, ChannelInv_Agree DEF IdsAgree
<1> QED
  BY <1>1, <1>2, <1>3, PTL DEF PartsSpec

(* A player who is sent but once is where his packets go, no slave keeps   *)
(* one who is gone without being told, and the proxy ends only for the     *)
(* reasons given, for every number of players, slaves, ids and transfers.  *)
THEOREM PartsPlayersAreSomewhere == PartsSpec => []PlayersAreSomewhere
<1>1. PartsInit => ProxyInv
  BY ProxyInit_Inv DEF PartsInit
<1>2. ProxyInv /\ [PartsNext]_partsVars => ProxyInv'
  BY PartsSteps, ProxyNext_Inv
<1>3. ProxyInv => PlayersAreSomewhere
  BY ProxyInv_Somewhere
<1> QED
  BY <1>1, <1>2, <1>3, PTL DEF PartsSpec

(* Each position is in one queue and charged once, no thread sleeps on     *)
(* work, no two make one chunk at the same time, a change outlives what is *)
(* generated unless it was made meanwhile, and a request is called back    *)
(* once: for every number of threads, positions and requests, and every    *)
(* map (EmergeManager).                                                    *)
THEOREM PartsEmergeIsCorrect == PartsSpec => EmergeIsCorrect
<1>1. PartsInit => EmergeInit
  BY DEF PartsInit
<1>2. [PartsNext]_partsVars => [EmergeNext]_emergeVars
  BY PartsSteps
<1> QED
  BY <1>1, <1>2, EmergeCorrect, PTL DEF PartsSpec, EmergeSpec

(* Items are neither made nor lost, whatever the callbacks of mods allow   *)
(* but to give without limit, for every inventory, limit of a stack and    *)
(* number of actions (IMoveAction, IDropAction and ICraftAction::apply).   *)
THEOREM PartsItemsAreConserved == PartsSpec => []ItemsAreConserved
<1>1. PartsInit => InventoryInv
  BY InventoryInit_Inv DEF PartsInit
<1>2. InventoryInv /\ [PartsNext]_partsVars => InventoryInv'
  BY PartsSteps, InventoryNext_Inv
<1>3. InventoryInv => ItemsAreConserved
  BY DEF InventoryInv
<1> QED
  BY <1>1, <1>2, <1>3, PTL DEF PartsSpec

(* When nothing is on its way the client takes for the server's what the   *)
(* server has, though it kept predictions of lists that were not sent,     *)
(* unless an action came to nothing on the server or a callback gave items *)
(* (Client::handleCommand_Inventory, setInventoryModified).                *)
THEOREM PartsClientSeesServer == PartsSpec => []ClientSeesServer
<1>1. PartsInit => InventoryInv
  BY InventoryInit_Inv DEF PartsInit
<1>2. InventoryInv /\ [PartsNext]_partsVars => InventoryInv'
  BY PartsSteps, InventoryNext_Inv
<1>3. InventoryInv => ClientSeesServer
  BY InventoryInv_Sees
<1> QED
  BY <1>1, <1>2, <1>3, PTL DEF PartsSpec

(* Each part keeps its types, and no stack exceeds its limit on the server *)
(* or the client, whatever is moved, swapped, crafted or given back.       *)
PartsInv ==
  /\ part \in {"buffer", "split", "inventory", "emerge", "proxy", "identity", "channels"}
  /\ ListInv /\ SplitInv /\ InventoryInv /\ EmergeInv /\ ProxyInv /\ IdentityInv /\ ChannelInv

THEOREM PartsTypesAlways == PartsSpec => []PartsTypeOK
<1>1. PartsInit => PartsInv
  BY BufferInit_Inv, SplitInit_Inv, InventoryInit_Inv, EmergeBegins, ProxyInit_Inv,
     IdentityInit_Inv, ModChannelsInit_Inv DEF PartsInit, PartsInv
<1>2. PartsInv /\ [PartsNext]_partsVars => PartsInv'
  <2> SUFFICES ASSUME PartsInv, [PartsNext]_partsVars PROVE PartsInv'
    OBVIOUS
  <2>1. ListInv' /\ SplitInv'
    BY PartsSteps, BufferNext_Inv, SplitNext_Inv DEF PartsInv
  <2>2. InventoryInv' /\ ProxyInv'
    BY PartsSteps, InventoryNext_Inv, ProxyNext_Inv DEF PartsInv
  <2>3. IdentityInv' /\ ChannelInv'
    BY PartsSteps, IdentityNext_Inv, ModChannelsNext_Inv DEF PartsInv
  <2>4. EmergeInv'
    BY PartsSteps, EmergeKeeps DEF PartsInv
  <2>5. part' = part
    BY PartsSteps
  <2>6. QED
    BY <2>1, <2>2, <2>3, <2>4, <2>5 DEF PartsInv
<1>3. PartsInv => PartsTypeOK
  <2> SUFFICES ASSUME PartsInv PROVE PartsTypeOK
    OBVIOUS
  <2>1. /\ BufferTypeOK /\ SplitTypeOK /\ InventoryTypeOK /\ EmergeTypeOK /\ ProxyTypeOK
        /\ IdentityTypeOK /\ ModChannelsTypeOK
    BY SplitInv_TypeOK, InventoryInv_Types, EmergeInvSound, ProxyInv_TypeOK
       DEF PartsInv, ListInv, IdentityInv, ChannelInv
  <2>2. part \in {"buffer", "split", "inventory", "emerge", "proxy", "identity", "channels"}
    BY DEF PartsInv
  <2>3. QED
    BY <2>1, <2>2 DEF PartsTypeOK
<1> QED
  BY <1>1, <1>2, <1>3, PTL DEF PartsSpec
=============================================================================

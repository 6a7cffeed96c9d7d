----------------------- MODULE ReliableChannel_proofs -----------------------
(***************************************************************************)
(* ReliableChannel keeps the promise of OrderedDelivery, for every length  *)
(* of a behaviour and every size of the circle, the windows and the        *)
(* commands, as long as what a sender may hold spans less than half the    *)
(* circle (CircleIsWide).                                                  *)
(*                                                                         *)
(* The argument: a packet's idx determines its sequence number, and, among *)
(* the packets near each other, the sequence number its idx; so every      *)
(* comparison the code makes between numbers on the circle is one between  *)
(* idxs, and both lists are sorted by idx.  The packets settled (all but   *)
(* those of the command being cut, whose numbers may be put back) carry    *)
(* the pieces in order; each number the receiver has not consumed is that  *)
(* of a packet one of the two sides keeps.                                 *)
(***************************************************************************)
EXTENDS ReliableChannel, ReliablePacketBuffer_proofs

Larger(m, n) == IF m > n THEN m ELSE n

(* How many packets wait in queued_reliables at most when a command is cut.*)
QueueLimit == Larger(max_packets_requeued, MaxWindowSize \div 2)

(* How many numbers at most are given out from the first packet waiting in *)
(* queued_reliables on: pings overtake it.                                 *)
MaxUnsent == QueueLimit + MaxCommandPackets + 2 * MaxPings

(* How many numbers at most from the oldest packet the sender holds on.    *)
MaxSpan == Larger(MaxWindowSize + 2, MaxUnsent)

(* That is less than half the circle: a window at the upper bound of the   *)
(* code, MAX_RELIABLE_WINDOW_SIZE, is too large by three.                  *)
CircleIsWide == MaxSpan < MAX_RELIABLE_WINDOW_SIZE

-----------------------------------------------------------------------------
(* The sequence number of the packet with that idx.                        *)
Num(i) == U16(SEQNUM_INITIAL + i)

(* Numbers from here on belong to the command being cut.                   *)
Cut == given - Len(building.packets)

(* The first piece not yet in a settled packet.                            *)
Uncut == IF pc = "build" THEN building.command.first
         ELSE IF queued_commands # <<>> THEN Head(queued_commands).first
         ELSE submitted + 1

Sent    == wire \union Packets(outgoing_reliables_sent)
                \union Packets(incoming_reliables)
Settled == Sent \union Packets(queued_reliables)
Kept    == Packets(outgoing_reliables_sent) \union Packets(queued_reliables)
             \union Packets(incoming_reliables)

(* Numbers follow idxs.                                                    *)
Numbered ==
  /\ next_incoming_seqnum = Num(taken) /\ taken <= Cut
  /\ \A p \in Settled : p.seqnum = Num(p.idx) /\ p.idx < Cut
  /\ \A a \in acks : a.seqnum = Num(a.idx) /\ a.idx < Cut

(* The command being cut; it is the first queued one when that is tried    *)
(* again, and the last one submitted otherwise.                            *)
BuildingIsNew ==
  /\ pc # "build" => building = NotBuilding
  /\ pc = "build" =>
       /\ building.command \in Command
       /\ Len(building.packets) <= building.command.size
       /\ building.command.size <= MaxCommandPackets
       /\ Len(queued_reliables) < QueueLimit
       /\ \A k \in DOMAIN building.packets :
            building.packets[k] =
              [idx |-> Cut + k - 1, seqnum |-> Num(Cut + k - 1),
               payload |-> building.command.first + k - 1]
       /\ building.requeue =>
            queued_commands # <<>> /\ building.command = Head(queued_commands)
       /\ ~ building.requeue =>
            /\ queued_commands = <<>>
            /\ building.command.first + building.command.size = submitted + 1

(* The queued commands are what was submitted last, in order.              *)
CommandsFollow ==
  \A i \in DOMAIN queued_commands :
    LET end == queued_commands[i].first + queued_commands[i].size
    IN /\ queued_commands[i].size <= MaxCommandPackets
       /\ end <= submitted + 1
       /\ end = IF i = Len(queued_commands) THEN submitted + 1
                ELSE queued_commands[i + 1].first

(* Packets are what their idx says, and those in queued_reliables have     *)
(* never been sent.                                                        *)
OneOfEach == \A p, q \in Settled : p.idx = q.idx => p = q
QueuedAreUnsent ==
  /\ InIdxOrder(queued_reliables)
  /\ \A q \in Packets(queued_reliables) :
       /\ taken <= q.idx
       /\ \A p \in Sent : p.idx # q.idx

(* The packets carry the pieces in order, and those the receiver has not   *)
(* consumed all the pieces it has not delivered.                           *)
PiecesInOrder ==
  \A p, q \in Settled :
    p.payload # PING /\ q.payload # PING /\ p.idx < q.idx => p.payload < q.payload
PiecesAreDue ==
  \A p \in Settled : p.payload # PING =>
    p.payload < Uncut /\ (taken <= p.idx => Len(delivered) < p.payload)
PiecesAreKept ==
  /\ Len(delivered) < Uncut
  /\ \A n \in Len(delivered) + 1 .. Uncut - 1 :
       \E p \in Kept : taken <= p.idx /\ p.payload = n

NumbersAreKept == \A i \in taken .. Cut - 1 : \E p \in Kept : p.idx = i

(* What waits for its turn at the receiver; when packet_queued is not set, *)
(* it is not its turn.                                                     *)
WaitsItsTurn ==
  \A p \in Packets(incoming_reliables) :
    /\ taken <= p.idx /\ p.idx < taken + MaxSpan
    /\ ~ packet_queued => p.idx # taken

(* How far what the sender holds reaches back.                             *)
SpanIsBounded ==
  /\ Len(queued_reliables) <= QueueLimit + MaxCommandPackets + pings
  /\ \A q \in Packets(queued_reliables) :
       given - q.idx <= Len(queued_reliables) + Len(building.packets) + pings
  /\ \A p \in Packets(outgoing_reliables_sent) : given - p.idx <= MaxSpan

(* The sender's bookkeeping is right whatever the size of the circle.      *)
SenderInv ==
  /\ TypeOK /\ NoFatalError
  /\ next_outgoing_seqnum = Num(given) /\ Len(building.packets) <= given
  /\ BuildingIsNew /\ CommandsFollow

IInv ==
  /\ SenderInv /\ Numbered
  /\ OneOfEach /\ QueuedAreUnsent /\ PiecesInOrder /\ PiecesAreDue /\ PiecesAreKept
  /\ NumbersAreKept /\ AckedIsKept /\ BuffersSorted /\ WaitsItsTurn /\ SpanIsBounded

-----------------------------------------------------------------------------
(* Sequence numbers and idxs.                                              *)

(* The remainder of a division by the size of the circle.                  *)
LEMMA U16IsRemainder ==
  ASSUME NEW x \in Int
  PROVE  /\ U16(x) \in SeqNums
         /\ \E k \in Int : x = k * (SEQNUM_MAX + 1) + U16(x)
<1> DEFINE M == SEQNUM_MAX + 1
<1>1. M \in Nat \ {0}
  BY CircleSize
<1>2. \A m \in Nat \ {0} : x % m \in 0 .. m - 1 /\ x = (x \div m) * m + (x % m)
  BY Z3
<1>3. \A m \in Nat \ {0} : x \div m \in Int
  BY Z3
<1>4. U16(x) = x % M
  BY DEF U16
<1>5. x % M \in SeqNums
  BY <1>1, <1>2, CircleSize DEF SeqNums
<1>6. x \div M \in Int /\ x = (x \div M) * M + (x % M)
  BY <1>1, <1>2, <1>3
<1> QED
  BY <1>4, <1>5, <1>6

(* Whole turns of the circle are far.                                      *)
LEMMA Turns ==
  ASSUME NEW k \in Int
  PROVE  LET M == SEQNUM_MAX + 1
         IN /\ k * M \in Int
            /\ k = 0 => k * M = 0
            /\ k = 1 => k * M = M
            /\ k = -1 => k * M = -M
            /\ k >= 2 => k * M >= 2 * M
            /\ k <= -1 => k * M <= -M
            /\ k <= -2 => k * M <= -2 * M
<1> DEFINE M == SEQNUM_MAX + 1
<1>1. M \in Nat \ {0}
  BY CircleSize
<1>2. \A m \in Nat \ {0} :
        /\ k * m \in Int
        /\ k = 0 => k * m = 0
        /\ k = 1 => k * m = m
        /\ k = -1 => k * m = -m
        /\ k >= 2 => k * m >= 2 * m
        /\ k <= -1 => k * m <= -m
        /\ k <= -2 => k * m <= -2 * m
  BY Z3
<1> QED
  BY <1>1, <1>2

(* From one number to another it is as far as from one idx to the other,   *)
(* up to one turn.                                                         *)
LEMMA DistanceOfU16 ==
  ASSUME NEW x \in Int, NEW y \in Int,
         x <= y, y - x <= SEQNUM_MAX
  PROVE  Distance(U16(x), U16(y)) = y - x
<1> DEFINE M == SEQNUM_MAX + 1
           u == U16(x)
           v == U16(y)
<1>1. u \in 0 .. SEQNUM_MAX /\ v \in 0 .. SEQNUM_MAX
  BY U16IsRemainder DEF SeqNums
<1>2. PICK j \in Int : x = j * M + u
  BY U16IsRemainder
<1>3. PICK k \in Int : y = k * M + v
  BY U16IsRemainder
<1>4. M \in Nat /\ M > 0 /\ M = SEQNUM_MAX + 1
  BY CircleSize
<1>5. (k - j) * M = k * M - j * M
  <2>1. \A a, b, c \in Int : (a - b) * c = a * c - b * c
    BY Z3
  <2> QED
    BY <1>4, <2>1
<1>6. (k - j) * M = (y - x) - (v - u)
  <2>1. k * M \in Int /\ j * M \in Int
    BY Turns
  <2> HIDE DEF M, u, v
  <2> QED
    BY <1>1, <1>2, <1>3, <1>5, <2>1, CircleSize
<1>7. k - j = 0 \/ k - j = 1
  <2>1. /\ k - j >= 2 => (k - j) * M >= 2 * M
        /\ k - j <= -1 => (k - j) * M <= -M
    BY Turns
  <2> HIDE DEF M, u, v
  <2> QED
    BY <1>1, <1>4, <1>6, <2>1, CircleSize
<1>8. (k - j = 0 => y - x = v - u) /\ (k - j = 1 => y - x = v - u + M)
  <2>1. /\ k - j = 0 => (k - j) * M = 0
        /\ k - j = 1 => (k - j) * M = M
    BY Turns
  <2> HIDE DEF M, u, v
  <2> QED
    BY <1>1, <1>4, <1>6, <2>1, CircleSize
<1>9. Distance(u, v) = y - x
  <2> HIDE DEF M, u, v
  <2> QED
    BY <1>1, <1>4, <1>7, <1>8, CircleSize DEF Distance
<1> QED
  BY <1>9

(* What is stored in a u16 on the way to a sum does not change its u16.    *)
LEMMA U16OfSum ==
  ASSUME NEW x \in Int, NEW c \in Int
  PROVE  U16(U16(x) + c) = U16(x + c)
<1> DEFINE M == SEQNUM_MAX + 1
           u == U16(x)
           v == U16(u + c)
           w == U16(x + c)
<1>1. PICK i \in Int : x = i * M + u
  BY U16IsRemainder
<1>2. u \in Int /\ v \in 0 .. SEQNUM_MAX /\ w \in 0 .. SEQNUM_MAX
  BY U16IsRemainder DEF SeqNums
<1>3. PICK j \in Int : u + c = j * M + v
  BY <1>2, U16IsRemainder
<1>4. PICK k \in Int : x + c = k * M + w
  BY U16IsRemainder
<1>5. i * M \in Int /\ j * M \in Int /\ k * M \in Int /\ M \in Int
  BY Turns, CircleSize
<1>6. (k - i - j) * M = v - w
  <2>1. \A a, b, d, m \in Int : (a - b - d) * m = a * m - b * m - d * m
    BY Z3
  <2> HIDE DEF M, u, v, w
  <2> QED
    BY <1>1, <1>2, <1>3, <1>4, <1>5, <2>1, CircleSize
<1>7. /\ k - i - j >= 2 => (k - i - j) * M >= 2 * M
      /\ k - i - j = 1 => (k - i - j) * M = M
      /\ k - i - j <= -1 => (k - i - j) * M <= -M
      /\ k - i - j = 0 => (k - i - j) * M = 0
  BY Turns
<1>8. M = SEQNUM_MAX + 1
  OBVIOUS
<1>9. v = w
  <2> HIDE DEF M, u, v, w
  <2> QED
    BY <1>2, <1>5, <1>6, <1>7, <1>8, CircleSize
<1> QED
  BY <1>9

LEMMA NumFacts ==
  ASSUME NEW i \in Int, NEW j \in Int
  PROVE  /\ Num(i) \in SeqNums
         /\ U16(Num(i) + 1) = Num(i + 1)
         /\ U16(Num(i) - MAX_RELIABLE_WINDOW_SIZE) = Num(i - MAX_RELIABLE_WINDOW_SIZE)
         /\ i <= j /\ j - i <= SEQNUM_MAX => Distance(Num(i), Num(j)) = j - i
         /\ Num(i) = Num(j) /\ j - i <= SEQNUM_MAX /\ i - j <= SEQNUM_MAX => i = j
<1> DEFINE W == MAX_RELIABLE_WINDOW_SIZE
           x == SEQNUM_INITIAL + i
           y == SEQNUM_INITIAL + j
<1>1. SEQNUM_INITIAL \in Int /\ x \in Int /\ y \in Int /\ y - x = j - i /\ W \in Int
  BY CircleSize, ReliableChannelAssumption DEF SeqNums
<1>2. Num(i) \in SeqNums /\ Num(j) \in SeqNums
  BY <1>1, U16IsRemainder DEF Num
<1>3. U16(Num(i) + 1) = Num(i + 1)
  <2>1. U16(U16(x) + 1) = U16(x + 1)
    BY <1>1, U16OfSum
  <2>2. x + 1 = SEQNUM_INITIAL + (i + 1)
    BY <1>1
  <2> QED
    BY <2>1, <2>2 DEF Num
<1>4. U16(Num(i) - W) = Num(i - W)
  <2>1. U16(U16(x) + (-W)) = U16(x + (-W))
    BY <1>1, U16OfSum
  <2>2. x + (-W) = SEQNUM_INITIAL + (i - W) /\ U16(x) + (-W) = U16(x) - W
    BY <1>1, <1>2 DEF Num, SeqNums
  <2> QED
    BY <2>1, <2>2 DEF Num
<1>5. i <= j /\ j - i <= SEQNUM_MAX => Distance(Num(i), Num(j)) = j - i
  BY <1>1, DistanceOfU16 DEF Num
<1>6. j <= i /\ i - j <= SEQNUM_MAX => Distance(Num(j), Num(i)) = i - j
  BY <1>1, DistanceOfU16 DEF Num
<1>7. Num(i) = Num(j) => Distance(Num(i), Num(j)) = 0 /\ Distance(Num(j), Num(i)) = 0
  BY <1>2, DistanceFacts
<1> QED
  BY <1>2, <1>3, <1>4, <1>5, <1>6, <1>7

-----------------------------------------------------------------------------
(* The lists, by idx.                                                      *)

(* The packets of l are numbered by their idxs, which are among the w ones *)
(* from b on.                                                              *)
Near(l, b, w) ==
  \A q \in Packets(l) : q.seqnum = Num(q.idx) /\ b <= q.idx /\ q.idx < b + w

LEMMA PacketFacts == \A p \in Packet : p.seqnum \in SeqNums /\ p.idx \in Nat
BY DEF Packet

LEMMA ElementsArePackets ==
  ASSUME NEW P, NEW l \in Seq(P), NEW i \in DOMAIN l
  PROVE  l[i] \in Packets(l) /\ l[i] \in P
BY DEF Packets

LEMMA PacketsOfSeq == \A l \in Seq(Packet) : Packets(l) \subseteq Packet
BY DEF Packets

(* A list within one turn of the circle is sorted by idx when it is in     *)
(* circular order.                                                         *)
LEMMA OrderByIdx ==
  ASSUME NEW l \in Seq(Packet), NEW b \in Int, Near(l, b, SEQNUM_MAX + 1)
  PROVE  InIdxOrder(l) <=> InWindowOrder(l, Num(b))
<1>1. \A i \in DOMAIN l : l[i].idx \in Nat /\ Distance(Num(b), l[i].seqnum) = l[i].idx - b
  <2> SUFFICES ASSUME NEW i \in DOMAIN l
               PROVE  l[i].idx \in Nat /\ Distance(Num(b), l[i].seqnum) = l[i].idx - b
    OBVIOUS
  <2> DEFINE q == l[i]
  <2>1. q \in Packets(l) /\ q \in Packet
    BY ElementsArePackets
  <2>2. q.idx \in Nat /\ q.seqnum = Num(q.idx) /\ b <= q.idx /\ q.idx - b <= SEQNUM_MAX
    <3> HIDE DEF q
    <3> QED
      BY <2>1, PacketFacts, CircleSize DEF Near
  <2>3. Distance(Num(b), Num(q.idx)) = q.idx - b
    <3> HIDE DEF q
    <3>1. q.idx \in Int
      BY <2>2
    <3> QED
      BY <2>2, <3>1, NumFacts
  <2> QED
    BY <2>2, <2>3
<1>2. \A i, j \in DOMAIN l :
        l[i].idx < l[j].idx
          <=> Distance(Num(b), l[i].seqnum) < Distance(Num(b), l[j].seqnum)
  BY <1>1
<1> QED
  BY <1>2 DEF InIdxOrder, InWindowOrder

(* insert, given the number of the packet b before the window: it keeps    *)
(* the list sorted by idx, and adds the packet unless one of its idx is    *)
(* there.                                                                  *)
LEMMA InsertByIdx ==
  ASSUME NEW l \in Seq(Packet), NEW b \in Int, Near(l, b, MAX_RELIABLE_WINDOW_SIZE),
         InIdxOrder(l),
         NEW p \in Packet, p.seqnum = Num(p.idx), b < p.idx,
         p.idx < b + MAX_RELIABLE_WINDOW_SIZE,
         NEW r, r = insert(l, p, Num(b))
  PROVE  /\ r \in Seq(Packet) /\ InIdxOrder(r)
         /\ (\E q \in Packets(l) : q.idx = p.idx) => r = l
         /\ (\A q \in Packets(l) : q.idx # p.idx) => Packets(r) = Packets(l) \union {p}
<1>1. Near(l, b, SEQNUM_MAX + 1)
  <2> SUFFICES ASSUME NEW q \in Packets(l)
               PROVE  q.seqnum = Num(q.idx) /\ b <= q.idx /\ q.idx < b + (SEQNUM_MAX + 1)
    BY DEF Near
  <2>1. q.seqnum = Num(q.idx) /\ b <= q.idx /\ q.idx < b + MAX_RELIABLE_WINDOW_SIZE
    BY DEF Near
  <2>2. q.idx \in Nat
    BY PacketFacts, PacketsOfSeq
  <2> QED
    BY <2>1, <2>2, CircleSize
<1>2. InWindowOrder(l, Num(b)) /\ Num(b) \in SeqNums
  BY <1>1, OrderByIdx, NumFacts
<1>3. /\ r \in Seq(Packet) /\ InWindowOrder(r, Num(b))
      /\ Refused(l, p, Num(b)) => r = l
      /\ ~ Refused(l, p, Num(b)) => Packets(r) = Packets(l) \union {p}
  BY <1>2, PacketFacts, InsertFacts
<1>4. Refused(l, p, Num(b)) <=> \E q \in Packets(l) : q.idx = p.idx
  <2>1. p.idx \in Nat
    BY PacketFacts
  <2>2. Distance(Num(b), p.seqnum) = p.idx - b
    <3>1. p.idx \in Int /\ b <= p.idx /\ p.idx - b <= SEQNUM_MAX
      BY <2>1, CircleSize
    <3> QED
      BY <3>1, NumFacts
  <2>3. \A q \in Packets(l) : q.seqnum = p.seqnum <=> q.idx = p.idx
    <3> SUFFICES ASSUME NEW q \in Packets(l)
                 PROVE  q.seqnum = p.seqnum <=> q.idx = p.idx
      OBVIOUS
    <3>1. q.idx \in Nat
      BY PacketFacts DEF Packets
    <3>2. q.seqnum = Num(q.idx) /\ b <= q.idx /\ q.idx < b + MAX_RELIABLE_WINDOW_SIZE
      BY DEF Near
    <3>3. q.idx \in Int /\ p.idx \in Int
      BY <2>1, <3>1
    <3>4. q.idx - p.idx <= SEQNUM_MAX /\ p.idx - q.idx <= SEQNUM_MAX
      BY <3>2, <3>3, CircleSize
    <3> QED
      BY <3>2, <3>3, <3>4, NumFacts
  <2>4. (\E i \in DOMAIN l : l[i].seqnum = p.seqnum)
          <=> \E q \in Packets(l) : q.seqnum = p.seqnum
    BY DEF Packets
  <2> QED
    BY <2>1, <2>2, <2>3, <2>4, CircleSize DEF Refused
<1>5. Near(r, b, SEQNUM_MAX + 1)
  <2>1. Packets(r) \subseteq Packets(l) \union {p}
    BY <1>3
  <2>2. b <= p.idx /\ p.idx < b + (SEQNUM_MAX + 1)
    BY PacketFacts, CircleSize
  <2> QED
    BY <1>1, <2>1, <2>2 DEF Near
<1>6. InIdxOrder(r)
  BY <1>3, <1>5, OrderByIdx
<1> QED
  BY <1>3, <1>4, <1>6

(* popSeqnum, given the number of idx i, takes out the packet of that idx. *)
LEMMA PopByIdx ==
  ASSUME NEW l \in Seq(Packet), NEW b \in Int, Near(l, b, SEQNUM_MAX + 1),
         InIdxOrder(l), NEW i \in Int,
         \A q \in Packets(l) : q.idx - i <= SEQNUM_MAX /\ i - q.idx <= SEQNUM_MAX,
         NEW r, r = popSeqnum(l, Num(i))
  PROVE  /\ r \in Seq(Packet) /\ InIdxOrder(r)
         /\ Packets(r) = {q \in Packets(l) : q.idx # i}
<1>1. InWindowOrder(l, Num(b)) /\ Num(b) \in SeqNums /\ Num(i) \in SeqNums
  BY OrderByIdx, NumFacts
<1>2. /\ r \in Seq(Packet) /\ InWindowOrder(r, Num(b))
      /\ Packets(r) = {q \in Packets(l) : q.seqnum # Num(i)}
  BY <1>1, PacketFacts, PopSeqnumFacts
<1>3. \A q \in Packets(l) : q.seqnum = Num(i) <=> q.idx = i
  <2> SUFFICES ASSUME NEW q \in Packets(l) PROVE q.seqnum = Num(i) <=> q.idx = i
    OBVIOUS
  <2>1. q.idx \in Nat /\ q.seqnum = Num(q.idx)
    BY PacketFacts DEF Packets, Near
  <2>2. q.idx \in Int /\ q.idx - i <= SEQNUM_MAX /\ i - q.idx <= SEQNUM_MAX
    BY <2>1
  <2> QED
    BY <2>1, <2>2, NumFacts
<1>4. Near(r, b, SEQNUM_MAX + 1)
  BY <1>2 DEF Near
<1>5. InIdxOrder(r)
  BY <1>2, <1>4, OrderByIdx
<1> QED
  BY <1>2, <1>3, <1>5

-----------------------------------------------------------------------------
(* Types.                                                                  *)

LEMMA ConstantFacts ==
  /\ SEQNUM_INITIAL \in SeqNums /\ MIN_RELIABLE_WINDOW_SIZE \in Nat \ {0}
  /\ MaxWindowSize \in Nat /\ MIN_RELIABLE_WINDOW_SIZE <= MaxWindowSize
  /\ WindowSteps \subseteq Int /\ max_packets_requeued \in Nat
  /\ MaxCommandPackets \in Nat \ {0}
  /\ MaxQuota \in Nat /\ MaxPayloads \in Nat /\ MaxPings \in Nat
BY ReliableChannelAssumption, CircleSize

LEMMA SpanFacts ==
  /\ QueueLimit \in Nat /\ MaxUnsent \in Nat /\ MaxSpan \in Nat
  /\ max_packets_requeued <= QueueLimit /\ MaxWindowSize \div 2 <= QueueLimit
  /\ MaxWindowSize + 2 <= MaxSpan /\ MaxUnsent <= MaxSpan
  /\ QueueLimit + MaxCommandPackets + 2 * MaxPings = MaxUnsent
<1>1. MaxWindowSize \div 2 \in Nat
  BY ConstantFacts
<1>2. /\ QueueLimit \in Nat
      /\ max_packets_requeued <= QueueLimit /\ MaxWindowSize \div 2 <= QueueLimit
  BY <1>1, ConstantFacts DEF QueueLimit, Larger
<1>3. MaxUnsent \in Nat /\ QueueLimit + MaxCommandPackets + 2 * MaxPings = MaxUnsent
  BY <1>2, ConstantFacts DEF MaxUnsent
<1> QED
  BY <1>2, <1>3, ConstantFacts DEF MaxSpan, Larger

(* Neither insert nor popSeqnum brings anything but packets.               *)
LEMMA InsertType ==
  ASSUME NEW l \in Seq(Packet), NEW p \in Packet, NEW n \in SeqNums
  PROVE  insert(l, p, n) \in Seq(Packet)
<1> DEFINE k == ScanStop(l, p.seqnum, n)
<1>1. k \in 1 .. Len(l) + 1
  BY PacketFacts, ScanStopFacts
<1>2. InsertAt(l, k, p) \in Seq(Packet)
  BY <1>1, InsertAtElements
<1> QED
  BY <1>2 DEF insert

LEMMA PopType ==
  ASSUME NEW l \in Seq(Packet), NEW s
  PROVE  popSeqnum(l, s) \in Seq(Packet)
<1> DEFINE found == {i \in DOMAIN l : l[i].seqnum = s}
<1>1. CASE found # {}
  <2>1. found \subseteq 1 .. Len(l) /\ Len(l) \in Nat
    OBVIOUS
  <2>2. Min(found) \in 1 .. Len(l)
    BY <1>1, <2>1, MinOfBounded
  <2>3. RemoveAt(l, Min(found)) \in Seq(Packet)
    BY <2>2, RemoveAtElements
  <2> QED
    BY <2>3 DEF popSeqnum
<1>2. CASE found = {}
  BY <1>2 DEF popSeqnum
<1> QED
  BY <1>1, <1>2

LEMMA PacketsOfList ==
  ASSUME NEW P, NEW l \in Seq(P)
  PROVE  /\ Packets(l) \subseteq P /\ (l = <<>> => Packets(l) = {})
         /\ (l # <<>> => /\ Head(l) \in Packets(l) /\ Tail(l) \in Seq(P)
                         /\ Len(Tail(l)) = Len(l) - 1
                         /\ Packets(l) = Packets(Tail(l)) \union {Head(l)})
         /\ \A p \in P : /\ Append(l, p) \in Seq(P)
                         /\ Packets(Append(l, p)) = Packets(l) \union {p}
<1>1. Packets(l) \subseteq P /\ (l = <<>> => Packets(l) = {})
  BY DEF Packets
<1>2. ASSUME l # <<>>
      PROVE  /\ Head(l) \in Packets(l) /\ Tail(l) \in Seq(P)
             /\ Len(Tail(l)) = Len(l) - 1
             /\ Packets(l) = Packets(Tail(l)) \union {Head(l)}
  <2>1. /\ Tail(l) \in Seq(P) /\ Len(Tail(l)) = Len(l) - 1 /\ Head(l) = l[1]
        /\ Len(l) >= 1 /\ Len(l) \in Nat
        /\ DOMAIN l = 1 .. Len(l)
        /\ \A i \in 1 .. Len(l) - 1 : Tail(l)[i] = l[i + 1]
    BY <1>2
  <2>2. \A i \in 1 .. Len(l) : i # 1 => l[i] = Tail(l)[i - 1] /\ i - 1 \in 1 .. Len(l) - 1
    BY <2>1
  <2>3. DOMAIN Tail(l) = 1 .. Len(l) - 1
    BY <2>1
  <2>4. Packets(l) \subseteq Packets(Tail(l)) \union {Head(l)}
    <3> SUFFICES ASSUME NEW i \in 1 .. Len(l)
                 PROVE  l[i] \in Packets(Tail(l)) \union {Head(l)}
      BY <2>1 DEF Packets
    <3>1. CASE i = 1
      BY <2>1, <3>1
    <3>2. CASE i # 1
      BY <2>2, <2>3, <3>2 DEF Packets
    <3> QED
      BY <3>1, <3>2
  <2>5. Packets(Tail(l)) \subseteq Packets(l)
    BY <2>1, <2>3 DEF Packets
  <2> QED
    BY <2>1, <2>4, <2>5 DEF Packets
<1>3. ASSUME NEW p \in P
      PROVE  /\ Append(l, p) \in Seq(P)
             /\ Packets(Append(l, p)) = Packets(l) \union {p}
  <2>1. /\ Append(l, p) \in Seq(P) /\ DOMAIN Append(l, p) = 1 .. Len(l) + 1
        /\ DOMAIN l = 1 .. Len(l) /\ Append(l, p)[Len(l) + 1] = p /\ Len(l) \in Nat
        /\ \A i \in 1 .. Len(l) : Append(l, p)[i] = l[i]
    OBVIOUS
  <2> QED
    BY <2>1 DEF Packets
<1> QED
  BY <1>1, <1>2, <1>3

(* What every packet read or written below is.                             *)
LEMMA TypesOfState ==
  ASSUME TypeOK
  PROVE  /\ wire \subseteq Packet
         /\ Packets(outgoing_reliables_sent) \subseteq Packet
         /\ Packets(queued_reliables) \subseteq Packet
         /\ Packets(incoming_reliables) \subseteq Packet
         /\ Len(queued_reliables) \in Nat /\ Len(building.packets) \in Nat
         /\ given \in Nat /\ taken \in Nat /\ pings \in 0 .. MaxPings
         /\ Cut \in Int
<1>1. /\ building.packets \in Seq(Packet) /\ queued_reliables \in Seq(Packet)
      /\ outgoing_reliables_sent \in Seq(Packet)
      /\ incoming_reliables \in Seq(Packet)
      /\ wire \subseteq Packet
      /\ given \in Nat /\ taken \in Nat /\ pings \in 0 .. MaxPings
  BY DEF TypeOK
<1>2. Len(queued_reliables) \in Nat /\ Len(building.packets) \in Nat
  BY <1>1
<1> QED
  BY <1>1, <1>2, PacketsOfList DEF Cut

LEMMA PingIsPacket ==
  ASSUME TypeOK
  PROVE  NewPacket(PING) \in Packet
BY ConstantFacts DEF TypeOK, NewPacket, Packet, PING, Payloads

LEMMA ResendBaseType == ASSUME TypeOK PROVE ResendBase(next_outgoing_seqnum) \in SeqNums
<1>1. next_outgoing_seqnum - MAX_RELIABLE_WINDOW_SIZE \in Int
  BY CircleSize DEF TypeOK, SeqNums
<1> QED
  BY <1>1, U16IsRemainder DEF ResendBase

LEMMA RunTimeoutsSender ==
  ASSUME SenderInv, NEW timed_outs \in SUBSET Packets(outgoing_reliables_sent),
         RunTimeouts(timed_outs)
  PROVE  SenderInv'
<1>1. window_size' \in MIN_RELIABLE_WINDOW_SIZE .. MaxWindowSize
  BY ConstantFacts DEF RunTimeouts, UpdateTimers, SenderInv, TypeOK
<1>2. wire' \subseteq Packet
  BY TypesOfState DEF RunTimeouts, SenderInv
<1>3. TypeOK'
  BY <1>1, <1>2 DEF RunTimeouts, SenderInv, TypeOK, recvVars
<1> QED
  BY <1>3 DEF RunTimeouts, SenderInv, NoFatalError, BuildingIsNew, CommandsFollow, Cut

LEMMA RawSendAsPacketSender ==
  ASSUME SenderInv, RawSendAsPacket
  PROVE  SenderInv'
<1> DEFINE p == NewPacket(PING)
<1>1. p \in Packet
  BY PingIsPacket DEF SenderInv
<1>2. /\ next_outgoing_seqnum' = U16(next_outgoing_seqnum + 1) /\ given' = given + 1
      /\ given \in Nat /\ given' \in Nat
  BY DEF RawSendAsPacket, TakeSeqnum, SenderInv, TypeOK
<1>3. next_outgoing_seqnum' = Num(given') /\ next_outgoing_seqnum' \in SeqNums
  <2>1. given \in Int /\ given + 1 \in Int
    BY <1>2
  <2>2. U16(Num(given) + 1) = Num(given + 1) /\ Num(given + 1) \in SeqNums
    BY <2>1, NumFacts
  <2> QED
    BY <1>2, <2>2 DEF SenderInv
<1>4. /\ outgoing_reliables_sent' \in Seq(Packet) /\ queued_reliables' \in Seq(Packet)
      /\ wire' \subseteq Packet
  <2>1. ResendBase(next_outgoing_seqnum') \in SeqNums
    <3>1. next_outgoing_seqnum' - MAX_RELIABLE_WINDOW_SIZE \in Int
      BY <1>3, CircleSize DEF SeqNums
    <3> QED
      BY <3>1, U16IsRemainder DEF ResendBase
  <2>2. insert(outgoing_reliables_sent, p, ResendBase(next_outgoing_seqnum')) \in Seq(Packet)
    BY <1>1, <2>1, InsertType DEF SenderInv, TypeOK
  <2>3. Append(queued_reliables, p) \in Seq(Packet)
    BY <1>1 DEF SenderInv, TypeOK
  <2> QED
    BY <1>1, <2>2, <2>3 DEF RawSendAsPacket, SendAsPacketReliable, SenderInv, TypeOK
<1>5. pings' \in 0 .. MaxPings
  BY ConstantFacts DEF RawSendAsPacket, SenderInv, TypeOK
<1>6. TypeOK'
  BY <1>2, <1>3, <1>4, <1>5 DEF RawSendAsPacket, SenderInv, TypeOK, recvVars
<1>7. building = NotBuilding /\ building' = NotBuilding /\ Len(<<>>) = 0
  BY DEF RawSendAsPacket, SenderInv, BuildingIsNew
<1> QED
  BY <1>2, <1>3, <1>6, <1>7 DEF RawSendAsPacket, SenderInv, NoFatalError, BuildingIsNew,
     CommandsFollow, NotBuilding

LEMMA RunCommandQueuesSender ==
  ASSUME SenderInv, RunCommandQueues
  PROVE  SenderInv'
<1>1. CASE queued_commands # <<>> /\ Len(queued_reliables) < max_packets_requeued
  <2> DEFINE c == Head(queued_commands)
  <2>1. /\ building' = [command |-> c, packets |-> <<>>, requeue |-> TRUE]
        /\ pc' = "build"
    BY <1>1 DEF RunCommandQueues
  <2>2. /\ c \in Command /\ c.first \in Nat \ {0} /\ c.size \in Nat \ {0}
        /\ c = queued_commands[1] /\ 1 \in DOMAIN queued_commands
    <3>1. queued_commands \in Seq(Command) /\ queued_commands # <<>>
      BY <1>1 DEF SenderInv, TypeOK
    <3>2. c \in Command /\ c = queued_commands[1] /\ 1 \in DOMAIN queued_commands
      BY <3>1
    <3> QED
      BY <3>2 DEF Command
  <2>3. c.size <= MaxCommandPackets
    BY <2>2 DEF SenderInv, CommandsFollow
  <2>4. /\ building'.command = c /\ building'.packets = <<>> /\ building'.requeue = TRUE
        /\ Len(<<>>) = 0 /\ <<>> \in Seq(Packet)
        /\ building' \in [command : Command \union {NoCommand},
                          packets : Seq(Packet), requeue : BOOLEAN]
    BY <2>1, <2>2
  <2>5. TypeOK'
    BY <2>1, <2>4 DEF RunCommandQueues, SenderInv, TypeOK, recvVars
  <2>6. Len(queued_reliables) < QueueLimit
    BY <1>1, SpanFacts, ConstantFacts DEF SenderInv, TypeOK
  <2>7. BuildingIsNew'
    BY <1>1, <2>1, <2>2, <2>3, <2>4, <2>6 DEF RunCommandQueues, BuildingIsNew
  <2> QED
    BY <2>1, <2>4, <2>5, <2>7 DEF RunCommandQueues, SenderInv, TypeOK, NoFatalError,
       CommandsFollow
<1>2. CASE ~ (queued_commands # <<>> /\ Len(queued_reliables) < max_packets_requeued)
  <2>1. pc' = "commands" /\ building' = building /\ building = NotBuilding
    BY <1>2 DEF RunCommandQueues, SenderInv, BuildingIsNew
  <2>2. TypeOK'
    BY <2>1 DEF RunCommandQueues, SenderInv, TypeOK, recvVars
  <2> QED
    BY <2>1, <2>2 DEF RunCommandQueues, SenderInv, NoFatalError, BuildingIsNew,
       CommandsFollow
<1> QED
  BY <1>1, <1>2

LEMMA PutReliableSendCommandSender ==
  ASSUME SenderInv, NEW size \in 1 .. MaxCommandPackets, PutReliableSendCommand(size)
  PROVE  SenderInv'
<1> DEFINE c == [first |-> submitted + 1, size |-> size]
<1>1. /\ submitted \in Nat /\ submitted' = submitted + size /\ size \in Nat \ {0}
      /\ submitted' \in 0 .. MaxPayloads /\ size <= MaxCommandPackets
  BY ConstantFacts DEF PutReliableSendCommand, SenderInv, TypeOK
<1>2. c \in Command /\ c.first = submitted + 1 /\ c.size = size
  BY <1>1 DEF Command
<1>3. building = NotBuilding
  BY DEF PutReliableSendCommand, SenderInv, BuildingIsNew
<1>4. CASE MayProcessNow
  <2>1. /\ building' = [command |-> c, packets |-> <<>>, requeue |-> FALSE]
        /\ pc' = "build" /\ queued_commands' = queued_commands /\ queued_commands = <<>>
    BY <1>4 DEF PutReliableSendCommand, MayProcessNow
  <2>2. /\ building'.command = c /\ building'.packets = <<>> /\ building'.requeue = FALSE
        /\ Len(<<>>) = 0 /\ <<>> \in Seq(Packet)
        /\ building' \in [command : Command \union {NoCommand},
                          packets : Seq(Packet), requeue : BOOLEAN]
    BY <1>2, <2>1
  <2>3. TypeOK'
    BY <1>1, <2>1, <2>2 DEF PutReliableSendCommand, SenderInv, TypeOK, recvVars
  <2>4. Len(queued_reliables) < QueueLimit
    <3>1. window_size \in Nat /\ window_size <= MaxWindowSize
      BY ConstantFacts DEF SenderInv, TypeOK
    <3>2. \A m, n \in Nat : m <= n => m \div 2 <= n \div 2 /\ m \div 2 \in Nat
      BY Z3
    <3>3. window_size \div 2 <= MaxWindowSize \div 2 /\ window_size \div 2 \in Nat
          /\ MaxWindowSize \div 2 \in Nat
      BY <3>1, <3>2, ConstantFacts
    <3>4. Len(queued_reliables) < window_size \div 2 /\ Len(queued_reliables) \in Nat
      BY <1>4, TypesOfState DEF MayProcessNow, SenderInv
    <3> QED
      BY <3>3, <3>4, SpanFacts
  <2>5. BuildingIsNew'
    BY <1>1, <1>2, <2>1, <2>2, <2>4 DEF PutReliableSendCommand, BuildingIsNew
  <2>6. CommandsFollow'
    BY <2>1 DEF CommandsFollow
  <2> QED
    BY <2>1, <2>2, <2>3, <2>5, <2>6 DEF PutReliableSendCommand, SenderInv, TypeOK,
       NoFatalError
<1>5. CASE ~ MayProcessNow
  <2> DEFINE q == queued_commands
  <2>1. /\ q' = Append(q, c) /\ pc' = pc /\ building' = building /\ pc = "commands"
    BY <1>5 DEF PutReliableSendCommand
  <2>2. /\ q \in Seq(Command) /\ q' \in Seq(Command) /\ Len(q') = Len(q) + 1
        /\ Len(q) \in Nat /\ q'[Len(q) + 1] = c /\ \A i \in 1 .. Len(q) : q'[i] = q[i]
        /\ DOMAIN q = 1 .. Len(q) /\ DOMAIN q' = 1 .. Len(q) + 1
    BY <1>2, <2>1 DEF SenderInv, TypeOK
  <2>3. TypeOK'
    BY <1>1, <2>1, <2>2 DEF PutReliableSendCommand, SenderInv, TypeOK, recvVars
  <2>4. CommandsFollow'
    <3> SUFFICES ASSUME NEW i \in 1 .. Len(q) + 1
                 PROVE  LET end == q'[i].first + q'[i].size
                        IN /\ q'[i].size <= MaxCommandPackets
                           /\ end <= submitted' + 1
                           /\ end = IF i = Len(q') THEN submitted' + 1
                                    ELSE q'[i + 1].first
      BY <2>2 DEF CommandsFollow
    <3>1. CASE i = Len(q) + 1
      BY <1>1, <1>2, <2>2, <3>1
    <3>2. CASE i # Len(q) + 1
      <4>1. /\ q'[i] = q[i] /\ q[i].first \in Nat /\ q[i].size \in Nat
            /\ i \in 1 .. Len(q) /\ i # Len(q')
        <5>1. i \in 1 .. Len(q) /\ q'[i] = q[i] /\ q[i] \in Command
          BY <2>2, <3>2
        <5> QED
          BY <2>2, <5>1 DEF Command
      <4>2. LET end == q[i].first + q[i].size
            IN /\ q[i].size <= MaxCommandPackets
               /\ end <= submitted + 1
               /\ end = IF i = Len(q) THEN submitted + 1 ELSE q[i + 1].first
        BY <2>2, <4>1 DEF SenderInv, CommandsFollow
      <4>3. i # Len(q) => i + 1 \in 1 .. Len(q)
        BY <2>2, <4>1
      <4>4. CASE i = Len(q)
        <5>1. q'[i + 1] = c
          BY <2>2, <4>4
        <5>2. q[i].first + q[i].size = submitted + 1
          BY <4>2, <4>4
        <5> HIDE DEF c, q
        <5> QED
          BY <1>1, <1>2, <4>1, <4>2, <5>1, <5>2
      <4>5. CASE i # Len(q)
        <5>1. q'[i + 1] = q[i + 1]
          BY <2>2, <4>3, <4>5
        <5> HIDE DEF c, q
        <5> QED
          BY <1>1, <4>1, <4>2, <4>5, <5>1
      <4> QED
        BY <4>4, <4>5
    <3> QED
      BY <3>1, <3>2
  <2> QED
    BY <1>3, <2>1, <2>3, <2>4 DEF PutReliableSendCommand, SenderInv, NoFatalError,
       BuildingIsNew
<1> QED
  BY <1>4, <1>5

LEMMA TakeNextSeqnumSender ==
  ASSUME SenderInv, TakeNextSeqnum
  PROVE  SenderInv'
<1> DEFINE b == building
           got == Len(b.packets)
           p == NewPacket(b.command.first + got)
<1>1. /\ pc = "build" /\ pc' = "build" /\ got < b.command.size
      /\ b' = [b EXCEPT !.packets = Append(@, p)]
      /\ next_outgoing_seqnum' = U16(next_outgoing_seqnum + 1) /\ given' = given + 1
  BY DEF TakeNextSeqnum, TakeSeqnum
<1>2. /\ b \in [command : Command \union {NoCommand}, packets : Seq(Packet),
                requeue : BOOLEAN]
      /\ given \in Nat /\ submitted \in 0 .. MaxPayloads
      /\ next_outgoing_seqnum \in SeqNums /\ queued_commands \in Seq(Command)
  BY DEF SenderInv, TypeOK
<1>3. /\ b.command \in Command /\ b.command.first \in Nat \ {0}
      /\ b.command.size \in Nat \ {0} /\ got \in Nat /\ b.packets \in Seq(Packet)
  BY <1>1, <1>2 DEF SenderInv, BuildingIsNew, Command
<1>4. b.command.first + b.command.size <= submitted + 1
  <2>1. CASE b.requeue
    <3>1. queued_commands # <<>> /\ b.command = Head(queued_commands)
      BY <1>1, <2>1 DEF SenderInv, BuildingIsNew
    <3>2. b.command = queued_commands[1] /\ 1 \in DOMAIN queued_commands
      BY <1>2, <3>1
    <3> QED
      BY <3>2 DEF SenderInv, CommandsFollow
  <2>2. CASE ~ b.requeue
    BY <1>1, <1>2, <1>3, <2>2 DEF SenderInv, BuildingIsNew
  <2> QED
    BY <2>1, <2>2
<1>5. p \in Packet
  <2>1. b.command.first + got \in Payloads
    <3> DEFINE f == b.command.first
               z == b.command.size
    <3>1. /\ f \in Nat \ {0} /\ z \in Nat \ {0} /\ got \in Nat /\ got < z
          /\ f + z <= submitted + 1 /\ submitted \in 0 .. MaxPayloads
      BY <1>1, <1>2, <1>3, <1>4
    <3> HIDE DEF f, z, got
    <3>2. f + got \in 0 .. MaxPayloads
      BY <3>1, ConstantFacts
    <3> QED
      BY <3>2 DEF f, Payloads
  <2> QED
    BY <1>2, <2>1 DEF NewPacket, Packet
<1>6. /\ b'.command = b.command /\ b'.requeue = b.requeue
      /\ b'.packets = Append(b.packets, p)
      /\ b' \in [command : Command \union {NoCommand}, packets : Seq(Packet),
                 requeue : BOOLEAN]
  <2>1. Append(b.packets, p) \in Seq(Packet)
    BY <1>3, <1>5
  <2> HIDE DEF p
  <2> QED
    BY <1>1, <1>2, <2>1
<1>7. /\ next_outgoing_seqnum' = Num(given') /\ next_outgoing_seqnum' \in SeqNums
      /\ given' \in Nat
  <2>1. given \in Int /\ given + 1 \in Int
    BY <1>2
  <2>2. U16(Num(given) + 1) = Num(given + 1) /\ Num(given + 1) \in SeqNums
    BY <2>1, NumFacts
  <2> QED
    BY <1>1, <1>2, <2>2 DEF SenderInv
<1>8. TypeOK'
  BY <1>1, <1>6, <1>7 DEF TakeNextSeqnum, SenderInv, TypeOK, recvVars
<1>9. /\ Len(b'.packets) = got + 1 /\ got <= given /\ Cut' = Cut /\ Cut = given - got
      /\ DOMAIN b'.packets = 1 .. got + 1 /\ DOMAIN b.packets = 1 .. got
      /\ b'.packets[got + 1] = p /\ \A k \in 1 .. got : b'.packets[k] = b.packets[k]
  <2>1. got <= given
    BY DEF SenderInv
  <2>2. /\ Len(b'.packets) = got + 1
        /\ DOMAIN b'.packets = 1 .. got + 1 /\ DOMAIN b.packets = 1 .. got
        /\ b'.packets[got + 1] = p /\ \A k \in 1 .. got : b'.packets[k] = b.packets[k]
    <3> HIDE DEF p
    <3> QED
      BY <1>3, <1>5, <1>6
  <2> HIDE DEF p
  <2> QED
    BY <1>1, <1>2, <1>3, <2>1, <2>2 DEF Cut
<1>10. \A k \in DOMAIN b'.packets :
         b'.packets[k] = [idx |-> Cut' + k - 1, seqnum |-> Num(Cut' + k - 1),
                          payload |-> b'.command.first + k - 1]
  <2> SUFFICES ASSUME NEW k \in 1 .. got + 1
               PROVE  b'.packets[k] = [idx |-> Cut + k - 1, seqnum |-> Num(Cut + k - 1),
                                       payload |-> b.command.first + k - 1]
    BY <1>6, <1>9
  <2>1. CASE k \in 1 .. got
    BY <1>1, <1>9, <2>1 DEF SenderInv, BuildingIsNew
  <2>2. CASE k = got + 1
    <3>1. Cut + k - 1 = given /\ b.command.first + k - 1 = b.command.first + got
      BY <1>2, <1>3, <1>9, <2>2
    <3> QED
      BY <1>9, <2>2, <3>1 DEF NewPacket, SenderInv
  <2> QED
    BY <1>3, <2>1, <2>2
<1>11. BuildingIsNew'
  <2> HIDE DEF p
  <2> QED
    BY <1>1, <1>3, <1>6, <1>9, <1>10 DEF TakeNextSeqnum, SenderInv, BuildingIsNew
<1> QED
  BY <1>1, <1>2, <1>3, <1>7, <1>8, <1>9, <1>11 DEF TakeNextSeqnum, SenderInv, NoFatalError,
     CommandsFollow

LEMMA QueuePacketsSender ==
  ASSUME SenderInv, QueuePackets
  PROVE  SenderInv'
<1> DEFINE q == queued_commands
<1>1. /\ pc' = "commands" /\ building' = NotBuilding /\ NotBuilding.packets = <<>>
      /\ NotBuilding \in [command : Command \union {NoCommand}, packets : Seq(Packet),
                          requeue : BOOLEAN]
      /\ q' = IF building.requeue THEN Tail(q) ELSE q
      /\ Len(<<>>) = 0
  BY DEF QueuePackets, NotBuilding
<1>2. /\ q \in Seq(Command) /\ given \in Nat /\ submitted \in 0 .. MaxPayloads
  BY DEF SenderInv, TypeOK
<1>3. queued_reliables' \in Seq(Packet)
  BY DEF QueuePackets, SenderInv, TypeOK
<1>4. CASE building.requeue
  <2>1. q # <<>> /\ q' = Tail(q)
    BY <1>1, <1>4 DEF QueuePackets, SenderInv, BuildingIsNew
  <2>2. /\ q' \in Seq(Command) /\ Len(q') = Len(q) - 1 /\ Len(q) \in Nat \ {0}
        /\ DOMAIN q' = 1 .. Len(q) - 1 /\ \A i \in 1 .. Len(q) - 1 : q'[i] = q[i + 1]
    BY <1>2, <2>1
  <2>3. \A i \in 1 .. Len(q) - 1 : /\ i + 1 \in DOMAIN q
                                   /\ i + 1 = Len(q) <=> i = Len(q')
                                   /\ i # Len(q') => q'[i + 1] = q[(i + 1) + 1]
    BY <1>2, <2>2
  <2>4. CommandsFollow'
    <3> SUFFICES ASSUME NEW i \in 1 .. Len(q) - 1
                 PROVE  LET end == q'[i].first + q'[i].size
                        IN /\ q'[i].size <= MaxCommandPackets
                           /\ end <= submitted + 1
                           /\ end = IF i = Len(q') THEN submitted + 1
                                    ELSE q'[i + 1].first
      BY <2>2 DEF CommandsFollow, QueuePackets
    <3>1. LET end == q[i + 1].first + q[i + 1].size
          IN /\ q[i + 1].size <= MaxCommandPackets
             /\ end <= submitted + 1
             /\ end = IF i + 1 = Len(q) THEN submitted + 1 ELSE q[(i + 1) + 1].first
      BY <2>3 DEF SenderInv, CommandsFollow
    <3> HIDE DEF q
    <3> QED
      BY <2>2, <2>3, <3>1
  <2>5. TypeOK'
    BY <1>1, <1>3, <2>2 DEF QueuePackets, SenderInv, TypeOK, recvVars
  <2> QED
    BY <1>1, <1>2, <2>4, <2>5 DEF QueuePackets, SenderInv, NoFatalError, BuildingIsNew
<1>5. CASE ~ building.requeue
  <2>1. q' = q
    BY <1>1, <1>5
  <2>2. TypeOK'
    BY <1>1, <1>3, <2>1 DEF QueuePackets, SenderInv, TypeOK, recvVars
  <2> QED
    BY <1>1, <1>2, <2>1, <2>2 DEF QueuePackets, SenderInv, NoFatalError, BuildingIsNew,
       CommandsFollow
<1> QED
  BY <1>4, <1>5

(* Each number can be put back: it is the one before the next one.         *)
LEMMA PutBackSequenceNumbersSender ==
  ASSUME SenderInv, PutBackSequenceNumbers
  PROVE  SenderInv'
<1> DEFINE b == building
           got == Len(b.packets)
           initial == b.packets[1].seqnum
           next(k) == IF k = got - 1 THEN next_outgoing_seqnum ELSE U16(initial + k + 1)
<1>1. /\ pc = "build" /\ building' = NotBuilding /\ NotBuilding.packets = <<>>
      /\ NotBuilding \in [command : Command \union {NoCommand}, packets : Seq(Packet),
                          requeue : BOOLEAN]
      /\ Len(<<>>) = 0
      /\ IF got = 0 THEN UNCHANGED <<next_outgoing_seqnum, given>>
         ELSE next_outgoing_seqnum' = initial /\ given' = given - got
      /\ queued_commands' = IF b.requeue THEN queued_commands
                            ELSE Append(queued_commands, b.command)
      /\ pc' = IF \A k \in 0 .. got - 1 : CanPutBack(U16(initial + k), next(k))
               THEN "commands" ELSE "fatal"
  BY DEF PutBackSequenceNumbers, NotBuilding
<1>2. /\ got \in Nat /\ got <= given /\ given \in Nat /\ Cut = given - got /\ Cut \in Nat
      /\ submitted \in 0 .. MaxPayloads /\ queued_commands \in Seq(Command)
      /\ b.packets \in Seq(Packet) /\ next_outgoing_seqnum = Num(given)
      /\ b.command \in Command
  <2>1. b.packets \in Seq(Packet)
    BY DEF SenderInv, TypeOK
  <2>2. got \in Nat /\ got <= given
    BY <2>1 DEF SenderInv
  <2> QED
    BY <1>1, <2>1, <2>2 DEF SenderInv, TypeOK, Cut, BuildingIsNew
<1>3. got # 0 => initial = Num(Cut) /\ Num(Cut) \in SeqNums
  <2> SUFFICES ASSUME got # 0 PROVE initial = Num(Cut) /\ Num(Cut) \in SeqNums
    OBVIOUS
  <2>1. 1 \in DOMAIN b.packets
    BY <1>2
  <2>2. b.packets[1].seqnum = Num(Cut + 1 - 1)
    <3>1. \A k \in DOMAIN b.packets :
            b.packets[k] = [idx |-> Cut + k - 1, seqnum |-> Num(Cut + k - 1),
                            payload |-> b.command.first + k - 1]
      BY <1>1 DEF SenderInv, BuildingIsNew
    <3>2. b.packets[1] = [idx |-> Cut + 1 - 1, seqnum |-> Num(Cut + 1 - 1),
                          payload |-> b.command.first + 1 - 1]
      BY <2>1, <3>1
    <3> QED
      BY <3>2
  <2>3. Cut + 1 - 1 = Cut
    BY <1>2
  <2>4. Cut \in Int
    BY <1>2
  <2> QED
    BY <2>2, <2>3, <2>4, NumFacts
<1>4. \A k \in 0 .. got - 1 : CanPutBack(U16(initial + k), next(k))
  <2> SUFFICES ASSUME NEW k \in 0 .. got - 1
               PROVE  U16(U16(initial + k) + 1) = next(k)
    BY DEF CanPutBack
  <2>1. initial = Num(Cut) /\ initial \in Int /\ k \in Int
    BY <1>2, <1>3, CircleSize DEF SeqNums
  <2>2. U16(U16(initial + k) + 1) = U16(initial + k + 1)
    <3> HIDE DEF initial
    <3>1. initial + k \in Int
      BY <2>1
    <3> QED
      BY <3>1, U16OfSum
  <2>3. CASE k = got - 1
    <3>1. /\ SEQNUM_INITIAL + Cut \in Int /\ got \in Int
          /\ SEQNUM_INITIAL + Cut + got = SEQNUM_INITIAL + given
          /\ initial + k + 1 = initial + got
      BY <1>2, <2>1, <2>3, ConstantFacts, CircleSize DEF SeqNums
    <3>2. U16(U16(SEQNUM_INITIAL + Cut) + got) = U16(SEQNUM_INITIAL + Cut + got)
      BY <3>1, U16OfSum
    <3> QED
      BY <1>2, <2>1, <2>2, <2>3, <3>1, <3>2 DEF Num
  <2>4. CASE k # got - 1
    BY <2>2, <2>4
  <2> QED
    BY <2>3, <2>4
<1>5. /\ pc' = "commands" /\ given' = Cut /\ given' \in Nat
      /\ next_outgoing_seqnum' = Num(given') /\ next_outgoing_seqnum' \in SeqNums
  <2>1. pc' = "commands"
    BY <1>1, <1>4
  <2>2. CASE got = 0
    BY <1>1, <1>2, <2>1, <2>2 DEF SenderInv, TypeOK
  <2>3. CASE got # 0
    <3> HIDE DEF initial
    <3> QED
      BY <1>1, <1>2, <1>3, <2>1, <2>3
  <2> QED
    BY <2>2, <2>3
<1>6. queued_commands' \in Seq(Command) /\ CommandsFollow'
  <2>1. CASE b.requeue
    BY <1>1, <1>2, <2>1 DEF PutBackSequenceNumbers, SenderInv, CommandsFollow
  <2>2. CASE ~ b.requeue
    <3>1. queued_commands = <<>> /\ queued_commands' = Append(<<>>, b.command)
      BY <1>1, <2>2 DEF SenderInv, BuildingIsNew
    <3>2. /\ queued_commands' \in Seq(Command) /\ Len(queued_commands') = 1
          /\ queued_commands'[1] = b.command /\ DOMAIN queued_commands' = {1}
      BY <1>2, <3>1
    <3>3. b.command.size <= MaxCommandPackets
          /\ b.command.first + b.command.size = submitted + 1
      BY <1>1, <2>2 DEF SenderInv, BuildingIsNew
    <3> QED
      BY <1>2, <3>2, <3>3 DEF PutBackSequenceNumbers, CommandsFollow
  <2> QED
    BY <2>1, <2>2
<1>7. TypeOK'
  BY <1>1, <1>5, <1>6 DEF PutBackSequenceNumbers, SenderInv, TypeOK, recvVars
<1> QED
  BY <1>1, <1>5, <1>6, <1>7 DEF SenderInv, NoFatalError, BuildingIsNew

LEMMA SendQueuedSender ==
  ASSUME SenderInv, SendQueued
  PROVE  SenderInv'
<1> DEFINE p == Head(queued_reliables)
<1>1. queued_reliables \in Seq(Packet) /\ queued_reliables # <<>>
  BY DEF SendQueued, CanSend, SenderInv, TypeOK
<1>2. p \in Packet /\ Tail(queued_reliables) \in Seq(Packet)
  BY <1>1
<1>3. outgoing_reliables_sent' \in Seq(Packet)
  BY <1>2, InsertType, ResendBaseType DEF SendQueued, SendAsPacketReliable, SenderInv, TypeOK
<1>4. quota' \in 0 .. MaxQuota
  BY ConstantFacts DEF SendQueued, CanSend, SenderInv, TypeOK
<1>5. TypeOK'
  BY <1>2, <1>3, <1>4 DEF SendQueued, SendAsPacketReliable, SenderInv, TypeOK, recvVars
<1> QED
  BY <1>5 DEF SendQueued, SenderInv, NoFatalError, BuildingIsNew, CommandsFollow

(* What the receiving sides do leaves the sender's bookkeeping alone.      *)
LEMMA ReceiverSender ==
  ASSUME SenderInv, TypeOK',
         UNCHANGED <<pc, next_outgoing_seqnum, queued_commands, building, queued_reliables,
                     submitted, given>>
  PROVE  SenderInv'
BY DEF SenderInv, NoFatalError, BuildingIsNew, CommandsFollow, Cut

LEMMA TakeType ==
  ASSUME TypeOK, NEW p \in Packet, Take(p)
  PROVE  /\ next_incoming_seqnum' \in SeqNums /\ taken' \in Nat
         /\ delivered' \in Seq(1 .. MaxPayloads)
<1>1. U16(next_incoming_seqnum + 1) \in SeqNums
  BY DistanceFacts DEF TypeOK
<1>2. p.payload # PING => p.payload \in 1 .. MaxPayloads
  BY ConstantFacts DEF Packet, Payloads, PING
<1>3. delivered' \in Seq(1 .. MaxPayloads)
  <2>1. delivered \in Seq(1 .. MaxPayloads)
    BY DEF TypeOK
  <2>2. delivered' = IF p.payload = PING THEN delivered ELSE Append(delivered, p.payload)
    BY DEF Take
  <2>3. p.payload # PING => Append(delivered, p.payload) \in Seq(1 .. MaxPayloads)
    <3> DEFINE S == 1 .. MaxPayloads
    <3> HIDE DEF S
    <3>1. p.payload # PING => p.payload \in S /\ delivered \in Seq(S)
      BY <1>2, <2>1 DEF S
    <3>2. p.payload # PING => Append(delivered, p.payload) \in Seq(S)
      BY <3>1
    <3> QED
      BY <3>2 DEF S
  <2> QED
    BY <2>1, <2>2, <2>3
<1> QED
  BY <1>1, <1>3 DEF Take, TypeOK

LEMMA ReceiveType ==
  ASSUME TypeOK, NEW p \in wire, ReceivePacket(p)
  PROVE  TypeOK'
<1>1. p \in Packet /\ Ack(p) \in [idx : Nat, seqnum : SeqNums]
  BY DEF TypeOK, Packet, Ack
<1>2. UNCHANGED <<pc, sendVars, wire>> /\ packet_queued' = TRUE
  BY DEF ReceivePacket, ReceiveExpected, ReceiveEarly, ReceiveFuture, ReceiveOld, ReadDatagram
<1>3. incoming_reliables # <<>> => Tail(incoming_reliables) \in Seq(Packet)
  BY DEF TypeOK
<1>4. acks' \subseteq acks \union {Ack(p)}
  BY DEF ReceivePacket, ReceiveExpected, ReceiveEarly, ReceiveFuture, ReceiveOld
<1>5. /\ next_incoming_seqnum' \in SeqNums /\ taken' \in Nat
      /\ delivered' \in Seq(1 .. MaxPayloads)
  <2>1. Take(p) \/ UNCHANGED <<next_incoming_seqnum, delivered, taken>>
    BY DEF ReceivePacket, ReceiveExpected, ReceiveEarly, ReceiveFuture, ReceiveOld
  <2> QED
    BY <1>1, <2>1, TakeType DEF TypeOK
<1>6. incoming_reliables' \in Seq(Packet)
  <2>1. insert(incoming_reliables, p, next_incoming_seqnum) \in Seq(Packet)
    BY <1>1, InsertType DEF TypeOK
  <2>2. Corrupts(incoming_reliables, p, next_incoming_seqnum) => incoming_reliables # <<>>
    <3>1. ScanStop(incoming_reliables, p.seqnum, next_incoming_seqnum)
            \in 1 .. Len(incoming_reliables) + 1
      BY <1>1, ScanStopFacts, PacketFacts DEF TypeOK
    <3> QED
      BY <3>1 DEF Corrupts, Duplicate, TypeOK
  <2>3. incoming_reliables' \in {incoming_reliables, Tail(incoming_reliables),
                                 insert(incoming_reliables, p, next_incoming_seqnum)}
        /\ (incoming_reliables = <<>> => incoming_reliables' # Tail(incoming_reliables)
                                           \/ incoming_reliables' \in Seq(Packet))
    BY <2>1, <2>2 DEF ReceivePacket, ReceiveExpected, ReceiveEarly, ReceiveFuture, ReceiveOld,
       TypeOK
  <2> QED
    BY <1>3, <2>1, <2>3 DEF TypeOK
<1> QED
  BY <1>1, <1>2, <1>4, <1>5, <1>6 DEF TypeOK, sendVars

LEMMA UnbufferType ==
  ASSUME TypeOK, Unbuffer
  PROVE  TypeOK'
<1>1. UNCHANGED <<pc, sendVars, wire, acks>>
  BY DEF Unbuffer
<1>2. CASE incoming_reliables # <<>> /\ Take(Head(incoming_reliables))
           /\ incoming_reliables' = Tail(incoming_reliables) /\ UNCHANGED packet_queued
  <2>1. Head(incoming_reliables) \in Packet /\ Tail(incoming_reliables) \in Seq(Packet)
    BY <1>2 DEF TypeOK
  <2> QED
    BY <1>1, <1>2, <2>1, TakeType DEF TypeOK, sendVars
<1>3. CASE packet_queued' = FALSE /\ UNCHANGED <<next_incoming_seqnum, incoming_reliables,
                                                 delivered, taken>>
  BY <1>1, <1>3 DEF TypeOK, sendVars
<1> QED
  BY <1>2, <1>3 DEF Unbuffer

LEMMA SenderStep == SenderInv /\ [Next \/ Loss]_vars => SenderInv'
<1> SUFFICES ASSUME SenderInv, [Next \/ Loss]_vars PROVE SenderInv'
  OBVIOUS
<1>1. ASSUME SendThread PROVE SenderInv'
  <2>1. CASE NoPing \/ EndSending
    BY <2>1 DEF NoPing, EndSending, sendVars, recvVars, SenderInv, TypeOK, NoFatalError,
       BuildingIsNew, CommandsFollow, Cut
  <2>2. CASE StartSending
    BY <2>2 DEF StartSending, recvVars, SenderInv, TypeOK, NoFatalError,
       BuildingIsNew, CommandsFollow, Cut
  <2> QED
    BY <1>1, <2>1, <2>2, RunTimeoutsSender, RawSendAsPacketSender, RunCommandQueuesSender,
       PutReliableSendCommandSender, TakeNextSeqnumSender, QueuePacketsSender,
       PutBackSequenceNumbersSender, SendQueuedSender DEF SendThread
<1>2. ASSUME NEW a \in acks, ReceiveAck(a) PROVE SenderInv'
  <2>1. outgoing_reliables_sent' \in Seq(Packet)
    BY <1>2, PopType DEF ReceiveAck, SenderInv, TypeOK
  <2>2. TypeOK'
    BY <1>2, <2>1 DEF ReceiveAck, recvVars, SenderInv, TypeOK
  <2> QED
    BY <1>2, <2>2, ReceiverSender DEF ReceiveAck
<1>3. ASSUME NEW p \in wire, ReceivePacket(p) PROVE SenderInv'
  <2>1. TypeOK'
    BY <1>3, ReceiveType DEF SenderInv
  <2>2. UNCHANGED <<pc, sendVars>>
    BY <1>3 DEF ReceivePacket, ReceiveExpected, ReceiveEarly, ReceiveFuture, ReceiveOld,
       ReadDatagram
  <2> QED
    BY <2>1, <2>2, ReceiverSender DEF sendVars
<1>4. ASSUME Unbuffer PROVE SenderInv'
  BY <1>4, UnbufferType, ReceiverSender DEF Unbuffer, sendVars, SenderInv
<1>5. ASSUME Loss PROVE SenderInv'
  <2>1. TypeOK' /\ UNCHANGED <<pc, sendVars>>
    BY <1>5 DEF Loss, LosePacket, LoseAck, SenderInv, TypeOK, sendVars, recvVars
  <2> QED
    BY <2>1, ReceiverSender DEF sendVars
<1>6. CASE UNCHANGED vars
  <2>1. TypeOK' /\ UNCHANGED <<pc, sendVars>>
    BY <1>6 DEF vars, SenderInv, TypeOK, sendVars, recvVars
  <2> QED
    BY <2>1, ReceiverSender DEF sendVars
<1> QED
  BY <1>1, <1>2, <1>3, <1>4, <1>5, <1>6 DEF Next

LEMMA SenderInit == Init => SenderInv
<1> SUFFICES ASSUME Init PROVE SenderInv
  OBVIOUS
<1>1. SEQNUM_INITIAL = Num(0)
  <2>1. SEQNUM_INITIAL \in 0 .. SEQNUM_MAX /\ SEQNUM_INITIAL + 0 = SEQNUM_INITIAL
    BY ConstantFacts, CircleSize DEF SeqNums
  <2> QED
    BY <2>1, U16Wraps, CircleSize DEF Num
<1>2. Len(<<>>) = 0 /\ <<>> \in Seq(Packet) /\ <<>> \in Seq(Command)
      /\ <<>> \in Seq(1 .. MaxPayloads)
  OBVIOUS
<1>3. building \in [command : Command \union {NoCommand}, packets : Seq(Packet),
                    requeue : BOOLEAN]
  BY <1>2 DEF Init, NotBuilding
<1>4. window_size \in MIN_RELIABLE_WINDOW_SIZE .. MaxWindowSize
      /\ quota \in 0 .. MaxQuota /\ submitted \in 0 .. MaxPayloads /\ pings \in 0 .. MaxPings
  BY ConstantFacts DEF Init
<1>5. TypeOK
  BY <1>2, <1>3, <1>4, ConstantFacts DEF Init, TypeOK
<1> QED
  BY <1>1, <1>2, <1>5 DEF Init, SenderInv, NoFatalError, BuildingIsNew, CommandsFollow,
     NotBuilding

LEMMA SpecIsLossySpec == Spec => LossySpec
BY PTL DEF Spec, LossySpec

(* Every variable stays within its type, whatever the network does.        *)
THEOREM SpecTypeOK == LossySpec => []TypeOK
<1>1. SenderInv => TypeOK
  BY DEF SenderInv
<1> QED
  BY <1>1, SenderInit, SenderStep, PTL DEF LossySpec

(* The FATAL_ERROR_IF of processReliableSendCommand is never reached: the  *)
(* numbers taken for a command that is put back are the last ones given    *)
(* out, across the wrap around (putBackSequenceNumber).                    *)
THEOREM SpecNoFatalError == LossySpec => []NoFatalError
<1>1. SenderInv => NoFatalError
  BY DEF SenderInv
<1> QED
  BY <1>1, SenderInit, SenderStep, PTL DEF LossySpec

-----------------------------------------------------------------------------
(* How far apart packets are.                                              *)

LEMMA CutFacts ==
  ASSUME SenderInv
  PROVE  /\ Cut \in Nat /\ Cut <= given /\ given \in Nat /\ taken \in Nat
         /\ Cut = given - Len(building.packets) /\ Len(building.packets) \in Nat
         /\ Len(building.packets) <= MaxCommandPackets
         /\ pc # "build" => Cut = given /\ Len(building.packets) = 0
<1>1. /\ given \in Nat /\ taken \in Nat /\ Len(building.packets) \in Nat
      /\ Len(building.packets) <= given
  BY TypesOfState DEF SenderInv
<1>2. pc # "build" => Len(building.packets) = 0
  BY DEF SenderInv, BuildingIsNew, NotBuilding
<1>3. pc = "build" => Len(building.packets) <= MaxCommandPackets
  <2> SUFFICES ASSUME pc = "build" PROVE Len(building.packets) <= MaxCommandPackets
    OBVIOUS
  <2>1. /\ building.command \in Command /\ Len(building.packets) <= building.command.size
        /\ building.command.size <= MaxCommandPackets
    BY DEF SenderInv, BuildingIsNew
  <2>2. building.command.size \in Nat
    BY <2>1 DEF Command
  <2> QED
    BY <1>1, <2>1, <2>2, ConstantFacts
<1> QED
  BY <1>1, <1>2, <1>3, ConstantFacts DEF Cut

LEMMA HeldSpan ==
  ASSUME IInv
  PROVE  /\ \A q \in Packets(queued_reliables) : given - q.idx <= MaxSpan
         /\ \A p \in Packets(outgoing_reliables_sent) : given - p.idx <= MaxSpan
         /\ Len(building.packets) <= MaxSpan
<1>1. /\ given \in Nat /\ Len(building.packets) \in Nat /\ Len(queued_reliables) \in Nat
      /\ pings \in Nat /\ pings <= MaxPings
      /\ Len(building.packets) <= MaxCommandPackets
      /\ pc # "build" => Len(building.packets) = 0
  BY CutFacts, TypesOfState, ConstantFacts DEF IInv, SenderInv
<1>2. Len(building.packets) <= MaxSpan
  BY <1>1, SpanFacts, ConstantFacts
<1>3. Len(queued_reliables) + Len(building.packets) + pings <= MaxSpan
  <2>1. Len(queued_reliables) <= QueueLimit + MaxCommandPackets + pings
    BY DEF IInv, SpanIsBounded
  <2>2. pc = "build" => Len(queued_reliables) < QueueLimit
    BY DEF IInv, SenderInv, BuildingIsNew
  <2> QED
    BY <1>1, <2>1, <2>2, SpanFacts, ConstantFacts
<1>4. ASSUME NEW q \in Packets(queued_reliables)
      PROVE  given - q.idx <= MaxSpan
  <2>1. q.idx \in Nat
    BY TypesOfState, PacketFacts DEF IInv, SenderInv
  <2>2. given - q.idx <= Len(queued_reliables) + Len(building.packets) + pings
    BY DEF IInv, SpanIsBounded
  <2> QED
    BY <1>1, <1>3, <2>1, <2>2, SpanFacts
<1> QED
  BY <1>2, <1>4 DEF IInv, SpanIsBounded

(* How far the receiver is behind the sender when it reads a datagram.     *)
LEMMA Outstanding ==
  ASSUME IInv, ~ packet_queued
  PROVE  given <= taken + MaxSpan
<1>1. /\ Cut \in Nat /\ Cut <= given /\ given \in Nat /\ taken \in Nat /\ MaxSpan \in Nat
      /\ given - Cut <= MaxSpan /\ taken <= Cut
  BY CutFacts, HeldSpan, SpanFacts DEF IInv, Numbered
<1>2. CASE taken = Cut
  BY <1>1, <1>2
<1>3. CASE taken < Cut
  <2>1. taken \in taken .. Cut - 1
    BY <1>1, <1>3
  <2>2. PICK p \in Kept : p.idx = taken
    BY <2>1 DEF IInv, NumbersAreKept
  <2>3. \A q \in Packets(incoming_reliables) : q.idx # taken
    BY DEF IInv, WaitsItsTurn
  <2>4. p \in Packets(outgoing_reliables_sent) \/ p \in Packets(queued_reliables)
    BY <2>2, <2>3 DEF Kept
  <2>5. given - p.idx <= MaxSpan
    BY <2>4, HeldSpan
  <2> QED
    BY <1>1, <2>2, <2>5
<1> QED
  BY <1>1, <1>2, <1>3

LEMMA WideFacts ==
  ASSUME CircleIsWide
  PROVE  /\ MaxSpan \in Nat /\ MaxSpan >= 3
         /\ MaxWindowSize + 2 <= MaxSpan
         /\ MAX_RELIABLE_WINDOW_SIZE \in Nat
         /\ SEQNUM_MAX + 1 = 2 * MAX_RELIABLE_WINDOW_SIZE
         /\ MaxSpan < MAX_RELIABLE_WINDOW_SIZE
<1>1. MaxWindowSize \in Nat /\ MaxWindowSize >= 1
  BY ConstantFacts
<1> QED
  BY <1>1, SpanFacts, CircleSize DEF CircleIsWide

(* What the receiver makes of the number of a packet that it reads: it is  *)
(* in the window exactly when it has not been consumed.                    *)
LEMMA NumberRead ==
  ASSUME CircleIsWide, IInv, ~ packet_queued, NEW p \in wire, Fresh(p)
  PROVE  /\ p \in Packet /\ p.idx \in Nat /\ p.seqnum = Num(p.idx) /\ p.idx < Cut
         /\ taken \in Nat /\ p.idx < taken + MaxSpan
         /\ InReceiveWindow(p) <=> taken <= p.idx
         /\ p.seqnum = next_incoming_seqnum <=> p.idx = taken
         /\ next_incoming_seqnum = Num(taken) /\ next_incoming_seqnum \in SeqNums
<1>1. /\ p \in Packet /\ p.idx \in Nat /\ taken \in Nat /\ p.seqnum \in SeqNums
      /\ next_incoming_seqnum \in SeqNums
  BY TypesOfState, PacketFacts DEF IInv, SenderInv, TypeOK
<1>2. /\ p.seqnum = Num(p.idx) /\ p.idx < Cut /\ next_incoming_seqnum = Num(taken)
  BY DEF IInv, Numbered, Settled, Sent
<1>3. p.idx + MAX_RELIABLE_WINDOW_SIZE >= taken /\ p.idx < taken + MaxSpan
  BY <1>1, <1>2, Outstanding, CutFacts, WideFacts DEF Fresh, IInv
<1>4. InReceiveWindow(p) <=> Distance(next_incoming_seqnum, p.seqnum) < MAX_RELIABLE_WINDOW_SIZE
  <2>1. MAX_RELIABLE_WINDOW_SIZE \in 1 .. MAX_RELIABLE_WINDOW_SIZE
    BY CircleSize
  <2> QED
    BY <1>1, <2>1, InWindowIsDistance DEF InReceiveWindow
<1>5. CASE taken <= p.idx
  <2>1. Distance(Num(taken), Num(p.idx)) = p.idx - taken
    <3>1. taken \in Int /\ p.idx \in Int /\ p.idx - taken <= SEQNUM_MAX
      BY <1>1, <1>3, WideFacts, CircleSize
    <3> QED
      BY <1>5, <3>1, NumFacts
  <2>2. p.seqnum = next_incoming_seqnum <=> p.idx = taken
    BY <1>1, <1>2, <1>3, <2>1, DistanceFacts
  <2> QED
    BY <1>1, <1>2, <1>3, <1>4, <1>5, <2>1, <2>2, WideFacts
<1>6. CASE p.idx < taken
  <2>1. Distance(Num(p.idx), Num(taken)) = taken - p.idx
    <3>1. taken \in Int /\ p.idx \in Int /\ taken - p.idx <= SEQNUM_MAX /\ p.idx <= taken
      BY <1>1, <1>3, <1>6, WideFacts, CircleSize
    <3> QED
      BY <3>1, NumFacts
  <2>2. /\ Distance(p.seqnum, next_incoming_seqnum) = taken - p.idx
        /\ taken - p.idx > 0 /\ taken - p.idx <= MAX_RELIABLE_WINDOW_SIZE
    BY <1>1, <1>2, <1>3, <1>6, <2>1, WideFacts
  <2>3. \A s, t \in SeqNums :
          /\ Distance(s, t) > 0 /\ Distance(s, t) <= MAX_RELIABLE_WINDOW_SIZE
               => Distance(t, s) >= MAX_RELIABLE_WINDOW_SIZE
          /\ Distance(s, s) = 0
    BY CircleSize DEF Distance, SeqNums
  <2>4. Distance(next_incoming_seqnum, p.seqnum) >= MAX_RELIABLE_WINDOW_SIZE
        /\ p.seqnum # next_incoming_seqnum
    BY <1>1, <2>2, <2>3
  <2>5. Distance(next_incoming_seqnum, p.seqnum) \in Int
    BY <1>1, DistanceFacts
  <2> QED
    BY <1>1, <1>2, <1>3, <1>4, <1>6, <2>4, <2>5, WideFacts
<1> QED
  BY <1>1, <1>5, <1>6

-----------------------------------------------------------------------------
(* Steps that settle no packet and consume none.                           *)

LEMMA SettledStay ==
  ASSUME IInv, SenderInv', SpanIsBounded', Cut' = Cut, Uncut' = Uncut,
         UNCHANGED <<queued_reliables, outgoing_reliables_sent, recvVars>>,
         wire' \subseteq wire \union Packets(outgoing_reliables_sent), acks' \subseteq acks
  PROVE  IInv'
<1>1. /\ Sent' \subseteq Sent /\ Settled' \subseteq Settled /\ Kept' = Kept
      /\ Packets(queued_reliables)' = Packets(queued_reliables)
      /\ Packets(outgoing_reliables_sent)' = Packets(outgoing_reliables_sent)
      /\ Packets(incoming_reliables)' = Packets(incoming_reliables)
  BY DEF Sent, Settled, Kept, recvVars, Packets
<1>2. Numbered'
  BY <1>1 DEF IInv, Numbered, recvVars
<1>3. OneOfEach' /\ QueuedAreUnsent'
  BY <1>1 DEF IInv, OneOfEach, QueuedAreUnsent, InIdxOrder, recvVars
<1>4. PiecesInOrder' /\ PiecesAreDue' /\ PiecesAreKept'
  BY <1>1 DEF IInv, PiecesInOrder, PiecesAreDue, PiecesAreKept, recvVars
<1>5. NumbersAreKept' /\ AckedIsKept'
  BY <1>1 DEF IInv, NumbersAreKept, AckedIsKept, recvVars
<1>6. BuffersSorted' /\ WaitsItsTurn'
  BY <1>1 DEF IInv, BuffersSorted, InIdxOrder, WaitsItsTurn, recvVars
<1> QED
  BY <1>2, <1>3, <1>4, <1>5, <1>6 DEF IInv

LEMMA SpansStay ==
  ASSUME IInv,
         UNCHANGED <<queued_reliables, outgoing_reliables_sent, building, pings, given>>
  PROVE  SpanIsBounded'
BY DEF IInv, SpanIsBounded, Packets

LEMMA QuietSteps ==
  ASSUME IInv, SenderInv',
         \/ \E timed_outs \in SUBSET Packets(outgoing_reliables_sent) : RunTimeouts(timed_outs)
         \/ NoPing \/ StartSending \/ EndSending \/ Loss \/ UNCHANGED vars
  PROVE  IInv'
<1>1. /\ UNCHANGED <<queued_reliables, outgoing_reliables_sent, building, pings, given,
                     queued_commands, submitted, recvVars>>
      /\ (pc = "build" <=> pc' = "build")
      /\ wire' \subseteq wire \union Packets(outgoing_reliables_sent) /\ acks' \subseteq acks
  BY DEF RunTimeouts, NoPing, StartSending, EndSending, Loss, LosePacket, LoseAck, vars,
     sendVars, recvVars
<1>2. Cut' = Cut /\ Uncut' = Uncut
  BY <1>1 DEF Cut, Uncut
<1> QED
  BY <1>1, <1>2, SpansStay, SettledStay

LEMMA RunCommandQueuesStep ==
  ASSUME IInv, SenderInv', RunCommandQueues
  PROVE  IInv'
<1>1. /\ UNCHANGED <<queued_reliables, outgoing_reliables_sent, pings, given, wire, acks,
                     queued_commands, submitted, recvVars>>
      /\ pc = "run_queue" /\ pc' \in {"build", "commands"}
  BY DEF RunCommandQueues
<1>2. pc' = "build" => /\ queued_commands # <<>>
                       /\ building' = [command |-> Head(queued_commands),
                                       packets |-> <<>>, requeue |-> TRUE]
  BY DEF RunCommandQueues
<1>3. Len(building.packets) = 0 /\ Len(building'.packets) = 0
  <2>1. Len(building.packets) = 0
    BY <1>1, CutFacts DEF IInv
  <2>2. pc' # "build" => building' = building
    BY DEF RunCommandQueues
  <2> QED
    BY <1>1, <1>2, <2>1, <2>2
<1>4. Cut' = Cut /\ Uncut' = Uncut
  BY <1>1, <1>2, <1>3 DEF Cut, Uncut
<1>5. SpanIsBounded'
  BY <1>1, <1>3 DEF IInv, SpanIsBounded, Packets
<1> QED
  BY <1>1, <1>4, <1>5, SettledStay

LEMMA PutReliableSendCommandStep ==
  ASSUME IInv, SenderInv', NEW size \in 1 .. MaxCommandPackets, PutReliableSendCommand(size)
  PROVE  IInv'
<1> DEFINE c == [first |-> submitted + 1, size |-> size]
           q == queued_commands
<1>1. /\ UNCHANGED <<queued_reliables, outgoing_reliables_sent, pings, given, wire, acks,
                     recvVars>>
      /\ pc = "commands"
  BY DEF PutReliableSendCommand
<1>2. /\ q \in Seq(Command) /\ submitted \in Nat
      /\ MayProcessNow => q = <<>>
      /\ IF MayProcessNow
         THEN /\ building' = [command |-> c, packets |-> <<>>, requeue |-> FALSE]
              /\ pc' = "build" /\ q' = q
         ELSE q' = Append(q, c) /\ pc' = pc /\ building' = building
  <2>1. q \in Seq(Command) /\ submitted \in Nat
    BY DEF IInv, SenderInv, TypeOK
  <2>2. MayProcessNow => q = <<>>
    BY DEF MayProcessNow
  <2>3. IF MayProcessNow
        THEN /\ building' = [command |-> c, packets |-> <<>>, requeue |-> FALSE]
             /\ pc' = "build" /\ q' = q
        ELSE q' = Append(q, c) /\ pc' = pc /\ building' = building
    BY DEF PutReliableSendCommand
  <2> QED
    BY <2>1, <2>2, <2>3
<1>3. Len(building.packets) = 0 /\ Len(building'.packets) = 0
  <2>1. Len(building.packets) = 0
    BY <1>1, CutFacts DEF IInv
  <2> QED
    BY <1>2, <2>1
<1>4. Uncut' = Uncut
  <2>1. CASE MayProcessNow
    BY <1>1, <1>2, <2>1 DEF Uncut
  <2>2. CASE ~ MayProcessNow /\ q = <<>>
    <3>1. q' # <<>> /\ Head(q') = c
      BY <1>2, <2>2
    <3> QED
      BY <1>1, <1>2, <2>2, <3>1 DEF Uncut
  <2>3. CASE ~ MayProcessNow /\ q # <<>>
    <3>1. c \in Command
      BY <1>2, ConstantFacts DEF Command
    <3>2. q' # <<>> /\ Head(q') = Head(q)
      <4> HIDE DEF c
      <4> QED
        BY <1>2, <2>3, <3>1
    <3> QED
      BY <1>1, <1>2, <2>3, <3>2 DEF Uncut
  <2> QED
    BY <2>1, <2>2, <2>3
<1>5. Cut' = Cut
  BY <1>1, <1>3 DEF Cut
<1>6. SpanIsBounded'
  BY <1>1, <1>3 DEF IInv, SpanIsBounded, Packets
<1> QED
  BY <1>1, <1>4, <1>5, <1>6, SettledStay

(* With a packet in outgoing_reliables_sent, a number is given out only    *)
(* when the oldest of them is within the sender's window.                  *)
LEMMA RoomForNumber ==
  ASSUME CircleIsWide, IInv, SeqnumAvailable
  PROVE  \A p \in Packets(outgoing_reliables_sent) : given - p.idx + 1 <= MaxSpan
<1> DEFINE l == outgoing_reliables_sent
           h == Head(l)
           d == given - h.idx
<1> SUFFICES ASSUME NEW p \in Packets(l) PROVE given - p.idx + 1 <= MaxSpan
  OBVIOUS
<1>1. /\ l \in Seq(Packet) /\ given \in Nat /\ window_size \in Nat
      /\ window_size <= MaxWindowSize /\ next_outgoing_seqnum = Num(given)
  BY ConstantFacts DEF IInv, SenderInv, TypeOK
<1>2. /\ l # <<>> /\ h = l[1] /\ h \in Packets(l) /\ h \in Packet /\ h.idx \in Nat
      /\ p.idx \in Nat /\ h.idx <= p.idx
  <2>1. PICK i \in DOMAIN l : p = l[i]
    BY DEF Packets
  <2>2. l # <<>> /\ 1 \in DOMAIN l /\ h = l[1] /\ i \in 1 .. Len(l)
    BY <1>1, <2>1
  <2>3. h \in Packets(l) /\ h \in Packet /\ h.idx \in Nat /\ p.idx \in Nat
    BY <1>1, <2>1, <2>2, ElementsArePackets, PacketFacts
  <2>4. i # 1 => h.idx < p.idx
    BY <1>1, <2>1, <2>2 DEF IInv, BuffersSorted, InIdxOrder
  <2> QED
    BY <2>1, <2>2, <2>3, <2>4
<1>3. /\ h.seqnum = Num(h.idx) /\ h.idx < given /\ d <= MaxSpan
  <2>1. h.seqnum = Num(h.idx) /\ h.idx < Cut
    BY <1>2 DEF IInv, Numbered, Settled, Sent
  <2>2. given - h.idx <= MaxSpan
    BY <1>2, HeldSpan
  <2> QED
    BY <1>1, <1>2, <2>1, <2>2, CutFacts DEF IInv
<1>4. /\ Distance(h.seqnum, next_outgoing_seqnum) = d /\ d \in Nat
      /\ h.seqnum \in SeqNums /\ next_outgoing_seqnum \in SeqNums
  <2>1. h.idx \in Int /\ given \in Int /\ h.idx <= given /\ given - h.idx <= SEQNUM_MAX
    BY <1>1, <1>2, <1>3, WideFacts, CircleSize
  <2>2. Distance(Num(h.idx), Num(given)) = given - h.idx
    BY <2>1, NumFacts
  <2>3. Num(h.idx) \in SeqNums /\ Num(given) \in SeqNums
    BY <2>1, NumFacts
  <2> QED
    BY <1>1, <1>3, <2>1, <2>2, <2>3
<1>5. d <= window_size + 1
  <2> DEFINE s == h.seqnum
             n == next_outgoing_seqnum
  <2>1. /\ s \in 0 .. SEQNUM_MAX /\ n \in 0 .. SEQNUM_MAX
        /\ d = IF n >= s THEN n - s ELSE n - s + SEQNUM_MAX + 1
    BY <1>4 DEF Distance, SeqNums
  <2>2. IF s < n THEN U16(n - s) <= window_size
        ELSE n + U16(SEQNUM_MAX - s) <= window_size
    BY <1>2 DEF SeqnumAvailable
  <2>3. s < n => U16(n - s) = n - s
    BY <2>1, U16Wraps, CircleSize
  <2>4. U16(SEQNUM_MAX - s) = SEQNUM_MAX - s
    BY <2>1, U16Wraps, CircleSize
  <2> HIDE DEF s, n, d
  <2> QED
    BY <1>1, <2>1, <2>2, <2>3, <2>4, CircleSize
<1> QED
  BY <1>1, <1>2, <1>3, <1>5, WideFacts, ConstantFacts

LEMMA UncutFacts ==
  ASSUME SenderInv
  PROVE  /\ Uncut \in Nat \ {0} /\ Uncut <= submitted + 1
         /\ submitted \in Nat /\ submitted <= MaxPayloads
         /\ pc = "build" => Uncut + Len(building.packets) <= submitted + 1
<1>1. /\ submitted \in Nat /\ submitted <= MaxPayloads /\ queued_commands \in Seq(Command)
  BY ConstantFacts DEF SenderInv, TypeOK
<1>2. ASSUME NEW c \in Command, c.first + c.size <= submitted + 1
      PROVE  /\ c.first \in Nat \ {0} /\ c.size \in Nat /\ c.first <= submitted + 1
  BY <1>1, <1>2 DEF Command
<1>3. queued_commands # <<>> =>
        LET c == Head(queued_commands)
        IN c \in Command /\ c.first + c.size <= submitted + 1
  <2> SUFFICES ASSUME queued_commands # <<>>
               PROVE  LET c == Head(queued_commands)
                      IN c \in Command /\ c.first + c.size <= submitted + 1
    OBVIOUS
  <2>1. Head(queued_commands) = queued_commands[1] /\ 1 \in DOMAIN queued_commands
        /\ queued_commands[1] \in Command
    BY <1>1
  <2> QED
    BY <2>1 DEF SenderInv, CommandsFollow
<1>4. CASE pc = "build"
  <2> DEFINE c == building.command
  <2>1. c \in Command /\ Len(building.packets) <= c.size
    BY <1>4 DEF SenderInv, BuildingIsNew
  <2>2. c.first + c.size <= submitted + 1
    <3>1. CASE building.requeue
      BY <1>3, <1>4, <3>1 DEF SenderInv, BuildingIsNew
    <3>2. CASE ~ building.requeue
      <4>1. c.first + c.size = submitted + 1
        BY <1>4, <3>2 DEF SenderInv, BuildingIsNew
      <4> QED
        BY <1>1, <2>1, <4>1 DEF Command
    <3> QED
      BY <3>1, <3>2
  <2>3. Uncut = c.first
    BY <1>4 DEF Uncut
  <2>4. Len(building.packets) \in Nat
    BY TypesOfState DEF SenderInv
  <2>5. c.first \in Nat \ {0} /\ c.size \in Nat /\ c.first <= submitted + 1
    <3> HIDE DEF c
    <3> QED
      BY <1>2, <2>1, <2>2
  <2> HIDE DEF c
  <2> QED
    BY <1>1, <2>1, <2>2, <2>3, <2>4, <2>5
<1>5. CASE pc # "build" /\ queued_commands # <<>>
  <2> DEFINE c == Head(queued_commands)
  <2>1. c \in Command /\ c.first + c.size <= submitted + 1
    BY <1>3, <1>5
  <2>2. Uncut = c.first
    BY <1>5 DEF Uncut
  <2> HIDE DEF c
  <2> QED
    BY <1>1, <1>2, <1>5, <2>1, <2>2
<1>6. CASE pc # "build" /\ queued_commands = <<>>
  <2>1. Uncut = submitted + 1
    BY <1>6 DEF Uncut
  <2>2. submitted + 1 \in Nat \ {0} /\ submitted + 1 <= submitted + 1
    BY <1>1
  <2> QED
    BY <1>1, <1>6, <2>1, <2>2
<1> QED
  BY <1>4, <1>5, <1>6

LEMMA CutsAreNumbers == SenderInv => Cut \in Nat /\ Uncut \in Nat
BY CutFacts, UncutFacts

LEMMA TakeNextSeqnumStep ==
  ASSUME CircleIsWide, IInv, SenderInv', TakeNextSeqnum
  PROVE  IInv'
<1>1. /\ UNCHANGED <<queued_reliables, outgoing_reliables_sent, pings, wire, acks, recvVars>>
      /\ pc = "build" /\ pc' = "build" /\ given' = given + 1 /\ SeqnumAvailable
      /\ building' = [building EXCEPT !.packets =
                        Append(@, NewPacket(building.command.first + Len(building.packets)))]
  BY DEF TakeNextSeqnum, TakeSeqnum
<1>2. /\ building \in [command : Command \union {NoCommand}, packets : Seq(Packet),
                       requeue : BOOLEAN]
      /\ given \in Nat /\ pings \in Nat
  BY ConstantFacts DEF IInv, SenderInv, TypeOK
<1>3. building'.command = building.command /\ Len(building'.packets) = Len(building.packets) + 1
  BY <1>1, <1>2
<1>4. Len(building.packets) \in Nat /\ Len(queued_reliables) \in Nat
  BY TypesOfState DEF IInv, SenderInv
<1>5. Cut' = Cut /\ Uncut' = Uncut
  BY <1>1, <1>2, <1>3, <1>4 DEF Cut, Uncut
<1>6. SpanIsBounded'
  <2>1. ASSUME NEW q \in Packets(queued_reliables)
        PROVE  given' - q.idx <= Len(queued_reliables) + Len(building'.packets) + pings
    <3>1. q.idx \in Nat
      BY TypesOfState, PacketFacts DEF IInv, SenderInv
    <3>2. given - q.idx <= Len(queued_reliables) + Len(building.packets) + pings
      BY DEF IInv, SpanIsBounded
    <3> QED
      BY <1>1, <1>2, <1>3, <1>4, <3>1, <3>2
  <2>2. ASSUME NEW p \in Packets(outgoing_reliables_sent)
        PROVE  given' - p.idx <= MaxSpan
    <3>1. p.idx \in Nat
      BY TypesOfState, PacketFacts DEF IInv, SenderInv
    <3> QED
      BY <1>1, <1>2, <3>1, RoomForNumber
  <2> QED
    BY <1>1, <2>1, <2>2 DEF IInv, SpanIsBounded, Packets
<1> QED
  BY <1>1, <1>5, <1>6, SettledStay

LEMMA PutBackSequenceNumbersStep ==
  ASSUME IInv, SenderInv', PutBackSequenceNumbers
  PROVE  IInv'
<1>1. /\ UNCHANGED <<queued_reliables, outgoing_reliables_sent, pings, wire, acks, recvVars>>
      /\ pc = "build" /\ building' = NotBuilding
      /\ queued_commands' = IF building.requeue THEN queued_commands
                            ELSE Append(queued_commands, building.command)
      /\ given' = IF Len(building.packets) = 0 THEN given ELSE given - Len(building.packets)
  BY DEF PutBackSequenceNumbers
<1>2. /\ Cut = given - Len(building.packets) /\ Len(building.packets) \in Nat
      /\ given \in Nat /\ Len(queued_reliables) \in Nat /\ pings \in Nat
  BY CutFacts, TypesOfState, ConstantFacts DEF IInv, SenderInv
<1>3. given' = Cut /\ Len(building'.packets) = 0 /\ pc' # "build"
  <2>1. pc' # "build"
    BY DEF PutBackSequenceNumbers
  <2>2. building'.packets = <<>> /\ Len(<<>>) = 0
    BY <1>1 DEF NotBuilding
  <2>3. given' = Cut
    <3>1. CASE Len(building.packets) = 0
      <4>1. given' = given
        BY <1>1, <3>1
      <4> QED
        BY <1>2, <3>1, <4>1
    <3>2. CASE Len(building.packets) # 0
      BY <1>1, <1>2, <3>2
    <3> QED
      BY <3>1, <3>2
  <2> QED
    BY <1>2, <2>1, <2>2, <2>3
<1>4. Cut' = Cut
  <2>1. Cut' = given' - Len(building'.packets)
    BY DEF Cut
  <2>2. Cut \in Int
    BY <1>2
  <2> QED
    BY <1>3, <2>1, <2>2
<1>5. Uncut' = Uncut
  <2>1. queued_commands' # <<>> /\ Head(queued_commands') = building.command
    <3>1. CASE building.requeue
      BY <1>1, <3>1 DEF IInv, SenderInv, BuildingIsNew
    <3>2. CASE ~ building.requeue
      <4>1. queued_commands' = Append(<<>>, building.command) /\ building.command \in Command
        BY <1>1, <3>2 DEF IInv, SenderInv, BuildingIsNew
      <4> QED
        BY <4>1
    <3> QED
      BY <3>1, <3>2
  <2> QED
    BY <1>1, <1>3, <2>1 DEF Uncut
<1>6. SpanIsBounded'
  <2>1. ASSUME NEW q \in Packets(queued_reliables)
        PROVE  given' - q.idx <= Len(queued_reliables) + Len(building'.packets) + pings
    <3>1. q.idx \in Nat
      BY TypesOfState, PacketFacts DEF IInv, SenderInv
    <3>2. given - q.idx <= Len(queued_reliables) + Len(building.packets) + pings
      BY DEF IInv, SpanIsBounded
    <3> QED
      BY <1>2, <1>3, <3>1, <3>2
  <2>2. ASSUME NEW p \in Packets(outgoing_reliables_sent)
        PROVE  given' - p.idx <= MaxSpan
    <3>1. p.idx \in Nat
      BY TypesOfState, PacketFacts DEF IInv, SenderInv
    <3>2. given - p.idx <= MaxSpan
      BY DEF IInv, SpanIsBounded
    <3> QED
      BY <1>2, <1>3, <3>1, <3>2, SpanFacts
  <2> QED
    BY <1>1, <2>1, <2>2 DEF IInv, SpanIsBounded, Packets
<1> QED
  BY <1>1, <1>4, <1>5, <1>6, SettledStay

-----------------------------------------------------------------------------
(* Steps that settle packets: their numbers and pieces follow all that is  *)
(* settled.                                                                *)

(* The packets of N have the numbers from Cut to c and the pieces from     *)
(* Uncut to u.                                                             *)
Follow(N, c, u) ==
  /\ \A n \in N : /\ n.seqnum = Num(n.idx) /\ Cut <= n.idx /\ n.idx < c
                  /\ n.payload # PING => Uncut <= n.payload /\ n.payload < u
  /\ \A m, n \in N : m.idx = n.idx => m = n
  /\ \A m, n \in N : m.payload # PING /\ n.payload # PING /\ m.idx < n.idx
                        => m.payload < n.payload
  /\ \A i \in Cut .. c - 1 : \E n \in N : n.idx = i
  /\ \A i \in Uncut .. u - 1 : \E n \in N : n.payload = i

LEMMA SettledGrow ==
  ASSUME IInv, SenderInv', NEW N \in SUBSET Packet,
         Settled' = Settled \union N, Kept' = Kept \union N,
         UNCHANGED <<acks, recvVars>>, Cut <= Cut', Uncut <= Uncut',
         Follow(N, Cut', Uncut')
  PROVE  /\ Numbered' /\ OneOfEach' /\ PiecesInOrder' /\ PiecesAreDue' /\ PiecesAreKept'
         /\ NumbersAreKept' /\ AckedIsKept' /\ WaitsItsTurn'
<1> DEFINE c == Cut'
           u == Uncut'
           d == Len(delivered)
<1>1. /\ Cut \in Nat /\ c \in Nat /\ taken \in Nat /\ taken' = taken /\ taken <= Cut
      /\ Uncut \in Nat /\ u \in Nat /\ d \in Nat /\ delivered' = delivered
      /\ Cut <= c /\ Uncut <= u /\ d < Uncut
  <2>1. (Cut \in Nat /\ Uncut \in Nat)'
    BY CutsAreNumbers, PTL
  <2>2. Cut \in Nat /\ Uncut \in Nat /\ taken \in Nat
    BY CutFacts, UncutFacts DEF IInv
  <2>3. taken' = taken /\ delivered' = delivered
    BY DEF recvVars
  <2>4. d \in Nat
    BY DEF IInv, SenderInv, TypeOK
  <2> QED
    BY <2>1, <2>2, <2>3, <2>4 DEF IInv, Numbered, PiecesAreKept
<1>2. \A p \in Settled \union N : p \in Packet /\ p.idx \in Nat /\ p.payload \in Nat
  BY TypesOfState, ConstantFacts DEF IInv, SenderInv, Settled, Sent, Packet, Payloads
<1>3. \A p \in Settled : p.seqnum = Num(p.idx) /\ p.idx < Cut
  BY DEF IInv, Numbered
<1>4. \A p \in Settled : p.payload # PING =>
        p.payload < Uncut /\ (taken <= p.idx => d < p.payload)
  BY DEF IInv, PiecesAreDue
<1>5. \A n \in N : /\ n.seqnum = Num(n.idx) /\ Cut <= n.idx /\ n.idx < c
                   /\ n.payload # PING => Uncut <= n.payload /\ n.payload < u
  BY Zenon DEF Follow
<1> HIDE DEF c, u, d
<1>6. Numbered'
  <2>1. \A a \in acks : a.idx \in Nat /\ a.seqnum = Num(a.idx) /\ a.idx < Cut
    BY DEF IInv, Numbered, SenderInv, TypeOK
  <2>2. \A a \in acks' : a.seqnum = Num(a.idx) /\ a.idx < c
    BY <1>1, <2>1
  <2>3. \A p \in Settled' : p.seqnum = Num(p.idx) /\ p.idx < c
    BY <1>1, <1>2, <1>3, <1>5
  <2>4. next_incoming_seqnum' = Num(taken') /\ taken' <= c
    BY <1>1 DEF IInv, Numbered, recvVars
  <2> QED
    BY <2>2, <2>3, <2>4 DEF Numbered, c
<1>7. OneOfEach'
  <2> SUFFICES ASSUME NEW p \in Settled \union N, NEW q \in Settled \union N, p.idx = q.idx
               PROVE  p = q
    BY DEF OneOfEach
  <2>1. CASE p \in Settled /\ q \in Settled
    BY <2>1 DEF IInv, OneOfEach
  <2>2. CASE p \in N /\ q \in N
    BY <2>2 DEF Follow
  <2> QED
    BY <1>1, <1>2, <1>3, <1>5, <2>1, <2>2
<1>8. PiecesInOrder'
  <2> SUFFICES ASSUME NEW p \in Settled \union N, NEW q \in Settled \union N,
                      p.payload # PING, q.payload # PING, p.idx < q.idx
               PROVE  p.payload < q.payload
    BY DEF PiecesInOrder
  <2>1. CASE p \in Settled /\ q \in Settled
    BY <2>1 DEF IInv, PiecesInOrder
  <2>2. CASE p \in N /\ q \in N
    BY <2>2 DEF Follow
  <2>3. CASE p \in Settled /\ q \in N
    BY <1>1, <1>2, <1>4, <1>5, <2>3
  <2>4. CASE p \in N /\ q \in Settled
    BY <1>1, <1>2, <1>3, <1>5, <2>4
  <2> QED
    BY <2>1, <2>2, <2>3, <2>4
<1>9. PiecesAreDue'
  <2>1. \A p \in Settled \union N : p.payload # PING =>
          p.payload < u /\ (taken <= p.idx => d < p.payload)
    BY <1>1, <1>2, <1>4, <1>5
  <2> QED
    BY <1>1, <2>1 DEF PiecesAreDue, u, d
<1>10. PiecesAreKept'
  <2>1. ASSUME NEW i \in d + 1 .. u - 1
        PROVE  \E p \in Kept \union N : taken <= p.idx /\ p.payload = i
    <3>0. i \in Int /\ d + 1 <= i /\ i <= u - 1
      BY <1>1
    <3>1. CASE i < Uncut
      <4>1. i \in d + 1 .. Uncut - 1
        BY <1>1, <3>0, <3>1
      <4> QED
        BY <4>1 DEF IInv, PiecesAreKept, d
    <3>2. CASE Uncut <= i
      <4>1. i \in Uncut .. u - 1
        BY <1>1, <3>0, <3>2
      <4>2. PICK n \in N : n.payload = i
        BY <4>1 DEF Follow, u
      <4>3. taken <= n.idx
        BY <1>1, <1>2, <1>5
      <4> QED
        BY <4>2, <4>3
    <3> QED
      BY <1>1, <3>0, <3>1, <3>2
  <2>2. d < u
    BY <1>1
  <2> QED
    BY <1>1, <2>1, <2>2 DEF PiecesAreKept, d, u
<1>11. NumbersAreKept'
  <2>1. ASSUME NEW i \in taken .. c - 1
        PROVE  \E p \in Kept \union N : p.idx = i
    <3>0. i \in Int /\ taken <= i /\ i <= c - 1
      BY <1>1
    <3>1. CASE i < Cut
      <4>1. i \in taken .. Cut - 1
        BY <1>1, <3>0, <3>1
      <4> QED
        BY <4>1 DEF IInv, NumbersAreKept
    <3>2. CASE Cut <= i
      <4>1. i \in Cut .. c - 1
        BY <1>1, <3>0, <3>2
      <4> QED
        BY <4>1 DEF Follow, c
    <3> QED
      BY <1>1, <3>0, <3>1, <3>2
  <2> QED
    BY <1>1, <2>1 DEF NumbersAreKept, c
<1>12. AckedIsKept' /\ WaitsItsTurn'
  BY DEF IInv, AckedIsKept, WaitsItsTurn, Packets, recvVars
<1> QED
  BY <1>6, <1>7, <1>8, <1>9, <1>10, <1>11, <1>12

LEMMA PacketsOfConcat ==
  ASSUME NEW P, NEW l \in Seq(P), NEW m \in Seq(P)
  PROVE  /\ Packets(l \o m) = Packets(l) \union Packets(m)
         /\ Len(l \o m) = Len(l) + Len(m)
<1>1. /\ Len(l) \in Nat /\ Len(m) \in Nat /\ Len(l \o m) = Len(l) + Len(m)
      /\ DOMAIN l = 1 .. Len(l) /\ DOMAIN m = 1 .. Len(m)
      /\ DOMAIN (l \o m) = 1 .. Len(l) + Len(m)
      /\ \A i \in 1 .. Len(l) : (l \o m)[i] = l[i]
      /\ \A i \in 1 .. Len(m) : (l \o m)[Len(l) + i] = m[i]
  OBVIOUS
<1>2. \A i \in 1 .. Len(l) + Len(m) :
        i \in 1 .. Len(l) \/ (i - Len(l) \in 1 .. Len(m) /\ i = Len(l) + (i - Len(l)))
  BY <1>1
<1>3. \A i \in 1 .. Len(l) : i \in 1 .. Len(l) + Len(m)
  BY <1>1
<1>4. \A i \in 1 .. Len(m) : Len(l) + i \in 1 .. Len(l) + Len(m)
  BY <1>1
<1>5. Packets(l \o m) \subseteq Packets(l) \union Packets(m)
  <2> SUFFICES ASSUME NEW i \in 1 .. Len(l) + Len(m)
               PROVE  (l \o m)[i] \in Packets(l) \union Packets(m)
    BY <1>1 DEF Packets
  <2>1. CASE i \in 1 .. Len(l)
    BY <1>1, <2>1 DEF Packets
  <2>2. CASE i - Len(l) \in 1 .. Len(m) /\ i = Len(l) + (i - Len(l))
    <3>1. (l \o m)[i] = m[i - Len(l)]
      BY <1>1, <2>2
    <3> QED
      BY <1>1, <2>2, <3>1 DEF Packets
  <2> QED
    BY <1>2, <2>1, <2>2
<1>6. Packets(l) \subseteq Packets(l \o m)
  BY <1>1, <1>3 DEF Packets
<1>7. Packets(m) \subseteq Packets(l \o m)
  BY <1>1, <1>4 DEF Packets
<1> QED
  BY <1>1, <1>5, <1>6, <1>7

LEMMA ConcatInIdxOrder ==
  ASSUME NEW l \in Seq(Packet), NEW m \in Seq(Packet), InIdxOrder(l), InIdxOrder(m),
         \A p \in Packets(l), q \in Packets(m) : p.idx < q.idx
  PROVE  InIdxOrder(l \o m)
<1> DEFINE r == l \o m
<1>1. /\ Len(l) \in Nat /\ Len(m) \in Nat
      /\ DOMAIN l = 1 .. Len(l) /\ DOMAIN m = 1 .. Len(m) /\ DOMAIN r = 1 .. Len(l) + Len(m)
      /\ \A i \in 1 .. Len(l) : r[i] = l[i]
      /\ \A i \in 1 .. Len(m) : r[Len(l) + i] = m[i]
  OBVIOUS
<1> HIDE DEF r
<1>2. SUFFICES ASSUME NEW i \in 1 .. Len(l) + Len(m), NEW j \in 1 .. Len(l) + Len(m), i < j
               PROVE  r[i].idx < r[j].idx
  BY <1>1 DEF InIdxOrder, r
<1>3. CASE j <= Len(l)
  <2>1. i \in 1 .. Len(l) /\ j \in 1 .. Len(l)
    BY <1>1, <1>2, <1>3
  <2> QED
    BY <1>1, <1>2, <2>1 DEF InIdxOrder
<1>4. CASE i > Len(l)
  <2> DEFINE a == i - Len(l)
             b == j - Len(l)
  <2>1. /\ a \in 1 .. Len(m) /\ b \in 1 .. Len(m) /\ a < b
        /\ i = Len(l) + a /\ j = Len(l) + b
    BY <1>1, <1>2, <1>4
  <2> HIDE DEF a, b
  <2>2. r[i] = m[a] /\ r[j] = m[b]
    BY <1>1, <2>1
  <2> QED
    BY <1>1, <2>1, <2>2 DEF InIdxOrder
<1>5. CASE i <= Len(l) /\ Len(l) < j
  <2> DEFINE b == j - Len(l)
  <2>1. i \in 1 .. Len(l) /\ b \in 1 .. Len(m) /\ j = Len(l) + b
    BY <1>1, <1>2, <1>5
  <2> HIDE DEF b
  <2>2. r[i] \in Packets(l) /\ r[j] \in Packets(m)
    BY <1>1, <2>1 DEF Packets
  <2> QED
    BY <2>2
<1> QED
  BY <1>1, <1>2, <1>3, <1>4, <1>5

LEMMA HeadOfTail ==
  ASSUME NEW P, NEW l \in Seq(P), Len(l) >= 2
  PROVE  Tail(l) # <<>> /\ Head(Tail(l)) = l[2]
<1>1. Tail(l) \in Seq(P) /\ Len(Tail(l)) = Len(l) - 1 /\ Len(l) \in Nat
  OBVIOUS
<1>2. Tail(l)[1] = l[2]
  BY <1>1
<1>3. 1 \in DOMAIN Tail(l) /\ DOMAIN <<>> = {}
  BY <1>1
<1>4. Tail(l) # <<>>
  BY <1>3, Zenon
<1> QED
  BY <1>1, <1>2, <1>4

LEMMA QueuePacketsStep ==
  ASSUME CircleIsWide, IInv, SenderInv', QueuePackets
  PROVE  IInv'
<1> DEFINE b == building.packets
           q == queued_reliables
           N == Packets(b)
           size == building.command.size
           first == building.command.first
<1>1. /\ UNCHANGED <<outgoing_reliables_sent, submitted, given, pings, wire, acks, recvVars>>
      /\ pc = "build" /\ pc' = "commands" /\ building' = NotBuilding
      /\ Len(b) = size /\ q' = q \o b
      /\ queued_commands' = IF building.requeue THEN Tail(queued_commands)
                                                ELSE queued_commands
  BY DEF QueuePackets
<1>2. /\ b \in Seq(Packet) /\ q \in Seq(Packet) /\ Len(b) \in Nat /\ Len(q) \in Nat
      /\ given \in Nat /\ taken \in Nat /\ pings \in Nat /\ pings <= MaxPings
      /\ submitted \in Nat /\ Cut \in Nat /\ given = Cut + Len(b)
      /\ queued_commands \in Seq(Command) /\ taken <= Cut
  <2>1. b \in Seq(Packet) /\ q \in Seq(Packet) /\ pings \in 0 .. MaxPings
        /\ submitted \in Nat /\ queued_commands \in Seq(Command)
    BY DEF IInv, SenderInv, TypeOK
  <2>2. Cut \in Nat /\ given \in Nat /\ taken \in Nat /\ Len(b) \in Nat /\ Cut = given - Len(b)
    BY CutFacts DEF IInv
  <2> HIDE DEF b
  <2> QED
    BY <2>1, <2>2, ConstantFacts DEF IInv, Numbered
<1>3. /\ building.command \in Command /\ size \in Nat \ {0} /\ first \in Nat \ {0}
      /\ size <= MaxCommandPackets /\ Len(q) < QueueLimit
      /\ \A k \in DOMAIN b :
           b[k] = [idx |-> Cut + k - 1, seqnum |-> Num(Cut + k - 1), payload |-> first + k - 1]
      /\ building.requeue =>
           queued_commands # <<>> /\ building.command = Head(queued_commands)
      /\ ~ building.requeue => queued_commands = <<>> /\ first + size = submitted + 1
  <2>1. building.command \in Command
    BY <1>1 DEF IInv, SenderInv, BuildingIsNew
  <2>2. size \in Nat \ {0} /\ first \in Nat \ {0}
    BY <2>1 DEF Command
  <2> QED
    BY <1>1, <2>1, <2>2 DEF IInv, SenderInv, BuildingIsNew
<1>4. \A n \in N : \E k \in 1 .. size :
        /\ n = b[k] /\ n.idx = Cut + k - 1 /\ n.seqnum = Num(n.idx)
        /\ n.payload = first + k - 1
  <2> SUFFICES ASSUME NEW k \in DOMAIN b
               PROVE  /\ k \in 1 .. size /\ b[k].idx = Cut + k - 1
                      /\ b[k].seqnum = Num(b[k].idx) /\ b[k].payload = first + k - 1
    BY DEF Packets
  <2>1. b[k] = [idx |-> Cut + k - 1, seqnum |-> Num(Cut + k - 1), payload |-> first + k - 1]
    BY <1>3
  <2>2. k \in 1 .. size
    BY <1>1, <1>2
  <2> HIDE DEF b, size, first
  <2> QED
    BY <2>1, <2>2
<1>5. Cut' = given /\ Cut <= Cut'
  <2>1. Cut' = given' - Len(building'.packets)
    BY DEF Cut
  <2>2. building'.packets = <<>> /\ Len(<<>>) = 0
    BY <1>1 DEF NotBuilding
  <2> HIDE DEF b
  <2> QED
    BY <1>1, <1>2, <2>1, <2>2
<1>6. Uncut = first /\ Uncut' = first + size
  <2>1. Uncut = first
    BY <1>1 DEF Uncut
  <2>2. CASE ~ building.requeue
    BY <1>1, <1>3, <2>2 DEF Uncut
  <2>3. CASE building.requeue
    <3> DEFINE c == queued_commands
    <3>1. /\ c \in Seq(Command) /\ Len(c) \in Nat /\ Len(c) >= 1 /\ Head(c) = c[1]
          /\ 1 \in DOMAIN c /\ c' = Tail(c) /\ c[1] = building.command
      BY <1>1, <1>2, <1>3, <2>3
    <3>2. c[1].first + c[1].size = IF 1 = Len(c) THEN submitted + 1 ELSE c[1 + 1].first
      <4> HIDE DEF c
      <4> QED
        BY <3>1 DEF IInv, SenderInv, CommandsFollow, c
    <3>3. CASE Len(c) = 1
      <4>1. c' = <<>>
        BY <3>1, <3>3
      <4> QED
        BY <1>1, <3>1, <3>2, <3>3, <4>1 DEF Uncut
    <3>4. CASE Len(c) # 1
      <4>1. c' # <<>> /\ Head(c') = c[2]
        <5>1. c \in Seq(Command) /\ Len(c) >= 2
          <6> HIDE DEF c
          <6>1. \A k \in Nat : k >= 1 /\ k # 1 => k >= 2
            OBVIOUS
          <6> QED
            BY <3>1, <3>4, <6>1, Zenon
        <5> QED
          BY <3>1, <5>1, HeadOfTail
      <4> QED
        BY <1>1, <3>1, <3>2, <3>4, <4>1 DEF Uncut
    <3> QED
      BY <3>3, <3>4
  <2> QED
    BY <2>1, <2>2, <2>3
<1>7. /\ Packets(q)' = Packets(q) \union N /\ Len(q') = Len(q) + size
      /\ q' \in Seq(Packet) /\ N \subseteq Packet
  <2>1. /\ Packets(q \o b) = Packets(q) \union Packets(b)
        /\ Len(q \o b) = Len(q) + Len(b) /\ q \o b \in Seq(Packet)
    BY <1>2, PacketsOfConcat
  <2>2. Packets(q)' = Packets(q')
    BY DEF Packets
  <2>3. Packets(b) \subseteq Packet
    BY <1>2, PacketsOfList
  <2> QED
    BY <1>1, <2>1, <2>2, <2>3
<1>8. Follow(N, Cut', Uncut')
  <2> HIDE DEF b, N, size, first
  <2>1. /\ Cut \in Int /\ Cut' = Cut + size /\ size \in Int /\ first \in Int
        /\ first > 0 /\ Uncut = first /\ Uncut' = first + size
    BY <1>1, <1>2, <1>3, <1>5, <1>6
  <2>2. \A n \in N : /\ n.seqnum = Num(n.idx) /\ Cut <= n.idx /\ n.idx < Cut'
                     /\ Uncut <= n.payload /\ n.payload < Uncut'
                     /\ n.idx - Cut = n.payload - first /\ n.idx \in Int /\ n.payload \in Int
                     /\ n = b[n.idx - Cut + 1]
    <3> SUFFICES ASSUME NEW n \in N
                 PROVE  /\ n.seqnum = Num(n.idx) /\ Cut <= n.idx /\ n.idx < Cut'
                        /\ Uncut <= n.payload /\ n.payload < Uncut'
                        /\ n.idx - Cut = n.payload - first /\ n.idx \in Int /\ n.payload \in Int
                        /\ n = b[n.idx - Cut + 1]
      OBVIOUS
    <3>1. PICK k \in 1 .. size : /\ n = b[k] /\ n.idx = Cut + k - 1 /\ n.seqnum = Num(n.idx)
                                 /\ n.payload = first + k - 1
      BY <1>4
    <3>2. k = n.idx - Cut + 1
      BY <2>1, <3>1
    <3> QED
      BY <2>1, <3>1, <3>2
  <2>3. \A m, n \in N : m.idx = n.idx => m = n
    BY <2>2
  <2>4. \A m, n \in N : m.idx < n.idx => m.payload < n.payload
    BY <2>1, <2>2
  <2>5. ASSUME NEW k \in 1 .. size
        PROVE  \E n \in N : n.idx = Cut + k - 1 /\ n.payload = first + k - 1
    <3>1. k \in DOMAIN b
      BY <1>1, <1>2, <2>5
    <3>2. b[k] \in N /\ b[k].idx = Cut + k - 1 /\ b[k].payload = first + k - 1
      BY <1>3, <3>1 DEF Packets, N
    <3> QED
      BY <3>2
  <2>6. ASSUME NEW i \in Cut .. Cut' - 1 PROVE \E n \in N : n.idx = i
    <3>1. i - Cut + 1 \in 1 .. size /\ i = Cut + (i - Cut + 1) - 1
      BY <2>1
    <3> QED
      BY <2>5, <3>1
  <2>7. ASSUME NEW i \in Uncut .. Uncut' - 1 PROVE \E n \in N : n.payload = i
    <3>1. i - first + 1 \in 1 .. size /\ i = first + (i - first + 1) - 1
      BY <2>1
    <3> QED
      BY <2>5, <3>1
  <2> QED
    BY <2>2, <2>3, <2>4, <2>6, <2>7 DEF Follow
<1>9. Sent' = Sent /\ Settled' = Settled \union N /\ Kept' = Kept \union N
  BY <1>1, <1>7 DEF Sent, Settled, Kept, recvVars, Packets
<1>10. Uncut <= Uncut'
  BY <1>3, <1>6
<1>11. QueuedAreUnsent'
  <2>1. \A p \in Settled : p.idx \in Nat /\ p.idx < Cut
    BY TypesOfState, PacketFacts DEF IInv, SenderInv, Numbered, Settled, Sent
  <2>2. \A n \in N : n.idx \in Nat /\ Cut <= n.idx
    <3> HIDE DEF N
    <3> QED
      <4>1. \A n \in N : Cut <= n.idx
        BY <1>8, Zenon DEF Follow
      <4> QED
        BY <1>7, <4>1, PacketFacts
  <2>3. InIdxOrder(q')
    <3>1. InIdxOrder(b)
      <4> SUFFICES ASSUME NEW i \in DOMAIN b, NEW j \in DOMAIN b, i < j
                   PROVE  b[i].idx < b[j].idx
        BY DEF InIdxOrder
      <4>0. i \in Nat /\ j \in Nat
        BY <1>2
      <4> HIDE DEF b, first
      <4>1. b[i].idx = Cut + i - 1 /\ b[j].idx = Cut + j - 1
        BY <1>3
      <4> QED
        BY <1>2, <4>0, <4>1
    <3>2. InIdxOrder(q)
      BY DEF IInv, QueuedAreUnsent
    <3>3. \A p \in Packets(q), n \in Packets(b) : p.idx < n.idx
      BY <1>2, <2>1, <2>2 DEF Settled
    <3> QED
      BY <1>1, <1>2, <3>1, <3>2, <3>3, ConcatInIdxOrder
  <2>4. ASSUME NEW n \in Packets(q) \union N
        PROVE  taken <= n.idx /\ \A p \in Sent : p.idx # n.idx
    <3>1. CASE n \in Packets(q)
      BY <3>1 DEF IInv, QueuedAreUnsent
    <3>2. CASE n \in N
      BY <1>2, <2>1, <2>2, <3>2 DEF Settled
    <3> QED
      BY <2>4, <3>1, <3>2
  <2>5. taken' = taken
    BY <1>1 DEF recvVars
  <2> QED
    BY <1>7, <1>9, <2>3, <2>4, <2>5 DEF QueuedAreUnsent
<1>12. SpanIsBounded'
  <2> HIDE DEF b, size
  <2>1. Len(q') <= QueueLimit + MaxCommandPackets + pings
    BY <1>2, <1>3, <1>7, SpanFacts, ConstantFacts
  <2>2. ASSUME NEW n \in Packets(q) \union N
        PROVE  given - n.idx <= Len(q') + 0 + pings
    <3>1. CASE n \in Packets(q)
      <4>1. given - n.idx <= Len(q) + Len(b) + pings
        BY <3>1 DEF IInv, SpanIsBounded, b
      <4>2. n.idx \in Nat
        BY <1>2, <3>1, PacketsOfList, PacketFacts
      <4> QED
        BY <1>1, <1>2, <1>3, <1>7, <4>1, <4>2
    <3>2. CASE n \in N
      <4>1. Cut <= n.idx /\ n.idx \in Nat
        <5> HIDE DEF N
        <5>1. Cut <= n.idx
          BY <1>8, <3>2, Zenon DEF Follow
        <5> QED
          BY <1>7, <3>2, <5>1, PacketFacts
      <4> QED
        BY <1>1, <1>2, <1>3, <1>7, <4>1
    <3> QED
      BY <2>2, <3>1, <3>2
  <2>3. \A p \in Packets(outgoing_reliables_sent)' : given - p.idx <= MaxSpan
    BY <1>1 DEF IInv, SpanIsBounded, Packets
  <2>4. Len(building'.packets) = 0
    BY <1>1 DEF NotBuilding
  <2> QED
    BY <1>1, <1>7, <2>1, <2>2, <2>3, <2>4 DEF SpanIsBounded
<1>13. BuffersSorted'
  BY <1>1 DEF IInv, BuffersSorted, InIdxOrder, recvVars
<1>14. /\ Numbered' /\ OneOfEach' /\ PiecesInOrder' /\ PiecesAreDue' /\ PiecesAreKept'
       /\ NumbersAreKept' /\ AckedIsKept' /\ WaitsItsTurn'
  <2> HIDE DEF b, N, size, first
  <2> QED
    BY <1>1, <1>5, <1>7, <1>8, <1>9, <1>10, SettledGrow
<1> QED
  BY <1>11, <1>12, <1>13, <1>14 DEF IInv

LEMMA TailInIdxOrder ==
  ASSUME NEW l \in Seq(Packet), l # <<>>, InIdxOrder(l)
  PROVE  /\ Tail(l) \in Seq(Packet) /\ InIdxOrder(Tail(l))
         /\ \A q \in Packets(Tail(l)) : Head(l).idx < q.idx
<1> DEFINE t == Tail(l)
<1>1. /\ t \in Seq(Packet) /\ Len(t) = Len(l) - 1 /\ Len(l) \in Nat /\ Head(l) = l[1]
      /\ DOMAIN l = 1 .. Len(l) /\ DOMAIN t = 1 .. Len(l) - 1
      /\ \A i \in 1 .. Len(l) - 1 : t[i] = l[i + 1]
  OBVIOUS
<1>2. \A i \in 1 .. Len(l) - 1 : i + 1 \in DOMAIN l /\ 1 \in DOMAIN l /\ i + 1 \in Nat /\ 1 < i + 1
  BY <1>1
<1> HIDE DEF t
<1>3. InIdxOrder(t)
  <2> SUFFICES ASSUME NEW i \in DOMAIN t, NEW j \in DOMAIN t, i < j PROVE t[i].idx < t[j].idx
    BY DEF InIdxOrder
  <2>1. t[i] = l[i + 1] /\ t[j] = l[j + 1] /\ i + 1 < j + 1
    BY <1>1
  <2>2. i + 1 \in DOMAIN l /\ j + 1 \in DOMAIN l
    BY <1>1, <1>2
  <2> QED
    BY <2>1, <2>2 DEF InIdxOrder
<1>4. ASSUME NEW i \in DOMAIN t PROVE Head(l).idx < t[i].idx
  <2>1. t[i] = l[i + 1] /\ i + 1 \in DOMAIN l /\ 1 \in DOMAIN l /\ 1 < i + 1
    BY <1>1, <1>2
  <2> QED
    BY <1>1, <2>1 DEF InIdxOrder
<1>5. \A q \in Packets(t) : Head(l).idx < q.idx
  BY <1>4 DEF Packets
<1> QED
  BY <1>1, <1>3, <1>5 DEF t

LEMMA AppendInIdxOrder ==
  ASSUME NEW l \in Seq(Packet), InIdxOrder(l), NEW p \in Packet,
         \A q \in Packets(l) : q.idx < p.idx
  PROVE  InIdxOrder(Append(l, p))
<1> DEFINE r == Append(l, p)
<1>1. /\ Len(l) \in Nat /\ DOMAIN l = 1 .. Len(l) /\ DOMAIN r = 1 .. Len(l) + 1
      /\ \A i \in 1 .. Len(l) : r[i] = l[i]
      /\ r[Len(l) + 1] = p
  OBVIOUS
<1> HIDE DEF r
<1> SUFFICES ASSUME NEW i \in 1 .. Len(l) + 1, NEW j \in 1 .. Len(l) + 1, i < j
             PROVE  r[i].idx < r[j].idx
  BY <1>1 DEF InIdxOrder, r
<1>2. i \in 1 .. Len(l) /\ (j = Len(l) + 1 \/ j \in 1 .. Len(l))
  BY <1>1
<1>3. r[i] = l[i] /\ l[i] \in Packets(l)
  BY <1>1, <1>2 DEF Packets
<1>4. CASE j = Len(l) + 1
  BY <1>1, <1>3, <1>4
<1>5. CASE j \in 1 .. Len(l)
  BY <1>1, <1>2, <1>3, <1>5 DEF InIdxOrder
<1> QED
  BY <1>2, <1>4, <1>5

(* sendAsPacketReliable keeps a packet not sent before, when g numbers have *)
(* been given out: insert does not refuse it.                               *)
LEMMA KeptForResend ==
  ASSUME CircleIsWide, IInv, NEW g \in {given, given + 1},
         NEW p \in Packet, p.seqnum = Num(p.idx), p.idx < g, g - p.idx <= MaxSpan,
         \A q \in Packets(outgoing_reliables_sent) : q.idx # p.idx /\ g - q.idx <= MaxSpan,
         NEW r, r = insert(outgoing_reliables_sent, p, ResendBase(Num(g)))
  PROVE  /\ InIdxOrder(r)
         /\ Packets(r) = Packets(outgoing_reliables_sent) \union {p}
<1> DEFINE l == outgoing_reliables_sent
           b == g - MAX_RELIABLE_WINDOW_SIZE
<1>1. /\ l \in Seq(Packet) /\ g \in Int /\ b \in Int /\ InIdxOrder(l) /\ p.idx \in Nat
      /\ given \in Nat
  <2>1. given \in Nat /\ given + 1 \in Nat
    BY TypesOfState DEF IInv, SenderInv
  <2> QED
    BY <2>1, WideFacts, PacketFacts DEF IInv, SenderInv, TypeOK, BuffersSorted
<1>2. r = insert(l, p, Num(b))
  <2>1. U16(Num(g) - MAX_RELIABLE_WINDOW_SIZE) = Num(g - MAX_RELIABLE_WINDOW_SIZE)
    BY <1>1, NumFacts
  <2> QED
    BY <2>1 DEF ResendBase
<1>3. Near(l, b, MAX_RELIABLE_WINDOW_SIZE)
  <2> SUFFICES ASSUME NEW q \in Packets(l)
               PROVE  q.seqnum = Num(q.idx) /\ b <= q.idx /\ q.idx < b + MAX_RELIABLE_WINDOW_SIZE
    BY DEF Near
  <2>1. q.idx \in Nat
    BY TypesOfState, PacketFacts DEF IInv, SenderInv
  <2>2. q.seqnum = Num(q.idx) /\ q.idx < Cut
    BY DEF IInv, Numbered, Settled, Sent
  <2>3. Cut <= given /\ Cut \in Nat /\ (g = given \/ g = given + 1)
    BY CutFacts DEF IInv
  <2>4. g - q.idx <= MaxSpan /\ b = g - MAX_RELIABLE_WINDOW_SIZE
    OBVIOUS
  <2>5. q.idx < g
    BY <1>1, <2>1, <2>2, <2>3
  <2> HIDE DEF b
  <2> QED
    BY <1>1, <2>1, <2>2, <2>4, <2>5, WideFacts
<1>4. b < p.idx /\ p.idx < b + MAX_RELIABLE_WINDOW_SIZE
  BY <1>1, WideFacts
<1> HIDE DEF b, l
<1>5. /\ InIdxOrder(r)
      /\ (\A q \in Packets(l) : q.idx # p.idx) => Packets(r) = Packets(l) \union {p}
  BY <1>1, <1>2, <1>3, <1>4, InsertByIdx
<1> QED
  BY <1>5 DEF l

LEMMA SendQueuedStep ==
  ASSUME CircleIsWide, IInv, SenderInv', SendQueued
  PROVE  IInv'
<1> DEFINE l == outgoing_reliables_sent
           q == queued_reliables
           h == Head(q)
<1>1. /\ UNCHANGED <<pc, next_outgoing_seqnum, queued_commands, building, submitted, given,
                     pings, acks, recvVars>>
      /\ pc = "send" /\ q # <<>> /\ q' = Tail(q)
      /\ l' = insert(l, h, ResendBase(next_outgoing_seqnum)) /\ wire' = wire \union {h}
  BY DEF SendQueued, CanSend, SendAsPacketReliable
<1>2. /\ q \in Seq(Packet) /\ InIdxOrder(q) /\ given \in Nat /\ Len(q) \in Nat /\ pings \in Nat
      /\ Len(building.packets) = 0 /\ Cut = given /\ next_outgoing_seqnum = Num(given)
  <2>1. q \in Seq(Packet) /\ InIdxOrder(q) /\ next_outgoing_seqnum = Num(given)
    BY DEF IInv, SenderInv, TypeOK, QueuedAreUnsent
  <2>2. given \in Nat /\ Len(building.packets) = 0 /\ Cut = given
    BY <1>1, CutFacts DEF IInv
  <2> QED
    BY <2>1, <2>2, ConstantFacts, TypesOfState DEF IInv, SenderInv
<1>3. /\ h \in Packets(q) /\ h \in Packet /\ h.idx \in Nat /\ Len(q') = Len(q) - 1
      /\ Packets(q) = Packets(q') \union {h} /\ InIdxOrder(q')
      /\ \A p \in Packets(q') : h.idx < p.idx /\ p \in Packet /\ p.idx \in Nat
  <2>1. /\ h \in Packets(q) /\ Len(Tail(q)) = Len(q) - 1 /\ Packets(q) \subseteq Packet
        /\ Packets(q) = Packets(Tail(q)) \union {h}
    BY <1>1, <1>2, PacketsOfList
  <2>2. InIdxOrder(Tail(q)) /\ \A p \in Packets(Tail(q)) : h.idx < p.idx
    BY <1>1, <1>2, TailInIdxOrder
  <2> HIDE DEF q, h
  <2> QED
    BY <1>1, <2>1, <2>2, PacketFacts
<1>4. /\ h.seqnum = Num(h.idx) /\ h.idx < given /\ given - h.idx <= MaxSpan
      /\ taken <= h.idx /\ \A p \in Sent : p.idx # h.idx
  <2>1. h.seqnum = Num(h.idx) /\ h.idx < Cut
    BY <1>3 DEF IInv, Numbered, Settled
  <2>2. given - h.idx <= MaxSpan
    BY <1>3, HeldSpan
  <2>3. taken <= h.idx /\ \A p \in Sent : p.idx # h.idx
    BY <1>3 DEF IInv, QueuedAreUnsent
  <2> QED
    BY <1>2, <2>1, <2>2, <2>3
<1>5. InIdxOrder(l') /\ Packets(l') = Packets(l) \union {h}
  <2>1. \A p \in Packets(l) : p.idx # h.idx /\ given - p.idx <= MaxSpan
    BY <1>4, HeldSpan DEF Sent
  <2>2. given \in {given, given + 1} /\ l' = insert(l, h, ResendBase(Num(given)))
    BY <1>1, <1>2
  <2> HIDE DEF h, q
  <2> QED
    BY <1>3, <1>4, <2>1, <2>2, KeptForResend
<1>6. /\ Sent' = Sent \union {h} /\ Settled' = Settled /\ Kept' = Kept
      /\ Packets(q)' = Packets(q')
  <2>1. Packets(l)' = Packets(l') /\ Packets(q)' = Packets(q')
        /\ Packets(incoming_reliables)' = Packets(incoming_reliables)
    BY <1>1 DEF Packets, recvVars
  <2> HIDE DEF h
  <2> QED
    BY <1>1, <1>3, <1>5, <2>1 DEF Sent, Settled, Kept
<1>7. Cut' = Cut /\ Uncut' = Uncut
  BY <1>1 DEF Cut, Uncut
<1>8. /\ Numbered' /\ OneOfEach' /\ PiecesInOrder' /\ PiecesAreDue' /\ PiecesAreKept'
      /\ NumbersAreKept' /\ AckedIsKept' /\ WaitsItsTurn'
  <2>1. Cut \in Nat /\ Uncut \in Nat
    BY CutsAreNumbers DEF IInv
  <2>2. Follow({}, Cut, Uncut)
    BY <2>1 DEF Follow
  <2>3. Cut <= Cut' /\ Uncut <= Uncut' /\ Follow({}, Cut', Uncut')
    BY <1>7, <2>1, <2>2
  <2>4. Settled' = Settled \union {} /\ Kept' = Kept \union {} /\ {} \in SUBSET Packet
    BY <1>6
  <2>5. UNCHANGED <<acks, recvVars>>
    BY <1>1
  <2> QED
    BY <2>3, <2>4, <2>5, SettledGrow
<1>9. QueuedAreUnsent'
  <2> HIDE DEF h, q
  <2>1. \A p \in Packets(q') : taken <= p.idx /\ \A s \in Sent \union {h} : s.idx # p.idx
    <3> SUFFICES ASSUME NEW p \in Packets(q')
                 PROVE  taken <= p.idx /\ h.idx # p.idx /\ \A s \in Sent : s.idx # p.idx
      OBVIOUS
    <3>1. p \in Packets(q) /\ h.idx < p.idx /\ p.idx \in Nat
      BY <1>3
    <3> QED
      BY <1>3, <3>1 DEF IInv, QueuedAreUnsent, q
  <2>2. taken' = taken
    BY <1>1 DEF recvVars
  <2> QED
    BY <1>3, <1>6, <2>1, <2>2 DEF QueuedAreUnsent, q
<1>10. SpanIsBounded'
  <2> HIDE DEF h, q, l
  <2>1. Len(q') <= QueueLimit + MaxCommandPackets + pings
    <3>1. Len(q) <= QueueLimit + MaxCommandPackets + pings
      BY DEF IInv, SpanIsBounded, q
    <3> QED
      BY <1>2, <1>3, <3>1, SpanFacts, ConstantFacts
  <2>2. ASSUME NEW p \in Packets(q') PROVE given - p.idx <= Len(q') + 0 + pings
    <3>1. given - h.idx <= Len(q) + Len(building.packets) + pings
      BY <1>3 DEF IInv, SpanIsBounded, q
    <3>2. h.idx < p.idx /\ p.idx \in Nat
      BY <1>3
    <3> QED
      BY <1>2, <1>3, <3>1, <3>2
  <2>3. \A p \in Packets(l') : given - p.idx <= MaxSpan
    BY <1>4, <1>5, HeldSpan DEF l
  <2>4. Packets(l)' = Packets(l') /\ Packets(q)' = Packets(q') /\ Len(building'.packets) = 0
    BY <1>1, <1>2 DEF Packets
  <2> QED
    BY <1>1, <2>1, <2>2, <2>3, <2>4 DEF SpanIsBounded, l, q
<1>11. BuffersSorted'
  BY <1>1, <1>5 DEF IInv, BuffersSorted, InIdxOrder, recvVars
<1> QED
  BY <1>8, <1>9, <1>10, <1>11 DEF IInv

LEMMA RawSendAsPacketStep ==
  ASSUME CircleIsWide, IInv, SenderInv', RawSendAsPacket
  PROVE  IInv'
<1> DEFINE l == outgoing_reliables_sent
           q == queued_reliables
           p == NewPacket(PING)
<1>1. /\ UNCHANGED <<queued_commands, building, submitted, acks, recvVars>>
      /\ pc = "ping" /\ pc' = "run_queue" /\ given' = given + 1 /\ pings' = pings + 1
      /\ SeqnumAvailable
      /\ \/ /\ l' = insert(l, p, ResendBase(next_outgoing_seqnum')) /\ wire' = wire \union {p}
            /\ q' = q
         \/ /\ q' = Append(q, p) /\ l' = l /\ wire' = wire
  BY DEF RawSendAsPacket, TakeSeqnum, SendAsPacketReliable
<1>2. /\ q \in Seq(Packet) /\ InIdxOrder(q) /\ given \in Nat /\ Len(q) \in Nat /\ pings \in Nat
      /\ Len(building.packets) = 0 /\ Cut = given /\ next_outgoing_seqnum = Num(given)
      /\ next_outgoing_seqnum' = Num(given + 1) /\ taken \in Nat /\ taken <= given
      /\ l \in Seq(Packet)
  <2>1. /\ q \in Seq(Packet) /\ InIdxOrder(q) /\ next_outgoing_seqnum = Num(given)
        /\ taken <= Cut /\ l \in Seq(Packet)
    BY DEF IInv, SenderInv, TypeOK, QueuedAreUnsent, Numbered
  <2>2. given \in Nat /\ Len(building.packets) = 0 /\ Cut = given /\ taken \in Nat
    BY <1>1, CutFacts DEF IInv
  <2>3. next_outgoing_seqnum' = Num(given')
    BY DEF SenderInv
  <2> QED
    BY <1>1, <2>1, <2>2, <2>3, ConstantFacts, TypesOfState DEF IInv, SenderInv
<1>3. p \in Packet /\ p.idx = given /\ p.seqnum = Num(p.idx) /\ p.payload = PING
  <2>1. p \in Packet
    BY PingIsPacket DEF IInv, SenderInv
  <2> QED
    BY <1>2, <2>1 DEF NewPacket
<1> HIDE DEF p
<1>4. \A s \in Settled : s \in Packet /\ s.idx \in Nat /\ s.idx < given
  BY <1>2, TypesOfState, PacketFacts DEF IInv, SenderInv, Numbered, Settled, Sent
<1>5. Cut' = given + 1 /\ Uncut' = Uncut
  <2>1. Cut' = given' - Len(building'.packets)
    BY DEF Cut
  <2>2. Len(building'.packets) = 0
    BY <1>1, <1>2
  <2>3. Uncut' = Uncut
    BY <1>1 DEF Uncut
  <2> QED
    BY <1>1, <1>2, <2>1, <2>2, <2>3
<1>6. \A s \in Packets(l) : (given + 1) - s.idx <= MaxSpan
  <2> SUFFICES ASSUME NEW s \in Packets(l) PROVE (given + 1) - s.idx <= MaxSpan
    OBVIOUS
  <2>1. given - s.idx + 1 <= MaxSpan
    BY <1>1, RoomForNumber
  <2>2. s.idx \in Nat
    BY <1>4 DEF Settled, Sent
  <2> QED
    BY <1>2, <2>1, <2>2
<1>7. \A s \in Packets(q) : (given + 1) - s.idx <= Len(q) + 0 + (pings + 1)
  <2> SUFFICES ASSUME NEW s \in Packets(q) PROVE (given + 1) - s.idx <= Len(q) + 0 + (pings + 1)
    OBVIOUS
  <2>1. given - s.idx <= Len(q) + Len(building.packets) + pings
    BY DEF IInv, SpanIsBounded
  <2>2. s.idx \in Nat
    BY <1>4 DEF Settled
  <2> HIDE DEF q
  <2> QED
    BY <1>2, <2>1, <2>2
<1>8. Len(q) <= QueueLimit + MaxCommandPackets + pings
  BY DEF IInv, SpanIsBounded
<1>9. /\ Packets(l)' = Packets(l') /\ Packets(q)' = Packets(q')
      /\ Packets(incoming_reliables)' = Packets(incoming_reliables)
      /\ Len(building'.packets) = 0 /\ taken' = taken
  BY <1>1, <1>2 DEF Packets, recvVars
<1>10. ASSUME l' = insert(l, p, ResendBase(next_outgoing_seqnum')), wire' = wire \union {p},
              q' = q
       PROVE  /\ Settled' = Settled \union {p} /\ Kept' = Kept \union {p}
              /\ QueuedAreUnsent' /\ SpanIsBounded' /\ BuffersSorted'
  <2>1. InIdxOrder(l') /\ Packets(l') = Packets(l) \union {p}
    <3>1. \A s \in Packets(l) : s.idx # p.idx /\ (given + 1) - s.idx <= MaxSpan
      BY <1>2, <1>3, <1>4, <1>6 DEF Settled, Sent
    <3>2. given + 1 \in {given, given + 1} /\ p.idx < given + 1 /\ (given + 1) - p.idx <= MaxSpan
      BY <1>2, <1>3, WideFacts
    <3>3. l' = insert(l, p, ResendBase(Num(given + 1)))
      BY <1>2, <1>10
    <3>4. p \in Packet /\ p.seqnum = Num(p.idx)
      BY <1>3
    <3> DEFINE g == given + 1
    <3> HIDE DEF g
    <3>5. /\ g \in {given, given + 1} /\ p.idx < g /\ g - p.idx <= MaxSpan
          /\ l' = insert(l, p, ResendBase(Num(g)))
      BY <3>2, <3>3 DEF g
    <3>6. \A s \in Packets(l) : s.idx # p.idx /\ g - s.idx <= MaxSpan
      BY <3>1, Zenon DEF g
    <3> QED
      BY <3>4, <3>5, <3>6, KeptForResend
  <2>2. Sent' = Sent \union {p} /\ Settled' = Settled \union {p} /\ Kept' = Kept \union {p}
    BY <1>9, <1>10, <2>1 DEF Sent, Settled, Kept
  <2>3. QueuedAreUnsent'
    <3>1. \A s \in Packets(q) : /\ taken <= s.idx /\ s.idx # p.idx
                                /\ \A m \in Sent : m.idx # s.idx
      BY <1>2, <1>3, <1>4 DEF IInv, QueuedAreUnsent, Settled
    <3>2. InIdxOrder(q')
      BY <1>2, <1>10
    <3>3. Packets(q)' = Packets(q)
      BY <1>10 DEF Packets
    <3> QED
      BY <1>9, <2>2, <3>1, <3>2, <3>3 DEF QueuedAreUnsent
  <2>4. SpanIsBounded'
    <3>1. Len(q) <= QueueLimit + MaxCommandPackets + (pings + 1)
      BY <1>2, <1>8, SpanFacts, ConstantFacts
    <3>2. (given + 1) - p.idx <= MaxSpan
      BY <1>2, <1>3, WideFacts
    <3>3. \A s \in Packets(l') : (given + 1) - s.idx <= MaxSpan
      BY <1>6, <2>1, <3>2
    <3>4. Packets(q)' = Packets(q) /\ q' = q
      BY <1>10 DEF Packets
    <3>5. given' = given + 1 /\ pings' = pings + 1 /\ Len(building'.packets) = 0
      BY <1>1, <1>9
    <3>6. ASSUME NEW s \in Packets(q)
          PROVE  given' - s.idx <= Len(q') + Len(building'.packets) + pings'
      BY <1>7, <3>4, <3>5
    <3>7. ASSUME NEW s \in Packets(l') PROVE given' - s.idx <= MaxSpan
      BY <3>3, <3>5
    <3> QED
      BY <1>9, <3>1, <3>4, <3>5, <3>6, <3>7 DEF SpanIsBounded
  <2>5. BuffersSorted'
    BY <1>1, <2>1 DEF IInv, BuffersSorted, InIdxOrder, recvVars
  <2> QED
    BY <2>2, <2>3, <2>4, <2>5
<1>11. ASSUME q' = Append(q, p), l' = l, wire' = wire
       PROVE  /\ Settled' = Settled \union {p} /\ Kept' = Kept \union {p}
              /\ QueuedAreUnsent' /\ SpanIsBounded' /\ BuffersSorted'
  <2>1. /\ Packets(q') = Packets(q) \union {p} /\ Len(q') = Len(q) + 1
        /\ InIdxOrder(q')
    <3>1. Packets(Append(q, p)) = Packets(q) \union {p}
      BY <1>2, <1>3, PacketsOfList
    <3>2. Len(Append(q, p)) = Len(q) + 1
      BY <1>2, <1>3
    <3>3. InIdxOrder(Append(q, p))
      BY <1>2, <1>3, <1>4, AppendInIdxOrder DEF Settled
    <3> QED
      BY <1>11, <3>1, <3>2, <3>3
  <2>2. Sent' = Sent /\ Settled' = Settled \union {p} /\ Kept' = Kept \union {p}
    <3>1. Packets(l)' = Packets(l)
      BY <1>11 DEF Packets
    <3> QED
      BY <1>9, <1>11, <2>1, <3>1 DEF Sent, Settled, Kept
  <2>3. QueuedAreUnsent'
    <3>1. \A s \in Packets(q) \union {p} : taken <= s.idx /\ \A m \in Sent : m.idx # s.idx
      BY <1>2, <1>3, <1>4 DEF IInv, QueuedAreUnsent, Settled
    <3> QED
      BY <1>9, <2>1, <2>2, <3>1 DEF QueuedAreUnsent
  <2>4. SpanIsBounded'
    <3>1. Len(q') <= QueueLimit + MaxCommandPackets + (pings + 1)
      BY <1>2, <1>8, <2>1, SpanFacts, ConstantFacts
    <3>2. \A s \in Packets(q) \union {p} : (given + 1) - s.idx <= Len(q') + 0 + (pings + 1)
      <4> SUFFICES ASSUME NEW s \in Packets(q) \union {p}
                   PROVE  (given + 1) - s.idx <= Len(q') + 0 + (pings + 1)
        OBVIOUS
      <4>1. CASE s \in Packets(q)
        <5>1. s.idx \in Nat /\ (given + 1) - s.idx <= Len(q) + 0 + (pings + 1)
          BY <1>4, <1>7, <4>1 DEF Settled
        <5> HIDE DEF q
        <5> QED
          BY <1>2, <2>1, <5>1
      <4>2. CASE s = p
        BY <1>2, <1>3, <2>1, <4>2
      <4> QED
        BY <4>1, <4>2
    <3>3. Packets(l)' = Packets(l)
      BY <1>11 DEF Packets
    <3>4. given' = given + 1 /\ pings' = pings + 1 /\ Len(building'.packets) = 0
      BY <1>1, <1>9
    <3>5. ASSUME NEW s \in Packets(q) \union {p}
          PROVE  given' - s.idx <= Len(q') + Len(building'.packets) + pings'
      BY <3>2, <3>4
    <3>6. ASSUME NEW s \in Packets(l) PROVE given' - s.idx <= MaxSpan
      BY <1>6, <3>4
    <3> QED
      BY <1>9, <2>1, <3>1, <3>3, <3>4, <3>5, <3>6 DEF SpanIsBounded
  <2>5. BuffersSorted'
    BY <1>1, <1>11 DEF IInv, BuffersSorted, InIdxOrder, recvVars
  <2> QED
    BY <2>2, <2>3, <2>4, <2>5
<1>12. /\ Settled' = Settled \union {p} /\ Kept' = Kept \union {p}
       /\ QueuedAreUnsent' /\ SpanIsBounded' /\ BuffersSorted'
  BY <1>1, <1>10, <1>11
<1>13. /\ Numbered' /\ OneOfEach' /\ PiecesInOrder' /\ PiecesAreDue' /\ PiecesAreKept'
       /\ NumbersAreKept' /\ AckedIsKept' /\ WaitsItsTurn'
  <2>1. Uncut \in Nat
    BY CutsAreNumbers DEF IInv
  <2>2. Follow({p}, given + 1, Uncut)
    <3>1. \A i \in given .. given + 1 - 1 : i = given
      BY <1>2
    <3>2. \A i \in Uncut .. Uncut - 1 : FALSE
      BY <2>1
    <3>3. given < given + 1 /\ given <= given
      BY <1>2
    <3> QED
      BY <1>2, <1>3, <3>1, <3>2, <3>3 DEF Follow
  <2>3. Cut <= Cut' /\ Uncut <= Uncut' /\ Follow({p}, Cut', Uncut')
    BY <1>2, <1>5, <2>1, <2>2
  <2>4. {p} \in SUBSET Packet /\ UNCHANGED <<acks, recvVars>>
    BY <1>1, <1>3
  <2> QED
    BY <1>12, <2>3, <2>4, SettledGrow
<1> QED
  BY <1>12, <1>13 DEF IInv

(* A packet the sender drops has been consumed or waits at the receiver.   *)
LEMMA ReceiveAckStep ==
  ASSUME CircleIsWide, IInv, SenderInv', NEW a \in acks, ReceiveAck(a)
  PROVE  IInv'
<1> DEFINE l == outgoing_reliables_sent
           b == given - MAX_RELIABLE_WINDOW_SIZE
<1>1. /\ UNCHANGED <<pc, queued_commands, building, queued_reliables, submitted, given, pings,
                     wire, acks, recvVars>>
      /\ l' = popSeqnum(l, a.seqnum) /\ FreshAck(a)
  BY DEF ReceiveAck
<1>2. /\ l \in Seq(Packet) /\ given \in Nat /\ taken \in Nat /\ b \in Int /\ InIdxOrder(l)
      /\ a.idx \in Nat /\ a.seqnum = Num(a.idx) /\ a.idx < given
      /\ a.idx + SEQNUM_MAX >= given
  <2>1. l \in Seq(Packet) /\ a.idx \in Nat /\ given \in Nat /\ taken \in Nat
    BY DEF IInv, SenderInv, TypeOK
  <2>2. a.seqnum = Num(a.idx) /\ a.idx < Cut /\ Cut \in Nat /\ Cut <= given
    BY CutFacts DEF IInv, Numbered
  <2>3. a.idx < given
    BY <2>1, <2>2
  <2>4. b \in Int
    BY <2>1, WideFacts
  <2> QED
    BY <1>1, <2>1, <2>2, <2>3, <2>4 DEF IInv, BuffersSorted, FreshAck
<1>3. \A q \in Packets(l) : /\ q.idx \in Nat /\ q.seqnum = Num(q.idx) /\ q.idx < given
                            /\ given - q.idx <= MaxSpan
  <2> SUFFICES ASSUME NEW q \in Packets(l)
               PROVE  /\ q.idx \in Nat /\ q.seqnum = Num(q.idx) /\ q.idx < given
                      /\ given - q.idx <= MaxSpan
    OBVIOUS
  <2>1. q.idx \in Nat /\ q.seqnum = Num(q.idx) /\ q.idx < Cut
    BY TypesOfState, PacketFacts DEF IInv, SenderInv, Numbered, Settled, Sent
  <2>2. given - q.idx <= MaxSpan
    BY HeldSpan
  <2>3. Cut \in Nat /\ Cut <= given
    BY CutFacts DEF IInv
  <2> QED
    BY <1>2, <2>1, <2>2, <2>3
<1>4. Near(l, b, SEQNUM_MAX + 1)
  <2> SUFFICES ASSUME NEW q \in Packets(l)
               PROVE  q.seqnum = Num(q.idx) /\ b <= q.idx /\ q.idx < b + (SEQNUM_MAX + 1)
    BY DEF Near
  <2>1. /\ q.idx \in Nat /\ q.seqnum = Num(q.idx) /\ q.idx < given
        /\ given - q.idx <= MaxSpan
    BY <1>3
  <2> QED
    BY <1>2, <2>1, WideFacts
<1>5. \A q \in Packets(l) : q.idx - a.idx <= SEQNUM_MAX /\ a.idx - q.idx <= SEQNUM_MAX
  <2> SUFFICES ASSUME NEW q \in Packets(l)
               PROVE  q.idx - a.idx <= SEQNUM_MAX /\ a.idx - q.idx <= SEQNUM_MAX
    OBVIOUS
  <2>1. q.idx \in Nat /\ q.idx < given /\ given - q.idx <= MaxSpan
    BY <1>3
  <2>2. /\ MaxSpan \in Nat /\ MAX_RELIABLE_WINDOW_SIZE \in Nat /\ SEQNUM_MAX \in Nat
        /\ MaxSpan < MAX_RELIABLE_WINDOW_SIZE
        /\ SEQNUM_MAX + 1 = 2 * MAX_RELIABLE_WINDOW_SIZE
    BY WideFacts, CircleSize
  <2>3. q.idx - a.idx <= SEQNUM_MAX
    BY <1>2, <2>1, <2>2
  <2>4. a.idx - q.idx <= SEQNUM_MAX
    BY <1>2, <2>1, <2>2
  <2> QED
    BY <2>3, <2>4
<1>6. InIdxOrder(l') /\ Packets(l') = {q \in Packets(l) : q.idx # a.idx}
  <2>1. a.idx \in Int /\ l' = popSeqnum(l, Num(a.idx))
    BY <1>1, <1>2
  <2> HIDE DEF b
  <2> QED
    BY <1>2, <1>4, <1>5, <2>1, PopByIdx
<1>7. /\ Packets(l)' = Packets(l') /\ Packets(queued_reliables)' = Packets(queued_reliables)
      /\ Packets(incoming_reliables)' = Packets(incoming_reliables)
      /\ taken' = taken /\ delivered' = delivered
      /\ Sent' \subseteq Sent /\ Settled' \subseteq Settled
      /\ Cut' = Cut /\ Uncut' = Uncut
  <2>1. /\ Packets(l)' = Packets(l') /\ Packets(queued_reliables)' = Packets(queued_reliables)
        /\ Packets(incoming_reliables)' = Packets(incoming_reliables)
        /\ taken' = taken /\ delivered' = delivered
    BY <1>1 DEF Packets, recvVars
  <2>2. Sent' \subseteq Sent
    BY <1>1, <1>6, <2>1 DEF Sent
  <2>3. Settled' \subseteq Settled
    BY <2>1, <2>2 DEF Settled
  <2> QED
    BY <1>1, <2>1, <2>2, <2>3 DEF Cut, Uncut
<1>8. \A p \in Kept : taken <= p.idx => p \in Kept'
  <2> SUFFICES ASSUME NEW p \in Kept, taken <= p.idx PROVE p \in Kept'
    OBVIOUS
  <2>1. CASE p \in Packets(queued_reliables) \union Packets(incoming_reliables)
    BY <1>7, <2>1 DEF Kept
  <2>2. CASE p \in Packets(l) /\ p.idx # a.idx
    BY <1>6, <1>7, <2>2 DEF Kept
  <2>3. CASE p \in Packets(l) /\ p.idx = a.idx
    <3>1. ~ a.idx < taken
      BY <1>2, <2>3
    <3>2. PICK r \in Packets(incoming_reliables) : r.idx = a.idx
      BY <3>1 DEF IInv, AckedIsKept
    <3>3. r = p
      BY <2>3, <3>2 DEF IInv, OneOfEach, Settled, Sent
    <3> QED
      BY <1>7, <3>2, <3>3 DEF Kept
  <2> QED
    BY <2>1, <2>2, <2>3 DEF Kept
<1> HIDE DEF l, b
<1>9. Numbered' /\ OneOfEach' /\ PiecesInOrder' /\ PiecesAreDue'
  BY <1>1, <1>7 DEF IInv, Numbered, OneOfEach, PiecesInOrder, PiecesAreDue, recvVars
<1>10. QueuedAreUnsent'
  BY <1>1, <1>7 DEF IInv, QueuedAreUnsent, InIdxOrder
<1>11. PiecesAreKept'
  BY <1>7, <1>8 DEF IInv, PiecesAreKept
<1>12. NumbersAreKept'
  <2> SUFFICES ASSUME NEW i \in taken .. Cut - 1 PROVE \E p \in Kept' : p.idx = i
    BY <1>7 DEF NumbersAreKept
  <2>1. PICK p \in Kept : p.idx = i
    BY DEF IInv, NumbersAreKept
  <2>2. taken <= p.idx
    BY <1>2, <2>1, CutFacts DEF IInv
  <2> QED
    BY <1>8, <2>1, <2>2
<1>13. AckedIsKept' /\ WaitsItsTurn'
  BY <1>1, <1>7 DEF IInv, AckedIsKept, WaitsItsTurn, recvVars
<1>14. BuffersSorted'
  BY <1>1, <1>6 DEF IInv, BuffersSorted, InIdxOrder, recvVars, l
<1>15. SpanIsBounded'
  <2>1. \A p \in Packets(l') : given - p.idx <= MaxSpan
    BY <1>3, <1>6
  <2> QED
    BY <1>1, <1>7, <2>1 DEF IInv, SpanIsBounded, l
<1> QED
  BY <1>9, <1>10, <1>11, <1>12, <1>13, <1>14, <1>15 DEF IInv

-----------------------------------------------------------------------------
(* The receiver.                                                           *)

(* The packet whose turn it is carries the next piece, if it carries one.  *)
LEMMA NextPiece ==
  ASSUME IInv, NEW p \in Settled, p.idx = taken
  PROVE  p.payload # PING => p.payload = Len(delivered) + 1
<1> DEFINE d == Len(delivered)
<1> SUFFICES ASSUME p.payload # PING PROVE p.payload = d + 1
  OBVIOUS
<1>1. /\ \A q \in Settled : q \in Packet /\ q.idx \in Nat /\ q.payload \in Nat
      /\ d \in Nat /\ Uncut \in Nat /\ taken \in Nat
  <2>1. d \in Nat /\ taken \in Nat
    BY DEF IInv, SenderInv, TypeOK
  <2> QED
    BY <2>1, TypesOfState, UncutFacts, ConstantFacts
       DEF IInv, SenderInv, Settled, Sent, Packet, Payloads
<1>2. d < p.payload /\ p.payload < Uncut
  BY <1>1 DEF IInv, PiecesAreDue
<1>3. d + 1 \in d + 1 .. Uncut - 1
  BY <1>1, <1>2
<1>4. PICK r \in Kept : taken <= r.idx /\ r.payload = d + 1
  BY <1>3 DEF IInv, PiecesAreKept
<1>5. r \in Settled
  BY <1>4 DEF Kept, Settled, Sent
<1>6. CASE r.idx = taken
  BY <1>4, <1>5, <1>6 DEF IInv, OneOfEach
<1>7. CASE taken < r.idx
  <2>1. r.payload # PING
    BY <1>1, <1>4 DEF PING
  <2>2. p.payload < r.payload
    BY <1>5, <1>7, <2>1 DEF IInv, PiecesInOrder
  <2> QED
    BY <1>1, <1>2, <1>4, <1>5, <2>2
<1> QED
  BY <1>1, <1>4, <1>5, <1>6, <1>7

(* Its number is consumed, and it leaves incoming_reliables if it was there. *)
LEMMA TakeStep ==
  ASSUME IInv, SenderInv', NEW p \in Sent, p.idx = taken, Take(p),
         UNCHANGED <<pc, sendVars, wire>>, packet_queued' = TRUE,
         acks' \subseteq acks \union {Ack(p)},
         InIdxOrder(incoming_reliables'),
         Packets(incoming_reliables') = {q \in Packets(incoming_reliables) : q.idx # taken}
  PROVE  IInv'
<1> DEFINE d == Len(delivered)
           in == Packets(incoming_reliables)
<1>1. /\ taken \in Nat /\ taken' = taken + 1 /\ d \in Nat
      /\ delivered' = (IF p.payload = PING THEN delivered ELSE Append(delivered, p.payload))
      /\ delivered \in Seq(1 .. MaxPayloads)
      /\ next_incoming_seqnum' = U16(next_incoming_seqnum + 1)
      /\ \A q \in Settled : q \in Packet /\ q.idx \in Nat /\ q.payload \in Nat
      /\ \A a \in acks : a.idx \in Nat
      /\ p \in Settled
  <2>1. /\ taken \in Nat /\ delivered \in Seq(1 .. MaxPayloads) /\ \A a \in acks : a.idx \in Nat
    BY DEF IInv, SenderInv, TypeOK
  <2>2. \A q \in Settled : q \in Packet /\ q.idx \in Nat /\ q.payload \in Nat
    BY TypesOfState, ConstantFacts DEF IInv, SenderInv, Settled, Sent, Packet, Payloads
  <2>3. d \in Nat /\ p \in Settled
    BY <2>1 DEF Settled
  <2> QED
    BY <2>1, <2>2, <2>3 DEF Take
<1>2. /\ UNCHANGED <<queued_reliables, outgoing_reliables_sent, building, queued_commands,
                     submitted, given, pings>>
      /\ Cut' = Cut /\ Uncut' = Uncut
  BY DEF sendVars, Cut, Uncut
<1>3. /\ Packets(queued_reliables)' = Packets(queued_reliables)
      /\ Packets(outgoing_reliables_sent)' = Packets(outgoing_reliables_sent)
      /\ Packets(incoming_reliables)' = {q \in in : q.idx # taken}
  BY <1>2 DEF Packets
<1>4. Sent' \subseteq Sent /\ Settled' \subseteq Settled
  BY <1>2, <1>3 DEF Sent, Settled
<1>5. \A q \in Kept : q.idx # taken => q \in Kept'
  BY <1>3 DEF Kept
<1>6. /\ p.seqnum = Num(p.idx) /\ taken < Cut /\ next_incoming_seqnum = Num(taken)
      /\ Cut \in Nat
      /\ p.payload # PING => p.payload = d + 1 /\ p.payload < Uncut
  <2>1. p.seqnum = Num(p.idx) /\ p.idx < Cut /\ next_incoming_seqnum = Num(taken)
    BY <1>1 DEF IInv, Numbered
  <2>2. p.payload # PING => p.payload = d + 1 /\ p.payload < Uncut
    BY <1>1, NextPiece DEF IInv, PiecesAreDue
  <2> QED
    BY <2>1, <2>2, CutFacts DEF IInv
<1>7. /\ p.payload = PING => Len(delivered') = d
      /\ p.payload # PING => Len(delivered') = d + 1
      /\ Len(delivered') \in Nat
  <2>1. p.payload \in Nat
    BY <1>1
  <2>2. p.payload # PING => p.payload \in 1 .. MaxPayloads
    <3>1. p.payload # PING => p.payload >= 1
      BY <2>1 DEF PING
    <3>2. Uncut <= MaxPayloads + 1 /\ Uncut \in Nat /\ MaxPayloads \in Nat
      BY UncutFacts, ConstantFacts DEF IInv
    <3> QED
      BY <1>6, <2>1, <3>1, <3>2
  <2>3. p.payload # PING => Len(Append(delivered, p.payload)) = d + 1
    BY <1>1, <2>2
  <2> QED
    BY <1>1, <2>3
<1> DEFINE e == Len(delivered')
<1>8. Numbered'
  <2>1. U16(Num(taken) + 1) = Num(taken + 1)
    BY <1>1, NumFacts
  <2>2. next_incoming_seqnum' = Num(taken') /\ taken' <= Cut
    BY <1>1, <1>6, <2>1
  <2>3. \A a \in acks' : a.seqnum = Num(a.idx) /\ a.idx < Cut
    BY <1>1, <1>6 DEF IInv, Numbered, Ack
  <2>4. \A q \in Settled' : q.seqnum = Num(q.idx) /\ q.idx < Cut
    BY <1>4 DEF IInv, Numbered
  <2> QED
    BY <1>2, <2>2, <2>3, <2>4 DEF Numbered
<1>9. OneOfEach' /\ PiecesInOrder'
  BY <1>4 DEF IInv, OneOfEach, PiecesInOrder
<1>10. QueuedAreUnsent'
  <2>1. ASSUME NEW q \in Packets(queued_reliables) PROVE taken + 1 <= q.idx
    <3>1. taken <= q.idx /\ p.idx # q.idx /\ q.idx \in Nat
      BY <1>1 DEF IInv, QueuedAreUnsent, Settled
    <3> QED
      BY <1>1, <3>1
  <2>2. InIdxOrder(queued_reliables)'
    BY <1>2 DEF IInv, QueuedAreUnsent, InIdxOrder
  <2> QED
    BY <1>1, <1>3, <1>4, <2>1, <2>2 DEF IInv, QueuedAreUnsent
<1> HIDE DEF d, in, e
<1>11. PiecesAreDue'
  <2>1. ASSUME NEW q \in Settled', q.payload # PING
        PROVE  q.payload < Uncut /\ (taken + 1 <= q.idx => e < q.payload)
    <3>1. q \in Settled /\ q.idx \in Nat /\ q.payload \in Nat
      BY <1>1, <1>4
    <3>2. q.payload < Uncut /\ (taken <= q.idx => d < q.payload)
      BY <2>1, <3>1 DEF IInv, PiecesAreDue, d
    <3>3. CASE p.payload = PING
      BY <1>1, <1>7, <3>1, <3>2, <3>3 DEF d, e
    <3>4. CASE p.payload # PING /\ taken + 1 <= q.idx
      <4>1. p.payload < q.payload
        BY <1>1, <2>1, <3>1, <3>4 DEF IInv, PiecesInOrder
      <4> QED
        BY <1>6, <1>7, <3>2, <3>4, <4>1 DEF d, e
    <3> QED
      BY <3>2, <3>3, <3>4
  <2> QED
    BY <1>1, <1>2, <2>1 DEF PiecesAreDue, e
<1>12. PiecesAreKept'
  <2>1. e < Uncut /\ e \in Nat /\ Uncut \in Nat /\ d <= e /\ d \in Nat
    <3>1. d < Uncut
      BY DEF IInv, PiecesAreKept, d
    <3>2. Uncut \in Nat
      BY UncutFacts DEF IInv
    <3> QED
      BY <1>1, <1>6, <1>7, <3>1, <3>2 DEF d, e
  <2>2. ASSUME NEW i \in e + 1 .. Uncut - 1
        PROVE  \E q \in Kept' : taken + 1 <= q.idx /\ q.payload = i
    <3>1. i \in d + 1 .. Uncut - 1 /\ i >= e + 1 /\ i \in Nat
      BY <2>1
    <3>2. PICK q \in Kept : taken <= q.idx /\ q.payload = i
      BY <3>1 DEF IInv, PiecesAreKept, d
    <3>3. q \in Settled /\ q.idx \in Nat
      BY <1>1 DEF Kept, Settled, Sent
    <3>4. q.idx # taken
      <4> SUFFICES ASSUME q.idx = taken PROVE FALSE
        OBVIOUS
      <4>1. q = p
        BY <1>1, <3>3 DEF IInv, OneOfEach
      <4>2. CASE p.payload = PING
        BY <2>1, <3>1, <3>2, <4>1, <4>2 DEF PING
      <4>3. CASE p.payload # PING
        <5>1. i = d + 1 /\ e = d + 1
          BY <1>6, <1>7, <3>2, <4>1, <4>3 DEF d, e
        <5> QED
          BY <2>1, <3>1, <5>1
      <4> QED
        BY <4>2, <4>3
    <3>5. q \in Kept' /\ taken + 1 <= q.idx
      BY <1>1, <1>5, <3>2, <3>3, <3>4
    <3> QED
      BY <3>2, <3>5
  <2> QED
    BY <1>1, <1>2, <2>1, <2>2 DEF PiecesAreKept, e
<1>13. NumbersAreKept'
  <2>1. ASSUME NEW i \in taken + 1 .. Cut - 1 PROVE \E q \in Kept' : q.idx = i
    <3>1. i \in taken .. Cut - 1 /\ i # taken
      BY <1>1, <1>6
    <3>2. PICK q \in Kept : q.idx = i
      BY <3>1 DEF IInv, NumbersAreKept
    <3> QED
      BY <1>5, <3>1, <3>2
  <2> QED
    BY <1>1, <1>2, <2>1 DEF NumbersAreKept
<1>14. AckedIsKept'
  <2> SUFFICES ASSUME NEW a \in acks'
               PROVE  a.idx < taken + 1 \/ \E q \in Packets(incoming_reliables)' : q.idx = a.idx
    BY <1>1 DEF AckedIsKept
  <2>1. CASE a = Ack(p)
    BY <1>1, <2>1 DEF Ack
  <2>2. CASE a \in acks
    <3>1. a.idx \in Nat /\ (a.idx < taken \/ \E q \in in : q.idx = a.idx)
      BY <1>1, <2>2 DEF IInv, AckedIsKept, in
    <3> QED
      BY <1>1, <1>3, <3>1
  <2> QED
    BY <2>1, <2>2
<1>15. BuffersSorted'
  BY <1>2 DEF IInv, BuffersSorted, InIdxOrder
<1>16. WaitsItsTurn'
  <2> SUFFICES ASSUME NEW q \in in, q.idx # taken
               PROVE  taken + 1 <= q.idx /\ q.idx < taken + 1 + MaxSpan
    BY <1>1, <1>3 DEF WaitsItsTurn
  <2>1. taken <= q.idx /\ q.idx < taken + MaxSpan
    BY DEF IInv, WaitsItsTurn, in
  <2>2. q.idx \in Nat
    BY <1>1 DEF in, Settled, Sent
  <2> QED
    BY <1>1, <2>1, <2>2, SpanFacts
<1>17. SpanIsBounded'
  BY <1>2, SpansStay
<1> QED
  BY <1>8, <1>9, <1>10, <1>11, <1>12, <1>13, <1>14, <1>15, <1>16, <1>17 DEF IInv

(* The head of incoming_reliables has its turn when it is of that number,  *)
(* and when it has not, no packet of the list has.                         *)
LEMMA HeadOfIncoming ==
  ASSUME CircleIsWide, IInv, incoming_reliables # <<>>
  PROVE  LET l == incoming_reliables
             h == Head(incoming_reliables)
         IN /\ h \in Packets(l) /\ h \in Sent
            /\ h.seqnum = next_incoming_seqnum <=> h.idx = taken
            /\ InIdxOrder(Tail(l))
            /\ h.idx = taken => Packets(Tail(l)) = {q \in Packets(l) : q.idx # taken}
            /\ h.idx # taken => \A q \in Packets(l) : q.idx # taken
<1> DEFINE l == incoming_reliables
           h == Head(incoming_reliables)
<1>1. l \in Seq(Packet) /\ InIdxOrder(l) /\ l # <<>> /\ taken \in Nat
  BY DEF IInv, SenderInv, TypeOK, BuffersSorted
<1>2. /\ h \in Packets(l) /\ Packets(l) = Packets(Tail(l)) \union {h}
      /\ InIdxOrder(Tail(l)) /\ \A q \in Packets(Tail(l)) : h.idx < q.idx
  BY <1>1, PacketsOfList, TailInIdxOrder
<1>3. \A q \in Packets(l) : q.idx \in Nat /\ taken <= q.idx /\ q.idx < taken + MaxSpan
  BY TypesOfState, PacketFacts DEF IInv, SenderInv, WaitsItsTurn
<1>4. h.seqnum = Num(h.idx) /\ next_incoming_seqnum = Num(taken) /\ h \in Sent
  BY <1>2 DEF IInv, Numbered, Settled, Sent
<1> HIDE DEF l, h
<1>5. h.seqnum = next_incoming_seqnum <=> h.idx = taken
  <2>1. /\ h.idx \in Int /\ taken \in Int
        /\ h.idx - taken <= SEQNUM_MAX /\ taken - h.idx <= SEQNUM_MAX
    <3>1. h.idx \in Nat /\ taken <= h.idx /\ h.idx < taken + MaxSpan
      BY <1>2, <1>3
    <3> QED
      BY <1>1, <3>1, WideFacts, CircleSize
  <2> QED
    BY <1>4, <2>1, NumFacts
<1>6. ASSUME h.idx = taken
      PROVE  Packets(Tail(l)) = {q \in Packets(l) : q.idx # taken}
  <2>1. \A q \in Packets(Tail(l)) : q.idx # taken
    BY <1>1, <1>2, <1>3, <1>6
  <2> QED
    BY <1>2, <1>6, <2>1
<1>7. ASSUME h.idx # taken
      PROVE  \A q \in Packets(l) : q.idx # taken
  <2> SUFFICES ASSUME NEW q \in Packets(l) PROVE q.idx # taken
    OBVIOUS
  <2>1. h.idx \in Nat /\ taken <= h.idx
    BY <1>2, <1>3
  <2>2. CASE q = h
    BY <1>7, <2>2
  <2>3. CASE q \in Packets(Tail(l))
    BY <1>1, <1>2, <1>3, <1>7, <2>1, <2>3
  <2> QED
    BY <1>2, <2>2, <2>3
<1> QED
  BY <1>2, <1>4, <1>5, <1>6, <1>7 DEF l, h

LEMMA UnbufferStep ==
  ASSUME CircleIsWide, IInv, SenderInv', Unbuffer
  PROVE  IInv'
<1> DEFINE l == incoming_reliables
<1>1. UNCHANGED <<pc, sendVars, wire, acks>> /\ packet_queued = TRUE
  BY DEF Unbuffer, IInv, SenderInv, TypeOK
<1>2. CASE l # <<>> /\ Head(l).seqnum = next_incoming_seqnum
  <2>1. Take(Head(l)) /\ l' = Tail(l) /\ packet_queued' = TRUE
    BY <1>1, <1>2 DEF Unbuffer
  <2>2. /\ Head(l) \in Sent /\ Head(l).idx = taken /\ InIdxOrder(Tail(l))
        /\ Packets(Tail(l)) = {q \in Packets(l) : q.idx # taken}
    BY <1>2, HeadOfIncoming
  <2>3. acks' \subseteq acks \union {Ack(Head(l))}
    BY <1>1
  <2> QED
    BY <1>1, <2>1, <2>2, <2>3, TakeStep
<1>3. CASE ~ (l # <<>> /\ Head(l).seqnum = next_incoming_seqnum)
  <2>1. UNCHANGED <<next_incoming_seqnum, incoming_reliables, delivered, taken>>
    BY <1>3 DEF Unbuffer
  <2>2. \A q \in Packets(l) : q.idx # taken
    <3>1. CASE l = <<>>
      BY <3>1 DEF Packets
    <3>2. CASE l # <<>>
      BY <1>3, <3>2, HeadOfIncoming
    <3> QED
      BY <3>1, <3>2
  <2>3. WaitsItsTurn'
    BY <2>1, <2>2 DEF IInv, WaitsItsTurn, Packets
  <2>4. /\ UNCHANGED <<queued_reliables, outgoing_reliables_sent, building, pings, given, wire,
                       acks>>
        /\ Cut' = Cut /\ Uncut' = Uncut
    BY <1>1 DEF sendVars, Cut, Uncut
  <2>5. SpanIsBounded'
    BY <2>4, SpansStay
  <2>6. /\ Sent' = Sent /\ Settled' = Settled /\ Kept' = Kept
        /\ Packets(queued_reliables)' = Packets(queued_reliables)
        /\ Packets(incoming_reliables)' = Packets(incoming_reliables)
    BY <2>1, <2>4 DEF Sent, Settled, Kept, Packets
  <2>7. Numbered' /\ OneOfEach' /\ PiecesInOrder' /\ PiecesAreDue' /\ PiecesAreKept'
    BY <2>1, <2>4, <2>6 DEF IInv, Numbered, OneOfEach, PiecesInOrder, PiecesAreDue,
       PiecesAreKept
  <2>8. QueuedAreUnsent' /\ NumbersAreKept' /\ AckedIsKept' /\ BuffersSorted'
    BY <2>1, <2>4, <2>6 DEF IInv, QueuedAreUnsent, NumbersAreKept, AckedIsKept, BuffersSorted,
       InIdxOrder
  <2> QED
    BY <2>3, <2>5, <2>7, <2>8 DEF IInv
<1> QED
  BY <1>2, <1>3

(* A packet read off the wire is acknowledged because it has been consumed *)
(* before, or because it is kept from then on; or it is not acknowledged.  *)
LEMMA KeepStep ==
  ASSUME IInv, SenderInv', NEW p \in wire,
         UNCHANGED <<pc, sendVars, wire, next_incoming_seqnum, delivered, taken>>,
         packet_queued' = TRUE,
         \/ acks' = acks
         \/ /\ acks' = acks \union {Ack(p)}
            /\ \/ p.idx < taken
               \/ p \in Packets(incoming_reliables'),
         InIdxOrder(incoming_reliables'),
         \/ Packets(incoming_reliables') = Packets(incoming_reliables)
         \/ /\ Packets(incoming_reliables') = Packets(incoming_reliables) \union {p}
            /\ taken <= p.idx /\ p.idx < taken + MaxSpan
  PROVE  IInv'
<1>1. /\ UNCHANGED <<queued_reliables, outgoing_reliables_sent, building, pings, given>>
      /\ Cut' = Cut /\ Uncut' = Uncut
  BY DEF sendVars, Cut, Uncut
<1>2. SpanIsBounded'
  BY <1>1, SpansStay
<1>3. /\ Packets(queued_reliables)' = Packets(queued_reliables)
      /\ Packets(outgoing_reliables_sent)' = Packets(outgoing_reliables_sent)
      /\ Packets(incoming_reliables)' = Packets(incoming_reliables')
      /\ Packets(incoming_reliables) \subseteq Packets(incoming_reliables')
      /\ Packets(incoming_reliables') \subseteq Packets(incoming_reliables) \union {p}
  BY <1>1 DEF Packets
<1>4. Sent' = Sent /\ Settled' = Settled /\ Kept \subseteq Kept' /\ p \in Settled
  BY <1>3 DEF Sent, Settled, Kept
<1>5. Numbered'
  <2>1. p.seqnum = Num(p.idx) /\ p.idx < Cut
    BY <1>4 DEF IInv, Numbered
  <2> QED
    BY <1>1, <1>4, <2>1 DEF IInv, Numbered, Ack
<1>6. OneOfEach' /\ PiecesInOrder' /\ PiecesAreDue' /\ PiecesAreKept'
  BY <1>1, <1>4 DEF IInv, OneOfEach, PiecesInOrder, PiecesAreDue, PiecesAreKept
<1>7. QueuedAreUnsent' /\ NumbersAreKept' /\ BuffersSorted'
  BY <1>1, <1>3, <1>4 DEF IInv, QueuedAreUnsent, NumbersAreKept, BuffersSorted, InIdxOrder
<1>8. AckedIsKept'
  BY <1>3 DEF IInv, AckedIsKept, Ack
<1>9. WaitsItsTurn'
  BY <1>3 DEF IInv, WaitsItsTurn
<1> QED
  BY <1>2, <1>5, <1>6, <1>7, <1>8, <1>9 DEF IInv

(* What waits at the receiver when it reads a datagram.                    *)
LEMMA IncomingFacts ==
  ASSUME IInv, ~ packet_queued
  PROVE  LET l == incoming_reliables
         IN /\ l \in Seq(Packet) /\ InIdxOrder(l)
            /\ \A q \in Packets(l) :
                 /\ q \in Packet /\ q.idx \in Nat /\ q.seqnum = Num(q.idx)
                 /\ taken < q.idx /\ q.idx < taken + MaxSpan
                 /\ q \in Settled
<1> DEFINE l == incoming_reliables
<1>1. l \in Seq(Packet) /\ InIdxOrder(l) /\ taken \in Nat
  BY DEF IInv, SenderInv, TypeOK, BuffersSorted
<1>2. ASSUME NEW q \in Packets(l)
      PROVE  /\ q \in Packet /\ q.idx \in Nat /\ q.seqnum = Num(q.idx)
             /\ taken < q.idx /\ q.idx < taken + MaxSpan
             /\ q \in Settled
  <2>1. q \in Packet /\ q.idx \in Nat
    BY TypesOfState, PacketFacts DEF IInv, SenderInv
  <2>2. q \in Settled /\ q.seqnum = Num(q.idx)
    BY DEF IInv, Numbered, Settled, Sent
  <2>3. taken <= q.idx /\ q.idx < taken + MaxSpan /\ q.idx # taken
    BY DEF IInv, WaitsItsTurn
  <2> QED
    BY <1>1, <2>1, <2>2, <2>3
<1> QED
  BY <1>1, <1>2

(* A packet of the number of one that waits is that packet.                *)
LEMMA NoCorruption ==
  ASSUME CircleIsWide, IInv, ~ packet_queued, NEW p \in wire, Fresh(p), taken <= p.idx
  PROVE  ~ Corrupts(incoming_reliables, p, next_incoming_seqnum)
<1> DEFINE l == incoming_reliables
<1> SUFFICES ASSUME Corrupts(l, p, next_incoming_seqnum) PROVE FALSE
  OBVIOUS
<1>1. /\ p \in Packet /\ p.idx \in Nat /\ p.seqnum = Num(p.idx) /\ p \in Settled
      /\ taken \in Nat /\ p.idx < taken + MaxSpan /\ next_incoming_seqnum \in SeqNums
  BY NumberRead DEF Settled, Sent
<1>2. /\ l \in Seq(Packet)
      /\ \A q \in Packets(l) : /\ q \in Packet /\ q.idx \in Nat /\ q.seqnum = Num(q.idx)
                               /\ taken < q.idx /\ q.idx < taken + MaxSpan
                               /\ q \in Settled
  BY IncomingFacts
<1>3. ScanStop(l, p.seqnum, next_incoming_seqnum) \in 1 .. Len(l) + 1
  BY <1>1, <1>2, ScanStopFacts, PacketFacts
<1>4. PICK i \in DOMAIN l : l[i].seqnum = p.seqnum /\ l[i] # p
  BY <1>2, <1>3 DEF Corrupts, Duplicate
<1>5. l[i] \in Packets(l)
  BY DEF Packets
<1> DEFINE q == l[i]
<1> HIDE DEF q
<1>6. /\ q \in Settled /\ q.idx \in Int /\ Num(q.idx) = Num(p.idx) /\ p.idx \in Int
      /\ q.idx - p.idx <= SEQNUM_MAX /\ p.idx - q.idx <= SEQNUM_MAX
  <2>1. /\ q \in Settled /\ q.idx \in Nat /\ q.seqnum = Num(q.idx)
        /\ taken < q.idx /\ q.idx < taken + MaxSpan
    BY <1>2, <1>5 DEF q
  <2>2. q.seqnum = p.seqnum
    BY <1>4 DEF q
  <2> QED
    BY <1>1, <2>1, <2>2, WideFacts, CircleSize
<1>7. q.idx = p.idx
  BY <1>6, NumFacts
<1>8. q = p
  BY <1>1, <1>6, <1>7 DEF IInv, OneOfEach
<1> QED
  BY <1>4, <1>8 DEF q

LEMMA ReceivePacketStep ==
  ASSUME CircleIsWide, IInv, SenderInv', NEW p \in wire, ReceivePacket(p)
  PROVE  IInv'
<1> DEFINE l == incoming_reliables
<1>1. /\ ~ packet_queued /\ Fresh(p) /\ packet_queued' = TRUE
      /\ UNCHANGED <<pc, sendVars, wire>> /\ p \in Sent /\ p \in Settled
  BY DEF ReceivePacket, ReceiveExpected, ReceiveEarly, ReceiveFuture, ReceiveOld, ReadDatagram,
     Sent, Settled
<1>2. /\ p \in Packet /\ p.idx \in Nat /\ p.seqnum = Num(p.idx) /\ p.idx < Cut
      /\ taken \in Nat /\ p.idx < taken + MaxSpan
      /\ InReceiveWindow(p) <=> taken <= p.idx
      /\ p.seqnum = next_incoming_seqnum <=> p.idx = taken
      /\ next_incoming_seqnum = Num(taken) /\ next_incoming_seqnum \in SeqNums
  BY <1>1, NumberRead
<1>3. /\ l \in Seq(Packet) /\ InIdxOrder(l)
      /\ \A q \in Packets(l) : /\ q \in Packet /\ q.idx \in Nat /\ q.seqnum = Num(q.idx)
                               /\ taken < q.idx /\ q.idx < taken + MaxSpan
                               /\ q \in Settled
  BY <1>1, IncomingFacts
<1>4. CASE ReceiveExpected(p)
  <2>1. Take(p) /\ acks' \subseteq acks \union {Ack(p)} /\ p.idx = taken
    BY <1>2, <1>4 DEF ReceiveExpected
  <2>2. l' = l
    <3>1. CASE l = <<>>
      BY <1>4, <3>1 DEF ReceiveExpected
    <3>2. CASE l # <<>>
      <4>1. Head(l).seqnum = next_incoming_seqnum => Head(l).idx = taken
        BY <3>2, HeadOfIncoming
      <4>2. taken < Head(l).idx /\ Head(l).idx \in Nat
        BY <1>3, <3>2, HeadOfIncoming
      <4>3. Head(l).seqnum # p.seqnum
        BY <1>2, <2>1, <4>1, <4>2
      <4> QED
        BY <1>4, <4>3 DEF ReceiveExpected
    <3> QED
      BY <3>1, <3>2
  <2>3. InIdxOrder(l') /\ Packets(l') = {q \in Packets(l) : q.idx # taken}
    BY <1>2, <1>3, <2>2
  <2> QED
    BY <1>1, <2>1, <2>3, TakeStep
<1>5. CASE ReceiveEarly(p)
  <2>1. /\ taken <= p.idx /\ p.idx # taken /\ acks' = acks \union {Ack(p)}
    BY <1>2, <1>5 DEF ReceiveEarly
  <2>2. ~ Corrupts(l, p, next_incoming_seqnum)
    BY <1>1, <1>2, <2>1, NoCorruption
  <2>3. /\ l' = insert(l, p, Num(taken))
        /\ UNCHANGED <<next_incoming_seqnum, delivered, taken>>
    BY <1>2, <1>5, <2>2 DEF ReceiveEarly
  <2>4. /\ InIdxOrder(l')
        /\ (\E q \in Packets(l) : q.idx = p.idx) => l' = l
        /\ (\A q \in Packets(l) : q.idx # p.idx) => Packets(l') = Packets(l) \union {p}
    <3>1. Near(l, taken, MAX_RELIABLE_WINDOW_SIZE)
      <4> SUFFICES ASSUME NEW q \in Packets(l)
                   PROVE  /\ q.seqnum = Num(q.idx) /\ taken <= q.idx
                          /\ q.idx < taken + MAX_RELIABLE_WINDOW_SIZE
        BY DEF Near
      <4>1. q.idx \in Nat /\ q.seqnum = Num(q.idx) /\ taken < q.idx /\ q.idx < taken + MaxSpan
        BY <1>3
      <4> QED
        BY <1>2, <4>1, WideFacts
    <3>2. /\ taken \in Int /\ taken < p.idx /\ p.idx < taken + MAX_RELIABLE_WINDOW_SIZE
      BY <1>2, <2>1, WideFacts
    <3>3. p \in Packet /\ p.seqnum = Num(p.idx) /\ l \in Seq(Packet) /\ InIdxOrder(l)
      BY <1>2, <1>3
    <3> HIDE DEF l
    <3> QED
      BY <2>3, <3>1, <3>2, <3>3, InsertByIdx
  <2>5. Packets(l') = Packets(l) \union {p}
    <3>1. CASE \E q \in Packets(l) : q.idx = p.idx
      <4>1. PICK q \in Packets(l) : q.idx = p.idx
        BY <3>1
      <4>2. q = p
        BY <1>1, <1>3, <4>1 DEF IInv, OneOfEach
      <4> QED
        BY <2>4, <3>1, <4>1, <4>2
    <3>2. CASE \A q \in Packets(l) : q.idx # p.idx
      BY <2>4, <3>2
    <3> QED
      BY <3>1, <3>2
  <2> QED
    BY <1>1, <1>2, <2>1, <2>3, <2>4, <2>5, KeepStep
<1>6. CASE ReceiveFuture(p)
  BY <1>1, <1>3, <1>6, KeepStep DEF ReceiveFuture
<1>7. CASE ReceiveOld(p)
  <2>1. p.idx < taken
    BY <1>2, <1>7 DEF ReceiveOld
  <2>2. /\ UNCHANGED <<next_incoming_seqnum, incoming_reliables, delivered, taken>>
        /\ acks' = acks \union {Ack(p)}
    BY <1>7 DEF ReceiveOld
  <2> QED
    BY <1>1, <1>3, <2>1, <2>2, KeepStep
<1> QED
  BY <1>4, <1>5, <1>6, <1>7 DEF ReceivePacket

-----------------------------------------------------------------------------
(* The invariant, and what follows from it.                                *)

LEMMA InitInvariant == Init => IInv
<1> SUFFICES ASSUME Init PROVE IInv
  OBVIOUS
<1>1. SenderInv
  BY SenderInit
<1>2. Len(building.packets) = 0 /\ Len(<<>>) = 0 /\ Packets(<<>>) = {} /\ DOMAIN <<>> = {}
  BY DEF Init, NotBuilding, Packets
<1>3. Cut = 0 /\ Uncut = 1
  BY <1>2 DEF Init, Cut, Uncut
<1>4. Sent = {} /\ Settled = {} /\ Kept = {}
  BY <1>2 DEF Init, Sent, Settled, Kept
<1>5. next_incoming_seqnum = Num(taken)
  BY <1>1 DEF Init, SenderInv
<1>6. Numbered /\ OneOfEach /\ PiecesInOrder /\ PiecesAreDue
  BY <1>3, <1>4, <1>5 DEF Init, Numbered, OneOfEach, PiecesInOrder, PiecesAreDue
<1>7. PiecesAreKept /\ NumbersAreKept
  <2>1. 0 .. 0 - 1 = {} /\ 0 + 1 .. 1 - 1 = {} /\ 0 < 1
    OBVIOUS
  <2> QED
    BY <1>2, <1>3, <1>4, <2>1 DEF Init, PiecesAreKept, NumbersAreKept
<1>8. QueuedAreUnsent /\ AckedIsKept /\ BuffersSorted /\ WaitsItsTurn
  BY <1>2 DEF Init, QueuedAreUnsent, AckedIsKept, BuffersSorted, WaitsItsTurn, InIdxOrder
<1>9. SpanIsBounded
  <2>1. 0 <= QueueLimit + MaxCommandPackets + 0
    BY SpanFacts, ConstantFacts
  <2> QED
    BY <1>2, <2>1 DEF Init, SpanIsBounded
<1> QED
  BY <1>1, <1>6, <1>7, <1>8, <1>9 DEF IInv

LEMMA StepInvariant ==
  ASSUME CircleIsWide, IInv, [Next \/ Loss]_vars
  PROVE  IInv'
<1>1. SenderInv'
  BY SenderStep DEF IInv
<1>2. CASE SendThread
  BY <1>1, <1>2, QuietSteps, RawSendAsPacketStep, RunCommandQueuesStep,
     PutReliableSendCommandStep, TakeNextSeqnumStep, QueuePacketsStep,
     PutBackSequenceNumbersStep, SendQueuedStep DEF SendThread
<1>3. CASE \E a \in acks : ReceiveAck(a)
  BY <1>1, <1>3, ReceiveAckStep
<1>4. CASE \E p \in wire : ReceivePacket(p)
  BY <1>1, <1>4, ReceivePacketStep
<1>5. CASE Unbuffer
  BY <1>1, <1>5, UnbufferStep
<1>6. CASE Loss \/ UNCHANGED vars
  BY <1>1, <1>6, QuietSteps
<1> QED
  BY <1>2, <1>3, <1>4, <1>5, <1>6 DEF Next

(* IInv is an invariant of the channel, with whatever the network loses.   *)
THEOREM SpecInvariant ==
  ASSUME CircleIsWide
  PROVE  LossySpec => []IInv
<1>1. IInv /\ [Next \/ Loss]_vars => IInv'
  BY StepInvariant
<1> QED
  BY <1>1, InitInvariant, PTL DEF LossySpec

(* An acknowledged packet has been processed or is kept by the receiver,   *)
(* so that the sender may forget it (sendAck before insert in              *)
(* handlePacketType_Reliable).                                             *)
THEOREM SpecAckedIsKept ==
  ASSUME CircleIsWide
  PROVE  LossySpec => []AckedIsKept
<1>1. IInv => AckedIsKept
  BY DEF IInv
<1> QED
  BY <1>1, SpecInvariant, PTL

LEMMA BuildingIdx ==
  ASSUME IInv, NEW k \in DOMAIN building.packets
  PROVE  /\ building.packets[k].idx = Cut + k - 1 /\ k \in 1 .. Len(building.packets)
         /\ building.packets \in Seq(Packet) /\ pc = "build"
<1>1. building.packets \in Seq(Packet) /\ pc = "build"
  BY DEF IInv, SenderInv, TypeOK, BuildingIsNew, NotBuilding
<1>2. building.packets[k] =
        [idx |-> Cut + k - 1, seqnum |-> Num(Cut + k - 1),
         payload |-> building.command.first + k - 1]
  BY <1>1 DEF IInv, SenderInv, BuildingIsNew
<1>3. building.packets[k].idx = Cut + k - 1
  BY <1>2
<1> QED
  BY <1>1, <1>3

(* Every number given out and not consumed is that of a packet one of the  *)
(* two sides still has (getOutgoingSequenceNumber, rawSendAsPacket).       *)
THEOREM SpecNothingLost ==
  ASSUME CircleIsWide
  PROVE  LossySpec => []NothingLost
<1>1. IInv => NothingLost
  <2> SUFFICES ASSUME IInv, NEW i \in taken .. given - 1
               PROVE  \E p \in Held \union Packets(incoming_reliables) : p.idx = i
    BY DEF NothingLost
  <2>1. /\ Cut \in Nat /\ given \in Nat /\ taken \in Nat /\ i \in Int /\ taken <= i /\ i < given
        /\ Cut = given - Len(building.packets) /\ Len(building.packets) \in Nat
        /\ pc # "build" => Cut = given
    BY CutFacts DEF IInv
  <2>2. CASE i < Cut
    <3>1. i \in taken .. Cut - 1
      BY <2>1, <2>2
    <3> QED
      BY <3>1 DEF IInv, NumbersAreKept, Kept, Held
  <2>3. CASE Cut <= i
    <3> DEFINE b == building.packets
               k == i - Cut + 1
    <3>1. k \in Int /\ 1 <= k /\ k <= Len(b) /\ Cut + (k - 1) = i
      <4>1. /\ Cut \in Int /\ given \in Int /\ Len(b) \in Int /\ i \in Int
            /\ Cut = given - Len(b) /\ Cut <= i /\ i < given /\ k = i - Cut + 1
        BY <2>1, <2>3
      <4> HIDE DEF b, k
      <4> QED
        BY <4>1
    <3>2. b \in Seq(Packet)
      BY DEF IInv, SenderInv, TypeOK
    <3> HIDE DEF k
    <3>3. k \in DOMAIN b
      BY <3>1, <3>2
    <3>4. b[k].idx = i
      BY <3>1, <3>3, BuildingIdx
    <3>5. b[k] \in Packets(b)
      BY <3>3 DEF Packets
    <3> QED
      BY <3>4, <3>5 DEF Held
  <2> QED
    BY <2>1, <2>2, <2>3
<1> QED
  BY <1>1, SpecInvariant, PTL

(* The lists stay in the order the numbers were given out, and what the    *)
(* sender holds spans less than half the circle (insert, popSeqnum).       *)
THEOREM SpecBuffersInSpan ==
  ASSUME CircleIsWide
  PROVE  LossySpec => []BuffersInSpan
<1>1. IInv => BuffersInSpan
  <2> SUFFICES ASSUME IInv, NEW p \in Held
               PROVE  given - p.idx < MAX_RELIABLE_WINDOW_SIZE
    BY DEF IInv, BuffersInSpan, SpanBound
  <2>1. given \in Nat /\ MaxSpan \in Nat /\ MAX_RELIABLE_WINDOW_SIZE \in Nat
        /\ MaxSpan < MAX_RELIABLE_WINDOW_SIZE
    BY WideFacts, CutFacts DEF IInv
  <2>2. p.idx \in Nat /\ given - p.idx <= MaxSpan
    <3>1. CASE p \in Packets(outgoing_reliables_sent) \union Packets(queued_reliables)
      BY <3>1, HeldSpan, TypesOfState, PacketFacts DEF IInv, SenderInv
    <3>2. CASE p \in Packets(building.packets)
      <4> DEFINE b == building.packets
      <4>1. PICK k \in DOMAIN b : p = b[k]
        BY <3>2 DEF Packets
      <4>2. p.idx = Cut + k - 1 /\ k \in 1 .. Len(b)
        BY <4>1, BuildingIdx
      <4>3. Cut \in Nat /\ Cut = given - Len(b) /\ Len(b) \in Nat /\ Len(b) <= MaxSpan
        BY CutFacts, HeldSpan DEF IInv
      <4> HIDE DEF b
      <4> QED
        BY <2>1, <4>2, <4>3
    <3> QED
      BY <3>1, <3>2 DEF Held
  <2> QED
    BY <2>1, <2>2
<1> QED
  BY <1>1, SpecInvariant, PTL

(* The channel implements OrderedDelivery: the application receives what   *)
(* was submitted, in order, each piece once.                               *)
THEOREM SpecDeliversInOrder ==
  ASSUME CircleIsWide
  PROVE  LossySpec => DeliversInOrder
<1>1. Init => Promise!Init
  BY DEF Init, Promise!Init
<1>2. ASSUME IInv, NEW p \in Settled, p.idx = taken, Take(p), submitted' = submitted
      PROVE  [Promise!Submit \/ Promise!Deliver]_(Promise!odVars)
  <2>1. CASE p.payload = PING
    BY <1>2, <2>1 DEF Take, Promise!odVars
  <2>2. CASE p.payload # PING
    <3>1. p.payload = Len(delivered) + 1
      BY <1>2, <2>2, NextPiece
    <3>2. p.payload < Uncut /\ Uncut <= submitted + 1 /\ submitted \in Nat /\ Uncut \in Nat
      BY <1>2, <2>2, UncutFacts DEF IInv, PiecesAreDue
    <3>3. Len(delivered) \in Nat
      BY <1>2 DEF IInv, SenderInv, TypeOK
    <3> QED
      BY <1>2, <2>2, <3>1, <3>2, <3>3 DEF Take, Promise!Deliver
  <2> QED
    BY <2>1, <2>2
<1>3. ASSUME IInv, NEW p \in wire, ReceivePacket(p)
      PROVE  [Promise!Submit \/ Promise!Deliver]_(Promise!odVars)
  <2>1. ~ packet_queued /\ Fresh(p) /\ submitted' = submitted /\ p \in Settled
    BY <1>3 DEF ReceivePacket, ReceiveExpected, ReceiveEarly, ReceiveFuture, ReceiveOld,
       ReadDatagram, sendVars, Settled, Sent
  <2>2. CASE ReceiveExpected(p)
    <3>1. Take(p) /\ p.idx = taken
      BY <1>3, <2>1, <2>2, NumberRead DEF ReceiveExpected
    <3> QED
      BY <1>2, <1>3, <2>1, <3>1
  <2>3. CASE ReceiveEarly(p)
    <3>1. ~ Corrupts(incoming_reliables, p, next_incoming_seqnum)
      BY <1>3, <2>1, <2>3, NumberRead, NoCorruption DEF ReceiveEarly
    <3> QED
      BY <2>1, <2>3, <3>1 DEF ReceiveEarly, Promise!odVars
  <2>4. CASE ReceiveFuture(p) \/ ReceiveOld(p)
    BY <2>1, <2>4 DEF ReceiveFuture, ReceiveOld, Promise!odVars
  <2> QED
    BY <1>3, <2>2, <2>3, <2>4 DEF ReceivePacket
<1>4. ASSUME IInv, Unbuffer
      PROVE  [Promise!Submit \/ Promise!Deliver]_(Promise!odVars)
  <2>1. submitted' = submitted
    BY <1>4 DEF Unbuffer, sendVars
  <2>2. CASE /\ incoming_reliables # <<>>
             /\ Head(incoming_reliables).seqnum = next_incoming_seqnum
    <3>1. Take(Head(incoming_reliables))
      BY <1>4, <2>2 DEF Unbuffer
    <3>2. Head(incoming_reliables) \in Settled /\ Head(incoming_reliables).idx = taken
      BY <1>4, <2>2, HeadOfIncoming DEF Settled
    <3> QED
      BY <1>2, <1>4, <2>1, <3>1, <3>2
  <2>3. CASE ~ /\ incoming_reliables # <<>>
               /\ Head(incoming_reliables).seqnum = next_incoming_seqnum
    BY <1>4, <2>1, <2>3 DEF Unbuffer, Promise!odVars
  <2> QED
    BY <2>2, <2>3
<1>5. ASSUME IInv, SendThread
      PROVE  [Promise!Submit \/ Promise!Deliver]_(Promise!odVars)
  <2>1. delivered' = delivered
    BY <1>5 DEF SendThread, RunTimeouts, RawSendAsPacket, NoPing, RunCommandQueues,
       PutReliableSendCommand, TakeNextSeqnum, QueuePackets, PutBackSequenceNumbers,
       StartSending, SendQueued, EndSending, recvVars
  <2>2. CASE \E size \in 1 .. MaxCommandPackets : PutReliableSendCommand(size)
    <3>1. PICK size \in 1 .. MaxCommandPackets : PutReliableSendCommand(size)
      BY <2>2
    <3>2. submitted' = submitted + size /\ submitted \in Nat /\ size \in Nat /\ size >= 1
      BY <1>5, <3>1, ConstantFacts DEF PutReliableSendCommand, IInv, SenderInv, TypeOK
    <3> QED
      BY <2>1, <3>2 DEF Promise!Submit
  <2>3. CASE ~ \E size \in 1 .. MaxCommandPackets : PutReliableSendCommand(size)
    <3>1. submitted' = submitted
      BY <1>5, <2>3 DEF SendThread, RunTimeouts, RawSendAsPacket, NoPing, RunCommandQueues,
         TakeNextSeqnum, QueuePackets, PutBackSequenceNumbers, StartSending, SendQueued,
         EndSending, sendVars
    <3> QED
      BY <2>1, <3>1 DEF Promise!odVars
  <2> QED
    BY <2>2, <2>3
<1>6. IInv /\ [Next \/ Loss]_vars
        => [Promise!Submit \/ Promise!Deliver]_(Promise!odVars)
  <2> SUFFICES ASSUME IInv, [Next \/ Loss]_vars
               PROVE  [Promise!Submit \/ Promise!Deliver]_(Promise!odVars)
    OBVIOUS
  <2>1. CASE \E a \in acks : ReceiveAck(a)
    BY <2>1 DEF ReceiveAck, recvVars, Promise!odVars
  <2>2. CASE Loss \/ UNCHANGED vars
    BY <2>2 DEF Loss, LosePacket, LoseAck, vars, sendVars, recvVars, Promise!odVars
  <2> QED
    BY <1>3, <1>4, <1>5, <2>1, <2>2 DEF Next
<1> QED
  BY <1>1, <1>6, SpecInvariant, PTL DEF LossySpec, DeliversInOrder, Promise!Spec
=============================================================================

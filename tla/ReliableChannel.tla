--------------------------- MODULE ReliableChannel ---------------------------
(***************************************************************************)
(* One direction of one channel between two peers that stay connected: the *)
(* sending side's Channel as its ConnectionSendThread drives it, the       *)
(* acknowledgements its ConnectionReceiveThread takes, the network between *)
(* the two, and the receiving side's Channel (network/connection.cpp,      *)
(* network/connectionthreads.cpp).                                         *)
(*                                                                         *)
(* The application's bytes are cut into packets; a packet's payload is     *)
(* here the position of that piece in what the application submitted       *)
(* (1, 2, ...), and 0 in the reliable pings the connection sends itself.   *)
(* A packet also carries idx, the number of sequence numbers given out     *)
(* before its own: it is there for the properties and for the assumption   *)
(* on the network's delays only, no decision of the code reads it.         *)
(***************************************************************************)
EXTENDS ReliablePacketBuffer, FiniteSets

CONSTANTS
  SEQNUM_INITIAL,           (* the first sequence number of a channel      *)
  MIN_RELIABLE_WINDOW_SIZE, (* the bounds of window_size; the code's upper *)
  MaxWindowSize,            (* one is MAX_RELIABLE_WINDOW_SIZE             *)
  WindowSteps,              (* by how much UpdateTimers moves window_size  *)
  max_packets_requeued,     (* RunCommandQueues waits above this queue     *)
  MaxCommandPackets,        (* the longest command, in packets             *)
  MaxQuota,                 (* packets a peer may send in one iteration    *)
  MaxPayloads,              (* bound: pieces the application submits       *)
  MaxPings                  (* bound: reliable pings sent                  *)

ASSUME ReliableChannelAssumption ==
  /\ SEQNUM_INITIAL \in SeqNums
  /\ MIN_RELIABLE_WINDOW_SIZE \in Nat \ {0}
  /\ MaxWindowSize \in MIN_RELIABLE_WINDOW_SIZE .. MAX_RELIABLE_WINDOW_SIZE
  /\ WindowSteps \subseteq Int
  /\ max_packets_requeued \in Nat
  /\ MaxCommandPackets \in Nat \ {0}
  /\ MaxQuota \in Nat /\ MaxPayloads \in Nat /\ MaxPings \in Nat

VARIABLES
  pc,                      (* where the send thread is in its loop         *)
  window_size,
  next_outgoing_seqnum,
  queued_commands,         (* commands not yet cut into packets            *)
  building,                (* the command being cut, its packets so far    *)
  queued_reliables,        (* packets waiting for room in the window       *)
  outgoing_reliables_sent, (* packets sent and not acknowledged            *)
  quota,                   (* m_increment_packets_remaining                *)
  wire,                    (* data packets the network may still deliver   *)
  acks,                    (* acknowledgements it may still deliver        *)
  next_incoming_seqnum,
  incoming_reliables,      (* packets that arrived early                   *)
  packet_queued,           (* look into incoming_reliables before reading  *)
  submitted,               (* pieces the application submitted             *)
  delivered,               (* pieces handed to the receiving application   *)
  given,                   (* sequence numbers given out                   *)
  taken,                   (* sequence numbers consumed by the receiver    *)
  pings                    (* reliable pings sent                          *)

sendVars == <<window_size, next_outgoing_seqnum, queued_commands, building,
              queued_reliables, outgoing_reliables_sent, quota, submitted,
              given, pings>>
recvVars == <<next_incoming_seqnum, incoming_reliables, packet_queued,
              delivered, taken>>
vars == <<pc, sendVars, wire, acks, recvVars>>

PING == 0

Payloads == 0 .. MaxPayloads
Packet   == [idx : Nat, seqnum : SeqNums, payload : Payloads]
Command  == [first : Nat \ {0}, size : Nat \ {0}]
NoCommand == [first |-> 0, size |-> 0]
NotBuilding == [command |-> NoCommand, packets |-> <<>>, requeue |-> FALSE]

Init ==
  /\ pc = "resend"
  /\ window_size = MIN_RELIABLE_WINDOW_SIZE
  /\ next_outgoing_seqnum = SEQNUM_INITIAL
  /\ queued_commands = <<>>
  /\ building = NotBuilding
  /\ queued_reliables = <<>>
  /\ outgoing_reliables_sent = <<>>
  /\ quota = 0
  /\ wire = {}
  /\ acks = {}
  /\ next_incoming_seqnum = SEQNUM_INITIAL
  /\ incoming_reliables = <<>>
  /\ packet_queued = FALSE
  /\ submitted = 0
  /\ delivered = <<>>
  /\ given = 0
  /\ taken = 0
  /\ pings = 0

-----------------------------------------------------------------------------
(* Sequence numbers of the sending side.                                   *)

(* getOutgoingSequenceNumber gives one out unless the oldest packet in the *)
(* resend buffer is too far behind; with an empty buffer it does not ask.  *)
SeqnumAvailable ==
  outgoing_reliables_sent # <<>> =>
     LET lowest == Head(outgoing_reliables_sent).seqnum
     IN IF lowest < next_outgoing_seqnum
        THEN U16(next_outgoing_seqnum - lowest) <= window_size
        ELSE next_outgoing_seqnum + U16(SEQNUM_MAX - lowest) <= window_size

TakeSeqnum ==
  /\ next_outgoing_seqnum' = U16(next_outgoing_seqnum + 1)
  /\ given' = given + 1

NewPacket(payload) ==
  [idx |-> given, seqnum |-> next_outgoing_seqnum, payload |-> payload]

(* The base sendAsPacketReliable gives insert: (next - 0x8000) % 0x8001    *)
(* with C++'s remainder, which leaves the negative values alone, cast to   *)
(* u16.  next is next_outgoing_seqnum at the time of the call.             *)
ResendBase(next) == U16(next - MAX_RELIABLE_WINDOW_SIZE)

(* sendAsPacketReliable: keep the packet for resending and send it.  insert *)
(* may refuse it without a word: it is sent all the same.                   *)
SendAsPacketReliable(p, next) ==
  /\ outgoing_reliables_sent' =
       insert(outgoing_reliables_sent, p, ResendBase(next))
  /\ wire' = wire \union {p}

-----------------------------------------------------------------------------
(* One iteration of ConnectionSendThread::run.                             *)

(* UpdateTimers moves window_size by what it measured in the last second,  *)
(* within its bounds.                                                      *)
UpdateTimers ==
  \/ UNCHANGED window_size
  \/ \E d \in WindowSteps :
       window_size' = IF window_size + d < MIN_RELIABLE_WINDOW_SIZE
                      THEN MIN_RELIABLE_WINDOW_SIZE
                      ELSE IF window_size + d > MaxWindowSize
                           THEN MaxWindowSize ELSE window_size + d

(* runTimeouts, first part: whatever timed out is sent again (getTimedOuts *)
(* goes by clocks and a quota, so any set).                                *)
RunTimeouts(timed_outs) ==
  /\ pc = "resend"
  /\ timed_outs \subseteq Packets(outgoing_reliables_sent)
  /\ wire' = wire \union timed_outs
  /\ UpdateTimers
  /\ pc' = "ping"
  /\ UNCHANGED <<next_outgoing_seqnum, queued_commands, building,
                 queued_reliables, outgoing_reliables_sent, quota, submitted,
                 given, pings, acks, recvVars>>

(* runTimeouts, Ping: a reliable packet of the connection's own, through   *)
(* rawSendAsPacket.  It is sent at once when the resend buffer has room,   *)
(* ahead of the packets in queued_reliables.                               *)
RawSendAsPacket ==
  /\ pc = "ping"
  /\ pings < MaxPings
  /\ SeqnumAvailable
  /\ TakeSeqnum
  /\ IF Len(outgoing_reliables_sent) < window_size
     THEN /\ SendAsPacketReliable(NewPacket(PING), next_outgoing_seqnum')
          /\ UNCHANGED queued_reliables
     ELSE /\ queued_reliables' = Append(queued_reliables, NewPacket(PING))
          /\ UNCHANGED <<outgoing_reliables_sent, wire>>
  /\ pings' = pings + 1
  /\ pc' = "run_queue"
  /\ UNCHANGED <<window_size, queued_commands, building, quota, submitted,
                 acks, recvVars>>

(* The ping timer has not run out, or no sequence number is left for it.   *)
NoPing ==
  /\ pc = "ping"
  /\ pc' = "run_queue"
  /\ UNCHANGED <<sendVars, wire, acks, recvVars>>

(* runTimeouts, RunCommandQueues: the first queued command is tried again. *)
RunCommandQueues ==
  /\ pc = "run_queue"
  /\ IF /\ queued_commands # <<>>
        /\ Len(queued_reliables) < max_packets_requeued
     THEN /\ building' = [command |-> Head(queued_commands),
                          packets |-> <<>>, requeue |-> TRUE]
          /\ pc' = "build"
     ELSE /\ pc' = "commands"
          /\ UNCHANGED building
  /\ UNCHANGED <<window_size, next_outgoing_seqnum, queued_commands,
                 queued_reliables, outgoing_reliables_sent, quota, submitted,
                 given, pings, wire, acks, recvVars>>

(* PutReliableSendCommand cuts a command at once when none waits before it *)
(* and queued_reliables is short; the variant forgets the first condition. *)
MayProcessNow_Overtaking == Len(queued_reliables) < window_size \div 2

MayProcessNow == /\ queued_commands = <<>>
                 /\ Len(queued_reliables) < window_size \div 2

(* A command popped from m_command_queue: PutReliableSendCommand.  The     *)
(* order in which the application submits is the order of that queue.      *)
PutReliableSendCommand(size) ==
  LET c == [first |-> submitted + 1, size |-> size]
  IN /\ pc = "commands"
     /\ submitted + size <= MaxPayloads
     /\ submitted' = submitted + size
     /\ IF MayProcessNow
        THEN /\ building' = [command |-> c, packets |-> <<>>,
                             requeue |-> FALSE]
             /\ pc' = "build"
             /\ UNCHANGED queued_commands
        ELSE /\ queued_commands' = Append(queued_commands, c)
             /\ UNCHANGED <<pc, building>>
     /\ UNCHANGED <<window_size, next_outgoing_seqnum, queued_reliables,
                    outgoing_reliables_sent, quota, given, pings, wire, acks,
                    recvVars>>

(* processReliableSendCommand takes one number after the other; between    *)
(* two of them the receive thread may empty the resend buffer.             *)
TakeNextSeqnum ==
  LET got == Len(building.packets)
  IN /\ pc = "build"
     /\ got < building.command.size
     /\ SeqnumAvailable
     /\ TakeSeqnum
     /\ building' = [building EXCEPT !.packets =
                       Append(@, NewPacket(building.command.first + got))]
     /\ UNCHANGED <<pc, window_size, queued_commands, queued_reliables,
                    outgoing_reliables_sent, quota, submitted, pings, wire,
                    acks, recvVars>>

(* All the numbers are there: the packets wait for their turn.             *)
QueuePackets ==
  /\ pc = "build"
  /\ Len(building.packets) = building.command.size
  /\ queued_reliables' = queued_reliables \o building.packets
  /\ queued_commands' = IF building.requeue THEN Tail(queued_commands)
                                            ELSE queued_commands
  /\ building' = NotBuilding
  /\ pc' = "commands"
  /\ UNCHANGED <<window_size, next_outgoing_seqnum, outgoing_reliables_sent,
                 quota, submitted, given, pings, wire, acks, recvVars>>

(* putBackSequenceNumber takes back only the number before the next one;   *)
(* the variant forgets the wrap around.                                    *)
CanPutBack_NoWrap(seqnum, next) == seqnum + 1 = next

CanPutBack(seqnum, next) == U16(seqnum + 1) = next

(* The numbers ran out: those taken are put back, the last one first; one  *)
(* that cannot be ends the program (FATAL_ERROR_IF).                       *)
PutBackSequenceNumbers ==
  LET got == Len(building.packets)
      initial == building.packets[1].seqnum
      next(k) == IF k = got - 1 THEN next_outgoing_seqnum
                                ELSE U16(initial + k + 1)
  IN /\ pc = "build"
     /\ got < building.command.size
     /\ ~ SeqnumAvailable
     /\ IF got = 0
        THEN UNCHANGED <<next_outgoing_seqnum, given>>
        ELSE /\ next_outgoing_seqnum' = initial
             /\ given' = given - got
     /\ queued_commands' = IF building.requeue THEN queued_commands
                           ELSE Append(queued_commands, building.command)
     /\ building' = NotBuilding
     /\ pc' = IF \A k \in 0 .. got - 1 : CanPutBack(U16(initial + k), next(k))
              THEN "commands" ELSE "fatal"
     /\ UNCHANGED <<window_size, queued_reliables, outgoing_reliables_sent,
                    quota, submitted, pings, wire, acks, recvVars>>

(* sendPackets: the iteration's packets, less the resent ones, shared out  *)
(* among the peers; none may be left for this one.                         *)
StartSending ==
  /\ pc = "commands"
  /\ quota' \in 0 .. MaxQuota
  /\ pc' = "send"
  /\ UNCHANGED <<window_size, next_outgoing_seqnum, queued_commands, building,
                 queued_reliables, outgoing_reliables_sent, submitted, given,
                 pings, wire, acks, recvVars>>

CanSend == /\ queued_reliables # <<>>
           /\ Len(outgoing_reliables_sent) < window_size
           /\ quota > 0

SendQueued ==
  /\ pc = "send"
  /\ CanSend
  /\ SendAsPacketReliable(Head(queued_reliables), next_outgoing_seqnum)
  /\ queued_reliables' = Tail(queued_reliables)
  /\ quota' = quota - 1
  /\ UNCHANGED <<pc, window_size, next_outgoing_seqnum, queued_commands,
                 building, submitted, given, pings, acks, recvVars>>

EndSending ==
  /\ pc = "send"
  /\ ~ CanSend
  /\ pc' = "resend"
  /\ UNCHANGED <<sendVars, wire, acks, recvVars>>

-----------------------------------------------------------------------------
(* The receive threads.  A datagram of the network may be delivered as     *)
(* often as the network likes until it is lost.  It is assumed not to get  *)
(* so old that its number means another one: a packet does not survive     *)
(* half a turn of the numbers the receiver consumes, an acknowledgement a  *)
(* turn of those the sender gives out.                                     *)
Fresh(p) == p.idx + MAX_RELIABLE_WINDOW_SIZE >= taken
FreshAck(a) == a.idx + SEQNUM_MAX >= given

(* The sending side: CONTROLTYPE_ACK.                                      *)
ReceiveAck(a) ==
  /\ FreshAck(a)
  /\ outgoing_reliables_sent' = popSeqnum(outgoing_reliables_sent, a.seqnum)
  /\ UNCHANGED <<pc, window_size, next_outgoing_seqnum, queued_commands,
                 building, queued_reliables, quota, submitted, given, pings,
                 wire, acks, recvVars>>

Ack(p) == [idx |-> p.idx, seqnum |-> p.seqnum]

InReceiveWindow(p) ==
  seqnum_in_window(p.seqnum, next_incoming_seqnum, MAX_RELIABLE_WINDOW_SIZE)

(* The payload of p is processed and its number is consumed.               *)
Take(p) ==
  /\ next_incoming_seqnum' = U16(next_incoming_seqnum + 1)
  /\ taken' = taken + 1
  /\ delivered' = IF p.payload = PING THEN delivered
                                      ELSE Append(delivered, p.payload)

(* receive, first part: with packet_queued, every packet of                *)
(* incoming_reliables whose turn has come (getFromBuffers).                *)
Unbuffer ==
  /\ packet_queued
  /\ IF /\ incoming_reliables # <<>>
        /\ Head(incoming_reliables).seqnum = next_incoming_seqnum
     THEN /\ Take(Head(incoming_reliables))
          /\ incoming_reliables' = Tail(incoming_reliables)
          /\ UNCHANGED packet_queued
     ELSE /\ packet_queued' = FALSE
          /\ UNCHANGED <<next_incoming_seqnum, incoming_reliables, delivered,
                         taken>>
  /\ UNCHANGED <<pc, sendVars, wire, acks>>

(* receive, second part: a datagram off the socket.  The variant does not  *)
(* have the buffer looked at afterwards.                                   *)
ReadDatagram_NoRecheck(p) ==
  /\ ~ packet_queued
  /\ Fresh(p)
  /\ UNCHANGED <<packet_queued, pc, sendVars, wire>>

ReadDatagram(p) ==
  /\ ~ packet_queued
  /\ Fresh(p)
  /\ packet_queued' = TRUE
  /\ UNCHANGED <<pc, sendVars, wire>>

(* handlePacketType_Reliable with the number it waits for.                 *)
ReceiveExpected(p) ==
  /\ ReadDatagram(p)
  /\ InReceiveWindow(p)
  /\ p.seqnum = next_incoming_seqnum
  /\ acks' = acks \union {Ack(p)}
  /\ Take(p)
  /\ incoming_reliables' =
       IF /\ incoming_reliables # <<>>
          /\ Head(incoming_reliables).seqnum = p.seqnum
       THEN Tail(incoming_reliables) ELSE incoming_reliables

(* A later number of the window is acknowledged, then buffered.  One whose *)
(* size contradicts a buffered packet of the same number is processed as   *)
(* if its turn had come (the handler of IncomingDataCorruption falls       *)
(* through; it also orders the peer to be disconnected, which is outside   *)
(* this module); packets of the same size are not told apart.              *)
ReceiveEarly(p) ==
  /\ ReadDatagram(p)
  /\ InReceiveWindow(p)
  /\ p.seqnum # next_incoming_seqnum
  /\ acks' = acks \union {Ack(p)}
  /\ \E same_size \in BOOLEAN :
       IF /\ Corrupts(incoming_reliables, p, next_incoming_seqnum)
          /\ ~ same_size
       THEN /\ Take(p)
            /\ incoming_reliables' =
                 IF Head(incoming_reliables).seqnum = p.seqnum
                 THEN Tail(incoming_reliables) ELSE incoming_reliables
       ELSE /\ incoming_reliables' =
                 insert(incoming_reliables, p, next_incoming_seqnum)
            /\ UNCHANGED <<next_incoming_seqnum, delivered, taken>>

(* A number taken for a future one is dropped without acknowledgement.     *)
ReceiveFuture(p) ==
  /\ ReadDatagram(p)
  /\ ~ InReceiveWindow(p)
  /\ seqnum_higher(p.seqnum, next_incoming_seqnum)
  /\ UNCHANGED <<acks, next_incoming_seqnum, incoming_reliables, delivered,
                 taken>>

(* A number taken for an old one: its acknowledgement must have been lost. *)
ReceiveOld(p) ==
  /\ ReadDatagram(p)
  /\ ~ InReceiveWindow(p)
  /\ ~ seqnum_higher(p.seqnum, next_incoming_seqnum)
  /\ seqnum_higher(next_incoming_seqnum, p.seqnum)
  /\ acks' = acks \union {Ack(p)}
  /\ UNCHANGED <<next_incoming_seqnum, incoming_reliables, delivered, taken>>

(* The network loses a packet or an acknowledgement, or runs out of copies *)
(* of it.  Unbuffer does not look at the wire, so a loss while it runs is  *)
(* one just after: fairness then speaks of packets the receiver could read.*)
LosePacket(p) ==
  /\ ~ packet_queued
  /\ wire' = wire \ {p}
  /\ UNCHANGED <<pc, sendVars, acks, recvVars>>

LoseAck(a) ==
  /\ acks' = acks \ {a}
  /\ UNCHANGED <<pc, sendVars, wire, recvVars>>

-----------------------------------------------------------------------------
SendThread ==
  \/ \E timed_outs \in SUBSET Packets(outgoing_reliables_sent) :
       RunTimeouts(timed_outs)
  \/ RawSendAsPacket
  \/ NoPing
  \/ RunCommandQueues
  \/ \E size \in 1 .. MaxCommandPackets : PutReliableSendCommand(size)
  \/ TakeNextSeqnum
  \/ QueuePackets
  \/ PutBackSequenceNumbers
  \/ StartSending
  \/ SendQueued
  \/ EndSending

ReceivePacket(p) ==
  \/ ReceiveExpected(p)
  \/ ReceiveEarly(p)
  \/ ReceiveFuture(p)
  \/ ReceiveOld(p)

Next ==
  \/ SendThread
  \/ \E a \in acks : ReceiveAck(a)
  \/ \E p \in wire : ReceivePacket(p)
  \/ Unbuffer

Loss ==
  \/ \E p \in wire : LosePacket(p)
  \/ \E a \in acks : LoseAck(a)

(* Losing a datagram is never delivering it: for safety Next has all the   *)
(* behaviours of a lossy network.                                          *)
Spec == Init /\ [][Next]_vars

LossySpec == Init /\ [][Next \/ Loss]_vars

-----------------------------------------------------------------------------
TypeOK ==
  /\ pc \in {"resend", "ping", "run_queue", "commands", "build", "send",
             "fatal"}
  /\ window_size \in MIN_RELIABLE_WINDOW_SIZE .. MaxWindowSize
  /\ next_outgoing_seqnum \in SeqNums /\ next_incoming_seqnum \in SeqNums
  /\ queued_commands \in Seq(Command)
  /\ building \in [command : Command \union {NoCommand},
                   packets : Seq(Packet), requeue : BOOLEAN]
  /\ queued_reliables \in Seq(Packet)
  /\ outgoing_reliables_sent \in Seq(Packet)
  /\ incoming_reliables \in Seq(Packet)
  /\ quota \in 0 .. MaxQuota
  /\ wire \subseteq Packet
  /\ acks \subseteq [idx : Nat, seqnum : SeqNums]
  /\ packet_queued \in BOOLEAN
  /\ submitted \in 0 .. MaxPayloads
  /\ delivered \in Seq(1 .. MaxPayloads)
  /\ given \in Nat /\ taken \in Nat /\ pings \in 0 .. MaxPings

(* The packets the sending side still holds.                               *)
Held == Packets(outgoing_reliables_sent) \union Packets(queued_reliables)
          \union Packets(building.packets)

InIdxOrder(list) ==
  \A i, j \in DOMAIN list : i < j => list[i].idx < list[j].idx

(* The channel keeps the promise of OrderedDelivery: whatever the network  *)
(* loses, repeats or reorders, and however the window limits and requeues  *)
(* commands, the receiving application gets the pieces in order, exactly   *)
(* once (handlePacketType_Reliable, PutReliableSendCommand).               *)
Promise == INSTANCE OrderedDelivery
DeliversInOrder == Promise!Spec

(* An acknowledgement is a receipt: a packet the receiver acknowledges has *)
(* been processed or waits in incoming_reliables.  The sender drops a      *)
(* packet for good on the strength of it, and sendAck runs before insert.  *)
AckedIsKept ==
  \A a \in acks : \/ a.idx < taken
                  \/ \E p \in Packets(incoming_reliables) : p.idx = a.idx

(* Every sequence number given out and not yet consumed by the receiver    *)
(* belongs to a packet one of the two sides still has: no step of the two  *)
(* send paths (rawSendAsPacket, queued_reliables) drops a packet that the  *)
(* receiver then waits for for ever.                                       *)
NothingLost ==
  \A i \in taken .. given - 1 :
    \E p \in Held \union Packets(incoming_reliables) : p.idx = i

(* Both lists stay in the order the numbers were given out, across wrap    *)
(* around and although pings overtake queued packets: the sender measures  *)
(* its window from the first element, the receiver looks only at it.       *)
BuffersSorted ==
  InIdxOrder(outgoing_reliables_sent) /\ InIdxOrder(incoming_reliables)

(* What is held never spans half the circle of sequence numbers, which     *)
(* insert (on sending) and seqnum_in_window (on receiving) rely on.        *)
SpanBound ==
  \A p \in Held : given - p.idx < MAX_RELIABLE_WINDOW_SIZE

BuffersInSpan == BuffersSorted /\ SpanBound

(* "We already have this packet" (handlePacketType_Reliable): what is      *)
(* taken for old, and acknowledged once more, was received.                *)
OldIsReceived ==
  \A p \in wire :
    ~ InReceiveWindow(p) /\ ~ seqnum_higher(p.seqnum, next_incoming_seqnum)
                        /\ seqnum_higher(next_incoming_seqnum, p.seqnum)
      => p.idx < taken

(* The FATAL_ERROR_IF of processReliableSendCommand is never reached.      *)
NoFatalError == pc # "fatal"

-----------------------------------------------------------------------------
(* Liveness.  Both threads run on; a packet that stays in the resend       *)
(* buffer times out and is sent again and again (no set of others can take *)
(* the quota of getTimedOuts for ever), sendPackets has a quota again and  *)
(* again, and a datagram sent again and again arrives (fair loss).         *)
ResendIdx(i) ==
  \E timed_outs \in SUBSET Packets(outgoing_reliables_sent) :
    /\ \E p \in timed_outs : p.idx = i
    /\ RunTimeouts(timed_outs)

ReceiveIdx(i) == \E p \in wire : p.idx = i /\ ReceivePacket(p)
ReceiveAckIdx(i) == \E a \in acks : a.idx = i /\ ReceiveAck(a)

Fairness ==
  /\ WF_vars(SendThread)
  /\ SF_vars(StartSending /\ quota' > 0)
  /\ WF_vars(Unbuffer)
  /\ \A i \in 0 .. MaxPayloads + MaxPings - 1 :
       /\ SF_vars(ResendIdx(i))
       /\ SF_vars(ReceiveIdx(i))
       /\ SF_vars(ReceiveAckIdx(i))

FairSpec == LossySpec /\ Fairness

(* Everything submitted is delivered, whatever is lost on the way: resends *)
(* and repeated acknowledgements of old packets make up for it.            *)
EventuallyDelivered ==
  \A n \in 1 .. MaxPayloads : submitted >= n ~> Len(delivered) >= n

(* The sending side gets rid of what it keeps: no packet stays in the      *)
(* resend buffer, and no command in the queue, for ever.                   *)
EventuallyDrained ==
  []<>(queued_commands = <<>> /\ outgoing_reliables_sent = <<>>)

ChannelDelivers == EventuallyDelivered /\ EventuallyDrained

=============================================================================

--------------------------- MODULE PacketBufferUse ---------------------------
(***************************************************************************)
(* ReliablePacketBuffer by itself, under every sequence of the operations  *)
(* its users perform, from every position on the circle: the receiver      *)
(* inserts beyond the number it waits for and moves that number on; the    *)
(* sender, whose base follows next_outgoing_seqnum, takes out whatever is  *)
(* acknowledged.                                                           *)
(***************************************************************************)
EXTENDS ReliablePacketBuffer

CONSTANTS MaxList   (* bound: packets in the list *)

VARIABLES list, next_expected

bufferVars == <<list, next_expected>>

BufferInit == list = <<>> /\ next_expected \in SeqNums

Insert(s) ==
  /\ Len(list) < MaxList
  /\ list' = insert(list, [seqnum |-> s], next_expected)
  /\ UNCHANGED next_expected

(* The number waited for arrives, or waits at the head of the list.        *)
Advance ==
  /\ next_expected' = U16(next_expected + 1)
  /\ list' = popSeqnum(list, next_expected)

(* An acknowledgement, for any number.                                     *)
Pop(s) ==
  /\ list' = popSeqnum(list, s)
  /\ UNCHANGED next_expected

BufferNext == \/ \E s \in SeqNums : Insert(s) \/ Pop(s)
              \/ Advance

BufferSpec == BufferInit /\ [][BufferNext]_bufferVars

-----------------------------------------------------------------------------
BufferTypeOK == /\ list \in Seq([seqnum : SeqNums])
                /\ next_expected \in SeqNums

(* Any number but the one waited for is either newer or older, never both, *)
(* and a newer one is at most half a circle ahead: what is outside the     *)
(* window is taken for either future or old (handlePacketType_Reliable).   *)
NewerIsOneWay ==
  \A s \in SeqNums \ {next_expected} :
    /\ seqnum_higher(s, next_expected) <=> ~ seqnum_higher(next_expected, s)
    /\ seqnum_higher(s, next_expected) =>
         Distance(next_expected, s) <= MAX_RELIABLE_WINDOW_SIZE

(* A window is the interval of numbers it should be, wrapped around or not *)
(* (seqnum_in_window).                                                     *)
WindowIsInterval ==
  \A s \in SeqNums : \A size \in 1 .. MAX_RELIABLE_WINDOW_SIZE :
    seqnum_in_window(s, next_expected, size)
      <=> Distance(next_expected, s) < size

CircularOrder == NewerIsOneWay /\ WindowIsInterval

(* The list is in circular order from the number waited for, without       *)
(* repetition, and within the window: findPacket, getFirstSeqnum and       *)
(* popFirst take its first element to be the oldest (insert).              *)
ListInWindowOrder ==
  /\ InWindowOrder(list, next_expected)
  /\ \A p \in Packets(list) :
       Distance(next_expected, p.seqnum) < MAX_RELIABLE_WINDOW_SIZE

(* An insertion would add the packet and nothing else, or change nothing   *)
(* and then for a reason: its number is outside the window, the one waited *)
(* for, or already there.                                                  *)
InsertAddsOne ==
  \A s \in SeqNums :
    LET after == insert(list, [seqnum |-> s], next_expected)
    IN IF \/ Distance(next_expected, s) = 0
          \/ Distance(next_expected, s) >= MAX_RELIABLE_WINDOW_SIZE
          \/ \E i \in DOMAIN list : list[i].seqnum = s
       THEN after = list
       ELSE Packets(after) = Packets(list) \union {[seqnum |-> s]}

=============================================================================

------------------------ MODULE ReliablePacketBuffer ------------------------
(***************************************************************************)
(* The list of reliable packets kept by class ReliablePacketBuffer         *)
(* (network/connection.cpp): a channel has one for what it sent and has no *)
(* acknowledgement of (outgoing_reliables_sent) and one for what arrived   *)
(* early (incoming_reliables).  A packet is a record with a field seqnum;  *)
(* the list is kept in circular order by insert.                           *)
(***************************************************************************)
EXTENDS SeqNum, Sequences, SequencesExt

Packets(list) == {list[i] : i \in DOMAIN list}

(* A variant of Insertable with half the window.                           *)
Insertable_HalfWindow(seqnum, next_expected) ==
  /\ seqnum_in_window(seqnum, next_expected, MAX_RELIABLE_WINDOW_SIZE \div 2)
  /\ seqnum # next_expected

(* insert refuses a number outside the window that starts at next_expected *)
(* and next_expected itself: it logs and returns without an exception.     *)
Insertable(seqnum, next_expected) ==
  /\ seqnum_in_window(seqnum, next_expected, MAX_RELIABLE_WINDOW_SIZE)
  /\ seqnum # next_expected

(* A variant of GoesPast that does not know of wrap around.                *)
GoesPast_NoWrap(s, seqnum, next_expected) == s < seqnum

(* The scan of insert goes past a packet numbered s; the first case is the *)
(* one where the window has wrapped around before seqnum.                  *)
GoesPast(s, seqnum, next_expected) ==
  IF seqnum < next_expected THEN s < seqnum \/ s >= next_expected
                            ELSE s < seqnum /\ s >= next_expected

(* Where the scan stops; Len(list) + 1 is end().                           *)
ScanStop(list, seqnum, next_expected) ==
  Min({i \in DOMAIN list : ~ GoesPast(list[i].seqnum, seqnum, next_expected)}
        \union {Len(list) + 1})

(* The scan stopped at a packet with the very number to insert.            *)
Duplicate(list, seqnum, next_expected) ==
  LET i == ScanStop(list, seqnum, next_expected)
  IN i <= Len(list) /\ list[i].seqnum = seqnum

(* The list after insert: a duplicate leaves it alone (whether the two     *)
(* packets agree is for the caller to ask with SameAsDuplicate).           *)
insert(list, p, next_expected) ==
  IF \/ ~ Insertable(p.seqnum, next_expected)
     \/ Duplicate(list, p.seqnum, next_expected)
  THEN list
  ELSE InsertAt(list, ScanStop(list, p.seqnum, next_expected), p)

(* insert throws IncomingDataCorruption when a packet of the same number   *)
(* is there and differs from the new one.                                  *)
Corrupts(list, p, next_expected) ==
  /\ Insertable(p.seqnum, next_expected)
  /\ Duplicate(list, p.seqnum, next_expected)
  /\ list[ScanStop(list, p.seqnum, next_expected)] # p

(* popSeqnum: the list without the first packet of that number; a number   *)
(* that is not there (NotFoundException) leaves it alone.                  *)
popSeqnum(list, seqnum) ==
  LET found == {i \in DOMAIN list : list[i].seqnum = seqnum}
  IN IF found = {} THEN list ELSE RemoveAt(list, Min(found))

-----------------------------------------------------------------------------
(* Reference order: a list sorted by distance from next_expected, without  *)
(* repetition.                                                             *)
InWindowOrder(list, next_expected) ==
  \A i, j \in DOMAIN list :
    i < j => Distance(next_expected, list[i].seqnum)
               < Distance(next_expected, list[j].seqnum)

=============================================================================

---------------------------- MODULE SplitPackets ----------------------------
(***************************************************************************)
(* Messages that do not fit into a packet (connection.cpp): the send       *)
(* thread cuts them into chunks under a number of their own, reliable and  *)
(* unreliable ones counted together, and the receiver puts them together   *)
(* again in IncomingSplitBuffer.  Chunks of an unreliable message travel   *)
(* by themselves; those of a reliable one come out of the reliable channel *)
(* (OrderedDelivery).  The receiver's send thread drops what stays         *)
(* incomplete.                                                             *)
(***************************************************************************)
EXTENDS Naturals, Sequences, FiniteSets, SequencesExt

CONSTANTS
  SPLIT_SIZE,         (* 2^16: numbers of split messages                   *)
  MaxChunks,
  MaxMessages         (* bound: messages cut                               *)

ASSUME SplitAssumption ==
  SPLIT_SIZE \in Nat \ {0} /\ MaxChunks \in Nat \ {0} /\ MaxMessages \in Nat

SplitNums == 0 .. SPLIT_SIZE - 1

VARIABLES
  next_outgoing_split_seqnum,
  cut,                (* how many messages were cut                        *)
  datagrams,          (* chunks on the net: may arrive often, or never, but*)
                      (* are gone before their number is used again        *)
  reliables,          (* chunks the channel will hand over, in order       *)
  m_buf,              (* of each number what has come: chunks is a         *)
                      (* function from chunk numbers to what they contain  *)
  remove_queue,       (* numbers removeUnreliableTimedOuts will remove     *)
  whole,              (* history: what insert returned                     *)
  reliablyWhole,      (* history: and that of reliable messages, in order  *)
  passed              (* history: reliable messages all of whose chunks    *)
                      (* the channel handed over                           *)

splitVars == <<next_outgoing_split_seqnum, cut, datagrams, reliables, m_buf, remove_queue,
               whole, reliablyWhole, passed>>
gathered  == <<m_buf, whole, reliablyWhole>>

NoChunks == [n \in {} |-> 0]
Absent   == [chunk_count |-> 0, reliable |-> FALSE, chunks |-> NoChunks]
IsIn(s)  == m_buf[s] # Absent

(* What is in a chunk is named by its message and its place in it.         *)
SplitChunk(message, s, count, num, reliable) ==
  [seqnum |-> s, chunk_count |-> count, chunk_num |-> num, reliable |-> reliable,
   data |-> [message |-> message, part |-> num]]

SplitInit ==
  /\ next_outgoing_split_seqnum = 0 /\ cut = 0
  /\ datagrams = {} /\ reliables = <<>>
  /\ m_buf = [s \in SplitNums |-> Absent] /\ remove_queue = {}
  /\ whole = {} /\ reliablyWhole = <<>> /\ passed = <<>>

-----------------------------------------------------------------------------
(* The sender.                                                             *)

(* Nothing of a message lasts until its number is used again: that takes   *)
(* 2^16 messages, while a datagram is soon gone and what is incomplete is  *)
(* dropped after the timeout.                                              *)
FreshNumber(s) ==
  /\ ~IsIn(s) /\ s \notin remove_queue
  /\ \A i \in DOMAIN reliables : reliables[i].seqnum # s

Surviving(s) == {c \in datagrams : c.seqnum # s}

makeSplitPacket(count, reliable) ==
  [i \in 1 .. count |->
     SplitChunk(cut + 1, next_outgoing_split_seqnum, count, i - 1, reliable)]

UseNumber ==
  /\ cut < MaxMessages
  /\ FreshNumber(next_outgoing_split_seqnum)
  /\ cut' = cut + 1
  /\ next_outgoing_split_seqnum' = (next_outgoing_split_seqnum + 1) % SPLIT_SIZE

SendUnreliable(count) ==
  /\ UseNumber
  /\ datagrams' = Surviving(next_outgoing_split_seqnum)
                    \union ToSet(makeSplitPacket(count, FALSE))
  /\ UNCHANGED <<reliables, gathered, remove_queue, passed>>

(* processReliableSendCommand: without enough sequence numbers for the     *)
(* chunks they are forgotten, and the command is cut anew another time.    *)
SendReliable(count, enough) ==
  /\ UseNumber
  /\ datagrams' = Surviving(next_outgoing_split_seqnum)
  /\ reliables' = IF enough THEN reliables \o makeSplitPacket(count, TRUE) ELSE reliables
  /\ UNCHANGED <<gathered, remove_queue, passed>>

-----------------------------------------------------------------------------
(* The receiver.                                                           *)

Buffered(c) == IF IsIn(c.seqnum) THEN m_buf[c.seqnum]
               ELSE [chunk_count |-> c.chunk_count, reliable |-> c.reliable,
                     chunks |-> NoChunks]

With(chunks, num, data) ==
  [n \in DOMAIN chunks \union {num} |-> IF n = num THEN data ELSE chunks[n]]

(* The entry is put back, or returned when nothing of it is missing.       *)
Store(s, entry) ==
  LET done == Cardinality(DOMAIN entry.chunks) = entry.chunk_count
  IN /\ m_buf' = [m_buf EXCEPT ![s] = IF done THEN Absent ELSE entry]
     /\ whole' = IF done THEN whole \union {entry.chunks} ELSE whole
     /\ reliablyWhole' = IF done /\ entry.reliable
                         THEN Append(reliablyWhole, entry.chunks[0].message)
                         ELSE reliablyWhole

(* A variant: chunks are kept in the order they come, without a look at    *)
(* which they are.                                                         *)
insertChunk_AsTheyCome(c) ==
  LET before == Buffered(c)
  IN Store(c.seqnum,
           [before EXCEPT !.chunks = With(@, Cardinality(DOMAIN @), c.data)])

insertChunk(c) ==
  LET before == Buffered(c)
  IN IF c.chunk_count = before.chunk_count /\ c.chunk_num \notin DOMAIN before.chunks
     THEN Store(c.seqnum, [before EXCEPT !.chunks = With(@, c.chunk_num, c.data)])
     ELSE UNCHANGED gathered

ReceiveDatagram(c) ==
  /\ c \in datagrams /\ insertChunk(c)
  /\ UNCHANGED <<next_outgoing_split_seqnum, cut, datagrams, reliables, remove_queue, passed>>

ReceiveReliable ==
  /\ reliables # <<>>
  /\ LET c == Head(reliables)
     IN /\ insertChunk(c)
        /\ passed' = IF c.chunk_num = c.chunk_count - 1 THEN Append(passed, c.data.message)
                     ELSE passed
  /\ reliables' = Tail(reliables)
  /\ UNCHANGED <<next_outgoing_split_seqnum, cut, datagrams, remove_queue>>

(* removeUnreliableTimedOuts lets go of the lock between finding what has  *)
(* timed out and removing it.                                              *)
FindTimedOuts(found) ==
  /\ remove_queue = {} /\ found # {}
  /\ \A s \in found : IsIn(s) /\ ~m_buf[s].reliable
  /\ remove_queue' = found
  /\ UNCHANGED <<next_outgoing_split_seqnum, cut, datagrams, reliables, m_buf, whole, reliablyWhole, passed>>

RemoveTimedOut(s) ==
  /\ s \in remove_queue
  /\ m_buf' = [m_buf EXCEPT ![s] = Absent]
  /\ remove_queue' = remove_queue \ {s}
  /\ UNCHANGED <<next_outgoing_split_seqnum, cut, datagrams, reliables, whole, reliablyWhole, passed>>

SplitNext ==
  \/ \E count \in 2 .. MaxChunks : \/ SendUnreliable(count)
                                   \/ \E enough \in BOOLEAN : SendReliable(count, enough)
  \/ \E c \in datagrams : ReceiveDatagram(c)
  \/ ReceiveReliable
  \/ \E found \in SUBSET SplitNums : FindTimedOuts(found)
  \/ \E s \in SplitNums : RemoveTimedOut(s)

SplitSpec == SplitInit /\ [][SplitNext]_splitVars

-----------------------------------------------------------------------------
SplitTypeOK ==
  /\ next_outgoing_split_seqnum \in SplitNums /\ cut \in 0 .. MaxMessages
  /\ DOMAIN m_buf = SplitNums
  /\ \A s \in SplitNums : LET e == m_buf[s] IN
       /\ e.chunk_count \in 0 .. MaxChunks /\ e.reliable \in BOOLEAN
       /\ DOMAIN e.chunks \subseteq 0 .. e.chunk_count - 1
       /\ e.chunks \in [DOMAIN e.chunks -> [message : 1 .. cut, part : 0 .. MaxChunks - 1]]
  /\ remove_queue \subseteq SplitNums
  /\ ToSet(passed) \union ToSet(reliablyWhole) \subseteq 1 .. cut

(* What the receiver takes for a message is all of one message, each chunk *)
(* in its place, whatever was lost, came twice or timed out meanwhile; and *)
(* of reliable messages, which share their numbers and their buffer with   *)
(* the others, exactly those that the channel handed over come out, each   *)
(* once and in order (IncomingSplitBuffer::insert).                        *)
MessagesAreWhole ==
  /\ \A w \in whole : \A j \in DOMAIN w :
       w[j] = [message |-> w[0].message, part |-> j]
  /\ reliablyWhole = passed
=============================================================================

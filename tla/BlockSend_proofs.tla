--------------------------- MODULE BlockSend_proofs ---------------------------
(***************************************************************************)
(* Proofs about BlockSend, for any number of blocks at any distances, any   *)
(* window and any number of outside operations.                             *)
(*                                                                          *)
(* Five invariants, each kept by every action:                              *)
(*   SendingIsDue is inductive as it stands;                                *)
(*   Believed extends SentIsHeld to the blocks on the wire, because an      *)
(*   acknowledgement makes those the sent ones;                             *)
(*   WindowKept, from what the search selects;                              *)
(*   NothingInvented: no queue and no copy has an edit the server did not   *)
(*   make;                                                                  *)
(*   NothingForgotten: of a block the server believes in, each edit is with *)
(*   the client or on a way there that nothing cuts off.  The last two give *)
(*   StaleOnlyByOvertaking.                                                 *)
(***************************************************************************)
EXTENDS BlockSend, FiniteSetTheorems, WellFoundedInduction, TLAPS

Believed ==
  \A b \in sending \cup sent : b \in held \/ OnWire(b) \/ Reported("deleted", b)

------------------------------------------------------------------------------
(* The least element and the greatest element *)

\* What Least chooses: it is the smallest member.
LEMMA LeastIsLeast ==
  ASSUME NEW S \in SUBSET Nat, S # {}
  PROVE  /\ Least(S) \in S
         /\ \A y \in S : Least(S) <= y
<1> DEFINE R == OpToRel(<, Nat)
<1>0. \A x, y \in Nat : <<y, x>> \in R <=> y < x
  BY Zenon DEF OpToRel
<1>1. \E x \in S : \A y \in S : ~(<<y, x>> \in R)
  <2>1. S \subseteq Nat
    OBVIOUS
  <2>2. IsWellFoundedOn(R, Nat)
    BY NatLessThanWellFounded, Zenon
  <2> HIDE DEF R
  <2>3. QED
    BY <2>1, <2>2, WFMin
<1> HIDE DEF R
<1>2. PICK x \in S : \A y \in S : ~(<<y, x>> \in R)
  BY <1>1
<1>3. \A y \in S : ~(y < x)
  BY <1>0, <1>2, Zenon
<1>4. \A y \in S : x <= y
  BY <1>3, SMT
<1>5. QED
  BY <1>4 DEF Least

\* The blocks are numbered.
LEMMA BlockRange ==
  /\ NumBlocks \in Nat
  /\ Block \subseteq Nat
  /\ \A b \in Block : 1 <= b /\ b <= NumBlocks
BY BlockSendAssumption DEF Block

\* A nonempty set of blocks has a last one in search order.
LEMMA LastBlock ==
  ASSUME NEW S \in SUBSET Block, S # {}
  PROVE  \E x \in S : \A y \in S : y <= x
<1> DEFINE M == {NumBlocks - x : x \in S}
<1>1. M \in SUBSET Nat /\ M # {}
  <2>1. \A x \in S : NumBlocks - x \in Nat
    <3> SUFFICES ASSUME NEW x \in S
                 PROVE  NumBlocks - x \in Nat
      OBVIOUS
    <3>1. x \in Block
      OBVIOUS
    <3>2. x \in Nat /\ x <= NumBlocks
      BY <3>1, BlockRange
    <3>3. QED
      BY <3>2, BlockRange
  <2>2. M \subseteq Nat
    BY <2>1, Zenon
  <2>3. M # {}
    BY Zenon
  <2>4. QED
    BY <2>2, <2>3
<1>2. Least(M) \in M /\ \A y \in M : Least(M) <= y
  BY <1>1, LeastIsLeast
<1>3. PICK x \in S : Least(M) = NumBlocks - x
  BY <1>2
<1>4. \A y \in S : NumBlocks - x <= NumBlocks - y
  BY <1>2, <1>3
<1>5. \A y \in S : y <= x
  BY <1>4, BlockRange
<1>6. QED
  BY <1>5

\* Sets of blocks are finite.
LEMMA BlocksFinite ==
  ASSUME NEW S \in SUBSET Block
  PROVE  IsFiniteSet(S) /\ Cardinality(S) \in Nat
<1>1. IsFiniteSet(Block)
  BY BlockRange, FS_Interval DEF Block
<1>2. QED
  BY <1>1, FS_Subset, FS_CardinalityType

------------------------------------------------------------------------------
(* The search *)

\* The radii at which a search begins and ends.
LEMMA Radii ==
  ASSUME TypeOK
  PROVE  StartD \in Nat /\ EndD \in Nat /\ EndD <= FullD
<1>1. StartD \in Nat
  <2> DEFINE D == {nearestD} \cup {Euclid[b] : b \in modified}
  <2>1. D \in SUBSET Nat /\ D # {}
    BY BlockSendAssumption DEF TypeOK, Block
  <2>2. Least(D) \in Nat
    BY <2>1, LeastIsLeast
  <2>3. QED
    BY <2>2, BlockSendAssumption DEF StartD, TypeOK
<1>2. QED
  BY <1>1, BlockSendAssumption DEF EndD, Increment

\* The nearest of some blocks in the window is within the search.
LEMMA NearestInSearch ==
  ASSUME TypeOK, NEW S \in SUBSET Window, S # {}
  PROVE  Nearest(S) \in 0..FullD
<1>1. S \in SUBSET Nat /\ S \subseteq Block
  BY BlockSendAssumption DEF Window, Block
<1>2. Least(S) \in Window
  BY <1>1, LeastIsLeast
<1>3. QED
  BY <1>2, Radii, BlockSendAssumption DEF Nearest, Window, Block

\* The next search begins within the search.
LEMMA NextNearestType ==
  ASSUME TypeOK, NEW S, NEW E, IsSearch(S, E)
  PROVE  NextNearest(S, E) \in 0..FullD
<1>1. /\ S \subseteq Window /\ E \subseteq Window
      /\ Refused(S, E) \subseteq Window /\ GaveUp(S, E) \subseteq Window
  BY DEF IsSearch, Wanted, Refused, GaveUp
<1>2. CASE E # {}
  BY <1>1, <1>2, NearestInSearch DEF NextNearest
<1>3. CASE E = {} /\ Refused(S, E) # {}
  BY <1>1, <1>3, NearestInSearch DEF NextNearest
<1>4. CASE E = {} /\ GaveUp(S, E) = {} /\ EndD = FullD
  <2>1. Refused(S, E) = {}
    BY <1>4 DEF GaveUp
  <2>2. QED
    BY <1>4, <2>1, BlockSendAssumption DEF NextNearest
<1>5. CASE /\ E = {} /\ Refused(S, E) = {}
           /\ ~(GaveUp(S, E) = {} /\ EndD = FullD)
  <2>1. NextNearest(S, E) = IF S # {} THEN Nearest(S)
                            ELSE IF GaveUp(S, E) = {} THEN EndD + 1
                            ELSE Nearest(GaveUp(S, E))
    BY <1>5 DEF NextNearest
  <2>2. CASE S # {}
    BY <1>1, <2>1, <2>2, NearestInSearch
  <2>3. CASE S = {} /\ GaveUp(S, E) = {}
    BY <1>5, <2>1, <2>3, Radii, BlockSendAssumption
  <2>4. CASE S = {} /\ GaveUp(S, E) # {}
    BY <1>1, <2>1, <2>4, NearestInSearch
  <2>5. QED
    BY <2>2, <2>3, <2>4
<1>6. QED
  BY <1>2, <1>3, <1>4, <1>5

\* A search never fills more than the window: the last block it selects
\* still found room.
LEMMA SearchKeepsWindow ==
  ASSUME TypeOK, NEW S \in SUBSET Block, NEW E, IsSearch(S, E),
         Cardinality(sending) <= MaxSimul
  PROVE  Cardinality(sending) + Cardinality(S) <= MaxSimul
<1>1. CASE S = {}
  <2>1. Cardinality(S) = 0
    BY <1>1, FS_EmptySet
  <2>2. Cardinality(sending) \in Nat
    BY BlocksFinite DEF TypeOK
  <2>3. QED
    BY <2>1, <2>2
<1>2. CASE S # {}
  <2>1. PICK x \in S : \A y \in S : y <= x
    BY <1>2, LastBlock
  <2>2. Room(S, x)
    BY <2>1 DEF IsSearch, Reached, Wanted, Window, Block
  <2>3. S = Before(S, x) \cup {x} /\ x \notin Before(S, x)
    <3>1. S \subseteq Nat
      BY BlockRange
    <3>2. \A y \in S : y = x \/ y < x
      BY <2>1, <3>1
    <3>3. ~(x < x)
      BY <2>1, <3>1
    <3>4. QED
      BY <2>1, <3>2, <3>3, Zenon DEF Before
  <2>4. Cardinality(S) = Cardinality(Before(S, x)) + 1
    <3>1. Before(S, x) \in SUBSET Block
      BY DEF Before
    <3>2. QED
      BY <2>3, <3>1, BlocksFinite, FS_AddElement
  <2>5. Budget(x) <= MaxSimul /\ Budget(x) \in Nat
    BY BlockSendAssumption DEF Budget, LimitedSends
  <2>6. Cardinality(Before(S, x)) \in Nat /\ Cardinality(sending) \in Nat
    BY BlocksFinite DEF Before, TypeOK
  <2>7. QED
    BY <2>2, <2>4, <2>5, <2>6, BlockSendAssumption DEF Room
<1>3. QED
  BY <1>1, <1>2

------------------------------------------------------------------------------
(* The wires *)

\* A function on 1..n is a sequence.
LEMMA ArrayIsSeq ==
  ASSUME NEW n \in Nat, NEW S, NEW f \in [1..n -> S]
  PROVE  f \in Seq(S) /\ Len(f) = n
<1>1. f \in Seq(S)
  OBVIOUS
<1>2. QED
  BY <1>1

\* What a batch of block data is.
LEMMA BatchType ==
  ASSUME TypeOK, NEW T \in SUBSET Block, NEW q \in Orders(T)
  PROVE  /\ BlockData(q) \in Seq(Wire)
         /\ Len(BlockData(q)) = Cardinality(T)
         /\ \A i \in 1..Len(BlockData(q)) :
              /\ BlockData(q)[i].b \in T
              /\ BlockData(q)[i].data = content[BlockData(q)[i].b]
         /\ \A t \in T : \E i \in 1..Len(BlockData(q)) : BlockData(q)[i].b = t
<1> DEFINE n == Cardinality(T)
<1>1. n \in Nat
  BY BlocksFinite
<1> HIDE DEF n
<1>2. /\ q \in [1..n -> T]
      /\ \A t \in T : \E i \in 1..n : q[i] = t
  BY DEF Orders, n
<1>3. BlockData(q) = [i \in 1..n |-> [b |-> q[i], data |-> content[q[i]]]]
  BY <1>2 DEF BlockData
<1>4. \A i \in 1..n : [b |-> q[i], data |-> content[q[i]]] \in Wire
  BY <1>2 DEF TypeOK, Wire
<1>5. BlockData(q) \in Seq(Wire) /\ Len(BlockData(q)) = n
  <2>1. BlockData(q) \in [1..n -> Wire] /\ DOMAIN BlockData(q) = 1..n
    BY <1>3, <1>4
  <2>2. QED
    BY <1>1, <2>1, ArrayIsSeq
<1>6. \A i \in 1..n : /\ BlockData(q)[i].b = q[i]
                      /\ BlockData(q)[i].data = content[q[i]]
  BY <1>3
<1>7. QED
  BY <1>2, <1>5, <1>6 DEF n

\* A batch puts its blocks on the wire and takes none off.
LEMMA BatchOnWire ==
  ASSUME TypeOK, NEW T \in SUBSET Block, NEW q \in Orders(T),
         down2' = down2 \o BlockData(q), NEW b
  PROVE  OnWire(b)' <=> OnWire(b) \/ b \in T
<1> DEFINE d == BlockData(q)
<1>1. /\ d \in Seq(Wire) /\ down2 \in Seq(Wire)
      /\ \A i \in 1..Len(d) : d[i].b \in T
      /\ \A t \in T : \E i \in 1..Len(d) : d[i].b = t
  BY BatchType DEF TypeOK
<1>2. down2' = down2 \o d
  OBVIOUS
<1> HIDE DEF d
<1>3. /\ Len(down2') = Len(down2) + Len(d)
      /\ \A i \in 1..Len(down2) : down2'[i] = down2[i]
      /\ \A i \in 1..Len(d) : down2'[Len(down2) + i] = d[i]
      /\ \A i \in 1..Len(down2') :
           i \in 1..Len(down2) \/ i - Len(down2) \in 1..Len(d)
  <2>1. Len(down2) \in Nat /\ Len(d) \in Nat
    BY <1>1
  <2>2. Len(down2') = Len(down2) + Len(d)
    BY <1>1, <1>2
  <2>3. \A i \in 1..Len(down2) : down2'[i] = down2[i]
    BY <1>1, <1>2
  <2>4. \A i \in 1..Len(d) : down2'[Len(down2) + i] = d[i]
    BY <1>1, <1>2
  <2>5. QED
    BY <2>1, <2>2, <2>3, <2>4
<1>4. ASSUME OnWire(b)' PROVE OnWire(b) \/ b \in T
  <2>1. PICK i \in 1..Len(down2') : down2'[i].b = b
    BY <1>4 DEF OnWire
  <2>2. CASE i \in 1..Len(down2)
    BY <1>3, <2>1, <2>2 DEF OnWire
  <2>3. CASE i - Len(down2) \in 1..Len(d)
    <3>1. down2'[Len(down2) + (i - Len(down2))] = d[i - Len(down2)]
      BY <1>3, <2>3
    <3>2. Len(down2) + (i - Len(down2)) = i
      BY <1>1, <1>3
    <3>3. QED
      BY <1>1, <2>1, <2>3, <3>1, <3>2
  <2>4. QED
    BY <1>3, <2>2, <2>3
<1>5. ASSUME OnWire(b) PROVE OnWire(b)'
  BY <1>1, <1>3, <1>5 DEF OnWire
<1>6. ASSUME b \in T PROVE OnWire(b)'
  <2>1. PICK i \in 1..Len(d) : d[i].b = b
    BY <1>1, <1>6
  <2>2. Len(down2) + i \in 1..Len(down2')
    BY <1>1, <1>3
  <2>3. QED
    BY <1>3, <2>1, <2>2 DEF OnWire
<1>7. QED
  BY <1>4, <1>5, <1>6

\* One message more.
LEMMA AppendOnWire ==
  ASSUME TypeOK, NEW m \in Wire, down2' = Append(down2, m), NEW b
  PROVE  OnWire(b)' <=> OnWire(b) \/ m.b = b
BY DEF TypeOK, OnWire

\* The client takes the first message.
LEMMA TakeOnWire ==
  ASSUME TypeOK, down2 # <<>>, down2' = Tail(down2), NEW b
  PROVE  OnWire(b) <=> OnWire(b)' \/ Head(down2).b = b
<1>1. down2 \in Seq(Wire) /\ Len(down2) > 0
  BY DEF TypeOK
<1>2. /\ Len(down2') = Len(down2) - 1
      /\ \A i \in 1..Len(down2') : down2'[i] = down2[i + 1]
      /\ Head(down2) = down2[1]
  BY <1>1
<1>3. ASSUME OnWire(b) PROVE OnWire(b)' \/ Head(down2).b = b
  <2>1. PICK i \in 1..Len(down2) : down2[i].b = b
    BY <1>3 DEF OnWire
  <2>2. CASE i = 1
    BY <1>2, <2>1, <2>2
  <2>3. CASE i # 1
    <3>1. i - 1 \in 1..Len(down2') /\ down2'[i - 1] = down2[i]
      BY <1>1, <1>2, <2>1, <2>3
    <3>2. QED
      BY <2>1, <3>1 DEF OnWire
  <2>4. QED
    BY <2>2, <2>3
<1>4. ASSUME OnWire(b)' PROVE OnWire(b)
  <2>1. PICK i \in 1..Len(down2') : down2'[i].b = b
    BY <1>4 DEF OnWire
  <2>2. i + 1 \in 1..Len(down2)
    BY <1>1, <1>2
  <2>3. QED
    BY <1>2, <2>1, <2>2 DEF OnWire
<1>5. ASSUME Head(down2).b = b PROVE OnWire(b)
  BY <1>1, <1>2, <1>5 DEF OnWire
<1>6. QED
  BY <1>3, <1>4, <1>5

\* One report more.
LEMMA AppendReport ==
  ASSUME TypeOK, NEW r \in Report, up' = Append(up, r), NEW k, NEW b
  PROVE  Reported(k, b)' <=> Reported(k, b) \/ (r.kind = k /\ b \in r.blocks)
<1>1. up \in Seq(Report)
  BY DEF TypeOK
<1>2. /\ Len(up') = Len(up) + 1
      /\ up'[Len(up) + 1] = r
      /\ \A i \in 1..Len(up) : up'[i] = up[i]
  BY <1>1
<1>3. \A i \in 1..Len(up') : i \in 1..Len(up) \/ i = Len(up) + 1
  BY <1>1, <1>2
<1>4. Len(up) + 1 \in 1..Len(up') /\ \A i \in 1..Len(up) : i \in 1..Len(up')
  BY <1>1, <1>2
<1>5. QED
  BY <1>2, <1>3, <1>4, Zenon DEF Reported

\* The server takes the first report.
LEMMA TakeReport ==
  ASSUME TypeOK, up # <<>>, up' = Tail(up), NEW k, NEW b
  PROVE  Reported(k, b) <=>
           Reported(k, b)' \/ (Head(up).kind = k /\ b \in Head(up).blocks)
<1>1. up \in Seq(Report) /\ Len(up) > 0
  BY DEF TypeOK
<1>2. /\ Len(up') = Len(up) - 1
      /\ \A i \in 1..Len(up') : up'[i] = up[i + 1]
      /\ Head(up) = up[1]
  BY <1>1
<1>3. ASSUME Reported(k, b)
      PROVE  Reported(k, b)' \/ (Head(up).kind = k /\ b \in Head(up).blocks)
  <2>1. PICK i \in 1..Len(up) : up[i].kind = k /\ b \in up[i].blocks
    BY <1>3 DEF Reported
  <2>2. CASE i = 1
    BY <1>2, <2>1, <2>2
  <2>3. CASE i # 1
    <3>1. i - 1 \in 1..Len(up') /\ up'[i - 1] = up[i]
      BY <1>1, <1>2, <2>1, <2>3
    <3>2. QED
      BY <2>1, <3>1 DEF Reported
  <2>4. QED
    BY <2>2, <2>3
<1>4. ASSUME Reported(k, b)' PROVE Reported(k, b)
  <2>1. PICK i \in 1..Len(up') : up'[i].kind = k /\ b \in up'[i].blocks
    BY <1>4 DEF Reported
  <2>2. i + 1 \in 1..Len(up)
    BY <1>1, <1>2
  <2>3. QED
    BY <1>2, <2>1, <2>2 DEF Reported
<1>5. ASSUME Head(up).kind = k /\ b \in Head(up).blocks PROVE Reported(k, b)
  BY <1>1, <1>2, <1>5 DEF Reported
<1>6. QED
  BY <1>3, <1>4, <1>5

------------------------------------------------------------------------------
(* Types *)

\* The parameters without the distances.
LEMMA Parameters ==
  /\ FullD \in Nat /\ MaxSimul \in Nat /\ MaxOps \in Nat /\ 1 \in Block
  /\ Worlds \subseteq SUBSET Block
BY BlockSendAssumption DEF Block

EditEvent == [b : Block, e : Nat, kind : {"node", "other"}]

\* What a sequence hands out and what is left of it.
LEMMA Take ==
  ASSUME NEW S, NEW q \in Seq(S), q # <<>>
  PROVE  Head(q) \in S /\ Tail(q) \in Seq(S)
OBVIOUS

LEMMA Put ==
  ASSUME NEW S, NEW q \in Seq(S), NEW m \in S
  PROVE  Append(q, m) \in Seq(S)
OBVIOUS

LEMMA TypeInit == Init => TypeOK
<1> SUFFICES ASSUME Init PROVE TypeOK
  OBVIOUS
<1>1. /\ content \in [Block -> SUBSET Nat] /\ copy \in [Block -> SUBSET Nat]
      /\ emergeJob \in [step : {"idle", "popped", "loaded"}, b : Block]
      /\ loaded \in SUBSET Block /\ nearestD \in 0..FullD
  BY Parameters DEF Init, Idle
<1>2. /\ edits \in Seq([b : Block, e : Nat, kind : {"node", "other"}])
      /\ down2 \in Seq(Wire) /\ down0 \in Seq(Change) /\ up \in Seq(Report)
  BY DEF Init
<1>3. QED
  BY <1>1, <1>2, Zenon DEF Init, TypeOK

\* The phase either leaves the client alone or sends what a search selected.
LEMMA SendBlocksDoes ==
  ASSUME SendBlocks
  PROVE  \/ UNCHANGED <<emerging, modified, nearestD, paused, sending, down2>>
         \/ \E S, E, T \in SUBSET Block : \E q \in Orders(T) :
              MaySearch /\ IsSearch(S, E) /\ T \subseteq S /\ SearchAndSend(S, E, T, q)
BY DEF SendBlocks

LEMMA SendBlocksType == TypeOK /\ SendBlocks => TypeOK'
<1> SUFFICES ASSUME TypeOK, SendBlocks PROVE TypeOK'
  OBVIOUS
<1>1. CASE UNCHANGED <<emerging, modified, nearestD, paused, sending, down2>>
  BY <1>1 DEF TypeOK, SendBlocks, remoteVars
<1>2. CASE \E S, E, T \in SUBSET Block : \E q \in Orders(T) :
             MaySearch /\ IsSearch(S, E) /\ T \subseteq S /\ SearchAndSend(S, E, T, q)
  <2>1. PICK S, E, T \in SUBSET Block : \E q \in Orders(T) :
             IsSearch(S, E) /\ SearchAndSend(S, E, T, q)
    BY <1>2
  <2>2. PICK q \in Orders(T) : IsSearch(S, E) /\ SearchAndSend(S, E, T, q)
    BY <2>1
  <2>3. nearestD' \in 0..FullD
    BY <2>2, NextNearestType DEF SearchAndSend
  <2>4. down2' \in Seq(Wire)
    <3>1. BlockData(q) \in Seq(Wire)
      BY BatchType
    <3>2. down2 \in Seq(Wire) /\ down2' = down2 \o BlockData(q)
      BY <2>2 DEF SearchAndSend, TypeOK
    <3>3. QED
      BY <3>1, <3>2
  <2>5. /\ emerging' \in SUBSET Block /\ modified' \in SUBSET Block
        /\ paused' \in BOOLEAN /\ sending' \in SUBSET Block
    BY <2>2 DEF SearchAndSend, TypeOK
  <2>6. QED
    BY <2>3, <2>4, <2>5 DEF TypeOK, SendBlocks, remoteVars
<1>3. QED
  BY <1>1, <1>2, SendBlocksDoes

LEMMA ServerType ==
  ASSUME TypeOK, EndEnv \/ SendEdit \/ EndEdits \/ HandleGotBlocks
                 \/ HandleDeletedBlocks \/ EndPackets
  PROVE  TypeOK'
<1>1. CASE EndEnv \/ EndEdits \/ EndPackets
  BY <1>1 DEF TypeOK, EndEnv, EndEdits, EndPackets, clientVars, wireVars, remoteVars
<1>2. CASE SendEdit
  <2>1. Head(edits) \in EditEvent /\ edits' \in Seq(EditEvent)
    BY <1>2, Take DEF TypeOK, SendEdit, EditEvent
  <2>2. /\ down0' \in Seq(Change) /\ overtaken' \in SUBSET Block
        /\ paused' \in BOOLEAN /\ sending' \in SUBSET Block
        /\ sent' \in SUBSET Block /\ modified' \in SUBSET Block
    <3>1. Head(edits).b \in Block
          /\ [b |-> Head(edits).b, e |-> Head(edits).e] \in Change
      BY <2>1 DEF EditEvent, Change
    <3>2. CASE SendChange(Head(edits))
      <4>1. down0' \in Seq(Change)
        BY <3>1, <3>2, Put DEF TypeOK, SendChange
      <4>2. QED
        BY <3>1, <3>2, <4>1 DEF TypeOK, SendChange
    <3>3. CASE SetBlocksNotSent({Head(edits).b}) /\ UNCHANGED down0
      BY <3>1, <3>3 DEF TypeOK, SetBlocksNotSent
    <3>4. QED
      BY <1>2, <3>2, <3>3, Zenon DEF SendEdit
  <2>3. QED
    BY <1>2, <2>1, <2>2 DEF TypeOK, SendEdit, remoteVars, EditEvent
<1>3. CASE HandleGotBlocks
  <2>1. up' \in Seq(Report)
    BY <1>3, Take DEF TypeOK, HandleGotBlocks
  <2>2. QED
    BY <1>3, <2>1 DEF TypeOK, HandleGotBlocks, GotBlocks, serverVars, remoteVars
<1>4. CASE HandleDeletedBlocks
  <2>1. Head(up) \in Report /\ up' \in Seq(Report)
    BY <1>4, Take DEF TypeOK, HandleDeletedBlocks
  <2>2. QED
    BY <1>4, <2>1 DEF TypeOK, HandleDeletedBlocks, SetBlocksNotSent, serverVars,
                      remoteVars, Report
<1>5. QED
  BY <1>1, <1>2, <1>3, <1>4

\* What every edit does to the queue and the content.
LEMMA EditType ==
  ASSUME TypeOK, NEW b \in Block, NEW kind \in {"node", "other"}, EditBlock(b, kind)
  PROVE  /\ content' \in [Block -> SUBSET Nat]
         /\ edits' \in Seq([b : Block, e : Nat, kind : {"node", "other"}])
         /\ ops' \in Nat
<1>1. [b |-> b, e |-> ops, kind |-> kind] \in EditEvent
  BY DEF TypeOK, EditEvent
<1>2. edits' \in Seq(EditEvent)
  BY <1>1, Put DEF TypeOK, EditBlock, EditEvent
<1>3. QED
  BY <1>2 DEF TypeOK, EditBlock, Operation, EditEvent

LEMMA OutsideType ==
  ASSUME TypeOK, Outside
  PROVE  TypeOK'
<1>1. CASE \E b \in Block, kind \in {"node", "other"} : EnvEdit(b, kind)
  BY <1>1, EditType DEF TypeOK, EnvEdit, clientVars, wireVars, remoteVars
<1>2. CASE \E b \in Block : LuaSendBlock(b)
  <2>1. PICK b \in Block : LuaSendBlock(b)
    BY <1>2
  <2>2. [b |-> b, data |-> content[b]] \in Wire
    BY DEF TypeOK, Wire
  <2>3. down2' \in Seq(Wire)
    BY <2>1, <2>2, Put DEF TypeOK, LuaSendBlock
  <2>4. QED
    BY <2>1, <2>3 DEF TypeOK, LuaSendBlock, Operation, clientVars, remoteVars
<1>3. CASE \E b \in Block : UnloadBlock(b)
  BY <1>3 DEF TypeOK, UnloadBlock, Operation, clientVars, wireVars, remoteVars
<1>4. CASE \E b \in Block : Dig(b)
  <2>1. PICK b \in Block : Dig(b)
    BY <1>4
  <2>2. /\ content' \in [Block -> SUBSET Nat]
        /\ edits' \in Seq([b : Block, e : Nat, kind : {"node", "other"}])
        /\ ops' \in Nat
    BY <2>1, EditType DEF Dig
  <2>3. /\ paused' \in BOOLEAN /\ sending' \in SUBSET Block
        /\ sent' \in SUBSET Block /\ modified' \in SUBSET Block
        /\ overtaken' \in SUBSET Block
    BY <2>1 DEF TypeOK, Dig, ResendBlockIfOnWire, SetBlocksNotSent
  <2>4. QED
    BY <2>1, <2>2, <2>3 DEF TypeOK, Dig, wireVars, remoteVars
<1>5. CASE \E b \in Block : DigRefused(b)
  <2>1. PICK b \in Block : DigRefused(b)
    BY <1>5
  <2>2. /\ paused' \in BOOLEAN /\ sending' \in SUBSET Block
        /\ sent' \in SUBSET Block /\ modified' \in SUBSET Block
        /\ overtaken' \in SUBSET Block /\ ops' \in Nat
    <3>1. SetBlocksNotSent({b}) /\ ops' = ops + 1
      BY <2>1 DEF DigRefused, Operation
    <3>2. /\ sending \in SUBSET Block /\ sent \in SUBSET Block
          /\ modified \in SUBSET Block /\ overtaken \in SUBSET Block /\ ops \in Nat
      BY DEF TypeOK
    <3>3. paused' \in BOOLEAN
      BY <3>1, Zenon DEF SetBlocksNotSent
    <3>4. ops' \in Nat
      BY <3>1, <3>2
    <3>5. QED
      BY <3>1, <3>2, <3>3, <3>4 DEF SetBlocksNotSent
  <2>3. UNCHANGED <<serverVars, nearestD, building, wireVars, remoteVars>>
    BY <2>1 DEF DigRefused
  <2>4. QED
    BY <2>2, <2>3 DEF TypeOK, serverVars, wireVars, remoteVars
<1>6. CASE \E b \in Block : Place(b)
  <2>1. PICK b \in Block : Place(b)
    BY <1>6
  <2>2. EditBlock(b, "node")
    BY <2>1 DEF Place
  <2>3. QED
    BY <2>1, <2>2, EditType DEF TypeOK, Place, SetBlocksNotSent, wireVars, remoteVars
<1>7. CASE \E S \in SUBSET Block : Look(S)
  <2>1. nearestD' \in 0..FullD /\ ops' \in Nat /\ inSight' \in SUBSET Block
    BY <1>7, Parameters DEF TypeOK, Look, Operation
  <2>2. QED
    BY <1>7, <2>1 DEF TypeOK, Look, wireVars, remoteVars
<1>8. CASE EmergeCancelled
  <2>1. emergeJob' \in [step : {"idle", "popped", "loaded"}, b : Block]
    BY <1>8, Parameters DEF EmergeCancelled, Idle
  <2>2. QED
    BY <1>8, <2>1
       DEF TypeOK, EmergeCancelled, Operation, clientVars, wireVars, remoteVars
<1>9. CASE \E b \in Block : DeleteBlock(b)
  <2>1. PICK b \in Block : DeleteBlock(b)
    BY <1>9
  <2>2. [kind |-> "deleted", blocks |-> {b}] \in Report
    BY DEF Report
  <2>3. up' \in Seq(Report)
    BY <2>1, <2>2, Put DEF TypeOK, DeleteBlock
  <2>4. QED
    BY <2>1, <2>3 DEF TypeOK, DeleteBlock, Operation, serverVars, clientVars
<1>10. QED
  BY <1>1, <1>2, <1>3, <1>4, <1>5, <1>6, <1>7, <1>8, <1>9 DEF Outside

LEMMA OtherType ==
  ASSUME TypeOK,
         \/ PauseOver \/ BuildingOver
         \/ \E b \in Block : EmergePop(b)
         \/ EmergeLoad \/ EmergeNotify
         \/ RecvBlock \/ RecvChange
         \/ \E b \in Block : MakeMesh(b)
         \/ SendGotBlocks
  PROVE  TypeOK'
<1>1. CASE PauseOver \/ BuildingOver
  BY <1>1 DEF TypeOK, PauseOver, BuildingOver, serverVars, wireVars, remoteVars
<1>2. CASE (\E b \in Block : EmergePop(b)) \/ EmergeLoad
  <2>1. /\ emerging' \in SUBSET Block /\ loaded' \in SUBSET Block
        /\ emergeJob' \in [step : {"idle", "popped", "loaded"}, b : Block]
    BY <1>2 DEF TypeOK, EmergePop, EmergeLoad
  <2>2. QED
    BY <1>2, <2>1 DEF TypeOK, EmergePop, EmergeLoad, clientVars, wireVars, remoteVars
<1>3. CASE EmergeNotify
  BY <1>3, Parameters
     DEF TypeOK, EmergeNotify, Idle, SetBlocksNotSent, wireVars, remoteVars
<1>4. CASE RecvBlock
  <2>1. Head(down2) \in Wire /\ down2' \in Seq(Wire)
    BY <1>4, Take DEF TypeOK, RecvBlock
  <2>2. Head(down2).b \in Block /\ Head(down2).data \in SUBSET Nat
    BY <2>1 DEF Wire
  <2>3. QED
    BY <1>4, <2>1, <2>2 DEF TypeOK, RecvBlock, serverVars, clientVars
<1>5. CASE RecvChange
  <2>1. Head(down0) \in Change /\ down0' \in Seq(Change)
    BY <1>5, Take DEF TypeOK, RecvChange
  <2>2. copy' \in [Block -> SUBSET Nat]
    BY <1>5, <2>1 DEF TypeOK, RecvChange, Change
  <2>3. QED
    BY <1>5, <2>1, <2>2 DEF TypeOK, RecvChange, serverVars, clientVars
<1>6. CASE \E b \in Block : MakeMesh(b)
  BY <1>6 DEF TypeOK, MakeMesh, serverVars, clientVars, wireVars
<1>7. CASE SendGotBlocks
  <2>1. [kind |-> "got", blocks |-> meshOut] \in Report
    BY DEF TypeOK, Report
  <2>2. up' \in Seq(Report)
    BY <1>7, <2>1, Put DEF TypeOK, SendGotBlocks
  <2>3. QED
    BY <1>7, <2>2 DEF TypeOK, SendGotBlocks, serverVars, clientVars
<1>8. QED
  BY <1>1, <1>2, <1>3, <1>4, <1>5, <1>6, <1>7

LEMMA TypeStep == TypeOK /\ [Next]_vars => TypeOK'
<1> SUFFICES ASSUME TypeOK, [Next]_vars PROVE TypeOK'
  OBVIOUS
<1>1. CASE UNCHANGED vars
  BY <1>1 DEF TypeOK, vars, serverVars, clientVars, wireVars, remoteVars
<1>2. CASE ServerStep
  BY <1>2, SendBlocksType, ServerType DEF ServerStep
<1>3. CASE Outside
  BY <1>3, OutsideType
<1>4. CASE Next /\ ~ServerStep /\ ~Outside
  BY <1>4, OtherType DEF Next
<1>5. QED
  BY <1>1, <1>2, <1>3, <1>4

\* The types hold, and the search radius stays within the search.
THEOREM SpecTypeOK == Spec => []TypeOK
BY TypeInit, TypeStep, PTL DEF Spec

------------------------------------------------------------------------------
(* Every block in m_blocks_sending has an acknowledgement outstanding *)

\* The phase puts the data of the blocks it adds to m_blocks_sending on the
\* wire.
LEMMA SendBlocksWire ==
  ASSUME TypeOK, SendBlocks, NEW b
  PROVE  /\ OnWire(b) => OnWire(b)'
         /\ b \in sending' => b \in sending \/ OnWire(b)'
<1>1. CASE UNCHANGED <<emerging, modified, nearestD, paused, sending, down2>>
  BY <1>1 DEF OnWire
<1>2. CASE \E S, E, T \in SUBSET Block : \E q \in Orders(T) :
             MaySearch /\ IsSearch(S, E) /\ T \subseteq S /\ SearchAndSend(S, E, T, q)
  <2>1. PICK S, E, T \in SUBSET Block : \E q \in Orders(T) : SearchAndSend(S, E, T, q)
    BY <1>2
  <2>2. PICK q \in Orders(T) : SearchAndSend(S, E, T, q)
    BY <2>1
  <2>3. OnWire(b)' <=> OnWire(b) \/ b \in T
    BY <2>2, BatchOnWire DEF SearchAndSend
  <2>4. QED
    BY <2>2, <2>3 DEF SearchAndSend
<1>3. QED
  BY <1>1, <1>2, SendBlocksDoes

\* Once something about b is under way to the client, only the server's
\* taking the acknowledgement ends that.
LEMMA AckKept ==
  ASSUME TypeOK, [Next]_vars, NEW b \in Block, AckDue(b)
  PROVE  AckDue(b)' \/ b \notin sending'
<1>1. CASE SendBlocks
  <2>1. OnWire(b) => OnWire(b)'
    BY <1>1, SendBlocksWire
  <2>2. QED
    BY <1>1, <2>1 DEF AckDue, Reported, SendBlocks, remoteVars
<1>2. CASE \E c \in Block : LuaSendBlock(c)
  <2>1. PICK c \in Block : LuaSendBlock(c)
    BY <1>2
  <2>2. [b |-> c, data |-> content[c]] \in Wire
    BY DEF TypeOK, Wire
  <2>3. OnWire(b) => OnWire(b)'
    BY <2>1, <2>2, AppendOnWire DEF LuaSendBlock
  <2>4. QED
    BY <2>1, <2>3 DEF AckDue, Reported, LuaSendBlock, remoteVars
<1>3. CASE HandleGotBlocks
  <2>1. CASE b \in Head(up).blocks
    BY <1>3, <2>1 DEF HandleGotBlocks, GotBlocks
  <2>2. CASE b \notin Head(up).blocks
    <3>1. Reported("got", b) => Reported("got", b)'
      BY <1>3, <2>2, TakeReport DEF HandleGotBlocks
    <3>2. QED
      BY <1>3, <3>1 DEF AckDue, OnWire, HandleGotBlocks, remoteVars
  <2>3. QED
    BY <2>1, <2>2
<1>4. CASE HandleDeletedBlocks
  <2>1. Reported("got", b) => Reported("got", b)'
    BY <1>4, TakeReport DEF HandleDeletedBlocks
  <2>2. QED
    BY <1>4, <2>1 DEF AckDue, OnWire, HandleDeletedBlocks, remoteVars
<1>5. CASE RecvBlock
  <2>1. OnWire(b) => OnWire(b)' \/ b \in meshQ'
    BY <1>5, TakeOnWire DEF RecvBlock
  <2>2. meshQ \subseteq meshQ' /\ UNCHANGED <<meshOut, up>>
    BY <1>5 DEF RecvBlock
  <2>3. QED
    BY <2>1, <2>2 DEF AckDue, Reported
<1>6. CASE \E c \in Block : MakeMesh(c)
  BY <1>6 DEF AckDue, OnWire, Reported, MakeMesh, wireVars
<1>7. CASE SendGotBlocks
  <2>1. [kind |-> "got", blocks |-> meshOut] \in Report
    BY DEF TypeOK, Report
  <2>2. Reported("got", b)' <=> Reported("got", b) \/ b \in meshOut
    BY <1>7, <2>1, AppendReport DEF SendGotBlocks
  <2>3. QED
    BY <1>7, <2>2 DEF AckDue, OnWire, SendGotBlocks
<1>8. CASE \E c \in Block : DeleteBlock(c)
  <2>1. PICK c \in Block : DeleteBlock(c)
    BY <1>8
  <2>2. [kind |-> "deleted", blocks |-> {c}] \in Report
    BY DEF Report
  <2>3. Reported("got", b) => Reported("got", b)'
    BY <2>1, <2>2, AppendReport DEF DeleteBlock
  <2>4. QED
    BY <2>1, <2>3 DEF AckDue, OnWire, DeleteBlock
<1>9. CASE UNCHANGED <<down2, up, meshQ, meshOut>>
  BY <1>9 DEF AckDue, OnWire, Reported
<1>10. QED
  BY <1>1, <1>2, <1>3, <1>4, <1>5, <1>6, <1>7, <1>8, <1>9, Zenon
     DEF Next, ServerStep, Outside, vars, EndEnv, SendEdit, EndEdits, EndPackets,
         EnvEdit, UnloadBlock, Dig, DigRefused, Place, Look, EmergeCancelled,
         PauseOver, BuildingOver, EmergePop, EmergeLoad, EmergeNotify, RecvChange,
         wireVars, remoteVars

\* A block enters m_blocks_sending only with its data.
LEMMA SendingGrows ==
  ASSUME TypeOK, [Next]_vars, NEW b \in sending'
  PROVE  b \in sending \/ OnWire(b)'
<1>1. CASE SendBlocks
  BY <1>1, SendBlocksWire
<1>2. CASE SendEdit
  BY <1>2 DEF SendEdit, SendChange, SetBlocksNotSent
<1>3. CASE HandleGotBlocks \/ HandleDeletedBlocks
  BY <1>3 DEF HandleGotBlocks, HandleDeletedBlocks, GotBlocks, SetBlocksNotSent
<1>4. CASE \E c \in Block : Dig(c) \/ DigRefused(c) \/ Place(c)
  BY <1>4 DEF Dig, DigRefused, Place, ResendBlockIfOnWire, SetBlocksNotSent
<1>5. CASE EmergeNotify
  BY <1>5 DEF EmergeNotify, SetBlocksNotSent
<1>6. CASE UNCHANGED sending
  BY <1>6
<1>7. QED
  BY <1>1, <1>2, <1>3, <1>4, <1>5, <1>6, Zenon
     DEF Next, ServerStep, Outside, vars, EndEnv, EndEdits, EndPackets, EnvEdit,
         LuaSendBlock, UnloadBlock, Look, EmergeCancelled, DeleteBlock, PauseOver,
         BuildingOver, EmergePop, EmergeLoad, RecvBlock, RecvChange, MakeMesh,
         SendGotBlocks, clientVars

\* No place of the send window is lost for good.
THEOREM SpecSendingIsDue == Spec => []SendingIsDue
<1>1. Init => SendingIsDue
  BY DEF Init, SendingIsDue
<1>2. TypeOK /\ SendingIsDue /\ [Next]_vars => SendingIsDue'
  <2> SUFFICES ASSUME TypeOK, SendingIsDue, [Next]_vars, NEW b \in sending'
               PROVE  AckDue(b)'
    BY DEF SendingIsDue
  <2>1. CASE b \in sending
    <3>1. b \in Block /\ AckDue(b)
      BY <2>1 DEF TypeOK, SendingIsDue
    <3>2. QED
      BY <3>1, AckKept
  <2>2. CASE b \notin sending
    BY <2>2, SendingGrows DEF AckDue
  <2>3. QED
    BY <2>1, <2>2
<1>3. QED
  BY <1>1, <1>2, SpecTypeOK, PTL DEF Spec

------------------------------------------------------------------------------
(* The server does not take a block for sent that the client lacks *)

\* Whatever stood for b's being with the client stands for it still: data the
\* client takes is then held, and deleting the block sends a report, which the
\* server forgets only together with the block.
LEMMA BelievedKept ==
  ASSUME TypeOK, [Next]_vars, NEW b \in Block,
         b \in held \/ OnWire(b) \/ Reported("deleted", b)
  PROVE  \/ b \in held' \/ OnWire(b)' \/ Reported("deleted", b)'
         \/ b \notin sending' \cup sent'
<1>1. CASE SendBlocks
  <2>1. OnWire(b) => OnWire(b)'
    BY <1>1, SendBlocksWire
  <2>2. QED
    BY <1>1, <2>1 DEF Reported, SendBlocks, remoteVars
<1>2. CASE \E c \in Block : LuaSendBlock(c)
  <2>1. PICK c \in Block : LuaSendBlock(c)
    BY <1>2
  <2>2. [b |-> c, data |-> content[c]] \in Wire
    BY DEF TypeOK, Wire
  <2>3. OnWire(b) => OnWire(b)'
    BY <2>1, <2>2, AppendOnWire DEF LuaSendBlock
  <2>4. QED
    BY <2>1, <2>3 DEF Reported, LuaSendBlock, remoteVars
<1>3. CASE HandleGotBlocks
  <2>1. Reported("deleted", b) => Reported("deleted", b)'
    BY <1>3, TakeReport DEF HandleGotBlocks
  <2>2. QED
    BY <1>3, <2>1 DEF OnWire, HandleGotBlocks, remoteVars
<1>4. CASE HandleDeletedBlocks
  <2>1. CASE b \in Head(up).blocks
    BY <1>4, <2>1 DEF HandleDeletedBlocks, SetBlocksNotSent
  <2>2. CASE b \notin Head(up).blocks
    <3>1. Reported("deleted", b) => Reported("deleted", b)'
      BY <1>4, <2>2, TakeReport DEF HandleDeletedBlocks
    <3>2. QED
      BY <1>4, <3>1 DEF OnWire, HandleDeletedBlocks, remoteVars
  <2>3. QED
    BY <2>1, <2>2
<1>5. CASE RecvBlock
  <2>1. OnWire(b) => OnWire(b)' \/ b \in held'
    BY <1>5, TakeOnWire DEF RecvBlock
  <2>2. held \subseteq held' /\ up' = up
    BY <1>5 DEF RecvBlock
  <2>3. QED
    BY <2>1, <2>2 DEF Reported
<1>6. CASE SendGotBlocks
  <2>1. [kind |-> "got", blocks |-> meshOut] \in Report
    BY DEF TypeOK, Report
  <2>2. Reported("deleted", b) => Reported("deleted", b)'
    BY <1>6, <2>1, AppendReport DEF SendGotBlocks
  <2>3. QED
    BY <1>6, <2>2 DEF OnWire, SendGotBlocks
<1>7. CASE \E c \in Block : DeleteBlock(c)
  <2>1. PICK c \in Block : DeleteBlock(c)
    BY <1>7
  <2>2. [kind |-> "deleted", blocks |-> {c}] \in Report
    BY DEF Report
  <2>3. Reported("deleted", b)' <=> Reported("deleted", b) \/ b = c
    BY <2>1, <2>2, AppendReport DEF DeleteBlock
  <2>4. QED
    BY <2>1, <2>3 DEF OnWire, DeleteBlock
<1>8. CASE UNCHANGED <<down2, up, held>>
  BY <1>8 DEF OnWire, Reported
<1>9. QED
  BY <1>1, <1>2, <1>3, <1>4, <1>5, <1>6, <1>7, <1>8, Zenon
     DEF Next, ServerStep, Outside, vars, EndEnv, SendEdit, EndEdits, EndPackets,
         EnvEdit, UnloadBlock, Dig, DigRefused, Place, Look, EmergeCancelled,
         PauseOver, BuildingOver, EmergePop, EmergeLoad, EmergeNotify, RecvChange,
         MakeMesh, wireVars, remoteVars

\* A block counts as sent only after it was on its way.
LEMMA SentGrows ==
  ASSUME TypeOK, [Next]_vars, NEW b \in sent'
  PROVE  b \in sending \cup sent
<1>1. CASE SendEdit
  BY <1>1 DEF SendEdit, SendChange, SetBlocksNotSent
<1>2. CASE HandleGotBlocks \/ HandleDeletedBlocks
  BY <1>2 DEF HandleGotBlocks, HandleDeletedBlocks, GotBlocks, SetBlocksNotSent
<1>3. CASE \E c \in Block : Dig(c) \/ DigRefused(c) \/ Place(c)
  BY <1>3 DEF Dig, DigRefused, Place, ResendBlockIfOnWire, SetBlocksNotSent
<1>4. CASE EmergeNotify
  BY <1>4 DEF EmergeNotify, SetBlocksNotSent
<1>5. CASE UNCHANGED sent
  BY <1>5
<1>6. QED
  BY <1>1, <1>2, <1>3, <1>4, <1>5, Zenon
     DEF Next, ServerStep, SendBlocks, Outside, vars, EndEnv, EndEdits, EndPackets,
         EnvEdit, LuaSendBlock, UnloadBlock, Look, EmergeCancelled, DeleteBlock,
         PauseOver, BuildingOver, EmergePop, EmergeLoad, RecvBlock, RecvChange,
         MakeMesh, SendGotBlocks, clientVars

\* The server takes no block for sent or on its way that is neither.
LEMMA SpecBelieved == Spec => []Believed
<1>1. Init => Believed
  BY DEF Init, Believed
<1>2. TypeOK /\ Believed /\ [Next]_vars => Believed'
  <2> SUFFICES ASSUME TypeOK, Believed, [Next]_vars, NEW b \in sending' \cup sent'
               PROVE  b \in held' \/ OnWire(b)' \/ Reported("deleted", b)'
    BY DEF Believed
  <2>1. CASE b \in sending \cup sent
    <3>1. b \in Block /\ (b \in held \/ OnWire(b) \/ Reported("deleted", b))
      BY <2>1 DEF TypeOK, Believed
    <3>2. QED
      BY <3>1, BelievedKept
  <2>2. CASE b \notin sending \cup sent
    BY <2>2, SendingGrows, SentGrows
  <2>3. QED
    BY <2>1, <2>2
<1>3. QED
  BY <1>1, <1>2, SpecTypeOK, PTL DEF Spec

\* No block is missing from the client's world for ever because the server
\* takes it for sent.
THEOREM SpecSentIsHeld == Spec => []SentIsHeld
<1>1. Believed => SentIsHeld
  BY DEF Believed, SentIsHeld
<1>2. QED
  BY <1>1, SpecBelieved, PTL

------------------------------------------------------------------------------
(* The send window *)

\* Outside the send phase m_blocks_sending only shrinks.
LEMMA OnlySendBlocksAdds ==
  ASSUME [Next]_vars, ~SendBlocks
  PROVE  sending' \subseteq sending
<1>1. CASE SendEdit
  BY <1>1 DEF SendEdit, SendChange, SetBlocksNotSent
<1>2. CASE HandleGotBlocks \/ HandleDeletedBlocks
  BY <1>2 DEF HandleGotBlocks, HandleDeletedBlocks, GotBlocks, SetBlocksNotSent
<1>3. CASE \E c \in Block : Dig(c) \/ DigRefused(c) \/ Place(c)
  BY <1>3 DEF Dig, DigRefused, Place, ResendBlockIfOnWire, SetBlocksNotSent
<1>4. CASE EmergeNotify
  BY <1>4 DEF EmergeNotify, SetBlocksNotSent
<1>5. CASE UNCHANGED sending
  BY <1>5
<1>6. QED
  BY <1>1, <1>2, <1>3, <1>4, <1>5, Zenon
     DEF Next, ServerStep, Outside, vars, EndEnv, EndEdits, EndPackets, EnvEdit,
         LuaSendBlock, UnloadBlock, Look, EmergeCancelled, DeleteBlock, PauseOver,
         BuildingOver, EmergePop, EmergeLoad, RecvBlock, RecvChange, MakeMesh,
         SendGotBlocks, clientVars

\* A block that stops being on its way only because it arrived is not on its
\* way any more.
LEMMA SentOrSending ==
  ASSUME TypeOK, [Next]_vars, ~SendBlocks, sending \cap sent = {}
  PROVE  sending' \cap sent' = {}
<1>1. CASE SendEdit
  BY <1>1 DEF SendEdit, SendChange, SetBlocksNotSent
<1>2. CASE HandleGotBlocks \/ HandleDeletedBlocks
  BY <1>2 DEF HandleGotBlocks, HandleDeletedBlocks, GotBlocks, SetBlocksNotSent
<1>3. CASE \E c \in Block : Dig(c) \/ DigRefused(c) \/ Place(c)
  BY <1>3 DEF Dig, DigRefused, Place, ResendBlockIfOnWire, SetBlocksNotSent
<1>4. CASE EmergeNotify
  BY <1>4 DEF EmergeNotify, SetBlocksNotSent
<1>5. CASE UNCHANGED <<sending, sent>>
  BY <1>5
<1>6. QED
  BY <1>1, <1>2, <1>3, <1>4, <1>5, Zenon
     DEF Next, ServerStep, Outside, vars, EndEnv, EndEdits, EndPackets, EnvEdit,
         LuaSendBlock, UnloadBlock, Look, EmergeCancelled, DeleteBlock, PauseOver,
         BuildingOver, EmergePop, EmergeLoad, RecvBlock, RecvChange, MakeMesh,
         SendGotBlocks, clientVars

\* The transfers under way stay within the client's share.
THEOREM SpecWindowKept == Spec => []WindowKept
<1>1. Init => WindowKept
  BY Parameters, FS_EmptySet DEF Init, WindowKept
<1>2. TypeOK /\ WindowKept /\ [Next]_vars => WindowKept'
  <2> SUFFICES ASSUME TypeOK, WindowKept, [Next]_vars PROVE WindowKept'
    OBVIOUS
  <2>1. /\ IsFiniteSet(sending) /\ Cardinality(sending) \in Nat
        /\ MaxSimul \in Nat
    BY BlocksFinite, Parameters DEF TypeOK
  <2>2. CASE ~SendBlocks
    <3>1. sending' \subseteq sending
      BY <2>2, OnlySendBlocksAdds
    <3>2. Cardinality(sending') <= Cardinality(sending) /\ Cardinality(sending') \in Nat
      BY <2>1, <3>1, FS_Subset, FS_CardinalityType
    <3>3. QED
      BY <2>1, <2>2, <3>2, SentOrSending DEF WindowKept
  <2>3. CASE SendBlocks
    <3>1. CASE UNCHANGED <<emerging, modified, nearestD, paused, sending, down2>>
      BY <2>3, <3>1 DEF WindowKept, SendBlocks
    <3>2. CASE \E S, E, T \in SUBSET Block : \E q \in Orders(T) :
             MaySearch /\ IsSearch(S, E) /\ T \subseteq S /\ SearchAndSend(S, E, T, q)
      <4>1. PICK S, E, T \in SUBSET Block : \E q \in Orders(T) :
             IsSearch(S, E) /\ T \subseteq S /\ SearchAndSend(S, E, T, q)
        BY <3>2
      <4>2. sending' = sending \cup T
        BY <4>1 DEF SearchAndSend
      <4>3. Cardinality(sending) + Cardinality(S) <= MaxSimul
        BY <4>1, SearchKeepsWindow DEF WindowKept
      <4>4. /\ IsFiniteSet(S) /\ Cardinality(S) \in Nat
            /\ IsFiniteSet(T) /\ Cardinality(T) \in Nat
            /\ Cardinality(T) <= Cardinality(S)
        BY <4>1, BlocksFinite, FS_Subset
      <4>5. /\ Cardinality(sending') \in Nat
            /\ Cardinality(sending') <= Cardinality(sending) + Cardinality(T)
        <5>1. /\ IsFiniteSet(sending \cap T) /\ Cardinality(sending \cap T) \in Nat
              /\ IsFiniteSet(sending \cup T) /\ Cardinality(sending \cup T) \in Nat
          BY <2>1, <4>4, FS_Union, FS_Intersection, FS_CardinalityType
        <5>2. Cardinality(sending \cup T) = Cardinality(sending) + Cardinality(T)
                                            - Cardinality(sending \cap T)
          BY <2>1, <4>4, FS_Union
        <5>3. QED
          BY <2>1, <4>2, <4>4, <5>1, <5>2
      <4>6. T \cap sent = {}
        BY <4>1 DEF IsSearch, Wanted
      <4>7. sent' = sent
        BY <2>3 DEF SendBlocks
      <4>8. QED
        BY <2>1, <4>2, <4>3, <4>4, <4>5, <4>6, <4>7 DEF WindowKept
    <3>3. QED
      BY <2>3, <3>1, <3>2, SendBlocksDoes
  <2>4. QED
    BY <2>2, <2>3
<1>3. QED
  BY <1>1, <1>2, SpecTypeOK, PTL DEF Spec


------------------------------------------------------------------------------
(* Nothing but the server's own edits gets to the client *)

\* The edit e of b is in the queue q of map edits or of node changes.
Waits(q, b, e) == \E i \in 1..Len(q) : q[i].b = b /\ q[i].e = e

\* The last data of b in the queue q of block data contains e.
LastHas(q, b, e) ==
  \E k \in 1..Len(q) :
    /\ q[k].b = b
    /\ \A j \in k..Len(q) : q[j].b = b => e \in q[j].data

\* Nothing but the server's own edits gets into the client's copy.
NothingInvented ==
  /\ \A b \in Block : copy[b] \subseteq content[b]
  /\ \A i \in 1..Len(down2) : down2[i].data \subseteq content[down2[i].b]
  /\ \A i \in 1..Len(down0) : down0[i].e \in content[down0[i].b]
  /\ \A i \in 1..Len(edits) : edits[i].e \in content[edits[i].b]

\* A queue without its first element, and with one element more.
LEMMA TailAt ==
  ASSUME NEW S, NEW q \in Seq(S), q # <<>>
  PROVE  /\ Len(q) \in Nat \ {0} /\ Len(Tail(q)) = Len(q) - 1
         /\ Head(q) = q[1]
         /\ \A i \in 1..Len(Tail(q)) : Tail(q)[i] = q[i + 1]
<1>1. Len(q) \in Nat \ {0} /\ Len(Tail(q)) = Len(q) - 1 /\ Head(q) = q[1]
  OBVIOUS
<1>2. \A i \in 1..Len(Tail(q)) : Tail(q)[i] = q[i + 1]
  OBVIOUS
<1>3. QED
  BY <1>1, <1>2

LEMMA AppendAt ==
  ASSUME NEW S, NEW q \in Seq(S), NEW m \in S
  PROVE  /\ Len(q) \in Nat /\ Len(Append(q, m)) = Len(q) + 1
         /\ Append(q, m)[Len(q) + 1] = m
         /\ \A i \in 1..Len(q) : Append(q, m)[i] = q[i]
<1>1. Len(q) \in Nat /\ Len(Append(q, m)) = Len(q) + 1
      /\ Append(q, m)[Len(q) + 1] = m
  OBVIOUS
<1>2. \A i \in 1..Len(q) : Append(q, m)[i] = q[i]
  OBVIOUS
<1>3. QED
  BY <1>1, <1>2

LEMMA ConcatAt ==
  ASSUME NEW S, NEW q \in Seq(S), NEW d \in Seq(S)
  PROVE  /\ Len(q) \in Nat /\ Len(d) \in Nat /\ Len(q \o d) = Len(q) + Len(d)
         /\ \A i \in 1..Len(q) : (q \o d)[i] = q[i]
         /\ \A i \in 1..Len(d) : (q \o d)[Len(q) + i] = d[i]
<1>1. Len(q) \in Nat /\ Len(d) \in Nat /\ Len(q \o d) = Len(q) + Len(d)
  OBVIOUS
<1>2. \A i \in 1..Len(q) : (q \o d)[i] = q[i]
  OBVIOUS
<1>3. \A i \in 1..Len(d) : (q \o d)[Len(q) + i] = d[i]
  OBVIOUS
<1>4. QED
  BY <1>1, <1>2, <1>3

\* Where an element of the changed queue comes from.
LEMMA FromTail ==
  ASSUME NEW S, NEW q \in Seq(S), q # <<>>, NEW i \in 1..Len(Tail(q))
  PROVE  i + 1 \in 1..Len(q) /\ Tail(q)[i] = q[i + 1]
<1> DEFINE n == Len(q)
           m == Len(Tail(q))
<1>1. n \in Nat \ {0} /\ m = n - 1 /\ Tail(q)[i] = q[i + 1]
  BY TailAt
<1>2. i \in 1..m
  OBVIOUS
<1> HIDE DEF n, m
<1>3. i + 1 \in 1..n
  BY <1>1, <1>2
<1>4. QED
  BY <1>1, <1>3 DEF n

LEMMA FromAppend ==
  ASSUME NEW S, NEW q \in Seq(S), NEW m \in S, NEW i \in 1..Len(Append(q, m))
  PROVE  \/ i \in 1..Len(q) /\ Append(q, m)[i] = q[i]
         \/ i = Len(q) + 1 /\ Append(q, m)[i] = m
<1> DEFINE n == Len(q)
           t == Len(Append(q, m))
<1>1. /\ n \in Nat /\ t = n + 1 /\ Append(q, m)[n + 1] = m
      /\ \A j \in 1..n : Append(q, m)[j] = q[j]
  BY AppendAt
<1>2. i \in 1..t
  OBVIOUS
<1> HIDE DEF n, t
<1>3. i \in 1..n \/ i = n + 1
  BY <1>1, <1>2
<1>4. QED
  BY <1>1, <1>3 DEF n

LEMMA FromConcat ==
  ASSUME NEW S, NEW q \in Seq(S), NEW d \in Seq(S), NEW i \in 1..Len(q \o d)
  PROVE  \/ i \in 1..Len(q) /\ (q \o d)[i] = q[i]
         \/ i - Len(q) \in 1..Len(d) /\ (q \o d)[i] = d[i - Len(q)]
<1> DEFINE n == Len(q)
           l == Len(d)
           t == Len(q \o d)
           r == q \o d
<1>1. /\ n \in Nat /\ l \in Nat /\ t = n + l
      /\ \A j \in 1..n : r[j] = q[j]
      /\ \A j \in 1..l : r[n + j] = d[j]
  BY ConcatAt
<1>2. i \in 1..t
  OBVIOUS
<1> HIDE DEF n, l, t, r
<1>3. i \in 1..n \/ (i - n \in 1..l /\ n + (i - n) = i)
  BY <1>1, <1>2
<1>4. (i \in 1..n /\ r[i] = q[i]) \/ (i - n \in 1..l /\ r[i] = d[i - n])
  <2>1. CASE i \in 1..n
    BY <1>1, <2>1
  <2>2. CASE i - n \in 1..l /\ n + (i - n) = i
    <3>1. r[n + (i - n)] = d[i - n]
      BY <1>1, <2>2
    <3>2. QED
      BY <2>2, <3>1
  <2>3. QED
    BY <1>3, <2>1, <2>2
<1>5. QED
  BY <1>4 DEF n, l, t, r

\* An edit is never undone.
LEMMA ContentGrows ==
  ASSUME TypeOK, [Next]_vars, NEW b \in Block
  PROVE  content[b] \subseteq content'[b]
<1>1. ASSUME NEW c \in Block, NEW kind, EditBlock(c, kind)
      PROVE  content[b] \subseteq content'[b]
  BY <1>1 DEF TypeOK, EditBlock
<1>2. CASE \E c \in Block, kind \in {"node", "other"} : EnvEdit(c, kind)
  BY <1>1, <1>2 DEF EnvEdit
<1>3. CASE \E c \in Block : Dig(c) \/ Place(c)
  BY <1>1, <1>3 DEF Dig, Place
<1>4. CASE content' = content
  BY <1>4
<1>5. QED
  BY <1>2, <1>3, <1>4, Zenon
     DEF Next, ServerStep, SendBlocks, SendEdit, EndEnv, EndEdits, EndPackets,
         HandleGotBlocks, HandleDeletedBlocks, Outside, LuaSendBlock, UnloadBlock,
         DigRefused, Look, EmergeCancelled, DeleteBlock, PauseOver, BuildingOver,
         EmergePop, EmergeLoad, EmergeNotify, RecvBlock, RecvChange, MakeMesh,
         SendGotBlocks, vars, serverVars

\* Who changes the queues.
LEMMA EditsMove ==
  ASSUME [Next]_vars
  PROVE  \/ edits' = edits
         \/ SendEdit
         \/ \E c \in Block, kind \in {"node", "other"} : EditBlock(c, kind)
BY Zenon
   DEF Next, ServerStep, SendBlocks, SendEdit, EndEnv, EndEdits, EndPackets,
       HandleGotBlocks, HandleDeletedBlocks, Outside, EnvEdit, Dig, Place,
       LuaSendBlock, UnloadBlock, DigRefused, Look, EmergeCancelled, DeleteBlock,
       PauseOver, BuildingOver, EmergePop, EmergeLoad, EmergeNotify, RecvBlock,
       RecvChange, MakeMesh, SendGotBlocks, vars, serverVars

LEMMA ChangesMove ==
  ASSUME [Next]_vars
  PROVE  \/ down0' = down0
         \/ SendEdit /\ SendChange(Head(edits))
         \/ RecvChange
BY Zenon
   DEF Next, ServerStep, SendBlocks, SendEdit, EndEnv, EndEdits, EndPackets,
       HandleGotBlocks, HandleDeletedBlocks, Outside, EnvEdit, Dig, Place,
       LuaSendBlock, UnloadBlock, DigRefused, Look, EmergeCancelled, DeleteBlock,
       PauseOver, BuildingOver, EmergePop, EmergeLoad, EmergeNotify, RecvBlock,
       RecvChange, MakeMesh, SendGotBlocks, vars, wireVars

LEMMA DataMoves ==
  ASSUME [Next]_vars
  PROVE  \/ down2' = down2
         \/ SendBlocks
         \/ \E c \in Block : LuaSendBlock(c)
         \/ RecvBlock
BY Zenon
   DEF Next, ServerStep, SendEdit, EndEnv, EndEdits, EndPackets,
       HandleGotBlocks, HandleDeletedBlocks, Outside, EnvEdit, Dig, Place,
       UnloadBlock, DigRefused, Look, EmergeCancelled, DeleteBlock,
       PauseOver, BuildingOver, EmergePop, EmergeLoad, EmergeNotify,
       RecvChange, MakeMesh, SendGotBlocks, vars, wireVars

LEMMA CopyMoves ==
  ASSUME [Next]_vars
  PROVE  copy' = copy \/ RecvBlock \/ RecvChange \/ \E c \in Block : DeleteBlock(c)
BY Zenon
   DEF Next, ServerStep, SendBlocks, SendEdit, EndEnv, EndEdits, EndPackets,
       HandleGotBlocks, HandleDeletedBlocks, Outside, EnvEdit, Dig, Place,
       LuaSendBlock, UnloadBlock, DigRefused, Look, EmergeCancelled,
       PauseOver, BuildingOver, EmergePop, EmergeLoad, EmergeNotify,
       MakeMesh, SendGotBlocks, vars, remoteVars

\* What the phase puts on the wire.
LEMMA SendBlocksData ==
  ASSUME TypeOK, SendBlocks
  PROVE  \/ UNCHANGED <<sending, down2>>
         \/ \E T \in SUBSET Block : \E q \in Orders(T) :
              sending' = sending \cup T /\ down2' = down2 \o BlockData(q)
BY SendBlocksDoes DEF SearchAndSend

\* The queue of edits, the node changes and the block data hold edits that the
\* server made.
LEMMA EditsMade ==
  ASSUME TypeOK, NothingInvented, [Next]_vars, NEW i \in 1..Len(edits')
  PROVE  edits'[i].e \in content'[edits'[i].b]
<1>1. /\ edits \in Seq(EditEvent)
      /\ \A j \in 1..Len(edits) : edits[j].b \in Block
      /\ \A j \in 1..Len(edits) : edits[j].e \in content[edits[j].b]
  <2>1. edits \in Seq(EditEvent)
    BY DEF TypeOK, EditEvent
  <2>2. \A j \in 1..Len(edits) : edits[j] \in EditEvent
    BY <2>1
  <2>3. QED
    BY <2>1, <2>2 DEF NothingInvented, EditEvent
<1>2. \A j \in 1..Len(edits) : edits[j].e \in content'[edits[j].b]
  BY <1>1, ContentGrows
<1>3. CASE edits' = edits
  BY <1>2, <1>3
<1>4. CASE SendEdit
  <2>1. edits # <<>> /\ edits' = Tail(edits)
    BY <1>4 DEF SendEdit
  <2>2. i + 1 \in 1..Len(edits) /\ edits'[i] = edits[i + 1]
    BY <1>1, <2>1, FromTail
  <2>3. QED
    BY <1>2, <2>2
<1>5. CASE \E c \in Block, kind \in {"node", "other"} : EditBlock(c, kind)
  <2>1. PICK c \in Block, kind \in {"node", "other"} : EditBlock(c, kind)
    BY <1>5
  <2> DEFINE m == [b |-> c, e |-> ops, kind |-> kind]
  <2>2. m \in EditEvent /\ m.b = c /\ m.e = ops
    BY DEF TypeOK, EditEvent
  <2>3. edits' = Append(edits, m) /\ ops \in content'[c]
    BY <2>1 DEF TypeOK, EditBlock
  <2> HIDE DEF m
  <2>4. \/ i \in 1..Len(edits) /\ edits'[i] = edits[i]
        \/ i = Len(edits) + 1 /\ edits'[i] = m
    BY <1>1, <2>2, <2>3, FromAppend
  <2>5. QED
    BY <1>2, <2>2, <2>3, <2>4
<1>6. QED
  BY <1>3, <1>4, <1>5, EditsMove

LEMMA ChangesMade ==
  ASSUME TypeOK, NothingInvented, [Next]_vars, NEW i \in 1..Len(down0')
  PROVE  down0'[i].e \in content'[down0'[i].b]
<1>1. /\ down0 \in Seq(Change)
      /\ \A j \in 1..Len(down0) : down0[j].b \in Block
      /\ \A j \in 1..Len(down0) : down0[j].e \in content[down0[j].b]
  <2>1. down0 \in Seq(Change)
    BY DEF TypeOK
  <2>2. \A j \in 1..Len(down0) : down0[j] \in Change
    BY <2>1
  <2>3. QED
    BY <2>1, <2>2 DEF NothingInvented, Change
<1>2. \A j \in 1..Len(down0) : down0[j].e \in content'[down0[j].b]
  BY <1>1, ContentGrows
<1>3. CASE down0' = down0
  BY <1>2, <1>3
<1>4. CASE SendEdit /\ SendChange(Head(edits))
  <2> DEFINE m == [b |-> Head(edits).b, e |-> Head(edits).e]
  <2>1. /\ edits # <<>> /\ down0' = Append(down0, m) /\ content' = content
        /\ m.b = Head(edits).b /\ m.e = Head(edits).e
    BY <1>4 DEF SendEdit, SendChange
  <2>2. edits \in Seq(EditEvent) /\ Head(edits) \in EditEvent
    BY <2>1, Take DEF TypeOK, EditEvent
  <2>3. m \in Change
    BY <2>2 DEF EditEvent, Change
  <2>4. Head(edits) = edits[1] /\ 1 \in 1..Len(edits)
    BY <2>1, <2>2, TailAt
  <2>5. m.e \in content'[m.b]
    BY <2>1, <2>4 DEF NothingInvented
  <2> HIDE DEF m
  <2>6. \/ i \in 1..Len(down0) /\ down0'[i] = down0[i]
        \/ i = Len(down0) + 1 /\ down0'[i] = m
    BY <1>1, <2>1, <2>3, FromAppend
  <2>7. QED
    BY <1>2, <2>5, <2>6
<1>5. CASE RecvChange
  <2>1. down0 # <<>> /\ down0' = Tail(down0)
    BY <1>5 DEF RecvChange
  <2>2. i + 1 \in 1..Len(down0) /\ down0'[i] = down0[i + 1]
    BY <1>1, <2>1, FromTail
  <2>3. QED
    BY <1>2, <2>2
<1>6. QED
  BY <1>3, <1>4, <1>5, ChangesMove

LEMMA DataMade ==
  ASSUME TypeOK, NothingInvented, [Next]_vars, NEW i \in 1..Len(down2')
  PROVE  down2'[i].data \subseteq content'[down2'[i].b]
<1>1. /\ down2 \in Seq(Wire)
      /\ \A j \in 1..Len(down2) : down2[j].b \in Block
      /\ \A j \in 1..Len(down2) : down2[j].data \subseteq content[down2[j].b]
  <2>1. down2 \in Seq(Wire)
    BY DEF TypeOK
  <2>2. \A j \in 1..Len(down2) : down2[j] \in Wire
    BY <2>1
  <2>3. QED
    BY <2>1, <2>2 DEF NothingInvented, Wire
<1>2. \A j \in 1..Len(down2) : down2[j].data \subseteq content'[down2[j].b]
  BY <1>1, ContentGrows
<1>3. CASE down2' = down2
  BY <1>2, <1>3
<1>4. CASE SendBlocks
  <2>1. content' = content
    BY <1>4 DEF SendBlocks
  <2>2. CASE \E T \in SUBSET Block : \E q \in Orders(T) :
               sending' = sending \cup T /\ down2' = down2 \o BlockData(q)
    <3>1. PICK T \in SUBSET Block : \E q \in Orders(T) : down2' = down2 \o BlockData(q)
      BY <2>2
    <3>2. PICK q \in Orders(T) : down2' = down2 \o BlockData(q)
      BY <3>1
    <3> DEFINE d == BlockData(q)
    <3>3. /\ d \in Seq(Wire)
          /\ \A j \in 1..Len(d) : d[j].data = content[d[j].b]
      BY BatchType
    <3>4. down2' = down2 \o d
      BY <3>2
    <3> HIDE DEF d
    <3>5. \/ i \in 1..Len(down2) /\ down2'[i] = down2[i]
          \/ i - Len(down2) \in 1..Len(d) /\ down2'[i] = d[i - Len(down2)]
      BY <1>1, <3>3, <3>4, FromConcat
    <3>6. QED
      BY <1>2, <2>1, <3>3, <3>5
  <2>3. QED
    BY <1>2, <1>4, <2>2, SendBlocksData
<1>5. CASE \E c \in Block : LuaSendBlock(c)
  <2>1. PICK c \in Block : LuaSendBlock(c)
    BY <1>5
  <2> DEFINE m == [b |-> c, data |-> content[c]]
  <2>2. m \in Wire /\ m.data \subseteq content[m.b]
    BY DEF TypeOK, Wire
  <2>3. down2' = Append(down2, m) /\ content' = content
    BY <2>1 DEF LuaSendBlock
  <2> HIDE DEF m
  <2>4. \/ i \in 1..Len(down2) /\ down2'[i] = down2[i]
        \/ i = Len(down2) + 1 /\ down2'[i] = m
    BY <1>1, <2>2, <2>3, FromAppend
  <2>5. QED
    BY <1>2, <2>2, <2>3, <2>4
<1>6. CASE RecvBlock
  <2>1. down2 # <<>> /\ down2' = Tail(down2)
    BY <1>6 DEF RecvBlock
  <2>2. i + 1 \in 1..Len(down2) /\ down2'[i] = down2[i + 1]
    BY <1>1, <2>1, FromTail
  <2>3. QED
    BY <1>2, <2>2
<1>7. QED
  BY <1>3, <1>4, <1>5, <1>6, DataMoves

\* The client's copy holds edits that the server made.
LEMMA CopyMade ==
  ASSUME TypeOK, NothingInvented, [Next]_vars, NEW b \in Block
  PROVE  copy'[b] \subseteq content'[b]
<1>1. copy[b] \subseteq content[b] /\ content[b] \subseteq content'[b]
  BY ContentGrows DEF NothingInvented
<1>2. CASE copy' = copy
  BY <1>1, <1>2
<1>3. CASE RecvBlock
  <2>1. /\ down2 # <<>> /\ content' = content
        /\ copy' = [copy EXCEPT ![Head(down2).b] = Head(down2).data]
    BY <1>3 DEF RecvBlock, serverVars
  <2>2. Head(down2) = down2[1] /\ 1 \in 1..Len(down2)
    BY <2>1, TailAt DEF TypeOK
  <2>3. Head(down2).data \subseteq content[Head(down2).b]
    BY <2>2 DEF NothingInvented
  <2>4. copy \in [Block -> SUBSET Nat]
    BY DEF TypeOK
  <2>5. QED
    BY <1>1, <2>1, <2>3, <2>4
<1>4. CASE RecvChange
  <2> DEFINE m == Head(down0)
  <2>1. /\ down0 # <<>> /\ content' = content
        /\ copy' = IF m.b \in held THEN [copy EXCEPT ![m.b] = @ \cup {m.e}] ELSE copy
    BY <1>4 DEF RecvChange, serverVars
  <2>2. m = down0[1] /\ 1 \in 1..Len(down0)
    BY <2>1, TailAt DEF TypeOK
  <2>3. m.e \in content[m.b]
    BY <2>2 DEF NothingInvented
  <2>4. copy \in [Block -> SUBSET Nat]
    BY DEF TypeOK
  <2> HIDE DEF m
  <2>5. QED
    BY <1>1, <2>1, <2>3, <2>4
<1>5. CASE \E c \in Block : DeleteBlock(c)
  <2>1. PICK c \in Block : DeleteBlock(c)
    BY <1>5
  <2>2. copy' = [copy EXCEPT ![c] = {}]
    BY <2>1 DEF DeleteBlock
  <2>3. QED
    BY <1>1, <2>2 DEF TypeOK
<1>6. QED
  BY <1>2, <1>3, <1>4, <1>5, CopyMoves

LEMMA InventedStep == TypeOK /\ NothingInvented /\ [Next]_vars => NothingInvented'
BY CopyMade, DataMade, ChangesMade, EditsMade, Zenon DEF NothingInvented

------------------------------------------------------------------------------
(* A block the server takes for sent is stale only after an overtaking *)

\* The edit e of b is with the client, or on a way there that nothing cuts off: an
\* edit that waits for the server thread will be told or will resend the block.
OnItsWay(b, e) ==
  \/ Waits(edits, b, e)
  \/ LastHas(down2, b, e)
  \/ ~OnWire(b) /\ (e \in copy[b] \/ Waits(down0, b, e))

Trusted(b) ==
  b \in sending \cup sent /\ b \notin overtaken /\ ~Reported("deleted", b)

NothingForgotten ==
  \A b \in Block : Trusted(b) => \A e \in content[b] : OnItsWay(b, e)

\* An element waits on until it is the first and is taken.
LEMMA WaitsInTail ==
  ASSUME NEW S, NEW q \in Seq(S), q # <<>>, NEW b, NEW e, Waits(q, b, e)
  PROVE  Waits(Tail(q), b, e) \/ (Head(q).b = b /\ Head(q).e = e)
<1> DEFINE n == Len(q)
           m == Len(Tail(q))
           t == Tail(q)
<1>1. /\ n \in Nat \ {0} /\ m = n - 1 /\ Head(q) = q[1]
      /\ \A i \in 1..m : t[i] = q[i + 1]
  BY TailAt
<1>2. PICK i \in 1..n : q[i].b = b /\ q[i].e = e
  BY DEF Waits
<1> HIDE DEF n, m, t
<1>3. CASE i = 1
  BY <1>1, <1>2, <1>3
<1>4. CASE i # 1
  <2>1. i - 1 \in 1..m /\ (i - 1) + 1 = i
    BY <1>1, <1>4
  <2>2. t[i - 1] = q[i]
    BY <1>1, <2>1
  <2>3. QED
    BY <1>2, <2>1, <2>2 DEF Waits, m, t
<1>5. QED
  BY <1>3, <1>4

LEMMA WaitsInAppend ==
  ASSUME NEW S, NEW q \in Seq(S), NEW m \in S, NEW b, NEW e,
         Waits(q, b, e) \/ (m.b = b /\ m.e = e)
  PROVE  Waits(Append(q, m), b, e)
<1> DEFINE n == Len(q)
           t == Append(q, m)
<1>1. /\ n \in Nat /\ Len(t) = n + 1 /\ t[n + 1] = m
      /\ \A i \in 1..n : t[i] = q[i]
  BY AppendAt
<1>2. Waits(q, b, e) => \E i \in 1..n : q[i].b = b /\ q[i].e = e
  BY DEF Waits
<1> HIDE DEF n, t
<1>3. Waits(t, b, e)
  BY <1>1, <1>2 DEF Waits
<1>4. QED
  BY <1>3 DEF t

\* The last data of b stays the last until the client takes it.
LEMMA LastInTail ==
  ASSUME NEW S, NEW q \in Seq(S), q # <<>>, NEW b, NEW e, LastHas(q, b, e)
  PROVE  \/ LastHas(Tail(q), b, e)
         \/ /\ Head(q).b = b /\ e \in Head(q).data
            /\ ~\E i \in 1..Len(Tail(q)) : Tail(q)[i].b = b
<1> DEFINE n == Len(q)
           m == Len(Tail(q))
           t == Tail(q)
<1>1. /\ n \in Nat \ {0} /\ m = n - 1 /\ Head(q) = q[1]
      /\ \A i \in 1..m : t[i] = q[i + 1]
  BY TailAt
<1>2. PICK k \in 1..n : /\ q[k].b = b
                        /\ \A j \in k..n : q[j].b = b => e \in q[j].data
  BY DEF LastHas
<1> HIDE DEF n, m, t
<1>3. ASSUME NEW i \in 1..m, i + 1 >= k, t[i].b = b
      PROVE  LastHas(t, b, e)
  <2>1. \A j \in i..m : t[j].b = b => e \in t[j].data
    <3> SUFFICES ASSUME NEW j \in i..m, t[j].b = b
                 PROVE  e \in t[j].data
      OBVIOUS
    <3>1. j \in 1..m /\ j + 1 \in k..n
      BY <1>1, <1>2, <1>3
    <3>2. t[j] = q[j + 1]
      BY <1>1, <3>1
    <3>3. QED
      BY <1>2, <3>1, <3>2
  <2>2. QED
    BY <1>3, <2>1 DEF LastHas, m, t
<1>4. CASE k # 1
  <2>1. k - 1 \in 1..m /\ (k - 1) + 1 = k /\ (k - 1) + 1 >= k
    BY <1>1, <1>4
  <2>2. t[k - 1] = q[k]
    BY <1>1, <2>1
  <2>3. LastHas(t, b, e)
    BY <1>2, <1>3, <2>1, <2>2
  <2>4. QED
    BY <2>3 DEF t
<1>5. CASE k = 1
  <2>1. k \in k..n
    BY <1>1, <1>5
  <2>2. Head(q).b = b /\ e \in Head(q).data
    BY <1>1, <1>2, <1>5, <2>1
  <2>3. (\E i \in 1..m : t[i].b = b) => LastHas(t, b, e)
    <3>1. \A i \in 1..m : i + 1 >= k
      BY <1>1, <1>5
    <3>2. QED
      BY <1>3, <3>1
  <2>4. QED
    BY <2>2, <2>3 DEF t, m
<1>6. QED
  BY <1>4, <1>5

\* Newer data of b has the edit as well.
LEMMA LastInAppend ==
  ASSUME NEW S, NEW q \in Seq(S), NEW m \in S, NEW b, NEW e,
         m.b = b => e \in m.data,
         LastHas(q, b, e) \/ m.b = b
  PROVE  LastHas(Append(q, m), b, e)
<1> DEFINE n == Len(q)
           t == Append(q, m)
<1>1. /\ n \in Nat /\ Len(t) = n + 1 /\ t[n + 1] = m
      /\ \A i \in 1..n : t[i] = q[i]
  BY AppendAt
<1>2. LastHas(q, b, e) =>
        \E k \in 1..n : /\ q[k].b = b
                        /\ \A j \in k..n : q[j].b = b => e \in q[j].data
  BY DEF LastHas
<1> HIDE DEF n, t
<1>3. CASE m.b = b
  <2>1. \A j \in (n + 1)..Len(t) : t[j].b = b => e \in t[j].data
    <3> SUFFICES ASSUME NEW j \in (n + 1)..Len(t)
                 PROVE  t[j].b = b => e \in t[j].data
      OBVIOUS
    <3>1. j = n + 1
      BY <1>1
    <3>2. QED
      BY <1>1, <1>3, <3>1
  <2>2. n + 1 \in 1..Len(t) /\ t[n + 1].b = b
    BY <1>1, <1>3
  <2>3. LastHas(t, b, e)
    BY <2>1, <2>2 DEF LastHas
  <2>4. QED
    BY <2>3 DEF t
<1>4. CASE LastHas(q, b, e)
  <2>1. PICK k \in 1..n : /\ q[k].b = b
                          /\ \A j \in k..n : q[j].b = b => e \in q[j].data
    BY <1>2, <1>4
  <2>2. \A j \in k..Len(t) : t[j].b = b => e \in t[j].data
    <3> SUFFICES ASSUME NEW j \in k..Len(t), t[j].b = b
                 PROVE  e \in t[j].data
      OBVIOUS
    <3>1. j = n + 1 \/ (j \in k..n /\ j \in 1..n)
      BY <1>1, <2>1
    <3>2. QED
      BY <1>1, <2>1, <3>1
  <2>3. k \in 1..Len(t) /\ t[k].b = b
    BY <1>1, <2>1
  <2>4. LastHas(t, b, e)
    BY <2>2, <2>3 DEF LastHas
  <2>5. QED
    BY <2>4 DEF t
<1>5. QED
  BY <1>3, <1>4

LEMMA LastInConcat ==
  ASSUME NEW S, NEW q \in Seq(S), NEW d \in Seq(S), NEW b, NEW e,
         \A i \in 1..Len(d) : d[i].b = b => e \in d[i].data,
         LastHas(q, b, e) \/ \E i \in 1..Len(d) : d[i].b = b
  PROVE  LastHas(q \o d, b, e)
<1> DEFINE n == Len(q)
           l == Len(d)
           t == q \o d
<1>1. /\ n \in Nat /\ l \in Nat /\ Len(t) = n + l
      /\ \A i \in 1..n : t[i] = q[i]
      /\ \A i \in 1..l : t[n + i] = d[i]
  BY ConcatAt
<1>2. LastHas(q, b, e) =>
        \E k \in 1..n : /\ q[k].b = b
                        /\ \A j \in k..n : q[j].b = b => e \in q[j].data
  BY DEF LastHas
<1>3. /\ \A i \in 1..l : d[i].b = b => e \in d[i].data
      /\ LastHas(q, b, e) \/ \E i \in 1..l : d[i].b = b
  OBVIOUS
<1> HIDE DEF n, l, t
<1>4. ASSUME NEW j \in 1..Len(t), j > n, t[j].b = b
      PROVE  e \in t[j].data
  <2>1. j - n \in 1..l /\ n + (j - n) = j
    BY <1>1, <1>4
  <2>2. t[n + (j - n)] = d[j - n]
    BY <1>1, <2>1
  <2>3. QED
    BY <1>3, <1>4, <2>1, <2>2
<1>5. CASE \E i \in 1..l : d[i].b = b
  <2>1. PICK i \in 1..l : d[i].b = b
    BY <1>5
  <2>2. n + i \in 1..Len(t) /\ t[n + i].b = b
    <3>1. n + i \in 1..Len(t)
      BY <1>1, <2>1
    <3>2. t[n + i] = d[i]
      BY <1>1, <2>1
    <3>3. QED
      BY <2>1, <3>1, <3>2
  <2>3. ASSUME NEW j \in (n + i)..Len(t)
        PROVE  j \in 1..Len(t) /\ j > n
    <3>1. n \in Nat /\ Len(t) \in Nat /\ i >= 1 /\ i \in Int
      BY <1>1, <2>1
    <3>2. j \in Int /\ n + i <= j /\ j <= Len(t)
      BY <3>1
    <3>3. QED
      BY <3>1, <3>2
  <2>4. \A j \in (n + i)..Len(t) : t[j].b = b => e \in t[j].data
    BY <1>4, <2>3
  <2>5. LastHas(t, b, e)
    BY <2>2, <2>4 DEF LastHas
  <2>6. QED
    BY <2>5 DEF t
<1>6. CASE LastHas(q, b, e)
  <2>1. PICK k \in 1..n : /\ q[k].b = b
                          /\ \A j \in k..n : q[j].b = b => e \in q[j].data
    BY <1>2, <1>6
  <2>2. \A j \in k..Len(t) : t[j].b = b => e \in t[j].data
    <3> SUFFICES ASSUME NEW j \in k..Len(t), t[j].b = b
                 PROVE  e \in t[j].data
      OBVIOUS
    <3>1. (j \in 1..Len(t) /\ j > n) \/ (j \in k..n /\ j \in 1..n)
      BY <1>1, <2>1
    <3>2. QED
      BY <1>1, <1>4, <2>1, <3>1
  <2>3. k \in 1..Len(t) /\ t[k].b = b
    BY <1>1, <2>1
  <2>4. LastHas(t, b, e)
    BY <2>2, <2>3 DEF LastHas
  <2>5. QED
    BY <2>4 DEF t
<1>7. QED
  BY <1>3, <1>5, <1>6

\* Only the send phase makes a block trusted.
LEMMA TrustedShrinks ==
  ASSUME TypeOK, [Next]_vars, ~SendBlocks, NEW b \in Block, Trusted(b)'
  PROVE  Trusted(b)
<1>1. b \in sending' \cup sent' /\ b \notin overtaken' /\ ~Reported("deleted", b)'
  BY DEF Trusted
<1>2. b \in sending \cup sent
  BY <1>1, OnlySendBlocksAdds, SentGrows
<1>3. ASSUME NEW X, SetBlocksNotSent(X) PROVE b \notin X /\ overtaken' = overtaken \ X
  BY <1>1, <1>3 DEF SetBlocksNotSent
<1>4. b \notin overtaken
  <2>1. CASE SendEdit
    BY <1>1, <1>3, <2>1 DEF SendEdit, SendChange
  <2>2. CASE HandleDeletedBlocks
    BY <1>1, <1>3, <2>2 DEF HandleDeletedBlocks
  <2>3. CASE \E c \in Block : Dig(c) \/ DigRefused(c) \/ Place(c)
    BY <1>1, <1>3, <2>3 DEF Dig, DigRefused, Place, ResendBlockIfOnWire
  <2>4. CASE EmergeNotify
    BY <1>1, <1>3, <2>4 DEF EmergeNotify
  <2>5. CASE overtaken' = overtaken
    BY <1>1, <2>5
  <2>6. QED
    BY <2>1, <2>2, <2>3, <2>4, <2>5, Zenon
       DEF Next, ServerStep, Outside, vars, EndEnv, EndEdits, EndPackets,
           HandleGotBlocks, EnvEdit, LuaSendBlock, UnloadBlock, Look,
           EmergeCancelled, DeleteBlock, PauseOver, BuildingOver, EmergePop,
           EmergeLoad, RecvBlock, RecvChange, MakeMesh, SendGotBlocks
<1>5. ~Reported("deleted", b)
  <2>1. CASE HandleGotBlocks
    BY <1>1, <2>1, TakeReport DEF HandleGotBlocks
  <2>2. CASE HandleDeletedBlocks
    <3>1. b \notin Head(up).blocks
      BY <1>3, <2>2 DEF HandleDeletedBlocks
    <3>2. QED
      BY <1>1, <2>2, <3>1, TakeReport DEF HandleDeletedBlocks
  <2>3. CASE SendGotBlocks
    <3>1. [kind |-> "got", blocks |-> meshOut] \in Report
      BY DEF TypeOK, Report
    <3>2. QED
      BY <1>1, <2>3, <3>1, AppendReport DEF SendGotBlocks
  <2>4. CASE \E c \in Block : DeleteBlock(c)
    <3>1. PICK c \in Block : DeleteBlock(c)
      BY <2>4
    <3>2. [kind |-> "deleted", blocks |-> {c}] \in Report
      BY DEF Report
    <3>3. QED
      BY <1>1, <3>1, <3>2, AppendReport DEF DeleteBlock
  <2>5. CASE up' = up
    BY <1>1, <2>5 DEF Reported
  <2>6. QED
    BY <2>1, <2>2, <2>3, <2>4, <2>5, Zenon
       DEF Next, ServerStep, Outside, vars, EndEnv, SendEdit, EndEdits, EndPackets,
           EnvEdit, LuaSendBlock, UnloadBlock, Dig, DigRefused, Place, Look,
           EmergeCancelled, PauseOver, BuildingOver, EmergePop, EmergeLoad,
           EmergeNotify, RecvBlock, RecvChange, MakeMesh, wireVars
<1>6. QED
  BY <1>2, <1>4, <1>5 DEF Trusted

\* An edit leaves the queue of edits as a node change, or its block is sent again.
LEMMA WaitsKept ==
  ASSUME TypeOK, [Next]_vars, ~SendBlocks, NEW b \in Block, NEW e,
         Trusted(b)', Waits(edits, b, e)
  PROVE  OnItsWay(b, e)'
<1>1. b \in sending' \cup sent' /\ b \notin overtaken'
  BY DEF Trusted
<1>2. edits \in Seq(EditEvent)
  BY DEF TypeOK, EditEvent
<1>3. CASE edits' = edits
  BY <1>3 DEF OnItsWay, Waits
<1>4. CASE SendEdit
  <2>1. edits # <<>> /\ edits' = Tail(edits)
    BY <1>4 DEF SendEdit
  <2>2. Waits(edits', b, e) \/ (Head(edits).b = b /\ Head(edits).e = e)
    BY <1>2, <2>1, WaitsInTail
  <2>3. CASE Head(edits).b = b /\ Head(edits).e = e
    <3>1. ~SetBlocksNotSent({Head(edits).b})
      BY <1>1, <2>3 DEF SetBlocksNotSent
    <3>2. SendChange(Head(edits)) /\ down2' = down2
      BY <1>4, <3>1 DEF SendEdit
    <3> DEFINE m == [b |-> Head(edits).b, e |-> Head(edits).e]
    <3>3. ~OnWire(b)'
      BY <1>1, <2>3, <3>2 DEF SendChange, OnWire
    <3>4. Head(edits) \in EditEvent
      BY <1>2, <2>1, Take
    <3>5. m \in Change /\ m.b = b /\ m.e = e /\ down0' = Append(down0, m)
      BY <2>3, <3>2, <3>4 DEF SendChange, Change, EditEvent
    <3> HIDE DEF m
    <3>6. down0 \in Seq(Change)
      BY DEF TypeOK
    <3>7. Waits(down0', b, e)
      BY <3>5, <3>6, WaitsInAppend
    <3>8. QED
      BY <3>3, <3>7 DEF OnItsWay, Waits
  <2>4. QED
    BY <2>2, <2>3 DEF OnItsWay, Waits
<1>5. CASE \E c \in Block, kind \in {"node", "other"} : EditBlock(c, kind)
  <2>1. PICK c \in Block, kind \in {"node", "other"} : EditBlock(c, kind)
    BY <1>5
  <2> DEFINE m == [b |-> c, e |-> ops, kind |-> kind]
  <2>2. m \in EditEvent /\ edits' = Append(edits, m)
    BY <2>1 DEF TypeOK, EditEvent, EditBlock
  <2> HIDE DEF m
  <2>3. Waits(edits', b, e)
    BY <1>2, <2>2, WaitsInAppend
  <2>4. QED
    BY <2>3 DEF OnItsWay, Waits
<1>6. QED
  BY <1>3, <1>4, <1>5, EditsMove

\* Data leaves the wire for the client's copy.
LEMMA DataKept ==
  ASSUME TypeOK, [Next]_vars, ~SendBlocks, NEW b \in Block, NEW e \in content[b],
         LastHas(down2, b, e)
  PROVE  OnItsWay(b, e)'
<1>1. down2 \in Seq(Wire)
  BY DEF TypeOK
<1>2. CASE down2' = down2
  BY <1>2 DEF OnItsWay, LastHas
<1>3. CASE \E c \in Block : LuaSendBlock(c)
  <2>1. PICK c \in Block : LuaSendBlock(c)
    BY <1>3
  <2> DEFINE m == [b |-> c, data |-> content[c]]
  <2>2. m \in Wire /\ (m.b = b => e \in m.data) /\ down2' = Append(down2, m)
    BY <2>1 DEF TypeOK, Wire, LuaSendBlock
  <2> HIDE DEF m
  <2>3. LastHas(down2', b, e)
    BY <1>1, <2>2, LastInAppend
  <2>4. QED
    BY <2>3 DEF OnItsWay, LastHas
<1>4. CASE RecvBlock
  <2>1. /\ down2 # <<>> /\ down2' = Tail(down2)
        /\ copy' = [copy EXCEPT ![Head(down2).b] = Head(down2).data]
    BY <1>4 DEF RecvBlock
  <2>2. \/ LastHas(down2', b, e)
        \/ /\ Head(down2).b = b /\ e \in Head(down2).data
           /\ ~\E i \in 1..Len(down2') : down2'[i].b = b
    BY <1>1, <2>1, LastInTail
  <2>3. CASE LastHas(down2', b, e)
    BY <2>3 DEF OnItsWay, LastHas
  <2>4. CASE /\ Head(down2).b = b /\ e \in Head(down2).data
             /\ ~\E i \in 1..Len(down2') : down2'[i].b = b
    <3>1. ~OnWire(b)'
      BY <2>4 DEF OnWire
    <3>2. e \in copy'[b]
      BY <2>1, <2>4 DEF TypeOK
    <3>3. QED
      BY <3>1, <3>2 DEF OnItsWay
  <2>5. QED
    BY <2>2, <2>3, <2>4
<1>5. QED
  BY <1>2, <1>3, <1>4, DataMoves

\* With no data of b on the wire, what the client has stays and the changes of b
\* reach it: the client has the block.
LEMMA CopyKept ==
  ASSUME TypeOK, Believed, [Next]_vars, ~SendBlocks, NEW b \in Block,
         NEW e \in content[b], Trusted(b), Trusted(b)', ~OnWire(b),
         e \in copy[b] \/ Waits(down0, b, e)
  PROVE  OnItsWay(b, e)'
<1>1. b \in held
  BY DEF Believed, Trusted
<1>2. down2 \in Seq(Wire) /\ down0 \in Seq(Change) /\ copy \in [Block -> SUBSET Nat]
  BY DEF TypeOK
<1>3. CASE \E c \in Block : LuaSendBlock(c)
  <2>1. PICK c \in Block : LuaSendBlock(c)
    BY <1>3
  <2> DEFINE m == [b |-> c, data |-> content[c]]
  <2>2. /\ m \in Wire /\ m.b = c /\ (m.b = b => e \in m.data)
        /\ down2' = Append(down2, m) /\ copy' = copy /\ down0' = down0
    BY <2>1 DEF TypeOK, Wire, LuaSendBlock, remoteVars
  <2> HIDE DEF m
  <2>3. CASE c = b
    <3>1. LastHas(down2', b, e)
      BY <1>2, <2>2, <2>3, LastInAppend
    <3>2. QED
      BY <3>1 DEF OnItsWay, LastHas
  <2>4. CASE c # b
    <3>1. ~OnWire(b)'
      BY <2>2, <2>4, AppendOnWire
    <3>2. QED
      BY <2>2, <3>1 DEF OnItsWay, Waits
  <2>5. QED
    BY <2>3, <2>4
<1>4. CASE RecvBlock
  <2>1. /\ down2 # <<>> /\ down2' = Tail(down2) /\ down0' = down0
        /\ copy' = [copy EXCEPT ![Head(down2).b] = Head(down2).data]
    BY <1>4 DEF RecvBlock
  <2>2. ~OnWire(b)' /\ Head(down2).b # b
    BY <2>1, TakeOnWire
  <2>3. copy'[b] = copy[b]
    BY <1>2, <2>1, <2>2
  <2>4. QED
    BY <2>1, <2>2, <2>3 DEF OnItsWay, Waits
<1>5. CASE down2' = down2
  <2>1. ~OnWire(b)'
    BY <1>5 DEF OnWire
  <2>2. CASE e \in copy[b]
    <3>1. CASE RecvChange
      <4>1. e \in copy'[b]
        BY <1>2, <2>2, <3>1 DEF RecvChange
      <4>2. QED
        BY <2>1, <4>1 DEF OnItsWay
    <3>2. CASE \E c \in Block : DeleteBlock(c)
      <4>1. PICK c \in Block : DeleteBlock(c)
        BY <3>2
      <4>2. [kind |-> "deleted", blocks |-> {c}] \in Report
        BY DEF Report
      <4>3. b = c => Reported("deleted", b)'
        BY <4>1, <4>2, AppendReport DEF DeleteBlock
      <4>4. b # c
        BY <4>3 DEF Trusted
      <4>5. e \in copy'[b]
        BY <1>2, <2>2, <4>1, <4>4 DEF DeleteBlock
      <4>6. QED
        BY <2>1, <4>5 DEF OnItsWay
    <3>3. CASE copy' = copy
      BY <2>1, <2>2, <3>3 DEF OnItsWay
    <3>4. ~RecvBlock \/ copy' = copy
      <4>1. ASSUME RecvBlock PROVE FALSE
        BY <1>2, <1>5, <4>1 DEF RecvBlock
      <4>2. QED
        BY <4>1
    <3>5. QED
      BY <3>1, <3>2, <3>3, <3>4, CopyMoves
  <2>3. CASE Waits(down0, b, e)
    <3>1. CASE down0' = down0
      BY <2>1, <2>3, <3>1 DEF OnItsWay, Waits
    <3>2. CASE SendEdit /\ SendChange(Head(edits))
      <4> DEFINE m == [b |-> Head(edits).b, e |-> Head(edits).e]
      <4>1. edits # <<>> /\ down0' = Append(down0, m)
        BY <3>2 DEF SendEdit, SendChange
      <4>2. m \in Change
        <5>1. Head(edits) \in EditEvent
          BY <4>1, Take DEF TypeOK, EditEvent
        <5>2. QED
          BY <5>1 DEF EditEvent, Change
      <4> HIDE DEF m
      <4>3. Waits(down0', b, e)
        BY <1>2, <2>3, <4>1, <4>2, WaitsInAppend
      <4>4. QED
        BY <2>1, <4>3 DEF OnItsWay, Waits
    <3>3. CASE RecvChange
      <4>1. down0 # <<>> /\ down0' = Tail(down0)
        BY <3>3 DEF RecvChange
      <4>2. Waits(down0', b, e) \/ (Head(down0).b = b /\ Head(down0).e = e)
        BY <1>2, <2>3, <4>1, WaitsInTail
      <4>3. Head(down0).b = b /\ Head(down0).e = e => e \in copy'[b]
        BY <1>1, <1>2, <3>3 DEF RecvChange
      <4>4. QED
        BY <2>1, <4>2, <4>3 DEF OnItsWay, Waits
    <3>4. QED
      BY <3>1, <3>2, <3>3, ChangesMove
  <2>4. QED
    BY <2>2, <2>3
<1>6. QED
  BY <1>3, <1>4, <1>5, DataMoves

\* The send phase puts the whole block on the wire.
LEMMA SendBlocksKeeps ==
  ASSUME TypeOK, NothingForgotten, SendBlocks, NEW b \in Block, Trusted(b)',
         NEW e \in content[b]
  PROVE  OnItsWay(b, e)'
<1>1. UNCHANGED <<edits, copy, down0, sent, overtaken, up>>
  BY DEF SendBlocks, remoteVars
<1>2. b \in sending' \cup sent /\ (b \in sending \cup sent => Trusted(b))
  BY <1>1 DEF Trusted, Reported
<1>3. CASE UNCHANGED <<sending, down2>>
  <2>1. OnItsWay(b, e)
    BY <1>2, <1>3 DEF NothingForgotten
  <2>2. QED
    BY <1>1, <1>3, <2>1 DEF OnItsWay, Waits, LastHas, OnWire
<1>4. CASE \E T \in SUBSET Block : \E q \in Orders(T) :
             sending' = sending \cup T /\ down2' = down2 \o BlockData(q)
  <2>1. PICK T \in SUBSET Block : \E q \in Orders(T) :
             sending' = sending \cup T /\ down2' = down2 \o BlockData(q)
    BY <1>4
  <2>2. PICK q \in Orders(T) :
             sending' = sending \cup T /\ down2' = down2 \o BlockData(q)
    BY <2>1
  <2>3. OnWire(b)' <=> OnWire(b) \/ b \in T
    BY <2>2, BatchOnWire
  <2> DEFINE d == BlockData(q)
  <2>4. /\ d \in Seq(Wire)
        /\ \A i \in 1..Len(d) : d[i].data = content[d[i].b]
        /\ \A t \in T : \E i \in 1..Len(d) : d[i].b = t
    BY BatchType
  <2>5. down2' = down2 \o d /\ down2 \in Seq(Wire)
    BY <2>2 DEF TypeOK
  <2> HIDE DEF d
  <2>6. \A i \in 1..Len(d) : d[i].b = b => e \in d[i].data
    BY <2>4
  <2>7. LastHas(down2, b, e) \/ b \in T => LastHas(down2', b, e)
    BY <2>4, <2>5, <2>6, LastInConcat
  <2>8. CASE b \in T
    BY <2>7, <2>8 DEF OnItsWay, LastHas
  <2>9. CASE b \notin T
    <3>1. OnItsWay(b, e)
      BY <1>2, <2>2, <2>9 DEF NothingForgotten
    <3>2. OnWire(b)' <=> OnWire(b)
      BY <2>3, <2>9
    <3>3. CASE Waits(edits, b, e)
      BY <1>1, <3>3 DEF OnItsWay, Waits
    <3>4. CASE LastHas(down2, b, e)
      BY <2>7, <3>4 DEF OnItsWay, LastHas
    <3>5. CASE ~OnWire(b) /\ (e \in copy[b] \/ Waits(down0, b, e))
      BY <1>1, <3>2, <3>5 DEF OnItsWay, Waits
    <3>6. QED
      BY <3>1, <3>3, <3>4, <3>5 DEF OnItsWay
  <2>10. QED
    BY <2>8, <2>9
<1>5. QED
  BY <1>3, <1>4, SendBlocksData

\* A new edit of b waits for the server thread.
LEMMA NewEditWaits ==
  ASSUME TypeOK, [Next]_vars, NEW b \in Block, NEW e \in content'[b], e \notin content[b]
  PROVE  Waits(edits, b, e)'
<1>1. ASSUME NEW c \in Block, NEW kind \in {"node", "other"}, EditBlock(c, kind)
      PROVE  Waits(edits, b, e)'
  <2> DEFINE m == [b |-> c, e |-> ops, kind |-> kind]
  <2>1. /\ m \in EditEvent /\ m.b = c /\ m.e = ops /\ edits' = Append(edits, m)
        /\ edits \in Seq(EditEvent)
    BY <1>1 DEF TypeOK, EditEvent, EditBlock
  <2>2. c = b /\ e = ops
    BY <1>1 DEF TypeOK, EditBlock
  <2> HIDE DEF m
  <2>3. Waits(edits', b, e)
    BY <2>1, <2>2, WaitsInAppend
  <2>4. QED
    BY <2>3 DEF Waits
<1>2. CASE \E c \in Block, kind \in {"node", "other"} : EnvEdit(c, kind)
  BY <1>1, <1>2 DEF EnvEdit
<1>3. CASE \E c \in Block : Dig(c) \/ Place(c)
  BY <1>1, <1>3 DEF Dig, Place
<1>4. CASE content' = content
  BY <1>4
<1>5. QED
  BY <1>2, <1>3, <1>4, Zenon
     DEF Next, ServerStep, SendBlocks, SendEdit, EndEnv, EndEdits, EndPackets,
         HandleGotBlocks, HandleDeletedBlocks, Outside, LuaSendBlock, UnloadBlock,
         DigRefused, Look, EmergeCancelled, DeleteBlock, PauseOver, BuildingOver,
         EmergePop, EmergeLoad, EmergeNotify, RecvBlock, RecvChange, MakeMesh,
         SendGotBlocks, vars, serverVars

LEMMA ForgottenStep ==
  TypeOK /\ Believed /\ NothingForgotten /\ [Next]_vars => NothingForgotten'
<1> SUFFICES ASSUME TypeOK, Believed, NothingForgotten, [Next]_vars,
                    NEW b \in Block, Trusted(b)', NEW e \in content'[b]
             PROVE  OnItsWay(b, e)'
  BY Zenon DEF NothingForgotten
<1>1. CASE e \notin content[b]
  BY <1>1, NewEditWaits DEF OnItsWay
<1>2. CASE e \in content[b] /\ SendBlocks
  BY <1>2, SendBlocksKeeps
<1>3. CASE e \in content[b] /\ ~SendBlocks
  <2>1. Trusted(b)
    BY <1>3, TrustedShrinks
  <2>2. OnItsWay(b, e)
    BY <1>3, <2>1 DEF NothingForgotten
  <2>3. CASE Waits(edits, b, e)
    BY <1>3, <2>3, WaitsKept
  <2>4. CASE LastHas(down2, b, e)
    BY <1>3, <2>4, DataKept
  <2>5. CASE ~OnWire(b) /\ (e \in copy[b] \/ Waits(down0, b, e))
    BY <1>3, <2>1, <2>5, CopyKept
  <2>6. QED
    BY <2>2, <2>3, <2>4, <2>5 DEF OnItsWay
<1>4. QED
  BY <1>1, <1>2, <1>3

\* Of a block about which nothing is under way, every edit the server made is in
\* the client's copy.
LEMMA QuietIsCurrent ==
  ASSUME TypeOK, NothingInvented, NothingForgotten
  PROVE  StaleOnlyByOvertaking
<1> SUFFICES ASSUME NEW b \in sent, Quiet(b), b \notin overtaken
             PROVE  copy[b] = content[b]
  BY DEF StaleOnlyByOvertaking
<1>1. b \in Block /\ Trusted(b)
  BY DEF TypeOK, Trusted, Quiet
<1>2. ASSUME NEW e \in content[b] PROVE e \in copy[b]
  <2>1. OnItsWay(b, e)
    BY <1>1 DEF NothingForgotten
  <2>2. ~Waits(edits, b, e)
    BY DEF Quiet, EditQueued, Waits
  <2>3. ~LastHas(down2, b, e)
    BY DEF Quiet, OnWire, LastHas
  <2>4. ~Waits(down0, b, e)
    BY DEF Quiet, ChangeOnWire, Waits
  <2>5. QED
    BY <2>1, <2>2, <2>3, <2>4 DEF OnItsWay
<1>3. copy[b] \subseteq content[b]
  BY <1>1 DEF NothingInvented
<1>4. QED
  BY <1>2, <1>3

\* Whatever resends, deletions, early acknowledgements and late notices come
\* between, a block the server takes for sent and about which nothing is under way
\* is up to date at the client, or a node change overtook its data.
THEOREM SpecStaleOnlyByOvertaking == Spec => []StaleOnlyByOvertaking
<1>1. Init => NothingInvented /\ NothingForgotten
  BY DEF Init, NothingInvented, NothingForgotten
<1>2. QED
  BY <1>1, InventedStep, ForgottenStep, QuietIsCurrent, SpecTypeOK, SpecBelieved, PTL
     DEF Spec
==============================================================================

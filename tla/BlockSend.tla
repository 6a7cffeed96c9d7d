------------------------------ MODULE BlockSend ------------------------------
(***************************************************************************)
(* How the server brings map blocks to one client and keeps them current.   *)
(*                                                                          *)
(* RemoteClient remembers which blocks are on the wire (m_blocks_sending),  *)
(* which the client has acknowledged (m_blocks_sent), and how far from the  *)
(* player the next search begins (m_nearest_unsent_d).  Whole blocks travel *)
(* on channel 2, single node changes on channel 0, and acknowledgements and *)
(* deletions come back on channel 2: each channel is reliable and ordered   *)
(* (module OrderedDelivery), and nothing orders two channels.               *)
(*                                                                          *)
(* Three threads touch this state: the server thread, whose AsyncRunStep    *)
(* runs the phases send, env, edits, packets in that order; the emerge      *)
(* threads, which load blocks; and the client, with its mesh thread.        *)
(***************************************************************************)
EXTENDS Integers, Sequences, FiniteSets

CONSTANTS
    NumBlocks,  \* the blocks are 1..NumBlocks, in the order the search visits them
    Dist,       \* Dist[b]: the search radius (Chebyshev) at which b is visited
    Euclid,     \* Euclid[b]: center.getDistanceFrom(b), truncated
    FullD,      \* full_d_max
    MaxSimul,   \* m_max_simul_sends
    MaxTotal,   \* max_blocks_to_send
    EmergeLimit,\* how many blocks of this peer the emerge queue takes
    Worlds,     \* which blocks may be in memory at first
    MaxOps      \* bound: edits, deletions and other outside operations

Block == 1..NumBlocks

LimitedSends == 0   \* LIMITED_MAX_SIMULTANEOUS_BLOCK_SENDS
NoLimitD == 1       \* BLOCK_SEND_DISABLE_LIMITS_MAX_D
Increment == 2      \* max_d_increment_at_time

ASSUME BlockSendAssumption ==
    /\ NumBlocks \in Nat \ {0}
    /\ Dist \in [1..NumBlocks -> Nat]
    /\ Euclid \in [1..NumBlocks -> Nat]
    /\ \A a, b \in 1..NumBlocks : a <= b => Dist[a] <= Dist[b]
    /\ \A b \in 1..NumBlocks : Dist[b] <= Euclid[b]
    /\ FullD \in Nat
    /\ MaxSimul \in Nat \ {0}
    /\ MaxTotal \in Nat \ {0}
    /\ EmergeLimit \in Nat \ {0}
    /\ Worlds \subseteq SUBSET (1..NumBlocks)
    /\ MaxOps \in Nat

VARIABLES
    phase,      \* where the server thread is in AsyncRunStep
    content,    \* content[b]: the edits the server's block b contains
    edits,      \* m_unsent_map_edit_queue
    loaded,     \* the blocks in the server's memory
    emerging,   \* blocks of this client in the emerge queue
    emergeJob,  \* the emerge thread: idle, or at work on a block
    sending,    \* m_blocks_sending
    sent,       \* m_blocks_sent
    modified,   \* m_blocks_modified
    nearestD,   \* m_nearest_unsent_d
    paused,     \* m_nothing_to_send_pause_timer >= 0
    building,   \* m_time_from_building < m_min_time_from_building
    inSight,    \* the blocks that pass the sight and occlusion tests
    down2,      \* BLOCKDATA on their way: [b |-> block, data |-> edits in it]
    down0,      \* ADDNODE/REMOVENODE on their way: [b |-> block, e |-> edit]
    up,         \* GOTBLOCKS and DELETEDBLOCKS on their way
    held,       \* the blocks in the client's map
    copy,       \* copy[b]: the edits the client's block b contains
    meshQ,      \* blocks queued for a mesh with ack_block_to_server set
    meshOut,    \* finished meshes whose block is to be acknowledged
    overtaken,  \* history: a change of b left while BLOCKDATA of b was on the wire
    ops         \* outside operations so far

serverVars == <<phase, content, edits, loaded, emerging, emergeJob, inSight>>
clientVars == <<sending, sent, modified, nearestD, paused, building>>
wireVars == <<down2, down0, up>>
remoteVars == <<held, copy, meshQ, meshOut>>
vars == <<serverVars, clientVars, wireVars, remoteVars, overtaken, ops>>

------------------------------------------------------------------------------
(* Wires *)

Wire == [b : Block, data : SUBSET Nat]
Change == [b : Block, e : Nat]
Report == [kind : {"got", "deleted"}, blocks : SUBSET Block]

OnWire(b) == \E i \in 1..Len(down2) : down2[i].b = b

ChangeOnWire(b) == \E i \in 1..Len(down0) : down0[i].b = b

Reported(kind, b) ==
    \E i \in 1..Len(up) : up[i].kind = kind /\ b \in up[i].blocks

EditQueued(b) == \E i \in 1..Len(edits) : edits[i].b = b

------------------------------------------------------------------------------
Idle == [step |-> "idle", b |-> 1]

(* Initially the player has just become active. *)

Init ==
    /\ phase = "send"
    /\ content = [b \in Block |-> {}]
    /\ edits = <<>>
    /\ loaded \in Worlds
    /\ emerging = {}
    /\ emergeJob = Idle
    /\ inSight = Block
    /\ sending = {}
    /\ sent = {}
    /\ modified = {}
    /\ nearestD = 0
    /\ paused = FALSE
    /\ building = FALSE
    /\ down2 = <<>>
    /\ down0 = <<>>
    /\ up = <<>>
    /\ held = {}
    /\ copy = [b \in Block |-> {}]
    /\ meshQ = {}
    /\ meshOut = {}
    /\ overtaken = {}
    /\ ops = 0

------------------------------------------------------------------------------
(* RemoteClient *)

\* A bug would be to leave a block that is on the wire alone.
SetBlocksNotSent_KeepSending(S) ==
    /\ paused' = FALSE
    /\ sending' = sending
    /\ sent' = sent \ S
    /\ modified' = modified \cup (S \cap (sending \cup sent))
    /\ overtaken' = overtaken \ S

SetBlocksNotSent(S) ==
    /\ paused' = FALSE
    /\ sending' = sending \ S
    /\ sent' = sent \ S
    /\ modified' = modified \cup (S \cap (sending \cup sent))
    /\ overtaken' = overtaken \ S

ResendBlockIfOnWire(b) ==
    IF b \in sending
    THEN SetBlocksNotSent({b})
    ELSE UNCHANGED <<paused, sending, sent, modified, overtaken>>

GotBlocks(S) ==
    /\ sending' = sending \ S
    /\ sent' = sent \cup (S \cap sending)

------------------------------------------------------------------------------
(* RemoteClient::GetNextBlocks and Server::SendBlocks *)

Least(S) == CHOOSE x \in S : \A y \in S : x <= y

StartD ==
    IF nearestD > 0
    THEN Least({nearestD} \cup {Euclid[b] : b \in modified})
    ELSE nearestD

EndD == IF FullD > StartD + Increment THEN StartD + Increment ELSE FullD

Window == {b \in Block : StartD <= Dist[b] /\ Dist[b] <= EndD}

Wanted == {b \in Window : b \notin sending \cup sent /\ b \in inSight}

Budget(b) ==
    IF building /\ Dist[b] > NoLimitD THEN LimitedSends ELSE MaxSimul

Before(S, b) == {x \in S : x < b}

\* A bug would be to let one transfer too many start.
Room_OffByOne(S, b) == Cardinality(sending) + Cardinality(Before(S, b)) <= Budget(b)

Room(S, b) == Cardinality(sending) + Cardinality(Before(S, b)) < Budget(b)

\* The limit holds for a block that is in the queue already, too.
EmergeRoom(E, b) == Cardinality(emerging \cup Before(E, b)) < EmergeLimit

\* The search that selects S and enqueues E comes as far as b.
Reached(S, E, b) ==
    \A a \in Window : a <= b =>
        /\ Room(S, a)
        /\ a < b /\ a \in Wanted \ loaded => a \in E

IsSearch(S, E) ==
    /\ S = {b \in Wanted \cap loaded : Reached(S, E, b)}
    /\ E = {b \in Wanted \ loaded : Reached(S, E, b) /\ EmergeRoom(E, b)}

\* The blocks at which the search gave up, and among them those the emerge
\* queue had no room for.
Refused(S, E) == {b \in Wanted \ loaded : Reached(S, E, b) /\ b \notin E}

GaveUp(S, E) == {b \in Window : ~Reached(S, E, b)} \cup Refused(S, E)

Nearest(S) == Dist[Least(S)]

\* A bug would be never to start over.
NextNearest_NoWrap(S, E) ==
    IF E /= {} THEN Nearest(E) ELSE IF S /= {} THEN Nearest(S) ELSE EndD + 1

\* Where the next search begins.  A search that came to full_d_max with
\* nothing left to emerge starts over, after a pause.
NextNearest(S, E) ==
    IF E /= {} THEN Nearest(E)
    ELSE IF Refused(S, E) /= {} THEN Nearest(Refused(S, E))
    ELSE IF GaveUp(S, E) = {} /\ EndD = FullD THEN 0
    ELSE IF S /= {} THEN Nearest(S)
    ELSE IF GaveUp(S, E) = {} THEN EndD + 1
    ELSE Nearest(GaveUp(S, E))

Orders(T) ==
    {q \in [1..Cardinality(T) -> T] :
        \A t \in T : \E i \in 1..Cardinality(T) : q[i] = t}

BlockData(q) == [i \in DOMAIN q |-> [b |-> q[i], data |-> content[q[i]]]]

\* How many of n selected blocks the server as a whole may still send.
Allowed(n) ==
    LET left == MaxTotal - Cardinality(sending)
    IN  IF left <= 0 THEN 0 ELSE IF n <= left THEN n ELSE left

SearchAndSend(S, E, T, q) ==
    /\ emerging' = emerging \cup E
    /\ modified' = {}
    /\ nearestD' = NextNearest(S, E)
    /\ paused' = (E = {} /\ GaveUp(S, E) = {} /\ EndD = FullD)
    /\ sending' = sending \cup T
    /\ down2' = down2 \o BlockData(q)

MaySearch == ~paused /\ Cardinality(sending) < MaxSimul

SendBlocks ==
    /\ phase = "send"
    /\ phase' = "env"
    /\ \/ /\ ~MaySearch
          /\ UNCHANGED <<emerging, modified, nearestD, paused, sending, down2>>
       \/ /\ MaySearch
          /\ \E S, E \in SUBSET Block :
                /\ IsSearch(S, E)
                /\ \E T \in SUBSET S :
                      /\ Cardinality(T) = Allowed(Cardinality(S))
                      /\ \E q \in Orders(T) : SearchAndSend(S, E, T, q)
    /\ UNCHANGED <<content, edits, loaded, emergeJob, inSight, sent, building,
                   down0, up, remoteVars, overtaken, ops>>

------------------------------------------------------------------------------
(* The env phase: what ServerEnvironment::step and Lua do to the map *)

Operation == ops < MaxOps /\ ops' = ops + 1

\* The edit gets the number of the operation.
EditBlock(b, kind) ==
    /\ b \in loaded
    /\ Operation
    /\ content' = [content EXCEPT ![b] = @ \cup {ops}]
    /\ edits' = Append(edits, [b |-> b, e |-> ops, kind |-> kind])

\* A node changed by an ABM or by Lua, or whole blocks by a voxel
\* manipulator or a flowing liquid (MEET_OTHER).
EnvEdit(b, kind) ==
    /\ phase = "env"
    /\ EditBlock(b, kind)
    /\ UNCHANGED <<phase, loaded, emerging, emergeJob, inSight, clientVars,
                   wireVars, remoteVars, overtaken>>

\* Server::SendBlock, called by Lua: it leaves m_blocks_sending alone.
LuaSendBlock(b) ==
    /\ phase = "env"
    /\ b \in loaded /\ b \notin sent
    /\ Operation
    /\ down2' = Append(down2, [b |-> b, data |-> content[b]])
    /\ UNCHANGED <<phase, content, edits, loaded, emerging, emergeJob, inSight,
                   clientVars, down0, up, remoteVars, overtaken>>

\* Map::timerUpdate on the server saves and unloads a block long not used.
UnloadBlock(b) ==
    /\ phase = "env"
    /\ b \in loaded
    /\ Operation
    /\ loaded' = loaded \ {b}
    /\ UNCHANGED <<phase, content, edits, emerging, emergeJob, inSight,
                   clientVars, wireVars, remoteVars, overtaken>>

EndEnv ==
    /\ phase = "env"
    /\ phase' = "edits"
    /\ UNCHANGED <<content, edits, loaded, emerging, emergeJob, inSight,
                   clientVars, wireVars, remoteVars, overtaken, ops>>

------------------------------------------------------------------------------
(* The edits phase: the queued map edit events *)

\* The event goes out as one node change only to a client that has the block
\* and is near.
SingleChange(ev, far) == ev.kind = "node" /\ ev.b \in sent /\ ~far

SendChange(ev) ==
    /\ down0' = Append(down0, [b |-> ev.b, e |-> ev.e])
    /\ overtaken' = IF OnWire(ev.b) THEN overtaken \cup {ev.b} ELSE overtaken
    /\ UNCHANGED <<paused, sending, sent, modified>>

SendEdit ==
    /\ phase = "edits"
    /\ edits /= <<>>
    /\ edits' = Tail(edits)
    /\ \E far \in BOOLEAN :
          \/ SingleChange(Head(edits), far) /\ SendChange(Head(edits))
          \/ /\ ~SingleChange(Head(edits), far)
             /\ SetBlocksNotSent({Head(edits).b})
             /\ UNCHANGED down0
    /\ UNCHANGED <<phase, content, loaded, emerging, emergeJob, inSight, nearestD,
                   building, down2, up, remoteVars, ops>>

EndEdits ==
    /\ phase = "edits"
    /\ edits = <<>>
    /\ phase' = "packets"
    /\ UNCHANGED <<content, edits, loaded, emerging, emergeJob, inSight,
                   clientVars, wireVars, remoteVars, overtaken, ops>>

------------------------------------------------------------------------------
(* The packets phase: what the client sent *)

HandleGotBlocks ==
    /\ phase = "packets"
    /\ up /= <<>> /\ Head(up).kind = "got"
    /\ up' = Tail(up)
    /\ GotBlocks(Head(up).blocks)
    /\ UNCHANGED <<serverVars, modified, nearestD, paused, building, down2, down0,
                   remoteVars, overtaken, ops>>

HandleDeletedBlocks ==
    /\ phase = "packets"
    /\ up /= <<>> /\ Head(up).kind = "deleted"
    /\ up' = Tail(up)
    /\ SetBlocksNotSent(Head(up).blocks)
    /\ UNCHANGED <<serverVars, nearestD, building, down2, down0, remoteVars, ops>>

\* The player digs a node out of b.
Dig(b) ==
    /\ phase = "packets"
    /\ EditBlock(b, "node")
    /\ ResendBlockIfOnWire(b)
    /\ UNCHANGED <<phase, loaded, emerging, emergeJob, inSight, nearestD,
                   building, wireVars, remoteVars>>

\* The server refuses the dig, and sends the block again to undo it.
DigRefused(b) ==
    /\ phase = "packets"
    /\ b \in loaded
    /\ Operation
    /\ SetBlocksNotSent({b})
    /\ UNCHANGED <<serverVars, nearestD, building, wireVars, remoteVars>>

\* The player places a node the client has already predicted.
Place(b) ==
    /\ phase = "packets"
    /\ EditBlock(b, "node")
    /\ SetBlocksNotSent({b})
    /\ building' = TRUE
    /\ UNCHANGED <<phase, loaded, emerging, emergeJob, inSight, nearestD,
                   wireVars, remoteVars>>

EndPackets ==
    /\ phase = "packets"
    /\ phase' = "send"
    /\ UNCHANGED <<content, edits, loaded, emerging, emergeJob, inSight,
                   clientVars, wireVars, remoteVars, overtaken, ops>>

\* The player looks or moves elsewhere.  A small change does not restart the
\* search, a large one does.
Look(S) ==
    /\ phase = "packets"
    /\ S /= inSight
    /\ Operation
    /\ inSight' = S
    /\ nearestD' \in {nearestD, 0}
    /\ UNCHANGED <<phase, content, edits, loaded, emerging, emergeJob, sending,
                   sent, modified, paused, building, wireVars, remoteVars,
                   overtaken>>

------------------------------------------------------------------------------
(* Time *)

PauseOver ==
    /\ paused
    /\ paused' = FALSE
    /\ UNCHANGED <<serverVars, sending, sent, modified, nearestD, building,
                   wireVars, remoteVars, overtaken, ops>>

BuildingOver ==
    /\ building
    /\ building' = FALSE
    /\ UNCHANGED <<serverVars, sending, sent, modified, nearestD, paused,
                   wireVars, remoteVars, overtaken, ops>>

------------------------------------------------------------------------------
(* The emerge thread.  It takes the block out of the queue first, makes it  *)
(* visible under the environment's lock, and tells the clients only later.  *)

EmergePop(b) ==
    /\ emergeJob.step = "idle"
    /\ b \in emerging
    /\ emerging' = emerging \ {b}
    /\ emergeJob' = [step |-> "popped", b |-> b]
    /\ UNCHANGED <<phase, content, edits, loaded, inSight, clientVars, wireVars,
                   remoteVars, overtaken, ops>>

\* The block comes from memory, from disk or from the map generator.
EmergeLoad ==
    /\ emergeJob.step = "popped"
    /\ loaded' = loaded \cup {emergeJob.b}
    /\ emergeJob' = [step |-> "loaded", b |-> emergeJob.b]
    /\ UNCHANGED <<phase, content, edits, emerging, inSight, clientVars,
                   wireVars, remoteVars, overtaken, ops>>

\* The block is being made already (EMERGE_CANCELLED).
EmergeCancelled ==
    /\ emergeJob.step = "popped"
    /\ Operation
    /\ emergeJob' = Idle
    /\ UNCHANGED <<phase, content, edits, loaded, emerging, inSight, clientVars,
                   wireVars, remoteVars, overtaken>>

EmergeNotify ==
    /\ emergeJob.step = "loaded"
    /\ emergeJob' = Idle
    /\ SetBlocksNotSent({emergeJob.b})
    /\ UNCHANGED <<phase, content, edits, loaded, emerging, inSight, nearestD,
                   building, wireVars, remoteVars, ops>>

------------------------------------------------------------------------------
(* The client *)

\* A bug would be to acknowledge a block only when it is new.
RecvBlock_AckNew ==
    /\ down2 /= <<>>
    /\ down2' = Tail(down2)
    /\ held' = held \cup {Head(down2).b}
    /\ copy' = [copy EXCEPT ![Head(down2).b] = Head(down2).data]
    /\ meshQ' = IF Head(down2).b \in held THEN meshQ ELSE meshQ \cup {Head(down2).b}
    /\ UNCHANGED <<serverVars, clientVars, down0, up, meshOut, overtaken, ops>>

RecvBlock ==
    /\ down2 /= <<>>
    /\ down2' = Tail(down2)
    /\ held' = held \cup {Head(down2).b}
    /\ copy' = [copy EXCEPT ![Head(down2).b] = Head(down2).data]
    /\ meshQ' = meshQ \cup {Head(down2).b}
    /\ UNCHANGED <<serverVars, clientVars, down0, up, meshOut, overtaken, ops>>

\* A change of a block the client does not have is dropped.
RecvChange ==
    /\ down0 /= <<>>
    /\ down0' = Tail(down0)
    /\ LET m == Head(down0) IN
       copy' = IF m.b \in held THEN [copy EXCEPT ![m.b] = @ \cup {m.e}] ELSE copy
    /\ UNCHANGED <<serverVars, clientVars, down2, up, held, meshQ, meshOut,
                   overtaken, ops>>

\* The mesh thread takes a block, urgent ones first.
MakeMesh(b) ==
    /\ b \in meshQ
    /\ meshQ' = meshQ \ {b}
    /\ meshOut' = meshOut \cup {b}
    /\ UNCHANGED <<serverVars, clientVars, wireVars, held, copy, overtaken, ops>>

\* Whether or not the client still has the block.
SendGotBlocks ==
    /\ meshOut /= {}
    /\ meshOut' = {}
    /\ up' = Append(up, [kind |-> "got", blocks |-> meshOut])
    /\ UNCHANGED <<serverVars, clientVars, down2, down0, held, copy, meshQ,
                   overtaken, ops>>

\* A bug would be to unload the block and not tell the server.
DeleteBlock_Silent(b) ==
    /\ b \in held
    /\ Operation
    /\ held' = held \ {b}
    /\ copy' = [copy EXCEPT ![b] = {}]
    /\ UNCHANGED <<serverVars, clientVars, wireVars, meshQ, meshOut, overtaken>>

DeleteBlock(b) ==
    /\ b \in held
    /\ Operation
    /\ held' = held \ {b}
    /\ copy' = [copy EXCEPT ![b] = {}]
    /\ up' = Append(up, [kind |-> "deleted", blocks |-> {b}])
    /\ UNCHANGED <<serverVars, clientVars, down2, down0, meshQ, meshOut, overtaken>>

------------------------------------------------------------------------------
ServerStep ==
    \/ SendBlocks \/ EndEnv \/ SendEdit \/ EndEdits
    \/ HandleGotBlocks \/ HandleDeletedBlocks \/ EndPackets

Outside ==
    \/ \E b \in Block, kind \in {"node", "other"} : EnvEdit(b, kind)
    \/ \E b \in Block : LuaSendBlock(b) \/ UnloadBlock(b)
    \/ \E b \in Block : Dig(b) \/ DigRefused(b) \/ Place(b)
    \/ \E S \in SUBSET Block : Look(S)
    \/ EmergeCancelled
    \/ \E b \in Block : DeleteBlock(b)

Next ==
    \/ ServerStep
    \/ Outside
    \/ PauseOver
    \/ BuildingOver
    \/ \E b \in Block : EmergePop(b)
    \/ EmergeLoad
    \/ EmergeNotify
    \/ RecvBlock
    \/ RecvChange
    \/ \E b \in Block : MakeMesh(b)
    \/ SendGotBlocks

Spec == Init /\ [][Next]_vars

\* Every thread keeps running, time passes, and each reliable channel delivers
\* in the end: SF for the reports, because the server takes packets only in
\* one phase of its step, and for the emerge queue, because it is first in,
\* first out while the model takes any member.
Fairness ==
    /\ WF_vars(SendBlocks \/ EndEnv \/ SendEdit \/ EndEdits \/ EndPackets)
    /\ SF_vars(HandleGotBlocks \/ HandleDeletedBlocks)
    /\ WF_vars(PauseOver) /\ WF_vars(BuildingOver)
    /\ \A b \in Block : SF_vars(EmergePop(b))
    /\ WF_vars(EmergeLoad) /\ WF_vars(EmergeNotify)
    /\ WF_vars(RecvBlock) /\ WF_vars(RecvChange)
    /\ \A b \in Block : WF_vars(MakeMesh(b))
    /\ WF_vars(SendGotBlocks)

FairSpec == Spec /\ Fairness

------------------------------------------------------------------------------
(* Properties *)

\* The variables have their types; the radius stays within the search.
TypeOK ==
    /\ phase \in {"send", "env", "edits", "packets"}
    /\ content \in [Block -> SUBSET Nat]
    /\ edits \in Seq([b : Block, e : Nat, kind : {"node", "other"}])
    /\ loaded \in SUBSET Block /\ emerging \in SUBSET Block
    /\ emergeJob \in [step : {"idle", "popped", "loaded"}, b : Block]
    /\ inSight \in SUBSET Block
    /\ sending \in SUBSET Block /\ sent \in SUBSET Block
    /\ modified \in SUBSET Block
    /\ nearestD \in 0..FullD
    /\ paused \in BOOLEAN /\ building \in BOOLEAN
    /\ down2 \in Seq(Wire) /\ down0 \in Seq(Change) /\ up \in Seq(Report)
    /\ held \in SUBSET Block /\ copy \in [Block -> SUBSET Nat]
    /\ meshQ \in SUBSET Block /\ meshOut \in SUBSET Block
    /\ overtaken \in SUBSET Block
    /\ ops \in Nat

\* An acknowledgement of b will still come: its data is on the wire, in the
\* mesh thread's hands, or the acknowledgement itself is on the wire.
AckDue(b) ==
    OnWire(b) \/ b \in meshQ \/ b \in meshOut \/ Reported("got", b)

\* m_blocks_sending has no timeout, so a block that stays in it for good eats
\* a place of the send window for good.  It does not happen: whatever resends,
\* merged mesh updates and deletions come between, every block in it has an
\* acknowledgement outstanding.
SendingIsDue == \A b \in sending : AckDue(b)

\* The server does not believe the client has a block that it does not have
\* and will not get, unless the client's report that it deleted it is on the
\* way: or the block would be missing from the client's world for ever.
SentIsHeld ==
    \A b \in sent : b \in held \/ OnWire(b) \/ Reported("deleted", b)

\* The transfers under way never exceed the client's share, and a block is
\* not both on its way and arrived.
WindowKept == Cardinality(sending) <= MaxSimul /\ sending \cap sent = {}

\* Nothing about b is under way in either direction.
Quiet(b) ==
    /\ ~OnWire(b) /\ ~ChangeOnWire(b) /\ ~EditQueued(b)
    /\ ~Reported("deleted", b)
    /\ ~(emergeJob.step = "loaded" /\ emergeJob.b = b)

\* What m_blocks_sent claims: a block in it does not have to be sent again.
\* Once nothing about it is under way the client's copy is the server's.
UpToDate == \A b \in sent : Quiet(b) => copy[b] = content[b]

\* There is one way only to a stale block the server believes current: a
\* change sent on channel 0 while data of the same block was on channel 2.
\* Without that, resends, deletions, early acknowledgements and the emerge
\* thread's late notice leave every acknowledged block up to date.
StaleOnlyByOvertaking ==
    \A b \in sent : Quiet(b) /\ b \notin overtaken => copy[b] = content[b]

\* Once the player stands still and the world is left alone, every block in
\* sight gets to the client and is acknowledged: the search radius, lowered for
\* modified blocks and wrapped around at the far end, leaves none out for good.
AllArrive == <>[](\A b \in inSight : b \in sent /\ b \in held)

==============================================================================

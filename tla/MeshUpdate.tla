----------------------------- MODULE MeshUpdate -----------------------------
(***************************************************************************)
(* The client's meshes (client/mesh_generator_thread.cpp and its use in    *)
(* client.cpp): the main thread receives and edits blocks and queues them  *)
(* and their neighbours, with copies of the data around them; one thread   *)
(* makes the meshes; the main thread puts them in place and acknowledges   *)
(* the blocks it received.                                                 *)
(***************************************************************************)
EXTENDS Naturals, Sequences, FiniteSets, SequencesExt

CONSTANTS
  MeshBlocks,      (* block positions                                      *)
  NoMeshBlock,
  FacesOf,         (* of each, the neighbours that share a face            *)
  AroundOf,        (* of each, the 3 * 3 * 3 around it that matter         *)
  MAX_GOT_BLOCKS,  (* 255: positions in one message                        *)
  MaxChanges       (* bound: blocks received and changed                   *)

ASSUME MeshAssumption ==
  /\ NoMeshBlock \notin MeshBlocks
  /\ IsFiniteSet(MeshBlocks) /\ MAX_GOT_BLOCKS \in Nat \ {0} /\ MaxChanges \in Nat
  /\ \A p \in MeshBlocks : /\ FacesOf[p] \subseteq AroundOf[p] \ {p}
                           /\ p \in AroundOf[p] /\ AroundOf[p] \subseteq MeshBlocks
                           /\ \A q \in FacesOf[p] : p \in FacesOf[q]

VARIABLES
  cmap,            (* of each block its data: a number, 0 when not loaded  *)
  cmesh,           (* of each block the data its mesh was made of          *)
  m_cache,         (* copies: none, or the data and refcount_from_queue    *)
  m_queue, m_urgents,
  m_update_sem,
  meshw,           (* the thread                                           *)
  m_queue_out,
  tasks,           (* the main thread: calls of its handler still to do    *)
  replacing,       (* it is in the loop that replaces meshes               *)
  blocks_to_ack,
  meshStop,
  changes,         (* the last data given to a block                       *)
  unacked          (* history: blocks received, not acknowledged since     *)

meshVars == <<cmap, cmesh, m_cache, m_queue, m_urgents, m_update_sem, meshw, m_queue_out,
              tasks, replacing, blocks_to_ack, meshStop, changes, unacked>>
meshQueueVars == <<m_cache, m_queue, m_urgents>>
mainVars  == <<cmap, cmesh, tasks, replacing, blocks_to_ack, meshStop, changes, unacked>>

NotCached == [in |-> FALSE, data |-> 0, refcount |-> 0]
NoMesh    == [p \in MeshBlocks |-> 0]
NoMade    == [pc |-> "wait", p |-> NoMeshBlock, ack |-> FALSE, of |-> NoMesh]

MeshInit ==
  /\ cmap = NoMesh /\ cmesh = [p \in MeshBlocks |-> NoMesh]
  /\ m_cache = [p \in MeshBlocks |-> NotCached]
  /\ m_queue = <<>> /\ m_urgents = {} /\ m_update_sem = 0
  /\ meshw = NoMade /\ m_queue_out = <<>>
  /\ tasks = <<>> /\ replacing = FALSE /\ blocks_to_ack = <<>>
  /\ meshStop = FALSE /\ changes = 0 /\ unacked = {}

-----------------------------------------------------------------------------
(* MeshUpdateQueue, each operation under its mutex.                        *)

(* A variant that keeps a copy it has.                                     *)
cacheBlock_Kept(cache, p, force) ==
  IF cache[p].in THEN cache[p]
  ELSE [in |-> TRUE, data |-> cmap[p], refcount |-> cache[p].refcount]

cacheBlock(cache, p, force) ==
  IF cache[p].in /\ ~force THEN cache[p]
  ELSE [in |-> TRUE, data |-> cmap[p], refcount |-> cache[p].refcount]

MayGo_Any == {p \in MeshBlocks : m_cache[p].in}   \* a variant

(* Any copies that no entry of the queue needs may be old enough to go.    *)
cleanupCache(gone) ==
  [p \in MeshBlocks |-> IF p \in gone THEN NotCached ELSE m_cache[p]]

MayGo == {p \in MeshBlocks : m_cache[p].in /\ m_cache[p].refcount = 0}

QueuedAt(p) == {n \in DOMAIN m_queue : m_queue[n].p = p}

addBlock(p, ack, urgent) ==
  \E gone \in SUBSET MayGo :
    LET kept   == cleanupCache(gone)
        cached == [b \in MeshBlocks |->
                     IF b \in AroundOf[p] THEN cacheBlock(kept, b, b = p) ELSE kept[b]]
    IN  /\ m_urgents' = IF urgent THEN m_urgents \union {p} ELSE m_urgents
        /\ IF QueuedAt(p) # {}
           THEN /\ m_queue' = [n \in DOMAIN m_queue |->
                                 IF n \in QueuedAt(p)
                                 THEN [p |-> p, ack |-> m_queue[n].ack \/ ack]
                                 ELSE m_queue[n]]
                /\ m_cache' = cached
           ELSE /\ m_queue' = Append(m_queue, [p |-> p, ack |-> ack])
                /\ m_cache' = [b \in MeshBlocks |->
                                 IF b \in AroundOf[p]
                                 THEN [cached[b] EXCEPT !.refcount = @ + 1]
                                 ELSE cached[b]]

(* The first entry, or the first urgent one when there are any.            *)
Poppable == IF m_urgents = {} THEN DOMAIN m_queue
            ELSE {n \in DOMAIN m_queue : m_queue[n].p \in m_urgents}

fillDataFromMapBlockCache(p) ==
  [b \in MeshBlocks |-> IF b \in AroundOf[p] THEN m_cache[b].data ELSE 0]

-----------------------------------------------------------------------------
(* The main thread.                                                        *)

Task(op, p, ack, urgent) == [op |-> op, p |-> p, ack |-> ack, urgent |-> urgent]

(* addUpdateMeshTaskWithEdge: the block and its neighbours, those that      *)
(* exist.                                                                  *)
WithEdge(p) == <<p>> \o SetToSeq({q \in FacesOf[p] : cmap'[q] # 0})

(* addUpdateMeshTask for each of a sequence of blocks: it is queued, and   *)
(* then the thread is woken.                                               *)
UpdateTasks(ps, ack, urgent) ==
  [n \in 1 .. 2 * Len(ps) |->
     LET p == ps[(n + 1) \div 2]
     IN  Task(IF n % 2 = 1 THEN "add" ELSE "post", p, ack /\ n = 1, urgent)]

MainIsFree == tasks = <<>> /\ ~replacing /\ ~meshStop

ChangeBlock(p) == /\ changes < MaxChanges /\ changes' = changes + 1
                  /\ cmap' = [cmap EXCEPT ![p] = changes']

handleCommand_BlockData(p) ==
  /\ MainIsFree /\ ChangeBlock(p)
  /\ tasks' = UpdateTasks(WithEdge(p), TRUE, FALSE)
  /\ unacked' = unacked \union {p}
  /\ UNCHANGED <<cmesh, meshQueueVars, m_update_sem, meshw, m_queue_out, replacing,
                 blocks_to_ack, meshStop>>

(* addNode and removeNode: urgent, and nothing to acknowledge.             *)
EditMeshBlock(p) ==
  /\ MainIsFree /\ cmap[p] # 0 /\ ChangeBlock(p)
  /\ tasks' = UpdateTasks(WithEdge(p), FALSE, TRUE)
  /\ UNCHANGED <<cmesh, meshQueueVars, m_update_sem, meshw, m_queue_out, replacing,
                 blocks_to_ack, meshStop, unacked>>

AddTask ==
  /\ tasks # <<>> /\ Head(tasks).op = "add"
  /\ addBlock(Head(tasks).p, Head(tasks).ack, Head(tasks).urgent)
  /\ tasks' = Tail(tasks)
  /\ UNCHANGED <<cmap, cmesh, m_update_sem, meshw, m_queue_out, replacing, blocks_to_ack,
                 meshStop, changes, unacked>>

deferUpdate ==
  /\ tasks # <<>> /\ Head(tasks).op = "post"
  /\ m_update_sem' = m_update_sem + 1
  /\ tasks' = Tail(tasks)
  /\ UNCHANGED <<cmap, cmesh, meshQueueVars, meshw, m_queue_out, replacing, blocks_to_ack,
                 meshStop, changes, unacked>>

(* The map drops a block that was not used for long.                       *)
UnloadMeshBlock(p) ==
  /\ MainIsFree /\ cmap[p] # 0
  /\ cmap' = [cmap EXCEPT ![p] = 0]
  /\ cmesh' = [cmesh EXCEPT ![p] = NoMesh]
  /\ UNCHANGED <<meshQueueVars, m_update_sem, meshw, m_queue_out, tasks, replacing, blocks_to_ack,
                 meshStop, changes, unacked>>

(* Client::step: the meshes are put in place, those of blocks that are     *)
(* gone thrown away; acknowledgements go out when a message is full and at *)
(* the end.                                                                *)
BeginReplacing ==
  /\ MainIsFree /\ m_queue_out # <<>>
  /\ replacing' = TRUE
  /\ UNCHANGED <<cmap, cmesh, meshQueueVars, m_update_sem, meshw, m_queue_out, tasks,
                 blocks_to_ack, meshStop, changes, unacked>>

ReplaceMesh ==
  /\ replacing /\ m_queue_out # <<>>
  /\ LET r    == Head(m_queue_out)
         full == Len(blocks_to_ack) = MAX_GOT_BLOCKS
     IN  /\ cmesh' = IF cmap[r.p] = 0 THEN cmesh ELSE [cmesh EXCEPT ![r.p] = r.of]
         /\ IF ~r.ack THEN UNCHANGED <<blocks_to_ack, unacked>>
            ELSE /\ blocks_to_ack' = Append(IF full THEN <<>> ELSE blocks_to_ack, r.p)
                 /\ unacked' = IF full THEN unacked \ ToSet(blocks_to_ack) ELSE unacked
  /\ m_queue_out' = Tail(m_queue_out)
  /\ UNCHANGED <<cmap, meshQueueVars, m_update_sem, meshw, tasks, replacing, meshStop, changes>>

EndReplacing ==
  /\ replacing /\ m_queue_out = <<>>
  /\ replacing' = FALSE
  /\ unacked' = unacked \ ToSet(blocks_to_ack) /\ blocks_to_ack' = <<>>
  /\ UNCHANGED <<cmap, cmesh, meshQueueVars, m_update_sem, meshw, m_queue_out, tasks, meshStop,
                 changes>>

(* Client::Stop.                                                           *)
stopMesh ==
  /\ MainIsFree
  /\ meshStop' = TRUE
  /\ tasks' = <<Task("post", NoMeshBlock, FALSE, FALSE)>>
  /\ UNCHANGED <<cmap, cmesh, meshQueueVars, m_update_sem, meshw, m_queue_out, replacing,
                 blocks_to_ack, changes, unacked>>

-----------------------------------------------------------------------------
(* UpdateThread::run and MeshUpdateThread::doUpdate.                       *)

MeshAt(pc)   == meshw.pc = pc
MeshGoTo(pc) == meshw' = [NoMade EXCEPT !.pc = pc]

MeshLoop ==
  \/ /\ MeshAt("wait") /\ m_update_sem > 0
     /\ m_update_sem' = m_update_sem - 1
     /\ MeshGoTo("drain")
     /\ UNCHANGED <<meshQueueVars, m_queue_out>>
  \/ /\ MeshAt("drain")
     /\ IF m_update_sem > 0
        THEN m_update_sem' = m_update_sem - 1 /\ UNCHANGED meshw
        ELSE MeshGoTo("woken") /\ UNCHANGED m_update_sem
     /\ UNCHANGED <<meshQueueVars, m_queue_out>>
  \/ /\ MeshAt("woken")
     /\ MeshGoTo(IF meshStop THEN "ended" ELSE "pop")
     /\ UNCHANGED <<meshQueueVars, m_update_sem, m_queue_out>>
  \/ /\ MeshAt("pop") /\ Poppable = {}
     /\ MeshGoTo(IF meshStop THEN "ended" ELSE "wait")
     /\ UNCHANGED <<meshQueueVars, m_update_sem, m_queue_out>>

PopMesh ==
  /\ MeshAt("pop") /\ Poppable # {}
  /\ LET n == CHOOSE k \in Poppable : \A j \in Poppable : k <= j
         q == m_queue[n]
     IN  /\ m_queue' = RemoveAt(m_queue, n)
         /\ m_urgents' = m_urgents \ {q.p}
         /\ meshw' = [pc |-> "making", p |-> q.p, ack |-> q.ack,
                      of |-> fillDataFromMapBlockCache(q.p)]
         /\ m_cache' = [b \in MeshBlocks |->
                          IF b \in AroundOf[q.p] THEN [m_cache[b] EXCEPT !.refcount = @ - 1]
                          ELSE m_cache[b]]
  /\ UNCHANGED <<m_update_sem, m_queue_out>>

MeshIsMade ==
  /\ MeshAt("making")
  /\ m_queue_out' = Append(m_queue_out, [p |-> meshw.p, ack |-> meshw.ack, of |-> meshw.of])
  /\ MeshGoTo("pop")
  /\ UNCHANGED <<meshQueueVars, m_update_sem>>

MeshThread == (MeshLoop \/ PopMesh \/ MeshIsMade) /\ UNCHANGED mainVars
MainFinishes == AddTask \/ deferUpdate \/ BeginReplacing \/ ReplaceMesh \/ EndReplacing

MeshNext ==
  \/ \E p \in MeshBlocks : handleCommand_BlockData(p) \/ EditMeshBlock(p) \/ UnloadMeshBlock(p)
  \/ MainFinishes \/ stopMesh
  \/ MeshThread

-----------------------------------------------------------------------------
MeshTypeOK ==
  /\ cmap \in [MeshBlocks -> 0 .. MaxChanges]
  /\ \A p \in MeshBlocks : /\ m_cache[p].data \in 0 .. MaxChanges
                           /\ m_cache[p].refcount \in 0 .. Cardinality(MeshBlocks)
  /\ m_update_sem \in Nat /\ unacked \subseteq MeshBlocks
  /\ Len(blocks_to_ack) <= MAX_GOT_BLOCKS
  /\ meshw.pc \in {"wait", "drain", "woken", "pop", "making", "ended"}

(* Every entry of the queue holds the copies it will be made of, an entry  *)
(* that is urgent is there to be taken, and no block is queued twice.      *)
QueueIsSound ==
  /\ \A b \in MeshBlocks :
       m_cache[b].refcount =
         Cardinality({n \in DOMAIN m_queue : b \in AroundOf[m_queue[n].p]})
  /\ \A b \in MeshBlocks : m_cache[b].refcount > 0 => m_cache[b].in
  /\ \A p \in m_urgents : QueuedAt(p) # {}
  /\ \A p \in MeshBlocks : Cardinality(QueuedAt(p)) <= 1

ToBeMade(p) == \/ QueuedAt(p) # {}
               \/ meshw.pc = "making" /\ meshw.p = p
               \/ \E n \in DOMAIN m_queue_out : m_queue_out[n].p = p
               \/ \E n \in DOMAIN tasks : tasks[n].op = "add" /\ tasks[n].p = p

(* When no mesh of a block is on its way, the one it has shows the block   *)
(* and the neighbours that share a face with it as they are: a mesh made   *)
(* of older copies never comes after one made of newer.                    *)
MeshesAreCurrent ==
  \A p \in MeshBlocks : cmap[p] # 0 /\ ~ToBeMade(p) =>
    \A b \in FacesOf[p] \union {p} : cmap[b] # 0 => cmesh[p][b] = cmap[b]

(* A block that was received is acknowledged: the duty is in the queue, in *)
(* the thread, among the results or in the next message.                   *)
AckIsDue ==
  \A p \in unacked :
    \/ \E n \in DOMAIN tasks : tasks[n].op = "add" /\ tasks[n].p = p /\ tasks[n].ack
    \/ \E n \in DOMAIN m_queue : m_queue[n] = [p |-> p, ack |-> TRUE]
    \/ meshw.pc = "making" /\ meshw.p = p /\ meshw.ack
    \/ \E n \in DOMAIN m_queue_out : m_queue_out[n].p = p /\ m_queue_out[n].ack
    \/ p \in ToSet(blocks_to_ack)

MeshesFollowTheMap == MeshesAreCurrent /\ AckIsDue

(* What is to come to an end: a block to be acknowledged, a mesh to be     *)
(* made, while the client runs; its thread, when it is stopped.            *)
MeshIsBusy   == ~meshStop /\ (unacked # {} \/ \E p \in MeshBlocks : ToBeMade(p))
MeshIsEnding == meshStop /\ meshw.pc # "ended"
=============================================================================
